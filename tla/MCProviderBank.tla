--------------------------- MODULE MCProviderBank ---------------------------
(* Instances of ProviderBank for TLC. *)
EXTENDS ProviderBank, TLC

Local == [name |-> 1, kind |-> "llm", provider |-> "lm_studio", capabilities |-> {"general"},
          classifications |-> {"internal", "restricted"}, priority |-> 10,
          concurrency |-> 1, retries |-> 1]
Cloud == [Local EXCEPT !.name = 2, !.provider = "openai", !.classifications = {"internal"}, !.retries = 0]
Vectors == [Local EXCEPT !.kind = "embedding", !.capabilities = {}, !.retries = 0]

Configs == {Local, Cloud, Vectors}

Inquiries ==
  {[kind |-> "llm", capability |-> "presentation_composition", clearance |-> "internal"],
   [kind |-> "embedding", capability |-> "general", clearance |-> "internal"]}

=============================================================================
