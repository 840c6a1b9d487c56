---------------------------- MODULE ProviderBank ----------------------------
(***************************************************************************)
(* The AI bank of one process (ai/application/bank.py): the profiles of a  *)
(* tenant, the routing of a request over its candidates, the semaphore of  *)
(* each profile name, the retries of a call, the circuit that failures     *)
(* open, and the accounting of every call.                                 *)
(*                                                                         *)
(* asyncio runs one step between two awaits; the awaits are the queries,   *)
(* the semaphore, the adapter's call and the accounting.  Adapters are     *)
(* external: a call returns, times out, or fails otherwise.  Units, which  *)
(* nothing enforces, and latencies are left out.                           *)
(*                                                                         *)
(* X_Y is X with one plausible bug; no specification uses it.              *)
(***************************************************************************)
EXTENDS Integers, Sequences, FiniteSets, SequencesExt

CONSTANTS
  Name,          \* profile names of the tenant, as numbers in their order
  Config,        \* profiles that its administrators may configure
  Inquiry,       \* [kind, capability, clearance] of the requests that come in
  Inquirer,      \* requests that may be in flight together
  Adapter,       \* provider codes with an adapter
  Threshold,     \* circuit_threshold
  MaxConfigured  \* bound on the changes of administrators

ASSUME BankAssumption ==
  /\ Name \subseteq Nat /\ IsFiniteSet(Name)
  /\ Threshold \in Nat \ {0}
  /\ MaxConfigured \in Nat
  /\ \A p \in Config :
       /\ p.name \in Name
       /\ p.kind \in {"llm", "embedding"}
       /\ p.concurrency \in Nat \ {0}
       /\ p.retries \in Nat
       /\ p.priority \in Nat

VARIABLES
  profile,     \* ai_provider_profiles: a configuration and whether it is enabled
  failures,    \* _failures
  open,        \* names whose _opened_until is still to come
  limit,       \* _semaphores: the limit each was made with, 0 before
  queue,       \* who waits for each semaphore, in order
  inquiry,     \* the requests in flight
  admin,       \* a candidate profile under test
  configured   \* changes of administrators so far

memoryVars == <<failures, open, limit, queue>>
bankVars == <<profile, memoryVars, inquiry, admin, configured>>

NoConfig == [kind |-> "none"]
Quiet == [step |-> "quiet"]

BankTypeOK ==
  /\ \A n \in Name : profile[n].cfg = NoConfig \/ profile[n].cfg.name = n
  /\ \A n \in Name : profile[n].enabled => profile[n].cfg \in Config
  /\ failures \in [Name -> 0..Threshold] /\ open \subseteq Name
  /\ \A n \in Name : limit[n] \in {0} \cup {p.concurrency : p \in Config}
  /\ \A r \in Inquirer : inquiry[r].step \in {"calling", "sleeping"} =>
       inquiry[r].attempt <= inquiry[r].at.retries

BankInit ==
  /\ \E chosen \in SUBSET Config :
       /\ \A p, q \in chosen : p.name = q.name => p = q
       /\ profile = [n \in Name |->
            IF \E p \in chosen : p.name = n
            THEN [enabled |-> TRUE, cfg |-> CHOOSE p \in chosen : p.name = n]
            ELSE [enabled |-> FALSE, cfg |-> NoConfig]]
  /\ failures = [n \in Name |-> 0]
  /\ open = {}
  /\ limit = [n \in Name |-> 0]
  /\ queue = [n \in Name |-> <<>>]
  /\ inquiry = [r \in Inquirer |-> Quiet]
  /\ admin = {}
  /\ configured = 0

-----------------------------------------------------------------------------
(* Administration.                                                         *)

\* configure: the candidate is tested and prepared while others go on.
configure_ai_profile == \E p \in Config :
  /\ admin = {}
  /\ configured < MaxConfigured
  /\ p.provider \in Adapter
  /\ admin' = {p}
  /\ configured' = configured + 1
  /\ UNCHANGED <<profile, memoryVars, inquiry>>

\* upsert: an embedding profile disables the others of its kind.
upsert(p) ==
  profile' = [m \in Name |->
    IF m = p.name THEN [enabled |-> TRUE, cfg |-> p]
    ELSE [profile[m] EXCEPT
           !.enabled = @ /\ ~(p.kind = "embedding" /\ profile[m].cfg.kind = "embedding")]]

\* Healthy, with the model, and prepared; or not.
ConfigureEnds == \E p \in admin :
  /\ admin' = {}
  /\ upsert(p) \/ UNCHANGED profile
  /\ UNCHANGED <<memoryVars, inquiry, configured>>

disable_ai_profile == \E n \in Name :
  /\ configured < MaxConfigured
  /\ profile[n].enabled
  /\ profile' = [profile EXCEPT ![n].enabled = FALSE]
  /\ configured' = configured + 1
  /\ UNCHANGED <<memoryVars, inquiry, admin>>

-----------------------------------------------------------------------------
(* Routing.                                                                *)

\* enabled, and active of which one row is taken.
Enabled(kind) ==
  {profile[n].cfg : n \in {m \in Name : profile[m].enabled /\ profile[m].cfg.kind = kind}}

Compatible(candidate, ask) ==
  /\ ask.clearance \in candidate.classifications
  /\ ask.kind = "llm" => {ask.capability, "general"} \cap candidate.capabilities # {}

\* provider_preference: the order of the provider codes; others come last.
Preferred(capability) ==
  CASE capability = "document_analysis"        -> <<"claude", "openai", "lm_studio">>
    [] capability = "presentation_composition" -> <<"openai", "claude", "lm_studio">>
    [] OTHER                                   -> <<"lm_studio", "openai", "claude">>

Preference(capability, provider) ==
  LET order == Preferred(capability)
  IN IF Contains(order, provider) THEN CHOOSE i \in 1..3 : order[i] = provider ELSE 50

\* The rows stay as the query ordered them.
Before_ByName(capability, x, y) ==
  \/ x.priority < y.priority
  \/ x.priority = y.priority /\ x.name < y.name
\* The rows come by priority and name, and the sort is stable.
Before(capability, x, y) ==
  LET rank(c) == <<c.priority, Preference(capability, c.provider), c.name>>
      a == rank(x)
      b == rank(y)
  IN \E i \in 1..3 : a[i] < b[i] /\ \A j \in 1..(i - 1) : a[j] = b[j]

\* The candidates in their order: one list, as names differ.
Sorted(candidates, capability) ==
  {s \in [1..Cardinality(candidates) -> candidates] :
     /\ ToSet(s) = candidates
     /\ \A j \in DOMAIN s : \A i \in 1..(j - 1) : Before(capability, s[i], s[j])}

\* _execute_llm_candidates and _profile read the rows: a list to be tried.
ask_bank(r) == \E ask \in Inquiry :
  /\ inquiry[r] = Quiet
  /\ LET found == {c \in Enabled(ask.kind) : Compatible(c, ask)}
     IN \E listed \in IF ask.kind = "llm" THEN Sorted(found, ask.capability)
                      ELSE {<<c>> : c \in found} \cup {<<>>} :
          /\ listed = <<>> => found = {} \/ \E c \in Enabled(ask.kind) : ~Compatible(c, ask)
          /\ inquiry' = [inquiry EXCEPT ![r] =
               [step |-> "routing", ask |-> ask, todo |-> listed, found |-> found,
                at |-> NoConfig, attempt |-> 0, refused |-> {}]]
  /\ UNCHANGED <<profile, memoryVars, admin, configured>>

Holds(r, n) == inquiry[r].step \in {"calling", "sleeping"} /\ inquiry[r].at.name = n
Holders(n) == {r \in Inquirer : Holds(r, n)}

\* asyncio.Semaphore: free, and nobody before.
Vacant(n, slots) == Cardinality(Holders(n)) < slots /\ queue[n] = <<>>

Skipped(c) == c.provider \notin Adapter \/ c.name \in open

\* The loop up to its next await: candidates without an adapter or with an
\* open circuit are passed over, the first other one is executed.  When none
\* is left, the caller is told that no provider is available.
TryNext(r) ==
  /\ inquiry[r].step = "routing"
  /\ LET old == inquiry[r]
         todo == old.todo
         next == SelectInSeq(todo, LAMBDA c : ~Skipped(c))
         passed == ToSet(IF next = 0 THEN todo ELSE SubSeq(todo, 1, next - 1))
     IN IF next = 0
        THEN /\ inquiry' = [inquiry EXCEPT ![r] = Quiet]
             /\ UNCHANGED memoryVars
        ELSE LET c == todo[next]
                 slots == IF limit[c.name] = 0 THEN c.concurrency ELSE limit[c.name]
                 enters == Vacant(c.name, slots)
             IN /\ inquiry' = [inquiry EXCEPT ![r] =
                     [old EXCEPT !.step = IF enters THEN "calling" ELSE "waiting",
                                 !.todo = SubSeq(todo, next + 1, Len(todo)),
                                 !.refused = old.refused \cup passed,
                                 !.at = c, !.attempt = 0]]
                /\ limit' = [limit EXCEPT ![c.name] = slots]
                /\ queue' = IF enters THEN queue ELSE [queue EXCEPT ![c.name] = Append(@, r)]
                /\ UNCHANGED <<failures, open>>
  /\ UNCHANGED <<profile, admin, configured>>

-----------------------------------------------------------------------------
(* _execute.                                                               *)

\* The next one is woken by a success only.
HandOver_OnSuccess(n, inq) ==
  IF queue[n] = <<>> \/ \E r \in Inquirer : inq[r].step = "failing" /\ inquiry[r].step = "calling"
  THEN /\ inquiry' = inq
       /\ UNCHANGED queue
  ELSE /\ inquiry' = [inq EXCEPT ![Head(queue[n])].step = "calling"]
       /\ queue' = [queue EXCEPT ![n] = Tail(@)]
\* Leaving the semaphore wakes the first of those who wait for it.
HandOver(n, inq) ==
  IF queue[n] = <<>> THEN /\ inquiry' = inq
                          /\ UNCHANGED queue
  ELSE /\ inquiry' = [inq EXCEPT ![Head(queue[n])].step = "calling"]
       /\ queue' = [queue EXCEPT ![n] = Tail(@)]

LastAttempt(r) == inquiry[r].attempt = inquiry[r].at.retries

\* The call returns.  The loop goes on all the same: only its last turn's
\* return ends the call, with the failures of the profile forgotten.
CallReturns(r) ==
  /\ inquiry[r].step = "calling"
  /\ IF LastAttempt(r)
     THEN LET n == inquiry[r].at.name
          IN /\ HandOver(n, [inquiry EXCEPT ![r].step = "succeeding"])
             /\ failures' = [failures EXCEPT ![n] = 0]
     ELSE /\ inquiry' = [inquiry EXCEPT ![r].attempt = @ + 1]
          /\ UNCHANGED <<queue, failures>>
  /\ UNCHANGED <<profile, open, limit, admin, configured>>

\* A failure counts, and may open the circuit.  Beyond the threshold the
\* count makes no difference, and stays there.
CountFailure(n) ==
  /\ failures' = [failures EXCEPT ![n] = IF @ < Threshold THEN @ + 1 ELSE @]
  /\ open' = IF failures[n] + 1 >= Threshold THEN open \cup {n} ELSE open

Raise(r) ==
  /\ HandOver(inquiry[r].at.name, [inquiry EXCEPT ![r].step = "failing"])
  /\ CountFailure(inquiry[r].at.name)

\* TimeoutError and OSError are tried again after a pause.
CallTimesOut(r) ==
  /\ inquiry[r].step = "calling"
  /\ IF LastAttempt(r) THEN Raise(r)
     ELSE /\ inquiry' = [inquiry EXCEPT ![r].step = "sleeping"]
          /\ UNCHANGED <<queue, failures, open>>
  /\ UNCHANGED <<profile, limit, admin, configured>>

WakesUp(r) ==
  /\ inquiry[r].step = "sleeping"
  /\ inquiry' = [inquiry EXCEPT ![r].step = "calling", ![r].attempt = @ + 1]
  /\ UNCHANGED <<profile, memoryVars, admin, configured>>

\* Any other exception ends the call.
CallFails(r) ==
  /\ inquiry[r].step = "calling"
  /\ Raise(r)
  /\ UNCHANGED <<profile, limit, admin, configured>>

\* account, in the finally: an answer, the next candidate, or the exception
\* of the database, which no one expects.
Account(r) ==
  /\ \/ /\ inquiry[r].step = "succeeding"
        /\ inquiry' = [inquiry EXCEPT ![r].step = "answered"]
     \/ /\ inquiry[r].step = "failing"
        /\ LET old == inquiry[r]
           IN inquiry' = [inquiry EXCEPT ![r] =
                [old EXCEPT !.step = "routing", !.refused = old.refused \cup {old.at},
                            !.at = NoConfig, !.attempt = 0]]
     \/ /\ inquiry[r].step \in {"succeeding", "failing"}
        /\ inquiry' = [inquiry EXCEPT ![r] = Quiet]
  /\ UNCHANGED <<profile, memoryVars, admin, configured>>

\* The task of the caller is cancelled, wherever it is.
Cancelled(r) ==
  /\ inquiry[r].step \in {"waiting", "calling", "sleeping"}
  /\ LET n == inquiry[r].at.name
         gone == [inquiry EXCEPT ![r] = Quiet]
     IN IF inquiry[r].step = "waiting"
        THEN /\ inquiry' = gone
             /\ queue' = [queue EXCEPT ![n] = RemoveFirst(@, r)]
        ELSE HandOver(n, gone)
  /\ UNCHANGED <<profile, failures, open, limit, admin, configured>>

Ends(r) ==
  /\ inquiry[r].step = "answered"
  /\ inquiry' = [inquiry EXCEPT ![r] = Quiet]
  /\ UNCHANGED <<profile, memoryVars, admin, configured>>

CoolsDown(n) ==
  /\ n \in open
  /\ open' = open \ {n}
  /\ UNCHANGED <<profile, failures, limit, queue, inquiry, admin, configured>>

Proceed(r) ==
  \/ TryNext(r)
  \/ CallReturns(r) \/ CallTimesOut(r) \/ CallFails(r)
  \/ WakesUp(r)
  \/ Account(r)
  \/ Ends(r)

BankNext ==
  \/ configure_ai_profile
  \/ ConfigureEnds
  \/ disable_ai_profile
  \/ \E r \in Inquirer : ask_bank(r) \/ Proceed(r) \/ Cancelled(r)
  \/ \E n \in Name : CoolsDown(n)

BankSpec == BankInit /\ [][BankNext]_bankVars

\* asyncio.timeout ends every call; everything else is local or a query.
BankFairSpec == BankSpec /\ \A r \in Inquirer : WF_bankVars(Proceed(r))

-----------------------------------------------------------------------------
(* Properties.                                                             *)

\* Whoever waits for a profile waits because as many calls as its semaphore
\* admits are under way: no failure, no cancellation leaves a slot unused
\* while there is a queue, and none lets one call too many in.
SlotsAreUsed ==
  \A n \in Name :
    /\ Cardinality(Holders(n)) <= limit[n]
    /\ queue[n] # <<>> => Cardinality(Holders(n)) = limit[n]

\* Every request to the bank ends, however its calls end.
InquiriesEnd == \A r \in Inquirer : inquiry[r] # Quiet ~> inquiry[r] = Quiet

\* "Use the best healthy policy-compatible LLM, then a bounded fallback": of
\* the profiles enabled when the request was routed, the one that answers is
\* compatible, and each compatible one with a better claim failed for this
\* very request or was passed over for an open circuit or a missing adapter.
\* The fallback crosses providers, in the code and here, which other documents
\* rule out: see NoCrossProviderFallback.
Better(capability, x, y) ==
  \/ x.priority < y.priority
  \/ /\ x.priority = y.priority
     /\ Preference(capability, x.provider) < Preference(capability, y.provider)

BestAnswers ==
  \A r \in Inquirer : inquiry[r].step = "answered" /\ inquiry[r].ask.kind = "llm" =>
    LET ask == inquiry[r].ask
    IN /\ Compatible(inquiry[r].at, ask)
       /\ \A c \in inquiry[r].found :
            Better(ask.capability, c, inquiry[r].at) => c \in inquiry[r].refused

\* docs/plans/F3_IMPLEMENTATION.md:38: "There is no automatic cross-provider
\* fallback."  A candidate of another provider answers once the adapter of the
\* first has failed: BestAnswers allows it because the bank goes on to it
\* (README.md, section 6).
NoCrossProviderFallback ==
  \A r \in Inquirer : inquiry[r].step = "answered" =>
    \A c \in inquiry[r].refused : c.provider = inquiry[r].at.provider

=============================================================================
