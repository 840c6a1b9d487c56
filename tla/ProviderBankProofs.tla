------------------------- MODULE ProviderBankProofs -------------------------
(***************************************************************************)
(* Machine-checked proofs about ProviderBank, for every set of profiles,   *)
(* of requests in flight and of adapters, every concurrency, number of     *)
(* retries and threshold: the semaphores, and the order of the candidates. *)
(***************************************************************************)
EXTENDS ProviderBank, FiniteSetTheorems, SequenceTheorems, WellFoundedInduction, TLAPS

USE BankAssumption

-----------------------------------------------------------------------------
(* The shape of the state                                                  *)

Steps == {"routing", "waiting", "calling", "sleeping", "succeeding", "failing", "answered"}

ProfileRow == [enabled : BOOLEAN, cfg : Config \cup {NoConfig}]
InquiryRow ==
  [step : Steps, ask : Inquiry, todo : Seq(Config), found : SUBSET Config,
   at : Config \cup {NoConfig}, attempt : Nat, refused : SUBSET Config]

\* A request that has been routed has a candidate.
Routed(row) == row.step \notin {"quiet", "routing"} => row.at \in Config

Shapes ==
  /\ profile \in [Name -> ProfileRow]
  /\ \A n \in Name : profile[n].enabled => profile[n].cfg \in Config
  /\ admin \subseteq Config
  /\ limit \in [Name -> Nat]
  /\ queue \in [Name -> Seq(Inquirer)]
  /\ inquiry \in [Inquirer -> InquiryRow \cup {Quiet}]
  /\ \A r \in Inquirer : Routed(inquiry[r])

\* What a request that is not quiet looks like.
LEMMA RowOf ==
  ASSUME Shapes, NEW r \in Inquirer, inquiry[r].step # "quiet"
  PROVE  inquiry[r] \in InquiryRow
BY DEF Shapes, Quiet

\* The first position that passes a test, when there is one.
LEMMA SmallestIs ==
  ASSUME NEW n \in Nat, NEW I \in SUBSET (1..n), I # {}
  PROVE  Min(I) \in I
<1> DEFINE Less == OpToRel(<, Nat)
<1>1. Less = {p \in Nat \X Nat : p[1] < p[2]}
  BY DEF OpToRel
<1>2. IsWellFoundedOn(Less, Nat)
  BY NatLessThanWellFounded
<1> HIDE DEF Less
<1>3. I \subseteq Nat
  OBVIOUS
<1>4. PICK x \in I : \A y \in I : ~(<<y, x>> \in Less)
  BY <1>2, <1>3, WFMin
<1>5. ASSUME NEW y \in I PROVE x <= y
  <2>1. x \in Nat /\ y \in Nat
    BY <1>3
  <2>2. y < x => <<y, x>> \in Less
    BY <1>1, <2>1
  <2>3. ~(<<y, x>> \in Less)
    BY <1>4
  <2> QED
    BY <2>1, <2>2, <2>3
<1> QED
  BY <1>5 DEF Min

\* The next candidate of a list is one of it.
LEMMA NextOne ==
  ASSUME NEW todo \in Seq(Config)
  PROVE  LET next == SelectInSeq(todo, LAMBDA c : ~Skipped(c))
         IN next \in 0..Len(todo)
<1> DEFINE I == {i \in 1..Len(todo) : ~Skipped(todo[i])}
           next == SelectInSeq(todo, LAMBDA c : ~Skipped(c))
<1>1. next = IF I # {} THEN Min(I) ELSE 0
  BY DEF SelectInSeq
<1>2. I \in SUBSET (1..Len(todo)) /\ Len(todo) \in Nat
  OBVIOUS
<1>3. I # {} => Min(I) \in I
  BY <1>2, SmallestIs
<1>4. next \in 0..Len(todo)
  <2> HIDE DEF next
  <2>1. CASE I = {}
    BY <1>1, <1>2, <2>1
  <2>2. CASE I # {}
    <3> DEFINE m == Min(I)
    <3>1. next = m /\ m \in I
      BY <1>1, <1>3, <2>2
    <3> HIDE DEF m
    <3> QED
      BY <1>2, <3>1
  <2> QED
    BY <2>1, <2>2
<1> QED
  BY <1>4

\* Leaving a queue: what is before and what is behind.
LEMMA FirstOf ==
  ASSUME NEW S, NEW q \in Seq(S), NEW e, \E i \in 1..Len(q) : q[i] = e
  PROVE  \E i \in 1..Len(q) :
           /\ q[i] = e
           /\ RemoveFirst(q, e) = SubSeq(q, 1, i - 1) \o SubSeq(q, i + 1, Len(q))
<1> DEFINE I == {i \in 1..Len(q) : q[i] = e}
           first == SelectInSeq(q, LAMBDA v : v = e)
<1>1. I \in SUBSET (1..Len(q)) /\ Len(q) \in Nat /\ I # {}
  OBVIOUS
<1>2. first = Min(I)
  BY <1>1 DEF SelectInSeq
<1>3. first \in I
  BY <1>1, <1>2, SmallestIs
<1>4. RemoveFirst(q, e) = RemoveAt(q, first)
  BY DEF RemoveFirst
<1> HIDE DEF first
<1> QED
  BY <1>3, <1>4 DEF RemoveAt

-----------------------------------------------------------------------------
(* What a step does to a request                                           *)

Holding(row) == row.step \in {"calling", "sleeping"}
Becomes(r, row) == inquiry' = [inquiry EXCEPT ![r] = row]

\* Nothing that routing has decided is different.
Alike(x, y) ==
  /\ x.ask = y.ask /\ x.todo = y.todo /\ x.found = y.found
  /\ x.at = y.at /\ x.refused = y.refused

\* A request is routed: its candidates are compatible, and listed in order.
Asks(r, row) ==
  /\ inquiry[r] = Quiet
  /\ row \in InquiryRow
  /\ row.step = "routing" /\ row.refused = {} /\ row.at = NoConfig
  /\ \A c \in row.found : Compatible(c, row.ask)
  /\ row.ask.kind = "llm" =>
       /\ ToSet(row.todo) = row.found
       /\ \A j \in 1..Len(row.todo) : \A i \in 1..(j - 1) :
            Before(row.ask.capability, row.todo[i], row.todo[j])
  /\ Becomes(r, row)
  /\ UNCHANGED <<limit, queue>>

GivesUp(r) ==
  /\ inquiry[r].step = "routing"
  /\ Becomes(r, Quiet)
  /\ UNCHANGED <<limit, queue>>

Takes(r, row) ==
  /\ inquiry[r].step = "routing"
  /\ row \in InquiryRow
  /\ row.ask = inquiry[r].ask /\ row.found = inquiry[r].found
  /\ \E next \in 1..Len(inquiry[r].todo) :
       /\ row.at = inquiry[r].todo[next]
       /\ row.todo = SubSeq(inquiry[r].todo, next + 1, Len(inquiry[r].todo))
       /\ row.refused = inquiry[r].refused \cup ToSet(SubSeq(inquiry[r].todo, 1, next - 1))
  /\ Becomes(r, row)
  /\ LET n == row.at.name
         slots == IF limit[n] = 0 THEN row.at.concurrency ELSE limit[n]
     IN /\ limit' = [limit EXCEPT ![n] = slots]
        /\ \/ Vacant(n, slots) /\ row.step = "calling" /\ queue' = queue
           \/ /\ ~Vacant(n, slots) /\ row.step = "waiting"
              /\ queue' = [queue EXCEPT ![n] = Append(queue[n], r)]

Stays(r, row) ==
  /\ Holding(inquiry[r]) /\ Holding(row)
  /\ row \in InquiryRow /\ Alike(row, inquiry[r])
  /\ Becomes(r, row)
  /\ UNCHANGED <<limit, queue>>

Leaves(r, row) ==
  /\ Holding(inquiry[r])
  /\ \/ row = Quiet
     \/ /\ row \in InquiryRow /\ Alike(row, inquiry[r])
        /\ row.step \in {"succeeding", "failing"}
  /\ HandOver(inquiry[r].at.name, [inquiry EXCEPT ![r] = row])
  /\ UNCHANGED limit

Settled(r, row) ==
  /\ inquiry[r].step \in {"succeeding", "failing", "answered"}
  /\ \/ row = Quiet
     \/ row \in InquiryRow /\ Alike(row, inquiry[r]) /\ row.step = "answered"
     \/ /\ row \in InquiryRow /\ row.step = "routing"
        /\ row.ask = inquiry[r].ask /\ row.found = inquiry[r].found
        /\ row.todo = inquiry[r].todo
        /\ row.at = NoConfig /\ row.refused = inquiry[r].refused \cup {inquiry[r].at}
  /\ Becomes(r, row)
  /\ UNCHANGED <<limit, queue>>

StopsWaiting(r) ==
  /\ inquiry[r].step = "waiting"
  /\ Becomes(r, Quiet)
  /\ queue' = [queue EXCEPT ![inquiry[r].at.name] = RemoveFirst(queue[inquiry[r].at.name], r)]
  /\ UNCHANGED limit

LEMMA EnabledConfigs ==
  ASSUME Shapes, NEW kind
  PROVE  Enabled(kind) \in SUBSET Config /\ IsFiniteSet(Enabled(kind))
<1> DEFINE N == {m \in Name : profile[m].enabled /\ profile[m].cfg.kind = kind}
           f == [n \in N |-> profile[n].cfg]
<1>1. IsFiniteSet(N)
  BY FS_Subset
<1>2. Enabled(kind) = {f[n] : n \in N}
  BY DEF Enabled
<1>3. f \in [N -> Config]
  BY DEF Shapes
<1> HIDE DEF f, N
<1>4. f \in Surjection(N, {f[n] : n \in N})
  BY <1>3 DEF Surjection
<1>5. IsFiniteSet({f[n] : n \in N})
  BY <1>1, <1>4, FS_Surjection
<1> QED
  BY <1>2, <1>3, <1>5

LEMMA AskDoes ==
  ASSUME Shapes, NEW r \in Inquirer, ask_bank(r)
  PROVE  \E row : Asks(r, row)
<1>1. PICK ask \in Inquiry :
        /\ inquiry[r] = Quiet
        /\ LET found == {c \in Enabled(ask.kind) : Compatible(c, ask)}
           IN \E listed \in IF ask.kind = "llm" THEN Sorted(found, ask.capability)
                            ELSE {<<c>> : c \in found} \cup {<<>>} :
                /\ listed = <<>> => found = {} \/ \E c \in Enabled(ask.kind) : ~Compatible(c, ask)
                /\ inquiry' = [inquiry EXCEPT ![r] =
                     [step |-> "routing", ask |-> ask, todo |-> listed, found |-> found,
                      at |-> NoConfig, attempt |-> 0, refused |-> {}]]
        /\ UNCHANGED <<profile, memoryVars, admin, configured>>
  BY DEF ask_bank
<1> DEFINE found == {c \in Enabled(ask.kind) : Compatible(c, ask)}
<1>2. found \in SUBSET Config /\ IsFiniteSet(found) /\ Cardinality(found) \in Nat
  BY EnabledConfigs, FS_Subset, FS_CardinalityType
<1>3. \A c \in found : Compatible(c, ask)
  OBVIOUS
<1> HIDE DEF found
<1>4. PICK listed \in IF ask.kind = "llm" THEN Sorted(found, ask.capability)
                      ELSE {<<c>> : c \in found} \cup {<<>>} :
        inquiry' = [inquiry EXCEPT ![r] =
          [step |-> "routing", ask |-> ask, todo |-> listed, found |-> found,
           at |-> NoConfig, attempt |-> 0, refused |-> {}]]
  BY <1>1 DEF found
<1>5. /\ listed \in Seq(Config)
      /\ ask.kind = "llm" =>
           /\ ToSet(listed) = found
           /\ \A j \in 1..Len(listed) : \A i \in 1..(j - 1) :
                Before(ask.capability, listed[i], listed[j])
  <2>1. CASE ask.kind = "llm"
    <3>1. /\ listed \in [1..Cardinality(found) -> found] /\ ToSet(listed) = found
          /\ \A j \in DOMAIN listed : \A i \in 1..(j - 1) :
               Before(ask.capability, listed[i], listed[j])
      BY <1>4, <2>1 DEF Sorted
    <3>2. listed \in Seq(Config) /\ DOMAIN listed = 1..Len(listed)
      BY <1>2, <3>1, IsASeq
    <3> QED
      BY <3>1, <3>2
  <2>2. CASE ask.kind # "llm"
    <3>1. CASE listed = <<>>
      BY <2>2, <3>1, EmptySeq
    <3>2. ASSUME NEW c \in found, listed = <<c>> PROVE listed \in Seq(Config)
      BY <1>2, <3>2
    <3> QED
      BY <1>4, <2>2, <3>1, <3>2
  <2> QED
    BY <2>1, <2>2
<1> DEFINE row == [step |-> "routing", ask |-> ask, todo |-> listed, found |-> found,
                   at |-> NoConfig, attempt |-> 0, refused |-> {}]
<1>6. row \in InquiryRow
  BY <1>2, <1>5 DEF InquiryRow, Steps
<1>7. Asks(r, row)
  BY <1>1, <1>3, <1>4, <1>5, <1>6 DEF Asks, Becomes, memoryVars
<1> QED
  BY <1>7

\* Trying the next candidate ends the request or takes the next one.
LEMMA TryNextDoes ==
  ASSUME Shapes, NEW r \in Inquirer, TryNext(r)
  PROVE  GivesUp(r) \/ \E row : Takes(r, row)
<1> DEFINE old == inquiry[r]
           todo == inquiry[r].todo
           next == SelectInSeq(todo, LAMBDA c : ~Skipped(c))
           passed == ToSet(IF next = 0 THEN todo ELSE SubSeq(todo, 1, next - 1))
           c == todo[next]
           slots == IF limit[c.name] = 0 THEN c.concurrency ELSE limit[c.name]
           enters == Vacant(c.name, slots)
           row == [old EXCEPT !.step = IF enters THEN "calling" ELSE "waiting",
                              !.todo = SubSeq(todo, next + 1, Len(todo)),
                              !.refused = old.refused \cup passed,
                              !.at = c, !.attempt = 0]
<1>1. /\ old \in InquiryRow /\ old.step = "routing"
      /\ todo \in Seq(Config)
  BY RowOf DEF TryNext, InquiryRow
<1>2. next \in 0..Len(todo)
  BY <1>1, NextOne
<1>3. CASE next = 0
  BY <1>1, <1>3 DEF TryNext, GivesUp, Becomes, memoryVars
<1>4. CASE next # 0
  <2>1. /\ inquiry' = [inquiry EXCEPT ![r] = row]
        /\ limit' = [limit EXCEPT ![c.name] = slots]
        /\ queue' = IF enters THEN queue
                    ELSE [queue EXCEPT ![c.name] = Append(queue[c.name], r)]
    BY <1>4 DEF TryNext
  <2>2. /\ next \in 1..Len(todo) /\ c \in Config
        /\ SubSeq(todo, next + 1, Len(todo)) \in Seq(Config)
        /\ SubSeq(todo, 1, next - 1) \in Seq(Config)
        /\ passed = ToSet(SubSeq(todo, 1, next - 1))
    <3> HIDE DEF next
    <3>1. next \in 1..Len(todo) /\ Len(todo) \in Nat
      BY <1>1, <1>2, <1>4
    <3>2. \A i \in 1..Len(todo) : todo[i] \in Config
      BY <1>1
    <3> QED
      BY <1>1, <1>4, <3>1, <3>2, SubSeqProperties
  <2> HIDE DEF next
  <2>3. passed \in SUBSET Config
    <3> DEFINE part == SubSeq(todo, 1, next - 1)
    <3>1. part \in Seq(Config) /\ passed = ToSet(part)
      BY <2>2
    <3> HIDE DEF part, passed
    <3>2. DOMAIN part = 1..Len(part) /\ \A i \in 1..Len(part) : part[i] \in Config
      BY <3>1
    <3>3. ToSet(part) \in SUBSET Config
      BY <3>2 DEF ToSet
    <3> QED
      BY <3>1, <3>3
  <2> DEFINE step == IF enters THEN "calling" ELSE "waiting"
             refused == old.refused \cup passed
             rest == SubSeq(todo, next + 1, Len(todo))
  <2>4. /\ step \in Steps /\ refused \in SUBSET Config /\ rest \in Seq(Config)
        /\ enters => step = "calling"
        /\ ~enters => step = "waiting"
    BY <1>1, <2>2, <2>3 DEF Steps, InquiryRow
  <2>5. row = [old EXCEPT !.step = step, !.todo = rest, !.refused = refused,
                          !.at = c, !.attempt = 0]
    OBVIOUS
  <2>6. passed = ToSet(SubSeq(todo, 1, next - 1))
    BY <2>2
  <2> HIDE DEF step, refused, rest, enters, slots, c, passed
  <2>7. /\ row \in InquiryRow
        /\ row.step = step /\ row.at = c /\ row.todo = rest /\ row.refused = refused
        /\ row.ask = old.ask /\ row.found = old.found
    <3>1. old \in InquiryRow /\ c \in Config
      BY <1>1, <2>2
    <3> HIDE DEF row, old
    <3> QED
      BY <2>4, <2>5, <3>1 DEF InquiryRow
  <2> HIDE DEF row
  <2>8. Takes(r, row)
    BY <1>1, <2>1, <2>2, <2>4, <2>6, <2>7
    DEF Takes, Becomes, step, refused, rest, enters, slots, c
  <2> QED
    BY <2>8
<1> QED
  BY <1>3, <1>4

\* A call goes on, or ends and hands its slot over.
LEMMA CallDoes ==
  ASSUME Shapes, NEW r \in Inquirer,
         CallReturns(r) \/ CallTimesOut(r) \/ CallFails(r) \/ WakesUp(r)
  PROVE  \E row : Stays(r, row) \/ Leaves(r, row)
<1> DEFINE old == inquiry[r]
           to(step, attempt) == [old EXCEPT !.step = step, !.attempt = attempt]
<1>1. /\ old \in InquiryRow /\ Holding(old)
      /\ old.attempt \in Nat /\ old.attempt + 1 \in Nat /\ old.step \in Steps
  BY RowOf DEF CallReturns, CallTimesOut, CallFails, WakesUp, InquiryRow, Holding
<1>2. ASSUME NEW step \in {"calling", "sleeping"}, NEW attempt \in Nat,
             Becomes(r, to(step, attempt)), UNCHANGED <<limit, queue>>
      PROVE  Stays(r, to(step, attempt))
  <2>1. step \in Steps
    BY DEF Steps
  <2> DEFINE row == to(step, attempt)
  <2>2. row \in InquiryRow /\ Alike(row, old) /\ row.step = step
    BY <1>1, <2>1 DEF InquiryRow, Alike
  <2>3. Becomes(r, row)
    BY <1>2
  <2> HIDE DEF row
  <2>4. Stays(r, row)
    BY <1>1, <1>2, <2>2, <2>3 DEF Stays, Holding
  <2> QED
    BY <2>4 DEF row
<1>3. ASSUME NEW step \in {"succeeding", "failing"},
             HandOver(old.at.name, [inquiry EXCEPT ![r] = to(step, old.attempt)]),
             UNCHANGED limit
      PROVE  Leaves(r, to(step, old.attempt))
  <2>1. step \in Steps
    BY DEF Steps
  <2> DEFINE row == to(step, old.attempt)
  <2>2. row \in InquiryRow /\ Alike(row, old) /\ row.step = step
    BY <1>1, <2>1 DEF InquiryRow, Alike
  <2>3. HandOver(old.at.name, [inquiry EXCEPT ![r] = row])
    BY <1>3
  <2> HIDE DEF row
  <2>4. Leaves(r, row)
    BY <1>1, <1>3, <2>2, <2>3 DEF Leaves
  <2> QED
    BY <2>4 DEF row
<1>4. ASSUME NEW step
      PROVE  [inquiry EXCEPT ![r].step = step] = [inquiry EXCEPT ![r] = to(step, old.attempt)]
  BY <1>1 DEF InquiryRow
<1>5. CASE CallReturns(r)
  <2>1. CASE LastAttempt(r)
    BY <1>3, <1>4, <1>5, <2>1 DEF CallReturns
  <2>2. CASE ~LastAttempt(r)
    <3>1. [inquiry EXCEPT ![r].attempt = inquiry[r].attempt + 1]
            = [inquiry EXCEPT ![r] = to(old.step, old.attempt + 1)]
      BY <1>1 DEF InquiryRow
    <3> QED
      BY <1>1, <1>2, <1>5, <2>2, <3>1 DEF CallReturns, Becomes, Holding
  <2> QED
    BY <2>1, <2>2
<1>6. CASE CallTimesOut(r)
  <2>1. CASE LastAttempt(r)
    BY <1>3, <1>4, <1>6, <2>1 DEF CallTimesOut, Raise
  <2>2. CASE ~LastAttempt(r)
    BY <1>1, <1>2, <1>4, <1>6, <2>2 DEF CallTimesOut, Becomes
  <2> QED
    BY <2>1, <2>2
<1>7. CASE CallFails(r)
  BY <1>3, <1>4, <1>7 DEF CallFails, Raise
<1>8. CASE WakesUp(r)
  <2>1. [inquiry EXCEPT ![r].step = "calling", ![r].attempt = inquiry[r].attempt + 1]
          = [inquiry EXCEPT ![r] = to("calling", old.attempt + 1)]
    BY <1>1 DEF InquiryRow
  <2> QED
    BY <1>1, <1>2, <1>8, <2>1 DEF WakesUp, Becomes, memoryVars
<1> QED
  BY <1>5, <1>6, <1>7, <1>8

LEMMA EndDoes ==
  ASSUME Shapes, NEW r \in Inquirer, Account(r) \/ Ends(r)
  PROVE  \E row : Settled(r, row)
<1> DEFINE old == inquiry[r]
           answered == [old EXCEPT !.step = "answered", !.attempt = old.attempt]
           again == [old EXCEPT !.step = "routing", !.refused = old.refused \cup {old.at},
                                !.at = NoConfig, !.attempt = 0]
<1>1. /\ old \in InquiryRow /\ old.attempt \in Nat
      /\ old.step \in {"succeeding", "failing", "answered"}
      /\ UNCHANGED <<limit, queue>>
  BY RowOf DEF Account, Ends, InquiryRow, memoryVars
<1>2. CASE Becomes(r, Quiet)
  BY <1>1, <1>2 DEF Settled
<1>3. CASE inquiry' = [inquiry EXCEPT ![r].step = "answered"]
  <2>1. Becomes(r, answered)
    BY <1>1, <1>3 DEF Becomes, InquiryRow
  <2>2. "answered" \in Steps
    BY DEF Steps
  <2>3. answered \in InquiryRow /\ Alike(answered, old) /\ answered.step = "answered"
    BY <1>1, <2>2 DEF InquiryRow, Alike
  <2> HIDE DEF answered
  <2>4. Settled(r, answered)
    BY <1>1, <2>1, <2>3 DEF Settled
  <2> QED
    BY <2>4
<1>4. CASE inquiry' = [inquiry EXCEPT ![r] = again]
  <2>1. old.at \in Config /\ old.refused \cup {old.at} \in SUBSET Config
    BY <1>1 DEF Shapes, Routed, InquiryRow
  <2>2. /\ again \in InquiryRow /\ again.step = "routing"
        /\ again.ask = old.ask /\ again.found = old.found /\ again.todo = old.todo
        /\ again.at = NoConfig /\ again.refused = old.refused \cup {old.at}
    BY <1>1, <2>1 DEF InquiryRow, Steps
  <2> HIDE DEF again, answered
  <2>3. Settled(r, again)
    BY <1>1, <1>4, <2>2 DEF Settled, Becomes
  <2> QED
    BY <2>3
<1> QED
  BY <1>2, <1>3, <1>4 DEF Account, Ends, Becomes

LEMMA CancelledDoes ==
  ASSUME Shapes, NEW r \in Inquirer, Cancelled(r)
  PROVE  StopsWaiting(r) \/ Leaves(r, Quiet)
BY DEF Cancelled, StopsWaiting, Leaves, Becomes, Holding

\* Every step is one of these for one request, or leaves all of them alone.
LEMMA StepsOfRequests ==
  ASSUME Shapes, [BankNext]_bankVars
  PROVE  \/ UNCHANGED <<inquiry, limit, queue>>
         \/ \E r \in Inquirer :
              \/ GivesUp(r) \/ StopsWaiting(r)
              \/ \E row : \/ Asks(r, row) \/ Takes(r, row) \/ Stays(r, row)
                          \/ Leaves(r, row) \/ Settled(r, row)
<1>1. ASSUME NEW r \in Inquirer, ask_bank(r) \/ Proceed(r) \/ Cancelled(r)
      PROVE  \/ GivesUp(r) \/ StopsWaiting(r)
             \/ \E row : \/ Asks(r, row) \/ Takes(r, row) \/ Stays(r, row)
                         \/ Leaves(r, row) \/ Settled(r, row)
  BY <1>1, AskDoes, TryNextDoes, CallDoes, EndDoes, CancelledDoes DEF Proceed
<1>2. CASE configure_ai_profile \/ ConfigureEnds \/ disable_ai_profile
           \/ \E n \in Name : CoolsDown(n)
  BY <1>2 DEF configure_ai_profile, ConfigureEnds, disable_ai_profile, CoolsDown, memoryVars
<1>3. CASE UNCHANGED bankVars
  BY <1>3 DEF bankVars, memoryVars
<1> QED
  BY <1>1, <1>2, <1>3 DEF BankNext

-----------------------------------------------------------------------------
(* The semaphores                                                          *)

\* Those in a queue wait for its profile, each in one place.
Lined(n) ==
  /\ \A i \in 1..Len(queue[n]) :
       inquiry[queue[n][i]].step = "waiting" /\ inquiry[queue[n][i]].at.name = n
  /\ \A i, j \in 1..Len(queue[n]) : queue[n][i] = queue[n][j] => i = j

\* Whoever waits is in the queue of its profile.
InLine(r) ==
  inquiry[r].step = "waiting" =>
    \E i \in 1..Len(queue[inquiry[r].at.name]) : queue[inquiry[r].at.name][i] = r

\* No more hold a slot than there are, and nobody queues for a free one.
Taken(n) ==
  /\ IsFiniteSet(Holders(n)) /\ Cardinality(Holders(n)) <= limit[n]
  /\ queue[n] # <<>> => Cardinality(Holders(n)) = limit[n] /\ limit[n] # 0

Semaphores ==
  /\ Shapes
  /\ \A n \in Name : Lined(n) /\ Taken(n)
  /\ \A r \in Inquirer : InLine(r)

LEMMA InitSemaphores == BankInit => Semaphores
<1> SUFFICES ASSUME BankInit PROVE Semaphores
  OBVIOUS
<1>1. PICK chosen \in SUBSET Config :
        profile = [n \in Name |->
          IF \E p \in chosen : p.name = n
          THEN [enabled |-> TRUE, cfg |-> CHOOSE p \in chosen : p.name = n]
          ELSE [enabled |-> FALSE, cfg |-> NoConfig]]
  BY DEF BankInit
<1>2. profile \in [Name -> ProfileRow] /\ \A n \in Name : profile[n].enabled => profile[n].cfg \in Config
  BY <1>1 DEF ProfileRow
<1>3. /\ admin \subseteq Config /\ limit \in [Name -> Nat]
      /\ queue \in [Name -> Seq(Inquirer)] /\ \A n \in Name : queue[n] = <<>> /\ Len(queue[n]) = 0
      /\ inquiry \in [Inquirer -> InquiryRow \cup {Quiet}]
      /\ \A r \in Inquirer : inquiry[r] = Quiet
  BY EmptySeq DEF BankInit
<1>4. Quiet.step = "quiet"
  BY DEF Quiet
<1>5. ASSUME NEW n \in Name PROVE Lined(n) /\ Taken(n)
  <2>1. Holders(n) = {}
    BY <1>3, <1>4 DEF Holders, Holds
  <2> QED
    BY <1>3, <2>1, FS_EmptySet DEF Lined, Taken, BankInit
<1> QED
  BY <1>2, <1>3, <1>4, <1>5 DEF Semaphores, Shapes, Routed, InLine

\* Rows of profiles stay rows of profiles.
LEMMA ProfilesStay ==
  ASSUME Shapes, [BankNext]_bankVars
  PROVE  /\ profile' \in [Name -> ProfileRow] /\ admin' \subseteq Config
         /\ \A n \in Name : profile'[n].enabled => profile'[n].cfg \in Config
<1>1. CASE UNCHANGED <<profile, admin>>
  BY <1>1 DEF Shapes
<1>2. CASE configure_ai_profile
  BY <1>2 DEF configure_ai_profile, Shapes
<1>3. CASE ConfigureEnds
  <2>1. PICK p \in Config : admin' = {} /\ (upsert(p) \/ UNCHANGED profile)
    BY <1>3 DEF ConfigureEnds, Shapes
  <2>2. CASE upsert(p)
    <3>1. ASSUME NEW m \in Name
          PROVE  profile'[m] \in ProfileRow /\ (profile'[m].enabled => profile'[m].cfg \in Config)
      <4>1. CASE m = p.name
        BY <2>2, <4>1 DEF upsert, ProfileRow
      <4>2. CASE m # p.name
        <5> DEFINE keeps == profile[m].enabled
                            /\ ~(p.kind = "embedding" /\ profile[m].cfg.kind = "embedding")
        <5>1. profile'[m] = [profile[m] EXCEPT !.enabled = keeps]
          BY <2>2, <4>2 DEF upsert
        <5>2. keeps \in BOOLEAN /\ (keeps => profile[m].enabled) /\ profile[m] \in ProfileRow
          BY DEF Shapes
        <5> HIDE DEF keeps
        <5> QED
          BY <5>1, <5>2 DEF ProfileRow, Shapes
      <4> QED
        BY <4>1, <4>2
    <3> QED
      BY <2>1, <2>2, <3>1 DEF upsert
  <2> QED
    BY <2>1, <2>2 DEF Shapes
<1>4. CASE disable_ai_profile
  <2>1. PICK n \in Name : profile' = [profile EXCEPT ![n].enabled = FALSE]
    BY <1>4 DEF disable_ai_profile
  <2> DEFINE new == [profile[n] EXCEPT !.enabled = FALSE]
  <2>2. profile' = [profile EXCEPT ![n] = new]
    BY <2>1
  <2>3. new \in ProfileRow /\ ~new.enabled
    BY DEF Shapes, ProfileRow
  <2>4. profile \in [Name -> ProfileRow] /\ \A m \in Name : profile[m].enabled => profile[m].cfg \in Config
    BY DEF Shapes
  <2> HIDE DEF new
  <2>5. /\ profile' \in [Name -> ProfileRow]
        /\ \A m \in Name : profile'[m] = IF m = n THEN new ELSE profile[m]
    BY <2>2, <2>3, <2>4
  <2> QED
    BY <1>4, <2>3, <2>4, <2>5 DEF disable_ai_profile, Shapes
<1>5. ASSUME NEW r \in Inquirer, ask_bank(r) \/ Proceed(r) \/ Cancelled(r)
      PROVE  UNCHANGED <<profile, admin>>
  BY <1>5 DEF ask_bank, Proceed, Cancelled, TryNext, CallReturns, CallTimesOut, CallFails,
     WakesUp, Account, Ends
<1>6. ASSUME NEW n \in Name, CoolsDown(n) PROVE UNCHANGED <<profile, admin>>
  BY <1>6 DEF CoolsDown
<1> QED
  BY <1>1, <1>2, <1>3, <1>4, <1>5, <1>6 DEF BankNext, bankVars

LEMMA InQueue ==
  ASSUME Shapes, NEW n \in Name
  PROVE  /\ queue[n] \in Seq(Inquirer) /\ Len(queue[n]) \in Nat
         /\ \A i \in 1..Len(queue[n]) : queue[n][i] \in Inquirer
<1>1. queue[n] \in Seq(Inquirer)
  BY DEF Shapes
<1> QED
  BY <1>1

LEMMA Slots ==
  ASSUME Semaphores, NEW n \in Name
  PROVE  /\ IsFiniteSet(Holders(n)) /\ Cardinality(Holders(n)) \in Nat /\ limit[n] \in Nat
         /\ Cardinality(Holders(n)) <= limit[n]
         /\ queue[n] # <<>> => Cardinality(Holders(n)) = limit[n] /\ limit[n] # 0
BY FS_CardinalityType DEF Semaphores, Shapes, Taken

\* A request changes that neither takes nor leaves a slot or a place in a queue.
LEMMA NothingMoves ==
  ASSUME Semaphores, NEW r \in Inquirer, NEW row \in InquiryRow \cup {Quiet},
         Becomes(r, row), UNCHANGED <<limit, queue>>,
         row.step # "waiting", inquiry[r].step # "waiting",
         Holding(row) <=> Holding(inquiry[r]),
         Holding(row) => row.at = inquiry[r].at
  PROVE  \A n \in Name : Lined(n)' /\ Taken(n)'
<1>1. inquiry'[r] = row /\ \A x \in Inquirer \ {r} : inquiry'[x] = inquiry[x]
  BY DEF Semaphores, Shapes, Becomes
<1>2. ASSUME NEW n \in Name PROVE Holders(n)' = Holders(n)
  BY <1>1 DEF Holders, Holds, Holding
<1>3. ASSUME NEW n \in Name PROVE Lined(n)'
  <2>1. \A i \in 1..Len(queue[n]) : queue[n][i] \in Inquirer
    BY InQueue DEF Semaphores
  <2> QED
    BY <1>1, <2>1 DEF Semaphores, Lined
<1>4. ASSUME NEW n \in Name PROVE Taken(n)'
  BY <1>2 DEF Semaphores, Taken
<1> QED
  BY <1>3, <1>4

LEMMA LinedStays ==
  ASSUME Semaphores, NEW m \in Name, queue'[m] = queue[m],
         \A i \in 1..Len(queue[m]) : inquiry'[queue[m][i]] = inquiry[queue[m][i]]
  PROVE  Lined(m)'
<1>1. Lined(m)
  BY DEF Semaphores
<1> QED
  BY <1>1 DEF Lined

\* A request that enters finds a slot, one that queues finds none.
LEMMA TakingKeeps ==
  ASSUME Semaphores, NEW r \in Inquirer, NEW row, Takes(r, row)
  PROVE  /\ limit' \in [Name -> Nat] /\ queue' \in [Name -> Seq(Inquirer)]
         /\ row.at \in Config
         /\ \A n \in Name : Lined(n)' /\ Taken(n)'
         /\ \A x \in Inquirer : InLine(x)'
<1> DEFINE at == row.at
           n == at.name
           slots == IF limit[n] = 0 THEN at.concurrency ELSE limit[n]
<1>1. PICK next \in 1..Len(inquiry[r].todo) : at = inquiry[r].todo[next]
  BY DEF Takes
<1>2. inquiry[r] \in InquiryRow /\ inquiry[r].step = "routing"
  BY RowOf DEF Takes, Semaphores
<1>3. inquiry[r].todo \in Seq(Config)
  BY <1>2 DEF InquiryRow
<1>4. at \in Config
  BY <1>1, <1>3
<1>5. n \in Name /\ slots \in Nat \ {0} /\ limit[n] \in Nat
  BY <1>4 DEF Semaphores, Shapes
<1>6. /\ limit' = [limit EXCEPT ![n] = slots]
      /\ \/ Vacant(n, slots) /\ row.step = "calling" /\ queue' = queue
         \/ /\ ~Vacant(n, slots) /\ row.step = "waiting"
            /\ queue' = [queue EXCEPT ![n] = Append(queue[n], r)]
      /\ Becomes(r, row)
  BY DEF Takes
<1> HIDE DEF slots
<1>7. inquiry'[r] = row /\ \A x \in Inquirer \ {r} : inquiry'[x] = inquiry[x]
  BY <1>6 DEF Semaphores, Shapes, Becomes
<1>8. /\ limit' \in [Name -> Nat] /\ limit'[n] = slots
      /\ \A m \in Name \ {n} : limit'[m] = limit[m]
      /\ limit[n] # 0 => slots = limit[n]
  BY <1>5, <1>6 DEF Semaphores, Shapes, slots
<1>9. \A m \in Name : \A i \in 1..Len(queue[m]) :
        /\ queue[m][i] \in Inquirer /\ queue[m][i] # r
        /\ inquiry'[queue[m][i]] = inquiry[queue[m][i]]
  <2>1. ASSUME NEW m \in Name, NEW i \in 1..Len(queue[m])
        PROVE  queue[m][i] \in Inquirer /\ queue[m][i] # r
    <3>1. queue[m][i] \in Inquirer
      BY InQueue DEF Semaphores
    <3>2. inquiry[queue[m][i]].step = "waiting"
      BY DEF Semaphores, Lined
    <3> QED
      BY <1>2, <3>1, <3>2
  <2> QED
    BY <1>7, <2>1
<1>10. /\ IsFiniteSet(Holders(n)) /\ Cardinality(Holders(n)) \in Nat
       /\ Cardinality(Holders(n)) <= limit[n]
       /\ queue[n] # <<>> => Cardinality(Holders(n)) = limit[n] /\ limit[n] # 0
  BY <1>5, Slots
<1>11. r \notin Holders(n)
  BY <1>2 DEF Holders, Holds
<1>12. ASSUME NEW m \in Name, m # n PROVE Holders(m)' = Holders(m)
  BY <1>2, <1>7, <1>12 DEF Holders, Holds
<1>13. CASE Vacant(n, slots)
  <2>1. row.step = "calling" /\ queue' = queue
    BY <1>6, <1>13
  <2>2. Holders(n)' = Holders(n) \cup {r}
    BY <1>7, <2>1 DEF Holders, Holds
  <2>3. /\ IsFiniteSet(Holders(n)') /\ Cardinality(Holders(n)') = Cardinality(Holders(n)) + 1
        /\ Cardinality(Holders(n)) < slots /\ queue[n] = <<>>
    BY <1>10, <1>11, <1>13, <2>2, FS_AddElement DEF Vacant
  <2>4. ASSUME NEW m \in Name PROVE Taken(m)'
    <3>1. CASE m = n
      BY <1>5, <1>8, <1>10, <2>1, <2>3, <3>1 DEF Taken
    <3>2. CASE m # n
      BY <1>8, <1>12, <2>1, <3>2 DEF Semaphores, Taken
    <3> QED
      BY <3>1, <3>2
  <2>5. ASSUME NEW m \in Name PROVE Lined(m)'
    BY <1>9, <2>1, LinedStays
  <2>6. ASSUME NEW x \in Inquirer PROVE InLine(x)'
    BY <1>7, <2>1 DEF Semaphores, InLine
  <2> QED
    BY <1>4, <1>8, <2>1, <2>4, <2>5, <2>6 DEF Semaphores, Shapes
<1>14. CASE ~Vacant(n, slots)
  <2>1. row.step = "waiting" /\ queue' = [queue EXCEPT ![n] = Append(queue[n], r)]
    BY <1>6, <1>14
  <2>2. /\ queue[n] \in Seq(Inquirer) /\ Append(queue[n], r) \in Seq(Inquirer)
        /\ Len(Append(queue[n], r)) = Len(queue[n]) + 1 /\ Len(queue[n]) \in Nat
        /\ \A i \in 1..Len(queue[n]) : Append(queue[n], r)[i] = queue[n][i]
        /\ Append(queue[n], r)[Len(queue[n]) + 1] = r
    <3>1. queue[n] \in Seq(Inquirer) /\ Len(queue[n]) \in Nat
      BY <1>5, InQueue DEF Semaphores
    <3> QED
      BY <3>1, AppendProperties
  <2>3. /\ queue' \in [Name -> Seq(Inquirer)] /\ queue'[n] = Append(queue[n], r)
        /\ \A m \in Name \ {n} : queue'[m] = queue[m]
    BY <1>5, <2>1, <2>2 DEF Semaphores, Shapes
  <2>4. Holders(n)' = Holders(n)
    BY <1>2, <1>7, <2>1 DEF Holders, Holds
  <2>5. Cardinality(Holders(n)) = slots /\ limit[n] = slots
    <3>1. Cardinality(Holders(n)) >= slots \/ queue[n] # <<>>
      BY <1>5, <1>10, <1>14 DEF Vacant
    <3>2. limit[n] # 0
      BY <1>5, <1>10, <3>1
    <3> QED
      BY <1>5, <1>8, <1>10, <3>1, <3>2
  <2>6. ASSUME NEW m \in Name PROVE Taken(m)'
    <3>1. CASE m = n
      BY <1>5, <1>8, <1>10, <2>4, <2>5, <3>1 DEF Taken
    <3>2. CASE m # n
      BY <1>8, <1>12, <2>3, <3>2 DEF Semaphores, Taken
    <3> QED
      BY <3>1, <3>2
  <2>7. ASSUME NEW m \in Name PROVE Lined(m)'
    <3>1. CASE m = n
      <4>1. ASSUME NEW i \in 1..Len(queue'[n])
            PROVE  inquiry'[queue'[n][i]].step = "waiting" /\ inquiry'[queue'[n][i]].at.name = n
        <5>1. CASE i = Len(queue[n]) + 1
          BY <1>7, <2>1, <2>2, <2>3, <5>1
        <5>2. CASE i \in 1..Len(queue[n])
          <6>1. queue'[n][i] = queue[n][i]
            BY <2>2, <2>3, <5>2
          <6>2. Lined(n)
            BY <1>5 DEF Semaphores
          <6>3. inquiry[queue[n][i]].step = "waiting" /\ inquiry[queue[n][i]].at.name = n
            BY <5>2, <6>2 DEF Lined
          <6> QED
            <7>1. inquiry'[queue[n][i]] = inquiry[queue[n][i]]
              BY <1>5, <1>9, <5>2
            <7> QED
              BY <6>1, <6>3, <7>1
        <5> QED
          <6>1. Len(queue'[n]) = Len(queue[n]) + 1 /\ Len(queue[n]) \in Nat
            BY <2>2, <2>3
          <6>2. i = Len(queue[n]) + 1 \/ i \in 1..Len(queue[n])
            BY <6>1
          <6> QED
            BY <5>1, <5>2, <6>2
      <4>2. ASSUME NEW i \in 1..Len(queue'[n]), NEW j \in 1..Len(queue'[n]),
                   queue'[n][i] = queue'[n][j]
            PROVE  i = j
        <5>1. \A k, l \in 1..Len(queue[n]) : queue[n][k] = queue[n][l] => k = l
          BY <1>5 DEF Semaphores, Lined
        <5>2. \A k \in 1..Len(queue[n]) : queue[n][k] # r
          BY <1>5, <1>9
        <5>3. \A k \in 1..Len(queue'[n]) : k \in 1..Len(queue[n]) \/ k = Len(queue[n]) + 1
          BY <2>2, <2>3
        <5>4. /\ \A k \in 1..Len(queue[n]) : queue'[n][k] = queue[n][k]
              /\ queue'[n][Len(queue[n]) + 1] = r
          BY <2>2, <2>3
        <5> QED
          BY <4>2, <5>1, <5>2, <5>3, <5>4
      <4> QED
        BY <3>1, <4>1, <4>2 DEF Lined
    <3>2. CASE m # n
      BY <1>9, <2>3, <3>2, LinedStays
    <3> QED
      BY <3>1, <3>2
  <2>8. ASSUME NEW x \in Inquirer PROVE InLine(x)'
    <3>1. CASE x = r
      BY SMTT(30), <1>7, <2>2, <2>3, <3>1 DEF InLine
    <3>2. CASE x # r
      <4>1. ASSUME inquiry[x].step = "waiting"
            PROVE  \E i \in 1..Len(queue'[inquiry[x].at.name]) : queue'[inquiry[x].at.name][i] = x
        <5>1. inquiry[x].at \in Config
          BY <4>1 DEF Semaphores, Shapes, Routed
        <5>2. PICK i \in 1..Len(queue[inquiry[x].at.name]) : queue[inquiry[x].at.name][i] = x
          BY <4>1 DEF Semaphores, InLine
        <5>3. CASE inquiry[x].at.name = n
          <6>1. i \in 1..Len(queue'[n]) /\ queue'[n][i] = x
            BY <2>2, <2>3, <5>2, <5>3
          <6> QED
            BY <5>3, <6>1
        <5>4. CASE inquiry[x].at.name # n
          BY <2>3, <5>1, <5>2, <5>4
        <5> QED
          BY <5>3, <5>4
      <4> QED
        BY <1>7, <3>2, <4>1 DEF InLine
    <3> QED
      BY <3>1, <3>2
  <2> QED
    BY <1>4, <1>8, <2>3, <2>6, <2>7, <2>8
<1> QED
  BY <1>13, <1>14

\* Whoever leaves hands the slot to the first of the queue.
LEMMA LeavingKeeps ==
  ASSUME Semaphores, NEW r \in Inquirer, NEW row, Leaves(r, row),
         NEW n, n = inquiry[r].at.name
  PROVE  /\ queue' \in [Name -> Seq(Inquirer)]
         /\ \A m \in Name : Lined(m)' /\ Taken(m)'
         /\ \A x \in Inquirer : InLine(x)'
         /\ \/ Becomes(r, row)
            \/ \E h \in Inquirer, woken \in InquiryRow :
                 /\ h # r /\ inquiry[h].step = "waiting"
                 /\ woken.step = "calling" /\ Alike(woken, inquiry[h])
                 /\ inquiry' = [inquiry EXCEPT ![r] = row, ![h] = woken]
<1>1. /\ inquiry[r].step \in {"calling", "sleeping"} /\ inquiry[r] \in InquiryRow
      /\ inquiry[r].at \in Config /\ n \in Name
  BY RowOf DEF Leaves, Holding, Semaphores, Shapes, Routed
<1>2. row.step \in {"quiet", "succeeding", "failing"} /\ row \in InquiryRow \cup {Quiet}
  BY DEF Leaves, Quiet
<1>3. HandOver(n, [inquiry EXCEPT ![r] = row]) /\ limit' = limit
  BY DEF Leaves
<1>4. /\ queue[n] \in Seq(Inquirer) /\ Len(queue[n]) \in Nat
      /\ queue \in [Name -> Seq(Inquirer)]
      /\ inquiry \in [Inquirer -> InquiryRow \cup {Quiet}]
  BY <1>1, InQueue DEF Semaphores, Shapes
<1>5. \A m \in Name : Lined(m) /\ Taken(m)
  BY DEF Semaphores
<1>6. /\ IsFiniteSet(Holders(n)) /\ Cardinality(Holders(n)) \in Nat
      /\ Cardinality(Holders(n)) <= limit[n] /\ limit[n] \in Nat
      /\ queue[n] # <<>> => Cardinality(Holders(n)) = limit[n] /\ limit[n] # 0
  BY <1>1, Slots
<1>7. r \in Holders(n)
  BY <1>1 DEF Holders, Holds
<1>8. /\ IsFiniteSet(Holders(n) \ {r})
      /\ Cardinality(Holders(n) \ {r}) = Cardinality(Holders(n)) - 1
  BY <1>6, <1>7, FS_RemoveElement
<1>9. \A m \in Name : \A i \in 1..Len(queue[m]) :
        /\ queue[m][i] \in Inquirer /\ queue[m][i] # r
        /\ inquiry[queue[m][i]].step = "waiting" /\ inquiry[queue[m][i]].at.name = m
  BY <1>1, <1>5, InQueue DEF Semaphores, Lined
<1>10. CASE queue[n] = <<>>
  <2>1. Becomes(r, row) /\ queue' = queue
    BY <1>3, <1>10 DEF HandOver, Becomes
  <2>2. inquiry'[r] = row /\ \A x \in Inquirer \ {r} : inquiry'[x] = inquiry[x]
    BY <1>4, <2>1 DEF Becomes
  <2>3. Holders(n)' = Holders(n) \ {r}
    BY <1>1, <1>2, <2>2 DEF Holders, Holds
  <2>4. ASSUME NEW m \in Name, m # n PROVE Holders(m)' = Holders(m)
    BY <1>2, <2>2, <2>4 DEF Holders, Holds
  <2>5. ASSUME NEW m \in Name PROVE Taken(m)'
    <3>1. CASE m = n
      <4>1. /\ IsFiniteSet(Holders(n)')
            /\ Cardinality(Holders(n)') = Cardinality(Holders(n)) - 1
        BY <1>8, <2>3
      <4> QED
        BY <1>3, <1>6, <1>10, <2>1, <3>1, <4>1 DEF Taken
    <3>2. CASE m # n
      BY <1>3, <1>5, <2>1, <2>4, <3>2 DEF Taken
    <3> QED
      BY <3>1, <3>2
  <2>6. ASSUME NEW m \in Name PROVE Lined(m)'
    BY <1>9, <2>1, <2>2, LinedStays
  <2>7. ASSUME NEW x \in Inquirer PROVE InLine(x)'
    BY <1>2, <2>1, <2>2 DEF Semaphores, InLine
  <2> QED
    BY <1>4, <2>1, <2>5, <2>6, <2>7
<1>11. CASE queue[n] # <<>>
  <2> DEFINE h == Head(queue[n])
             woken == [inquiry[h] EXCEPT !.step = "calling"]
  <2>1. /\ 1 \in 1..Len(queue[n]) /\ h = queue[n][1]
        /\ Tail(queue[n]) \in Seq(Inquirer) /\ Len(Tail(queue[n])) = Len(queue[n]) - 1
        /\ \A i \in 1..(Len(queue[n]) - 1) : Tail(queue[n])[i] = queue[n][i + 1]
    BY <1>4, <1>11, HeadTailProperties
  <2> HIDE DEF h
  <2>2. /\ h \in Inquirer /\ h # r
        /\ inquiry[h].step = "waiting" /\ inquiry[h].at.name = n
    BY <1>1, <1>9, <2>1
  <2>3. inquiry[h] \in InquiryRow
    BY <2>2, RowOf DEF Semaphores
  <2>4. /\ woken \in InquiryRow /\ Alike(woken, inquiry[h])
        /\ woken.step = "calling" /\ woken.at = inquiry[h].at
    BY <2>3 DEF InquiryRow, Steps, Alike
  <2>5. /\ inquiry' = [inquiry EXCEPT ![r] = row, ![h] = woken]
        /\ queue' = [queue EXCEPT ![n] = Tail(queue[n])]
    <3>1. /\ inquiry' = [[inquiry EXCEPT ![r] = row] EXCEPT ![h].step = "calling"]
          /\ queue' = [queue EXCEPT ![n] = Tail(queue[n])]
      BY <1>3, <1>11 DEF HandOver, h
    <3>2. [inquiry EXCEPT ![r] = row][h] = inquiry[h]
      BY <1>4, <2>2
    <3> QED
      BY <1>4, <2>2, <3>1, <3>2
  <2> HIDE DEF woken
  <2>6. /\ inquiry'[r] = row /\ inquiry'[h] = woken
        /\ \A x \in Inquirer \ {r, h} : inquiry'[x] = inquiry[x]
    BY <1>4, <2>2, <2>5
  <2>7. /\ queue' \in [Name -> Seq(Inquirer)] /\ queue'[n] = Tail(queue[n])
        /\ \A m \in Name \ {n} : queue'[m] = queue[m]
    BY <1>1, <1>4, <2>1, <2>5
  <2>8. Holders(n)' = (Holders(n) \ {r}) \cup {h}
    BY <1>1, <1>2, <2>2, <2>4, <2>6 DEF Holders, Holds
  <2>9. h \notin Holders(n)
    BY <2>2 DEF Holders, Holds
  <2>10. /\ IsFiniteSet(Holders(n)') /\ Cardinality(Holders(n)') = Cardinality(Holders(n))
    <3> DEFINE rest == Holders(n) \ {r}
    <3>1. /\ IsFiniteSet(rest) /\ Cardinality(rest) = Cardinality(Holders(n)) - 1
          /\ h \notin rest /\ Holders(n)' = rest \cup {h}
      BY <1>8, <2>8, <2>9
    <3> HIDE DEF rest
    <3> QED
      BY <1>6, <3>1, FS_AddElement
  <2>11. ASSUME NEW m \in Name, m # n PROVE Holders(m)' = Holders(m)
    BY <1>2, <2>2, <2>4, <2>6, <2>11 DEF Holders, Holds
  <2>12. ASSUME NEW m \in Name PROVE Taken(m)'
    <3>1. CASE m = n
      BY <1>3, <1>6, <1>11, <2>10, <3>1 DEF Taken
    <3>2. CASE m # n
      BY <1>3, <1>5, <2>7, <2>11, <3>2 DEF Taken
    <3> QED
      BY <3>1, <3>2
  <2>13. ASSUME NEW m \in Name PROVE Lined(m)'
    <3>1. CASE m = n
      <4>1. \A i, j \in 1..Len(queue[n]) : queue[n][i] = queue[n][j] => i = j
        BY <1>1, <1>5 DEF Lined
      <4>2. ASSUME NEW i \in 1..Len(queue'[n])
            PROVE  /\ i + 1 \in 1..Len(queue[n]) /\ queue'[n][i] = queue[n][i + 1]
                   /\ queue[n][i + 1] # h
        BY SMTT(30), <1>4, <2>1, <2>7, <4>1
      <4>3. ASSUME NEW i \in 1..Len(queue'[n])
            PROVE  inquiry'[queue'[n][i]].step = "waiting" /\ inquiry'[queue'[n][i]].at.name = n
        <5>1. /\ queue[n][i + 1] \in Inquirer \ {r, h}
              /\ inquiry[queue[n][i + 1]].step = "waiting"
              /\ inquiry[queue[n][i + 1]].at.name = n
          BY <1>1, <1>9, <4>2
        <5> QED
          BY <2>6, <4>2, <5>1
      <4>4. ASSUME NEW i \in 1..Len(queue'[n]), NEW j \in 1..Len(queue'[n]),
                   queue'[n][i] = queue'[n][j]
            PROVE  i = j
        <5>1. /\ i + 1 \in 1..Len(queue[n]) /\ j + 1 \in 1..Len(queue[n])
              /\ queue[n][i + 1] = queue[n][j + 1]
          BY <4>2, <4>4
        <5>2. i + 1 = j + 1
          BY <4>1, <5>1
        <5> QED
          BY <1>4, <2>1, <2>7, <5>2
      <4> QED
        BY <3>1, <4>3, <4>4 DEF Lined
    <3>2. CASE m # n
      <4>1. ASSUME NEW i \in 1..Len(queue[m])
            PROVE  inquiry'[queue[m][i]] = inquiry[queue[m][i]]
        BY <1>9, <2>2, <2>6, <3>2
      <4> QED
        BY <2>7, <3>2, <4>1, LinedStays
    <3> QED
      BY <3>1, <3>2
  <2>14. ASSUME NEW x \in Inquirer PROVE InLine(x)'
    <3>1. CASE x \in {r, h}
      BY <1>2, <2>4, <2>6, <3>1 DEF InLine
    <3>2. ASSUME x \notin {r, h}, inquiry[x].step = "waiting"
          PROVE  \E i \in 1..Len(queue'[inquiry[x].at.name]) : queue'[inquiry[x].at.name][i] = x
      <4>1. inquiry[x].at \in Config
        BY <3>2 DEF Semaphores, Shapes, Routed
      <4>2. PICK i \in 1..Len(queue[inquiry[x].at.name]) : queue[inquiry[x].at.name][i] = x
        BY <3>2 DEF Semaphores, InLine
      <4>3. CASE inquiry[x].at.name = n
        <5>1. i # 1 /\ i \in 1..Len(queue[n])
          BY <2>1, <3>2, <4>2, <4>3
        <5>2. i - 1 \in 1..Len(queue'[n]) /\ queue'[n][i - 1] = x
          BY <1>4, <2>1, <2>7, <4>2, <4>3, <5>1
        <5> QED
          BY <4>3, <5>2
      <4>4. CASE inquiry[x].at.name # n
        BY <2>7, <4>1, <4>2, <4>4
      <4> QED
        BY <4>3, <4>4
    <3> QED
      BY <2>6, <3>1, <3>2 DEF InLine
  <2> QED
    BY <2>2, <2>4, <2>5, <2>7, <2>12, <2>13, <2>14
<1> QED
  BY <1>10, <1>11

\* Whoever stops waiting leaves the others in their order.
LEMMA StoppingKeeps ==
  ASSUME Semaphores, NEW r \in Inquirer, StopsWaiting(r),
         NEW n, n = inquiry[r].at.name
  PROVE  /\ queue' \in [Name -> Seq(Inquirer)]
         /\ \A m \in Name : Lined(m)' /\ Taken(m)'
         /\ \A x \in Inquirer : InLine(x)'
<1>1. /\ inquiry[r].step = "waiting" /\ inquiry[r].at \in Config /\ n \in Name
      /\ limit' = limit /\ Becomes(r, Quiet)
      /\ queue' = [queue EXCEPT ![n] = RemoveFirst(queue[n], r)]
  BY DEF StopsWaiting, Semaphores, Shapes, Routed
<1>2. /\ inquiry'[r] = Quiet /\ Quiet.step = "quiet"
      /\ \A x \in Inquirer \ {r} : inquiry'[x] = inquiry[x]
  BY <1>1 DEF Becomes, Quiet, Semaphores, Shapes
<1>3. /\ queue[n] \in Seq(Inquirer) /\ Len(queue[n]) \in Nat
      /\ queue \in [Name -> Seq(Inquirer)]
      /\ \A m \in Name : Lined(m) /\ Taken(m)
  BY <1>1, InQueue DEF Semaphores, Shapes
<1>4. PICK k \in 1..Len(queue[n]) :
        /\ queue[n][k] = r
        /\ RemoveFirst(queue[n], r)
             = SubSeq(queue[n], 1, k - 1) \o SubSeq(queue[n], k + 1, Len(queue[n]))
  <2>1. \E i \in 1..Len(queue[n]) : queue[n][i] = r
    BY <1>1 DEF Semaphores, InLine
  <2> QED
    BY <1>3, <2>1, FirstOf
<1> DEFINE left == SubSeq(queue[n], 1, k - 1)
           right == SubSeq(queue[n], k + 1, Len(queue[n]))
           rest == left \o right
<1>5. /\ left \in Seq(Inquirer) /\ Len(left) = k - 1
      /\ \A i \in 1..(k - 1) : left[i] = queue[n][i]
      /\ right \in Seq(Inquirer) /\ Len(right) = Len(queue[n]) - k
      /\ \A i \in 1..(Len(queue[n]) - k) : right[i] = queue[n][k + i]
  <2>1. \A i \in 1..Len(queue[n]) : queue[n][i] \in Inquirer
    BY <1>1, InQueue DEF Semaphores
  <2>2. /\ left \in Seq(Inquirer) /\ Len(left) = k - 1
        /\ \A i \in 1..(k - 1) : left[i] = queue[n][i]
    BY <1>3, <2>1, SubSeqProperties
  <2>3. /\ right \in Seq(Inquirer) /\ Len(right) = Len(queue[n]) - k
        /\ \A i \in 1..(Len(queue[n]) - k) : right[i] = queue[n][k + i]
    BY <1>3, <2>1, SubSeqProperties
  <2> QED
    BY <2>2, <2>3
<1> HIDE DEF left, right
<1>6. /\ rest \in Seq(Inquirer) /\ Len(rest) = Len(queue[n]) - 1
      /\ \A i \in 1..Len(rest) : rest[i] = queue[n][IF i < k THEN i ELSE i + 1]
  <2>1. /\ rest \in Seq(Inquirer) /\ Len(rest) = Len(left) + Len(right)
        /\ \A i \in 1..(Len(left) + Len(right)) :
             rest[i] = IF i <= Len(left) THEN left[i] ELSE right[i - Len(left)]
    <3>1. left \in Seq(Inquirer) /\ right \in Seq(Inquirer)
      BY <1>5
    <3> QED
      BY <3>1, ConcatProperties
  <2> HIDE DEF rest
  <2>2. ASSUME NEW i \in 1..Len(rest)
        PROVE  rest[i] = queue[n][IF i < k THEN i ELSE i + 1]
    <3>1. CASE i < k
      BY <1>3, <1>5, <2>1, <3>1
    <3>2. CASE ~(i < k)
      <4>1. i - (k - 1) \in 1..(Len(queue[n]) - k) /\ k + (i - (k - 1)) = i + 1
        BY <1>3, <1>5, <2>1, <3>2
      <4> QED
        BY <1>3, <1>5, <2>1, <3>2, <4>1
    <3> QED
      BY <3>1, <3>2
  <2> QED
    BY <1>3, <1>5, <2>1, <2>2
<1>7. queue' = [queue EXCEPT ![n] = rest]
  BY <1>1, <1>4 DEF left, right
<1> HIDE DEF rest
<1>8. /\ queue' \in [Name -> Seq(Inquirer)] /\ queue'[n] = rest
      /\ \A m \in Name \ {n} : queue'[m] = queue[m]
  BY <1>1, <1>3, <1>6, <1>7
<1>9. \A i, j \in 1..Len(queue[n]) : queue[n][i] = queue[n][j] => i = j
  BY <1>1, <1>3 DEF Lined
<1>10. ASSUME NEW i \in 1..Len(rest)
       PROVE  LET was == IF i < k THEN i ELSE i + 1
              IN /\ was \in 1..Len(queue[n]) /\ was # k /\ rest[i] = queue[n][was]
  BY <1>3, <1>6
<1>11. ASSUME NEW m \in Name PROVE Taken(m)'
  <2>1. Holders(m)' = Holders(m)
    BY <1>1, <1>2 DEF Holders, Holds
  <2>2. queue'[m] # <<>> => queue[m] # <<>>
    <3>1. CASE m = n
      <4>1. Len(queue[n]) \in Nat
        BY <1>3
      <4>2. Len(queue[n]) # 0
        BY <4>1
      <4> QED
        BY <3>1, <4>2
    <3>2. CASE m # n
      BY <1>8, <3>2
    <3> QED
      BY <3>1, <3>2
  <2> QED
    BY <1>1, <1>3, <2>1, <2>2 DEF Taken
<1>12. ASSUME NEW m \in Name PROVE Lined(m)'
  <2>1. \A i \in 1..Len(queue[m]) :
          /\ queue[m][i] \in Inquirer
          /\ inquiry[queue[m][i]].step = "waiting" /\ inquiry[queue[m][i]].at.name = m
    BY <1>3, InQueue DEF Semaphores, Lined
  <2>2. CASE m = n
    <3>1. ASSUME NEW i \in 1..Len(rest)
          PROVE  inquiry'[rest[i]].step = "waiting" /\ inquiry'[rest[i]].at.name = n
      <4>1. PICK was \in 1..Len(queue[n]) : was # k /\ rest[i] = queue[n][was]
        BY <1>10
      <4>2. queue[n][was] \in Inquirer \ {r}
        BY <1>4, <1>9, <2>1, <2>2, <4>1
      <4> QED
        <5>1. inquiry'[queue[n][was]] = inquiry[queue[n][was]]
          BY <1>2, <4>2
        <5>2. /\ inquiry[queue[n][was]].step = "waiting"
              /\ inquiry[queue[n][was]].at.name = n
          BY <2>1, <2>2
        <5> QED
          BY <4>1, <5>1, <5>2
    <3>2. ASSUME NEW i \in 1..Len(rest), NEW j \in 1..Len(rest), rest[i] = rest[j]
          PROVE  i = j
      <4> DEFINE was(x) == IF x < k THEN x ELSE x + 1
      <4>1. /\ was(i) \in 1..Len(queue[n]) /\ was(j) \in 1..Len(queue[n])
            /\ queue[n][was(i)] = queue[n][was(j)]
        BY <1>10, <3>2
      <4> HIDE DEF was
      <4>2. was(i) = was(j)
        BY <1>9, <4>1
      <4> QED
        BY <1>3, <1>6, <4>2 DEF was
    <3> QED
      BY SMTT(30), <1>8, <2>2, <3>1, <3>2 DEF Lined
  <2>3. CASE m # n
    <3>1. ASSUME NEW i \in 1..Len(queue[m])
          PROVE  inquiry'[queue[m][i]] = inquiry[queue[m][i]]
      BY <1>1, <1>2, <2>1, <2>3
    <3> QED
      BY <1>8, <2>3, <3>1, LinedStays
  <2> QED
    BY <2>2, <2>3
<1>13. ASSUME NEW x \in Inquirer PROVE InLine(x)'
  <2>1. CASE x = r
    BY <1>2, <2>1 DEF InLine
  <2>2. ASSUME x # r, inquiry[x].step = "waiting"
        PROVE  \E i \in 1..Len(queue'[inquiry[x].at.name]) : queue'[inquiry[x].at.name][i] = x
    <3>1. inquiry[x].at \in Config
      BY <2>2 DEF Semaphores, Shapes, Routed
    <3>2. PICK i \in 1..Len(queue[inquiry[x].at.name]) : queue[inquiry[x].at.name][i] = x
      BY <2>2 DEF Semaphores, InLine
    <3>3. CASE inquiry[x].at.name = n
      <4>1. i # k /\ i \in 1..Len(queue[n])
        BY <1>4, <2>2, <3>2, <3>3
      <4>2. CASE i < k
        <5>1. i \in 1..Len(rest) /\ rest[i] = x
          BY <1>3, <1>6, <3>2, <3>3, <4>1, <4>2
        <5> QED
          BY <1>8, <3>3, <5>1
      <4>3. CASE i > k
        <5>1. i - 1 \in 1..Len(rest) /\ rest[i - 1] = x
          BY <1>3, <1>6, <3>2, <3>3, <4>1, <4>3
        <5> QED
          BY <1>8, <3>3, <5>1
      <4> QED
        BY <1>3, <4>1, <4>2, <4>3
    <3>4. CASE inquiry[x].at.name # n
      BY <1>8, <3>1, <3>2, <3>4
    <3> QED
      BY <3>3, <3>4
  <2> QED
    BY <1>2, <2>1, <2>2 DEF InLine
<1> QED
  BY <1>8, <1>11, <1>12, <1>13

LEMMA NextSemaphores ==
  ASSUME Semaphores, [BankNext]_bankVars
  PROVE  Semaphores'
<1>1. /\ profile' \in [Name -> ProfileRow] /\ admin' \subseteq Config
      /\ \A n \in Name : profile'[n].enabled => profile'[n].cfg \in Config
  BY ProfilesStay DEF Semaphores
<1>2. /\ limit \in [Name -> Nat] /\ queue \in [Name -> Seq(Inquirer)]
      /\ inquiry \in [Inquirer -> InquiryRow \cup {Quiet}]
      /\ \A r \in Inquirer : Routed(inquiry[r])
  BY DEF Semaphores, Shapes
<1>3. Quiet.step = "quiet" /\ ~Holding(Quiet)
  BY DEF Quiet, Holding
<1>4. CASE UNCHANGED <<inquiry, limit, queue>>
  <2>1. Shapes'
    BY <1>1, <1>2, <1>4 DEF Shapes, Routed
  <2>2. ASSUME NEW n \in Name PROVE Lined(n)' /\ Taken(n)'
    <3>1. Holders(n)' = Holders(n)
      BY <1>4 DEF Holders, Holds
    <3>2. Taken(n)'
      BY <1>4, <3>1 DEF Semaphores, Taken
    <3> QED
      BY <1>4, <3>2, LinedStays
  <2>3. \A r \in Inquirer : InLine(r)'
    BY <1>4 DEF Semaphores, InLine
  <2> QED
    BY <2>1, <2>2, <2>3 DEF Semaphores
\* One request changes, with everything else as before.
<1>5. ASSUME NEW r \in Inquirer, NEW row \in InquiryRow \cup {Quiet}, Routed(row),
             Becomes(r, row), UNCHANGED <<limit, queue>>,
             row.step # "waiting", inquiry[r].step # "waiting",
             Holding(row) <=> Holding(inquiry[r]),
             Holding(row) => row.at = inquiry[r].at
      PROVE  Semaphores'
  <2>1. /\ inquiry' \in [Inquirer -> InquiryRow \cup {Quiet}]
        /\ inquiry'[r] = row /\ \A x \in Inquirer \ {r} : inquiry'[x] = inquiry[x]
    BY <1>2, <1>5 DEF Becomes
  <2>2. Shapes'
    BY <1>1, <1>2, <1>5, <2>1 DEF Shapes, Routed
  <2>3. \A n \in Name : Lined(n)' /\ Taken(n)'
    BY <1>5, NothingMoves
  <2>4. \A x \in Inquirer : InLine(x)'
    BY <1>5, <2>1 DEF Semaphores, InLine
  <2> QED
    BY <2>2, <2>3, <2>4 DEF Semaphores
<1>6. ASSUME NEW r \in Inquirer, GivesUp(r) PROVE Semaphores'
  BY <1>3, <1>5, <1>6 DEF GivesUp, Routed, Holding
<1>7. ASSUME NEW r \in Inquirer, NEW row, Asks(r, row) PROVE Semaphores'
  <2>1. inquiry[r] = Quiet /\ row \in InquiryRow /\ row.step = "routing"
        /\ Becomes(r, row) /\ UNCHANGED <<limit, queue>>
    BY <1>7 DEF Asks
  <2>2. ~Holding(row) /\ Routed(row)
    BY <2>1 DEF Holding, Routed
  <2> QED
    BY <1>3, <1>5, <2>1, <2>2
<1>8. ASSUME NEW r \in Inquirer, NEW row, Stays(r, row) PROVE Semaphores'
  <2>1. /\ Holding(inquiry[r]) /\ Holding(row) /\ row \in InquiryRow
        /\ row.at = inquiry[r].at /\ Becomes(r, row) /\ UNCHANGED <<limit, queue>>
    BY <1>8 DEF Stays, Alike
  <2>2. /\ Routed(row) /\ row.step # "waiting" /\ inquiry[r].step # "waiting"
    BY <1>2, <2>1 DEF Holding, Routed
  <2> QED
    BY <1>5, <2>1, <2>2
<1>9. ASSUME NEW r \in Inquirer, NEW row, Settled(r, row) PROVE Semaphores'
  <2>1. /\ inquiry[r].step \in {"succeeding", "failing", "answered"}
        /\ Becomes(r, row) /\ UNCHANGED <<limit, queue>>
        /\ \/ row = Quiet
           \/ row \in InquiryRow /\ row.step = "answered" /\ row.at = inquiry[r].at
           \/ row \in InquiryRow /\ row.step = "routing"
    BY <1>9 DEF Settled, Alike
  <2>2. /\ Routed(row) /\ row.step # "waiting" /\ inquiry[r].step # "waiting"
        /\ ~Holding(row) /\ ~Holding(inquiry[r])
    BY <1>2, <1>3, <2>1 DEF Holding, Routed
  <2> QED
    BY <1>5, <2>1, <2>2
<1>10. ASSUME NEW r \in Inquirer, NEW row, Takes(r, row) PROVE Semaphores'
  <2>1. row \in InquiryRow /\ Becomes(r, row)
    BY <1>10 DEF Takes
  <2>2. row.at \in Config
    BY <1>10, TakingKeeps
  <2>3. /\ inquiry' \in [Inquirer -> InquiryRow \cup {Quiet}]
        /\ inquiry'[r] = row /\ \A x \in Inquirer \ {r} : inquiry'[x] = inquiry[x]
    BY <1>2, <2>1 DEF Becomes
  <2>4. Shapes'
    BY <1>1, <1>2, <1>10, <2>2, <2>3, TakingKeeps DEF Shapes, Routed
  <2> QED
    BY <1>10, <2>4, TakingKeeps DEF Semaphores
<1>11. ASSUME NEW r \in Inquirer, NEW row, Leaves(r, row) PROVE Semaphores'
  <2>1. /\ queue' \in [Name -> Seq(Inquirer)]
        /\ \A m \in Name : Lined(m)' /\ Taken(m)'
        /\ \A x \in Inquirer : InLine(x)'
        /\ \/ Becomes(r, row)
           \/ \E h \in Inquirer, woken \in InquiryRow :
                /\ h # r /\ inquiry[h].step = "waiting"
                /\ woken.step = "calling" /\ Alike(woken, inquiry[h])
                /\ inquiry' = [inquiry EXCEPT ![r] = row, ![h] = woken]
    BY <1>11, LeavingKeeps
  <2>2. /\ row \in InquiryRow \cup {Quiet} /\ Routed(row) /\ limit' = limit
    BY <1>2, <1>3, <1>11 DEF Leaves, Routed, Holding, Alike
  <2>3. /\ inquiry' \in [Inquirer -> InquiryRow \cup {Quiet}]
        /\ \A x \in Inquirer : Routed(inquiry'[x])
    <3>1. CASE Becomes(r, row)
      BY <1>2, <2>2, <3>1 DEF Becomes
    <3>2. ASSUME NEW h \in Inquirer, NEW woken \in InquiryRow,
                 inquiry[h].step = "waiting", Alike(woken, inquiry[h]),
                 inquiry' = [inquiry EXCEPT ![r] = row, ![h] = woken]
          PROVE  /\ inquiry' \in [Inquirer -> InquiryRow \cup {Quiet}]
                 /\ \A x \in Inquirer : Routed(inquiry'[x])
      <4>1. Routed(woken)
        BY <1>2, <3>2 DEF Routed, Alike
      <4> QED
        BY <1>2, <2>2, <3>2, <4>1
    <3> QED
      BY <2>1, <3>1, <3>2
  <2>4. Shapes'
    BY <1>1, <1>2, <2>1, <2>2, <2>3 DEF Shapes, Routed
  <2> QED
    BY <2>1, <2>4 DEF Semaphores
<1>12. ASSUME NEW r \in Inquirer, StopsWaiting(r) PROVE Semaphores'
  <2>1. inquiry' = [inquiry EXCEPT ![r] = Quiet] /\ limit' = limit
    BY <1>12 DEF StopsWaiting, Becomes
  <2>2. /\ inquiry' \in [Inquirer -> InquiryRow \cup {Quiet}]
        /\ \A x \in Inquirer : Routed(inquiry'[x])
    BY <1>2, <1>3, <2>1 DEF Routed
  <2>3. Shapes'
    BY <1>1, <1>2, <1>12, <2>1, <2>2, StoppingKeeps DEF Shapes, Routed
  <2> QED
    BY <1>12, <2>3, StoppingKeeps DEF Semaphores
<1>13. Shapes
  BY DEF Semaphores
<1> QED
  BY <1>4, <1>6, <1>7, <1>8, <1>9, <1>10, <1>11, <1>12, <1>13, StepsOfRequests

\* However calls end and callers give up, no profile serves more requests than
\* its semaphore admits, and nobody waits for one that has a slot to spare
\* (AIBank._execute, asyncio.Semaphore).
THEOREM SlotsAreNeverLost == BankSpec => []SlotsAreUsed
<1>1. Semaphores => SlotsAreUsed
  BY DEF Semaphores, SlotsAreUsed, Taken
<1>2. Semaphores /\ [BankNext]_bankVars => Semaphores'
  BY NextSemaphores
<1> QED
  BY <1>1, <1>2, InitSemaphores, PTL DEF BankSpec

-----------------------------------------------------------------------------
(* The order of the candidates                                             *)

\* The candidates of a request: those that are still to be tried stand in order
\* behind the one that is tried, and every other one has been refused.
Ranked(row) ==
  row.step # "quiet" =>
    /\ \A c \in row.found : Compatible(c, row.ask)
    /\ row.ask.kind = "llm" =>
         /\ \A i \in 1..Len(row.todo) : row.todo[i] \in row.found
         /\ \A j \in 1..Len(row.todo) : \A i \in 1..(j - 1) :
              Before(row.ask.capability, row.todo[i], row.todo[j])
         /\ row.step # "routing" =>
              /\ row.at \in row.found
              /\ \A j \in 1..Len(row.todo) :
                   Before(row.ask.capability, row.at, row.todo[j])
         /\ \A c \in row.found :
              \/ c \in row.refused
              \/ \E i \in 1..Len(row.todo) : row.todo[i] = c
              \/ row.step # "routing" /\ c = row.at

Ranking == \A r \in Inquirer : Ranked(inquiry[r])

LEMMA PreferenceType ==
  ASSUME NEW capability, NEW provider
  PROVE  Preference(capability, provider) \in Nat
<1> DEFINE order == Preferred(capability)
<1>1. \/ order = <<"claude", "openai", "lm_studio">>
      \/ order = <<"openai", "claude", "lm_studio">>
      \/ order = <<"lm_studio", "openai", "claude">>
  BY DEF Preferred
<1>2. Len(order) = 3
  BY <1>1
<1> HIDE DEF order
<1>3. CASE Contains(order, provider)
  <2>1. \E i \in 1..3 : order[i] = provider
    BY <1>2, <1>3 DEF Contains
  <2> QED
    BY <1>3, <2>1 DEF Preference, order
<1>4. CASE ~Contains(order, provider)
  BY <1>4 DEF Preference, order
<1> QED
  BY <1>3, <1>4

\* Who comes before another has no worse a claim.
LEMMA EarlierIsNoWorse ==
  ASSUME NEW capability, NEW x \in Config, NEW y \in Config, Before(capability, x, y)
  PROVE  ~Better(capability, y, x)
<1> DEFINE px == Preference(capability, x.provider)
           py == Preference(capability, y.provider)
<1>1. /\ px \in Nat /\ py \in Nat /\ x.priority \in Nat /\ y.priority \in Nat
  BY PreferenceType
<1>2. PICK i \in 1..3 :
        /\ <<x.priority, px, x.name>>[i] < <<y.priority, py, y.name>>[i]
        /\ \A j \in 1..(i - 1) :
             <<x.priority, px, x.name>>[j] = <<y.priority, py, y.name>>[j]
  BY DEF Before
<1>3. Better(capability, y, x) <=>
        y.priority < x.priority \/ (y.priority = x.priority /\ py < px)
  BY DEF Better
<1> HIDE DEF px, py
<1>4. CASE i = 1
  BY <1>1, <1>2, <1>3, <1>4
<1>5. CASE i = 2
  <2>1. px < py /\ x.priority = y.priority
    BY <1>2, <1>5
  <2> QED
    BY <1>1, <1>3, <2>1
<1>6. CASE i = 3
  <2>1. px = py /\ x.priority = y.priority
    BY <1>2, <1>6
  <2> QED
    BY <1>1, <1>3, <2>1
<1> QED
  BY <1>4, <1>5, <1>6

LEMMA AskRanked ==
  ASSUME NEW r, NEW row, Asks(r, row)
  PROVE  Ranked(row)
<1>1. row \in InquiryRow /\ row.todo \in Seq(Config) /\ row.step = "routing"
  BY DEF Asks, InquiryRow
<1>2. CASE row.ask.kind = "llm"
  <2>1. ToSet(row.todo) = row.found
    BY <1>2 DEF Asks
  <2>2. row.found = {row.todo[i] : i \in 1..Len(row.todo)}
    BY <1>1, <2>1 DEF ToSet
  <2> QED
    BY <1>1, <1>2, <2>2 DEF Asks, Ranked
<1>3. CASE row.ask.kind # "llm"
  BY <1>3 DEF Asks, Ranked
<1> QED
  BY <1>2, <1>3

LEMMA TakeRanked ==
  ASSUME Shapes, NEW r \in Inquirer, NEW row, Takes(r, row), Ranked(inquiry[r])
  PROVE  Ranked(row)
<1> DEFINE old == inquiry[r]
           todo == old.todo
<1>1. /\ old \in InquiryRow /\ todo \in Seq(Config) /\ old.step = "routing"
      /\ row.ask = old.ask /\ row.found = old.found /\ Len(todo) \in Nat
  <2>1. /\ old.step = "routing" /\ row.ask = old.ask /\ row.found = old.found
    BY DEF Takes
  <2>2. old \in InquiryRow
    BY <2>1, RowOf
  <2>3. todo \in Seq(Config) /\ Len(todo) \in Nat
    BY <2>2 DEF InquiryRow
  <2> QED
    BY <2>1, <2>2, <2>3
<1>2. PICK next \in 1..Len(todo) :
        /\ row.at = todo[next]
        /\ row.todo = SubSeq(todo, next + 1, Len(todo))
        /\ row.refused = old.refused \cup ToSet(SubSeq(todo, 1, next - 1))
  BY DEF Takes
<1>3. /\ Len(row.todo) = Len(todo) - next
      /\ \A i \in 1..(Len(todo) - next) : row.todo[i] = todo[next + i]
  BY <1>1, <1>2, SubSeqProperties
<1>4. \A i \in 1..(next - 1) : todo[i] \in row.refused
  <2> DEFINE passed == SubSeq(todo, 1, next - 1)
  <2>1. /\ passed \in Seq(Config) /\ Len(passed) = next - 1
        /\ \A i \in 1..(next - 1) : passed[i] = todo[i]
    BY <1>1, <1>2, SubSeqProperties
  <2>2. row.refused = old.refused \cup ToSet(passed)
    BY <1>2
  <2> HIDE DEF passed
  <2>3. \A i \in 1..(next - 1) : passed[i] \in ToSet(passed)
    BY <2>1 DEF ToSet
  <2> QED
    BY <2>1, <2>2, <2>3
<1>5. row.step \in {"calling", "waiting"}
  BY DEF Takes
<1>6. \A c \in row.found : Compatible(c, row.ask)
  BY <1>1 DEF Ranked
<1>7. ASSUME row.ask.kind = "llm"
      PROVE  /\ \A i \in 1..Len(row.todo) : row.todo[i] \in row.found
             /\ \A j \in 1..Len(row.todo) : \A i \in 1..(j - 1) :
                  Before(row.ask.capability, row.todo[i], row.todo[j])
             /\ row.at \in row.found
             /\ \A j \in 1..Len(row.todo) :
                  Before(row.ask.capability, row.at, row.todo[j])
             /\ \A c \in row.found :
                  \/ c \in row.refused
                  \/ \E i \in 1..Len(row.todo) : row.todo[i] = c
                  \/ c = row.at
  <2>1. /\ \A i \in 1..Len(todo) : todo[i] \in row.found
        /\ \A j \in 1..Len(todo) : \A i \in 1..(j - 1) :
             Before(row.ask.capability, todo[i], todo[j])
        /\ \A c \in row.found : c \in old.refused \/ \E i \in 1..Len(todo) : todo[i] = c
    BY <1>1, <1>7 DEF Ranked
  <2> HIDE DEF todo
  <2>2. ASSUME NEW j \in 1..Len(row.todo)
        PROVE  next + j \in 1..Len(todo) /\ row.todo[j] = todo[next + j]
    BY <1>1, <1>3
  <2>3. ASSUME NEW j \in 1..Len(row.todo), NEW i \in 1..(j - 1)
        PROVE  Before(row.ask.capability, row.todo[i], row.todo[j])
    <3>1. /\ i \in 1..Len(row.todo) /\ next + i \in 1..(next + j - 1)
      BY <1>1, <1>3
    <3> QED
      BY <2>1, <2>2, <3>1
  <2>4. ASSUME NEW j \in 1..Len(row.todo)
        PROVE  Before(row.ask.capability, row.at, row.todo[j])
    <3>1. next \in 1..(next + j - 1)
      BY <1>1, <1>3
    <3> QED
      BY <1>2, <2>1, <2>2, <3>1
  <2>5. ASSUME NEW i \in 1..Len(todo)
        PROVE  \/ todo[i] \in row.refused \/ todo[i] = row.at
               \/ \E j \in 1..Len(row.todo) : row.todo[j] = todo[i]
    <3>1. CASE i < next
      BY <1>4, <3>1
    <3>2. CASE i = next
      BY <1>2, <3>2
    <3>3. CASE i > next
      <4>1. i - next \in 1..Len(row.todo) /\ row.todo[i - next] = todo[i]
        <5>1. i - next \in 1..(Len(todo) - next) /\ next + (i - next) = i
          BY <1>1, <3>3
        <5> QED
          BY <1>3, <5>1
      <4> QED
        BY <4>1
    <3> QED
      BY <3>1, <3>2, <3>3
  <2>6. ASSUME NEW c \in row.found
        PROVE  \/ c \in row.refused \/ c = row.at
               \/ \E i \in 1..Len(row.todo) : row.todo[i] = c
    <3>1. CASE c \in old.refused
      BY <1>2, <3>1
    <3>2. CASE \E i \in 1..Len(todo) : todo[i] = c
      BY <2>5, <3>2
    <3> QED
      BY <2>1, <3>1, <3>2
  <2>7. row.at \in row.found /\ \A i \in 1..Len(row.todo) : row.todo[i] \in row.found
    BY <1>2, <2>1, <2>2
  <2> QED
    BY <2>3, <2>4, <2>6, <2>7
<1> QED
  BY <1>5, <1>6, <1>7 DEF Ranked

LEMMA AlikeRanked ==
  ASSUME NEW x, NEW y, Alike(y, x), Ranked(x),
         x.step \notin {"quiet", "routing"}, y.step \notin {"quiet", "routing"}
  PROVE  Ranked(y)
BY DEF Alike, Ranked

LEMMA NextRanking ==
  ASSUME Semaphores, Ranking, [BankNext]_bankVars
  PROVE  Ranking'
<1>1. /\ inquiry \in [Inquirer -> InquiryRow \cup {Quiet}]
      /\ Shapes /\ \A r \in Inquirer : Ranked(inquiry[r])
  BY DEF Semaphores, Shapes, Ranking
<1>2. Ranked(Quiet)
  BY DEF Ranked, Quiet
<1>3. CASE UNCHANGED <<inquiry, limit, queue>>
  BY <1>3 DEF Ranking
<1>4. ASSUME NEW r \in Inquirer, NEW row, Becomes(r, row), Ranked(row) PROVE Ranking'
  <2>1. \A x \in Inquirer : inquiry'[x] = IF x = r THEN row ELSE inquiry[x]
    BY <1>1, <1>4 DEF Becomes
  <2> QED
    BY <1>1, <1>4, <2>1 DEF Ranking
<1>5. ASSUME NEW r \in Inquirer, GivesUp(r) \/ StopsWaiting(r) PROVE Ranking'
  BY <1>2, <1>4, <1>5 DEF GivesUp, StopsWaiting
<1>6. ASSUME NEW r \in Inquirer, NEW row, Asks(r, row) PROVE Ranking'
  <2>1. Ranked(row)
    BY <1>6, AskRanked
  <2> QED
    BY <1>4, <1>6, <2>1 DEF Asks
<1>7. ASSUME NEW r \in Inquirer, NEW row, Takes(r, row) PROVE Ranking'
  <2>1. Ranked(row)
    BY <1>1, <1>7, TakeRanked
  <2> QED
    BY <1>4, <1>7, <2>1 DEF Takes
<1>8. ASSUME NEW r \in Inquirer, NEW row, Stays(r, row) PROVE Ranking'
  <2>1. /\ Alike(row, inquiry[r]) /\ Becomes(r, row)
        /\ row.step \in {"calling", "sleeping"} /\ inquiry[r].step \in {"calling", "sleeping"}
    BY <1>8 DEF Stays, Holding
  <2>2. Ranked(row)
    BY <1>1, <2>1, AlikeRanked
  <2> QED
    BY <1>4, <2>1, <2>2
<1>9. ASSUME NEW r \in Inquirer, NEW row, Settled(r, row) PROVE Ranking'
  <2>1. Becomes(r, row) /\ inquiry[r].step \in {"succeeding", "failing", "answered"}
    BY <1>9 DEF Settled
  <2>2. CASE row = Quiet
    BY <1>2, <1>4, <2>1, <2>2
  <2>3. CASE Alike(row, inquiry[r]) /\ row.step = "answered"
    <3>1. Ranked(row)
      BY <1>1, <2>1, <2>3, AlikeRanked
    <3> QED
      BY <1>4, <2>1, <3>1
  <2>4. CASE /\ row.step = "routing"
             /\ row.ask = inquiry[r].ask /\ row.found = inquiry[r].found
             /\ row.todo = inquiry[r].todo
             /\ row.refused = inquiry[r].refused \cup {inquiry[r].at}
    <3>1. Ranked(inquiry[r])
      BY <1>1
    <3>2. Ranked(row)
      BY <2>1, <2>4, <3>1 DEF Ranked
    <3> QED
      BY <1>4, <2>1, <3>2
  <2> QED
    BY <1>9, <2>2, <2>3, <2>4 DEF Settled
<1>10. ASSUME NEW r \in Inquirer, NEW row, Leaves(r, row) PROVE Ranking'
  <2>1. Ranked(row)
    <3>1. CASE row = Quiet
      BY <1>2, <3>1
    <3>2. CASE Alike(row, inquiry[r]) /\ row.step \in {"succeeding", "failing"}
      <4>1. inquiry[r].step \in {"calling", "sleeping"}
        BY <1>10 DEF Leaves, Holding
      <4> QED
        BY <1>1, <3>2, <4>1, AlikeRanked
    <3> QED
      BY <1>10, <3>1, <3>2 DEF Leaves
  <2>2. CASE Becomes(r, row)
    BY <1>4, <2>1, <2>2
  <2>3. ASSUME NEW h \in Inquirer, NEW woken \in InquiryRow,
               inquiry[h].step = "waiting", woken.step = "calling", Alike(woken, inquiry[h]),
               inquiry' = [inquiry EXCEPT ![r] = row, ![h] = woken]
        PROVE  Ranking'
    <3>1. Ranked(woken)
      BY <1>1, <2>3, AlikeRanked
    <3>2. \A x \in Inquirer :
            inquiry'[x] = IF x = h THEN woken ELSE IF x = r THEN row ELSE inquiry[x]
      BY <1>1, <2>3
    <3> QED
      BY <1>1, <2>1, <3>1, <3>2 DEF Ranking
  <2> QED
    BY <1>10, <2>2, <2>3, LeavingKeeps
<1> QED
  BY <1>1, <1>3, <1>5, <1>6, <1>7, <1>8, <1>9, <1>10, StepsOfRequests

\* Whatever fails, opens a circuit or is reconfigured in between, the profile that
\* answers is compatible, and every compatible one with a better claim failed for
\* this request or was passed over (_execute_llm_candidates).
THEOREM BestOneAnswers == BankSpec => []BestAnswers
<1>1. BankInit => Ranking
  BY DEF BankInit, Ranking, Ranked, Quiet
<1>2. Semaphores /\ Ranking => BestAnswers
  <2> SUFFICES ASSUME Semaphores, Ranking, NEW r \in Inquirer,
                      inquiry[r].step = "answered", inquiry[r].ask.kind = "llm"
               PROVE  /\ Compatible(inquiry[r].at, inquiry[r].ask)
                      /\ \A c \in inquiry[r].found :
                           Better(inquiry[r].ask.capability, c, inquiry[r].at)
                             => c \in inquiry[r].refused
    BY DEF BestAnswers
  <2>1. /\ inquiry[r] \in InquiryRow /\ inquiry[r].at \in Config
        /\ inquiry[r].found \in SUBSET Config
    BY RowOf DEF Semaphores, Shapes, Routed, InquiryRow
  <2>2. /\ inquiry[r].at \in inquiry[r].found
        /\ \A c \in inquiry[r].found : Compatible(c, inquiry[r].ask)
        /\ \A j \in 1..Len(inquiry[r].todo) :
             Before(inquiry[r].ask.capability, inquiry[r].at, inquiry[r].todo[j])
        /\ \A c \in inquiry[r].found :
             \/ c \in inquiry[r].refused
             \/ \E i \in 1..Len(inquiry[r].todo) : inquiry[r].todo[i] = c
             \/ c = inquiry[r].at
    BY DEF Ranking, Ranked
  <2>3. ASSUME NEW c \in inquiry[r].found, c \notin inquiry[r].refused
        PROVE  ~Better(inquiry[r].ask.capability, c, inquiry[r].at)
    <3>1. CASE c = inquiry[r].at
      <4>1. /\ c.priority \in Nat
            /\ Preference(inquiry[r].ask.capability, c.provider) \in Nat
        BY <2>1, PreferenceType
      <4> QED
        BY <3>1, <4>1 DEF Better
    <3>2. CASE Before(inquiry[r].ask.capability, inquiry[r].at, c)
      BY <2>1, <3>2, EarlierIsNoWorse
    <3> QED
      BY <2>2, <2>3, <3>1, <3>2
  <2> QED
    BY <2>2, <2>3
<1>3. Semaphores /\ Ranking /\ [BankNext]_bankVars => Semaphores' /\ Ranking'
  BY NextSemaphores, NextRanking
<1> QED
  BY <1>1, <1>2, <1>3, InitSemaphores, PTL DEF BankSpec

=============================================================================
