------------------------- MODULE ConversationsProofs -------------------------
(***************************************************************************)
(* Machine-checked proofs about Conversations: what a client receives, for *)
(* any number of runs, clients and events, and what the rolling summary    *)
(* and the prompts hold, for any number of overlapping runs, any window    *)
(* and batch, and any limit of a prompt.                                   *)
(***************************************************************************)
EXTENDS Conversations, SequenceTheorems, TLAPS

-----------------------------------------------------------------------------
(* Events and streams *)

EventType == {"run.started", "run.step"} \cup Outcome

\* What a client has is the beginning of the events, up to its cursor.
InOrder(s) ==
  LET all == events[stream[s].run]
  IN /\ stream[s].cursor \in 0..Len(all)
     /\ stream[s].got = SubSeq(all, 1, stream[s].cursor)

StreamRow ==
  [step : {"closed", "poll", "look", "ended"}, run : Run, cursor : Nat,
   got : Seq(EventType), empty : BOOLEAN]

Streamed ==
  /\ events \in [Run -> Seq(EventType)]
  /\ stream \in [Client -> StreamRow]
  /\ \A s \in Client : InOrder(s)

\* A page continues what the client has.
LEMMA PageContinues ==
  ASSUME NEW all \in Seq(EventType), NEW cursor \in 0..Len(all)
  PROVE  LET batch == PageAfter(all, cursor)
         IN /\ batch \in Seq(EventType)
            /\ cursor + Len(batch) \in 0..Len(all)
            /\ SubSeq(all, 1, cursor) \o batch = SubSeq(all, 1, cursor + Len(batch))
<1> DEFINE last == IF cursor + Page < Len(all) THEN cursor + Page ELSE Len(all)
<1>1. Page \in Nat /\ Page > 0
  BY ConversationsAssumption
<1>2. last \in cursor..Len(all)
  BY <1>1
<1> HIDE DEF last
<1>3. PageAfter(all, cursor) = SubSeq(all, cursor + 1, last)
  BY DEF PageAfter, last
<1>4. \A i \in (cursor + 1)..last : all[i] \in EventType
  BY <1>2, ElementOfSeq
<1>5. /\ SubSeq(all, cursor + 1, last) \in Seq(EventType)
      /\ Len(SubSeq(all, cursor + 1, last)) = last - cursor
  BY <1>2, <1>4, SubSeqProperties
<1>6. SubSeq(all, 1, cursor) \o SubSeq(all, cursor + 1, last) = SubSeq(all, 1, last)
  BY <1>2, ConcatAdjacentSubSeq
<1> QED
  BY <1>2, <1>3, <1>5, <1>6

\* An event at the end leaves the beginning as it is.
LEMMA EventFollows ==
  ASSUME NEW all \in Seq(EventType), NEW cursor \in 0..Len(all), NEW type \in EventType
  PROVE  /\ Append(all, type) \in Seq(EventType)
         /\ cursor \in 0..Len(Append(all, type))
         /\ SubSeq(Append(all, type), 1, cursor) = SubSeq(all, 1, cursor)
<1>1. /\ Append(all, type) \in Seq(EventType)
      /\ Len(Append(all, type)) = Len(all) + 1
      /\ \A i \in 1..Len(all) : Append(all, type)[i] = all[i]
  BY AppendProperties
<1>2. \A i \in 1..cursor : all[i] \in EventType /\ Append(all, type)[i] \in EventType
  BY <1>1, ElementOfSeq
<1>3. /\ SubSeq(all, 1, cursor) \in Seq(EventType)
      /\ Len(SubSeq(all, 1, cursor)) = cursor
      /\ \A i \in 1..cursor : SubSeq(all, 1, cursor)[i] = all[i]
  BY <1>2, SubSeqProperties
<1>4. /\ SubSeq(Append(all, type), 1, cursor) \in Seq(EventType)
      /\ Len(SubSeq(Append(all, type), 1, cursor)) = cursor
      /\ \A i \in 1..cursor : SubSeq(Append(all, type), 1, cursor)[i] = Append(all, type)[i]
  BY <1>2, SubSeqProperties
<1>5. SubSeq(Append(all, type), 1, cursor) = SubSeq(all, 1, cursor)
  BY <1>1, <1>3, <1>4, SeqEqual
<1> QED
  BY <1>1, <1>5

LEMMA InitStreamed == Init => Streamed
<1> SUFFICES ASSUME Init PROVE Streamed
  OBVIOUS
<1>1. <<>> \in Seq(EventType) /\ Len(<<>>) = 0
  BY EmptySeq
<1>2. \A s \in Client : stream[s].cursor = 0 /\ stream[s].got = <<>> /\ stream[s].run \in Run
  BY DEF Init
<1>3. \A s \in Client : SubSeq(events[stream[s].run], 1, 0) = <<>>
  BY SubSeqEmpty
<1>4. <<>> \in Seq(EventType)
  BY EmptySeq
<1>5. ASSUME NEW s \in Client PROVE stream[s] \in StreamRow
  <2>1. PICK r \in Run : stream[s] = [step |-> "closed", run |-> r, cursor |-> 0,
                                     got |-> <<>>, empty |-> FALSE]
    BY DEF Init
  <2> QED
    BY <1>4, <2>1 DEF StreamRow
<1>6. stream \in [Client -> StreamRow]
  BY <1>5 DEF Init
<1>7. \A s \in Client : events[stream[s].run] = <<>>
  BY <1>2 DEF Init
<1>8. ASSUME NEW s \in Client PROVE InOrder(s)
  <2>1. Len(events[stream[s].run]) = 0
    BY <1>1, <1>7
  <2>2. stream[s].cursor \in 0..Len(events[stream[s].run])
    BY <1>2, <2>1
  <2>3. stream[s].got = SubSeq(events[stream[s].run], 1, stream[s].cursor)
    BY <1>2, <1>3
  <2> QED
    BY <2>2, <2>3 DEF InOrder
<1>9. events \in [Run -> Seq(EventType)]
  BY <1>4 DEF Init
<1> QED
  BY <1>6, <1>8, <1>9 DEF Streamed

\* An event of a run reaches no client before it asks.
LEMMA EmitKeeps ==
  ASSUME Streamed, NEW r \in Run, NEW type \in EventType, Emit(r, type), UNCHANGED stream
  PROVE  Streamed'
<1>1. \A q \in Run : events'[q] = IF q = r THEN Append(events[r], type) ELSE events[q]
  BY DEF Emit, Streamed
<1>2. events[r] \in Seq(EventType) /\ Append(events[r], type) \in Seq(EventType)
  BY AppendProperties DEF Streamed
<1>3. events' \in [Run -> Seq(EventType)]
  BY <1>2 DEF Emit, Streamed
<1>4. ASSUME NEW s \in Client PROVE InOrder(s)'
  <2>1. stream[s].run \in Run /\ InOrder(s)
    BY DEF Streamed, StreamRow
  <2>2. CASE stream[s].run = r
    <3> DEFINE all == events[r]
    <3>1. stream[s].cursor \in 0..Len(all) /\ stream[s].got = SubSeq(all, 1, stream[s].cursor)
      BY <2>1, <2>2 DEF InOrder
    <3>2. events'[stream'[s].run] = Append(all, type) /\ stream'[s] = stream[s]
      BY <1>1, <2>1, <2>2
    <3>3. all \in Seq(EventType)
      BY <1>2
    <3> HIDE DEF all
    <3>4. /\ stream[s].cursor \in 0..Len(Append(all, type))
          /\ SubSeq(Append(all, type), 1, stream[s].cursor) = SubSeq(all, 1, stream[s].cursor)
      BY <3>1, <3>3, EventFollows
    <3> QED
      BY <3>1, <3>2, <3>4 DEF InOrder
  <2>3. CASE stream[s].run # r
    BY <1>1, <2>1, <2>3 DEF InOrder
  <2> QED
    BY <2>2, <2>3
<1> QED
  BY <1>3, <1>4 DEF Streamed

\* A poll takes the next page, and nothing else moves a cursor.
LEMMA StreamKeeps ==
  ASSUME Streamed, NEW s \in Client, Open(s) \/ Poll(s) \/ Look(s)
  PROVE  Streamed'
<1>1. stream[s] \in StreamRow /\ InOrder(s) /\ stream[s].run \in Run
  BY DEF Streamed, StreamRow
<1>2. UNCHANGED events
  BY DEF Open, Poll, Look, rowVars
<1>3. CASE Open(s) \/ Look(s)
  <2>1. PICK next \in {"closed", "poll", "look", "ended"} :
          stream' = [stream EXCEPT ![s].step = next]
    BY <1>3 DEF Open, Look
  <2>2. stream'[s] = [stream[s] EXCEPT !.step = next]
    BY <2>1 DEF Streamed
  <2>3. \A t \in Client : stream'[t] \in StreamRow /\ stream'[t].run = stream[t].run
                          /\ stream'[t].cursor = stream[t].cursor /\ stream'[t].got = stream[t].got
    BY <1>1, <2>1 DEF Streamed, StreamRow
  <2>4. stream' \in [Client -> StreamRow]
    BY <2>1, <2>3 DEF Streamed
  <2> QED
    BY <1>2, <2>3, <2>4 DEF Streamed, InOrder
<1>4. CASE Poll(s)
  <2> DEFINE batch == PageAfter(events[stream[s].run], stream[s].cursor)
  <2>1. events[stream[s].run] \in Seq(EventType)
    BY <1>1 DEF Streamed
  <2>2. /\ batch \in Seq(EventType)
        /\ stream[s].cursor + Len(batch) \in 0..Len(events[stream[s].run])
        /\ stream[s].got \o batch = SubSeq(events[stream[s].run], 1, stream[s].cursor + Len(batch))
    BY <1>1, <2>1, PageContinues DEF InOrder
  <2>3. stream[s].got \o batch \in Seq(EventType)
    BY <1>1, <2>2, ConcatProperties DEF StreamRow
  <2> DEFINE none == batch = <<>>
             row == [step |-> "look", run |-> stream[s].run,
                     cursor |-> stream[s].cursor + Len(batch),
                     got |-> stream[s].got \o batch, empty |-> none]
  <2>4. stream' = [stream EXCEPT ![s] = row]
    BY <1>4, Zenon DEF Poll
  <2>5. none \in BOOLEAN
    OBVIOUS
  <2> HIDE DEF batch, none
  <2>6. /\ row.run = stream[s].run
        /\ row.cursor = stream[s].cursor + Len(batch)
        /\ row.got = stream[s].got \o batch
        /\ row \in StreamRow
    <3>1. stream[s].cursor + Len(batch) \in Nat
      BY <2>2
    <3> QED
      BY <1>1, <2>3, <2>5, <3>1 DEF StreamRow
  <2> HIDE DEF row
  <2>7. stream'[s] = row /\ \A t \in Client \ {s} : stream'[t] = stream[t]
    BY <2>4 DEF Streamed
  <2>8. stream' \in [Client -> StreamRow]
    BY <2>4, <2>6, <2>7 DEF Streamed
  <2>9. ASSUME NEW t \in Client PROVE InOrder(t)'
    BY <1>2, <2>2, <2>6, <2>7 DEF Streamed, InOrder
  <2> QED
    BY <1>2, <2>8, <2>9 DEF Streamed
<1> QED
  BY <1>3, <1>4

LEMMA NextStreamed == Streamed /\ [Next]_vars => Streamed'
<1> SUFFICES ASSUME Streamed, [Next]_vars PROVE Streamed'
  OBVIOUS
<1>1. CASE UNCHANGED <<events, stream>>
  BY <1>1 DEF Streamed, InOrder
<1>2. CASE UNCHANGED vars
  BY <1>1, <1>2 DEF vars, rowVars
<1>3. ASSUME NEW s \in Client, Open(s) \/ Poll(s) \/ Look(s) PROVE Streamed'
  BY <1>3, StreamKeeps
<1>4. ASSUME NEW r \in Run, \/ send_message(r) \/ create_run(r) \/ Check(r) \/ ReadMessages(r)
                            \/ ReadMemory(r) \/ SaveMemory(r) \/ Respond(r) \/ Complete(r)
                            \/ Raise(r) \/ Fail(r) \/ SeeRun(r) \/ request_cancel(r)
                            \/ WriteCancelled(r)
      PROVE Streamed'
  BY <1>1, <1>4 DEF send_message, create_run, Check, ReadMessages, ReadMemory, SaveMemory,
     Respond, Complete, Raise, Fail, SeeRun, request_cancel, WriteCancelled, rowVars
<1>5. ASSUME NEW r \in Run, Begin(r) \/ EmitStep(r) \/ Tell(r) \/ TellCancelled(r)
      PROVE Streamed'
  <2>1. PICK type \in EventType : Emit(r, type)
    BY <1>5 DEF Begin, EmitStep, Tell, TellCancelled, EventType, Outcome
  <2>2. UNCHANGED stream
    BY <1>5 DEF Begin, EmitStep, Tell, TellCancelled
  <2> QED
    BY <2>1, <2>2, EmitKeeps
<1> QED
  BY <1>2, <1>3, <1>4, <1>5 DEF Next

\* A client has received, over all its connections, the beginning of the events
\* of the run: none left out, none twice, none out of order (append_event,
\* list_events, stream_events).
THEOREM EventsArriveInOrder == Spec => []EventsInOrder
<1>1. Streamed => EventsInOrder
  <2> SUFFICES ASSUME Streamed, NEW s \in Client
               PROVE  /\ stream[s].cursor = Len(stream[s].got)
                      /\ IsPrefix(stream[s].got, events[stream[s].run])
    BY DEF EventsInOrder
  <2> DEFINE all == events[stream[s].run]
             got == stream[s].got
             cursor == stream[s].cursor
  <2>1. all \in Seq(EventType) /\ cursor \in 0..Len(all) /\ got = SubSeq(all, 1, cursor)
    BY DEF Streamed, StreamRow, InOrder
  <2>2. got \in Seq(EventType)
    BY DEF Streamed, StreamRow
  <2> HIDE DEF all, got, cursor
  <2>3. \A i \in 1..cursor : all[i] \in EventType
    BY <2>1, ElementOfSeq
  <2>4. Len(got) = cursor
    BY <2>1, <2>3, SubSeqProperties
  <2>5. SubSeq(got, 1, Len(got)) = got
    BY <2>2, SubSeqFull
  <2>6. IsPrefix(got, all)
    BY <2>1, <2>4, <2>5 DEF IsPrefix
  <2> QED
    BY <2>4, <2>6 DEF all, got, cursor
<1> QED
  BY <1>1, InitStreamed, NextStreamed, PTL DEF Spec

-----------------------------------------------------------------------------
(* Windows of the history *)

\* The first n messages, in order.
Upto(n) == [i \in 1..n |-> i]

LEMMA Bounds == Recent \in Nat \ {0} /\ Batch \in Nat \ {0} /\ Room \in Nat \ {0}
BY ConversationsAssumption

LEMMA UptoShape ==
  ASSUME NEW n \in Nat
  PROVE  /\ Upto(n) \in Seq(Nat) /\ Len(Upto(n)) = n /\ DOMAIN Upto(n) = 1..n
         /\ \A i \in 1..n : Upto(n)[i] = i
BY DEF Upto

\* The messages from a to b, as they are cut out of a history.
LEMMA PartShape ==
  ASSUME NEW n \in Nat, NEW a \in 1..(n + 1), NEW b \in (a - 1)..n
  PROVE  /\ SubSeq(Upto(n), a, b) \in Seq(Nat) /\ Len(SubSeq(Upto(n), a, b)) = b - a + 1
         /\ \A i \in 1..(b - a + 1) : SubSeq(Upto(n), a, b)[i] = a + i - 1
         /\ ToSet(SubSeq(Upto(n), a, b)) = a..b
<1> DEFINE part == SubSeq(Upto(n), a, b)
<1>1. \A i \in a..b : Upto(n)[i] = i /\ Upto(n)[i] \in Nat
  BY UptoShape
<1>2. /\ part \in Seq(Nat) /\ Len(part) = IF a <= b THEN b - a + 1 ELSE 0
      /\ \A i \in 1..(b - a + 1) : part[i] = Upto(n)[a + i - 1]
  BY <1>1, SubSeqProperties
<1> HIDE DEF part
<1>3. Len(part) = b - a + 1
  BY <1>2
<1>4. ASSUME NEW i \in 1..(b - a + 1) PROVE part[i] = a + i - 1
  <2>1. a + i - 1 \in a..b
    OBVIOUS
  <2> QED
    BY <1>1, <1>2, <2>1
<1>5. DOMAIN part = 1..(b - a + 1)
  BY <1>2, <1>3, LenProperties
<1>6. \A x \in a..b : x - a + 1 \in DOMAIN part /\ part[x - a + 1] = x
  BY <1>4, <1>5
<1>7. ToSet(part) = a..b
  BY <1>4, <1>5, <1>6 DEF ToSet
<1> QED
  BY <1>2, <1>3, <1>4, <1>7 DEF part

LEMMA UptoSet ==
  ASSUME NEW n \in Nat
  PROVE  ToSet(Upto(n)) = 1..n
BY UptoShape DEF ToSet

\* What is rendered is a beginning of the text, and the rest is cut.
LEMMA RenderedPart ==
  ASSUME NEW s \in Seq(Nat)
  PROVE  /\ Rendered(s) \in Seq(Nat) /\ Len(Rendered(s)) \in 0..Len(s)
         /\ \A i \in 1..Len(Rendered(s)) : Rendered(s)[i] = s[i]
         /\ ToSet(Rendered(s)) \cup Cut(s) = ToSet(s)
         /\ ToSet(Rendered(s)) \cap Cut(s) = {}
<1> DEFINE last == IF Len(s) < Room THEN Len(s) ELSE Room
<1>1. Len(s) \in Nat /\ last \in 0..Len(s)
  BY Bounds, LenProperties
<1>2. Rendered(s) = SubSeq(s, 1, last)
  BY DEF Rendered
<1> HIDE DEF last
<1>3. \A i \in 1..last : s[i] \in Nat
  BY <1>1, ElementOfSeq
<1>4. /\ Rendered(s) \in Seq(Nat) /\ Len(Rendered(s)) = last
      /\ \A i \in 1..last : Rendered(s)[i] = s[i]
  BY <1>1, <1>2, <1>3, SubSeqProperties
<1>5. DOMAIN Rendered(s) = 1..last /\ DOMAIN s = 1..Len(s)
  BY <1>4, LenProperties
<1>6. ToSet(Rendered(s)) \subseteq ToSet(s)
  BY <1>1, <1>4, <1>5 DEF ToSet
<1> QED
  BY <1>1, <1>4, <1>6 DEF Cut

\* The archive after c messages of a history of n: what is between them and the
\* recent messages, in order.
LEMMA ArchiveShape ==
  ASSUME NEW n \in Nat, NEW c \in Nat
  PROVE  LET new == Archived(Upto(n), c)
             m == n - Recent
         IN IF c < m
            THEN /\ m \in Nat /\ new \in Seq(Nat) /\ Len(new) = m - c
                 /\ ToSet(new) = (c + 1)..m
                 /\ \A i \in 1..Len(new) : new[i] = c + i
            ELSE new = <<>>
<1> DEFINE m == n - Recent
           new == Archived(Upto(n), c)
<1>1. Len(Upto(n)) = n /\ Recent \in Nat
  BY UptoShape, Bounds
<1>2. CASE c < m
  <2>1. m \in 1..n /\ c \in 0..m
    BY <1>1, <1>2
  <2>2. Older(Upto(n)) = Upto(m)
    <3> HIDE DEF m
    <3>1. 1 \in 1..(n + 1) /\ m \in (1 - 1)..n /\ m - 1 + 1 = m /\ m \in Nat
      BY <2>1
    <3>2. /\ SubSeq(Upto(n), 1, m) \in Seq(Nat) /\ Len(SubSeq(Upto(n), 1, m)) = m
          /\ \A i \in 1..m : SubSeq(Upto(n), 1, m)[i] = 1 + i - 1
      BY <3>1, PartShape
    <3>3. Upto(m) \in Seq(Nat) /\ Len(Upto(m)) = m /\ \A i \in 1..m : Upto(m)[i] = i
      BY <3>1, UptoShape
    <3>4. \A i \in 1..m : SubSeq(Upto(n), 1, m)[i] = Upto(m)[i]
      BY <3>1, <3>2, <3>3
    <3>5. SubSeq(Upto(n), 1, m) = Upto(m)
      BY <3>2, <3>3, <3>4, SeqEqual
    <3> QED
      BY <1>1, <3>5 DEF Older, m
  <2>3. new = SubSeq(Upto(m), c + 1, m)
    BY <1>1, <1>2, <2>1, <2>2 DEF Archived
  <2> DEFINE a == c + 1
  <2>4. m \in Nat /\ a \in 1..(m + 1) /\ m \in (a - 1)..m /\ m - a + 1 = m - c
    BY <2>1
  <2> HIDE DEF m, new, a
  <2>5. /\ SubSeq(Upto(m), a, m) \in Seq(Nat) /\ Len(SubSeq(Upto(m), a, m)) = m - a + 1
        /\ \A i \in 1..(m - a + 1) : SubSeq(Upto(m), a, m)[i] = a + i - 1
        /\ ToSet(SubSeq(Upto(m), a, m)) = a..m
    BY <2>4, PartShape
  <2>6. new \in Seq(Nat) /\ Len(new) = m - c /\ ToSet(new) = a..m
    BY <2>3, <2>4, <2>5, Zenon DEF a
  <2>7. ASSUME NEW i \in 1..(m - c) PROVE new[i] = c + i
    <3>1. new[i] = a + i - 1
      BY <2>3, <2>4, <2>5, Zenon DEF a
    <3> QED
      BY <3>1 DEF a
  <2> QED
    BY <1>2, <2>4, <2>6, <2>7 DEF m, new, a
<1>3. CASE ~(c < m)
  BY <1>1, <1>3 DEF Archived
<1> QED
  BY <1>2, <1>3

\* The recent messages of a history of n.
LEMMA RecentShape ==
  ASSUME NEW n \in Nat
  PROVE  LET recent == RecentOf(Upto(n))
         IN /\ recent \in Seq(Nat) /\ Len(recent) <= Recent
            /\ \A x \in 1..n : x > n - Recent => x \in ToSet(recent)
<1>1. Len(Upto(n)) = n /\ Recent \in Nat \ {0}
  BY UptoShape, Bounds
<1>2. CASE n <= Recent
  BY <1>1, <1>2, UptoShape, UptoSet DEF RecentOf
<1>3. CASE n > Recent
  <2> DEFINE recent == SubSeq(Upto(n), n - Recent + 1, n)
  <2>1. RecentOf(Upto(n)) = recent
    BY <1>1, <1>3 DEF RecentOf, Latest
  <2>2. /\ recent \in Seq(Nat) /\ Len(recent) = n - (n - Recent + 1) + 1
        /\ ToSet(recent) = (n - Recent + 1)..n
    BY <1>1, <1>3, PartShape
  <2> HIDE DEF recent
  <2> QED
    BY <1>1, <2>1, <2>2
<1> QED
  BY <1>1, <1>2, <1>3

-----------------------------------------------------------------------------
(* Memory and prompts *)

Steps ==
  {"none", "sent", "scheduled", "check", "tell cancelled", "messages", "memory",
   "summarizing", "rendered", "respond", "answered", "tell completed", "failing",
   "tell failed"}

\* A summary has the messages it counts, in order, but for those that were cut.
\* So it is in the row and in the hands of a run that is about to store it.
Exact(m) ==
  /\ ToSet(m.summary) \cup m.cut = 1..m.count
  /\ ToSet(m.summary) \cap m.cut = {}
  /\ \A i, j \in DOMAIN m.summary : i < j => m.summary[i] < m.summary[j]

MemoryRow == {m \in [summary : Seq(Nat), count : Nat, cut : SUBSET Nat] : Exact(m)}

\* A run works on a beginning of the conversation.
TaskRow ==
  [step : Steps, history : {Upto(n) : n \in Nat}, next : MemoryRow,
   shown : SUBSET Nat, cut : SUBSET Nat]

MessageRow == [run : Run, role : {"user", "assistant"}]

\* A run that does something has its message in the conversation.
Begun == \A r \in Run : ~At(r, "none") => messages # <<>>

Remembered ==
  /\ messages \in Seq(MessageRow)
  /\ task \in [Run -> TaskRow]
  /\ Begun
  /\ memory \in MemoryRow

\* A message of the history is in the prompt, or cut from it, or counted by the
\* summary on its way there.
PromptedBy(row) ==
  /\ row.step = "summarizing" =>
       \A x \in 1..Len(row.history) : x <= row.next.count \/ x \in row.shown \cup row.cut
  /\ row.step = "rendered" => 1..Len(row.history) \subseteq row.shown \cup row.cut

Prompted == \A r \in Run : PromptedBy(task[r])

LEMMA NoMemoryRow == NoMemory \in MemoryRow
<1>1. <<>> \in Seq(Nat) /\ Len(<<>>) = 0 /\ DOMAIN <<>> = {} /\ ToSet(<<>>) = {}
  BY EmptySeq DEF ToSet
<1> QED
  BY <1>1 DEF NoMemory, MemoryRow, Exact

LEMMA NoTaskRow == NoTask \in TaskRow
<1>1. <<>> \in Seq(Nat) /\ Len(<<>>) = 0
  BY EmptySeq
<1>2. Upto(0) \in Seq(Nat) /\ Len(Upto(0)) = 0
  BY UptoShape
<1>3. Upto(0) = <<>>
  BY <1>1, <1>2, SeqEqual
<1> QED
  BY <1>3, NoMemoryRow DEF NoTask, TaskRow, Steps

\* What follows the messages a summary counts continues it.
LEMMA SummaryContinues ==
  ASSUME NEW m \in MemoryRow, NEW new \in Seq(Nat), NEW k \in Nat, m.count < k,
         ToSet(new) = (m.count + 1)..k,
         \A i \in 1..Len(new) : new[i] = m.count + i
  PROVE  [summary |-> m.summary \o Rendered(new), count |-> k,
          cut |-> m.cut \cup Cut(new)] \in MemoryRow
<1> DEFINE old == m.summary
           add == Rendered(new)
           all == old \o add
           c == m.count
<1>1. /\ old \in Seq(Nat) /\ c \in Nat /\ m.cut \subseteq Nat
      /\ ToSet(old) \cup m.cut = 1..c /\ ToSet(old) \cap m.cut = {}
      /\ \A i, j \in DOMAIN old : i < j => old[i] < old[j]
  BY DEF MemoryRow, Exact
<1>2. /\ add \in Seq(Nat) /\ Len(add) \in 0..Len(new)
      /\ \A i \in 1..Len(add) : add[i] = new[i]
      /\ ToSet(add) \cup Cut(new) = (c + 1)..k /\ ToSet(add) \cap Cut(new) = {}
  BY RenderedPart
<1>3. Len(new) \in Nat /\ Len(old) \in Nat /\ Len(add) \in Nat
  BY <1>1, <1>2, LenProperties
<1>4. \A i \in 1..Len(add) : add[i] = c + i
  BY <1>2, <1>3
<1> HIDE DEF add, old, c
<1>5. /\ all \in Seq(Nat) /\ Len(all) = Len(old) + Len(add)
      /\ \A i \in 1..(Len(old) + Len(add)) :
           all[i] = IF i <= Len(old) THEN old[i] ELSE add[i - Len(old)]
  BY <1>1, <1>2, ConcatProperties
<1>6. /\ DOMAIN all = 1..(Len(old) + Len(add))
      /\ DOMAIN old = 1..Len(old) /\ DOMAIN add = 1..Len(add)
  BY <1>1, <1>2, <1>5, LenProperties
<1> HIDE DEF all
<1>7. \A i \in 1..Len(old) : all[i] = old[i] /\ old[i] \in 1..c
  <2>1. \A i \in 1..Len(old) : old[i] \in ToSet(old)
    BY <1>6 DEF ToSet
  <2> QED
    BY <1>1, <1>3, <1>5, <2>1
<1>8. ASSUME NEW i \in 1..(Len(old) + Len(add)), ~(i <= Len(old))
      PROVE  all[i] = c + (i - Len(old)) /\ i - Len(old) \in 1..Len(add)
  <2>1. i - Len(old) \in 1..Len(add)
    BY <1>3, <1>8
  <2>2. all[i] = add[i - Len(old)]
    BY <1>5, <1>8
  <2>3. add[i - Len(old)] = c + (i - Len(old))
    BY <1>4, <2>1
  <2> QED
    BY <2>1, <2>2, <2>3
<1>9. ToSet(all) = ToSet(old) \cup ToSet(add)
  <2>1. ASSUME NEW x \in ToSet(all) PROVE x \in ToSet(old) \cup ToSet(add)
    <3>1. PICK i \in 1..(Len(old) + Len(add)) : x = all[i]
      BY <1>6 DEF ToSet
    <3>2. CASE i <= Len(old)
      <4>1. i \in DOMAIN old /\ all[i] = old[i]
        BY <1>3, <1>5, <1>6, <3>2
      <4> QED
        BY <3>1, <4>1 DEF ToSet
    <3>3. CASE ~(i <= Len(old))
      <4>1. i - Len(old) \in DOMAIN add /\ all[i] = add[i - Len(old)]
        BY <1>3, <1>5, <1>6, <3>3
      <4> QED
        BY <3>1, <4>1 DEF ToSet
    <3> QED
      BY <3>2, <3>3
  <2>2. ASSUME NEW x \in ToSet(old) PROVE x \in ToSet(all)
    <3>1. PICK i \in 1..Len(old) : x = old[i]
      BY <1>6, <2>2 DEF ToSet
    <3>2. i \in DOMAIN all /\ all[i] = x
      BY <1>3, <1>6, <1>7, <3>1
    <3> QED
      BY <3>2 DEF ToSet
  <2>3. ASSUME NEW x \in ToSet(add) PROVE x \in ToSet(all)
    <3>1. PICK i \in 1..Len(add) : x = add[i]
      BY <1>6, <2>3 DEF ToSet
    <3>2. /\ i + Len(old) \in DOMAIN all
          /\ ~(i + Len(old) <= Len(old)) /\ (i + Len(old)) - Len(old) = i
      BY <1>3, <1>6
    <3>3. all[i + Len(old)] = x
      BY <1>5, <1>6, <3>1, <3>2
    <3> QED
      BY <3>2, <3>3 DEF ToSet
  <2> QED
    BY <2>1, <2>2, <2>3
<1>10. Cut(new) \subseteq (c + 1)..k /\ ToSet(add) \subseteq (c + 1)..k
  BY <1>2
<1>11. c \in Nat /\ c < k
  BY <1>1 DEF c
<1>12. ToSet(all) \cup (m.cut \cup Cut(new)) = 1..k
  <2>1. ToSet(all) \cup (m.cut \cup Cut(new)) = (1..c) \cup ((c + 1)..k)
    BY <1>1, <1>2, <1>9
  <2> QED
    BY <1>11, <2>1
<1>13. ToSet(all) \cap (m.cut \cup Cut(new)) = {}
  <2>1. ToSet(old) \cap Cut(new) = {} /\ ToSet(add) \cap m.cut = {}
    BY <1>1, <1>10, <1>11
  <2> QED
    BY <1>1, <1>2, <1>9, <2>1
<1>14. ASSUME NEW i \in DOMAIN all, NEW j \in DOMAIN all, i < j PROVE all[i] < all[j]
  <2>1. i \in 1..(Len(old) + Len(add)) /\ j \in 1..(Len(old) + Len(add))
    BY <1>6
  <2>2. CASE j <= Len(old)
    <3>1. i \in DOMAIN old /\ j \in DOMAIN old /\ all[i] = old[i] /\ all[j] = old[j]
      BY <1>3, <1>5, <1>6, <1>14, <2>1, <2>2
    <3> QED
      BY <1>1, <1>14, <3>1
  <2>3. CASE i <= Len(old) /\ ~(j <= Len(old))
    <3>1. all[i] \in 1..c
      BY <1>3, <1>7, <2>1, <2>3
    <3>2. all[j] = c + (j - Len(old)) /\ j - Len(old) \in 1..Len(add)
      BY <1>8, <2>1, <2>3
    <3> QED
      BY <1>3, <1>11, <3>1, <3>2
  <2>4. CASE ~(i <= Len(old)) /\ ~(j <= Len(old))
    <3>1. all[i] = c + (i - Len(old)) /\ all[j] = c + (j - Len(old))
      BY <1>8, <2>1, <2>4
    <3> QED
      BY <1>3, <1>11, <1>14, <2>1, <3>1
  <2> QED
    BY <1>3, <1>14, <2>1, <2>2, <2>3, <2>4
<1> DEFINE row == [summary |-> all, count |-> k, cut |-> m.cut \cup Cut(new)]
<1>15. m.cut \cup Cut(new) \subseteq Nat
  BY <1>1, <1>10, <1>11
<1>16. row \in [summary : Seq(Nat), count : Nat, cut : SUBSET Nat]
  BY <1>5, <1>15
<1>17. Exact(row)
  BY <1>12, <1>13, <1>14 DEF Exact
<1> QED
  BY <1>16, <1>17 DEF MemoryRow, all, old, add

LEMMA InitRemembered == Init => Remembered /\ Prompted
<1> SUFFICES ASSUME Init PROVE Remembered /\ Prompted
  OBVIOUS
<1>1. \A r \in Run : task[r].step = "none"
  BY DEF Init, NoTask
<1>2. task \in [Run -> TaskRow]
  BY NoTaskRow DEF Init
<1>3. messages \in Seq(MessageRow)
  BY EmptySeq DEF Init
<1>4. memory \in MemoryRow
  BY NoMemoryRow DEF Init
<1> QED
  BY <1>1, <1>2, <1>3, <1>4 DEF Remembered, Begun, At, Prompted, PromptedBy

\* A step of one run, which keeps what the rows have to satisfy.
LEMMA RowKeeps ==
  ASSUME Remembered, NEW r \in Run, NEW row \in TaskRow,
         task' = [task EXCEPT ![r] = row], memory' \in MemoryRow,
         messages' \in Seq(MessageRow), messages' # <<>>
  PROVE  Remembered' /\ (Prompted /\ PromptedBy(row) => Prompted')
<1>1. task'[r] = row /\ \A q \in Run \ {r} : task'[q] = task[q]
  BY DEF Remembered
<1>2. task' \in [Run -> TaskRow]
  BY DEF Remembered
<1>3. Prompted /\ PromptedBy(row) => \A q \in Run : PromptedBy(task'[q])
  BY <1>1 DEF Prompted
<1> QED
  BY <1>2, <1>3 DEF Remembered, Begun, Prompted, PromptedBy

\* A step that shows nothing and stores nothing.
LEMMA MoveKeeps ==
  ASSUME Remembered, NEW r \in Run, NEW row \in TaskRow,
         row.step \notin {"summarizing", "rendered"},
         task' = [task EXCEPT ![r] = row], UNCHANGED memory,
         messages' \in Seq(MessageRow), messages' # <<>>
  PROVE  Remembered' /\ (Prompted => Prompted')
<1>1. PromptedBy(row)
  BY DEF PromptedBy
<1>2. memory' \in MemoryRow
  BY DEF Remembered
<1> QED
  BY <1>1, <1>2, RowKeeps

\* The next await of a run.
LEMMA GotoKeeps ==
  ASSUME Remembered, NEW r \in Run, NEW step \in Steps \ {"summarizing", "rendered"},
         Goto(r, step), UNCHANGED memory,
         messages' \in Seq(MessageRow), messages' # <<>>
  PROVE  Remembered' /\ (Prompted => Prompted')
<1> DEFINE row == [task[r] EXCEPT !.step = step]
<1>1. task[r] \in TaskRow
  BY DEF Remembered
<1>2. row \in TaskRow /\ row.step = step
  BY <1>1 DEF TaskRow
<1>3. task' = [task EXCEPT ![r] = row]
  BY DEF Goto
<1> HIDE DEF row
<1> QED
  BY <1>2, <1>3, MoveKeeps

\* list_messages gives the run a beginning of the conversation.
LEMMA ReadMessagesKeeps ==
  ASSUME Remembered, NEW r \in Run, ReadMessages(r)
  PROVE  Remembered' /\ (Prompted => Prompted')
<1>1. messages \in Seq(MessageRow) /\ messages # <<>> /\ task[r] \in TaskRow
  BY DEF ReadMessages, Remembered, Begun, At
<1>2. Len(messages) \in Nat \ {0}
  BY <1>1, EmptySeq
<1>3. PICK n \in Nat : History = Upto(n)
  <2>1. History = Upto(IF messages[Len(messages)].role = "user" THEN Len(messages) - 1
                       ELSE Len(messages))
    BY DEF History, Upto
  <2>2. Len(messages) - 1 \in Nat /\ Len(messages) \in Nat
    BY <1>2
  <2> QED
    BY <2>1, <2>2
<1> DEFINE row == [task[r] EXCEPT !.history = History, !.step = "memory"]
<1>4. row \in TaskRow /\ row.step = "memory"
  BY <1>1, <1>3 DEF TaskRow, Steps
<1>5. task' = [task EXCEPT ![r] = row]
  BY <1>1 DEF ReadMessages, Remembered
<1> HIDE DEF row
<1>6. UNCHANGED <<memory, messages>>
  BY DEF ReadMessages, rowVars
<1> QED
  BY <1>1, <1>4, <1>5, <1>6, MoveKeeps

\* get_memory and the prompt: a new summary continues the stored one, and the
\* history is divided among the summary, what was archived since, and what is
\* recent.
LEMMA ReadMemoryKeeps ==
  ASSUME Remembered, NEW r \in Run, ReadMemory(r)
  PROVE  Remembered' /\ (Prompted => Prompted')
<1> DEFINE history == task[r].history
           recent == RecentOf(history)
           new == Archived(history, memory.count)
           shown == ToSet(Rendered(recent))
           cut == Cut(recent)
           next == [summary |-> SummaryPrompt(memory.summary, new),
                    count |-> CountOf(history), cut |-> memory.cut \cup Cut(new)]
           asked == [task[r] EXCEPT !.step = "summarizing", !.next = next,
                       !.shown = shown, !.cut = cut]
           read == [task[r] EXCEPT !.step = "rendered",
                      !.shown = shown \cup ToSet(Rendered(new)) \cup ToSet(memory.summary),
                      !.cut = cut \cup Cut(new) \cup memory.cut]
<1>1. task[r] \in TaskRow /\ messages \in Seq(MessageRow) /\ messages # <<>>
  BY DEF ReadMemory, Remembered, Begun, At
<1>2. PICK n \in Nat : history = Upto(n)
  BY <1>1 DEF TaskRow
<1>3. /\ memory \in MemoryRow /\ memory.count \in Nat /\ memory.cut \subseteq Nat
      /\ ToSet(memory.summary) \cup memory.cut = 1..memory.count
  BY DEF Remembered, MemoryRow, Exact
<1>4. UNCHANGED <<memory, messages>> /\ memory' \in MemoryRow
  BY <1>3 DEF ReadMemory, rowVars
<1>5. task' = [task EXCEPT ![r] = IF Len(new) >= Batch THEN asked ELSE read]
  BY DEF ReadMemory
<1>6. Len(history) = n /\ Recent \in Nat \ {0} /\ Batch \in Nat \ {0}
  BY <1>2, UptoShape, Bounds
<1>7. IF memory.count < n - Recent
      THEN /\ n - Recent \in Nat /\ new \in Seq(Nat) /\ Len(new) = n - Recent - memory.count
           /\ ToSet(new) = (memory.count + 1)..(n - Recent)
           /\ \A i \in 1..Len(new) : new[i] = memory.count + i
      ELSE new = <<>>
  BY <1>2, <1>3, ArchiveShape
<1>8. new \in Seq(Nat) /\ Len(<<>>) = 0
  BY <1>7, EmptySeq
<1>9. /\ recent \in Seq(Nat)
      /\ \A x \in 1..n : x > n - Recent => x \in ToSet(recent)
  BY <1>2, RecentShape
<1> HIDE DEF history, recent, new
<1>10. shown \cup cut = ToSet(recent) /\ ToSet(recent) \subseteq Nat
  BY <1>9, RenderedPart DEF ToSet
<1>11. ToSet(Rendered(new)) \cup Cut(new) = ToSet(new) /\ ToSet(new) \subseteq Nat
  <2>1. new \in Seq(Nat)
    BY <1>8
  <2>2. ToSet(new) \subseteq Nat
    BY <2>1, LenProperties, ElementOfSeq DEF ToSet
  <2> QED
    BY <2>1, <2>2, RenderedPart
<1> HIDE DEF shown, cut
<1>12. CASE Len(new) >= Batch
  <2>1. memory.count < n - Recent
    BY <1>6, <1>7, <1>8, <1>12
  <2>2. next = [summary |-> memory.summary \o Rendered(new), count |-> n - Recent,
                cut |-> memory.cut \cup Cut(new)]
    BY <1>6 DEF SummaryPrompt, CountOf
  <2> HIDE DEF next
  <2>3. next \in MemoryRow /\ next.count = n - Recent
    BY <1>3, <1>7, <1>8, <2>1, <2>2, SummaryContinues
  <2>4. /\ asked \in TaskRow /\ asked.step = "summarizing" /\ asked.history = history
        /\ asked.next = next /\ asked.shown = shown /\ asked.cut = cut
    BY <1>1, <1>10, <2>3 DEF TaskRow, Steps, history
  <2> HIDE DEF asked
  <2>5. PromptedBy(asked)
    <3>1. ASSUME NEW x \in 1..n PROVE x <= n - Recent \/ x \in shown \cup cut
      BY <1>6, <1>9, <1>10
    <3> QED
      BY <1>6, <2>3, <2>4, <3>1 DEF PromptedBy
  <2>6. task' = [task EXCEPT ![r] = asked]
    BY <1>5, <1>12
  <2> QED
    BY <1>1, <1>4, <2>4, <2>5, <2>6, RowKeeps
<1>13. CASE ~(Len(new) >= Batch)
  <2> DEFINE all == shown \cup ToSet(Rendered(new)) \cup ToSet(memory.summary)
             lost == cut \cup Cut(new) \cup memory.cut
  <2>1. all \cup lost = ToSet(recent) \cup ToSet(new) \cup (1..memory.count)
    BY <1>3, <1>10, <1>11
  <2>2. all \subseteq Nat /\ lost \subseteq Nat
    BY <1>3, <1>10, <1>11, <2>1
  <2>3. 1..n \subseteq all \cup lost
    <3>1. ASSUME NEW x \in 1..n, x \notin ToSet(recent)
          PROVE  x \in ToSet(new) \cup (1..memory.count)
      BY <1>3, <1>6, <1>7, <1>9, <3>1
    <3> QED
      BY <2>1, <3>1
  <2>4. read = [task[r] EXCEPT !.step = "rendered", !.shown = all, !.cut = lost]
    OBVIOUS
  <2> HIDE DEF all, lost, read
  <2>5. /\ read \in TaskRow /\ read.step = "rendered" /\ read.history = history
        /\ read.shown = all /\ read.cut = lost
    BY <1>1, <2>2, <2>4 DEF TaskRow, Steps, history
  <2>6. PromptedBy(read)
    BY <1>6, <2>3, <2>5 DEF PromptedBy
  <2>7. task' = [task EXCEPT ![r] = read]
    BY <1>5, <1>13
  <2> QED
    BY <1>1, <1>4, <2>5, <2>6, <2>7, RowKeeps
<1> QED
  BY <1>12, <1>13

\* save_memory: the summary that replaces the stored one has what it counts.
LEMMA SaveMemoryKeeps ==
  ASSUME Remembered, NEW r \in Run, SaveMemory(r)
  PROVE  Remembered' /\ (Prompted => Prompted')
<1> DEFINE next == task[r].next
           all == task[r].shown \cup ToSet(next.summary)
           lost == task[r].cut \cup next.cut
           row == [task[r] EXCEPT !.step = "rendered", !.shown = all, !.cut = lost]
<1>1. /\ task[r] \in TaskRow /\ task[r].step = "summarizing"
      /\ messages \in Seq(MessageRow) /\ messages # <<>>
  BY DEF SaveMemory, Remembered, Begun, At
<1>2. /\ next \in MemoryRow /\ next.count \in Nat
      /\ ToSet(next.summary) \cup next.cut = 1..next.count
  BY <1>1 DEF TaskRow, MemoryRow, Exact
<1>3. memory' = next /\ messages' = messages
  BY DEF SaveMemory
<1>4. task' = [task EXCEPT ![r] = row]
  BY <1>1 DEF SaveMemory, Remembered
<1>5. all \subseteq Nat /\ lost \subseteq Nat
  <2>1. 1..next.count \subseteq Nat
    BY <1>2
  <2> QED
    BY <1>1, <1>2, <2>1 DEF TaskRow
<1>6. Prompted => 1..Len(task[r].history) \subseteq all \cup lost
  <2> SUFFICES ASSUME Prompted, NEW x \in 1..Len(task[r].history) PROVE x \in all \cup lost
    OBVIOUS
  <2>1. x <= next.count \/ x \in task[r].shown \cup task[r].cut
    BY <1>1 DEF Prompted, PromptedBy
  <2>2. x <= next.count => x \in 1..next.count
    <3>1. Len(task[r].history) \in Nat
      BY <1>1, UptoShape DEF TaskRow
    <3> QED
      BY <1>2, <3>1
  <2> QED
    BY <1>2, <2>1, <2>2
<1> HIDE DEF all, lost
<1>7. /\ row \in TaskRow /\ row.step = "rendered" /\ row.history = task[r].history
      /\ row.shown = all /\ row.cut = lost
  BY <1>1, <1>5 DEF TaskRow, Steps
<1> HIDE DEF row, next
<1>8. Prompted => PromptedBy(row)
  BY <1>6, <1>7 DEF PromptedBy
<1> QED
  BY <1>1, <1>2, <1>3, <1>4, <1>7, <1>8, RowKeeps

LEMMA NextRemembered ==
  ASSUME Remembered, [Next]_vars
  PROVE  Remembered' /\ (Prompted => Prompted')
<1>1. CASE UNCHANGED <<messages, memory, task>>
  BY <1>1 DEF Remembered, Begun, At, Prompted, PromptedBy
<1>2. CASE UNCHANGED vars
  BY <1>1, <1>2 DEF vars, rowVars
<1>3. ASSUME NEW s \in Client, Open(s) \/ Poll(s) \/ Look(s)
      PROVE  UNCHANGED <<messages, memory, task>>
  BY <1>3 DEF Open, Poll, Look, rowVars
<1>4. ASSUME NEW r \in Run,
             SeeRun(r) \/ request_cancel(r) \/ WriteCancelled(r) \/ TellCancelled(r)
      PROVE  UNCHANGED <<messages, memory, task>>
  BY <1>4 DEF SeeRun, request_cancel, WriteCancelled, TellCancelled, rowVars
<1>5. ASSUME NEW r \in Run, NEW role \in {"user", "assistant"}, AddMessage(r, role)
      PROVE  messages' \in Seq(MessageRow) /\ messages' # <<>>
  <2>1. [run |-> r, role |-> role] \in MessageRow
    BY DEF MessageRow
  <2> QED
    BY <1>5, <2>1, AppendProperties DEF AddMessage, Remembered
<1>6. ASSUME NEW r \in Run, send_message(r) \/ Respond(r)
      PROVE  Remembered' /\ (Prompted => Prompted')
  <2>1. messages' \in Seq(MessageRow) /\ messages' # <<>>
    BY <1>5, <1>6 DEF send_message, Respond
  <2>2. PICK step \in {"sent", "answered"} : Goto(r, step)
    BY <1>6 DEF send_message, Respond
  <2>3. UNCHANGED memory /\ step \in Steps \ {"summarizing", "rendered"}
    BY <1>6 DEF send_message, Respond, Steps
  <2> QED
    BY <2>1, <2>2, <2>3, GotoKeeps
<1>7. ASSUME NEW r \in Run, ~At(r, "none"), UNCHANGED messages
      PROVE  messages' \in Seq(MessageRow) /\ messages' # <<>>
  BY <1>7 DEF Remembered, Begun
<1>8. ASSUME NEW r \in Run,
             create_run(r) \/ Begin(r) \/ Check(r) \/ EmitStep(r) \/ Complete(r) \/ Fail(r)
      PROVE  Remembered' /\ (Prompted => Prompted')
  <2>1. UNCHANGED <<memory, messages>> /\ ~At(r, "none")
    BY <1>8 DEF create_run, Begin, Check, EmitStep, Complete, Fail, At
  <2>2. PICK step \in {"scheduled", "check", "tell cancelled", "messages", "respond",
                       "tell completed", "tell failed"} : Goto(r, step)
    BY <1>8 DEF create_run, Begin, Check, EmitStep, Complete, Fail
  <2>3. step \in Steps \ {"summarizing", "rendered"}
    BY DEF Steps
  <2> QED
    BY <1>7, <2>1, <2>2, <2>3, GotoKeeps
<1>9. ASSUME NEW r \in Run, Raise(r) \/ Tell(r)
      PROVE  Remembered' /\ (Prompted => Prompted')
  <2>1. UNCHANGED <<memory, messages>> /\ ~At(r, "none") /\ task[r] \in TaskRow
    BY <1>9 DEF Raise, Tell, At, rowVars, Remembered
  <2>2. CASE task' = [task EXCEPT ![r] = NoTask]
    BY <1>7, <2>1, <2>2, NoTaskRow, MoveKeeps DEF NoTask
  <2>3. CASE task' = [task EXCEPT ![r].step = "failing"]
    BY <1>7, <2>1, <2>3, GotoKeeps DEF Goto, Steps
  <2> QED
    BY <1>9, <2>2, <2>3 DEF Raise, Tell
<1> QED
  BY <1>1, <1>2, <1>3, <1>4, <1>6, <1>8, <1>9, ReadMessagesKeeps, ReadMemoryKeeps,
     SaveMemoryKeeps DEF Next

\* The stored summary is made from the first summarized_message_count messages,
\* each once and in order but for those a prompt had no room for, whatever runs
\* overlap (_memory_node, save_memory).
THEOREM NothingSummarizedTwice == Spec => []SummaryIsExact
<1>1. Remembered => SummaryIsExact
  BY DEF Remembered, MemoryRow, Exact, SummaryIsExact
<1>2. Remembered /\ [Next]_vars => Remembered'
  BY NextRemembered
<1> QED
  BY <1>1, <1>2, InitRemembered, PTL DEF Spec

\* Every run is shown all of the history it has read but for what its prompts
\* had no room for, whatever runs overlap (_memory_node, _render_memory).
THEOREM NothingLeftOut == Spec => []ContextIsWhole
<1>1. Remembered /\ Prompted => ContextIsWhole
  <2> SUFFICES ASSUME Remembered, Prompted, NEW r \in Run, At(r, "rendered")
               PROVE  ToSet(task[r].history) \subseteq task[r].shown \cup task[r].cut
    BY DEF ContextIsWhole
  <2>1. task[r] \in TaskRow /\ 1..Len(task[r].history) \subseteq task[r].shown \cup task[r].cut
    BY DEF Remembered, Prompted, PromptedBy, At
  <2>2. PICK n \in Nat : task[r].history = Upto(n)
    BY <2>1 DEF TaskRow
  <2> QED
    BY <2>1, <2>2, UptoShape, UptoSet
<1>2. Remembered /\ Prompted /\ [Next]_vars => Remembered' /\ Prompted'
  BY NextRemembered
<1> QED
  BY <1>1, <1>2, InitRemembered, PTL DEF Spec

=============================================================================
