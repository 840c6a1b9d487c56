---------------------------- MODULE Conversations ----------------------------
(***************************************************************************)
(* One conversation and what its runs leave behind: the messages, the      *)
(* rolling summary that the memory node of each run reads and extends      *)
(* (agents/application/orchestrator.py _memory_node), the events of each   *)
(* run in the order of append_event, and the clients that stream them      *)
(* (routes.py stream_events).                                              *)
(*                                                                         *)
(* AgentRuns has the rest of a run: here its other nodes are one step, and *)
(* a run may fail at any.  A message is its position in the conversation;  *)
(* the summary is the sequence of messages that the prompts it was made    *)
(* from have shown to the model.  All messages of an instance are equally  *)
(* long: Room of them fit into one section of a prompt, and what does not  *)
(* fit is kept on record as cut, which the code does not do: it tells what *)
(* a prompt lost to its limit from what it would lose to a mistake.        *)
(*                                                                         *)
(* X_Y is X with one plausible bug; no specification uses it.              *)
(***************************************************************************)
EXTENDS Naturals, Sequences, SequencesExt

CONSTANTS
  Run,       \* runs of the conversation, one per user message
  Client,    \* browsers that stream events
  Recent,    \* _RECENT_MESSAGE_COUNT
  Batch,     \* _SUMMARY_BATCH_SIZE
  Room,      \* messages in the 6000 characters of _render_messages
  Page       \* events in one answer of list_events

ASSUME ConversationsAssumption == {Recent, Batch, Room, Page} \subseteq Nat \ {0}

VARIABLES
  messages,   \* chat_messages: the run each belongs to and its role
  memory,     \* conversation_memory: the summary, summarized_message_count, and
              \* the messages cut from the prompts the summary was made from
  status,     \* agent_runs.status
  cancel,     \* agent_runs.cancel_requested
  events,     \* agent_run_events, by their sequence
  task,       \* the task of each run
  withdrawal, \* the cancel request of each run
  stream      \* the event streams

rowVars == <<messages, memory, status, cancel, events>>
vars == <<rowVars, task, withdrawal, stream>>

Terminal == {"completed", "failed", "cancelled"}
Outcome == {"run.completed", "run.failed", "run.cancelled"}

NoMemory == [summary |-> <<>>, count |-> 0, cut |-> {}]
NoTask == [step |-> "none", history |-> <<>>, next |-> NoMemory, shown |-> {}, cut |-> {}]

Init ==
  /\ messages = <<>>
  /\ memory = NoMemory
  /\ status = [r \in Run |-> "unsent"]
  /\ cancel = [r \in Run |-> FALSE]
  /\ events = [r \in Run |-> <<>>]
  /\ task = [r \in Run |-> NoTask]
  /\ withdrawal = [r \in Run |-> "none"]
  /\ stream \in [Client -> {[step |-> "closed", run |-> r, cursor |-> 0, got |-> <<>>, empty |-> FALSE] : r \in Run}]

-----------------------------------------------------------------------------
(* Transactions.                                                           *)

At(r, step) == task[r].step = step
Goto(r, step) == task' = [task EXCEPT ![r].step = step]

\* add_message.
AddMessage(r, role) == messages' = Append(messages, [run |-> r, role |-> role])

\* update_run.
SetStatus(r, s) == status' = [status EXCEPT ![r] = s]

\* append_event: the row of the run is locked, the next sequence is taken.
Emit(r, type) == events' = [events EXCEPT ![r] = Append(@, type)]

-----------------------------------------------------------------------------
(* A user turn, and the run it starts.                                     *)

\* send_message: the message first, the run in a transaction of its own.
send_message(r) ==
  /\ At(r, "none") /\ status[r] = "unsent"
  /\ AddMessage(r, "user")
  /\ Goto(r, "sent")
  /\ UNCHANGED <<memory, status, cancel, events, withdrawal, stream>>

create_run(r) ==
  /\ At(r, "sent")
  /\ SetStatus(r, "queued")
  /\ Goto(r, "scheduled")
  /\ UNCHANGED <<messages, memory, cancel, events, withdrawal, stream>>

\* start: RUNNING and run.started.
Begin(r) ==
  /\ At(r, "scheduled")
  /\ SetStatus(r, "running")
  /\ Emit(r, "run.started")
  /\ Goto(r, "check")
  /\ UNCHANGED <<messages, memory, cancel, withdrawal, stream>>

\* _memory_node: RUNNING, and a look for a cancellation.
Check(r) ==
  /\ At(r, "check")
  /\ SetStatus(r, IF cancel[r] THEN "cancelled" ELSE "running")
  /\ Goto(r, IF cancel[r] THEN "tell cancelled" ELSE "messages")
  /\ UNCHANGED <<messages, memory, cancel, events, withdrawal, stream>>

\* list_messages: all but a user message at the end are history.
History ==
  LET n == Len(messages)
  IN [i \in 1..(IF messages[n].role = "user" THEN n - 1 ELSE n) |-> i]

ReadMessages(r) ==
  /\ At(r, "messages")
  /\ task' = [task EXCEPT ![r].history = History, ![r].step = "memory"]
  /\ UNCHANGED <<rowVars, withdrawal, stream>>

\* The slices of the history: the last Recent messages, and those before.
Older(history) == SubSeq(history, 1, Len(history) - Recent)
Latest(history) == SubSeq(history, Len(history) - Recent + 1, Len(history))

RecentOf(history) == IF Len(history) <= Recent THEN history ELSE Latest(history)
Archived(history, count) ==
  IF Len(history) <= Recent \/ count >= Len(history) - Recent THEN <<>>
  ELSE SubSeq(Older(history), count + 1, Len(history) - Recent)

\* _render_messages: the text is cut at its end.
Rendered(history) == SubSeq(history, 1, IF Len(history) < Room THEN Len(history) ELSE Room)
Cut(history) == ToSet(history) \ ToSet(Rendered(history))

\* The recent messages are counted as summarized.
CountOf_WithRecent(history) == Len(history)
\* The count that is stored with a summary of all that is older.
CountOf(history) == Len(history) - Recent

\* The last summary is left out of the prompt.
SummaryPrompt_NewOnly(summary, new) == Rendered(new)
\* The next summary is made from the last one and from what is archived since.
SummaryPrompt(summary, new) == summary \o Rendered(new)

\* get_memory, a query later: with a batch of messages newly archived, the
\* model is asked for a new summary; otherwise they are shown as they are.
ReadMemory(r) ==
  /\ At(r, "memory")
  /\ LET history == task[r].history
         recent == RecentOf(history)
         new == Archived(history, memory.count)
     IN task' = [task EXCEPT ![r] =
          IF Len(new) >= Batch
          THEN [@ EXCEPT !.step = "summarizing",
                         !.next = [summary |-> SummaryPrompt(memory.summary, new),
                                   count |-> CountOf(history), cut |-> memory.cut \cup Cut(new)],
                         !.shown = ToSet(Rendered(recent)), !.cut = Cut(recent)]
          ELSE [@ EXCEPT !.step = "rendered",
                         !.shown = ToSet(Rendered(recent)) \cup ToSet(Rendered(new))
                                     \cup ToSet(memory.summary),
                         !.cut = Cut(recent) \cup Cut(new) \cup memory.cut]]
  /\ UNCHANGED <<rowVars, withdrawal, stream>>

\* save_memory: whatever is there is replaced.
SaveMemory(r) ==
  /\ At(r, "summarizing")
  /\ memory' = task[r].next
  /\ task' = [task EXCEPT ![r].step = "rendered",
                          ![r].shown = @ \cup ToSet(task[r].next.summary),
                          ![r].cut = @ \cup task[r].next.cut]
  /\ UNCHANGED <<messages, status, cancel, events, withdrawal, stream>>

EmitStep(r) ==
  /\ At(r, "rendered")
  /\ Emit(r, "run.step")
  /\ Goto(r, "respond")
  /\ UNCHANGED <<messages, memory, status, cancel, withdrawal, stream>>

\* _respond_node: the answer, COMPLETED, run.completed.
Respond(r) ==
  /\ At(r, "respond")
  /\ AddMessage(r, "assistant")
  /\ Goto(r, "answered")
  /\ UNCHANGED <<memory, status, cancel, events, withdrawal, stream>>

Complete(r) ==
  /\ At(r, "answered")
  /\ SetStatus(r, "completed")
  /\ Goto(r, "tell completed")
  /\ UNCHANGED <<messages, memory, cancel, events, withdrawal, stream>>

\* An exception anywhere in the graph, or its timeout: _fail looks at the run
\* and leaves it as it is when it is CANCELLED ...
Raise(r) ==
  /\ \E step \in {"messages", "memory", "summarizing", "rendered", "respond", "answered"} :
       At(r, step)
  /\ task' = [task EXCEPT ![r] = IF status[r] = "cancelled" THEN NoTask
                                 ELSE [@ EXCEPT !.step = "failing"]]
  /\ UNCHANGED <<rowVars, withdrawal, stream>>

\* ... and otherwise writes FAILED, whatever it has become meanwhile.
Fail(r) ==
  /\ At(r, "failing")
  /\ SetStatus(r, "failed")
  /\ Goto(r, "tell failed")
  /\ UNCHANGED <<messages, memory, cancel, events, withdrawal, stream>>

\* The event of the outcome follows its status.
Tell(r) ==
  /\ \/ At(r, "tell completed") /\ Emit(r, "run.completed")
     \/ At(r, "tell failed") /\ Emit(r, "run.failed")
     \/ At(r, "tell cancelled") /\ Emit(r, "run.cancelled")
  /\ task' = [task EXCEPT ![r] = NoTask]
  /\ UNCHANGED <<messages, memory, status, cancel, withdrawal, stream>>

-----------------------------------------------------------------------------
(* cancel: a look at the run, the flag, and for a queued run the outcome.  *)

SeeRun(r) ==
  /\ withdrawal[r] = "none"
  /\ status[r] # "unsent"
  /\ withdrawal' = [withdrawal EXCEPT ![r] = IF status[r] = "queued" THEN "queued" ELSE "other"]
  /\ UNCHANGED <<rowVars, task, stream>>

request_cancel(r) ==
  /\ withdrawal[r] \in {"queued", "other"}
  /\ cancel' = [cancel EXCEPT ![r] = TRUE]
  /\ withdrawal' = [withdrawal EXCEPT ![r] = IF @ = "queued" THEN "write" ELSE "done"]
  /\ UNCHANGED <<messages, memory, status, events, task, stream>>

WriteCancelled(r) ==
  /\ withdrawal[r] = "write"
  /\ SetStatus(r, "cancelled")
  /\ withdrawal' = [withdrawal EXCEPT ![r] = "tell"]
  /\ UNCHANGED <<messages, memory, cancel, events, task, stream>>

TellCancelled(r) ==
  /\ withdrawal[r] = "tell"
  /\ Emit(r, "run.cancelled")
  /\ withdrawal' = [withdrawal EXCEPT ![r] = "done"]
  /\ UNCHANGED <<messages, memory, status, cancel, task, stream>>

-----------------------------------------------------------------------------
(* stream_events.                                                          *)

\* A new stream, or the next one of a client that goes on after its cursor.
Open(s) ==
  /\ stream[s].step = "closed"
  /\ status[stream[s].run] # "unsent"
  /\ stream' = [stream EXCEPT ![s].step = "poll"]
  /\ UNCHANGED <<rowVars, task, withdrawal>>

\* The last events of the run instead of the next ones.
PageAfter_Newest(all, cursor) ==
  SubSeq(all, IF Len(all) - Page > cursor THEN Len(all) - Page + 1 ELSE cursor + 1, Len(all))
\* list_events: the page after the cursor, in order.
PageAfter(all, cursor) ==
  SubSeq(all, cursor + 1, IF cursor + Page < Len(all) THEN cursor + Page ELSE Len(all))

Poll(s) ==
  /\ stream[s].step = "poll"
  /\ LET batch == PageAfter(events[stream[s].run], stream[s].cursor)
     IN stream' = [stream EXCEPT ![s] =
          [step |-> "look", run |-> @.run, cursor |-> @.cursor + Len(batch),
           got |-> @.got \o batch, empty |-> (batch = <<>>)]]
  /\ UNCHANGED <<rowVars, task, withdrawal>>

\* get_run, a query later: an empty batch and a terminal status end the
\* stream, a client that is gone closes it, otherwise it polls again.
Look(s) ==
  /\ stream[s].step = "look"
  /\ \E next \in IF status[stream[s].run] \in Terminal /\ stream[s].empty THEN {"ended"}
                 ELSE {"poll", "closed"} :
       stream' = [stream EXCEPT ![s].step = next]
  /\ UNCHANGED <<rowVars, task, withdrawal>>

Next ==
  \/ \E r \in Run :
       \/ send_message(r)
       \/ create_run(r)
       \/ Begin(r)
       \/ Check(r)
       \/ ReadMessages(r)
       \/ ReadMemory(r)
       \/ SaveMemory(r)
       \/ EmitStep(r)
       \/ Respond(r)
       \/ Complete(r)
       \/ Raise(r)
       \/ Fail(r)
       \/ Tell(r)
       \/ SeeRun(r)
       \/ request_cancel(r)
       \/ WriteCancelled(r)
       \/ TellCancelled(r)
  \/ \E s \in Client : Open(s) \/ Poll(s) \/ Look(s)

Spec == Init /\ [][Next]_vars

-----------------------------------------------------------------------------
(* Properties.                                                             *)

\* Whatever runs of the conversation summarize at the same time, and in
\* whatever order they store it, the stored summary has been made from the
\* first summarized_message_count messages, in order and each of them once,
\* but for those that the limit of a prompt cut (_memory_node, save_memory).
SummaryIsExact ==
  /\ ToSet(memory.summary) \cup memory.cut = 1..memory.count
  /\ ToSet(memory.summary) \cap memory.cut = {}
  /\ \A i, j \in DOMAIN memory.summary : i < j => memory.summary[i] < memory.summary[j]

\* The model that answers a run is shown every message of the history the run
\* has read, in the summary, as archived since or as recent, but for those
\* that the limit of a section cut: overlapping runs lose no other
\* (_memory_node, _render_memory).
ContextIsWhole ==
  \A r \in Run : At(r, "rendered") => ToSet(task[r].history) \subseteq task[r].shown \cup task[r].cut

\* What backend/tests/unit/agents/test_conversation_memory.py:16 promises: "The
\* current prompt context has a bounded recent window and no data loss."  The
\* limit of _render_messages breaks it (README.md, section 6).
NoDataLoss ==
  \A r \in Run : At(r, "rendered") => ToSet(task[r].history) \subseteq task[r].shown

\* What a client has received, over all its connections, is the beginning of
\* the events of the run: none left out, none twice, none out of order.
EventsInOrder ==
  \A s \in Client :
    /\ stream[s].cursor = Len(stream[s].got)
    /\ IsPrefix(stream[s].got, events[stream[s].run])

=============================================================================
