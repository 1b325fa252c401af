------------------------------ MODULE AgentCall ------------------------------
(***************************************************************************)
(* What the agent adapters have in common: the lazily started run of one   *)
(* agent, its event queue and the bus behind it (run-helpers.ts), its      *)
(* TurnAccumulator, and the calls of the run's owner.                      *)
(*                                                                         *)
(* The adapters' own control is pc; their events are kept as a summary.    *)
(***************************************************************************)
EXTENDS Integers, Sequences, SequencesExt

CONSTANTS
  Kinds,      \* the adapters
  MaxCalls    \* bound: tool calls the accumulator counts at a time

ASSUME AgentAssumption ==
  MaxCalls \in Nat

VARIABLES
  kind,
  pc,
  aborted,   \* the composite signal
  closed,    \* the event queue
  consumer,  \* of the events: "none", "iterating" or "left"
  emitted,   \* summary of the events that were pushed while it was open
  turn,      \* the TurnAccumulator
  finish,    \* the finish reason the adapter has been told of so far
  result     \* run.result: "none", "pending", "rejected" or the reason

callVars == <<kind, pc, aborted, closed, consumer, emitted, turn, finish, result>>

None == -1
Finish == {"unknown", "stop", "aborted", "error"}

-----------------------------------------------------------------------------
(* Events.                                                                 *)

Event(type) == [type |-> type]
AgentStart == Event("agent_start")
Content == Event("text")
Native == Event("native")
ToolCall == Event("tool_call")
ErrorEvent == Event("error")
TurnEnd(count) == [type |-> "turn_end", toolCallCount |-> count]
AgentEnd(r) == [type |-> "agent_end", reason |-> r]

\* uncounted are the tool calls behind the last turn_end; miscounted says
\* that a turn_end has counted others.
NothingEmitted ==
  [first |-> "none", last |-> "none", starts |-> 0, ends |-> 0, errored |-> FALSE,
   reason |-> "none", uncounted |-> 0, miscounted |-> FALSE]

Note(e, event) ==
  [first |-> IF e.first = "none" THEN event.type ELSE e.first,
   last |-> IF event.type = "agent_end" THEN "agent_end" ELSE "event",
   starts |-> e.starts + (IF event.type = "agent_start" THEN 1 ELSE 0),
   ends |-> e.ends + (IF event.type = "agent_end" THEN 1 ELSE 0),
   errored |-> e.errored \/ event.type = "error",
   reason |-> IF event.type = "agent_end" THEN event.reason ELSE e.reason,
   uncounted |-> CASE event.type = "tool_call" -> e.uncounted + 1
                   [] event.type = "turn_end" -> 0
                   [] OTHER -> e.uncounted,
   miscounted |-> e.miscounted \/ (event.type = "turn_end" /\ event.toolCallCount # e.uncounted)]

\* queue.push() of each.
Push(events) == emitted' = IF closed THEN emitted ELSE FoldLeft(Note, emitted, events)

\* Pushes, and the queue stays as it is.
Emits(events) == Push(events) /\ UNCHANGED closed

Silent == UNCHANGED <<emitted, closed>>

-----------------------------------------------------------------------------
(* TurnAccumulator.  Its methods are sequences of events with the turn     *)
(* they leave.                                                             *)

NoTurn == [calls |-> 0, pending |-> None, lost |-> FALSE]

FlushedTurn == [turn EXCEPT !.calls = 0, !.pending = None]

\* flush()
PendingTurnEnd ==
  IF turn.pending = None THEN <<>> ELSE <<TurnEnd(turn.calls - turn.pending)>>

FlushTurn == turn' = IF turn.pending = None THEN turn ELSE FlushedTurn

\* text()
Text == FlushTurn /\ Emits(Append(PendingTurnEnd, Content))

\* toolCall()
CallsTool ==
  /\ turn.calls < MaxCalls
  /\ turn' = [turn EXCEPT !.calls = @ + 1]
  /\ Emits(<<ToolCall>>)

\* thinking(), toolResult() and native()
Other == Emits(<<Native>>) /\ UNCHANGED turn

\* Mutant: the calls of a turn are counted again in the next.
KeptTurn == [turn EXCEPT !.pending = None]

EndedTurn == [turn EXCEPT !.calls = 0, !.pending = None]

\* endTurn()
TurnEnds == Append(PendingTurnEnd, TurnEnd(IF turn.pending = None THEN turn.calls ELSE 0))
EndTurn == turn' = EndedTurn

\* markTurnEnd(): a turn still pending is overwritten.
MarkedTurn == [turn EXCEPT !.pending = turn.calls, !.lost = @ \/ turn.pending # None]

-----------------------------------------------------------------------------
(* The end of a run.                                                       *)

\* turns.close(), what is pushed then, agent_end and queue.close().
Closes(events, r) ==
  /\ Push(PendingTurnEnd \o events \o <<AgentEnd(r)>>)
  /\ FlushTurn
  /\ closed' = TRUE

\* It returns in the same step.
Returns(events, r) ==
  /\ Closes(events, r)
  /\ result' = r /\ pc' = "over"
  /\ UNCHANGED <<kind, aborted, consumer, finish>>

\* The catch clause of every adapter.
Fails == Returns(<<ErrorEvent>>, IF aborted THEN "aborted" ELSE "error")

\* The run goes on: nothing but its events and turn has changed.
Continues == UNCHANGED <<kind, pc, aborted, consumer, finish, result>>

At(k, p) == kind = k /\ pc = p

\* Only pc changes.
Goes(next) ==
  /\ pc' = next
  /\ UNCHANGED <<turn, finish, result>> /\ Silent
  /\ UNCHANGED <<kind, aborted, consumer>>

-----------------------------------------------------------------------------
(* The run's owner.                                                        *)

CallInit ==
  /\ kind \in Kinds
  /\ pc = "idle" /\ aborted = FALSE /\ closed = FALSE
  /\ consumer = "none" /\ emitted = NothingEmitted /\ turn = NoTurn
  /\ finish = "unknown" /\ result = "none"

\* startIfNeeded(): the events are iterated, the result is read, or abort()
\* is called.  The adapter says where its run stands then.
Begins ==
  /\ pc = "idle"
  /\ \/ consumer' = "iterating" /\ UNCHANGED aborted
     \/ UNCHANGED consumer /\ aborted' \in {aborted, TRUE}
  /\ UNCHANGED kind

\* run.abort() or options.signal; only the first starts a run.
AbortsCall ==
  /\ ~aborted /\ aborted' = TRUE
  /\ UNCHANGED <<kind, pc, closed, consumer, emitted, turn, finish, result>>

Iterates ==
  /\ consumer = "none" /\ pc # "idle"
  /\ consumer' = "iterating"
  /\ UNCHANGED <<kind, pc, aborted, closed, emitted, turn, finish, result>>

\* The iterator's return() closes the queue, and with it the bus.
Leaves ==
  /\ consumer = "iterating" /\ ~closed
  /\ consumer' = "left" /\ closed' = TRUE
  /\ UNCHANGED <<kind, pc, aborted, emitted, turn, finish, result>>

OwnerStep == Iterates \/ Leaves
==============================================================================
