------------------------------- MODULE AgentRun ------------------------------
(***************************************************************************)
(* What agents/protocol.ts promises of every agent run: agent_start comes  *)
(* first and agent_end last, one of each, whoever aborts or fails on the   *)
(* way; the result is never rejected, it settles once, with the reason    *)
(* agent_end announced, and as an error only behind an error event.        *)
(***************************************************************************)
EXTENDS Naturals

VARIABLES
  first, last,   \* types of the first and the last event, "none" at first
  starts, ends,  \* agent_start and agent_end events so far
  errored,       \* an error event was emitted
  reason,        \* of agent_end
  silenced,      \* the consumer left: nothing is emitted any more
  result         \* "none", "pending" or the finish reason

\* AgentFinishReason; those that are neither an error nor an abort are "stop".
FinishReasons == {"stop", "aborted", "error", "unknown"}

events == <<first, last, starts, ends, errored, reason>>
vars == <<events, silenced, result>>

Init == /\ first = "none" /\ last = "none" /\ starts = 0 /\ ends = 0
        /\ errored = FALSE /\ reason = "none" /\ silenced = FALSE /\ result = "none"

\* One event or several, up to agent_end.
Emit ==
  /\ ~silenced /\ ends = 0
  /\ first' = "agent_start" /\ starts' = 1
  /\ \/ ends' = 0 /\ last' # "agent_end" /\ reason' = reason
     \/ ends' = 1 /\ last' = "agent_end"
  /\ errored => errored'

Quiet == UNCHANGED events

\* The run is started and has said so.
Begins == result = "none" /\ result' = "pending" /\ starts' = 1

\* It resolves, never rejects, with what agent_end announced, and with an
\* error behind an error event.  A consumer that leaves sees neither event.
Settles ==
  /\ result \in {"none", "pending"} /\ result' \in FinishReasons
  /\ ends' = 1 => result' = reason'
  /\ ends' = 0 => silenced'
  /\ result' = "error" => errored' \/ silenced'

Next == /\ Emit \/ Quiet
        /\ Begins \/ Settles \/ UNCHANGED result
        /\ silenced => silenced'
        /\ starts' = 1 => result' # "none"

Spec == Init /\ [][Next]_vars
==============================================================================
