------------------------------- MODULE AcpAgent ------------------------------
(***************************************************************************)
(* The adapter for agents that speak ACP (acp/adapter.ts) over JSON-RPC on *)
(* the pipes of a child process (acp/transport.ts).                        *)
(*                                                                         *)
(* One request is outstanding at a time.  Its answer is read in one turn   *)
(* of the event loop and continued in a microtask: other lines of the same *)
(* chunk come between, the end of stdout does not.                         *)
(***************************************************************************)
EXTENDS ChildAgents

CONSTANT MaxFollowUps  \* bound: messages waiting in followUpQueue

ASSUME FollowUpsAssumption == MaxFollowUps \in Nat

VARIABLE acp  \* the request, the end of stdout, cancelSent, followUpQueue

\* late are the follow-ups that were accepted while agent_end was pushed.
NoAcp == [request |-> "none", ended |-> FALSE, cancelSent |-> FALSE,
          followUps |-> 0, late |-> 0]

AcpPhases == {"initializing", "creating", "prompting"}
Running == kind = "acp" /\ pc \in AcpPhases

\* Mutant: messages are queued when nobody will read the queue.
EndedOnResult == kind = "acp" /\ pc = "over"

\* hasEnded
HasEnded == kind = "acp" /\ pc \in {"cleaning", "over"}

\* The continuation of an answered request.
Continued(phase, answer) == At("acp", phase) /\ acp.request = answer

-----------------------------------------------------------------------------
(* The end.                                                                *)

\* cleanup(): the transport is disposed, a child that lives told to go and
\* waited for.
Cleanup(r) ==
  IF Alive(child)
  THEN child' = Terminated(child) /\ pc' = "cleaning" /\ UNCHANGED result
  ELSE pc' = "over" /\ result' = r /\ UNCHANGED child

\* The handlers of agent_end, and of the events pushed with it, run before
\* hasEnded is set: what they follow up with is accepted.  No handler runs
\* when the queue is closed.
AcpEnds ==
  \E n \in 0..(MaxFollowUps - acp.followUps) :
    /\ closed => n = 0
    /\ acp' = [acp EXCEPT !.request = "none", !.followUps = @ + n, !.late = n]

AcpCloses(events, r) ==
  /\ Closes(events, r) /\ Cleanup(r)
  /\ finish' = r
  /\ AcpEnds
  /\ UNCHANGED <<kind, aborted, consumer>>

\* fail()
AcpFails == AcpCloses(<<ErrorEvent>>, IF aborted THEN "aborted" ELSE "error")

\* Mutant: the grace period is over, and that is all.
WaitGivesUp ==
  /\ At("acp", "cleaning")
  /\ child' = [child EXCEPT !.timer = FALSE]
  /\ result' = finish /\ pc' = "over"
  /\ Silent /\ UNCHANGED <<kind, aborted, consumer, turn, finish, acp>>

\* waitForExit(): the exit, or the grace period and SIGKILL.
WaitEnds ==
  /\ At("acp", "cleaning")
  /\ child' = IF child.state = "gone" THEN [child EXCEPT !.timer = FALSE]
                                        ELSE [child EXCEPT !.timer = FALSE, !.told = "KILL"]
  /\ result' = finish /\ pc' = "over"
  /\ Silent /\ UNCHANGED <<kind, aborted, consumer, turn, finish, acp>>

-----------------------------------------------------------------------------
(* The transport and the agent behind it.                                  *)

Lives == child.state \in {"up", "gone"} /\ ~acp.ended

\* The agent's answer to the request, a result or an error.
Answers ==
  /\ Running /\ Lives /\ acp.request = "awaited"
  /\ \E answer \in {"answered", "refused"} : acp' = [acp EXCEPT !.request = answer]
  /\ CallQuiet /\ UNCHANGED child

\* stdout ends, with the child or before it: what is awaited is rejected.
StdoutEnds ==
  /\ Running /\ ~acp.ended /\ acp.request = "awaited"
  /\ child.state # "spawning"
  /\ acp' = [acp EXCEPT !.ended = TRUE, !.request = "refused"]
  /\ CallQuiet /\ UNCHANGED child

Receives(events) == Running /\ Lives /\ events /\ Continues /\ UNCHANGED <<child, acp>>

\* handleSessionUpdate()
SessionUpdates == Receives(Text \/ CallsTool \/ Other)

\* Another notification, or a chunk of stderr.
Notifications == Receives(Other)

\* handleAgentRequest(): a permission asked for is answered by the mode, any
\* other request with an error; the answer is only written.
AgentRequests == Receives(Other)

\* onTransportError(): a line that is no message, or a write that failed.
TransportErrors ==
  /\ Running /\ Emits(<<ErrorEvent>>)
  /\ Continues /\ UNCHANGED <<turn, child, acp>>

-----------------------------------------------------------------------------
(* The run.                                                                *)

\* spawnAgent(), which may throw, and the request to initialize.
AcpStarts ==
  /\ kind = "acp" /\ Begins /\ UNCHANGED turn
  /\ \/ /\ Emits(<<AgentStart>>) /\ UNCHANGED finish
        /\ pc' = "initializing" /\ result' = "pending"
        /\ child' = Spawned /\ acp' = [acp EXCEPT !.request = "awaited"]
     \/ /\ \E r \in {IF aborted' THEN "aborted" ELSE "error"} :
             Push(<<AgentStart, ErrorEvent, AgentEnd(r)>>) /\ finish' = r /\ result' = r
        /\ closed' = TRUE /\ pc' = "over"
        /\ AcpEnds /\ UNCHANGED child

Requests(phase, events) ==
  /\ Emits(events)
  /\ pc' = phase /\ acp' = [acp EXCEPT !.request = "awaited"]
  /\ UNCHANGED <<kind, aborted, consumer, turn, finish, result, child>>

\* A session is created or resumed; it cannot be resumed with an agent that
\* declares no loadSession.
Initialized ==
  /\ Continued("initializing", "answered")
  /\ \/ ~aborted /\ Requests("creating", <<Native>>)
     \/ AcpCloses(<<Native, ErrorEvent>>, IF aborted THEN "aborted" ELSE "error")

\* The first prompt.
SessionReady ==
  /\ Continued("creating", "answered")
  /\ IF aborted THEN AcpFails ELSE Requests("prompting", <<>>)

\* mapStopReason(): what the agent's stop reasons become.
StopReasons == IF aborted THEN {"aborted"} ELSE {"stop", "aborted", "unknown"}

\* The answer to a prompt: the run ends with the stop reason, or with the
\* next message of the queue as the next prompt.
PromptAnswered ==
  /\ Continued("prompting", "answered")
  /\ \E reason \in StopReasons :
       IF reason = "aborted" \/ acp.followUps = 0
       THEN /\ Push(TurnEnds \o <<AgentEnd(reason)>>) /\ EndTurn
            /\ closed' = TRUE
            /\ Cleanup(reason) /\ finish' = reason
            /\ AcpEnds
       ELSE /\ Emits(TurnEnds) /\ EndTurn
            /\ acp' = [acp EXCEPT !.request = "awaited", !.followUps = @ - 1]
            /\ UNCHANGED <<pc, finish, result, child>>
  /\ UNCHANGED <<kind, aborted, consumer>>

Refused == Running /\ acp.request = "refused" /\ AcpFails

-----------------------------------------------------------------------------
(* The owner.                                                              *)

\* followUp(), by a caller or by a handler of an event before the last.
FollowUp ==
  /\ kind = "acp" /\ ~HasEnded /\ acp.followUps < MaxFollowUps
  /\ acp' = [acp EXCEPT !.followUps = @ + 1]
  /\ CallQuiet /\ UNCHANGED child

\* sendCancel(), which is wired once there is a session.
CancelReaches == IF At("acp", "prompting") THEN [acp EXCEPT !.cancelSent = TRUE] ELSE acp

\* What the adapter does by itself.
AcpContinues == Initialized \/ SessionReady \/ PromptAnswered \/ Refused \/ WaitEnds

AcpStep == \/ AcpStarts \/ AcpContinues
           \/ Answers \/ StdoutEnds \/ SessionUpdates \/ Notifications \/ AgentRequests
           \/ TransportErrors \/ FollowUp
==============================================================================
