------------------------------- MODULE Agents --------------------------------
(***************************************************************************)
(* One run of any of the adapters with its owner, or the bus of several    *)
(* with the bridge that persists what is emitted on it.                    *)
(***************************************************************************)
EXTENDS StreamAgents, AcpAgent, AgentRunner, WithMemory, JobStoreBridge

runVars == <<callVars, child, acp, loop, memory>>
vars == <<runVars, bridgeVars>>

Init == CallInit /\ BridgeInit /\ LoopInit /\ MemoryInit /\ child = NoChild /\ acp = NoAcp

\* An abort reaches the child or the transport in the step that aborts.
Aborts ==
  /\ AbortsCall
  /\ child' = AbortReaches /\ acp' = CancelReaches
  /\ UNCHANGED loop

\* The adapter's own steps.  A wrapped one is called behind recall().
AdapterStep ==
  /\ pc = "idle" => MayStart
  /\ \/ StreamStep /\ UNCHANGED <<child, acp, loop>>
     \/ ChildStep /\ UNCHANGED <<acp, loop>>
     \/ AcpStep /\ UNCHANGED loop
     \/ LoopStep /\ UNCHANGED <<child, acp>>

\* The wrapper reads the result, which starts the run.
WrapperStarts == memory.pc = "running" /\ pc = "idle" /\ AdapterStep /\ UNCHANGED memory

HeldAbort == HeldDelivered /\ Aborts /\ memory' = [memory EXCEPT !.wants = FALSE]

RunStep ==
  \/ /\ AdapterStep \/ (memory.pc # "recalling" /\ Aborts)
        \/ (OwnerStep /\ UNCHANGED <<child, acp, loop>>)
     /\ UNCHANGED memory
  \/ HeldAbort
  \/ MemoryRuns /\ UNCHANGED <<callVars, child, acp, loop>>
  \/ AbortWaits /\ UNCHANGED <<callVars, child, acp, loop>>

Next == \/ kind # "bus" /\ RunStep /\ UNCHANGED bridgeVars
        \/ kind = "bus" /\ BridgeStep /\ UNCHANGED runVars

Spec == Init /\ [][Next]_vars

-----------------------------------------------------------------------------
(* Fairness.                                                               *)

\* Timers fire, a killed process dies, pending promises settle that were
\* given an aborted signal, and the adapters go on behind them.
AdapterFairness ==
  /\ WF_vars(StreamSettles /\ UNCHANGED <<child, acp, loop, memory, bridgeVars>>)
  /\ WF_vars(ChildRuns /\ UNCHANGED <<acp, loop, memory, bridgeVars>>)
  /\ WF_vars((AcpContinues \/ (~Alive(child) /\ StdoutEnds)) /\ UNCHANGED <<loop, memory, bridgeVars>>)
  /\ WF_vars(LoopSettles /\ UNCHANGED <<child, acp, memory, bridgeVars>>)
  /\ WF_vars(kind = "bus" /\ BridgeRuns /\ UNCHANGED runVars)

\* A memory provider answers, and the wrapper goes on.
MemoryAnswers ==
  /\ WF_vars(MemoryRuns /\ UNCHANGED <<callVars, child, acp, loop, bridgeVars>>)
  /\ WF_vars((WrapperStarts \/ HeldAbort) /\ UNCHANGED bridgeVars)

\* An ACP agent answers what it is asked, once it is told to cancel.
AgentAnswers == WF_vars(Answers /\ UNCHANGED <<loop, memory, bridgeVars>>)

FairSpec == Spec /\ AdapterFairness /\ MemoryAnswers /\ AgentAnswers

\* The same for an agent that may hang.
HungSpec == Spec /\ AdapterFairness /\ MemoryAnswers

-----------------------------------------------------------------------------
(* Properties.                                                             *)

HasResult == RunResult \notin {"none", "pending"}

\* The adapters that keep what is promised of the result.  That of Anthropic
\* and Codex may reject, that of Codex and pi may be an error that was no
\* event, and a wrapper with memory may reject.
Conforms ==
  kind \in {"codex-cli", "claude-code", "acp", "inference"} /\ memory.pc = "off"

Protocol == INSTANCE AgentRun WITH
  first <- emitted.first, last <- emitted.last,
  starts <- emitted.starts, ends <- emitted.ends,
  errored <- emitted.errored, reason <- emitted.reason,
  silenced <- consumer = "left",
  result <- IF Conforms THEN result ELSE IF emitted.starts = 0 THEN "none" ELSE "pending"

\* Every adapter keeps the order of the events, and those that conform what is
\* promised of the result, whatever fails, is aborted or left by its consumer.
ImplementsProtocol == Protocol!Spec

\* "`result` always resolves, never rejects", and an error is encoded "with a
\* prior `error` event" (protocol.ts:246-247).
ResultKeepsPromise ==
  /\ RunResult # "rejected"
  /\ RunResult = "error" /\ consumer # "left" => emitted.errored

\* A turn_end counts the tool calls since the one before.  Not so when a
\* turn was lost: markTurnEnd() overwrites one that is pending still.
TurnsAddUp == emitted.miscounted => turn.lost

\* A run that is aborted comes to its result, also if it was aborted while
\* its memory was being recalled.
AbortEndsRun == ((aborted /\ result = "pending") \/ memory.wants) ~> HasResult

\* No child outlives the result of its run, unless it was told SIGKILL.
ChildReaped == HasResult /\ Alive(child) => child.told = "KILL"

\* A run that ends by itself has sent every follow-up it accepted before it
\* began to push agent_end.  Not so one of a handler of agent_end: it is
\* accepted all the same.
EarlyFollowUpsServed ==
  HasEnded /\ finish \notin {"aborted", "error"} => acp.followUps = acp.late

Answered(messages, i) ==
  messages[i].role = "assistant" =>
    LET run == {j \in (i + 1)..Len(messages) : RunHead(messages, j) = i} IN
    messages[i].ids = UNION {messages[j].ids : j \in run}

Asked(messages, i) ==
  messages[i].role = "tool" =>
    messages[i].ids \subseteq messages[RunHead(messages, i)].ids
      /\ messages[RunHead(messages, i)].role = "assistant"

\* In every request the tool calls of a message are answered by the results
\* that follow it, whatever was dropped by compression.
PairedRequests ==
  At("inference", "requesting") =>
    \A i \in DOMAIN loop.messages : Answered(loop.messages, i) /\ Asked(loop.messages, i)

\* An ACP agent that was sent session/cancel is sent a SIGTERM, unless it
\* ends the run.
AbortEscalates ==
  acp.cancelSent ~> (child.told # "nothing" \/ ~Alive(child))
==============================================================================
