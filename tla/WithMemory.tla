----------------------------- MODULE WithMemory ------------------------------
(***************************************************************************)
(* withMemory (agents/with-memory.ts): recalls before the run of another   *)
(* adapter and remembers behind it.  The result is asked for by the call   *)
(* itself, so the wrapped run starts whether anybody reads it or not.      *)
(*                                                                         *)
(* The events memory:recall_failed and memory:remember_failed are only on  *)
(* the bus, outside of the run that agent_start and agent_end enclose.     *)
(***************************************************************************)
EXTENDS AgentCall

CONSTANT Wrapped  \* adapters that may be called with a memoryProvider

ASSUME WrappedAssumption == Wrapped \subseteq Kinds

VARIABLE memory  \* where the wrapper is, an abort it holds back, its result

\* Without a provider the run is the adapter's own.
MemoryInit ==
  memory \in [pc: {"off"} \cup (IF kind \in Wrapped THEN {"recalling"} ELSE {}),
              wants: {FALSE}, result: {"pending"}]

MayStart == memory.pc \in {"off", "running"}

\* What the owner of the run sees as its result.
RunResult ==
  CASE memory.pc = "off" -> result
    [] memory.pc = "over" -> memory.result
    [] OTHER -> IF result = "none" THEN "none" ELSE "pending"

Becomes(next, value) == memory' = [memory EXCEPT !.pc = next, !.result = value]

\* recall() resolves or rejects, and the adapter is called.
Recalled == memory.pc = "recalling" /\ Becomes("running", "pending")

\* inject() or the adapter throws.  The abort that waits goes with it.
InjectThrows ==
  /\ memory.pc = "recalling"
  /\ memory' = [pc |-> "over", wants |-> FALSE, result |-> "rejected"]

\* The wrapped result settles; a rejection is passed on at once.
InnerSettles ==
  /\ memory.pc = "running" /\ result \notin {"none", "pending"}
  /\ IF result = "rejected" THEN Becomes("over", result) ELSE Becomes("remembering", "pending")

\* remember() resolves or rejects.
Remembered == memory.pc = "remembering" /\ Becomes("over", result)

\* abort() before there is a run to abort.
AbortWaits == /\ memory.pc = "recalling" /\ ~memory.wants
              /\ memory' = [memory EXCEPT !.wants = TRUE]

\* The run has been started by the reaction that was there first.
HeldDelivered == memory.wants /\ memory.pc = "running" /\ pc # "idle"

MemoryRuns == Recalled \/ InjectThrows \/ InnerSettles \/ Remembered
==============================================================================
