------------------------------- MODULE FanoutOf ------------------------------
(***************************************************************************)
(* boundedFanoutOf (patterns/bounded-fanout-of.ts): an agent adapter run   *)
(* over every item.  The state is that of BoundedFanout; a worker is       *)
(* "running" while its run is in flight and "failing" while fail() waits   *)
(* for the runs it has aborted.                                            *)
(***************************************************************************)
EXTENDS BoundedFanout

\* resolveTraceIds(): traceIdFor() may throw, return no valid id or repeat
\* itself, which rejects the call.
resolveTraceIds == outcome' \in {"pending", "rejected"}

\* Nothing is asked of the signal here: the workers do that.
CallOf(o) ==
  /\ outcome # "pending"
  /\ options' = o
  /\ firstError' = FALSE /\ thrown' = {}
  /\ cursor' = 0
  /\ results' = [i \in 1..o.count |-> "empty"]
  /\ IF o.count = 0 THEN outcome' = "resolved" ELSE resolveTraceIds
  /\ workers' = [w \in 1..Concurrency(o) |-> [pc |-> "pulling", item |-> 0, attempt |-> 0]]
  /\ UNCHANGED aborted

\* A worker's first turn of its loop; the others come with the end of a run.
PullsFirst(w) ==
  /\ At(w, "pulling") /\ Pull(w)
  /\ UNCHANGED <<options, results, firstError, aborted, thrown, outcome>>

\* fail(): the first failure aborts every run in flight and waits for them.
Failing(w) ==
  IF firstError THEN Goes(w, "returned") /\ UNCHANGED firstError
                ELSE Goes(w, "failing") /\ firstError' = TRUE

\* abortAndSettle() has seen them all; no run was started behind it.
RunsAborted(w) ==
  /\ At(w, "failing") /\ busy = {}
  /\ Goes(w, "returned")
  /\ UNCHANGED <<options, results, firstError, aborted, thrown, outcome>>

\* A run ends in an error in fail-fast mode; onItemError() may throw.
RunFails(w) ==
  /\ At(w, "running") /\ ~options.collect
  /\ Failing(w)
  /\ UNCHANGED <<options, results, aborted, thrown, outcome>>

\* Any other result is stored, also behind an abort, and onItemEnd() called.
RunStored(w) ==
  /\ At(w, "running")
  /\ \E result \in {"ok"} \cup (IF options.collect THEN {"error"} ELSE {})
                         \cup (IF Halted THEN {"aborted"} ELSE {}) : Slot(w, result)
  /\ \/ Pull(w) /\ UNCHANGED <<firstError, thrown>>
     \/ Failing(w) /\ Threw("onItemEnd")
  /\ UNCHANGED <<options, aborted, outcome>>

\* buildConfig() or the adapter throws, or the result of the run is rejected.
RunRejects(w) ==
  /\ At(w, "running") /\ Failing(w)
  /\ UNCHANGED <<options, results, aborted, thrown, outcome>>

\* Promise.allSettled() of the workers.
SettleFanoutOf ==
  /\ outcome = "pending" /\ \A w \in Workers : workers[w].pc = "returned"
  /\ LET rejects == (aborted /\ ~options.collect) \/ firstError IN
     /\ outcome' = IF rejects THEN "rejected" ELSE "resolved"
     /\ results' = IF aborted /\ ~rejects THEN fillAbortedSlots(results) ELSE results
  /\ UNCHANGED <<options, cursor, workers, firstError, aborted, thrown>>

FanoutOfStep ==
  \/ \E w \in Workers : PullsFirst(w) \/ RunsAborted(w) \/ RunFails(w) \/ RunStored(w) \/ RunRejects(w)
  \/ SettleFanoutOf

\* Either of the two.
CallAny(o) == IF o.agents THEN CallOf(o) ELSE Call(o)
AnyFanoutStep == IF options.agents THEN FanoutOfStep ELSE FanoutStep
==============================================================================
