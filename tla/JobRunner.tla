------------------------------ MODULE JobRunner -----------------------------
(***************************************************************************)
(* JobRunner (session/job-runner.ts): processes that claim rows of the job *)
(* store, drive a pipeline, heartbeat, honour cancellation and write one   *)
(* terminal transition; and reconcilers that abandon rows whose owner went *)
(* silent.                                                                 *)
(*                                                                         *)
(* A run is one call of JobRunner.run().  It mints its own owner id, so    *)
(* the elements of Owners name the runs.  Between two awaits a run is      *)
(* atomic (one JavaScript turn); at every await any other run, a cancel(), *)
(* a caller abort, a heartbeat, the reconciler, a crash or the clock may   *)
(* come first.  An awaited store call takes effect and resumes its run in  *)
(* one step: what the run does on resuming is local to it.                 *)
(*                                                                         *)
(* The pipeline (runPipeline over the host's phases) is its interface: it  *)
(* emits events, throws, notices an abort, or ends.  Phases may ignore the *)
(* signal and keep emitting.                                               *)
(***************************************************************************)
EXTENDS JobStore

CONSTANTS
  RunJob,       \* the job each run is called with
  Runner,       \* the process (JobRunner instance) each run belongs to
  HeartbeatOf,  \* ownership.heartbeatEnabled of each run: "on" or "off"
  MaxYields,    \* bound: events one pipeline emits
  MaxFaults,    \* bound: store calls that throw
  StaleAfter    \* staleAfterMs of the reconciler, in ticks

ASSUME RunsAssumption ==
  /\ RunJob \in [Owners -> Jobs]
  /\ HeartbeatOf \in [Owners -> {"on", "off"}]
  /\ DOMAIN Runner = Owners
ASSUME RunnerBoundsAssumption ==
  MaxYields \in Nat /\ MaxFaults \in Nat /\ StaleAfter \in Nat \ {0}

VARIABLES
  run,     \* the local state of each run
  faults,  \* store calls that may still throw
  scan     \* the reconciler: its cutoff and the listed rows still to settle

runnerVars == <<run, faults, scan>>
vars == <<storeVars, runnerVars>>

-----------------------------------------------------------------------------
(* pc names the await a run is at:                                         *)
(*   claiming    setRunning()                                              *)
(*   running     the pipeline has control; appending: appendLive()         *)
(*   beating     a phase awaits the refresh of ctx.heartbeat()             *)
(*   draining    the drains of the success path                            *)
(*   quiescing   stopHeartbeats() of the success path                      *)
(*   completing  finalizeJob(COMPLETED)                                    *)
(*   unwinding   the drains of the catch path                              *)
(*   settling    stopHeartbeats() of the catch path                        *)
(*   requesting  the cancellation-requested event                          *)
(*   cancelling  finalizeJob(CANCELLED); failing: finalizeJob(FAILED)      *)
(* beat is the automatic heartbeat: off, armed (timer set), inflight, or   *)
(* stopping (in flight while stopHeartbeats() waits for it).               *)

Working == {"claiming", "running", "appending", "draining", "quiescing", "completing",
            "beating", "unwinding", "settling", "requesting", "cancelling", "failing"}
Pc == Working \cup {"idle", "resolved", "rejected", "crashed"}

Cause == {"none", "cancellation", "heartbeat", "pipeline", "completion"}
Request == {"none", "waiting", "logged", "failed", "void"}
Beat == {"off", "armed", "inflight", "stopping"}

RunState == [pc: Pc, cause: Cause, aborted: BOOLEAN, owned: BOOLEAN,
             request: Request,             \* entry.cancellationRequested
             optedIn: BOOLEAN,             \* heartbeatOptedIn
             accepted: BOOLEAN,            \* history: a cancel() returned true
             beat: Beat,
             late: BOOLEAN,                \* a timed-out refresh is still on its way
             drained: {"no", "ok", "bad"}, \* the memoised drainResult
             drains: 0..2,                 \* history: times the drains were run
             yields: 0..MaxYields]

NewRun == [pc |-> "idle", cause |-> "none", aborted |-> FALSE, owned |-> FALSE,
           request |-> "none", optedIn |-> FALSE, accepted |-> FALSE, beat |-> "off", late |-> FALSE,
           drained |-> "no", drains |-> 0, yields |-> 0]

Set(r, s) == run' = [run EXCEPT ![r] = s]
Inflight(r) == run[r].pc \in Working

\* A store call rejects (busy, I/O error) and has no effect.
StoreThrows ==
  /\ faults > 0
  /\ faults' = faults - 1
  /\ UNCHANGED storeVars

\* Entering the catch block fixes the termination cause if none is set.
Caught(s) ==
  [s EXCEPT !.pc = "unwinding",
            !.cause = IF s.cause # "none" THEN s.cause
                      ELSE IF s.aborted THEN "cancellation" ELSE "pipeline"]

\* stopHeartbeats(): the timer is cleared, a refresh in flight is awaited.
Stopped(s) ==
  [s EXCEPT !.beat = CASE s.beat = "armed" -> "off"
                       [] s.beat = "inflight" -> "stopping"
                       [] OTHER -> s.beat]

\* recordHeartbeatFailure(): a cause that is already set wins.
FailBeat(s) ==
  IF s.cause \in {"none", "heartbeat"}
  THEN [s EXCEPT !.cause = "heartbeat", !.aborted = TRUE]
  ELSE s

\* Mutant: the attempt is never counted as settled.
BeatFailureForgotten(s) == FailBeat(s)

\* The automatic attempt itself failed; or another attempt did, beside it.
BeatFailed(s) == [FailBeat(s) EXCEPT !.beat = "off"]
ManualBeatFailed(s) == Stopped(FailBeat(s))

-----------------------------------------------------------------------------
(* run(): claim, pipeline, success path.                                   *)

\* assertLocalAvailability() and the synchronous set-up; the caller's signal
\* may already be aborted.
StartRun(r) ==
  /\ run[r].pc = "idle"
  /\ status[RunJob[r]] # "ABSENT"
  /\ \A q \in Owners : Runner[q] = Runner[r] /\ RunJob[q] = RunJob[r] => ~Inflight(q)
  /\ \E aborted \in BOOLEAN :
       Set(r, [run[r] EXCEPT !.pc = "claiming", !.aborted = aborted,
                             !.optedIn = HeartbeatOf[r] = "on",
                             !.cause = IF aborted THEN "cancellation" ELSE "none"])
  /\ UNCHANGED <<storeVars, faults, scan>>

Claim(r) ==
  /\ run[r].pc = "claiming"
  /\ \/ /\ SetRunning(RunJob[r], r, HeartbeatOf[r])
        /\ Set(r, [run[r] EXCEPT !.pc = "running", !.owned = TRUE,
                                 !.beat = IF HeartbeatOf[r] = "on" THEN "armed" ELSE "off"])
        /\ UNCHANGED faults
     \/ /\ ~CanSetRunning(RunJob[r], r)
        /\ Set(r, Caught(run[r]))
        /\ UNCHANGED <<storeVars, faults>>
     \/ StoreThrows /\ Set(r, Caught(run[r]))
  /\ UNCHANGED scan

\* The pipeline emits an event other than done and cancelled.
Yield(r) ==
  /\ run[r].pc = "running"
  /\ run[r].yields < MaxYields
  /\ Set(r, [run[r] EXCEPT !.pc = "appending", !.yields = @ + 1])
  /\ UNCHANGED <<storeVars, faults, scan>>

\* appendLive(), then the check of the signal in the loop body.
AppendYield(r) ==
  /\ run[r].pc = "appending"
  /\ \/ /\ AppendEvent(RunJob[r], "progress")
        /\ Set(r, IF run[r].aborted THEN Caught(run[r])
                  ELSE [run[r] EXCEPT !.pc = "running"])
        /\ UNCHANGED faults
     \/ StoreThrows /\ Set(r, Caught(run[r]))
  /\ UNCHANGED scan

\* A phase throws; or runPipeline sees the abort, emits cancelled (which the
\* loop does not persist) and throws.
PipelineThrows(r) ==
  /\ run[r].pc = "running"
  /\ Set(r, Caught(run[r]))
  /\ UNCHANGED <<storeVars, faults, scan>>

\* runPipeline emits done only after a boundary check found no abort.
PipelineEnds(r) ==
  /\ run[r].pc = "running"
  /\ ~run[r].aborted
  /\ Set(r, [run[r] EXCEPT !.pc = "draining"])
  /\ UNCHANGED <<storeVars, faults, scan>>

\* drainResources(): memoised, every drain attempted, failures collected.
\* Both paths go on to stop the heartbeats.
Drained(s, next) ==
  {[Stopped([s EXCEPT !.drained = d, !.drains = @ + 1]) EXCEPT !.pc = next] : d \in {"ok", "bad"}}

\* Mutant: the result is not memoised.
DrainAgain(s, next) == Drained(s, next)

DrainOnce(s, next) ==
  IF s.drained # "no" THEN {[Stopped(s) EXCEPT !.pc = next]} ELSE Drained(s, next)

Drain(r) ==
  /\ run[r].pc \in {"draining", "unwinding"}
  /\ \E s \in DrainOnce(run[r], IF run[r].pc = "draining" THEN "quiescing" ELSE "settling") :
       Set(r, s)
  /\ UNCHANGED <<storeVars, faults, scan>>

\* The checks after the heartbeats stopped, in order: heartbeat failure,
\* abort, drain failure, then finalResult(), which may throw.  A cancel()
\* from inside finalResult() is one just before this step.
MayComplete(s) == s.cause # "heartbeat" /\ ~s.aborted /\ s.drained # "bad"

Decide(r) ==
  /\ run[r].pc = "quiescing"
  /\ run[r].beat = "off"
  /\ \/ Set(r, Caught(run[r]))
     \/ /\ MayComplete(run[r])
        /\ Set(r, [run[r] EXCEPT !.pc = "completing", !.cause = "completion"])
  /\ UNCHANGED <<storeVars, faults, scan>>

\* Mutant: a completion that another transition pre-empted counts as one.
PreemptedResolves(s) == [s EXCEPT !.pc = "resolved"]

\* finalizeJob returned null: "reached success after another terminal
\* transition" is thrown.
Preempted(s) == Caught(s)

Complete(r) ==
  /\ run[r].pc = "completing"
  /\ \/ /\ FinalizeJob(RunJob[r], r, "COMPLETED")
        /\ Set(r, [run[r] EXCEPT !.pc = "resolved"])
        /\ UNCHANGED faults
     \/ /\ ~CanFinish(RunJob[r], r)
        /\ Set(r, Preempted(run[r]))
        /\ UNCHANGED <<storeVars, faults>>
     \/ StoreThrows /\ Set(r, Caught(run[r]))
  /\ UNCHANGED scan

-----------------------------------------------------------------------------
(* run(): the catch path.                                                  *)

\* entry.cancellationRequested is set once; the append waits for the claim.
Requested(s) == IF s.request = "none" THEN "waiting" ELSE s.request

Settle(r) ==
  /\ run[r].pc = "settling"
  /\ run[r].beat = "off"
  /\ Set(r, IF ~run[r].owned THEN [run[r] EXCEPT !.pc = "rejected"]
            ELSE IF run[r].cause = "cancellation"
            THEN [run[r] EXCEPT !.pc = "requesting", !.request = Requested(run[r])]
            ELSE [run[r] EXCEPT !.pc = "failing"])
  /\ UNCHANGED <<storeVars, faults, scan>>

\* Mutant: the terminal transition does not wait for the request event.
RequestUnawaited(s) == TRUE

\* The terminal transition is attempted even if the request event was lost.
RequestSettled(s) == s.request \in {"logged", "failed"}

AwaitRequest(r) ==
  /\ run[r].pc = "requesting"
  /\ RequestSettled(run[r])
  /\ Set(r, [run[r] EXCEPT !.pc = "cancelling"])
  /\ UNCHANGED <<storeVars, faults, scan>>

\* persistCancellation() and persistFailure(): whatever the store answers,
\* run() rejects.
Persist(r) ==
  /\ \/ /\ run[r].pc = "cancelling"
        /\ FinalizeJob(RunJob[r], r, "CANCELLED")
        /\ UNCHANGED faults
     \/ /\ run[r].pc = "failing"
        /\ FinalizeJob(RunJob[r], r, "FAILED")
        /\ UNCHANGED faults
     \/ /\ run[r].pc \in {"cancelling", "failing"}
        /\ ~CanFinish(RunJob[r], r)
        /\ UNCHANGED <<storeVars, faults>>
     \/ /\ run[r].pc \in {"cancelling", "failing"}
        /\ StoreThrows
  /\ Set(r, [run[r] EXCEPT !.pc = "rejected"])
  /\ UNCHANGED scan

-----------------------------------------------------------------------------
(* Cancellation.                                                           *)

\* Mutant: cancel() is accepted after completion was committed to.
CancelAnyCause(s) == TRUE

CanCancel(s) == s.cause \in {"none", "cancellation"}

CancelRequested(s) ==
  [s EXCEPT !.cause = IF s.cause = "none" THEN "cancellation" ELSE s.cause,
            !.request = Requested(s), !.aborted = TRUE, !.accepted = TRUE]

\* cancel() returned true.
Cancel(r) ==
  /\ Inflight(r)
  /\ CanCancel(run[r])
  /\ Set(r, CancelRequested(run[r]))
  /\ UNCHANGED <<storeVars, faults, scan>>

\* The caller's own signal fires: markCallerCancellation().
CallerAbort(r) ==
  /\ Inflight(r)
  /\ ~run[r].aborted
  /\ Set(r, [run[r] EXCEPT !.aborted = TRUE,
                           !.cause = IF @ = "none" THEN "cancellation" ELSE @])
  /\ UNCHANGED <<storeVars, faults, scan>>

\* The request promise: after the claim, append cancellation_requested.  It
\* runs on its own, beside the run and even after it returned.
LogRequest(r) ==
  /\ run[r].request = "waiting"
  /\ run[r].pc \notin {"idle", "claiming", "crashed"}
  /\ \/ /\ run[r].owned
        /\ AppendEvent(RunJob[r], "cancellation_requested")
        /\ Set(r, [run[r] EXCEPT !.request = "logged"])
        /\ UNCHANGED faults
     \/ /\ run[r].owned
        /\ StoreThrows
        /\ Set(r, [run[r] EXCEPT !.request = "failed"])
     \/ /\ ~run[r].owned
        /\ Set(r, [run[r] EXCEPT !.request = "void"])
        /\ UNCHANGED <<storeVars, faults>>
  /\ UNCHANGED scan

-----------------------------------------------------------------------------
(* Heartbeats of a run.                                                    *)

BeatFires(r) ==
  /\ run[r].beat = "armed"
  /\ Inflight(r)
  /\ Set(r, [run[r] EXCEPT !.beat = "inflight"])
  /\ UNCHANGED <<storeVars, faults, scan>>

\* The refresh answers in time.
BeatLands(r) ==
  /\ run[r].beat \in {"inflight", "stopping"}
  /\ \/ /\ Heartbeat(RunJob[r], r)
        /\ Set(r, [run[r] EXCEPT !.beat = IF @ = "inflight" THEN "armed" ELSE "off"])
        /\ UNCHANGED faults
     \/ /\ ~CanHeartbeat(RunJob[r], r)
        /\ Set(r, BeatFailed(run[r]))
        /\ UNCHANGED <<storeVars, faults>>
     \/ StoreThrows /\ Set(r, BeatFailed(run[r]))
  /\ UNCHANGED scan

\* withTimeout() gives up on the refresh, which the backend may still apply;
\* so it does for a refresh a phase awaits (ManualRefresh).
BeatTimesOut(r) ==
  /\ run[r].beat \in {"inflight", "stopping"}
  /\ StoreThrows
  /\ Set(r, [BeatFailed(run[r]) EXCEPT !.late = TRUE])
  /\ UNCHANGED scan

LateBeat(r) ==
  /\ run[r].late
  /\ \/ Heartbeat(RunJob[r], r)
     \/ ~CanHeartbeat(RunJob[r], r) /\ UNCHANGED storeVars
  /\ Set(r, [run[r] EXCEPT !.late = FALSE])
  /\ UNCHANGED <<faults, scan>>

\* ctx.heartbeat(), awaited by a phase: opt in first (the answer is
\* ignored), then refresh.
ManualBeat(r) ==
  /\ run[r].pc = "running"
  /\ \/ /\ ~run[r].optedIn
        /\ \/ EnableHeartbeat(RunJob[r], r)
           \/ ~CanHeartbeat(RunJob[r], r) /\ UNCHANGED storeVars
        /\ Set(r, [run[r] EXCEPT !.pc = "beating", !.optedIn = TRUE])
        /\ UNCHANGED faults
     \/ /\ run[r].optedIn
        /\ Set(r, [run[r] EXCEPT !.pc = "beating"])
        /\ UNCHANGED <<storeVars, faults>>
     \/ /\ ~run[r].optedIn
        /\ StoreThrows
        /\ Set(r, ManualBeatFailed(run[r]))
  /\ UNCHANGED scan

ManualRefresh(r) ==
  /\ run[r].pc = "beating"
  /\ \/ /\ Heartbeat(RunJob[r], r)
        /\ Set(r, [run[r] EXCEPT !.pc = "running"])
        /\ UNCHANGED faults
     \/ /\ ~CanHeartbeat(RunJob[r], r)
        /\ Set(r, [ManualBeatFailed(run[r]) EXCEPT !.pc = "running"])
        /\ UNCHANGED <<storeVars, faults>>
     \/ /\ StoreThrows
        /\ \E late \in {run[r].late, TRUE} :
             Set(r, [ManualBeatFailed(run[r]) EXCEPT !.pc = "running", !.late = late])
  /\ UNCHANGED scan

-----------------------------------------------------------------------------
(* The host, the reconciler, crashes and time.                             *)

\* The last two are an operator's: setAbandoned() and heartbeatAsOperator().
HostStep ==
  /\ \E j \in Jobs : \/ CreateJob(j) \/ AcquireExclusive(j)
                     \/ SetAbandoned(j) \/ Heartbeat(j, NoOwner)
  /\ UNCHANGED runnerVars

\* The process dies: its timers, promises and in-flight calls with it.
Crash(p) ==
  /\ \E r \in Owners : Runner[r] = p /\ Inflight(r)
  /\ run' = [r \in Owners |->
               IF Runner[r] = p /\ Inflight(r)
               THEN [run[r] EXCEPT !.pc = "crashed", !.beat = "off", !.late = FALSE]
               ELSE run[r]]
  /\ UNCHANGED <<storeVars, faults, scan>>

\* reconcileAbandoned(): one page of rows with the owner each was listed
\* with.  A later page is a new scan here, with a cutoff no older.
ReconcileList ==
  /\ scan.todo = {}
  /\ now >= StaleAfter
  /\ LET listed == {j \in Jobs : ListedStale(j, StaleAfter)}
     IN /\ listed # {}
        /\ scan' = [cutoff |-> now - StaleAfter,
                    todo |-> {<<j, owner[j]>> : j \in listed}]
  /\ UNCHANGED <<storeVars, run, faults>>

ReconcileOne(job) ==
  /\ job \in scan.todo
  /\ \/ FinalizeAbandonedIfStale(job[1], scan.cutoff, job[2])
     \/ ~CanAbandon(job[1], scan.cutoff, job[2]) /\ UNCHANGED storeVars
  /\ scan' = [scan EXCEPT !.todo = @ \ {job}]
  /\ UNCHANGED <<run, faults>>

ReconcileThrows ==
  /\ scan.todo # {}
  /\ StoreThrows
  /\ scan' = [scan EXCEPT !.todo = {}]
  /\ UNCHANGED run

Init ==
  /\ StoreInit
  /\ run = [r \in Owners |-> NewRun]
  /\ faults = MaxFaults
  /\ scan = [cutoff |-> 0, todo |-> {}]

PipelineSettles(r) == PipelineThrows(r) \/ PipelineEnds(r)
Continue(r) == \/ Claim(r) \/ AppendYield(r) \/ ManualRefresh(r) \/ Drain(r) \/ Decide(r)
               \/ Complete(r) \/ Settle(r) \/ AwaitRequest(r) \/ Persist(r)
BeatSettles(r) == BeatLands(r) \/ BeatTimesOut(r)

RunStep(r) == \/ StartRun(r) \/ Yield(r) \/ ManualBeat(r) \/ PipelineSettles(r) \/ Continue(r)
              \/ Cancel(r) \/ CallerAbort(r) \/ LogRequest(r)
              \/ BeatFires(r) \/ BeatSettles(r) \/ LateBeat(r)
Reconcile == \/ ReconcileList \/ ReconcileThrows
             \/ \E job \in scan.todo : ReconcileOne(job)

Next == \/ \E r \in Owners : RunStep(r) \/ Crash(Runner[r])
        \/ Reconcile
        \/ HostStep
        \/ Tick /\ UNCHANGED runnerVars

Spec == Init /\ [][Next]_vars

\* Promises settle and timers fire: the event loop is fair to every pending
\* await, a refresh answers or times out, the host keeps reconciling.  That
\* a pipeline given the chance ends or throws is the phases' own contract.
Fairness ==
  /\ \A r \in Owners : /\ SF_vars(PipelineSettles(r))
                       /\ WF_vars(Continue(r))
                       /\ WF_vars(LogRequest(r))
                       /\ WF_vars(BeatSettles(r))
  /\ WF_vars(Reconcile)

-----------------------------------------------------------------------------
(* Properties.                                                             *)

\* Local state is well typed, the drains ran if and only if their result is
\* memoised, the catch path always has a termination cause, and the cutoff of
\* a scan lies in the past.
RunTypeOK ==
  /\ run \in [Owners -> RunState]
  /\ \A r \in Owners : run[r].drained = "no" <=> run[r].drains = 0
  /\ \A r \in Owners :
       run[r].pc \in {"unwinding", "settling", "requesting", "cancelling", "failing", "rejected"}
       => run[r].cause # "none"
  /\ faults \in 0..MaxFaults
  /\ scan \in [cutoff: 0..now, todo: SUBSET (Jobs \X MaybeOwner)]

\* A job body is executed under one claim only: of all the runs called with
\* the same job, in whatever process, at most one ever owned it ("Atomically
\* claim PENDING/unowned work. False means another owner won", job-store.ts).
NeverExecutedTwice ==
  \A q, r \in Owners :
    q # r /\ RunJob[q] = RunJob[r] => ~(run[q].owned /\ run[r].owned)

\* What makes NeverExecutedTwice inductive: a claim is the owner column.
ClaimHeld ==
  \A r \in Owners : /\ run[r].owned => owner[RunJob[r]] = r
                    /\ run[r].pc = "idle" => run[r] = NewRun
                    /\ run[r].pc = "claiming" => ~run[r].owned

\* A cancel() that returned true is honoured: the run that accepted it never
\* ends COMPLETED or FAILED, wherever between claim and completion it came.
CancelHonoured ==
  \A r \in Owners : run[r].accepted /\ run[r].owned =>
    status[RunJob[r]] \notin {"COMPLETED", "FAILED"}

\* What makes CancelHonoured inductive: the termination cause, written once,
\* decides which terminal transition a run may still write.
CauseDecides ==
  \A r \in Owners :
    /\ run[r].accepted => run[r].cause = "cancellation" /\ run[r].aborted
    /\ run[r].pc = "completing" => run[r].cause = "completion"
    /\ run[r].pc = "failing" => run[r].cause # "cancellation"
    /\ run[r].owned /\ status[RunJob[r]] \in {"COMPLETED", "FAILED"}
       => run[r].cause \notin {"none", "cancellation"}

\* "The request is persisted before terminal cancellation is finalized"
\* (job-runner.ts:174), unless the store refused to persist it, and no request
\* is "behind a completed job" (job-runner.ts:562), a failed or cancelled one.
RequestPrecedesCancelled ==
  \A i \in DOMAIN events :
    LET behind == {k \in (i + 1)..Len(events) : events[k].job = events[i].job}
        before == {k \in 1..(i - 1) : events[k].job = events[i].job} IN
    /\ events[i].type = "cancelled" =>
         \/ \E k \in before : events[k].type = "cancellation_requested"
         \/ \E r \in Owners : /\ RunJob[r] = events[i].job
                             /\ run[r].owned /\ run[r].request = "failed"
    /\ events[i].type \in {"done", "error", "cancelled"} =>
         \A k \in behind : events[k].type # "cancellation_requested"

\* Resources are drained exactly once and before the terminal transition the
\* run writes, on the success path and the catch path, and a job whose
\* drains failed is not COMPLETED.
DrainedBeforeEnd ==
  \A r \in Owners :
    /\ run[r].drains <= 1
    /\ run[r].owned /\ status[RunJob[r]] \in {"COMPLETED", "FAILED", "CANCELLED"}
       => run[r].drained # "no"
    /\ run[r].owned /\ status[RunJob[r]] = "COMPLETED" => run[r].drained = "ok"

\* The caller of run() and the reader of the row agree: run() resolves only
\* for a job that is COMPLETED, and a job is COMPLETED only by a run that
\* resolved.
ResolvedIffCompleted ==
  \A j \in Jobs :
    status[j] = "COMPLETED" <=> \E r \in Owners : RunJob[r] = j /\ run[r].pc = "resolved"

\* "make overlapping runs impossible" (CHANGELOG.md:373): no two runs of
\* exclusive rows of one name have their pipelines in progress together,
\* unless an operator called setAbandoned, which logs no event.  A run whose
\* row the reconciler abandoned keeps executing, so they can.
OperatorAbandoned(j) ==
  /\ status[j] = "ABANDONED"
  /\ \A i \in DOMAIN events : events[i] # [job |-> j, type |-> "abandoned"]

NoOverlap ==
  \A q, r \in Owners :
    /\ q # r /\ JobName[RunJob[q]] = JobName[RunJob[r]]
    /\ \A j \in {RunJob[q], RunJob[r]} : exclusive[j] /\ ~OperatorAbandoned(j)
    => ~\A p \in {q, r} : run[p].pc \in {"running", "appending", "beating"}

\* run() always settles: neither the wait for a heartbeat in flight, nor the
\* wait for the request event, nor a claim that failed can hang it.
RunReturns ==
  \A r \in Owners :
    run[r].pc = "claiming" ~> run[r].pc \in {"resolved", "rejected", "crashed"}

\* A heartbeat-enabled row whose process died is not RUNNING for ever: if the
\* clock can pass its last heartbeat by StaleAfter the reconciler ends it,
\* unless an operator moves that heartbeat on.
Orphaned(r) ==
  /\ run[r].pc = "crashed" /\ run[r].owned
  /\ hbEnabled[RunJob[r]]
  /\ hbAt[RunJob[r]] < StoredTime(MaxTime - StaleAfter)

OrphanRecovered ==
  \A r \in Owners : Orphaned(r) ~> (status[RunJob[r]] \in Terminal \/ ~Orphaned(r))
=============================================================================
