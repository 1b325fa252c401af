--------------------------- MODULE JobRunnerProofs --------------------------
(***************************************************************************)
(* Proofs about the runner, for any sets of jobs, runs and processes.      *)
(*                                                                         *)
(* First, every step of the runner is a step of the store or leaves it     *)
(* alone, so what JobStoreProofs proves of the store holds of the rows the *)
(* runner works on.  Then its own invariants, which relate what a run      *)
(* remembers to the row it claimed.                                        *)
(***************************************************************************)
EXTENDS JobRunner, JobStoreProofs

\* The initial runs are well typed, and so is the idle reconciler.
LEMMA InitRunType == Init => StoreTypeOK /\ RunTypeOK
<1> SUFFICES ASSUME Init
             PROVE  StoreTypeOK /\ RunTypeOK
  OBVIOUS
<1>1. StoreTypeOK /\ now = 0
  BY InitType DEF Init, StoreInit
<1>2. NewRun \in RunState
  BY RunnerBoundsAssumption
  DEF NewRun, RunState, Pc, Working, Cause, Request, Beat
<1>3. run \in [Owners -> RunState]
  BY <1>2 DEF Init
<1>4. \A r \in Owners : run[r] = NewRun
  BY DEF Init
<1>5. faults \in 0..MaxFaults /\ scan \in [cutoff: 0..now, todo: SUBSET (Jobs \X MaybeOwner)]
  BY <1>1, RunnerBoundsAssumption DEF Init
<1>6. QED
  BY <1>1, <1>3, <1>4, <1>5 DEF RunTypeOK, NewRun

-----------------------------------------------------------------------------
(* The runner drives the store through its methods only.                   *)

\* A step of a run calls at most one method of the store.
LEMMA RunStoreStep ==
  ASSUME NEW r \in Owners, RunStep(r)
  PROVE  [StoreNext]_storeVars
<1> USE RunsAssumption
<1>1. RunJob[r] \in Jobs /\ r \in MaybeOwner /\ HeartbeatOf[r] \in HeartbeatOption
  BY DEF MaybeOwner, HeartbeatOption
<1>2. ASSUME NEW j \in Jobs, SetRunning(j, r, HeartbeatOf[r])
      PROVE  StoreNext
  BY <1>1, <1>2 DEF StoreNext, StoreStep
<1>3. ASSUME NEW j \in Jobs, Heartbeat(j, r) \/ EnableHeartbeat(j, r)
      PROVE  StoreNext
  BY <1>1, <1>3 DEF StoreNext, StoreStep
<1>4. ASSUME NEW j \in Jobs, NEW s \in Terminal, FinalizeJob(j, r, s)
      PROVE  StoreNext
  BY <1>1, <1>4 DEF StoreNext, StoreStep
<1>5. ASSUME NEW j \in Jobs, NEW type \in LogEvent, AppendEvent(j, type)
      PROVE  StoreNext
  BY <1>5 DEF StoreNext, StoreStep
<1>6. CASE Claim(r)
  BY <1>1, <1>2, <1>6 DEF Claim, StoreThrows
<1>7. CASE AppendYield(r) \/ LogRequest(r)
  BY <1>1, <1>5, <1>7 DEF AppendYield, LogRequest, StoreThrows, LogEvent
<1>8. CASE Complete(r) \/ Persist(r)
  BY <1>1, <1>4, <1>8 DEF Complete, Persist, StoreThrows, Terminal
<1>9. CASE ManualBeat(r) \/ ManualRefresh(r) \/ BeatLands(r) \/ BeatTimesOut(r) \/ LateBeat(r)
  BY <1>1, <1>3, <1>9 DEF ManualBeat, ManualRefresh, BeatLands, BeatTimesOut, LateBeat, StoreThrows
<1>10. CASE UNCHANGED storeVars
  BY <1>10
<1>11. QED
  BY <1>6, <1>7, <1>8, <1>9, <1>10
  DEF RunStep, Continue, PipelineSettles, BeatSettles, StartRun, Yield, PipelineThrows,
      PipelineEnds, Drain, Decide, Settle, AwaitRequest, Cancel, CallerAbort, BeatFires

\* Every step does: the reconciler abandons by a cutoff in the past.
LEMMA NextStoreStep ==
  ASSUME StoreTypeOK, RunTypeOK, [Next]_vars
  PROVE  [StoreNext]_storeVars
<1>1. ASSUME NEW r \in Owners, RunStep(r)
      PROVE  [StoreNext]_storeVars
  BY <1>1, RunStoreStep
<1>2. ASSUME NEW job \in scan.todo, ReconcileOne(job)
      PROVE  [StoreNext]_storeVars
  <2>1. job \in Jobs \X MaybeOwner /\ scan.cutoff \in 0..now
    BY DEF RunTypeOK
  <2>2. job[1] \in Jobs /\ job[2] \in MaybeOwner
    BY <2>1
  <2>3. CASE FinalizeAbandonedIfStale(job[1], scan.cutoff, job[2])
    BY <2>1, <2>2, <2>3 DEF StoreNext, StoreStep
  <2>4. QED
    BY <1>2, <2>3 DEF ReconcileOne
<1>3. CASE HostStep
  BY <1>3 DEF HostStep, StoreNext, StoreStep, MaybeOwner
<1>4. CASE Tick
  BY <1>4 DEF StoreNext, StoreStep
<1>5. CASE UNCHANGED storeVars
  BY <1>5
<1>6. QED
  BY <1>1, <1>2, <1>3, <1>4, <1>5
  DEF Next, Reconcile, ReconcileList, ReconcileThrows, StoreThrows, Crash, vars

-----------------------------------------------------------------------------
(* Type correctness of the runs.                                           *)

\* Writing one field of the record keeps its type; the record is large, so
\* each field is a step of its own.
LEMMA FieldTypes ==
  ASSUME NEW x \in RunState
  PROVE  /\ \A v \in Pc : [x EXCEPT !.pc = v] \in RunState
         /\ \A v \in Cause : [x EXCEPT !.cause = v] \in RunState
         /\ \A v \in BOOLEAN : [x EXCEPT !.aborted = v] \in RunState
         /\ \A v \in BOOLEAN : [x EXCEPT !.owned = v] \in RunState
         /\ \A v \in Request : [x EXCEPT !.request = v] \in RunState
         /\ \A v \in BOOLEAN : [x EXCEPT !.optedIn = v] \in RunState
         /\ \A v \in BOOLEAN : [x EXCEPT !.accepted = v] \in RunState
         /\ \A v \in Beat : [x EXCEPT !.beat = v] \in RunState
         /\ \A v \in BOOLEAN : [x EXCEPT !.late = v] \in RunState
         /\ \A v \in {"ok", "bad"} : [x EXCEPT !.drained = v] \in RunState
         /\ \A v \in 0..2 : [x EXCEPT !.drains = v] \in RunState
         /\ \A v \in 0..MaxYields : [x EXCEPT !.yields = v] \in RunState
<1> USE DEF RunState
<1>1. \A v \in Pc : [x EXCEPT !.pc = v] \in RunState
  OBVIOUS
<1>2. \A v \in Cause : [x EXCEPT !.cause = v] \in RunState
  OBVIOUS
<1>3. \A v \in BOOLEAN : [x EXCEPT !.aborted = v] \in RunState
  OBVIOUS
<1>4. \A v \in BOOLEAN : [x EXCEPT !.owned = v] \in RunState
  OBVIOUS
<1>5. \A v \in Request : [x EXCEPT !.request = v] \in RunState
  OBVIOUS
<1>6. \A v \in BOOLEAN : [x EXCEPT !.optedIn = v] \in RunState
  OBVIOUS
<1>7. \A v \in BOOLEAN : [x EXCEPT !.accepted = v] \in RunState
  OBVIOUS
<1>8. \A v \in Beat : [x EXCEPT !.beat = v] \in RunState
  OBVIOUS
<1>9. \A v \in BOOLEAN : [x EXCEPT !.late = v] \in RunState
  OBVIOUS
<1>10. \A v \in {"ok", "bad"} : [x EXCEPT !.drained = v] \in RunState
  OBVIOUS
<1>11. \A v \in 0..2 : [x EXCEPT !.drains = v] \in RunState
  OBVIOUS
<1>12. \A v \in 0..MaxYields : [x EXCEPT !.yields = v] \in RunState
  OBVIOUS
<1> HIDE DEF RunState
<1>13. QED
  BY <1>1, <1>2, <1>3, <1>4, <1>5, <1>6, <1>7, <1>8, <1>9, <1>10, <1>11, <1>12

\* So do the updates several steps share.
LEMMA SharedUpdateTypes ==
  ASSUME NEW x \in RunState
  PROVE  /\ Caught(x) \in RunState
         /\ Stopped(x) \in RunState
         /\ FailBeat(x) \in RunState
         /\ BeatFailed(x) \in RunState
         /\ ManualBeatFailed(x) \in RunState
         /\ Requested(x) \in Request
<1>1. x.cause \in Cause /\ x.beat \in Beat /\ x.request \in Request
  BY DEF RunState
<1>2. "unwinding" \in Pc /\ "heartbeat" \in Cause /\ "off" \in Beat
  BY DEF Pc, Working, Cause, Beat
<1>3. Caught(x) \in RunState
  <2> DEFINE c == IF x.cause # "none" THEN x.cause
                  ELSE IF x.aborted THEN "cancellation" ELSE "pipeline"
             y == [x EXCEPT !.pc = "unwinding"]
  <2>1. c \in Cause
    BY <1>1 DEF Cause
  <2>2. y \in RunState
    BY <1>2, FieldTypes
  <2>3. Caught(x) = [y EXCEPT !.cause = c]
    BY DEF Caught
  <2> HIDE DEF c, y
  <2>4. QED
    BY <2>1, <2>2, <2>3, FieldTypes
<1>4. \A y \in RunState : Stopped(y) \in RunState
  <2> SUFFICES ASSUME NEW y \in RunState
               PROVE  Stopped(y) \in RunState
    OBVIOUS
  <2> DEFINE b == CASE y.beat = "armed" -> "off"
                    [] y.beat = "inflight" -> "stopping"
                    [] OTHER -> y.beat
  <2>1. b \in Beat
    BY DEF RunState, Beat
  <2>2. Stopped(y) = [y EXCEPT !.beat = b]
    BY DEF Stopped
  <2> HIDE DEF b
  <2>3. QED
    BY <2>1, <2>2, FieldTypes
<1>5. FailBeat(x) \in RunState
  <2> DEFINE y == [x EXCEPT !.cause = "heartbeat"]
  <2>1. y \in RunState
    BY <1>2, FieldTypes
  <2>2. FailBeat(x) \in {x, [y EXCEPT !.aborted = TRUE]}
    BY DEF FailBeat
  <2> HIDE DEF y
  <2>3. QED
    BY <2>1, <2>2, FieldTypes
<1>6. Requested(x) \in Request
  BY <1>1 DEF Requested, Request
<1>7. QED
  BY <1>2, <1>3, <1>4, <1>5, <1>6, FieldTypes DEF BeatFailed, ManualBeatFailed

\* Every step of a run leaves it well typed.
LEMMA StepType ==
  ASSUME RunTypeOK, NEW r \in Owners, RunStep(r)
  PROVE  \E s \in RunState : Set(r, s)
<1> DEFINE x == run[r]
<1>1. x \in RunState
  BY DEF RunTypeOK
<1>2. /\ Caught(x) \in RunState /\ BeatFailed(x) \in RunState /\ Stopped(x) \in RunState
      /\ ManualBeatFailed(x) \in RunState /\ Requested(x) \in Request
  BY <1>1, SharedUpdateTypes
<1>3. /\ x.yields \in 0..MaxYields /\ x.drains \in 0..2 /\ x.cause \in Cause /\ x.beat \in Beat
      /\ x.drained = "no" => x.drains = 0
  BY <1>1 DEF RunState, RunTypeOK
<1>4. \A v \in Pc : [x EXCEPT !.pc = v] \in RunState
  BY <1>1, FieldTypes
<1> USE DEF Pc, Working, Cause, Request, Beat
<1>5. CASE StartRun(r)
  <2> PICK aborted \in BOOLEAN :
        Set(r, [x EXCEPT !.pc = "claiming", !.aborted = aborted,
                         !.optedIn = HeartbeatOf[r] = "on",
                         !.cause = IF aborted THEN "cancellation" ELSE "none"])
    BY <1>5 DEF StartRun
  <2> DEFINE y1 == [x EXCEPT !.pc = "claiming"]
             y2 == [y1 EXCEPT !.aborted = aborted]
             y3 == [y2 EXCEPT !.optedIn = HeartbeatOf[r] = "on"]
             y4 == [y3 EXCEPT !.cause = IF aborted THEN "cancellation" ELSE "none"]
  <2>1. y1 \in RunState
    BY <1>4
  <2>2. y2 \in RunState
    BY <2>1, FieldTypes
  <2>3. y3 \in RunState
    BY <2>2, FieldTypes
  <2>4. y4 \in RunState
    BY <2>3, FieldTypes
  <2>5. QED
    BY <2>4
<1>6. CASE Claim(r)
  <2> DEFINE y1 == [x EXCEPT !.pc = "running"]
             y2 == [y1 EXCEPT !.owned = TRUE]
             y3 == [y2 EXCEPT !.beat = IF HeartbeatOf[r] = "on" THEN "armed" ELSE "off"]
  <2>1. y2 \in RunState
    BY <1>4, FieldTypes
  <2>2. y3 \in RunState
    BY <2>1, FieldTypes
  <2>3. Set(r, y3) \/ Set(r, Caught(x))
    BY <1>6 DEF Claim
  <2>4. QED
    BY <1>2, <2>2, <2>3
<1>7. CASE Yield(r)
  <2> DEFINE y == [x EXCEPT !.pc = "appending"]
  <2>1. y \in RunState
    BY <1>4
  <2>2. Set(r, [y EXCEPT !.yields = x.yields + 1]) /\ x.yields + 1 \in 0..MaxYields
    BY <1>3, <1>7, RunnerBoundsAssumption DEF Yield
  <2> HIDE DEF y
  <2>3. QED
    BY <2>1, <2>2, FieldTypes
<1>8. CASE AppendYield(r) \/ PipelineSettles(r)
  <2>1. \/ Set(r, Caught(x)) \/ Set(r, [x EXCEPT !.pc = "running"])
        \/ Set(r, [x EXCEPT !.pc = "draining"])
    BY <1>8 DEF AppendYield, PipelineSettles, PipelineThrows, PipelineEnds
  <2>2. QED
    BY <1>2, <1>4, <2>1
<1>9. CASE ManualBeat(r) \/ ManualRefresh(r)
  <2> DEFINE y == [x EXCEPT !.pc = "beating"]
             m == ManualBeatFailed(x)
  <2>1. \/ Set(r, y) \/ Set(r, [y EXCEPT !.optedIn = TRUE]) \/ Set(r, m)
        \/ Set(r, [x EXCEPT !.pc = "running"]) \/ Set(r, [m EXCEPT !.pc = "running"])
        \/ \E late \in {x.late, TRUE} : Set(r, [m EXCEPT !.pc = "running", !.late = late])
    BY <1>9 DEF ManualBeat, ManualRefresh
  <2>2. y \in RunState /\ m \in RunState /\ [x EXCEPT !.pc = "running"] \in RunState
    BY <1>2, <1>4
  <2> HIDE DEF y, m
  <2>3. [y EXCEPT !.optedIn = TRUE] \in RunState /\ [m EXCEPT !.pc = "running"] \in RunState
    BY <2>2, FieldTypes
  <2>4. ASSUME NEW late \in {x.late, TRUE}
        PROVE  [m EXCEPT !.pc = "running", !.late = late] \in RunState
    <3> DEFINE z == [m EXCEPT !.pc = "running"]
    <3>1. z \in RunState /\ late \in BOOLEAN
      <4>1. x.late \in BOOLEAN
        BY <1>1 DEF RunState
      <4>2. QED
        BY <2>3, <4>1
    <3>2. [m EXCEPT !.pc = "running", !.late = late] = [z EXCEPT !.late = late]
      BY <2>2 DEF RunState
    <3> HIDE DEF z
    <3> QED
      BY <3>1, <3>2, FieldTypes
  <2>5. QED
    BY <2>1, <2>2, <2>3, <2>4
<1>10. CASE Drain(r)
  <2> PICK next \in {"quiescing", "settling"} : \E s \in DrainOnce(x, next) : Set(r, s)
    BY <1>10 DEF Drain
  <2> PICK s \in DrainOnce(x, next) : Set(r, s)
    OBVIOUS
  <2>1. CASE x.drained # "no"
    <3>1. s = [Stopped(x) EXCEPT !.pc = next]
      BY <2>1 DEF DrainOnce
    <3>2. QED
      BY <1>2, <3>1, FieldTypes
  <2>2. CASE x.drained = "no"
    <3>1. PICK d \in {"ok", "bad"} :
            s = [Stopped([x EXCEPT !.drained = d, !.drains = x.drains + 1]) EXCEPT !.pc = next]
      BY <2>2 DEF DrainOnce, Drained
    <3> DEFINE y == [x EXCEPT !.drained = d]
               z == [y EXCEPT !.drains = x.drains + 1]
    <3>2. y \in RunState
      BY <1>1, FieldTypes
    <3>3. x.drains + 1 \in 0..2
      BY <1>3, <2>2
    <3>4. z \in RunState
      BY <3>2, <3>3, FieldTypes
    <3>5. Stopped(z) \in RunState /\ s = [Stopped(z) EXCEPT !.pc = next]
      BY <3>1, <3>4, SharedUpdateTypes
    <3>6. QED
      BY <3>5, FieldTypes
  <2>3. QED
    BY <2>1, <2>2
<1>11. CASE Decide(r)
  <2> DEFINE y == [x EXCEPT !.pc = "completing"]
  <2>1. Set(r, Caught(x)) \/ Set(r, [y EXCEPT !.cause = "completion"])
    BY <1>11 DEF Decide
  <2>2. [y EXCEPT !.cause = "completion"] \in RunState
    BY <1>4, FieldTypes
  <2>3. QED
    BY <1>2, <2>1, <2>2
<1>12. CASE Complete(r) \/ AwaitRequest(r) \/ Persist(r)
  <2>1. \/ Set(r, Caught(x))
        \/ \E v \in Pc : Set(r, [x EXCEPT !.pc = v])
    BY <1>12 DEF Complete, Preempted, AwaitRequest, Persist
  <2>2. QED
    BY <1>2, <1>4, <2>1
<1>13. CASE Settle(r)
  <2> DEFINE y == [x EXCEPT !.pc = "requesting"]
  <2>1. \/ \E v \in Pc : Set(r, [x EXCEPT !.pc = v])
        \/ Set(r, [y EXCEPT !.request = Requested(x)])
    BY <1>13 DEF Settle
  <2>2. [y EXCEPT !.request = Requested(x)] \in RunState
    BY <1>2, <1>4, FieldTypes
  <2>3. QED
    BY <1>4, <2>1, <2>2
<1>14. CASE Cancel(r)
  <2> DEFINE c == IF x.cause = "none" THEN "cancellation" ELSE x.cause
             y1 == [x EXCEPT !.cause = c]
             y2 == [y1 EXCEPT !.request = Requested(x)]
             y3 == [y2 EXCEPT !.aborted = TRUE]
  <2>1. y1 \in RunState
    BY <1>1, <1>3, FieldTypes
  <2>2. y2 \in RunState
    BY <1>2, <2>1, FieldTypes
  <2>3. y3 \in RunState
    BY <2>2, FieldTypes
  <2>4. [y3 EXCEPT !.accepted = TRUE] \in RunState
    BY <2>3, FieldTypes
  <2>5. QED
    BY <1>14, <2>4 DEF Cancel, CancelRequested
<1>15. CASE CallerAbort(r)
  <2> DEFINE c == IF x.cause = "none" THEN "cancellation" ELSE x.cause
             y == [x EXCEPT !.aborted = TRUE]
  <2>1. y \in RunState
    BY <1>1, FieldTypes
  <2>2. [y EXCEPT !.cause = c] \in RunState
    BY <1>3, <2>1, FieldTypes
  <2>3. Set(r, [y EXCEPT !.cause = c])
    BY <1>1, <1>15 DEF CallerAbort, RunState
  <2>4. QED
    BY <2>2, <2>3
<1>16. CASE LogRequest(r)
  <2>1. \E v \in Request : Set(r, [x EXCEPT !.request = v])
    BY <1>16 DEF LogRequest
  <2>2. QED
    BY <1>1, <2>1, FieldTypes
<1>17. CASE BeatFires(r) \/ BeatSettles(r) \/ LateBeat(r)
  <2> DEFINE m == BeatFailed(x)
  <2>1. \/ \E v \in Beat : Set(r, [x EXCEPT !.beat = v])
        \/ Set(r, m) \/ Set(r, [m EXCEPT !.late = TRUE]) \/ Set(r, [x EXCEPT !.late = FALSE])
    BY <1>17 DEF BeatFires, BeatSettles, BeatLands, BeatTimesOut, LateBeat
  <2> HIDE DEF m
  <2>2. m \in RunState
    BY <1>2 DEF m
  <2>3. QED
    BY <1>1, <2>1, <2>2, FieldTypes
<1>18. QED
  BY <1>5, <1>6, <1>7, <1>8, <1>9, <1>10, <1>11, <1>12, <1>13, <1>14, <1>15, <1>16, <1>17
  DEF RunStep, Continue

\* The drains ran if and only if they are memoised, and the catch path knows
\* why it is there.
CaughtPc == {"unwinding", "settling", "requesting", "cancelling", "failing", "rejected"}
Coherent(s) == /\ s.drained = "no" <=> s.drains = 0
               /\ s.pc \in CaughtPc => s.cause # "none"

\* Every step of a run leaves it coherent.
LEMMA StepCoherent ==
  ASSUME RunTypeOK, NEW r \in Owners, RunStep(r)
  PROVE  \E s : Coherent(s) /\ Set(r, s)
<1> DEFINE x == run[r]
<1>1. x \in RunState /\ Coherent(x)
  BY DEF RunTypeOK, Coherent, CaughtPc
<1>2. Coherent(Caught(x))
  BY <1>1 DEF RunState, Coherent, CaughtPc, Caught
<1>3. /\ Coherent(FailBeat(x)) /\ Coherent(BeatFailed(x)) /\ Coherent(ManualBeatFailed(x))
  BY <1>1 DEF RunState, Coherent, CaughtPc, FailBeat, BeatFailed, ManualBeatFailed, Stopped
<1>4. x.pc \in CaughtPc => \A v \in CaughtPc : Coherent([x EXCEPT !.pc = v])
  BY <1>1 DEF RunState, Coherent, CaughtPc
<1>5. \A v \in Pc \ CaughtPc : Coherent([x EXCEPT !.pc = v])
  BY <1>1 DEF RunState, Coherent, CaughtPc
<1>6. {"running", "appending", "beating", "draining", "completing", "resolved"} \subseteq Pc \ CaughtPc
  BY DEF Pc, Working, CaughtPc
<1>7. CASE StartRun(r)
  <2>1. \A a \in BOOLEAN, c \in Cause :
          Coherent([x EXCEPT !.pc = "claiming", !.aborted = a,
                             !.optedIn = HeartbeatOf[r] = "on", !.cause = c])
    BY <1>1 DEF RunState, Coherent, CaughtPc
  <2>2. QED
    BY <1>7, <2>1 DEF StartRun, Cause
<1>8. CASE Claim(r)
  <2>1. \A b : Coherent([x EXCEPT !.pc = "running", !.owned = TRUE, !.beat = b])
    BY <1>1 DEF RunState, Coherent, CaughtPc
  <2>2. QED
    BY <1>2, <1>8, <2>1 DEF Claim
<1>9. CASE Yield(r)
  <2>1. Coherent([x EXCEPT !.pc = "appending", !.yields = x.yields + 1])
    BY <1>1 DEF RunState, Coherent, CaughtPc
  <2>2. QED
    BY <1>9, <2>1 DEF Yield
<1>10. CASE AppendYield(r) \/ PipelineSettles(r)
  <2>1. \/ Set(r, Caught(x)) \/ Set(r, [x EXCEPT !.pc = "running"])
        \/ Set(r, [x EXCEPT !.pc = "draining"])
    BY <1>10 DEF AppendYield, PipelineSettles, PipelineThrows, PipelineEnds
  <2>2. QED
    BY <1>2, <1>5, <1>6, <2>1
<1>11. CASE ManualBeat(r) \/ ManualRefresh(r)
  <2>1. \/ Set(r, [x EXCEPT !.pc = "beating"])
        \/ Set(r, [x EXCEPT !.pc = "beating", !.optedIn = TRUE])
        \/ Set(r, ManualBeatFailed(x))
        \/ Set(r, [x EXCEPT !.pc = "running"])
        \/ Set(r, [ManualBeatFailed(x) EXCEPT !.pc = "running"])
        \/ \E late \in {x.late, TRUE} :
             Set(r, [ManualBeatFailed(x) EXCEPT !.pc = "running", !.late = late])
    BY <1>11 DEF ManualBeat, ManualRefresh
  <2>2. Coherent([x EXCEPT !.pc = "beating", !.optedIn = TRUE])
    BY <1>1 DEF RunState, Coherent, CaughtPc
  <2>3. /\ Coherent([ManualBeatFailed(x) EXCEPT !.pc = "running"])
        /\ \A late : Coherent([ManualBeatFailed(x) EXCEPT !.pc = "running", !.late = late])
    <3>1. \A m \in RunState : Coherent(m) =>
            /\ Coherent([m EXCEPT !.pc = "running"])
            /\ \A late : Coherent([m EXCEPT !.pc = "running", !.late = late])
      BY DEF RunState, Coherent, CaughtPc
    <3>2. QED
      BY <1>1, <1>3, <3>1, SharedUpdateTypes
  <2>4. QED
    BY <1>3, <1>5, <1>6, <2>1, <2>2, <2>3
<1>12. CASE Drain(r)
  <2>1. x.pc = "draining" \/ x.cause # "none"
    BY <1>1, <1>12 DEF Drain, Coherent, CaughtPc
  <2> PICK next \in {"quiescing", "settling"} :
        /\ \E s \in DrainOnce(x, next) : Set(r, s)
        /\ next = "settling" => x.cause # "none"
    BY <1>12, <2>1 DEF Drain
  <2> PICK s \in DrainOnce(x, next) : Set(r, s)
    OBVIOUS
  <2>2. CASE x.drained # "no"
    <3>1. Coherent([Stopped(x) EXCEPT !.pc = next])
      BY <1>1, <2>2 DEF RunState, Coherent, CaughtPc, Stopped
    <3>2. QED
      BY <2>2, <3>1 DEF DrainOnce
  <2>3. CASE x.drained = "no"
    <3>1. PICK d \in {"ok", "bad"} :
            s = [Stopped([x EXCEPT !.drained = d, !.drains = x.drains + 1]) EXCEPT !.pc = next]
      BY <2>3 DEF DrainOnce, Drained
    <3>2. Coherent(s)
      BY <1>1, <2>3, <3>1 DEF RunState, Coherent, CaughtPc, Stopped
    <3>3. QED
      BY <3>2
  <2>4. QED
    BY <2>2, <2>3
<1>13. CASE Decide(r)
  <2>1. Coherent([x EXCEPT !.pc = "completing", !.cause = "completion"])
    BY <1>1 DEF RunState, Coherent, CaughtPc
  <2>2. QED
    BY <1>2, <1>13, <2>1 DEF Decide
<1>14. CASE Complete(r)
  BY <1>2, <1>5, <1>6, <1>14 DEF Complete, Preempted
<1>15. CASE AwaitRequest(r) \/ Persist(r)
  <2>1. x.pc \in CaughtPc /\ \E v \in {"cancelling", "rejected"} : Set(r, [x EXCEPT !.pc = v])
    BY <1>15 DEF AwaitRequest, Persist, CaughtPc
  <2>2. QED
    BY <1>4, <2>1 DEF CaughtPc
<1>16. CASE Settle(r)
  <2>1. x.pc \in CaughtPc
    BY <1>16 DEF Settle, CaughtPc
  <2>2. \A q : Coherent([x EXCEPT !.pc = "requesting", !.request = q])
    BY <1>1, <2>1 DEF RunState, Coherent, CaughtPc
  <2>3. "rejected" \in CaughtPc /\ "failing" \in CaughtPc
    BY DEF CaughtPc
  <2>4. QED
    BY <1>4, <1>16, <2>1, <2>2, <2>3 DEF Settle
<1>17. CASE Cancel(r)
  <2>1. Coherent(CancelRequested(x))
    BY <1>1 DEF RunState, Coherent, CaughtPc, CancelRequested
  <2>2. QED
    BY <1>17, <2>1 DEF Cancel
<1>18. CASE CallerAbort(r)
  <2> DEFINE c == IF x.cause = "none" THEN "cancellation" ELSE x.cause
  <2>1. Set(r, [x EXCEPT !.aborted = TRUE, !.cause = c])
    BY <1>1, <1>18 DEF CallerAbort, RunState
  <2>2. Coherent([x EXCEPT !.aborted = TRUE, !.cause = c])
    BY <1>1 DEF RunState, Coherent, CaughtPc
  <2>3. QED
    BY <2>1, <2>2
<1>19. CASE LogRequest(r)
  <2>1. \A q : Coherent([x EXCEPT !.request = q])
    BY <1>1 DEF RunState, Coherent, CaughtPc
  <2>2. QED
    BY <1>19, <2>1 DEF LogRequest
<1>20. CASE BeatFires(r) \/ BeatSettles(r) \/ LateBeat(r)
  <2>1. \A b : /\ Coherent([x EXCEPT !.beat = b])
               /\ Coherent([x EXCEPT !.late = b])
    BY <1>1 DEF RunState, Coherent, CaughtPc
  <2>2. Coherent([BeatFailed(x) EXCEPT !.late = TRUE])
    <3>1. \A m \in RunState : Coherent(m) => Coherent([m EXCEPT !.late = TRUE])
      BY DEF RunState, Coherent, CaughtPc
    <3>2. QED
      BY <1>1, <1>3, <3>1, SharedUpdateTypes
  <2>3. QED
    BY <1>3, <1>20, <2>1, <2>2 DEF BeatFires, BeatSettles, BeatLands, BeatTimesOut, LateBeat
<1>21. QED
  BY <1>7, <1>8, <1>9, <1>10, <1>11, <1>12, <1>13, <1>14, <1>15, <1>16, <1>17, <1>18, <1>19, <1>20
  DEF RunStep, Continue

\* Every step of the specification keeps the runs well typed.
LEMMA NextRunType ==
  ASSUME StoreTypeOK, StoreTypeOK', RunTypeOK, [Next]_vars
  PROVE  RunTypeOK'
<1>1. now \in Nat /\ now' \in Nat /\ now <= now'
  <2>1. now \in Nat /\ now' \in Nat
    BY TimeAssumption DEF StoreTypeOK, Ticks
  <2>2. [StoreNext]_storeVars
    BY NextStoreStep
  <2>3. now' = now \/ now' = now + 1
    BY <2>2
    DEF StoreNext, StoreStep, storeVars, columns, heartbeatColumns, CreateJob, AcquireExclusive,
        SetRunning, SetAbandoned, SetTerminal, FinalizeJob, SetAbandonedIfStale,
        FinalizeAbandonedIfStale, Heartbeat, EnableHeartbeat, AppendEvent, Tick
  <2>4. QED
    BY <2>1, <2>3
<1>2. run' \in [Owners -> RunState] /\ \A r \in Owners : Coherent(run'[r])
  <2>1. run \in [Owners -> RunState] /\ \A r \in Owners : Coherent(run[r])
    BY DEF RunTypeOK, Coherent, CaughtPc
  <2>2. ASSUME NEW r \in Owners, RunStep(r)
        PROVE  run' \in [Owners -> RunState] /\ \A q \in Owners : Coherent(run'[q])
    <3>1. PICK s \in RunState : Set(r, s)
      BY <2>2, StepType
    <3>2. PICK t : Coherent(t) /\ Set(r, t)
      BY <2>2, StepCoherent
    <3>3. run' = [run EXCEPT ![r] = s] /\ run' = [run EXCEPT ![r] = t]
      BY <3>1, <3>2 DEF Set
    <3>4. run'[r] = t /\ \A q \in Owners \ {r} : run'[q] = run[q]
      BY <2>1, <3>3
    <3>5. QED
      BY <2>1, <3>2, <3>3, <3>4
  <2>3. ASSUME NEW p, Crash(p)
        PROVE  run' \in [Owners -> RunState] /\ \A q \in Owners : Coherent(run'[q])
    <3>1. ASSUME NEW x \in RunState, Coherent(x)
          PROVE  /\ [x EXCEPT !.pc = "crashed", !.beat = "off", !.late = FALSE] \in RunState
                 /\ Coherent([x EXCEPT !.pc = "crashed", !.beat = "off", !.late = FALSE])
      <4> DEFINE y1 == [x EXCEPT !.pc = "crashed"]
                 y2 == [y1 EXCEPT !.beat = "off"]
      <4>1. y1 \in RunState
        BY FieldTypes DEF Pc
      <4>2. y2 \in RunState
        BY <4>1, FieldTypes DEF Beat
      <4>3. [y2 EXCEPT !.late = FALSE] \in RunState
        BY <4>2, FieldTypes
      <4>4. Coherent([x EXCEPT !.pc = "crashed", !.beat = "off", !.late = FALSE])
        BY <3>1 DEF RunState, Coherent, CaughtPc
      <4>5. QED
        BY <4>3, <4>4
    <3>2. QED
      BY <2>1, <2>3, <3>1 DEF Crash
  <2>4. CASE UNCHANGED run
    BY <2>1, <2>4
  <2>5. QED
    BY <2>2, <2>3, <2>4
    DEF Next, Reconcile, ReconcileList, ReconcileOne, ReconcileThrows, HostStep, runnerVars, vars
<1>3. faults' \in 0..MaxFaults
  <2>1. faults \in 0..MaxFaults
    BY DEF RunTypeOK
  <2>2. UNCHANGED faults \/ StoreThrows
    BY DEF Next, vars, runnerVars, Reconcile, ReconcileList, ReconcileOne, ReconcileThrows, HostStep,
           Crash, RunStep, Continue, PipelineSettles, BeatSettles, StartRun, Claim, Yield,
           AppendYield, PipelineThrows, PipelineEnds, ManualBeat, ManualRefresh, Drain, Decide,
           Complete, Settle, AwaitRequest, Persist, Cancel, CallerAbort, LogRequest, BeatFires,
           BeatLands, BeatTimesOut, LateBeat
  <2>3. QED
    BY <2>1, <2>2, RunnerBoundsAssumption DEF StoreThrows
<1>4. scan' \in [cutoff: 0..now', todo: SUBSET (Jobs \X MaybeOwner)]
  <2> USE DEF RunTypeOK
  <2>1. CASE ReconcileList
    <3>1. now' = now /\ now - StaleAfter \in 0..now
      BY <1>1, <2>1, RunnerBoundsAssumption DEF ReconcileList, storeVars
    <3>2. {<<j, owner[j]>> : j \in {j \in Jobs : ListedStale(j, StaleAfter)}}
            \in SUBSET (Jobs \X MaybeOwner)
      BY DEF StoreTypeOK
    <3>3. QED
      BY <2>1, <3>1, <3>2 DEF ReconcileList
  <2>2. ASSUME NEW job, ReconcileOne(job)
        PROVE  scan' \in [cutoff: 0..now', todo: SUBSET (Jobs \X MaybeOwner)]
    BY <1>1, <2>2 DEF ReconcileOne
  <2>3. CASE ReconcileThrows
    BY <1>1, <2>3 DEF ReconcileThrows
  <2>4. CASE UNCHANGED scan
    BY <1>1, <2>4
  <2>5. QED
    BY <2>1, <2>2, <2>3, <2>4
    DEF Next, vars, runnerVars, Reconcile, HostStep, Crash, RunStep, Continue, PipelineSettles,
        BeatSettles, StartRun, Claim, Yield, AppendYield, PipelineThrows, PipelineEnds, ManualBeat,
        ManualRefresh, Drain, Decide, Complete, Settle, AwaitRequest, Persist, Cancel, CallerAbort,
        LogRequest, BeatFires, BeatLands, BeatTimesOut, LateBeat
<1>5. QED
  BY <1>2, <1>3, <1>4 DEF RunTypeOK, Coherent, CaughtPc

\* Rows, log and runs are well typed in every reachable state.
LEMMA TypesHold == Spec => [](StoreTypeOK /\ RunTypeOK)
<1>1. StoreTypeOK /\ RunTypeOK /\ [Next]_vars => (StoreTypeOK /\ RunTypeOK)'
  BY NextStoreStep, NextType, NextRunType
<1>2. QED
  BY <1>1, InitRunType, PTL DEF Spec

\* The local state of every run, the faults and the scan are well typed.
THEOREM RunTypeCorrect == Spec => []RunTypeOK
<1>1. QED
  BY TypesHold, PTL

\* The rows the runners work on behave as the store alone does, so every
\* theorem about StoreSpec is one about the runners.
THEOREM RunnerImplementsStore == Spec => StoreSpec
<1>1. Init => StoreInit
  BY DEF Init
<1>2. StoreTypeOK /\ RunTypeOK /\ [Next]_vars => [StoreNext]_storeVars
  BY NextStoreStep
<1>3. QED
  BY <1>1, <1>2, TypesHold, PTL DEF Spec, StoreSpec

-----------------------------------------------------------------------------
(* One claim per job, and no accepted cancellation behind a completion.    *)

\* CauseDecides and ClaimHeld, as far as they speak of one run's record.
Decided(s) == /\ s.accepted => s.cause = "cancellation" /\ s.aborted
              /\ s.pc = "completing" => s.cause = "completion"
              /\ s.pc = "failing" => s.cause # "cancellation"
              /\ s.pc \in {"idle", "claiming"} => ~s.owned

\* A step from x to s forgets no cause other than cancellation, claims
\* nothing, and does not make the run idle.
Keeps(x, s) == /\ Decided(s)
               /\ x.cause \notin {"none", "cancellation"} => s.cause \notin {"none", "cancellation"}
               /\ s.owned = x.owned
               /\ s.pc # "idle"

\* Only Claim changes whether a run owns its job, and no step revises a
\* termination cause.
LEMMA StepKeeps ==
  ASSUME RunTypeOK, NEW r \in Owners, RunStep(r), ~Claim(r),
         Decided(run[r]), run[r].pc = "idle" => run[r] = NewRun
  PROVE  \E s : Keeps(run[r], s) /\ Set(r, s)
<1> DEFINE x == run[r]
<1>1. x \in RunState /\ Decided(x)
  BY DEF RunTypeOK
<1>2. x.pc \notin {"idle", "claiming"} => Keeps(x, Caught(x))
  BY <1>1 DEF RunState, Decided, Keeps, Caught
<1>3. x.pc # "idle" => /\ Keeps(x, BeatFailed(x)) /\ Keeps(x, ManualBeatFailed(x))
  BY <1>1 DEF RunState, Decided, Keeps, FailBeat, BeatFailed, ManualBeatFailed, Stopped
<1>4. x.pc \notin {"idle", "claiming"} =>
        \A v \in Pc \ {"idle", "claiming", "completing", "failing"} : Keeps(x, [x EXCEPT !.pc = v])
  BY <1>1 DEF RunState, Decided, Keeps
<1>5. {"running", "appending", "beating", "draining", "quiescing", "settling", "cancelling",
       "resolved", "rejected"} \subseteq Pc \ {"idle", "claiming", "completing", "failing"}
  BY DEF Pc, Working
<1>6. CASE StartRun(r)
  <2>1. x.pc = "idle" /\ x = NewRun
    BY <1>6 DEF StartRun
  <2>2. \A a \in BOOLEAN, c \in {"none", "cancellation"} :
          Keeps(x, [x EXCEPT !.pc = "claiming", !.aborted = a,
                             !.optedIn = HeartbeatOf[r] = "on", !.cause = c])
    BY <1>1, <2>1 DEF RunState, Decided, Keeps, NewRun
  <2>3. QED
    BY <1>6, <2>2 DEF StartRun
<1>7. CASE Yield(r)
  <2>1. x.pc = "running" => Keeps(x, [x EXCEPT !.pc = "appending", !.yields = x.yields + 1])
    BY <1>1 DEF RunState, Decided, Keeps
  <2>2. QED
    BY <1>7, <2>1 DEF Yield
<1>8. CASE AppendYield(r) \/ PipelineSettles(r)
  <2>1. x.pc \notin {"idle", "claiming"}
    BY <1>8 DEF AppendYield, PipelineSettles, PipelineThrows, PipelineEnds
  <2>2. \/ Set(r, Caught(x)) \/ Set(r, [x EXCEPT !.pc = "running"])
        \/ Set(r, [x EXCEPT !.pc = "draining"])
    BY <1>8 DEF AppendYield, PipelineSettles, PipelineThrows, PipelineEnds
  <2>3. QED
    BY <1>2, <1>4, <1>5, <2>1, <2>2
<1>9. CASE ManualBeat(r) \/ ManualRefresh(r)
  <2>1. x.pc \notin {"idle", "claiming"}
    BY <1>9 DEF ManualBeat, ManualRefresh
  <2>2. \/ Set(r, [x EXCEPT !.pc = "beating"])
        \/ Set(r, [x EXCEPT !.pc = "beating", !.optedIn = TRUE])
        \/ Set(r, ManualBeatFailed(x))
        \/ Set(r, [x EXCEPT !.pc = "running"])
        \/ Set(r, [ManualBeatFailed(x) EXCEPT !.pc = "running"])
        \/ \E late \in {x.late, TRUE} :
             Set(r, [ManualBeatFailed(x) EXCEPT !.pc = "running", !.late = late])
    BY <1>9 DEF ManualBeat, ManualRefresh
  <2>3. Keeps(x, [x EXCEPT !.pc = "beating", !.optedIn = TRUE])
    BY <1>1, <2>1 DEF RunState, Decided, Keeps
  <2>4. /\ Keeps(x, [ManualBeatFailed(x) EXCEPT !.pc = "running"])
        /\ \A late : Keeps(x, [ManualBeatFailed(x) EXCEPT !.pc = "running", !.late = late])
    <3>1. \A m \in RunState : Keeps(x, m) =>
            /\ Keeps(x, [m EXCEPT !.pc = "running"])
            /\ \A late : Keeps(x, [m EXCEPT !.pc = "running", !.late = late])
      BY DEF RunState, Decided, Keeps
    <3>2. QED
      BY <1>1, <1>3, <2>1, <3>1, SharedUpdateTypes
  <2>5. QED
    BY <1>3, <1>4, <1>5, <2>1, <2>2, <2>3, <2>4
<1>10. CASE Drain(r)
  <2> PICK next \in {"quiescing", "settling"} : \E s \in DrainOnce(x, next) : Set(r, s)
    BY <1>10 DEF Drain
  <2> PICK s \in DrainOnce(x, next) : Set(r, s)
    OBVIOUS
  <2>1. x.pc \notin {"idle", "claiming"}
    BY <1>10 DEF Drain
  <2>2. CASE x.drained # "no"
    <3>1. Keeps(x, [Stopped(x) EXCEPT !.pc = next])
      BY <1>1, <2>1 DEF RunState, Decided, Keeps, Stopped
    <3>2. QED
      BY <2>2, <3>1 DEF DrainOnce
  <2>3. CASE x.drained = "no"
    <3>1. PICK d \in {"ok", "bad"} :
            s = [Stopped([x EXCEPT !.drained = d, !.drains = x.drains + 1]) EXCEPT !.pc = next]
      BY <2>3 DEF DrainOnce, Drained
    <3>2. Keeps(x, s)
      BY <1>1, <2>1, <3>1 DEF RunState, Decided, Keeps, Stopped
    <3>3. QED
      BY <3>2
  <2>4. QED
    BY <2>2, <2>3
<1>11. CASE Decide(r)
  <2>1. /\ x.pc = "quiescing"
        /\ \/ Set(r, Caught(x))
           \/ /\ ~x.aborted
              /\ Set(r, [x EXCEPT !.pc = "completing", !.cause = "completion"])
    BY <1>11 DEF Decide, MayComplete
  <2>2. ~x.aborted => Keeps(x, [x EXCEPT !.pc = "completing", !.cause = "completion"])
    BY <1>1, <2>1 DEF RunState, Decided, Keeps
  <2>3. QED
    BY <1>2, <2>1, <2>2
<1>12. CASE Complete(r) \/ AwaitRequest(r) \/ Persist(r)
  <2>1. x.pc \notin {"idle", "claiming"}
    BY <1>12 DEF Complete, AwaitRequest, Persist
  <2>2. \/ Set(r, Caught(x))
        \/ \E v \in {"resolved", "cancelling", "rejected"} : Set(r, [x EXCEPT !.pc = v])
    BY <1>12 DEF Complete, Preempted, AwaitRequest, Persist
  <2>3. QED
    BY <1>2, <1>4, <1>5, <2>1, <2>2
<1>13. CASE Settle(r)
  <2>1. x.pc = "settling"
    BY <1>13 DEF Settle
  <2>2. \A q : Keeps(x, [x EXCEPT !.pc = "requesting", !.request = q])
    BY <1>1, <2>1 DEF RunState, Decided, Keeps
  <2>3. x.cause # "cancellation" => Keeps(x, [x EXCEPT !.pc = "failing"])
    BY <1>1, <2>1 DEF RunState, Decided, Keeps
  <2>4. QED
    BY <1>4, <1>5, <1>13, <2>1, <2>2, <2>3 DEF Settle
<1>14. CASE Cancel(r)
  <2>1. x.pc # "idle" /\ x.cause \in {"none", "cancellation"}
    BY <1>14 DEF Cancel, Inflight, Working, CanCancel
  <2>2. x.pc \notin {"completing", "failing"}
    BY <1>1, <1>14, <2>1 DEF Decided, RunTypeOK
  <2>3. Keeps(x, CancelRequested(x))
    BY <1>1, <2>1, <2>2 DEF RunState, Decided, Keeps, CancelRequested
  <2>4. QED
    BY <1>14, <2>3 DEF Cancel
<1>15. CASE CallerAbort(r)
  <2> DEFINE c == IF x.cause = "none" THEN "cancellation" ELSE x.cause
  <2>1. Set(r, [x EXCEPT !.aborted = TRUE, !.cause = c]) /\ x.pc # "idle"
    BY <1>1, <1>15 DEF CallerAbort, RunState, Inflight, Working
  <2>2. x.pc = "failing" => x.cause # "none"
    BY DEF RunTypeOK
  <2>3. Keeps(x, [x EXCEPT !.aborted = TRUE, !.cause = c])
    BY <1>1, <2>1, <2>2 DEF RunState, Decided, Keeps
  <2>4. QED
    BY <2>1, <2>3
<1>16. CASE LogRequest(r)
  <2>1. x.pc # "idle"
    BY <1>16 DEF LogRequest
  <2>2. \A q : Keeps(x, [x EXCEPT !.request = q])
    BY <1>1, <2>1 DEF RunState, Decided, Keeps
  <2>3. QED
    BY <1>16, <2>2 DEF LogRequest
<1>17. CASE BeatFires(r) \/ BeatSettles(r) \/ LateBeat(r)
  <2>1. x.beat # "off" \/ x.late
    BY <1>17 DEF BeatFires, BeatSettles, BeatLands, BeatTimesOut, LateBeat
  <2>2. x.pc # "idle"
    BY <2>1 DEF NewRun
  <2>3. \A b : Keeps(x, [x EXCEPT !.beat = b]) /\ Keeps(x, [x EXCEPT !.late = b])
    BY <1>1, <2>2 DEF RunState, Decided, Keeps
  <2>4. Keeps(x, [BeatFailed(x) EXCEPT !.late = TRUE])
    <3>1. \A m \in RunState : Keeps(x, m) => Keeps(x, [m EXCEPT !.late = TRUE])
      BY DEF RunState, Decided, Keeps
    <3>2. QED
      BY <1>1, <1>3, <2>2, <3>1, SharedUpdateTypes
  <2>5. QED
    BY <1>3, <1>17, <2>2, <2>3, <2>4 DEF BeatFires, BeatSettles, BeatLands, BeatTimesOut, LateBeat
<1>18. QED
  BY <1>6, <1>7, <1>8, <1>9, <1>10, <1>11, <1>12, <1>13, <1>14, <1>15, <1>16, <1>17
  DEF RunStep, Continue

\* The invariant both results rest on: what the runner knows of a row (the
\* claim it won, the cause it recorded) agrees with the row.
RunnerInv == StoreInv /\ RunTypeOK /\ ClaimHeld /\ CauseDecides

\* Initially nobody has claimed anything.
LEMMA InitRunnerInv == Init => RunnerInv
<1> SUFFICES ASSUME Init
             PROVE  RunnerInv
  OBVIOUS
<1>1. StoreInv /\ RunTypeOK
  BY InitInv, InitRunType DEF Init
<1>2. \A r \in Owners : run[r] = NewRun
  BY DEF Init
<1>3. QED
  BY <1>1, <1>2 DEF RunnerInv, ClaimHeld, CauseDecides, NewRun

\* A step that is not a claim leaves each run its claim, its memory of the
\* cause, and a place in run() it can have reached.
LEMMA NextKeeps ==
  ASSUME RunnerInv, [Next]_vars, \A q \in Owners : ~Claim(q), NEW r \in Owners
  PROVE  \/ run'[r] = run[r]
         \/ Keeps(run[r], run'[r])
<1>1. run \in [Owners -> RunState] /\ RunTypeOK
  BY DEF RunnerInv, RunTypeOK
<1>2. \A q \in Owners : Decided(run[q]) /\ (run[q].pc = "idle" => run[q] = NewRun)
  BY DEF RunnerInv, ClaimHeld, CauseDecides, Decided, NewRun
<1>3. ASSUME NEW q \in Owners, RunStep(q)
      PROVE  run'[r] = run[r] \/ Keeps(run[r], run'[r])
  <2>1. PICK s : Keeps(run[q], s) /\ Set(q, s)
    BY <1>1, <1>2, <1>3, StepKeeps
  <2>2. run' = [run EXCEPT ![q] = s]
    BY <2>1 DEF Set
  <2>3. QED
    BY <1>1, <2>1, <2>2
<1>4. ASSUME NEW p, Crash(p)
      PROVE  run'[r] = run[r] \/ Keeps(run[r], run'[r])
  <2>1. \A x \in RunState : Decided(x) =>
          Keeps(x, [x EXCEPT !.pc = "crashed", !.beat = "off", !.late = FALSE])
    BY DEF RunState, Decided, Keeps
  <2>2. run'[r] = run[r] \/ run'[r] = [run[r] EXCEPT !.pc = "crashed", !.beat = "off", !.late = FALSE]
    BY <1>4 DEF Crash
  <2>3. QED
    BY <1>1, <1>2, <2>1, <2>2
<1>5. CASE UNCHANGED run
  BY <1>5
<1>6. QED
  BY <1>3, <1>4, <1>5
  DEF Next, Reconcile, ReconcileList, ReconcileOne, ReconcileThrows, HostStep, runnerVars, vars

\* A row becomes COMPLETED or FAILED only through a run that owns it and has
\* recorded a cause other than cancellation.
LEMMA NextEnds ==
  ASSUME RunnerInv, [Next]_vars, NEW j \in Jobs,
         status'[j] \in {"COMPLETED", "FAILED"}
  PROVE  \/ status[j] = status'[j]
         \/ \E q \in Owners : /\ RunJob[q] = j /\ owner[j] = q
                             /\ run[q].cause \notin {"none", "cancellation"}
<1> USE DEF RunnerInv, StoreInv, StoreTypeOK
<1>1. ASSUME NEW k \in Jobs, NEW o, NEW s, FinalizeJob(k, o, s)
      PROVE  /\ \A i \in Jobs \ {k} : status'[i] = status[i]
             /\ status'[k] = s /\ OwnerMatches(k, o)
  BY <1>1 DEF FinalizeJob, CanFinish
<1>2. ASSUME NEW q \in Owners, FinalizeJob(RunJob[q], q, "COMPLETED"), run[q].pc = "completing"
      PROVE  \/ status[j] = status'[j]
             \/ RunJob[q] = j /\ owner[j] = q /\ run[q].cause \notin {"none", "cancellation"}
  BY <1>1, <1>2, RunsAssumption, OwnersAssumption DEF CauseDecides, OwnerMatches
<1>3. ASSUME NEW q \in Owners, FinalizeJob(RunJob[q], q, "FAILED"), run[q].pc = "failing"
      PROVE  \/ status[j] = status'[j]
             \/ RunJob[q] = j /\ owner[j] = q /\ run[q].cause \notin {"none", "cancellation"}
  BY <1>1, <1>3, RunsAssumption, OwnersAssumption DEF CauseDecides, OwnerMatches, RunTypeOK
<1>4. ASSUME NEW k \in Jobs, NEW o, FinalizeJob(k, o, "CANCELLED")
      PROVE  status[j] = status'[j]
  BY <1>1, <1>4
<1>5. ASSUME NEW q \in Owners, RunStep(q)
      PROVE  \/ status[j] = status'[j]
             \/ RunJob[q] = j /\ owner[j] = q /\ run[q].cause \notin {"none", "cancellation"}
  <2>1. CASE Complete(q)
    BY <1>2, <2>1 DEF Complete, StoreThrows, storeVars
  <2>2. CASE Persist(q)
    BY <1>3, <1>4, <2>2, RunsAssumption DEF Persist, StoreThrows, storeVars
  <2>3. CASE Claim(q)
    <3>1. ASSUME SetRunning(RunJob[q], q, HeartbeatOf[q])
          PROVE  status[j] = status'[j]
      BY <3>1, RunsAssumption DEF SetRunning
    <3>2. QED
      BY <2>3, <3>1 DEF Claim, StoreThrows, storeVars
  <2>4. CASE UNCHANGED status
    BY <2>4
  <2>5. QED
    BY <1>5, <2>1, <2>2, <2>3, <2>4
    DEF RunStep, Continue, PipelineSettles, BeatSettles, StartRun, Yield, AppendYield,
        PipelineThrows, PipelineEnds, ManualBeat, ManualRefresh, Drain, Decide, Settle, AwaitRequest,
        Cancel, CallerAbort, LogRequest, BeatFires, BeatLands, BeatTimesOut, LateBeat,
        Heartbeat, EnableHeartbeat, AppendEvent, StoreThrows, storeVars, columns
<1>6. ASSUME NEW k \in Jobs,
             \/ CreateJob(k) \/ AcquireExclusive(k) \/ SetAbandoned(k)
             \/ Heartbeat(k, NoOwner)
      PROVE  status[j] = status'[j]
  BY <1>6 DEF CreateJob, AcquireExclusive, SetAbandoned, Heartbeat
<1>7. ASSUME NEW job \in scan.todo, ReconcileOne(job)
      PROVE  status[j] = status'[j]
  <2>1. job[1] \in Jobs
    BY DEF RunTypeOK
  <2>2. QED
    BY <1>7, <2>1 DEF ReconcileOne, FinalizeAbandonedIfStale, storeVars
<1>8. CASE UNCHANGED status
  BY <1>8
<1>9. QED
  BY <1>5, <1>6, <1>7, <1>8
  DEF Next, Reconcile, ReconcileList, ReconcileThrows, StoreThrows, HostStep, Crash, Tick, vars,
      storeVars, columns

\* Every step preserves the invariant.
LEMMA NextRunnerInv == RunnerInv /\ [Next]_vars => RunnerInv'
<1> SUFFICES ASSUME RunnerInv, [Next]_vars
             PROVE  RunnerInv'
  OBVIOUS
<1>1. [StoreNext]_storeVars
  BY NextStoreStep DEF RunnerInv, StoreInv
<1>2. StoreInv' /\ RunTypeOK'
  BY <1>1, NextInv, NextType, NextRunType DEF RunnerInv, StoreInv
<1>3. \A j \in Jobs : owner[j] # NoOwner => owner'[j] = owner[j]
  BY <1>1, OwnerKept DEF RunnerInv
<1>4. \A r \in Owners : Decided(run[r]) /\ (run[r].pc = "idle" => run[r] = NewRun)
  BY DEF RunnerInv, ClaimHeld, CauseDecides, Decided, NewRun
<1>5. \A r \in Owners : RunJob[r] \in Jobs /\ r # NoOwner
  BY RunsAssumption, OwnersAssumption
<1>6. ASSUME NEW q \in Owners, Claim(q)
      PROVE  ClaimHeld' /\ CauseDecides'
  <2> DEFINE x == run[q]
             won == [x EXCEPT !.pc = "running", !.owned = TRUE,
                              !.beat = IF HeartbeatOf[q] = "on" THEN "armed" ELSE "off"]
  <2>1. run \in [Owners -> RunState] /\ x \in RunState /\ x.pc = "claiming" /\ ~x.owned
    BY <1>4, <1>6 DEF Claim, RunnerInv, RunTypeOK, Decided
  <2>2. CASE Set(q, Caught(x)) /\ UNCHANGED storeVars
    <3>1. LET s == Caught(x)
          IN  s.pc = "unwinding" /\ ~s.owned /\ (s.accepted => s.cause = "cancellation" /\ s.aborted)
      BY <1>4, <2>1 DEF RunState, Caught, Decided
    <3>2. run'[q] = Caught(x) /\ \A r \in Owners \ {q} : run'[r] = run[r]
      BY <2>1, <2>2 DEF Set
    <3>3. QED
      BY <2>2, <3>1, <3>2
      DEF RunnerInv, ClaimHeld, CauseDecides, storeVars, NewRun
  <2>3. CASE Set(q, won) /\ SetRunning(RunJob[q], q, HeartbeatOf[q])
    <3>1. won.pc = "running" /\ won.owned /\ (won.accepted => won.cause = "cancellation" /\ won.aborted)
      BY <1>4, <2>1 DEF RunState, Decided
    <3>2. run'[q] = won /\ \A r \in Owners \ {q} : run'[r] = run[r]
      BY <2>1, <2>3 DEF Set
    <3>3. /\ status'[RunJob[q]] = "RUNNING" /\ owner'[RunJob[q]] = q
          /\ \A j \in Jobs \ {RunJob[q]} : status'[j] = status[j] /\ owner'[j] = owner[j]
      BY <1>5, <2>3 DEF SetRunning, RunnerInv, StoreInv, StoreTypeOK
    <3> HIDE DEF won
    <3>4. ClaimHeld'
      BY <1>3, <1>5, <3>1, <3>2, <3>3 DEF RunnerInv, ClaimHeld, NewRun
    <3>5. CauseDecides'
      BY <1>5, <3>1, <3>2, <3>3 DEF RunnerInv, CauseDecides
    <3>6. QED
      BY <3>4, <3>5
  <2>4. QED
    BY <1>6, <2>2, <2>3 DEF Claim, StoreThrows
<1>7. ASSUME \A q \in Owners : ~Claim(q)
      PROVE  ClaimHeld' /\ CauseDecides'
  <2>1. \A r \in Owners : run'[r] = run[r] \/ Keeps(run[r], run'[r])
    BY <1>7, NextKeeps
  <2>2. ClaimHeld'
    BY <1>3, <1>5, <2>1 DEF RunnerInv, ClaimHeld, Keeps, Decided, NewRun
  <2>3. ASSUME NEW r \in Owners, run'[r].owned, status'[RunJob[r]] \in {"COMPLETED", "FAILED"}
        PROVE  run'[r].cause \notin {"none", "cancellation"}
    <3>1. run[r].owned
      BY <2>1, <2>3 DEF Keeps
    <3>2. owner[RunJob[r]] = r
      BY <3>1 DEF RunnerInv, ClaimHeld
    <3>3. run[r].cause \notin {"none", "cancellation"}
      BY <1>5, <2>3, <3>1, <3>2, NextEnds DEF RunnerInv, CauseDecides
    <3>4. QED
      BY <2>1, <3>3 DEF Keeps
  <2>4. CauseDecides'
    BY <2>1, <2>3 DEF RunnerInv, CauseDecides, Keeps, Decided
  <2>5. QED
    BY <2>2, <2>4
<1>8. QED
  BY <1>2, <1>6, <1>7 DEF RunnerInv

\* The invariant holds in every reachable state.
LEMMA RunnerInvHolds == Spec => []RunnerInv
<1>1. QED
  BY InitRunnerInv, NextRunnerInv, PTL DEF Spec

\* However many processes call run() with one job, one of them executes it.
THEOREM NeverExecutedTwiceHolds == Spec => []NeverExecutedTwice
<1>1. RunnerInv => NeverExecutedTwice
  BY DEF RunnerInv, ClaimHeld, NeverExecutedTwice
<1>2. QED
  BY <1>1, RunnerInvHolds, PTL

\* A run that accepted a cancel() never ends COMPLETED or FAILED.
THEOREM CancelHonouredHolds == Spec => []CancelHonoured
<1>1. RunnerInv => CancelHonoured
  BY DEF RunnerInv, CauseDecides, CancelHonoured
<1>2. QED
  BY <1>1, RunnerInvHolds, PTL

-----------------------------------------------------------------------------
(***************************************************************************)
(* How a run ends: what run() returns, what the row says, what the event   *)
(* log says and whether the resources were drained agree in every          *)
(* reachable state.                                                        *)
(***************************************************************************)

-----------------------------------------------------------------------------
(* Where a run can be, and what it must have done to get there.            *)

Ended == {"COMPLETED", "FAILED", "CANCELLED"}
Returned == {"resolved", "rejected"}

BehindDrains == {"quiescing", "completing", "settling", "requesting", "cancelling", "failing",
                 "resolved", "rejected"}
BehindClaim == {"running", "appending", "beating", "draining", "quiescing", "completing",
                "requesting", "cancelling", "failing", "resolved"}

Placed(s) ==
  /\ s.drains <= 1
  /\ s.pc \in BehindDrains => s.drained # "no"
  /\ s.pc \in {"completing", "resolved"} => s.drained = "ok"
  /\ s.pc \in BehindClaim => s.owned
  /\ s.cause = "cancellation" => s.aborted
  /\ s.request # "none" => s.cause = "cancellation"
  /\ s.pc = "cancelling" => s.request \in {"logged", "failed"}

\* A step from x to s keeps an answered request, and what a run that has
\* returned leaves behind.
Stays(x, s) ==
  /\ x.request \in {"logged", "failed"} => s.request = x.request
  /\ x.pc \in Returned => /\ s.pc = x.pc /\ s.drained = x.drained
                          /\ x.request # "waiting" => s.request = x.request

\* It neither logs a request nor resolves the run.
Quiet(x, s) == /\ s.request = "logged" => x.request = "logged"
               /\ s.pc = "resolved" => x.pc = "resolved"

Goes(x, s) == Placed(s) /\ Stays(x, s) /\ Quiet(x, s)

\* The updates several steps share.
LEMMA SharedGoes ==
  ASSUME NEW x \in RunState, Coherent(x), Placed(x)
  PROVE  /\ x.pc \notin Returned => Goes(x, Caught(x))
         /\ Goes(x, FailBeat(x))
         /\ Goes(x, Stopped(x))
         /\ Goes(x, BeatFailed(x))
         /\ Goes(x, ManualBeatFailed(x))
<1> USE DEF RunState, Placed, Stays, Quiet, Goes, Returned, BehindDrains, BehindClaim, Coherent
<1>1. x.pc \notin Returned => Goes(x, Caught(x))
  BY DEF Caught
<1>2. Goes(x, FailBeat(x))
  BY DEF FailBeat
<1>3. Goes(x, Stopped(x))
  BY DEF Stopped
<1>4. Goes(x, BeatFailed(x))
  BY DEF BeatFailed, FailBeat
<1>5. Goes(x, ManualBeatFailed(x))
  BY DEF ManualBeatFailed, FailBeat, Stopped
<1> QED BY <1>1, <1>2, <1>3, <1>4, <1>5

\* Every step of a run but the two that matter: a request that is logged and
\* a completion that is written.
LEMMA StepGoes ==
  ASSUME RunTypeOK, NEW r \in Owners, RunStep(r), Placed(run[r]),
         run[r].pc = "idle" => run[r] = NewRun
  PROVE  \E s : /\ Set(r, s) /\ Placed(s) /\ Stays(run[r], s)
                /\ Quiet(run[r], s) \/ LogRequest(r) \/ Complete(r)
<1> DEFINE x == run[r]
<1>1. x \in RunState /\ Coherent(x) /\ Placed(x)
  BY DEF RunTypeOK, Coherent, CaughtPc
<1>2. /\ x.pc \notin Returned => Goes(x, Caught(x))
      /\ Goes(x, Stopped(x)) /\ Goes(x, BeatFailed(x)) /\ Goes(x, ManualBeatFailed(x))
  BY <1>1, SharedGoes
<1>3. ASSUME \E s : Set(r, s) /\ Goes(x, s)
      PROVE  \E s : /\ Set(r, s) /\ Placed(s) /\ Stays(run[r], s)
                    /\ Quiet(run[r], s) \/ LogRequest(r) \/ Complete(r)
  BY <1>3 DEF Goes
<1> HIDE DEF x
<1>u. x = run[r]
  BY DEF x
<1>5. CASE StartRun(r)
  <2>1. x = NewRun /\ x.pc = "idle"
    BY <1>5, <1>u DEF StartRun
  <2>2. \A a \in BOOLEAN :
          Goes(x, [x EXCEPT !.pc = "claiming", !.aborted = a, !.optedIn = HeartbeatOf[r] = "on",
                            !.cause = IF a THEN "cancellation" ELSE "none"])
    BY <2>1 DEF NewRun, Goes, Placed, Stays, Quiet, Returned, BehindDrains, BehindClaim
  <2>3. QED
    BY <1>3, <1>5, <1>u, <2>2 DEF StartRun
<1>6. CASE Claim(r)
  <2>1. x.pc = "claiming"
    BY <1>6, <1>u DEF Claim
  <2>2. \A b : Goes(x, [x EXCEPT !.pc = "running", !.owned = TRUE, !.beat = b])
    BY <1>1, <2>1 DEF RunState, Goes, Placed, Stays, Quiet, Returned, BehindDrains, BehindClaim
  <2>3. QED
    BY <1>2, <1>3, <1>6, <1>u, <2>1, <2>2 DEF Claim, Returned
<1>7. CASE Yield(r)
  <2>1. x.pc = "running"
    BY <1>7, <1>u DEF Yield
  <2>2. Goes(x, [x EXCEPT !.pc = "appending", !.yields = x.yields + 1])
    BY <1>1, <2>1 DEF RunState, Goes, Placed, Stays, Quiet, Returned, BehindDrains, BehindClaim
  <2>3. QED
    BY <1>3, <1>7, <1>u, <2>2 DEF Yield
<1>8. CASE AppendYield(r) \/ PipelineSettles(r)
  <2>1. x.pc \in {"running", "appending"}
    BY <1>8, <1>u DEF AppendYield, PipelineSettles, PipelineThrows, PipelineEnds
  <2>2. \/ Set(r, Caught(x)) \/ Set(r, [x EXCEPT !.pc = "running"])
        \/ Set(r, [x EXCEPT !.pc = "draining"])
    BY <1>8, <1>u DEF AppendYield, PipelineSettles, PipelineThrows, PipelineEnds
  <2>3. Goes(x, [x EXCEPT !.pc = "running"]) /\ Goes(x, [x EXCEPT !.pc = "draining"])
    BY <1>1, <2>1 DEF RunState, Goes, Placed, Stays, Quiet, Returned, BehindDrains, BehindClaim
  <2>4. QED
    BY <1>2, <1>3, <2>1, <2>2, <2>3 DEF Returned
<1>9. CASE ManualBeat(r) \/ ManualRefresh(r)
  <2>1. x.pc \in {"running", "beating"}
    BY <1>9, <1>u DEF ManualBeat, ManualRefresh
  <2>2. \/ Set(r, [x EXCEPT !.pc = "beating"])
        \/ Set(r, [x EXCEPT !.pc = "beating", !.optedIn = TRUE])
        \/ Set(r, ManualBeatFailed(x))
        \/ Set(r, [x EXCEPT !.pc = "running"])
        \/ Set(r, [ManualBeatFailed(x) EXCEPT !.pc = "running"])
        \/ \E late \in {x.late, TRUE} :
             Set(r, [ManualBeatFailed(x) EXCEPT !.pc = "running", !.late = late])
    BY <1>9, <1>u DEF ManualBeat, ManualRefresh
  <2>3. /\ Goes(x, [x EXCEPT !.pc = "beating"]) /\ Goes(x, [x EXCEPT !.pc = "running"])
        /\ Goes(x, [x EXCEPT !.pc = "beating", !.optedIn = TRUE])
    BY <1>1, <2>1 DEF RunState, Goes, Placed, Stays, Quiet, Returned, BehindDrains, BehindClaim
  <2>4. \A m \in RunState : m.owned = x.owned /\ Goes(x, m) =>
          /\ Goes(x, [m EXCEPT !.pc = "running"])
          /\ \A late : Goes(x, [m EXCEPT !.pc = "running", !.late = late])
    BY <1>1, <2>1 DEF RunState, Goes, Placed, Stays, Quiet, Returned, BehindDrains, BehindClaim
  <2>5. ManualBeatFailed(x) \in RunState /\ ManualBeatFailed(x).owned = x.owned
    BY <1>1, SharedUpdateTypes DEF RunState, Goes, Placed, Stays, Quiet, Returned, BehindDrains, BehindClaim, ManualBeatFailed, FailBeat, Stopped
  <2>6. QED
    BY <1>2, <1>3, <2>2, <2>3, <2>4, <2>5
<1>10. CASE Drain(r)
  <2>1. x.pc \in {"draining", "unwinding"}
    BY <1>10, <1>u DEF Drain
  <2>2. PICK next \in {"quiescing", "settling"} :
          /\ \E s \in DrainOnce(x, next) : Set(r, s)
          /\ next = "quiescing" => x.pc = "draining"
    BY <1>10, <1>u DEF Drain
  <2>3. PICK s \in DrainOnce(x, next) : Set(r, s)
    BY <2>2
  <2>4. CASE x.drained # "no"
    <3>1. Goes(x, [Stopped(x) EXCEPT !.pc = next])
      BY <1>1, <2>1, <2>2, <2>4 DEF RunState, Goes, Placed, Stays, Quiet, Returned, BehindDrains, BehindClaim, Stopped
    <3>2. QED
      BY <1>3, <2>3, <2>4, <3>1 DEF DrainOnce
  <2>5. CASE x.drained = "no"
    <3>1. PICK d \in {"ok", "bad"} :
            s = [Stopped([x EXCEPT !.drained = d, !.drains = x.drains + 1]) EXCEPT !.pc = next]
      BY <2>3, <2>5 DEF DrainOnce, Drained
    <3>2. Goes(x, s)
      BY <1>1, <2>1, <2>2, <2>5, <3>1 DEF RunState, Goes, Placed, Stays, Quiet, Returned, BehindDrains, BehindClaim, Stopped, Coherent
    <3>3. QED
      BY <1>3, <2>3, <3>2
  <2>6. QED
    BY <2>4, <2>5
<1>11. CASE Decide(r)
  <2>1. /\ x.pc = "quiescing"
        /\ \/ Set(r, Caught(x))
           \/ /\ MayComplete(x)
              /\ Set(r, [x EXCEPT !.pc = "completing", !.cause = "completion"])
    BY <1>11, <1>u DEF Decide
  <2>2. MayComplete(x) => Goes(x, [x EXCEPT !.pc = "completing", !.cause = "completion"])
    BY <1>1, <2>1 DEF RunState, Goes, Placed, Stays, Quiet, Returned, BehindDrains, BehindClaim, MayComplete
  <2>3. QED
    BY <1>2, <1>3, <2>1, <2>2 DEF Returned
<1>12. CASE Complete(r)
  <2>1. x.pc = "completing"
    BY <1>12, <1>u DEF Complete
  <2>2. Placed([x EXCEPT !.pc = "resolved"]) /\ Stays(x, [x EXCEPT !.pc = "resolved"])
    BY <1>1, <2>1 DEF RunState, Goes, Placed, Stays, Quiet, Returned, BehindDrains, BehindClaim
  <2>3. Set(r, [x EXCEPT !.pc = "resolved"]) \/ Set(r, Caught(x))
    BY <1>12, <1>u DEF Complete, Preempted
  <2>4. QED
    BY <1>2, <1>3, <1>12, <1>u, <2>1, <2>2, <2>3 DEF Returned
<1>13. CASE AwaitRequest(r) \/ Persist(r)
  <2>1. /\ x.pc \in {"requesting", "cancelling", "failing"}
        /\ \/ Set(r, [x EXCEPT !.pc = "rejected"])
           \/ x.pc = "requesting" /\ RequestSettled(x) /\ Set(r, [x EXCEPT !.pc = "cancelling"])
    BY <1>13, <1>u DEF AwaitRequest, Persist
  <2>2. Goes(x, [x EXCEPT !.pc = "rejected"])
    BY <1>1, <2>1 DEF RunState, Goes, Placed, Stays, Quiet, Returned, BehindDrains, BehindClaim
  <2>3. x.pc = "requesting" /\ RequestSettled(x) => Goes(x, [x EXCEPT !.pc = "cancelling"])
    BY <1>1 DEF RunState, Goes, Placed, Stays, Quiet, Returned, BehindDrains, BehindClaim, RequestSettled
  <2>4. QED
    BY <1>3, <2>1, <2>2, <2>3
<1>14. CASE Settle(r)
  <2>1. /\ x.pc = "settling"
        /\ \/ Set(r, [x EXCEPT !.pc = "rejected"])
           \/ /\ x.owned /\ x.cause = "cancellation"
              /\ Set(r, [x EXCEPT !.pc = "requesting", !.request = Requested(x)])
           \/ x.owned /\ Set(r, [x EXCEPT !.pc = "failing"])
    BY <1>14, <1>u DEF Settle
  <2>2. /\ Goes(x, [x EXCEPT !.pc = "rejected"])
        /\ x.owned => Goes(x, [x EXCEPT !.pc = "failing"])
        /\ x.owned /\ x.cause = "cancellation"
             => Goes(x, [x EXCEPT !.pc = "requesting", !.request = Requested(x)])
    BY <1>1, <2>1 DEF RunState, Goes, Placed, Stays, Quiet, Returned, BehindDrains, BehindClaim, Requested
  <2>3. QED
    BY <1>3, <2>1, <2>2
<1>15. CASE Cancel(r)
  <2>1. x.pc \notin Returned /\ CanCancel(x) /\ Set(r, CancelRequested(x))
    BY <1>15, <1>u DEF Cancel, Inflight, Working, Returned
  <2>2. Goes(x, CancelRequested(x))
    BY <1>1, <2>1 DEF RunState, Goes, Placed, Stays, Quiet, Returned, BehindDrains, BehindClaim, CanCancel, CancelRequested, Requested
  <2>3. QED
    BY <1>3, <2>1, <2>2
<1>16. CASE CallerAbort(r)
  <2> DEFINE c == IF x.cause = "none" THEN "cancellation" ELSE x.cause
  <2>1. Set(r, [x EXCEPT !.aborted = TRUE, !.cause = c]) /\ x.pc \notin Returned
    BY <1>1, <1>16, <1>u DEF CallerAbort, RunState, Inflight, Working, Returned
  <2>2. Goes(x, [x EXCEPT !.aborted = TRUE, !.cause = c])
    BY <1>1, <2>1 DEF RunState, Goes, Placed, Stays, Quiet, Returned, BehindDrains, BehindClaim
  <2>3. QED
    BY <1>3, <2>1, <2>2
<1>17. CASE LogRequest(r)
  <2>1. /\ x.request = "waiting"
        /\ \E q \in {"logged", "failed", "void"} : Set(r, [x EXCEPT !.request = q])
    BY <1>17, <1>u DEF LogRequest
  <2>2. \A q \in {"logged", "failed", "void"} :
          Placed([x EXCEPT !.request = q]) /\ Stays(x, [x EXCEPT !.request = q])
    BY <1>1, <2>1 DEF RunState, Goes, Placed, Stays, Quiet, Returned, BehindDrains, BehindClaim
  <2>3. QED
    BY <1>17, <1>u, <2>1, <2>2
<1>18. CASE BeatFires(r) \/ BeatSettles(r) \/ LateBeat(r)
  <2>1. \A b : Goes(x, [x EXCEPT !.beat = b]) /\ Goes(x, [x EXCEPT !.late = b])
    BY <1>1 DEF RunState, Goes, Placed, Stays, Quiet, Returned, BehindDrains, BehindClaim
  <2>2. Goes(x, [BeatFailed(x) EXCEPT !.late = TRUE])
    <3>1. \A m \in RunState : Goes(x, m) => Goes(x, [m EXCEPT !.late = TRUE])
      BY <1>1 DEF RunState, Goes, Placed, Stays, Quiet, Returned, BehindDrains, BehindClaim
    <3>2. QED
      BY <1>1, <1>2, <3>1, SharedUpdateTypes
  <2>3. \/ \E b \in Beat : Set(r, [x EXCEPT !.beat = b])
        \/ Set(r, BeatFailed(x)) \/ Set(r, [BeatFailed(x) EXCEPT !.late = TRUE])
        \/ Set(r, [x EXCEPT !.late = FALSE])
    BY <1>18, <1>u DEF BeatFires, BeatSettles, BeatLands, BeatTimesOut, LateBeat, Beat
  <2>4. QED
    BY <1>2, <1>3, <2>1, <2>2, <2>3
<1>19. QED
  BY <1>5, <1>6, <1>7, <1>8, <1>9, <1>10, <1>11, <1>12, <1>13, <1>14, <1>15, <1>16, <1>17, <1>18
  DEF RunStep, Continue
-----------------------------------------------------------------------------
(* The invariant: the run, its row and its log agree on how it ended.      *)

RequestEvent(j) == [job |-> j, type |-> "cancellation_requested"]
RequestLost(j) == \E r \in Owners : RunJob[r] = j /\ run[r].owned /\ run[r].request = "failed"
EndEvent == {"done", "error", "cancelled"}

\* RequestPrecedesCancelled, over the indices of the log.
LogOrdered ==
  \A i \in DOMAIN events :
    /\ events[i].type = "cancelled" =>
         \/ \E k \in DOMAIN events : k < i /\ events[k] = RequestEvent(events[i].job)
         \/ RequestLost(events[i].job)
    /\ events[i].type \in EndEvent =>
         \A k \in DOMAIN events : k > i => events[k] # RequestEvent(events[i].job)

\* The owner of a row that ended has returned, with nothing left to do.
EndedReturned ==
  \A r \in Owners : run[r].owned /\ status[RunJob[r]] \in Ended =>
    /\ run[r].pc \in Returned /\ run[r].request # "waiting" /\ run[r].drained # "no"
    /\ status[RunJob[r]] = "COMPLETED" => run[r].pc = "resolved"

ResolvedCompleted == \A r \in Owners : run[r].pc = "resolved" => status[RunJob[r]] = "COMPLETED"
CompletedResolved ==
  \A j \in Jobs : status[j] = "COMPLETED" => \E r \in Owners : RunJob[r] = j /\ run[r].pc = "resolved"

RequestsLogged ==
  \A r \in Owners : run[r].request = "logged" =>
    \E k \in DOMAIN events : events[k] = RequestEvent(RunJob[r])

OutcomeInv ==
  /\ RunnerInv
  /\ \A r \in Owners : Placed(run[r])
  /\ EndedReturned /\ ResolvedCompleted /\ CompletedResolved
  /\ RequestsLogged /\ LogOrdered

LEMMA InitOutcome == Init => OutcomeInv
<1> SUFFICES ASSUME Init PROVE OutcomeInv
  OBVIOUS
<1>1. RunnerInv
  BY InitRunnerInv
<1>2. \A r \in Owners : run[r] = NewRun
  BY DEF Init
<1>3. events = <<>> /\ \A j \in Jobs : status[j] = "ABSENT"
  BY DEF Init, StoreInit
<1>4. Placed(NewRun)
  BY DEF Placed, NewRun, BehindClaim, BehindDrains
<1>5. EndedReturned /\ ResolvedCompleted /\ RequestsLogged
  BY <1>2 DEF EndedReturned, ResolvedCompleted, RequestsLogged, NewRun
<1>6. CompletedResolved
  BY <1>3 DEF CompletedResolved
<1>7. LogOrdered
  BY <1>3 DEF LogOrdered
<1> QED BY <1>1, <1>2, <1>4, <1>5, <1>6, <1>7 DEF OutcomeInv

-----------------------------------------------------------------------------
(* What a step does to rows and log.                                       *)

\* A run writes the terminal transition of its job.
Finishes(q, s) ==
  /\ <<run[q].pc, s>> \in {<<"completing", "COMPLETED">>, <<"failing", "FAILED">>,
                           <<"cancelling", "CANCELLED">>}
  /\ FinalizeJob(RunJob[q], q, s)
  /\ Set(q, [run[q] EXCEPT !.pc = IF s = "COMPLETED" THEN "resolved" ELSE "rejected"])

\* A request is logged.
Logs(q) ==
  /\ run[q].owned /\ run[q].request = "waiting"
  /\ AppendEvent(RunJob[q], "cancellation_requested")
  /\ Set(q, [run[q] EXCEPT !.request = "logged"])

\* Neither: no row ends but by being abandoned.
EndsNone == \A j \in Jobs : status'[j] \in Ended => status'[j] = status[j]
LogsOther ==
  \/ events' = events
  \/ \E j \in Jobs, type \in {"progress", "abandoned"} :
       events' = Append(events, [job |-> j, type |-> type])
GoesOn(r, s) ==
  /\ Goes(run[r], s)
  /\ s.owned = run[r].owned \/ (s.owned /\ status'[RunJob[r]] = "RUNNING")

LEMMA RunEffects ==
  ASSUME OutcomeInv, NEW q \in Owners, RunStep(q)
  PROVE  \/ \E s \in Ended : Finishes(q, s)
         \/ Logs(q)
         \/ EndsNone /\ LogsOther /\ \E s : Set(q, s) /\ GoesOn(q, s)
<1> DEFINE x == run[q]
<1>1. /\ RunTypeOK /\ x \in RunState /\ Coherent(x) /\ Placed(x) /\ Decided(x)
      /\ x.pc = "idle" => x = NewRun
  BY DEF OutcomeInv, RunnerInv, RunTypeOK, Coherent, CaughtPc, Decided, ClaimHeld, CauseDecides,
         NewRun
<1>2. RunJob[q] \in Jobs /\ status \in [Jobs -> Status] /\ run \in [Owners -> RunState]
  BY RunsAssumption DEF OutcomeInv, RunnerInv, RunTypeOK, StoreInv, StoreTypeOK
<1>3. \A s : Set(q, s) => run'[q] = s
  BY <1>2 DEF Set
<1>4. CASE Claim(q)
  <2>1. PICK s : Set(q, s) /\ Placed(s) /\ Stays(x, s) /\ Quiet(x, s)
    <3>1. PICK s : Set(q, s) /\ Placed(s) /\ Stays(x, s) /\ (Quiet(x, s) \/ LogRequest(q) \/ Complete(q))
      BY <1>1, StepGoes
    <3>2. x.pc = "claiming"
      BY <1>4 DEF Claim
    <3>3. ~LogRequest(q) /\ ~Complete(q)
      BY <3>2 DEF LogRequest, Complete
    <3> QED BY <3>1, <3>3
  <2>2. CASE /\ SetRunning(RunJob[q], q, HeartbeatOf[q])
             /\ \E b : Set(q, [x EXCEPT !.pc = "running", !.owned = TRUE, !.beat = b])
    <3>0. s.owned
      <4>1. \E b : s = [x EXCEPT !.pc = "running", !.owned = TRUE, !.beat = b]
        BY <1>3, <2>1, <2>2
      <4> QED BY <1>1, <4>1 DEF RunState
    <3>1. /\ status' = [status EXCEPT ![RunJob[q]] = "RUNNING"] /\ events' = events
      BY <2>2 DEF SetRunning
    <3>2. EndsNone /\ status'[RunJob[q]] = "RUNNING"
      BY <1>2, <3>1 DEF EndsNone, Ended
    <3> QED BY <2>1, <3>0, <3>1, <3>2 DEF LogsOther, GoesOn, Goes
  <2>3. CASE UNCHANGED storeVars /\ Set(q, Caught(x))
    <3>1. EndsNone /\ LogsOther
      BY <2>3 DEF EndsNone, LogsOther, storeVars, columns
    <3>2. s.owned = x.owned
      <4>1. s = Caught(x)
        BY <1>3, <2>1, <2>3
      <4> QED BY <1>1, <4>1 DEF RunState, Caught
    <3> QED BY <2>1, <3>1, <3>2 DEF GoesOn, Goes
  <2> QED BY <1>4, <2>2, <2>3 DEF Claim, StoreThrows
<1>5. CASE ~Claim(q)
  <2>1. PICK s : Set(q, s) /\ Placed(s) /\ Stays(x, s) /\ (Quiet(x, s) \/ LogRequest(q) \/ Complete(q))
    BY <1>1, StepGoes
  <2>2. s.owned = x.owned
    <3>1. PICK t : Keeps(x, t) /\ Set(q, t)
      BY <1>1, <1>5, StepKeeps
    <3>2. s = t
      BY <1>3, <2>1, <3>1
    <3> QED BY <3>1, <3>2 DEF Keeps
  <2>3. ASSUME Quiet(x, s) PROVE Set(q, s) /\ GoesOn(q, s)
    BY <2>1, <2>2, <2>3 DEF GoesOn, Goes
  <2>4. ASSUME UNCHANGED <<status, events>> PROVE EndsNone /\ LogsOther
    BY <2>4 DEF EndsNone, LogsOther
  <2>5. CASE LogRequest(q)
    <3>1. CASE Logs(q)
      BY <3>1
    <3>2. CASE ~Logs(q)
      <4>1. \E v \in {"failed", "void"} : Set(q, [x EXCEPT !.request = v]) /\ UNCHANGED storeVars
        BY <2>5, <3>2 DEF LogRequest, Logs, StoreThrows
      <4>2. PICK v \in {"failed", "void"} : s = [x EXCEPT !.request = v]
        BY <1>3, <2>1, <4>1
      <4>3. Quiet(x, s)
        BY <1>1, <4>2 DEF RunState, Quiet
      <4> QED BY <2>3, <2>4, <4>1, <4>3 DEF storeVars, columns
    <3> QED BY <3>1, <3>2
  <2>6. CASE Complete(q)
    <3>1. CASE FinalizeJob(RunJob[q], q, "COMPLETED") /\ Set(q, [x EXCEPT !.pc = "resolved"])
      BY <2>6, <3>1 DEF Finishes, Ended, Complete
    <3>2. CASE UNCHANGED storeVars /\ Set(q, Caught(x))
      <4>1. s = Caught(x)
        BY <1>3, <2>1, <3>2
      <4>2. Quiet(x, s)
        BY <1>1, <4>1 DEF RunState, Quiet, Caught
      <4> QED BY <2>3, <2>4, <3>2, <4>2 DEF storeVars, columns
    <3> QED BY <2>6, <3>1, <3>2 DEF Complete, StoreThrows, Preempted
  <2>7. CASE Persist(q)
    <3>1. Quiet(x, s)
      <4>1. s = [x EXCEPT !.pc = "rejected"]
        BY <1>3, <2>1, <2>7 DEF Persist
      <4> QED BY <1>1, <4>1 DEF RunState, Quiet
    <3>2. CASE \E t \in {"CANCELLED", "FAILED"} : Finishes(q, t)
      BY <3>2 DEF Ended
    <3>3. CASE UNCHANGED storeVars
      BY <2>3, <2>4, <3>1, <3>3 DEF storeVars, columns
    <3> QED BY <2>7, <3>2, <3>3 DEF Persist, Finishes, StoreThrows
  <2>8. CASE ~LogRequest(q) /\ ~Complete(q) /\ ~Persist(q)
    <3>1. status' = status
      BY <1>5, <2>8
      DEF RunStep, Continue, PipelineSettles, BeatSettles, StartRun, Yield, AppendYield,
          PipelineThrows, PipelineEnds, ManualBeat, ManualRefresh, Drain, Decide, Settle,
          AwaitRequest, Cancel, CallerAbort, BeatFires, BeatLands, BeatTimesOut, LateBeat,
          Heartbeat, EnableHeartbeat, AppendEvent, StoreThrows, storeVars, columns
    <3>2. LogsOther
      <4>1. CASE AppendYield(q)
        BY <1>2, <4>1 DEF AppendYield, AppendEvent, StoreThrows, storeVars, LogsOther
      <4>2. CASE ~AppendYield(q)
        BY <1>5, <2>8, <4>2
        DEF RunStep, Continue, PipelineSettles, BeatSettles, StartRun, Yield,
            PipelineThrows, PipelineEnds, ManualBeat, ManualRefresh, Drain, Decide, Settle,
            AwaitRequest, Cancel, CallerAbort, BeatFires, BeatLands, BeatTimesOut, LateBeat,
            Heartbeat, EnableHeartbeat, StoreThrows, storeVars, columns, LogsOther
      <4> QED BY <4>1, <4>2
    <3>3. EndsNone
      BY <3>1 DEF EndsNone
    <3> QED BY <2>1, <2>3, <2>8, <3>2, <3>3
  <2> QED BY <2>5, <2>6, <2>7, <2>8
<1> QED BY <1>4, <1>5
\* A step that ends no run and logs no request.
Calm == EndsNone /\ LogsOther /\ \A r \in Owners : run'[r] = run[r] \/ GoesOn(r, run'[r])

LEMMA NextEffects ==
  ASSUME OutcomeInv, [Next]_vars
  PROVE  \/ \E q \in Owners, s \in Ended : Finishes(q, s)
         \/ \E q \in Owners : Logs(q)
         \/ Calm
<1>1. run \in [Owners -> RunState] /\ \A r \in Owners : Placed(run[r]) /\ Coherent(run[r])
  BY DEF OutcomeInv, RunnerInv, RunTypeOK, Coherent, CaughtPc
<1>2. status \in [Jobs -> Status] /\ scan.todo \in SUBSET (Jobs \X MaybeOwner)
  BY DEF OutcomeInv, RunnerInv, RunTypeOK, StoreInv, StoreTypeOK
<1>3. ASSUME NEW q \in Owners, RunStep(q)
      PROVE  (\E s \in Ended : Finishes(q, s)) \/ Logs(q) \/ Calm
  <2>1. ASSUME NEW s, Set(q, s), GoesOn(q, s)
        PROVE  \A r \in Owners : run'[r] = run[r] \/ GoesOn(r, run'[r])
    BY <1>1, <2>1 DEF Set
  <2> QED BY <1>3, <2>1, RunEffects DEF Calm
<1>4. ASSUME UNCHANGED <<status, events>> PROVE EndsNone /\ LogsOther
  BY <1>4 DEF EndsNone, LogsOther
<1>5. ASSUME NEW p, Crash(p) PROVE Calm
  <2>1. ASSUME NEW x \in RunState, Placed(x), x.pc \in Working
        PROVE  LET s == [x EXCEPT !.pc = "crashed", !.beat = "off", !.late = FALSE]
               IN  Goes(x, s) /\ s.owned = x.owned
    BY <2>1
    DEF RunState, Working, Goes, Placed, Stays, Quiet, Returned, BehindDrains, BehindClaim
  <2>2. \A r \in Owners : run'[r] = run[r] \/ GoesOn(r, run'[r])
    BY <1>1, <1>5, <2>1 DEF Crash, Inflight, GoesOn
  <2> QED BY <1>4, <1>5, <2>2 DEF Crash, Calm, storeVars, columns
<1>6. CASE UNCHANGED run
  <2>1. ASSUME EndsNone, LogsOther PROVE Calm
    BY <1>6, <2>1 DEF Calm
  <2>2. ASSUME NEW job \in scan.todo, ReconcileOne(job) PROVE EndsNone /\ LogsOther
    <3>1. job[1] \in Jobs
      BY <1>2
    <3>2. CASE FinalizeAbandonedIfStale(job[1], scan.cutoff, job[2])
      <4>1. /\ status' = [status EXCEPT ![job[1]] = "ABANDONED"]
            /\ events' = Append(events, [job |-> job[1], type |-> "abandoned"])
        BY <3>2 DEF FinalizeAbandonedIfStale, EventOf
      <4> QED BY <1>2, <3>1, <4>1 DEF EndsNone, LogsOther, Ended
    <3> QED BY <1>4, <2>2, <3>2 DEF ReconcileOne, storeVars, columns
  <2>3. ASSUME NEW j \in Jobs,
               CreateJob(j) \/ AcquireExclusive(j) \/ SetAbandoned(j) \/ Heartbeat(j, NoOwner)
        PROVE  EndsNone /\ LogsOther
    BY <1>2, <2>3
    DEF CreateJob, AcquireExclusive, SetAbandoned, Heartbeat, EndsNone, LogsOther, Ended
  <2>4. CASE UNCHANGED <<status, events>>
    BY <1>4, <2>1, <2>4
  <2>5. CASE \E q \in Owners : RunStep(q) \/ Crash(Runner[q])
    BY <1>3, <1>5, <2>5
  <2>6. CASE Reconcile \/ HostStep
    BY <2>1, <2>2, <2>3, <2>4, <2>6
    DEF Reconcile, ReconcileList, ReconcileThrows, StoreThrows, HostStep, storeVars, columns
  <2> QED BY <2>4, <2>5, <2>6 DEF Next, Tick, vars, storeVars, columns
<1> QED BY <1>3, <1>5, <1>6
        DEF Next, Reconcile, ReconcileList, ReconcileOne, ReconcileThrows, HostStep, runnerVars, vars

-----------------------------------------------------------------------------
(* Each of the three keeps the invariant.                                  *)

\* What is logged stays where it is.
LEMMA Appended ==
  ASSUME NEW S, NEW log \in Seq(S), NEW e \in S
  PROVE  /\ DOMAIN Append(log, e) = 1..(Len(log) + 1)
         /\ DOMAIN log = 1..Len(log) /\ Len(log) \in Nat
         /\ \A i \in DOMAIN log : Append(log, e)[i] = log[i]
         /\ Append(log, e)[Len(log) + 1] = e
OBVIOUS

LEMMA OwnersRow ==
  ASSUME OutcomeInv, NEW q \in Owners, NEW r \in Owners,
         owner[RunJob[r]] = q, run[r].owned
  PROVE  r = q
BY DEF OutcomeInv, RunnerInv, ClaimHeld

\* A terminal row stays as it is.
LEMMA TerminalKept ==
  ASSUME StoreInv, [StoreNext]_storeVars, NEW j \in Jobs, status[j] \in Terminal
  PROVE  status'[j] = status[j]
<1>1. status \in [Jobs -> Status]
  BY DEF StoreInv, StoreTypeOK
<1> USE DEF columns, heartbeatColumns, Open, Terminal
<1>2. ASSUME NEW k \in Jobs, CreateJob(k) \/ AcquireExclusive(k) \/ SetAbandoned(k)
      PROVE  status'[j] = status[j]
  BY <1>1, <1>2 DEF CreateJob, AcquireExclusive, SetAbandoned
<1>3. ASSUME NEW k \in Jobs, NEW o, NEW hb, SetRunning(k, o, hb)
      PROVE  status'[j] = status[j]
  BY <1>1, <1>3 DEF SetRunning, CanSetRunning
<1>4. ASSUME NEW k \in Jobs, NEW o, NEW s, SetTerminal(k, o, s) \/ FinalizeJob(k, o, s)
      PROVE  status'[j] = status[j]
  BY <1>1, <1>4 DEF SetTerminal, FinalizeJob, CanFinish
<1>5. ASSUME NEW k \in Jobs, NEW o, NEW cutoff,
             SetAbandonedIfStale(k, cutoff, o) \/ FinalizeAbandonedIfStale(k, cutoff, o)
      PROVE  status'[j] = status[j]
  BY <1>1, <1>5 DEF SetAbandonedIfStale, FinalizeAbandonedIfStale, CanAbandon, Stale
<1>6. ASSUME NEW k \in Jobs, NEW o, Heartbeat(k, o) \/ EnableHeartbeat(k, o)
      PROVE  status'[j] = status[j]
  BY <1>6 DEF Heartbeat, EnableHeartbeat
<1>7. ASSUME NEW k \in Jobs, NEW type, AppendEvent(k, type)
      PROVE  status'[j] = status[j]
  BY <1>7 DEF AppendEvent
<1>8. CASE Tick \/ UNCHANGED storeVars
  BY <1>8 DEF Tick, storeVars
<1> QED
  BY <1>2, <1>3, <1>4, <1>5, <1>6, <1>7, <1>8 DEF StoreNext, StoreStep

\* The log stays ordered if what is appended is in its place.
LEMMA LogExtended ==
  ASSUME OutcomeInv, NEW e \in [job: Jobs, type: LogEvent \cup TerminalEvent],
         events' = Append(events, e),
         \A j \in Jobs : RequestLost(j) => RequestLost(j)',
         e.type = "cancelled" => \/ \E k \in DOMAIN events : events[k] = RequestEvent(e.job)
                                 \/ RequestLost(e.job)',
         \A i \in DOMAIN events : events[i].type \in EndEvent => e # RequestEvent(events[i].job)
  PROVE  /\ LogOrdered'
         /\ \A j : (\E k \in DOMAIN events : events[k] = RequestEvent(j))
                     => \E k \in DOMAIN events' : events'[k] = RequestEvent(j)
<1> DEFINE n == Len(events)
<1>1. /\ DOMAIN events' = 1..(n + 1) /\ DOMAIN events = 1..n /\ n \in Nat
      /\ \A i \in 1..n : events'[i] = events[i]
      /\ events'[n + 1] = e
  BY Appended DEF OutcomeInv, RunnerInv, StoreInv, StoreTypeOK
<1>2. LogOrdered /\ StoreTypeOK
  BY DEF OutcomeInv, RunnerInv, StoreInv
<1>3. \A i \in 1..n : events[i].job \in Jobs
  BY <1>1, <1>2, LoggedJob
<1> HIDE DEF n
<1>4. ASSUME NEW j, \E k \in DOMAIN events : events[k] = RequestEvent(j)
      PROVE  \E k \in DOMAIN events' : events'[k] = RequestEvent(j)
  BY <1>1, <1>4
<1>5. ASSUME NEW i \in 1..(n + 1), NEW j \in Jobs, events'[i].job = j
      PROVE  /\ events'[i].type = "cancelled" =>
                  \/ \E k \in 1..(n + 1) : k < i /\ events'[k] = RequestEvent(j)
                  \/ RequestLost(j)'
             /\ events'[i].type \in EndEvent =>
                  \A k \in 1..(n + 1) : k > i => events'[k] # RequestEvent(j)
  <2>1. CASE i \in 1..n
    <3>1. events'[i] = events[i] /\ events[i].job = j
      BY <1>1, <1>5, <2>1
    <3>2. ASSUME events[i].type = "cancelled"
          PROVE  \/ \E k \in 1..(n + 1) : k < i /\ events'[k] = RequestEvent(j)
                 \/ RequestLost(j)'
      <4>1. CASE RequestLost(j)
        BY <4>1
      <4>2. CASE \E k \in 1..n : k < i /\ events[k] = RequestEvent(j)
        BY <1>1, <4>2
      <4> QED BY <1>1, <1>2, <2>1, <3>1, <3>2, <4>1, <4>2 DEF LogOrdered
    <3>3. ASSUME events[i].type \in EndEvent, NEW k \in 1..(n + 1), k > i
          PROVE  events'[k] # RequestEvent(j)
      <4>1. CASE k \in 1..n
        BY <1>1, <1>2, <2>1, <3>1, <3>3, <4>1 DEF LogOrdered
      <4>2. CASE k = n + 1
        BY <1>1, <2>1, <3>1, <3>3, <4>2
      <4> QED BY <1>1, <4>1, <4>2
    <3> QED BY <3>1, <3>2, <3>3
  <2>2. CASE i = n + 1
    <3>1. events'[i] = e /\ e.job = j
      BY <1>1, <1>5, <2>2
    <3>2. ASSUME NEW k \in 1..n, events[k] = RequestEvent(j)
          PROVE  k \in 1..(n + 1) /\ k < i /\ events'[k] = RequestEvent(j)
      BY <1>1, <2>2, <3>2
    <3>3. \A k \in 1..(n + 1) : ~(k > i)
      BY <1>1, <2>2
    <3> QED BY <1>1, <3>1, <3>2, <3>3
  <2> QED BY <1>1, <2>1, <2>2
<1>6. LogOrdered'
  <2>1. \A i \in 1..(n + 1) : events'[i].job \in Jobs
    BY <1>1, <1>3
  <2> QED BY <1>1, <1>5, <2>1 DEF LogOrdered, RequestLost
<1> QED BY <1>4, <1>6

LEMMA StoreStepOf ==
  ASSUME OutcomeInv, [Next]_vars
  PROVE  [StoreNext]_storeVars
BY NextStoreStep DEF OutcomeInv, RunnerInv, StoreInv

LEMMA CalmKeeps ==
  ASSUME OutcomeInv, [Next]_vars, Calm
  PROVE  OutcomeInv'
<1>1. /\ RunnerInv' /\ [StoreNext]_storeVars /\ StoreInv /\ StoreTypeOK
      /\ \A r \in Owners : RunJob[r] \in Jobs
  BY NextRunnerInv, StoreStepOf, RunsAssumption DEF OutcomeInv, RunnerInv, StoreInv
<1>2. \A j \in Jobs : /\ status'[j] \in Ended => status'[j] = status[j]
                      /\ status[j] \in Ended => status'[j] = status[j]
  BY <1>1, TerminalKept DEF Calm, EndsNone, Ended, Terminal
<1>3. \A r \in Owners : run'[r] = run[r] \/ GoesOn(r, run'[r])
  BY DEF Calm
<1>4. \A r \in Owners : Placed(run'[r])
  BY <1>3 DEF OutcomeInv, GoesOn, Goes
<1>5. EndedReturned'
  BY <1>1, <1>2, <1>3 DEF OutcomeInv, EndedReturned, GoesOn, Goes, Stays, Ended
<1>6. ResolvedCompleted' /\ CompletedResolved'
  BY <1>1, <1>2, <1>3
  DEF OutcomeInv, ResolvedCompleted, CompletedResolved, GoesOn, Goes, Stays, Quiet, Ended, Returned
<1>7. \A j \in Jobs : RequestLost(j) => RequestLost(j)'
  BY <1>3 DEF RequestLost, GoesOn, Goes, Stays
<1>8. \A r \in Owners : run'[r].request = "logged" => run[r].request = "logged"
  BY <1>3 DEF GoesOn, Goes, Quiet
<1>9. RequestsLogged' /\ LogOrdered'
  <2>1. CASE events' = events
    <3>1. RequestsLogged'
      BY <1>8, <2>1 DEF OutcomeInv, RequestsLogged
    <3>2. \A i \in DOMAIN events : events[i].job \in Jobs
      BY <1>1, LoggedJob
    <3>3. LogOrdered'
      BY <1>7, <2>1, <3>2 DEF OutcomeInv, LogOrdered
    <3> QED BY <3>1, <3>3
  <2>2. CASE events' # events
    <3>1. PICK j \in Jobs, type \in {"progress", "abandoned"} :
            events' = Append(events, [job |-> j, type |-> type])
      BY <2>2 DEF Calm, LogsOther
    <3> DEFINE e == [job |-> j, type |-> type]
    <3>2. e \in [job: Jobs, type: LogEvent \cup TerminalEvent] /\ e.type \notin EndEvent
      BY DEF LogEvent, TerminalEvent, EndEvent
    <3>3. \A i : e # RequestEvent(i)
      BY DEF RequestEvent
    <3>4. e.type # "cancelled"
      BY <3>2 DEF EndEvent
    <3> HIDE DEF e
    <3>5. events' = Append(events, e)
      BY <3>1 DEF e
    <3>6. /\ LogOrdered'
          /\ \A i : (\E k \in DOMAIN events : events[k] = RequestEvent(i))
                      => \E k \in DOMAIN events' : events'[k] = RequestEvent(i)
      BY <1>7, <3>2, <3>3, <3>4, <3>5, LogExtended
    <3> QED BY <1>8, <3>6 DEF OutcomeInv, RequestsLogged
  <2> QED BY <2>1, <2>2
<1> QED BY <1>1, <1>4, <1>5, <1>6, <1>9 DEF OutcomeInv
LEMMA LogsKeeps ==
  ASSUME OutcomeInv, [Next]_vars, NEW q \in Owners, Logs(q)
  PROVE  OutcomeInv'
<1> DEFINE j == RunJob[q]
           s == [run[q] EXCEPT !.request = "logged"]
<1>1. /\ RunnerInv' /\ StoreInv /\ StoreTypeOK /\ run \in [Owners -> RunState]
      /\ \A r \in Owners : RunJob[r] \in Jobs /\ Placed(run[r])
  BY NextRunnerInv, RunsAssumption DEF OutcomeInv, RunnerInv, RunTypeOK, StoreInv
<1>2. /\ status' = status /\ events' = Append(events, RequestEvent(j))
      /\ run'[q] = s /\ \A r \in Owners : r # q => run'[r] = run[r]
      /\ run[q].owned /\ run[q].request = "waiting"
  BY <1>1 DEF Logs, AppendEvent, columns, RequestEvent, Set
<1>3. /\ Placed(s) /\ s.pc = run[q].pc /\ s.drained = run[q].drained /\ s.owned = run[q].owned
      /\ s.request = "logged"
  <2>1. run[q] \in RunState
    BY <1>1
  <2> QED BY <1>1, <1>2, <2>1 DEF RunState, Placed, BehindClaim, BehindDrains
<1> HIDE DEF s
<1>4. \A r \in Owners : Placed(run'[r])
  BY <1>1, <1>2, <1>3
<1>5. EndedReturned'
  BY <1>2, <1>3 DEF OutcomeInv, EndedReturned
<1>6. ResolvedCompleted' /\ CompletedResolved'
  BY <1>2, <1>3 DEF OutcomeInv, ResolvedCompleted, CompletedResolved
<1>7. \A i \in Jobs : RequestLost(i) => RequestLost(i)'
  BY <1>2, <1>3 DEF RequestLost
<1>8. ASSUME NEW i \in DOMAIN events, events[i].type \in EndEvent
      PROVE  RequestEvent(j) # RequestEvent(events[i].job)
  <2>1. events[i].job \in Jobs /\ events[i].type \in TerminalEvent
    BY <1>1, <1>8, LoggedJob DEF EndEvent, TerminalEvent
  <2>2. /\ status[events[i].job] \in Terminal
        /\ events[i].type = EventOf(status[events[i].job])
    BY <1>1, <2>1 DEF StoreInv, TerminalEventAgrees
  <2>3. status[events[i].job] \in Ended
    BY <1>8, <2>2 DEF EventOf, EndEvent, Terminal, Ended
  <2>4. status[j] \notin Ended
    BY <1>2 DEF OutcomeInv, EndedReturned
  <2> QED BY <2>3, <2>4 DEF RequestEvent
<1>9. /\ RequestEvent(j) \in [job: Jobs, type: LogEvent \cup TerminalEvent]
      /\ RequestEvent(j).type # "cancelled"
  BY <1>1 DEF RequestEvent, LogEvent
<1>10. /\ LogOrdered'
       /\ \A i : (\E k \in DOMAIN events : events[k] = RequestEvent(i))
                   => \E k \in DOMAIN events' : events'[k] = RequestEvent(i)
  BY <1>2, <1>7, <1>8, <1>9, LogExtended
<1>11. \E k \in DOMAIN events' : events'[k] = RequestEvent(j)
  <2>1. events \in Seq([job: Jobs, type: LogEvent \cup TerminalEvent])
    BY <1>1 DEF StoreTypeOK
  <2>2. /\ DOMAIN events' = 1..(Len(events) + 1) /\ Len(events) \in Nat
        /\ events'[Len(events) + 1] = RequestEvent(j)
    BY <1>2, <1>9, <2>1, Appended
  <2> QED BY <2>2
<1>12. RequestsLogged'
  BY <1>2, <1>10, <1>11 DEF OutcomeInv, RequestsLogged
<1> QED BY <1>1, <1>4, <1>5, <1>6, <1>10, <1>12 DEF OutcomeInv

LEMMA FinishKeeps ==
  ASSUME OutcomeInv, [Next]_vars, NEW q \in Owners, NEW s \in Ended, Finishes(q, s)
  PROVE  OutcomeInv'
<1> DEFINE j == RunJob[q]
           x == run[q]
           pc == IF s = "COMPLETED" THEN "resolved" ELSE "rejected"
           y == [run[q] EXCEPT !.pc = pc]
           e == [job |-> j, type |-> EventOf(s)]
<1>1. /\ RunnerInv' /\ StoreInv /\ StoreTypeOK /\ run \in [Owners -> RunState]
      /\ \A r \in Owners : RunJob[r] \in Jobs /\ r # NoOwner /\ Placed(run[r]) /\ Decided(run[r])
      /\ status \in [Jobs -> Status] /\ RunTypeOK
  BY NextRunnerInv, RunsAssumption, OwnersAssumption
  DEF OutcomeInv, RunnerInv, RunTypeOK, StoreInv, StoreTypeOK, Decided, ClaimHeld, CauseDecides,
      NewRun
<1>2. /\ status[j] \in Open /\ owner[j] = q
      /\ status'[j] = s /\ \A i \in Jobs : i # j => status'[i] = status[i]
      /\ events' = Append(events, e)
      /\ run'[q] = y /\ \A r \in Owners : r # q => run'[r] = run[r]
  BY <1>1 DEF Finishes, FinalizeJob, CanFinish, OwnerMatches, Set
<1>3. /\ \/ x.pc = "completing" /\ s = "COMPLETED"
         \/ x.pc = "failing" /\ s = "FAILED"
         \/ x.pc = "cancelling" /\ s = "CANCELLED"
      /\ x \in RunState
  BY <1>1 DEF Finishes
<1>4. /\ x.owned /\ x.drained # "no" /\ x.request # "waiting"
      /\ s = "COMPLETED" => x.drained = "ok"
      /\ s = "CANCELLED" => x.request \in {"logged", "failed"}
  BY <1>1, <1>3 DEF Placed, Decided, BehindClaim, BehindDrains
<1>5. /\ Placed(y) /\ y.pc = pc /\ y.owned = x.owned /\ y.drained = x.drained
      /\ y.request = x.request
  BY <1>1, <1>3, <1>4 DEF RunState, Placed, BehindClaim, BehindDrains
<1>6. x.pc \notin Returned
  BY <1>3 DEF Returned
<1> HIDE DEF y, pc, e
<1>7. \A r \in Owners : Placed(run'[r])
  BY <1>1, <1>2, <1>5
<1>8. pc \in Returned /\ (s = "COMPLETED" <=> pc = "resolved")
  BY DEF pc, Returned
<1>9. EndedReturned'
  <2> SUFFICES ASSUME NEW r \in Owners, run'[r].owned, status'[RunJob[r]] \in Ended
               PROVE  /\ run'[r].pc \in Returned /\ run'[r].request # "waiting"
                      /\ run'[r].drained # "no"
                      /\ status'[RunJob[r]] = "COMPLETED" => run'[r].pc = "resolved"
    BY DEF EndedReturned
  <2>1. CASE r = q
    BY <1>2, <1>4, <1>5, <1>8, <2>1
  <2>2. CASE r # q
    <3>1. run'[r] = run[r]
      BY <1>2, <2>2
    <3>2. RunJob[r] # j
      BY <1>2, <2>2, <3>1, OwnersRow
    <3> QED BY <1>1, <1>2, <3>1, <3>2 DEF OutcomeInv, EndedReturned
  <2> QED BY <2>1, <2>2
<1>10. ResolvedCompleted'
  <2>1. ASSUME NEW r \in Owners, run[r].pc = "resolved" PROVE RunJob[r] # j
    BY <1>2, <2>1 DEF OutcomeInv, ResolvedCompleted, Open
  <2> QED BY <1>1, <1>2, <1>5, <1>8, <2>1 DEF OutcomeInv, ResolvedCompleted
<1>11. CompletedResolved'
  BY <1>1, <1>2, <1>5, <1>6, <1>8 DEF OutcomeInv, CompletedResolved, Returned
<1>12. \A i \in Jobs : RequestLost(i) => RequestLost(i)'
  BY <1>2, <1>5 DEF RequestLost
<1>13. /\ e \in [job: Jobs, type: LogEvent \cup TerminalEvent]
       /\ e.job = j /\ e.type \in EndEvent /\ (e.type = "cancelled" => s = "CANCELLED")
  BY <1>1 DEF e, EventOf, Ended, EndEvent, TerminalEvent
<1>14. \A i : e # RequestEvent(i)
  BY <1>13 DEF EndEvent, RequestEvent
<1>15. e.type = "cancelled" => \/ \E k \in DOMAIN events : events[k] = RequestEvent(e.job)
                               \/ RequestLost(e.job)'
  <2>1. CASE x.request = "logged"
    BY <1>13, <2>1 DEF OutcomeInv, RequestsLogged
  <2>2. CASE x.request = "failed"
    BY <1>2, <1>4, <1>5, <1>13, <2>2 DEF RequestLost
  <2> QED BY <1>4, <1>13, <2>1, <2>2
<1>16. /\ LogOrdered'
       /\ \A i : (\E k \in DOMAIN events : events[k] = RequestEvent(i))
                   => \E k \in DOMAIN events' : events'[k] = RequestEvent(i)
  BY <1>2, <1>12, <1>13, <1>14, <1>15, LogExtended
<1>17. RequestsLogged'
  BY <1>2, <1>5, <1>16 DEF OutcomeInv, RequestsLogged
<1> QED BY <1>1, <1>7, <1>9, <1>10, <1>11, <1>16, <1>17 DEF OutcomeInv

LEMMA SameKeepsOutcome == OutcomeInv /\ UNCHANGED vars => OutcomeInv'
<1> SUFFICES ASSUME OutcomeInv, UNCHANGED vars PROVE OutcomeInv'
  OBVIOUS
<1>1. RunnerInv'
  BY NextRunnerInv DEF OutcomeInv
<1> QED BY <1>1
        DEF OutcomeInv, vars, storeVars, columns, runnerVars, EndedReturned, ResolvedCompleted,
            CompletedResolved, RequestsLogged, LogOrdered, RequestLost

\* The invariant holds in every reachable state.
LEMMA OutcomeInvHolds == Spec => []OutcomeInv
<1>1. OutcomeInv /\ [Next]_vars => OutcomeInv'
  BY NextEffects, FinishKeeps, LogsKeeps, CalmKeeps
<1> QED BY <1>1, InitOutcome, PTL DEF Spec

-----------------------------------------------------------------------------
(* The properties.                                                         *)

\* run() resolves for exactly the jobs whose rows say COMPLETED: no process
\* reports a success that another transition pre-empted, and no row is
\* COMPLETED whose run rejected.
THEOREM ResolvedIffCompletedHolds == Spec => []ResolvedIffCompleted
<1>1. OutcomeInv => ResolvedIffCompleted
  <2>1. OutcomeInv => ResolvedCompleted /\ CompletedResolved
    BY DEF OutcomeInv
  <2>2. QED
    BY <2>1 DEF ResolvedCompleted, CompletedResolved, ResolvedIffCompleted
<1> QED BY <1>1, OutcomeInvHolds, PTL

\* Resources are drained once, before the run ends its row, and a run whose
\* drains failed does not complete.
THEOREM DrainedBeforeEndHolds == Spec => []DrainedBeforeEnd
<1>1. OutcomeInv => DrainedBeforeEnd
  <2> SUFFICES ASSUME OutcomeInv, NEW r \in Owners
               PROVE  /\ run[r].drains <= 1
                      /\ run[r].owned /\ status[RunJob[r]] \in Ended => run[r].drained # "no"
                      /\ run[r].owned /\ status[RunJob[r]] = "COMPLETED" => run[r].drained = "ok"
    BY DEF DrainedBeforeEnd, Ended
  <2> QED BY DEF OutcomeInv, EndedReturned, Placed, Ended
<1> QED BY <1>1, OutcomeInvHolds, PTL

\* The log of a cancelled job has the request before the end, unless the
\* store refused it, and no log has a request behind the end of its job.
THEOREM RequestPrecedesCancelledHolds == Spec => []RequestPrecedesCancelled
<1>1. OutcomeInv => RequestPrecedesCancelled
  <2> SUFFICES ASSUME OutcomeInv, NEW i \in DOMAIN events
               PROVE  LET j == events[i].job
                          behind == {k \in (i + 1)..Len(events) : events[k].job = j}
                          before == {k \in 1..(i - 1) : events[k].job = j}
                      IN /\ events[i].type = "cancelled" =>
                              \/ \E k \in before : events[k].type = "cancellation_requested"
                              \/ RequestLost(j)
                         /\ events[i].type \in EndEvent =>
                              \A k \in behind : events[k].type # "cancellation_requested"
    BY DEF RequestPrecedesCancelled, RequestLost, EndEvent
  <2>1. /\ events \in Seq([job: Jobs, type: LogEvent \cup TerminalEvent])
        /\ LogOrdered
    BY DEF OutcomeInv, RunnerInv, StoreInv, StoreTypeOK
  <2>2. DOMAIN events = 1..Len(events) /\ Len(events) \in Nat
    BY <2>1
  <2>3. ASSUME NEW k \in DOMAIN events, events[k] = RequestEvent(events[i].job), k < i
        PROVE  k \in 1..(i - 1) /\ events[k].job = events[i].job
               /\ events[k].type = "cancellation_requested"
    BY <2>2, <2>3 DEF RequestEvent
  <2>4. ASSUME NEW k \in (i + 1)..Len(events), events[k].job = events[i].job,
               events[k].type = "cancellation_requested"
        PROVE  k \in DOMAIN events /\ k > i /\ events[k] = RequestEvent(events[i].job)
    <3>1. k \in DOMAIN events /\ k > i
      BY <2>2
    <3>2. events[k] \in [job: Jobs, type: LogEvent \cup TerminalEvent]
      BY <2>1, <3>1, SequenceElement
    <3> QED BY <2>4, <3>1, <3>2 DEF RequestEvent
  <2> QED BY <2>1, <2>3, <2>4 DEF LogOrdered
<1> QED BY <1>1, OutcomeInvHolds, PTL
=============================================================================
