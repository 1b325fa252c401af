------------------------------- MODULE Pipeline ------------------------------
(***************************************************************************)
(* runPipeline (orchestrator.ts) over phases built with the patterns       *)
(* parallelPhases, withRetry, whileCondition, intentGate, match,           *)
(* subPipeline and boundedFanout, read by a consumer that records          *)
(* phase_complete events, and resumed from them after it ended or died.    *)
(*                                                                         *)
(* A phase is a sequence of branches: more than one makes it a             *)
(* parallelPhases.  A branch is a wrapper around a leaf, the caller's own  *)
(* phase, which may emit an event, set ctx.stop, throw, and return, early  *)
(* if it notices the abort.                                                *)
(***************************************************************************)
EXTENDS FanoutOf, Sequences

CONSTANTS
  Pipelines,      \* the pipelines that may be run
  Tries,          \* maxAttempts of withRetry
  MaxIterations,  \* maxIterations of whileCondition
  MaxQueue,       \* bound: events waiting in a parallelPhases
  MaxLives        \* bound: runs of the same pipeline

Wrappers == {"plain", "retry", "while", "gate", "match", "sub", "fanout"}
Phases == [keyed: BOOLEAN, wraps: Seq(Wrappers) \ {<<>>}]

ASSUME PipelineAssumption ==
  /\ \A p \in Pipelines : p \in Seq(Phases)
  /\ Tries \in Nat \ {0} /\ MaxIterations \in Nat \ {0}
  /\ MaxQueue \in Nat \ {0} /\ MaxLives \in Nat

VARIABLES
  phases,
  at,         \* the phase runPipeline is at
  pos,        \* where runPipeline is
  stop,       \* ctx.stop is set
  branches,
  queue,      \* events a parallelPhases has not yielded yet
  suspended,  \* a phase's yield waits for the consumer
  skipped,    \* resume.completedKeys, as phases
  logged,     \* phases whose phase_complete the consumer recorded
  frames,     \* terminal frames yielded in this life
  life,
  full,       \* phases that did all of their work (history)
  stoppedAt   \* the phase that set ctx.stop in this life (history)

pipeVars == <<phases, at, pos, stop, branches, queue, suspended, skipped, logged,
              frames, life, full, stoppedAt>>
vars == <<pipeVars, fanoutVars, aborted>>

Over == {"idle", "threw", "returned", "closed", "dead"}
Finished == {"done", "failed", "closed"}

Branches == DOMAIN branches
Parallel == Len(branches) > 1
Quiet == \A b \in Branches : branches[b].pc \in Finished
Errored == \E b \in Branches : branches[b].pc = "failed"

\* ctx.signal as a branch sees it.
BranchAborted == aborted \/ (Parallel /\ Errored)

\* Where the generator of a wrapper first stands.
FirstPc(wrap) == CASE wrap = "retry" -> "attempting"
                   [] wrap \in {"while", "gate", "match"} -> "testing"
                   [] wrap = "sub" -> "entering"
                   [] OTHER -> "working"

NewBranch(wrap) ==
  [wrap |-> wrap, pc |-> FirstPc(wrap), count |-> 0, before |-> FALSE,
   emitted |-> FALSE, cut |-> FALSE]

-----------------------------------------------------------------------------
(* runPipeline.                                                            *)

Terminates(frame) ==
  /\ frames' = Append(frames, frame)
  /\ pos' = IF frame = "cancelled" THEN "cancelling" ELSE "ended"
  /\ UNCHANGED <<at, branches, fanoutVars>>

\* Mutant: a resumed run skips whatever has a key.
RestUnkeyed == {k \in (at + 1)..Len(phases) : skipped = {} \/ ~phases[k].keyed}

Rest == {k \in (at + 1)..Len(phases) : k \notin skipped}

\* The loop goes on behind phase at: the abort check of the next round, the
\* phases that are skipped, and the first step into one that is not.
Enter ==
  IF aborted /\ at < Len(phases) THEN Terminates("cancelled")
  ELSE IF Rest = {} THEN Terminates("done")
  ELSE \E k \in Rest :
         /\ \A j \in Rest : k <= j
         /\ at' = k /\ pos' = "running"
         /\ branches' = [b \in DOMAIN phases[k].wraps |-> NewBranch(phases[k].wraps[b])]
         /\ IF phases[k].wraps = <<"fanout">>
            THEN \E o \in FanoutOptions : CallAny(o)
            ELSE UNCHANGED fanoutVars
         /\ UNCHANGED frames

\* Mutant: ctx.stop is not looked at.
EntersOn == Enter

StopsOrEnters == IF stop THEN Terminates("stopped") ELSE Enter

\* Mutant: the signal is not looked at behind a phase.
ReturnsUnchecked ==
  IF phases[at].keyed
  THEN pos' = "yielded" /\ UNCHANGED <<at, branches, frames, fanoutVars>>
  ELSE StopsOrEnters

\* yield* phase.run(ctx) is exhausted.
Returns ==
  IF aborted THEN Terminates("cancelled")
  ELSE IF phases[at].keyed
  THEN pos' = "yielded" /\ UNCHANGED <<at, branches, frames, fanoutVars>>
  ELSE StopsOrEnters

\* Mutant: a parallelPhases ends with the branch that ends first.
SomeBranchFinished == \E b \in Branches : branches[b].pc \in Finished

\* while (running > 0 || queue.length > 0), and await allDone.
AllBranchesFinished == queue = 0 /\ Quiet

PhaseEnds ==
  /\ pos = "running" /\ ~suspended /\ AllBranchesFinished
  /\ IF Errored
     THEN pos' = "threw" /\ UNCHANGED <<at, branches, frames, fanoutVars, full>>
     ELSE /\ Returns
          /\ full' = IF \E b \in Branches : branches[b].cut THEN full ELSE full \cup {at}
  /\ UNCHANGED <<phases, stop, queue, suspended, skipped, logged, life, stoppedAt, aborted>>

\* The consumer has the phase_complete event and records it.
Records ==
  /\ pos = "yielded"
  /\ pos' = "recorded" /\ logged' = logged \cup {at}
  /\ UNCHANGED <<phases, at, stop, branches, queue, suspended, skipped, frames, life,
                 full, stoppedAt, fanoutVars, aborted>>

\* The consumer asks for the next event behind one runPipeline yielded.
Resumes ==
  /\ \/ pos = "recorded" /\ StopsOrEnters
     \/ /\ pos \in {"cancelling", "ended"}
        /\ pos' = IF pos = "ended" THEN "returned" ELSE "threw"
        /\ UNCHANGED <<at, branches, frames, fanoutVars>>
  /\ UNCHANGED <<phases, stop, queue, suspended, skipped, logged, life, full, stoppedAt, aborted>>

\* The consumer takes an event of a phase.
Takes ==
  /\ pos = "running"
  /\ \/ suspended /\ suspended' = FALSE /\ UNCHANGED queue
     \/ ~suspended /\ queue > 0 /\ suspended' = TRUE /\ queue' = queue - 1
  /\ UNCHANGED <<phases, at, pos, stop, branches, skipped, logged, frames, life,
                 full, stoppedAt, fanoutVars, aborted>>

\* The consumer calls return(): a phase is closed at its yield, and the
\* branches of a parallelPhases go on behind it.
Closes ==
  /\ (pos = "running" /\ suspended) \/ pos \in {"yielded", "recorded", "cancelling", "ended"}
  /\ pos' = "closed" /\ suspended' = FALSE
  /\ branches' = IF Parallel \/ pos # "running" THEN branches
                  ELSE [branches EXCEPT ![1].pc = "closed"]
  /\ UNCHANGED <<phases, at, stop, queue, skipped, logged, frames, life,
                 full, stoppedAt, fanoutVars, aborted>>

-----------------------------------------------------------------------------
(* The branches.                                                           *)

At_(b, wraps, pc) ==
  /\ pos \in {"running", "closed"} /\ (Parallel \/ ~suspended)
  /\ branches[b].wrap \in wraps /\ branches[b].pc = pc

Becomes(b, next) ==
  /\ branches' = [branches EXCEPT ![b] = next]
  /\ UNCHANGED <<queue, suspended>>

\* A yield of the branch: in a parallelPhases it is queued, behind a closed
\* one for nobody.
Emits(b, next) ==
  /\ branches' = [branches EXCEPT ![b] = next]
  /\ IF Parallel
     THEN /\ pos = "closed" \/ queue < MaxQueue
          /\ queue' = IF pos = "closed" THEN queue ELSE queue + 1
          /\ UNCHANGED suspended
     ELSE suspended' = TRUE /\ UNCHANGED queue

Goes_(b, pc) == [branches[b] EXCEPT !.pc = pc]

\* ctx.stop is set, by what may not set it again.
StopSet == stop' = TRUE /\ stoppedAt' = at
KeepStop == UNCHANGED <<stop, stoppedAt>>

BranchRest == UNCHANGED <<phases, at, pos, skipped, logged, life, full, aborted>>

LeafEmits(b) ==
  /\ At_(b, Wrappers \ {"fanout"}, "working") /\ ~branches[b].emitted
  /\ Emits(b, [branches[b] EXCEPT !.emitted = TRUE])
  /\ KeepStop

\* In a subPipeline the ctx that is stopped is its own; under withRetry a
\* stop is a failure and may be undone.
LeafStops(b) ==
  /\ At_(b, {"plain", "retry", "while", "match"}, "working") /\ ~stop
  /\ Becomes(b, branches[b])
  /\ IF branches[b].wrap = "retry" THEN stop' = TRUE /\ UNCHANGED stoppedAt ELSE StopSet

\* phase.run(ctx) returns or throws under withRetry.
RetryEnds(b, threw, now) ==
  \/ /\ ~threw /\ ~stop
     /\ Becomes(b, [now EXCEPT !.pc = "done"]) /\ UNCHANGED stop
  \/ /\ (threw \/ stop) /\ now.count = Tries
     /\ Becomes(b, [now EXCEPT !.pc = IF threw THEN "failed" ELSE "done"]) /\ UNCHANGED stop
  \/ /\ (threw \/ stop) /\ now.count < Tries
     /\ \/ stop' = branches[b].before
           /\ \E pc \in {"sleeping", "failed"} : Becomes(b, [now EXCEPT !.pc = pc])
        \/ UNCHANGED stop /\ Becomes(b, [now EXCEPT !.pc = "failed"])

AtMaxIterations(n) == n = MaxIterations

WhileEnds(b, now) ==
  /\ IF stop THEN Becomes(b, [now EXCEPT !.pc = "done"])
     ELSE LET turned == [now EXCEPT !.count = @ + 1] IN
       IF AtMaxIterations(turned.count)
       THEN Emits(b, [turned EXCEPT !.pc = "maxed"])
       ELSE Becomes(b, [turned EXCEPT !.pc = "testing"])
  /\ UNCHANGED stop

\* The inner runPipeline: its abort check, done, and mapOutput().
SubEnds(b, now) ==
  /\ Emits(b, [now EXCEPT !.pc = IF BranchAborted THEN "innerCancelled" ELSE "mapping"])
  /\ UNCHANGED stop

\* The leaf returns; early if it notices the abort.
LeafReturns(b) ==
  /\ At_(b, Wrappers \ {"fanout"}, "working")
  /\ \E cut \in {FALSE, BranchAborted} :
       LET now == [branches[b] EXCEPT !.cut = @ \/ cut, !.emitted = FALSE] IN
       CASE now.wrap \in {"plain", "match"} -> Becomes(b, [now EXCEPT !.pc = "done"]) /\ KeepStop
         [] now.wrap = "gate" -> Becomes(b, [now EXCEPT !.pc = "done"]) /\ StopSet
         [] now.wrap = "retry" -> RetryEnds(b, FALSE, now) /\ UNCHANGED stoppedAt
         [] now.wrap = "while" -> WhileEnds(b, now) /\ UNCHANGED stoppedAt
         [] now.wrap = "sub" -> SubEnds(b, now) /\ UNCHANGED stoppedAt

LeafThrows(b) ==
  /\ At_(b, Wrappers \ {"fanout"}, "working")
  /\ LET now == [branches[b] EXCEPT !.emitted = FALSE] IN
     IF now.wrap = "retry" THEN RetryEnds(b, TRUE, now)
     ELSE Becomes(b, [now EXCEPT !.pc = "failed"]) /\ UNCHANGED stop
  /\ UNCHANGED stoppedAt

\* A phase that awaits boundedFanout, with ctx.signal.
FanoutEnds(b) ==
  /\ At_(b, {"fanout"}, "working") /\ outcome # "pending"
  /\ Becomes(b, [branches[b] EXCEPT
       !.pc = IF outcome = "resolved" THEN "done" ELSE "failed",
       !.cut = \E i \in Items : results[i] = "aborted"])
  /\ KeepStop
  /\ Forget

-----------------------------------------------------------------------------
(* withRetry.                                                              *)

Attempts(b) ==
  /\ At_(b, {"retry"}, "attempting")
  /\ Emits(b, [branches[b] EXCEPT !.pc = "clearing", !.count = @ + 1])
  /\ KeepStop

\* stopBefore = ctx.stop; ctx.stop = undefined
Clears(b) ==
  /\ At_(b, {"retry"}, "clearing")
  /\ Becomes(b, [branches[b] EXCEPT !.pc = "working", !.before = stop])
  /\ stop' = FALSE
  /\ UNCHANGED stoppedAt

\* Mutant: an abort leaves the sleep unsettled.
SleepsOut(b) ==
  /\ At_(b, {"retry"}, "sleeping") /\ ~BranchAborted
  /\ Becomes(b, Goes_(b, "attempting"))
  /\ KeepStop

\* abortableSleep()
Wakes(b) ==
  /\ At_(b, {"retry"}, "sleeping")
  /\ Becomes(b, Goes_(b, IF BranchAborted THEN "failed" ELSE "attempting"))
  /\ KeepStop

-----------------------------------------------------------------------------
(* whileCondition, intentGate, match and subPipeline.                      *)

\* predicate(), classify() or selector() answers; all of them yield then.
Tests(b) ==
  /\ At_(b, {"while", "gate", "match"}, "testing")
  /\ \/ /\ branches[b].wrap = "while"
        /\ \E pc \in {"converged", "working"} : Emits(b, Goes_(b, pc))
     \/ /\ branches[b].wrap \in {"gate", "match"}
        /\ Emits(b, Goes_(b, "routing"))
     \/ Becomes(b, Goes_(b, "failed"))
  /\ KeepStop

Converges(b) ==
  /\ At_(b, {"while"}, "converged")
  /\ Becomes(b, Goes_(b, "done")) /\ KeepStop

ReachesMax(b) ==
  /\ At_(b, {"while"}, "maxed")
  /\ Becomes(b, Goes_(b, "done")) /\ StopSet

\* route(): go on, stop, or stop behind a handler.
Routes(b) ==
  /\ At_(b, {"gate"}, "routing")
  /\ \/ /\ \E pc \in {"done", "working", "failed"} : Becomes(b, Goes_(b, pc))
        /\ KeepStop
     \/ Becomes(b, Goes_(b, "done")) /\ StopSet

\* A case, or none.
Chooses(b) ==
  /\ At_(b, {"match"}, "routing")
  /\ \E pc \in {"done", "working"} : Becomes(b, Goes_(b, pc))
  /\ KeepStop

\* The resolver or mapInput() throws, or the inner runPipeline begins.
SubEnters(b) ==
  /\ At_(b, {"sub"}, "entering")
  /\ \/ Becomes(b, Goes_(b, "failed"))
     \/ ~BranchAborted /\ Becomes(b, Goes_(b, "working"))
     \/ BranchAborted /\ Emits(b, Goes_(b, "innerCancelled"))
  /\ KeepStop

SubLeaves(b) ==
  /\ \/ /\ At_(b, {"sub"}, "innerCancelled")
        /\ Becomes(b, Goes_(b, "failed"))
     \/ /\ At_(b, {"sub"}, "mapping")
        /\ \E pc \in {"done", "failed"} : Becomes(b, Goes_(b, pc))
  /\ KeepStop

Pattern(b) == \/ Attempts(b) \/ Clears(b) \/ Wakes(b)
              \/ Tests(b) \/ Converges(b) \/ ReachesMax(b) \/ Routes(b) \/ Chooses(b)
              \/ SubEnters(b) \/ SubLeaves(b)

BranchStep(b) ==
  /\ \/ /\ LeafEmits(b) \/ LeafStops(b) \/ LeafReturns(b) \/ LeafThrows(b) \/ Pattern(b)
        /\ UNCHANGED fanoutVars
     \/ FanoutEnds(b)
  /\ BranchRest /\ UNCHANGED frames

-----------------------------------------------------------------------------
(* Lives.                                                                  *)

\* runPipeline is called, for the first time or with resume.completedKeys
\* taken from the recorded events.
Start ==
  /\ pos \in Over /\ Quiet /\ life < MaxLives
  /\ life' = life + 1
  /\ pos' = "entering" /\ at' = 0
  /\ skipped' = logged
  /\ stop' = FALSE /\ stoppedAt' = 0
  /\ branches' = <<>> /\ queue' = 0 /\ suspended' = FALSE /\ frames' = <<>>
  /\ aborted' \in BOOLEAN
  /\ UNCHANGED <<phases, logged, full, fanoutVars>>

Begins ==
  /\ pos = "entering" /\ Enter
  /\ UNCHANGED <<phases, stop, queue, suspended, skipped, logged, life, full, stoppedAt, aborted>>

Crash ==
  /\ pos \notin Over \/ ~Quiet
  /\ pos' = "dead" /\ branches' = <<>> /\ Forget
  /\ UNCHANGED <<phases, at, stop, queue, suspended, skipped, logged, frames, life, full,
                 stoppedAt, aborted>>

PipelineInit ==
  /\ phases \in Pipelines
  /\ at = 0 /\ pos = "idle" /\ stop = FALSE
  /\ branches = <<>> /\ queue = 0 /\ suspended = FALSE
  /\ skipped = {} /\ logged = {} /\ frames = <<>> /\ life = 0
  /\ full = {} /\ stoppedAt = 0
  /\ FanoutInit

PipelineStep == \/ Begins \/ PhaseEnds \/ Records \/ Resumes \/ Takes
                \/ \E b \in Branches : BranchStep(b)
                \/ AnyFanoutStep /\ UNCHANGED pipeVars

PipelineNext == \/ PipelineStep \/ Start \/ Closes \/ Crash
                \/ Abort /\ UNCHANGED pipeVars

\* Promises settle and the consumer reads on.
PipelineSpec == PipelineInit /\ [][PipelineNext]_vars /\ WF_vars(PipelineStep)

-----------------------------------------------------------------------------
(* Properties.                                                             *)

\* A phase is only recorded as complete if it did all of its work: one that
\* noticed the abort and returned early never is, whenever the abort came.
CheckpointsTruthful == logged \subseteq full

\* A pipeline that is done has done the work of every phase, in this life or
\* in an earlier one that recorded it, wherever that one ended or died.
ResumeCovers ==
  (pos = "ended" /\ frames = <<"done">>) => 1..Len(phases) \subseteq full

\* No phase begins behind one that set ctx.stop.  Not so beside a withRetry
\* in one parallelPhases, which clears ctx.stop for its attempts.
StopHalts == stoppedAt # 0 => at = stoppedAt

\* When runPipeline has ended, unless its consumer closed it, no branch and
\* no fanout worker of it goes on.
QuietAtEnd == pos \in {"threw", "returned"} => Quiet /\ outcome # "pending"

\* runPipeline ends, whatever is aborted, retried or cancelled on the way.
PipelineEnds == (pos = "entering") ~> (pos \in Over)
==============================================================================
