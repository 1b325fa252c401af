----------------------------- MODULE RunTrigger -----------------------------
(***************************************************************************)
(* runTrigger (triggers/run-trigger.ts) over a TimerTrigger: a loop that   *)
(* pulls events and dispatches a pipeline for each, at most MaxConcurrency *)
(* at a time, with stop() and cancel(id) called at any moment.  With a     *)
(* JobRunner (persisted) the job row is created before the pipeline runs.  *)
(*                                                                         *)
(* A pipeline is "running" up to its last look at the signal, "checked"    *)
(* behind it.  A pipeline that ends leaves inflight in the same step: the  *)
(* reaction that deletes it precedes every other reaction to its promise.  *)
(***************************************************************************)
EXTENDS TimerTrigger, FiniteSets

CONSTANT Options  \* the options runTrigger may be called with

\* options.maxConcurrency, and whether options.jobRunner is given.
ASSUME OptionsAssumption == Options \subseteq [requested: Nat, persisted: BOOLEAN]

VARIABLES
  options,
  aborted,
  loopPc,     \* "pulling", "arrived", "blocked", "settling" or "exited"
  failed,     \* done will reject
  dispatches, \* per event id: the state of its dispatch
  cancelled,  \* ids whose controller is aborted
  delegated,  \* ids jobRunner.cancel() was called for
  signalled   \* ids whose run has an aborted signal

loopVars == <<aborted, loopPc, failed>>
dispatchVars == <<options, dispatches, cancelled, delegated, signalled>>
vars == <<timerVars, loopVars, dispatchVars>>

EventIds == 1..MaxEvents
DispatchStates == {"none", "creating", "running", "checked", "completed", "failed"}

inflight == {e \in EventIds : dispatches[e] \in {"creating", "running", "checked"}}
dispatched == {e \in EventIds : dispatches[e] # "none"}

\* Mutant: no clamp.
Unclamped == options.requested

MaxConcurrency == IF options.requested < 1 THEN 1 ELSE options.requested

\* Mutant: an event more than the cap allows is let through.
RoomForOneMore == Cardinality(inflight) <= MaxConcurrency

HasRoom == Cardinality(inflight) < MaxConcurrency

-----------------------------------------------------------------------------
(* The loop.                                                               *)

\* The event the generator yielded last is the one the loop holds.
Arrives ==
  /\ loopPc = "pulling" /\ genPc = "made"
  /\ genPc' = "suspended"
  /\ loopPc' = "arrived"
  /\ UNCHANGED <<stopped, seq, aborted, failed, dispatchVars>>

\* The loop is left; for await closes the generator.
Leave(rejecting) ==
  /\ loopPc' = "settling"
  /\ genPc' = IF genPc = "threw" THEN "threw" ELSE "returned"
  /\ failed' = rejecting
  /\ UNCHANGED <<stopped, seq, aborted, dispatchVars>>

\* Mutant: an event that finds the cap full is skipped.
SkipsAtCapacity ==
  /\ loopPc = "arrived" /\ ~aborted /\ ~HasRoom
  /\ loopPc' = "pulling"
  /\ genPc' = Pulled
  /\ UNCHANGED <<stopped, seq, aborted, failed, dispatchVars>>

BlocksAtCapacity ==
  /\ loopPc = "arrived" /\ ~aborted /\ ~HasRoom
  /\ loopPc' = "blocked"
  /\ UNCHANGED <<timerVars, aborted, failed, dispatchVars>>

\* Promise.race() settles only when a dispatch does, aborted or not.
Proceeds == loopPc = "arrived" \/ (loopPc = "blocked" /\ HasRoom)

\* if (aborted) break, before and after the wait.
BreaksOut == Proceeds /\ aborted /\ Leave(FALSE)

\* Mutant: the dispatch is part of the wait for a slot, which goes on.
WaitsOn == loopPc

\* The loop awaits the next event.
AwaitsNext == "pulling"

\* dispatch(), then next().
Dispatches ==
  /\ Proceeds /\ HasRoom /\ ~aborted
  /\ dispatches' = [dispatches EXCEPT ![seq] = IF options.persisted THEN "creating" ELSE "running"]
  /\ loopPc' = AwaitsNext
  /\ genPc' = Pulled
  /\ UNCHANGED <<stopped, seq, aborted, failed, options, cancelled, delegated, signalled>>

\* onCapacityFull(), onDispatchStart() or the factory throws: the loop ends.
CallbackThrows == Proceeds /\ ~aborted /\ Leave(TRUE)

GeneratorEnds ==
  /\ loopPc = "pulling" /\ genPc \in {"returned", "threw"}
  /\ Leave(genPc = "threw")

\* Promise.allSettled()
AllSettled == inflight = {}

Exits ==
  /\ loopPc = "settling" /\ AllSettled
  /\ loopPc' = "exited"
  /\ UNCHANGED <<timerVars, aborted, failed, dispatchVars>>

\* Also the listener on options.signal.
Stop ==
  /\ ~aborted
  /\ aborted' = TRUE
  /\ stopped' = TRUE
  /\ UNCHANGED <<genPc, seq, loopPc, failed, dispatchVars>>

-----------------------------------------------------------------------------
(* The dispatches.                                                         *)

Becomes(e, state) ==
  /\ dispatches' = [dispatches EXCEPT ![e] = state]
  /\ UNCHANGED <<timerVars, loopVars, options, cancelled, delegated>>

\* Mutant: only an abort that is still to come reaches the run.
SignalsToCome(e) == signalled

\* run() chains ctx.signal to its own; the one of a dispatch that is cancelled
\* by then is aborted already, and no listener of it will be called.
SignalsChained(e) == IF e \in cancelled THEN signalled \cup {e} ELSE signalled

\* jobRunner.create(), then onStart(), the abort listener and run().
Created(e) ==
  /\ dispatches[e] = "creating" /\ Becomes(e, "running")
  /\ signalled' = SignalsChained(e)

\* The pipeline and its runner look at the signal of the run.
PassesLastCheck(e) ==
  /\ dispatches[e] = "running" /\ e \notin signalled
  /\ Becomes(e, "checked") /\ UNCHANGED signalled

Completes(e) == dispatches[e] = "checked" /\ Becomes(e, "completed") /\ UNCHANGED signalled

\* create(), onStart(), the pipeline or onComplete() throws.
Fails(e) == e \in inflight /\ Becomes(e, "failed") /\ UNCHANGED signalled

DispatchStep(e) == Created(e) \/ PassesLastCheck(e) \/ Completes(e) \/ Fails(e)

\* cancel(id) that answers true.  Before create() has returned there is no
\* listener, and no run, to be reached.
Cancel(e) ==
  /\ e \in inflight \ cancelled
  /\ cancelled' = cancelled \cup {e}
  /\ IF dispatches[e] = "creating"
     THEN UNCHANGED <<delegated, signalled>>
     ELSE /\ signalled' = signalled \cup {e}
          /\ delegated' = IF options.persisted THEN delegated \cup {e} ELSE delegated
  /\ UNCHANGED <<timerVars, loopVars, options, dispatches>>

-----------------------------------------------------------------------------
\* options.signal may be aborted before the call.  The first next() is made
\* by the call itself.
Init ==
  /\ stopped \in BOOLEAN /\ seq = 0
  /\ options \in Options
  /\ genPc = FirstPulled
  /\ aborted = stopped
  /\ loopPc = "pulling" /\ failed = FALSE
  /\ dispatches = [e \in EventIds |-> "none"]
  /\ cancelled = {} /\ delegated = {} /\ signalled = {}

Loop == Arrives \/ BlocksAtCapacity \/ BreaksOut \/ Dispatches \/ CallbackThrows
        \/ GeneratorEnds \/ Exits
Source(A) == A /\ UNCHANGED <<loopVars, dispatchVars>>

Next ==
  \/ Loop
  \/ Source(Generator) \/ Source(Payload)
  \/ Stop
  \/ \E e \in EventIds : DispatchStep(e) \/ Cancel(e)

Spec == Init /\ [][Next]_vars

\* Promise reactions and the timer run, and pipelines end.  Nothing is
\* assumed of the payload factory, nor that anybody stops the trigger.
FairSpec ==
  /\ Spec
  /\ WF_vars(Loop) /\ WF_vars(Source(Generator))
  /\ \A e \in EventIds : WF_vars(DispatchStep(e))

-----------------------------------------------------------------------------
(* Properties.                                                             *)

\* An event arrives before it is dispatched, and a loop that was left has no
\* generator any more.
TriggerTypeOK ==
  /\ options \in Options
  /\ stopped \in BOOLEAN /\ aborted \in BOOLEAN /\ failed \in BOOLEAN
  /\ genPc \in GenPcs /\ seq \in 0..MaxEvents
  /\ loopPc \in {"pulling", "arrived", "blocked", "settling", "exited"}
  /\ dispatches \in [EventIds -> DispatchStates]
  /\ delegated \subseteq signalled /\ signalled \subseteq cancelled
  /\ cancelled \subseteq dispatched
  /\ dispatched \subseteq 1..seq
  /\ loopPc \in {"settling", "exited"} => genPc \in {"returned", "threw"}

\* At most maxConcurrency pipelines are in flight.
CapRespected == Cardinality(inflight) <= MaxConcurrency

\* Of the events that were pulled only the last can miss its dispatch.
OnlyLastMissed == \A e \in EventIds : e < seq => e \in dispatched

\* Events are dispatched in the order they arrive, and none a second time:
\* not behind a wait for a slot, and not once its pipeline has settled.
DispatchedOnce ==
  [][\A e \in EventIds :
       /\ e \in dispatched' \ dispatched => \A d \in dispatched : d < e
       /\ e \in dispatched \ inflight => dispatches'[e] = dispatches[e]
       /\ dispatches[e] \in {"running", "checked"} => dispatches'[e] # "creating"]_vars

\* done resolves, or rejects, after every pipeline has settled.
DoneAfterPipelines == loopPc = "exited" => inflight = {}

\* A job that is cancelled while its row is being created does not complete,
\* although nothing was there yet that cancel() could have reached.
EarlyCancelHonoured ==
  options.persisted =>
    \A e \in cancelled \ delegated : dispatches[e] \notin {"checked", "completed"}

\* An event that waits for a slot gets it, unless the loop dies or stop() is
\* called, which drops the event.
WaitingGetsSlot == \A e \in EventIds :
  (loopPc = "blocked" /\ seq = e) ~> (e \in dispatched \/ aborted \/ failed)
=============================================================================
