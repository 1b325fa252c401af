---------------------------- MODULE TimerTrigger ----------------------------
(***************************************************************************)
(* TimerTrigger (triggers/timer-trigger.ts): an async generator of events. *)
(* A consumer calls next(); the generator waits for the interval, calls    *)
(* the payload factory and yields, unless stop() comes first.  A payload   *)
(* factory may settle late, never, or reject.                              *)
(*                                                                         *)
(* stop() is synchronous in its effects, so it is one step; everything the *)
(* generator does between two awaits is one step too.  A payload that      *)
(* settles after stop() won the race only counts seq up, which nobody can  *)
(* see any more: it is left out.                                           *)
(***************************************************************************)
EXTENDS Integers

CONSTANTS
  FireImmediately,  \* TimerTriggerOptions.fireImmediately
  MaxEvents         \* bound: events made

ASSUME FireImmediatelyAssumption == FireImmediately \in BOOLEAN
ASSUME MaxEventsAssumption == MaxEvents \in Nat

VARIABLES
  stopped,
  genPc,  \* where the generator is
  seq     \* the id of the last event made

timerVars == <<stopped, genPc, seq>>

\* "suspended" waits for next(); "returned" and "threw" are final.  Other
\* triggers are "loading" or "starting" in the first next().
GenPcs == {"loading", "starting", "suspended", "waiting", "elapsed", "making", "made",
           "returned", "threw"}

\* Where next() takes the generator, the first time and later.
FirstPulled == IF stopped THEN "returned" ELSE IF FireImmediately THEN "making" ELSE "waiting"
Pulled == IF stopped THEN "returned" ELSE "waiting"

\* waitOrStop(): stop() clears the timer and resolves the wait with false.
IntervalElapses ==
  /\ genPc = "waiting" /\ ~stopped
  /\ genPc' = "elapsed"
  /\ UNCHANGED <<stopped, seq>>

WaitStopped ==
  /\ genPc = "waiting" /\ stopped
  /\ genPc' = "returned"
  /\ UNCHANGED <<stopped, seq>>

\* makeEventOrStop(): a stop() since the timer fired is noticed at the call.
AskPayload ==
  /\ genPc = "elapsed"
  /\ genPc' = IF stopped THEN "returned" ELSE "making"
  /\ UNCHANGED <<stopped, seq>>

PayloadResolves ==
  /\ genPc = "making" /\ ~stopped /\ seq < MaxEvents
  /\ seq' = seq + 1
  /\ genPc' = "made"
  /\ UNCHANGED stopped

PayloadRejects ==
  /\ genPc = "making" /\ ~stopped
  /\ genPc' = "threw"
  /\ UNCHANGED <<stopped, seq>>

\* The race is lost by a payload that has not settled.
StopRaced == genPc = "making" /\ stopped

StopWins ==
  /\ StopRaced
  /\ genPc' = "returned"
  /\ UNCHANGED <<stopped, seq>>

\* What the generator does by itself, and what its payload factory does.
Generator == IntervalElapses \/ WaitStopped \/ AskPayload \/ StopWins
Payload == PayloadResolves \/ PayloadRejects
=============================================================================
