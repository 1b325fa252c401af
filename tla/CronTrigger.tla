----------------------------- MODULE CronTrigger -----------------------------
(***************************************************************************)
(* CronTrigger (helpers/schedule.ts), the cron form of schedule(): the     *)
(* generator loads the parser, waits for the next date and yields.  Its    *)
(* interval form is a TimerTrigger without a payload factory.              *)
(***************************************************************************)
EXTENDS TimerTrigger

\* The first next(), which loads the parser.
CronPulled == IF stopped THEN "returned" ELSE "loading"

\* The loaded parser reads the expression and a timer is set, unless stop()
\* came in the meantime.
ParserLoads ==
  /\ genPc = "loading"
  /\ genPc' = Pulled
  /\ UNCHANGED <<stopped, seq>>

\* The module is missing, or the expression makes no sense.
ParserFails ==
  /\ genPc = "loading"
  /\ genPc' = "threw"
  /\ UNCHANGED <<stopped, seq>>

\* The timer fires.
CronElapses == seq < MaxEvents /\ IntervalElapses

\* waitOrStop() answered true, which a later stop() does not take back.
CronYields ==
  /\ genPc = "elapsed"
  /\ seq' = seq + 1
  /\ genPc' = "made"
  /\ UNCHANGED stopped

Cron == ParserLoads \/ CronElapses \/ WaitStopped \/ CronYields
=============================================================================
