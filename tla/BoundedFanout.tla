---------------------------- MODULE BoundedFanout ----------------------------
(***************************************************************************)
(* boundedFanout (patterns/bounded-fanout.ts): workers that pull items     *)
(* from a shared cursor, with skip, retryItem, the two modes, fail-fast    *)
(* and the caller's signal.                                                *)
(*                                                                         *)
(* A worker is where it awaits: "skipping", "running" or "retrying"; what  *)
(* it does on resuming, up to its next await, is one step.                 *)
(***************************************************************************)
EXTENDS Integers, FiniteSets

CONSTANTS
  FanoutOptions,  \* the options boundedFanout may be called with
  MaxAttempts     \* bound: how often retryItem asks for another attempt

\* count is the number of items that maxItems leaves; agents says that
\* boundedFanoutOf is called.
ASSUME FanoutAssumption ==
  /\ FanoutOptions \subseteq [count: Nat, concurrency: Nat \ {0}, collect: BOOLEAN,
                              skip: BOOLEAN, retry: BOOLEAN, agents: BOOLEAN]
  /\ \A o \in FanoutOptions : o.skip => o.collect
  /\ MaxAttempts \in Nat

VARIABLES
  options,
  cursor,      \* items 1..cursor were pulled
  workers,     \* per worker, where it is and at which item
  results,     \* the slots
  firstError,  \* set, which also aborts failFastController
  aborted,     \* options.signal
  thrown,      \* callbacks that threw in this call (history)
  outcome

fanoutVars == <<options, cursor, workers, results, firstError, thrown, outcome>>

Items == 1..options.count
Least(a, b) == IF a < b THEN a ELSE b
Concurrency(o) == Least(o.concurrency, o.count)
Workers == 1..Concurrency(options)

Active == {"skipping", "running", "retrying"}
Slots == {"empty", "ok", "error", "skipped", "aborted"}
Callbacks == {"skip", "onItemSkipped", "onItemDone", "onItemError", "retryItem"}
busy == {workers[w].item : w \in {v \in Workers : workers[v].pc \in Active}}

\* signal.aborted || firstError
Halted == aborted \/ firstError

At(w, pc) == outcome = "pending" /\ workers[w].pc = pc
Item(w) == workers[w].item
Threw(callback) == thrown' = thrown \cup {callback}
Slot(w, value) == results' = [results EXCEPT ![Item(w)] = value]
Worker(o, item) == [pc |-> IF o.skip THEN "skipping" ELSE "running", item |-> item, attempt |-> 0]

NoOptions == [count |-> 0, concurrency |-> 1, collect |-> FALSE, skip |-> FALSE,
              retry |-> FALSE, agents |-> FALSE]

\* The call is over and its promise forgotten.
Forget ==
  /\ options' = NoOptions
  /\ cursor' = 0 /\ workers' = <<>> /\ results' = <<>>
  /\ firstError' = FALSE /\ thrown' = {}
  /\ outcome' = "idle"

-----------------------------------------------------------------------------
\* The slots of a call that is cancelled.
fillAbortedSlots(slots) == [i \in DOMAIN slots |-> IF slots[i] = "empty" THEN "aborted" ELSE slots[i]]

\* The call: no items, a signal that is aborted already, or every worker
\* pulls its first item.
Call(o) ==
  LET empty == [i \in 1..o.count |-> "empty"] IN
  /\ outcome # "pending"
  /\ options' = o
  /\ firstError' = FALSE /\ thrown' = {}
  /\ IF o.count = 0 \/ aborted
     THEN /\ outcome' = IF o.count = 0 \/ o.collect THEN "resolved" ELSE "rejected"
          /\ results' = fillAbortedSlots(empty)
          /\ cursor' = 0
          /\ workers' = [w \in 1..Concurrency(o) |-> [pc |-> "returned", item |-> 0, attempt |-> 0]]
     ELSE /\ outcome' = "pending"
          /\ results' = empty
          /\ cursor' = Concurrency(o)
          /\ workers' = [w \in 1..Concurrency(o) |-> Worker(o, w)]
  /\ UNCHANGED aborted

\* Mutant: a worker looks at the cursor only.
PullsOn(w) ==
  IF cursor < options.count
  THEN /\ cursor' = cursor + 1
       /\ workers' = [workers EXCEPT ![w] = Worker(options, cursor + 1)]
  ELSE /\ workers' = [workers EXCEPT ![w].pc = "returned"]
       /\ UNCHANGED cursor

\* The head of itemLoop.
Pull(w) ==
  IF ~Halted /\ cursor < options.count
  THEN /\ cursor' = cursor + 1
       /\ workers' = [workers EXCEPT ![w] = Worker(options, cursor + 1)]
  ELSE /\ workers' = [workers EXCEPT ![w].pc = "returned"]
       /\ UNCHANGED cursor

Goes(w, pc) == workers' = [workers EXCEPT ![w].pc = pc] /\ UNCHANGED cursor

-----------------------------------------------------------------------------
(* skip and onItemSkipped.                                                 *)

SkipAnswers(w) ==
  /\ At(w, "skipping")
  /\ \/ /\ Goes(w, "running")
        /\ UNCHANGED <<results, thrown>>
     \/ /\ Slot(w, "skipped")
        /\ \/ Pull(w) /\ UNCHANGED thrown
           \/ Goes(w, "rejected") /\ Threw("onItemSkipped")
  /\ UNCHANGED <<options, firstError, aborted, outcome>>

SkipThrows(w) ==
  /\ At(w, "skipping")
  /\ Goes(w, "rejected") /\ Threw("skip")
  /\ UNCHANGED <<options, results, firstError, aborted, outcome>>

-----------------------------------------------------------------------------
(* The runner settles; the catch clause.                                   *)

\* The failure is recorded and onItemError() called; threw is what it throws.
Record(w, slots, threw) ==
  /\ results' = IF options.collect THEN [slots EXCEPT ![Item(w)] = "error"] ELSE slots
  /\ firstError' = (firstError \/ (~aborted /\ (~options.collect \/ threw # {})))
  /\ IF threw = {} /\ options.collect THEN Pull(w) ELSE Goes(w, "returned")

\* The catch clause: a retry is asked for unless the signal is aborted.
\* earlier is the callback whose error it is, if it is not the runner's.
Fails(w, slots, earlier) ==
  /\ IF options.retry /\ ~Halted
     THEN /\ Goes(w, "retrying")
          /\ results' = slots
          /\ thrown' = thrown \cup earlier
          /\ UNCHANGED firstError
     ELSE \E threw \in SUBSET {"onItemError"} :
            Record(w, slots, threw) /\ thrown' = thrown \cup earlier \cup threw
  /\ UNCHANGED <<options, aborted, outcome>>

RunnerRejects(w) == At(w, "running") /\ Fails(w, results, {})

\* A result that arrives behind an abort or a failure is dropped.
RunnerResolves(w) ==
  /\ At(w, "running")
  /\ IF Halted THEN Goes(w, "returned") /\ UNCHANGED results
               ELSE Pull(w) /\ Slot(w, "ok")
  /\ UNCHANGED <<options, firstError, aborted, thrown, outcome>>

\* onItemDone() is called inside the try: what it throws fails the item,
\* whose slot is written already.
ItemDoneThrows(w) ==
  /\ At(w, "running") /\ ~Halted
  /\ Fails(w, [results EXCEPT ![Item(w)] = "ok"], {"onItemDone"})

RetryAsked(w) ==
  /\ At(w, "retrying") /\ workers[w].attempt < MaxAttempts
  /\ workers' = [workers EXCEPT ![w] =
                   [pc |-> "running", item |-> Item(w), attempt |-> workers[w].attempt + 1]]
  /\ UNCHANGED <<options, cursor, results, firstError, aborted, thrown, outcome>>

RetryDeclined(w) ==
  /\ At(w, "retrying")
  /\ \E threw \in SUBSET {"onItemError"} : Record(w, results, threw) /\ thrown' = thrown \cup threw
  /\ UNCHANGED <<options, aborted, outcome>>

RetryThrows(w) ==
  /\ At(w, "retrying")
  /\ Goes(w, "rejected") /\ Threw("retryItem")
  /\ UNCHANGED <<options, results, firstError, aborted, outcome>>

WorkerStep(w) ==
  \/ SkipAnswers(w) \/ SkipThrows(w)
  \/ RunnerResolves(w) \/ RunnerRejects(w) \/ ItemDoneThrows(w)
  \/ RetryAsked(w) \/ RetryDeclined(w) \/ RetryThrows(w)

-----------------------------------------------------------------------------
\* Mutant: the rejections of workers are not looked at.
UnexpectedIgnored == FALSE

\* Promise.allSettled(), and a worker that rejected.
AllSettled == busy = {}
UnexpectedWorkerFailure == \E w \in Workers : workers[w].pc = "rejected"

\* Cancellation by the caller counts before any error.
SettleFanout ==
  /\ outcome = "pending" /\ AllSettled
  /\ firstError' = (firstError \/ (UnexpectedWorkerFailure /\ ~aborted))
  /\ results' = IF aborted /\ options.collect THEN fillAbortedSlots(results) ELSE results
  /\ outcome' = IF aborted THEN IF options.collect THEN "resolved" ELSE "rejected"
                ELSE IF firstError' THEN "rejected" ELSE "resolved"
  /\ UNCHANGED <<options, cursor, workers, aborted, thrown>>

FanoutStep == (\E w \in Workers : WorkerStep(w)) \/ SettleFanout

Abort == ~aborted /\ aborted' = TRUE /\ UNCHANGED fanoutVars

FanoutInit ==
  /\ options = NoOptions
  /\ cursor = 0 /\ workers = <<>> /\ results = <<>>
  /\ firstError = FALSE /\ aborted = FALSE /\ thrown = {}
  /\ outcome = "idle"

FanoutNext == \/ \E o \in FanoutOptions : Call(o)
              \/ FanoutStep \/ Abort
              \/ Forget /\ UNCHANGED aborted

FanoutSpec == FanoutInit /\ [][FanoutNext]_<<fanoutVars, aborted>>

-----------------------------------------------------------------------------
(* Properties.                                                             *)

\* A call that resolves has a slot for every item, in reject mode a result,
\* and an item without an outcome of its own only if the caller aborted; and
\* no callback threw, unless the caller aborted: all but onItemDone, whose
\* errors count as the item's, reject the call in both modes.
ResolvesHonestly ==
  outcome = "resolved" =>
    /\ \A i \in Items : results[i] # "empty"
    /\ \A i \in Items : results[i] # "ok" => options.collect
    /\ ~aborted => /\ \A i \in Items : results[i] # "aborted"
                   /\ thrown \subseteq {"onItemDone"}

Call_ == INSTANCE Batch WITH
  size <- options.count, cap <- Concurrency(options), taken <- cursor, halted <- Halted

\* The workers keep the promise of a batch.
ImplementsBatch == Call_!Spec
==============================================================================
