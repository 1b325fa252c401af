---------------------------- MODULE PipelineProofs --------------------------
(***************************************************************************)
(* Theorems about the two fanouts, for every number of items and workers   *)
(* and every combination of options: they keep the promise of a Batch, and *)
(* what they resolve to is honest.  Then theorems about Pipeline, for      *)
(* every set of pipelines, every wrapping of their branches and every      *)
(* number of lives: what is recorded was done, a resume leaves nothing     *)
(* out, ctx.stop halts, and no branch outlives its phase.                  *)
(***************************************************************************)
EXTENDS Pipeline, FiniteSetTheorems, TLAPS

\* A caller of either fanout, one call at a time.
AnyFanoutNext ==
  \/ \E o \in FanoutOptions : CallAny(o)
  \/ AnyFanoutStep
  \/ Abort
  \/ Forget /\ UNCHANGED aborted

AnyFanoutSpec == FanoutInit /\ [][AnyFanoutNext]_<<fanoutVars, aborted>>

-----------------------------------------------------------------------------
(* The invariant.                                                          *)

AllOptions == FanoutOptions \cup {NoOptions}
WorkerPcs == Active \cup {"pulling", "failing", "returned", "rejected"}
WorkerRecords == [pc: WorkerPcs, item: 0..options.count, attempt: Nat]
Outcomes == {"idle", "pending", "resolved", "rejected"}

FanoutTypeOK ==
  /\ options \in AllOptions
  /\ cursor \in 0..options.count
  /\ workers \in [Workers -> WorkerRecords]
  /\ results \in [Items -> Slots]
  /\ firstError \in BOOLEAN /\ aborted \in BOOLEAN
  /\ thrown \subseteq Callbacks \cup {"onItemEnd"}
  /\ outcome \in Outcomes

SomeRejected == \E w \in Workers : workers[w].pc = "rejected"

\* What an active worker works on was pulled.
BusyTaken ==
  \A w \in Workers : workers[w].pc \in Active => workers[w].item \in 1..cursor

\* A worker only stops pulling behind an error or an abort, or when all
\* items were pulled.
ReturnedHasReason ==
  \A w \in Workers : /\ workers[w].pc = "returned" => Halted \/ cursor = options.count
                     /\ workers[w].pc = "failing" => firstError

\* A pulled item has a worker or a slot.
PulledIsHandled ==
  \A i \in 1..cursor : i \in busy \/ results[i] # "empty" \/ Halted \/ SomeRejected

\* What stands in the slots, and which callbacks may have thrown.
SlotsExplained ==
  /\ \A i \in Items : /\ results[i] = "aborted" => Halted
                      /\ results[i] \notin {"empty", "ok"} => options.collect \/ Halted
  /\ thrown \subseteq {"onItemDone"} \/ Halted \/ SomeRejected

\* A call that is not settled.
PendingInv ==
  /\ options.count > 0
  /\ BusyTaken /\ ReturnedHasReason /\ PulledIsHandled /\ SlotsExplained
  /\ \A w \in Workers : /\ workers[w].pc = "skipping" => options.skip
                        /\ workers[w].pc = "pulling" => options.agents

FanoutInv ==
  /\ FanoutTypeOK
  /\ outcome = "pending" => PendingInv
  /\ ResolvesHonestly

-----------------------------------------------------------------------------
(* What a worker does in one step.                                         *)

\* Its item is finished with: it has a slot, or the call is going to fail.
Leaves(w, x) ==
  workers[w].pc \in Active =>
    results'[Item(w)] # "empty" \/ Halted' \/ x.pc = "rejected"

\* A worker becomes x, and takes the next item if x is a fresh one.
Moves(w, x) ==
  /\ workers' = [workers EXCEPT ![w] = x]
  /\ x.pc # "pulling" /\ (x.pc = "skipping" => options.skip)
  /\ \/ cursor' = cursor /\ x.pc \in Active /\ workers[w].pc \in Active /\ x.item = Item(w)
     \/ /\ cursor' = cursor + 1 /\ cursor < options.count /\ ~Halted
        /\ x.pc \in Active /\ x.item = cursor + 1
        /\ Leaves(w, x)
     \/ /\ cursor' = cursor /\ x.pc \notin Active
        /\ x.pc = "returned" => Halted' \/ cursor = options.count
        /\ x.pc = "failing" => firstError'
        /\ Leaves(w, x)

\* It may write the slot of its item.
Writes(w) ==
  \/ results' = results
  \/ /\ workers[w].pc \in Active
     /\ \E v \in Slots \ {"empty"} :
          /\ results' = [results EXCEPT ![Item(w)] = v]
          /\ v = "aborted" => Halted
          /\ v # "ok" => options.collect \/ Halted

WorkerActs(w, x) ==
  /\ outcome = "pending" /\ workers[w].pc # "rejected"
  /\ UNCHANGED <<options, aborted, outcome>>
  /\ firstError' \in {firstError, TRUE}
  /\ Moves(w, x) /\ Writes(w)
  /\ thrown' \subseteq Callbacks \cup {"onItemEnd"}
  /\ thrown' \subseteq thrown \cup {"onItemDone"} \/ Halted' \/ x.pc = "rejected"

-----------------------------------------------------------------------------
LEMMA OptionsTyped ==
  ASSUME NEW o \in AllOptions
  PROVE  /\ o.count \in Nat /\ o.concurrency \in Nat \ {0}
         /\ o.collect \in BOOLEAN /\ o.skip \in BOOLEAN /\ o.retry \in BOOLEAN
         /\ o.agents \in BOOLEAN /\ (o.skip => o.collect)
<1>1. CASE o = NoOptions
  BY <1>1, SMT DEF NoOptions
<1>2. CASE o \in FanoutOptions
  BY <1>2, FanoutAssumption, SMT
<1> QED BY <1>1, <1>2 DEF AllOptions

LEMMA ConcurrencyBounds ==
  ASSUME NEW o \in AllOptions
  PROVE  /\ Concurrency(o) \in 0..o.count
         /\ o.count > 0 => Concurrency(o) > 0
BY OptionsTyped, SMT DEF Concurrency, Least

\* The parts every action is made of.
LEMMA PullMoves ==
  ASSUME FanoutTypeOK, NEW w \in Workers, Pull(w),
         Leaves(w, workers'[w]), firstError' = firstError, UNCHANGED aborted
  PROVE  \E x \in WorkerRecords : Moves(w, x) /\ x.pc # "rejected"
<1> DEFINE fresh == Worker(options, cursor + 1)
           over == [workers[w] EXCEPT !.pc = "returned"]
<1>0. options \in AllOptions /\ options.count \in Nat /\ options.skip \in BOOLEAN
  BY OptionsTyped DEF FanoutTypeOK
<1>1. CASE ~Halted /\ cursor < options.count
  <2>1. fresh \in WorkerRecords /\ fresh.pc \in Active /\ fresh.item = cursor + 1
    BY <1>0, <1>1, SMT DEF Worker, WorkerRecords, WorkerPcs, Active, FanoutTypeOK
  <2>2. workers' = [workers EXCEPT ![w] = fresh] /\ cursor' = cursor + 1
    BY <1>1, Zenon DEF Pull
  <2>3. workers'[w] = fresh
    BY <2>2, SMT DEF FanoutTypeOK
  <2>4. Moves(w, fresh)
    <3>1. fresh.pc # "pulling" /\ (fresh.pc = "skipping" => options.skip)
      BY <1>0, SMT DEF Worker
    <3> QED BY <1>1, <2>1, <2>2, <2>3, <3>1, Zenon DEF Moves
  <2> QED BY <2>1, <2>4, SMT DEF Active
<1>2. CASE ~(~Halted /\ cursor < options.count)
  <2>1. over \in WorkerRecords /\ over.pc = "returned"
    BY SMT DEF WorkerRecords, WorkerPcs, FanoutTypeOK
  <2>2. workers' = [workers EXCEPT ![w] = over] /\ cursor' = cursor
    BY <1>2, SMT DEF Pull, FanoutTypeOK
  <2>3. workers'[w] = over
    BY <2>2, SMT DEF FanoutTypeOK
  <2>4. Halted' \/ cursor = options.count
    BY <1>0, <1>2, SMT DEF Halted, FanoutTypeOK
  <2>5. /\ over.pc \notin Active /\ over.pc # "failing" /\ over.pc # "rejected"
        /\ over.pc # "skipping" /\ over.pc # "pulling"
    BY <2>1, SMT DEF Active
  <2>6. Moves(w, over)
    BY <2>2, <2>3, <2>4, <2>5, Zenon DEF Moves
  <2> QED BY <2>1, <2>5, <2>6, Zenon
<1> QED BY <1>1, <1>2

LEMMA GoesMoves ==
  ASSUME FanoutTypeOK, NEW w \in Workers, NEW pc \in WorkerPcs \ {"skipping", "pulling"}, Goes(w, pc),
         \/ pc \in Active /\ workers[w].pc \in Active
         \/ /\ pc \notin Active
            /\ pc = "returned" => Halted' \/ cursor = options.count
            /\ pc = "failing" => firstError'
            /\ workers[w].pc \in Active =>
                 results'[Item(w)] # "empty" \/ Halted' \/ pc = "rejected"
  PROVE  \E x \in WorkerRecords : Moves(w, x) /\ x.pc = pc
<1> DEFINE next == [workers[w] EXCEPT !.pc = pc]
<1>1. /\ next \in WorkerRecords /\ next.pc = pc /\ next.item = Item(w)
  BY SMT DEF WorkerRecords, FanoutTypeOK, Item
<1>2. workers' = [workers EXCEPT ![w] = next] /\ cursor' = cursor
  BY SMT DEF Goes, FanoutTypeOK
<1>3. Moves(w, next)
  BY <1>1, <1>2, Zenon DEF Moves, Leaves
<1> QED BY <1>1, <1>3

\* A write and a move make a step of a worker.
LEMMA ActsIf ==
  ASSUME NEW w \in Workers, NEW x \in WorkerRecords, Moves(w, x), Writes(w),
         outcome = "pending", workers[w].pc # "rejected",
         UNCHANGED <<options, aborted, outcome>>,
         firstError' \in {firstError, TRUE},
         thrown' \subseteq Callbacks \cup {"onItemEnd"},
         thrown' \subseteq thrown \cup {"onItemDone"} \/ Halted' \/ x.pc = "rejected"
  PROVE  \E y \in WorkerRecords : WorkerActs(w, y)
BY DEF WorkerActs

LEMMA SlotWrites ==
  ASSUME NEW w \in Workers, NEW v \in Slots \ {"empty"}, Slot(w, v), workers[w].pc \in Active,
         v = "aborted" => Halted, v # "ok" => options.collect \/ Halted
  PROVE  Writes(w)
BY Zenon DEF Writes, Slot

LEMMA PendingFacts ==
  ASSUME FanoutInv, NEW w \in Workers, outcome = "pending"
  PROVE  /\ FanoutTypeOK /\ PendingInv
         /\ options.collect \in BOOLEAN /\ (options.skip => options.collect)
         /\ workers[w].pc \in Active => Item(w) \in Items
         /\ workers[w].pc = "skipping" => options.collect
<1>1. FanoutTypeOK /\ PendingInv
  BY DEF FanoutInv
<1>2. options.count \in Nat /\ options.collect \in BOOLEAN /\ (options.skip => options.collect)
  BY <1>1, OptionsTyped DEF FanoutTypeOK
<1>3. workers[w].pc \in Active => Item(w) \in Items
  BY <1>1, <1>2, SMT DEF PendingInv, BusyTaken, FanoutTypeOK, Item, Items
<1> QED BY <1>1, <1>2, <1>3 DEF PendingInv

\* The slot that was written, as read afterwards.
LEMMA SlotRead ==
  ASSUME FanoutTypeOK, NEW w \in Workers, Item(w) \in Items, NEW v, Slot(w, v)
  PROVE  results'[Item(w)] = v
BY SMT DEF FanoutTypeOK, Slot

LEMMA SkipAnswersActs ==
  ASSUME FanoutInv, NEW w \in Workers, SkipAnswers(w)
  PROVE  \E x \in WorkerRecords : WorkerActs(w, x)
<1>1. /\ outcome = "pending" /\ workers[w].pc = "skipping" /\ workers[w].pc \in Active
      /\ UNCHANGED <<options, firstError, aborted, outcome>>
      /\ workers[w].pc # "rejected"
  BY SMT DEF SkipAnswers, At, Active
<1>2. FanoutTypeOK /\ Item(w) \in Items /\ options.collect
  BY <1>1, PendingFacts
<1>3. thrown \subseteq Callbacks \cup {"onItemEnd"}
  BY <1>2 DEF FanoutTypeOK
<1>4. CASE Goes(w, "running") /\ UNCHANGED <<results, thrown>>
  <2>1. \E x \in WorkerRecords : Moves(w, x) /\ x.pc = "running"
    BY <1>1, <1>2, <1>4, GoesMoves DEF WorkerPcs, Active
  <2> QED BY <1>1, <1>3, <1>4, <2>1, ActsIf DEF Writes
<1>5. ASSUME Slot(w, "skipped") PROVE Writes(w) /\ results'[Item(w)] # "empty"
  <2>1. Writes(w)
    BY <1>1, <1>2, <1>5, SlotWrites DEF Slots
  <2> QED BY <2>1, <1>2, <1>5, SlotRead
<1>6. CASE Slot(w, "skipped") /\ Pull(w) /\ UNCHANGED thrown
  <2>1. \E x \in WorkerRecords : Moves(w, x) /\ x.pc # "rejected"
    BY <1>1, <1>2, <1>5, <1>6, PullMoves DEF Leaves
  <2> QED BY <1>1, <1>3, <1>5, <1>6, <2>1, ActsIf
<1>7. CASE Slot(w, "skipped") /\ Goes(w, "rejected") /\ Threw("onItemSkipped")
  <2>1. \E x \in WorkerRecords : Moves(w, x) /\ x.pc = "rejected"
    BY <1>1, <1>2, <1>7, GoesMoves DEF WorkerPcs, Active
  <2> QED BY <1>1, <1>3, <1>5, <1>7, <2>1, ActsIf DEF Threw, Callbacks
<1> QED BY <1>4, <1>6, <1>7 DEF SkipAnswers

LEMMA RejectsActs ==
  ASSUME FanoutInv, NEW w \in Workers, SkipThrows(w) \/ RetryThrows(w)
  PROVE  \E x \in WorkerRecords : WorkerActs(w, x)
<1>1. /\ outcome = "pending" /\ workers[w].pc \in Active
      /\ UNCHANGED <<options, results, firstError, aborted, outcome>>
      /\ workers[w].pc # "rejected"
      /\ Goes(w, "rejected")
      /\ \E c \in Callbacks : Threw(c)
  BY SMT DEF SkipThrows, RetryThrows, At, Active, Callbacks
<1>2. FanoutTypeOK
  BY DEF FanoutInv
<1>3. \E x \in WorkerRecords : Moves(w, x) /\ x.pc = "rejected"
  BY <1>1, <1>2, GoesMoves DEF WorkerPcs, Active
<1>4. thrown' \subseteq Callbacks \cup {"onItemEnd"}
  BY <1>1, <1>2 DEF Threw, FanoutTypeOK
<1> QED BY <1>1, <1>3, <1>4, ActsIf DEF Writes

\* record() in the mode that collects goes on, else it ends the worker.
LEMMA RecordActs ==
  ASSUME FanoutInv, NEW w \in Workers, NEW slots, NEW threw \in SUBSET {"onItemError"},
         NEW earlier \in SUBSET {"onItemDone"},
         outcome = "pending", workers[w].pc \in {"running", "retrying"},
         slots = results \/ slots = [results EXCEPT ![Item(w)] = "ok"],
         Record(w, slots, threw), thrown' = thrown \cup earlier \cup threw,
         UNCHANGED <<options, aborted, outcome>>
  PROVE  \E x \in WorkerRecords : WorkerActs(w, x)
<1>0. workers[w].pc \in Active /\ workers[w].pc # "rejected"
  BY DEF Active
<1>1. FanoutTypeOK /\ Item(w) \in Items /\ options.collect \in BOOLEAN
  BY <1>0, PendingFacts
<1>2. thrown' \subseteq Callbacks \cup {"onItemEnd"}
  BY <1>1, Zenon DEF FanoutTypeOK, Callbacks
<1>3. firstError' \in {firstError, TRUE}
  BY <1>1, Zenon DEF Record, FanoutTypeOK
<1>r. ASSUME options.collect PROVE Slot(w, "error")
  <2>1. results' = [slots EXCEPT ![Item(w)] = "error"]
    BY <1>r, Zenon DEF Record
  <2>2. results \in [Items -> Slots]
    BY <1>1 DEF FanoutTypeOK
  <2>3. results' = [results EXCEPT ![Item(w)] = "error"]
    <3>1. CASE slots = results
      BY <2>1, <3>1
    <3>2. CASE slots = [results EXCEPT ![Item(w)] = "ok"]
      BY <1>1, <2>1, <2>2, <3>2, SMT
    <3> QED BY <3>1, <3>2
  <2> QED BY <2>3 DEF Slot
<1>4. Writes(w)
  <2>1. CASE options.collect
    BY <1>0, <1>r, <2>1, SlotWrites DEF Slots
  <2>2. CASE ~options.collect
    <3>1. results' = slots
      BY <2>2, Zenon DEF Record
    <3>2. CASE slots = results
      BY <3>1, <3>2 DEF Writes
    <3>3. CASE slots = [results EXCEPT ![Item(w)] = "ok"]
      <4>1. Slot(w, "ok")
        BY <3>1, <3>3 DEF Slot
      <4> QED BY <1>0, <4>1, SlotWrites DEF Slots
    <3> QED BY <3>2, <3>3
  <2> QED BY <2>1, <2>2
<1>5. CASE threw = {} /\ options.collect
  <2>1. Pull(w)
    BY <1>5, Zenon DEF Record
  <2>a. firstError' = firstError
    BY <1>1, <1>5, Zenon DEF Record, FanoutTypeOK
  <2>b. results'[Item(w)] # "empty"
    BY <1>1, <1>5, <1>r, SlotRead
  <2>2. \E x \in WorkerRecords : Moves(w, x) /\ x.pc # "rejected"
    BY <1>1, <2>1, <2>a, <2>b, PullMoves DEF Leaves
  <2>3. thrown' \subseteq thrown \cup {"onItemDone"}
    BY <1>5
  <2> QED BY <1>0, <1>2, <1>3, <1>4, <2>2, <2>3, ActsIf
<1>6. CASE ~(threw = {} /\ options.collect)
  <2>0. Goes(w, "returned")
    BY <1>6, Zenon DEF Record
  <2>1. Halted'
    <3>1. firstError' = (firstError \/ (~aborted /\ (~options.collect \/ threw # {})))
      BY Zenon DEF Record
    <3>2. CASE aborted
      BY <3>2, Zenon DEF Halted
    <3>3. CASE ~aborted
      BY <1>6, <3>1, <3>3, Zenon DEF Halted
    <3> QED BY <3>2, <3>3
  <2>2. \E x \in WorkerRecords : Moves(w, x) /\ x.pc = "returned"
    BY <1>0, <1>1, <2>0, <2>1, GoesMoves DEF WorkerPcs, Active
  <2> QED BY <1>0, <1>2, <1>3, <1>4, <2>1, <2>2, ActsIf
<1> QED BY <1>5, <1>6

LEMMA FailsActs ==
  ASSUME FanoutInv, NEW w \in Workers, NEW slots, NEW earlier \in SUBSET {"onItemDone"},
         outcome = "pending", workers[w].pc = "running",
         slots = results \/ slots = [results EXCEPT ![Item(w)] = "ok"],
         Fails(w, slots, earlier)
  PROVE  \E x \in WorkerRecords : WorkerActs(w, x)
<1>1. /\ FanoutTypeOK /\ Item(w) \in Items
      /\ workers[w].pc \in Active /\ workers[w].pc # "rejected"
      /\ UNCHANGED <<options, aborted, outcome>>
  BY PendingFacts, SMT DEF Active, Fails
<1>2. CASE options.retry /\ ~Halted
  <2>1. /\ Goes(w, "retrying") /\ results' = slots /\ thrown' = thrown \cup earlier
        /\ firstError' = firstError
    BY <1>2, Zenon DEF Fails
  <2>2. \E x \in WorkerRecords : Moves(w, x) /\ x.pc = "retrying"
    BY <1>1, <2>1, GoesMoves DEF WorkerPcs, Active
  <2>3. Writes(w)
    BY <1>1, <2>1, SlotWrites DEF Slots, Slot, Writes
  <2>4. thrown' \subseteq Callbacks \cup {"onItemEnd"}
    BY <1>1, <2>1, Zenon DEF FanoutTypeOK, Callbacks
  <2> QED BY <1>1, <2>1, <2>2, <2>3, <2>4, ActsIf
<1>3. CASE ~(options.retry /\ ~Halted)
  <2>1. PICK threw \in SUBSET {"onItemError"} :
          Record(w, slots, threw) /\ thrown' = thrown \cup earlier \cup threw
    BY <1>3, Zenon DEF Fails
  <2> QED BY <1>1, <2>1, RecordActs
<1> QED BY <1>2, <1>3

LEMMA RunnerActs ==
  ASSUME FanoutInv, NEW w \in Workers,
         RunnerResolves(w) \/ RunnerRejects(w) \/ ItemDoneThrows(w)
  PROVE  \E x \in WorkerRecords : WorkerActs(w, x)
<1>1. /\ outcome = "pending" /\ workers[w].pc = "running" /\ workers[w].pc \in Active
      /\ workers[w].pc # "rejected"
  BY SMT DEF RunnerResolves, RunnerRejects, ItemDoneThrows, At, Active
<1>2. FanoutTypeOK /\ Item(w) \in Items
  BY <1>1, PendingFacts
<1>3. thrown \subseteq Callbacks \cup {"onItemEnd"}
  BY <1>2 DEF FanoutTypeOK
<1>4. CASE RunnerRejects(w)
  BY <1>1, <1>4, FailsActs DEF RunnerRejects
<1>5. CASE ItemDoneThrows(w)
  BY <1>1, <1>5, FailsActs DEF ItemDoneThrows
<1>6. CASE RunnerResolves(w) /\ Halted
  <2>1. /\ Goes(w, "returned") /\ results' = results /\ Halted'
        /\ UNCHANGED <<options, firstError, aborted, thrown, outcome>>
    BY <1>6, Zenon DEF RunnerResolves, Halted
  <2>2. \E x \in WorkerRecords : Moves(w, x) /\ x.pc = "returned"
    BY <1>1, <1>2, <2>1, GoesMoves DEF WorkerPcs, Active
  <2> QED BY <1>1, <1>3, <2>1, <2>2, ActsIf DEF Writes
<1>7. CASE RunnerResolves(w) /\ ~Halted
  <2>1. /\ Pull(w) /\ Slot(w, "ok")
        /\ UNCHANGED <<options, firstError, aborted, thrown, outcome>>
    BY <1>7, Zenon DEF RunnerResolves
  <2>2. \E x \in WorkerRecords : Moves(w, x) /\ x.pc # "rejected"
    BY <1>1, <1>2, <2>1, SlotRead, PullMoves DEF Leaves
  <2>3. Writes(w)
    BY <1>1, <2>1, SlotWrites DEF Slots
  <2> QED BY <1>1, <1>3, <2>1, <2>2, <2>3, ActsIf
<1> QED BY <1>4, <1>5, <1>6, <1>7

LEMMA RetryActs ==
  ASSUME FanoutInv, NEW w \in Workers, RetryAsked(w) \/ RetryDeclined(w)
  PROVE  \E x \in WorkerRecords : WorkerActs(w, x)
<1>1. /\ outcome = "pending" /\ workers[w].pc = "retrying" /\ workers[w].pc \in Active
      /\ workers[w].pc # "rejected"
  BY SMT DEF RetryAsked, RetryDeclined, At, Active
<1>2. FanoutTypeOK
  BY DEF FanoutInv
<1>3. CASE RetryAsked(w)
  <2> DEFINE next == [pc |-> "running", item |-> Item(w), attempt |-> workers[w].attempt + 1]
  <2>0. workers \in [Workers -> WorkerRecords] /\ workers[w] \in WorkerRecords
    BY <1>2 DEF FanoutTypeOK
  <2>1. /\ next \in WorkerRecords /\ next.pc \in Active /\ next.item = Item(w)
    BY <2>0, SMT DEF WorkerRecords, WorkerPcs, Active, Item
  <2>2. /\ workers' = [workers EXCEPT ![w] = next]
        /\ UNCHANGED <<options, cursor, results, firstError, aborted, thrown, outcome>>
    BY <1>3 DEF RetryAsked
  <2>3. Moves(w, next)
    <3>1. next.pc # "skipping" /\ next.pc # "pulling"
      OBVIOUS
    <3> QED BY <1>1, <2>1, <2>2, <3>1, Zenon DEF Moves
  <2> QED BY <1>1, <1>2, <2>1, <2>2, <2>3, ActsIf DEF Writes, FanoutTypeOK
<1>4. CASE RetryDeclined(w)
  <2>1. PICK threw \in SUBSET {"onItemError"} :
          Record(w, results, threw) /\ thrown' = thrown \cup {} \cup threw
    BY <1>4 DEF RetryDeclined
  <2>2. UNCHANGED <<options, aborted, outcome>>
    BY <1>4 DEF RetryDeclined
  <2>3. {} \in SUBSET {"onItemDone"} /\ workers[w].pc \in {"running", "retrying"}
    BY <1>1
  <2> QED BY <1>1, <2>1, <2>2, <2>3, RecordActs
<1> QED BY <1>3, <1>4

LEMMA FailingActs ==
  ASSUME FanoutInv, NEW w \in Workers, outcome = "pending", workers[w].pc \in Active,
         Failing(w), Writes(w), UNCHANGED <<options, aborted, outcome>>,
         thrown' \subseteq Callbacks \cup {"onItemEnd"}
  PROVE  \E x \in WorkerRecords : WorkerActs(w, x)
<1>1. FanoutTypeOK /\ workers[w].pc # "rejected"
  BY DEF FanoutInv, Active
<1>2. CASE firstError
  <2>1. Goes(w, "returned") /\ firstError' = firstError /\ Halted'
    BY <1>2, Zenon DEF Failing, Halted
  <2>2. \E x \in WorkerRecords : Moves(w, x) /\ x.pc = "returned"
    BY <1>1, <2>1, GoesMoves DEF WorkerPcs, Active
  <2> QED BY <1>1, <2>1, <2>2, ActsIf
<1>3. CASE ~firstError
  <2>1. Goes(w, "failing") /\ firstError' = TRUE
    BY <1>3, Zenon DEF Failing
  <2>2. firstError' /\ Halted'
    BY <2>1 DEF Halted
  <2>3. \E x \in WorkerRecords : Moves(w, x) /\ x.pc = "failing"
    BY <1>1, <2>1, <2>2, GoesMoves DEF WorkerPcs, Active
  <2> QED BY <1>1, <2>1, <2>2, <2>3, ActsIf
<1> QED BY <1>2, <1>3

LEMMA RunActs ==
  ASSUME FanoutInv, NEW w \in Workers, RunFails(w) \/ RunRejects(w) \/ RunStored(w)
  PROVE  \E x \in WorkerRecords : WorkerActs(w, x)
<1>1. /\ outcome = "pending" /\ workers[w].pc \in Active /\ workers[w].pc # "rejected"
      /\ UNCHANGED <<options, aborted, outcome>>
  BY SMT DEF RunFails, RunRejects, RunStored, At, Active
<1>2. FanoutTypeOK /\ Item(w) \in Items
  BY <1>1, PendingFacts
<1>3. thrown \subseteq Callbacks \cup {"onItemEnd"}
  BY <1>2 DEF FanoutTypeOK
<1>4. CASE RunFails(w) \/ RunRejects(w)
  <2>1. Failing(w) /\ UNCHANGED <<results, thrown>>
    BY <1>4 DEF RunFails, RunRejects
  <2> QED BY <1>1, <1>3, <2>1, FailingActs DEF Writes
<1>5. CASE RunStored(w)
  <2>1. PICK v \in Slots \ {"empty"} :
          /\ Slot(w, v)
          /\ v = "aborted" => Halted
          /\ v # "ok" => options.collect \/ Halted
    <3>1. PICK v \in {"ok"} \cup (IF options.collect THEN {"error"} ELSE {})
                            \cup (IF Halted THEN {"aborted"} ELSE {}) : Slot(w, v)
      BY <1>5 DEF RunStored
    <3>2. v = "ok" \/ (v = "error" /\ options.collect) \/ (v = "aborted" /\ Halted)
      BY <3>1, Zenon
    <3> QED BY <3>1, <3>2 DEF Slots
  <2>2. Writes(w) /\ results'[Item(w)] # "empty"
    BY <1>1, <1>2, <2>1, SlotWrites, SlotRead
  <2>3. CASE Pull(w) /\ UNCHANGED <<firstError, thrown>>
    <3>1. \E x \in WorkerRecords : Moves(w, x) /\ x.pc # "rejected"
      BY <1>1, <1>2, <2>2, <2>3, PullMoves DEF Leaves
    <3> QED BY <1>1, <1>3, <2>2, <2>3, <3>1, ActsIf
  <2>4. CASE Failing(w) /\ Threw("onItemEnd")
    <3>1. thrown' \subseteq Callbacks \cup {"onItemEnd"}
      BY <1>3, <2>4 DEF Threw
    <3> QED BY <1>1, <2>2, <2>4, <3>1, FailingActs
  <2> QED BY <1>5, <2>3, <2>4 DEF RunStored
<1> QED BY <1>4, <1>5

LEMMA FirstAndLastActs ==
  ASSUME FanoutInv, NEW w \in Workers, PullsFirst(w) \/ RunsAborted(w)
  PROVE  \E x \in WorkerRecords : WorkerActs(w, x)
<1>1. /\ outcome = "pending" /\ workers[w].pc \in {"pulling", "failing"}
      /\ workers[w].pc \notin Active /\ workers[w].pc # "rejected"
      /\ UNCHANGED <<options, results, firstError, aborted, thrown, outcome>>
  BY SMT DEF PullsFirst, RunsAborted, At, Active
<1>2. FanoutTypeOK
  BY DEF FanoutInv
<1>3. thrown \subseteq Callbacks \cup {"onItemEnd"}
  BY <1>2 DEF FanoutTypeOK
<1>4. CASE PullsFirst(w)
  <2>1. \E x \in WorkerRecords : Moves(w, x) /\ x.pc # "rejected"
    BY <1>1, <1>2, <1>4, PullMoves DEF PullsFirst, Leaves
  <2> QED BY <1>1, <1>3, <2>1, ActsIf DEF Writes
<1>5. CASE RunsAborted(w)
  <2>1. firstError
    BY <1>1, <1>5 DEF RunsAborted, At, FanoutInv, PendingInv, ReturnedHasReason
  <2>2. Goes(w, "returned") /\ Halted'
    BY <1>1, <1>5, <2>1, Zenon DEF RunsAborted, Halted
  <2>3. \E x \in WorkerRecords : Moves(w, x) /\ x.pc = "returned"
    BY <1>1, <1>2, <2>2, GoesMoves DEF WorkerPcs, Active
  <2> QED BY <1>1, <1>3, <2>2, <2>3, ActsIf DEF Writes
<1> QED BY <1>4, <1>5

-----------------------------------------------------------------------------
(* The step of a worker keeps the invariant and is a step of the batch.    *)

LEMMA ActsKeeps ==
  ASSUME FanoutInv, NEW w \in Workers, NEW x \in WorkerRecords, WorkerActs(w, x)
  PROVE  FanoutInv'
<1>1. /\ FanoutTypeOK /\ PendingInv /\ outcome = "pending" /\ outcome' = "pending"
      /\ options' = options /\ aborted' = aborted
      /\ Workers' = Workers /\ Items' = Items /\ WorkerRecords' = WorkerRecords
  BY Zenon DEF FanoutInv, WorkerActs, Workers, Items, WorkerRecords
<1>2. options.count \in Nat /\ options.collect \in BOOLEAN
  BY <1>1, OptionsTyped DEF FanoutTypeOK
<1>3. /\ workers \in [Workers -> WorkerRecords]
      /\ workers' = [workers EXCEPT ![w] = x]
      /\ workers'[w] = x
      /\ \A v \in Workers : v # w => workers'[v] = workers[v]
  BY <1>1, SMT DEF FanoutTypeOK, WorkerActs, Moves
<1>4. Halted => Halted'
  <2>1. CASE aborted
    BY <1>1, <2>1 DEF Halted
  <2>2. CASE firstError
    <3>1. firstError = TRUE /\ firstError' \in {firstError, TRUE}
      BY <1>1, <2>2, Zenon DEF FanoutTypeOK, WorkerActs
    <3> QED BY <3>1, Zenon DEF Halted
  <2> QED BY <2>1, <2>2 DEF Halted
<1>5. cursor' \in 0..options.count /\ cursor' >= cursor
  BY <1>1, <1>2, SMT DEF WorkerActs, Moves, FanoutTypeOK
<1>6. /\ results' \in [Items -> Slots]
      /\ \A i \in Items : results[i] # "empty" => results'[i] # "empty"
      /\ \A i \in Items : /\ results'[i] = "aborted" => results[i] = "aborted" \/ Halted
                          /\ results'[i] \notin {"empty", "ok"} =>
                               results[i] = results'[i] \/ options.collect \/ Halted
  <2>1. CASE results' = results
    BY <1>1, <2>1, SMT DEF FanoutTypeOK
  <2>2. CASE results' # results
    BY <1>1, <2>2, SMT DEF FanoutTypeOK, WorkerActs, Writes
  <2> QED BY <2>1, <2>2
<1>7. FanoutTypeOK'
  <2>1. workers' \in [Workers -> WorkerRecords]
    BY <1>3, SMT
  <2>2. firstError' \in BOOLEAN /\ thrown' \subseteq Callbacks \cup {"onItemEnd"}
    BY <1>1, Zenon DEF FanoutTypeOK, WorkerActs
  <2> QED BY <1>1, <1>5, <1>6, <2>1, <2>2, Zenon DEF FanoutTypeOK
<1>8. BusyTaken'
  <2> SUFFICES ASSUME NEW v \in Workers, workers'[v].pc \in Active
               PROVE  workers'[v].item \in 1..cursor'
    BY <1>1 DEF BusyTaken
  <2>1. CASE v = w
    BY <1>1, <1>2, <1>3, <2>1, SMT DEF WorkerActs, Moves, PendingInv, BusyTaken, FanoutTypeOK, Item
  <2>2. CASE v # w
    BY <1>1, <1>3, <1>5, <2>2, SMT DEF PendingInv, BusyTaken, FanoutTypeOK
  <2> QED BY <2>1, <2>2
<1>9. ReturnedHasReason'
  <2> SUFFICES ASSUME NEW v \in Workers
               PROVE  /\ workers'[v].pc = "returned" => Halted' \/ cursor' = options.count
                      /\ workers'[v].pc = "failing" => firstError'
    BY <1>1 DEF ReturnedHasReason
  <2>1. CASE v = w
    BY <1>1, <1>3, <2>1, Zenon DEF WorkerActs, Moves, Active
  <2>2. CASE v # w
    <3>1. workers[v].pc = "returned" => Halted' \/ cursor' = options.count
      BY <1>1, <1>2, <1>4, <1>5, <2>2, SMT DEF PendingInv, ReturnedHasReason, FanoutTypeOK
    <3>2. workers[v].pc = "failing" => firstError'
      <4>1. firstError => firstError'
        BY <1>1, Zenon DEF FanoutTypeOK, WorkerActs
      <4> QED BY <1>1, <4>1 DEF PendingInv, ReturnedHasReason
    <3> QED BY <1>3, <2>2, <3>1, <3>2
  <2> QED BY <2>1, <2>2
<1>10. PulledIsHandled'
  <2> SUFFICES ASSUME NEW i \in 1..cursor'
               PROVE  i \in busy' \/ results'[i] # "empty" \/ Halted' \/ SomeRejected'
    BY <1>1 DEF PulledIsHandled
  <2>1. SomeRejected => SomeRejected'
    BY <1>1, <1>3 DEF SomeRejected, WorkerActs
  <2>2. x.pc \in Active => x.item \in busy'
    BY <1>1, <1>3 DEF busy
  <2>3. CASE i \notin 1..cursor
    <3>1. i = cursor + 1 /\ x.pc \in Active /\ x.item = cursor + 1
      BY <1>1, <1>2, <2>3, SMT DEF WorkerActs, Moves, FanoutTypeOK
    <3> QED BY <2>2, <3>1
  <2>4. CASE i \in 1..cursor /\ i \notin busy
    BY <1>1, <1>2, <1>4, <1>6, <2>1, <2>4, SMT
    DEF PendingInv, PulledIsHandled, FanoutTypeOK, Items
  <2>5. CASE i \in 1..cursor /\ i \in busy
    <3>1. PICK v \in Workers : workers[v].pc \in Active /\ workers[v].item = i
      BY <2>5 DEF busy
    <3>2. CASE v # w
      BY <1>1, <1>3, <3>1, <3>2 DEF busy
    <3>3. CASE v = w /\ Leaves(w, x)
      <4>1. results'[i] # "empty" \/ Halted' \/ x.pc = "rejected"
        BY <3>1, <3>3 DEF Leaves, Item
      <4> QED BY <1>1, <1>3, <4>1 DEF SomeRejected
    <3>4. CASE v = w /\ ~Leaves(w, x)
      <4>1. x.pc \in Active /\ x.item = i
        BY <3>1, <3>4, Zenon DEF WorkerActs, Moves, Item
      <4> QED BY <2>2, <4>1
    <3> QED BY <3>2, <3>3, <3>4
  <2> QED BY <2>3, <2>4, <2>5
<1>11. SlotsExplained'
  <2>1. \A i \in Items : /\ results'[i] = "aborted" => Halted'
                         /\ results'[i] \notin {"empty", "ok"} => options.collect \/ Halted'
    BY <1>1, <1>4, <1>6 DEF PendingInv, SlotsExplained
  <2>2. SomeRejected => SomeRejected'
    BY <1>1, <1>3 DEF SomeRejected, WorkerActs
  <2>3. x.pc = "rejected" => SomeRejected'
    BY <1>1, <1>3 DEF SomeRejected
  <2>4. thrown' \subseteq {"onItemDone"} \/ Halted' \/ SomeRejected'
    BY <1>1, <1>4, <2>2, <2>3, Zenon DEF PendingInv, SlotsExplained, WorkerActs
  <2> QED BY <1>1, <2>1, <2>4 DEF SlotsExplained
<1>12. ASSUME NEW v \in Workers
       PROVE  /\ workers'[v].pc = "skipping" => options.skip
              /\ workers'[v].pc = "pulling" => options.agents
  BY <1>1, <1>3, <1>12 DEF WorkerActs, Moves, PendingInv
<1> QED BY <1>1, <1>2, <1>7, <1>8, <1>9, <1>10, <1>11, <1>12
        DEF FanoutInv, PendingInv, ResolvesHonestly

\* A settled call resolves over nothing but what its slots say.
LEMMA SettleKeeps ==
  ASSUME FanoutInv, (SettleFanout /\ ~options.agents) \/ SettleFanoutOf
  PROVE  /\ FanoutInv'
         /\ busy = {} /\ busy' = busy /\ outcome = "pending"
         /\ outcome' \in {"resolved", "rejected"}
         /\ outcome' = "resolved" => cursor = options.count \/ Halted
<1>1. /\ FanoutTypeOK /\ PendingInv /\ outcome = "pending"
      /\ UNCHANGED <<options, cursor, workers, aborted, thrown>>
  BY DEF SettleFanout, SettleFanoutOf, FanoutInv
<1>2. /\ options.count \in Nat /\ options.collect \in BOOLEAN
      /\ Concurrency(options) \in 1..options.count
  BY <1>1, OptionsTyped, ConcurrencyBounds, SMT DEF FanoutTypeOK, PendingInv
<1>3. \A w \in Workers : workers[w].pc \notin Active
  <2>1. CASE SettleFanout
    BY <2>1 DEF SettleFanout, AllSettled, busy
  <2>2. CASE SettleFanoutOf
    BY <2>2 DEF SettleFanoutOf, Active
  <2> QED BY <2>1, <2>2
<1>4. busy = {} /\ busy' = busy
  BY <1>1, <1>3 DEF busy, Workers
<1>5. /\ outcome' \in {"resolved", "rejected"}
      /\ firstError' \in BOOLEAN
      /\ results' = results \/ (aborted /\ results' = fillAbortedSlots(results))
      /\ outcome' = "resolved" =>
           \/ aborted /\ options.collect /\ results' = fillAbortedSlots(results)
           \/ ~aborted /\ ~firstError /\ ~SomeRejected /\ results' = results
  <2>1. CASE SettleFanout
    <3>1. /\ firstError' = (firstError \/ (UnexpectedWorkerFailure /\ ~aborted))
          /\ results' = IF aborted /\ options.collect THEN fillAbortedSlots(results) ELSE results
          /\ outcome' = IF aborted THEN IF options.collect THEN "resolved" ELSE "rejected"
                        ELSE IF firstError' THEN "rejected" ELSE "resolved"
      BY <2>1, Zenon DEF SettleFanout
    <3>2. firstError' \in BOOLEAN
      BY <3>1, Zenon
    <3>3. UnexpectedWorkerFailure = SomeRejected
      BY DEF UnexpectedWorkerFailure, SomeRejected
    <3>4. CASE aborted
      <4>1. CASE options.collect
        BY <3>1, <3>2, <3>4, <4>1, Zenon
      <4>2. CASE ~options.collect
        <5>1. results' = results /\ outcome' = "rejected"
          BY <3>1, <3>4, <4>2, Zenon
        <5> QED BY <3>2, <5>1
      <4> QED BY <4>1, <4>2
    <3>5. CASE ~aborted
      <4>1. results' = results
        BY <3>1, <3>5, Zenon
      <4>2. CASE firstError'
        <5>1. outcome' = "rejected"
          BY <3>1, <3>5, <4>2, Zenon
        <5> QED BY <3>2, <4>1, <5>1
      <4>3. CASE ~firstError'
        <5>1. outcome' = "resolved" /\ ~firstError /\ ~SomeRejected
          BY <3>1, <3>3, <3>5, <4>3, Zenon
        <5> QED BY <3>2, <3>5, <4>1, <5>1
      <4> QED BY <4>2, <4>3
    <3> QED BY <3>4, <3>5
  <2>2. CASE SettleFanoutOf
    <3> DEFINE rejects == (aborted /\ ~options.collect) \/ firstError
    <3>1. /\ outcome' = IF rejects THEN "rejected" ELSE "resolved"
          /\ results' = IF aborted /\ ~rejects THEN fillAbortedSlots(results) ELSE results
          /\ firstError' = firstError
          /\ \A w \in Workers : workers[w].pc = "returned"
      BY <2>2, Zenon DEF SettleFanoutOf
    <3>2. ~SomeRejected
      BY <3>1 DEF SomeRejected
    <3>3. firstError' \in BOOLEAN
      BY <1>1, <3>1 DEF FanoutTypeOK
    <3>4. CASE rejects
      <4>1. outcome' = "rejected" /\ results' = results
        BY <3>1, <3>4, Zenon
      <4> QED BY <3>3, <4>1
    <3>5. CASE ~rejects /\ aborted
      <4>1. /\ outcome' = "resolved" /\ results' = fillAbortedSlots(results)
            /\ options.collect
        BY <3>1, <3>5, Zenon
      <4> QED BY <3>3, <3>5, <4>1
    <3>6. CASE ~rejects /\ ~aborted
      <4>1. outcome' = "resolved" /\ results' = results /\ ~firstError
        BY <3>1, <3>6, Zenon
      <4> QED BY <3>2, <3>3, <3>6, <4>1
    <3> QED BY <3>4, <3>5, <3>6
  <2> QED BY <2>1, <2>2
<1>6. /\ DOMAIN results = Items
      /\ fillAbortedSlots(results) \in [Items -> Slots \ {"empty"}]
      /\ \A i \in Items : fillAbortedSlots(results)[i] = "aborted"
                            \/ fillAbortedSlots(results)[i] = results[i]
  BY <1>1, SMT DEF FanoutTypeOK, fillAbortedSlots, Slots
<1>7. results' \in [Items -> Slots]
  BY <1>1, <1>5, <1>6, SMT DEF FanoutTypeOK
<1>8. Items' = Items /\ Workers' = Workers /\ WorkerRecords' = WorkerRecords
  BY <1>1 DEF Items, Workers, WorkerRecords
<1>9. FanoutTypeOK'
  BY <1>1, <1>5, <1>7, <1>8, Zenon DEF FanoutTypeOK, Outcomes
<1>10. ASSUME ~Halted, ~SomeRejected PROVE cursor = options.count
  <2>1. 1 \in Workers
    BY <1>2, SMT DEF Workers
  <2>2. workers[1].pc = "returned"
    <3>1. workers[1].pc \in WorkerPcs
      BY <1>1, <2>1 DEF FanoutTypeOK, WorkerRecords
    <3>2. workers[1].pc \notin Active /\ workers[1].pc # "rejected"
      BY <1>3, <1>10, <2>1 DEF SomeRejected
    <3>3. workers[1].pc # "failing"
      BY <1>1, <1>10, <2>1 DEF PendingInv, ReturnedHasReason, Halted
    <3>4. workers[1].pc # "pulling"
      BY <1>1, <2>1 DEF PendingInv, SettleFanoutOf
    <3> QED BY <3>1, <3>2, <3>3, <3>4 DEF WorkerPcs
  <2> QED BY <1>1, <1>10, <2>1, <2>2 DEF PendingInv, ReturnedHasReason
<1>11. ResolvesHonestly'
  <2> SUFFICES ASSUME outcome' = "resolved" PROVE ResolvesHonestly'
    BY DEF ResolvesHonestly
  <2>1. CASE aborted /\ options.collect /\ results' = fillAbortedSlots(results)
    BY <1>1, <1>6, <1>8, <2>1, SMT DEF ResolvesHonestly
  <2>2. CASE ~aborted /\ ~firstError /\ ~SomeRejected /\ results' = results
    <3>1. ~Halted /\ cursor = options.count
      BY <1>10, <2>2 DEF Halted
    <3>2. ASSUME NEW i \in Items
          PROVE  /\ results[i] # "empty" /\ results[i] # "aborted"
                 /\ results[i] # "ok" => options.collect
      <4>1. i \in 1..cursor
        BY <3>1 DEF Items
      <4>2. results[i] # "empty"
        BY <1>1, <1>4, <2>2, <3>1, <4>1 DEF PendingInv, PulledIsHandled
      <4> QED BY <1>1, <3>1, <4>2 DEF PendingInv, SlotsExplained
    <3>3. thrown \subseteq {"onItemDone"}
      BY <1>1, <2>2, <3>1 DEF PendingInv, SlotsExplained
    <3> QED BY <1>1, <1>8, <2>2, <3>2, <3>3, Zenon DEF ResolvesHonestly
  <2> QED BY <1>5, <2>1, <2>2
<1>12. outcome' = "resolved" => cursor = options.count \/ Halted
  BY <1>5, <1>10 DEF Halted
<1>13. outcome' # "pending"
  BY <1>5
<1> QED BY <1>1, <1>4, <1>5, <1>9, <1>11, <1>12, <1>13 DEF FanoutInv

LEMMA NoOptionsTyped ==
  ASSUME options' = NoOptions, cursor' = 0, workers' = <<>>, results' = <<>>, firstError' = FALSE,
         thrown' = {}, outcome' = "idle", aborted' \in BOOLEAN
  PROVE  FanoutInv' /\ busy' = {}
<1>1. options'.count = 0 /\ Concurrency(options') = 0
  BY SMT DEF NoOptions, Concurrency, Least
<1>2. Workers' = {} /\ Items' = {}
  BY <1>1, SMT DEF Workers, Items
<1>3. workers' \in [Workers' -> WorkerRecords'] /\ results' \in [Items' -> Slots]
  BY <1>2, SMT
<1>4. options' \in AllOptions /\ cursor' \in 0..options'.count
  BY <1>1, SMT DEF AllOptions
<1>5. FanoutTypeOK'
  BY <1>3, <1>4, Zenon DEF FanoutTypeOK, Outcomes
<1>6. busy' = {}
  BY <1>2 DEF busy
<1> QED BY <1>5, <1>6 DEF FanoutInv, ResolvesHonestly

\* A new call of either kind.
LEMMA CallKeeps ==
  ASSUME FanoutInv, NEW o \in FanoutOptions, CallAny(o)
  PROVE  /\ FanoutInv'
         /\ outcome # "pending" /\ aborted' = aborted
         /\ options' = o /\ o.count \in Nat /\ Concurrency(o) \in Nat
         /\ cursor' \in 0..Concurrency(o) /\ cursor' <= o.count
         /\ busy' = 1..cursor'
         /\ Halted' \/ outcome' # "pending" => cursor' = 0
         /\ outcome' \in {"pending", "resolved", "rejected"}
         /\ outcome' = "resolved" => Halted' \/ o.count = 0
<1> DEFINE n == Concurrency(o)
           pulling == [pc |-> "pulling", item |-> 0, attempt |-> 0]
           returned == [pc |-> "returned", item |-> 0, attempt |-> 0]
           empty == [i \in 1..o.count |-> "empty"]
<1>1. /\ o \in AllOptions /\ o.count \in Nat /\ o.agents \in BOOLEAN /\ o.skip \in BOOLEAN
      /\ o.collect \in BOOLEAN
      /\ n \in 0..o.count /\ n \in Nat /\ (o.count > 0 => n > 0)
  BY OptionsTyped, ConcurrencyBounds, SMT DEF AllOptions
<1>2. /\ outcome # "pending" /\ options' = o /\ firstError' = FALSE /\ thrown' = {}
      /\ aborted' = aborted /\ aborted \in BOOLEAN
  BY Zenon DEF CallAny, Call, CallOf, FanoutInv, FanoutTypeOK
<1>3. Workers' = 1..n /\ Items' = 1..o.count
  BY <1>2 DEF Workers, Items
<1>4. Halted' = aborted
  BY <1>2, Zenon DEF Halted
<1>5. CASE o.agents
  <2>1. /\ cursor' = 0 /\ results' = empty
        /\ outcome' \in {"pending", "resolved", "rejected"}
        /\ outcome' # "resolved" \/ o.count = 0
        /\ outcome' # "pending" \/ o.count # 0
        /\ workers' = [w \in 1..n |-> pulling]
    BY <1>5, SMT DEF CallAny, CallOf, resolveTraceIds
  <2>2. workers' \in [Workers' -> WorkerRecords'] /\ results' \in [Items' -> Slots]
    BY <1>1, <1>2, <1>3, <2>1, SMT DEF WorkerRecords, WorkerPcs, Slots
  <2>3. FanoutTypeOK'
    <3>1. cursor' \in 0..o.count
      BY <1>1, <2>1, SMT
    <3>2. aborted' \in BOOLEAN /\ firstError' \in BOOLEAN /\ outcome' \in Outcomes
      BY <1>2, <2>1, Zenon DEF Outcomes
    <3> QED BY <1>1, <1>2, <2>2, <3>1, <3>2 DEF FanoutTypeOK
  <2>4. \A w \in Workers' : workers'[w].pc = "pulling"
    BY <1>3, <2>1
  <2>5. busy' = {} /\ 1..cursor' = {}
    <3>1. busy' = {}
      BY <2>4 DEF busy, Active
    <3> QED BY <2>1, <3>1, SMT
  <2>6. outcome' = "pending" => PendingInv'
    BY <1>1, <1>2, <1>3, <1>5, <2>1, <2>4, <2>5, SMT
    DEF PendingInv, BusyTaken, ReturnedHasReason, PulledIsHandled, SlotsExplained, Active
  <2>7. ResolvesHonestly'
    BY <1>1, <1>2, <1>3, <2>1, SMT DEF ResolvesHonestly
  <2> QED BY <1>1, <1>2, <2>1, <2>3, <2>5, <2>6, <2>7, SMT DEF FanoutInv
<1>6. CASE ~o.agents /\ (o.count = 0 \/ aborted)
  <2>1. /\ cursor' = 0 /\ results' = fillAbortedSlots(empty)
        /\ outcome' = IF o.count = 0 \/ o.collect THEN "resolved" ELSE "rejected"
        /\ workers' = [w \in 1..n |-> returned]
    BY <1>6, Zenon DEF CallAny, Call
  <2>2. workers' \in [Workers' -> WorkerRecords']
    BY <1>1, <1>2, <1>3, <2>1, SMT DEF WorkerRecords, WorkerPcs
  <2>3. results' \in [Items' -> Slots] /\ \A i \in Items' : results'[i] = "aborted"
    BY <1>3, <2>1, SMT DEF fillAbortedSlots, Slots
  <2>4. FanoutTypeOK'
    <3>1. cursor' \in 0..o.count
      BY <1>1, <2>1, SMT
    <3>2. aborted' \in BOOLEAN /\ firstError' \in BOOLEAN /\ outcome' \in Outcomes
      BY <1>2, <2>1, Zenon DEF Outcomes
    <3> QED BY <1>1, <1>2, <2>2, <2>3, <3>1, <3>2 DEF FanoutTypeOK
  <2>5. \A w \in Workers' : workers'[w].pc = "returned"
    BY <1>3, <2>1
  <2>6. busy' = {} /\ 1..cursor' = {}
    <3>1. busy' = {}
      BY <2>5 DEF busy, Active
    <3> QED BY <2>1, <3>1, SMT
  <2>7. ResolvesHonestly'
    <3>1. CASE o.count = 0
      <4>1. Items' = {}
        BY <1>3, <3>1, SMT
      <4> QED BY <1>2, <4>1, Zenon DEF ResolvesHonestly
    <3>2. CASE o.count # 0 /\ aborted
      <4>1. outcome' = "resolved" => options'.collect
        BY <1>2, <2>1, <3>2, Zenon
      <4> QED BY <1>2, <2>3, <3>2, <4>1 DEF ResolvesHonestly
    <3> QED BY <1>6, <3>1, <3>2
  <2> QED BY <1>1, <1>2, <1>4, <1>6, <2>1, <2>4, <2>6, <2>7, SMT DEF FanoutInv
<1>7. CASE ~o.agents /\ ~(o.count = 0 \/ aborted)
  <2>1. /\ cursor' = n /\ results' = empty /\ outcome' = "pending"
        /\ workers' = [w \in 1..n |-> Worker(o, w)]
    BY <1>7, Zenon DEF CallAny, Call
  <2>2. workers' \in [Workers' -> WorkerRecords'] /\ results' \in [Items' -> Slots]
    BY <1>1, <1>2, <1>3, <2>1, SMT DEF WorkerRecords, WorkerPcs, Active, Slots, Worker
  <2>3. FanoutTypeOK'
    <3>1. cursor' \in 0..o.count
      BY <1>1, <2>1, SMT
    <3>2. aborted' \in BOOLEAN /\ firstError' \in BOOLEAN /\ outcome' \in Outcomes
      BY <1>2, <2>1, Zenon DEF Outcomes
    <3> QED BY <1>1, <1>2, <2>2, <3>1, <3>2 DEF FanoutTypeOK
  <2>4. \A w \in Workers' : /\ workers'[w].pc = IF o.skip THEN "skipping" ELSE "running"
                            /\ workers'[w].item = w
    BY <1>3, <2>1, SMT DEF Worker
  <2>5. \A w \in Workers' : workers'[w].pc \in Active
    BY <2>4, SMT DEF Active
  <2>6. busy' = 1..cursor'
    BY <1>3, <2>1, <2>4, <2>5, SMT DEF busy
  <2>7. PendingInv'
    <3>1. BusyTaken'
      BY <1>3, <2>1, <2>4 DEF BusyTaken
    <3>2. ReturnedHasReason'
      BY <2>5 DEF ReturnedHasReason, Active
    <3>3. PulledIsHandled'
      BY <2>6 DEF PulledIsHandled
    <3>4. SlotsExplained'
      BY <1>2, <1>3, <2>1, SMT DEF SlotsExplained
    <3>5. \A w \in Workers' : /\ workers'[w].pc = "skipping" => o.skip
                              /\ workers'[w].pc # "pulling"
      BY <2>4, SMT
    <3> QED BY <1>1, <1>2, <1>7, <3>1, <3>2, <3>3, <3>4, <3>5, SMT DEF PendingInv
  <2> QED BY <1>1, <1>2, <1>4, <1>7, <2>1, <2>3, <2>6, <2>7, SMT DEF FanoutInv, ResolvesHonestly
<1> QED BY <1>1, <1>5, <1>6, <1>7

-----------------------------------------------------------------------------
(* Every step.                                                             *)

LEMMA InitFanout == FanoutInit => FanoutInv /\ Call_!Idle
<1> SUFFICES ASSUME FanoutInit PROVE FanoutInv /\ Call_!Idle
  OBVIOUS
<1>1. options.count = 0 /\ Concurrency(options) = 0
  BY SMT DEF FanoutInit, NoOptions, Concurrency, Least
<1>2. Workers = {} /\ Items = {}
  BY <1>1, SMT DEF Workers, Items
<1>3. workers \in [Workers -> WorkerRecords] /\ results \in [Items -> Slots]
  BY <1>2, SMT DEF FanoutInit
<1>4. options \in AllOptions /\ cursor \in 0..options.count
  BY <1>1, SMT DEF AllOptions, FanoutInit
<1>5. FanoutTypeOK
  BY <1>3, <1>4, Zenon DEF FanoutTypeOK, Outcomes, FanoutInit
<1>6. busy = {}
  BY <1>2 DEF busy
<1> QED BY <1>5, <1>6 DEF FanoutInv, ResolvesHonestly, FanoutInit, Call_!Idle

\* A step of either fanout is one of a worker, or settles the call.
LEMMA StepCases ==
  ASSUME FanoutInv, AnyFanoutStep
  PROVE  \/ \E w \in Workers : \E x \in WorkerRecords : WorkerActs(w, x)
         \/ (SettleFanout /\ ~options.agents) \/ SettleFanoutOf
<1>1. CASE options.agents
  <2>1. CASE \E w \in Workers : \/ PullsFirst(w) \/ RunsAborted(w)
                                \/ RunFails(w) \/ RunStored(w) \/ RunRejects(w)
    BY <2>1, FirstAndLastActs, RunActs
  <2>2. CASE SettleFanoutOf
    BY <2>2
  <2> QED BY <1>1, <2>1, <2>2 DEF AnyFanoutStep, FanoutOfStep
<1>2. CASE ~options.agents
  <2>1. CASE \E w \in Workers : WorkerStep(w)
    BY <2>1, SkipAnswersActs, RejectsActs, RunnerActs, RetryActs DEF WorkerStep
  <2>2. CASE SettleFanout
    BY <1>2, <2>2
  <2> QED BY <1>2, <2>1, <2>2 DEF AnyFanoutStep, FanoutStep
<1> QED BY <1>1, <1>2

LEMMA AbortKeeps ==
  ASSUME FanoutInv, Abort
  PROVE  FanoutInv'
<1>1. /\ aborted' = TRUE /\ UNCHANGED <<options, cursor, workers, results, firstError, thrown, outcome>>
  BY DEF Abort, fanoutVars
<1>2. /\ Workers' = Workers /\ Items' = Items /\ WorkerRecords' = WorkerRecords /\ busy' = busy
      /\ SomeRejected' = SomeRejected
  BY <1>1 DEF Workers, Items, WorkerRecords, busy, SomeRejected
<1>3. FanoutTypeOK'
  BY <1>1, <1>2, Zenon DEF FanoutInv, FanoutTypeOK
<1>4. Halted'
  BY <1>1 DEF Halted
<1>5. PendingInv => PendingInv'
  BY <1>1, <1>2, <1>4, Zenon
  DEF PendingInv, BusyTaken, ReturnedHasReason, PulledIsHandled, SlotsExplained
<1>6. ResolvesHonestly'
  BY <1>1, <1>2, Zenon DEF FanoutInv, ResolvesHonestly
<1> QED BY <1>1, <1>3, <1>5, <1>6, Zenon DEF FanoutInv

LEMMA SameKeeps ==
  ASSUME FanoutInv, UNCHANGED <<fanoutVars, aborted>>
  PROVE  FanoutInv'
<1>1. UNCHANGED <<options, cursor, workers, results, firstError, thrown, outcome, aborted>>
  BY DEF fanoutVars
<1> QED BY <1>1
        DEF FanoutInv, FanoutTypeOK, PendingInv, ResolvesHonestly, BusyTaken, ReturnedHasReason,
            PulledIsHandled, SlotsExplained, Workers, Items, WorkerRecords, busy, SomeRejected,
            Halted

\* The invariant is inductive.
LEMMA FanoutInvKept == FanoutInv /\ [AnyFanoutNext]_<<fanoutVars, aborted>> => FanoutInv'
<1> SUFFICES ASSUME FanoutInv, [AnyFanoutNext]_<<fanoutVars, aborted>> PROVE FanoutInv'
  OBVIOUS
<1>1. CASE \E o \in FanoutOptions : CallAny(o)
  BY <1>1, CallKeeps
<1>2. CASE AnyFanoutStep
  BY <1>2, StepCases, ActsKeeps, SettleKeeps
<1>3. CASE Abort
  BY <1>3, AbortKeeps
<1>4. CASE Forget /\ UNCHANGED aborted
  <2>1. aborted' \in BOOLEAN
    BY <1>4 DEF FanoutInv, FanoutTypeOK
  <2> QED BY <1>4, <2>1, NoOptionsTyped DEF Forget
<1>5. CASE UNCHANGED <<fanoutVars, aborted>>
  BY <1>5, SameKeeps
<1> QED BY <1>1, <1>2, <1>3, <1>4, <1>5 DEF AnyFanoutNext

\* What either fanout resolves to is honest, in every reachable state: the
\* slots are complete, in reject mode results, an item without an outcome of
\* its own is the caller's doing, and no callback's error is swallowed.
THEOREM ResolvesHonestlyHolds == AnyFanoutSpec => []ResolvesHonestly
<1>1. FanoutInv => ResolvesHonestly
  BY DEF FanoutInv
<1> QED BY <1>1, InitFanout, FanoutInvKept, PTL DEF AnyFanoutSpec

-----------------------------------------------------------------------------
(* The batch.                                                              *)

\* There are no more items in progress than workers.
LEMMA BusyIsBounded ==
  ASSUME NEW n \in Nat, NEW ws
  PROVE  Cardinality({ws[w].item : w \in {v \in 1..n : ws[v].pc \in Active}}) <= n
<1> DEFINE S == {v \in 1..n : ws[v].pc \in Active}
           T == {ws[w].item : w \in S}
           f == [v \in S |-> ws[v].item]
<1>2. IsFiniteSet(1..n) /\ Cardinality(1..n) = n
  BY FS_Interval, SMT
<1>3. IsFiniteSet(S) /\ Cardinality(S) <= n
  BY <1>2, FS_Subset
<1>4. f \in Surjection(S, T)
  BY DEF Surjection
<1> HIDE DEF S, T, f
<1>5. IsFiniteSet(T) /\ Cardinality(T) <= Cardinality(S)
  BY <1>3, <1>4, FS_Surjection
<1>6. Cardinality(T) <= n
  BY <1>3, <1>5, FS_CardinalityType, SMT
<1> QED BY <1>6 DEF S, T

\* The step of a worker is progress of the batch.
LEMMA ActsProgress ==
  ASSUME FanoutInv, NEW w \in Workers, NEW x \in WorkerRecords, WorkerActs(w, x)
  PROVE  Call_!Progress
<1>1. /\ FanoutTypeOK /\ PendingInv /\ outcome = "pending" /\ outcome' = "pending"
      /\ options' = options /\ aborted' = aborted
      /\ Workers' = Workers
  BY Zenon DEF FanoutInv, WorkerActs, Workers
<1>2. options.count \in Nat /\ cursor \in Nat /\ cursor <= options.count
  BY <1>1, OptionsTyped, SMT DEF FanoutTypeOK
<1>3. /\ workers'[w] = x
      /\ \A v \in Workers : v # w => workers'[v] = workers[v]
  BY <1>1, SMT DEF FanoutTypeOK, WorkerActs, Moves
<1>4. /\ \A i \in busy : i \in 1..cursor
      /\ busy' \subseteq busy \cup (IF x.pc \in Active THEN {x.item} ELSE {})
      /\ x.pc \in Active => x.item \in busy'
  BY <1>1, <1>3, Zenon DEF busy, PendingInv, BusyTaken
<1>5. /\ cursor' \in cursor..options.count
      /\ busy' \ busy = (cursor + 1)..cursor'
      /\ Halted => cursor' = cursor
  <2>1. CASE cursor' = cursor /\ x.pc \in Active /\ workers[w].pc \in Active /\ x.item = Item(w)
    <3>1. x.item \in busy
      BY <2>1 DEF busy, Item
    <3>2. busy' \ busy = {}
      BY <1>4, <3>1
    <3> QED BY <1>2, <2>1, <3>2, SMT
  <2>2. CASE cursor' = cursor + 1 /\ cursor < options.count /\ ~Halted
             /\ x.pc \in Active /\ x.item = cursor + 1
    <3>1. cursor + 1 \notin busy
      BY <1>2, <1>4, SMT
    <3>2. busy' \ busy = {cursor + 1}
      BY <1>4, <2>2, <3>1
    <3> QED BY <1>2, <2>2, <3>2, SMT
  <2>3. CASE cursor' = cursor /\ x.pc \notin Active
    <3>1. busy' \ busy = {}
      BY <1>4, <2>3
    <3> QED BY <1>2, <2>3, <3>1, SMT
  <2> QED BY <2>1, <2>2, <2>3, Zenon DEF WorkerActs, Moves
<1>6. Halted => Halted'
  <2>1. firstError' \in {firstError, TRUE}
    BY DEF WorkerActs
  <2>2. CASE firstError' = TRUE
    BY <2>2 DEF Halted
  <2>3. CASE firstError' = firstError
    BY <1>1, <2>3, Zenon DEF Halted
  <2> QED BY <2>1, <2>2, <2>3
<1>7. Cardinality(busy') <= Concurrency(options)
  <2>1. Concurrency(options) \in Nat
    BY <1>1, ConcurrencyBounds, OptionsTyped, SMT DEF FanoutTypeOK
  <2>2. busy' = {workers'[v].item : v \in {u \in 1..Concurrency(options) : workers'[u].pc \in Active}}
    BY <1>1 DEF busy, Workers
  <2> QED BY <2>1, <2>2, BusyIsBounded
<1>8. UNCHANGED <<options.count, Concurrency(options), outcome>>
  BY <1>1
<1>9. Halted => (Halted' /\ cursor' = cursor)
  BY <1>5, <1>6, Zenon
<1>10. Call_!Cardinality(busy') = Cardinality(busy')
  BY DEF Call_!Cardinality, Cardinality
<1> QED BY <1>1, <1>5, <1>7, <1>8, <1>9, <1>10 DEF Call_!Progress

\* Every step of a fanout is one of the batch, or a stuttering one.
LEMMA NextBatch ==
  FanoutInv /\ [AnyFanoutNext]_<<fanoutVars, aborted>> => [Call_!Next]_(Call_!vars)
<1> SUFFICES ASSUME FanoutInv, [AnyFanoutNext]_<<fanoutVars, aborted>>
             PROVE  Call_!Next \/ UNCHANGED Call_!vars
  OBVIOUS
<1>1. ASSUME NEW o \in FanoutOptions, CallAny(o) PROVE Call_!Call
  <2>1. /\ outcome # "pending" /\ options' = o
        /\ o.count \in Nat /\ Concurrency(o) \in Nat
        /\ cursor' \in 0..Concurrency(o) /\ cursor' <= o.count
        /\ busy' = 1..cursor'
        /\ Halted' \/ outcome' # "pending" => cursor' = 0
        /\ outcome' \in {"pending", "resolved", "rejected"}
        /\ outcome' = "resolved" => Halted' \/ o.count = 0
    BY <1>1, CallKeeps
  <2>2. cursor' \in 0..o.count /\ cursor' <= Concurrency(o)
    BY <2>1, SMT
  <2> QED BY <2>1, <2>2 DEF Call_!Call
<1>2. ASSUME AnyFanoutStep PROVE Call_!Progress \/ Call_!Settle
  <2>1. ASSUME (SettleFanout /\ ~options.agents) \/ SettleFanoutOf PROVE Call_!Settle
    <3>1. UNCHANGED <<options, cursor>>
      BY <2>1 DEF SettleFanout, SettleFanoutOf
    <3> QED BY <2>1, <3>1, SettleKeeps DEF Call_!Settle
  <2> QED BY <1>2, <2>1, StepCases, ActsProgress
<1>3. ASSUME Abort PROVE Call_!Halt
  BY <1>3 DEF Abort, fanoutVars, busy, Workers, Call_!Halt
<1>4. ASSUME Forget, UNCHANGED aborted PROVE Call_!Forget
  <2>1. aborted' \in BOOLEAN
    BY <1>4 DEF FanoutInv, FanoutTypeOK
  <2>2. busy' = {} /\ outcome' = "idle"
    BY <1>4, <2>1, NoOptionsTyped DEF Forget
  <2> QED BY <2>2 DEF Call_!Forget
<1>5. ASSUME UNCHANGED <<fanoutVars, aborted>> PROVE UNCHANGED Call_!vars
  BY <1>5 DEF fanoutVars, Call_!vars, busy, Workers, Halted
<1> QED BY <1>1, <1>2, <1>3, <1>4, <1>5 DEF AnyFanoutNext, Call_!Next

\* Either fanout keeps the promise of a batch, whatever its options: items
\* are taken in order and once, never more at a time than there are workers,
\* none behind a halt, and the outcome is exposed when nothing is in progress.
THEOREM FanoutImplementsBatch == AnyFanoutSpec => ImplementsBatch
<1> QED BY InitFanout, FanoutInvKept, NextBatch, PTL
        DEF AnyFanoutSpec, ImplementsBatch, Call_!Spec

-----------------------------------------------------------------------------
(***************************************************************************)
(* Phases, branches and lives of a pipeline.                               *)
(***************************************************************************)

BranchPcs == {"attempting", "clearing", "working", "sleeping", "testing", "converged", "maxed",
              "routing", "entering", "innerCancelled", "mapping", "done", "failed", "closed"}
BranchRecords == [wrap: Wrappers, pc: BranchPcs, count: Nat, before: BOOLEAN,
                  emitted: BOOLEAN, cut: BOOLEAN]

\* Where a branch may be in progress.
Open == {"running", "closed"}

\* The wrappers that set ctx.stop for good; a withRetry clears it.
Stoppers == {"plain", "while", "gate", "match"}
RetryAlone ==
  \A p \in Pipelines : \A k \in DOMAIN p : \A b, c \in DOMAIN p[k].wraps :
    p[k].wraps[b] = "retry" => p[k].wraps[c] \notin Stoppers

-----------------------------------------------------------------------------
(* The invariant.                                                          *)

PipelineTypeOK ==
  /\ phases \in Pipelines /\ phases \in Seq(Phases)
  /\ at \in 0..Len(phases)
  /\ stop \in BOOLEAN
  /\ frames \in Seq({"done", "stopped", "cancelled"})
  /\ \A b \in Branches : branches[b] \in BranchRecords

\* The branches are those of phase at.
BranchesOfPhase ==
  \A b \in Branches : /\ at \in 1..Len(phases) /\ b \in DOMAIN phases[at].wraps
                      /\ branches[b].wrap = phases[at].wraps[b]

\* Between phases nothing is in progress and no event waits.
NothingLeft ==
  /\ pos \notin Open => Quiet
  /\ pos \notin Open \cup {"dead"} => queue = 0 /\ ~suspended
  /\ pos = "entering" => at = 0 /\ stoppedAt = 0

\* A call of a fanout belongs to the only branch of the phase, which waits
\* for it.
FanoutOwned ==
  outcome # "idle" =>
    /\ pos \in Open /\ queue = 0 /\ ~suspended
    /\ Branches = {1} /\ branches[1].wrap = "fanout" /\ branches[1].pc = "working"

\* A branch only returns early when it is aborted, by the caller or by a
\* sibling's error.
CutHasReason ==
  pos # "closed" => \A b \in Branches : branches[b].cut => aborted \/ Errored

\* The phases behind the pipeline did all of their work, in this life or in
\* an earlier one.
BehindIsDone ==
  /\ skipped \subseteq full
  /\ pos \in {"entering", "running"} => \A k \in 1..Len(phases) : k < at => k \in full
  /\ pos \in {"yielded", "recorded"} => \A k \in 1..Len(phases) : k <= at => k \in full
  /\ pos = "yielded" => at \in full

\* ctx.stop stays, and the phase that set it is the last.
StopKept ==
  RetryAlone /\ stoppedAt # 0 =>
    /\ at = stoppedAt /\ stop
    /\ \A b \in Branches : branches[b].wrap # "retry"

PipelineInv ==
  /\ PipelineTypeOK /\ FanoutInv
  /\ BranchesOfPhase /\ NothingLeft /\ FanoutOwned /\ CutHasReason /\ BehindIsDone /\ StopKept
  /\ CheckpointsTruthful /\ ResumeCovers

-----------------------------------------------------------------------------
(* What a branch does in one step.                                         *)

MovesTo(b, x) ==
  /\ pos \in Open /\ branches[b].pc \notin Finished
  /\ branches' = [branches EXCEPT ![b] = x]
  /\ x.wrap = branches[b].wrap
  /\ x.cut => branches[b].cut \/ aborted \/ Errored \/ x.pc = "failed"
  /\ UNCHANGED <<phases, at, pos, skipped, logged, life, full, aborted, frames>>
  /\ \/ branches[b].wrap # "fanout" /\ UNCHANGED fanoutVars
     \/ branches[b].wrap = "fanout" /\ Forget /\ UNCHANGED <<queue, suspended>>
  /\ \/ UNCHANGED <<stop, stoppedAt>>
     \/ branches[b].wrap \in Stoppers /\ stop' = TRUE /\ stoppedAt' = at
     \/ branches[b].wrap = "retry" /\ stop' \in BOOLEAN /\ UNCHANGED stoppedAt

\* The part of it that concerns the branch alone.
Turns(b, x) ==
  /\ branches' = [branches EXCEPT ![b] = x]
  /\ x.wrap = branches[b].wrap
  /\ x.cut => branches[b].cut \/ aborted \/ Errored
  /\ \/ UNCHANGED <<stop, stoppedAt>>
     \/ branches[b].wrap \in Stoppers /\ stop' = TRUE /\ stoppedAt' = at
     \/ branches[b].wrap = "retry" /\ stop' \in BOOLEAN /\ UNCHANGED stoppedAt

LEMMA PcSet ==
  ASSUME NEW r \in BranchRecords, NEW pc \in BranchPcs
  PROVE  /\ [r EXCEPT !.pc = pc] \in BranchRecords
         /\ [r EXCEPT !.pc = pc].wrap = r.wrap /\ [r EXCEPT !.pc = pc].cut = r.cut
BY SMT DEF BranchRecords

LEMMA Attempted ==
  ASSUME NEW r \in BranchRecords, NEW pc \in BranchPcs
  PROVE  LET x == [r EXCEPT !.pc = pc, !.count = @ + 1]
         IN  x \in BranchRecords /\ x.wrap = r.wrap /\ x.cut = r.cut
<1>1. r.count + 1 \in Nat
  BY SMT DEF BranchRecords
<1> QED BY <1>1, Zenon DEF BranchRecords

\* A step that only moves the branch's pc.
LEMMA GoesTurns ==
  ASSUME PipelineTypeOK, NEW b \in Branches, NEW pc \in BranchPcs,
         branches' = [branches EXCEPT ![b] = Goes_(b, pc)],
         \/ UNCHANGED <<stop, stoppedAt>>
         \/ branches[b].wrap \in Stoppers /\ stop' = TRUE /\ stoppedAt' = at
  PROVE  \E x \in BranchRecords : Turns(b, x)
<1>1. branches[b] \in BranchRecords
  BY DEF PipelineTypeOK
<1>2. Goes_(b, pc) \in BranchRecords
  BY <1>1, PcSet DEF Goes_
<1>3. Turns(b, Goes_(b, pc))
  BY <1>1, PcSet, Zenon DEF Turns, Goes_
<1> QED BY <1>2, <1>3

\* A step of a leaf, which may change more of its branch.
LEMMA LeafTurns ==
  ASSUME PipelineTypeOK, NEW b \in Branches, NEW x \in BranchRecords,
         x.wrap = branches[b].wrap,
         x.cut => branches[b].cut \/ BranchAborted,
         branches' = [branches EXCEPT ![b] = x],
         \/ UNCHANGED <<stop, stoppedAt>>
         \/ branches[b].wrap \in Stoppers /\ stop' = TRUE /\ stoppedAt' = at
         \/ branches[b].wrap = "retry" /\ stop' \in BOOLEAN /\ UNCHANGED stoppedAt
  PROVE  Turns(b, x)
<1>1. BranchAborted => aborted \/ Errored
  BY DEF BranchAborted
<1> QED BY <1>1, Zenon DEF Turns

LEMMA PatternTurns ==
  ASSUME PipelineTypeOK, NEW b \in Branches, Pattern(b)
  PROVE  /\ pos \in Open /\ branches[b].pc \notin Finished /\ branches[b].wrap # "fanout"
         /\ \E x \in BranchRecords : Turns(b, x)
<1>1. branches[b] \in BranchRecords /\ stop \in BOOLEAN
  BY DEF PipelineTypeOK
<1>2. /\ pos \in Open /\ branches[b].pc \notin Finished /\ branches[b].wrap # "fanout"
  BY Zenon DEF Pattern, Attempts, Clears, Wakes, Tests, Converges, ReachesMax, Routes, Chooses,
               SubEnters, SubLeaves, At_, Open, Finished
<1>3. CASE Attempts(b)
  <2> DEFINE x == [branches[b] EXCEPT !.pc = "clearing", !.count = @ + 1]
  <2>1. x \in BranchRecords /\ x.wrap = branches[b].wrap /\ x.cut = branches[b].cut
    BY <1>1, Attempted DEF BranchPcs
  <2>2. branches' = [branches EXCEPT ![b] = x] /\ UNCHANGED <<stop, stoppedAt>>
    BY <1>3, Zenon DEF Attempts, Emits, KeepStop
  <2> QED BY <2>1, <2>2, <1>2, LeafTurns
<1>4. CASE Clears(b)
  <2> DEFINE x == [branches[b] EXCEPT !.pc = "working", !.before = stop]
  <2>1. x \in BranchRecords /\ x.wrap = branches[b].wrap /\ x.cut = branches[b].cut
    BY <1>1, Zenon DEF BranchRecords, BranchPcs
  <2>2. /\ branches' = [branches EXCEPT ![b] = x] /\ stop' = FALSE /\ UNCHANGED stoppedAt
        /\ branches[b].wrap = "retry"
    BY <1>4, Zenon DEF Clears, Becomes, At_
  <2> QED BY <2>1, <2>2, <1>2, LeafTurns
<1>5. CASE Wakes(b)
  <2>1. PICK pc \in {"failed", "attempting"} : branches' = [branches EXCEPT ![b] = Goes_(b, pc)]
    <3>1. CASE BranchAborted
      BY <1>5, <3>1, Zenon DEF Wakes, Becomes
    <3>2. CASE ~BranchAborted
      BY <1>5, <3>2, Zenon DEF Wakes, Becomes
    <3> QED BY <3>1, <3>2
  <2> QED BY <1>2, <1>5, <2>1, GoesTurns DEF Wakes, KeepStop, BranchPcs
<1>6. CASE Tests(b)
  <2>1. \E pc \in BranchPcs : branches' = [branches EXCEPT ![b] = Goes_(b, pc)]
    BY <1>6, Zenon DEF Tests, Emits, Becomes, BranchPcs
  <2> QED BY <1>2, <1>6, <2>1, GoesTurns DEF Tests, KeepStop
<1>7. CASE Converges(b)
  BY <1>2, <1>7, GoesTurns DEF Converges, KeepStop, Becomes, BranchPcs
<1>8. CASE ReachesMax(b)
  BY <1>2, <1>8, GoesTurns DEF ReachesMax, StopSet, Becomes, BranchPcs, At_, Stoppers
<1>9. CASE Routes(b)
  <2>1. \E pc \in BranchPcs : branches' = [branches EXCEPT ![b] = Goes_(b, pc)]
    BY <1>9, Zenon DEF Routes, Becomes, BranchPcs
  <2>2. \/ UNCHANGED <<stop, stoppedAt>>
        \/ branches[b].wrap \in Stoppers /\ stop' = TRUE /\ stoppedAt' = at
    BY <1>9, Zenon DEF Routes, KeepStop, StopSet, At_, Stoppers
  <2> QED BY <1>2, <2>1, <2>2, GoesTurns
<1>10. CASE Chooses(b)
  BY <1>2, <1>10, GoesTurns DEF Chooses, KeepStop, Becomes, BranchPcs
<1>11. CASE SubEnters(b)
  <2>1. \E pc \in BranchPcs : branches' = [branches EXCEPT ![b] = Goes_(b, pc)]
    BY <1>11, Zenon DEF SubEnters, Emits, Becomes, BranchPcs
  <2> QED BY <1>2, <1>11, <2>1, GoesTurns DEF SubEnters, KeepStop
<1>12. CASE SubLeaves(b)
  <2>1. \E pc \in BranchPcs : branches' = [branches EXCEPT ![b] = Goes_(b, pc)]
    BY <1>12, Zenon DEF SubLeaves, Becomes, BranchPcs
  <2> QED BY <1>2, <1>12, <2>1, GoesTurns DEF SubLeaves, KeepStop
<1> QED BY <1>3, <1>4, <1>5, <1>6, <1>7, <1>8, <1>9, <1>10, <1>11, <1>12 DEF Pattern

LEMMA LeafEnded ==
  ASSUME NEW r \in BranchRecords, NEW cut \in BOOLEAN
  PROVE  LET now == [r EXCEPT !.cut = @ \/ cut, !.emitted = FALSE]
         IN  now \in BranchRecords /\ now.wrap = r.wrap /\ (now.cut => r.cut \/ cut)
BY Zenon DEF BranchRecords

LEMMA LeafThrew ==
  ASSUME NEW r \in BranchRecords
  PROVE  LET now == [r EXCEPT !.emitted = FALSE]
         IN  now \in BranchRecords /\ now.wrap = r.wrap /\ now.cut = r.cut
BY Zenon DEF BranchRecords

\* phase.run() has returned or thrown, and left its branch as now says.
LEMMA EndTurns ==
  ASSUME PipelineTypeOK, NEW b \in Branches, NEW now \in BranchRecords,
         now.wrap = branches[b].wrap, now.cut => branches[b].cut \/ BranchAborted,
         NEW pc \in BranchPcs, branches' = [branches EXCEPT ![b] = [now EXCEPT !.pc = pc]],
         \/ UNCHANGED <<stop, stoppedAt>>
         \/ branches[b].wrap \in Stoppers /\ stop' = TRUE /\ stoppedAt' = at
         \/ branches[b].wrap = "retry" /\ stop' \in BOOLEAN /\ UNCHANGED stoppedAt
  PROVE  \E x \in BranchRecords : Turns(b, x)
<1> DEFINE x == [now EXCEPT !.pc = pc]
<1>1. x \in BranchRecords /\ x.wrap = now.wrap /\ x.cut = now.cut
  BY PcSet
<1> HIDE DEF x
<1>2. Turns(b, x)
  BY <1>1, LeafTurns DEF x
<1> QED BY <1>1, <1>2

LEMMA RetryTurns ==
  ASSUME PipelineTypeOK, NEW b \in Branches, NEW now \in BranchRecords,
         now.wrap = branches[b].wrap, now.cut => branches[b].cut \/ BranchAborted,
         branches[b].wrap = "retry", NEW threw \in BOOLEAN,
         RetryEnds(b, threw, now), UNCHANGED stoppedAt
  PROVE  \E x \in BranchRecords : Turns(b, x)
<1>1. branches[b] \in BranchRecords /\ branches[b].before \in BOOLEAN /\ stop \in BOOLEAN
  BY Zenon DEF PipelineTypeOK, BranchRecords
<1>2. \E pc \in BranchPcs : branches' = [branches EXCEPT ![b] = [now EXCEPT !.pc = pc]]
  <2>1. CASE threw
    BY <2>1, Zenon DEF RetryEnds, Becomes, BranchPcs
  <2>2. CASE ~threw
    BY <2>2, Zenon DEF RetryEnds, Becomes, BranchPcs
  <2> QED BY <2>1, <2>2
<1>3. stop' \in BOOLEAN
  BY <1>1, Zenon DEF RetryEnds
<1> QED BY <1>2, <1>3, EndTurns

LEMMA WhileTurns ==
  ASSUME PipelineTypeOK, NEW b \in Branches, NEW now \in BranchRecords,
         now.wrap = branches[b].wrap, now.cut => branches[b].cut \/ BranchAborted,
         WhileEnds(b, now), UNCHANGED stoppedAt
  PROVE  \E x \in BranchRecords : Turns(b, x)
<1>1. UNCHANGED <<stop, stoppedAt>>
  BY Zenon DEF WhileEnds
<1>2. CASE stop
  <2>1. branches' = [branches EXCEPT ![b] = [now EXCEPT !.pc = "done"]]
    BY <1>2, Zenon DEF WhileEnds, Becomes
  <2> QED BY <1>1, <2>1, EndTurns DEF BranchPcs
<1>3. CASE ~stop
  <2> DEFINE turned == [now EXCEPT !.count = @ + 1]
  <2>1. turned \in BranchRecords /\ turned.wrap = now.wrap /\ turned.cut = now.cut
    <3>1. now.count + 1 \in Nat
      BY SMT DEF BranchRecords
    <3> QED BY <3>1, Zenon DEF BranchRecords
  <2>2. \E pc \in BranchPcs : branches' = [branches EXCEPT ![b] = [turned EXCEPT !.pc = pc]]
    <3>1. CASE AtMaxIterations(turned.count)
      BY <1>3, <3>1, Zenon DEF WhileEnds, Emits, BranchPcs
    <3>2. CASE ~AtMaxIterations(turned.count)
      BY <1>3, <3>2, Zenon DEF WhileEnds, Becomes, BranchPcs
    <3> QED BY <3>1, <3>2
  <2> HIDE DEF turned
  <2> QED BY <1>1, <2>1, <2>2, EndTurns
<1> QED BY <1>2, <1>3

LEMMA ReturnTurns ==
  ASSUME PipelineTypeOK, NEW b \in Branches, LeafReturns(b)
  PROVE  \E x \in BranchRecords : Turns(b, x)
<1>1. branches[b] \in BranchRecords
  BY DEF PipelineTypeOK
<1> DEFINE after(cut) == [branches[b] EXCEPT !.cut = @ \/ cut, !.emitted = FALSE]
<1>2. PICK cut \in {FALSE, BranchAborted} :
        CASE after(cut).wrap \in {"plain", "match"} ->
               Becomes(b, [after(cut) EXCEPT !.pc = "done"]) /\ KeepStop
          [] after(cut).wrap = "gate" -> Becomes(b, [after(cut) EXCEPT !.pc = "done"]) /\ StopSet
          [] after(cut).wrap = "retry" -> RetryEnds(b, FALSE, after(cut)) /\ UNCHANGED stoppedAt
          [] after(cut).wrap = "while" -> WhileEnds(b, after(cut)) /\ UNCHANGED stoppedAt
          [] after(cut).wrap = "sub" -> SubEnds(b, after(cut)) /\ UNCHANGED stoppedAt
  BY Zenon DEF LeafReturns
<1> DEFINE now == after(cut)
<1>3. cut \in BOOLEAN /\ (cut => BranchAborted)
  <2>1. BranchAborted \in BOOLEAN
    BY Zenon DEF BranchAborted
  <2>2. CASE cut = FALSE
    BY <2>2
  <2>3. CASE cut = BranchAborted
    BY <2>1, <2>3, Zenon
  <2> QED BY <2>2, <2>3
<1>4. /\ now \in BranchRecords /\ now.wrap = branches[b].wrap
      /\ now.cut => branches[b].cut \/ BranchAborted
  BY <1>1, <1>3, LeafEnded
<1>5. branches[b].wrap \in Wrappers \ {"fanout"}
  BY DEF LeafReturns, At_
<1> HIDE DEF now
<1>6. CASE now.wrap \in {"plain", "match"}
  <2>1. branches' = [branches EXCEPT ![b] = [now EXCEPT !.pc = "done"]] /\ UNCHANGED <<stop, stoppedAt>>
    BY <1>2, <1>6, Zenon DEF Becomes, KeepStop, now
  <2> QED BY <1>4, <2>1, EndTurns DEF BranchPcs
<1>7. CASE now.wrap = "gate"
  <2>1. /\ branches' = [branches EXCEPT ![b] = [now EXCEPT !.pc = "done"]]
        /\ stop' = TRUE /\ stoppedAt' = at
    BY <1>2, <1>7, Zenon DEF Becomes, StopSet, now
  <2>2. branches[b].wrap \in Stoppers
    BY <1>4, <1>7 DEF Stoppers
  <2> QED BY <1>4, <2>1, <2>2, EndTurns DEF BranchPcs
<1>8. CASE now.wrap = "retry"
  <2>1. RetryEnds(b, FALSE, now) /\ UNCHANGED stoppedAt
    BY <1>2, <1>8, Zenon DEF now
  <2> QED BY <1>4, <1>8, <2>1, RetryTurns
<1>9. CASE now.wrap = "while"
  <2>1. WhileEnds(b, now) /\ UNCHANGED stoppedAt
    BY <1>2, <1>9, Zenon DEF now
  <2> QED BY <1>4, <2>1, WhileTurns
<1>10. CASE now.wrap = "sub"
  <2>1. SubEnds(b, now) /\ UNCHANGED stoppedAt
    BY <1>2, <1>10, Zenon DEF now
  <2>2. \E pc \in BranchPcs : branches' = [branches EXCEPT ![b] = [now EXCEPT !.pc = pc]]
    <3>1. CASE BranchAborted
      BY <2>1, <3>1, Zenon DEF SubEnds, Emits, BranchPcs
    <3>2. CASE ~BranchAborted
      BY <2>1, <3>2, Zenon DEF SubEnds, Emits, BranchPcs
    <3> QED BY <3>1, <3>2
  <2> QED BY <1>4, <2>1, <2>2, EndTurns DEF SubEnds
<1> QED BY <1>4, <1>5, <1>6, <1>7, <1>8, <1>9, <1>10 DEF Wrappers

LEMMA ThrowTurns ==
  ASSUME PipelineTypeOK, NEW b \in Branches, LeafThrows(b)
  PROVE  \E x \in BranchRecords : Turns(b, x)
<1>1. branches[b] \in BranchRecords
  BY DEF PipelineTypeOK
<1> DEFINE now == [branches[b] EXCEPT !.emitted = FALSE]
<1>2. /\ now \in BranchRecords /\ now.wrap = branches[b].wrap /\ now.cut = branches[b].cut
  BY <1>1, LeafThrew
<1>3. CASE now.wrap = "retry"
  BY <1>2, <1>3, RetryTurns, Zenon DEF LeafThrows
<1>4. CASE now.wrap # "retry"
  <2>1. /\ branches' = [branches EXCEPT ![b] = [now EXCEPT !.pc = "failed"]]
        /\ UNCHANGED <<stop, stoppedAt>>
    BY <1>4, Zenon DEF LeafThrows, Becomes
  <2> QED BY <1>2, <2>1, EndTurns DEF BranchPcs
<1> QED BY <1>3, <1>4

\* Every step of a branch.
LEMMA BranchMoves ==
  ASSUME PipelineTypeOK, FanoutInv, NEW b \in Branches, BranchStep(b)
  PROVE  \E x \in BranchRecords : MovesTo(b, x)
<1>1. branches[b] \in BranchRecords
  BY DEF PipelineTypeOK
<1>2. UNCHANGED <<phases, at, pos, skipped, logged, life, full, aborted, frames>>
  BY DEF BranchStep, BranchRest
<1>3. ASSUME \E x \in BranchRecords : Turns(b, x), UNCHANGED fanoutVars,
             pos \in Open, branches[b].pc \notin Finished, branches[b].wrap # "fanout"
      PROVE  \E x \in BranchRecords : MovesTo(b, x)
  BY <1>2, <1>3, Zenon DEF MovesTo, Turns
<1>4. ASSUME At_(b, Wrappers \ {"fanout"}, "working")
      PROVE  pos \in Open /\ branches[b].pc \notin Finished /\ branches[b].wrap # "fanout"
  BY <1>4 DEF At_, Open, Finished
<1>5. CASE UNCHANGED fanoutVars /\ LeafEmits(b)
  <2> DEFINE x == [branches[b] EXCEPT !.emitted = TRUE]
  <2>1. x \in BranchRecords /\ x.wrap = branches[b].wrap /\ x.cut = branches[b].cut
    BY <1>1, Zenon DEF BranchRecords
  <2>2. branches' = [branches EXCEPT ![b] = x] /\ UNCHANGED <<stop, stoppedAt>>
    BY <1>5, Zenon DEF LeafEmits, Emits, KeepStop
  <2>3. \E y \in BranchRecords : Turns(b, y)
    BY <2>1, <2>2, LeafTurns
  <2> QED BY <1>3, <1>4, <1>5, <2>3 DEF LeafEmits
<1>6. CASE UNCHANGED fanoutVars /\ LeafStops(b)
  <2>1. /\ At_(b, {"plain", "retry", "while", "match"}, "working")
        /\ branches' = [branches EXCEPT ![b] = branches[b]]
    BY <1>6 DEF LeafStops, Becomes
  <2>2. \/ UNCHANGED <<stop, stoppedAt>>
        \/ branches[b].wrap \in Stoppers /\ stop' = TRUE /\ stoppedAt' = at
        \/ branches[b].wrap = "retry" /\ stop' \in BOOLEAN /\ UNCHANGED stoppedAt
    <3>1. CASE branches[b].wrap = "retry"
      BY <1>6, <3>1, Zenon DEF LeafStops
    <3>2. CASE branches[b].wrap # "retry"
      BY <1>6, <2>1, <3>2, Zenon DEF LeafStops, StopSet, Stoppers, At_
    <3> QED BY <3>1, <3>2
  <2>3. \E y \in BranchRecords : Turns(b, y)
    BY <1>1, <2>1, <2>2, LeafTurns
  <2>4. pos \in Open /\ branches[b].pc \notin Finished /\ branches[b].wrap # "fanout"
    BY <2>1 DEF At_, Open, Finished
  <2> QED BY <1>3, <1>6, <2>3, <2>4
<1>7. CASE UNCHANGED fanoutVars /\ LeafReturns(b)
  BY <1>3, <1>4, <1>7, ReturnTurns DEF LeafReturns
<1>8. CASE UNCHANGED fanoutVars /\ LeafThrows(b)
  BY <1>3, <1>4, <1>8, ThrowTurns DEF LeafThrows
<1>9. CASE UNCHANGED fanoutVars /\ Pattern(b)
  BY <1>3, <1>9, PatternTurns
<1>10. CASE FanoutEnds(b)
  <2> DEFINE pc == IF outcome = "resolved" THEN "done" ELSE "failed"
             cut == \E i \in Items : results[i] = "aborted"
             x == [branches[b] EXCEPT !.pc = pc, !.cut = cut]
  <2>1. pc \in BranchPcs /\ cut \in BOOLEAN
    BY Zenon DEF BranchPcs
  <2>2. cut => aborted \/ pc = "failed"
    BY Zenon DEF FanoutInv, ResolvesHonestly
  <2>3. /\ branches' = [branches EXCEPT ![b] = x] /\ UNCHANGED <<queue, suspended, stop, stoppedAt>>
        /\ Forget /\ At_(b, {"fanout"}, "working")
    BY <1>10, Zenon DEF FanoutEnds, Becomes, KeepStop
  <2> HIDE DEF pc, cut
  <2>4. /\ x \in BranchRecords /\ x.wrap = branches[b].wrap /\ x.pc = pc
        /\ x.cut => cut
    BY <1>1, <2>1, Zenon DEF BranchRecords
  <2> HIDE DEF x
  <2>5. pos \in Open /\ branches[b].pc \notin Finished /\ branches[b].wrap = "fanout"
    BY <2>3 DEF At_, Open, Finished
  <2>6. x.cut => branches[b].cut \/ aborted \/ Errored \/ x.pc = "failed"
    BY <2>2, <2>4, Zenon
  <2>7. MovesTo(b, x)
    BY <1>2, <2>3, <2>4, <2>5, <2>6, Zenon DEF MovesTo
  <2> QED BY <2>4, <2>7
<1> QED BY <1>5, <1>6, <1>7, <1>8, <1>9, <1>10, Zenon DEF BranchStep

-----------------------------------------------------------------------------
(* Every step keeps the invariant.                                         *)

LEMMA MoveKeeps ==
  ASSUME PipelineInv, NEW b \in Branches, NEW x \in BranchRecords, MovesTo(b, x)
  PROVE  PipelineInv'
<1>1. /\ PipelineTypeOK /\ FanoutInv /\ BranchesOfPhase /\ NothingLeft /\ FanoutOwned
      /\ CutHasReason /\ BehindIsDone /\ StopKept /\ CheckpointsTruthful /\ ResumeCovers
  BY DEF PipelineInv
<1>2. /\ pos' = pos /\ pos \in Open /\ branches[b].pc \notin Finished
      /\ UNCHANGED <<phases, at, skipped, logged, life, full, aborted, frames>>
  BY DEF MovesTo
<1>3. /\ Branches' = Branches /\ branches'[b] = x /\ x.wrap = branches[b].wrap
      /\ \A c \in Branches : c # b => branches'[c] = branches[c]
  <2>1. branches' = [branches EXCEPT ![b] = x] /\ x.wrap = branches[b].wrap
    BY DEF MovesTo
  <2> QED BY <2>1, Zenon DEF Branches
<1>4. \A c \in Branches : branches'[c] \in BranchRecords /\ branches'[c].wrap = branches[c].wrap
  BY <1>1, <1>3, Zenon DEF PipelineTypeOK
<1>5. PipelineTypeOK'
  <2>1. stop' \in BOOLEAN
    BY <1>1, Zenon DEF MovesTo, PipelineTypeOK
  <2> QED BY <1>1, <1>2, <1>3, <1>4, <2>1, Zenon DEF PipelineTypeOK
<1>6. BranchesOfPhase'
  BY <1>1, <1>2, <1>3, <1>4, Zenon DEF BranchesOfPhase
<1>7. NothingLeft'
  BY <1>2 DEF NothingLeft, Open
<1>8. FanoutInv' /\ FanoutOwned'
  <2>1. CASE branches[b].wrap # "fanout" /\ UNCHANGED fanoutVars
    <3>1. FanoutInv'
      BY <1>1, <1>2, <2>1, SameKeeps
    <3>2. outcome' = "idle"
      BY <1>1, <2>1, Zenon DEF FanoutOwned, fanoutVars
    <3> QED BY <3>1, <3>2 DEF FanoutOwned
  <2>2. CASE Forget
    <3>1. aborted' \in BOOLEAN /\ outcome' = "idle"
      BY <1>1, <1>2, <2>2, Zenon DEF FanoutInv, FanoutTypeOK, Forget
    <3>2. FanoutInv'
      BY <2>2, <3>1, NoOptionsTyped DEF Forget
    <3> QED BY <3>1, <3>2 DEF FanoutOwned
  <2> QED BY <2>1, <2>2, Zenon DEF MovesTo
<1>9. CutHasReason'
  <2> SUFFICES ASSUME pos # "closed", NEW c \in Branches, branches'[c].cut
               PROVE  aborted \/ Errored'
    BY <1>2, <1>3, Zenon DEF CutHasReason
  <2>1. Errored => Errored'
    BY <1>2, <1>3, Zenon DEF Errored, Finished
  <2>2. x.pc = "failed" => Errored'
    BY <1>3, Zenon DEF Errored
  <2>3. CASE c = b
    <3>1. branches[b].cut \/ aborted \/ Errored \/ x.pc = "failed"
      BY <1>3, <2>3, Zenon DEF MovesTo
    <3> QED BY <1>1, <2>1, <2>2, <3>1, Zenon DEF CutHasReason
  <2>4. CASE c # b
    BY <1>1, <1>3, <2>1, <2>4, Zenon DEF CutHasReason
  <2> QED BY <2>3, <2>4
<1>10. BehindIsDone' /\ CheckpointsTruthful' /\ ResumeCovers'
  BY <1>1, <1>2 DEF BehindIsDone, CheckpointsTruthful, ResumeCovers
<1>11. StopKept'
  <2> SUFFICES ASSUME RetryAlone, stoppedAt' # 0
               PROVE  at = stoppedAt' /\ stop' /\ \A c \in Branches : branches[c].wrap # "retry"
    BY <1>2, <1>3, <1>4, Zenon DEF StopKept
  <2>1. CASE UNCHANGED <<stop, stoppedAt>>
    BY <1>1, <2>1, Zenon DEF StopKept
  <2>2. CASE branches[b].wrap \in Stoppers /\ stop' = TRUE /\ stoppedAt' = at
    <3>1. at \in DOMAIN phases /\ phases \in Pipelines
      BY <1>1, SMT DEF BranchesOfPhase, PipelineTypeOK
    <3>2. \A c \in Branches : branches[c].wrap # "retry"
      BY <1>1, <2>2, <3>1, Zenon DEF RetryAlone, BranchesOfPhase
    <3> QED BY <2>2, <3>2, Zenon
  <2>3. CASE branches[b].wrap = "retry" /\ UNCHANGED stoppedAt
    BY <1>1, <2>3, Zenon DEF StopKept
  <2> QED BY <2>1, <2>2, <2>3, Zenon DEF MovesTo
<1> QED BY <1>5, <1>6, <1>7, <1>8, <1>9, <1>10, <1>11 DEF PipelineInv

LEMMA NewBranchTyped ==
  ASSUME NEW wrap \in Wrappers
  PROVE  /\ NewBranch(wrap) \in BranchRecords
         /\ NewBranch(wrap).wrap = wrap /\ NewBranch(wrap).cut = FALSE
         /\ wrap = "fanout" => NewBranch(wrap).pc = "working"
<1>1. FirstPc(wrap) \in BranchPcs /\ (wrap = "fanout" => FirstPc(wrap) = "working")
  BY SMT DEF FirstPc, BranchPcs, Wrappers
<1> QED BY <1>1, SMT DEF NewBranch, BranchRecords

LEMMA TerminatesKeeps ==
  ASSUME PipelineInv, NEW frame \in {"done", "stopped", "cancelled"}, Terminates(frame),
         pos # "closed", Quiet, queue = 0, ~suspended, outcome = "idle",
         UNCHANGED <<phases, stop, queue, suspended, skipped, logged, life, stoppedAt, aborted>>,
         full \subseteq full',
         frame = "done" => 1..Len(phases) \subseteq full'
  PROVE  PipelineInv'
<1>1. /\ PipelineTypeOK /\ FanoutInv /\ BranchesOfPhase /\ CutHasReason /\ BehindIsDone
      /\ StopKept /\ CheckpointsTruthful
  BY DEF PipelineInv
<1>2. /\ frames' = Append(frames, frame) /\ pos' \in {"cancelling", "ended"}
      /\ UNCHANGED <<at, branches, fanoutVars>>
  BY Zenon DEF Terminates
<1>3. frames' \in Seq({"done", "stopped", "cancelled"}) /\ (frames' = <<"done">> => frame = "done")
  <2>1. frames \in Seq({"done", "stopped", "cancelled"})
    BY <1>1 DEF PipelineTypeOK
  <2>2. /\ Len(Append(frames, frame)) = Len(frames) + 1
        /\ Append(frames, frame)[Len(frames) + 1] = frame
        /\ Append(frames, frame) \in Seq({"done", "stopped", "cancelled"})
        /\ Len(frames) \in Nat
    BY <2>1, SMT
  <2>3. Len(<<"done">>) = 1 /\ <<"done">>[1] = "done"
    BY SMT
  <2>4. ASSUME Append(frames, frame) = <<"done">> PROVE frame = "done"
    <3>1. Len(frames) + 1 = 1
      BY <2>2, <2>3, <2>4, Zenon
    <3> QED BY <2>2, <2>3, <2>4, <3>1, Zenon
  <2> QED BY <1>2, <2>2, <2>4, Zenon
<1>4. PipelineTypeOK'
  BY <1>1, <1>2, <1>3, Zenon DEF PipelineTypeOK, Branches
<1>5. FanoutInv' /\ FanoutOwned'
  BY <1>1, <1>2, SameKeeps DEF FanoutOwned, fanoutVars
<1>6. BranchesOfPhase' /\ CutHasReason' /\ StopKept'
  BY <1>1, <1>2 DEF BranchesOfPhase, CutHasReason, StopKept, Errored, Branches
<1>7. NothingLeft'
  BY <1>2 DEF NothingLeft, Quiet, Open, Branches
<1>8. BehindIsDone' /\ CheckpointsTruthful'
  BY <1>1, <1>2 DEF BehindIsDone, CheckpointsTruthful
<1>9. ResumeCovers'
  BY <1>3 DEF ResumeCovers
<1> QED BY <1>4, <1>5, <1>6, <1>7, <1>8, <1>9 DEF PipelineInv

LEMMA EnterKeeps ==
  ASSUME PipelineInv, Enter,
         pos # "closed", Quiet, queue = 0, ~suspended, outcome = "idle",
         RetryAlone => stoppedAt = 0,
         UNCHANGED <<phases, stop, queue, suspended, skipped, logged, life, stoppedAt, aborted>>,
         full \subseteq full',
         \A k \in 1..Len(phases) : k <= at => k \in full'
  PROVE  PipelineInv'
<1>1. /\ PipelineTypeOK /\ FanoutInv /\ BehindIsDone /\ CheckpointsTruthful
  BY DEF PipelineInv
<1>2. at \in 0..Len(phases) /\ Len(phases) \in Nat /\ phases \in Seq(Phases)
  BY <1>1, SMT DEF PipelineTypeOK
<1>3. CASE aborted /\ at < Len(phases)
  BY <1>3, TerminatesKeeps, Zenon DEF Enter
<1>4. CASE ~(aborted /\ at < Len(phases)) /\ Rest = {}
  <2>1. 1..Len(phases) \subseteq full'
    BY <1>1, <1>2, <1>4, SMT DEF Rest, BehindIsDone
  <2> QED BY <1>4, <2>1, TerminatesKeeps, Zenon DEF Enter
<1>5. CASE ~(aborted /\ at < Len(phases)) /\ Rest # {}
  <2>1. PICK k \in Rest :
          /\ \A j \in Rest : k <= j
          /\ at' = k /\ pos' = "running" /\ UNCHANGED frames
          /\ branches' = [b \in DOMAIN phases[k].wraps |-> NewBranch(phases[k].wraps[b])]
          /\ IF phases[k].wraps = <<"fanout">>
             THEN \E o \in FanoutOptions : CallAny(o)
             ELSE UNCHANGED fanoutVars
    BY <1>5, Zenon DEF Enter
  <2>2. /\ k \in 1..Len(phases) /\ at < k
        /\ \A j \in 1..Len(phases) : at < j /\ j < k => j \in skipped
    BY <1>2, <2>1, SMT DEF Rest
  <2>3. /\ phases[k].wraps \in Seq(Wrappers)
        /\ \A b \in DOMAIN phases[k].wraps : phases[k].wraps[b] \in Wrappers
    <3>1. phases[k] \in Phases
      BY <1>2, <2>2, SMT
    <3>2. phases[k].wraps \in Seq(Wrappers)
      BY <3>1, Zenon DEF Phases
    <3> QED BY <3>2, SMT
  <2>4. /\ Branches' = DOMAIN phases[k].wraps
        /\ \A b \in Branches' : branches'[b] = NewBranch(phases[k].wraps[b])
    BY <2>1, Zenon DEF Branches
  <2>5. \A b \in Branches' : /\ branches'[b] \in BranchRecords /\ branches'[b].cut = FALSE
                              /\ branches'[b].wrap = phases[k].wraps[b]
    <3> SUFFICES ASSUME NEW b \in Branches'
                 PROVE  /\ branches'[b] \in BranchRecords /\ branches'[b].cut = FALSE
                        /\ branches'[b].wrap = phases[k].wraps[b]
      OBVIOUS
    <3>1. phases[k].wraps[b] \in Wrappers /\ branches'[b] = NewBranch(phases[k].wraps[b])
      BY <2>3, <2>4
    <3> QED BY <3>1, NewBranchTyped, Zenon
  <2>6. PipelineTypeOK'
    <3>1. at' \in 0..Len(phases)
      BY <1>2, <2>1, <2>2, SMT
    <3> QED BY <1>1, <2>1, <2>5, <3>1, Zenon DEF PipelineTypeOK
  <2>7. BranchesOfPhase'
    BY <2>1, <2>2, <2>4, <2>5, Zenon DEF BranchesOfPhase
  <2>8. NothingLeft' /\ CutHasReason'
    BY <2>1, <2>5, Zenon DEF NothingLeft, CutHasReason, Open
  <2>9. FanoutInv' /\ FanoutOwned'
    <3>1. CASE phases[k].wraps = <<"fanout">>
      <4>1. FanoutInv'
        BY <1>1, <2>1, <3>1, CallKeeps
      <4>2. Branches' = {1} /\ phases[k].wraps[1] = "fanout"
        BY <2>4, <3>1, SMT
      <4>3. branches'[1].wrap = "fanout" /\ branches'[1].pc = "working"
        BY <2>4, <4>2, NewBranchTyped DEF Wrappers
      <4> QED BY <2>1, <4>1, <4>2, <4>3 DEF FanoutOwned, Open
    <3>2. CASE phases[k].wraps # <<"fanout">>
      BY <1>1, <2>1, <3>2, SameKeeps DEF FanoutOwned, fanoutVars
    <3> QED BY <3>1, <3>2
  <2>10. BehindIsDone' /\ CheckpointsTruthful'
    <3>1. \A j \in 1..Len(phases) : j < k => j \in full'
      BY <1>1, <1>2, <2>2, SMT DEF BehindIsDone
    <3> QED BY <1>1, <2>1, <3>1 DEF BehindIsDone, CheckpointsTruthful
  <2>11. StopKept' /\ ResumeCovers'
    BY <2>1 DEF StopKept, ResumeCovers
  <2> QED BY <2>6, <2>7, <2>8, <2>9, <2>10, <2>11 DEF PipelineInv
<1> QED BY <1>3, <1>4, <1>5

LEMMA EntersOrStops ==
  ASSUME PipelineInv, StopsOrEnters,
         pos # "closed", Quiet, queue = 0, ~suspended, outcome = "idle",
         UNCHANGED <<phases, stop, queue, suspended, skipped, logged, life, stoppedAt, aborted>>,
         full \subseteq full',
         \A k \in 1..Len(phases) : k <= at => k \in full'
  PROVE  PipelineInv'
<1>1. CASE stop
  BY <1>1, TerminatesKeeps, Zenon DEF StopsOrEnters
<1>2. CASE ~stop
  <2>1. RetryAlone => stoppedAt = 0
    BY <1>2, Zenon DEF PipelineInv, StopKept
  <2> QED BY <1>2, <2>1, EnterKeeps, Zenon DEF StopsOrEnters
<1> QED BY <1>1, <1>2

\* Where runPipeline moves on and leaves the branches alone.
LEMMA PosKeeps ==
  ASSUME PipelineInv, pos' \notin Open \cup {"entering", "ended", "yielded"},
         Quiet, queue = 0, ~suspended, outcome = "idle", pos # "closed",
         UNCHANGED <<phases, at, stop, branches, queue, suspended, skipped, frames, life, full,
                     stoppedAt, fanoutVars, aborted>>,
         logged' \subseteq full,
         pos' = "recorded" => \A k \in 1..Len(phases) : k <= at => k \in full
  PROVE  PipelineInv'
<1>1. /\ PipelineTypeOK /\ FanoutInv /\ BranchesOfPhase /\ CutHasReason /\ BehindIsDone /\ StopKept
  BY DEF PipelineInv
<1>2. PipelineTypeOK' /\ BranchesOfPhase' /\ CutHasReason' /\ StopKept'
  BY <1>1 DEF PipelineTypeOK, BranchesOfPhase, CutHasReason, StopKept, Errored, Branches
<1>3. FanoutInv' /\ FanoutOwned'
  BY <1>1, SameKeeps DEF FanoutOwned, fanoutVars
<1>4. NothingLeft'
  BY DEF NothingLeft, Quiet, Open, Branches
<1>5. BehindIsDone' /\ CheckpointsTruthful' /\ ResumeCovers'
  BY <1>1, Zenon DEF BehindIsDone, CheckpointsTruthful, ResumeCovers, Open
<1> QED BY <1>2, <1>3, <1>4, <1>5 DEF PipelineInv

LEMMA PhaseEndKeeps ==
  ASSUME PipelineInv, PhaseEnds
  PROVE  PipelineInv'
<1>1. /\ PipelineTypeOK /\ BranchesOfPhase /\ FanoutOwned /\ CutHasReason /\ BehindIsDone
      /\ CheckpointsTruthful
  BY DEF PipelineInv
<1>2. /\ pos = "running" /\ ~suspended /\ queue = 0 /\ Quiet
      /\ UNCHANGED <<phases, stop, queue, suspended, skipped, logged, life, stoppedAt, aborted>>
  BY DEF PhaseEnds, AllBranchesFinished
<1>3. outcome = "idle"
  BY <1>1, <1>2, Zenon DEF FanoutOwned, Quiet, Finished
<1>4. CASE Errored
  <2>1. pos' = "threw" /\ UNCHANGED <<at, branches, frames, fanoutVars, full>>
    BY <1>4, Zenon DEF PhaseEnds
  <2> QED BY <1>1, <1>2, <1>3, <2>1, PosKeeps, Zenon DEF Open, CheckpointsTruthful
<1>5. CASE ~Errored
  <2>1. Returns /\ full' = IF \E b \in Branches : branches[b].cut THEN full ELSE full \cup {at}
    BY <1>5, Zenon DEF PhaseEnds
  <2>2. full \subseteq full'
    BY <2>1
  <2>3. CASE aborted
    BY <1>2, <1>3, <2>1, <2>2, <2>3, TerminatesKeeps, Zenon DEF Returns
  <2>4. CASE ~aborted
    <3>1. at \in full'
      BY <1>1, <1>2, <1>5, <2>1, <2>4, Zenon DEF CutHasReason
    <3>2. \A k \in 1..Len(phases) : k <= at => k \in full'
      <4>1. at \in Nat
        BY <1>1, SMT DEF PipelineTypeOK
      <4>2. \A k \in 1..Len(phases) : k < at => k \in full
        BY <1>1, <1>2, Zenon DEF BehindIsDone
      <4> QED BY <2>2, <3>1, <4>1, <4>2, SMT
    <3>3. CASE phases[at].keyed
      <4>1. pos' = "yielded" /\ UNCHANGED <<at, branches, frames, fanoutVars>>
        BY <2>1, <2>4, <3>3, Zenon DEF Returns
      <4>2. PipelineTypeOK' /\ BranchesOfPhase' /\ CutHasReason' /\ StopKept'
        BY <1>1, <1>2, <4>1
        DEF PipelineInv, PipelineTypeOK, BranchesOfPhase, CutHasReason, StopKept, Errored, Branches
      <4>3. FanoutInv' /\ FanoutOwned'
        BY <1>2, <1>3, <4>1, SameKeeps DEF PipelineInv, FanoutOwned, fanoutVars
      <4>4. NothingLeft'
        BY <1>2, <4>1 DEF NothingLeft, Quiet, Open, Branches
      <4>5. BehindIsDone' /\ CheckpointsTruthful' /\ ResumeCovers'
        BY <1>1, <1>2, <2>2, <3>1, <3>2, <4>1, Zenon
        DEF BehindIsDone, CheckpointsTruthful, ResumeCovers
      <4> QED BY <4>2, <4>3, <4>4, <4>5 DEF PipelineInv
    <3>4. CASE ~phases[at].keyed
      <4>1. StopsOrEnters
        BY <2>1, <2>4, <3>4, Zenon DEF Returns
      <4> QED BY <1>2, <1>3, <2>2, <3>2, <4>1, EntersOrStops
    <3> QED BY <3>3, <3>4
  <2> QED BY <2>3, <2>4
<1> QED BY <1>4, <1>5

\* The steps of runPipeline that are not about a phase's end.
LEMMA BeginKeeps ==
  ASSUME PipelineInv, Begins
  PROVE  PipelineInv'
<1>1. /\ pos = "entering" /\ Enter /\ full' = full
      /\ UNCHANGED <<phases, stop, queue, suspended, skipped, logged, life, stoppedAt, aborted>>
  BY DEF Begins
<1>2. Quiet /\ queue = 0 /\ ~suspended /\ at = 0 /\ stoppedAt = 0 /\ outcome = "idle"
  BY <1>1, Zenon DEF PipelineInv, NothingLeft, FanoutOwned, Open
<1>3. \A k \in 1..Len(phases) : ~(k <= at)
  BY <1>2, SMT
<1> QED BY <1>1, <1>2, <1>3, EnterKeeps, Zenon

LEMMA RecordsKeeps ==
  ASSUME PipelineInv, Records
  PROVE  PipelineInv'
<1>1. Quiet /\ queue = 0 /\ ~suspended /\ outcome = "idle"
  BY Zenon DEF Records, PipelineInv, NothingLeft, FanoutOwned, Open
<1>2. /\ logged \subseteq full /\ at \in full
      /\ \A k \in 1..Len(phases) : k <= at => k \in full
  BY Zenon DEF Records, PipelineInv, BehindIsDone, CheckpointsTruthful
<1> QED BY <1>1, <1>2, PosKeeps, Zenon DEF Records, Open

LEMMA ResumesKeeps ==
  ASSUME PipelineInv, Resumes
  PROVE  PipelineInv'
<1>1. /\ pos \in {"recorded", "cancelling", "ended"} /\ full' = full
      /\ UNCHANGED <<phases, stop, queue, suspended, skipped, logged, life, stoppedAt, aborted>>
  BY DEF Resumes
<1>2. Quiet /\ queue = 0 /\ ~suspended /\ outcome = "idle"
  BY <1>1, Zenon DEF PipelineInv, NothingLeft, FanoutOwned, Open
<1>3. CASE pos = "recorded" /\ StopsOrEnters
  <2>1. \A k \in 1..Len(phases) : k <= at => k \in full'
    BY <1>1, <1>3, Zenon DEF PipelineInv, BehindIsDone
  <2> QED BY <1>1, <1>2, <1>3, <2>1, EntersOrStops
<1>4. CASE /\ pos \in {"cancelling", "ended"}
           /\ pos' = IF pos = "ended" THEN "returned" ELSE "threw"
           /\ UNCHANGED <<at, branches, frames, fanoutVars>>
  <2>1. pos' \in {"returned", "threw"}
    BY <1>4
  <2>2. logged' \subseteq full
    BY <1>1 DEF PipelineInv, CheckpointsTruthful
  <2> QED BY <1>1, <1>2, <1>4, <2>1, <2>2, PosKeeps, Zenon DEF Open
<1> QED BY <1>3, <1>4 DEF Resumes

-----------------------------------------------------------------------------
(* The consumer, the lives and the fanouts.                                *)

LEMMA TakesKeeps ==
  ASSUME PipelineInv, Takes
  PROVE  PipelineInv'
<1>1. /\ pos = "running" /\ (suspended \/ queue # 0)
      /\ UNCHANGED <<phases, at, pos, stop, branches, skipped, logged, frames, life,
                     full, stoppedAt, fanoutVars, aborted>>
  <2>1. queue > 0 => queue # 0
    BY SMT
  <2> QED BY <2>1, Zenon DEF Takes
<1>2. outcome = "idle"
  BY <1>1, Zenon DEF PipelineInv, FanoutOwned
<1>3. PipelineTypeOK' /\ BranchesOfPhase' /\ CutHasReason' /\ StopKept'
  BY <1>1 DEF PipelineInv, PipelineTypeOK, BranchesOfPhase, CutHasReason, StopKept, Errored, Branches
<1>4. FanoutInv' /\ FanoutOwned'
  BY <1>1, <1>2, SameKeeps DEF PipelineInv, FanoutOwned, fanoutVars
<1>5. NothingLeft'
  BY <1>1 DEF NothingLeft, Open
<1>6. BehindIsDone' /\ CheckpointsTruthful' /\ ResumeCovers'
  BY <1>1 DEF PipelineInv, BehindIsDone, CheckpointsTruthful, ResumeCovers
<1> QED BY <1>3, <1>4, <1>5, <1>6 DEF PipelineInv

LEMMA ClosesKeeps ==
  ASSUME PipelineInv, Closes
  PROVE  PipelineInv'
<1>1. /\ pos' = "closed" /\ (pos = "running" => suspended) /\ pos # "closed"
      /\ UNCHANGED <<phases, at, stop, queue, skipped, logged, frames, life,
                     full, stoppedAt, fanoutVars, aborted>>
  BY Zenon DEF Closes
<1>2. outcome = "idle"
  BY <1>1, Zenon DEF PipelineInv, FanoutOwned, Open
<1>3. /\ Branches' = Branches
      /\ \A b \in Branches : branches'[b] \in BranchRecords /\ branches'[b].wrap = branches[b].wrap
  <2>1. CASE branches' = branches
    BY <2>1, Zenon DEF PipelineInv, PipelineTypeOK, Branches
  <2>2. CASE branches' = [branches EXCEPT ![1] = [branches[1] EXCEPT !.pc = "closed"]]
    <3>1. /\ Branches' = Branches
          /\ \A b \in Branches : branches'[b] = branches[b] \/
                                 branches'[b] = [branches[b] EXCEPT !.pc = "closed"]
      BY <2>2, Zenon DEF Branches
    <3>2. "closed" \in BranchPcs
      BY DEF BranchPcs
    <3>3. \A b \in Branches : branches[b] \in BranchRecords
      BY DEF PipelineInv, PipelineTypeOK
    <3>4. ASSUME NEW b \in Branches
          PROVE  branches'[b] \in BranchRecords /\ branches'[b].wrap = branches[b].wrap
      <4>1. /\ [branches[b] EXCEPT !.pc = "closed"] \in BranchRecords
            /\ [branches[b] EXCEPT !.pc = "closed"].wrap = branches[b].wrap
        BY <3>2, <3>3, PcSet
      <4> QED BY <3>1, <3>3, <4>1, Zenon
    <3> QED BY <3>1, <3>4
  <2>3. branches' = branches \/ branches' = [branches EXCEPT ![1].pc = "closed"]
    BY Zenon DEF Closes
  <2> QED BY <2>1, <2>2, <2>3
<1>4. PipelineTypeOK' /\ BranchesOfPhase' /\ StopKept'
  BY <1>1, <1>3, Zenon DEF PipelineInv, PipelineTypeOK, BranchesOfPhase, StopKept
<1>5. FanoutInv' /\ FanoutOwned'
  BY <1>1, <1>2, SameKeeps DEF PipelineInv, FanoutOwned, fanoutVars
<1>6. NothingLeft' /\ CutHasReason'
  BY <1>1, Zenon DEF NothingLeft, CutHasReason, Open
<1>7. BehindIsDone' /\ CheckpointsTruthful' /\ ResumeCovers'
  BY <1>1, Zenon DEF PipelineInv, BehindIsDone, CheckpointsTruthful, ResumeCovers
<1> QED BY <1>4, <1>5, <1>6, <1>7 DEF PipelineInv

\* Between the lives: nothing is left but what was recorded.
LEMMA CrashKeeps ==
  ASSUME PipelineInv, Crash
  PROVE  PipelineInv'
<1>1. /\ pos' = "dead" /\ branches' = <<>> /\ Forget
      /\ UNCHANGED <<phases, at, stop, queue, suspended, skipped, logged, frames, life, full,
                     stoppedAt, aborted>>
  BY DEF Crash
<1>2. Branches' = {}
  BY <1>1, SMT DEF Branches
<1>3. FanoutInv' /\ FanoutOwned'
  <2>1. aborted' \in BOOLEAN /\ outcome' = "idle"
    BY <1>1, Zenon DEF PipelineInv, FanoutInv, FanoutTypeOK, Forget
  <2>2. FanoutInv'
    BY <1>1, <2>1, NoOptionsTyped DEF Forget
  <2> QED BY <2>1, <2>2 DEF FanoutOwned
<1>4. PipelineTypeOK' /\ BranchesOfPhase' /\ StopKept' /\ CutHasReason'
  BY <1>1, <1>2, Zenon
  DEF PipelineInv, PipelineTypeOK, BranchesOfPhase, StopKept, CutHasReason
<1>5. NothingLeft'
  BY <1>1, <1>2, Zenon DEF NothingLeft, Quiet
<1>6. BehindIsDone' /\ CheckpointsTruthful' /\ ResumeCovers'
  BY <1>1, Zenon DEF PipelineInv, BehindIsDone, CheckpointsTruthful, ResumeCovers
<1> QED BY <1>3, <1>4, <1>5, <1>6 DEF PipelineInv

LEMMA StartKeeps ==
  ASSUME PipelineInv, Start
  PROVE  PipelineInv' /\ outcome = "idle"
<1>1. /\ pos \in Over /\ Quiet
      /\ pos' = "entering" /\ at' = 0 /\ skipped' = logged /\ stop' = FALSE /\ stoppedAt' = 0
      /\ branches' = <<>> /\ queue' = 0 /\ suspended' = FALSE /\ frames' = <<>>
      /\ aborted' \in BOOLEAN
      /\ UNCHANGED <<phases, logged, full, fanoutVars>>
  BY DEF Start
<1>2. outcome = "idle"
  BY <1>1, Zenon DEF PipelineInv, FanoutOwned, Quiet, Finished
<1>3. Branches' = {}
  BY <1>1, SMT DEF Branches
<1>4. FanoutInv' /\ FanoutOwned'
  <2>1. UNCHANGED <<options, cursor, workers, results, firstError, thrown, outcome>>
    BY <1>1 DEF fanoutVars
  <2>2. /\ Workers' = Workers /\ Items' = Items /\ WorkerRecords' = WorkerRecords
    BY <2>1 DEF Workers, Items, WorkerRecords
  <2>3. FanoutTypeOK'
    BY <1>1, <2>1, <2>2, Zenon DEF PipelineInv, FanoutInv, FanoutTypeOK
  <2> QED BY <1>2, <2>1, <2>3 DEF FanoutInv, ResolvesHonestly, FanoutOwned
<1>5. PipelineTypeOK'
  <2>1. at' \in 0..Len(phases) /\ frames' \in Seq({"done", "stopped", "cancelled"})
    <3>1. Len(phases) \in Nat
      BY SMT DEF PipelineInv, PipelineTypeOK
    <3> QED BY <1>1, <3>1, SMT
  <2> QED BY <1>1, <1>3, <2>1, Zenon DEF PipelineInv, PipelineTypeOK
<1>6. BranchesOfPhase' /\ NothingLeft' /\ CutHasReason' /\ StopKept'
  BY <1>1, <1>3, Zenon DEF BranchesOfPhase, NothingLeft, CutHasReason, StopKept, Quiet
<1>7. BehindIsDone' /\ CheckpointsTruthful' /\ ResumeCovers'
  <2>1. \A k \in 1..Len(phases) : ~(k < at')
    BY <1>1, SMT
  <2> QED BY <1>1, <2>1, Zenon DEF PipelineInv, BehindIsDone, CheckpointsTruthful, ResumeCovers
<1> QED BY <1>2, <1>4, <1>5, <1>6, <1>7 DEF PipelineInv

\* What the pipeline's variables say is kept by a step of the fanout alone.
LEMMA FanoutKeeps ==
  ASSUME PipelineInv, UNCHANGED pipeVars, FanoutInv', aborted => aborted',
         outcome' # "idle" => outcome # "idle"
  PROVE  PipelineInv'
<1>1. UNCHANGED <<phases, at, pos, stop, branches, queue, suspended, skipped, logged, frames,
                  life, full, stoppedAt>>
  BY DEF pipeVars
<1>2. PipelineTypeOK' /\ BranchesOfPhase' /\ StopKept' /\ NothingLeft' /\ FanoutOwned'
  BY <1>1 DEF PipelineInv, PipelineTypeOK, BranchesOfPhase, StopKept, NothingLeft, FanoutOwned,
              Quiet, Branches
<1>3. Errored' = Errored /\ Branches' = Branches
  BY <1>1 DEF Errored, Branches
<1>4. CutHasReason'
  BY <1>1, <1>3, Zenon DEF PipelineInv, CutHasReason
<1>5. BehindIsDone' /\ CheckpointsTruthful' /\ ResumeCovers'
  BY <1>1 DEF PipelineInv, BehindIsDone, CheckpointsTruthful, ResumeCovers
<1> QED BY <1>2, <1>4, <1>5 DEF PipelineInv

-----------------------------------------------------------------------------
(* The theorems.                                                           *)

LEMMA InitPipeline == PipelineInit => PipelineInv
<1> SUFFICES ASSUME PipelineInit PROVE PipelineInv
  OBVIOUS
<1>1. Branches = {}
  BY SMT DEF PipelineInit, Branches
<1>2. FanoutInv /\ outcome = "idle"
  BY InitFanout DEF PipelineInit, FanoutInit
<1>3. phases \in Pipelines /\ phases \in Seq(Phases) /\ Len(phases) \in Nat
  BY PipelineAssumption, SMT DEF PipelineInit
<1>4. PipelineTypeOK
  <2>1. <<>> \in Seq({"done", "stopped", "cancelled"}) /\ 0 \in 0..Len(phases)
    BY <1>3, SMT
  <2> QED BY <1>1, <1>3, <2>1, Zenon DEF PipelineInit, PipelineTypeOK
<1>5. /\ BranchesOfPhase /\ NothingLeft /\ FanoutOwned /\ CutHasReason /\ BehindIsDone
      /\ StopKept /\ CheckpointsTruthful /\ ResumeCovers
  BY <1>1, <1>2, Zenon
  DEF PipelineInit, BranchesOfPhase, NothingLeft, FanoutOwned, CutHasReason, BehindIsDone, StopKept,
      CheckpointsTruthful, ResumeCovers, Quiet, Open
<1> QED BY <1>2, <1>4, <1>5 DEF PipelineInv

\* A step of a fanout is one of a call that is pending.
LEMMA StepIsPending ==
  ASSUME FanoutInv, AnyFanoutStep
  PROVE  FanoutInv' /\ outcome = "pending" /\ aborted' = aborted
<1>1. FanoutInv' /\ outcome = "pending"
  BY StepCases, ActsKeeps, SettleKeeps DEF WorkerActs
<1>2. aborted' = aborted
  BY StepCases DEF WorkerActs, SettleFanout, SettleFanoutOf
<1> QED BY <1>1, <1>2

LEMMA PipelineInvKept == PipelineInv /\ [PipelineNext]_vars => PipelineInv'
<1> SUFFICES ASSUME PipelineInv, [PipelineNext]_vars PROVE PipelineInv'
  OBVIOUS
<1>1. PipelineTypeOK /\ FanoutInv
  BY DEF PipelineInv
<1>2. CASE PipelineStep
  <2>1. CASE Begins \/ PhaseEnds \/ Records \/ Resumes \/ Takes
    BY <2>1, BeginKeeps, PhaseEndKeeps, RecordsKeeps, ResumesKeeps, TakesKeeps
  <2>2. CASE \E b \in Branches : BranchStep(b)
    BY <1>1, <2>2, BranchMoves, MoveKeeps
  <2>3. CASE AnyFanoutStep /\ UNCHANGED pipeVars
    <3>1. FanoutInv' /\ outcome = "pending" /\ aborted' = aborted
      BY <1>1, <2>3, StepIsPending
    <3> QED BY <2>3, <3>1, FanoutKeeps
  <2> QED BY <1>2, <2>1, <2>2, <2>3 DEF PipelineStep
<1>3. CASE Start
  BY <1>3, StartKeeps
<1>4. CASE Closes
  BY <1>4, ClosesKeeps
<1>5. CASE Crash
  BY <1>5, CrashKeeps
<1>6. CASE Abort /\ UNCHANGED pipeVars
  <2>1. FanoutInv' /\ aborted' /\ outcome' = outcome
    BY <1>1, <1>6, AbortKeeps DEF Abort, fanoutVars
  <2> QED BY <1>6, <2>1, FanoutKeeps
<1>7. CASE UNCHANGED vars
  <2>1. UNCHANGED pipeVars /\ UNCHANGED <<fanoutVars, aborted>>
    BY <1>7 DEF vars
  <2>2. FanoutInv' /\ outcome' = outcome /\ (aborted => aborted')
    BY <1>1, <2>1, SameKeeps DEF fanoutVars
  <2> QED BY <2>1, <2>2, FanoutKeeps
<1> QED BY <1>2, <1>3, <1>4, <1>5, <1>6, <1>7 DEF PipelineNext

LEMMA PipelineInvHolds == PipelineSpec => []PipelineInv
<1> QED BY InitPipeline, PipelineInvKept, PTL DEF PipelineSpec

\* In every reachable state a phase that is recorded as complete did all of
\* its work: whenever the abort came and whatever branches it reached.
THEOREM CheckpointsTruthfulHolds == PipelineSpec => []CheckpointsTruthful
<1>1. PipelineInv => CheckpointsTruthful
  BY DEF PipelineInv
<1> QED BY <1>1, PipelineInvHolds, PTL

\* A pipeline that is done has done the work of every phase, for any number
\* of lives, each ended or died anywhere.
THEOREM ResumeCoversHolds == PipelineSpec => []ResumeCovers
<1>1. PipelineInv => ResumeCovers
  BY DEF PipelineInv
<1> QED BY <1>1, PipelineInvHolds, PTL

\* No phase begins behind one that set ctx.stop, provided that no withRetry,
\* which clears ctx.stop, runs beside a phase that may set it.
THEOREM StopHaltsHolds ==
  ASSUME RetryAlone
  PROVE  PipelineSpec => []StopHalts
<1>1. PipelineInv => StopHalts
  BY Zenon DEF PipelineInv, StopKept, StopHalts
<1> QED BY <1>1, PipelineInvHolds, PTL

\* When runPipeline has ended, no branch and no fanout of it goes on.
THEOREM QuietAtEndHolds == PipelineSpec => []QuietAtEnd
<1>1. PipelineInv => QuietAtEnd
  BY Zenon DEF PipelineInv, NothingLeft, FanoutOwned, QuietAtEnd, Open
<1> QED BY <1>1, PipelineInvHolds, PTL

\* What a step of the pipeline is to the fanout.
LEMMA FanoutPart ==
  ASSUME PipelineInv, PipelineNext
  PROVE  \/ \E o \in FanoutOptions : CallAny(o)
         \/ AnyFanoutStep \/ (Forget /\ UNCHANGED aborted) \/ UNCHANGED fanoutVars
<1> DEFINE Goal == \/ \E o \in FanoutOptions : CallAny(o)
                   \/ UNCHANGED fanoutVars
<1>1. ASSUME Enter PROVE Goal
  BY <1>1, Zenon DEF Enter, Terminates
<1>2. ASSUME StopsOrEnters PROVE Goal
  BY <1>1, <1>2, Zenon DEF StopsOrEnters, Terminates
<1>3. ASSUME Begins PROVE Goal
  BY <1>1, <1>3 DEF Begins
<1>4. ASSUME Returns PROVE Goal
  BY <1>2, <1>4, Zenon DEF Returns, Terminates
<1>5. ASSUME PhaseEnds PROVE Goal
  BY <1>4, <1>5, Zenon DEF PhaseEnds
<1>6. ASSUME Resumes PROVE Goal
  BY <1>2, <1>6, Zenon DEF Resumes
<1>7. ASSUME Records \/ Takes \/ Closes \/ Start PROVE Goal
  BY <1>7, Zenon DEF Records, Takes, Closes, Start
<1>8. ASSUME NEW b \in Branches, BranchStep(b)
      PROVE  UNCHANGED fanoutVars \/ (Forget /\ UNCHANGED aborted)
  BY <1>8, Zenon DEF BranchStep, BranchRest, FanoutEnds
<1>9. ASSUME Crash PROVE Forget /\ UNCHANGED aborted
  BY <1>9, Zenon DEF Crash
<1>10. ASSUME Abort PROVE Goal
  BY <1>10 DEF Abort
<1> QED BY <1>3, <1>5, <1>6, <1>7, <1>8, <1>9, <1>10, Zenon DEF PipelineNext, PipelineStep

LEMMA PipelineBatch == PipelineInv /\ [PipelineNext]_vars => [Call_!Next]_(Call_!vars)
<1> SUFFICES ASSUME PipelineInv, [PipelineNext]_vars
             PROVE  [Call_!Next]_(Call_!vars)
  OBVIOUS
<1>1. FanoutInv
  BY DEF PipelineInv
<1>2. ASSUME AnyFanoutNext PROVE [Call_!Next]_(Call_!vars)
  BY <1>1, <1>2, NextBatch
<1>3. ASSUME UNCHANGED fanoutVars PROVE Call_!Halt
  BY <1>3 DEF fanoutVars, busy, Workers, Call_!Halt
<1>4. CASE PipelineNext
  BY <1>2, <1>3, <1>4, FanoutPart DEF AnyFanoutNext, Call_!Next
<1>5. CASE UNCHANGED vars
  BY <1>3, <1>5 DEF vars, Call_!Next
<1> QED BY <1>4, <1>5

\* The fanouts of a pipeline keep the promise of a batch in every life of it,
\* whatever ends the phase, the life or the process they run in.
THEOREM PipelineImplementsBatch == PipelineSpec => ImplementsBatch
<1>1. PipelineInit => Call_!Idle
  BY InitFanout DEF PipelineInit
<1> QED BY <1>1, PipelineInvHolds, PipelineBatch, PTL
        DEF PipelineSpec, ImplementsBatch, Call_!Spec
=============================================================================
