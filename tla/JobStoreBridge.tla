---------------------------- MODULE JobStoreBridge ---------------------------
(***************************************************************************)
(* createAgentEventPersistenceBridge (agents/job-store-bridge.ts): events  *)
(* of a bus are appended to the job store one after the other; those that  *)
(* fail and those that find the queue full are reported to the failure     *)
(* observers in batches; flush() and close() are barriers.                 *)
(*                                                                         *)
(* Batches of one kind are delivered in the order they were made, so they  *)
(* are numbered: at most one is being observed (active), one is sealed     *)
(* behind it, and one more is pending and grows.                           *)
(***************************************************************************)
EXTENDS Integers, Sequences, SequencesExt

CONSTANTS
  Capacity,     \* options.capacity
  Observers,    \* the failure observers
  MaxEvents,    \* bound: events of the bus
  MaxBarriers   \* bound: calls of flush() and close()

ASSUME BridgeAssumption ==
  Capacity \in Nat \ {0} /\ MaxEvents \in Nat /\ MaxBarriers \in Nat

FailureKinds == {"append", "overflow"}

VARIABLES
  bridge,      \* the queue and the failures
  observers,   \* per kind and observer, its invocation for the active batch
  delivered,   \* per kind, the occurrences observers were told of (history)
  barriers     \* the calls of flush() and close()

bridgeVars == <<bridge, observers, delivered, barriers>>

NoFailures == [counts |-> <<>>, done |-> 0, active |-> FALSE, sealed |-> FALSE]

\* Events accepted, appended or failed, and not yet counted down; fates has,
\* for each that settled, the batch that reports its failure, or 0.
NoBridge == [closed |-> FALSE, closing |-> FALSE, accepted |-> 0, outstanding |-> 0,
             fates |-> <<>>, failures |-> [k \in FailureKinds |-> NoFailures]]

Settled == Len(bridge.fates)
Released == bridge.accepted - bridge.outstanding
Failures(k) == bridge.failures[k]

\* Events that found the queue full.
Refusals == FoldLeft(LAMBDA a, b : a + b, 0, Failures("overflow").counts)

Dispatched(f) == f.done + IF f.active THEN 1 ELSE 0
Pending(f) == Len(f.counts) > Dispatched(f) + IF f.sealed THEN 1 ELSE 0

-----------------------------------------------------------------------------
(* Failures.                                                               *)

\* report()
Report(f) ==
  IF Pending(f) THEN [f EXCEPT !.counts[Len(f.counts)] = @ + 1]
                ELSE [f EXCEPT !.counts = Append(@, 1)]

\* Mutant: the sealed batch is forgotten.
DeliverUnsealed(f) == [f EXCEPT !.active = Pending(f)]

\* The choice deliverPending() makes, the sealed batch first.
DeliverPending(f) ==
  IF f.sealed THEN [f EXCEPT !.active = TRUE, !.sealed = FALSE]
  ELSE [f EXCEPT !.active = Pending(f)]

Seal(f) == [f EXCEPT !.sealed = f.sealed \/ Pending(f)]

\* deliver(): every observer is called, with the occurrences known now.
Deliver(k, f) ==
  LET next == DeliverPending(f) IN
  /\ bridge' = [bridge EXCEPT !.failures[k] = next]
  /\ observers' = [observers EXCEPT
       ![k] = [o \in Observers |-> IF next.active THEN "running" ELSE "idle"]]
  /\ delivered' = [delivered EXCEPT
       ![k] = IF next.active THEN @ + next.counts[next.done + 1] ELSE @]

\* The microtask report() queues.
DeliverFirst(k) ==
  /\ ~Failures(k).active /\ Failures(k).done < Len(Failures(k).counts)
  /\ Deliver(k, Failures(k))
  /\ UNCHANGED barriers

\* Every observer of the batch is done with it: the next is delivered.
BatchSettles(k) ==
  /\ Failures(k).active /\ \A o \in Observers : observers[k][o] = "settled"
  /\ Deliver(k, [Failures(k) EXCEPT !.done = @ + 1, !.active = FALSE])
  /\ UNCHANGED barriers

-----------------------------------------------------------------------------
(* The queue.                                                              *)

\* The subscription: an event of the bus is queued, or reported as one too
\* many.
BusEmits ==
  /\ ~bridge.closed /\ bridge.accepted + Refusals < MaxEvents
  /\ bridge' = IF bridge.outstanding >= Capacity
               THEN [bridge EXCEPT !.failures["overflow"] = Report(@)]
               ELSE [bridge EXCEPT !.accepted = @ + 1, !.outstanding = @ + 1]
  /\ UNCHANGED <<observers, delivered, barriers>>

\* store.appendEvent() of the event at the head settles.
Appends ==
  /\ Settled = Released /\ Released < bridge.accepted
  /\ \/ bridge' = [bridge EXCEPT !.fates = Append(@, 0)]
     \/ LET f == Report(Failures("append")) IN
        bridge' = [bridge EXCEPT !.failures["append"] = f,
                                 !.fates = Append(@, Len(f.counts))]
  /\ UNCHANGED <<observers, delivered, barriers>>

\* The finally clause, behind which the next append begins.
Releases ==
  /\ Settled > Released
  /\ bridge' = [bridge EXCEPT !.outstanding = @ - 1]
  /\ UNCHANGED <<observers, delivered, barriers>>

-----------------------------------------------------------------------------
(* Barriers.                                                               *)

Nobody == [kind |-> "none", observer |-> "none", batch |-> 0]

\* Mutant: what has settled leaves nothing to wait for.
FailuresForgotten(b) == TRUE

\* The batches that report the failures of events accepted before.
FailuresObserved(b) ==
  \A i \in (b.settled + 1)..b.accepted :
    \/ bridge.fates[i] \in {0} \cup (IF b.owner.kind = "append" THEN {b.owner.batch} ELSE {})
    \/ bridge.fates[i] <= Failures("append").done

\* The batches there were, but for the one whose observer called: of that
\* one the other observers.
BatchesObserved(b, k) ==
  LET done == Failures(k).done IN
  \/ done >= b.batches[k]
  \/ /\ b.owner.kind = k /\ b.owner.batch = b.batches[k]
     /\ \A o \in Observers \ {b.owner.observer} : observers[k][o] = "settled"

\* The promise drainAtInvocation() returned is resolved.
Resolved(b) ==
  /\ Settled >= b.accepted
  /\ \A k \in FailureKinds : BatchesObserved(b, k)
  /\ FailuresObserved(b)

\* The barrier is built, with the pending batches sealed.
Barrier(owner, closes, canonical) ==
  /\ Len(barriers) < MaxBarriers
  /\ barriers' = Append(barriers,
       [owner |-> owner, settled |-> Settled, accepted |-> bridge.accepted,
        batches |-> [k \in FailureKinds |-> Len(Failures(k).counts)],
        refused |-> Refusals])
  /\ bridge' = [bridge EXCEPT
       !.failures = [k \in FailureKinds |-> Seal(Failures(k))],
       !.closed = @ \/ closes, !.closing = @ \/ canonical]
  /\ UNCHANGED delivered

Flush == Barrier(Nobody, FALSE, FALSE) /\ UNCHANGED observers

\* A second close() returns the promise of the first.
Close == ~bridge.closing /\ Barrier(Nobody, TRUE, TRUE) /\ UNCHANGED observers

-----------------------------------------------------------------------------
(* Observers.                                                              *)

\* The observer returns, throws or rejects.
ObserverReturns(k, o) ==
  /\ observers[k][o] = "running"
  /\ observers' = [observers EXCEPT ![k][o] = "settled"]
  /\ UNCHANGED <<bridge, delivered, barriers>>

\* It awaits a barrier of its own.
ObserverDrains(k, o) ==
  /\ observers[k][o] = "running"
  /\ \E closes \in BOOLEAN :
       Barrier([kind |-> k, observer |-> o, batch |-> Failures(k).done + 1], closes, FALSE)
  /\ observers' = [observers EXCEPT ![k][o] = "awaiting"]

Own(b, k, o) == b.owner = [kind |-> k, observer |-> o, batch |-> Failures(k).done + 1]

ObserverResumes(k, o) ==
  /\ observers[k][o] = "awaiting"
  /\ \A i \in DOMAIN barriers : Own(barriers[i], k, o) => Resolved(barriers[i])
  /\ observers' = [observers EXCEPT ![k][o] = "settled"]
  /\ UNCHANGED <<bridge, delivered, barriers>>

BridgeInit ==
  /\ bridge = NoBridge
  /\ observers = [k \in FailureKinds |-> [o \in Observers |-> "idle"]]
  /\ delivered = [k \in FailureKinds |-> 0]
  /\ barriers = <<>>

\* What goes on by itself: appends and observers settle.
BridgeRuns ==
  \/ Appends \/ Releases
  \/ \E k \in FailureKinds :
       \/ DeliverFirst(k) \/ BatchSettles(k)
       \/ \E o \in Observers : ObserverReturns(k, o) \/ ObserverResumes(k, o)

BridgeStep == \/ BusEmits \/ BridgeRuns \/ Flush \/ Close
              \/ \E k \in FailureKinds, o \in Observers : ObserverDrains(k, o)

BridgeSpec == BridgeInit /\ [][BridgeStep]_bridgeVars /\ WF_bridgeVars(BridgeRuns)

-----------------------------------------------------------------------------
(* Properties.                                                             *)

External(i) == i \in DOMAIN barriers /\ barriers[i].owner = Nobody

\* When a flush() or close() has resolved, every event accepted before it is
\* appended or its failure was observed to the end, and every event refused
\* before it was reported.
BarrierCovers ==
  \A i \in DOMAIN barriers :
    External(i) /\ Resolved(barriers[i]) =>
      /\ \A e \in 1..barriers[i].accepted : bridge.fates[e] <= Failures("append").done
      /\ delivered["overflow"] >= barriers[i].refused

\* A barrier of a caller resolves, whatever fails.  Not so while an observer
\* awaits a barrier of its own: that waits for every event accepted before,
\* and if one of these fails, for a batch behind the observer's.
BarriersSettle ==
  \A i \in 1..MaxBarriers :
    External(i) ~> \/ i \in DOMAIN barriers /\ Resolved(barriers[i])
                   \/ \E k \in FailureKinds, o \in Observers : observers[k][o] = "awaiting"
==============================================================================
