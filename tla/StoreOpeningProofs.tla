-------------------------- MODULE StoreOpeningProofs -------------------------
(***************************************************************************)
(* Proofs about StoreOpening: any number of openers of any builds.         *)
(*                                                                         *)
(* The argument: at most one opener is inside a transaction, and what it   *)
(* read when it got the lock is still the version of the database.  What   *)
(* an opener observed earlier is never ahead of that version, so when it   *)
(* has caught up with its build and the version is not beyond its build,   *)
(* the two are equal.                                                      *)
(***************************************************************************)
EXTENDS StoreOpening, TLAPS

Opener == [pc: {"closed", "enabling", "reading", "locking", "migrating", "verifying",
                "ready", "failed"},
           observed: Nat, locked: Nat,
           why: {"none", "newer", "busy", "collision", "duplicate"}]

OpeningTypeOK ==
  /\ version \in Nat /\ edits \in Nat
  /\ slot \in {"none", "expected", "other"}
  /\ openers \in [Openers -> Opener]

OneTransaction == \A p, q \in Openers : Transacting(p) /\ Transacting(q) => p = q

LockedIsCurrent ==
  \A p \in Openers : Transacting(p) => openers[p].locked = version /\ Supported(p)

NotAhead ==
  \A p \in Openers :
    /\ In(p, "locking") \/ Transacting(p) => openers[p].observed <= version
    /\ In(p, "migrating") => Behind(p)
    /\ In(p, "verifying") => ~Behind(p)

SlotOfVersion ==
  edits = 0 => slot = IF version >= ExclusivityVersion THEN "expected" ELSE "none"

OpeningInv == /\ OpeningTypeOK /\ OneTransaction /\ LockedIsCurrent
              /\ NotAhead /\ SlotOfVersion /\ ExplainedFailures

-----------------------------------------------------------------------------

\* Nothing is open and nothing migrated.
LEMMA OpeningInitInv == OpeningInit => OpeningInv
BY OpeningAssumption
   DEF OpeningInit, OpeningInv, OpeningTypeOK, Opener, OneTransaction, LockedIsCurrent,
       NotAhead, SlotOfVersion, ExplainedFailures, Transacting, In, Closed

\* A step that only moves one opener, to a place outside of a transaction
\* where nothing is asked of it.
LEMMA MovesOutside ==
  ASSUME OpeningInv, NEW p \in Openers, NEW opener \in Opener,
         Moves(p, opener), UNCHANGED <<version, slot, edits>>,
         opener.pc \in {"closed", "enabling", "reading", "locking", "ready", "failed"},
         opener.pc = "locking" => opener.observed <= version,
         opener.pc = "failed" => /\ opener.why \in {"newer", "collision", "busy"}
                                 /\ opener.why = "newer" => version > Latest[p]
                                 /\ opener.why = "collision" => edits > 0
  PROVE  OpeningInv'
<1> USE DEF OpeningInv, Moves, In, Transacting
<1>1. /\ openers' \in [Openers -> Opener]
      /\ openers'[p] = opener
      /\ \A q \in Openers \ {p} : openers'[q] = openers[q]
  BY DEF OpeningTypeOK
<1>2. OpeningTypeOK'
  BY <1>1 DEF OpeningTypeOK
<1>3. OneTransaction'
  BY <1>1 DEF OneTransaction
<1>4. LockedIsCurrent'
  BY <1>1 DEF LockedIsCurrent, Supported
<1>5. NotAhead'
  BY <1>1 DEF NotAhead, Behind
<1>6. SlotOfVersion'
  BY DEF SlotOfVersion
<1>7. ExplainedFailures'
  BY <1>1 DEF ExplainedFailures
<1> QED
  BY <1>2, <1>3, <1>4, <1>5, <1>6, <1>7

\* A change by hand finds nobody in a transaction.
LEMMA EditKeepsInv == OpeningInv /\ EditedByHand => OpeningInv'
<1> SUFFICES ASSUME OpeningInv, EditedByHand PROVE OpeningInv'
  OBVIOUS
<1> USE DEF OpeningInv, EditedByHand, In, Transacting
<1>1. OpeningTypeOK' /\ SlotOfVersion'
  BY DEF OpeningTypeOK, SlotOfVersion
<1>2. OneTransaction' /\ LockedIsCurrent' /\ NotAhead'
  BY DEF OneTransaction, LockedIsCurrent, NotAhead, Supported, Behind
<1>3. ExplainedFailures'
  BY DEF ExplainedFailures, OpeningTypeOK
<1> QED
  BY <1>1, <1>2, <1>3

\* The lock is free when a transaction begins, and the version is read then.
LEMMA BeginsKeepsInv ==
  ASSUME OpeningInv, NEW p \in Openers, Begins(p), Supported(p)
  PROVE  OpeningInv'
<1> DEFINE opener == [openers[p] EXCEPT !.pc = IF Behind(p) THEN "migrating" ELSE "verifying",
                                        !.locked = version]
<1> USE DEF OpeningInv, In, Transacting
<1>1. /\ Moves(p, opener) /\ UNCHANGED <<version, slot, edits>>
      /\ In(p, "locking") /\ ~Locked
  BY DEF Begins, GoesOn
<1>2. opener \in Opener
  BY DEF OpeningTypeOK, Opener
<1>3. /\ openers' \in [Openers -> Opener]
      /\ openers'[p] = opener
      /\ \A q \in Openers \ {p} : openers'[q] = openers[q]
  BY <1>1, <1>2 DEF OpeningTypeOK, Moves
<1>4. OpeningTypeOK' /\ SlotOfVersion'
  BY <1>1, <1>3 DEF OpeningTypeOK, SlotOfVersion
<1>5. /\ opener.pc = IF Behind(p) THEN "migrating" ELSE "verifying"
      /\ opener.locked = version /\ opener.observed = openers[p].observed
  BY DEF OpeningTypeOK, Opener
<1> HIDE DEF opener
<1>6. OneTransaction'
  BY <1>1, <1>3 DEF OneTransaction, Locked
<1>7. LockedIsCurrent'
  BY <1>1, <1>3, <1>5 DEF LockedIsCurrent, Locked, Supported
<1>8. NotAhead'
  BY <1>1, <1>3, <1>5 DEF NotAhead, Behind, Locked
<1>9. ExplainedFailures'
  BY <1>1, <1>3, <1>5 DEF ExplainedFailures
<1> QED
  BY <1>4, <1>6, <1>7, <1>8, <1>9

\* An opener that is done with a migration.
LEMMA AppliedOpener ==
  ASSUME NEW p \in Openers, openers[p] \in Opener
  PROVE  Applied(p) \in Opener /\ Applied(p).pc = "locking" /\ Applied(p).observed = Target(p)
<1>1. Target(p) \in Nat
  BY DEF Target, Opener
<1>2. \A n \in Nat : [openers[p] EXCEPT !.pc = "locking", !.observed = n] \in Opener
  BY DEF Opener
<1>3. \A n \in Nat : LET o == [openers[p] EXCEPT !.pc = "locking", !.observed = n] IN
                    o.pc = "locking" /\ o.observed = n
  BY DEF Opener
<1> QED
  BY <1>1, <1>2, <1>3 DEF Applied

\* A migration is applied when the database is one version behind it, and by
\* the only opener in a transaction.
LEMMA ApplyKeepsInv ==
  ASSUME OpeningInv, NEW p \in Openers, In(p, "migrating"), ~Skips(p),
         version' = Target(p),
         slot' = IF Target(p) = ExclusivityVersion THEN "expected" ELSE slot,
         Moves(p, Applied(p)), UNCHANGED edits
  PROVE  OpeningInv'
<1> USE DEF OpeningInv, In, Transacting, Target
<1>1. Applied(p) \in Opener /\ Applied(p).pc = "locking" /\ Applied(p).observed = Target(p)
  BY AppliedOpener DEF OpeningTypeOK
<1>2. /\ openers' \in [Openers -> Opener]
      /\ openers'[p] = Applied(p)
      /\ \A q \in Openers \ {p} : openers'[q] = openers[q] /\ ~Transacting(q)
  BY <1>1 DEF Moves, OpeningTypeOK, OneTransaction
<1>3. version \in Nat /\ version' = version + 1
  <2>1. openers[p] \in Opener /\ openers[p].observed \in Nat /\ version \in Nat
    BY DEF OpeningTypeOK, Opener
  <2>2. openers[p].locked = version /\ openers[p].observed <= version
    BY DEF LockedIsCurrent, NotAhead
  <2> QED
    BY <2>1, <2>2 DEF Skips
<1>4. OpeningTypeOK'
  BY <1>2, <1>3 DEF OpeningTypeOK
<1>5. OneTransaction' /\ LockedIsCurrent'
  BY <1>1, <1>2 DEF OneTransaction, LockedIsCurrent
<1>6. NotAhead'
  <2>1. openers'[p].observed <= version' /\ openers'[p].pc = "locking"
    BY <1>1, <1>2, <1>3
  <2>2. ASSUME NEW q \in Openers \ {p}, openers[q].pc = "locking"
        PROVE  openers'[q].observed <= version'
    <3>1. openers[q] \in Opener /\ openers[q].observed <= version
      BY <2>2 DEF NotAhead, OpeningTypeOK
    <3> QED
      BY <1>2, <1>3, <3>1 DEF Opener
  <2> QED
    BY <1>2, <2>1, <2>2 DEF NotAhead, Behind
<1>7. SlotOfVersion'
  BY <1>3, OpeningAssumption DEF SlotOfVersion
<1>8. ExplainedFailures'
  BY <1>1, <1>2, <1>3, OpeningAssumption DEF ExplainedFailures
<1> QED
  BY <1>4, <1>5, <1>6, <1>7, <1>8

\* The other outcomes of a migration.
LEMMA MigratesKeepsInv ==
  ASSUME OpeningInv, NEW p \in Openers, Migrates(p)
  PROVE  OpeningInv'
<1> USE DEF OpeningInv, In, Transacting
<1>1. /\ openers[p] \in Opener /\ version \in Nat
      /\ openers[p].locked = version /\ openers[p].observed <= version
      /\ openers[p].pc = "migrating"
  BY DEF Migrates, OpeningTypeOK, LockedIsCurrent, NotAhead
<1>2. CASE Skips(p)
  <2>1. Applied(p) \in Opener /\ Applied(p).pc = "locking" /\ Applied(p).observed <= version
    BY <1>1, <1>2, AppliedOpener DEF Skips
  <2> QED
    BY <1>2, <2>1, MovesOutside DEF Migrates
<1>3. CASE ~Skips(p) /\ Target(p) <= version
  BY <1>1, <1>3 DEF Skips
<1>4. CASE ~Skips(p) /\ ~(Target(p) <= version) /\ Target(p) = ExclusivityVersion /\ slot # "none"
  <2> DEFINE opener == [openers[p] EXCEPT !.pc = "failed", !.why = "collision"]
  <2>1. Moves(p, opener) /\ UNCHANGED <<version, slot, edits>>
    BY <1>4 DEF Migrates, FailsToOpen
  <2>2. opener \in Opener /\ opener.pc = "failed" /\ opener.why = "collision"
    BY <1>1 DEF Opener
  <2>3. edits > 0
    BY <1>1, <1>4, OpeningAssumption DEF SlotOfVersion, OpeningTypeOK, Target, Opener
  <2> HIDE DEF opener
  <2> QED
    BY <2>1, <2>2, <2>3, MovesOutside
<1>5. CASE /\ ~Skips(p) /\ ~(Target(p) <= version)
           /\ ~(Target(p) = ExclusivityVersion /\ slot # "none")
  BY <1>5, ApplyKeepsInv DEF Migrates
<1> QED
  BY <1>2, <1>3, <1>4, <1>5

\* The lock is free: an opener that is refused, fails or goes away.
LEMMA FailureKeepsInv ==
  ASSUME OpeningInv, NEW p \in Openers, NEW why \in {"newer", "busy", "collision"},
         FailsToOpen(p, why),
         why = "newer" => version > Latest[p],
         why = "collision" => edits > 0
  PROVE  OpeningInv'
<1> DEFINE opener == [openers[p] EXCEPT !.pc = "failed", !.why = why]
<1>1. opener \in Opener /\ opener.pc = "failed" /\ opener.why = why
  BY DEF OpeningInv, OpeningTypeOK, Opener
<1>2. Moves(p, opener) /\ UNCHANGED <<version, slot, edits>>
  BY DEF FailsToOpen
<1> HIDE DEF opener
<1> QED
  BY <1>1, <1>2, MovesOutside

\* Every step of one opener.
LEMMA OpenerKeepsInv ==
  ASSUME OpeningInv, NEW p \in Openers,
         Opens(p) \/ EnablesWal(p) \/ Observes(p) \/ Begins(p) \/ Busy(p)
           \/ Migrates(p) \/ Verifies(p) \/ Closes(p)
  PROVE  OpeningInv'
<1>1. /\ openers[p] \in Opener /\ version \in Nat /\ edits \in Nat
      /\ Latest[p] \in Nat
  BY OpeningAssumption DEF OpeningInv, OpeningTypeOK
<1>2. ASSUME FailsToOpen(p, "newer"), ~Supported(p) PROVE OpeningInv'
  BY <1>1, <1>2, FailureKeepsInv DEF Supported
<1>3. CASE Opens(p)
  <2> DEFINE opener == [openers[p] EXCEPT !.pc = "enabling"]
  <2>1. opener \in Opener /\ opener.pc = "enabling"
    BY <1>1 DEF Opener
  <2>2. CASE Supported(p)
    <3>1. Moves(p, opener) /\ UNCHANGED <<version, slot, edits>>
      BY <1>3, <2>2 DEF Opens, GoesOn
    <3> HIDE DEF opener
    <3> QED
      BY <2>1, <3>1, MovesOutside
  <2> QED
    BY <1>2, <1>3, <2>2 DEF Opens, GoesOn
<1>4. CASE EnablesWal(p)
  <2> DEFINE opener == [openers[p] EXCEPT !.pc = "reading"]
  <2>1. opener \in Opener /\ opener.pc = "reading"
    BY <1>1 DEF Opener
  <2>2. Moves(p, opener) /\ UNCHANGED <<version, slot, edits>>
    BY <1>4 DEF EnablesWal
  <2> HIDE DEF opener
  <2> QED
    BY <2>1, <2>2, MovesOutside
<1>5. CASE Observes(p)
  <2> DEFINE opener == [openers[p] EXCEPT !.pc = "locking", !.observed = version]
  <2>1. opener \in Opener /\ opener.pc = "locking" /\ opener.observed = version
    BY <1>1 DEF Opener
  <2>2. CASE Supported(p)
    <3>1. Moves(p, opener) /\ UNCHANGED <<version, slot, edits>>
      BY <1>5, <2>2 DEF Observes, GoesOn
    <3> HIDE DEF opener
    <3> QED
      BY <1>1, <2>1, <3>1, MovesOutside
  <2> QED
    BY <1>2, <1>5, <2>2 DEF Observes, GoesOn
<1>6. CASE Begins(p)
  BY <1>2, <1>6, BeginsKeepsInv DEF Begins, GoesOn
<1>7. CASE Busy(p)
  BY <1>7, FailureKeepsInv DEF Busy
<1>8. CASE Migrates(p)
  BY <1>8, MigratesKeepsInv
<1>9. CASE Verifies(p)
  <2> DEFINE opener == [openers[p] EXCEPT !.pc = "ready"]
  <2>1. opener \in Opener /\ opener.pc = "ready"
    BY <1>1 DEF Opener
  <2>2. CASE Verified(p)
    <3>1. Moves(p, opener) /\ UNCHANGED <<version, slot, edits>>
      BY <1>9, <2>2 DEF Verifies
    <3> HIDE DEF opener
    <3> QED
      BY <2>1, <3>1, MovesOutside
  <2>3. CASE ~Verified(p)
    <3>1. FailsToOpen(p, "collision")
      BY <1>9, <2>3 DEF Verifies
    <3>2. openers[p].locked = version
      BY <1>9 DEF Verifies, In, Transacting, OpeningInv, LockedIsCurrent
    <3>3. edits > 0
      BY <1>1, <2>3, <3>2 DEF Verified, OpeningInv, SlotOfVersion
    <3> QED
      BY <3>1, <3>3, FailureKeepsInv
  <2> QED
    BY <2>2, <2>3
<1>10. CASE Closes(p)
  <2>1. Closed \in Opener /\ Closed.pc = "closed"
    BY DEF Closed, Opener
  <2> QED
    BY <1>10, <2>1, MovesOutside DEF Closes
<1> QED
  BY <1>3, <1>4, <1>5, <1>6, <1>7, <1>8, <1>9, <1>10

LEMMA OpeningStepInv == OpeningInv /\ [OpeningNext]_openingVars => OpeningInv'
<1> SUFFICES ASSUME OpeningInv, [OpeningNext]_openingVars PROVE OpeningInv'
  OBVIOUS
<1>1. CASE EditedByHand
  BY <1>1, EditKeepsInv
<1>2. ASSUME NEW p \in Openers,
             Opens(p) \/ EnablesWal(p) \/ Observes(p) \/ Begins(p) \/ Busy(p)
               \/ Migrates(p) \/ Verifies(p) \/ Closes(p)
      PROVE  OpeningInv'
  BY <1>2, OpenerKeepsInv
<1>3. CASE UNCHANGED openingVars
  BY <1>3 DEF openingVars, OpeningInv, OpeningTypeOK, OneTransaction, LockedIsCurrent,
              NotAhead, SlotOfVersion, ExplainedFailures, Transacting, In, Behind, Supported
<1> QED
  BY <1>1, <1>2, <1>3 DEF OpeningNext

\* The invariant holds throughout.
THEOREM OpeningInvariant == OpeningSpec => []OpeningInv
BY OpeningInitInv, OpeningStepInv, PTL DEF OpeningSpec

\* No opener, of any number and of any builds, is ever refused because of
\* what the others do at the same time, or of where one of them died
\* (runMigrations() of sqlite-job-store.ts).
THEOREM OpeningExplained == OpeningSpec => []ExplainedFailures
<1>1. OpeningInv => ExplainedFailures
  BY DEF OpeningInv
<1> QED
  BY <1>1, OpeningInvariant, PTL

\* A store opens on exactly the schema of its build, with the index that
\* keeps exclusive jobs apart.
THEOREM OpeningReady == OpeningSpec => ReadyOnCurrent
<1> DEFINE ReadyWell ==
      \A p \in Openers :
        ~In(p, "ready") /\ openers'[p].pc = "ready" => version = Latest[p] /\ slot = "expected"
<1>1. OpeningInv /\ [OpeningNext]_openingVars => [ReadyWell]_openingVars
  <2> SUFFICES ASSUME OpeningInv, OpeningNext, NEW p \in Openers,
                      ~In(p, "ready"), openers'[p].pc = "ready"
               PROVE  version = Latest[p] /\ slot = "expected"
    BY DEF openingVars
  <2>1. \A q \in Openers : openers[q] \in Opener
    BY DEF OpeningInv, OpeningTypeOK
  <2>2. PICK q \in Openers :
          Opens(q) \/ EnablesWal(q) \/ Observes(q) \/ Begins(q) \/ Busy(q)
            \/ Migrates(q) \/ Verifies(q) \/ Closes(q)
    BY DEF OpeningNext, EditedByHand, In
  <2>3. Verifies(p) /\ Verified(p)
    <3>1. ASSUME NEW opener, Moves(q, opener), opener.pc # "ready" PROVE FALSE
      BY <3>1 DEF Moves, In, OpeningInv, OpeningTypeOK
    <3>2. \A why : openers[q] \in Opener /\ [openers[q] EXCEPT !.pc = "failed", !.why = why].pc = "failed"
      BY <2>1 DEF Opener
    <3>3. \A pc, n, m : [openers[q] EXCEPT !.pc = pc].pc = pc
                      /\ [openers[q] EXCEPT !.pc = pc, !.observed = n].pc = pc
                      /\ [openers[q] EXCEPT !.pc = pc, !.locked = m].pc = pc
      BY <2>1 DEF Opener
    <3>4. ASSUME NEW why, FailsToOpen(q, why) PROVE FALSE
      BY <3>1, <3>2, <3>4 DEF FailsToOpen
    <3>5. ~Opens(q)
      BY <3>1, <3>3, <3>4 DEF Opens, GoesOn
    <3>6. ~EnablesWal(q)
      BY <3>1, <3>3 DEF EnablesWal
    <3>7. ~Observes(q)
      <4> SUFFICES ASSUME Observes(q) PROVE FALSE
        OBVIOUS
      <4> DEFINE opener == [openers[q] EXCEPT !.pc = "locking", !.observed = version]
      <4>1. opener.pc # "ready"
        BY <3>3
      <4>2. Moves(q, opener) \/ FailsToOpen(q, "newer")
        BY DEF Observes, GoesOn
      <4> HIDE DEF opener
      <4> QED
        BY <3>1, <3>4, <4>1, <4>2
    <3>8. ~Begins(q)
      <4> SUFFICES ASSUME Begins(q) PROVE FALSE
        OBVIOUS
      <4> DEFINE opener == [openers[q] EXCEPT
                    !.pc = IF Behind(q) THEN "migrating" ELSE "verifying", !.locked = version]
      <4>1. opener.pc # "ready"
        BY <3>3
      <4>2. Moves(q, opener) \/ FailsToOpen(q, "newer")
        BY DEF Begins, GoesOn
      <4> HIDE DEF opener
      <4> QED
        BY <3>1, <3>4, <4>1, <4>2
    <3>9. ~Busy(q)
      BY <3>4 DEF Busy
    <3>10. ~Migrates(q)
      BY <2>1, <3>1, <3>4, AppliedOpener DEF Migrates
    <3>11. ~Closes(q)
      BY <3>1 DEF Closes, Closed
    <3>12. Verifies(q) /\ Verified(q)
      BY <2>2, <3>4, <3>5, <3>6, <3>7, <3>8, <3>9, <3>10, <3>11 DEF Verifies
    <3>13. q = p
      BY <3>12 DEF Verifies, Moves, In, OpeningInv, OpeningTypeOK
    <3> QED
      BY <3>12, <3>13
  <2>4. /\ In(p, "verifying") /\ Transacting(p)
        /\ openers[p].locked = version /\ version <= Latest[p]
        /\ openers[p].observed <= version /\ ~Behind(p)
    BY <2>3 DEF Verifies, In, Transacting, OpeningInv, LockedIsCurrent, NotAhead, Supported
  <2>5. version \in Nat /\ Latest[p] \in Nat /\ openers[p].observed \in Nat
    BY <2>1, OpeningAssumption DEF Opener, OpeningInv, OpeningTypeOK
  <2>6. version = Latest[p]
    BY <2>4, <2>5 DEF Behind
  <2> QED
    BY <2>3, <2>4, <2>6, OpeningAssumption DEF Verified
<1> QED
  BY <1>1, OpeningInvariant, PTL DEF OpeningSpec, ReadyOnCurrent
==============================================================================
