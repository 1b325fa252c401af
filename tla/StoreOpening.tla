---------------------------- MODULE StoreOpening -----------------------------
(***************************************************************************)
(* The constructor of SqliteJobStore (session/sqlite-job-store.ts): several*)
(* processes, maybe of different builds, open and migrate one database.    *)
(*                                                                         *)
(* Migration m takes the schema from version m - 1 to m.  Builds before    *)
(* the exclusivity migration are not modelled: they had another            *)
(* constructor.  A transaction is BEGIN IMMEDIATE with the read of         *)
(* user_version, and its COMMIT; while one is open nothing else is written.*)
(***************************************************************************)
EXTENDS Integers

CONSTANTS
  Openers,             \* processes that open the store
  Latest,              \* LATEST_SCHEMA_VERSION of each one's build
  ExclusivityVersion,  \* the version of migrateExclusivity
  MaxEdits             \* bound: changes by hand

ASSUME OpeningAssumption ==
  /\ ExclusivityVersion \in Nat \ {0}
  /\ Latest \in [Openers -> Nat]
  /\ \A p \in Openers : Latest[p] >= ExclusivityVersion
  /\ MaxEdits \in Nat

VARIABLES
  version,  \* user_version
  slot,     \* is_exclusive and its index: "none", "expected" or "other"
  edits,    \* changes by hand so far
  openers   \* each opener's constructor

openingVars == <<version, slot, edits, openers>>

\* observed is observedVersion, locked the version read in the transaction.
Closed == [pc |-> "closed", observed |-> 0, locked |-> 0, why |-> "none"]

In(p, pc) == openers[p].pc = pc
Moves(p, opener) == openers' = [openers EXCEPT ![p] = opener]

\* The constructor throws, behind a ROLLBACK if need be and db.close().
FailsToOpen(p, why) ==
  /\ Moves(p, [openers[p] EXCEPT !.pc = "failed", !.why = why])
  /\ UNCHANGED <<version, slot, edits>>

Supported(p) == version <= Latest[p]

\* Goes on to pc when the version is supported.
GoesOn(p, opener) ==
  IF Supported(p) THEN Moves(p, opener) /\ UNCHANGED <<version, slot, edits>>
                  ELSE FailsToOpen(p, "newer")

Transacting(p) == openers[p].pc \in {"migrating", "verifying"}
Locked == \E p \in Openers : Transacting(p)

-----------------------------------------------------------------------------

Opens(p) == In(p, "closed") /\ GoesOn(p, [openers[p] EXCEPT !.pc = "enabling"])

EnablesWal(p) ==
  /\ In(p, "enabling") /\ Moves(p, [openers[p] EXCEPT !.pc = "reading"])
  /\ UNCHANGED <<version, slot, edits>>

\* runMigrations(), its first read.
Observes(p) ==
  In(p, "reading") /\ GoesOn(p, [openers[p] EXCEPT !.pc = "locking", !.observed = version])

Behind(p) == openers[p].observed < Latest[p]

\* BEGIN IMMEDIATE of the next migration, or of the verification.
Begins(p) ==
  /\ In(p, "locking") /\ ~Locked
  /\ GoesOn(p, [openers[p] EXCEPT !.pc = IF Behind(p) THEN "migrating" ELSE "verifying",
                                  !.locked = version])

\* Another connection keeps the lock for longer than the busy timeout, or
\* than enableWalWithRetry() tries.
Busy(p) ==
  /\ openers[p].pc \in {"enabling", "locking"}
  /\ \E q \in Openers \ {p} : openers[q].pc \notin {"closed", "failed"}
  /\ FailsToOpen(p, "busy")

Target(p) == openers[p].observed + 1

\* Mutant: the version observed before the lock decides.
SkipsNothing(p) == FALSE

\* Someone else has applied the migration meanwhile.
Skips(p) == Target(p) <= openers[p].locked

Applied(p) == [openers[p] EXCEPT !.pc = "locking", !.observed = Target(p)]

\* The rest of a migration's transaction.  What is added must not be there.
Migrates(p) ==
  /\ In(p, "migrating")
  /\ CASE Skips(p) -> Moves(p, Applied(p)) /\ UNCHANGED <<version, slot, edits>>
       [] ~Skips(p) /\ Target(p) <= version -> FailsToOpen(p, "duplicate")
       [] ~Skips(p) /\ Target(p) = ExclusivityVersion /\ slot # "none" ->
            FailsToOpen(p, "collision")
       [] OTHER -> /\ version' = Target(p)
                   /\ slot' = IF Target(p) = ExclusivityVersion THEN "expected" ELSE slot
                   /\ Moves(p, Applied(p)) /\ UNCHANGED edits

\* Mutant: the version is taken for proof.
VerifiedByVersion(p) == openers[p].locked >= ExclusivityVersion

\* verifyExclusivityColumn() and verifyExclusivityIndex()
Verified(p) == openers[p].locked >= ExclusivityVersion => slot = "expected"

Verifies(p) ==
  /\ In(p, "verifying")
  /\ IF Verified(p)
     THEN Moves(p, [openers[p] EXCEPT !.pc = "ready"]) /\ UNCHANGED <<version, slot, edits>>
     ELSE FailsToOpen(p, "collision")

\* close(), a process that dies (an open transaction is rolled back), and a
\* new attempt.
Closes(p) ==
  ~In(p, "closed") /\ Moves(p, Closed) /\ UNCHANGED <<version, slot, edits>>

\* "an operator, older binary, or interrupted manual repair"
EditedByHand ==
  /\ edits < MaxEdits /\ ~Locked
  /\ \/ slot' \in {"none", "other"}
     \/ slot' = "expected" /\ version >= ExclusivityVersion
  /\ slot' # slot
  /\ edits' = edits + 1
  /\ UNCHANGED <<version, openers>>

OpeningInit ==
  /\ version = 0 /\ slot = "none" /\ edits = 0
  /\ openers = [p \in Openers |-> Closed]

OpeningNext ==
  \/ EditedByHand
  \/ \E p \in Openers : \/ Opens(p) \/ EnablesWal(p) \/ Observes(p) \/ Begins(p) \/ Busy(p)
                        \/ Migrates(p) \/ Verifies(p) \/ Closes(p)

OpeningSpec == OpeningInit /\ [][OpeningNext]_openingVars

-----------------------------------------------------------------------------
(* Properties.                                                             *)

\* However the openers race, die and come back, none finds a migration half
\* done or done twice: it is only refused for a schema of a newer build, for
\* one that was changed by hand, or because the database stayed busy.
ExplainedFailures ==
  \A p \in Openers : In(p, "failed") =>
    /\ openers[p].why \in {"newer", "collision", "busy"}
    /\ openers[p].why = "newer" => version > Latest[p]
    /\ openers[p].why = "collision" => edits > 0

\* "user_version is not proof that the invariant still exists"
\* (sqlite-job-store.ts:360): a store opens on the schema of its own build,
\* with the exclusivity index in place, whatever was done to it meanwhile.
ReadyOnCurrent ==
  [][\A p \in Openers :
       ~In(p, "ready") /\ openers'[p].pc = "ready" =>
         version = Latest[p] /\ slot = "expected"]_openingVars
==============================================================================
