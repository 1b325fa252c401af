------------------------------ MODULE JobStore ------------------------------
(***************************************************************************)
(* The job table and the event log of SqliteJobStore                       *)
(* (session/sqlite-job-store.ts), the durable half of the job lifecycle.   *)
(*                                                                         *)
(* Every method of the store is one SQL statement or one transaction, so   *)
(* every action below is one method: the WHERE clause is the guard, the    *)
(* SET clause the primed columns.  A method whose WHERE clause matches no  *)
(* row returns false (or null) and changes nothing; that outcome is the    *)
(* negation of the action's Can... predicate, which the callers (JobRunner,*)
(* the reconciler) branch on.                                              *)
(*                                                                         *)
(* Columns are functions over the row ids.  Ownership metadata other than  *)
(* the owner id, results, inputs and error texts are left out: no          *)
(* statement of the store branches on them.  Time is counted in ticks;     *)
(* SQLite's datetime() keeps whole seconds, so a stored time is rounded    *)
(* down to a multiple of TicksPerSecond.                                   *)
(***************************************************************************)
EXTENDS Integers, Sequences

CONSTANTS
  Jobs,            \* row ids (randomUUID), each used at most once
  Names,           \* pipeline names
  JobName,         \* the name column: fixed by the INSERT, never updated
  Owners,          \* owner ids (one per run)
  NoOwner,         \* NULL in the owner_id column, or no owner argument
  NoTime,          \* NULL in the heartbeat_at column
  TicksPerSecond,  \* clock ticks in one second of datetime()
  MaxTime,         \* bound: the clock stops here
  MaxEvents        \* bound: appendEvent calls the log has room for

ASSUME NamesAssumption == JobName \in [Jobs -> Names]
ASSUME OwnersAssumption == NoOwner \notin Owners
ASSUME TimeAssumption ==
  /\ TicksPerSecond \in Nat \ {0}
  /\ MaxTime \in Nat
  /\ NoTime \notin Nat
ASSUME EventsAssumption == MaxEvents \in Nat

VARIABLES
  status,     \* the status column; "ABSENT" before the INSERT
  owner,      \* owner_id
  exclusive,  \* is_exclusive
  hbEnabled,  \* heartbeat_enabled
  hbAt,       \* heartbeat_at, rounded down to a second, or NoTime
  events,     \* the event table: the id of a row is its position
  now,        \* the wall clock
  beatAt      \* history: the exact time of the write hbAt rounds down

columns == <<status, owner, exclusive, hbEnabled, hbAt>>
heartbeatColumns == <<hbEnabled, hbAt, beatAt>>
storeVars == <<status, owner, exclusive, hbEnabled, hbAt, events, now, beatAt>>

-----------------------------------------------------------------------------

Terminal == {"COMPLETED", "FAILED", "CANCELLED", "ABANDONED"}
Open == {"PENDING", "RUNNING"}
Status == {"ABSENT"} \cup Open \cup Terminal

TerminalEvent == {"done", "error", "cancelled", "abandoned"}
LogEvent == {"progress", "cancellation_requested"}

Ticks == 0..MaxTime
StoredTime(t) == t - (t % TicksPerSecond)
MaybeOwner == Owners \cup {NoOwner}

\* JobOwnership.heartbeatEnabled: absent, false or true.
HeartbeatOption == {"unset", "off", "on"}

\* The event each terminal status is finalised with.
EventOf(s) == CASE s = "COMPLETED" -> "done"
                [] s = "FAILED"    -> "error"
                [] s = "CANCELLED" -> "cancelled"
                [] s = "ABANDONED" -> "abandoned"

\* (? IS NULL OR owner_id = ?)
OwnerMatches(j, o) == o = NoOwner \/ owner[j] = o

-----------------------------------------------------------------------------
(* Job lifecycle.                                                          *)

CreateJob(j) ==
  /\ status[j] = "ABSENT"
  /\ status' = [status EXCEPT ![j] = "PENDING"]
  /\ UNCHANGED <<owner, exclusive, heartbeatColumns, events, now>>

\* Mutant: the check looks for exclusive rows only.
AcquireChecksExclusiveOnly(n) ==
  \A k \in Jobs : JobName[k] = n /\ exclusive[k] => status[k] # "RUNNING"

\* The check and the INSERT run under BEGIN IMMEDIATE, hence in one step.
CanAcquireExclusive(n) ==
  \A k \in Jobs : JobName[k] = n => status[k] # "RUNNING"

AcquireExclusive(j) ==
  /\ status[j] = "ABSENT"
  /\ CanAcquireExclusive(JobName[j])
  /\ status' = [status EXCEPT ![j] = "RUNNING"]
  /\ exclusive' = [exclusive EXCEPT ![j] = TRUE]
  /\ UNCHANGED <<owner, heartbeatColumns, events, now>>

\* "an exclusive row of the same name, other than this one, is RUNNING"
ExclusiveRival(j) ==
  \E k \in Jobs \ {j} : /\ JobName[k] = JobName[j]
                        /\ status[k] = "RUNNING"
                        /\ exclusive[k]

\* Mutant: the comparison of the owner is lost.
ClaimIgnoresOwner(j, o) == status[j] \in Open /\ ~ExclusiveRival(j)

CanSetRunning(j, o) ==
  /\ \/ status[j] = "PENDING"
     \/ status[j] = "RUNNING" /\ owner[j] = NoOwner
     \/ status[j] = "RUNNING" /\ owner[j] = o
  /\ ~ExclusiveRival(j)

SetRunning(j, o, hb) ==
  /\ CanSetRunning(j, o)
  /\ status' = [status EXCEPT ![j] = "RUNNING"]
  /\ owner' = [owner EXCEPT ![j] = IF o = NoOwner THEN owner[j] ELSE o]
  /\ hbEnabled' = [hbEnabled EXCEPT ![j] =
                     IF hb = "unset" THEN hbEnabled[j] ELSE hb = "on"]
  /\ hbAt' = [hbAt EXCEPT ![j] =
                IF hbAt[j] = NoTime THEN StoredTime(now) ELSE hbAt[j]]
  /\ beatAt' = [beatAt EXCEPT ![j] =
                  IF hbAt[j] = NoTime THEN now ELSE beatAt[j]]
  /\ UNCHANGED <<exclusive, events, now>>

-----------------------------------------------------------------------------
(* Heartbeats.  heartbeat() may be called without an owner (an operator);  *)
(* enableHeartbeat() and refreshHeartbeat() may not.                       *)

\* Mutant: the status guard is lost.
HeartbeatAnyStatus(j, o) == OwnerMatches(j, o)

CanHeartbeat(j, o) == status[j] = "RUNNING" /\ OwnerMatches(j, o)

Heartbeat(j, o) ==
  /\ CanHeartbeat(j, o)
  /\ hbAt' = [hbAt EXCEPT ![j] = StoredTime(now)]
  /\ beatAt' = [beatAt EXCEPT ![j] = now]
  /\ UNCHANGED <<status, owner, exclusive, hbEnabled, events, now>>

EnableHeartbeat(j, o) ==
  /\ CanHeartbeat(j, o)
  /\ hbEnabled' = [hbEnabled EXCEPT ![j] = TRUE]
  /\ hbAt' = [hbAt EXCEPT ![j] = StoredTime(now)]
  /\ beatAt' = [beatAt EXCEPT ![j] = now]
  /\ UNCHANGED <<status, owner, exclusive, events, now>>

-----------------------------------------------------------------------------
(* Terminal transitions: first writer wins.                                *)

\* Mutant: the status guard is lost, the last writer wins.
FinishAnyStatus(j, o) == status[j] # "ABSENT" /\ OwnerMatches(j, o)

CanFinish(j, o) == status[j] \in Open /\ OwnerMatches(j, o)

\* setCompleted, setFailed and setCancelled: no event.
SetTerminal(j, o, s) ==
  /\ CanFinish(j, o)
  /\ status' = [status EXCEPT ![j] = s]
  /\ UNCHANGED <<owner, exclusive, heartbeatColumns, events, now>>

\* An operator's decision; the owner is not asked.
SetAbandoned(j) ==
  /\ status[j] = "RUNNING"
  /\ status' = [status EXCEPT ![j] = "ABANDONED"]
  /\ UNCHANGED <<owner, exclusive, heartbeatColumns, events, now>>

\* status and event row in one transaction.
FinalizeJob(j, o, s) ==
  /\ CanFinish(j, o)
  /\ status' = [status EXCEPT ![j] = s]
  /\ events' = Append(events, [job |-> j, type |-> EventOf(s)])
  /\ UNCHANGED <<owner, exclusive, heartbeatColumns, now>>

\* Mutant: a heartbeat in the second of the cutoff counts as older than it.
StaleInclusive(j, cutoff) ==
  /\ status[j] = "RUNNING"
  /\ hbEnabled[j]
  /\ hbAt[j] = NoTime \/ hbAt[j] <= StoredTime(cutoff)

\* The row as the WHERE clause of the stale finalisers sees it; the cutoff
\* is passed through datetime(), which rounds it down as well.
Stale(j, cutoff) ==
  /\ status[j] = "RUNNING"
  /\ hbEnabled[j]
  /\ hbAt[j] = NoTime \/ hbAt[j] < StoredTime(cutoff)

\* Mutant: an expected owner is treated as a missing one.
AbandonUnownedOnly(j, cutoff, o) == Stale(j, cutoff) /\ owner[j] = NoOwner

CanAbandon(j, cutoff, o) == Stale(j, cutoff) /\ OwnerMatches(j, o)

SetAbandonedIfStale(j, cutoff, o) ==
  /\ CanAbandon(j, cutoff, o)
  /\ status' = [status EXCEPT ![j] = "ABANDONED"]
  /\ UNCHANGED <<owner, exclusive, heartbeatColumns, events, now>>

FinalizeAbandonedIfStale(j, cutoff, o) ==
  /\ CanAbandon(j, cutoff, o)
  /\ status' = [status EXCEPT ![j] = "ABANDONED"]
  /\ events' = Append(events, [job |-> j, type |-> EventOf("ABANDONED")])
  /\ UNCHANGED <<owner, exclusive, heartbeatColumns, now>>

-----------------------------------------------------------------------------
(* Read-time staleness.  STALE is computed by reads and never stored: by   *)
(* getJob and listJobs on every row they return, in milliseconds, and by   *)
(* the filter of listJobs in SQL, in whole seconds.                        *)

ReadsStale(j, staleAfter) ==
  /\ status[j] = "RUNNING"
  /\ hbEnabled[j]
  /\ hbAt[j] = NoTime \/ now - hbAt[j] > staleAfter

ListedStale(j, staleAfter) == Stale(j, now - staleAfter)

-----------------------------------------------------------------------------
(* The event log.  The INSERT has no status guard: only the foreign key    *)
(* (the row exists) can refuse it.                                         *)

AppendEvent(j, type) ==
  /\ status[j] # "ABSENT"
  /\ events' = Append(events, [job |-> j, type |-> type])
  /\ UNCHANGED <<columns, beatAt, now>>

\* getEvents(jobId, afterId): the ids of the rows, in id order.
EventIds(j, afterId) == {i \in DOMAIN events : events[i].job = j /\ i > afterId}

Tick ==
  /\ now < MaxTime
  /\ now' = now + 1
  /\ UNCHANGED <<columns, beatAt, events>>

-----------------------------------------------------------------------------
(* The store on its own: any caller may issue any call at any time.        *)

StoreInit ==
  /\ status = [j \in Jobs |-> "ABSENT"]
  /\ owner = [j \in Jobs |-> NoOwner]
  /\ exclusive = [j \in Jobs |-> FALSE]
  /\ hbEnabled = [j \in Jobs |-> FALSE]
  /\ hbAt = [j \in Jobs |-> NoTime]
  /\ beatAt = [j \in Jobs |-> NoTime]
  /\ events = <<>>
  /\ now = 0

\* Bound: at most MaxEvents rows other than terminal ones are logged.
LogHasRoom == Len(SelectSeq(events, LAMBDA e : e.type \in LogEvent)) < MaxEvents

StoreStep(canLog) ==
  \/ Tick
  \/ \E j \in Jobs :
       \/ CreateJob(j)
       \/ AcquireExclusive(j)
       \/ SetAbandoned(j)
       \/ \E o \in MaybeOwner, hb \in HeartbeatOption : SetRunning(j, o, hb)
       \/ \E o \in MaybeOwner : Heartbeat(j, o)
       \/ \E o \in Owners : EnableHeartbeat(j, o)
       \/ \E o \in MaybeOwner, s \in Terminal \ {"ABANDONED"} : SetTerminal(j, o, s)
       \/ \E o \in MaybeOwner, s \in Terminal : FinalizeJob(j, o, s)
       \/ \E o \in MaybeOwner, cutoff \in 0..now :
            \/ SetAbandonedIfStale(j, cutoff, o)
            \/ FinalizeAbandonedIfStale(j, cutoff, o)
       \/ \E type \in LogEvent : canLog /\ AppendEvent(j, type)

StoreNext == StoreStep(TRUE)
BoundedStoreNext == StoreStep(LogHasRoom)

StoreSpec == StoreInit /\ [][StoreNext]_storeVars
BoundedStoreSpec == StoreInit /\ [][BoundedStoreNext]_storeVars

-----------------------------------------------------------------------------
(* Properties.                                                             *)

\* Every column holds a value its declaration and its writers allow.
StoreTypeOK ==
  /\ status \in [Jobs -> Status]
  /\ owner \in [Jobs -> MaybeOwner]
  /\ exclusive \in [Jobs -> BOOLEAN]
  /\ hbEnabled \in [Jobs -> BOOLEAN]
  /\ hbAt \in [Jobs -> Ticks \cup {NoTime}]
  /\ beatAt \in [Jobs -> Ticks \cup {NoTime}]
  /\ events \in Seq([job: Jobs, type: LogEvent \cup TerminalEvent])
  /\ now \in Ticks

\* "ordinary same-name runs may overlap each other, but cannot overlap an
\* active exclusive run" (MIGRATING.md:9): while a row made by
\* acquireExclusive is RUNNING, no other row of its name is, whichever of
\* setRunning and acquireExclusive came last.
ExclusiveSlot ==
  \A j, k \in Jobs :
    /\ j # k /\ JobName[j] = JobName[k]
    /\ status[j] = "RUNNING" /\ status[k] = "RUNNING"
    => ~exclusive[j]

\* The log agrees with the row: a terminal event of a job is the one event
\* its status was finalised with, so no reader of the log can see a job end
\* twice, or end differently from its row (finalizeJob and
\* finalizeAbandonedIfStale write both in one transaction).
TerminalEventAgrees ==
  \A i \in DOMAIN events : events[i].type \in TerminalEvent =>
    /\ status[events[i].job] \in Terminal
    /\ events[i].type = EventOf(status[events[i].job])
    /\ \A k \in DOMAIN events \ {i} :
         events[k].job = events[i].job => events[k].type \notin TerminalEvent

\* A row that is not RUNNING yet has no owner and is not exclusive.  With
\* the invariants above it is inductive, which they alone are not.
NotStartedIsBare ==
  \A j \in Jobs : status[j] \in {"ABSENT", "PENDING"} =>
    owner[j] = NoOwner /\ ~exclusive[j]

\* heartbeat_at is the last heartbeat rounded down, or both are missing.
HeartbeatRounded ==
  \A j \in Jobs :
    IF beatAt[j] = NoTime THEN hbAt[j] = NoTime ELSE hbAt[j] = StoredTime(beatAt[j])

StoreInv == /\ StoreTypeOK
            /\ ExclusiveSlot
            /\ TerminalEventAgrees
            /\ NotStartedIsBare
            /\ HeartbeatRounded

\* "The first persisted terminal state wins" (docs/cancellation.md): once a
\* row is terminal no later call, owner-scoped or not, late or repeated,
\* changes anything of it.
RowFrozen(j) ==
  /\ status'[j] = status[j] /\ owner'[j] = owner[j]
  /\ exclusive'[j] = exclusive[j]
  /\ hbEnabled'[j] = hbEnabled[j] /\ hbAt'[j] = hbAt[j]

FirstTerminalWins ==
  [][\A j \in Jobs : status[j] \in Terminal => RowFrozen(j)]_storeVars

\* A claim is never stolen: the owner of a row is set once, by the first
\* setRunning that names one, and every later claim under another owner is
\* refused ("False means another owner won", job-store.ts).
OwnerNeverStolen ==
  [][\A j \in Jobs : owner[j] # NoOwner => owner'[j] = owner[j]]_storeVars

\* "Prevents a stale-list/read race from abandoning a recovered job"
\* (job-store.ts): a row that was written at or after the cutoff is never
\* abandoned by a stale finaliser, although both sides of the comparison
\* are rounded to seconds first.
RecoveredNeverAbandoned ==
  [][\A j \in Jobs, cutoff \in 0..now :
       SetAbandonedIfStale(j, cutoff, NoOwner)
         => beatAt[j] = NoTime \/ beatAt[j] < cutoff]_storeVars

\* A row listed under status STALE reads as STALE: the seconds of the SQL
\* filter never run ahead of the milliseconds of the read.  They may stay
\* behind: below a second a row reads as STALE and is not listed yet.
ListedReadsStale ==
  \A j \in Jobs, d \in 1..now : ListedStale(j, d) => ReadsStale(j, d)

\* Refinement mapping onto JobSlots: a name is held by its RUNNING rows.
Slots == INSTANCE JobSlots WITH
  Outcomes <- Terminal,
  NoOutcome <- "none",
  outcome <- [j \in Jobs |-> IF status[j] \in Terminal THEN status[j] ELSE "none"],
  holder <- owner,
  inside <- [n \in Names |-> {j \in Jobs : JobName[j] = n /\ status[j] = "RUNNING"}],
  alone <- {n \in Names : \E j \in Jobs :
              JobName[j] = n /\ status[j] = "RUNNING" /\ exclusive[j]}

\* The store implements the slots: whatever the order of calls, each column
\* update is one step of the abstract slot discipline, or none.
ImplementsSlots == Slots!Spec
=============================================================================
