--------------------------- MODULE JobStoreProofs ---------------------------
(***************************************************************************)
(* Proofs about the job store, for any sets of jobs, names and owners, any *)
(* clock resolution and any bound on the clock and the log.                *)
(***************************************************************************)
EXTENDS JobStore, TLAPS

\* Rounding a clock value down to a whole second keeps it on the clock.
LEMMA StoredTimeOnClock ==
  ASSUME NEW t \in Ticks
  PROVE  StoredTime(t) \in Ticks
<1>1. t \in Nat /\ TicksPerSecond \in Nat /\ TicksPerSecond > 0
  BY TimeAssumption DEF Ticks
<1>2. t % TicksPerSecond \in 0..(TicksPerSecond - 1)
  BY <1>1
<1>3. t % TicksPerSecond <= t
  BY <1>1
<1>4. QED
  BY <1>1, <1>2, <1>3, TimeAssumption DEF StoredTime, Ticks

-----------------------------------------------------------------------------
(* Type correctness.                                                       *)

\* The empty store is well typed.
LEMMA InitType == StoreInit => StoreTypeOK
BY TimeAssumption DEF StoreInit, StoreTypeOK, Status, MaybeOwner, Ticks

\* What every action writes is in the range of its columns.
LEMMA NextType == StoreTypeOK /\ [StoreNext]_storeVars => StoreTypeOK'
<1> SUFFICES ASSUME StoreTypeOK, [StoreNext]_storeVars
             PROVE  StoreTypeOK'
  OBVIOUS
<1> USE DEF StoreTypeOK, Status, Open, Terminal, MaybeOwner, columns, heartbeatColumns
<1>1. ASSUME NEW j \in Jobs, CreateJob(j)
      PROVE  StoreTypeOK'
  BY <1>1 DEF CreateJob
<1>2. ASSUME NEW j \in Jobs, AcquireExclusive(j)
      PROVE  StoreTypeOK'
  BY <1>2 DEF AcquireExclusive
<1>3. ASSUME NEW j \in Jobs, SetAbandoned(j)
      PROVE  StoreTypeOK'
  BY <1>3 DEF SetAbandoned
<1>4. ASSUME NEW j \in Jobs, NEW o \in MaybeOwner, NEW hb \in HeartbeatOption,
             SetRunning(j, o, hb)
      PROVE  StoreTypeOK'
  BY <1>4, StoredTimeOnClock DEF SetRunning
<1>5. ASSUME NEW j \in Jobs, NEW o \in MaybeOwner,
             Heartbeat(j, o) \/ EnableHeartbeat(j, o)
      PROVE  StoreTypeOK'
  <2>1. CASE Heartbeat(j, o)
    BY <2>1, StoredTimeOnClock DEF Heartbeat
  <2>2. CASE EnableHeartbeat(j, o)
    BY <2>2, StoredTimeOnClock DEF EnableHeartbeat
  <2>3. QED
    BY <1>5, <2>1, <2>2
<1>6. ASSUME NEW j \in Jobs, NEW o \in MaybeOwner, NEW s \in Terminal, SetTerminal(j, o, s)
      PROVE  StoreTypeOK'
  BY <1>6 DEF SetTerminal
<1>7. ASSUME NEW j \in Jobs, NEW o \in MaybeOwner, NEW s \in Terminal, FinalizeJob(j, o, s)
      PROVE  StoreTypeOK'
  BY <1>7 DEF FinalizeJob, EventOf, LogEvent, TerminalEvent
<1>8. ASSUME NEW j \in Jobs, NEW o \in MaybeOwner, NEW cutoff \in 0..now,
             SetAbandonedIfStale(j, cutoff, o)
      PROVE  StoreTypeOK'
  BY <1>8 DEF SetAbandonedIfStale
<1>9. ASSUME NEW j \in Jobs, NEW o \in MaybeOwner, NEW cutoff \in 0..now,
             FinalizeAbandonedIfStale(j, cutoff, o)
      PROVE  StoreTypeOK'
  BY <1>9 DEF FinalizeAbandonedIfStale, EventOf, LogEvent, TerminalEvent
<1>10. ASSUME NEW j \in Jobs, NEW type \in LogEvent, AppendEvent(j, type)
       PROVE  StoreTypeOK'
  BY <1>10 DEF AppendEvent
<1>11. ASSUME Tick
       PROVE  StoreTypeOK'
  BY <1>11, TimeAssumption DEF Tick, Ticks
<1>12. ASSUME UNCHANGED storeVars
       PROVE  StoreTypeOK'
  BY <1>12 DEF storeVars
<1>13. QED
  BY <1>1, <1>2, <1>3, <1>4, <1>5, <1>6, <1>7, <1>8, <1>9, <1>10, <1>11, <1>12
  DEF StoreNext, StoreStep, MaybeOwner

\* Every column of every reachable store is well typed.
THEOREM StoreTypeCorrect == StoreSpec => []StoreTypeOK
<1>1. QED
  BY InitType, NextType, PTL DEF StoreSpec

-----------------------------------------------------------------------------
(* The inductive invariant.  NotStartedIsBare is what makes ExclusiveSlot  *)
(* inductive: setRunning may turn a PENDING row RUNNING beside shared      *)
(* ones, which is sound only because a PENDING row is never exclusive.     *)

\* The empty store satisfies the inductive invariant.
LEMMA InitInv == StoreInit => StoreInv
BY InitType
DEF StoreInit, StoreInv, ExclusiveSlot, TerminalEventAgrees, NotStartedIsBare, HeartbeatRounded

\* No step puts a second row into an exclusive slot.  setRunning is the
\* step that could: it relies on a PENDING row not being exclusive.
LEMMA NextExclusive ==
  StoreInv /\ [StoreNext]_storeVars => ExclusiveSlot' /\ NotStartedIsBare'
<1> SUFFICES ASSUME StoreInv, [StoreNext]_storeVars
             PROVE  ExclusiveSlot' /\ NotStartedIsBare'
  OBVIOUS
<1> USE DEF StoreInv, StoreTypeOK, ExclusiveSlot, NotStartedIsBare,
            Open, Terminal, heartbeatColumns, columns
<1>1. ASSUME NEW j \in Jobs, CreateJob(j)
      PROVE  ExclusiveSlot' /\ NotStartedIsBare'
  BY <1>1 DEF CreateJob
<1>2. ASSUME NEW j \in Jobs, AcquireExclusive(j)
      PROVE  ExclusiveSlot' /\ NotStartedIsBare'
  BY <1>2 DEF AcquireExclusive, CanAcquireExclusive
<1>3. ASSUME NEW j \in Jobs, NEW s \in Terminal, status' = [status EXCEPT ![j] = s],
             UNCHANGED <<owner, exclusive>>
      PROVE  ExclusiveSlot' /\ NotStartedIsBare'
  BY <1>3
<1>4. ASSUME NEW j \in Jobs, NEW o \in MaybeOwner, NEW hb \in HeartbeatOption,
             SetRunning(j, o, hb)
      PROVE  ExclusiveSlot' /\ NotStartedIsBare'
  BY <1>4 DEF SetRunning, CanSetRunning, ExclusiveRival
<1>5. ASSUME UNCHANGED <<status, owner, exclusive>>
      PROVE  ExclusiveSlot' /\ NotStartedIsBare'
  BY <1>5
<1>6. QED
  BY <1>1, <1>2, <1>3, <1>4, <1>5
  DEF StoreNext, StoreStep, storeVars, SetAbandoned, SetTerminal, FinalizeJob, SetAbandonedIfStale,
      FinalizeAbandonedIfStale, Heartbeat, EnableHeartbeat, AppendEvent, Tick

\* An element of a sequence over S is in S.
LEMMA SequenceElement ==
  ASSUME NEW S, NEW s \in Seq(S), NEW i \in DOMAIN s
  PROVE  s[i] \in S
OBVIOUS

\* Every row of the event table refers to a job.
LEMMA LoggedJob ==
  StoreTypeOK => \A i \in DOMAIN events : events[i].job \in Jobs
<1> SUFFICES ASSUME StoreTypeOK, NEW i \in DOMAIN events
             PROVE  events[i].job \in Jobs
  OBVIOUS
<1>1. events[i] \in [job: Jobs, type: LogEvent \cup TerminalEvent]
  BY SequenceElement DEF StoreTypeOK
<1>2. QED
  BY <1>1

\* A job whose log holds a terminal event is terminal, so no later
\* transition touches it, and an appended event is not terminal.
LEMMA NextTerminalEvent ==
  StoreInv /\ [StoreNext]_storeVars => TerminalEventAgrees'
<1> SUFFICES ASSUME StoreInv, [StoreNext]_storeVars
             PROVE  TerminalEventAgrees'
  OBVIOUS
<1> USE DEF StoreInv, StoreTypeOK, TerminalEventAgrees, Open, Terminal, heartbeatColumns, columns
<1>1. ASSUME NEW j \in Jobs, NEW s \in Status, status[j] \notin Terminal,
             status' = [status EXCEPT ![j] = s], UNCHANGED events
      PROVE  TerminalEventAgrees'
  BY <1>1
<1>2. ASSUME NEW j \in Jobs, NEW s \in Terminal, status[j] \in Open,
             status' = [status EXCEPT ![j] = s],
             events' = Append(events, [job |-> j, type |-> EventOf(s)])
      PROVE  TerminalEventAgrees'
  <2>1. \A i \in DOMAIN events : events[i].job = j => events[i].type \notin TerminalEvent
    BY <1>2
  <2>2. DOMAIN events' = DOMAIN events \cup {Len(events) + 1}
    BY <1>2
  <2>3. \A i \in DOMAIN events : events'[i] = events[i] /\ i # Len(events) + 1
    BY <1>2
  <2>4. events'[Len(events) + 1] = [job |-> j, type |-> EventOf(s)]
    BY <1>2
  <2>5. \A i \in DOMAIN events : events[i].job \in Jobs
    BY LoggedJob
  <2>6. \A k \in Jobs : k # j => status'[k] = status[k]
    BY <1>2
  <2>7. status'[j] = s
    BY <1>2
  <2>8. QED
    BY <2>1, <2>2, <2>3, <2>4, <2>5, <2>6, <2>7
<1>3. ASSUME NEW j \in Jobs, NEW type \in LogEvent, AppendEvent(j, type)
      PROVE  TerminalEventAgrees'
  <2>1. events' = Append(events, [job |-> j, type |-> type]) /\ status' = status
    BY <1>3 DEF AppendEvent
  <2>2. type \notin TerminalEvent
    BY DEF LogEvent, TerminalEvent
  <2>3. DOMAIN events' = DOMAIN events \cup {Len(events) + 1}
    BY <2>1
  <2>4. \A i \in DOMAIN events : events'[i] = events[i] /\ i # Len(events) + 1
    BY <2>1
  <2>5. events'[Len(events) + 1] = [job |-> j, type |-> type]
    BY <2>1
  <2>6. QED
    BY <2>1, <2>2, <2>3, <2>4, <2>5
<1>4. ASSUME UNCHANGED <<status, events>>
      PROVE  TerminalEventAgrees'
  BY <1>4
<1>5. QED
  <2>1. ASSUME NEW j \in Jobs, CreateJob(j) \/ AcquireExclusive(j)
        PROVE  TerminalEventAgrees'
    BY <2>1, <1>1 DEF CreateJob, AcquireExclusive, Status
  <2>2. ASSUME NEW j \in Jobs, NEW o \in MaybeOwner, NEW hb \in HeartbeatOption,
               SetRunning(j, o, hb)
        PROVE  TerminalEventAgrees'
    BY <2>2, <1>1 DEF SetRunning, CanSetRunning, Status
  <2>3. ASSUME NEW j \in Jobs, NEW o \in MaybeOwner, NEW s \in Terminal, SetTerminal(j, o, s)
        PROVE  TerminalEventAgrees'
    BY <2>3, <1>1 DEF SetTerminal, CanFinish, Status
  <2>4. ASSUME NEW j \in Jobs, NEW o \in MaybeOwner, NEW cutoff \in 0..now,
               SetAbandoned(j) \/ SetAbandonedIfStale(j, cutoff, o)
        PROVE  TerminalEventAgrees'
    BY <2>4, <1>1 DEF SetAbandoned, SetAbandonedIfStale, CanAbandon, Stale, Status
  <2>5. ASSUME NEW j \in Jobs, NEW o \in MaybeOwner, NEW s \in Terminal, FinalizeJob(j, o, s)
        PROVE  TerminalEventAgrees'
    BY <2>5, <1>2 DEF FinalizeJob, CanFinish
  <2>6. ASSUME NEW j \in Jobs, NEW o \in MaybeOwner, NEW cutoff \in 0..now,
               FinalizeAbandonedIfStale(j, cutoff, o)
        PROVE  TerminalEventAgrees'
    BY <2>6, <1>2 DEF FinalizeAbandonedIfStale, CanAbandon, Stale
  <2>7. ASSUME NEW j \in Jobs, SetAbandoned(j)
        PROVE  TerminalEventAgrees'
    BY <2>7, <1>1 DEF SetAbandoned, Status
  <2>8. ASSUME NEW j \in Jobs, NEW o, Heartbeat(j, o) \/ EnableHeartbeat(j, o)
        PROVE  TerminalEventAgrees'
    BY <2>8, <1>4 DEF Heartbeat, EnableHeartbeat
  <2>9. CASE Tick \/ UNCHANGED storeVars
    BY <2>9, <1>4 DEF Tick, storeVars
  <2>10. QED
    BY <2>1, <2>2, <2>3, <2>4, <2>5, <2>6, <2>7, <2>8, <2>9, <1>3 DEF StoreNext, StoreStep

\* Every step that writes heartbeat_at writes both the time and its rounding.
LEMMA NextRounded ==
  StoreInv /\ [StoreNext]_storeVars => HeartbeatRounded'
<1> SUFFICES ASSUME StoreInv, [StoreNext]_storeVars
             PROVE  HeartbeatRounded'
  OBVIOUS
<1> USE TimeAssumption DEF StoreInv, StoreTypeOK, HeartbeatRounded, Ticks
<1>1. ASSUME NEW j \in Jobs, NEW o \in MaybeOwner, NEW hb \in HeartbeatOption,
             SetRunning(j, o, hb)
      PROVE  HeartbeatRounded'
  <2>1. now # NoTime /\ StoredTime(now) # NoTime
    BY StoredTimeOnClock
  <2>2. hbAt[j] = NoTime <=> beatAt[j] = NoTime
    BY StoredTimeOnClock
  <2>3. QED
    BY <1>1, <2>1, <2>2 DEF SetRunning, StoredTime
<1>2. ASSUME NEW j \in Jobs, NEW o \in MaybeOwner, Heartbeat(j, o) \/ EnableHeartbeat(j, o)
      PROVE  HeartbeatRounded'
  <2>1. now # NoTime
    OBVIOUS
  <2>2. /\ hbAt' = [hbAt EXCEPT ![j] = StoredTime(now)]
        /\ beatAt' = [beatAt EXCEPT ![j] = now]
    BY <1>2 DEF Heartbeat, EnableHeartbeat
  <2>3. QED
    BY <2>1, <2>2 DEF StoredTime
<1>3. CASE UNCHANGED <<hbAt, beatAt>>
  BY <1>3 DEF StoredTime
<1>4. QED
  BY <1>1, <1>2, <1>3
  DEF StoreNext, StoreStep, MaybeOwner, storeVars, columns, heartbeatColumns, CreateJob, AcquireExclusive,
      SetAbandoned, SetTerminal, FinalizeJob, SetAbandonedIfStale,
      FinalizeAbandonedIfStale, AppendEvent, Tick

\* Every step preserves the inductive invariant.
LEMMA NextInv == StoreInv /\ [StoreNext]_storeVars => StoreInv'
BY NextType, NextExclusive, NextTerminalEvent, NextRounded DEF StoreInv

\* The inductive invariant holds in every reachable store.
LEMMA StoreInvHolds == StoreSpec => []StoreInv
<1>1. QED
  BY InitInv, NextInv, PTL DEF StoreSpec

\* An exclusive row and another RUNNING row of its name never coexist.
THEOREM ExclusiveSlotHolds == StoreSpec => []ExclusiveSlot
<1>1. StoreInv => ExclusiveSlot
  BY DEF StoreInv
<1>2. QED
  BY <1>1, StoreInvHolds, PTL

\* The log never shows a job ending twice, or otherwise than its row says.
THEOREM TerminalEventAgreesHolds == StoreSpec => []TerminalEventAgrees
<1>1. StoreInv => TerminalEventAgrees
  BY DEF StoreInv
<1>2. QED
  BY <1>1, StoreInvHolds, PTL

-----------------------------------------------------------------------------
(* Action properties.                                                      *)

\* Whatever call arrives late, a terminal row keeps every column.
THEOREM FirstTerminalWinsHolds == StoreSpec => FirstTerminalWins
<1>1. StoreInv /\ [StoreNext]_storeVars
        => [\A j \in Jobs : status[j] \in Terminal => RowFrozen(j)]_storeVars
  <2> SUFFICES ASSUME StoreInv, [StoreNext]_storeVars,
                      NEW j \in Jobs, status[j] \in Terminal
               PROVE  RowFrozen(j)
    OBVIOUS
  <2> USE DEF StoreInv, StoreTypeOK, RowFrozen, Open, Terminal, heartbeatColumns, columns
  <2>1. CASE UNCHANGED storeVars
    BY <2>1 DEF storeVars
  <2>2. CASE Tick
    BY <2>2 DEF Tick
  <2>3. ASSUME NEW k \in Jobs, CreateJob(k) \/ AcquireExclusive(k) \/ SetAbandoned(k)
        PROVE  RowFrozen(j)
    BY <2>3 DEF CreateJob, AcquireExclusive, SetAbandoned
  <2>4. ASSUME NEW k \in Jobs, NEW o \in MaybeOwner, NEW hb \in HeartbeatOption,
               SetRunning(k, o, hb)
        PROVE  RowFrozen(j)
    BY <2>4 DEF SetRunning, CanSetRunning
  <2>5. ASSUME NEW k \in Jobs, NEW o \in MaybeOwner, Heartbeat(k, o) \/ EnableHeartbeat(k, o)
        PROVE  RowFrozen(j)
    BY <2>5 DEF Heartbeat, EnableHeartbeat, CanHeartbeat
  <2>6. ASSUME NEW k \in Jobs, NEW o \in MaybeOwner, NEW s \in Terminal,
               SetTerminal(k, o, s) \/ FinalizeJob(k, o, s)
        PROVE  RowFrozen(j)
    BY <2>6 DEF SetTerminal, FinalizeJob, CanFinish
  <2>7. ASSUME NEW k \in Jobs, NEW o \in MaybeOwner, NEW cutoff \in 0..now,
               SetAbandonedIfStale(k, cutoff, o) \/ FinalizeAbandonedIfStale(k, cutoff, o)
        PROVE  RowFrozen(j)
    BY <2>7 DEF SetAbandonedIfStale, FinalizeAbandonedIfStale, CanAbandon, Stale
  <2>8. ASSUME NEW k \in Jobs, NEW type \in LogEvent, AppendEvent(k, type)
        PROVE  RowFrozen(j)
    BY <2>8 DEF AppendEvent
  <2>9. QED
    BY <2>1, <2>2, <2>3, <2>4, <2>5, <2>6, <2>7, <2>8 DEF StoreNext, StoreStep, MaybeOwner
<1>2. QED
  BY <1>1, StoreInvHolds, PTL DEF StoreSpec, FirstTerminalWins

\* No call replaces the owner a row records.
LEMMA OwnerKept ==
  ASSUME StoreInv, [StoreNext]_storeVars, NEW j \in Jobs, owner[j] # NoOwner
  PROVE  owner'[j] = owner[j]
<1> USE DEF StoreInv, StoreTypeOK
<1>1. ASSUME NEW k \in Jobs, NEW o \in MaybeOwner, NEW hb \in HeartbeatOption,
             SetRunning(k, o, hb)
      PROVE  owner'[j] = owner[j]
  BY <1>1 DEF SetRunning, CanSetRunning, NotStartedIsBare
<1>2. CASE UNCHANGED owner
  BY <1>2
<1>3. QED
  BY <1>1, <1>2
  DEF StoreNext, StoreStep, storeVars, columns, heartbeatColumns, CreateJob, AcquireExclusive,
      SetAbandoned, SetTerminal, FinalizeJob, SetAbandonedIfStale,
      FinalizeAbandonedIfStale, Heartbeat, EnableHeartbeat, AppendEvent, Tick

\* The first owner a row records is its owner for ever.
THEOREM OwnerNeverStolenHolds == StoreSpec => OwnerNeverStolen
<1>1. StoreInv /\ [StoreNext]_storeVars
        => [\A j \in Jobs : owner[j] # NoOwner => owner'[j] = owner[j]]_storeVars
  BY OwnerKept
<1>2. QED
  BY <1>1, StoreInvHolds, PTL DEF StoreSpec, OwnerNeverStolen

-----------------------------------------------------------------------------
(* Rounding to seconds.                                                    *)

\* A rounded time is the start of the second its time is in.
LEMMA SecondOf ==
  ASSUME NEW t \in Nat
  PROVE  /\ t \div TicksPerSecond \in Nat
         /\ StoredTime(t) = TicksPerSecond * (t \div TicksPerSecond)
         /\ StoredTime(t) <= t
         /\ t < StoredTime(t) + TicksPerSecond
<1>1. TicksPerSecond \in Nat /\ TicksPerSecond > 0
  BY TimeAssumption
<1>2. /\ t = TicksPerSecond * (t \div TicksPerSecond) + (t % TicksPerSecond)
      /\ t % TicksPerSecond \in 0..(TicksPerSecond - 1)
      /\ t \div TicksPerSecond \in Nat
  BY <1>1
<1>3. TicksPerSecond * (t \div TicksPerSecond) \in Nat
  BY <1>1, <1>2
<1>4. QED
  BY <1>1, <1>2, <1>3 DEF StoredTime

\* Rounding is monotonic, so a rounded time below another was below it.
LEMMA RoundedOrder ==
  ASSUME NEW a \in Nat, NEW b \in Nat, StoredTime(a) < StoredTime(b)
  PROVE  a < b
<1> DEFINE k == TicksPerSecond
           p == a \div k
           q == b \div k
<1>1. k \in Nat /\ k > 0
  BY TimeAssumption
<1>2. p \in Nat /\ q \in Nat /\ StoredTime(a) = k * p /\ StoredTime(b) = k * q
  BY SecondOf
<1>3. a < k * p + k /\ k * q <= b
  BY <1>2, SecondOf
<1> HIDE DEF p, q, k
<1>4. p + 1 <= q
  BY <1>1, <1>2
<1>5. k * (p + 1) <= k * q
  BY <1>1, <1>2, <1>4
<1>6. k * (p + 1) = k * p + k
  BY <1>1, <1>2
<1>7. k * p \in Nat /\ k * q \in Nat
  BY <1>1, <1>2
<1>8. QED
  BY <1>1, <1>3, <1>5, <1>6, <1>7

\* A job that beat at or after the cutoff survives every stale finaliser.
THEOREM RecoveredNeverAbandonedHolds == StoreSpec => RecoveredNeverAbandoned
<1>1. StoreInv /\ [StoreNext]_storeVars
        => [\A j \in Jobs, cutoff \in 0..now :
              SetAbandonedIfStale(j, cutoff, NoOwner)
                => beatAt[j] = NoTime \/ beatAt[j] < cutoff]_storeVars
  <2> SUFFICES ASSUME StoreInv, NEW j \in Jobs, NEW cutoff \in 0..now,
                      SetAbandonedIfStale(j, cutoff, NoOwner), beatAt[j] # NoTime
               PROVE  beatAt[j] < cutoff
    OBVIOUS
  <2>1. beatAt[j] \in Nat /\ cutoff \in Nat /\ hbAt[j] = StoredTime(beatAt[j])
    BY TimeAssumption DEF StoreInv, StoreTypeOK, HeartbeatRounded, Ticks
  <2>2. hbAt[j] # NoTime
    BY <2>1, TimeAssumption, StoredTimeOnClock DEF StoreInv, StoreTypeOK, Ticks
  <2>3. StoredTime(beatAt[j]) < StoredTime(cutoff)
    BY <2>1, <2>2 DEF SetAbandonedIfStale, CanAbandon, Stale
  <2>4. QED
    BY <2>1, <2>3, RoundedOrder
<1>2. QED
  BY <1>1, StoreInvHolds, PTL DEF StoreSpec, RecoveredNeverAbandoned

\* A row the STALE filter lists is one the read calls STALE.
THEOREM ListedReadsStaleHolds == StoreSpec => []ListedReadsStale
<1>1. StoreTypeOK => ListedReadsStale
  <2> SUFFICES ASSUME StoreTypeOK, NEW j \in Jobs, NEW d \in 1..now, ListedStale(j, d)
               PROVE  ReadsStale(j, d)
    BY DEF ListedReadsStale
  <2>1. now \in Nat /\ now - d \in Nat /\ d \in Nat /\ now - d <= now
    BY TimeAssumption DEF StoreTypeOK, Ticks
  <2>2. (now - d) % TicksPerSecond >= 0 /\ (now - d) % TicksPerSecond \in Nat
    BY <2>1, TimeAssumption
  <2>3. CASE hbAt[j] = NoTime
    BY <2>3 DEF ListedStale, Stale, ReadsStale
  <2>4. CASE hbAt[j] # NoTime
    <3>1. hbAt[j] \in Nat
      BY <2>4, TimeAssumption DEF StoreTypeOK, Ticks
    <3>2. QED
      BY <2>1, <2>2, <2>4, <3>1 DEF ListedStale, Stale, ReadsStale, StoredTime
  <2>5. QED
    BY <2>3, <2>4
<1>2. QED
  BY <1>1, StoreTypeCorrect, PTL

-----------------------------------------------------------------------------
(* Refinement: the store implements the slots.                             *)

outcomeBar == [j \in Jobs |-> IF status[j] \in Terminal THEN status[j] ELSE "none"]
insideBar == [n \in Names |-> {j \in Jobs : JobName[j] = n /\ status[j] = "RUNNING"}]
aloneBar == {n \in Names : \E j \in Jobs :
               JobName[j] = n /\ status[j] = "RUNNING" /\ exclusive[j]}

\* The empty store is the empty set of slots.
LEMMA InitSlots == StoreInit => Slots!Init
BY NamesAssumption DEF StoreInit, Slots!Init, Terminal

\* A transition into a terminal status ends the job and, if it was the only
\* one inside, frees the slot.
LEMMA FinishEnds ==
  ASSUME StoreInv, NEW j \in Jobs, NEW s \in Terminal, status[j] \in Open,
         status' = [status EXCEPT ![j] = s], UNCHANGED <<owner, exclusive>>
  PROVE  Slots!End(j, s)
<1> USE NamesAssumption DEF StoreInv, StoreTypeOK, Open, Terminal
<1> DEFINE n == JobName[j]
<1>1. outcomeBar[j] = "none" /\ n \in Names
  BY DEF outcomeBar
<1>2. outcomeBar' = [outcomeBar EXCEPT ![j] = s]
  BY DEF outcomeBar
<1>3. insideBar' = [insideBar EXCEPT ![n] = insideBar[n] \ {j}]
  BY DEF insideBar
<1>4. aloneBar' = IF insideBar[n] = {j} THEN aloneBar \ {n} ELSE aloneBar
  <2>1. CASE insideBar[n] = {j}
    <3>1. \A k \in Jobs : JobName[k] = n /\ status[k] = "RUNNING" => k = j
      BY <2>1 DEF insideBar
    <3>2. aloneBar' = aloneBar \ {n}
      BY <3>1 DEF aloneBar
    <3>3. QED
      BY <2>1, <3>2
  <2>2. CASE insideBar[n] # {j}
    <3>1. status[j] = "RUNNING" => \E k \in Jobs \ {j} : JobName[k] = n /\ status[k] = "RUNNING"
      BY <2>2 DEF insideBar
    <3>2. status[j] = "RUNNING" => ~exclusive[j]
      BY <3>1 DEF ExclusiveSlot
    <3>3. aloneBar' = aloneBar
      BY <3>2 DEF aloneBar
    <3>4. QED
      BY <2>2, <3>3
  <2>3. QED
    BY <2>1, <2>2
<1>5. QED
  BY <1>1, <1>2, <1>3, <1>4 DEF Slots!End, outcomeBar, insideBar, aloneBar

\* acquireExclusive enters an empty slot alone.
LEMMA AcquireEntersAlone ==
  ASSUME StoreInv, NEW j \in Jobs, AcquireExclusive(j)
  PROVE  Slots!EnterAlone(j)
<1> USE NamesAssumption
    DEF StoreInv, StoreTypeOK, Terminal, AcquireExclusive, CanAcquireExclusive, heartbeatColumns
<1> DEFINE n == JobName[j]
<1>1. n \in Names /\ outcomeBar[j] = "none" /\ insideBar[n] = {}
  BY DEF outcomeBar, insideBar
<1>2. outcomeBar' = outcomeBar
  BY DEF outcomeBar
<1>3. insideBar' = [insideBar EXCEPT ![n] = {j}]
  BY DEF insideBar
<1>4. aloneBar' = aloneBar \cup {n}
  <2>1. \A k \in Jobs : status'[k] = "RUNNING" /\ exclusive'[k]
                        <=> k = j \/ (status[k] = "RUNNING" /\ exclusive[k])
    <3> HIDE DEF CanAcquireExclusive, heartbeatColumns, StoreInv
    <3>1. StoreTypeOK
      BY DEF StoreInv
    <3>2. QED
      BY <3>1
  <2> QED
    BY <1>1, <2>1 DEF aloneBar
<1>5. QED
  BY <1>1, <1>2, <1>3, <1>4 DEF Slots!EnterAlone, outcomeBar, insideBar, aloneBar

\* setRunning of a PENDING row enters a slot nobody holds alone.
LEMMA StartEnters ==
  ASSUME StoreInv, NEW j \in Jobs, NEW o \in MaybeOwner, NEW hb \in HeartbeatOption,
         SetRunning(j, o, hb), status[j] = "PENDING"
  PROVE  Slots!Enter(j, o)
<1> USE NamesAssumption
    DEF StoreInv, StoreTypeOK, Terminal, SetRunning, CanSetRunning, ExclusiveRival
<1> DEFINE n == JobName[j]
<1>1. /\ n \in Names /\ outcomeBar[j] = "none" /\ j \notin insideBar[n]
      /\ n \notin aloneBar
  BY DEF outcomeBar, insideBar, aloneBar
<1>2. outcomeBar' = outcomeBar
  BY DEF outcomeBar
<1>3. insideBar' = [insideBar EXCEPT ![n] = insideBar[n] \cup {j}]
  BY DEF insideBar
<1>4. aloneBar' = aloneBar
  BY DEF aloneBar, NotStartedIsBare
<1>5. owner' = [owner EXCEPT ![j] = o]
  BY DEF NotStartedIsBare
<1>6. QED
  BY <1>1, <1>2, <1>3, <1>4, <1>5 DEF Slots!Enter, outcomeBar, insideBar, aloneBar

\* setRunning of a RUNNING row claims it, or repeats the owner's claim.
LEMMA RestartClaims ==
  ASSUME StoreInv, NEW j \in Jobs, NEW o \in MaybeOwner, NEW hb \in HeartbeatOption,
         SetRunning(j, o, hb), status[j] = "RUNNING"
  PROVE  (o \in Owners /\ Slots!Claim(j, o)) \/ UNCHANGED Slots!slotVars
<1> USE NamesAssumption DEF StoreInv, StoreTypeOK, SetRunning, CanSetRunning
<1>1. status' = status
  OBVIOUS
<1>2. outcomeBar' = outcomeBar /\ insideBar' = insideBar /\ aloneBar' = aloneBar
  BY <1>1 DEF outcomeBar, insideBar, aloneBar
<1>3. CASE owner[j] = NoOwner /\ o # NoOwner
  <2>1. o \in Owners /\ j \in insideBar[JobName[j]]
    BY <1>3 DEF MaybeOwner, insideBar
  <2>2. owner' = [owner EXCEPT ![j] = o]
    BY <1>3
  <2>3. QED
    BY <1>2, <1>3, <2>1, <2>2 DEF Slots!Claim, outcomeBar, insideBar, aloneBar
<1>4. CASE owner[j] # NoOwner \/ o = NoOwner
  <2>1. owner' = owner
    BY <1>4
  <2>2. QED
    BY <1>2, <2>1 DEF Slots!slotVars, outcomeBar, insideBar, aloneBar
<1>5. QED
  BY <1>3, <1>4

\* Every step of the store is a step of the slots, or a stuttering one.
LEMMA NextSlots ==
  StoreInv /\ [StoreNext]_storeVars => [Slots!Next]_(Slots!slotVars)
<1> SUFFICES ASSUME StoreInv, [StoreNext]_storeVars
             PROVE  Slots!Next \/ UNCHANGED Slots!slotVars
  OBVIOUS
<1>1. ASSUME NEW j \in Jobs, NEW s \in Terminal, Slots!End(j, s)
      PROVE  Slots!Next
  BY <1>1 DEF Slots!Next
<1>2. ASSUME UNCHANGED <<status, owner, exclusive>>
      PROVE  UNCHANGED Slots!slotVars
  BY <1>2 DEF Slots!slotVars
<1>3. ASSUME NEW j \in Jobs, CreateJob(j)
      PROVE  UNCHANGED Slots!slotVars
  <2> USE <1>3 DEF CreateJob, StoreInv, StoreTypeOK, Terminal
  <2>1. outcomeBar' = outcomeBar
    BY DEF outcomeBar
  <2>2. insideBar' = insideBar /\ aloneBar' = aloneBar
    BY DEF insideBar, aloneBar
  <2>3. QED
    BY <2>1, <2>2 DEF Slots!slotVars, outcomeBar, insideBar, aloneBar
<1>4. ASSUME NEW j \in Jobs, AcquireExclusive(j)
      PROVE  Slots!Next
  BY <1>4, AcquireEntersAlone DEF Slots!Next
<1>5. ASSUME NEW j \in Jobs, NEW o \in MaybeOwner, NEW hb \in HeartbeatOption,
             SetRunning(j, o, hb)
      PROVE  Slots!Next \/ UNCHANGED Slots!slotVars
  <2>1. CASE status[j] = "PENDING"
    BY <1>5, <2>1, StartEnters DEF Slots!Next, MaybeOwner
  <2>2. CASE status[j] = "RUNNING"
    BY <1>5, <2>2, RestartClaims DEF Slots!Next
  <2>3. QED
    BY <1>5, <2>1, <2>2 DEF SetRunning, CanSetRunning
<1>6. ASSUME NEW j \in Jobs, NEW o \in MaybeOwner, NEW s \in Terminal,
             SetTerminal(j, o, s) \/ FinalizeJob(j, o, s)
      PROVE  Slots!Next
  BY <1>1, <1>6, FinishEnds DEF SetTerminal, FinalizeJob, CanFinish
<1>7. ASSUME NEW j \in Jobs, NEW o \in MaybeOwner, NEW cutoff \in 0..now,
             SetAbandonedIfStale(j, cutoff, o) \/ FinalizeAbandonedIfStale(j, cutoff, o)
      PROVE  Slots!Next
  BY <1>1, <1>7, FinishEnds
  DEF SetAbandonedIfStale, FinalizeAbandonedIfStale, CanAbandon, Stale, Open, Terminal
<1>8. ASSUME NEW j \in Jobs, SetAbandoned(j)
      PROVE  Slots!Next
  BY <1>1, <1>8, FinishEnds DEF SetAbandoned, Open, Terminal
<1>9. QED
  BY <1>2, <1>3, <1>4, <1>5, <1>6, <1>7, <1>8
  DEF StoreNext, StoreStep, storeVars, columns, heartbeatColumns, Heartbeat, EnableHeartbeat,
      AppendEvent, Tick

\* Every behaviour of the store is one of the abstract slots.
THEOREM StoreImplementsSlots == StoreSpec => ImplementsSlots
<1>1. QED
  BY InitSlots, NextSlots, StoreInvHolds, PTL DEF StoreSpec, ImplementsSlots, Slots!Spec
=============================================================================
