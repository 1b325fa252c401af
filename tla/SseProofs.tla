------------------------------ MODULE SseProofs -----------------------------
(***************************************************************************)
(* Proofs about Sse: its types, that the frames of a stream ascend, and    *)
(* that no row is left out where the runner and the reconciler are in the  *)
(* same process as the stream, or neither is.                              *)
(*                                                                         *)
(* The sort of drainLive() comes first: what Rank makes of a buffer, and   *)
(* that Sorted is a permutation that ascends.                              *)
(***************************************************************************)
EXTENDS Sse, FiniteSetTheorems, TLAPS

-----------------------------------------------------------------------------
(* The sort of drainLive().                                                *)

Earlier(b, k) == {j \in DOMAIN b : Before(b, j, k)}

\* Of two frames one is before the other, and what is before it is before the
\* other too.
LEMMA RankOrders ==
  ASSUME NEW b \in Seq(Nat), NEW i \in DOMAIN b, NEW k \in DOMAIN b
  PROVE  /\ Rank(b, i) \in DOMAIN b
         /\ Before(b, i, k) => Rank(b, i) < Rank(b, k)
         /\ i = k \/ Before(b, i, k) \/ Before(b, k, i)
<1> DEFINE D == DOMAIN b
<1>1. D = 1..Len(b) /\ Len(b) \in Nat
  OBVIOUS
<1>2. IsFiniteSet(D) /\ Cardinality(D) = Len(b)
  <2>1. 1 \in Int /\ Len(b) \in Int
    BY <1>1
  <2>2. /\ IsFiniteSet(1..Len(b))
        /\ Cardinality(1..Len(b)) = IF 1 > Len(b) THEN 0 ELSE Len(b) - 1 + 1
    BY <2>1, FS_Interval
  <2> QED
    BY <1>1, <2>2
<1>3. \A x \in D : /\ IsFiniteSet(Earlier(b, x)) /\ Cardinality(Earlier(b, x)) \in Nat
                   /\ Cardinality(Earlier(b, x)) < Len(b)
  <2> SUFFICES ASSUME NEW x \in D
               PROVE  /\ IsFiniteSet(Earlier(b, x)) /\ Cardinality(Earlier(b, x)) \in Nat
                      /\ Cardinality(Earlier(b, x)) < Len(b)
    OBVIOUS
  <2>1. Earlier(b, x) \in SUBSET D /\ x \notin Earlier(b, x)
    BY <1>1 DEF Earlier, Before
  <2>2. Earlier(b, x) # D
    BY <2>1
  <2>3. /\ IsFiniteSet(Earlier(b, x)) /\ Cardinality(Earlier(b, x)) <= Cardinality(D)
        /\ Cardinality(Earlier(b, x)) # Cardinality(D)
    BY <1>2, <2>1, <2>2, FS_Subset
  <2> QED
    BY <1>1, <1>2, <2>3, FS_CardinalityType
<1>4. Rank(b, i) = 1 + Cardinality(Earlier(b, i)) /\ Rank(b, k) = 1 + Cardinality(Earlier(b, k))
  BY DEF Rank, Earlier
<1>5. ASSUME Before(b, i, k)
      PROVE  Rank(b, i) < Rank(b, k)
  <2>1. Earlier(b, i) \in SUBSET Earlier(b, k)
    BY <1>1, <1>5 DEF Earlier, Before
  <2>2. i \in Earlier(b, k) /\ i \notin Earlier(b, i)
    BY <1>1, <1>5 DEF Earlier, Before
  <2>3. /\ Cardinality(Earlier(b, i)) <= Cardinality(Earlier(b, k))
        /\ Cardinality(Earlier(b, i)) # Cardinality(Earlier(b, k))
    BY <1>3, <2>1, <2>2, FS_Subset
  <2> QED
    BY <1>3, <1>4, <2>3
<1>6. Rank(b, i) \in D
  BY <1>1, <1>3, <1>4
<1>7. i = k \/ Before(b, i, k) \/ Before(b, k, i)
  BY <1>1 DEF Before
<1> QED
  BY <1>5, <1>6, <1>7

\* Every place is taken by exactly one frame.
LEMMA RankBijective ==
  ASSUME NEW b \in Seq(Nat), NEW n \in DOMAIN b
  PROVE  \E k \in DOMAIN b : Rank(b, k) = n
<1> DEFINE D == DOMAIN b
           r == [k \in D |-> Rank(b, k)]
<1>1. IsFiniteSet(D)
  <2>1. D = 1..Len(b) /\ Len(b) \in Nat
    OBVIOUS
  <2> QED
    BY <2>1, FS_Interval
<1>2. r \in [D -> D]
  BY RankOrders
<1>3. \A i, k \in D : Rank(b, i) = Rank(b, k) => i = k
  <2> SUFFICES ASSUME NEW i \in D, NEW k \in D, Rank(b, i) = Rank(b, k), i # k
               PROVE  FALSE
    OBVIOUS
  <2>1. /\ Before(b, i, k) \/ Before(b, k, i)
        /\ Before(b, i, k) => Rank(b, i) < Rank(b, k)
        /\ Rank(b, i) \in D
    BY RankOrders
  <2>2. Before(b, k, i) => Rank(b, k) < Rank(b, i)
    BY RankOrders
  <2>3. Rank(b, i) \in Nat
    BY <2>1
  <2> QED
    BY <2>1, <2>2, <2>3
<1>4. r \in Injection(D, D)
  BY <1>2, <1>3 DEF Injection, IsInjective
<1>5. r \in Surjection(D, D)
  BY <1>1, <1>4, FS_Injection
<1> QED
  BY <1>5 DEF Surjection

\* What the sort returns: the same frames in ascending order.
LEMMA SortedAscends ==
  ASSUME NEW b \in Seq(Nat)
  PROVE  /\ Sorted(b) \in Seq(Nat) /\ Len(Sorted(b)) = Len(b)
         /\ \A n \in DOMAIN b : \E k \in DOMAIN b : Sorted(b)[n] = b[k]
         /\ \A k \in DOMAIN b : \E n \in DOMAIN b : Sorted(b)[n] = b[k]
         /\ \A i, j \in DOMAIN b : i < j => Sorted(b)[i] <= Sorted(b)[j]
<1> DEFINE D == DOMAIN b
           At(n) == CHOOSE k \in D : Rank(b, k) = n
<1> HIDE DEF At
<1>1. D = 1..Len(b) /\ Len(b) \in Nat /\ \A k \in D : b[k] \in Nat
  OBVIOUS
<1>2. \A n \in D : At(n) \in D /\ Rank(b, At(n)) = n
  BY RankBijective DEF At
<1>3. Sorted(b) = [n \in D |-> b[At(n)]]
  BY DEF Sorted, At
<1>4. Sorted(b) \in Seq(Nat) /\ Len(Sorted(b)) = Len(b)
  <2>1. Sorted(b) \in [1..Len(b) -> Nat]
    BY <1>1, <1>2, <1>3
  <2> QED
    BY <1>1, <2>1
<1>5. ASSUME NEW n \in D PROVE \E k \in D : Sorted(b)[n] = b[k]
  BY <1>2, <1>3
<1>6. ASSUME NEW k \in D PROVE \E n \in D : Sorted(b)[n] = b[k]
  <2>1. Rank(b, k) \in D
    BY RankOrders
  <2>2. At(Rank(b, k)) \in D /\ Rank(b, At(Rank(b, k))) = Rank(b, k)
    BY <1>2, <2>1
  <2>3. At(Rank(b, k)) = k
    <3>1. /\ At(Rank(b, k)) = k \/ Before(b, At(Rank(b, k)), k) \/ Before(b, k, At(Rank(b, k)))
          /\ Before(b, At(Rank(b, k)), k) => Rank(b, At(Rank(b, k))) < Rank(b, k)
      BY <2>2, RankOrders
    <3>2. Before(b, k, At(Rank(b, k))) => Rank(b, k) < Rank(b, At(Rank(b, k)))
      BY <2>2, RankOrders
    <3>3. Rank(b, k) \in Nat
      BY <1>1, <2>1
    <3> QED
      BY <2>2, <3>1, <3>2, <3>3
  <2> QED
    BY <1>3, <2>1, <2>3
<1>7. ASSUME NEW i \in D, NEW j \in D, i < j PROVE Sorted(b)[i] <= Sorted(b)[j]
  <2>1. At(i) \in D /\ At(j) \in D /\ Rank(b, At(i)) = i /\ Rank(b, At(j)) = j
    BY <1>2
  <2>2. Before(b, At(j), At(i)) => j < i
    BY <2>1, RankOrders
  <2>3. At(i) = At(j) \/ Before(b, At(i), At(j)) \/ Before(b, At(j), At(i))
    BY <2>1, RankOrders
  <2>4. Before(b, At(i), At(j))
    BY <1>1, <1>7, <2>1, <2>2, <2>3
  <2>5. b[At(i)] <= b[At(j)]
    BY <1>1, <2>1, <2>4 DEF Before
  <2> QED
    BY <1>3, <2>5
<1> QED
  BY <1>4, <1>5, <1>6, <1>7
-----------------------------------------------------------------------------
(* Types.                                                                  *)

Rows == 1..Len(log)
NewRows == (afterId + 1)..Len(log)

Phases == {"idle", "replay", "replaying", "status", "catchup", "catching", "firstDrain",
           "terminalRead", "finishing", "lastDrain", "waiting", "returned"}

\* What is buffered, read or written are rows of the log, and only rows that
\* the client does not have are written.
TypeOK ==
  /\ here \in Placements
  /\ log \in Seq({"progress", "abandoned", "end"})
  /\ unemitted \in Seq(Rows)
  /\ pc \in Phases
  /\ jobTerminal \in BOOLEAN /\ closed \in BOOLEAN
  /\ afterId \in 0..Len(log) /\ lastId \in afterId..Len(log)
  /\ batch \in Seq(Rows) /\ mainFrame \in {0} \cup NewRows
  /\ liveBuffer \in Seq(Rows) /\ drainFrame \in {0} \cup NewRows
  /\ drainer \in {"none", "main", "live", "poll"}
  /\ polling \in {"no", "reading", "draining"}
  /\ polled \in Seq(Rows)
  /\ sent \in Seq(NewRows)

LEMMA MoreRows ==
  ASSUME NEW S, NEW T, S \subseteq T, NEW s \in Seq(S)
  PROVE  s \in Seq(T)
OBVIOUS

LEMMA ElementsType ==
  ASSUME NEW S, NEW T, NEW s \in Seq(S), \A i \in 1..Len(s) : s[i] \in T
  PROVE  s \in Seq(T)
OBVIOUS

LEMMA Appended ==
  ASSUME NEW S, NEW s \in Seq(S), NEW x \in S
  PROVE  /\ Append(s, x) \in Seq(S) /\ Len(Append(s, x)) = Len(s) + 1
         /\ \A i \in 1..Len(s) : Append(s, x)[i] = s[i]
         /\ Append(s, x)[Len(s) + 1] = x
OBVIOUS

LEMMA HeadTail ==
  ASSUME NEW S, NEW s \in Seq(S), s # <<>>
  PROVE  /\ Len(s) \in Nat \ {0} /\ Head(s) \in S /\ Head(s) = s[1]
         /\ Tail(s) \in Seq(S) /\ Len(Tail(s)) = Len(s) - 1
         /\ \A i \in 1..(Len(s) - 1) : Tail(s)[i] = s[i + 1]
OBVIOUS

LEMMA Concatenated ==
  ASSUME NEW S, NEW s \in Seq(S), NEW t \in Seq(S)
  PROVE  /\ s \o t \in Seq(S) /\ Len(s \o t) = Len(s) + Len(t)
         /\ \A i \in 1..Len(s) : (s \o t)[i] = s[i]
         /\ \A i \in 1..Len(t) : (s \o t)[Len(s) + i] = t[i]
OBVIOUS

\* What the store returns are rows behind the cursor.
LEMMA RowsAfterType ==
  ASSUME TypeOK
  PROVE  /\ RowsAfter(lastId) \in Seq(Rows)
         /\ Len(RowsAfter(lastId)) = Len(log) - lastId
         /\ \A k \in 1..(Len(log) - lastId) : RowsAfter(lastId)[k] = lastId + k
<1>1. Len(log) \in Nat /\ lastId \in 0..Len(log)
  BY DEF TypeOK
<1> QED
  BY <1>1 DEF RowsAfter, Rows

LEMMA SortedType ==
  ASSUME NEW n \in Nat, NEW b \in Seq(1..n)
  PROVE  Sorted(b) \in Seq(1..n)
<1>1. b \in Seq(Nat)
  BY MoreRows
<1>2. /\ Sorted(b) \in Seq(Nat) /\ Len(Sorted(b)) = Len(b)
      /\ \A k \in DOMAIN b : \E j \in DOMAIN b : Sorted(b)[k] = b[j]
  BY <1>1, SortedAscends
<1>3. ASSUME NEW k \in 1..Len(Sorted(b)) PROVE Sorted(b)[k] \in 1..n
  <2>1. k \in DOMAIN b
    BY <1>2
  <2>2. PICK j \in DOMAIN b : Sorted(b)[k] = b[j]
    BY <1>2, <2>1
  <2> QED
    BY <2>2
<1> QED
  BY <1>2, <1>3, ElementsType

LEMMA BufferSorted ==
  ASSUME TypeOK, NEW b \in Seq(Rows)
  PROVE  Sorted(b) \in Seq(Rows)
<1>1. Len(log) \in Nat
  BY DEF TypeOK
<1> QED
  BY <1>1, SortedType DEF Rows

\* A stream that nobody has attached.
AtStart ==
  /\ afterId = 0 /\ lastId = 0 /\ ~closed /\ ~jobTerminal /\ sent = <<>>
  /\ batch = <<>> /\ mainFrame = 0 /\ liveBuffer = <<>>
  /\ drainer = "none" /\ drainFrame = 0 /\ polling = "no" /\ polled = <<>>

TypeInv == TypeOK /\ (pc = "idle" => AtStart)

LEMMA TypeKept == TypeInv /\ [SseNext]_sseVars => TypeOK'
<1> SUFFICES ASSUME TypeOK, pc = "idle" => AtStart, [SseNext]_sseVars
             PROVE  TypeOK'
  BY DEF TypeInv
<1>1. CASE UNCHANGED sseVars
  BY <1>1 DEF sseVars, logVars, mainVars, drainVars, pollVars, TypeOK, Rows, NewRows
<1>2. ASSUME NEW type \in {"progress", "abandoned", "end"}, NEW local, Append1(type, local)
      PROVE  TypeOK'
  <2>1. /\ log' \in Seq({"progress", "abandoned", "end"}) /\ Len(log') = Len(log) + 1
        /\ Len(log) \in Nat
    BY <1>2, Appended DEF TypeOK, Append1
  <2>2. Rows \subseteq Rows' /\ NewRows \subseteq NewRows'
    <3>1. afterId' = afterId /\ afterId \in Nat
      BY <1>2, <2>1 DEF TypeOK, Append1, mainVars
    <3> QED
      BY <2>1, <3>1 DEF Rows, NewRows
  <2>3. unemitted' \in Seq(Rows')
    <3>1. unemitted \in Seq(Rows') /\ Len(log) + 1 \in Rows'
      BY <2>1, <2>2, MoreRows DEF TypeOK, Rows
    <3> QED
      BY <1>2, <3>1, Appended DEF Append1
  <2>4. /\ batch' \in Seq(Rows') /\ liveBuffer' \in Seq(Rows') /\ polled' \in Seq(Rows')
        /\ sent' \in Seq(NewRows')
    BY <1>2, <2>2, MoreRows DEF TypeOK, Append1, mainVars, drainVars, pollVars
  <2>5. afterId' \in 0..Len(log') /\ lastId' \in afterId'..Len(log')
    BY <1>2, <2>1 DEF TypeOK, Append1, mainVars
  <2> QED
    BY <1>2, <2>1, <2>2, <2>3, <2>4, <2>5
    DEF TypeOK, Append1, mainVars, drainVars, pollVars
<1>3. CASE Attach
  <2>1. PICK id \in 0..Len(log) : afterId' = id /\ lastId' = id
    BY <1>3 DEF Attach
  <2>2. sent = <<>> /\ mainFrame = 0 /\ drainFrame = 0
    BY <1>3 DEF Attach, AtStart
  <2>3. sent' \in Seq(NewRows')
    BY <1>3, <2>2 DEF Attach
  <2> QED
    BY <1>3, <2>1, <2>2, <2>3
    DEF TypeOK, Rows, NewRows, Attach, logVars, drainVars, pollVars, Phases
<1>4. CASE Emit
  <2>1. Head(unemitted) \in Rows /\ unemitted' \in Seq(Rows)
    BY <1>4, HeadTail DEF TypeOK, Emit
  <2>2. Append(liveBuffer, Head(unemitted)) \in Seq(Rows)
    BY <2>1, Appended DEF TypeOK
  <2>3. liveBuffer' \in Seq(Rows)
    BY <1>4, <2>2, BufferSorted DEF TypeOK, Emit, StartDrain, drainVars
  <2> QED
    BY <1>4, <2>1, <2>3
    DEF TypeOK, Rows, NewRows, Emit, mainVars, drainVars, pollVars, StartDrain
<1>5. CASE DrainNext
  <2>1. Head(liveBuffer) \in Rows /\ liveBuffer' \in Seq(Rows)
    BY <1>5, HeadTail DEF TypeOK, DrainNext
  <2>2. Fresh(Head(liveBuffer)) => Head(liveBuffer) \in NewRows
    BY <2>1 DEF TypeOK, Fresh, Rows, NewRows
  <2>3. sent' \in Seq(NewRows) /\ drainFrame' \in {0} \cup NewRows
    <3>1. sent \in Seq(NewRows) /\ drainFrame \in {0} \cup NewRows
      BY DEF TypeOK
    <3> QED
      BY <1>5, <2>2, <3>1, Appended DEF DrainNext
  <2> QED
    BY <1>5, <2>1, <2>3 DEF TypeOK, Rows, NewRows, DrainNext, mainVars, logVars, pollVars
<1>6. CASE DrainWritten
  BY <1>6 DEF TypeOK, Rows, NewRows, DrainWritten, mainVars, logVars, pollVars
<1>7. CASE DrainEnds
  BY <1>7 DEF TypeOK, Rows, NewRows, DrainEnds, mainVars, logVars
<1>8. CASE Read
  BY <1>8, RowsAfterType DEF TypeOK, Rows, NewRows, Read, logVars, drainVars, pollVars, Phases
<1>9. CASE MainNext
  <2>1. Head(batch) \in Rows /\ batch' \in Seq(Rows)
    <3>1. batch \in Seq(Rows) /\ batch # <<>> /\ batch' \in {<<>>, Tail(batch)}
      BY <1>9 DEF TypeOK, MainNext
    <3>2. <<>> \in Seq(Rows)
      OBVIOUS
    <3> QED
      BY <3>1, <3>2, HeadTail
  <2>2. Fresh(Head(batch)) => Head(batch) \in NewRows
    BY <2>1 DEF TypeOK, Fresh, Rows, NewRows
  <2>3. sent' \in Seq(NewRows) /\ mainFrame' \in {0} \cup NewRows
    <3>1. sent \in Seq(NewRows) /\ mainFrame \in {0} \cup NewRows
      BY DEF TypeOK
    <3>2. CASE UNCHANGED <<mainFrame, sent>> /\ NewRows' = NewRows
      BY <3>1, <3>2
    <3>3. CASE /\ Fresh(Head(batch)) /\ NewRows' = NewRows
               /\ mainFrame' = Head(batch) /\ sent' = Append(sent, Head(batch))
      BY <2>2, <3>1, <3>3, Appended
    <3>4. NewRows' = NewRows
      BY <1>9 DEF MainNext, NewRows, logVars
    <3> QED
      BY <1>9, <3>2, <3>3, <3>4, Zenon DEF MainNext
  <2>4. pc' \in Phases
    BY <1>9 DEF TypeOK, MainNext, Phases
  <2> QED
    BY <1>9, <2>1, <2>3, <2>4
    DEF TypeOK, Rows, NewRows, MainNext, logVars, drainVars, pollVars, Phases
<1>10. CASE MainWritten
  BY <1>10 DEF TypeOK, Rows, NewRows, MainWritten, logVars, drainVars, pollVars
<1>11. CASE ReplayDone \/ ReadStatus \/ FirstDrainDone \/ LastDrainDone \/ ResponseClosed
            \/ ClientLeaves
  BY <1>11 DEF TypeOK, Rows, NewRows, ReplayDone, ReadStatus, FirstDrainDone, LastDrainDone,
     ResponseClosed, ClientLeaves, logVars, mainVars, drainVars, pollVars, Phases, JobEnded
<1>12. CASE CatchUpDone
  BY <1>12, BufferSorted
  DEF TypeOK, Rows, NewRows, CatchUpDone, logVars, pollVars, Phases, StartDrain
<1>13. CASE FinishDone
  BY <1>13, BufferSorted
  DEF TypeOK, Rows, NewRows, FinishDone, logVars, drainVars, pollVars, Phases, StartDrain
<1>14. CASE PollReads
  BY <1>14, RowsAfterType DEF TypeOK, Rows, NewRows, PollReads, logVars, mainVars, drainVars
<1>15. CASE PollDelivers
  <2>1. liveBuffer \o polled \in Seq(Rows)
    BY Concatenated DEF TypeOK
  <2>2. liveBuffer' \in Seq(Rows)
    BY <1>15, <2>1, BufferSorted DEF PollDelivers, StartDrain
  <2>3. polled' \in Seq(Rows)
    BY <1>15 DEF PollDelivers
  <2> QED
    BY <1>15, <2>2, <2>3 DEF TypeOK, Rows, NewRows, PollDelivers, logVars, mainVars, StartDrain
<1> QED
  BY <1>1, <1>2, <1>3, <1>4, <1>5, <1>6, <1>7, <1>8, <1>9, <1>10, <1>11, <1>12, <1>13, <1>14,
     <1>15 DEF SseNext, Job, RunAppends, RunEnds, Abandon, DrainLive, Main, Poll

LEMMA InitType == SseInit => TypeInv
<1> SUFFICES ASSUME SseInit
             PROVE  TypeInv
  OBVIOUS
<1>1. Len(log) = 0 /\ <<>> \in Seq(Rows) /\ <<>> \in Seq(NewRows)
  BY DEF SseInit
<1>2. log \in Seq({"progress", "abandoned", "end"})
  BY DEF SseInit
<1>3. AtStart
  BY DEF SseInit, AtStart
<1>4. afterId \in 0..Len(log) /\ lastId \in afterId..Len(log)
  BY <1>1 DEF SseInit
<1> QED
  BY <1>1, <1>2, <1>3, <1>4 DEF SseInit, TypeInv, TypeOK, Phases
-----------------------------------------------------------------------------
(* The log only grows, and the cursor the client came with is fixed.       *)

LEMMA LogGrows ==
  ASSUME TypeInv, [SseNext]_sseVars
  PROVE  /\ Len(log) \in Nat /\ Len(log') \in Nat /\ Len(log) <= Len(log')
         /\ \A i \in 1..Len(log) : log'[i] = log[i]
         /\ Attach \/ afterId' = afterId
         /\ pc # "idle" => afterId' = afterId
<1>1. log \in Seq({"progress", "abandoned", "end"})
  BY DEF TypeInv, TypeOK
<1>2. ASSUME NEW type \in {"progress", "abandoned", "end"}, NEW local, Append1(type, local)
      PROVE  /\ Len(log') = Len(log) + 1
             /\ \A i \in 1..Len(log) : log'[i] = log[i]
             /\ afterId' = afterId
  BY <1>1, <1>2, Appended DEF Append1, mainVars
<1>3. CASE Job
  BY <1>1, <1>2, <1>3 DEF Job, RunAppends, RunEnds, Abandon
<1>4. CASE Attach
  BY <1>1, <1>4 DEF Attach, logVars
<1>5. CASE Emit
  BY <1>1, <1>5 DEF Emit, mainVars
<1>6. CASE DrainLive \/ Main \/ Poll \/ ClientLeaves \/ UNCHANGED sseVars
  BY <1>1, <1>6 DEF DrainLive, DrainNext, DrainWritten, DrainEnds, Main, Read, MainNext, MainWritten,
     ReplayDone, ReadStatus, CatchUpDone, FirstDrainDone, FinishDone, LastDrainDone,
     ResponseClosed, Poll, PollReads, PollDelivers, ClientLeaves, logVars, mainVars, sseVars
<1> QED
  BY <1>3, <1>4, <1>5, <1>6 DEF SseNext

LEMMA BehindEndStable ==
  ASSUME TypeInv, [SseNext]_sseVars, pc # "idle"
  PROVE  ResumedBehindEnd' = ResumedBehindEnd
<1>1. afterId \in 0..Len(log)
  BY DEF TypeInv, TypeOK
<1> QED
  BY <1>1, LogGrows DEF ResumedBehindEnd

LEMMA ClosedStays == [SseNext]_sseVars /\ closed => closed'
<1> SUFFICES ASSUME [SseNext]_sseVars, closed
             PROVE  closed'
  OBVIOUS
<1>1. CASE DrainWritten \/ MainWritten \/ LastDrainDone \/ ClientLeaves
  BY <1>1 DEF DrainWritten, MainWritten, LastDrainDone, ClientLeaves
<1>2. CASE UNCHANGED closed
  BY <1>2
<1> QED
  BY <1>1, <1>2 DEF SseNext, sseVars, Job, RunAppends, RunEnds, Abandon, Append1, Attach, Emit, DrainLive,
     DrainNext, DrainEnds, Main, Read, MainNext, ReplayDone, ReadStatus, CatchUpDone,
     FirstDrainDone, FinishDone, ResponseClosed, Poll, PollReads, PollDelivers

-----------------------------------------------------------------------------
(* Who is at work in which phase.                                          *)

\* Until the first drain the main sequence alone writes.  It writes again
\* behind it only for a client that resumed behind the end.
PhaseInv ==
  /\ drainer = "none" => drainFrame = 0
  /\ pc \notin {"replaying", "catching", "finishing"} => batch = <<>> /\ mainFrame = 0
  /\ Replaying => drainer = "none" /\ polling = "no"
  /\ polling # "no" => pc \in {"waiting", "returned"}
  /\ pc = "returned" => closed

LEMMA PhaseKept == TypeInv /\ PhaseInv /\ [SseNext]_sseVars => TypeInv' /\ PhaseInv'
<1> SUFFICES ASSUME TypeInv, PhaseInv, [SseNext]_sseVars
             PROVE  (pc' = "idle" => AtStart') /\ PhaseInv'
  BY TypeKept DEF TypeInv
<1> USE DEF PhaseInv, Replaying
<1>1. CASE UNCHANGED sseVars
  BY <1>1 DEF TypeInv, AtStart, sseVars, logVars, mainVars, drainVars, pollVars
<1>2. ASSUME NEW type, NEW local, Append1(type, local)
      PROVE  (pc' = "idle" => AtStart') /\ PhaseInv'
  BY <1>2 DEF TypeInv, AtStart, Append1, mainVars, drainVars, pollVars
<1>3. CASE Attach
  BY <1>3 DEF TypeInv, AtStart, Attach, drainVars, pollVars
<1>4. CASE Emit
  BY <1>4 DEF TypeInv, AtStart, Emit, mainVars, drainVars, pollVars, StartDrain, Subscribed
<1>5. CASE DrainNext \/ DrainWritten \/ DrainEnds
  BY <1>5 DEF TypeInv, AtStart, DrainNext, DrainWritten, DrainEnds, mainVars, logVars, pollVars
<1>6. CASE Read \/ MainNext \/ MainWritten
  BY <1>6 DEF TypeInv, AtStart, Read, MainNext, MainWritten, logVars, drainVars, pollVars
<1>7. CASE ReplayDone \/ ReadStatus \/ FirstDrainDone \/ LastDrainDone \/ ResponseClosed
            \/ ClientLeaves
  BY <1>7 DEF TypeInv, AtStart, ReplayDone, ReadStatus, FirstDrainDone, LastDrainDone,
     ResponseClosed, ClientLeaves, logVars, mainVars, drainVars, pollVars, BatchDone, Subscribed
<1>8. CASE CatchUpDone \/ FinishDone
  BY <1>8 DEF TypeInv, AtStart, CatchUpDone, FinishDone, BatchDone, StartDrain, logVars, drainVars, pollVars
<1>9. CASE PollReads \/ PollDelivers
  BY <1>9 DEF TypeInv, AtStart, PollReads, PollDelivers, StartDrain, logVars, mainVars, drainVars
<1> QED
  BY <1>1, <1>2, <1>3, <1>4, <1>5, <1>6, <1>7, <1>8, <1>9
  DEF SseNext, Job, RunAppends, RunEnds, Abandon, DrainLive, Main, Poll
-----------------------------------------------------------------------------
(* The end of the job.                                                     *)

\* The job ends once, and the status read says so only when it has.
EndInv ==
  /\ \A i, j \in DOMAIN log : log[i] \in TerminalEvents /\ log[j] \in TerminalEvents => i = j
  /\ jobTerminal => JobEnded

LEMMA EndKept == TypeInv /\ EndInv /\ [SseNext]_sseVars => EndInv' /\ (JobEnded => JobEnded')
<1> SUFFICES ASSUME TypeInv, EndInv, [SseNext]_sseVars
             PROVE  EndInv' /\ (JobEnded => JobEnded')
  OBVIOUS
<1>1. log \in Seq({"progress", "abandoned", "end"}) /\ Len(log) \in Nat /\ DOMAIN log = 1..Len(log)
  BY DEF TypeInv, TypeOK
<1>2. ASSUME NEW type \in {"progress", "abandoned", "end"}, NEW local, Append1(type, local),
             type \in TerminalEvents => ~JobEnded
      PROVE  EndInv' /\ (JobEnded => JobEnded')
  <2>1. /\ log' = Append(log, type) /\ jobTerminal' = jobTerminal
        /\ Len(log') = Len(log) + 1 /\ DOMAIN log' = 1..(Len(log) + 1)
        /\ \A i \in 1..Len(log) : log'[i] = log[i]
        /\ log'[Len(log) + 1] = type
    BY <1>1, <1>2, Appended DEF Append1, mainVars
  <2>2. JobEnded => JobEnded'
    BY <1>1, <2>1 DEF JobEnded
  <2>3. ASSUME NEW i \in DOMAIN log', NEW j \in DOMAIN log', log'[i] \in TerminalEvents,
               log'[j] \in TerminalEvents
        PROVE  i = j
    BY <1>1, <1>2, <2>1, <2>3 DEF EndInv, JobEnded
  <2> QED
    BY <2>1, <2>2, <2>3 DEF EndInv
<1>3. CASE Job
  BY <1>2, <1>3 DEF Job, RunAppends, RunEnds, Abandon, TerminalEvents
<1>4. CASE ReadStatus
  BY <1>4 DEF ReadStatus, EndInv, logVars, JobEnded
<1>5. CASE UNCHANGED <<log, jobTerminal>>
  BY <1>5 DEF EndInv, JobEnded
<1>6. CASE Attach \/ Emit \/ DrainLive \/ Poll \/ ClientLeaves \/ UNCHANGED sseVars
  BY <1>5, <1>6 DEF Attach, Emit, DrainLive, DrainNext, DrainWritten, DrainEnds, Poll, PollReads,
     PollDelivers, ClientLeaves, logVars, mainVars, sseVars
<1>7. CASE Main
  BY <1>4, <1>5, <1>7 DEF Main, Read, MainNext, MainWritten, ReplayDone, CatchUpDone,
     FirstDrainDone, FinishDone, LastDrainDone, ResponseClosed, logVars
<1> QED
  BY <1>3, <1>6, <1>7 DEF SseNext

-----------------------------------------------------------------------------
(* Replay and catch-up.                                                    *)

\* Where the main sequence is in the log, with the frame it is writing.
Cursor == IF mainFrame = 0 THEN lastId ELSE mainFrame

\* Replay and catch-up write row after row, so an end that lies behind the
\* client's cursor closes the stream; and if the status read says that the
\* job is terminal, the catch-up reads the end.
ReplayInv ==
  Replaying =>
    /\ mainFrame # 0 => mainFrame = lastId + 1
    /\ \A k \in 1..Len(batch) : batch[k] = Cursor + k
    /\ ~closed => \A i \in (afterId + 1)..lastId : log[i] \notin TerminalEvents
    /\ pc = "catching" /\ jobTerminal =>
         \A t \in DOMAIN log : log[t] \in TerminalEvents => t <= Cursor + Len(batch)

LEMMA ReplayKept ==
  TypeInv /\ PhaseInv /\ EndInv /\ ReplayInv /\ [SseNext]_sseVars => ReplayInv'
<1> SUFFICES ASSUME TypeInv, PhaseInv, EndInv, ReplayInv, [SseNext]_sseVars, Replaying'
             PROVE  ReplayInv'
  BY DEF ReplayInv
<1>0. /\ log \in Seq({"progress", "abandoned", "end"}) /\ Len(log) \in Nat
      /\ DOMAIN log = 1..Len(log)
      /\ batch \in Seq(Rows) /\ Len(batch) \in Nat
      /\ afterId \in 0..Len(log) /\ lastId \in afterId..Len(log)
      /\ mainFrame \in {0} \cup NewRows
  BY DEF TypeInv, TypeOK
<1>1. CASE UNCHANGED <<log, pc, afterId, lastId, jobTerminal, batch, mainFrame>>
           /\ (closed => closed')
  BY <1>1 DEF ReplayInv, Replaying, Cursor
<1>2. CASE Job
  <2>1. /\ UNCHANGED <<pc, afterId, lastId, jobTerminal, batch, mainFrame, closed>>
        /\ Len(log') = Len(log) + 1 /\ DOMAIN log' = 1..(Len(log) + 1)
        /\ \A i \in 1..Len(log) : log'[i] = log[i]
        /\ log'[Len(log) + 1] \in TerminalEvents => ~JobEnded
    <3>1. PICK type \in {"progress", "abandoned", "end"} :
            (\E local : Append1(type, local)) /\ (type \in TerminalEvents => ~JobEnded)
      <4>1. CASE RunAppends
        <5>1. Append1("progress", "runner" \in here) /\ "progress" \notin TerminalEvents
          BY <4>1 DEF RunAppends, TerminalEvents
        <5> QED
          BY <5>1, Zenon
      <4>2. CASE RunEnds
        <5>1. Append1("end", "runner" \in here) /\ ~JobEnded
          BY <4>2, Zenon DEF RunEnds
        <5> QED
          BY <5>1, Zenon
      <4>3. CASE Abandon
        <5>1. Append1("abandoned", "reconciler" \in here) /\ ~JobEnded
          BY <4>3, Zenon DEF Abandon
        <5> QED
          BY <5>1, Zenon
      <4> QED
        BY <1>2, <4>1, <4>2, <4>3, Zenon DEF Job
    <3>2. log' = Append(log, type) /\ UNCHANGED <<mainVars, lastId, closed>>
      BY <3>1 DEF Append1
    <3>3. /\ log' \in Seq({"progress", "abandoned", "end"}) /\ Len(log') = Len(log) + 1
          /\ \A i \in 1..Len(log) : log'[i] = log[i]
          /\ log'[Len(log) + 1] = type
      BY <1>0, <3>2, Appended
    <3> QED
      BY <1>0, <3>1, <3>2, <3>3 DEF mainVars
  <2>2. Replaying /\ Cursor' = Cursor
    BY <2>1 DEF Replaying, Cursor
  <2>3. ASSUME ~closed', NEW i \in (afterId' + 1)..lastId'
        PROVE  log'[i] \notin TerminalEvents
    <3>1. i \in 1..Len(log) /\ i \in (afterId + 1)..lastId /\ ~closed
      BY <1>0, <2>1, <2>3
    <3>2. log[i] \notin TerminalEvents
      BY <2>2, <3>1 DEF ReplayInv
    <3> QED
      BY <2>1, <3>1, <3>2
  <2>4. ASSUME pc' = "catching", jobTerminal', NEW t \in DOMAIN log', log'[t] \in TerminalEvents
        PROVE  t <= Cursor' + Len(batch')
    <3>1. JobEnded
      BY <2>1, <2>4 DEF EndInv
    <3>2. t \in DOMAIN log /\ log[t] \in TerminalEvents
      BY <1>0, <2>1, <2>4, <3>1
    <3> QED
      BY <2>1, <2>2, <2>4, <3>2 DEF ReplayInv
  <2> QED
    BY <2>1, <2>2, <2>3, <2>4 DEF ReplayInv
<1>3. CASE Attach
  BY <1>0, <1>3 DEF Attach, TypeInv, AtStart, ReplayInv, Cursor, logVars
<1>4. CASE Read
  <2>1. /\ batch' = RowsAfter(lastId) /\ mainFrame' = 0 /\ lastId' = lastId
    BY <1>4 DEF Read, Replaying, PhaseInv
  <2>2. /\ Len(batch') = Len(log) - lastId
        /\ \A k \in 1..Len(batch') : batch'[k] = lastId + k
    BY <1>0, <2>1, RowsAfterType DEF TypeInv
  <2> QED
    BY <1>0, <1>4, <2>1, <2>2 DEF Read, ReplayInv, Replaying, Cursor, PhaseInv, logVars
<1>5. CASE MainNext
  <2>1. /\ batch # <<>> /\ mainFrame = 0 /\ ~closed /\ Replaying
        /\ batch' = Tail(batch) /\ UNCHANGED <<log, pc, afterId, lastId, jobTerminal, closed>>
    BY <1>5 DEF MainNext, Replaying, logVars
  <2>2. /\ Head(batch) = lastId + 1 /\ Len(batch') = Len(batch) - 1
        /\ \A k \in 1..Len(batch') : batch'[k] = lastId + 1 + k
    BY <1>0, <2>1, HeadTail DEF ReplayInv, Cursor
  <2>3. mainFrame' = lastId + 1
    BY <1>0, <1>5, <2>1, <2>2 DEF MainNext, Fresh
  <2> QED
    BY <1>0, <2>1, <2>2, <2>3 DEF ReplayInv, Cursor
<1>6. CASE MainWritten
  <2>1. /\ mainFrame # 0 /\ lastId' = mainFrame /\ mainFrame' = 0 /\ Replaying
        /\ UNCHANGED <<log, pc, afterId, jobTerminal, batch>>
        /\ ~closed' => ~closed /\ log[mainFrame] \notin TerminalEvents
    BY <1>6 DEF MainWritten, Replaying, logVars, Closing
  <2>2. mainFrame = lastId + 1
    BY <2>1 DEF ReplayInv
  <2> QED
    BY <1>0, <2>1, <2>2 DEF ReplayInv, Cursor
<1>7. CASE ReplayDone \/ ReadStatus
  BY <1>0, <1>7 DEF ReplayDone, ReadStatus, ReplayInv, Replaying, Cursor, logVars, BatchDone
<1>8. CASE CatchUpDone \/ FirstDrainDone \/ FinishDone \/ LastDrainDone \/ ResponseClosed
  BY <1>8 DEF CatchUpDone, FirstDrainDone, FinishDone, LastDrainDone, ResponseClosed, Replaying
<1>9. CASE DrainWritten
  BY <1>9 DEF DrainWritten, PhaseInv, Replaying, mainVars
<1>10. CASE Emit \/ DrainNext \/ DrainEnds \/ Poll \/ ClientLeaves \/ UNCHANGED sseVars
  BY <1>1, <1>10 DEF Emit, DrainNext, DrainEnds, Poll, PollReads, PollDelivers, ClientLeaves,
     logVars, mainVars, sseVars
<1> QED
  BY <1>2, <1>3, <1>4, <1>5, <1>6, <1>7, <1>8, <1>9, <1>10 DEF SseNext, DrainLive, Main

\* Behind the first drain of a job known to be terminal the stream is closed,
\* unless the client resumed behind the end.
BehindInv ==
  /\ pc = "firstDrain" /\ jobTerminal /\ ~closed => ResumedBehindEnd
  /\ pc \in {"terminalRead", "finishing", "lastDrain"} => ResumedBehindEnd

LEMMA BehindKept ==
  TypeInv /\ PhaseInv /\ EndInv /\ ReplayInv /\ BehindInv /\ [SseNext]_sseVars => BehindInv'
<1> SUFFICES ASSUME TypeInv, PhaseInv, EndInv, ReplayInv, BehindInv, [SseNext]_sseVars
             PROVE  BehindInv'
  OBVIOUS
<1>1. CASE Attach
  BY <1>1 DEF Attach, BehindInv
<1>2. CASE CatchUpDone
  <2>1. /\ pc = "catching" /\ batch = <<>> /\ mainFrame = 0 /\ Len(batch) = 0
        /\ UNCHANGED <<log, afterId, jobTerminal, closed>> /\ pc' = "firstDrain"
    BY <1>2 DEF CatchUpDone, BatchDone, logVars
  <2>2. ASSUME jobTerminal, ~closed
        PROVE  ResumedBehindEnd'
    <3>1. PICK t \in DOMAIN log : log[t] \in TerminalEvents
      BY <2>2 DEF EndInv, JobEnded
    <3>2. t <= lastId /\ t \notin (afterId + 1)..lastId /\ t \in 1..Len(log)
      BY <2>1, <2>2, <3>1 DEF ReplayInv, Replaying, Cursor, TypeInv, TypeOK
    <3>3. t \in 1..afterId
      BY <3>2 DEF TypeInv, TypeOK
    <3> QED
      BY <2>1, <3>1, <3>3 DEF ResumedBehindEnd
  <2> QED
    BY <2>1, <2>2 DEF BehindInv
<1>3. CASE pc = "idle" /\ ~Attach
  <2>1. pc' = "idle"
    BY <1>3 DEF SseNext, sseVars, Job, RunAppends, RunEnds, Abandon, Append1, Emit, DrainLive, DrainNext,
       DrainWritten, DrainEnds, Main, Read, MainNext, MainWritten, ReplayDone, ReadStatus,
       CatchUpDone, FirstDrainDone, FinishDone, LastDrainDone, ResponseClosed, Poll, PollReads,
       PollDelivers, ClientLeaves, mainVars, TypeInv, AtStart, BatchDone
  <2> QED
    BY <2>1 DEF BehindInv
<1>4. CASE pc # "idle" /\ ~CatchUpDone
  <2>1. ResumedBehindEnd' = ResumedBehindEnd
    BY <1>4, BehindEndStable
  <2>2. CASE FirstDrainDone
    BY <2>1, <2>2 DEF FirstDrainDone, BehindInv
  <2>3. CASE FinishDone \/ LastDrainDone \/ ResponseClosed \/ ReplayDone \/ ReadStatus \/ Read
    BY <2>1, <2>3 DEF FinishDone, LastDrainDone, ResponseClosed, ReplayDone, ReadStatus, Read,
       BehindInv
  <2>4. CASE UNCHANGED <<pc, jobTerminal>> /\ (closed => closed')
    BY <2>1, <2>4 DEF BehindInv
  <2>5. CASE Job \/ Emit \/ DrainLive \/ Poll \/ ClientLeaves \/ UNCHANGED sseVars \/ MainWritten
    <3>1. UNCHANGED <<pc, jobTerminal>>
      BY <2>5 DEF Job, RunAppends, RunEnds, Abandon, Append1, Emit, DrainLive, DrainNext,
         DrainWritten, DrainEnds, Poll, PollReads, PollDelivers, ClientLeaves, mainVars, sseVars,
         MainWritten
    <3>2. closed => closed'
      BY <2>5, ClosedStays
    <3> QED
      BY <2>4, <3>1, <3>2
  <2>6. CASE MainNext
    <3>1. pc' = "returned" \/ UNCHANGED <<pc, jobTerminal, closed>>
      BY <2>6 DEF MainNext
    <3>2. CASE pc' = "returned"
      BY <3>2 DEF BehindInv
    <3> QED
      BY <2>4, <3>1, <3>2
  <2> QED
    BY <1>4, <2>2, <2>3, <2>5, <2>6 DEF SseNext, Main, Attach
<1> QED
  BY <1>1, <1>2, <1>3, <1>4 DEF CatchUpDone
-----------------------------------------------------------------------------
(* The frames that were written.                                           *)

\* The end is the last frame: the stream is closed, or will be once its write
\* is done.  For a client that did not resume behind it, one frame is written
\* at a time, beyond all those before it.
FramesInv ==
  /\ \A i \in 1..Len(sent) : log[sent[i]] \in TerminalEvents =>
       i = Len(sent) /\ (closed \/ sent[i] = mainFrame \/ sent[i] = drainFrame)
  /\ ~ResumedBehindEnd =>
       /\ mainFrame = 0 \/ drainFrame = 0
       /\ mainFrame # 0 => mainFrame > lastId
       /\ drainFrame # 0 => drainFrame > lastId
       /\ \A i \in 1..Len(sent) : sent[i] <= lastId \/ sent[i] = mainFrame \/ sent[i] = drainFrame
       /\ \A i, k \in 1..Len(sent) : i < k => sent[i] < sent[k]

\* A client that has seen the end gets no other.
LEMMA EndSeen ==
  ASSUME TypeInv, EndInv, ResumedBehindEnd, NEW row \in NewRows
  PROVE  log[row] \notin TerminalEvents
<1>1. /\ DOMAIN log = 1..Len(log) /\ Len(log) \in Nat /\ afterId \in 0..Len(log)
  BY DEF TypeInv, TypeOK
<1>2. PICK i \in 1..afterId : log[i] \in TerminalEvents
  BY DEF ResumedBehindEnd
<1>3. row \in DOMAIN log /\ i \in DOMAIN log /\ row # i
  BY <1>1, <1>2 DEF NewRows
<1> QED
  BY <1>2, <1>3 DEF EndInv

\* What the step that begins the write of a frame does.
FrameBegins(frame) ==
  /\ ~closed /\ frame \in NewRows /\ frame > lastId
  /\ sent' = Append(sent, frame)
  /\ UNCHANGED <<log, afterId, lastId, closed>>
  /\ \/ mainFrame = 0 /\ mainFrame' = frame /\ UNCHANGED drainFrame
     \/ drainFrame = 0 /\ drainFrame' = frame /\ UNCHANGED mainFrame
  /\ ~ResumedBehindEnd => mainFrame = 0 /\ drainFrame = 0

\* What the step that ends it does.
FrameEnds(frame) ==
  /\ frame # 0 /\ lastId' = frame
  /\ closed \/ log[frame] \in TerminalEvents => closed'
  /\ UNCHANGED <<log, afterId, sent>>
  /\ \/ mainFrame = frame /\ mainFrame' = 0 /\ UNCHANGED drainFrame
     \/ drainFrame = frame /\ drainFrame' = 0 /\ UNCHANGED mainFrame

LEMMA FrameBeginsKeeps ==
  ASSUME TypeInv, TypeOK', EndInv, EndInv', FramesInv, NEW frame, FrameBegins(frame)
  PROVE  FramesInv'
<1>1. /\ sent \in Seq(NewRows) /\ frame \in NewRows /\ Len(sent) \in Nat
      /\ afterId \in Nat /\ lastId \in Nat /\ Len(log) \in Nat
      /\ \A i \in 1..Len(sent) : sent[i] \in NewRows
  BY DEF TypeInv, TypeOK, FrameBegins
<1>2. /\ Len(sent') = Len(sent) + 1
      /\ \A i \in 1..Len(sent) : sent'[i] = sent[i]
      /\ sent'[Len(sent) + 1] = frame
  BY <1>1, Appended DEF FrameBegins
<1>3. /\ ResumedBehindEnd' = ResumedBehindEnd
      /\ UNCHANGED <<log, lastId, closed>>
  BY DEF FrameBegins, ResumedBehindEnd
<1>4. CASE ResumedBehindEnd
  <2>1. \A row \in NewRows : log[row] \notin TerminalEvents
    BY <1>4, EndSeen
  <2>2. \A i \in 1..Len(sent') : log[sent'[i]] \notin TerminalEvents
    BY <1>1, <1>2, <2>1
  <2> QED
    BY <1>3, <1>4, <2>2 DEF FramesInv
<1>5. CASE ~ResumedBehindEnd
  <2>1. mainFrame = 0 /\ drainFrame = 0 /\ ~closed /\ frame > lastId /\ frame # 0
    BY <1>1, <1>5 DEF FrameBegins
  <2>2. \/ mainFrame' = frame /\ drainFrame' = 0
        \/ drainFrame' = frame /\ mainFrame' = 0
    BY <2>1 DEF FrameBegins
  <2>3. \A i \in 1..Len(sent) : sent[i] # 0 /\ sent[i] \in Nat
    BY <1>1 DEF NewRows
  <2>4. \A i \in 1..Len(sent) : log[sent[i]] \notin TerminalEvents /\ sent[i] <= lastId
    BY <1>5, <2>1, <2>3 DEF FramesInv
  <2>5. \A i \in 1..Len(sent') : log'[sent'[i]] \in TerminalEvents =>
           i = Len(sent') /\ (sent'[i] = mainFrame' \/ sent'[i] = drainFrame')
    BY <1>1, <1>2, <1>3, <2>2, <2>4
  <2>6. \A i \in 1..Len(sent') :
           sent'[i] <= lastId' \/ sent'[i] = mainFrame' \/ sent'[i] = drainFrame'
    BY <1>1, <1>2, <1>3, <2>2, <2>4
  <2>7. ASSUME NEW i \in 1..Len(sent'), NEW k \in 1..Len(sent'), i < k
        PROVE  sent'[i] < sent'[k]
    <3>1. i \in 1..Len(sent) /\ sent'[i] = sent[i] /\ sent[i] <= lastId /\ sent[i] \in Nat
      BY <1>1, <1>2, <2>3, <2>4, <2>7
    <3>2. CASE k = Len(sent) + 1
      BY <1>1, <1>2, <2>1, <3>1, <3>2 DEF NewRows
    <3>3. CASE k \in 1..Len(sent)
      BY <1>2, <1>5, <2>7, <3>1, <3>3 DEF FramesInv
    <3> QED
      BY <1>1, <1>2, <3>2, <3>3
  <2>8. /\ mainFrame' # 0 => mainFrame' > lastId'
        /\ drainFrame' # 0 => drainFrame' > lastId'
    BY <1>3, <2>1, <2>2
  <2> QED
    BY <2>2, <2>5, <2>6, <2>7, <2>8 DEF FramesInv
<1> QED
  BY <1>4, <1>5

LEMMA FrameEndsKeeps ==
  ASSUME TypeInv, FramesInv, NEW frame, FrameEnds(frame)
  PROVE  FramesInv'
<1>1. /\ sent \in Seq(NewRows) /\ Len(sent) \in Nat /\ lastId \in Nat
      /\ mainFrame \in {0} \cup NewRows /\ drainFrame \in {0} \cup NewRows
      /\ afterId \in Nat /\ Len(log) \in Nat
      /\ \A i \in 1..Len(sent) : sent[i] \in NewRows
  BY DEF TypeInv, TypeOK
<1>2. /\ ResumedBehindEnd' = ResumedBehindEnd /\ UNCHANGED <<log, sent>>
      /\ lastId' = frame /\ frame \in NewRows
  BY <1>1 DEF FrameEnds, ResumedBehindEnd
<1>3. \A i \in 1..Len(sent) : sent[i] # 0 /\ sent[i] \in Nat
  BY <1>1 DEF NewRows
<1>4. ASSUME NEW i \in 1..Len(sent), log[sent[i]] \in TerminalEvents
      PROVE  i = Len(sent) /\ (closed' \/ sent[i] = mainFrame' \/ sent[i] = drainFrame')
  BY <1>4 DEF FramesInv, FrameEnds
<1>5. CASE ~ResumedBehindEnd
  <2>1. frame > lastId /\ mainFrame' = 0 /\ drainFrame' = 0
    BY <1>5 DEF FramesInv, FrameEnds
  <2>2. ASSUME NEW i \in 1..Len(sent) PROVE sent[i] <= frame
    <3>1. sent[i] <= lastId \/ sent[i] = mainFrame \/ sent[i] = drainFrame
      BY <1>5 DEF FramesInv
    <3>2. sent[i] <= lastId \/ sent[i] = frame
      BY <1>3, <1>5, <3>1 DEF FramesInv, FrameEnds
    <3> QED
      BY <1>1, <1>2, <1>3, <2>1, <3>2 DEF NewRows
  <2> QED
    BY <1>2, <1>4, <1>5, <2>1, <2>2 DEF FramesInv
<1> QED
  BY <1>2, <1>4, <1>5 DEF FramesInv

SseInv == TypeInv /\ PhaseInv /\ EndInv /\ ReplayInv /\ BehindInv

\* Every step begins a write, ends one, or leaves the frames alone.
LEMMA StepOfFrames ==
  ASSUME SseInv, [SseNext]_sseVars
  PROVE  \/ \E frame : FrameBegins(frame) \/ FrameEnds(frame)
         \/ Attach
         \/ UNCHANGED <<afterId, lastId, mainFrame, drainFrame, sent>>
<1>1. CASE MainNext
  <2>1. batch \in Seq(Rows) /\ batch # <<>> /\ mainFrame = 0
    BY <1>1 DEF MainNext, SseInv, TypeInv, TypeOK
  <2>2. Head(batch) \in Rows
    BY <2>1, HeadTail
  <2>3. CASE ~closed /\ Fresh(Head(batch))
    <3>1. Head(batch) \in NewRows /\ Head(batch) > lastId
      BY <2>2, <2>3 DEF Fresh, SseInv, TypeInv, TypeOK, Rows, NewRows
    <3>2. ~ResumedBehindEnd => drainFrame = 0
      BY <2>1 DEF SseInv, PhaseInv, BehindInv, Replaying
    <3> QED
      BY <1>1, <2>1, <2>3, <3>1, <3>2 DEF MainNext, FrameBegins, logVars, drainVars
  <2> QED
    BY <1>1, <2>3 DEF MainNext, drainVars
<1>2. CASE DrainNext
  <2>1. liveBuffer \in Seq(Rows) /\ liveBuffer # <<>> /\ drainFrame = 0 /\ ~closed
    BY <1>2 DEF DrainNext, SseInv, TypeInv, TypeOK
  <2>2. Head(liveBuffer) \in Rows
    BY <2>1, HeadTail
  <2>3. CASE Fresh(Head(liveBuffer))
    <3>1. Head(liveBuffer) \in NewRows /\ Head(liveBuffer) > lastId
      BY <2>2, <2>3 DEF Fresh, SseInv, TypeInv, TypeOK, Rows, NewRows
    <3>2. ~ResumedBehindEnd => mainFrame = 0
      BY <1>2 DEF DrainNext, SseInv, PhaseInv, BehindInv, Replaying
    <3> QED
      BY <1>2, <2>1, <2>3, <3>1, <3>2 DEF DrainNext, FrameBegins, logVars, mainVars
  <2> QED
    BY <1>2, <2>3 DEF DrainNext, mainVars
<1>3. CASE MainWritten
  <2>1. FrameEnds(mainFrame)
    BY <1>3 DEF MainWritten, FrameEnds, Closing, logVars, drainVars
  <2> QED
    BY <2>1
<1>4. CASE DrainWritten
  <2>1. FrameEnds(drainFrame)
    BY <1>4 DEF DrainWritten, FrameEnds, Closing, logVars, mainVars
  <2> QED
    BY <2>1
<1>5. CASE Job \/ Emit \/ DrainEnds \/ Poll \/ ClientLeaves \/ UNCHANGED sseVars
  BY <1>5 DEF Job, RunAppends, RunEnds, Abandon, Append1, Emit, DrainEnds, Poll, PollReads,
     PollDelivers, ClientLeaves, StartDrain, logVars, mainVars, drainVars, sseVars
<1>6. CASE Read \/ ReplayDone \/ ReadStatus \/ FirstDrainDone \/ LastDrainDone \/ ResponseClosed
  BY <1>6 DEF Read, ReplayDone, ReadStatus, FirstDrainDone, LastDrainDone, ResponseClosed,
     drainVars
<1>7. CASE CatchUpDone \/ FinishDone
  BY <1>7 DEF CatchUpDone, FinishDone, StartDrain, drainVars
<1> QED
  BY <1>1, <1>2, <1>3, <1>4, <1>5, <1>6, <1>7 DEF SseNext, DrainLive, Main

LEMMA FramesKept == SseInv /\ SseInv' /\ FramesInv /\ [SseNext]_sseVars => FramesInv'
<1> SUFFICES ASSUME SseInv, SseInv', FramesInv, [SseNext]_sseVars
             PROVE  FramesInv'
  OBVIOUS
<1>1. CASE \E frame : FrameBegins(frame) \/ FrameEnds(frame)
  BY <1>1, FrameBeginsKeeps, FrameEndsKeeps DEF SseInv, TypeInv
<1>2. CASE Attach
  <2>1. sent' = <<>> /\ mainFrame' = 0 /\ drainFrame' = 0 /\ Len(sent') = 0
    BY <1>2 DEF Attach, drainVars, SseInv, TypeInv, AtStart
  <2> QED
    BY <2>1 DEF FramesInv
<1>3. CASE UNCHANGED <<afterId, lastId, mainFrame, drainFrame, sent>>
  <2>1. /\ \A i \in 1..Len(log) : log'[i] = log[i]
        /\ Len(log) \in Nat /\ afterId \in 0..Len(log)
        /\ \A i \in 1..Len(sent) : sent[i] \in 1..Len(log)
    <3>1. sent \in Seq(NewRows) /\ afterId \in 0..Len(log) /\ TypeInv
      BY DEF SseInv, TypeInv, TypeOK
    <3>2. Len(log) \in Nat /\ \A i \in 1..Len(log) : log'[i] = log[i]
      BY <3>1, LogGrows
    <3>3. \A i \in 1..Len(sent) : sent[i] \in 1..Len(log)
      BY <3>1, <3>2 DEF NewRows
    <3> QED
      BY <3>1, <3>2, <3>3
  <2>2. ResumedBehindEnd' = ResumedBehindEnd
    BY <1>3, <2>1 DEF ResumedBehindEnd
  <2> QED
    BY <1>3, <2>1, <2>2, ClosedStays DEF FramesInv
<1> QED
  BY <1>1, <1>2, <1>3, StepOfFrames

LEMMA InitInv == SseInit => SseInv /\ FramesInv
<1> SUFFICES ASSUME SseInit
             PROVE  SseInv /\ FramesInv
  OBVIOUS
<1>1. TypeInv
  BY InitType
<1>2. PhaseInv /\ EndInv /\ ReplayInv /\ BehindInv
  BY DEF SseInit, PhaseInv, EndInv, ReplayInv, BehindInv, Replaying
<1>3. FramesInv
  BY DEF SseInit, FramesInv
<1> QED
  BY <1>1, <1>2, <1>3 DEF SseInv

LEMMA SseInvHolds == SseSpec => [](SseInv /\ FramesInv)
<1>1. SseInv /\ FramesInv /\ [SseNext]_sseVars => (SseInv /\ FramesInv)'
  BY PhaseKept, EndKept, ReplayKept, BehindKept, FramesKept DEF SseInv
<1> QED
  BY InitInv, <1>1, PTL DEF SseSpec

\* What the stream keeps and has read are rows of the log, and the frames it
\* writes are rows the client does not have, for every length of the log.
THEOREM SseTypeCorrect == SseSpec => []TypeOK
<1>1. SseInv /\ FramesInv => TypeOK
  BY DEF SseInv, TypeInv
<1> QED
  BY <1>1, SseInvHolds, PTL

\* Frames ascend and none follows the end, wherever run and reconciler are,
\* however many events there are and however many rows the poll buffers.
THEOREM FramesAscendHolds == SseSpec => []FramesAscend
<1>1. SseInv /\ FramesInv => FramesAscend
  <2> SUFFICES ASSUME SseInv, FramesInv, NEW i \in DOMAIN sent, NEW k \in DOMAIN sent, i < k
               PROVE  (ResumedBehindEnd \/ sent[i] < sent[k]) /\ log[sent[i]] \notin TerminalEvents
    BY DEF FramesAscend
  <2>1. i \in 1..Len(sent) /\ k \in 1..Len(sent) /\ Len(sent) \in Nat
    BY DEF SseInv, TypeInv, TypeOK
  <2>2. i # Len(sent)
    BY <2>1
  <2> QED
    BY <2>1, <2>2 DEF FramesInv
<1> QED
  BY <1>1, SseInvHolds, PTL
-----------------------------------------------------------------------------
(* Sequences of rows without a gap.                                        *)

Has(s, m) == \E j \in 1..Len(s) : s[j] = m

\* Every row beyond a and before one of s is in S or earlier in s.
GapFree(S, a, s) ==
  \A k \in 1..Len(s) : \A m \in (a + 1)..(s[k] - 1) : m \in S \/ \E j \in 1..(k - 1) : s[j] = m

LEMMA GapFreeMore ==
  ASSUME NEW S, NEW T, S \subseteq T, NEW a, NEW s, GapFree(S, a, s)
  PROVE  GapFree(T, a, s)
BY DEF GapFree

LEMMA GapFreeHead ==
  ASSUME NEW S, NEW a \in Nat, NEW s \in Seq(Nat), s # <<>>, GapFree(S, a, s)
  PROVE  \A m \in (a + 1)..(Head(s) - 1) : m \in S
<1>1. Len(s) \in Nat \ {0} /\ Head(s) = s[1]
  BY HeadTail
<1> QED
  BY <1>1 DEF GapFree

LEMMA GapFreeTail ==
  ASSUME NEW S, NEW a \in Nat, NEW s \in Seq(Nat), s # <<>>, GapFree(S, a, s),
         Head(s) \in S \/ Head(s) <= a
  PROVE  GapFree(S, a, Tail(s))
<1>1. /\ Len(s) \in Nat \ {0} /\ Head(s) = s[1] /\ Len(Tail(s)) = Len(s) - 1
      /\ \A i \in 1..(Len(s) - 1) : Tail(s)[i] = s[i + 1]
      /\ Head(s) \in Nat
  BY HeadTail
<1> SUFFICES ASSUME NEW k \in 1..Len(Tail(s)), NEW m \in (a + 1)..(Tail(s)[k] - 1), m \notin S
             PROVE  \E j \in 1..(k - 1) : Tail(s)[j] = m
  BY DEF GapFree
<1>2. k + 1 \in 1..Len(s) /\ m \in (a + 1)..(s[k + 1] - 1)
  BY <1>1
<1>3. PICK j \in 1..k : s[j] = m
  BY <1>2 DEF GapFree
<1>4. j # 1
  BY <1>1, <1>3
<1>5. j - 1 \in 1..(k - 1) /\ Tail(s)[j - 1] = m
  <2>1. j - 1 \in 1..(k - 1) /\ j - 1 \in 1..(Len(s) - 1)
    BY <1>1, <1>4
  <2>2. Tail(s)[j - 1] = s[(j - 1) + 1] /\ (j - 1) + 1 = j
    BY <1>1, <2>1
  <2> QED
    BY <1>3, <2>1, <2>2
<1> QED
  BY <1>5

LEMMA GapFreeConcatenated ==
  ASSUME NEW S, NEW a \in Nat, NEW s \in Seq(Nat), NEW t \in Seq(Nat),
         GapFree(S, a, s), GapFree(S, a, t)
  PROVE  GapFree(S, a, s \o t)
<1>1. /\ Len(s) \in Nat /\ Len(t) \in Nat /\ Len(s \o t) = Len(s) + Len(t)
      /\ \A i \in 1..Len(s) : (s \o t)[i] = s[i]
      /\ \A i \in 1..Len(t) : (s \o t)[Len(s) + i] = t[i]
  BY Concatenated
<1> SUFFICES ASSUME NEW k \in 1..Len(s \o t), NEW m \in (a + 1)..((s \o t)[k] - 1), m \notin S
             PROVE  \E j \in 1..(k - 1) : (s \o t)[j] = m
  BY DEF GapFree
<1>2. CASE k \in 1..Len(s)
  BY <1>1, <1>2 DEF GapFree
<1>3. CASE k \notin 1..Len(s)
  <2>1. k - Len(s) \in 1..Len(t) /\ Len(s) + (k - Len(s)) = k
    BY <1>1, <1>3
  <2>2. (s \o t)[k] = t[k - Len(s)]
    BY <1>1, <2>1
  <2>3. PICK j \in 1..((k - Len(s)) - 1) : t[j] = m
    BY <2>1, <2>2 DEF GapFree
  <2>4. Len(s) + j \in 1..(k - 1) /\ (s \o t)[Len(s) + j] = m
    BY <1>1, <2>1, <2>3
  <2> QED
    BY <2>4
<1> QED
  BY <1>2, <1>3

LEMMA GapFreeAppended ==
  ASSUME NEW S, NEW a \in Nat, NEW s \in Seq(Nat), NEW x \in Nat,
         GapFree(S, a, s), \A m \in (a + 1)..(x - 1) : m \in S \/ Has(s, m)
  PROVE  GapFree(S, a, Append(s, x))
<1>1. /\ Len(s) \in Nat /\ Len(Append(s, x)) = Len(s) + 1
      /\ \A i \in 1..Len(s) : Append(s, x)[i] = s[i]
      /\ Append(s, x)[Len(s) + 1] = x
  BY Appended
<1> SUFFICES ASSUME NEW k \in 1..Len(Append(s, x)), NEW m \in (a + 1)..(Append(s, x)[k] - 1),
                    m \notin S
             PROVE  \E j \in 1..(k - 1) : Append(s, x)[j] = m
  BY DEF GapFree
<1>2. CASE k \in 1..Len(s)
  BY <1>1, <1>2 DEF GapFree
<1>3. CASE k = Len(s) + 1
  BY <1>1, <1>3 DEF Has
<1> QED
  BY <1>1, <1>2, <1>3

\* It is the sort that brings the rows into an order that has none.
LEMMA GapFreeSorted ==
  ASSUME NEW S, NEW a \in Nat, NEW s \in Seq(Nat),
         \A k \in 1..Len(s) : \A m \in (a + 1)..(s[k] - 1) : m \in S \/ Has(s, m)
  PROVE  GapFree(S, a, Sorted(s))
<1>0. Len(s) \in Nat /\ DOMAIN s = 1..Len(s)
  OBVIOUS
<1>1. /\ Sorted(s) \in Seq(Nat) /\ Len(Sorted(s)) = Len(s)
      /\ \A n \in 1..Len(s) : \E k \in 1..Len(s) : Sorted(s)[n] = s[k]
      /\ \A k \in 1..Len(s) : \E n \in 1..Len(s) : Sorted(s)[n] = s[k]
      /\ \A i, j \in 1..Len(s) : i < j => Sorted(s)[i] <= Sorted(s)[j]
  <2>1. /\ Sorted(s) \in Seq(Nat) /\ Len(Sorted(s)) = Len(s)
        /\ \A n \in DOMAIN s : \E k \in DOMAIN s : Sorted(s)[n] = s[k]
        /\ \A k \in DOMAIN s : \E n \in DOMAIN s : Sorted(s)[n] = s[k]
        /\ \A i, j \in DOMAIN s : i < j => Sorted(s)[i] <= Sorted(s)[j]
    BY SortedAscends, Zenon
  <2> QED
    BY <1>0, <2>1
<1> SUFFICES ASSUME NEW k \in 1..Len(s), NEW m \in (a + 1)..(Sorted(s)[k] - 1), m \notin S
             PROVE  \E j \in 1..(k - 1) : Sorted(s)[j] = m
  BY <1>1 DEF GapFree
<1>2. PICK n \in 1..Len(s) : Sorted(s)[k] = s[n]
  BY <1>1
<1>3. PICK i \in 1..Len(s) : s[i] = m
  BY <1>2 DEF Has
<1>4. PICK j \in 1..Len(s) : Sorted(s)[j] = m
  BY <1>1, <1>3
<1>5. ~ (k <= j)
  <2> SUFFICES ASSUME k <= j PROVE FALSE
    OBVIOUS
  <2>1. Sorted(s)[k] \in Nat /\ Sorted(s)[j] \in Nat
    <3>1. s[n] \in Nat /\ s[i] \in Nat
      OBVIOUS
    <3> QED
      BY <1>2, <1>3, <1>4, <3>1, Zenon
  <2>2. Sorted(s)[k] <= Sorted(s)[j]
    <3>1. k < j => Sorted(s)[k] <= Sorted(s)[j]
      BY <1>1
    <3> QED
      BY <1>0, <2>1, <3>1
  <2> QED
    BY <1>4, <2>1, <2>2
<1> QED
  BY <1>4, <1>5

LEMMA GapFreeRows ==
  ASSUME NEW S, NEW a \in Nat, NEW l \in Nat, NEW s \in Seq(Nat),
         \A m \in (a + 1)..l : m \in S, \A k \in 1..Len(s) : s[k] = l + k
  PROVE  GapFree(S, a, s)
<1> SUFFICES ASSUME NEW k \in 1..Len(s), NEW m \in (a + 1)..(s[k] - 1), m \notin S
             PROVE  \E j \in 1..(k - 1) : s[j] = m
  BY DEF GapFree
<1>1. s[k] = l + k /\ m \in Int /\ ~(m <= l)
  OBVIOUS
<1>2. m - l \in 1..(k - 1) /\ m - l \in 1..Len(s) /\ l + (m - l) = m
  BY <1>1
<1> QED
  BY <1>2
-----------------------------------------------------------------------------
(* No event is lost, if both who append are in the process of the stream   *)
(* or neither is.                                                          *)

Together == {{}, {"runner", "reconciler"}}
All == here = {"runner", "reconciler"}

Written == ToSet(sent)

\* Ids up to this one are emitted, if every append is.
Emitted == Len(log) - Len(unemitted)

\* What is emitted next is the row behind what was emitted.
EmitInv ==
  /\ here \in Together
  /\ ~All => unemitted = <<>>
  /\ All => \A k \in 1..Len(unemitted) : unemitted[k] = Emitted + k

\* What has been read and not been written has no gap.
ReadInv == GapFree(Written, afterId, batch) /\ GapFree(Written, afterId, polled)

\* NoGap, and the cursors stand on rows that were written.
CursorInv ==
  /\ \A i \in 1..Len(sent) : \A m \in (afterId + 1)..(sent[i] - 1) : m \in Written
  /\ lastId = afterId \/ lastId \in Written
  /\ mainFrame # 0 => mainFrame \in Written
  /\ drainFrame # 0 => drainFrame \in Written

Draining == Subscribed /\ ~Replaying

Buffered(W, a, b, emitted, all) ==
  /\ GapFree(W, a, b)
  /\ all => \A m \in (a + 1)..emitted : m \in W \/ Has(b, m)

\* During replay the buffer holds the last rows that were emitted, and what it
\* does not hold is in the catch-up; from the first drain on it has no gap and
\* holds every row that was emitted and not written.
BufferInv ==
  ~closed =>
    /\ Replaying => /\ ~All => liveBuffer = <<>>
                    /\ All => \A k \in 1..Len(liveBuffer) :
                                liveBuffer[k] = Emitted - Len(liveBuffer) + k
    /\ All /\ pc = "catching" =>
         \A m \in (afterId + 1)..(Emitted - Len(liveBuffer)) : m \in Written \/ Has(batch, m)
    /\ Draining => Buffered(Written, afterId, liveBuffer, Emitted, All)

GapInv == EmitInv /\ ReadInv /\ CursorInv /\ BufferInv

LEMMA WrittenIs ==
  ASSUME TypeOK
  PROVE  Written = {sent[i] : i \in 1..Len(sent)} /\ Written \subseteq NewRows
<1>1. DOMAIN sent = 1..Len(sent) /\ \A i \in 1..Len(sent) : sent[i] \in NewRows
  BY DEF TypeOK
<1> QED
  BY <1>1 DEF Written, ToSet

\* Every row up to the cursor was written, or the client had it.
LEMMA Covered ==
  ASSUME TypeOK, CursorInv
  PROVE  \A m \in (afterId + 1)..lastId : m \in Written
<1> SUFFICES ASSUME NEW m \in (afterId + 1)..lastId
             PROVE  m \in Written
  OBVIOUS
<1>1. afterId \in Nat /\ lastId \in Nat
  BY DEF TypeOK
<1>2. lastId \in Written
  BY <1>1 DEF CursorInv
<1>3. PICK i \in 1..Len(sent) : sent[i] = lastId
  BY <1>2, WrittenIs
<1>4. CASE m = lastId
  BY <1>2, <1>4
<1>5. CASE m # lastId
  BY <1>1, <1>3, <1>5 DEF CursorInv
<1> QED
  BY <1>4, <1>5

\* A frame that is written or skipped leaves the rest without a gap.
LEMMA NextFrame ==
  ASSUME TypeOK, CursorInv, NEW s \in Seq(Rows), s # <<>>, GapFree(Written, afterId, s),
         NEW W, Written \subseteq W, Fresh(Head(s)) => Head(s) \in W
  PROVE  /\ \A m \in (afterId + 1)..(Head(s) - 1) : m \in Written
         /\ Head(s) \in W \/ Head(s) <= afterId
         /\ GapFree(W, afterId, Tail(s))
<1>1. afterId \in Nat /\ lastId \in Nat /\ s \in Seq(Nat) /\ Head(s) \in Nat
  <2>1. Rows \subseteq Nat /\ afterId \in Nat /\ lastId \in Nat
    BY DEF TypeOK, Rows
  <2> QED
    BY <2>1, MoreRows, HeadTail
<1>2. Head(s) \in W \/ Head(s) <= afterId
  BY <1>1, Covered DEF Fresh
<1>3. GapFree(W, afterId, s)
  BY GapFreeMore
<1> QED
  BY <1>1, <1>2, <1>3, GapFreeHead, GapFreeTail
LEMMA SameFrame ==
  ASSUME NEW S, NEW s \in Seq(S), NEW x, NEW y, Append(s, x) = Append(s, y)
  PROVE  x = y
<1>1. s \in Seq(S \cup {x, y}) /\ x \in S \cup {x, y} /\ y \in S \cup {x, y}
  BY MoreRows
<1>2. Append(s, x)[Len(s) + 1] = x /\ Append(s, y)[Len(s) + 1] = y
  BY <1>1, Appended
<1> QED
  BY <1>2

\* What is written stays written.
LEMMA WrittenGrows ==
  ASSUME SseInv, SseInv', [SseNext]_sseVars
  PROVE  /\ Written \subseteq Written'
         /\ \A frame : FrameBegins(frame) => Written' = Written \cup {frame}
<1>1. TypeOK /\ TypeOK' /\ sent \in Seq(NewRows)
  BY DEF SseInv, TypeInv, TypeOK
<1>2. Written = {sent[i] : i \in 1..Len(sent)} /\ Written' = {sent'[i] : i \in 1..Len(sent')}
  <2>1. DOMAIN sent = 1..Len(sent) /\ DOMAIN sent' = 1..Len(sent')
    BY <1>1 DEF TypeOK
  <2> QED
    BY <2>1 DEF Written, ToSet
<1>3. ASSUME NEW frame, FrameBegins(frame)
      PROVE  Written' = Written \cup {frame}
  <2>1. /\ frame \in NewRows /\ Len(sent) \in Nat /\ Len(sent') = Len(sent) + 1
        /\ \A i \in 1..Len(sent) : sent'[i] = sent[i]
        /\ sent'[Len(sent) + 1] = frame
    BY <1>1, <1>3, Appended DEF FrameBegins
  <2> QED
    BY <1>2, <2>1
<1>4. CASE Attach
  <2>1. sent' = sent
    BY <1>4 DEF Attach
  <2> QED
    BY <1>2, <1>3, <2>1
<1> QED
  BY <1>2, <1>3, <1>4, StepOfFrames DEF FrameEnds

LEMMA EmitKept == TypeOK /\ EmitInv /\ [SseNext]_sseVars => EmitInv'
<1> SUFFICES ASSUME TypeOK, EmitInv, [SseNext]_sseVars
             PROVE  EmitInv'
  OBVIOUS
<1>0. log \in Seq({"progress", "abandoned", "end"}) /\ unemitted \in Seq(Nat) /\ Len(log) \in Nat
  BY MoreRows DEF TypeOK, Rows
<1>1. ASSUME NEW type \in {"progress", "abandoned", "end"},
             Append1(type, "runner" \in here) \/ Append1(type, "reconciler" \in here)
      PROVE  EmitInv'
  <2>1. here' = here /\ Len(log') = Len(log) + 1
    BY <1>0, <1>1, Appended DEF Append1
  <2>2. CASE All
    <3>1. unemitted' = Append(unemitted, Len(log) + 1)
      BY <1>1, <2>2 DEF Append1, All
    <3>2. /\ Len(unemitted') = Len(unemitted) + 1 /\ Len(unemitted) \in Nat
          /\ \A i \in 1..Len(unemitted) : unemitted'[i] = unemitted[i]
          /\ unemitted'[Len(unemitted) + 1] = Len(log) + 1
      BY <1>0, <3>1, Appended
    <3> QED
      BY <1>0, <2>1, <2>2, <3>2 DEF EmitInv, All, Emitted
  <2>3. CASE ~All
    <3>1. here = {}
      BY <2>3 DEF EmitInv, Together, All
    <3>2. unemitted' = unemitted
      BY <1>1, <3>1 DEF Append1
    <3> QED
      BY <2>1, <2>3, <3>2 DEF EmitInv, All
  <2> QED
    BY <2>2, <2>3
<1>2. CASE Job
  BY <1>1, <1>2 DEF Job, RunAppends, RunEnds, Abandon
<1>3. CASE Emit
  <2>1. /\ here' = here /\ log' = log /\ unemitted # <<>> /\ unemitted' = Tail(unemitted)
    BY <1>3 DEF Emit
  <2>2. /\ Len(unemitted) \in Nat /\ Len(unemitted') = Len(unemitted) - 1
        /\ \A i \in 1..Len(unemitted') : unemitted'[i] = unemitted[i + 1]
    BY <1>0, <2>1, HeadTail
  <2> QED
    BY <1>0, <2>1, <2>2 DEF EmitInv, All, Emitted
<1>4. CASE UNCHANGED <<here, log, unemitted>>
  BY <1>4 DEF EmitInv, All, Emitted
<1>5. CASE Attach \/ DrainLive \/ Main \/ Poll \/ ClientLeaves \/ UNCHANGED sseVars
  <2>1. UNCHANGED logVars
    BY <1>5 DEF Attach, DrainLive, DrainNext, DrainWritten, DrainEnds, Main, Read, MainNext,
       MainWritten, ReplayDone, ReadStatus, CatchUpDone, FirstDrainDone, FinishDone,
       LastDrainDone, ResponseClosed, Poll, PollReads, PollDelivers, ClientLeaves, sseVars
  <2> QED
    BY <1>4, <2>1 DEF logVars
<1> QED
  BY <1>2, <1>3, <1>5 DEF SseNext

\* The frame that is written next has no gap before it.
LEMMA BeginsWithoutGap ==
  ASSUME SseInv, ReadInv, CursorInv, BufferInv, [SseNext]_sseVars, NEW frame, FrameBegins(frame)
  PROVE  \A m \in (afterId + 1)..(frame - 1) : m \in Written
<1>1. /\ TypeOK /\ sent' # sent /\ sent \in Seq(NewRows) /\ afterId \in Nat
      /\ Rows \subseteq Nat
  <2>0. afterId \in Nat /\ Rows \subseteq Nat
    BY DEF SseInv, TypeInv, TypeOK, Rows
  <2>1. sent \in Seq(NewRows) /\ frame \in NewRows /\ TypeOK
    BY DEF SseInv, TypeInv, TypeOK, FrameBegins
  <2>2. Len(sent') # Len(sent)
    BY <2>1, Appended DEF FrameBegins
  <2> QED
    BY <2>0, <2>1, <2>2
<1>2. sent' = Append(sent, frame)
  BY DEF FrameBegins
<1>3. CASE MainNext
  <2>1. batch \in Seq(Rows) /\ batch # <<>> /\ sent' = Append(sent, Head(batch))
    BY <1>1, <1>3 DEF MainNext, TypeOK
  <2>2. frame = Head(batch)
    BY <1>1, <1>2, <2>1, SameFrame
  <2> QED
    BY <1>1, <2>1, <2>2, GapFreeHead, MoreRows DEF ReadInv
<1>4. CASE DrainNext
  <2>1. liveBuffer \in Seq(Rows) /\ liveBuffer # <<>> /\ sent' = Append(sent, Head(liveBuffer))
    BY <1>1, <1>4 DEF DrainNext, TypeOK
  <2>2. frame = Head(liveBuffer)
    BY <1>1, <1>2, <2>1, SameFrame
  <2>3. GapFree(Written, afterId, liveBuffer)
    BY <1>4 DEF DrainNext, SseInv, TypeInv, AtStart, PhaseInv, BufferInv, Subscribed, Draining,
       Buffered
  <2> QED
    BY <1>1, <2>1, <2>2, <2>3, GapFreeHead, MoreRows
<1> QED
  BY <1>1, <1>3, <1>4 DEF SseNext, sseVars, Job, RunAppends, RunEnds, Abandon, Append1, Attach, Emit,
     DrainLive, DrainWritten, DrainEnds, Main, Read, MainWritten, ReplayDone, ReadStatus,
     CatchUpDone, FirstDrainDone, FinishDone, LastDrainDone, ResponseClosed, Poll, PollReads,
     PollDelivers, ClientLeaves

LEMMA CursorKept ==
  SseInv /\ SseInv' /\ ReadInv /\ CursorInv /\ BufferInv /\ [SseNext]_sseVars => CursorInv'
<1> SUFFICES ASSUME SseInv, SseInv', ReadInv, CursorInv, BufferInv, [SseNext]_sseVars
             PROVE  CursorInv'
  OBVIOUS
<1>1. ASSUME NEW frame, FrameBegins(frame)
      PROVE  CursorInv'
  <2>1. \A m \in (afterId + 1)..(frame - 1) : m \in Written
    BY <1>1, BeginsWithoutGap
  <2>2. Written' = Written \cup {frame}
    BY <1>1, WrittenGrows
  <2>3. /\ sent \in Seq(NewRows) /\ frame \in NewRows
    BY <1>1 DEF SseInv, TypeInv, TypeOK, FrameBegins
  <2>4. /\ Len(sent) \in Nat /\ Len(sent') = Len(sent) + 1
        /\ \A i \in 1..Len(sent) : sent'[i] = sent[i]
        /\ sent'[Len(sent) + 1] = frame
    BY <1>1, <2>3, Appended DEF FrameBegins
  <2>5. \A i \in 1..Len(sent') : \A m \in (afterId' + 1)..(sent'[i] - 1) : m \in Written'
    <3>1. afterId' = afterId
      BY <1>1 DEF FrameBegins
    <3> QED
      BY <2>1, <2>2, <2>4, <3>1 DEF CursorInv
  <2> QED
    BY <1>1, <2>2, <2>5 DEF CursorInv, FrameBegins
<1>2. ASSUME NEW frame, FrameEnds(frame)
      PROVE  CursorInv'
  <2>1. Written' = Written
    BY <1>2 DEF FrameEnds, Written
  <2> QED
    BY <1>2, <2>1 DEF FrameEnds, CursorInv
<1>3. CASE Attach
  <2>1. /\ sent' = <<>> /\ mainFrame' = 0 /\ drainFrame' = 0 /\ lastId' = afterId'
        /\ Len(sent') = 0
    BY <1>3 DEF Attach, drainVars, SseInv, TypeInv, AtStart
  <2> QED
    BY <2>1 DEF CursorInv
<1>4. CASE UNCHANGED <<afterId, lastId, mainFrame, drainFrame, sent>>
  BY <1>4 DEF CursorInv, Written
<1> QED
  BY <1>1, <1>2, <1>3, <1>4, StepOfFrames
LEMMA ReadKept ==
  SseInv /\ SseInv' /\ ReadInv /\ CursorInv /\ [SseNext]_sseVars => ReadInv'
<1> SUFFICES ASSUME SseInv, SseInv', ReadInv, CursorInv, [SseNext]_sseVars
             PROVE  ReadInv'
  OBVIOUS
<1>0. /\ TypeOK /\ batch \in Seq(Rows) /\ polled \in Seq(Rows) /\ afterId \in Nat /\ lastId \in Nat
      /\ Rows \subseteq Nat /\ Written \subseteq Written'
  <2>1. TypeOK /\ Written \subseteq Written'
    BY WrittenGrows DEF SseInv, TypeInv
  <2> QED
    BY <2>1 DEF TypeOK, Rows
<1>1. GapFree(Written', afterId, batch) /\ GapFree(Written', afterId, polled)
  BY <1>0, GapFreeMore DEF ReadInv
<1>2. GapFree(Written', afterId, RowsAfter(lastId)) /\ GapFree(Written', afterId, <<>>)
  <2>1. GapFree(Written, afterId, RowsAfter(lastId))
    <3>1. /\ RowsAfter(lastId) \in Seq(Nat)
          /\ \A k \in 1..Len(RowsAfter(lastId)) : RowsAfter(lastId)[k] = lastId + k
      BY <1>0, RowsAfterType, MoreRows
    <3>2. \A m \in (afterId + 1)..lastId : m \in Written
      BY <1>0, Covered
    <3> QED
      BY <1>0, <3>1, <3>2, GapFreeRows
  <2>2. GapFree(Written, afterId, <<>>)
    BY DEF GapFree
  <2> QED
    BY <1>0, <2>1, <2>2, GapFreeMore
<1>3. CASE UNCHANGED <<afterId, batch, polled>>
  BY <1>1, <1>3 DEF ReadInv
<1>4. CASE MainNext
  <2>1. /\ batch # <<>> /\ UNCHANGED <<afterId, polled>>
    BY <1>4 DEF MainNext, pollVars
  <2>2. CASE closed
    BY <1>1, <1>2, <1>4, <2>1, <2>2 DEF MainNext, ReadInv
  <2>3. CASE ~closed
    <3>1. Fresh(Head(batch)) => Head(batch) \in Written'
      <4>1. SUFFICES ASSUME Fresh(Head(batch))
                     PROVE  Head(batch) \in Written'
        OBVIOUS
      <4>2. sent' = Append(sent, Head(batch)) /\ sent \in Seq(NewRows) /\ Head(batch) \in NewRows
        <5>1. Head(batch) \in Rows
          BY <1>0, <2>1, HeadTail
        <5> QED
          BY <1>0, <1>4, <2>3, <4>1, <5>1 DEF MainNext, TypeOK, Fresh, Rows, NewRows
      <4>3. Len(sent) + 1 \in DOMAIN sent' /\ sent'[Len(sent) + 1] = Head(batch)
        BY <4>2, Appended
      <4> QED
        BY <4>3 DEF Written, ToSet
    <3>2. GapFree(Written', afterId, Tail(batch))
      BY <1>0, <2>1, <3>1, NextFrame DEF ReadInv
    <3> QED
      BY <1>1, <1>4, <2>1, <2>3, <3>2 DEF MainNext, ReadInv
  <2> QED
    BY <2>2, <2>3
<1>5. CASE Read \/ PollReads \/ PollDelivers
  BY <1>1, <1>2, <1>5 DEF Read, PollReads, PollDelivers, pollVars, mainVars, ReadInv
<1>6. CASE Attach
  <2>1. batch' = <<>> /\ polled' = <<>> /\ Len(batch') = 0 /\ Len(polled') = 0
    BY <1>6 DEF Attach, pollVars, SseInv, TypeInv, AtStart
  <2> QED
    BY <2>1 DEF ReadInv, GapFree
<1>7. CASE Job \/ Emit \/ DrainLive \/ ClientLeaves \/ UNCHANGED sseVars
  BY <1>3, <1>7 DEF Job, RunAppends, RunEnds, Abandon, Append1, Emit, DrainLive, DrainNext,
     DrainWritten, DrainEnds, ClientLeaves, mainVars, pollVars, sseVars
<1>8. CASE MainWritten \/ ReplayDone \/ ReadStatus \/ CatchUpDone \/ FirstDrainDone \/ FinishDone
           \/ LastDrainDone \/ ResponseClosed
  BY <1>3, <1>8 DEF MainWritten, ReplayDone, ReadStatus, CatchUpDone, FirstDrainDone, FinishDone,
     LastDrainDone, ResponseClosed, pollVars
<1> QED
  BY <1>4, <1>5, <1>6, <1>7, <1>8 DEF SseNext, Main, Poll
\* The sort keeps what the buffer holds and needs no order of it.
LEMMA SortBuffers ==
  ASSUME NEW W, NEW a \in Nat, NEW b \in Seq(Nat), NEW emitted, NEW all \in BOOLEAN,
         \A k \in 1..Len(b) : \A m \in (a + 1)..(b[k] - 1) : m \in W \/ Has(b, m),
         all => \A m \in (a + 1)..emitted : m \in W \/ Has(b, m)
  PROVE  Buffered(W, a, Sorted(b), emitted, all)
<1>1. GapFree(W, a, Sorted(b))
  BY GapFreeSorted
<1>2. \A m : Has(b, m) => Has(Sorted(b), m)
  <2>1. Len(b) \in Nat /\ DOMAIN b = 1..Len(b) /\ Len(Sorted(b)) = Len(b)
    BY SortedAscends
  <2>2. \A k \in DOMAIN b : \E n \in DOMAIN b : Sorted(b)[n] = b[k]
    BY SortedAscends, Zenon
  <2> QED
    BY <2>1, <2>2 DEF Has
<1> QED
  BY <1>1, <1>2 DEF Buffered

LEMMA BufferedSorted ==
  ASSUME NEW W, NEW a \in Nat, NEW b \in Seq(Nat), NEW emitted, NEW all \in BOOLEAN,
         Buffered(W, a, b, emitted, all)
  PROVE  Buffered(W, a, Sorted(b), emitted, all)
<1>1. ASSUME NEW k \in 1..Len(b), NEW m \in (a + 1)..(b[k] - 1)
      PROVE  m \in W \/ Has(b, m)
  <2>1. m \in W \/ \E j \in 1..(k - 1) : b[j] = m
    BY DEF Buffered, GapFree
  <2>2. 1..(k - 1) \subseteq 1..Len(b)
    <3>1. k \in 1..Len(b) /\ Len(b) \in Nat
      OBVIOUS
    <3> QED
      BY <3>1
  <2> QED
    BY <2>1, <2>2 DEF Has
<1> QED
  BY <1>1, SortBuffers DEF Buffered

LEMMA BufferedMore ==
  ASSUME NEW W, NEW V, W \subseteq V, NEW a, NEW b, NEW emitted, NEW all \in BOOLEAN,
         Buffered(W, a, b, emitted, all)
  PROVE  Buffered(V, a, b, emitted, all)
BY GapFreeMore DEF Buffered

\* An event is emitted: it is the next.
LEMMA BufferedAppended ==
  ASSUME NEW W, NEW a \in Nat, NEW b \in Seq(Nat), NEW emitted \in Int, NEW row \in Nat,
         row = emitted + 1, Buffered(W, a, b, emitted, TRUE)
  PROVE  Buffered(W, a, Append(b, row), row, TRUE)
<1>1. GapFree(W, a, Append(b, row))
  BY GapFreeAppended DEF Buffered
<1>2. /\ Len(b) \in Nat /\ Len(Append(b, row)) = Len(b) + 1
      /\ \A i \in 1..Len(b) : Append(b, row)[i] = b[i]
      /\ Append(b, row)[Len(b) + 1] = row
  BY Appended
<1>3. ASSUME NEW m \in (a + 1)..row
      PROVE  m \in W \/ Has(Append(b, row), m)
  <2>1. CASE m = row
    BY <1>2, <2>1 DEF Has
  <2>2. CASE m # row
    <3>1. m \in (a + 1)..emitted
      BY <2>2
    <3>2. m \in W \/ \E j \in 1..Len(b) : b[j] = m
      BY <3>1 DEF Buffered, Has
    <3> QED
      BY <1>2, <3>2 DEF Has
  <2> QED
    BY <2>1, <2>2
<1> QED
  BY <1>1, <1>3 DEF Buffered

\* The poll delivers rows without a gap.
LEMMA BufferedConcatenated ==
  ASSUME NEW W, NEW a \in Nat, NEW b \in Seq(Nat), NEW rows \in Seq(Nat), NEW emitted,
         NEW all \in BOOLEAN, Buffered(W, a, b, emitted, all), GapFree(W, a, rows)
  PROVE  Buffered(W, a, b \o rows, emitted, all)
<1>1. GapFree(W, a, b \o rows)
  BY GapFreeConcatenated DEF Buffered
<1>2. \A m : Has(b, m) => Has(b \o rows, m)
  <2>1. /\ Len(b) \in Nat /\ Len(rows) \in Nat /\ Len(b \o rows) = Len(b) + Len(rows)
        /\ \A i \in 1..Len(b) : (b \o rows)[i] = b[i]
    BY Concatenated
  <2> QED
    BY <2>1 DEF Has
<1> QED
  BY <1>1, <1>2 DEF Buffered

\* What a frame that is taken from a sequence leaves in it.
LEMMA HasTail ==
  ASSUME NEW s \in Seq(Nat), s # <<>>, NEW m, Has(s, m)
  PROVE  m = Head(s) \/ Has(Tail(s), m)
<1>1. /\ Len(s) \in Nat \ {0} /\ Head(s) = s[1] /\ Len(Tail(s)) = Len(s) - 1
      /\ \A i \in 1..(Len(s) - 1) : Tail(s)[i] = s[i + 1]
  BY HeadTail
<1>2. PICK j \in 1..Len(s) : s[j] = m
  BY DEF Has
<1>3. CASE j # 1
  <2>1. j - 1 \in 1..(Len(s) - 1) /\ (j - 1) + 1 = j
    BY <1>1, <1>3
  <2>2. Tail(s)[j - 1] = m
    BY <1>1, <1>2, <2>1
  <2> QED
    BY <1>1, <2>1, <2>2 DEF Has
<1> QED
  BY <1>1, <1>2, <1>3

LEMMA BufferedTail ==
  ASSUME NEW W, NEW a \in Nat, NEW b \in Seq(Nat), b # <<>>, NEW emitted, NEW all \in BOOLEAN,
         Buffered(W, a, b, emitted, all), Head(b) \in W \/ Head(b) <= a
  PROVE  Buffered(W, a, Tail(b), emitted, all)
<1>1. GapFree(W, a, Tail(b))
  BY GapFreeTail DEF Buffered
<1>2. ASSUME all, NEW m \in (a + 1)..emitted
      PROVE  m \in W \/ Has(Tail(b), m)
  <2>1. m \in W \/ Has(b, m)
    BY <1>2 DEF Buffered
  <2>2. m = Head(b) => m \in W
    <3>1. Head(b) \in Nat
      BY HeadTail
    <3> QED
      BY <3>1
  <2> QED
    BY <2>1, <2>2, HasTail
<1> QED
  BY <1>1, <1>2 DEF Buffered
\* What BufferInv says of the state it is preserved from.
LEMMA BufferTypes ==
  ASSUME SseInv
  PROVE  /\ TypeOK /\ Rows \subseteq Nat /\ afterId \in Nat /\ lastId \in Nat
         /\ Len(log) \in Nat /\ Emitted \in Int /\ All \in BOOLEAN
         /\ liveBuffer \in Seq(Nat) /\ batch \in Seq(Nat) /\ polled \in Seq(Nat)
         /\ unemitted \in Seq(Nat)
         /\ Len(liveBuffer) \in Nat /\ Len(unemitted) \in Nat
<1>1. /\ TypeOK /\ Rows \subseteq Nat /\ afterId \in Nat /\ lastId \in Nat /\ Len(log) \in Nat
      /\ All \in BOOLEAN
  BY DEF SseInv, TypeInv, TypeOK, Rows, All
<1>2. /\ liveBuffer \in Seq(Nat) /\ batch \in Seq(Nat) /\ polled \in Seq(Nat)
      /\ unemitted \in Seq(Nat)
  BY <1>1, MoreRows DEF TypeOK
<1>3. Len(liveBuffer) \in Nat /\ Len(unemitted) \in Nat
  BY <1>2
<1> QED
  BY <1>1, <1>2, <1>3 DEF Emitted

\* An event of the job is appended: none is emitted yet.
LEMMA BufferJob ==
  ASSUME SseInv, EmitInv, BufferInv, Job
  PROVE  BufferInv'
<1>1. UNCHANGED <<here, pc, afterId, batch, liveBuffer, sent, closed>>
  BY DEF Job, RunAppends, RunEnds, Abandon, Append1, mainVars, drainVars
<1>2. All' = All /\ Written' = Written /\ Replaying' = Replaying /\ Draining' = Draining
  BY <1>1 DEF All, Written, Replaying, Draining, Subscribed
<1>3. All => Emitted' = Emitted
  <2> SUFFICES ASSUME All
               PROVE  Emitted' = Emitted
    OBVIOUS
  <2>1. log \in Seq({"progress", "abandoned", "end"}) /\ unemitted \in Seq(Nat)
    BY BufferTypes DEF TypeOK
  <2>2. Len(log') = Len(log) + 1 /\ unemitted' = Append(unemitted, Len(log) + 1)
    BY <2>1, Appended DEF Job, RunAppends, RunEnds, Abandon, Append1, All
  <2>3. Len(unemitted') = Len(unemitted) + 1
    BY <2>1, <2>2
  <2> QED
    BY <2>1, <2>2, <2>3, BufferTypes DEF Emitted
<1>4. Buffered(Written, afterId, liveBuffer, Emitted, All)
        => Buffered(Written, afterId, liveBuffer, Emitted', All)
  BY <1>3 DEF Buffered
<1> QED
  BY <1>1, <1>2, <1>3, <1>4 DEF BufferInv

LEMMA BufferEmit ==
  ASSUME SseInv, EmitInv, BufferInv, Emit
  PROVE  BufferInv'
<1> DEFINE row == Head(unemitted)
<1>1. /\ UNCHANGED <<here, log, pc, afterId, batch, sent, closed>>
      /\ unemitted # <<>> /\ unemitted' = Tail(unemitted)
  BY DEF Emit, mainVars
<1>2. All /\ All' = All /\ Written' = Written /\ Replaying' = Replaying /\ Draining' = Draining
  BY <1>1 DEF All, Written, Replaying, Draining, Subscribed, EmitInv
<1>3. row = Emitted + 1 /\ Emitted' = Emitted + 1 /\ row \in Nat /\ Emitted \in Int
  <2>1. /\ Len(unemitted) \in Nat \ {0} /\ row = unemitted[1] /\ row \in Nat
        /\ Len(unemitted') = Len(unemitted) - 1
    BY <1>1, BufferTypes, HeadTail
  <2>2. unemitted[1] = Emitted + 1
    BY <1>2, <2>1 DEF EmitInv
  <2> QED
    BY <1>1, <2>1, <2>2, BufferTypes DEF Emitted
<1>4. CASE closed
  BY <1>1, <1>4 DEF BufferInv
<1>5. CASE ~closed /\ Replaying
  <2>1. liveBuffer' = Append(liveBuffer, row)
    BY <1>5 DEF Emit, Replaying, Subscribed
  <2>2. /\ Len(liveBuffer) \in Nat /\ Len(liveBuffer') = Len(liveBuffer) + 1
        /\ \A i \in 1..Len(liveBuffer) : liveBuffer'[i] = liveBuffer[i]
        /\ liveBuffer'[Len(liveBuffer) + 1] = row
    BY <1>3, <2>1, BufferTypes, Appended
  <2>3. \A k \in 1..Len(liveBuffer') : liveBuffer'[k] = Emitted' - Len(liveBuffer') + k
    BY <1>2, <1>3, <1>5, <2>2 DEF BufferInv
  <2>4. Emitted' - Len(liveBuffer') = Emitted - Len(liveBuffer)
    BY <1>3, <2>2
  <2>5. ~Draining'
    BY <1>2, <1>5 DEF Draining
  <2> QED
    BY <1>1, <1>2, <1>5, <2>3, <2>4, <2>5 DEF BufferInv
<1>6. CASE ~closed /\ Draining
  <2>1. Buffered(Written, afterId, liveBuffer, Emitted, TRUE)
    BY <1>2, <1>6 DEF BufferInv
  <2>2. Buffered(Written, afterId, Append(liveBuffer, row), row, TRUE)
    BY <1>3, <2>1, BufferTypes, BufferedAppended
  <2>3. Append(liveBuffer, row) \in Seq(Nat)
    BY <1>3, BufferTypes, Appended
  <2>4. Buffered(Written, afterId, Sorted(Append(liveBuffer, row)), row, TRUE)
    BY <2>2, <2>3, BufferTypes, BufferedSorted
  <2>5. liveBuffer' \in {Append(liveBuffer, row), Sorted(Append(liveBuffer, row))}
    BY <1>6 DEF Emit, StartDrain, Draining
  <2>6. Buffered(Written', afterId', liveBuffer', Emitted', All')
    BY <1>1, <1>2, <1>3, <2>2, <2>4, <2>5
  <2>7. ~Replaying' /\ pc' # "catching"
    BY <1>1, <1>2, <1>6 DEF Draining, Replaying
  <2> QED
    BY <2>6, <2>7 DEF BufferInv
<1>7. CASE ~closed /\ ~Subscribed
  <2>1. ~Replaying' /\ ~Draining' /\ pc' # "catching"
    BY <1>1, <1>2, <1>7 DEF Subscribed, Draining, Replaying
  <2> QED
    BY <2>1 DEF BufferInv
<1> QED
  BY <1>4, <1>5, <1>6, <1>7 DEF Draining

\* The buffer stays, and so does what was emitted, in the same part of the run.
LEMMA BufferStays ==
  ASSUME SseInv, SseInv', BufferInv, [SseNext]_sseVars, closed => closed',
         UNCHANGED <<here, log, unemitted, afterId, liveBuffer>>,
         Replaying' => Replaying, Draining' => Draining,
         \/ pc' # "catching"
         \/ /\ pc = "catching"
            /\ \A m \in (afterId + 1)..Len(log) : Has(batch, m) => m \in Written' \/ Has(batch', m)
  PROVE  BufferInv'
<1>1. All' = All /\ Emitted' = Emitted /\ Written \subseteq Written' /\ All \in BOOLEAN
  BY WrittenGrows DEF All, Emitted
<1>2. Buffered(Written, afterId, liveBuffer, Emitted, All)
        => Buffered(Written', afterId, liveBuffer, Emitted, All)
  BY <1>1, BufferedMore
<1>3. ASSUME ~closed', All, pc' = "catching", NEW m \in (afterId + 1)..(Emitted - Len(liveBuffer))
      PROVE  m \in Written' \/ Has(batch', m)
  <2>1. m \in Written \/ Has(batch, m)
    BY <1>3 DEF BufferInv
  <2>2. m \in (afterId + 1)..Len(log)
    BY <1>3, BufferTypes DEF Emitted
  <2> QED
    BY <1>1, <1>3, <2>1, <2>2
<1> QED
  BY <1>1, <1>2, <1>3 DEF BufferInv

LEMMA BufferCatchUpDone ==
  ASSUME SseInv, SseInv', BufferInv, [SseNext]_sseVars, CatchUpDone
  PROVE  BufferInv'
<1>1. /\ pc = "catching" /\ batch = <<>> /\ pc' = "firstDrain" /\ liveBuffer' = Sorted(liveBuffer)
      /\ UNCHANGED <<here, log, unemitted, afterId, sent, closed>>
  BY DEF CatchUpDone, BatchDone, StartDrain, logVars
<1>2. /\ All' = All /\ Emitted' = Emitted /\ Written' = Written
      /\ ~Replaying' /\ Replaying /\ Len(batch) = 0
  BY <1>1 DEF All, Emitted, Written, Replaying
<1> SUFFICES ASSUME ~closed
             PROVE  Buffered(Written, afterId, Sorted(liveBuffer), Emitted, All)
  BY <1>1, <1>2 DEF BufferInv
<1>3. CASE ~All
  <2>1. liveBuffer = <<>> /\ Len(liveBuffer) = 0
    BY <1>2, <1>3 DEF BufferInv
  <2>2. \A k \in 1..Len(liveBuffer) :
          \A m \in (afterId + 1)..(liveBuffer[k] - 1) : m \in Written \/ Has(liveBuffer, m)
    BY <2>1
  <2>3. liveBuffer \in Seq(Nat) /\ afterId \in Nat /\ All \in BOOLEAN
    BY BufferTypes
  <2> QED
    BY <1>3, <2>2, <2>3, SortBuffers
<1>4. CASE All
  <2>1. \A k \in 1..Len(liveBuffer) : liveBuffer[k] = Emitted - Len(liveBuffer) + k
    BY <1>2, <1>4 DEF BufferInv
  <2>2. \A m \in (afterId + 1)..(Emitted - Len(liveBuffer)) : m \in Written
    BY <1>1, <1>2, <1>4 DEF BufferInv, Has
  <2>3. ASSUME NEW m \in (afterId + 1)..Emitted
        PROVE  m \in Written \/ Has(liveBuffer, m)
    <3>1. CASE m <= Emitted - Len(liveBuffer)
      BY <2>2, <3>1, BufferTypes
    <3>2. CASE ~ (m <= Emitted - Len(liveBuffer))
      <4> DEFINE k == m - (Emitted - Len(liveBuffer))
      <4>1. k \in 1..Len(liveBuffer) /\ Emitted - Len(liveBuffer) + k = m
        BY <3>2, BufferTypes
      <4> HIDE DEF k
      <4>2. liveBuffer[k] = m
        BY <2>1, <4>1, Zenon
      <4> QED
        BY <4>1, <4>2, Zenon DEF Has
    <3> QED
      BY <3>1, <3>2
  <2>4. ASSUME NEW k \in 1..Len(liveBuffer), NEW m \in (afterId + 1)..(liveBuffer[k] - 1)
        PROVE  m \in Written \/ Has(liveBuffer, m)
    <3>1. Emitted \in Int /\ Len(liveBuffer) \in Nat /\ afterId \in Nat
      BY BufferTypes
    <3>2. liveBuffer[k] \in Int /\ liveBuffer[k] <= Emitted
      BY <2>1, <3>1
    <3>3. m \in (afterId + 1)..Emitted
      BY <3>1, <3>2
    <3> QED
      BY <2>3, <3>3
  <2> QED
    BY <2>3, <2>4, BufferTypes, SortBuffers
<1> QED
  BY <1>3, <1>4

LEMMA BufferFinishDone ==
  ASSUME SseInv, SseInv', BufferInv, [SseNext]_sseVars, FinishDone
  PROVE  BufferInv'
<1>1. /\ pc = "finishing" /\ pc' = "lastDrain"
      /\ liveBuffer' \in {liveBuffer, Sorted(liveBuffer)}
      /\ UNCHANGED <<here, log, unemitted, afterId, sent, closed>>
  BY DEF FinishDone, StartDrain, logVars, drainVars
<1>2. /\ All' = All /\ Emitted' = Emitted /\ Written' = Written
      /\ ~Replaying' /\ Draining
  BY <1>1 DEF All, Emitted, Written, Replaying, Draining, Subscribed
<1> SUFFICES ASSUME ~closed
             PROVE  Buffered(Written, afterId, liveBuffer', Emitted, All)
  BY <1>1, <1>2 DEF BufferInv
<1>3. Buffered(Written, afterId, liveBuffer, Emitted, All)
  BY <1>2 DEF BufferInv
<1>4. Buffered(Written, afterId, Sorted(liveBuffer), Emitted, All)
  <2>1. liveBuffer \in Seq(Nat) /\ afterId \in Nat /\ All \in BOOLEAN
    BY BufferTypes
  <2> QED
    BY <1>3, <2>1, BufferedSorted
<1> QED
  BY <1>1, <1>3, <1>4

LEMMA BufferPollDelivers ==
  ASSUME SseInv, SseInv', ReadInv, BufferInv, [SseNext]_sseVars, PollDelivers
  PROVE  BufferInv'
<1> DEFINE more == liveBuffer \o polled
<1>1. /\ liveBuffer' \in {more, Sorted(more)} /\ polling = "reading"
      /\ UNCHANGED <<here, log, unemitted, pc, afterId, sent, closed>>
  BY DEF PollDelivers, StartDrain, logVars, mainVars
<1>2. /\ All' = All /\ Emitted' = Emitted /\ Written' = Written /\ ~Replaying
      /\ ~Replaying' /\ pc' # "catching" /\ Draining' = Draining
  BY <1>1 DEF All, Emitted, Written, SseInv, PhaseInv, Replaying, Draining, Subscribed
<1> SUFFICES ASSUME ~closed, Draining
             PROVE  Buffered(Written, afterId, liveBuffer', Emitted, All)
  BY <1>1, <1>2 DEF BufferInv
<1>3. /\ liveBuffer \in Seq(Nat) /\ polled \in Seq(Nat) /\ afterId \in Nat /\ All \in BOOLEAN
      /\ more \in Seq(Nat)
  BY BufferTypes, Concatenated
<1>4. Buffered(Written, afterId, more, Emitted, All)
  BY <1>3, BufferedConcatenated DEF BufferInv, ReadInv
<1>5. Buffered(Written, afterId, Sorted(more), Emitted, All)
  BY <1>3, <1>4, BufferedSorted
<1> QED
  BY <1>1, <1>4, <1>5

LEMMA BufferDrainNext ==
  ASSUME SseInv, SseInv', CursorInv, BufferInv, [SseNext]_sseVars, DrainNext
  PROVE  BufferInv'
<1> DEFINE row == Head(liveBuffer)
<1>1. /\ liveBuffer # <<>> /\ liveBuffer' = Tail(liveBuffer) /\ drainer # "none" /\ ~closed
      /\ Fresh(row) => sent' = Append(sent, row)
      /\ UNCHANGED <<here, log, unemitted, pc, afterId, closed>>
  BY DEF DrainNext, logVars, mainVars
<1>2. /\ All' = All /\ Emitted' = Emitted /\ ~Replaying' /\ pc' # "catching"
      /\ Draining' = Draining
  BY <1>1 DEF All, Emitted, SseInv, PhaseInv, Replaying, Draining, Subscribed
<1> SUFFICES ASSUME Draining
             PROVE  Buffered(Written', afterId, Tail(liveBuffer), Emitted, All)
  BY <1>1, <1>2 DEF BufferInv
<1>3. /\ TypeOK /\ liveBuffer \in Seq(Rows) /\ liveBuffer \in Seq(Nat) /\ afterId \in Nat
      /\ All \in BOOLEAN
  <2>1. TypeOK /\ liveBuffer \in Seq(Nat) /\ afterId \in Nat /\ All \in BOOLEAN
    BY BufferTypes
  <2> QED
    BY <2>1 DEF TypeOK
<1>4. Written \subseteq Written'
  BY WrittenGrows
<1>5. Fresh(row) => row \in Written'
  <2> SUFFICES ASSUME Fresh(row)
               PROVE  row \in Written'
    OBVIOUS
  <2>1. row \in Rows
    BY <1>1, <1>3, HeadTail
  <2>2. sent \in Seq(NewRows) /\ row \in NewRows
    BY <1>3, <2>1 DEF TypeOK, Fresh, Rows, NewRows
  <2>3. Len(sent) + 1 \in DOMAIN sent' /\ sent'[Len(sent) + 1] = row
    BY <1>1, <2>2, Appended
  <2> QED
    BY <2>3 DEF Written, ToSet
<1>6. Buffered(Written, afterId, liveBuffer, Emitted, All)
  BY <1>1 DEF BufferInv
<1>7. row \in Written' \/ row <= afterId
  <2>1. GapFree(Written, afterId, liveBuffer)
    BY <1>6 DEF Buffered
  <2> QED
    BY <1>1, <1>3, <1>4, <1>5, <2>1, NextFrame
<1>8. Buffered(Written', afterId, liveBuffer, Emitted, All)
  BY <1>3, <1>4, <1>6, BufferedMore
<1> QED
  BY <1>1, <1>3, <1>7, <1>8, BufferedTail

\* The catch-up read: what it does not return the client has.
LEMMA BufferRead ==
  ASSUME SseInv, SseInv', CursorInv, BufferInv, [SseNext]_sseVars, Read
  PROVE  BufferInv'
<1>1. /\ batch' = RowsAfter(lastId)
      /\ UNCHANGED <<here, log, unemitted, afterId, liveBuffer, sent, closed>>
      /\ \/ pc = "replay" /\ pc' = "replaying"
         \/ pc = "catchup" /\ pc' = "catching"
         \/ pc = "terminalRead" /\ pc' = "finishing"
  BY DEF Read, logVars, drainVars
<1>2. (Replaying' => Replaying) /\ (Draining' => Draining)
  BY <1>1 DEF Replaying, Draining, Subscribed
<1>3. ASSUME NEW m \in (afterId + 1)..Len(log)
      PROVE  m \in Written \/ Has(batch', m)
  <2>1. TypeOK /\ lastId \in Nat /\ afterId \in Nat /\ Len(log) \in Nat
    BY BufferTypes
  <2>2. CASE m <= lastId
    BY <2>1, <2>2, Covered
  <2>3. CASE ~ (m <= lastId)
    <3>1. /\ m - lastId \in 1..(Len(log) - lastId) /\ lastId + (m - lastId) = m
      BY <2>1, <2>3
    <3>2. Len(batch') = Len(log) - lastId /\ batch'[m - lastId] = m
      BY <1>1, <2>1, <3>1, RowsAfterType
    <3> QED
      BY <3>1, <3>2 DEF Has
  <2> QED
    BY <2>2, <2>3
<1>4. All' = All /\ Emitted' = Emitted /\ Written' = Written
  BY <1>1 DEF All, Emitted, Written
<1>5. ASSUME NEW m \in (afterId + 1)..(Emitted - Len(liveBuffer))
      PROVE  m \in Written \/ Has(batch', m)
  <2>1. m \in (afterId + 1)..Len(log)
    BY BufferTypes DEF Emitted
  <2> QED
    BY <1>3, <2>1
<1> QED
  BY <1>1, <1>2, <1>4, <1>5 DEF BufferInv

LEMMA BufferMainNext ==
  ASSUME SseInv, SseInv', ReadInv, CursorInv, BufferInv, [SseNext]_sseVars, MainNext
  PROVE  BufferInv'
<1>1. CASE closed
  BY <1>1, ClosedStays DEF BufferInv
<1>2. CASE ~closed
  <2>1. /\ batch # <<>> /\ batch' = Tail(batch)
        /\ Fresh(Head(batch)) => sent' = Append(sent, Head(batch))
        /\ UNCHANGED <<here, log, unemitted, pc, afterId, liveBuffer, closed>>
    BY <1>2 DEF MainNext, logVars, drainVars
  <2>2. /\ TypeOK /\ batch \in Seq(Rows) /\ batch \in Seq(Nat) /\ afterId \in Nat
    <3>1. TypeOK /\ batch \in Seq(Nat) /\ afterId \in Nat
      BY BufferTypes
    <3> QED
      BY <3>1 DEF TypeOK
  <2>3. Written \subseteq Written'
    BY WrittenGrows
  <2>4. Fresh(Head(batch)) => Head(batch) \in Written'
    <3> SUFFICES ASSUME Fresh(Head(batch))
                 PROVE  Head(batch) \in Written'
      OBVIOUS
    <3>1. Head(batch) \in Rows
      BY <2>1, <2>2, HeadTail
    <3>2. sent \in Seq(NewRows) /\ Head(batch) \in NewRows
      BY <2>2, <3>1 DEF TypeOK, Fresh, Rows, NewRows
    <3>3. Len(sent) + 1 \in DOMAIN sent' /\ sent'[Len(sent) + 1] = Head(batch)
      BY <2>1, <3>2, Appended
    <3> QED
      BY <3>3 DEF Written, ToSet
  <2>5. Head(batch) \in Written' \/ Head(batch) <= afterId
    BY <2>1, <2>2, <2>3, <2>4, NextFrame DEF ReadInv
  <2>6. ASSUME NEW m \in (afterId + 1)..Len(log), Has(batch, m)
        PROVE  m \in Written' \/ Has(batch', m)
    <3>1. m = Head(batch) \/ Has(batch', m)
      BY <2>1, <2>2, <2>6, HasTail
    <3>2. m = Head(batch) => ~(Head(batch) <= afterId)
      BY <2>2
    <3> QED
      BY <2>5, <3>1, <3>2
  <2>7. (Replaying' => Replaying) /\ (Draining' => Draining)
    BY <2>1 DEF Replaying, Draining, Subscribed
  <2>8. pc' # "catching" \/ pc = "catching"
    BY <2>1
  <2> QED
    BY <2>1, <2>6, <2>7, <2>8, BufferStays
<1> QED
  BY <1>1, <1>2

LEMMA BufferKept ==
  ASSUME SseInv, SseInv', EmitInv, ReadInv, CursorInv, BufferInv, [SseNext]_sseVars
  PROVE  BufferInv'
<1>1. CASE DrainWritten \/ DrainEnds \/ PollReads \/ MainWritten \/ ResponseClosed \/ ClientLeaves
  <2>1. /\ UNCHANGED <<here, log, unemitted, afterId, liveBuffer, batch>>
        /\ pc' = pc \/ pc' = "returned"
    BY <1>1 DEF DrainWritten, DrainEnds, PollReads, MainWritten, ResponseClosed, ClientLeaves,
       logVars, mainVars, drainVars
  <2>2. (Replaying' => Replaying) /\ (Draining' => Draining) /\ (pc' = "catching" => pc = "catching")
    BY <2>1 DEF Replaying, Draining, Subscribed
  <2>3. \A m : Has(batch, m) => Has(batch', m)
    BY <2>1
  <2> QED
    BY <2>1, <2>2, <2>3, ClosedStays, BufferStays
<1>2. CASE ReplayDone \/ ReadStatus \/ FirstDrainDone
  <2>1. /\ UNCHANGED <<here, log, unemitted, afterId, liveBuffer>>
        /\ pc' # "catching" /\ (Replaying' => Replaying) /\ (Draining' => Draining)
    BY <1>2 DEF ReplayDone, ReadStatus, FirstDrainDone, logVars, drainVars,
       Replaying, Draining, Subscribed
  <2> QED
    BY <2>1, ClosedStays, BufferStays
<1>3. CASE LastDrainDone
  BY <1>3 DEF LastDrainDone, BufferInv
<1>4. CASE Attach
  <2>1. liveBuffer' = <<>> /\ Len(liveBuffer') = 0 /\ pc' = "replay"
    BY <1>4 DEF Attach, drainVars, SseInv, TypeInv, AtStart
  <2>2. ~Draining' /\ pc' # "catching"
    BY <2>1 DEF Draining, Replaying
  <2> QED
    BY <2>1, <2>2 DEF BufferInv
<1>5. CASE UNCHANGED sseVars
  <2>1. UNCHANGED <<here, log, unemitted, pc, afterId, liveBuffer, batch, closed>>
    BY <1>5 DEF sseVars, logVars, mainVars, drainVars
  <2>2. (Replaying' => Replaying) /\ (Draining' => Draining) /\ (pc' = "catching" => pc = "catching")
    BY <2>1 DEF Replaying, Draining, Subscribed
  <2>3. \A m : Has(batch, m) => Has(batch', m)
    BY <2>1
  <2> QED
    BY <2>1, <2>2, <2>3, BufferStays
<1> QED
  BY <1>1, <1>2, <1>3, <1>4, <1>5, BufferJob, BufferEmit, BufferCatchUpDone, BufferFinishDone,
     BufferPollDelivers, BufferDrainNext, BufferRead, BufferMainNext
  DEF SseNext, DrainLive, Main, Poll

LEMMA InitGapFree == ASSUME SseInit, here \in Together PROVE GapInv
<1>1. /\ unemitted = <<>> /\ Len(unemitted) = 0 /\ Len(batch) = 0 /\ Len(polled) = 0
      /\ Len(sent) = 0 /\ pc = "idle" /\ lastId = afterId /\ mainFrame = 0 /\ drainFrame = 0
  BY DEF SseInit
<1>2. EmitInv /\ ReadInv /\ CursorInv
  BY <1>1 DEF EmitInv, ReadInv, GapFree, CursorInv
<1>3. BufferInv
  BY <1>1 DEF BufferInv, Replaying, Draining, Subscribed
<1> QED
  BY <1>2, <1>3 DEF GapInv

LEMMA GapKept == SseInv /\ SseInv' /\ GapInv /\ [SseNext]_sseVars => GapInv'
<1> SUFFICES ASSUME SseInv, SseInv', GapInv, [SseNext]_sseVars
             PROVE  GapInv'
  OBVIOUS
<1>1. TypeOK /\ EmitInv /\ ReadInv /\ CursorInv /\ BufferInv
  BY DEF GapInv, SseInv, TypeInv
<1>2. EmitInv' /\ ReadInv' /\ CursorInv'
  BY <1>1, EmitKept, ReadKept, CursorKept
<1>3. BufferInv'
  BY <1>1, BufferKept
<1> QED
  BY <1>2, <1>3 DEF GapInv

LEMMA GapInvIsNoGap == TypeOK /\ GapInv => NoGap
<1> SUFFICES ASSUME TypeOK, GapInv
             PROVE  NoGap
  OBVIOUS
<1>1. DOMAIN sent = 1..Len(sent)
  BY DEF TypeOK
<1>2. \A i \in 1..Len(sent) : \A m \in (afterId + 1)..(sent[i] - 1) : m \in ToSet(sent)
  BY DEF GapInv, CursorInv, Written
<1> QED
  BY <1>1, <1>2 DEF NoGap

\* If both the runner and the reconciler are in the process of the stream, or
\* neither, every frame comes after all the rows before it that the client does
\* not have: replay, catch-up, live events and poll leave no row out between
\* them, whichever of them writes first (streamToSSE, session/sse.ts).
THEOREM NoGapHolds ==
  ASSUME Placements \subseteq Together
  PROVE  SseSpec => []NoGap
<1>1. SseInit => GapInv
  BY InitGapFree DEF SseInit
<1>2. SseInv /\ SseInv' /\ GapInv /\ [SseNext]_sseVars => GapInv'
  BY GapKept
<1>3. SseInv /\ GapInv => NoGap
  BY GapInvIsNoGap DEF SseInv, TypeInv
<1>4. SseSpec => []SseInv
  BY SseInvHolds, PTL
<1> QED
  BY <1>1, <1>2, <1>3, <1>4, PTL DEF SseSpec
=============================================================================
