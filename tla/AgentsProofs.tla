----------------------------- MODULE AgentsProofs ---------------------------
(***************************************************************************)
(* Proofs about Agents, the runs of every kind of agent.                   *)
(*                                                                         *)
(* The adapters share AgentCall, and most of their steps change only what  *)
(* they queue and how far the call has come.  Each action of the model is  *)
(* therefore first classified by a shape: what it does to the call, to the *)
(* process of a child, to the connection of an ACP agent.  Every invariant *)
(* is then a conjunct of CallsInv, preserved by each shape, and the        *)
(* refinement of AgentRun follows from the shapes too.  The event bridge   *)
(* and the messages of the tool loop have invariants of their own,         *)
(* BridgeInv and LoopOK, at the end of the module.                         *)
(***************************************************************************)
EXTENDS Agents, FiniteSetTheorems, WellFoundedInduction, TLAPS

-----------------------------------------------------------------------------
(* Induction, as a statement about sets.                                   *)

LEMMA Least ==
  ASSUME NEW T, T \subseteq Nat, T # {}
  PROVE  \E x \in T : \A y \in T : x <= y
<1>1. \E x \in T : \A y \in T : ~ (<<y, x>> \in OpToRel(<, Nat))
  BY WFMin, NatLessThanWellFounded, Zenon
<1>2. PICK x \in T : \A y \in T : ~ (<<y, x>> \in OpToRel(<, Nat))
  BY <1>1, Zenon
<1>3. ASSUME NEW y \in T PROVE x <= y
  <2>1. x \in Nat /\ y \in Nat
    BY <1>2
  <2>2. ~ (y < x)
    BY <1>2, <2>1 DEF OpToRel
  <2> QED
    BY <2>1, <2>2
<1> QED
  BY <1>3

LEMMA Induction ==
  ASSUME NEW n \in Nat, NEW T, 0 \in T, \A i \in 1..n : i - 1 \in T => i \in T
  PROVE  0..n \subseteq T
<1> DEFINE F == {i \in 0..n : i \notin T}
<1> SUFFICES ASSUME F # {} PROVE FALSE
  OBVIOUS
<1>1. F \subseteq Nat
  OBVIOUS
<1>2. PICK x \in F : \A y \in F : x <= y
  BY <1>1, Least
<1>3. x # 0 /\ x \in 1..n
  OBVIOUS
<1>4. x - 1 \in 0..n /\ ~(x <= x - 1)
  BY <1>3
<1>5. x - 1 \in T
  BY <1>2, <1>4
<1> QED
  BY <1>3, <1>5

-----------------------------------------------------------------------------
(* FoldLeft() of the community modules, for an operator that is given as a *)
(* function of the place and what was folded before.                       *)

Folding(g, n, base, op) ==
  \A s \in SUBSET (1..n) :
    g[s] = IF s = {} THEN base ELSE op[Max(s)][g[s \ {Max(s)}]]

LEMMA MaxOf ==
  ASSUME NEW n \in Nat, NEW s \in SUBSET (1..n)
  PROVE  /\ s # {} => Max(s) \in s /\ s \ {Max(s)} \in SUBSET (1..n)
         /\ n \in s => Max(s) = n
<1>1. ASSUME s # {} PROVE \E x \in s : \A y \in s : x >= y
  <2> DEFINE T == {n - x : x \in s}
  <2>1. T \subseteq Nat /\ T # {}
    <3>1. \A x \in s : x \in Int /\ n - x \in Nat
      OBVIOUS
    <3>2. PICK x : x \in s
      BY <1>1
    <3>3. n - x \in T
      BY <3>2
    <3> QED
      BY <3>1, <3>3
  <2>2. PICK t \in T : \A u \in T : t <= u
    BY <2>1, Least
  <2>3. PICK x \in s : t = n - x
    OBVIOUS
  <2>4. ASSUME NEW y \in s PROVE x >= y
    <3>1. n - y \in T
      OBVIOUS
    <3>2. n - x <= n - y
      BY <2>2, <2>3, <3>1
    <3>3. x \in Int /\ y \in Int
      OBVIOUS
    <3> QED
      BY <3>2, <3>3, SMT
  <2> QED
    BY <2>4
<1>2. ASSUME s # {} PROVE Max(s) \in s /\ \A y \in s : Max(s) >= y
  BY <1>1, <1>2 DEF Max
<1>3. ASSUME n \in s PROVE Max(s) = n
  <2>1. Max(s) \in 1..n /\ Max(s) >= n
    BY <1>2, <1>3
  <2> QED
    BY <2>1
<1> QED
  BY <1>2, <1>3

\* There is such a function.
LEMMA FoldingExists ==
  ASSUME NEW n \in Nat, NEW A, NEW base \in A, NEW op \in [1..n -> [A -> A]]
  PROVE  \E g \in [SUBSET (1..n) -> A] : Folding(g, n, base, op)
<1> DEFINE T == {k \in 0..n : \E g \in [SUBSET (1..k) -> A] : Folding(g, k, base, op)}
<1>1. 0 \in T
  <2> DEFINE g == [s \in SUBSET (1..0) |-> base]
  <2>1. SUBSET (1..0) = {{}}
    OBVIOUS
  <2>2. Folding(g, 0, base, op)
    BY <2>1 DEF Folding
  <2> QED
    BY <2>2
<1>2. ASSUME NEW k \in 1..n, k - 1 \in T
      PROVE  k \in T
  <2>1. PICK g \in [SUBSET (1..(k - 1)) -> A] : Folding(g, k - 1, base, op)
    BY <1>2
  <2> DEFINE h == [s \in SUBSET (1..k) |-> IF k \in s THEN op[k][g[s \ {k}]] ELSE g[s]]
  <2>2. \A s \in SUBSET (1..k) : /\ s \ {k} \in SUBSET (1..(k - 1))
                                 /\ k \notin s => s \in SUBSET (1..(k - 1))
    OBVIOUS
  <2>3. h \in [SUBSET (1..k) -> A]
    BY <2>1, <2>2
  <2>4. ASSUME NEW s \in SUBSET (1..k)
        PROVE  h[s] = IF s = {} THEN base ELSE op[Max(s)][h[s \ {Max(s)}]]
    <3>1. CASE k \in s
      <4>1. Max(s) = k /\ k \notin (s \ {k}) /\ s # {}
        BY <3>1, MaxOf
      <4>2. h[s] = op[k][g[s \ {k}]] /\ h[s \ {k}] = g[s \ {k}]
        BY <3>1, <4>1
      <4> QED
        BY <4>1, <4>2
    <3>2. CASE k \notin s
      <4>1. s \in SUBSET (1..(k - 1)) /\ h[s] = g[s] /\ k - 1 \in Nat
        BY <2>2, <3>2
      <4>2. CASE s = {}
        BY <2>1, <4>1, <4>2 DEF Folding
      <4>3. CASE s # {}
        <5>1. s \ {Max(s)} \in SUBSET (1..(k - 1)) /\ k \notin (s \ {Max(s)})
          BY <3>2, <4>1, <4>3, MaxOf
        <5>2. h[s \ {Max(s)}] = g[s \ {Max(s)}]
          BY <5>1
        <5> QED
          BY <2>1, <4>1, <4>3, <5>2 DEF Folding
      <4> QED
        BY <4>2, <4>3
    <3> QED
      BY <3>1, <3>2
  <2>5. Folding(h, k, base, op)
    BY <2>4 DEF Folding
  <2>6. k \in 0..n
    OBVIOUS
  <2> HIDE DEF h
  <2> QED
    BY <2>3, <2>5, <2>6
<1>3. n \in T
  <2> HIDE DEF T
  <2>1. 0..n \subseteq T
    BY <1>1, <1>2, Induction
  <2> QED
    BY <2>1
<1> QED
  BY <1>3

-----------------------------------------------------------------------------
(* The summary of events, folded.                                          *)

Others == {"text", "native", "error"}

Events ==
  [type : {"agent_start", "tool_call"} \cup Others]
    \cup [type : {"turn_end"}, toolCallCount : Int]
    \cup [type : {"agent_end"}, reason : Finish]

EventTypes == {"agent_start", "tool_call", "turn_end", "agent_end"} \cup Others

Summaries ==
  [first : {"none"} \cup EventTypes, last : {"none", "event", "agent_end"},
   starts : Nat, ends : Nat, errored : BOOLEAN, reason : {"none"} \cup Finish,
   uncounted : Nat, miscounted : BOOLEAN]

Noted(e, events) == FoldLeft(Note, e, events)

LEMMA NoteType ==
  ASSUME NEW e \in Summaries, NEW x \in Events
  PROVE  Note(e, x) \in Summaries
<1>1. /\ x.type \in EventTypes
      /\ x.type = "agent_end" => x.reason \in Finish
  BY DEF Events, EventTypes, Others
<1>2. /\ e.first \in {"none"} \cup EventTypes /\ e.starts \in Nat /\ e.ends \in Nat
      /\ e.reason \in {"none"} \cup Finish /\ e.uncounted \in Nat
  BY DEF Summaries
<1>3. e.errored \in BOOLEAN /\ e.miscounted \in BOOLEAN
  BY Zenon DEF Summaries
<1>4. /\ (IF e.first = "none" THEN x.type ELSE e.first) \in {"none"} \cup EventTypes
      /\ (IF x.type = "agent_end" THEN "agent_end" ELSE "event") \in {"none", "event", "agent_end"}
      /\ e.starts + (IF x.type = "agent_start" THEN 1 ELSE 0) \in Nat
      /\ e.ends + (IF x.type = "agent_end" THEN 1 ELSE 0) \in Nat
      /\ (IF x.type = "agent_end" THEN x.reason ELSE e.reason) \in {"none"} \cup Finish
      /\ (CASE x.type = "tool_call" -> e.uncounted + 1
            [] x.type = "turn_end" -> 0
            [] OTHER -> e.uncounted) \in Nat
  BY <1>1, <1>2
<1>5. /\ (e.errored \/ x.type = "error") \in BOOLEAN
      /\ (e.miscounted \/ (x.type = "turn_end" /\ x.toolCallCount # e.uncounted)) \in BOOLEAN
  OBVIOUS
<1> QED
  BY <1>4, <1>5, Zenon DEF Note, Summaries

LEMMA UpTo ==
  ASSUME NEW n \in Nat, NEW i \in 1..n
  PROVE  1..i \in SUBSET (1..n) /\ i \in 1..i /\ 1..i # {} /\ (1..i) \ {i} = 1..(i - 1)
<1>1. \A x \in 1..i : x \in 1..n
  OBVIOUS
<1>2. i \in 1..i
  OBVIOUS
<1>3. \A x : x \in 1..i /\ x # i <=> x \in 1..(i - 1)
  OBVIOUS
<1>4. (1..i) \ {i} = 1..(i - 1)
  BY <1>3, Zenon
<1> QED
  BY <1>1, <1>2, <1>4, Zenon

\* The fold goes through the sequence from its beginning.
Steps(f, e, events) ==
  /\ f[0] = e
  /\ \A i \in 1..Len(events) : f[i] = Note(f[i - 1], events[i])

LEMMA NotedSteps ==
  ASSUME NEW e \in Summaries, NEW s \in Seq(Events)
  PROVE  \E f \in [0..Len(s) -> Summaries] : Steps(f, e, s) /\ Noted(e, s) = f[Len(s)]
<1> DEFINE n == Len(s)
           op == [i \in 1..n |-> [x \in Summaries |-> Note(x, s[i])]]
           It(g) == [t \in SUBSET (DOMAIN s) |->
                       IF t = {} THEN e ELSE Note(g[t \ {Max(t)}], s[Max(t)])]
           iter == CHOOSE g : g = It(g)
<1>1. n \in Nat /\ DOMAIN s = 1..n /\ \A i \in 1..n : s[i] \in Events
  OBVIOUS
<1>2. op \in [1..n -> [Summaries -> Summaries]]
  BY <1>1, NoteType
<1>3. PICK g \in [SUBSET (1..n) -> Summaries] : Folding(g, n, e, op)
  <2> HIDE DEF op
  <2> QED
    BY <1>1, <1>2, FoldingExists
<1>4. g = It(g)
  <2>1. ASSUME NEW t \in SUBSET (1..n)
        PROVE  g[t] = IF t = {} THEN e ELSE Note(g[t \ {Max(t)}], s[Max(t)])
    <3>1. t # {} => Max(t) \in 1..n /\ t \ {Max(t)} \in SUBSET (1..n)
      BY <1>1, MaxOf
    <3>2. t # {} => op[Max(t)][g[t \ {Max(t)}]] = Note(g[t \ {Max(t)}], s[Max(t)])
      BY <1>3, <3>1
    <3> QED
      BY <1>3, <3>2 DEF Folding
  <2> QED
    BY <1>1, <2>1
<1>5. iter = It(iter)
  BY <1>4
<1>6. Noted(e, s) = iter[DOMAIN s]
  BY DEF Noted, FoldLeft, MapThenFoldSet
<1> DEFINE f == [i \in 0..n |-> iter[1..i]]
<1>7. iter[1..0] = e
  <2>1. 1..0 \in SUBSET (DOMAIN s) /\ 1..0 = {}
    OBVIOUS
  <2> HIDE DEF iter
  <2> QED
    BY <1>5, <2>1
<1>8. ASSUME NEW i \in 1..n
      PROVE  iter[1..i] = Note(iter[1..(i - 1)], s[i])
  <2>1. /\ 1..i \in SUBSET (1..n) /\ i \in 1..i /\ 1..i # {} /\ (1..i) \ {i} = 1..(i - 1)
    BY <1>1, UpTo, Zenon
  <2>2. Max(1..i) = i
    <3>1. 1..i \in SUBSET (1..i) /\ i \in Nat
      OBVIOUS
    <3> QED
      BY <2>1, <3>1, MaxOf
  <2> HIDE DEF iter
  <2> QED
    BY <1>1, <1>5, <2>1, <2>2
<1> HIDE DEF iter
<1>9. f \in [0..n -> Summaries]
  <2> DEFINE T == {i \in 0..n : iter[1..i] \in Summaries}
  <2>1. 0 \in T
    BY <1>7
  <2>2. \A i \in 1..n : i - 1 \in T => i \in T
    BY <1>1, <1>8, NoteType
  <2> HIDE DEF T
  <2>3. 0..n \subseteq T
    BY <2>1, <2>2, <1>1, Induction
  <2> QED
    BY <2>3 DEF T
<1>10. Steps(f, e, s)
  BY <1>1, <1>7, <1>8 DEF Steps
<1>11. f[n] = iter[DOMAIN s]
  BY <1>1
<1> QED
  BY <1>6, <1>9, <1>10, <1>11

\* There is one such way.
LEMMA StepsAgree ==
  ASSUME NEW e, NEW s, NEW t, Len(s) \in Nat, Len(t) \in Nat, Len(s) <= Len(t),
         \A i \in 1..Len(s) : s[i] = t[i],
         NEW f, NEW g, Steps(f, e, s), Steps(g, e, t)
  PROVE  \A i \in 0..Len(s) : f[i] = g[i]
<1> DEFINE T == {i \in 0..Len(s) : f[i] = g[i]}
<1>1. 0 \in T
  BY DEF Steps
<1>2. ASSUME NEW i \in 1..Len(s), i - 1 \in T
      PROVE  i \in T
  <2>1. f[i] = Note(f[i - 1], s[i]) /\ g[i] = Note(g[i - 1], t[i])
    BY DEF Steps
  <2> QED
    BY <1>2, <2>1
<1> HIDE DEF T
<1>3. 0..Len(s) \subseteq T
  BY <1>1, <1>2, Induction
<1> QED
  BY <1>3 DEF T

LEMMA NotedNothing ==
  ASSUME NEW e \in Summaries
  PROVE  Noted(e, <<>>) = e
<1>1. <<>> \in Seq(Events) /\ Len(<<>>) = 0
  OBVIOUS
<1>2. PICK f \in [0..Len(<<>>) -> Summaries] : Steps(f, e, <<>>) /\ Noted(e, <<>>) = f[Len(<<>>)]
  BY <1>1, NotedSteps
<1> QED
  BY <1>1, <1>2 DEF Steps

LEMMA NotedOne ==
  ASSUME NEW e \in Summaries, NEW x \in Events
  PROVE  Noted(e, <<x>>) = Note(e, x)
<1>1. <<x>> \in Seq(Events) /\ Len(<<x>>) = 1 /\ <<x>>[1] = x
  OBVIOUS
<1>2. PICK f \in [0..Len(<<x>>) -> Summaries] : Steps(f, e, <<x>>) /\ Noted(e, <<x>>) = f[Len(<<x>>)]
  BY <1>1, NotedSteps
<1>3. f[1] = Note(f[1 - 1], <<x>>[1]) /\ f[0] = e
  BY <1>1, <1>2 DEF Steps
<1> QED
  BY <1>1, <1>2, <1>3

LEMMA NotedType ==
  ASSUME NEW e \in Summaries, NEW s \in Seq(Events)
  PROVE  Noted(e, s) \in Summaries
<1>1. PICK f \in [0..Len(s) -> Summaries] : Noted(e, s) = f[Len(s)]
  BY NotedSteps
<1> QED
  BY <1>1

LEMMA NotedBoth ==
  ASSUME NEW e \in Summaries, NEW s \in Seq(Events), NEW t \in Seq(Events)
  PROVE  Noted(e, s \o t) = Noted(Noted(e, s), t)
<1> DEFINE n == Len(s)
           m == Len(t)
<1>1. /\ s \o t \in Seq(Events) /\ Len(s \o t) = n + m /\ n \in Nat /\ m \in Nat
      /\ \A i \in 1..n : (s \o t)[i] = s[i]
      /\ \A i \in 1..m : (s \o t)[n + i] = t[i]
  OBVIOUS
<1>2. PICK f : Steps(f, e, s) /\ Noted(e, s) = f[n]
  BY NotedSteps
<1>3. PICK h : Steps(h, e, s \o t) /\ Noted(e, s \o t) = h[n + m]
  BY <1>1, NotedSteps
<1>4. PICK g : Steps(g, f[n], t) /\ Noted(f[n], t) = g[m]
  BY <1>2, NotedType, NotedSteps
<1>5. f[n] = h[n]
  <2> DEFINE both == s \o t
  <2>1. /\ n \in 0..n /\ n <= Len(both) /\ Len(both) \in Nat /\ n \in Nat
        /\ \A i \in 1..n : s[i] = both[i]
    BY <1>1
  <2>2. Steps(f, e, s) /\ Steps(h, e, both)
    BY <1>2, <1>3
  <2> HIDE DEF both
  <2>3. \A i \in 0..n : f[i] = h[i]
    BY <2>1, <2>2, StepsAgree
  <2> QED
    BY <2>1, <2>3
<1> DEFINE k == [i \in 0..m |-> h[n + i]]
<1>6. Steps(k, f[n], t)
  <2>1. ASSUME NEW i \in 1..m
        PROVE  h[n + i] = Note(h[n + (i - 1)], t[i])
    <3>1. n + i \in 1..Len(s \o t) /\ (n + i) - 1 = n + (i - 1) /\ i \in 0..m /\ i - 1 \in 0..m
      BY <1>1
    <3>2. h[n + i] = Note(h[(n + i) - 1], (s \o t)[n + i])
      BY <1>3, <3>1 DEF Steps
    <3> QED
      BY <1>1, <3>1, <3>2
  <2>2. \A i \in 1..m : i \in 0..m /\ i - 1 \in 0..m
    BY <1>1
  <2>3. 0 \in 0..m /\ n + 0 = n
    BY <1>1
  <2> QED
    BY <1>5, <2>1, <2>2, <2>3 DEF Steps
<1>7. k[m] = g[m]
  <2> HIDE DEF k
  <2>1. m \in 0..m /\ m <= m
    BY <1>1
  <2> QED
    BY <1>1, <1>4, <1>6, <2>1, StepsAgree
<1>8. k[m] = h[n + m]
  BY <1>1
<1> QED
  BY <1>2, <1>3, <1>4, <1>7, <1>8

Ordinary(s) == \A i \in 1..Len(s) : s[i].type \notin {"agent_start", "agent_end"}

Reports(s) == \E i \in 1..Len(s) : s[i].type = "error"

LEMMA NoteFields ==
  ASSUME NEW e \in Summaries, NEW x \in Events
  PROVE  /\ Note(e, x).first = IF e.first = "none" THEN x.type ELSE e.first
         /\ Note(e, x).last = IF x.type = "agent_end" THEN "agent_end" ELSE "event"
         /\ Note(e, x).starts = e.starts + (IF x.type = "agent_start" THEN 1 ELSE 0)
         /\ Note(e, x).ends = e.ends + (IF x.type = "agent_end" THEN 1 ELSE 0)
         /\ Note(e, x).reason = IF x.type = "agent_end" THEN x.reason ELSE e.reason
         /\ e.errored \/ x.type = "error" => Note(e, x).errored
         /\ x.type = "tool_call" => Note(e, x).uncounted = e.uncounted + 1
         /\ x.type = "turn_end" => Note(e, x).uncounted = 0
         /\ x.type \notin {"tool_call", "turn_end"} => Note(e, x).uncounted = e.uncounted
         /\ Note(e, x).miscounted =>
              e.miscounted \/ (x.type = "turn_end" /\ x.toolCallCount # e.uncounted)
<1>1. /\ Note(e, x).first = IF e.first = "none" THEN x.type ELSE e.first
      /\ Note(e, x).last = IF x.type = "agent_end" THEN "agent_end" ELSE "event"
      /\ Note(e, x).starts = e.starts + (IF x.type = "agent_start" THEN 1 ELSE 0)
      /\ Note(e, x).ends = e.ends + (IF x.type = "agent_end" THEN 1 ELSE 0)
      /\ Note(e, x).reason = IF x.type = "agent_end" THEN x.reason ELSE e.reason
  BY Zenon DEF Note
<1>2. /\ e.errored \/ x.type = "error" => Note(e, x).errored
      /\ Note(e, x).miscounted =>
           e.miscounted \/ (x.type = "turn_end" /\ x.toolCallCount # e.uncounted)
  BY Zenon DEF Note
<1>3. Note(e, x).uncounted = CASE x.type = "tool_call" -> e.uncounted + 1
                               [] x.type = "turn_end" -> 0
                               [] OTHER -> e.uncounted
  BY Zenon DEF Note
<1>4. /\ x.type = "tool_call" => Note(e, x).uncounted = e.uncounted + 1
      /\ x.type = "turn_end" => Note(e, x).uncounted = 0
      /\ x.type \notin {"tool_call", "turn_end"} => Note(e, x).uncounted = e.uncounted
  BY <1>3
<1> QED
  BY <1>1, <1>2, <1>4

\* Events between the first and the last change nothing that only these two may.
LEMMA NotedOrdinary ==
  ASSUME NEW e \in Summaries, NEW s \in Seq(Events), Ordinary(s)
  PROVE  /\ Noted(e, s).starts = e.starts /\ Noted(e, s).ends = e.ends
         /\ Noted(e, s).reason = e.reason
         /\ e.first # "none" => Noted(e, s).first = e.first
         /\ e.errored \/ Reports(s) => Noted(e, s).errored
         /\ Noted(e, s).last = IF s = <<>> THEN e.last ELSE "event"
<1> DEFINE n == Len(s)
<1>1. n \in Nat /\ \A i \in 1..n : s[i] \in Events /\ s[i].type \notin {"agent_start", "agent_end"}
  BY DEF Ordinary
<1>2. PICK f \in [0..n -> Summaries] : Steps(f, e, s) /\ Noted(e, s) = f[n]
  BY NotedSteps
<1>3. ASSUME NEW i \in 1..n
      PROVE  /\ f[i - 1] \in Summaries /\ f[i] = Note(f[i - 1], s[i])
             /\ s[i] \in Events /\ s[i].type \notin {"agent_start", "agent_end"}
  <2>1. i - 1 \in 0..n
    BY <1>1
  <2> QED
    BY <1>1, <1>2, <2>1 DEF Steps
<1> DEFINE Same(i) == /\ f[i].starts = e.starts /\ f[i].ends = e.ends /\ f[i].reason = e.reason
                      /\ e.first # "none" => f[i].first = e.first
           T == {i \in 0..n : Same(i)}
           R == {i \in 0..n : e.errored \/ (\E j \in 1..i : s[j].type = "error") => f[i].errored}
<1>4. n \in T
  <2>1. f[0] = e
    BY <1>2 DEF Steps
  <2>2. 0 \in T
    BY <2>1
  <2>3. ASSUME NEW i \in 1..n, i - 1 \in T
        PROVE  i \in T
    <3>1. Same(i - 1) /\ e.starts \in Nat /\ e.ends \in Nat
      BY <2>3 DEF Summaries
    <3>2. Same(i)
      BY <1>3, <3>1, NoteFields
    <3> QED
      BY <3>2
  <2> HIDE DEF T
  <2>4. 0..n \subseteq T
    BY <1>1, <2>2, <2>3, Induction
  <2> QED
    BY <1>1, <2>4
<1>5. n \in R
  <2>1. f[0] = e
    BY <1>2 DEF Steps
  <2>2. 0 \in R
    BY <2>1
  <2>3. ASSUME NEW i \in 1..n, i - 1 \in R
        PROVE  i \in R
    <3>1. e.errored \/ (\E j \in 1..(i - 1) : s[j].type = "error") => f[i - 1].errored
      BY <2>3
    <3>2. f[i - 1].errored \/ s[i].type = "error" => f[i].errored
      <4>1. f[i - 1] \in Summaries /\ s[i] \in Events /\ f[i] = Note(f[i - 1], s[i])
        BY <1>3
      <4>2. f[i - 1].errored \/ s[i].type = "error" => Note(f[i - 1], s[i]).errored
        BY <4>1, NoteFields
      <4> QED
        BY <4>1, <4>2, Zenon
    <3>3. 1..i = (1..(i - 1)) \cup {i}
      OBVIOUS
    <3>4. e.errored \/ (\E j \in 1..i : s[j].type = "error") => f[i].errored
      BY <3>1, <3>2, <3>3, Zenon
    <3>5. i \in 0..n
      OBVIOUS
    <3> QED
      BY <3>4, <3>5, Zenon
  <2> HIDE DEF R
  <2>4. 0..n \subseteq R
    BY <1>1, <2>2, <2>3, Induction
  <2> QED
    BY <1>1, <2>4
<1>6. f[n].last = IF s = <<>> THEN e.last ELSE "event"
  <2>1. CASE s = <<>>
    BY <1>2, <2>1 DEF Steps
  <2>2. CASE s # <<>>
    <3>1. n \in 1..n
      BY <2>2
    <3> QED
      BY <1>3, <2>2, <3>1, NoteFields
  <2> QED
    BY <2>1, <2>2
<1> QED
  BY <1>2, <1>4, <1>5, <1>6 DEF Reports

\* Tool calls are counted, and what is neither a tool call nor the end of a
\* turn is not.
LEMMA NotedUncounted ==
  ASSUME NEW e \in Summaries, NEW s \in Seq(Events), NEW c \in {0, 1},
         \A i \in 1..Len(s) : /\ s[i].type # "turn_end"
                              /\ c = IF s[i].type = "tool_call" THEN 1 ELSE 0
  PROVE  /\ Noted(e, s).uncounted = e.uncounted + c * Len(s)
         /\ Noted(e, s).miscounted => e.miscounted
<1> DEFINE n == Len(s)
<1>1. n \in Nat /\ \A i \in 1..n : s[i] \in Events
  OBVIOUS
<1>2. PICK f \in [0..n -> Summaries] : Steps(f, e, s) /\ Noted(e, s) = f[n]
  BY NotedSteps
<1>3. ASSUME NEW i \in 1..n
      PROVE  /\ f[i - 1] \in Summaries /\ f[i] = Note(f[i - 1], s[i]) /\ s[i] \in Events
  <2>1. i - 1 \in 0..n
    BY <1>1
  <2> QED
    BY <1>1, <1>2, <2>1 DEF Steps
<1>4. ASSUME NEW i \in 1..n
      PROVE  /\ f[i].uncounted = f[i - 1].uncounted + c
             /\ f[i].miscounted => f[i - 1].miscounted
  <2>1. f[i].miscounted => f[i - 1].miscounted
    <3>1. f[i - 1] \in Summaries /\ s[i] \in Events /\ f[i] = Note(f[i - 1], s[i])
      BY <1>3
    <3>2. Note(f[i - 1], s[i]).miscounted => f[i - 1].miscounted \/ s[i].type = "turn_end"
      BY <3>1, NoteFields
    <3>3. s[i].type # "turn_end"
      OBVIOUS
    <3> QED
      BY <3>1, <3>2, <3>3, Zenon
  <2>2. f[i - 1].uncounted \in Nat
    BY <1>3 DEF Summaries
  <2>3. f[i].uncounted = f[i - 1].uncounted + c
    BY <1>3, <2>2, NoteFields
  <2> QED
    BY <2>1, <2>3, Zenon
<1> DEFINE T == {i \in 0..n : f[i].uncounted = e.uncounted + c * i}
           R == {i \in 0..n : f[i].miscounted => e.miscounted}
<1>5. n \in T
  <2>1. f[0] = e /\ e.uncounted \in Nat
    BY <1>2 DEF Steps, Summaries
  <2>2. 0 \in T
    BY <2>1
  <2>3. ASSUME NEW i \in 1..n, i - 1 \in T
        PROVE  i \in T
    <3>1. f[i].uncounted = e.uncounted + c * (i - 1) + c
      BY <1>4, <2>3
    <3>2. c * (i - 1) \in Nat /\ c * (i - 1) + c = c * i
      BY <1>1
    <3>3. f[i].uncounted = e.uncounted + c * i
      BY <1>1, <2>1, <3>1, <3>2
    <3> QED
      BY <1>1, <3>3
  <2> HIDE DEF T
  <2>4. 0..n \subseteq T
    BY <1>1, <2>2, <2>3, Induction
  <2> QED
    BY <1>1, <2>4
<1>6. n \in R
  <2>1. f[0] = e
    BY <1>2 DEF Steps
  <2>2. 0 \in R
    BY <2>1
  <2>3. ASSUME NEW i \in 1..n, i - 1 \in R
        PROVE  i \in R
    <3>1. f[i - 1].miscounted => e.miscounted
      BY <2>3
    <3>2. f[i].miscounted => e.miscounted
      BY <1>4, <3>1, Zenon
    <3>3. i \in 0..n
      OBVIOUS
    <3> QED
      BY <3>2, <3>3, Zenon
  <2> HIDE DEF R
  <2>4. 0..n \subseteq R
    BY <1>1, <2>2, <2>3, Induction
  <2> QED
    BY <1>1, <2>4
<1> QED
  BY <1>2, <1>5, <1>6

-----------------------------------------------------------------------------
(* The messages of the tool loop.                                          *)

LEMMA ConcatenatedType ==
  ASSUME NEW S, NEW s \in Seq(S), NEW t \in Seq(S)
  PROVE  s \o t \in Seq(S)
OBVIOUS

LEMMA Concatenated ==
  ASSUME NEW S, NEW s \in Seq(S), NEW t \in Seq(S)
  PROVE  /\ s \o t \in Seq(S) /\ Len(s \o t) = Len(s) + Len(t)
         /\ \A i \in 1..Len(s) : (s \o t)[i] = s[i]
         /\ \A k \in 1..Len(t) : (s \o t)[Len(s) + k] = t[k]
OBVIOUS

\* FlattenSeq() puts one sequence behind the other.
LEMMA FlattenSteps ==
  ASSUME NEW S, NEW q \in Seq(Seq(S)), q # <<>>
  PROVE  \E f \in [1..Len(q) -> Seq(S)] :
           /\ f[1] = q[1]
           /\ \A i \in 2..Len(q) : f[i] = f[i - 1] \o q[i]
           /\ FlattenSeq(q) = f[Len(q)]
<1> DEFINE n == Len(q)
           It(g, k) == [i \in 1..k |-> IF i = 1 THEN q[i] ELSE g[i - 1] \o q[i]]
           flatten == CHOOSE g : g = It(g, n)
           T == {k \in 0..n : \E g : g = It(g, k)}
<1>1. n \in Nat \ {0} /\ 1 \in 1..n /\ \A i \in 1..n : q[i] \in Seq(S)
  OBVIOUS
<1>2. 0 \in T
  <2> DEFINE g == [i \in 1..0 |-> q[i]]
  <2>1. g = It(g, 0)
    OBVIOUS
  <2> HIDE DEF g, It
  <2> QED
    BY <1>1, <2>1
<1>3. ASSUME NEW k \in 1..n, k - 1 \in T
      PROVE  k \in T
  <2>1. PICK g : g = It(g, k - 1)
    BY <1>3
  <2> DEFINE h == [i \in 1..k |-> IF i = k THEN (IF k = 1 THEN q[1] ELSE g[k - 1] \o q[k]) ELSE g[i]]
  <2>2. ASSUME NEW i \in 1..k
        PROVE  h[i] = IF i = 1 THEN q[i] ELSE h[i - 1] \o q[i]
    <3>1. CASE i = k
      BY <3>1
    <3>2. CASE i # k
      <4>1. i \in 1..(k - 1) /\ h[i] = g[i] /\ (i # 1 => i - 1 \in 1..k /\ i - 1 # k)
        BY <3>2
      <4>2. g[i] = IF i = 1 THEN q[i] ELSE g[i - 1] \o q[i]
        <5> HIDE DEF h
        <5> QED
          BY <2>1, <4>1
      <4> QED
        BY <4>1, <4>2
    <3> QED
      BY <3>1, <3>2
  <2>3. h = It(h, k)
    <3>1. h = [i \in 1..k |-> h[i]]
      OBVIOUS
    <3> HIDE DEF h
    <3> QED
      BY <2>2, <3>1
  <2>4. k \in 0..n
    BY <1>1
  <2> HIDE DEF h
  <2> QED
    BY <2>3, <2>4
<1>4. \E g : g = It(g, n)
  <2> HIDE DEF T
  <2>1. 0..n \subseteq T
    BY <1>1, <1>2, <1>3, Induction
  <2>2. n \in T
    <3>1. n \in 0..n
      BY <1>1
    <3> QED
      BY <2>1, <3>1
  <2> HIDE DEF It
  <2> QED
    BY <2>2, Zenon DEF T
<1>5. flatten = It(flatten, n)
  BY <1>4
<1>6. FlattenSeq(q) = flatten[n]
  BY <1>1 DEF FlattenSeq
<1> HIDE DEF flatten
<1>7. /\ flatten[1] = q[1]
      /\ \A i \in 2..n : flatten[i] = flatten[i - 1] \o q[i]
      /\ flatten = [i \in 1..n |-> flatten[i]]
  <2>1. ASSUME NEW i \in 2..n PROVE flatten[i] = flatten[i - 1] \o q[i]
    <3>1. i \in 1..n /\ i # 1
      OBVIOUS
    <3>2. It(flatten, n)[i] = flatten[i - 1] \o q[i]
      BY <3>1
    <3> HIDE DEF It
    <3> QED
      BY <1>5, <3>2
  <2>2. flatten[1] = q[1]
    BY <1>1, <1>5
  <2>3. flatten = [i \in 1..n |-> flatten[i]]
    BY <1>5
  <2> QED
    BY <2>1, <2>2, <2>3
<1>8. \A i \in 1..n : flatten[i] \in Seq(S)
  <2> DEFINE U == {k \in 0..n : k = 0 \/ flatten[k] \in Seq(S)}
  <2>1. 0 \in U
    BY <1>1
  <2>2. ASSUME NEW k \in 1..n, k - 1 \in U
        PROVE  k \in U
    <3>1. CASE k = 1
      BY <1>1, <1>7, <3>1
    <3>2. CASE k # 1
      <4>1. k \in 2..n /\ flatten[k - 1] \in Seq(S) /\ q[k] \in Seq(S)
        BY <1>1, <2>2, <3>2
      <4>2. flatten[k] \in Seq(S)
        BY <1>7, <4>1, ConcatenatedType
      <4> QED
        BY <1>1, <4>2
    <3> QED
      BY <3>1, <3>2
  <2> HIDE DEF U
  <2>3. 0..n \subseteq U
    BY <1>1, <2>1, <2>2, Induction
  <2> QED
    BY <1>1, <2>3 DEF U
<1> QED
  <2>1. flatten \in [1..n -> Seq(S)]
    BY <1>7, <1>8
  <2> QED
    BY <1>6, <1>7, <2>1

LEMMA FlattenType ==
  ASSUME NEW S, NEW q \in Seq(Seq(S))
  PROVE  FlattenSeq(q) \in Seq(S)
<1>1. CASE q = <<>>
  BY <1>1 DEF FlattenSeq
<1>2. CASE q # <<>>
  <2>1. Len(q) \in 1..Len(q)
    BY <1>2
  <2>2. PICK f \in [1..Len(q) -> Seq(S)] : FlattenSeq(q) = f[Len(q)]
    BY <1>2, FlattenSteps
  <2> QED
    BY <2>1, <2>2
<1> QED
  BY <1>1, <1>2

\* SetToSeq() lists each element once.
LEMMA SetToSeqType ==
  ASSUME NEW S, IsFiniteSet(S)
  PROVE  /\ SetToSeq(S) \in Seq(S) /\ Len(SetToSeq(S)) = Cardinality(S)
         /\ Cardinality(S) \in Nat
         /\ \A x \in S : \E i \in 1..Cardinality(S) : SetToSeq(S)[i] = x
<1> DEFINE n == Cardinality(S)
<1>1. n \in Nat
  BY FS_CardinalityType
<1>2. PICK f \in Bijection(1..n, S) : TRUE
  <2>1. PICK m \in Nat : ExistsBijection(1..m, S)
    BY FS_NatBijection
  <2>2. m = n
    BY <2>1, FS_CountingElements
  <2> QED
    BY <2>1, <2>2 DEF ExistsBijection
<1>3. f \in [1..n -> S] /\ IsInjective(f)
  BY <1>2 DEF Bijection, Injection, IsInjective
<1>4. SetToSeq(S) \in [1..n -> S] /\ IsInjective(SetToSeq(S))
  BY <1>3 DEF SetToSeq
<1>5. SetToSeq(S) \in Injection(1..n, S)
  BY <1>4 DEF Injection, IsInjective
<1>6. IsFiniteSet(1..n) /\ Cardinality(1..n) = n
  BY <1>1, FS_Interval
<1>7. SetToSeq(S) \in Surjection(1..n, S)
  BY <1>5, <1>6, FS_Injection
<1> QED
  BY <1>1, <1>4, <1>7 DEF Surjection

\* A call of the loop is its round and its place in it.
LoopIds == Nat \X Nat
Said(c) == {c[i] : i \in DOMAIN c}
IdsIn(c) == UNION {c[i].ids : i \in DOMAIN c}
CallIds == LoopIds \cup UNION {IdsIn(c) : c \in Conversations}

\* What is said in the conversations, and by the loop.
Messages ==
  {Assistant(ids) : ids \in {x \in SUBSET LoopIds : IsFiniteSet(x)}}
    \cup {Result(id) : id \in CallIds}
    \cup UNION {Said(c) : c \in Conversations}

LEMMA MessageIds ==
  ASSUME NEW m \in Messages
  PROVE  m.ids \subseteq CallIds /\ IsFiniteSet(m.ids)
<1>1. CASE m \in UNION {Said(c) : c \in Conversations}
  <2>1. PICK c \in Conversations : m \in Said(c)
    BY <1>1
  <2>2. PICK i \in DOMAIN c : m = c[i]
    BY <2>1 DEF Said
  <2>3. m.ids \subseteq IdsIn(c)
    BY <2>2, Zenon DEF IdsIn
  <2>4. IdsIn(c) \subseteq CallIds
    BY Zenon DEF CallIds
  <2>5. IsFiniteSet(m.ids)
    BY <2>2, ConversationAssumption, Zenon
  <2> QED
    BY <2>3, <2>4, <2>5, Zenon
<1>2. CASE m \in {Assistant(ids) : ids \in {x \in SUBSET LoopIds : IsFiniteSet(x)}}
  <2>1. PICK ids \in {x \in SUBSET LoopIds : IsFiniteSet(x)} : m = Assistant(ids)
    BY <1>2, Zenon
  <2>2. m.ids = ids
    BY <2>1 DEF Assistant
  <2>3. ids \subseteq CallIds /\ IsFiniteSet(ids)
    BY Zenon DEF CallIds
  <2> QED
    BY <2>2, <2>3, Zenon
<1>3. CASE m \in {Result(id) : id \in CallIds}
  <2>1. PICK id \in CallIds : m = Result(id)
    BY <1>3
  <2>2. m.ids = {id}
    BY <2>1 DEF Result
  <2> QED
    BY <2>2, FS_Singleton
<1> QED
  <2>1. \/ m \in UNION {Said(c) : c \in Conversations}
        \/ m \in {Assistant(ids) : ids \in {x \in SUBSET LoopIds : IsFiniteSet(x)}}
        \/ m \in {Result(id) : id \in CallIds}
    BY Zenon DEF Messages
  <2> QED
    BY <1>1, <1>2, <1>3, <2>1, Zenon

LEMMA ConversationsType == Conversations \subseteq Seq(Messages)
<1> SUFFICES ASSUME NEW c \in Conversations
             PROVE  c \in Seq(Messages)
  OBVIOUS
<1>1. c \in Seq({c[i] : i \in DOMAIN c})
  BY ConversationAssumption
<1>2. {c[i] : i \in DOMAIN c} \subseteq Messages
  BY DEF Messages, Said
<1>3. Len(c) \in Nat /\ DOMAIN c = 1..Len(c) /\ \A i \in 1..Len(c) : c[i] \in Messages
  BY <1>1, <1>2
<1> QED
  BY <1>1, <1>3

LEMMA ResultsType ==
  ASSUME NEW ids \in SUBSET CallIds, IsFiniteSet(ids)
  PROVE  Results(ids) \in Seq(Messages)
<1> DEFINE S == {Result(id) : id \in ids}
<1>1. IsFiniteSet(S)
  <2> DEFINE f == [id \in ids |-> Result(id)]
  <2>1. f \in Surjection(ids, S)
    <3>1. f \in [ids -> S]
      OBVIOUS
    <3>2. \A x \in S : \E id \in ids : f[id] = x
      OBVIOUS
    <3> QED
      BY <3>1, <3>2, Zenon DEF Surjection
  <2> QED
    BY <2>1, FS_Surjection
<1>2. S \subseteq Messages
  <2> SUFFICES ASSUME NEW id \in ids PROVE Result(id) \in Messages
    BY Zenon
  <2>1. id \in CallIds
    OBVIOUS
  <2> QED
    BY <2>1, Zenon DEF Messages
<1> HIDE DEF S
<1>3. SetToSeq(S) \in Seq(S)
  BY <1>1, SetToSeqType
<1>4. SetToSeq(S) \in Seq(Messages)
  <2> DEFINE q == SetToSeq(S)
  <2>1. q \in Seq(S)
    BY <1>3
  <2> HIDE DEF q
  <2>2. q \in Seq(Messages)
    BY <1>2, <2>1
  <2> QED
    BY <2>2 DEF q
<1> QED
  BY <1>4, Zenon DEF Results, S

\* Before a message there is the one its run of tool messages begins with.
LEMMA RunHeadIs ==
  ASSUME NEW m \in Seq(Messages), NEW i \in 1..Len(m)
  PROVE  /\ RunHead(m, i) \in 1..i
         /\ m[RunHead(m, i)].role # "tool" \/ RunHead(m, i) = 1
         /\ \A j \in (RunHead(m, i) + 1)..i : m[j].role = "tool"
<1> DEFINE Heads(k, h) == /\ m[h].role # "tool" \/ h = 1
                          /\ \A j \in (h + 1)..k : m[j].role = "tool"
           T == {k \in 0..i : k = 0 \/ \E h \in 1..k : Heads(k, h)}
<1>1. i \in Nat /\ 0 \in T
  OBVIOUS
<1>2. ASSUME NEW k \in 1..i, k - 1 \in T
      PROVE  k \in T
  <2>1. CASE m[k].role # "tool" \/ k = 1
    BY <2>1
  <2>2. CASE m[k].role = "tool" /\ k # 1
    <3>1. PICK h \in 1..(k - 1) : Heads(k - 1, h)
      BY <1>2, <2>2
    <3>2. \A j \in (h + 1)..k : m[j].role = "tool"
      BY <2>2, <3>1
    <3> QED
      BY <3>1, <3>2
  <2> QED
    BY <2>1, <2>2
<1>3. i \in T
  <2> HIDE DEF T
  <2>1. 0..i \subseteq T
    BY <1>1, <1>2, Induction
  <2> QED
    BY <1>1, <2>1
<1>4. \E h \in 1..i : Heads(i, h)
  BY <1>3
<1> QED
  BY <1>4 DEF RunHead

LEMMA sanitizeType ==
  ASSUME NEW m \in Seq(Messages)
  PROVE  sanitizeToolPairs(m) \in Seq(Messages)
<1> DEFINE Stubs(i) ==
             LET head == m[RunHead(m, i)] IN
             IF RunEnds(m, i) /\ head.role = "assistant"
             THEN Results(head.ids \ Ids(m, "tool")) ELSE <<>>
           q == [i \in DOMAIN m |-> Kept(m, i) \o Stubs(i)]
<1>1. DOMAIN m = 1..Len(m) /\ Len(m) \in Nat
  OBVIOUS
<1>2. ASSUME NEW i \in 1..Len(m)
      PROVE  Kept(m, i) \o Stubs(i) \in Seq(Messages)
  <2>1. Kept(m, i) \in Seq(Messages)
    BY DEF Kept
  <2>2. Stubs(i) \in Seq(Messages)
    <3> DEFINE head == m[RunHead(m, i)]
    <3>1. RunHead(m, i) \in 1..Len(m)
      BY RunHeadIs
    <3>2. head \in Messages
      BY <3>1
    <3>3. head.ids \subseteq CallIds /\ IsFiniteSet(head.ids)
      BY <3>2, MessageIds
    <3>4. /\ head.ids \ Ids(m, "tool") \in SUBSET CallIds
          /\ IsFiniteSet(head.ids \ Ids(m, "tool"))
      BY <3>3, FS_Subset
    <3>5. Results(head.ids \ Ids(m, "tool")) \in Seq(Messages)
      BY <3>4, ResultsType
    <3> QED
      BY <3>5
  <2> HIDE DEF Stubs
  <2> QED
    BY <2>1, <2>2, ConcatenatedType
<1>3. q \in Seq(Seq(Messages))
  <2> HIDE DEF Stubs
  <2>1. q \in [1..Len(m) -> Seq(Messages)]
    BY <1>1, <1>2
  <2> QED
    BY <1>1, <2>1
<1>4. sanitizeToolPairs(m) = FlattenSeq(q)
  BY DEF sanitizeToolPairs
<1> HIDE DEF q
<1> QED
  BY <1>3, <1>4, FlattenType

LEMMA CompressedType ==
  ASSUME NEW m \in Seq(Messages), NEW c \in Compressed(m)
  PROVE  c \in Seq(Messages)
<1>1. PICK dropped : c = FlattenSeq([i \in DOMAIN m |-> IF i \in dropped THEN <<>> ELSE <<m[i]>>])
  BY DEF Compressed
<1>2. [i \in DOMAIN m |-> IF i \in dropped THEN <<>> ELSE <<m[i]>>] \in Seq(Seq(Messages))
  <2>1. DOMAIN m = 1..Len(m) /\ Len(m) \in Nat
    OBVIOUS
  <2>2. \A i \in 1..Len(m) : <<m[i]>> \in Seq(Messages) /\ <<>> \in Seq(Messages)
    OBVIOUS
  <2> QED
    BY <2>1, <2>2
<1> QED
  BY <1>1, <1>2, FlattenType

-----------------------------------------------------------------------------
(* Types.                                                                  *)

\* An adapter that is at work.
Working ==
  {"loading", "streaming", "prompting", "reading", "supervising", "initializing", "creating",
   "requesting", "consuming", "tools", "sleeping", "finalizing"}

Turn == [calls : Nat, pending : Int, lost : BOOLEAN]
Settlements == {"none", "pending", "rejected"} \cup Finish

CallTypeOK ==
  /\ kind \in Kinds /\ pc \in {"idle", "cleaning", "over"} \cup Working
  /\ aborted \in BOOLEAN /\ closed \in BOOLEAN
  /\ consumer \in {"none", "iterating", "left"}
  /\ emitted \in Summaries /\ turn \in Turn
  /\ finish \in Finish /\ result \in Settlements

Children ==
  [state : {"none", "spawning", "up", "gone", "failed"},
   told : {"nothing", "TERM", "KILL"}, timer : BOOLEAN, code : {"none", "zero", "other"}]

Acps ==
  [request : {"none", "awaited", "answered", "refused"}, ended : BOOLEAN,
   cancelSent : BOOLEAN, followUps : Nat, late : Nat]

Loops ==
  [initial : Seq(Messages), messages : Seq(Messages), attempt : Nat, round : Nat, force : BOOLEAN]

LoopTypeOK == loop \in Loops /\ (At("inference", "tools") => loop.messages # <<>>)

Memories ==
  [pc : {"off", "recalling", "running", "remembering", "over"}, wants : BOOLEAN,
   result : Settlements]

TypeOK ==
  CallTypeOK /\ child \in Children /\ acp \in Acps /\ LoopTypeOK /\ memory \in Memories

-----------------------------------------------------------------------------
(* What the steps of an adapter emit.                                      *)

LEMMA PushIs ==
  ASSUME NEW s
  PROVE  Push(s) <=> emitted' = IF closed THEN emitted ELSE Noted(emitted, s)
BY DEF Push, Noted

Plain(s) == s \in Seq(Events) /\ \A i \in 1..Len(s) : s[i].type \in Others

\* The methods of the TurnAccumulator: the events they push, and the turn.
Turns(s) ==
  \/ Plain(s) /\ turn' = turn
  \/ s = <<ToolCall>> /\ turn' = [turn EXCEPT !.calls = @ + 1] /\ kind # "inference"
  \/ \E p : Plain(p) /\ s = PendingTurnEnd \o p /\ FlushTurn
  \/ \E p : Plain(p) /\ s = TurnEnds \o p /\ EndTurn
  \/ \E n \in Nat : /\ s = [k \in 1..n |-> ToolCall]
                    /\ turn' = [MarkedTurn EXCEPT !.calls = @ + n] /\ kind = "inference"

LEMMA EventsType ==
  /\ AgentStart \in Events /\ Content \in Events /\ Native \in Events
  /\ ToolCall \in Events /\ ErrorEvent \in Events
  /\ \A n \in Int : TurnEnd(n) \in Events
  /\ \A r \in Finish : AgentEnd(r) \in Events
  /\ Content.type = "text" /\ Native.type = "native" /\ ErrorEvent.type = "error"
  /\ AgentStart.type = "agent_start" /\ ToolCall.type = "tool_call"
  /\ \A n : TurnEnd(n).type = "turn_end" /\ TurnEnd(n).toolCallCount = n
  /\ \A r : AgentEnd(r).type = "agent_end" /\ AgentEnd(r).reason = r
BY DEF Events, Others, AgentStart, Content, Native, ToolCall, ErrorEvent, TurnEnd, AgentEnd, Event

LEMMA OneOrTwo ==
  ASSUME NEW S, NEW x \in S, NEW y \in S
  PROVE  /\ <<x>> \in Seq(S) /\ Len(<<x>>) = 1 /\ <<x>>[1] = x
         /\ <<x, y>> \in Seq(S) /\ Len(<<x, y>>) = 2 /\ <<x, y>>[1] = x /\ <<x, y>>[2] = y
OBVIOUS

LEMMA PlainOnes ==
  /\ Plain(<<>>) /\ Plain(<<Content>>) /\ Plain(<<Native>>) /\ Plain(<<ErrorEvent>>)
  /\ Plain(<<Native, ErrorEvent>>) /\ Plain(<<ErrorEvent, Native>>)
  /\ Reports(<<ErrorEvent>>) /\ Reports(<<Native, ErrorEvent>>)
  /\ \A n \in Nat : Plain([k \in 1..n |-> Native])
<1> USE EventsType
<1>1. Plain(<<>>)
  BY DEF Plain
<1>2. ASSUME NEW x \in Events, x.type \in Others
      PROVE  Plain(<<x>>)
  <2>1. <<x>> \in Seq(Events) /\ \A i \in 1..Len(<<x>>) : <<x>>[i] = x
    BY OneOrTwo
  <2> QED
    BY <1>2, <2>1 DEF Plain
<1>3. ASSUME NEW x \in Events, NEW y \in Events, x.type \in Others, y.type \in Others
      PROVE  Plain(<<x, y>>)
  <2>1. <<x, y>> \in Seq(Events) /\ \A i \in 1..Len(<<x, y>>) : <<x, y>>[i] \in {x, y}
    BY OneOrTwo
  <2> QED
    BY <1>3, <2>1 DEF Plain
<1>4. Plain(<<Content>>) /\ Plain(<<Native>>) /\ Plain(<<ErrorEvent>>)
  BY <1>2 DEF Others
<1>5. Plain(<<Native, ErrorEvent>>) /\ Plain(<<ErrorEvent, Native>>)
  BY <1>3 DEF Others
<1>6. Reports(<<ErrorEvent>>) /\ Reports(<<Native, ErrorEvent>>)
  <2>1. /\ 1 \in 1..Len(<<ErrorEvent>>) /\ <<ErrorEvent>>[1] = ErrorEvent
        /\ 2 \in 1..Len(<<Native, ErrorEvent>>) /\ <<Native, ErrorEvent>>[2] = ErrorEvent
    OBVIOUS
  <2> QED
    BY <2>1 DEF Reports
<1>7. ASSUME NEW n \in Nat
      PROVE  Plain([k \in 1..n |-> Native])
  BY DEF Plain, Others
<1> QED
  BY <1>1, <1>4, <1>5, <1>6, <1>7

LEMMA TurnFields ==
  ASSUME turn \in Turn
  PROVE  /\ turn.calls \in Nat /\ turn.pending \in Int /\ turn.lost \in BOOLEAN
         /\ None \in Int /\ PendingTurnEnd \in Seq(Events) /\ Ordinary(PendingTurnEnd)
         /\ TurnEnds \in Seq(Events) /\ Ordinary(TurnEnds)
<1>1. turn.calls \in Nat /\ turn.pending \in Int /\ turn.lost \in BOOLEAN /\ None \in Int
  BY DEF Turn, None
<1>2. \A n \in Int : TurnEnd(n) \in Events /\ TurnEnd(n).type = "turn_end"
  BY EventsType
<1>3. PendingTurnEnd = <<>> \/ \E n \in Int : PendingTurnEnd = <<TurnEnd(n)>>
  BY <1>1 DEF PendingTurnEnd
<1>4. PendingTurnEnd \in Seq(Events) /\ Ordinary(PendingTurnEnd)
  <2>1. CASE PendingTurnEnd = <<>>
    BY <2>1 DEF Ordinary
  <2>2. ASSUME NEW n \in Int, PendingTurnEnd = <<TurnEnd(n)>>
        PROVE  PendingTurnEnd \in Seq(Events) /\ Ordinary(PendingTurnEnd)
    <3>1. /\ PendingTurnEnd \in Seq(Events)
          /\ \A i \in 1..Len(PendingTurnEnd) : PendingTurnEnd[i] = TurnEnd(n)
      BY <1>2, <2>2, OneOrTwo
    <3> QED
      BY <1>2, <3>1 DEF Ordinary
  <2> QED
    BY <1>3, <2>1, <2>2
<1>5. PICK m \in Int : TurnEnds = Append(PendingTurnEnd, TurnEnd(m))
  BY <1>1 DEF TurnEnds
<1>6. TurnEnds \in Seq(Events) /\ Ordinary(TurnEnds)
  BY <1>2, <1>4, <1>5 DEF Ordinary
<1> QED
  BY <1>1, <1>4, <1>6

LEMMA OrdinaryBoth ==
  ASSUME NEW s \in Seq(Events), NEW t \in Seq(Events)
  PROVE  /\ s \o t \in Seq(Events)
         /\ Ordinary(s) /\ Ordinary(t) => Ordinary(s \o t)
         /\ Plain(s) => Ordinary(s)
         /\ Plain(s) /\ Plain(t) => Plain(s \o t)
         /\ Reports(t) => Reports(s \o t)
<1>1. /\ s \o t \in Seq(Events) /\ Len(s \o t) = Len(s) + Len(t)
      /\ Len(s) \in Nat /\ Len(t) \in Nat
      /\ \A i \in 1..Len(s) : (s \o t)[i] = s[i]
      /\ \A i \in 1..Len(t) : (s \o t)[Len(s) + i] = t[i]
  OBVIOUS
<1>2. \A i \in 1..Len(s \o t) : \/ i \in 1..Len(s) /\ (s \o t)[i] = s[i]
                                \/ i - Len(s) \in 1..Len(t) /\ (s \o t)[i] = t[i - Len(s)]
  <2> SUFFICES ASSUME NEW i \in 1..Len(s \o t), i \notin 1..Len(s)
               PROVE  i - Len(s) \in 1..Len(t) /\ (s \o t)[i] = t[i - Len(s)]
    BY <1>1
  <2>1. i - Len(s) \in 1..Len(t) /\ Len(s) + (i - Len(s)) = i
    BY <1>1
  <2> QED
    BY <1>1, <2>1
<1>3. Ordinary(s) /\ Ordinary(t) => Ordinary(s \o t)
  BY <1>2 DEF Ordinary
<1>4. Plain(s) => Ordinary(s)
  BY DEF Plain, Ordinary, Others
<1>5. Plain(s) /\ Plain(t) => Plain(s \o t)
  BY <1>1, <1>2 DEF Plain
<1>6. Reports(t) => Reports(s \o t)
  <2> SUFFICES ASSUME NEW i \in 1..Len(t), t[i].type = "error"
               PROVE  Reports(s \o t)
    BY DEF Reports
  <2>1. Len(s) + i \in 1..Len(s \o t) /\ (s \o t)[Len(s) + i] = t[i]
    BY <1>1
  <2> QED
    BY <2>1 DEF Reports
<1> QED
  BY <1>1, <1>3, <1>4, <1>5, <1>6

\* The turns the accumulator goes on with.
LEMMA TurnsLeft ==
  ASSUME turn \in Turn
  PROVE  /\ EndedTurn \in Turn /\ EndedTurn.calls = 0 /\ EndedTurn.pending = None
         /\ EndedTurn.lost = turn.lost
         /\ FlushedTurn \in Turn /\ FlushedTurn.calls = 0 /\ FlushedTurn.pending = None
         /\ FlushedTurn.lost = turn.lost
         /\ MarkedTurn \in Turn /\ MarkedTurn.calls = turn.calls
         /\ MarkedTurn.pending = turn.calls
         /\ MarkedTurn.lost = (turn.lost \/ turn.pending # None)
<1>1. 0 \in Nat /\ turn.calls \in Int /\ None \in Int /\ (turn.pending # None) \in BOOLEAN
  BY TurnFields
<1>2. /\ EndedTurn \in Turn /\ EndedTurn.calls = 0 /\ EndedTurn.pending = None
      /\ EndedTurn.lost = turn.lost
  <2>1. EndedTurn = [turn EXCEPT !.calls = 0, !.pending = None]
    BY Zenon DEF EndedTurn
  <2>2. EndedTurn \in Turn
    BY <1>1, <2>1, Zenon DEF Turn
  <2>3. EndedTurn.calls = 0 /\ EndedTurn.pending = None /\ EndedTurn.lost = turn.lost
    BY <1>1, <2>1, Zenon DEF Turn
  <2> QED
    BY <2>2, <2>3
<1>3. /\ FlushedTurn \in Turn /\ FlushedTurn.calls = 0 /\ FlushedTurn.pending = None
      /\ FlushedTurn.lost = turn.lost
  BY <1>2, Zenon DEF FlushedTurn, EndedTurn
<1>4. /\ MarkedTurn \in Turn /\ MarkedTurn.calls = turn.calls
      /\ MarkedTurn.pending = turn.calls
      /\ MarkedTurn.lost = (turn.lost \/ turn.pending # None)
  <2>1. MarkedTurn = [turn EXCEPT !.pending = turn.calls, !.lost = @ \/ turn.pending # None]
    BY Zenon DEF MarkedTurn
  <2>2. MarkedTurn \in Turn
    BY <1>1, <2>1, Zenon DEF Turn
  <2>3. /\ MarkedTurn.calls = turn.calls /\ MarkedTurn.pending = turn.calls
        /\ MarkedTurn.lost = (turn.lost \/ turn.pending # None)
    BY <1>1, <2>1, Zenon DEF Turn
  <2> QED
    BY <2>2, <2>3
<1> QED
  BY <1>2, <1>3, <1>4, Zenon

\* Whatever is said of a turn is ordinary, and leaves a turn.
LEMMA TurnsType ==
  ASSUME turn \in Turn, NEW s, Turns(s)
  PROVE  s \in Seq(Events) /\ Ordinary(s) /\ turn' \in Turn
<1>1. CASE Plain(s) /\ turn' = turn
  BY <1>1, OrdinaryBoth DEF Plain
<1>2. CASE s = <<ToolCall>> /\ turn' = [turn EXCEPT !.calls = @ + 1]
  <2>1. s \in Seq(Events) /\ Ordinary(s)
    BY <1>2, EventsType DEF Ordinary
  <2>2. turn' \in Turn
    BY <1>2 DEF Turn
  <2> QED
    BY <2>1, <2>2
<1>3. CASE \E p : Plain(p) /\ s = PendingTurnEnd \o p /\ FlushTurn
  <2>1. PICK p : Plain(p) /\ s = PendingTurnEnd \o p /\ FlushTurn
    BY <1>3
  <2>2. s \in Seq(Events) /\ Ordinary(s)
    BY <2>1, TurnFields, OrdinaryBoth DEF Plain
  <2>3. turn' \in Turn
    BY <2>1, TurnsLeft, Zenon DEF FlushTurn
  <2> QED
    BY <2>2, <2>3
<1>4. CASE \E p : Plain(p) /\ s = TurnEnds \o p /\ EndTurn
  <2>1. PICK p : Plain(p) /\ s = TurnEnds \o p /\ EndTurn
    BY <1>4
  <2>2. s \in Seq(Events) /\ Ordinary(s)
    BY <2>1, TurnFields, OrdinaryBoth DEF Plain
  <2>3. turn' \in Turn
    BY <2>1, TurnsLeft, Zenon DEF EndTurn
  <2> QED
    BY <2>2, <2>3
<1>5. CASE \E n \in Nat : s = [k \in 1..n |-> ToolCall] /\ turn' = [MarkedTurn EXCEPT !.calls = @ + n]
  <2>1. PICK n \in Nat : s = [k \in 1..n |-> ToolCall] /\ turn' = [MarkedTurn EXCEPT !.calls = @ + n]
    BY <1>5
  <2>2. s \in Seq(Events) /\ Ordinary(s)
    BY <2>1, EventsType DEF Ordinary
  <2>3. turn' \in Turn
    <3>2. MarkedTurn \in Turn
      BY TurnsLeft
    <3>3. [MarkedTurn EXCEPT !.calls = @ + n] \in Turn
      <4> DEFINE m == MarkedTurn
      <4>1. m \in Turn
        BY <3>2
      <4> HIDE DEF m
      <4>2. [m EXCEPT !.calls = @ + n] \in Turn
        BY <4>1 DEF Turn
      <4> QED
        BY <4>2 DEF m
    <3> QED
      BY <2>1, <3>3
  <2> QED
    BY <2>2, <2>3
<1> QED
  BY <1>1, <1>2, <1>3, <1>4, <1>5 DEF Turns

-----------------------------------------------------------------------------
(* The shapes of a step.                                                   *)

\* The run goes on and says what its accumulator makes of it.
Speaks == closed' = closed /\ \E s : Turns(s) /\ Push(s)

\* A failed response of codex or pi is only in the finish reason.
Excused == kind \in {"codex", "pi"} /\ finish = "error"

\* The run says its last.
SaysLast(r) ==
  /\ closed' = TRUE /\ r \in Finish
  /\ \E s : /\ Turns(s) /\ Push(s \o <<AgentEnd(r)>>)
            /\ r = "error" => Reports(s) \/ Excused

LEMMA Joined ==
  ASSUME NEW S, NEW s \in Seq(S), NEW x \in S
  PROVE  /\ Append(s, x) = s \o <<x>> /\ s \o <<>> = s
         /\ Append(<<>>, x) = <<x>>
OBVIOUS

LEMMA Spoken ==
  ASSUME turn \in Turn, emitted \in Summaries, closed' = closed
  PROVE  /\ Text => Speaks
         /\ CallsTool /\ kind # "inference" => Speaks
         /\ Emits(TurnEnds) /\ EndTurn => Speaks
         /\ \A s : Plain(s) /\ Push(s) /\ UNCHANGED turn => Speaks
         /\ Other => Speaks
         /\ UNCHANGED <<emitted, turn>> => Speaks
<1>1. PendingTurnEnd \in Seq(Events) /\ TurnEnds \in Seq(Events)
  BY TurnFields
<1>2. /\ Append(PendingTurnEnd, Content) = PendingTurnEnd \o <<Content>>
      /\ TurnEnds \o <<>> = TurnEnds
  BY <1>1, EventsType, Joined
<1>3. Text => Speaks
  <2> SUFFICES ASSUME Text PROVE Speaks
    OBVIOUS
  <2>1. FlushTurn /\ Push(PendingTurnEnd \o <<Content>>)
    BY <1>2 DEF Text, Emits
  <2> QED
    BY <2>1, PlainOnes, Zenon DEF Speaks, Turns
<1>4. CallsTool /\ kind # "inference" => Speaks
  <2> SUFFICES ASSUME CallsTool, kind # "inference" PROVE Speaks
    OBVIOUS
  <2>1. turn' = [turn EXCEPT !.calls = @ + 1] /\ Push(<<ToolCall>>)
    BY DEF CallsTool, Emits
  <2> QED
    BY <2>1, Zenon DEF Speaks, Turns
<1>5. Emits(TurnEnds) /\ EndTurn => Speaks
  <2> SUFFICES ASSUME Emits(TurnEnds), EndTurn PROVE Speaks
    OBVIOUS
  <2>1. EndTurn /\ Push(TurnEnds \o <<>>)
    BY <1>2 DEF Emits
  <2> QED
    BY <2>1, PlainOnes, Zenon DEF Speaks, Turns
<1>6. \A s : Plain(s) /\ Push(s) /\ UNCHANGED turn => Speaks
  BY Zenon DEF Speaks, Turns
<1>7. Other => Speaks
  BY <1>6, PlainOnes DEF Other, Emits
<1>8. UNCHANGED <<emitted, turn>> => Speaks
  BY <1>6, PlainOnes, PushIs, NotedNothing
<1> QED
  BY <1>3, <1>4, <1>5, <1>6, <1>7, <1>8

LEMMA LastSaid ==
  ASSUME turn \in Turn, NEW r \in Finish
  PROVE  /\ \A p : Plain(p) /\ Closes(p, r) /\ (r = "error" => Reports(p) \/ Excused)
                   => SaysLast(r)
         /\ Push(TurnEnds \o <<AgentEnd(r)>>) /\ EndTurn /\ closed' = TRUE /\ r # "error"
              => SaysLast(r)
<1>1. PendingTurnEnd \in Seq(Events) /\ TurnEnds \in Seq(Events)
  BY TurnFields
<1>2. ASSUME NEW p, Plain(p), Closes(p, r), r = "error" => Reports(p) \/ Excused
      PROVE  SaysLast(r)
  <2>1. Turns(PendingTurnEnd \o p)
    BY <1>2, Zenon DEF Turns, Closes
  <2>2. Push((PendingTurnEnd \o p) \o <<AgentEnd(r)>>) /\ closed' = TRUE
    BY <1>2, Zenon DEF Closes
  <2>3. r = "error" => Reports(PendingTurnEnd \o p) \/ Excused
    BY <1>1, <1>2, OrdinaryBoth DEF Plain
  <2> QED
    BY <2>1, <2>2, <2>3, Zenon DEF SaysLast
<1>3. ASSUME Push(TurnEnds \o <<AgentEnd(r)>>), EndTurn, closed' = TRUE, r # "error"
      PROVE  SaysLast(r)
  <2>1. TurnEnds = TurnEnds \o <<>>
    BY <1>1, EventsType, Joined
  <2>2. Turns(TurnEnds)
    BY <1>3, <2>1, PlainOnes, Zenon DEF Turns
  <2> QED
    BY <1>3, <2>2, Zenon DEF SaysLast
<1> QED
  BY <1>2, <1>3, Zenon

SameOwner == UNCHANGED <<kind, aborted, consumer>>
SaysNothing == UNCHANGED <<emitted, closed, turn>>

\* Nothing happens to the run, but maybe to its signal or its consumer.
CallStays ==
  /\ kind' = kind /\ aborted' \in BOOLEAN /\ UNCHANGED <<pc, emitted, turn, finish, result>>
  /\ \/ UNCHANGED <<consumer, closed>>
     \/ pc # "idle" /\ consumer = "none" /\ consumer' = "iterating" /\ UNCHANGED closed
     \/ consumer = "iterating" /\ consumer' = "left" /\ closed' = TRUE

Beginning ==
  /\ pc = "idle" /\ kind # "supervised"
  /\ kind' = kind /\ aborted' \in BOOLEAN /\ consumer' \in {consumer, "iterating"}
  /\ turn' = turn

CallStarts ==
  /\ Beginning /\ pc' \in Working /\ result' = "pending"
  /\ finish' \in Finish /\ (kind # "inference" => finish' = finish)
  /\ closed' = closed /\ Push(<<AgentStart>>)

CallNeverStarts ==
  /\ Beginning /\ kind # "anthropic" /\ pc' = "over" /\ closed' = TRUE
  /\ \E r \in {"aborted", "error"} :
       /\ result' = r /\ finish' \in {finish, r}
       /\ Push(<<AgentStart, ErrorEvent, AgentEnd(r)>>)

CallGoesOn ==
  /\ SameOwner /\ kind # "supervised" /\ Speaks /\ result' = result
  /\ \/ pc # "idle" /\ pc' = pc /\ finish' = finish
     \/ /\ pc \in Working /\ pc' \in Working
        /\ finish' \in Finish /\ (kind = "anthropic" => finish' \in AnthropicReasons)

CallEnds(r) ==
  /\ SameOwner /\ kind # "supervised" /\ pc \in Working /\ SaysLast(r)
  /\ \/ pc' = "over" /\ result' = r /\ finish' \in {finish, r} /\ (kind # "acp" => finish' = finish)
     \/ kind = "acp" /\ pc' = "cleaning" /\ result' = result /\ finish' = r

CallCleaned ==
  /\ SameOwner /\ SaysNothing /\ kind = "acp" /\ pc = "cleaning"
  /\ pc' = "over" /\ result' = finish /\ finish' = finish

CallRejected ==
  /\ SameOwner /\ SaysNothing /\ kind \in {"anthropic", "codex"} /\ pc = "loading"
  /\ pc' = "over" /\ result' = "rejected" /\ finish' = finish

CallSupervised ==
  /\ SameOwner /\ SaysNothing /\ kind = "supervised" /\ finish' = finish
  /\ \/ pc = "idle" /\ pc' = "supervising" /\ result' = "pending"
     \/ pc = "supervising" /\ pc' = "over" /\ result' = "stop"

CallShape ==
  \/ CallStays \/ CallStarts \/ CallNeverStarts \/ CallGoesOn
  \/ \E r : CallEnds(r)
  \/ CallCleaned \/ CallRejected \/ CallSupervised

\* What the shapes rest on.
Basics ==
  /\ turn \in Turn /\ emitted \in Summaries /\ finish \in Finish
  /\ aborted \in BOOLEAN /\ closed \in BOOLEAN
  /\ kind = "anthropic" => finish \in AnthropicReasons

LEMMA ReturnsEnds ==
  ASSUME Basics, NEW p, NEW r \in Finish, Plain(p), Returns(p, r),
         r = "error" => Reports(p) \/ Excused,
         pc \in Working, kind # "supervised"
  PROVE  \E x : CallEnds(x)
<1>1. Closes(p, r) /\ result' = r /\ pc' = "over" /\ UNCHANGED <<kind, aborted, consumer, finish>>
  BY Zenon DEF Returns
<1>2. SaysLast(r)
  BY <1>1, LastSaid, Zenon DEF Basics
<1> QED
  BY <1>1, <1>2 DEF CallEnds, SameOwner

LEMMA FailsEnds ==
  ASSUME Basics, Fails, pc \in Working, kind # "supervised"
  PROVE  \E x : CallEnds(x)
BY ReturnsEnds, PlainOnes DEF Fails, Finish

LEMMA GoesOn ==
  ASSUME Basics, UNCHANGED <<kind, pc, aborted, consumer, result>>, kind # "supervised",
         pc # "idle", Speaks,
         finish' = finish \/ (pc \in Working /\ finish' \in Finish
                                /\ (kind = "anthropic" => finish' \in AnthropicReasons))
  PROVE  CallGoesOn
BY DEF CallGoesOn, SameOwner

LEMMA StreamShape ==
  ASSUME Basics, StreamStep
  PROVE  CallShape
<1> USE DEF Basics
<1>1. ASSUME NEW k \in StreamKinds, NEW next \in Working, StreamStarts(k, next)
      PROVE  CallStarts
  BY <1>1 DEF StreamStarts, StreamKinds, Begins, Emits, CallStarts, Beginning, Working
<1>2. CASE AnthropicStarts \/ CodexStarts \/ PiStarts
  BY <1>1, <1>2 DEF AnthropicStarts, CodexStarts, PiStarts, StreamKinds, Working, CallShape
<1>3. CASE ClientLoads
  <2>1. CASE Goes("streaming")
    <3>1. pc = "loading" /\ kind # "supervised" /\ UNCHANGED <<emitted, closed, turn, finish, result>>
      BY <1>3, <2>1 DEF ClientLoads, Goes, Silent
    <3>2. Speaks
      BY <3>1, Spoken
    <3> QED
      BY <2>1, <3>1, <3>2 DEF Goes, CallGoesOn, SameOwner, Working, CallShape, Silent
  <2>2. CASE ~Goes("streaming")
    BY <1>3, <2>2 DEF ClientLoads, Silent, CallRejected, SameOwner, SaysNothing, CallShape
  <2> QED
    BY <2>1, <2>2
<1>4. CASE AnthropicEvent
  <2>1. kind = "anthropic" /\ pc = "streaming" /\ "streaming" \in Working
    BY <1>4 DEF AnthropicEvent, At, Working
  <2>2. CASE (Text \/ CallsTool \/ Other) /\ Continues
    BY <2>1, <2>2, Spoken, GoesOn DEF Continues, CallShape, Text, CallsTool, Other, Emits
  <2>3. CASE finish' \in AnthropicReasons /\ Silent /\ UNCHANGED <<kind, pc, aborted, consumer, turn, result>>
    <3>1. Speaks
      BY <2>3, Spoken DEF Silent
    <3> QED
      BY <2>1, <2>3, <3>1, GoesOn DEF CallShape, AnthropicReasons, Finish
  <2> QED
    BY <1>4, <2>2, <2>3 DEF AnthropicEvent
<1>5. CASE AnthropicThrows
  BY <1>5, FailsEnds DEF AnthropicThrows, At, Working, CallShape
<1>6. CASE AnthropicEnds
  BY <1>6, ReturnsEnds, PlainOnes DEF AnthropicEnds, AnthropicReasons, At, Working, Finish, CallShape
<1>7. CASE CodexEvent
  <2>1. kind = "codex" /\ pc = "streaming" /\ "streaming" \in Working
    BY <1>7 DEF CodexEvent, At, Working
  <2>2. CASE (Text \/ CallsTool \/ Other) /\ Continues
    BY <2>1, <2>2, Spoken, GoesOn DEF Continues, CallShape, Text, CallsTool, Other, Emits
  <2>3. CASE finish' \in CodexReasons /\ Silent /\ UNCHANGED <<kind, pc, aborted, consumer, turn, result>>
    <3>1. Speaks
      BY <2>3, Spoken DEF Silent
    <3> QED
      BY <2>1, <2>3, <3>1, GoesOn DEF CallShape, CodexReasons, Finish
  <2> QED
    BY <1>7, <2>2, <2>3 DEF CodexEvent
<1>8. CASE CodexThrows
  BY <1>8, FailsEnds DEF CodexThrows, At, Working, CallShape
<1>9. CASE CodexEnds
  BY <1>9, ReturnsEnds, PlainOnes DEF CodexEnds, At, Working, Finish, CallShape, Excused
<1>10. CASE PiLoads
  <2>1. kind = "pi" /\ pc = "loading" /\ "loading" \in Working /\ "prompting" \in Working
    BY <1>10 DEF PiLoads, At, Working
  <2>2. CASE Goes("prompting")
    <3>1. Speaks
      BY <2>2, Spoken DEF Goes, Silent
    <3> QED
      BY <2>1, <2>2, <3>1 DEF Goes, CallGoesOn, SameOwner, CallShape, Silent
  <2>3. CASE Fails
    BY <2>1, <2>3, FailsEnds DEF CallShape
  <2> QED
    BY <1>10, <2>2, <2>3 DEF PiLoads
<1>11. CASE PiEvent
  <2>1. kind = "pi" /\ pc = "prompting" /\ "prompting" \in Working
    BY <1>11 DEF PiEvent, At, Working
  <2>2. CASE (Text \/ CallsTool \/ Other) /\ Continues
    BY <2>1, <2>2, Spoken, GoesOn DEF Continues, CallShape, Text, CallsTool, Other, Emits
  <2>3. CASE Emits(TurnEnds) /\ EndTurn /\ Continues
    BY <2>1, <2>3, Spoken, GoesOn DEF Continues, CallShape, Emits
  <2>4. CASE /\ finish' \in PiReasons
             /\ \E error \in {<<>>, <<ErrorEvent>>} : Emits(Append(error, Native))
             /\ UNCHANGED <<kind, pc, aborted, consumer, turn, result>>
    <3>1. PICK error \in {<<>>, <<ErrorEvent>>} : Emits(Append(error, Native))
      BY <2>4
    <3>2. Plain(error) /\ error \in Seq(Events)
      BY PlainOnes, Zenon DEF Plain
    <3>3. Plain(Append(error, Native))
      <4>1. Append(error, Native) = error \o <<Native>>
        BY <3>2, EventsType, Joined
      <4> QED
        BY <3>2, <4>1, PlainOnes, OrdinaryBoth DEF Plain
    <3>4. Speaks
      BY <2>4, <3>1, <3>3, Spoken DEF Emits
    <3> QED
      BY <2>1, <2>4, <3>4, GoesOn DEF CallShape, PiReasons, Finish
  <2> QED
    BY <1>11, <2>2, <2>3, <2>4 DEF PiEvent
<1>12. CASE PiPromptThrows
  BY <1>12, ReturnsEnds, PlainOnes
     DEF PiPromptThrows, Unexplained, At, Working, Finish, CallShape, Excused
<1>13. CASE PiPromptResolves
  BY <1>13, ReturnsEnds, PlainOnes
     DEF PiPromptResolves, Unexplained, At, Working, Finish, CallShape, Excused
<1> QED
  BY <1>2, <1>3, <1>4, <1>5, <1>6, <1>7, <1>8, <1>9, <1>10, <1>11, <1>12, <1>13
     DEF StreamStep, StreamGoesOn, StreamSettles

\* A child belongs to an adapter that spawns one, and to a run that began.
ChildKinds == {"codex-cli", "claude-code", "supervised", "acp"}
ChildBegun == child.state # "none" => pc # "idle" /\ kind \in ChildKinds

LEMMA ChildShape ==
  ASSUME Basics, ChildBegun, ChildStep
  PROVE  CallShape
<1> USE DEF Basics
<1>1. ASSUME NEW k \in {"codex-cli", "claude-code"}, CliStarts(k)
      PROVE  CallShape
  <2>1. pc = "idle" /\ kind = k /\ "reading" \in Working
    BY <1>1 DEF CliStarts, Begins, Working
  <2>2. CASE Emits(<<AgentStart>>) /\ pc' = "reading" /\ result' = "pending"
    BY <1>1, <2>1, <2>2 DEF CliStarts, Begins, Emits, CallStarts, Beginning, CallShape
  <2>3. CASE /\ Push(<<AgentStart, ErrorEvent, AgentEnd("error")>>) /\ closed' = TRUE
             /\ pc' = "over" /\ result' = "error"
    BY <1>1, <2>1, <2>3 DEF CliStarts, Begins, CallNeverStarts, Beginning, CallShape
  <2> QED
    BY <1>1, <2>2, <2>3 DEF CliStarts
<1>2. ASSUME CallQuiet PROVE CallShape
  BY <1>2 DEF CallQuiet, callVars, CallStays, CallShape
<1>3. CASE CodexCliStarts \/ ClaudeCodeStarts
  BY <1>1, <1>3 DEF CodexCliStarts, ClaudeCodeStarts
<1>4. CASE Supervises
  BY <1>4 DEF Supervises, At, Silent, CallSupervised, SameOwner, SaysNothing, CallShape
<1>5. CASE ChildUp \/ ChildKilled \/ KillTimer \/ ChildExits \/ Kills
  BY <1>2, <1>5 DEF ChildUp, ChildKilled, KillTimer, ChildExits, Kills
<1>6. CASE ChildErrors
  <2>1. pc # "idle" /\ Continues /\ UNCHANGED turn
    BY <1>6 DEF ChildErrors, ChildBegun
  <2>2. CASE kind = "supervised"
    BY <1>6, <2>1, <2>2 DEF ChildErrors, Continues, Silent, CallStays, CallShape
  <2>3. CASE kind # "supervised"
    <3>1. Emits(<<ErrorEvent>>)
      BY <1>6, <2>3 DEF ChildErrors
    <3>2. Speaks
      BY <2>1, <3>1, Spoken, PlainOnes DEF Emits
    <3> QED
      BY <2>1, <2>3, <3>2, GoesOn DEF Continues, CallShape
  <2> QED
    BY <2>2, <2>3
<1>7. ASSUME NEW k \in {"codex-cli", "claude-code"}, CliCloses(k)
      PROVE  CallShape
  <2>1. pc \in Working /\ kind # "supervised"
    BY <1>7 DEF CliCloses, At, Working
  <2> QED
    BY <1>7, <2>1, ReturnsEnds, PlainOnes DEF CliCloses, ExitReport, Finish, CallShape
<1>8. CASE CodexCliCloses \/ ClaudeCodeCloses
  BY <1>7, <1>8 DEF CodexCliCloses, ClaudeCodeCloses
<1>9. CASE ExitSettles
  BY <1>9 DEF ExitSettles, At, Silent, CallSupervised, SameOwner, SaysNothing, CallShape
<1>10. CASE CodexCliLine
  <2>1. Continues /\ kind \notin {"supervised", "inference"} /\ pc # "idle"
    BY <1>10 DEF CodexCliLine, ChildOutput, At
  <2>2. Text \/ CallsTool \/ (Emits(TurnEnds) /\ EndTurn) \/ Other
    BY <1>10 DEF CodexCliLine, ChildOutput
  <2>3. Speaks
    BY <2>1, <2>2, Spoken DEF Text, CallsTool, Other, Emits
  <2> QED
    BY <2>1, <2>3, GoesOn DEF Continues, CallShape
<1>11. CASE ClaudeCodeLine
  <2>1. Continues /\ kind \notin {"supervised", "inference"} /\ pc # "idle"
    BY <1>11 DEF ClaudeCodeLine, ChildOutput, At
  <2>2. Text \/ CallsTool \/ Other
    BY <1>11 DEF ClaudeCodeLine, ChildOutput
  <2>3. Speaks
    BY <2>1, <2>2, Spoken DEF Text, CallsTool, Other, Emits
  <2> QED
    BY <2>1, <2>3, GoesOn DEF Continues, CallShape
<1> QED
  BY <1>3, <1>4, <1>5, <1>6, <1>8, <1>9, <1>10, <1>11 DEF ChildStep, ChildStarts, ChildRuns

LEMMA AcpClosesShape ==
  ASSUME Basics, NEW p, NEW r \in Finish, Plain(p), AcpCloses(p, r), r = "error" => Reports(p),
         Running
  PROVE  CallShape
<1>1. pc \in Working /\ kind = "acp"
  BY DEF Running, AcpPhases, Working
<1>2. SaysLast(r)
  BY LastSaid, Zenon DEF AcpCloses, Basics
<1> QED
  BY <1>1, <1>2 DEF AcpCloses, Cleanup, CallEnds, SameOwner, CallShape

LEMMA RequestsShape ==
  ASSUME Basics, NEW phase \in AcpPhases, NEW p, Plain(p), Requests(phase, p), Running
  PROVE  CallShape
<1>1. pc \in Working /\ phase \in Working /\ kind = "acp"
  BY DEF Running, AcpPhases, Working
<1>2. Speaks
  BY Spoken DEF Requests, Emits, Basics
<1> QED
  BY <1>1, <1>2 DEF Requests, CallGoesOn, SameOwner, CallShape, Basics

LEMMA AcpShape ==
  ASSUME Basics, AcpStep
  PROVE  CallShape
<1> USE DEF Basics
<1>1. ASSUME CallQuiet PROVE CallShape
  BY <1>1 DEF CallQuiet, callVars, CallStays, CallShape
<1>2. ASSUME NEW p, NEW a, Continued(p, a), p \in AcpPhases PROVE Running
  BY <1>2 DEF Continued, At, Running
<1>3. CASE Answers \/ StdoutEnds \/ FollowUp
  BY <1>1, <1>3 DEF Answers, StdoutEnds, FollowUp
<1>4. ASSUME Running, Continues, Speaks PROVE CallShape
  BY <1>4, GoesOn DEF Running, AcpPhases, Continues, CallShape
<1>5. CASE SessionUpdates \/ Notifications \/ AgentRequests
  <2>1. Running /\ Continues /\ (Text \/ CallsTool \/ Other)
    BY <1>5 DEF SessionUpdates, Notifications, AgentRequests, Receives
  <2>2. Speaks
    BY <2>1, Spoken DEF Text, CallsTool, Other, Emits, Running
  <2> QED
    BY <1>4, <2>1, <2>2
<1>6. CASE TransportErrors
  <2>1. Speaks
    BY <1>6, Spoken, PlainOnes DEF TransportErrors, Emits
  <2> QED
    BY <1>4, <1>6, <2>1 DEF TransportErrors
<1>7. CASE AcpStarts
  <2>1. pc = "idle" /\ kind = "acp" /\ "initializing" \in Working
    BY <1>7 DEF AcpStarts, Begins, Working
  <2>2. CASE Emits(<<AgentStart>>) /\ UNCHANGED finish /\ pc' = "initializing" /\ result' = "pending"
    BY <1>7, <2>1, <2>2 DEF AcpStarts, Begins, Emits, CallStarts, Beginning, CallShape
  <2>3. CASE /\ \E r \in {IF aborted' THEN "aborted" ELSE "error"} :
                  Push(<<AgentStart, ErrorEvent, AgentEnd(r)>>) /\ finish' = r /\ result' = r
             /\ closed' = TRUE /\ pc' = "over"
    BY <1>7, <2>1, <2>3 DEF AcpStarts, Begins, CallNeverStarts, Beginning, CallShape
  <2> QED
    BY <1>7, <2>2, <2>3 DEF AcpStarts
<1>8. CASE Initialized
  <2>1. Running
    BY <1>2, <1>8 DEF Initialized, AcpPhases
  <2>2. CASE Requests("creating", <<Native>>)
    BY <2>1, <2>2, RequestsShape, PlainOnes DEF AcpPhases
  <2>3. CASE AcpCloses(<<Native, ErrorEvent>>, IF aborted THEN "aborted" ELSE "error")
    BY <2>1, <2>3, AcpClosesShape, PlainOnes DEF Finish
  <2> QED
    BY <1>8, <2>2, <2>3 DEF Initialized
<1>9. ASSUME AcpFails, Running PROVE CallShape
  BY <1>9, AcpClosesShape, PlainOnes DEF AcpFails, Finish
<1>10. CASE SessionReady
  <2>1. Running
    BY <1>2, <1>10 DEF SessionReady, AcpPhases
  <2>2. CASE Requests("prompting", <<>>)
    BY <2>1, <2>2, RequestsShape, PlainOnes DEF AcpPhases
  <2> QED
    BY <1>9, <1>10, <2>1, <2>2 DEF SessionReady
<1>11. CASE PromptAnswered
  <2>1. kind = "acp" /\ pc = "prompting" /\ "prompting" \in Working
    BY <1>11 DEF PromptAnswered, Continued, At, Working
  <2>2. PICK reason \in StopReasons :
          IF reason = "aborted" \/ acp.followUps = 0
          THEN /\ Push(TurnEnds \o <<AgentEnd(reason)>>) /\ EndTurn
               /\ closed' = TRUE
               /\ Cleanup(reason) /\ finish' = reason
               /\ AcpEnds
          ELSE /\ Emits(TurnEnds) /\ EndTurn
               /\ acp' = [acp EXCEPT !.request = "awaited", !.followUps = @ - 1]
               /\ UNCHANGED <<pc, finish, result, child>>
    BY <1>11, Zenon DEF PromptAnswered
  <2>3. reason \in Finish /\ reason # "error"
    BY DEF StopReasons, Finish
  <2>4. CASE reason = "aborted" \/ acp.followUps = 0
    <3>1. SaysLast(reason) /\ Cleanup(reason) /\ finish' = reason
      BY <2>2, <2>3, <2>4, LastSaid
    <3> QED
      BY <1>11, <2>1, <2>3, <3>1 DEF PromptAnswered, Cleanup, CallEnds, SameOwner, CallShape
  <2>5. CASE ~(reason = "aborted" \/ acp.followUps = 0)
    <3>1. Speaks
      BY <2>2, <2>5, Spoken DEF Emits
    <3> QED
      BY <1>11, <2>1, <2>2, <2>5, <3>1, GoesOn DEF PromptAnswered, CallShape
  <2> QED
    BY <2>4, <2>5
<1>12. CASE Refused
  BY <1>9, <1>12 DEF Refused
<1>13. CASE WaitEnds
  BY <1>13 DEF WaitEnds, At, Silent, CallCleaned, SameOwner, SaysNothing, CallShape
<1> QED
  BY <1>3, <1>5, <1>6, <1>7, <1>8, <1>10, <1>11, <1>12, <1>13 DEF AcpStep, AcpContinues

-----------------------------------------------------------------------------
(* The tool loop.                                                          *)

LEMMA LoopFields ==
  ASSUME loop \in Loops
  PROVE  /\ loop.initial \in Seq(Messages) /\ loop.messages \in Seq(Messages)
         /\ loop.attempt \in Nat /\ loop.round \in Nat /\ loop.force \in BOOLEAN
         /\ \A m \in Seq(Messages) : [loop EXCEPT !.messages = m] \in Loops
BY DEF Loops

LEMMA BudgetedType ==
  ASSUME NEW status, NEW m \in Seq(Messages), NEW force \in BOOLEAN,
         NEW b \in Budgeted(status, m, force)
  PROVE  b.messages \in Seq(Messages) /\ b.force \in BOOLEAN
<1>1. CASE status = "OK"
  BY <1>1 DEF Budgeted
<1>2. CASE status # "OK"
  <2>1. PICK c \in Compressed(m) :
          b = [messages |-> sanitizeToolPairs(c), force |-> force \/ status = "HARD_STOP"]
    BY <1>2 DEF Budgeted
  <2>2. sanitizeToolPairs(c) \in Seq(Messages)
    BY CompressedType, sanitizeType
  <2>3. (force \/ status = "HARD_STOP") \in BOOLEAN
    BY Zenon
  <2>4. b.messages = sanitizeToolPairs(c) /\ b.force = (force \/ status = "HARD_STOP")
    BY <2>1, Zenon
  <2> QED
    BY <2>2, <2>3, <2>4, Zenon
<1> QED
  BY <1>1, <1>2

LEMMA FinalizesType ==
  ASSUME loop \in Loops, NEW reason \in Finish, Finalizes(reason)
  PROVE  pc' = "finalizing" /\ finish' = reason /\ loop' \in Loops
<1>1. <<>> \in Seq(Messages)
  OBVIOUS
<1> QED
  BY <1>1, LoopFields DEF Finalizes

LEMMA RoundType ==
  ASSUME loop \in Loops, finish \in Finish,
         NEW a \in Nat, NEW n \in Nat, NEW m \in Seq(Messages), NEW f \in BOOLEAN,
         Round(a, n, m, f)
  PROVE  pc' \in {"finalizing", "requesting"} /\ finish' \in Finish /\ loop' \in Loops
<1>1. CASE n = MaxToolRounds
  BY <1>1, FinalizesType DEF Round, Finish
<1>2. CASE n # MaxToolRounds /\ aborted
  BY <1>2, FinalizesType DEF Round, Finish
<1>3. CASE n # MaxToolRounds /\ ~aborted
  <2>1. /\ pc' = "requesting" /\ UNCHANGED finish
        /\ \E status \in BudgetStatus : \E b \in Budgeted(status, m, f) :
             loop' = [loop EXCEPT !.attempt = a, !.round = n,
                                  !.messages = b.messages, !.force = b.force]
    BY <1>3 DEF Round
  <2>2. PICK status \in BudgetStatus : \E b \in Budgeted(status, m, f) :
          loop' = [loop EXCEPT !.attempt = a, !.round = n,
                               !.messages = b.messages, !.force = b.force]
    BY <2>1
  <2>3. PICK b \in Budgeted(status, m, f) :
          loop' = [loop EXCEPT !.attempt = a, !.round = n,
                               !.messages = b.messages, !.force = b.force]
    BY <2>2
  <2>4. b.messages \in Seq(Messages) /\ b.force \in BOOLEAN
    BY BudgetedType
  <2>5. loop' \in Loops
    BY <2>3, <2>4, Zenon DEF Loops
  <2> QED
    BY <2>1, <2>5
<1> QED
  BY <1>1, <1>2, <1>3

LEMMA AskedType ==
  ASSUME NEW n \in Nat, NEW r \in Nat
  PROVE  Assistant({<<r + 1, k>> : k \in 1..n}) \in Messages
<1> DEFINE ids == {<<r + 1, k>> : k \in 1..n}
<1>1. IsFiniteSet(ids)
  <2> DEFINE f == [k \in 1..n |-> <<r + 1, k>>]
  <2>1. f \in Surjection(1..n, ids)
    <3>1. f \in [1..n -> ids]
      OBVIOUS
    <3>2. \A x \in ids : \E k \in 1..n : f[k] = x
      OBVIOUS
    <3> QED
      BY <3>1, <3>2, Zenon DEF Surjection
  <2>2. IsFiniteSet(1..n)
    BY FS_Interval
  <2> QED
    BY <2>1, <2>2, FS_Surjection
<1>2. ids \in SUBSET LoopIds
  BY DEF LoopIds
<1> HIDE DEF ids
<1>3. Assistant(ids) \in Messages
  BY <1>1, <1>2, Zenon DEF Messages
<1> QED
  BY <1>3 DEF ids

LEMMA LastMessage ==
  ASSUME NEW m \in Seq(Messages), m # <<>>
  PROVE  m[Len(m)] \in Messages /\ Len(m) \in 1..Len(m)
OBVIOUS

LEMMA ToolCallsType ==
  ASSUME NEW n \in ToolCalls
  PROVE  n \in Nat
<1>1. PICK complete \in SUBSET (1..RoundCalls) : n = Cardinality(complete)
  BY DEF ToolCalls
<1>2. IsFiniteSet(1..RoundCalls)
  BY RunnerAssumption, FS_Interval
<1>3. IsFiniteSet(complete)
  BY <1>2, FS_Subset
<1> QED
  BY <1>1, <1>3, FS_CardinalityType

\* A step of the loop has its shape, and leaves a loop.
LEMMA LoopShape ==
  ASSUME Basics, LoopTypeOK, LoopStep
  PROVE  CallShape /\ LoopTypeOK'
<1> USE DEF Basics
<1>1. /\ loop \in Loops
      /\ loop.initial \in Seq(Messages) /\ loop.messages \in Seq(Messages)
      /\ loop.attempt \in Nat /\ loop.round \in Nat /\ loop.force \in BOOLEAN
  BY LoopFields DEF LoopTypeOK
<1>2. ASSUME pc' # "tools", loop' \in Loops PROVE LoopTypeOK'
  BY <1>2 DEF LoopTypeOK, At
<1>3. CASE InferenceStarts
  <2>1. pc' \in {"finalizing", "requesting"} /\ finish' \in Finish /\ loop' \in Loops
    BY <1>1, <1>3, FinalizesType, RoundType DEF InferenceStarts, Finish
  <2>2. CallStarts
    BY <1>3, <2>1 DEF InferenceStarts, Begins, Emits, CallStarts, Beginning, Working
  <2> QED
    BY <1>2, <2>1, <2>2 DEF CallShape
<1>4. ASSUME kind = "inference", UNCHANGED <<kind, aborted, consumer, result>>, Speaks,
             pc \in Working, pc' \in Working, finish' \in Finish
      PROVE  CallShape
  BY <1>4 DEF CallGoesOn, SameOwner, CallShape
<1>5. CASE Requested
  <2>1. Speaks
    BY <1>5, Spoken DEF Requested, Silent
  <2> QED
    BY <1>1, <1>2, <1>4, <1>5, <2>1 DEF Requested, At, InLoop, Working
<1>6. CASE Delta
  <2>1. Speaks
    BY <1>6, Spoken DEF Delta, Text, Emits
  <2> QED
    BY <1>1, <1>2, <1>4, <1>6, <2>1 DEF Delta, At, Continues, Working
<1>7. CASE RoundCompletes
  <2>1. PICK n \in ToolCalls :
          /\ turn' = [MarkedTurn EXCEPT !.calls = @ + n]
          /\ IF n = 0
             THEN Finalizes("stop") /\ Silent
             ELSE /\ pc' = "tools" /\ UNCHANGED finish
                  /\ loop' = [loop EXCEPT !.messages =
                       Append(@, Assistant({<<loop.round + 1, k>> : k \in 1..n}))]
                  /\ Emits([k \in 1..n |-> ToolCall])
    BY <1>7, Zenon DEF RoundCompletes
  <2>2. n \in Nat /\ kind = "inference" /\ pc = "consuming" /\ "consuming" \in Working
    BY <1>7, ToolCallsType DEF RoundCompletes, At, Working
  <2>3. closed' = closed /\ Push([k \in 1..n |-> ToolCall])
    <3>1. CASE n = 0
      <4>1. [k \in 1..n |-> ToolCall] = <<>> /\ UNCHANGED <<emitted, closed>>
        BY <2>1, <3>1 DEF Silent
      <4> QED
        BY <4>1, PushIs, NotedNothing
    <3>2. CASE n # 0
      BY <2>1, <3>2 DEF Emits
    <3> QED
      BY <3>1, <3>2
  <2>4. Speaks
    BY <2>1, <2>2, <2>3, Zenon DEF Speaks, Turns
  <2>5. /\ pc' \in Working /\ finish' \in Finish /\ loop' \in Loops
        /\ pc' = "tools" => loop'.messages # <<>>
    <3>1. CASE n = 0
      BY <1>1, <2>1, <3>1, FinalizesType DEF Finish, Working
    <3>2. CASE n # 0
      <4> DEFINE m == Append(loop.messages, Assistant({<<loop.round + 1, k>> : k \in 1..n}))
      <4>1. Assistant({<<loop.round + 1, k>> : k \in 1..n}) \in Messages
        BY <1>1, <2>2, AskedType
      <4>2. m \in Seq(Messages) /\ m # <<>>
        BY <1>1, <4>1
      <4>3. loop' = [loop EXCEPT !.messages = m] /\ pc' = "tools" /\ finish' = finish
        BY <2>1, <3>2
      <4> HIDE DEF m
      <4>4. loop' \in Loops /\ loop'.messages = m
        BY <1>1, <4>2, <4>3 DEF Loops
      <4> QED
        BY <4>2, <4>3, <4>4 DEF Working
    <3> QED
      BY <3>1, <3>2
  <2>6. LoopTypeOK'
    BY <2>5 DEF LoopTypeOK, At
  <2> QED
    BY <1>4, <1>7, <2>2, <2>4, <2>5, <2>6 DEF RoundCompletes, InLoop
<1>8. CASE ToolsReturn
  <2> DEFINE ids == loop.messages[Len(loop.messages)].ids
  <2>1. kind = "inference" /\ pc = "tools" /\ "tools" \in Working /\ loop.messages # <<>>
    BY <1>8 DEF ToolsReturn, At, Working, LoopTypeOK
  <2>2. ids \in SUBSET CallIds /\ IsFiniteSet(ids)
    BY <1>1, <2>1, LastMessage, MessageIds
  <2>3. /\ Round(loop.attempt, loop.round + 1, loop.messages \o Results(ids), loop.force)
        /\ Emits([k \in 1..Cardinality(ids) |-> Native])
    BY <1>8, Zenon DEF ToolsReturn, Results, execute
  <2> HIDE DEF ids
  <2>4. Cardinality(ids) \in Nat /\ Results(ids) \in Seq(Messages)
    BY <2>2, ResultsType, FS_CardinalityType
  <2>5. loop.messages \o Results(ids) \in Seq(Messages) /\ loop.round + 1 \in Nat
    BY <1>1, <2>4
  <2>6. pc' \in {"finalizing", "requesting"} /\ finish' \in Finish /\ loop' \in Loops
    BY <1>1, <2>3, <2>5, RoundType
  <2>7. Speaks
    BY <1>8, <2>3, <2>4, Spoken, PlainOnes DEF ToolsReturn, Emits
  <2> QED
    BY <1>2, <1>4, <1>8, <2>1, <2>6, <2>7 DEF ToolsReturn, InLoop, Working
<1>9. CASE LoopThrows
  <2>1. kind = "inference" /\ pc \in Working
    BY <1>9 DEF LoopThrows, Working
  <2>2. Speaks
    BY <1>9, Spoken DEF LoopThrows, Silent
  <2>3. pc' \in {"finalizing", "sleeping"} /\ finish' \in Finish /\ loop' \in Loops
    <3>1. CASE Finalizes("error")
      BY <1>1, <3>1, FinalizesType DEF Finish
    <3>2. CASE pc' = "sleeping" /\ UNCHANGED finish /\ loop' = [loop EXCEPT !.messages = <<>>]
      <4>1. <<>> \in Seq(Messages)
        OBVIOUS
      <4> QED
        BY <1>1, <3>2, <4>1, LoopFields
    <3> QED
      BY <1>9, <3>1, <3>2 DEF LoopThrows
  <2> QED
    BY <1>2, <1>4, <1>9, <2>1, <2>2, <2>3 DEF LoopThrows, InLoop, Working
<1>10. CASE Retries
  <2>1. kind = "inference" /\ pc = "sleeping" /\ "sleeping" \in Working
    BY <1>10 DEF Retries, At, Working
  <2>2. Speaks
    BY <1>10, Spoken DEF Retries, Silent
  <2>3. pc' \in {"finalizing", "requesting"} /\ finish' \in Finish /\ loop' \in Loops
    <3>1. Round(loop.attempt + 1, 0, loop.initial, FALSE)
      BY <1>10 DEF Retries
    <3>2. loop.attempt + 1 \in Nat /\ 0 \in Nat /\ FALSE \in BOOLEAN
      BY <1>1
    <3> HIDE DEF Basics
    <3> QED
      BY <1>1, <3>1, <3>2, RoundType DEF Basics
  <2> QED
    BY <1>2, <1>4, <1>10, <2>1, <2>2, <2>3 DEF Retries, InLoop, Working
<1>11. CASE Finalized
  <2>1. kind = "inference" /\ pc = "finalizing" /\ "finalizing" \in Working
    BY <1>11 DEF Finalized, At, Working
  <2>2. PICK verified \in {finish, "stop", "error"} :
          IF aborted THEN Returns(<<>>, "aborted")
          ELSE Returns(IF verified = "error" THEN <<ErrorEvent>> ELSE <<>>, verified)
    BY <1>11 DEF Finalized
  <2>3. \E x : CallEnds(x)
    <3>1. CASE aborted
      BY <2>1, <2>2, <3>1, ReturnsEnds, PlainOnes DEF Finish
    <3>2. CASE ~aborted /\ verified = "error"
      BY <2>1, <2>2, <3>2, ReturnsEnds, PlainOnes DEF Finish
    <3>3. CASE ~aborted /\ verified # "error"
      BY <2>1, <2>2, <3>3, ReturnsEnds, PlainOnes DEF Finish
    <3> QED
      BY <3>1, <3>2, <3>3
  <2>4. pc' # "tools" /\ loop' \in Loops
    BY <1>1, <1>11, <2>2 DEF Returns, Finalized
  <2> QED
    BY <1>2, <2>3, <2>4 DEF CallShape
<1> QED
  BY <1>3, <1>5, <1>6, <1>7, <1>8, <1>9, <1>10, <1>11 DEF LoopStep

-----------------------------------------------------------------------------
(* What is said, as the summary has it.                                    *)

Begun(e) == e.starts = 1 /\ e.first = "agent_start"
Grows == emitted.errored => emitted'.errored

LEMMA NothingType ==
  /\ NothingEmitted \in Summaries
  /\ NothingEmitted.starts = 0 /\ NothingEmitted.ends = 0 /\ NothingEmitted.first = "none"
  /\ NothingEmitted.last = "none" /\ NothingEmitted.reason = "none"
  /\ NothingEmitted.errored = FALSE /\ NothingEmitted.miscounted = FALSE
  /\ NothingEmitted.uncounted = 0
<1>1. NothingEmitted \in Summaries
  BY DEF NothingEmitted, Summaries
<1> QED
  BY <1>1 DEF NothingEmitted

LEMMA StartSaid ==
  ASSUME emitted = NothingEmitted, ~closed, Push(<<AgentStart>>)
  PROVE  /\ emitted' \in Summaries /\ Begun(emitted') /\ emitted'.ends = 0
         /\ emitted'.last = "event" /\ emitted'.reason = "none"
         /\ emitted'.uncounted = 0 /\ ~emitted'.miscounted
<1>1. NothingEmitted \in Summaries /\ AgentStart \in Events /\ AgentStart.type = "agent_start"
  BY NothingType, EventsType
<1>2. emitted' = Note(NothingEmitted, AgentStart)
  BY <1>1, PushIs, NotedOne
<1>3. emitted' \in Summaries
  BY <1>1, <1>2, NoteType
<1>4. /\ emitted'.first = "agent_start" /\ emitted'.last = "event"
      /\ emitted'.starts = 0 + 1 /\ emitted'.ends = 0 + 0 /\ emitted'.reason = "none"
  BY <1>1, <1>2, NothingType, NoteFields
<1>5. emitted'.uncounted = 0 /\ ~emitted'.miscounted
  BY <1>1, <1>2, NothingType, NoteFields
<1> QED
  BY <1>3, <1>4, <1>5 DEF Begun

LEMMA NotedThree ==
  ASSUME NEW e \in Summaries, NEW x \in Events, NEW y \in Events, NEW z \in Events
  PROVE  Noted(e, <<x, y, z>>) = Note(Note(Note(e, x), y), z)
<1> DEFINE s == <<x, y, z>>
<1>1. s \in Seq(Events) /\ Len(s) = 3 /\ s[1] = x /\ s[2] = y /\ s[3] = z
  OBVIOUS
<1> HIDE DEF s
<1>2. PICK f \in [0..3 -> Summaries] : Steps(f, e, s) /\ Noted(e, s) = f[3]
  BY <1>1, NotedSteps
<1>3. f[0] = e /\ \A i \in 1..3 : f[i] = Note(f[i - 1], s[i])
  BY <1>1, <1>2 DEF Steps
<1>4. f[1] = Note(f[0], s[1]) /\ f[2] = Note(f[1], s[2]) /\ f[3] = Note(f[2], s[3])
  BY <1>3
<1> QED
  BY <1>1, <1>2, <1>3, <1>4 DEF s

LEMMA NeverStartSaid ==
  ASSUME emitted = NothingEmitted, ~closed, NEW r \in Finish,
         Push(<<AgentStart, ErrorEvent, AgentEnd(r)>>)
  PROVE  /\ emitted' \in Summaries /\ Begun(emitted') /\ emitted'.ends = 1
         /\ emitted'.last = "agent_end" /\ emitted'.reason = r /\ emitted'.errored
         /\ emitted'.uncounted = 0 /\ ~emitted'.miscounted
<1> DEFINE a == Note(NothingEmitted, AgentStart)
           b == Note(a, ErrorEvent)
           c == Note(b, AgentEnd(r))
<1>1. NothingEmitted \in Summaries /\ AgentStart \in Events /\ AgentStart.type = "agent_start"
  BY NothingType, EventsType
<1>2. /\ ErrorEvent \in Events /\ ErrorEvent.type = "error" /\ AgentEnd(r) \in Events
      /\ AgentEnd(r).type = "agent_end" /\ AgentEnd(r).reason = r
  BY EventsType
<1>3. a \in Summaries
  BY <1>1, NoteType
<1>4. b \in Summaries
  BY <1>2, <1>3, NoteType
<1>5. c \in Summaries
  BY <1>2, <1>4, NoteType
<1>6. emitted' = c
  BY <1>1, <1>2, PushIs, NotedThree
<1>7. a.first = "agent_start" /\ a.starts = 1 /\ a.ends = 0 /\ a.uncounted = 0 /\ ~a.miscounted
  BY <1>1, NothingType, NoteFields
<1> HIDE DEF a
<1>8. /\ b.first = "agent_start" /\ b.starts = 1 /\ b.ends = 0 /\ b.errored
      /\ b.uncounted = 0 /\ ~b.miscounted
  BY <1>2, <1>3, <1>7, NoteFields
<1> HIDE DEF b
<1>9. /\ c.first = "agent_start" /\ c.starts = 1 /\ c.ends = 1 /\ c.errored
      /\ c.last = "agent_end" /\ c.reason = r /\ c.uncounted = 0 /\ ~c.miscounted
  BY <1>2, <1>4, <1>8, NoteFields
<1> QED
  BY <1>5, <1>6, <1>9 DEF Begun

LEMMA MoreSaid ==
  ASSUME turn \in Turn, emitted \in Summaries, Speaks
  PROVE  /\ emitted' \in Summaries /\ turn' \in Turn
         /\ emitted'.starts = emitted.starts /\ emitted'.ends = emitted.ends
         /\ emitted'.reason = emitted.reason
         /\ emitted.first # "none" => emitted'.first = emitted.first
         /\ emitted'.last \in {emitted.last, "event"}
         /\ closed => emitted' = emitted
         /\ Grows
<1>1. PICK s : Turns(s) /\ Push(s)
  BY DEF Speaks
<1>2. s \in Seq(Events) /\ Ordinary(s) /\ turn' \in Turn
  BY <1>1, TurnsType
<1>3. CASE closed
  BY <1>1, <1>2, <1>3, PushIs DEF Grows
<1>4. CASE ~closed
  BY <1>1, <1>2, <1>4, PushIs, NotedType, NotedOrdinary DEF Grows
<1> QED
  BY <1>3, <1>4

LEMMA LastIsSaid ==
  ASSUME turn \in Turn, emitted \in Summaries, NEW r, SaysLast(r), Begun(emitted), emitted.ends = 0
  PROVE  /\ emitted' \in Summaries /\ turn' \in Turn /\ Begun(emitted') /\ Grows
         /\ closed => emitted' = emitted
         /\ ~closed => /\ emitted'.ends = 1 /\ emitted'.reason = r /\ emitted'.last = "agent_end"
                       /\ r = "error" => emitted'.errored \/ Excused
<1>1. PICK s : Turns(s) /\ Push(s \o <<AgentEnd(r)>>) /\ (r = "error" => Reports(s) \/ Excused)
  BY DEF SaysLast
<1>2. s \in Seq(Events) /\ Ordinary(s) /\ turn' \in Turn /\ r \in Finish
  BY <1>1, TurnsType DEF SaysLast
<1>3. CASE closed
  BY <1>1, <1>2, <1>3, PushIs DEF Grows
<1>4. CASE ~closed
  <2> DEFINE e == Noted(emitted, s)
  <2>1. AgentEnd(r) \in Events /\ AgentEnd(r).type = "agent_end" /\ AgentEnd(r).reason = r
    BY <1>2, EventsType
  <2>2. e \in Summaries
    BY <1>2, NotedType
  <2>3. emitted' = Note(e, AgentEnd(r))
    <3>1. <<AgentEnd(r)>> \in Seq(Events)
      BY <2>1, OneOrTwo
    <3>2. Noted(emitted, s \o <<AgentEnd(r)>>) = Noted(e, <<AgentEnd(r)>>)
      BY <1>2, <3>1, NotedBoth
    <3> HIDE DEF e
    <3> QED
      BY <1>1, <1>4, <2>1, <2>2, <3>2, PushIs, NotedOne
  <2>4. /\ Begun(e) /\ e.ends = 0 /\ e.reason = emitted.reason
        /\ emitted.errored \/ Reports(s) => e.errored
    BY <1>2, NotedOrdinary DEF Begun
  <2> HIDE DEF e
  <2>5. emitted' \in Summaries
    BY <2>1, <2>2, <2>3, NoteType
  <2>6. /\ emitted'.starts = e.starts + 0 /\ emitted'.ends = e.ends + 1 /\ emitted'.reason = r
        /\ emitted'.last = "agent_end" /\ emitted'.first = e.first
        /\ e.errored => emitted'.errored
    BY <2>1, <2>2, <2>3, <2>4, NoteFields DEF Begun
  <2> QED
    BY <1>1, <1>2, <1>4, <2>2, <2>4, <2>5, <2>6 DEF Begun, Grows
<1> QED
  BY <1>3, <1>4

-----------------------------------------------------------------------------
(* What is true of every run.                                              *)

HasSettled(r) == r \in Finish \cup {"rejected"}

\* Before it begins, and at work.
IdleOK ==
  pc = "idle" =>
    /\ emitted = NothingEmitted /\ turn = NoTurn /\ result = "none"
    /\ consumer = "none" /\ ~closed

BegunOK ==
  /\ kind = "supervised" => emitted = NothingEmitted
  /\ pc # "idle" /\ kind # "supervised" => Begun(emitted)
  /\ pc \in Working => emitted.ends = 0 /\ result = "pending"

\* Behind its end.
EndedOK ==
  /\ pc = "cleaning" => kind = "acp" /\ result = "pending" /\ closed
  /\ pc = "over" => /\ HasSettled(result)
                    /\ closed \/ kind = "supervised" \/ result = "rejected"
  /\ emitted.ends = 1 /\ pc = "over" => result = emitted.reason
  /\ emitted.ends = 1 /\ pc = "cleaning" => finish = emitted.reason
  /\ result = "rejected" => kind \in {"anthropic", "codex"}

\* The queue is closed by the end or by its consumer.
ClosedOK ==
  /\ closed => emitted.ends = 1 \/ consumer = "left"
  /\ consumer = "left" => closed
  /\ emitted.ends \in {0, 1}
  /\ emitted.ends = 1 => closed /\ emitted.last = "agent_end"
  /\ emitted.ends = 0 => emitted.last # "agent_end"

\* An error is reported.
ErrorsOK ==
  /\ result = "error" \/ (pc = "cleaning" /\ finish = "error")
       => emitted.errored \/ consumer = "left" \/ Excused
  /\ kind = "anthropic" => finish \in AnthropicReasons

RunOK == IdleOK /\ BegunOK /\ EndedOK /\ ClosedOK /\ ErrorsOK

\* What AgentRun allows a step to do.
Moves ==
  /\ \/ UNCHANGED emitted
     \/ /\ consumer # "left" /\ emitted.ends = 0 /\ Begun(emitted') /\ Grows
        /\ \/ emitted'.ends = 0 /\ emitted'.last # "agent_end" /\ emitted'.reason = emitted.reason
           \/ emitted'.ends = 1 /\ emitted'.last = "agent_end"
  /\ consumer = "left" => consumer' = "left"
  /\ \/ result' = result
     \/ result = "none" /\ result' = "pending"
     \/ result \in {"none", "pending"} /\ HasSettled(result')

LEMMA NoTurnType == NoTurn \in Turn
BY DEF NoTurn, Turn, None

LEMMA InitRun ==
  ASSUME CallInit
  PROVE  CallTypeOK /\ RunOK
<1>1. /\ kind \in Kinds /\ pc = "idle" /\ ~closed /\ aborted = FALSE /\ consumer = "none"
      /\ emitted = NothingEmitted /\ turn = NoTurn /\ finish = "unknown" /\ result = "none"
      /\ closed = FALSE
  BY DEF CallInit
<1>2. CallTypeOK
  BY <1>1, NothingType, NoTurnType DEF CallTypeOK, Finish, Settlements
<1>3. RunOK
  BY <1>1, NothingType
     DEF RunOK, IdleOK, BegunOK, EndedOK, ClosedOK, ErrorsOK, Working, AnthropicReasons
<1> QED
  BY <1>2, <1>3

LEMMA RunPreserved ==
  ASSUME CallTypeOK, RunOK, CallShape
  PROVE  CallTypeOK' /\ RunOK' /\ Moves
<1> USE DEF Finish
<1>1. /\ kind \in Kinds /\ pc \in {"idle", "cleaning", "over"} \cup Working
      /\ aborted \in BOOLEAN /\ closed \in BOOLEAN
      /\ consumer \in {"none", "iterating", "left"}
      /\ emitted \in Summaries /\ turn \in Turn
      /\ finish \in Finish /\ result \in Settlements
  BY DEF CallTypeOK
<1>2. IdleOK /\ BegunOK /\ EndedOK /\ ClosedOK /\ ErrorsOK
  BY DEF RunOK
<1>3. "idle" \notin Working /\ "cleaning" \notin Working /\ "over" \notin Working
  BY DEF Working
<1>4. CASE CallStays
  <2>1. CallTypeOK'
    BY <1>1, <1>4 DEF CallStays, CallTypeOK
  <2>2. IdleOK' /\ BegunOK' /\ EndedOK'
    BY <1>1, <1>2, <1>4 DEF CallStays, IdleOK, BegunOK, EndedOK
  <2>3. ClosedOK' /\ ErrorsOK'
    BY <1>1, <1>2, <1>4 DEF CallStays, ClosedOK, ErrorsOK, Excused
  <2>4. Moves
    BY <1>1, <1>4 DEF CallStays, Moves
  <2> QED
    BY <2>1, <2>2, <2>3, <2>4 DEF RunOK
<1>5. CASE CallStarts
  <2>1. /\ emitted = NothingEmitted /\ result = "none" /\ consumer = "none" /\ ~closed
        /\ pc = "idle" /\ kind # "supervised" /\ kind' = kind /\ aborted' \in BOOLEAN
        /\ consumer' \in {"none", "iterating"} /\ turn' = turn /\ pc' \in Working
        /\ result' = "pending" /\ finish' \in Finish /\ closed' = closed
        /\ Push(<<AgentStart>>) /\ (kind = "anthropic" => finish' = finish)
    BY <1>2, <1>5 DEF CallStarts, Beginning, IdleOK
  <2>2. /\ emitted' \in Summaries /\ Begun(emitted') /\ emitted'.ends = 0
        /\ emitted'.last = "event" /\ emitted'.reason = "none"
    BY <2>1, StartSaid
  <2>3. CallTypeOK'
    BY <1>1, <2>1, <2>2 DEF CallTypeOK, Settlements
  <2>4. IdleOK' /\ BegunOK' /\ EndedOK'
    BY <1>3, <2>1, <2>2 DEF IdleOK, BegunOK, EndedOK
  <2>5. ClosedOK' /\ ErrorsOK'
    BY <1>2, <1>3, <2>1, <2>2 DEF ClosedOK, ErrorsOK
  <2>6. Moves
    BY <2>1, <2>2, NothingType DEF Moves, Grows
  <2> QED
    BY <2>3, <2>4, <2>5, <2>6 DEF RunOK
<1>6. CASE CallNeverStarts
  <2>1. /\ emitted = NothingEmitted /\ result = "none" /\ consumer = "none" /\ ~closed
        /\ pc = "idle" /\ kind # "supervised" /\ kind' = kind /\ aborted' \in BOOLEAN
        /\ consumer' \in {"none", "iterating"} /\ turn' = turn /\ pc' = "over"
        /\ closed' = TRUE /\ kind # "anthropic"
    BY <1>2, <1>6 DEF CallNeverStarts, Beginning, IdleOK
  <2>2. PICK r \in {"aborted", "error"} :
          /\ result' = r /\ finish' \in {finish, r}
          /\ Push(<<AgentStart, ErrorEvent, AgentEnd(r)>>)
    BY <1>6 DEF CallNeverStarts
  <2>3. /\ emitted' \in Summaries /\ Begun(emitted') /\ emitted'.ends = 1
        /\ emitted'.last = "agent_end" /\ emitted'.reason = r /\ emitted'.errored
    BY <2>1, <2>2, NeverStartSaid
  <2>4. CallTypeOK'
    BY <1>1, <2>1, <2>2, <2>3 DEF CallTypeOK, Settlements
  <2>5. IdleOK' /\ BegunOK' /\ EndedOK'
    BY <1>3, <2>1, <2>2, <2>3 DEF IdleOK, BegunOK, EndedOK, HasSettled
  <2>6. ClosedOK' /\ ErrorsOK'
    BY <1>3, <2>1, <2>2, <2>3 DEF ClosedOK, ErrorsOK
  <2>7. Moves
    BY <2>1, <2>2, <2>3, NothingType DEF Moves, Grows, HasSettled
  <2> QED
    BY <2>4, <2>5, <2>6, <2>7 DEF RunOK
<1>7. CASE CallGoesOn
  <2>1. /\ kind' = kind /\ aborted' = aborted /\ consumer' = consumer /\ kind # "supervised"
        /\ result' = result /\ closed' = closed /\ Speaks
        /\ \/ pc # "idle" /\ pc' = pc /\ finish' = finish
           \/ /\ pc \in Working /\ pc' \in Working
              /\ finish' \in Finish /\ (kind = "anthropic" => finish' \in AnthropicReasons)
    BY <1>7 DEF CallGoesOn, SameOwner, Speaks
  <2>2. /\ emitted' \in Summaries /\ turn' \in Turn
        /\ emitted'.starts = emitted.starts /\ emitted'.ends = emitted.ends
        /\ emitted'.reason = emitted.reason
        /\ emitted.first # "none" => emitted'.first = emitted.first
        /\ emitted'.last \in {emitted.last, "event"}
        /\ closed => emitted' = emitted
        /\ Grows
    BY <1>1, <2>1, MoreSaid
  <2>3. Begun(emitted) /\ Begun(emitted') /\ pc # "idle" /\ pc' # "idle"
    BY <1>2, <1>3, <2>1, <2>2 DEF BegunOK, Begun
  <2>4. CallTypeOK'
    BY <1>1, <2>1, <2>2 DEF CallTypeOK
  <2>5. IdleOK' /\ BegunOK' /\ EndedOK'
    BY <1>2, <1>3, <2>1, <2>2, <2>3 DEF IdleOK, BegunOK, EndedOK
  <2>6. ClosedOK'
    BY <1>2, <2>1, <2>2 DEF ClosedOK
  <2>7. ErrorsOK'
    BY <1>2, <1>3, <2>1, <2>2 DEF BegunOK, ErrorsOK, Excused, Grows
  <2>8. Moves
    BY <1>2, <2>1, <2>2, <2>3 DEF Moves, ClosedOK
  <2> QED
    BY <2>4, <2>5, <2>6, <2>7, <2>8 DEF RunOK
<1>8. ASSUME NEW r, CallEnds(r)
      PROVE  CallTypeOK' /\ RunOK' /\ Moves
  <2>1. /\ kind' = kind /\ aborted' = aborted /\ consumer' = consumer /\ kind # "supervised"
        /\ pc \in Working /\ pc' \in {"over", "cleaning"} /\ closed' = TRUE /\ r \in Finish
        /\ SaysLast(r)
    BY <1>8 DEF CallEnds, SameOwner, SaysLast
  <2>2. \/ pc' = "over" /\ result' = r /\ finish' \in {finish, r} /\ (kind # "acp" => finish' = finish)
        \/ kind = "acp" /\ pc' = "cleaning" /\ result' = result /\ finish' = r
    BY <1>8 DEF CallEnds
  <2>3. Begun(emitted) /\ emitted.ends = 0 /\ result = "pending"
    BY <1>2, <1>3, <2>1 DEF BegunOK
  <2>4. /\ emitted' \in Summaries /\ turn' \in Turn /\ Begun(emitted') /\ Grows
        /\ closed => emitted' = emitted
        /\ ~closed => /\ emitted'.ends = 1 /\ emitted'.reason = r /\ emitted'.last = "agent_end"
                      /\ r = "error" => emitted'.errored \/ Excused
    BY <1>1, <2>1, <2>3, LastIsSaid
  <2>5. CallTypeOK'
    BY <1>1, <2>1, <2>2, <2>4 DEF CallTypeOK, Settlements
  <2>6. IdleOK' /\ BegunOK' /\ EndedOK'
    BY <1>2, <1>3, <2>1, <2>2, <2>3, <2>4 DEF IdleOK, BegunOK, EndedOK, HasSettled
  <2>7. ClosedOK'
    BY <1>2, <2>1, <2>3, <2>4 DEF ClosedOK
  <2>8. closed => consumer = "left"
    BY <1>2, <2>3 DEF ClosedOK
  <2>9. Excused /\ r = "error" => Excused'
    BY <2>1, <2>2 DEF Excused
  <2>10. ErrorsOK'
    BY <1>2, <2>1, <2>2, <2>3, <2>4, <2>8, <2>9 DEF ErrorsOK
  <2>11. Moves
    BY <1>2, <2>1, <2>2, <2>3, <2>4 DEF Moves, ClosedOK, HasSettled
  <2> QED
    BY <2>5, <2>6, <2>7, <2>10, <2>11 DEF RunOK
<1>9. CASE CallCleaned \/ CallRejected
  <2>1. /\ kind' = kind /\ aborted' = aborted /\ consumer' = consumer /\ kind # "supervised"
        /\ emitted' = emitted /\ closed' = closed /\ turn' = turn /\ finish' = finish
        /\ pc' = "over"
        /\ \/ kind = "acp" /\ pc = "cleaning" /\ result' = finish
           \/ kind \in {"anthropic", "codex"} /\ pc \in Working /\ result' = "rejected"
    BY <1>9 DEF CallCleaned, CallRejected, SameOwner, SaysNothing, Working
  <2>2. CallTypeOK'
    BY <1>1, <2>1 DEF CallTypeOK, Settlements
  <2>3. IdleOK' /\ BegunOK' /\ EndedOK'
    BY <1>1, <1>2, <1>3, <2>1 DEF IdleOK, BegunOK, EndedOK, HasSettled
  <2>4. ClosedOK' /\ ErrorsOK'
    BY <1>2, <2>1 DEF ClosedOK, ErrorsOK, Excused
  <2>5. Moves
    BY <1>1, <1>2, <2>1 DEF Moves, EndedOK, BegunOK, HasSettled
  <2> QED
    BY <2>2, <2>3, <2>4, <2>5 DEF RunOK
<1>10. CASE CallSupervised
  <2>1. /\ kind' = kind /\ aborted' = aborted /\ consumer' = consumer /\ kind = "supervised"
        /\ emitted' = emitted /\ closed' = closed /\ turn' = turn /\ finish' = finish
        /\ \/ pc = "idle" /\ pc' = "supervising" /\ result' = "pending"
           \/ pc = "supervising" /\ pc' = "over" /\ result' = "stop"
        /\ "supervising" \in Working
    BY <1>10 DEF CallSupervised, SameOwner, SaysNothing, Working
  <2>2. CallTypeOK'
    BY <1>1, <2>1 DEF CallTypeOK, Settlements
  <2>3. IdleOK' /\ BegunOK' /\ EndedOK'
    BY <1>1, <1>2, <1>3, <2>1, NothingType DEF IdleOK, BegunOK, EndedOK, HasSettled
  <2>4. ClosedOK' /\ ErrorsOK'
    BY <1>2, <1>3, <2>1 DEF ClosedOK, ErrorsOK, Excused
  <2>5. Moves
    BY <1>1, <1>2, <2>1 DEF Moves, IdleOK, BegunOK, HasSettled
  <2> QED
    BY <2>2, <2>3, <2>4, <2>5 DEF RunOK
<1> QED
  BY <1>4, <1>5, <1>6, <1>7, <1>8, <1>9, <1>10 DEF CallShape

-----------------------------------------------------------------------------
(* The child.                                                              *)

\* A run that is over has killed its child, if that is not gone.
ReapedOK == pc = "over" /\ Alive(child) => child.told = "KILL"

ChildOK == child \in Children /\ ChildBegun /\ ReapedOK

LEMMA ChildValues ==
  ASSUME NEW c \in Children
  PROVE  /\ NoChild \in Children /\ NoChild.state = "none"
         /\ Spawned \in Children /\ Spawned.state = "spawning"
         /\ Terminated(c) \in Children /\ Terminated(c).state = c.state
         /\ \A s \in {"TERM", "KILL"} :
              Escalated(c, s) \in Children /\ Escalated(c, s).state = c.state
         /\ [c EXCEPT !.timer = FALSE] \in Children
         /\ [c EXCEPT !.timer = FALSE].state = c.state
         /\ [c EXCEPT !.timer = FALSE, !.told = "KILL"] \in Children
         /\ [c EXCEPT !.timer = FALSE, !.told = "KILL"].state = c.state
         /\ [c EXCEPT !.timer = FALSE, !.told = "KILL"].told = "KILL"
<1>1. NoChild \in Children /\ NoChild.state = "none"
  BY DEF NoChild, Children
<1>2. Spawned \in Children /\ Spawned.state = "spawning"
  BY DEF NoChild, Spawned, Children
<1>3. [c EXCEPT !.timer = FALSE] \in Children /\ [c EXCEPT !.timer = FALSE].state = c.state
  BY DEF Children
<1>4. /\ [c EXCEPT !.timer = FALSE, !.told = "KILL"] \in Children
      /\ [c EXCEPT !.timer = FALSE, !.told = "KILL"].state = c.state
      /\ [c EXCEPT !.timer = FALSE, !.told = "KILL"].told = "KILL"
  BY Zenon DEF Children
<1>5. ASSUME NEW s \in {"TERM", "KILL"}
      PROVE  /\ [c EXCEPT !.told = s, !.timer = TRUE] \in Children
             /\ [c EXCEPT !.told = s, !.timer = TRUE].state = c.state
  <2>1. s \in {"nothing", "TERM", "KILL"}
    OBVIOUS
  <2> QED
    BY <2>1, Zenon DEF Children
<1>6. Terminated(c) \in Children /\ Terminated(c).state = c.state
  <2>1. \/ Terminated(c) = c
        \/ Terminated(c) = [c EXCEPT !.told = "TERM", !.timer = TRUE]
    BY Zenon DEF Terminated
  <2> QED
    BY <1>5, <2>1
<1>7. ASSUME NEW s \in {"TERM", "KILL"}
      PROVE  Escalated(c, s) \in Children /\ Escalated(c, s).state = c.state
  <2>1. \/ Escalated(c, s) = c
        \/ Escalated(c, s) = [c EXCEPT !.told = s, !.timer = TRUE]
    BY Zenon DEF Escalated
  <2> QED
    BY <1>5, <2>1, Zenon
<1> QED
  BY <1>1, <1>2, <1>3, <1>4, <1>6, <1>7

\* A run that has begun does not begin again, and stays what it is.
LEMMA ShapeBegun ==
  ASSUME CallShape
  PROVE  kind' = kind /\ (pc # "idle" => pc' # "idle")
BY DEF CallShape, CallStays, CallStarts, CallNeverStarts, Beginning, CallGoesOn, CallEnds,
       CallCleaned, CallRejected, CallSupervised, SameOwner, Working

LEMMA StreamKind == StreamStep => kind \in {"anthropic", "codex", "pi"}
BY DEF StreamStep, AnthropicStarts, CodexStarts, PiStarts, StreamStarts, StreamGoesOn,
       AnthropicEvent, CodexEvent, PiEvent, StreamSettles, ClientLoads, PiLoads, PiPromptThrows,
       PiPromptResolves, AnthropicThrows, AnthropicEnds, CodexThrows, CodexEnds, At

LEMMA LoopKind == LoopStep => kind = "inference"
BY DEF LoopStep, InferenceStarts, Requested, Delta, RoundCompletes, ToolsReturn, LoopThrows,
       Retries, Finalized, At

LEMMA AcpKind == AcpStep => kind = "acp"
BY DEF AcpStep, AcpStarts, AcpContinues, Initialized, SessionReady, PromptAnswered, Refused,
       WaitEnds, Answers, StdoutEnds, SessionUpdates, Notifications, AgentRequests, Receives,
       TransportErrors, FollowUp, Continued, Running, At

\* No child changes hands without a run that is not over.
LEMMA NoChildStays ==
  ASSUME ChildOK, CallShape, child' = child, kind \notin ChildKinds \/ pc' = pc \/ ~Alive(child)
  PROVE  ChildOK'
<1>1. kind' = kind /\ (pc # "idle" => pc' # "idle")
  BY ShapeBegun
<1>2. ReapedOK'
  BY DEF ChildOK, ChildBegun, ReapedOK, Alive
<1> QED
  BY <1>1, <1>2 DEF ChildOK, ChildBegun

LEMMA ChildStepOK ==
  ASSUME ChildOK, CallShape, ChildStep
  PROVE  ChildOK'
<1>1. child \in Children /\ ChildBegun /\ ReapedOK
  BY DEF ChildOK
<1>2. kind' = kind /\ (pc # "idle" => pc' # "idle")
  BY ShapeBegun
<1>3. ASSUME child' \in Children, child'.state # "none" => pc' # "idle" /\ kind \in ChildKinds,
             pc' = "over" /\ Alive(child') => child'.told = "KILL"
      PROVE  ChildOK'
  BY <1>2, <1>3 DEF ChildOK, ChildBegun, ReapedOK
<1>4. ASSUME CallQuiet, child' \in Children, child'.state = "none" <=> child.state = "none",
             pc = "over" /\ Alive(child') => child'.told = "KILL"
      PROVE  ChildOK'
  BY <1>1, <1>3, <1>4 DEF CallQuiet, callVars, ChildBegun
<1>5. ASSUME NEW k \in {"codex-cli", "claude-code"}, CliStarts(k)
      PROVE  ChildOK'
  <2>1. pc = "idle" /\ kind = k /\ k \in ChildKinds
    BY <1>5 DEF CliStarts, Begins, ChildKinds
  <2>2. CASE pc' = "reading" /\ child' = IF aborted' THEN Terminated(Spawned) ELSE Spawned
    <3>1. Spawned \in Children
      BY <1>1, ChildValues
    <3>2. child' \in Children
      BY <2>2, <3>1, ChildValues
    <3> QED
      BY <1>3, <2>1, <2>2, <3>2
  <2>3. CASE UNCHANGED child
    <3>1. child.state = "none"
      BY <1>1, <2>1 DEF ChildBegun
    <3> QED
      BY <2>3, <3>1, NoChildStays DEF Alive
  <2> QED
    BY <1>5, <2>2, <2>3 DEF CliStarts
<1>6. CASE CodexCliStarts \/ ClaudeCodeStarts
  BY <1>5, <1>6 DEF CodexCliStarts, ClaudeCodeStarts
<1>7. CASE Supervises
  <2>1. child' \in Children
    BY <1>1, <1>7, ChildValues DEF Supervises
  <2> QED
    BY <1>3, <1>7, <2>1 DEF Supervises, At, ChildKinds
<1>8. CASE ChildUp
  <2>1. child' \in Children /\ child'.state = "up" /\ child'.told = child.told
    BY <1>1, <1>8 DEF ChildUp, Children
  <2> QED
    BY <1>1, <1>4, <1>8, <2>1 DEF ChildUp, Alive, ReapedOK
<1>9. CASE ChildExits
  <2>1. PICK code \in {"zero", "other"} : child' = [child EXCEPT !.state = "gone", !.code = code]
    BY <1>9 DEF ChildExits
  <2>2. code \in {"none", "zero", "other"} /\ "gone" \in {"none", "spawning", "up", "gone", "failed"}
    OBVIOUS
  <2>3. child' \in Children /\ child'.state = "gone"
    BY <1>1, <2>1, <2>2, Zenon DEF Children
  <2> QED
    BY <1>4, <1>9, <2>3 DEF ChildExits, Alive
<1>10. CASE ChildErrors
  <2>1. child' = [child EXCEPT !.state = "failed", !.code = "other"] /\ child.state = "spawning"
    BY <1>10 DEF ChildErrors
  <2>2. child' \in Children /\ child'.state = "failed"
    BY <1>1, <2>1, Zenon DEF Children
  <2> QED
    BY <1>1, <1>2, <1>3, <2>1, <2>2 DEF Alive, ChildBegun
<1>11. CASE KillTimer
  <2>1. child' = [child EXCEPT !.timer = FALSE, !.told = IF Alive(child) THEN "KILL" ELSE @]
    BY <1>11 DEF KillTimer
  <2>2. CASE Alive(child)
    <3>1. child' = [child EXCEPT !.timer = FALSE, !.told = "KILL"]
      BY <2>1, <2>2
    <3>2. child' \in Children /\ child'.state = child.state /\ child'.told = "KILL"
      BY <1>1, <3>1, ChildValues
    <3> QED
      BY <1>4, <1>11, <3>2 DEF KillTimer
  <2>3. CASE ~Alive(child)
    <3>1. child' = [child EXCEPT !.timer = FALSE, !.told = child.told]
      BY <2>1, <2>3
    <3>2. child.told \in {"nothing", "TERM", "KILL"}
      BY <1>1 DEF Children
    <3>3. child' \in Children /\ child'.state = child.state
      BY <1>1, <3>1, <3>2, Zenon DEF Children
    <3> QED
      BY <1>4, <1>11, <2>3, <3>3 DEF KillTimer, Alive
  <2> QED
    BY <2>2, <2>3
<1>12. CASE CodexCliLine \/ ClaudeCodeLine
  <2>1. child' = child /\ pc' = pc
    BY <1>12 DEF CodexCliLine, ClaudeCodeLine, ChildOutput, Continues
  <2> QED
    BY <2>1, NoChildStays
<1>13. CASE CodexCliCloses \/ ClaudeCodeCloses
  <2>1. child' = child /\ ~Alive(child)
    BY <1>13 DEF CodexCliCloses, ClaudeCodeCloses, CliCloses, Dead, Alive
  <2> QED
    BY <2>1, NoChildStays
<1>14. CASE ExitSettles
  <2>1. child' \in Children /\ child'.state = child.state /\ ~Alive(child) /\ kind = "supervised"
    BY <1>1, <1>14, ChildValues DEF ExitSettles, Dead, Alive, At
  <2> QED
    BY <1>2, <1>3, <1>14, <2>1 DEF ExitSettles, Alive, At, ChildKinds
<1>15. CASE Kills
  <2>1. child' \in Children /\ child'.state = child.state /\ pc = "supervising"
    <3>1. PICK signal \in {"TERM", "KILL"} : child' = Escalated(child, signal)
      BY <1>15 DEF Kills
    <3> QED
      BY <1>1, <1>15, <3>1, ChildValues DEF Kills, At
  <2> QED
    BY <1>4, <1>15, <2>1 DEF Kills
<1> QED
  BY <1>6, <1>7, <1>8, <1>9, <1>10, <1>11, <1>12, <1>13, <1>14, <1>15
     DEF ChildStep, ChildStarts, ChildRuns, ChildKilled

LEMMA CleanupOK ==
  ASSUME ChildOK, CallShape, pc \in AcpPhases, kind = "acp", NEW r, Cleanup(r)
  PROVE  ChildOK'
<1>1. kind' = kind /\ pc' # "idle" /\ child \in Children
  BY ShapeBegun DEF AcpPhases, ChildOK
<1>2. CASE Alive(child)
  BY <1>1, <1>2, ChildValues DEF Cleanup, ChildOK, ChildBegun, ReapedOK, ChildKinds
<1>3. CASE ~Alive(child)
  BY <1>3, NoChildStays DEF Cleanup
<1> QED
  BY <1>2, <1>3

LEMMA AcpChildOK ==
  ASSUME ChildOK, CallShape, AcpStep
  PROVE  ChildOK'
<1>1. child \in Children /\ ChildBegun /\ ReapedOK
  BY DEF ChildOK
<1>2. kind' = kind /\ (pc # "idle" => pc' # "idle") /\ kind = "acp"
  BY ShapeBegun, AcpKind
<1>3. ASSUME UNCHANGED <<pc, child>> PROVE ChildOK'
  BY <1>3, NoChildStays
<1>4. CASE Answers \/ StdoutEnds \/ FollowUp \/ SessionUpdates \/ Notifications \/ AgentRequests
           \/ TransportErrors
  BY <1>3, <1>4 DEF Answers, StdoutEnds, FollowUp, SessionUpdates, Notifications, AgentRequests,
                    Receives, TransportErrors, CallQuiet, callVars, Continues
<1>5. CASE AcpStarts
  <2>1. pc = "idle" /\ child.state = "none"
    BY <1>1, <1>5 DEF AcpStarts, Begins, ChildBegun
  <2>2. CASE child' = Spawned /\ pc' = "initializing"
    BY <1>1, <1>2, <2>2, ChildValues DEF ChildOK, ChildBegun, ReapedOK, ChildKinds
  <2>3. CASE UNCHANGED child
    BY <2>1, <2>3, NoChildStays DEF Alive
  <2> QED
    BY <1>5, <2>2, <2>3 DEF AcpStarts
<1>6. ASSUME NEW phase, NEW s, Requests(phase, s), pc \in AcpPhases, phase \in AcpPhases
      PROVE  ChildOK'
  BY <1>1, <1>2, <1>6 DEF Requests, AcpPhases, ChildOK, ChildBegun, ReapedOK
<1>7. ASSUME NEW s, NEW r, AcpCloses(s, r), pc \in AcpPhases PROVE ChildOK'
  BY <1>2, <1>7, CleanupOK DEF AcpCloses
<1>8. CASE Initialized
  <2>1. pc \in AcpPhases /\ "creating" \in AcpPhases
    BY <1>8 DEF Initialized, Continued, At, AcpPhases
  <2> QED
    BY <1>6, <1>7, <1>8, <2>1 DEF Initialized
<1>9. CASE SessionReady
  <2>1. pc \in AcpPhases /\ "prompting" \in AcpPhases
    BY <1>9 DEF SessionReady, Continued, At, AcpPhases
  <2> QED
    BY <1>6, <1>7, <1>9, <2>1 DEF SessionReady, AcpFails
<1>10. CASE PromptAnswered
  <2>1. pc \in AcpPhases
    BY <1>10 DEF PromptAnswered, Continued, At, AcpPhases
  <2>2. (\E reason : Cleanup(reason)) \/ UNCHANGED <<pc, child>>
    BY <1>10 DEF PromptAnswered
  <2> QED
    BY <1>2, <1>3, <2>1, <2>2, CleanupOK
<1>11. CASE Refused
  BY <1>7, <1>11 DEF Refused, Running, AcpFails
<1>12. CASE WaitEnds
  <2>1. CASE child.state = "gone"
    <3>1. child' = [child EXCEPT !.timer = FALSE]
      BY <1>12, <2>1 DEF WaitEnds
    <3> QED
      BY <1>1, <1>2, <1>12, <2>1, <3>1, ChildValues
         DEF WaitEnds, At, ChildOK, ChildBegun, ReapedOK, Alive, ChildKinds
  <2>2. CASE child.state # "gone"
    <3>1. child' = [child EXCEPT !.timer = FALSE, !.told = "KILL"]
      BY <1>12, <2>2 DEF WaitEnds
    <3> QED
      BY <1>1, <1>2, <1>12, <3>1, ChildValues
         DEF WaitEnds, At, ChildOK, ChildBegun, ReapedOK, Alive, ChildKinds
  <2> QED
    BY <2>1, <2>2
<1> QED
  BY <1>4, <1>5, <1>8, <1>9, <1>10, <1>11, <1>12 DEF AcpStep, AcpContinues

\* The signal reaches the child of a run that is not over.
LEMMA AbortChildOK ==
  ASSUME ChildOK, AbortsCall, child' = AbortReaches
  PROVE  ChildOK'
<1>1. child \in Children /\ UNCHANGED <<kind, pc>>
  BY DEF ChildOK, AbortsCall
<1>2. \/ child' = child
      \/ /\ pc \in {"reading", "supervising"}
         /\ child' \in {Terminated(child), Escalated(child, "TERM")}
  BY DEF AbortReaches
<1>3. child' \in Children /\ child'.state = child.state /\ (pc = "over" => child' = child)
  BY <1>1, <1>2, ChildValues
<1> QED
  BY <1>1, <1>3 DEF ChildOK, ChildBegun, ReapedOK, Alive

-----------------------------------------------------------------------------
(* The ACP session.                                                        *)

FollowUpsOK == HasEnded /\ finish \notin {"aborted", "error"} => acp.followUps = acp.late

AcpOK == acp \in Acps /\ FollowUpsOK

LEMMA AcpValues ==
  ASSUME NEW a \in Acps
  PROVE  /\ a.followUps \in Nat /\ a.late \in Nat
         /\ \A q \in {"none", "awaited", "answered", "refused"} :
              /\ [a EXCEPT !.request = q] \in Acps
              /\ [a EXCEPT !.request = q].followUps = a.followUps
              /\ [a EXCEPT !.request = q].late = a.late
              /\ [a EXCEPT !.ended = TRUE, !.request = q] \in Acps
              /\ [a EXCEPT !.ended = TRUE, !.request = q].followUps = a.followUps
              /\ [a EXCEPT !.ended = TRUE, !.request = q].late = a.late
              /\ \A n \in Nat : [a EXCEPT !.request = q, !.followUps = n] \in Acps
         /\ \A n \in Nat : [a EXCEPT !.followUps = n] \in Acps
         /\ [a EXCEPT !.cancelSent = TRUE] \in Acps
         /\ [a EXCEPT !.cancelSent = TRUE].followUps = a.followUps
         /\ [a EXCEPT !.cancelSent = TRUE].late = a.late
<1>1. a.followUps \in Nat /\ a.late \in Nat
  BY DEF Acps
<1>2. ASSUME NEW q \in {"none", "awaited", "answered", "refused"}
      PROVE  /\ [a EXCEPT !.request = q] \in Acps
             /\ [a EXCEPT !.request = q].followUps = a.followUps
             /\ [a EXCEPT !.request = q].late = a.late
             /\ [a EXCEPT !.ended = TRUE, !.request = q] \in Acps
             /\ [a EXCEPT !.ended = TRUE, !.request = q].followUps = a.followUps
             /\ [a EXCEPT !.ended = TRUE, !.request = q].late = a.late
  BY Zenon DEF Acps
<1>3. ASSUME NEW q \in {"none", "awaited", "answered", "refused"}, NEW n \in Nat
      PROVE  [a EXCEPT !.request = q, !.followUps = n] \in Acps
  BY Zenon DEF Acps
<1>4. \A n \in Nat : [a EXCEPT !.followUps = n] \in Acps
  BY Zenon DEF Acps
<1>5. /\ [a EXCEPT !.cancelSent = TRUE] \in Acps
      /\ [a EXCEPT !.cancelSent = TRUE].followUps = a.followUps
      /\ [a EXCEPT !.cancelSent = TRUE].late = a.late
  BY Zenon DEF Acps
<1> QED
  BY <1>1, <1>2, <1>3, <1>4, <1>5, Zenon

\* What comes in when the run ends is late.
LEMMA EndsValues ==
  ASSUME acp \in Acps, AcpEnds
  PROVE  acp' \in Acps /\ acp'.followUps = acp.followUps + acp'.late
<1>1. PICK n \in 0..(MaxFollowUps - acp.followUps) :
        acp' = [acp EXCEPT !.request = "none", !.followUps = @ + n, !.late = n]
  BY DEF AcpEnds
<1>2. acp.followUps \in Nat
  BY AcpValues
<1>3. n \in Nat /\ acp.followUps + n \in Nat
  BY <1>2, FollowUpsAssumption
<1>4. "none" \in {"none", "awaited", "answered", "refused"}
  OBVIOUS
<1>5. acp' = [acp EXCEPT !.request = "none", !.followUps = acp.followUps + n, !.late = n]
  BY <1>1, Zenon
<1>6. acp' \in Acps /\ acp'.followUps = acp.followUps + n /\ acp'.late = n
  BY <1>3, <1>4, <1>5, Zenon DEF Acps
<1> QED
  BY <1>6

\* What has ended keeps its reason.
LEMMA FinishStays ==
  ASSUME CallShape, HasEnded
  PROVE  HasEnded' /\ finish' = finish
<1>1. kind' = kind /\ kind = "acp" /\ pc \in {"cleaning", "over"} /\ pc \notin Working
  BY ShapeBegun DEF HasEnded, Working
<1>2. pc' \in {"cleaning", "over"} /\ finish' = finish
  BY <1>1 DEF CallShape, CallStays, CallStarts, CallNeverStarts, Beginning, CallGoesOn, CallEnds,
       CallCleaned, CallRejected, CallSupervised
<1> QED
  BY <1>1, <1>2 DEF HasEnded

\* The queue of messages stays, and so does the run, or it is at work still.
LEMMA AcpStays ==
  ASSUME AcpOK, CallShape, acp' \in Acps,
         acp'.followUps = acp.followUps, acp'.late = acp.late,
         HasEnded \/ ~HasEnded' \/ finish' \in {"aborted", "error"}
  PROVE  AcpOK'
BY FinishStays DEF AcpOK, FollowUpsOK

LEMMA AcpClosesOK ==
  ASSUME AcpOK, CallShape, NEW s, NEW r \in {"aborted", "error"}, AcpCloses(s, r)
  PROVE  AcpOK'
<1>1. acp' \in Acps /\ finish' = r
  BY EndsValues DEF AcpOK, AcpCloses
<1> QED
  BY <1>1 DEF AcpOK, FollowUpsOK

LEMMA RequestsOK ==
  ASSUME AcpOK, CallShape, NEW phase \in AcpPhases, NEW s, Requests(phase, s)
  PROVE  AcpOK'
<1>1. acp' \in Acps /\ acp'.followUps = acp.followUps /\ acp'.late = acp.late
  BY AcpValues DEF AcpOK, Requests
<1>2. ~HasEnded'
  BY DEF Requests, HasEnded, AcpPhases
<1> QED
  BY <1>1, <1>2, AcpStays

LEMMA AcpStepOK ==
  ASSUME AcpOK, CallShape, AcpStep
  PROVE  AcpOK'
<1>1. acp \in Acps /\ FollowUpsOK /\ kind' = kind /\ acp.followUps \in Nat
  BY ShapeBegun, AcpValues DEF AcpOK
<1>2. ASSUME UNCHANGED <<pc, finish>>, acp' \in Acps,
             acp'.followUps = acp.followUps, acp'.late = acp.late
      PROVE  AcpOK'
  BY <1>1, <1>2, AcpStays DEF HasEnded
<1>3. CASE Answers \/ StdoutEnds
  <2>1. acp' \in Acps /\ acp'.followUps = acp.followUps /\ acp'.late = acp.late
    <3>1. CASE Answers
      <4>1. PICK answer \in {"answered", "refused"} : acp' = [acp EXCEPT !.request = answer]
        BY <3>1 DEF Answers
      <4>2. answer \in {"none", "awaited", "answered", "refused"}
        OBVIOUS
      <4> QED
        BY <1>1, <4>1, <4>2, AcpValues
    <3>2. CASE StdoutEnds
      BY <1>1, <3>2, AcpValues DEF StdoutEnds
    <3> QED
      BY <1>3, <3>1, <3>2
  <2> QED
    BY <1>2, <1>3, <2>1 DEF Answers, StdoutEnds, CallQuiet, callVars
<1>4. CASE SessionUpdates \/ Notifications \/ AgentRequests \/ TransportErrors
  BY <1>1, <1>2, <1>4 DEF SessionUpdates, Notifications, AgentRequests, Receives,
                          TransportErrors, Continues
<1>5. CASE AcpStarts
  <2>1. CASE finish' = finish /\ pc' = "initializing" /\ acp' = [acp EXCEPT !.request = "awaited"]
    BY <1>1, <2>1, AcpValues, AcpStays DEF HasEnded
  <2>2. CASE finish' \in {"aborted", "error"} /\ AcpEnds
    BY <1>1, <2>2, EndsValues DEF AcpOK, FollowUpsOK
  <2>3. \/ finish' = finish /\ pc' = "initializing" /\ acp' = [acp EXCEPT !.request = "awaited"]
        \/ finish' \in {"aborted", "error"} /\ AcpEnds
    BY <1>5 DEF AcpStarts
  <2> QED
    BY <2>1, <2>2, <2>3
<1>6. CASE Initialized
  BY <1>6, AcpClosesOK, RequestsOK DEF Initialized, AcpPhases
<1>7. CASE SessionReady
  BY <1>7, AcpClosesOK, RequestsOK DEF SessionReady, AcpFails, AcpPhases
<1>8. CASE PromptAnswered
  <2>1. PICK reason :
          \/ /\ reason = "aborted" \/ acp.followUps = 0
             /\ finish' = reason /\ AcpEnds
          \/ /\ acp.followUps # 0
             /\ acp' = [acp EXCEPT !.request = "awaited", !.followUps = @ - 1]
             /\ UNCHANGED <<pc, finish>>
    BY <1>8 DEF PromptAnswered
  <2>2. CASE /\ reason = "aborted" \/ acp.followUps = 0
             /\ finish' = reason /\ AcpEnds
    <3>1. acp' \in Acps /\ acp'.followUps = acp.followUps + acp'.late /\ acp'.late \in Nat
      BY <1>1, <2>2, EndsValues DEF Acps
    <3> QED
      BY <2>2, <3>1 DEF AcpOK, FollowUpsOK
  <2>3. CASE /\ acp.followUps # 0 /\ UNCHANGED <<pc, finish>>
             /\ acp' = [acp EXCEPT !.request = "awaited", !.followUps = @ - 1]
    <3>1. acp' = [acp EXCEPT !.request = "awaited", !.followUps = acp.followUps - 1]
      BY <2>3, Zenon
    <3>2. acp.followUps - 1 \in Nat
      BY <1>1, <2>3
    <3>3. acp' \in Acps
      BY <1>1, <3>1, <3>2, AcpValues, Zenon
    <3>4. ~HasEnded'
      BY <1>1, <1>8, <2>3 DEF PromptAnswered, Continued, At, HasEnded
    <3> QED
      BY <3>3, <3>4 DEF AcpOK, FollowUpsOK
  <2> QED
    BY <2>1, <2>2, <2>3
<1>9. CASE Refused
  BY <1>9, AcpClosesOK DEF Refused, AcpFails
<1>10. CASE WaitEnds
  BY <1>1, <1>10, AcpStays DEF WaitEnds, At, HasEnded
<1>11. CASE FollowUp
  <2>1. acp' \in Acps
    <3>1. acp' = [acp EXCEPT !.followUps = acp.followUps + 1]
      BY <1>11, Zenon DEF FollowUp
    <3>2. acp.followUps + 1 \in Nat
      BY <1>1
    <3> QED
      BY <1>1, <3>1, <3>2, AcpValues, Zenon
  <2>2. ~HasEnded'
    BY <1>11 DEF FollowUp, CallQuiet, callVars, HasEnded
  <2> QED
    BY <2>1, <2>2 DEF AcpOK, FollowUpsOK
<1> QED
  BY <1>3, <1>4, <1>5, <1>6, <1>7, <1>8, <1>9, <1>10, <1>11 DEF AcpStep, AcpContinues

-----------------------------------------------------------------------------
(* The wrapper.                                                            *)

MemoryOK ==
  /\ memory \in Memories /\ memory.result # "none"
  /\ memory.pc = "recalling" => pc = "idle"
  /\ memory.pc = "remembering" => result \in Finish
  /\ memory.pc = "over" => \/ pc = "idle" /\ memory.result = "rejected"
                           \/ HasSettled(result) /\ memory.result = result

LEMMA MemoryValues ==
  ASSUME memory \in Memories
  PROVE  /\ \A w \in BOOLEAN : /\ [memory EXCEPT !.wants = w] \in Memories
                               /\ [memory EXCEPT !.wants = w].pc = memory.pc
                               /\ [memory EXCEPT !.wants = w].result = memory.result
         /\ \A next \in {"off", "recalling", "running", "remembering", "over"},
               value \in Settlements :
              Becomes(next, value) =>
                memory' \in Memories /\ memory'.pc = next /\ memory'.result = value
         /\ [pc |-> "over", wants |-> FALSE, result |-> "rejected"] \in Memories
<1>1. ASSUME NEW w \in BOOLEAN
      PROVE  /\ [memory EXCEPT !.wants = w] \in Memories
             /\ [memory EXCEPT !.wants = w].pc = memory.pc
             /\ [memory EXCEPT !.wants = w].result = memory.result
  BY Zenon DEF Memories
<1>2. ASSUME NEW next \in {"off", "recalling", "running", "remembering", "over"},
             NEW value \in Settlements, Becomes(next, value)
      PROVE  memory' \in Memories /\ memory'.pc = next /\ memory'.result = value
  <2>1. memory' = [memory EXCEPT !.pc = next, !.result = value]
    BY <1>2 DEF Becomes
  <2> QED
    BY <2>1, Zenon DEF Memories
<1>3. [pc |-> "over", wants |-> FALSE, result |-> "rejected"] \in Memories
  BY DEF Memories, Settlements
<1> QED
  BY <1>1, <1>2, <1>3, Zenon

\* The run goes on behind the wrapper, which stays where it is.
LEMMA WrappedOK ==
  ASSUME CallTypeOK, RunOK, MemoryOK, CallShape, memory' \in Memories,
         memory'.pc = memory.pc, memory'.result = memory.result,
         pc = "idle" /\ pc' # "idle" => MayStart
  PROVE  MemoryOK'
<1>1. \/ result' = result
      \/ result \in {"none", "pending"}
  BY RunPreserved DEF Moves
<1>2. pc' = "idle" => pc = "idle"
  BY ShapeBegun
<1>3. MayStart <=> memory.pc \in {"off", "running"}
  BY DEF MayStart
<1>4. pc = "idle" => result = "none"
  BY DEF RunOK, IdleOK
<1> QED
  BY <1>1, <1>2, <1>3, <1>4 DEF MemoryOK, HasSettled, Finish

LEMMA MemoryRunsOK ==
  ASSUME CallTypeOK, RunOK, MemoryOK, UNCHANGED callVars, MemoryRuns \/ AbortWaits
  PROVE  MemoryOK'
<1>1. memory \in Memories /\ UNCHANGED <<pc, result>> /\ result \in Settlements
  BY DEF MemoryOK, callVars, CallTypeOK
<1>2. "pending" \in Settlements /\ "rejected" \in Settlements
  BY DEF Settlements
<1>3. CASE Recalled
  <2>1. memory' \in Memories /\ memory'.pc = "running" /\ memory'.result = "pending"
    BY <1>1, <1>2, <1>3, MemoryValues DEF Recalled
  <2> QED
    BY <2>1 DEF MemoryOK
<1>4. CASE InjectThrows
  <2>1. memory' \in Memories /\ memory'.pc = "over" /\ memory'.result = "rejected"
    BY <1>1, <1>4, MemoryValues DEF InjectThrows
  <2> QED
    BY <1>1, <1>4, <2>1 DEF MemoryOK, InjectThrows
<1>5. CASE InnerSettles
  <2>1. CASE result = "rejected"
    <3>1. memory' \in Memories /\ memory'.pc = "over" /\ memory'.result = result
      BY <1>1, <1>2, <1>5, <2>1, MemoryValues DEF InnerSettles
    <3> QED
      BY <1>1, <2>1, <3>1 DEF MemoryOK, HasSettled
  <2>2. CASE result # "rejected"
    <3>1. memory' \in Memories /\ memory'.pc = "remembering" /\ memory'.result = "pending"
      BY <1>1, <1>2, <1>5, <2>2, MemoryValues DEF InnerSettles
    <3>2. result \in Finish
      BY <1>1, <1>5, <2>2 DEF InnerSettles, Settlements
    <3> QED
      BY <1>1, <3>1, <3>2 DEF MemoryOK
  <2> QED
    BY <2>1, <2>2
<1>6. CASE Remembered
  <2>1. memory' \in Memories /\ memory'.pc = "over" /\ memory'.result = result
    BY <1>1, <1>6, MemoryValues DEF Remembered
  <2>2. result \in Finish
    BY <1>6 DEF Remembered, MemoryOK
  <2> QED
    BY <1>1, <2>1, <2>2 DEF MemoryOK, HasSettled, Finish
<1>7. CASE AbortWaits
  <2>1. memory' \in Memories /\ memory'.pc = memory.pc /\ memory'.result = memory.result
    BY <1>1, <1>7, MemoryValues DEF AbortWaits
  <2> QED
    BY <1>1, <2>1 DEF MemoryOK
<1> QED
  BY <1>3, <1>4, <1>5, <1>6, <1>7 DEF MemoryRuns

-----------------------------------------------------------------------------
(* The invariant of the runs.                                              *)

CallsInv == CallTypeOK /\ LoopTypeOK /\ RunOK /\ ChildOK /\ AcpOK /\ MemoryOK

MemoryMoves ==
  \/ memory'.pc = memory.pc /\ memory'.result = memory.result
  \/ /\ UNCHANGED result /\ memory.pc \notin {"off", "over"} /\ memory'.pc # "off"
     /\ memory'.pc = "over" => HasSettled(memory'.result)

LEMMA InitCalls ==
  ASSUME Init
  PROVE  CallsInv
<1>1. CallTypeOK /\ RunOK /\ pc = "idle"
  BY InitRun DEF Init, CallInit
<1>2. LoopTypeOK
  <2> DEFINE X == IF kind = "inference" THEN Conversations ELSE {<<>>}
  <2>1. loop \in [initial : X, messages : {<<>>}, attempt : {0}, round : {0}, force : {FALSE}]
    BY DEF Init, LoopInit
  <2>2. <<>> \in Seq(Messages) /\ Conversations \subseteq Seq(Messages)
    BY ConversationsType
  <2>3. X \subseteq Seq(Messages)
    BY <2>2
  <2> HIDE DEF X
  <2>4. loop \in Loops
    <3>1. {<<>>} \subseteq Seq(Messages) /\ {0} \subseteq Nat /\ {FALSE} \subseteq BOOLEAN
      BY <2>2
    <3> QED
      BY <2>1, <2>3, <3>1, Zenon DEF Loops
  <2> QED
    BY <1>1, <2>4 DEF LoopTypeOK, At
<1>3. ChildOK
  BY <1>1 DEF Init, ChildOK, NoChild, Children, ChildBegun, ReapedOK
<1>4. AcpOK
  BY <1>1 DEF Init, AcpOK, NoAcp, Acps, FollowUpsOK, HasEnded
<1>5. MemoryOK
  <2>1. memory \in [pc : {"off"} \cup (IF kind \in Wrapped THEN {"recalling"} ELSE {}),
                    wants : {FALSE}, result : {"pending"}]
    BY DEF Init, MemoryInit
  <2>2. /\ memory.pc \in {"off", "recalling"} /\ memory.result = "pending"
        /\ memory \in Memories
    BY <2>1 DEF Memories, Settlements
  <2> QED
    BY <1>1, <2>2 DEF MemoryOK
<1> QED
  BY <1>1, <1>2, <1>3, <1>4, <1>5 DEF CallsInv

LEMMA StayShape ==
  ASSUME CallTypeOK, UNCHANGED callVars
  PROVE  CallShape
BY DEF CallTypeOK, callVars, CallStays, CallShape

LEMMA OwnerShape ==
  ASSUME CallTypeOK, AbortsCall \/ OwnerStep
  PROVE  CallShape /\ pc' = pc
BY DEF CallTypeOK, AbortsCall, OwnerStep, Iterates, Leaves, CallStays, CallShape

\* The run and its parts, in a step of the adapter.
LEMMA AdapterOK ==
  ASSUME CallsInv, AdapterStep
  PROVE  CallShape /\ LoopTypeOK' /\ ChildOK' /\ AcpOK'
<1>1. /\ Basics /\ ChildBegun /\ LoopTypeOK /\ ChildOK /\ AcpOK
  BY DEF CallsInv, CallTypeOK, RunOK, ErrorsOK, ChildOK, Basics
<1>2. CASE StreamStep /\ UNCHANGED <<child, acp, loop>>
  <2>1. CallShape /\ kind \notin ChildKinds /\ kind # "acp" /\ kind # "inference"
    BY <1>1, <1>2, StreamShape, StreamKind DEF ChildKinds
  <2>2. kind' = kind
    BY <2>1, ShapeBegun
  <2>3. ChildOK'
    BY <1>1, <1>2, <2>1, NoChildStays
  <2> QED
    BY <1>1, <1>2, <2>1, <2>2, <2>3 DEF LoopTypeOK, At, AcpOK, FollowUpsOK, HasEnded
<1>3. CASE ChildStep /\ UNCHANGED <<acp, loop>>
  <2>1. CallShape
    BY <1>1, <1>3, ChildShape
  <2>2. ChildOK'
    BY <1>1, <1>3, <2>1, ChildStepOK
  <2>3. kind \in ChildKinds \/ kind' = kind
    BY <2>1, ShapeBegun
  <2>4. kind \in {"acp", "inference"} => UNCHANGED <<pc, finish>>
    <3>1. CASE ChildUp \/ ChildExits \/ ChildKilled \/ KillTimer \/ Kills
      BY <3>1 DEF ChildUp, ChildExits, ChildKilled, KillTimer, Kills, CallQuiet, callVars
    <3>2. CASE ChildErrors
      BY <1>1, <3>2 DEF ChildErrors, Continues, ChildBegun, ChildKinds
    <3>3. CASE ChildStarts \/ CodexCliCloses \/ ClaudeCodeCloses \/ ExitSettles \/ CodexCliLine
               \/ ClaudeCodeLine
      BY <3>3
         DEF ChildStarts, CodexCliStarts, ClaudeCodeStarts, CliStarts, Supervises, CodexCliCloses,
             ClaudeCodeCloses, CliCloses, ExitSettles, CodexCliLine, ClaudeCodeLine, ChildOutput, At
    <3> QED
      BY <1>3, <3>1, <3>2, <3>3 DEF ChildStep, ChildRuns
  <2>5. kind' = kind
    BY <2>1, ShapeBegun
  <2> QED
    BY <1>1, <1>3, <2>1, <2>2, <2>4, <2>5 DEF LoopTypeOK, At, AcpOK, FollowUpsOK, HasEnded
<1>4. CASE AcpStep /\ UNCHANGED loop
  <2>1. CallShape /\ kind = "acp"
    BY <1>1, <1>4, AcpShape, AcpKind
  <2>2. kind' = kind
    BY <2>1, ShapeBegun
  <2> QED
    BY <1>1, <1>4, <2>1, <2>2, AcpChildOK, AcpStepOK DEF LoopTypeOK, At
<1>5. CASE LoopStep /\ UNCHANGED <<child, acp>>
  <2>1. CallShape /\ LoopTypeOK' /\ kind = "inference"
    BY <1>1, <1>5, LoopShape, LoopKind
  <2>2. kind' = kind
    BY <2>1, ShapeBegun
  <2>3. ChildOK'
    BY <1>1, <1>5, <2>1, NoChildStays DEF ChildKinds
  <2> QED
    BY <1>1, <1>5, <2>1, <2>2, <2>3 DEF AcpOK, FollowUpsOK, HasEnded
<1> QED
  BY <1>2, <1>3, <1>4, <1>5 DEF AdapterStep

LEMMA AbortsOK ==
  ASSUME CallsInv, Aborts
  PROVE  CallShape /\ pc' = pc /\ LoopTypeOK' /\ ChildOK' /\ AcpOK'
<1>1. CallShape /\ pc' = pc
  BY OwnerShape DEF CallsInv, Aborts
<1>2. UNCHANGED <<kind, finish>> /\ acp' \in {acp, [acp EXCEPT !.cancelSent = TRUE]} /\ loop' = loop
  BY DEF Aborts, AbortsCall, CancelReaches
<1>3. AcpOK'
  <2>1. acp' \in Acps /\ acp'.followUps = acp.followUps /\ acp'.late = acp.late
    BY <1>2, AcpValues DEF CallsInv, AcpOK
  <2> QED
    BY <1>1, <1>2, <2>1 DEF CallsInv, AcpOK, FollowUpsOK, HasEnded
<1> QED
  BY <1>1, <1>2, <1>3, AbortChildOK DEF CallsInv, Aborts, LoopTypeOK, At

LEMMA RunStepOK ==
  ASSUME CallsInv, RunStep
  PROVE  CallsInv' /\ Moves /\ MemoryMoves /\ kind' = kind /\ CallShape
<1>1. /\ CallTypeOK /\ RunOK /\ LoopTypeOK /\ ChildOK /\ AcpOK /\ MemoryOK /\ memory \in Memories
  BY DEF CallsInv, MemoryOK
<1>2. ASSUME CallShape, LoopTypeOK', ChildOK', AcpOK', MemoryOK', MemoryMoves
      PROVE  CallsInv' /\ Moves /\ MemoryMoves /\ kind' = kind /\ CallShape
  BY <1>1, <1>2, RunPreserved, ShapeBegun DEF CallsInv
<1>3. ASSUME CallShape, LoopTypeOK', ChildOK', AcpOK', memory' \in Memories,
             memory'.pc = memory.pc, memory'.result = memory.result,
             pc = "idle" /\ pc' # "idle" => MayStart
      PROVE  CallsInv' /\ Moves /\ MemoryMoves /\ kind' = kind /\ CallShape
  BY <1>1, <1>2, <1>3, WrappedOK DEF MemoryMoves
<1>4. CASE AdapterStep /\ UNCHANGED memory
  <2>1. CallShape /\ LoopTypeOK' /\ ChildOK' /\ AcpOK'
    BY <1>4, AdapterOK
  <2>2. pc = "idle" => MayStart
    BY <1>4 DEF AdapterStep
  <2> QED
    BY <1>1, <1>3, <1>4, <2>1, <2>2
<1>5. CASE Aborts /\ UNCHANGED memory
  <2>1. CallShape /\ pc' = pc /\ LoopTypeOK' /\ ChildOK' /\ AcpOK'
    BY <1>5, AbortsOK
  <2> QED
    BY <1>1, <1>3, <1>5, <2>1
<1>6. ASSUME UNCHANGED <<kind, pc, child, acp, loop, finish>>
      PROVE  LoopTypeOK' /\ ChildOK' /\ AcpOK'
  BY <1>1, <1>6
     DEF LoopTypeOK, At, ChildOK, ChildBegun, ReapedOK, AcpOK, FollowUpsOK, HasEnded
<1>7. CASE OwnerStep /\ UNCHANGED <<child, acp, loop, memory>>
  <2>1. CallShape /\ UNCHANGED <<kind, pc, finish>>
    BY <1>1, <1>7, OwnerShape DEF OwnerStep, Iterates, Leaves
  <2> QED
    BY <1>1, <1>3, <1>6, <1>7, <2>1
<1>8. CASE HeldAbort
  <2>1. CallShape /\ pc' = pc /\ LoopTypeOK' /\ ChildOK' /\ AcpOK'
    BY <1>8, AbortsOK DEF HeldAbort
  <2>2. memory' \in Memories /\ memory'.pc = memory.pc /\ memory'.result = memory.result
    BY <1>1, <1>8, MemoryValues DEF HeldAbort
  <2> QED
    BY <1>3, <2>1, <2>2
<1>9. CASE (MemoryRuns \/ AbortWaits) /\ UNCHANGED <<callVars, child, acp, loop>>
  <2>1. CallShape /\ LoopTypeOK' /\ ChildOK' /\ AcpOK'
    BY <1>1, <1>6, <1>9, StayShape DEF callVars
  <2>2. MemoryOK'
    BY <1>1, <1>9, MemoryRunsOK
  <2>3. /\ UNCHANGED result
        /\ \/ memory'.pc = memory.pc /\ memory'.result = memory.result
           \/ memory.pc \notin {"off", "over"} /\ memory'.pc # "off"
    <3>1. ASSUME NEW next \in {"running", "remembering", "over"}, NEW value \in Settlements,
                 Becomes(next, value)
          PROVE  memory'.pc # "off"
      BY <1>1, <3>1, MemoryValues
    <3>2. "pending" \in Settlements /\ result \in Settlements
      BY <1>1 DEF Settlements, CallTypeOK
    <3>3. CASE MemoryRuns
      BY <1>9, <3>1, <3>2, <3>3
         DEF MemoryRuns, Recalled, InjectThrows, InnerSettles, Remembered, callVars
    <3>4. CASE AbortWaits
      BY <1>1, <1>9, <3>4, MemoryValues DEF AbortWaits, callVars
    <3> QED
      BY <1>9, <3>3, <3>4
  <2>4. MemoryMoves
    BY <2>2, <2>3 DEF MemoryMoves, MemoryOK, HasSettled
  <2> QED
    BY <1>2, <2>1, <2>2, <2>4
<1> QED
  BY <1>4, <1>5, <1>7, <1>8, <1>9 DEF RunStep

LEMMA CallsPreserved ==
  ASSUME CallsInv, [Next]_vars
  PROVE  CallsInv' /\ Moves /\ MemoryMoves /\ kind' = kind /\ CallShape
<1>1. CASE RunStep
  BY <1>1, RunStepOK
<1>2. CASE UNCHANGED runVars
  <2>1. UNCHANGED <<kind, pc, aborted, closed, consumer, emitted, turn, finish, result, child, acp,
                    loop, memory>>
    BY <1>2 DEF runVars, callVars
  <2>2. CallTypeOK' /\ RunOK' /\ Moves
    BY <2>1, StayShape, RunPreserved DEF CallsInv, callVars
  <2>3. LoopTypeOK' /\ ChildOK' /\ AcpOK' /\ MemoryOK'
    BY <2>1
       DEF CallsInv, LoopTypeOK, At, ChildOK, ChildBegun, ReapedOK, AcpOK, FollowUpsOK, HasEnded,
           MemoryOK
  <2>4. CallShape
    BY <2>1, StayShape DEF CallsInv, callVars
  <2> QED
    BY <2>1, <2>2, <2>3, <2>4 DEF CallsInv, MemoryMoves
<1> QED
  BY <1>1, <1>2 DEF Next, vars

LEMMA CallsInvariant == Spec => []CallsInv
<1>1. Init => CallsInv
  BY InitCalls
<1>2. CallsInv /\ [Next]_vars => CallsInv'
  BY CallsPreserved
<1> QED
  BY <1>1, <1>2, PTL DEF Spec

\* Every variable of a run keeps its type: that of Kinds, of the phases, the
\* events, the turn, the child, the session, the loop and the wrapper.
THEOREM AgentsTypeCorrect == Spec => []TypeOK
<1>1. CallsInv => TypeOK
  BY DEF CallsInv, TypeOK, ChildOK, AcpOK, MemoryOK
<1> QED
  BY <1>1, CallsInvariant, PTL

-----------------------------------------------------------------------------
(* The results of the runs.                                                *)

\* Where the result of a run stands, seen through the wrapper.
ResultOK ==
  /\ RunResult \in {"none", "pending"} \/ HasSettled(RunResult)
  /\ pc # "idle" => RunResult # "none"
  /\ RunResult = "pending" => pc # "idle"
  /\ HasSettled(RunResult) => \/ pc = "idle" /\ RunResult = "rejected"
                              \/ pc = "over" /\ RunResult = result

LEMMA ResultIs == CallsInv => ResultOK
<1> SUFFICES ASSUME CallsInv PROVE ResultOK
  OBVIOUS
<1>1. /\ result \in Settlements /\ pc \in {"idle", "cleaning", "over"} \cup Working
      /\ memory.pc \in {"off", "recalling", "running", "remembering", "over"}
  BY DEF CallsInv, CallTypeOK, MemoryOK, Memories
<1>2. /\ pc = "idle" => result = "none"
      /\ pc \in Working => result = "pending"
      /\ pc = "cleaning" => result = "pending"
      /\ pc = "over" => HasSettled(result)
  BY DEF CallsInv, RunOK, IdleOK, BegunOK, EndedOK
<1>3. HasSettled(result) => pc = "over"
  BY <1>1, <1>2 DEF HasSettled, Finish
<1>4. /\ memory.pc = "recalling" => pc = "idle"
      /\ memory.pc = "over" => \/ pc = "idle" /\ memory.result = "rejected"
                               \/ HasSettled(result) /\ memory.result = result
  BY DEF CallsInv, MemoryOK
<1>5. /\ memory.pc = "off" => RunResult = result
      /\ memory.pc = "over" => RunResult = memory.result
      /\ memory.pc \notin {"off", "over"} =>
           RunResult = IF result = "none" THEN "none" ELSE "pending"
  BY <1>1 DEF RunResult
<1> QED
  BY <1>1, <1>2, <1>3, <1>4, <1>5 DEF ResultOK, HasSettled, Finish, Settlements

\* No child outlives the result of its run, unless it was told SIGKILL.
THEOREM ChildReapedHolds == Spec => []ChildReaped
<1>1. CallsInv => ChildReaped
  <2> SUFFICES ASSUME CallsInv, HasResult, Alive(child)
               PROVE  child.told = "KILL"
    BY DEF ChildReaped
  <2>1. pc \in {"idle", "over"}
    BY ResultIs DEF ResultOK, HasResult, HasSettled, Finish
  <2> QED
    BY <2>1 DEF CallsInv, ChildOK, ChildBegun, ReapedOK, Alive
<1> QED
  BY <1>1, CallsInvariant, PTL

\* A run of an ACP agent that ends by itself has sent the agent every
\* follow-up that followUp() accepted before agent_end was pushed.
THEOREM EarlyFollowUpsServedHolds == Spec => []EarlyFollowUpsServed
<1>1. CallsInv => EarlyFollowUpsServed
  BY DEF CallsInv, AcpOK, FollowUpsOK, EarlyFollowUpsServed
<1> QED
  BY <1>1, CallsInvariant, PTL

\* A run that conforms settles as AgentRun lets it.
LEMMA SettlesOK ==
  ASSUME CallsInv', Conforms', result \in {"none", "pending"}, HasSettled(result'),
         kind' # "supervised"
  PROVE  Protocol!FinishReasons = Finish /\ pc' = "over" /\ result' \in Finish
         /\ (emitted'.ends = 1 => result' = emitted'.reason)
         /\ (emitted'.ends = 0 => consumer' = "left")
         /\ (result' = "error" => emitted'.errored \/ consumer' = "left")
<1>1. Protocol!FinishReasons = Finish
  BY DEF Protocol!FinishReasons, Finish
<1>2. kind' \notin {"anthropic", "codex", "pi"}
  BY DEF Conforms
<1>3. result' \in Finish
  BY <1>2 DEF CallsInv, RunOK, EndedOK, HasSettled
<1>4. pc' = "over"
  <2>1. pc' \in {"idle", "cleaning", "over"} \cup Working
    BY DEF CallsInv, CallTypeOK
  <2>2. result' \notin {"none", "pending"}
    BY <1>3 DEF Finish
  <2> QED
    BY <2>1, <2>2 DEF CallsInv, RunOK, IdleOK, BegunOK, EndedOK
<1>5. emitted'.ends = 1 => result' = emitted'.reason
  BY <1>4 DEF CallsInv, RunOK, EndedOK
<1>6. emitted'.ends = 0 => consumer' = "left"
  <2>1. closed'
    BY <1>3, <1>4 DEF CallsInv, RunOK, EndedOK, Finish
  <2> QED
    BY <2>1 DEF CallsInv, RunOK, ClosedOK
<1>7. result' = "error" => emitted'.errored \/ consumer' = "left"
  BY <1>2 DEF CallsInv, RunOK, ErrorsOK, Excused
<1> QED
  BY <1>1, <1>3, <1>4, <1>5, <1>6, <1>7

\* A run moves as AgentRun lets it.
LEMMA StepImplements ==
  ASSUME CallsInv, CallsInv', Moves, MemoryMoves, kind' = kind
  PROVE  Protocol!Next
<1>1. Protocol!Emit \/ Protocol!Quiet
  <2>1. CASE UNCHANGED emitted
    BY <2>1 DEF Protocol!Quiet, Protocol!events
  <2>2. CASE emitted' # emitted
    <3>1. /\ consumer # "left" /\ emitted.ends = 0 /\ Begun(emitted') /\ Grows
          /\ \/ emitted'.ends = 0 /\ emitted'.last # "agent_end" /\ emitted'.reason = emitted.reason
             \/ emitted'.ends = 1 /\ emitted'.last = "agent_end"
      BY <2>2 DEF Moves
    <3> QED
      BY <3>1 DEF Protocol!Emit, Begun, Grows
  <2> QED
    BY <2>1, <2>2
<1>2. (consumer = "left") => (consumer = "left")'
  BY DEF Moves
<1>3. Conforms' <=> Conforms
  BY DEF Conforms, MemoryMoves
<1>4. CASE ~Conforms
  <2>1. /\ emitted.starts \in {0, 1} /\ emitted'.starts \in {0, 1}
        /\ emitted.starts = 1 => emitted'.starts = 1
    <3>1. emitted = NothingEmitted \/ emitted.starts = 1
      BY DEF CallsInv, RunOK, IdleOK, BegunOK, Begun
    <3>2. emitted' = emitted \/ emitted'.starts = 1
      BY DEF Moves, Begun
    <3> QED
      BY <3>1, <3>2, NothingType
  <2>2. CASE emitted'.starts = emitted.starts
    BY <1>1, <1>2, <1>3, <1>4, <2>1, <2>2 DEF Protocol!Next
  <2>3. CASE emitted.starts = 0 /\ emitted'.starts = 1
    BY <1>1, <1>2, <1>3, <1>4, <2>3 DEF Protocol!Next, Protocol!Begins
  <2> QED
    BY <2>1, <2>2, <2>3
<1>5. CASE Conforms
  <2>1. kind' # "supervised"
    BY <1>5 DEF Conforms
  <2>2. emitted'.starts = 1 => result' # "none"
    <3>1. pc' = "idle" => emitted'.starts = 0
      BY NothingType DEF CallsInv, RunOK, IdleOK
    <3>2. pc' # "idle" => result' # "none"
      BY DEF CallsInv, CallTypeOK, RunOK, BegunOK, EndedOK, HasSettled, Finish
    <3> QED
      BY <3>1, <3>2
  <2>3. CASE result' = result
    BY <1>1, <1>2, <1>3, <1>5, <2>2, <2>3 DEF Protocol!Next
  <2>4. CASE result = "none" /\ result' = "pending"
    <3>1. pc' # "idle"
      BY <2>4 DEF CallsInv, RunOK, IdleOK
    <3>2. emitted'.starts = 1
      BY <2>1, <3>1 DEF CallsInv, RunOK, BegunOK, Begun
    <3> QED
      BY <1>1, <1>2, <1>3, <1>5, <2>4, <3>2 DEF Protocol!Next, Protocol!Begins
  <2>5. CASE result \in {"none", "pending"} /\ HasSettled(result')
    <3>1. /\ result' \in Protocol!FinishReasons
          /\ emitted'.ends = 1 => result' = emitted'.reason
          /\ emitted'.ends = 0 => consumer' = "left"
          /\ result' = "error" => emitted'.errored \/ consumer' = "left"
      BY <1>3, <1>5, <2>1, <2>5, SettlesOK
    <3> QED
      BY <1>1, <1>2, <1>3, <1>5, <2>2, <2>5, <3>1 DEF Protocol!Next, Protocol!Settles
  <2> QED
    BY <2>3, <2>4, <2>5 DEF Moves
<1> QED
  BY <1>4, <1>5

\* The run of every adapter, wrapped or not, keeps the order of AgentRun:
\* agent_start and agent_end enclose what it emits, one of each.  The result
\* of the adapters that conform settles once, is never rejected, and is the
\* reason of agent_end, an error behind an error event.
THEOREM ImplementsProtocolHolds == Spec => ImplementsProtocol
<1>1. Init => Protocol!Init
  <2> SUFFICES ASSUME Init PROVE Protocol!Init
    OBVIOUS
  <2>1. emitted = NothingEmitted /\ consumer = "none" /\ result = "none"
    BY DEF Init, CallInit
  <2> QED
    BY <2>1, NothingType DEF Protocol!Init
<1>2. CallsInv /\ [Next]_vars => [Protocol!Next]_(Protocol!vars)
  <2> SUFFICES ASSUME CallsInv, [Next]_vars
               PROVE  Protocol!Next
    OBVIOUS
  <2> QED
    BY CallsPreserved, StepImplements
<1> QED
  BY <1>1, <1>2, CallsInvariant, PTL DEF Spec, Protocol!Spec, ImplementsProtocol

-----------------------------------------------------------------------------
(* The turns.                                                              *)

\* Unless a turn was lost: a turn that is pending began without calls, only
\* the loop has one, and the loop has no calls otherwise.
PendingOK ==
  /\ turn.pending \in {None, 0}
  /\ kind # "inference" => turn.pending = None
  /\ kind = "inference" /\ turn.pending = None => turn.calls = 0

TurnsOK ==
  turn.lost \/ /\ PendingOK /\ ~emitted.miscounted
               /\ ~closed => emitted.uncounted = turn.calls

LEMMA PlainNoted ==
  ASSUME NEW e \in Summaries, NEW p, Plain(p)
  PROVE  /\ Noted(e, p) \in Summaries /\ Noted(e, p).uncounted = e.uncounted
         /\ Noted(e, p).miscounted => e.miscounted
<1>1. p \in Seq(Events) /\ e.uncounted \in Nat /\ Len(p) \in Nat
  BY DEF Plain, Summaries
<1>2. \A i \in 1..Len(p) : /\ p[i].type # "turn_end"
                           /\ 0 = IF p[i].type = "tool_call" THEN 1 ELSE 0
  BY DEF Plain, Others
<1>3. /\ Noted(e, p).uncounted = e.uncounted + 0 * Len(p)
      /\ Noted(e, p).miscounted => e.miscounted
  BY <1>1, <1>2, NotedUncounted
<1> QED
  BY <1>1, <1>3, NotedType

\* A turn_end with the right count.
LEMMA TurnEndNoted ==
  ASSUME NEW e \in Summaries, NEW n \in Int, n = e.uncounted
  PROVE  /\ Noted(e, <<TurnEnd(n)>>) \in Summaries /\ <<TurnEnd(n)>> \in Seq(Events)
         /\ Noted(e, <<TurnEnd(n)>>).uncounted = 0
         /\ Noted(e, <<TurnEnd(n)>>).miscounted => e.miscounted
<1>1. /\ TurnEnd(n) \in Events /\ TurnEnd(n).type = "turn_end" /\ TurnEnd(n).toolCallCount = n
  BY EventsType
<1>2. Noted(e, <<TurnEnd(n)>>) = Note(e, TurnEnd(n)) /\ <<TurnEnd(n)>> \in Seq(Events)
  BY <1>1, NotedOne, OneOrTwo
<1> QED
  BY <1>1, <1>2, NoteType, NoteFields

\* flush(): what was counted is said.
LEMMA PendingNoted ==
  ASSUME turn \in Turn, emitted \in Summaries, PendingOK, emitted.uncounted = turn.calls
  PROVE  /\ PendingTurnEnd \in Seq(Events)
         /\ Noted(emitted, PendingTurnEnd) \in Summaries
         /\ Noted(emitted, PendingTurnEnd).miscounted => emitted.miscounted
         /\ Noted(emitted, PendingTurnEnd).uncounted
              = IF turn.pending = None THEN turn.calls ELSE 0
<1>1. turn.calls \in Nat /\ None # 0
  BY TurnFields DEF None
<1>2. CASE turn.pending = None
  <2>1. PendingTurnEnd = <<>> /\ <<>> \in Seq(Events)
    BY <1>2 DEF PendingTurnEnd
  <2> QED
    BY <1>2, <2>1, NotedNothing
<1>3. CASE turn.pending = 0
  <2>1. PendingTurnEnd = <<TurnEnd(turn.calls)>>
    BY <1>1, <1>3 DEF PendingTurnEnd
  <2> QED
    BY <1>1, <1>3, <2>1, TurnEndNoted
<1> QED
  BY <1>2, <1>3 DEF PendingOK

LEMMA TurnsNoted ==
  ASSUME turn \in Turn, emitted \in Summaries, kind' = kind,
         turn.lost \/ (PendingOK /\ ~emitted.miscounted /\ emitted.uncounted = turn.calls),
         NEW s, Turns(s)
  PROVE  turn'.lost \/ /\ PendingOK' /\ ~Noted(emitted, s).miscounted
                       /\ Noted(emitted, s).uncounted = turn'.calls
<1>1. turn.calls \in Nat /\ turn.pending \in Int /\ turn.lost \in BOOLEAN /\ None # 0
  BY TurnFields DEF None
<1>2. CASE turn.lost
  <2>1. CASE turn' \in {turn, FlushedTurn, EndedTurn}
    BY <1>2, <2>1, TurnsLeft
  <2>2. CASE turn' = [turn EXCEPT !.calls = @ + 1]
    BY <1>2, <2>2 DEF Turn
  <2>3. CASE \E n \in Nat : turn' = [MarkedTurn EXCEPT !.calls = @ + n]
    BY <1>2, <2>3, TurnsLeft DEF Turn
  <2> QED
    BY <2>1, <2>2, <2>3 DEF Turns, FlushTurn, EndTurn
<1>3. CASE ~turn.lost
  <2>1. PendingOK /\ ~emitted.miscounted /\ emitted.uncounted = turn.calls
    BY <1>3
  <2>2. ASSUME NEW p, Plain(p), s = p, turn' = turn
        PROVE  /\ PendingOK' /\ ~Noted(emitted, s).miscounted
               /\ Noted(emitted, s).uncounted = turn'.calls
    BY <2>1, <2>2, PlainNoted DEF PendingOK
  <2>3. CASE Plain(s) /\ turn' = turn
    BY <2>2, <2>3
  <2>4. CASE s = <<ToolCall>> /\ turn' = [turn EXCEPT !.calls = @ + 1] /\ kind # "inference"
    <3>1. Noted(emitted, s) = Note(emitted, ToolCall) /\ ToolCall.type = "tool_call" /\ ToolCall \in Events
      BY <2>4, NotedOne, EventsType
    <3>2. /\ Noted(emitted, s).uncounted = emitted.uncounted + 1
          /\ ~Noted(emitted, s).miscounted
      BY <2>1, <3>1, NoteFields
    <3>3. turn'.calls = turn.calls + 1 /\ turn'.pending = turn.pending
      BY <2>4 DEF Turn
    <3> QED
      BY <2>1, <2>4, <3>2, <3>3 DEF PendingOK
  <2>5. ASSUME NEW p, Plain(p), s = PendingTurnEnd \o p, FlushTurn
        PROVE  /\ PendingOK' /\ ~Noted(emitted, s).miscounted
               /\ Noted(emitted, s).uncounted = turn'.calls
    <3> DEFINE e == Noted(emitted, PendingTurnEnd)
    <3>1. /\ PendingTurnEnd \in Seq(Events) /\ e \in Summaries /\ ~e.miscounted
          /\ e.uncounted = IF turn.pending = None THEN turn.calls ELSE 0
      BY <2>1, PendingNoted
    <3>2. Noted(emitted, s) = Noted(e, p)
      BY <2>5, <3>1, NotedBoth DEF Plain
    <3> HIDE DEF e
    <3>3. ~Noted(emitted, s).miscounted /\ Noted(emitted, s).uncounted = e.uncounted
      BY <2>5, <3>1, <3>2, PlainNoted
    <3>4. /\ turn.pending = None => turn' = turn
          /\ turn.pending # None => turn'.calls = 0 /\ turn'.pending = None
      BY <2>5, TurnsLeft DEF FlushTurn
    <3> QED
      BY <2>1, <3>1, <3>3, <3>4 DEF PendingOK
  <2>6. ASSUME NEW p, Plain(p), s = TurnEnds \o p, EndTurn
        PROVE  /\ PendingOK' /\ ~Noted(emitted, s).miscounted
               /\ Noted(emitted, s).uncounted = turn'.calls
    <3> DEFINE e == Noted(emitted, PendingTurnEnd)
               n == IF turn.pending = None THEN turn.calls ELSE 0
               f == Noted(e, <<TurnEnd(n)>>)
    <3>1. /\ PendingTurnEnd \in Seq(Events) /\ e \in Summaries /\ ~e.miscounted
          /\ e.uncounted = n
      BY <2>1, PendingNoted
    <3>2. n \in Int
      BY <1>1
    <3>3. TurnEnds = PendingTurnEnd \o <<TurnEnd(n)>>
      <4>1. TurnEnd(n) \in Events
        BY <3>2, EventsType
      <4> QED
        BY <3>1, <4>1, Joined DEF TurnEnds
    <3> HIDE DEF n
    <3>4. <<TurnEnd(n)>> \in Seq(Events) /\ f \in Summaries /\ f.uncounted = 0 /\ ~f.miscounted
      <4> HIDE DEF e
      <4> QED
        BY <3>1, <3>2, TurnEndNoted
    <3>5. Noted(emitted, TurnEnds) = f
      BY <3>1, <3>3, <3>4, NotedBoth
    <3>6. TurnEnds \in Seq(Events)
      BY <3>1, <3>3, <3>4, ConcatenatedType
    <3> HIDE DEF f
    <3>7. Noted(emitted, s) = Noted(f, p)
      BY <2>6, <3>5, <3>6, NotedBoth DEF Plain
    <3>8. ~Noted(emitted, s).miscounted /\ Noted(emitted, s).uncounted = 0
      BY <2>6, <3>4, <3>7, PlainNoted
    <3>9. turn'.calls = 0 /\ turn'.pending = None
      BY <2>6, TurnsLeft DEF EndTurn
    <3> QED
      BY <3>8, <3>9 DEF PendingOK
  <2>7. ASSUME NEW n \in Nat, s = [k \in 1..n |-> ToolCall],
               turn' = [MarkedTurn EXCEPT !.calls = @ + n], kind = "inference"
        PROVE  turn'.lost \/ /\ PendingOK' /\ ~Noted(emitted, s).miscounted
                             /\ Noted(emitted, s).uncounted = turn'.calls
    <3>1. s \in Seq(Events) /\ Len(s) = n
      BY <2>7, EventsType
    <3>2. \A i \in 1..Len(s) : /\ s[i].type # "turn_end"
                               /\ 1 = IF s[i].type = "tool_call" THEN 1 ELSE 0
      BY <2>7, <3>1, EventsType
    <3>3. /\ Noted(emitted, s).uncounted = emitted.uncounted + 1 * Len(s)
          /\ Noted(emitted, s).miscounted => emitted.miscounted
      BY <3>1, <3>2, NotedUncounted
    <3>4. /\ turn'.calls = MarkedTurn.calls + n /\ turn'.pending = MarkedTurn.pending
          /\ turn'.lost = MarkedTurn.lost
      BY <2>7, TurnsLeft, Zenon DEF Turn
    <3>5. CASE turn.pending # None
      BY <1>3, <3>4, <3>5, TurnsLeft
    <3>6. CASE turn.pending = None
      <4>1. turn.calls = 0
        BY <2>1, <2>7, <3>6 DEF PendingOK
      <4>2. turn'.calls = n /\ turn'.pending = 0
        BY <2>7, <3>4, <4>1, TurnsLeft
      <4> QED
        BY <1>1, <2>1, <2>7, <3>1, <3>3, <4>1, <4>2 DEF PendingOK
    <3> QED
      BY <3>5, <3>6
  <2> QED
    BY <2>3, <2>4, <2>5, <2>6, <2>7 DEF Turns
<1> QED
  BY <1>1, <1>2, <1>3

LEMMA TurnsKept ==
  ASSUME turn \in Turn, kind' = kind, turn.lost \/ PendingOK, NEW s, Turns(s)
  PROVE  (turn.lost => turn'.lost) /\ (turn'.lost \/ PendingOK')
<1>1. turn.calls \in Nat /\ turn.pending \in Int /\ turn.lost \in BOOLEAN /\ None # 0
  BY TurnFields DEF None
<1>2. CASE turn' \in {turn, FlushedTurn, EndedTurn}
  <2>1. turn' = turn \/ (turn'.calls = 0 /\ turn'.pending = None /\ turn'.lost = turn.lost)
    BY <1>2, TurnsLeft
  <2> QED
    BY <1>1, <2>1 DEF PendingOK
<1>3. CASE turn' = [turn EXCEPT !.calls = @ + 1] /\ kind # "inference"
  <2>1. turn'.pending = turn.pending /\ turn'.lost = turn.lost
    BY <1>3 DEF Turn
  <2> QED
    BY <1>3, <2>1 DEF PendingOK
<1>4. ASSUME NEW n \in Nat, turn' = [MarkedTurn EXCEPT !.calls = @ + n], kind = "inference"
      PROVE  (turn.lost => turn'.lost) /\ (turn'.lost \/ PendingOK')
  <2>1. /\ turn'.calls = MarkedTurn.calls + n /\ turn'.pending = MarkedTurn.pending
        /\ turn'.lost = MarkedTurn.lost
    BY <1>4, TurnsLeft, Zenon DEF Turn
  <2>2. /\ turn'.pending = turn.calls /\ turn'.lost = (turn.lost \/ turn.pending # None)
    BY <2>1, TurnsLeft, Zenon
  <2> QED
    BY <1>1, <1>4, <2>2 DEF PendingOK
<1> QED
  BY <1>2, <1>3, <1>4 DEF Turns, FlushTurn, EndTurn

LEMMA TurnsPreserved ==
  ASSUME CallTypeOK, RunOK, TurnsOK, CallShape
  PROVE  TurnsOK'
<1>1. turn \in Turn /\ emitted \in Summaries /\ kind' = kind
  BY ShapeBegun DEF CallTypeOK
<1>2. ASSUME UNCHANGED <<emitted, turn>>, closed => closed'
      PROVE  TurnsOK'
  BY <1>1, <1>2 DEF TurnsOK, PendingOK
<1>3. CASE CallStays
  BY <1>2, <1>3 DEF CallStays
<1>4. CASE CallCleaned \/ CallRejected \/ CallSupervised
  BY <1>2, <1>4 DEF CallCleaned, CallRejected, CallSupervised, SaysNothing
<1>5. ASSUME turn' = NoTurn, ~emitted'.miscounted, emitted'.uncounted = 0
      PROVE  TurnsOK'
  BY <1>1, <1>5 DEF TurnsOK, PendingOK, NoTurn
<1>6. CASE CallStarts
  BY <1>5, <1>6, StartSaid DEF CallStarts, Beginning, RunOK, IdleOK
<1>7. CASE CallNeverStarts
  <2>1. PICK r \in {"aborted", "error"} : Push(<<AgentStart, ErrorEvent, AgentEnd(r)>>)
    BY <1>7 DEF CallNeverStarts
  <2> QED
    BY <1>5, <1>7, <2>1, NeverStartSaid DEF CallNeverStarts, Beginning, RunOK, IdleOK, Finish
<1>8. CASE CallGoesOn
  <2>1. PICK s : Turns(s) /\ Push(s) /\ closed' = closed
    BY <1>8 DEF CallGoesOn, Speaks
  <2>2. CASE closed
    <3>1. emitted' = emitted
      BY <2>1, <2>2, PushIs
    <3>2. turn.lost \/ PendingOK
      BY DEF TurnsOK
    <3>3. (turn.lost => turn'.lost) /\ (turn'.lost \/ PendingOK')
      BY <1>1, <2>1, <3>2, TurnsKept
    <3> QED
      BY <2>1, <2>2, <3>1, <3>3 DEF TurnsOK
  <2>3. CASE ~closed
    <3>1. emitted' = Noted(emitted, s)
      BY <2>1, <2>3, PushIs
    <3> QED
      BY <1>1, <2>1, <2>3, <3>1, TurnsNoted DEF TurnsOK
  <2> QED
    BY <2>2, <2>3
<1>9. ASSUME NEW r, CallEnds(r)
      PROVE  TurnsOK'
  <2>1. PICK s : Turns(s) /\ Push(s \o <<AgentEnd(r)>>) /\ closed' = TRUE /\ r \in Finish
    BY <1>9 DEF CallEnds, SaysLast
  <2>2. CASE closed
    <3>1. emitted' = emitted
      BY <2>1, <2>2, PushIs
    <3>2. turn.lost \/ PendingOK
      BY DEF TurnsOK
    <3>3. (turn.lost => turn'.lost) /\ (turn'.lost \/ PendingOK')
      BY <1>1, <2>1, <3>2, TurnsKept
    <3> QED
      BY <2>1, <2>2, <3>1, <3>3 DEF TurnsOK
  <2>3. CASE ~closed
    <3> DEFINE e == Noted(emitted, s)
    <3>1. AgentEnd(r) \in Events /\ AgentEnd(r).type = "agent_end" /\ s \in Seq(Events)
      BY <1>1, <2>1, EventsType, TurnsType
    <3>2. e \in Summaries /\ <<AgentEnd(r)>> \in Seq(Events)
      BY <1>1, <3>1, NotedType, OneOrTwo
    <3>3. emitted' = Noted(e, <<AgentEnd(r)>>)
      BY <1>1, <2>1, <2>3, <3>1, <3>2, NotedBoth, PushIs
    <3>4. turn'.lost \/ (PendingOK' /\ ~e.miscounted /\ e.uncounted = turn'.calls)
      BY <1>1, <2>1, <2>3, TurnsNoted DEF TurnsOK
    <3> HIDE DEF e
    <3>5. emitted' = Note(e, AgentEnd(r))
      BY <3>1, <3>2, <3>3, NotedOne
    <3>6. emitted'.miscounted => e.miscounted
      BY <3>1, <3>2, <3>5, NoteFields
    <3> QED
      BY <2>1, <3>4, <3>6 DEF TurnsOK
  <2> QED
    BY <2>2, <2>3
<1> QED
  BY <1>3, <1>4, <1>6, <1>7, <1>8, <1>9 DEF CallShape

\* In every run, each turn_end counts the tool calls since the one before,
\* unless markTurnEnd() has overwritten a turn that was pending.
THEOREM TurnsAddUpHolds == Spec => []TurnsAddUp
<1>1. Init => TurnsOK
  BY NothingType DEF Init, CallInit, TurnsOK, PendingOK, NoTurn
<1>2. CallsInv /\ TurnsOK /\ [Next]_vars => TurnsOK'
  <2> SUFFICES ASSUME CallsInv, TurnsOK, [Next]_vars
               PROVE  TurnsOK'
    OBVIOUS
  <2> QED
    BY CallsPreserved, TurnsPreserved DEF CallsInv
<1>3. TurnsOK => TurnsAddUp
  BY DEF TurnsOK, TurnsAddUp
<1> QED
  BY <1>1, <1>2, <1>3, CallsInvariant, PTL DEF Spec

-----------------------------------------------------------------------------
(* What was counted in batches, summed up.                                 *)

Sums(p, c) == p[0] = 0 /\ \A i \in 1..Len(c) : p[i] = p[i - 1] + c[i]
Totals(c) == CHOOSE p \in [0..Len(c) -> Nat] : Sums(p, c)

Summed(c) == FoldLeft(LAMBDA a, b : a + b, 0, c)

LEMMA ElementOf ==
  ASSUME NEW S, NEW s \in Seq(S), NEW i \in 1..Len(s)
  PROVE  s[i] \in S
OBVIOUS

\* Totals() is what its definition asks for, and its last value the fold.
LEMMA TotalsOf ==
  ASSUME NEW c \in Seq(Nat)
  PROVE  /\ Totals(c) \in [0..Len(c) -> Nat] /\ Sums(Totals(c), c)
         /\ Summed(c) = Totals(c)[Len(c)]
<1> DEFINE n == Len(c)
           op == [i \in 1..n |-> [x \in Nat |-> x + c[i]]]
           It(g) == [t \in SUBSET (DOMAIN c) |->
                       IF t = {} THEN 0 ELSE g[t \ {Max(t)}] + c[Max(t)]]
           iter == CHOOSE g : g = It(g)
<1>1. n \in Nat /\ DOMAIN c = 1..n /\ \A i \in 1..n : c[i] \in Nat
  OBVIOUS
<1>2. op \in [1..n -> [Nat -> Nat]]
  BY <1>1
<1>3. PICK g \in [SUBSET (1..n) -> Nat] : Folding(g, n, 0, op)
  <2> HIDE DEF op
  <2> QED
    BY <1>1, <1>2, FoldingExists
<1>4. g = It(g)
  <2>1. ASSUME NEW t \in SUBSET (1..n)
        PROVE  g[t] = IF t = {} THEN 0 ELSE g[t \ {Max(t)}] + c[Max(t)]
    <3>1. t # {} => Max(t) \in 1..n /\ t \ {Max(t)} \in SUBSET (1..n)
      BY <1>1, MaxOf
    <3>2. t # {} => op[Max(t)][g[t \ {Max(t)}]] = g[t \ {Max(t)}] + c[Max(t)]
      BY <1>3, <3>1
    <3> QED
      BY <1>3, <3>2 DEF Folding
  <2> QED
    BY <1>1, <2>1
<1>5. iter = It(iter)
  BY <1>4
<1>6. Summed(c) = iter[DOMAIN c]
  BY DEF Summed, FoldLeft, MapThenFoldSet
<1>7. iter[1..0] = 0
  <2>1. 1..0 \in SUBSET (DOMAIN c) /\ 1..0 = {}
    OBVIOUS
  <2> HIDE DEF iter
  <2> QED
    BY <1>5, <2>1
<1>8. ASSUME NEW i \in 1..n
      PROVE  iter[1..i] = iter[1..(i - 1)] + c[i]
  <2>1. /\ 1..i \in SUBSET (1..n) /\ i \in 1..i /\ 1..i # {} /\ (1..i) \ {i} = 1..(i - 1)
    BY <1>1, UpTo
  <2>2. Max(1..i) = i
    <3>1. 1..i \in SUBSET (1..i) /\ i \in Nat
      OBVIOUS
    <3> QED
      BY <2>1, <3>1, MaxOf
  <2> HIDE DEF iter
  <2> QED
    BY <1>1, <1>5, <2>1, <2>2
<1> DEFINE f == [i \in 0..n |-> iter[1..i]]
<1> HIDE DEF iter
<1>9. f \in [0..n -> Nat]
  <2> DEFINE T == {i \in 0..n : iter[1..i] \in Nat}
  <2>1. 0 \in T
    BY <1>7
  <2>2. \A i \in 1..n : i - 1 \in T => i \in T
    BY <1>1, <1>8
  <2> HIDE DEF T
  <2>3. 0..n \subseteq T
    BY <2>1, <2>2, <1>1, Induction
  <2> QED
    BY <2>3 DEF T
<1>10. Sums(f, c)
  BY <1>1, <1>7, <1>8 DEF Sums
<1>11. Totals(c) \in [0..n -> Nat] /\ Sums(Totals(c), c)
  <2> HIDE DEF f
  <2> QED
    BY <1>9, <1>10 DEF Totals
<1>12. f[n] = Totals(c)[n]
  <2> DEFINE T == {i \in 0..n : f[i] = Totals(c)[i]}
  <2>1. 0 \in T
    BY <1>10, <1>11 DEF Sums
  <2>2. ASSUME NEW i \in 1..n, i - 1 \in T
        PROVE  i \in T
    <3>1. f[i] = f[i - 1] + c[i] /\ Totals(c)[i] = Totals(c)[i - 1] + c[i]
      BY <1>10, <1>11 DEF Sums
    <3> QED
      BY <2>2, <3>1
  <2> HIDE DEF T
  <2>3. 0..n \subseteq T
    BY <2>1, <2>2, <1>1, Induction
  <2> QED
    BY <1>1, <2>3 DEF T
<1>13. f[n] = iter[DOMAIN c]
  BY <1>1
<1> QED
  BY <1>6, <1>11, <1>12, <1>13

LEMMA TotalsGrow ==
  ASSUME NEW c \in Seq(Nat), NEW d \in Seq(Nat), NEW n \in Nat, n <= Len(c), n <= Len(d),
         \A i \in 1..n : c[i] <= d[i]
  PROVE  \A i \in 0..n : Totals(c)[i] <= Totals(d)[i]
<1> DEFINE T == {i \in 0..n : Totals(c)[i] <= Totals(d)[i]}
<1>1. /\ Totals(c) \in [0..Len(c) -> Nat] /\ Sums(Totals(c), c)
      /\ Totals(d) \in [0..Len(d) -> Nat] /\ Sums(Totals(d), d)
  BY TotalsOf
<1>2. 0 \in T
  BY <1>1 DEF Sums
<1>3. ASSUME NEW i \in 1..n, i - 1 \in T
      PROVE  i \in T
  <2>1. /\ i \in 1..Len(c) /\ i \in 1..Len(d) /\ i - 1 \in 0..Len(c) /\ i - 1 \in 0..Len(d)
        /\ c[i] <= d[i] /\ c[i] \in Nat /\ d[i] \in Nat
    OBVIOUS
  <2>2. Totals(c)[i] = Totals(c)[i - 1] + c[i] /\ Totals(d)[i] = Totals(d)[i - 1] + d[i]
    BY <1>1, <2>1 DEF Sums
  <2>3. Totals(c)[i - 1] \in Nat /\ Totals(d)[i - 1] \in Nat
    BY <1>1, <2>1
  <2>4. Totals(c)[i - 1] <= Totals(d)[i - 1]
    BY <1>3
  <2>5. \A u, v, x, y \in Nat : u <= v /\ x <= y => u + x <= v + y
    BY SMT
  <2>6. Totals(c)[i] <= Totals(d)[i]
    BY <2>1, <2>2, <2>3, <2>4, <2>5
  <2> QED
    BY <2>6
<1> HIDE DEF T
<1>4. 0..n \subseteq T
  BY <1>2, <1>3, Induction
<1> QED
  BY <1>4 DEF T

LEMMA TotalsAscend ==
  ASSUME NEW c \in Seq(Nat), NEW i \in 0..Len(c), NEW j \in 0..Len(c), i <= j
  PROVE  Totals(c)[i] <= Totals(c)[j]
<1> DEFINE T == {k \in 0..(j - i) : Totals(c)[i] <= Totals(c)[i + k]}
<1>1. Totals(c) \in [0..Len(c) -> Nat] /\ Sums(Totals(c), c)
  BY TotalsOf
<1>2. 0 \in T /\ j - i \in Nat
  BY <1>1
<1>3. ASSUME NEW k \in 1..(j - i), k - 1 \in T
      PROVE  k \in T
  <2>1. i + k \in 1..Len(c) /\ (i + k) - 1 = i + (k - 1) /\ c[i + k] \in Nat
    OBVIOUS
  <2>2. Totals(c)[i + k] = Totals(c)[i + (k - 1)] + c[i + k]
    BY <1>1, <2>1 DEF Sums
  <2>3. Totals(c)[i] \in Nat /\ Totals(c)[i + (k - 1)] \in Nat
    <3>1. i + (k - 1) \in 0..Len(c)
      OBVIOUS
    <3> QED
      BY <1>1, <3>1
  <2> QED
    BY <1>3, <2>1, <2>2, <2>3
<1> HIDE DEF T
<1>4. 0..(j - i) \subseteq T
  BY <1>2, <1>3, Induction
<1> QED
  BY <1>2, <1>4 DEF T

-----------------------------------------------------------------------------
(* The failures of one kind, and how often observers were told of them.    *)

FailureStates == [counts : Seq(Nat), done : Nat, active : BOOLEAN, sealed : BOOLEAN]

\* A sealed batch is there, behind the active one, and what observers were
\* told of is what the batches delivered to them count.
KindOK(f, d) ==
  /\ f \in FailureStates /\ d \in Nat
  /\ Dispatched(f) + (IF f.sealed THEN 1 ELSE 0) <= Len(f.counts)
  /\ d = Totals(f.counts)[Dispatched(f)]

\* Batches are never taken back, nor what they count.
BatchesGrow(c, e) ==
  /\ Len(c) <= Len(e)
  /\ \A i \in 0..Len(c) : Totals(c)[i] <= Totals(e)[i]

KindKept(f, g, e) == KindOK(g, e) /\ BatchesGrow(f.counts, g.counts) /\ f.done <= g.done

LEMMA FailureFields ==
  ASSUME NEW f \in FailureStates
  PROVE  /\ f.counts \in Seq(Nat) /\ Len(f.counts) \in Nat /\ f.done \in Nat
         /\ f.active \in BOOLEAN /\ f.sealed \in BOOLEAN
         /\ Dispatched(f) \in Nat
         /\ Dispatched(f) = f.done + (IF f.active THEN 1 ELSE 0)
<1>1. f.counts \in Seq(Nat) /\ f.done \in Nat
  BY DEF FailureStates
<1>2. f.active \in BOOLEAN /\ f.sealed \in BOOLEAN
  BY Zenon DEF FailureStates
<1>3. Len(f.counts) \in Nat
  BY <1>1
<1>4. Dispatched(f) = f.done + (IF f.active THEN 1 ELSE 0)
  BY Zenon DEF Dispatched
<1> QED
  BY <1>1, <1>2, <1>3, <1>4

LEMMA BatchesStay ==
  ASSUME NEW c \in Seq(Nat)
  PROVE  BatchesGrow(c, c)
<1>1. Totals(c) \in [0..Len(c) -> Nat] /\ Len(c) \in Nat
  BY TotalsOf
<1> QED
  BY <1>1 DEF BatchesGrow

LEMMA ReportKeeps ==
  ASSUME NEW f, NEW d, KindOK(f, d)
  PROVE  KindKept(f, Report(f), d) /\ Report(f).counts # <<>>
<1> DEFINE g == Report(f)
           n == Dispatched(f)
           c == f.counts
<1>1. /\ f \in FailureStates /\ d \in Nat /\ n + (IF f.sealed THEN 1 ELSE 0) <= Len(c)
      /\ d = Totals(c)[n]
  BY DEF KindOK
<1>2. c \in Seq(Nat) /\ Len(c) \in Nat /\ n \in Nat /\ f.sealed \in BOOLEAN
  BY <1>1, FailureFields
<1>3. n <= Len(c)
  BY <1>1, <1>2
<1>4. PICK e \in Seq(Nat) : /\ g = [f EXCEPT !.counts = e]
                            /\ Len(c) <= Len(e) /\ e # <<>>
                            /\ \A i \in 1..Len(c) : c[i] <= e[i]
                            /\ \A i \in 1..n : c[i] = e[i]
  <2>1. CASE Pending(f)
    <3> DEFINE e == [c EXCEPT ![Len(c)] = c[Len(c)] + 1]
    <3>1. Len(c) > n
      BY <1>2, <2>1 DEF Pending
    <3>2. Len(c) \in 1..Len(c) /\ c[Len(c)] + 1 \in Nat
      BY <1>2, <3>1
    <3>3. e \in Seq(Nat) /\ Len(e) = Len(c)
      BY <1>2, <3>2
    <3>4. \A i \in 1..Len(c) : e[i] = IF i = Len(c) THEN c[i] + 1 ELSE c[i]
      BY <1>2
    <3>5. \A i \in 1..Len(c) : c[i] \in Nat
      BY <1>2
    <3>6. \A i \in 1..Len(c) : c[i] <= e[i]
      BY <3>4, <3>5
    <3>7. \A i \in 1..n : i \in 1..Len(c) /\ i # Len(c)
      BY <1>2, <3>1
    <3>8. \A i \in 1..n : c[i] = e[i]
      BY <3>4, <3>7
    <3>9. g = [f EXCEPT !.counts = e]
      BY <2>1, Zenon DEF Report
    <3>10. e # <<>>
      BY <3>2, <3>3
    <3>11. Len(c) <= Len(e)
      BY <1>2, <3>3
    <3> HIDE DEF e
    <3> QED
      BY <3>3, <3>6, <3>8, <3>9, <3>10, <3>11, Zenon
  <2>2. CASE ~Pending(f)
    <3> DEFINE e == Append(c, 1)
    <3>1. /\ e \in Seq(Nat) /\ Len(e) = Len(c) + 1 /\ e # <<>>
          /\ \A i \in 1..Len(c) : e[i] = c[i] /\ c[i] \in Nat
      BY <1>2
    <3>2. \A i \in 1..n : i \in 1..Len(c)
      BY <1>2, <1>3
    <3>3. g = [f EXCEPT !.counts = e]
      BY <2>2, Zenon DEF Report
    <3>4. Len(c) <= Len(e) /\ \A i \in 1..Len(c) : c[i] <= e[i]
      BY <1>2, <3>1
    <3> HIDE DEF e
    <3> QED
      BY <3>1, <3>2, <3>3, <3>4
  <2> QED
    BY <2>1, <2>2
<1>5. g \in FailureStates /\ g.counts = e
  BY <1>1, <1>4, Zenon DEF FailureStates
<1>6. g.done = f.done /\ g.active = f.active /\ g.sealed = f.sealed
  BY <1>1, <1>4, Zenon DEF FailureStates
<1>7. Dispatched(g) = n
  BY <1>6, Zenon DEF Dispatched
<1>8. BatchesGrow(c, e)
  <2>1. \A i \in 0..Len(c) : Totals(c)[i] <= Totals(e)[i]
    <3>1. Len(c) <= Len(c) /\ Len(c) \in Nat /\ c \in Seq(Nat)
      BY <1>2
    <3> HIDE DEF c, g, n
    <3> QED
      BY <1>4, <3>1, TotalsGrow, Zenon
  <2> QED
    BY <1>4, <2>1 DEF BatchesGrow
<1>9. Totals(e)[n] = Totals(c)[n]
  <2>1. n <= Len(e) /\ \A i \in 1..n : c[i] <= e[i] /\ e[i] <= c[i]
    BY <1>2, <1>3, <1>4
  <2>2. \A i \in 0..n : Totals(c)[i] <= Totals(e)[i]
    BY <1>2, <1>3, <2>1, TotalsGrow
  <2>3. \A i \in 0..n : Totals(e)[i] <= Totals(c)[i]
    BY <1>2, <1>3, <2>1, TotalsGrow
  <2>4. Totals(c) \in [0..Len(c) -> Nat] /\ Totals(e) \in [0..Len(e) -> Nat]
    BY <1>2, TotalsOf
  <2>5. n \in 0..n /\ n \in 0..Len(c) /\ n \in 0..Len(e)
    BY <1>2, <1>3, <2>1
  <2>6. Totals(c)[n] \in Nat /\ Totals(e)[n] \in Nat
    BY <2>4, <2>5
  <2> QED
    BY <2>2, <2>3, <2>5, <2>6
<1>10. n + (IF g.sealed THEN 1 ELSE 0) <= Len(g.counts)
  BY <1>1, <1>2, <1>4, <1>5, <1>6
<1>11. KindOK(g, d)
  BY <1>1, <1>5, <1>7, <1>9, <1>10 DEF KindOK
<1>12. f.done <= g.done
  BY <1>1, <1>6, FailureFields
<1> QED
  BY <1>4, <1>5, <1>8, <1>11, <1>12, Zenon DEF KindKept

LEMMA SealKeeps ==
  ASSUME NEW f, NEW d, KindOK(f, d)
  PROVE  KindKept(f, Seal(f), d) /\ Seal(f).counts = f.counts
<1> DEFINE g == Seal(f)
<1>1. /\ f \in FailureStates /\ d \in Nat
      /\ Dispatched(f) + (IF f.sealed THEN 1 ELSE 0) <= Len(f.counts)
      /\ d = Totals(f.counts)[Dispatched(f)]
  BY DEF KindOK
<1>2. (f.sealed \/ Pending(f)) \in BOOLEAN
  BY <1>1, FailureFields
<1>3. g = [f EXCEPT !.sealed = f.sealed \/ Pending(f)]
  BY Zenon DEF Seal
<1>4. /\ g \in FailureStates /\ g.counts = f.counts /\ g.done = f.done /\ g.active = f.active
      /\ g.sealed = (f.sealed \/ Pending(f))
  BY <1>1, <1>2, <1>3, Zenon DEF FailureStates
<1>5. Dispatched(g) = Dispatched(f)
  BY <1>4, Zenon DEF Dispatched
<1>6. Dispatched(f) \in Nat /\ Len(f.counts) \in Nat /\ f.sealed \in BOOLEAN /\ f.done \in Nat
      /\ f.counts \in Seq(Nat)
  BY <1>1, FailureFields
<1>7. Dispatched(f) + (IF g.sealed THEN 1 ELSE 0) <= Len(f.counts)
  <2>1. CASE f.sealed
    BY <1>1, <1>4, <1>6, <2>1
  <2>2. CASE ~f.sealed /\ Pending(f)
    <3>1. Len(f.counts) > Dispatched(f) + 0
      BY <2>2, Zenon DEF Pending
    <3> QED
      BY <1>4, <1>6, <3>1
  <2>3. CASE ~f.sealed /\ ~Pending(f)
    <3>1. ~g.sealed
      BY <1>4, <2>3
    <3> QED
      BY <1>1, <1>6, <2>3, <3>1
  <2> QED
    BY <2>1, <2>2, <2>3
<1>8. KindOK(g, d)
  BY <1>1, <1>4, <1>5, <1>7 DEF KindOK
<1>9. BatchesGrow(f.counts, g.counts) /\ f.done <= g.done
  BY <1>4, <1>6, BatchesStay
<1> QED
  BY <1>4, <1>8, <1>9, Zenon DEF KindKept

\* A batch is delivered behind those that were, to an idle kind.
LEMMA DeliveryKeeps ==
  ASSUME NEW f \in FailureStates, NEW d \in Nat, ~f.active,
         f.done + (IF f.sealed THEN 1 ELSE 0) <= Len(f.counts),
         d = Totals(f.counts)[f.done],
         NEW g, g = DeliverPending(f)
  PROVE  /\ KindOK(g, IF g.active THEN d + g.counts[g.done + 1] ELSE d)
         /\ g.counts = f.counts /\ g.done = f.done
<1>1. /\ f.counts \in Seq(Nat) /\ Len(f.counts) \in Nat /\ f.done \in Nat
      /\ f.active \in BOOLEAN /\ f.sealed \in BOOLEAN
      /\ Dispatched(f) = f.done + 0
  BY FailureFields
<1>2. /\ g \in FailureStates /\ g.counts = f.counts /\ g.done = f.done
      /\ g.active => f.done + 1 <= Len(f.counts)
      /\ ~g.sealed
  <2>1. CASE f.sealed
    <3>1. g = [f EXCEPT !.active = TRUE, !.sealed = FALSE]
      BY <2>1, Zenon DEF DeliverPending
    <3>2. f.done + 1 <= Len(f.counts)
      BY <1>1, <2>1
    <3> QED
      BY <3>1, <3>2, Zenon DEF FailureStates
  <2>2. CASE ~f.sealed
    <3>1. g = [f EXCEPT !.active = Pending(f)] /\ Pending(f) \in BOOLEAN
      BY <2>2 DEF DeliverPending, Pending
    <3>2. g \in FailureStates /\ g.counts = f.counts /\ g.done = f.done /\ g.active = Pending(f)
          /\ g.sealed = f.sealed
      BY <3>1, Zenon DEF FailureStates
    <3>3. Pending(f) => Len(f.counts) > Dispatched(f) + 0
      BY <2>2, Zenon DEF Pending
    <3>4. Pending(f) => f.done + 1 <= Len(f.counts)
      BY <1>1, <3>3
    <3> QED
      BY <2>2, <3>2, <3>4
  <2> QED
    BY <2>1, <2>2
<1>3. /\ Totals(f.counts) \in [0..Len(f.counts) -> Nat] /\ Sums(Totals(f.counts), f.counts)
  BY <1>1, TotalsOf
<1>4. CASE g.active
  <2>1. f.done + 1 \in 1..Len(f.counts) /\ (f.done + 1) - 1 = f.done
    BY <1>1, <1>2, <1>4
  <2>2. Totals(f.counts)[f.done + 1] = d + f.counts[f.done + 1]
    BY <1>3, <2>1, Zenon DEF Sums
  <2>3. f.counts[f.done + 1] \in Nat
    BY <1>1, <2>1, ElementOf, Zenon
  <2>4. Dispatched(g) = f.done + 1
    BY <1>2, <1>4, Zenon DEF Dispatched
  <2>5. Dispatched(g) + (IF g.sealed THEN 1 ELSE 0) <= Len(g.counts)
    BY <1>1, <1>2, <2>1, <2>4
  <2>6. d + g.counts[g.done + 1] = Totals(g.counts)[Dispatched(g)] /\ d + g.counts[g.done + 1] \in Nat
    BY <1>2, <2>2, <2>3, <2>4
  <2>7. KindOK(g, d + g.counts[g.done + 1])
    BY <1>2, <2>5, <2>6 DEF KindOK
  <2> QED
    BY <1>2, <1>4, <2>7
<1>5. CASE ~g.active
  <2>1. Dispatched(g) = f.done + 0
    BY <1>2, <1>5, Zenon DEF Dispatched
  <2>2. Dispatched(g) = f.done
    BY <1>1, <2>1
  <2>3. Dispatched(g) + (IF g.sealed THEN 1 ELSE 0) <= Len(g.counts)
    BY <1>1, <1>2, <2>2
  <2>4. KindOK(g, d)
    BY <1>2, <2>2, <2>3 DEF KindOK
  <2> QED
    BY <1>2, <1>5, <2>4
<1> QED
  BY <1>4, <1>5

\* deliver() of an idle kind, and of one whose active batch has settled.
LEMMA DeliverKeeps ==
  ASSUME NEW f, NEW d, KindOK(f, d), NEW h,
         \/ ~f.active /\ h = f
         \/ f.active /\ h = [f EXCEPT !.done = f.done + 1, !.active = FALSE],
         NEW g, g = DeliverPending(h)
  PROVE  KindKept(f, g, IF g.active THEN d + g.counts[g.done + 1] ELSE d)
<1>1. /\ f \in FailureStates /\ d \in Nat
      /\ Dispatched(f) + (IF f.sealed THEN 1 ELSE 0) <= Len(f.counts)
      /\ d = Totals(f.counts)[Dispatched(f)]
  BY DEF KindOK
<1>2. /\ f.counts \in Seq(Nat) /\ Len(f.counts) \in Nat /\ f.done \in Nat
      /\ f.active \in BOOLEAN /\ f.sealed \in BOOLEAN
      /\ Dispatched(f) = f.done + (IF f.active THEN 1 ELSE 0)
  BY <1>1, FailureFields
<1>3. /\ h \in FailureStates /\ ~h.active /\ h.counts = f.counts /\ h.sealed = f.sealed
      /\ h.done = Dispatched(f) /\ f.done <= h.done
  <2>1. CASE ~f.active /\ h = f
    <3>1. Dispatched(f) = f.done
      BY <1>2, <2>1
    <3> QED
      BY <1>1, <1>2, <2>1, <3>1
  <2>2. CASE f.active /\ h = [f EXCEPT !.done = f.done + 1, !.active = FALSE]
    <3>1. f.done + 1 \in Nat /\ f.done <= f.done + 1 /\ Dispatched(f) = f.done + 1
      BY <1>2, <2>2
    <3>2. h \in FailureStates /\ ~h.active /\ h.counts = f.counts /\ h.sealed = f.sealed
          /\ h.done = f.done + 1
      BY <1>1, <2>2, <3>1, Zenon DEF FailureStates
    <3> QED
      BY <3>1, <3>2
  <2> QED
    BY <2>1, <2>2
<1>4. h.done + (IF h.sealed THEN 1 ELSE 0) <= Len(h.counts) /\ d = Totals(h.counts)[h.done]
  BY <1>1, <1>3
<1>5. /\ KindOK(g, IF g.active THEN d + g.counts[g.done + 1] ELSE d)
      /\ g.counts = h.counts /\ g.done = h.done
  BY <1>1, <1>3, <1>4, DeliveryKeeps
<1>6. BatchesGrow(f.counts, g.counts) /\ f.done <= g.done
  BY <1>2, <1>3, <1>5, BatchesStay
<1> QED
  BY <1>5, <1>6 DEF KindKept

-----------------------------------------------------------------------------
(* The bridge.                                                             *)

Owners == {Nobody} \cup [kind : FailureKinds, observer : Observers, batch : Nat]

Bridges ==
  [closed : BOOLEAN, closing : BOOLEAN, accepted : Nat, outstanding : Nat,
   fates : Seq(Nat), failures : [FailureKinds -> FailureStates]]

Barriers ==
  [owner : Owners, settled : Nat, accepted : Nat, batches : [FailureKinds -> Nat],
   refused : Nat]

BridgeTypeOK ==
  /\ bridge \in Bridges
  /\ delivered \in [FailureKinds -> Nat]
  /\ observers \in [FailureKinds -> [Observers -> {"idle", "running", "settled", "awaiting"}]]
  /\ barriers \in Seq(Barriers)

\* Events settle in the order they were accepted, one at a time.
QueueOK ==
  /\ bridge.outstanding <= Capacity
  /\ Released <= Settled /\ Settled <= bridge.accepted

FatesOK == \A e \in 1..Settled : bridge.fates[e] <= Len(Failures("append").counts)

\* What had failed when the barrier was built is in the batches it waits for,
\* and so is what had been refused.
BarrierOK(b) ==
  /\ b.settled <= Settled
  /\ \A k \in FailureKinds : b.batches[k] <= Len(Failures(k).counts)
  /\ \A e \in 1..b.settled : bridge.fates[e] <= b.batches["append"]
  /\ b.refused <= Totals(Failures("overflow").counts)[b.batches["overflow"]]

BridgeInv ==
  /\ BridgeTypeOK /\ QueueOK /\ FatesOK
  /\ \A k \in FailureKinds : KindOK(Failures(k), delivered[k])
  /\ \A i \in DOMAIN barriers : BarrierOK(barriers[i])

BarrierNow(owner) ==
  [owner |-> owner, settled |-> Settled, accepted |-> bridge.accepted,
   batches |-> [k \in FailureKinds |-> Len(Failures(k).counts)], refused |-> Refusals]

\* What a step does to the queue, to the failures and to the barriers.
QueueMoves ==
  \/ UNCHANGED <<bridge.fates, bridge.accepted, bridge.outstanding>>
  \/ /\ bridge.outstanding < Capacity
     /\ bridge'.accepted = bridge.accepted + 1
     /\ bridge'.outstanding = bridge.outstanding + 1
     /\ bridge'.fates = bridge.fates
  \/ /\ Settled = Released /\ Released < bridge.accepted
     /\ \E x \in 0..Len(Failures("append")'.counts) : bridge'.fates = Append(bridge.fates, x)
     /\ UNCHANGED <<bridge.accepted, bridge.outstanding>>
  \/ /\ Settled > Released
     /\ bridge'.outstanding = bridge.outstanding - 1
     /\ UNCHANGED <<bridge.fates, bridge.accepted>>

BarriersMove ==
  \/ barriers' = barriers
  \/ /\ \E owner \in Owners : barriers' = Append(barriers, BarrierNow(owner))
     /\ \A k \in FailureKinds : Failures(k)'.counts = Failures(k).counts
     /\ UNCHANGED bridge.fates

BridgeMoves ==
  /\ BridgeTypeOK'
  /\ \A k \in FailureKinds : KindKept(Failures(k), Failures(k)', delivered'[k])
  /\ QueueMoves /\ BarriersMove

LEMMA BridgeFields ==
  ASSUME BridgeTypeOK
  PROVE  /\ bridge.closed \in BOOLEAN /\ bridge.closing \in BOOLEAN
         /\ bridge.accepted \in Nat /\ bridge.outstanding \in Nat
         /\ bridge.fates \in Seq(Nat) /\ Settled \in Nat /\ Released \in Int
         /\ bridge.failures \in [FailureKinds -> FailureStates]
         /\ \A k \in FailureKinds : /\ Failures(k) \in FailureStates
                                    /\ Failures(k).counts \in Seq(Nat)
                                    /\ Len(Failures(k).counts) \in Nat
                                    /\ Failures(k).done \in Nat
<1>1. bridge \in Bridges
  BY DEF BridgeTypeOK
<1>2. bridge.closed \in BOOLEAN /\ bridge.closing \in BOOLEAN
  BY <1>1, Zenon DEF Bridges
<1>3. /\ bridge.accepted \in Nat /\ bridge.outstanding \in Nat /\ bridge.fates \in Seq(Nat)
      /\ bridge.failures \in [FailureKinds -> FailureStates]
  BY <1>1, Zenon DEF Bridges
<1>4. Settled \in Nat /\ Released \in Int
  BY <1>3 DEF Settled, Released
<1>5. \A k \in FailureKinds : Failures(k) \in FailureStates
  BY <1>3, Zenon DEF Failures
<1> QED
  BY <1>2, <1>3, <1>4, <1>5, FailureFields

LEMMA RefusalsAre ==
  ASSUME BridgeTypeOK
  PROVE  /\ Refusals = Totals(Failures("overflow").counts)[Len(Failures("overflow").counts)]
         /\ Refusals \in Nat
<1> DEFINE c == Failures("overflow").counts
<1>1. c \in Seq(Nat) /\ Len(c) \in Nat
  BY BridgeFields DEF FailureKinds
<1>2. Refusals = Summed(c)
  BY DEF Refusals, Summed
<1>3. Totals(c) \in [0..Len(c) -> Nat] /\ Summed(c) = Totals(c)[Len(c)]
  BY <1>1, TotalsOf
<1> HIDE DEF c
<1>4. Totals(c)[Len(c)] \in Nat
  BY <1>1, <1>3
<1> USE DEF c
<1> QED
  BY <1>2, <1>3, <1>4

LEMMA BridgeStarts == BridgeInit => BridgeInv
<1> SUFFICES ASSUME BridgeInit
             PROVE  BridgeInv
  OBVIOUS
<1>1. /\ bridge = NoBridge /\ barriers = <<>>
      /\ observers = [k \in FailureKinds |-> [o \in Observers |-> "idle"]]
      /\ delivered = [k \in FailureKinds |-> 0]
  BY DEF BridgeInit
<1>2. NoFailures \in FailureStates /\ NoFailures.counts = <<>> /\ NoFailures.done = 0
      /\ ~NoFailures.active /\ ~NoFailures.sealed
  BY DEF NoFailures, FailureStates
<1>3. /\ bridge.accepted = 0 /\ bridge.outstanding = 0 /\ bridge.fates = <<>>
      /\ bridge.failures = [k \in FailureKinds |-> NoFailures]
  BY <1>1 DEF NoBridge
<1>4. bridge \in Bridges
  <2>1. [k \in FailureKinds |-> NoFailures] \in [FailureKinds -> FailureStates] /\ <<>> \in Seq(Nat)
    BY <1>2
  <2>2. FALSE \in BOOLEAN /\ 0 \in Nat
    OBVIOUS
  <2> QED
    BY <1>1, <2>1, <2>2, Zenon DEF NoBridge, Bridges
<1>5. BridgeTypeOK
  BY <1>1, <1>4 DEF BridgeTypeOK
<1>6. Settled = 0 /\ Released = 0
  BY <1>3 DEF Settled, Released
<1>7. QueueOK /\ FatesOK
  BY <1>3, <1>6, BridgeAssumption DEF QueueOK, FatesOK
<1>8. ASSUME NEW k \in FailureKinds
      PROVE  KindOK(Failures(k), delivered[k])
  <2>1. Failures(k) = NoFailures /\ delivered[k] = 0
    BY <1>1, <1>3 DEF Failures
  <2>2. Dispatched(NoFailures) = 0
    BY <1>2 DEF Dispatched
  <2>3. <<>> \in Seq(Nat) /\ Len(<<>>) = 0
    OBVIOUS
  <2>4. Totals(<<>>)[0] = 0
    BY <2>3, TotalsOf DEF Sums
  <2> QED
    BY <1>2, <2>1, <2>2, <2>3, <2>4 DEF KindOK
<1> QED
  BY <1>1, <1>5, <1>7, <1>8 DEF BridgeInv

LEMMA BridgeFieldsNext ==
  BridgeTypeOK' =>
    /\ bridge'.accepted \in Nat /\ bridge'.outstanding \in Nat
    /\ bridge'.fates \in Seq(Nat) /\ Settled' \in Nat /\ Released' \in Int
    /\ \A k \in FailureKinds : /\ Failures(k)'.counts \in Seq(Nat)
                               /\ Len(Failures(k)'.counts) \in Nat
<1> DEFINE Typed ==
      /\ bridge.accepted \in Nat /\ bridge.outstanding \in Nat
      /\ bridge.fates \in Seq(Nat) /\ Settled \in Nat /\ Released \in Int
      /\ \A k \in FailureKinds : /\ Failures(k).counts \in Seq(Nat)
                                 /\ Len(Failures(k).counts) \in Nat
<1>1. BridgeTypeOK => Typed
  BY BridgeFields
<1> HIDE DEF Typed
<1>2. BridgeTypeOK' => Typed'
  BY <1>1, PTL
<1> QED
  BY <1>2 DEF Typed

LEMMA BridgePreserved ==
  ASSUME BridgeInv, BridgeMoves
  PROVE  BridgeInv'
<1>1. /\ BridgeTypeOK /\ QueueOK /\ FatesOK /\ BridgeTypeOK'
      /\ \A k \in FailureKinds : KindKept(Failures(k), Failures(k)', delivered'[k])
      /\ \A i \in DOMAIN barriers : BarrierOK(barriers[i])
      /\ QueueMoves /\ BarriersMove
  BY DEF BridgeInv, BridgeMoves
<1>2. /\ bridge.accepted \in Nat /\ bridge.outstanding \in Nat /\ bridge.fates \in Seq(Nat)
      /\ Settled = Len(bridge.fates) /\ Settled \in Nat
      /\ Released = bridge.accepted - bridge.outstanding /\ Released \in Int
      /\ \A k \in FailureKinds : /\ Failures(k).counts \in Seq(Nat)
                                 /\ Len(Failures(k).counts) \in Nat
  BY <1>1, BridgeFields DEF Settled, Released
<1>3. /\ bridge'.accepted \in Nat /\ bridge'.outstanding \in Nat /\ bridge'.fates \in Seq(Nat)
      /\ Settled' = Len(bridge'.fates) /\ Settled' \in Nat
      /\ Released' = bridge'.accepted - bridge'.outstanding
      /\ \A k \in FailureKinds : /\ Failures(k)'.counts \in Seq(Nat)
                                 /\ Len(Failures(k)'.counts) \in Nat
  BY <1>1, BridgeFieldsNext DEF Settled, Released
<1>4. "append" \in FailureKinds /\ "overflow" \in FailureKinds
  BY DEF FailureKinds
<1>5. \A k \in FailureKinds : /\ KindOK(Failures(k)', delivered'[k])
                              /\ BatchesGrow(Failures(k).counts, Failures(k)'.counts)
  BY <1>1 DEF KindKept
<1>6. \A k \in FailureKinds : Len(Failures(k).counts) <= Len(Failures(k)'.counts)
  BY <1>5 DEF BatchesGrow
\* The fates that were there stay, and a new one is a batch there is.
<1>7. /\ Settled <= Settled'
      /\ \A e \in 1..Settled : bridge'.fates[e] = bridge.fates[e]
      /\ \A e \in 1..Settled' : e \in 1..Settled \/ bridge'.fates[e] <= Len(Failures("append")'.counts)
  <2>1. CASE bridge'.fates = bridge.fates
    BY <1>2, <1>3, <2>1
  <2>2. CASE \E x \in 0..Len(Failures("append")'.counts) : bridge'.fates = Append(bridge.fates, x)
    <3>1. PICK x \in 0..Len(Failures("append")'.counts) : bridge'.fates = Append(bridge.fates, x)
      BY <2>2
    <3>2. x \in Nat /\ x <= Len(Failures("append")'.counts)
      BY <1>3, <1>4, <3>1
    <3>3. /\ Settled' = Settled + 1
          /\ \A e \in 1..Settled : bridge'.fates[e] = bridge.fates[e]
          /\ bridge'.fates[Settled + 1] = x
      BY <1>2, <1>3, <3>1, <3>2
    <3>4. \A e \in 1..(Settled + 1) : e \in 1..Settled \/ e = Settled + 1
      BY <1>2
    <3>5. Settled <= Settled + 1
      BY <1>2
    <3> QED
      BY <3>2, <3>3, <3>4, <3>5
  <2> QED
    BY <1>1, <2>1, <2>2 DEF QueueMoves
<1>8. QueueOK'
  <2>1. bridge.outstanding <= Capacity /\ Released <= Settled /\ Settled <= bridge.accepted
    BY <1>1 DEF QueueOK
  <2>2. CASE UNCHANGED <<bridge.fates, bridge.accepted, bridge.outstanding>>
    <3> QED
      BY <1>2, <1>3, <2>1, <2>2 DEF QueueOK
  <2>3. CASE /\ bridge.outstanding < Capacity
             /\ bridge'.accepted = bridge.accepted + 1
             /\ bridge'.outstanding = bridge.outstanding + 1
             /\ bridge'.fates = bridge.fates
    <3>1. bridge'.outstanding <= Capacity
      BY <1>2, <2>3, BridgeAssumption
    <3>2. Settled' = Settled /\ Released' = Released
      BY <1>2, <1>3, <2>3
    <3>3. Released' <= Settled' /\ Settled' <= bridge'.accepted
      BY <1>2, <2>1, <2>3, <3>2
    <3> QED
      BY <3>1, <3>3 DEF QueueOK
  <2>4. CASE /\ Settled = Released /\ Released < bridge.accepted
             /\ \E x \in 0..Len(Failures("append")'.counts) : bridge'.fates = Append(bridge.fates, x)
             /\ UNCHANGED <<bridge.accepted, bridge.outstanding>>
    <3>1. PICK x \in 0..Len(Failures("append")'.counts) : bridge'.fates = Append(bridge.fates, x)
      BY <2>4
    <3>2. Settled' = Settled + 1
      BY <1>2, <1>3, <1>4, <3>1
    <3>3. Released' = Released
      BY <1>2, <1>3, <2>4
    <3>4. Released' <= Settled' /\ Settled' <= bridge'.accepted
      BY <1>2, <2>1, <2>4, <3>2, <3>3
    <3> QED
      BY <2>1, <2>4, <3>4 DEF QueueOK
  <2>5. CASE /\ Settled > Released
             /\ bridge'.outstanding = bridge.outstanding - 1
             /\ UNCHANGED <<bridge.fates, bridge.accepted>>
    <3>1. Settled' = Settled /\ Released' = Released + 1 /\ bridge'.accepted = bridge.accepted
      BY <1>2, <1>3, <2>5
    <3>2. Released' <= Settled' /\ Settled' <= bridge'.accepted
      BY <1>2, <2>1, <2>5, <3>1
    <3>3. bridge'.outstanding <= Capacity
      BY <1>2, <2>1, <2>5, BridgeAssumption
    <3> QED
      BY <3>2, <3>3 DEF QueueOK
  <2> QED
    BY <1>1, <2>2, <2>3, <2>4, <2>5 DEF QueueMoves
<1>9. FatesOK'
  <2>1. ASSUME NEW e \in 1..Settled'
        PROVE  bridge'.fates[e] <= Len(Failures("append")'.counts)
    <3>1. CASE e \in 1..Settled
      <4>1. bridge'.fates[e] = bridge.fates[e] /\ bridge.fates[e] \in Nat
        BY <1>2, <1>7, <3>1
      <4>2. bridge.fates[e] <= Len(Failures("append").counts)
        BY <1>1, <3>1 DEF FatesOK
      <4>3. Len(Failures("append").counts) <= Len(Failures("append")'.counts)
        BY <1>4, <1>6
      <4>4. Len(Failures("append").counts) \in Nat /\ Len(Failures("append")'.counts) \in Nat
        BY <1>2, <1>3, <1>4
      <4> QED
        BY <4>1, <4>2, <4>3, <4>4
    <3> QED
      BY <1>7, <3>1
  <2> QED
    BY <2>1 DEF FatesOK
<1>10. barriers \in Seq(Barriers) /\ barriers' \in Seq(Barriers)
  BY <1>1 DEF BridgeTypeOK
<1>11. ASSUME NEW b \in Barriers, BarrierOK(b)
       PROVE  BarrierOK(b)'
  <2>1. /\ b.settled <= Settled
        /\ \A k \in FailureKinds : b.batches[k] <= Len(Failures(k).counts)
        /\ \A e \in 1..b.settled : bridge.fates[e] <= b.batches["append"]
        /\ b.refused <= Totals(Failures("overflow").counts)[b.batches["overflow"]]
    BY <1>11 DEF BarrierOK
  <2>2. b.settled \in Nat /\ b.batches \in [FailureKinds -> Nat] /\ b.refused \in Nat
    BY <1>11 DEF Barriers
  <2>3. b.settled <= Settled'
    BY <1>2, <1>3, <1>7, <2>1, <2>2
  <2>4. ASSUME NEW k \in FailureKinds
        PROVE  b.batches[k] <= Len(Failures(k)'.counts)
    <3>1. b.batches[k] <= Len(Failures(k).counts)
          /\ Len(Failures(k).counts) <= Len(Failures(k)'.counts)
      BY <1>6, <2>1
    <3>2. b.batches[k] \in Nat /\ Len(Failures(k).counts) \in Nat /\ Len(Failures(k)'.counts) \in Nat
      BY <1>2, <1>3, <2>2
    <3> QED
      BY <3>1, <3>2
  <2>5. \A e \in 1..b.settled : bridge'.fates[e] <= b.batches["append"]
    <3>1. \A e \in 1..b.settled : e \in 1..Settled
      BY <1>2, <2>1, <2>2
    <3> QED
      BY <1>7, <2>1, <3>1
  <2>6. b.refused <= Totals(Failures("overflow")'.counts)[b.batches["overflow"]]
    <3> DEFINE c == Failures("overflow").counts
               e == Failures("overflow")'.counts
               n == b.batches["overflow"]
    <3>1. n \in Nat /\ n <= Len(c) /\ c \in Seq(Nat) /\ e \in Seq(Nat) /\ Len(c) <= Len(e)
          /\ Len(c) \in Nat /\ Len(e) \in Nat
      BY <1>2, <1>3, <1>4, <1>6, <2>1, <2>2
    <3>2. BatchesGrow(c, e) /\ b.refused <= Totals(c)[n] /\ b.refused \in Nat
      BY <1>4, <1>5, <2>1, <2>2
    <3> HIDE DEF c, e, n
    <3>3. Totals(c)[n] <= Totals(e)[n]
      BY <3>1, <3>2 DEF BatchesGrow
    <3>4. Totals(c) \in [0..Len(c) -> Nat] /\ Totals(e) \in [0..Len(e) -> Nat]
      BY <3>1, TotalsOf
    <3>5. Totals(c)[n] \in Nat /\ Totals(e)[n] \in Nat
      <4>1. n \in 0..Len(c) /\ n \in 0..Len(e)
        BY <3>1
      <4> QED
        BY <3>4, <4>1
    <3>6. b.refused <= Totals(e)[n]
      BY <3>2, <3>3, <3>5
    <3> QED
      BY <3>6 DEF e, n
  <2> QED
    BY <2>3, <2>4, <2>5, <2>6 DEF BarrierOK
<1>12. ASSUME NEW owner \in Owners, NEW b, b = BarrierNow(owner),
              \A k \in FailureKinds : Failures(k)'.counts = Failures(k).counts,
              bridge'.fates = bridge.fates
       PROVE  BarrierOK(b)'
  <2>1. /\ b.settled = Settled /\ b.refused = Refusals
        /\ b.batches = [k \in FailureKinds |-> Len(Failures(k).counts)]
    BY <1>12 DEF BarrierNow
  <2>2. \A k \in FailureKinds : b.batches[k] = Len(Failures(k)'.counts)
    BY <1>12, <2>1
  <2>3. b.settled = Settled'
    BY <1>2, <1>3, <1>12, <2>1
  <2>4. \A e \in 1..b.settled : bridge'.fates[e] <= b.batches["append"]
    <3>1. \A e \in 1..Settled' : bridge'.fates[e] <= Len(Failures("append")'.counts)
      BY <1>9 DEF FatesOK
    <3> QED
      BY <1>4, <2>2, <2>3, <3>1
  <2>5. b.refused <= Totals(Failures("overflow")'.counts)[b.batches["overflow"]]
    <3>1. b.refused = Totals(Failures("overflow").counts)[Len(Failures("overflow").counts)]
          /\ b.refused \in Nat
      BY <1>1, <2>1, RefusalsAre
    <3>2. b.refused = Totals(Failures("overflow")'.counts)[b.batches["overflow"]]
      BY <1>4, <1>12, <2>2, <3>1
    <3> QED
      BY <3>1, <3>2
  <2>6. b.settled <= Settled' /\ \A k \in FailureKinds : b.batches[k] <= Len(Failures(k)'.counts)
    BY <1>3, <2>2, <2>3
  <2> QED
    BY <2>4, <2>5, <2>6 DEF BarrierOK
<1>13. \A i \in DOMAIN barriers' : BarrierOK(barriers[i])'
  <2>1. CASE barriers' = barriers
    <3>1. ASSUME NEW i \in DOMAIN barriers'
          PROVE  BarrierOK(barriers[i])'
      <4>1. barriers[i] \in Barriers /\ BarrierOK(barriers[i]) /\ barriers'[i] = barriers[i]
        BY <1>1, <1>10, <2>1, <3>1
      <4> QED
        BY <1>11, <4>1
    <3> QED
      BY <3>1
  <2>2. CASE /\ \E owner \in Owners : barriers' = Append(barriers, BarrierNow(owner))
             /\ \A k \in FailureKinds : Failures(k)'.counts = Failures(k).counts
             /\ UNCHANGED bridge.fates
    <3>1. PICK owner \in Owners : barriers' = Append(barriers, BarrierNow(owner))
      BY <2>2
    <3>2. ASSUME NEW i \in DOMAIN barriers'
          PROVE  BarrierOK(barriers[i])'
      <4>1. \/ i \in DOMAIN barriers /\ barriers'[i] = barriers[i] /\ barriers[i] \in Barriers
            \/ barriers'[i] = BarrierNow(owner)
        BY <1>10, <3>1, <3>2
      <4>2. CASE barriers'[i] = BarrierNow(owner)
        BY <1>12, <2>2, <4>2
      <4>3. CASE i \in DOMAIN barriers /\ barriers'[i] = barriers[i] /\ barriers[i] \in Barriers
        <5>1. BarrierOK(barriers[i])
          BY <1>1, <4>3
        <5> QED
          BY <1>11, <4>3, <5>1
      <4> QED
        BY <4>1, <4>2, <4>3
    <3> QED
      BY <3>2
  <2> QED
    BY <1>1, <2>1, <2>2 DEF BarriersMove
<1> QED
  BY <1>1, <1>5, <1>8, <1>9, <1>13 DEF BridgeInv

LEMMA KindStays ==
  ASSUME NEW f, NEW d, KindOK(f, d)
  PROVE  KindKept(f, f, d)
<1>1. f \in FailureStates
  BY DEF KindOK
<1>2. f.counts \in Seq(Nat) /\ f.done \in Nat
  BY <1>1, FailureFields
<1>3. BatchesGrow(f.counts, f.counts) /\ f.done <= f.done
  BY <1>2, BatchesStay
<1> QED
  BY <1>3 DEF KindKept

\* A step that changes no failures.
LEMMA KindsStay ==
  ASSUME BridgeInv, bridge'.failures = bridge.failures, delivered' = delivered
  PROVE  \A k \in FailureKinds : KindKept(Failures(k), Failures(k)', delivered'[k])
<1>1. ASSUME NEW k \in FailureKinds
      PROVE  KindKept(Failures(k), Failures(k)', delivered'[k])
  <2>1. Failures(k)' = Failures(k) /\ delivered'[k] = delivered[k]
    BY Zenon DEF Failures
  <2>2. KindOK(Failures(k), delivered[k])
    BY DEF BridgeInv
  <2>3. KindKept(Failures(k), Failures(k), delivered[k])
    BY <2>2, KindStays
  <2> QED
    BY <2>1, <2>3
<1> QED
  BY <1>1

\* A step that changes the failures of one kind.
LEMMA OneKindMoves ==
  ASSUME BridgeInv, NEW k \in FailureKinds, NEW g,
         bridge'.failures = [bridge.failures EXCEPT ![k] = g],
         KindKept(Failures(k), g, delivered'[k]),
         \A j \in FailureKinds \ {k} : delivered'[j] = delivered[j]
  PROVE  /\ \A j \in FailureKinds : KindKept(Failures(j), Failures(j)', delivered'[j])
         /\ bridge'.failures \in [FailureKinds -> FailureStates]
         /\ Failures(k)' = g
<1>1. BridgeTypeOK
  BY DEF BridgeInv
<1>2. bridge.failures \in [FailureKinds -> FailureStates]
  BY <1>1, BridgeFields
<1>3. g \in FailureStates
  BY DEF KindKept, KindOK
<1>4. bridge'.failures \in [FailureKinds -> FailureStates]
  BY <1>2, <1>3, Zenon
<1>5. Failures(k)' = g
  BY <1>2 DEF Failures
<1>6. ASSUME NEW j \in FailureKinds
      PROVE  KindKept(Failures(j), Failures(j)', delivered'[j])
  <2>1. CASE j = k
    BY <1>5, <2>1
  <2>2. CASE j # k
    <3>1. Failures(j)' = Failures(j) /\ delivered'[j] = delivered[j]
      BY <1>2, <2>2 DEF Failures
    <3>2. KindOK(Failures(j), delivered[j])
      BY DEF BridgeInv
    <3>3. KindKept(Failures(j), Failures(j), delivered[j])
      BY <3>2, KindStays
    <3> QED
      BY <3>1, <3>3
  <2> QED
    BY <2>1, <2>2
<1> QED
  BY <1>4, <1>5, <1>6

LEMMA BusEmitsMoves ==
  ASSUME BridgeInv, BusEmits
  PROVE  BridgeMoves
<1>1. /\ BridgeTypeOK /\ UNCHANGED <<observers, delivered, barriers>>
      /\ bridge \in Bridges
  BY DEF BridgeInv, BusEmits, BridgeTypeOK
<1>2. /\ bridge.accepted \in Nat /\ bridge.outstanding \in Nat
  BY <1>1, BridgeFields
<1>3. BarriersMove
  BY <1>1 DEF BarriersMove
<1>4. CASE bridge.outstanding >= Capacity
  <2> DEFINE g == Report(bridge.failures["overflow"])
  <2>1. bridge' = [bridge EXCEPT !.failures["overflow"] = g]
    BY <1>4, Zenon DEF BusEmits
  <2>2. "overflow" \in FailureKinds /\ g = Report(Failures("overflow"))
    BY DEF FailureKinds, Failures
  <2>3. KindKept(Failures("overflow"), g, delivered'["overflow"])
    <3>1. KindOK(Failures("overflow"), delivered["overflow"])
      BY <2>2 DEF BridgeInv
    <3> QED
      BY <1>1, <2>2, <3>1, ReportKeeps
  <2> HIDE DEF g
  <2>4. /\ bridge'.failures = [bridge.failures EXCEPT !["overflow"] = g]
        /\ bridge'.fates = bridge.fates /\ bridge'.accepted = bridge.accepted
        /\ bridge'.outstanding = bridge.outstanding
    BY <1>1, <2>1 DEF Bridges
  <2>5. \A j \in FailureKinds \ {"overflow"} : delivered'[j] = delivered[j]
    BY <1>1
  <2>6. /\ \A j \in FailureKinds : KindKept(Failures(j), Failures(j)', delivered'[j])
        /\ bridge'.failures \in [FailureKinds -> FailureStates]
    BY <2>2, <2>3, <2>4, <2>5, OneKindMoves
  <2>7. bridge' \in Bridges
    <3>1. bridge' = [bridge EXCEPT !.failures = bridge'.failures]
      BY <1>1, <2>1, <2>4 DEF Bridges
    <3> QED
      BY <1>1, <2>6, <3>1, Zenon DEF Bridges
  <2>8. QueueMoves
    BY <2>4 DEF QueueMoves
  <2> QED
    BY <1>1, <1>3, <2>6, <2>7, <2>8 DEF BridgeMoves, BridgeTypeOK
<1>5. CASE ~(bridge.outstanding >= Capacity)
  <2>1. bridge' = [bridge EXCEPT !.accepted = bridge.accepted + 1,
                                 !.outstanding = bridge.outstanding + 1]
    BY <1>5, Zenon DEF BusEmits
  <2>2. bridge.accepted + 1 \in Nat /\ bridge.outstanding + 1 \in Nat
        /\ bridge.outstanding < Capacity
    BY <1>2, <1>5, BridgeAssumption
  <2>3. /\ bridge' \in Bridges
        /\ bridge'.accepted = bridge.accepted + 1
        /\ bridge'.outstanding = bridge.outstanding + 1
        /\ bridge'.fates = bridge.fates /\ bridge'.failures = bridge.failures
    BY <1>1, <2>1, <2>2, Zenon DEF Bridges
  <2>4. QueueMoves
    BY <2>2, <2>3 DEF QueueMoves
  <2>5. \A k \in FailureKinds : KindKept(Failures(k), Failures(k)', delivered'[k])
    BY <1>1, <2>3, KindsStay
  <2> QED
    BY <1>1, <1>3, <2>3, <2>4, <2>5 DEF BridgeMoves, BridgeTypeOK
<1> QED
  BY <1>4, <1>5

LEMMA AppendsMoves ==
  ASSUME BridgeInv, Appends
  PROVE  BridgeMoves
<1>1. /\ BridgeTypeOK /\ UNCHANGED <<observers, delivered, barriers>>
      /\ bridge \in Bridges /\ Settled = Released /\ Released < bridge.accepted
  BY DEF BridgeInv, Appends, BridgeTypeOK
<1>2. /\ bridge.accepted \in Nat /\ bridge.outstanding \in Nat /\ bridge.fates \in Seq(Nat)
      /\ "append" \in FailureKinds
      /\ Failures("append").counts \in Seq(Nat)
  BY <1>1, BridgeFields DEF FailureKinds
<1>3. BarriersMove
  BY <1>1 DEF BarriersMove
<1>4. CASE bridge' = [bridge EXCEPT !.fates = Append(bridge.fates, 0)]
  <2>1. Append(bridge.fates, 0) \in Seq(Nat)
    BY <1>2
  <2>2. /\ bridge' \in Bridges
        /\ bridge'.fates = Append(bridge.fates, 0) /\ bridge'.failures = bridge.failures
        /\ bridge'.accepted = bridge.accepted /\ bridge'.outstanding = bridge.outstanding
    BY <1>1, <1>4, <2>1, Zenon DEF Bridges
  <2>3. Failures("append")' = Failures("append")
    BY <2>2 DEF Failures
  <2>4. 0 \in 0..Len(Failures("append")'.counts)
    BY <1>2, <2>3
  <2>5. QueueMoves
    BY <1>1, <2>2, <2>4, Zenon DEF QueueMoves
  <2>6. \A k \in FailureKinds : KindKept(Failures(k), Failures(k)', delivered'[k])
    BY <1>1, <2>2, KindsStay
  <2> QED
    BY <1>1, <1>3, <2>2, <2>5, <2>6 DEF BridgeMoves, BridgeTypeOK
<1> DEFINE g == Report(Failures("append"))
           x == Len(g.counts)
<1>5. CASE bridge' = [bridge EXCEPT !.failures["append"] = g, !.fates = Append(bridge.fates, x)]
  <2>1. KindKept(Failures("append"), g, delivered'["append"])
    <3>1. KindOK(Failures("append"), delivered["append"])
      BY <1>2 DEF BridgeInv
    <3> QED
      BY <1>1, <3>1, ReportKeeps
  <2>2. g \in FailureStates
    BY <2>1 DEF KindKept, KindOK
  <2>3. x \in Nat /\ Append(bridge.fates, x) \in Seq(Nat)
    BY <1>2, <2>2, FailureFields
  <2> HIDE DEF g
  <2>4. /\ bridge'.failures = [bridge.failures EXCEPT !["append"] = g]
        /\ bridge'.fates = Append(bridge.fates, x) /\ bridge'.accepted = bridge.accepted
        /\ bridge'.outstanding = bridge.outstanding
    BY <1>1, <1>5 DEF Bridges
  <2>5. \A j \in FailureKinds \ {"append"} : delivered'[j] = delivered[j]
    BY <1>1
  <2>6. /\ \A j \in FailureKinds : KindKept(Failures(j), Failures(j)', delivered'[j])
        /\ bridge'.failures \in [FailureKinds -> FailureStates]
        /\ Failures("append")' = g
    BY <1>2, <2>1, <2>4, <2>5, OneKindMoves
  <2>7. bridge' \in Bridges
    <3>1. bridge' = [bridge EXCEPT !.failures = bridge'.failures, !.fates = Append(bridge.fates, x)]
      BY <1>1, <1>5, <2>4 DEF Bridges
    <3> QED
      BY <1>1, <2>3, <2>6, <3>1, Zenon DEF Bridges
  <2>8. x \in 0..Len(Failures("append")'.counts)
    BY <2>3, <2>6
  <2>9. QueueMoves
    BY <1>1, <2>4, <2>8, Zenon DEF QueueMoves
  <2> QED
    BY <1>1, <1>3, <2>6, <2>7, <2>9 DEF BridgeMoves, BridgeTypeOK
<1> QED
  BY <1>4, <1>5, Zenon DEF Appends

LEMMA ReleasesMoves ==
  ASSUME BridgeInv, Releases
  PROVE  BridgeMoves
<1>1. /\ BridgeTypeOK /\ UNCHANGED <<observers, delivered, barriers>>
      /\ bridge \in Bridges /\ Settled > Released /\ Settled <= bridge.accepted
      /\ bridge' = [bridge EXCEPT !.outstanding = bridge.outstanding - 1]
  BY DEF BridgeInv, Releases, BridgeTypeOK, QueueOK
<1>2. /\ bridge.accepted \in Nat /\ bridge.outstanding \in Nat /\ Settled \in Nat
      /\ Released = bridge.accepted - bridge.outstanding
  BY <1>1, BridgeFields DEF Released
<1>3. bridge.outstanding - 1 \in Nat
  BY <1>1, <1>2
<1>4. /\ bridge' \in Bridges
      /\ bridge'.outstanding = bridge.outstanding - 1 /\ bridge'.accepted = bridge.accepted
      /\ bridge'.fates = bridge.fates /\ bridge'.failures = bridge.failures
  BY <1>1, <1>3, Zenon DEF Bridges
<1>5. QueueMoves /\ BarriersMove
  BY <1>1, <1>4 DEF QueueMoves, BarriersMove
<1>6. \A k \in FailureKinds : KindKept(Failures(k), Failures(k)', delivered'[k])
  BY <1>1, <1>4, KindsStay
<1> QED
  BY <1>1, <1>4, <1>5, <1>6 DEF BridgeMoves, BridgeTypeOK

ObserverStates == {"idle", "running", "settled", "awaiting"}

LEMMA DeliverMoves ==
  ASSUME BridgeInv, NEW k \in FailureKinds, DeliverFirst(k) \/ BatchSettles(k)
  PROVE  BridgeMoves
<1>1. /\ BridgeTypeOK /\ UNCHANGED barriers /\ bridge \in Bridges
      /\ delivered \in [FailureKinds -> Nat]
      /\ observers \in [FailureKinds -> [Observers -> ObserverStates]]
      /\ KindOK(Failures(k), delivered[k])
  BY DEF BridgeInv, BridgeTypeOK, DeliverFirst, BatchSettles, ObserverStates
<1>2. PICK h : /\ \/ ~Failures(k).active /\ h = Failures(k)
                  \/ /\ Failures(k).active
                     /\ h = [Failures(k) EXCEPT !.done = Failures(k).done + 1, !.active = FALSE]
               /\ Deliver(k, h)
  <2>1. CASE DeliverFirst(k)
    BY <2>1, Zenon DEF DeliverFirst
  <2>2. CASE BatchSettles(k)
    BY <2>2, Zenon DEF BatchSettles
  <2> QED
    BY <2>1, <2>2
<1> DEFINE g == DeliverPending(h)
           d == IF g.active THEN delivered[k] + g.counts[g.done + 1] ELSE delivered[k]
<1>3. /\ bridge' = [bridge EXCEPT !.failures[k] = g]
      /\ observers' = [observers EXCEPT
           ![k] = [o \in Observers |-> IF g.active THEN "running" ELSE "idle"]]
      /\ delivered' = [delivered EXCEPT ![k] = d]
  BY <1>2, Zenon DEF Deliver
<1>4. KindKept(Failures(k), g, d)
  BY <1>1, <1>2, DeliverKeeps
<1>5. d \in Nat
  BY <1>4 DEF KindKept, KindOK
<1> HIDE DEF g, d
<1>6. /\ delivered' \in [FailureKinds -> Nat] /\ delivered'[k] = d
      /\ \A j \in FailureKinds \ {k} : delivered'[j] = delivered[j]
  BY <1>1, <1>3, <1>5
<1>7. /\ bridge'.failures = [bridge.failures EXCEPT ![k] = g]
      /\ bridge'.fates = bridge.fates /\ bridge'.accepted = bridge.accepted
      /\ bridge'.outstanding = bridge.outstanding
  BY <1>1, <1>3 DEF Bridges
<1>8. /\ \A j \in FailureKinds : KindKept(Failures(j), Failures(j)', delivered'[j])
      /\ bridge'.failures \in [FailureKinds -> FailureStates]
  BY <1>4, <1>6, <1>7, OneKindMoves
<1>9. bridge' \in Bridges
  <2>1. bridge' = [bridge EXCEPT !.failures = bridge'.failures]
    BY <1>1, <1>3, <1>7 DEF Bridges
  <2> QED
    BY <1>1, <1>8, <2>1, Zenon DEF Bridges
<1>10. observers' \in [FailureKinds -> [Observers -> ObserverStates]]
  <2>1. [o \in Observers |-> IF g.active THEN "running" ELSE "idle"] \in [Observers -> ObserverStates]
    BY DEF ObserverStates
  <2> QED
    BY <1>1, <1>3, <2>1, Zenon
<1>11. BridgeTypeOK'
  BY <1>1, <1>6, <1>9, <1>10 DEF BridgeTypeOK, ObserverStates
<1>12. QueueMoves /\ BarriersMove
  BY <1>1, <1>7 DEF QueueMoves, BarriersMove
<1> QED
  BY <1>8, <1>11, <1>12 DEF BridgeMoves

LEMMA BarrierMoves ==
  ASSUME BridgeInv, NEW owner \in Owners, NEW closes \in BOOLEAN, NEW canonical \in BOOLEAN,
         Barrier(owner, closes, canonical),
         observers' \in [FailureKinds -> [Observers -> ObserverStates]]
  PROVE  BridgeMoves
<1> DEFINE b == BarrierNow(owner)
           fs == [k \in FailureKinds |-> Seal(Failures(k))]
<1>1. /\ BridgeTypeOK /\ bridge \in Bridges /\ delivered' = delivered
      /\ delivered \in [FailureKinds -> Nat] /\ barriers \in Seq(Barriers)
      /\ barriers' = Append(barriers, b)
      /\ bridge' = [bridge EXCEPT !.failures = fs, !.closed = bridge.closed \/ closes,
                                  !.closing = bridge.closing \/ canonical]
  BY Zenon DEF BridgeInv, BridgeTypeOK, Barrier, BarrierNow
<1>2. /\ bridge.closed \in BOOLEAN /\ bridge.closing \in BOOLEAN
      /\ bridge.accepted \in Nat /\ Settled \in Nat
      /\ \A k \in FailureKinds : Len(Failures(k).counts) \in Nat
  BY <1>1, BridgeFields
<1>3. \A k \in FailureKinds : /\ KindKept(Failures(k), Seal(Failures(k)), delivered[k])
                              /\ Seal(Failures(k)).counts = Failures(k).counts
  BY SealKeeps DEF BridgeInv
<1>4. fs \in [FailureKinds -> FailureStates]
  <2>1. \A k \in FailureKinds : Seal(Failures(k)) \in FailureStates
    BY <1>3 DEF KindKept, KindOK
  <2> QED
    BY <2>1
<1>5. (bridge.closed \/ closes) \in BOOLEAN /\ (bridge.closing \/ canonical) \in BOOLEAN
  OBVIOUS
<1>6. \A k \in FailureKinds : fs[k] = Seal(Failures(k))
  OBVIOUS
<1> HIDE DEF fs
<1>7. /\ bridge' \in Bridges /\ bridge'.failures = fs
      /\ bridge'.fates = bridge.fates /\ bridge'.accepted = bridge.accepted
      /\ bridge'.outstanding = bridge.outstanding
  BY <1>1, <1>4, <1>5, Zenon DEF Bridges
<1>8. b \in Barriers
  <2>1. Refusals \in Nat
    BY <1>1, RefusalsAre
  <2>2. [k \in FailureKinds |-> Len(Failures(k).counts)] \in [FailureKinds -> Nat]
    BY <1>2
  <2> QED
    BY <1>2, <2>1, <2>2, Zenon DEF BarrierNow, Barriers
<1>9. barriers' \in Seq(Barriers)
  <2> HIDE DEF b
  <2> QED
    BY <1>1, <1>8
<1>10. \A k \in FailureKinds : Failures(k)' = Seal(Failures(k))
  BY <1>6, <1>7 DEF Failures
<1>11. \A k \in FailureKinds : KindKept(Failures(k), Failures(k)', delivered'[k])
  BY <1>1, <1>3, <1>10
<1>12. \A k \in FailureKinds : Failures(k)'.counts = Failures(k).counts
  BY <1>3, <1>10
<1>13. BarriersMove
  BY <1>1, <1>7, <1>12, Zenon DEF BarriersMove
<1>14. QueueMoves
  BY <1>7 DEF QueueMoves
<1>15. BridgeTypeOK'
  BY <1>1, <1>7, <1>9 DEF BridgeTypeOK, ObserverStates
<1> QED
  BY <1>11, <1>13, <1>14, <1>15 DEF BridgeMoves

LEMMA OnlyObserversMove ==
  ASSUME BridgeInv, UNCHANGED <<bridge, delivered, barriers>>,
         observers' \in [FailureKinds -> [Observers -> ObserverStates]]
  PROVE  BridgeMoves
<1>1. BridgeTypeOK'
  BY DEF BridgeInv, BridgeTypeOK, ObserverStates
<1>2. QueueMoves /\ BarriersMove
  BY DEF QueueMoves, BarriersMove
<1>3. \A k \in FailureKinds : KindKept(Failures(k), Failures(k)', delivered'[k])
  BY KindsStay
<1> QED
  BY <1>1, <1>2, <1>3 DEF BridgeMoves

LEMMA ObserverType ==
  ASSUME BridgeInv, NEW k \in FailureKinds, NEW o \in Observers, NEW x \in ObserverStates,
         observers' = [observers EXCEPT ![k][o] = x]
  PROVE  observers' \in [FailureKinds -> [Observers -> ObserverStates]]
<1>1. observers \in [FailureKinds -> [Observers -> ObserverStates]]
  BY DEF BridgeInv, BridgeTypeOK, ObserverStates
<1>2. observers' = [observers EXCEPT ![k] = [observers[k] EXCEPT ![o] = x]]
  BY Zenon
<1>3. [observers[k] EXCEPT ![o] = x] \in [Observers -> ObserverStates]
  BY <1>1
<1> QED
  BY <1>1, <1>2, <1>3, Zenon

LEMMA BridgeStepMoves ==
  ASSUME BridgeInv, BridgeStep \/ UNCHANGED bridgeVars
  PROVE  BridgeMoves
<1>1. observers \in [FailureKinds -> [Observers -> ObserverStates]]
  BY DEF BridgeInv, BridgeTypeOK, ObserverStates
<1>2. CASE BusEmits
  BY <1>2, BusEmitsMoves
<1>3. CASE Appends
  BY <1>3, AppendsMoves
<1>4. CASE Releases
  BY <1>4, ReleasesMoves
<1>5. CASE \E k \in FailureKinds : DeliverFirst(k) \/ BatchSettles(k)
  BY <1>5, DeliverMoves
<1>6. CASE \E k \in FailureKinds, o \in Observers : ObserverReturns(k, o) \/ ObserverResumes(k, o)
  <2>1. PICK k \in FailureKinds, o \in Observers : ObserverReturns(k, o) \/ ObserverResumes(k, o)
    BY <1>6
  <2>2. /\ observers' = [observers EXCEPT ![k][o] = "settled"]
        /\ UNCHANGED <<bridge, delivered, barriers>>
    BY <2>1, Zenon DEF ObserverReturns, ObserverResumes
  <2>3. "settled" \in ObserverStates
    BY DEF ObserverStates
  <2>4. observers' \in [FailureKinds -> [Observers -> ObserverStates]]
    BY <2>2, <2>3, ObserverType
  <2> QED
    BY <2>2, <2>4, OnlyObserversMove
<1>7. CASE Flush \/ Close
  <2>1. observers' \in [FailureKinds -> [Observers -> ObserverStates]]
    BY <1>1, <1>7 DEF Flush, Close
  <2>2. Nobody \in Owners /\ TRUE \in BOOLEAN /\ FALSE \in BOOLEAN
    BY DEF Owners
  <2>3. CASE Flush
    BY <2>1, <2>2, <2>3, BarrierMoves DEF Flush
  <2>4. CASE Close
    BY <2>1, <2>2, <2>4, BarrierMoves DEF Close
  <2> QED
    BY <1>7, <2>3, <2>4
<1>8. CASE \E k \in FailureKinds, o \in Observers : ObserverDrains(k, o)
  <2>1. PICK k \in FailureKinds, o \in Observers : ObserverDrains(k, o)
    BY <1>8
  <2> DEFINE owner == [kind |-> k, observer |-> o, batch |-> Failures(k).done + 1]
  <2>2. PICK closes \in BOOLEAN : Barrier(owner, closes, FALSE)
    BY <2>1, Zenon DEF ObserverDrains
  <2>3. observers' = [observers EXCEPT ![k][o] = "awaiting"]
    BY <2>1, Zenon DEF ObserverDrains
  <2>4. observers' \in [FailureKinds -> [Observers -> ObserverStates]]
    <3>1. "awaiting" \in ObserverStates
      BY DEF ObserverStates
    <3> QED
      BY <2>3, <3>1, ObserverType
  <2>5. owner \in Owners
    <3>1. Failures(k).done + 1 \in Nat
      <4>1. Failures(k).done \in Nat
        BY BridgeFields DEF BridgeInv
      <4> QED
        BY <4>1
    <3> QED
      BY <3>1, Zenon DEF Owners
  <2> HIDE DEF owner
  <2> QED
    BY <2>2, <2>4, <2>5, BarrierMoves
<1>9. CASE UNCHANGED bridgeVars
  BY <1>1, <1>9, OnlyObserversMove DEF bridgeVars
<1> QED
  BY <1>2, <1>3, <1>4, <1>5, <1>6, <1>7, <1>8, <1>9, Zenon DEF BridgeStep, BridgeRuns

\* The invariant implies what is promised of a barrier.
LEMMA BridgeCovers == BridgeInv => BarrierCovers
<1> SUFFICES ASSUME BridgeInv, NEW i \in DOMAIN barriers, External(i), Resolved(barriers[i])
             PROVE  /\ \A e \in 1..barriers[i].accepted :
                         bridge.fates[e] <= Failures("append").done
                    /\ delivered["overflow"] >= barriers[i].refused
  BY DEF BarrierCovers
<1> DEFINE b == barriers[i]
<1>1. /\ BridgeTypeOK /\ barriers \in Seq(Barriers) /\ delivered \in [FailureKinds -> Nat]
      /\ BarrierOK(b) /\ b.owner = Nobody
      /\ "append" \in FailureKinds /\ "overflow" \in FailureKinds
      /\ \A k \in FailureKinds : KindOK(Failures(k), delivered[k])
  BY DEF BridgeInv, BridgeTypeOK, External, FailureKinds
<1>2. b \in Barriers
  BY <1>1
<1>3. b.settled \in Nat /\ b.accepted \in Nat /\ b.batches \in [FailureKinds -> Nat]
      /\ b.refused \in Nat
  BY <1>2 DEF Barriers
<1>4. b.owner.kind = "none"
  BY <1>1 DEF Nobody
<1>5. \A k \in FailureKinds : Failures(k).done >= b.batches[k]
  <2>1. \A k \in FailureKinds : BatchesObserved(b, k) /\ b.owner.kind # k
    BY <1>4 DEF Resolved, FailureKinds
  <2> QED
    BY <2>1, Zenon DEF BatchesObserved
<1>6. /\ bridge.fates \in Seq(Nat) /\ Settled = Len(bridge.fates) /\ Settled \in Nat
      /\ \A k \in FailureKinds : /\ Failures(k) \in FailureStates
                                 /\ Failures(k).done \in Nat
  BY <1>1, BridgeFields DEF Settled
<1>7. ASSUME NEW e \in 1..b.accepted
      PROVE  bridge.fates[e] <= Failures("append").done
  <2>1. b.accepted <= Settled
    BY <1>3, <1>6 DEF Resolved
  <2>2. e \in 1..Len(bridge.fates) /\ bridge.fates[e] \in Nat
    BY <1>3, <1>6, <2>1
  <2>3. CASE e \in 1..b.settled
    <3>1. bridge.fates[e] <= b.batches["append"]
      BY <1>1, <2>3 DEF BarrierOK
    <3>2. Failures("append").done >= b.batches["append"] /\ Failures("append").done \in Nat
          /\ b.batches["append"] \in Nat
      BY <1>1, <1>3, <1>5, <1>6
    <3> QED
      BY <2>2, <3>1, <3>2
  <2>4. CASE e \in (b.settled + 1)..b.accepted
    <3>1. \/ bridge.fates[e] \in {0} \cup (IF b.owner.kind = "append" THEN {b.owner.batch} ELSE {})
          \/ bridge.fates[e] <= Failures("append").done
      BY <2>4 DEF Resolved, FailuresObserved
    <3>2. Failures("append").done \in Nat
      BY <1>1, <1>6
    <3> QED
      BY <1>4, <3>1, <3>2
  <2>5. e \in 1..b.settled \/ e \in (b.settled + 1)..b.accepted
    BY <1>3
  <2> QED
    BY <2>3, <2>4, <2>5
<1>8. delivered["overflow"] >= b.refused
  <2> DEFINE f == Failures("overflow")
             n == b.batches["overflow"]
  <2>1. /\ f \in FailureStates /\ f.done >= n /\ n \in Nat
        /\ KindOK(f, delivered["overflow"]) /\ delivered["overflow"] \in Nat
        /\ b.refused <= Totals(f.counts)[n]
    BY <1>1, <1>3, <1>5, <1>6 DEF BarrierOK
  <2> HIDE DEF f, n, b
  <2>2. /\ f.counts \in Seq(Nat) /\ Len(f.counts) \in Nat /\ f.done \in Nat
        /\ f.active \in BOOLEAN /\ f.sealed \in BOOLEAN
        /\ Dispatched(f) \in Nat
        /\ Dispatched(f) = f.done + (IF f.active THEN 1 ELSE 0)
    BY <2>1, FailureFields
  <2>3. /\ Dispatched(f) + (IF f.sealed THEN 1 ELSE 0) <= Len(f.counts)
        /\ delivered["overflow"] = Totals(f.counts)[Dispatched(f)]
    BY <2>1 DEF KindOK
  <2>4. n \in 0..Len(f.counts) /\ Dispatched(f) \in 0..Len(f.counts) /\ n <= Dispatched(f)
    BY <2>1, <2>2, <2>3
  <2>5. Totals(f.counts)[n] <= Totals(f.counts)[Dispatched(f)]
    BY <2>2, <2>4, TotalsAscend
  <2>6. Totals(f.counts)[n] \in Nat /\ Totals(f.counts)[Dispatched(f)] \in Nat
    BY <2>2, <2>4, TotalsOf
  <2> QED
    BY <1>3, <2>1, <2>3, <2>5, <2>6
<1> QED
  BY <1>7, <1>8

\* When a flush() or close() has resolved, every event accepted before it is
\* appended or its failure was observed to the end, and every event refused
\* before it was reported (createAgentEventPersistenceBridge), for every
\* capacity, any observers and any number of events and barriers.
THEOREM BarrierCoversHolds == Spec => []BarrierCovers
<1>1. Init => BridgeInv
  BY BridgeStarts DEF Init
<1>2. BridgeInv /\ [Next]_vars => BridgeInv'
  <2> SUFFICES ASSUME BridgeInv, [Next]_vars
               PROVE  BridgeInv'
    OBVIOUS
  <2>1. BridgeStep \/ UNCHANGED bridgeVars
    BY DEF Next, vars
  <2> QED
    BY <2>1, BridgeStepMoves, BridgePreserved
<1>3. BridgeInv => BarrierCovers
  BY BridgeCovers
<1> QED
  BY <1>1, <1>2, <1>3, PTL DEF Spec

-----------------------------------------------------------------------------
(* The requests of the tool loop.  Compression and its repair put          *)
(* conversations together with FlattenSeq(); Woven says where each message *)
(* of one comes from, Traced what compression leaves of a conversation     *)
(* whose calls are answered, and Sane, kept by every round, what makes it  *)
(* possible to repair: calls are answered, and none is made twice.         *)

(* The places of what FlattenSeq() puts together: out consists of the      *)
(* first n sequences of q, and its p-th element is the off[p]-th of the    *)
(* src[p]-th of them.                                                      *)

Woven(out, q, n, src, off) ==
  /\ \A p \in 1..Len(out) : /\ src[p] \in 1..n /\ off[p] \in 1..Len(q[src[p]])
                            /\ out[p] = q[src[p]][off[p]]
  /\ \A i \in 1..n : \A k \in 1..Len(q[i]) :
       \E p \in 1..Len(out) : src[p] = i /\ off[p] = k
  /\ \A p, r \in 1..Len(out) :
       p < r => src[p] < src[r] \/ (src[p] = src[r] /\ off[p] < off[r])

LEMMA WovenNext ==
  ASSUME NEW S, NEW q \in Seq(Seq(S)), NEW n \in Nat, n + 1 \in 1..Len(q),
         NEW out \in Seq(S), NEW src, NEW off, Woven(out, q, n, src, off)
  PROVE  \E s, o : Woven(out \o q[n + 1], q, n + 1, s, o)
<1> DEFINE a == Len(out)
           t == q[n + 1]
           new == out \o t
           s == [p \in 1..Len(new) |-> IF p <= a THEN src[p] ELSE n + 1]
           o == [p \in 1..Len(new) |-> IF p <= a THEN off[p] ELSE p - a]
<1>1. t \in Seq(S) /\ a \in Nat /\ Len(t) \in Nat
  OBVIOUS
<1>2. /\ Len(new) = a + Len(t)
      /\ \A p \in 1..a : new[p] = out[p]
      /\ \A p \in (a + 1)..(a + Len(t)) : new[p] = t[p - a] /\ p - a \in 1..Len(t)
  BY <1>1
<1>3. /\ \A p \in 1..a : p \in 1..Len(new) /\ s[p] = src[p] /\ o[p] = off[p]
      /\ \A p \in (a + 1)..(a + Len(t)) :
           p \in 1..Len(new) /\ s[p] = n + 1 /\ o[p] = p - a
      /\ \A p \in 1..Len(new) : p \in 1..a \/ p \in (a + 1)..(a + Len(t))
  BY <1>1, <1>2
<1>4. /\ \A p \in 1..a : /\ src[p] \in 1..n /\ off[p] \in 1..Len(q[src[p]])
                         /\ out[p] = q[src[p]][off[p]]
      /\ \A i \in 1..n : \A k \in 1..Len(q[i]) :
           \E p \in 1..a : src[p] = i /\ off[p] = k
      /\ \A p, r \in 1..a :
           p < r => src[p] < src[r] \/ (src[p] = src[r] /\ off[p] < off[r])
  BY DEF Woven
<1> HIDE DEF s, o, new, t, a
<1>5. ASSUME NEW p \in 1..Len(new)
      PROVE  /\ s[p] \in 1..(n + 1) /\ o[p] \in 1..Len(q[s[p]])
             /\ new[p] = q[s[p]][o[p]]
  <2>1. CASE p \in 1..a
    <3>1. src[p] \in 1..(n + 1)
      BY <1>4, <2>1
    <3> QED
      BY <1>2, <1>3, <1>4, <2>1, <3>1
  <2>2. CASE p \in (a + 1)..(a + Len(t))
    BY <1>2, <1>3, <2>2 DEF t
  <2> QED
    BY <1>3, <2>1, <2>2
<1>6. ASSUME NEW i \in 1..(n + 1), NEW k \in 1..Len(q[i])
      PROVE  \E p \in 1..Len(new) : s[p] = i /\ o[p] = k
  <2>1. CASE i \in 1..n
    <3>1. PICK p \in 1..a : src[p] = i /\ off[p] = k
      BY <1>4, <2>1
    <3> QED
      BY <1>3, <3>1
  <2>2. CASE i = n + 1
    <3>1. a + k \in (a + 1)..(a + Len(t)) /\ (a + k) - a = k
      BY <1>1, <2>2 DEF t
    <3> QED
      BY <1>3, <2>2, <3>1
  <2> QED
    BY <2>1, <2>2
<1>7. ASSUME NEW p \in 1..Len(new), NEW r \in 1..Len(new), p < r
      PROVE  s[p] < s[r] \/ (s[p] = s[r] /\ o[p] < o[r])
  <2>1. CASE p \in 1..a /\ r \in 1..a
    BY <1>3, <1>4, <1>7, <2>1
  <2>2. CASE p \in 1..a /\ r \in (a + 1)..(a + Len(t))
    <3>1. src[p] \in 1..n /\ s[p] = src[p] /\ s[r] = n + 1
      BY <1>3, <1>4, <2>2
    <3> QED
      BY <3>1
  <2>3. CASE p \in (a + 1)..(a + Len(t)) /\ r \in (a + 1)..(a + Len(t))
    <3>1. s[p] = n + 1 /\ s[r] = n + 1 /\ o[p] = p - a /\ o[r] = r - a
      BY <1>3, <2>3
    <3>2. p - a < r - a
      BY <1>1, <1>7, <2>3
    <3> QED
      BY <3>1, <3>2
  <2>4. ~(p \in (a + 1)..(a + Len(t)) /\ r \in 1..a)
    BY <1>1, <1>7
  <2> QED
    BY <1>3, <2>1, <2>2, <2>3, <2>4
<1>8. Woven(new, q, n + 1, s, o)
  BY <1>5, <1>6, <1>7 DEF Woven
<1> QED
  BY <1>8 DEF new, t

LEMMA FlattenWoven ==
  ASSUME NEW S, NEW q \in Seq(Seq(S))
  PROVE  \E src, off : Woven(FlattenSeq(q), q, Len(q), src, off)
<1>1. <<>> \in Seq(S) /\ Woven(<<>>, q, 0, <<>>, <<>>)
  BY DEF Woven
<1>2. CASE q = <<>>
  <2>1. FlattenSeq(q) = <<>> /\ Len(q) = 0
    BY <1>2 DEF FlattenSeq
  <2> QED
    BY <1>1, <2>1
<1>3. CASE q # <<>>
  <2>1. PICK f \in [1..Len(q) -> Seq(S)] :
           /\ f[1] = q[1]
           /\ \A i \in 2..Len(q) : f[i] = f[i - 1] \o q[i]
           /\ FlattenSeq(q) = f[Len(q)]
    BY <1>3, FlattenSteps
  <2> DEFINE T == {k \in 0..Len(q) : k = 0 \/ \E src, off : Woven(f[k], q, k, src, off)}
  <2>2. Len(q) \in Nat /\ Len(q) # 0 /\ 0 \in T
    BY <1>3
  <2>3. ASSUME NEW k \in 1..Len(q), k - 1 \in T
        PROVE  k \in T
    <3>1. k - 1 \in Nat /\ (k - 1) + 1 = k /\ k \in 0..Len(q) /\ q[k] \in Seq(S)
      OBVIOUS
    <3>2. CASE k = 1
      <4>0. 0 \in Nat /\ 0 + 1 \in 1..Len(q)
        BY <2>2
      <4>1. PICK s, o : Woven(<<>> \o q[0 + 1], q, 0 + 1, s, o)
        BY <1>1, <4>0, WovenNext
      <4>2. <<>> \o q[0 + 1] = f[k] /\ 0 + 1 = k
        BY <2>1, <3>1, <3>2
      <4> QED
        BY <3>1, <4>1, <4>2
    <3>3. CASE k # 1
      <4>1. k \in 2..Len(q) /\ k - 1 \in 1..Len(q) /\ k - 1 # 0
        BY <3>3
      <4>2. PICK src, off : Woven(f[k - 1], q, k - 1, src, off)
        BY <2>3, <4>1
      <4>3. f[k - 1] \in Seq(S) /\ f[k] = f[k - 1] \o q[k]
        BY <2>1, <4>1
      <4>4. PICK s, o : Woven(f[k - 1] \o q[(k - 1) + 1], q, (k - 1) + 1, s, o)
        BY <3>1, <4>2, <4>3, WovenNext
      <4> QED
        BY <3>1, <4>3, <4>4
    <3> QED
      BY <3>2, <3>3
  <2> HIDE DEF T
  <2>4. 0..Len(q) \subseteq T
    BY <2>2, <2>3, Induction
  <2>5. Len(q) \in T
    <3>1. Len(q) \in 0..Len(q)
      BY <2>2
    <3> QED
      BY <2>4, <3>1
  <2> QED
    BY <2>1, <2>2, <2>5 DEF T
<1> QED
  BY <1>2, <1>3

\* Elements stand in the order of their places, and no two have the same.
LEMMA WovenOrder ==
  ASSUME NEW out, NEW q, NEW n \in Nat, NEW src, NEW off, Woven(out, q, n, src, off),
         Len(out) \in Nat, \A i \in 1..n : Len(q[i]) \in Nat
  PROVE  \A p, r \in 1..Len(out) : /\ src[p] < src[r] => p < r
                                   /\ src[p] = src[r] /\ off[p] < off[r] => p < r
                                   /\ src[p] = src[r] /\ off[p] = off[r] => p = r
                                   /\ p <= r => src[p] <= src[r]
                                   /\ p < r /\ src[p] = src[r] => off[p] < off[r]
<1> SUFFICES ASSUME NEW p \in 1..Len(out), NEW r \in 1..Len(out)
             PROVE  /\ src[p] < src[r] => p < r
                    /\ src[p] = src[r] /\ off[p] < off[r] => p < r
                    /\ src[p] = src[r] /\ off[p] = off[r] => p = r
                    /\ p <= r => src[p] <= src[r]
                    /\ p < r /\ src[p] = src[r] => off[p] < off[r]
  BY Zenon
<1>1. /\ p < r => src[p] < src[r] \/ (src[p] = src[r] /\ off[p] < off[r])
      /\ r < p => src[r] < src[p] \/ (src[r] = src[p] /\ off[r] < off[p])
      /\ src[p] \in 1..n /\ src[r] \in 1..n
      /\ off[p] \in 1..Len(q[src[p]]) /\ off[r] \in 1..Len(q[src[r]])
  BY DEF Woven
<1>2. src[p] \in Int /\ src[r] \in Int /\ off[p] \in Int /\ off[r] \in Int
  BY <1>1
<1>3. p < r \/ r < p \/ p = r
  OBVIOUS
<1> QED
  BY <1>1, <1>2, <1>3

-----------------------------------------------------------------------------
(* Tool calls and their results.                                           *)

HeadAt(m, h, i) ==
  /\ h \in 1..i /\ m[h].role # "tool"
  /\ \A j \in (h + 1)..i : m[j].role = "tool"

LEMMA RunHeadUnique ==
  ASSUME NEW m \in Seq(Messages), NEW i \in 1..Len(m), NEW h, HeadAt(m, h, i)
  PROVE  RunHead(m, i) = h
<1> DEFINE g == RunHead(m, i)
<1>1. /\ g \in 1..i /\ (m[g].role # "tool" \/ g = 1)
      /\ \A j \in (g + 1)..i : m[j].role = "tool"
  BY RunHeadIs
<1>2. /\ h \in 1..i /\ m[h].role # "tool"
      /\ \A j \in (h + 1)..i : m[j].role = "tool"
  BY DEF HeadAt
<1> HIDE DEF g
<1>3. ~(g < h)
  BY <1>1, <1>2
<1>4. ~(h < g)
  BY <1>1, <1>2
<1>5. g = h
  BY <1>1, <1>2, <1>3, <1>4
<1> QED
  BY <1>5 DEF g

\* The run of tool messages behind h comes to an end.
LEMMA RunEndIs ==
  ASSUME NEW m \in Seq(Messages), NEW h \in 1..Len(m), m[h].role # "tool"
  PROVE  \E e \in h..Len(m) : HeadAt(m, h, e) /\ RunEnds(m, e)
<1> DEFINE T == {e \in h..Len(m) : RunEnds(m, e)}
<1>1. Len(m) \in T /\ T \subseteq Nat
  BY DEF RunEnds
<1>2. PICK e \in T : \A y \in T : e <= y
  <2> HIDE DEF T
  <2> QED
    BY <1>1, Least
<1>3. ASSUME NEW j \in (h + 1)..e
      PROVE  m[j].role = "tool"
  <2>1. j - 1 \in h..Len(m) /\ ~(e <= j - 1) /\ (j - 1) + 1 = j
    OBVIOUS
  <2>2. ~RunEnds(m, j - 1)
    BY <1>2, <2>1
  <2> QED
    BY <2>1, <2>2 DEF RunEnds
<1>4. HeadAt(m, h, e)
  BY <1>3 DEF HeadAt
<1> QED
  BY <1>4

Paired(m) == \A i \in DOMAIN m : Answered(m, i) /\ Asked(m, i)

\* No call is made twice.
Distinct(m) ==
  \A i, j \in DOMAIN m :
    m[i].role = "assistant" /\ m[j].role = "assistant" /\ i # j => m[i].ids \cap m[j].ids = {}

Calls(m) == Ids(m, "assistant")

\* The results of the calls there are follow them.
Traced(m) ==
  \A i \in DOMAIN m :
    m[i].role = "tool" /\ m[i].ids \cap Calls(m) # {} =>
      m[RunHead(m, i)].role = "assistant" /\ m[i].ids \subseteq m[RunHead(m, i)].ids

LEMMA IdsIs ==
  ASSUME NEW m, NEW role, NEW id
  PROVE  id \in Ids(m, role) <=> \E i \in DOMAIN m : m[i].role = role /\ id \in m[i].ids
BY DEF Ids

\* What compression leaves of a conversation that is paired.
LEMMA CompressedTraced ==
  ASSUME NEW m \in Seq(Messages), Paired(m), Distinct(m), NEW c \in Compressed(m)
  PROVE  Traced(c) /\ Distinct(c) /\ Calls(c) \subseteq Calls(m)
<1>1. PICK dropped : c = FlattenSeq([i \in DOMAIN m |-> IF i \in dropped THEN <<>> ELSE <<m[i]>>])
  BY DEF Compressed
<1> DEFINE q == [i \in DOMAIN m |-> IF i \in dropped THEN <<>> ELSE <<m[i]>>]
<1>2. DOMAIN m = 1..Len(m) /\ Len(m) \in Nat /\ \A i \in 1..Len(m) : m[i] \in Messages
  OBVIOUS
<1>3. q \in Seq(Seq(Messages)) /\ Len(q) = Len(m)
  <2>1. \A i \in 1..Len(m) : <<m[i]>> \in Seq(Messages) /\ <<>> \in Seq(Messages)
    BY <1>2
  <2> QED
    BY <1>2, <2>1
<1>4. \A i \in 1..Len(m) : \A k \in 1..Len(q[i]) : k = 1 /\ q[i][k] = m[i]
  <2> SUFFICES ASSUME NEW i \in 1..Len(m), NEW k \in 1..Len(q[i])
               PROVE  k = 1 /\ q[i][k] = m[i]
    OBVIOUS
  <2>1. q[i] = <<>> \/ q[i] = <<m[i]>>
    BY <1>2
  <2> HIDE DEF q
  <2>2. Len(<<>>) = 0 /\ Len(<<m[i]>>) = 1 /\ <<m[i]>>[1] = m[i]
    OBVIOUS
  <2>3. CASE q[i] = <<>>
    BY <2>2, <2>3
  <2>4. CASE q[i] = <<m[i]>>
    <3>1. k \in 1..1
      BY <2>2, <2>4
    <3> QED
      BY <2>2, <2>4, <3>1
  <2> QED
    BY <2>1, <2>3, <2>4
<1> HIDE DEF q
<1>5. PICK src, off : Woven(c, q, Len(q), src, off)
  BY <1>1, <1>3, FlattenWoven, Zenon DEF q
<1>6. c \in Seq(Messages) /\ DOMAIN c = 1..Len(c) /\ Len(c) \in Nat
  BY CompressedType
<1>7. \A p \in 1..Len(c) : /\ src[p] \in 1..Len(m) /\ off[p] = 1 /\ c[p] = m[src[p]]
  <2> SUFFICES ASSUME NEW p \in 1..Len(c)
               PROVE  src[p] \in 1..Len(m) /\ off[p] = 1 /\ c[p] = m[src[p]]
    OBVIOUS
  <2>1. /\ src[p] \in 1..Len(q) /\ off[p] \in 1..Len(q[src[p]])
        /\ c[p] = q[src[p]][off[p]]
    BY <1>5 DEF Woven
  <2>2. src[p] \in 1..Len(m)
    BY <1>3, <2>1
  <2> QED
    BY <1>4, <2>1, <2>2
<1>8. \A i \in 1..Len(q) : Len(q[i]) \in Nat
  BY <1>3
<1>9. \A p, r \in 1..Len(c) : /\ src[p] < src[r] => p < r
                              /\ p <= r => src[p] <= src[r]
                              /\ src[p] = src[r] => p = r
  <2> SUFFICES ASSUME NEW p \in 1..Len(c), NEW r \in 1..Len(c)
               PROVE  /\ src[p] < src[r] => p < r
                      /\ p <= r => src[p] <= src[r]
                      /\ src[p] = src[r] => p = r
    OBVIOUS
  <2>1. Len(q) \in Nat /\ off[p] = off[r]
    BY <1>3, <1>7
  <2> QED
    BY <1>5, <1>6, <1>8, <2>1, WovenOrder
<1>10. Distinct(c)
  BY <1>2, <1>6, <1>7, <1>9 DEF Distinct
<1>11. Calls(c) \subseteq Calls(m)
  <2> SUFFICES ASSUME NEW id \in Calls(c) PROVE id \in Calls(m)
    OBVIOUS
  <2>1. PICK p \in 1..Len(c) : c[p].role = "assistant" /\ id \in c[p].ids
    BY <1>6, IdsIs DEF Calls
  <2> QED
    BY <1>2, <1>7, <2>1, IdsIs DEF Calls
<1>12. ASSUME NEW j \in 1..Len(c), c[j].role = "tool", c[j].ids \cap Calls(c) # {}
       PROVE  c[RunHead(c, j)].role = "assistant" /\ c[j].ids \subseteq c[RunHead(c, j)].ids
  <2> DEFINE i == src[j]
             h == RunHead(m, i)
  <2>1. i \in 1..Len(m) /\ c[j] = m[i] /\ m[i].role = "tool"
    BY <1>7, <1>12
  <2>2. /\ h \in 1..i /\ h \in 1..Len(m)
        /\ \A x \in (h + 1)..i : m[x].role = "tool"
    BY <1>2, <2>1, RunHeadIs
  <2>3. m[i].ids \subseteq m[h].ids /\ m[h].role = "assistant"
    <3>1. Asked(m, i)
      BY <1>2, <2>1 DEF Paired
    <3> QED
      BY <2>1, <3>1 DEF Asked
  <2>4. PICK id : id \in c[j].ids /\ id \in Calls(c)
    BY <1>12
  <2>5. PICK p \in 1..Len(c) : c[p].role = "assistant" /\ id \in c[p].ids
    BY <1>6, <2>4, IdsIs DEF Calls
  <2> HIDE DEF h, i
  <2>6. src[p] = h
    BY <1>2, <1>7, <2>1, <2>2, <2>3, <2>4, <2>5 DEF Distinct
  <2>7. p < j
    <3>1. h # i
      BY <2>1, <2>3
    <3>2. src[p] < src[j]
      BY <2>1, <2>2, <2>6, <3>1 DEF i
    <3> QED
      BY <1>9, <3>2
  <2>8. ASSUME NEW x \in (p + 1)..j
        PROVE  c[x].role = "tool"
    <3>1. x \in 1..Len(c) /\ p <= x /\ x <= j /\ x # p
      BY <1>6
    <3>2. src[p] <= src[x] /\ src[x] <= src[j] /\ src[x] # src[p] /\ src[x] \in 1..Len(m)
      BY <1>7, <1>9, <3>1
    <3>3. src[x] \in (h + 1)..i
      BY <2>1, <2>2, <2>6, <3>2 DEF i
    <3> QED
      BY <1>7, <2>2, <3>1, <3>3
  <2>9. HeadAt(c, p, j)
    <3>1. p \in 1..j
      BY <2>7
    <3> QED
      BY <2>5, <2>8, <3>1 DEF HeadAt
  <2>10. RunHead(c, j) = p
    BY <1>6, <2>9, RunHeadUnique
  <2> QED
    BY <1>7, <2>1, <2>3, <2>5, <2>6, <2>10
<1> QED
  BY <1>6, <1>10, <1>11, <1>12 DEF Traced

LEMMA ResultsAre ==
  ASSUME NEW ids, IsFiniteSet(ids)
  PROVE  /\ Len(Results(ids)) \in Nat
         /\ \A k \in 1..Len(Results(ids)) : \E id \in ids : Results(ids)[k] = Result(id)
         /\ \A id \in ids : \E k \in 1..Len(Results(ids)) : Results(ids)[k] = Result(id)
<1> DEFINE S == {Result(id) : id \in ids}
<1>1. IsFiniteSet(S)
  <2> DEFINE f == [id \in ids |-> Result(id)]
  <2>1. f \in Surjection(ids, S)
    <3>1. f \in [ids -> S]
      OBVIOUS
    <3>2. \A x \in S : \E id \in ids : f[id] = x
      OBVIOUS
    <3> QED
      BY <3>1, <3>2, Zenon DEF Surjection
  <2> QED
    BY <2>1, FS_Surjection
<1>2. Results(ids) = SetToSeq(S)
  BY DEF Results
<1>3. \A id \in ids : Result(id) \in S
  OBVIOUS
<1>4. \A x \in S : \E id \in ids : x = Result(id)
  OBVIOUS
<1> HIDE DEF S
<1>5. /\ SetToSeq(S) \in Seq(S) /\ Len(SetToSeq(S)) = Cardinality(S)
      /\ Cardinality(S) \in Nat
      /\ \A x \in S : \E i \in 1..Cardinality(S) : SetToSeq(S)[i] = x
  BY <1>1, SetToSeqType
<1>6. \A k \in 1..Len(SetToSeq(S)) : SetToSeq(S)[k] \in S
  BY <1>5
<1>7. \A k \in 1..Len(SetToSeq(S)) : \E id \in ids : SetToSeq(S)[k] = Result(id)
  BY <1>4, <1>6
<1>8. \A id \in ids : \E k \in 1..Len(SetToSeq(S)) : SetToSeq(S)[k] = Result(id)
  BY <1>3, <1>5
<1> QED
  BY <1>2, <1>5, <1>7, <1>8

StubsOf(m, i) ==
  LET head == m[RunHead(m, i)] IN
  IF RunEnds(m, i) /\ head.role = "assistant"
  THEN Results(head.ids \ Ids(m, "tool")) ELSE <<>>

\* Sanitized(m, i) is what sanitizeToolPairs() makes of the i-th message.
Sanitized(m, i) == Kept(m, i) \o StubsOf(m, i)

IsKept(m, i) == m[i].role = "tool" => m[i].ids \cap Calls(m) # {}

\* A stub is made for the call id.
StubFor(m, i, id) ==
  /\ RunEnds(m, i) /\ m[RunHead(m, i)].role = "assistant"
  /\ id \in m[RunHead(m, i)].ids \ Ids(m, "tool")

LEMMA SanitizedIs ==
  ASSUME NEW m \in Seq(Messages), NEW i \in 1..Len(m)
  PROVE  /\ Sanitized(m, i) \in Seq(Messages)
         /\ \A k \in 1..Len(Sanitized(m, i)) :
              \/ k = 1 /\ IsKept(m, i) /\ Sanitized(m, i)[k] = m[i]
              \/ /\ IsKept(m, i) => k # 1
                 /\ \E id : StubFor(m, i, id) /\ Sanitized(m, i)[k] = Result(id)
         /\ IsKept(m, i) => 1 \in 1..Len(Sanitized(m, i)) /\ Sanitized(m, i)[1] = m[i]
         /\ \A id : StubFor(m, i, id) =>
              \E k \in 1..Len(Sanitized(m, i)) : Sanitized(m, i)[k] = Result(id)
<1> DEFINE head == m[RunHead(m, i)]
           ids == head.ids \ Ids(m, "tool")
           s == StubsOf(m, i)
           t == Kept(m, i)
<1>1. head \in Messages /\ m[i] \in Messages
  <2>1. RunHead(m, i) \in 1..Len(m)
    BY RunHeadIs
  <2> QED
    BY <2>1
<1>2. ids \in SUBSET CallIds /\ IsFiniteSet(ids)
  BY <1>1, MessageIds, FS_Subset
<1>3. /\ Len(Results(ids)) \in Nat /\ Results(ids) \in Seq(Messages)
      /\ \A k \in 1..Len(Results(ids)) : \E id \in ids : Results(ids)[k] = Result(id)
      /\ \A id \in ids : \E k \in 1..Len(Results(ids)) : Results(ids)[k] = Result(id)
  <2> HIDE DEF ids
  <2> QED
    BY <1>2, ResultsAre, ResultsType
<1>4. /\ s = IF RunEnds(m, i) /\ head.role = "assistant" THEN Results(ids) ELSE <<>>
      /\ \A id : StubFor(m, i, id) <=> RunEnds(m, i) /\ head.role = "assistant" /\ id \in ids
  BY Zenon DEF StubsOf, StubFor
<1>5. t = IF IsKept(m, i) THEN <<m[i]>> ELSE <<>>
  BY DEF Kept, IsKept, Calls
<1> HIDE DEF ids, head, s, t
<1>6. /\ s \in Seq(Messages) /\ Len(s) \in Nat
      /\ \A k \in 1..Len(s) : \E id : StubFor(m, i, id) /\ s[k] = Result(id)
      /\ \A id : StubFor(m, i, id) => \E k \in 1..Len(s) : s[k] = Result(id)
  <2>1. CASE RunEnds(m, i) /\ head.role = "assistant"
    BY <1>3, <1>4, <2>1
  <2>2. CASE ~(RunEnds(m, i) /\ head.role = "assistant")
    <3>1. s = <<>> /\ \A id : ~StubFor(m, i, id)
      BY <1>4, <2>2
    <3> QED
      BY <3>1
  <2> QED
    BY <2>1, <2>2
<1>7. t \in Seq(Messages)
  BY <1>1, <1>5
<1>8. Sanitized(m, i) = t \o s
  BY DEF Sanitized, s, t
<1> DEFINE w == t \o s
<1>9. /\ w \in Seq(Messages) /\ Len(w) = Len(t) + Len(s) /\ Len(t) \in Nat
      /\ \A k \in 1..Len(t) : w[k] = t[k]
      /\ \A k \in 1..Len(s) : w[Len(t) + k] = s[k]
  BY <1>6, <1>7
<1> HIDE DEF w
<1>10. /\ IsKept(m, i) => Len(t) = 1 /\ t[1] = m[i]
       /\ ~IsKept(m, i) => Len(t) = 0
  BY <1>1, <1>5
<1>11. ASSUME NEW k \in 1..Len(w)
       PROVE  \/ k = 1 /\ IsKept(m, i) /\ w[k] = m[i]
              \/ /\ IsKept(m, i) => k # 1
                 /\ \E id : StubFor(m, i, id) /\ w[k] = Result(id)
  <2>1. CASE k \in 1..Len(t)
    <3>1. CASE IsKept(m, i)
      <4>1. Len(t) = 1
        BY <1>10, <3>1
      <4>2. k \in 1..1
        BY <2>1, <4>1
      <4>3. k = 1
        BY <4>2
      <4> QED
        BY <1>9, <1>10, <2>1, <3>1, <4>3
    <3>2. CASE ~IsKept(m, i)
      <4>1. Len(t) = 0
        BY <1>10, <3>2
      <4> QED
        BY <2>1, <4>1
    <3> QED
      BY <3>1, <3>2
  <2>2. CASE k \notin 1..Len(t)
    <3>1. k - Len(t) \in 1..Len(s) /\ Len(t) + (k - Len(t)) = k
      BY <1>6, <1>9, <2>2
    <3>2. w[k] = s[k - Len(t)]
      BY <1>9, <3>1
    <3>3. IsKept(m, i) => k # 1
      <4>1. ASSUME Len(t) = 1
            PROVE  k # 1
        BY <2>2, <4>1
      <4> QED
        BY <1>10, <4>1
    <3> QED
      BY <1>6, <3>1, <3>2, <3>3
  <2> QED
    BY <2>1, <2>2
<1>12. IsKept(m, i) => 1 \in 1..Len(w) /\ w[1] = m[i]
  <2>1. ASSUME Len(t) = 1, t[1] = m[i]
        PROVE  1 \in 1..Len(w) /\ w[1] = m[i]
    <3>1. 1 \in 1..Len(t)
      BY <2>1
    <3> QED
      BY <1>6, <1>9, <2>1, <3>1
  <2> QED
    BY <1>10, <2>1
<1>13. ASSUME NEW id, StubFor(m, i, id)
       PROVE  \E k \in 1..Len(w) : w[k] = Result(id)
  <2>1. PICK k \in 1..Len(s) : s[k] = Result(id)
    BY <1>6, <1>13
  <2>2. Len(t) + k \in 1..Len(w)
    BY <1>6, <1>9, <2>1
  <2>3. w[Len(t) + k] = Result(id)
    BY <1>9, <2>1, Zenon
  <2> QED
    BY <2>2, <2>3
<1>14. Sanitized(m, i) = w
  BY <1>8 DEF w
<1> DEFINE Made(z) ==
             /\ z \in Seq(Messages)
             /\ \A k \in 1..Len(z) :
                  \/ k = 1 /\ IsKept(m, i) /\ z[k] = m[i]
                  \/ /\ IsKept(m, i) => k # 1
                     /\ \E id : StubFor(m, i, id) /\ z[k] = Result(id)
             /\ IsKept(m, i) => 1 \in 1..Len(z) /\ z[1] = m[i]
             /\ \A id : StubFor(m, i, id) => \E k \in 1..Len(z) : z[k] = Result(id)
<1>15. Made(w)
  BY <1>9, <1>11, <1>12, <1>13, Zenon
<1> HIDE DEF Made
<1>16. Made(Sanitized(m, i))
  BY <1>14, <1>15
<1> QED
  BY <1>16, Zenon DEF Made

\* sanitizeToolPairs() pairs what compression has left.
LEMMA SanitizedPaired ==
  ASSUME NEW c \in Seq(Messages), Traced(c), Distinct(c)
  PROVE  /\ Paired(sanitizeToolPairs(c)) /\ Distinct(sanitizeToolPairs(c))
         /\ Calls(sanitizeToolPairs(c)) \subseteq Calls(c)
<1> DEFINE q == [i \in DOMAIN c |-> Sanitized(c, i)]
           s == sanitizeToolPairs(c)
           n == Len(c)
<1>1. DOMAIN c = 1..n /\ n \in Nat /\ \A i \in 1..n : c[i] \in Messages
  OBVIOUS
<1>2. \A i \in 1..n : Sanitized(c, i) \in Seq(Messages)
  BY SanitizedIs
<1>3. q \in Seq(Seq(Messages)) /\ Len(q) = n /\ \A i \in 1..n : q[i] = Sanitized(c, i)
  BY <1>1, <1>2
<1>4. s = FlattenSeq(q)
  BY DEF sanitizeToolPairs, Sanitized, StubsOf
<1>5. s \in Seq(Messages) /\ DOMAIN s = 1..Len(s) /\ Len(s) \in Nat
  BY sanitizeType
<1> HIDE DEF q, s
<1>6. PICK src, off : Woven(s, q, n, src, off)
  BY <1>3, <1>4, FlattenWoven
<1> HIDE DEF n
<1> DEFINE IsStub(p) == /\ IsKept(c, src[p]) => off[p] # 1
                        /\ \E id : StubFor(c, src[p], id) /\ s[p] = Result(id)
           IsOld(p) == off[p] = 1 /\ IsKept(c, src[p]) /\ s[p] = c[src[p]]
           HeadOf(p) == RunHead(c, src[p])
<1>7. ASSUME NEW p \in 1..Len(s)
      PROVE  src[p] \in 1..n /\ off[p] \in Nat \ {0} /\ (IsOld(p) \/ IsStub(p))
  <2>1. src[p] \in 1..n /\ off[p] \in 1..Len(q[src[p]]) /\ s[p] = q[src[p]][off[p]]
    BY <1>6 DEF Woven
  <2>2. q[src[p]] = Sanitized(c, src[p])
    BY <1>3, <2>1
  <2>3. src[p] \in 1..Len(c)
    BY <2>1 DEF n
  <2>4. IsOld(p) \/ IsStub(p)
    BY <2>1, <2>2, <2>3, SanitizedIs
  <2> QED
    BY <2>1, <2>4
<1>8. ASSUME NEW i \in 1..n, IsKept(c, i)
      PROVE  \E p \in 1..Len(s) : src[p] = i /\ off[p] = 1 /\ s[p] = c[i]
  <2>1. 1 \in 1..Len(q[i]) /\ q[i][1] = c[i]
    BY <1>3, <1>8, SanitizedIs DEF n
  <2>2. PICK p \in 1..Len(s) : src[p] = i /\ off[p] = 1
    BY <1>6, <2>1 DEF Woven
  <2>3. s[p] = q[i][1]
    BY <1>6, <2>2 DEF Woven
  <2> QED
    BY <2>1, <2>2, <2>3
<1>9. ASSUME NEW i \in 1..n, NEW id, StubFor(c, i, id)
      PROVE  \E p \in 1..Len(s) : src[p] = i /\ s[p] = Result(id)
  <2>1. PICK k \in 1..Len(q[i]) : q[i][k] = Result(id)
    <3>1. i \in 1..Len(c) /\ q[i] = Sanitized(c, i)
      BY <1>3 DEF n
    <3>2. \A x : StubFor(c, i, x) =>
            \E k \in 1..Len(Sanitized(c, i)) : Sanitized(c, i)[k] = Result(x)
      BY <3>1, SanitizedIs
    <3>3. \E k \in 1..Len(Sanitized(c, i)) : Sanitized(c, i)[k] = Result(id)
      BY <1>9, <3>2, Zenon
    <3> QED
      BY <3>1, <3>3
  <2>2. PICK p \in 1..Len(s) : src[p] = i /\ off[p] = k
    BY <1>6, <2>1 DEF Woven
  <2>3. s[p] = q[i][k]
    BY <1>6, <2>2 DEF Woven
  <2> QED
    BY <2>1, <2>2, <2>3
<1>10. \A id : Result(id).role = "tool" /\ Result(id).ids = {id}
  BY DEF Result
<1>11. \A p \in 1..Len(s) : s[p].role # "tool" => IsOld(p)
  BY <1>7, <1>10
<1>12. \A p, r \in 1..Len(s) : /\ src[p] < src[r] => p < r
                               /\ src[p] = src[r] /\ off[p] < off[r] => p < r
                               /\ src[p] = src[r] /\ off[p] = off[r] => p = r
                               /\ p <= r => src[p] <= src[r]
                               /\ p < r /\ src[p] = src[r] => off[p] < off[r]
  <2>1. n \in Nat /\ \A i \in 1..n : Len(q[i]) \in Nat
    BY <1>1, <1>2, <1>3
  <2>2. Len(s) \in Nat
    BY <1>5
  <2> QED
    BY <1>6, <2>1, <2>2, WovenOrder
\* A result has a call before it, and only results in between.
<1>13. ASSUME NEW p \in 1..Len(s), s[p].role = "tool"
       PROVE  /\ HeadOf(p) \in 1..n /\ c[HeadOf(p)].role = "assistant"
              /\ s[p].ids \subseteq c[HeadOf(p)].ids
              /\ RunHead(s, p) \in 1..Len(s) /\ src[RunHead(s, p)] = HeadOf(p)
              /\ off[RunHead(s, p)] = 1 /\ s[RunHead(s, p)] = c[HeadOf(p)]
  <2> DEFINE i == src[p]
             h == HeadOf(p)
  <2>1. i \in 1..n /\ off[p] \in Nat \ {0}
    BY <1>7
  <2>2. /\ h \in 1..i /\ h \in 1..n
        /\ \A x \in (h + 1)..i : c[x].role = "tool"
    <3>1. i \in 1..Len(c)
      BY <2>1 DEF n
    <3>2. /\ h \in 1..i /\ \A x \in (h + 1)..i : c[x].role = "tool"
      BY <3>1, RunHeadIs
    <3> HIDE DEF h
    <3> QED
      BY <1>1, <2>1, <3>2
  <2>3. /\ c[h].role = "assistant" /\ s[p].ids \subseteq c[h].ids
        /\ IsOld(p) => h # i
    <3>1. CASE IsOld(p)
      <4>1. c[i].role = "tool" /\ s[p] = c[i] /\ c[i].ids \cap Calls(c) # {}
        BY <1>13, <3>1 DEF IsKept
      <4>2. c[h].role = "assistant" /\ c[i].ids \subseteq c[h].ids
        BY <1>1, <2>1, <4>1 DEF Traced
      <4> QED
        BY <4>1, <4>2
    <3>2. CASE ~IsOld(p) /\ IsStub(p)
      <4>1. PICK id : StubFor(c, i, id) /\ s[p] = Result(id)
        BY <3>2
      <4> QED
        BY <1>10, <3>2, <4>1 DEF StubFor
    <3> QED
      BY <1>7, <3>1, <3>2
  <2> HIDE DEF h, i, IsOld, IsStub
  <2>4. PICK b \in 1..Len(s) : src[b] = h /\ off[b] = 1 /\ s[b] = c[h]
    <3>1. IsKept(c, h)
      BY <2>3 DEF IsKept
    <3> QED
      BY <1>8, <2>2, <3>1
  <2>5. b < p
    <3>1. CASE h = i
      <4>1. IsKept(c, i)
        BY <2>3, <3>1 DEF IsKept
      <4>2. IsStub(p)
        BY <1>7, <2>3, <3>1
      <4>3. off[p] # 1
        BY <4>1, <4>2 DEF IsStub, i
      <4>4. src[b] = src[p] /\ off[b] < off[p]
        BY <2>1, <2>4, <3>1, <4>3 DEF i
      <4> QED
        BY <1>12, <4>4
    <3>2. CASE h # i
      <4>1. src[b] < src[p]
        BY <2>1, <2>2, <2>4, <3>2 DEF i
      <4> QED
        BY <1>12, <4>1
    <3> QED
      BY <3>1, <3>2
  <2>6. ASSUME NEW x \in (b + 1)..p
        PROVE  s[x].role = "tool"
    <3>1. x \in 1..Len(s) /\ b < x /\ b <= x /\ x <= p
      BY <1>5
    <3>2. src[b] <= src[x] /\ src[x] <= src[p] /\ src[x] \in 1..n
      BY <1>7, <1>12, <3>1
    <3>3. CASE IsStub(x)
      BY <1>10, <3>3 DEF IsStub
    <3>4. CASE IsOld(x)
      <4>1. src[x] # h
        <5>1. ASSUME src[x] = h
              PROVE  FALSE
          <6>1. off[b] < off[x]
            BY <1>12, <2>4, <3>1, <5>1
          <6> QED
            BY <2>4, <3>4, <6>1 DEF IsOld
        <5> QED
          BY <5>1
      <4>2. src[x] \in (h + 1)..i
        BY <2>1, <2>2, <2>4, <3>2, <4>1 DEF i
      <4> QED
        BY <2>2, <3>4, <4>2 DEF IsOld
    <3> QED
      BY <1>7, <3>1, <3>3, <3>4
  <2>7. RunHead(s, p) = b
    <3>1. HeadAt(s, b, p)
      <4>1. b \in 1..p
        BY <2>5
      <4> QED
        BY <2>3, <2>4, <2>6, <4>1 DEF HeadAt
    <3> QED
      BY <1>5, <3>1, RunHeadUnique
  <2> QED
    BY <2>2, <2>3, <2>4, <2>7 DEF h
<1> HIDE DEF IsStub
<1>14. ASSUME NEW p \in 1..Len(s)
       PROVE  Asked(s, p)
  BY <1>13 DEF Asked
<1>15. ASSUME NEW p \in 1..Len(s), s[p].role = "assistant"
       PROVE  s[p].ids = UNION {s[j].ids : j \in {x \in (p + 1)..Len(s) : RunHead(s, x) = p}}
  <2> DEFINE i == src[p]
             run == {x \in (p + 1)..Len(s) : RunHead(s, x) = p}
  <2>1. i \in 1..n /\ off[p] = 1 /\ s[p] = c[i] /\ c[i].role = "assistant"
    BY <1>7, <1>11, <1>15
  <2>2. ASSUME NEW j \in 1..Len(s), s[j].role = "tool", HeadOf(j) = i
        PROVE  j \in run
    <3>1. src[RunHead(s, j)] = i /\ off[RunHead(s, j)] = 1 /\ RunHead(s, j) \in 1..Len(s)
      BY <1>13, <2>2
    <3>2. RunHead(s, j) = p
      BY <1>12, <2>1, <3>1
    <3>3. RunHead(s, j) \in 1..j
      BY <1>5, RunHeadIs
    <3>4. j # p
      BY <1>15, <2>2
    <3> QED
      BY <1>5, <3>2, <3>3, <3>4
  <2>3. ASSUME NEW j \in run
        PROVE  s[j].ids \subseteq s[p].ids
    <3>1. j \in 1..Len(s) /\ j \in (p + 1)..j /\ RunHead(s, j) = p
      BY <1>5
    <3>2. \A x \in (RunHead(s, j) + 1)..j : s[x].role = "tool"
      BY <1>5, <3>1, RunHeadIs
    <3>3. s[j].role = "tool"
      BY <3>1, <3>2
    <3> QED
      BY <1>13, <3>1, <3>3
  <2>4. ASSUME NEW id \in s[p].ids
        PROVE  \E j \in run : id \in s[j].ids
    <3>1. id \in c[i].ids /\ id \in Calls(c)
      BY <1>1, <2>1, IdsIs DEF Calls
    <3>2. CASE id \in Ids(c, "tool")
      <4>1. PICK t \in 1..n : c[t].role = "tool" /\ id \in c[t].ids
        BY <1>1, <3>2, IdsIs
      <4>2. c[RunHead(c, t)].role = "assistant" /\ id \in c[RunHead(c, t)].ids
        BY <1>1, <3>1, <4>1 DEF Traced
      <4>3. RunHead(c, t) \in 1..n
        <5>1. RunHead(c, t) \in 1..t
          BY <4>1, RunHeadIs DEF n
        <5> QED
          BY <1>1, <4>1, <5>1
      <4>4. RunHead(c, t) = i
        BY <1>1, <2>1, <3>1, <4>2, <4>3 DEF Distinct
      <4>5. IsKept(c, t)
        BY <3>1, <4>1 DEF IsKept
      <4>6. PICK j \in 1..Len(s) : src[j] = t /\ s[j] = c[t]
        BY <1>8, <4>1, <4>5
      <4>7. j \in run
        BY <2>2, <4>1, <4>4, <4>6
      <4> QED
        BY <4>1, <4>6, <4>7
    <3>3. CASE id \notin Ids(c, "tool")
      <4>1. PICK e \in i..n : HeadAt(c, i, e) /\ RunEnds(c, e)
        BY <1>1, <2>1, RunEndIs DEF n
      <4>2. e \in 1..n /\ e \in 1..Len(c)
        BY <1>1, <2>1 DEF n
      <4>3. RunHead(c, e) = i
        BY <4>1, <4>2, RunHeadUnique
      <4>4. StubFor(c, e, id)
        BY <2>1, <3>1, <3>3, <4>1, <4>3 DEF StubFor
      <4>5. PICK j \in 1..Len(s) : src[j] = e /\ s[j] = Result(id)
        BY <1>9, <4>2, <4>4
      <4>6. j \in run /\ id \in s[j].ids
        BY <1>10, <2>2, <4>3, <4>5
      <4> QED
        BY <4>6
    <3> QED
      BY <3>2, <3>3
  <2>5. s[p].ids = UNION {s[j].ids : j \in run}
    <3> HIDE DEF run
    <3> QED
      BY <2>3, <2>4
  <2> QED
    BY <2>5
<1>16. ASSUME NEW p \in 1..Len(s)
       PROVE  Answered(s, p)
  BY <1>15 DEF Answered
<1>17. Distinct(s)
  <2> SUFFICES ASSUME NEW p \in 1..Len(s), NEW r \in 1..Len(s), p # r,
                      s[p].role = "assistant", s[r].role = "assistant"
               PROVE  s[p].ids \cap s[r].ids = {}
    BY <1>5 DEF Distinct
  <2>1. /\ off[p] = 1 /\ s[p] = c[src[p]] /\ src[p] \in 1..n
        /\ off[r] = 1 /\ s[r] = c[src[r]] /\ src[r] \in 1..n
    BY <1>7, <1>11
  <2>2. src[p] # src[r]
    BY <1>12, <2>1
  <2> QED
    BY <1>1, <2>1, <2>2 DEF Distinct
<1>18. Calls(s) \subseteq Calls(c)
  <2> SUFFICES ASSUME NEW id \in Calls(s) PROVE id \in Calls(c)
    OBVIOUS
  <2>1. PICK p \in 1..Len(s) : s[p].role = "assistant" /\ id \in s[p].ids
    BY <1>5, IdsIs DEF Calls
  <2>2. s[p] = c[src[p]] /\ src[p] \in 1..n
    BY <1>7, <1>11, <2>1
  <2> QED
    BY <1>1, <2>1, <2>2, IdsIs DEF Calls
<1>19. Paired(s)
  BY <1>5, <1>14, <1>16 DEF Paired
<1> QED
  BY <1>17, <1>18, <1>19 DEF s

\* A round is paired as well: the message that makes the calls ids, and what
\* the tools have returned.
LEMMA RoundPaired ==
  ASSUME NEW m \in Seq(Messages), Paired(m), Distinct(m),
         NEW ids \in SUBSET CallIds, IsFiniteSet(ids), Assistant(ids) \in Messages,
         ids \cap Calls(m) = {}
  PROVE  LET t == Append(m, Assistant(ids)) \o Results(ids) IN
         Paired(t) /\ Distinct(t) /\ Calls(t) = Calls(m) \cup ids
<1> DEFINE a == Len(m)
           r == Results(ids)
           t == Append(m, Assistant(ids)) \o r
<1>1. /\ a \in Nat /\ DOMAIN m = 1..a /\ r \in Seq(Messages) /\ Len(r) \in Nat
      /\ \A k \in 1..Len(r) : \E id \in ids : r[k] = Result(id)
      /\ \A id \in ids : \E k \in 1..Len(r) : r[k] = Result(id)
  BY ResultsAre, ResultsType
<1>2. /\ t \in Seq(Messages) /\ Len(t) = (a + 1) + Len(r) /\ DOMAIN t = 1..Len(t)
      /\ \A i \in 1..a : t[i] = m[i]
      /\ t[a + 1] = Assistant(ids)
      /\ \A k \in 1..Len(r) : t[(a + 1) + k] = r[k]
  <2> DEFINE h == Append(m, Assistant(ids))
  <2>1. /\ h \in Seq(Messages) /\ Len(h) = a + 1 /\ h[a + 1] = Assistant(ids)
        /\ \A i \in 1..a : h[i] = m[i]
    OBVIOUS
  <2> HIDE DEF h, r
  <2>r. r \in Seq(Messages)
    BY <1>1
  <2>h. h \in Seq(Messages)
    BY <2>1
  <2>2. /\ h \o r \in Seq(Messages) /\ Len(h \o r) = Len(h) + Len(r)
        /\ \A i \in 1..Len(h) : (h \o r)[i] = h[i]
        /\ \A k \in 1..Len(r) : (h \o r)[Len(h) + k] = r[k]
    BY <2>r, <2>h, Concatenated
  <2>3. t = h \o r
    BY DEF h
  <2> HIDE DEF t, a
  <2>4. a + 1 \in 1..Len(h) /\ \A i \in 1..a : i \in 1..Len(h)
    BY <1>1, <2>1
  <2>5. t \in Seq(Messages) /\ Len(t) = (a + 1) + Len(r)
    BY <2>1, <2>2, <2>3, Zenon
  <2>6. DOMAIN t = 1..Len(t)
    BY <2>5
  <2>7. (\A i \in 1..a : t[i] = m[i]) /\ t[a + 1] = Assistant(ids)
    BY <2>1, <2>2, <2>3, <2>4, Zenon
  <2>8. \A k \in 1..Len(r) : t[(a + 1) + k] = r[k]
    BY <2>1, <2>2, <2>3, Zenon
  <2> QED
    BY <2>5, <2>6, <2>7, <2>8, Zenon
<1> HIDE DEF t, a, r
<1>3. /\ Assistant(ids).role = "assistant" /\ Assistant(ids).ids = ids
      /\ \A id : Result(id).role = "tool" /\ Result(id).ids = {id}
  BY DEF Assistant, Result
<1>4. \A i \in 1..Len(t) : i \in 1..a \/ i = a + 1 \/ i \in (a + 2)..Len(t)
  BY <1>1, <1>2
<1>5. /\ \A i \in 1..a : i \in 1..Len(t)
      /\ a + 1 \in 1..Len(t) /\ \A i \in (a + 2)..Len(t) : i \in 1..Len(t)
  BY <1>1, <1>2
<1>6. ASSUME NEW i \in (a + 2)..Len(t)
      PROVE  \E id \in ids : t[i] = Result(id)
  <2>1. i - (a + 1) \in 1..Len(r) /\ (a + 1) + (i - (a + 1)) = i
    BY <1>1, <1>2
  <2> QED
    BY <1>1, <1>2, <2>1
<1>7. ASSUME NEW id \in ids
      PROVE  \E i \in (a + 2)..Len(t) : t[i] = Result(id)
  <2>1. PICK k \in 1..Len(r) : r[k] = Result(id)
    BY <1>1
  <2>2. (a + 1) + k \in (a + 2)..Len(t)
    BY <1>1, <1>2
  <2> QED
    BY <1>2, <2>1, <2>2
<1>8. ASSUME NEW i \in 1..a
      PROVE  RunHead(t, i) = RunHead(m, i) /\ RunHead(t, i) \in 1..a
  <2>1. i \in 1..Len(m) /\ i \in 1..Len(t)
    BY <1>5 DEF a
  <2> DEFINE h == RunHead(m, i)
  <2>2. h \in 1..i /\ \A j \in (h + 1)..i : m[j].role = "tool"
    BY <2>1, RunHeadIs
  <2>3. m[h].role # "tool"
    <3>1. CASE m[i].role = "tool"
      <4>1. Asked(m, i)
        BY <1>1 DEF Paired
      <4> QED
        BY <3>1, <4>1 DEF Asked
    <3>2. CASE m[i].role # "tool"
      <4>1. HeadAt(m, i, i)
        BY <2>1, <3>2 DEF HeadAt
      <4>2. h = i
        BY <2>1, <4>1, RunHeadUnique
      <4> QED
        BY <3>2, <4>2
    <3> QED
      BY <3>1, <3>2
  <2> HIDE DEF h
  <2>4. h \in 1..a /\ \A j \in (h + 1)..i : j \in 1..a
    BY <1>1, <2>2
  <2>5. HeadAt(t, h, i)
    BY <1>2, <2>2, <2>3, <2>4 DEF HeadAt
  <2>6. RunHead(t, i) = h
    BY <1>2, <2>1, <2>5, RunHeadUnique
  <2> QED
    BY <2>4, <2>6 DEF h
<1>9. ASSUME NEW i \in (a + 1)..Len(t)
      PROVE  RunHead(t, i) = a + 1
  <2>1. i \in 1..Len(t) /\ a + 1 \in 1..i
    BY <1>1, <1>2
  <2>2. \A j \in ((a + 1) + 1)..i : j \in (a + 2)..Len(t)
    BY <1>1, <1>2
  <2>3. \A j \in ((a + 1) + 1)..i : t[j].role = "tool"
    BY <1>3, <1>6, <2>2
  <2>4. HeadAt(t, a + 1, i)
    BY <1>2, <1>3, <2>1, <2>3 DEF HeadAt
  <2> QED
    BY <1>2, <2>1, <2>4, RunHeadUnique
<1>10. ASSUME NEW i \in 1..Len(t)
       PROVE  Asked(t, i)
  <2>1. CASE i \in 1..a
    <3>1. Asked(m, i) /\ t[i] = m[i] /\ RunHead(t, i) = RunHead(m, i)
      BY <1>1, <1>2, <1>8, <2>1 DEF Paired
    <3>2. t[RunHead(t, i)] = m[RunHead(m, i)]
      BY <1>2, <1>8, <2>1
    <3> QED
      BY <3>1, <3>2 DEF Asked
  <2>2. CASE i = a + 1
    BY <1>2, <1>3, <2>2 DEF Asked
  <2>3. CASE i \in (a + 2)..Len(t)
    <3>1. PICK id \in ids : t[i] = Result(id)
      BY <1>6, <2>3
    <3>2. i \in (a + 1)..Len(t)
      BY <1>1, <2>3
    <3>3. RunHead(t, i) = a + 1
      BY <1>9, <3>2
    <3> QED
      BY <1>2, <1>3, <3>1, <3>3 DEF Asked
  <2> QED
    BY <1>4, <2>1, <2>2, <2>3
<1>11. ASSUME NEW i \in 1..Len(t)
       PROVE  Answered(t, i)
  <2> DEFINE run == {j \in (i + 1)..Len(t) : RunHead(t, j) = i}
  <2>1. CASE i \in 1..a
    <3> DEFINE old == {j \in (i + 1)..a : RunHead(m, j) = i}
    <3>1. Answered(m, i) /\ t[i] = m[i]
      BY <1>1, <1>2, <2>1 DEF Paired
    <3>2. m[i].role = "assistant" => m[i].ids = UNION {m[j].ids : j \in old}
      BY <3>1 DEF Answered, a
    <3>3. run = old
      <4>1. ASSUME NEW j \in run
            PROVE  j \in old
        <5>1. j \in (i + 1)..Len(t) /\ RunHead(t, j) = i
          OBVIOUS
        <5>2. j \in 1..a \/ j \in (a + 1)..Len(t)
          BY <1>1, <1>2, <2>1, <5>1
        <5>3. j \notin (a + 1)..Len(t)
          BY <1>1, <1>9, <2>1, <5>1
        <5>4. RunHead(m, j) = i /\ j \in (i + 1)..a
          BY <1>1, <1>8, <2>1, <5>1, <5>2, <5>3
        <5> QED
          BY <5>4
      <4>2. ASSUME NEW j \in old
            PROVE  j \in run
        <5>1. j \in 1..a /\ j \in (i + 1)..Len(t)
          BY <1>1, <1>2, <2>1
        <5> QED
          BY <1>8, <5>1
      <4> HIDE DEF run, old
      <4> QED
        BY <4>1, <4>2
    <3>4. \A j \in old : t[j] = m[j]
      BY <1>1, <1>2, <2>1
    <3> HIDE DEF run, old
    <3>5. t[i].role = "assistant" => t[i].ids = UNION {t[j].ids : j \in run}
      BY <3>1, <3>2, <3>3, <3>4
    <3> QED
      BY <3>5 DEF Answered, run
  <2>2. CASE i = a + 1
    <3>1. ASSUME NEW id \in ids
          PROVE  \E j \in run : id \in t[j].ids
      <4>1. PICK j \in (a + 2)..Len(t) : t[j] = Result(id)
        BY <1>7
      <4>2. j \in (i + 1)..Len(t) /\ j \in (a + 1)..Len(t)
        BY <1>1, <2>2
      <4>3. j \in run
        BY <1>9, <2>2, <4>2
      <4> QED
        BY <1>3, <4>1, <4>3
    <3>2. ASSUME NEW j \in run
          PROVE  t[j].ids \subseteq ids
      <4>1. j \in (a + 2)..Len(t)
        BY <1>1, <2>2
      <4>2. PICK id \in ids : t[j] = Result(id)
        BY <1>6, <4>1
      <4> QED
        BY <1>3, <4>2
    <3>3. t[i].ids = ids
      BY <1>2, <1>3, <2>2
    <3> HIDE DEF run
    <3>4. t[i].ids = UNION {t[j].ids : j \in run}
      BY <3>1, <3>2, <3>3
    <3> QED
      BY <3>4 DEF Answered, run
  <2>3. CASE i \in (a + 2)..Len(t)
    BY <1>3, <1>6, <2>3 DEF Answered
  <2> QED
    BY <1>4, <2>1, <2>2, <2>3
<1>12. \A i \in 1..Len(t) : t[i].role = "assistant" => i \in 1..a \/ i = a + 1
  BY <1>3, <1>4, <1>6
<1>13. \A i \in 1..a : m[i].role = "assistant" => m[i].ids \subseteq Calls(m)
  BY <1>1, IdsIs DEF Calls
<1>14. Distinct(t)
  <2> SUFFICES ASSUME NEW i \in 1..Len(t), NEW j \in 1..Len(t), i # j,
                      t[i].role = "assistant", t[j].role = "assistant"
               PROVE  t[i].ids \cap t[j].ids = {}
    BY <1>2 DEF Distinct
  <2>1. CASE i \in 1..a /\ j \in 1..a
    BY <1>1, <1>2, <2>1 DEF Distinct
  <2>2. CASE i \in 1..a /\ j = a + 1
    BY <1>2, <1>3, <1>13, <2>2
  <2>3. CASE i = a + 1 /\ j \in 1..a
    BY <1>2, <1>3, <1>13, <2>3
  <2> QED
    BY <1>12, <2>1, <2>2, <2>3
<1>15. Calls(t) = Calls(m) \cup ids
  <2>1. ASSUME NEW id \in Calls(t)
        PROVE  id \in Calls(m) \cup ids
    <3>1. PICK i \in 1..Len(t) : t[i].role = "assistant" /\ id \in t[i].ids
      BY <1>2, <2>1, IdsIs DEF Calls
    <3> QED
      BY <1>2, <1>3, <1>12, <1>13, <3>1
  <2>2. ASSUME NEW id \in Calls(m)
        PROVE  id \in Calls(t)
    <3>1. PICK i \in 1..a : m[i].role = "assistant" /\ id \in m[i].ids
      BY <1>1, <2>2, IdsIs DEF Calls
    <3>2. i \in DOMAIN t /\ t[i].role = "assistant" /\ id \in t[i].ids
      BY <1>2, <1>5, <3>1
    <3> QED
      BY <3>2, IdsIs, Zenon DEF Calls
  <2>3. ids \subseteq Calls(t)
    <3>1. a + 1 \in 1..Len(t)
      BY <1>1, <1>2
    <3>2. t[a + 1].role = "assistant" /\ t[a + 1].ids = ids
      BY <1>2, <1>3, Zenon
    <3> QED
      BY <1>2, <3>1, <3>2, IdsIs, Zenon DEF Calls
  <2> QED
    BY <2>1, <2>2, <2>3
<1>16. Paired(t)
  BY <1>2, <1>10, <1>11 DEF Paired
<1> QED
  BY <1>14, <1>15, <1>16 DEF t, r

-----------------------------------------------------------------------------
(* What the loop says.                                                     *)

\* No call of a round behind r has been made.
Fresh(m, r) == \A x, k \in Nat : <<x, k>> \in Calls(m) => x <= r

Sane(m, r) == Paired(m) /\ Distinct(m) /\ Fresh(m, r)

AskedIn(r, n) == {<<r + 1, k>> : k \in 1..n}

\* The last message has called n tools, which have not returned.
Asking(m, n) ==
  Sane(m, loop.round) /\ loop.messages = Append(m, Assistant(AskedIn(loop.round, n)))

LoopOK ==
  kind = "inference" =>
    /\ Sane(loop.initial, 0)
    /\ pc \in {"requesting", "consuming"} => Sane(loop.messages, loop.round)
    /\ pc = "tools" => \E m \in Seq(Messages), n \in Nat : Asking(m, n)

\* What one round leaves to the next.
LEMMA RoundSane ==
  ASSUME NEW m \in Seq(Messages), NEW r \in Nat, NEW n \in Nat, Sane(m, r)
  PROVE  LET ids == AskedIn(r, n) IN
         Sane(Append(m, Assistant(ids)) \o Results(ids), r + 1)
<1> DEFINE ids == AskedIn(r, n)
           t == Append(m, Assistant(ids)) \o Results(ids)
<1>1. Assistant(ids) \in Messages
  BY AskedType DEF AskedIn
<1>2. ids \in SUBSET CallIds
  <2>1. ids \subseteq LoopIds
    BY DEF AskedIn, LoopIds
  <2> QED
    BY <2>1, Zenon DEF CallIds
<1>3. IsFiniteSet(ids)
  <2>1. Assistant(ids).ids = ids
    BY DEF Assistant
  <2> HIDE DEF ids
  <2> QED
    BY <1>1, <2>1, MessageIds
<1>4. ids \cap Calls(m) = {}
  <2> SUFFICES ASSUME NEW id \in ids, id \in Calls(m) PROVE FALSE
    OBVIOUS
  <2>1. PICK k \in 1..n : id = <<r + 1, k>>
    BY DEF AskedIn
  <2>2. r + 1 \in Nat /\ k \in Nat
    OBVIOUS
  <2>3. r + 1 <= r
    BY <2>1, <2>2 DEF Sane, Fresh
  <2> QED
    BY <2>3
<1>5. ASSUME NEW x \in Nat, NEW k \in Nat, <<x, k>> \in Calls(m) \cup ids
      PROVE  x <= r + 1
  <2>1. CASE <<x, k>> \in Calls(m)
    <3>1. x <= r
      BY <2>1 DEF Sane, Fresh
    <3> QED
      BY <3>1
  <2>2. CASE <<x, k>> \in ids
    <3>1. x = r + 1
      BY <2>2 DEF AskedIn
    <3> QED
      BY <3>1
  <2> QED
    BY <1>5, <2>1, <2>2
<1> HIDE DEF ids
<1>6. Paired(t) /\ Distinct(t) /\ Calls(t) = Calls(m) \cup ids
  BY <1>1, <1>2, <1>3, <1>4, RoundPaired DEF Sane
<1> HIDE DEF t
<1>7. Sane(t, r + 1)
  BY <1>5, <1>6 DEF Sane, Fresh
<1> QED
  BY <1>7 DEF t, ids

LEMMA SanitizedSane ==
  ASSUME NEW m \in Seq(Messages), NEW r \in Nat, Sane(m, r), NEW c \in Compressed(m)
  PROVE  Sane(sanitizeToolPairs(c), r)
<1>1. c \in Seq(Messages) /\ Traced(c) /\ Distinct(c) /\ Calls(c) \subseteq Calls(m)
  BY CompressedType, CompressedTraced DEF Sane
<1>2. /\ Paired(sanitizeToolPairs(c)) /\ Distinct(sanitizeToolPairs(c))
      /\ Calls(sanitizeToolPairs(c)) \subseteq Calls(c)
  BY <1>1, SanitizedPaired
<1>3. Fresh(sanitizeToolPairs(c), r)
  BY <1>1, <1>2 DEF Sane, Fresh
<1> QED
  BY <1>2, <1>3 DEF Sane

\* The head of a round leaves a request, or an end.
LEMMA RoundRequests ==
  ASSUME loop \in Loops,
         NEW a \in Nat, NEW r \in Nat, NEW m \in Seq(Messages), NEW f \in BOOLEAN, Sane(m, r),
         Round(a, r, m, f)
  PROVE  /\ loop'.initial = loop.initial
         /\ \/ pc' = "finalizing"
            \/ pc' = "requesting" /\ loop'.round = r /\ Sane(loop'.messages, r)
<1>1. CASE r = MaxToolRounds \/ aborted
  BY <1>1 DEF Round, Finalizes, Loops
<1>2. CASE r # MaxToolRounds /\ ~aborted
  <2>1. /\ pc' = "requesting"
        /\ \E status \in BudgetStatus : \E b \in Budgeted(status, m, f) :
             loop' = [loop EXCEPT !.attempt = a, !.round = r,
                                  !.messages = b.messages, !.force = b.force]
    BY <1>2 DEF Round
  <2>2. PICK status \in BudgetStatus : \E b \in Budgeted(status, m, f) :
          loop' = [loop EXCEPT !.attempt = a, !.round = r,
                               !.messages = b.messages, !.force = b.force]
    BY <2>1
  <2>3. PICK b \in Budgeted(status, m, f) :
          loop' = [loop EXCEPT !.attempt = a, !.round = r,
                               !.messages = b.messages, !.force = b.force]
    BY <2>2
  <2>4. Sane(b.messages, r)
    <3>1. CASE status = "OK"
      <4>1. b.messages = m
        BY <3>1 DEF Budgeted
      <4> QED
        BY <4>1
    <3>2. CASE status # "OK"
      <4>1. PICK c \in Compressed(m) :
              b = [messages |-> sanitizeToolPairs(c), force |-> f \/ status = "HARD_STOP"]
        BY <3>2 DEF Budgeted
      <4>2. b.messages = sanitizeToolPairs(c)
        BY <4>1, Zenon
      <4> QED
        BY <4>2, SanitizedSane
    <3> QED
      BY <3>1, <3>2
  <2>5. /\ loop'.initial = loop.initial /\ loop'.round = r /\ loop'.messages = b.messages
    BY <2>3, Zenon DEF Loops
  <2> QED
    BY <2>1, <2>4, <2>5
<1> QED
  BY <1>1, <1>2

\* A step that is not one of the loop leaves it and its phase alone.
LEMMA LoopMoves ==
  ASSUME CallsInv, [Next]_vars, kind = "inference"
  PROVE  LoopStep \/ UNCHANGED <<pc, loop>>
<1>1. ChildBegun /\ CallTypeOK
  BY DEF CallsInv, ChildOK
<1>2. CASE AdapterStep
  <2>1. ~StreamStep /\ ~AcpStep
    BY StreamKind, AcpKind
  <2>2. CASE ChildStep /\ UNCHANGED <<acp, loop>>
    <3>1. CASE ChildUp \/ ChildExits \/ ChildKilled \/ KillTimer \/ Kills
      BY <2>2, <3>1 DEF ChildUp, ChildExits, ChildKilled, KillTimer, Kills, CallQuiet, callVars
    <3>2. CASE ChildErrors
      BY <1>1, <2>2, <3>2 DEF ChildErrors, Continues, ChildBegun, ChildKinds
    <3>3. CASE ChildStarts \/ CodexCliCloses \/ ClaudeCodeCloses \/ ExitSettles \/ CodexCliLine
               \/ ClaudeCodeLine
      BY <3>3
         DEF ChildStarts, CodexCliStarts, ClaudeCodeStarts, CliStarts, Supervises, CodexCliCloses,
             ClaudeCodeCloses, CliCloses, ExitSettles, CodexCliLine, ClaudeCodeLine, ChildOutput, At
    <3> QED
      BY <2>2, <3>1, <3>2, <3>3 DEF ChildStep, ChildRuns
  <2> QED
    BY <1>2, <2>1, <2>2 DEF AdapterStep
<1>3. CASE Aborts
  BY <1>3 DEF Aborts, AbortsCall
<1>4. CASE OwnerStep /\ UNCHANGED <<child, acp, loop>>
  BY <1>4 DEF OwnerStep, Iterates, Leaves
<1>5. CASE UNCHANGED <<callVars, child, acp, loop>>
  BY <1>5 DEF callVars
<1>6. CASE HeldAbort
  BY <1>3, <1>6 DEF HeldAbort
<1>7. CASE RunStep
  BY <1>2, <1>3, <1>4, <1>5, <1>6, <1>7 DEF RunStep
<1>8. CASE UNCHANGED vars
  BY <1>5, <1>8 DEF vars, runVars
<1> QED
  BY <1>7, <1>8 DEF Next, runVars

LEMMA LoopPreserved ==
  ASSUME CallsInv, LoopOK, [Next]_vars
  PROVE  LoopOK'
<1>1. kind' = kind
  BY CallsPreserved
<1> SUFFICES ASSUME kind = "inference"
             PROVE  LoopOK'
  BY <1>1 DEF LoopOK
<1>2. /\ loop \in Loops /\ Sane(loop.initial, 0)
      /\ loop.initial \in Seq(Messages) /\ loop.messages \in Seq(Messages)
      /\ loop.attempt \in Nat /\ loop.round \in Nat /\ loop.force \in BOOLEAN
  BY LoopFields DEF CallsInv, LoopTypeOK, LoopOK
<1>3. ASSUME loop'.initial = loop.initial, pc' \notin {"requesting", "consuming", "tools"}
      PROVE  LoopOK'
  BY <1>2, <1>3 DEF LoopOK
<1>4. ASSUME NEW r \in Nat, loop'.initial = loop.initial,
             \/ pc' = "finalizing"
             \/ pc' = "requesting" /\ loop'.round = r /\ Sane(loop'.messages, r)
      PROVE  LoopOK'
  BY <1>2, <1>4 DEF LoopOK
<1>5. ASSUME NEW reason, Finalizes(reason)
      PROVE  LoopOK'
  <2>1. pc' = "finalizing" /\ loop'.initial = loop.initial
    BY <1>2, <1>5 DEF Finalizes, Loops
  <2> QED
    BY <1>3, <2>1
<1>6. CASE InferenceStarts
  <2>1. CASE aborted'
    BY <1>5, <1>6, <2>1 DEF InferenceStarts
  <2>2. CASE ~aborted'
    <3>1. Round(0, 0, loop.initial, FALSE) /\ 0 \in Nat /\ FALSE \in BOOLEAN
      BY <1>6, <2>2 DEF InferenceStarts
    <3> QED
      BY <1>2, <1>4, <3>1, RoundRequests
  <2> QED
    BY <2>1, <2>2
<1>7. CASE Requested \/ Delta
  <2>1. pc \in {"requesting", "consuming"} /\ pc' \in {"requesting", "consuming"} /\ loop' = loop
    BY <1>7 DEF Requested, Delta, At, Continues
  <2> QED
    BY <1>1, <1>2, <2>1 DEF LoopOK
<1>8. CASE RoundCompletes
  <2>1. PICK n \in ToolCalls :
          IF n = 0
          THEN Finalizes("stop") /\ Silent
          ELSE /\ pc' = "tools" /\ UNCHANGED finish
               /\ loop' = [loop EXCEPT !.messages =
                    Append(@, Assistant({<<loop.round + 1, k>> : k \in 1..n}))]
               /\ Emits([k \in 1..n |-> ToolCall])
    BY <1>8, Zenon DEF RoundCompletes
  <2>2. n \in Nat /\ Sane(loop.messages, loop.round)
    BY <1>8, ToolCallsType DEF RoundCompletes, At, LoopOK
  <2>3. CASE n = 0
    BY <1>5, <2>1, <2>3
  <2>4. CASE n # 0
    <3>1. /\ pc' = "tools" /\ loop'.initial = loop.initial /\ loop'.round = loop.round
          /\ loop'.messages = Append(loop.messages, Assistant(AskedIn(loop.round, n)))
      BY <1>2, <2>1, <2>4 DEF AskedIn, Loops
    <3>2. \E m \in Seq(Messages), x \in Nat : Asking(m, x)'
      BY <1>2, <2>2, <3>1 DEF Asking
    <3> QED
      BY <1>1, <1>2, <3>1, <3>2 DEF LoopOK
  <2> QED
    BY <2>3, <2>4
<1>9. CASE ToolsReturn
  <2>1. \E m \in Seq(Messages), n \in Nat : Asking(m, n)
    BY <1>9 DEF ToolsReturn, At, LoopOK
  <2>2. PICK m \in Seq(Messages), n \in Nat : Asking(m, n)
    BY <2>1
  <2> DEFINE ids == AskedIn(loop.round, n)
  <2>3. Sane(m, loop.round) /\ loop.messages = Append(m, Assistant(ids))
    BY <2>2 DEF Asking
  <2>4. Assistant(ids) \in Messages /\ Assistant(ids).ids = ids
    BY <1>2, AskedType DEF AskedIn, Assistant
  <2>5. Sane(Append(m, Assistant(ids)) \o Results(ids), loop.round + 1)
    BY <1>2, <2>3, RoundSane
  <2> HIDE DEF ids
  <2>6. loop.messages[Len(loop.messages)].ids = ids
    <3>1. Append(m, Assistant(ids))[Len(Append(m, Assistant(ids)))] = Assistant(ids)
      BY <2>4
    <3> QED
      BY <2>3, <2>4, <3>1
  <2>7. Round(loop.attempt, loop.round + 1, loop.messages \o Results(ids), loop.force)
    BY <1>9, <2>6, Zenon DEF ToolsReturn, Results, execute
  <2>8. Results(ids) \in Seq(Messages)
    BY <2>4, MessageIds, ResultsType
  <2>9. loop.messages \o Results(ids) \in Seq(Messages) /\ loop.round + 1 \in Nat
    BY <1>2, <2>8
  <2>10. Sane(loop.messages \o Results(ids), loop.round + 1)
    BY <2>3, <2>5
  <2> QED
    BY <1>2, <1>4, <2>7, <2>9, <2>10, RoundRequests
<1>10. CASE LoopThrows
  <2>1. CASE Finalizes("error")
    BY <1>5, <2>1
  <2>2. CASE pc' = "sleeping" /\ loop' = [loop EXCEPT !.messages = <<>>]
    BY <1>2, <1>3, <2>2 DEF Loops
  <2> QED
    BY <1>10, <2>1, <2>2 DEF LoopThrows
<1>11. CASE Retries
  <2>1. Round(loop.attempt + 1, 0, loop.initial, FALSE)
    BY <1>11 DEF Retries
  <2>2. loop.attempt + 1 \in Nat /\ 0 \in Nat /\ FALSE \in BOOLEAN
    BY <1>2
  <2> QED
    BY <1>2, <1>4, <2>1, <2>2, RoundRequests
<1>12. CASE Finalized
  BY <1>3, <1>12 DEF Finalized, Returns
<1>13. CASE UNCHANGED <<pc, loop>>
  BY <1>1, <1>13 DEF LoopOK, Asking
<1> QED
  BY <1>6, <1>7, <1>8, <1>9, <1>10, <1>11, <1>12, <1>13, LoopMoves DEF LoopStep

\* Of a conversation whose calls are answered, and are not those the loop is
\* about to make, the loop makes requests in which the calls of a message are
\* answered by the results that follow it: compression may drop any message
\* between the protected ends, and an attempt may be made again.
THEOREM PairedRequestsHolds ==
  ASSUME \A c \in Conversations : Sane(c, 0)
  PROVE  Spec => []PairedRequests
<1>1. Init => LoopOK
  <2> SUFFICES ASSUME Init, kind = "inference"
               PROVE  LoopOK
    BY DEF LoopOK
  <2>1. loop.initial \in Conversations /\ pc = "idle"
    BY DEF Init, LoopInit, CallInit
  <2> QED
    BY <2>1 DEF LoopOK
<1>2. CallsInv /\ LoopOK /\ [Next]_vars => LoopOK'
  BY LoopPreserved
<1>3. LoopOK => PairedRequests
  BY DEF LoopOK, PairedRequests, At, Sane, Paired
<1> QED
  BY <1>1, <1>2, <1>3, CallsInvariant, PTL DEF Spec
=============================================================================
