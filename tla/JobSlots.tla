------------------------------ MODULE JobSlots ------------------------------
(***************************************************************************)
(* What the job store promises its callers, without columns, clocks or     *)
(* logs: every job gets at most one outcome and at most one holder, and    *)
(* every name is a slot that either one job holds alone or any number of   *)
(* jobs share.                                                             *)
(***************************************************************************)
CONSTANTS Jobs, Names, JobName, Owners, NoOwner, Outcomes, NoOutcome

VARIABLES
  outcome,  \* NoOutcome until the job ends
  holder,   \* the owner that claimed the job
  inside,   \* the jobs running under a name
  alone     \* the names held exclusively

slotVars == <<outcome, holder, inside, alone>>

Init ==
  /\ outcome = [j \in Jobs |-> NoOutcome]
  /\ holder = [j \in Jobs |-> NoOwner]
  /\ inside = [n \in Names |-> {}]
  /\ alone = {}

\* A job that has not run enters its slot beside the jobs already inside.
Enter(j, o) ==
  LET n == JobName[j] IN
  /\ outcome[j] = NoOutcome
  /\ j \notin inside[n] /\ n \notin alone
  /\ inside' = [inside EXCEPT ![n] = inside[n] \cup {j}]
  /\ holder' = [holder EXCEPT ![j] = o]
  /\ UNCHANGED <<outcome, alone>>

\* A new job enters an empty slot and keeps everybody else out.
EnterAlone(j) ==
  LET n == JobName[j] IN
  /\ outcome[j] = NoOutcome
  /\ inside[n] = {}
  /\ inside' = [inside EXCEPT ![n] = {j}]
  /\ alone' = alone \cup {n}
  /\ UNCHANGED <<outcome, holder>>

\* A running job nobody holds is claimed.
Claim(j, o) ==
  /\ j \in inside[JobName[j]]
  /\ holder[j] = NoOwner
  /\ holder' = [holder EXCEPT ![j] = o]
  /\ UNCHANGED <<outcome, inside, alone>>

\* A job ends; if it held its slot alone the slot is free again.
End(j, s) ==
  LET n == JobName[j] IN
  /\ outcome[j] = NoOutcome
  /\ outcome' = [outcome EXCEPT ![j] = s]
  /\ inside' = [inside EXCEPT ![n] = inside[n] \ {j}]
  /\ alone' = IF inside[n] = {j} THEN alone \ {n} ELSE alone
  /\ UNCHANGED holder

Next == \E j \in Jobs :
  \/ EnterAlone(j)
  \/ \E o \in Owners \cup {NoOwner} : Enter(j, o)
  \/ \E o \in Owners : Claim(j, o)
  \/ \E s \in Outcomes : End(j, s)

Spec == Init /\ [][Next]_slotVars
=============================================================================
