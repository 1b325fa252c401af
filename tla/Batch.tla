-------------------------------- MODULE Batch --------------------------------
(***************************************************************************)
(* What a caller of boundedFanout (patterns/bounded-fanout.ts) relies on:  *)
(* items are taken in order, each once and never more than cap at a time;  *)
(* none is taken once the call is halted; the outcome is exposed when no   *)
(* item is in progress, and a call that was not halted has taken them all. *)
(***************************************************************************)
EXTENDS Integers, FiniteSets

VARIABLES
  size,     \* number of items of the call
  cap,      \* how many may be in progress
  taken,    \* items 1..taken were taken
  busy,     \* items in progress
  halted,
  outcome   \* "idle", "pending", "resolved" or "rejected"

vars == <<size, cap, taken, busy, halted, outcome>>

Idle == outcome = "idle" /\ busy = {}

\* A call takes what the cap allows; one that is halted from the start
\* takes nothing, and may settle at once.
Call ==
  /\ outcome # "pending"
  /\ size' \in Nat /\ cap' \in Nat
  /\ taken' \in 0..size' /\ busy' = 1..taken' /\ taken' <= cap'
  /\ halted' \/ outcome' # "pending" => taken' = 0
  /\ outcome' \in {"pending", "resolved", "rejected"}
  /\ outcome' = "resolved" => halted' \/ size' = 0

\* Items are finished, and others taken in their place.
Progress ==
  /\ outcome = "pending"
  /\ taken' \in taken..size
  /\ busy' \ busy = (taken + 1)..taken'
  /\ Cardinality(busy') <= cap
  /\ halted => halted' /\ taken' = taken
  /\ UNCHANGED <<size, cap, outcome>>

Settle ==
  /\ outcome = "pending" /\ busy = {}
  /\ outcome' \in {"resolved", "rejected"}
  /\ outcome' = "resolved" => taken = size \/ halted
  /\ UNCHANGED <<size, cap, taken, busy>>

\* The signal is the caller's and outlives the call.
Halt == UNCHANGED <<size, cap, taken, busy, outcome>>

\* The call is forgotten: its caller is done with it, or died.
Forget == outcome' = "idle" /\ busy' = {}

Next == Call \/ Progress \/ Settle \/ Halt \/ Forget

Spec == Idle /\ [][Next]_vars
==============================================================================
