----------------------------- MODULE OpenedStore -----------------------------
(***************************************************************************)
(* SqliteJobStore as its processes see it: the constructors that open one  *)
(* database, and the calls of the stores they made.  The calls meet the    *)
(* latest schema only, so the two do not interleave.                       *)
(***************************************************************************)
EXTENDS JobStore, StoreOpening

VARIABLE opened  \* the calls are looked at, and not the constructors

vars == <<storeVars, openingVars, opened>>

Init == opened \in BOOLEAN /\ StoreInit /\ OpeningInit

Next ==
  /\ \/ opened /\ BoundedStoreNext /\ UNCHANGED openingVars
     \/ ~opened /\ OpeningNext /\ UNCHANGED storeVars
  /\ UNCHANGED opened

Spec == Init /\ [][Next]_vars
==============================================================================
