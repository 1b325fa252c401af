----------------------------- MODULE MCJobStore -----------------------------
(* Model values for OpenedStore: two jobs under one name and two owners;   *)
(* three processes that open the database, one of them of a newer build.   *)
EXTENDS OpenedStore, TLC

CONSTANTS j1, j2, n1, o1, o2, p1, p2, p3

MCJobs == {j1, j2}
MCNames == {n1}
MCJobName == j1 :> n1 @@ j2 :> n1
MCOwners == {o1, o2}
MCOpeners == {p1, p2, p3}
MCLatest == p1 :> 3 @@ p2 :> 3 @@ p3 :> 4

\* The jobs are interchangeable, and so are the owners, and the openers of
\* one build.
MCSymmetry == Permutations(MCJobs) \cup Permutations(MCOwners) \cup Permutations({p1, p2})
=============================================================================
