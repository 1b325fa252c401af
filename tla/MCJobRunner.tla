----------------------------- MODULE MCJobRunner ----------------------------
(* Model values for JobRunner: two runs of one job, or of two jobs under   *)
(* one name, on two processes; the first run heartbeats automatically.     *)
EXTENDS JobRunner, TLC

CONSTANTS j1, j2, n1, r1, r2

OneJob == {j1}
TwoJobs == {j1, j2}
MCNames == {n1}
OneJobName == j1 :> n1
TwoJobsName == j1 :> n1 @@ j2 :> n1

TwoRuns == {r1, r2}
SameJob == r1 :> j1 @@ r2 :> j1
OwnJob == r1 :> j1 @@ r2 :> j2
TwoRunners == r1 :> 1 @@ r2 :> 2
FirstHeartbeats == r1 :> "on" @@ r2 :> "off"

\* Bound: behind the first tick a store call that fails ends the search.
FaultBeforeClock == now = 0 \/ faults = MaxFaults
=============================================================================
