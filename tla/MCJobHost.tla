------------------------------ MODULE MCJobHost ------------------------------
(* Model values for JobHost: one run of one job, which heartbeats.         *)
EXTENDS JobHost

CONSTANTS j1, n1, r1

OneJob == {j1}
OneName == {n1}
OneJobName == j1 :> n1
OneRun == {r1}
OneRunJob == r1 :> j1
OneRunner == r1 :> 1
OneHeartbeat == r1 :> "on"
==============================================================================
