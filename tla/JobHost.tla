------------------------------- MODULE JobHost -------------------------------
(***************************************************************************)
(* A process that runs jobs and streams them.  A stream only reads, no run *)
(* waits for one, and Sse leaves open what is appended and when, so that   *)
(* the two are explored one at a time.                                     *)
(***************************************************************************)
EXTENDS JobRunner, Sse

VARIABLE streaming  \* a stream is looked at

hostVars == <<vars, sseVars, streaming>>

\* The placement matters to a stream only.
HostInit ==
  /\ Init /\ SseInit
  /\ streaming \in BOOLEAN
  /\ streaming \/ here = CHOOSE placement \in Placements : TRUE

HostNext ==
  /\ \/ ~streaming /\ Next /\ UNCHANGED sseVars
     \/ streaming /\ SseNext /\ UNCHANGED vars
  /\ UNCHANGED streaming

\* What is assumed of runs and streams, and that the clock of runs advances.
HostSpec ==
  /\ HostInit /\ [][HostNext]_hostVars
  /\ Fairness /\ SseFairness
  /\ WF_vars(~streaming /\ Tick /\ UNCHANGED runnerVars)
==============================================================================
