----------------------------- MODULE MCRunTrigger ---------------------------
(* Instances of Serve: two persisted jobs at a time, or inline pipelines   *)
(* under a cap of zero.                                                    *)
EXTENDS Serve

TwoJobs == [requested |-> 2, persisted |-> TRUE]
NoneInline == [requested |-> 0, persisted |-> FALSE]
MCOptions == {TwoJobs, NoneInline}
=============================================================================
