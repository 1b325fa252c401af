---------------------------- MODULE CachedPipeline ---------------------------
(***************************************************************************)
(* A pipeline and ctx.cache, which its phases share.  runPipeline does not *)
(* look at the cache, and the cache not at who calls it, so that the two   *)
(* are explored one at a time.                                             *)
(***************************************************************************)
EXTENDS Pipeline, PipelineCache

VARIABLE caching  \* the calls of the cache are looked at

allVars == <<vars, cacheVars, caching>>

\* Any pipeline stands for all where only its cache is looked at.
Init ==
  /\ PipelineInit /\ CacheInit
  /\ caching \in BOOLEAN
  /\ caching => phases = CHOOSE p \in Pipelines : TRUE

Next ==
  /\ \/ ~caching /\ PipelineNext /\ UNCHANGED cacheVars
     \/ caching /\ CacheNext /\ UNCHANGED vars
  /\ UNCHANGED caching

\* Promises settle and the consumer reads on, in a pipeline that was started.
Spec == Init /\ [][Next]_allVars /\ WF_vars(PipelineStep)
==============================================================================
