--------------------------- MODULE MCPipelineCache --------------------------
(* Instances of PipelineCache.                                             *)
EXTENDS PipelineCache, TLC

CONSTANTS k1, k2, c1, c2, c3

MCKeys == {k1, k2}
MCCallers == {c1, c2, c3}
Root == {{k1, k2}}
MCSymmetry == Permutations(MCCallers)
=============================================================================
