------------------------------ MODULE MCPipeline -----------------------------
(* Instances of CachedPipeline, and a sub-cache over one of two keys.      *)
EXTENDS CachedPipeline

Keyed(wraps) == [keyed |-> TRUE, wraps |-> wraps]
Unkeyed(wraps) == [keyed |-> FALSE, wraps |-> wraps]

\* Every wrapper, in phases that are and are not recorded.
MCPipelines == {
  <<Keyed(<<"gate", "while">>), Keyed(<<"plain">>), Unkeyed(<<"match">>)>>,
  <<Keyed(<<"retry">>), Keyed(<<"fanout">>), Unkeyed(<<"sub">>)>>,
  <<Keyed(<<"sub", "retry">>), Unkeyed(<<"plain">>)>> }

Options(n, c, collect, skip, retry) ==
  [count |-> n, concurrency |-> c, collect |-> collect, skip |-> skip, retry |-> retry,
   agents |-> FALSE]
Agents(n, c, collect) == [Options(n, c, collect, FALSE, FALSE) EXCEPT !.agents = TRUE]
MCFanoutOptions == {
  Options(3, 2, TRUE, TRUE, TRUE), Options(3, 2, FALSE, FALSE, FALSE),
  Options(2, 4, FALSE, FALSE, TRUE), Options(0, 1, TRUE, FALSE, FALSE),
  Agents(3, 2, TRUE), Agents(3, 2, FALSE) }
==============================================================================
