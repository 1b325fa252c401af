---------------------------- MODULE PipelineCache ---------------------------
(***************************************************************************)
(* PipelineCache (cache.ts): values by key, and per key the fetch that is  *)
(* under way, shared by the callers of getOrFetch().  A sub-cache is the   *)
(* same two maps seen through a key prefix, so a scope is a set of keys.   *)
(*                                                                         *)
(* A fetcher runs until it resolves or rejects; it may also throw when it  *)
(* is called, before it returned a promise.  A value is named by the fetch *)
(* it comes from, or is Direct when set() stored it.                       *)
(***************************************************************************)
EXTENDS Integers, FiniteSets

CONSTANTS
  Keys,
  Scopes,     \* the sets of keys a clear() of the root or a sub-cache covers
  Callers,
  MayClear,   \* clear() is called while the pipeline runs
  MayThrow,   \* fetchers may throw when called
  MaxFetches, \* bound: fetches started
  Direct,
  None

ASSUME ScopesAssumption == Scopes \subseteq SUBSET Keys
ASSUME MayAssumption == MayClear \in BOOLEAN /\ MayThrow \in BOOLEAN
ASSUME MaxFetchesAssumption == MaxFetches \in Nat
ASSUME NamesAssumption == None # Direct /\ {None, Direct} \cap (Nat \cup Keys) = {}

VARIABLES
  store,    \* per key the value, or None
  pending,  \* per key the fetch whose promise is shared, or None
  fetches,  \* the fetches started: key and state of each
  caller    \* per caller: the fetch it awaits, None, or what it was answered

cacheVars == <<store, pending, fetches, caller>>

FetchIds == 1..MaxFetches
States == {"unused", "running", "resolved", "rejected"}
Unused == {f \in FetchIds : fetches[f].state = "unused"}
Running(k) == {f \in FetchIds : fetches[f].key = k /\ fetches[f].state = "running"}
Succeeded(k) == {f \in FetchIds : fetches[f].key = k /\ fetches[f].state = "resolved"}
NextFetch == CHOOSE f \in Unused : TRUE

\* A caller awaits the promise of a fetch until the fetch has settled.
Awaits(c) == caller[c] \in FetchIds /\ fetches[caller[c]].state = "running"

Emptied(map, scope) == [k \in Keys |-> IF k \in scope THEN None ELSE map[k]]

-----------------------------------------------------------------------------
(* getOrFetch().                                                           *)

Hits(c, k) ==
  /\ store[k] # None
  /\ caller' = [caller EXCEPT ![c] = store[k]]
  /\ UNCHANGED <<store, pending, fetches>>

Joins(c, k) ==
  /\ store[k] = None /\ pending[k] # None
  /\ caller' = [caller EXCEPT ![c] = pending[k]]
  /\ UNCHANGED <<store, pending, fetches>>

\* Mutant: a fetch under way is not looked for.
MissesStoreOnly(k) == store[k] = None

Misses(k) == store[k] = None /\ pending[k] = None

\* The fetch runs up to its first await before its promise is in pending; a
\* throw there has its finally behind it by then.
Starts(c, k) ==
  /\ Misses(k) /\ Unused # {}
  /\ \E state \in {"running"} \cup (IF MayThrow THEN {"rejected"} ELSE {}) :
       fetches' = [fetches EXCEPT ![NextFetch] = [key |-> k, state |-> state]]
  /\ pending' = [pending EXCEPT ![k] = NextFetch]
  /\ caller' = [caller EXCEPT ![c] = NextFetch]
  /\ UNCHANGED store

GetOrFetch(c, k) == ~Awaits(c) /\ (Hits(c, k) \/ Joins(c, k) \/ Starts(c, k))

Settled(f, state) == fetches' = [fetches EXCEPT ![f].state = state]

Resolves(f) ==
  /\ fetches[f].state = "running"
  /\ Settled(f, "resolved")
  /\ store' = [store EXCEPT ![fetches[f].key] = f]
  /\ pending' = [pending EXCEPT ![fetches[f].key] = None]
  /\ UNCHANGED caller

Rejects(f) ==
  /\ fetches[f].state = "running"
  /\ Settled(f, "rejected")
  /\ pending' = [pending EXCEPT ![fetches[f].key] = None]
  /\ UNCHANGED <<store, caller>>

-----------------------------------------------------------------------------
(* The other operations that change state.                                 *)

Set(k) ==
  /\ store[k] # Direct
  /\ store' = [store EXCEPT ![k] = Direct]
  /\ UNCHANGED <<pending, fetches, caller>>

\* Mutant: a sub-cache clears the maps it shares.
ClearAll(scope) ==
  /\ MayClear
  /\ store' = Emptied(store, Keys) /\ pending' = Emptied(pending, Keys)
  /\ UNCHANGED <<fetches, caller>>

Clear(scope) ==
  /\ MayClear
  /\ store' = Emptied(store, scope) /\ pending' = Emptied(pending, scope)
  /\ UNCHANGED <<fetches, caller>>

CacheInit ==
  /\ store = [k \in Keys |-> None] /\ pending = [k \in Keys |-> None]
  /\ fetches = [f \in FetchIds |-> [key |-> None, state |-> "unused"]]
  /\ caller = [c \in Callers |-> None]

CacheNext ==
  \/ \E c \in Callers, k \in Keys : GetOrFetch(c, k)
  \/ \E f \in FetchIds : Resolves(f) \/ Rejects(f)
  \/ \E k \in Keys : Set(k)
  \/ \E scope \in Scopes : Clear(scope)

CacheSpec == CacheInit /\ [][CacheNext]_cacheVars

-----------------------------------------------------------------------------
(* Properties.                                                             *)

\* "one fetch per key per pipeline run" (cache.ts:52), of the keys no clear()
\* covers: at most one fetch of a key succeeds, and none runs beside another
\* or after one that succeeded, whatever rejects and whatever sub-cache is
\* cleared.  A key that is cleared may be fetched twice at a time: the older
\* fetch takes the entry of its successor out.
OneFetchPerKey ==
  \A k \in Keys \ (IF MayClear THEN UNION Scopes ELSE {}) :
    Cardinality(Running(k) \cup Succeeded(k)) <= 1

\* "rejections are NOT cached" (cache.ts:55): no caller to come is given the
\* promise of a fetch that has rejected.
RejectionsNotCached ==
  \A k \in Keys : pending[k] # None => fetches[pending[k]].state # "rejected"
=============================================================================
