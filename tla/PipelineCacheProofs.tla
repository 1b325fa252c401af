------------------------ MODULE PipelineCacheProofs -------------------------
(***************************************************************************)
(* Theorems about PipelineCache, for every number of keys, callers and     *)
(* fetches and every choice of sub-caches.                                 *)
(***************************************************************************)
EXTENDS PipelineCache, FiniteSetTheorems, TLAPS

Values == FetchIds \cup {Direct, None}

CacheTypeOK ==
  /\ store \in [Keys -> Values]
  /\ pending \in [Keys -> FetchIds \cup {None}]
  /\ fetches \in [FetchIds -> [key: Keys \cup {None}, state: States]]
  /\ caller \in [Callers -> Values]
  /\ \A f \in FetchIds : fetches[f].state # "unused" => fetches[f].key \in Keys

\* Keys no clear() covers.
Kept == Keys \ (IF MayClear THEN UNION Scopes ELSE {})

Live(k) == Running(k) \cup Succeeded(k)

\* A fetch that runs is the pending one of its key, so that the callers that
\* miss the store join it.
RunningIsPending == \A k \in Kept : \A f \in Running(k) : pending[k] = f

\* What a fetch returned stays in the store.
SucceededIsStored == \A k \in Kept : Succeeded(k) # {} => store[k] # None

OnlyOne == \A k \in Kept : \A f, g \in Live(k) : f = g

CacheInv == CacheTypeOK /\ RunningIsPending /\ SucceededIsStored /\ OnlyOne

-----------------------------------------------------------------------------
LEMMA NamesDiffer == None # Direct /\ None \notin FetchIds /\ Direct \notin FetchIds
BY NamesAssumption, MaxFetchesAssumption, SMT DEF FetchIds

LEMMA NextIsUnused == Unused # {} => NextFetch \in Unused
BY Zenon DEF NextFetch

LEMMA InitCache == CacheInit => CacheInv
BY NamesDiffer, MaxFetchesAssumption, SMT
DEF CacheInit, CacheInv, CacheTypeOK, RunningIsPending, SucceededIsStored, OnlyOne, Live, Running,
    Succeeded, Values, States, FetchIds

LEMMA StartsKeeps ==
  ASSUME CacheInv, NEW c \in Callers, NEW k \in Keys, Starts(c, k)
  PROVE  CacheInv'
<1>1. PICK s \in {"running", "rejected"} :
        fetches' = [fetches EXCEPT ![NextFetch] = [key |-> k, state |-> s]]
  <2>1. CASE MayThrow
    BY <2>1, Zenon DEF Starts
  <2>2. CASE ~MayThrow
    BY <2>2, Zenon DEF Starts
  <2> QED BY <2>1, <2>2
<1>2. /\ NextFetch \in FetchIds /\ fetches[NextFetch].state = "unused"
  BY NextIsUnused, SMT DEF Starts, Unused
<1>3. /\ pending' = [pending EXCEPT ![k] = NextFetch]
      /\ caller' = [caller EXCEPT ![c] = NextFetch]
      /\ store' = store /\ store[k] = None /\ pending[k] = None
  BY SMT DEF Starts, Misses
<1>4. CacheTypeOK'
  BY <1>1, <1>2, <1>3, SMT DEF CacheInv, CacheTypeOK, Values, States
<1>5. ASSUME NEW j \in Kept
      PROVE  Live(j)' \subseteq Live(j) \cup (IF j = k THEN {NextFetch} ELSE {})
  BY <1>1, <1>2, SMT DEF CacheInv, CacheTypeOK, Live, Running, Succeeded, Kept
<1>6. k \in Kept => Live(k) = {}
  BY <1>3, NamesDiffer, SMT DEF CacheInv, RunningIsPending, SucceededIsStored, Live, Running
<1>7. RunningIsPending'
  <2> SUFFICES ASSUME NEW j \in Kept, NEW f \in Running(j)'
               PROVE  pending'[j] = f
    BY SMT DEF RunningIsPending, Kept
  <2>1. CASE f = NextFetch
    BY <1>1, <1>2, <1>3, <2>1, SMT DEF CacheInv, CacheTypeOK, Running, Kept
  <2>2. CASE f # NextFetch
    <3>1. f \in Running(j)
      BY <1>1, <1>2, <2>2, SMT DEF CacheInv, CacheTypeOK, Running
    <3>2. j # k
      BY <1>6, <3>1, SMT DEF Live
    <3> QED BY <1>3, <3>1, <3>2, SMT DEF CacheInv, CacheTypeOK, RunningIsPending, Kept
  <2> QED BY <2>1, <2>2
<1>8. SucceededIsStored'
  <2>1. \A j \in Kept : Succeeded(j)' \subseteq Succeeded(j)
    BY <1>1, <1>2, SMT DEF CacheInv, CacheTypeOK, Succeeded, Kept
  <2> QED BY <1>3, <2>1, SMT DEF CacheInv, SucceededIsStored, Kept
<1>9. OnlyOne'
  <2> SUFFICES ASSUME NEW j \in Kept, NEW f \in Live(j)', NEW g \in Live(j)'
               PROVE  f = g
    BY SMT DEF OnlyOne, Kept
  <2> QED BY <1>5, <1>6, SMT DEF CacheInv, OnlyOne
<1> QED BY <1>4, <1>7, <1>8, <1>9 DEF CacheInv

LEMMA SettlesKeeps ==
  ASSUME CacheInv, NEW f \in FetchIds, Resolves(f) \/ Rejects(f)
  PROVE  CacheInv'
<1> DEFINE k == fetches[f].key
<1>1. PICK s \in {"resolved", "rejected"} :
        /\ fetches' = [fetches EXCEPT ![f].state = s]
        /\ store' = IF s = "resolved" THEN [store EXCEPT ![k] = f] ELSE store
        /\ pending' = [pending EXCEPT ![k] = None]
        /\ caller' = caller
  BY SMT DEF Resolves, Rejects, Settled
<1>2. fetches[f].state = "running" /\ k \in Keys
  BY SMT DEF Resolves, Rejects, CacheInv, CacheTypeOK
<1>3. CacheTypeOK'
  BY <1>1, <1>2, SMT DEF CacheInv, CacheTypeOK, Values, States
<1>4. ASSUME NEW j \in Kept
      PROVE  /\ Live(j)' \subseteq Live(j)
             /\ Running(j)' \subseteq Running(j) \ {f}
             /\ Succeeded(j)' \subseteq Succeeded(j) \cup
                  (IF s = "resolved" /\ j = k THEN {f} ELSE {})
  BY <1>1, <1>2, SMT DEF CacheInv, CacheTypeOK, Live, Running, Succeeded
<1>5. RunningIsPending'
  <2> SUFFICES ASSUME NEW j \in Kept, NEW g \in Running(j)'
               PROVE  pending'[j] = g
    BY SMT DEF RunningIsPending, Kept
  <2>1. g \in Running(j) /\ g # f
    BY <1>4
  <2>2. j # k
    BY <1>2, <2>1, SMT DEF CacheInv, OnlyOne, Live, Running
  <2> QED BY <1>1, <2>1, <2>2, SMT DEF CacheInv, CacheTypeOK, RunningIsPending, Kept
<1>6. SucceededIsStored'
  BY <1>1, <1>2, <1>4, NamesDiffer, SMT DEF CacheInv, CacheTypeOK, SucceededIsStored, Kept
<1>7. OnlyOne'
  BY <1>4, SMT DEF CacheInv, OnlyOne, Kept
<1> QED BY <1>3, <1>5, <1>6, <1>7 DEF CacheInv

LEMMA ClearKeeps ==
  ASSUME CacheInv, NEW scope \in Scopes, Clear(scope)
  PROVE  CacheInv'
<1>1. CacheTypeOK'
  BY SMT DEF CacheInv, CacheTypeOK, Clear, Emptied, Values
<1>2. \A k \in Kept : store'[k] = store[k] /\ pending'[k] = pending[k]
  BY SMT DEF Clear, Emptied, Kept
<1>3. \A k \in Kept : Running(k)' = Running(k) /\ Succeeded(k)' = Succeeded(k)
  BY SMT DEF Clear, Running, Succeeded
<1> QED BY <1>1, <1>2, <1>3, SMT
        DEF CacheInv, RunningIsPending, SucceededIsStored, OnlyOne, Live, Kept

LEMMA ReadsKeep ==
  ASSUME CacheInv, NEW c \in Callers, NEW k \in Keys, Hits(c, k) \/ Joins(c, k)
  PROVE  CacheInv'
<1>1. CacheTypeOK'
  BY SMT DEF CacheInv, CacheTypeOK, Hits, Joins, Values
<1>2. UNCHANGED <<store, pending, fetches>>
  BY DEF Hits, Joins
<1> QED BY <1>1, <1>2, SMT
        DEF CacheInv, RunningIsPending, SucceededIsStored, OnlyOne, Live, Kept, Running, Succeeded

LEMMA NextKeeps == CacheInv /\ [CacheNext]_cacheVars => CacheInv'
<1> SUFFICES ASSUME CacheInv, [CacheNext]_cacheVars PROVE CacheInv'
  OBVIOUS
<1>1. ASSUME NEW c \in Callers, NEW k \in Keys, GetOrFetch(c, k) PROVE CacheInv'
  BY <1>1, StartsKeeps, ReadsKeep DEF GetOrFetch
<1>2. ASSUME NEW f \in FetchIds, Resolves(f) \/ Rejects(f) PROVE CacheInv'
  BY <1>2, SettlesKeeps
<1>3. ASSUME NEW k \in Keys, Set(k) PROVE CacheInv'
  <2>1. CacheTypeOK'
    BY <1>3, SMT DEF CacheInv, CacheTypeOK, Set, Values
  <2>2. /\ UNCHANGED <<pending, fetches>>
        /\ \A j \in Keys : store[j] # None => store'[j] # None
    BY <1>3, NamesDiffer, SMT DEF Set, CacheInv, CacheTypeOK
  <2> QED BY <2>1, <2>2, SMT
          DEF CacheInv, RunningIsPending, SucceededIsStored, OnlyOne, Live, Kept, Running, Succeeded
<1>4. ASSUME NEW scope \in Scopes, Clear(scope) PROVE CacheInv'
  BY <1>4, ClearKeeps
<1>5. CASE UNCHANGED cacheVars
  BY <1>5, SMT DEF CacheInv, CacheTypeOK, RunningIsPending, SucceededIsStored, OnlyOne, Live,
                   Kept, Running, Succeeded, cacheVars
<1> QED BY <1>1, <1>2, <1>3, <1>4, <1>5 DEF CacheNext

-----------------------------------------------------------------------------
\* What relates the two maps to the fetches under way, of the keys that no
\* clear() covers: a running fetch is shared, and a value is kept.
THEOREM CacheInvariant == CacheSpec => []CacheInv
BY InitCache, NextKeeps, PTL DEF CacheSpec

\* A key that no clear() covers is fetched once: its fetches succeed at most
\* once and never run beside each other, however many callers there are.
THEOREM OneFetchPerKeyHolds == CacheSpec => []OneFetchPerKey
<1>1. CacheInv => OneFetchPerKey
  <2> SUFFICES ASSUME CacheInv, NEW k \in Kept PROVE Cardinality(Live(k)) <= 1
    BY DEF OneFetchPerKey, Kept, Live
  <2>1. CASE Live(k) = {}
    BY <2>1, FS_EmptySet, SMT
  <2>2. CASE Live(k) # {}
    <3>1. PICK f : f \in Live(k)
      BY <2>2
    <3>2. Live(k) = {f}
      BY <3>1 DEF CacheInv, OnlyOne
    <3> QED BY <3>2, FS_Singleton, SMT
  <2> QED BY <2>1, <2>2
<1> QED BY <1>1, CacheInvariant, PTL
=============================================================================
