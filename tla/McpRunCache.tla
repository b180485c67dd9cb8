------------------------------ MODULE McpRunCache ------------------------------
(***************************************************************************)
(* The run cache of the MCP tools (packages/core/src/mcp-tools.ts):        *)
(* parsed runs under a random id and under the key of their source, the    *)
(* parses in flight that concurrent calls share, and the comparisons built *)
(* of two cached runs.                                                     *)
(*                                                                         *)
(* The content of a run is the version of its source that was read.  The   *)
(* key of a file or a directory names its version, that of a History       *)
(* Server run does not.  Both caches are kept in the order of last use, so *)
(* that the runs whose time to live has passed are the first ones.         *)
(***************************************************************************)
EXTENDS Integers, Sequences, FiniteSets, SequencesExt

CONSTANTS Files, Downloads,   \* sources: paths and History Server runs
          CacheCap,           \* SPARKFORENSICS_MCP_CACHE_CAP
          ComparisonCap,      \* COMPARISON_CACHE_CAP
          Calls,              \* bound: the calls made, each an id of its own
          MaxVersion,         \* bound: versions of a source
          MaxRuns             \* bound: run ids handed out

ASSUME CacheAssumption == {CacheCap, ComparisonCap, MaxVersion, MaxRuns} \subseteq Nat

RunSources == Files \cup Downloads

VARIABLES
  version,      \* of each source, now
  byRunId,      \* cached runs, least recently used first: id, key and content
  byCacheKey,   \* <<key, id>> pairs
  parses,       \* pendingByCacheKey, with the version each parse read
  comparisons,  \* comparisonCache, least recently used first: pairs of ids
  lastRunId,    \* the ids handed out so far
  calls         \* per call: "none", or what it asked for and what it has

cacheVars == <<version, byRunId, byCacheKey, parses, comparisons, lastRunId, calls>>

NoCall == [state |-> "none", refs |-> <<>>]

CacheInit ==
  /\ version = [s \in RunSources |-> 0]
  /\ byRunId = <<>> /\ byCacheKey = {} /\ parses = <<>> /\ comparisons = <<>>
  /\ lastRunId = 0
  /\ calls = [c \in Calls |-> NoCall]

-----------------------------------------------------------------------------
(* The caches, as one record: runs, keys and comparisons.                   *)

KeyOfSource(s) == <<s, 0>>   \* forgets the stat of the file
\* pathCacheKey and shsCacheKey.
KeyOf(s) == <<s, IF s \in Files THEN version[s] ELSE 0>>

Cached(runs) == {runs[i].id : i \in DOMAIN runs}
RunOf(runs, id) == CHOOSE r \in ToSet(runs) : r.id = id

Touch(runs, id) ==
  LET i == CHOOSE i \in DOMAIN runs : runs[i].id = id
  IN  Append(RemoveAt(runs, i), runs[i])

DeleteKeepingComparisons(cache, n) ==
  [runs |-> SubSeq(cache.runs, n + 1, Len(cache.runs)),
   keys |-> {k \in cache.keys : \A i \in 1..n : k # <<cache.runs[i].key, cache.runs[i].id>>},
   built |-> cache.built]
Without(built, gone) ==
  LET left[i \in 0..Len(built)] ==
        IF i = 0 THEN <<>>
        ELSE IF built[i][1] \in gone \/ built[i][2] \in gone THEN left[i - 1]
        ELSE Append(left[i - 1], built[i])
  IN  left[Len(built)]
\* deleteRunEntry, of the n oldest runs.
DeleteOldest(cache, n) ==
  [runs |-> SubSeq(cache.runs, n + 1, Len(cache.runs)),
   keys |-> {k \in cache.keys : \A i \in 1..n : k # <<cache.runs[i].key, cache.runs[i].id>>},
   built |-> Without(cache.built, {cache.runs[i].id : i \in 1..n})]

Cache == [runs |-> byRunId, keys |-> byCacheKey, built |-> comparisons]
SetCache(cache) ==
  byRunId' = cache.runs /\ byCacheKey' = cache.keys /\ comparisons' = cache.built

\* evictStale: how many of the oldest runs have expired is a matter of time.
Stale(cache) == {DeleteOldest(cache, n) : n \in 0..Len(cache.runs)}
EvictOverflow(cache) ==
  IF Len(cache.runs) > CacheCap THEN DeleteOldest(cache, Len(cache.runs) - CacheCap) ELSE cache

-----------------------------------------------------------------------------
(* resolveOrCreateRun, of one reference.  A reference asks for a source or  *)
(* a run id; it gets a run, waits for the parse of a key, or fails.         *)

\* A client knows the ids it was given; they may be evicted since.
References == ({"source"} \X RunSources) \cup ({"id"} \X (1..lastRunId))

FoundRun(r) == [state |-> "ready", id |-> r.id, content |-> r.content]
Waiting(key) == [state |-> "waiting", key |-> key]
FailedRef == [state |-> "failed"]

CachedIdFor(cache, key) ==
  {k[2] : k \in {k \in cache.keys : k[1] = key /\ k[2] \in Cached(cache.runs)}}

SharesNothing(key) == FALSE   \* each call parses for itself
SharesParse(key) == \E i \in DOMAIN parses : parses[i].key = key

\* The caches after the lookup and what it got; `start` if it starts a parse.
Hit(cache, id) == [cache |-> [cache EXCEPT !.runs = Touch(@, id)],
                   got |-> FoundRun(RunOf(cache.runs, id)), start |-> FALSE]
Lookup(cache, ref) ==
  LET found == IF ref[1] = "id" THEN {ref[2]} \cap Cached(cache.runs)
               ELSE CachedIdFor(cache, KeyOf(ref[2]))
  IN  IF found # {} THEN Hit(cache, CHOOSE id \in found : TRUE)
      ELSE IF ref[1] = "id" THEN [cache |-> cache, got |-> FailedRef, start |-> FALSE]
      ELSE [cache |-> cache, got |-> Waiting(KeyOf(ref[2])), start |-> ~SharesParse(KeyOf(ref[2]))]

\* A reference of a call: what it asked for, the version its source had then,
\* and what it got.
Asked(ref, got) ==
  [asked |-> ref, since |-> IF ref[1] = "id" THEN 0 ELSE version[ref[2]], got |-> got]

Resolving(c, refs) == calls' = [calls EXCEPT ![c] = [state |-> "resolving", refs |-> refs]]
StartParses(keys) == parses' = parses \o [i \in DOMAIN keys |-> [key |-> keys[i], read |-> -1]]

\* A call of one reference (diagnose_run, get_run_summary) or of two
\* (compare_runs, evaluate_budgets), looked up one after the other.
Call(c, refs) ==
  /\ calls[c].state = "none"
  /\ \E first \in Stale(Cache) :
       LET one == Lookup(first, refs[1])
           started == IF one.start THEN <<one.got.key>> ELSE <<>>
       IN  \/ /\ Len(refs) = 1
              /\ SetCache(one.cache) /\ StartParses(started)
              /\ Resolving(c, <<Asked(refs[1], one.got)>>)
           \/ /\ Len(refs) = 2
              /\ \E second \in Stale(one.cache) :
                   LET two == Lookup(second, refs[2])
                       again == two.start /\ two.got.key \notin ToSet(started)
                   IN  /\ SetCache(two.cache)
                       /\ StartParses(IF again THEN Append(started, two.got.key) ELSE started)
                       /\ Resolving(c, <<Asked(refs[1], one.got), Asked(refs[2], two.got)>>)
  /\ UNCHANGED <<version, lastRunId>>

\* The parse reads its source, some time after its key was taken.
ReadSource(i) ==
  /\ parses[i].read = -1
  /\ parses' = [parses EXCEPT ![i].read = version[parses[i].key[1]]]
  /\ UNCHANGED <<version, byRunId, byCacheKey, comparisons, lastRunId, calls>>

Answer(key, got) ==
  calls' = [c \in Calls |->
    [calls[c] EXCEPT !.refs = [r \in DOMAIN @ |->
       IF @[r].got.state = "waiting" /\ @[r].got.key = key THEN [@[r] EXCEPT !.got = got] ELSE @[r]]]]

\* The parse ends: its run is cached under a new id, or it fails; either way
\* the calls that share it are answered and its entry goes.
EndParse(i) ==
  /\ parses[i].read # -1
  /\ parses' = RemoveAt(parses, i)
  /\ \/ /\ lastRunId < MaxRuns
        /\ lastRunId' = lastRunId + 1
        /\ LET run == [id |-> lastRunId', key |-> parses[i].key, content |-> parses[i].read]
               added == [Cache EXCEPT !.runs = Append(@, run),
                                      !.keys = {k \in @ : k[1] # run.key} \cup {<<run.key, run.id>>}]
           IN  SetCache(EvictOverflow(added)) /\ Answer(run.key, FoundRun(run))
     \/ /\ Answer(parses[i].key, FailedRef)
        /\ UNCHANGED <<byRunId, byCacheKey, comparisons, lastRunId>>
  /\ UNCHANGED version

-----------------------------------------------------------------------------
(* The rest of a call, once its references are settled.                     *)

EndCall(c, state) == calls' = [calls EXCEPT ![c].state = state]

Fail(c) ==
  /\ calls[c].state = "resolving"
  /\ \E r \in ToSet(calls[c].refs) : r.got.state = "failed"
  /\ EndCall(c, "failed")
  /\ UNCHANGED <<version, byRunId, byCacheKey, parses, comparisons, lastRunId>>

\* diagnoseRun, getRunSummary: the id is looked up once more.
Report(c) ==
  /\ calls[c].state = "resolving"
  /\ Len(calls[c].refs) = 1 /\ calls[c].refs[1].got.state = "ready"
  /\ \E cache \in Stale(Cache) :
       LET id == calls[c].refs[1].got.id
       IN  IF id \in Cached(cache.runs)
             THEN SetCache([cache EXCEPT !.runs = Touch(@, id)]) /\ EndCall(c, "done")
             ELSE SetCache(cache) /\ EndCall(c, "failed")
  /\ UNCHANGED <<version, parses, lastRunId>>

MayKeep(ids) == \A i \in DOMAIN ids : ids[i] \in Cached(byRunId)

Renew(built, ids) ==
  LET i == CHOOSE i \in DOMAIN built : built[i] = ids
  IN  Append(RemoveAt(built, i), ids)

\* compareRuns after its awaits: a built comparison is used again or kept.
Compare(c) ==
  /\ calls[c].state = "resolving" /\ Len(calls[c].refs) = 2
  /\ \A r \in ToSet(calls[c].refs) : r.got.state = "ready"
  /\ LET ids == <<calls[c].refs[1].got.id, calls[c].refs[2].got.id>>
         kept == Append(comparisons, ids)
     IN  comparisons' =
           IF ids \in ToSet(comparisons) THEN Renew(comparisons, ids)
           ELSE IF ~MayKeep(ids) THEN comparisons
           ELSE IF Len(kept) > ComparisonCap THEN Tail(kept) ELSE kept
  /\ EndCall(c, "done")
  /\ UNCHANGED <<version, byRunId, byCacheKey, parses, lastRunId>>

\* A log still being written.
Grow(s) ==
  /\ version[s] < MaxVersion
  /\ version' = [version EXCEPT ![s] = @ + 1]
  /\ UNCHANGED <<byRunId, byCacheKey, parses, comparisons, lastRunId, calls>>

CacheNext ==
  \/ \E c \in Calls, n \in {1, 2} : \E refs \in [1..n -> References] : Call(c, refs)
  \/ \E i \in DOMAIN parses : ReadSource(i) \/ EndParse(i)
  \/ \E c \in Calls : Fail(c) \/ Report(c) \/ Compare(c)
  \/ \E s \in RunSources : Grow(s)

CacheSpec == CacheInit /\ [][CacheNext]_cacheVars

-----------------------------------------------------------------------------
(* Properties.                                                              *)

RunsReachable == byCacheKey = {<<byRunId[i].key, byRunId[i].id>> : i \in DOMAIN byRunId}

ComparisonsLive ==
  /\ \A p \in ToSet(comparisons) : {p[1], p[2]} \subseteq Cached(byRunId)
  /\ Len(comparisons) <= ComparisonCap /\ IsInjective(comparisons)

\* Every cached run is found by the key of its source and every key leads to
\* a cached run of that key: no slot is held by a run no call can reach, and no
\* key outlives an eviction.  A comparison outlives neither of its runs,
\* however the evictions fall between the lookups, the parses and the build.
CachesAgree == RunsReachable /\ ComparisonsLive

\* A call that names a file is never answered from an older version of it than
\* the one it had at the call.
NotOlderThanCall ==
  \A c \in Calls : \A r \in ToSet(calls[c].refs) :
    (r.got.state = "ready" /\ r.asked[1] = "source" /\ r.asked[2] \in Files)
      => r.got.content >= r.since
=============================================================================
