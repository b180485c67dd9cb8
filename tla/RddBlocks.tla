------------------------------- MODULE RddBlocks -------------------------------
(***************************************************************************)
(* Which partitions of an RDD are cached, as the parser follows it         *)
(* (packages/core/src/event-handlers.ts): block updates, executors that    *)
(* take their blocks with them, and the snapshots that submitted stages    *)
(* carry.  A block has one unit of bytes wherever its level says it lives; *)
(* an update reports both sizes whatever its level.                        *)
(***************************************************************************)
EXTENDS Integers, FiniteSets

CONSTANTS Rdds, Partitions, Executors

ASSUME RddAssumption == IsFiniteSet(Rdds) /\ IsFiniteSet(Partitions) /\ IsFiniteSet(Executors)

VARIABLES
  rddBlocks,              \* per RDD: its resident blocks and what is summed over them
  rddBlockKeysByExecutor, \* per executor: its resident blocks
  rddInfo,                \* per RDD: the record published
  blockUpdatesLogged,     \* the log has block updates (spark.eventLog.logBlockUpdates)
  cache,  \* history: the level of every block Spark holds, as the log told it
  most    \* history, per RDD: the most partitions cached at one of its updates,
          \* and the bytes at the last update that found as many

rddVars == <<rddBlocks, rddBlockKeysByExecutor, rddInfo, blockUpdatesLogged, cache, most>>

Keys == Partitions \X Executors
NotResident == [memory |-> 0, disk |-> 0]
Levels == [memory : 0..1, disk : 0..1]   \* NotResident is level NONE
Sizes == Int \X Int

\* No record, or one published by a snapshot or by a block update.
NoInfo == [source |-> "none", persisted |-> FALSE, cached |-> 0, bytes |-> <<0, 0>>]
Infos == [source : {"none", "rddInfo", "blockUpdates"}, persisted : BOOLEAN,
          cached : Nat, bytes : Sizes]

NoBlocks == [blocks |-> [k \in Keys |-> NotResident], bytes |-> <<0, 0>>,
             replicas |-> [p \in Partitions |-> 0], peak |-> 0]

RddInit ==
  /\ rddBlocks = [r \in Rdds |-> NoBlocks]
  /\ rddBlockKeysByExecutor = [x \in Executors |-> {}]
  /\ rddInfo = [r \in Rdds |-> NoInfo]
  /\ blockUpdatesLogged \in BOOLEAN
  /\ cache = [r \in Rdds |-> [k \in Keys |-> NotResident]]
  /\ most = [r \in Rdds |-> [cached |-> 0, bytes |-> <<0, 0>>]]

\* What some levels hold: the blocks, their partitions and their bytes.
Held(levels) == {k \in Keys : levels[k] # NotResident}
PartitionsOf(levels) == {k[1] : k \in Held(levels)}
BytesOf(levels) == <<Cardinality({k \in Keys : levels[k].memory = 1}),
                     Cardinality({k \in Keys : levels[k].disk = 1})>>

-----------------------------------------------------------------------------
\* dropRddBlock, of a block that is resident or not.
DropKeepingReplica(b, k) ==
  IF b.blocks[k] = NotResident THEN b
  ELSE [b EXCEPT !.blocks[k] = NotResident,
                 !.bytes = <<@[1] - b.blocks[k].memory, @[2] - b.blocks[k].disk>>]
DropRddBlock(b, k) ==
  IF b.blocks[k] = NotResident THEN b
  ELSE [b EXCEPT !.blocks[k] = NotResident,
                 !.bytes = <<@[1] - b.blocks[k].memory, @[2] - b.blocks[k].disk>>,
                 !.replicas[k[1]] = @ - 1]

\* Its key leaves the index of its executor.
DropKey(keys, r, k) ==
  IF rddBlocks[r].blocks[k] = NotResident THEN keys ELSE keys \ {<<r, k>>}

AddRddBlock(b, k, level) ==
  IF level = NotResident THEN b
  ELSE [b EXCEPT !.blocks[k] = level,
                 !.bytes = <<@[1] + level.memory, @[2] + level.disk>>,
                 !.replicas[k[1]] = @ + 1]

Cached(b) == Cardinality({p \in Partitions : b.replicas[p] > 0})

\* The record published with the state after an update; a tie refreshes it.
PublishAbovePeak(info, b) ==
  IF Cached(b) > b.peak THEN [info EXCEPT !.cached = Cached(b), !.bytes = b.bytes] ELSE info
Publish(info, b) ==
  IF Cached(b) >= b.peak THEN [info EXCEPT !.cached = Cached(b), !.bytes = b.bytes] ELSE info

\* recordBlockUpdate
BlockUpdated(r, k, level) ==
  /\ blockUpdatesLogged
  /\ LET b == AddRddBlock(DropRddBlock(rddBlocks[r], k), k, level)
         info == IF rddInfo[r] = NoInfo
                   THEN [NoInfo EXCEPT !.persisted = level # NotResident] ELSE rddInfo[r]
     IN  /\ rddBlocks' = [rddBlocks EXCEPT ![r] = [b EXCEPT !.peak = IF Cached(b) >= @ THEN Cached(b) ELSE @]]
         /\ rddInfo' = [rddInfo EXCEPT ![r] = Publish([info EXCEPT !.source = "blockUpdates"], b)]
  /\ rddBlockKeysByExecutor' =
       [rddBlockKeysByExecutor EXCEPT ![k[2]] =
          DropKey(@, r, k) \cup (IF level = NotResident THEN {} ELSE {<<r, k>>})]
  /\ cache' = [cache EXCEPT ![r][k] = level]
  /\ LET now == [cached |-> Cardinality(PartitionsOf(cache'[r])), bytes |-> BytesOf(cache'[r])]
     IN  most' = [most EXCEPT ![r] = IF now.cached >= @.cached THEN now ELSE @]
  /\ UNCHANGED blockUpdatesLogged

\* removeExecutor: blocks lost with their executor get no update.  They are
\* dropped one by one; the order makes no difference.
Dropped[S \in SUBSET (Rdds \X Keys)] ==
  IF S = {} THEN rddBlocks
  ELSE LET d == CHOOSE d \in S : TRUE
           rest == Dropped[S \ {d}]
       IN  [rest EXCEPT ![d[1]] = DropRddBlock(@, d[2])]

DropExecutorBlocks(x) == rddBlocks' = Dropped[rddBlockKeysByExecutor[x]]

ExecutorRemoved(x) ==
  /\ DropExecutorBlocks(x)
  /\ rddBlockKeysByExecutor' =
       [rddBlockKeysByExecutor EXCEPT ![x] =
          {d \in @ : rddBlocks[d[1]].blocks[d[2]] = NotResident}]
  /\ cache' = [r \in Rdds |-> [k \in Keys |-> IF k[2] = x THEN NotResident ELSE cache[r][k]]]
  /\ UNCHANGED <<rddInfo, blockUpdatesLogged, most>>

\* mergeStageRddInfo, of one RDD a submitted stage lists.  Its snapshot has
\* no figures (Spark 2.3 on) or those of the moment.
Snapshots(r) ==
  IF blockUpdatesLogged
    THEN {0, Cardinality(PartitionsOf(cache[r]))}
    ELSE 0..Cardinality(Partitions)

Or(a, b) == IF a # 0 THEN a ELSE b

MergeOverwriting(r, persisted, cached) ==
  [source |-> IF rddInfo[r].source = "none" THEN "rddInfo" ELSE rddInfo[r].source,
   persisted |-> persisted, cached |-> cached, bytes |-> <<cached, 0>>]
MergeStageRddInfo(r, persisted, cached) ==
  LET prev == rddInfo[r]
      fromBlocks == prev.source = "blockUpdates"
  IN  [source |-> IF prev.source = "none" THEN "rddInfo" ELSE prev.source,
       persisted |-> IF fromBlocks /\ ~persisted THEN prev.persisted ELSE persisted,
       cached |-> IF fromBlocks THEN prev.cached ELSE Or(cached, prev.cached),
       bytes |-> IF fromBlocks THEN prev.bytes ELSE <<Or(cached, prev.bytes[1]), prev.bytes[2]>>]

StageListsRdd(r, persisted) ==
  /\ \E cached \in Snapshots(r) :
       rddInfo' = [rddInfo EXCEPT ![r] = MergeStageRddInfo(r, persisted, cached)]
  /\ UNCHANGED <<rddBlocks, rddBlockKeysByExecutor, blockUpdatesLogged, cache, most>>

RddNext ==
  \/ \E r \in Rdds, k \in Keys, level \in Levels : BlockUpdated(r, k, level)
  \/ \E x \in Executors : ExecutorRemoved(x)
  \/ \E r \in Rdds, persisted \in BOOLEAN : StageListsRdd(r, persisted)

RddSpec == RddInit /\ [][RddNext]_rddVars

-----------------------------------------------------------------------------
(* Properties.                                                              *)

RddTypeOK ==
  /\ \A r \in Rdds :
       /\ rddBlocks[r].blocks \in [Keys -> Levels]
       /\ rddBlocks[r].bytes \in Nat \X Nat
       /\ rddBlocks[r].replicas \in [Partitions -> Nat]
       /\ rddBlocks[r].peak \in 0..Cardinality(Partitions)
       /\ rddInfo[r] \in Infos
  /\ rddBlockKeysByExecutor \in [Executors -> SUBSET (Rdds \X Keys)]

\* What is kept of an RDD agrees with the blocks Spark holds, through updates
\* and executors lost in any order: the blocks, the replicas per partition,
\* the bytes and the index by executor (recordBlockUpdate, removeExecutor).
StructuresAgree ==
  \A r \in Rdds :
    LET b == rddBlocks[r]
        held == Held(cache[r])
    IN  /\ b.blocks = cache[r]
        /\ \A p \in Partitions : b.replicas[p] = Cardinality({k \in held : k[1] = p})
        /\ b.bytes = BytesOf(cache[r])
        /\ \A x \in Executors : {k \in Keys : <<r, k>> \in rddBlockKeysByExecutor[x]}
                                  = {k \in held : k[2] = x}

\* The record shows the most partitions ever cached at once and the bytes of
\* the latest update that found as many, never more than Spark held and never
\* what a later snapshot says (recordBlockUpdate, mergeStageRddInfo).
PeakIsShown ==
  \A r \in Rdds : rddInfo[r].source = "blockUpdates" =>
    /\ rddInfo[r].cached = most[r].cached
    /\ rddInfo[r].bytes = most[r].bytes

\* What is kept of the blocks and what is shown of them are both Spark's.
ResidencyAgrees == RddTypeOK /\ StructuresAgree /\ PeakIsShown

\* A later snapshot or update never says of an RDD shown as cached that it is
\* not; and once block updates of it were seen, none takes the level it was
\* persisted with.  Before that a snapshot's level replaces the one it had, as
\* nothing then tells an unpersist() from a snapshot (mergeStageRddInfo).
CachedNotLost ==
  [][\A r \in Rdds :
       /\ rddInfo[r].cached > 0 => rddInfo'[r].cached > 0
       /\ (rddInfo[r].source = "blockUpdates" /\ rddInfo[r].persisted)
            => rddInfo'[r].persisted]_rddVars
=============================================================================
