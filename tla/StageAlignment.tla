---------------------------- MODULE StageAlignment ----------------------------
(***************************************************************************)
(* alignStages (packages/core/src/stage-alignment.ts): which stages of the *)
(* baseline and of the candidate are the same work.  SQL executions are    *)
(* aligned first, then the stages of the executions that were paired.      *)
(*                                                                         *)
(* A run is a sequence of stages, a stage's place being its id; a stage is *)
(* its kind, what its keys and texts are made of, and its execution.  The  *)
(* structure of an execution is that of its stages; without user frames or *)
(* a description it is all that an execution's similarity reads.           *)
(***************************************************************************)
EXTENDS SequenceAlignment

CONSTANTS Kinds,         \* kinds of stages
          Similarity,    \* of two kinds, in tenths: jaccard of their details
          AlignedMin,    \* ALIGNED_MIN_SIMILARITY, in tenths
          MaxPairCells,  \* MAX_STAGE_SIMILARITY_CELLS
          NoKey, NoExecution

\* A kind has an exact key, a structural one or NoKey, a name, the text of its
\* call site, and may be the bookkeeping of a Delta table.
ASSUME KindsAssumption ==
  /\ \A k \in Kinds : /\ DOMAIN k = {"exact", "structural", "name", "site", "bookkeeping"}
                      /\ NoKey \notin {k.name, <<k.exact, NoKey>>, <<k.exact, k.site>>}
  /\ \A k, l \in Kinds : Similarity[k][l] \in 0..10 /\ Similarity[k][l] = Similarity[l][k]
  /\ {AlignedMin, MaxPairCells} \subseteq Nat

IsRun(run) == run \in Seq([kind : Kinds, execution : Nat \cup {NoExecution}])

Ids(run) == {i \in DOMAIN run : ~run[i].kind.bookkeeping}
StagesOf(run, e) == {i \in Ids(run) : run[i].execution = e}
Ascending(S) == CHOOSE s \in SetToSeqs(S) : \A i, j \in DOMAIN s : i < j => s[i] < s[j]
Executions(run) == Ascending({run[i].execution : i \in Ids(run)} \ {NoExecution})

\* pairByKey: stages that share a key pair off in the order of their ids, as
\* many as both sides have.
Rank(free, key, i) == Cardinality({j \in free : j <= i /\ key[j] = key[i]})
PairByKey(freeB, freeC, keyB, keyC) ==
  {p \in freeB \X freeC : /\ keyB[p[1]] # NoKey /\ keyB[p[1]] = keyC[p[2]]
                          /\ Rank(freeB, keyB, p[1]) = Rank(freeC, keyC, p[2])}

\* indexRun: what the structure of an execution counts of each stage.
Token(k) == IF k.structural # NoKey THEN k.structural ELSE k.name
Tokens(run) == [i \in DOMAIN run |-> Token(run[i].kind)]

\* executionSimilarity: multiset Jaccard, 0 to 1000, rounded.  Equal tokens of
\* the two pair off.
ExecutionSimilarity(base, cand, e, f) ==
  LET a == StagesOf(base, e)
      b == StagesOf(cand, f)
      both == Cardinality(PairByKey(a, b, Tokens(base), Tokens(cand)))
      all == Cardinality(a) + Cardinality(b) - both
  IN  (2000 * both + all) \div (2 * all)

ExecutionTable(base, cand) ==
  LET a == Executions(base)
      b == Executions(cand)
  IN  [idA |-> a, idB |-> b,
       score |-> [i \in DOMAIN a |-> [j \in DOMAIN b |-> ExecutionSimilarity(base, cand, a[i], b[j])]]]

-----------------------------------------------------------------------------
(* alignWithin: the stages of two executions.                               *)

\* What pairs the stages of a run, stage by stage.
Exact(run) ==
  [i \in DOMAIN run |-> <<run[i].kind.exact,
                          IF run[i].execution = NoExecution THEN run[i].kind.site ELSE NoKey>>]
Structural(run) == [i \in DOMAIN run |-> run[i].kind.structural]
NameOnly(run) ==
  [i \in DOMAIN run |-> IF run[i].kind.structural = NoKey THEN run[i].kind.name ELSE NoKey]

LeftAll(free, pairs, side) == free   \* a pair does not take its stages
Left(free, pairs, side) == free \ {p[side] : p \in pairs}

Score(base, cand, p) == Similarity[base[p[1]].kind][cand[p[2]].kind]

\* The best score first, ties by lower ids.
Before(base, cand, p, q) ==
  LET s == Score(base, cand, p)
      r == Score(base, cand, q)
  IN  s > r \/ (s = r /\ (p[1] + p[2] < q[1] + q[2]
                           \/ (p[1] + p[2] = q[1] + q[2] /\ p[1] < q[1])))
First(base, cand, S) == CHOOSE p \in S : \A q \in S \ {p} : Before(base, cand, p, q)

\* Each pair whose stages are free.
PairSimilar(base, cand, freeB, freeC) ==
  LET planned(run, free) == {i \in free : Structural(run)[i] # NoKey}
      cells == planned(base, freeB) \X planned(cand, freeC)
      candidates == {p \in cells : Score(base, cand, p) >= AlignedMin}
      taken[S \in SUBSET candidates] ==
        IF S = {} THEN {}
        ELSE LET p == First(base, cand, S)
             IN  {p} \cup taken[{q \in S : q[1] # p[1] /\ q[2] # p[2]}]
  IN  IF Cardinality(cells) > MaxPairCells THEN {} ELSE taken[candidates]

\* The stages of the pairs are taken, and the later passes see those left.
Take(within, pairs, quality) ==
  [pairs |-> within.pairs \cup {[base |-> p[1], cand |-> p[2], quality |-> quality] : p \in pairs},
   leftBase |-> Left(within.leftBase, pairs, 1), leftCand |-> Left(within.leftCand, pairs, 2)]

TakeByKey(within, keyB, keyC, quality) ==
  Take(within, PairByKey(within.leftBase, within.leftCand, keyB, keyC), quality)
TakeSimilar(within, base, cand) ==
  Take(within, PairSimilar(base, cand, within.leftBase, within.leftCand), "aligned")

AlignWithin(base, cand, e, f) ==
  LET all == [pairs |-> {}, leftBase |-> StagesOf(base, e), leftCand |-> StagesOf(cand, f)]
  IN  TakeByKey(TakeSimilar(TakeByKey(TakeByKey(all,
                  Exact(base), Exact(cand), "exact"),
                Structural(base), Structural(cand), "structural"),
              base, cand),
            NameOnly(base), NameOnly(cand), "aligned")

-----------------------------------------------------------------------------
(* alignStages.                                                             *)

\* At least half of the executions of the smaller run must pair.
Accepted(base, cand, paired) ==
  2 * Len(paired) >= Min({Len(Executions(base)), Len(Executions(cand))})

ExecutionPairs(base, cand) ==
  LET paired == AlignSequences(ExecutionTable(base, cand))
      outside == IF StagesOf(base, NoExecution) # {} /\ StagesOf(cand, NoExecution) # {}
                   THEN {<<NoExecution, NoExecution>>} ELSE {}
  IN  IF ~Accepted(base, cand, paired) THEN {}
      ELSE {<<Executions(base)[p[1]], Executions(cand)[p[2]]>> : p \in ToSet(paired)} \cup outside

\* Leftovers under one pair of executions with different stage counts: the
\* plan changed, not the work.
Replanned(base, cand, x) ==
  x[1] # NoExecution /\ Cardinality(StagesOf(base, x[1])) # Cardinality(StagesOf(cand, x[2]))
Leftovers(base, cand, within) ==
  LET groups == {x \in DOMAIN within : Replanned(base, cand, x)}
  IN  [base |-> UNION {within[x].leftBase : x \in groups},
       cand |-> UNION {within[x].leftCand : x \in groups}]

\* The rest of alignStages, over the pairs of executions.
StageAlignmentOf(base, cand, pairs, replanned) ==
  [pairs |-> pairs,
   replannedBase |-> replanned.base, replannedCand |-> replanned.cand,
   unmatchedBase |-> Ids(base) \ (replanned.base \cup {p.base : p \in pairs}),
   unmatchedCand |-> Ids(cand) \ (replanned.cand \cup {p.cand : p \in pairs})]
OfPairs(base, cand, within) ==
  StageAlignmentOf(base, cand, UNION {within[x].pairs : x \in DOMAIN within},
                   Leftovers(base, cand, within))

AlignStages(base, cand) ==
  OfPairs(base, cand, [x \in ExecutionPairs(base, cand) |-> AlignWithin(base, cand, x[1], x[2])])
=============================================================================
