-------------------------- MODULE SequenceAlignment --------------------------
(***************************************************************************)
(* alignSequences (packages/core/src/sequence-alignment.ts): the weighted  *)
(* longest common subsequence of two sequences, in full or, for long ones, *)
(* in a band around the diagonal.                                          *)
(*                                                                         *)
(* A table t holds the ids of the two sequences and the score of each pair *)
(* of their elements.  Indexes count from 1.                               *)
(***************************************************************************)
EXTENDS Integers, Sequences, SequencesExt, FiniteSetsExt

CONSTANTS FullCells,  \* FULL_ALIGNMENT_MAX_CELLS
          BandBase,   \* BAND_BASE_HALF_WIDTH
          MinScore    \* the minScore every caller passes

ASSUME AlignmentAssumption == {FullCells, BandBase, MinScore} \subseteq Nat

\* Ids are numbers, a score is a natural number.
IsTable(t) ==
  /\ t.idA \in Seq(Nat) /\ t.idB \in Seq(Nat)
  /\ t.score \in [1..Len(t.idA) -> [1..Len(t.idB) -> Nat]]

Rows(t) == Len(t.idA)
Columns(t) == Len(t.idB)

Bounded(t) == Rows(t) * Columns(t) > FullCells

\* Row i may match the columns Lo..Hi.
Half(t) == BandBase + (Max({Rows(t) - Columns(t), Columns(t) - Rows(t)}) + 1) \div 2
Center(t, i) == ((i - 1) * Columns(t)) \div Rows(t) + 1
Lo(t, i) == IF Bounded(t) THEN Max({1, Center(t, i) - Half(t)}) ELSE 1
Hi(t, i) == IF Bounded(t) THEN Min({Columns(t), Center(t, i) + Half(t)}) ELSE Columns(t)

Matchable(t, i, j) == t.score[i][j] >= MinScore

\* Where the suffixes of the two sequences start.
Corners(t) == (1..Rows(t) + 1) \X (1..Columns(t) + 1)

\* best and get: the best total from the suffixes that start at (i, j).  Left
\* of the band its first cell stands in, right of it the next row answers.
BestAt(t, best, i, j) ==
  IF i > Rows(t) \/ j > Columns(t) THEN 0
  ELSE IF j < Lo(t, i) THEN best[<<i, Lo(t, i)>>]
  ELSE IF j > Hi(t, i) THEN best[<<i + 1, j>>]
  ELSE Max({best[<<i + 1, j>>], best[<<i, j + 1>>]}
             \cup (IF Matchable(t, i, j) THEN {t.score[i][j] + best[<<i + 1, j + 1>>]} ELSE {}))
Best(t) == LET best[c \in Corners(t)] == BestAt(t, best, c[1], c[2]) IN best

MatchEarly(t, best, i, j) == Matchable(t, i, j)   \* whether or not it is optimal
Match(t, best, i, j) ==
  Matchable(t, i, j) /\ t.score[i][j] + best[<<i + 1, j + 1>>] = best[<<i, j>>]

\* Where both skips are optimal, the higher id goes.
SkipA(t, best, i, j) ==
  /\ best[<<i + 1, j>>] = best[<<i, j>>]
  /\ best[<<i, j + 1>>] = best[<<i, j>>] => t.idA[i] >= t.idB[j]

\* The walk from the corner.
WalkAt(t, best, walk, i, j) ==
  IF i > Rows(t) \/ j > Columns(t) THEN <<>>
  ELSE IF j < Lo(t, i) THEN walk[<<i, Lo(t, i)>>]
  ELSE IF j > Hi(t, i) THEN walk[<<i + 1, j>>]
  ELSE IF Match(t, best, i, j) THEN <<<<i, j>>>> \o walk[<<i + 1, j + 1>>]
  ELSE IF SkipA(t, best, i, j) THEN walk[<<i + 1, j>>] ELSE walk[<<i, j + 1>>]
AlignSequences(t) ==
  LET best == [c \in Corners(t) |-> Best(t)[c]]
      walk[c \in Corners(t)] == WalkAt(t, best, walk, c[1], c[2])
  IN  walk[<<1, 1>>]

-----------------------------------------------------------------------------
(* What it is compared with.                                                *)

InBand(t, p) == p[2] \in Lo(t, p[1])..Hi(t, p[1])
Cells(t) == {p \in (1..Rows(t)) \X (1..Columns(t)) : InBand(t, p) /\ Matchable(t, p[1], p[2])}

\* Every alignment: pairs that ascend together.
Alignments(t) ==
  {s \in SUBSET Cells(t) : \A p, q \in s : p # q => (p[1] < q[1] <=> p[2] < q[2]) /\ p[1] # q[1]}

\* The scores of its pairs, row by row.
RowScore(t, s, i) ==
  IF \E j \in 1..Columns(t) : <<i, j>> \in s
    THEN t.score[i][CHOOSE j \in 1..Columns(t) : <<i, j>> \in s] ELSE 0
Total(t, s) ==
  LET from[i \in 1..Rows(t) + 1] == IF i > Rows(t) THEN 0 ELSE RowScore(t, s, i) + from[i + 1]
  IN  from[1]

Swapped(t) == [idA |-> t.idB, idB |-> t.idA,
               score |-> [j \in 1..Columns(t) |-> [i \in 1..Rows(t) |-> t.score[i][j]]]]
Mirror(pairs) == {<<p[2], p[1]>> : p \in pairs}

\* Two elements with one id, of which the walk may skip either and must skip one:
\* it skips the first sequence's, whichever of the two that is.
EvenTie(t, best, i, j) ==
  /\ t.idA[i] = t.idB[j] /\ ~Match(t, best, i, j)
  /\ best[<<i + 1, j>>] = best[<<i, j>>] /\ best[<<i, j + 1>>] = best[<<i, j>>]

\* A table that is not cut to a band and holds no such two.
MayMirror(t) ==
  /\ ~Bounded(t)
  /\ LET best == [c \in Corners(t) |-> Best(t)[c]]
     IN  \A i \in 1..Rows(t), j \in 1..Columns(t) : ~EvenTie(t, best, i, j)
=============================================================================
