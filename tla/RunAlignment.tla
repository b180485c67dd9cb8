----------------------------- MODULE RunAlignment -----------------------------
(***************************************************************************)
(* The alignment of two runs, asked for any sequences and any runs of      *)
(* small sets: one question, then its answer.                              *)
(***************************************************************************)
EXTENDS StageAlignment

CONSTANTS Tables,   \* tables of two sequences
          Baselines, Candidates  \* runs

ASSUME QuestionsAssumption ==
  /\ \A t \in Tables : IsTable(t)
  /\ \A run \in Baselines \cup Candidates : IsRun(run)

VARIABLES table,    \* the sequences to align
          runs,     \* the runs to compare, or none
          matches,  \* the pairs of the sequences, once they are aligned
          stages    \* the alignment of the stages of the runs

alignmentVars == <<table, runs, matches, stages>>

Unknown == [known |-> FALSE]
Known(pairs) == [known |-> TRUE, pairs |-> ToSet(pairs)]

AlignmentInit == table \in Tables /\ runs = <<>> /\ matches = Unknown /\ stages = <<>>

\* compareRuns asks for two runs, and so for the table of their executions.
CompareRuns(base, cand) ==
  /\ ~matches.known /\ table.idA = <<>>
  /\ runs' = <<base, cand>>
  /\ table' = ExecutionTable(base, cand)
  /\ matches' = Known(AlignSequences(table'))
  /\ stages' = AlignStages(base, cand)

AlignTable ==
  /\ ~matches.known /\ table.idA # <<>>
  /\ matches' = Known(AlignSequences(table))
  /\ UNCHANGED <<table, runs, stages>>

AlignmentNext == AlignTable \/ \E base \in Baselines, cand \in Candidates : CompareRuns(base, cand)

AlignmentSpec == AlignmentInit /\ [][AlignmentNext]_alignmentVars

-----------------------------------------------------------------------------
(* Properties.                                                              *)

\* The pairs ascend together, none is below the minimum or outside the band,
\* no other such alignment has a higher total, and swapping two sequences that
\* leave no tie between equal ids and no band mirrors them (alignSequences).
AlignmentIsBest ==
  matches.known =>
    LET found == matches.pairs
    IN  /\ found \in Alignments(table)
        /\ \A other \in Alignments(table) : Total(table, other) <= Total(table, found)
        /\ MayMirror(table) => ToSet(AlignSequences(Swapped(table))) = Mirror(found)

\* Each stage but bookkeeping is in one pair, is unmatched or is part of a
\* plan that changed, and never two of these (alignStages).
EachStageOnce ==
  runs # <<>> =>
    LET a == stages
    IN  /\ \A i \in Ids(runs[1]) :
             Cardinality({p \in a.pairs : p.base = i})
               + Cardinality({s \in {"replanned", "unmatched"} :
                   i \in (IF s = "replanned" THEN a.replannedBase ELSE a.unmatchedBase)}) = 1
        /\ \A j \in Ids(runs[2]) :
             Cardinality({p \in a.pairs : p.cand = j})
               + Cardinality({s \in {"replanned", "unmatched"} :
                   j \in (IF s = "replanned" THEN a.replannedCand ELSE a.unmatchedCand)}) = 1

\* Two stages with one exact key in paired executions are not both left over.
NoExactLeft ==
  runs # <<>> =>
    LET a == stages
    IN  \A x \in ExecutionPairs(runs[1], runs[2]) :
          \A i \in StagesOf(runs[1], x[1]) \ {p.base : p \in a.pairs},
             j \in StagesOf(runs[2], x[2]) \ {p.cand : p \in a.pairs} :
               /\ Exact(runs[1])[i] # Exact(runs[2])[j]
               /\ Structural(runs[1])[i] # NoKey => Structural(runs[1])[i] # Structural(runs[2])[j]

\* Swapping baseline and candidate mirrors what was found, unless the table of
\* their executions is cut to a band or ties two of one id (alignStages).
SwapMirrors ==
  (runs # <<>> /\ MayMirror(table)) =>
    LET a == stages
        b == AlignStages(runs[2], runs[1])
    IN  /\ b.pairs = {[base |-> p.cand, cand |-> p.base, quality |-> p.quality] : p \in a.pairs}
        /\ <<b.replannedBase, b.replannedCand>> = <<a.replannedCand, a.replannedBase>>

StagesAlign == EachStageOnce /\ NoExactLeft /\ SwapMirrors
=============================================================================
