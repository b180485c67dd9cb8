-------------------------- MODULE MCIngestSession --------------------------
(***************************************************************************)
(* TLC instances of IngestSession: one file, or two files that nothing but *)
(* their names tells apart.                                                *)
(***************************************************************************)
EXTENDS IngestSession, TLC

CONSTANTS f1, f2

OneFile == {f1}
TwoFiles == {f1, f2}
Unanswered == <<store, clientRef, pendingRef, clients, parses, loads, waiting, recents>>
Symmetry == Permutations(TwoFiles)
=============================================================================
