------------------------------ MODULE MCEventLog ------------------------------
(***************************************************************************)
(* The three records the parser builds from the events of one log that are *)
(* modelled apart: a stage (StageLifecycle), the SQL executions            *)
(* (SqlDeferral) and the cached blocks of an RDD (RddBlocks).  Their       *)
(* handlers share no state, so a behaviour is one of theirs: `record`      *)
(* says which, and the others keep their initial state.                    *)
(***************************************************************************)
EXTENDS StageLifecycle, SqlDeferral, RddBlocks

CONSTANT MaxThirdEnds   \* bound: task ends in a log with a third stage attempt

VARIABLE record

logVars == <<vars, sqlVars, rddVars, record>>

LogInit ==
  /\ record \in {"stage", "sql", "rdd"}
  /\ Init /\ SqlInit /\ RddInit
  /\ record # "rdd" => blockUpdatesLogged

LogNext ==
  \/ record = "stage" /\ Next /\ UNCHANGED <<sqlVars, rddVars, record>>
  \/ record = "sql" /\ SqlNext /\ UNCHANGED <<vars, rddVars, record>>
  \/ record = "rdd" /\ RddNext /\ UNCHANGED <<vars, sqlVars, record>>

LogSpec == LogInit /\ [][LogNext]_logVars

\* Two attempts with all their runs, three attempts with fewer of them.
FewerEndsOfThree == fate[MaxAttempts - 1] # "unsubmitted" => Cardinality(Ended) <= MaxThirdEnds
=============================================================================
