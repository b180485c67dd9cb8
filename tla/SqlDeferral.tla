------------------------------ MODULE SqlDeferral ------------------------------
(***************************************************************************)
(* The SQL events of one log as dispatchLine handles them                  *)
(* (packages/core/src/event-handlers.ts): while an execution is open, only *)
(* the text of its latest adaptive update is kept, and parsed when the     *)
(* execution or the log ends.                                              *)
(***************************************************************************)
EXTENDS SqlHandlers

CONSTANTS MalformedLine, \* an update in Spark's compact form that does not parse
          MayBeMalformed,
          MaxDriver      \* bound: driver updates of an execution

ASSUME DeferralAssumption == /\ MayBeMalformed \in BOOLEAN
                             /\ MaxDriver \in Nat
                             /\ MalformedLine \notin Plans \cup {Null}

VARIABLES sqlExecutions,           \* per execution: its record and its entry in the model
          pendingAdaptiveUpdates,  \* per execution: the plan of the line kept, or Null
          taskAccumStages,         \* stages whose tasks reported the plans' accumulator
          sqlExecStages,           \* per execution: the stages its jobs listed
          stageToSqlExec,          \* per stage: the execution whose job listed it last
          logEnded,
          life  \* history, per execution: what its lines said since its last start

sqlVars == <<sqlExecutions, pendingAdaptiveUpdates, taskAccumStages, sqlExecStages,
             stageToSqlExec, logEnded, life>>

Unborn == [plan |-> Null, maps |-> FALSE, driver |-> 0, executor |-> {}]

SqlInit ==
  /\ sqlExecutions = [e \in Execs |-> Unseen]
  /\ pendingAdaptiveUpdates = [e \in Execs |-> Null]
  /\ taskAccumStages = {}
  /\ sqlExecStages = [e \in Execs |-> {}]
  /\ stageToSqlExec = [s \in SqlStages |-> Null]
  /\ logEnded = FALSE
  /\ life = [e \in Execs |-> Unborn]

IsOpen(e) == sqlExecutions[e].status = "open"

-----------------------------------------------------------------------------
(* The lines of the log.  Spark writes the updates of an execution between *)
(* its start and its end; an end may be repeated, and an id started again  *)
(* after its end.                                                          *)

SqlExecutionStart(e, p) ==
  /\ ~logEnded /\ ~IsOpen(e)
  /\ sqlExecutions' = [sqlExecutions EXCEPT ![e] = Start(@, p)]
  /\ life' = [life EXCEPT ![e] = [Unborn EXCEPT !.plan = p, !.maps = p # Null]]
  /\ UNCHANGED <<pendingAdaptiveUpdates, taskAccumStages, sqlExecStages, stageToSqlExec, logEnded>>

\* deferAdaptiveUpdate: kept instead of the one it supersedes.
DeferAdaptiveUpdate(e, p) ==
  /\ ~logEnded /\ IsOpen(e)
  /\ pendingAdaptiveUpdates' = [pendingAdaptiveUpdates EXCEPT ![e] = p]
  /\ life' = [life EXCEPT ![e].plan = IF p = MalformedLine THEN @ ELSE p]
  /\ UNCHANGED <<sqlExecutions, taskAccumStages, sqlExecStages, stageToSqlExec, logEnded>>

\* flushAdaptiveUpdate: a line that does not parse is skipped.
Flushed(e) ==
  IF pendingAdaptiveUpdates[e] \in Plans
    THEN Update(sqlExecutions[e], pendingAdaptiveUpdates[e])
    ELSE sqlExecutions[e]

\* An update that carries no plan, or does not end as Spark's do, is handled
\* at once, after the one that is kept.
UpdateBeforePending(e, p) ==
  /\ sqlExecutions' = [sqlExecutions EXCEPT ![e] = Update(@, p)]
  /\ UNCHANGED pendingAdaptiveUpdates
UpdateAfterPending(e, p) ==
  /\ sqlExecutions' = [sqlExecutions EXCEPT ![e] = Update(Flushed(e), p)]
  /\ pendingAdaptiveUpdates' = [pendingAdaptiveUpdates EXCEPT ![e] = Null]

AdaptiveUpdateNow(e, p) ==
  /\ ~logEnded /\ IsOpen(e)
  /\ UpdateAfterPending(e, p)
  /\ life' = [life EXCEPT ![e].plan = IF p = Null THEN @ ELSE p]
  /\ UNCHANGED <<taskAccumStages, sqlExecStages, stageToSqlExec, logEnded>>

SqlExecutionEndKeepsLine(e) ==
  /\ ~logEnded /\ sqlExecutions[e].status # "unseen"
  /\ sqlExecutions' = [sqlExecutions EXCEPT ![e] =
                         End(@, taskAccumStages, sqlExecStages[e])]
  /\ UNCHANGED <<pendingAdaptiveUpdates, taskAccumStages, sqlExecStages, stageToSqlExec, logEnded, life>>
SqlExecutionEnd(e) ==
  /\ ~logEnded /\ sqlExecutions[e].status # "unseen"
  /\ sqlExecutions' = [sqlExecutions EXCEPT ![e] =
                         End(Flushed(e), taskAccumStages, sqlExecStages[e])]
  /\ pendingAdaptiveUpdates' = [pendingAdaptiveUpdates EXCEPT ![e] = Null]
  /\ UNCHANGED <<taskAccumStages, sqlExecStages, stageToSqlExec, logEnded, life>>

DriverAccumUpdates(e) ==
  /\ ~logEnded
  /\ sqlExecutions[e].driver # MaxDriver
  /\ sqlExecutions' = [sqlExecutions EXCEPT ![e] = DriverUpdate(@)]
  /\ life' = [life EXCEPT ![e].driver = IF IsOpen(e) /\ life[e].maps THEN @ + 1 ELSE @]
  /\ UNCHANGED <<pendingAdaptiveUpdates, taskAccumStages, sqlExecStages, stageToSqlExec, logEnded>>

\* startJob: a later job that lists the stage again takes its totals over.
JobStart(e, s) ==
  /\ ~logEnded
  /\ sqlExecStages' = [sqlExecStages EXCEPT ![e] = @ \cup {s}]
  /\ stageToSqlExec' = [stageToSqlExec EXCEPT ![s] = e]
  /\ UNCHANGED <<sqlExecutions, pendingAdaptiveUpdates, taskAccumStages, logEnded, life>>

\* accumulateTask, of a task that reports the accumulator.
TaskReports(s) ==
  /\ ~logEnded
  /\ taskAccumStages' = taskAccumStages \cup {s}
  /\ UNCHANGED <<sqlExecutions, pendingAdaptiveUpdates, sqlExecStages, stageToSqlExec, logEnded, life>>

\* StageCompleted (recordStageSqlAccumulables)
StageReports(s) ==
  /\ ~logEnded
  /\ stageToSqlExec[s] # Null
  /\ LET e == stageToSqlExec[s] IN
       /\ sqlExecutions' = [sqlExecutions EXCEPT ![e] = StageTotal(@, s)]
       /\ life' = [life EXCEPT ![e].executor = IF IsOpen(e) /\ life[e].maps THEN {s} ELSE @]
  /\ UNCHANGED <<pendingAdaptiveUpdates, taskAccumStages, sqlExecStages, stageToSqlExec, logEnded>>

\* emitParseCompletion
ParseCompletion ==
  /\ ~logEnded
  /\ logEnded' = TRUE
  /\ sqlExecutions' = [e \in Execs |-> Completed(Flushed(e))]
  /\ pendingAdaptiveUpdates' = [e \in Execs |-> Null]
  /\ UNCHANGED <<taskAccumStages, sqlExecStages, stageToSqlExec, life>>

Deferrable == IF MayBeMalformed THEN Plans \cup {MalformedLine} ELSE Plans

SqlNext ==
  \/ \E e \in Execs :
       \/ \E p \in Plans \cup {Null} : SqlExecutionStart(e, p) \/ AdaptiveUpdateNow(e, p)
       \/ \E p \in Deferrable : DeferAdaptiveUpdate(e, p)
       \/ SqlExecutionEnd(e)
       \/ DriverAccumUpdates(e)
       \/ \E s \in SqlStages : JobStart(e, s)
  \/ \E s \in SqlStages : TaskReports(s) \/ StageReports(s)
  \/ ParseCompletion

SqlSpec == SqlInit /\ [][SqlNext]_sqlVars

-----------------------------------------------------------------------------
(* Properties.                                                              *)

\* The records, the kept lines and the maps around them have their types; a
\* line is kept for an open execution only.
SqlTypeOK ==
  /\ sqlExecutions \in [Execs -> Executions]
  /\ pendingAdaptiveUpdates \in [Execs -> Plans \cup {Null, MalformedLine}]
  /\ taskAccumStages \subseteq SqlStages
  /\ sqlExecStages \in [Execs -> SUBSET SqlStages]
  /\ stageToSqlExec \in [SqlStages -> Execs \cup {Null}]
  /\ logEnded \in BOOLEAN
  /\ \A e \in Execs : pendingAdaptiveUpdates[e] # Null => IsOpen(e) /\ ~logEnded

\* Keeping only the latest update changes nothing: the log reads as if each
\* update had been applied in its place (dispatchLine, deferAdaptiveUpdate).
Eager == INSTANCE SqlReading WITH reading <- [e \in Execs |-> Flushed(e)],
                                  reporting <- taskAccumStages,
                                  own <- sqlExecStages
ImplementsReading == Eager!ReadingSpec

\* The tree shown for an execution that ended is of the last plan its lines
\* carried, adaptive updates included (endSqlExecution).
EndedShowsLastPlan ==
  \A e \in Execs : LET x == sqlExecutions[e] IN
    (x.status = "ended" /\ life[e].plan # Null)
      => (x.entry.tree # Null /\ x.entry.tree.plan = life[e].plan)

\* The exchange columns of a tree come from the description printed beside
\* its own plan, never from a plan it superseded (setExchangeColumns).
ColumnsOfItsPlan ==
  \A e \in Execs : LET x == sqlExecutions[e] IN
    (x.entry # Null /\ x.entry.tree # Null)
      => x.entry.tree.columns = ColumnsOf(x.entry.tree.plan)

\* A tree counts the driver updates and the stage totals read between the
\* start it belongs to and its end, and none of an earlier life of its id or
\* of the time after its end (accumState, executorAccumState).
MetricsOfItsLife ==
  \A e \in Execs : LET x == sqlExecutions[e] IN
    (x.entry # Null /\ x.entry.tree # Null)
      => /\ x.entry.tree.driver = life[e].driver
         /\ x.entry.tree.executor = life[e].executor

\* A tree names only stages that the execution's own jobs listed, though its
\* accumulators may be shared with other executions (resolvePlanTree).
StagesOfItsJobs ==
  \A e \in Execs : LET x == sqlExecutions[e] IN
    (x.entry # Null /\ x.entry.tree # Null) => x.entry.tree.stages \subseteq sqlExecStages[e]

\* What an execution shows is its own, however plans, jobs and accumulators
\* are superseded, shared and started again (endSqlExecution, resolvePlanTree).
TreeIsItsOwn == SqlTypeOK /\ EndedShowsLastPlan /\ ColumnsOfItsPlan /\ MetricsOfItsLife /\ StagesOfItsJobs
=============================================================================
