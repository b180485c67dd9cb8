----------------------------- MODULE SqlHandlers -----------------------------
(***************************************************************************)
(* What the handlers of the SQL events do to the record of one execution   *)
(* and to its entry in the model (packages/core/src/event-handlers.ts,     *)
(* model-assembler.ts), whichever line of the log they are called for.     *)
(*                                                                         *)
(* A plan is a model value that stands for a sparkPlanInfo and for the     *)
(* description printed beside it; one accumulator stands for those of a    *)
(* plan's metrics.  Its driver-side value is the number of updates added   *)
(* to it, its executor-side value the stage, if any, that reported a total last. *)
(***************************************************************************)
EXTENDS Naturals

CONSTANTS Plans,      \* the plans the lines of one execution may carry
          WithColumns,\* those whose description lists exchange columns
          SqlStages,  \* stages of the application
          Execs,      \* ids of SQL executions
          Null        \* no plan, no tree, no entry, no accumulator map

Trees == [plan : Plans, columns : WithColumns \cup {Null}, driver : Nat,
          executor : SUBSET SqlStages, stages : SUBSET SqlStages]

ASSUME SqlAssumption ==
  /\ WithColumns \subseteq Plans
  /\ Null \notin Plans \cup Nat \cup Execs \cup Trees
  /\ \A stages \in SUBSET SqlStages : stages # Null

\* The execution's entry in AppModel.sql.
Entries == [ended : BOOLEAN, adaptive : BOOLEAN, plan : Plans \cup {Null},
            tree : Trees \cup {Null}]

Executions ==
  [status : {"unseen", "open", "ended"}, plan : Plans \cup {Null},
   adaptive : BOOLEAN, resolved : BOOLEAN, driver : Nat \cup {Null},
   executor : (SUBSET SqlStages) \cup {Null},
   columns : WithColumns \cup {Null}, entry : Entries \cup {Null}]

Unseen == [status |-> "unseen", plan |-> Null, adaptive |-> FALSE,
           resolved |-> FALSE, driver |-> Null, executor |-> Null,
           columns |-> Null, entry |-> Null]

ColumnsOf(p) == IF p \in WithColumns THEN p ELSE Null

\* A posted copy of the record, with a plan or null; onSql replaces the whole entry.
SqlEntry(x, p) ==
  [ended |-> x.status = "ended", adaptive |-> x.adaptive, plan |-> p, tree |-> Null]

-----------------------------------------------------------------------------

\* startSqlExecution, with a plan or with null.
StartKeepingResolved(x, p) ==
  LET fresh == [x EXCEPT !.status = "open", !.plan = p, !.adaptive = FALSE,
                         !.driver = IF p = Null THEN @ ELSE 0,
                         !.executor = IF p = Null THEN @ ELSE {},
                         !.columns = IF p = Null THEN @ ELSE ColumnsOf(p)]
  IN  [fresh EXCEPT !.entry = SqlEntry(fresh, p)]
Start(x, p) ==
  LET fresh == [x EXCEPT !.status = "open", !.plan = p, !.adaptive = FALSE,
                         !.resolved = FALSE,
                         !.driver = IF p = Null THEN @ ELSE 0,
                         !.executor = IF p = Null THEN @ ELSE {},
                         !.columns = IF p = Null THEN @ ELSE ColumnsOf(p)]
  IN  [fresh EXCEPT !.entry = SqlEntry(fresh, p)]

\* applyAdaptiveExecutionUpdate, with a plan or with null.
UpdateKeepingColumns(x, p) ==
  IF x.status = "unseen" THEN x
  ELSE LET y == [x EXCEPT !.adaptive = TRUE, !.plan = IF p = Null THEN @ ELSE p]
       IN  [y EXCEPT !.entry = SqlEntry(y, Null)]
Update(x, p) ==
  IF x.status = "unseen" THEN x
  ELSE LET y == [x EXCEPT !.adaptive = TRUE,
                          !.plan = IF p = Null THEN @ ELSE p,
                          !.columns = IF p = Null THEN @ ELSE ColumnsOf(p)]
       IN  [y EXCEPT !.entry = SqlEntry(y, Null)]

\* applyDriverAccumUpdates
DriverUpdate(x) == IF x.driver = Null THEN x ELSE [x EXCEPT !.driver = @ + 1]

\* recordStageSqlAccumulables
StageTotal(x, s) == IF x.executor = Null THEN x ELSE [x EXCEPT !.executor = {s}]

\* resolvePlanTree.  `reporting` is taskAccumStages of the accumulator, which
\* executions may share; `own` the stages this execution's jobs listed.
ResolveUnclipped(x, reporting, own) ==
  [plan |-> x.plan, columns |-> x.columns,
   driver |-> IF x.driver = Null THEN 0 ELSE x.driver,
   executor |-> IF x.executor = Null THEN {} ELSE x.executor,
   stages |-> reporting]
ResolvePlanTree(x, reporting, own) ==
  [plan |-> x.plan, columns |-> x.columns,
   driver |-> IF x.driver = Null THEN 0 ELSE x.driver,
   executor |-> IF x.executor = Null THEN {} ELSE x.executor,
   stages |-> reporting \cap own]

\* endSqlExecution: repeated, without a plan, or with the plan to resolve.
EndKeepingMaps(x, reporting, own) ==
  LET y == [x EXCEPT !.status = IF @ = "unseen" THEN @ ELSE "ended"] IN
  IF y.resolved THEN y
  ELSE IF y.plan = Null
    THEN [y EXCEPT !.entry = IF y.status = "unseen" THEN @ ELSE SqlEntry(y, Null)]
    ELSE [y EXCEPT !.columns = Null, !.plan = Null, !.resolved = TRUE,
                   !.entry.tree = ResolvePlanTree(y, reporting, own)]
End(x, reporting, own) ==
  LET y == [x EXCEPT !.status = IF @ = "unseen" THEN @ ELSE "ended"] IN
  IF y.resolved THEN y
  ELSE IF y.plan = Null
    THEN [y EXCEPT !.driver = Null, !.executor = Null,
                   !.entry = IF y.status = "unseen" THEN @ ELSE SqlEntry(y, Null)]
    ELSE [y EXCEPT !.driver = Null, !.executor = Null, !.columns = Null,
                   !.plan = Null, !.resolved = TRUE,
                   !.entry.tree = ResolvePlanTree(y, reporting, own)]

\* emitParseCompletion drops the accumulator maps.
Completed(x) == [x EXCEPT !.driver = Null, !.executor = Null]
=============================================================================
