--------------------------- MODULE StageLifecycle ---------------------------
(***************************************************************************)
(* The record the parser keeps for one stage id                            *)
(* (packages/core/src/event-handlers.ts, stage-quantiles.ts) and the stage *)
(* the model shows (model-assembler.ts): attempts that are submitted,      *)
(* completed and resubmitted, and runs of their tasks (a first try, a      *)
(* retry, a speculative copy) that end in any order, some of them after    *)
(* the attempt completed or was replaced.  Records of different stages     *)
(* share nothing modelled here.                                            *)
(*                                                                         *)
(* A sum is kept as what it is the sum of: the executor time, bytes and    *)
(* rows of a StageAttemptTotals as how often each run's are in it (work),  *)
(* taskCount and failedTasks as how often each task is, wastedAttempts as  *)
(* how often each run is.  null totals are NoWork.                         *)
(***************************************************************************)
EXTENDS Integers, FiniteSets

CONSTANTS Indexes,      \* the stage's tasks
          Tries,        \* the runs a task may have in one attempt
          First,        \* the one Spark starts with the attempt
          Copies,       \* those that are speculative; the others are retries
          MaxAttempts,  \* bound: attempts of the stage
          MaxEnds,      \* bound: runs that end while the log is written
          NoRun

Attempts == 0..(MaxAttempts - 1)
NoAttempt == -1

\* A key of taskAttempts, and a task attempt in Spark's sense.
Tasks == [attempt : Attempts, index : Indexes]
Runs == [attempt : Attempts, index : Indexes, try : Tries]
TaskOf(r) == [attempt |-> r.attempt, index |-> r.index]
Speculative(r) == r.try \in Copies

ASSUME StageAssumption == /\ MaxAttempts \in Nat \ {0}
                          /\ MaxEnds \in Nat
                          /\ First \in Tries
                          /\ Copies \subseteq Tries \ {First}
                          /\ NoRun \notin Runs

VARIABLES
  stage,     \* the StageRecord
  model,     \* the stage in AppModel, as the messages built it
  done,      \* emitParseCompletion has run
  outcome,   \* per run: still running, or how its TaskEnd says it ended
  fate,      \* per attempt: unsubmitted, open, how it completed, or replaced
  endedIn,   \* history, per run: the attempt submitted last when it ended
  endedLate  \* history: the runs that ended after that attempt completed

vars == <<stage, model, done, outcome, fate, endedIn, endedLate>>

-----------------------------------------------------------------------------
(* Totals.                                                                  *)

Totals == [work : [Runs -> Nat], wasted : [Runs -> Nat],
           tasks : [Tasks -> Nat], failed : [Tasks -> Nat]]

Nothing(S) == [x \in S |-> 0]
Once(S, T) == [x \in S |-> IF x \in T THEN 1 ELSE 0]
Plus(a, b) == [x \in DOMAIN a |-> a[x] + b[x]]

NoWork == [work |-> Nothing(Runs), wasted |-> Nothing(Runs),
           tasks |-> Nothing(Tasks), failed |-> Nothing(Tasks)]

MergeAttemptTotals(a, b) ==
  [work |-> Plus(a.work, b.work), wasted |-> Plus(a.wasted, b.wasted),
   tasks |-> Plus(a.tasks, b.tasks), failed |-> Plus(a.failed, b.failed)]

\* A run another run of its task superseded: its work, and no task.
DiscardedAttemptTotals(r) == [NoWork EXCEPT !.work = Once(Runs, {r})]

TaskAttemptTotals(r, failed) ==
  [NoWork EXCEPT !.work = Once(Runs, {r}),
                 !.tasks = Once(Tasks, {TaskOf(r)}),
                 !.failed = Once(Tasks, IF failed THEN {TaskOf(r)} ELSE {})]

-----------------------------------------------------------------------------
(* The record.                                                              *)

\* taskAttempts is null unless `open`.
StageRecords ==
  [attemptId : Attempts \cup {NoAttempt}, open : BOOLEAN,
   taskAttempts : [Tasks -> Runs \cup {NoRun}],
   failureReason : BOOLEAN, stageAttempts : Nat, failedStageAttempts : Nat,
   own : Totals, earlierAttempts : Totals, lateAttemptWork : Totals,
   speculationWaste : [Runs -> Nat], speculativeWinners : SUBSET Tasks,
   lateSpeculationWaste : BOOLEAN]

NoTaskAttempts == [k \in Tasks |-> NoRun]

\* No record yet.
NoStage ==
  [attemptId |-> NoAttempt, open |-> FALSE, taskAttempts |-> NoTaskAttempts,
   failureReason |-> FALSE, stageAttempts |-> 0, failedStageAttempts |-> 0,
   own |-> NoWork, earlierAttempts |-> NoWork, lateAttemptWork |-> NoWork,
   speculationWaste |-> Nothing(Runs), speculativeWinners |-> {},
   lateSpeculationWaste |-> FALSE]

\* What a stage message carries of the record.
StageMessage(s) ==
  [attemptId |-> s.attemptId, own |-> s.own, earlierAttempts |-> s.earlierAttempts,
   lateAttemptWork |-> s.lateAttemptWork, speculationWaste |-> s.speculationWaste,
   stageAttempts |-> s.stageAttempts, failedStageAttempts |-> s.failedStageAttempts]

StageMessages ==
  [attemptId : Attempts \cup {NoAttempt}, own : Totals, earlierAttempts : Totals,
   lateAttemptWork : Totals, speculationWaste : [Runs -> Nat],
   stageAttempts : Nat, failedStageAttempts : Nat]

Init ==
  /\ stage = NoStage
  /\ model = StageMessage(NoStage)
  /\ done = FALSE
  /\ outcome = [r \in Runs |-> "running"]
  /\ fate = [a \in Attempts |-> "unsubmitted"]
  /\ endedIn = [r \in Runs |-> NoAttempt]
  /\ endedLate = {}

-----------------------------------------------------------------------------
(* StageSubmitted.  Spark numbers the attempts of a stage from 0 on.        *)

\* An attempt replaced before its StageCompleted is not folded.
FoldLastAttempt(s) == IF s.open THEN s.earlierAttempts ELSE s.own
FoldLateWorkToo(s) ==
  MergeAttemptTotals(s.own, MergeAttemptTotals(s.earlierAttempts, s.lateAttemptWork))
FoldEarlierAttempts(s) ==
  IF s.open THEN s.earlierAttempts ELSE MergeAttemptTotals(s.own, s.earlierAttempts)

NewRecord(s) ==
  [NoStage EXCEPT !.attemptId = s.attemptId + 1, !.open = TRUE,
                  !.stageAttempts = s.stageAttempts + 1,
                  !.failedStageAttempts = s.failedStageAttempts,
                  !.earlierAttempts = FoldEarlierAttempts(s),
                  !.lateAttemptWork = s.lateAttemptWork]

SubmitStage ==
  /\ ~done
  /\ stage.attemptId + 1 \in Attempts
  /\ stage' = NewRecord(stage)
  /\ fate' = [a \in Attempts |->
                IF a = stage.attemptId + 1 THEN "open"
                ELSE IF a = stage.attemptId /\ stage.open THEN "replaced" ELSE fate[a]]
  /\ UNCHANGED <<model, done, outcome, endedIn, endedLate>>

-----------------------------------------------------------------------------
(* StageCompleted, once or replayed with the same outcome.                  *)

Recorded(s) == {r \in Runs : s.taskAttempts[TaskOf(r)] = r}

\* finalizeStage, on a record whose taskAttempts is not null.
FinalizeStage(s) ==
  [s EXCEPT !.open = FALSE, !.taskAttempts = NoTaskAttempts,
            !.own = [work |-> Once(Runs, Recorded(s)),
                     wasted |-> s.own.wasted,
                     tasks |-> Once(Tasks, {TaskOf(r) : r \in Recorded(s)}),
                     failed |-> Once(Tasks, {TaskOf(r) : r \in {x \in Recorded(s) :
                                                               outcome[x] = "failed"}})]]

CountFailureAgain(s, failed) ==
  [s EXCEPT !.failureReason = failed,
            !.failedStageAttempts = IF failed THEN @ + 1 ELSE @]
CountFailure(s, failed) ==
  [s EXCEPT !.failureReason = failed,
            !.failedStageAttempts = IF failed /\ s.open THEN @ + 1 ELSE @]

StageCompleted(failed) ==
  LET result == IF failed THEN "failed" ELSE "ok" IN
  /\ ~done
  /\ stage.attemptId \in Attempts
  /\ fate[stage.attemptId] \in {"open", result}
  /\ fate' = [fate EXCEPT ![stage.attemptId] = result]
  /\ LET s == CountFailure(stage, failed) IN
       IF s.open
         THEN /\ stage' = FinalizeStage(s)
              /\ model' = StageMessage(FinalizeStage(s))
         ELSE /\ stage' = s
              /\ UNCHANGED model
  /\ UNCHANGED <<done, outcome, endedIn, endedLate>>

-----------------------------------------------------------------------------
(* TaskEnd (accumulateTask).                                                *)

Late(s, totals) == [s EXCEPT !.lateAttemptWork = MergeAttemptTotals(totals, @)]

\* A run whose time is waste, of speculation or of a retry.
SpeculationWaste(s, r) == [s EXCEPT !.speculationWaste[r] = @ + 1]
RetryWaste(s, r) == [s EXCEPT !.own.wasted[r] = @ + 1]
Waste(s, r) == IF Speculative(r) THEN SpeculationWaste(s, r) ELSE RetryWaste(s, r)

\* The run becomes the record of its task, which the event's attempt tells
\* apart from the tasks of other attempts.
RecordInLatestAttempt(s, r, failed) ==
  LET k == [attempt |-> s.attemptId, index |-> r.index] IN
    [s EXCEPT !.taskAttempts[k] = r,
              !.speculativeWinners = IF Speculative(r) /\ ~failed THEN @ \cup {k} ELSE @]
Record(s, r, failed) ==
  [s EXCEPT !.taskAttempts[TaskOf(r)] = r,
            !.speculativeWinners = IF Speculative(r) /\ ~failed THEN @ \cup {TaskOf(r)} ELSE @]

Existing(r) == stage.taskAttempts[TaskOf(r)]

\* A failed record gives way to a run that succeeded.
SupersedesUnlessCopy(r, failed) ==
  /\ Existing(r) # NoRun /\ outcome[Existing(r)] = "failed" /\ ~failed
  /\ ~Speculative(r)
Supersedes(r, failed) == Existing(r) # NoRun /\ outcome[Existing(r)] = "failed" /\ ~failed

\* An original that a successful copy beat is no waste.
Beaten(r) == /\ ~Speculative(r)
             /\ Speculative(Existing(r))
             /\ outcome[Existing(r)] # "failed"

FirstEnd(r, failed) ==
  /\ stage.open /\ Existing(r) = NoRun
  /\ stage' = Record(stage, r, failed)

RetrySucceededWastesWinner(r, failed) ==
  /\ stage.open /\ Supersedes(r, failed)
  /\ stage' = Record(Late(Waste(stage, r), DiscardedAttemptTotals(Existing(r))), r, failed)
RetrySucceeded(r, failed) ==
  /\ stage.open /\ Supersedes(r, failed)
  /\ stage' = Record(Late(Waste(stage, Existing(r)), DiscardedAttemptTotals(Existing(r))),
                     r, failed)

DuplicateEnd(r, failed) ==
  /\ stage.open /\ Existing(r) # NoRun /\ ~Supersedes(r, failed)
  /\ LET s == Late(stage, DiscardedAttemptTotals(r)) IN
       stage' = IF Beaten(r) THEN s ELSE Waste(s, r)

\* The record is finalized: accountLateSpeculativeLoser, then the late branch.
LostRace(r) == Speculative(r) \/ TaskOf(r) \in stage.speculativeWinners

LateLoser(r) ==
  /\ ~stage.open /\ LostRace(r)
  /\ LET s == Late(stage, DiscardedAttemptTotals(r)) IN
       stage' = IF Speculative(r)
                  THEN [SpeculationWaste(s, r) EXCEPT !.lateSpeculationWaste = TRUE] ELSE s

OfFailedAttempt(r) == stage.failureReason
OfFailedOrEarlierAttempt(r) == stage.failureReason \/ r.attempt # stage.attemptId

LateTask(r, failed) ==
  /\ ~stage.open /\ ~LostRace(r) /\ OfFailedOrEarlierAttempt(r)
  /\ stage' = Late(stage, TaskAttemptTotals(r, failed))

LateIgnored(r) ==
  /\ ~stage.open /\ ~LostRace(r) /\ ~OfFailedOrEarlierAttempt(r)
  /\ UNCHANGED stage

\* Spark: a retry is started while its attempt is the current one and open,
\* when the first try has failed.
Started(r) ==
  /\ fate[r.attempt] # "unsubmitted"
  /\ r.try \in Copies \cup {First}
     \/ LET f == [r EXCEPT !.try = First] IN
          outcome[f] = "failed" /\ endedIn[f] = f.attempt /\ f \notin endedLate

Ended == {r \in Runs : outcome[r] # "running"}

TaskEnd(r, failed) ==
  /\ ~done
  /\ Started(r) /\ r \notin Ended
  /\ Cardinality(Ended) < MaxEnds
  /\ outcome' = [outcome EXCEPT ![r] = IF failed THEN "failed" ELSE "ok"]
  /\ endedIn' = [endedIn EXCEPT ![r] = stage.attemptId]
  /\ endedLate' = IF stage.open THEN endedLate ELSE endedLate \cup {r}
  /\ \/ FirstEnd(r, failed)
     \/ RetrySucceeded(r, failed)
     \/ DuplicateEnd(r, failed)
     \/ LateLoser(r)
     \/ LateTask(r, failed)
     \/ LateIgnored(r)
  /\ UNCHANGED <<model, done, fate>>

-----------------------------------------------------------------------------
(* emitParseCompletion at the end of the log, wherever it is cut: the late  *)
(* totals patch the stage the model shows.                                  *)

EmitLateWorkOnly ==
  /\ ~done
  /\ done' = TRUE
  /\ model' = IF model.attemptId = NoAttempt THEN model
              ELSE [model EXCEPT !.lateAttemptWork = stage.lateAttemptWork]
  /\ UNCHANGED <<stage, outcome, fate, endedIn, endedLate>>
EmitParseCompletion ==
  /\ ~done
  /\ done' = TRUE
  /\ model' = IF model.attemptId = NoAttempt THEN model
              ELSE [model EXCEPT
                      !.lateAttemptWork = stage.lateAttemptWork,
                      !.speculationWaste = IF stage.lateSpeculationWaste
                                             THEN stage.speculationWaste ELSE @]
  /\ UNCHANGED <<stage, outcome, fate, endedIn, endedLate>>

Next ==
  \/ SubmitStage
  \/ \E failed \in BOOLEAN : StageCompleted(failed)
  \/ \E r \in Runs, failed \in BOOLEAN : TaskEnd(r, failed)
  \/ EmitParseCompletion

Spec == Init /\ [][Next]_vars

-----------------------------------------------------------------------------
(* Properties.                                                              *)

\* The record, the stage in the model and the log keep their types, and a
\* task's record is a run of that task.
TypeOK ==
  /\ stage \in StageRecords
  /\ \A k \in Tasks : stage.taskAttempts[k] # NoRun => TaskOf(stage.taskAttempts[k]) = k
  /\ model \in StageMessages
  /\ done \in BOOLEAN
  /\ outcome \in [Runs -> {"running", "ok", "failed"}]
  /\ fate \in [Attempts -> {"unsubmitted", "open", "ok", "failed", "replaced"}]
  /\ endedIn \in [Runs -> Attempts \cup {NoAttempt}]
  /\ endedLate \subseteq Runs

\* How often the run's work is in the totals withEarlierAttempts sums, the
\* task attempts of the open attempt included.
Counted(r) ==
  stage.own.work[r] + stage.earlierAttempts.work[r] + stage.lateAttemptWork.work[r]
    + (IF Existing(r) = r THEN 1 ELSE 0)

\* No run's executor time, bytes or rows are summed twice, and none before
\* its TaskEnd, whatever the order of ends, completions and resubmits.
WorkCountedOnce ==
  \A r \in Runs : Counted(r) <= (IF outcome[r] = "running" THEN 0 ELSE 1)

\* The runs whose work the code leaves out: those recorded in an attempt that
\* was resubmitted before its StageCompleted, and originals nobody beat that
\* end after their attempt succeeded.
LeftOut(r) ==
  LET a == endedIn[r] IN
    \/ fate[a] = "replaced"
    \/ fate[a] = "ok" /\ r \in endedLate /\ r.attempt = a /\ ~Speculative(r)

\* Every other run that ended is in the totals: the work of failed attempts,
\* of failed retries, of losing copies and of late tasks survives resubmits.
WorkKept ==
  \A r \in Runs : outcome[r] # "running" /\ ~LeftOut(r) => Counted(r) = 1

\* A run is waste of speculation or of a retry, once, and its work is then
\* among the work the stage's figures leave out.
WasteIsLateWork ==
  \A r \in Runs : stage.speculationWaste[r] + stage.own.wasted[r] <= stage.lateAttemptWork.work[r]

\* A task the finished attempt shows as failed had no run that succeeded
\* before the attempt completed.
FailedTaskHadNoSuccess ==
  \A r \in Runs :
    LET k == TaskOf(r) IN
      /\ model.own.failed[k] > 0 /\ endedIn[r] = model.attemptId /\ r \notin endedLate
      => outcome[r] # "ok"

\* The attempt counts survive resubmits, and a replayed StageCompleted counts
\* no failure twice.
AttemptsCounted ==
  /\ stage.stageAttempts = Cardinality({a \in Attempts : fate[a] # "unsubmitted"})
  /\ stage.failedStageAttempts = Cardinality({a \in Attempts : fate[a] = "failed"})

\* When the parse is done the model shows the totals of the record, late ends
\* included, unless a later attempt was still open.
ModelShowsRecord ==
  done /\ ~stage.open => model = StageMessage(stage)

\* The record a stage ends with is what the log says, and what is shown
\* (startStage, finalizeStage, emitParseCompletion).
RecordIsShown == AttemptsCounted /\ ModelShowsRecord

\* What stage-quantiles.ts and the changelog say of a stage's own figures: they
\* are those of its latest attempt, none of an earlier one that failed.
OwnFiguresAreLatestAttempt ==
  \A r \in Runs :
    model.own.work[r] > 0 /\ r.attempt # model.attemptId => fate[r.attempt] # "failed"
=============================================================================
