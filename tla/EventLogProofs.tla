---------------------------- MODULE EventLogProofs ----------------------------
(***************************************************************************)
(* What the event handlers keep of an event log, for logs of any size.     *)
(*                                                                         *)
(* Stages (StageLifecycle): types, the conservation of the runs' work,     *)
(* that waste is work the stage's figures leave out, and what the record   *)
(* shows, for any number of tasks, tries and attempts.  RDDs (RddBlocks):  *)
(* what the parser keeps and shows of an RDD's blocks are those that Spark *)
(* holds, for any order of updates, snapshots and lost executors.  SQL     *)
(* executions (SqlDeferral): keeping only the latest adaptive update of an *)
(* open execution changes nothing, and an execution shows what its own     *)
(* lines said, for any number of executions, plans, stages and updates.    *)
(*                                                                         *)
(* The lemmas of the SQL part say what each handler of SqlHandlers makes   *)
(* of each field of a record; the proofs use those facts, never the        *)
(* records.                                                                *)
(***************************************************************************)
EXTENDS StageLifecycle, RddBlocks, SqlDeferral, FiniteSetTheorems, WellFoundedInduction, TLAPS

-----------------------------------------------------------------------------
(* Totals.                                                                  *)

LEMMA OnceFact ==
  ASSUME NEW S, NEW T
  PROVE  /\ Once(S, T) \in [S -> Nat]
         /\ \A x \in S : Once(S, T)[x] = IF x \in T THEN 1 ELSE 0
BY DEF Once

LEMMA NoWorkFact ==
  /\ NoWork \in Totals
  /\ Nothing(Runs) \in [Runs -> Nat]
  /\ \A x \in Runs : NoWork.work[x] = 0 /\ NoWork.wasted[x] = 0 /\ Nothing(Runs)[x] = 0
BY DEF NoWork, Nothing, Totals

LEMMA PlusFact ==
  ASSUME NEW S, NEW a \in [S -> Nat], NEW b \in [S -> Nat]
  PROVE  /\ Plus(a, b) \in [S -> Nat]
         /\ \A x \in S : Plus(a, b)[x] = a[x] + b[x]
BY DEF Plus

LEMMA MergeFact ==
  ASSUME NEW a \in Totals, NEW b \in Totals
  PROVE  /\ MergeAttemptTotals(a, b) \in Totals
         /\ \A x \in Runs : MergeAttemptTotals(a, b).work[x] = a.work[x] + b.work[x]
<1>1. /\ a.work \in [Runs -> Nat] /\ b.work \in [Runs -> Nat]
      /\ a.wasted \in [Runs -> Nat] /\ b.wasted \in [Runs -> Nat]
      /\ a.tasks \in [Tasks -> Nat] /\ b.tasks \in [Tasks -> Nat]
      /\ a.failed \in [Tasks -> Nat] /\ b.failed \in [Tasks -> Nat]
  BY DEF Totals
<1>2. /\ Plus(a.work, b.work) \in [Runs -> Nat]
      /\ \A x \in Runs : Plus(a.work, b.work)[x] = a.work[x] + b.work[x]
  BY <1>1, PlusFact
<1>3. /\ Plus(a.wasted, b.wasted) \in [Runs -> Nat]
      /\ Plus(a.tasks, b.tasks) \in [Tasks -> Nat]
      /\ Plus(a.failed, b.failed) \in [Tasks -> Nat]
  BY <1>1, PlusFact
<1> QED  BY <1>2, <1>3 DEF MergeAttemptTotals, Totals

LEMMA DiscardedFact ==
  ASSUME NEW r \in Runs
  PROVE  /\ DiscardedAttemptTotals(r) \in Totals
         /\ \A x \in Runs : DiscardedAttemptTotals(r).work[x] = IF x = r THEN 1 ELSE 0
<1>1. /\ Once(Runs, {r}) \in [Runs -> Nat]
      /\ \A x \in Runs : Once(Runs, {r})[x] = IF x = r THEN 1 ELSE 0
  BY OnceFact
<1> QED  BY <1>1, NoWorkFact DEF DiscardedAttemptTotals, Totals, NoWork

LEMMA TaskAttemptFact ==
  ASSUME NEW r \in Runs, NEW failed \in BOOLEAN
  PROVE  /\ TaskAttemptTotals(r, failed) \in Totals
         /\ \A x \in Runs : TaskAttemptTotals(r, failed).work[x] = IF x = r THEN 1 ELSE 0
<1>1. /\ Once(Runs, {r}) \in [Runs -> Nat]
      /\ \A x \in Runs : Once(Runs, {r})[x] = IF x = r THEN 1 ELSE 0
  BY OnceFact
<1>2. /\ Once(Tasks, {TaskOf(r)}) \in [Tasks -> Nat]
      /\ Once(Tasks, IF failed THEN {TaskOf(r)} ELSE {}) \in [Tasks -> Nat]
  BY OnceFact
<1> QED  BY <1>1, <1>2, NoWorkFact DEF TaskAttemptTotals, Totals, NoWork

LEMMA TaskOfRun ==
  ASSUME NEW r \in Runs
  PROVE  TaskOf(r) \in Tasks
BY DEF TaskOf, Runs, Tasks

-----------------------------------------------------------------------------
(* What each helper does to a record: its type, what it leaves alone, how   *)
(* often it counts a run's work, and how often it calls a run waste.        *)

Counts(s, r) ==
  s.own.work[r] + s.earlierAttempts.work[r] + s.lateAttemptWork.work[r]
    + (IF s.taskAttempts[TaskOf(r)] = r THEN 1 ELSE 0)

WasteOf(s, r) == s.speculationWaste[r] + s.own.wasted[r]

\* The attempt of the record, and whether and how it completed.
SameAttempt(s, t) == /\ t.attemptId = s.attemptId /\ t.open = s.open
                     /\ t.failureReason = s.failureReason

LEMMA FieldTypes ==
  ASSUME NEW s \in StageRecords
  PROVE  /\ s.attemptId \in Attempts \cup {NoAttempt} /\ s.open \in BOOLEAN
         /\ s.taskAttempts \in [Tasks -> Runs \cup {NoRun}]
         /\ s.failureReason \in BOOLEAN
         /\ s.own \in Totals /\ s.earlierAttempts \in Totals /\ s.lateAttemptWork \in Totals
         /\ s.speculationWaste \in [Runs -> Nat]
         /\ s.speculativeWinners \subseteq Tasks
BY DEF StageRecords

LEMMA CountTypes ==
  ASSUME NEW s \in StageRecords, NEW r \in Runs
  PROVE  /\ s.own.work[r] \in Nat /\ s.own.wasted[r] \in Nat
         /\ s.earlierAttempts.work[r] \in Nat /\ s.lateAttemptWork.work[r] \in Nat
         /\ s.speculationWaste[r] \in Nat
         /\ Counts(s, r) \in Nat /\ WasteOf(s, r) \in Nat
<1>1. /\ s.own.work \in [Runs -> Nat] /\ s.own.wasted \in [Runs -> Nat]
      /\ s.earlierAttempts.work \in [Runs -> Nat]
      /\ s.lateAttemptWork.work \in [Runs -> Nat]
      /\ s.speculationWaste \in [Runs -> Nat]
  BY FieldTypes DEF Totals
<1> QED  BY <1>1 DEF Counts, WasteOf

LEMMA LateFact ==
  ASSUME NEW s \in StageRecords, NEW t \in Totals
  PROVE  /\ Late(s, t) \in StageRecords
         /\ SameAttempt(s, Late(s, t))
         /\ Late(s, t).own = s.own
         /\ Late(s, t).taskAttempts = s.taskAttempts
         /\ \A x \in Runs : /\ Late(s, t).lateAttemptWork.work[x] = t.work[x] + s.lateAttemptWork.work[x]
                            /\ Counts(Late(s, t), x) = t.work[x] + Counts(s, x)
                            /\ WasteOf(Late(s, t), x) = WasteOf(s, x)
<1> DEFINE m == MergeAttemptTotals(t, s.lateAttemptWork)
<1>1. /\ m \in Totals
      /\ \A x \in Runs : m.work[x] = t.work[x] + s.lateAttemptWork.work[x]
  BY FieldTypes, MergeFact
<1>2. Late(s, t) = [s EXCEPT !.lateAttemptWork = m]
  BY DEF Late
<1> HIDE DEF m
<1>3. /\ Late(s, t) \in StageRecords
      /\ Late(s, t).lateAttemptWork = m
      /\ Late(s, t).own = s.own /\ Late(s, t).earlierAttempts = s.earlierAttempts
      /\ Late(s, t).taskAttempts = s.taskAttempts
      /\ Late(s, t).speculationWaste = s.speculationWaste
      /\ Late(s, t).attemptId = s.attemptId /\ Late(s, t).open = s.open
      /\ Late(s, t).failureReason = s.failureReason
  BY <1>1, <1>2 DEF StageRecords
<1>4. \A x \in Runs : t.work[x] \in Nat
  BY DEF Totals
<1> QED  BY <1>1, <1>3, <1>4, CountTypes DEF Counts, WasteOf, SameAttempt

\* Waste touches the waste of one run and nothing of its work.
LEMMA WasteFact ==
  ASSUME NEW s \in StageRecords, NEW r \in Runs
  PROVE  \A t \in {SpeculationWaste(s, r), RetryWaste(s, r), Waste(s, r)} :
           /\ t \in StageRecords
           /\ SameAttempt(s, t)
           /\ t.own.work = s.own.work
           /\ t.taskAttempts = s.taskAttempts
           /\ t.lateAttemptWork = s.lateAttemptWork
           /\ \A x \in Runs : /\ Counts(t, x) = Counts(s, x)
                              /\ WasteOf(t, x) = WasteOf(s, x) + (IF x = r THEN 1 ELSE 0)
<1> DEFINE Good(t) ==
           /\ t \in StageRecords
           /\ SameAttempt(s, t)
           /\ t.own.work = s.own.work
           /\ t.taskAttempts = s.taskAttempts
           /\ t.lateAttemptWork = s.lateAttemptWork
           /\ \A x \in Runs : /\ Counts(t, x) = Counts(s, x)
                              /\ WasteOf(t, x) = WasteOf(s, x) + (IF x = r THEN 1 ELSE 0)
<1>1. Good(SpeculationWaste(s, r))
  <2> DEFINE w == [s.speculationWaste EXCEPT ![r] = @ + 1]
  <2>1. /\ w \in [Runs -> Nat]
        /\ \A x \in Runs : w[x] = s.speculationWaste[x] + (IF x = r THEN 1 ELSE 0)
    BY FieldTypes
  <2>2. SpeculationWaste(s, r) = [s EXCEPT !.speculationWaste = w]
    BY DEF SpeculationWaste
  <2> DEFINE t == SpeculationWaste(s, r)
  <2> HIDE DEF w
  <2>3. /\ t \in StageRecords /\ t.speculationWaste = w
        /\ t.own = s.own /\ t.earlierAttempts = s.earlierAttempts
        /\ t.lateAttemptWork = s.lateAttemptWork /\ t.taskAttempts = s.taskAttempts
        /\ t.attemptId = s.attemptId /\ t.open = s.open /\ t.failureReason = s.failureReason
    BY <2>1, <2>2 DEF StageRecords
  <2> HIDE DEF t
  <2>4. \A x \in Runs : WasteOf(t, x) = WasteOf(s, x) + (IF x = r THEN 1 ELSE 0)
    BY <2>1, <2>3, CountTypes DEF WasteOf
  <2>5. Good(t)
    BY <2>3, <2>4 DEF Counts, SameAttempt
  <2> QED  BY <2>5 DEF t
<1>2. Good(RetryWaste(s, r))
  <2> DEFINE w == [s.own.wasted EXCEPT ![r] = @ + 1]
             o == [s.own EXCEPT !.wasted = w]
             t == RetryWaste(s, r)
  <2>1. /\ w \in [Runs -> Nat]
        /\ \A x \in Runs : w[x] = s.own.wasted[x] + (IF x = r THEN 1 ELSE 0)
    BY FieldTypes DEF Totals
  <2>2. RetryWaste(s, r) = [s EXCEPT !.own = o]
    BY DEF RetryWaste
  <2> HIDE DEF w
  <2>3. o \in Totals /\ o.wasted = w /\ o.work = s.own.work
    BY <2>1, FieldTypes DEF Totals
  <2> HIDE DEF o
  <2>4. /\ t \in StageRecords /\ t.own = o
        /\ t.speculationWaste = s.speculationWaste /\ t.earlierAttempts = s.earlierAttempts
        /\ t.lateAttemptWork = s.lateAttemptWork /\ t.taskAttempts = s.taskAttempts
        /\ t.attemptId = s.attemptId /\ t.open = s.open /\ t.failureReason = s.failureReason
    BY <2>2, <2>3 DEF StageRecords
  <2> HIDE DEF t
  <2>5. \A x \in Runs : WasteOf(t, x) = WasteOf(s, x) + (IF x = r THEN 1 ELSE 0)
    BY <2>1, <2>3, <2>4, CountTypes DEF WasteOf
  <2>6. Good(t)
    BY <2>3, <2>4, <2>5 DEF Counts, SameAttempt
  <2> QED  BY <2>6 DEF t
<1>3. Waste(s, r) \in {SpeculationWaste(s, r), RetryWaste(s, r)}
  BY DEF Waste
<1> QED  BY <1>1, <1>2, <1>3

\* A record of a task is a run of that task.
KeysMatch(s) == \A k \in Tasks : s.taskAttempts[k] # NoRun => TaskOf(s.taskAttempts[k]) = k

\* The run takes the place of the task's record, if it had one.
LEMMA RecordFact ==
  ASSUME NEW s \in StageRecords, KeysMatch(s), NEW r \in Runs, NEW failed \in BOOLEAN,
         s.taskAttempts[TaskOf(r)] # r
  PROVE  LET t == Record(s, r, failed)
             old == s.taskAttempts[TaskOf(r)] IN
         /\ t \in StageRecords
         /\ KeysMatch(t)
         /\ SameAttempt(s, t)
         /\ t.own = s.own /\ t.lateAttemptWork = s.lateAttemptWork
         /\ t.taskAttempts = [s.taskAttempts EXCEPT ![TaskOf(r)] = r]
         /\ \A x \in Runs : /\ Counts(t, x) = Counts(s, x) + (IF x = r THEN 1 ELSE 0)
                                               - (IF x = old THEN 1 ELSE 0)
                            /\ WasteOf(t, x) = WasteOf(s, x)
<1> DEFINE t == Record(s, r, failed)
           h == [s.taskAttempts EXCEPT ![TaskOf(r)] = r]
           w == IF Speculative(r) /\ ~failed THEN s.speculativeWinners \cup {TaskOf(r)}
                                            ELSE s.speculativeWinners
           old == s.taskAttempts[TaskOf(r)]
<1>1. /\ h \in [Tasks -> Runs \cup {NoRun}]
      /\ \A k \in Tasks : h[k] = IF k = TaskOf(r) THEN r ELSE s.taskAttempts[k]
      /\ w \subseteq Tasks
  BY FieldTypes, TaskOfRun
<1>2. t = [[s EXCEPT !.taskAttempts = h] EXCEPT !.speculativeWinners = w]
  BY DEF Record
<1> HIDE DEF h, w
<1>3. /\ t \in StageRecords /\ t.taskAttempts = h
      /\ t.own = s.own /\ t.earlierAttempts = s.earlierAttempts
      /\ t.lateAttemptWork = s.lateAttemptWork /\ t.speculationWaste = s.speculationWaste
      /\ t.attemptId = s.attemptId /\ t.open = s.open /\ t.failureReason = s.failureReason
  BY <1>1, <1>2 DEF StageRecords
<1> HIDE DEF t
<1>4. KeysMatch(t)
  BY <1>1, <1>3 DEF KeysMatch
<1>5. ASSUME NEW x \in Runs
      PROVE  Counts(t, x) = Counts(s, x) + (IF x = r THEN 1 ELSE 0) - (IF x = old THEN 1 ELSE 0)
  <2>1. t.taskAttempts[TaskOf(x)] = IF TaskOf(x) = TaskOf(r) THEN r ELSE s.taskAttempts[TaskOf(x)]
    BY <1>1, <1>3, TaskOfRun
  <2>2. x = old => TaskOf(x) = TaskOf(r)
    BY TaskOfRun, StageAssumption DEF KeysMatch
  <2>3. (IF t.taskAttempts[TaskOf(x)] = x THEN 1 ELSE 0)
          = (IF s.taskAttempts[TaskOf(x)] = x THEN 1 ELSE 0)
            + (IF x = r THEN 1 ELSE 0) - (IF x = old THEN 1 ELSE 0)
    <3>1. CASE TaskOf(x) = TaskOf(r)
      BY <3>1, <2>1
    <3>2. CASE TaskOf(x) # TaskOf(r)
      BY <3>2, <2>1, <2>2
    <3> QED  BY <3>1, <3>2
  <2> QED  BY <2>3, <1>3, CountTypes DEF Counts
<1> QED  BY <1>1, <1>2, <1>3, <1>4, <1>5 DEF SameAttempt, WasteOf, t, h

LEMMA NoTaskAttemptsFact ==
  /\ NoTaskAttempts \in [Tasks -> Runs \cup {NoRun}]
  /\ \A k \in Tasks : NoTaskAttempts[k] = NoRun
  /\ \A x \in Runs : NoTaskAttempts[TaskOf(x)] # x
BY TaskOfRun, StageAssumption DEF NoTaskAttempts

LEMMA NoStageFact ==
  /\ NoStage \in StageRecords
  /\ KeysMatch(NoStage)
  /\ \A x \in Runs : Counts(NoStage, x) = 0 /\ WasteOf(NoStage, x) = 0
<1>1. NoStage \in StageRecords
  BY NoWorkFact, NoTaskAttemptsFact DEF NoStage, StageRecords
<1> QED  BY <1>1, NoWorkFact, NoTaskAttemptsFact DEF NoStage, KeysMatch, Counts, WasteOf

\* Completing moves the count of a recorded run from taskAttempts to the
\* stage's own work.
LEMMA FinalizeFact ==
  ASSUME NEW s \in StageRecords, \A x \in Runs : s.own.work[x] = 0
  PROVE  LET t == FinalizeStage(s) IN
         /\ t \in StageRecords
         /\ ~t.open /\ t.attemptId = s.attemptId /\ t.failureReason = s.failureReason
         /\ t.taskAttempts = NoTaskAttempts
         /\ t.lateAttemptWork = s.lateAttemptWork
         /\ \A x \in Runs : Counts(t, x) = Counts(s, x) /\ WasteOf(t, x) = WasteOf(s, x)
<1> DEFINE t == FinalizeStage(s)
           w == Once(Runs, Recorded(s))
           k == Once(Tasks, {TaskOf(r) : r \in Recorded(s)})
           f == Once(Tasks, {TaskOf(r) : r \in {x \in Recorded(s) : outcome[x] = "failed"}})
           o == [work |-> w, wasted |-> s.own.wasted, tasks |-> k, failed |-> f]
<1>1. /\ w \in [Runs -> Nat] /\ k \in [Tasks -> Nat] /\ f \in [Tasks -> Nat]
      /\ \A x \in Runs : w[x] = IF s.taskAttempts[TaskOf(x)] = x THEN 1 ELSE 0
  BY OnceFact DEF Recorded
<1>2. t = [[[s EXCEPT !.open = FALSE] EXCEPT !.taskAttempts = NoTaskAttempts] EXCEPT !.own = o]
  BY DEF FinalizeStage
<1> HIDE DEF w, k, f
<1>3. s.own.wasted \in [Runs -> Nat]
  BY FieldTypes DEF Totals
<1>4. o \in Totals /\ o.work = w /\ o.wasted = s.own.wasted
  BY <1>1, <1>3 DEF Totals
<1> HIDE DEF o
<1>5. /\ t \in StageRecords /\ t.taskAttempts = NoTaskAttempts
      /\ t.own = o /\ t.earlierAttempts = s.earlierAttempts
      /\ t.lateAttemptWork = s.lateAttemptWork /\ t.speculationWaste = s.speculationWaste
      /\ t.attemptId = s.attemptId /\ t.open = FALSE /\ t.failureReason = s.failureReason
  BY <1>2, <1>4, NoTaskAttemptsFact DEF StageRecords
<1> HIDE DEF t
<1>6. \A x \in Runs : Counts(t, x) = Counts(s, x)
  BY <1>1, <1>4, <1>5, NoTaskAttemptsFact, CountTypes DEF Counts
<1>7. \A x \in Runs : WasteOf(t, x) = WasteOf(s, x)
  BY <1>4, <1>5 DEF WasteOf
<1> QED  BY <1>5, <1>6, <1>7 DEF t

LEMMA CountFailureFact ==
  ASSUME NEW s \in StageRecords, NEW failed \in BOOLEAN
  PROVE  LET t == CountFailure(s, failed) IN
         /\ t \in StageRecords
         /\ t.open = s.open /\ t.attemptId = s.attemptId /\ t.failureReason = failed
         /\ t.own = s.own /\ t.taskAttempts = s.taskAttempts
         /\ t.lateAttemptWork = s.lateAttemptWork
         /\ \A x \in Runs : Counts(t, x) = Counts(s, x) /\ WasteOf(t, x) = WasteOf(s, x)
<1> DEFINE t == CountFailure(s, failed)
           n == IF failed /\ s.open THEN s.failedStageAttempts + 1 ELSE s.failedStageAttempts
<1>0. n \in Nat /\ t = [[s EXCEPT !.failureReason = failed] EXCEPT !.failedStageAttempts = n]
  BY DEF CountFailure, StageRecords
<1> HIDE DEF n
<1>1. /\ t \in StageRecords /\ t.taskAttempts = s.taskAttempts
      /\ t.own = s.own /\ t.earlierAttempts = s.earlierAttempts
      /\ t.lateAttemptWork = s.lateAttemptWork /\ t.speculationWaste = s.speculationWaste
      /\ t.attemptId = s.attemptId /\ t.open = s.open /\ t.failureReason = failed
  BY <1>0 DEF StageRecords
<1> HIDE DEF t
<1>2. \A x \in Runs : Counts(t, x) = Counts(s, x) /\ WasteOf(t, x) = WasteOf(s, x)
  BY <1>1 DEF Counts, WasteOf
<1> QED  BY <1>1, <1>2 DEF t

\* A resubmit keeps every count but those of the runs an open attempt held.
LEMMA NewRecordFact ==
  ASSUME NEW s \in StageRecords, s.attemptId + 1 \in Attempts,
         s.open => \A x \in Runs : s.own.work[x] = 0,
         ~s.open => s.taskAttempts = NoTaskAttempts
  PROVE  LET t == NewRecord(s) IN
         /\ t \in StageRecords
         /\ t.open /\ t.attemptId = s.attemptId + 1
         /\ t.taskAttempts = NoTaskAttempts
         /\ t.lateAttemptWork = s.lateAttemptWork
         /\ \A x \in Runs :
              /\ t.own.work[x] = 0 /\ WasteOf(t, x) = 0
              /\ Counts(t, x) = Counts(s, x) - (IF s.taskAttempts[TaskOf(x)] = x THEN 1 ELSE 0)
<1> DEFINE t == NewRecord(s)
           e == FoldEarlierAttempts(s)
<1>1. /\ e \in Totals
      /\ \A x \in Runs : e.work[x] = s.own.work[x] + s.earlierAttempts.work[x]
  <2>1. CASE s.open
    BY <2>1, FieldTypes, CountTypes DEF FoldEarlierAttempts
  <2>2. CASE ~s.open
    BY <2>2, FieldTypes, MergeFact DEF FoldEarlierAttempts
  <2> QED  BY <2>1, <2>2, FieldTypes
<1> HIDE DEF e
<1>2. /\ s.stageAttempts + 1 \in Nat /\ s.failedStageAttempts \in Nat
  BY DEF StageRecords
<1>3. /\ t \in StageRecords /\ t.taskAttempts = NoTaskAttempts
      /\ t.own = NoWork /\ t.earlierAttempts = e
      /\ t.lateAttemptWork = s.lateAttemptWork /\ t.speculationWaste = Nothing(Runs)
      /\ t.attemptId = s.attemptId + 1 /\ t.open = TRUE
  BY <1>1, <1>2, FieldTypes, NoWorkFact, NoTaskAttemptsFact
  DEF NewRecord, NoStage, StageRecords, e
<1> HIDE DEF t
<1>4. \A x \in Runs : t.own.work[x] = 0 /\ WasteOf(t, x) = 0
  BY <1>3, NoWorkFact DEF WasteOf
<1>5. \A x \in Runs : Counts(t, x) = Counts(s, x) - (IF s.taskAttempts[TaskOf(x)] = x THEN 1 ELSE 0)
  BY <1>1, <1>3, <1>4, NoTaskAttemptsFact, CountTypes DEF Counts
<1> QED  BY <1>3, <1>4, <1>5 DEF t

LEMMA LateFlagFact ==
  ASSUME NEW s \in StageRecords
  PROVE  LET t == [s EXCEPT !.lateSpeculationWaste = TRUE] IN
         /\ t \in StageRecords /\ SameAttempt(s, t)
         /\ t.own = s.own /\ t.taskAttempts = s.taskAttempts
         /\ t.lateAttemptWork = s.lateAttemptWork
         /\ \A x \in Runs : Counts(t, x) = Counts(s, x) /\ WasteOf(t, x) = WasteOf(s, x)
<1> DEFINE t == [s EXCEPT !.lateSpeculationWaste = TRUE]
<1>1. /\ t \in StageRecords /\ t.taskAttempts = s.taskAttempts
      /\ t.own = s.own /\ t.earlierAttempts = s.earlierAttempts
      /\ t.lateAttemptWork = s.lateAttemptWork /\ t.speculationWaste = s.speculationWaste
      /\ t.attemptId = s.attemptId /\ t.open = s.open /\ t.failureReason = s.failureReason
  BY DEF StageRecords
<1> HIDE DEF t
<1>2. \A x \in Runs : Counts(t, x) = Counts(s, x) /\ WasteOf(t, x) = WasteOf(s, x)
  BY <1>1 DEF Counts, WasteOf
<1> QED  BY <1>1, <1>2 DEF SameAttempt, t

-----------------------------------------------------------------------------
(* The inductive invariant.  WorkCountedOnce and WorkKept are not inductive *)
(* alone: they need to know that only runs of the open attempt that ended   *)
(* are held in taskAttempts, that an open record has no work of its own     *)
(* yet, and what the fates of the attempts say about the record.            *)

RecordInv ==
  /\ stage.open => /\ stage.attemptId \in Attempts
                   /\ fate[stage.attemptId] = "open"
                   /\ \A x \in Runs : stage.own.work[x] = 0
  /\ ~stage.open => stage.taskAttempts = NoTaskAttempts
  /\ ~stage.open /\ stage.attemptId \in Attempts
       => fate[stage.attemptId] = IF stage.failureReason THEN "failed" ELSE "ok"

FateInv == \A a \in Attempts : fate[a] = "unsubmitted" <=> a > stage.attemptId

EndInv ==
  \A r \in Runs :
    /\ outcome[r] # "running" => endedIn[r] \in Attempts /\ endedIn[r] <= stage.attemptId
    /\ stage.taskAttempts[TaskOf(r)] = r
         => outcome[r] # "running" /\ endedIn[r] = stage.attemptId

WorkInv ==
  \A r \in Runs :
    IF outcome[r] = "running"
      THEN Counts(stage, r) = 0
      ELSE Counts(stage, r) = 1 \/ (Counts(stage, r) = 0 /\ LeftOut(r))

WasteInv == \A r \in Runs : WasteOf(stage, r) <= stage.lateAttemptWork.work[r]

IInv == TypeOK /\ RecordInv /\ FateInv /\ EndInv /\ WorkInv /\ WasteInv

\* What a TaskEnd does to the record, whichever branch it takes: it counts its
\* own run once more, unless it is ignored, and no other run.
LEMMA TaskEndFact ==
  ASSUME IInv, NEW r \in Runs, NEW failed \in BOOLEAN, TaskEnd(r, failed)
  PROVE  /\ stage' \in StageRecords
         /\ KeysMatch(stage')
         /\ SameAttempt(stage, stage')
         /\ stage'.own.work = stage.own.work
         /\ \/ stage'.taskAttempts = stage.taskAttempts
            \/ stage.open /\ stage'.taskAttempts = [stage.taskAttempts EXCEPT ![TaskOf(r)] = r]
         /\ \A x \in Runs \ {r} : Counts(stage', x) = Counts(stage, x)
         /\ \/ Counts(stage', r) = 1
            \/ LateIgnored(r) /\ Counts(stage', r) = 0
         /\ \A x \in Runs : WasteOf(stage', x) <= stage'.lateAttemptWork.work[x]
<1> DEFINE e == Existing(r)
<1>1. /\ stage \in StageRecords /\ KeysMatch(stage) /\ outcome[r] = "running"
      /\ Counts(stage, r) = 0 /\ e # r
      /\ \A x \in Runs : WasteOf(stage, x) <= stage.lateAttemptWork.work[x]
      /\ \A x \in Runs : Counts(stage, x) \in Nat /\ WasteOf(stage, x) \in Nat
                         /\ stage.lateAttemptWork.work[x] \in Nat
  BY CountTypes
  DEF IInv, TypeOK, KeysMatch, WorkInv, EndInv, WasteInv, TaskEnd, Ended, Existing
<1>2. e \in Runs \cup {NoRun}
  BY <1>1, FieldTypes, TaskOfRun DEF Existing
<1>3. CASE FirstEnd(r, failed)
  <2>1. /\ stage.open /\ stage.taskAttempts[TaskOf(r)] = NoRun
        /\ stage' = Record(stage, r, failed)
    BY <1>3 DEF FirstEnd, Existing
  <2>2. stage.taskAttempts[TaskOf(r)] # r
    BY <2>1, StageAssumption
  <2>3. \A x \in Runs : x # NoRun
    BY StageAssumption
  <2> QED  BY <1>1, <2>1, <2>2, <2>3, RecordFact
<1>4. CASE RetrySucceeded(r, failed)
  <2> DEFINE s1 == Waste(stage, e)
             d == DiscardedAttemptTotals(e)
             s2 == Late(s1, d)
  <2>1. stage.open /\ e \in Runs /\ stage' = Record(s2, r, failed)
    BY <1>2, <1>4 DEF RetrySucceeded, Supersedes, Existing
  <2>2. d \in Totals /\ \A x \in Runs : d.work[x] = IF x = e THEN 1 ELSE 0
    BY <2>1, DiscardedFact
  <2>3. /\ s1 \in StageRecords /\ SameAttempt(stage, s1) /\ s1.own.work = stage.own.work
        /\ s1.taskAttempts = stage.taskAttempts /\ s1.lateAttemptWork = stage.lateAttemptWork
        /\ \A x \in Runs : /\ Counts(s1, x) = Counts(stage, x)
                           /\ WasteOf(s1, x) = WasteOf(stage, x) + (IF x = e THEN 1 ELSE 0)
    BY <1>1, <2>1, WasteFact
  <2> HIDE DEF s1, d
  <2>4. /\ s2 \in StageRecords /\ SameAttempt(s1, s2) /\ s2.own = s1.own
        /\ s2.taskAttempts = s1.taskAttempts
        /\ \A x \in Runs :
             /\ s2.lateAttemptWork.work[x] = (IF x = e THEN 1 ELSE 0) + stage.lateAttemptWork.work[x]
             /\ Counts(s2, x) = (IF x = e THEN 1 ELSE 0) + Counts(stage, x)
             /\ WasteOf(s2, x) = WasteOf(stage, x) + (IF x = e THEN 1 ELSE 0)
    BY <2>2, <2>3, LateFact
  <2> HIDE DEF s2
  <2>5. KeysMatch(s2) /\ s2.taskAttempts[TaskOf(r)] = e
    BY <1>1, <2>3, <2>4 DEF KeysMatch, Existing
  <2> HIDE DEF e
  <2>6. /\ stage' \in StageRecords /\ KeysMatch(stage') /\ SameAttempt(s2, stage')
        /\ stage'.own = s2.own /\ stage'.lateAttemptWork = s2.lateAttemptWork
        /\ stage'.taskAttempts = [s2.taskAttempts EXCEPT ![TaskOf(r)] = r]
        /\ \A x \in Runs : /\ Counts(stage', x) = Counts(s2, x) + (IF x = r THEN 1 ELSE 0)
                                                    - (IF x = e THEN 1 ELSE 0)
                           /\ WasteOf(stage', x) = WasteOf(s2, x)
    <3> DEFINE t == Record(s2, r, failed)
    <3>1. /\ t \in StageRecords /\ KeysMatch(t) /\ SameAttempt(s2, t)
          /\ t.own = s2.own /\ t.lateAttemptWork = s2.lateAttemptWork
          /\ t.taskAttempts = [s2.taskAttempts EXCEPT ![TaskOf(r)] = r]
          /\ \A x \in Runs : /\ Counts(t, x) = Counts(s2, x) + (IF x = r THEN 1 ELSE 0)
                                 - (IF x = s2.taskAttempts[TaskOf(r)] THEN 1 ELSE 0)
                             /\ WasteOf(t, x) = WasteOf(s2, x)
      <4>1. s2 \in StageRecords /\ KeysMatch(s2) /\ s2.taskAttempts[TaskOf(r)] # r
        BY <1>1, <2>4, <2>5
      <4> QED  BY <4>1, RecordFact
    <3> HIDE DEF t
    <3>2. stage' = t
      BY <2>1 DEF t
    <3> QED  BY <2>5, <3>1, <3>2
  <2>7. \A x \in Runs : Counts(stage', x) = Counts(stage, x) + (IF x = r THEN 1 ELSE 0)
    BY <1>1, <2>4, <2>6
  <2>8. \A x \in Runs : WasteOf(stage', x) <= stage'.lateAttemptWork.work[x]
    BY <1>1, <2>4, <2>6
  <2> QED  BY <1>1, <2>1, <2>3, <2>4, <2>6, <2>7, <2>8 DEF SameAttempt
<1>5. ASSUME NEW t \in Totals, \A x \in Runs : t.work[x] = IF x = r THEN 1 ELSE 0
      PROVE  LET s == Late(stage, t) IN
             /\ s \in StageRecords /\ KeysMatch(s) /\ SameAttempt(stage, s)
             /\ s.own = stage.own /\ s.taskAttempts = stage.taskAttempts
             /\ \A x \in Runs \ {r} : Counts(s, x) = Counts(stage, x)
             /\ Counts(s, r) = 1
             /\ \A x \in Runs : WasteOf(s, x) + (IF x = r THEN 1 ELSE 0) <= s.lateAttemptWork.work[x]
  <2> DEFINE s == Late(stage, t)
  <2>1. /\ s \in StageRecords /\ SameAttempt(stage, s)
        /\ s.own = stage.own /\ s.taskAttempts = stage.taskAttempts
        /\ \A x \in Runs :
             /\ s.lateAttemptWork.work[x] = (IF x = r THEN 1 ELSE 0) + stage.lateAttemptWork.work[x]
             /\ Counts(s, x) = (IF x = r THEN 1 ELSE 0) + Counts(stage, x)
             /\ WasteOf(s, x) = WasteOf(stage, x)
    BY <1>1, <1>5, LateFact
  <2> HIDE DEF s
  <2>2. KeysMatch(s)
    BY <1>1, <2>1 DEF KeysMatch
  <2>3. \A x \in Runs : WasteOf(s, x) + (IF x = r THEN 1 ELSE 0) <= s.lateAttemptWork.work[x]
    BY <1>1, <2>1
  <2>4. /\ \A x \in Runs \ {r} : Counts(s, x) = Counts(stage, x)
        /\ Counts(s, r) = 1
    BY <1>1, <2>1
  <2> QED  BY <2>1, <2>2, <2>3, <2>4 DEF s
<1> DEFINE discarded == Late(stage, DiscardedAttemptTotals(r))
<1>6. /\ discarded \in StageRecords /\ KeysMatch(discarded) /\ SameAttempt(stage, discarded)
      /\ discarded.own = stage.own /\ discarded.taskAttempts = stage.taskAttempts
      /\ \A x \in Runs \ {r} : Counts(discarded, x) = Counts(stage, x)
      /\ Counts(discarded, r) = 1
      /\ \A x \in Runs : WasteOf(discarded, x) + (IF x = r THEN 1 ELSE 0)
                           <= discarded.lateAttemptWork.work[x]
  BY <1>5, DiscardedFact
<1> HIDE DEF discarded
<1>7. \A t \in {discarded, SpeculationWaste(discarded, r), RetryWaste(discarded, r),
               Waste(discarded, r)} :
        /\ t \in StageRecords /\ KeysMatch(t) /\ SameAttempt(stage, t)
        /\ t.own.work = stage.own.work /\ t.taskAttempts = stage.taskAttempts
        /\ \A x \in Runs \ {r} : Counts(t, x) = Counts(stage, x)
        /\ Counts(t, r) = 1
        /\ \A x \in Runs : WasteOf(t, x) <= t.lateAttemptWork.work[x]
  <2> SUFFICES ASSUME NEW t \in {discarded, SpeculationWaste(discarded, r),
                                 RetryWaste(discarded, r), Waste(discarded, r)}
               PROVE  /\ t \in StageRecords /\ KeysMatch(t) /\ SameAttempt(stage, t)
                      /\ t.own.work = stage.own.work /\ t.taskAttempts = stage.taskAttempts
                      /\ \A x \in Runs \ {r} : Counts(t, x) = Counts(stage, x)
                      /\ Counts(t, r) = 1
                      /\ \A x \in Runs : WasteOf(t, x) <= t.lateAttemptWork.work[x]
    OBVIOUS
  <2>1. \A x \in Runs : /\ WasteOf(discarded, x) \in Nat
                        /\ discarded.lateAttemptWork.work[x] \in Nat
    BY <1>6, CountTypes
  <2>2. CASE t = discarded
    BY <2>1, <2>2, <1>6
  <2>3. CASE t \in {SpeculationWaste(discarded, r), RetryWaste(discarded, r), Waste(discarded, r)}
    <3>1. /\ t \in StageRecords /\ SameAttempt(discarded, t)
          /\ t.own.work = discarded.own.work /\ t.taskAttempts = discarded.taskAttempts
          /\ t.lateAttemptWork = discarded.lateAttemptWork
          /\ \A x \in Runs : /\ Counts(t, x) = Counts(discarded, x)
                             /\ WasteOf(t, x) = WasteOf(discarded, x) + (IF x = r THEN 1 ELSE 0)
      BY <1>6, <2>3, WasteFact, ZenonT(60)
    <3>2. KeysMatch(t)
      BY <1>6, <3>1 DEF KeysMatch
    <3> QED  BY <1>6, <3>1, <3>2 DEF SameAttempt
  <2> QED  BY <2>2, <2>3
<1>8. CASE DuplicateEnd(r, failed)
  <2>1. stage' \in {discarded, Waste(discarded, r)}
    BY <1>8 DEF DuplicateEnd, discarded
  <2> QED  BY <1>7, <2>1
<1>9. CASE LateLoser(r)
  <2> DEFINE w == SpeculationWaste(discarded, r)
  <2>1. \/ stage' = discarded
        \/ stage' = [w EXCEPT !.lateSpeculationWaste = TRUE]
    BY <1>9 DEF LateLoser, discarded
  <2>2. /\ w \in StageRecords /\ KeysMatch(w) /\ SameAttempt(stage, w)
        /\ w.own.work = stage.own.work /\ w.taskAttempts = stage.taskAttempts
        /\ \A x \in Runs \ {r} : Counts(w, x) = Counts(stage, x)
        /\ Counts(w, r) = 1
        /\ \A x \in Runs : WasteOf(w, x) <= w.lateAttemptWork.work[x]
    BY <1>7
  <2> HIDE DEF w
  <2>3. CASE stage' = [w EXCEPT !.lateSpeculationWaste = TRUE]
    <3>1. /\ stage' \in StageRecords /\ SameAttempt(w, stage')
          /\ stage'.own = w.own /\ stage'.taskAttempts = w.taskAttempts
          /\ stage'.lateAttemptWork = w.lateAttemptWork
          /\ \A x \in Runs : Counts(stage', x) = Counts(w, x) /\ WasteOf(stage', x) = WasteOf(w, x)
      BY <2>2, <2>3, LateFlagFact
    <3>2. KeysMatch(stage')
      BY <2>2, <3>1 DEF KeysMatch
    <3> QED  BY <2>2, <3>1, <3>2 DEF SameAttempt
  <2> QED  BY <1>7, <2>1, <2>3
<1>10. CASE LateTask(r, failed)
  <2>1. stage' = Late(stage, TaskAttemptTotals(r, failed))
    BY <1>10 DEF LateTask
  <2>2. /\ TaskAttemptTotals(r, failed) \in Totals
        /\ \A x \in Runs : TaskAttemptTotals(r, failed).work[x] = IF x = r THEN 1 ELSE 0
    BY TaskAttemptFact
  <2>3. /\ stage' \in StageRecords /\ KeysMatch(stage') /\ SameAttempt(stage, stage')
        /\ stage'.own = stage.own /\ stage'.taskAttempts = stage.taskAttempts
        /\ \A x \in Runs \ {r} : Counts(stage', x) = Counts(stage, x)
        /\ Counts(stage', r) = 1
        /\ \A x \in Runs : WasteOf(stage', x) + (IF x = r THEN 1 ELSE 0)
                             <= stage'.lateAttemptWork.work[x]
    BY <1>5, <2>1, <2>2
  <2>4. \A x \in Runs : WasteOf(stage', x) \in Nat /\ stage'.lateAttemptWork.work[x] \in Nat
    BY <2>3, CountTypes
  <2> QED  BY <2>3, <2>4
<1>11. CASE LateIgnored(r)
  BY <1>1, <1>11 DEF LateIgnored, SameAttempt, KeysMatch
<1> QED  BY <1>3, <1>4, <1>8, <1>9, <1>10, <1>11 DEF TaskEnd

LEMMA MessageFact ==
  ASSUME NEW s \in StageRecords
  PROVE  StageMessage(s) \in StageMessages
BY DEF StageRecords, StageMessages, StageMessage

LEMMA AttemptFact ==
  /\ NoAttempt \notin Attempts
  /\ \A n \in Attempts \cup {NoAttempt} : n \in Int /\ n >= -1 /\ (n \in Attempts <=> n >= 0)
BY StageAssumption DEF Attempts, NoAttempt

\* A started run is of an attempt that is not later than the record's.
LEMMA StartedFact ==
  ASSUME IInv, NEW r \in Runs, NEW failed \in BOOLEAN, TaskEnd(r, failed)
  PROVE  stage.attemptId \in Attempts
<1>1. r.attempt \in Attempts /\ fate[r.attempt] # "unsubmitted"
  BY DEF TaskEnd, Started, Runs
<1>2. ~(r.attempt > stage.attemptId)
  BY <1>1 DEF IInv, FateInv
<1>3. stage.attemptId \in Attempts \cup {NoAttempt}
  BY FieldTypes DEF IInv, TypeOK
<1> QED  BY <1>1, <1>2, <1>3, AttemptFact DEF NoAttempt

-----------------------------------------------------------------------------
(* The initial state and the steps, one lemma per action.                   *)

LEMMA InitInv == Init => IInv
<1> SUFFICES ASSUME Init PROVE IInv
  OBVIOUS
<1> USE DEF Init
<1>1. TypeOK
  BY NoStageFact, MessageFact, AttemptFact DEF TypeOK, KeysMatch
<1>2. RecordInv
  BY AttemptFact DEF RecordInv, NoStage
<1>3. FateInv
  BY AttemptFact DEF FateInv, NoStage, NoAttempt
<1>4. EndInv
  BY NoTaskAttemptsFact DEF EndInv, NoStage
<1>5. WorkInv
  BY NoStageFact DEF WorkInv
<1>6. WasteInv
  BY NoStageFact, CountTypes DEF WasteInv
<1> QED  BY <1>1, <1>2, <1>3, <1>4, <1>5, <1>6 DEF IInv

LEMMA SubmitInv == IInv /\ SubmitStage => IInv'
<1> SUFFICES ASSUME IInv, SubmitStage PROVE IInv'
  OBVIOUS
<1> DEFINE a == stage.attemptId + 1
<1>1. /\ stage \in StageRecords /\ a \in Attempts
      /\ stage.attemptId \in Attempts \cup {NoAttempt}
      /\ stage.open \in BOOLEAN
      /\ UNCHANGED <<model, done, outcome, endedIn, endedLate>>
      /\ stage' = NewRecord(stage)
  BY FieldTypes DEF IInv, TypeOK, SubmitStage
<1>2. /\ stage' \in StageRecords /\ stage'.open /\ stage'.attemptId = a
      /\ stage'.taskAttempts = NoTaskAttempts
      /\ stage'.lateAttemptWork = stage.lateAttemptWork
      /\ \A x \in Runs :
           /\ stage'.own.work[x] = 0 /\ WasteOf(stage', x) = 0
           /\ Counts(stage', x)
                = Counts(stage, x) - (IF stage.taskAttempts[TaskOf(x)] = x THEN 1 ELSE 0)
  BY <1>1, NewRecordFact DEF IInv, RecordInv
<1>3. /\ fate' \in [Attempts -> {"unsubmitted", "open", "ok", "failed", "replaced"}]
      /\ fate'[a] = "open"
      /\ \A b \in Attempts \ {a} :
           fate'[b] = IF b = stage.attemptId /\ stage.open THEN "replaced" ELSE fate[b]
  BY <1>1 DEF IInv, TypeOK, SubmitStage
<1>4. TypeOK'
  BY <1>1, <1>2, <1>3, NoTaskAttemptsFact DEF IInv, TypeOK
<1>5. RecordInv'
  BY <1>1, <1>2, <1>3 DEF RecordInv
<1>6. FateInv'
  <2> SUFFICES ASSUME NEW b \in Attempts
               PROVE  fate'[b] = "unsubmitted" <=> b > a
    BY <1>2 DEF FateInv
  <2>1. fate[b] = "unsubmitted" <=> b > stage.attemptId
    BY DEF IInv, FateInv
  <2> QED  BY <1>1, <1>3, <2>1, AttemptFact DEF NoAttempt
<1>7. EndInv'
  <2> SUFFICES ASSUME NEW r \in Runs, outcome[r] # "running"
               PROVE  endedIn[r] \in Attempts /\ endedIn[r] <= a
    BY <1>1, <1>2, NoTaskAttemptsFact DEF EndInv
  <2>1. endedIn[r] \in Attempts /\ endedIn[r] <= stage.attemptId
    BY DEF IInv, EndInv
  <2> QED  BY <1>1, <2>1, AttemptFact DEF NoAttempt
<1>8. WorkInv'
  <2> SUFFICES ASSUME NEW r \in Runs
               PROVE  IF outcome[r] = "running"
                        THEN Counts(stage', r) = 0
                        ELSE Counts(stage', r) = 1 \/ (Counts(stage', r) = 0 /\ LeftOut(r)')
    BY <1>1 DEF WorkInv
  <2>1. /\ IF outcome[r] = "running"
             THEN Counts(stage, r) = 0
             ELSE Counts(stage, r) = 1 \/ (Counts(stage, r) = 0 /\ LeftOut(r))
        /\ outcome[r] # "running" => endedIn[r] \in Attempts /\ endedIn[r] <= stage.attemptId
        /\ stage.taskAttempts[TaskOf(r)] = r
             => outcome[r] # "running" /\ endedIn[r] = stage.attemptId
        /\ Counts(stage, r) \in Nat /\ Counts(stage', r) \in Nat
    BY <1>1, <1>2, CountTypes DEF IInv, WorkInv, EndInv
  <2>2. CASE stage.taskAttempts[TaskOf(r)] = r
    <3>1. stage.open
      BY <2>2, NoTaskAttemptsFact DEF IInv, RecordInv
    <3>2. LeftOut(r)'
      BY <1>1, <1>3, <2>1, <2>2, <3>1, AttemptFact DEF LeftOut, NoAttempt
    <3> QED  BY <1>2, <2>1, <2>2, <3>2
  <2>3. CASE stage.taskAttempts[TaskOf(r)] # r
    <3>1. Counts(stage', r) = Counts(stage, r)
      BY <1>2, <2>1, <2>3
    <3>2. ASSUME outcome[r] # "running", LeftOut(r) PROVE LeftOut(r)'
      <4>1. endedIn[r] # a
        BY <1>1, <2>1, <3>2, AttemptFact DEF NoAttempt
      <4>2. endedIn[r] = stage.attemptId /\ stage.open => fate[endedIn[r]] = "open"
        BY DEF IInv, RecordInv
      <4>3. fate'[endedIn[r]] = fate[endedIn[r]]
        BY <1>3, <2>1, <3>2, <4>1, <4>2 DEF LeftOut
      <4> QED  BY <1>1, <3>2, <4>3 DEF LeftOut
    <3> QED  BY <2>1, <3>1, <3>2
  <2> QED  BY <2>2, <2>3
<1>9. WasteInv'
  BY <1>2, CountTypes DEF WasteInv
<1> QED  BY <1>4, <1>5, <1>6, <1>7, <1>8, <1>9 DEF IInv

LEMMA CompletedInv == IInv /\ (\E failed \in BOOLEAN : StageCompleted(failed)) => IInv'
<1> SUFFICES ASSUME IInv, NEW failed \in BOOLEAN, StageCompleted(failed) PROVE IInv'
  OBVIOUS
<1> DEFINE a == stage.attemptId
           result == IF failed THEN "failed" ELSE "ok"
           c == CountFailure(stage, failed)
<1>1. /\ stage \in StageRecords /\ model \in StageMessages /\ KeysMatch(stage)
      /\ a \in Attempts /\ stage.open \in BOOLEAN
      /\ fate[a] \in {"open", result}
      /\ fate \in [Attempts -> {"unsubmitted", "open", "ok", "failed", "replaced"}]
      /\ fate' = [fate EXCEPT ![a] = result]
      /\ UNCHANGED <<done, outcome, endedIn, endedLate>>
  BY FieldTypes DEF IInv, TypeOK, KeysMatch, StageCompleted
<1>2. /\ c \in StageRecords
      /\ c.open = stage.open /\ c.attemptId = a /\ c.failureReason = failed
      /\ c.own = stage.own /\ c.taskAttempts = stage.taskAttempts
      /\ c.lateAttemptWork = stage.lateAttemptWork
      /\ \A x \in Runs : Counts(c, x) = Counts(stage, x) /\ WasteOf(c, x) = WasteOf(stage, x)
  BY <1>1, CountFailureFact
<1>3. IF stage.open
        THEN stage' = FinalizeStage(c) /\ model' = StageMessage(FinalizeStage(c))
        ELSE stage' = c /\ UNCHANGED model
  BY <1>2 DEF StageCompleted
<1> HIDE DEF c
<1>4. /\ stage' \in StageRecords /\ model' \in StageMessages
      /\ ~stage'.open /\ stage'.attemptId = a /\ stage'.failureReason = failed
      /\ stage'.taskAttempts = NoTaskAttempts
      /\ stage'.lateAttemptWork = stage.lateAttemptWork
      /\ \A x \in Runs : /\ Counts(stage', x) = Counts(stage, x)
                         /\ WasteOf(stage', x) = WasteOf(stage, x)
  <2>1. CASE stage.open
    <3> DEFINE f == FinalizeStage(c)
    <3>1. \A x \in Runs : c.own.work[x] = 0
      BY <1>2, <2>1 DEF IInv, RecordInv
    <3>2. /\ f \in StageRecords /\ ~f.open /\ f.attemptId = c.attemptId
          /\ f.failureReason = c.failureReason /\ f.taskAttempts = NoTaskAttempts
          /\ f.lateAttemptWork = c.lateAttemptWork
          /\ \A x \in Runs : Counts(f, x) = Counts(c, x) /\ WasteOf(f, x) = WasteOf(c, x)
      BY <1>2, <3>1, FinalizeFact
    <3>3. stage' = f /\ model' = StageMessage(f)
      BY <1>3, <2>1
    <3> HIDE DEF f
    <3> QED  BY <1>2, <3>2, <3>3, MessageFact
  <2>2. CASE ~stage.open
    BY <1>1, <1>2, <1>3, <2>2 DEF IInv, RecordInv
  <2> QED  BY <2>1, <2>2
<1>5. TypeOK'
  BY <1>1, <1>4, NoTaskAttemptsFact DEF IInv, TypeOK
<1>6. RecordInv'
  BY <1>1, <1>4 DEF RecordInv
<1>7. FateInv'
  <2>1. ~(a > a)
    BY <1>1, AttemptFact
  <2> QED  BY <1>1, <1>4, <2>1 DEF IInv, FateInv
<1>8. EndInv'
  BY <1>1, <1>4, NoTaskAttemptsFact DEF IInv, EndInv
<1>9. WorkInv'
  <2>1. ASSUME NEW r \in Runs, outcome[r] # "running", LeftOut(r) PROVE LeftOut(r)'
    <3>1. endedIn[r] \in Attempts
      BY <2>1 DEF IInv, EndInv
    <3>2. fate'[endedIn[r]] = fate[endedIn[r]]
      BY <1>1, <2>1, <3>1 DEF LeftOut
    <3> QED  BY <1>1, <2>1, <3>2 DEF LeftOut
  <2> QED  BY <1>1, <1>4, <2>1 DEF IInv, WorkInv
<1>10. WasteInv'
  BY <1>4 DEF IInv, WasteInv
<1> QED  BY <1>5, <1>6, <1>7, <1>8, <1>9, <1>10 DEF IInv

LEMMA TaskEndInv == IInv /\ (\E r \in Runs, failed \in BOOLEAN : TaskEnd(r, failed)) => IInv'
<1> SUFFICES ASSUME IInv, NEW r \in Runs, NEW failed \in BOOLEAN, TaskEnd(r, failed)
             PROVE  IInv'
  OBVIOUS
<1> DEFINE a == stage.attemptId
<1>1. /\ stage' \in StageRecords /\ KeysMatch(stage')
      /\ stage'.attemptId = a /\ stage'.open = stage.open
      /\ stage'.failureReason = stage.failureReason
      /\ stage'.own.work = stage.own.work
      /\ \/ stage'.taskAttempts = stage.taskAttempts
         \/ stage.open /\ stage'.taskAttempts = [stage.taskAttempts EXCEPT ![TaskOf(r)] = r]
      /\ \A x \in Runs \ {r} : Counts(stage', x) = Counts(stage, x)
      /\ Counts(stage', r) = 1 \/ (LateIgnored(r) /\ Counts(stage', r) = 0)
      /\ \A x \in Runs : WasteOf(stage', x) <= stage'.lateAttemptWork.work[x]
  BY TaskEndFact DEF SameAttempt
<1>2. /\ a \in Attempts
      /\ outcome \in [Runs -> {"running", "ok", "failed"}]
      /\ endedIn \in [Runs -> Attempts \cup {NoAttempt}] /\ endedLate \subseteq Runs
      /\ outcome[r] = "running"
      /\ outcome' = [outcome EXCEPT ![r] = IF failed THEN "failed" ELSE "ok"]
      /\ endedIn' = [endedIn EXCEPT ![r] = a]
      /\ endedLate' = IF stage.open THEN endedLate ELSE endedLate \cup {r}
      /\ UNCHANGED <<model, done, fate>>
  BY StartedFact DEF IInv, TypeOK, TaskEnd, Ended
<1>3. TypeOK'
  BY <1>1, <1>2 DEF IInv, TypeOK, KeysMatch
<1>4. RecordInv'
  BY <1>1, <1>2 DEF IInv, RecordInv
<1>5. FateInv'
  BY <1>1, <1>2 DEF IInv, FateInv
<1>6. EndInv'
  <2> SUFFICES ASSUME NEW x \in Runs
               PROVE  /\ outcome'[x] # "running" => endedIn'[x] \in Attempts /\ endedIn'[x] <= a
                      /\ stage'.taskAttempts[TaskOf(x)] = x
                           => outcome'[x] # "running" /\ endedIn'[x] = a
    BY <1>1 DEF EndInv
  <2>1. /\ outcome[x] # "running" => endedIn[x] \in Attempts /\ endedIn[x] <= a
        /\ stage.taskAttempts[TaskOf(x)] = x => outcome[x] # "running" /\ endedIn[x] = a
    BY DEF IInv, EndInv
  <2>2. CASE x = r
    BY <1>2, <2>2, AttemptFact
  <2>3. CASE x # r
    <3>1. outcome'[x] = outcome[x] /\ endedIn'[x] = endedIn[x]
      BY <1>2, <2>3
    <3>2. stage'.taskAttempts[TaskOf(x)] = x => stage.taskAttempts[TaskOf(x)] = x
      <4>1. stage.taskAttempts \in [Tasks -> Runs \cup {NoRun}]
        BY FieldTypes DEF IInv, TypeOK
      <4> QED  BY <1>1, <2>3, <4>1, TaskOfRun
    <3> QED  BY <2>1, <3>1, <3>2
  <2> QED  BY <2>2, <2>3
<1>7. WorkInv'
  <2> SUFFICES ASSUME NEW x \in Runs
               PROVE  IF outcome'[x] = "running"
                        THEN Counts(stage', x) = 0
                        ELSE Counts(stage', x) = 1 \/ (Counts(stage', x) = 0 /\ LeftOut(x)')
    BY DEF WorkInv
  <2>1. CASE x # r
    <3>1. /\ outcome'[x] = outcome[x] /\ endedIn'[x] = endedIn[x] /\ fate' = fate
          /\ x \in endedLate' <=> x \in endedLate
      BY <1>2, <2>1
    <3>2. LeftOut(x) => LeftOut(x)'
      BY <3>1 DEF LeftOut
    <3>3. Counts(stage', x) = Counts(stage, x)
      BY <1>1, <2>1
    <3> QED  BY <3>1, <3>2, <3>3 DEF IInv, WorkInv
  <2>2. CASE x = r
    <3>1. outcome'[x] # "running" /\ endedIn'[x] = a
      BY <1>2, <2>2
    <3>2. ASSUME LateIgnored(r) PROVE LeftOut(r)'
      <4>1. ~stage.open /\ ~stage.failureReason /\ r.attempt = a /\ ~Speculative(r)
        BY <3>2 DEF LateIgnored, LostRace, OfFailedOrEarlierAttempt
      <4>2. fate[a] = "ok"
        BY <1>2, <4>1 DEF IInv, RecordInv
      <4> QED  BY <1>2, <2>2, <3>1, <4>1, <4>2 DEF LeftOut
    <3> QED  BY <1>1, <2>2, <3>1, <3>2
  <2> QED  BY <2>1, <2>2
<1>8. WasteInv'
  BY <1>1 DEF WasteInv
<1> QED  BY <1>3, <1>4, <1>5, <1>6, <1>7, <1>8 DEF IInv

LEMMA EmitInv == IInv /\ EmitParseCompletion => IInv'
<1> SUFFICES ASSUME IInv, EmitParseCompletion PROVE IInv'
  OBVIOUS
<1>1. UNCHANGED <<stage, outcome, fate, endedIn, endedLate>> /\ done' \in BOOLEAN
  BY DEF EmitParseCompletion
<1>2. model' \in StageMessages
  <2>1. /\ model \in StageMessages
        /\ stage.lateAttemptWork \in Totals
        /\ (IF stage.lateSpeculationWaste THEN stage.speculationWaste ELSE model.speculationWaste)
             \in [Runs -> Nat]
    BY FieldTypes DEF IInv, TypeOK, StageMessages
  <2> QED  BY <2>1 DEF EmitParseCompletion, StageMessages
<1>3. TypeOK'
  BY <1>1, <1>2 DEF IInv, TypeOK
<1>4. (\A r \in Runs : LeftOut(r)' <=> LeftOut(r))
  BY <1>1 DEF LeftOut
<1>5. RecordInv' /\ FateInv' /\ EndInv' /\ WasteInv'
  BY <1>1 DEF IInv, RecordInv, FateInv, EndInv, WasteInv
<1>6. WorkInv'
  BY <1>1, <1>4 DEF IInv, WorkInv
<1> QED  BY <1>3, <1>5, <1>6 DEF IInv

LEMMA StutterInv == IInv /\ UNCHANGED vars => IInv'
<1> SUFFICES ASSUME IInv, UNCHANGED vars PROVE IInv'
  OBVIOUS
<1>1. UNCHANGED <<stage, model, done, outcome, fate, endedIn, endedLate>>
  BY DEF vars
<1>2. \A r \in Runs : LeftOut(r)' <=> LeftOut(r)
  BY <1>1 DEF LeftOut
<1>3. TypeOK' /\ RecordInv' /\ FateInv' /\ EndInv' /\ WasteInv'
  BY <1>1 DEF IInv, TypeOK, RecordInv, FateInv, EndInv, WasteInv
<1>4. WorkInv'
  BY <1>1, <1>2 DEF IInv, WorkInv
<1> QED  BY <1>3, <1>4 DEF IInv

LEMMA Inductive == Spec => []IInv
<1>1. Init => IInv
  BY InitInv
<1>2. IInv /\ [Next]_vars => IInv'
  BY SubmitInv, CompletedInv, TaskEndInv, EmitInv, StutterInv DEF Next
<1> QED  BY <1>1, <1>2, PTL DEF Spec

-----------------------------------------------------------------------------
(* The theorems.                                                            *)

\* The record, the stage in the model and the log keep their types, and a
\* task's record is a run of that task.
THEOREM TypeCorrect == Spec => []TypeOK
<1>1. IInv => TypeOK
  BY DEF IInv
<1> QED  BY <1>1, Inductive, PTL

\* No run's work is summed twice and none before its TaskEnd, in whatever
\* order ends, completions, replays and resubmits come.
THEOREM CountedOnce == Spec => []WorkCountedOnce
<1>1. IInv => WorkCountedOnce
  BY DEF IInv, WorkInv, WorkCountedOnce, Counted, Counts, Existing
<1> QED  BY <1>1, Inductive, PTL

\* The work of every run that ended is in the totals, but for the two kinds of
\* runs LeftOut names.
THEOREM NoWorkLost == Spec => []WorkKept
<1>1. IInv => WorkKept
  BY DEF IInv, WorkInv, WorkKept, Counted, Counts, Existing
<1> QED  BY <1>1, Inductive, PTL

\* Waste is counted once, and only of runs whose work the stage's own figures
\* leave out.
THEOREM WasteCorrect == Spec => []WasteIsLateWork
<1>1. IInv => WasteIsLateWork
  BY DEF IInv, WasteInv, WasteIsLateWork, WasteOf
<1> QED  BY <1>1, Inductive, PTL

-----------------------------------------------------------------------------
(* What is shown.  The model is that of the attempt completed last, and     *)
(* what a TaskEnd or a replay may still change of that one is patched at    *)
(* the end.  The counts of attempts and the failed tasks are followed too.  *)

\* What neither the end of a run nor waste touches.
SameCounts(s, t) == /\ t.earlierAttempts = s.earlierAttempts
                    /\ t.stageAttempts = s.stageAttempts
                    /\ t.failedStageAttempts = s.failedStageAttempts

LEMMA KeepsFact ==
  ASSUME NEW s \in StageRecords, NEW r \in Runs, NEW totals, NEW failed \in BOOLEAN
  PROVE  /\ SameCounts(s, Late(s, totals)) /\ Late(s, totals).own = s.own
         /\ Late(s, totals).speculationWaste = s.speculationWaste
         /\ Late(s, totals).lateSpeculationWaste = s.lateSpeculationWaste
         /\ SameCounts(s, SpeculationWaste(s, r)) /\ SpeculationWaste(s, r).own = s.own
         /\ SameCounts(s, RetryWaste(s, r))
         /\ SameCounts(s, Waste(s, r))
         /\ SameCounts(s, Record(s, r, failed))
<1>1. /\ SameCounts(s, Late(s, totals)) /\ Late(s, totals).own = s.own
      /\ Late(s, totals).speculationWaste = s.speculationWaste
      /\ Late(s, totals).lateSpeculationWaste = s.lateSpeculationWaste
  BY DEF Late, SameCounts, StageRecords
<1>2. SameCounts(s, SpeculationWaste(s, r)) /\ SpeculationWaste(s, r).own = s.own
  BY DEF SpeculationWaste, SameCounts, StageRecords
<1>3. SameCounts(s, RetryWaste(s, r))
  BY DEF RetryWaste, SameCounts, StageRecords
<1>4. SameCounts(s, Record(s, r, failed))
  BY DEF Record, SameCounts, StageRecords
<1> QED  BY <1>1, <1>2, <1>3, <1>4 DEF Waste

LEMMA TaskEndKeeps ==
  ASSUME IInv, NEW r \in Runs, NEW failed \in BOOLEAN, TaskEnd(r, failed)
  PROVE  /\ SameCounts(stage, stage')
         /\ ~stage.open =>
              /\ stage'.own = stage.own
              /\ ~stage'.lateSpeculationWaste =>
                   /\ ~stage.lateSpeculationWaste
                   /\ stage'.speculationWaste = stage.speculationWaste
<1>1. stage \in StageRecords
  BY DEF IInv, TypeOK
<1>2. CASE FirstEnd(r, failed)
  BY <1>1, <1>2, KeepsFact DEF FirstEnd
<1>3. CASE RetrySucceeded(r, failed)
  <2> DEFINE e == Existing(r)
             w == Waste(stage, e)
             d == DiscardedAttemptTotals(e)
  <2>1. stage.open /\ stage' = Record(Late(w, d), r, failed) /\ e \in Runs
    BY <1>1, <1>3, FieldTypes, TaskOfRun DEF RetrySucceeded, Supersedes, Existing
  <2>2. w \in StageRecords /\ SameCounts(stage, w) /\ d \in Totals
    BY <1>1, <2>1, WasteFact, KeepsFact, DiscardedFact
  <2> HIDE DEF w, d
  <2>3. Late(w, d) \in StageRecords /\ SameCounts(w, Late(w, d))
    BY <2>1, <2>2, LateFact, KeepsFact
  <2>4. SameCounts(Late(w, d), stage')
    BY <2>1, <2>3, KeepsFact
  <2> QED  BY <2>1, <2>2, <2>3, <2>4 DEF SameCounts
<1> DEFINE d == DiscardedAttemptTotals(r)
           l == Late(stage, d)
<1>4. /\ l \in StageRecords /\ SameCounts(stage, l) /\ l.own = stage.own
      /\ l.lateSpeculationWaste = stage.lateSpeculationWaste
  BY <1>1, DiscardedFact, LateFact, KeepsFact
<1> HIDE DEF l
<1>5. CASE DuplicateEnd(r, failed)
  <2>1. stage.open /\ (stage' = l \/ stage' = Waste(l, r))
    BY <1>5 DEF DuplicateEnd, l
  <2>2. SameCounts(l, Waste(l, r))
    BY <1>4, KeepsFact
  <2> QED  BY <1>4, <2>1, <2>2 DEF SameCounts
<1>6. CASE LateLoser(r)
  <2> DEFINE w == SpeculationWaste(l, r)
  <2>1. ~stage.open /\ stage' = IF Speculative(r) THEN [w EXCEPT !.lateSpeculationWaste = TRUE] ELSE l
    BY <1>6 DEF LateLoser, l
  <2>2. w \in StageRecords /\ SameCounts(l, w) /\ w.own = l.own
    BY <1>4, WasteFact, KeepsFact
  <2> HIDE DEF w
  <2>3. CASE Speculative(r)
    <3>1. stage' = [w EXCEPT !.lateSpeculationWaste = TRUE]
      BY <2>1, <2>3
    <3>2. SameCounts(w, stage') /\ stage'.own = w.own /\ stage'.lateSpeculationWaste = TRUE
      BY <2>2, <3>1 DEF SameCounts, StageRecords
    <3> QED  BY <1>4, <2>1, <2>2, <3>2 DEF SameCounts
  <2>4. CASE ~Speculative(r)
    <3>1. stage' = l
      BY <2>1, <2>4
    <3>2. l.speculationWaste = stage.speculationWaste
      BY <1>1, KeepsFact DEF l
    <3> QED  BY <1>4, <2>1, <3>1, <3>2
  <2> QED  BY <2>3, <2>4
<1>7. CASE LateTask(r, failed)
  BY <1>1, <1>7, KeepsFact DEF LateTask
<1>8. CASE LateIgnored(r)
  BY <1>8 DEF LateIgnored, SameCounts
<1> QED  BY <1>2, <1>3, <1>5, <1>6, <1>7, <1>8 DEF TaskEnd

\* The model is the attempt completed last, as the record had it.
Agrees == /\ model.attemptId = stage.attemptId /\ model.own = stage.own
          /\ model.earlierAttempts = stage.earlierAttempts
          /\ model.stageAttempts = stage.stageAttempts
          /\ model.failedStageAttempts = stage.failedStageAttempts
          /\ ~stage.lateSpeculationWaste => model.speculationWaste = stage.speculationWaste

ShownInv ==
  /\ IF stage.open THEN model.attemptId < stage.attemptId ELSE Agrees
  /\ stage.attemptId = NoAttempt => model = StageMessage(stage)
  /\ done /\ ~stage.open => model = StageMessage(stage)

FailedAttempts == {a \in Attempts : fate[a] = "failed"}

CountsInv == /\ stage.stageAttempts = stage.attemptId + 1
             /\ stage.failedStageAttempts = Cardinality(FailedAttempts)

\* A task of the open attempt that had a run succeed is held by one that did.
SuccessInv ==
  stage.open => \A r \in Runs :
    outcome[r] = "ok" /\ endedIn[r] = stage.attemptId
      => Existing(r) # NoRun /\ outcome[Existing(r)] = "ok"

ShowInv == ShownInv /\ CountsInv /\ SuccessInv /\ FailedTaskHadNoSuccess

LEMMA AttemptsFinite == IsFiniteSet(Attempts) /\ IsFiniteSet(FailedAttempts)
<1>1. IsFiniteSet(Attempts)
  BY FS_Interval, StageAssumption DEF Attempts
<1> QED  BY <1>1, FS_Subset DEF FailedAttempts

LEMMA MessageFields ==
  ASSUME NEW s
  PROVE  /\ StageMessage(s).attemptId = s.attemptId /\ StageMessage(s).own = s.own
         /\ StageMessage(s).earlierAttempts = s.earlierAttempts
         /\ StageMessage(s).stageAttempts = s.stageAttempts
         /\ StageMessage(s).failedStageAttempts = s.failedStageAttempts
         /\ StageMessage(s).speculationWaste = s.speculationWaste
         /\ StageMessage(s).lateAttemptWork = s.lateAttemptWork
BY DEF StageMessage

LEMMA ShowInit == Init => ShowInv
<1> SUFFICES ASSUME Init PROVE ShowInv
  OBVIOUS
<1>1. ShownInv
  BY MessageFields DEF Init, ShownInv, Agrees, NoStage
<1>2. CountsInv
  <2>1. FailedAttempts = {}
    BY DEF Init, FailedAttempts
  <2> QED  BY <2>1, FS_EmptySet DEF Init, CountsInv, NoStage, NoAttempt
<1>3. SuccessInv /\ FailedTaskHadNoSuccess
  BY DEF Init, SuccessInv, NoStage, FailedTaskHadNoSuccess
<1> QED  BY <1>1, <1>2, <1>3 DEF ShowInv

LEMMA ShowSubmit == IInv /\ ShowInv /\ SubmitStage => ShowInv'
<1> SUFFICES ASSUME IInv, ShowInv, SubmitStage PROVE ShowInv'
  OBVIOUS
<1> DEFINE a == stage.attemptId + 1
<1>1. /\ stage \in StageRecords /\ a \in Attempts /\ stage.attemptId \in Attempts \cup {NoAttempt}
      /\ stage.open \in BOOLEAN /\ stage.attemptId \in Int
      /\ UNCHANGED <<model, done, outcome, endedIn, endedLate>> /\ ~done
      /\ stage' = NewRecord(stage)
      /\ fate \in [Attempts -> {"unsubmitted", "open", "ok", "failed", "replaced"}]
  BY FieldTypes, AttemptFact DEF IInv, TypeOK, SubmitStage
<1>2. /\ stage'.open /\ stage'.attemptId = a
      /\ stage'.stageAttempts = stage.stageAttempts + 1
      /\ stage'.failedStageAttempts = stage.failedStageAttempts
  BY <1>1 DEF NewRecord, NoStage
<1>3. ShownInv'
  <2>1. model.attemptId <= stage.attemptId /\ model.attemptId \in Int
    <3>1. model.attemptId \in Attempts \cup {NoAttempt}
      BY DEF IInv, TypeOK, StageMessages
    <3> QED  BY <1>1, <3>1, AttemptFact DEF ShowInv, ShownInv, Agrees
  <2>2. a # NoAttempt
    BY <1>1, AttemptFact
  <2> QED  BY <1>1, <1>2, <2>1, <2>2 DEF ShownInv
<1>4. CountsInv'
  <2>1. ASSUME NEW b \in Attempts PROVE fate'[b] = "failed" <=> fate[b] = "failed"
    <3>1. fate[a] = "unsubmitted"
      BY <1>1 DEF IInv, FateInv
    <3>2. b = stage.attemptId /\ stage.open => fate[b] = "open"
      BY DEF IInv, RecordInv
    <3> QED  BY <3>1, <3>2 DEF SubmitStage
  <2>2. FailedAttempts' = FailedAttempts
    BY <2>1 DEF FailedAttempts
  <2> QED  BY <1>1, <1>2, <2>2 DEF ShowInv, CountsInv
<1>5. SuccessInv'
  <2> SUFFICES ASSUME NEW r \in Runs, outcome[r] = "ok", endedIn[r] = a PROVE FALSE
    BY <1>1, <1>2 DEF SuccessInv
  <2>1. endedIn[r] <= stage.attemptId
    BY DEF IInv, EndInv
  <2> QED  BY <1>1, <2>1
<1>6. FailedTaskHadNoSuccess'
  BY <1>1 DEF ShowInv, FailedTaskHadNoSuccess
<1> QED  BY <1>3, <1>4, <1>5, <1>6 DEF ShowInv

\* The figures of the attempt take their failed tasks from its records.
LEMMA FailedFact ==
  ASSUME NEW s \in StageRecords, NEW k \in Tasks, FinalizeStage(s).own.failed[k] > 0
  PROVE  \E x \in Runs : s.taskAttempts[k] = x /\ TaskOf(x) = k /\ outcome[x] = "failed"
<1> DEFINE T == {TaskOf(r) : r \in {x \in Recorded(s) : outcome[x] = "failed"}}
<1>1. FinalizeStage(s).own.failed = Once(Tasks, T)
  BY DEF FinalizeStage, StageRecords
<1>2. Once(Tasks, T)[k] = IF k \in T THEN 1 ELSE 0
  BY OnceFact
<1>3. k \in T
  BY <1>1, <1>2
<1> QED  BY <1>3 DEF Recorded

LEMMA ShowCompleted ==
  IInv /\ ShowInv /\ (\E failed \in BOOLEAN : StageCompleted(failed)) => ShowInv'
<1> SUFFICES ASSUME IInv, ShowInv, NEW failed \in BOOLEAN, StageCompleted(failed) PROVE ShowInv'
  OBVIOUS
<1> DEFINE a == stage.attemptId
           result == IF failed THEN "failed" ELSE "ok"
           c == CountFailure(stage, failed)
           n == IF failed /\ stage.open THEN stage.failedStageAttempts + 1
                                        ELSE stage.failedStageAttempts
<1>1. /\ stage \in StageRecords /\ KeysMatch(stage)
      /\ a \in Attempts /\ a # NoAttempt /\ stage.open \in BOOLEAN
      /\ fate[a] \in {"open", result}
      /\ fate \in [Attempts -> {"unsubmitted", "open", "ok", "failed", "replaced"}]
      /\ fate' = [fate EXCEPT ![a] = result]
      /\ UNCHANGED <<done, outcome, endedIn, endedLate>> /\ ~done
      /\ stage.failedStageAttempts \in Nat
  BY FieldTypes, AttemptFact DEF IInv, TypeOK, KeysMatch, StageCompleted, StageRecords
<1>2. /\ c \in StageRecords /\ c.open = stage.open /\ c.taskAttempts = stage.taskAttempts
      /\ c.own = stage.own /\ c.attemptId = a /\ c.earlierAttempts = stage.earlierAttempts
      /\ c.stageAttempts = stage.stageAttempts /\ c.failedStageAttempts = n
      /\ c.speculationWaste = stage.speculationWaste
      /\ c.lateSpeculationWaste = stage.lateSpeculationWaste
  <2>1. c = [[stage EXCEPT !.failureReason = failed] EXCEPT !.failedStageAttempts = n]
    BY <1>1 DEF CountFailure, StageRecords
  <2>2. c \in StageRecords
    BY <1>1, CountFailureFact
  <2> HIDE DEF c, n
  <2> QED  BY <1>1, <2>1, <2>2 DEF StageRecords
<1>3. IF stage.open
        THEN stage' = FinalizeStage(c) /\ model' = StageMessage(FinalizeStage(c))
        ELSE stage' = c /\ UNCHANGED model
  BY <1>2 DEF StageCompleted
<1> HIDE DEF c
<1>4. /\ stage'.attemptId = a /\ ~stage'.open
      /\ stage'.stageAttempts = stage.stageAttempts /\ stage'.failedStageAttempts = n
  <2>1. CASE stage.open
    BY <1>2, <1>3, <2>1 DEF FinalizeStage, StageRecords
  <2>2. CASE ~stage.open
    BY <1>1, <1>2, <1>3, <2>2
  <2> QED  BY <2>1, <2>2
<1>5. ShownInv'
  <2>1. CASE stage.open
    BY <1>1, <1>3, <1>4, <2>1, MessageFields DEF ShownInv, Agrees
  <2>2. CASE ~stage.open
    <3>1. UNCHANGED <<stage.own, stage.earlierAttempts, stage.speculationWaste,
                      stage.lateSpeculationWaste, model>>
      BY <1>2, <1>3, <2>2
    <3>2. n = stage.failedStageAttempts
      BY <1>1, <2>2
    <3> QED  BY <1>1, <1>4, <2>2, <3>1, <3>2 DEF ShowInv, ShownInv, Agrees
  <2> QED  BY <2>1, <2>2
<1>6. CountsInv'
  <2>1. stage.failedStageAttempts = Cardinality(FailedAttempts) /\ stage.stageAttempts = a + 1
    BY DEF ShowInv, CountsInv
  <2>2. CASE failed /\ stage.open
    <3>1. fate[a] = "open"
      BY <2>2 DEF IInv, RecordInv
    <3>2. FailedAttempts' = FailedAttempts \cup {a} /\ a \notin FailedAttempts
      BY <1>1, <2>2, <3>1 DEF FailedAttempts
    <3>3. Cardinality(FailedAttempts') = Cardinality(FailedAttempts) + 1
      BY <3>2, AttemptsFinite, FS_AddElement
    <3> QED  BY <1>4, <2>1, <2>2, <3>3 DEF CountsInv
  <2>3. CASE ~(failed /\ stage.open)
    <3>1. fate[a] = "failed" <=> result = "failed"
      BY <1>1, <2>3 DEF IInv, RecordInv
    <3>2. FailedAttempts' = FailedAttempts
      BY <1>1, <3>1 DEF FailedAttempts
    <3> QED  BY <1>1, <1>4, <2>1, <2>3, <3>2 DEF CountsInv
  <2> QED  BY <2>2, <2>3
<1>7. SuccessInv'
  BY <1>4 DEF SuccessInv
<1>8. FailedTaskHadNoSuccess'
  <2>1. CASE stage.open
    <3> SUFFICES ASSUME NEW r \in Runs, model'.own.failed[TaskOf(r)] > 0,
                        endedIn[r] = a, outcome[r] = "ok"
                 PROVE  FALSE
      BY <1>1, <1>3, <1>4, <2>1, MessageFields DEF FailedTaskHadNoSuccess
    <3>1. FinalizeStage(c).own.failed[TaskOf(r)] > 0
      BY <1>3, <2>1, MessageFields
    <3>2. PICK x \in Runs : stage.taskAttempts[TaskOf(r)] = x /\ outcome[x] = "failed"
      BY <1>2, <3>1, FailedFact, TaskOfRun
    <3>3. outcome[Existing(r)] = "ok"
      BY <2>1 DEF ShowInv, SuccessInv
    <3> QED  BY <3>2, <3>3 DEF Existing
  <2>2. CASE ~stage.open
    BY <1>1, <1>3, <2>2 DEF ShowInv, FailedTaskHadNoSuccess
  <2> QED  BY <2>1, <2>2
<1> QED  BY <1>5, <1>6, <1>7, <1>8 DEF ShowInv

LEMMA ShowTaskEnd ==
  IInv /\ ShowInv /\ (\E r \in Runs, failed \in BOOLEAN : TaskEnd(r, failed)) => ShowInv'
<1> SUFFICES ASSUME IInv, ShowInv, NEW r \in Runs, NEW failed \in BOOLEAN, TaskEnd(r, failed)
             PROVE  ShowInv'
  OBVIOUS
<1> DEFINE a == stage.attemptId
<1>1. /\ stage \in StageRecords /\ stage.taskAttempts \in [Tasks -> Runs \cup {NoRun}]
      /\ a \in Attempts /\ a # NoAttempt /\ stage.open \in BOOLEAN
      /\ outcome \in [Runs -> {"running", "ok", "failed"}]
      /\ endedIn \in [Runs -> Attempts \cup {NoAttempt}]
      /\ outcome[r] = "running" /\ outcome' = [outcome EXCEPT ![r] = IF failed THEN "failed" ELSE "ok"]
      /\ endedIn' = [endedIn EXCEPT ![r] = a]
      /\ endedLate' = IF stage.open THEN endedLate ELSE endedLate \cup {r}
      /\ UNCHANGED <<model, done, fate>> /\ ~done
  BY StartedFact, FieldTypes, AttemptFact DEF IInv, TypeOK, TaskEnd, Ended
<1>2. stage'.attemptId = a /\ stage'.open = stage.open
  BY TaskEndFact DEF SameAttempt
<1>3. ShownInv' /\ CountsInv'
  <2>1. FailedAttempts' = FailedAttempts
    BY <1>1 DEF FailedAttempts
  <2> QED  BY <1>1, <1>2, <2>1, TaskEndKeeps
           DEF SameCounts, ShowInv, ShownInv, CountsInv, Agrees
<1>4. SuccessInv'
  <2> SUFFICES ASSUME stage.open, NEW x \in Runs, outcome'[x] = "ok", endedIn'[x] = a
               PROVE  stage'.taskAttempts[TaskOf(x)] # NoRun /\ outcome'[stage'.taskAttempts[TaskOf(x)]] = "ok"
    BY <1>2 DEF SuccessInv, Existing
  <2> DEFINE e(y) == stage.taskAttempts[TaskOf(y)]
  <2>1. \A y \in Runs : e(y) \in Runs => outcome[e(y)] # "running" /\ outcome'[e(y)] = outcome[e(y)]
    <3> SUFFICES ASSUME NEW y \in Runs, e(y) \in Runs PROVE outcome[e(y)] # "running"
      BY <1>1
    <3>1. TaskOf(e(y)) = TaskOf(y)
      BY TaskOfRun, StageAssumption DEF IInv, TypeOK
    <3> QED  BY <3>1 DEF IInv, EndInv
  <2>2. x # r => e(x) \in Runs /\ outcome[e(x)] = "ok"
    BY <1>1, TaskOfRun DEF ShowInv, SuccessInv, Existing
  <2>3. CASE /\ stage'.taskAttempts = [stage.taskAttempts EXCEPT ![TaskOf(r)] = r]
             /\ failed => e(r) = NoRun
    <3>1. CASE TaskOf(x) = TaskOf(r)
      <4>1. stage'.taskAttempts[TaskOf(x)] = r
        BY <1>1, <2>3, <3>1, TaskOfRun
      <4>2. ~failed
        BY <1>1, <2>2, <2>3, <3>1, StageAssumption
      <4> QED  BY <1>1, <4>1, <4>2, StageAssumption
    <3>2. CASE TaskOf(x) # TaskOf(r)
      <4>1. stage'.taskAttempts[TaskOf(x)] = e(x) /\ x # r
        BY <1>1, <2>3, <3>2, TaskOfRun
      <4> QED  BY <2>1, <2>2, <4>1, StageAssumption
    <3> QED  BY <3>1, <3>2
  <2>4. CASE stage'.taskAttempts = stage.taskAttempts /\ e(r) # NoRun /\ ~Supersedes(r, failed)
    <3>1. x = r => e(x) \in Runs /\ outcome[e(x)] = "ok"
      BY <1>1, <2>1, <2>4, TaskOfRun DEF Supersedes, Existing
    <3> QED  BY <2>1, <2>2, <2>4, <3>1, StageAssumption
  <2> DEFINE h == stage'.taskAttempts
  <2>8. \/ h = stage.taskAttempts
        \/ h = [stage.taskAttempts EXCEPT ![TaskOf(r)] = r]
    BY TaskEndFact
  <2>9. e(r) # r
    BY <1>1 DEF IInv, EndInv
  <2>10. ASSUME NEW s \in StageRecords, stage' = Record(s, r, failed)
         PROVE  h[TaskOf(r)] = r
    <3>1. s.taskAttempts \in [Tasks -> Runs \cup {NoRun}]
      BY FieldTypes
    <3>2. stage'.taskAttempts = [s.taskAttempts EXCEPT ![TaskOf(r)] = r]
      BY <2>10 DEF Record, StageRecords
    <3> QED  BY <3>1, <3>2, TaskOfRun
  <2>5. CASE FirstEnd(r, failed)
    BY <1>1, <2>3, <2>5, <2>8, <2>9, <2>10 DEF FirstEnd, Existing
  <2>6. CASE RetrySucceeded(r, failed)
    <3> DEFINE w == Waste(stage, e(r))
               d == DiscardedAttemptTotals(e(r))
    <3>1. stage' = Record(Late(w, d), r, failed) /\ ~failed /\ e(r) \in Runs
      BY <1>1, <2>6, TaskOfRun DEF RetrySucceeded, Supersedes, Existing
    <3>2. w \in StageRecords /\ d \in Totals
      BY <1>1, <3>1, WasteFact, DiscardedFact
    <3> HIDE DEF w, d
    <3>3. Late(w, d) \in StageRecords
      BY <3>2, LateFact
    <3>4. h[TaskOf(r)] = r
      BY <2>10, <3>1, <3>3
    <3>5. h = [stage.taskAttempts EXCEPT ![TaskOf(r)] = r]
      BY <2>8, <2>9, <3>4
    <3> QED  BY <2>3, <3>1, <3>5
  <2>7. CASE DuplicateEnd(r, failed)
    <3> DEFINE l == Late(stage, DiscardedAttemptTotals(r))
    <3>1. l \in StageRecords /\ l.taskAttempts = stage.taskAttempts
      BY <1>1, DiscardedFact, LateFact
    <3>2. stage' = l \/ stage' = Waste(l, r)
      BY <2>7 DEF DuplicateEnd
    <3> HIDE DEF l
    <3>3. Waste(l, r).taskAttempts = l.taskAttempts
      BY <3>1, WasteFact
    <3>4. h = stage.taskAttempts
      BY <3>1, <3>2, <3>3
    <3> QED  BY <2>4, <2>7, <3>4 DEF DuplicateEnd, Existing
  <2> QED  BY <2>5, <2>6, <2>7 DEF TaskEnd, LateLoser, LateTask, LateIgnored
<1>5. FailedTaskHadNoSuccess'
  <2> SUFFICES ASSUME NEW x \in Runs, model.own.failed[TaskOf(x)] > 0,
                      endedIn'[x] = model.attemptId, x \notin endedLate', outcome'[x] = "ok"
               PROVE  FALSE
    BY <1>1 DEF FailedTaskHadNoSuccess
  <2>1. CASE x = r
    <3>1. stage.open /\ model.attemptId = a
      BY <1>1, <2>1
    <3> QED  BY <1>1, <3>1, AttemptFact DEF ShowInv, ShownInv
  <2>2. CASE x # r
    BY <1>1, <2>2 DEF ShowInv, FailedTaskHadNoSuccess
  <2> QED  BY <2>1, <2>2
<1> QED  BY <1>3, <1>4, <1>5 DEF ShowInv

LEMMA ShowEmit == IInv /\ ShowInv /\ EmitParseCompletion => ShowInv'
<1> SUFFICES ASSUME IInv, ShowInv, EmitParseCompletion PROVE ShowInv'
  OBVIOUS
<1>1. /\ UNCHANGED <<stage, outcome, fate, endedIn, endedLate>> /\ model \in StageMessages
      /\ stage \in StageRecords /\ stage.attemptId \in Attempts \cup {NoAttempt}
  BY FieldTypes DEF IInv, TypeOK, EmitParseCompletion
<1> DEFINE w == IF stage.lateSpeculationWaste THEN stage.speculationWaste
                                               ELSE model.speculationWaste
<1>2. model' = IF model.attemptId = NoAttempt THEN model
               ELSE [[model EXCEPT !.lateAttemptWork = stage.lateAttemptWork]
                             EXCEPT !.speculationWaste = w]
  BY <1>1 DEF EmitParseCompletion, StageMessages
<1>3. /\ model'.attemptId = model.attemptId /\ model'.own = model.own
      /\ model'.earlierAttempts = model.earlierAttempts
      /\ model'.stageAttempts = model.stageAttempts
      /\ model'.failedStageAttempts = model.failedStageAttempts
      /\ ~stage.lateSpeculationWaste => model'.speculationWaste = model.speculationWaste
  BY <1>1, <1>2 DEF StageMessages
<1>4. CASE stage.open
  <2>1. model.attemptId \in Attempts \cup {NoAttempt} /\ stage.attemptId # NoAttempt
    BY <1>1, <1>4, AttemptFact DEF StageMessages, IInv, RecordInv
  <2>2. ShownInv'
    BY <1>1, <1>3, <1>4, <2>1 DEF ShowInv, ShownInv
  <2> QED  BY <1>1, <1>3, <2>2 DEF ShowInv, CountsInv, FailedAttempts, SuccessInv, Existing,
                                   FailedTaskHadNoSuccess
<1>5. CASE ~stage.open
  <2>1. Agrees'
    BY <1>1, <1>3, <1>5 DEF ShowInv, ShownInv, Agrees
  <2>2. model' = StageMessage(stage)
    <3>1. CASE stage.attemptId = NoAttempt
      BY <1>2, <1>5, <3>1, MessageFields DEF ShowInv, ShownInv
    <3>2. CASE stage.attemptId # NoAttempt
      <4>1. model.attemptId # NoAttempt
        BY <1>5, <3>2 DEF ShowInv, ShownInv, Agrees
      <4>2. /\ model'.lateAttemptWork = stage.lateAttemptWork
            /\ model'.speculationWaste = stage.speculationWaste
        <5>1. model'.speculationWaste = w
          BY <1>1, <1>2, <4>1 DEF StageMessages
        <5>2. w = stage.speculationWaste
          BY <1>5 DEF ShowInv, ShownInv, Agrees
        <5>3. model'.lateAttemptWork = stage.lateAttemptWork
          BY <1>1, <1>2, <4>1 DEF StageMessages
        <5> QED  BY <5>1, <5>2, <5>3
      <4>3. model' \in StageMessages
        <5>1. w \in [Runs -> Nat] /\ stage.lateAttemptWork \in Totals
          BY <1>1, FieldTypes DEF StageMessages
        <5> HIDE DEF w
        <5> QED  BY <1>1, <1>2, <5>1 DEF StageMessages
      <4> QED  BY <1>1, <2>1, <4>2, <4>3 DEF Agrees, StageMessage, StageMessages
    <3> QED  BY <3>1, <3>2
  <2>3. ShownInv'
    BY <1>1, <1>5, <2>1, <2>2 DEF ShownInv
  <2> QED  BY <1>1, <1>3, <2>3 DEF ShowInv, CountsInv, FailedAttempts, SuccessInv, Existing,
                                   FailedTaskHadNoSuccess
<1> QED  BY <1>4, <1>5

LEMMA ShowStutter == ShowInv /\ UNCHANGED vars => ShowInv'
BY DEF vars, ShowInv, ShownInv, Agrees, CountsInv, FailedAttempts, SuccessInv, Existing,
       FailedTaskHadNoSuccess

LEMMA Shown == Spec => []ShowInv
<1>1. Init => ShowInv
  BY ShowInit
<1>2. IInv /\ ShowInv /\ [Next]_vars => ShowInv'
  BY ShowSubmit, ShowCompleted, ShowTaskEnd, ShowEmit, ShowStutter DEF Next
<1> QED  BY <1>1, <1>2, Inductive, PTL DEF Spec

\* A task shown as failed had no run that succeeded in its attempt, whatever
\* the order its tries and copies end in.
THEOREM FailuresCorrect == Spec => []FailedTaskHadNoSuccess
<1>1. ShowInv => FailedTaskHadNoSuccess
  BY DEF ShowInv
<1> QED  BY <1>1, Shown, PTL

\* Attempts and failed attempts are counted once each, replays included, and a
\* finished parse shows the record, late ends included.
THEOREM RecordCorrect == Spec => []RecordIsShown
<1>1. IInv /\ ShowInv => RecordIsShown
  <2> SUFFICES ASSUME IInv, ShowInv PROVE RecordIsShown
    OBVIOUS
  <2>1. {a \in Attempts : fate[a] # "unsubmitted"} = 0..stage.attemptId
    <3>1. stage.attemptId \in Attempts \cup {NoAttempt}
      BY FieldTypes DEF IInv, TypeOK
    <3> QED  BY <3>1, StageAssumption DEF IInv, FateInv, Attempts, NoAttempt
  <2>2. stage.attemptId \in Int /\ stage.attemptId >= -1
    BY FieldTypes, AttemptFact DEF IInv, TypeOK
  <2>3. Cardinality(0..stage.attemptId) = stage.attemptId + 1
    BY <2>2, FS_Interval
  <2> QED  BY <2>1, <2>3 DEF ShowInv, CountsInv, ShownInv, FailedAttempts, RecordIsShown,
                             AttemptsCounted, ModelShowsRecord
<1> QED  BY <1>1, Inductive, Shown, PTL

-----------------------------------------------------------------------------
(* Counting.                                                                *)

If(condition) == IF condition THEN 1 ELSE 0
CountsDiffer(S, T, x) ==
  /\ Cardinality(S) \in Nat /\ Cardinality(T) \in Nat
  /\ Cardinality(T) = Cardinality(S) - If(x \in S) + If(x \in T)

\* Sets that differ in one element at most.
LEMMA Changed ==
  ASSUME NEW S, IsFiniteSet(S), NEW T, NEW x, \A y : y # x => (y \in S <=> y \in T)
  PROVE  CountsDiffer(S, T, x)
<1>1. Cardinality(S) \in Nat
  BY FS_CardinalityType
<1>2. CASE (x \in S) <=> (x \in T)
  <2>1. S = T
    BY <1>2
  <2> QED  BY <1>1, <2>1 DEF CountsDiffer, If
<1>3. CASE x \in S /\ x \notin T
  <2>1. T = S \ {x}
    BY <1>3
  <2>2. IsFiniteSet(T) /\ Cardinality(T) = Cardinality(S) - 1 /\ Cardinality(T) \in Nat
    BY <1>3, <2>1, FS_RemoveElement, FS_CardinalityType
  <2> QED  BY <1>1, <1>3, <2>2 DEF CountsDiffer, If
<1>4. CASE x \notin S /\ x \in T
  <2>1. T = S \cup {x}
    BY <1>4
  <2>2. IsFiniteSet(T) /\ Cardinality(T) = Cardinality(S) + 1 /\ Cardinality(T) \in Nat
    BY <1>4, <2>1, FS_AddElement, FS_CardinalityType
  <2> QED  BY <1>1, <1>4, <2>2 DEF CountsDiffer, If
<1> QED  BY <1>2, <1>3, <1>4

LEMMA KeysFinite == IsFiniteSet(Keys) /\ IsFiniteSet(Rdds \X Keys)
BY RddAssumption, FS_Product DEF Keys

-----------------------------------------------------------------------------
(* One block.                                                               *)

\* What an RDD's levels become with those of one block.
Replicas(c, p) == Cardinality({k \in Held(c) : k[1] = p})

Moved(c, e, k, level) ==
  /\ BytesOf(c) \in Nat \X Nat /\ BytesOf(e) \in Nat \X Nat
  /\ BytesOf(e)[1] = BytesOf(c)[1] - c[k].memory + level.memory
  /\ BytesOf(e)[2] = BytesOf(c)[2] - c[k].disk + level.disk
  /\ \A p \in Partitions :
       /\ Replicas(c, p) \in Nat /\ Replicas(e, p) \in Nat
       /\ Replicas(e, p) = Replicas(c, p) - If(k[1] = p /\ c[k] # NotResident)
                                          + If(k[1] = p /\ level # NotResident)

LEMMA LevelChanged ==
  ASSUME NEW c \in [Keys -> Levels], NEW k \in Keys, NEW level \in Levels,
         NEW e, e = [c EXCEPT ![k] = level]
  PROVE  Moved(c, e, k, level)
<1> DEFINE M(f) == {j \in Keys : f[j].memory = 1}
           D(f) == {j \in Keys : f[j].disk = 1}
           R(f, p) == {j \in Held(f) : j[1] = p}
<1>1. e \in [Keys -> Levels] /\ e[k] = level /\ \A j \in Keys : j # k => e[j] = c[j]
  OBVIOUS
<1>2. \A p \in Partitions : IsFiniteSet(M(c)) /\ IsFiniteSet(D(c)) /\ IsFiniteSet(R(c, p))
  BY KeysFinite, FS_Subset DEF Held
<1>3. \A f : BytesOf(f) = <<Cardinality(M(f)), Cardinality(D(f))>>
  BY DEF BytesOf
<1>4. /\ c[k].memory = If(k \in M(c)) /\ level.memory = If(k \in M(e))
      /\ c[k].disk = If(k \in D(c)) /\ level.disk = If(k \in D(e))
  BY <1>1 DEF Levels, If
<1>5. /\ \A y : y # k => (y \in M(c) <=> y \in M(e))
      /\ \A y : y # k => (y \in D(c) <=> y \in D(e))
      /\ \A p : \A y : y # k => (y \in R(c, p) <=> y \in R(e, p))
  BY <1>1 DEF Held
<1>6. \A p : (k \in R(c, p) <=> k[1] = p /\ c[k] # NotResident)
             /\ (k \in R(e, p) <=> k[1] = p /\ level # NotResident)
  BY <1>1 DEF Held
<1>7. \A p : Replicas(c, p) = Cardinality(R(c, p)) /\ Replicas(e, p) = Cardinality(R(e, p))
  BY DEF Replicas
<1> HIDE DEF M, D, R
<1>8. CountsDiffer(M(c), M(e), k)
  <2> DEFINE S == M(c)
             T == M(e)
  <2>1. IsFiniteSet(S) /\ \A y : y # k => (y \in S <=> y \in T)
    <3>1. IsFiniteSet(M(c))
      BY KeysFinite, FS_Subset DEF M
    <3> QED  BY <1>5, <3>1
  <2> HIDE DEF S, T
  <2>2. CountsDiffer(S, T, k)
    BY <2>1, Changed
  <2> QED  BY <2>2 DEF S, T
<1>9. CountsDiffer(D(c), D(e), k)
  <2> DEFINE S == D(c)
             T == D(e)
  <2>1. IsFiniteSet(S) /\ \A y : y # k => (y \in S <=> y \in T)
    <3>1. IsFiniteSet(D(c))
      BY KeysFinite, FS_Subset DEF D
    <3> QED  BY <1>5, <3>1
  <2> HIDE DEF S, T
  <2>2. CountsDiffer(S, T, k)
    BY <2>1, Changed
  <2> QED  BY <2>2 DEF S, T
<1>10. ASSUME NEW p \in Partitions
       PROVE  CountsDiffer(R(c, p), R(e, p), k)
  <2> DEFINE S == R(c, p)
             T == R(e, p)
  <2>1. IsFiniteSet(S) /\ \A y : y # k => (y \in S <=> y \in T)
    BY <1>2, <1>5
  <2> HIDE DEF S, T
  <2>2. CountsDiffer(S, T, k)
    BY <2>1, Changed
  <2> QED  BY <2>2 DEF S, T
<1>11. BytesOf(c) \in Nat \X Nat /\ BytesOf(e) \in Nat \X Nat
       /\ BytesOf(e)[1] = BytesOf(c)[1] - c[k].memory + level.memory
       /\ BytesOf(e)[2] = BytesOf(c)[2] - c[k].disk + level.disk
  BY <1>3, <1>4, <1>8, <1>9 DEF CountsDiffer
<1>12. ASSUME NEW p \in Partitions
       PROVE  /\ Replicas(c, p) \in Nat /\ Replicas(e, p) \in Nat
              /\ Replicas(e, p) = Replicas(c, p) - If(k[1] = p /\ c[k] # NotResident)
                                                 + If(k[1] = p /\ level # NotResident)
  <2>1. CountsDiffer(R(c, p), R(e, p), k)
    BY <1>10
  <2>2. (k \in R(c, p) <=> k[1] = p /\ c[k] # NotResident) /\ (k \in R(e, p) <=> k[1] = p /\ level # NotResident)
    BY <1>6
  <2>3. Replicas(c, p) = Cardinality(R(c, p)) /\ Replicas(e, p) = Cardinality(R(e, p))
    BY <1>7
  <2> QED  BY <2>1, <2>2, <2>3 DEF CountsDiffer, If
<1> QED  BY <1>11, <1>12 DEF Moved

\* What is kept of an RDD, and that it agrees with the levels of its blocks.
BlocksKept == [blocks : [Keys -> Levels], bytes : Nat \X Nat, replicas : [Partitions -> Nat],
               peak : Nat]
Agree(b, c) ==
  /\ b.blocks = c /\ b.bytes = BytesOf(c)
  /\ \A p \in Partitions : b.replicas[p] = Replicas(c, p)

KeepsUp(d, e, b) == d \in BlocksKept /\ Agree(d, e) /\ d.peak = b.peak /\ e \in [Keys -> Levels]

LEMMA DropAgrees ==
  ASSUME NEW b \in BlocksKept, NEW c \in [Keys -> Levels], Agree(b, c), NEW k \in Keys
  PROVE  KeepsUp(DropRddBlock(b, k), [c EXCEPT ![k] = NotResident], b)
<1> DEFINE d == DropRddBlock(b, k)
           e == [c EXCEPT ![k] = NotResident]
<1>1. NotResident \in Levels /\ NotResident.memory = 0 /\ NotResident.disk = 0
  BY DEF NotResident, Levels
<1>2. /\ BytesOf(c) \in Nat \X Nat /\ BytesOf(e) \in Nat \X Nat
      /\ BytesOf(e)[1] = BytesOf(c)[1] - c[k].memory + 0
      /\ BytesOf(e)[2] = BytesOf(c)[2] - c[k].disk + 0
      /\ \A p \in Partitions :
           /\ Replicas(c, p) \in Nat /\ Replicas(e, p) \in Nat
           /\ Replicas(e, p) = Replicas(c, p) - If(k[1] = p /\ c[k] # NotResident) + 0
  <2>1. Moved(c, e, k, NotResident)
    BY <1>1, LevelChanged
  <2> QED  BY <1>1, <2>1 DEF Moved, If
<1>3. b.blocks = c /\ b.bytes = BytesOf(c) /\ \A p \in Partitions : b.replicas[p] = Replicas(c, p)
  BY DEF Agree
<1>4. e \in [Keys -> Levels]
  BY <1>1
<1>5. CASE c[k] = NotResident
  <2>1. e = c /\ d = b
    BY <1>3, <1>5 DEF DropRddBlock
  <2> QED  BY <1>4, <2>1 DEF KeepsUp
<1>6. CASE c[k] # NotResident
  <2> DEFINE bytes == <<b.bytes[1] - b.blocks[k].memory, b.bytes[2] - b.blocks[k].disk>>
             replicas == [b.replicas EXCEPT ![k[1]] = @ - 1]
  <2>1. d = [blocks |-> [b.blocks EXCEPT ![k] = NotResident], bytes |-> bytes,
             replicas |-> replicas, peak |-> b.peak]
    BY <1>3, <1>6 DEF DropRddBlock, BlocksKept
  <2>2. bytes = BytesOf(e)
    <3>1. c[k].memory \in Int /\ c[k].disk \in Int
      BY DEF Levels
    <3>2. bytes[1] = BytesOf(e)[1] /\ bytes[2] = BytesOf(e)[2]
      BY <1>2, <1>3, <3>1
    <3> QED  BY <1>2, <3>2
  <2>3. k[1] \in Partitions
    BY DEF Keys
  <2>4. replicas \in [Partitions -> Nat] /\ \A p \in Partitions : replicas[p] = Replicas(e, p)
    <3>1. b.replicas \in [Partitions -> Nat]
      BY DEF BlocksKept
    <3>2. ASSUME NEW p \in Partitions PROVE replicas[p] = Replicas(e, p)
      <4>1. /\ Replicas(e, p) = Replicas(c, p) - If(k[1] = p /\ c[k] # NotResident) + 0
            /\ Replicas(c, p) \in Nat /\ b.replicas[p] = Replicas(c, p)
        BY <1>2, <1>3
      <4>2. replicas[p] = IF p = k[1] THEN b.replicas[p] - 1 ELSE b.replicas[p]
        BY <3>1
      <4> HIDE DEF replicas
      <4>3. CASE k[1] = p
        BY <1>6, <4>1, <4>2, <4>3 DEF If
      <4>4. CASE k[1] # p
        BY <4>1, <4>2, <4>4 DEF If
      <4> QED  BY <4>3, <4>4
    <3>3. DOMAIN replicas = Partitions
      BY <3>1
    <3> HIDE DEF replicas
    <3>4. replicas = [p \in Partitions |-> replicas[p]]
      BY <3>1, <3>3 DEF replicas
    <3> QED  BY <1>2, <3>2, <3>4
  <2> HIDE DEF bytes, replicas
  <2>5. d.blocks = e /\ d.bytes = BytesOf(e) /\ d.replicas = replicas /\ d.peak = b.peak
    BY <1>3, <2>1, <2>2
  <2>6. d \in BlocksKept
    BY <1>2, <1>4, <2>1, <2>2, <2>4, <2>5 DEF BlocksKept
  <2> QED  BY <1>4, <2>4, <2>5, <2>6 DEF Agree, KeepsUp
<1> QED  BY <1>5, <1>6

LEMMA AddAgrees ==
  ASSUME NEW b \in BlocksKept, NEW c \in [Keys -> Levels], Agree(b, c), NEW k \in Keys,
         c[k] = NotResident, NEW level \in Levels
  PROVE  KeepsUp(AddRddBlock(b, k, level), [c EXCEPT ![k] = level], b)
<1> DEFINE d == AddRddBlock(b, k, level)
           e == [c EXCEPT ![k] = level]
<1>1. c[k].memory = 0 /\ c[k].disk = 0
  BY DEF NotResident
<1>2. /\ BytesOf(c) \in Nat \X Nat /\ BytesOf(e) \in Nat \X Nat
      /\ BytesOf(e)[1] = BytesOf(c)[1] - 0 + level.memory
      /\ BytesOf(e)[2] = BytesOf(c)[2] - 0 + level.disk
      /\ \A p \in Partitions :
           /\ Replicas(c, p) \in Nat /\ Replicas(e, p) \in Nat
           /\ Replicas(e, p) = Replicas(c, p) - 0 + If(k[1] = p /\ level # NotResident)
  <2>1. Moved(c, e, k, level)
    BY LevelChanged
  <2> QED  BY <1>1, <2>1 DEF Moved, If
<1>3. b.blocks = c /\ b.bytes = BytesOf(c) /\ \A p \in Partitions : b.replicas[p] = Replicas(c, p)
  BY DEF Agree
<1>4. e \in [Keys -> Levels]
  OBVIOUS
<1>5. CASE level = NotResident
  <2>1. e = c /\ d = b
    BY <1>5 DEF AddRddBlock
  <2> QED  BY <1>4, <2>1 DEF KeepsUp
<1>6. CASE level # NotResident
  <2> DEFINE bytes == <<b.bytes[1] + level.memory, b.bytes[2] + level.disk>>
             replicas == [b.replicas EXCEPT ![k[1]] = @ + 1]
  <2>1. d = [blocks |-> [b.blocks EXCEPT ![k] = level], bytes |-> bytes,
             replicas |-> replicas, peak |-> b.peak]
    BY <1>6 DEF AddRddBlock, BlocksKept
  <2>2. bytes = BytesOf(e)
    <3>1. level.memory \in Int /\ level.disk \in Int
      BY DEF Levels
    <3>2. bytes[1] = BytesOf(e)[1] /\ bytes[2] = BytesOf(e)[2]
      BY <1>2, <1>3, <3>1
    <3> QED  BY <1>2, <3>2
  <2>3. k[1] \in Partitions
    BY DEF Keys
  <2>4. replicas \in [Partitions -> Nat] /\ \A p \in Partitions : replicas[p] = Replicas(e, p)
    <3>1. b.replicas \in [Partitions -> Nat]
      BY DEF BlocksKept
    <3>2. ASSUME NEW p \in Partitions PROVE replicas[p] = Replicas(e, p)
      <4>1. /\ Replicas(e, p) = Replicas(c, p) - 0 + If(k[1] = p /\ level # NotResident)
            /\ Replicas(c, p) \in Nat /\ b.replicas[p] = Replicas(c, p)
        BY <1>2, <1>3
      <4>2. replicas[p] = IF p = k[1] THEN b.replicas[p] + 1 ELSE b.replicas[p]
        BY <3>1
      <4> HIDE DEF replicas
      <4>3. CASE k[1] = p
        BY <1>6, <4>1, <4>2, <4>3 DEF If
      <4>4. CASE k[1] # p
        BY <4>1, <4>2, <4>4 DEF If
      <4> QED  BY <4>3, <4>4
    <3>3. DOMAIN replicas = Partitions
      BY <3>1
    <3> HIDE DEF replicas
    <3>4. replicas = [p \in Partitions |-> replicas[p]]
      BY <3>1, <3>3 DEF replicas
    <3> QED  BY <1>2, <3>2, <3>4
  <2> HIDE DEF bytes, replicas
  <2>5. d.blocks = e /\ d.bytes = BytesOf(e) /\ d.replicas = replicas /\ d.peak = b.peak
    BY <1>3, <2>1, <2>2
  <2>6. d \in BlocksKept
    BY <1>2, <1>4, <2>1, <2>2, <2>4, <2>5 DEF BlocksKept
  <2> QED  BY <1>4, <2>4, <2>5, <2>6 DEF Agree, KeepsUp
<1> QED  BY <1>5, <1>6

\* An update of a block: dropped, if it was resident, and added with its level.
LEMMA UpdateAgrees ==
  ASSUME NEW b \in BlocksKept, NEW c \in [Keys -> Levels], Agree(b, c), NEW k \in Keys,
         NEW level \in Levels
  PROVE  KeepsUp(AddRddBlock(DropRddBlock(b, k), k, level), [c EXCEPT ![k] = level], b)
<1> DEFINE b1 == DropRddBlock(b, k)
           c1 == [c EXCEPT ![k] = NotResident]
<1>1. b1 \in BlocksKept /\ Agree(b1, c1) /\ b1.peak = b.peak /\ c1 \in [Keys -> Levels]
  BY DropAgrees DEF KeepsUp
<1>2. c1[k] = NotResident /\ [c EXCEPT ![k] = level] = [c1 EXCEPT ![k] = level]
  OBVIOUS
<1> HIDE DEF b1, c1
<1>3. KeepsUp(AddRddBlock(b1, k, level), [c1 EXCEPT ![k] = level], b1)
  BY <1>1, <1>2, AddAgrees
<1> QED  BY <1>1, <1>2, <1>3 DEF KeepsUp, b1

\* The partitions cached are those of the blocks that are held.
LEMMA CachedIsHeld ==
  ASSUME NEW b \in BlocksKept, NEW c \in [Keys -> Levels], Agree(b, c)
  PROVE  /\ Cached(b) = Cardinality(PartitionsOf(c))
         /\ Cached(b) \in 0..Cardinality(Partitions) /\ Cardinality(Partitions) \in Nat
<1>1. \A p \in Partitions : IsFiniteSet({k \in Held(c) : k[1] = p})
  BY KeysFinite, FS_Subset DEF Held
<1>2. ASSUME NEW p \in Partitions
      PROVE  b.replicas[p] > 0 <=> p \in PartitionsOf(c)
  <2> DEFINE S == {k \in Held(c) : k[1] = p}
  <2>1. b.replicas[p] = Cardinality(S) /\ IsFiniteSet(S)
    BY <1>1 DEF Agree, Replicas
  <2>2. p \in PartitionsOf(c) <=> S # {}
    BY DEF PartitionsOf
  <2> HIDE DEF S
  <2>3. Cardinality(S) \in Nat /\ (Cardinality(S) = 0 <=> S = {})
    BY <2>1, FS_CardinalityType, FS_EmptySet
  <2> QED  BY <2>1, <2>2, <2>3
<1>3. PartitionsOf(c) \subseteq Partitions
  BY DEF PartitionsOf, Held, Keys
<1>4. {p \in Partitions : b.replicas[p] > 0} = PartitionsOf(c)
  BY <1>2, <1>3
<1>5. /\ Cardinality(PartitionsOf(c)) \in Nat /\ Cardinality(Partitions) \in Nat
      /\ Cardinality(PartitionsOf(c)) <= Cardinality(Partitions)
  BY <1>3, RddAssumption, FS_Subset, FS_CardinalityType
<1> QED  BY <1>4, <1>5 DEF Cached

-----------------------------------------------------------------------------
(* The blocks of a lost executor, dropped one by one.                       *)

Blocks == Rdds \X Keys
UpTo(n) == {S \in SUBSET Blocks : Cardinality(S) <= n}
AnyOf(S) == CHOOSE d \in S : TRUE
WithoutBlock(kept, d) == [kept EXCEPT ![d[1]] = DropRddBlock(@, d[2])]
IsDropped(f, n) ==
  f = [S \in UpTo(n) |-> IF S = {} THEN rddBlocks ELSE WithoutBlock(f[S \ {AnyOf(S)}], AnyOf(S))]

\* A set of numbers has a least one.
LEMMA LeastOf ==
  ASSUME NEW S \in SUBSET Nat, S # {}
  PROVE  \E x \in S : \A y \in S : x <= y
<1> DEFINE Less == {pair \in Nat \X Nat : pair[1] < pair[2]}
<1>1. IsWellFoundedOn(Less, Nat)
  BY NatLessThanWellFounded DEF OpToRel
<1> HIDE DEF Less
<1>2. PICK x \in S : \A y \in S : ~(<<y, x>> \in Less)
  BY <1>1, WFMin
<1>3. ASSUME NEW y \in S PROVE x <= y
  <2>1. x \in Nat /\ y \in Nat /\ <<y, x>> \notin Less
    BY <1>2
  <2>2. ~(y < x)
    BY <2>1 DEF Less
  <2> QED  BY <2>1, <2>2
<1> QED  BY <1>3

LEMMA OneLess ==
  ASSUME NEW S \in SUBSET Blocks, S # {}
  PROVE  /\ IsFiniteSet(S) /\ AnyOf(S) \in S /\ S \ {AnyOf(S)} \in SUBSET Blocks
         /\ Cardinality(S) \in Nat \ {0} /\ Cardinality(S \ {AnyOf(S)}) = Cardinality(S) - 1
<1>1. IsFiniteSet(S)
  BY KeysFinite, FS_Subset DEF Blocks
<1>2. AnyOf(S) \in S
  BY DEF AnyOf
<1>3. Cardinality(S) \in Nat /\ Cardinality(S) # 0
  BY <1>1, FS_CardinalityType, FS_EmptySet
<1>4. Cardinality(S \ {AnyOf(S)}) = Cardinality(S) - 1
  BY <1>1, <1>2, FS_RemoveElement
<1> QED  BY <1>1, <1>2, <1>3, <1>4

LEMMA DroppedExists ==
  ASSUME NEW k \in Nat
  PROVE  \E f : IsDropped(f, k)
<1> DEFINE Bad == {n \in Nat : ~\E f : IsDropped(f, n)}
<1>1. SUFFICES ASSUME Bad # {} PROVE FALSE
  OBVIOUS
<1> HIDE DEF Bad
<1>2. PICK m \in Bad : \A n \in Bad : m <= n
  BY <1>1, LeastOf DEF Bad
<1>3. m \in Nat /\ ~\E f : IsDropped(f, m)
  BY DEF Bad
<1>4. \A S \in SUBSET Blocks : IsFiniteSet(S) /\ Cardinality(S) \in Nat
  BY KeysFinite, FS_Subset, FS_CardinalityType DEF Blocks
<1>5. CASE m = 0
  <2> DEFINE f == [S \in UpTo(0) |-> rddBlocks]
  <2>1. \A S \in UpTo(0) : S = {}
    BY <1>4, FS_EmptySet DEF UpTo
  <2>2. IsDropped(f, 0)
    BY <2>1 DEF IsDropped
  <2> QED  BY <1>3, <1>5, <2>2
<1>6. CASE m # 0
  <2>1. m - 1 \in Nat /\ ~(m <= m - 1)
    BY <1>3, <1>6
  <2>2. PICK f : IsDropped(f, m - 1)
    BY <1>2, <2>1 DEF Bad
  <2> DEFINE step(S) == IF S = {} THEN rddBlocks ELSE WithoutBlock(f[S \ {AnyOf(S)}], AnyOf(S))
             new == [S \in UpTo(m) |-> step(S)]
  <2>3. f = [S \in UpTo(m - 1) |-> step(S)]
    BY <2>2 DEF IsDropped
  <2> HIDE DEF step
  <2>4. \A S \in UpTo(m - 1) : f[S] = step(S) /\ new[S] = step(S)
    <3>1. \A S \in UpTo(m - 1) : S \in UpTo(m)
      BY <1>3, <1>4 DEF UpTo
    <3> QED  BY <2>3, <3>1
  <2>5. \A S \in UpTo(m) :
          step(S) = IF S = {} THEN rddBlocks ELSE WithoutBlock(new[S \ {AnyOf(S)}], AnyOf(S))
    <3>1. ASSUME NEW S \in UpTo(m), S # {} PROVE f[S \ {AnyOf(S)}] = new[S \ {AnyOf(S)}]
      <4>1. S \ {AnyOf(S)} \in UpTo(m - 1)
        BY <1>3, <3>1, OneLess DEF UpTo
      <4> QED  BY <2>4, <4>1
    <3> QED  BY <3>1 DEF step
  <2>6. IsDropped(new, m)
    <3>1. new = [S \in UpTo(m) |-> step(S)]
      OBVIOUS
    <3> HIDE DEF new
    <3> QED  BY <2>5, <3>1 DEF IsDropped
  <2> QED  BY <1>3, <2>6
<1> QED  BY <1>5, <1>6

LEMMA DroppedSteps ==
  /\ Dropped[{}] = rddBlocks
  /\ \A S \in SUBSET Blocks : S # {} => Dropped[S] = WithoutBlock(Dropped[S \ {AnyOf(S)}], AnyOf(S))
<1> DEFINE n == Cardinality(Blocks)
<1>1. IsFiniteSet(Blocks) /\ n \in Nat
  BY KeysFinite, FS_CardinalityType DEF Blocks
<1>2. UpTo(n) = SUBSET Blocks
  BY <1>1, FS_Subset DEF UpTo
<1>3. PICK f : IsDropped(f, n)
  BY <1>1, DroppedExists
<1> HIDE DEF n
<1>4. f = [S \in SUBSET Blocks |-> IF S = {} THEN rddBlocks ELSE WithoutBlock(f[S \ {AnyOf(S)}], AnyOf(S))]
  BY <1>2, <1>3 DEF IsDropped
<1>5. Dropped = CHOOSE g : g = [S \in SUBSET Blocks |->
                  IF S = {} THEN rddBlocks ELSE WithoutBlock(g[S \ {AnyOf(S)}], AnyOf(S))]
  BY DEF Dropped, Blocks, WithoutBlock, AnyOf
<1>6. Dropped = [S \in SUBSET Blocks |->
                  IF S = {} THEN rddBlocks ELSE WithoutBlock(Dropped[S \ {AnyOf(S)}], AnyOf(S))]
  BY <1>4, <1>5
<1> DEFINE step(S) == IF S = {} THEN rddBlocks ELSE WithoutBlock(Dropped[S \ {AnyOf(S)}], AnyOf(S))
<1>7. Dropped = [S \in SUBSET Blocks |-> step(S)]
  BY <1>6
<1> HIDE DEF step
<1>8. \A S \in SUBSET Blocks : Dropped[S] = step(S)
  BY <1>7
<1>9. {} \in SUBSET Blocks
  OBVIOUS
<1> QED  BY <1>8, <1>9 DEF step

Left(D) == [r \in Rdds |-> [k \in Keys |-> IF <<r, k>> \in D THEN NotResident ELSE cache[r][k]]]
AllKeepUp(kept, levels) ==
  kept \in [Rdds -> BlocksKept] /\ \A r \in Rdds : KeepsUp(kept[r], levels[r], rddBlocks[r])

LEMMA OneMoreLeft ==
  ASSUME cache \in [Rdds -> [Keys -> Levels]], NEW T \in SUBSET Blocks, NEW r \in Rdds, NEW k \in Keys,
         NEW kept, AllKeepUp(kept, Left(T))
  PROVE  AllKeepUp(WithoutBlock(kept, <<r, k>>), Left(T \cup {<<r, k>>}))
<1> DEFINE S == T \cup {<<r, k>>}
           new == WithoutBlock(kept, <<r, k>>)
<1>1. kept \in [Rdds -> BlocksKept] /\ \A q \in Rdds : KeepsUp(kept[q], Left(T)[q], rddBlocks[q])
  BY DEF AllKeepUp
<1>2. new = [kept EXCEPT ![r] = DropRddBlock(kept[r], k)]
  BY DEF WithoutBlock
<1>3. KeepsUp(DropRddBlock(kept[r], k), [Left(T)[r] EXCEPT ![k] = NotResident], kept[r])
  BY <1>1, DropAgrees DEF KeepsUp
<1>4. Left(S)[r] = [Left(T)[r] EXCEPT ![k] = NotResident]
  <2>1. Left(S)[r] = [j \in Keys |-> IF <<r, j>> \in S THEN NotResident ELSE cache[r][j]]
    BY DEF Left
  <2>2. Left(T)[r] = [j \in Keys |-> IF <<r, j>> \in T THEN NotResident ELSE cache[r][j]]
    BY DEF Left
  <2>3. \A j \in Keys : <<r, j>> \in S <=> <<r, j>> \in T \/ j = k
    OBVIOUS
  <2> HIDE DEF S
  <2> QED  BY <2>1, <2>2, <2>3
<1>5. ASSUME NEW q \in Rdds, q # r PROVE Left(S)[q] = Left(T)[q]
  BY <1>5 DEF Left
<1> HIDE DEF S, new
<1>6. new[r] = DropRddBlock(kept[r], k) /\ \A q \in Rdds : q # r => new[q] = kept[q]
  BY <1>1, <1>2
<1>7. KeepsUp(new[r], Left(S)[r], rddBlocks[r])
  BY <1>1, <1>3, <1>4, <1>6 DEF KeepsUp
<1>8. \A q \in Rdds : KeepsUp(new[q], Left(S)[q], rddBlocks[q])
  BY <1>1, <1>5, <1>6, <1>7
<1>9. new \in [Rdds -> BlocksKept]
  BY <1>1, <1>2, <1>3 DEF KeepsUp
<1> QED  BY <1>8, <1>9 DEF AllKeepUp, S, new

LEMMA DroppedAgrees ==
  ASSUME cache \in [Rdds -> [Keys -> Levels]], rddBlocks \in [Rdds -> BlocksKept],
         \A r \in Rdds : Agree(rddBlocks[r], cache[r]), NEW D \in SUBSET Blocks
  PROVE  AllKeepUp(Dropped[D], Left(D))
<1> DEFINE Good(S) == AllKeepUp(Dropped[S], Left(S))
           Bad == {n \in Nat : \E S \in SUBSET Blocks : Cardinality(S) = n /\ ~Good(S)}
<1>1. Good({})
  <2>1. Left({}) = cache
    <3>1. \A r \in Rdds : Left({})[r] = cache[r]
      BY DEF Left
    <3>2. Left({}) = [r \in Rdds |-> Left({})[r]] /\ cache = [r \in Rdds |-> cache[r]]
      BY DEF Left
    <3> QED  BY <3>1, <3>2
  <2>2. \A r \in Rdds : KeepsUp(rddBlocks[r], cache[r], rddBlocks[r])
    BY DEF KeepsUp
  <2> QED  BY <2>1, <2>2, DroppedSteps DEF AllKeepUp
<1> HIDE DEF Good
<1>2. SUFFICES ASSUME Bad # {} PROVE FALSE
  <2>1. IsFiniteSet(D)
    BY KeysFinite, FS_Subset DEF Blocks
  <2>2. Cardinality(D) \in Nat
    BY <2>1, FS_CardinalityType
  <2> QED  BY <2>2 DEF Good
<1>3. PICK m \in Bad : \A n \in Bad : m <= n
  BY <1>2, LeastOf
<1>4. PICK S \in SUBSET Blocks : Cardinality(S) = m /\ ~Good(S)
  BY <1>3
<1>5. S # {}
  BY <1>1, <1>4
<1> DEFINE d == AnyOf(S)
           T == S \ {d}
<1>6. d \in S /\ T \in SUBSET Blocks /\ m \in Nat /\ Cardinality(T) = m - 1 /\ m # 0
  BY <1>4, <1>5, OneLess
<1>7. Dropped[S] = WithoutBlock(Dropped[T], d)
  BY <1>5, DroppedSteps
<1>8. PICK r \in Rdds, k \in Keys : d = <<r, k>>
  BY <1>6 DEF Blocks
<1>9. S = T \cup {<<r, k>>}
  BY <1>6, <1>8
<1> HIDE DEF d, T
<1>10. Good(T)
  <2>1. ~(m <= m - 1) /\ m - 1 \in Nat
    BY <1>6
  <2>2. m - 1 \notin Bad
    BY <1>3, <2>1
  <2> QED  BY <1>6, <2>1, <2>2
<1>11. Good(S)
  <2>1. T \in SUBSET Blocks /\ AllKeepUp(Dropped[T], Left(T))
    BY <1>6, <1>10 DEF Good
  <2>2. Dropped[S] = WithoutBlock(Dropped[T], <<r, k>>)
    BY <1>7, <1>8
  <2>3. AllKeepUp(WithoutBlock(Dropped[T], <<r, k>>), Left(T \cup {<<r, k>>}))
    BY <1>6, <1>8, <2>1, OneMoreLeft
  <2> QED  BY <1>9, <2>2, <2>3 DEF Good
<1> QED  BY <1>4, <1>11

-----------------------------------------------------------------------------
(* The invariant.                                                           *)

KeptInv ==
  /\ cache \in [Rdds -> [Keys -> Levels]] /\ rddBlocks \in [Rdds -> BlocksKept]
  /\ \A r \in Rdds : Agree(rddBlocks[r], cache[r])

\* An executor's keys are those of its resident blocks.
IndexInv ==
  /\ rddBlockKeysByExecutor \in [Executors -> SUBSET Blocks]
  /\ \A x \in Executors, r \in Rdds, k \in Keys :
       <<r, k>> \in rddBlockKeysByExecutor[x] <=> k[2] = x /\ cache[r][k] # NotResident

\* A record that no block update touched has had no block; where the log tells
\* of the blocks, nothing was shown of it either.
BlockRecordInv(r) ==
  /\ rddInfo[r] \in Infos
  /\ most[r] \in [cached : 0..Cardinality(Partitions), bytes : Sizes]
  /\ rddBlocks[r].peak = most[r].cached
  /\ rddInfo[r].source = "blockUpdates" =>
       rddInfo[r].cached = most[r].cached /\ rddInfo[r].bytes = most[r].bytes
  /\ rddInfo[r].source # "blockUpdates" =>
       /\ most[r].cached = 0
       /\ blockUpdatesLogged => rddInfo[r].cached = 0 /\ Held(cache[r]) = {}
BlocksShownInv ==
  /\ rddInfo = [r \in Rdds |-> rddInfo[r]] /\ most = [r \in Rdds |-> most[r]]
  /\ \A r \in Rdds : BlockRecordInv(r)

LEMMA KeptInit ==
  ASSUME RddInit
  PROVE  KeptInv /\ IndexInv /\ BlocksShownInv
<1> DEFINE none == [k \in Keys |-> NotResident]
<1>1. Held(none) = {} /\ none \in [Keys -> Levels]
  BY DEF Held, NotResident, Levels
<1>2. BytesOf(none) = <<0, 0>>
  <2>1. {k \in Keys : none[k].memory = 1} = {} /\ {k \in Keys : none[k].disk = 1} = {}
    BY DEF NotResident
  <2> QED  BY <2>1, FS_EmptySet DEF BytesOf
<1>3. \A p \in Partitions : Replicas(none, p) = 0
  <2>1. \A p : {k \in Held(none) : k[1] = p} = {}
    BY <1>1
  <2> QED  BY <2>1, FS_EmptySet DEF Replicas
<1>4. cache = [r \in Rdds |-> none] /\ rddBlocks = [r \in Rdds |-> NoBlocks]
  BY DEF RddInit
<1>5. NoBlocks \in BlocksKept /\ NoBlocks.blocks = none /\ NoBlocks.bytes = <<0, 0>>
      /\ NoBlocks.replicas = [p \in Partitions |-> 0] /\ NoBlocks.peak = 0
  BY <1>1 DEF NoBlocks, BlocksKept
<1>6. Agree(NoBlocks, none)
  BY <1>2, <1>3, <1>5 DEF Agree
<1>7. KeptInv
  BY <1>1, <1>4, <1>5, <1>6 DEF KeptInv
<1>8. IndexInv
  BY <1>4 DEF RddInit, IndexInv
<1>9. Cardinality(Partitions) \in Nat
  BY RddAssumption, FS_CardinalityType
<1>10. BlocksShownInv
  <2> SUFFICES ASSUME NEW r \in Rdds PROVE BlockRecordInv(r)
    BY DEF RddInit, BlocksShownInv
  <2>1. rddInfo[r] = NoInfo /\ most[r] = [cached |-> 0, bytes |-> <<0, 0>>] /\ cache[r] = none
        /\ rddBlocks[r].peak = 0
    BY <1>4, <1>5 DEF RddInit
  <2>2. NoInfo \in Infos /\ NoInfo.cached = 0 /\ NoInfo.source = "none"
    BY DEF NoInfo, Infos, Sizes
  <2>3. most[r].cached = 0 /\ most[r] \in [cached : 0..Cardinality(Partitions), bytes : Sizes]
    BY <1>9, <2>1 DEF Sizes
  <2> HIDE DEF none
  <2> QED  BY <1>1, <2>1, <2>2, <2>3 DEF BlockRecordInv
<1> QED  BY <1>7, <1>8, <1>10

-----------------------------------------------------------------------------
(* A block update.                                                          *)

Updated(r, k, level) == AddRddBlock(DropRddBlock(rddBlocks[r], k), k, level)

HasUpdate(r, k, level, b) ==
  /\ b \in BlocksKept /\ Agree(b, cache'[r]) /\ b.peak = rddBlocks[r].peak
  /\ cache'[r] = [cache[r] EXCEPT ![k] = level] /\ cache'[r] \in [Keys -> Levels]
  /\ \A q \in Rdds : q # r => cache'[q] = cache[q] /\ rddBlocks'[q] = rddBlocks[q]
  /\ rddBlocks'[r] = [b EXCEPT !.peak = IF Cached(b) >= b.peak THEN Cached(b) ELSE b.peak]

LEMMA UpdatedKept ==
  ASSUME KeptInv, NEW r \in Rdds, NEW k \in Keys, NEW level \in Levels, BlockUpdated(r, k, level)
  PROVE  HasUpdate(r, k, level, Updated(r, k, level))
<1> DEFINE b == Updated(r, k, level)
           e == [cache[r] EXCEPT ![k] = level]
<1>1. KeepsUp(b, e, rddBlocks[r])
  BY UpdateAgrees DEF KeptInv, Updated
<1>2. cache'[r] = e /\ \A q \in Rdds : q # r => cache'[q] = cache[q]
  BY DEF BlockUpdated, KeptInv
<1>3. rddBlocks' = [rddBlocks EXCEPT ![r] = [b EXCEPT !.peak = IF Cached(b) >= b.peak THEN Cached(b) ELSE b.peak]]
  BY DEF BlockUpdated, Updated
<1> HIDE DEF b
<1>4. rddBlocks'[r] = [b EXCEPT !.peak = IF Cached(b) >= b.peak THEN Cached(b) ELSE b.peak]
      /\ \A q \in Rdds : q # r => rddBlocks'[q] = rddBlocks[q]
  BY <1>3 DEF KeptInv
<1> QED  BY <1>1, <1>2, <1>4 DEF KeepsUp, HasUpdate, b

LEMMA PeakSet ==
  ASSUME NEW b \in BlocksKept, NEW n \in Nat, NEW d, d = [b EXCEPT !.peak = n]
  PROVE  /\ d \in BlocksKept /\ d.peak = n
         /\ d.blocks = b.blocks /\ d.bytes = b.bytes /\ d.replicas = b.replicas
BY DEF BlocksKept

LEMMA KeptUpdate ==
  ASSUME KeptInv, NEW r \in Rdds, NEW k \in Keys, NEW level \in Levels, BlockUpdated(r, k, level)
  PROVE  KeptInv'
<1> DEFINE b == Updated(r, k, level)
           n == IF Cached(b) >= b.peak THEN Cached(b) ELSE b.peak
<1>0. HasUpdate(r, k, level, Updated(r, k, level))
  BY UpdatedKept
<1>1. /\ b \in BlocksKept /\ Agree(b, cache'[r]) /\ cache'[r] \in [Keys -> Levels]
      /\ \A q \in Rdds : q # r => cache'[q] = cache[q] /\ rddBlocks'[q] = rddBlocks[q]
      /\ rddBlocks'[r] = [b EXCEPT !.peak = n]
  BY <1>0 DEF HasUpdate
<1> HIDE DEF b
<1>2. n \in Nat
  BY <1>1, CachedIsHeld DEF BlocksKept
<1> HIDE DEF n
<1>3. /\ rddBlocks'[r] \in BlocksKept /\ rddBlocks'[r].blocks = b.blocks
      /\ rddBlocks'[r].bytes = b.bytes /\ rddBlocks'[r].replicas = b.replicas
  BY <1>1, <1>2, PeakSet
<1>4. Agree(rddBlocks'[r], cache'[r])
  BY <1>1, <1>3 DEF Agree
<1>5. \A q \in Rdds : rddBlocks'[q] \in BlocksKept /\ cache'[q] \in [Keys -> Levels]
                      /\ Agree(rddBlocks'[q], cache'[q])
  BY <1>1, <1>3, <1>4 DEF KeptInv
<1>6. rddBlocks' = [q \in Rdds |-> rddBlocks'[q]] /\ cache' = [q \in Rdds |-> cache'[q]]
  BY DEF BlockUpdated, KeptInv
<1> QED  BY <1>5, <1>6 DEF KeptInv

LEMMA IndexUpdate ==
  ASSUME KeptInv, IndexInv, NEW r \in Rdds, NEW k \in Keys, NEW level \in Levels, BlockUpdated(r, k, level)
  PROVE  IndexInv'
<1> DEFINE idx == rddBlockKeysByExecutor
           y == k[2]
           new == DropKey(idx[y], r, k) \cup (IF level = NotResident THEN {} ELSE {<<r, k>>})
<1>1. y \in Executors /\ idx \in [Executors -> SUBSET Blocks] /\ <<r, k>> \in Blocks
  BY DEF Keys, IndexInv, Blocks
<1>2. idx' = [idx EXCEPT ![y] = new]
  BY DEF BlockUpdated
<1>3. new \in SUBSET Blocks
  BY <1>1 DEF DropKey
<1>0. HasUpdate(r, k, level, Updated(r, k, level))
  BY UpdatedKept
<1>4. /\ cache'[r] = [cache[r] EXCEPT ![k] = level]
      /\ \A q \in Rdds : q # r => cache'[q] = cache[q]
  BY <1>0 DEF HasUpdate
<1>5. rddBlocks[r].blocks = cache[r] /\ cache[r] \in [Keys -> Levels]
  BY DEF KeptInv, Agree
<1>6. \A x \in Executors, q \in Rdds, j \in Keys :
        <<q, j>> \in idx[x] <=> j[2] = x /\ cache[q][j] # NotResident
  BY DEF IndexInv
<1>7. ASSUME NEW q \in Rdds, NEW j \in Keys
      PROVE  <<q, j>> \in new <=> j[2] = y /\ cache'[q][j] # NotResident
  <2>1. CASE q = r /\ j = k
    <3>1. <<q, j>> \in new <=> level # NotResident
      BY <1>5, <1>6, <1>1, <2>1 DEF DropKey
    <3>2. cache'[q][j] = level
      BY <1>4, <1>5, <2>1
    <3> QED  BY <2>1, <3>1, <3>2
  <2>2. CASE ~(q = r /\ j = k)
    <3>1. <<q, j>> # <<r, k>> /\ cache'[q][j] = cache[q][j]
      BY <1>4, <1>5, <2>2
    <3>2. <<q, j>> \in new <=> <<q, j>> \in idx[y]
      BY <3>1 DEF DropKey
    <3> QED  BY <1>1, <1>6, <3>1, <3>2
  <2> QED  BY <2>1, <2>2
<1>8. ASSUME NEW x \in Executors, x # y, NEW q \in Rdds, NEW j \in Keys
      PROVE  <<q, j>> \in idx[x] <=> j[2] = x /\ cache'[q][j] # NotResident
  <2>1. CASE j = k
    BY <1>6, <1>8, <2>1
  <2>2. CASE j # k
    <3>1. cache'[q][j] = cache[q][j]
      BY <1>4, <1>5, <2>2
    <3> QED  BY <1>6, <3>1
  <2> QED  BY <2>1, <2>2
<1> HIDE DEF idx, y, new
<1>9. idx'[y] = new /\ \A x \in Executors : x # y => idx'[x] = idx[x]
  BY <1>1, <1>2
<1>10. idx' \in [Executors -> SUBSET Blocks]
  BY <1>1, <1>2, <1>3
<1>11. ASSUME NEW x \in Executors, NEW q \in Rdds, NEW j \in Keys
       PROVE  <<q, j>> \in idx'[x] <=> j[2] = x /\ cache'[q][j] # NotResident
  BY <1>7, <1>8, <1>9
<1> QED  BY <1>10, <1>11 DEF IndexInv, idx

\* The record follows the peak, and so does what was most.
LEMMA ShownUpdate ==
  ASSUME KeptInv, BlocksShownInv, NEW r \in Rdds, NEW k \in Keys, NEW level \in Levels,
         BlockUpdated(r, k, level)
  PROVE  BlocksShownInv'
<1> DEFINE b == Updated(r, k, level)
           n == IF Cached(b) >= b.peak THEN Cached(b) ELSE b.peak
           first == IF rddInfo[r] = NoInfo
                      THEN [NoInfo EXCEPT !.persisted = level # NotResident] ELSE rddInfo[r]
           info == [first EXCEPT !.source = "blockUpdates"]
           now == [cached |-> Cardinality(PartitionsOf(cache'[r])), bytes |-> BytesOf(cache'[r])]
<1>0. HasUpdate(r, k, level, Updated(r, k, level))
  BY UpdatedKept
<1>1. /\ b \in BlocksKept /\ Agree(b, cache'[r]) /\ b.peak = rddBlocks[r].peak
      /\ cache'[r] \in [Keys -> Levels]
      /\ \A q \in Rdds : q # r => cache'[q] = cache[q] /\ rddBlocks'[q] = rddBlocks[q]
      /\ rddBlocks'[r] = [b EXCEPT !.peak = n]
  BY <1>0 DEF HasUpdate
<1>2. /\ rddInfo' = [rddInfo EXCEPT ![r] = Publish(info, b)]
      /\ most' = [most EXCEPT ![r] = IF now.cached >= most[r].cached THEN now ELSE most[r]]
      /\ UNCHANGED blockUpdatesLogged
  BY DEF BlockUpdated, Updated, BlocksShownInv
<1>3. now.cached = Cached(b) /\ now.bytes = b.bytes /\ now.cached \in 0..Cardinality(Partitions)
      /\ Cardinality(Partitions) \in Nat /\ b.bytes \in Nat \X Nat
  BY <1>1, CachedIsHeld DEF Agree, BlocksKept
<1>4. first \in Infos
  BY DEF BlocksShownInv, BlockRecordInv, NoInfo, Infos, Sizes
<1>5. info \in Infos /\ info.source = "blockUpdates" /\ info.cached = first.cached /\ info.bytes = first.bytes
  <2> HIDE DEF first
  <2> QED  BY <1>4 DEF Infos
<1>6. first.cached = rddInfo[r].cached /\ first.bytes = rddInfo[r].bytes /\ first.source = rddInfo[r].source
  BY DEF NoInfo
<1>7. BlockRecordInv(r)
  BY DEF BlocksShownInv
<1> HIDE DEF b, first, info
<1>8. Cached(b) \in Nat /\ b.peak \in Nat /\ b.peak = most[r].cached /\ most[r].cached \in Nat
  BY <1>1, <1>3, <1>7 DEF BlockRecordInv, BlocksKept
<1>9. rddBlocks'[r].peak = n
  <2>1. n \in Nat
    BY <1>8
  <2> HIDE DEF n
  <2> QED  BY <1>1, <2>1, PeakSet
<1>10. rddInfo'[r] = Publish(info, b) /\ most'[r] = IF now.cached >= most[r].cached THEN now ELSE most[r]
  <2> HIDE DEF now
  <2> QED  BY <1>2 DEF BlocksShownInv
<1>11. now \in [cached : 0..Cardinality(Partitions), bytes : Sizes]
  <2>1. BytesOf(cache'[r]) \in Sizes
    BY <1>3 DEF Sizes
  <2> QED  BY <1>3, <2>1
<1> HIDE DEF n, now
<1>12. BlockRecordInv(r)'
  <2>1. CASE Cached(b) >= b.peak
    <3> DEFINE shown == [info EXCEPT !.cached = Cached(b), !.bytes = b.bytes]
    <3>1. rddInfo'[r] = shown /\ most'[r] = now /\ n = Cached(b)
      BY <1>3, <1>8, <1>10, <2>1 DEF Publish, n
    <3>2. /\ shown \in Infos /\ shown.source = "blockUpdates" /\ shown.cached = Cached(b)
          /\ shown.bytes = b.bytes
      <4>1. b.bytes \in Sizes /\ info \in Infos /\ info.source = "blockUpdates" /\ Cached(b) \in Nat
        BY <1>3, <1>5, <1>8 DEF Sizes
      <4> HIDE DEF Sizes
      <4> QED  BY <4>1 DEF Infos
    <3> HIDE DEF shown
    <3> QED  BY <1>3, <1>9, <1>11, <3>1, <3>2 DEF BlockRecordInv
  <2>2. CASE ~(Cached(b) >= b.peak)
    <3>1. rddInfo'[r] = info /\ most'[r] = most[r] /\ n = b.peak
      BY <1>3, <1>8, <1>10, <2>2 DEF Publish, n
    <3>2. rddInfo[r].source = "blockUpdates"
      BY <1>7, <1>8, <2>2 DEF BlockRecordInv
    <3> QED  BY <1>5, <1>6, <1>7, <1>8, <1>9, <3>1, <3>2 DEF BlockRecordInv
  <2> QED  BY <2>1, <2>2
<1>13. ASSUME NEW q \in Rdds, q # r PROVE BlockRecordInv(q)'
  <2>1. rddInfo'[q] = rddInfo[q] /\ most'[q] = most[q] /\ cache'[q] = cache[q]
        /\ rddBlocks'[q] = rddBlocks[q] /\ blockUpdatesLogged' = blockUpdatesLogged
    BY <1>1, <1>2, <1>13 DEF BlocksShownInv
  <2> QED  BY <2>1 DEF BlocksShownInv, BlockRecordInv
<1>14. rddInfo' = [q \in Rdds |-> rddInfo'[q]] /\ most' = [q \in Rdds |-> most'[q]]
  BY <1>2 DEF BlocksShownInv
<1> QED  BY <1>12, <1>13, <1>14 DEF BlocksShownInv

-----------------------------------------------------------------------------
(* An executor that is lost, and a stage that lists an RDD.                 *)

LEMMA RemovedKept ==
  ASSUME KeptInv, IndexInv, NEW x \in Executors, ExecutorRemoved(x)
  PROVE  AllKeepUp(rddBlocks', cache')
<1> DEFINE D == rddBlockKeysByExecutor[x]
<1>1. D \in SUBSET Blocks
  BY DEF IndexInv
<1>2. AllKeepUp(Dropped[D], Left(D))
  BY <1>1, DroppedAgrees DEF KeptInv
<1>3. rddBlocks' = Dropped[D]
  BY DEF ExecutorRemoved, DropExecutorBlocks
<1>4. cache' = Left(D)
  <2>1. \A r \in Rdds, k \in Keys :
          (IF k[2] = x THEN NotResident ELSE cache[r][k])
            = (IF <<r, k>> \in D THEN NotResident ELSE cache[r][k])
    BY DEF IndexInv
  <2>2. cache' = [r \in Rdds |-> [k \in Keys |-> IF k[2] = x THEN NotResident ELSE cache[r][k]]]
    BY DEF ExecutorRemoved
  <2> HIDE DEF D
  <2> QED  BY <2>1, <2>2 DEF Left
<1> QED  BY <1>2, <1>3, <1>4

LEMMA RemovedStep ==
  ASSUME KeptInv, IndexInv, BlocksShownInv, NEW x \in Executors, ExecutorRemoved(x)
  PROVE  KeptInv' /\ IndexInv' /\ BlocksShownInv'
<1>1. /\ rddBlocks' \in [Rdds -> BlocksKept]
      /\ \A r \in Rdds : KeepsUp(rddBlocks'[r], cache'[r], rddBlocks[r])
  BY RemovedKept DEF AllKeepUp
<1>2. cache' = [r \in Rdds |-> [k \in Keys |-> IF k[2] = x THEN NotResident ELSE cache[r][k]]]
  BY DEF ExecutorRemoved
<1>3. \A r \in Rdds, k \in Keys : cache'[r][k] = IF k[2] = x THEN NotResident ELSE cache[r][k]
  BY <1>2
<1>4. KeptInv'
  <2>1. cache' = [r \in Rdds |-> cache'[r]]
    BY <1>2
  <2>2. \A r \in Rdds : cache'[r] \in [Keys -> Levels]
    BY <1>1 DEF KeepsUp
  <2>3. cache' \in [Rdds -> [Keys -> Levels]]
    BY <2>1, <2>2
  <2> QED  BY <1>1, <2>3 DEF KeepsUp, KeptInv
<1>5. IndexInv'
  <2> DEFINE idx == rddBlockKeysByExecutor
             new == {d \in idx[x] : rddBlocks[d[1]].blocks[d[2]] = NotResident}
  <2>1. idx' = [idx EXCEPT ![x] = new] /\ idx \in [Executors -> SUBSET Blocks]
    BY DEF ExecutorRemoved, IndexInv
  <2>2. \A y \in Executors, q \in Rdds, j \in Keys :
          <<q, j>> \in idx[y] <=> j[2] = y /\ cache[q][j] # NotResident
    BY DEF IndexInv
  <2>3. new = {}
    <3>1. ASSUME NEW q \in Rdds, NEW j \in Keys, <<q, j>> \in idx[x]
          PROVE  rddBlocks[q].blocks[j] # NotResident
      BY <2>2, <3>1 DEF KeptInv, Agree
    <3>2. \A d \in idx[x] : rddBlocks[d[1]].blocks[d[2]] # NotResident
      <4>1. ASSUME NEW d \in idx[x] PROVE rddBlocks[d[1]].blocks[d[2]] # NotResident
        <5>1. PICK q \in Rdds, j \in Keys : d = <<q, j>>
          BY <2>1, <4>1 DEF Blocks
        <5> QED  BY <3>1, <4>1, <5>1
      <4> QED  BY <4>1
    <3> QED  BY <3>2
  <2> HIDE DEF idx, new
  <2>4. idx' \in [Executors -> SUBSET Blocks] /\ idx'[x] = {}
        /\ \A y \in Executors : y # x => idx'[y] = idx[y]
    BY <2>1, <2>3
  <2>5. ASSUME NEW y \in Executors, NEW q \in Rdds, NEW j \in Keys
        PROVE  <<q, j>> \in idx'[y] <=> j[2] = y /\ cache'[q][j] # NotResident
    BY <1>3, <2>2, <2>4
  <2> QED  BY <2>4, <2>5 DEF IndexInv, idx
<1>6. BlocksShownInv'
  <2>1. UNCHANGED <<rddInfo, most, blockUpdatesLogged>>
    BY DEF ExecutorRemoved
  <2>2. ASSUME NEW r \in Rdds PROVE BlockRecordInv(r)'
    <3>1. rddBlocks'[r].peak = rddBlocks[r].peak
      BY <1>1 DEF KeepsUp
    <3>2. Held(cache[r]) = {} => Held(cache'[r]) = {}
      BY <1>3 DEF Held
    <3> QED  BY <2>1, <3>1, <3>2 DEF BlocksShownInv, BlockRecordInv
  <2> QED  BY <2>1, <2>2 DEF BlocksShownInv
<1> QED  BY <1>4, <1>5, <1>6

\* The record that a stage's listing leaves.
MergesInto(r, info) ==
  /\ info \in Infos
  /\ rddInfo[r].source = "blockUpdates" =>
       /\ info.source = "blockUpdates" /\ info.cached = rddInfo[r].cached
       /\ info.bytes = rddInfo[r].bytes
       /\ rddInfo[r].persisted => info.persisted
  /\ rddInfo[r].source # "blockUpdates" =>
       /\ info.source # "blockUpdates"
       /\ blockUpdatesLogged => info.cached = 0
       /\ rddInfo[r].cached > 0 => info.cached > 0

LEMMA Merged ==
  ASSUME KeptInv, BlocksShownInv, NEW r \in Rdds, NEW persisted \in BOOLEAN, NEW cached \in Snapshots(r)
  PROVE  MergesInto(r, MergeStageRddInfo(r, persisted, cached))
<1> DEFINE info == MergeStageRddInfo(r, persisted, cached)
<1>1. rddInfo[r] \in Infos /\ BlockRecordInv(r)
  BY DEF BlocksShownInv, BlockRecordInv
<1>2. Cardinality(Partitions) \in Nat
  BY RddAssumption, FS_CardinalityType
<1>3. Cardinality(PartitionsOf(cache[r])) \in Nat
  BY CachedIsHeld DEF KeptInv
<1>4. cached \in Nat
  BY <1>2, <1>3 DEF Snapshots
<1>5. CASE rddInfo[r].source = "blockUpdates"
  BY <1>1, <1>5 DEF MergeStageRddInfo, Infos, MergesInto
<1>6. CASE rddInfo[r].source # "blockUpdates"
  <2>1. rddInfo[r].cached \in Nat /\ rddInfo[r].bytes \in Int \X Int
        /\ rddInfo[r].source \in {"none", "rddInfo"}
    BY <1>1, <1>6 DEF Infos, Sizes
  <2>2. info = [source |-> "rddInfo", persisted |-> persisted, cached |-> Or(cached, rddInfo[r].cached),
                bytes |-> <<Or(cached, rddInfo[r].bytes[1]), rddInfo[r].bytes[2]>>]
    BY <1>6, <2>1 DEF MergeStageRddInfo
  <2>3. Or(cached, rddInfo[r].cached) \in Nat /\ Or(cached, rddInfo[r].bytes[1]) \in Int
    BY <1>4, <2>1 DEF Or
  <2>4. rddInfo[r].cached > 0 => Or(cached, rddInfo[r].cached) > 0
    BY <1>4, <2>1 DEF Or
  <2>5. blockUpdatesLogged => Or(cached, rddInfo[r].cached) = 0
    <3>1. ASSUME blockUpdatesLogged PROVE cached = 0 /\ rddInfo[r].cached = 0
      <4>1. Held(cache[r]) = {} /\ rddInfo[r].cached = 0
        BY <1>1, <1>6, <3>1 DEF BlockRecordInv
      <4>2. PartitionsOf(cache[r]) = {}
        BY <4>1 DEF PartitionsOf
      <4>3. Cardinality(PartitionsOf(cache[r])) = 0
        BY <4>2, FS_EmptySet
      <4> QED  BY <3>1, <4>1, <4>3 DEF Snapshots
    <3> QED  BY <3>1 DEF Or
  <2>6. info \in Infos
    BY <2>1, <2>2, <2>3 DEF Infos, Sizes
  <2> QED  BY <1>6, <2>2, <2>4, <2>5, <2>6 DEF MergesInto
<1> QED  BY <1>5, <1>6

LEMMA ListedInfo ==
  ASSUME KeptInv, BlocksShownInv, NEW r \in Rdds, NEW persisted \in BOOLEAN, StageListsRdd(r, persisted)
  PROVE  /\ MergesInto(r, rddInfo'[r]) /\ \A q \in Rdds : q # r => rddInfo'[q] = rddInfo[q]
         /\ rddInfo' = [q \in Rdds |-> rddInfo'[q]]
<1>1. PICK cached \in Snapshots(r) :
        rddInfo' = [rddInfo EXCEPT ![r] = MergeStageRddInfo(r, persisted, cached)]
  BY DEF StageListsRdd
<1>2. MergesInto(r, MergeStageRddInfo(r, persisted, cached))
  BY Merged
<1> DEFINE info == MergeStageRddInfo(r, persisted, cached)
<1>3. rddInfo' = [rddInfo EXCEPT ![r] = info] /\ rddInfo = [q \in Rdds |-> rddInfo[q]]
  BY <1>1 DEF BlocksShownInv
<1> HIDE DEF info
<1>4. rddInfo'[r] = info /\ \A q \in Rdds : q # r => rddInfo'[q] = rddInfo[q]
  BY <1>3
<1>5. rddInfo' = [q \in Rdds |-> rddInfo'[q]]
  BY <1>3
<1> QED  BY <1>2, <1>4, <1>5 DEF info

LEMMA ListedStep ==
  ASSUME KeptInv, IndexInv, BlocksShownInv, NEW r \in Rdds, NEW persisted \in BOOLEAN,
         StageListsRdd(r, persisted)
  PROVE  KeptInv' /\ IndexInv' /\ BlocksShownInv'
<1>1. UNCHANGED <<rddBlocks, rddBlockKeysByExecutor, blockUpdatesLogged, cache, most>>
  BY DEF StageListsRdd
<1>2. KeptInv' /\ IndexInv'
  BY <1>1 DEF KeptInv, IndexInv, Agree
<1>3. /\ MergesInto(r, rddInfo'[r]) /\ \A q \in Rdds : q # r => rddInfo'[q] = rddInfo[q]
      /\ rddInfo' = [q \in Rdds |-> rddInfo'[q]]
  BY ListedInfo
<1>4. BlockRecordInv(r) /\ (\A q \in Rdds : BlockRecordInv(q)) /\ most = [q \in Rdds |-> most[q]]
  BY DEF BlocksShownInv
<1>5. BlockRecordInv(r)'
  BY <1>1, <1>3, <1>4 DEF BlockRecordInv, MergesInto
<1>6. ASSUME NEW q \in Rdds, q # r PROVE BlockRecordInv(q)'
  BY <1>1, <1>3, <1>4, <1>6 DEF BlockRecordInv
<1> QED  BY <1>1, <1>2, <1>3, <1>4, <1>5, <1>6 DEF BlocksShownInv

RddInv == KeptInv /\ IndexInv /\ BlocksShownInv

LEMMA RddStep ==
  ASSUME RddInv, [RddNext]_rddVars
  PROVE  RddInv'
<1>1. ASSUME NEW r \in Rdds, NEW k \in Keys, NEW level \in Levels, BlockUpdated(r, k, level)
      PROVE  RddInv'
  BY <1>1, KeptUpdate, IndexUpdate, ShownUpdate DEF RddInv
<1>2. ASSUME NEW x \in Executors, ExecutorRemoved(x)
      PROVE  RddInv'
  BY <1>2, RemovedStep DEF RddInv
<1>3. ASSUME NEW r \in Rdds, NEW persisted \in BOOLEAN, StageListsRdd(r, persisted)
      PROVE  RddInv'
  BY <1>3, ListedStep DEF RddInv
<1>4. CASE UNCHANGED rddVars
  BY <1>4 DEF rddVars, RddInv, KeptInv, IndexInv, BlocksShownInv, BlockRecordInv, Agree
<1> QED  BY <1>1, <1>2, <1>3, <1>4 DEF RddNext

LEMMA RddAlways == RddSpec => []RddInv
<1>1. RddInit => RddInv
  BY KeptInit DEF RddInv
<1>2. RddInv /\ [RddNext]_rddVars => RddInv'
  BY RddStep
<1> QED  BY <1>1, <1>2, PTL DEF RddSpec

LEMMA AgreeTyped ==
  ASSUME RddInv
  PROVE  RddTypeOK
<1>1. \A r \in Rdds : rddBlocks[r] \in BlocksKept /\ BlockRecordInv(r)
  BY DEF RddInv, KeptInv, BlocksShownInv
<1>2. \A r \in Rdds : /\ rddBlocks[r].blocks \in [Keys -> Levels] /\ rddBlocks[r].bytes \in Nat \X Nat
                      /\ rddBlocks[r].replicas \in [Partitions -> Nat]
  BY <1>1 DEF BlocksKept
<1>3. \A r \in Rdds : rddBlocks[r].peak \in 0..Cardinality(Partitions) /\ rddInfo[r] \in Infos
  BY <1>1 DEF BlockRecordInv
<1> QED  BY <1>2, <1>3 DEF RddTypeOK, RddInv, IndexInv, Blocks

LEMMA AgreeStructures ==
  ASSUME RddInv
  PROVE  StructuresAgree
<1> SUFFICES ASSUME NEW r \in Rdds
             PROVE  LET b == rddBlocks[r]
                        held == Held(cache[r])
                    IN  /\ b.blocks = cache[r]
                        /\ \A p \in Partitions : b.replicas[p] = Cardinality({k \in held : k[1] = p})
                        /\ b.bytes = BytesOf(cache[r])
                        /\ \A x \in Executors : {k \in Keys : <<r, k>> \in rddBlockKeysByExecutor[x]}
                                                  = {k \in held : k[2] = x}
  BY DEF StructuresAgree
<1>1. Agree(rddBlocks[r], cache[r])
  BY DEF RddInv, KeptInv
<1>2. ASSUME NEW x \in Executors
      PROVE  {k \in Keys : <<r, k>> \in rddBlockKeysByExecutor[x]} = {k \in Held(cache[r]) : k[2] = x}
  <2>1. \A k \in Keys : <<r, k>> \in rddBlockKeysByExecutor[x] <=> k[2] = x /\ cache[r][k] # NotResident
    BY DEF RddInv, IndexInv
  <2> QED  BY <2>1 DEF Held
<1> QED  BY <1>1, <1>2 DEF Agree, Replicas

\* What is kept of an RDD's blocks (the blocks, the replicas, the bytes, the
\* index by executor) and what is shown of them are Spark's, through updates
\* and executors lost in any order (recordBlockUpdate, removeExecutor).
THEOREM ResidencyCorrect == RddSpec => []ResidencyAgrees
<1>1. RddInv => ResidencyAgrees
  <2> SUFFICES ASSUME RddInv PROVE ResidencyAgrees
    OBVIOUS
  <2>1. PeakIsShown
    BY DEF RddInv, BlocksShownInv, BlockRecordInv, PeakIsShown
  <2> QED  BY <2>1, AgreeTyped, AgreeStructures DEF ResidencyAgrees
<1> QED  BY <1>1, RddAlways, PTL

LEMMA UpdateKeepsCached ==
  ASSUME RddInv, NEW r \in Rdds, NEW k \in Keys, NEW level \in Levels, BlockUpdated(r, k, level),
         NEW q \in Rdds
  PROVE  /\ rddInfo[q].cached > 0 => rddInfo'[q].cached > 0
         /\ (rddInfo[q].source = "blockUpdates" /\ rddInfo[q].persisted) => rddInfo'[q].persisted
<1> DEFINE first == IF rddInfo[r] = NoInfo
                      THEN [NoInfo EXCEPT !.persisted = level # NotResident] ELSE rddInfo[r]
           info == [first EXCEPT !.source = "blockUpdates"]
           b == Updated(r, k, level)
<1>1. rddInfo' = [rddInfo EXCEPT ![r] = Publish(info, b)] /\ blockUpdatesLogged
      /\ rddInfo = [p \in Rdds |-> rddInfo[p]]
  BY DEF BlockUpdated, Updated, RddInv, BlocksShownInv
<1>2. BlockRecordInv(r) /\ KeptInv
  BY DEF RddInv, BlocksShownInv
<1>3. HasUpdate(r, k, level, b)
  BY <1>2, UpdatedKept
<1>4. b \in BlocksKept /\ b.peak = rddBlocks[r].peak /\ Cached(b) \in Nat
  BY <1>3, CachedIsHeld DEF HasUpdate
<1>5. /\ rddInfo[r].source = "blockUpdates" =>
           first = rddInfo[r] /\ rddInfo[r].cached = b.peak /\ info.persisted = rddInfo[r].persisted
      /\ rddInfo[r].source # "blockUpdates" => rddInfo[r].cached = 0
  BY <1>1, <1>2, <1>4 DEF BlockRecordInv, NoInfo, Infos
<1>6. info \in Infos /\ info.cached = first.cached
  <2>1. first \in Infos
    BY <1>2 DEF BlockRecordInv, NoInfo, Infos, Sizes
  <2> HIDE DEF first
  <2> QED  BY <2>1 DEF Infos
<1> HIDE DEF first, info, b
<1>7. CASE q = r
  <2>1. rddInfo'[r] = Publish(info, b)
    BY <1>1
  <2>2. Publish(info, b).persisted = info.persisted
    BY <1>6 DEF Publish, Infos
  <2>3. Publish(info, b).cached = IF Cached(b) >= b.peak THEN Cached(b) ELSE info.cached
    BY <1>6 DEF Publish, Infos
  <2>4. b.peak \in Nat
    BY <1>4 DEF BlocksKept
  <2>5. rddInfo[r].cached > 0 => rddInfo'[r].cached > 0
    BY <1>4, <1>5, <1>6, <2>1, <2>3, <2>4
  <2> QED  BY <1>5, <1>7, <2>1, <2>2, <2>5
<1>8. CASE q # r
  BY <1>1, <1>8
<1> QED  BY <1>7, <1>8

\* An RDD shown as cached stays so, whatever a later update or snapshot says, and
\* from its first block update on it keeps the level it was persisted with
\* (mergeStageRddInfo).
THEOREM CachedStays == RddSpec => CachedNotLost
<1> DEFINE Keeps == \A r \in Rdds :
             /\ rddInfo[r].cached > 0 => rddInfo'[r].cached > 0
             /\ (rddInfo[r].source = "blockUpdates" /\ rddInfo[r].persisted) => rddInfo'[r].persisted
<1>1. ASSUME RddInv, [RddNext]_rddVars
      PROVE  Keeps \/ UNCHANGED rddVars
  <2>1. ASSUME NEW r \in Rdds, NEW k \in Keys, NEW level \in Levels, BlockUpdated(r, k, level)
        PROVE  Keeps
    BY <1>1, <2>1, UpdateKeepsCached
  <2>2. ASSUME NEW x \in Executors, ExecutorRemoved(x)
        PROVE  Keeps
    BY <2>2 DEF ExecutorRemoved
  <2>3. ASSUME NEW r \in Rdds, NEW persisted \in BOOLEAN, StageListsRdd(r, persisted)
        PROVE  Keeps
    <3>1. MergesInto(r, rddInfo'[r]) /\ \A q \in Rdds : q # r => rddInfo'[q] = rddInfo[q]
      BY <1>1, <2>3, ListedInfo DEF RddInv
    <3>2. rddInfo[r].source = "blockUpdates" \/ rddInfo[r].source # "blockUpdates"
      OBVIOUS
    <3> QED  BY <3>1, <3>2 DEF MergesInto
  <2> QED  BY <1>1, <2>1, <2>2, <2>3 DEF RddNext
<1>2. RddInv /\ [RddNext]_rddVars => [Keeps]_rddVars
  BY <1>1
<1> QED  BY <1>2, RddAlways, PTL DEF RddSpec, CachedNotLost

-----------------------------------------------------------------------------
(* The handlers, field by field.                                            *)

\* What a member of Executions holds.
LEMMA Fields ==
  ASSUME NEW x \in Executions
  PROVE  /\ x.status \in {"unseen", "open", "ended"} /\ x.plan \in Plans \cup {Null}
         /\ x.adaptive \in BOOLEAN /\ x.resolved \in BOOLEAN
         /\ x.driver \in Nat \cup {Null} /\ x.executor \in (SUBSET SqlStages) \cup {Null}
         /\ x.columns \in WithColumns \cup {Null} /\ x.entry \in Entries \cup {Null}
  BY DEF Executions

\* Two records with the same fields are the same.
LEMMA SameFields ==
  ASSUME NEW x \in Executions, NEW y \in Executions,
         x.status = y.status, x.plan = y.plan, x.adaptive = y.adaptive,
         x.resolved = y.resolved, x.driver = y.driver, x.executor = y.executor,
         x.columns = y.columns, x.entry = y.entry
  PROVE  x = y
  BY DEF Executions

\* SqlEntry posts an entry without a tree.
LEMMA EntryFields ==
  ASSUME NEW x \in Executions, NEW p \in Plans \cup {Null}
  PROVE  /\ SqlEntry(x, p) \in Entries
         /\ SqlEntry(x, p).tree = Null
  BY Fields DEF SqlEntry, Entries

\* An execution that no line has named yet.
LEMMA UnseenFields ==
  /\ Unseen \in Executions /\ Unseen.status = "unseen" /\ Unseen.plan = Null
  /\ Unseen.driver = Null /\ Unseen.executor = Null /\ Unseen.columns = Null
  /\ ~Unseen.resolved /\ Unseen.entry = Null
  BY DEF Unseen, Executions

\* setExchangeColumns
LEMMA ColumnsType ==
  ASSUME NEW p \in Plans \cup {Null}
  PROVE  ColumnsOf(p) \in WithColumns \cup {Null} /\ ColumnsOf(Null) = Null
  BY SqlAssumption DEF ColumnsOf

\* startSqlExecution
StartsRecord(y, x, p) ==
  /\ y \in Executions /\ y.status = "open" /\ y.plan = p /\ y.resolved = FALSE
  /\ y.driver = IF p = Null THEN x.driver ELSE 0
  /\ y.executor = IF p = Null THEN x.executor ELSE {}
  /\ y.columns = IF p = Null THEN x.columns ELSE ColumnsOf(p)
  /\ y.entry \in Entries /\ y.entry.tree = Null

\* What startSqlExecution makes of each field.
LEMMA StartFields ==
  ASSUME NEW x \in Executions, NEW p \in Plans \cup {Null}
  PROVE  StartsRecord(Start(x, p), x, p)
<1> DEFINE fresh == [x EXCEPT !.status = "open", !.plan = p, !.adaptive = FALSE,
                         !.resolved = FALSE,
                         !.driver = IF p = Null THEN @ ELSE 0,
                         !.executor = IF p = Null THEN @ ELSE {},
                         !.columns = IF p = Null THEN @ ELSE ColumnsOf(p)]
<1>1. /\ fresh \in Executions /\ fresh.status = "open" /\ fresh.plan = p /\ fresh.resolved = FALSE
      /\ fresh.driver = IF p = Null THEN x.driver ELSE 0
      /\ fresh.executor = IF p = Null THEN x.executor ELSE {}
      /\ fresh.columns = IF p = Null THEN x.columns ELSE ColumnsOf(p)
  BY ColumnsType, ZenonT(60) DEF Executions
<1>2. SqlEntry(fresh, p) \in Entries /\ SqlEntry(fresh, p).tree = Null
  BY <1>1, EntryFields
<1>3. Start(x, p) = [fresh EXCEPT !.entry = SqlEntry(fresh, p)]
  BY DEF Start
<1> HIDE DEF fresh
<1> QED BY <1>1, <1>2, <1>3 DEF Executions, StartsRecord

\* The entry an adaptive update posts, without plan or tree.
UpdatedEntry(status) ==
  [ended |-> status = "ended", adaptive |-> TRUE, plan |-> Null, tree |-> Null]

\* applyAdaptiveExecutionUpdate, of an execution that was started.
UpdatedBy(y, x, p) ==
  /\ y \in Executions /\ y.status = x.status /\ y.adaptive = TRUE
  /\ y.plan = IF p = Null THEN x.plan ELSE p
  /\ y.resolved = x.resolved /\ y.driver = x.driver /\ y.executor = x.executor
  /\ y.columns = IF p = Null THEN x.columns ELSE ColumnsOf(p)
  /\ y.entry = UpdatedEntry(x.status)

\* What applyAdaptiveExecutionUpdate makes of each field.
LEMMA UpdateFields ==
  ASSUME NEW x \in Executions, NEW p \in Plans \cup {Null}, x.status # "unseen"
  PROVE  UpdatedBy(Update(x, p), x, p)
<1> DEFINE z == [x EXCEPT !.adaptive = TRUE,
                          !.plan = IF p = Null THEN @ ELSE p,
                          !.columns = IF p = Null THEN @ ELSE ColumnsOf(p)]
<1>1. /\ z \in Executions /\ z.status = x.status /\ z.adaptive = TRUE
      /\ z.plan = IF p = Null THEN x.plan ELSE p
      /\ z.resolved = x.resolved /\ z.driver = x.driver /\ z.executor = x.executor
      /\ z.columns = IF p = Null THEN x.columns ELSE ColumnsOf(p)
  BY ColumnsType DEF Executions
<1>2. SqlEntry(z, Null) = UpdatedEntry(x.status)
  BY <1>1 DEF SqlEntry, UpdatedEntry
<1>3. SqlEntry(z, Null) \in Entries
  BY <1>1, EntryFields
<1>4. Update(x, p) = [z EXCEPT !.entry = SqlEntry(z, Null)]
  BY DEF Update
<1> HIDE DEF z
<1> QED BY <1>1, <1>2, <1>3, <1>4 DEF Executions, UpdatedBy

\* The same for an update that carries a plan.
UpdatesRecord(u, x, p) ==
  /\ u \in Executions /\ u.status = x.status /\ u.adaptive = TRUE /\ u.plan = p
  /\ u.resolved = x.resolved /\ u.driver = x.driver /\ u.executor = x.executor
  /\ u.columns = ColumnsOf(p)
  /\ u.entry = UpdatedEntry(x.status)

\* A plan that a line carries replaces plan and columns.
LEMMA UpdatedTo ==
  ASSUME NEW x \in Executions, NEW p \in Plans, x.status # "unseen"
  PROVE  UpdatesRecord(Update(x, p), x, p)
<1>1. p # Null
  BY SqlAssumption
<1>2. UpdatedBy(Update(x, p), x, p)
  BY UpdateFields
<1> QED BY <1>1, <1>2 DEF UpdatesRecord, UpdatedBy

\* applyDriverAccumUpdates
Driven(y, x) ==
  /\ y \in Executions /\ y.status = x.status /\ y.plan = x.plan
  /\ y.adaptive = x.adaptive /\ y.resolved = x.resolved
  /\ y.driver = IF x.driver = Null THEN Null ELSE x.driver + 1
  /\ y.executor = x.executor /\ y.columns = x.columns /\ y.entry = x.entry

\* What applyDriverAccumUpdates makes of each field.
LEMMA DriverFields ==
  ASSUME NEW x \in Executions PROVE Driven(DriverUpdate(x), x)
  BY DEF DriverUpdate, Executions, Driven

\* recordStageSqlAccumulables
Totalled(y, x, s) ==
  /\ y \in Executions /\ y.status = x.status /\ y.plan = x.plan
  /\ y.adaptive = x.adaptive /\ y.resolved = x.resolved
  /\ y.driver = x.driver
  /\ y.executor = IF x.executor = Null THEN Null ELSE {s}
  /\ y.columns = x.columns /\ y.entry = x.entry

\* What recordStageSqlAccumulables makes of each field.
LEMMA TotalFields ==
  ASSUME NEW x \in Executions, NEW s \in SqlStages PROVE Totalled(StageTotal(x, s), x, s)
  BY DEF StageTotal, Executions, Totalled

\* emitParseCompletion
CompletesRecord(y, x) ==
  /\ y \in Executions /\ y.status = x.status /\ y.plan = x.plan
  /\ y.adaptive = x.adaptive /\ y.resolved = x.resolved
  /\ y.driver = Null /\ y.executor = Null
  /\ y.columns = x.columns /\ y.entry = x.entry

\* What emitParseCompletion makes of each field.
LEMMA CompletedFields ==
  ASSUME NEW x \in Executions PROVE CompletesRecord(Completed(x), x)
  BY DEF Completed, Executions, CompletesRecord

\* resolvePlanTree, of a record that has a plan.
LEMMA TreeFields ==
  ASSUME NEW x \in Executions, x.plan # Null,
         NEW reporting \in SUBSET SqlStages, NEW own \in SUBSET SqlStages
  PROVE  LET t == ResolvePlanTree(x, reporting, own) IN
         /\ t \in Trees /\ t # Null /\ t.plan = x.plan /\ t.columns = x.columns
         /\ t.driver = IF x.driver = Null THEN 0 ELSE x.driver
         /\ t.executor = IF x.executor = Null THEN {} ELSE x.executor
         /\ t.stages \subseteq own
<1>1. ResolvePlanTree(x, reporting, own) \in Trees
  BY Fields DEF ResolvePlanTree, Trees
<1>2. ResolvePlanTree(x, reporting, own) # Null
  BY <1>1, SqlAssumption
<1> QED BY <1>1, <1>2 DEF ResolvePlanTree

\* endSqlExecution, of an execution that was started: repeated, without a
\* plan, or with the plan to resolve.
EndedAgain(y, x) ==
  /\ y.resolved = TRUE /\ y.plan = x.plan /\ y.driver = x.driver
  /\ y.executor = x.executor /\ y.columns = x.columns
  /\ y.entry.tree = x.entry.tree

EndedWithout(y, x) ==
  /\ y.resolved = FALSE /\ y.plan = Null /\ y.driver = Null /\ y.executor = Null
  /\ y.columns = x.columns /\ y.entry.tree = Null

EndedWith(y, x, own) ==
  /\ y.resolved = TRUE /\ y.plan = Null /\ y.driver = Null /\ y.executor = Null
  /\ y.columns = Null
  /\ y.entry.tree # Null /\ y.entry.tree.plan = x.plan
  /\ y.entry.tree.columns = x.columns
  /\ y.entry.tree.driver = IF x.driver = Null THEN 0 ELSE x.driver
  /\ y.entry.tree.executor = IF x.executor = Null THEN {} ELSE x.executor
  /\ y.entry.tree.stages \subseteq own

\* What endSqlExecution makes of each field, in its three cases.
LEMMA EndFields ==
  ASSUME NEW x \in Executions, x.status # "unseen", x.entry \in Entries,
         NEW reporting \in SUBSET SqlStages, NEW own \in SUBSET SqlStages
  PROVE  LET y == End(x, reporting, own) IN
         /\ y \in Executions /\ y.status = "ended" /\ y.entry \in Entries
         /\ x.resolved => EndedAgain(y, x)
         /\ (~x.resolved /\ x.plan = Null) => EndedWithout(y, x)
         /\ (~x.resolved /\ x.plan # Null) => EndedWith(y, x, own)
<1> DEFINE z == [x EXCEPT !.status = IF @ = "unseen" THEN @ ELSE "ended"]
           t == ResolvePlanTree(z, reporting, own)
<1>1. /\ z \in Executions /\ z.status = "ended" /\ z.plan = x.plan /\ z.resolved = x.resolved
      /\ z.driver = x.driver /\ z.executor = x.executor /\ z.columns = x.columns
      /\ z.entry = x.entry
  BY DEF Executions
<1>2. CASE x.resolved
  <2>1. End(x, reporting, own) = z
    BY <1>1, <1>2 DEF End
  <2> HIDE DEF z
  <2> QED BY <1>1, <1>2, <2>1, Fields DEF EndedAgain
<1>3. CASE ~x.resolved /\ x.plan = Null
  <2>1. SqlEntry(z, Null) \in Entries /\ SqlEntry(z, Null).tree = Null
    BY <1>1, EntryFields
  <2>2. End(x, reporting, own) =
          [z EXCEPT !.driver = Null, !.executor = Null, !.entry = SqlEntry(z, Null)]
    BY <1>1, <1>3 DEF End
  <2> HIDE DEF z
  <2> QED BY <1>1, <1>3, <2>1, <2>2 DEF Executions, EndedWithout
<1>4. CASE ~x.resolved /\ x.plan # Null
  <2>1. /\ t \in Trees /\ t # Null /\ t.plan = x.plan /\ t.columns = x.columns
        /\ t.driver = IF x.driver = Null THEN 0 ELSE x.driver
        /\ t.executor = IF x.executor = Null THEN {} ELSE x.executor
        /\ t.stages \subseteq own
    <3> HIDE DEF z
    <3>1. z.plan # Null
      BY <1>1, <1>4
    <3>2. LET u == ResolvePlanTree(z, reporting, own) IN
          /\ u \in Trees /\ u # Null /\ u.plan = z.plan /\ u.columns = z.columns
          /\ u.driver = IF z.driver = Null THEN 0 ELSE z.driver
          /\ u.executor = IF z.executor = Null THEN {} ELSE z.executor
          /\ u.stages \subseteq own
      BY <1>1, <3>1, TreeFields
    <3> QED BY <1>1, <3>2
  <2>2. End(x, reporting, own) =
          [z EXCEPT !.driver = Null, !.executor = Null, !.columns = Null,
                    !.plan = Null, !.resolved = TRUE, !.entry.tree = t]
    BY <1>1, <1>4 DEF End
  <2> HIDE DEF z, t
  <2>3. [z.entry EXCEPT !.tree = t] \in Entries /\ [z.entry EXCEPT !.tree = t].tree = t
    BY <1>1, <2>1 DEF Entries
  <2>4. End(x, reporting, own) =
          [z EXCEPT !.driver = Null, !.executor = Null, !.columns = Null,
                    !.plan = Null, !.resolved = TRUE, !.entry = [z.entry EXCEPT !.tree = t]]
    BY <2>2
  <2> HIDE DEF z, t
  <2> QED BY <1>1, <1>4, <2>1, <2>3, <2>4, ZenonT(60) DEF Executions, EndedWith
<1> QED BY <1>2, <1>3, <1>4, Zenon

-----------------------------------------------------------------------------
(* Flushing.                                                                *)

\* flushAdaptiveUpdate, of a record and the plan kept for it, if any.
FlushOf(x, p) == IF p = Null THEN x ELSE Update(x, p)

\* A kept update is superseded without a trace.
LEMMA UpdateTwice ==
  ASSUME NEW x \in Executions, x.status # "unseen", NEW q \in Plans, NEW p \in Plans
  PROVE  Update(Update(x, q), p) = Update(x, p)
<1> DEFINE y == Update(x, q)
           u == Update(y, p)
           v == Update(x, p)
<1>1. UpdatesRecord(y, x, q) /\ UpdatesRecord(v, x, p)
  BY UpdatedTo
<1>2. y \in Executions /\ y.status # "unseen"
  BY <1>1 DEF UpdatesRecord
<1>3. UpdatesRecord(u, y, p)
  BY <1>2, UpdatedTo
<1> HIDE DEF y, u, v
<1>4. u = v
  BY <1>1, <1>3, SameFields, ZenonT(60) DEF UpdatesRecord
<1> QED BY <1>4 DEF u, v, y

\* A driver update commutes with a flush.
LEMMA DriverCommutes ==
  ASSUME NEW x \in Executions, x.status # "unseen", NEW p \in Plans
  PROVE  DriverUpdate(Update(x, p)) = Update(DriverUpdate(x), p)
<1> DEFINE y == Update(x, p)
           d == DriverUpdate(x)
           u == Update(d, p)
           v == DriverUpdate(y)
<1>1. UpdatesRecord(y, x, p) /\ Driven(d, x)
  BY UpdatedTo, DriverFields
<1>2. y \in Executions /\ d \in Executions /\ d.status # "unseen"
  BY <1>1 DEF UpdatesRecord, Driven
<1>3. UpdatesRecord(u, d, p) /\ Driven(v, y)
  BY <1>2, UpdatedTo, DriverFields
<1> HIDE DEF y, d, u, v
<1>4. /\ u \in Executions /\ v \in Executions
      /\ u.status = v.status /\ u.plan = v.plan /\ u.adaptive = v.adaptive
      /\ u.resolved = v.resolved /\ u.driver = v.driver /\ u.executor = v.executor
      /\ u.columns = v.columns /\ u.entry = v.entry
  BY <1>1, <1>3, ZenonT(60) DEF UpdatesRecord, Driven
<1>5. u = v
  BY <1>4, SameFields
<1> QED BY <1>5 DEF u, v, y, d

\* So does a stage total.
LEMMA TotalCommutes ==
  ASSUME NEW x \in Executions, x.status # "unseen", NEW p \in Plans, NEW s \in SqlStages
  PROVE  StageTotal(Update(x, p), s) = Update(StageTotal(x, s), p)
<1> DEFINE y == Update(x, p)
           d == StageTotal(x, s)
           u == Update(d, p)
           v == StageTotal(y, s)
<1>1. UpdatesRecord(y, x, p) /\ Totalled(d, x, s)
  BY UpdatedTo, TotalFields
<1>2. y \in Executions /\ d \in Executions /\ d.status # "unseen"
  BY <1>1 DEF UpdatesRecord, Totalled
<1>3. UpdatesRecord(u, d, p) /\ Totalled(v, y, s)
  BY <1>2, UpdatedTo, TotalFields
<1> HIDE DEF y, d, u, v
<1>4. /\ u \in Executions /\ v \in Executions
      /\ u.status = v.status /\ u.plan = v.plan /\ u.adaptive = v.adaptive
      /\ u.resolved = v.resolved /\ u.driver = v.driver /\ u.executor = v.executor
      /\ u.columns = v.columns /\ u.entry = v.entry
  BY <1>1, <1>3 DEF UpdatesRecord, Totalled
<1>5. u = v
  BY <1>4, SameFields
<1> QED BY <1>5 DEF u, v, y, d

\* The entry an update posts is one of the model.
LEMMA UpdatedEntryFields ==
  ASSUME NEW x \in Executions
  PROVE  UpdatedEntry(x.status) \in Entries /\ UpdatedEntry(x.status).tree = Null
  BY DEF UpdatedEntry, Entries

-----------------------------------------------------------------------------
(* The inductive invariant, of one execution: its record x, the plan q of   *)
(* the line kept for it, its history l and the stages of its jobs.          *)

Lives == [plan : Plans \cup {Null}, maps : BOOLEAN, driver : Nat, executor : SUBSET SqlStages]

\* Before its first start it holds nothing.
GoodUnseen(x, q) ==
  x.status = "unseen" =>
    /\ q = Null /\ x.plan = Null /\ x.driver = Null /\ x.executor = Null
    /\ x.columns = Null /\ x.entry = Null

\* While it is open, the plan kept or else the record's is the last one read.
GoodOpen(x, q, l) ==
  x.status = "open" =>
    /\ x.entry \in Entries /\ x.entry.tree = Null /\ x.resolved = FALSE
    /\ x.columns = ColumnsOf(x.plan)
    /\ l.plan = IF q = Null THEN x.plan ELSE q

\* Until the log ends its accumulators hold what was read since its start.
GoodMaps(x, l) ==
  x.status = "open" =>
    /\ l.maps = TRUE => /\ x.driver \in Nat /\ x.executor \in SUBSET SqlStages
                 /\ l.driver = x.driver /\ l.executor = x.executor
    /\ l.maps = FALSE => /\ x.driver = Null /\ x.executor = Null
                  /\ l.driver = 0 /\ l.executor = {}

\* Once it ended, its tree is of its last plan and holds what was read before.
GoodTree(t, l, own) ==
  /\ t.plan = l.plan /\ t.columns = ColumnsOf(t.plan)
  /\ t.driver = l.driver /\ t.executor = l.executor /\ t.stages \subseteq own

GoodEnded(x, q, l, own) ==
  x.status = "ended" =>
    /\ x.entry \in Entries /\ q = Null /\ x.plan = Null
    /\ x.driver = Null /\ x.executor = Null /\ x.columns = Null
    /\ x.resolved = FALSE => x.entry.tree = Null /\ l.plan = Null
    /\ x.resolved = TRUE => x.entry.tree # Null /\ GoodTree(x.entry.tree, l, own)

GoodRecord(x, q, l, own) ==
  /\ x \in Executions /\ q \in Plans \cup {Null} /\ l \in Lives /\ own \in SUBSET SqlStages
  /\ GoodUnseen(x, q) /\ GoodOpen(x, q, l) /\ GoodEnded(x, q, l, own)

-----------------------------------------------------------------------------
(* Each handler keeps it.                                                   *)

\* What a history holds.
LEMMA LifeFields ==
  ASSUME NEW l \in Lives
  PROVE  l.plan \in Plans \cup {Null} /\ l.maps \in BOOLEAN /\ l.driver \in Nat
         /\ l.executor \in SUBSET SqlStages
  BY DEF Lives

\* The history of an execution that starts.
LEMMA BornFields ==
  ASSUME NEW p \in Plans \cup {Null}
  PROVE  LET m == [Unborn EXCEPT !.plan = p, !.maps = p # Null] IN
         m \in Lives /\ m.plan = p /\ m.maps = (p # Null) /\ m.driver = 0 /\ m.executor = {}
  BY DEF Unborn, Lives

\* startSqlExecution, of an execution that is not open.
LEMMA GoodStart ==
  ASSUME NEW x, NEW q, NEW l, NEW own, NEW p \in Plans \cup {Null},
         GoodRecord(x, q, l, own), x.status # "open"
  PROVE  LET m == [Unborn EXCEPT !.plan = p, !.maps = p # Null] IN
         GoodRecord(Start(x, p), q, m, own) /\ GoodMaps(Start(x, p), m)
<1> DEFINE m == [Unborn EXCEPT !.plan = p, !.maps = p # Null]
           y == Start(x, p)
<1>1. m \in Lives /\ m.plan = p /\ m.maps = (p # Null) /\ m.driver = 0 /\ m.executor = {}
  BY BornFields
<1>2. x \in Executions
  BY DEF GoodRecord
<1>3. StartsRecord(y, x, p)
  BY <1>2, StartFields
<1> HIDE DEF m, y
<1>4. q = Null /\ x.driver = Null /\ x.executor = Null /\ x.columns = Null
  BY <1>2, Fields DEF GoodRecord, GoodUnseen, GoodEnded
<1>5. y.columns = ColumnsOf(p)
  BY <1>3, <1>4, ColumnsType DEF StartsRecord
<1>6. GoodRecord(y, q, m, own)
  BY <1>1, <1>3, <1>4, <1>5 DEF GoodRecord, GoodUnseen, GoodOpen, GoodEnded, StartsRecord
<1>7. GoodMaps(y, m)
  BY <1>1, <1>3, <1>4 DEF GoodMaps, StartsRecord
<1> QED BY <1>6, <1>7 DEF m, y

\* A record and the plan kept for it, flushed.
LEMMA FlushedFields ==
  ASSUME NEW x, NEW q, NEW l, NEW own, GoodRecord(x, q, l, own)
  PROVE  /\ FlushOf(x, q) \in Executions
         /\ FlushOf(x, q).status = x.status /\ FlushOf(x, q).resolved = x.resolved
         /\ FlushOf(x, q).driver = x.driver /\ FlushOf(x, q).executor = x.executor
         /\ q # Null => x.status = "open"
         /\ x.status = "open" =>
              /\ FlushOf(x, q).plan = l.plan /\ FlushOf(x, q).columns = ColumnsOf(l.plan)
              /\ FlushOf(x, q).entry \in Entries /\ FlushOf(x, q).entry.tree = Null
         /\ x.status # "open" => FlushOf(x, q) = x
<1>1. x \in Executions /\ q \in Plans \cup {Null}
  BY DEF GoodRecord
<1>2. q # Null => x.status = "open"
  BY <1>1, Fields DEF GoodRecord, GoodUnseen, GoodEnded
<1>3. CASE q = Null
  <2>1. FlushOf(x, q) = x
    BY <1>3 DEF FlushOf
  <2> QED BY <1>1, <1>2, <1>3, <2>1 DEF GoodRecord, GoodOpen
<1>4. CASE q # Null
  <2>1. x.status = "open" /\ q \in Plans /\ FlushOf(x, q) = Update(x, q)
    BY <1>1, <1>2, <1>4 DEF FlushOf
  <2>2. UpdatesRecord(FlushOf(x, q), x, q)
    BY <1>1, <2>1, UpdatedTo
  <2>3. UpdatedEntry(x.status) \in Entries /\ UpdatedEntry(x.status).tree = Null
    BY <1>1, UpdatedEntryFields
  <2>4. l.plan = q
    BY <1>4, <2>1 DEF GoodRecord, GoodOpen
  <2> QED BY <2>1, <2>2, <2>3, <2>4 DEF UpdatesRecord
<1> QED BY <1>3, <1>4

\* deferAdaptiveUpdate, of a line that parses.
LEMMA GoodDefer ==
  ASSUME NEW x, NEW q, NEW l, NEW own, NEW p \in Plans,
         GoodRecord(x, q, l, own), x.status = "open"
  PROVE  /\ GoodRecord(x, p, [l EXCEPT !.plan = p], own)
         /\ GoodMaps(x, l) => GoodMaps(x, [l EXCEPT !.plan = p])
<1> DEFINE m == [l EXCEPT !.plan = p]
<1>1. /\ m \in Lives /\ m.plan = p /\ m.maps = l.maps /\ m.driver = l.driver
      /\ m.executor = l.executor
  BY DEF GoodRecord, Lives
<1> HIDE DEF m
<1>2. p # Null
  BY SqlAssumption
<1>3. GoodRecord(x, p, m, own)
  BY <1>1, <1>2 DEF GoodRecord, GoodUnseen, GoodOpen, GoodEnded
<1>4. GoodMaps(x, l) => GoodMaps(x, m)
  BY <1>1 DEF GoodMaps
<1> QED BY <1>3, <1>4 DEF m

\* applyAdaptiveExecutionUpdate, after the line kept.
LEMMA GoodUpdateNow ==
  ASSUME NEW x, NEW q, NEW l, NEW own, NEW p \in Plans \cup {Null},
         GoodRecord(x, q, l, own), x.status = "open"
  PROVE  LET y == Update(FlushOf(x, q), p)
             m == [l EXCEPT !.plan = IF p = Null THEN @ ELSE p] IN
         /\ GoodRecord(y, Null, m, own)
         /\ GoodMaps(x, l) => GoodMaps(y, m)
<1> DEFINE f == FlushOf(x, q)
           y == Update(f, p)
           m == [l EXCEPT !.plan = IF p = Null THEN @ ELSE p]
<1>1. /\ m \in Lives /\ m.plan = (IF p = Null THEN l.plan ELSE p) /\ m.maps = l.maps
      /\ m.driver = l.driver /\ m.executor = l.executor
  BY DEF GoodRecord, Lives
<1>2. /\ f \in Executions /\ f.status = x.status /\ f.resolved = x.resolved
      /\ f.driver = x.driver /\ f.executor = x.executor
      /\ f.plan = l.plan /\ f.columns = ColumnsOf(l.plan)
  BY FlushedFields
<1>3. UpdatedBy(y, f, p)
  BY <1>2, UpdateFields
<1>4. UpdatedEntry(f.status) \in Entries /\ UpdatedEntry(f.status).tree = Null
  BY <1>2, UpdatedEntryFields
<1> HIDE DEF f, y, m
<1>5. y \in Executions /\ y.status = "open" /\ y.resolved = FALSE /\ own \in SUBSET SqlStages
  BY <1>2, <1>3 DEF GoodRecord, GoodOpen, UpdatedBy
<1>6. y.plan = m.plan /\ y.columns = ColumnsOf(y.plan)
  BY <1>1, <1>2, <1>3 DEF UpdatedBy
<1>7. y.entry \in Entries /\ y.entry.tree = Null
  BY <1>3, <1>4 DEF UpdatedBy
<1>8. GoodRecord(y, Null, m, own)
  BY <1>1, <1>5, <1>6, <1>7 DEF GoodRecord, GoodUnseen, GoodOpen, GoodEnded
<1>9. y.driver = x.driver /\ y.executor = x.executor
  BY <1>2, <1>3 DEF UpdatedBy
<1>10. GoodMaps(x, l) => GoodMaps(y, m)
  BY <1>1, <1>9 DEF GoodMaps
<1> QED BY <1>8, <1>10 DEF m, y, f

\* endSqlExecution, after the line kept, first or repeated.
LEMMA GoodEnd ==
  ASSUME NEW x, NEW q, NEW l, NEW own, NEW reporting \in SUBSET SqlStages,
         GoodRecord(x, q, l, own), GoodMaps(x, l), x.status # "unseen"
  PROVE  LET y == End(FlushOf(x, q), reporting, own) IN
         GoodRecord(y, Null, l, own) /\ GoodMaps(y, l)
<1> DEFINE f == FlushOf(x, q)
           y == End(f, reporting, own)
<1>1. /\ f \in Executions /\ f.status = x.status /\ f.resolved = x.resolved
      /\ f.driver = x.driver /\ f.executor = x.executor
      /\ x.status = "open" =>
           /\ f.plan = l.plan /\ f.columns = ColumnsOf(l.plan)
           /\ f.entry \in Entries /\ f.entry.tree = Null
      /\ x.status # "open" => f = x
  BY FlushedFields
<1>2. x \in Executions /\ x.status \in {"open", "ended"} /\ l \in Lives /\ own \in SUBSET SqlStages
  BY Fields DEF GoodRecord
<1>3. f.entry \in Entries
  BY <1>1, <1>2 DEF GoodRecord, GoodEnded
<1>4. /\ y \in Executions /\ y.status = "ended" /\ y.entry \in Entries
      /\ f.resolved => EndedAgain(y, f)
      /\ (~f.resolved /\ f.plan = Null) => EndedWithout(y, f)
      /\ (~f.resolved /\ f.plan # Null) => EndedWith(y, f, own)
  BY <1>1, <1>2, <1>3, EndFields
<1> HIDE DEF f, y
<1>5. GoodMaps(y, l)
  BY <1>4 DEF GoodMaps
<1>6. GoodUnseen(y, Null) /\ GoodOpen(y, Null, l)
  BY <1>4 DEF GoodUnseen, GoodOpen
<1>7. GoodEnded(y, Null, l, own)
  <2>1. CASE x.status = "ended"
    <3>1. f = x
      BY <1>1, <2>1
    <3>2. CASE x.resolved = TRUE
      <4>1. EndedAgain(y, x)
        BY <1>4, <3>1, <3>2
      <4> QED BY <1>4, <2>1, <3>2, <4>1 DEF GoodRecord, GoodEnded, EndedAgain, GoodTree
    <3>3. CASE x.resolved = FALSE
      <4>1. x.plan = Null /\ l.plan = Null /\ x.columns = Null
        BY <2>1, <3>3 DEF GoodRecord, GoodEnded
      <4>2. EndedWithout(y, x)
        BY <1>4, <3>1, <3>3, <4>1
      <4> QED BY <1>4, <4>1, <4>2 DEF GoodEnded, EndedWithout
    <3> QED BY <1>2, <3>2, <3>3, Fields
  <2>2. CASE x.status = "open"
    <3>1. f.resolved = FALSE /\ f.plan = l.plan /\ f.columns = ColumnsOf(l.plan)
      BY <1>1, <2>2 DEF GoodRecord, GoodOpen
    <3>2. CASE l.plan = Null
      <4>1. EndedWithout(y, f) /\ f.columns = Null
        BY <1>4, <3>1, <3>2, ColumnsType
      <4> QED BY <1>4, <3>2, <4>1 DEF GoodEnded, EndedWithout
    <3>3. CASE l.plan # Null
      <4>1. EndedWith(y, f, own)
        BY <1>4, <3>1, <3>3
      <4>2. /\ l.driver = IF f.driver = Null THEN 0 ELSE f.driver
            /\ l.executor = IF f.executor = Null THEN {} ELSE f.executor
        <5>1. f.driver = x.driver /\ f.executor = x.executor
          BY <1>1
        <5>2. l.maps \in BOOLEAN
          BY <1>2, LifeFields
        <5>3. CASE l.maps = TRUE
          <6>1. /\ x.driver \in Nat /\ x.executor \in SUBSET SqlStages
                /\ l.driver = x.driver /\ l.executor = x.executor
            BY <2>2, <5>3 DEF GoodMaps
          <6>2. x.driver # Null /\ x.executor # Null
            BY <6>1, SqlAssumption
          <6> QED BY <5>1, <6>1, <6>2
        <5>4. CASE l.maps = FALSE
          BY <2>2, <5>1, <5>4 DEF GoodMaps
        <5> QED BY <5>2, <5>3, <5>4
      <4>3. GoodTree(y.entry.tree, l, own)
        BY <3>1, <4>1, <4>2 DEF GoodTree, EndedWith
      <4> QED BY <1>4, <4>1, <4>3 DEF GoodEnded, EndedWith
    <3> QED BY <3>2, <3>3
  <2> QED BY <1>2, <2>1, <2>2
<1>8. GoodRecord(y, Null, l, own)
  BY <1>2, <1>4, <1>6, <1>7 DEF GoodRecord
<1> QED BY <1>5, <1>8 DEF y, f

\* applyDriverAccumUpdates
LEMMA GoodDriver ==
  ASSUME NEW x, NEW q, NEW l, NEW own, GoodRecord(x, q, l, own), GoodMaps(x, l)
  PROVE  LET y == DriverUpdate(x)
             m == [l EXCEPT !.driver = IF x.status = "open" /\ l.maps THEN @ + 1 ELSE @] IN
         GoodRecord(y, q, m, own) /\ GoodMaps(y, m)
<1> DEFINE y == DriverUpdate(x)
           m == [l EXCEPT !.driver = IF x.status = "open" /\ l.maps THEN @ + 1 ELSE @]
<1>1. /\ x \in Executions /\ q \in Plans \cup {Null} /\ l \in Lives
      /\ own \in SUBSET SqlStages /\ l.maps \in BOOLEAN /\ l.driver \in Nat
  BY LifeFields DEF GoodRecord
<1>2. Driven(y, x)
  BY <1>1, DriverFields
<1>3. /\ m \in Lives /\ m.plan = l.plan /\ m.maps = l.maps /\ m.executor = l.executor
      /\ m.driver = IF x.status = "open" /\ l.maps THEN l.driver + 1 ELSE l.driver
  BY <1>1 DEF Lives
<1> HIDE DEF y, m
<1>4. GoodRecord(y, q, m, own)
  <2>1. GoodUnseen(y, q)
    BY <1>2 DEF GoodRecord, GoodUnseen, Driven
  <2>2. GoodOpen(y, q, m)
    BY <1>2, <1>3 DEF GoodRecord, GoodOpen, Driven
  <2>3. GoodEnded(y, q, m, own)
    BY <1>2, <1>3 DEF GoodRecord, GoodEnded, GoodTree, Driven
  <2> QED BY <1>1, <1>2, <1>3, <2>1, <2>2, <2>3 DEF GoodRecord, Driven
<1>5. GoodMaps(y, m)
  <2>1. CASE l.maps = TRUE /\ x.status = "open"
    <3>1. /\ x.driver \in Nat /\ x.executor \in SUBSET SqlStages
          /\ l.driver = x.driver /\ l.executor = x.executor
      BY <2>1 DEF GoodMaps
    <3>2. x.driver # Null
      BY <3>1, SqlAssumption
    <3> QED BY <1>2, <1>3, <2>1, <3>1, <3>2 DEF GoodMaps, Driven
  <2>2. CASE l.maps = FALSE /\ x.status = "open"
    BY <1>2, <1>3, <2>2 DEF GoodMaps, Driven
  <2>3. CASE x.status # "open"
    BY <1>2, <2>3 DEF GoodMaps, Driven
  <2> QED BY <1>1, <2>1, <2>2, <2>3
<1> QED BY <1>4, <1>5 DEF y, m

\* recordStageSqlAccumulables
LEMMA GoodTotal ==
  ASSUME NEW x, NEW q, NEW l, NEW own, NEW s \in SqlStages,
         GoodRecord(x, q, l, own), GoodMaps(x, l)
  PROVE  LET y == StageTotal(x, s)
             m == [l EXCEPT !.executor = IF x.status = "open" /\ l.maps THEN {s} ELSE @] IN
         GoodRecord(y, q, m, own) /\ GoodMaps(y, m)
<1> DEFINE y == StageTotal(x, s)
           m == [l EXCEPT !.executor = IF x.status = "open" /\ l.maps THEN {s} ELSE @]
<1>1. /\ x \in Executions /\ q \in Plans \cup {Null} /\ l \in Lives
      /\ own \in SUBSET SqlStages /\ l.maps \in BOOLEAN /\ l.executor \in SUBSET SqlStages
  BY LifeFields DEF GoodRecord
<1>2. Totalled(y, x, s)
  BY <1>1, TotalFields
<1>3. /\ m \in Lives /\ m.plan = l.plan /\ m.maps = l.maps /\ m.driver = l.driver
      /\ m.executor = IF x.status = "open" /\ l.maps THEN {s} ELSE l.executor
  BY <1>1 DEF Lives
<1> HIDE DEF y, m
<1>4. GoodRecord(y, q, m, own)
  <2>1. GoodUnseen(y, q)
    BY <1>2 DEF GoodRecord, GoodUnseen, Totalled
  <2>2. GoodOpen(y, q, m)
    BY <1>2, <1>3 DEF GoodRecord, GoodOpen, Totalled
  <2>3. GoodEnded(y, q, m, own)
    BY <1>2, <1>3 DEF GoodRecord, GoodEnded, GoodTree, Totalled
  <2> QED BY <1>1, <1>2, <1>3, <2>1, <2>2, <2>3 DEF GoodRecord, Totalled
<1>5. GoodMaps(y, m)
  <2>1. CASE l.maps = TRUE /\ x.status = "open"
    <3>1. /\ x.driver \in Nat /\ x.executor \in SUBSET SqlStages
          /\ l.driver = x.driver /\ l.executor = x.executor
      BY <2>1 DEF GoodMaps
    <3>2. x.executor # Null
      BY <3>1, SqlAssumption
    <3> QED BY <1>2, <1>3, <2>1, <3>1, <3>2 DEF GoodMaps, Totalled
  <2>2. CASE l.maps = FALSE /\ x.status = "open"
    BY <1>2, <1>3, <2>2 DEF GoodMaps, Totalled
  <2>3. CASE x.status # "open"
    BY <1>2, <2>3 DEF GoodMaps, Totalled
  <2> QED BY <1>1, <2>1, <2>2, <2>3
<1> QED BY <1>4, <1>5 DEF y, m

\* startJob: the stages of an execution's jobs only grow.
LEMMA GoodOwn ==
  ASSUME NEW x, NEW q, NEW l, NEW own, NEW s \in SqlStages, GoodRecord(x, q, l, own)
  PROVE  GoodRecord(x, q, l, own \cup {s})
<1>1. GoodEnded(x, q, l, own \cup {s})
  BY DEF GoodRecord, GoodEnded, GoodTree
<1> QED BY <1>1 DEF GoodRecord

\* emitParseCompletion
LEMMA GoodCompletion ==
  ASSUME NEW x, NEW q, NEW l, NEW own, GoodRecord(x, q, l, own)
  PROVE  GoodRecord(Completed(FlushOf(x, q)), Null, l, own)
<1> DEFINE f == FlushOf(x, q)
           y == Completed(f)
<1>1. /\ f \in Executions /\ f.status = x.status /\ f.resolved = x.resolved
      /\ x.status = "open" =>
           /\ f.plan = l.plan /\ f.columns = ColumnsOf(l.plan)
           /\ f.entry \in Entries /\ f.entry.tree = Null
      /\ x.status # "open" => f = x
  BY FlushedFields
<1>2. CompletesRecord(y, f)
  BY <1>1, CompletedFields
<1> HIDE DEF f, y
<1>3. GoodUnseen(y, Null)
  BY <1>1, <1>2 DEF GoodRecord, GoodUnseen, CompletesRecord
<1>4. GoodOpen(y, Null, l)
  BY <1>1, <1>2 DEF GoodRecord, GoodOpen, CompletesRecord
<1>5. GoodEnded(y, Null, l, own)
  BY <1>1, <1>2 DEF GoodRecord, GoodEnded, CompletesRecord
<1>6. GoodRecord(y, Null, l, own)
  BY <1>2, <1>3, <1>4, <1>5 DEF GoodRecord, CompletesRecord
<1> QED BY <1>6 DEF y, f

-----------------------------------------------------------------------------
(* The invariant of all executions, and each action.                        *)

MapsType ==
  /\ sqlExecutions \in [Execs -> Executions]
  /\ pendingAdaptiveUpdates \in [Execs -> Plans \cup {Null}]
  /\ life \in [Execs -> Lives]
  /\ sqlExecStages \in [Execs -> SUBSET SqlStages]
  /\ stageToSqlExec \in [SqlStages -> Execs \cup {Null}]
  /\ taskAccumStages \subseteq SqlStages /\ logEnded \in BOOLEAN

GoodAt(e) ==
  /\ GoodRecord(sqlExecutions[e], pendingAdaptiveUpdates[e], life[e], sqlExecStages[e])
  /\ ~logEnded => GoodMaps(sqlExecutions[e], life[e])
  /\ logEnded => pendingAdaptiveUpdates[e] = Null

Inv == MapsType /\ \A e \in Execs : GoodAt(e)

\* An action of one execution keeps the invariant if it does so for that
\* execution.
LEMMA ChangeOne ==
  ASSUME Inv, ~logEnded, UNCHANGED <<stageToSqlExec, sqlExecStages, logEnded>>,
         taskAccumStages' \subseteq SqlStages, NEW e \in Execs, NEW y, NEW q, NEW m,
         sqlExecutions' = [sqlExecutions EXCEPT ![e] = y],
         pendingAdaptiveUpdates' = [pendingAdaptiveUpdates EXCEPT ![e] = q],
         life' = [life EXCEPT ![e] = m],
         GoodRecord(y, q, m, sqlExecStages[e]), GoodMaps(y, m)
  PROVE  Inv'
<1>1. y \in Executions /\ q \in Plans \cup {Null} /\ m \in Lives
  BY DEF GoodRecord
<1>2. MapsType'
  BY <1>1 DEF Inv, MapsType
<1>3. ASSUME NEW d \in Execs PROVE GoodAt(d)'
  <2>1. GoodAt(d)
    BY DEF Inv
  <2>2. CASE d = e
    <3>1. sqlExecutions'[e] = y /\ pendingAdaptiveUpdates'[e] = q /\ life'[e] = m
      BY DEF Inv, MapsType
    <3> QED BY <2>2, <3>1 DEF GoodAt
  <2>3. CASE d # e
    <3>1. /\ sqlExecutions'[d] = sqlExecutions[d] /\ life'[d] = life[d]
          /\ pendingAdaptiveUpdates'[d] = pendingAdaptiveUpdates[d]
      BY <2>3 DEF Inv, MapsType
    <3> QED BY <2>1, <3>1 DEF GoodAt
  <2> QED BY <2>2, <2>3
<1> QED BY <1>2, <1>3 DEF Inv

\* What flushAdaptiveUpdate makes of an execution, as FlushOf.
LEMMA FlushedIs ==
  ASSUME NEW e \in Execs, Inv
  PROVE  Flushed(e) = FlushOf(sqlExecutions[e], pendingAdaptiveUpdates[e])
  BY SqlAssumption DEF Inv, MapsType, Flushed, FlushOf

\* No line has been read.
LEMMA InvInit == SqlInit => Inv
<1> SUFFICES ASSUME SqlInit PROVE Inv
  OBVIOUS
<1>1. Unborn \in Lives
  BY DEF Unborn, Lives
<1>2. MapsType
  BY <1>1, UnseenFields DEF SqlInit, MapsType
<1>3. ASSUME NEW e \in Execs PROVE GoodAt(e)
  <2>1. /\ sqlExecutions[e] = Unseen /\ pendingAdaptiveUpdates[e] = Null
        /\ life[e] = Unborn /\ sqlExecStages[e] = {} /\ logEnded = FALSE
    BY DEF SqlInit
  <2>2. GoodRecord(Unseen, Null, Unborn, {})
    BY <1>1, UnseenFields DEF GoodRecord, GoodUnseen, GoodOpen, GoodEnded
  <2>3. GoodMaps(Unseen, Unborn)
    BY UnseenFields DEF GoodMaps
  <2> QED BY <2>1, <2>2, <2>3 DEF GoodAt
<1> QED BY <1>2, <1>3 DEF Inv

\* SQLExecutionStart
LEMMA StartStep ==
  ASSUME Inv, NEW e \in Execs, NEW p \in Plans \cup {Null}, SqlExecutionStart(e, p)
  PROVE  Inv'
<1> DEFINE x == sqlExecutions[e]
           q == pendingAdaptiveUpdates[e]
           m == [Unborn EXCEPT !.plan = p, !.maps = p # Null]
           y == Start(x, p)
<1>1. GoodRecord(x, q, life[e], sqlExecStages[e]) /\ x.status # "open"
  BY DEF Inv, GoodAt, SqlExecutionStart, IsOpen
<1>2. GoodRecord(y, q, m, sqlExecStages[e]) /\ GoodMaps(y, m)
  BY <1>1, GoodStart
<1>3. pendingAdaptiveUpdates = [pendingAdaptiveUpdates EXCEPT ![e] = q]
  BY DEF Inv, MapsType
<1>4. /\ sqlExecutions' = [sqlExecutions EXCEPT ![e] = y]
      /\ life' = [life EXCEPT ![e] = m]
  BY DEF SqlExecutionStart
<1>5. taskAccumStages' \subseteq SqlStages
  BY DEF SqlExecutionStart, Inv, MapsType
<1> HIDE DEF x, q, m, y
<1> QED BY <1>2, <1>3, <1>4, <1>5, ChangeOne DEF SqlExecutionStart

\* An update that is kept.
LEMMA DeferStep ==
  ASSUME Inv, NEW e \in Execs, NEW p \in Plans, DeferAdaptiveUpdate(e, p)
  PROVE  Inv'
<1> DEFINE x == sqlExecutions[e]
           m == [life[e] EXCEPT !.plan = p]
<1>1. /\ GoodRecord(x, pendingAdaptiveUpdates[e], life[e], sqlExecStages[e])
      /\ GoodMaps(x, life[e]) /\ x.status = "open"
  BY DEF Inv, GoodAt, DeferAdaptiveUpdate, IsOpen
<1>2. GoodRecord(x, p, m, sqlExecStages[e]) /\ GoodMaps(x, m)
  BY <1>1, GoodDefer
<1>3. sqlExecutions' = [sqlExecutions EXCEPT ![e] = x]
  BY DEF Inv, MapsType, DeferAdaptiveUpdate
<1>4. p # MalformedLine
  BY DeferralAssumption
<1>5. /\ pendingAdaptiveUpdates' = [pendingAdaptiveUpdates EXCEPT ![e] = p]
      /\ life' = [life EXCEPT ![e] = m]
  BY <1>4 DEF DeferAdaptiveUpdate
<1>6. taskAccumStages' \subseteq SqlStages
  BY DEF DeferAdaptiveUpdate, Inv, MapsType
<1> HIDE DEF x, m
<1> QED BY <1>2, <1>3, <1>5, <1>6, ChangeOne DEF DeferAdaptiveUpdate

\* An update handled at once.
LEMMA UpdateNowStep ==
  ASSUME Inv, NEW e \in Execs, NEW p \in Plans \cup {Null}, AdaptiveUpdateNow(e, p)
  PROVE  Inv'
<1> DEFINE x == sqlExecutions[e]
           y == Update(FlushOf(x, pendingAdaptiveUpdates[e]), p)
           m == [life[e] EXCEPT !.plan = IF p = Null THEN @ ELSE p]
<1>1. /\ GoodRecord(x, pendingAdaptiveUpdates[e], life[e], sqlExecStages[e])
      /\ GoodMaps(x, life[e]) /\ x.status = "open"
  BY DEF Inv, GoodAt, AdaptiveUpdateNow, IsOpen
<1>2. GoodRecord(y, Null, m, sqlExecStages[e]) /\ GoodMaps(y, m)
  BY <1>1, GoodUpdateNow
<1>3. /\ sqlExecutions' = [sqlExecutions EXCEPT ![e] = y]
      /\ pendingAdaptiveUpdates' = [pendingAdaptiveUpdates EXCEPT ![e] = Null]
      /\ life' = [life EXCEPT ![e] = m]
  BY FlushedIs DEF AdaptiveUpdateNow, UpdateAfterPending
<1>4. taskAccumStages' \subseteq SqlStages
  BY DEF AdaptiveUpdateNow, Inv, MapsType
<1> HIDE DEF x, y, m
<1> QED BY <1>2, <1>3, <1>4, ChangeOne DEF AdaptiveUpdateNow

\* SQLExecutionEnd
LEMMA EndStep ==
  ASSUME Inv, NEW e \in Execs, SqlExecutionEnd(e)
  PROVE  Inv'
<1> DEFINE x == sqlExecutions[e]
           y == End(FlushOf(x, pendingAdaptiveUpdates[e]), taskAccumStages, sqlExecStages[e])
           m == life[e]
<1>1. /\ GoodRecord(x, pendingAdaptiveUpdates[e], m, sqlExecStages[e])
      /\ GoodMaps(x, m) /\ x.status # "unseen" /\ taskAccumStages \in SUBSET SqlStages
  BY DEF Inv, MapsType, GoodAt, SqlExecutionEnd
<1>2. GoodRecord(y, Null, m, sqlExecStages[e]) /\ GoodMaps(y, m)
  BY <1>1, GoodEnd
<1>3. /\ sqlExecutions' = [sqlExecutions EXCEPT ![e] = y]
      /\ pendingAdaptiveUpdates' = [pendingAdaptiveUpdates EXCEPT ![e] = Null]
  BY FlushedIs DEF SqlExecutionEnd
<1>4. life' = [life EXCEPT ![e] = m]
  BY DEF SqlExecutionEnd, Inv, MapsType
<1>5. taskAccumStages' \subseteq SqlStages
  BY DEF SqlExecutionEnd, Inv, MapsType
<1> HIDE DEF x, y, m
<1> QED BY <1>2, <1>3, <1>4, <1>5, ChangeOne DEF SqlExecutionEnd

\* DriverAccumUpdates
LEMMA DriverStep ==
  ASSUME Inv, NEW e \in Execs, DriverAccumUpdates(e)
  PROVE  Inv'
<1> DEFINE x == sqlExecutions[e]
           q == pendingAdaptiveUpdates[e]
           y == DriverUpdate(x)
           m == [life[e] EXCEPT !.driver = IF x.status = "open" /\ life[e].maps
                                             THEN @ + 1 ELSE @]
<1>1. GoodRecord(x, q, life[e], sqlExecStages[e]) /\ GoodMaps(x, life[e])
  BY DEF Inv, GoodAt, DriverAccumUpdates
<1>2. GoodRecord(y, q, m, sqlExecStages[e]) /\ GoodMaps(y, m)
  BY <1>1, GoodDriver
<1>3. pendingAdaptiveUpdates' = [pendingAdaptiveUpdates EXCEPT ![e] = q]
  BY DEF Inv, MapsType, DriverAccumUpdates
<1>4. /\ sqlExecutions' = [sqlExecutions EXCEPT ![e] = y]
      /\ life' = [life EXCEPT ![e] = m]
  BY DEF DriverAccumUpdates, IsOpen
<1>5. taskAccumStages' \subseteq SqlStages
  BY DEF DriverAccumUpdates, Inv, MapsType
<1> HIDE DEF x, q, y, m
<1> QED BY <1>2, <1>3, <1>4, <1>5, ChangeOne DEF DriverAccumUpdates

\* StageCompleted
LEMMA StageStep ==
  ASSUME Inv, NEW s \in SqlStages, StageReports(s)
  PROVE  Inv'
<1> DEFINE e == stageToSqlExec[s]
           x == sqlExecutions[e]
           q == pendingAdaptiveUpdates[e]
           y == StageTotal(x, s)
           m == [life[e] EXCEPT !.executor = IF x.status = "open" /\ life[e].maps
                                               THEN {s} ELSE @]
<1>0. e \in Execs
  BY DEF StageReports, Inv, MapsType
<1>1. GoodRecord(x, q, life[e], sqlExecStages[e]) /\ GoodMaps(x, life[e])
  BY <1>0 DEF Inv, GoodAt, StageReports
<1>2. GoodRecord(y, q, m, sqlExecStages[e]) /\ GoodMaps(y, m)
  BY <1>1, GoodTotal
<1>3. pendingAdaptiveUpdates' = [pendingAdaptiveUpdates EXCEPT ![e] = q]
  BY <1>0 DEF Inv, MapsType, StageReports
<1>4. /\ sqlExecutions' = [sqlExecutions EXCEPT ![e] = y]
      /\ life' = [life EXCEPT ![e] = m]
  BY DEF StageReports, IsOpen
<1>5. taskAccumStages' \subseteq SqlStages
  BY DEF StageReports, Inv, MapsType
<1> HIDE DEF e, x, q, y, m
<1> QED BY <1>0, <1>2, <1>3, <1>4, <1>5, ChangeOne DEF StageReports

\* JobStart
LEMMA JobStep ==
  ASSUME Inv, NEW e \in Execs, NEW s \in SqlStages, JobStart(e, s)
  PROVE  Inv'
<1>1. MapsType'
  BY DEF Inv, MapsType, JobStart
<1>2. ASSUME NEW d \in Execs PROVE GoodAt(d)'
  <2>1. GoodAt(d)
    BY DEF Inv
  <2>2. /\ sqlExecutions'[d] = sqlExecutions[d] /\ life'[d] = life[d]
        /\ pendingAdaptiveUpdates'[d] = pendingAdaptiveUpdates[d] /\ logEnded' = logEnded
    BY DEF JobStart
  <2>3. \/ sqlExecStages'[d] = sqlExecStages[d]
        \/ sqlExecStages'[d] = sqlExecStages[d] \cup {s}
    BY DEF Inv, MapsType, JobStart
  <2> QED BY <2>1, <2>2, <2>3, GoodOwn DEF GoodAt
<1> QED BY <1>1, <1>2 DEF Inv

\* The end of the log.
LEMMA CompletionStep ==
  ASSUME Inv, ParseCompletion
  PROVE  Inv'
<1>1. ASSUME NEW d \in Execs
      PROVE  GoodRecord(sqlExecutions'[d], pendingAdaptiveUpdates'[d], life'[d], sqlExecStages'[d])
  <2>1. GoodRecord(sqlExecutions[d], pendingAdaptiveUpdates[d], life[d], sqlExecStages[d])
    BY DEF Inv, GoodAt
  <2>2. /\ sqlExecutions'[d] = Completed(FlushOf(sqlExecutions[d], pendingAdaptiveUpdates[d]))
        /\ pendingAdaptiveUpdates'[d] = Null /\ life'[d] = life[d]
        /\ sqlExecStages'[d] = sqlExecStages[d]
    BY FlushedIs DEF ParseCompletion
  <2> QED BY <2>1, <2>2, GoodCompletion
<1>2. ASSUME NEW d \in Execs PROVE Completed(Flushed(d)) \in Executions
  BY <1>1 DEF ParseCompletion, GoodRecord
<1>3. MapsType'
  BY <1>2 DEF Inv, MapsType, ParseCompletion
<1>4. ASSUME NEW d \in Execs PROVE GoodAt(d)'
  BY <1>1 DEF GoodAt, ParseCompletion
<1> QED BY <1>3, <1>4 DEF Inv

\* Every step of the log keeps the invariant, if none of its lines is malformed.
LEMMA InvStep ==
  ASSUME MayBeMalformed = FALSE, Inv, [SqlNext]_sqlVars
  PROVE  Inv'
<1>1. CASE UNCHANGED sqlVars
  BY <1>1 DEF Inv, MapsType, GoodAt, sqlVars
<1>2. ASSUME NEW e \in Execs, NEW p \in Plans \cup {Null}, SqlExecutionStart(e, p) PROVE Inv'
  BY <1>2, StartStep
<1>3. ASSUME NEW e \in Execs, NEW p \in Plans \cup {Null}, AdaptiveUpdateNow(e, p) PROVE Inv'
  BY <1>3, UpdateNowStep
<1>4. ASSUME NEW e \in Execs, NEW p \in Deferrable, DeferAdaptiveUpdate(e, p) PROVE Inv'
  BY <1>4, DeferStep DEF Deferrable
<1>5. ASSUME NEW e \in Execs, SqlExecutionEnd(e) PROVE Inv'
  BY <1>5, EndStep
<1>6. ASSUME NEW e \in Execs, DriverAccumUpdates(e) PROVE Inv'
  BY <1>6, DriverStep
<1>7. ASSUME NEW e \in Execs, NEW s \in SqlStages, JobStart(e, s) PROVE Inv'
  BY <1>7, JobStep
<1>8. ASSUME NEW s \in SqlStages, TaskReports(s) PROVE Inv'
  <2>1. MapsType'
    BY <1>8 DEF Inv, MapsType, TaskReports
  <2>2. (\A e \in Execs : GoodAt(e))'
    BY <1>8 DEF Inv, GoodAt, TaskReports
  <2> QED BY <2>1, <2>2 DEF Inv
<1>9. ASSUME NEW s \in SqlStages, StageReports(s) PROVE Inv'
  BY <1>9, StageStep
<1>10. CASE ParseCompletion
  BY <1>10, CompletionStep
<1> QED BY <1>1, <1>2, <1>3, <1>4, <1>5, <1>6, <1>7, <1>8, <1>9, <1>10 DEF SqlNext

\* The invariant says of each tree whose it is.
LEMMA InvTree == Inv => TreeIsItsOwn
<1> SUFFICES ASSUME Inv PROVE TreeIsItsOwn
  OBVIOUS
<1>1. ASSUME NEW e \in Execs
      PROVE  LET x == sqlExecutions[e] IN
             /\ GoodRecord(x, pendingAdaptiveUpdates[e], life[e], sqlExecStages[e])
             /\ x.status \in {"unseen", "open", "ended"}
             /\ pendingAdaptiveUpdates[e] # Null => x.status = "open" /\ ~logEnded
  BY Fields DEF Inv, GoodAt, GoodRecord, GoodUnseen, GoodEnded
<1>2. SqlTypeOK
  BY <1>1 DEF Inv, MapsType, SqlTypeOK, IsOpen
<1>3. EndedShowsLastPlan
  <2> SUFFICES ASSUME NEW e \in Execs, sqlExecutions[e].status = "ended", life[e].plan # Null
               PROVE  /\ sqlExecutions[e].entry.tree # Null
                      /\ sqlExecutions[e].entry.tree.plan = life[e].plan
    BY DEF EndedShowsLastPlan
  <2>1. sqlExecutions[e].resolved = TRUE
    BY <1>1, Fields DEF GoodRecord, GoodEnded
  <2> QED BY <1>1, <2>1 DEF GoodRecord, GoodEnded, GoodTree
<1>4. ASSUME NEW e \in Execs, sqlExecutions[e].entry # Null, sqlExecutions[e].entry.tree # Null
      PROVE  GoodTree(sqlExecutions[e].entry.tree, life[e], sqlExecStages[e])
  <2> DEFINE x == sqlExecutions[e]
  <2>1. GoodRecord(x, pendingAdaptiveUpdates[e], life[e], sqlExecStages[e]) /\ x.status # "open"
    BY <1>1, <1>4 DEF GoodRecord, GoodOpen
  <2>2. x.status = "ended"
    BY <1>1, <1>4, <2>1 DEF GoodRecord, GoodUnseen
  <2>3. x.resolved = TRUE
    BY <1>4, <2>1, <2>2, Fields DEF GoodRecord, GoodEnded
  <2> QED BY <2>1, <2>2, <2>3 DEF GoodRecord, GoodEnded
<1>5. ColumnsOfItsPlan
  BY <1>4 DEF ColumnsOfItsPlan, GoodTree
<1>6. MetricsOfItsLife
  BY <1>4 DEF MetricsOfItsLife, GoodTree
<1>7. StagesOfItsJobs
  BY <1>4 DEF StagesOfItsJobs, GoodTree
<1> QED BY <1>2, <1>3, <1>5, <1>6, <1>7 DEF TreeIsItsOwn

\* TreeIsItsOwn: whatever is deferred, superseded, repeated or shared, an
\* ended execution shows the tree of the last plan its lines carried, with the
\* columns of that plan, the metrics of its own life and stages of its own jobs
\* (dispatchLine, endSqlExecution, emitParseCompletion).
THEOREM TreesCorrect ==
  ASSUME MayBeMalformed = FALSE
  PROVE  SqlSpec => []TreeIsItsOwn
<1>1. SqlInit => Inv
  BY InvInit
<1>2. Inv /\ [SqlNext]_sqlVars => Inv'
  BY InvStep
<1>3. Inv => TreeIsItsOwn
  BY InvTree
<1> QED BY <1>1, <1>2, <1>3, PTL DEF SqlSpec

-----------------------------------------------------------------------------
(* The reading in which every line is handled when it is read.              *)

Reading == [e \in Execs |-> Flushed(e)]

\* The handlers of SqlReading are those of SqlHandlers.
LEMMA SameHandlers ==
  /\ Eager!Unseen = Unseen
  /\ \A x, p : Eager!Start(x, p) = Start(x, p) /\ Eager!Update(x, p) = Update(x, p)
  /\ \A x : Eager!DriverUpdate(x) = DriverUpdate(x) /\ Eager!Completed(x) = Completed(x)
  /\ \A x, s : Eager!StageTotal(x, s) = StageTotal(x, s)
  /\ \A x, r, o : Eager!End(x, r, o) = End(x, r, o)
<1>1. Eager!Unseen = Unseen
  BY DEF Eager!Unseen, Unseen
<1>2. \A x, p : Eager!SqlEntry(x, p) = SqlEntry(x, p)
  BY DEF Eager!SqlEntry, SqlEntry
<1>3. \A p : Eager!ColumnsOf(p) = ColumnsOf(p)
  BY DEF Eager!ColumnsOf, ColumnsOf
<1>4. \A x, p : Eager!Start(x, p) = Start(x, p)
  BY <1>2, <1>3, ZenonT(60) DEF Eager!Start, Start
<1>5. \A x, p : Eager!Update(x, p) = Update(x, p)
  BY <1>2, <1>3 DEF Eager!Update, Update
<1>6. \A x : Eager!DriverUpdate(x) = DriverUpdate(x) /\ Eager!Completed(x) = Completed(x)
  BY DEF Eager!DriverUpdate, DriverUpdate, Eager!Completed, Completed
<1>7. \A x, s : Eager!StageTotal(x, s) = StageTotal(x, s)
  BY DEF Eager!StageTotal, StageTotal
<1>8. \A x, r, o : Eager!End(x, r, o) = End(x, r, o)
  BY DEF Eager!End, End, Eager!SqlEntry, SqlEntry, Eager!ResolvePlanTree, ResolvePlanTree
<1> QED BY <1>1, <1>4, <1>5, <1>6, <1>7, <1>8

\* A line of one execution reads as the handler that gives it z.
LEMMA ReadOne ==
  ASSUME Inv, Inv', NEW e \in Execs, NEW z,
         \A d \in Execs \ {e} : /\ sqlExecutions'[d] = sqlExecutions[d]
                                /\ pendingAdaptiveUpdates'[d] = pendingAdaptiveUpdates[d],
         FlushOf(sqlExecutions'[e], pendingAdaptiveUpdates'[e]) = z
  PROVE  Reading' = [Reading EXCEPT ![e] = z]
<1>1. ASSUME NEW d \in Execs
      PROVE  Flushed(d)' = FlushOf(sqlExecutions'[d], pendingAdaptiveUpdates'[d])
  BY SqlAssumption DEF Inv, MapsType, Flushed, FlushOf
<1>2. ASSUME NEW d \in Execs, d # e PROVE Flushed(d)' = Flushed(d)
  BY <1>1, <1>2, FlushedIs
<1>3. Flushed(e)' = z
  BY <1>1
<1> QED BY <1>2, <1>3 DEF Reading

\* A driver update or a stage total reads the same before and after a flush.
LEMMA FlushCommutes ==
  ASSUME NEW x, NEW q, NEW l, NEW own, NEW s \in SqlStages \cup {Null}, GoodRecord(x, q, l, own)
  PROVE  /\ FlushOf(DriverUpdate(x), q) = DriverUpdate(FlushOf(x, q))
         /\ s \in SqlStages => FlushOf(StageTotal(x, s), q) = StageTotal(FlushOf(x, q), s)
<1>1. CASE q = Null
  BY <1>1 DEF FlushOf
<1>2. CASE q # Null
  <2>1. x \in Executions /\ q \in Plans /\ x.status = "open"
    BY <1>2, FlushedFields DEF GoodRecord
  <2> QED BY <1>2, <2>1, DriverCommutes, TotalCommutes DEF FlushOf
<1> QED BY <1>1, <1>2

\* A start reads as a start: nothing is kept for an execution not open.
LEMMA StartReads ==
  ASSUME Inv, Inv', NEW e \in Execs, NEW p \in Plans \cup {Null}, SqlExecutionStart(e, p)
  PROVE  Reading' = [Reading EXCEPT ![e] = Start(Reading[e], p)]
<1>1. /\ GoodRecord(sqlExecutions[e], pendingAdaptiveUpdates[e], life[e], sqlExecStages[e])
      /\ sqlExecutions[e].status # "open"
  BY DEF Inv, GoodAt, SqlExecutionStart, IsOpen
<1>2. pendingAdaptiveUpdates[e] = Null /\ pendingAdaptiveUpdates'[e] = Null
  BY <1>1, FlushedFields DEF SqlExecutionStart
<1>3. Reading[e] = sqlExecutions[e]
  BY <1>2, FlushedIs DEF Reading, FlushOf
<1>4. FlushOf(sqlExecutions'[e], pendingAdaptiveUpdates'[e]) = Start(Reading[e], p)
  BY <1>2, <1>3 DEF SqlExecutionStart, FlushOf, Inv, MapsType
<1>5. \A d \in Execs \ {e} : /\ sqlExecutions'[d] = sqlExecutions[d]
                             /\ pendingAdaptiveUpdates'[d] = pendingAdaptiveUpdates[d]
  BY DEF SqlExecutionStart, Inv, MapsType
<1> QED BY <1>4, <1>5, ReadOne

\* A kept update reads as applied.
LEMMA DeferReads ==
  ASSUME Inv, Inv', NEW e \in Execs, NEW p \in Plans, DeferAdaptiveUpdate(e, p)
  PROVE  Reading' = [Reading EXCEPT ![e] = Update(Reading[e], p)]
<1> DEFINE x == sqlExecutions[e]
           q == pendingAdaptiveUpdates[e]
<1>1. x \in Executions /\ x.status = "open" /\ q \in Plans \cup {Null}
  BY DEF Inv, MapsType, DeferAdaptiveUpdate, IsOpen
<1>2. Reading[e] = FlushOf(x, q)
  BY FlushedIs DEF Reading
<1>3. Update(FlushOf(x, q), p) = Update(x, p)
  <2>1. CASE q = Null
    BY <2>1 DEF FlushOf
  <2>2. CASE q # Null
    BY <1>1, <2>2, UpdateTwice DEF FlushOf
  <2> QED BY <2>1, <2>2
<1>4. sqlExecutions'[e] = x /\ pendingAdaptiveUpdates'[e] = p /\ p # Null
  BY SqlAssumption DEF DeferAdaptiveUpdate, Inv, MapsType
<1>5. FlushOf(sqlExecutions'[e], pendingAdaptiveUpdates'[e]) = Update(Reading[e], p)
  BY <1>2, <1>3, <1>4 DEF FlushOf
<1>6. \A d \in Execs \ {e} : /\ sqlExecutions'[d] = sqlExecutions[d]
                             /\ pendingAdaptiveUpdates'[d] = pendingAdaptiveUpdates[d]
  BY DEF DeferAdaptiveUpdate, Inv, MapsType
<1> QED BY <1>5, <1>6, ReadOne

\* An update handled at once reads as applied.
LEMMA UpdateNowReads ==
  ASSUME Inv, Inv', NEW e \in Execs, NEW p \in Plans \cup {Null}, AdaptiveUpdateNow(e, p)
  PROVE  Reading' = [Reading EXCEPT ![e] = Update(Reading[e], p)]
<1>1. sqlExecutions'[e] = Update(Reading[e], p) /\ pendingAdaptiveUpdates'[e] = Null
  BY DEF AdaptiveUpdateNow, UpdateAfterPending, Reading, Inv, MapsType
<1>2. FlushOf(sqlExecutions'[e], pendingAdaptiveUpdates'[e]) = Update(Reading[e], p)
  BY <1>1 DEF FlushOf
<1>3. \A d \in Execs \ {e} : /\ sqlExecutions'[d] = sqlExecutions[d]
                             /\ pendingAdaptiveUpdates'[d] = pendingAdaptiveUpdates[d]
  BY DEF AdaptiveUpdateNow, UpdateAfterPending, Inv, MapsType
<1> QED BY <1>2, <1>3, ReadOne

\* An end reads as one of the record with the kept line applied.
LEMMA EndReads ==
  ASSUME Inv, Inv', NEW e \in Execs, SqlExecutionEnd(e)
  PROVE  Reading' = [Reading EXCEPT ![e] = End(Reading[e], taskAccumStages, sqlExecStages[e])]
<1>1. /\ sqlExecutions'[e] = End(Reading[e], taskAccumStages, sqlExecStages[e])
      /\ pendingAdaptiveUpdates'[e] = Null
  BY DEF SqlExecutionEnd, Reading, Inv, MapsType
<1>2. FlushOf(sqlExecutions'[e], pendingAdaptiveUpdates'[e])
        = End(Reading[e], taskAccumStages, sqlExecStages[e])
  BY <1>1 DEF FlushOf
<1>3. \A d \in Execs \ {e} : /\ sqlExecutions'[d] = sqlExecutions[d]
                             /\ pendingAdaptiveUpdates'[d] = pendingAdaptiveUpdates[d]
  BY DEF SqlExecutionEnd, Inv, MapsType
<1> QED BY <1>2, <1>3, ReadOne

\* Driver updates read as such.
LEMMA DriverReads ==
  ASSUME Inv, Inv', NEW e \in Execs, DriverAccumUpdates(e)
  PROVE  Reading' = [Reading EXCEPT ![e] = DriverUpdate(Reading[e])]
<1> DEFINE q == pendingAdaptiveUpdates[e]
<1>1. sqlExecutions'[e] = DriverUpdate(sqlExecutions[e]) /\ pendingAdaptiveUpdates'[e] = q
  BY DEF DriverAccumUpdates, Inv, MapsType
<1>2. GoodRecord(sqlExecutions[e], q, life[e], sqlExecStages[e])
  BY DEF Inv, GoodAt
<1>3. FlushOf(DriverUpdate(sqlExecutions[e]), q) = DriverUpdate(FlushOf(sqlExecutions[e], q))
  BY <1>2, FlushCommutes
<1>4. FlushOf(sqlExecutions'[e], pendingAdaptiveUpdates'[e]) = DriverUpdate(Reading[e])
  BY <1>1, <1>3, FlushedIs DEF Reading
<1>5. \A d \in Execs \ {e} : /\ sqlExecutions'[d] = sqlExecutions[d]
                             /\ pendingAdaptiveUpdates'[d] = pendingAdaptiveUpdates[d]
  BY DEF DriverAccumUpdates, Inv, MapsType
<1> QED BY <1>4, <1>5, ReadOne

\* Stage totals read as such.
LEMMA StageReads ==
  ASSUME Inv, Inv', NEW s \in SqlStages, StageReports(s)
  PROVE  /\ stageToSqlExec[s] \in Execs
         /\ Reading' = [Reading EXCEPT ![stageToSqlExec[s]] =
                          StageTotal(Reading[stageToSqlExec[s]], s)]
<1> DEFINE e == stageToSqlExec[s]
           q == pendingAdaptiveUpdates[e]
<1>0. e \in Execs
  BY DEF StageReports, Inv, MapsType
<1>1. sqlExecutions'[e] = StageTotal(sqlExecutions[e], s) /\ pendingAdaptiveUpdates'[e] = q
  BY <1>0 DEF StageReports, Inv, MapsType
<1>2. GoodRecord(sqlExecutions[e], q, life[e], sqlExecStages[e])
  BY <1>0 DEF Inv, GoodAt
<1>3. FlushOf(StageTotal(sqlExecutions[e], s), q) = StageTotal(FlushOf(sqlExecutions[e], q), s)
  BY <1>2, FlushCommutes
<1>4. FlushOf(sqlExecutions'[e], pendingAdaptiveUpdates'[e]) = StageTotal(Reading[e], s)
  BY <1>0, <1>1, <1>3, FlushedIs DEF Reading
<1>5. \A d \in Execs \ {e} : /\ sqlExecutions'[d] = sqlExecutions[d]
                             /\ pendingAdaptiveUpdates'[d] = pendingAdaptiveUpdates[d]
  BY DEF StageReports, Inv, MapsType
<1> QED BY <1>0, <1>4, <1>5, ReadOne

\* What a line does to the reading is a step of SqlReading, or nothing.
LEMMA ReadingStep ==
  ASSUME MayBeMalformed = FALSE, Inv, Inv', [SqlNext]_sqlVars
  PROVE  [Eager!ReadingNext]_(Eager!readingVars)
<1> DEFINE Kept == UNCHANGED <<taskAccumStages, sqlExecStages>>
<1>1. ASSUME NEW e \in Execs, NEW p \in Plans \cup {Null}, Kept,
             \/ Reading' = [Reading EXCEPT ![e] = Start(Reading[e], p)]
             \/ Reading' = [Reading EXCEPT ![e] = Update(Reading[e], p)]
      PROVE  Eager!ReadingNext
  BY <1>1, SameHandlers DEF Eager!ReadingNext, Eager!ReadLine, Reading
<1>2. ASSUME NEW e \in Execs, Kept,
             \/ Reading' = [Reading EXCEPT ![e] = DriverUpdate(Reading[e])]
             \/ Reading' = [Reading EXCEPT ![e] =
                              End(Reading[e], taskAccumStages, sqlExecStages[e])]
      PROVE  Eager!ReadingNext
  BY <1>2, SameHandlers DEF Eager!ReadingNext, Eager!ReadLine, Reading
<1>3. ASSUME NEW e \in Execs, NEW s \in SqlStages, Kept,
             Reading' = [Reading EXCEPT ![e] = StageTotal(Reading[e], s)]
      PROVE  Eager!ReadingNext
  BY <1>3, SameHandlers DEF Eager!ReadingNext, Eager!ReadLine, Reading
<1>4. CASE UNCHANGED sqlVars
  BY <1>4 DEF sqlVars, Eager!readingVars, Flushed
<1>5. ASSUME NEW e \in Execs, NEW p \in Plans \cup {Null},
             SqlExecutionStart(e, p) \/ AdaptiveUpdateNow(e, p)
      PROVE  Eager!ReadingNext
  <2>1. Kept
    BY <1>5 DEF SqlExecutionStart, AdaptiveUpdateNow
  <2> QED BY <1>1, <1>5, <2>1, StartReads, UpdateNowReads
<1>6. ASSUME NEW e \in Execs, NEW p \in Deferrable, DeferAdaptiveUpdate(e, p)
      PROVE  Eager!ReadingNext
  <2>1. Kept /\ p \in Plans
    BY <1>6 DEF DeferAdaptiveUpdate, Deferrable
  <2> QED BY <1>1, <1>6, <2>1, DeferReads
<1>7. ASSUME NEW e \in Execs, SqlExecutionEnd(e) \/ DriverAccumUpdates(e)
      PROVE  Eager!ReadingNext
  <2>1. Kept
    BY <1>7 DEF SqlExecutionEnd, DriverAccumUpdates
  <2> QED BY <1>2, <1>7, <2>1, EndReads, DriverReads
<1>8. ASSUME NEW e \in Execs, NEW s \in SqlStages, JobStart(e, s)
      PROVE  Eager!ReadingNext
  BY <1>8 DEF JobStart, Flushed, Eager!ReadingNext, Eager!ReadJobStart
<1>9. ASSUME NEW s \in SqlStages, TaskReports(s)
      PROVE  Eager!ReadingNext
  BY <1>9 DEF TaskReports, Flushed, Eager!ReadingNext, Eager!ReadTaskEnd
<1>10. ASSUME NEW s \in SqlStages, StageReports(s)
       PROVE  Eager!ReadingNext
  <2>1. Kept
    BY <1>10 DEF StageReports
  <2> QED BY <1>3, <1>10, <2>1, StageReads
<1>11. CASE ParseCompletion
  <2>1. ASSUME NEW e \in Execs PROVE Flushed(e)' = Completed(Flushed(e))
    BY <1>11, SqlAssumption DEF ParseCompletion, Flushed
  <2>2. Reading' = [e \in Execs |-> Completed(Reading[e])]
    BY <2>1 DEF Reading
  <2> QED BY <1>11, <2>2, SameHandlers
          DEF ParseCompletion, Reading, Eager!ReadingNext, Eager!ReadingComplete
<1> QED BY <1>4, <1>5, <1>6, <1>7, <1>8, <1>9, <1>10, <1>11 DEF SqlNext

\* ImplementsReading: keeping only the latest adaptive update of an execution
\* and parsing it when the execution or the log ends reads the log as if each
\* update had been applied in its place (deferAdaptiveUpdate,
\* flushAdaptiveUpdate, flushAllAdaptiveUpdates).
THEOREM DeferralCorrect ==
  ASSUME MayBeMalformed = FALSE
  PROVE  SqlSpec => ImplementsReading
<1>1. SqlInit => Inv
  BY InvInit
<1>2. Inv /\ [SqlNext]_sqlVars => Inv'
  BY InvStep
<1>3. SqlInit => Eager!ReadingInit
  <2> SUFFICES ASSUME SqlInit PROVE Eager!ReadingInit
    OBVIOUS
  <2>1. \A e \in Execs : Flushed(e) = Unseen
    BY SqlAssumption DEF SqlInit, Flushed
  <2> QED BY <2>1, SameHandlers DEF SqlInit, Eager!ReadingInit
<1>4. Inv /\ Inv' /\ [SqlNext]_sqlVars => [Eager!ReadingNext]_(Eager!readingVars)
  BY ReadingStep
<1> QED BY <1>1, <1>2, <1>3, <1>4, PTL DEF SqlSpec, ImplementsReading, Eager!ReadingSpec
=============================================================================
