------------------------------ MODULE SqlReading ------------------------------
(***************************************************************************)
(* The reading of a log's SQL events that the deferral of                  *)
(* packages/core/src/event-handlers.ts (deferAdaptiveUpdate) must not      *)
(* change: every line is handled when it is read.                          *)
(***************************************************************************)
EXTENDS SqlHandlers

VARIABLES reading,   \* per execution: its record and its entry in the model
          reporting, \* taskAccumStages of the plans' accumulator
          own        \* sqlExecStages

readingVars == <<reading, reporting, own>>

ReadingInit == /\ reading = [e \in Execs |-> Unseen]
               /\ reporting = {}
               /\ own = [e \in Execs |-> {}]

\* A line that changes the record of one execution.
ReadLine(e) ==
  /\ \/ \E p \in Plans \cup {Null} : \/ reading' = [reading EXCEPT ![e] = Start(@, p)]
                                       \/ reading' = [reading EXCEPT ![e] = Update(@, p)]
     \/ \E s \in SqlStages : reading' = [reading EXCEPT ![e] = StageTotal(@, s)]
     \/ reading' = [reading EXCEPT ![e] = DriverUpdate(@)]
     \/ reading' = [reading EXCEPT ![e] = End(@, reporting, own[e])]
  /\ UNCHANGED <<reporting, own>>

ReadJobStart(e, s) == /\ own' = [own EXCEPT ![e] = @ \cup {s}]
                      /\ UNCHANGED <<reading, reporting>>

ReadTaskEnd(s) == /\ reporting' = reporting \cup {s}
                  /\ UNCHANGED <<reading, own>>

ReadingComplete == /\ reading' = [e \in Execs |-> Completed(reading[e])]
                   /\ UNCHANGED <<reporting, own>>

ReadingNext == \/ \E e \in Execs : ReadLine(e) \/ \E s \in SqlStages : ReadJobStart(e, s)
               \/ \E s \in SqlStages : ReadTaskEnd(s)
               \/ ReadingComplete

ReadingSpec == ReadingInit /\ [][ReadingNext]_readingVars
=============================================================================
