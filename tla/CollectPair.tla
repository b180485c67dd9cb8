------------------------------ MODULE CollectPair ------------------------------
(***************************************************************************)
(* Collecting the baseline and the candidate of a comparison on Node       *)
(* (packages/core/src/cli/collect-run-pair.ts, collect-run-worker.js,      *)
(* collect-run.ts): one log parses in a worker thread and the other in     *)
(* this one, or both here, one after the other.                            *)
(*                                                                         *)
(* A log parses or is rejected, the same way wherever it is read.  The     *)
(* thread may be refused, fail or die at any time, and its message, its    *)
(* error and its exit arrive one after the other.                          *)
(***************************************************************************)
EXTENDS Integers, FiniteSets

Logs == {"baseline", "candidate"}
Nothing == "nothing"

VARIABLES
  good,       \* whether each log is one the parser accepts
  plan,       \* "none", "inTurn", or the log that parses in the worker
  here,       \* parses of each log in this thread: "none", "running" or "ended"
  collected,  \* how often each log was parsed here or taken from the thread
  thread,     \* the worker thread: "none", "running" or "over"
  events,     \* what it has posted, in order of arrival: "run", "rejected",
              \* "error", "exit"
  done,       \* the first of them was handled
  files,      \* file descriptors of each log open in this thread
  outcome     \* how the collection of each log settled: Nothing, "run" or "rejected"

pairVars == <<good, plan, here, collected, thread, events, done, files, outcome>>

PairInit ==
  /\ good \in [Logs -> BOOLEAN]
  /\ plan = "none" /\ here = [l \in Logs |-> "none"] /\ collected = [l \in Logs |-> 0]
  /\ thread = "none" /\ events = {} /\ done = FALSE
  /\ files = [l \in Logs |-> 0]
  /\ outcome = [l \in Logs |-> Nothing]

Verdict(l) == IF good[l] THEN "run" ELSE "rejected"

-----------------------------------------------------------------------------
(* collectRun in this thread: opens its files, parses, closes them.         *)

StartHere(ls) ==
  /\ here' = [l \in Logs |-> IF l \in ls THEN "running" ELSE here[l]]
  /\ collected' = [l \in Logs |-> IF l \in ls THEN collected[l] + 1 ELSE collected[l]]
  /\ files' = [l \in Logs |-> IF l \in ls THEN files[l] + 1 ELSE files[l]]

CloseFiles(l) == files' = [files EXCEPT ![l] = @ - 1]

\* Also for a log that is rejected, or throws past the parser's guards.
EndHere(l) ==
  /\ here[l] = "running"
  /\ outcome' = [outcome EXCEPT ![l] = Verdict(l)]
  /\ IF plan = "inTurn" /\ l = "baseline" /\ good[l]
       THEN /\ here' = [here EXCEPT ![l] = "ended", !["candidate"] = "running"]
            /\ collected' = [collected EXCEPT !["candidate"] = @ + 1]
            /\ files' = [files EXCEPT ![l] = @ - 1, !["candidate"] = @ + 1]
       ELSE here' = [here EXCEPT ![l] = "ended"] /\ CloseFiles(l) /\ UNCHANGED collected
  /\ UNCHANGED <<good, plan, thread, events, done>>

-----------------------------------------------------------------------------
(* collectRunPair and collectRunInWorker.                                   *)

Other(l) == CHOOSE m \in Logs : m # l

\* The sizes decide; a thread that cannot be created parses here.
CollectPair ==
  /\ plan = "none"
  /\ \/ plan' = "inTurn" /\ StartHere({"baseline"}) /\ UNCHANGED thread
     \/ \E l \in Logs :
          /\ plan' = l
          /\ \/ thread' = "running" /\ StartHere({Other(l)})
             \/ thread' = "over" /\ StartHere(Logs)
  /\ UNCHANGED <<good, events, done, outcome>>

\* The thread posts its run or its rejection, if it can be cloned, and exits;
\* or it dies, with an error or without one.
ThreadEnds ==
  /\ thread = "running"
  /\ thread' = "over"
  /\ \E last \in {{Verdict(plan), "exit"}, {"error", "exit"}, {"exit"}} : events' = last
  /\ UNCHANGED <<good, plan, here, collected, done, files, outcome>>

\* A message comes before the exit, an error too.
Due(e) == e \in events /\ (e = "exit" => events = {"exit"})

SettlesAgain == TRUE
\* finish: only the first event settles, and terminates the thread.
Settles == ~done

HandleEvent(e) ==
  /\ Due(e)
  /\ events' = events \ {e}
  /\ IF Settles
       THEN /\ done' = TRUE
            /\ IF e \in {"run", "rejected"}
                 THEN /\ outcome' = [outcome EXCEPT ![plan] = e]
                      /\ collected' = [collected EXCEPT ![plan] = @ + 1]
                      /\ UNCHANGED <<here, files>>
                 ELSE StartHere({plan}) /\ UNCHANGED outcome
       ELSE UNCHANGED <<done, outcome, here, collected, files>>
  /\ UNCHANGED <<good, plan, thread>>

PairStep == CollectPair \/ ThreadEnds \/ \E l \in Logs : EndHere(l)
PairNext == PairStep \/ \E e \in {"run", "rejected", "error", "exit"} : HandleEvent(e)

PairSpec == PairInit /\ [][PairNext]_pairVars /\ WF_pairVars(PairNext)

-----------------------------------------------------------------------------
(* Properties.                                                              *)

\* A log is collected once at most, from the thread or here, also when its
\* thread dies after posting; it settles with what it holds, and no file of a
\* parse that ended stays open, however the parse ended.
CollectedOnce ==
  /\ \A l \in Logs : collected[l] <= 1 /\ outcome[l] \in {Nothing, Verdict(l)}
  /\ \A l \in Logs : here[l] # "running" => files[l] = 0
=============================================================================
