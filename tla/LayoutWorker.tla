------------------------------ MODULE LayoutWorker ------------------------------
(***************************************************************************)
(* Laying out large plan graphs off the main thread: the client of the     *)
(* layout worker (src/view/plan-graph/layout-worker-client.ts), the worker *)
(* (layout.worker.ts) and the hook whose view waits for a batch of layouts *)
(* (useLayoutPrewarm.ts).                                                  *)
(*                                                                         *)
(* A layout is its key.  A worker may fail to start, may die at any time,  *)
(* and a layout may throw in it.                                           *)
(***************************************************************************)
EXTENDS Integers, FiniteSets

CONSTANTS Keys,          \* the layouts a view may ask for
          MaxBatches     \* bound: batches of requests

VARIABLES
  worker,       \* the client's: "none" or the number of the worker it holds
  workerFailed,
  started,      \* workers created so far
  pending,      \* requests not answered yet: id, key and batch
  nextRequestId,
  inWorker,     \* requests the live worker has not answered
  replies,      \* answers on their way: id and whether it holds positions
  batch,        \* the number of the latest batch
  jobs,         \* its layouts
  asked,        \* the effect that asks for them has run
  settledBatch,      \* the latest batch whose layouts are all answered
  cache         \* stored layouts

layoutVars == <<worker, workerFailed, started, pending, nextRequestId, inWorker, replies,
                batch, jobs, asked, settledBatch, cache>>

LayoutInit ==
  /\ worker = "none" /\ workerFailed = FALSE /\ started = 0
  /\ pending = {} /\ nextRequestId = 1 /\ inWorker = {} /\ replies = {}
  /\ batch = 0 /\ jobs = {} /\ asked = TRUE /\ settledBatch = 0 /\ cache = {}

\* What useLayoutPrewarm returns: the view lays out on the main thread now.
Ready == jobs = {} \/ settledBatch = batch

-----------------------------------------------------------------------------
(* The hook.                                                                *)

\* A render with other requests: none goes to a worker that failed or does not
\* exist, nor one that is stored; an earlier batch is given up.
Render(keys) ==
  /\ batch < MaxBatches
  /\ batch' = batch + 1
  /\ jobs' = IF workerFailed THEN {} ELSE keys \ cache
  /\ asked' = (jobs' = {})
  /\ UNCHANGED <<worker, workerFailed, started, pending, nextRequestId, inWorker, replies, settledBatch, cache>>

\* The batch is settled once each of its requests is, if its effect still lives.
AllAnswered(left) == asked /\ \A p \in left : p.batch # batch
SettleWith(left) == settledBatch' = IF AllAnswered(left) THEN batch ELSE settledBatch

-----------------------------------------------------------------------------
(* The client.                                                              *)

\* A worker that is terminated answers nothing more.
FailWorkerQuietly ==
  /\ workerFailed' = TRUE /\ worker' = "none"
  /\ inWorker' = {} /\ replies' = {}
  /\ UNCHANGED <<pending, settledBatch>>
FailWorker ==
  /\ workerFailed' = TRUE /\ worker' = "none"
  /\ inWorker' = {} /\ replies' = {}
  /\ pending' = {} /\ SettleWith({})

\* layoutInWorker, of each layout of the batch; startWorker makes a worker
\* when there is none, also after one failed, or answers null at once.
AskForLayouts ==
  /\ ~asked
  /\ asked' = TRUE
  /\ \/ /\ worker' = "up"
        /\ started' = IF worker = "none" THEN started + 1 ELSE started
        /\ LET ids == nextRequestId..nextRequestId + Cardinality(jobs) - 1
               keyOf == CHOOSE f \in [ids -> jobs] : \A i, j \in ids : f[i] = f[j] => i = j
               asks == {[id |-> i, key |-> keyOf[i], batch |-> batch] : i \in ids}
           IN  pending' = pending \cup asks /\ inWorker' = inWorker \cup asks
        /\ nextRequestId' = nextRequestId + Cardinality(jobs)
        /\ UNCHANGED <<workerFailed, replies, settledBatch>>
     \/ /\ worker = "none"
        /\ worker' = "none" /\ workerFailed' = TRUE
        /\ pending' = {} /\ settledBatch' = batch
        /\ UNCHANGED <<started, nextRequestId, inWorker, replies>>
  /\ UNCHANGED <<batch, jobs, cache>>

\* onmessage.
HandleReply(r) ==
  /\ r \in replies
  /\ replies' = replies \ {r}
  /\ pending' = {p \in pending : p.id # r.id}
  /\ cache' = cache \cup {p.key : p \in {p \in pending : p.id = r.id /\ r.laidOut}}
  /\ SettleWith(pending')
  /\ UNCHANGED <<worker, workerFailed, started, nextRequestId, inWorker, batch, jobs, asked>>

\* onerror and onmessageerror, a script that cannot be loaded included.
WorkerError ==
  /\ worker = "up"
  /\ FailWorker
  /\ UNCHANGED <<started, nextRequestId, batch, jobs, asked, cache>>

-----------------------------------------------------------------------------
(* The worker.                                                              *)

Reply(ask, ok) ==
  /\ ask \in inWorker
  /\ inWorker' = inWorker \ {ask}
  /\ replies' = replies \cup {[id |-> ask.id, laidOut |-> ok]}
  /\ UNCHANGED <<worker, workerFailed, started, pending, nextRequestId, batch, jobs, asked,
                 settledBatch, cache>>

Run == \/ \E ask \in inWorker, ok \in BOOLEAN : Reply(ask, ok)
       \/ \E r \in replies : HandleReply(r)
       \/ AskForLayouts

LayoutNext == (\E keys \in SUBSET Keys : Render(keys)) \/ Run \/ WorkerError

LayoutSpec == LayoutInit /\ [][LayoutNext]_layoutVars /\ WF_layoutVars(Run)

-----------------------------------------------------------------------------
(* Properties.                                                              *)

\* A view that waits for a worker is let go on, whatever batch it waits for
\* and however many workers die meanwhile.
WaitingEnds == (~Ready) ~> Ready
=============================================================================
