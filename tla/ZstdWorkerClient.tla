-------------------------- MODULE ZstdWorkerClient --------------------------
(***************************************************************************)
(* zstd decoding off the parse worker's thread: the client side            *)
(* (packages/core/src/zstd-worker-client.ts), the decompress worker        *)
(* (packages/core/src/zstd-worker.ts), the two message queues between them *)
(* and the caller that streams files through it (parser-worker.ts          *)
(* streamFile, shs-fetch.ts parseZipArchive).                              *)
(*                                                                         *)
(* Data is abstracted to block numbers: the n-th block a stream decodes to *)
(* is the number n, a slice decodes to the next few blocks of its stream   *)
(* and may then turn out corrupt.                                          *)
(***************************************************************************)
EXTENDS Integers, Sequences, FiniteSets

CONSTANTS MaxStreams,     \* bound: streams opened, ids 0 .. MaxStreams-1
          MaxSlices,      \* bound: slices pushed on one stream
          MaxBlocks,      \* bound: blocks one slice decodes to
          BatchBlocks,    \* OUTPUT_BATCH_BYTES, in blocks
          MaxInFlight,    \* maxInFlight
          StopAtFailure,  \* whether the caller opens no stream after a failed one
          NoSlice         \* no slice in hand

ASSUME BoundsAssumption == /\ MaxStreams \in Nat \ {0}
                           /\ MaxSlices \in Nat \ {0}
                           /\ MaxBlocks \in Nat
                           /\ StopAtFailure \in BOOLEAN
ASSUME BatchAssumption == BatchBlocks \in Nat \ {0}
ASSUME WindowAssumption == MaxInFlight \in Nat \ {0}

Streams == 0 .. MaxStreams-1
NoStream == -1

Slices == [id : Streams, seq : Nat, lo : Nat, n : 0..MaxBlocks,
           final : BOOLEAN, bad : BOOLEAN]
Requests == [type : {"start", "cancel"}, id : Streams]
              \cup [type : {"data"}, id : Streams, slice : Slices]
\* `slice` of a chunk and of an error is history: the slice being decoded.
Replies == [type : {"ready"}]
             \cup [type : {"chunk"}, id : Streams, blocks : Seq(Nat), slice : Nat]
             \cup [type : {"consumed", "error"}, id : Streams, slice : Nat]

ASSUME NoSliceAssumption == NoSlice \notin Slices

VARIABLES
  \* shared by the streams of one factory
  ready,      \* the promise of startWorker: "none", "pending", "yes" or "no"
  port,       \* whether the client holds a port
  active,     \* the stream whose replies are delivered
  cur,        \* the latest stream opened (nextId - 1)
  \* of stream cur
  started, local, seq, inFlight, failure,
  \* the caller and the decompress worker
  caller,     \* what the caller of push is doing
  slice,      \* the slice a push holds until begin() ends, or local is decoding
  final,      \* whether the latest push was the final one
  toWorker, toClient,
  worker,     \* "off", "loading", "up", "crashed" or "gone"
  streamId, decoder, batch,
  work,       \* the slice decoder.push is in, less the blocks already collected
  \* history
  pushes,     \* slices pushed on stream cur
  given,      \* blocks the slices pushed on a stream decode to
  fed         \* blocks onChunk returned from

shared == <<ready, port, active>>
stream == <<started, local, seq, inFlight, failure>>
decoding == <<streamId, decoder, batch, work>>
history == <<pushes, given, fed>>
vars == <<shared, cur, stream, caller, slice, final, toWorker, toClient, worker,
          decoding, history>>

Init == /\ ready = "none" /\ port = FALSE /\ active = NoStream
        /\ cur = NoStream
        /\ started = FALSE /\ local = FALSE /\ failure = FALSE
        /\ seq = 0 /\ inFlight = 0
        /\ caller = "idle" /\ slice = NoSlice /\ final = FALSE
        /\ toWorker = <<>> /\ toClient = <<>>
        /\ worker = "off"
        /\ streamId = NoStream /\ decoder = FALSE /\ batch = <<>> /\ work = NoSlice
        /\ pushes = 0
        /\ given = [k \in Streams |-> 0]
        /\ fed = [k \in Streams |-> <<>>]

-----------------------------------------------------------------------------
(* The client.  Its thread runs one thing at a time: an in-thread decode,   *)
(* and the continuation of begin() once `ready` settled, run before any     *)
(* other message is handled.                                                *)

ThreadFree == caller # "local" /\ ~(caller = "begin" /\ ready # "pending")

\* port?.postMessage
Post(messages) == toWorker' = IF port THEN toWorker \o messages ELSE toWorker

WindowOpenOffByOne(unacked, last) == unacked <= (IF last THEN 1 ELSE MaxInFlight)
WindowOpenIgnoresFinal(unacked, last) == unacked < MaxInFlight
WindowOpen(unacked, last) == unacked < (IF last THEN 1 ELSE MaxInFlight)

\* The promise a push returned resolves once the window is open.
AfterPush(unacked, last) ==
  IF ~WindowOpen(unacked, last) THEN "waiting"
  ELSE IF last THEN "done" ELSE "reading"

\* stream.fail: a waiting push rejects, one that comes later throws.
FailWithoutWake == /\ failure' = TRUE
                   /\ active' = IF active = cur THEN NoStream ELSE active
                   /\ UNCHANGED caller
Fail == /\ failure' = TRUE
        /\ active' = IF active = cur THEN NoStream ELSE active
        /\ caller' = IF caller = "waiting" THEN "failed" ELSE caller

\* giveUp: terminating the worker also drops the messages still queued.
GiveUp == /\ port' = FALSE
          /\ ready' = "no"
          /\ toWorker' = <<>>
          /\ toClient' = <<>>

\* The caller opens its next stream when it is done with the one before.
OpenStream ==
  /\ caller \in {"idle", "done", "failed"}
  /\ caller = "failed" => ~StopAtFailure
  /\ cur + 1 < MaxStreams
  /\ cur' = cur + 1
  /\ caller' = "reading"
  /\ started' = FALSE /\ local' = FALSE /\ failure' = FALSE
  /\ seq' = 0 /\ inFlight' = 0
  /\ pushes' = 0
  /\ UNCHANGED <<final, shared, slice, toWorker, toClient, worker, decoding, given, fed>>

\* The next slice of stream cur: any number of blocks, final at the latest
\* when the bound on the slices is reached, possibly corrupt.
NextSlice(s) ==
  /\ pushes < MaxSlices
  /\ pushes + 1 = MaxSlices => s.final
  /\ pushes' = pushes + 1
  /\ final' = s.final
  /\ given' = [given EXCEPT ![cur] = @ + s.n]

\* postMessage of a data request, counted, and the wait for the window.
Send(s, before) ==
  /\ Post(before \o <<[type |-> "data", id |-> cur, slice |-> s]>>)
  /\ seq' = seq + 1
  /\ inFlight' = inFlight + 1
  /\ caller' = AfterPush(inFlight + 1, s.final)

\* push on a stream that has not begun; the first one of all spawns the worker.
PushFirst(s) ==
  /\ caller = "reading" /\ ~started
  /\ NextSlice(s)
  /\ started' = TRUE
  /\ slice' = s
  /\ caller' = "begin"
  /\ \/ ready = "none" /\ ready' = "pending" /\ worker' = "loading"
     \/ ready = "none" /\ ready' = "no" /\ UNCHANGED worker   \* spawn() threw
     \/ ready # "none" /\ UNCHANGED <<ready, worker>>
  /\ UNCHANGED <<port, active, cur, local, seq, inFlight, failure,
                 toWorker, toClient, decoding, fed>>

\* begin() resumes after `await ready`, and the push goes on.
BeginOnWorker ==
  /\ caller = "begin" /\ ready = "yes" /\ port
  /\ active' = cur
  /\ Send(slice, <<[type |-> "start", id |-> cur]>>)
  /\ slice' = NoSlice
  /\ UNCHANGED <<final, ready, port, cur, started, local, failure, toClient, worker,
                 decoding, history>>

BeginLocal ==
  /\ caller = "begin" /\ ready \in {"yes", "no"}
  /\ ~(ready = "yes" /\ port)
  /\ local' = TRUE
  /\ caller' = "local"
  /\ UNCHANGED <<final, shared, cur, started, seq, inFlight, failure, slice,
                 toWorker, toClient, worker, decoding, history>>

PushToWorker(s) ==
  /\ caller = "reading" /\ started /\ ~local /\ ~failure /\ port
  /\ NextSlice(s)
  /\ Send(s, <<>>)
  /\ UNCHANGED <<shared, cur, started, local, failure, slice, toClient, worker,
                 decoding, fed>>

\* The stream failed since the last push returned, or the worker is gone, so
\* this push throws and the caller cancels the stream.
PushThrows ==
  /\ caller = "reading" /\ started /\ ~local
  /\ failure \/ ~port
  /\ failure' = TRUE
  /\ active' = IF active = cur THEN NoStream ELSE active
  /\ caller' = "failed"
  /\ UNCHANGED <<ready, port, cur, started, local, seq, inFlight, slice, final,
                 toWorker, toClient, worker, decoding, history>>

\* cancel(): the caller abandons the stream, between pushes when reading the
\* file fails or while a push waits, which rejects.
Cancel ==
  /\ caller \in {"reading", "waiting"}
  /\ IF local \/ ~started \/ failure
       THEN UNCHANGED <<failure, active, toWorker>>
       ELSE /\ Post(<<[type |-> "cancel", id |-> cur]>>)
            /\ failure' = TRUE
            /\ active' = IF active = cur THEN NoStream ELSE active
  /\ caller' = "failed"
  /\ UNCHANGED <<final, ready, port, cur, started, local, seq, inFlight, slice,
                 toClient, worker, decoding, history>>

-----------------------------------------------------------------------------
(* The in-thread fallback: fzstd, decoding a slice within the push.         *)

PushLocal(s) ==
  /\ caller = "reading" /\ local
  /\ NextSlice(s)
  /\ slice' = s
  /\ caller' = "local"
  /\ UNCHANGED <<shared, cur, stream, toWorker, toClient, worker, decoding, fed>>

LocalFeed ==
  /\ caller = "local" /\ slice.n > 0
  /\ fed' = [fed EXCEPT ![cur] = Append(@, slice.lo)]
  /\ slice' = [slice EXCEPT !.lo = @ + 1, !.n = @ - 1]
  /\ UNCHANGED <<final, shared, cur, stream, caller, toWorker, toClient, worker,
                 decoding, pushes, given>>

LocalReturn ==
  /\ caller = "local" /\ slice.n = 0 /\ ~slice.bad
  /\ caller' = IF slice.final THEN "done" ELSE "reading"
  /\ slice' = NoSlice
  /\ UNCHANGED <<final, shared, cur, stream, toWorker, toClient, worker, decoding,
                 history>>

\* onChunk throws on a block, or the decoder on corrupt input.
LocalThrow ==
  /\ caller = "local"
  /\ slice.n > 0 \/ slice.bad
  /\ caller' = "failed"
  /\ slice' = NoSlice
  /\ UNCHANGED <<final, shared, cur, stream, toWorker, toClient, worker, decoding,
                 history>>

-----------------------------------------------------------------------------
(* The client handles the replies of the worker, in order.                  *)

Reply(type) == /\ ThreadFree
               /\ toClient # <<>>
               /\ Head(toClient).type = type

ForAnyActive(m) == active # NoStream
ForActive(m) == active # NoStream /\ m.id = active

\* settle(true)
HandleReady ==
  /\ Reply("ready")
  /\ toClient' = Tail(toClient)
  /\ port' = TRUE
  /\ ready' = "yes"
  /\ UNCHANGED <<final, active, cur, stream, caller, slice, toWorker, worker, decoding,
                 history>>

HandleChunk ==
  /\ Reply("chunk")
  /\ ForActive(Head(toClient))
  /\ toClient' = Tail(toClient)
  /\ fed' = [fed EXCEPT ![cur] = @ \o Head(toClient).blocks]
  /\ UNCHANGED <<final, shared, cur, stream, caller, slice, toWorker, worker, decoding,
                 pushes, given>>

\* onChunk throws: the stream is cancelled on the worker and fails.
HandleChunkThrow ==
  /\ Reply("chunk")
  /\ ForActive(Head(toClient))
  /\ toClient' = Tail(toClient)
  /\ Post(<<[type |-> "cancel", id |-> cur]>>)
  /\ Fail
  /\ UNCHANGED <<final, ready, port, cur, started, local, seq, inFlight, slice, worker,
                 decoding, history>>

\* The slice is acknowledged, and a waiting push looks at the window again:
\* the final push leaves no stream active when it returns.
HandleConsumed ==
  /\ Reply("consumed")
  /\ ForActive(Head(toClient))
  /\ toClient' = Tail(toClient)
  /\ inFlight' = inFlight - 1
  /\ caller' = IF caller = "waiting" THEN AfterPush(inFlight - 1, final) ELSE caller
  /\ active' = IF caller' = "done" THEN NoStream ELSE active
  /\ UNCHANGED <<ready, port, cur, started, local, seq, failure, slice, final,
                 toWorker, worker, decoding, history>>

HandleDecodeError ==
  /\ Reply("error")
  /\ ForActive(Head(toClient))
  /\ toClient' = Tail(toClient)
  /\ Fail
  /\ UNCHANGED <<final, ready, port, cur, started, local, seq, inFlight, slice,
                 toWorker, worker, decoding, history>>

\* Replies of a stream that is not active any more are dropped.
HandleStale ==
  /\ ThreadFree
  /\ toClient # <<>>
  /\ Head(toClient).type # "ready" /\ ~ForActive(Head(toClient))
  /\ toClient' = Tail(toClient)
  /\ UNCHANGED <<final, shared, cur, stream, caller, slice, toWorker, worker,
                 decoding, history>>

\* onerror: before `ready` the worker failed to load, after it it crashed,
\* which also fails the active stream.
HandleWorkerError ==
  /\ ThreadFree
  /\ worker = "crashed"
  /\ worker' = "gone"
  /\ GiveUp
  /\ IF ready = "yes" /\ active # NoStream
       THEN Fail
       ELSE UNCHANGED <<failure, active, caller>>
  /\ UNCHANGED <<cur, started, local, seq, inFlight, slice, final, decoding, history>>

-----------------------------------------------------------------------------
(* The decompress worker.                                                   *)

WorkerLoad ==
  /\ worker = "loading"
  /\ worker' = "up"
  /\ toClient' = <<[type |-> "ready"]>>
  /\ UNCHANGED <<shared, cur, stream, caller, slice, final, toWorker, decoding, history>>

\* The script does not load, or an error outside the decoder's try.
WorkerCrash ==
  /\ worker \in {"loading", "up"}
  /\ worker' = "crashed"
  /\ UNCHANGED <<shared, cur, stream, caller, slice, final, toWorker, toClient,
                 decoding, history>>

Receive(type) == /\ worker = "up" /\ work = NoSlice
                 /\ toWorker # <<>>
                 /\ Head(toWorker).type = type
                 /\ toWorker' = Tail(toWorker)

ForDecoderEvenReset(m) == m.id = streamId
ForDecoder(m) == m.id = streamId /\ decoder

WorkerStart ==
  /\ Receive("start")
  /\ streamId' = Head(toWorker).id
  /\ decoder' = TRUE
  /\ batch' = <<>>
  /\ UNCHANGED <<shared, cur, stream, caller, slice, final, toClient, worker,
                 work, history>>

WorkerCancel ==
  /\ Receive("cancel")
  /\ ForDecoder(Head(toWorker))
  /\ decoder' = FALSE
  /\ batch' = <<>>
  /\ UNCHANGED <<shared, cur, stream, caller, slice, final, toClient, worker,
                 streamId, work, history>>

WorkerAccept ==
  /\ Receive("data")
  /\ ForDecoder(Head(toWorker))
  /\ work' = Head(toWorker).slice
  /\ UNCHANGED <<shared, cur, stream, caller, slice, final, toClient, worker,
                 streamId, decoder, batch, history>>

\* A message for a stream already cancelled, failed or replaced is dropped.
WorkerDrop ==
  /\ Receive("data") \/ Receive("cancel")
  /\ ~ForDecoder(Head(toWorker))
  /\ UNCHANGED <<shared, cur, stream, caller, slice, final, toClient, worker,
                 decoding, history>>

Chunk(blocks) == [type |-> "chunk", id |-> streamId, blocks |-> blocks,
                  slice |-> work.seq]

\* collect: a full batch is posted at once.
WorkerCollect ==
  /\ worker = "up" /\ work # NoSlice
  /\ work.n > 0
  /\ work' = [work EXCEPT !.lo = @ + 1, !.n = @ - 1]
  /\ LET filled == Append(batch, work.lo) IN
       IF Len(filled) = BatchBlocks
         THEN /\ toClient' = Append(toClient, Chunk(filled))
              /\ batch' = <<>>
         ELSE /\ batch' = filled
              /\ UNCHANGED toClient
  /\ UNCHANGED <<shared, cur, stream, caller, slice, final, toWorker, worker,
                 streamId, decoder, history>>

\* decoder.push returned: flush, acknowledge, and reset after the final slice.
WorkerFinish ==
  /\ worker = "up" /\ work # NoSlice
  /\ work.n = 0 /\ ~work.bad
  /\ toClient' = toClient
       \o (IF batch = <<>> THEN <<>> ELSE <<Chunk(batch)>>)
       \o <<[type |-> "consumed", id |-> streamId, slice |-> work.seq]>>
  /\ batch' = <<>>
  /\ decoder' = ~work.final
  /\ work' = NoSlice
  /\ UNCHANGED <<shared, cur, stream, caller, slice, final, toWorker, worker,
                 streamId, history>>

\* decoder.push threw: the blocks still in the batch are lost.
WorkerThrow ==
  /\ worker = "up" /\ work # NoSlice
  /\ work.n = 0 /\ work.bad
  /\ toClient' = Append(toClient, [type |-> "error", id |-> streamId, slice |-> work.seq])
  /\ batch' = <<>>
  /\ decoder' = FALSE
  /\ work' = NoSlice
  /\ UNCHANGED <<shared, cur, stream, caller, slice, final, toWorker, worker,
                 streamId, history>>

-----------------------------------------------------------------------------
Push(s) == PushFirst(s) \/ PushToWorker(s) \/ PushLocal(s)

PushSlice == \E n \in 0..MaxBlocks, last \in BOOLEAN, bad \in BOOLEAN :
               Push([id |-> cur, seq |-> seq, lo |-> given[cur] + 1, n |-> n,
                     final |-> last, bad |-> bad])

Begin == BeginOnWorker \/ BeginLocal
Local == LocalFeed \/ LocalReturn \/ LocalThrow
HandleReply == \/ HandleReady \/ HandleChunk \/ HandleChunkThrow
               \/ HandleConsumed \/ HandleDecodeError \/ HandleStale
Worker == \/ WorkerStart \/ WorkerCancel \/ WorkerAccept \/ WorkerDrop
          \/ WorkerCollect \/ WorkerFinish \/ WorkerThrow

Next == \/ OpenStream \/ PushSlice \/ PushThrows \/ Cancel
        \/ Begin \/ Local
        \/ HandleReply \/ HandleWorkerError
        \/ WorkerLoad \/ WorkerCrash \/ Worker

Spec == Init /\ [][Next]_vars

\* The two event loops run what is queued on them, and a worker being loaded
\* loads or reports an error.  Nothing makes the caller push, nor a worker crash.
Fairness == /\ WF_vars(Begin) /\ WF_vars(Local)
            /\ WF_vars(HandleReply) /\ WF_vars(HandleWorkerError)
            /\ WF_vars(WorkerLoad) /\ WF_vars(Worker)

FairSpec == Spec /\ Fairness

-----------------------------------------------------------------------------
(* Properties.                                                              *)

TypeOK ==
  /\ ready \in {"none", "pending", "yes", "no"}
  /\ port \in BOOLEAN
  /\ active \in Streams \cup {NoStream}
  /\ cur \in Streams \cup {NoStream}
  /\ started \in BOOLEAN /\ local \in BOOLEAN /\ failure \in BOOLEAN
  /\ seq \in Nat /\ inFlight \in 0..MaxInFlight
  /\ caller \in {"idle", "reading", "begin", "waiting", "local", "done", "failed"}
  /\ slice \in Slices \cup {NoSlice} /\ final \in BOOLEAN
  /\ toWorker \in Seq(Requests) /\ toClient \in Seq(Replies)
  /\ worker \in {"off", "loading", "up", "crashed", "gone"}
  /\ streamId \in Streams \cup {NoStream} /\ decoder \in BOOLEAN
  /\ batch \in Seq(Nat) /\ work \in Slices \cup {NoSlice}
  /\ pushes \in Nat
  /\ given \in [Streams -> Nat]
  /\ fed \in [Streams -> Seq(Nat)]

\* The slices whose decoded output is queued on the parse worker.
QueuedSlices(ids) ==
  {<<toClient[i].id, toClient[i].slice>> :
     i \in {j \in DOMAIN toClient : toClient[j].type = "chunk" /\ toClient[j].id \in ids}}

\* At most MaxInFlight slices of the active stream have output queued, however
\* fast the decompress worker is.
WindowBound == active # NoStream => Cardinality(QueuedSlices({active})) <= MaxInFlight

\* The same for all streams together: a parse that ends at its first failure,
\* as those of this program do, never queues the output of two streams.
TotalWindowBound == Cardinality(QueuedSlices(Streams)) <= MaxInFlight

\* A stream's error is the last message it gets.
ErrorIsLast ==
  \A i, j \in DOMAIN toClient :
    /\ toClient[i].type = "error"
    /\ i < j
    /\ toClient[j].type # "ready"
    => toClient[j].id # toClient[i].id

\* The worker-backed decoder is a StreamDecoder, whatever fails on the way.
DecoderStatus == CASE failure \/ caller = "failed" -> "failed"
                   [] ~failure /\ caller \in {"begin", "waiting", "local"} -> "pushing"
                   [] OTHER -> caller
Decoder == INSTANCE StreamDecoder WITH last <- final, status <- DecoderStatus

ImplementsStreamDecoder == Decoder!Spec

\* Every push settles: streamFile never waits for a worker that failed to
\* load, crashed, dropped the stream or lost an acknowledgement.
PushSettles == (caller \in {"begin", "waiting", "local"})
                 ~> (caller \in {"reading", "done", "failed"})
=============================================================================
