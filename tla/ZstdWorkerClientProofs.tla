----------------------- MODULE ZstdWorkerClientProofs -----------------------
(***************************************************************************)
(* ZstdWorkerClient, for every number of streams, slices and blocks and    *)
(* every batch and window size: type correctness, the window, the error at *)
(* the end of a stream, and the decoder the streams implement together.    *)
(*                                                                         *)
(* WindowBound is not inductive: nothing in it says that an acknowledged   *)
(* slice has no output left to come.  IInv numbers the slices: those of    *)
(* the latest stream, cur, that the worker has not acknowledged are        *)
(* Acked .. seq-1, inFlight of them, and all that is queued for the stream *)
(* belongs to one of those, in slice order from the worker's queue through *)
(* its decoder to the client's queue.                                      *)
(*                                                                         *)
(* ErrorIsLast adds that streams start on the worker in the order they     *)
(* were opened and lose their decoder when they fail; the refinement adds  *)
(* where each block of a stream is between push and onChunk.               *)
(***************************************************************************)
EXTENDS ZstdWorkerClient, FiniteSetTheorems, SequenceTheorems, WellFoundedInduction,
        TLAPS

\* The slices the client has been told were consumed are 0 .. Acked-1.
Acked == seq - inFlight

\* Nothing of stream cur was sent yet.
Fresh == ~started \/ local \/ caller = "begin"

\* Replies, requests and work of stream cur.
Output(i) == toClient[i].type # "ready" /\ toClient[i].id = cur
Input(i) == toWorker[i].type = "data" /\ toWorker[i].id = cur
InWork == work # NoSlice /\ streamId = cur

Booleans ==
  /\ port \in BOOLEAN /\ started \in BOOLEAN /\ local \in BOOLEAN
  /\ failure \in BOOLEAN /\ final \in BOOLEAN /\ decoder \in BOOLEAN
ClientTypes ==
  /\ ready \in {"none", "pending", "yes", "no"}
  /\ active \in Streams \cup {NoStream}
  /\ cur \in Streams \cup {NoStream}
  /\ seq \in Nat /\ inFlight \in 0..MaxInFlight
CallerTypes ==
  /\ caller \in {"idle", "reading", "begin", "waiting", "local", "done", "failed"}
  /\ slice \in Slices \cup {NoSlice}
QueueTypes == toWorker \in Seq(Requests) /\ toClient \in Seq(Replies)
WorkerTypes ==
  /\ worker \in {"off", "loading", "up", "crashed", "gone"}
  /\ streamId \in Streams \cup {NoStream}
  /\ batch \in Seq(Nat) /\ work \in Slices \cup {NoSlice}
  /\ work # NoSlice => streamId \in Streams
HistoryTypes ==
  /\ pushes \in Nat
  /\ given \in [Streams -> Nat]
  /\ fed \in [Streams -> Seq(Nat)]

TypeInv == /\ Booleans /\ ClientTypes /\ CallerTypes
           /\ QueueTypes /\ WorkerTypes /\ HistoryTypes

\* What the client and its caller agree on.
ClientInv ==
  /\ active # NoStream => /\ active = cur /\ port /\ ready = "yes"
                          /\ started /\ ~local /\ ~failure
                          /\ caller \in {"reading", "waiting"}
  /\ caller \in {"reading", "waiting"} /\ started /\ ~local /\ ~failure => active = cur
  /\ caller # "idle" => cur # NoStream
  /\ ~started => ~local /\ ~failure
  /\ caller = "begin" => /\ started /\ ~local /\ ~failure
                         /\ slice # NoSlice /\ slice.seq = seq
  /\ caller = "local" => slice # NoSlice /\ local
  /\ ~started \/ caller = "begin" => seq = 0 /\ inFlight = 0
  /\ caller = "reading" /\ active # NoStream => inFlight < MaxInFlight

\* Stream k was opened, and something of it was sent.
Past(k) == k <= cur /\ (Fresh => k # cur)

IdInv ==
  /\ \A i \in 1..Len(toClient) : toClient[i].type # "ready" => Past(toClient[i].id)
  /\ \A i \in 1..Len(toWorker) : Past(toWorker[i].id)
  /\ streamId # NoStream => Past(streamId)

\* Everything queued of stream cur is of a slice not acknowledged yet.  (Once the
\* stream failed, no acknowledgement is counted any more.)
Unacked ==
  /\ \A i \in 1..Len(toClient) : Output(i) => toClient[i].slice \in Acked .. seq-1
  /\ InWork => work.seq \in Acked .. seq-1
  /\ \A i \in 1..Len(toWorker) : Input(i) => toWorker[i].slice.seq \in Acked .. seq-1

\* What comes after an acknowledgement is of a later slice.
Ordered ==
  /\ \A i \in 1..Len(toClient) : Output(i) /\ toClient[i].type = "consumed" =>
       /\ \A j \in i+1 .. Len(toClient) : Output(j) => toClient[i].slice < toClient[j].slice
       /\ InWork => toClient[i].slice < work.seq
       /\ \A j \in 1..Len(toWorker) : Input(j) => toClient[i].slice < toWorker[j].slice.seq
  /\ InWork => \A j \in 1..Len(toWorker) : Input(j) => work.seq < toWorker[j].slice.seq
  /\ \A i \in 1..Len(toWorker) : Input(i) =>
       \A j \in i+1 .. Len(toWorker) :
         Input(j) => toWorker[i].slice.seq < toWorker[j].slice.seq

WindowInv == Unacked /\ Ordered

IInv == TypeInv /\ ClientInv /\ IdInv /\ WindowInv

-----------------------------------------------------------------------------
USE BoundsAssumption, BatchAssumption, WindowAssumption, NoSliceAssumption
  DEF BoundsAssumption, BatchAssumption, WindowAssumption, NoSliceAssumption

LEMMA StreamsFacts == /\ \A k \in Streams : k \in Nat /\ k < MaxStreams
                      /\ \A k \in Nat : k < MaxStreams => k \in Streams
                      /\ NoStream = -1 /\ NoStream \notin Streams
  BY DEF Streams, NoStream

\* What a slice and a message hold.
LEMMA SliceFacts ==
  ASSUME NEW s \in Slices
  PROVE  /\ s.id \in Streams /\ s.seq \in Nat /\ s.lo \in Nat /\ s.n \in Nat
         /\ s.final \in BOOLEAN
<1>1. s.id \in Streams /\ s.seq \in Nat /\ s.lo \in Nat /\ s.n \in Nat
  BY DEF Slices
<1>2. s.final \in BOOLEAN
  BY DEF Slices
<1> QED
  BY <1>1, <1>2

\* One block of a slice decoded.
LEMMA SliceRest ==
  ASSUME NEW s \in Slices, s.n > 0
  PROVE  LET t == [s EXCEPT !.lo = @ + 1, !.n = @ - 1] IN
           /\ t \in Slices
           /\ t.seq = s.seq /\ t.final = s.final /\ t.bad = s.bad
           /\ t.lo = s.lo + 1 /\ t.n = s.n - 1
<1> DEFINE lo == s.lo + 1
           n == s.n - 1
           t == [s EXCEPT !.lo = lo, !.n = n]
           Counts == 0..MaxBlocks
<1>1. /\ lo \in Nat /\ n \in Counts
      /\ s \in [id : Streams, seq : Nat, lo : Nat, n : Counts,
                final : BOOLEAN, bad : BOOLEAN]
      /\ t = [s EXCEPT !.lo = lo, !.n = n]
  BY DEF Slices
<1> HIDE DEF lo, n, Counts, t
<1>2. t = [id |-> s.id, seq |-> s.seq, lo |-> lo, n |-> n,
           final |-> s.final, bad |-> s.bad]
  BY <1>1
<1>3. /\ t \in [id : Streams, seq : Nat, lo : Nat, n : Counts,
                final : BOOLEAN, bad : BOOLEAN]
      /\ t.seq = s.seq /\ t.final = s.final /\ t.bad = s.bad /\ t.lo = lo /\ t.n = n
  BY <1>1, <1>2
<1> QED
  BY <1>3 DEF Slices, lo, n, Counts, t

LEMMA RequestFacts ==
  ASSUME NEW m \in Requests
  PROVE  m.id \in Streams /\ (m.type = "data" => m.slice \in Slices)
  BY DEF Requests

\* What the client posts.
LEMMA CancelRequest ==
  ASSUME NEW k \in Streams
  PROVE  <<[type |-> "cancel", id |-> k]>> \in Seq(Requests)
<1> DEFINE cancel == [type |-> "cancel", id |-> k]
<1>1. cancel \in Requests
  BY DEF Requests
<1> HIDE DEF cancel
<1>2. <<cancel>> \in Seq(Requests)
  BY <1>1
<1> QED
  BY <1>2 DEF cancel

LEMMA DataRequests ==
  ASSUME NEW k \in Streams, NEW s \in Slices
  PROVE  /\ <<>> \o <<[type |-> "data", id |-> k, slice |-> s]>> \in Seq(Requests)
         /\ <<[type |-> "start", id |-> k]>>
              \o <<[type |-> "data", id |-> k, slice |-> s]>> \in Seq(Requests)
<1> DEFINE start == [type |-> "start", id |-> k]
           data == [type |-> "data", id |-> k, slice |-> s]
<1>1. start \in Requests /\ data \in Requests
  BY DEF Requests
<1> HIDE DEF start, data
<1>2. /\ <<>> \o <<data>> \in Seq(Requests)
      /\ <<start>> \o <<data>> \in Seq(Requests)
  BY <1>1
<1> QED
  BY <1>2 DEF start, data

LEMMA ReplyFacts ==
  ASSUME NEW m \in Replies
  PROVE  /\ m.type # "ready" => m.id \in Streams /\ m.slice \in Nat
         /\ m.type = "chunk" => m.blocks \in Seq(Nat)
  BY DEF Replies

\* What the worker posts.
LEMMA PostedReplies ==
  ASSUME NEW k \in Streams, NEW n \in Nat
  PROVE  /\ \A b \in Seq(Nat) :
              [type |-> "chunk", id |-> k, blocks |-> b, slice |-> n] \in Replies
         /\ [type |-> "consumed", id |-> k, slice |-> n] \in Replies
         /\ [type |-> "error", id |-> k, slice |-> n] \in Replies
  BY DEF Replies

LEMMA ReadyReply == <<[type |-> "ready"]>> \in Seq(Replies)
<1> DEFINE m == [type |-> "ready"]
<1>1. m \in Replies
  BY DEF Replies
<1> HIDE DEF m
<1>2. <<m>> \in Seq(Replies)
  BY <1>1
<1> QED
  BY <1>2 DEF m

\* Posting is appending, or nothing.
LEMMA PostTypes ==
  ASSUME NEW ms \in Seq(Requests), toWorker \in Seq(Requests), Post(ms)
  PROVE  toWorker' \in Seq(Requests)
  BY DEF Post

LEMMA PushedSlice ==
  ASSUME TypeInv, ClientInv, PushSlice
  PROVE  \E s \in Slices : /\ s.id = cur /\ s.seq = seq /\ s.lo = given[cur] + 1
                            /\ Push(s)
<1>1. PICK n \in 0..MaxBlocks, last \in BOOLEAN, bad \in BOOLEAN :
        Push([id |-> cur, seq |-> seq, lo |-> given[cur] + 1, n |-> n,
              final |-> last, bad |-> bad])
  BY DEF PushSlice
<1>2. cur \in Streams
  <2>1. caller = "reading"
    BY <1>1, Zenon DEF Push, PushFirst, PushToWorker, PushLocal
  <2> QED
    BY <2>1 DEF ClientInv, TypeInv, ClientTypes
<1>3. given[cur] + 1 \in Nat
  BY <1>2 DEF TypeInv, HistoryTypes
<1> QED
  BY <1>1, <1>2, <1>3 DEF Slices, TypeInv, ClientTypes

-----------------------------------------------------------------------------
(* Which actions change what.                                               *)

USE DEF Next, vars, shared, stream, decoding, history, Push, PushSlice, Begin,
        Local, HandleReply, Worker, OpenStream, PushThrows, Cancel, BeginOnWorker,
        BeginLocal, LocalFeed, LocalReturn, LocalThrow, HandleReady, HandleChunk,
        HandleChunkThrow, HandleConsumed, HandleDecodeError, HandleStale,
        HandleWorkerError, WorkerLoad, WorkerCrash, WorkerStart, WorkerCancel,
        WorkerAccept, WorkerDrop, WorkerCollect, WorkerFinish, WorkerThrow,
        PushFirst, PushToWorker, PushLocal

LEMMA BooleansFrame ==
  ASSUME [Next]_vars, ~UNCHANGED <<port, started, local, failure, final, decoder>>
  PROVE  OpenStream \/ PushSlice \/ BeginOnWorker \/ BeginLocal \/ PushThrows \/ Cancel
         \/ HandleReady \/ HandleChunkThrow \/ HandleDecodeError \/ HandleWorkerError
         \/ Worker
  OBVIOUS

LEMMA ClientFrame ==
  ASSUME [Next]_vars, ~UNCHANGED <<ready, active, cur, seq, inFlight>>
  PROVE  OpenStream \/ PushSlice \/ BeginOnWorker \/ PushThrows \/ Cancel \/
         HandleReady \/ HandleChunkThrow \/ HandleConsumed \/ HandleDecodeError \/
         HandleWorkerError
  OBVIOUS

LEMMA CallerFrame ==
  ASSUME [Next]_vars, ~UNCHANGED <<caller, slice>>
  PROVE  OpenStream \/ PushSlice \/ Begin \/ PushThrows \/ Cancel \/ Local \/
         HandleChunkThrow \/ HandleConsumed \/ HandleDecodeError \/ HandleWorkerError
  OBVIOUS

LEMMA QueueFrame ==
  ASSUME [Next]_vars, ~UNCHANGED <<toWorker, toClient>>
  PROVE  PushSlice \/ BeginOnWorker \/ Cancel \/ HandleReply \/ HandleWorkerError \/
         WorkerLoad \/ Worker
  OBVIOUS

LEMMA DecoderFrame ==
  ASSUME [Next]_vars, ~UNCHANGED <<worker, streamId, batch, work>>
  PROVE  PushSlice \/ HandleWorkerError \/ WorkerLoad \/ WorkerCrash \/ Worker
  OBVIOUS

LEMMA HistoryFrame ==
  ASSUME [Next]_vars, ~UNCHANGED <<pushes, given, fed>>
  PROVE  OpenStream \/ PushSlice \/ LocalFeed \/ HandleChunk
  OBVIOUS

LEMMA StreamsFrame ==
  ASSUME [Next]_vars, ~UNCHANGED <<cur, started, local>>
  PROVE  OpenStream \/ PushSlice \/ BeginLocal
  OBVIOUS

LEMMA ClientInvFrame ==
  ASSUME [Next]_vars,
         ~UNCHANGED <<ready, port, active, cur, started, local, seq, inFlight, failure,
                      caller, slice>>
  PROVE  OpenStream \/ PushSlice \/ Begin \/ PushThrows \/ Cancel \/ Local \/
         HandleReady \/ HandleChunkThrow \/ HandleConsumed \/ HandleDecodeError \/
         HandleWorkerError
  OBVIOUS

HIDE DEF Next, vars, shared, stream, decoding, history, Push, PushSlice, Begin,
        Local, HandleReply, Worker, OpenStream, PushThrows, Cancel, BeginOnWorker,
        BeginLocal, LocalFeed, LocalReturn, LocalThrow, HandleReady, HandleChunk,
        HandleChunkThrow, HandleConsumed, HandleDecodeError, HandleStale,
        HandleWorkerError, WorkerLoad, WorkerCrash, WorkerStart, WorkerCancel,
        WorkerAccept, WorkerDrop, WorkerCollect, WorkerFinish, WorkerThrow,
        PushFirst, PushToWorker, PushLocal

-----------------------------------------------------------------------------
(* Types.                                                                   *)

LEMMA InitTypes == Init => TypeInv
<1> SUFFICES ASSUME Init PROVE TypeInv
  OBVIOUS
<1> USE DEF Init
<1>1. Booleans
  BY DEF Booleans
<1>2. ClientTypes
  BY DEF ClientTypes
<1>3. CallerTypes
  BY DEF CallerTypes
<1>4. QueueTypes
  BY DEF QueueTypes
<1>5. WorkerTypes
  BY DEF WorkerTypes
<1>6. HistoryTypes
  BY DEF HistoryTypes
<1> QED
  BY <1>1, <1>2, <1>3, <1>4, <1>5, <1>6 DEF TypeInv

LEMMA BooleansStep ==
  ASSUME TypeInv, ClientInv, [Next]_vars
  PROVE  Booleans'
<1> USE DEF TypeInv, Booleans
<1>1. CASE UNCHANGED <<port, started, local, failure, final, decoder>>
  BY <1>1
<1>2. CASE PushSlice
  <2>1. PICK s \in Slices : Push(s)
    BY <1>2, PushedSlice
  <2>2. s.final \in BOOLEAN
    BY SliceFacts
  <2>3. final' = s.final
    BY <2>1, Zenon DEF Push, PushFirst, PushToWorker, PushLocal, NextSlice
  <2>4. /\ UNCHANGED <<port, local, failure, decoder>>
        /\ started' \in {TRUE, started}
    BY <2>1 DEF Push, PushFirst, PushToWorker, PushLocal, shared, stream, decoding
  <2> QED
    BY <2>2, <2>3, <2>4
<1>3. CASE OpenStream \/ BeginOnWorker \/ BeginLocal \/ PushThrows \/ Cancel
  BY <1>3 DEF OpenStream, BeginOnWorker, BeginLocal, PushThrows, Cancel, shared, decoding
<1>4. CASE HandleReady \/ HandleChunkThrow \/ HandleDecodeError \/ HandleWorkerError
  BY <1>4 DEF HandleReady, HandleChunkThrow, HandleDecodeError, HandleWorkerError,
              Fail, GiveUp, stream, decoding
<1>5. CASE Worker
  <2>1. CASE WorkerFinish
    <3>1. work \in Slices
      BY <2>1 DEF WorkerFinish, WorkerTypes
    <3>2. work.final \in BOOLEAN
      BY <3>1, SliceFacts
    <3> QED
      BY <2>1, <3>2, Zenon DEF WorkerFinish, shared, stream
  <2>2. CASE WorkerStart \/ WorkerCancel \/ WorkerAccept \/ WorkerDrop
    BY <2>2, Zenon DEF WorkerStart, WorkerCancel, WorkerAccept, WorkerDrop, shared, stream,
                       decoding
  <2>3. CASE WorkerCollect \/ WorkerThrow
    BY <2>3, Zenon DEF WorkerCollect, WorkerThrow, shared, stream
  <2> QED
    <3> HIDE DEF TypeInv, Booleans
    <3> QED
      BY <1>5, <2>1, <2>2, <2>3 DEF Worker
<1> QED
  BY <1>1, <1>2, <1>3, <1>4, <1>5, BooleansFrame

LEMMA CallerTypesStep ==
  ASSUME TypeInv, ClientInv, [Next]_vars
  PROVE  CallerTypes'
<1> USE DEF TypeInv, CallerTypes
<1>1. CASE UNCHANGED <<caller, slice>>
  BY <1>1
<1>2. CASE PushSlice
  <2>1. PICK s \in Slices : Push(s)
    BY <1>2, PushedSlice
  <2> QED
    BY <2>1 DEF Push, PushFirst, PushToWorker, PushLocal, Send, AfterPush
<1>3. CASE OpenStream \/ Begin \/ PushThrows \/ Cancel
  BY <1>3 DEF OpenStream, Begin, BeginOnWorker, BeginLocal, PushThrows, Cancel, Send,
              AfterPush
<1>4. CASE Local
  <2>1. CASE LocalFeed
    BY <2>1, SliceRest DEF LocalFeed, ClientInv
  <2> QED
    BY <1>4, <2>1 DEF Local, LocalReturn, LocalThrow
<1>5. CASE HandleChunkThrow \/ HandleConsumed \/ HandleDecodeError \/ HandleWorkerError
  BY <1>5 DEF HandleChunkThrow, HandleConsumed, HandleDecodeError, HandleWorkerError,
              Fail, AfterPush
<1> QED
  BY <1>1, <1>2, <1>3, <1>4, <1>5, CallerFrame

\* Appending two elements one by one.
LEMMA TwoMore ==
  ASSUME NEW S, NEW q \in Seq(S), NEW m \in S, NEW p \in S
  PROVE  q \o <<m>> \o <<p>> = q \o <<m, p>>
<1> DEFINE l == q \o <<m>> \o <<p>>
           r == q \o <<m, p>>
<1>1. l \in Seq(S) /\ r \in Seq(S)
  OBVIOUS
<1>2. Len(l) = Len(q) + 2 /\ Len(r) = Len(q) + 2
  OBVIOUS
<1>3. ASSUME NEW i \in 1..Len(q) + 2 PROVE l[i] = r[i]
  OBVIOUS
<1> HIDE DEF l, r
<1>4. Len(l) = Len(r) /\ \A i \in 1..Len(l) : l[i] = r[i]
  BY <1>2, <1>3
<1>5. l = r
  BY <1>1, <1>4, SeqEqual
<1> QED
  BY <1>5 DEF l, r

\* What the worker posts while it decodes a slice.
Posted(q) ==
  \A i \in 1..Len(q) : /\ q[i].type # "ready" /\ q[i].id = streamId
                       /\ q[i].slice = work.seq
                       /\ q[i].type = "consumed" => i = Len(q) /\ work' = NoSlice
                       /\ q[i].type = "error" => i = Len(q) /\ work' = NoSlice /\ ~decoder'

LEMMA WorkerPosts ==
  ASSUME TypeInv, WorkerCollect \/ WorkerFinish \/ WorkerThrow
  PROVE  \E q \in Seq(Replies) : toClient' = toClient \o q /\ Posted(q)
<1> USE DEF TypeInv, QueueTypes, WorkerTypes
<1>1. work \in Slices /\ streamId \in Streams /\ work.seq \in Nat /\ work.lo \in Nat
  BY SliceFacts DEF WorkerCollect, WorkerFinish, WorkerThrow
<1>2. ASSUME NEW b \in Seq(Nat)
      PROVE  /\ Chunk(b) \in Replies /\ Chunk(b).type = "chunk"
             /\ Chunk(b).id = streamId /\ Chunk(b).slice = work.seq
  BY <1>1, PostedReplies DEF Chunk
<1>3. /\ <<>> \in Seq(Replies) /\ Posted(<<>>)
      /\ toClient = toClient \o <<>>
  BY DEF Posted
<1>4. ASSUME NEW m \in Replies, m.id = streamId, m.slice = work.seq,
             m.type = "chunk" \/ (m.type = "error" /\ work' = NoSlice /\ ~decoder')
      PROVE  <<m>> \in Seq(Replies) /\ Posted(<<m>>) /\ Append(toClient, m) = toClient \o <<m>>
  <2>1. <<m>> \in Seq(Replies) /\ Append(toClient, m) = toClient \o <<m>>
    OBVIOUS
  <2>2. Posted(<<m>>)
    BY <1>4, <2>1 DEF Posted
  <2> QED
    BY <2>1, <2>2
<1>5. CASE WorkerCollect
  <2> DEFINE filled == Append(batch, work.lo)
  <2>1. filled \in Seq(Nat)
    BY <1>1
  <2> HIDE DEF filled
  <2>2. Chunk(filled) \in Replies /\ <<Chunk(filled)>> \in Seq(Replies) /\ Posted(<<Chunk(filled)>>)
        /\ Append(toClient, Chunk(filled)) = toClient \o <<Chunk(filled)>>
    BY <1>2, <1>4, <2>1
  <2>3. toClient' \in {toClient, Append(toClient, Chunk(filled))}
    BY <1>5 DEF WorkerCollect, filled
  <2> QED
    BY <1>3, <2>2, <2>3
<1>6. CASE WorkerThrow
  <2> DEFINE m == [type |-> "error", id |-> streamId, slice |-> work.seq]
  <2>1. /\ m \in Replies /\ m.type = "error" /\ m.id = streamId /\ m.slice = work.seq
        /\ toClient' = Append(toClient, m) /\ work' = NoSlice /\ ~decoder'
    BY <1>1, <1>6, PostedReplies DEF WorkerThrow
  <2> HIDE DEF m
  <2> QED
    BY <1>4, <2>1
<1>7. CASE WorkerFinish
  <2> DEFINE m == Chunk(batch)
             p == [type |-> "consumed", id |-> streamId, slice |-> work.seq]
  <2>1. m \in Replies /\ m.type = "chunk" /\ m.id = streamId /\ m.slice = work.seq
    BY <1>2
  <2>2. /\ p \in Replies /\ p.type = "consumed" /\ p.id = streamId /\ p.slice = work.seq
        /\ work' = NoSlice
        /\ toClient' = toClient \o (IF batch = <<>> THEN <<>> ELSE <<m>>) \o <<p>>
    BY <1>1, <1>7, PostedReplies DEF WorkerFinish
  <2> HIDE DEF m, p
  <2>3. CASE batch = <<>>
    <3>1. <<p>> \in Seq(Replies) /\ toClient' = toClient \o <<p>>
      BY <2>2, <2>3
    <3>2. Posted(<<p>>)
      BY <2>2 DEF Posted
    <3> QED
      BY <3>1, <3>2
  <2>4. CASE batch # <<>>
    <3>1. <<m, p>> \in Seq(Replies)
      BY <2>1, <2>2
    <3>2. toClient' = toClient \o <<m>> \o <<p>>
      BY <2>2, <2>4
    <3>3. toClient' = toClient \o <<m, p>>
      <4>1. toClient \in Seq(Replies)
        OBVIOUS
      <4>2. m \in Replies /\ p \in Replies
        BY <2>1, <2>2
      <4> HIDE DEF TypeInv, QueueTypes, WorkerTypes
      <4>3. toClient \o <<m>> \o <<p>> = toClient \o <<m, p>>
        BY <4>1, <4>2, TwoMore
      <4> QED
        BY <3>2, <4>3, Zenon
    <3>4. Posted(<<m, p>>)
      BY <2>1, <2>2 DEF Posted
    <3> QED
      BY <3>1, <3>3, <3>4
  <2> QED
    BY <2>3, <2>4
<1> QED
  BY <1>5, <1>6, <1>7

LEMMA QueueTypesStep ==
  ASSUME TypeInv, ClientInv, [Next]_vars
  PROVE  QueueTypes'
<1> USE DEF TypeInv, QueueTypes
<1>0. /\ active \in Streams => active = cur
      /\ caller # "idle" => cur \in Streams
  BY StreamsFacts DEF ClientInv, ClientTypes
<1>1. CASE UNCHANGED <<toWorker, toClient>>
  BY <1>1
<1>2. CASE PushSlice
  <2>1. PICK s \in Slices : s.id = cur /\ Push(s)
    BY <1>2, PushedSlice
  <2>2. CASE PushToWorker(s)
    BY <2>1, <2>2, SliceFacts, DataRequests, PostTypes DEF PushToWorker, Send
  <2> QED
    BY <2>1, <2>2 DEF Push, PushFirst, PushLocal
<1>3. CASE BeginOnWorker
  <2>1. cur \in Streams /\ slice \in Slices
    BY <1>3, <1>0 DEF BeginOnWorker, ClientInv, CallerTypes
  <2> QED
    BY <1>3, <2>1, DataRequests, PostTypes DEF BeginOnWorker, Send
<1>4. CASE Cancel
  <2>1. cur \in Streams
    BY <1>4, <1>0 DEF Cancel
  <2>2. <<[type |-> "cancel", id |-> cur]>> \in Seq(Requests)
    BY <2>1, CancelRequest
  <2> QED
    BY <1>4, <2>2, PostTypes DEF Cancel
<1>5. CASE HandleReply
  <2>0. toClient' \in Seq(Replies)
    <3>1. toClient # <<>> /\ toClient' = Tail(toClient)
      BY <1>5 DEF HandleReply, HandleReady, HandleChunk, HandleChunkThrow, HandleConsumed,
                  HandleDecodeError, HandleStale, Reply
    <3> QED
      BY <3>1
  <2>1. CASE HandleChunkThrow
    <3>1. cur \in Streams
      BY <2>1, <1>0 DEF HandleChunkThrow, ForActive, ClientTypes
    <3>2. <<[type |-> "cancel", id |-> cur]>> \in Seq(Requests)
      BY <3>1, CancelRequest
    <3> QED
      BY <2>0, <2>1, <3>2, PostTypes DEF HandleChunkThrow
  <2> QED
    BY <1>5, <2>0, <2>1 DEF HandleReply, HandleReady, HandleChunk, HandleConsumed,
                            HandleDecodeError, HandleStale
<1>6. CASE HandleWorkerError \/ WorkerLoad
  <2>1. CASE HandleWorkerError
    BY <2>1 DEF HandleWorkerError, GiveUp
  <2>2. CASE WorkerLoad
    <3> DEFINE posted == <<[type |-> "ready"]>>
    <3>1. posted \in Seq(Replies)
      BY ReadyReply
    <3>2. toClient' = posted /\ UNCHANGED toWorker
      BY <2>2 DEF WorkerLoad
    <3> HIDE DEF posted
    <3> QED
      BY <3>1, <3>2
  <2> QED
    BY <1>6, <2>1, <2>2
<1>7. CASE Worker
  <2>1. CASE WorkerStart \/ WorkerCancel \/ WorkerAccept \/ WorkerDrop
    BY <2>1, SMTT(40) DEF WorkerStart, WorkerCancel, WorkerAccept, WorkerDrop, Receive
  <2>2. CASE WorkerCollect \/ WorkerFinish \/ WorkerThrow
    <3>1. PICK q \in Seq(Replies) : toClient' = toClient \o q
      BY <2>2, WorkerPosts
    <3>2. UNCHANGED toWorker
      BY <2>2 DEF WorkerCollect, WorkerFinish, WorkerThrow
    <3> QED
      BY <3>1, <3>2
  <2> QED
    BY <1>7, <2>1, <2>2 DEF Worker
<1> QED
  BY <1>1, <1>2, <1>3, <1>4, <1>5, <1>6, <1>7, QueueFrame

LEMMA WorkerTypesStep ==
  ASSUME TypeInv, ClientInv, [Next]_vars
  PROVE  WorkerTypes'
<1> USE DEF TypeInv, WorkerTypes
<1>1. CASE UNCHANGED <<worker, streamId, batch, work>>
  BY <1>1
<1>2. CASE PushSlice
  <2>1. PICK s \in Slices : Push(s)
    BY <1>2, PushedSlice
  <2> QED
    BY <2>1 DEF Push, PushFirst, PushToWorker, PushLocal, decoding
<1>3. CASE HandleWorkerError \/ WorkerLoad \/ WorkerCrash
  BY <1>3 DEF HandleWorkerError, WorkerLoad, WorkerCrash, decoding
<1>4. CASE Worker
  <2>1. CASE WorkerStart \/ WorkerCancel \/ WorkerAccept \/ WorkerDrop
    <3>1. /\ Head(toWorker).id \in Streams
          /\ Head(toWorker).type = "data" => Head(toWorker).slice \in Slices
      <4>1. toWorker # <<>> /\ toWorker \in Seq(Requests)
        BY <2>1 DEF WorkerStart, WorkerCancel, WorkerAccept, WorkerDrop, Receive, QueueTypes
      <4>2. PICK m \in Requests : m = Head(toWorker)
        BY <4>1
      <4>3. m.id \in Streams /\ (m.type = "data" => m.slice \in Slices)
        BY RequestFacts
      <4> QED
        BY <4>2, <4>3
    <3>2. CASE WorkerStart
      BY <3>1, <3>2 DEF WorkerStart, Receive
    <3>3. CASE WorkerAccept
      BY <3>1, <3>3, StreamsFacts DEF WorkerAccept, Receive, ForDecoder
    <3>4. CASE WorkerCancel
      BY <3>4 DEF WorkerCancel, Receive
    <3>5. CASE WorkerDrop
      BY <3>5 DEF WorkerDrop, Receive, decoding
    <3> QED
      BY <2>1, <3>2, <3>3, <3>4, <3>5
  <2>2. CASE WorkerCollect
    <3>1. work \in Slices /\ work.lo \in Nat
      BY <2>2, SliceFacts DEF WorkerCollect
    <3>2. work' \in Slices
      BY <2>2, <3>1, SliceRest DEF WorkerCollect
    <3>3. Append(batch, work.lo) \in Seq(Nat)
      BY <3>1
    <3> DEFINE filled == Append(batch, work.lo)
    <3>4. UNCHANGED <<worker, streamId>> /\ batch' \in {<<>>, filled}
      BY <2>2, Zenon DEF WorkerCollect
    <3>5. filled \in Seq(Nat)
      BY <3>3
    <3> HIDE DEF filled
    <3>6. batch' \in Seq(Nat)
      <4>1. <<>> \in Seq(Nat)
        OBVIOUS
      <4> QED
        BY <3>4, <3>5, <4>1, Zenon
    <3> QED
      BY <2>2, <3>1, <3>2, <3>4, <3>6 DEF WorkerTypes
  <2>3. CASE WorkerFinish \/ WorkerThrow
    <3>1. batch' = <<>> /\ work' = NoSlice /\ UNCHANGED <<worker, streamId>>
      BY <2>3, Zenon DEF WorkerFinish, WorkerThrow
    <3> QED
      BY <3>1
  <2> QED
    BY <1>4, <2>1, <2>2, <2>3 DEF Worker
<1> QED
  BY <1>1, <1>2, <1>3, <1>4, DecoderFrame

LEMMA HistoryTypesStep ==
  ASSUME TypeInv, ClientInv, [Next]_vars
  PROVE  HistoryTypes'
<1> USE DEF TypeInv, HistoryTypes
<1>0. /\ active \in Streams => active = cur
      /\ caller # "idle" => cur \in Streams
  BY StreamsFacts DEF ClientInv, ClientTypes
<1>1. CASE UNCHANGED <<pushes, given, fed>>
  BY <1>1
<1>2. CASE PushSlice
  <2>1. PICK s \in Slices : Push(s)
    BY <1>2, PushedSlice
  <2>2. s.n \in Nat
    BY SliceFacts
  <2>3. NextSlice(s) /\ UNCHANGED fed
    BY <2>1 DEF Push, PushFirst, PushToWorker, PushLocal
  <2>4. given' \in [Streams -> Nat]
    BY <1>0, <2>1, <2>2, <2>3 DEF NextSlice, Push, PushFirst, PushToWorker, PushLocal
  <2> QED
    BY <2>3, <2>4 DEF NextSlice
<1>3. CASE OpenStream
  BY <1>3 DEF OpenStream
<1>4. CASE LocalFeed
  <2>1. slice \in Slices /\ slice.lo \in Nat
    BY <1>4, SliceFacts DEF LocalFeed, ClientInv, CallerTypes
  <2>2. fed' \in [Streams -> Seq(Nat)]
    BY <1>0, <1>4, <2>1 DEF LocalFeed
  <2> QED
    BY <1>4, <2>2 DEF LocalFeed
<1>5. CASE HandleChunk
  <2>0. PICK m \in Replies : m = Head(toClient) /\ m.type = "chunk"
    BY <1>5 DEF HandleChunk, Reply, QueueTypes
  <2>1. Head(toClient).blocks \in Seq(Nat)
    <3>1. m.blocks \in Seq(Nat)
      BY <2>0, ReplyFacts
    <3> QED
      BY <2>0, <3>1
  <2>2. fed' \in [Streams -> Seq(Nat)]
    BY <1>0, <1>5, <2>1 DEF HandleChunk, ForActive, ClientTypes
  <2> QED
    BY <1>5, <2>2 DEF HandleChunk
<1> QED
  BY <1>1, <1>2, <1>3, <1>4, <1>5, HistoryFrame
-----------------------------------------------------------------------------
(* The client and its caller.                                               *)

LEMMA ClientInvStep ==
  ASSUME TypeInv, ClientInv, [Next]_vars
  PROVE  ClientInv'
<1> USE StreamsFacts DEF TypeInv, ClientTypes, ClientInv
<1>1. CASE UNCHANGED <<ready, port, active, cur, started, local, seq, inFlight, failure,
                       caller, slice>>
  BY <1>1
<1>2. CASE PushSlice
  <2>1. PICK s \in Slices : s.seq = seq /\ Push(s)
    BY <1>2, PushedSlice
  <2>2. s # NoSlice
    OBVIOUS
  <2>3. CASE PushFirst(s)
    BY <2>1, <2>2, <2>3 DEF PushFirst
  <2>4. CASE PushToWorker(s)
    BY <2>4 DEF PushToWorker, Send, AfterPush, WindowOpen, shared
  <2>5. CASE PushLocal(s)
    BY <2>2, <2>5 DEF PushLocal, shared, stream
  <2> QED
    BY <2>1, <2>3, <2>4, <2>5 DEF Push
<1>3. CASE OpenStream
  BY <1>3 DEF OpenStream, shared
<1>4. CASE Begin
  <2>1. CASE BeginOnWorker
    BY <2>1 DEF BeginOnWorker, Send, AfterPush, WindowOpen
  <2>2. CASE BeginLocal
    BY <2>2 DEF BeginLocal, shared
  <2> QED
    BY <1>4, <2>1, <2>2 DEF Begin
<1>5. CASE PushThrows
  BY <1>5 DEF PushThrows
<1>6. CASE Cancel
  BY <1>6 DEF Cancel
<1>7. CASE Local
  <2>1. CASE LocalFeed
    <3>1. slice' \in Slices
      BY <2>1, SliceRest DEF LocalFeed, CallerTypes
    <3> QED
      BY <2>1, <3>1 DEF LocalFeed, shared, stream
  <2>2. CASE LocalReturn
    BY <2>2 DEF LocalReturn, shared, stream
  <2>3. CASE LocalThrow
    BY <2>3 DEF LocalThrow, shared, stream
  <2> QED
    BY <1>7, <2>1, <2>2, <2>3 DEF Local
<1>8. CASE HandleReady
  BY <1>8 DEF HandleReady, Reply, ThreadFree, stream
<1>9. CASE HandleChunkThrow \/ HandleDecodeError
  <2>1. CASE HandleChunkThrow
    BY <2>1 DEF HandleChunkThrow, ForActive, Fail
  <2>2. CASE HandleDecodeError
    BY <2>2 DEF HandleDecodeError, ForActive, Fail
  <2> QED
    BY <1>9, <2>1, <2>2
<1>10. CASE HandleConsumed
  <2> USE DEF HandleConsumed
  <2>1. active = cur /\ caller \in {"reading", "waiting"}
    BY <1>10 DEF ForActive
  <2>2. CASE caller = "reading"
    BY <1>10, <2>1, <2>2
  <2>3. CASE caller = "waiting"
    BY <1>10, <2>1, <2>3 DEF AfterPush, WindowOpen
  <2> QED
    BY <2>1, <2>2, <2>3
<1>11. CASE HandleWorkerError
  BY <1>11 DEF HandleWorkerError, Fail, GiveUp
<1> QED
  BY <1>1, <1>2, <1>3, <1>4, <1>5, <1>6, <1>7, <1>8, <1>9, <1>10, <1>11, ClientInvFrame

LEMMA ClientTypesStep ==
  ASSUME IInv, [Next]_vars
  PROVE  ClientTypes'
<1> USE StreamsFacts DEF IInv, TypeInv, ClientTypes, ClientInv
<1>1. CASE UNCHANGED <<ready, active, cur, seq, inFlight>>
  BY <1>1
<1>2. CASE PushSlice
  <2>1. PICK s \in Slices : s.seq = seq /\ Push(s)
    BY <1>2, PushedSlice
  <2>2. CASE PushFirst(s)
    BY <2>2 DEF PushFirst
  <2>3. CASE PushToWorker(s)
    BY <2>3 DEF PushToWorker, Send, shared
  <2>4. CASE PushLocal(s)
    BY <2>4 DEF PushLocal, shared, stream
  <2> QED
    BY <2>1, <2>2, <2>3, <2>4 DEF Push
<1>3. CASE OpenStream
  BY <1>3 DEF OpenStream, shared
<1>4. CASE BeginOnWorker
  BY <1>4 DEF BeginOnWorker, Send
<1>5. CASE PushThrows \/ Cancel
  BY <1>5 DEF PushThrows, Cancel
<1>6. CASE HandleReady
  BY <1>6 DEF HandleReady, stream
<1>7. CASE HandleChunkThrow \/ HandleDecodeError
  BY <1>7 DEF HandleChunkThrow, HandleDecodeError, Fail
<1>8. CASE HandleConsumed
  <2>1. toClient # <<>> /\ Output(1)
    BY <1>8 DEF HandleConsumed, Reply, ForActive, Output
  <2>2. toClient[1].slice \in Acked .. seq-1
    <3>1. 1 \in 1..Len(toClient)
      BY <2>1 DEF QueueTypes
    <3> QED
      BY <2>1, <3>1 DEF WindowInv, Unacked
  <2>3. inFlight # 0
    BY <2>2 DEF Acked
  <2> QED
    BY <1>8, <2>3 DEF HandleConsumed
<1>9. CASE HandleWorkerError
  BY <1>9 DEF HandleWorkerError, Fail, GiveUp
<1> QED
  BY <1>1, <1>2, <1>3, <1>4, <1>5, <1>6, <1>7, <1>8, <1>9, ClientFrame
-----------------------------------------------------------------------------
(* Streams are numbered in the order they are opened.                       *)

LEMMA PastStep ==
  ASSUME IInv, [Next]_vars, NEW k \in Streams, Past(k)
  PROVE  Past(k)'
<1> USE StreamsFacts DEF Past, Fresh, IInv, TypeInv, ClientTypes, ClientInv
<1>1. CASE OpenStream
  BY <1>1 DEF OpenStream
<1>2. CASE BeginLocal
  BY <1>2 DEF BeginLocal
<1>3. CASE PushSlice
  <2>1. PICK s \in Slices : Push(s)
    BY <1>3, PushedSlice
  <2>2. CASE PushFirst(s)
    BY <2>2 DEF PushFirst
  <2>3. CASE PushToWorker(s)
    BY <2>3 DEF PushToWorker, Send, AfterPush
  <2>4. CASE PushLocal(s)
    BY <2>4 DEF PushLocal, shared, stream
  <2> QED
    BY <2>1, <2>2, <2>3, <2>4 DEF Push
<1>4. CASE UNCHANGED <<cur, started, local>> /\ ~OpenStream /\ ~PushSlice /\ ~BeginLocal
  <2>1. UNCHANGED caller \/ caller' # "begin"
    <3>1. CASE Begin \/ PushThrows \/ Cancel
      BY <1>4, <3>1 DEF Begin, BeginOnWorker, PushThrows, Cancel, Send, AfterPush
    <3>2. CASE Local
      BY <3>2 DEF Local, LocalFeed, LocalReturn, LocalThrow
    <3>3. CASE HandleChunkThrow \/ HandleConsumed \/ HandleDecodeError \/ HandleWorkerError
      BY <3>3 DEF HandleChunkThrow, HandleConsumed, HandleDecodeError, HandleWorkerError,
                  Fail, AfterPush
    <3> QED
      BY <1>4, <3>1, <3>2, <3>3, CallerFrame
  <2> QED
    BY <1>4, <2>1
<1> QED
  BY <1>1, <1>2, <1>3, <1>4, StreamsFrame

LEMMA RepliesStep ==
  ASSUME IInv, [Next]_vars, NEW i \in 1..Len(toClient')
  PROVE  \/ toClient'[i].type = "ready"
         \/ work # NoSlice /\ toClient'[i].id = streamId
         \/ \E j \in 1..Len(toClient) : toClient'[i] = toClient[j]
<1> USE DEF IInv, TypeInv, QueueTypes
<1>1. CASE UNCHANGED toClient
  BY <1>1
<1>2. CASE HandleReply
  <2>1. toClient # <<>> /\ toClient' = Tail(toClient)
    BY <1>2 DEF HandleReply, HandleReady, HandleChunk, HandleChunkThrow, HandleConsumed,
                HandleDecodeError, HandleStale, Reply
  <2> QED
    BY <2>1
<1>3. CASE HandleWorkerError \/ WorkerLoad
  BY <1>3 DEF HandleWorkerError, GiveUp, WorkerLoad
<1>4. CASE WorkerCollect \/ WorkerThrow \/ WorkerFinish
  <2>1. work # NoSlice
    BY <1>4 DEF WorkerCollect, WorkerThrow, WorkerFinish
  <2>2. PICK q \in Seq(Replies) : toClient' = toClient \o q /\ Posted(q)
    BY <1>4, WorkerPosts
  <2>3. CASE i \in 1..Len(toClient)
    BY <2>2, <2>3
  <2>4. CASE i \notin 1..Len(toClient)
    <3>1. i - Len(toClient) \in 1..Len(q) /\ toClient'[i] = q[i - Len(toClient)]
      BY <2>2, <2>4
    <3> QED
      BY <2>1, <2>2, <3>1 DEF Posted
  <2> QED
    BY <2>3, <2>4
<1>5. CASE PushSlice \/ BeginOnWorker \/ Cancel
  BY <1>1, <1>5 DEF PushSlice, Push, PushFirst, PushToWorker, PushLocal, BeginOnWorker,
                    Cancel
<1>6. CASE WorkerStart \/ WorkerCancel \/ WorkerAccept \/ WorkerDrop
  BY <1>1, <1>6 DEF WorkerStart, WorkerCancel, WorkerAccept, WorkerDrop
<1> QED
  BY <1>1, <1>2, <1>3, <1>4, <1>5, <1>6, QueueFrame DEF Worker

LEMMA RequestsStep ==
  ASSUME IInv, [Next]_vars, NEW i \in 1..Len(toWorker')
  PROVE  \/ toWorker'[i].id = cur /\ cur' = cur /\ ~Fresh'
         \/ \E j \in 1..Len(toWorker) : toWorker'[i] = toWorker[j]
<1> USE DEF IInv, TypeInv, QueueTypes
<1>1. CASE UNCHANGED toWorker
  BY <1>1
<1>2. CASE Worker
  <2>1. UNCHANGED toWorker \/ (toWorker # <<>> /\ toWorker' = Tail(toWorker))
    BY <1>2 DEF Worker, WorkerStart, WorkerCancel, WorkerAccept, WorkerDrop, WorkerCollect,
                WorkerFinish, WorkerThrow, Receive
  <2> QED
    BY <2>1, SMTT(40)
<1>3. ASSUME NEW m, m.id = cur, cur' = cur, ~Fresh', Post(<<m>>)
      PROVE  toWorker'[i].id = cur \/ \E j \in 1..Len(toWorker) : toWorker'[i] = toWorker[j]
  BY <1>3 DEF Post
<1>4. CASE PushSlice
  <2>1. PICK s \in Slices : Push(s)
    BY <1>4, PushedSlice
  <2>2. CASE PushToWorker(s)
    <3> DEFINE m == [type |-> "data", id |-> cur, slice |-> s]
    <3>1. m.id = cur /\ cur' = cur
      BY <2>2 DEF PushToWorker
    <3>2. ~Fresh'
      BY <2>2 DEF PushToWorker, Fresh, Send, AfterPush
    <3>3. Post(<<>> \o <<m>>)
      BY <2>2 DEF PushToWorker, Send
    <3> HIDE DEF m
    <3>4. Post(<<m>>)
      BY <3>3 DEF Post
    <3> QED
      BY <1>3, <3>1, <3>2, <3>4
  <2> QED
    BY <1>1, <2>1, <2>2 DEF Push, PushFirst, PushLocal
<1>5. CASE BeginOnWorker
  <2> DEFINE m == [type |-> "start", id |-> cur]
             p == [type |-> "data", id |-> cur, slice |-> slice]
  <2>1. m.id = cur /\ p.id = cur /\ cur' = cur
    BY <1>5 DEF BeginOnWorker
  <2>2. ~Fresh'
    BY <1>5 DEF BeginOnWorker, Fresh, Send, AfterPush, ClientInv
  <2>3. Post(<<m>> \o <<p>>)
    BY <1>5 DEF BeginOnWorker, Send
  <2> HIDE DEF m, p
  <2> QED
    BY <2>1, <2>2, <2>3 DEF Post
<1>6. CASE Cancel \/ HandleChunkThrow
  <2> DEFINE m == [type |-> "cancel", id |-> cur]
  <2>1. m.id = cur /\ cur' = cur
    BY <1>6 DEF Cancel, HandleChunkThrow
  <2>2. UNCHANGED toWorker \/ (Post(<<m>>) /\ ~Fresh')
    BY <1>6 DEF Cancel, HandleChunkThrow, Fresh, Fail, ForActive, ClientInv
  <2> HIDE DEF m
  <2> QED
    BY <1>1, <1>3, <2>1, <2>2
<1>7. CASE HandleReply /\ ~HandleChunkThrow
  BY <1>1, <1>7 DEF HandleReply, HandleReady, HandleChunk, HandleConsumed,
                    HandleDecodeError, HandleStale
<1>8. CASE HandleWorkerError \/ WorkerLoad
  BY <1>1, <1>8 DEF HandleWorkerError, GiveUp, WorkerLoad
<1> QED
  BY <1>1, <1>2, <1>4, <1>5, <1>6, <1>7, <1>8, QueueFrame

LEMMA StreamIdStep ==
  ASSUME IInv, [Next]_vars
  PROVE  streamId' = streamId \/ (toWorker # <<>> /\ streamId' = toWorker[1].id)
<1>1. CASE Worker
  BY <1>1 DEF Worker, WorkerStart, WorkerCancel, WorkerAccept, WorkerDrop, WorkerCollect,
              WorkerFinish, WorkerThrow, Receive, decoding
<1>2. CASE PushSlice \/ HandleWorkerError \/ WorkerLoad \/ WorkerCrash
  BY <1>2 DEF PushSlice, Push, PushFirst, PushToWorker, PushLocal, HandleWorkerError,
              WorkerLoad, WorkerCrash, decoding
<1> QED
  BY <1>1, <1>2, DecoderFrame

LEMMA IdInvStep ==
  ASSUME IInv, [Next]_vars
  PROVE  IdInv'
<1>0. /\ \A i \in 1..Len(toClient) :
           toClient[i].type # "ready" => toClient[i].id \in Streams /\ Past(toClient[i].id)
      /\ \A i \in 1..Len(toWorker) : toWorker[i].id \in Streams /\ Past(toWorker[i].id)
      /\ work # NoSlice => streamId \in Streams /\ Past(streamId)
  BY RequestFacts, ReplyFacts, StreamsFacts
     DEF IInv, IdInv, TypeInv, QueueTypes, WorkerTypes
<1>1. ASSUME NEW i \in 1..Len(toClient')
      PROVE  (toClient[i].type # "ready" => Past(toClient[i].id))'
  <2>1. PICK k : k = toClient'[i].id
    OBVIOUS
  <2>2. toClient'[i].type # "ready" => k \in Streams /\ Past(k)
    BY <1>0, <2>1, RepliesStep
  <2>3. toClient'[i].type # "ready" => Past(k)'
    BY <2>2, PastStep
  <2> QED
    BY <2>1, <2>3 DEF Past, Fresh
<1>2. ASSUME NEW i \in 1..Len(toWorker')
      PROVE  Past(toWorker[i].id)'
  <2>1. CASE toWorker'[i].id = cur /\ cur' = cur /\ ~Fresh'
    BY <2>1, StreamsFacts DEF Past, IInv, TypeInv, ClientTypes
  <2>2. CASE \E j \in 1..Len(toWorker) : toWorker'[i] = toWorker[j]
    <3>1. PICK k \in Streams : k = toWorker'[i].id /\ Past(k)
      BY <1>0, <2>2
    <3>2. Past(k)'
      BY <3>1, PastStep
    <3> QED
      BY <3>1, <3>2 DEF Past, Fresh
  <2> QED
    BY <2>1, <2>2, RequestsStep
<1>3. (streamId # NoStream => Past(streamId))'
  <2>1. PICK k : k = streamId'
    OBVIOUS
  <2>2. k # NoStream => k \in Streams /\ Past(k)
    BY <1>0, <2>1, StreamIdStep, StreamsFacts DEF IInv, TypeInv, WorkerTypes, QueueTypes, IdInv
  <2>3. k # NoStream => Past(k)'
    BY <2>2, PastStep
  <2> QED
    BY <2>1, <2>3 DEF Past, Fresh
<1> QED
  BY <1>1, <1>2, <1>3 DEF IdInv
-----------------------------------------------------------------------------
(* The window.                                                              *)

\* No data request was posted, and none taken.
SameData == /\ Len(toWorker) <= Len(toWorker')
            /\ \A j \in 1..Len(toWorker) : toWorker'[j] = toWorker[j]
            /\ \A j \in 1..Len(toWorker') :
                 toWorker'[j].type = "data" => j \in 1..Len(toWorker)

LEMMA CancelPosted ==
  ASSUME TypeInv, cur \in Streams, Post(<<[type |-> "cancel", id |-> cur]>>)
  PROVE  SameData
<1> DEFINE m == [type |-> "cancel", id |-> cur]
<1>1. toWorker \in Seq(Requests) /\ m \in Requests /\ m.type = "cancel"
  BY DEF TypeInv, QueueTypes, Requests
<1> HIDE DEF m
<1>2. UNCHANGED toWorker \/ toWorker' = toWorker \o <<m>>
  BY DEF Post, m
<1> QED
  BY <1>1, <1>2 DEF SameData

LEMMA SameQueue ==
  ASSUME TypeInv, UNCHANGED toWorker
  PROVE  SameData
  BY DEF SameData, TypeInv, QueueTypes

LEMMA SameInputs ==
  ASSUME IInv, SameData, UNCHANGED cur
  PROVE  /\ \A j \in 1..Len(toWorker') :
              Input(j)' => j \in 1..Len(toWorker) /\ Input(j) /\ toWorker'[j] = toWorker[j]
         /\ \A i \in 1..Len(toWorker') : Input(i)' =>
              \A j \in i+1 .. Len(toWorker') :
                Input(j)' => toWorker'[i].slice.seq < toWorker'[j].slice.seq
<1>1. WindowInv /\ Len(toWorker) \in Nat
  BY DEF IInv, TypeInv, QueueTypes
<1>2. \A j \in 1..Len(toWorker') :
        Input(j)' => j \in 1..Len(toWorker) /\ Input(j) /\ toWorker'[j] = toWorker[j]
  BY DEF Input, SameData
<1>3. ASSUME NEW i \in 1..Len(toWorker'), Input(i)',
             NEW j \in i+1 .. Len(toWorker'), Input(j)'
      PROVE  toWorker'[i].slice.seq < toWorker'[j].slice.seq
  <2>1. /\ i \in 1..Len(toWorker) /\ Input(i) /\ toWorker'[i] = toWorker[i]
        /\ j \in 1..Len(toWorker')
    BY <1>1, <1>2, <1>3
  <2>2. j \in i+1 .. Len(toWorker) /\ Input(j) /\ toWorker'[j] = toWorker[j]
    BY <1>2, <1>3, <2>1
  <2> QED
    BY <1>1, <2>1, <2>2 DEF WindowInv, Ordered
<1> QED
  BY <1>2, <1>3

\* Only the client, or nobody, acts, and no slice moves.
LEMMA WindowKept ==
  ASSUME IInv, SameData, UNCHANGED <<cur, seq, inFlight, toClient, work, streamId>>
  PROVE  WindowInv'
<1>1. WindowInv /\ toWorker \in Seq(Requests)
  BY DEF IInv, TypeInv, QueueTypes
<1>2. /\ \A i \in 1..Len(toClient) : Output(i)' <=> Output(i)
      /\ InWork' <=> InWork
  BY DEF Output, InWork
<1>3. Unacked'
  BY <1>1, <1>2, SameInputs DEF WindowInv, Unacked, Acked
<1>4. Ordered'
  BY <1>1, <1>2, SameInputs DEF WindowInv, Ordered
<1> QED
  BY <1>3, <1>4 DEF WindowInv

\* The client takes a reply off its queue, acknowledging the slice or not.
LEMMA WindowHandled ==
  ASSUME IInv, SameData,
         toClient # <<>>, toClient' = Tail(toClient),
         UNCHANGED <<cur, seq, work, streamId>>,
         \/ UNCHANGED inFlight
         \/ inFlight' = inFlight - 1 /\ Output(1) /\ toClient[1].type = "consumed"
  PROVE  WindowInv'
<1>1. /\ Unacked /\ Ordered
      /\ seq \in Nat /\ inFlight \in Nat
      /\ toClient \in Seq(Replies) /\ toWorker \in Seq(Requests)
  BY DEF IInv, WindowInv, TypeInv, ClientTypes, QueueTypes
<1>2. /\ 1 \in 1..Len(toClient) /\ Len(toClient') = Len(toClient) - 1
      /\ Len(toClient) \in Nat
      /\ \A i \in 1..Len(toClient') : i+1 \in 2..Len(toClient) /\ toClient'[i] = toClient[i+1]
  BY <1>1
<1>3. /\ \A i \in 1..Len(toClient') : Output(i)' <=> Output(i+1)
      /\ InWork' <=> InWork
  BY <1>2 DEF Output, InWork
<1>4. Ordered'
  <2>1. ASSUME NEW i \in 1..Len(toClient'), Output(i)', toClient'[i].type = "consumed"
        PROVE  /\ \A j \in i+1 .. Len(toClient') :
                    Output(j)' => toClient'[i].slice < toClient'[j].slice
               /\ InWork' => toClient'[i].slice < work.seq
               /\ \A j \in 1..Len(toWorker) :
                    Input(j) => toClient'[i].slice < toWorker[j].slice.seq
    BY <1>1, <1>2, <1>3, <2>1 DEF Ordered
  <2> QED
    BY <1>1, <1>3, <2>1, SameInputs DEF Ordered
<1>5. CASE UNCHANGED inFlight
  <2>1. Unacked'
    BY <1>1, <1>2, <1>3, <1>5, SameInputs DEF Unacked, Acked
  <2> QED
    BY <1>4, <2>1 DEF WindowInv
<1>6. CASE inFlight' = inFlight - 1 /\ Output(1) /\ toClient[1].type = "consumed"
  <2>1. toClient[1].slice \in Acked .. seq-1 /\ Acked' = Acked + 1
    BY <1>1, <1>2, <1>6 DEF Unacked, Acked
  <2>2. /\ \A i \in 2..Len(toClient) : Output(i) => toClient[1].slice < toClient[i].slice
        /\ \A i \in 2..Len(toClient) : Output(i) => toClient[i].slice \in Acked .. seq-1
        /\ InWork => toClient[1].slice < work.seq /\ work.seq \in Acked .. seq-1
        /\ \A j \in 1..Len(toWorker) :
             Input(j) => /\ toClient[1].slice < toWorker[j].slice.seq
                         /\ toWorker[j].slice.seq \in Acked .. seq-1
    BY <1>1, <1>2, <1>6 DEF Unacked, Ordered
  <2>3. Acked \in Int
    BY <1>1 DEF Acked
  <2>4. Unacked'
    BY <1>1, <1>2, <1>3, <2>1, <2>2, <2>3, SameInputs, SMTT(40) DEF Unacked
  <2> QED
    BY <1>4, <2>4 DEF WindowInv
<1> QED
  BY <1>5, <1>6

\* The worker takes a request off its queue, starting to decode a slice or not.
LEMMA WindowReceived ==
  ASSUME IInv,
         work = NoSlice, toWorker # <<>>, toWorker' = Tail(toWorker),
         UNCHANGED <<cur, seq, inFlight, toClient>>,
         \/ work' = NoSlice
         \/ /\ toWorker[1].type = "data" /\ toWorker[1].id = streamId
            /\ work' = toWorker[1].slice /\ UNCHANGED streamId
  PROVE  WindowInv'
<1>1. /\ Unacked /\ Ordered
      /\ seq \in Nat /\ inFlight \in Nat
      /\ toClient \in Seq(Replies) /\ toWorker \in Seq(Requests)
  BY DEF IInv, WindowInv, TypeInv, ClientTypes, QueueTypes
<1>2. /\ 1 \in 1..Len(toWorker) /\ Len(toWorker') = Len(toWorker) - 1
      /\ Len(toWorker) \in Nat
      /\ \A i \in 1..Len(toWorker') : i+1 \in 2..Len(toWorker) /\ toWorker'[i] = toWorker[i+1]
  BY <1>1
<1>3. /\ \A i \in 1..Len(toClient) : Output(i)' <=> Output(i)
      /\ \A j \in 1..Len(toWorker') : Input(j)' <=> Input(j+1)
      /\ InWork' => Input(1) /\ work' = toWorker[1].slice
      /\ ~InWork
  BY <1>2 DEF Output, Input, InWork
<1>4. Unacked'
  BY <1>1, <1>2, <1>3 DEF Unacked, Acked
<1>5. Ordered'
  BY <1>1, <1>2, <1>3 DEF Unacked, Ordered
<1> QED
  BY <1>4, <1>5 DEF WindowInv

\* The worker posts output of the slice it decodes.
LEMMA WindowPosted ==
  ASSUME IInv,
         NEW q \in Seq(Replies), toClient' = toClient \o q, Posted(q),
         work # NoSlice, work' = NoSlice \/ work'.seq = work.seq,
         UNCHANGED <<cur, seq, inFlight, toWorker, streamId>>
  PROVE  WindowInv'
<1>1. /\ Unacked /\ Ordered
      /\ seq \in Nat /\ inFlight \in Nat
      /\ toClient \in Seq(Replies) /\ toWorker \in Seq(Requests)
  BY DEF IInv, WindowInv, TypeInv, ClientTypes, QueueTypes
<1>2. /\ Len(toClient) \in Nat /\ Len(q) \in Nat /\ Len(toClient') = Len(toClient) + Len(q)
      /\ \A i \in 1..Len(toClient) : toClient'[i] = toClient[i]
      /\ \A i \in Len(toClient)+1 .. Len(toClient') :
           /\ i - Len(toClient) \in 1..Len(q)
           /\ toClient'[i] = q[i - Len(toClient)]
  BY <1>1
<1>3. \A i \in Len(toClient)+1 .. Len(toClient') :
        /\ Output(i)' <=> InWork
        /\ toClient'[i].slice = work.seq
        /\ toClient'[i].type = "consumed" => i = Len(toClient') /\ ~InWork'
  <2> SUFFICES ASSUME NEW i \in Len(toClient)+1 .. Len(toClient')
               PROVE  /\ Output(i)' <=> InWork
                      /\ toClient'[i].slice = work.seq
                      /\ toClient'[i].type = "consumed" => i = Len(toClient') /\ ~InWork'
    OBVIOUS
  <2>1. PICK k \in 1..Len(q) : k = i - Len(toClient) /\ toClient'[i] = q[k]
    BY <1>2
  <2>2. /\ q[k].type # "ready" /\ q[k].id = streamId /\ q[k].slice = work.seq
        /\ q[k].type = "consumed" => k = Len(q) /\ work' = NoSlice
    BY DEF Posted
  <2> QED
    BY <1>2, <2>1, <2>2 DEF Output, InWork
<1>4. /\ \A i \in 1..Len(toClient) : Output(i)' <=> Output(i)
      /\ \A j \in 1..Len(toWorker) : Input(j)' <=> Input(j)
      /\ InWork' => InWork /\ work'.seq = work.seq
  BY <1>2 DEF Output, Input, InWork
<1>5. Unacked'
  BY <1>1, <1>2, <1>3, <1>4 DEF Unacked, Acked
<1>6. Ordered'
  BY <1>1, <1>2, <1>3, <1>4 DEF Unacked, Ordered
<1> QED
  BY <1>5, <1>6 DEF WindowInv

\* The client posts the next slice.
LEMMA WindowSent ==
  ASSUME IInv, cur \in Streams,
         NEW s \in Slices, s.seq = seq,
         toWorker' = toWorker \o <<[type |-> "data", id |-> cur, slice |-> s]>>,
         seq' = seq + 1, inFlight' = inFlight + 1,
         UNCHANGED <<cur, toClient, work, streamId>>
  PROVE  WindowInv'
<1> DEFINE m == [type |-> "data", id |-> cur, slice |-> s]
<1>1. /\ Unacked /\ Ordered
      /\ seq \in Nat /\ inFlight \in Nat
      /\ toClient \in Seq(Replies) /\ toWorker \in Seq(Requests)
  BY DEF IInv, WindowInv, TypeInv, ClientTypes, QueueTypes
<1>2. m.slice.seq = seq /\ m \in Requests
  BY DEF Requests
<1> HIDE DEF m
<1>3. /\ Len(toWorker) \in Nat /\ Len(toWorker') = Len(toWorker) + 1
      /\ \A i \in 1..Len(toWorker) : toWorker'[i] = toWorker[i]
      /\ toWorker'[Len(toWorker')] = m
  <2>1. toWorker' = toWorker \o <<m>>
    BY DEF m
  <2> QED
    BY <1>1, <1>2, <2>1
<1>4. \A i \in 1..Len(toWorker') :
        \/ i \in 1..Len(toWorker) /\ toWorker'[i] = toWorker[i]
        \/ i = Len(toWorker') /\ toWorker'[i].slice.seq = seq
  BY <1>2, <1>3
<1>5. /\ \A i \in 1..Len(toClient) : Output(i)' <=> Output(i)
      /\ \A j \in 1..Len(toWorker) : Input(j)' <=> Input(j)
      /\ InWork' <=> InWork
  BY <1>3 DEF Output, Input, InWork
<1>6. Acked' = Acked /\ Acked \in Int /\ Acked <= seq
  BY <1>1 DEF Acked, IInv, TypeInv, ClientTypes, ClientInv
<1>7. Unacked'
  <2>1. \A j \in 1..Len(toWorker') : Input(j)' => toWorker'[j].slice.seq \in Acked .. seq
    BY <1>1, <1>2, <1>3, <1>4, <1>5, <1>6 DEF Unacked
  <2> QED
    BY <1>1, <1>5, <1>6, <2>1 DEF Unacked
<1>8. Ordered'
  <2>1. \A j \in 1..Len(toWorker') :
          Input(j)' => \/ j \in 1..Len(toWorker) /\ Input(j) /\ toWorker'[j] = toWorker[j]
                       \/ j = Len(toWorker') /\ toWorker'[j].slice.seq = seq
    BY <1>4, <1>5 DEF WindowInv
  <2>2. /\ \A i \in 1..Len(toClient) : Output(i) => toClient[i].slice < seq
        /\ InWork => work.seq < seq
        /\ \A j \in 1..Len(toWorker) : Input(j) => toWorker[j].slice.seq < seq
    BY <1>1, <1>6 DEF Unacked
  <2>3. \A i \in 1..Len(toClient) : Output(i)' /\ toClient[i].type = "consumed" =>
          /\ \A j \in i+1 .. Len(toClient) :
               Output(j)' => toClient[i].slice < toClient[j].slice
          /\ InWork' => toClient[i].slice < work.seq
          /\ \A j \in 1..Len(toWorker') :
               Input(j)' => toClient[i].slice < toWorker'[j].slice.seq
    <3>0. Len(toClient) \in Nat
      BY <1>1
    <3>1. \A i \in 1..Len(toClient) : \A j \in i+1 .. Len(toClient) : j \in 1..Len(toClient)
      BY <3>0
    <3> QED
      BY <1>1, <1>5, <2>1, <2>2, <3>1 DEF Ordered
  <2>4. InWork' => \A j \in 1..Len(toWorker') : Input(j)' => work.seq < toWorker'[j].slice.seq
    BY <1>1, <1>5, <2>1, <2>2 DEF Ordered
  <2>5. ASSUME NEW i \in 1..Len(toWorker'), Input(i)',
               NEW j \in i+1 .. Len(toWorker'), Input(j)'
        PROVE  toWorker'[i].slice.seq < toWorker'[j].slice.seq
    <3>1. /\ i \in 1..Len(toWorker) /\ Input(i) /\ toWorker'[i] = toWorker[i]
          /\ j \in 1..Len(toWorker')
      BY <1>3, <2>1, <2>5
    <3> QED
      BY <1>1, <2>1, <2>2, <2>5, <3>1 DEF Ordered
  <2> QED
    BY <2>3, <2>4, <2>5 DEF Ordered
<1> QED
  BY <1>7, <1>8 DEF WindowInv

\* A stream begins: nothing queued is of it yet.
LEMMA WindowBegun ==
  ASSUME IInv, BeginOnWorker
  PROVE  WindowInv'
<1> DEFINE m == [type |-> "start", id |-> cur]
           p == [type |-> "data", id |-> cur, slice |-> slice]
<1>1. /\ cur \in Streams /\ slice \in Slices /\ slice.seq = 0 /\ Fresh
      /\ seq = 0 /\ inFlight = 0
      /\ toClient \in Seq(Replies) /\ toWorker \in Seq(Requests)
  BY StreamsFacts DEF BeginOnWorker, IInv, TypeInv, ClientTypes, CallerTypes, QueueTypes,
                      ClientInv, Fresh
<1>2. /\ toWorker' = toWorker \o (<<m>> \o <<p>>)
      /\ seq' = 1 /\ inFlight' = 1 /\ cur' = cur
      /\ UNCHANGED <<toClient, work, streamId>>
  BY <1>1 DEF BeginOnWorker, Send, Post, decoding
<1>3. m.type = "start" /\ p.slice.seq = 0
  BY <1>1
<1> HIDE DEF m, p
<1>4. /\ Len(toWorker) \in Nat /\ Len(toWorker') = Len(toWorker) + 2
      /\ \A i \in 1..Len(toWorker) : toWorker'[i] = toWorker[i]
      /\ toWorker'[Len(toWorker)+1] = m /\ toWorker'[Len(toWorker)+2] = p
  BY <1>1, <1>2
<1>5. \A i \in 1..Len(toWorker') :
        \/ i \in 1..Len(toWorker) /\ toWorker'[i] = toWorker[i]
        \/ toWorker'[i].type = "start"
        \/ i = Len(toWorker') /\ toWorker'[i].slice.seq = 0
  BY <1>3, <1>4
<1>6. /\ \A i \in 1..Len(toClient) : toClient[i].type # "ready" => toClient[i].id # cur
      /\ \A i \in 1..Len(toWorker) : toWorker[i].id # cur
      /\ streamId # cur
  BY <1>1, StreamsFacts DEF IInv, IdInv, Past
<1>7. /\ \A i \in 1..Len(toClient) : ~Output(i)'
      /\ ~InWork'
  BY <1>2, <1>6 DEF Output, InWork
<1>8. \A j \in 1..Len(toWorker') : Input(j)' =>
        j = Len(toWorker') /\ toWorker'[j].slice.seq = 0
  BY <1>2, <1>5, <1>6 DEF Input
<1>9. Acked' = 0 /\ seq' - 1 = 0
  BY <1>2 DEF Acked
<1>10. Unacked'
  BY <1>2, <1>7, <1>8, <1>9 DEF Unacked
<1>11. Ordered'
  <2>1. \A i \in 1..Len(toWorker') : \A j \in i+1 .. Len(toWorker') : ~(Input(i)' /\ Input(j)')
    BY <1>4, <1>8
  <2> QED
    BY <1>2, <1>7, <2>1 DEF Ordered
<1> QED
  BY <1>10, <1>11 DEF WindowInv
LEMMA WindowInvStep ==
  ASSUME IInv, [Next]_vars
  PROVE  WindowInv'
<1>0. /\ ClientInv /\ TypeInv /\ ClientTypes /\ Booleans /\ WindowInv
      /\ caller # "idle" => cur \in Streams
      /\ active # NoStream => active = cur /\ cur \in Streams
  BY StreamsFacts DEF IInv, TypeInv, ClientInv, ClientTypes
<1>1. CASE UNCHANGED <<cur, seq, inFlight, toWorker, toClient, work, streamId>>
  BY <1>0, <1>1, WindowKept, SameQueue
<1>2. CASE OpenStream
  <2>1. /\ \A i \in 1..Len(toClient) : ~Output(i)'
        /\ \A i \in 1..Len(toWorker) : ~Input(i)'
        /\ ~InWork'
    BY <1>0, <1>2, StreamsFacts
       DEF IInv, IdInv, Past, OpenStream, Output, Input, InWork, decoding, ClientTypes
  <2> QED
    BY <1>2, <2>1 DEF OpenStream, decoding, WindowInv, Unacked, Ordered
<1>3. CASE PushSlice
  <2>1. PICK s \in Slices : s.seq = seq /\ Push(s)
    BY <1>0, <1>3, PushedSlice
  <2>2. CASE PushToWorker(s)
    <3> DEFINE m == [type |-> "data", id |-> cur, slice |-> s]
    <3>1. /\ cur \in Streams
          /\ toWorker' = toWorker \o (<<>> \o <<m>>)
          /\ seq' = seq + 1 /\ inFlight' = inFlight + 1
          /\ UNCHANGED <<cur, toClient, work, streamId>>
      BY <1>0, <2>2 DEF PushToWorker, Send, Post, shared, decoding
    <3> HIDE DEF m
    <3>2. <<>> \o <<m>> = <<m>>
      OBVIOUS
    <3>3. toWorker' = toWorker \o <<m>>
      BY <3>1, <3>2
    <3> QED
      BY <2>1, <3>1, <3>3, WindowSent DEF m
  <2> QED
    BY <1>1, <2>1, <2>2 DEF Push, PushFirst, PushLocal, stream, decoding
<1>4. CASE BeginOnWorker
  BY <1>4, WindowBegun
<1>5. CASE BeginLocal \/ PushThrows \/ Local \/ WorkerCrash \/ UNCHANGED vars
  BY <1>1, <1>5 DEF BeginLocal, PushThrows, Local, LocalFeed, LocalReturn, LocalThrow,
                    WorkerCrash, vars, stream, decoding
<1>6. CASE Cancel
  <2>1. SameData
    BY <1>0, <1>6, CancelPosted, SameQueue DEF Cancel
  <2> QED
    BY <1>6, <2>1, WindowKept DEF Cancel, decoding
<1>7. CASE HandleReply
  <2>1. SameData
    <3>1. CASE HandleChunkThrow
      BY <1>0, <3>1, CancelPosted DEF HandleChunkThrow, ForActive
    <3> QED
      BY <1>0, <1>7, <3>1, SameQueue DEF HandleReply, HandleReady, HandleChunk,
                    HandleConsumed, HandleDecodeError, HandleStale
  <2>2. /\ toClient # <<>> /\ toClient' = Tail(toClient)
        /\ UNCHANGED <<cur, seq, work, streamId>>
    BY <1>7 DEF HandleReply, HandleReady, HandleChunk, HandleChunkThrow, HandleConsumed,
                HandleDecodeError, HandleStale, Reply, stream, decoding
  <2>3. \/ UNCHANGED inFlight
        \/ inFlight' = inFlight - 1 /\ Output(1) /\ toClient[1].type = "consumed"
    <3>1. CASE HandleConsumed
      BY <1>0, <3>1 DEF HandleConsumed, Reply, ForActive, Output
    <3> QED
      BY <1>7, <3>1 DEF HandleReply, HandleReady, HandleChunk, HandleChunkThrow,
                        HandleDecodeError, HandleStale, stream
  <2> QED
    BY <2>1, <2>2, <2>3, WindowHandled
<1>8. CASE HandleWorkerError
  BY <1>0, <1>8 DEF HandleWorkerError, GiveUp, WindowInv, Unacked, Ordered, InWork, Acked,
                    decoding
<1>9. CASE WorkerLoad
  <2>1. /\ \A i \in 1..Len(toClient') : ~Output(i)'
        /\ \A j \in 1..Len(toWorker) : Input(j)' <=> Input(j)
        /\ InWork' <=> InWork
        /\ UNCHANGED <<seq, inFlight, toWorker, work>>
    BY <1>9 DEF WorkerLoad, Output, Input, InWork, shared, stream, decoding
  <2> QED
    BY <1>0, <2>1 DEF WindowInv, Unacked, Ordered, Acked
<1>10. CASE WorkerStart \/ WorkerCancel \/ WorkerAccept \/ WorkerDrop
  <2>1. /\ work = NoSlice /\ toWorker # <<>> /\ toWorker' = Tail(toWorker)
        /\ UNCHANGED <<cur, seq, inFlight, toClient>>
    BY <1>10 DEF WorkerStart, WorkerCancel, WorkerAccept, WorkerDrop, Receive, shared, stream
  <2>2. \/ work' = NoSlice
        \/ /\ toWorker[1].type = "data" /\ toWorker[1].id = streamId
           /\ work' = toWorker[1].slice /\ UNCHANGED streamId
    BY <1>10, <2>1 DEF WorkerStart, WorkerCancel, WorkerAccept, WorkerDrop, Receive,
                      ForDecoder, decoding
  <2> QED
    BY <2>1, <2>2, WindowReceived
<1>11. CASE WorkerCollect \/ WorkerFinish \/ WorkerThrow
  <2>1. PICK q \in Seq(Replies) : toClient' = toClient \o q /\ Posted(q)
    BY <1>0, <1>11, WorkerPosts
  <2>2. /\ work # NoSlice
        /\ UNCHANGED <<cur, seq, inFlight, toWorker, streamId>>
    BY <1>11 DEF WorkerCollect, WorkerFinish, WorkerThrow, shared, stream
  <2>3. work' = NoSlice \/ work'.seq = work.seq
    <3>1. CASE WorkerCollect
      <4>1. work \in Slices /\ work.n > 0
        BY <1>0, <2>2, <3>1 DEF WorkerCollect, TypeInv, WorkerTypes
      <4> QED
        BY <3>1, <4>1, SliceRest DEF WorkerCollect
    <3> QED
      BY <1>11, <3>1 DEF WorkerFinish, WorkerThrow
  <2> QED
    BY <2>1, <2>2, <2>3, WindowPosted
<1> QED
  BY <1>2, <1>3, <1>4, <1>5, <1>6, <1>7, <1>8, <1>9, <1>10, <1>11
     DEF Next, Begin, Worker

-----------------------------------------------------------------------------
(* The theorems.                                                            *)

LEMMA InitIInv == Init => IInv
<1> SUFFICES ASSUME Init PROVE IInv
  OBVIOUS
<1>1. TypeInv
  BY InitTypes
<1>2. ClientInv
  BY DEF Init, ClientInv, NoStream
<1>3. IdInv
  BY DEF Init, IdInv
<1>4. WindowInv
  BY DEF Init, WindowInv, Unacked, Ordered, InWork
<1> QED
  BY <1>1, <1>2, <1>3, <1>4 DEF IInv

LEMMA IInvStep ==
  ASSUME IInv, [Next]_vars
  PROVE  IInv'
<1>1. TypeInv /\ ClientInv
  BY DEF IInv
<1>2. TypeInv'
  <2>1. Booleans' /\ CallerTypes' /\ QueueTypes' /\ WorkerTypes' /\ HistoryTypes'
    BY <1>1, BooleansStep, CallerTypesStep, QueueTypesStep, WorkerTypesStep,
       HistoryTypesStep
  <2> QED
    BY <2>1, ClientTypesStep DEF TypeInv
<1>3. ClientInv' /\ IdInv' /\ WindowInv'
  BY <1>1, ClientInvStep, IdInvStep, WindowInvStep
<1> QED
  BY <1>2, <1>3 DEF IInv

LEMMA TypesBound == IInv => TypeOK
<1> SUFFICES ASSUME IInv PROVE TypeOK
  OBVIOUS
<1> QED
  BY DEF IInv, TypeInv, TypeOK, Booleans, ClientTypes, CallerTypes, QueueTypes, WorkerTypes,
         HistoryTypes

\* Output of no more than inFlight slices of stream cur can be queued.
LEMMA UnackedSlices ==
  ASSUME IInv, NEW S \in SUBSET ({cur} \X (Acked .. seq-1))
  PROVE  Cardinality(S) <= MaxInFlight
<1> DEFINE open == Acked .. seq-1
           tagged == {cur} \X open
<1>1. seq \in Nat /\ inFlight \in 0..MaxInFlight
  BY DEF IInv, TypeInv, ClientTypes
<1>2. IsFiniteSet(open) /\ Cardinality(open) = inFlight
  <2>1. Acked \in Int /\ seq-1 \in Int /\ (Acked > seq-1 <=> inFlight = 0)
    BY <1>1 DEF Acked
  <2>2. Cardinality(Acked .. seq-1) = IF Acked > seq-1 THEN 0 ELSE seq-1 - Acked + 1
    BY <2>1, FS_Interval
  <2> QED
    BY <1>1, <2>1, <2>2, FS_Interval DEF Acked
<1>3. IsFiniteSet(tagged) /\ Cardinality(tagged) = inFlight
  <2>1. IsFiniteSet({cur}) /\ Cardinality({cur}) = 1
    BY FS_Singleton
  <2> HIDE DEF open
  <2>2. IsFiniteSet(tagged) /\ Cardinality(tagged) = Cardinality({cur}) * Cardinality(open)
    BY <1>2, <2>1, FS_Product
  <2> QED
    BY <1>1, <1>2, <2>1, <2>2
<1>4. Cardinality(S) <= Cardinality(tagged)
  BY <1>3, FS_Subset
<1>5. Cardinality(S) \in Nat /\ Cardinality(tagged) \in Nat
  BY <1>3, FS_Subset, FS_CardinalityType
<1> QED
  BY <1>1, <1>3, <1>4, <1>5

LEMMA WindowBounds == IInv => WindowBound
<1> SUFFICES ASSUME IInv, active # NoStream
             PROVE  Cardinality(QueuedSlices({active})) <= MaxInFlight
  BY DEF WindowBound
<1>1. QueuedSlices({active}) \subseteq {cur} \X (Acked .. seq-1)
  <2>1. ASSUME NEW i \in DOMAIN toClient, toClient[i].type = "chunk", toClient[i].id = active
        PROVE  toClient[i].id = cur /\ toClient[i].slice \in Acked .. seq-1
    BY <2>1 DEF IInv, TypeInv, QueueTypes, ClientInv, WindowInv, Unacked, Output
  <2> QED
    BY <2>1 DEF QueuedSlices
<1> QED
  BY <1>1, UnackedSlices

\* Type correctness: every variable keeps its type, and inFlight, the count of
\* postMessage calls not acknowledged, stays within 0 .. maxInFlight: it never
\* goes negative on a late acknowledgement (zstd-worker-client.ts push, onReply).
THEOREM TypeCorrect == Spec => []TypeOK
<1>1. Init => IInv
  BY InitIInv
<1>2. IInv /\ [Next]_vars => IInv'
  BY IInvStep
<1>3. IInv => TypeOK
  BY TypesBound
<1> QED
  BY <1>1, <1>2, <1>3, PTL DEF Spec

\* Backpressure: at most maxInFlight slices of the active stream have decoded
\* output waiting on the parse worker, whatever the numbers of streams, slices
\* and blocks (zstd-worker-client.ts MAX_IN_FLIGHT, push).
THEOREM WindowCorrect == Spec => []WindowBound
<1>1. Init => IInv
  BY InitIInv
<1>2. IInv /\ [Next]_vars => IInv'
  BY IInvStep
<1>3. IInv => WindowBound
  BY WindowBounds
<1> QED
  BY <1>1, <1>2, <1>3, PTL DEF Spec

-----------------------------------------------------------------------------
(* What a stream delivers: an error is its last message, and a parse that   *)
(* ends at its first failure never has more than maxInFlight slices queued. *)

Start(j) == toWorker[j].type = "start"

\* The worker starts streams in the order they were opened.
StartInv ==
  \A j \in 1..Len(toWorker) : Start(j) =>
    /\ streamId < toWorker[j].id
    /\ \A k \in j+1 .. Len(toWorker) : Start(k) => toWorker[j].id < toWorker[k].id

\* A stream that failed on the worker has no decoder any more.
ErrorInv ==
  /\ work # NoSlice => decoder
  /\ \A i \in 1..Len(toClient) : toClient[i].type # "ready" => toClient[i].id <= streamId
  /\ \A i \in 1..Len(toClient) : toClient[i].type = "error" =>
       /\ toClient[i].id = streamId => ~decoder
       /\ \A j \in i+1 .. Len(toClient) :
            toClient[j].type # "ready" => toClient[j].id # toClient[i].id

\* Nothing is left to decode or to handle but `ready`.
Drained == /\ \A i \in 1..Len(toClient) : toClient[i].type = "ready"
           /\ work = NoSlice
           /\ \A j \in 1..Len(toWorker) : toWorker[j].type # "data"

\* If no stream is opened after a failure, only the latest one is being decoded.
OnlyCur == /\ \A i \in 1..Len(toClient) : toClient[i].type # "ready" => toClient[i].id = cur
           /\ work # NoSlice => streamId = cur
           /\ \A j \in 1..Len(toWorker) : toWorker[j].type = "data" => toWorker[j].id = cur
TotalInv == StopAtFailure => OnlyCur /\ (caller \in {"idle", "done"} => Drained)

OrderInv == StartInv /\ ErrorInv

-----------------------------------------------------------------------------
USE BoundsAssumption, BatchAssumption, WindowAssumption, NoSliceAssumption
  DEF BoundsAssumption, BatchAssumption, WindowAssumption, NoSliceAssumption

\* No start request was posted, and none taken.
SameStarts == /\ Len(toWorker) <= Len(toWorker')
              /\ \A j \in 1..Len(toWorker) : toWorker'[j] = toWorker[j]
              /\ \A j \in 1..Len(toWorker') : Start(j)' => j \in 1..Len(toWorker)

LEMMA RequestPosted ==
  ASSUME TypeInv, NEW m \in Requests, m.type # "start",
         UNCHANGED toWorker \/ toWorker' = toWorker \o <<m>>
  PROVE  SameStarts
<1>1. toWorker \in Seq(Requests)
  BY DEF TypeInv, QueueTypes
<1> QED
  BY <1>1 DEF SameStarts, Start

LEMMA StartsKept ==
  ASSUME TypeInv, StartInv, SameStarts, UNCHANGED streamId
  PROVE  StartInv'
<1>1. Len(toWorker) \in Nat
  BY DEF TypeInv, QueueTypes
<1>2. ASSUME NEW j \in 1..Len(toWorker'), Start(j)'
      PROVE  j \in 1..Len(toWorker) /\ Start(j) /\ toWorker'[j] = toWorker[j]
  BY <1>2 DEF SameStarts, Start
<1>3. ASSUME NEW j \in 1..Len(toWorker'), Start(j)',
             NEW k \in j+1 .. Len(toWorker'), Start(k)'
      PROVE  toWorker'[j].id < toWorker'[k].id
  <2>1. j \in 1..Len(toWorker) /\ Start(j) /\ toWorker'[j] = toWorker[j]
    BY <1>2, <1>3
  <2>2. k \in 1..Len(toWorker')
    BY <1>1, <2>1, <1>3
  <2>3. k \in j+1 .. Len(toWorker) /\ Start(k) /\ toWorker'[k] = toWorker[k]
    BY <1>2, <1>3, <2>2
  <2> QED
    BY <2>1, <2>3 DEF StartInv
<1> QED
  BY <1>2, <1>3 DEF StartInv

LEMMA StartInvStep ==
  ASSUME IInv, StartInv, [Next]_vars
  PROVE  StartInv'
<1>0. /\ TypeInv /\ ClientInv /\ toWorker \in Seq(Requests)
      /\ caller # "idle" => cur \in Streams
      /\ active # NoStream => active = cur /\ cur \in Streams
  BY StreamsFacts DEF IInv, TypeInv, ClientInv, ClientTypes, QueueTypes
<1>1. CASE UNCHANGED <<toWorker, streamId>>
  BY <1>0, <1>1, StartsKept DEF SameStarts
<1>2. CASE PushSlice
  <2>1. PICK s \in Slices : Push(s)
    BY <1>0, <1>2, PushedSlice
  <2>2. CASE PushToWorker(s)
    <3> DEFINE m == [type |-> "data", id |-> cur, slice |-> s]
    <3>1. m \in Requests /\ m.type # "start"
      BY <1>0, <2>2 DEF PushToWorker, Requests
    <3>2. toWorker' = toWorker \o (<<>> \o <<m>>) /\ UNCHANGED streamId
      BY <2>2 DEF PushToWorker, Send, Post, decoding
    <3> HIDE DEF m
    <3>3. <<>> \o <<m>> = <<m>>
      OBVIOUS
    <3> QED
      BY <1>0, <3>1, <3>2, <3>3, RequestPosted, StartsKept
  <2> QED
    BY <1>1, <2>1, <2>2 DEF Push, PushFirst, PushLocal, decoding
<1>3. CASE Cancel \/ HandleChunkThrow
  <2> DEFINE m == [type |-> "cancel", id |-> cur]
  <2>1. m \in Requests /\ m.type # "start"
    BY <1>0, <1>3 DEF Cancel, HandleChunkThrow, ForActive, Requests
  <2>2. UNCHANGED toWorker \/ toWorker' = toWorker \o <<m>>
    BY <1>3 DEF Cancel, HandleChunkThrow, Post
  <2>3. UNCHANGED streamId
    BY <1>3 DEF Cancel, HandleChunkThrow, decoding
  <2> HIDE DEF m
  <2> QED
    BY <1>0, <2>1, <2>2, <2>3, RequestPosted, StartsKept
<1>4. CASE BeginOnWorker
  <2> DEFINE m == [type |-> "start", id |-> cur]
             p == [type |-> "data", id |-> cur, slice |-> slice]
  <2>1. m.id = cur /\ p.type # "start"
    OBVIOUS
  <2>2. toWorker' = toWorker \o (<<m>> \o <<p>>) /\ UNCHANGED streamId
    BY <1>4 DEF BeginOnWorker, Send, Post, decoding
  <2> HIDE DEF m, p
  <2>3. /\ Len(toWorker) \in Nat /\ Len(toWorker') = Len(toWorker) + 2
        /\ \A j \in 1..Len(toWorker) : toWorker'[j] = toWorker[j]
        /\ toWorker'[Len(toWorker)+1] = m /\ toWorker'[Len(toWorker)+2] = p
    BY <1>0, <2>2
  <2>4. /\ cur \in Nat
        /\ \A j \in 1..Len(toWorker) : toWorker[j].id \in Nat /\ toWorker[j].id < cur
        /\ streamId < cur
    <3>1. cur \in Streams /\ Fresh
      BY <1>0, <1>4 DEF BeginOnWorker, Fresh
    <3>2. \A j \in 1..Len(toWorker) : toWorker[j].id \in Streams
      BY <1>0, RequestFacts
    <3>3. streamId \in Streams \cup {NoStream}
      BY <1>0 DEF TypeInv, WorkerTypes
    <3> QED
      BY <3>1, <3>2, <3>3, StreamsFacts DEF IInv, IdInv, Past
  <2>5. \A j \in 1..Len(toWorker') : Start(j)' =>
          \/ j \in 1..Len(toWorker) /\ Start(j) /\ toWorker'[j] = toWorker[j]
          \/ j = Len(toWorker)+1 /\ toWorker'[j].id = cur
    BY <2>1, <2>3 DEF Start
  <2>6. ASSUME NEW j \in 1..Len(toWorker'), Start(j)',
               NEW k \in j+1 .. Len(toWorker'), Start(k)'
        PROVE  toWorker'[j].id < toWorker'[k].id
    <3>1. j \in 1..Len(toWorker) /\ Start(j) /\ toWorker'[j] = toWorker[j] /\ k \in 1..Len(toWorker')
      BY <2>3, <2>5, <2>6
    <3> QED
      BY <2>3, <2>4, <2>5, <2>6, <3>1 DEF StartInv
  <2> QED
    BY <2>2, <2>4, <2>5, <2>6 DEF StartInv
<1>5. CASE HandleWorkerError
  BY <1>5 DEF HandleWorkerError, GiveUp, StartInv
<1>6. CASE WorkerStart \/ WorkerCancel \/ WorkerAccept \/ WorkerDrop
  <2>1. toWorker # <<>> /\ toWorker' = Tail(toWorker)
    BY <1>6 DEF WorkerStart, WorkerCancel, WorkerAccept, WorkerDrop, Receive
  <2>2. streamId' = streamId \/ (Start(1) /\ streamId' = toWorker[1].id)
    BY <1>6 DEF WorkerStart, WorkerCancel, WorkerAccept, WorkerDrop, Receive, Start, decoding
  <2>3. /\ 1 \in 1..Len(toWorker) /\ Len(toWorker') = Len(toWorker) - 1
        /\ Len(toWorker) \in Nat
        /\ \A j \in 1..Len(toWorker') : j+1 \in 2..Len(toWorker) /\ toWorker'[j] = toWorker[j+1]
    BY <1>0, <2>1
  <2>4. ASSUME NEW j \in 1..Len(toWorker'), Start(j)'
        PROVE  /\ Start(j+1) /\ toWorker'[j] = toWorker[j+1] /\ j+1 \in 2..Len(toWorker)
               /\ streamId' < toWorker'[j].id
    <3>1. Start(j+1) /\ toWorker'[j] = toWorker[j+1] /\ j+1 \in 2..Len(toWorker)
      BY <2>3, <2>4 DEF Start
    <3>2. streamId < toWorker[j+1].id
      BY <2>3, <3>1 DEF StartInv
    <3>3. Start(1) => toWorker[1].id < toWorker[j+1].id
      BY <2>3, <3>1 DEF StartInv
    <3> QED
      BY <2>2, <3>1, <3>2, <3>3
  <2>5. ASSUME NEW j \in 1..Len(toWorker'), Start(j)',
               NEW k \in j+1 .. Len(toWorker'), Start(k)'
        PROVE  toWorker'[j].id < toWorker'[k].id
    <3>1. k \in 1..Len(toWorker') /\ k+1 \in (j+1)+1 .. Len(toWorker)
      BY <2>3
    <3> QED
      BY <2>3, <2>4, <2>5, <3>1 DEF StartInv
  <2> QED
    BY <2>4, <2>5 DEF StartInv
<1>7. CASE OpenStream \/ BeginLocal \/ PushThrows \/ Local \/ HandleReady \/ HandleChunk
           \/ HandleConsumed \/ HandleDecodeError \/ HandleStale \/ WorkerLoad \/ WorkerCrash
           \/ UNCHANGED vars
  BY <1>1, <1>7 DEF OpenStream, BeginLocal, PushThrows, Local, LocalFeed, LocalReturn,
                    LocalThrow, HandleReady, HandleChunk, HandleConsumed, HandleDecodeError,
                    HandleStale, WorkerLoad, WorkerCrash, vars, stream, decoding
<1>8. CASE WorkerCollect \/ WorkerFinish \/ WorkerThrow
  BY <1>1, <1>8 DEF WorkerCollect, WorkerFinish, WorkerThrow
<1> QED
  BY <1>2, <1>3, <1>4, <1>5, <1>6, <1>7, <1>8 DEF Next, Begin, HandleReply, Worker

LEMMA ErrorInvStep ==
  ASSUME IInv, StartInv, ErrorInv, [Next]_vars
  PROVE  ErrorInv'
<1>0. /\ TypeInv /\ toWorker \in Seq(Requests) /\ toClient \in Seq(Replies)
      /\ streamId \in Int
      /\ \A i \in 1..Len(toClient) : toClient[i].type # "ready" => toClient[i].id \in Int
      /\ \A j \in 1..Len(toWorker) : toWorker[j].id \in Int
  BY StreamsFacts, ReplyFacts, RequestFacts DEF IInv, TypeInv, QueueTypes, WorkerTypes
<1>1. CASE UNCHANGED <<toClient, work, decoder, streamId>>
  BY <1>1 DEF ErrorInv
<1>2. CASE HandleReply
  <2>1. toClient # <<>> /\ toClient' = Tail(toClient) /\ UNCHANGED <<work, decoder, streamId>>
    BY <1>2 DEF HandleReply, HandleReady, HandleChunk, HandleChunkThrow, HandleConsumed,
                HandleDecodeError, HandleStale, Reply, decoding
  <2>2. /\ Len(toClient) \in Nat /\ Len(toClient') = Len(toClient) - 1
        /\ \A i \in 1..Len(toClient') : i+1 \in 1..Len(toClient) /\ toClient'[i] = toClient[i+1]
    BY <1>0, <2>1
  <2>3. ASSUME NEW i \in 1..Len(toClient'), NEW j \in i+1 .. Len(toClient')
        PROVE  j \in 1..Len(toClient') /\ j+1 \in (i+1)+1 .. Len(toClient)
    BY <2>2
  <2> QED
    BY <2>1, <2>2, <2>3 DEF ErrorInv
<1>3. CASE HandleWorkerError
  BY <1>3 DEF HandleWorkerError, GiveUp, decoding, ErrorInv
<1>4. CASE WorkerLoad
  BY <1>4 DEF WorkerLoad, decoding, ErrorInv
<1>5. CASE WorkerStart
  <2>1. /\ toWorker # <<>> /\ Start(1) /\ streamId' = toWorker[1].id
        /\ work = NoSlice /\ UNCHANGED <<toClient, work>>
    BY <1>5 DEF WorkerStart, Receive, Start
  <2>2. streamId < streamId' /\ streamId' \in Int
    BY <1>0, <2>1 DEF StartInv
  <2>3. \A i \in 1..Len(toClient) : toClient[i].type # "ready" =>
          toClient[i].id <= streamId' /\ toClient[i].id # streamId'
    BY <1>0, <2>2 DEF ErrorInv
  <2>4. \A i \in 1..Len(toClient) : toClient[i].type = "error" => toClient[i].type # "ready"
    OBVIOUS
  <2> QED
    BY <2>1, <2>3, <2>4, Zenon DEF ErrorInv
<1>6. CASE WorkerCancel \/ WorkerAccept \/ WorkerDrop
  BY <1>6 DEF WorkerCancel, WorkerAccept, WorkerDrop, Receive, ForDecoder, decoding, ErrorInv
<1>7. CASE WorkerCollect \/ WorkerFinish \/ WorkerThrow
  <2>1. PICK q \in Seq(Replies) : toClient' = toClient \o q /\ Posted(q)
    BY <1>0, <1>7, WorkerPosts
  <2>2. work # NoSlice /\ decoder /\ UNCHANGED streamId /\ (work' # NoSlice => decoder')
    BY <1>7 DEF WorkerCollect, WorkerFinish, WorkerThrow, ErrorInv
  <2>3. /\ Len(toClient) \in Nat /\ Len(q) \in Nat /\ Len(toClient') = Len(toClient) + Len(q)
        /\ \A i \in 1..Len(toClient) : toClient'[i] = toClient[i]
        /\ \A i \in 1..Len(toClient') : i \notin 1..Len(toClient) =>
             i - Len(toClient) \in 1..Len(q) /\ toClient'[i] = q[i - Len(toClient)]
    BY <1>0, <2>1
  <2>4. ASSUME NEW i \in 1..Len(toClient'), i \notin 1..Len(toClient)
        PROVE  /\ toClient'[i].type # "ready" /\ toClient'[i].id = streamId
               /\ toClient'[i].type = "error" => i = Len(toClient') /\ ~decoder'
    BY <2>1, <2>3, <2>4 DEF Posted
  <2>5. ASSUME NEW i \in 1..Len(toClient'), toClient'[i].type = "error",
               NEW j \in i+1 .. Len(toClient'), toClient'[j].type # "ready"
        PROVE  toClient'[j].id # toClient'[i].id
    <3>1. i \in 1..Len(toClient) /\ toClient[i].type = "error" /\ toClient'[i] = toClient[i]
      BY <2>3, <2>4, <2>5
    <3>2. toClient[i].id # streamId
      BY <2>2, <3>1 DEF ErrorInv
    <3>3. CASE j \in 1..Len(toClient)
      BY <2>3, <2>5, <3>1, <3>3 DEF ErrorInv
    <3>4. CASE j \notin 1..Len(toClient)
      BY <2>3, <2>4, <2>5, <3>1, <3>2, <3>4
    <3> QED
      BY <3>3, <3>4
  <2>6. ASSUME NEW i \in 1..Len(toClient'), toClient'[i].type # "ready"
        PROVE  toClient'[i].id <= streamId
    <3>1. CASE i \in 1..Len(toClient)
      BY <2>3, <2>6, <3>1 DEF ErrorInv
    <3>2. CASE i \notin 1..Len(toClient)
      <4>1. toClient'[i].id = streamId
        BY <2>4, <2>6, <3>2
      <4>2. streamId \in Int
        BY <1>0
      <4> QED
        BY <4>1, <4>2
    <3> QED
      BY <3>1, <3>2
  <2>7. ASSUME NEW i \in 1..Len(toClient'), toClient'[i].type = "error",
               toClient'[i].id = streamId
        PROVE  ~decoder'
    BY <2>2, <2>3, <2>4, <2>7 DEF ErrorInv
  <2> QED
    BY <2>2, <2>5, <2>6, <2>7 DEF ErrorInv
<1>8. CASE PushSlice \/ BeginOnWorker \/ Cancel \/ OpenStream \/ BeginLocal \/ PushThrows
           \/ Local \/ WorkerCrash \/ UNCHANGED vars
  BY <1>1, <1>8, ZenonT(60) DEF PushSlice, Push, PushFirst, PushToWorker, PushLocal, BeginOnWorker, Cancel,
                    OpenStream, BeginLocal, PushThrows, Local, LocalFeed, LocalReturn,
                    LocalThrow, WorkerCrash, vars, decoding
<1> QED
  BY <1>2, <1>3, <1>4, <1>5, <1>6, <1>7, <1>8 DEF Next, Begin, Worker

LEMMA OrderInvStep ==
  ASSUME IInv, OrderInv, [Next]_vars
  PROVE  OrderInv'
  BY StartInvStep, ErrorInvStep DEF OrderInv

LEMMA InitOrder == Init => OrderInv
  BY DEF Init, OrderInv, StartInv, ErrorInv

LEMMA ErrorsLast == IInv /\ OrderInv => ErrorIsLast
<1> SUFFICES ASSUME IInv, OrderInv,
                    NEW i \in DOMAIN toClient, NEW j \in DOMAIN toClient,
                    toClient[i].type = "error", i < j, toClient[j].type # "ready"
             PROVE  toClient[j].id # toClient[i].id
  BY DEF ErrorIsLast
<1>1. toClient \in Seq(Replies)
  BY DEF IInv, TypeInv, QueueTypes
<1>2. i \in 1..Len(toClient) /\ j \in i+1 .. Len(toClient)
  BY <1>1
<1> QED
  BY <1>2 DEF OrderInv, ErrorInv

-----------------------------------------------------------------------------
(* One stream at a time, if none is opened after a failure.                 *)

\* The client told its caller that stream cur is decoded: nothing else is left
\* of it.
LEMMA LastReply ==
  ASSUME IInv, HandleConsumed, caller # "done", caller' = "done"
  PROVE  /\ toClient # <<>> /\ toClient[1].type = "consumed" /\ final
         /\ \A i \in 2..Len(toClient) : ~Output(i)
         /\ ~InWork
         /\ \A j \in 1..Len(toWorker) : ~Input(j)
<1>1. /\ toClient \in Seq(Replies) /\ toWorker \in Seq(Requests)
      /\ seq \in Nat /\ inFlight \in Nat
  BY DEF IInv, TypeInv, ClientTypes, QueueTypes
<1>2. /\ toClient # <<>> /\ Output(1) /\ toClient[1].type = "consumed"
      /\ inFlight - 1 < 1 /\ final
  <2>1. caller = "waiting" /\ AfterPush(inFlight - 1, final) = "done"
    BY DEF HandleConsumed
  <2>2. final /\ WindowOpen(inFlight - 1, final)
    BY <2>1 DEF AfterPush
  <2> QED
    BY <2>2 DEF HandleConsumed, Reply, ForActive, WindowOpen, Output, IInv, ClientInv
<1>3. 1 \in 1..Len(toClient) /\ Len(toClient) \in Nat
  BY <1>1, <1>2
<1>4. toClient[1].slice = seq - 1 /\ Acked = seq - 1
  BY <1>1, <1>2, <1>3 DEF IInv, WindowInv, Unacked, Acked
<1>5. /\ \A i \in 2..Len(toClient) : ~Output(i)
      /\ ~InWork
      /\ \A j \in 1..Len(toWorker) : ~Input(j)
  BY <1>1, <1>2, <1>3, <1>4 DEF IInv, WindowInv, Unacked, Ordered
<1> QED
  BY <1>2, <1>5

LEMMA NothingLeft ==
  ASSUME IInv, OnlyCur, HandleConsumed, caller # "done", caller' = "done"
  PROVE  Drained'
<1>1. /\ toClient # <<>> /\ toClient' = Tail(toClient) /\ UNCHANGED <<work, toWorker>>
      /\ \A i \in 2..Len(toClient) : ~Output(i)
      /\ ~InWork
      /\ \A j \in 1..Len(toWorker) : ~Input(j)
  BY LastReply DEF HandleConsumed, decoding
<1>2. \A i \in 1..Len(toClient') : i+1 \in 2..Len(toClient) /\ toClient'[i] = toClient[i+1]
  <2>1. toClient \in Seq(Replies)
    BY DEF IInv, TypeInv, QueueTypes
  <2> QED
    BY <1>1, <2>1
<1>3. /\ \A i \in 2..Len(toClient) : toClient[i].type = "ready"
      /\ work = NoSlice
      /\ \A j \in 1..Len(toWorker) : toWorker[j].type # "data"
  <2>1. \A i \in 2..Len(toClient) : i \in 1..Len(toClient)
    OBVIOUS
  <2> QED
    BY <1>1, <2>1 DEF OnlyCur, Output, InWork, Input
<1> QED
  BY <1>1, <1>2, <1>3 DEF Drained

\* A stream decoded in this thread has nothing queued.
LEMMA NothingQueued ==
  ASSUME IInv, OnlyCur, Fresh
  PROVE  Drained
<1>1. /\ \A i \in 1..Len(toClient) : toClient[i].type # "ready" => toClient[i].id # cur
      /\ \A j \in 1..Len(toWorker) : toWorker[j].id # cur
      /\ streamId # NoStream => streamId # cur
  BY DEF IInv, IdInv, Past
<1>2. work # NoSlice => streamId # NoStream
  BY StreamsFacts DEF IInv, TypeInv, WorkerTypes
<1> QED
  BY <1>1, <1>2 DEF OnlyCur, Drained

LEMMA DrainedStep ==
  ASSUME IInv, Drained, [Next]_vars, caller = "idle" \/ caller = "done"
  PROVE  Drained'
<1>0. toClient \in Seq(Replies) /\ toWorker \in Seq(Requests)
  BY DEF IInv, TypeInv, QueueTypes
<1>1. CASE UNCHANGED <<toClient, work, toWorker>>
  BY <1>1 DEF Drained
<1>2. CASE HandleReply
  <2>1. toClient # <<>> /\ toClient' = Tail(toClient) /\ UNCHANGED work
    BY <1>2 DEF HandleReply, HandleReady, HandleChunk, HandleChunkThrow, HandleConsumed,
                HandleDecodeError, HandleStale, Reply, decoding
  <2>2. UNCHANGED toWorker
    <3>1. Head(toClient).type = "ready"
      BY <1>0, <2>1 DEF Drained
    <3> QED
      BY <1>2, <3>1 DEF HandleReply, HandleReady, HandleChunk, HandleChunkThrow,
                        HandleConsumed, HandleDecodeError, HandleStale, Reply
  <2> QED
    BY <1>0, <2>1, <2>2 DEF Drained
<1>3. CASE HandleWorkerError
  BY <1>3 DEF HandleWorkerError, GiveUp, decoding, Drained
<1>4. CASE WorkerLoad
  BY <1>4 DEF WorkerLoad, decoding, Drained
<1>5. CASE WorkerStart \/ WorkerCancel \/ WorkerAccept \/ WorkerDrop
  <2>1. ~WorkerAccept
    BY <1>0 DEF WorkerAccept, Receive, Drained
  <2>2. toWorker # <<>> /\ toWorker' = Tail(toWorker) /\ UNCHANGED <<toClient, work>>
    BY <1>5, <2>1 DEF WorkerStart, WorkerCancel, WorkerDrop, Receive, decoding
  <2>3. \A j \in 1..Len(toWorker') : j + 1 \in 1..Len(toWorker) /\ toWorker'[j] = toWorker[j+1]
    BY <1>0, <2>2
  <2> QED
    BY <2>2, <2>3 DEF Drained
<1>6. CASE OpenStream \/ PushSlice \/ PushThrows \/ Cancel \/ Begin \/ Local \/ WorkerCrash
           \/ UNCHANGED vars
  BY <1>1, <1>6 DEF OpenStream, PushSlice, Push, PushFirst, PushToWorker, PushLocal,
                    PushThrows, Cancel, Begin, BeginOnWorker, BeginLocal, Local, LocalFeed,
                    LocalReturn, LocalThrow, WorkerCrash, vars, decoding, IInv, ClientInv
<1>7. ~(WorkerCollect \/ WorkerFinish \/ WorkerThrow)
  BY DEF WorkerCollect, WorkerFinish, WorkerThrow, Drained
<1> QED
  BY <1>2, <1>3, <1>4, <1>5, <1>6, <1>7 DEF Next, Worker

LEMMA OnlyCurStep ==
  ASSUME IInv, OnlyCur, [Next]_vars, ~OpenStream
  PROVE  OnlyCur'
<1>0. toClient \in Seq(Replies) /\ toWorker \in Seq(Requests)
  BY DEF IInv, TypeInv, QueueTypes
<1>1. cur' = cur
  <2>1. CASE PushSlice
    BY <2>1 DEF PushSlice, Push, PushFirst, PushToWorker, PushLocal, shared
  <2>2. CASE BeginOnWorker \/ PushThrows \/ Cancel \/ HandleReady \/ HandleChunkThrow
             \/ HandleConsumed \/ HandleDecodeError \/ HandleWorkerError
    BY <2>2 DEF BeginOnWorker, PushThrows, Cancel, HandleReady, HandleChunkThrow,
                HandleConsumed, HandleDecodeError, HandleWorkerError
  <2> QED
    BY <2>1, <2>2, ClientFrame
<1>2. ASSUME NEW i \in 1..Len(toClient'), toClient'[i].type # "ready"
      PROVE  toClient'[i].id = cur
  BY <1>2, RepliesStep DEF OnlyCur
<1>3. ASSUME NEW j \in 1..Len(toWorker'), toWorker'[j].type = "data"
      PROVE  toWorker'[j].id = cur
  BY <1>3, RequestsStep DEF OnlyCur
<1>4. work' # NoSlice => streamId' = cur
  <2>1. CASE WorkerAccept
    <3>1. toWorker # <<>> /\ Head(toWorker).type = "data" /\ streamId' = Head(toWorker).id
      BY <2>1 DEF WorkerAccept, Receive, ForDecoder
    <3> QED
      BY <1>0, <3>1 DEF OnlyCur
  <2>2. CASE WorkerStart \/ WorkerFinish \/ WorkerThrow
    BY <2>2 DEF WorkerStart, WorkerFinish, WorkerThrow, Receive
  <2>3. CASE WorkerCancel \/ WorkerDrop \/ WorkerCollect
    BY <2>3 DEF WorkerCancel, WorkerDrop, WorkerCollect, Receive, OnlyCur, decoding
  <2>4. CASE PushSlice \/ HandleWorkerError \/ WorkerLoad \/ WorkerCrash
    BY <2>4, ZenonT(60) DEF PushSlice, Push, PushFirst, PushToWorker, PushLocal, HandleWorkerError,
                WorkerLoad, WorkerCrash, decoding, OnlyCur
  <2> QED
    BY <2>1, <2>2, <2>3, <2>4, DecoderFrame DEF Worker, OnlyCur
<1> QED
  BY <1>1, <1>2, <1>3, <1>4 DEF OnlyCur

LEMMA TotalInvStep ==
  ASSUME IInv, TotalInv, [Next]_vars
  PROVE  TotalInv'
<1> SUFFICES ASSUME StopAtFailure
             PROVE  OnlyCur' /\ (caller' \in {"idle", "done"} => Drained')
  BY DEF TotalInv
<1>0. OnlyCur /\ (caller \in {"idle", "done"} => Drained)
  BY DEF TotalInv
<1>1. CASE OpenStream
  <2>1. Drained
    BY <1>0, <1>1 DEF OpenStream
  <2> QED
    BY <1>1, <2>1 DEF OpenStream, decoding, OnlyCur, Drained
<1>2. CASE ~OpenStream
  <2>1. OnlyCur'
    BY <1>0, <1>2, OnlyCurStep
  <2>2. ASSUME caller' \in {"idle", "done"}, caller \notin {"idle", "done"}
        PROVE  Drained'
    <3>1. CASE LocalReturn
      <4>1. Fresh
        BY <3>1 DEF LocalReturn, IInv, ClientInv, Fresh
      <4> QED
        BY <1>0, <3>1, <4>1, NothingQueued DEF LocalReturn, Drained, decoding
    <3>2. CASE HandleConsumed
      BY <1>0, <2>2, <3>2, NothingLeft DEF HandleConsumed, AfterPush
    <3>3. CASE PushSlice
      <4>1. PICK s \in Slices : Push(s)
        BY <3>3, PushedSlice DEF IInv
      <4> QED
        BY <2>2, <4>1 DEF Push, PushFirst, PushToWorker, PushLocal, Send, AfterPush, WindowOpen,
                          IInv, TypeInv, ClientTypes
    <3>4. CASE Begin
      BY <2>2, <3>4 DEF Begin, BeginOnWorker, BeginLocal, Send, AfterPush, WindowOpen,
                        IInv, TypeInv, ClientTypes
    <3>5. CASE PushThrows \/ Cancel \/ LocalFeed \/ LocalThrow \/ HandleChunkThrow
               \/ HandleDecodeError \/ HandleWorkerError
      BY <2>2, <3>5 DEF PushThrows, Cancel, LocalFeed, LocalThrow, HandleChunkThrow,
                        HandleDecodeError, HandleWorkerError, Fail
    <3> QED
      BY <1>2, <2>2, <3>1, <3>2, <3>3, <3>4, <3>5, CallerFrame DEF Local
  <2>3. caller \in {"idle", "done"} => Drained'
    BY <1>0, DrainedStep
  <2> QED
    BY <2>1, <2>2, <2>3
<1> QED
  BY <1>1, <1>2

LEMMA InitTotal == Init => TotalInv
  BY DEF Init, TotalInv, OnlyCur, Drained

LEMMA TotalBounds ==
  ASSUME IInv, TotalInv, StopAtFailure
  PROVE  TotalWindowBound
<1>1. QueuedSlices(Streams) \subseteq {cur} \X (Acked .. seq-1)
  <2>1. ASSUME NEW i \in DOMAIN toClient, toClient[i].type = "chunk"
        PROVE  toClient[i].id = cur /\ toClient[i].slice \in Acked .. seq-1
    BY <2>1 DEF IInv, TypeInv, QueueTypes, WindowInv, Unacked, Output, TotalInv, OnlyCur
  <2> QED
    BY <2>1 DEF QueuedSlices
<1> QED
  BY <1>1, UnackedSlices DEF TotalWindowBound

-----------------------------------------------------------------------------
(* Blocks in flight.                                                        *)

\* Those of the messages ms that hold output of stream k hold its blocks
\* from+1 .. upto, in order: p[i] is the last block of the first i messages.
ChunkOf(m, k) == m.type = "chunk" /\ m.id = k
CarriesBy(p, ms, k, from, upto) ==
  /\ p \in [0..Len(ms) -> 0..upto]
  /\ p[0] = from /\ p[Len(ms)] = upto
  /\ \A i \in 1..Len(ms) :
       IF ChunkOf(ms[i], k)
         THEN /\ p[i] = p[i-1] + Len(ms[i].blocks)
              /\ \A b \in 1..Len(ms[i].blocks) : ms[i].blocks[b] = p[i-1] + b
         ELSE p[i] = p[i-1]
Carries(ms, k, from, upto) ==
  \E p \in [0..Len(ms) -> 0..upto] : CarriesBy(p, ms, k, from, upto)

\* Those of the requests ms that hold a slice of stream k decode to its blocks
\* from+1 .. upto, in order.
DataOf(m, k) == m.type = "data" /\ m.id = k
HoldsBy(p, ms, k, from, upto) ==
  /\ p \in [0..Len(ms) -> 0..upto]
  /\ p[0] = from /\ p[Len(ms)] = upto
  /\ \A i \in 1..Len(ms) :
       IF DataOf(ms[i], k)
         THEN p[i] = p[i-1] + ms[i].slice.n /\ ms[i].slice.lo = p[i-1] + 1
         ELSE p[i] = p[i-1]
Holds(ms, k, from, upto) ==
  \E p \in [0..Len(ms) -> 0..upto] : HoldsBy(p, ms, k, from, upto)

\* A set of naturals has a least element.
LEMMA Least ==
  ASSUME NEW S \in SUBSET Nat, S # {}
  PROVE  \E x \in S : \A y \in S : x <= y
<1> DEFINE Less == {pair \in Nat \X Nat : pair[1] < pair[2]}
<1>1. IsWellFoundedOn(Less, Nat)
  BY NatLessThanWellFounded DEF OpToRel
<1> HIDE DEF Less
<1>2. PICK x \in S : \A y \in S : ~(<<y, x>> \in Less)
  BY <1>1, WFMin
<1>3. ASSUME NEW y \in S PROVE x <= y
  <2>1. x \in Nat /\ y \in Nat /\ <<y, x>> \notin Less
    BY <1>2
  <2>2. ~(y < x)
    BY <2>1 DEF Less
  <2> QED
    BY <2>1, <2>2
<1> QED
  BY <1>3

\* A count that no step changes ends as it began.
LEMMA ConstantRun ==
  ASSUME NEW n \in Nat, NEW p, \A i \in 1..n : p[i] = p[i-1]
  PROVE  p[n] = p[0]
<1> DEFINE S == {i \in 0..n : p[i] # p[0]}
<1>1. CASE S = {}
  BY <1>1
<1>2. CASE S # {}
  <2>1. PICK x \in S : \A y \in S : x <= y
    <3>1. S \in SUBSET Nat
      OBVIOUS
    <3> HIDE DEF S
    <3> QED
      BY <1>2, <3>1, Least
  <2>2. x \in 1..n /\ x-1 \in 0..n /\ x-1 \notin S
    BY <2>1
  <2> QED
    BY <2>1, <2>2
<1> QED
  BY <1>1, <1>2

LEMMA CarriesNone ==
  ASSUME NEW ms \in Seq(Replies), NEW k, \A i \in 1..Len(ms) : ~ChunkOf(ms[i], k)
  PROVE  /\ \A from \in Nat : Carries(ms, k, from, from)
         /\ \A from, upto \in Nat : Carries(ms, k, from, upto) => from = upto
<1>1. ASSUME NEW from \in Nat
      PROVE  Carries(ms, k, from, from)
  <2> DEFINE p == [i \in 0..Len(ms) |-> from]
  <2>1. CarriesBy(p, ms, k, from, from)
    BY DEF CarriesBy
  <2> QED
    BY <2>1 DEF Carries
<1>2. ASSUME NEW from \in Nat, NEW upto \in Nat, Carries(ms, k, from, upto)
      PROVE  from = upto
  <2>1. PICK p : CarriesBy(p, ms, k, from, upto)
    BY <1>2 DEF Carries
  <2>2. p[0] = from /\ p[Len(ms)] = upto /\ \A i \in 1..Len(ms) : p[i] = p[i-1]
    BY <2>1 DEF CarriesBy
  <2> QED
    BY <2>2, ConstantRun
<1> QED
  BY <1>1, <1>2

LEMMA HoldsNone ==
  ASSUME NEW ms \in Seq(Requests), NEW k, \A i \in 1..Len(ms) : ~DataOf(ms[i], k)
  PROVE  /\ \A from \in Nat : Holds(ms, k, from, from)
         /\ \A from, upto \in Nat : Holds(ms, k, from, upto) => from = upto
<1>1. ASSUME NEW from \in Nat
      PROVE  Holds(ms, k, from, from)
  <2> DEFINE p == [i \in 0..Len(ms) |-> from]
  <2>1. HoldsBy(p, ms, k, from, from)
    BY DEF HoldsBy
  <2> QED
    BY <2>1 DEF Holds
<1>2. ASSUME NEW from \in Nat, NEW upto \in Nat, Holds(ms, k, from, upto)
      PROVE  from = upto
  <2>1. PICK p : HoldsBy(p, ms, k, from, upto)
    BY <1>2 DEF Holds
  <2>2. p[0] = from /\ p[Len(ms)] = upto /\ \A i \in 1..Len(ms) : p[i] = p[i-1]
    BY <2>1 DEF HoldsBy
  <2> QED
    BY <2>2, ConstantRun
<1> QED
  BY <1>1, <1>2

LEMMA CarriesTail ==
  ASSUME NEW ms \in Seq(Replies), ms # <<>>, NEW k, NEW from \in Nat, NEW upto \in Nat,
         Carries(ms, k, from, upto)
  PROVE  IF ChunkOf(ms[1], k)
           THEN /\ \A b \in 1..Len(ms[1].blocks) : ms[1].blocks[b] = from + b
                /\ from + Len(ms[1].blocks) <= upto
                /\ Carries(Tail(ms), k, from + Len(ms[1].blocks), upto)
           ELSE Carries(Tail(ms), k, from, upto)
<1>1. PICK p : CarriesBy(p, ms, k, from, upto)
  BY DEF Carries
<1> DEFINE t == [i \in 0..Len(Tail(ms)) |-> p[i+1]]
<1>2. /\ Len(ms) \in Nat /\ 1 \in 1..Len(ms) /\ Len(Tail(ms)) = Len(ms) - 1
      /\ \A i \in 1..Len(Tail(ms)) : i+1 \in 1..Len(ms) /\ Tail(ms)[i] = ms[i+1]
  OBVIOUS
<1>3. p \in [0..Len(ms) -> 0..upto] /\ p[0] = from /\ p[Len(ms)] = upto
  BY <1>1 DEF CarriesBy
<1>4. CarriesBy(t, Tail(ms), k, p[1], upto)
  <2>1. t \in [0..Len(Tail(ms)) -> 0..upto] /\ t[0] = p[1] /\ t[Len(Tail(ms))] = upto
    BY <1>2, <1>3
  <2>2. ASSUME NEW i \in 1..Len(Tail(ms))
        PROVE  IF ChunkOf(ms[i+1], k)
                 THEN /\ p[i+1] = p[i] + Len(ms[i+1].blocks)
                      /\ \A b \in 1..Len(ms[i+1].blocks) : ms[i+1].blocks[b] = p[i] + b
                 ELSE p[i+1] = p[i]
    <3>1. i+1 \in 1..Len(ms) /\ (i+1)-1 = i
      BY <1>2
    <3> QED
      BY <1>1, <3>1 DEF CarriesBy
  <2>3. ASSUME NEW i \in 1..Len(Tail(ms))
        PROVE  t[i] = p[i+1] /\ t[i-1] = p[i] /\ Tail(ms)[i] = ms[i+1]
    BY <1>2, <2>3
  <2> HIDE DEF t
  <2>4. ASSUME NEW i \in 1..Len(Tail(ms))
        PROVE  IF ChunkOf(Tail(ms)[i], k)
                 THEN /\ t[i] = t[i-1] + Len(Tail(ms)[i].blocks)
                      /\ \A b \in 1..Len(Tail(ms)[i].blocks) : Tail(ms)[i].blocks[b] = t[i-1] + b
                 ELSE t[i] = t[i-1]
    BY <2>2, <2>3, <2>4
  <2> QED
    BY <2>1, <2>4 DEF CarriesBy
<1>5. Carries(Tail(ms), k, p[1], upto)
  BY <1>4 DEF Carries, CarriesBy
<1>6. IF ChunkOf(ms[1], k)
        THEN /\ p[1] = from + Len(ms[1].blocks)
             /\ \A b \in 1..Len(ms[1].blocks) : ms[1].blocks[b] = from + b
        ELSE p[1] = from
  BY <1>1, <1>2, <1>3 DEF CarriesBy
<1>7. p[1] \in 0..upto
  BY <1>2, <1>3
<1> QED
  BY <1>5, <1>6, <1>7

LEMMA HoldsTail ==
  ASSUME NEW ms \in Seq(Requests), ms # <<>>, NEW k, NEW from \in Nat, NEW upto \in Nat,
         Holds(ms, k, from, upto)
  PROVE  IF DataOf(ms[1], k)
           THEN /\ ms[1].slice.lo = from + 1
                /\ from + ms[1].slice.n <= upto
                /\ Holds(Tail(ms), k, from + ms[1].slice.n, upto)
           ELSE Holds(Tail(ms), k, from, upto)
<1>1. PICK p : HoldsBy(p, ms, k, from, upto)
  BY DEF Holds
<1> DEFINE t == [i \in 0..Len(Tail(ms)) |-> p[i+1]]
<1>2. /\ Len(ms) \in Nat /\ 1 \in 1..Len(ms) /\ Len(Tail(ms)) = Len(ms) - 1
      /\ \A i \in 1..Len(Tail(ms)) : i+1 \in 1..Len(ms) /\ Tail(ms)[i] = ms[i+1]
  OBVIOUS
<1>3. p \in [0..Len(ms) -> 0..upto] /\ p[0] = from /\ p[Len(ms)] = upto
  BY <1>1 DEF HoldsBy
<1>4. HoldsBy(t, Tail(ms), k, p[1], upto)
  <2>1. t \in [0..Len(Tail(ms)) -> 0..upto] /\ t[0] = p[1] /\ t[Len(Tail(ms))] = upto
    BY <1>2, <1>3
  <2>2. ASSUME NEW i \in 1..Len(Tail(ms))
        PROVE  IF DataOf(ms[i+1], k)
                 THEN p[i+1] = p[i] + ms[i+1].slice.n /\ ms[i+1].slice.lo = p[i] + 1
                 ELSE p[i+1] = p[i]
    <3>1. i+1 \in 1..Len(ms) /\ (i+1)-1 = i
      BY <1>2
    <3> QED
      BY <1>1, <3>1 DEF HoldsBy
  <2>3. \A i \in 1..Len(Tail(ms)) : t[i] = p[i+1] /\ t[i-1] = p[i]
    BY <1>2
  <2> QED
    BY <1>2, <2>1, <2>2, <2>3 DEF HoldsBy
<1>5. Holds(Tail(ms), k, p[1], upto)
  BY <1>4 DEF Holds, HoldsBy
<1>6. IF DataOf(ms[1], k)
        THEN p[1] = from + ms[1].slice.n /\ ms[1].slice.lo = from + 1
        ELSE p[1] = from
  BY <1>1, <1>2, <1>3 DEF HoldsBy
<1>7. p[1] \in 0..upto
  BY <1>2, <1>3
<1> QED
  BY <1>5, <1>6, <1>7

LEMMA CarriesMore ==
  ASSUME NEW ms \in Seq(Replies), NEW m \in Replies, NEW k,
         NEW from \in Nat, NEW upto \in Nat, Carries(ms, k, from, upto),
         NEW more \in Nat,
         IF ChunkOf(m, k)
           THEN more = Len(m.blocks) /\ \A b \in 1..Len(m.blocks) : m.blocks[b] = upto + b
           ELSE more = 0
  PROVE  Carries(Append(ms, m), k, from, upto + more)
<1>1. PICK p : CarriesBy(p, ms, k, from, upto)
  BY DEF Carries
<1> DEFINE q == Append(ms, m)
           last == Len(ms) + 1
           t == [i \in 0..last |-> IF i = last THEN upto + more ELSE p[i]]
<1>2. /\ Len(ms) \in Nat /\ Len(q) = last /\ q[last] = m
      /\ \A i \in 1..Len(ms) : q[i] = ms[i]
  OBVIOUS
<1>3. p \in [0..Len(ms) -> 0..upto] /\ p[0] = from /\ p[Len(ms)] = upto
  BY <1>1 DEF CarriesBy
<1>4. CarriesBy(t, q, k, from, upto + more)
  <2>1. t \in [0..last -> 0..(upto + more)] /\ t[0] = from /\ t[last] = upto + more
    BY <1>2, <1>3
  <2>2. ASSUME NEW i \in 1..Len(ms)
        PROVE  IF ChunkOf(q[i], k)
                 THEN /\ t[i] = t[i-1] + Len(q[i].blocks)
                      /\ \A b \in 1..Len(q[i].blocks) : q[i].blocks[b] = t[i-1] + b
                 ELSE t[i] = t[i-1]
    <3>1. q[i] = ms[i] /\ t[i] = p[i] /\ t[i-1] = p[i-1]
      BY <1>2
    <3> HIDE DEF q, t
    <3> QED
      BY <1>1, <3>1 DEF CarriesBy
  <2>3. t[last] = upto + more /\ t[last-1] = upto
    BY <1>2, <1>3
  <2>4. \A i \in 1..last : i \in 1..Len(ms) \/ i = last
    BY <1>2
  <2> HIDE DEF q, t
  <2>5. IF ChunkOf(q[last], k)
                 THEN /\ t[last] = t[last-1] + Len(q[last].blocks)
                      /\ \A b \in 1..Len(q[last].blocks) : q[last].blocks[b] = t[last-1] + b
                 ELSE t[last] = t[last-1]
    <3>1. CASE ChunkOf(m, k)
      BY <1>2, <2>3, <3>1
    <3>2. CASE ~ChunkOf(m, k)
      BY <1>2, <2>3, <3>2
    <3> QED
      BY <3>1, <3>2
  <2>6. ASSUME NEW i \in 1..last
        PROVE  IF ChunkOf(q[i], k)
                 THEN /\ t[i] = t[i-1] + Len(q[i].blocks)
                      /\ \A b \in 1..Len(q[i].blocks) : q[i].blocks[b] = t[i-1] + b
                 ELSE t[i] = t[i-1]
    BY <2>2, <2>4, <2>5
  <2> QED
    BY <1>2, <2>1, <2>6 DEF CarriesBy
<1> QED
  BY <1>2, <1>4 DEF Carries, CarriesBy

LEMMA HoldsMore ==
  ASSUME NEW ms \in Seq(Requests), NEW m \in Requests, NEW k,
         NEW from \in Nat, NEW upto \in Nat, Holds(ms, k, from, upto),
         NEW more \in Nat,
         IF DataOf(m, k) THEN more = m.slice.n /\ m.slice.lo = upto + 1 ELSE more = 0
  PROVE  Holds(Append(ms, m), k, from, upto + more)
<1>1. PICK p : HoldsBy(p, ms, k, from, upto)
  BY DEF Holds
<1> DEFINE q == Append(ms, m)
           last == Len(ms) + 1
           t == [i \in 0..last |-> IF i = last THEN upto + more ELSE p[i]]
<1>2. /\ Len(ms) \in Nat /\ Len(q) = last /\ q[last] = m
      /\ \A i \in 1..Len(ms) : q[i] = ms[i]
  OBVIOUS
<1>3. p \in [0..Len(ms) -> 0..upto] /\ p[0] = from /\ p[Len(ms)] = upto
  BY <1>1 DEF HoldsBy
<1>4. HoldsBy(t, q, k, from, upto + more)
  <2>1. t \in [0..last -> 0..(upto + more)] /\ t[0] = from /\ t[last] = upto + more
    BY <1>2, <1>3
  <2>2. ASSUME NEW i \in 1..Len(ms)
        PROVE  IF DataOf(q[i], k)
                 THEN t[i] = t[i-1] + q[i].slice.n /\ q[i].slice.lo = t[i-1] + 1
                 ELSE t[i] = t[i-1]
    <3>1. q[i] = ms[i] /\ t[i] = p[i] /\ t[i-1] = p[i-1]
      BY <1>2
    <3> HIDE DEF q, t
    <3> QED
      BY <1>1, <3>1 DEF HoldsBy
  <2>3. t[last] = upto + more /\ t[last-1] = upto
    BY <1>2, <1>3
  <2>4. \A i \in 1..last : i \in 1..Len(ms) \/ i = last
    BY <1>2
  <2> HIDE DEF q, t
  <2>5. IF DataOf(q[last], k)
                 THEN t[last] = t[last-1] + q[last].slice.n /\ q[last].slice.lo = t[last-1] + 1
                 ELSE t[last] = t[last-1]
    BY <1>2, <2>3
  <2>6. ASSUME NEW i \in 1..last
        PROVE  IF DataOf(q[i], k)
                 THEN t[i] = t[i-1] + q[i].slice.n /\ q[i].slice.lo = t[i-1] + 1
                 ELSE t[i] = t[i-1]
    BY <2>2, <2>4, <2>5
  <2> QED
    BY <1>2, <2>1, <2>6 DEF HoldsBy
<1> QED
  BY <1>2, <1>4 DEF Holds, HoldsBy

-----------------------------------------------------------------------------
(* The active stream, from the slices its caller pushed to the blocks fed.  *)

\* What a worker does before it is up.
LoadInv == /\ ready = "none" => worker = "off" /\ toClient = <<>>
           /\ worker = "loading" => ready = "pending" /\ toClient = <<>>

\* The client has still to hear that the stream failed on the worker.
Broken == \E i \in 1..Len(toClient) : Output(i) /\ toClient[i].type = "error"

\* The worker holds blocks d+1 .. e of stream cur, collected or still to decode.
Decoding(d, e) ==
  IF streamId = cur
    THEN /\ \A b \in 1..Len(batch) : batch[b] = d + b
         /\ IF InWork THEN work.lo = d + Len(batch) + 1 /\ e = d + Len(batch) + work.n
                      ELSE batch = <<>> /\ e = d
    ELSE e = d

\* All blocks given are on their way, in order: fed, posted by the worker, in
\* its hands, still to be received; after an error those posted before it are.
OutFlow ==
  \E d \in 0..given[cur] :
    /\ Carries(toClient, cur, Len(fed[cur]), d)
    /\ Broken \/ \E e \in d..given[cur] : Decoding(d, e) /\ Holds(toWorker, cur, e, given[cur])

\* The worker starts the stream before it receives anything of it, and is not
\* told to give it up.
StartFlow ==
  /\ streamId # cur =>
       \E s \in 1..Len(toWorker) :
         /\ Start(s) /\ toWorker[s].id = cur
         /\ \A j \in 1..Len(toWorker) : Input(j) => s < j
  /\ \A j \in 1..Len(toWorker) : toWorker[j].type = "cancel" => toWorker[j].id # cur

\* The final slice is the last one, and the caller waits for it.
FinalFlow ==
  /\ \A j \in 1..Len(toWorker) :
       Input(j) /\ toWorker[j].slice.final => final /\ toWorker[j].slice.seq = seq - 1
  /\ InWork /\ work.final => final /\ work.seq = seq - 1
  /\ caller = "reading" => ~final
  /\ ~Broken /\ streamId = cur /\ ~decoder =>
       /\ final /\ caller = "waiting"
       /\ \A j \in 1..Len(toWorker) : ~Input(j)

FlowInv == active # NoStream => OutFlow /\ StartFlow /\ FinalFlow

\* What was fed, and what the in-thread decoder has in hand.
FedInOrder(k) == fed[k] = [b \in 1..Len(fed[k]) |-> b]
NothingGiven(k) == fed[k] = <<>> /\ given[k] = 0
FeedInv ==
  /\ \A k \in Streams : FedInOrder(k)
  /\ \A k \in Streams : k > cur \/ (k = cur /\ ~started) => NothingGiven(k)
  /\ caller = "begin" => /\ fed[cur] = <<>> /\ slice.lo = 1 /\ given[cur] = slice.n
                         /\ slice.final = final
  /\ caller = "local" => /\ slice.lo = Len(fed[cur]) + 1
                         /\ given[cur] = Len(fed[cur]) + slice.n
                         /\ slice.final = final
  /\ caller = "reading" /\ local => Len(fed[cur]) = given[cur]
  /\ local => ~failure

DecodeInv == IInv /\ OrderInv /\ LoadInv /\ FlowInv /\ FeedInv

LEMMA LoadInvStep ==
  ASSUME IInv, LoadInv, [Next]_vars
  PROVE  LoadInv'
<1> USE DEF LoadInv
<1>1. CASE UNCHANGED <<ready, worker, toClient>>
  BY <1>1
<1>2. CASE PushSlice
  BY <1>2 DEF PushSlice, Push, PushFirst, PushToWorker, PushLocal, shared
<1>3. CASE HandleReply
  <2>1. toClient # <<>>
    BY <1>3 DEF HandleReply, HandleReady, HandleChunk, HandleChunkThrow, HandleConsumed,
                HandleDecodeError, HandleStale, Reply
  <2>2. UNCHANGED worker /\ (UNCHANGED ready \/ ready' = "yes")
    BY <1>3 DEF HandleReply, HandleReady, HandleChunk, HandleChunkThrow, HandleConsumed,
                HandleDecodeError, HandleStale, shared
  <2> QED
    BY <2>1, <2>2
<1>4. CASE HandleWorkerError
  BY <1>4 DEF HandleWorkerError, GiveUp
<1>5. CASE WorkerLoad \/ WorkerCrash
  BY <1>5 DEF WorkerLoad, WorkerCrash, shared
<1>6. CASE Worker
  <2>1. worker = "up" /\ UNCHANGED <<worker, ready>>
    BY <1>6 DEF Worker, WorkerStart, WorkerCancel, WorkerAccept, WorkerDrop, Receive,
                WorkerCollect, WorkerFinish, WorkerThrow, shared
  <2> QED
    BY <2>1
<1>7. CASE OpenStream \/ PushThrows \/ Cancel \/ Begin \/ Local \/ UNCHANGED vars
  BY <1>1, <1>7 DEF OpenStream, PushThrows, Cancel, Begin, BeginOnWorker, BeginLocal, Local,
                    LocalFeed, LocalReturn, LocalThrow, vars, shared
<1> QED
  BY <1>2, <1>3, <1>4, <1>5, <1>6, <1>7 DEF Next

\* A stream becomes active when it begins on the worker.
LEMMA StillActive ==
  ASSUME IInv, LoadInv, [Next]_vars, active' # NoStream, ~BeginOnWorker
  PROVE  /\ active # NoStream /\ UNCHANGED <<active, cur>> /\ active = cur /\ cur \in Streams
         /\ started /\ ~local /\ ~failure /\ caller \in {"reading", "waiting"}
         /\ \/ \E s \in Slices : /\ s.id = cur /\ s.seq = seq /\ s.lo = given[cur] + 1
                                 /\ PushToWorker(s)
            \/ HandleReady \/ HandleChunk \/ HandleConsumed \/ HandleStale
            \/ Worker \/ WorkerCrash \/ UNCHANGED vars
<1>0. /\ ClientInv /\ TypeInv /\ ClientTypes
  BY DEF IInv, TypeInv
<1>1. active # NoStream /\ active' = active /\ active = cur /\ cur' = cur
  <2>1. CASE PushSlice
    <3>1. PICK s \in Slices : Push(s)
      BY <1>0, <2>1, PushedSlice
    <3> QED
      BY <1>0, <3>1 DEF Push, PushFirst, PushToWorker, PushLocal, shared, ClientInv
  <2>2. CASE OpenStream \/ PushThrows \/ Cancel
    BY <1>0, <2>2 DEF OpenStream, PushThrows, Cancel, shared, ClientInv
  <2>3. CASE HandleReady \/ HandleConsumed
    BY <1>0, <2>3 DEF HandleReady, HandleConsumed, ClientInv
  <2>4. CASE HandleChunkThrow \/ HandleDecodeError \/ HandleWorkerError
    BY <1>0, <2>4 DEF HandleChunkThrow, HandleDecodeError, HandleWorkerError, Fail,
                      ForActive, ClientInv
  <2> QED
    BY <1>0, <2>1, <2>2, <2>3, <2>4, ClientFrame DEF ClientInv
<1>2. /\ started /\ ~local /\ ~failure /\ caller \in {"reading", "waiting"} /\ ready = "yes"
      /\ cur \in Streams
  BY <1>0, <1>1 DEF ClientInv, ClientTypes
<1>3. CASE PushSlice
  <2>1. PICK s \in Slices : /\ s.id = cur /\ s.seq = seq /\ s.lo = given[cur] + 1
                            /\ Push(s)
    BY <1>0, <1>3, PushedSlice
  <2>2. PushToWorker(s)
    BY <1>2, <2>1 DEF Push, PushFirst, PushLocal
  <2> QED
    BY <1>1, <1>2, <2>1, <2>2
<1>4. ~(OpenStream \/ PushThrows \/ Cancel \/ BeginLocal \/ Local \/ HandleChunkThrow
        \/ HandleDecodeError \/ HandleWorkerError \/ WorkerLoad)
  <2>1. ~(OpenStream \/ BeginLocal \/ Local \/ WorkerLoad)
    BY <1>2 DEF OpenStream, BeginLocal, Local, LocalFeed, LocalReturn, LocalThrow, WorkerLoad,
                LoadInv
  <2>2. ~(PushThrows \/ Cancel)
    BY <1>0, <1>1, <1>2 DEF PushThrows, Cancel
  <2>3. ~(HandleChunkThrow \/ HandleDecodeError \/ HandleWorkerError)
    BY <1>0, <1>1, <1>2 DEF HandleChunkThrow, HandleDecodeError, HandleWorkerError, Fail
  <2> QED
    BY <2>1, <2>2, <2>3
<1> QED
  BY <1>1, <1>2, <1>3, <1>4 DEF Next, Begin, HandleReply

\* A stream that failed on the worker is out of its hands.
LEMMA BrokenFacts ==
  ASSUME IInv, OrderInv, Broken
  PROVE  streamId = cur /\ ~decoder /\ work = NoSlice
<1>1. PICK i \in 1..Len(toClient) : Output(i) /\ toClient[i].type = "error"
  BY DEF Broken
<1>2. toClient[i].id = cur /\ toClient[i].type # "ready" /\ toClient[i].id \in Streams
  <2>1. toClient \in Seq(Replies)
    BY DEF IInv, TypeInv, QueueTypes
  <2> QED
    BY <1>1, <2>1, ReplyFacts DEF Output
<1>3. cur <= streamId /\ cur \in Nat
  BY <1>2, StreamsFacts DEF OrderInv, ErrorInv
<1>4. streamId \in Int /\ (streamId # NoStream => streamId <= cur)
  BY StreamsFacts DEF IInv, IdInv, Past, TypeInv, WorkerTypes
<1>5. streamId = cur
  BY <1>3, <1>4, StreamsFacts
<1> QED
  BY <1>1, <1>2, <1>5 DEF OrderInv, ErrorInv

\* Types the steps below go by.
LEMMA FlowTypes ==
  ASSUME IInv, cur \in Streams
  PROVE  /\ toClient \in Seq(Replies) /\ toWorker \in Seq(Requests)
         /\ batch \in Seq(Nat) /\ seq \in Nat
         /\ given[cur] \in Nat /\ fed[cur] \in Seq(Nat) /\ Len(fed[cur]) \in Nat
         /\ streamId \in Streams \cup {NoStream}
         /\ InWork => work \in Slices /\ work.lo \in Nat /\ work.n \in Nat
<1>1. InWork => work \in Slices
  BY DEF IInv, TypeInv, WorkerTypes, InWork
<1> QED
  BY <1>1, SliceFacts
     DEF IInv, TypeInv, QueueTypes, WorkerTypes, HistoryTypes, ClientTypes

LEMMA AppendedOne ==
  ASSUME NEW S, NEW q \in Seq(S), NEW m \in S
  PROVE  q \o <<m>> = Append(q, m)
  OBVIOUS

\* What begin and push post, one request after the other.
LEMMA AppendedPair ==
  ASSUME NEW S, NEW q \in Seq(S), NEW m \in S, NEW p \in S
  PROVE  q \o (<<m>> \o <<p>>) = Append(Append(q, m), p)
<1> DEFINE l == q \o (<<m>> \o <<p>>)
           r == Append(Append(q, m), p)
<1>1. <<m>> \in Seq(S) /\ <<p>> \in Seq(S) /\ <<m>> \o <<p>> \in Seq(S)
  OBVIOUS
<1>2. l \in Seq(S) /\ r \in Seq(S)
  BY <1>1
<1>3. Len(l) = Len(q) + 2 /\ Len(r) = Len(q) + 2
  BY <1>1
<1>4. ASSUME NEW i \in 1..Len(q) + 2 PROVE l[i] = r[i]
  BY <1>1
<1> HIDE DEF l, r
<1>5. Len(l) = Len(r) /\ \A i \in 1..Len(l) : l[i] = r[i]
  BY <1>3, <1>4
<1>6. l = r
  BY <1>2, <1>5, SeqEqual
<1> QED
  BY <1>6 DEF l, r

\* A stream begins on the worker.
LEMMA FlowBegun ==
  ASSUME IInv, FeedInv, BeginOnWorker
  PROVE  (OutFlow /\ StartFlow /\ FinalFlow)'
<1> DEFINE m == [type |-> "start", id |-> cur]
           p == [type |-> "data", id |-> cur, slice |-> slice]
           n == slice.n
<1>1. /\ cur \in Streams /\ slice \in Slices /\ slice.seq = 0 /\ Fresh /\ seq = 0
      /\ caller = "begin"
  BY StreamsFacts DEF BeginOnWorker, IInv, TypeInv, ClientTypes, CallerTypes,
                      ClientInv, Fresh
<1>2. /\ toClient \in Seq(Replies) /\ toWorker \in Seq(Requests)
      /\ n \in Nat /\ slice.final \in BOOLEAN
  BY <1>1, FlowTypes, SliceFacts
<1>3. /\ fed[cur] = <<>> /\ slice.lo = 1 /\ given[cur] = n /\ slice.final = final
  BY <1>1 DEF FeedInv
<1>4. /\ toWorker' = toWorker \o (<<m>> \o <<p>>)
      /\ seq' = 1
      /\ caller' = AfterPush(inFlight + 1, slice.final)
      /\ UNCHANGED <<cur, toClient, work, streamId, decoder, batch, fed, given, final>>
  BY <1>1 DEF BeginOnWorker, Send, Post, decoding, history
<1>5. /\ m \in Requests /\ p \in Requests
      /\ m.type = "start" /\ m.id = cur /\ ~DataOf(m, cur)
      /\ p.type = "data" /\ DataOf(p, cur) /\ p.slice = slice
  BY <1>1 DEF Requests, DataOf
<1> HIDE DEF m, p
<1>6. /\ \A i \in 1..Len(toClient) : toClient[i].type # "ready" => toClient[i].id # cur
      /\ \A j \in 1..Len(toWorker) : toWorker[j].id # cur
      /\ streamId # cur
  BY <1>1, StreamsFacts DEF IInv, IdInv, Past
<1>7. toWorker' = Append(Append(toWorker, m), p)
  BY <1>2, <1>4, <1>5, AppendedPair
<1>8. /\ Len(toWorker) \in Nat /\ Len(toWorker') = Len(toWorker) + 2
      /\ \A j \in 1..Len(toWorker) : toWorker'[j] = toWorker[j]
      /\ toWorker'[Len(toWorker)+1] = m /\ toWorker'[Len(toWorker)+2] = p
  BY <1>2, <1>5, <1>7
<1>9. Carries(toClient, cur, 0, 0)
  BY <1>2, <1>6, CarriesNone DEF ChunkOf
<1>10. Holds(toWorker', cur, 0, n)
  <2>1. Holds(toWorker, cur, 0, 0)
    BY <1>2, <1>6, HoldsNone DEF DataOf
  <2>2. Holds(Append(toWorker, m), cur, 0, 0 + 0)
    BY <1>2, <1>5, <2>1, HoldsMore
  <2>3. Append(toWorker, m) \in Seq(Requests)
    BY <1>2, <1>5
  <2>4. Holds(Append(Append(toWorker, m), p), cur, 0, 0 + n)
    <3>1. Holds(Append(toWorker, m), cur, 0, 0) /\ n = p.slice.n /\ p.slice.lo = 0 + 1
      BY <1>2, <1>3, <1>5, <2>2
    <3> HIDE DEF n
    <3> QED
      BY <1>2, <1>5, <2>3, <3>1, HoldsMore
  <2> QED
    BY <1>2, <1>7, <2>4
<1>11. OutFlow'
  <2>1. Decoding(0, 0)'
    BY <1>4, <1>6 DEF Decoding
  <2>2. 0 \in 0..given'[cur'] /\ 0 \in 0..n /\ given'[cur'] = n
    BY <1>2, <1>3, <1>4
  <2>3. Carries(toClient', cur', Len(fed'[cur']), 0) /\ Holds(toWorker', cur', 0, given'[cur'])
    BY <1>3, <1>4, <1>9, <1>10
  <2> QED
    BY <2>1, <2>2, <2>3 DEF OutFlow
<1>12. \A j \in 1..Len(toWorker') : Input(j)' => j = Len(toWorker) + 2 /\ toWorker'[j] = p
  BY <1>4, <1>5, <1>6, <1>8 DEF Input
<1>13. StartFlow'
  <2>1. PICK k \in 1..Len(toWorker') : k = Len(toWorker)+1
    BY <1>8
  <2>2. Start(k)' /\ toWorker'[k].id = cur
    BY <1>5, <1>8, <2>1 DEF Start
  <2>3. \A j \in 1..Len(toWorker') : Input(j)' => k < j
    BY <1>8, <1>12, <2>1
  <2>4. \A j \in 1..Len(toWorker') : toWorker'[j].type = "cancel" => toWorker'[j].id # cur
    BY <1>5, <1>6, <1>8, SMTT(40)
  <2> QED
    BY <1>4, <2>1, <2>2, <2>3, <2>4 DEF StartFlow
<1>14. FinalFlow'
  <2>1. caller' = "reading" => ~final
    BY <1>3, <1>4 DEF AfterPush, WindowOpen, IInv, TypeInv, ClientTypes
  <2>2. ~InWork' /\ streamId' # cur'
    BY <1>4, <1>6 DEF InWork
  <2> QED
    BY <1>1, <1>3, <1>4, <1>5, <1>12, <2>1, <2>2 DEF FinalFlow
<1> QED
  BY <1>11, <1>13, <1>14

\* The next slice is posted.
LEMMA FlowSent ==
  ASSUME IInv, OutFlow, StartFlow, FinalFlow, cur \in Streams,
         NEW s \in Slices, s.seq = seq, s.lo = given[cur] + 1, PushToWorker(s)
  PROVE  (OutFlow /\ StartFlow /\ FinalFlow)'
<1> DEFINE m == [type |-> "data", id |-> cur, slice |-> s]
<1>1. /\ toClient \in Seq(Replies) /\ toWorker \in Seq(Requests)
      /\ given[cur] \in Nat /\ s.n \in Nat /\ s.final \in BOOLEAN /\ seq \in Nat
  BY FlowTypes, SliceFacts
<1>2. /\ toWorker' = toWorker \o (<<>> \o <<m>>)
      /\ seq' = seq + 1 /\ final' = s.final /\ caller = "reading"
      /\ caller' = AfterPush(inFlight + 1, s.final)
      /\ UNCHANGED <<cur, toClient, work, streamId, decoder, batch, fed>>
      /\ given' = [given EXCEPT ![cur] = @ + s.n]
  BY DEF PushToWorker, NextSlice, Send, Post, shared, decoding
<1>3. m \in Requests /\ m.type = "data" /\ DataOf(m, cur) /\ m.slice = s
  BY DEF Requests, DataOf
<1> HIDE DEF m
<1>4. toWorker' = Append(toWorker, m)
  <2>1. <<>> \o <<m>> = <<m>>
    OBVIOUS
  <2> QED
    BY <1>1, <1>2, <1>3, <2>1
<1>5. /\ Len(toWorker) \in Nat /\ Len(toWorker') = Len(toWorker) + 1
      /\ \A j \in 1..Len(toWorker) : toWorker'[j] = toWorker[j]
      /\ toWorker'[Len(toWorker)+1] = m
  BY <1>1, <1>3, <1>4
<1>6. given'[cur'] = given[cur] + s.n
  BY <1>2 DEF IInv, TypeInv, HistoryTypes
<1>7. OutFlow'
  <2>1. PICK d \in 0..given[cur] :
          /\ Carries(toClient, cur, Len(fed[cur]), d)
          /\ Broken \/ \E e \in d..given[cur] :
                         Decoding(d, e) /\ Holds(toWorker, cur, e, given[cur])
    BY DEF OutFlow
  <2>2. Broken' <=> Broken
    BY <1>2 DEF Broken, Output
  <2>3. ASSUME NEW e \in d..given[cur], Decoding(d, e), Holds(toWorker, cur, e, given[cur])
        PROVE  Decoding(d, e)' /\ Holds(toWorker', cur, e, given[cur] + s.n)
    <3>1. Holds(Append(toWorker, m), cur, e, given[cur] + s.n)
      <4>1. e \in Nat
        BY <1>1
      <4> QED
        BY <1>1, <1>3, <2>3, <4>1, HoldsMore
    <3>2. Decoding(d, e)'
      BY <1>2, <2>3 DEF Decoding, InWork
    <3> QED
      BY <1>4, <3>1, <3>2
  <2>4. d \in 0..given'[cur'] /\ \A e \in d..given[cur] : e \in d..given'[cur']
    BY <1>1, <1>6
  <2>5. Carries(toClient', cur', Len(fed'[cur']), d)
    BY <1>2, <2>1
  <2>6. Broken' \/ \E e \in d..given'[cur'] : Decoding(d, e)' /\ Holds(toWorker', cur', e, given'[cur'])
    BY <1>2, <1>6, <2>1, <2>2, <2>3, <2>4
  <2> QED
    BY <2>4, <2>5, <2>6 DEF OutFlow
<1>8. \A j \in 1..Len(toWorker') : 
        \/ j \in 1..Len(toWorker) /\ toWorker'[j] = toWorker[j] /\ (Input(j)' <=> Input(j))
        \/ j = Len(toWorker) + 1 /\ toWorker'[j] = m
  BY <1>2, <1>5 DEF Input
<1>9. StartFlow'
  <2>1. ASSUME streamId # cur
        PROVE  \E k \in 1..Len(toWorker') :
                 /\ Start(k)' /\ toWorker'[k].id = cur
                 /\ \A j \in 1..Len(toWorker') : Input(j)' => k < j
    <3>1. PICK k \in 1..Len(toWorker) :
            /\ Start(k) /\ toWorker[k].id = cur
            /\ \A j \in 1..Len(toWorker) : Input(j) => k < j
      BY <2>1 DEF StartFlow
    <3>2. k \in 1..Len(toWorker') /\ Start(k)' /\ toWorker'[k].id = cur /\ k < Len(toWorker)+1
      BY <1>5, <3>1 DEF Start
    <3> QED
      BY <1>8, <3>1, <3>2
  <2>2. \A j \in 1..Len(toWorker') : toWorker'[j].type = "cancel" => toWorker'[j].id # cur
    BY <1>3, <1>8 DEF StartFlow
  <2> QED
    BY <1>2, <2>1, <2>2 DEF StartFlow
<1>10. FinalFlow'
  <2>1. ~final
    BY <1>2 DEF FinalFlow
  <2>2. caller' = "reading" => ~final'
    BY <1>1, <1>2 DEF AfterPush, WindowOpen, IInv, TypeInv, ClientTypes
  <2>3. ~(InWork' /\ work'.final)
    BY <1>2, <2>1 DEF FinalFlow, InWork
  <2>4. \A j \in 1..Len(toWorker') :
          Input(j)' /\ toWorker'[j].slice.final => final' /\ toWorker'[j].slice.seq = seq' - 1
    BY <1>1, <1>2, <1>3, <1>8, <2>1 DEF FinalFlow
  <2>5. Broken' \/ streamId' # cur' \/ decoder'
    <3>1. Broken' <=> Broken
      BY <1>2 DEF Broken, Output
    <3> QED
      BY <1>2, <3>1 DEF FinalFlow
  <2> QED
    BY <2>2, <2>3, <2>4, <2>5 DEF FinalFlow
<1> QED
  BY <1>7, <1>9, <1>10

\* The blocks after 1 .. Len(f) make 1 .. Len(f) + Len(g).
LEMMA CountOn ==
  ASSUME NEW f \in Seq(Nat), NEW g \in Seq(Nat),
         \A b \in 1..Len(f) : f[b] = b, \A b \in 1..Len(g) : g[b] = Len(f) + b
  PROVE  f \o g = [b \in 1..Len(f) + Len(g) |-> b]
<1> DEFINE L == Len(f)
           n == L + Len(g)
           l == f \o g
           r == [b \in 1..n |-> b]
<1>1. l \in Seq(Nat) /\ Len(l) = n /\ L \in Nat /\ n \in Nat
  OBVIOUS
<1>2. r \in Seq(Nat) /\ Len(r) = n
  <2>1. r \in [1..n -> Nat]
    OBVIOUS
  <2> QED
    BY <1>1, <2>1, SeqDef
<1>3. ASSUME NEW b \in 1..n PROVE l[b] = r[b]
  <2>1. CASE b \in 1..L
    <3>1. l[b] = f[b]
      BY <2>1
    <3> QED
      BY <2>1, <3>1
  <2>2. CASE b \notin 1..L
    <3>1. b - L \in 1..Len(g)
      BY <2>2
    <3>2. l[b] = g[b - L]
      BY <2>2, <3>1
    <3> QED
      BY <3>1, <3>2
  <2> QED
    BY <2>1, <2>2
<1> HIDE DEF l, r
<1>4. Len(l) = Len(r) /\ \A b \in 1..Len(l) : l[b] = r[b]
  BY <1>1, <1>2, <1>3
<1>5. l = r
  BY <1>1, <1>2, <1>4, SeqEqual
<1> QED
  BY <1>5 DEF l, r

\* A chunk is fed.
LEMMA ChunkFed ==
  ASSUME IInv, OutFlow, cur \in Streams, HandleChunk, FedInOrder(cur)
  PROVE  \E n \in Len(fed[cur]) .. given[cur] :
           /\ fed' = [fed EXCEPT ![cur] = [b \in 1..n |-> b]]
           /\ n = Len(fed[cur]) + Len(toClient[1].blocks) /\ ChunkOf(toClient[1], cur)
<1>1. PICK d \in 0..given[cur] : Carries(toClient, cur, Len(fed[cur]), d)
  BY DEF OutFlow
<1>2. /\ toClient \in Seq(Replies) /\ fed[cur] \in Seq(Nat) /\ Len(fed[cur]) \in Nat
      /\ given[cur] \in Nat /\ d \in Nat
  BY <1>1, FlowTypes
<1> DEFINE m == toClient[1]
           g == m.blocks
           L == Len(fed[cur])
           n == L + Len(g)
<1>3. /\ toClient # <<>> /\ m \in Replies /\ ChunkOf(m, cur) /\ g \in Seq(Nat)
      /\ fed' = [fed EXCEPT ![cur] = @ \o g]
  <2>1. toClient # <<>> /\ Head(toClient) = m /\ m \in Replies
    BY <1>2 DEF HandleChunk, Reply
  <2>2. m.type = "chunk" /\ m.id = cur
    BY <2>1 DEF HandleChunk, Reply, ForActive, IInv, ClientInv
  <2> QED
    BY <2>1, <2>2, ReplyFacts DEF HandleChunk, ChunkOf
<1>4. /\ \A b \in 1..Len(g) : g[b] = L + b
      /\ n <= d
  BY <1>1, <1>2, <1>3, CarriesTail
<1>5. L \in Nat /\ n \in Nat /\ n \in L .. given[cur]
  <2>1. Len(g) \in Nat
    BY <1>3
  <2> HIDE DEF g
  <2> QED
    BY <1>1, <1>2, <1>4, <2>1
<1>6. \A b \in 1..L : fed[cur][b] = b
  BY <1>2 DEF FedInOrder
<1>7. fed[cur] \o g = [b \in 1..n |-> b]
  <2>1. L = Len(fed[cur]) /\ n = L + Len(g)
    OBVIOUS
  <2> HIDE DEF g, L, n
  <2> QED
    BY <1>2, <1>3, <1>4, <1>5, <1>6, <2>1, CountOn
<1> HIDE DEF g, n
<1> QED
  BY <1>3, <1>5, <1>7 DEF g, n

\* The client takes a reply off its queue.
LEMMA FlowHandled ==
  ASSUME IInv, FeedInv, OutFlow, StartFlow, FinalFlow, cur \in Streams, active = cur,
         active' = cur, cur' = cur, caller \in {"reading", "waiting"},
         HandleReady \/ HandleChunk \/ HandleConsumed \/ HandleStale
  PROVE  (OutFlow /\ StartFlow /\ FinalFlow)'
<1>1. /\ toClient \in Seq(Replies) /\ toWorker \in Seq(Requests)
      /\ given[cur] \in Nat /\ Len(fed[cur]) \in Nat
  BY FlowTypes
<1>2. /\ toClient # <<>> /\ toClient' = Tail(toClient)
      /\ UNCHANGED <<toWorker, seq, work, streamId, decoder, batch, given, final>>
  BY DEF HandleReady, HandleChunk, HandleConsumed, HandleStale, Reply, stream, decoding, history
<1>3. /\ 1 \in 1..Len(toClient) /\ Len(toClient) \in Nat /\ Len(toClient') = Len(toClient) - 1
      /\ \A i \in 1..Len(toClient') : i+1 \in 2..Len(toClient) /\ toClient'[i] = toClient[i+1]
      /\ Head(toClient) = toClient[1]
  BY <1>1, <1>2
<1>4. ~(Output(1) /\ toClient[1].type = "error")
  BY <1>3, StreamsFacts DEF HandleReady, HandleChunk, HandleConsumed, HandleStale, Reply, ForActive, Output
<1>5. Broken' <=> Broken
  <2>1. \A i \in 1..Len(toClient') : Output(i)' <=> Output(i+1)
    BY <1>3 DEF Output
  <2>2. Broken' => Broken
    BY <1>3, <2>1 DEF Broken
  <2>3. ASSUME NEW i \in 1..Len(toClient), Output(i), toClient[i].type = "error"
        PROVE  Broken'
    <3>1. i # 1
      BY <1>4, <2>3
    <3>2. PICK j \in 1..Len(toClient') : j + 1 = i
      <4>1. i - 1 \in 1..Len(toClient') /\ (i - 1) + 1 = i
        BY <1>3, <3>1
      <4> QED
        BY <4>1
    <3> QED
      BY <1>3, <2>1, <2>3, <3>2 DEF Broken
  <2> QED
    BY <2>2, <2>3 DEF Broken
<1>6. OutFlow'
  <2>1. PICK d \in 0..given[cur] :
          /\ Carries(toClient, cur, Len(fed[cur]), d)
          /\ Broken \/ \E e \in d..given[cur] :
                         Decoding(d, e) /\ Holds(toWorker, cur, e, given[cur])
    BY DEF OutFlow
  <2>2. d \in Nat
    BY <1>1
  <2>3. Carries(toClient', cur, Len(fed'[cur]), d)
    <3>1. CASE HandleChunk
      <4>1. PICK n \in Len(fed[cur]) .. given[cur] :
              /\ fed' = [fed EXCEPT ![cur] = [b \in 1..n |-> b]]
              /\ n = Len(fed[cur]) + Len(toClient[1].blocks) /\ ChunkOf(toClient[1], cur)
        BY <3>1, ChunkFed DEF FeedInv
      <4>2. n \in Nat /\ fed'[cur] = [b \in 1..n |-> b]
        BY <1>1, <4>1 DEF IInv, TypeInv, HistoryTypes
      <4>3. Len(fed'[cur]) = n
        BY <4>2
      <4>4. Carries(Tail(toClient), cur, Len(fed[cur]) + Len(toClient[1].blocks), d)
        BY <1>1, <1>2, <2>1, <2>2, <4>1, CarriesTail
      <4> QED
        BY <1>2, <4>1, <4>3, <4>4
    <3>2. CASE ~HandleChunk
      <4>1. ~ChunkOf(toClient[1], cur) /\ fed' = fed
        BY <1>3, <3>2, StreamsFacts
           DEF HandleReady, HandleConsumed, HandleStale, Reply, ForActive, ChunkOf, history
      <4> QED
        BY <1>1, <1>2, <2>1, <2>2, <4>1, CarriesTail
    <3> QED
      BY <3>1, <3>2
  <2>4. ASSUME NEW e \in d..given[cur], Decoding(d, e), Holds(toWorker, cur, e, given[cur])
        PROVE  Decoding(d, e)' /\ Holds(toWorker', cur', e, given'[cur'])
    <3>1. Decoding(d, e)'
      BY <1>2, <2>4 DEF Decoding, InWork
    <3> QED
      BY <1>2, <2>4, <3>1
  <2>5. Carries(toClient', cur', Len(fed'[cur']), d) /\ given'[cur'] = given[cur]
    BY <1>2, <2>3
  <2>6. Broken' \/ \E e \in d..given'[cur'] : Decoding(d, e)' /\ Holds(toWorker', cur', e, given'[cur'])
    BY <1>5, <2>1, <2>4, <2>5
  <2> QED
    BY <2>5, <2>6 DEF OutFlow
<1>7. \A j \in 1..Len(toWorker) : (Input(j)' <=> Input(j)) /\ (Start(j)' <=> Start(j))
  BY <1>2 DEF Input, Start
<1>8. StartFlow'
  BY <1>2, <1>7 DEF StartFlow
<1>9. FinalFlow'
  <2>1. /\ caller' = "reading" => ~final
        /\ final /\ caller = "waiting" => caller' = "waiting"
    <3>1. CASE HandleConsumed
      <4>1. caller' # "done"
        BY <3>1, StreamsFacts DEF HandleConsumed
      <4> QED
        BY <3>1, <4>1 DEF HandleConsumed, AfterPush, FinalFlow
    <3>2. CASE ~HandleConsumed
      BY <3>2 DEF HandleReady, HandleChunk, HandleStale, FinalFlow
    <3> QED
      BY <3>1, <3>2
  <2>2. InWork' <=> InWork
    BY <1>2 DEF InWork
  <2> QED
    BY <1>2, <1>5, <1>7, <2>1, <2>2 DEF FinalFlow
<1> QED
  BY <1>6, <1>8, <1>9

\* The worker takes a request off its queue.
LEMMA FlowReceived ==
  ASSUME IInv, OrderInv, OutFlow, StartFlow, FinalFlow, cur \in Streams,
         WorkerStart \/ WorkerCancel \/ WorkerAccept \/ WorkerDrop
  PROVE  (OutFlow /\ StartFlow /\ FinalFlow)'
<1>1. /\ toClient \in Seq(Replies) /\ toWorker \in Seq(Requests)
      /\ given[cur] \in Nat /\ Len(fed[cur]) \in Nat
  BY FlowTypes
<1>2. /\ work = NoSlice /\ toWorker # <<>> /\ toWorker' = Tail(toWorker)
      /\ UNCHANGED <<cur, seq, caller, toClient, given, fed, final>>
  BY DEF WorkerStart, WorkerCancel, WorkerAccept, WorkerDrop, Receive, stream, history
<1>3. /\ 1 \in 1..Len(toWorker) /\ Len(toWorker) \in Nat /\ Len(toWorker') = Len(toWorker) - 1
      /\ \A j \in 1..Len(toWorker') : j+1 \in 2..Len(toWorker) /\ toWorker'[j] = toWorker[j+1]
      /\ \A j \in 2..Len(toWorker) : j-1 \in 1..Len(toWorker') /\ toWorker'[j-1] = toWorker[j]
      /\ Head(toWorker) = toWorker[1]
  BY <1>1, <1>2
<1>4. Broken' <=> Broken
  BY <1>2 DEF Broken, Output
<1>5. \A j \in 1..Len(toWorker') : (Input(j)' <=> Input(j+1)) /\ (Start(j)' <=> Start(j+1))
  BY <1>2, <1>3 DEF Input, Start
<1>6. \/ WorkerStart /\ streamId # cur /\ streamId' = toWorker[1].id /\ Start(1)
         /\ decoder' /\ batch' = <<>> /\ ~InWork'
      \/ /\ UNCHANGED streamId /\ ~Start(1) /\ ~WorkerStart
         /\ streamId = cur => UNCHANGED <<decoder, batch>>
  <2>1. CASE WorkerStart
    <3>1. Start(1) /\ streamId' = toWorker[1].id /\ decoder' /\ batch' = <<>> /\ work' = NoSlice
      BY <1>2, <1>3, <2>1 DEF WorkerStart, Receive, Start
    <3>2. streamId < toWorker[1].id /\ toWorker[1].id <= cur
      BY <1>3, <3>1 DEF OrderInv, StartInv, IInv, IdInv, Past
    <3>3. toWorker[1].id \in Nat /\ cur \in Nat /\ streamId \in Int
      BY <1>1, <1>3, FlowTypes, RequestFacts, StreamsFacts
    <3> QED
      BY <2>1, <3>1, <3>2, <3>3 DEF InWork
  <2>2. CASE ~WorkerStart
    <3>1. CASE WorkerCancel
      BY <1>3, <2>2, <3>1 DEF WorkerCancel, Receive, ForDecoder, Start, StartFlow
    <3>2. CASE WorkerAccept \/ WorkerDrop
      BY <1>3, <2>2, <3>2 DEF WorkerAccept, WorkerDrop, Receive, Start, decoding
    <3> QED
      BY <2>2, <3>1, <3>2
  <2> QED
    BY <2>1, <2>2
<1>7. StartFlow'
  <2>1. ASSUME streamId' # cur
        PROVE  \E k \in 1..Len(toWorker') :
                 /\ Start(k)' /\ toWorker'[k].id = cur
                 /\ \A j \in 1..Len(toWorker') : Input(j)' => k < j
    <3>1. PICK k \in 1..Len(toWorker) :
            /\ Start(k) /\ toWorker[k].id = cur
            /\ \A j \in 1..Len(toWorker) : Input(j) => k < j
      BY <1>6, <2>1 DEF StartFlow
    <3>2. k # 1
      BY <1>6, <2>1, <3>1
    <3>3. k-1 \in 1..Len(toWorker') /\ toWorker'[k-1] = toWorker[k] /\ Start(k-1)'
      BY <1>3, <3>1, <3>2 DEF Start
    <3>4. \A j \in 1..Len(toWorker') : Input(j)' => k-1 < j
      BY <1>3, <1>5, <3>1
    <3> QED
      BY <3>1, <3>3, <3>4
  <2>2. \A j \in 1..Len(toWorker') : toWorker'[j].type = "cancel" => toWorker'[j].id # cur
    BY <1>3 DEF StartFlow
  <2> QED
    BY <1>2, <2>1, <2>2 DEF StartFlow
<1>8. Input(1) => streamId = cur
  BY <1>3 DEF StartFlow
<1>9. Input(1) <=> DataOf(toWorker[1], cur)
  BY DEF Input, DataOf
<1>10. /\ WorkerAccept => decoder /\ toWorker[1].id = streamId /\ toWorker[1].type = "data"
                          /\ work' = toWorker[1].slice
       /\ ~WorkerAccept => work' = NoSlice
  BY <1>2, <1>3 DEF WorkerStart, WorkerCancel, WorkerAccept, WorkerDrop, Receive, ForDecoder,
                    decoding
<1>11. Input(1) /\ ~WorkerAccept => Broken
  <2>1. SUFFICES ASSUME Input(1), ~WorkerAccept PROVE ~decoder
    BY <1>3, <1>8 DEF FinalFlow
  <2>2. WorkerDrop
    BY <1>3, <2>1 DEF WorkerStart, WorkerCancel, Receive, Input
  <2> QED
    BY <1>3, <1>8, <2>1, <2>2 DEF WorkerDrop, ForDecoder, Input
<1>12. OutFlow'
  <2>1. PICK d \in 0..given[cur] :
          /\ Carries(toClient, cur, Len(fed[cur]), d)
          /\ Broken \/ \E e \in d..given[cur] :
                         Decoding(d, e) /\ Holds(toWorker, cur, e, given[cur])
    BY DEF OutFlow
  <2>2. d \in Nat
    BY <1>1
  <2>3. CASE Broken
    BY <1>2, <1>4, <2>1, <2>3 DEF OutFlow
  <2>4. CASE ~Broken
    <3>1. PICK e \in d..given[cur] : Decoding(d, e) /\ Holds(toWorker, cur, e, given[cur])
      BY <2>1, <2>4
    <3>2. e \in Nat
      BY <1>1
    <3>3. CASE ~Input(1)
      <4>1. Holds(toWorker', cur, e, given[cur])
        BY <1>1, <1>2, <1>9, <3>1, <3>2, <3>3, HoldsTail
      <4>2. ~InWork /\ ~InWork'
        <5>1. WorkerAccept => streamId' # cur
          BY <1>3, <1>6, <1>10, <3>3 DEF WorkerStart, WorkerAccept, Input, Receive
        <5> QED
          BY <1>2, <1>10, <5>1 DEF InWork
      <4>3. Decoding(d, e)'
        BY <1>2, <1>6, <3>1, <4>2 DEF Decoding
      <4> QED
        BY <1>2, <2>1, <3>1, <4>1, <4>3 DEF OutFlow
    <3>4. CASE Input(1)
      <4>1. WorkerAccept /\ streamId = cur /\ streamId' = cur /\ batch' = batch
        BY <1>6, <1>8, <1>11, <2>4, <3>4
      <4>2. batch = <<>> /\ e = d
        BY <1>2, <3>1, <4>1 DEF Decoding, InWork
      <4>3. toWorker[1].slice \in Slices /\ toWorker[1].slice.n \in Nat
        BY <1>1, <1>3, <3>4, RequestFacts, SliceFacts DEF Input
      <4>4. PICK f : f = e + toWorker[1].slice.n
        OBVIOUS
      <4>5. /\ toWorker[1].slice.lo = e + 1 /\ f <= given[cur]
            /\ Holds(toWorker', cur, f, given[cur])
        BY <1>1, <1>2, <1>9, <3>1, <3>2, <3>4, <4>4, HoldsTail
      <4>6. InWork' /\ work' = toWorker[1].slice
        BY <1>2, <1>10, <4>1, <4>3 DEF InWork
      <4>7. f \in d..given[cur] /\ Len(batch') = 0
        BY <1>1, <2>2, <3>2, <4>1, <4>2, <4>3, <4>4, <4>5
      <4>8. work'.lo = d + Len(batch') + 1 /\ f = d + Len(batch') + work'.n
        BY <2>2, <4>2, <4>3, <4>4, <4>5, <4>6, <4>7
      <4>9. Decoding(d, f)'
        BY <1>2, <4>1, <4>6, <4>7, <4>8 DEF Decoding
      <4> QED
        BY <1>2, <2>1, <4>5, <4>7, <4>9 DEF OutFlow
    <3> QED
      BY <3>3, <3>4
  <2> QED
    BY <2>3, <2>4
<1>13. FinalFlow'
  <2>1. \A j \in 1..Len(toWorker') : Input(j)' /\ toWorker'[j].slice.final =>
          final' /\ toWorker'[j].slice.seq = seq' - 1
    BY <1>2, <1>3, <1>5 DEF FinalFlow
  <2>2. InWork' /\ work'.final => final' /\ work'.seq = seq' - 1
    <3>1. InWork' => WorkerAccept /\ Input(1) /\ work' = toWorker[1].slice
      <4>1. InWork' => WorkerAccept /\ streamId' = cur
        BY <1>2, <1>10 DEF InWork
      <4>2. WorkerAccept => UNCHANGED streamId
        BY DEF WorkerAccept
      <4> QED
        BY <1>10, <4>1, <4>2 DEF Input
    <3> QED
      BY <1>2, <1>3, <3>1 DEF FinalFlow
  <2>3. ~Broken' /\ streamId' = cur' /\ ~decoder' =>
          final' /\ caller' = "waiting" /\ \A j \in 1..Len(toWorker') : ~Input(j)'
    <3>1. ASSUME ~Broken', streamId' = cur', ~decoder'
          PROVE  ~Broken /\ streamId = cur /\ ~decoder
      BY <1>2, <1>4, <1>6, <3>1
    <3> QED
      BY <1>2, <1>3, <1>5, <3>1 DEF FinalFlow
  <2> QED
    BY <1>2, <2>1, <2>2, <2>3 DEF FinalFlow
<1> QED
  BY <1>7, <1>12, <1>13

\* What the worker decodes, it decodes of a stream that did not fail.
LEMMA InHand ==
  ASSUME IInv, OrderInv, OutFlow, cur \in Streams, work # NoSlice
  PROVE  /\ decoder /\ ~Broken
         /\ \E d \in 0..given[cur] : \E e \in d..given[cur] :
              /\ Carries(toClient, cur, Len(fed[cur]), d)
              /\ Decoding(d, e) /\ Holds(toWorker, cur, e, given[cur])
<1>1. ~Broken
  BY BrokenFacts
<1>2. decoder
  BY DEF OrderInv, ErrorInv
<1> QED
  BY <1>1, <1>2 DEF OutFlow

\* Decoding changes neither the queue nor which stream the worker is in.
LEMMA FlowDecoded ==
  ASSUME IInv, OrderInv, StartFlow, FinalFlow,
         WorkerCollect \/ WorkerFinish \/ WorkerThrow
  PROVE  /\ work # NoSlice
         /\ UNCHANGED <<cur, seq, caller, given, fed, final, toWorker, streamId>>
         /\ StartFlow'
         /\ InWork' => InWork /\ work'.final = work.final /\ work'.seq = work.seq
         /\ (~Broken' /\ streamId' = cur' /\ ~decoder' =>
               final' /\ caller' = "waiting" /\ \A j \in 1..Len(toWorker') : ~Input(j)')
            => FinalFlow'
<1>1. /\ work # NoSlice
      /\ UNCHANGED <<cur, seq, caller, given, fed, final, toWorker, streamId>>
  BY DEF WorkerCollect, WorkerFinish, WorkerThrow, stream, history
<1>2. \A j \in 1..Len(toWorker) : (Input(j)' <=> Input(j)) /\ (Start(j)' <=> Start(j))
  BY <1>1 DEF Input, Start
<1>3. StartFlow'
  BY <1>1, <1>2 DEF StartFlow
<1>4. InWork' => InWork /\ work'.final = work.final /\ work'.seq = work.seq
  <2>1. CASE WorkerCollect
    <3>1. work \in Slices /\ work.n > 0
      BY <2>1 DEF WorkerCollect, IInv, TypeInv, WorkerTypes
    <3> QED
      BY <1>1, <2>1, <3>1, SliceRest DEF WorkerCollect, InWork
  <2>2. CASE WorkerFinish \/ WorkerThrow
    BY <2>2 DEF WorkerFinish, WorkerThrow, InWork
  <2> QED
    BY <2>1, <2>2
<1>5. ASSUME ~Broken' /\ streamId' = cur' /\ ~decoder' =>
               final' /\ caller' = "waiting" /\ \A j \in 1..Len(toWorker') : ~Input(j)'
      PROVE  FinalFlow'
  BY <1>1, <1>2, <1>4, <1>5 DEF FinalFlow
<1> QED
  BY <1>1, <1>3, <1>4, <1>5

\* The worker decodes a block.
LEMMA FlowCollected ==
  ASSUME IInv, OrderInv, OutFlow, StartFlow, FinalFlow, cur \in Streams, WorkerCollect
  PROVE  (OutFlow /\ StartFlow /\ FinalFlow)'
<1>1. /\ toClient \in Seq(Replies) /\ batch \in Seq(Nat)
      /\ given[cur] \in Nat /\ Len(fed[cur]) \in Nat /\ streamId \in Streams \cup {NoStream}
  BY FlowTypes
<1>2. /\ work # NoSlice /\ StartFlow'
      /\ UNCHANGED <<cur, caller, given, fed, final, toWorker, streamId, decoder>>
  BY FlowDecoded DEF WorkerCollect
<1>3. /\ work \in Slices /\ work.lo \in Nat /\ work.n \in Nat /\ work.n > 0 /\ work.seq \in Nat
      /\ streamId \in Streams
      /\ work' \in Slices /\ work'.lo = work.lo + 1 /\ work'.n = work.n - 1
  <2>1. work \in Slices /\ work.n > 0 /\ streamId \in Streams
    BY DEF WorkerCollect, IInv, TypeInv, WorkerTypes
  <2> QED
    BY <2>1, SliceFacts, SliceRest DEF WorkerCollect
<1> DEFINE filled == Append(batch, work.lo)
           m == Chunk(filled)
<1>4. /\ filled \in Seq(Nat) /\ Len(filled) = Len(batch) + 1
      /\ \A b \in 1..Len(batch) : filled[b] = batch[b]
      /\ filled[Len(batch)+1] = work.lo
      /\ Len(batch) \in Nat
  BY <1>1, <1>3
<1>5. \/ toClient' = Append(toClient, m) /\ batch' = <<>>
      \/ UNCHANGED toClient /\ batch' = filled
  BY DEF WorkerCollect
<1> HIDE DEF filled
<1>6. /\ m \in Replies /\ m.blocks = filled
      /\ ChunkOf(m, cur) <=> streamId = cur
  BY <1>1, <1>3, <1>4, PostedReplies DEF Chunk, ChunkOf
<1> HIDE DEF m
<1>7. /\ decoder /\ ~Broken
      /\ \E d \in 0..given[cur] : \E e \in d..given[cur] :
              /\ Carries(toClient, cur, Len(fed[cur]), d)
              /\ Decoding(d, e) /\ Holds(toWorker, cur, e, given[cur])
  BY <1>2, InHand
<1>8. PICK d \in 0..given[cur] : \E e \in d..given[cur] :
              /\ Carries(toClient, cur, Len(fed[cur]), d)
              /\ Decoding(d, e) /\ Holds(toWorker, cur, e, given[cur])
  BY <1>7
<1>9. PICK e \in d..given[cur] :
              /\ Carries(toClient, cur, Len(fed[cur]), d)
              /\ Decoding(d, e) /\ Holds(toWorker, cur, e, given[cur])
  BY <1>8
<1>10. d \in Nat /\ e \in Nat /\ d <= e /\ e <= given[cur]
  BY <1>1
<1>11. OutFlow'
  <2>1. CASE streamId # cur
    <3>1. Carries(toClient', cur, Len(fed[cur]), d)
      <4>1. Carries(Append(toClient, m), cur, Len(fed[cur]), d + 0)
        BY <1>1, <1>6, <1>9, <1>10, <2>1, CarriesMore
      <4>2. d + 0 = d
        BY <1>10
      <4> QED
        BY <1>5, <1>9, <4>1, <4>2
    <3>2. Decoding(d, e)'
      BY <1>2, <1>9, <2>1 DEF Decoding
    <3> QED
      BY <1>2, <1>9, <3>1, <3>2 DEF OutFlow
  <2>2. CASE streamId = cur
    <3>1. /\ \A b \in 1..Len(batch) : batch[b] = d + b
          /\ work.lo = d + Len(batch) + 1 /\ e = d + Len(batch) + work.n
      BY <1>2, <1>9, <2>2 DEF Decoding, InWork
    <3>2. \A b \in 1..Len(filled) : filled[b] = d + b
      <4>1. \A b \in 1..Len(filled) : b \in 1..Len(batch) \/ b = Len(batch) + 1
        BY <1>4
      <4> QED
        BY <1>4, <1>10, <3>1, <4>1, SMTT(40)
    <3>3. InWork'
      BY <1>2, <1>3, <2>2 DEF InWork
    <3>4. CASE toClient' = Append(toClient, m) /\ batch' = <<>>
      <4>1. PICK f : f = d + Len(filled)
        OBVIOUS
      <4>2. f \in 0..given[cur] /\ e \in f..given[cur] /\ Len(filled) \in Nat
        <5>1. Len(filled) \in Nat /\ f = d + Len(batch) + 1 /\ f \in Nat
          BY <1>4, <1>10, <4>1
        <5>2. f <= e
          BY <1>3, <1>4, <1>10, <3>1, <5>1
        <5> QED
          BY <1>1, <1>10, <5>1, <5>2
      <4>3. Carries(toClient', cur, Len(fed[cur]), f)
        BY <1>1, <1>6, <1>9, <1>10, <2>2, <3>2, <3>4, <4>1, <4>2, CarriesMore
      <4>4. Len(batch') = 0
        BY <3>4
      <4>5. work'.lo = f + Len(batch') + 1 /\ e = f + Len(batch') + work'.n
        BY <1>3, <1>4, <1>10, <3>1, <4>1, <4>4
      <4>6. Decoding(f, e)'
        BY <1>2, <2>2, <3>3, <4>4, <4>5 DEF Decoding
      <4> QED
        BY <1>2, <1>9, <4>2, <4>3, <4>6 DEF OutFlow
    <3>5. CASE UNCHANGED toClient /\ batch' = filled
      <4>1. /\ work'.lo = d + Len(filled) + 1 /\ e = d + Len(filled) + work'.n
            /\ Len(batch') = Len(filled)
        BY <1>3, <1>4, <1>10, <3>1, <3>5
      <4>2. Decoding(d, e)'
        BY <1>2, <2>2, <3>2, <3>3, <3>5, <4>1 DEF Decoding
      <4> QED
        BY <1>2, <1>9, <3>5, <4>2 DEF OutFlow
    <3> QED
      BY <1>5, <3>4, <3>5
  <2> QED
    BY <2>1, <2>2
<1>12. FinalFlow'
  BY <1>2, <1>7, FlowDecoded
<1> QED
  BY <1>2, <1>11, <1>12

\* The worker acknowledges a slice.
LEMMA FlowFinished ==
  ASSUME IInv, OrderInv, OutFlow, StartFlow, FinalFlow, cur \in Streams,
         caller \in {"reading", "waiting"}, WorkerFinish
  PROVE  (OutFlow /\ StartFlow /\ FinalFlow)'
<1>1. /\ toClient \in Seq(Replies) /\ batch \in Seq(Nat)
      /\ given[cur] \in Nat /\ Len(fed[cur]) \in Nat /\ streamId \in Streams \cup {NoStream}
      /\ toWorker \in Seq(Requests) /\ seq \in Nat
  BY FlowTypes
<1>2. /\ work # NoSlice /\ StartFlow'
      /\ UNCHANGED <<cur, caller, given, fed, final, toWorker, streamId>>
      /\ work.n = 0 /\ work' = NoSlice /\ batch' = <<>> /\ decoder' = ~work.final
  BY FlowDecoded DEF WorkerFinish
<1>3. work \in Slices /\ work.seq \in Nat /\ streamId \in Streams
  BY <1>2, SliceFacts DEF IInv, TypeInv, WorkerTypes
<1> DEFINE m == Chunk(batch)
           p == [type |-> "consumed", id |-> streamId, slice |-> work.seq]
           posted == IF batch = <<>> THEN toClient ELSE Append(toClient, m)
<1>4. /\ m \in Replies /\ m.blocks = batch /\ (ChunkOf(m, cur) <=> streamId = cur)
      /\ p \in Replies /\ ~ChunkOf(p, cur)
  BY <1>1, <1>3, PostedReplies DEF Chunk, ChunkOf
<1>5. toClient' = toClient \o (IF batch = <<>> THEN <<>> ELSE <<m>>) \o <<p>>
  BY DEF WorkerFinish
<1> HIDE DEF m, p
<1>6. posted \in Seq(Replies) /\ toClient' = Append(posted, p)
  <2>1. posted \in Seq(Replies)
    BY <1>1, <1>4
  <2>2. posted = toClient \o (IF batch = <<>> THEN <<>> ELSE <<m>>)
    <3>1. toClient \o <<>> = toClient /\ toClient \o <<m>> = Append(toClient, m)
      BY <1>1, <1>4, AppendedOne
    <3> QED
      BY <3>1
  <2>3. toClient' = posted \o <<p>>
    BY <1>5, <2>2
  <2> HIDE DEF posted
  <2> QED
    BY <1>4, <2>1, <2>3, AppendedOne
<1> HIDE DEF posted
<1>7. /\ decoder /\ ~Broken
      /\ \E d \in 0..given[cur] : \E e \in d..given[cur] :
              /\ Carries(toClient, cur, Len(fed[cur]), d)
              /\ Decoding(d, e) /\ Holds(toWorker, cur, e, given[cur])
  BY <1>2, InHand
<1>8. PICK d \in 0..given[cur] : \E e \in d..given[cur] :
              /\ Carries(toClient, cur, Len(fed[cur]), d)
              /\ Decoding(d, e) /\ Holds(toWorker, cur, e, given[cur])
  BY <1>7
<1>9. PICK e \in d..given[cur] :
              /\ Carries(toClient, cur, Len(fed[cur]), d)
              /\ Decoding(d, e) /\ Holds(toWorker, cur, e, given[cur])
  BY <1>8
<1>10. d \in Nat /\ e \in Nat /\ d <= e /\ e <= given[cur] /\ Len(batch) \in Nat
  BY <1>1
<1>11. Carries(posted, cur, Len(fed[cur]), e)
  <2>1. CASE streamId # cur
    <3>1. e = d /\ d + 0 = d
      BY <1>9, <1>10, <2>1 DEF Decoding
    <3>2. Carries(Append(toClient, m), cur, Len(fed[cur]), d + 0)
      BY <1>1, <1>4, <1>9, <1>10, <2>1, CarriesMore
    <3> QED
      BY <1>9, <3>1, <3>2 DEF posted
  <2>2. CASE streamId = cur
    <3>1. (\A b \in 1..Len(batch) : batch[b] = d + b) /\ e = d + Len(batch)
      BY <1>2, <1>9, <1>10, <2>2 DEF Decoding, InWork
    <3>2. Carries(Append(toClient, m), cur, Len(fed[cur]), d + Len(batch))
      BY <1>1, <1>4, <1>9, <1>10, <2>2, <3>1, CarriesMore
    <3>3. batch = <<>> => e = d
      BY <1>10, <3>1
    <3> QED
      BY <1>9, <3>1, <3>2, <3>3 DEF posted
  <2> QED
    BY <2>1, <2>2
<1>12. OutFlow'
  <2>1. Carries(toClient', cur, Len(fed[cur]), e)
    <3>1. Carries(Append(posted, p), cur, Len(fed[cur]), e + 0)
      BY <1>1, <1>4, <1>6, <1>10, <1>11, CarriesMore
    <3>2. e + 0 = e
      BY <1>10
    <3> QED
      BY <1>6, <3>1, <3>2
  <2>2. Decoding(e, e)'
    BY <1>2, <1>10 DEF Decoding, InWork
  <2>3. e \in 0..given[cur] /\ e \in e..given[cur]
    BY <1>1, <1>10
  <2> QED
    BY <1>2, <1>9, <2>1, <2>2, <2>3 DEF OutFlow
<1>13. FinalFlow'
  <2>1. ASSUME streamId' = cur', ~decoder'
        PROVE  final' /\ caller' = "waiting" /\ \A j \in 1..Len(toWorker') : ~Input(j)'
    <3>1. InWork /\ work.final
      BY <1>2, <2>1 DEF InWork
    <3>2. final /\ work.seq = seq - 1 /\ caller = "waiting"
      BY <3>1 DEF FinalFlow
    <3>3. \A j \in 1..Len(toWorker) : ~Input(j)
      <4>1. ASSUME NEW j \in 1..Len(toWorker), Input(j)
            PROVE  FALSE
        <5>1. work.seq < toWorker[j].slice.seq /\ toWorker[j].slice.seq \in Acked .. seq-1
          BY <3>1, <4>1 DEF IInv, WindowInv, Ordered, Unacked
        <5>2. Acked \in Int
          BY DEF Acked, IInv, TypeInv, ClientTypes
        <5> QED
          BY <1>1, <3>2, <5>1, <5>2
      <4> QED
        BY <4>1
    <3> QED
      BY <1>2, <3>2, <3>3 DEF Input
  <2> QED
    BY <1>2, <2>1, FlowDecoded
<1> QED
  BY <1>2, <1>12, <1>13

\* The worker fails to decode a slice.
LEMMA FlowThrown ==
  ASSUME IInv, OrderInv, OutFlow, StartFlow, FinalFlow, cur \in Streams, WorkerThrow
  PROVE  (OutFlow /\ StartFlow /\ FinalFlow)'
<1>1. /\ toClient \in Seq(Replies) /\ given[cur] \in Nat /\ Len(fed[cur]) \in Nat
  BY FlowTypes
<1>2. /\ work # NoSlice /\ StartFlow'
      /\ UNCHANGED <<cur, caller, given, fed, final, toWorker, streamId>>
      /\ work' = NoSlice
  BY FlowDecoded DEF WorkerThrow
<1>3. work \in Slices /\ work.seq \in Nat /\ streamId \in Streams
  BY <1>2, SliceFacts DEF IInv, TypeInv, WorkerTypes
<1> DEFINE p == [type |-> "error", id |-> streamId, slice |-> work.seq]
<1>4. /\ p \in Replies /\ ~ChunkOf(p, cur) /\ p.type = "error" /\ p.id = streamId
      /\ toClient' = Append(toClient, p)
  BY <1>3, PostedReplies DEF ChunkOf, WorkerThrow
<1> HIDE DEF p
<1>5. PICK d \in 0..given[cur] : \E e \in d..given[cur] :
              /\ Carries(toClient, cur, Len(fed[cur]), d)
              /\ Decoding(d, e) /\ Holds(toWorker, cur, e, given[cur])
  BY <1>2, InHand
<1>6. Carries(toClient', cur, Len(fed[cur]), d)
  <2>1. Carries(Append(toClient, p), cur, Len(fed[cur]), d + 0)
    BY <1>1, <1>4, <1>5, CarriesMore
  <2>2. d + 0 = d
    BY <1>1
  <2> QED
    BY <1>4, <2>1, <2>2
<1>7. streamId = cur => Broken'
  <2>1. Len(toClient') = Len(toClient) + 1 /\ toClient'[Len(toClient)+1] = p
        /\ Len(toClient) \in Nat
    BY <1>1, <1>4
  <2>2. PICK i \in 1..Len(toClient') : i = Len(toClient) + 1
    BY <2>1
  <2> QED
    BY <1>2, <1>4, <2>1, <2>2 DEF Broken, Output
<1>8. OutFlow'
  <2>1. CASE streamId = cur
    BY <1>2, <1>5, <1>6, <1>7, <2>1 DEF OutFlow
  <2>2. CASE streamId # cur
    <3>1. PICK e \in d..given[cur] : Decoding(d, e) /\ Holds(toWorker, cur, e, given[cur])
      BY <1>5
    <3>2. Decoding(d, e)'
      BY <1>2, <2>2, <3>1 DEF Decoding
    <3> QED
      BY <1>2, <1>5, <1>6, <3>1, <3>2 DEF OutFlow
  <2> QED
    BY <2>1, <2>2
<1>9. FinalFlow'
  BY <1>2, <1>7, FlowDecoded
<1> QED
  BY <1>2, <1>8, <1>9

LEMMA FlowInvStep ==
  ASSUME DecodeInv, [Next]_vars
  PROVE  FlowInv'
<1> USE DEF DecodeInv
<1> SUFFICES ASSUME active' # NoStream
             PROVE  (OutFlow /\ StartFlow /\ FinalFlow)'
  BY DEF FlowInv
<1>1. CASE BeginOnWorker
  BY <1>1, FlowBegun
<1>2. CASE ~BeginOnWorker
  <2>1. /\ active # NoStream /\ UNCHANGED <<active, cur>> /\ active = cur /\ cur \in Streams
        /\ started /\ ~local /\ ~failure /\ caller \in {"reading", "waiting"}
        /\ \/ \E s \in Slices : /\ s.id = cur /\ s.seq = seq /\ s.lo = given[cur] + 1
                                /\ PushToWorker(s)
           \/ HandleReady \/ HandleChunk \/ HandleConsumed \/ HandleStale
           \/ Worker \/ WorkerCrash \/ UNCHANGED vars
    BY <1>2, StillActive
  <2>2. OutFlow /\ StartFlow /\ FinalFlow
    BY <2>1 DEF FlowInv
  <2>3. CASE \E s \in Slices : /\ s.id = cur /\ s.seq = seq /\ s.lo = given[cur] + 1
                               /\ PushToWorker(s)
    BY <2>1, <2>2, <2>3, FlowSent
  <2>4. CASE HandleReady \/ HandleChunk \/ HandleConsumed \/ HandleStale
    BY <2>1, <2>2, <2>4, FlowHandled
  <2>5. CASE WorkerStart \/ WorkerCancel \/ WorkerAccept \/ WorkerDrop
    BY <2>1, <2>2, <2>5, FlowReceived
  <2>6. CASE WorkerCollect \/ WorkerFinish \/ WorkerThrow
    BY <2>1, <2>2, <2>6, FlowCollected, FlowFinished, FlowThrown
  <2>7. CASE WorkerCrash \/ UNCHANGED vars
    <3>1. UNCHANGED <<cur, seq, caller, given, fed, final, toWorker, toClient, decoding>>
      BY <2>7 DEF WorkerCrash, vars, stream, history
    <3> QED
      BY <2>2, <3>1 DEF OutFlow, StartFlow, FinalFlow, Broken, Output, Input, Start, InWork,
                        Decoding, decoding
  <2> QED
    BY <2>1, <2>3, <2>4, <2>5, <2>6, <2>7 DEF Worker
<1> QED
  BY <1>1, <1>2

\* What the caller pushes, and what is fed, is of the latest stream.
LEMMA HistoryKept ==
  ASSUME IInv, [Next]_vars,
         ~(PushSlice \/ LocalFeed \/ HandleChunk)
  PROVE  UNCHANGED <<given, fed>>
  BY HistoryFrame DEF OpenStream

\* The next slice is noted as given.
LEMMA SliceGiven ==
  ASSUME IInv, FeedInv, cur \in Streams, NEW s \in Slices, NextSlice(s)
  PROVE  /\ given'[cur] = given[cur] + s.n
         /\ \A k \in Streams : k # cur => given'[k] = given[k]
         /\ final' = s.final
  BY DEF NextSlice, IInv, TypeInv, HistoryTypes

LEMMA FeedInvStep ==
  ASSUME DecodeInv, [Next]_vars
  PROVE  FeedInv'
<1>0. /\ IInv /\ FeedInv /\ FlowInv /\ ClientInv /\ TypeInv /\ HistoryTypes
      /\ caller # "idle" => cur \in Streams
      /\ active # NoStream => active = cur /\ cur \in Streams
      /\ cur \in Int
  BY StreamsFacts DEF DecodeInv, IInv, TypeInv, ClientInv, ClientTypes
<1>1. CASE OpenStream
  <2>1. cur + 1 \in Streams /\ cur < cur + 1 /\ cur' = cur + 1
    BY <1>0, <1>1, StreamsFacts DEF OpenStream, IInv, TypeInv, ClientTypes
  <2>2. \A k \in Streams : k >= cur + 1 => k > cur
    BY <1>0, StreamsFacts
  <2>3. fed' = fed /\ given' = given /\ caller' = "reading" /\ ~local' /\ ~failure'
    BY <1>1 DEF OpenStream
  <2>4. \A k \in Streams : k > cur' \/ (k = cur' /\ ~started') => NothingGiven(k)
    BY <1>0, <2>1, <2>2, StreamsFacts DEF FeedInv
  <2> QED
    BY <1>0, <2>3, <2>4 DEF FeedInv, FedInOrder, NothingGiven
<1>2. CASE PushSlice
  <2>1. PICK s \in Slices : /\ s.id = cur /\ s.seq = seq /\ s.lo = given[cur] + 1
                            /\ Push(s)
    BY <1>0, <1>2, PushedSlice
  <2>2. caller = "reading" /\ cur \in Streams /\ cur' = cur /\ NextSlice(s) /\ fed' = fed
    BY <1>0, <2>1 DEF Push, PushFirst, PushToWorker, PushLocal, shared
  <2>3. /\ given'[cur] = given[cur] + s.n
        /\ \A k \in Streams : k # cur => given'[k] = given[k]
        /\ final' = s.final
    BY <1>0, <2>2, SliceGiven
  <2>4. started' /\ UNCHANGED <<local, failure>>
    BY <1>0, <2>1 DEF Push, PushFirst, PushToWorker, PushLocal, stream, ClientInv
  <2>5. /\ \A k \in Streams : FedInOrder(k)'
        /\ \A k \in Streams : k > cur' \/ (k = cur' /\ ~started') => NothingGiven(k)'
    <3>1. \A k \in Streams : FedInOrder(k)'
      BY <1>0, <2>2 DEF FeedInv, FedInOrder
    <3>2. ASSUME NEW k \in Streams, k > cur
          PROVE  NothingGiven(k)'
      <4>1. NothingGiven(k) /\ k # cur
        BY <1>0, <3>2, StreamsFacts DEF FeedInv
      <4> QED
        BY <2>2, <2>3, <4>1 DEF NothingGiven
    <3> QED
      BY <2>2, <2>4, <3>1, <3>2
  <2>6. CASE PushFirst(s)
    <3>1. fed[cur] = <<>> /\ given[cur] = 0 /\ ~started
      BY <1>0, <2>2, <2>6 DEF PushFirst, FeedInv, NothingGiven
    <3>2. caller' = "begin" /\ slice' = s
      BY <2>6 DEF PushFirst
    <3>3. s.n \in Nat
      BY SliceFacts
    <3> QED
      BY <1>0, <2>1, <2>2, <2>3, <2>4, <2>5, <3>1, <3>2, <3>3 DEF FeedInv
  <2>7. CASE PushToWorker(s)
    <3>1. ~local /\ caller' \in {"waiting", "reading", "done"}
      BY <2>7 DEF PushToWorker, Send, AfterPush
    <3> QED
      BY <1>0, <2>4, <2>5, <3>1 DEF FeedInv
  <2>8. CASE PushLocal(s)
    <3>1. local /\ caller' = "local" /\ slice' = s /\ Len(fed[cur]) = given[cur]
      BY <1>0, <2>2, <2>8 DEF PushLocal, FeedInv
    <3> QED
      BY <1>0, <2>1, <2>2, <2>3, <2>4, <2>5, <3>1 DEF FeedInv
  <2> QED
    BY <2>1, <2>6, <2>7, <2>8 DEF Push
<1>3. CASE LocalFeed
  <2>1. /\ caller = "local" /\ cur \in Streams /\ slice \in Slices /\ slice.n > 0 /\ local
        /\ slice.lo = Len(fed[cur]) + 1 /\ given[cur] = Len(fed[cur]) + slice.n
        /\ slice.final = final /\ started
        /\ fed[cur] \in Seq(Nat) /\ FedInOrder(cur)
    BY <1>0, <1>3 DEF LocalFeed, ClientInv, FeedInv, TypeInv, CallerTypes, HistoryTypes
  <2>2. /\ UNCHANGED <<final, cur, started, local, failure, given, caller>>
        /\ fed' = [fed EXCEPT ![cur] = Append(@, slice.lo)]
        /\ slice' = [slice EXCEPT !.lo = @ + 1, !.n = @ - 1]
    BY <1>3 DEF LocalFeed, stream
  <2>3. slice'.final = slice.final /\ slice'.lo = slice.lo + 1 /\ slice'.n = slice.n - 1
        /\ slice.n \in Nat
    BY <2>1, <2>2, SliceRest, SliceFacts
  <2>4. /\ fed'[cur] = Append(fed[cur], slice.lo) /\ Len(fed'[cur]) = Len(fed[cur]) + 1
        /\ \A k \in Streams : k # cur => fed'[k] = fed[k]
        /\ Len(fed[cur]) \in Nat
    BY <1>0, <2>1, <2>2 DEF HistoryTypes
  <2>5. FedInOrder(cur)'
    <3> DEFINE f == fed[cur]
               g == <<slice.lo>>
    <3>1. f \in Seq(Nat) /\ g \in Seq(Nat) /\ Len(g) = 1 /\ g[1] = Len(f) + 1 /\ slice.lo \in Nat
      BY <2>1, SliceFacts
    <3>2. f \o g = Append(f, slice.lo)
      BY <3>1, AppendedOne
    <3>3. \A b \in 1..Len(f) : f[b] = b
      BY <2>1 DEF FedInOrder
    <3>4. \A b \in 1..Len(g) : g[b] = Len(f) + b
      BY <3>1
    <3>5. fed'[cur] = f \o g
      BY <2>4, <3>2
    <3> HIDE DEF f, g
    <3>6. f \o g = [b \in 1..Len(f) + Len(g) |-> b]
      BY <3>1, <3>3, <3>4, CountOn
    <3>7. PICK n \in Nat : n = Len(f) + Len(g)
      BY <3>1
    <3>8. fed'[cur] = [b \in 1..n |-> b]
      BY <3>5, <3>6, <3>7
    <3>9. Len([b \in 1..n |-> b]) = n
      OBVIOUS
    <3>10. cur' = cur
      BY <2>2
    <3> QED
      BY <3>8, <3>9, <3>10 DEF FedInOrder
  <2>6. \A k \in Streams : FedInOrder(k)'
    BY <1>0, <2>2, <2>4, <2>5 DEF FeedInv, FedInOrder
  <2>7. \A k \in Streams : k > cur' \/ (k = cur' /\ ~started') => NothingGiven(k)'
    BY <1>0, <2>1, <2>2, <2>4 DEF FeedInv, NothingGiven
  <2>8. /\ slice'.lo = Len(fed'[cur]) + 1 /\ given[cur] = Len(fed'[cur]) + slice'.n
        /\ given[cur] \in Nat
    <3>1. PICK L \in Nat : L = Len(fed[cur])
      BY <2>4
    <3>2. slice.lo = L + 1 /\ given[cur] = L + slice.n /\ Len(fed'[cur]) = L + 1
      BY <2>1, <2>4, <3>1
    <3> QED
      BY <2>3, <3>2
  <2>9. caller' = "local" /\ local' /\ ~failure' /\ slice'.final = final'
    BY <1>0, <2>1, <2>2, <2>3 DEF FeedInv
  <2> QED
    BY <2>2, <2>6, <2>7, <2>8, <2>9 DEF FeedInv
<1>4. CASE HandleChunk
  <2>1. /\ cur \in Streams /\ active # NoStream /\ started /\ ~local
        /\ caller \in {"reading", "waiting"}
    BY <1>0, <1>4 DEF HandleChunk, ForActive, ClientInv
  <2>2. UNCHANGED <<cur, given, caller, started, local, failure>>
    BY <1>4 DEF HandleChunk, stream
  <2>3. PICK n \in Len(fed[cur]) .. given[cur] : fed' = [fed EXCEPT ![cur] = [b \in 1..n |-> b]]
    BY <1>0, <1>4, <2>1, ChunkFed DEF FeedInv, FlowInv
  <2>4. n \in Nat /\ Len([b \in 1..n |-> b]) = n
    BY <1>0, <2>1, FlowTypes
  <2>5. fed'[cur] = [b \in 1..n |-> b] /\ \A k \in Streams : k # cur => fed'[k] = fed[k]
    BY <1>0, <2>1, <2>3 DEF HistoryTypes
  <2>6. \A k \in Streams : FedInOrder(k)'
    <3>1. FedInOrder(cur)'
      BY <2>2, <2>4, <2>5 DEF FedInOrder
    <3> QED
      BY <1>0, <2>5, <3>1 DEF FeedInv, FedInOrder
  <2>7. \A k \in Streams : k > cur' \/ (k = cur' /\ ~started') => NothingGiven(k)'
    BY <1>0, <2>1, <2>2, <2>5 DEF FeedInv, NothingGiven
  <2> QED
    BY <1>0, <2>1, <2>2, <2>6, <2>7 DEF FeedInv
<1>5. CASE ~OpenStream /\ ~PushSlice /\ ~LocalFeed /\ ~HandleChunk
  <2>1. UNCHANGED <<given, fed>>
    BY <1>0, <1>5, HistoryKept
  <2>2. UNCHANGED <<cur, started>>
    BY <1>5, StreamsFrame DEF BeginLocal
  <2>3. /\ \A k \in Streams : FedInOrder(k)'
        /\ \A k \in Streams : k > cur' \/ (k = cur' /\ ~started') => NothingGiven(k)'
    BY <1>0, <2>1, <2>2 DEF FeedInv, FedInOrder, NothingGiven
  <2>4. CASE BeginLocal
    <3>1. /\ fed[cur] = <<>> /\ slice.lo = 1 /\ given[cur] = slice.n /\ slice.final = final
          /\ ~failure /\ slice \in Slices
      BY <1>0, <2>4 DEF BeginLocal, FeedInv, ClientInv, TypeInv, CallerTypes
    <3>2. caller' = "local" /\ UNCHANGED <<slice, final, failure>>
      BY <2>4 DEF BeginLocal
    <3>3. slice.n \in Nat
      BY <3>1, SliceFacts
    <3> QED
      BY <2>1, <2>2, <2>3, <3>1, <3>2, <3>3 DEF FeedInv
  <2>5. CASE LocalReturn
    <3>1. caller = "local" /\ slice.n = 0 /\ slice \in Slices /\ given[cur] = Len(fed[cur]) + slice.n
          /\ Len(fed[cur]) \in Nat /\ local
      BY <1>0, <2>5 DEF LocalReturn, FeedInv, ClientInv, TypeInv, CallerTypes, HistoryTypes
    <3>2. caller' \in {"done", "reading"} /\ UNCHANGED <<local, failure>>
      BY <2>5 DEF LocalReturn, stream
    <3> QED
      BY <1>0, <2>1, <2>2, <2>3, <3>1, <3>2 DEF FeedInv
  <2>6. CASE BeginOnWorker \/ PushThrows \/ Cancel \/ LocalThrow \/ HandleChunkThrow
             \/ HandleDecodeError \/ HandleWorkerError \/ HandleConsumed
    <3>1. /\ caller' \in {"reading", "waiting", "done", "failed", caller}
          /\ caller' = "reading" => ~local' \/ caller = "reading"
          /\ (caller' # "begin" /\ caller' # "local") \/ UNCHANGED <<caller, slice, final>>
          /\ local' = local /\ (failure' => failure \/ ~local)
      <4>1. CASE BeginOnWorker
        BY <1>0, <4>1 DEF BeginOnWorker, Send, AfterPush, ClientInv
      <4>2. CASE PushThrows \/ Cancel \/ LocalThrow
        BY <4>2 DEF PushThrows, Cancel, LocalThrow, stream
      <4>3. CASE HandleChunkThrow \/ HandleDecodeError
        BY <1>0, <4>3 DEF HandleChunkThrow, HandleDecodeError, Fail, ForActive, ClientInv
      <4>4. CASE HandleWorkerError
        BY <1>0, <4>4 DEF HandleWorkerError, Fail, ClientInv
      <4>5. CASE HandleConsumed
        BY <1>0, <4>5 DEF HandleConsumed, AfterPush, ForActive, ClientInv
      <4> QED
        BY <2>6, <4>1, <4>2, <4>3, <4>4, <4>5
    <3> QED
      BY <1>0, <2>1, <2>2, <2>3, <3>1 DEF FeedInv
  <2>7. CASE UNCHANGED <<caller, slice, final, local, failure>>
    BY <1>0, <2>1, <2>2, <2>3, <2>7 DEF FeedInv
  <2>8. CASE HandleReady \/ HandleStale \/ WorkerLoad \/ WorkerCrash \/ Worker \/ UNCHANGED vars
    <3>1. UNCHANGED <<caller, slice, final, local, failure>>
      BY <2>8 DEF HandleReady, HandleStale, WorkerLoad, WorkerCrash, Worker, vars, stream,
                  WorkerStart, WorkerCancel, WorkerAccept, WorkerDrop, Receive,
                  WorkerCollect, WorkerFinish, WorkerThrow
    <3> QED
      BY <2>7, <3>1
  <2> QED
    BY <1>5, <2>4, <2>5, <2>6, <2>8 DEF Next, Begin, Local, HandleReply
<1> QED
  BY <1>1, <1>2, <1>3, <1>4, <1>5

LEMMA DecodeInvStep ==
  ASSUME DecodeInv, [Next]_vars
  PROVE  DecodeInv'
<1>1. IInv' /\ OrderInv' /\ LoadInv'
  BY IInvStep, OrderInvStep, LoadInvStep DEF DecodeInv
<1>2. FlowInv' /\ FeedInv'
  BY FlowInvStep, FeedInvStep
<1> QED
  BY <1>1, <1>2 DEF DecodeInv

LEMMA InitDecode == Init => DecodeInv
<1> SUFFICES ASSUME Init PROVE DecodeInv
  OBVIOUS
<1>1. IInv /\ OrderInv
  BY InitIInv, InitOrder
<1>2. LoadInv /\ FlowInv
  BY DEF Init, LoadInv, FlowInv
<1>3. FeedInv
  <2>1. \A k \in Streams : fed[k] = <<>> /\ given[k] = 0
    BY DEF Init
  <2>2. <<>> = [b \in 1..Len(<<>>) |-> b]
    OBVIOUS
  <2> QED
    BY <2>1, <2>2 DEF Init, FeedInv, FedInOrder, NothingGiven
<1> QED
  BY <1>1, <1>2, <1>3 DEF DecodeInv

-----------------------------------------------------------------------------
(* The decoder is a StreamDecoder.                                          *)

LEMMA StatusFacts ==
  /\ failure \/ caller = "failed" => DecoderStatus = "failed"
  /\ ~failure /\ caller \in {"begin", "waiting", "local"} => DecoderStatus = "pushing"
  /\ ~failure /\ caller \in {"idle", "reading", "done"} => DecoderStatus = caller
<1>1. CASE failure \/ caller = "failed"
  BY <1>1 DEF DecoderStatus
<1>2. CASE ~(failure \/ caller = "failed")
  BY <1>2 DEF DecoderStatus
<1> QED
  BY <1>1, <1>2

LEMMA StatusStep ==
  /\ failure' \/ caller' = "failed" => DecoderStatus' = "failed"
  /\ ~failure' /\ caller' \in {"begin", "waiting", "local"} => DecoderStatus' = "pushing"
  /\ ~failure' /\ caller' \in {"idle", "reading", "done"} => DecoderStatus' = caller'
<1>1. CASE failure' \/ caller' = "failed"
  BY <1>1 DEF DecoderStatus
<1>2. CASE ~(failure' \/ caller' = "failed")
  BY <1>2 DEF DecoderStatus
<1> QED
  BY <1>1, <1>2

\* A stream whose last slice is acknowledged was fed all its blocks.
LEMMA AllFed ==
  ASSUME DecodeInv, HandleConsumed, caller # "done", caller' = "done"
  PROVE  Len(fed[cur]) = given[cur]
<1>1. /\ IInv /\ active # NoStream /\ cur \in Streams
  BY StreamsFacts DEF DecodeInv, IInv, ClientInv, TypeInv, ClientTypes, HandleConsumed, ForActive
<1>2. /\ toClient \in Seq(Replies) /\ toWorker \in Seq(Requests)
      /\ given[cur] \in Nat /\ Len(fed[cur]) \in Nat
  BY <1>1, FlowTypes
<1>3. /\ toClient # <<>> /\ toClient[1].type = "consumed"
      /\ \A i \in 2..Len(toClient) : ~Output(i)
      /\ ~InWork
      /\ \A j \in 1..Len(toWorker) : ~Input(j)
  BY <1>1, LastReply
<1>4. \A i \in 1..Len(toClient) : i = 1 \/ i \in 2..Len(toClient)
  BY <1>2
<1>5. ~Broken
  BY <1>3, <1>4 DEF Broken
<1>6. PICK d \in 0..given[cur] :
        /\ Carries(toClient, cur, Len(fed[cur]), d)
        /\ \E e \in d..given[cur] : Decoding(d, e) /\ Holds(toWorker, cur, e, given[cur])
  BY <1>1, <1>5 DEF DecodeInv, FlowInv, OutFlow
<1>7. PICK e \in d..given[cur] : Decoding(d, e) /\ Holds(toWorker, cur, e, given[cur])
  BY <1>6
<1>8. d \in Nat /\ e \in Nat
  BY <1>2
<1>9. Len(fed[cur]) = d
  <2>1. \A i \in 1..Len(toClient) : ~ChunkOf(toClient[i], cur)
    BY <1>3, <1>4 DEF ChunkOf, Output
  <2> QED
    BY <1>2, <1>6, <1>8, <2>1, CarriesNone
<1>10. e = d
  BY <1>3, <1>7 DEF Decoding
<1>11. e = given[cur]
  <2>1. \A j \in 1..Len(toWorker) : ~DataOf(toWorker[j], cur)
    BY <1>3 DEF DataOf, Input
  <2> QED
    BY <1>2, <1>7, <1>8, <2>1, HoldsNone
<1> QED
  BY <1>9, <1>10, <1>11

\* A block fed in this thread is the next one.
LEMMA BlockFed ==
  ASSUME DecodeInv, LocalFeed
  PROVE  \E n \in Len(fed[cur])+1 .. given[cur] : fed' = [fed EXCEPT ![cur] = [b \in 1..n |-> b]]
<1>1. /\ cur \in Streams /\ slice \in Slices /\ slice.n > 0 /\ slice.n \in Nat
      /\ given[cur] = Len(fed[cur]) + slice.n
      /\ fed[cur] \in Seq(Nat) /\ slice.lo \in Nat
  BY StreamsFacts, SliceFacts
     DEF LocalFeed, DecodeInv, IInv, ClientInv, FeedInv, TypeInv, CallerTypes, HistoryTypes,
         ClientTypes
<1>2. cur' = cur /\ fed' = [fed EXCEPT ![cur] = Append(@, slice.lo)]
  BY DEF LocalFeed
<1>3. fed'[cur] = [b \in 1..Len(fed'[cur]) |-> b]
  <2>1. FedInOrder(cur)'
    <3>1. [Next]_vars
      BY DEF Next, Local
    <3> QED
      BY <1>1, <1>2, <3>1, FeedInvStep DEF FeedInv
  <2> QED
    BY <1>2, <2>1 DEF FedInOrder
<1>4. fed'[cur] = Append(fed[cur], slice.lo) /\ fed' = [fed EXCEPT ![cur] = fed'[cur]]
  BY <1>1, <1>2 DEF DecodeInv, IInv, TypeInv, HistoryTypes
<1>5. PICK n \in Nat : n = Len(fed'[cur])
  BY <1>1, <1>4
<1>6. n \in Len(fed[cur])+1 .. given[cur]
  BY <1>1, <1>4, <1>5
<1>7. fed' = [fed EXCEPT ![cur] = [b \in 1..n |-> b]]
  BY <1>3, <1>4, <1>5
<1> QED
  BY <1>6, <1>7

LEMMA DecoderInit == Init => Decoder!Init
  BY StatusFacts DEF Init, Decoder!Init

LEMMA DecoderStutter ==
  ASSUME UNCHANGED <<cur, caller, failure, final, given, fed>>
  PROVE  UNCHANGED Decoder!vars
<1>1. DecoderStatus' = DecoderStatus
  BY DEF DecoderStatus
<1> QED
  BY <1>1 DEF Decoder!vars

\* The stream failed.
LEMMA DecoderFails ==
  ASSUME DecoderStatus \in {"reading", "pushing", "failed"}, DecoderStatus' = "failed",
         UNCHANGED <<cur, final, given, fed>>
  PROVE  [Decoder!Next]_Decoder!vars
<1>1. CASE DecoderStatus = "failed"
  BY <1>1 DEF Decoder!vars
<1>2. CASE DecoderStatus # "failed"
  <2>1. Decoder!Fail
    BY <1>2 DEF Decoder!Fail
  <2> QED
    BY <2>1 DEF Decoder!Next
<1> QED
  BY <1>1, <1>2

LEMMA DecoderOpens ==
  ASSUME DecodeInv, OpenStream
  PROVE  Decoder!Open
<1>1. /\ cur + 1 \in Streams /\ cur' = cur + 1 /\ caller' = "reading" /\ ~failure'
      /\ caller \in {"idle", "done", "failed"} /\ UNCHANGED <<final, given, fed>>
  BY StreamsFacts DEF OpenStream, DecodeInv, IInv, TypeInv, ClientTypes
<1>2. DecoderStatus \in {"idle", "done", "failed"} /\ DecoderStatus' = "reading"
  BY <1>1, StatusFacts, StatusStep
<1> QED
  BY <1>1, <1>2 DEF Decoder!Open

LEMMA DecoderPushes ==
  ASSUME DecodeInv, PushSlice
  PROVE  Decoder!Push
<1>1. PICK s \in Slices : Push(s)
  BY PushedSlice DEF DecodeInv, IInv
<1>2. /\ caller = "reading" /\ NextSlice(s) /\ UNCHANGED <<cur, fed>>
      /\ ~failure /\ UNCHANGED failure
      /\ s.final \in BOOLEAN
      /\ caller' \in (IF s.final THEN {"begin", "waiting", "local"}
                                 ELSE {"begin", "waiting", "local", "reading"})
  <2>1. CASE PushFirst(s)
    BY <2>1, SliceFacts DEF PushFirst, DecodeInv, IInv, ClientInv
  <2>2. CASE PushToWorker(s)
    <3>1. caller' = AfterPush(inFlight + 1, s.final)
      BY <2>2 DEF PushToWorker, Send
    <3>2. inFlight \in Nat
      BY DEF DecodeInv, IInv, TypeInv, ClientTypes
    <3> QED
      BY <2>2, <3>1, <3>2, SliceFacts DEF PushToWorker, shared, AfterPush, WindowOpen
  <2>3. CASE PushLocal(s)
    BY <2>3, SliceFacts DEF PushLocal, stream, DecodeInv, FeedInv
  <2> QED
    BY <1>1, <2>1, <2>2, <2>3 DEF Push
<1>3. /\ s.n \in 0..MaxBlocks /\ given' = [given EXCEPT ![cur] = @ + s.n] /\ final' = s.final
  BY <1>2 DEF Slices, NextSlice
<1>4. /\ DecoderStatus = "reading"
      /\ DecoderStatus' \in (IF final' THEN {"pushing"} ELSE {"pushing", "reading"})
  BY <1>2, <1>3, StatusFacts, StatusStep
<1> QED
  BY <1>2, <1>3, <1>4 DEF Decoder!Push

\* A push that waited returns.
LEMMA DecoderReturns ==
  ASSUME ~failure, ~failure', caller \in {"begin", "waiting", "local"},
         caller' = (IF final THEN "done" ELSE "reading"), final \in BOOLEAN,
         final => Len(fed[cur]) = given[cur],
         UNCHANGED <<cur, final, given, fed>>
  PROVE  Decoder!Return
<1>1. DecoderStatus = "pushing" /\ DecoderStatus' = (IF final THEN "done" ELSE "reading")
  BY StatusFacts, StatusStep
<1> QED
  BY <1>1 DEF Decoder!Return

LEMMA DecoderStep ==
  ASSUME DecodeInv, [Next]_vars
  PROVE  [Decoder!Next]_Decoder!vars
<1>0. /\ IInv /\ FeedInv /\ ClientInv /\ TypeInv /\ HistoryTypes /\ CallerTypes
      /\ inFlight \in Nat /\ final \in BOOLEAN
      /\ active # NoStream => /\ active = cur /\ cur \in Streams /\ ~failure
                              /\ caller \in {"reading", "waiting"}
  BY StreamsFacts DEF DecodeInv, IInv, TypeInv, ClientInv, ClientTypes, Booleans
<1>1. CASE OpenStream
  BY <1>1, DecoderOpens DEF Decoder!Next
<1>2. CASE PushSlice
  BY <1>2, DecoderPushes DEF Decoder!Next
<1>3. CASE BeginOnWorker
  <2>1. /\ caller = "begin" /\ ~failure /\ slice.final = final
        /\ caller' = AfterPush(inFlight + 1, final)
        /\ UNCHANGED <<cur, failure, final, given, fed>>
    BY <1>0, <1>3 DEF BeginOnWorker, Send, ClientInv, FeedInv, history
  <2>2. caller' = "waiting" \/ (caller' = "reading" /\ ~final)
    BY <1>0, <2>1 DEF AfterPush, WindowOpen
  <2>3. CASE caller' = "waiting"
    <3>1. DecoderStatus = "pushing" /\ DecoderStatus' = "pushing"
      BY <2>1, <2>3, StatusFacts, StatusStep
    <3> QED
      BY <2>1, <3>1 DEF Decoder!vars
  <2>4. CASE caller' = "reading" /\ ~final
    BY <1>0, <2>1, <2>4, DecoderReturns DEF Decoder!Next
  <2> QED
    BY <2>2, <2>3, <2>4
<1>4. CASE BeginLocal
  <2>1. /\ caller = "begin" /\ caller' = "local" /\ ~failure
        /\ UNCHANGED <<cur, failure, final, given, fed>>
    BY <1>0, <1>4 DEF BeginLocal, ClientInv, history
  <2>2. DecoderStatus = "pushing" /\ DecoderStatus' = "pushing"
    BY <2>1, StatusFacts, StatusStep
  <2> QED
    BY <2>1, <2>2 DEF Decoder!vars
<1>5. CASE PushThrows \/ Cancel
  <2>1. /\ caller \in {"reading", "waiting"} /\ caller' = "failed"
        /\ UNCHANGED <<cur, final, given, fed>>
    BY <1>5 DEF PushThrows, Cancel, history
  <2>2. DecoderStatus \in {"reading", "pushing", "failed"} /\ DecoderStatus' = "failed"
    BY <2>1, StatusFacts, StatusStep
  <2> QED
    BY <2>1, <2>2, DecoderFails
<1>6. CASE LocalFeed
  <2>1. /\ caller = "local" /\ ~failure
        /\ UNCHANGED <<cur, caller, failure, final, given>>
    BY <1>0, <1>6 DEF LocalFeed, stream, FeedInv, ClientInv
  <2>2. DecoderStatus = "pushing" /\ DecoderStatus' = "pushing"
    BY <2>1, StatusFacts, StatusStep
  <2>3. Decoder!Feed
    BY <1>6, <2>1, <2>2, BlockFed DEF Decoder!Feed
  <2> QED
    BY <2>3 DEF Decoder!Next
<1>7. CASE LocalReturn
  <2>1. /\ caller = "local" /\ ~failure /\ slice.final = final
        /\ caller' = (IF final THEN "done" ELSE "reading")
        /\ UNCHANGED <<cur, failure, final, given, fed>>
    BY <1>0, <1>7 DEF LocalReturn, stream, history, FeedInv, ClientInv
  <2>2. Len(fed[cur]) = given[cur]
    <3>1. cur \in Streams /\ given[cur] = Len(fed[cur]) + slice.n /\ slice.n = 0
      BY <1>0, <1>7, StreamsFacts
         DEF LocalReturn, FeedInv, ClientInv, TypeInv, ClientTypes
    <3>2. Len(fed[cur]) \in Nat
      BY <1>0, <3>1, FlowTypes
    <3> QED
      BY <3>1, <3>2
  <2> QED
    BY <1>0, <2>1, <2>2, DecoderReturns DEF Decoder!Next
<1>8. CASE LocalThrow
  <2>1. /\ caller = "local" /\ caller' = "failed"
        /\ UNCHANGED <<cur, final, given, fed>>
    BY <1>8 DEF LocalThrow, history
  <2>2. DecoderStatus \in {"reading", "pushing", "failed"} /\ DecoderStatus' = "failed"
    BY <2>1, StatusFacts, StatusStep
  <2> QED
    BY <2>1, <2>2, DecoderFails
<1>9. CASE HandleChunk
  <2>1. /\ active # NoStream /\ cur \in Streams /\ ~failure /\ caller \in {"reading", "waiting"}
        /\ UNCHANGED <<cur, caller, failure, final, given>>
    BY <1>0, <1>9 DEF HandleChunk, ForActive, stream
  <2>2. DecoderStatus \in {"reading", "pushing"} /\ DecoderStatus' = DecoderStatus
    BY <2>1, StatusFacts, StatusStep
  <2>3. PICK n \in Len(fed[cur]) .. given[cur] : fed' = [fed EXCEPT ![cur] = [b \in 1..n |-> b]]
    BY <1>0, <1>9, <2>1, ChunkFed DEF FeedInv, DecodeInv, FlowInv
  <2>4. CASE n = Len(fed[cur])
    <3>1. fed[cur] = [b \in 1..n |-> b]
      BY <1>0, <2>1, <2>4 DEF FeedInv, FedInOrder
    <3>2. fed' = fed
      BY <1>0, <2>1, <2>3, <3>1 DEF HistoryTypes
    <3> QED
      BY <2>1, <2>2, <3>2 DEF Decoder!vars
  <2>5. CASE n # Len(fed[cur])
    <3>1. n \in Len(fed[cur])+1 .. given[cur]
      BY <1>0, <2>1, <2>5, FlowTypes
    <3>2. Decoder!Feed
      BY <2>1, <2>2, <2>3, <3>1 DEF Decoder!Feed
    <3> QED
      BY <3>2 DEF Decoder!Next
  <2> QED
    BY <2>4, <2>5
<1>10. CASE HandleChunkThrow \/ HandleDecodeError
  <2>1. /\ active # NoStream /\ ~failure /\ caller \in {"reading", "waiting"} /\ failure'
        /\ UNCHANGED <<cur, final, given, fed>>
    BY <1>0, <1>10 DEF HandleChunkThrow, HandleDecodeError, ForActive, Fail, history
  <2>2. DecoderStatus \in {"reading", "pushing", "failed"} /\ DecoderStatus' = "failed"
    BY <2>1, StatusFacts, StatusStep
  <2> QED
    BY <2>1, <2>2, DecoderFails
<1>11. CASE HandleConsumed
  <2>1. /\ ~failure /\ caller \in {"reading", "waiting"}
        /\ caller' = (IF caller = "waiting" THEN AfterPush(inFlight - 1, final) ELSE caller)
        /\ UNCHANGED <<cur, failure, final, given, fed>>
    BY <1>0, <1>11 DEF HandleConsumed, ForActive, history
  <2>2. CASE caller' = caller
    BY <2>1, <2>2, DecoderStutter
  <2>3. CASE caller' # caller
    <3>1. caller = "waiting" /\ caller' = (IF final THEN "done" ELSE "reading")
      BY <2>1, <2>3 DEF AfterPush
    <3>2. final => Len(fed[cur]) = given[cur]
      BY <1>11, <3>1, AllFed
    <3> QED
      BY <1>0, <2>1, <3>1, <3>2, DecoderReturns DEF Decoder!Next
  <2> QED
    BY <2>2, <2>3
<1>12. CASE HandleWorkerError
  <2>1. UNCHANGED <<cur, final, given, fed>>
    BY <1>12 DEF HandleWorkerError, history
  <2>2. CASE UNCHANGED <<caller, failure>>
    BY <2>1, <2>2, DecoderStutter
  <2>3. CASE ~UNCHANGED <<caller, failure>>
    <3>1. ~failure /\ caller \in {"reading", "waiting"} /\ failure'
      BY <1>0, <1>12, <2>3 DEF HandleWorkerError, Fail
    <3>2. DecoderStatus \in {"reading", "pushing", "failed"} /\ DecoderStatus' = "failed"
      BY <3>1, StatusFacts, StatusStep
    <3> QED
      BY <2>1, <3>2, DecoderFails
  <2> QED
    BY <2>2, <2>3
<1>13. CASE HandleReady \/ HandleStale \/ WorkerLoad \/ WorkerCrash \/ UNCHANGED vars
  <2>1. UNCHANGED <<cur, caller, failure, final, given, fed>>
    BY <1>13 DEF HandleReady, HandleStale, WorkerLoad, WorkerCrash, vars, stream, history
  <2> QED
    BY <2>1, DecoderStutter
<1>14. CASE Worker
  <2>1. UNCHANGED <<cur, caller, failure, final, given, fed>>
    BY <1>14 DEF Worker, WorkerStart, WorkerCancel, WorkerAccept, WorkerDrop,
                 WorkerCollect, WorkerFinish, WorkerThrow, stream, history
  <2> QED
    BY <2>1, DecoderStutter
<1> QED
  BY <1>1, <1>2, <1>3, <1>4, <1>5, <1>6, <1>7, <1>8, <1>9, <1>10, <1>11, <1>12, <1>13, <1>14
     DEF Next, Begin, Local, HandleReply

-----------------------------------------------------------------------------
(* The theorems.                                                            *)

\* A stream's error is the last message the client gets of it: the worker drops
\* the stream's decoder with the error, and every slice of it that is still
\* queued (zstd-worker.ts onData, reset).
THEOREM ErrorCorrect == Spec => []ErrorIsLast
<1>1. Init => IInv /\ OrderInv
  BY InitIInv, InitOrder
<1>2. IInv /\ OrderInv /\ [Next]_vars => IInv' /\ OrderInv'
  BY IInvStep, OrderInvStep
<1>3. IInv /\ OrderInv => ErrorIsLast
  BY ErrorsLast
<1> QED
  BY <1>1, <1>2, <1>3, PTL DEF Spec

\* A caller that opens no stream after a failed one, as the parse does, never has
\* the decoded output of more than maxInFlight slices waiting on its thread, all
\* streams counted (zstd-worker-client.ts push, parser-worker.ts streamFile).
THEOREM TotalWindowCorrect ==
  ASSUME StopAtFailure
  PROVE  Spec => []TotalWindowBound
<1>1. Init => IInv /\ TotalInv
  BY InitIInv, InitTotal
<1>2. IInv /\ TotalInv /\ [Next]_vars => IInv' /\ TotalInv'
  BY IInvStep, TotalInvStep
<1>3. IInv /\ TotalInv => TotalWindowBound
  BY TotalBounds
<1> QED
  BY <1>1, <1>2, <1>3, PTL DEF Spec

\* The decoder that runs on a worker keeps what every decoder promises, however
\* messages, failures and the fallback to this thread interleave: blocks reach
\* onChunk in order and none is lost, a final push returns only when all were fed,
\* and nothing is fed after a failure (zstd-worker-client.ts createStream).
THEOREM DecoderCorrect == Spec => ImplementsStreamDecoder
<1>1. Init => DecodeInv
  BY InitDecode
<1>2. DecodeInv /\ [Next]_vars => DecodeInv'
  BY DecodeInvStep
<1>3. Init => Decoder!Init
  BY DecoderInit
<1>4. DecodeInv /\ [Next]_vars => [Decoder!Next]_Decoder!vars
  BY DecoderStep
<1> QED
  BY <1>1, <1>2, <1>3, <1>4, PTL DEF Spec, ImplementsStreamDecoder, Decoder!Spec
=============================================================================
