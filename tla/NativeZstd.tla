------------------------------ MODULE NativeZstd ------------------------------
(***************************************************************************)
(* Node's zstd decoder (packages/core/src/cli/native-zstd.ts,              *)
(* createThreadedZstdDecoder): whole frames decompress on the threadpool,  *)
(* several at a time, behind a queue that gives their output to onChunk in *)
(* the order of the stream; a frame it will not decode itself sends the    *)
(* rest of the stream to fzstd.                                            *)
(*                                                                         *)
(* Data is abstracted to block numbers, as in StreamDecoder: a frame is    *)
(* the next `n` chunks of the stream and may turn out corrupt after them.  *)
(* The frames a push completes are what FrameSplitter yields for it.       *)
(***************************************************************************)
EXTENDS Integers, Sequences, SequencesExt, FiniteSets

CONSTANTS MaxFrames,     \* bound: frames of the stream
          MaxPushes,     \* bound: pushes
          MaxChunks,     \* bound: chunks a frame decompresses to
          MaxThreads,    \* MAX_FRAMES_IN_FLIGHT
          MaxQueued,     \* MAX_QUEUED_FRAMES
          MaxBuffered,   \* maxFrameBytes, in chunks
          NoFrame        \* no frame is being delivered

ASSUME NativeAssumption == /\ {MaxFrames, MaxPushes} \subseteq Nat
                           /\ {MaxChunks, MaxThreads, MaxQueued, MaxBuffered} \subseteq Nat \ {0}
                           /\ NoFrame \notin Nat

\* "small" and "wide" frames are decompressed in their turn, a wide one passes
\* maxFrameBytes; a "foreign" one is not decoded natively, or ends too late.

VARIABLES
  frames,      \* the frames completed so far
  caller,      \* "idle", "reading", "pushing", "done" or "failed"
  final,       \* whether the latest push was the final one
  pushes,
  todo,        \* frames of this push not handled yet, by number
  phase,       \* what the push does: "split", "enqueue", "drain", "fallback",
               \* "deliver", "check" or "wait"; "none" outside a push
  after,       \* what it does once `current` is delivered
  queued,      \* frames not yet delivered, oldest first
  current,     \* the frame being delivered
  fallback,    \* fzstd took over
  threads,     \* the OffThreadFrames, by number of their frame
  out          \* the blocks onChunk got

nativeVars == <<frames, caller, final, pushes, todo, phase, after, queued, current,
                fallback, threads, out>>

NativeInit ==
  /\ frames = <<>> /\ caller = "idle" /\ final = FALSE /\ pushes = 0
  /\ todo = <<>> /\ phase = "none" /\ after = "split"
  /\ queued = <<>> /\ current = NoFrame /\ fallback = FALSE
  /\ threads = [f \in {} |-> 0] /\ out = <<>>

Total == IF frames = <<>> THEN 0 ELSE Last(frames).lo + Last(frames).n
BlocksOf(f, from, to) == [i \in 1..(to - from) |-> frames[f].lo + from + i]

-----------------------------------------------------------------------------
(* OffThreadFrame.  Its events run when the main thread has nothing to do:  *)
(* between two pushes, or while deliver() waits.                            *)

ThreadFree == phase \in {"none", "wait"}

NewThread == [made |-> 0, taken |-> 0, state |-> "running", paused |-> FALSE]
Signal(f) == phase' = IF phase = "wait" /\ current = f THEN "deliver" ELSE phase

DataUnbounded(f) ==   \* the stream is never paused
  /\ threads' = [threads EXCEPT ![f].made = @ + 1]
  /\ Signal(f)
\* on('data'): the stream pauses when enough of its output waits.
Data(f) ==
  /\ threads' = [threads EXCEPT ![f].made = @ + 1,
                                ![f].paused = threads[f].made + 1 - threads[f].taken >= MaxBuffered]
  /\ Signal(f)

ThreadEvent(f) ==
  /\ ThreadFree
  /\ threads[f].state = "running"
  /\ \/ ~threads[f].paused /\ threads[f].made < frames[f].n /\ Data(f)
     \/ /\ ~threads[f].paused /\ threads[f].made = frames[f].n /\ ~frames[f].bad
        /\ threads' = [threads EXCEPT ![f].state = "ended"] /\ Signal(f)
     \/ /\ frames[f].bad
        /\ threads' = [threads EXCEPT ![f].state = "error"] /\ Signal(f)
  /\ UNCHANGED <<frames, caller, final, pushes, todo, after, queued, current, fallback, out>>

-----------------------------------------------------------------------------
(* The caller (streamFile).                                                 *)

OpenDecoder ==
  /\ caller = "idle"
  /\ caller' = "reading"
  /\ UNCHANGED <<frames, final, pushes, todo, phase, after, queued, current, fallback, threads, out>>

\* The next slice: it completes the frames of `new`, possibly none.
PushChunk(new, isFinal) ==
  /\ caller = "reading" /\ pushes < MaxPushes
  /\ pushes + 1 = MaxPushes => isFinal
  /\ pushes' = pushes + 1 /\ final' = isFinal /\ caller' = "pushing"
  /\ frames' = frames \o new
  /\ todo' = [i \in DOMAIN new |-> Len(frames) + i]
  /\ phase' = "split"
  /\ UNCHANGED <<after, queued, current, fallback, threads, out>>

Settle(how) ==
  /\ caller' = how /\ phase' = "none" /\ todo' = <<>> /\ current' = NoFrame

-----------------------------------------------------------------------------
(* push().                                                                  *)

\* Bounds: a frame decoded in one call is one chunk, one frame is corrupt.
Shapes == [n : {1}, kind : {"small", "foreign"}, bad : BOOLEAN]
            \cup [n : 1..MaxChunks, kind : {"wide", "large"}, bad : BOOLEAN]
OneBad(s) ==
  Cardinality({i \in DOMAIN s : s[i].bad} \cup {f \in DOMAIN frames : frames[f].bad}) <= 1

\* The frames of `s`, laid out from the end of the stream on.
Lay(s) ==
  LET end[i \in 0..Len(s)] == IF i = 0 THEN Total ELSE end[i - 1] + s[i].n
  IN  [i \in DOMAIN s |-> [lo |-> end[i - 1], n |-> s[i].n, kind |-> s[i].kind, bad |-> s[i].bad]]

StartThread(f) ==
  threads' = [g \in DOMAIN threads \cup {f} |-> IF g = f THEN NewThread ELSE threads[g]]

Now(f) == phase' = "deliver" /\ current' = f /\ after' = "split" /\ UNCHANGED queued
Later(f) == phase' = "enqueue" /\ queued' = Append(queued, f) /\ UNCHANGED <<current, after>>

\* A small frame decompressed at once, ahead of the queue.
HandleOvertaking(f) == IF frames[f].kind = "large" THEN Later(f) ELSE Now(f)
Handle(f) == IF frames[f].kind # "large" /\ queued = <<>> THEN Now(f) ELSE Later(f)

\* One step of the loop over split(): a large frame starts its thread.
SplitFrame ==
  /\ phase = "split" /\ ~fallback /\ todo # <<>>
  /\ IF frames[Head(todo)].kind = "foreign"
       THEN phase' = "fallback" /\ UNCHANGED <<todo, queued, current, after, threads>>
       ELSE /\ todo' = Tail(todo)
            /\ Handle(Head(todo))
            /\ IF frames[Head(todo)].kind = "large" THEN StartThread(Head(todo)) ELSE UNCHANGED threads
  /\ UNCHANGED <<frames, caller, final, pushes, fallback, out>>

EndOfPushAtOnce == TRUE   \* a final push that does not drain
EndOfPush == ~final \/ queued = <<>>
\* The end of the loop; a final push first delivers what is queued.
SplitEnd ==
  /\ phase = "split" /\ ~fallback /\ todo = <<>>
  /\ IF EndOfPush THEN Settle(IF final THEN "done" ELSE "reading")
     ELSE phase' = "drain" /\ UNCHANGED <<caller, todo, current>>
  /\ UNCHANGED <<frames, final, pushes, after, queued, fallback, threads, out>>

\* deliverOldest, from the loop that calls it.
ThreadedQueued == {i \in DOMAIN queued : frames[queued[i]].kind = "large"}
OverLimit == Cardinality(ThreadedQueued) >= MaxThreads \/ Len(queued) >= MaxQueued
DeliverOldest(then) ==
  /\ current' = Head(queued) /\ queued' = Tail(queued)
  /\ phase' = "deliver" /\ after' = then

\* enqueue and deliverAll.
EnqueueWait ==
  /\ phase = "enqueue"
  /\ IF OverLimit THEN DeliverOldest("enqueue")
     ELSE phase' = "split" /\ UNCHANGED <<queued, current, after>>
  /\ UNCHANGED <<frames, caller, final, pushes, todo, fallback, threads, out>>

DeliverAll ==
  /\ phase \in {"drain", "fallback"} /\ queued # <<>>
  /\ DeliverOldest(phase)
  /\ UNCHANGED <<frames, caller, final, pushes, todo, fallback, threads, out>>

Drained ==
  /\ phase = "drain" /\ queued = <<>>
  /\ Settle("done")
  /\ UNCHANGED <<frames, final, pushes, after, queued, fallback, threads, out>>

\* toFallback, and later pushes: fzstd takes the frames left, in order, and
\* throws at the first corrupt one.
ToFallback ==
  /\ phase = "fallback" /\ queued = <<>>
  /\ fallback' = TRUE /\ phase' = "split"
  /\ UNCHANGED <<frames, caller, final, pushes, todo, after, queued, current, threads, out>>

FallbackFrame ==
  /\ phase = "split" /\ fallback
  /\ IF todo # <<>>
       THEN \/ /\ ~frames[Head(todo)].bad
               /\ todo' = Tail(todo)
               /\ out' = out \o BlocksOf(Head(todo), 0, frames[Head(todo)].n)
               /\ UNCHANGED <<caller, phase, current>>
            \/ frames[Head(todo)].bad /\ Settle("failed") /\ UNCHANGED out
       ELSE Settle(IF final THEN "done" ELSE "reading") /\ UNCHANGED out
  /\ UNCHANGED <<frames, final, pushes, after, queued, fallback, threads>>

-----------------------------------------------------------------------------
(* Delivery.                                                                *)

\* deliverInline: a frame decompressed in one call, or streamed when it is wide.
DeliverInline ==
  /\ phase = "deliver" /\ current \notin DOMAIN threads
  /\ CASE frames[current].kind = "wide" ->
            StartThread(current) /\ UNCHANGED <<caller, phase, todo, current, out>>
       [] frames[current].kind # "wide" /\ frames[current].bad ->
            Settle("failed") /\ UNCHANGED <<out, threads>>
       [] OTHER ->
            /\ out' = out \o BlocksOf(current, 0, frames[current].n)
            /\ phase' = after /\ current' = NoFrame /\ UNCHANGED <<caller, todo, threads>>
  /\ UNCHANGED <<frames, final, pushes, after, queued, fallback>>

\* OffThreadFrame.deliver: its chunks so far, then how it ended or a wait.
TakeChunks ==
  /\ phase = "deliver" /\ current \in DOMAIN threads
  /\ LET t == threads[current]
     IN  /\ out' = out \o BlocksOf(current, t.taken, t.made)
         /\ threads' = [threads EXCEPT ![current].taken = t.made]
  /\ phase' = "check"
  /\ UNCHANGED <<frames, caller, final, pushes, todo, after, queued, current, fallback>>

WaitStill(f) == phase' = "wait" /\ UNCHANGED threads   \* the stream stays paused
WaitForMore(f) == phase' = "wait" /\ threads' = [threads EXCEPT ![f].paused = FALSE]

CheckThread ==
  /\ phase = "check"
  /\ CASE threads[current].state = "error" -> Settle("failed") /\ UNCHANGED threads
       [] threads[current].state = "ended" ->
            phase' = after /\ current' = NoFrame /\ UNCHANGED <<caller, todo, threads>>
       [] OTHER -> WaitForMore(current) /\ UNCHANGED <<caller, todo, current>>
  /\ UNCHANGED <<frames, final, pushes, after, queued, fallback, out>>

Work == SplitFrame \/ SplitEnd \/ EnqueueWait \/ DeliverAll \/ Drained \/ ToFallback
          \/ FallbackFrame \/ DeliverInline \/ TakeChunks \/ CheckThread

NativeNext ==
  \/ OpenDecoder
  \/ \E k \in 0..MaxFrames - Len(frames), isFinal \in BOOLEAN :
       \E s \in [1..k -> Shapes] : OneBad(s) /\ PushChunk(Lay(s), isFinal)
  \/ Work
  \/ \E f \in DOMAIN threads : ThreadEvent(f)

\* The threadpool and the event loop go on.
NativeSpec == /\ NativeInit /\ [][NativeNext]_nativeVars
              /\ WF_nativeVars(Work)
              /\ \A f \in 1..MaxFrames : WF_nativeVars(f \in DOMAIN threads /\ ThreadEvent(f))

-----------------------------------------------------------------------------
(* Properties.                                                              *)

\* Threads, queue and fallback together are the decoder streamFile expects:
\* blocks in the order of the stream, a final push that returns after the
\* last of them, nothing more after a failure.
Contract == INSTANCE StreamDecoder WITH
  Streams <- {0}, NoStream <- -1, MaxBlocks <- MaxFrames * MaxChunks,
  cur <- IF caller = "idle" THEN -1 ELSE 0,
  status <- caller, last <- final,
  given <- [s \in {0} |-> Total], fed <- [s \in {0} |-> out]

NativeImplementsDecoder == Contract!Spec

\* The output that waits for its turn is bounded, whatever the frames hold:
\* by the threads, one more for a wide frame ahead of them, and the queue.
BacklogBounded ==
  /\ Len(queued) <= MaxQueued
  /\ \A f \in DOMAIN threads : threads[f].made - threads[f].taken <= MaxBuffered
  /\ Cardinality({f \in DOMAIN threads : threads[f].taken < threads[f].made}) <= MaxThreads + 1

\* Every push settles: deliver() is woken for each chunk, end and error.
NativePushSettles == (caller = "pushing") ~> (caller # "pushing")
=============================================================================
