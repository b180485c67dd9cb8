----------------------------- MODULE ParserWorker -----------------------------
(***************************************************************************)
(* One parse of the parse worker (packages/core/src/parser-worker.ts,      *)
(* shs-fetch.ts, zip-archive.ts): the file, the rolling directory, the zip *)
(* or the download it streams, part by part and slice by slice, and the    *)
(* messages it posts.                                                      *)
(*                                                                         *)
(* A slice is its number in its part, a message its type and its progress. *)
(* A read or a fetch may fail whenever it is awaited, and a slice may turn *)
(* out corrupt whenever it is decoded.  A zstd decoder may keep slices     *)
(* back until its final push (StreamDecoder); the others do not.           *)
(***************************************************************************)
EXTENDS Integers, Sequences, SequencesExt

CONSTANTS MaxParts,    \* bound: files or zip entries of a log
          MaxSlices,   \* bound: slices of a part
          MaxRequests  \* bound: task-data requests

ASSUME WorkerAssumption == {MaxParts, MaxSlices, MaxRequests} \subseteq Nat

Sources == {"file", "directory", "zip", "url"}
Codecs == {"none", "gz", "blocks", "zstd"}   \* "blocks": lz4 and snappy
\* An empty part has no header to tell a codec from.
Parts == {p \in [slices : 0..MaxSlices, codec : Codecs] : p.slices = 0 => p.codec = "none"}

VARIABLES
  source, parts,    \* the task of the message, or "none", and what it names
  pc,               \* what the parse awaits or does next
  part, slice,      \* the part being streamed and its slices read so far
  held,             \* a zip entry's slice held back until the next (createEntryDecoder)
  stream,           \* the part's decoder: "closed", "open", "finished" or "cancelled"
  backlog,          \* slices an awaited decoder has not passed on
  fed,              \* slices whose output reached the line decoder, as <<part, slice>>
  sawApp,           \* an application start was among their lines
  flushed,          \* the line decoder was flushed
  messages,         \* what was posted
  requests          \* task-data requests not answered yet

workerVars == <<source, parts, pc, part, slice, held, stream, backlog, fed, sawApp,
                flushed, messages, requests>>

Archive == source \in {"zip", "url"}
Terminal == {"done", "error"}
Progress(pct) == [type |-> "progress", pct |-> pct]
Unknown == -1   \* a progress without a fraction

\* The slices of the first n parts, in order.
Log[n \in 0..Len(parts)] ==
  IF n = 0 THEN <<>> ELSE Log[n - 1] \o [j \in 1..parts[n].slices |-> <<n, j>>]

TotalSlices == Len(Log[Len(parts)])
SlicesBefore(i) == Len(Log[i - 1])

WorkerInit ==
  /\ source = "none" /\ parts = <<>> /\ pc = "idle"
  /\ part = 1 /\ slice = 0 /\ held = 0 /\ stream = "closed" /\ backlog = <<>>
  /\ fed = <<>> /\ sawApp = FALSE /\ flushed = FALSE
  /\ messages = <<>> /\ requests = 0

-----------------------------------------------------------------------------
(* Messages.                                                                *)

Post(msgs) == messages' = messages \o msgs
Error == Post(<<[type |-> "error", pct |-> Unknown]>>)
FailSilently == UNCHANGED messages /\ pc' = "ended"   \* nobody reports a rejection
Fail == Error /\ pc' = "ended"

\* The progress posted with the slice fed last: a file knows where its slice
\* starts, an archive what was read of it; a download has no fraction left.
PctOfPart == IF source = "url" THEN Unknown ELSE slice - 1   \* forgets the parts before
Pct == IF source = "url" THEN Unknown
       ELSE IF source = "zip" THEN SlicesBefore(part) + slice
       ELSE SlicesBefore(part) + slice - 1

-----------------------------------------------------------------------------
(* The task.                                                                *)

Task(s, ps) ==
  /\ pc = "idle"
  /\ source' = s /\ parts' = ps
  /\ pc' = IF s = "url" THEN "fetching" ELSE "opening"
  /\ s = "file" => Len(ps) = 1
  /\ UNCHANGED <<part, slice, held, stream, backlog, fed, sawApp, flushed, messages, requests>>

\* runParseFromUrl up to decodeShsArchive: the fetch, its status and its body
\* may fail; a download of known length posts its half.
Download ==
  /\ pc = "fetching"
  /\ \/ Fail
     \/ pc' = "opening" /\ \E known \in BOOLEAN : Post(IF known THEN <<Progress(0)>> ELSE <<>>)
  /\ UNCHANGED <<source, parts, part, slice, held, stream, backlog, fed, sawApp, flushed, requests>>

\* An empty file, an empty directory, an archive that cannot be listed, holds
\* no log or more than one attempt, a first read that fails.
Open ==
  /\ pc = "opening"
  /\ \/ Fail
     \/ /\ parts # <<>> /\ (source = "file" => parts[1].slices > 0)
        /\ pc' = "header" /\ UNCHANGED messages
  /\ UNCHANGED <<source, parts, part, slice, held, stream, backlog, fed, sawApp, flushed, requests>>

\* The header of a part: the codec of a file is sniffed from it.  An entry's
\* decoder is opened by its first bytes.
ReadHeader ==
  /\ pc = "header"
  /\ \/ Fail /\ UNCHANGED stream
     \/ /\ pc' = "reading" /\ UNCHANGED messages
        /\ stream' = IF Archive \/ parts[part].slices = 0 THEN "closed" ELSE "open"
  /\ UNCHANGED <<source, parts, part, slice, held, backlog, fed, sawApp, flushed, requests>>

-----------------------------------------------------------------------------
(* Streaming (streamFile, streamZipEntry with createEntryDecoder).          *)

Current == parts[part]
LastSlice == slice = Current.slices

CancelNothing == stream' = stream
CancelStream == stream' = IF stream = "open" /\ Current.codec = "zstd" THEN "cancelled" ELSE stream

ReadSlice ==
  /\ pc = "reading" /\ ~LastSlice
  /\ \/ Fail /\ CancelStream /\ UNCHANGED slice
     \/ slice' = slice + 1 /\ pc' = "pushing" /\ UNCHANGED <<messages, stream>>
  /\ UNCHANGED <<source, parts, part, held, backlog, fed, sawApp, flushed, requests>>

\* What is pushed now and with what `final`: an entry's slice is held back
\* until it is known whether another follows.
PushUnheld == [slice |-> slice, final |-> FALSE]
PushFile == [slice |-> slice, final |-> LastSlice]
PushHeld == [slice |-> held, final |-> FALSE]
PushLast == [slice |-> held, final |-> TRUE]

\* The slices a push passes on.  A zstd decoder may keep some back, not at a
\* final push.
PassedOn(p) ==
  LET queued == Append(backlog, <<part, p.slice>>)
  IN  IF Current.codec = "zstd" /\ ~p.final
        THEN {SubSeq(queued, 1, n) : n \in 0..Len(queued)} ELSE {queued}

\* decoder.push: its output is fed and the parser posts its progress every so
\* many lines, or it throws, possibly after some of its output.
Push(p, next) ==
  \/ /\ CancelStream /\ Fail
     /\ \E n \in 0..Len(backlog) : fed' = fed \o SubSeq(backlog, 1, n)
     /\ UNCHANGED <<backlog, sawApp>>
  \/ \E now \in PassedOn(p) :
       /\ fed' = fed \o now
       /\ backlog' = SubSeq(Append(backlog, <<part, p.slice>>), Len(now) + 1, Len(backlog) + 1)
       /\ sawApp' \in (IF now = <<>> THEN {sawApp} ELSE {sawApp, TRUE})
       /\ \E told \in {<<>>, <<Progress(Pct)>>} : (now = <<>> => told = <<>>) /\ Post(told)
       /\ stream' = IF p.final THEN "finished" ELSE "open"
       /\ pc' = next

PushSlice ==
  /\ pc = "pushing"
  /\ IF ~Archive THEN Push(PushFile, "reading") /\ UNCHANGED held
     ELSE IF held = 0
       THEN held' = slice /\ pc' = "reading" /\ stream' = "open"
            /\ UNCHANGED <<fed, backlog, sawApp, messages>>
     ELSE Push(PushHeld, "reading") /\ held' = slice
  /\ UNCHANGED <<source, parts, part, slice, flushed, requests>>

\* The end of a part: an entry's last slice is pushed with `final`, and a
\* decoder of blocks may find bytes left over.
EndEntry == Push(PushLast, "next")

EndOfPart ==
  /\ pc = "reading" /\ LastSlice
  /\ \/ /\ Archive /\ held # 0
        /\ EndEntry
     \/ /\ ~(Archive /\ held # 0)
        /\ \/ Current.codec = "blocks" /\ Fail
           \/ pc' = "next" /\ UNCHANGED messages
        /\ UNCHANGED <<fed, backlog, sawApp, stream>>
  /\ held' = 0
  /\ UNCHANGED <<source, parts, part, slice, flushed, requests>>

NextPart ==
  /\ pc = "next"
  /\ IF part < Len(parts)
       THEN part' = part + 1 /\ slice' = 0 /\ stream' = "closed" /\ pc' = "header"
       ELSE pc' = "flushing" /\ UNCHANGED <<part, slice, stream>>
  /\ UNCHANGED <<source, parts, held, backlog, fed, sawApp, flushed, messages, requests>>

\* The last line, then the completion or an error.
Completion == <<Progress(TotalSlices), [type |-> "done", pct |-> Unknown]>>
FinishAnyway ==   \* forgets to return after the error
  /\ pc = "flushing"
  /\ flushed' = TRUE
  /\ pc' = "ended"
  /\ Post((IF sawApp THEN <<>> ELSE <<[type |-> "error", pct |-> Unknown]>>) \o Completion)
  /\ UNCHANGED <<source, parts, part, slice, held, stream, backlog, fed, sawApp, requests>>
Finish ==
  /\ pc = "flushing"
  /\ flushed' = TRUE
  /\ IF sawApp THEN Post(Completion) /\ pc' = "ended" ELSE Fail
  /\ UNCHANGED <<source, parts, part, slice, held, stream, backlog, fed, sawApp, requests>>

-----------------------------------------------------------------------------
(* Task data, asked for at any time and answered from the latest state.     *)

RequestTaskData ==
  /\ requests < MaxRequests
  /\ requests' = requests + 1
  /\ UNCHANGED <<source, parts, pc, part, slice, held, stream, backlog, fed, sawApp, flushed, messages>>

AnswerTaskData ==
  /\ requests > 0
  /\ requests' = requests - 1
  /\ UNCHANGED <<source, parts, pc, part, slice, held, stream, backlog, fed, sawApp, flushed, messages>>

Step == Download \/ Open \/ ReadHeader \/ ReadSlice \/ PushSlice \/ EndOfPart \/ NextPart \/ Finish

WorkerNext ==
  \/ \E s \in Sources, ps \in UNION {[1..n -> Parts] : n \in 0..MaxParts} : Task(s, ps)
  \/ Step
  \/ RequestTaskData \/ AnswerTaskData

WorkerSpec == WorkerInit /\ [][WorkerNext]_workerVars /\ WF_workerVars(Step)

-----------------------------------------------------------------------------
(* Properties.                                                              *)

\* "done" means that every slice of every part was decoded, in order and once,
\* and the last line flushed; nothing is left in a decoder.  Before it, what was
\* fed is a beginning of the log.
DoneIsWhole ==
  LET log == Log[Len(parts)]
  IN  /\ IsPrefix(fed, log)
      /\ (messages # <<>> /\ Last(messages).type = "done")
           => flushed /\ backlog = <<>> /\ held = 0 /\ fed = log

\* A parse that ends with an error leaves no zstd stream open: its decompress
\* worker or its threads would go on for nobody (streamFile, parseZipArchive).
NoStreamLeftOpen ==
  pc = "ended" => ~(stream = "open" /\ Current.codec = "zstd")

\* A parse posts one terminal message at most, and nothing after it, however
\* reads, pushes and the completion fail.
OneTerminal ==
  \A n \in DOMAIN messages : messages[n].type \in Terminal => n = Len(messages)

\* The progress shown never goes back: over the slices of a part, from part
\* to part and to the end.
ProgressNeverFalls ==
  \A m, n \in DOMAIN messages :
    (m < n /\ messages[m].pct # Unknown /\ messages[n].pct # Unknown)
      => messages[m].pct <= messages[n].pct

\* What the main thread is told of a parse makes one story.
MessagesInOrder == OneTerminal /\ ProgressNeverFalls

\* Every parse ends with a terminal message (reportParseFailure), if the
\* reads and the pushes it awaits settle.
ParseReports ==
  (pc # "idle") ~> (messages # <<>> /\ Last(messages).type \in Terminal)
=============================================================================
