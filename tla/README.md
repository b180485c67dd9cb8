# SparkForensics in TLA+

SparkForensics reads a Spark event log, in the browser or from Node, builds a
model of the run, runs detectors over it and shows (or prints, or serves over
MCP) what they found.  This directory holds TLA+ models of its concurrent and
stateful parts, the TLC configurations that check them and the proofs that
TLAPS checks.  Paths below are relative to the repository root.

## Inventory

| Part | State it keeps | Operations | Talks to | What must hold |
|---|---|---|---|---|
| **Browser session**: `src/store/useIngest.ts`, `src/store/store.ts` | the store (status, run, active file, session cache, comparison), `clientRef`, `pendingRef` | load a file, folder or URL; cancel; reset; pick a recent file; compare two runs; drill in | the ingest client (callbacks), the browser (pickers, permission prompts, awaited), recent files (awaited) | a run and its snapshots hold the events of their own file; one worker at most; every parse ends; a screen has what it shows |
| **Ingest client**: `packages/core/src/ingest.ts` | its worker, its handlers, pending task-data requests | start, request task data, terminate | the parse worker (messages), the session (callbacks) | no message of a terminated worker reaches anybody; every request settles |
| **Parse worker**: `packages/core/src/parser-worker.ts` | the parser state, the file being streamed | parse a file, a rolling directory, an archive, a URL; answer task data | decoders (awaited pushes), event handlers (calls), the client (messages) | exactly one terminal message; a stream is drained before the lines are flushed and cancelled when reading fails |
| **Decompress worker**: `zstd-worker-client.ts`, `zstd-worker.ts` | client: port, readiness, active stream, unacknowledged slices; worker: stream id, decoder, batch | start, data, cancel; chunk, consumed, error | each other (two queues), the parse worker (awaited pushes, `onChunk`) | output in order, of the right stream, drained by a final push; bounded queues; every push settles |
| **Event handlers**: `event-handlers.ts`, `stage-quantiles.ts` | stages, task attempts, SQL executions, accumulators, RDD blocks, jobs, executors | one per event type; completion | the parse worker (calls), the model (messages) | the work of every task attempt is counted once, whatever the order of completion, resubmission and late ends; a deferred plan update changes nothing but the cost |
| **Line decoder**: `buildChunkDecoder` | a pending line, a search position, an escape run | decode, flush | event handlers | the lines are those of the whole text, however it is cut |
| **Codecs**: `lz4-block.ts`, `snappy-block.ts`, `zip-archive.ts`, `cli/native-zstd.ts` | a frame being gathered; frames in flight | push, end | the parse worker | the same output however the input is cut; bounded queues; errors in their place |
| **Recent files**: `recent-files.ts` | an IndexedDB store | add, touch, remove, list, get | the session, the drop zone | at most ten entries, none lost but the oldest |
| **MCP run cache**: `mcp-tools.ts` | runs by id, ids by source, parses in flight, built comparisons | resolve or create, get, evict | the parser (awaited), MCP calls | one parse per source at a time; nothing of an evicted run survives it |
| **History Server access**: `shs-fetch.ts`, `shs-load.ts`, `proxy.js` | a download, a watchdog, a response | fetch, pipe, abort | an upstream server, the browser | each response settles once; a stalled upstream is cut |
| **Node collection**: `cli/collect-run*.ts` | one promise per run | collect here, in a worker, a pair | the parser | a run is collected once, wherever it is; its files are closed |
| **Layout worker client**: `plan-graph/layout-worker-client.ts` | the worker, requests in flight | lay out, warm | the plan graph view | every request is answered, by the worker or by a null |
| **Analysis**: detectors, impact model, comparison, alignment, verdicts, budgets | none | functions of one or two models | everything above | arithmetic and matching |
| **Views, exports, docs** | component state | rendering | the store | out of scope |

The hard behaviours: two or three threads exchanging messages, promises awaited
across which shared references are replaced, workers that are terminated with
messages under way or crash, transactions and parses of concurrent calls that
interleave, bytes cut anywhere, and events that come late, twice or for an
attempt that was replaced.  `PROJECT.json` lists each of them with its line.

## The modules

| Module | Models | Kind |
|---|---|---|
| `StreamDecoder` | what a `ZstdDecoderFactory` promises the code that streams files through it | abstract specification |
| `ZstdWorkerClient` | the decompress worker, its client, the in-thread fallback and the caller | implements `StreamDecoder` |
| `NativeZstd` | Node's threaded decoder | implements `StreamDecoder` |
| `ParserWorker` | one parse: file, rolling directory, zip or download, and its messages | specification |
| `ChunkDecoder` | the cutting of decoded bytes into lines, with skipped plan descriptions | algorithm, checked against cutting the whole text |
| `SqlReading` | the reading of SQL events in which every line is handled when read | abstract specification |
| `SqlHandlers` | what the SQL handlers do to one execution | operators shared by the two |
| `SqlDeferral` | the reading with deferred adaptive updates | implements `SqlReading` |
| `StageLifecycle` | the record of one stage through attempts, resubmits and task ends, and the stage the model shows | specification |
| `RddBlocks` | residency of the blocks of RDDs | specification |
| `IngestSession` | the browser session over the ingest clients and the screens that offer its actions | specification |
| `RecentFiles` | the list of recent files as interleaved IndexedDB transactions | specification |
| `McpRunCache` | the run cache of the MCP tools and the calls across their awaits | specification |
| `ShsProxy` | one proxied History Server download | specification |
| `CollectPair` | two runs collected on two threads | specification |
| `LayoutWorker` | layouts asked of a worker that may die | specification |
| `SequenceAlignment`, `StageAlignment` | `alignSequences`, `alignStages` | algorithms |
| `RunAlignment` | questions put to the two, with the definitions their answers are compared with | specification |
| `MCIngestSession`, `MCEventLog`, `MCDecoding`, `MCHosts`, `MCRunAlignment` | instances for TLC | composition |
| `ZstdWorkerClientProofs`, `NativeZstdProofs`, `IngestSessionProofs`, `RunAlignmentProofs` | theorems about the module of their name | proofs |
| `EventLogProofs` | theorems about `StageLifecycle`, `RddBlocks` and `SqlDeferral`, a section each | proofs |
| `DecodingProofs` | theorems about `ParserWorker`, and what `ChunkDecoder` keeps of a line | proofs |
| `LinesProofs` | that the lines `ChunkDecoder` returns are the log's, on what `DecodingProofs` shows | proofs |
| `HostsProofs` | theorems about `ShsProxy`, `RecentFiles`, `CollectPair` and `McpRunCache`, a section each | proofs |

Three of the instances put components side by side: `MCEventLog` those that keep
records of a log's events, `MCDecoding` those between bytes and lines, `MCHosts`
those around a parse.  The components of one instance share no variable, and
what one hands to the next is chosen freely in the next one's model (any slices,
any frames, any log).  Interleaving them would only multiply states, so a
variable that never changes (`record`, `stage`, `host`) says whose behaviour it
is, and the others keep one initial state.

An operator whose name ends in what a bug would do (`WindowOpenOffByOne`,
`LeftAll`, `FinishAnyway`, ...) is a mutated form of the definition that follows
it. No specification uses one; `PROJECT.json` says under "mutants" which property
catches which.

### StreamDecoder and ZstdWorkerClient

`parser-worker.ts` (`streamFile`) and `shs-fetch.ts` (zip entries) open one
stream at a time, push compressed slices and await each push, and flush the
line decoder after the final one. `StreamDecoder` is that contract: blocks reach
`onChunk` in order, a final push returns when all are fed, and nothing is fed
after a failure.

`ZstdWorkerClient` has a state for every variable of the two files. On the
client: the shared `ready` promise, port and active stream; per stream
`started`, `local`, `seq`, `inFlight` and `failure` (seq and the stream id are
the code's own counters). On the worker: the stream id, the decoder, the output
batch and the slice `decoder.push` is in. `toWorker` and `toClient` are the two
`postMessage` queues. The caller is where its `await` is: in `begin()`, waiting
for the window, decoding in its own thread, or between pushes. An action is what
runs between two awaits or one handled message, so `push` is `PushFirst`
followed by `BeginOnWorker` or `BeginLocal`, or `PushToWorker`, and the window
loop is `AfterPush`. `decoder.push` on the worker takes one step per block and a
last one, so replies are handled while it runs.

Data are block numbers: slice contents, compression and sizes are not modelled,
and a slice may decode to no block, some blocks, or some blocks and an error.
`StopAtFailure` says whether the caller opens a stream after one failed (the
program's parses do not; the interface allows it).

### IngestSession

`store` holds the fields of the store that the actions of `useIngest` read and
write; `clientRef` and `pendingRef` are the two references; `clients` is one
ingest client per load with the callbacks it calls now; `parses` is one parse
per load with its worker, its model and where its `runDone` stands. Each action
of `useIngest` is an action here, with the screen that offers it as its guard
(`Landing`, `Dashboard`, `Comparison`, ...); an action that awaits the browser
(a permission prompt, a picker, a fetched handle) leaves an entry in `waiting`
or a parse that is `resolving`, and its continuation is an action of its own. A
worker posts its data, its done or its error, or crashes, at any time it is
alive; `terminate` kills it and rejects what was asked of it. `runDone` is split
at its two awaits, the prefetch of task data and the recent-files entry.

A run is the set of sources whose messages built its model, so a model that
mixes two files is a set of two.

### StageLifecycle

`stage` is the `StageRecord` of one stage id and `model` what the messages made
of it in `AppModel`. The actions are the handlers of `StageSubmitted`
(`submitStage`), `StageCompleted` (with `finalizeStage` and the message it
posts), `TaskEnd` (`accumulateTask`, one disjunct per branch, those of
`accountLateSpeculativeLoser` included) and `emitParseCompletion`.

A sum is kept as what it is the sum of: how often each run of a task is in the
executor times and bytes, how often each task is in the task counts. A property
can then say that a run is counted once, where the code has only numbers.

The environment is the log of a Spark application, in the order its listener bus
may write it: attempts are numbered from 0; `StageCompleted` is about the latest
attempt, once or replayed with the same outcome; an attempt may be resubmitted
before its completion; a run may end at any time after its attempt was
submitted, also after its attempt was replaced; a retry starts only while its
attempt is open and after the first try failed; the log may be cut anywhere.
Other stages share nothing of this state.

Left out: accumulables, quantiles, samples, failure groups, hosts, executor
metrics, and tasks without an index (fixtures only), each of which is then a
record of its own.

### SqlHandlers, SqlReading and SqlDeferral

`SqlHandlers` has one operator per handler of a SQL event, from the record of an
execution (`SqlExecutionRecord`) to the next, its entry in `AppModel.sql` and its
resolved tree included. `SqlReading` calls them line by line. `SqlDeferral` is the
program: while an execution is open, the text of an adaptive update in Spark's
compact form is kept (`pendingAdaptiveUpdates`), replaced by the next one, and parsed when the
execution ends, when an unusual update or the end of the log comes. `Eager` maps
the program's state to the reading's by flushing what is kept.

A plan is a model value, and so is the description printed beside it; one
accumulator stands for those of a plan, shared by every execution, with the
number of driver updates and the last stage total as its values. `life` only
records what the lines said, for `TreeIsItsOwn`.

The environment: updates come while their execution is open, an id starts again
only after its end, an end may be repeated, jobs list stages in any order, and
the log may be cut anywhere. `MayBeMalformed` lets a compact update turn out not
to parse; it is `FALSE` in every run, because only the last line of a cut log is
incomplete and such a line does not end as Spark's do. With `TRUE`,
`ImplementsReading` fails: the kept line has replaced a good one.

### RddBlocks

`rddBlocks` has the blocks by key, the replica counts by partition and the bytes,
`rddBlockKeysByExecutor` the index by executor, `rddInfo` the published records.
The actions are `recordBlockUpdate`, `removeExecutor` and `mergeStageRddInfo`;
`cache` is what Spark holds, changed by the same events, and what the structures
are compared with. A block has one unit of memory or disk.

### ParserWorker

One parse of `parser-worker.ts`, from the message that asks for it to its
terminal message. The actions are what runs between two awaits: the download,
the opening of the source, the header of a part, a read, a push, the end of a
part, the next part and the completion; each may fail where the code awaits or
decodes. A zip and a download go through `createEntryDecoder`, which holds a
slice back until it knows whether another follows (`held`); `Push` says what a
decoder passes on, a zstd one as late as `StreamDecoder` allows. Task-data
requests come at any time and are answered after the parse.

### NativeZstd

The threads of `OffThreadFrame` (`threads`: chunks made, taken, paused), the queue
of frames waiting for their turn (`queued`) and the place of `push` in its loops
(`phase`). What `FrameSplitter` yields for a slice is an input: small frames,
large ones, wide ones and ones left to fzstd, whole or corrupt. A thread runs
when the main thread waits or is between pushes. The refinement maps blocks fed
and the caller's state to `StreamDecoder`.

### ChunkDecoder

`dec` has the fields of the closure of `buildChunkDecoder`: the pending line and
its head, what was searched, what is skipped, the escape run carried over, the
held part of a character. A log is a text over a dozen bytes, each standing for
the bytes nothing else in the code tells apart; a prefix and a key of two bytes
can be cut in the middle. `LinesOfText` compares with the lines of the whole text.

### RecentFiles

Each call is the chain of transactions it makes; a step runs one. Which run an
entry describes is in `IngestSession`. `CappedButForTouches` is what the code
keeps: see the remarks under Findings.

### McpRunCache

Both caches in the order of last use, the parses in flight, and calls of one or
two references that find, share or start a parse. A parse takes its key at the
call and reads the file later, so `content` is the version read; logs grow in
between. Which of the oldest runs have expired is left open.

### ShsProxy, CollectPair, LayoutWorker

`ShsProxy` has the two streams of `handleShsProxy`, their events under way
(`due`), the idle watchdog, the client, and what it makes of the response.
`CollectPair` has the plan the sizes decide, the thread with its events under
way, and the files each `collectRun` opens. `LayoutWorker` has the client's
pending jobs, the worker's queue and the batch a view waits for.

### SequenceAlignment, StageAlignment, RunAlignment

The two functions as operators. `Best` and the walk of `AlignSequences` are
functions over the corners of a table, recursive through `BestAt` and `WalkAt`;
`PairSimilar` takes the first candidate and goes on with those it leaves. A stage is a
kind (its keys, name and call site) in an execution; similarities of kinds are an
input, and the similarity of two executions is that of their stages' tokens, which
pair off like keys. `RunAlignment` asks one question and stores the answer, so that TLC checks
one table or one pair of runs per behaviour.

## The runs

| Run | Bounds | What it shows |
|---|---|---|
| `zstd_safety` | 2 streams of 3 slices of up to 2 blocks, window 2, batches of 2 | types, the window, errors last, `ImplementsStreamDecoder`: output in order, of its own stream, drained by a final push |
| `zstd_live` | 2 streams of 3 slices of 1 block, no stream after a failure | the window over all streams, and every push settles |
| `session_loads` | 2 files, 3 loads, 1 intake waiting, comparisons | the run on screen and every snapshot are of their own file; one worker; the screen has what it shows |
| `session_compare` | 1 file, 3 loads, 1 intake waiting, comparisons | every parse and every comparison being loaded ends |
| `event_log` | stage: 1 task with retry and copy, 2 attempts in full and 3 with 2 ends; SQL: 2 executions, 2 plans, 1 stage, 1 driver update; RDD: 2 partitions on 2 executors | work counted once and kept, waste, failures, the finished model; trees and their deferral; residency and its peak |
| `decoding` | parse: 2 parts of 2 slices, 1 task-data request; zstd: 3 frames of up to 3 chunks over 2 pushes, 2 threads, 3 queued, 1 buffered; lines: some 300 texts cut into slices anywhere | a done parse is whole and its messages in order, every parse reports; frames in order within bounds, every push settles; lines and their pieces |
| `hosts` | mcp: 1 file, 1 download, 2 calls, 3 runs, caches of 2 and 1; proxy: 3 chunks; layouts: 2 keys, 3 batches; recents: 4 files, cap 2, 3 calls; alignment: tables up to 3 by 3 and 2 by 4, every pair of 60 runs and 60 | caches agree, no stale answer; cut bodies are seen and downloads settle; a log collected once; waiting views go on; the cap; best alignments, each stage once |

Five more runs expect a violation; see the findings.

Both passing runs of the session have intakes that wait for the browser and
comparisons in one behaviour. They leave out one step, with `Apart` as their
`ACTION_CONSTRAINT`: an intake that is granted while a comparison awaits its
source. `session_stuck` is the same specification with that step, and shows what
goes wrong. No fairness is lost with it: the answer to
an intake (`Granted`) is an action of the reader and is not fair, and every
action that is fair stays enabled. The state space of `session_loads` is reduced
by the symmetry of the two files and by a `VIEW` without `answer`, the result of
the last pick, which no action and no invariant of that run reads.

Why the bounds are enough. A window of two with three slices fills, empties and
fills again, batches of two make both full and partly filled ones, and with a
second stream every message of a first one can be left over in a queue. Three
loads let one be in an await, one parse and one replace them; two files are the
least that can be mixed up, and how a parse ends does not depend on which file
it is of, so that `session_compare` needs one. Two attempts give every order of
an end around a completion and a resubmit, and three attempts fold totals that
were folded before (`FewerEndsOfThree` keeps those logs shorter). Two executions with one
accumulator share it, restart with the other open, and each has an update to
supersede. Two partitions on two executors have replicas, moves and losses. Two
parts of two slices have a first, a last and a held one each, in every codec.
Three frames on two threads fill the threads with a third queued behind; one
buffered chunk of three makes a thread pause and go on. The texts hold every
special byte beside every other within a value, before and after it, and are cut
at every place, so that each search is resumed at each seam. A cache of two
runs evicts with the third, while one of two calls is in any of its awaits. A
list capped at two with four files overflows twice with three calls under way.
Tables of three by three have crossing pairs, ties and bands that cut off a
cell (`FullCells`); runs of three stages leave some to every pass.

What a bound hides is said here: no fourth attempt, no third execution, no third
call; the alignment of longer sequences; lz4 and snappy framing.

`CHECK_DEADLOCK FALSE` is set everywhere because every one of these systems may
rightly stop: the caller has no more streams, the reader does nothing more, the
log ends.

### Fairness

`zstd_live` assumes that the two event loops run what is queued on them (`Begin`,
`Local`, `HandleReply`, `HandleWorkerError`, `Worker`) and that a worker being
loaded loads or reports an error (`WorkerLoad`, which a crash may preempt).
Nothing makes the caller push and nothing makes a worker crash.

`session_compare` and `session_stuck` assume that a worker that is alive gets on with its parse
(`Parse`), that promises that settled are continued (`Finish`), and that the
reader answers a permission prompt of a comparison (`Resolve`), without which
the comparison rightly waits. No action of the reader is fair, nor a crash.

In `decoding`, the awaited reads and pushes of a parse settle, with success or
not (`Step`), for the zstd decoders because of `PushSettles` and
`NativePushSettles`; and the main thread (`Work`) and each thread of the pool
(`ThreadEvent`) go on.

In `hosts`, the handler runs, timers run out and events of streams are delivered
(`Handle`, `NoHeaders`, `WatchdogEnds`, `Events`, `ClientReads`); a layout that
was asked for is computed or throws (`Run`). The History Server owes nothing: it
need not send, end or break (`UpstreamSends`, `UpstreamEnds`, `UpstreamBreaks`),
so that a download whose upstream stalls settles by the idle watchdog alone. The
worker's death, the client's leaving and the reader's renders are not fair.

`event_log` has no liveness property: a log obliges nobody.

## Findings

| Run | Property | The program |
|---|---|---|
| `session_recents` | `RecentIsItsFile` | `runDone` reads `pendingRef` after awaiting the prefetch: a file picked meanwhile gets the finished run's app name and time in its recent entry |
| `session_stuck` | `ParseEnds` | a load started while a comparison awaits its source loses its client to the comparison and stays on the parse screen |
| `session_fetching` | `FetchingIsRunning` | nothing clears `shsParsing` when a fetched run is ready: an intake that cannot be read then brings back a landing that says "Fetching..." with nothing being fetched |
| `recent_cap` | `Capped` | `touch` writes back an entry it read in an earlier transaction (`recent-files.ts:126`): one evicted in between comes back, past the cap of 10 that `state-and-history.md` gives |
| `stage_figures` | `OwnFiguresAreLatestAttempt` | a run of a failed attempt that ends while its successor is open is summed into the successor's figures |

`PROJECT.json` quotes the comment or document each of them contradicts. A
violated property is checked in a run of its own; the passing runs say what
holds in spite of it (in `stage_figures`' case, that the totals over all
attempts are still right: `WorkCountedOnce` and `WorkKept`).

`session_stuck` bounds what the passing session runs, and the proofs, may claim.
Once an intake takes the client of a comparison, both workers live and build one
run, and `OneActiveWorker`, `RunIsItsFile`, `SnapshotIsItsFile` and `ScreenIsTrue`
fail like `ParseEnds`. They are checked, and proved, for every
behaviour without that step (`Apart`), with intakes and comparisons mixed in any
other way. What holds of `shsParsing` in spite of `session_fetching` is
`FetchingOrError`, a part of `ScreenIsTrue`: a landing that says "Fetching..." has
a fetch being parsed, or shows the error that brought it back.

`CappedButForTouches` is what holds in spite of `recent_cap`: only the entries
that a touch wrote back after they were deleted, and no add has read since, come
on top of the cap; overlapping adds never leave one too many. An entry that was
removed on purpose comes back in the same way.

Seen while modelling, with no run of its own:

- `pickRecent` (`src/store/useIngest.ts:211`) answers noop for the file
  `activeFileId` names, also when it failed to parse or its run was reset and
  nothing is on screen, so picking it does nothing.
- A worker that crashes after its run is ready replaces the dashboard by an
  error (`WorkerCrash`), which no property forbids.
- A layout worker that failed is started again by a later view, though the one
  that saw it fail goes on without it.
- The comments of `sequence-alignment.ts` and `stage-alignment.ts` say that
  swapping two runs mirrors their pairs. The band of a long table follows the
  rows, so that swapping it need not, even when no id is in both sequences; and of
  a tie between two elements of one id `packages/core/test/sequence-alignment.test.js:42-45`
  says that it has no mirror-symmetric answer. `AlignmentIsBest` and
  `StagesAlign` ask for the mirror image of every other table, also of those
  whose ids coincide, as executions counted from 0 do.
- A task whose first try failed in time, and whose retry is killed after its
  attempt failed, is counted as two failed tasks (`event-handlers.ts:670`), where
  `ci-and-automation.md` describes a count of tasks.
- The entry of an ended SQL execution keeps the raw plan of its start beside the
  resolved tree, which `types.ts:189` says it is replaced by: the end posts the
  tree only (`event-handlers.ts:1282`).

## The proofs

TLC checks the instances above. TLAPS proves the following for every value of
the constants.

`ZstdWorkerClientProofs`, from `BoundsAssumption`, `BatchAssumption`,
`WindowAssumption` (bounds, batch and window are positive) and
`NoSliceAssumption`:

- `TypeCorrect == Spec => []TypeOK`. That `inFlight` stays in `0..MaxInFlight`
  is the part with content: it needs the window below.
- `WindowCorrect == Spec => []WindowBound`. The bound is not inductive: a reply
  that arrives says nothing of the replies behind it. `IInv` adds that whatever
  is queued for the latest stream, in either queue or in the decoder, belongs to
  a slice not acknowledged yet (`Unacked`), that nothing queued behind an
  acknowledgement is of the acknowledged slice or of an earlier one (`Ordered`),
  that ids of messages are those of streams already opened, so that a new
  stream finds nothing of its own (`IdInv`), and what client and caller agree on
  (`ClientInv`). The slices with output queued are then among the `inFlight`
  numbers `Acked .. seq-1`.
- `ErrorCorrect == Spec => []ErrorIsLast`. `OrderInv` adds that streams start on
  the worker in the order they were opened, and that a stream whose error is
  queued has no decoder any more and nothing queued behind that error.
- `TotalWindowCorrect == Spec => []TotalWindowBound`, assuming `StopAtFailure`,
  as the run does: the caller opens no stream after one failed. `TotalInv` says
  that the queues then hold nothing of an earlier stream when one is opened.
  Without the assumption the bound is per stream.
- `DecoderCorrect == Spec => ImplementsStreamDecoder`. Every step of the two
  threads is a step of `StreamDecoder` or a stutter. `DecodeInv` follows the
  blocks of the latest stream from `push` to `onChunk`: those fed, those in
  `toClient`, those in the worker's batch and decoder and those in `toWorker`
  are consecutive and are all that was given, up to an error on its way
  (`OutFlow`); the worker hears of a stream before it gets its slices
  (`StartFlow`); and the final slice is the last one, with the caller waiting
  (`FinalFlow`), which is why its acknowledgement means that all was fed.

`NativeZstdProofs`, from `NativeAssumption` (the bounds are naturals, the limits
of the code positive):

- `NativeDecoderCorrect == NativeSpec => NativeImplementsDecoder`: the other
  decoder is a `StreamDecoder` too, in whatever order its threads finish.
  `OrderInv` says where every frame is: delivered, being delivered, queued or
  still to split, in the order of the stream; `OutInv` that `onChunk` got the
  delivered frames and, of the one being delivered, what its thread's `taken`
  says.
- `NativeBacklogCorrect == NativeSpec => []BacklogBounded`: at most
  `MAX_QUEUED_FRAMES` frames are queued, and at most `MAX_FRAMES_IN_FLIGHT` threads
  and one more, that of the frame being delivered, have output waiting. What waits
  is bounded frame by frame (`ThreadInv`: a thread at its limit is paused), and only the
  current frame or a queued one has output waiting (`OwnedInv`), of which
  `RoomInv` counts the threaded ones: a frame is only added to a queue with room.
  A failed stream keeps its queue and its threads, so these parts hold after a
  failure as well.

`EventLogProofs`, of a stage, from `StageAssumption`:

- `TypeCorrect == Spec => []TypeOK`.
- `CountedOnce == Spec => []WorkCountedOnce` and
  `NoWorkLost == Spec => []WorkKept`. The two are halves of `WorkInv`: the work
  of a run that ended is counted exactly once, or not at all and then for one of
  the two reasons `LeftOut` names. Its induction needs that an open record has no
  work of its own yet and a finalized one no task records (`RecordInv`), that
  only ended runs, ended in the open attempt, are recorded (`EndInv`), and what
  the fates of the attempts say of the record (`FateInv`).
- `WasteCorrect == Spec => []WasteIsLateWork`, by `WasteInv`.
- `FailuresCorrect == Spec => []FailedTaskHadNoSuccess` and
  `RecordCorrect == Spec => []RecordIsShown`, by `ShowInv`: the model is of the
  attempt completed last (`ShownInv`), the record counts the attempts the log
  submitted and failed (`CountsInv`), and a task with a success in the open attempt is held
  by a run that succeeded (`SuccessInv`), so that no later failure is counted.

`EventLogProofs`, of the blocks of RDDs, from `RddAssumption` (RDDs, partitions and executors are
finite sets):

- `ResidencyCorrect == RddSpec => []ResidencyAgrees`. `KeptInv` compares the
  blocks, replica counts and bytes of each RDD with what Spark holds, `IndexInv`
  the keys by executor, `BlocksShownInv` the published record with the peak. Its
  induction needs what holds of a record that no update has touched: its RDD has
  no block, and when the log has block updates no snapshot showed a figure.
  Updates go one block at a time through sums and replica counts (`Changed`), and
  the loop over a lost executor's blocks through a recursive function (`Dropped`)
  shown not to depend on the order.
- `CachedStays == RddSpec => CachedNotLost`, an action property: an update
  refreshes the record only at a new or equal peak, so what is shown never
  falls to zero, and a record that comes from block updates keeps its level. One
  that no block update touched does not: a snapshot's level replaces it.

`EventLogProofs`, of deferred adaptive updates, from `SqlAssumption`,
`DeferralAssumption` and `MayBeMalformed = FALSE`:

- `DeferralCorrect`: `SqlSpec` implements `ImplementsReading`, initial states and
  steps. Deferring an update maps to reading it; flushing one to a stutter. What
  makes this true is that an update leaves nothing of the one it supersedes and
  commutes with every line that may come in between (metrics, jobs, stages).
- `TreesCorrect == SqlSpec => []TreeIsItsOwn`. The invariant says of an
  open execution what the property says of an ended one, with what is kept
  already applied: its plan is the last one read, its columns are that plan's,
  its maps hold what was added in its own life.

`DecodingProofs`, of a parse for any constants and of the line decoder from
`DecoderAssumption`:

- `StreamsCorrect == WorkerSpec => []NoStreamLeftOpen`. `StreamInv` says where in
  a part a decoder may be open: never past it, in a file not once its last slice
  was pushed, in an archive not before a slice is held back.
- `DoneCorrect == WorkerSpec => []DoneIsWhole`. `PlaceInv` says which part, slice
  and held slice each step may be at; `FedInv`, that what was fed, then what the
  decoder keeps back, then the slice held back, are the slices of `Log` read so
  far: nothing is lost at a seam between parts, because a part is only left with
  an empty backlog.
- `MessagesCorrect == WorkerSpec => []MessagesInOrder`. `TalkInv` bounds the last
  progress posted by what was read, which the next one is computed from, and
  says that a parse which still goes on has posted no terminal message.
- `OpenValuesBounded == DecoderSpec => []OpenValueBounded`, for any log, its
  slices cut anywhere. `OpenInv` says what the decoder's flags mean for its
  pending line. Settled: no value will be looked for in it, or the value closed,
  or is a small command's (`Decided`), which more characters cannot change. Not
  settled: too short to tell, or without a key so far, its last character kept in
  `keyTail`, or with an open value short enough to be read further (`Reading`).
  Skipping: it ends where its value starts, and what is decoded next starts with
  the quote or the end of line that ends the value (`BytesDecoded`). The step
  that needs most care is a key cut by a slice: searching the seam and what was
  appended finds the first key of the whole line (`FindLater`).

`LinesProofs`, of the same decoder:

- `LinesCorrect == DecoderSpec => []LinesOfText`, for any log, its slices cut
  anywhere. The property speaks of the lines of the whole log; the invariant
  (`ReadInv`) of those of the bytes read. `LinesInv`: what was returned are the
  lines that ended in them and what is pending is the rest of them, each whole or
  without a description too long to be read. While a value is skipped
  (`Skipping`), what is pending is the line up to the value, the value is open in
  what was read, and the carried backslashes have the parity of those that end
  the line. They are bytes there and characters here, and a first byte that waits
  for its second ends the run of the bytes only: `Escapes` allows for it.
  `PiecesInv`: the head kept for the next joined line is a beginning of what is
  pending. `OpenInv`, above, is needed with it: which value is skipped was decided
  on a pending line.
  A slice is a second text joined to the one read, and three facts carry the
  step: decoding two texts one after the other is decoding the text they make
  (`DecodeJoined`); cutting that into lines is cutting the second one from the
  rest of the first (`CutJoined`), also where that rest is pending without its
  description; and the quote that closes the value in the bytes of a slice is
  the one that closes it in the characters of the line (`SliceSkipped`,
  `SliceResumes`). Later slices only add lines (`FirstLines`), so what holds of
  the bytes read holds of the whole log.

`IngestSessionProofs`, from `SessionAssumption`, for every behaviour in which no
intake is granted while a comparison awaits its source (`[][Apart]_vars`; see
Findings). The theorems state that condition on the steps in their hypothesis,
and nothing on the constants: any number of waiting intakes, with comparisons or
without.

- `RunCorrect`, `SnapshotsCorrect` and `WorkersCorrect`: `Spec /\ [][Apart]_vars`
  implies `[]RunIsItsFile`, `[]SnapshotIsItsFile` and `[]OneActiveWorker`. None is
  inductive. `SInv` adds what a model holds by how far its worker got
  (`GoodParse`), that a live worker is the last of the client `clientRef` holds
  and calls back its own load, that a source is awaited only while its comparison
  is being loaded, and that a file being read is the file shown as open
  (`Placed`). `Alone` draws from it that a live or awaited worker excludes every
  other one, and each action is then one of four kinds of step: a load begins,
  the client's worker is stopped, one parse changes, or only the store does.
- `ScreenCorrect == Spec /\ [][Apart]_vars => []ScreenIsTrue`. `Shown` says which
  snapshots a comparison on screen, being loaded or left for a drill must have:
  those of its runs that are not in `Gone`, the files that left the recent list
  for good: a pick that finds its file gone drops the entry with the snapshot. A
  parse whose prefetch is awaited may still list its file again, but no comparison
  is there then (`PrefetchInv`). The types of what no other part needs are
  `SideInv`.

`RunAlignmentProofs`, from `AlignmentAssumption`, `KindsAssumption` and
`QuestionsAssumption` (limits are naturals, similarities symmetric, a key is never
`NoKey`, tables are tables and runs are runs):

- `AlignmentCorrect == AlignmentSpec => []AlignmentIsBest`, for a table in full or
  cut to a band. `BestIsBound`: no alignment of the suffixes that start at a corner
  scores more than `Best` there; `WalkPaths`: the walk from a corner is such an
  alignment and scores just that. Each is shown at the corner nearest to the end
  where it would fail (`LastCorner`): the corners it is computed from are nearer
  still. Left of the band it matters that the bands of later rows start no earlier,
  right of it that the row cannot match. `BestMirrors` and `WalkMirrors` follow the
  swapped table the same way; where both skips are optimal the ids decide, and so
  no two elements tied there may have one id (`MayMirror`).
- `StagesCorrect == AlignmentSpec => []StagesAlign`. Equal ranks pair the stages of a
  key one to one, as many as the smaller side has, so none is left on both
  (`KeysPairOnce`, `NoKeyLeft`). The candidates by similarity are taken greedily:
  the pairs taken are the one set in which a candidate is taken unless a better one
  took a stage of it (`StableUnique`), and the mirror image of that set is the one
  of the swapped runs although ties are broken by the baseline first, since a tie
  that the mirror image breaks differently has no stage in common (`StableMirror`).
  The four passes each take stages the earlier ones left (`TakeKeeps`,
  `WithinMirrors`), and no execution is in two pairs (`ExecutionPairsFact`, from
  `AlignmentCorrect`'s lemmas), so a stage is counted once.

The invariant, `AlignmentInv`, only says which question was answered: that the
matches are those of the table and the table and stages those of the runs.

`HostsProofs`, a section for each host:

- `CutIsSeen == ProxySpec => []WholeIsWhole`, from `ProxyAssumption`. `ProxyInv`
  adds that everything sent was passed on until the response is destroyed, and
  that a response only ends after the whole body.
- `CapCorrect == RecentSpec => []CappedButForTouches`, from `RecentAssumption`.
  As long as no add has its list still to read, what the list holds over the cap
  is either on the way to be deleted (`Doomed`) or was written by a touch since
  (`CapInv`). That an add spares no more than `Cap` entries (`SparedFact`) needs
  the times to differ: the oldest entry it spares has all the others among its
  newer ones.
- `PairCorrect == PairSpec => []CollectedOnce`. `PairInv` adds that a log whose
  thread is not settled was not read here, and that what the thread posted is the
  verdict of its own log.
- `AnswersFresh == CacheSpec => []NotOlderThanCall`, from `CacheAssumption`.
  `CacheInv` adds that a run, a parse that has read and a wait under the key of a
  file are of the version the key names or of a later one, and that a key only
  leads to runs of that key; eviction, expiry and a touch keep this because they
  only drop and move runs.
- `CachesCorrect == CacheSpec => []CachesAgree`. `AgreeInv` adds that runs differ
  in id and key, that parses in flight differ in key, and that no key is both
  cached and being parsed: a parse that ends then adds a key nobody has, and
  deleting a run takes exactly its key and its comparisons along.

All follow the same outline: lemmas about the helpers, one lemma per action or
group of actions, `Init => Inv`, `Inv /\ [Next]_vars => Inv'`, and one temporal
step. Records are kept opaque: a helper's lemma says what it does to the fields a
later step needs, and its definition is not expanded there.

A recursion the proofs reason about is a recursive function over an interval or a
finite set (`Log`, `DecodeBytes`, `Cut`, `Without`, `Dropped`, the `end` of `Lay`, `Best` and the
walk, the pairs `PairSimilar` takes), since the folds and
`SelectSeq` are opaque to the prover; that such a function exists and what it
computes are shown by the least number, or the smallest set, at which they would
fail (`LeastOf`), the library's induction theorems being of no use here.

Only model-checked: liveness (`PushSettles`, `NativePushSettles`, `ParseEnds`,
`CompareEnds`, `ParseReports`, `DownloadSettles`, `WaitingEnds`), which is out of
the prover's reach, as ENABLED is. Every safety property a run checks is the
subject of a theorem. `CollectPair` has no constants, so TLC's search
of it is exhaustive as well. No module declares a RECURSIVE operator, so that
all of them can be proved about.

## Where to go on

Next theorems: the safety halves of the liveness properties (that a waiting
view has an entry in `pending`). Next models: the lz4 and snappy framing over blocks cut
anywhere, the Node download (`shs-load.ts`), failure groups and samples of a
stage.

## Not modelled

Most of the source is views, charts, exports and the documentation site
(rendering), detectors and the impact model (arithmetic over one finished model:
a model would restate the formulas), and redaction, listings and formatting
(text). None of it has an order of steps, a failure or a limit for a model
checker to find, so the map covers the stateful part and the matching
algorithms, a small share of the lines, and cannot grow much by faithful
modelling.

Also left out: the concurrency sweeps, which the repository tests against brute
force; the sort and checks of rolling-log names; the placement of widgets;
command-line parsing; the vendored decoders (seen from outside, as a decoder
that emits blocks or throws); within modelled parts, the accumulables,
quantiles, samples, failure groups and hosts of a stage, the node-by-node
resolution of a plan, the warming of the layout worker ahead of time, error
codes and wording. `PROJECT.json` gives every part its status and reason.
