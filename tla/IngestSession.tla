--------------------------- MODULE IngestSession ---------------------------
(***************************************************************************)
(* The browser session around the parse workers: the actions of useIngest  *)
(* (src/store/useIngest.ts), the store they write (src/store/store.ts),    *)
(* one ingest client per load (packages/core/src/ingest.ts), the screens   *)
(* that offer the actions (src/App.tsx, CompareLanding, DropZone) and the  *)
(* entries of the recent-files list.                                       *)
(*                                                                         *)
(* A run is abstracted to the set of sources whose parser messages built   *)
(* its model; {} is null.  A folder or a History Server load has no file   *)
(* identity: its source is NoFile.  Every parsed log names its app.        *)
(***************************************************************************)
EXTENDS Integers, FiniteSets

CONSTANTS Files,       \* what recentFiles.entryId tells apart
          NoFile,
          MaxLoads,    \* bound: loads started in the session
          MaxWaiting,  \* bound: intakes waiting for the browser at once
          UseCompare   \* whether the reader opens the compare view

ASSUME SessionAssumption == /\ NoFile \notin Files
                            /\ MaxLoads \in Nat \ {0}
                            /\ MaxWaiting \in Nat
                            /\ UseCompare \in BOOLEAN

Sources == Files \cup {NoFile}
Runs == SUBSET Sources
Loads == 1..MaxLoads
NoLoad == 0

VARIABLES
  store,       \* the zustand store
  clientRef,   \* the load whose client clientRef holds, or NoLoad
  pendingRef,  \* the file whose handle pendingRef holds, or NoFile
  clients,     \* per client: the load whose callbacks it calls, its worker
  parses,      \* per load: what it reads, its worker, its model, its runDone
  loads,       \* loads started
  waiting,     \* intakes awaiting a permission prompt, a picker or a fetch
  recents,     \* per file: the run its recent-files entry describes
  answer       \* the last answer of pickRecent

vars == <<store, clientRef, pendingRef, clients, parses, loads, waiting, recents, answer>>

Stores == [status : {"idle", "parsing", "ready", "error"},
           shsParsing : BOOLEAN,
           activeFileId : Sources,
           run : Runs,
           sessionCache : [Files -> Runs],
           active : BOOLEAN, baseline : Sources, candidate : Sources,
           compareLoad : 0..2,
           compareSeed : Sources]

\* worker: "none" before the load has one.  after: where runDone stands, in
\* the prefetch or past it.  peer: the other run of a compare load.
Parses == [kind : {"none", "file", "shs", "A", "B"}, src : Sources, peer : Sources,
           worker : {"none", "resolving", "parsing", "loaded", "idle", "dead"},
           host : Loads \cup {NoLoad}, model : Runs,
           after : {"none", "prefetch", "settled"}]

NoParse == [kind |-> "none", src |-> NoFile, peer |-> NoFile, worker |-> "none",
            host |-> NoLoad, model |-> {}, after |-> "none"]

Intakes == [kind : {"pick", "file"}, file : Sources, handle : BOOLEAN]

Init ==
  /\ store = [status |-> "idle", shsParsing |-> FALSE, activeFileId |-> NoFile,
              run |-> {}, sessionCache |-> [f \in Files |-> {}],
              active |-> FALSE, baseline |-> NoFile, candidate |-> NoFile,
              compareLoad |-> 0, compareSeed |-> NoFile]
  /\ clientRef = NoLoad
  /\ pendingRef = NoFile
  /\ clients = [c \in Loads |-> [handlers |-> NoLoad, worker |-> NoLoad]]
  /\ parses = [n \in Loads |-> NoParse]
  /\ loads = 0
  /\ waiting = {}
  /\ recents = [f \in Files |-> {f}]
  /\ answer = "none"

-----------------------------------------------------------------------------
(* The store's setters, as functions of the store.                          *)

ResetModelKeepsFlag(s) ==
  [s EXCEPT !.run = {}, !.status = "idle",
            !.active = FALSE, !.baseline = NoFile, !.candidate = NoFile,
            !.compareLoad = 0]
ResetModel(s) ==
  [s EXCEPT !.run = {}, !.status = "idle", !.shsParsing = FALSE,
            !.active = FALSE, !.baseline = NoFile, !.candidate = NoFile,
            !.compareLoad = 0]

InstallRun(s, run) == [s EXCEPT !.run = run, !.status = "ready"]

SetError(s) == [s EXCEPT !.status = "error"]

\* cacheCurrentSnapshot, and the first half of openComparison.
CacheCurrentSnapshot(s) ==
  IF s.activeFileId # NoFile /\ s.run # {}
    THEN [s EXCEPT !.sessionCache[s.activeFileId] = s.run] ELSE s

OpenComparison(s, a, b) ==
  [CacheCurrentSnapshot(s) EXCEPT !.active = TRUE, !.baseline = a, !.candidate = b]

(* The clients.  Terminating one kills the worker it made last and rejects  *)
(* the task data its runDone waits for.                                     *)

DropWorkers(cs) == [c \in Loads |-> IF c \in cs THEN [clients[c] EXCEPT !.worker = NoLoad]
                                              ELSE clients[c]]

\* What terminate would do if it left the worker running.
TerminateRequestsOnly(ps, cs) ==
  [n \in Loads |->
     [ps[n] EXCEPT !.after = IF n \in cs /\ @ = "prefetch" THEN "settled" ELSE @]]
Terminate(ps, cs) ==
  [n \in Loads |->
     [ps[n] EXCEPT
        !.worker = IF \E c \in cs \cap Loads : clients[c].worker = n THEN "dead" ELSE @,
        !.after = IF n \in cs /\ @ = "prefetch" THEN "settled" ELSE @]]

Alive(n) == parses[n].worker \in {"parsing", "loaded", "idle"}

-----------------------------------------------------------------------------
(* The screens, and the thread: the rest of runDone runs right after the    *)
(* handler that settled its prefetch.                                       *)

Idle == \A n \in Loads : parses[n].after # "settled"

NoComparison == store.compareLoad = 0 /\ ~store.active

ParseScreen == NoComparison /\ store.status = "parsing" /\ ~store.shsParsing
Dashboard == NoComparison /\ store.status = "ready"
Landing == NoComparison /\ store.status # "ready" /\ ~ParseScreen
Comparison == store.compareLoad = 0 /\ store.active

\* A landing that opened on a run to compare offers no single-run intake.
Intake == Landing /\ store.compareSeed = NoFile

-----------------------------------------------------------------------------
(* Single-run loads.                                                        *)

\* begin, then the client starts its worker.
Begin(s, kind, f, handle) ==
  LET n == loads + 1 IN
  /\ loads < MaxLoads
  /\ loads' = n
  /\ store' = [ResetModel(s) EXCEPT !.status = "parsing", !.activeFileId = f,
                                    !.shsParsing = (kind = "shs")]
  /\ pendingRef' = IF handle THEN f ELSE NoFile
  /\ clientRef' = n
  /\ clients' = [DropWorkers({clientRef}) EXCEPT ![n] = [handlers |-> n, worker |-> n]]
  /\ parses' = [Terminate(parses, {clientRef}) EXCEPT
                  ![n] = [NoParse EXCEPT !.kind = kind, !.src = f,
                                         !.worker = "parsing", !.host = n]]

\* A dropped or chosen file, without a handle; on the dashboard too.
StartLoad(f) ==
  /\ Idle /\ (Intake \/ Dashboard)
  /\ Begin(store, "file", f, FALSE)
  /\ UNCHANGED <<waiting, recents, answer>>

StartLoadFolder ==
  /\ Idle /\ Intake
  /\ Begin(store, "file", NoFile, FALSE)
  /\ UNCHANGED <<waiting, recents, answer>>

StartLoadFromUrl ==
  /\ Idle /\ Intake
  /\ Begin(store, "shs", NoFile, FALSE)
  /\ UNCHANGED <<waiting, recents, answer>>

\* The file picker, a drop with a handle, a dropped folder, the sample run:
\* the load starts when the browser answers.
AskForFile(f, handle) ==
  /\ Idle /\ Intake
  /\ Cardinality(waiting) < MaxWaiting
  /\ waiting' = waiting \cup {[kind |-> "file", file |-> f, handle |-> handle]}
  /\ UNCHANGED <<store, clientRef, pendingRef, clients, parses, loads, recents, answer>>

Granted(w) ==
  /\ Idle
  /\ w \in waiting
  /\ waiting' = waiting \ {w}
  /\ IF w.kind = "pick" THEN /\ Begin(CacheCurrentSnapshot(store), "file", w.file, TRUE)
                             /\ answer' = "started"
                        ELSE /\ Begin(store, "file", w.file, w.handle)
                             /\ UNCHANGED answer
  /\ UNCHANGED recents

Unreadable(w) ==
  /\ Idle
  /\ w \in waiting
  /\ waiting' = waiting \ {w}
  /\ IF w.kind = "pick" THEN answer' = "gone" /\ UNCHANGED store
                        ELSE UNCHANGED answer /\ store' = SetError(store)
  /\ UNCHANGED <<clientRef, pendingRef, clients, parses, loads, recents>>

\* The reader closes the file picker.
Dismissed(w) ==
  /\ Idle
  /\ w \in waiting /\ w.kind = "file"
  /\ waiting' = waiting \ {w}
  /\ UNCHANGED <<store, clientRef, pendingRef, clients, parses, loads, recents, answer>>

CancelParse ==
  /\ Idle /\ ParseScreen
  /\ clients' = DropWorkers({clientRef})
  /\ parses' = Terminate(parses, {clientRef})
  /\ clientRef' = NoLoad
  /\ pendingRef' = NoFile
  /\ store' = [ResetModel(store) EXCEPT !.activeFileId = NoFile]
  /\ UNCHANGED <<loads, waiting, recents, answer>>

ResetToDropZone(seed) ==
  /\ store' = [ResetModel(CacheCurrentSnapshot(store)) EXCEPT !.compareSeed = seed]
  /\ clients' = DropWorkers({clientRef})
  /\ parses' = Terminate(parses, {clientRef})
  /\ UNCHANGED <<clientRef, pendingRef, loads, waiting, recents, answer>>

Reset == Idle /\ Dashboard /\ ResetToDropZone(store.compareSeed)

-----------------------------------------------------------------------------
(* pickRecent, on the landing and in the dashboard's file switcher.         *)

PickFrom(f) == Idle /\ (Intake \/ Dashboard) /\ recents[f] # {}

PickActive(f) ==
  /\ PickFrom(f) /\ f = store.activeFileId
  /\ answer' = "noop"
  /\ UNCHANGED <<store, clientRef, pendingRef, clients, parses, loads, waiting, recents>>

\* installRun of a cached snapshot, the clients gone (pickRecent, drillIntoRun).
Restore(s, f) ==
  /\ store' = InstallRun([s EXCEPT !.activeFileId = f], s.sessionCache[f])
  /\ clients' = DropWorkers({clientRef})
  /\ parses' = Terminate(parses, {clientRef})
  /\ clientRef' = NoLoad

PickCached(f) ==
  /\ PickFrom(f) /\ f # store.activeFileId /\ store.sessionCache[f] # {}
  /\ Restore(CacheCurrentSnapshot(store), f)
  /\ answer' = "restored"
  /\ UNCHANGED <<pendingRef, loads, waiting, recents>>

PickFile(f) ==
  /\ PickFrom(f) /\ f # store.activeFileId /\ store.sessionCache[f] = {}
  /\ Cardinality(waiting) < MaxWaiting
  /\ waiting' = waiting \cup {[kind |-> "pick", file |-> f, handle |-> TRUE]}
  /\ UNCHANGED <<store, clientRef, pendingRef, clients, parses, loads, recents, answer>>

\* getFile reports the file gone: the entry and the snapshot go too.
PickedFileGone(w) ==
  /\ Idle
  /\ w \in waiting /\ w.kind = "pick"
  /\ waiting' = waiting \ {w}
  /\ recents' = [recents EXCEPT ![w.file] = {}]
  /\ store' = [store EXCEPT !.sessionCache[w.file] = {}]
  /\ answer' = "gone"
  /\ UNCHANGED <<clientRef, pendingRef, clients, parses, loads>>

RemoveRecent(f) ==
  /\ PickFrom(f)
  /\ recents' = [recents EXCEPT ![f] = {}]
  /\ UNCHANGED <<store, clientRef, pendingRef, clients, parses, loads, waiting, answer>>

-----------------------------------------------------------------------------
(* The compare view: parse A, then B, each into the session cache.          *)

\* parseInto, up to the await of resolveSourceInput.
ParseInto(s, ps, kind, src, peer) ==
  LET n == loads + 1 IN
  /\ loads < MaxLoads
  /\ loads' = n
  /\ store' = [ResetModel(s) EXCEPT !.activeFileId = src,
                                    !.compareLoad = IF kind = "A" THEN 1 ELSE 2]
  /\ clientRef' = n
  /\ clients' = DropWorkers({clientRef})
  /\ parses' = [Terminate(ps, {clientRef}) EXCEPT
                  ![n] = [NoParse EXCEPT !.kind = kind, !.src = src, !.peer = peer,
                                         !.worker = "resolving"]]

StartCompareLoad(a, b) ==
  /\ Idle /\ Landing /\ UseCompare
  /\ loads + 2 <= MaxLoads
  /\ ParseInto(store, parses, "A", a, b)
  /\ UNCHANGED <<pendingRef, waiting, recents, answer>>

\* The baseline is the run the reader left open, still cached.
StartCompareSeeded(b) ==
  /\ Idle /\ Landing /\ UseCompare
  /\ store.compareSeed # NoFile
  /\ IF store.sessionCache[store.compareSeed] # {}
       THEN ParseInto(store, parses, "B", b, store.compareSeed)
       ELSE /\ store' = SetError(store)
            /\ UNCHANGED <<clientRef, clients, parses, loads>>
  /\ UNCHANGED <<pendingRef, waiting, recents, answer>>

\* The source is readable: the client clientRef holds now starts its worker.
Resolved(n) ==
  /\ Idle
  /\ parses[n].worker = "resolving"
  /\ clientRef # NoLoad
  /\ clients' = [clients EXCEPT ![clientRef] = [handlers |-> n, worker |-> n]]
  /\ parses' = [parses EXCEPT ![n].worker = "parsing", ![n].host = clientRef]
  /\ UNCHANGED <<store, clientRef, pendingRef, loads, waiting, recents, answer>>

Aborted == SetError([store EXCEPT !.compareLoad = 0, !.active = FALSE])

\* The source is not readable, or there is no client left to start.
Unresolved(n) ==
  /\ Idle
  /\ parses[n].worker = "resolving"
  /\ store' = Aborted
  /\ clients' = DropWorkers({clientRef})
  /\ parses' = Terminate([parses EXCEPT ![n].worker = "dead"], {clientRef})
  /\ UNCHANGED <<clientRef, pendingRef, loads, waiting, recents, answer>>

CompareWithAnotherRun ==
  /\ Idle /\ Dashboard /\ UseCompare
  /\ store.activeFileId # NoFile
  /\ ResetToDropZone(store.activeFileId)

\* "Change" on the seeded baseline.
DropSeed ==
  /\ Idle /\ Landing /\ store.compareSeed # NoFile
  /\ store' = [store EXCEPT !.compareSeed = NoFile]
  /\ UNCHANGED <<clientRef, pendingRef, clients, parses, loads, waiting, recents, answer>>

DrillIntoRun(s, f) ==
  /\ s.sessionCache[f] # {}
  /\ Restore([s EXCEPT !.active = FALSE], f)
  /\ UNCHANGED <<pendingRef, loads, waiting, recents, answer>>

BackToTheRun ==
  /\ Idle /\ Landing /\ store.compareSeed # NoFile
  /\ DrillIntoRun([store EXCEPT !.compareSeed = NoFile], store.compareSeed)

DrillIn ==
  /\ Idle /\ Comparison
  /\ \E f \in {store.baseline, store.candidate} : DrillIntoRun(store, f)

BackToComparison ==
  /\ Idle /\ Dashboard /\ store.baseline # NoFile
  /\ store' = [store EXCEPT !.active = TRUE]
  /\ UNCHANGED <<clientRef, pendingRef, clients, parses, loads, waiting, recents, answer>>

\* The close button, and the effect that closes a comparison it cannot show.
CloseComparison ==
  /\ Idle /\ Comparison
  /\ store' = [store EXCEPT !.active = FALSE, !.baseline = NoFile, !.candidate = NoFile]
  /\ UNCHANGED <<clientRef, pendingRef, clients, parses, loads, waiting, recents, answer>>

-----------------------------------------------------------------------------
(* The parse workers, and the handlers their messages reach: the callbacks  *)
(* its client was given last.                                               *)

Handlers(n) == clients[parses[n].host].handlers

WorkerData(n) ==
  /\ Idle
  /\ parses[n].worker = "parsing"
  /\ parses' = [parses EXCEPT ![n].worker = "loaded",
                              ![Handlers(n)].model = @ \cup {parses[n].src}]
  /\ UNCHANGED <<store, clientRef, pendingRef, clients, loads, waiting, recents, answer>>

Done(n, kinds) == /\ Idle
                  /\ parses[n].worker = "loaded"
                  /\ parses[Handlers(n)].kind \in kinds

\* The run is installed; the prefetch, if any stage is flagged, is awaited.
RunDone(n) ==
  /\ Done(n, {"file", "shs"})
  /\ store' = InstallRun(store, parses[Handlers(n)].model)
  /\ \E after \in {"prefetch", "settled"} :
       parses' = [parses EXCEPT ![n].worker = "idle", ![Handlers(n)].after = after]
  /\ UNCHANGED <<clientRef, pendingRef, clients, loads, waiting, recents, answer>>

AnalysisThrowsQuietly(n) ==
  /\ Done(n, {"file", "shs"})
  /\ store' = [store EXCEPT !.shsParsing = FALSE]
  /\ clients' = DropWorkers({Handlers(n)})
  /\ parses' = Terminate([parses EXCEPT ![n].worker = "idle"], {Handlers(n)})
  /\ UNCHANGED <<clientRef, pendingRef, loads, waiting, recents, answer>>
AnalysisThrows(n) ==
  /\ Done(n, {"file", "shs"})
  /\ store' = SetError([store EXCEPT !.shsParsing = FALSE])
  /\ clients' = DropWorkers({Handlers(n)})
  /\ parses' = Terminate([parses EXCEPT ![n].worker = "idle"], {Handlers(n)})
  /\ UNCHANGED <<clientRef, pendingRef, loads, waiting, recents, answer>>

\* snapshotParsedRun.
Snapshot(p) == [store EXCEPT !.sessionCache[p.src] = p.model]

BaselineDoneUncached(n) ==
  LET p == parses[Handlers(n)] IN
  /\ Done(n, {"A"})
  /\ ParseInto(store, [parses EXCEPT ![n].worker = "idle"], "B", p.peer, p.src)
  /\ UNCHANGED <<pendingRef, waiting, recents, answer>>
BaselineDone(n) ==
  LET p == parses[Handlers(n)] IN
  /\ Done(n, {"A"})
  /\ ParseInto(Snapshot(p), [parses EXCEPT ![n].worker = "idle"], "B", p.peer, p.src)
  /\ UNCHANGED <<pendingRef, waiting, recents, answer>>

CandidateDoneStillLoading(n) ==
  LET p == parses[Handlers(n)] IN
  /\ Done(n, {"B"})
  /\ store' = OpenComparison([Snapshot(p) EXCEPT !.activeFileId = NoFile,
                                                 !.compareSeed = NoFile], p.peer, p.src)
  /\ parses' = [parses EXCEPT ![n].worker = "idle"]
  /\ UNCHANGED <<clientRef, pendingRef, clients, loads, waiting, recents, answer>>
CandidateDone(n) ==
  LET p == parses[Handlers(n)] IN
  /\ Done(n, {"B"})
  /\ store' = OpenComparison([Snapshot(p) EXCEPT !.compareLoad = 0,
                                                 !.activeFileId = NoFile,
                                                 !.compareSeed = NoFile], p.peer, p.src)
  /\ parses' = [parses EXCEPT ![n].worker = "idle"]
  /\ UNCHANGED <<clientRef, pendingRef, clients, loads, waiting, recents, answer>>

\* handlers.onError; cs are the clients the caller terminates.
OnError(n, cs, s) ==
  LET kind == parses[Handlers(n)].kind
      gone == IF kind \in {"A", "B"} THEN cs \cup {clientRef} ELSE cs IN
  /\ store' = CASE kind = "file" -> SetError(s)
                [] kind = "shs"  -> SetError([s EXCEPT !.shsParsing = FALSE])
                [] OTHER -> Aborted
  /\ clients' = DropWorkers(gone)
  /\ parses' = Terminate([parses EXCEPT ![n].worker = "idle"], gone)
  /\ UNCHANGED <<clientRef, pendingRef, loads, waiting, recents, answer>>

\* Snapshotting or opening the comparison throws.
CompareThrows(n) == Done(n, {"A", "B"}) /\ OnError(n, {}, store)

ParseError(n) ==
  /\ Idle
  /\ parses[n].worker \in {"parsing", "loaded"}
  /\ OnError(n, {}, store)

\* A typed History Server failure: the intake shows it in place.
ShsError(n) ==
  /\ Idle
  /\ parses[n].worker \in {"parsing", "loaded"}
  /\ parses[Handlers(n)].kind = "shs"
  /\ store' = ResetModel(store)
  /\ parses' = [parses EXCEPT ![n].worker = "idle"]
  /\ UNCHANGED <<clientRef, pendingRef, clients, loads, waiting, recents, answer>>

\* worker.onerror.
WorkerCrash(n) ==
  /\ Idle /\ Alive(n)
  /\ OnError(n, {parses[n].host}, store)

\* The worker answers the task-data requests of the prefetch.
Prefetched(h) ==
  /\ Idle
  /\ parses[h].after = "prefetch" /\ clients[h].worker # NoLoad
  /\ parses' = [parses EXCEPT ![h].after = "settled"]
  /\ UNCHANGED <<store, clientRef, pendingRef, clients, loads, waiting, recents, answer>>

\* The rest of runDone; recentFiles.add may fail.
RecordRecent(h) ==
  /\ parses[h].after = "settled"
  /\ parses' = [parses EXCEPT ![h].after = "none"]
  /\ \/ /\ pendingRef # NoFile
        /\ recents' = [recents EXCEPT ![pendingRef] = parses[h].model]
     \/ UNCHANGED recents
  /\ UNCHANGED <<store, clientRef, pendingRef, clients, loads, waiting, answer>>

-----------------------------------------------------------------------------
Reader ==
  \/ \E f \in Files : \/ StartLoad(f) \/ PickActive(f) \/ PickCached(f) \/ PickFile(f)
                      \/ RemoveRecent(f) \/ StartCompareSeeded(f)
                      \/ \E handle \in BOOLEAN : AskForFile(f, handle)
  \/ \E a, b \in Files : StartCompareLoad(a, b)
  \/ AskForFile(NoFile, FALSE)
  \/ StartLoadFolder \/ StartLoadFromUrl \/ CancelParse \/ Reset
  \/ CompareWithAnotherRun \/ DropSeed \/ BackToTheRun
  \/ DrillIn \/ BackToComparison \/ CloseComparison

Answer == \E w \in waiting : \/ Granted(w) \/ Unreadable(w) \/ Dismissed(w)
                             \/ PickedFileGone(w)

Resolve(n) == Resolved(n) \/ Unresolved(n)
Parse(n) == \/ WorkerData(n) \/ RunDone(n) \/ AnalysisThrows(n)
            \/ BaselineDone(n) \/ CandidateDone(n) \/ CompareThrows(n)
            \/ ParseError(n) \/ ShsError(n)
Finish(n) == Prefetched(n) \/ RecordRecent(n)

Next == \/ Reader \/ Answer
        \/ \E n \in Loads : Resolve(n) \/ Parse(n) \/ WorkerCrash(n) \/ Finish(n)

Spec == Init /\ [][Next]_vars

\* An intake is answered while a comparison awaits its source, and takes its client.
Takeover == /\ \E n \in Loads : parses[n].worker = "resolving"
            /\ \E w \in waiting : Granted(w)

\* The sessions without one.
Apart == ~Takeover

\* A worker that is alive gets on with its parse, the page handles what was
\* posted to it, and the reader answers a permission prompt.
Fairness == \A n \in Loads : /\ WF_vars(Resolve(n)) /\ WF_vars(Parse(n))
                             /\ WF_vars(Finish(n))

FairSpec == Spec /\ Fairness

-----------------------------------------------------------------------------
(* Properties.                                                              *)

TypeOK ==
  /\ store \in Stores
  /\ clientRef \in Loads \cup {NoLoad}
  /\ pendingRef \in Sources
  /\ clients \in [Loads -> [handlers : Loads \cup {NoLoad}, worker : Loads \cup {NoLoad}]]
  /\ parses \in [Loads -> Parses]
  /\ \A n \in Loads : Alive(n) => parses[n].host \in Loads
  /\ loads \in 0..MaxLoads
  /\ waiting \in SUBSET Intakes
  /\ recents \in [Files -> Runs]
  /\ answer \in {"none", "restored", "started", "gone", "noop"}

\* The run on screen was built from the file that is shown as open, and from
\* nothing else, whatever was loaded, cancelled or restored before it.
RunIsItsFile ==
  store.run # {} /\ store.activeFileId # NoFile => store.run = {store.activeFileId}

\* So are the session snapshots, which are restored and compared as that file.
SnapshotIsItsFile ==
  \A f \in Files : store.sessionCache[f] \in {{}, {f}}

\* "There is only ever one active worker client for the whole app": a worker
\* that is alive is the last one of the client clientRef holds.
OneActiveWorker ==
  \A n \in Loads : Alive(n) => /\ parses[n].host = clientRef
                               /\ clients[clientRef].worker = n

\* The dashboard has a run, and a comparison on screen both its snapshots, those
\* of files no longer in the recent list apart: a pick that finds its file gone
\* drops entry and snapshot, and App.tsx:53-57 then closes the comparison.
ScreenHasItsRuns ==
  /\ store.status = "ready" => store.run # {}
  /\ Comparison => \A f \in {store.baseline, store.candidate} :
                      store.sessionCache[f] # {} \/ recents[f] = {}

ShsRunning == \E n \in Loads : /\ parses[n].kind = "shs"
                               /\ parses[n].worker \in {"parsing", "loaded"}

\* "True only while an SHS/URL fetch is parsing" (store.ts:27): the intake says
\* "Fetching event log..." and holds its submit button back for nothing else.
\* runDone clears the flag only when it throws.
FetchingIsRunning == Landing /\ store.shsParsing => ShsRunning

\* What is left of it: an intake that still says so with no fetch running shows
\* an error beside it, that of an intake answered after the run was installed.
FetchingOrError == Landing /\ store.shsParsing => ShsRunning \/ store.status = "error"

\* What is on screen is there to be shown (runDone, openComparison, reset).
ScreenIsTrue == TypeOK /\ ScreenHasItsRuns /\ FetchingOrError

\* The entry of a file in the recent-files list describes a run of that file.
RecentIsItsFile == \A f \in Files : recents[f] \in {{}, {f}}

\* "Every parse ends in ready or error, never in a stuck parsing."
ParseEnds == store.status = "parsing" ~> store.status # "parsing"

\* A comparison being loaded opens, or ends in an error.
CompareEnds == store.compareLoad # 0 ~> store.compareLoad = 0
=============================================================================
