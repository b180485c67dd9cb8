-------------------------- MODULE IngestSessionProofs --------------------------
(***************************************************************************)
(* That the run on screen and every session snapshot are of their own      *)
(* file, that one parse worker at most is alive, and that the screen has   *)
(* the runs it shows, for any number of files, loads and waiting intakes.  *)
(* As in IngestSession's runs one step is left out, Takeover: an intake is *)
(* granted while a comparison awaits its source, and takes its client.     *)
(* What that step does is shown by the violation run session_stuck.        *)
(***************************************************************************)
EXTENDS IngestSession, TLAPS

-----------------------------------------------------------------------------
(* The store.                                                               *)

GoodStore(s) ==
  /\ s \in Stores
  /\ s.run # {} /\ s.activeFileId # NoFile => s.run = {s.activeFileId}
  /\ \A f \in Files : s.sessionCache[f] = {} \/ s.sessionCache[f] = {f}
  /\ s.active = TRUE => s.baseline \in Files
  /\ s.baseline \in Files <=> s.candidate \in Files

\* A store that a setter makes, good and still of the same file and compare load.
KeptBy(t, s) ==
  GoodStore(t) /\ t.activeFileId = s.activeFileId /\ t.compareLoad = s.compareLoad

\* Memberships that the setters' arguments need.
LEMMA Members == {} \in Runs /\ NoFile \in Sources /\ {0, 1, 2} = 0..2 /\ Files \subseteq Sources
  BY DEF Runs, Sources

\* The run is forgotten, and the snapshots are kept.
Emptied(t, s) ==
  /\ t \in Stores /\ t.run = {} /\ t.sessionCache = s.sessionCache
  /\ t.active = FALSE /\ t.baseline = NoFile /\ t.candidate = NoFile

\* resetModel, field by field.
LEMMA ResetFields ==
  ASSUME NEW s \in Stores
  PROVE  Emptied(ResetModel(s), s)
<1> DEFINE t == ResetModel(s)
<1>1. t \in Stores
  BY Members DEF ResetModel, Stores
<1>2. t.run = {} /\ t.sessionCache = s.sessionCache
  BY DEF ResetModel, Stores
<1>3. t.active = FALSE /\ t.baseline = NoFile /\ t.candidate = NoFile
  BY DEF ResetModel, Stores
<1> QED BY <1>1, <1>2, <1>3 DEF Emptied

\* A store that holds no run but the snapshots is good.
LEMMA EmptiedStore ==
  ASSUME NEW s, GoodStore(s), NEW t, Emptied(t, s)
  PROVE  GoodStore(t)
  BY SessionAssumption DEF GoodStore, Emptied

\* begin, around resetModel.
LEMMA BeginStore ==
  ASSUME NEW s, GoodStore(s), NEW f \in Sources, NEW fetching \in BOOLEAN
  PROVE  LET t == [ResetModel(s) EXCEPT !.status = "parsing", !.activeFileId = f,
                                        !.shsParsing = fetching] IN
         GoodStore(t) /\ t.activeFileId = f
<1> DEFINE r == ResetModel(s)
           t == [r EXCEPT !.status = "parsing", !.activeFileId = f, !.shsParsing = fetching]
<1>1. Emptied(r, s)
  BY ResetFields DEF GoodStore
<1> HIDE DEF r
<1>2. Emptied(t, s) /\ t.activeFileId = f
  BY <1>1 DEF Emptied, Stores
<1> HIDE DEF t
<1>3. GoodStore(t)
  BY <1>2, EmptiedStore
<1> QED BY <1>2, <1>3 DEF t, r

\* parseInto, around resetModel.
LEMMA CompareStore ==
  ASSUME NEW s, GoodStore(s), NEW f \in Files, NEW c \in {1, 2}
  PROVE  LET t == [ResetModel(s) EXCEPT !.activeFileId = f, !.compareLoad = c] IN
         GoodStore(t) /\ t.compareLoad # 0
<1> DEFINE r == ResetModel(s)
           t == [r EXCEPT !.activeFileId = f, !.compareLoad = c]
<1>1. Emptied(r, s)
  BY ResetFields DEF GoodStore
<1> HIDE DEF r
<1>2. Emptied(t, s) /\ t.compareLoad # 0
  <2>1. t \in Stores
    BY <1>1, Members DEF Emptied, Stores
  <2>2. t.compareLoad = c
    BY <1>1 DEF Emptied, Stores
  <2>3. /\ t.run = r.run /\ t.sessionCache = r.sessionCache /\ t.active = r.active
        /\ t.baseline = r.baseline /\ t.candidate = r.candidate
    BY <1>1 DEF Emptied, Stores
  <2> HIDE DEF t
  <2> QED BY <1>1, <2>1, <2>2, <2>3 DEF Emptied
<1> HIDE DEF t
<1>3. GoodStore(t)
  BY <1>2, EmptiedStore
<1> QED BY <1>2, <1>3 DEF t, r

\* resetModel, by itself and from cancelParse.
LEMMA ResetStore ==
  ASSUME NEW s, GoodStore(s)
  PROVE  GoodStore(ResetModel(s)) /\ GoodStore([ResetModel(s) EXCEPT !.activeFileId = NoFile])
<1> DEFINE r == ResetModel(s)
           t == [r EXCEPT !.activeFileId = NoFile]
<1>1. Emptied(r, s)
  BY ResetFields DEF GoodStore
<1> HIDE DEF r
<1>2. Emptied(t, s)
  BY <1>1 DEF Emptied, Stores, Sources
<1> HIDE DEF t
<1>3. GoodStore(r) /\ GoodStore(t)
  BY <1>1, <1>2, EmptiedStore
<1> QED BY <1>3 DEF t, r

\* cacheCurrentSnapshot keeps the run on screen under its own file.
LEMMA CachedStore ==
  ASSUME NEW s, GoodStore(s)
  PROVE  KeptBy(CacheCurrentSnapshot(s), s)
<1>1. CASE s.activeFileId # NoFile /\ s.run # {}
  <2> DEFINE t == [s EXCEPT !.sessionCache[s.activeFileId] = s.run]
  <2>1. CacheCurrentSnapshot(s) = t
    BY <1>1 DEF CacheCurrentSnapshot
  <2>2. s.activeFileId \in Files /\ s.run = {s.activeFileId}
    BY <1>1 DEF GoodStore, Stores, Sources
  <2>3. /\ t \in Stores /\ t.activeFileId = s.activeFileId /\ t.compareLoad = s.compareLoad
        /\ t.run = s.run /\ t.active = s.active /\ t.baseline = s.baseline
        /\ t.candidate = s.candidate
    BY <2>2 DEF GoodStore, Stores, Runs
  <2>4. \A f \in Files : t.sessionCache[f] = {} \/ t.sessionCache[f] = {f}
    BY <2>2 DEF GoodStore, Stores
  <2> HIDE DEF t
  <2> QED BY <2>1, <2>3, <2>4 DEF KeptBy, GoodStore
<1>2. CASE ~(s.activeFileId # NoFile /\ s.run # {})
  BY <1>2 DEF CacheCurrentSnapshot, KeptBy
<1> QED BY <1>1, <1>2

\* setError, and aborting a comparison that was being loaded.
LEMMA ErrorStore ==
  ASSUME NEW s, GoodStore(s)
  PROVE  /\ KeptBy(SetError(s), s)
         /\ KeptBy(SetError([s EXCEPT !.shsParsing = FALSE]), s)
         /\ GoodStore(SetError([s EXCEPT !.compareLoad = 0, !.active = FALSE]))
<1>1. KeptBy(SetError(s), s)
  BY DEF GoodStore, KeptBy, SetError, Stores
<1>2. KeptBy(SetError([s EXCEPT !.shsParsing = FALSE]), s)
  BY DEF GoodStore, KeptBy, SetError, Stores
<1>3. GoodStore(SetError([s EXCEPT !.compareLoad = 0, !.active = FALSE]))
  <2> DEFINE t == [s EXCEPT !.compareLoad = 0, !.active = FALSE]
  <2>1. t \in Stores
    BY Members DEF GoodStore, Stores
  <2>2. /\ t.run = s.run /\ t.sessionCache = s.sessionCache /\ t.active = FALSE
        /\ t.baseline = s.baseline /\ t.candidate = s.candidate
        /\ t.activeFileId = s.activeFileId
    BY DEF GoodStore, Stores
  <2> HIDE DEF t
  <2>3. GoodStore(t)
    BY <2>1, <2>2 DEF GoodStore
  <2>4. GoodStore(SetError(t))
    BY <2>3 DEF GoodStore, SetError, Stores
  <2> QED BY <2>4 DEF t
<1> QED BY <1>1, <1>2, <1>3

\* The fields a setter may change without a word about runs.
LEMMA ViewStore ==
  ASSUME NEW s, GoodStore(s), NEW seed \in Sources
  PROVE  /\ KeptBy([s EXCEPT !.compareSeed = seed], s)
         /\ KeptBy([s EXCEPT !.active = FALSE], s)
         /\ s.baseline \in Files => KeptBy([s EXCEPT !.active = TRUE], s)
         /\ KeptBy([s EXCEPT !.active = FALSE, !.baseline = NoFile, !.candidate = NoFile], s)
  BY SessionAssumption, ZenonT(60) DEF GoodStore, KeptBy, Stores, Sources

\* A snapshot is dropped.
LEMMA DroppedStore ==
  ASSUME NEW s, GoodStore(s), NEW f
  PROVE  KeptBy([s EXCEPT !.sessionCache[f] = {}], s)
<1> DEFINE t == [s EXCEPT !.sessionCache[f] = {}]
<1>1. /\ t \in Stores /\ t.activeFileId = s.activeFileId /\ t.compareLoad = s.compareLoad
      /\ t.run = s.run /\ t.active = s.active /\ t.baseline = s.baseline
      /\ t.candidate = s.candidate
  BY DEF GoodStore, Stores, Runs
<1>2. \A g \in Files : t.sessionCache[g] = {} \/ t.sessionCache[g] = {g}
  BY DEF GoodStore, Stores
<1> HIDE DEF t
<1>3. KeptBy(t, s)
  BY <1>1, <1>2 DEF KeptBy, GoodStore
<1> QED BY <1>3 DEF t

\* installRun, of a parse or of a snapshot of the same file.
LEMMA InstalledStore ==
  ASSUME NEW s, GoodStore(s), NEW f \in Sources, NEW run \in Runs,
         f # NoFile /\ run # {} => run = {f}
  PROVE  GoodStore(InstallRun([s EXCEPT !.activeFileId = f], run))
  BY DEF GoodStore, InstallRun, Stores

\* The run of the parse that is shown as open is installed.
LEMMA InstalledHere ==
  ASSUME NEW s, GoodStore(s), NEW run \in Runs,
         s.activeFileId # NoFile /\ run # {} => run = {s.activeFileId}
  PROVE  KeptBy(InstallRun(s, run), s)
  BY DEF GoodStore, KeptBy, InstallRun, Stores

\* snapshotParsedRun, of a model built from its own file.
LEMMA SnapshotStore ==
  ASSUME NEW s, GoodStore(s), NEW f \in Files
  PROVE  KeptBy([s EXCEPT !.sessionCache[f] = {f}], s)
<1> DEFINE t == [s EXCEPT !.sessionCache[f] = {f}]
<1>1. /\ t \in Stores /\ t.activeFileId = s.activeFileId /\ t.compareLoad = s.compareLoad
      /\ t.run = s.run /\ t.active = s.active /\ t.baseline = s.baseline
      /\ t.candidate = s.candidate
  BY DEF GoodStore, Stores, Runs, Sources
<1>2. \A g \in Files : t.sessionCache[g] = {} \/ t.sessionCache[g] = {g}
  BY DEF GoodStore, Stores
<1> HIDE DEF t
<1>3. KeptBy(t, s)
  BY <1>1, <1>2 DEF KeptBy, GoodStore
<1> QED BY <1>3 DEF t

\* openComparison, when the second run is done.
LEMMA OpenedStore ==
  ASSUME NEW s, GoodStore(s), NEW a \in Files, NEW b \in Files
  PROVE  GoodStore(OpenComparison([s EXCEPT !.compareLoad = 0, !.activeFileId = NoFile,
                                            !.compareSeed = NoFile], a, b))
<1> DEFINE t == [s EXCEPT !.compareLoad = 0, !.activeFileId = NoFile, !.compareSeed = NoFile]
           c == CacheCurrentSnapshot(t)
<1>1. GoodStore(t)
  <2>1. t \in Stores
    BY Members DEF GoodStore, Stores
  <2>2. /\ t.run = s.run /\ t.sessionCache = s.sessionCache /\ t.active = s.active
        /\ t.baseline = s.baseline /\ t.candidate = s.candidate
        /\ t.activeFileId = NoFile
    BY DEF GoodStore, Stores
  <2> HIDE DEF t
  <2> QED BY <2>1, <2>2 DEF GoodStore
<1> HIDE DEF t
<1>2. GoodStore(c)
  BY <1>1, CachedStore DEF KeptBy
<1>3. OpenComparison(t, a, b) = [c EXCEPT !.active = TRUE, !.baseline = a, !.candidate = b]
  BY DEF OpenComparison
<1> HIDE DEF c
<1>4. GoodStore(OpenComparison(t, a, b))
  BY <1>2, <1>3 DEF GoodStore, Stores, Sources
<1> QED BY <1>4 DEF t

-----------------------------------------------------------------------------
(* The parses and the clients.                                              *)

Clients == [handlers : Loads \cup {NoLoad}, worker : Loads \cup {NoLoad}]

Live == {"parsing", "loaded", "idle"}

\* What the model of a parse holds, by how far its worker got.
GoodParse(p) ==
  /\ p \in Parses
  /\ p.model \subseteq {p.src}
  /\ p.worker \in {"none", "resolving", "parsing"} => p.model = {}
  /\ p.worker = "loaded" => p.model = {p.src}
  /\ p.kind \in {"A", "B"} => UseCompare /\ p.src \in Files /\ p.peer \in Files

\* A live worker is the last one of the client that clientRef holds, and that
\* client calls back its own load; while a source is awaited, its comparison
\* is being loaded; a file that is being read is the file shown as open.
Placed(p, n, c, s) ==
  /\ p.worker = "resolving" =>
       p.kind \in {"A", "B"} /\ clientRef = n /\ s.compareLoad # 0
  /\ p.worker \in Live =>
       clientRef = n /\ p.host = n /\ c.handlers = n /\ c.worker = n
  /\ p.worker \in {"parsing", "loaded"} /\ p.kind \notin {"A", "B"} =>
       s.activeFileId = p.src

SInv ==
  /\ GoodStore(store)
  /\ clientRef \in 0..loads /\ loads \in 0..MaxLoads
  /\ waiting \subseteq Intakes
  /\ clients \in [Loads -> Clients] /\ parses \in [Loads -> Parses]
  /\ \A n \in Loads : GoodParse(parses[n]) /\ Placed(parses[n], n, clients[n], store)

\* No worker is alive or awaited.
Quiet(ps) ==
  /\ ps \in [Loads -> Parses]
  /\ \A n \in Loads : GoodParse(ps[n]) /\ ps[n].worker \notin Live \cup {"resolving"}

\* Every live worker is the last one of the client that clientRef holds.
OneLive(ps) ==
  /\ ps \in [Loads -> Parses]
  /\ \A n \in Loads : GoodParse(ps[n])
  /\ \A n \in Loads : ps[n].worker \in Live => clientRef \in Loads /\ clients[clientRef].worker = n
  /\ \A n \in Loads : ps[n].worker # "resolving"

\* What a worker that is alive, or awaited, excludes.
LEMMA Alone ==
  ASSUME SInv
  PROVE  /\ \A n \in Loads : Alive(n) <=> parses[n].worker \in Live
         /\ \A n \in Loads : parses[n].worker = "resolving" => store.compareLoad # 0
         /\ \A n \in Loads : Alive(n) =>
              /\ clientRef = n /\ parses[n].host = n /\ Handlers(n) = n
              /\ \A m \in Loads : m # n => parses[m].worker \notin Live \cup {"resolving"}
         /\ \A n \in Loads : parses[n].worker = "resolving" =>
              /\ clientRef = n
              /\ \A m \in Loads : m # n => parses[m].worker \notin Live \cup {"resolving"}
  BY DEF SInv, Placed, Alive, Live, Handlers

\* A parse that differs from another in its worker, or in where its rest stands.
Still(q, p, w) ==
  GoodParse(q) /\ q.worker = w /\ q.kind = p.kind /\ q.src = p.src /\ q.host = p.host

\* A worker gets idle or dies, whatever its parse built.
LEMMA WorkerSet ==
  ASSUME NEW p, GoodParse(p), NEW w \in {"idle", "dead"}
  PROVE  Still([p EXCEPT !.worker = w], p, w)
  BY DEF GoodParse, Parses, Still

\* runDone gets on.
LEMMA AfterSet ==
  ASSUME NEW p, GoodParse(p), NEW a \in {"none", "prefetch", "settled"}
  PROVE  Still([p EXCEPT !.after = a], p, p.worker)
  BY DEF GoodParse, Parses, Still

\* What terminate makes of one parse.
EndedAs(q, p, dies) == GoodParse(q) /\ q.worker = IF dies THEN "dead" ELSE p.worker

\* Ending a parse changes its worker and its rest alone.
LEMMA EndedParse ==
  ASSUME NEW p, GoodParse(p), NEW dies \in BOOLEAN, NEW settles \in BOOLEAN
  PROVE  EndedAs([p EXCEPT !.worker = IF dies THEN "dead" ELSE @,
                           !.after = IF settles /\ @ = "prefetch" THEN "settled" ELSE @],
                 p, dies)
<1> DEFINE q == [p EXCEPT !.worker = IF dies THEN "dead" ELSE @,
                          !.after = IF settles /\ @ = "prefetch" THEN "settled" ELSE @]
<1>1. q \in Parses
  BY DEF GoodParse, Parses
<1>2. q.worker = IF dies THEN "dead" ELSE p.worker
  BY DEF GoodParse, Parses
<1>3. q.kind = p.kind /\ q.src = p.src /\ q.peer = p.peer /\ q.model = p.model
  BY DEF GoodParse, Parses
<1> HIDE DEF q
<1>4. EndedAs(q, p, dies)
  BY <1>1, <1>2, <1>3 DEF EndedAs, GoodParse
<1> QED BY <1>4 DEF q

\* terminate of the client that clientRef holds leaves no worker alive.
LEMMA Terminated ==
  ASSUME NEW ps, OneLive(ps), NEW cs, clientRef \in cs
  PROVE  Quiet(Terminate(ps, cs))
<1> DEFINE ts == Terminate(ps, cs)
           dies(n) == \E c \in cs \cap Loads : clients[c].worker = n
<1>1. ASSUME NEW n \in Loads PROVE EndedAs(ts[n], ps[n], dies(n))
  <2>1. ts[n] = [ps[n] EXCEPT !.worker = IF dies(n) THEN "dead" ELSE @,
                              !.after = IF n \in cs /\ @ = "prefetch" THEN "settled" ELSE @]
    BY DEF Terminate
  <2>2. GoodParse(ps[n]) /\ dies(n) \in BOOLEAN /\ (n \in cs) \in BOOLEAN
    BY DEF OneLive
  <2> HIDE DEF ts, dies
  <2> QED BY <2>1, <2>2, EndedParse, ZenonT(60)
<1>2. ASSUME NEW n \in Loads, ps[n].worker \in Live PROVE dies(n)
  BY <1>2 DEF OneLive
<1>3. ts = [n \in Loads |-> ts[n]]
  BY DEF Terminate
<1> HIDE DEF ts, dies
<1>4. ASSUME NEW n \in Loads
      PROVE  GoodParse(ts[n]) /\ ts[n].worker \notin Live \cup {"resolving"}
  <2>1. EndedAs(ts[n], ps[n], dies(n)) /\ ps[n].worker # "resolving"
    BY <1>1 DEF OneLive
  <2> QED BY <1>2, <2>1 DEF EndedAs, Live
<1>5. Quiet(ts)
  BY <1>3, <1>4 DEF Quiet, GoodParse
<1> QED BY <1>5 DEF ts

\* Dropping workers keeps the clients clients.
LEMMA Dropped ==
  ASSUME clients \in [Loads -> Clients], NEW cs
  PROVE  DropWorkers(cs) \in [Loads -> Clients]
<1>1. ASSUME NEW c \in Loads PROVE [clients[c] EXCEPT !.worker = NoLoad] \in Clients
  BY DEF Clients, NoLoad
<1> QED BY <1>1 DEF DropWorkers

\* With no worker alive or awaited, only the store has to be good.
LEMMA QuietInv ==
  ASSUME SInv, GoodStore(store'), Quiet(parses'), clients' \in [Loads -> Clients],
         clientRef' \in {clientRef, NoLoad}, loads' = loads, waiting' \subseteq waiting
  PROVE  SInv'
<1>1. clientRef' \in 0..loads'
  BY DEF SInv, NoLoad
<1>2. \A n \in Loads : Placed(parses[n], n, clients[n], store)'
  BY DEF Quiet, Placed, Live
<1> QED BY <1>1, <1>2 DEF SInv, Quiet

-----------------------------------------------------------------------------
(* The steps the actions are made of.                                       *)

\* When nothing is awaited, the parses have one live worker at most.
LEMMA OneLiveNow ==
  ASSUME SInv, \A n \in Loads : parses[n].worker # "resolving"
  PROVE  OneLive(parses)
  BY DEF SInv, Placed, OneLive, Live

\* It stays the one when it gets idle or dies.
LEMMA OneLiveAfter ==
  ASSUME SInv, NEW n \in Loads, parses[n].worker \in Live \cup {"resolving"},
         NEW w \in {"idle", "dead"}, w = "idle" => Alive(n)
  PROVE  OneLive([parses EXCEPT ![n].worker = w])
<1> DEFINE ps == [parses EXCEPT ![n].worker = w]
           r == [parses[n] EXCEPT !.worker = w]
<1>0. GoodParse(parses[n])
  BY DEF SInv
<1>1. Still(r, parses[n], w)
  BY <1>0, WorkerSet
<1>2. ps = [parses EXCEPT ![n] = r]
  BY DEF SInv
<1>3. \A m \in Loads : m # n => parses[m].worker \notin Live \cup {"resolving"}
  BY Alone
<1>4. w = "idle" => clientRef = n /\ clients[clientRef].worker = n
  BY Alone DEF SInv, Placed, Alive, Live
<1> HIDE DEF ps, r
<1>5. ps \in [Loads -> Parses]
  BY <1>1, <1>2 DEF SInv, Still, GoodParse
<1>6. \A m \in Loads : ps[m] = IF m = n THEN r ELSE parses[m]
  BY <1>2 DEF SInv
<1>7. OneLive(ps)
  BY <1>1, <1>3, <1>4, <1>5, <1>6 DEF OneLive, SInv, Live, Still
<1> QED BY <1>7 DEF ps

\* A load starts: begin.
LEMMA BeginStep ==
  ASSUME SInv, NEW s, GoodStore(s), \A n \in Loads : parses[n].worker # "resolving",
         NEW kind \in {"file", "shs"}, NEW f \in Sources, NEW handle,
         Begin(s, kind, f, handle),
         waiting' \subseteq Intakes
  PROVE  SInv'
<1> DEFINE n == loads + 1
           q == Terminate(parses, {clientRef})
           d == DropWorkers({clientRef})
           r == [NoParse EXCEPT !.kind = kind, !.src = f, !.worker = "parsing", !.host = n]
           c == [handlers |-> n, worker |-> n]
<1>1. n \in Loads /\ n \in 0..MaxLoads /\ loads' = n /\ clientRef' = n
  BY SessionAssumption DEF Begin, Loads, SInv
<1>2. Quiet(q)
  BY OneLiveNow, Terminated
<1>3. d \in [Loads -> Clients] /\ c \in Clients
  BY <1>1, Dropped DEF SInv, Clients
<1>4. GoodParse(r) /\ r.worker = "parsing" /\ r.host = n /\ r.src = f /\ r.kind = kind
  BY <1>1, Members DEF NoParse, GoodParse, Parses, NoLoad
<1>5. parses' = [q EXCEPT ![n] = r] /\ clients' = [d EXCEPT ![n] = c]
  BY DEF Begin
<1>6. GoodStore(store') /\ store'.activeFileId = f
  BY BeginStore, ZenonT(60) DEF Begin
<1> HIDE DEF n, q, d, r
<1>7. parses' \in [Loads -> Parses] /\ clients' \in [Loads -> Clients]
  BY <1>2, <1>3, <1>4, <1>5 DEF Quiet, GoodParse
<1>8. ASSUME NEW m \in Loads
      PROVE  GoodParse(parses'[m]) /\ Placed(parses[m], m, clients[m], store)'
  <2>1. CASE m = n
    <3>1. parses'[m] = r /\ clients'[m] = c
      BY <1>2, <1>3, <1>5, <2>1 DEF Quiet
    <3> QED BY <1>1, <1>4, <1>6, <2>1, <3>1 DEF Placed
  <2>2. CASE m # n
    <3>1. parses'[m] = q[m]
      BY <1>2, <1>5, <2>2 DEF Quiet
    <3> QED BY <1>2, <3>1 DEF Placed, Quiet, Live
  <2> QED BY <2>1, <2>2
<1> QED BY <1>1, <1>6, <1>7, <1>8 DEF SInv

\* A parse of a comparison starts: parseInto, up to its await.
LEMMA ParseIntoStep ==
  ASSUME SInv, NEW s, GoodStore(s), NEW ps, OneLive(ps), NEW kind \in {"A", "B"},
         NEW f \in Files, NEW g \in Files, UseCompare,
         ParseInto(s, ps, kind, f, g), waiting' = waiting
  PROVE  SInv'
<1> DEFINE n == loads + 1
           q == Terminate(ps, {clientRef})
           r == [NoParse EXCEPT !.kind = kind, !.src = f, !.peer = g, !.worker = "resolving"]
<1>1. n \in Loads /\ n \in 0..MaxLoads /\ loads' = n /\ clientRef' = n
  BY SessionAssumption DEF ParseInto, Loads, SInv
<1>2. Quiet(q)
  BY Terminated
<1>3. clients' \in [Loads -> Clients]
  BY Dropped DEF ParseInto, SInv
<1>4. GoodParse(r) /\ r.worker = "resolving" /\ r.kind = kind
  BY Members DEF NoParse, GoodParse, Parses, NoLoad
<1>5. parses' = [q EXCEPT ![n] = r]
  BY DEF ParseInto
<1>6. GoodStore(store') /\ store'.compareLoad # 0
  BY CompareStore DEF ParseInto
<1> HIDE DEF n, q, r
<1>7. parses' \in [Loads -> Parses]
  BY <1>2, <1>4, <1>5 DEF Quiet, GoodParse
<1>8. ASSUME NEW m \in Loads
      PROVE  GoodParse(parses'[m]) /\ Placed(parses[m], m, clients[m], store)'
  <2>1. CASE m = n
    <3>1. parses'[m] = r
      BY <1>2, <1>5, <2>1 DEF Quiet
    <3> QED BY <1>1, <1>4, <1>6, <2>1, <3>1 DEF Placed, Live
  <2>2. CASE m # n
    <3>1. parses'[m] = q[m]
      BY <1>2, <1>5, <2>2 DEF Quiet
    <3> QED BY <1>2, <3>1 DEF Placed, Quiet, Live
  <2> QED BY <2>1, <2>2
<1> QED BY <1>1, <1>3, <1>6, <1>7, <1>8 DEF SInv

\* The worker of the client that clientRef holds is terminated.
LEMMA StopStep ==
  ASSUME SInv, GoodStore(store'), NEW ps, OneLive(ps), NEW cs, clientRef \in cs,
         parses' = Terminate(ps, cs), clients' = DropWorkers(cs),
         clientRef' \in {clientRef, NoLoad}, loads' = loads, waiting' \subseteq waiting
  PROVE  SInv'
<1>1. Quiet(parses')
  BY Terminated
<1>2. clients' \in [Loads -> Clients]
  BY Dropped DEF SInv
<1> QED BY <1>1, <1>2, QuietInv

\* Only the store changes, or an intake is answered.
LEMMA StoreStep ==
  ASSUME SInv, KeptBy(store', store), waiting' \subseteq Intakes,
         UNCHANGED <<clientRef, clients, parses, loads>>
  PROVE  SInv'
<1>1. \A n \in Loads : Placed(parses[n], n, clients[n], store)'
  BY DEF SInv, Placed, KeptBy
<1> QED BY <1>1 DEF SInv, KeptBy

\* Only one parse changes, and with it the store at most.
LEMMA ParseStep ==
  ASSUME SInv, NEW n \in Loads, NEW r, GoodParse(r), GoodStore(store'),
         parses' = [parses EXCEPT ![n] = r], Placed(r, n, clients[n], store'),
         \/ KeptBy(store', store)
         \/ \A m \in Loads : m # n => parses[m].worker \notin Live \cup {"resolving"},
         UNCHANGED <<clientRef, clients, loads, waiting>>
  PROVE  SInv'
<1>1. parses' \in [Loads -> Parses]
  BY DEF SInv, GoodParse
<1>2. ASSUME NEW m \in Loads
      PROVE  GoodParse(parses'[m]) /\ Placed(parses[m], m, clients[m], store)'
  <2>1. CASE m = n
    <3>1. parses'[m] = r
      BY <2>1 DEF SInv
    <3> QED BY <2>1, <3>1 DEF Placed
  <2>2. CASE m # n
    <3>1. parses'[m] = parses[m] /\ GoodParse(parses[m]) /\ Placed(parses[m], m, clients[m], store)
      BY <2>2 DEF SInv
    <3> QED BY <2>2, <3>1 DEF Placed, KeptBy, Live
  <2> QED BY <2>1, <2>2
<1> QED BY <1>1, <1>2 DEF SInv

-----------------------------------------------------------------------------
(* The reader's actions.                                                    *)

\* No source is awaited when no comparison is being loaded.
LEMMA NoneAwaited ==
  ASSUME SInv, store.compareLoad = 0
  PROVE  \A n \in Loads : parses[n].worker # "resolving"
  BY Alone

\* A screen that offers an intake shows no comparison being loaded.
LEMMA ScreenLoads ==
  (Landing \/ ParseScreen \/ Dashboard \/ Intake \/ Comparison) => store.compareLoad = 0
  BY DEF Landing, ParseScreen, Dashboard, Intake, Comparison, NoComparison

\* A store is kept by itself.
LEMMA SameStore ==
  ASSUME SInv
  PROVE  GoodStore(store) /\ KeptBy(store, store)
  BY DEF SInv, KeptBy

\* A single-run load starts.
LEMMA StartStep ==
  ASSUME SInv, NEW f, (f \in Files /\ StartLoad(f)) \/ StartLoadFolder \/ StartLoadFromUrl
  PROVE  SInv'
<1>1. store.compareLoad = 0 /\ waiting' = waiting
  BY ScreenLoads DEF StartLoad, StartLoadFolder, StartLoadFromUrl
<1>2. \A n \in Loads : parses[n].worker # "resolving"
  BY <1>1, NoneAwaited
<1>3. GoodStore(store) /\ waiting' \subseteq Intakes
  BY <1>1 DEF SInv
<1>4. (f \in Files => f \in Sources) /\ NoFile \in Sources
  BY DEF Sources
<1>5. CASE f \in Files /\ StartLoad(f)
  <2>1. f \in Sources /\ Begin(store, "file", f, FALSE)
    BY <1>4, <1>5 DEF StartLoad
  <2> QED BY <1>2, <1>3, <2>1, BeginStep
<1>6. CASE StartLoadFolder
  <2>1. Begin(store, "file", NoFile, FALSE)
    BY <1>6 DEF StartLoadFolder
  <2> QED BY <1>2, <1>3, <1>4, <2>1, BeginStep
<1>7. CASE StartLoadFromUrl
  <2>1. Begin(store, "shs", NoFile, FALSE)
    BY <1>7 DEF StartLoadFromUrl
  <2> QED BY <1>2, <1>3, <1>4, <2>1, BeginStep
<1> QED BY <1>5, <1>6, <1>7

\* An intake waits for the browser.
LEMMA AskStep ==
  ASSUME SInv, NEW f \in Sources, NEW handle \in BOOLEAN,
         AskForFile(f, handle) \/ (f \in Files /\ PickFile(f))
  PROVE  SInv'
<1>1. waiting' \subseteq Intakes
  <2>1. PICK kind \in {"pick", "file"}, h \in BOOLEAN :
          waiting' = waiting \cup {[kind |-> kind, file |-> f, handle |-> h]}
    BY DEF AskForFile, PickFile
  <2>2. [kind |-> kind, file |-> f, handle |-> h] \in Intakes
    BY DEF Intakes
  <2> QED BY <2>1, <2>2 DEF SInv
<1>2. KeptBy(store', store) /\ UNCHANGED <<clientRef, clients, parses, loads>>
  BY SameStore DEF AskForFile, PickFile
<1> QED BY <1>1, <1>2, StoreStep

\* The recent-files list is all that changes, or the answer.
LEMMA ListStep ==
  ASSUME SInv, NEW f \in Files, PickActive(f) \/ RemoveRecent(f)
  PROVE  SInv'
<1>1. KeptBy(store', store) /\ UNCHANGED <<clientRef, clients, parses, loads, waiting>>
  BY SameStore DEF PickActive, RemoveRecent
<1> QED BY <1>1, StoreStep DEF SInv

\* A cached snapshot is installed, under the file it is cached for.
LEMMA RestoreStep ==
  ASSUME SInv, store.compareLoad = 0, NEW s, GoodStore(s), NEW f \in Files,
         Restore(s, f), UNCHANGED <<loads, waiting>>
  PROVE  SInv'
<1>1. s.sessionCache[f] \in Runs /\ (s.sessionCache[f] # {} => s.sessionCache[f] = {f})
  BY DEF GoodStore, Stores
<1>2. GoodStore(store')
  BY <1>1, InstalledStore DEF Restore, Sources
<1>3. OneLive(parses)
  BY NoneAwaited, OneLiveNow
<1> QED BY <1>2, <1>3, StopStep DEF Restore

\* pickRecent, when the picked file has a snapshot.
LEMMA PickCachedStep ==
  ASSUME SInv, NEW f \in Files, PickCached(f)
  PROVE  SInv'
<1>1. store.compareLoad = 0
  BY ScreenLoads DEF PickCached, PickFrom
<1>2. GoodStore(CacheCurrentSnapshot(store))
  BY SameStore, CachedStore DEF KeptBy
<1>3. Restore(CacheCurrentSnapshot(store), f) /\ UNCHANGED <<loads, waiting>>
  BY DEF PickCached
<1> QED BY <1>1, <1>2, <1>3, RestoreStep

\* Back to one run, from the comparison or from the seeded landing.
LEMMA DrillStep ==
  ASSUME SInv, BackToTheRun \/ DrillIn
  PROVE  SInv'
<1>1. store.compareLoad = 0
  BY ScreenLoads DEF BackToTheRun, DrillIn
<1>2. ASSUME NEW s, GoodStore(s), NEW f \in Files, DrillIntoRun(s, f)
      PROVE  SInv'
  <2>1. GoodStore([s EXCEPT !.active = FALSE])
    BY <1>2, ViewStore, Members DEF KeptBy
  <2>2. Restore([s EXCEPT !.active = FALSE], f) /\ UNCHANGED <<loads, waiting>>
    BY <1>2 DEF DrillIntoRun
  <2> QED BY <1>1, <2>1, <2>2, RestoreStep
<1>3. CASE BackToTheRun
  <2>1. GoodStore([store EXCEPT !.compareSeed = NoFile])
    BY SameStore, ViewStore, Members DEF KeptBy
  <2>2. store.compareSeed \in Files
    BY <1>3 DEF BackToTheRun, SInv, GoodStore, Stores, Sources
  <2>3. DrillIntoRun([store EXCEPT !.compareSeed = NoFile], store.compareSeed)
    BY <1>3 DEF BackToTheRun
  <2> QED BY <1>2, <2>1, <2>2, <2>3
<1>4. CASE DrillIn
  <2>1. store.baseline \in Files /\ store.candidate \in Files
    BY <1>4 DEF DrillIn, Comparison, SInv, GoodStore, Stores
  <2>2. PICK f \in {store.baseline, store.candidate} : DrillIntoRun(store, f)
    BY <1>4 DEF DrillIn
  <2> QED BY <1>2, <2>1, <2>2, SameStore
<1> QED BY <1>3, <1>4

\* The dashboard is left for the landing, for a parse or for a comparison.
LEMMA ResetStep ==
  ASSUME SInv, Reset \/ CompareWithAnotherRun
  PROVE  SInv'
<1>1. PICK seed \in Sources : ResetToDropZone(seed)
  BY DEF Reset, CompareWithAnotherRun, SInv, GoodStore, Stores
<1>2. OneLive(parses)
  BY ScreenLoads, NoneAwaited, OneLiveNow DEF Reset, CompareWithAnotherRun
<1>3. GoodStore(ResetModel(CacheCurrentSnapshot(store)))
  BY SameStore, CachedStore, ResetStore DEF KeptBy
<1>4. GoodStore(store')
  BY <1>1, <1>3, ViewStore DEF ResetToDropZone, KeptBy
<1> QED BY <1>1, <1>2, <1>4, StopStep DEF ResetToDropZone

\* The parse on screen is cancelled.
LEMMA CancelStep ==
  ASSUME SInv, CancelParse
  PROVE  SInv'
<1>1. OneLive(parses)
  BY ScreenLoads, NoneAwaited, OneLiveNow DEF CancelParse
<1>2. GoodStore(store')
  BY SameStore, ResetStore DEF CancelParse
<1> QED BY <1>1, <1>2, StopStep DEF CancelParse

\* What the compare view does to the store alone.
LEMMA ViewStep ==
  ASSUME SInv, DropSeed \/ BackToComparison \/ CloseComparison
  PROVE  SInv'
<1>1. UNCHANGED <<clientRef, clients, parses, loads, waiting>>
  BY DEF DropSeed, BackToComparison, CloseComparison
<1>2. KeptBy(store', store)
  <2>1. CASE DropSeed
    BY <2>1, SameStore, ViewStore, Members DEF DropSeed
  <2>2. CASE BackToComparison
    <3>1. store.baseline \in Files
      BY <2>2 DEF BackToComparison, SInv, GoodStore, Stores, Sources
    <3> QED BY <2>2, <3>1, SameStore, ViewStore, Members DEF BackToComparison
  <2>3. CASE CloseComparison
    BY <2>3, SameStore, ViewStore, Members DEF CloseComparison
  <2> QED BY <2>1, <2>2, <2>3
<1> QED BY <1>1, <1>2, StoreStep DEF SInv

\* The reader starts a comparison.
LEMMA CompareStep ==
  ASSUME SInv, NEW a \in Files, NEW b \in Files,
         StartCompareLoad(a, b) \/ StartCompareSeeded(b)
  PROVE  SInv'
<1>1. OneLive(parses) /\ UseCompare /\ waiting' = waiting
  BY ScreenLoads, NoneAwaited, OneLiveNow DEF StartCompareLoad, StartCompareSeeded
<1>2. CASE StartCompareLoad(a, b)
  <2>1. ParseInto(store, parses, "A", a, b)
    BY <1>2 DEF StartCompareLoad
  <2> QED BY <1>1, <2>1, SameStore, ParseIntoStep
<1>3. CASE StartCompareSeeded(b)
  <2>1. CASE store.sessionCache[store.compareSeed] # {}
    <3>1. ParseInto(store, parses, "B", b, store.compareSeed)
      BY <1>3, <2>1 DEF StartCompareSeeded
    <3>2. store.compareSeed \in Files
      BY <1>3 DEF StartCompareSeeded, SInv, GoodStore, Stores, Sources
    <3> QED BY <1>1, <3>1, <3>2, SameStore, ParseIntoStep
  <2>2. CASE store.sessionCache[store.compareSeed] = {}
    <3>1. KeptBy(store', store) /\ UNCHANGED <<clientRef, clients, parses, loads>>
      BY <1>3, <2>2, SameStore, ErrorStore DEF StartCompareSeeded
    <3> QED BY <1>1, <3>1, StoreStep DEF SInv
  <2> QED BY <2>1, <2>2
<1> QED BY <1>2, <1>3

-----------------------------------------------------------------------------
(* The browser's answers to the intakes.                                    *)

\* An intake is granted, refused, closed, or its file is gone.
LEMMA AnswerStep ==
  ASSUME SInv, Answer, Apart
  PROVE  SInv'
<1>1. PICK w \in waiting : Granted(w) \/ Unreadable(w) \/ Dismissed(w) \/ PickedFileGone(w)
  BY DEF Answer
<1>2. w \in Intakes
  BY DEF SInv
<1>3. ASSUME Granted(w) PROVE \A n \in Loads : parses[n].worker # "resolving"
  BY <1>3 DEF Apart, Takeover
<1>4. waiting' = waiting \ {w}
  BY <1>1 DEF Granted, Unreadable, Dismissed, PickedFileGone
<1>5. waiting' \subseteq Intakes
  BY <1>4 DEF SInv
<1>6. CASE Granted(w)
  <2>1. w.file \in Sources
    BY <1>2 DEF Intakes
  <2>2. CASE w.kind = "pick"
    <3>1. GoodStore(CacheCurrentSnapshot(store))
      BY SameStore, CachedStore DEF KeptBy
    <3>2. Begin(CacheCurrentSnapshot(store), "file", w.file, TRUE)
      BY <1>6, <2>2 DEF Granted
    <3> QED BY <1>3, <1>5, <1>6, <2>1, <3>1, <3>2, BeginStep
  <2>3. CASE w.kind # "pick"
    <3>1. Begin(store, "file", w.file, w.handle)
      BY <1>6, <2>3 DEF Granted
    <3> QED BY <1>3, <1>5, <1>6, <2>1, <3>1, SameStore, BeginStep
  <2> QED BY <2>2, <2>3
<1>7. CASE Unreadable(w) \/ Dismissed(w) \/ PickedFileGone(w)
  <2>1. KeptBy(store', store)
    <3>1. \/ store' = store \/ store' = SetError(store)
          \/ store' = [store EXCEPT !.sessionCache[w.file] = {}]
      BY <1>7 DEF Unreadable, Dismissed, PickedFileGone
    <3>2. GoodStore(store) /\ KeptBy(store, store) /\ KeptBy(SetError(store), store)
      BY SameStore, ErrorStore
    <3>3. KeptBy([store EXCEPT !.sessionCache[w.file] = {}], store)
      BY <3>2, DroppedStore
    <3> QED BY <3>1, <3>2, <3>3
  <2>2. UNCHANGED <<clientRef, clients, parses, loads>>
    BY <1>7 DEF Unreadable, Dismissed, PickedFileGone
  <2> QED BY <1>5, <2>1, <2>2, StoreStep
<1> QED BY <1>1, <1>6, <1>7

-----------------------------------------------------------------------------
(* The workers.                                                             *)

\* A worker that is alive serves the load whose client clientRef holds.
LEMMA ItsOwn ==
  ASSUME SInv, NEW n \in Loads, parses[n].worker \in Live
  PROVE  /\ clientRef = n /\ parses[n].host = n /\ Handlers(n) = n
         /\ \A m \in Loads : m # n => parses[m].worker \notin Live \cup {"resolving"}
         /\ GoodParse(parses[n]) /\ Placed(parses[n], n, clients[n], store)
  BY Alone DEF SInv

\* A worker that said its last is idle, and its parse as it was.
LEMMA Idled ==
  ASSUME SInv, NEW n \in Loads, parses[n].worker \in Live
  PROVE  /\ Still([parses[n] EXCEPT !.worker = "idle"], parses[n], "idle")
         /\ \A s : Placed([parses[n] EXCEPT !.worker = "idle"], n, clients[n], s)
         /\ OneLive([parses EXCEPT ![n].worker = "idle"])
         /\ [parses EXCEPT ![n].worker = "idle"]
              = [parses EXCEPT ![n] = [parses[n] EXCEPT !.worker = "idle"]]
<1> DEFINE r == [parses[n] EXCEPT !.worker = "idle"]
<1>1. Still(r, parses[n], "idle")
  BY ItsOwn, WorkerSet
<1>2. Alive(n)
  BY Alone
<1>3. OneLive([parses EXCEPT ![n].worker = "idle"])
  BY <1>2, OneLiveAfter
<1>4. [parses EXCEPT ![n].worker = "idle"] = [parses EXCEPT ![n] = r]
  BY DEF SInv
<1> HIDE DEF r
<1>5. \A s : Placed(r, n, clients[n], s)
  BY <1>1, ItsOwn DEF Placed, Still, Live
<1> QED BY <1>1, <1>3, <1>4, <1>5 DEF r

\* The source of a comparison's run is readable, or it is not.
LEMMA ResolveStep ==
  ASSUME SInv, NEW n \in Loads, Resolve(n)
  PROVE  SInv'
<1>1. parses[n].worker = "resolving" /\ clientRef = n
  BY Alone DEF Resolve, Resolved, Unresolved
<1>2. \A m \in Loads : m # n => parses[m].worker \notin Live \cup {"resolving"}
  BY <1>1, Alone
<1>3. CASE Resolved(n)
  <2> DEFINE r == [parses[n] EXCEPT !.worker = "parsing", !.host = n]
             c == [handlers |-> n, worker |-> n]
  <2>1. GoodParse(parses[n]) /\ parses[n].kind \in {"A", "B"}
    BY <1>1 DEF SInv, Placed
  <2>2. r \in Parses /\ r.worker = "parsing" /\ r.host = n
    BY <2>1 DEF GoodParse, Parses
  <2>3. r.kind = parses[n].kind /\ r.src = parses[n].src /\ r.model = parses[n].model /\ r.peer = parses[n].peer
    BY <2>1 DEF GoodParse, Parses
  <2>4. parses' = [parses EXCEPT ![n] = r] /\ clients' = [clients EXCEPT ![n] = c]
    BY <1>1, <1>3 DEF Resolved, SInv
  <2>5. c \in Clients
    BY DEF Clients
  <2> HIDE DEF r
  <2>6. GoodParse(r)
    BY <1>1, <2>1, <2>2, <2>3 DEF GoodParse
  <2>7. parses' \in [Loads -> Parses] /\ clients' \in [Loads -> Clients]
    BY <2>2, <2>4, <2>5 DEF SInv
  <2>8. ASSUME NEW m \in Loads
        PROVE  GoodParse(parses'[m]) /\ Placed(parses[m], m, clients[m], store)'
    <3>1. CASE m = n
      <4>1. parses'[m] = r /\ clients'[m] = c /\ clientRef' = n
        BY <1>1, <1>3, <2>4, <3>1 DEF SInv, Resolved
      <4> QED BY <2>1, <2>2, <2>3, <2>6, <3>1, <4>1 DEF Placed
    <3>2. CASE m # n
      <4>1. parses'[m] = parses[m] /\ GoodParse(parses[m])
        BY <2>4, <3>2 DEF SInv
      <4> QED BY <1>2, <3>2, <4>1 DEF Placed, Live
    <3> QED BY <3>1, <3>2
  <2> QED BY <1>3, <2>7, <2>8 DEF SInv, Resolved
<1>4. CASE Unresolved(n)
  <2>1. OneLive([parses EXCEPT ![n].worker = "dead"])
    BY <1>1, OneLiveAfter
  <2>2. GoodStore(store')
    BY <1>4, SameStore, ErrorStore DEF Unresolved, Aborted
  <2> QED BY <1>4, <2>1, <2>2, StopStep DEF Unresolved
<1> QED BY <1>3, <1>4 DEF Resolve

\* The parser's messages build the model, from the source its load reads.
LEMMA DataStep ==
  ASSUME SInv, NEW n \in Loads, WorkerData(n)
  PROVE  SInv'
<1> DEFINE r == [parses[n] EXCEPT !.worker = "loaded", !.model = @ \cup {parses[n].src}]
<1>1. parses[n].worker \in Live /\ parses[n].worker = "parsing"
  BY DEF WorkerData, Live
<1>2. /\ Handlers(n) = n /\ GoodParse(parses[n]) /\ Placed(parses[n], n, clients[n], store)
      /\ parses[n].model = {}
  BY <1>1, ItsOwn DEF GoodParse
<1>3. parses' = [parses EXCEPT ![n] = r]
  BY <1>2 DEF WorkerData, SInv
<1>4. r \in Parses /\ r.worker = "loaded" /\ r.model = {parses[n].src}
  BY <1>2 DEF GoodParse, Parses, Runs
<1>5. r.kind = parses[n].kind /\ r.src = parses[n].src /\ r.peer = parses[n].peer /\ r.host = parses[n].host
  BY <1>2 DEF GoodParse, Parses
<1> HIDE DEF r
<1>6. GoodParse(r)
  BY <1>2, <1>4, <1>5 DEF GoodParse
<1>7. Placed(r, n, clients[n], store)
  BY <1>1, <1>2, <1>4, <1>5 DEF Placed, Live
<1>8. GoodStore(store') /\ KeptBy(store', store) /\ UNCHANGED <<clientRef, clients, loads, waiting>>
  BY SameStore DEF WorkerData
<1>9. Placed(r, n, clients[n], store')
  BY <1>7 DEF WorkerData
<1> QED BY <1>3, <1>6, <1>8, <1>9, ParseStep

\* The run of a parse that is done is installed.
LEMMA DoneStep ==
  ASSUME SInv, NEW n \in Loads, RunDone(n)
  PROVE  SInv'
<1>1. /\ parses[n].worker = "loaded" /\ parses[n].worker \in Live
      /\ parses[Handlers(n)].kind \in {"file", "shs"}
  BY DEF RunDone, Done, Live
<1>2. Handlers(n) = n /\ GoodParse(parses[n]) /\ Placed(parses[n], n, clients[n], store)
  BY <1>1, ItsOwn
<1>3. parses[n].model \in Runs /\ parses[n].model = {store.activeFileId}
  BY <1>1, <1>2 DEF GoodParse, Parses, Placed
<1>4. KeptBy(store', store)
  BY <1>2, <1>3, SameStore, InstalledHere DEF RunDone
<1>5. PICK a \in {"prefetch", "settled"} :
        parses' = [parses EXCEPT ![n].worker = "idle", ![n].after = a]
  BY <1>2 DEF RunDone
<1> DEFINE i == [parses[n] EXCEPT !.worker = "idle"]
           r == [i EXCEPT !.after = a]
<1>6. parses' = [parses EXCEPT ![n] = r]
  BY <1>5 DEF SInv
<1>7. Still(i, parses[n], "idle")
  BY <1>1, Idled
<1> HIDE DEF i
<1>8. Still(r, i, "idle")
  BY <1>7, AfterSet, ZenonT(60) DEF Still
<1> HIDE DEF r
<1>9. GoodParse(r) /\ Placed(r, n, clients[n], store')
  BY <1>1, <1>2, <1>7, <1>8 DEF Still, Placed, Live
<1>10. UNCHANGED <<clientRef, clients, loads, waiting>> /\ GoodStore(store')
  BY <1>4 DEF RunDone, KeptBy
<1> QED BY <1>4, <1>6, <1>9, <1>10, ParseStep

\* Analysing the model throws: its client is terminated.
LEMMA AnalysisStep ==
  ASSUME SInv, NEW n \in Loads, AnalysisThrows(n)
  PROVE  SInv'
<1>1. parses[n].worker \in Live
  BY DEF AnalysisThrows, Done, Live
<1>2. Handlers(n) = n /\ clientRef = n /\ OneLive([parses EXCEPT ![n].worker = "idle"])
  BY <1>1, ItsOwn, Idled
<1>3. GoodStore(store')
  BY SameStore, ErrorStore DEF AnalysisThrows, KeptBy
<1> QED BY <1>2, <1>3, StopStep DEF AnalysisThrows

\* The first run of a comparison is done: its snapshot is kept, and the second
\* one is parsed.
LEMMA BaselineStep ==
  ASSUME SInv, NEW n \in Loads, BaselineDone(n)
  PROVE  SInv'
<1> DEFINE p == parses[n]
<1>1. p.worker = "loaded" /\ p.worker \in Live
  BY DEF BaselineDone, Done, Live
<1>2. Handlers(n) = n /\ GoodParse(p) /\ OneLive([parses EXCEPT ![n].worker = "idle"])
  BY <1>1, ItsOwn, Idled
<1>3. p.kind = "A"
  BY <1>2 DEF BaselineDone, Done
<1>4. p.model = {p.src} /\ UseCompare /\ p.src \in Files /\ p.peer \in Files
  BY <1>1, <1>2, <1>3 DEF GoodParse
<1>5. ParseInto(Snapshot(p), [parses EXCEPT ![n].worker = "idle"], "B", p.peer, p.src) /\ waiting' = waiting
  BY <1>2 DEF BaselineDone
<1>6. GoodStore(Snapshot(p))
  <2>1. Snapshot(p) = [store EXCEPT !.sessionCache[p.src] = {p.src}]
    BY <1>4 DEF Snapshot
  <2> HIDE DEF p
  <2> QED BY <1>4, <2>1, SameStore, SnapshotStore DEF KeptBy
<1> HIDE DEF p
<1> QED BY <1>2, <1>4, <1>5, <1>6, ParseIntoStep

\* The second run is done: the comparison opens.
LEMMA CandidateStep ==
  ASSUME SInv, NEW n \in Loads, CandidateDone(n)
  PROVE  SInv'
<1> DEFINE p == parses[n]
           r == [parses[n] EXCEPT !.worker = "idle"]
           sn == Snapshot(p)
<1>1. p.worker = "loaded" /\ p.worker \in Live
  BY DEF CandidateDone, Done, Live
<1>2. Handlers(n) = n /\ GoodParse(p)
      /\ \A m \in Loads : m # n => parses[m].worker \notin Live \cup {"resolving"}
  BY <1>1, ItsOwn
<1>3. Still(r, parses[n], "idle") /\ Placed(r, n, clients[n], store')
  BY <1>1, Idled
<1>4. p.kind = "B"
  BY <1>2 DEF CandidateDone, Done
<1>5. p.model = {p.src} /\ p.src \in Files /\ p.peer \in Files
  BY <1>1, <1>2, <1>4 DEF GoodParse
<1>6. GoodStore(sn)
  <2>1. sn = [store EXCEPT !.sessionCache[p.src] = {p.src}]
    BY <1>5 DEF Snapshot
  <2> HIDE DEF p, sn
  <2> QED BY <1>5, <2>1, SameStore, SnapshotStore DEF KeptBy
<1>7. parses' = [parses EXCEPT ![n] = r]
  BY DEF CandidateDone, SInv
<1>8. store' = OpenComparison([sn EXCEPT !.compareLoad = 0, !.activeFileId = NoFile,
                                         !.compareSeed = NoFile], p.peer, p.src)
  BY <1>2 DEF CandidateDone
<1> HIDE DEF p, sn, r
<1>9. GoodStore(store')
  BY <1>5, <1>6, <1>8, OpenedStore
<1>10. GoodParse(r) /\ UNCHANGED <<clientRef, clients, loads, waiting>>
  BY <1>3 DEF Still, CandidateDone
<1> QED BY <1>2, <1>3, <1>7, <1>9, <1>10, ParseStep

\* Terminating no client changes nothing.
LEMMA NoneTerminated ==
  ASSUME NEW ps \in [Loads -> Parses], clients \in [Loads -> Clients]
  PROVE  Terminate(ps, {}) = ps /\ DropWorkers({}) = clients
<1>1. ASSUME NEW n \in Loads
      PROVE  [ps[n] EXCEPT !.worker = ps[n].worker, !.after = ps[n].after] = ps[n]
  BY DEF Parses
<1>2. Terminate(ps, {}) = ps
  BY <1>1 DEF Terminate
<1>3. DropWorkers({}) = clients
  BY DEF DropWorkers
<1> QED BY <1>2, <1>3

\* handlers.onError.
LEMMA ErrorStep ==
  ASSUME SInv, NEW n \in Loads, parses[n].worker \in Live, NEW cs \in {{}, {clientRef}},
         OnError(n, cs, store)
  PROVE  SInv'
<1> DEFINE ps == [parses EXCEPT ![n].worker = "idle"]
           r == [parses[n] EXCEPT !.worker = "idle"]
<1>1. OneLive(ps) /\ ps = [parses EXCEPT ![n] = r]
  BY Idled
<1>2. Still(r, parses[n], "idle") /\ Placed(r, n, clients[n], store')
  BY Idled
<1>3. GoodStore(store')
  BY SameStore, ErrorStore DEF OnError, Aborted, KeptBy
<1>4. PICK gone \in {{}, {clientRef}} :
        parses' = Terminate(ps, gone) /\ clients' = DropWorkers(gone)
  BY DEF OnError
<1>5. UNCHANGED <<clientRef, loads, waiting>>
  BY DEF OnError
<1>6. \A m \in Loads : m # n => parses[m].worker \notin Live \cup {"resolving"}
  BY ItsOwn
<1> HIDE DEF ps, r
<1>7. CASE gone = {}
  <2>1. parses' = [parses EXCEPT ![n] = r] /\ clients' = clients
    BY <1>1, <1>4, <1>7, NoneTerminated DEF OneLive, SInv
  <2> QED BY <1>2, <1>3, <1>5, <1>6, <2>1, ParseStep DEF Still
<1>8. CASE gone = {clientRef}
  BY <1>1, <1>3, <1>4, <1>5, <1>8, StopStep
<1> QED BY <1>4, <1>7, <1>8

\* A comparison that cannot be opened, a parse error, a crash of the worker.
LEMMA FailStep ==
  ASSUME SInv, NEW n \in Loads, CompareThrows(n) \/ ParseError(n) \/ WorkerCrash(n)
  PROVE  SInv'
<1>1. parses[n].worker \in Live
  BY Alone DEF CompareThrows, ParseError, WorkerCrash, Done, Live
<1>2. parses[n].host = clientRef
  BY <1>1, ItsOwn
<1>3. OnError(n, {}, store) \/ OnError(n, {clientRef}, store)
  BY <1>2 DEF CompareThrows, ParseError, WorkerCrash
<1> QED BY <1>1, <1>3, ErrorStep

\* A History Server failure that the intake shows in place.
LEMMA ShsStep ==
  ASSUME SInv, NEW n \in Loads, ShsError(n)
  PROVE  SInv'
<1> DEFINE r == [parses[n] EXCEPT !.worker = "idle"]
<1>1. parses[n].worker \in Live
  BY DEF ShsError, Live
<1>2. Still(r, parses[n], "idle") /\ Placed(r, n, clients[n], store')
      /\ [parses EXCEPT ![n].worker = "idle"] = [parses EXCEPT ![n] = r]
  BY <1>1, Idled
<1>3. \A m \in Loads : m # n => parses[m].worker \notin Live \cup {"resolving"}
  BY <1>1, ItsOwn
<1>4. GoodStore(store')
  BY SameStore, ResetStore DEF ShsError
<1>5. parses' = [parses EXCEPT ![n] = r] /\ UNCHANGED <<clientRef, clients, loads, waiting>>
  BY <1>2 DEF ShsError
<1> HIDE DEF r
<1> QED BY <1>2, <1>3, <1>4, <1>5, ParseStep DEF Still

\* The rest of runDone, once its prefetch is settled.
LEMMA FinishStep ==
  ASSUME SInv, NEW h \in Loads, Finish(h)
  PROVE  SInv'
<1>1. PICK a \in {"none", "settled"} : parses' = [parses EXCEPT ![h].after = a]
  BY DEF Finish, Prefetched, RecordRecent
<1> DEFINE r == [parses[h] EXCEPT !.after = a]
<1>2. GoodParse(parses[h]) /\ Placed(parses[h], h, clients[h], store)
  BY DEF SInv
<1>3. Still(r, parses[h], parses[h].worker)
  BY <1>2, AfterSet
<1>4. parses' = [parses EXCEPT ![h] = r]
  BY <1>1 DEF SInv
<1>5. UNCHANGED <<store, clientRef, clients, loads, waiting>>
  BY DEF Finish, Prefetched, RecordRecent
<1> HIDE DEF r
<1>6. Placed(r, h, clients[h], store)
  BY <1>2, <1>3 DEF Placed, Still
<1>7. GoodParse(r) /\ GoodStore(store') /\ KeptBy(store', store)
  BY <1>3, <1>5, SameStore DEF Still
<1> QED BY <1>4, <1>5, <1>6, <1>7, ParseStep

-----------------------------------------------------------------------------
(* The theorems.                                                            *)

\* The session starts with nothing loaded.
LEMMA InitHolds ==
  ASSUME Init
  PROVE  SInv
<1>1. GoodStore(store)
  BY SessionAssumption, Members DEF Init, GoodStore, Stores
<1>2. clients \in [Loads -> Clients]
  BY DEF Init, Clients
<1>3. GoodParse(NoParse) /\ NoParse.worker = "none"
  BY Members DEF NoParse, GoodParse, Parses
<1>4. parses \in [Loads -> Parses]
  BY <1>3 DEF Init, GoodParse
<1>5. \A n \in Loads : GoodParse(parses[n]) /\ Placed(parses[n], n, clients[n], store)
  BY <1>3 DEF Init, Placed, Live
<1>6. clientRef \in 0..loads /\ loads \in 0..MaxLoads
  BY SessionAssumption DEF Init, NoLoad
<1>7. waiting \subseteq Intakes
  BY DEF Init
<1> QED BY <1>1, <1>2, <1>4, <1>5, <1>6, <1>7 DEF SInv

\* Every action of the reader keeps the invariant.
LEMMA ReaderStep ==
  ASSUME SInv, Reader
  PROVE  SInv'
<1>1. CASE \E f \in Files : \/ StartLoad(f) \/ PickActive(f) \/ PickCached(f) \/ PickFile(f)
                            \/ RemoveRecent(f) \/ StartCompareSeeded(f)
                            \/ \E handle \in BOOLEAN : AskForFile(f, handle)
  <2>1. PICK f \in Files : \/ StartLoad(f) \/ PickActive(f) \/ PickCached(f) \/ PickFile(f)
                           \/ RemoveRecent(f) \/ StartCompareSeeded(f)
                           \/ \E handle \in BOOLEAN : AskForFile(f, handle)
    BY <1>1
  <2>2. f \in Sources
    BY Members
  <2>3. CASE StartLoad(f)
    BY <2>3, StartStep
  <2>4. CASE PickActive(f) \/ RemoveRecent(f)
    BY <2>4, ListStep
  <2>5. CASE PickCached(f)
    BY <2>5, PickCachedStep
  <2>6. CASE PickFile(f)
    <3>1. TRUE \in BOOLEAN
      OBVIOUS
    <3> QED BY <2>2, <2>6, <3>1, AskStep
  <2>7. CASE StartCompareSeeded(f)
    BY <2>7, CompareStep
  <2>8. CASE \E handle \in BOOLEAN : AskForFile(f, handle)
    BY <2>2, <2>8, AskStep
  <2> QED BY <2>1, <2>3, <2>4, <2>5, <2>6, <2>7, <2>8
<1>2. CASE \E a, b \in Files : StartCompareLoad(a, b)
  BY <1>2, CompareStep
<1>3. CASE AskForFile(NoFile, FALSE)
  BY <1>3, AskStep, Members
<1>4. CASE StartLoadFolder \/ StartLoadFromUrl
  BY <1>4, StartStep
<1>5. CASE CancelParse
  BY <1>5, CancelStep
<1>6. CASE Reset \/ CompareWithAnotherRun
  BY <1>6, ResetStep
<1>7. CASE DropSeed \/ BackToComparison \/ CloseComparison
  BY <1>7, ViewStep
<1>8. CASE BackToTheRun \/ DrillIn
  BY <1>8, DrillStep
<1> QED BY <1>1, <1>2, <1>3, <1>4, <1>5, <1>6, <1>7, <1>8 DEF Reader

\* Every step keeps the invariant.
LEMMA NextHolds ==
  ASSUME SInv, [Next]_vars, [Apart]_vars
  PROVE  SInv'
<1>1. CASE UNCHANGED vars
  <2>1. SInv /\ UNCHANGED <<store, clientRef, clients, parses, loads, waiting>>
    BY <1>1 DEF vars
  <2> QED BY <2>1 DEF SInv, Placed
<1>2. CASE Reader
  BY <1>2, ReaderStep
<1>3. CASE Answer
  <2>1. CASE Apart
    BY <1>3, <2>1, AnswerStep
  <2>2. CASE UNCHANGED vars
    BY <1>1, <2>2
  <2> QED BY <2>1, <2>2
<1>4. ASSUME NEW n \in Loads, Resolve(n) \/ Parse(n) \/ WorkerCrash(n) \/ Finish(n)
      PROVE  SInv'
  <2>1. CASE Resolve(n)
    BY <2>1, ResolveStep
  <2>2. CASE WorkerData(n)
    BY <2>2, DataStep
  <2>3. CASE RunDone(n)
    BY <2>3, DoneStep
  <2>4. CASE AnalysisThrows(n)
    BY <2>4, AnalysisStep
  <2>5. CASE BaselineDone(n)
    BY <2>5, BaselineStep
  <2>6. CASE CandidateDone(n)
    BY <2>6, CandidateStep
  <2>7. CASE CompareThrows(n) \/ ParseError(n) \/ WorkerCrash(n)
    BY <2>7, FailStep
  <2>8. CASE ShsError(n)
    BY <2>8, ShsStep
  <2>9. CASE Finish(n)
    BY <2>9, FinishStep
  <2> QED BY <1>4, <2>1, <2>2, <2>3, <2>4, <2>5, <2>6, <2>7, <2>8, <2>9 DEF Parse
<1> QED BY <1>1, <1>2, <1>3, <1>4 DEF Next

\* The invariant, of every state.
LEMMA SessionHolds == Spec /\ [][Apart]_vars => []SInv
<1>1. Init => SInv
  BY InitHolds
<1>2. SInv /\ [Next]_vars /\ [Apart]_vars => SInv'
  BY NextHolds
<1> QED BY <1>1, <1>2, PTL DEF Spec

\* The run on screen is of the file shown as open, whatever was loaded,
\* cancelled, restored or compared before it (useIngest.ts, runDone and
\* pickRecent), unless a load takes the client of a comparison that awaits its
\* source.
THEOREM RunCorrect == Spec /\ [][Apart]_vars => []RunIsItsFile
<1>1. SInv => RunIsItsFile
  BY DEF SInv, GoodStore, RunIsItsFile
<1> QED BY <1>1, SessionHolds, PTL

\* Every session snapshot is of the file it is kept under (useIngest.ts,
\* cacheCurrentSnapshot and snapshotParsedRun), with the same exception.
THEOREM SnapshotsCorrect == Spec /\ [][Apart]_vars => []SnapshotIsItsFile
<1>1. SInv => SnapshotIsItsFile
  BY DEF SInv, GoodStore, SnapshotIsItsFile
<1> QED BY <1>1, SessionHolds, PTL

\* One worker at most is alive, that of the client clientRef holds, so that no
\* message of an earlier load reaches the store (useIngest.ts, begin),
\* with the same exception.
THEOREM WorkersCorrect == Spec /\ [][Apart]_vars => []OneActiveWorker
<1>1. SInv => OneActiveWorker
  BY Alone DEF SInv, Placed, OneActiveWorker
<1> QED BY <1>1, SessionHolds, PTL

-----------------------------------------------------------------------------
(* What is on screen.  A single-run page has a run, a comparison both its   *)
(* snapshots, and so has one that is still parsing its second run.          *)

Held == Live \cup {"resolving"}
Started == {"resolving", "parsing", "loaded"}

\* The snapshot of a file is there, or the file is one of g, that are excused.
Cached(f, s, g) == f \in g \/ s.sessionCache[f] # {}

ScreenStore(s, g) ==
  /\ s.status = "ready" => s.run # {}
  /\ s.baseline \in Files => Cached(s.baseline, s, g) /\ Cached(s.candidate, s, g)

Peers(ps, s, g) ==
  \A n \in Loads : ps[n].kind = "B" /\ ps[n].worker \in Started => Cached(ps[n].peer, s, g)

Running(ps, n) == ps[n].kind = "shs" /\ ps[n].worker \in {"parsing", "loaded"}

\* The flag outlives its fetch only once a run is installed or an error shown.
Fetching(ps, s) ==
  s.shsParsing = TRUE => s.status \in {"ready", "error"} \/ \E n \in Loads : Running(ps, n)

Shown(g) ==
  /\ ScreenStore(store, g)
  /\ Peers(parses, store, g)
  /\ Fetching(parses, store)

\* No snapshot is lost.
Grown(t, s) == \A f \in Files : s.sessionCache[f] # {} => t.sessionCache[f] # {}

\* A store that shows what another shows, with its snapshots.
LEMMA SameScreen ==
  ASSUME NEW g, NEW s, GoodStore(s), ScreenStore(s, g), NEW t, t.run = s.run,
         t.status = "ready" => s.status = "ready",
         t.baseline = s.baseline, t.candidate = s.candidate, Grown(t, s)
  PROVE  ScreenStore(t, g)
  BY DEF GoodStore, ScreenStore, Cached, Grown

\* A store that shows no run and no comparison.
LEMMA EmptyScreen ==
  ASSUME NEW g, NEW s, NEW t, Emptied(t, s), t.status # "ready"
  PROVE  ScreenStore(t, g) /\ Grown(t, s)
  BY SessionAssumption DEF Emptied, ScreenStore, Grown

\* cacheCurrentSnapshot changes the snapshots alone, and loses none.
LEMMA CachedScreen ==
  ASSUME NEW g, NEW s, GoodStore(s), ScreenStore(s, g)
  PROVE  LET t == CacheCurrentSnapshot(s) IN
         /\ ScreenStore(t, g) /\ Grown(t, s)
         /\ t.status = s.status /\ t.shsParsing = s.shsParsing
<1> DEFINE t == CacheCurrentSnapshot(s)
<1>1. CASE s.activeFileId # NoFile /\ s.run # {}
  <2>1. t = [s EXCEPT !.sessionCache[s.activeFileId] = s.run]
    BY <1>1 DEF CacheCurrentSnapshot
  <2>2. /\ t.run = s.run /\ t.status = s.status /\ t.shsParsing = s.shsParsing
        /\ t.baseline = s.baseline /\ t.candidate = s.candidate
    BY <2>1 DEF GoodStore, Stores
  <2>3. Grown(t, s)
    BY <1>1, <2>1 DEF GoodStore, Stores, Grown
  <2> HIDE DEF t
  <2>4. ScreenStore(t, g)
    BY <2>2, <2>3, SameScreen
  <2> QED BY <2>2, <2>3, <2>4 DEF t
<1>2. CASE ~(s.activeFileId # NoFile /\ s.run # {})
  BY <1>2 DEF CacheCurrentSnapshot, Grown
<1> QED BY <1>1, <1>2

\* The worker that is held is of the load that clientRef names.
LEMMA HeldNext ==
  ASSUME SInv'
  PROVE  \A m \in Loads : parses'[m].worker \in Held => m = clientRef'
  BY DEF SInv, Placed, Held

\* A step that leaves no worker held.
LEMMA NoneHeld ==
  ASSUME NEW g, \A m \in Loads : parses'[m].worker \notin Held, ScreenStore(store', g),
         store'.shsParsing = FALSE \/ store'.status \in {"ready", "error"}
  PROVE  Shown(g)'
<1>1. Peers(parses', store', g)
  BY DEF Peers, Held, Live, Started
<1>2. Fetching(parses', store')
  BY DEF Fetching
<1> QED BY <1>1, <1>2 DEF Shown

\* A step that starts no worker and keeps the parses that are started as they are.
Fewer(qs, ps) ==
  \A m \in Loads :
    /\ qs[m].worker \in Held => ps[m].worker \in Held /\ qs[m].kind = ps[m].kind
    /\ qs[m].worker \in Started => ps[m].worker \in Started /\ qs[m].peer = ps[m].peer

\* In such a step, with the flag cleared, its run installed, an error shown or
\* its fetch still running, the screen stays true.
LEMMA FewerStep ==
  ASSUME NEW g, SInv, Shown(g), Fewer(parses', parses), ScreenStore(store', g),
         Grown(store', store),
         \/ store'.shsParsing = FALSE
         \/ store'.status \in {"ready", "error"}
         \/ /\ store'.shsParsing = store.shsParsing /\ store'.status = store.status
            /\ \A m \in Loads : Running(parses, m) => Running(parses', m)
  PROVE  Shown(g)'
<1>1. Peers(parses', store', g)
  <2> SUFFICES ASSUME NEW n \in Loads, parses'[n].kind = "B", parses'[n].worker \in Started
               PROVE  Cached(parses'[n].peer, store', g)
    BY DEF Peers
  <2>1. parses'[n].worker \in Held \/ parses'[n].worker = "resolving"
    BY DEF Started, Held, Live
  <2>2. parses[n].kind = "B" /\ parses[n].worker \in Started /\ parses'[n].peer = parses[n].peer
    BY <2>1 DEF Fewer, Held
  <2>3. Cached(parses[n].peer, store, g) /\ parses[n].peer \in Files
    BY <2>2 DEF Shown, Peers, SInv, GoodParse
  <2> QED BY <2>2, <2>3 DEF Grown, Cached
<1>2. Fetching(parses', store')
  BY DEF Shown, Fetching
<1> QED BY <1>1, <1>2 DEF Shown

\* Only the store changes, and the flag does not, nor the status but to an error.
LEMMA ViewShows ==
  ASSUME NEW g, SInv, Shown(g), parses' = parses, ScreenStore(store', g),
         Grown(store', store), store'.shsParsing = store.shsParsing,
         store'.status \in {store.status, "error"}
  PROVE  Shown(g)'
<1>1. Fewer(parses', parses)
  BY DEF Fewer
<1> QED BY <1>1, FewerStep

\* A single-run load starts: its worker is the one that is held.
LEMMA BeginShows ==
  ASSUME NEW g, SInv, SInv', NEW s, GoodStore(s), NEW kind \in {"file", "shs"}, NEW f \in Sources,
         NEW handle, Begin(s, kind, f, handle)
  PROVE  Shown(g)'
<1> DEFINE n == loads + 1
           r == [NoParse EXCEPT !.kind = kind, !.src = f, !.worker = "parsing", !.host = n]
           q == Terminate(parses, {clientRef})
           e == ResetModel(s)
<1>1. n \in Loads /\ clientRef' = n
  BY SessionAssumption DEF Begin, Loads, SInv
<1>2. r.worker = "parsing" /\ r.kind = kind
  BY DEF NoParse
<1>3. parses' = [q EXCEPT ![n] = r] /\ q = [m \in Loads |-> q[m]]
  BY DEF Begin, Terminate
<1>4. store' = [e EXCEPT !.status = "parsing", !.activeFileId = f, !.shsParsing = (kind = "shs")]
  BY DEF Begin
<1>5. e \in Stores /\ Emptied(e, s)
  BY ResetFields DEF GoodStore, Emptied
<1> HIDE DEF n, r, q, e
<1>6. parses'[n] = r
  BY <1>1, <1>3
<1>7. Emptied(store', s) /\ store'.status = "parsing" /\ store'.shsParsing = (kind = "shs")
  BY <1>4, <1>5 DEF Emptied, Stores
<1>8. ScreenStore(store', g)
  BY <1>7, EmptyScreen
<1>9. \A m \in Loads : parses'[m].worker \in Held => m = n
  BY <1>1, HeldNext
<1>10. Peers(parses', store', g)
  BY <1>2, <1>6, <1>9 DEF Peers, Started, Held, Live
<1>11. Fetching(parses', store')
  BY <1>1, <1>2, <1>6, <1>7 DEF Fetching, Running
<1> QED BY <1>8, <1>10, <1>11 DEF Shown

\* A parse of a comparison starts: of the second run once the first is cached.
LEMMA ParseIntoShows ==
  ASSUME NEW g, SInv, SInv', NEW s, GoodStore(s), NEW ps, NEW kind \in {"A", "B"}, NEW f, NEW e \in Files,
         ParseInto(s, ps, kind, f, e), kind = "B" => Cached(e, s, g)
  PROVE  Shown(g)'
<1> DEFINE n == loads + 1
           r == [NoParse EXCEPT !.kind = kind, !.src = f, !.peer = e, !.worker = "resolving"]
           q == Terminate(ps, {clientRef})
           d == ResetModel(s)
<1>1. n \in Loads /\ clientRef' = n
  BY SessionAssumption DEF ParseInto, Loads, SInv
<1>2. r.worker = "resolving" /\ r.kind = kind /\ r.peer = e
  BY DEF NoParse
<1>3. parses' = [q EXCEPT ![n] = r] /\ q = [m \in Loads |-> q[m]]
  BY DEF ParseInto, Terminate
<1>4. store' = [d EXCEPT !.activeFileId = f, !.compareLoad = IF kind = "A" THEN 1 ELSE 2]
  BY DEF ParseInto
<1>5. d \in Stores /\ Emptied(d, s)
  BY ResetFields DEF GoodStore, Emptied
<1>6. d.status = "idle" /\ d.shsParsing = FALSE
  BY DEF GoodStore, ResetModel, Stores
<1> HIDE DEF n, r, q, d
<1>7. parses'[n] = r
  BY <1>1, <1>3
<1>8. /\ store'.run = d.run /\ store'.sessionCache = d.sessionCache
      /\ store'.baseline = d.baseline /\ store'.status = "idle" /\ store'.shsParsing = FALSE
  BY <1>4, <1>5, <1>6 DEF Stores
<1>9. ScreenStore(store', g) /\ store'.sessionCache = s.sessionCache
  BY <1>5, <1>8, SessionAssumption DEF Emptied, ScreenStore
<1>10. \A m \in Loads : parses'[m].worker \in Held => m = n
  BY <1>1, HeldNext
<1>11. Peers(parses', store', g)
  BY <1>2, <1>7, <1>9, <1>10 DEF Peers, Cached, Started, Held, Live
<1>12. Fetching(parses', store')
  BY <1>8 DEF Fetching
<1> QED BY <1>9, <1>11, <1>12 DEF Shown

\* The clients are gone, and nothing is left that runs for the page.
LEMMA StopsHeld ==
  ASSUME SInv', clients \in [Loads -> Clients], store'.compareLoad = 0,
         \/ clientRef' = NoLoad
         \/ clients' = DropWorkers({clientRef}) /\ clientRef' = clientRef
  PROVE  \A m \in Loads : parses'[m].worker \notin Held
<1> SUFFICES ASSUME NEW m \in Loads, parses'[m].worker \in Held
             PROVE  FALSE
  OBVIOUS
<1>1. m = clientRef'
  BY HeldNext
<1>2. clientRef' # NoLoad
  BY <1>1 DEF Loads, NoLoad
<1>3. clients'[m].worker = NoLoad
  BY <1>1, <1>2 DEF DropWorkers, Clients
<1>4. m # NoLoad
  BY DEF Loads, NoLoad
<1>5. parses'[m].worker \in Live => clients'[m].worker = m
  BY DEF SInv, Placed
<1>6. parses'[m].worker = "resolving" => store'.compareLoad # 0
  BY DEF SInv, Placed
<1> QED BY <1>3, <1>4, <1>5, <1>6 DEF Held

\* A snapshot is put on screen; the clients are gone.
LEMMA RestoreShows ==
  ASSUME NEW g, SInv, SInv', NEW s, GoodStore(s), ScreenStore(s, g), s.compareLoad = 0, NEW f \in Files,
         s.sessionCache[f] # {}, Restore(s, f)
  PROVE  Shown(g)'
<1> DEFINE t == [s EXCEPT !.activeFileId = f]
<1>1. store' = InstallRun(t, s.sessionCache[f]) /\ clientRef' = NoLoad
  BY DEF Restore
<1>2. /\ t \in Stores /\ t.baseline = s.baseline /\ t.candidate = s.candidate
      /\ t.sessionCache = s.sessionCache /\ t.compareLoad = s.compareLoad
  BY DEF GoodStore, Stores, Sources
<1> HIDE DEF t
<1>3. /\ store'.run = s.sessionCache[f] /\ store'.status = "ready"
      /\ store'.baseline = s.baseline /\ store'.candidate = s.candidate
      /\ store'.sessionCache = s.sessionCache /\ store'.compareLoad = 0
  BY <1>1, <1>2 DEF InstallRun, Stores
<1>4. ScreenStore(store', g)
  BY <1>3 DEF ScreenStore, Cached
<1>5. \A m \in Loads : parses'[m].worker \notin Held
  BY <1>1, <1>3, StopsHeld DEF SInv
<1> QED BY <1>3, <1>4, <1>5, NoneHeld

\* The reader picks a cached file, or goes back to one run.
LEMMA RestoredShows ==
  ASSUME NEW g, SInv, SInv', Shown(g),
         BackToTheRun \/ DrillIn \/ (\E f \in Files : PickCached(f))
  PROVE  Shown(g)'
<1>1. GoodStore(store) /\ ScreenStore(store, g) /\ store.compareLoad = 0
  BY SameStore, ScreenLoads DEF Shown, BackToTheRun, DrillIn, PickCached, PickFrom
<1>2. ASSUME NEW s, GoodStore(s), ScreenStore(s, g), s.compareLoad = 0, NEW f \in Files, DrillIntoRun(s, f)
      PROVE  Shown(g)'
  <2> DEFINE t == [s EXCEPT !.active = FALSE]
  <2>1. KeptBy(t, s) /\ s.sessionCache[f] # {} /\ Restore(t, f)
    BY <1>2, ViewStore, Members DEF DrillIntoRun
  <2>2. /\ t.run = s.run /\ t.status = s.status /\ t.baseline = s.baseline
        /\ t.candidate = s.candidate /\ t.sessionCache = s.sessionCache
    BY <1>2 DEF GoodStore, Stores
  <2> HIDE DEF t
  <2>3. ScreenStore(t, g)
    BY <1>2, <2>2, SameScreen DEF Grown
  <2> QED BY <1>2, <2>1, <2>2, <2>3, RestoreShows DEF KeptBy
<1>3. CASE BackToTheRun
  <2> DEFINE s == [store EXCEPT !.compareSeed = NoFile]
  <2>1. KeptBy(s, store) /\ store.compareSeed \in Files /\ DrillIntoRun(s, store.compareSeed)
    BY <1>3, <1>1, ViewStore, Members DEF BackToTheRun, GoodStore, Stores, Sources
  <2>2. /\ s.run = store.run /\ s.status = store.status /\ s.baseline = store.baseline
        /\ s.candidate = store.candidate /\ s.sessionCache = store.sessionCache
    BY <1>1 DEF GoodStore, Stores
  <2> HIDE DEF s
  <2>3. ScreenStore(s, g)
    BY <1>1, <2>2, SameScreen DEF Grown
  <2> QED BY <1>1, <1>2, <2>1, <2>3 DEF KeptBy
<1>4. CASE DrillIn
  <2>1. store.baseline \in Files /\ store.candidate \in Files
    BY <1>1, <1>4 DEF DrillIn, Comparison, GoodStore, Stores
  <2>2. PICK f \in {store.baseline, store.candidate} : DrillIntoRun(store, f)
    BY <1>4 DEF DrillIn
  <2> QED BY <1>1, <1>2, <2>1, <2>2
<1>5. CASE \E f \in Files : PickCached(f)
  <2> DEFINE s == CacheCurrentSnapshot(store)
  <2>1. PICK f \in Files : store.sessionCache[f] # {} /\ Restore(s, f)
    BY <1>5 DEF PickCached
  <2>2. KeptBy(s, store) /\ ScreenStore(s, g) /\ Grown(s, store)
    BY <1>1, CachedStore, CachedScreen
  <2> HIDE DEF s
  <2> QED BY <1>1, <2>1, <2>2, RestoreShows DEF KeptBy, Grown
<1> QED BY <1>3, <1>4, <1>5

\* The page is cleared, by cancelling the parse or by leaving the dashboard.
LEMMA ClearedShows ==
  ASSUME NEW g, SInv, SInv', Shown(g), CancelParse \/ Reset \/ CompareWithAnotherRun
  PROVE  Shown(g)'
<1>1. ASSUME NEW s, GoodStore(s), NEW t, t = ResetModel(s)
      PROVE  /\ Emptied(t, s) /\ t.status = "idle" /\ t.shsParsing = FALSE
             /\ t.compareLoad = 0 /\ t \in Stores
  BY <1>1, ResetFields DEF GoodStore, ResetModel, Stores, Emptied
<1>2. PICK s : GoodStore(s) /\ \/ store' = [ResetModel(s) EXCEPT !.activeFileId = NoFile]
                               \/ \E seed \in Sources : store' = [ResetModel(s) EXCEPT !.compareSeed = seed]
  <2>1. GoodStore(store) /\ GoodStore(CacheCurrentSnapshot(store))
    BY SameStore, CachedStore DEF KeptBy
  <2> QED BY <2>1, Members DEF CancelParse, Reset, CompareWithAnotherRun, ResetToDropZone, GoodStore, Stores
<1> DEFINE t == ResetModel(s)
<1>3. /\ Emptied(t, s) /\ t.status = "idle" /\ t.shsParsing = FALSE
      /\ t.compareLoad = 0 /\ t \in Stores
  BY <1>1, <1>2
<1>4. \/ store' = [t EXCEPT !.activeFileId = NoFile]
      \/ \E seed \in Sources : store' = [t EXCEPT !.compareSeed = seed]
  BY <1>2
<1> HIDE DEF t
<1>5. /\ store'.run = t.run /\ store'.status = "idle" /\ store'.shsParsing = FALSE
      /\ store'.baseline = t.baseline /\ store'.compareLoad = 0
  BY <1>3, <1>4 DEF Stores
<1>6. ScreenStore(store', g)
  BY <1>3, <1>5, SessionAssumption DEF ScreenStore, Emptied
<1>7. \/ clientRef' = NoLoad
      \/ clients' = DropWorkers({clientRef}) /\ clientRef' = clientRef
  BY DEF CancelParse, Reset, CompareWithAnotherRun, ResetToDropZone
<1>8. \A m \in Loads : parses'[m].worker \notin Held
  BY <1>5, <1>7, StopsHeld DEF SInv
<1> QED BY <1>5, <1>6, <1>8, NoneHeld

\* Reader's actions that start nothing, and touch the view alone.
LEMMA QuietShows ==
  ASSUME NEW g, SInv, Shown(g),
         \/ DropSeed \/ BackToComparison \/ CloseComparison
         \/ \E f \in Files : PickActive(f) \/ RemoveRecent(f) \/ PickFile(f)
         \/ \E f \in Sources, handle \in BOOLEAN : AskForFile(f, handle)
         \/ \E w \in waiting : Dismissed(w)
  PROVE  Shown(g)'
<1>1. GoodStore(store) /\ ScreenStore(store, g)
  BY SameStore DEF Shown
<1>2. parses' = parses
  BY DEF DropSeed, BackToComparison, CloseComparison, PickActive, RemoveRecent, PickFile,
         AskForFile, Dismissed
<1>3. CASE store' = store
  BY <1>1, <1>2, <1>3, ViewShows DEF Grown
<1>4. CASE DropSeed \/ BackToComparison
  <2>1. /\ store'.run = store.run /\ store'.status = store.status
        /\ store'.baseline = store.baseline /\ store'.candidate = store.candidate
        /\ store'.sessionCache = store.sessionCache /\ store'.shsParsing = store.shsParsing
    BY <1>1, <1>4 DEF DropSeed, BackToComparison, GoodStore, Stores
  <2>2. ScreenStore(store', g) /\ Grown(store', store)
    BY <1>1, <2>1, SameScreen DEF Grown
  <2> QED BY <1>2, <2>1, <2>2, ViewShows
<1>5. CASE CloseComparison
  <2>1. /\ store'.run = store.run /\ store'.status = store.status
        /\ store'.baseline = NoFile
        /\ store'.sessionCache = store.sessionCache /\ store'.shsParsing = store.shsParsing
    BY <1>1, <1>5 DEF CloseComparison, GoodStore, Stores
  <2>2. ScreenStore(store', g) /\ Grown(store', store)
    BY <1>1, <2>1, SessionAssumption DEF ScreenStore, Grown
  <2> QED BY <1>2, <2>1, <2>2, ViewShows
<1> QED BY <1>3, <1>4, <1>5 DEF PickActive, RemoveRecent, PickFile, AskForFile, Dismissed

\* setError keeps what is shown, its flag apart.
LEMMA ErrorScreen ==
  ASSUME NEW g, NEW s, GoodStore(s), ScreenStore(s, g), NEW t,
         \/ t = SetError(s) \/ t = SetError([s EXCEPT !.shsParsing = FALSE])
         \/ t = SetError([s EXCEPT !.compareLoad = 0, !.active = FALSE])
  PROVE  /\ ScreenStore(t, g) /\ Grown(t, s) /\ t.status = "error"
         /\ t = SetError([s EXCEPT !.shsParsing = FALSE]) => t.shsParsing = FALSE
         /\ t.shsParsing = s.shsParsing \/ t.shsParsing = FALSE
         /\ t = SetError([s EXCEPT !.compareLoad = 0, !.active = FALSE]) => t.compareLoad = 0
<1>1. /\ t.run = s.run /\ t.status = "error" /\ t.baseline = s.baseline
      /\ t.candidate = s.candidate /\ t.sessionCache = s.sessionCache
      /\ t.shsParsing = s.shsParsing \/ t.shsParsing = FALSE
  BY ZenonT(60) DEF GoodStore, Stores, SetError
<1>2. t = SetError([s EXCEPT !.shsParsing = FALSE]) => t.shsParsing = FALSE
  BY DEF GoodStore, Stores, SetError
<1>3. t = SetError([s EXCEPT !.compareLoad = 0, !.active = FALSE]) => t.compareLoad = 0
  <2>1. [s EXCEPT !.compareLoad = 0, !.active = FALSE].compareLoad = 0
    BY DEF GoodStore, Stores
  <2> QED BY <2>1 DEF GoodStore, Stores, SetError
<1>4. ScreenStore(t, g) /\ Grown(t, s)
  BY <1>1, SameScreen DEF Grown
<1> QED BY <1>1, <1>2, <1>3, <1>4

\* The reader starts a comparison.
LEMMA CompareShows ==
  ASSUME NEW g, SInv, SInv', Shown(g), NEW a \in Files, NEW b \in Files,
         StartCompareLoad(a, b) \/ StartCompareSeeded(b)
  PROVE  Shown(g)'
<1>1. GoodStore(store) /\ ScreenStore(store, g)
  BY SameStore DEF Shown
<1>2. CASE StartCompareLoad(a, b)
  <2>1. ParseInto(store, parses, "A", a, b)
    BY <1>2 DEF StartCompareLoad
  <2> QED BY <1>1, <2>1, ParseIntoShows
<1>3. CASE StartCompareSeeded(b)
  <2>1. CASE store.sessionCache[store.compareSeed] # {}
    <3>1. ParseInto(store, parses, "B", b, store.compareSeed)
      BY <1>3, <2>1 DEF StartCompareSeeded
    <3>2. store.compareSeed \in Files
      BY <1>1, <1>3 DEF StartCompareSeeded, GoodStore, Stores, Sources
    <3>3. Cached(store.compareSeed, store, g)
      BY <2>1 DEF Cached
    <3> QED BY <1>1, <3>1, <3>2, <3>3, ParseIntoShows
  <2>2. CASE store.sessionCache[store.compareSeed] = {}
    <3>1. store' = SetError(store) /\ parses' = parses
      BY <1>3, <2>2 DEF StartCompareSeeded
    <3>2. /\ ScreenStore(store', g) /\ Grown(store', store)
          /\ store'.shsParsing = store.shsParsing /\ store'.status = "error"
      BY <1>1, <3>1, ErrorScreen DEF SetError, GoodStore, Stores
    <3> QED BY <3>1, <3>2, ViewShows
  <2> QED BY <2>1, <2>2
<1> QED BY <1>2, <1>3

\* The browser answers, and no file is gone.
LEMMA AnswerShows ==
  ASSUME NEW g, SInv, SInv', Shown(g), NEW w \in waiting,
         Granted(w) \/ Unreadable(w) \/ Dismissed(w)
  PROVE  Shown(g)'
<1>1. GoodStore(store) /\ ScreenStore(store, g) /\ GoodStore(CacheCurrentSnapshot(store))
  BY SameStore, CachedStore DEF Shown, KeptBy
<1>2. CASE Granted(w)
  <2>1. PICK s, h : GoodStore(s) /\ Begin(s, "file", w.file, h)
    BY <1>1, <1>2 DEF Granted
  <2>2. w.file \in Sources
    BY DEF SInv, Intakes
  <2> QED BY <2>1, <2>2, BeginShows
<1>3. CASE Dismissed(w)
  BY <1>3, QuietShows
<1>4. CASE Unreadable(w)
  <2>1. parses' = parses /\ (store' = store \/ store' = SetError(store))
    BY <1>4 DEF Unreadable
  <2>2. CASE store' = store
    BY <1>1, <2>1, <2>2, ViewShows DEF Grown
  <2>3. CASE store' = SetError(store)
    <3>1. /\ ScreenStore(store', g) /\ Grown(store', store) /\ store'.status = "error"
          /\ store'.shsParsing = store.shsParsing
      BY <1>1, <2>3, ErrorScreen DEF SetError, GoodStore, Stores
    <3> QED BY <2>1, <3>1, ViewShows
  <2> QED BY <2>1, <2>2, <2>3
<1> QED BY <1>2, <1>3, <1>4

\* A picked file is gone: it is excused from here on.
LEMMA GoneShows ==
  ASSUME NEW g, SInv, Shown(g), NEW w \in waiting, PickedFileGone(w),
         NEW h, g \subseteq h, w.file \in Files => w.file \in h
  PROVE  Shown(h)'
<1>1. parses' = parses /\ store' = [store EXCEPT !.sessionCache[w.file] = {}]
  BY DEF PickedFileGone
<1>2. /\ store'.run = store.run /\ store'.status = store.status
      /\ store'.baseline = store.baseline /\ store'.candidate = store.candidate
      /\ store'.shsParsing = store.shsParsing
  BY <1>1, SameStore DEF GoodStore, Stores
<1>3. ASSUME NEW f \in Files, Cached(f, store, g) PROVE Cached(f, store', h)
  <2>1. CASE f = w.file
    BY <2>1 DEF Cached
  <2>2. CASE f # w.file
    <3>1. store'.sessionCache[f] = store.sessionCache[f]
      BY <1>1, <2>2, SameStore DEF GoodStore, Stores
    <3> QED BY <1>3, <3>1 DEF Cached
  <2> QED BY <2>1, <2>2
<1>4. ScreenStore(store', h)
  BY <1>2, <1>3, SameStore DEF Shown, ScreenStore, GoodStore
<1>5. Peers(parses', store', h)
  BY <1>1, <1>3 DEF Shown, Peers, SInv, GoodParse
<1>6. Fetching(parses', store')
  BY <1>1, <1>2 DEF Shown, Fetching
<1> QED BY <1>4, <1>5, <1>6 DEF Shown

\* The worker that is held, alone, changes.
LEMMA FewerBut ==
  ASSUME SInv, NEW n \in Loads, NEW r, parses' = [parses EXCEPT ![n] = r],
         r.worker \in Held => parses[n].worker \in Held /\ r.kind = parses[n].kind,
         r.worker \in Started => parses[n].worker \in Started /\ r.peer = parses[n].peer
  PROVE  /\ Fewer(parses', parses)
         /\ (Running(parses, n) => r.worker \in {"parsing", "loaded"} /\ r.kind = parses[n].kind)
              => \A m \in Loads : Running(parses, m) => Running(parses', m)
<1>1. \A m \in Loads : parses'[m] = IF m = n THEN r ELSE parses[m]
  BY DEF SInv
<1> QED BY <1>1 DEF Fewer, Running

\* The source of a comparison's run is readable, or it is not.
LEMMA ResolveShows ==
  ASSUME NEW g, SInv, SInv', Shown(g), NEW n \in Loads, Resolve(n)
  PROVE  Shown(g)'
<1>1. GoodStore(store) /\ ScreenStore(store, g)
  BY SameStore DEF Shown
<1>2. parses[n].worker = "resolving" /\ clientRef = n /\ parses[n].kind \in {"A", "B"}
  BY Alone DEF Resolve, Resolved, Unresolved, SInv, Placed
<1>3. CASE Resolved(n)
  <2> DEFINE r == [parses[n] EXCEPT !.worker = "parsing", !.host = n]
  <2>1. parses' = [parses EXCEPT ![n] = r] /\ store' = store
    BY <1>2, <1>3 DEF Resolved, SInv
  <2>2. r.kind = parses[n].kind /\ r.peer = parses[n].peer /\ r.worker = "parsing"
    BY DEF SInv, Parses
  <2> HIDE DEF r
  <2>3. Fewer(parses', parses) /\ \A m \in Loads : Running(parses, m) => Running(parses', m)
    BY <1>2, <2>1, <2>2, FewerBut DEF Held, Started, Running
  <2> QED BY <1>1, <2>1, <2>3, FewerStep DEF Grown
<1>4. CASE Unresolved(n)
  <2>1. store' = SetError([store EXCEPT !.compareLoad = 0, !.active = FALSE])
        /\ clients' = DropWorkers({clientRef}) /\ clientRef' = clientRef
    BY <1>4 DEF Unresolved, Aborted
  <2>2. ScreenStore(store', g) /\ store'.compareLoad = 0
        /\ store'.status = "error"
    BY <1>1, <2>1, ErrorScreen
  <2>3. \A m \in Loads : parses'[m].worker \notin Held
    BY <2>1, <2>2, StopsHeld DEF SInv
  <2> QED BY <2>2, <2>3, NoneHeld
<1> QED BY <1>3, <1>4 DEF Resolve

\* The parser's messages change the model alone.
LEMMA DataShows ==
  ASSUME NEW g, SInv, Shown(g), NEW n \in Loads, WorkerData(n)
  PROVE  Shown(g)'
<1> DEFINE r == [parses[n] EXCEPT !.worker = "loaded", !.model = @ \cup {parses[n].src}]
<1>1. parses[n].worker = "parsing" /\ Handlers(n) = n /\ store' = store
  BY ItsOwn DEF WorkerData, Live
<1>2. parses' = [parses EXCEPT ![n] = r]
  BY <1>1 DEF WorkerData, SInv
<1>3. r.kind = parses[n].kind /\ r.peer = parses[n].peer /\ r.worker = "loaded"
  BY DEF SInv, Parses
<1> HIDE DEF r
<1>4. Fewer(parses', parses) /\ \A m \in Loads : Running(parses, m) => Running(parses', m)
  BY <1>1, <1>2, <1>3, FewerBut DEF Held, Live, Started
<1>5. ScreenStore(store', g) /\ Grown(store', store)
  BY <1>1 DEF Shown, Grown
<1> QED BY <1>1, <1>4, <1>5, FewerStep

\* The rest of runDone changes neither worker nor store.
LEMMA FinishShows ==
  ASSUME NEW g, SInv, Shown(g), NEW h \in Loads, Finish(h)
  PROVE  Shown(g)'
<1>1. PICK a : parses' = [parses EXCEPT ![h].after = a] /\ store' = store
  BY DEF Finish, Prefetched, RecordRecent
<1> DEFINE r == [parses[h] EXCEPT !.after = a]
<1>2. parses' = [parses EXCEPT ![h] = r]
  BY <1>1 DEF SInv
<1>3. r.kind = parses[h].kind /\ r.peer = parses[h].peer /\ r.worker = parses[h].worker
  BY DEF SInv, Parses
<1> HIDE DEF r
<1>4. Fewer(parses', parses) /\ \A m \in Loads : Running(parses, m) => Running(parses', m)
  BY <1>2, <1>3, FewerBut DEF Running
<1>5. ScreenStore(store', g) /\ Grown(store', store)
  BY <1>1 DEF Shown, Grown
<1> QED BY <1>1, <1>4, <1>5, FewerStep

\* The worker that is held gets idle: no parse is started but its own.
LEMMA IdleShows ==
  ASSUME SInv, NEW n \in Loads, parses[n].worker \in Live, NEW a \in {"none", "prefetch", "settled"},
         \/ parses' = [parses EXCEPT ![n].worker = "idle"]
         \/ parses' = [parses EXCEPT ![n].worker = "idle", ![n].after = a]
  PROVE  Fewer(parses', parses)
<1> DEFINE i == [parses[n] EXCEPT !.worker = "idle"]
           j == [i EXCEPT !.after = a]
<1>1. PICK r \in {i, j} : parses' = [parses EXCEPT ![n] = r]
  BY DEF SInv
<1>2. i \in Parses /\ i.kind = parses[n].kind /\ i.worker = "idle"
  BY DEF SInv, Parses
<1> HIDE DEF i
<1>3. j.kind = i.kind /\ j.worker = i.worker
  BY <1>2 DEF Parses
<1> HIDE DEF j
<1>4. r.kind = parses[n].kind /\ r.worker = "idle"
  BY <1>1, <1>2, <1>3
<1>5. Fewer(parses', parses)
  BY <1>1, <1>4, FewerBut DEF Held, Started
<1> QED BY <1>5

\* A parse is done: its run, of its own source, is on screen.
LEMMA DoneShows ==
  ASSUME NEW g, SInv, Shown(g), NEW n \in Loads, RunDone(n)
  PROVE  Shown(g)'
<1>1. /\ parses[n].worker = "loaded" /\ parses[n].worker \in Live
  BY DEF RunDone, Done, Live
<1>2. Handlers(n) = n /\ GoodParse(parses[n]) /\ GoodStore(store) /\ ScreenStore(store, g)
  BY <1>1, ItsOwn, SameStore DEF Shown
<1>3. parses[n].model = {parses[n].src} /\ store' = InstallRun(store, parses[n].model)
  BY <1>1, <1>2 DEF RunDone, GoodParse
<1>4. /\ store'.run # {} /\ store'.status = "ready" /\ store'.baseline = store.baseline
      /\ store'.candidate = store.candidate /\ store'.sessionCache = store.sessionCache
      /\ store'.shsParsing = store.shsParsing
  BY <1>2, <1>3 DEF GoodStore, Stores, InstallRun
<1>5. ScreenStore(store', g) /\ Grown(store', store)
  BY <1>2, <1>4 DEF ScreenStore, Cached, Grown
<1>6. PICK a \in {"prefetch", "settled"} :
        parses' = [parses EXCEPT ![n].worker = "idle", ![n].after = a]
  BY <1>2 DEF RunDone
<1>7. Fewer(parses', parses)
  BY <1>1, <1>6, IdleShows
<1> QED BY <1>4, <1>5, <1>7, FewerStep

\* Analysing the model throws: the flag is cleared, the client terminated.
LEMMA AnalysisShows ==
  ASSUME NEW g, SInv, Shown(g), NEW n \in Loads, AnalysisThrows(n)
  PROVE  Shown(g)'
<1>1. parses[n].worker \in Live
  BY DEF AnalysisThrows, Done, Live
<1>2. Handlers(n) = n /\ clientRef = n /\ OneLive([parses EXCEPT ![n].worker = "idle"])
  BY <1>1, ItsOwn, Idled
<1>3. Quiet(parses')
  BY <1>2, Terminated DEF AnalysisThrows
<1>4. ScreenStore(store', g) /\ store'.shsParsing = FALSE
  BY SameStore, ErrorScreen DEF AnalysisThrows, Shown
<1>5. \A m \in Loads : parses'[m].worker \notin Held
  BY <1>3 DEF Quiet, Held
<1> QED BY <1>4, <1>5, NoneHeld

\* snapshotParsedRun, of a finished parse of a comparison.
LEMMA SnapshotScreen ==
  ASSUME NEW g, SInv, Shown(g), NEW n \in Loads, parses[n].worker = "loaded",
         parses[n].kind \in {"A", "B"}
  PROVE  LET t == Snapshot(parses[n]) IN
         /\ GoodStore(t) /\ ScreenStore(t, g) /\ Grown(t, store)
         /\ t.sessionCache[parses[n].src] # {}
         /\ t.shsParsing = store.shsParsing /\ t.status = store.status
<1> DEFINE p == parses[n]
           t == Snapshot(p)
<1>1. GoodStore(store) /\ ScreenStore(store, g) /\ GoodParse(p)
  BY SameStore DEF Shown, SInv
<1>2. p.model = {p.src} /\ p.src \in Files
  BY <1>1 DEF GoodParse
<1>3. t = [store EXCEPT !.sessionCache[p.src] = {p.src}]
  BY <1>2 DEF Snapshot
<1> HIDE DEF p, t
<1>4. KeptBy(t, store)
  BY <1>1, <1>2, <1>3, SnapshotStore
<1>5. /\ t.run = store.run /\ t.status = store.status /\ t.shsParsing = store.shsParsing
      /\ t.baseline = store.baseline /\ t.candidate = store.candidate
  BY <1>1, <1>3 DEF GoodStore, Stores
<1>6. Grown(t, store) /\ t.sessionCache[p.src] # {}
  BY <1>1, <1>2, <1>3 DEF GoodStore, Stores, Grown
<1>7. ScreenStore(t, g)
  BY <1>1, <1>5, <1>6, SameScreen
<1> QED BY <1>4, <1>5, <1>6, <1>7 DEF KeptBy, p, t

\* The first run of a comparison is done, and cached before the second starts.
LEMMA BaselineShows ==
  ASSUME NEW g, SInv, SInv', Shown(g), NEW n \in Loads, BaselineDone(n)
  PROVE  Shown(g)'
<1>1. parses[n].worker = "loaded" /\ parses[n].worker \in Live
  BY DEF BaselineDone, Done, Live
<1>2. Handlers(n) = n /\ GoodParse(parses[n])
  BY <1>1, ItsOwn
<1>3. parses[n].kind = "A"
  BY <1>2 DEF BaselineDone, Done
<1>4. parses[n].src \in Files
  BY <1>2, <1>3 DEF GoodParse
<1>5. /\ GoodStore(Snapshot(parses[n]))
      /\ Snapshot(parses[n]).sessionCache[parses[n].src] # {}
  BY <1>1, <1>3, SnapshotScreen
<1>6. ParseInto(Snapshot(parses[n]), [parses EXCEPT ![n].worker = "idle"], "B",
                parses[n].peer, parses[n].src)
  BY <1>2 DEF BaselineDone
<1>7. Cached(parses[n].src, Snapshot(parses[n]), g)
  BY <1>5 DEF Cached
<1> QED BY <1>4, <1>5, <1>6, <1>7, ParseIntoShows

\* The second run is done and cached too: the comparison has both.
LEMMA CandidateShows ==
  ASSUME NEW g, SInv, Shown(g), NEW n \in Loads, CandidateDone(n)
  PROVE  Shown(g)'
<1> DEFINE p == parses[n]
           sn == Snapshot(p)
           t == [sn EXCEPT !.compareLoad = 0, !.activeFileId = NoFile, !.compareSeed = NoFile]
<1>1. p.worker = "loaded" /\ p.worker \in Live
  BY DEF CandidateDone, Done, Live
<1>2. Handlers(n) = n /\ GoodParse(p)
  BY <1>1, ItsOwn
<1>3. p.kind = "B"
  BY <1>2 DEF CandidateDone, Done
<1>4. p.src \in Files /\ p.peer \in Files
  BY <1>2, <1>3 DEF GoodParse
<1>5. /\ GoodStore(sn) /\ ScreenStore(sn, g) /\ Grown(sn, store) /\ sn.sessionCache[p.src] # {}
      /\ sn.shsParsing = store.shsParsing /\ sn.status = store.status
  BY <1>1, <1>3, SnapshotScreen
<1>6. Cached(p.peer, store, g)
  BY <1>1, <1>3 DEF Shown, Peers, Started
<1>7. store' = OpenComparison(t, p.peer, p.src)
  BY <1>2 DEF CandidateDone
<1>8. Fewer(parses', parses)
  BY <1>1, IdleShows DEF CandidateDone
<1>9. \A m \in Loads : Running(parses, m) => Running(parses', m)
  BY <1>3 DEF CandidateDone, Running, SInv
<1> HIDE DEF p, sn
<1>10. /\ t \in Stores /\ t.activeFileId = NoFile /\ t.run = sn.run /\ t.status = sn.status
       /\ t.sessionCache = sn.sessionCache /\ t.shsParsing = sn.shsParsing
  BY <1>5, Members DEF GoodStore, Stores
<1> HIDE DEF t
<1>11. store' = [t EXCEPT !.active = TRUE, !.baseline = p.peer, !.candidate = p.src]
  BY <1>7, <1>10 DEF OpenComparison, CacheCurrentSnapshot
<1>12. /\ store'.run = sn.run /\ store'.status = sn.status /\ store'.baseline = p.peer
       /\ store'.candidate = p.src /\ store'.sessionCache = sn.sessionCache
       /\ store'.shsParsing = store.shsParsing
  BY <1>5, <1>10, <1>11 DEF Stores
<1>13. ScreenStore(store', g) /\ Grown(store', store)
  BY <1>4, <1>5, <1>6, <1>12 DEF ScreenStore, Cached, Grown
<1>14. store'.status = store.status
  BY <1>5, <1>12
<1> QED BY <1>8, <1>9, <1>12, <1>13, <1>14, FewerStep

\* handlers.onError.
LEMMA ErrorShows ==
  ASSUME NEW g, SInv, Shown(g), NEW n \in Loads, parses[n].worker \in Live, NEW cs \in {{}, {clientRef}},
         OnError(n, cs, store)
  PROVE  Shown(g)'
<1>1. GoodStore(store) /\ ScreenStore(store, g) /\ Handlers(n) = n /\ GoodParse(parses[n])
  BY ItsOwn, SameStore DEF Shown
<1>2. store' = CASE parses[n].kind = "file" -> SetError(store)
                 [] parses[n].kind = "shs"  -> SetError([store EXCEPT !.shsParsing = FALSE])
                 [] OTHER -> SetError([store EXCEPT !.compareLoad = 0, !.active = FALSE])
  BY <1>1 DEF OnError, Aborted
<1>3. ScreenStore(store', g) /\ Grown(store', store) /\ store'.status = "error"
  <2>1. \/ store' = SetError(store) \/ store' = SetError([store EXCEPT !.shsParsing = FALSE])
        \/ store' = SetError([store EXCEPT !.compareLoad = 0, !.active = FALSE])
    BY <1>2
  <2> QED BY <1>1, <2>1, ErrorScreen
<1> DEFINE ps == [parses EXCEPT ![n].worker = "idle"]
<1>4. PICK gone \in {{}, {clientRef}} : parses' = Terminate(ps, gone)
  BY DEF OnError
<1>5. OneLive(ps)
  BY Idled
<1>6. CASE gone = {}
  <2>1. parses' = ps
    <3> HIDE DEF ps
    <3> QED BY <1>4, <1>5, <1>6, NoneTerminated DEF OneLive, SInv
  <2>2. Fewer(parses', parses)
    BY <2>1, IdleShows
  <2> QED BY <1>3, <2>2, FewerStep
<1>7. CASE gone = {clientRef}
  <2>1. Quiet(parses')
    <3> HIDE DEF ps
    <3> QED BY <1>4, <1>5, <1>7, Terminated
  <2>2. \A m \in Loads : parses'[m].worker \notin Held
    BY <2>1 DEF Quiet, Held
  <2> QED BY <1>3, <2>2, NoneHeld
<1> QED BY <1>6, <1>7

\* A comparison that cannot be opened, a parse error, a crash of the worker,
\* and a History Server failure that the intake shows in place.
LEMMA FailShows ==
  ASSUME NEW g, SInv, Shown(g), NEW n \in Loads,
         CompareThrows(n) \/ ParseError(n) \/ WorkerCrash(n) \/ ShsError(n)
  PROVE  Shown(g)'
<1>1. parses[n].worker \in Live
  BY Alone DEF CompareThrows, ParseError, WorkerCrash, ShsError, Done, Live
<1>2. CASE ShsError(n)
  <2>1. store' = ResetModel(store) /\ parses' = [parses EXCEPT ![n].worker = "idle"]
    BY <1>2 DEF ShsError
  <2>2. Emptied(store', store) /\ store'.status = "idle" /\ store'.shsParsing = FALSE
    BY <2>1, SameStore, ResetFields DEF GoodStore, ResetModel, Stores
  <2>3. ScreenStore(store', g) /\ Grown(store', store)
    BY <2>2, EmptyScreen
  <2>4. Fewer(parses', parses)
    BY <1>1, <2>1, IdleShows
  <2> QED BY <2>2, <2>3, <2>4, FewerStep
<1>3. CASE CompareThrows(n) \/ ParseError(n) \/ WorkerCrash(n)
  <2>1. parses[n].host = clientRef
    BY <1>1, ItsOwn
  <2>2. OnError(n, {}, store) \/ OnError(n, {clientRef}, store)
    BY <1>3, <2>1 DEF CompareThrows, ParseError, WorkerCrash
  <2> QED BY <1>1, <2>2, ErrorShows
<1> QED BY <1>2, <1>3

-----------------------------------------------------------------------------
(* The rest of the state: the pending handle, the list, the answers.        *)

Answers == {"none", "restored", "started", "gone", "noop"}

SideInv ==
  /\ pendingRef \in Sources
  /\ recents \in [Files -> Runs]
  /\ answer \in Answers

\* Every step keeps them.
LEMMA SideStep ==
  ASSUME SInv, SideInv, [Next]_vars
  PROVE  SideInv'
<1>1. pendingRef \in Sources /\ {} \in Runs /\ NoFile \in Sources /\ Files \subseteq Sources
  BY Members DEF SideInv
<1>2. ASSUME NEW f \in Files PROVE [recents EXCEPT ![f] = {}] \in [Files -> Runs]
  BY <1>1 DEF SideInv
<1>3. CASE Reader
  <2>1. ASSUME NEW f \in Sources, NEW kind, NEW s, Begin(s, kind, f, FALSE),
               UNCHANGED <<waiting, recents, answer>>
        PROVE  SideInv'
    BY <1>1, <2>1 DEF Begin, SideInv
  <2>2. ASSUME UNCHANGED <<pendingRef, waiting, answer>>,
               recents' = recents \/ \E f \in Files : recents' = [recents EXCEPT ![f] = {}]
        PROVE  SideInv'
    BY <1>2, <2>2 DEF SideInv
  <2>3. ASSUME UNCHANGED <<pendingRef, recents, waiting>>, answer' \in Answers
        PROVE  SideInv'
    BY <2>3 DEF SideInv
  <2>4. ASSUME UNCHANGED <<pendingRef, recents, answer>>
        PROVE  SideInv'
    BY <2>4 DEF SideInv
  <2>5. CASE \E f \in Files : StartLoad(f)
    BY <1>1, <2>1, <2>5 DEF StartLoad
  <2>6. CASE StartLoadFolder
    BY <1>1, <2>1, <2>6 DEF StartLoadFolder
  <2>7. CASE StartLoadFromUrl
    BY <1>1, <2>1, <2>7 DEF StartLoadFromUrl
  <2>8. CASE \E f \in Files : PickActive(f) \/ PickCached(f)
    <3>1. UNCHANGED <<pendingRef, recents, waiting>> /\ answer' \in Answers
      BY <2>8 DEF PickActive, PickCached, Answers
    <3> QED BY <3>1, <2>3
  <2>9. CASE \E f \in Files : PickFile(f)
    BY <2>4, <2>9 DEF PickFile
  <2>10. CASE \E f, handle : AskForFile(f, handle)
    BY <2>4, <2>10 DEF AskForFile
  <2>11. CASE \/ \E f \in Files : RemoveRecent(f) \/ StartCompareSeeded(f)
              \/ \E a, b \in Files : StartCompareLoad(a, b)
    BY <2>2, <2>11 DEF RemoveRecent, StartCompareSeeded, StartCompareLoad
  <2>12. CASE CancelParse
    BY <1>1, <2>12 DEF CancelParse, SideInv
  <2>13. CASE Reset \/ CompareWithAnotherRun
    BY <2>2, <2>13 DEF Reset, CompareWithAnotherRun, ResetToDropZone
  <2>14. CASE DropSeed \/ BackToTheRun \/ DrillIn \/ BackToComparison \/ CloseComparison
    BY <2>2, <2>14 DEF DropSeed, BackToTheRun, DrillIn, DrillIntoRun, BackToComparison,
                       CloseComparison
  <2> QED BY <1>3, <2>5, <2>6, <2>7, <2>8, <2>9, <2>10, <2>11, <2>12, <2>13, <2>14 DEF Reader
<1>4. CASE Answer
  <2>1. PICK w \in waiting : Granted(w) \/ Unreadable(w) \/ Dismissed(w) \/ PickedFileGone(w)
    BY <1>4 DEF Answer
  <2>2. w.file \in Sources
    BY DEF SInv, Intakes
  <2>3. pendingRef' \in Sources
    BY <1>1, <2>1, <2>2 DEF Granted, Begin, Unreadable, Dismissed, PickedFileGone
  <2>4. recents' \in [Files -> Runs]
    BY <1>1, <2>1 DEF Granted, Unreadable, Dismissed, PickedFileGone, SideInv
  <2>5. answer' \in Answers
    BY <2>1 DEF Granted, Unreadable, Dismissed, PickedFileGone, SideInv, Answers
  <2> QED BY <2>1, <2>3, <2>4, <2>5 DEF SideInv
<1>5. ASSUME NEW n \in Loads, Resolve(n) \/ Parse(n) \/ WorkerCrash(n) \/ Finish(n)
      PROVE  SideInv'
  <2>1. CASE Resolve(n) \/ Parse(n) \/ WorkerCrash(n) \/ Prefetched(n)
    <3>1. UNCHANGED <<pendingRef, waiting, recents, answer>>
      BY <2>1 DEF Resolve, Resolved, Unresolved, Parse, WorkerData, RunDone, AnalysisThrows,
                  BaselineDone, CandidateDone, CompareThrows, ParseError, ShsError,
                  WorkerCrash, OnError, Prefetched
    <3> QED BY <3>1 DEF SideInv
  <2>2. CASE RecordRecent(n)
    <3>1. parses[n].model \in Runs
      BY DEF SInv, Parses
    <3>2. recents' = recents \/ recents' = [recents EXCEPT ![pendingRef] = parses[n].model]
      BY <2>2 DEF RecordRecent
    <3>3. recents' \in [Files -> Runs]
      BY <3>1, <3>2 DEF SideInv
    <3> QED BY <2>2, <3>3 DEF RecordRecent, SideInv
  <2> QED BY <1>5, <2>1, <2>2 DEF Finish
<1>6. CASE UNCHANGED vars
  BY <1>6 DEF vars, SideInv
<1> QED BY <1>3, <1>4, <1>5, <1>6 DEF Next

\* Every step keeps the screen true but for the file of a pick that is gone.
LEMMA ScreenKept ==
  ASSUME NEW g, SInv, SInv', Shown(g), [Next]_vars, ~\E w \in waiting : PickedFileGone(w)
  PROVE  Shown(g)'
<1>1. CASE Reader
  <2>1. ASSUME NEW f \in Sources, NEW kind \in {"file", "shs"}, Begin(store, kind, f, FALSE)
        PROVE  Shown(g)'
    BY <2>1, SameStore, BeginShows
  <2>2. CASE \E f \in Files : StartLoad(f)
    BY <2>1, <2>2, Members DEF StartLoad
  <2>3. CASE StartLoadFolder \/ StartLoadFromUrl
    BY <2>1, <2>3, Members DEF StartLoadFolder, StartLoadFromUrl
  <2>4. CASE \/ DropSeed \/ BackToComparison \/ CloseComparison
             \/ \E f \in Files : PickActive(f) \/ RemoveRecent(f) \/ PickFile(f)
             \/ \E f \in Sources, handle \in BOOLEAN : AskForFile(f, handle)
    BY <2>4, QuietShows
  <2>5. CASE BackToTheRun \/ DrillIn \/ (\E f \in Files : PickCached(f))
    BY <2>5, RestoredShows
  <2>6. CASE CancelParse \/ Reset \/ CompareWithAnotherRun
    BY <2>6, ClearedShows
  <2>7. CASE (\E a, b \in Files : StartCompareLoad(a, b)) \/ \E f \in Files : StartCompareSeeded(f)
    BY <2>7, CompareShows
  <2>8. \A f \in Files : f \in Sources
    BY Members
  <2> QED BY <1>1, <2>2, <2>3, <2>4, <2>5, <2>6, <2>7, <2>8, Members DEF Reader
<1>2. CASE Answer
  <2>1. PICK w \in waiting : Granted(w) \/ Unreadable(w) \/ Dismissed(w)
    BY <1>2 DEF Answer
  <2> QED BY <2>1, AnswerShows
<1>3. ASSUME NEW n \in Loads, Resolve(n) \/ Parse(n) \/ WorkerCrash(n) \/ Finish(n)
      PROVE  Shown(g)'
  <2>1. CASE Resolve(n)
    BY <2>1, ResolveShows
  <2>2. CASE WorkerData(n)
    BY <2>2, DataShows
  <2>3. CASE RunDone(n)
    BY <2>3, DoneShows
  <2>4. CASE AnalysisThrows(n)
    BY <2>4, AnalysisShows
  <2>5. CASE BaselineDone(n)
    BY <2>5, BaselineShows
  <2>6. CASE CandidateDone(n)
    BY <2>6, CandidateShows
  <2>7. CASE CompareThrows(n) \/ ParseError(n) \/ WorkerCrash(n) \/ ShsError(n)
    BY <2>7, FailShows
  <2>8. CASE Finish(n)
    BY <2>8, FinishShows
  <2> QED BY <1>3, <2>1, <2>2, <2>3, <2>4, <2>5, <2>6, <2>7, <2>8 DEF Parse
<1>4. CASE UNCHANGED vars
  <2>1. parses' = parses /\ store' = store
    BY <1>4 DEF vars
  <2> QED BY <2>1 DEF Shown
<1> QED BY <1>1, <1>2, <1>3, <1>4 DEF Next
-----------------------------------------------------------------------------
(* Which files are excused: those that left the recent-files list for good. *)
(* No prefetch is awaited while a comparison is there to lose a snapshot,   *)
(* so that nothing lists such a file again.                                 *)

Single == {"file", "shs"}
Parsing == {"parsing", "loaded"}

\* A prefetch is of the single-run load that clientRef names, and neither it
\* nor the parse before it has a comparison behind it.
PrefetchInv ==
  \A m \in Loads :
    /\ parses[m].after = "prefetch" =>
         clientRef = m /\ parses[m].kind \in Single /\ store.baseline = NoFile
    /\ parses[m].kind \in Single /\ parses[m].worker \in Parsing => store.baseline = NoFile

\* A parse goes on without a prefetch or a start of its own.
Rests(q, p) ==
  /\ p.after = "none" => q.after = "none"
  /\ q.after = "prefetch" => p.after = "prefetch" /\ q.kind = p.kind
  /\ q.kind \in Single /\ q.worker \in Parsing => p.kind = q.kind /\ p.worker \in Parsing

AllRest(qs) == \A m \in Loads : Rests(qs[m], parses[m])

NoneAwaits(qs) == \A m \in Loads : qs[m].after # "prefetch"

NoneRaised == \A m \in Loads : parses[m].after = "none" => parses'[m].after = "none"

\* In such a step no comparison opens, and the prefetch keeps its client.
LEMMA RestStep ==
  ASSUME PrefetchInv, AllRest(parses'), store'.baseline \in {store.baseline, NoFile},
         clientRef' = clientRef \/ NoneAwaits(parses')
  PROVE  PrefetchInv' /\ NoneRaised
  BY DEF PrefetchInv, AllRest, Rests, NoneAwaits, NoneRaised

\* One parse alone rests.
LEMMA OneRests ==
  ASSUME SInv, NEW n \in Loads, NEW r, Rests(r, parses[n])
  PROVE  AllRest([parses EXCEPT ![n] = r])
<1> DEFINE qs == [parses EXCEPT ![n] = r]
<1>1. \A m \in Loads : qs[m] = IF m = n THEN r ELSE parses[m]
  BY DEF SInv
<1> HIDE DEF qs
<1>2. AllRest(qs)
  BY <1>1 DEF AllRest, Rests
<1> QED BY <1>2 DEF qs

\* A worker that gets idle or dies.
LEMMA WorkerRests ==
  ASSUME SInv, NEW n \in Loads, NEW w \in {"idle", "dead"}
  PROVE  LET qs == [parses EXCEPT ![n].worker = w] IN
         AllRest(qs) /\ qs \in [Loads -> Parses]
<1> DEFINE r == [parses[n] EXCEPT !.worker = w]
<1>1. parses[n] \in Parses /\ [parses EXCEPT ![n].worker = w] = [parses EXCEPT ![n] = r]
  BY DEF SInv
<1>2. r \in Parses /\ r.after = parses[n].after /\ r.kind = parses[n].kind /\ r.worker = w
  BY <1>1 DEF Parses
<1> HIDE DEF r
<1>3. Rests(r, parses[n])
  BY <1>2 DEF Rests, Parsing
<1>4. AllRest([parses EXCEPT ![n] = r])
  BY <1>3, OneRests
<1>5. [parses EXCEPT ![n] = r] \in [Loads -> Parses]
  BY <1>2 DEF SInv
<1> QED BY <1>1, <1>4, <1>5

\* terminate of the client that clientRef holds settles the prefetch.
LEMMA TerminatedRests ==
  ASSUME SInv, PrefetchInv, NEW ps \in [Loads -> Parses], AllRest(ps), NEW cs, clientRef \in cs
  PROVE  LET qs == Terminate(ps, cs) IN AllRest(qs) /\ NoneAwaits(qs)
<1> DEFINE qs == Terminate(ps, cs)
           dies(n) == \E c \in cs \cap Loads : clients[c].worker = n
<1>1. ASSUME NEW m \in Loads
      PROVE  Rests(qs[m], parses[m]) /\ qs[m].after # "prefetch"
  <2>1. qs[m] = [ps[m] EXCEPT !.worker = IF dies(m) THEN "dead" ELSE @,
                              !.after = IF m \in cs /\ @ = "prefetch" THEN "settled" ELSE @]
    BY DEF Terminate
  <2>2. ps[m] \in Parses /\ Rests(ps[m], parses[m])
    BY DEF AllRest
  <2>3. qs[m].worker = IF dies(m) THEN "dead" ELSE ps[m].worker
    BY <2>1, <2>2 DEF Parses
  <2>4. qs[m].after = IF m \in cs /\ ps[m].after = "prefetch" THEN "settled" ELSE ps[m].after
    BY <2>1, <2>2 DEF Parses
  <2>5. qs[m].kind = ps[m].kind
    BY <2>1, <2>2 DEF Parses
  <2> HIDE DEF qs, dies
  <2>6. ps[m].after = "prefetch" => m \in cs
    BY <2>2 DEF Rests, PrefetchInv
  <2> QED BY <2>2, <2>3, <2>4, <2>5, <2>6 DEF Rests, Parsing
<1> HIDE DEF qs
<1>2. AllRest(qs) /\ NoneAwaits(qs)
  BY <1>1 DEF AllRest, NoneAwaits
<1> QED BY <1>2 DEF qs

\* The parses as they are rest.
LEMMA SameRests ==
  ASSUME SInv
  PROVE  AllRest(parses) /\ parses \in [Loads -> Parses]
  BY DEF SInv, AllRest, Rests

\* The worker of the client that clientRef holds is terminated.
LEMMA StopRests ==
  ASSUME SInv, PrefetchInv, NEW ps \in [Loads -> Parses], AllRest(ps), NEW cs, clientRef \in cs,
         parses' = Terminate(ps, cs), store'.baseline \in {store.baseline, NoFile}
  PROVE  PrefetchInv' /\ NoneRaised
<1>1. AllRest(parses') /\ NoneAwaits(parses')
  BY TerminatedRests
<1> QED BY <1>1, RestStep

\* A load starts: the comparison behind it is gone.
LEMMA StartRests ==
  ASSUME SInv, PrefetchInv, NEW ps \in [Loads -> Parses], AllRest(ps), NEW n \in Loads, NEW r,
         r.after = "none", parses' = [Terminate(ps, {clientRef}) EXCEPT ![n] = r],
         store'.baseline = NoFile
  PROVE  PrefetchInv' /\ NoneRaised
<1> DEFINE qs == Terminate(ps, {clientRef})
<1>1. AllRest(qs) /\ NoneAwaits(qs) /\ qs = [m \in Loads |-> qs[m]]
  BY TerminatedRests DEF Terminate
<1>2. parses' = [qs EXCEPT ![n] = r]
  OBVIOUS
<1> HIDE DEF qs
<1>3. \A m \in Loads : parses'[m] = IF m = n THEN r ELSE qs[m]
  BY <1>1, <1>2
<1>4. NoneAwaits(parses')
  BY <1>1, <1>3 DEF NoneAwaits
<1>5. ASSUME NEW m \in Loads, parses[m].after = "none" PROVE parses'[m].after = "none"
  <2>1. Rests(qs[m], parses[m])
    BY <1>1 DEF AllRest
  <2>2. qs[m].after = "none"
    BY <1>5, <2>1 DEF Rests
  <2> QED BY <1>3, <2>2
<1>6. PrefetchInv'
  BY <1>4 DEF PrefetchInv, NoneAwaits
<1> QED BY <1>5, <1>6 DEF NoneRaised

\* Begin and parseInto.
LEMMA LoadRests ==
  ASSUME SInv, PrefetchInv, NEW s, GoodStore(s),
         \/ \E kind \in Single, f \in Sources : \E h : Begin(s, kind, f, h)
         \/ \E ps \in [Loads -> Parses], kind \in {"A", "B"} : \E f, e :
              AllRest(ps) /\ ParseInto(s, ps, kind, f, e)
  PROVE  PrefetchInv' /\ NoneRaised
<1> DEFINE n == loads + 1
           d == ResetModel(s)
<1>1. n \in Loads
  <2>1. loads < MaxLoads
    BY DEF Begin, ParseInto
  <2> QED BY <2>1, SessionAssumption DEF Loads, SInv
<1>2. Emptied(d, s) /\ d \in Stores
  BY ResetFields DEF GoodStore, Emptied
<1>3. CASE \E kind \in Single, f \in Sources : \E h : Begin(s, kind, f, h)
  <2>0. PICK kind \in Single, f \in Sources : \E h : Begin(s, kind, f, h)
    BY <1>3
  <2>1. PICK h : Begin(s, kind, f, h)
    BY <2>0
  <2> DEFINE r == [NoParse EXCEPT !.kind = kind, !.src = f, !.worker = "parsing", !.host = n]
  <2>2. r.after = "none" /\ parses' = [Terminate(parses, {clientRef}) EXCEPT ![n] = r]
    BY <2>1 DEF NoParse, Begin
  <2>3. store' = [d EXCEPT !.status = "parsing", !.activeFileId = f, !.shsParsing = (kind = "shs")]
    BY <2>1 DEF Begin
  <2> HIDE DEF d, r, n
  <2>4. store'.baseline = NoFile
    BY <1>2, <2>3 DEF Emptied, Stores
  <2> QED BY <1>1, <2>2, <2>4, SameRests, StartRests
<1>4. CASE \E ps \in [Loads -> Parses], kind \in {"A", "B"} : \E f, e :
             AllRest(ps) /\ ParseInto(s, ps, kind, f, e)
  <2>0. PICK ps \in [Loads -> Parses], kind \in {"A", "B"} : \E f, e :
          AllRest(ps) /\ ParseInto(s, ps, kind, f, e)
    BY <1>4
  <2>1. PICK f, e : AllRest(ps) /\ ParseInto(s, ps, kind, f, e)
    BY <2>0
  <2> DEFINE r == [NoParse EXCEPT !.kind = kind, !.src = f, !.peer = e, !.worker = "resolving"]
  <2>2. r.after = "none" /\ parses' = [Terminate(ps, {clientRef}) EXCEPT ![n] = r]
    BY <2>1 DEF NoParse, ParseInto
  <2>3. store' = [d EXCEPT !.activeFileId = f, !.compareLoad = IF kind = "A" THEN 1 ELSE 2]
    BY <2>1 DEF ParseInto
  <2> HIDE DEF d, r, n
  <2>4. store'.baseline = NoFile
    BY <1>2, <2>3 DEF Emptied, Stores
  <2> QED BY <1>1, <2>1, <2>2, <2>4, StartRests
<1> QED BY <1>3, <1>4

\* What the setters make of the baseline.
LEMMA Baselines ==
  ASSUME NEW s, GoodStore(s)
  PROVE  /\ CacheCurrentSnapshot(s).baseline = s.baseline
         /\ SetError(s).baseline = s.baseline
         /\ SetError([s EXCEPT !.shsParsing = FALSE]).baseline = s.baseline
         /\ SetError([s EXCEPT !.compareLoad = 0, !.active = FALSE]).baseline = s.baseline
         /\ ResetModel(s).baseline = NoFile
  BY ResetFields DEF GoodStore, CacheCurrentSnapshot, SetError, Stores, Emptied

\* A snapshot is put on screen.
LEMMA RestoreRests ==
  ASSUME SInv, PrefetchInv, NEW s, GoodStore(s), s.baseline = store.baseline, NEW f \in Files,
         Restore(s, f)
  PROVE  PrefetchInv' /\ NoneRaised
<1>1. store'.baseline = store.baseline
  BY DEF Restore, InstallRun, GoodStore, Stores
<1> QED BY <1>1, SameRests, StopRests DEF Restore

\* The reader's actions.
LEMMA ReaderRests ==
  ASSUME SInv, PrefetchInv, Reader
  PROVE  PrefetchInv' /\ NoneRaised
<1>1. GoodStore(store) /\ KeptBy(CacheCurrentSnapshot(store), store)
      /\ NoFile \in Sources /\ \A f \in Files : f \in Sources
  BY SameStore, CachedStore, Members
<1>2. GoodStore(CacheCurrentSnapshot(store))
  BY <1>1 DEF KeptBy
<1>3. ASSUME UNCHANGED <<parses, clientRef>>, store'.baseline \in {store.baseline, NoFile}
      PROVE  PrefetchInv' /\ NoneRaised
  BY <1>3, SameRests, RestStep
<1>4. CASE (\E f \in Files : StartLoad(f)) \/ StartLoadFolder \/ StartLoadFromUrl
  <2>1. \E kind \in Single, f \in Sources : \E h : Begin(store, kind, f, h)
    BY <1>1, <1>4 DEF StartLoad, StartLoadFolder, StartLoadFromUrl, Single
  <2> QED BY <1>1, <2>1, LoadRests
<1>5. CASE \/ \E f \in Files : PickActive(f) \/ RemoveRecent(f) \/ PickFile(f)
           \/ \E f \in Sources, handle \in BOOLEAN : AskForFile(f, handle)
           \/ DropSeed \/ BackToComparison \/ CloseComparison
  <2>1. UNCHANGED <<parses, clientRef>>
    BY <1>5 DEF PickActive, RemoveRecent, PickFile, AskForFile, DropSeed, BackToComparison,
                CloseComparison
  <2>2. store'.baseline \in {store.baseline, NoFile}
    BY <1>1, <1>5 DEF PickActive, RemoveRecent, PickFile, AskForFile, DropSeed, BackToComparison,
                      CloseComparison, GoodStore, Stores
  <2> QED BY <1>3, <2>1, <2>2
<1>6. CASE \E f \in Files : PickCached(f)
  <2>1. PICK f \in Files : Restore(CacheCurrentSnapshot(store), f)
    BY <1>6 DEF PickCached
  <2> QED BY <1>1, <1>2, <2>1, Baselines, RestoreRests
<1>7. CASE BackToTheRun \/ DrillIn
  <2>1. PICK s, f : DrillIntoRun(s, f) /\ f \in Files /\ GoodStore(s) /\ s.baseline = store.baseline
    <3>1. CASE BackToTheRun
      <4>1. /\ GoodStore([store EXCEPT !.compareSeed = NoFile])
            /\ [store EXCEPT !.compareSeed = NoFile].baseline = store.baseline
        BY <1>1, ViewStore DEF KeptBy, GoodStore, Stores
      <4> QED BY <1>1, <3>1, <4>1 DEF BackToTheRun, GoodStore, Stores, Sources
    <3>2. CASE DrillIn
      <4>1. store.baseline \in Files /\ store.candidate \in Files
        BY <1>1, <3>2 DEF DrillIn, Comparison, GoodStore, Stores
      <4> QED BY <1>1, <3>2, <4>1 DEF DrillIn
    <3> QED BY <1>7, <3>1, <3>2
  <2>2. GoodStore([s EXCEPT !.active = FALSE])
    BY <1>1, <2>1, ViewStore DEF KeptBy
  <2>3. [s EXCEPT !.active = FALSE].baseline = store.baseline
    BY <2>1 DEF GoodStore, Stores
  <2>4. Restore([s EXCEPT !.active = FALSE], f)
    BY <2>1 DEF DrillIntoRun
  <2> QED BY <2>1, <2>2, <2>3, <2>4, RestoreRests
<1>8. CASE CancelParse \/ Reset \/ CompareWithAnotherRun
  <2>1. parses' = Terminate(parses, {clientRef})
    BY <1>8 DEF CancelParse, Reset, CompareWithAnotherRun, ResetToDropZone
  <2>2. store'.baseline = NoFile
    <3>1. PICK s : GoodStore(s) /\ \/ store' = [ResetModel(s) EXCEPT !.activeFileId = NoFile]
                                   \/ \E seed : store' = [ResetModel(s) EXCEPT !.compareSeed = seed]
      BY <1>1, <1>2, <1>8 DEF CancelParse, Reset, CompareWithAnotherRun, ResetToDropZone
    <3> DEFINE d == ResetModel(s)
    <3>2. d \in Stores /\ d.baseline = NoFile
      BY <3>1, ResetFields DEF GoodStore, Emptied
    <3>3. \/ store' = [d EXCEPT !.activeFileId = NoFile]
          \/ \E seed : store' = [d EXCEPT !.compareSeed = seed]
      BY <3>1
    <3> HIDE DEF d
    <3> QED BY <3>2, <3>3 DEF Stores
  <2>3. store'.baseline \in {store.baseline, NoFile}
    BY <2>2
  <2> QED BY <2>1, <2>3, SameRests, StopRests
<1>9. CASE (\E a, b \in Files : StartCompareLoad(a, b)) \/ \E f \in Files : StartCompareSeeded(f)
  <2>1. CASE \E kind \in {"A", "B"} : \E f, e : ParseInto(store, parses, kind, f, e)
    BY <1>1, <2>1, SameRests, LoadRests
  <2>2. CASE UNCHANGED <<parses, clientRef>> /\ store' = SetError(store)
    BY <1>1, <1>3, <2>2, Baselines
  <2> QED BY <1>9, <2>1, <2>2 DEF StartCompareLoad, StartCompareSeeded
<1> QED BY <1>1, <1>4, <1>5, <1>6, <1>7, <1>8, <1>9 DEF Reader

\* The browser's answers.
LEMMA AnswerRests ==
  ASSUME SInv, PrefetchInv, Answer
  PROVE  PrefetchInv' /\ NoneRaised
<1>1. GoodStore(store) /\ GoodStore(CacheCurrentSnapshot(store))
  BY SameStore, CachedStore DEF KeptBy
<1>2. PICK w \in waiting : Granted(w) \/ Unreadable(w) \/ Dismissed(w) \/ PickedFileGone(w)
  BY DEF Answer
<1>3. CASE Granted(w)
  <2>1. w.file \in Sources /\ "file" \in Single
    BY DEF SInv, Intakes, Single
  <2>2. PICK s, h : GoodStore(s) /\ Begin(s, "file", w.file, h)
    BY <1>1, <1>3 DEF Granted
  <2> QED BY <2>1, <2>2, LoadRests
<1>4. CASE Unreadable(w) \/ Dismissed(w) \/ PickedFileGone(w)
  <2>1. UNCHANGED <<parses, clientRef>>
    BY <1>4 DEF Unreadable, Dismissed, PickedFileGone
  <2>2. store'.baseline = store.baseline
    BY <1>1, <1>4, Baselines DEF Unreadable, Dismissed, PickedFileGone, GoodStore, Stores
  <2> QED BY <2>1, <2>2, SameRests, RestStep
<1> QED BY <1>2, <1>3, <1>4

\* The worker that is held gets idle, and nothing is terminated.
LEMMA IdleRests ==
  ASSUME SInv, PrefetchInv, NEW n \in Loads, parses' = [parses EXCEPT ![n].worker = "idle"],
         clientRef' = clientRef, store'.baseline \in {store.baseline, NoFile}
  PROVE  PrefetchInv' /\ NoneRaised
<1>1. AllRest([parses EXCEPT ![n].worker = "idle"])
  BY WorkerRests
<1>2. AllRest(parses')
  BY <1>1
<1> QED BY <1>2, RestStep

\* handlers.onError.
LEMMA ErrorRests ==
  ASSUME SInv, PrefetchInv, NEW n \in Loads, parses[n].worker \in Live, NEW cs \in {{}, {clientRef}},
         OnError(n, cs, store)
  PROVE  PrefetchInv' /\ NoneRaised
<1> DEFINE ps == [parses EXCEPT ![n].worker = "idle"]
<1>1. AllRest(ps) /\ ps \in [Loads -> Parses]
  BY WorkerRests
<1>2. store'.baseline = store.baseline
  BY SameStore, Baselines DEF OnError, Aborted
<1>3. PICK gone \in {{}, {clientRef}} : parses' = Terminate(ps, gone)
  BY DEF OnError
<1>4. CASE gone = {}
  <2>1. parses' = ps /\ clientRef' = clientRef
    <3> HIDE DEF ps
    <3> QED BY <1>1, <1>3, <1>4, NoneTerminated DEF SInv, OnError
  <2> QED BY <1>2, <2>1, IdleRests
<1>5. CASE gone = {clientRef}
  <2> HIDE DEF ps
  <2> QED BY <1>1, <1>2, <1>3, <1>5, StopRests
<1> QED BY <1>3, <1>4, <1>5

\* A source is awaited no more: its worker starts, or its comparison fails.
LEMMA ResolveRests ==
  ASSUME SInv, PrefetchInv, NEW n \in Loads, Resolve(n)
  PROVE  PrefetchInv' /\ NoneRaised
<1>1. parses[n].worker = "resolving" /\ clientRef = n /\ parses[n].kind \in {"A", "B"}
  BY Alone DEF Resolve, Resolved, Unresolved, SInv, Placed
<1>2. CASE Resolved(n)
  <2> DEFINE r == [parses[n] EXCEPT !.worker = "parsing", !.host = n]
  <2>1. parses' = [parses EXCEPT ![n] = r] /\ store' = store /\ clientRef' = clientRef
    BY <1>1, <1>2 DEF Resolved, SInv
  <2>2. r.kind = parses[n].kind /\ r.after = parses[n].after
    BY DEF SInv, Parses
  <2> HIDE DEF r
  <2>3. Rests(r, parses[n])
    BY <1>1, <2>2 DEF Rests, Single
  <2>4. AllRest(parses')
    BY <2>1, <2>3, OneRests
  <2> QED BY <2>1, <2>4, RestStep
<1>3. CASE Unresolved(n)
  <2> DEFINE ps == [parses EXCEPT ![n].worker = "dead"]
  <2>1. AllRest(ps) /\ ps \in [Loads -> Parses]
    BY WorkerRests
  <2>2. store'.baseline = store.baseline
    BY <1>3, SameStore, Baselines DEF Unresolved, Aborted
  <2>3. parses' = Terminate(ps, {clientRef})
    BY <1>3 DEF Unresolved
  <2> HIDE DEF ps
  <2> QED BY <2>1, <2>2, <2>3, StopRests
<1> QED BY <1>2, <1>3 DEF Resolve

\* A run is done: its load is single, and has no comparison behind it.
LEMMA DoneRests ==
  ASSUME SInv, PrefetchInv, NEW n \in Loads, RunDone(n)
  PROVE  PrefetchInv' /\ store.baseline = NoFile /\ parses[n].kind \in Single
         /\ parses[n].worker = "loaded"
<1>1. parses[n].worker = "loaded" /\ parses[n].worker \in Live
  BY DEF RunDone, Done, Live
<1>2. Handlers(n) = n /\ clientRef = n /\ \A m \in Loads : m # n => parses[m].worker \notin Live
  BY <1>1, ItsOwn
<1>3. parses[n].kind \in Single /\ store.baseline = NoFile
  BY <1>1, <1>2 DEF RunDone, Done, Single, Parsing, PrefetchInv
<1>4. PICK a : parses' = [parses EXCEPT ![n].worker = "idle", ![n].after = a]
  BY <1>2 DEF RunDone
<1>5. /\ \A m \in Loads : m # n => parses'[m] = parses[m]
      /\ parses'[n].kind = parses[n].kind
  BY <1>4 DEF SInv, Parses
<1>6. store'.baseline = NoFile /\ clientRef' = clientRef
  BY <1>3, SameStore DEF RunDone, InstallRun, GoodStore, Stores
<1> QED BY <1>1, <1>2, <1>3, <1>5, <1>6 DEF PrefetchInv

\* The second run is done: nothing is parsed or prefetched behind it.
LEMMA CandidateRests ==
  ASSUME SInv, PrefetchInv, NEW n \in Loads, CandidateDone(n)
  PROVE  PrefetchInv' /\ NoneRaised
<1>1. parses[n].worker = "loaded" /\ parses[n].worker \in Live
  BY DEF CandidateDone, Done, Live
<1>2. /\ Handlers(n) = n /\ clientRef = n
      /\ \A m \in Loads : m # n => parses[m].worker \notin Live \cup {"resolving"}
  BY <1>1, ItsOwn
<1>3. parses[n].kind = "B"
  BY <1>2 DEF CandidateDone, Done
<1>4. NoneAwaits(parses)
  BY <1>2, <1>3 DEF PrefetchInv, NoneAwaits, Single
<1>5. /\ \A m \in Loads : m # n => parses'[m] = parses[m]
      /\ parses'[n].kind = "B" /\ parses'[n].after = parses[n].after
  BY <1>3 DEF CandidateDone, SInv, Parses
<1> QED BY <1>2, <1>4, <1>5 DEF PrefetchInv, NoneAwaits, NoneRaised, Single, Parsing, Live

\* The other steps of the workers, and of what is left of runDone.
LEMMA WorkRests ==
  ASSUME SInv, PrefetchInv, NEW n \in Loads,
         \/ WorkerData(n) \/ AnalysisThrows(n) \/ BaselineDone(n) \/ CompareThrows(n)
         \/ ParseError(n) \/ ShsError(n) \/ WorkerCrash(n) \/ Finish(n)
  PROVE  PrefetchInv' /\ NoneRaised
<1>1. CASE WorkerData(n)
  <2> DEFINE r == [parses[n] EXCEPT !.worker = "loaded", !.model = @ \cup {parses[n].src}]
  <2>1. parses[n].worker = "parsing" /\ Handlers(n) = n /\ UNCHANGED <<store, clientRef>>
    BY <1>1, ItsOwn DEF WorkerData, Live
  <2>2. parses' = [parses EXCEPT ![n] = r]
    BY <1>1, <2>1 DEF WorkerData, SInv
  <2>3. r.kind = parses[n].kind /\ r.after = parses[n].after
    BY DEF SInv, Parses
  <2> HIDE DEF r
  <2>4. Rests(r, parses[n])
    BY <2>1, <2>3 DEF Rests, Parsing
  <2>5. AllRest(parses')
    BY <2>2, <2>4, OneRests
  <2> QED BY <2>1, <2>5, RestStep
<1>2. CASE Finish(n)
  <2>1. PICK a \in {"none", "settled"} : /\ parses' = [parses EXCEPT ![n].after = a]
                                         /\ parses[n].after # "none"
    BY <1>2 DEF Finish, Prefetched, RecordRecent
  <2> DEFINE r == [parses[n] EXCEPT !.after = a]
  <2>2. parses' = [parses EXCEPT ![n] = r] /\ UNCHANGED <<store, clientRef>>
    BY <1>2, <2>1 DEF SInv, Finish, Prefetched, RecordRecent
  <2>3. r.kind = parses[n].kind /\ r.worker = parses[n].worker /\ r.after = a
    BY DEF SInv, Parses
  <2> HIDE DEF r
  <2>4. Rests(r, parses[n])
    BY <2>1, <2>3 DEF Rests
  <2>5. AllRest(parses')
    BY <2>2, <2>4, OneRests
  <2> QED BY <2>2, <2>5, RestStep
<1>3. CASE CompareThrows(n) \/ ParseError(n) \/ WorkerCrash(n)
  <2>1. parses[n].worker \in Live
    BY <1>3, Alone DEF CompareThrows, ParseError, WorkerCrash, Done, Live
  <2>2. parses[n].host = clientRef
    BY <2>1, ItsOwn
  <2>3. OnError(n, {}, store) \/ OnError(n, {clientRef}, store)
    BY <1>3, <2>2 DEF CompareThrows, ParseError, WorkerCrash
  <2> QED BY <2>1, <2>3, ErrorRests
<1>4. CASE ShsError(n)
  <2>1. /\ parses' = [parses EXCEPT ![n].worker = "idle"] /\ clientRef' = clientRef
        /\ store'.baseline = NoFile
    BY <1>4, SameStore, Baselines DEF ShsError
  <2> QED BY <2>1, IdleRests
<1>5. CASE AnalysisThrows(n) \/ BaselineDone(n)
  <2> DEFINE ps == [parses EXCEPT ![n].worker = "idle"]
  <2>1. parses[n].worker = "loaded" /\ parses[n].worker \in Live
    BY <1>5 DEF AnalysisThrows, BaselineDone, Done, Live
  <2>2. Handlers(n) = n /\ clientRef = n
    BY <2>1, ItsOwn
  <2>3. AllRest(ps) /\ ps \in [Loads -> Parses]
    BY WorkerRests
  <2>4. CASE AnalysisThrows(n)
    <3>1. store'.baseline = store.baseline
      BY <2>4, SameStore, Baselines DEF AnalysisThrows
    <3>2. parses' = Terminate(ps, {n})
      BY <2>2, <2>4 DEF AnalysisThrows
    <3> HIDE DEF ps
    <3> QED BY <2>2, <2>3, <3>1, <3>2, StopRests
  <2>5. CASE BaselineDone(n)
    <3>1. ParseInto(Snapshot(parses[n]), ps, "B", parses[n].peer, parses[n].src)
          /\ parses[n].kind = "A"
      BY <2>2, <2>5 DEF BaselineDone, Done
    <3>2. GoodStore(Snapshot(parses[n]))
      <4>1. parses[n].model = {parses[n].src} /\ parses[n].src \in Files
        BY <2>1, <3>1 DEF SInv, GoodParse
      <4>2. Snapshot(parses[n]) = [store EXCEPT !.sessionCache[parses[n].src] = {parses[n].src}]
        BY <4>1 DEF Snapshot
      <4> QED BY <4>1, <4>2, SameStore, SnapshotStore DEF KeptBy
    <3> HIDE DEF ps
    <3> QED BY <2>3, <3>1, <3>2, LoadRests
  <2> QED BY <1>5, <2>4, <2>5
<1> QED BY <1>1, <1>2, <1>3, <1>4, <1>5

\* Every step keeps the prefetch in its place, and only runDone starts one.
LEMMA PrefetchStep ==
  ASSUME SInv, PrefetchInv, [Next]_vars
  PROVE  PrefetchInv' /\ (NoneRaised \/ \E n \in Loads : RunDone(n))
<1>1. CASE UNCHANGED vars
  BY <1>1, SameRests, RestStep DEF vars
<1>2. ASSUME NEW n \in Loads, Resolve(n) \/ Parse(n) \/ WorkerCrash(n) \/ Finish(n)
      PROVE  PrefetchInv' /\ (NoneRaised \/ RunDone(n))
  <2>1. CASE Resolve(n)
    BY <2>1, ResolveRests
  <2>2. CASE RunDone(n)
    BY <2>2, DoneRests
  <2>3. CASE CandidateDone(n)
    BY <2>3, CandidateRests
  <2> QED BY <1>2, <2>1, <2>2, <2>3, WorkRests DEF Parse
<1> QED BY <1>1, <1>2, ReaderRests, AnswerRests DEF Next

-----------------------------------------------------------------------------
(* The screen.                                                              *)

Gone == {f \in Files : recents[f] = {} /\ \A n \in Loads : parses[n].after = "none"}

\* What shows with some files excused shows with more of them excused.
LEMMA MoreExcused ==
  ASSUME NEW g, Shown(g)', NEW h, g \subseteq h
  PROVE  Shown(h)'
<1>1. ScreenStore(store', h) /\ Peers(parses', store', h) /\ Fetching(parses', store')
  BY DEF Shown, ScreenStore, Peers, Cached
<1> QED BY <1>1 DEF Shown

\* With no comparison shown or parsed, nothing needs an excuse.
LEMMA NoExcuse ==
  ASSUME NEW g, Shown(g)', NEW h, store'.baseline = NoFile,
         \A n \in Loads : parses'[n].worker \in Started => parses'[n].kind # "B"
  PROVE  Shown(h)'
<1>1. ScreenStore(store', h) /\ Peers(parses', store', h) /\ Fetching(parses', store')
  BY SessionAssumption DEF Shown, ScreenStore, Peers
<1> QED BY <1>1 DEF Shown

\* Only a file that runDone records is listed again.
LEMMA StaysGone ==
  ASSUME SideInv, [Next]_vars, NoneRaised
  PROVE  Gone \subseteq Gone'
<1> SUFFICES ASSUME NEW f \in Gone PROVE f \in Gone'
  OBVIOUS
<1>1. f \in Files /\ recents[f] = {} /\ \A n \in Loads : parses[n].after = "none"
  BY DEF Gone
<1>2. \A n \in Loads : parses'[n].after = "none"
  BY <1>1 DEF NoneRaised
<1>3. recents' = recents \/ \E e : recents' = [recents EXCEPT ![e] = {}]
  <2>1. CASE Reader
    BY <2>1 DEF Reader, StartLoad, PickActive, PickCached, PickFile, RemoveRecent,
                StartCompareSeeded, AskForFile, StartCompareLoad, StartLoadFolder,
                StartLoadFromUrl, CancelParse, Reset, CompareWithAnotherRun, ResetToDropZone,
                DropSeed, BackToTheRun, DrillIn, DrillIntoRun, BackToComparison, CloseComparison
  <2>2. CASE Answer
    BY <2>2 DEF Answer, Granted, Unreadable, Dismissed, PickedFileGone
  <2>3. ASSUME NEW n \in Loads, Resolve(n) \/ Parse(n) \/ WorkerCrash(n) \/ Finish(n)
        PROVE  recents' = recents
    <3>1. ~RecordRecent(n)
      BY <1>1 DEF RecordRecent
    <3> QED BY <2>3, <3>1 DEF Resolve, Resolved, Unresolved, Parse, WorkerData, RunDone,
                              AnalysisThrows, BaselineDone, CandidateDone, CompareThrows,
                              ParseError, ShsError, WorkerCrash, OnError, Finish, Prefetched
  <2>4. CASE UNCHANGED vars
    BY <2>4 DEF vars
  <2> QED BY <2>1, <2>2, <2>3, <2>4 DEF Next
<1>4. recents'[f] = {}
  BY <1>1, <1>3 DEF SideInv
<1> QED BY <1>1, <1>2, <1>4 DEF Gone

\* A worker that is started is of the load that clientRef names.
LEMMA StartedIsRef ==
  ASSUME SInv
  PROVE  \A n \in Loads : parses[n].worker \in Started => clientRef = n
  BY DEF SInv, Placed, Started, Live

ScreenInv == \A g : g = Gone => Shown(g)

\* A pick that finds its file gone excuses it, unless a prefetch is awaited: then
\* no comparison is there.
LEMMA PickGoneShows ==
  ASSUME SInv, SideInv, PrefetchInv, NEW g, g = Gone, Shown(g), NEW h, h = Gone',
         NEW w \in waiting, PickedFileGone(w)
  PROVE  Shown(h)'
<1>1. parses' = parses /\ recents' = [recents EXCEPT ![w.file] = {}] /\ Idle
      /\ store' = [store EXCEPT !.sessionCache[w.file] = {}]
  BY DEF PickedFileGone
<1>2. CASE \A n \in Loads : parses[n].after = "none"
  <2>1. g \subseteq h /\ (w.file \in Files => w.file \in h)
    BY <1>1, <1>2 DEF Gone, SideInv
  <2> QED BY <2>1, GoneShows
<1>3. CASE ~\A n \in Loads : parses[n].after = "none"
  <2>1. PICK n \in Loads : parses[n].after # "none"
    BY <1>3
  <2>2. parses[n].after = "prefetch"
    BY <1>1, <2>1 DEF Idle, SInv, Parses
  <2>3. clientRef = n /\ parses[n].kind \in Single /\ store.baseline = NoFile
    BY <2>2 DEF PrefetchInv
  <2>4. \A m \in Loads : parses'[m].worker \in Started => parses'[m].kind # "B"
    BY <1>1, <2>3, StartedIsRef DEF Single
  <2>5. store'.baseline = NoFile
    BY <1>1, <2>3, SameStore DEF GoodStore, Stores
  <2>6. PICK e : e = g \cup {w.file}
    OBVIOUS
  <2>7. Shown(e)'
    BY <2>6, GoneShows
  <2> QED BY <2>4, <2>5, <2>7, NoExcuse
<1> QED BY <1>2, <1>3

\* Every step keeps the screen true.
LEMMA ScreenStep ==
  ASSUME SInv, SInv', SideInv, PrefetchInv, ScreenInv, [Next]_vars
  PROVE  ScreenInv'
<1> SUFFICES ASSUME NEW h, h = Gone' PROVE Shown(h)'
  BY DEF ScreenInv
<1>1. PICK g : g = Gone
  OBVIOUS
<1>2. Shown(g)
  BY <1>1 DEF ScreenInv
<1>3. CASE \E w \in waiting : PickedFileGone(w)
  BY <1>1, <1>2, <1>3, PickGoneShows
<1>4. CASE ~\E w \in waiting : PickedFileGone(w)
  <2>1. Shown(g)'
    BY <1>2, <1>4, ScreenKept
  <2>2. CASE NoneRaised
    <3>1. g \subseteq h
      BY <1>1, <2>2, StaysGone
    <3> QED BY <2>1, <3>1, MoreExcused
  <2>3. CASE \E n \in Loads : RunDone(n)
    <3>1. PICK n \in Loads : RunDone(n)
      BY <2>3
    <3>2. store.baseline = NoFile /\ parses[n].kind \in Single /\ parses[n].worker = "loaded"
      BY <3>1, DoneRests
    <3>3. clientRef = n /\ Handlers(n) = n
      BY <3>2, ItsOwn DEF Live
    <3>4. /\ \A m \in Loads : m # n => parses'[m] = parses[m]
          /\ parses'[n].kind = parses[n].kind
      BY <3>1, <3>3 DEF RunDone, SInv, Parses
    <3>5. \A m \in Loads : parses'[m].worker \in Started => parses'[m].kind # "B"
      BY <3>2, <3>3, <3>4, StartedIsRef DEF Single
    <3>6. store'.baseline = NoFile
      BY <3>1, <3>2, SameStore DEF RunDone, InstallRun, GoodStore, Stores
    <3> QED BY <2>1, <3>5, <3>6, NoExcuse
  <2> QED BY <2>2, <2>3, PrefetchStep
<1> QED BY <1>3, <1>4

\* The four invariants, of every state.
LEMMA ScreenHolds == Spec /\ [][Apart]_vars => [](SInv /\ SideInv /\ PrefetchInv /\ ScreenInv)
<1> DEFINE All == SInv /\ SideInv /\ PrefetchInv /\ ScreenInv
<1>1. ASSUME Init PROVE All
  <2>1. SInv
    BY <1>1, InitHolds
  <2>2. SideInv
    <3>1. recents \in [Files -> Runs]
      BY <1>1 DEF Init, Runs, Sources
    <3> QED BY <1>1, <3>1, Members DEF Init, SideInv, Answers
  <2>3. \A n \in Loads : parses[n].worker = "none" /\ parses[n].after = "none"
    BY <1>1 DEF Init, NoParse
  <2>4. ASSUME NEW g PROVE ScreenStore(store, g) /\ store.shsParsing = FALSE
    BY <1>1, SessionAssumption DEF Init, ScreenStore
  <2>5. ScreenInv
    BY <2>3, <2>4 DEF ScreenInv, Shown, Peers, Fetching, Started
  <2>6. PrefetchInv
    BY <2>3 DEF PrefetchInv, Parsing
  <2> QED BY <2>1, <2>2, <2>5, <2>6
<1>2. ASSUME All, [Next]_vars, [Apart]_vars PROVE All'
  <2>1. SInv'
    BY <1>2, NextHolds
  <2>2. PrefetchInv'
    BY <1>2, PrefetchStep
  <2> QED BY <1>2, <2>1, <2>2, SideStep, ScreenStep
<1> HIDE DEF All
<1>3. Spec /\ [][Apart]_vars => []All
  BY <1>1, <1>2, PTL DEF Spec
<1> QED BY <1>3 DEF All

\* The dashboard has a run, a comparison on screen the snapshots of both its
\* runs unless a file left the recent-files list, the landing says "Fetching..."
\* only during a fetch or beside an error, and every value has its type
\* (useIngest.ts, runDone, pickRecent, startCompareLoad; store.ts,
\* openComparison), with the same exception.
THEOREM ScreenCorrect == Spec /\ [][Apart]_vars => []ScreenIsTrue
<1>1. SInv /\ SideInv => TypeOK
  <2>1. SInv => \A n \in Loads : Alive(n) => parses[n].host \in Loads
    BY Alone
  <2>2. SInv => clientRef \in Loads \cup {NoLoad}
    BY SessionAssumption DEF SInv, Loads, NoLoad
  <2>3. SInv => /\ store \in Stores /\ loads \in 0..MaxLoads /\ waiting \in SUBSET Intakes
                /\ parses \in [Loads -> Parses]
                /\ clients \in [Loads -> [handlers : Loads \cup {NoLoad}, worker : Loads \cup {NoLoad}]]
    BY DEF SInv, GoodStore, Clients
  <2>4. SideInv => /\ pendingRef \in Sources /\ recents \in [Files -> Runs]
                   /\ answer \in {"none", "restored", "started", "gone", "noop"}
    BY DEF SideInv, Answers
  <2> QED BY <2>1, <2>2, <2>3, <2>4 DEF TypeOK
<1>2. ASSUME SInv, ScreenInv PROVE ScreenHasItsRuns /\ FetchingOrError
  <2>1. PICK g : g = Gone
    OBVIOUS
  <2>2. Shown(g)
    BY <1>2, <2>1 DEF ScreenInv
  <2>3. ASSUME NEW f, Cached(f, store, g) PROVE store.sessionCache[f] # {} \/ recents[f] = {}
    BY <2>1, <2>3 DEF Cached, Gone
  <2>4. ScreenHasItsRuns
    BY <1>2, <2>2, <2>3 DEF SInv, GoodStore, Stores, Shown, ScreenStore, ScreenHasItsRuns,
                            Comparison
  <2>5. FetchingOrError
    BY <1>2, <2>2 DEF SInv, GoodStore, Stores, Shown, Fetching, Running, FetchingOrError,
                      ShsRunning, Landing
  <2> QED BY <2>4, <2>5
<1> QED BY <1>1, <1>2, ScreenHolds, PTL DEF ScreenIsTrue
=============================================================================
