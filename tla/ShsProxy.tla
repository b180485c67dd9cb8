------------------------------- MODULE ShsProxy -------------------------------
(***************************************************************************)
(* One History Server download through the local server                    *)
(* (packages/core/src/proxy.js): the request to the History Server with    *)
(* its header timer, the body piped to the browser under the idle          *)
(* watchdog, and what the browser's client (shs-fetch.ts runParseFromUrl)  *)
(* makes of the response.                                                  *)
(*                                                                         *)
(* A body is a number of chunks.  Events of a stream are delivered after   *)
(* the call that causes them, so several may be due at once, in any order. *)
(***************************************************************************)
EXTENDS Integers

CONSTANTS MaxBody   \* bound: chunks of the body

ASSUME ProxyAssumption == MaxBody \in Nat \ {0}   \* a zip is never empty

VARIABLES
  phase,      \* "new", "fetching", "piping" or "over": what handleShsProxy awaits
  upstream,   \* the History Server: "none", "connected", "ended" or "broken"
  sent,       \* chunks it sent
  reader,     \* nodeStream: "none", "flowing", "paused", "ended" or "destroyed"
  due,        \* events to be delivered: "readerError", "resFinish", "resClose"
  res,        \* the response: "none", "error", "open", "ended", "finished" or "destroyed"
  watchdog,   \* the idle timer is set
  settled,
  client,     \* the browser: "waiting", "reading", "whole", "failed" or "gone"
  received    \* chunks it got

proxyVars == <<phase, upstream, sent, reader, due, res, watchdog, settled, client, received>>

ProxyInit ==
  /\ phase = "new" /\ upstream = "none" /\ sent = 0 /\ reader = "none" /\ due = {}
  /\ res = "none" /\ watchdog = FALSE /\ settled = FALSE
  /\ client = "waiting" /\ received = 0

-----------------------------------------------------------------------------
(* Until the headers.                                                       *)

\* sendSafeError: a complete response that is not a 200.
SafeError == res' = "error" /\ phase' = "over"

\* isSameOriginRequest and validateShsRequest, then the fetch.
Handle ==
  /\ phase = "new"
  /\ \/ SafeError /\ UNCHANGED upstream
     \/ phase' = "fetching" /\ upstream' = "connected" /\ UNCHANGED res
  /\ UNCHANGED <<sent, reader, due, watchdog, settled, client, received>>

\* The header timer, a connection failure, a status other than 200, no body.
NoHeaders ==
  /\ phase = "fetching"
  /\ SafeError
  /\ upstream' = "broken"
  /\ UNCHANGED <<sent, reader, due, watchdog, settled, client, received>>

\* A client that left meanwhile has closed the response: the event has gone by.
Headers ==
  /\ phase = "fetching"
  /\ phase' = "piping" /\ reader' = "flowing" /\ watchdog' = TRUE
  /\ res' = IF res = "destroyed" THEN "destroyed" ELSE "open"
  /\ client' = IF client = "waiting" THEN "reading" ELSE client
  /\ UNCHANGED <<upstream, sent, due, settled, received>>

-----------------------------------------------------------------------------
(* The History Server and the network.                                      *)

\* A chunk.  pipe() pauses when the response takes no more, and for ever when it
\* writes to one that is closed.
UpstreamSends ==
  /\ upstream = "connected" /\ reader = "flowing" /\ sent < MaxBody
  /\ sent' = sent + 1
  /\ IF res = "open" THEN received' = received + 1 /\ reader' \in {"flowing", "paused"}
     ELSE reader' = "paused" /\ UNCHANGED received
  /\ UNCHANGED <<phase, upstream, due, res, watchdog, settled, client>>

\* The end of the body: pipe() ends the response.
UpstreamEnds ==
  /\ upstream = "connected" /\ reader = "flowing" /\ sent = MaxBody
  /\ upstream' = "ended" /\ reader' = "ended"
  /\ IF res = "open" THEN res' = "ended" /\ due' = due \cup {"resFinish"}
     ELSE UNCHANGED <<res, due>>
  /\ UNCHANGED <<phase, sent, received, watchdog, settled, client>>

UpstreamBreaks ==
  /\ upstream = "connected" /\ reader \in {"flowing", "paused"}
  /\ upstream' = "broken" /\ reader' = "destroyed"
  /\ due' = due \cup {"readerError"}
  /\ UNCHANGED <<phase, sent, res, received, watchdog, settled, client>>

\* The response takes more: pipe() resumes.
Drain ==
  /\ reader = "paused" /\ res = "open"
  /\ reader' = "flowing"
  /\ UNCHANGED <<phase, upstream, sent, due, res, watchdog, settled, client, received>>

\* The client goes away: its end of the connection closes.
ClientLeaves ==
  /\ client \in {"waiting", "reading"}
  /\ client' = "gone"
  /\ res' = IF res \in {"none", "open", "ended"} THEN "destroyed" ELSE res
  /\ due' = IF phase = "piping" THEN due \cup {"resClose"} ELSE due
  /\ UNCHANGED <<phase, upstream, sent, reader, watchdog, settled, received>>

-----------------------------------------------------------------------------
(* The watchdog and the handlers of the two streams.                        *)

Finish == settled' = TRUE /\ watchdog' = FALSE /\ phase' = "over"

\* destroy() without the error that tells the handler of it.
DestroyQuietly(withError) ==
  /\ reader' = IF reader \in {"flowing", "paused"} THEN "destroyed" ELSE reader
  /\ UNCHANGED due

\* destroy(): nothing on a stream that ended, else an error event when given one.
DestroyReader(withError) ==
  IF reader \notin {"flowing", "paused"} THEN UNCHANGED <<reader, due>>
  ELSE reader' = "destroyed" /\ due' = IF withError THEN due \cup {"readerError"} ELSE due

\* The time without a chunk is up: every chunk restarts the timer, and none has
\* to come.
WatchdogEnds ==
  /\ watchdog
  /\ watchdog' = FALSE
  /\ DestroyReader(TRUE)
  /\ UNCHANGED <<phase, upstream, sent, res, settled, client, received>>

EndResponse == res' = IF res = "open" THEN "finished" ELSE res   \* end(), as if it were whole
\* res.destroy(err): the client must see that the body is cut off.
CutResponse == res' = IF res \in {"open", "ended"} THEN "destroyed" ELSE res

ReaderError ==
  /\ phase = "piping" /\ "readerError" \in due
  /\ due' = due \ {"readerError"}
  /\ IF settled THEN UNCHANGED <<res, settled, watchdog, phase>>
     ELSE CutResponse /\ Finish
  /\ UNCHANGED <<upstream, sent, reader, client, received>>

\* res.on('finish'): everything was handed to the connection.
ResponseFinish ==
  /\ phase = "piping" /\ "resFinish" \in due
  /\ res' = IF res = "ended" THEN "finished" ELSE res
  /\ IF res = "ended" THEN Finish ELSE UNCHANGED <<settled, watchdog, phase>>
  /\ due' = due \ {"resFinish"}
  /\ UNCHANGED <<upstream, sent, reader, client, received>>

IgnoreClose == phase' = phase /\ UNCHANGED <<reader, settled, watchdog>> /\ due' = due \ {"resClose"}
\* res.on('close') and res.on('error'): stop the read nobody waits for.
StopReading ==
  /\ reader' = IF reader \in {"flowing", "paused"} THEN "destroyed" ELSE reader
  /\ due' = due \ {"resClose"}
  /\ IF settled THEN UNCHANGED <<settled, watchdog, phase>> ELSE Finish

ResponseClose ==
  /\ phase = "piping" /\ "resClose" \in due
  /\ StopReading
  /\ UNCHANGED <<upstream, sent, res, client, received>>

-----------------------------------------------------------------------------
(* The browser's client: a response that was cut off rejects its read.      *)

ClientReads ==
  /\ client \in {"waiting", "reading"}
  /\ client' = CASE res = "finished" -> "whole"
                 [] res \in {"error", "destroyed"} -> "failed"
                 [] OTHER -> client
  /\ client' # client
  /\ UNCHANGED <<phase, upstream, sent, reader, due, res, watchdog, settled, received>>

Events == ReaderError \/ ResponseFinish \/ ResponseClose
ProxyNext == Handle \/ NoHeaders \/ Headers \/ UpstreamSends \/ UpstreamEnds \/ UpstreamBreaks
               \/ Drain \/ ClientLeaves \/ WatchdogEnds \/ Events \/ ClientReads

\* The handler runs, the two timers run out and events are delivered.  The
\* History Server owes nothing: it need not send, end or break.  A browser may
\* never take more (Drain), but it takes what is left of a body that has ended
\* (ResponseFinish) and sees how its response ended.
ProxySpec == /\ ProxyInit /\ [][ProxyNext]_proxyVars
             /\ WF_proxyVars(Handle) /\ WF_proxyVars(NoHeaders) /\ WF_proxyVars(WatchdogEnds)
             /\ WF_proxyVars(Events) /\ WF_proxyVars(ClientReads)

-----------------------------------------------------------------------------
(* Properties.                                                              *)

\* A body cut off by the History Server, by the watchdog or by anything else
\* never looks whole to the browser, though the 200 is out by then.
WholeIsWhole == client = "whole" => received = MaxBody

\* A request is always over in the end, and its client answered, though the
\* History Server stalls for good after its headers or in the body and the
\* client stops taking the body or leaves: only the two timers then end it.
DownloadSettles == (phase # "new") ~> (phase = "over" /\ client \in {"whole", "failed", "gone"})
=============================================================================
