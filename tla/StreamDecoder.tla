--------------------------- MODULE StreamDecoder ---------------------------
(***************************************************************************)
(* What every ZstdDecoderFactory promises the code that streams files      *)
(* through it (parser-worker.ts streamFile, shs-fetch.ts                   *)
(* createEntryDecoder): streams are decoded one at a time; each push hands *)
(* the decoder one more compressed slice and is awaited; decoded blocks    *)
(* reach onChunk in order; a final push returns only once every block of   *)
(* the stream was fed; and after a failure nothing more is fed.            *)
(*                                                                         *)
(* The n-th block a stream decodes to is the number n.                     *)
(***************************************************************************)
EXTENDS Integers, Sequences

CONSTANTS Streams,     \* the ids of the streams, in the order they are opened
          NoStream,    \* the predecessor of the first id
          MaxBlocks    \* most blocks one slice decodes to

VARIABLES cur,         \* the stream being decoded
          status,      \* what its caller is doing
          last,        \* whether the slice of the latest push was the final one
          given,       \* how many blocks the slices pushed on a stream decode to
          fed          \* the blocks onChunk was called with, per stream

vars == <<cur, status, last, given, fed>>

Init == /\ cur = NoStream
        /\ status = "idle"
        /\ last = FALSE
        /\ given = [k \in Streams |-> 0]
        /\ fed = [k \in Streams |-> <<>>]

Open == /\ status \in {"idle", "done", "failed"}
        /\ cur + 1 \in Streams
        /\ cur' = cur + 1
        /\ status' = "reading"
        /\ UNCHANGED <<last, given, fed>>

\* A push may return at once, unless its slice is the final one.
Push == /\ status = "reading"
        /\ \E n \in 0..MaxBlocks : given' = [given EXCEPT ![cur] = @ + n]
        /\ last' \in BOOLEAN
        /\ status' \in (IF last' THEN {"pushing"} ELSE {"pushing", "reading"})
        /\ UNCHANGED <<cur, fed>>

Feed == /\ status \in {"reading", "pushing"}
        /\ \E n \in Len(fed[cur])+1 .. given[cur] :
              fed' = [fed EXCEPT ![cur] = [b \in 1..n |-> b]]
        /\ UNCHANGED <<cur, status, last, given>>

Return == /\ status = "pushing"
          /\ last => Len(fed[cur]) = given[cur]
          /\ status' = IF last THEN "done" ELSE "reading"
          /\ UNCHANGED <<cur, last, given, fed>>

Fail == /\ status \in {"reading", "pushing"}
        /\ status' = "failed"
        /\ UNCHANGED <<cur, last, given, fed>>

Next == Open \/ Push \/ Feed \/ Return \/ Fail

Spec == Init /\ [][Next]_vars
=============================================================================
