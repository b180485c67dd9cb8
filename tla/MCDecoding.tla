------------------------------ MODULE MCDecoding ------------------------------
(***************************************************************************)
(* The three stages between the bytes of a log and its lines that are      *)
(* modelled apart: the parse that reads slices of its parts (ParserWorker),*)
(* Node's zstd decoder (NativeZstd) and the cutting of decoded bytes into  *)
(* lines (ChunkDecoder).  Each passes on only what the next one's model    *)
(* chooses freely, so a behaviour is one of theirs: `stage` says which,    *)
(* and the others keep their initial state.                                *)
(***************************************************************************)
EXTENDS ParserWorker, NativeZstd, ChunkDecoder

VARIABLE stage

decodingVars == <<workerVars, nativeVars, decoderVars, stage>>

\* The logs: tokens that a plan description may hold, alone and in runs, after
\* the starts that decide what becomes of it, and the ways its line goes on.
Tokens == {<<"x">>, <<"b", "q">>, <<"b", "b">>, <<"m1", "m2">>}
Values == UNION {[1..n -> Tokens] : n \in 0..2}
            \cup {<<t, <<"b", "b">>, <<"b", "q">>>> : t \in Tokens}
Starts == {<<>>, <<"h", "s">>, <<"h", "x">>}
Ends == {<<"q", "n", "x">>, <<"q", "n", "P", "Q", "n">>, <<"n", "x">>, <<>>}
SomeTexts ==
  {<<"P", "Q", "K", "L">> \o start \o FlattenSeq(v) \o end :
     start \in Starts, v \in Values, end \in Ends}
  \cup {<<"x", "K", "L">> \o FlattenSeq(v) \o <<"q", "n", "m1">> : v \in [1..2 -> Tokens]}
  \cup {<<"P", "Q", "m1", "m2", "K", "L">> \o FlattenSeq(v) \o <<"q", "n">> : v \in [1..2 -> Tokens]}

DecodingInit ==
  /\ stage \in {"parse", "zstd", "lines"}
  /\ WorkerInit /\ NativeInit /\ DecoderInit
  /\ stage # "lines" => text = <<"P", "Q", "K", "L">>

DecodingNext ==
  \/ stage = "parse" /\ WorkerNext /\ UNCHANGED <<nativeVars, decoderVars, stage>>
  \/ stage = "zstd" /\ NativeNext /\ UNCHANGED <<workerVars, decoderVars, stage>>
  \/ stage = "lines" /\ DecoderNext /\ UNCHANGED <<workerVars, nativeVars, stage>>

DecodingSpec ==
  /\ DecodingInit /\ [][DecodingNext]_decodingVars
  /\ WF_workerVars(stage = "parse" /\ Step /\ UNCHANGED <<nativeVars, decoderVars, stage>>)
  /\ WF_nativeVars(stage = "zstd" /\ Work /\ UNCHANGED <<workerVars, decoderVars, stage>>)
  /\ \A f \in 1..MaxFrames :
       WF_nativeVars(/\ stage = "zstd" /\ f \in DOMAIN threads /\ ThreadEvent(f)
                     /\ UNCHANGED <<workerVars, decoderVars, stage>>)
=============================================================================
