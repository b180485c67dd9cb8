----------------------------- MODULE ChunkDecoder -----------------------------
(***************************************************************************)
(* buildChunkDecoder (packages/core/src/event-handlers.ts): the lines of a *)
(* log, out of slices of its bytes that end anywhere.  The open value of a *)
(* plan description is cut out of the line that holds it once it is too    *)
(* long, and the rest of it is skipped undecoded.                          *)
(*                                                                         *)
(* A byte is the name of what tells it apart.  "m1" and "m2" are the bytes *)
(* of one character, "m"; any other byte is a character.  "P" "Q" stands   *)
(* for SQL_UI_EVENT_PREFIX, "K" "L" for PLAN_DESCRIPTION_KEY, "h" for      *)
(* PLAN_HEADER and "s" for a name in SMALL_DESCRIPTION_COMMANDS.           *)
(***************************************************************************)
EXTENDS Integers, Sequences, SequencesExt, FiniteSetsExt

CONSTANTS Texts,         \* the logs
          MaxSlice,      \* bound: bytes of a slice (MAX_DECODE_SLICE)
          MaxScanned     \* MAX_SCANNED_DESCRIPTION

ASSUME DecoderAssumption == Texts \subseteq Seq(STRING) /\ {MaxSlice, MaxScanned} \subseteq Nat \ {0}

SqlPrefix == <<"P", "Q">>
PlanKey == <<"K", "L">>
Quote == "q"
Backslash == "b"
Newline == "n"
Header == "h"
SmallCommand == "s"

VARIABLES
  text,   \* the log
  at,     \* bytes of it that were decoded
  dec,    \* the decoder's variables
  lines   \* the lines it returned, with the pieces of those that were joined

decoderVars == <<text, at, dec, lines>>

Fresh == [pending |-> <<>>, head |-> <<>>, settled |-> FALSE, isSql |-> FALSE,
          keyTail |-> <<>>, valueStart |-> 0, skipping |-> FALSE, carried |-> 0,
          held |-> FALSE, flushed |-> FALSE]

DecoderInit == text \in Texts /\ at = 0 /\ dec = Fresh /\ lines = <<>>

-----------------------------------------------------------------------------
(* Searching.  Positions count from 1, and 0 says there is none.            *)

First(S) == IF S = {} THEN 0 ELSE Min(S)
IndexOf(s, x, from) == First({i \in from..Len(s) : s[i] = x})
IndexOfSeq(s, key) ==
  First({i \in 1..(Len(s) - Len(key) + 1) : SubSeq(s, i, i + Len(key) - 1) = key})
Suffix(s, n) == SubSeq(s, Max({1, Len(s) - n + 1}), Len(s))
From(s, i) == SubSeq(s, i, Len(s))

\* Backslashes right before position i, none of them before `from`.
RunBefore(s, i, from) == i - 1 - Max({j \in from..(i - 1) : s[j] # Backslash} \cup {from - 1})
Even(n) == n % 2 = 0

\* closingQuoteIndex
ClosingQuoteIndex(s, from) ==
  First({i \in from..Len(s) : s[i] = Quote /\ Even(RunBefore(s, i, from))})

\* closingQuoteAt: `carried` continues into a run that starts the bytes.
ClosingQuoteForgetful(s, limit, carried) ==
  First({i \in 1..(limit - 1) : s[i] = Quote /\ Even(RunBefore(s, i, 1))})
ClosingQuoteAt(s, limit, carried) ==
  First({i \in 1..(limit - 1) :
           s[i] = Quote /\ LET run == RunBefore(s, i, 1)
                            IN  Even(IF run = i - 1 THEN run + carried ELSE run)})

\* A streaming TextDecoder: the first byte of a character waits for the second.
DecodeByte(d, b) ==
  CASE b = "m1" -> [out |-> IF d.held THEN Append(d.out, "?") ELSE d.out, held |-> TRUE]
    [] b = "m2" -> [out |-> Append(d.out, IF d.held THEN "m" ELSE "?"), held |-> FALSE]
    [] OTHER    -> [out |-> IF d.held THEN d.out \o <<"?", b>> ELSE Append(d.out, b), held |-> FALSE]
DecodeBytes(held, bytes) ==
  LET decoded[i \in 0..Len(bytes)] ==
        IF i = 0 THEN [out |-> <<>>, held |-> held] ELSE DecodeByte(decoded[i - 1], bytes[i])
  IN  decoded[Len(bytes)]

-----------------------------------------------------------------------------
(* settlePending: whether the pending line needs its description skipped.   *)

\* findPlanKey, which searches `appended` and the seam before it only.
FindIgnoringSeam(d, appended) ==
  LET inText == IndexOfSeq(appended, PlanKey)
  IN  IF inText = 0 THEN 0 ELSE Len(d.pending) - Len(appended) + inText
FindPlanKey(d, appended) ==
  LET before == Len(d.pending) - Len(appended)
      inSeam == IndexOfSeq(d.keyTail \o SubSeq(appended, 1, Min({1, Len(appended)})), PlanKey)
      inText == IndexOfSeq(appended, PlanKey)
  IN  IF d.keyTail # <<>> /\ inSeam # 0 THEN before - Len(d.keyTail) + inSeam
      ELSE IF inText # 0 THEN before + inText ELSE 0

\* descriptionDisposition
Disposition(s, from) ==
  LET value == From(s, from)
      small == value # <<>> /\ value[1] = Header /\ (Len(value) > 1 /\ value[2] = SmallCommand)
  IN  CASE value = <<>> \/ value = <<Header>> -> "wait"
        [] small -> "keep"
        [] OTHER -> IF Len(value) > MaxScanned THEN "skip" ELSE "wait"

SkipValue(d, from, lastByte) ==
  [d EXCEPT !.settled = TRUE, !.valueStart = 0, !.skipping = TRUE, !.held = FALSE,
            !.carried = IF lastByte = Backslash
                          THEN RunBefore(d.pending, Len(d.pending) + 1, from) ELSE 0,
            !.pending = SubSeq(@, 1, from - 1), !.head = SubSeq(d.pending, 1, from - 1)]

SettleValue(d, from, lastByte) ==
  IF ClosingQuoteIndex(d.pending, from) # 0
    THEN [d EXCEPT !.valueStart = 0, !.settled = TRUE]
    ELSE CASE Disposition(d.pending, from) = "wait" -> [d EXCEPT !.valueStart = from]
           [] Disposition(d.pending, from) = "keep" -> [d EXCEPT !.valueStart = 0, !.settled = TRUE]
           [] OTHER -> SkipValue(d, from, lastByte)

SettleSql(d, appended, lastByte) ==
  LET keyAt == FindPlanKey(d, appended)
      from == IF d.valueStart # 0 THEN d.valueStart ELSE keyAt + Len(PlanKey)
      seen == IF d.valueStart # 0 THEN d
              ELSE [d EXCEPT !.keyTail = IF appended = <<>> THEN @ ELSE Suffix(appended, 1)]
  IN  IF d.valueStart = 0 /\ keyAt = 0 THEN seen ELSE SettleValue(d, from, lastByte)

SettlePending(d, appended, lastByte) ==
  IF d.settled \/ d.pending = <<>> THEN d
  ELSE IF d.isSql THEN SettleSql(d, appended, lastByte)
  ELSE IF Len(d.pending) < Len(SqlPrefix)
    THEN [d EXCEPT !.settled = ~IsPrefix(d.pending, SqlPrefix)]
  ELSE IF ~IsPrefix(SqlPrefix, d.pending) THEN [d EXCEPT !.settled = TRUE]
  ELSE SettleSql([d EXCEPT !.isSql = TRUE, !.keyTail = <<>>], d.pending, lastByte)

-----------------------------------------------------------------------------
(* decodeSlice.                                                             *)

Line(chars) == [chars |-> chars, head |-> chars, tail |-> chars]

\* The lines that end in the decoded text, the first of them after `line`, and
\* what is left of it; empty lines are dropped.
CutAt(cut, char) ==
  IF char # Newline THEN [cut EXCEPT !.rest = @ \o <<char>>]
  ELSE [ended |-> IF cut.rest = <<>> THEN cut.ended ELSE cut.ended \o <<cut.rest>>, rest |-> <<>>]
Cut(line, chars) ==
  LET cut[i \in 0..Len(chars)] ==
        IF i = 0 THEN [ended |-> <<>>, rest |-> line] ELSE CutAt(cut[i - 1], chars[i])
  IN  cut[Len(chars)]

EndedLines(d, chars) ==
  LET ended == Cut(d.pending, chars).ended
      joined == [chars |-> ended[1], head |-> d.head, tail |-> From(ended[1], Len(d.pending) + 1)]
  IN  [n \in 1..Len(ended) |-> IF n = 1 /\ d.pending # <<>> THEN joined ELSE Line(ended[n])]

NewPending(d, chars) ==
  LET rest == Cut(d.pending, chars).rest
  IN  IF Newline \in ToSet(chars)
        THEN [d EXCEPT !.pending = rest, !.head = rest, !.settled = FALSE,
                       !.isSql = FALSE, !.valueStart = 0]
      ELSE IF d.pending = <<>>
        THEN [d EXCEPT !.pending = rest, !.head = rest, !.isSql = FALSE]
      ELSE [d EXCEPT !.pending = rest]

Appended(d, chars) ==
  IF Newline \in ToSet(chars) THEN NewPending(d, chars).pending ELSE chars

\* What is left of the slice once the skipped value closed in it, or its line.
StillSkipping(bytes) ==
  LET lineEnd == IndexOf(bytes, Newline, 1)
  IN  lineEnd = 0 /\ ClosingQuoteAt(bytes, Len(bytes) + 1, dec.carried) = 0

SkipSlice(bytes) ==
  LET run == RunBefore(bytes, Len(bytes) + 1, 1)
  IN  /\ dec' = [dec EXCEPT !.carried = IF run = Len(bytes) THEN run + @ ELSE run]
      /\ UNCHANGED lines

Resumed(bytes) ==
  LET lineEnd == IndexOf(bytes, Newline, 1)
      close == ClosingQuoteAt(bytes, IF lineEnd = 0 THEN Len(bytes) + 1 ELSE lineEnd, dec.carried)
  IN  IF ~dec.skipping THEN bytes ELSE From(bytes, IF close # 0 THEN close ELSE lineEnd)

DecodeText(bytes) ==
  LET decoded == DecodeBytes(dec.held, Resumed(bytes))
      before == [dec EXCEPT !.skipping = FALSE, !.held = decoded.held]
  IN  /\ lines' = lines \o EndedLines(dec, decoded.out)
      /\ dec' = SettlePending(NewPending(before, decoded.out), Appended(dec, decoded.out),
                              bytes[Len(bytes)])

DecodeSlice(n) ==
  /\ ~dec.flushed
  /\ at + n <= Len(text)
  /\ LET bytes == SubSeq(text, at + 1, at + n) IN
       IF dec.skipping /\ StillSkipping(bytes) THEN SkipSlice(bytes) ELSE DecodeText(bytes)
  /\ at' = at + n
  /\ UNCHANGED text

Flush ==
  /\ ~dec.flushed
  /\ at = Len(text)
  /\ LET last == dec.pending \o (IF dec.held THEN <<"?">> ELSE <<>>)
     IN  lines' = IF last = <<>> THEN lines ELSE Append(lines, Line(last))
  /\ dec' = [dec EXCEPT !.pending = <<>>, !.held = FALSE, !.flushed = TRUE]
  /\ UNCHANGED <<text, at>>

DecoderNext == (\E n \in 1..MaxSlice : DecodeSlice(n)) \/ Flush

DecoderSpec == DecoderInit /\ [][DecoderNext]_decoderVars

-----------------------------------------------------------------------------
(* Properties.                                                              *)

\* The whole text cut into its lines, with an unfinished last character.
WholeLines ==
  LET d == DecodeBytes(FALSE, text)
  IN  Cut(<<>>, d.out \o (IF d.held THEN <<"?">> ELSE <<>>) \o <<Newline>>).ended

\* Where the plan description of a line starts, or 0.
ValueStart(line) ==
  IF IsPrefix(SqlPrefix, line) /\ IndexOfSeq(line, PlanKey) # 0
    THEN IndexOfSeq(line, PlanKey) + Len(PlanKey) ELSE 0

\* A line without its description, and whether the code may cut it so.
Emptied(line) ==
  LET from == ValueStart(line)
      close == ClosingQuoteIndex(line, from)
  IN  SubSeq(line, 1, from - 1) \o (IF close = 0 THEN <<>> ELSE From(line, close))
TooLong(line) ==
  LET from == ValueStart(line)
      close == ClosingQuoteIndex(line, from)
  IN  /\ from # 0
      /\ (IF close = 0 THEN Len(line) + 1 ELSE close) - from > MaxScanned
      /\ ~IsPrefix(<<Header, SmallCommand>>, From(line, from))

\* However a log is cut, what is returned are its lines, in order and whole but
\* for plan descriptions too long to be read; a character, an escape, the
\* prefix or the key split across slices changes nothing (buildChunkDecoder).
LinesWhole ==
  /\ \A n \in DOMAIN lines :
       /\ n <= Len(WholeLines)
       /\ \/ lines[n].chars = WholeLines[n]
          \/ TooLong(WholeLines[n]) /\ lines[n].chars = Emptied(WholeLines[n])
  /\ dec.flushed => Len(lines) = Len(WholeLines)

\* The two flat pieces reported of a joined line are its beginning and its end
\* (JoinedLine), also of a line whose description was cut out between them.
PiecesOfLine ==
  \A n \in DOMAIN lines : /\ IsPrefix(lines[n].head, lines[n].chars)
                          /\ IsSuffix(lines[n].tail, lines[n].chars)

\* The lines of the text, and of each line its pieces, whatever the slices are.
LinesOfText == LinesWhole /\ PiecesOfLine

\* A description still open when a slice ends is not kept beyond what may be
\* read of it, unless it is a small command's (settlePending).
OpenValueBounded ==
  LET from == ValueStart(dec.pending)
      value == From(dec.pending, from)
  IN  (from # 0 /\ ClosingQuoteIndex(dec.pending, from) = 0
         /\ ~IsPrefix(<<Header, SmallCommand>>, value))
        => Len(value) <= MaxScanned
=============================================================================
