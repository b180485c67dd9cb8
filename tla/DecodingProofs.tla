---------------------------- MODULE DecodingProofs ----------------------------
(***************************************************************************)
(* Of a parse, whatever its source, its parts, the codec of each and the   *)
(* place where it failed: once ended it leaves no zstd stream open; it     *)
(* says "done" only of a whole log; its messages come in order.  Of the    *)
(* decoder of its lines: no open plan description is kept that is too long.*)
(*                                                                         *)
(* "done" and the messages need to know where in the log the parse is:     *)
(* PlaceInv says which part and slice may be current at each step, FedInv  *)
(* that what was fed, what the decoder keeps back and what is held are, in *)
(* this order, the slices read so far, and TalkInv what was said of them.  *)
(*                                                                         *)
(* OpenInv says of the decoder between two slices what its flags mean for  *)
(* the pending line: settled, it was decided; not settled, it has no key so*)
(* far, but perhaps half of one, or an open value that is short; skipping, *)
(* it ends where the value starts.                                         *)
(***************************************************************************)
EXTENDS ParserWorker, ChunkDecoder, SequenceTheorems, WellFoundedInduction, TLAPS

Settled == ~(stream = "open" /\ Current.codec = "zstd")

\* A part starts with nothing held and no decoder.  While it is read, a file's
\* last slice was pushed with `final`, and an archive holds no slice only before
\* its first one, when no decoder is open yet.  Past it, nothing is open.
StreamInv ==
  /\ slice \in Nat
  /\ pc \in {"idle", "fetching", "opening", "header"} =>
       stream = "closed" /\ slice = 0 /\ held = 0
  /\ pc = "reading" =>
       /\ ~Archive /\ LastSlice => stream # "open"
       /\ Archive /\ held = 0 => stream = "closed"
  /\ pc = "pushing" => slice > 0
  /\ pc = "next" => held = 0
  /\ pc \in {"next", "flushing", "ended"} => Settled

-----------------------------------------------------------------------------
(* The steps before a part is read.                                         *)

LEMMA StreamInit ==
  ASSUME WorkerInit
  PROVE  StreamInv
BY DEF WorkerInit, StreamInv, Settled

LEMMA StreamTask ==
  ASSUME StreamInv, NEW s, NEW ps, Task(s, ps)
  PROVE  StreamInv'
BY DEF Task, StreamInv, Settled

LEMMA StreamDownload ==
  ASSUME StreamInv, Download
  PROVE  StreamInv'
<1>1. /\ stream = "closed" /\ slice = 0 /\ held = 0
      /\ UNCHANGED <<stream, slice, held>> /\ pc' \in {"opening", "ended"}
  BY DEF StreamInv, Download, Fail
<1> QED  BY <1>1 DEF StreamInv, Settled

LEMMA StreamOpen ==
  ASSUME StreamInv, Open
  PROVE  StreamInv'
<1>1. /\ stream = "closed" /\ slice = 0 /\ held = 0
      /\ UNCHANGED <<stream, slice, held>> /\ pc' \in {"header", "ended"}
  BY DEF StreamInv, Open, Fail
<1> QED  BY <1>1 DEF StreamInv, Settled

LEMMA StreamHeader ==
  ASSUME StreamInv, ReadHeader
  PROVE  StreamInv'
<1>1. /\ stream = "closed" /\ slice = 0 /\ held = 0
      /\ UNCHANGED <<slice, held, source, parts, part>>
      /\ \/ pc' = "ended" /\ stream' = "closed"
         \/ /\ pc' = "reading"
            /\ stream' = IF Archive \/ parts[part].slices = 0 THEN "closed" ELSE "open"
  BY DEF StreamInv, ReadHeader, Fail
<1>2. CASE stream' = "closed"
  BY <1>1, <1>2 DEF StreamInv, Settled
<1>3. CASE pc' = "reading" /\ ~Archive /\ parts[part].slices # 0
  <2>1. ~Archive' /\ ~LastSlice'
    BY <1>1, <1>3 DEF Archive, LastSlice, Current
  <2> QED  BY <1>1, <1>3, <2>1 DEF StreamInv
<1> QED  BY <1>1, <1>2, <1>3

-----------------------------------------------------------------------------
(* Reading and pushing.                                                     *)

LEMMA Cancelled ==
  ASSUME CancelStream, UNCHANGED <<parts, part>>
  PROVE  Settled'
BY DEF CancelStream, Settled, Current

LEMMA StreamRead ==
  ASSUME StreamInv, ReadSlice
  PROVE  StreamInv'
<1>1. slice \in Nat /\ UNCHANGED <<source, parts, part>>
  BY DEF StreamInv, ReadSlice
<1>2. CASE Fail /\ CancelStream /\ UNCHANGED slice
  <2>1. Settled'
    BY <1>1, <1>2, Cancelled
  <2> QED  BY <1>1, <1>2, <2>1 DEF Fail, StreamInv
<1>3. CASE slice' = slice + 1 /\ pc' = "pushing"
  BY <1>1, <1>3 DEF StreamInv
<1> QED  BY <1>2, <1>3 DEF ReadSlice

\* A push fails with the decoder cancelled, or leaves it open or finished.
LEMMA PushFact ==
  ASSUME NEW p, NEW next, Push(p, next)
  PROVE  \/ CancelStream /\ pc' = "ended"
         \/ stream' = (IF p.final THEN "finished" ELSE "open") /\ pc' = next
BY DEF Push, Fail

LEMMA StreamPush ==
  ASSUME StreamInv, PushSlice
  PROVE  StreamInv'
<1>1. /\ slice \in Nat /\ slice > 0
      /\ UNCHANGED <<source, parts, part, slice>>
  BY DEF StreamInv, PushSlice
<1>2. Archive' = Archive /\ LastSlice' = LastSlice
  BY <1>1 DEF Archive, LastSlice, Current
<1>3. CASE CancelStream /\ pc' = "ended"
  <2>1. Settled'
    BY <1>1, <1>3, Cancelled
  <2> QED  BY <1>1, <1>3, <2>1 DEF StreamInv
<1>4. CASE ~Archive /\ pc' = "reading" /\ stream' = IF LastSlice THEN "finished" ELSE "open"
  BY <1>1, <1>2, <1>4 DEF StreamInv
<1>5. CASE Archive /\ pc' = "reading" /\ held' = slice
  BY <1>1, <1>2, <1>5 DEF StreamInv
<1>6. CASE ~Archive /\ Push(PushFile, "reading")
  <2>1. PushFile.final = LastSlice
    BY DEF PushFile
  <2> QED  BY <1>3, <1>4, <1>6, <2>1, PushFact
<1>7. CASE Archive /\ Push(PushHeld, "reading") /\ held' = slice
  BY <1>3, <1>5, <1>7, PushFact
<1> QED  BY <1>5, <1>6, <1>7 DEF PushSlice

LEMMA StreamEnd ==
  ASSUME StreamInv, EndOfPart
  PROVE  StreamInv'
<1>1. slice \in Nat /\ UNCHANGED <<source, parts, part, slice>> /\ held' = 0
  BY DEF StreamInv, EndOfPart
<1>2. CASE Archive /\ held # 0 /\ EndEntry
  <2>1. PushLast.final = TRUE
    BY DEF PushLast
  <2>2. \/ CancelStream /\ pc' = "ended"
        \/ stream' = "finished" /\ pc' = "next"
    BY <1>2, <2>1, PushFact DEF EndEntry
  <2>3. Settled'
    BY <1>1, <2>2, Cancelled DEF Settled
  <2> QED  BY <1>1, <2>2, <2>3 DEF StreamInv
<1>3. CASE ~(Archive /\ held # 0) /\ UNCHANGED stream /\ pc' \in {"next", "ended"}
  <2>1. stream # "open"
    BY <1>3 DEF EndOfPart, StreamInv
  <2> QED  BY <1>1, <1>3, <2>1 DEF StreamInv, Settled
<1> QED  BY <1>2, <1>3 DEF EndOfPart, Fail

LEMMA StreamNext ==
  ASSUME StreamInv, NextPart
  PROVE  StreamInv'
<1>1. slice \in Nat /\ held = 0 /\ held' = 0 /\ UNCHANGED parts /\ Settled
  BY DEF StreamInv, NextPart
<1>2. CASE pc' = "header" /\ slice' = 0 /\ stream' = "closed"
  BY <1>1, <1>2 DEF StreamInv
<1>3. CASE pc' = "flushing" /\ UNCHANGED <<part, slice, stream>>
  BY <1>1, <1>3 DEF StreamInv, Settled, Current
<1> QED  BY <1>2, <1>3 DEF NextPart

-----------------------------------------------------------------------------
(* The end of the log, and the steps that touch no stream.                  *)

LEMMA StreamFinish ==
  ASSUME StreamInv, Finish
  PROVE  StreamInv'
<1>1. slice \in Nat /\ Settled /\ UNCHANGED <<parts, part, slice, held, stream>> /\ pc' = "ended"
  BY DEF StreamInv, Finish, Fail
<1> QED  BY <1>1 DEF StreamInv, Settled, Current

LEMMA StreamKept ==
  ASSUME StreamInv, UNCHANGED <<source, parts, pc, part, slice, held, stream>>
  PROVE  StreamInv'
BY DEF StreamInv, Settled, Archive, LastSlice, Current

LEMMA StreamStep ==
  ASSUME StreamInv, [WorkerNext]_workerVars
  PROVE  StreamInv'
<1>1. CASE Step
  BY <1>1, StreamDownload, StreamOpen, StreamHeader, StreamRead, StreamPush, StreamEnd,
     StreamNext, StreamFinish DEF Step
<1>2. CASE RequestTaskData \/ AnswerTaskData \/ UNCHANGED workerVars
  BY <1>2, StreamKept DEF RequestTaskData, AnswerTaskData, workerVars
<1> QED  BY <1>1, <1>2, StreamTask DEF WorkerNext

-----------------------------------------------------------------------------

\* A parse that ends, with an error or not, leaves no zstd stream open
\* (streamFile, parseZipArchive, createEntryDecoder), for any number of parts
\* and slices and wherever a read, a push or the codec fails.
THEOREM StreamsCorrect == WorkerSpec => []NoStreamLeftOpen
<1>1. WorkerInit => StreamInv
  BY StreamInit
<1>2. StreamInv /\ [WorkerNext]_workerVars => StreamInv'
  BY StreamStep
<1>3. StreamInv => NoStreamLeftOpen
  BY DEF StreamInv, Settled, NoStreamLeftOpen
<1> QED  BY <1>1, <1>2, <1>3, PTL DEF WorkerSpec

-----------------------------------------------------------------------------
(* The log, part after part.                                                *)

Slices(n) == [j \in 1..parts[n].slices |-> <<n, j>>]
IsLog(log, k) == log = [n \in 0..k |-> IF n = 0 THEN <<>> ELSE log[n - 1] \o Slices(n)]

\* A set of numbers has a least one.
LEMMA LeastOf ==
  ASSUME NEW S \in SUBSET Nat, S # {}
  PROVE  \E x \in S : \A y \in S : x <= y
<1> DEFINE Less == {pair \in Nat \X Nat : pair[1] < pair[2]}
<1>1. IsWellFoundedOn(Less, Nat)
  BY NatLessThanWellFounded DEF OpToRel
<1> HIDE DEF Less
<1>2. PICK x \in S : \A y \in S : ~(<<y, x>> \in Less)
  BY <1>1, WFMin
<1>3. ASSUME NEW y \in S PROVE x <= y
  <2>1. x \in Nat /\ y \in Nat /\ <<y, x>> \notin Less
    BY <1>2
  <2>2. ~(y < x)
    BY <2>1 DEF Less
  <2> QED  BY <2>1, <2>2
<1> QED  BY <1>3

LEMMA LogExists ==
  ASSUME NEW k \in Nat
  PROVE  \E log : IsLog(log, k)
<1> DEFINE Bad == {n \in Nat : ~\E log : IsLog(log, n)}
<1>1. SUFFICES ASSUME Bad # {} PROVE FALSE
  OBVIOUS
<1> HIDE DEF Bad
<1>2. PICK m \in Bad : \A n \in Bad : m <= n
  BY <1>1, LeastOf DEF Bad
<1>3. m \in Nat /\ ~\E log : IsLog(log, m)
  BY DEF Bad
<1>4. CASE m = 0
  <2>1. IsLog([n \in 0..0 |-> <<>>], 0)
    BY DEF IsLog
  <2> QED  BY <1>3, <1>4, <2>1
<1>5. CASE m # 0
  <2>1. m - 1 \in Nat /\ ~(m <= m - 1)
    BY <1>3, <1>5
  <2>2. PICK log : IsLog(log, m - 1)
    BY <1>2, <2>1 DEF Bad
  <2> DEFINE step(n) == IF n = 0 THEN <<>> ELSE log[n - 1] \o Slices(n)
             new == [n \in 0..m |-> step(n)]
  <2>3. log = [n \in 0..(m - 1) |-> step(n)]
    BY <2>2 DEF IsLog
  <2> HIDE DEF step
  <2>4. \A n \in 0..(m - 1) : log[n] = step(n) /\ new[n] = step(n)
    BY <1>3, <2>3
  <2>5. \A n \in 0..m : step(n) = IF n = 0 THEN <<>> ELSE new[n - 1] \o Slices(n)
    <3>1. ASSUME NEW n \in 0..m, n # 0 PROVE log[n - 1] = new[n - 1]
      <4>1. n - 1 \in 0..(m - 1)
        BY <1>3, <3>1
      <4> QED  BY <2>4, <4>1
    <3> QED  BY <3>1 DEF step
  <2>6. IsLog(new, m)
    <3>1. new = [n \in 0..m |-> step(n)]
      OBVIOUS
    <3> HIDE DEF new
    <3> QED  BY <2>5, <3>1 DEF IsLog
  <2> QED  BY <1>3, <2>6
<1> QED  BY <1>4, <1>5

\* The log of no part is empty, and each part adds its slices.
LEMMA LogSteps ==
  ASSUME parts \in Seq(Parts)
  PROVE  /\ Log[0] = <<>>
         /\ \A n \in 1..Len(parts) : Log[n] = Log[n - 1] \o Slices(n)
<1>1. Len(parts) \in Nat
  OBVIOUS
<1>2. \E log : IsLog(log, Len(parts))
  BY <1>1, LogExists
<1>3. IsLog(Log, Len(parts))
  BY <1>2 DEF Log, IsLog, Slices
<1> DEFINE step(n) == IF n = 0 THEN <<>> ELSE Log[n - 1] \o Slices(n)
<1>4. Log = [n \in 0..Len(parts) |-> step(n)]
  BY <1>3 DEF IsLog
<1> HIDE DEF step
<1>5. \A n \in 0..Len(parts) : Log[n] = step(n)
  BY <1>4
<1>6. Log[0] = <<>>
  BY <1>1, <1>5 DEF step
<1>7. ASSUME NEW n \in 1..Len(parts) PROVE Log[n] = Log[n - 1] \o Slices(n)
  <2>1. n \in 0..Len(parts) /\ n # 0
    BY <1>1
  <2> QED  BY <1>5, <2>1 DEF step
<1> QED  BY <1>6, <1>7

Pairs == Nat \X Nat

\* A log is a sequence of slices, and one part longer by the part's slices.
LEMMA LogType ==
  ASSUME parts \in Seq(Parts)
  PROVE  \A n \in 0..Len(parts) :
           /\ Log[n] \in Seq(Pairs)
           /\ n # 0 => /\ parts[n].slices \in Nat
                       /\ Len(Log[n]) = Len(Log[n - 1]) + parts[n].slices
                       /\ \A i \in 1..Len(Log[n - 1]) : Log[n][i] = Log[n - 1][i]
                       /\ \A j \in 1..parts[n].slices : Log[n][Len(Log[n - 1]) + j] = <<n, j>>
<1> DEFINE Good(n) ==
             /\ Log[n] \in Seq(Pairs)
             /\ n # 0 => /\ parts[n].slices \in Nat
                         /\ Len(Log[n]) = Len(Log[n - 1]) + parts[n].slices
                         /\ \A i \in 1..Len(Log[n - 1]) : Log[n][i] = Log[n - 1][i]
                         /\ \A j \in 1..parts[n].slices : Log[n][Len(Log[n - 1]) + j] = <<n, j>>
           Bad == {n \in 0..Len(parts) : ~Good(n)}
<1>1. Len(parts) \in Nat
  OBVIOUS
<1>2. /\ Log[0] = <<>>
      /\ \A n \in 1..Len(parts) : Log[n] = Log[n - 1] \o Slices(n)
  BY LogSteps
<1>3. SUFFICES ASSUME Bad # {} PROVE FALSE
  OBVIOUS
<1>4. Bad \in SUBSET Nat
  BY <1>1
<1> HIDE DEF Bad
<1>5. PICK m \in Bad : \A n \in Bad : m <= n
  BY <1>3, <1>4, LeastOf
<1>6. m \in 0..Len(parts) /\ ~Good(m)
  BY DEF Bad
<1> HIDE DEF Good
<1>7. m # 0
  <2>1. <<>> \in Seq(Pairs)
    OBVIOUS
  <2> QED  BY <1>2, <1>6, <2>1 DEF Good
<1>8. m \in 1..Len(parts) /\ m - 1 \in 0..Len(parts) /\ ~(m <= m - 1) /\ m \in Nat
  BY <1>1, <1>6, <1>7
<1>9. Good(m - 1)
  BY <1>5, <1>8 DEF Bad
<1> DEFINE l == Log[m - 1]
           s == Slices(m)
           k == parts[m].slices
<1>10. l \in Seq(Pairs)
  BY <1>9 DEF Good
<1>11. k \in Nat
  BY <1>8, WorkerAssumption DEF Parts
<1>12. s \in Seq(Pairs) /\ Len(s) = k /\ \A j \in 1..k : s[j] = <<m, j>>
  <2>1. \A j \in 1..k : <<m, j>> \in Pairs
    BY <1>8, <1>11 DEF Pairs
  <2>2. s = [j \in 1..k |-> <<m, j>>]
    BY DEF Slices
  <2> HIDE DEF s, k
  <2>3. s \in [1..k -> Pairs]
    BY <2>1, <2>2
  <2>4. s \in Seq(Pairs)
    BY <1>11, <2>3, SeqDef
  <2>5. Len(s) = k
    BY <1>11, <2>3, <2>4, LenProperties
  <2> QED  BY <2>2, <2>4, <2>5
<1>13. Log[m] = l \o s
  BY <1>2, <1>8
<1> HIDE DEF l, s, k
<1>14. /\ l \o s \in Seq(Pairs) /\ Len(l \o s) = Len(l) + k
       /\ \A i \in 1..Len(l) : (l \o s)[i] = l[i]
       /\ \A j \in 1..k : (l \o s)[Len(l) + j] = s[j]
  <2>1. l \o s \in Seq(Pairs) /\ Len(l \o s) = Len(l) + Len(s)
    BY <1>10, <1>12, ConcatProperties
  <2>2. \A i \in 1..(Len(l) + Len(s)) : (l \o s)[i] = IF i <= Len(l) THEN l[i] ELSE s[i - Len(l)]
    BY <1>10, <1>12, ConcatProperties
  <2>3. Len(l) \in Nat
    BY <1>10
  <2> QED  BY <1>11, <1>12, <2>1, <2>2, <2>3
<1>15. Good(m)
  BY <1>11, <1>12, <1>13, <1>14 DEF Good, l, k
<1> QED  BY <1>6, <1>15

\* The log of fewer parts is a beginning of the log of more.
LEMMA LogPrefix ==
  ASSUME parts \in Seq(Parts), NEW n \in 0..Len(parts)
  PROVE  \A m \in n..Len(parts) :
           /\ Len(Log[n]) <= Len(Log[m])
           /\ \A i \in 1..Len(Log[n]) : Log[m][i] = Log[n][i]
<1> DEFINE Good(m) == /\ Len(Log[n]) <= Len(Log[m])
                      /\ \A i \in 1..Len(Log[n]) : Log[m][i] = Log[n][i]
           Bad == {m \in n..Len(parts) : ~Good(m)}
<1>1. Len(parts) \in Nat /\ n \in Nat
  OBVIOUS
<1>2. \A m \in 0..Len(parts) : Len(Log[m]) \in Nat
  BY LogType, LenProperties
<1>3. SUFFICES ASSUME Bad # {} PROVE FALSE
  OBVIOUS
<1>4. Bad \in SUBSET Nat
  BY <1>1
<1> HIDE DEF Bad
<1>5. PICK m \in Bad : \A k \in Bad : m <= k
  BY <1>3, <1>4, LeastOf
<1>6. m \in n..Len(parts) /\ ~Good(m)
  BY DEF Bad
<1>7. CASE m = n
  BY <1>2, <1>6, <1>7
<1>8. CASE m # n
  <2>1. m - 1 \in n..Len(parts) /\ ~(m <= m - 1) /\ m \in 0..Len(parts) /\ m # 0
        /\ m - 1 \in 0..Len(parts)
    BY <1>1, <1>6, <1>8
  <2>2. Good(m - 1)
    BY <1>5, <2>1 DEF Bad
  <2>3. /\ Len(Log[m]) = Len(Log[m - 1]) + parts[m].slices /\ parts[m].slices \in Nat
        /\ \A i \in 1..Len(Log[m - 1]) : Log[m][i] = Log[m - 1][i]
    BY <2>1, LogType
  <2>4. Len(Log[n]) \in Nat /\ Len(Log[m - 1]) \in Nat
    BY <1>2, <2>1
  <2>5. Len(Log[n]) <= Len(Log[m]) /\ \A i \in 1..Len(Log[n]) : i \in 1..Len(Log[m - 1])
    BY <2>2, <2>3, <2>4, SMTT(40)
  <2>6. Good(m)
    BY <2>2, <2>3, <2>5
  <2> QED  BY <1>6, <2>6
<1> QED  BY <1>7, <1>8

\* Where the slices of a part are in the whole log.
LEMMA LogAt ==
  ASSUME parts \in Seq(Parts), NEW n \in 1..Len(parts)
  PROVE  LET log == Log[Len(parts)]
             base == Len(Log[n - 1]) IN
         /\ log \in Seq(Pairs) /\ base \in Nat /\ Len(log) \in Nat
         /\ parts[n].slices \in Nat
         /\ Len(Log[n]) = base + parts[n].slices
         /\ base + parts[n].slices <= Len(log)
         /\ \A j \in 1..parts[n].slices : log[base + j] = <<n, j>>
<1>1. Len(parts) \in Nat /\ n \in 0..Len(parts) /\ n # 0 /\ n - 1 \in 0..Len(parts)
      /\ Len(parts) \in 0..Len(parts) /\ Len(parts) \in n..Len(parts)
  OBVIOUS
<1> DEFINE log == Log[Len(parts)]
           base == Len(Log[n - 1])
           k == parts[n].slices
<1>2. log \in Seq(Pairs) /\ Log[n - 1] \in Seq(Pairs)
  BY <1>1, LogType
<1>3. k \in Nat /\ Len(Log[n]) = base + k /\ \A j \in 1..k : Log[n][base + j] = <<n, j>>
  BY <1>1, LogType
<1>4. Len(Log[n]) <= Len(log) /\ \A i \in 1..Len(Log[n]) : log[i] = Log[n][i]
  BY <1>1, LogPrefix
<1>5. base \in Nat /\ Len(log) \in Nat
  BY <1>2, LenProperties
<1> HIDE DEF log, base, k
<1>6. \A j \in 1..k : base + j \in 1..Len(Log[n])
  BY <1>3, <1>5
<1>7. /\ base + k <= Len(log)
      /\ \A j \in 1..k : log[base + j] = <<n, j>>
  BY <1>3, <1>4, <1>6
<1> QED  BY <1>2, <1>3, <1>5, <1>7 DEF log, base, k

-----------------------------------------------------------------------------
(* Where the parse stands: in which part, with how many of its slices read. *)
(* An archive holds back the slice it read last.                            *)

PlaceInv ==
  /\ parts \in Seq(Parts)
  /\ part \in Nat \ {0} /\ slice \in Nat /\ held \in Nat
  /\ pc \in {"idle", "fetching", "opening"} => part = 1
  /\ pc \in {"header", "reading", "pushing", "next", "flushing"} =>
       part \in 1..Len(parts) /\ slice <= Current.slices
  /\ pc \in {"idle", "fetching", "opening", "header"} => slice = 0
  /\ pc \in {"next", "flushing"} => slice = Current.slices
  /\ pc = "flushing" => part = Len(parts)
  /\ pc = "pushing" => slice > 0
  /\ pc = "reading" => held = IF Archive THEN slice ELSE 0
  /\ pc = "pushing" => held = IF Archive THEN slice - 1 ELSE 0
  /\ pc \notin {"reading", "pushing", "ended"} => held = 0

LEMMA PlaceInit ==
  ASSUME WorkerInit
  PROVE  PlaceInv
<1>1. <<>> \in Seq(Parts)
  OBVIOUS
<1> QED  BY <1>1 DEF WorkerInit, PlaceInv

LEMMA PlaceTask ==
  ASSUME PlaceInv, NEW s \in Sources, NEW ps \in UNION {[1..n -> Parts] : n \in 0..MaxParts}, Task(s, ps)
  PROVE  PlaceInv'
<1>1. ps \in Seq(Parts)
  <2>1. PICK n \in 0..MaxParts : ps \in [1..n -> Parts]
    OBVIOUS
  <2>2. n \in Nat
    BY WorkerAssumption
  <2> HIDE DEF Parts
  <2> QED  BY <2>1, <2>2, SeqDef
<1> QED  BY <1>1 DEF Task, PlaceInv

\* A parse that ends stays where it is.
LEMMA PlaceEnds ==
  ASSUME PlaceInv, pc' = "ended", UNCHANGED <<parts, part>>, slice' \in Nat, held' \in Nat
  PROVE  PlaceInv'
BY DEF PlaceInv

LEMMA PlaceStart ==
  ASSUME PlaceInv, Download \/ Open \/ ReadHeader
  PROVE  PlaceInv'
<1>1. UNCHANGED <<source, parts, part, slice, held>>
  BY DEF Download, Open, ReadHeader
<1>2. CASE pc' = "ended"
  BY <1>1, <1>2, PlaceEnds DEF PlaceInv
<1>3. CASE pc' # "ended"
  <2>1. CASE Download
    BY <1>1, <1>3, <2>1 DEF Download, Fail, PlaceInv
  <2>2. CASE Open
    <3>1. parts # <<>> /\ pc' = "header" /\ pc = "opening"
      BY <1>3, <2>2 DEF Open, Fail
    <3>2. 1 \in 1..Len(parts) /\ parts[1].slices \in Nat
      <4>1. Len(parts) \in Nat /\ Len(parts) # 0
        BY <3>1, EmptySeq DEF PlaceInv
      <4>2. 1 \in 1..Len(parts)
        BY <4>1
      <4> QED  BY <4>2, LogType, <4>1 DEF PlaceInv
    <3> QED  BY <1>1, <3>1, <3>2 DEF PlaceInv, Current
  <2>3. CASE ReadHeader
    BY <1>1, <1>3, <2>3 DEF ReadHeader, Fail, PlaceInv, Current, Archive
  <2> QED  BY <2>1, <2>2, <2>3
<1> QED  BY <1>2, <1>3

LEMMA PlaceRead ==
  ASSUME PlaceInv, ReadSlice
  PROVE  PlaceInv'
<1>1. UNCHANGED <<source, parts, part, held>> /\ pc = "reading" /\ slice # Current.slices
  BY DEF ReadSlice, LastSlice
<1>2. CASE pc' = "ended" /\ slice' = slice
  BY <1>1, <1>2, PlaceEnds DEF PlaceInv
<1>3. CASE pc' = "pushing" /\ slice' = slice + 1
  <2>1. parts[part].slices \in Nat /\ part \in Nat
    BY <1>1, LogAt DEF PlaceInv
  <2> QED  BY <1>1, <1>3, <2>1 DEF PlaceInv, Current, Archive
<1> QED  BY <1>2, <1>3 DEF ReadSlice, Fail

LEMMA PlacePush ==
  ASSUME PlaceInv, PushSlice
  PROVE  PlaceInv'
<1>1. UNCHANGED <<source, parts, part, slice>> /\ pc = "pushing" /\ held' \in {held, slice}
  BY DEF PushSlice
<1>2. CASE pc' = "ended"
  BY <1>1, <1>2, PlaceEnds DEF PlaceInv
<1>3. CASE pc' = "reading" /\ held' = IF Archive THEN slice ELSE held
  BY <1>1, <1>3 DEF PlaceInv, Current, Archive
<1> QED  BY <1>2, <1>3, PushFact DEF PushSlice

LEMMA PlaceEnd ==
  ASSUME PlaceInv, EndOfPart
  PROVE  PlaceInv'
<1>1. UNCHANGED <<source, parts, part, slice>> /\ pc = "reading" /\ held' = 0
      /\ slice = Current.slices
  BY DEF EndOfPart, LastSlice
<1>2. CASE pc' = "ended"
  BY <1>1, <1>2, PlaceEnds DEF PlaceInv
<1>3. CASE pc' = "next"
  BY <1>1, <1>3 DEF PlaceInv, Current
<1> QED  BY <1>2, <1>3, PushFact DEF EndOfPart, EndEntry, Fail

LEMMA PlaceNext ==
  ASSUME PlaceInv, NextPart
  PROVE  PlaceInv'
<1>1. UNCHANGED <<source, parts, held>> /\ pc = "next" /\ Len(parts) \in Nat
  BY DEF NextPart, PlaceInv
<1>2. CASE part < Len(parts)
  <2>1. part' = part + 1 /\ slice' = 0 /\ pc' = "header"
    BY <1>2 DEF NextPart
  <2>2. part + 1 \in 1..Len(parts)
    BY <1>1, <1>2 DEF PlaceInv
  <2>3. parts[part + 1].slices \in Nat
    BY <2>2, LogAt DEF PlaceInv
  <2> QED  BY <1>1, <2>1, <2>2, <2>3 DEF PlaceInv, Current
<1>3. CASE ~(part < Len(parts))
  BY <1>1, <1>3 DEF NextPart, PlaceInv, Current
<1> QED  BY <1>2, <1>3

LEMMA PlaceStep ==
  ASSUME PlaceInv, [WorkerNext]_workerVars
  PROVE  PlaceInv'
<1>1. CASE Download \/ Open \/ ReadHeader
  BY <1>1, PlaceStart
<1>2. CASE ReadSlice \/ PushSlice \/ EndOfPart \/ NextPart
  BY <1>2, PlaceRead, PlacePush, PlaceEnd, PlaceNext
<1>3. CASE Finish
  <2>1. pc' = "ended" /\ UNCHANGED <<parts, part, slice, held>>
    BY <1>3 DEF Finish, Fail
  <2> QED  BY <2>1, PlaceEnds DEF PlaceInv
<1>4. CASE RequestTaskData \/ AnswerTaskData \/ UNCHANGED workerVars
  <2>1. UNCHANGED <<source, parts, pc, part, slice, held>>
    BY <1>4 DEF RequestTaskData, AnswerTaskData, workerVars
  <2> QED  BY <2>1 DEF PlaceInv, Current, Archive
<1> QED  BY <1>1, <1>2, <1>3, <1>4, PlaceTask DEF WorkerNext, Step

-----------------------------------------------------------------------------
(* What was fed: a beginning of the log, and what a decoder keeps back      *)
(* follows it.                                                              *)

Begun(f, log) ==
  /\ f \in Seq(Pairs) /\ Len(f) <= Len(log)
  /\ \A i \in 1..Len(f) : f[i] = log[i]

Follows(b, f, log) ==
  /\ b \in Seq(Pairs) /\ Len(f) + Len(b) <= Len(log)
  /\ \A i \in 1..Len(b) : b[i] = log[Len(f) + i]

\* The slice that comes next is queued.
LEMMA QueuedFollows ==
  ASSUME NEW f, NEW b, NEW log \in Seq(Pairs), Begun(f, log), Follows(b, f, log), NEW x \in Pairs,
         Len(f) + Len(b) + 1 <= Len(log), log[Len(f) + Len(b) + 1] = x
  PROVE  Follows(Append(b, x), f, log) /\ Len(Append(b, x)) = Len(b) + 1
<1> DEFINE q == Append(b, x)
           n == Len(b)
           m == Len(f)
<1>1. b \in Seq(Pairs) /\ m \in Nat /\ n \in Nat
  BY DEF Begun, Follows
<1>2. q \in Seq(Pairs) /\ Len(q) = n + 1 /\ q[n + 1] = x /\ \A i \in 1..n : q[i] = b[i]
  BY <1>1, AppendProperties
<1>3. m + (n + 1) <= Len(log) /\ log[m + (n + 1)] = x /\ \A i \in 1..n : b[i] = log[m + i]
  BY <1>1 DEF Follows
<1> HIDE DEF q, n, m
<1>4. \A i \in 1..(n + 1) : q[i] = log[m + i]
  BY <1>1, <1>2, <1>3
<1> QED  BY <1>1, <1>2, <1>3, <1>4 DEF Follows, q, n, m

\* The first n of what is kept back are passed on.
PassesOn(f, q, log, n) ==
  LET now == SubSeq(q, 1, n)
      left == SubSeq(q, n + 1, Len(q)) IN
  /\ Begun(f \o now, log) /\ Follows(left, f \o now, log)
  /\ Len(now) = n /\ Len(f \o now) + Len(left) = Len(f) + Len(q)
  /\ n = Len(q) => left = <<>>

LEMMA PassedFollows ==
  ASSUME NEW f, NEW q, NEW log \in Seq(Pairs), Begun(f, log), Follows(q, f, log), NEW n \in 0..Len(q)
  PROVE  PassesOn(f, q, log, n)
<1> DEFINE now == SubSeq(q, 1, n)
           left == SubSeq(q, n + 1, Len(q))
<1> DEFINE m == Len(f)
           k == Len(q)
           g == f \o now
<1>1. /\ f \in Seq(Pairs) /\ q \in Seq(Pairs) /\ m \in Nat /\ k \in Nat /\ n \in Nat /\ n <= k
      /\ m + k <= Len(log) /\ Len(log) \in Nat
  BY DEF Begun, Follows
<1>2. now \in Seq(Pairs) /\ Len(now) = n /\ \A i \in 1..n : now[i] = q[i]
  <2>1. \A i \in 1..n : q[i] \in Pairs
    BY <1>1
  <2>2. \A i \in 1..n : i \in 1..Len(q)
    BY <1>1
  <2>3. now \in Seq(Pairs) /\ Len(now) = IF 1 <= n THEN n - 1 + 1 ELSE 0
    BY <1>1, <2>1, SubSeqProperties
  <2>4. \A i \in 1..n : now[i] = q[i]
    BY <1>1, <2>1
  <2> QED  BY <1>1, <2>3, <2>4
<1>3. left \in Seq(Pairs) /\ Len(left) = k - n /\ \A i \in 1..(k - n) : left[i] = q[n + i]
  BY <1>1, SubSeqProperties
<1>4. g \in Seq(Pairs) /\ Len(g) = m + n
      /\ \A i \in 1..(m + n) : g[i] = IF i <= m THEN f[i] ELSE now[i - m]
  <2>1. g \in Seq(Pairs) /\ Len(g) = Len(f) + Len(now)
    BY <1>1, <1>2, ConcatProperties
  <2>2. \A i \in 1..(Len(f) + Len(now)) : g[i] = IF i <= Len(f) THEN f[i] ELSE now[i - Len(f)]
    BY <1>1, <1>2, ConcatProperties
  <2>3. Len(now) = n
    BY <1>2
  <2> HIDE DEF g
  <2> QED  BY <2>1, <2>2, <2>3
<1>5. (\A i \in 1..m : f[i] = log[i]) /\ \A i \in 1..k : q[i] = log[m + i]
  BY DEF Begun, Follows
<1> HIDE DEF g, m, k, now, left
<1>6. ASSUME NEW i \in 1..(m + n) PROVE g[i] = log[i]
  <2>1. CASE i <= m
    <3>1. i \in 1..m /\ g[i] = f[i]
      BY <1>1, <1>4, <2>1
    <3> QED  BY <1>5, <3>1
  <2>2. CASE ~(i <= m)
    <3>1. i - m \in 1..n /\ i - m \in 1..k /\ m + (i - m) = i
      BY <1>1, <2>2
    <3> QED  BY <1>2, <1>4, <1>5, <2>2, <3>1
  <2> QED  BY <2>1, <2>2
<1>7. ASSUME NEW i \in 1..(k - n) PROVE left[i] = log[(m + n) + i]
  <2>1. n + i \in 1..k /\ m + (n + i) = (m + n) + i
    BY <1>1
  <2> QED  BY <1>3, <1>5, <2>1
<1>8. m + n <= Len(log) /\ (m + n) + (k - n) <= Len(log) /\ (m + n) + (k - n) = m + k
  BY <1>1
<1>9. Begun(g, log) /\ Follows(left, g, log)
  BY <1>3, <1>4, <1>6, <1>7, <1>8 DEF Begun, Follows
<1>10. n = k => left = <<>>
  BY <1>1, <1>3, EmptySeq
<1> QED  BY <1>2, <1>3, <1>4, <1>8, <1>9, <1>10 DEF g, m, k, now, left, PassesOn

\* The slices of this part that were pushed: all that were read but the one
\* that is about to be, and the one that an archive holds back.
Pushed == IF Archive /\ held # 0 THEN held - 1
          ELSE IF pc = "pushing" THEN slice - 1 ELSE slice
Base == Len(Log[part - 1])

\* What was fed is a beginning of the log; until the parse ends, what its
\* decoder keeps back follows, up to the slice pushed last.  A final push
\* leaves nothing behind.
FedInv ==
  /\ Begun(fed, Log[Len(parts)]) /\ backlog \in Seq(Pairs)
  /\ pc # "ended" =>
       /\ Len(fed) + Len(backlog) = Base + Pushed
       /\ Follows(backlog, fed, Log[Len(parts)])
  /\ pc \notin {"reading", "pushing", "ended"} => backlog = <<>>
  /\ pc = "reading" /\ ~Archive /\ LastSlice => backlog = <<>>
  /\ pc \in {"reading", "pushing"} /\ Archive /\ held = 0 => backlog = <<>>

LEMMA LogSame ==
  ASSUME UNCHANGED parts
  PROVE  Log' = Log
BY DEF Log

LEMMA FedEnds ==
  ASSUME FedInv, pc' = "ended", UNCHANGED <<parts, fed, backlog>>
  PROVE  FedInv'
BY LogSame DEF FedInv

\* A push passes on what its decoder kept back and the slice, or a beginning of
\* that, and in a final push all of it.
LEMMA FedPush ==
  ASSUME PlaceInv, FedInv, pc \in {"reading", "pushing"}, NEW p, NEW next, Push(p, next),
         p.slice = Pushed + 1, p.slice \in 1..Current.slices
  PROVE  /\ Begun(fed', Log[Len(parts)]) /\ backlog' \in Seq(Pairs)
         /\ \/ pc' = "ended"
            \/ /\ pc' = next
               /\ Len(fed') + Len(backlog') = Base + Pushed + 1
               /\ Follows(backlog', fed', Log[Len(parts)])
               /\ p.final => backlog' = <<>>
<1> DEFINE log == Log[Len(parts)]
           x == <<part, p.slice>>
           queued == Append(backlog, x)
<1>1. part \in 1..Len(parts) /\ parts \in Seq(Parts) /\ part \in Nat
  BY DEF PlaceInv
<1>2. /\ log \in Seq(Pairs) /\ Base \in Nat /\ Current.slices \in Nat
      /\ Base + Current.slices <= Len(log) /\ Len(log) \in Nat
      /\ \A j \in 1..Current.slices : log[Base + j] = <<part, j>>
  BY <1>1, LogAt DEF Base, Current
<1>3. /\ Begun(fed, log) /\ Follows(backlog, fed, log) /\ backlog \in Seq(Pairs)
      /\ Len(fed) + Len(backlog) = Base + Pushed
  BY DEF FedInv
<1>4. fed \in Seq(Pairs) /\ Len(fed) \in Nat /\ Len(backlog) \in Nat
  BY <1>3, LenProperties DEF Begun
<1> DEFINE j == p.slice
<1>5. j \in Nat /\ Pushed + 1 = j /\ j <= Current.slices /\ log[Base + j] = x
  <2>1. j \in 1..Current.slices /\ Pushed + 1 = j
    OBVIOUS
  <2>2. log[Base + j] = x
    BY <1>2, <2>1
  <2> HIDE DEF j, x, log
  <2> QED  BY <1>2, <2>1, <2>2
<1>6. x \in Pairs
  BY <1>1, <1>5 DEF Pairs
<1> HIDE DEF log, x, j
<1>7. Pushed \in Int
  BY DEF Pushed, PlaceInv
<1>8. Base + Pushed + 1 = Base + j
  BY <1>2, <1>5, <1>7
<1>9. Len(fed) + Len(backlog) + 1 = Base + j
  BY <1>3, <1>8
<1>10. Len(fed) + Len(backlog) + 1 <= Len(log) /\ log[Len(fed) + Len(backlog) + 1] = x
  BY <1>2, <1>4, <1>5, <1>9
<1>11. Follows(queued, fed, log) /\ Len(queued) = Len(backlog) + 1
  BY <1>2, <1>3, <1>6, <1>10, QueuedFollows
<1>12. CASE /\ CancelStream /\ Fail
            /\ \E n \in 0..Len(backlog) : fed' = fed \o SubSeq(backlog, 1, n)
            /\ UNCHANGED <<backlog, sawApp>>
  <2>1. PICK n \in 0..Len(backlog) : fed' = fed \o SubSeq(backlog, 1, n)
    BY <1>12
  <2>2. PassesOn(fed, backlog, log, n)
    BY <1>2, <1>3, PassedFollows
  <2>3. Begun(fed \o SubSeq(backlog, 1, n), log)
    BY <2>2 DEF PassesOn
  <2>4. Begun(fed', log)
    BY <2>1, <2>3
  <2> QED  BY <1>3, <1>12, <2>4 DEF Fail, log
<1>13. ASSUME NEW now \in PassedOn(p), fed' = fed \o now, pc' = next,
              backlog' = SubSeq(queued, Len(now) + 1, Len(backlog) + 1)
       PROVE  /\ Begun(fed', log) /\ Follows(backlog', fed', log)
              /\ Len(fed') + Len(backlog') = Base + Pushed + 1
              /\ p.final => backlog' = <<>>
  <2>1. queued \in Seq(Pairs) /\ Len(queued) \in Nat
    BY <1>11, LenProperties DEF Follows
  <2>2. queued = SubSeq(queued, 1, Len(queued))
    <3> HIDE DEF queued
    <3> QED  BY <2>1
  <2>3. \E n \in 0..Len(queued) : now = SubSeq(queued, 1, n) /\ (p.final => n = Len(queued))
    <3>1. Len(queued) \in 0..Len(queued)
      BY <2>1
    <3> QED  BY <2>2, <3>1 DEF PassedOn, x
  <2>4. PICK n \in 0..Len(queued) : now = SubSeq(queued, 1, n) /\ (p.final => n = Len(queued))
    BY <2>3
  <2> DEFINE left == SubSeq(queued, n + 1, Len(queued))
  <2>5. /\ Begun(fed \o now, log) /\ Follows(left, fed \o now, log)
        /\ Len(now) = n /\ Len(fed \o now) + Len(left) = Len(fed) + Len(queued)
        /\ n = Len(queued) => left = <<>>
    <3> HIDE DEF queued
    <3>1. PassesOn(fed, queued, log, n)
      BY <1>2, <1>3, <1>11, PassedFollows
    <3> QED  BY <2>4, <3>1 DEF PassesOn
  <2>6. backlog' = left
    BY <1>11, <1>13, <2>5
  <2> HIDE DEF left, queued
  <2>7. Len(fed) + Len(queued) = Base + Pushed + 1
    BY <1>3, <1>4, <1>11
  <2> QED  BY <1>13, <2>4, <2>5, <2>6, <2>7
<1>14. CASE \E now \in PassedOn(p) :
              /\ fed' = fed \o now
              /\ backlog' = SubSeq(queued, Len(now) + 1, Len(backlog) + 1)
              /\ pc' = next
  <2>1. PICK now \in PassedOn(p) :
              /\ fed' = fed \o now
              /\ backlog' = SubSeq(queued, Len(now) + 1, Len(backlog) + 1)
              /\ pc' = next
    BY <1>14
  <2>2. /\ Begun(fed', log) /\ Follows(backlog', fed', log)
        /\ Len(fed') + Len(backlog') = Base + Pushed + 1
        /\ p.final => backlog' = <<>>
    BY <1>13, <2>1
  <2> QED  BY <2>1, <2>2 DEF Follows, log
<1> QED  BY <1>12, <1>14 DEF Push, x

\* The log that a task names.
LEMMA LogNamed ==
  (parts \in Seq(Parts) => Log[0] = <<>> /\ Len(Log[Len(parts)]) \in Nat)'
<1>1. parts \in Seq(Parts) => Log[0] = <<>> /\ Len(Log[Len(parts)]) \in Nat
  <2>1. ASSUME parts \in Seq(Parts) PROVE Len(Log[Len(parts)]) \in Nat
    <3>1. Len(parts) \in 0..Len(parts)
      BY <2>1, LenProperties
    <3> QED  BY <2>1, <3>1, LogType, LenProperties
  <2> QED  BY <2>1, LogSteps
<1> QED  BY <1>1, PTL

LEMMA BaseNat ==
  ASSUME PlaceInv, part \in 1..Len(parts)
  PROVE  Base \in Nat /\ Pushed \in Int
<1>1. part - 1 \in 0..Len(parts)
  <2>1. Len(parts) \in Nat
    BY LenProperties DEF PlaceInv
  <2> QED  BY <2>1 DEF PlaceInv
<1>2. Log[part - 1] \in Seq(Pairs)
  BY <1>1, LogType DEF PlaceInv
<1> QED  BY <1>2, LenProperties DEF Base, Pushed, PlaceInv

\* Nothing follows the empty sequence when nothing was fed.
LEMMA NothingFollows ==
  ASSUME NEW log, Len(log) \in Nat
  PROVE  Begun(<<>>, log) /\ Follows(<<>>, <<>>, log)
<1>1. <<>> \in Seq(Pairs) /\ Len(<<>>) = 0
  OBVIOUS
<1> QED  BY <1>1 DEF Begun, Follows

LEMMA FedInit ==
  ASSUME WorkerInit, PlaceInv
  PROVE  FedInv
<1>1. Log[0] = <<>> /\ parts = <<>> /\ Len(parts) = 0
  BY LogSteps DEF WorkerInit, PlaceInv
<1>2. Len(<<>>) = 0 /\ <<>> \in Seq(Pairs)
  OBVIOUS
<1>3. Len(Log[Len(parts)]) \in Nat /\ Base = 0 /\ Pushed = 0
  BY <1>1, <1>2 DEF WorkerInit, Base, Pushed, Archive
<1>4. Begun(<<>>, Log[Len(parts)]) /\ Follows(<<>>, <<>>, Log[Len(parts)])
  BY <1>3, NothingFollows
<1> QED  BY <1>2, <1>3, <1>4 DEF WorkerInit, FedInv

LEMMA FedTask ==
  ASSUME PlaceInv, FedInv, PlaceInv', NEW s, NEW ps, Task(s, ps)
  PROVE  FedInv'
<1>1. /\ pc = "idle" /\ part = 1 /\ slice = 0 /\ held = 0 /\ backlog = <<>>
      /\ UNCHANGED <<part, slice, held, fed, backlog>> /\ pc' \in {"fetching", "opening"}
  BY DEF Task, PlaceInv, FedInv
<1>2. Log[0] = <<>>
  BY LogSteps DEF PlaceInv
<1>3. Len(fed) = 0 /\ fed \in Seq(Pairs)
  <2>1. Base = 0 /\ Pushed = 0
    BY <1>1, <1>2 DEF Base, Pushed
  <2>2. fed \in Seq(Pairs) /\ Len(fed) \in Nat /\ Len(fed) + Len(backlog) = 0
    BY <1>1, <2>1, LenProperties DEF FedInv, Begun
  <2> QED  BY <1>1, <2>2
<1>4. fed = <<>>
  BY <1>3, EmptySeq
<1>5. Log'[0] = <<>> /\ Len(Log[Len(parts)])' \in Nat
  BY LogNamed DEF PlaceInv
<1>6. Begun(<<>>, Log[Len(parts)]') /\ Follows(<<>>, <<>>, Log[Len(parts)]')
  BY <1>5, NothingFollows
<1>7. Base' = 0 /\ Pushed' = 0
  BY <1>1, <1>5 DEF Base, Pushed
<1>8. <<>> \in Seq(Pairs) /\ Len(<<>>) = 0
  OBVIOUS
<1> QED  BY <1>1, <1>4, <1>6, <1>7, <1>8 DEF FedInv

\* Steps that pass nothing on.
LEMMA FedStart ==
  ASSUME PlaceInv, FedInv, Download \/ Open \/ ReadHeader \/ ReadSlice
  PROVE  FedInv'
<1>1. UNCHANGED <<source, parts, part, held, fed, backlog>> /\ Log' = Log
  BY LogSame DEF Download, Open, ReadHeader, ReadSlice
<1>2. CASE pc' = "ended"
  BY <1>1, <1>2, FedEnds
<1>3. CASE pc' # "ended"
  <2>1. Base' = Base
    BY <1>1 DEF Base
  <2>2. Pushed' = Pushed /\ pc # "ended"
    <3>1. CASE Download \/ Open \/ ReadHeader
      BY <1>1, <1>3, <3>1 DEF Download, Open, ReadHeader, Fail, Pushed, Archive
    <3>2. CASE ReadSlice
      BY <1>1, <1>3, <3>2 DEF ReadSlice, Fail, Pushed, Archive, PlaceInv
    <3> QED  BY <3>1, <3>2
  <2>3. /\ Begun(fed', Log[Len(parts)]') /\ backlog' \in Seq(Pairs)
        /\ Len(fed') + Len(backlog') = Base' + Pushed'
        /\ Follows(backlog', fed', Log[Len(parts)]')
    BY <1>1, <2>1, <2>2 DEF FedInv
  <2>4. CASE Download \/ Open \/ ReadHeader
    <3>1. backlog = <<>>
      BY <2>4 DEF Download, Open, ReadHeader, FedInv
    <3> QED  BY <1>1, <2>3, <3>1 DEF FedInv
  <2>5. CASE ReadSlice
    <3>1. pc = "reading" /\ pc' = "pushing"
      BY <1>3, <2>5 DEF ReadSlice, Fail
    <3> QED  BY <1>1, <2>3, <3>1 DEF FedInv, Archive
  <2> QED  BY <2>4, <2>5
<1> QED  BY <1>2, <1>3

LEMMA FedPushed ==
  ASSUME PlaceInv, FedInv, PushSlice
  PROVE  FedInv'
<1>1. UNCHANGED <<source, parts, part, slice>> /\ pc = "pushing" /\ Log' = Log
  BY LogSame DEF PushSlice
<1>2. /\ part \in 1..Len(parts) /\ slice \in Nat /\ slice > 0 /\ slice <= Current.slices
      /\ Current.slices \in Nat
  BY <1>1, LogAt DEF PlaceInv, Current
<1>3. Base' = Base /\ Base \in Nat
  BY <1>1, <1>2, BaseNat DEF Base
<1>4. held = IF Archive THEN slice - 1 ELSE 0
  BY <1>1 DEF PlaceInv
<1>5. CASE ~Archive /\ Push(PushFile, "reading") /\ UNCHANGED held
  <2>1. Pushed = slice - 1 /\ PushFile.slice = slice /\ PushFile.final = LastSlice
    BY <1>1, <1>5 DEF Pushed, PushFile
  <2>2. /\ Begun(fed', Log[Len(parts)]) /\ backlog' \in Seq(Pairs)
        /\ \/ pc' = "ended"
           \/ /\ pc' = "reading"
              /\ Len(fed') + Len(backlog') = Base + slice
              /\ Follows(backlog', fed', Log[Len(parts)])
              /\ LastSlice => backlog' = <<>>
    <3>1. PushFile.slice = Pushed + 1 /\ PushFile.slice \in 1..Current.slices
      BY <1>2, <2>1
    <3>2. Base + Pushed + 1 = Base + slice
      BY <1>2, <1>3, <2>1
    <3> HIDE DEF FedInv, PlaceInv
    <3> QED  BY <1>1, <1>5, <2>1, <3>1, <3>2, FedPush
  <2>3. pc' = "reading" => Pushed' = slice
    BY <1>1, <1>4, <1>5 DEF Pushed, Archive
  <2>4. ~Archive' /\ LastSlice' = LastSlice
    BY <1>1, <1>5 DEF Archive, LastSlice, Current
  <2> QED  BY <1>1, <1>3, <2>2, <2>3, <2>4 DEF FedInv
<1>6. CASE Archive /\ held = 0 /\ held' = slice /\ pc' = "reading" /\ UNCHANGED <<fed, backlog>>
  <2>1. backlog = <<>> /\ slice = 1 /\ held' # 0
    BY <1>1, <1>2, <1>4, <1>6 DEF FedInv
  <2>2. Pushed' = Pushed
    BY <1>1, <1>6, <2>1 DEF Pushed, Archive
  <2> QED  BY <1>1, <1>3, <1>6, <2>1, <2>2 DEF FedInv, Archive
<1>7. CASE Archive /\ held # 0 /\ held' = slice /\ Push(PushHeld, "reading")
  <2>1. Pushed = held - 1 /\ PushHeld.slice = held /\ held = slice - 1
    BY <1>4, <1>7 DEF Pushed, PushHeld
  <2>2. /\ Begun(fed', Log[Len(parts)]) /\ backlog' \in Seq(Pairs)
        /\ \/ pc' = "ended"
           \/ /\ pc' = "reading"
              /\ Len(fed') + Len(backlog') = Base + held
              /\ Follows(backlog', fed', Log[Len(parts)])
    <3>1. PushHeld.slice = Pushed + 1 /\ PushHeld.slice \in 1..Current.slices
      BY <1>2, <1>7, <2>1
    <3>2. Base + Pushed + 1 = Base + held
      BY <1>2, <1>3, <2>1
    <3> QED  BY <1>1, <1>7, <3>1, <3>2, FedPush
  <2>3. Pushed' = held /\ Archive' /\ held' # 0
    BY <1>1, <1>2, <1>7, <2>1 DEF Pushed, Archive
  <2> QED  BY <1>1, <1>3, <2>2, <2>3 DEF FedInv
<1> QED  BY <1>5, <1>6, <1>7 DEF PushSlice

LEMMA FedEnd ==
  ASSUME PlaceInv, FedInv, EndOfPart
  PROVE  FedInv'
<1>1. /\ UNCHANGED <<source, parts, part, slice>> /\ pc = "reading" /\ Log' = Log /\ held' = 0
      /\ slice = Current.slices
  BY LogSame DEF EndOfPart, LastSlice
<1>2. part \in 1..Len(parts) /\ slice \in Nat
  BY <1>1 DEF PlaceInv
<1>3. Base' = Base /\ Base \in Nat
  BY <1>1, <1>2, BaseNat DEF Base
<1>4. held = IF Archive THEN slice ELSE 0
  BY <1>1 DEF PlaceInv
<1>5. pc' = "next" => Pushed' = slice
  BY <1>1 DEF Pushed
<1>6. CASE Archive /\ held # 0 /\ Push(PushLast, "next")
  <2>1. Pushed = held - 1 /\ PushLast.slice = held /\ held = slice /\ PushLast.final = TRUE
    BY <1>4, <1>6 DEF Pushed, PushLast
  <2>2. /\ Begun(fed', Log[Len(parts)]) /\ backlog' \in Seq(Pairs)
        /\ \/ pc' = "ended"
           \/ /\ pc' = "next"
              /\ Len(fed') + Len(backlog') = Base + slice
              /\ Follows(backlog', fed', Log[Len(parts)])
              /\ backlog' = <<>>
    <3>1. PushLast.slice = Pushed + 1 /\ PushLast.slice \in 1..Current.slices
      BY <1>1, <1>2, <1>6, <2>1
    <3>2. Base + Pushed + 1 = Base + slice
      BY <1>2, <1>3, <2>1
    <3> QED  BY <1>1, <1>6, <2>1, <3>1, <3>2, FedPush
  <2> QED  BY <1>1, <1>3, <1>5, <2>2 DEF FedInv
<1>7. CASE ~(Archive /\ held # 0) /\ pc' \in {"ended", "next"} /\ UNCHANGED <<fed, backlog>>
  <2>1. Pushed = slice /\ backlog = <<>>
    BY <1>1, <1>4, <1>7 DEF Pushed, FedInv, LastSlice
  <2> QED  BY <1>1, <1>3, <1>5, <1>7, <2>1 DEF FedInv
<1> QED  BY <1>6, <1>7 DEF EndOfPart, EndEntry, Fail

LEMMA FedNext ==
  ASSUME PlaceInv, FedInv, NextPart
  PROVE  FedInv'
<1>1. UNCHANGED <<source, parts, held, fed, backlog>> /\ pc = "next" /\ Log' = Log
  BY LogSame DEF NextPart
<1>2. backlog = <<>> /\ part \in 1..Len(parts) /\ slice = parts[part].slices /\ Pushed = slice
  BY <1>1 DEF FedInv, PlaceInv, Pushed, Current
<1>3. Base' + Pushed' = Base + Pushed
  <2>1. CASE part' = part + 1 /\ slice' = 0 /\ pc' = "header"
    <3>1. part \in Nat /\ (part + 1) - 1 = part
      BY DEF PlaceInv
    <3>2. Base' = Len(Log[part]) /\ Pushed' = 0
      BY <1>1, <1>2, <2>1, <3>1 DEF Base, Pushed, PlaceInv
    <3>3. Len(Log[part]) = Base + slice /\ Base \in Nat /\ slice \in Nat
      BY <1>2, LogAt DEF PlaceInv, Base
    <3> QED  BY <1>2, <3>2, <3>3
  <2>2. CASE pc' = "flushing" /\ UNCHANGED <<part, slice>>
    BY <1>1, <2>2 DEF Base, Pushed, Archive
  <2> QED  BY <2>1, <2>2 DEF NextPart
<1>4. pc' \in {"header", "flushing"}
  BY DEF NextPart
<1> QED  BY <1>1, <1>2, <1>3, <1>4 DEF FedInv

LEMMA FedStep ==
  ASSUME PlaceInv, FedInv, PlaceInv', [WorkerNext]_workerVars
  PROVE  FedInv'
<1>1. CASE Download \/ Open \/ ReadHeader \/ ReadSlice
  BY <1>1, FedStart
<1>2. CASE PushSlice \/ EndOfPart \/ NextPart
  BY <1>2, FedPushed, FedEnd, FedNext
<1>3. CASE Finish
  <2>1. pc' = "ended" /\ UNCHANGED <<parts, fed, backlog>>
    BY <1>3 DEF Finish, Fail
  <2> QED  BY <2>1, FedEnds
<1>4. CASE RequestTaskData \/ AnswerTaskData \/ UNCHANGED workerVars
  <2>1. UNCHANGED <<source, parts, pc, part, slice, held, fed, backlog>>
    BY <1>4 DEF RequestTaskData, AnswerTaskData, workerVars
  <2>2. Log' = Log
    BY <2>1, LogSame
  <2> QED  BY <2>1, <2>2 DEF FedInv, Base, Pushed, Current, Archive, LastSlice
<1> QED  BY <1>1, <1>2, <1>3, <1>4, FedTask DEF WorkerNext, Step

-----------------------------------------------------------------------------
(* What was posted: progress alone, up to what was read; at the end one     *)
(* terminal message after it, "done" only when all was fed.                 *)

Message == [type : {"progress", "done", "error"}, pct : Int]
Before(a, b) == a # Unknown /\ b # Unknown => a <= b
Rising(ms) == \A m, n \in 1..Len(ms) : m < n => Before(ms[m].pct, ms[n].pct)
InProgress(ms, b) == \A n \in 1..Len(ms) : ms[n].type = "progress" /\ ms[n].pct <= b
OneEnd(ms) == \A n \in 1..Len(ms) : ms[n].type # "progress" => n = Len(ms)
NoDone(ms) == \A n \in 1..Len(ms) : ms[n].type # "done"

Reached == Base + (IF pc = "pushing" THEN slice - 1 ELSE slice)
AllFed == pc = "ended" /\ flushed /\ backlog = <<>> /\ held = 0 /\ fed = Log[Len(parts)]

TalkInv ==
  /\ messages \in Seq(Message) /\ Rising(messages) /\ OneEnd(messages)
  /\ pc # "ended" => InProgress(messages, Reached)
  /\ NoDone(messages) \/ AllFed

\* Posting one more progress, and the last message.
LEMMA OneMore ==
  ASSUME NEW ms \in Seq(Message), NEW b \in Int, Rising(ms), InProgress(ms, b),
         NEW x \in Message, x.pct = Unknown \/ b <= x.pct
  PROVE  /\ ms \o <<x>> \in Seq(Message) /\ Rising(ms \o <<x>>) /\ OneEnd(ms \o <<x>>)
         /\ x.type # "done" => NoDone(ms \o <<x>>)
         /\ \A c \in Int : (x.type = "progress" /\ x.pct <= c /\ b <= c) => InProgress(ms \o <<x>>, c)
<1> DEFINE k == Len(ms)
           new == ms \o <<x>>
<1>1. k \in Nat /\ \A i \in 1..k : ms[i] \in Message
  BY LenProperties, ElementOfSeq
<1>2. <<x>> \in Seq(Message) /\ Len(<<x>>) = 1 /\ <<x>>[1] = x
  OBVIOUS
<1>3. new \in Seq(Message) /\ Len(new) = k + 1
      /\ \A i \in 1..(k + 1) : new[i] = IF i <= k THEN ms[i] ELSE <<x>>[i - k]
  <2>1. new \in Seq(Message) /\ Len(new) = Len(ms) + Len(<<x>>)
    BY <1>2, ConcatProperties
  <2>2. \A i \in 1..(Len(ms) + Len(<<x>>)) : new[i] = IF i <= Len(ms) THEN ms[i] ELSE <<x>>[i - Len(ms)]
    BY <1>2, ConcatProperties
  <2> HIDE DEF new
  <2> QED  BY <1>2, <2>1, <2>2
<1> HIDE DEF new, k
<1>4. (\A i \in 1..k : new[i] = ms[i]) /\ new[k + 1] = x
  BY <1>1, <1>2, <1>3
<1>5. \A i \in 1..k : /\ ms[i].type = "progress" /\ ms[i].pct <= b /\ ms[i].pct \in Int
                      /\ new[i].type = "progress" /\ new[i].pct <= b /\ new[i].pct \in Int
  BY <1>1, <1>4 DEF InProgress, Message, k
<1>6. x.pct \in Int /\ new[k + 1].pct = x.pct /\ new[k + 1].type = x.type
  BY <1>4 DEF Message
<1>7. \A i \in 1..(k + 1) : i \in 1..k \/ i = k + 1
  BY <1>1
<1>8. Rising(new)
  <2> SUFFICES ASSUME NEW m \in 1..(k + 1), NEW n \in 1..(k + 1), m < n
               PROVE  Before(new[m].pct, new[n].pct)
    BY <1>3 DEF Rising
  <2>1. m \in 1..k
    BY <1>1
  <2>2. CASE n \in 1..k
    <3>1. Before(ms[m].pct, ms[n].pct)
      BY <2>1, <2>2 DEF Rising, k
    <3> QED  BY <1>4, <2>1, <2>2, <3>1
  <2>3. CASE n = k + 1
    BY <1>5, <1>6, <2>1, <2>3 DEF Before, Unknown
  <2> QED  BY <1>7, <2>2, <2>3
<1>9. OneEnd(new)
  BY <1>3, <1>5, <1>7 DEF OneEnd
<1>10. x.type # "done" => NoDone(new)
  BY <1>3, <1>5, <1>6, <1>7 DEF NoDone
<1>11. \A c \in Int : (x.type = "progress" /\ x.pct <= c /\ b <= c) => InProgress(new, c)
  <2> SUFFICES ASSUME NEW c \in Int, x.type = "progress", x.pct <= c, b <= c
               PROVE  InProgress(new, c)
    OBVIOUS
  <2>1. \A i \in 1..k : new[i].pct <= c
    BY <1>5
  <2> QED  BY <1>3, <1>5, <1>6, <1>7, <2>1 DEF InProgress
<1> QED  BY <1>3, <1>8, <1>9, <1>10, <1>11 DEF new

LEMMA NoMessage ==
  ASSUME NEW ms \in Seq(Message)
  PROVE  ms \o <<>> = ms
BY ConcatEmptySeq

\* While the parse goes on, its messages are progress.
LEMMA StillInProgress ==
  ASSUME TalkInv, pc # "ended", Reached \in Int
  PROVE  /\ messages \in Seq(Message) /\ Rising(messages) /\ InProgress(messages, Reached)
         /\ NoDone(messages)
BY DEF TalkInv, AllFed

\* A parse that goes on and posts a progress between what it had reached and
\* what it has reached, or nothing.
LEMMA TalkOn ==
  ASSUME TalkInv, pc # "ended", Reached \in Int, Reached' \in Int, Reached <= Reached',
         NEW q \in Int, q = Unknown \/ Reached <= q, q <= Reached',
         NEW told \in {<<>>, <<Progress(q)>>}, Post(told)
  PROVE  TalkInv'
<1>1. /\ messages \in Seq(Message) /\ Rising(messages) /\ InProgress(messages, Reached)
      /\ NoDone(messages)
  BY StillInProgress
<1>2. CASE told = <<>>
  <2>1. messages' = messages
    BY <1>1, <1>2, NoMessage DEF Post
  <2>2. \A n \in 1..Len(messages) : messages[n].pct \in Int
    <3>1. \A n \in 1..Len(messages) : messages[n] \in Message
      BY <1>1, ElementOfSeq
    <3> QED  BY <3>1 DEF Message
  <2>3. InProgress(messages, Reached')
    BY <1>1, <2>2 DEF InProgress
  <2> QED  BY <1>1, <2>1, <2>3 DEF TalkInv
<1>3. CASE told = <<Progress(q)>>
  <2> DEFINE x == Progress(q)
             new == messages \o <<x>>
  <2>1. x \in Message /\ x.pct = q /\ x.type = "progress"
    BY DEF Progress, Message
  <2>2. messages' = new
    BY <1>3 DEF Post
  <2> HIDE DEF x
  <2>3. new \in Seq(Message) /\ Rising(new) /\ OneEnd(new) /\ NoDone(new) /\ InProgress(new, Reached')
    BY <1>1, <2>1, OneMore
  <2> QED  BY <2>2, <2>3 DEF TalkInv
<1> QED  BY <1>2, <1>3

\* A parse that ends with an error.
LEMMA TalkFails ==
  ASSUME TalkInv, pc # "ended", Reached \in Int, Fail
  PROVE  TalkInv'
<1>1. /\ messages \in Seq(Message) /\ Rising(messages) /\ InProgress(messages, Reached)
      /\ NoDone(messages)
  BY StillInProgress
<1> DEFINE x == [type |-> "error", pct |-> Unknown]
           new == messages \o <<x>>
<1>2. x \in Message /\ x.pct = Unknown /\ x.type = "error"
  BY DEF Message, Unknown
<1>3. messages' = new /\ pc' = "ended"
  BY DEF Fail, Error, Post
<1> HIDE DEF x
<1>4. new \in Seq(Message) /\ Rising(new) /\ OneEnd(new) /\ NoDone(new)
  BY <1>1, <1>2, OneMore
<1> QED  BY <1>3, <1>4 DEF TalkInv

LEMMA ReachedNat ==
  ASSUME PlaceInv, part \in 1..Len(parts)
  PROVE  Reached \in Int /\ Base \in Nat
BY BaseNat DEF Reached, PlaceInv

\* A push posts the progress of the slice that was read last, or fails.
LEMMA TalkPush ==
  ASSUME TalkInv, pc \in {"reading", "pushing"}, Reached \in Int, Base \in Nat, slice \in Nat,
         NEW p, NEW next, Push(p, next), UNCHANGED <<parts, part, slice>>, next # "pushing",
         source = "zip" \/ pc = "pushing" \/ source = "url"
  PROVE  TalkInv'
<1>1. CASE Fail
  BY <1>1, TalkFails
<1>2. CASE \E told \in {<<>>, <<Progress(Pct)>>} : Post(told) /\ pc' = next
  <2>1. Base' = Base
    BY LogSame DEF Base
  <2>2. Reached' = Base + slice
    BY <1>2, <2>1 DEF Reached
  <2>3. Reached <= Reached' /\ Reached' \in Int
    BY <2>2 DEF Reached
  <2>4. Pct \in Int /\ Pct <= Reached' /\ (Pct = Unknown \/ Reached <= Pct)
    <3>1. SlicesBefore(part) = Base
      BY DEF SlicesBefore, Base
    <3> QED  BY <2>2, <3>1 DEF Pct, Reached, Unknown
  <2>5. PICK told \in {<<>>, <<Progress(Pct)>>} : Post(told)
    BY <1>2
  <2> QED  BY <2>3, <2>4, <2>5, TalkOn
<1> QED  BY <1>1, <1>2 DEF Push

LEMMA TalkSilent ==
  ASSUME TalkInv, pc # "ended", Reached \in Int, Reached' = Reached, UNCHANGED messages
  PROVE  TalkInv'
<1>1. /\ messages \in Seq(Message) /\ Rising(messages) /\ InProgress(messages, Reached)
      /\ NoDone(messages)
  BY StillInProgress
<1> QED  BY <1>1 DEF TalkInv

LEMMA ReachedZero ==
  ASSUME PlaceInv, pc \in {"idle", "fetching", "opening"}
  PROVE  Reached = 0
<1>1. Log[0] = <<>> /\ part - 1 = 0 /\ slice = 0
  BY LogSteps DEF PlaceInv
<1>2. Base = 0
  BY <1>1 DEF Base
<1> QED  BY <1>1, <1>2 DEF Reached

LEMMA TalkStart ==
  ASSUME PlaceInv, PlaceInv', TalkInv,
         Download \/ Open \/ ReadHeader \/ \E s, ps : Task(s, ps)
  PROVE  TalkInv'
<1>1. Log[0] = <<>> /\ Log'[0] = <<>>
  BY LogSteps, LogNamed DEF PlaceInv
<1>2. CASE Download
  <2>1. pc = "fetching" /\ part = 1 /\ slice = 0 /\ UNCHANGED <<part, slice>>
    BY <1>2 DEF Download, PlaceInv
  <2>2. Reached = 0
    BY <2>1, ReachedZero
  <2>3. CASE Fail
    BY <2>1, <2>2, <2>3, TalkFails
  <2>4. CASE pc' = "opening" /\ \E told \in {<<>>, <<Progress(0)>>} : Post(told)
    <3>1. Base' = 0
      BY <1>1, <2>1 DEF Base
    <3>2. Reached' = 0
      BY <2>1, <2>4, <3>1 DEF Reached
    <3>3. PICK told \in {<<>>, <<Progress(0)>>} : Post(told)
      BY <2>4
    <3>4. 0 \in Int /\ Reached \in Int /\ Reached' \in Int /\ Reached <= Reached'
          /\ Reached <= 0 /\ 0 <= Reached' /\ pc # "ended"
      BY <2>1, <2>2, <3>2
    <3> HIDE DEF Progress
    <3> QED  BY <3>3, <3>4, TalkOn
  <2> QED  BY <1>2, <2>3, <2>4 DEF Download
<1>3. CASE Open \/ ReadHeader
  <2>1. /\ pc \in {"opening", "header"} /\ UNCHANGED <<parts, part, slice>> /\ Log' = Log
        /\ slice = 0
    BY <1>3, LogSame DEF Open, ReadHeader, PlaceInv
  <2>2. Reached \in Int
    BY <2>1, ReachedZero, ReachedNat DEF PlaceInv
  <2>3. CASE Fail
    BY <2>1, <2>2, <2>3, TalkFails
  <2>4. CASE pc' \in {"header", "reading"} /\ UNCHANGED messages
    <3>1. Reached' = Reached
      BY <2>1, <2>4 DEF Reached, Base
    <3> QED  BY <2>1, <2>2, <2>4, <3>1, TalkSilent
  <2> QED  BY <1>3, <2>3, <2>4 DEF Open, ReadHeader
<1>4. CASE \E s, ps : Task(s, ps)
  <2>1. /\ pc = "idle" /\ pc' \in {"fetching", "opening"} /\ UNCHANGED <<part, slice, messages>>
        /\ part = 1 /\ slice = 0
    BY <1>4 DEF Task, PlaceInv
  <2>2. Reached = 0
    BY <2>1, ReachedZero
  <2>3. Reached' = 0
    <3>1. Base' = 0
      BY <1>1, <2>1 DEF Base
    <3> QED  BY <2>1, <3>1 DEF Reached
  <2> QED  BY <2>1, <2>2, <2>3, TalkSilent
<1> QED  BY <1>2, <1>3, <1>4

LEMMA TalkRead ==
  ASSUME PlaceInv, TalkInv, ReadSlice
  PROVE  TalkInv'
<1>1. /\ pc = "reading" /\ UNCHANGED <<parts, part>> /\ Log' = Log /\ slice \in Nat
      /\ part \in 1..Len(parts)
  BY LogSame DEF ReadSlice, PlaceInv
<1>2. Reached \in Int /\ Base \in Nat
  BY <1>1, ReachedNat
<1>3. CASE Fail
  BY <1>1, <1>2, <1>3, TalkFails
<1>4. CASE slice' = slice + 1 /\ pc' = "pushing" /\ UNCHANGED messages
  <2>1. Reached' = Reached
    BY <1>1, <1>2, <1>4 DEF Reached, Base
  <2> QED  BY <1>1, <1>2, <1>4, <2>1, TalkSilent
<1> QED  BY <1>3, <1>4 DEF ReadSlice

LEMMA TalkPushed ==
  ASSUME PlaceInv, TalkInv, PushSlice
  PROVE  TalkInv'
<1>1. /\ pc = "pushing" /\ UNCHANGED <<source, parts, part, slice>> /\ Log' = Log /\ slice \in Nat
      /\ part \in 1..Len(parts)
  BY LogSame DEF PushSlice, PlaceInv
<1>2. Reached \in Int /\ Base \in Nat
  BY <1>1, ReachedNat
<1>3. ASSUME NEW p, Push(p, "reading")
      PROVE  TalkInv'
  BY <1>1, <1>2, <1>3, TalkPush
<1>4. CASE pc' = "reading" /\ UNCHANGED messages
  <2>1. Reached' = Base + slice /\ Reached = Base + (slice - 1)
    BY <1>1, <1>4 DEF Reached, Base
  <2>2. messages' = messages \o <<>>
    BY <1>4, NoMessage DEF TalkInv
  <2>3. Reached' \in Int /\ Reached <= Reached' /\ Post(<<>>) /\ pc # "ended" /\ Unknown \in Int
        /\ Unknown <= Reached'
    BY <1>1, <1>2, <2>1, <2>2 DEF Post, Unknown
  <2> QED  BY <1>2, <2>3, TalkOn
<1> QED  BY <1>3, <1>4 DEF PushSlice

LEMMA TalkEnd ==
  ASSUME PlaceInv, TalkInv, EndOfPart
  PROVE  TalkInv'
<1>1. /\ pc = "reading" /\ UNCHANGED <<source, parts, part, slice>> /\ Log' = Log /\ slice \in Nat
      /\ part \in 1..Len(parts)
  BY LogSame DEF EndOfPart, PlaceInv
<1>2. Reached \in Int /\ Base \in Nat
  BY <1>1, ReachedNat
<1>3. CASE Archive /\ Push(PushLast, "next")
  BY <1>1, <1>2, <1>3, TalkPush DEF Archive
<1>4. CASE Fail
  BY <1>1, <1>2, <1>4, TalkFails
<1>5. CASE pc' = "next" /\ UNCHANGED messages
  <2>1. Reached' = Reached
    BY <1>1, <1>5 DEF Reached, Base
  <2> QED  BY <1>1, <1>2, <1>5, <2>1, TalkSilent
<1> QED  BY <1>3, <1>4, <1>5 DEF EndOfPart, EndEntry

LEMMA TalkNext ==
  ASSUME PlaceInv, TalkInv, NextPart
  PROVE  TalkInv'
<1>1. /\ pc = "next" /\ UNCHANGED <<parts, messages>> /\ Log' = Log /\ part \in Nat
      /\ part \in 1..Len(parts) /\ slice = parts[part].slices /\ slice \in Nat
  BY LogSame DEF NextPart, PlaceInv, Current
<1>2. Reached \in Int
  BY <1>1, ReachedNat
<1>3. Len(Log[part]) = Base + slice /\ Base \in Nat /\ (part + 1) - 1 = part
  BY <1>1, LogAt DEF PlaceInv, Base
<1>4. Reached' = Reached
  <2>1. CASE part' = part + 1 /\ slice' = 0 /\ pc' = "header"
    BY <1>1, <1>3, <2>1 DEF Reached, Base
  <2>2. CASE pc' = "flushing" /\ UNCHANGED <<part, slice>>
    BY <1>1, <2>2 DEF Reached, Base
  <2> QED  BY <2>1, <2>2 DEF NextPart
<1> QED  BY <1>1, <1>2, <1>4, TalkSilent

\* "done" is posted when the last part was read to its end, with nothing left
\* in its decoder: the slices that were fed are then the whole log.
LEMMA TalkFinish ==
  ASSUME PlaceInv, FedInv, TalkInv, Finish
  PROVE  TalkInv'
<1>1. /\ pc = "flushing" /\ part = Len(parts) /\ part \in 1..Len(parts) /\ part \in Nat
      /\ slice = parts[part].slices /\ slice \in Nat /\ held = 0 /\ backlog = <<>>
      /\ UNCHANGED <<parts, backlog, held, fed>> /\ flushed' = TRUE /\ Log' = Log
  BY LogSame DEF Finish, PlaceInv, FedInv, Current
<1>2. Reached \in Int /\ Base \in Nat
  BY <1>1, ReachedNat
<1>3. CASE Fail
  BY <1>1, <1>2, <1>3, TalkFails
<1>4. CASE Post(Completion) /\ pc' = "ended"
  <2>1. TotalSlices = Base + slice
    BY <1>1, LogAt DEF PlaceInv, Base, TotalSlices
  <2>2. Reached = Base + slice /\ Pushed = slice
    BY <1>1 DEF Reached, Pushed
  <2>3. fed = Log[Len(parts)]
    <3> DEFINE log == Log[Len(parts)]
    <3>1. Begun(fed, log) /\ Len(fed) + Len(backlog) = Base + Pushed
      BY <1>1 DEF FedInv
    <3>2. Len(fed) = Len(log) /\ log \in Seq(Pairs)
      <4>1. fed \in Seq(Pairs) /\ Len(fed) \in Nat
        BY <3>1, LenProperties DEF Begun
      <4>2. Len(fed) = Base + slice
        BY <1>1, <1>2, <2>2, <3>1, <4>1
      <4> QED  BY <1>1, <2>1, <4>2, LogAt DEF PlaceInv, TotalSlices
    <3> HIDE DEF log
    <3>3. fed \in Seq(Pairs) /\ \A i \in 1..Len(fed) : fed[i] = log[i]
      BY <3>1 DEF Begun
    <3>4. fed = log
      BY <3>2, <3>3, SeqEqual
    <3> QED  BY <3>4 DEF log
  <2>4. AllFed'
    BY <1>1, <1>4, <2>3 DEF AllFed
  <2> DEFINE x == Progress(TotalSlices)
             y == [type |-> "done", pct |-> Unknown]
             some == messages \o <<x>>
  <2>5. /\ x \in Message /\ x.type = "progress" /\ x.pct = TotalSlices
        /\ y \in Message /\ y.type = "done" /\ y.pct = Unknown
        /\ TotalSlices \in Int /\ Reached <= TotalSlices
    BY <1>1, <1>2, <2>1, <2>2 DEF Progress, Message, Unknown
  <2>6. /\ messages \in Seq(Message) /\ Rising(messages) /\ InProgress(messages, Reached)
    BY <1>1, <1>2, StillInProgress
  <2>7. messages' = some \o <<y>>
    <3>1. messages' = messages \o <<x, y>>
      BY <1>4 DEF Post, Completion
    <3> HIDE DEF x, y
    <3>2. <<x>> \in Seq(Message) /\ <<y>> \in Seq(Message)
      BY <2>5
    <3>3. <<x, y>> = <<x>> \o <<y>>
      <4> DEFINE a == <<x>>
                 b == <<y>>
                 both == <<x, y>>
      <4>1. /\ Len(a) = 1 /\ a[1] = x /\ Len(b) = 1 /\ b[1] = y
            /\ both \in Seq(Message) /\ Len(both) = 2 /\ both[1] = x /\ both[2] = y
        BY <2>5
      <4>2. a \in Seq(Message) /\ b \in Seq(Message)
        BY <3>2
      <4> HIDE DEF a, b, both
      <4>3. /\ a \o b \in Seq(Message) /\ Len(a \o b) = 2
            /\ \A i \in 1..2 : (a \o b)[i] = IF i <= 1 THEN a[i] ELSE b[i - 1]
        <5>1. a \o b \in Seq(Message) /\ Len(a \o b) = Len(a) + Len(b)
          BY <4>2, ConcatProperties
        <5>2. \A i \in 1..(Len(a) + Len(b)) : (a \o b)[i] = IF i <= Len(a) THEN a[i] ELSE b[i - Len(a)]
          BY <4>2, ConcatProperties
        <5> QED  BY <4>1, <5>1, <5>2
      <4>4. \A i \in 1..2 : (a \o b)[i] = both[i]
        <5>1. ASSUME NEW i \in 1..2 PROVE i = 1 \/ i = 2
          OBVIOUS
        <5> QED  BY <4>1, <4>3, <5>1
      <4>5. both = a \o b
        BY <4>1, <4>3, <4>4, SeqEqual
      <4> QED  BY <4>5 DEF a, b, both
    <3> QED  BY <2>6, <3>1, <3>2, <3>3, ConcatAssociative
  <2> HIDE DEF x, y
  <2>8. some \in Seq(Message) /\ Rising(some) /\ InProgress(some, TotalSlices)
    <3>1. TotalSlices <= TotalSlices
      BY <2>5
    <3> HIDE DEF TotalSlices
    <3> QED  BY <1>2, <2>5, <2>6, <3>1, OneMore
  <2> HIDE DEF some
  <2>9. some \o <<y>> \in Seq(Message) /\ Rising(some \o <<y>>) /\ OneEnd(some \o <<y>>)
    BY <2>5, <2>8, OneMore
  <2> QED  BY <1>4, <2>4, <2>7, <2>9 DEF TalkInv
<1> QED  BY <1>3, <1>4 DEF Finish

LEMMA TalkInit ==
  ASSUME WorkerInit
  PROVE  TalkInv
<1>1. <<>> \in Seq(Message) /\ Len(<<>>) = 0
  OBVIOUS
<1> QED  BY <1>1 DEF WorkerInit, TalkInv, Rising, OneEnd, InProgress, NoDone

LEMMA TalkStep ==
  ASSUME PlaceInv, FedInv, TalkInv, PlaceInv', [WorkerNext]_workerVars
  PROVE  TalkInv'
<1>1. CASE Download \/ Open \/ ReadHeader \/ \E s, ps : Task(s, ps)
  BY <1>1, TalkStart
<1>2. CASE ReadSlice \/ PushSlice \/ EndOfPart \/ NextPart
  BY <1>2, TalkRead, TalkPushed, TalkEnd, TalkNext
<1>3. CASE Finish
  BY <1>3, TalkFinish
<1>4. CASE RequestTaskData \/ AnswerTaskData \/ UNCHANGED workerVars
  <2>1. UNCHANGED <<parts, pc, part, slice, held, fed, backlog, flushed, messages>>
    BY <1>4 DEF RequestTaskData, AnswerTaskData, workerVars
  <2>2. Log' = Log
    BY <2>1, LogSame
  <2> QED  BY <2>1, <2>2 DEF TalkInv, AllFed, Reached, Base
<1> QED  BY <1>1, <1>2, <1>3, <1>4 DEF WorkerNext, Step

ReportInv == PlaceInv /\ FedInv /\ TalkInv

LEMMA ReportAlways == WorkerSpec => []ReportInv
<1>1. WorkerInit => ReportInv
  BY PlaceInit, FedInit, TalkInit DEF ReportInv
<1>2. ReportInv /\ [WorkerNext]_workerVars => ReportInv'
  BY PlaceStep, FedStep, TalkStep DEF ReportInv
<1> QED  BY <1>1, <1>2, PTL DEF WorkerSpec

LEMMA LastMessage ==
  ASSUME TalkInv, messages # <<>>
  PROVE  Last(messages) = messages[Len(messages)] /\ Len(messages) \in 1..Len(messages)
<1>1. Len(messages) \in Nat /\ Len(messages) # 0
  BY EmptySeq DEF TalkInv
<1> QED  BY <1>1 DEF Last

\* "done" is said only when every slice of every part was decoded in
\* order and once, whatever the source, the codecs and how long a decoder keeps
\* slices back.
THEOREM DoneCorrect == WorkerSpec => []DoneIsWhole
<1>1. ReportInv => DoneIsWhole
  <2> SUFFICES ASSUME ReportInv PROVE DoneIsWhole
    OBVIOUS
  <2>1. PlaceInv /\ FedInv /\ TalkInv
    BY DEF ReportInv
  <2>2. IsPrefix(fed, Log[Len(parts)])
    <3> DEFINE log == Log[Len(parts)]
    <3>1. fed \in Seq(Pairs) /\ Len(fed) <= Len(log) /\ \A i \in 1..Len(fed) : fed[i] = log[i]
      BY <2>1 DEF FedInv, Begun
    <3>2. log \in Seq(Pairs) /\ Len(log) \in Nat /\ Len(fed) \in Nat
      <4>1. Len(parts) \in 0..Len(parts)
        BY <2>1, LenProperties DEF PlaceInv
      <4> QED  BY <2>1, <3>1, <4>1, LogType, LenProperties DEF PlaceInv
    <3> HIDE DEF log
    <3>3. fed = SubSeq(log, 1, Len(fed))
      BY <3>1, <3>2
    <3>4. IsPrefix(fed, log)
      BY <3>1, <3>2, <3>3 DEF IsPrefix
    <3> QED  BY <3>4 DEF log
  <2>3. ASSUME messages # <<>>, Last(messages).type = "done"
        PROVE  flushed /\ backlog = <<>> /\ held = 0 /\ fed = Log[Len(parts)]
    <3>1. ~NoDone(messages)
      BY <2>1, <2>3, LastMessage DEF NoDone
    <3> QED  BY <2>1, <3>1 DEF TalkInv, AllFed
  <2> QED  BY <2>2, <2>3 DEF DoneIsWhole
<1> QED  BY <1>1, ReportAlways, PTL

\* The progress a parse posts never falls, and nothing follows its one terminal
\* message.
THEOREM MessagesCorrect == WorkerSpec => []MessagesInOrder
<1>1. ReportInv => MessagesInOrder
  <2> SUFFICES ASSUME ReportInv PROVE MessagesInOrder
    OBVIOUS
  <2>1. messages \in Seq(Message) /\ Rising(messages) /\ OneEnd(messages)
    BY DEF ReportInv, TalkInv
  <2>2. DOMAIN messages = 1..Len(messages) /\ Len(messages) \in Nat
    BY <2>1
  <2>3. OneTerminal
    BY <2>1, <2>2 DEF OneTerminal, OneEnd, Terminal
  <2>4. ProgressNeverFalls
    BY <2>1, <2>2 DEF ProgressNeverFalls, Rising, Before
  <2> QED  BY <2>3, <2>4 DEF MessagesInOrder
<1> QED  BY <1>1, ReportAlways, PTL

-----------------------------------------------------------------------------
\* The characters, with the literals the decoder compares with or puts in.
Chars == STRING \cup {"P", "Q", "K", "L", "m", "?", Header, SmallCommand, Newline}

-----------------------------------------------------------------------------
(* Searching.                                                               *)

\* First answers the least place, 0 where there is none.
LEMMA FirstOf ==
  ASSUME NEW S \in SUBSET (Nat \ {0})
  PROVE  /\ First(S) \in Nat
         /\ First(S) = 0 <=> S = {}
         /\ S # {} => First(S) \in S /\ \A y \in S : First(S) <= y
<1>1. CASE S = {}
  BY <1>1 DEF First
<1>2. CASE S # {}
  <2>1. \E x \in S : \A y \in S : x <= y
    <3>1. S \in SUBSET Nat
      OBVIOUS
    <3> QED  BY <1>2, <3>1, LeastOf
  <2>2. Min(S) \in S /\ \A y \in S : Min(S) <= y
    BY <2>1 DEF Min
  <2> QED  BY <1>2, <2>2 DEF First
<1> QED  BY <1>1, <1>2

\* What is found first in a set is found first in one that adds later places.
LEMMA FirstKept ==
  ASSUME NEW S \in SUBSET (Nat \ {0}), NEW T \in SUBSET (Nat \ {0}), S # {}, S \subseteq T,
         \A y \in T : y \in S \/ \A x \in S : x <= y
  PROVE  First(T) = First(S)
<1>1. First(S) \in S /\ \A y \in S : First(S) <= y
  BY FirstOf
<1>2. First(T) \in T /\ \A y \in T : First(T) <= y
  BY FirstOf
<1>3. First(T) <= First(S) /\ First(S) \in Nat /\ First(T) \in Nat
  BY <1>1, <1>2
<1>4. First(S) <= First(T)
  BY <1>1, <1>2
<1> QED  BY <1>3, <1>4

\* Characters of a joined sequence.
LEMMA Joined ==
  ASSUME NEW s \in Seq(Chars), NEW c \in Seq(Chars)
  PROVE  /\ s \o c \in Seq(Chars) /\ Len(s \o c) = Len(s) + Len(c)
         /\ \A i \in 1..Len(s) : (s \o c)[i] = s[i]
         /\ \A i \in 1..Len(c) : (s \o c)[Len(s) + i] = c[i]
  OBVIOUS

LEMMA Lens ==
  ASSUME NEW s \in Seq(Chars)
  PROVE  /\ Len(s) \in Nat
         /\ s = <<>> <=> Len(s) = 0
         /\ \A i \in 1..Len(s) : s[i] \in Chars
BY EmptySeq, LenProperties

\* A piece of a sequence.
LEMMA Piece ==
  ASSUME NEW s \in Seq(Chars), NEW m \in Nat \ {0}, NEW n \in Nat, n <= Len(s)
  PROVE  /\ SubSeq(s, m, n) \in Seq(Chars)
         /\ Len(SubSeq(s, m, n)) = IF m <= n THEN n - m + 1 ELSE 0
         /\ \A i \in 1..(n - m + 1) : SubSeq(s, m, n)[i] = s[m + i - 1]
<1>1. \A i \in m..n : s[i] \in Chars
  BY Lens
<1>2. m \in Int /\ n \in Int
  OBVIOUS
<1> QED  BY <1>1, <1>2, SubSeqProperties

LEMMA TwoLong ==
  ASSUME NEW S, NEW a \in S, NEW b \in S
  PROVE  <<a, b>> \in Seq(S) /\ Len(<<a, b>>) = 2 /\ <<a, b>>[1] = a /\ <<a, b>>[2] = b
<1>1. <<a, b>> \in Seq(S)
  OBVIOUS
<1>2. Len(<<a, b>>) = 2
  OBVIOUS
<1>3. <<a, b>>[1] = a /\ <<a, b>>[2] = b
  OBVIOUS
<1> QED  BY <1>1, <1>2, <1>3

\* Two characters of it.
LEMMA PieceOfTwo ==
  ASSUME NEW s \in Seq(Chars), NEW i \in 1..(Len(s) - 1), NEW a \in Chars, NEW b \in Chars
  PROVE  SubSeq(s, i, i + 1) = <<a, b>> <=> s[i] = a /\ s[i + 1] = b
<1> DEFINE two == SubSeq(s, i, i + 1)
<1>1. Len(s) \in Nat /\ i \in Nat \ {0} /\ i + 1 \in Nat /\ i + 1 <= Len(s)
  BY Lens
<1>2. /\ two \in Seq(Chars)
      /\ Len(two) = IF i <= i + 1 THEN i + 1 - i + 1 ELSE 0
      /\ \A k \in 1..(i + 1 - i + 1) : two[k] = s[i + k - 1]
  BY <1>1, Piece
<1> HIDE DEF two
<1>3. Len(two) = 2 /\ i + 1 - i + 1 = 2
  BY <1>1, <1>2
<1>4. two[1] = s[i + 1 - 1] /\ two[2] = s[i + 2 - 1]
  BY <1>2, <1>3
<1>5. two[1] = s[i] /\ two[2] = s[i + 1]
  BY <1>1, <1>4
<1>6. <<a, b>> \in Seq(Chars) /\ Len(<<a, b>>) = 2 /\ <<a, b>>[1] = a /\ <<a, b>>[2] = b
  BY TwoLong
<1>7. ASSUME two[1] = a, two[2] = b PROVE two = <<a, b>>
  <2>1. \A k \in 1..2 : k = 1 \/ k = 2
    OBVIOUS
  <2>2. \A k \in 1..2 : two[k] = <<a, b>>[k]
    BY <1>6, <1>7, <2>1
  <2> QED  BY <1>2, <1>3, <1>6, <2>2, SeqEqual
<1> QED  BY <1>5, <1>6, <1>7 DEF two

-----------------------------------------------------------------------------
(* The places the decoder looks for, character by character.                *)

Sql(s) == Len(s) >= 2 /\ s[1] = "P" /\ s[2] = "Q"
NotSql(s) == (Len(s) >= 1 /\ s[1] # "P") \/ (Len(s) >= 2 /\ s[2] # "Q")
Keys2(s) == {i \in 1..(Len(s) - 1) : s[i] = "K" /\ s[i + 1] = "L"}
Small(s, from) == Len(s) >= from + 1 /\ s[from] = Header /\ s[from + 1] = SmallCommand
Closing(s, from) ==
  {i \in from..Len(s) : s[i] = Quote /\ Even(RunBefore(s, i, from))}

LEMMA PrefixOfSql ==
  ASSUME NEW s \in Seq(Chars)
  PROVE  /\ IsPrefix(SqlPrefix, s) <=> Sql(s)
         /\ Len(s) < 2 => (IsPrefix(s, SqlPrefix) <=> Len(s) = 0 \/ s[1] = "P")
         /\ Sql(s) \/ NotSql(s) \/ Len(s) = 0 \/ (Len(s) = 1 /\ s[1] = "P")
         /\ ~(Sql(s) /\ NotSql(s))
         /\ Len(SqlPrefix) = 2
<1>a. "P" \in Chars /\ "Q" \in Chars
  BY DEF Chars
<1>1. /\ SqlPrefix = <<"P", "Q">> /\ SqlPrefix \in Seq(Chars) /\ Len(SqlPrefix) = 2
      /\ SqlPrefix[1] = "P" /\ SqlPrefix[2] = "Q"
  BY <1>a, TwoLong DEF SqlPrefix
<1>2. Len(s) \in Nat
  OBVIOUS
<1>3. SubSeq(SqlPrefix, 1, 2) = SqlPrefix
  BY <1>1, SubSeqFull
<1>4. ASSUME Len(s) >= 2 PROVE SubSeq(s, 1, 2) = SqlPrefix <=> s[1] = "P" /\ s[2] = "Q"
  <2>1. 1 \in 1..(Len(s) - 1)
    BY <1>2, <1>4
  <2>2. SubSeq(s, 1, 1 + 1) = <<"P", "Q">> <=> s[1] = "P" /\ s[1 + 1] = "Q"
    BY <1>a, <2>1, PieceOfTwo
  <2>3. 1 + 1 = 2
    OBVIOUS
  <2> QED  BY <1>1, <2>2, <2>3
<1>5. IsPrefix(SqlPrefix, s) <=> Sql(s)
  BY <1>1, <1>2, <1>3, <1>4 DEF IsPrefix, Sql
<1>6. ASSUME Len(s) < 2 PROVE IsPrefix(s, SqlPrefix) <=> Len(s) = 0 \/ s[1] = "P"
  <2>1. CASE Len(s) = 0
    <3>1. SubSeq(s, 1, 0) = <<>> /\ SubSeq(SqlPrefix, 1, 0) = <<>>
      BY SubSeqEmpty
    <3> QED  BY <1>1, <2>1, <3>1 DEF IsPrefix
  <2>2. CASE Len(s) = 1
    <3>1. /\ SubSeq(s, 1, 1) \in Seq(Chars) /\ Len(SubSeq(s, 1, 1)) = 1
          /\ SubSeq(s, 1, 1)[1] = s[1]
      BY <2>2, Piece
    <3>2. /\ SubSeq(SqlPrefix, 1, 1) \in Seq(Chars) /\ Len(SubSeq(SqlPrefix, 1, 1)) = 1
          /\ SubSeq(SqlPrefix, 1, 1)[1] = "P"
      BY <1>1, Piece
    <3>3. s[1] = "P" => \A k \in 1..1 : SubSeq(s, 1, 1)[k] = SubSeq(SqlPrefix, 1, 1)[k]
      BY <3>1, <3>2
    <3>4. SubSeq(s, 1, 1) = SubSeq(SqlPrefix, 1, 1) <=> s[1] = "P"
      BY <3>1, <3>2, <3>3, SeqEqual
    <3> QED  BY <1>1, <2>2, <3>4 DEF IsPrefix
  <2>3. Len(s) = 0 \/ Len(s) = 1
    <3>1. PICK n \in Nat : n = Len(s)
      BY <1>2
    <3>2. n = 0 \/ n = 1
      BY <1>6, <3>1
    <3> QED  BY <3>1, <3>2
  <2> QED  BY <2>1, <2>2, <2>3
<1>7. Sql(s) \/ NotSql(s) \/ Len(s) = 0 \/ (Len(s) = 1 /\ s[1] = "P")
  <2>1. PICK n \in Nat : n = Len(s)
    BY <1>2
  <2>2. n = 0 \/ n = 1 \/ n >= 2
    BY <2>1
  <2> QED  BY <2>1, <2>2 DEF Sql, NotSql
<1>8. ~(Sql(s) /\ NotSql(s))
  BY <1>2 DEF Sql, NotSql
<1> QED  BY <1>1, <1>5, <1>6, <1>7, <1>8

LEMMA KeyPlaces ==
  ASSUME NEW s \in Seq(Chars)
  PROVE  /\ Keys2(s) \in SUBSET (Nat \ {0})
         /\ IndexOfSeq(s, PlanKey) = First(Keys2(s))
         /\ Len(PlanKey) = 2
<1>a. "K" \in Chars /\ "L" \in Chars
  BY DEF Chars
<1>1. Len(PlanKey) = 2 /\ PlanKey = <<"K", "L">>
  BY <1>a, TwoLong DEF PlanKey
<1>2. Len(s) \in Nat
  OBVIOUS
<1>3. Len(s) - 2 + 1 = Len(s) - 1
  BY <1>2
<1>4. ASSUME NEW i \in 1..(Len(s) - 1)
      PROVE  SubSeq(s, i, i + 2 - 1) = <<"K", "L">> <=> s[i] = "K" /\ s[i + 1] = "L"
  <2>1. SubSeq(s, i, i + 1) = <<"K", "L">> <=> s[i] = "K" /\ s[i + 1] = "L"
    BY <1>a, <1>4, PieceOfTwo
  <2>2. i + 2 - 1 = i + 1
    BY <1>4
  <2> QED  BY <2>1, <2>2
<1>5. {i \in 1..(Len(s) - Len(PlanKey) + 1) : SubSeq(s, i, i + Len(PlanKey) - 1) = PlanKey}
        = Keys2(s)
  <2>1. /\ 1..(Len(s) - Len(PlanKey) + 1) = 1..(Len(s) - 1)
        /\ \A i \in 1..(Len(s) - 1) : i + Len(PlanKey) - 1 = i + 2 - 1
    BY <1>1, <1>3
  <2>2. \A i \in 1..(Len(s) - 1) :
          SubSeq(s, i, i + Len(PlanKey) - 1) = PlanKey <=> s[i] = "K" /\ s[i + 1] = "L"
    BY <1>1, <1>4, <2>1
  <2> QED  BY <2>1, <2>2 DEF Keys2
<1>6. Keys2(s) \in SUBSET (Nat \ {0})
  BY <1>2 DEF Keys2
<1> QED  BY <1>1, <1>5, <1>6 DEF IndexOfSeq

LEMMA PrefixOfTwo ==
  ASSUME NEW s \in Seq(Chars), NEW a \in Chars, NEW b \in Chars
  PROVE  IsPrefix(<<a, b>>, s) <=> Len(s) >= 2 /\ s[1] = a /\ s[2] = b
<1> DEFINE two == <<a, b>>
<1>1. two \in Seq(Chars) /\ Len(two) = 2 /\ two[1] = a /\ two[2] = b
  BY TwoLong
<1>2. SubSeq(two, 1, 2) = two
  BY <1>1, SubSeqFull
<1>3. ASSUME Len(s) >= 2 PROVE SubSeq(s, 1, 2) = two <=> s[1] = a /\ s[2] = b
  <2>1. 1 \in 1..(Len(s) - 1) /\ 1 + 1 = 2
    BY <1>3, Lens
  <2>2. SubSeq(s, 1, 1 + 1) = two <=> s[1] = a /\ s[1 + 1] = b
    BY <2>1, PieceOfTwo
  <2> QED  BY <2>1, <2>2
<1> HIDE DEF two
<1>4. IsPrefix(two, s) <=> 2 <= Len(s) /\ two = SubSeq(s, 1, 2)
  BY <1>1, <1>2 DEF IsPrefix
<1>5. Len(s) \in Nat
  BY Lens
<1>6. IsPrefix(two, s) <=> Len(s) >= 2 /\ s[1] = a /\ s[2] = b
  BY <1>3, <1>4, <1>5
<1> QED  BY <1>6 DEF two

LEMMA ClosingPlaces ==
  ASSUME NEW s \in Seq(Chars), NEW from \in Nat \ {0}
  PROVE  /\ Closing(s, from) \in SUBSET (Nat \ {0})
         /\ ClosingQuoteIndex(s, from) = 0 <=> Closing(s, from) = {}
<1>1. Closing(s, from) \in SUBSET (Nat \ {0})
  BY Lens DEF Closing
<1>2. ClosingQuoteIndex(s, from) = First(Closing(s, from))
  BY DEF ClosingQuoteIndex, Closing
<1> QED  BY <1>1, <1>2, FirstOf

LEMMA ValuePlace ==
  ASSUME NEW s \in Seq(Chars)
  PROVE  /\ ValueStart(s) = IF Sql(s) /\ Keys2(s) # {} THEN First(Keys2(s)) + 2 ELSE 0
         /\ ValueStart(s) \in Nat
         /\ ValueStart(s) # 0 <=> Sql(s) /\ Keys2(s) # {}
         /\ ValueStart(s) # 0 => /\ ValueStart(s) \in 3..(Len(s) + 1)
                                 /\ First(Keys2(s)) \in Keys2(s)
                                 /\ \A k \in Keys2(s) : First(Keys2(s)) <= k
<1>1. /\ IsPrefix(SqlPrefix, s) <=> Sql(s)
      /\ Keys2(s) \in SUBSET (Nat \ {0})
      /\ IndexOfSeq(s, PlanKey) = First(Keys2(s)) /\ Len(PlanKey) = 2
  BY PrefixOfSql, KeyPlaces
<1>2. /\ First(Keys2(s)) \in Nat
      /\ First(Keys2(s)) = 0 <=> Keys2(s) = {}
      /\ Keys2(s) # {} => First(Keys2(s)) \in Keys2(s) /\ \A k \in Keys2(s) : First(Keys2(s)) <= k
  BY <1>1, FirstOf
<1>3. ValueStart(s) = IF Sql(s) /\ Keys2(s) # {} THEN First(Keys2(s)) + 2 ELSE 0
  BY <1>1, <1>2 DEF ValueStart
<1>4. ASSUME NEW k \in Keys2(s) PROVE k + 2 \in 3..(Len(s) + 1)
  BY <1>4, Lens DEF Keys2
<1> QED  BY <1>2, <1>3, <1>4

-----------------------------------------------------------------------------
(* What was found stays found as characters are appended.                   *)

\* Nothing more need be read of the line: no value will be looked for in it, or
\* the value closed, or it is a small command's.
Decided(s) ==
  \/ NotSql(s)
  \/ /\ ValueStart(s) # 0
     /\ Closing(s, ValueStart(s)) # {} \/ Small(s, ValueStart(s))

LEMMA SqlStays ==
  ASSUME NEW s \in Seq(Chars), NEW c \in Seq(Chars)
  PROVE  (Sql(s) => Sql(s \o c)) /\ (NotSql(s) => NotSql(s \o c))
<1>1. /\ Len(s) \in Nat /\ Len(c) \in Nat /\ Len(s \o c) = Len(s) + Len(c)
      /\ \A i \in 1..Len(s) : (s \o c)[i] = s[i]
  BY Joined, Lens
<1>2. Sql(s) => Sql(s \o c)
  BY <1>1 DEF Sql
<1>3. NotSql(s) => NotSql(s \o c)
  BY <1>1 DEF NotSql
<1> QED  BY <1>2, <1>3

LEMMA ValueStays ==
  ASSUME NEW s \in Seq(Chars), NEW c \in Seq(Chars), ValueStart(s) # 0
  PROVE  ValueStart(s \o c) = ValueStart(s)
<1>1. /\ Len(s) \in Nat /\ Len(c) \in Nat /\ Len(s \o c) = Len(s) + Len(c) /\ s \o c \in Seq(Chars)
      /\ \A i \in 1..Len(s) : (s \o c)[i] = s[i]
  BY Joined, Lens
<1>2. Sql(s) /\ Keys2(s) # {} /\ Sql(s \o c)
  BY ValuePlace, SqlStays
<1>3. Keys2(s) \subseteq Keys2(s \o c)
  BY <1>1 DEF Keys2
<1>4. \A y \in Keys2(s \o c) : y \in Keys2(s) \/ \A x \in Keys2(s) : x <= y
  BY <1>1 DEF Keys2
<1>5. Keys2(s) \in SUBSET (Nat \ {0}) /\ Keys2(s \o c) \in SUBSET (Nat \ {0})
  BY <1>1, KeyPlaces
<1>6. First(Keys2(s \o c)) = First(Keys2(s))
  BY <1>2, <1>3, <1>4, <1>5, FirstKept
<1>7. Keys2(s \o c) # {}
  BY <1>2, <1>3
<1> QED  BY <1>1, <1>2, <1>6, <1>7, ValuePlace

LEMMA ClosingStays ==
  ASSUME NEW s \in Seq(Chars), NEW c \in Seq(Chars), NEW from \in Nat \ {0}
  PROVE  Closing(s, from) \subseteq Closing(s \o c, from)
<1>1. /\ Len(s) \in Nat /\ Len(c) \in Nat /\ Len(s \o c) = Len(s) + Len(c)
      /\ \A i \in 1..Len(s) : (s \o c)[i] = s[i]
  BY Joined, Lens
<1>2. ASSUME NEW i \in from..Len(s) PROVE RunBefore(s \o c, i, from) = RunBefore(s, i, from)
  <2>1. \A j \in from..(i - 1) : (s \o c)[j] = s[j]
    BY <1>1, <1>2
  <2>2. {j \in from..(i - 1) : (s \o c)[j] # Backslash} = {j \in from..(i - 1) : s[j] # Backslash}
    BY <2>1
  <2> QED  BY <2>2 DEF RunBefore
<1>3. \A i \in from..Len(s) : i \in from..Len(s \o c) /\ (s \o c)[i] = s[i]
  BY <1>1
<1> QED  BY <1>2, <1>3 DEF Closing

LEMMA DecidedStays ==
  ASSUME NEW s \in Seq(Chars), NEW c \in Seq(Chars), Decided(s)
  PROVE  Decided(s \o c)
<1>1. CASE NotSql(s)
  BY <1>1, SqlStays DEF Decided
<1>2. CASE ~NotSql(s)
  <2>1. PICK from \in Nat \ {0} : from = ValueStart(s)
    BY <1>2, ValuePlace DEF Decided
  <2>2. ValueStart(s \o c) = from
    BY <2>1, ValueStays
  <2>3. Closing(s, from) # {} \/ Small(s, from)
    BY <1>2, <2>1 DEF Decided
  <2>4. Closing(s, from) # {} => Closing(s \o c, from) # {}
    BY ClosingStays
  <2>5. Small(s, from) => Small(s \o c, from)
    <3>1. /\ Len(s) \in Nat /\ Len(c) \in Nat /\ Len(s \o c) = Len(s) + Len(c)
          /\ \A i \in 1..Len(s) : (s \o c)[i] = s[i]
      BY Joined, Lens
    <3> QED  BY <3>1 DEF Small
  <2> QED  BY <2>2, <2>3, <2>4, <2>5 DEF Decided
<1> QED  BY <1>1, <1>2

-----------------------------------------------------------------------------
(* The value of a line, and what the decoder decides of it.                 *)

Bounded(s) ==
  LET from == ValueStart(s)
      value == From(s, from)
  IN  (from # 0 /\ ClosingQuoteIndex(s, from) = 0 /\ ~IsPrefix(<<Header, SmallCommand>>, value))
        => Len(value) <= MaxScanned

LEMMA ValueOf ==
  ASSUME NEW s \in Seq(Chars), NEW from \in 1..(Len(s) + 1)
  PROVE  /\ From(s, from) \in Seq(Chars) /\ Len(From(s, from)) = Len(s) + 1 - from
         /\ \A i \in 1..(Len(s) + 1 - from) : From(s, from)[i] = s[from + i - 1]
         /\ IsPrefix(<<Header, SmallCommand>>, From(s, from)) <=> Small(s, from)
<1>1. Len(s) \in Nat /\ from \in Nat \ {0} /\ from <= Len(s) + 1
  BY Lens
<1>2. /\ From(s, from) \in Seq(Chars)
      /\ Len(From(s, from)) = IF from <= Len(s) THEN Len(s) - from + 1 ELSE 0
      /\ \A i \in 1..(Len(s) - from + 1) : From(s, from)[i] = s[from + i - 1]
  BY <1>1, Piece DEF From
<1>3. Len(From(s, from)) = Len(s) + 1 - from
  BY <1>1, <1>2
<1>4. Header \in Chars /\ SmallCommand \in Chars
  BY DEF Chars
<1>5. IsPrefix(<<Header, SmallCommand>>, From(s, from))
        <=> Len(From(s, from)) >= 2 /\ From(s, from)[1] = Header /\ From(s, from)[2] = SmallCommand
  BY <1>2, <1>4, PrefixOfTwo
<1>6. Len(From(s, from)) >= 2 =>
        From(s, from)[1] = s[from] /\ From(s, from)[2] = s[from + 1]
  <2>1. SUFFICES ASSUME Len(From(s, from)) >= 2
                 PROVE  From(s, from)[1] = s[from] /\ From(s, from)[2] = s[from + 1]
    OBVIOUS
  <2>2. 1 \in 1..(Len(s) - from + 1) /\ 2 \in 1..(Len(s) - from + 1)
    BY <1>1, <1>3, <2>1
  <2>3. from + 1 - 1 = from /\ from + 2 - 1 = from + 1
    BY <1>1
  <2>4. From(s, from)[1] = s[from + 1 - 1] /\ From(s, from)[2] = s[from + 2 - 1]
    BY <1>2, <2>2
  <2> QED  BY <2>3, <2>4
<1>7. Len(From(s, from)) >= 2 <=> Len(s) >= from + 1
  BY <1>1, <1>3
<1>8. \A i \in 1..(Len(s) + 1 - from) : i \in 1..(Len(s) - from + 1)
  BY <1>1
<1> QED  BY <1>2, <1>3, <1>5, <1>6, <1>7, <1>8 DEF Small

LEMMA DispositionOf ==
  ASSUME NEW s \in Seq(Chars), NEW from \in 1..(Len(s) + 1)
  PROVE  /\ Disposition(s, from) \in {"wait", "keep", "skip"}
         /\ Disposition(s, from) = "keep" => Small(s, from)
         /\ Disposition(s, from) = "wait" => Len(s) + 1 - from <= MaxScanned
<1> DEFINE value == From(s, from)
           small == value # <<>> /\ value[1] = Header /\ (Len(value) > 1 /\ value[2] = SmallCommand)
<1>1. /\ value \in Seq(Chars) /\ Len(value) = Len(s) + 1 - from
      /\ \A i \in 1..(Len(s) + 1 - from) : value[i] = s[from + i - 1]
  BY ValueOf
<1>b. Len(value) \in Nat /\ Len(s) \in Nat /\ from \in Nat \ {0}
  BY <1>1, Lens
<1>6. Disposition(s, from) =
        CASE value = <<>> \/ value = <<Header>> -> "wait"
          [] small -> "keep"
          [] OTHER -> IF Len(value) > MaxScanned THEN "skip" ELSE "wait"
  BY DEF Disposition
<1> HIDE DEF value
<1>2. MaxScanned \in Nat \ {0}
  BY DecoderAssumption DEF DecoderAssumption
<1>3. Len(<<>>) = 0 /\ Len(<<Header>>) = 1
  OBVIOUS
<1>4. value = <<>> \/ value = <<Header>> => Len(value) <= MaxScanned
  <2>1. SUFFICES ASSUME value = <<>> \/ value = <<Header>> PROVE Len(value) <= MaxScanned
    OBVIOUS
  <2>2. PICK n \in Nat : n = Len(value)
    BY <1>b
  <2>3. value = <<>> => n = 0
    BY <1>b, <2>2
  <2>4. value = <<Header>> => n = 1
    BY <1>b, <2>2
  <2> QED  BY <1>2, <2>1, <2>2, <2>3, <2>4, SMTT(40)
<1>5. small => Small(s, from)
  <2>1. SUFFICES ASSUME small PROVE Small(s, from)
    OBVIOUS
  <2>2. Len(s) >= from + 1
    BY <1>1, <1>b, <2>1
  <2>3. 1 \in 1..(Len(s) + 1 - from) /\ 2 \in 1..(Len(s) + 1 - from)
    BY <1>b, <2>2
  <2>4. value[1] = s[from + 1 - 1] /\ value[2] = s[from + 2 - 1]
    BY <1>1, <2>3
  <2>5. from + 1 - 1 = from /\ from + 2 - 1 = from + 1
    BY <1>b
  <2>6. value[1] = Header /\ value[2] = SmallCommand
    BY <2>1
  <2> QED  BY <2>2, <2>4, <2>5, <2>6 DEF Small
<1>7. value = <<>> \/ value = <<Header>> => ~small
  BY <1>3
<1>a. Len(value) <= MaxScanned => Len(s) + 1 - from <= MaxScanned
  BY <1>1
<1> HIDE DEF small
<1>8. CASE value = <<>> \/ value = <<Header>>
  <2>1. Disposition(s, from) = "wait"
    BY <1>6, <1>7, <1>8
  <2> QED  BY <1>4, <1>8, <1>a, <2>1
<1>9. CASE ~(value = <<>> \/ value = <<Header>>) /\ small
  <2>1. Disposition(s, from) = "keep"
    BY <1>6, <1>9
  <2> QED  BY <1>5, <1>9, <2>1
<1>10. CASE ~(value = <<>> \/ value = <<Header>>) /\ ~small
  <2>1. Disposition(s, from) = IF Len(value) > MaxScanned THEN "skip" ELSE "wait"
    BY <1>6, <1>10
  <2>2. ~(Len(value) > MaxScanned) => Len(value) <= MaxScanned
    BY <1>b, <1>2
  <2> QED  BY <1>a, <2>1, <2>2
<1> QED  BY <1>8, <1>9, <1>10

LEMMA BoundedWhen ==
  ASSUME NEW s \in Seq(Chars),
         Decided(s) \/ ValueStart(s) = 0 \/ Len(s) + 1 - ValueStart(s) <= MaxScanned
  PROVE  Bounded(s)
<1>1. CASE NotSql(s) \/ ValueStart(s) = 0
  <2>1. ValueStart(s) = 0
    BY <1>1, PrefixOfSql, ValuePlace
  <2> QED  BY <2>1 DEF Bounded
<1>2. CASE ~(NotSql(s) \/ ValueStart(s) = 0)
  <2>1. PICK from \in Nat \ {0} : from = ValueStart(s) /\ from \in 1..(Len(s) + 1)
    BY <1>2, ValuePlace
  <2>2. /\ Len(From(s, from)) = Len(s) + 1 - from
        /\ IsPrefix(<<Header, SmallCommand>>, From(s, from)) <=> Small(s, from)
        /\ ClosingQuoteIndex(s, from) = 0 <=> Closing(s, from) = {}
    BY <2>1, ValueOf, ClosingPlaces
  <2>3. Closing(s, from) # {} \/ Small(s, from) \/ Len(s) + 1 - from <= MaxScanned
    BY <1>2, <2>1 DEF Decided
  <2> QED  BY <2>1, <2>2, <2>3 DEF Bounded
<1> QED  BY <1>1, <1>2

\* A line cut where its value starts still has its value start there.
LEMMA ValueOfCut ==
  ASSUME NEW s \in Seq(Chars), NEW from, from = ValueStart(s), from # 0
  PROVE  LET cut == SubSeq(s, 1, from - 1)
         IN  cut \in Seq(Chars) /\ Len(cut) + 1 = from /\ ValueStart(cut) = from
<1> DEFINE cut == SubSeq(s, 1, from - 1)
<1>1. /\ from \in 3..(Len(s) + 1) /\ Sql(s) /\ Keys2(s) # {}
      /\ First(Keys2(s)) \in Keys2(s) /\ from = First(Keys2(s)) + 2
      /\ \A k \in Keys2(s) : First(Keys2(s)) <= k
      /\ Keys2(s) \in SUBSET (Nat \ {0})
  BY ValuePlace, KeyPlaces
<1>2. Len(s) \in Nat
  BY Lens
<1>3. /\ cut \in Seq(Chars) /\ Len(cut) = from - 1
      /\ \A i \in 1..(from - 1) : cut[i] = s[i]
  <2>1. from - 1 \in Nat /\ 1 <= from - 1 /\ from - 1 <= Len(s) /\ 1 \in Nat \ {0}
    BY <1>1, <1>2
  <2>2. /\ cut \in Seq(Chars) /\ Len(cut) = IF 1 <= from - 1 THEN from - 1 - 1 + 1 ELSE 0
        /\ \A i \in 1..(from - 1 - 1 + 1) : cut[i] = s[1 + i - 1]
    BY <2>1, Piece
  <2>3. from - 1 - 1 + 1 = from - 1 /\ \A i \in 1..(from - 1) : 1 + i - 1 = i
    BY <1>1
  <2> QED  BY <2>1, <2>2, <2>3
<1> HIDE DEF cut
<1>4. Sql(cut)
  BY <1>1, <1>2, <1>3 DEF Sql
<1>5. First(Keys2(s)) \in Keys2(cut)
  <2>1. PICK k \in Nat \ {0} : k = First(Keys2(s))
    BY <1>1
  <2>2. k \in 1..(from - 1 - 1) /\ from = k + 2 /\ s[k] = "K" /\ s[k + 1] = "L"
    BY <1>1, <2>1 DEF Keys2
  <2>3. cut[k] = s[k] /\ cut[k + 1] = s[k + 1]
    BY <1>3, <2>2
  <2> QED  BY <1>3, <2>1, <2>2, <2>3 DEF Keys2
<1>6. Keys2(cut) \subseteq Keys2(s)
  <2>1. ASSUME NEW k \in 1..(Len(cut) - 1)
        PROVE  k \in 1..(Len(s) - 1) /\ cut[k] = s[k] /\ cut[k + 1] = s[k + 1]
    <3>1. k \in 1..(from - 1 - 1) /\ k \in 1..(from - 1) /\ k + 1 \in 1..(from - 1)
      BY <1>1, <1>3, <2>1
    <3>2. k \in 1..(Len(s) - 1)
      BY <1>1, <1>2, <3>1
    <3> QED  BY <1>3, <3>1, <3>2
  <2> QED  BY <2>1 DEF Keys2
<1>7. Keys2(cut) \in SUBSET (Nat \ {0})
  BY <1>3, KeyPlaces
<1>8. First(Keys2(cut)) = First(Keys2(s))
  <2>1. First(Keys2(cut)) \in Keys2(cut) /\ \A k \in Keys2(cut) : First(Keys2(cut)) <= k
    BY <1>5, <1>7, FirstOf
  <2>2. First(Keys2(cut)) <= First(Keys2(s)) /\ First(Keys2(s)) <= First(Keys2(cut))
    BY <1>1, <1>5, <1>6, <2>1
  <2> QED  BY <1>1, <1>7, <2>1, <2>2
<1>9. ValueStart(cut) = from
  BY <1>1, <1>3, <1>4, <1>5, <1>8, ValuePlace
<1>10. Len(cut) + 1 = from
  BY <1>1, <1>3
<1> QED  BY <1>3, <1>9, <1>10 DEF cut

\* A set of numbers between two has a greatest one.
LEMMA GreatestOf ==
  ASSUME NEW n \in Nat, NEW S \in SUBSET (0..n), S # {}
  PROVE  Max(S) \in S /\ \A y \in S : y <= Max(S)
<1> DEFINE T == {n - x : x \in S}
<1>1. T \in SUBSET Nat /\ T # {}
  <2>1. \A x \in S : n - x \in Nat
    OBVIOUS
  <2>2. \A u \in T : u \in Nat
    BY <2>1
  <2>3. PICK x \in S : TRUE
    OBVIOUS
  <2>4. n - x \in T
    BY <2>3
  <2> QED  BY <2>2, <2>4
<1>2. PICK t \in T : \A u \in T : t <= u
  BY <1>1, LeastOf
<1>3. PICK x \in S : t = n - x
  BY <1>2
<1>4. \A y \in S : n - x <= n - y
  BY <1>2, <1>3
<1>5. \A y \in S : y <= x
  BY <1>3, <1>4
<1>6. \E m \in S : \A y \in S : y <= m
  BY <1>3, <1>5
<1> QED  BY <1>6 DEF Max

LEMMA RunLength ==
  ASSUME NEW s \in Seq(Chars), NEW i \in Nat \ {0}, NEW from \in 1..i
  PROVE  RunBefore(s, i, from) \in Nat
<1> DEFINE S == {j \in from..(i - 1) : s[j] # Backslash} \cup {from - 1}
<1>1. i - 1 \in Nat /\ S \in SUBSET (0..(i - 1)) /\ S # {}
  OBVIOUS
<1>2. Max(S) \in S
  BY <1>1, GreatestOf
<1>3. PICK m \in 0..(i - 1) : m = Max(S)
  BY <1>1, <1>2
<1> HIDE DEF S
<1>4. i - 1 - m \in Nat
  BY <1>1, <1>3
<1> QED  BY <1>3, <1>4 DEF RunBefore, S

\* A value that starts with its closing quote is closed.
LEMMA ClosedAtOnce ==
  ASSUME NEW s \in Seq(Chars), NEW from \in 1..Len(s), s[from] = Quote
  PROVE  from \in Closing(s, from)
<1> DEFINE S == {j \in from..(from - 1) : s[j] # Backslash} \cup {from - 1}
<1>1. S = {from - 1}
  BY Lens
<1>2. Max({from - 1}) = from - 1
  <2>1. PICK m \in Int : m = from - 1
    OBVIOUS
  <2>2. \E x \in {m} : \A y \in {m} : y <= x
    BY <2>1
  <2>3. Max({m}) \in {m}
    BY <2>2 DEF Max
  <2> QED  BY <2>1, <2>3
<1>3. RunBefore(s, from, from) = 0
  <2>1. RunBefore(s, from, from) = from - 1 - Max(S)
    BY DEF RunBefore
  <2> HIDE DEF S
  <2>2. Max(S) = from - 1
    BY <1>1, <1>2
  <2> QED  BY <2>1, <2>2
<1>4. Even(0)
  BY DEF Even
<1> QED  BY <1>3, <1>4, Lens DEF Closing

-----------------------------------------------------------------------------
(* findPlanKey finds the first key of the pending line.                     *)

LEMMA FindFresh ==
  ASSUME NEW d, d.pending \in Seq(Chars), d.keyTail = <<>>
  PROVE  FindPlanKey(d, d.pending) = First(Keys2(d.pending))
<1> DEFINE p == d.pending
<1>1. /\ IndexOfSeq(p, PlanKey) = First(Keys2(p)) /\ First(Keys2(p)) \in Nat
      /\ Len(p) \in Nat
  BY KeyPlaces, FirstOf, Lens
<1>2. FindPlanKey(d, p) =
        IF IndexOfSeq(p, PlanKey) # 0 THEN Len(p) - Len(p) + IndexOfSeq(p, PlanKey) ELSE 0
  BY DEF FindPlanKey
<1> HIDE DEF p
<1>3. FindPlanKey(d, p) = First(Keys2(p))
  BY <1>1, <1>2
<1> QED  BY <1>3 DEF p

\* A key is in the characters before, across, or in the characters after.
LEMMA KeysJoined ==
  ASSUME NEW s \in Seq(Chars), NEW c \in Seq(Chars), s # <<>>, Keys2(s) = {},
         NEW k \in Nat
  PROVE  /\ Len(s) \in Keys2(s \o c) <=> c # <<>> /\ s[Len(s)] = "K" /\ c[1] = "L"
         /\ k \in Keys2(s \o c) => k >= Len(s)
         /\ k # 0 => (Len(s) + k \in Keys2(s \o c) <=> k \in Keys2(c))
<1>1. /\ Len(s) \in Nat \ {0} /\ Len(c) \in Nat /\ Len(s \o c) = Len(s) + Len(c)
      /\ \A i \in 1..Len(s) : (s \o c)[i] = s[i]
      /\ \A i \in 1..Len(c) : (s \o c)[Len(s) + i] = c[i]
  BY Joined, Lens
<1>2. c # <<>> <=> Len(c) >= 1
  BY <1>1, Lens
<1>3. Len(s) \in Keys2(s \o c) <=> c # <<>> /\ s[Len(s)] = "K" /\ c[1] = "L"
  <2>1. Len(s) \in 1..(Len(s \o c) - 1) <=> Len(c) >= 1
    BY <1>1
  <2>2. Len(c) >= 1 => (s \o c)[Len(s)] = s[Len(s)] /\ (s \o c)[Len(s) + 1] = c[1]
    BY <1>1
  <2> QED  BY <1>2, <2>1, <2>2 DEF Keys2
<1>4. k \in Keys2(s \o c) => k >= Len(s)
  <2>1. SUFFICES ASSUME k \in Keys2(s \o c), k < Len(s) PROVE FALSE
    BY <1>1
  <2>2. k \in 1..(Len(s) - 1) /\ (s \o c)[k] = "K" /\ (s \o c)[k + 1] = "L"
    BY <1>1, <2>1 DEF Keys2
  <2>3. (s \o c)[k] = s[k] /\ (s \o c)[k + 1] = s[k + 1]
    BY <1>1, <2>2
  <2> QED  BY <2>2, <2>3 DEF Keys2
<1>5. k # 0 => (Len(s) + k \in Keys2(s \o c) <=> k \in Keys2(c))
  <2>1. SUFFICES ASSUME k # 0 PROVE Len(s) + k \in Keys2(s \o c) <=> k \in Keys2(c)
    OBVIOUS
  <2>2. Len(s) + k \in 1..(Len(s \o c) - 1) <=> k \in 1..(Len(c) - 1)
    BY <1>1, <2>1
  <2>3. k \in 1..(Len(c) - 1) =>
          (s \o c)[Len(s) + k] = c[k] /\ (s \o c)[Len(s) + k + 1] = c[k + 1]
    <3>1. SUFFICES ASSUME k \in 1..(Len(c) - 1)
                   PROVE  (s \o c)[Len(s) + k] = c[k] /\ (s \o c)[Len(s) + k + 1] = c[k + 1]
      OBVIOUS
    <3>2. k \in 1..Len(c) /\ k + 1 \in 1..Len(c) /\ Len(s) + k + 1 = Len(s) + (k + 1)
      BY <1>1, <3>1
    <3> QED  BY <1>1, <3>2
  <2> QED  BY <2>2, <2>3 DEF Keys2
<1> QED  BY <1>3, <1>4, <1>5

\* One character and the next: a key or none.
LEMMA SeamKey ==
  ASSUME NEW a \in Chars, NEW b \in Chars
  PROVE  First(Keys2(<<a>> \o <<b>>)) = IF a = "K" /\ b = "L" THEN 1 ELSE 0
<1> DEFINE two == <<a>> \o <<b>>
<1>1. two \in Seq(Chars) /\ Len(two) = 2 /\ two[1] = a /\ two[2] = b
  <2>1. /\ <<a>> \in Seq(Chars) /\ <<b>> \in Seq(Chars)
        /\ Len(<<a>>) = 1 /\ Len(<<b>>) = 1 /\ <<a>>[1] = a /\ <<b>>[1] = b
    OBVIOUS
  <2>2. /\ two \in Seq(Chars) /\ Len(two) = Len(<<a>>) + Len(<<b>>)
        /\ \A i \in 1..Len(<<a>>) : two[i] = <<a>>[i]
        /\ \A i \in 1..Len(<<b>>) : two[Len(<<a>>) + i] = <<b>>[i]
    BY <2>1, Joined
  <2> HIDE DEF two
  <2>3. 1 \in 1..Len(<<a>>) /\ 1 \in 1..Len(<<b>>) /\ Len(<<a>>) + 1 = 2
    BY <2>1
  <2>4. two[1] = <<a>>[1] /\ two[2] = <<b>>[1]
    BY <2>2, <2>3
  <2>5. Len(two) = 2
    BY <2>1, <2>2
  <2> QED  BY <2>1, <2>2, <2>4, <2>5
<1> HIDE DEF two
<1>2. Keys2(two) = IF a = "K" /\ b = "L" THEN {1} ELSE {}
  <2>1. 1..(Len(two) - 1) = {1}
    BY <1>1
  <2> QED  BY <1>1, <2>1 DEF Keys2
<1>3. First({1}) = 1 /\ First({}) = 0
  BY FirstOf
<1> QED  BY <1>2, <1>3 DEF two

LEMMA FindLater ==
  ASSUME NEW d, NEW s \in Seq(Chars), NEW c \in Seq(Chars), s # <<>>, Keys2(s) = {},
         d.pending = s \o c, d.keyTail = <<s[Len(s)]>>
  PROVE  FindPlanKey(d, c) = First(Keys2(s \o c))
<1> DEFINE p == s \o c
           seam == d.keyTail \o SubSeq(c, 1, Min({1, Len(c)}))
<1>1. /\ Len(s) \in Nat \ {0} /\ Len(c) \in Nat /\ Len(p) = Len(s) + Len(c) /\ p \in Seq(Chars)
      /\ s[Len(s)] \in Chars
  BY Joined, Lens
<1>2. Len(p) - Len(c) = Len(s)
  BY <1>1
<1>3. d.keyTail # <<>> /\ Len(d.keyTail) = 1 /\ d.keyTail \in Seq(Chars)
  BY <1>1
<1>4. IndexOfSeq(c, PlanKey) = First(Keys2(c)) /\ First(Keys2(c)) \in Nat
  BY KeyPlaces, FirstOf
<1>5. FindPlanKey(d, c) =
        IF IndexOfSeq(seam, PlanKey) # 0 THEN Len(s) - Len(d.keyTail) + IndexOfSeq(seam, PlanKey)
        ELSE IF First(Keys2(c)) # 0 THEN Len(s) + First(Keys2(c)) ELSE 0
  BY <1>2, <1>3, <1>4 DEF FindPlanKey
<1>6. Keys2(p) \in SUBSET (Nat \ {0}) /\ Keys2(c) \in SUBSET (Nat \ {0})
  BY <1>1, KeyPlaces
<1>7. CASE c = <<>>
  <2>1. Len(c) = 0
    BY <1>7, Lens
  <2>2. SubSeq(c, 1, Min({1, Len(c)})) = <<>>
    <3>1. Min({1, 0}) = 0
      BY DEF Min
    <3> QED  BY <2>1, <3>1, SubSeqEmpty
  <2>3. seam = d.keyTail
    BY <1>3, <2>2, ConcatEmptySeq
  <2>4. Keys2(seam) = {} /\ Keys2(c) = {}
    <3>1. Len(seam) = 1
      BY <1>3, <2>3
    <3> HIDE DEF seam
    <3>2. 1..(Len(seam) - 1) = {} /\ 1..(Len(c) - 1) = {}
      BY <2>1, <3>1
    <3> QED  BY <3>2 DEF Keys2
  <2>5. IndexOfSeq(seam, PlanKey) = First(Keys2(seam))
    BY <1>3, <2>3, KeyPlaces
  <2>6. FindPlanKey(d, c) = 0
    BY <1>5, <2>4, <2>5, FirstOf
  <2>7. p = s
    BY <1>7, ConcatEmptySeq
  <2> QED  BY <2>6, <2>7, FirstOf
<1>8. CASE c # <<>>
  <2>1. Len(c) >= 1 /\ c[1] \in Chars
    BY <1>1, <1>8, Lens
  <2>2. SubSeq(c, 1, Min({1, Len(c)})) = <<c[1]>>
    <3>1. Min({1, Len(c)}) = 1
      <4>1. \E x \in {1, Len(c)} : \A y \in {1, Len(c)} : x <= y
        BY <1>1, <2>1
      <4>2. Min({1, Len(c)}) \in {1, Len(c)} /\ Min({1, Len(c)}) <= 1
        BY <4>1 DEF Min
      <4> QED  BY <1>1, <2>1, <4>2
    <3>2. /\ SubSeq(c, 1, 1) \in Seq(Chars) /\ Len(SubSeq(c, 1, 1)) = 1
          /\ SubSeq(c, 1, 1)[1] = c[1]
      BY <1>1, <2>1, Piece
    <3>3. <<c[1]>> \in Seq(Chars) /\ Len(<<c[1]>>) = 1
      BY <2>1
    <3>4. \A i \in 1..1 : SubSeq(c, 1, 1)[i] = <<c[1]>>[i]
      BY <3>2
    <3>5. SubSeq(c, 1, 1) = <<c[1]>>
      BY <3>2, <3>3, <3>4, SeqEqual
    <3> QED  BY <3>1, <3>5
  <2>3. seam = <<s[Len(s)]>> \o <<c[1]>>
    BY <2>2
  <2>4. seam \in Seq(Chars)
    <3>1. <<s[Len(s)]>> \in Seq(Chars) /\ <<c[1]>> \in Seq(Chars)
      BY <1>1, <2>1
    <3> QED  BY <2>3, <3>1, Joined, ZenonT(60)
  <2>5. IndexOfSeq(seam, PlanKey) = IF s[Len(s)] = "K" /\ c[1] = "L" THEN 1 ELSE 0
    BY <1>1, <2>1, <2>3, <2>4, KeyPlaces, SeamKey
  <2> HIDE DEF seam
  <2>6. CASE s[Len(s)] = "K" /\ c[1] = "L"
    <3>1. FindPlanKey(d, c) = Len(s)
      BY <1>1, <1>3, <1>5, <2>5, <2>6
    <3>2. Len(s) \in Keys2(p) /\ \A k \in Keys2(p) : Len(s) <= k
      BY <1>1, <1>6, <1>8, <2>6, KeysJoined
    <3>3. First(Keys2(p)) \in Keys2(p) /\ First(Keys2(p)) <= Len(s)
      BY <1>6, <3>2, FirstOf
    <3> QED  BY <1>1, <1>6, <3>1, <3>2, <3>3
  <2>7. CASE ~(s[Len(s)] = "K" /\ c[1] = "L")
    <3>1. FindPlanKey(d, c) = IF First(Keys2(c)) # 0 THEN Len(s) + First(Keys2(c)) ELSE 0
      BY <1>5, <2>5, <2>7
    <3>2. ASSUME NEW k \in Keys2(p) PROVE k - Len(s) \in Keys2(c) /\ k - Len(s) \in Nat
      <4>1. k \in Nat /\ k >= Len(s) /\ k # Len(s)
        BY <1>6, <2>7, <3>2, KeysJoined
      <4>2. k - Len(s) \in Nat \ {0} /\ Len(s) + (k - Len(s)) = k
        BY <1>1, <4>1
      <4> QED  BY <3>2, <4>2, KeysJoined
    <3>3. CASE Keys2(c) = {}
      <4>1. Keys2(p) = {}
        BY <3>2, <3>3
      <4> QED  BY <1>6, <3>1, <3>3, <4>1, FirstOf
    <3>4. CASE Keys2(c) # {}
      <4>1. PICK f \in Nat \ {0} : f = First(Keys2(c)) /\ f \in Keys2(c) /\ \A y \in Keys2(c) : f <= y
        BY <1>6, <3>4, FirstOf
      <4>2. Len(s) + f \in Keys2(p)
        BY <4>1, KeysJoined
      <4>3. \A k \in Keys2(p) : Len(s) + f <= k
        BY <1>1, <1>6, <3>2, <4>1
      <4>4. First(Keys2(p)) \in Keys2(p) /\ First(Keys2(p)) <= Len(s) + f
        BY <1>6, <4>2, FirstOf
      <4>5. First(Keys2(p)) = Len(s) + f
        <5>1. PICK k \in Nat : k = First(Keys2(p))
          BY <1>6, <4>4
        <5>2. PICK n \in Nat : n = Len(s) + f
          BY <1>1, <4>1
        <5>3. k <= n /\ n <= k
          BY <4>3, <4>4, <5>1, <5>2
        <5> QED  BY <5>1, <5>2, <5>3
      <4> QED  BY <3>1, <4>1, <4>5
    <3> QED  BY <3>3, <3>4
  <2> QED  BY <2>6, <2>7
<1> QED  BY <1>7, <1>8

-----------------------------------------------------------------------------
(* The decoder between two slices.                                          *)

Decoders ==
  [pending : Seq(Chars), head : Seq(Chars), settled : BOOLEAN, isSql : BOOLEAN,
   keyTail : Seq(Chars), valueStart : Nat, skipping : BOOLEAN, carried : Nat,
   held : BOOLEAN, flushed : BOOLEAN]

\* A line not settled: too short to tell, without a key so far, or with a value
\* open that is not too long.
Reading(d) ==
  \/ /\ ~d.isSql /\ d.valueStart = 0
     /\ d.pending = <<>> \/ (Len(d.pending) = 1 /\ d.pending[1] = "P")
  \/ /\ d.isSql /\ d.valueStart = 0 /\ Sql(d.pending)
     /\ Keys2(d.pending) = {} /\ d.keyTail = <<d.pending[Len(d.pending)]>>
  \/ /\ d.isSql /\ d.valueStart # 0 /\ Sql(d.pending) /\ d.valueStart = ValueStart(d.pending)
     /\ Len(d.pending) + 1 - d.valueStart <= MaxScanned

OpenInv(d) ==
  /\ d \in Decoders
  /\ d.flushed => d.pending = <<>>
  /\ ~d.flushed =>
       /\ d.skipping => d.settled /\ ~d.held /\ ValueStart(d.pending) = Len(d.pending) + 1
       /\ d.settled /\ ~d.skipping => Decided(d.pending)
       /\ ~d.settled => ~d.skipping /\ Reading(d)

LEMMA OpenBounded ==
  ASSUME NEW d, OpenInv(d)
  PROVE  Bounded(d.pending)
<1>1. d.pending \in Seq(Chars) /\ Len(d.pending) \in Nat
  BY Lens DEF OpenInv, Decoders
<1>2. MaxScanned \in Nat \ {0}
  BY DecoderAssumption DEF DecoderAssumption
<1>3. Len(d.pending) < 2 => ValueStart(d.pending) = 0
  BY <1>1, ValuePlace DEF Sql
<1>4. CASE d.flushed
  <2>1. Len(d.pending) < 2
    BY <1>1, <1>4, Lens DEF OpenInv
  <2> QED  BY <1>1, <1>3, <2>1, BoundedWhen
<1>5. CASE ~d.flushed /\ d.skipping
  <2>1. ValueStart(d.pending) = Len(d.pending) + 1
    BY <1>5 DEF OpenInv
  <2>2. Len(d.pending) + 1 - ValueStart(d.pending) <= MaxScanned
    BY <1>1, <1>2, <2>1
  <2> QED  BY <1>1, <2>2, BoundedWhen
<1>6. CASE ~d.flushed /\ ~d.skipping /\ d.settled
  BY <1>1, <1>6, BoundedWhen DEF OpenInv
<1>7. CASE ~d.flushed /\ ~d.settled
  <2>1. Reading(d)
    BY <1>7 DEF OpenInv
  <2>2. CASE d.pending = <<>> \/ Len(d.pending) = 1
    <3>1. Len(d.pending) < 2
      BY <1>1, <2>2, Lens
    <3> QED  BY <1>1, <1>3, <3>1, BoundedWhen
  <2>3. CASE Keys2(d.pending) = {}
    BY <1>1, <2>3, ValuePlace, BoundedWhen
  <2>4. CASE d.valueStart = ValueStart(d.pending) /\ Len(d.pending) + 1 - d.valueStart <= MaxScanned
    BY <1>1, <2>4, BoundedWhen
  <2> QED  BY <2>1, <2>2, <2>3, <2>4 DEF Reading
<1> QED  BY <1>4, <1>5, <1>6, <1>7

-----------------------------------------------------------------------------
(* settlePending, once there is a value.                                    *)

LEMMA SettleOpenValue ==
  ASSUME NEW d \in Decoders, ~d.flushed, ~d.skipping, ~d.settled, d.isSql,
         NEW from, from = ValueStart(d.pending), from # 0, NEW last
  PROVE  OpenInv(SettleValue(d, from, last))
<1>1. d.pending \in Seq(Chars) /\ Len(d.pending) \in Nat
  BY Lens DEF Decoders
<1>2. from \in Nat \ {0} /\ from \in 1..(Len(d.pending) + 1) /\ Sql(d.pending)
  BY <1>1, ValuePlace
<1>3. CASE ClosingQuoteIndex(d.pending, from) # 0 \/ Disposition(d.pending, from) = "keep"
  <2> DEFINE e == [d EXCEPT !.valueStart = 0, !.settled = TRUE]
  <2>1. SettleValue(d, from, last) = e
    BY <1>3 DEF SettleValue
  <2>2. /\ e \in Decoders /\ e.pending = d.pending /\ e.settled /\ ~e.skipping /\ ~e.flushed
    BY DEF Decoders
  <2>3. Closing(d.pending, from) # {} \/ Small(d.pending, from)
    BY <1>1, <1>2, <1>3, ClosingPlaces, DispositionOf
  <2>4. Decided(e.pending)
    BY <2>2, <2>3 DEF Decided
  <2> HIDE DEF e
  <2> QED  BY <2>1, <2>2, <2>4 DEF OpenInv
<1>4. CASE ClosingQuoteIndex(d.pending, from) = 0 /\ Disposition(d.pending, from) = "wait"
  <2> DEFINE e == [d EXCEPT !.valueStart = from]
  <2>1. SettleValue(d, from, last) = e
    BY <1>4 DEF SettleValue
  <2>2. /\ e \in Decoders /\ e.pending = d.pending /\ ~e.settled /\ ~e.skipping /\ ~e.flushed
        /\ e.isSql /\ e.valueStart = from
    BY <1>2 DEF Decoders
  <2>3. Len(d.pending) + 1 - from <= MaxScanned
    BY <1>1, <1>2, <1>4, DispositionOf
  <2> HIDE DEF e
  <2>4. Reading(e)
    BY <1>2, <2>2, <2>3 DEF Reading
  <2> QED  BY <2>1, <2>2, <2>4 DEF OpenInv
<1>5. CASE ClosingQuoteIndex(d.pending, from) = 0 /\ Disposition(d.pending, from) = "skip"
  <2> DEFINE cut == SubSeq(d.pending, 1, from - 1)
             run == IF last = Backslash THEN RunBefore(d.pending, Len(d.pending) + 1, from) ELSE 0
             e == [d EXCEPT !.settled = TRUE, !.valueStart = 0, !.skipping = TRUE, !.held = FALSE,
                            !.carried = run, !.pending = cut, !.head = cut]
  <2>1. SettleValue(d, from, last) = e
    BY <1>5 DEF SettleValue, SkipValue
  <2>2. cut \in Seq(Chars) /\ Len(cut) + 1 = from /\ ValueStart(cut) = from
    BY <1>1, ValueOfCut
  <2>3. run \in Nat
    <3>1. Len(d.pending) + 1 \in Nat \ {0}
      BY <1>1
    <3>2. RunBefore(d.pending, Len(d.pending) + 1, from) \in Nat
      BY <1>1, <1>2, <3>1, RunLength
    <3> QED  BY <3>2
  <2> HIDE DEF cut, run
  <2>4. /\ e \in Decoders /\ e.pending = cut /\ e.settled /\ e.skipping /\ ~e.flushed /\ ~e.held
    BY <2>2, <2>3 DEF Decoders
  <2> HIDE DEF e
  <2>5. ValueStart(e.pending) = Len(e.pending) + 1
    BY <2>2, <2>4
  <2> QED  BY <2>1, <2>4, <2>5 DEF OpenInv, cut, run, e
<1> QED  BY <1>1, <1>2, <1>3, <1>4, <1>5, DispositionOf

LEMMA LastOf ==
  ASSUME NEW a \in Seq(Chars), a # <<>>
  PROVE  Suffix(a, 1) = <<a[Len(a)]>>
<1>1. PICK n \in Nat \ {0} : n = Len(a)
  BY Lens
<1>2. Max({1, n - 1 + 1}) = n
  <2>1. n - 1 + 1 = n
    BY <1>1
  <2>2. \E x \in {1, n} : \A y \in {1, n} : y <= x
    BY <1>1
  <2>3. Max({1, n}) \in {1, n} /\ n <= Max({1, n}) /\ 1 <= Max({1, n})
    BY <2>2 DEF Max
  <2>4. Max({1, n}) = n
    BY <1>1, <2>3
  <2> QED  BY <2>1, <2>4
<1> DEFINE one == SubSeq(a, n, n)
<1>3. one \in Seq(Chars) /\ Len(one) = 1 /\ one[1] = a[n]
  <2>1. /\ one \in Seq(Chars) /\ Len(one) = IF n <= n THEN n - n + 1 ELSE 0
        /\ \A i \in 1..(n - n + 1) : one[i] = a[n + i - 1]
    BY <1>1, Piece
  <2>2. n - n + 1 = 1 /\ n + 1 - 1 = n
    BY <1>1
  <2> QED  BY <1>1, <2>1, <2>2
<1>4. <<a[n]>> \in Seq(Chars) /\ Len(<<a[n]>>) = 1
  BY <1>1, Lens
<1> HIDE DEF one
<1>5. \A i \in 1..1 : one[i] = <<a[n]>>[i]
  BY <1>3
<1>6. one = <<a[n]>>
  BY <1>3, <1>4, <1>5, SeqEqual
<1> QED  BY <1>1, <1>2, <1>6 DEF Suffix, one

LEMMA LastIn ==
  ASSUME NEW s \in Seq(Chars), Sql(s)
  PROVE  s[Len(s)] \in Chars
<1>1. PICK n \in Nat : n = Len(s)
  BY Lens
<1>2. n \in 1..n
  BY <1>1 DEF Sql
<1> QED  BY <1>1, <1>2, Lens

LEMMA SettleOfSql ==
  ASSUME NEW d \in Decoders, ~d.flushed, ~d.skipping, ~d.settled, d.isSql, Sql(d.pending),
         NEW a \in Seq(Chars), NEW last,
         d.valueStart = 0 => /\ FindPlanKey(d, a) = First(Keys2(d.pending))
                             /\ IF a = <<>> THEN d.keyTail = <<d.pending[Len(d.pending)]>>
                                ELSE a[Len(a)] = d.pending[Len(d.pending)],
         d.valueStart # 0 => d.valueStart = ValueStart(d.pending)
  PROVE  OpenInv(SettleSql(d, a, last))
<1>1. d.pending \in Seq(Chars) /\ Len(d.pending) \in Nat /\ d.valueStart \in Nat
  BY Lens DEF Decoders
<1>2. Keys2(d.pending) \in SUBSET (Nat \ {0}) /\ Len(PlanKey) = 2
  BY <1>1, KeyPlaces
<1>3. CASE d.valueStart # 0
  <2>1. SettleSql(d, a, last) = SettleValue(d, d.valueStart, last)
    BY <1>3 DEF SettleSql
  <2> QED  BY <1>3, <2>1, SettleOpenValue
<1>4. CASE d.valueStart = 0 /\ Keys2(d.pending) # {}
  <2>1. First(Keys2(d.pending)) # 0 /\ First(Keys2(d.pending)) \in Nat
    BY <1>2, <1>4, FirstOf
  <2>2. ValueStart(d.pending) = FindPlanKey(d, a) + Len(PlanKey) /\ ValueStart(d.pending) # 0
    BY <1>1, <1>2, <1>4, ValuePlace
  <2>3. SettleSql(d, a, last) = SettleValue(d, ValueStart(d.pending), last)
    BY <1>4, <2>1, <2>2 DEF SettleSql
  <2> QED  BY <2>2, <2>3, SettleOpenValue
<1>5. CASE d.valueStart = 0 /\ Keys2(d.pending) = {}
  <2> DEFINE tail == IF a = <<>> THEN d.keyTail ELSE Suffix(a, 1)
             e == [d EXCEPT !.keyTail = tail]
  <2>1. First(Keys2(d.pending)) = 0
    BY <1>2, <1>5, FirstOf
  <2>2. SettleSql(d, a, last) = e
    BY <1>5, <2>1 DEF SettleSql
  <2>3. tail = <<d.pending[Len(d.pending)]>>
    BY <1>5, LastOf
  <2> HIDE DEF tail
  <2>4. tail \in Seq(Chars)
    <3>1. d.pending[Len(d.pending)] \in Chars
      BY <1>1, LastIn
    <3> QED  BY <2>3, <3>1
  <2>5. /\ e \in Decoders /\ e.pending = d.pending /\ e.keyTail = tail /\ e.valueStart = 0
        /\ e.isSql /\ ~e.settled /\ ~e.skipping /\ ~e.flushed
    BY <1>5, <2>4 DEF Decoders
  <2> HIDE DEF e
  <2>6. Reading(e)
    BY <1>5, <2>3, <2>5 DEF Reading
  <2> QED  BY <2>2, <2>5, <2>6 DEF OpenInv
<1> QED  BY <1>3, <1>4, <1>5

\* The decoder once characters `a` were appended to its pending line: what is
\* known of the line is known of what it was before them.
Unsettled(e, a) ==
  /\ e \in Decoders /\ a \in Seq(Chars) /\ ~e.flushed /\ ~e.skipping
  /\ e.settled => Decided(e.pending)
  /\ ~e.settled /\ ~e.isSql => e.valueStart = 0
  /\ ~e.settled /\ e.isSql =>
       \E s \in Seq(Chars) :
         /\ Sql(s) /\ e.pending = s \o a
         /\ e.valueStart = 0 => Keys2(s) = {} /\ e.keyTail = <<s[Len(s)]>>
         /\ e.valueStart # 0 => e.valueStart = ValueStart(s)

LEMMA SettleAppended ==
  ASSUME NEW e, NEW a, Unsettled(e, a), NEW last
  PROVE  OpenInv(SettlePending(e, a, last))
<1>1. /\ e \in Decoders /\ a \in Seq(Chars) /\ ~e.flushed /\ ~e.skipping
      /\ e.pending \in Seq(Chars) /\ Len(e.pending) \in Nat
      /\ Len(e.pending) = 0 <=> e.pending = <<>>
  <2>1. e \in Decoders /\ a \in Seq(Chars) /\ ~e.flushed /\ ~e.skipping
    BY DEF Unsettled
  <2>2. e.pending \in Seq(Chars)
    BY <2>1 DEF Decoders
  <2> QED  BY <2>1, <2>2, Lens
<1>2. /\ IsPrefix(SqlPrefix, e.pending) <=> Sql(e.pending)
      /\ Len(e.pending) < 2 => (IsPrefix(e.pending, SqlPrefix) <=> Len(e.pending) = 0 \/ e.pending[1] = "P")
      /\ Len(SqlPrefix) = 2
  BY <1>1, PrefixOfSql
<1>3. CASE e.settled
  <2>1. SettlePending(e, a, last) = e
    BY <1>3 DEF SettlePending
  <2> QED  BY <1>1, <1>3, <2>1 DEF OpenInv, Unsettled
<1>4. CASE ~e.settled /\ e.pending = <<>>
  <2>1. SettlePending(e, a, last) = e
    BY <1>4 DEF SettlePending
  <2>2. ~e.isSql
    <3>1. SUFFICES ASSUME e.isSql PROVE FALSE
      OBVIOUS
    <3>2. PICK s \in Seq(Chars) : Sql(s) /\ e.pending = s \o a
      BY <1>4, <3>1 DEF Unsettled
    <3>3. Len(s \o a) = Len(s) + Len(a) /\ Len(s) \in Nat /\ Len(a) \in Nat
      BY <1>1, Joined, Lens
    <3> QED  BY <1>1, <1>4, <3>2, <3>3 DEF Sql
  <2>3. Reading(e)
    BY <1>4, <2>2 DEF Reading, Unsettled
  <2> QED  BY <1>1, <1>4, <2>1, <2>3 DEF OpenInv
<1>5. CASE ~e.settled /\ e.pending # <<>> /\ e.isSql
  <2>1. SettlePending(e, a, last) = SettleSql(e, a, last)
    BY <1>5 DEF SettlePending
  <2>2. PICK s \in Seq(Chars) :
          /\ Sql(s) /\ e.pending = s \o a
          /\ e.valueStart = 0 => Keys2(s) = {} /\ e.keyTail = <<s[Len(s)]>>
          /\ e.valueStart # 0 => e.valueStart = ValueStart(s)
    BY <1>5 DEF Unsettled
  <2>3. Sql(e.pending)
    BY <1>1, <2>2, SqlStays
  <2>4. e.valueStart # 0 => e.valueStart = ValueStart(e.pending)
    BY <1>1, <2>2, ValueStays
  <2>5. s # <<>> /\ Len(s) \in Nat
    BY <2>2, Lens DEF Sql
  <2>6. e.valueStart = 0 => FindPlanKey(e, a) = First(Keys2(e.pending))
    BY <1>1, <2>2, <2>5, FindLater, SMTT(40)
  <2>7. e.valueStart = 0 =>
          IF a = <<>> THEN e.keyTail = <<e.pending[Len(e.pending)]>>
          ELSE a[Len(a)] = e.pending[Len(e.pending)]
    <3>1. CASE a = <<>>
      <4>1. e.pending = s
        BY <2>2, <3>1, ConcatEmptySeq
      <4> QED  BY <2>2, <3>1, <4>1
    <3>2. CASE a # <<>>
      <4>1. Len(a) \in 1..Len(a) /\ Len(e.pending) = Len(s) + Len(a)
        BY <1>1, <2>2, <3>2, Joined, Lens
      <4>2. (s \o a)[Len(s) + Len(a)] = a[Len(a)]
        BY <1>1, <4>1, Joined
      <4> QED  BY <2>2, <3>2, <4>1, <4>2
    <3> QED  BY <3>1, <3>2
  <2> QED  BY <1>1, <1>5, <2>1, <2>3, <2>4, <2>6, <2>7, SettleOfSql
<1>6. CASE ~e.settled /\ e.pending # <<>> /\ ~e.isSql /\ ~Sql(e.pending)
  <2>1. e.valueStart = 0
    BY <1>6 DEF Unsettled
  <2>2. Len(e.pending) < 2 \/ Len(e.pending) >= 2
    BY <1>1
  <2>3. CASE Len(e.pending) < 2 /\ e.pending[1] = "P"
    <3> DEFINE f == [e EXCEPT !.settled = FALSE]
    <3>1. SettlePending(e, a, last) = f
      BY <1>2, <1>6, <2>3 DEF SettlePending
    <3>2. /\ f \in Decoders /\ f.pending = e.pending /\ ~f.settled /\ ~f.skipping /\ ~f.flushed
          /\ ~f.isSql /\ f.valueStart = 0
      BY <1>1, <1>6, <2>1 DEF Decoders
    <3> HIDE DEF f
    <3>3. Len(f.pending) = 1
      <4>1. PICK n \in Nat : n = Len(e.pending)
        BY <1>1
      <4>2. n < 2 /\ n # 0
        BY <1>1, <1>6, <2>3, <4>1
      <4>3. n = 1
        BY <4>2
      <4> QED  BY <3>2, <4>1, <4>3
    <3>4. Reading(f)
      BY <2>3, <3>2, <3>3 DEF Reading
    <3> QED  BY <3>1, <3>2, <3>4 DEF OpenInv
  <2>4. CASE ~(Len(e.pending) < 2 /\ e.pending[1] = "P")
    <3> DEFINE f == [e EXCEPT !.settled = TRUE]
    <3>1. SettlePending(e, a, last) = f
      BY <1>1, <1>2, <1>6, <2>2, <2>4 DEF SettlePending
    <3>2. /\ f \in Decoders /\ f.pending = e.pending /\ f.settled /\ ~f.skipping /\ ~f.flushed
      BY <1>1 DEF Decoders
    <3> HIDE DEF f
    <3>3. NotSql(e.pending)
      <4>1. CASE Len(e.pending) >= 2
        BY <1>1, <1>6, <4>1 DEF Sql, NotSql
      <4>2. CASE Len(e.pending) < 2
        <5>1. e.pending[1] # "P" /\ Len(e.pending) # 0
          BY <1>1, <1>6, <2>4, <4>2
        <5>2. Len(e.pending) >= 1
          BY <1>1, <5>1
        <5> QED  BY <5>1, <5>2 DEF NotSql
      <4> QED  BY <2>2, <4>1, <4>2
    <3> QED  BY <3>1, <3>2, <3>3 DEF OpenInv, Decided
  <2> QED  BY <2>3, <2>4
<1>7. CASE ~e.settled /\ e.pending # <<>> /\ ~e.isSql /\ Sql(e.pending)
  <2> DEFINE f == [e EXCEPT !.isSql = TRUE, !.keyTail = <<>>]
  <2>1. SettlePending(e, a, last) = SettleSql(f, e.pending, last)
    <3>1. ~(Len(e.pending) < 2)
      BY <1>1, <1>7 DEF Sql
    <3> QED  BY <1>2, <1>7, <3>1 DEF SettlePending
  <2>2. <<>> \in Seq(Chars)
    BY EmptySeq
  <2>3. /\ f \in Decoders /\ f.pending = e.pending /\ ~f.settled /\ ~f.skipping /\ ~f.flushed
        /\ f.isSql /\ f.valueStart = 0 /\ f.keyTail = <<>>
    BY <1>1, <1>7, <2>2 DEF Decoders, Unsettled
  <2> HIDE DEF f
  <2>4. FindPlanKey(f, e.pending) = First(Keys2(f.pending))
    BY <1>1, <2>3, FindFresh
  <2> QED  BY <1>1, <1>7, <2>1, <2>3, <2>4, SettleOfSql
<1> QED  BY <1>3, <1>4, <1>5, <1>6, <1>7

-----------------------------------------------------------------------------
(* Sequences, one more element at a time.                                   *)

\* What holds of the empty sequence and of one more element holds of all.
LEMMA EverySequence ==
  ASSUME NEW G \in SUBSET Seq(Chars), <<>> \in G,
         \A s \in G, x \in Chars : s \o <<x>> \in G
  PROVE  \A s \in Seq(Chars) : s \in G
<1> DEFINE Bad == {Len(s) : s \in Seq(Chars) \ G}
<1>1. SUFFICES ASSUME NEW s \in Seq(Chars), s \notin G PROVE FALSE
  OBVIOUS
<1>2. Bad \in SUBSET Nat /\ Bad # {}
  <2>1. Len(s) \in Bad
    BY <1>1
  <2>2. \A n \in Bad : n \in Nat
    BY Lens
  <2> QED  BY <2>1, <2>2
<1>3. PICK m \in Bad : \A n \in Bad : m <= n
  BY <1>2, LeastOf
<1>4. PICK t \in Seq(Chars) : t \notin G /\ m = Len(t)
  BY <1>3
<1>5. PICK u \in Seq(Chars), x \in Chars : t = Append(u, x)
  BY <1>4, SequenceEmptyOrAppend
<1>6. t = u \o <<x>> /\ Len(t) = Len(u) + 1 /\ Len(u) \in Nat
  BY <1>5, AppendIsConcat, AppendProperties, Lens
<1>7. u \notin G
  BY <1>4, <1>6
<1>8. Len(u) \in Bad
  BY <1>7
<1> HIDE DEF Bad
<1>9. m <= Len(u)
  BY <1>3, <1>8
<1> QED  BY <1>4, <1>6, <1>9

LEMMA OneLong ==
  ASSUME NEW S, NEW x \in S
  PROVE  <<x>> \in Seq(S) /\ Len(<<x>>) = 1 /\ <<x>>[1] = x /\ <<x>> # <<>>
OBVIOUS

LEMMA AddedLast ==
  ASSUME NEW S, NEW a \in Seq(S), NEW b \in Seq(S), NEW x \in S
  PROVE  (a \o b) \o <<x>> = a \o (b \o <<x>>)
<1>1. PICK one \in Seq(S) : one = <<x>>
  BY OneLong
<1>2. (a \o b) \o one = a \o (b \o one)
  BY ConcatAssociative
<1> QED  BY <1>1, <1>2

LEMMA AddedLine ==
  ASSUME NEW a \in Seq(Seq(Chars)), NEW b \in Seq(Seq(Chars)), NEW x \in Seq(Chars)
  PROVE  (a \o b) \o <<x>> = a \o (b \o <<x>>)
<1>1. PICK S : S = Seq(Chars)
  OBVIOUS
<1>2. a \in Seq(S) /\ b \in Seq(S) /\ x \in S
  BY <1>1
<1> QED  BY <1>2, AddedLast, SMTT(40)

LEMMA Longer ==
  ASSUME NEW s \in Seq(Chars), NEW x \in Chars
  PROVE  /\ s \o <<x>> \in Seq(Chars) /\ s \o <<x>> # <<>>
         /\ Len(s \o <<x>>) = Len(s) + 1
         /\ \A i \in 1..Len(s) : (s \o <<x>>)[i] = s[i]
         /\ (s \o <<x>>)[Len(s) + 1] = x
<1>1. s \o <<x>> = Append(s, x)
  BY AppendIsConcat
<1> QED  BY <1>1, AppendProperties

\* A sequence from its first element on, and up to its last one.
LEMMA FirstTaken ==
  ASSUME NEW s \in Seq(Chars), s # <<>>
  PROVE  \E t \in Seq(Chars) : s = <<s[1]>> \o t
<1>1. Len(s) \in Nat \ {0}
  BY Lens
<1>2. SubSeq(s, 1, Len(s)) = <<s[1]>> \o SubSeq(s, 2, Len(s))
  <2>1. 1 \in 1..Len(s) /\ Len(s) \in 1..Len(s) /\ 1 + 1 = 2
    BY <1>1
  <2> QED  BY <2>1, SubSeqRecursiveFirst
<1>3. SubSeq(s, 2, Len(s)) \in Seq(Chars)
  BY <1>1, Piece
<1> QED  BY <1>2, <1>3, SubSeqFull

\* Characters without the end of a line.
Plain(s) == \A i \in 1..Len(s) : s[i] # Newline

LEMMA PlainOf ==
  ASSUME NEW s \in Seq(Chars)
  PROVE  /\ Plain(<<>>)
         /\ Newline \in ToSet(s) <=> ~Plain(s)
         /\ \A x \in Chars : Plain(s \o <<x>>) <=> Plain(s) /\ x # Newline
<1>1. Plain(<<>>)
  BY DEF Plain
<1>2. DOMAIN s = 1..Len(s)
  BY LenProperties
<1>3. Newline \in ToSet(s) <=> ~Plain(s)
  BY <1>2 DEF ToSet, Plain
<1>4. ASSUME NEW x \in Chars PROVE Plain(s \o <<x>>) <=> Plain(s) /\ x # Newline
  <2>1. /\ Len(s) \in Nat /\ Len(s \o <<x>>) = Len(s) + 1
        /\ \A i \in 1..Len(s) : (s \o <<x>>)[i] = s[i]
        /\ (s \o <<x>>)[Len(s) + 1] = x
    BY Longer, Lens
  <2>2. 1..(Len(s) + 1) = (1..Len(s)) \cup {Len(s) + 1}
    BY <2>1
  <2> QED  BY <2>1, <2>2 DEF Plain
<1> QED  BY <1>1, <1>3, <1>4

LEMMA PlainJoined ==
  ASSUME NEW s \in Seq(Chars), NEW t \in Seq(Chars)
  PROVE  Plain(s \o t) <=> Plain(s) /\ Plain(t)
<1>1. /\ Len(s) \in Nat /\ Len(t) \in Nat /\ Len(s \o t) = Len(s) + Len(t)
      /\ \A i \in 1..Len(s) : (s \o t)[i] = s[i]
      /\ \A i \in 1..Len(t) : (s \o t)[Len(s) + i] = t[i]
  BY Joined, Lens
<1>2. ASSUME Plain(s \o t) PROVE Plain(s) /\ Plain(t)
  <2>1. \A i \in 1..Len(s) : i \in 1..Len(s \o t)
    BY <1>1
  <2>2. \A i \in 1..Len(t) : Len(s) + i \in 1..Len(s \o t)
    BY <1>1
  <2> QED  BY <1>1, <1>2, <2>1, <2>2 DEF Plain
<1>3. ASSUME Plain(s), Plain(t), NEW i \in 1..Len(s \o t) PROVE (s \o t)[i] # Newline
  <2>1. CASE i <= Len(s)
    BY <1>1, <1>3, <2>1 DEF Plain
  <2>2. CASE i > Len(s)
    <3>1. i - Len(s) \in 1..Len(t) /\ Len(s) + (i - Len(s)) = i
      BY <1>1, <2>2
    <3> QED  BY <1>1, <1>3, <3>1 DEF Plain
  <2> QED  BY <1>1, <2>1, <2>2
<1> QED  BY <1>2, <1>3 DEF Plain

-----------------------------------------------------------------------------
(* Cutting lines.                                                           *)

Cuts == [ended : Seq(Seq(Chars)), rest : Seq(Chars)]
IsCutting(f, line, chars, n) ==
  f = [i \in 0..n |-> IF i = 0 THEN [ended |-> <<>>, rest |-> line] ELSE CutAt(f[i - 1], chars[i])]

LEMMA CuttingExists ==
  ASSUME NEW line, NEW chars, NEW k \in Nat
  PROVE  \E f : IsCutting(f, line, chars, k)
<1> DEFINE Bad == {n \in Nat : ~\E f : IsCutting(f, line, chars, n)}
<1>1. SUFFICES ASSUME Bad # {} PROVE FALSE
  OBVIOUS
<1> HIDE DEF Bad
<1>2. PICK m \in Bad : \A n \in Bad : m <= n
  BY <1>1, LeastOf DEF Bad
<1>3. m \in Nat /\ ~\E f : IsCutting(f, line, chars, m)
  BY DEF Bad
<1>4. CASE m = 0
  <2>1. IsCutting([n \in 0..0 |-> [ended |-> <<>>, rest |-> line]], line, chars, 0)
    BY DEF IsCutting
  <2> QED  BY <1>3, <1>4, <2>1
<1>5. CASE m # 0
  <2>1. m - 1 \in Nat /\ ~(m <= m - 1)
    BY <1>3, <1>5
  <2>2. PICK f : IsCutting(f, line, chars, m - 1)
    BY <1>2, <2>1 DEF Bad
  <2> DEFINE step(n) == IF n = 0 THEN [ended |-> <<>>, rest |-> line]
                        ELSE CutAt(f[n - 1], chars[n])
             new == [n \in 0..m |-> step(n)]
  <2>3. f = [n \in 0..(m - 1) |-> step(n)]
    BY <2>2 DEF IsCutting
  <2> HIDE DEF step
  <2>4. \A n \in 0..(m - 1) : f[n] = step(n) /\ new[n] = step(n)
    BY <1>3, <2>3
  <2>5. \A n \in 0..m : step(n) = IF n = 0 THEN [ended |-> <<>>, rest |-> line]
                                  ELSE CutAt(new[n - 1], chars[n])
    <3>1. ASSUME NEW n \in 0..m, n # 0 PROVE f[n - 1] = new[n - 1]
      <4>1. n - 1 \in 0..(m - 1)
        BY <1>3, <3>1
      <4> QED  BY <2>4, <4>1
    <3> QED  BY <3>1 DEF step
  <2>6. IsCutting(new, line, chars, m)
    <3>1. new = [n \in 0..m |-> step(n)]
      OBVIOUS
    <3> HIDE DEF new
    <3> QED  BY <2>5, <3>1 DEF IsCutting
  <2> QED  BY <1>3, <2>6
<1> QED  BY <1>4, <1>5

LEMMA CuttingSteps ==
  ASSUME NEW line, NEW chars, Len(chars) \in Nat
  PROVE  \E f : /\ f[0] = [ended |-> <<>>, rest |-> line]
                /\ \A i \in 1..Len(chars) : f[i] = CutAt(f[i - 1], chars[i])
                /\ Cut(line, chars) = f[Len(chars)]
<1> DEFINE f == CHOOSE f : IsCutting(f, line, chars, Len(chars))
           step(n) == IF n = 0 THEN [ended |-> <<>>, rest |-> line] ELSE CutAt(f[n - 1], chars[n])
<1>1. IsCutting(f, line, chars, Len(chars))
  BY CuttingExists
<1>2. Cut(line, chars) = f[Len(chars)]
  BY DEF Cut, IsCutting
<1> HIDE DEF f
<1>3. f = [n \in 0..Len(chars) |-> step(n)]
  BY <1>1 DEF IsCutting
<1> HIDE DEF step
<1>4. \A n \in 0..Len(chars) : f[n] = step(n)
  BY <1>3
<1>5. f[0] = [ended |-> <<>>, rest |-> line]
  BY <1>4 DEF step
<1>6. ASSUME NEW i \in 1..Len(chars) PROVE f[i] = CutAt(f[i - 1], chars[i])
  <2>1. i \in 0..Len(chars) /\ i # 0
    OBVIOUS
  <2> QED  BY <1>4, <2>1 DEF step
<1> QED  BY <1>2, <1>5, <1>6

\* Cut character by character.
LEMMA CutNone ==
  ASSUME NEW line
  PROVE  /\ Cut(line, <<>>) = [ended |-> <<>>, rest |-> line]
         /\ Cut(line, <<>>).ended = <<>> /\ Cut(line, <<>>).rest = line
<1>1. PICK none \in Seq(Chars) : none = <<>> /\ Len(none) = 0
  BY EmptySeq
<1>2. PICK f : /\ f[0] = [ended |-> <<>>, rest |-> line]
               /\ Cut(line, none) = f[Len(none)]
  BY <1>1, CuttingSteps
<1> QED  BY <1>1, <1>2

LEMMA CutMore ==
  ASSUME NEW line, NEW s \in Seq(Chars), NEW x \in Chars
  PROVE  Cut(line, s \o <<x>>) = CutAt(Cut(line, s), x)
<1>1. PICK t \in Seq(Chars) : t = s \o <<x>>
  BY Longer
<1>2. /\ Len(s) \in Nat /\ Len(t) = Len(s) + 1 /\ \A i \in 1..Len(s) : t[i] = s[i]
      /\ t[Len(s) + 1] = x
  BY <1>1, Longer, Lens
<1>3. PICK f : /\ f[0] = [ended |-> <<>>, rest |-> line]
               /\ \A i \in 1..Len(s) : f[i] = CutAt(f[i - 1], s[i])
               /\ Cut(line, s) = f[Len(s)]
  BY <1>2, CuttingSteps, SMTT(40)
<1>4. Len(t) \in Nat
  BY <1>2
<1>5. PICK g : /\ g[0] = [ended |-> <<>>, rest |-> line]
               /\ \A i \in 1..Len(t) : g[i] = CutAt(g[i - 1], t[i])
               /\ Cut(line, t) = g[Len(t)]
  BY <1>4, CuttingSteps
<1> DEFINE Bad == {i \in 0..Len(s) : f[i] # g[i]}
<1>6. Bad = {}
  <2>1. SUFFICES ASSUME Bad # {} PROVE FALSE
    OBVIOUS
  <2>2. Bad \in SUBSET Nat
    BY <1>2
  <2>3. PICK m \in Bad : \A n \in Bad : m <= n
    BY <2>1, <2>2, LeastOf
  <2>4. m \in 0..Len(s) /\ f[m] # g[m] /\ m # 0
    BY <1>3, <1>5
  <2>5. m \in 1..Len(s) /\ m - 1 \in 0..Len(s) /\ ~(m <= m - 1) /\ m \in 1..Len(t)
    BY <1>2, <2>4
  <2>6. f[m - 1] = g[m - 1]
    BY <2>3, <2>5
  <2>7. f[m] = CutAt(f[m - 1], s[m]) /\ g[m] = CutAt(g[m - 1], t[m]) /\ t[m] = s[m]
    BY <1>2, <1>3, <1>5, <2>5
  <2> QED  BY <2>4, <2>6, <2>7
<1>7. g[Len(s)] = Cut(line, s)
  <2>1. Len(s) \in 0..Len(s)
    BY <1>2
  <2> QED  BY <1>3, <1>6, <2>1
<1>8. g[Len(t)] = CutAt(g[Len(s)], x)
  <2>1. Len(t) \in 1..Len(t) /\ Len(t) - 1 = Len(s)
    BY <1>2
  <2> QED  BY <1>2, <1>5, <2>1
<1> QED  BY <1>1, <1>5, <1>7, <1>8

LEMMA CutAtType ==
  ASSUME NEW cut \in Cuts, NEW x \in Chars
  PROVE  /\ CutAt(cut, x) \in Cuts
         /\ x # Newline => /\ CutAt(cut, x).ended = cut.ended
                           /\ CutAt(cut, x).rest = cut.rest \o <<x>>
         /\ x = Newline => /\ CutAt(cut, x).ended = IF cut.rest = <<>> THEN cut.ended
                                                   ELSE cut.ended \o <<cut.rest>>
                           /\ CutAt(cut, x).rest = <<>>
<1>1. cut.ended \in Seq(Seq(Chars)) /\ cut.rest \in Seq(Chars)
  BY DEF Cuts
<1>2. CASE x # Newline
  <2> DEFINE rest == cut.rest \o <<x>>
  <2>1. rest \in Seq(Chars)
    BY <1>1, Longer
  <2>2. CutAt(cut, x) = [cut EXCEPT !.rest = rest]
    BY <1>2 DEF CutAt
  <2> HIDE DEF rest
  <2> QED  BY <1>2, <2>1, <2>2 DEF Cuts, rest
<1>3. CASE x = Newline
  <2> DEFINE ended == IF cut.rest = <<>> THEN cut.ended ELSE cut.ended \o <<cut.rest>>
  <2>1. ended \in Seq(Seq(Chars))
    <3>1. <<cut.rest>> \in Seq(Seq(Chars))
      BY <1>1
    <3> QED  BY <1>1, <3>1, ConcatProperties
  <2>2. <<>> \in Seq(Chars)
    BY EmptySeq
  <2>3. CutAt(cut, x) = [ended |-> ended, rest |-> <<>>]
    BY <1>3 DEF CutAt
  <2> HIDE DEF ended
  <2> QED  BY <1>3, <2>1, <2>2, <2>3 DEF Cuts, ended
<1> QED  BY <1>2, <1>3

LEMMA CutType ==
  ASSUME NEW line \in Seq(Chars), NEW chars \in Seq(Chars)
  PROVE  Cut(line, chars) \in Cuts
<1> DEFINE G == {s \in Seq(Chars) : Cut(line, s) \in Cuts}
<1>1. <<>> \in G
  <2>1. Cut(line, <<>>) = [ended |-> <<>>, rest |-> line]
    BY CutNone
  <2>2. [ended |-> <<>>, rest |-> line] \in Cuts
    BY EmptySeq DEF Cuts
  <2> QED  BY <2>1, <2>2, EmptySeq
<1>2. ASSUME NEW s \in G, NEW x \in Chars PROVE s \o <<x>> \in G
  <2>1. s \in Seq(Chars) /\ s \o <<x>> \in Seq(Chars)
    BY <1>2, Longer
  <2>2. PICK cut \in Cuts : cut = Cut(line, s)
    BY <1>2
  <2>3. CutAt(cut, x) \in Cuts
    BY CutAtType
  <2>4. Cut(line, s \o <<x>>) = CutAt(cut, x)
    BY <2>1, <2>2, CutMore
  <2> QED  BY <2>1, <2>3, <2>4
<1> HIDE DEF G
<1>3. G \in SUBSET Seq(Chars)
  BY DEF G
<1>4. chars \in G
  BY <1>1, <1>2, <1>3, EverySequence
<1> QED  BY <1>4 DEF G

\* Cut in two steps.
LEMMA CutJoined ==
  ASSUME NEW line \in Seq(Chars), NEW a \in Seq(Chars), NEW b \in Seq(Chars)
  PROVE  /\ Cut(line, a \o b).ended = Cut(line, a).ended \o Cut(Cut(line, a).rest, b).ended
         /\ Cut(line, a \o b).rest = Cut(Cut(line, a).rest, b).rest
<1>1. PICK c \in Cuts : c = Cut(line, a)
  BY CutType
<1>2. c.ended \in Seq(Seq(Chars)) /\ c.rest \in Seq(Chars)
  BY DEF Cuts
<1> DEFINE Two(s) == /\ Cut(line, a \o s).ended = c.ended \o Cut(c.rest, s).ended
                     /\ Cut(line, a \o s).rest = Cut(c.rest, s).rest
           G == {s \in Seq(Chars) : Two(s)}
<1>3. <<>> \in G
  <2>1. <<>> \in Seq(Chars) /\ a \o <<>> = a /\ c.ended \o <<>> = c.ended
    BY <1>2, EmptySeq, ConcatEmptySeq
  <2>2. Cut(c.rest, <<>>).ended = <<>> /\ Cut(c.rest, <<>>).rest = c.rest
    BY CutNone
  <2>3. Two(<<>>)
    <3>1. Cut(line, a \o <<>>) = c
      BY <1>1, <2>1
    <3> QED  BY <2>1, <2>2, <3>1
  <2> QED  BY <2>1, <2>3
<1>4. ASSUME NEW s \in G, NEW x \in Chars PROVE s \o <<x>> \in G
  <2>1. s \in Seq(Chars) /\ Two(s) /\ s \o <<x>> \in Seq(Chars) /\ a \o s \in Seq(Chars)
    BY <1>4, Longer, Joined
  <2>2. PICK d \in Cuts : d = Cut(line, a \o s)
    BY <2>1, CutType
  <2>3. PICK e \in Cuts : e = Cut(c.rest, s)
    BY <1>2, <2>1, CutType
  <2>4. /\ d.ended = c.ended \o e.ended /\ d.rest = e.rest
        /\ e.ended \in Seq(Seq(Chars)) /\ e.rest \in Seq(Chars)
    BY <2>1, <2>2, <2>3 DEF Cuts
  <2>5. a \o (s \o <<x>>) = (a \o s) \o <<x>>
    <3>1. <<x>> \in Seq(Chars)
      BY <1>4
    <3> QED  BY <2>1, <3>1, ConcatAssociative
  <2>6. Cut(line, a \o (s \o <<x>>)) = CutAt(d, x) /\ Cut(c.rest, s \o <<x>>) = CutAt(e, x)
    <3>1. Cut(c.rest, s \o <<x>>) = CutAt(e, x)
      BY <2>1, <2>3, CutMore
    <3>2. PICK both \in Seq(Chars) : both = a \o s
      BY <2>1
    <3>3. Cut(line, both \o <<x>>) = CutAt(Cut(line, both), x)
      BY CutMore
    <3> QED  BY <2>2, <2>5, <3>1, <3>2, <3>3
  <2>7. CASE x # Newline
    <3>1. /\ CutAt(d, x).ended = d.ended /\ CutAt(d, x).rest = d.rest \o <<x>>
          /\ CutAt(e, x).ended = e.ended /\ CutAt(e, x).rest = e.rest \o <<x>>
      BY <2>7, CutAtType
    <3>2. Two(s \o <<x>>)
      BY <2>4, <2>6, <3>1
    <3> QED  BY <2>1, <3>2
  <2>8. CASE x = Newline
    <3>1. /\ CutAt(d, x).ended = IF d.rest = <<>> THEN d.ended ELSE d.ended \o <<d.rest>>
          /\ CutAt(e, x).ended = IF e.rest = <<>> THEN e.ended ELSE e.ended \o <<e.rest>>
          /\ CutAt(d, x).rest = <<>> /\ CutAt(e, x).rest = <<>>
      BY <2>8, CutAtType
    <3>2. (c.ended \o e.ended) \o <<e.rest>> = c.ended \o (e.ended \o <<e.rest>>)
      <4>1. PICK ce \in Seq(Seq(Chars)), ee \in Seq(Seq(Chars)), r \in Seq(Chars) :
              ce = c.ended /\ ee = e.ended /\ r = e.rest
        BY <1>2, <2>4
      <4>2. (ce \o ee) \o <<r>> = ce \o (ee \o <<r>>)
        BY AddedLine
      <4> QED  BY <4>1, <4>2
    <3>3. Two(s \o <<x>>)
      BY <2>4, <2>6, <3>1, <3>2
    <3> QED  BY <2>1, <3>3
  <2> QED  BY <2>7, <2>8
<1> HIDE DEF G
<1>5. G \in SUBSET Seq(Chars)
  BY DEF G
<1>6. b \in G
  BY <1>3, <1>4, <1>5, EverySequence
<1> QED  BY <1>1, <1>6 DEF G

\* Nothing ends in characters of one line.
LEMMA CutPlain ==
  ASSUME NEW line \in Seq(Chars), NEW chars \in Seq(Chars), Plain(chars)
  PROVE  Cut(line, chars).ended = <<>> /\ Cut(line, chars).rest = line \o chars
<1> DEFINE Same(s) == Cut(line, s).ended = <<>> /\ Cut(line, s).rest = line \o s
           G == {s \in Seq(Chars) : Plain(s) => Same(s)}
<1>1. <<>> \in G
  <2>1. <<>> \in Seq(Chars) /\ line \o <<>> = line
    BY EmptySeq, ConcatEmptySeq
  <2>2. Same(<<>>)
    BY <2>1, CutNone
  <2> QED  BY <2>1, <2>2
<1>2. ASSUME NEW s \in G, NEW x \in Chars PROVE s \o <<x>> \in G
  <2>1. s \in Seq(Chars) /\ s \o <<x>> \in Seq(Chars) /\ (Plain(s) => Same(s))
    BY <1>2, Longer
  <2>2. ASSUME Plain(s \o <<x>>) PROVE Same(s \o <<x>>)
    <3>1. Plain(s) /\ x # Newline
      BY <2>1, <2>2, PlainOf
    <3>2. PICK cut \in Cuts : cut = Cut(line, s)
      BY <2>1, CutType
    <3>5. Cut(line, s \o <<x>>) = CutAt(cut, x)
      BY <2>1, <3>2, CutMore
    <3>6. CutAt(cut, x).ended = cut.ended /\ CutAt(cut, x).rest = cut.rest \o <<x>>
      BY <3>1, CutAtType
    <3>3. Cut(line, s \o <<x>>).ended = <<>> /\ Cut(line, s \o <<x>>).rest = (line \o s) \o <<x>>
      BY <2>1, <3>1, <3>2, <3>5, <3>6
    <3>4. (line \o s) \o <<x>> = line \o (s \o <<x>>)
      <4>1. <<x>> \in Seq(Chars)
        BY <1>2
      <4> QED  BY <2>1, <4>1, ConcatAssociative
    <3> QED  BY <3>3, <3>4
  <2> QED  BY <2>1, <2>2
<1> HIDE DEF G
<1>3. G \in SUBSET Seq(Chars)
  BY DEF G
<1>4. chars \in G
  BY <1>1, <1>2, <1>3, EverySequence
<1> QED  BY <1>4 DEF G

-----------------------------------------------------------------------------
(* The pending line with the characters of a slice.                         *)

LEMMA EmptyLine ==
  ASSUME NEW d, OpenInv(d), ~d.flushed, d.pending = <<>>
  PROVE  ~d.settled /\ ~d.skipping /\ ~d.isSql /\ d.valueStart = 0
<1>1. d.pending \in Seq(Chars) /\ Len(d.pending) = 0
  <2>1. d.pending \in Seq(Chars)
    BY DEF OpenInv, Decoders
  <2> QED  BY <2>1, Lens
<1>2. ValueStart(d.pending) = 0 /\ ~Sql(d.pending) /\ ~NotSql(d.pending)
  <2>1. PICK s \in Seq(Chars) : s = d.pending /\ Len(s) = 0
    BY <1>1
  <2>2. ~Sql(s) /\ ~NotSql(s)
    BY <2>1 DEF Sql, NotSql
  <2> QED  BY <2>1, <2>2, ValuePlace
<1>3. ~d.skipping
  BY <1>1, <1>2 DEF OpenInv
<1>4. ~d.settled
  BY <1>2, <1>3 DEF OpenInv, Decided
<1> QED  BY <1>2, <1>3, <1>4 DEF OpenInv, Reading

LEMMA LineContinued ==
  ASSUME NEW d, OpenInv(d), ~d.flushed, NEW c \in Seq(Chars), NEW h \in BOOLEAN,
         Plain(c),
         d.skipping => Len(c) >= 1 /\ c[1] \in {Quote, Newline}
  PROVE  Unsettled(NewPending([d EXCEPT !.skipping = FALSE, !.held = h], c), c)
<1> DEFINE b == [d EXCEPT !.skipping = FALSE, !.held = h]
<1>1. d \in Decoders /\ d.pending \in Seq(Chars)
  BY DEF OpenInv, Decoders
<1>2. /\ b \in Decoders /\ b.pending = d.pending /\ b.settled = d.settled /\ b.isSql = d.isSql
      /\ b.valueStart = d.valueStart /\ b.keyTail = d.keyTail /\ ~b.skipping /\ ~b.flushed
  BY <1>1 DEF Decoders
<1> HIDE DEF b
<1>a. Newline \notin ToSet(c)
  BY PlainOf
<1>b. Cut(b.pending, c).rest = d.pending \o c
  BY <1>1, <1>2, CutPlain
<1>3. CASE d.pending = <<>>
  <2> DEFINE e == [b EXCEPT !.pending = c, !.head = c, !.isSql = FALSE]
  <2>a. Cut(b.pending, c).rest = c
    <3>1. <<>> \o c = c
      BY ConcatEmptySeq
    <3> QED  BY <1>3, <1>b, <3>1
  <2>1. NewPending(b, c) = e
    BY <1>2, <1>3, <1>a, <2>a DEF NewPending
  <2>2. ~d.settled /\ d.valueStart = 0
    BY <1>3, EmptyLine
  <2>3. /\ e \in Decoders /\ ~e.settled /\ ~e.isSql /\ e.valueStart = 0
        /\ ~e.skipping /\ ~e.flushed
    BY <1>2, <2>2 DEF Decoders
  <2> HIDE DEF e
  <2>4. Unsettled(e, c)
    BY <2>3 DEF Unsettled
  <2> QED  BY <2>1, <2>4 DEF b
<1>4. CASE d.pending # <<>>
  <2> DEFINE p == d.pending
             e == [b EXCEPT !.pending = p \o c]
  <2>1. NewPending(b, c) = e
    BY <1>2, <1>4, <1>a, <1>b DEF NewPending
  <2>2. p \o c \in Seq(Chars)
    BY <1>1, Joined
  <2>3. /\ e \in Decoders /\ e.pending = p \o c /\ e.settled = d.settled /\ e.isSql = d.isSql
        /\ e.valueStart = d.valueStart /\ e.keyTail = d.keyTail /\ ~e.skipping /\ ~e.flushed
    BY <1>2, <2>2 DEF Decoders
  <2>4. d.settled => Decided(p \o c)
    <3>1. CASE d.settled /\ ~d.skipping
      BY <1>1, <3>1, DecidedStays DEF OpenInv
    <3>2. CASE d.skipping
      <4>1. 1 \in 1..Len(c) /\ c[1] = Quote
        <5>1. Len(c) \in Nat /\ Len(c) >= 1
          BY <3>2, Lens
        <5>2. 1 \in 1..Len(c)
          BY <5>1
        <5> QED  BY <3>2, <5>2 DEF Plain
      <4>2. PICK f \in Nat \ {0} : f = Len(p) + 1
        BY <1>1, Lens
      <4>3. ValueStart(p) = f
        BY <3>2, <4>2 DEF OpenInv
      <4>4. ValueStart(p \o c) = f
        BY <1>1, <4>2, <4>3, ValueStays
      <4>5. f \in 1..Len(p \o c) /\ (p \o c)[f] = Quote
        BY <1>1, <4>1, <4>2, Joined, Lens
      <4>6. Closing(p \o c, f) # {}
        BY <2>2, <4>5, ClosedAtOnce
      <4> QED  BY <4>2, <4>4, <4>6 DEF Decided
    <3> QED  BY <3>1, <3>2
  <2>5. ~d.settled /\ ~d.isSql => d.valueStart = 0
    BY DEF OpenInv, Reading
  <2>6. ~d.settled /\ d.isSql =>
          /\ Sql(p)
          /\ d.valueStart = 0 => Keys2(p) = {} /\ d.keyTail = <<p[Len(p)]>>
          /\ d.valueStart # 0 => d.valueStart = ValueStart(p)
    BY DEF OpenInv, Reading
  <2>7. p \in Seq(Chars)
    BY <1>1
  <2> HIDE DEF e, p
  <2>8. Unsettled(e, c)
    BY <2>3, <2>4, <2>5, <2>6, <2>7 DEF Unsettled
  <2> QED  BY <2>1, <2>8 DEF b
<1> QED  BY <1>3, <1>4

LEMMA LineStarted ==
  ASSUME NEW d, OpenInv(d), ~d.flushed, NEW c \in Seq(Chars), NEW h \in BOOLEAN,
         ~Plain(c), NEW a,
         a = NewPending(d, c).pending
  PROVE  Unsettled(NewPending([d EXCEPT !.skipping = FALSE, !.held = h], c), a)
<1> DEFINE rest == Cut(d.pending, c).rest
           b == [d EXCEPT !.skipping = FALSE, !.held = h]
           Next(x) == [x EXCEPT !.pending = rest, !.head = rest, !.settled = FALSE,
                                !.isSql = FALSE, !.valueStart = 0]
<1>a. d \in Decoders /\ d.pending \in Seq(Chars)
  BY DEF OpenInv, Decoders
<1>b. b.pending = d.pending /\ Newline \in ToSet(c)
  BY <1>a, PlainOf DEF Decoders
<1>1. NewPending(b, c) = Next(b) /\ NewPending(d, c) = Next(d)
  BY <1>b DEF NewPending
<1>2. rest \in Seq(Chars)
  BY <1>a, CutType DEF Cuts
<1> HIDE DEF rest
<1>3. d \in Decoders
  BY DEF OpenInv
<1>4. b \in Decoders /\ ~b.skipping /\ ~b.flushed
  BY <1>3 DEF Decoders
<1> HIDE DEF b
<1>5. Next(d).pending = rest
  BY <1>2, <1>3 DEF Decoders
<1> DEFINE e == Next(b)
<1>6. /\ e \in Decoders /\ ~e.settled /\ ~e.isSql /\ e.valueStart = 0
      /\ ~e.skipping /\ ~e.flushed
  BY <1>2, <1>4 DEF Decoders
<1>7. a = rest
  BY <1>1, <1>5
<1> HIDE DEF e
<1>8. Unsettled(e, a)
  BY <1>2, <1>6, <1>7 DEF Unsettled
<1> QED  BY <1>1, <1>8 DEF b, e

LEMMA LineExtended ==
  ASSUME NEW d, OpenInv(d), ~d.flushed, NEW c \in Seq(Chars), NEW h \in BOOLEAN,
         d.skipping => Len(c) >= 1 /\ c[1] \in {Quote, Newline}
  PROVE  Unsettled(NewPending([d EXCEPT !.skipping = FALSE, !.held = h], c), Appended(d, c))
<1>1. Newline \in ToSet(c) <=> ~Plain(c)
  BY PlainOf
<1>2. CASE Plain(c)
  <2>1. Appended(d, c) = c
    BY <1>1, <1>2 DEF Appended
  <2> QED  BY <1>2, <2>1, LineContinued
<1>3. CASE ~Plain(c)
  <2>1. Appended(d, c) = NewPending(d, c).pending
    BY <1>1, <1>3 DEF Appended
  <2> QED  BY <1>3, <2>1, LineStarted
<1> QED  BY <1>2, <1>3

-----------------------------------------------------------------------------
(* The characters of a slice.                                               *)

Outputs == [out : Seq(Chars), held : BOOLEAN]
IsDecoding(f, waits, bytes, n) ==
  f = [i \in 0..n |-> IF i = 0 THEN [out |-> <<>>, held |-> waits] ELSE DecodeByte(f[i - 1], bytes[i])]

LEMMA DecodingExists ==
  ASSUME NEW waits, NEW bytes, NEW k \in Nat
  PROVE  \E f : IsDecoding(f, waits, bytes, k)
<1> DEFINE Bad == {n \in Nat : ~\E f : IsDecoding(f, waits, bytes, n)}
<1>1. SUFFICES ASSUME Bad # {} PROVE FALSE
  OBVIOUS
<1> HIDE DEF Bad
<1>2. PICK m \in Bad : \A n \in Bad : m <= n
  BY <1>1, LeastOf DEF Bad
<1>3. m \in Nat /\ ~\E f : IsDecoding(f, waits, bytes, m)
  BY DEF Bad
<1>4. CASE m = 0
  <2>1. IsDecoding([n \in 0..0 |-> [out |-> <<>>, held |-> waits]], waits, bytes, 0)
    BY DEF IsDecoding
  <2> QED  BY <1>3, <1>4, <2>1
<1>5. CASE m # 0
  <2>1. m - 1 \in Nat /\ ~(m <= m - 1)
    BY <1>3, <1>5
  <2>2. PICK f : IsDecoding(f, waits, bytes, m - 1)
    BY <1>2, <2>1 DEF Bad
  <2> DEFINE step(n) == IF n = 0 THEN [out |-> <<>>, held |-> waits]
                        ELSE DecodeByte(f[n - 1], bytes[n])
             new == [n \in 0..m |-> step(n)]
  <2>3. f = [n \in 0..(m - 1) |-> step(n)]
    BY <2>2 DEF IsDecoding
  <2> HIDE DEF step
  <2>4. \A n \in 0..(m - 1) : f[n] = step(n) /\ new[n] = step(n)
    BY <1>3, <2>3
  <2>5. \A n \in 0..m : step(n) = IF n = 0 THEN [out |-> <<>>, held |-> waits]
                                  ELSE DecodeByte(new[n - 1], bytes[n])
    <3>1. ASSUME NEW n \in 0..m, n # 0 PROVE f[n - 1] = new[n - 1]
      <4>1. n - 1 \in 0..(m - 1)
        BY <1>3, <3>1
      <4> QED  BY <2>4, <4>1
    <3> QED  BY <3>1 DEF step
  <2>6. IsDecoding(new, waits, bytes, m)
    <3>1. new = [n \in 0..m |-> step(n)]
      OBVIOUS
    <3> HIDE DEF new
    <3> QED  BY <2>5, <3>1 DEF IsDecoding
  <2> QED  BY <1>3, <2>6
<1> QED  BY <1>4, <1>5

LEMMA DecodingSteps ==
  ASSUME NEW waits, NEW bytes, Len(bytes) \in Nat
  PROVE  \E f : /\ f[0] = [out |-> <<>>, held |-> waits]
                /\ \A i \in 1..Len(bytes) : f[i] = DecodeByte(f[i - 1], bytes[i])
                /\ DecodeBytes(waits, bytes) = f[Len(bytes)]
<1> DEFINE f == CHOOSE f : IsDecoding(f, waits, bytes, Len(bytes))
           step(n) == IF n = 0 THEN [out |-> <<>>, held |-> waits] ELSE DecodeByte(f[n - 1], bytes[n])
<1>1. IsDecoding(f, waits, bytes, Len(bytes))
  BY DecodingExists
<1>2. DecodeBytes(waits, bytes) = f[Len(bytes)]
  BY DEF DecodeBytes, IsDecoding
<1> HIDE DEF f
<1>3. f = [n \in 0..Len(bytes) |-> step(n)]
  BY <1>1 DEF IsDecoding
<1> HIDE DEF step
<1>4. \A n \in 0..Len(bytes) : f[n] = step(n)
  BY <1>3
<1>5. f[0] = [out |-> <<>>, held |-> waits]
  BY <1>4 DEF step
<1>6. ASSUME NEW i \in 1..Len(bytes) PROVE f[i] = DecodeByte(f[i - 1], bytes[i])
  <2>1. i \in 0..Len(bytes) /\ i # 0
    OBVIOUS
  <2> QED  BY <1>4, <2>1 DEF step
<1> QED  BY <1>2, <1>5, <1>6

LEMMA ByteDecoded ==
  ASSUME NEW d \in Outputs, NEW b \in Chars
  PROVE  /\ DecodeByte(d, b) \in Outputs
         /\ Len(d.out) >= 1 => /\ Len(DecodeByte(d, b).out) >= 1
                               /\ DecodeByte(d, b).out[1] = d.out[1]
         /\ ~d.held /\ b \in {Quote, Newline} => DecodeByte(d, b).out = Append(d.out, b)
<1>1. d.out \in Seq(Chars) /\ d.held \in BOOLEAN
  BY DEF Outputs
<1>2. "?" \in Chars /\ "m" \in Chars
  BY DEF Chars
<1>3. ASSUME NEW x \in Chars
      PROVE  /\ Append(d.out, x) \in Seq(Chars)
             /\ Len(d.out) >= 1 => Len(Append(d.out, x)) >= 1 /\ Append(d.out, x)[1] = d.out[1]
  BY <1>1, Lens
<1>4. /\ d.out \o <<"?", b>> \in Seq(Chars)
      /\ Len(d.out) >= 1 => Len(d.out \o <<"?", b>>) >= 1 /\ (d.out \o <<"?", b>>)[1] = d.out[1]
  <2>1. <<"?", b>> \in Seq(Chars)
    BY <1>2, TwoLong
  <2> QED  BY <1>1, <2>1, Joined, Lens
<1>5. PICK out \in Seq(Chars), waits \in BOOLEAN :
        /\ DecodeByte(d, b) = [out |-> out, held |-> waits]
        /\ Len(d.out) >= 1 => Len(out) >= 1 /\ out[1] = d.out[1]
  <2>1. CASE b = "m1"
    BY <1>1, <1>2, <1>3, <2>1 DEF DecodeByte
  <2>2. CASE b = "m2"
    BY <1>1, <1>2, <1>3, <2>2 DEF DecodeByte
  <2>3. CASE b # "m1" /\ b # "m2"
    BY <1>1, <1>3, <1>4, <2>3 DEF DecodeByte
  <2> QED  BY <2>1, <2>2, <2>3
<1>6. ~d.held /\ b \in {Quote, Newline} => DecodeByte(d, b).out = Append(d.out, b)
  BY DEF DecodeByte, Quote, Newline
<1> QED  BY <1>5, <1>6 DEF Outputs

\* What a decoder that holds nothing gives of a slice that starts with a
\* one-byte character starts with it.
LEMMA BytesDecoded ==
  ASSUME NEW waits \in BOOLEAN, NEW bytes \in Seq(Chars)
  PROVE  LET d == DecodeBytes(waits, bytes)
         IN  /\ d \in Outputs
             /\ ~waits /\ Len(bytes) >= 1 /\ bytes[1] \in {Quote, Newline} =>
                  Len(d.out) >= 1 /\ d.out[1] = bytes[1]
<1>1. Len(bytes) \in Nat
  BY Lens
<1>2. PICK f : /\ f[0] = [out |-> <<>>, held |-> waits]
               /\ \A i \in 1..Len(bytes) : f[i] = DecodeByte(f[i - 1], bytes[i])
               /\ DecodeBytes(waits, bytes) = f[Len(bytes)]
  BY <1>1, DecodingSteps
<1> DEFINE Kept == ~waits /\ Len(bytes) >= 1 /\ bytes[1] \in {Quote, Newline}
           Good(i) == f[i] \in Outputs
                        /\ (Kept /\ i >= 1 => Len(f[i].out) >= 1 /\ f[i].out[1] = bytes[1])
           Bad == {i \in 0..Len(bytes) : ~Good(i)}
<1>3. Good(0)
  <2>1. <<>> \in Seq(Chars)
    BY EmptySeq
  <2> QED  BY <1>2, <2>1 DEF Outputs
<1>4. ASSUME NEW i \in 1..Len(bytes), Good(i - 1) PROVE Good(i)
  <2>1. f[i] = DecodeByte(f[i - 1], bytes[i]) /\ f[i - 1] \in Outputs /\ bytes[i] \in Chars
    BY <1>2, <1>4, Lens
  <2>2. f[i] \in Outputs
    BY <2>1, ByteDecoded
  <2>3. ASSUME Kept, i = 1 PROVE Len(f[i].out) >= 1 /\ f[i].out[1] = bytes[1]
    <3>1. f[0].out = <<>> /\ ~f[0].held /\ f[0] = f[i - 1]
      BY <1>2, <2>3
    <3>2. f[i].out = Append(f[0].out, bytes[1])
      BY <2>1, <2>3, <3>1, ByteDecoded
    <3>3. bytes[1] \in Chars
      BY <2>1, <2>3
    <3>4. Len(Append(<<>>, bytes[1])) = 1 /\ Append(<<>>, bytes[1])[1] = bytes[1]
      BY <3>3
    <3> QED  BY <3>1, <3>2, <3>4
  <2>4. ASSUME Kept, i # 1 PROVE Len(f[i].out) >= 1 /\ f[i].out[1] = bytes[1]
    <3>1. i - 1 >= 1
      BY <2>4
    <3>2. Len(f[i - 1].out) >= 1 /\ f[i - 1].out[1] = bytes[1]
      BY <1>4, <2>4, <3>1
    <3> QED  BY <2>1, <3>2, ByteDecoded, SMTT(40)
  <2> QED  BY <2>2, <2>3, <2>4
<1> HIDE DEF Good
<1>5. Bad = {}
  <2>1. SUFFICES ASSUME Bad # {} PROVE FALSE
    OBVIOUS
  <2>2. Bad \in SUBSET Nat
    BY <1>1
  <2>3. PICK m \in Bad : \A n \in Bad : m <= n
    BY <2>1, <2>2, LeastOf
  <2>4. m \in 0..Len(bytes) /\ ~Good(m)
    OBVIOUS
  <2>5. m \in 1..Len(bytes) /\ m - 1 \in 0..Len(bytes) /\ ~(m <= m - 1)
    BY <1>1, <1>3, <2>4
  <2>6. Good(m - 1)
    BY <2>3, <2>5
  <2> QED  BY <1>4, <2>4, <2>5, <2>6
<1>6. Good(Len(bytes))
  BY <1>1, <1>5
<1> QED  BY <1>1, <1>2, <1>6 DEF Good

-----------------------------------------------------------------------------
(* decodeSlice.                                                             *)

DecoderInv == text \in Seq(Chars) /\ at \in Nat /\ OpenInv(dec)

LEMMA DecoderStarts == DecoderInit => DecoderInv
<1>1. SUFFICES ASSUME DecoderInit PROVE DecoderInv
  OBVIOUS
<1>2. text \in Seq(Chars)
  <2>1. text \in Seq(STRING) /\ STRING \subseteq Chars
    BY <1>1, DecoderAssumption DEF DecoderInit, DecoderAssumption, Chars
  <2> QED  BY <2>1, SeqMonotonic
<1>3. Fresh \in Decoders
  <2>1. <<>> \in Seq(Chars)
    BY EmptySeq
  <2> QED  BY <2>1 DEF Fresh, Decoders
<1>4. OpenInv(Fresh)
  BY <1>3 DEF OpenInv, Reading, Fresh
<1> QED  BY <1>1, <1>2, <1>4 DEF DecoderInit, DecoderInv

\* What is left of a slice is a part of it, and where a value was skipped it
\* starts with the quote or the end of line that ends it.
LEMMA SliceResumed ==
  ASSUME NEW bytes \in Seq(Chars), ~(dec.skipping /\ StillSkipping(bytes))
  PROVE  /\ Resumed(bytes) \in Seq(Chars)
         /\ dec.skipping => Len(Resumed(bytes)) >= 1 /\ Resumed(bytes)[1] \in {Quote, Newline}
<1>1. CASE ~dec.skipping
  BY <1>1 DEF Resumed
<1>2. CASE dec.skipping
  <2> DEFINE lineEnd == IndexOf(bytes, Newline, 1)
             limit == IF lineEnd = 0 THEN Len(bytes) + 1 ELSE lineEnd
             close == ClosingQuoteAt(bytes, limit, dec.carried)
             start == IF close # 0 THEN close ELSE lineEnd
  <2>1. Len(bytes) \in Nat
    BY Lens
  <2>2. lineEnd \in Nat /\ (lineEnd # 0 => lineEnd \in 1..Len(bytes) /\ bytes[lineEnd] = Newline)
    <3> DEFINE S == {i \in 1..Len(bytes) : bytes[i] = Newline}
    <3>1. S \in SUBSET (Nat \ {0}) /\ lineEnd = First(S)
      BY DEF IndexOf
    <3>2. First(S) \in Nat /\ (First(S) # 0 => First(S) \in S)
      BY <3>1, FirstOf
    <3> QED  BY <3>1, <3>2
  <2> HIDE DEF lineEnd
  <2>3. limit \in Nat /\ limit <= Len(bytes) + 1
    BY <2>1, <2>2
  <2>4. close \in Nat /\ (close # 0 => close \in 1..Len(bytes) /\ bytes[close] = Quote)
    <3> DEFINE S == {i \in 1..(limit - 1) :
                       bytes[i] = Quote /\ LET run == RunBefore(bytes, i, 1)
                                           IN  Even(IF run = i - 1 THEN run + dec.carried ELSE run)}
    <3>1. S \in SUBSET (Nat \ {0}) /\ close = First(S)
      BY DEF ClosingQuoteAt
    <3>2. First(S) \in Nat /\ (First(S) # 0 => First(S) \in S)
      BY <3>1, FirstOf
    <3>3. ASSUME First(S) # 0 PROVE First(S) \in 1..Len(bytes) /\ bytes[First(S)] = Quote
      <4>1. First(S) \in 1..(limit - 1) /\ bytes[First(S)] = Quote
        BY <3>2, <3>3
      <4> HIDE DEF S, limit
      <4> QED  BY <2>1, <2>3, <4>1
    <3> QED  BY <3>1, <3>2, <3>3
  <2>5. lineEnd # 0 \/ close # 0
    <3>1. ~StillSkipping(bytes)
      BY <1>2
    <3> QED  BY <3>1 DEF StillSkipping, lineEnd
  <2> HIDE DEF close, limit
  <2>6. start \in 1..Len(bytes) /\ bytes[start] \in {Quote, Newline}
    BY <2>2, <2>4, <2>5
  <2>7. Resumed(bytes) = From(bytes, start)
    BY <1>2 DEF Resumed, lineEnd, close, limit
  <2> HIDE DEF start
  <2>8. /\ From(bytes, start) \in Seq(Chars) /\ Len(From(bytes, start)) = Len(bytes) + 1 - start
        /\ \A i \in 1..(Len(bytes) + 1 - start) : From(bytes, start)[i] = bytes[start + i - 1]
    BY <2>1, <2>6, ValueOf
  <2>9. Len(bytes) + 1 - start >= 1 /\ 1 \in 1..(Len(bytes) + 1 - start) /\ start + 1 - 1 = start
    BY <2>1, <2>6
  <2>10. From(bytes, start)[1] = bytes[start + 1 - 1]
    BY <2>8, <2>9
  <2> QED  BY <2>6, <2>7, <2>8, <2>9, <2>10
<1> QED  BY <1>1, <1>2

LEMMA OpenDecode ==
  ASSUME OpenInv(dec), ~dec.flushed, NEW bytes \in Seq(Chars),
         ~(dec.skipping /\ StillSkipping(bytes)), DecodeText(bytes)
  PROVE  OpenInv(dec')
<1>1. PICK d : d = dec
  OBVIOUS
<1>2. PICK given : given = DecodeBytes(d.held, Resumed(bytes))
  OBVIOUS
<1>3. OpenInv(d) /\ ~d.flushed /\ d.held \in BOOLEAN /\ (d.skipping => ~d.held)
  <2>1. OpenInv(d) /\ ~d.flushed
    BY <1>1
  <2> QED  BY <2>1 DEF OpenInv, Decoders
<1>4. /\ Resumed(bytes) \in Seq(Chars)
      /\ d.skipping => Len(Resumed(bytes)) >= 1 /\ Resumed(bytes)[1] \in {Quote, Newline}
  BY <1>1, SliceResumed
<1>5. PICK rest \in Seq(Chars) : rest = Resumed(bytes)
  BY <1>4
<1>6. given = DecodeBytes(d.held, rest)
  BY <1>2, <1>5
<1>7. /\ given \in Outputs
      /\ ~d.held /\ Len(rest) >= 1 /\ rest[1] \in {Quote, Newline} =>
           Len(given.out) >= 1 /\ given.out[1] = rest[1]
  BY <1>3, <1>6, BytesDecoded
<1>8. given.out \in Seq(Chars) /\ given.held \in BOOLEAN
  BY <1>7 DEF Outputs
<1>9. d.skipping => Len(given.out) >= 1 /\ given.out[1] \in {Quote, Newline}
  BY <1>3, <1>4, <1>5, <1>7
<1> DEFINE before == [d EXCEPT !.skipping = FALSE, !.held = given.held]
<1>10. Unsettled(NewPending(before, given.out), Appended(d, given.out))
  BY <1>3, <1>8, <1>9, LineExtended
<1>11. dec' = SettlePending(NewPending(before, given.out), Appended(d, given.out), bytes[Len(bytes)])
  BY <1>1, <1>2 DEF DecodeText
<1> HIDE DEF before
<1>12. OpenInv(SettlePending(NewPending(before, given.out), Appended(d, given.out), bytes[Len(bytes)]))
  BY <1>10, SettleAppended
<1> QED  BY <1>11, <1>12

LEMMA OpenSkip ==
  ASSUME OpenInv(dec), ~dec.flushed, NEW bytes \in Seq(Chars), dec.skipping, SkipSlice(bytes)
  PROVE  OpenInv(dec')
<1> DEFINE run == RunBefore(bytes, Len(bytes) + 1, 1)
<1>1. PICK d : d = dec
  OBVIOUS
<1>2. OpenInv(d) /\ ~d.flushed /\ d.skipping /\ d \in Decoders /\ d.carried \in Nat
  <2>1. OpenInv(d) /\ ~d.flushed /\ d.skipping
    BY <1>1
  <2> QED  BY <2>1 DEF OpenInv, Decoders
<1>3. run \in Nat
  <2>1. Len(bytes) + 1 \in Nat \ {0} /\ 1 \in 1..(Len(bytes) + 1)
    BY Lens
  <2> QED  BY <2>1, RunLength
<1> HIDE DEF run
<1> DEFINE carried == IF run = Len(bytes) THEN run + d.carried ELSE run
           e == [d EXCEPT !.carried = carried]
<1>4. dec' = e
  BY <1>1 DEF SkipSlice, run
<1>5. carried \in Nat
  BY <1>2, <1>3
<1> HIDE DEF carried
<1>6. /\ e \in Decoders /\ e.pending = d.pending /\ e.settled = d.settled
      /\ e.skipping /\ ~e.flushed /\ e.held = d.held
  BY <1>2, <1>5 DEF Decoders
<1> HIDE DEF e
<1>7. OpenInv(e)
  BY <1>2, <1>6 DEF OpenInv
<1> QED  BY <1>4, <1>7

LEMMA OpenSlice ==
  ASSUME DecoderInv, NEW n \in 1..MaxSlice, DecodeSlice(n)
  PROVE  DecoderInv'
<1>1. text \in Seq(Chars) /\ at \in Nat /\ n \in Nat \ {0} /\ at + n <= Len(text) /\ ~dec.flushed
  BY DecoderAssumption DEF DecoderInv, DecodeSlice, DecoderAssumption
<1>2. PICK bytes : bytes = SubSeq(text, at + 1, at + n)
  OBVIOUS
<1>3. bytes \in Seq(Chars)
  <2>1. at + 1 \in Nat \ {0} /\ at + n \in Nat
    BY <1>1
  <2> QED  BY <1>1, <1>2, <2>1, Piece
<1>4. IF dec.skipping /\ StillSkipping(bytes) THEN SkipSlice(bytes) ELSE DecodeText(bytes)
  BY <1>2 DEF DecodeSlice
<1>5. OpenInv(dec)
  BY DEF DecoderInv
<1>6. OpenInv(dec')
  BY <1>1, <1>3, <1>4, <1>5, OpenDecode, OpenSkip
<1>7. text' = text /\ at' = at + n
  BY DEF DecodeSlice
<1> QED  BY <1>1, <1>6, <1>7 DEF DecoderInv

LEMMA OpenFlush ==
  ASSUME DecoderInv, Flush
  PROVE  DecoderInv'
<1>1. PICK d : d = dec
  OBVIOUS
<1>2. d \in Decoders
  BY <1>1 DEF DecoderInv, OpenInv
<1> DEFINE e == [d EXCEPT !.pending = <<>>, !.held = FALSE, !.flushed = TRUE]
<1>3. dec' = e
  BY <1>1 DEF Flush
<1>4. <<>> \in Seq(Chars)
  BY EmptySeq
<1>5. e \in Decoders /\ e.pending = <<>> /\ e.flushed
  BY <1>2, <1>4 DEF Decoders
<1> HIDE DEF e
<1>6. OpenInv(e)
  BY <1>5 DEF OpenInv
<1> QED  BY <1>3, <1>6 DEF DecoderInv, Flush

LEMMA OpenStep ==
  ASSUME DecoderInv, [DecoderNext]_decoderVars
  PROVE  DecoderInv'
<1>1. CASE UNCHANGED decoderVars
  BY <1>1 DEF DecoderInv, decoderVars
<1> QED  BY <1>1, OpenSlice, OpenFlush DEF DecoderNext

\* No slice ends with a plan description open that is longer than what may be
\* read of one, unless it is a small command's: of any log, cut into slices
\* anywhere, in a character, an escape, the prefix or the key (settlePending,
\* findPlanKey).
THEOREM OpenValuesBounded == DecoderSpec => []OpenValueBounded
<1>1. DecoderInit => DecoderInv
  BY DecoderStarts
<1>2. DecoderInv /\ [DecoderNext]_decoderVars => DecoderInv'
  BY OpenStep
<1>3. DecoderInv => OpenValueBounded
  <2>1. SUFFICES ASSUME DecoderInv PROVE OpenValueBounded
    OBVIOUS
  <2>2. Bounded(dec.pending)
    BY <2>1, OpenBounded DEF DecoderInv
  <2> QED  BY <2>2 DEF Bounded, OpenValueBounded
<1> QED  BY <1>1, <1>2, <1>3, PTL DEF DecoderSpec
=============================================================================
