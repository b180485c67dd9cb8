------------------------------ MODULE LinesProofs ------------------------------
(***************************************************************************)
(* That the lines a decoder returns are those of the log, however it is    *)
(* cut into slices (ChunkDecoder).                                         *)
(*                                                                         *)
(* The invariant says of the text read so far what was returned and what   *)
(* is pending: the lines that ended in it, and the rest of it, both whole  *)
(* but for descriptions too long to be read.  While a value is skipped,    *)
(* what is pending is the line up to the value, and the backslashes that   *)
(* are carried tell of the next quote what those of the line would.  What  *)
(* a slice adds follows from what the lines of two texts have to do with   *)
(* those of the texts joined (ReadJoined); a slice that is skipped adds to *)
(* the open value only (SliceSkipped), and one in which the value closes,  *)
(* or its line ends, is decoded from there on (SliceResumes).              *)
(***************************************************************************)
EXTENDS DecodingProofs

-----------------------------------------------------------------------------
(* The lines returned, and the lines of the text read so far.               *)

\* What may be returned of a line, and what may be pending of one: all of it, or
\* it without its description, when that was too long, and it closed.
Returned(chars, line) == chars = line \/ (TooLong(line) /\ chars = Emptied(line))
Kept(pending, line) ==
  \/ pending = line
  \/ TooLong(line) /\ Closing(line, ValueStart(line)) # {} /\ pending = Emptied(line)

\* A line with a description open that is too long, pending without it.
OpenLong(pending, line) ==
  LET from == ValueStart(line)
  IN  /\ from # 0 /\ Closing(line, from) = {} /\ ~Small(line, from)
      /\ Len(line) + 1 - from > MaxScanned
      /\ pending = SubSeq(line, 1, from - 1)

\* It is skipped; `carried` backslashes come before the next byte, counted in
\* bytes, where a first byte that waits for the second is none.
Escapes(carried, line, waits) ==
  Even(carried) <=> waits \/ Even(RunBefore(line, Len(line) + 1, ValueStart(line)))
Skipping(pending, carried, line, waits) ==
  OpenLong(pending, line) /\ Escapes(carried, line, waits)

\* The characters of the bytes read, and the lines of those.
Out(bytes) == DecodeBytes(FALSE, bytes)
Read(bytes) == Cut(<<>>, Out(bytes).out)

\* As many lines, each of them what may be returned of the line.
SameLines(got, whole) ==
  Len(got) = Len(whole) /\ \A n \in 1..Len(whole) : Returned(got[n], whole[n])

\* The lines of the model, their characters and that their pieces are theirs.
Chunks == [chars : Seq(Chars), head : Seq(Chars), tail : Seq(Chars)]
Got(ls) == [n \in 1..Len(ls) |-> ls[n].chars]
Pieces(ls) == \A n \in 1..Len(ls) : IsPrefix(ls[n].head, ls[n].chars) /\ IsSuffix(ls[n].tail, ls[n].chars)

\* The pending line, of what was read.
PendingInv(d, line, waits) ==
  IF d.skipping THEN Skipping(d.pending, d.carried, line, waits)
  ELSE /\ d.held = waits /\ Kept(d.pending, line)
       /\ ~d.settled => d.pending = line

\* What was returned and is pending are of what was read, or of the whole text
\* once that was flushed.
LinesInv ==
  LET read == SubSeq(text, 1, at)
  IN  /\ at <= Len(text)
      /\ ~dec.flushed => /\ SameLines(Got(lines), Read(read).ended)
                         /\ PendingInv(dec, Read(read).rest, Out(read).held)
      /\ dec.flushed => SameLines(Got(lines), WholeLines)

\* What is reported of each line, and of the pending one.
PiecesInv == Pieces(lines) /\ (~dec.flushed => IsPrefix(dec.head, dec.pending))

-----------------------------------------------------------------------------
(* Decoding, byte by byte.                                                  *)

\* The characters a byte adds.
Put(waits, byte) ==
  CASE byte = "m1" -> IF waits THEN <<"?">> ELSE <<>>
    [] byte = "m2" -> <<IF waits THEN "m" ELSE "?">>
    [] OTHER -> IF waits THEN <<"?", byte>> ELSE <<byte>>

LEMMA PutOf ==
  ASSUME NEW waits \in BOOLEAN, NEW byte \in Chars
  PROVE  /\ Put(waits, byte) \in Seq(Chars)
         /\ byte = "m1" => Put(waits, byte) = IF waits THEN <<"?">> ELSE <<>>
         /\ byte = "m2" => \E m \in Chars : m # Backslash /\ m # Newline /\ Put(waits, byte) = <<m>>
         /\ byte \notin {"m1", "m2"} => Put(waits, byte) = IF waits THEN <<"?", byte>> ELSE <<byte>>
<1>1. "?" \in Chars /\ "m" \in Chars
  BY DEF Chars
<1>2. <<"?">> \in Seq(Chars) /\ <<"m">> \in Seq(Chars) /\ <<byte>> \in Seq(Chars) /\ <<>> \in Seq(Chars)
  BY <1>1, EmptySeq
<1>3. <<"?", byte>> \in Seq(Chars)
  BY <1>1, TwoLong
<1>4. CASE byte = "m1"
  <2>1. Put(waits, byte) = IF waits THEN <<"?">> ELSE <<>>
    BY <1>4 DEF Put
  <2> QED  BY <1>2, <1>4, <2>1
<1>5. CASE byte = "m2"
  <2>1. PICK m \in Chars : m = IF waits THEN "m" ELSE "?"
    BY <1>1
  <2>2. Put(waits, byte) = <<m>>
    BY <1>5, <2>1 DEF Put
  <2>3. m # Backslash /\ m # Newline
    BY <2>1 DEF Backslash, Newline
  <2>4. <<m>> \in Seq(Chars)
    OBVIOUS
  <2> QED  BY <1>5, <2>2, <2>3, <2>4
<1>6. CASE byte \notin {"m1", "m2"}
  <2>1. Put(waits, byte) = IF waits THEN <<"?", byte>> ELSE <<byte>>
    BY <1>6 DEF Put
  <2> QED  BY <1>2, <1>3, <1>6, <2>1
<1> QED  BY <1>4, <1>5, <1>6

LEMMA ByteAdds ==
  ASSUME NEW d \in Outputs, NEW byte \in Chars
  PROVE  /\ DecodeByte(d, byte) \in Outputs
         /\ DecodeByte(d, byte).out = d.out \o Put(d.held, byte)
         /\ byte = "m1" => DecodeByte(d, byte).held = TRUE
         /\ byte # "m1" => DecodeByte(d, byte).held = FALSE
<1>1. DecodeByte(d, byte) \in Outputs
  BY ByteDecoded
<1>2. d.out \in Seq(Chars) /\ d.held \in BOOLEAN
  BY DEF Outputs
<1>3. "?" \in Chars /\ "m" \in Chars
  BY DEF Chars
<1>7. d.out \o <<>> = d.out /\ \A x \in Chars : Append(d.out, x) = d.out \o <<x>>
  <2>1. PICK out \in Seq(Chars) : out = d.out
    BY <1>2
  <2>2. out \o <<>> = out /\ \A x \in Chars : Append(out, x) = out \o <<x>>
    BY AppendIsConcat, ConcatEmptySeq
  <2> QED  BY <2>1, <2>2
<1>4. CASE byte = "m1"
  <2>1. DecodeByte(d, byte) = [out |-> IF d.held THEN Append(d.out, "?") ELSE d.out, held |-> TRUE]
    BY <1>4 DEF DecodeByte
  <2>2. Put(d.held, byte) = IF d.held THEN <<"?">> ELSE <<>>
    BY <1>2, <1>4, PutOf
  <2>3. Append(d.out, "?") = d.out \o <<"?">> /\ d.out \o <<>> = d.out
    BY <1>3, <1>7
  <2>4. /\ DecodeByte(d, byte).out = IF d.held THEN Append(d.out, "?") ELSE d.out
        /\ DecodeByte(d, byte).held = TRUE
    BY <2>1
  <2>5. DecodeByte(d, byte).out = d.out \o Put(d.held, byte)
    BY <2>2, <2>3, <2>4
  <2> QED  BY <1>1, <1>4, <2>4, <2>5
<1>5. CASE byte = "m2"
  <2>1. PICK m \in Chars : m = IF d.held THEN "m" ELSE "?"
    BY <1>3
  <2>2. DecodeByte(d, byte) = [out |-> Append(d.out, m), held |-> FALSE] /\ byte # "m1"
    BY <1>5, <2>1 DEF DecodeByte
  <2>3. Put(d.held, byte) = <<m>>
    BY <1>5, <2>1 DEF Put
  <2>4. Append(d.out, m) = d.out \o <<m>>
    BY <1>7
  <2> QED  BY <1>1, <2>2, <2>3, <2>4
<1>6. CASE byte \notin {"m1", "m2"}
  <2>1. DecodeByte(d, byte) = [out |-> IF d.held THEN d.out \o <<"?", byte>> ELSE Append(d.out, byte),
                               held |-> FALSE]
    BY <1>6 DEF DecodeByte
  <2>2. Put(d.held, byte) = IF d.held THEN <<"?", byte>> ELSE <<byte>>
    BY <1>2, <1>6, PutOf
  <2>3. Append(d.out, byte) = d.out \o <<byte>>
    BY <1>7
  <2>4. CASE d.held
    BY <1>1, <1>6, <2>1, <2>2, <2>3, <2>4
  <2>5. CASE ~d.held
    BY <1>1, <1>6, <2>1, <2>2, <2>3, <2>5
  <2> QED  BY <2>4, <2>5
<1> QED  BY <1>4, <1>5, <1>6

LEMMA DecodeNone ==
  ASSUME NEW waits
  PROVE  /\ DecodeBytes(waits, <<>>) = [out |-> <<>>, held |-> waits]
         /\ DecodeBytes(waits, <<>>).out = <<>> /\ DecodeBytes(waits, <<>>).held = waits
<1>1. PICK none \in Seq(Chars) : none = <<>> /\ Len(none) = 0
  BY EmptySeq
<1>2. PICK f : /\ f[0] = [out |-> <<>>, held |-> waits]
               /\ DecodeBytes(waits, none) = f[Len(none)]
  BY <1>1, DecodingSteps
<1> QED  BY <1>1, <1>2

LEMMA DecodeMore ==
  ASSUME NEW waits, NEW s \in Seq(Chars), NEW x \in Chars
  PROVE  DecodeBytes(waits, s \o <<x>>) = DecodeByte(DecodeBytes(waits, s), x)
<1>1. PICK more \in Seq(Chars) : more = s \o <<x>>
  BY Longer
<1>2. /\ Len(s) \in Nat /\ Len(more) = Len(s) + 1 /\ \A i \in 1..Len(s) : more[i] = s[i]
      /\ more[Len(s) + 1] = x
  BY <1>1, Longer, Lens
<1>3. Len(more) \in Nat
  BY Lens
<1>4. PICK g : /\ g[0] = [out |-> <<>>, held |-> waits]
               /\ \A i \in 1..Len(more) : g[i] = DecodeByte(g[i - 1], more[i])
               /\ DecodeBytes(waits, more) = g[Len(more)]
  BY <1>2, <1>3, DecodingSteps
<1>5. PICK f : /\ f[0] = [out |-> <<>>, held |-> waits]
               /\ \A i \in 1..Len(s) : f[i] = DecodeByte(f[i - 1], s[i])
               /\ DecodeBytes(waits, s) = f[Len(s)]
  BY <1>2, DecodingSteps
<1> DEFINE Bad == {i \in 0..Len(s) : f[i] # g[i]}
<1>6. Bad = {}
  <2>1. SUFFICES ASSUME Bad # {} PROVE FALSE
    OBVIOUS
  <2>2. Bad \in SUBSET Nat
    BY <1>2
  <2>3. PICK m \in Bad : \A n \in Bad : m <= n
    BY <2>1, <2>2, LeastOf
  <2>4. m \in 0..Len(s) /\ f[m] # g[m] /\ m # 0
    BY <1>5, <1>4
  <2>5. m \in 1..Len(s) /\ m - 1 \in 0..Len(s) /\ ~(m <= m - 1) /\ m \in 1..Len(more)
    BY <1>2, <2>4
  <2>6. f[m - 1] = g[m - 1]
    BY <2>3, <2>5
  <2>7. f[m] = DecodeByte(f[m - 1], s[m]) /\ g[m] = DecodeByte(g[m - 1], more[m]) /\ more[m] = s[m]
    BY <1>2, <1>5, <1>4, <2>5
  <2> QED  BY <2>4, <2>6, <2>7
<1>7. g[Len(s)] = DecodeBytes(waits, s)
  <2>1. Len(s) \in 0..Len(s)
    BY <1>2
  <2> QED  BY <1>5, <1>6, <2>1
<1>8. g[Len(more)] = DecodeByte(g[Len(s)], x)
  <2>1. Len(more) \in 1..Len(more) /\ Len(more) - 1 = Len(s)
    BY <1>2
  <2> QED  BY <1>2, <1>4, <2>1
<1> QED  BY <1>1, <1>4, <1>7, <1>8

\* Decoded in two steps.
LEMMA DecodeJoined ==
  ASSUME NEW waits \in BOOLEAN, NEW a \in Seq(Chars), NEW b \in Seq(Chars)
  PROVE  LET d == DecodeBytes(waits, a)
             e == DecodeBytes(d.held, b)
         IN  /\ d \in Outputs /\ e \in Outputs
             /\ DecodeBytes(waits, a \o b).out = d.out \o e.out
             /\ DecodeBytes(waits, a \o b).held = e.held
<1>1. PICK d \in Outputs : d = DecodeBytes(waits, a)
  BY BytesDecoded
<1>2. d.out \in Seq(Chars) /\ d.held \in BOOLEAN
  BY DEF Outputs
<1> DEFINE Two(s) == /\ DecodeBytes(waits, a \o s).out = d.out \o DecodeBytes(d.held, s).out
                     /\ DecodeBytes(waits, a \o s).held = DecodeBytes(d.held, s).held
           G == {s \in Seq(Chars) : Two(s)}
<1>3. <<>> \in G
  <2>1. <<>> \in Seq(Chars) /\ a \o <<>> = a /\ d.out \o <<>> = d.out
    BY <1>2, EmptySeq, ConcatEmptySeq
  <2>2. DecodeBytes(d.held, <<>>).out = <<>> /\ DecodeBytes(d.held, <<>>).held = d.held
    BY DecodeNone
  <2>3. Two(<<>>)
    <3>1. DecodeBytes(waits, a \o <<>>) = d
      BY <1>1, <2>1
    <3> QED  BY <2>1, <2>2, <3>1
  <2> QED  BY <2>1, <2>3
<1>4. ASSUME NEW s \in G, NEW x \in Chars PROVE s \o <<x>> \in G
  <2>1. s \in Seq(Chars) /\ Two(s) /\ s \o <<x>> \in Seq(Chars) /\ a \o s \in Seq(Chars)
    BY <1>4, Longer, Joined
  <2>2. PICK u \in Outputs : u = DecodeBytes(waits, a \o s)
    BY <2>1, BytesDecoded
  <2>3. PICK v \in Outputs : v = DecodeBytes(d.held, s)
    BY <1>2, <2>1, BytesDecoded
  <2>4. u.out = d.out \o v.out /\ u.held = v.held /\ v.out \in Seq(Chars) /\ v.held \in BOOLEAN
    BY <2>1, <2>2, <2>3 DEF Outputs
  <2>5. a \o (s \o <<x>>) = (a \o s) \o <<x>>
    BY <2>1, AddedLast
  <2>6. DecodeBytes(waits, a \o (s \o <<x>>)) = DecodeByte(u, x)
    <3>1. PICK both \in Seq(Chars) : both = a \o s
      BY <2>1
    <3>2. DecodeBytes(waits, both \o <<x>>) = DecodeByte(DecodeBytes(waits, both), x)
      BY DecodeMore
    <3> QED  BY <2>2, <2>5, <3>1, <3>2
  <2>7. DecodeBytes(d.held, s \o <<x>>) = DecodeByte(v, x)
    BY <2>1, <2>3, DecodeMore
  <2>8. PICK p \in Seq(Chars) : p = Put(v.held, x)
    BY <2>4, PutOf
  <2>9. /\ DecodeByte(u, x).out = u.out \o p /\ DecodeByte(v, x).out = v.out \o p
        /\ DecodeByte(u, x).held = DecodeByte(v, x).held
    <3>1. DecodeByte(u, x).out = u.out \o p
      BY <2>4, <2>8, ByteAdds
    <3>2. DecodeByte(v, x).out = v.out \o p
      BY <2>4, <2>8, ByteAdds
    <3>3. DecodeByte(u, x).held = DecodeByte(v, x).held
      BY ByteAdds
    <3> QED  BY <3>1, <3>2, <3>3
  <2>10. (d.out \o v.out) \o p = d.out \o (v.out \o p)
    <3>1. PICK do \in Seq(Chars), vo \in Seq(Chars) : do = d.out /\ vo = v.out
      BY <1>2, <2>4
    <3>2. (do \o vo) \o p = do \o (vo \o p)
      BY ConcatAssociative, SMTT(40)
    <3> QED  BY <3>1, <3>2
  <2>11. Two(s \o <<x>>)
    BY <2>4, <2>6, <2>7, <2>9, <2>10
  <2> QED  BY <2>1, <2>11
<1> HIDE DEF G
<1>5. G \in SUBSET Seq(Chars)
  BY DEF G
<1>6. b \in G
  BY <1>3, <1>4, <1>5, EverySequence
<1>7. DecodeBytes(d.held, b) \in Outputs
  BY <1>2, BytesDecoded
<1> QED  BY <1>1, <1>6, <1>7 DEF G

\* A byte that waits when no second one comes.
LEMMA HeldFirst ==
  ASSUME NEW b \in Seq(Chars), b # <<>>, b[1] \notin {"m1", "m2"}
  PROVE  /\ DecodeBytes(TRUE, b).out = <<"?">> \o DecodeBytes(FALSE, b).out
         /\ DecodeBytes(TRUE, b).held = DecodeBytes(FALSE, b).held
<1>1. PICK t \in Seq(Chars) : b = <<b[1]>> \o t
  BY FirstTaken
<1>2. b[1] \in Chars
  <2>1. Len(b) \in Nat \ {0}
    BY Lens
  <2>2. 1 \in 1..Len(b)
    BY <2>1
  <2> QED  BY <2>2, Lens
<1>3. PICK x \in Chars : x = b[1] /\ x # "m1" /\ x # "m2"
  BY <1>2
<1>4. PICK one \in Seq(Chars) : one = <<x>> /\ b = one \o t
  BY <1>1, <1>3, OneLong
<1>5. PICK e \in Outputs : e = DecodeBytes(FALSE, t)
  BY BytesDecoded
<1>6. ASSUME NEW waits \in BOOLEAN
      PROVE  /\ DecodeBytes(waits, b).out = Put(waits, x) \o e.out
             /\ DecodeBytes(waits, b).held = e.held
  <2>1. PICK z \in Outputs : z = [out |-> <<>>, held |-> waits]
    BY EmptySeq DEF Outputs
  <2>2. PICK none \in Seq(Chars) : none = <<>>
    BY EmptySeq
  <2>3. DecodeBytes(waits, none \o <<x>>) = DecodeByte(z, x)
    <3>1. DecodeBytes(waits, none) = z
      BY <2>1, <2>2, DecodeNone
    <3> QED  BY <3>1, DecodeMore
  <2>4. none \o <<x>> = one
    BY <1>4, <2>2, ConcatEmptySeq
  <2>5. DecodeByte(z, x).out = z.out \o Put(waits, x) /\ DecodeByte(z, x).held = FALSE
    BY <1>3, <2>1, ByteAdds
  <2>6. z.out \o Put(waits, x) = Put(waits, x)
    <3>1. Put(waits, x) \in Seq(Chars)
      BY PutOf
    <3> QED  BY <2>1, <3>1, ConcatEmptySeq
  <2>7. PICK d \in Outputs : d = DecodeBytes(waits, one) /\ d.out = Put(waits, x) /\ d.held = FALSE
    <3>1. DecodeBytes(waits, one) \in Outputs
      BY BytesDecoded
    <3> QED  BY <2>3, <2>4, <2>5, <2>6, <3>1
  <2>8. /\ DecodeBytes(waits, one \o t).out = d.out \o DecodeBytes(d.held, t).out
        /\ DecodeBytes(waits, one \o t).held = DecodeBytes(d.held, t).held
    BY <2>7, DecodeJoined
  <2> QED  BY <1>4, <1>5, <2>7, <2>8
<1>7. Put(TRUE, x) = <<"?", x>> /\ Put(FALSE, x) = <<x>>
  BY <1>3 DEF Put
<1>8. <<"?", x>> = <<"?">> \o <<x>>
  OBVIOUS
<1>9. <<"?", x>> \o e.out = <<"?">> \o (<<x>> \o e.out)
  <2>1. "?" \in Chars
    BY DEF Chars
  <2>2. PICK q \in Seq(Chars) : q = <<"?">>
    BY <2>1, OneLong
  <2>3. PICK eo \in Seq(Chars) : eo = e.out
    BY DEF Outputs
  <2>4. (q \o one) \o eo = q \o (one \o eo)
    BY ConcatAssociative, SMTT(40)
  <2> QED  BY <1>4, <1>8, <2>2, <2>3, <2>4
<1>10. /\ DecodeBytes(TRUE, b).out = Put(TRUE, x) \o e.out /\ DecodeBytes(TRUE, b).held = e.held
       /\ DecodeBytes(FALSE, b).out = Put(FALSE, x) \o e.out /\ DecodeBytes(FALSE, b).held = e.held
  BY <1>6
<1> QED  BY <1>7, <1>9, <1>10

\* The beginnings of sequences that agree so far.
LEMMA SameStart ==
  ASSUME NEW s \in Seq(Chars), NEW u \in Seq(Chars), NEW n \in Nat, n <= Len(s), n <= Len(u),
         \A i \in 1..n : s[i] = u[i]
  PROVE  SubSeq(s, 1, n) = SubSeq(u, 1, n)
<1>1. PICK one \in Nat \ {0} : one = 1
  OBVIOUS
<1>2. ASSUME NEW v \in Seq(Chars), n <= Len(v)
      PROVE  /\ SubSeq(v, 1, n) \in Seq(Chars) /\ Len(SubSeq(v, 1, n)) = n
             /\ \A i \in 1..n : SubSeq(v, 1, n)[i] = v[i]
  <2>1. /\ SubSeq(v, one, n) \in Seq(Chars)
        /\ Len(SubSeq(v, one, n)) = IF one <= n THEN n - one + 1 ELSE 0
        /\ \A i \in 1..(n - one + 1) : SubSeq(v, one, n)[i] = v[one + i - 1]
    BY <1>2, Piece
  <2>2. n - one + 1 = n /\ \A i \in 1..n : one + i - 1 = i
    BY <1>1
  <2>3. (IF one <= n THEN n - one + 1 ELSE 0) = n
    BY <1>1, <2>2
  <2> QED  BY <1>1, <2>1, <2>2, <2>3
<1>3. /\ SubSeq(s, 1, n) \in Seq(Chars) /\ Len(SubSeq(s, 1, n)) = n
      /\ \A i \in 1..n : SubSeq(s, 1, n)[i] = s[i]
  BY <1>2
<1>4. /\ SubSeq(u, 1, n) \in Seq(Chars) /\ Len(SubSeq(u, 1, n)) = n
      /\ \A i \in 1..n : SubSeq(u, 1, n)[i] = u[i]
  BY <1>2
<1>5. \A i \in 1..n : SubSeq(s, 1, n)[i] = SubSeq(u, 1, n)[i]
  BY <1>3, <1>4
<1> QED  BY <1>3, <1>4, <1>5, SeqEqual

-----------------------------------------------------------------------------
(* Backslashes and closing quotes, character by character.                  *)

LEMMA EvenStep ==
  ASSUME NEW n \in Nat
  PROVE  Even(0) /\ (Even(n + 1) <=> ~Even(n))
BY DEF Even

LEMMA RunSame ==
  ASSUME NEW s \in Seq(Chars), NEW u \in Seq(Chars), NEW from \in Nat \ {0}, NEW i \in Nat,
         \A j \in from..(i - 1) : s[j] = u[j]
  PROVE  RunBefore(s, i, from) = RunBefore(u, i, from)
<1>1. {j \in from..(i - 1) : s[j] # Backslash} = {j \in from..(i - 1) : u[j] # Backslash}
  OBVIOUS
<1> QED  BY <1>1 DEF RunBefore

LEMMA RunStep ==
  ASSUME NEW s \in Seq(Chars), NEW from \in Nat \ {0}, NEW i \in Nat, i >= from
  PROVE  /\ RunBefore(s, from, from) = 0
         /\ RunBefore(s, i, from) \in Nat
         /\ RunBefore(s, i + 1, from) = IF s[i] = Backslash THEN RunBefore(s, i, from) + 1 ELSE 0
<1> DEFINE S(k) == {j \in from..(k - 1) : s[j] # Backslash} \cup {from - 1}
<1>1. ASSUME NEW k \in Nat, k >= from
      PROVE  S(k) \in SUBSET (0..(k - 1)) /\ S(k) # {} /\ RunBefore(s, k, from) = (k - 1) - Max(S(k))
  BY <1>1 DEF RunBefore
<1>2. ASSUME NEW k \in Nat, k >= from
      PROVE  Max(S(k)) \in S(k) /\ \A y \in S(k) : y <= Max(S(k))
  <2>1. k - 1 \in Nat
    BY <1>2
  <2>2. S(k) \in SUBSET (0..(k - 1)) /\ S(k) # {}
    BY <1>1, <1>2
  <2> HIDE DEF S
  <2> QED  BY <2>1, <2>2, GreatestOf
<1>3. RunBefore(s, from, from) = 0
  <2>1. S(from) = {from - 1}
    OBVIOUS
  <2>2. Max(S(from)) = from - 1
    BY <1>2, <2>1
  <2> HIDE DEF S
  <2> QED  BY <1>1, <2>2
<1>4. PICK m \in 0..(i - 1) : m = Max(S(i)) /\ m \in S(i) /\ \A y \in S(i) : y <= m
  <2>1. Max(S(i)) \in S(i) /\ S(i) \in SUBSET (0..(i - 1)) /\ \A y \in S(i) : y <= Max(S(i))
    BY <1>1, <1>2
  <2> HIDE DEF S
  <2> QED  BY <2>1
<1>5. PICK n \in 0..i : n = Max(S(i + 1)) /\ n \in S(i + 1) /\ \A y \in S(i + 1) : y <= n
  <2>1. i + 1 \in Nat /\ i + 1 >= from /\ i + 1 - 1 = i
    OBVIOUS
  <2>2. S(i + 1) \in SUBSET (0..(i + 1 - 1))
    BY <1>1, <2>1
  <2>3. Max(S(i + 1)) \in S(i + 1) /\ \A y \in S(i + 1) : y <= Max(S(i + 1))
    BY <1>2, <2>1
  <2> HIDE DEF S
  <2> QED  BY <2>1, <2>2, <2>3
<1>6. RunBefore(s, i, from) = i - 1 - m
  BY <1>1, <1>4
<1>7. RunBefore(s, i + 1, from) = i - n
  <2>1. RunBefore(s, i + 1, from) = (i + 1 - 1) - n
    <3>1. i + 1 \in Nat /\ i + 1 >= from
      OBVIOUS
    <3> HIDE DEF S
    <3> QED  BY <1>1, <1>5, <3>1
  <2> QED  BY <2>1
<1>8. CASE s[i] = Backslash
  <2>1. S(i + 1) = S(i)
    BY <1>8
  <2>2. n = m
    <3> HIDE DEF S
    <3> QED  BY <1>4, <1>5, <2>1
  <2> QED  BY <1>3, <1>6, <1>7, <1>8, <2>2
<1>9. CASE s[i] # Backslash
  <2>1. i \in S(i + 1)
    BY <1>9
  <2>2. n = i
    <3> HIDE DEF S
    <3> QED  BY <1>5, <2>1
  <2> QED  BY <1>3, <1>6, <1>7, <1>9, <2>2
<1> QED  BY <1>8, <1>9

\* One more character.
LEMMA RunMore ==
  ASSUME NEW s \in Seq(Chars), NEW x \in Chars, NEW from \in 1..(Len(s) + 1)
  PROVE  /\ RunBefore(s, Len(s) + 1, from) \in Nat
         /\ RunBefore(s \o <<x>>, Len(s) + 1, from) = RunBefore(s, Len(s) + 1, from)
         /\ RunBefore(s \o <<x>>, Len(s \o <<x>>) + 1, from)
              = IF x = Backslash THEN RunBefore(s, Len(s) + 1, from) + 1 ELSE 0
<1>1. PICK t \in Seq(Chars) : t = s \o <<x>>
  BY Longer
<1>2. PICK k \in Nat : /\ k = Len(s) /\ Len(t) = k + 1 /\ \A i \in 1..k : t[i] = s[i]
                       /\ t[k + 1] = x /\ from \in Nat \ {0} /\ k + 1 >= from
  <2>1. PICK k \in Nat : k = Len(s)
    BY Lens
  <2>2. from \in Nat \ {0} /\ k + 1 >= from
    BY <2>1
  <2>3. Len(t) = k + 1 /\ (\A i \in 1..k : t[i] = s[i]) /\ t[k + 1] = x
    BY <1>1, <2>1, Longer
  <2> QED  BY <2>1, <2>2, <2>3
<1>3. k + 1 \in Nat /\ \A j \in from..(k + 1 - 1) : s[j] = t[j]
  BY <1>2
<1>4. RunBefore(s, k + 1, from) = RunBefore(t, k + 1, from)
  BY <1>2, <1>3, RunSame
<1>5. /\ RunBefore(t, k + 1, from) \in Nat
      /\ RunBefore(t, (k + 1) + 1, from) = IF t[k + 1] = Backslash THEN RunBefore(t, k + 1, from) + 1 ELSE 0
  BY <1>2, <1>3, RunStep
<1> QED  BY <1>1, <1>2, <1>4, <1>5

LEMMA ClosingMore ==
  ASSUME NEW s \in Seq(Chars), NEW x \in Chars, NEW from \in 1..(Len(s) + 1)
  PROVE  Closing(s \o <<x>>, from)
           = Closing(s, from) \cup (IF x = Quote /\ Even(RunBefore(s, Len(s) + 1, from))
                                      THEN {Len(s) + 1} ELSE {})
<1>1. PICK t \in Seq(Chars) : t = s \o <<x>>
  BY Longer
<1>2. PICK k \in Nat : /\ k = Len(s) /\ Len(t) = k + 1 /\ \A i \in 1..k : t[i] = s[i]
                       /\ t[k + 1] = x /\ from \in Nat \ {0} /\ k + 1 >= from
  <2>1. PICK k \in Nat : k = Len(s)
    BY Lens
  <2>2. from \in Nat \ {0} /\ k + 1 >= from
    BY <2>1
  <2>3. Len(t) = k + 1 /\ (\A i \in 1..k : t[i] = s[i]) /\ t[k + 1] = x
    BY <1>1, <2>1, Longer
  <2> QED  BY <2>1, <2>2, <2>3
<1>3. ASSUME NEW i \in from..(k + 1) PROVE RunBefore(t, i, from) = RunBefore(s, i, from)
  <2>1. i \in Nat /\ \A j \in from..(i - 1) : t[j] = s[j]
    BY <1>2
  <2> QED  BY <1>2, <2>1, RunSame
<1>4. from..(k + 1) = (from..k) \cup {k + 1}
  BY <1>2
<1>5. \A i \in from..k : t[i] = s[i] /\ RunBefore(t, i, from) = RunBefore(s, i, from)
  BY <1>2, <1>3, <1>4
<1>6. RunBefore(t, k + 1, from) = RunBefore(s, k + 1, from)
  BY <1>3, <1>4
<1>7. Closing(t, from) = {i \in (from..k) \cup {k + 1} : t[i] = Quote /\ Even(RunBefore(t, i, from))}
  BY <1>2, <1>4 DEF Closing
<1>8. Closing(s, from) = {i \in from..k : s[i] = Quote /\ Even(RunBefore(s, i, from))}
  BY <1>2 DEF Closing
<1> QED  BY <1>1, <1>2, <1>5, <1>6, <1>7, <1>8

\* A description that is open stays so.
LEMMA OpenMore ==
  ASSUME NEW p, NEW l \in Seq(Chars), OpenLong(p, l), NEW x \in Chars,
         x = Quote => ~Even(RunBefore(l, Len(l) + 1, ValueStart(l)))
  PROVE  OpenLong(p, l \o <<x>>) /\ ValueStart(l \o <<x>>) = ValueStart(l)
<1>1. PICK t \in Seq(Chars) : t = l \o <<x>>
  BY Longer
<1>2. PICK k \in Nat : /\ k = Len(l) /\ Len(t) = k + 1 /\ \A i \in 1..k : t[i] = l[i]
  BY <1>1, Longer, Lens
<1>3. PICK from \in 3..(k + 1) :
        /\ from = ValueStart(l) /\ Closing(l, from) = {} /\ ~Small(l, from)
        /\ k + 1 - from > MaxScanned /\ p = SubSeq(l, 1, from - 1)
  BY <1>2, ValuePlace DEF OpenLong
<1>4. MaxScanned \in Nat \ {0}
  BY DecoderAssumption DEF DecoderAssumption
<1>5. ValueStart(t) = from
  <2>1. PICK one \in Seq(Chars) : one = <<x>>
    BY OneLong
  <2>2. ValueStart(l \o one) = ValueStart(l)
    BY <1>3, ValueStays
  <2> QED  BY <1>1, <1>3, <2>1, <2>2
<1>6. Closing(t, from) = {}
  <2>1. from \in 1..(Len(l) + 1)
    BY <1>2, <1>3
  <2> QED  BY <1>1, <1>2, <1>3, <2>1, ClosingMore
<1>7. ~Small(t, from)
  <2>1. k >= from + 1 /\ from \in 1..k /\ from + 1 \in 1..k
    BY <1>3, <1>4
  <2> QED  BY <1>2, <1>3, <2>1 DEF Small
<1>8. SubSeq(t, 1, from - 1) = SubSeq(l, 1, from - 1)
  <2>1. from - 1 \in Nat /\ from - 1 <= k /\ from - 1 <= Len(t) /\ 1 <= from - 1 /\ 1 \in Nat \ {0}
    BY <1>2, <1>3
  <2>2. \A i \in 1..(from - 1) : t[i] = l[i]
    BY <1>2, <2>1
  <2> QED  BY <1>2, <2>1, <2>2, SameStart
<1>9. Len(t) + 1 - from > MaxScanned
  BY <1>2, <1>3, <1>4
<1> QED  BY <1>1, <1>3, <1>5, <1>6, <1>7, <1>8, <1>9 DEF OpenLong

-----------------------------------------------------------------------------
(* Lines that are returned, whole or without their descriptions.            *)

LEMMA FromMore ==
  ASSUME NEW s \in Seq(Chars), NEW x \in Chars, NEW i \in 1..(Len(s) + 1)
  PROVE  From(s \o <<x>>, i) = From(s, i) \o <<x>>
<1>1. PICK t \in Seq(Chars) : t = s \o <<x>>
  BY Longer
<1>2. PICK k \in Nat : k = Len(s)
  BY Lens
<1>3. Len(t) = k + 1 /\ (\A j \in 1..k : t[j] = s[j]) /\ t[k + 1] = x
  BY <1>1, <1>2, Longer
<1>4. PICK u \in Seq(Chars) : u = From(s, i) /\ Len(u) = k + 1 - i
                              /\ \A j \in 1..(k + 1 - i) : u[j] = s[i + j - 1]
  BY <1>2, ValueOf
<1>5. i \in 1..(Len(t) + 1)
  BY <1>2, <1>3
<1>6. PICK v \in Seq(Chars) : v = From(t, i) /\ Len(v) = Len(t) + 1 - i
                              /\ \A j \in 1..(Len(t) + 1 - i) : v[j] = t[i + j - 1]
  BY <1>5, ValueOf
<1>7. PICK w \in Seq(Chars) : w = u \o <<x>>
  BY Longer
<1>8. Len(w) = Len(u) + 1 /\ (\A j \in 1..Len(u) : w[j] = u[j]) /\ w[Len(u) + 1] = x
  BY <1>7, Longer
<1>9. PICK n \in Nat : n = Len(u) /\ n = k + 1 - i /\ Len(v) = n + 1 /\ Len(w) = n + 1
  <2>1. PICK n \in Nat : n = Len(u)
    BY Lens
  <2>2. n = k + 1 - i /\ Len(w) = n + 1
    BY <1>2, <1>4, <1>8, <2>1
  <2>3. Len(v) = n + 1
    BY <1>2, <1>3, <1>6, <2>2
  <2> QED  BY <2>1, <2>2, <2>3
<1>10. ASSUME NEW j \in 1..(n + 1) PROVE v[j] = w[j]
  <2>1. v[j] = t[i + j - 1]
    <3>1. Len(t) + 1 - i = n + 1
      BY <1>2, <1>3, <1>9
    <3> QED  BY <1>6, <3>1
  <2>2. CASE j \in 1..n
    <3>1. i + j - 1 \in 1..k
      BY <1>2, <1>9, <2>2
    <3>2. w[j] = u[j] /\ u[j] = s[i + j - 1]
      BY <1>4, <1>8, <1>9, <2>2
    <3> QED  BY <1>3, <2>1, <3>1, <3>2
  <2>3. CASE j = n + 1
    <3>1. i + j - 1 = k + 1
      BY <1>2, <1>9, <2>3
    <3> QED  BY <1>3, <1>8, <1>9, <2>1, <2>3, <3>1
  <2> QED  BY <1>9, <2>2, <2>3
<1>11. v = w
  BY <1>9, <1>10, SeqEqual
<1> QED  BY <1>1, <1>4, <1>6, <1>7, <1>11

LEMMA TooLongOf ==
  ASSUME NEW l \in Seq(Chars), NEW from, from = ValueStart(l), from # 0
  PROVE  /\ from \in 3..(Len(l) + 1)
         /\ Closing(l, from) \in SUBSET (from..Len(l))
         /\ Closing(l, from) = {} =>
              /\ TooLong(l) <=> Len(l) + 1 - from > MaxScanned /\ ~Small(l, from)
              /\ Emptied(l) = SubSeq(l, 1, from - 1)
         /\ Closing(l, from) # {} =>
              LET close == First(Closing(l, from))
              IN  /\ close \in Closing(l, from) /\ \A y \in Closing(l, from) : close <= y
                  /\ TooLong(l) <=> close - from > MaxScanned /\ ~Small(l, from)
                  /\ Emptied(l) = SubSeq(l, 1, from - 1) \o From(l, close)
<1>1. from \in 3..(Len(l) + 1)
  BY ValuePlace
<1>2. Len(l) \in Nat /\ from \in Nat \ {0} /\ from \in 1..(Len(l) + 1)
  BY <1>1, Lens
<1>3. Closing(l, from) \in SUBSET (from..Len(l))
  BY DEF Closing
<1>4. PICK close : close = ClosingQuoteIndex(l, from)
  OBVIOUS
<1>5. close = First(Closing(l, from))
  BY <1>4 DEF ClosingQuoteIndex, Closing
<1>6. Closing(l, from) \in SUBSET (Nat \ {0})
  BY <1>2, <1>3
<1>7. /\ close = 0 <=> Closing(l, from) = {}
      /\ Closing(l, from) # {} => close \in Closing(l, from) /\ \A y \in Closing(l, from) : close <= y
  BY <1>5, <1>6, FirstOf
<1>8. IsPrefix(<<Header, SmallCommand>>, From(l, from)) <=> Small(l, from)
  BY <1>2, ValueOf
<1>13. PICK limit : limit = IF close = 0 THEN Len(l) + 1 ELSE close
  OBVIOUS
<1>14. TooLong(l) <=> limit - from > MaxScanned /\ ~Small(l, from)
  BY <1>4, <1>8, <1>13 DEF TooLong
<1>9. Emptied(l) = SubSeq(l, 1, from - 1) \o (IF close = 0 THEN <<>> ELSE From(l, close))
  BY <1>4 DEF Emptied
<1>10. SubSeq(l, 1, from - 1) \o <<>> = SubSeq(l, 1, from - 1)
  <2>1. SubSeq(l, 1, from - 1) \in Seq(Chars)
    BY ValueOfCut
  <2> QED  BY <2>1, ConcatEmptySeq
<1>11. ASSUME Closing(l, from) = {}
       PROVE  /\ TooLong(l) <=> Len(l) + 1 - from > MaxScanned /\ ~Small(l, from)
              /\ Emptied(l) = SubSeq(l, 1, from - 1)
  <2>1. close = 0 /\ (IF close = 0 THEN <<>> ELSE From(l, close)) = <<>>
    BY <1>7, <1>11
  <2>2. limit = Len(l) + 1
    BY <1>13, <2>1
  <2>3. TooLong(l) <=> Len(l) + 1 - from > MaxScanned /\ ~Small(l, from)
    <3>1. limit - from = Len(l) + 1 - from
      BY <1>2, <2>2
    <3> QED  BY <1>14, <3>1
  <2> QED  BY <1>9, <1>10, <2>1, <2>3
<1>12. ASSUME Closing(l, from) # {}
       PROVE  /\ TooLong(l) <=> close - from > MaxScanned /\ ~Small(l, from)
              /\ Emptied(l) = SubSeq(l, 1, from - 1) \o From(l, close)
  <2>1. limit = close /\ Emptied(l) = SubSeq(l, 1, from - 1) \o From(l, close)
    BY <1>7, <1>9, <1>12, <1>13
  <2> QED  BY <1>14, <2>1
<1> QED  BY <1>1, <1>3, <1>5, <1>7, <1>11, <1>12

LEMMA KeptMore ==
  ASSUME NEW p \in Seq(Chars), NEW l \in Seq(Chars), Kept(p, l), NEW x \in Chars
  PROVE  Kept(p \o <<x>>, l \o <<x>>)
<1>1. CASE p = l
  BY <1>1 DEF Kept
<1>2. CASE TooLong(l) /\ Closing(l, ValueStart(l)) # {} /\ p = Emptied(l)
  <2>1. PICK t \in Seq(Chars) : t = l \o <<x>>
    BY Longer
  <2>2. PICK k \in Nat : k = Len(l)
    BY Lens
  <2>3. Len(t) = k + 1 /\ (\A j \in 1..k : t[j] = l[j]) /\ t[k + 1] = x
    BY <2>1, <2>2, Longer
  <2>4. PICK from \in 3..(k + 1) : from = ValueStart(l)
    <3>1. ValueStart(l) # 0
      BY <1>2 DEF TooLong
    <3> QED  BY <2>2, <3>1, ValuePlace
  <2>5. PICK close \in from..k : /\ close = First(Closing(l, from)) /\ close \in Closing(l, from)
                                 /\ \A y \in Closing(l, from) : close <= y
                                 /\ close - from > MaxScanned /\ ~Small(l, from)
                                 /\ p = SubSeq(l, 1, from - 1) \o From(l, close)
    <3>1. from # 0
      OBVIOUS
    <3> QED  BY <1>2, <2>2, <2>4, <3>1, TooLongOf
  <2>6. MaxScanned \in Nat \ {0}
    BY DecoderAssumption DEF DecoderAssumption
  <2>7. ValueStart(t) = from
    <3>1. PICK one \in Seq(Chars) : one = <<x>>
      BY OneLong
    <3>2. ValueStart(l \o one) = ValueStart(l)
      BY <2>4, ValueStays
    <3> QED  BY <2>1, <2>4, <3>1, <3>2
  <2>8. close \in Closing(t, from) /\ \A y \in Closing(t, from) : close <= y
    <3>1. from \in 1..(Len(l) + 1)
      BY <2>2
    <3>2. Closing(t, from) \subseteq Closing(l, from) \cup {k + 1} /\ Closing(l, from) \subseteq Closing(t, from)
      BY <2>1, <2>2, <3>1, ClosingMore
    <3> QED  BY <2>5, <3>2
  <2>9. PICK c : c = First(Closing(t, from))
    OBVIOUS
  <2>10. /\ c \in Closing(t, from) /\ \A y \in Closing(t, from) : c <= y
         /\ TooLong(t) <=> c - from > MaxScanned /\ ~Small(t, from)
         /\ Emptied(t) = SubSeq(t, 1, from - 1) \o From(t, c)
         /\ Closing(t, from) \in SUBSET (from..(k + 1))
    <3>1. from # 0 /\ Closing(t, from) # {}
      BY <2>8
    <3> QED  BY <2>3, <2>7, <2>9, <3>1, TooLongOf
  <2>11. c = close
    BY <2>8, <2>10
  <2>12. ~Small(t, from)
    <3>1. k >= from + 1 /\ from \in 1..k /\ from + 1 \in 1..k
      BY <2>5, <2>6
    <3> QED  BY <2>2, <2>3, <2>5, <3>1 DEF Small
  <2>13. SubSeq(t, 1, from - 1) = SubSeq(l, 1, from - 1)
    <3>1. from - 1 \in Nat /\ from - 1 <= Len(l) /\ from - 1 <= Len(t)
      BY <2>2, <2>3
    <3>2. \A i \in 1..(from - 1) : t[i] = l[i]
      BY <2>2, <2>3, <3>1
    <3> QED  BY <3>1, <3>2, SameStart
  <2>14. PICK f \in Seq(Chars) : f = From(l, close) /\ From(t, close) = f \o <<x>>
    <3>1. close \in 1..(Len(l) + 1)
      BY <2>2
    <3>2. From(l, close) \in Seq(Chars)
      BY <3>1, ValueOf
    <3> QED  BY <2>1, <3>1, <3>2, FromMore
  <2>15. PICK h \in Seq(Chars) : h = SubSeq(l, 1, from - 1)
    <3>1. from # 0
      OBVIOUS
    <3> QED  BY <2>4, <3>1, ValueOfCut
  <2>16. (h \o f) \o <<x>> = h \o (f \o <<x>>)
    BY AddedLast, SMTT(40)
  <2>17. TooLong(t) /\ Emptied(t) = p \o <<x>>
    BY <2>5, <2>10, <2>11, <2>12, <2>13, <2>14, <2>15, <2>16
  <2> QED  BY <2>1, <2>7, <2>8, <2>17 DEF Kept
<1> QED  BY <1>1, <1>2 DEF Kept

\* Nothing is returned of an empty line only.
LEMMA ReturnedOf ==
  ASSUME NEW c \in Seq(Chars), NEW l \in Seq(Chars), Returned(c, l)
  PROVE  c = <<>> <=> l = <<>>
<1>1. CASE TooLong(l) /\ c = Emptied(l)
  <2>1. PICK k \in Nat : k = Len(l)
    BY Lens
  <2>2. PICK from \in 3..(k + 1) : from = ValueStart(l) /\ from # 0
    <3>1. ValueStart(l) # 0
      BY <1>1 DEF TooLong
    <3> QED  BY <2>1, <3>1, ValuePlace
  <2>3. PICK h \in Seq(Chars) : h = SubSeq(l, 1, from - 1) /\ Len(h) + 1 = from
    BY <2>2, ValueOfCut
  <2>4. Len(h) \in Nat
    BY Lens
  <2>5. Len(h) >= 2
    BY <2>3, <2>4
  <2>6. \E f \in Seq(Chars) : c = h \o f
    <3>1. CASE Closing(l, from) = {}
      <4>1. c = h
        BY <1>1, <2>2, <2>3, <3>1, TooLongOf
      <4>2. h \o <<>> = h /\ <<>> \in Seq(Chars)
        BY ConcatEmptySeq, EmptySeq
      <4> QED  BY <4>1, <4>2
    <3>2. CASE Closing(l, from) # {}
      <4>1. PICK close \in from..k : c = h \o From(l, close)
        BY <1>1, <2>1, <2>2, <2>3, <3>2, TooLongOf
      <4>2. close \in 1..(Len(l) + 1)
        BY <2>1
      <4>3. From(l, close) \in Seq(Chars)
        BY <4>2, ValueOf
      <4> QED  BY <4>1, <4>3
    <3> QED  BY <3>1, <3>2
  <2>7. PICK f \in Seq(Chars) : c = h \o f
    BY <2>6
  <2>8. Len(c) = Len(h) + Len(f) /\ Len(f) \in Nat
    BY <2>7, Joined, Lens
  <2>9. c # <<>>
    BY <2>4, <2>5, <2>8, Lens
  <2>10. l # <<>>
    <3>1. k >= 2
      BY <2>2
    <3> QED  BY <2>1, <3>1, Lens
  <2> QED  BY <2>9, <2>10
<1> QED  BY <1>1 DEF Returned

LEMMA KeptReturned ==
  ASSUME NEW p \in Seq(Chars), NEW l \in Seq(Chars), Kept(p, l)
  PROVE  Returned(p, l) /\ (p = <<>> <=> l = <<>>)
<1>1. Returned(p, l)
  BY DEF Kept, Returned
<1> QED  BY <1>1, ReturnedOf

LEMMA LinesJoined ==
  ASSUME NEW a \in Seq(Seq(Chars)), NEW b \in Seq(Seq(Chars))
  PROVE  /\ Len(a) \in Nat /\ Len(b) \in Nat
         /\ a \o b \in Seq(Seq(Chars)) /\ Len(a \o b) = Len(a) + Len(b)
         /\ \A i \in 1..(Len(a) + Len(b)) :
              (a \o b)[i] = IF i <= Len(a) THEN a[i] ELSE b[i - Len(a)]
BY ConcatProperties, LenProperties

LEMMA SameLinesJoined ==
  ASSUME NEW a \in Seq(Seq(Chars)), NEW b \in Seq(Seq(Chars)),
         NEW c \in Seq(Seq(Chars)), NEW d \in Seq(Seq(Chars)),
         SameLines(a, b), SameLines(c, d)
  PROVE  SameLines(a \o c, b \o d)
<1>1. PICK m \in Nat, n \in Nat : m = Len(b) /\ n = Len(d) /\ Len(a) = m /\ Len(c) = n
  BY LenProperties DEF SameLines
<1>2. /\ Len(a \o c) = m + n /\ (\A i \in 1..(m + n) : (a \o c)[i] = IF i <= m THEN a[i] ELSE c[i - m])
      /\ Len(b \o d) = m + n /\ (\A i \in 1..(m + n) : (b \o d)[i] = IF i <= m THEN b[i] ELSE d[i - m])
  <2>1. /\ Len(a \o c) = m + n
        /\ \A i \in 1..(m + n) : (a \o c)[i] = IF i <= m THEN a[i] ELSE c[i - m]
    <3>1. /\ Len(a \o c) = Len(a) + Len(c)
          /\ \A i \in 1..(Len(a) + Len(c)) :
               (a \o c)[i] = IF i <= Len(a) THEN a[i] ELSE c[i - Len(a)]
      BY LinesJoined
    <3>2. Len(a) = m /\ Len(c) = n
      BY <1>1
    <3> QED  BY <3>1, <3>2
  <2>2. /\ Len(b \o d) = m + n
        /\ \A i \in 1..(m + n) : (b \o d)[i] = IF i <= m THEN b[i] ELSE d[i - m]
    BY <1>1, LinesJoined
  <2> QED  BY <2>1, <2>2
<1>3. ASSUME NEW i \in 1..(m + n) PROVE Returned((a \o c)[i], (b \o d)[i])
  <2>1. CASE i <= m
    <3>1. i \in 1..m
      BY <2>1
    <3>2. Returned(a[i], b[i])
      BY <1>1, <3>1 DEF SameLines
    <3>3. (a \o c)[i] = a[i] /\ (b \o d)[i] = b[i]
      BY <1>2, <2>1
    <3> QED  BY <3>2, <3>3
  <2>2. CASE ~(i <= m)
    <3>1. i - m \in 1..n
      BY <2>2
    <3>2. Returned(c[i - m], d[i - m])
      BY <1>1, <3>1 DEF SameLines
    <3>3. (a \o c)[i] = c[i - m] /\ (b \o d)[i] = d[i - m]
      BY <1>2, <2>2
    <3> QED  BY <3>2, <3>3
  <2> QED  BY <2>1, <2>2
<1> QED  BY <1>1, <1>2, <1>3 DEF SameLines

LEMMA SameLine ==
  ASSUME NEW c \in Seq(Chars), NEW l \in Seq(Chars), Returned(c, l)
  PROVE  <<c>> \in Seq(Seq(Chars)) /\ <<l>> \in Seq(Seq(Chars)) /\ SameLines(<<c>>, <<l>>)
<1>1. PICK a \in Seq(Seq(Chars)) : a = <<c>> /\ Len(a) = 1 /\ a[1] = c
  BY OneLong
<1>2. PICK b \in Seq(Seq(Chars)) : b = <<l>> /\ Len(b) = 1 /\ b[1] = l
  BY OneLong
<1>3. \A n \in 1..1 : n = 1
  OBVIOUS
<1>4. SameLines(a, b)
  BY <1>1, <1>2, <1>3 DEF SameLines
<1> QED  BY <1>1, <1>2, <1>4

LEMMA NoLines == <<>> \in Seq(Seq(Chars)) /\ SameLines(<<>>, <<>>)
<1>1. Len(<<>>) = 0 /\ 1..0 = {}
  OBVIOUS
<1> QED  BY <1>1, EmptySeq DEF SameLines

\* The same characters after what is kept of a line and after the line.
LEMMA KeptCut ==
  ASSUME NEW p \in Seq(Chars), NEW l \in Seq(Chars), Kept(p, l), NEW chars \in Seq(Chars)
  PROVE  /\ SameLines(Cut(p, chars).ended, Cut(l, chars).ended)
         /\ Kept(Cut(p, chars).rest, Cut(l, chars).rest)
         /\ ~Plain(chars) \/ p = l => Cut(p, chars).rest = Cut(l, chars).rest
<1> DEFINE Same(s) == /\ SameLines(Cut(p, s).ended, Cut(l, s).ended)
                      /\ Kept(Cut(p, s).rest, Cut(l, s).rest)
                      /\ ~Plain(s) \/ p = l => Cut(p, s).rest = Cut(l, s).rest
           G == {s \in Seq(Chars) : Same(s)}
<1>1. <<>> \in G
  <2>1. <<>> \in Seq(Chars) /\ Plain(<<>>)
    BY EmptySeq, PlainOf
  <2>2. /\ Cut(p, <<>>).ended = <<>> /\ Cut(p, <<>>).rest = p
        /\ Cut(l, <<>>).ended = <<>> /\ Cut(l, <<>>).rest = l
    BY CutNone
  <2>3. Same(<<>>)
    BY <2>1, <2>2, NoLines
  <2> QED  BY <2>1, <2>3
<1>2. ASSUME NEW s \in G, NEW x \in Chars PROVE s \o <<x>> \in G
  <2>1. s \in Seq(Chars) /\ Same(s) /\ s \o <<x>> \in Seq(Chars)
    BY <1>2, Longer
  <2>2. PICK a \in Cuts, b \in Cuts : a = Cut(p, s) /\ b = Cut(l, s)
    BY <2>1, CutType
  <2>3. PICK ae \in Seq(Seq(Chars)), be \in Seq(Seq(Chars)), ar \in Seq(Chars), br \in Seq(Chars) :
          ae = a.ended /\ be = b.ended /\ ar = a.rest /\ br = b.rest
    BY DEF Cuts
  <2>4. SameLines(ae, be) /\ Kept(ar, br) /\ (~Plain(s) \/ p = l => ar = br)
    BY <2>1, <2>2, <2>3
  <2>5. Cut(p, s \o <<x>>) = CutAt(a, x) /\ Cut(l, s \o <<x>>) = CutAt(b, x)
    <3>1. Cut(p, s \o <<x>>) = CutAt(a, x)
      BY <2>1, <2>2, CutMore
    <3>2. Cut(l, s \o <<x>>) = CutAt(b, x)
      BY <2>1, <2>2, CutMore
    <3> QED  BY <3>1, <3>2
  <2>6. Plain(s \o <<x>>) <=> Plain(s) /\ x # Newline
    BY <2>1, PlainOf
  <2>7. CASE x # Newline
    <3>1. CutAt(a, x).ended = ae /\ CutAt(a, x).rest = ar \o <<x>>
      BY <2>3, <2>7, CutAtType
    <3>2. CutAt(b, x).ended = be /\ CutAt(b, x).rest = br \o <<x>>
      BY <2>3, <2>7, CutAtType
    <3>3. Kept(ar \o <<x>>, br \o <<x>>)
      BY <2>4, KeptMore
    <3>4. Same(s \o <<x>>)
      BY <2>4, <2>5, <2>6, <2>7, <3>1, <3>2, <3>3
    <3> QED  BY <2>1, <3>4
  <2>8. CASE x = Newline
    <3>1. CutAt(a, x).ended = (IF ar = <<>> THEN ae ELSE ae \o <<ar>>) /\ CutAt(a, x).rest = <<>>
      BY <2>3, <2>8, CutAtType
    <3>2. CutAt(b, x).ended = (IF br = <<>> THEN be ELSE be \o <<br>>) /\ CutAt(b, x).rest = <<>>
      BY <2>3, <2>8, CutAtType
    <3>3. Returned(ar, br) /\ (ar = <<>> <=> br = <<>>)
      BY <2>4, KeptReturned
    <3>4. SameLines(CutAt(a, x).ended, CutAt(b, x).ended)
      <4>1. CASE ar = <<>>
        BY <2>4, <3>1, <3>2, <3>3, <4>1
      <4>2. CASE ar # <<>>
        <5>1. CutAt(a, x).ended = ae \o <<ar>> /\ CutAt(b, x).ended = be \o <<br>>
          BY <3>1, <3>2, <3>3, <4>2
        <5>2. <<ar>> \in Seq(Seq(Chars)) /\ <<br>> \in Seq(Seq(Chars)) /\ SameLines(<<ar>>, <<br>>)
          BY <3>3, SameLine
        <5>3. SameLines(ae \o <<ar>>, be \o <<br>>)
          BY <2>4, <5>2, SameLinesJoined
        <5> QED  BY <5>1, <5>3
      <4> QED  BY <4>1, <4>2
    <3>5. Kept(<<>>, <<>>)
      BY DEF Kept
    <3>6. Same(s \o <<x>>)
      BY <2>5, <3>1, <3>2, <3>4, <3>5
    <3> QED  BY <2>1, <3>6
  <2> QED  BY <2>7, <2>8
<1> HIDE DEF G
<1>3. G \in SUBSET Seq(Chars)
  BY DEF G
<1>4. chars \in G
  BY <1>1, <1>2, <1>3, EverySequence
<1> QED  BY <1>4 DEF G

-----------------------------------------------------------------------------
(* Skipping the bytes of a description.                                     *)

\* The backslashes that end a line, in its description.
Run(line) == RunBefore(line, Len(line) + 1, ValueStart(line))

LEMMA OpenLongStep ==
  ASSUME NEW p, NEW l \in Seq(Chars), OpenLong(p, l), NEW x \in Chars,
         x = Quote => ~Even(Run(l))
  PROVE  /\ OpenLong(p, l \o <<x>>) /\ Run(l) \in Nat
         /\ Run(l \o <<x>>) = IF x = Backslash THEN Run(l) + 1 ELSE 0
<1>1. OpenLong(p, l \o <<x>>) /\ ValueStart(l \o <<x>>) = ValueStart(l)
  BY OpenMore DEF Run
<1>2. PICK from \in 1..(Len(l) + 1) : from = ValueStart(l)
  <2>1. ValueStart(l) # 0
    BY DEF OpenLong
  <2>2. ValueStart(l) \in 3..(Len(l) + 1)
    BY <2>1, ValuePlace
  <2>3. 3..(Len(l) + 1) \subseteq 1..(Len(l) + 1)
    BY Lens
  <2> QED  BY <2>2, <2>3
<1>3. /\ RunBefore(l, Len(l) + 1, from) \in Nat
      /\ RunBefore(l \o <<x>>, Len(l \o <<x>>) + 1, from)
           = IF x = Backslash THEN RunBefore(l, Len(l) + 1, from) + 1 ELSE 0
  BY RunMore
<1> QED  BY <1>1, <1>2, <1>3 DEF Run

LEMMA SkipByte ==
  ASSUME NEW p, NEW n \in Nat, NEW l \in Seq(Chars), NEW h \in BOOLEAN, Skipping(p, n, l, h),
         NEW x \in Chars, x # Newline, x = Quote => ~Even(n)
  PROVE  /\ l \o Put(h, x) \in Seq(Chars)
         /\ Skipping(p, IF x = Backslash THEN n + 1 ELSE 0, l \o Put(h, x), x = "m1")
<1>1. OpenLong(p, l) /\ (Even(n) <=> h \/ Even(Run(l)))
  BY DEF Skipping, Escapes, Run
<1>2. Even(0) /\ \A k \in Nat : Even(k + 1) <=> ~Even(k)
  BY EvenStep
<1>3. PICK u \in Chars : u = "?" /\ u # Quote /\ u # Backslash
  BY DEF Chars, Quote, Backslash
<1>4. ASSUME NEW k \in Nat, NEW t \in Seq(Chars), NEW w \in BOOLEAN, OpenLong(p, t), Even(k) <=> w \/ Even(Run(t))
      PROVE  Skipping(p, k, t, w)
  BY <1>4 DEF Skipping, Escapes, Run
<1>5. PICK lu \in Seq(Chars) : lu = l \o <<u>> /\ OpenLong(p, lu) /\ Run(lu) = 0
  <2>1. OpenLong(p, l \o <<u>>) /\ Run(l \o <<u>>) = 0
    BY <1>1, <1>3, OpenLongStep
  <2>2. l \o <<u>> \in Seq(Chars)
    BY Longer
  <2> QED  BY <2>1, <2>2
<1>6. PICK zero \in Nat : zero = 0
  OBVIOUS
<1>7. CASE x = "m1"
  <2>1. x # Backslash
    BY <1>7 DEF Backslash
  <2>2. CASE h
    <3>1. Put(h, x) = <<u>>
      BY <1>3, <1>7, <2>2 DEF Put
    <3>2. Skipping(p, zero, lu, TRUE)
      BY <1>2, <1>4, <1>5, <1>6
    <3>3. (x = "m1") = TRUE
      BY <1>7
    <3> QED  BY <1>5, <1>6, <2>1, <3>1, <3>2, <3>3
  <2>3. CASE ~h
    <3>1. Put(h, x) = <<>>
      BY <1>7, <2>3 DEF Put
    <3>2. Skipping(p, zero, l, TRUE)
      BY <1>1, <1>2, <1>4, <1>6
    <3>3. (x = "m1") = TRUE /\ l \o <<>> = l
      BY <1>7, ConcatEmptySeq
    <3> QED  BY <1>6, <2>1, <3>1, <3>2, <3>3
  <2> QED  BY <2>2, <2>3
<1>8. CASE x = "m2"
  <2>1. x # Backslash /\ (x = "m1") = FALSE
    BY <1>8 DEF Backslash
  <2>2. PICK m \in Chars : m # Quote /\ m # Backslash /\ Put(h, x) = <<m>>
    <3>1. PICK m \in Chars : m = IF h THEN "m" ELSE "?"
      BY DEF Chars
    <3>2. Put(h, x) = <<m>>
      BY <1>8, <3>1 DEF Put
    <3>3. m # Quote /\ m # Backslash
      BY <3>1 DEF Quote, Backslash
    <3> QED  BY <3>2, <3>3
  <2>3. OpenLong(p, l \o <<m>>) /\ Run(l \o <<m>>) = 0 /\ l \o <<m>> \in Seq(Chars)
    BY <1>1, <2>2, OpenLongStep, Longer
  <2>4. Skipping(p, zero, l \o <<m>>, FALSE)
    BY <1>2, <1>4, <1>6, <2>3
  <2> QED  BY <1>6, <2>1, <2>2, <2>3, <2>4
<1>9. CASE x \notin {"m1", "m2"}
  <2>1. (x = "m1") = FALSE
    BY <1>9
  <2>2. PICK k \in Nat : k = IF x = Backslash THEN n + 1 ELSE 0
    OBVIOUS
  <2>3. CASE h
    <3>1. Put(h, x) = <<u, x>>
      BY <1>3, <1>9, <2>3 DEF Put
    <3>2. l \o <<u, x>> = lu \o <<x>>
      <4>1. <<u, x>> = <<u>> \o <<x>>
        OBVIOUS
      <4>2. <<u>> \in Seq(Chars)
        BY OneLong
      <4>3. (l \o <<u>>) \o <<x>> = l \o (<<u>> \o <<x>>)
        BY <4>2, AddedLast
      <4> QED  BY <1>5, <4>1, <4>3
    <3>3. Even(n) /\ x # Quote
      BY <1>1, <2>3
    <3>4. OpenLong(p, lu \o <<x>>) /\ lu \o <<x>> \in Seq(Chars)
          /\ Run(lu \o <<x>>) = IF x = Backslash THEN 0 + 1 ELSE 0
      BY <1>5, <3>3, OpenLongStep, Longer
    <3>5. Even(k) <=> Even(Run(lu \o <<x>>))
      BY <1>2, <2>2, <3>3, <3>4
    <3>6. Skipping(p, k, lu \o <<x>>, FALSE)
      BY <1>4, <3>4, <3>5
    <3> QED  BY <2>1, <2>2, <3>1, <3>2, <3>4, <3>6
  <2>4. CASE ~h
    <3>1. Put(h, x) = <<x>>
      BY <1>9, <2>4 DEF Put
    <3>2. Even(n) <=> Even(Run(l))
      BY <1>1, <2>4
    <3>3. OpenLong(p, l \o <<x>>) /\ l \o <<x>> \in Seq(Chars) /\ Run(l) \in Nat
          /\ Run(l \o <<x>>) = IF x = Backslash THEN Run(l) + 1 ELSE 0
      BY <1>1, <3>2, OpenLongStep, Longer
    <3>4. Even(k) <=> Even(Run(l \o <<x>>))
      BY <1>2, <2>2, <3>2, <3>3
    <3>5. Skipping(p, k, l \o <<x>>, FALSE)
      BY <1>4, <3>3, <3>4
    <3> QED  BY <2>1, <2>2, <3>1, <3>3, <3>5
  <2> QED  BY <2>3, <2>4
<1> QED  BY <1>7, <1>8, <1>9

\* What was read, and more bytes.
LEMMA ReadOf ==
  ASSUME NEW t \in Seq(Chars)
  PROVE  /\ Out(t) \in Outputs /\ Out(t).out \in Seq(Chars) /\ Out(t).held \in BOOLEAN
         /\ Read(t) \in Cuts /\ Read(t).ended \in Seq(Seq(Chars)) /\ Read(t).rest \in Seq(Chars)
<1>1. Out(t) \in Outputs
  BY BytesDecoded DEF Out
<1>2. Out(t).out \in Seq(Chars) /\ Out(t).held \in BOOLEAN
  BY <1>1 DEF Outputs
<1>3. Read(t) \in Cuts
  BY <1>2, EmptySeq, CutType DEF Read
<1> QED  BY <1>1, <1>2, <1>3 DEF Cuts

LEMMA ReadJoined ==
  ASSUME NEW t \in Seq(Chars), NEW b \in Seq(Chars)
  PROVE  LET e == DecodeBytes(Out(t).held, b)
             c == Cut(Read(t).rest, e.out)
         IN  /\ e \in Outputs /\ c \in Cuts
             /\ Read(t \o b).ended = Read(t).ended \o c.ended
             /\ Read(t \o b).rest = c.rest /\ Out(t \o b).held = e.held
<1>1. PICK d \in Outputs : d = Out(t) /\ d = DecodeBytes(FALSE, t)
  BY ReadOf DEF Out
<1>2. PICK do \in Seq(Chars), h \in BOOLEAN : do = d.out /\ h = d.held
  BY DEF Outputs
<1>3. PICK e \in Outputs : e = DecodeBytes(h, b)
  BY BytesDecoded
<1>4. PICK eo \in Seq(Chars) : eo = e.out
  BY DEF Outputs
<1>5. DecodeBytes(FALSE, t \o b).out = do \o eo /\ DecodeBytes(FALSE, t \o b).held = e.held
  <2>1. /\ DecodeBytes(FALSE, t \o b).out
             = DecodeBytes(FALSE, t).out \o DecodeBytes(DecodeBytes(FALSE, t).held, b).out
        /\ DecodeBytes(FALSE, t \o b).held = DecodeBytes(DecodeBytes(FALSE, t).held, b).held
    BY DecodeJoined
  <2> QED  BY <1>1, <1>2, <1>3, <1>4, <2>1
<1>6. PICK none \in Seq(Chars) : none = <<>>
  BY EmptySeq
<1>7. PICK r \in Seq(Chars) : r = Read(t).rest /\ Read(t) = Cut(none, do)
  BY <1>1, <1>2, <1>6, ReadOf DEF Read
<1>8. PICK c \in Cuts : c = Cut(r, eo)
  BY CutType
<1>9. Cut(none, do \o eo).ended = Cut(none, do).ended \o c.ended /\ Cut(none, do \o eo).rest = c.rest
  <2>1. Cut(none, do).rest = r
    BY <1>7
  <2>2. /\ Cut(none, do \o eo).ended = Cut(none, do).ended \o Cut(Cut(none, do).rest, eo).ended
        /\ Cut(none, do \o eo).rest = Cut(Cut(none, do).rest, eo).rest
    BY CutJoined, ZenonT(60)
  <2> QED  BY <1>8, <2>1, <2>2
<1>10. Read(t \o b) = Cut(none, do \o eo) /\ Out(t \o b).held = e.held
  BY <1>5, <1>6 DEF Read, Out
<1> QED  BY <1>1, <1>2, <1>3, <1>4, <1>7, <1>8, <1>9, <1>10

LEMMA DecodeOne ==
  ASSUME NEW h \in BOOLEAN, NEW x \in Chars
  PROVE  /\ DecodeBytes(h, <<x>>).out = Put(h, x)
         /\ x = "m1" => DecodeBytes(h, <<x>>).held = TRUE
         /\ x # "m1" => DecodeBytes(h, <<x>>).held = FALSE
<1>1. PICK z \in Outputs : z = [out |-> <<>>, held |-> h]
  BY EmptySeq DEF Outputs
<1>2. PICK none \in Seq(Chars) : none = <<>>
  BY EmptySeq
<1>3. DecodeBytes(h, none) = z
  BY <1>1, <1>2, DecodeNone
<1>4. DecodeBytes(h, none \o <<x>>) = DecodeByte(z, x)
  BY <1>3, DecodeMore
<1>5. none \o <<x>> = <<x>>
  <2>1. <<x>> \in Seq(Chars)
    BY OneLong
  <2> QED  BY <1>2, <2>1, ConcatEmptySeq
<1>6. DecodeByte(z, x).out = z.out \o Put(z.held, x)
  BY ByteAdds
<1>7. z.out \o Put(z.held, x) = Put(h, x)
  <2>1. PICK put \in Seq(Chars) : put = Put(h, x)
    BY PutOf
  <2>2. <<>> \o put = put /\ z.out = <<>> /\ z.held = h
    BY <1>1, ConcatEmptySeq
  <2> QED  BY <2>1, <2>2
<1>8. /\ x = "m1" => DecodeByte(z, x).held = TRUE
      /\ x # "m1" => DecodeByte(z, x).held = FALSE
  BY ByteAdds
<1> QED  BY <1>4, <1>5, <1>6, <1>7, <1>8

LEMMA PutPlain ==
  ASSUME NEW h \in BOOLEAN, NEW x \in Chars, x # Newline
  PROVE  Put(h, x) \in Seq(Chars) /\ Plain(Put(h, x))
<1>1. Put(h, x) \in Seq(Chars)
  BY PutOf
<1>2. "?" \in Chars /\ "m" \in Chars /\ "?" # Newline /\ "m" # Newline
  BY DEF Chars, Newline
<1>3. Plain(<<>>)
  BY EmptySeq, PlainOf
<1>4. ASSUME NEW y \in Chars, y # Newline PROVE Plain(<<y>>)
  <2>1. Len(<<y>>) = 1 /\ <<y>>[1] = y
    BY OneLong
  <2>2. \A i \in 1..1 : i = 1
    OBVIOUS
  <2> QED  BY <1>4, <2>1, <2>2 DEF Plain
<1>5. Plain(<<"?", x>>)
  <2>1. Len(<<"?", x>>) = 2 /\ <<"?", x>>[1] = "?" /\ <<"?", x>>[2] = x
    BY <1>2, TwoLong
  <2>2. \A i \in 1..2 : i = 1 \/ i = 2
    OBVIOUS
  <2> QED  BY <1>2, <2>1, <2>2 DEF Plain
<1>6. Plain(<<"?">>) /\ Plain(<<"m">>) /\ Plain(<<x>>)
  BY <1>2, <1>4
<1>7. Put(h, x) \in {<<>>, <<"?">>, <<"m">>, <<x>>, <<"?", x>>}
  BY DEF Put
<1> QED  BY <1>1, <1>3, <1>5, <1>6, <1>7

LEMMA ReadByte ==
  ASSUME NEW t \in Seq(Chars), NEW x \in Chars
  PROVE  /\ x = "m1" => Out(t \o <<x>>).held = TRUE
         /\ x # "m1" => Out(t \o <<x>>).held = FALSE
         /\ x # Newline => /\ Read(t \o <<x>>).ended = Read(t).ended
                           /\ Read(t \o <<x>>).rest = Read(t).rest \o Put(Out(t).held, x)
<1>1. PICK h \in BOOLEAN : h = Out(t).held
  BY ReadOf
<1>2. PICK r \in Seq(Chars), es \in Seq(Seq(Chars)) : r = Read(t).rest /\ es = Read(t).ended
  BY ReadOf
<1>3. PICK one \in Seq(Chars) : one = <<x>>
  BY OneLong
<1>4. PICK e \in Outputs : e = DecodeBytes(h, one)
  BY BytesDecoded
<1>5. /\ e.out = Put(h, x) /\ (x = "m1" => e.held = TRUE) /\ (x # "m1" => e.held = FALSE)
  BY <1>3, <1>4, DecodeOne
<1>6. /\ Read(t \o one).ended = es \o Cut(r, e.out).ended /\ Read(t \o one).rest = Cut(r, e.out).rest
      /\ Out(t \o one).held = e.held
  BY <1>1, <1>2, <1>4, ReadJoined
<1>7. ASSUME x # Newline
      PROVE  Cut(r, e.out).ended = <<>> /\ Cut(r, e.out).rest = r \o e.out
  <2>1. e.out \in Seq(Chars) /\ Plain(e.out)
    BY <1>5, <1>7, PutPlain
  <2> QED  BY <2>1, CutPlain
<1>8. es \o <<>> = es
  BY ConcatEmptySeq
<1> QED  BY <1>1, <1>2, <1>3, <1>5, <1>6, <1>7, <1>8

\* A part of a slice that ends neither the description nor the line.
Carried(bytes, i, n) ==
  LET run == RunBefore(bytes, i + 1, 1) IN IF run = i THEN run + n ELSE run

LEMMA CarriedStep ==
  ASSUME NEW bytes \in Seq(Chars), NEW n \in Nat
  PROVE  /\ Carried(bytes, 0, n) = n
         /\ \A i \in Nat : RunBefore(bytes, i + 1, 1) \in 0..i /\ Carried(bytes, i, n) \in Nat
         /\ \A i \in Nat \ {0} :
              Carried(bytes, i, n) = IF bytes[i] = Backslash THEN Carried(bytes, i - 1, n) + 1 ELSE 0
<1>1. PICK one \in Nat \ {0} : one = 1
  OBVIOUS
<1>2. ASSUME NEW i \in Nat, i >= one
      PROVE  /\ RunBefore(bytes, one, one) = 0 /\ RunBefore(bytes, i, one) \in Nat
             /\ RunBefore(bytes, i + 1, one)
                  = IF bytes[i] = Backslash THEN RunBefore(bytes, i, one) + 1 ELSE 0
  BY <1>2, RunStep
<1> DEFINE R(i) == RunBefore(bytes, i + 1, one)
<1>3. R(0) = 0
  <2>1. 0 + 1 = one
    BY <1>1
  <2> QED  BY <1>1, <1>2, <2>1
<1>4. ASSUME NEW i \in Nat \ {0}
      PROVE  R(i) = IF bytes[i] = Backslash THEN R(i - 1) + 1 ELSE 0
  <2>1. i \in Nat /\ i >= one /\ (i - 1) + 1 = i
    BY <1>1, <1>4
  <2> QED  BY <1>2, <2>1
<1> HIDE DEF R
<1> DEFINE Bad == {i \in Nat : R(i) \notin 0..i}
<1>5. Bad = {}
  <2>1. SUFFICES ASSUME Bad # {} PROVE FALSE
    OBVIOUS
  <2>2. PICK m \in Bad : \A k \in Bad : m <= k
    BY <2>1, LeastOf
  <2>3. m \in Nat /\ R(m) \notin 0..m /\ m # 0
    BY <1>3
  <2>4. m - 1 \in Nat /\ ~(m <= m - 1) /\ m \in Nat \ {0}
    BY <2>3
  <2>5. R(m - 1) \in 0..(m - 1)
    BY <2>2, <2>4
  <2>6. R(m) = IF bytes[m] = Backslash THEN R(m - 1) + 1 ELSE 0
    BY <1>4, <2>4
  <2>7. R(m) \in 0..m
    BY <2>4, <2>5, <2>6
  <2> QED  BY <2>3, <2>7
<1>6. \A i \in Nat : R(i) \in 0..i
  BY <1>5
<1>7. \A i \in Nat : Carried(bytes, i, n) = IF R(i) = i THEN R(i) + n ELSE R(i)
  BY <1>1 DEF Carried, R
<1>8. Carried(bytes, 0, n) = n
  BY <1>3, <1>7
<1>9. \A i \in Nat : Carried(bytes, i, n) \in Nat
  <2>1. TAKE i \in Nat
  <2>2. PICK r \in Nat : r = R(i)
    BY <1>6
  <2>3. Carried(bytes, i, n) = IF r = i THEN r + n ELSE r
    BY <1>7, <2>2
  <2> QED  BY <2>3
<1>10. ASSUME NEW i \in Nat \ {0}
       PROVE  Carried(bytes, i, n) = IF bytes[i] = Backslash THEN Carried(bytes, i - 1, n) + 1 ELSE 0
  <2>1. i \in Nat /\ i - 1 \in Nat /\ R(i - 1) \in 0..(i - 1)
    BY <1>6, <1>10
  <2>2. /\ Carried(bytes, i, n) = IF R(i) = i THEN R(i) + n ELSE R(i)
        /\ Carried(bytes, i - 1, n) = IF R(i - 1) = i - 1 THEN R(i - 1) + n ELSE R(i - 1)
    BY <1>7, <2>1
  <2>3. CASE bytes[i] = Backslash
    <3>1. R(i) = R(i - 1) + 1
      BY <1>4, <2>3
    <3> QED  BY <1>10, <2>1, <2>2, <2>3, <3>1
  <2>4. CASE bytes[i] # Backslash
    <3>1. R(i) = 0
      BY <1>4, <2>4
    <3> QED  BY <1>10, <2>2, <2>4, <3>1
  <2> QED  BY <2>3, <2>4
<1>11. \A i \in Nat : RunBefore(bytes, i + 1, 1) \in 0..i
  BY <1>1, <1>6 DEF R
<1> QED  BY <1>8, <1>9, <1>10, <1>11

LEMMA PieceMore ==
  ASSUME NEW s \in Seq(Chars), NEW m \in 1..Len(s)
  PROVE  /\ SubSeq(s, 1, m) = SubSeq(s, 1, m - 1) \o <<s[m]>>
         /\ SubSeq(s, 1, m - 1) \in Seq(Chars) /\ s[m] \in Chars
<1>0. PICK k \in Nat : k = Len(s) /\ m \in 1..k
  BY Lens
<1>1. PICK one \in Nat \ {0} : one = 1 /\ m \in Nat /\ m >= 1 /\ m <= k
  BY <1>0
<1>2. PICK u \in Seq(Chars) : u = SubSeq(s, one, m - 1) /\ Len(u) = m - 1 /\ \A i \in 1..(m - 1) : u[i] = s[i]
  <2>1. m - 1 \in Nat /\ m - 1 <= Len(s)
    BY <1>0, <1>1
  <2>2. /\ SubSeq(s, one, m - 1) \in Seq(Chars)
        /\ Len(SubSeq(s, one, m - 1)) = IF one <= m - 1 THEN (m - 1) - one + 1 ELSE 0
        /\ \A i \in 1..((m - 1) - one + 1) : SubSeq(s, one, m - 1)[i] = s[one + i - 1]
    BY <2>1, Piece
  <2>3. (m - 1) - one + 1 = m - 1 /\ \A i \in 1..(m - 1) : one + i - 1 = i
    BY <1>1
  <2>4. (IF one <= m - 1 THEN (m - 1) - one + 1 ELSE 0) = m - 1
    BY <1>1
  <2>5. Len(SubSeq(s, one, m - 1)) = m - 1
    BY <2>2, <2>4
  <2>6. \A i \in 1..(m - 1) : SubSeq(s, one, m - 1)[i] = s[i]
    BY <2>2, <2>3
  <2> QED  BY <2>2, <2>5, <2>6
<1>3. PICK v \in Seq(Chars) : v = SubSeq(s, one, m) /\ Len(v) = m /\ \A i \in 1..m : v[i] = s[i]
  <2>1. m \in Nat /\ m <= Len(s)
    BY <1>0, <1>1
  <2>2. /\ SubSeq(s, one, m) \in Seq(Chars)
        /\ Len(SubSeq(s, one, m)) = IF one <= m THEN m - one + 1 ELSE 0
        /\ \A i \in 1..(m - one + 1) : SubSeq(s, one, m)[i] = s[one + i - 1]
    BY <2>1, Piece
  <2>3. m - one + 1 = m /\ \A i \in 1..m : one + i - 1 = i
    BY <1>1
  <2>4. (IF one <= m THEN m - one + 1 ELSE 0) = m
    BY <1>1
  <2>5. Len(SubSeq(s, one, m)) = m
    BY <2>2, <2>4
  <2>6. \A i \in 1..m : SubSeq(s, one, m)[i] = s[i]
    BY <2>2, <2>3
  <2> QED  BY <2>2, <2>5, <2>6
<1>4. PICK x \in Chars : x = s[m]
  BY <1>0, <1>1, Lens
<1>5. PICK w \in Seq(Chars) : w = u \o <<x>>
  BY Longer
<1>6. Len(w) = Len(u) + 1 /\ (\A j \in 1..Len(u) : w[j] = u[j]) /\ w[Len(u) + 1] = x
  BY <1>5, Longer
<1>7. ASSUME NEW i \in 1..m PROVE v[i] = w[i]
  <2>1. CASE i \in 1..(m - 1)
    BY <1>2, <1>3, <1>6, <2>1
  <2>2. CASE i = m
    <3>1. Len(u) + 1 = m
      BY <1>1, <1>2
    <3> QED  BY <1>3, <1>4, <1>6, <1>7, <2>2, <3>1
  <2> QED  BY <1>1, <2>1, <2>2
<1>8. Len(w) = m
  BY <1>1, <1>2, <1>6
<1>9. v = w
  BY <1>3, <1>7, <1>8, SeqEqual
<1> QED  BY <1>1, <1>2, <1>3, <1>4, <1>5, <1>9

LEMMA SkipBytes ==
  ASSUME NEW t \in Seq(Chars), NEW bytes \in Seq(Chars), NEW p, NEW n \in Nat,
         Skipping(p, n, Read(t).rest, Out(t).held), NEW m \in 0..Len(bytes),
         \A j \in 1..m : bytes[j] # Newline /\ (bytes[j] = Quote => ~Even(Carried(bytes, j - 1, n)))
  PROVE  LET u == t \o SubSeq(bytes, 1, m)
         IN  /\ Read(u).ended = Read(t).ended
             /\ Skipping(p, Carried(bytes, m, n), Read(u).rest, Out(u).held)
<1> DEFINE U(i) == t \o SubSeq(bytes, 1, i)
           Good(i) == /\ Read(U(i)).ended = Read(t).ended
                      /\ Skipping(p, Carried(bytes, i, n), Read(U(i)).rest, Out(U(i)).held)
           Bad == {i \in 0..m : ~Good(i)}
<1>1. Len(bytes) \in Nat
  BY Lens
<1>2. Good(0)
  <2>1. SubSeq(bytes, 1, 0) = <<>>
    BY SubSeqEmpty
  <2>2. U(0) = t
    BY <2>1, ConcatEmptySeq
  <2>3. Carried(bytes, 0, n) = n
    BY CarriedStep
  <2> QED  BY <2>2, <2>3
<1>3. ASSUME NEW i \in 1..m, Good(i - 1) PROVE Good(i)
  <2>1. i \in 1..Len(bytes)
    BY <1>1
  <2>2. PICK x \in Chars, a \in Seq(Chars) :
          x = bytes[i] /\ a = SubSeq(bytes, 1, i - 1) /\ SubSeq(bytes, 1, i) = a \o <<x>>
    BY <2>1, PieceMore
  <2>3. PICK u \in Seq(Chars) : u = t \o a /\ u = U(i - 1)
    BY <2>2, Joined
  <2>4. U(i) = u \o <<x>>
    <3>1. (t \o a) \o <<x>> = t \o (a \o <<x>>)
      BY AddedLast, SMTT(40)
    <3>2. U(i) = t \o (a \o <<x>>)
      BY <2>2
    <3> QED  BY <2>3, <3>1, <3>2
  <2>5. PICK h \in BOOLEAN, l \in Seq(Chars) : h = Out(u).held /\ l = Read(u).rest
    BY ReadOf
  <2>6. i - 1 \in Nat /\ i \in Nat \ {0}
    OBVIOUS
  <2>7. PICK c \in Nat : c = Carried(bytes, i - 1, n)
    BY <2>6, CarriedStep
  <2>8. Skipping(p, c, l, h) /\ Read(u).ended = Read(t).ended
    BY <1>3, <2>3, <2>5, <2>7
  <2>9. x # Newline /\ (x = Quote => ~Even(c))
    BY <2>2, <2>7
  <2>10. PICK after \in BOOLEAN : after = (x = "m1")
    OBVIOUS
  <2>14. Skipping(p, IF x = Backslash THEN c + 1 ELSE 0, l \o Put(h, x), after)
    <3>1. Skipping(p, IF x = Backslash THEN c + 1 ELSE 0, l \o Put(h, x), x = "m1")
      BY <2>8, <2>9, SkipByte
    <3> QED  BY <2>10, <3>1, Zenon
  <2>11. Carried(bytes, i, n) = IF x = Backslash THEN c + 1 ELSE 0
    BY <2>2, <2>6, <2>7, CarriedStep, ZenonT(60)
  <2>12. /\ Read(u \o <<x>>).ended = Read(t).ended
         /\ Read(u \o <<x>>).rest = l \o Put(h, x)
    BY <2>5, <2>8, <2>9, ReadByte
  <2>13. Out(u \o <<x>>).held = after
    <3>1. /\ x = "m1" => Out(u \o <<x>>).held = TRUE
          /\ x # "m1" => Out(u \o <<x>>).held = FALSE
      BY ReadByte
    <3> QED  BY <2>10, <3>1, Zenon
  <2>15. Skipping(p, Carried(bytes, i, n), Read(u \o <<x>>).rest, Out(u \o <<x>>).held)
    BY <2>11, <2>12, <2>13, <2>14, Zenon
  <2> QED  BY <2>4, <2>12, <2>15, Zenon
<1> HIDE DEF Good
<1>4. Bad = {}
  <2>1. SUFFICES ASSUME Bad # {} PROVE FALSE
    OBVIOUS
  <2>2. Bad \in SUBSET Nat
    BY <1>1
  <2>3. PICK k \in Bad : \A j \in Bad : k <= j
    BY <2>1, <2>2, LeastOf
  <2>4. k \in 0..m /\ ~Good(k)
    OBVIOUS
  <2>5. k \in 1..m /\ k - 1 \in 0..m /\ ~(k <= k - 1)
    BY <1>1, <1>2, <2>4
  <2>6. Good(k - 1)
    BY <2>3, <2>5
  <2> QED  BY <1>3, <2>4, <2>5, <2>6
<1>5. Good(m)
  BY <1>1, <1>4
<1> QED  BY <1>5 DEF Good

-----------------------------------------------------------------------------
(* Where a skipped description ends.                                        *)

LEMMA OpenClosed ==
  ASSUME NEW p \in Seq(Chars), NEW l \in Seq(Chars), OpenLong(p, l), NEW x \in Chars, x = Quote, Even(Run(l))
  PROVE  Kept(p \o <<x>>, l \o <<x>>)
<1>1. PICK t \in Seq(Chars) : t = l \o <<x>>
  BY Longer
<1>2. PICK k \in Nat : /\ k = Len(l) /\ Len(t) = k + 1 /\ \A i \in 1..k : t[i] = l[i]
  BY <1>1, Longer, Lens
<1>3. PICK from \in 3..(k + 1) :
        /\ from = ValueStart(l) /\ Closing(l, from) = {} /\ ~Small(l, from)
        /\ k + 1 - from > MaxScanned /\ p = SubSeq(l, 1, from - 1)
  BY <1>2, ValuePlace DEF OpenLong
<1>4. MaxScanned \in Nat \ {0}
  BY DecoderAssumption DEF DecoderAssumption
<1>5. ValueStart(t) = from
  <2>1. PICK one \in Seq(Chars) : one = <<x>>
    BY OneLong
  <2>2. ValueStart(l \o one) = ValueStart(l)
    BY <1>3, ValueStays
  <2> QED  BY <1>1, <1>3, <2>1, <2>2
<1>6. Closing(t, from) = {k + 1}
  <2>1. from \in 1..(Len(l) + 1)
    BY <1>2, <1>3
  <2>2. Even(RunBefore(l, Len(l) + 1, from))
    BY <1>3 DEF Run
  <2> QED  BY <1>1, <1>2, <1>3, <2>1, <2>2, ClosingMore
<1>7. ~Small(t, from)
  <2>1. k >= from + 1 /\ from \in 1..k /\ from + 1 \in 1..k
    BY <1>3, <1>4
  <2> QED  BY <1>2, <1>3, <2>1 DEF Small
<1>8. SubSeq(t, 1, from - 1) = p
  <2>1. from - 1 \in Nat /\ from - 1 <= k /\ from - 1 <= Len(t) /\ 1 <= from - 1 /\ 1 \in Nat \ {0}
    BY <1>2, <1>3
  <2>2. \A i \in 1..(from - 1) : t[i] = l[i]
    BY <1>2, <2>1
  <2> QED  BY <1>2, <1>3, <2>1, <2>2, SameStart
<1>9. From(t, k + 1) = <<x>>
  <2>1. Len(t) = k + 1 /\ Len(l) = k /\ k + 1 \in 1..(Len(l) + 1)
    BY <1>2
  <2>2. From(t, k + 1) = From(l, k + 1) \o <<x>>
    BY <1>1, <2>1, FromMore
  <2>3. From(l, k + 1) = <<>>
    <3>1. From(l, k + 1) \in Seq(Chars) /\ Len(From(l, k + 1)) = Len(l) + 1 - (k + 1)
      BY <2>1, ValueOf
    <3>2. Len(l) + 1 - (k + 1) = 0
      BY <1>2
    <3> QED  BY <3>1, <3>2, Lens
  <2>4. <<x>> \in Seq(Chars)
    BY OneLong
  <2> QED  BY <2>2, <2>3, <2>4, ConcatEmptySeq
<1>10. PICK c : c = First(Closing(t, from))
  OBVIOUS
<1>11. /\ c \in Closing(t, from)
       /\ TooLong(t) <=> c - from > MaxScanned /\ ~Small(t, from)
       /\ Emptied(t) = SubSeq(t, 1, from - 1) \o From(t, c)
  <2>1. from # 0 /\ Closing(t, from) # {}
    BY <1>3, <1>6
  <2> QED  BY <1>5, <1>10, <2>1, TooLongOf
<1>12. c = k + 1
  BY <1>6, <1>11
<1>13. TooLong(t) /\ Emptied(t) = p \o <<x>>
  <2>1. c - from > MaxScanned
    BY <1>3, <1>12
  <2>2. TooLong(t)
    BY <1>7, <1>11, <2>1
  <2>3. Emptied(t) = SubSeq(t, 1, from - 1) \o From(t, k + 1)
    BY <1>11, <1>12
  <2> QED  BY <1>8, <1>9, <2>2, <2>3
<1> QED  BY <1>1, <1>5, <1>6, <1>13 DEF Kept

LEMMA OpenReturned ==
  ASSUME NEW p \in Seq(Chars), NEW l \in Seq(Chars), OpenLong(p, l)
  PROVE  Returned(p, l) /\ p # <<>> /\ l # <<>>
<1>1. PICK from : from = ValueStart(l)
  OBVIOUS
<1>2. /\ from # 0 /\ Closing(l, from) = {} /\ ~Small(l, from)
      /\ Len(l) + 1 - from > MaxScanned /\ p = SubSeq(l, 1, from - 1)
  BY <1>1 DEF OpenLong
<1>3. Returned(p, l)
  BY <1>1, <1>2, TooLongOf DEF Returned
<1>4. Len(p) + 1 = from /\ from \in 3..(Len(l) + 1)
  BY <1>1, <1>2, ValueOfCut, TooLongOf
<1>5. p # <<>>
  <2>1. Len(p) \in Nat /\ Len(l) \in Nat
    BY Lens
  <2>2. Len(p) # 0
    BY <1>4, <2>1
  <2> QED  BY <2>2, Lens
<1> QED  BY <1>3, <1>5, ReturnedOf

LEMMA OpenCut ==
  ASSUME NEW p \in Seq(Chars), NEW l \in Seq(Chars), OpenLong(p, l),
         NEW chars \in Seq(Chars), chars # <<>>,
         chars[1] = Newline \/ (chars[1] = Quote /\ Even(Run(l)))
  PROVE  /\ SameLines(Cut(p, chars).ended, Cut(l, chars).ended)
         /\ Kept(Cut(p, chars).rest, Cut(l, chars).rest)
         /\ ~Plain(chars) => Cut(p, chars).rest = Cut(l, chars).rest
<1>1. PICK x \in Chars : x = chars[1]
  <2>1. Len(chars) \in Nat /\ Len(chars) # 0
    BY Lens
  <2>2. 1 \in 1..Len(chars)
    BY <2>1
  <2> QED  BY <2>2, Lens
<1>2. PICK one \in Seq(Chars) : one = <<x>>
  BY OneLong
<1>3. PICK t \in Seq(Chars) : chars = one \o t
  BY <1>1, <1>2, FirstTaken
<1>4. PICK none \in Seq(Chars) : none = <<>>
  BY EmptySeq
<1>5. one = none \o <<x>>
  BY <1>2, <1>4, ConcatEmptySeq
<1>6. ASSUME NEW s \in Seq(Chars)
      PROVE  /\ Cut(s, chars).ended = Cut(s, one).ended \o Cut(Cut(s, one).rest, t).ended
             /\ Cut(s, chars).rest = Cut(Cut(s, one).rest, t).rest
             /\ x # Newline => Cut(s, one).ended = <<>> /\ Cut(s, one).rest = s \o <<x>>
             /\ x = Newline => /\ Cut(s, one).ended = IF s = <<>> THEN <<>> ELSE <<s>>
                               /\ Cut(s, one).rest = <<>>
  <2>1. /\ Cut(s, one \o t).ended = Cut(s, one).ended \o Cut(Cut(s, one).rest, t).ended
        /\ Cut(s, one \o t).rest = Cut(Cut(s, one).rest, t).rest
    BY CutJoined, ZenonT(60)
  <2>2. PICK z \in Cuts : z = [ended |-> <<>>, rest |-> s]
    BY NoLines DEF Cuts
  <2>3. Cut(s, one) = CutAt(z, x)
    <3>1. Cut(s, none \o <<x>>) = CutAt(Cut(s, none), x)
      BY CutMore
    <3>2. Cut(s, none) = z
      BY <1>4, <2>2, CutNone
    <3> QED  BY <1>5, <3>1, <3>2
  <2>4. z.ended = <<>> /\ z.rest = s
    BY <2>2
  <2>5. /\ x # Newline => CutAt(z, x).ended = z.ended /\ CutAt(z, x).rest = z.rest \o <<x>>
        /\ x = Newline => /\ CutAt(z, x).ended = IF z.rest = <<>> THEN z.ended ELSE z.ended \o <<z.rest>>
                          /\ CutAt(z, x).rest = <<>>
    BY CutAtType
  <2>6. <<>> \o <<s>> = <<s>>
    <3>1. <<s>> \in Seq(Seq(Chars))
      BY OneLong
    <3> QED  BY <3>1, ConcatEmptySeq
  <2> QED  BY <1>3, <2>1, <2>3, <2>4, <2>5, <2>6
<1>7. CASE x = Newline
  <2>1. p # <<>> /\ l # <<>> /\ Returned(p, l)
    BY OpenReturned
  <2>2. /\ Cut(p, one).ended = <<p>> /\ Cut(p, one).rest = none
        /\ Cut(l, one).ended = <<l>> /\ Cut(l, one).rest = none
    BY <1>4, <1>6, <1>7, <2>1
  <2>3. Kept(none, none)
    BY DEF Kept
  <2>4. PICK c \in Cuts : c = Cut(none, t)
    BY CutType
  <2>5. PICK ended \in Seq(Seq(Chars)) : ended = c.ended
    BY DEF Cuts
  <2>6. SameLines(ended, ended) /\ Kept(c.rest, c.rest)
    BY <2>3, <2>4, <2>5, KeptCut
  <2>7. <<p>> \in Seq(Seq(Chars)) /\ <<l>> \in Seq(Seq(Chars)) /\ SameLines(<<p>>, <<l>>)
    BY <2>1, SameLine
  <2>8. SameLines(<<p>> \o ended, <<l>> \o ended)
    BY <2>6, <2>7, SameLinesJoined
  <2>9. /\ Cut(p, chars).ended = <<p>> \o ended /\ Cut(p, chars).rest = c.rest
        /\ Cut(l, chars).ended = <<l>> \o ended /\ Cut(l, chars).rest = c.rest
    BY <1>6, <2>2, <2>4, <2>5, ZenonT(60)
  <2> QED  BY <2>6, <2>8, <2>9
<1>8. CASE x # Newline
  <2>1. x = Quote /\ Even(Run(l))
    BY <1>1, <1>8
  <2>2. PICK px \in Seq(Chars), lx \in Seq(Chars) : px = p \o <<x>> /\ lx = l \o <<x>>
    BY Longer
  <2>3. Kept(px, lx)
    BY <2>1, <2>2, OpenClosed
  <2>4. PICK a \in Cuts, b \in Cuts : a = Cut(px, t) /\ b = Cut(lx, t)
    BY CutType
  <2>5. SameLines(a.ended, b.ended) /\ Kept(a.rest, b.rest) /\ (~Plain(t) => a.rest = b.rest)
    BY <2>3, <2>4, KeptCut
  <2>6. <<>> \o a.ended = a.ended /\ <<>> \o b.ended = b.ended
    <3>1. a.ended \in Seq(Seq(Chars)) /\ b.ended \in Seq(Seq(Chars))
      BY DEF Cuts
    <3> QED  BY <3>1, ConcatEmptySeq
  <2>7. Cut(p, chars).ended = a.ended /\ Cut(p, chars).rest = a.rest
    BY <1>6, <1>8, <2>2, <2>4, <2>6
  <2>8. Cut(l, chars).ended = b.ended /\ Cut(l, chars).rest = b.rest
    BY <1>6, <1>8, <2>2, <2>4, <2>6
  <2>9. Plain(one)
    BY <1>4, <1>5, <1>8, PlainOf
  <2>10. ~Plain(chars) => ~Plain(t)
    BY <1>3, <2>9, PlainJoined
  <2> QED  BY <2>5, <2>7, <2>8, <2>10
<1> QED  BY <1>7, <1>8


LEMMA QuotePlace ==
  ASSUME NEW bytes \in Seq(Chars), NEW n \in Nat, NEW limit \in Nat
  PROVE  LET close == ClosingQuoteAt(bytes, limit, n)
             Ends(i) == bytes[i] = Quote /\ Even(Carried(bytes, i - 1, n))
         IN  /\ close \in Nat
             /\ close = 0 => \A i \in 1..(limit - 1) : ~Ends(i)
             /\ close # 0 => close \in 1..(limit - 1) /\ Ends(close) /\ \A i \in 1..(close - 1) : ~Ends(i)
<1> DEFINE Ends(i) == bytes[i] = Quote /\ Even(Carried(bytes, i - 1, n))
           S == {i \in 1..(limit - 1) : Ends(i)}
<1>1. \A i \in 1..(limit - 1) :
        Ends(i) <=> bytes[i] = Quote /\ LET run == RunBefore(bytes, i, 1)
                                        IN  Even(IF run = i - 1 THEN run + n ELSE run)
  <2>1. TAKE i \in 1..(limit - 1)
  <2>2. (i - 1) + 1 = i
    OBVIOUS
  <2> QED  BY <2>2 DEF Carried
<1>2. ClosingQuoteAt(bytes, limit, n) = First(S)
  BY <1>1 DEF ClosingQuoteAt
<1>3. S \in SUBSET (Nat \ {0})
  OBVIOUS
<1>4. PICK c \in Nat : c = First(S)
  BY <1>3, FirstOf
<1>5. /\ c = 0 <=> S = {}
      /\ S # {} => c \in S /\ \A y \in S : c <= y
  BY <1>3, <1>4, FirstOf
<1>6. ASSUME c # 0 PROVE c \in 1..(limit - 1) /\ Ends(c) /\ \A i \in 1..(c - 1) : ~Ends(i)
  <2>1. c \in S /\ \A y \in S : c <= y
    BY <1>5, <1>6
  <2>2. c \in 1..(limit - 1) /\ Ends(c)
    BY <2>1
  <2>3. ASSUME NEW i \in 1..(c - 1) PROVE ~Ends(i)
    <3>1. i \in 1..(limit - 1) /\ ~(c <= i)
      BY <2>2
    <3>2. i \notin S
      BY <2>1, <3>1
    <3> QED  BY <3>1, <3>2
  <2> QED  BY <2>2, <2>3
<1>7. c = 0 => \A i \in 1..(limit - 1) : ~Ends(i)
  BY <1>5
<1> HIDE DEF S
<1> QED  BY <1>2, <1>4, <1>6, <1>7

LEMMA LinePlace ==
  ASSUME NEW bytes \in Seq(Chars)
  PROVE  LET lineEnd == IndexOf(bytes, Newline, 1)
         IN  /\ lineEnd \in Nat
             /\ lineEnd = 0 => \A i \in 1..Len(bytes) : bytes[i] # Newline
             /\ lineEnd # 0 => /\ lineEnd \in 1..Len(bytes) /\ bytes[lineEnd] = Newline
                               /\ \A i \in 1..(lineEnd - 1) : bytes[i] # Newline
<1> DEFINE S == {i \in 1..Len(bytes) : bytes[i] = Newline}
<1>1. IndexOf(bytes, Newline, 1) = First(S)
  BY DEF IndexOf
<1>2. S \in SUBSET (Nat \ {0}) /\ Len(bytes) \in Nat
  BY Lens
<1>3. PICK c \in Nat : c = First(S)
  BY <1>2, FirstOf
<1>4. /\ c = 0 <=> S = {}
      /\ S # {} => c \in S /\ \A y \in S : c <= y
  BY <1>2, <1>3, FirstOf
<1>5. ASSUME c # 0
      PROVE  c \in 1..Len(bytes) /\ bytes[c] = Newline /\ \A i \in 1..(c - 1) : bytes[i] # Newline
  <2>1. c \in S /\ \A y \in S : c <= y
    BY <1>4, <1>5
  <2>2. c \in 1..Len(bytes) /\ bytes[c] = Newline
    BY <2>1
  <2>3. ASSUME NEW i \in 1..(c - 1) PROVE bytes[i] # Newline
    <3>1. i \in 1..Len(bytes) /\ ~(c <= i)
      BY <1>2, <2>2
    <3>2. i \notin S
      BY <2>1, <3>1
    <3> QED  BY <3>1, <3>2
  <2> QED  BY <2>2, <2>3
<1>6. c = 0 => \A i \in 1..Len(bytes) : bytes[i] # Newline
  BY <1>4
<1> HIDE DEF S
<1> QED  BY <1>1, <1>3, <1>5, <1>6

\* A slice that is skipped, and where the rest of one is read from.
Skips(bytes, i, n) == bytes[i] # Newline /\ (bytes[i] = Quote => ~Even(Carried(bytes, i - 1, n)))

LEMMA AllSkipped ==
  ASSUME NEW bytes \in Seq(Chars), dec.carried \in Nat, StillSkipping(bytes)
  PROVE  \A i \in 1..Len(bytes) : Skips(bytes, i, dec.carried)
<1>1. PICK n \in Nat, k \in Nat : n = dec.carried /\ k = Len(bytes)
  BY Lens
<1>2. \A i \in 1..k : bytes[i] # Newline
  BY <1>1, LinePlace DEF StillSkipping
<1>3. PICK limit \in Nat : limit = k + 1 /\ limit - 1 = k
  BY <1>1
<1>4. ClosingQuoteAt(bytes, limit, n) = 0
  BY <1>1, <1>3 DEF StillSkipping
<1>5. \A i \in 1..(limit - 1) : ~(bytes[i] = Quote /\ Even(Carried(bytes, i - 1, n)))
  BY <1>4, QuotePlace
<1> QED  BY <1>1, <1>2, <1>3, <1>5 DEF Skips

LEMMA ResumedFrom ==
  ASSUME NEW bytes \in Seq(Chars), dec.carried \in Nat, dec.skipping, ~StillSkipping(bytes)
  PROVE  \E s \in 1..Len(bytes) :
           /\ Resumed(bytes) = From(bytes, s)
           /\ bytes[s] = Newline \/ (bytes[s] = Quote /\ Even(Carried(bytes, s - 1, dec.carried)))
           /\ \A i \in 1..(s - 1) : Skips(bytes, i, dec.carried)
<1>1. PICK n \in Nat, k \in Nat : n = dec.carried /\ k = Len(bytes)
  BY Lens
<1>2. PICK e \in Nat : e = IndexOf(bytes, Newline, 1)
  BY LinePlace
<1>3. /\ e = 0 => \A i \in 1..k : bytes[i] # Newline
      /\ e # 0 => /\ e \in 1..k /\ bytes[e] = Newline
                  /\ \A i \in 1..(e - 1) : bytes[i] # Newline
  BY <1>1, <1>2, LinePlace
<1>4. PICK limit \in Nat : limit = (IF e = 0 THEN Len(bytes) + 1 ELSE e) /\ limit <= k + 1
                           /\ \A i \in 1..(limit - 1) : bytes[i] # Newline
  <2>1. CASE e = 0
    <3>1. (k + 1) - 1 = k
      OBVIOUS
    <3> QED  BY <1>1, <1>3, <2>1, <3>1
  <2>2. CASE e # 0
    BY <1>3, <2>2
  <2> QED  BY <2>1, <2>2
<1>5. PICK c \in Nat : c = ClosingQuoteAt(bytes, limit, n)
  BY QuotePlace
<1>6. /\ c = 0 => \A i \in 1..(limit - 1) : ~(bytes[i] = Quote /\ Even(Carried(bytes, i - 1, n)))
      /\ c # 0 => /\ c \in 1..(limit - 1)
                  /\ bytes[c] = Quote /\ Even(Carried(bytes, c - 1, n))
                  /\ \A i \in 1..(c - 1) : ~(bytes[i] = Quote /\ Even(Carried(bytes, i - 1, n)))
  BY <1>5, QuotePlace
<1>7. PICK s : s = IF c # 0 THEN c ELSE e
  OBVIOUS
<1>8. Resumed(bytes) = From(bytes, s)
  BY <1>1, <1>2, <1>4, <1>5, <1>7 DEF Resumed
<1>9. CASE c # 0
  <2>1. s = c /\ c \in 1..k
    BY <1>4, <1>6, <1>7, <1>9
  <2>2. \A i \in 1..(c - 1) : i \in 1..(limit - 1)
    BY <1>6, <1>9
  <2>3. \A i \in 1..(c - 1) : Skips(bytes, i, n)
    BY <1>4, <1>6, <1>9, <2>2 DEF Skips
  <2> QED  BY <1>1, <1>6, <1>8, <1>9, <2>1, <2>3
<1>10. CASE c = 0
  <2>1. e # 0
    <3>1. SUFFICES ASSUME e = 0 PROVE FALSE
      OBVIOUS
    <3>2. limit = Len(bytes) + 1
      BY <1>4, <3>1
    <3>3. StillSkipping(bytes)
      BY <1>1, <1>2, <1>5, <1>10, <3>1, <3>2 DEF StillSkipping
    <3> QED  BY <3>3
  <2>2. s = e /\ limit = e
    BY <1>4, <1>7, <1>10, <2>1
  <2>3. \A i \in 1..(e - 1) : Skips(bytes, i, n)
    BY <1>4, <1>6, <1>10, <2>2 DEF Skips
  <2> QED  BY <1>1, <1>3, <1>8, <2>1, <2>2, <2>3
<1> QED  BY <1>9, <1>10


LEMMA CutPlainFirst ==
  ASSUME NEW l \in Seq(Chars), NEW a \in Seq(Chars), NEW b \in Seq(Chars), Plain(a)
  PROVE  Cut(l, a \o b).ended = Cut(l \o a, b).ended /\ Cut(l, a \o b).rest = Cut(l \o a, b).rest
<1>1. PICK m \in Seq(Chars) : m = l \o a
  BY Joined
<1>2. Cut(l, a).ended = <<>> /\ Cut(l, a).rest = m
  BY <1>1, CutPlain
<1>3. PICK g \in Cuts : g = Cut(m, b)
  BY CutType
<1>4. g.ended \in Seq(Seq(Chars))
  BY DEF Cuts
<1>5. <<>> \o g.ended = g.ended
  BY <1>4, ConcatEmptySeq
<1>6. Cut(l, a \o b).ended = Cut(l, a).ended \o Cut(Cut(l, a).rest, b).ended
      /\ Cut(l, a \o b).rest = Cut(Cut(l, a).rest, b).rest
  BY CutJoined, ZenonT(60)
<1> QED  BY <1>1, <1>2, <1>3, <1>5, <1>6

\* What is cut out of more bytes, from what was pending of those before them.
Grows(t, u, p, d, settled) ==
  \E ended \in Seq(Seq(Chars)) :
    /\ Read(u).ended = Read(t).ended \o ended /\ SameLines(Cut(p, d.out).ended, ended)
    /\ Kept(Cut(p, d.out).rest, Read(u).rest)
    /\ ~Plain(d.out) \/ ~settled => Cut(p, d.out).rest = Read(u).rest
    /\ Out(u).held = d.held

LEMMA GrowsOn ==
  ASSUME NEW t \in Seq(Chars), NEW bytes \in Seq(Chars), NEW p \in Seq(Chars), NEW settled \in BOOLEAN,
         Kept(p, Read(t).rest), ~settled => p = Read(t).rest
  PROVE  Grows(t, t \o bytes, p, DecodeBytes(Out(t).held, bytes), settled)
<1>1. PICK l \in Seq(Chars), h \in BOOLEAN : l = Read(t).rest /\ h = Out(t).held
  BY ReadOf
<1>2. PICK d \in Outputs : d = DecodeBytes(h, bytes)
  BY BytesDecoded
<1>3. PICK out \in Seq(Chars) : out = d.out
  BY DEF Outputs
<1>4. PICK c \in Cuts : c = Cut(l, out)
  BY CutType
<1>5. PICK ended \in Seq(Seq(Chars)) : ended = c.ended
  BY DEF Cuts
<1>6. Read(t \o bytes).ended = Read(t).ended \o ended /\ Read(t \o bytes).rest = c.rest
      /\ Out(t \o bytes).held = d.held
  <2>1. c = Cut(l, d.out)
    BY <1>3, <1>4
  <2>2. Read(t \o bytes).ended = Read(t).ended \o c.ended /\ Read(t \o bytes).rest = c.rest
        /\ Out(t \o bytes).held = d.held
    BY <1>1, <1>2, <2>1, ReadJoined
  <2> QED  BY <1>5, <2>2
<1>7. /\ SameLines(Cut(p, out).ended, ended) /\ Kept(Cut(p, out).rest, c.rest)
      /\ ~Plain(out) \/ p = l => Cut(p, out).rest = c.rest
  BY <1>1, <1>4, <1>5, KeptCut
<1> QED  BY <1>1, <1>2, <1>3, <1>6, <1>7 DEF Grows

LEMMA GrowsOpen ==
  ASSUME NEW t \in Seq(Chars), NEW b \in Seq(Chars), b # <<>>, NEW p \in Seq(Chars), NEW n \in Nat,
         Skipping(p, n, Read(t).rest, Out(t).held),
         b[1] = Newline \/ (b[1] = Quote /\ Even(n))
  PROVE  Grows(t, t \o b, p, DecodeBytes(FALSE, b), TRUE)
<1>1. PICK l \in Seq(Chars), h \in BOOLEAN : l = Read(t).rest /\ h = Out(t).held
  BY ReadOf
<1>2. OpenLong(p, l) /\ (Even(n) <=> h \/ Even(Run(l)))
  BY <1>1 DEF Skipping, Escapes, Run
<1>3. PICK d \in Outputs : d = DecodeBytes(FALSE, b)
  BY BytesDecoded
<1>4. PICK out \in Seq(Chars) : out = d.out
  BY DEF Outputs
<1>5. Len(b) >= 1
  <2>1. Len(b) \in Nat /\ Len(b) # 0
    BY Lens
  <2> QED  BY <2>1
<1>6. out # <<>> /\ out[1] = b[1]
  <2>1. b[1] \in {Quote, Newline}
    OBVIOUS
  <2>2. Len(out) >= 1 /\ out[1] = b[1]
    BY <1>3, <1>4, <1>5, <2>1, BytesDecoded
  <2>3. out # <<>>
    <3>1. Len(out) # 0 /\ Len(out) \in Nat
      BY <2>2, Lens
    <3> QED  BY <3>1, Lens
  <2> QED  BY <2>2, <2>3
<1>7. PICK u \in Chars : u = "?" /\ u # Quote /\ u # Backslash /\ u # Newline
  BY DEF Chars, Quote, Backslash, Newline
<1>8. PICK e \in Outputs : e = DecodeBytes(h, b)
  BY BytesDecoded
<1>9. PICK c \in Cuts : c = Cut(l, e.out)
  <2>1. e.out \in Seq(Chars)
    BY DEF Outputs
  <2> QED  BY <2>1, CutType
<1>10. Read(t \o b).ended = Read(t).ended \o c.ended /\ Read(t \o b).rest = c.rest
       /\ Out(t \o b).held = e.held
  BY <1>1, <1>8, <1>9, ReadJoined
<1>11. \E m \in Seq(Chars) : /\ OpenLong(p, m) /\ (Even(n) => Even(Run(m)))
                             /\ c.ended = Cut(m, out).ended /\ c.rest = Cut(m, out).rest
                             /\ e.held = d.held
  <2>1. CASE ~h
    <3>1. DecodeBytes(h, b) = DecodeBytes(FALSE, b)
      BY <2>1
    <3>2. e = d
      BY <1>3, <1>8, <3>1
    <3>3. c = Cut(l, out)
      BY <1>4, <1>9, <3>2
    <3>4. Even(n) => Even(Run(l))
      BY <1>2, <2>1
    <3> QED  BY <1>2, <3>2, <3>3, <3>4
  <2>2. CASE h
    <3>1. b[1] \notin {"m1", "m2"}
      BY DEF Quote, Newline
    <3>2. DecodeBytes(TRUE, b).out = <<"?">> \o DecodeBytes(FALSE, b).out
          /\ DecodeBytes(TRUE, b).held = DecodeBytes(FALSE, b).held
      BY <3>1, HeldFirst
    <3>3. DecodeBytes(h, b) = DecodeBytes(TRUE, b)
      BY <2>2
    <3>4. e.held = d.held /\ e.out = <<"?">> \o out
      BY <1>3, <1>4, <1>8, <3>2, <3>3
    <3>5. PICK m \in Seq(Chars), one \in Seq(Chars) : m = l \o <<u>> /\ one = <<u>>
      BY Longer, OneLong
    <3>6. OpenLong(p, m) /\ Run(m) = 0
      BY <1>2, <1>7, <3>5, OpenLongStep
    <3>7. Plain(one)
      <4>1. PICK none \in Seq(Chars) : none = <<>> /\ Plain(none)
        BY EmptySeq, PlainOf
      <4>2. none \o <<u>> = one
        BY <3>5, <4>1, ConcatEmptySeq
      <4> QED  BY <1>7, <4>1, <4>2, PlainOf
    <3>9. Cut(l, one \o out).ended = Cut(m, out).ended /\ Cut(l, one \o out).rest = Cut(m, out).rest
      <4>1. m = l \o one
        BY <3>5
      <4> QED  BY <3>7, <4>1, CutPlainFirst
    <3>10. PICK g \in Cuts : g = Cut(m, out)
      BY CutType
    <3>12. c = Cut(l, one \o out)
      BY <1>7, <1>9, <3>4, <3>5
    <3>13. c.ended = g.ended /\ c.rest = g.rest
      BY <3>9, <3>10, <3>12
    <3> QED  BY <3>4, <3>6, <3>10, <3>13, EvenStep
  <2> QED  BY <2>1, <2>2
<1>12. PICK m \in Seq(Chars) : /\ OpenLong(p, m) /\ (Even(n) => Even(Run(m)))
                               /\ c.ended = Cut(m, out).ended /\ c.rest = Cut(m, out).rest
                               /\ e.held = d.held
  BY <1>11
<1>13. /\ SameLines(Cut(p, out).ended, Cut(m, out).ended)
       /\ Kept(Cut(p, out).rest, Cut(m, out).rest)
       /\ ~Plain(out) => Cut(p, out).rest = Cut(m, out).rest
  BY <1>6, <1>12, OpenCut
<1>14. c.ended \in Seq(Seq(Chars))
  BY DEF Cuts
<1> QED  BY <1>3, <1>4, <1>10, <1>12, <1>13, <1>14 DEF Grows

LEMMA SplitAt ==
  ASSUME NEW s \in Seq(Chars), NEW i \in 1..Len(s)
  PROVE  \E a \in Seq(Chars), b \in Seq(Chars) :
           /\ a = SubSeq(s, 1, i - 1) /\ b = From(s, i) /\ s = a \o b
           /\ b # <<>> /\ b[1] = s[i]
<1>1. PICK k \in Nat : k = Len(s) /\ i \in 1..k
  BY Lens
<1>2. i \in Nat /\ i <= k /\ 1 <= i
  BY <1>1
<1>3. PICK a \in Seq(Chars) : a = SubSeq(s, 1, i - 1)
  BY PieceMore
<1>4. PICK one \in Nat \ {0} : one = 1
  OBVIOUS
<1>5. Len(a) = i - 1 /\ \A j \in 1..(i - 1) : a[j] = s[j]
  <2>1. i - 1 \in Nat /\ i - 1 <= Len(s) /\ a = SubSeq(s, one, i - 1)
    BY <1>1, <1>2, <1>3, <1>4
  <2>2. /\ Len(SubSeq(s, one, i - 1)) = IF one <= i - 1 THEN (i - 1) - one + 1 ELSE 0
        /\ \A j \in 1..((i - 1) - one + 1) : SubSeq(s, one, i - 1)[j] = s[one + j - 1]
    BY <2>1, Piece
  <2>3. (i - 1) - one + 1 = i - 1 /\ \A j \in 1..(i - 1) : one + j - 1 = j
    BY <1>2, <1>4
  <2>4. (IF one <= i - 1 THEN (i - 1) - one + 1 ELSE 0) = i - 1
    BY <1>2, <1>4
  <2>5. \A j \in 1..(i - 1) : a[j] = s[j]
    BY <2>1, <2>2, <2>3
  <2> QED  BY <2>1, <2>2, <2>4, <2>5
<1>6. i \in 1..(Len(s) + 1)
  BY <1>1
<1>7. PICK b \in Seq(Chars) : b = From(s, i) /\ Len(b) = Len(s) + 1 - i
                              /\ \A j \in 1..(Len(s) + 1 - i) : b[j] = s[i + j - 1]
  BY <1>6, ValueOf
<1>8. PICK w \in Seq(Chars) : w = a \o b
  BY Joined
<1>9. /\ Len(w) = Len(a) + Len(b)
      /\ \A j \in 1..Len(a) : w[j] = a[j]
      /\ \A j \in 1..Len(b) : w[Len(a) + j] = b[j]
  BY <1>8, Joined
<1>10. PICK na \in Nat, nb \in Nat : na = Len(a) /\ nb = Len(b) /\ na = i - 1 /\ nb = k + 1 - i /\ nb >= 1
  <2>1. Len(a) \in Nat /\ Len(b) \in Nat
    BY Lens
  <2>2. Len(a) = i - 1
    BY <1>5
  <2>3. Len(b) = k + 1 - i /\ k + 1 - i >= 1
    BY <1>1, <1>2, <1>7
  <2> QED  BY <2>1, <2>2, <2>3
<1>11. Len(w) = k
  BY <1>1, <1>2, <1>9, <1>10
<1>12. ASSUME NEW j \in 1..k PROVE s[j] = w[j]
  <2>1. CASE j \in 1..na
    BY <1>5, <1>9, <1>10, <2>1
  <2>2. CASE j \notin 1..na
    <3>1. PICK g \in 1..nb : j = na + g
      <4>1. j - na \in 1..nb /\ j = na + (j - na)
        BY <1>2, <1>10, <2>2
      <4> QED  BY <4>1
    <3>2. w[j] = b[g]
      BY <1>9, <1>10, <3>1
    <3>3. i + g - 1 = j /\ g \in 1..(Len(s) + 1 - i)
      BY <1>1, <1>2, <1>10, <3>1
    <3> QED  BY <1>7, <3>2, <3>3
  <2> QED  BY <2>1, <2>2
<1>13. s = w
  BY <1>1, <1>11, <1>12, SeqEqual
<1>14. b # <<>> /\ b[1] = s[i]
  <2>1. 1 \in 1..(Len(s) + 1 - i) /\ i + 1 - 1 = i
    BY <1>1, <1>2
  <2>2. Len(b) # 0
    BY <1>10
  <2> QED  BY <1>7, <2>1, <2>2, Lens
<1> QED  BY <1>3, <1>7, <1>8, <1>13, <1>14

-----------------------------------------------------------------------------
(* Settling the pending line keeps it, or skips its description.            *)

\* What was settled, d, from what was decoded, e: the same line, or the line up
\* to its open description, with the backslashes that end it.
Stays(d, e) ==
  /\ d.pending = e.pending /\ d.head = e.head /\ d.held = e.held /\ ~d.skipping
  /\ d.flushed = e.flushed /\ (e.settled => d.settled)
Skipped(d, e, last) ==
  /\ d.flushed = e.flushed /\ ~e.settled /\ d.skipping /\ OpenLong(d.pending, e.pending) /\ d.head = d.pending
  /\ d.carried = IF last = Backslash THEN Run(e.pending) ELSE 0

LEMMA SkipLong ==
  ASSUME NEW s \in Seq(Chars), NEW from \in 1..(Len(s) + 1), Disposition(s, from) = "skip"
  PROVE  ~Small(s, from) /\ Len(s) + 1 - from > MaxScanned
<1> DEFINE small(value) == value # <<>> /\ value[1] = Header /\ (Len(value) > 1 /\ value[2] = SmallCommand)
<1>1. PICK value \in Seq(Chars) : /\ value = From(s, from) /\ Len(value) = Len(s) + 1 - from
                                  /\ \A i \in 1..(Len(s) + 1 - from) : value[i] = s[from + i - 1]
  BY ValueOf
<1>2. Disposition(s, from) =
        CASE value = <<>> \/ value = <<Header>> -> "wait"
          [] small(value) -> "keep"
          [] OTHER -> IF Len(value) > MaxScanned THEN "skip" ELSE "wait"
  BY <1>1 DEF Disposition
<1>3. value = <<>> \/ value = <<Header>> => ~small(value)
  <2>1. Len(<<>>) = 0 /\ Len(<<Header>>) = 1
    OBVIOUS
  <2> QED  BY <2>1
<1> HIDE DEF small
<1>4. ~small(value)
  <2>1. SUFFICES ASSUME small(value) PROVE FALSE
    OBVIOUS
  <2>2. Disposition(s, from) = "keep"
    BY <1>2, <1>3, <2>1
  <2> QED  BY <2>2
<1>5. ~(value = <<>> \/ value = <<Header>>)
  <2>1. SUFFICES ASSUME value = <<>> \/ value = <<Header>> PROVE FALSE
    OBVIOUS
  <2>2. Disposition(s, from) = "wait"
    BY <1>2, <1>4, <2>1
  <2> QED  BY <2>2
<1>6. Len(value) > MaxScanned
  <2>1. Disposition(s, from) = IF Len(value) > MaxScanned THEN "skip" ELSE "wait"
    BY <1>2, <1>4, <1>5
  <2>2. SUFFICES ASSUME ~(Len(value) > MaxScanned) PROVE FALSE
    OBVIOUS
  <2>3. Disposition(s, from) = "wait"
    BY <2>1, <2>2
  <2> QED  BY <2>3
<1>7. ~Small(s, from)
  <2>1. SUFFICES ASSUME Small(s, from) PROVE FALSE
    OBVIOUS
  <2>2. PICK k \in Nat : k = Len(s)
    BY Lens
  <2>3. from \in Nat /\ from >= 1 /\ k >= from + 1
    BY <2>1, <2>2 DEF Small
  <2>4. 1 \in 1..(Len(s) + 1 - from) /\ 2 \in 1..(Len(s) + 1 - from) /\ Len(value) > 1
    BY <1>1, <2>2, <2>3
  <2>5. value[1] = s[from + 1 - 1] /\ value[2] = s[from + 2 - 1]
    BY <1>1, <2>4
  <2>6. from + 1 - 1 = from /\ from + 2 - 1 = from + 1
    BY <2>3
  <2>7. small(value)
    BY <1>5, <2>1, <2>4, <2>5, <2>6 DEF Small, small
  <2> QED  BY <1>4, <2>7
<1> QED  BY <1>1, <1>6, <1>7

LEMMA KeepsValue ==
  ASSUME NEW d \in Decoders, ~d.skipping, ~d.settled,
         NEW from, from = ValueStart(d.pending), from # 0, NEW last
  PROVE  Stays(SettleValue(d, from, last), d) \/ Skipped(SettleValue(d, from, last), d, last)
<1>1. d.pending \in Seq(Chars)
  BY DEF Decoders
<1>2. from \in Nat \ {0} /\ from \in 1..(Len(d.pending) + 1)
  BY <1>1, Lens, ValuePlace
<1>3. Disposition(d.pending, from) \in {"wait", "keep", "skip"}
  BY <1>1, <1>2, DispositionOf
<1>4. CASE ClosingQuoteIndex(d.pending, from) # 0 \/ Disposition(d.pending, from) \in {"keep", "wait"}
  <2>1. \E w \in Nat, b \in BOOLEAN : SettleValue(d, from, last) = [d EXCEPT !.valueStart = w, !.settled = b]
    <3>1. CASE ClosingQuoteIndex(d.pending, from) = 0 /\ Disposition(d.pending, from) = "wait"
      <4>1. SettleValue(d, from, last) = [d EXCEPT !.valueStart = from]
        BY <3>1 DEF SettleValue
      <4>2. [d EXCEPT !.valueStart = from] = [d EXCEPT !.valueStart = from, !.settled = FALSE]
        BY DEF Decoders
      <4> QED  BY <1>2, <4>1, <4>2
    <3>2. CASE ~(ClosingQuoteIndex(d.pending, from) = 0 /\ Disposition(d.pending, from) = "wait")
      <4>1. SettleValue(d, from, last) = [d EXCEPT !.valueStart = 0, !.settled = TRUE]
        BY <1>4, <3>2 DEF SettleValue
      <4> QED  BY <4>1
    <3> QED  BY <3>1, <3>2
  <2>2. PICK w \in Nat, b \in BOOLEAN : SettleValue(d, from, last) = [d EXCEPT !.valueStart = w, !.settled = b]
    BY <2>1
  <2> QED  BY <2>2 DEF Stays, Decoders
<1>5. CASE ClosingQuoteIndex(d.pending, from) = 0 /\ Disposition(d.pending, from) = "skip"
  <2> DEFINE cut == SubSeq(d.pending, 1, from - 1)
             run == IF last = Backslash THEN RunBefore(d.pending, Len(d.pending) + 1, from) ELSE 0
             e == [d EXCEPT !.settled = TRUE, !.valueStart = 0, !.skipping = TRUE, !.held = FALSE,
                            !.carried = run, !.pending = cut, !.head = cut]
  <2>1. SettleValue(d, from, last) = e
    BY <1>5 DEF SettleValue, SkipValue
  <2>2. run = IF last = Backslash THEN Run(d.pending) ELSE 0
    BY DEF Run
  <2>3. OpenLong(cut, d.pending)
    <3>1. Closing(d.pending, from) = {}
      BY <1>1, <1>2, <1>5, ClosingPlaces
    <3>2. ~Small(d.pending, from) /\ Len(d.pending) + 1 - from > MaxScanned
      BY <1>1, <1>2, <1>5, SkipLong
    <3> QED  BY <3>1, <3>2 DEF OpenLong
  <2> HIDE DEF cut, run
  <2>4. e.pending = cut /\ e.skipping /\ e.flushed = d.flushed /\ e.head = cut /\ e.carried = run
    BY DEF Decoders
  <2> HIDE DEF e
  <2> QED  BY <2>1, <2>2, <2>3, <2>4 DEF Skipped
<1> QED  BY <1>3, <1>4, <1>5

LEMMA KeepsSql ==
  ASSUME NEW d \in Decoders, ~d.skipping, ~d.settled, Sql(d.pending), NEW a \in Seq(Chars), NEW last,
         d.valueStart = 0 => FindPlanKey(d, a) = First(Keys2(d.pending)),
         d.valueStart # 0 => d.valueStart = ValueStart(d.pending)
  PROVE  Stays(SettleSql(d, a, last), d) \/ Skipped(SettleSql(d, a, last), d, last)
<1>1. d.pending \in Seq(Chars) /\ d.valueStart \in Nat
  BY DEF Decoders
<1>2. Keys2(d.pending) \in SUBSET (Nat \ {0}) /\ Len(PlanKey) = 2
  BY <1>1, KeyPlaces
<1>3. CASE d.valueStart # 0
  <2>1. SettleSql(d, a, last) = SettleValue(d, d.valueStart, last)
    BY <1>3 DEF SettleSql
  <2> QED  BY <1>3, <2>1, KeepsValue
<1>4. CASE d.valueStart = 0 /\ Keys2(d.pending) # {}
  <2>1. First(Keys2(d.pending)) # 0 /\ First(Keys2(d.pending)) \in Nat
    BY <1>2, <1>4, FirstOf
  <2>2. ValueStart(d.pending) = FindPlanKey(d, a) + Len(PlanKey) /\ ValueStart(d.pending) # 0
    BY <1>1, <1>2, <1>4, ValuePlace
  <2>3. PICK from : from = ValueStart(d.pending) /\ from # 0
    BY <2>2
  <2>4. SettleSql(d, a, last) = SettleValue(d, from, last)
    BY <1>4, <2>1, <2>2, <2>3 DEF SettleSql
  <2> QED  BY <2>3, <2>4, KeepsValue
<1>5. CASE d.valueStart = 0 /\ Keys2(d.pending) = {}
  <2>1. First(Keys2(d.pending)) = 0
    BY <1>2, <1>5, FirstOf
  <2>2. PICK tail : SettleSql(d, a, last) = [d EXCEPT !.keyTail = tail]
    BY <1>5, <2>1 DEF SettleSql
  <2> QED  BY <2>2 DEF Stays, Decoders
<1> QED  BY <1>3, <1>4, <1>5

LEMMA KeepsLine ==
  ASSUME NEW e, NEW a, Unsettled(e, a), NEW last
  PROVE  Stays(SettlePending(e, a, last), e) \/ Skipped(SettlePending(e, a, last), e, last)
<1>1. /\ e \in Decoders /\ a \in Seq(Chars) /\ ~e.skipping
      /\ e.pending \in Seq(Chars) /\ Len(e.pending) \in Nat
  <2>1. e \in Decoders /\ a \in Seq(Chars) /\ ~e.skipping
    BY DEF Unsettled
  <2>2. e.pending \in Seq(Chars)
    BY <2>1 DEF Decoders
  <2> QED  BY <2>1, <2>2, Lens
<1>2. (IsPrefix(SqlPrefix, e.pending) <=> Sql(e.pending)) /\ Len(SqlPrefix) = 2
  BY <1>1, PrefixOfSql
<1>3. CASE e.settled \/ e.pending = <<>>
  <2>1. SettlePending(e, a, last) = e
    BY <1>3 DEF SettlePending
  <2> QED  BY <1>1, <2>1 DEF Stays
<1>4. CASE ~e.settled /\ e.pending # <<>> /\ e.isSql
  <2>1. SettlePending(e, a, last) = SettleSql(e, a, last)
    BY <1>4 DEF SettlePending
  <2>2. PICK s \in Seq(Chars) :
          /\ Sql(s) /\ e.pending = s \o a
          /\ e.valueStart = 0 => Keys2(s) = {} /\ e.keyTail = <<s[Len(s)]>>
          /\ e.valueStart # 0 => e.valueStart = ValueStart(s)
    BY <1>4 DEF Unsettled
  <2>3. Sql(e.pending)
    BY <1>1, <2>2, SqlStays
  <2>4. e.valueStart # 0 => e.valueStart = ValueStart(e.pending)
    BY <1>1, <2>2, ValueStays
  <2>5. s # <<>> /\ Len(s) \in Nat
    BY <2>2, Lens DEF Sql
  <2>6. e.valueStart = 0 => FindPlanKey(e, a) = First(Keys2(e.pending))
    <3>1. ASSUME e.valueStart = 0
          PROVE  FindPlanKey(e, a) = First(Keys2(s \o a))
      <4>1. a \in Seq(Chars)
        BY <1>1
      <4>2. s # <<>> /\ Keys2(s) = {} /\ e.pending = s \o a /\ e.keyTail = <<s[Len(s)]>>
        BY <2>2, <2>5, <3>1
      <4> QED  BY <4>1, <4>2, FindLater
    <3> QED  BY <2>2, <3>1
  <2> QED  BY <1>1, <1>4, <2>1, <2>3, <2>4, <2>6, KeepsSql
<1>5. CASE ~e.settled /\ e.pending # <<>> /\ ~e.isSql /\ ~Sql(e.pending)
  <2>1. PICK b : SettlePending(e, a, last) = [e EXCEPT !.settled = b]
    BY <1>2, <1>5 DEF SettlePending
  <2> QED  BY <1>1, <1>5, <2>1 DEF Stays, Decoders
<1>6. CASE ~e.settled /\ e.pending # <<>> /\ ~e.isSql /\ Sql(e.pending)
  <2> DEFINE f == [e EXCEPT !.isSql = TRUE, !.keyTail = <<>>]
  <2>1. SettlePending(e, a, last) = SettleSql(f, e.pending, last)
    <3>1. ~(Len(e.pending) < 2)
      BY <1>1, <1>6 DEF Sql
    <3> QED  BY <1>2, <1>6, <3>1 DEF SettlePending
  <2>2. <<>> \in Seq(Chars) /\ e.valueStart = 0
    BY <1>6, EmptySeq DEF Unsettled
  <2>3. /\ f \in Decoders /\ f.pending = e.pending /\ ~f.settled /\ ~f.skipping
        /\ f.valueStart = 0 /\ f.keyTail = <<>> /\ f.head = e.head /\ f.held = e.held
        /\ f.flushed = e.flushed
    BY <1>1, <1>6, <2>2 DEF Decoders
  <2> HIDE DEF f
  <2>4. FindPlanKey(f, e.pending) = First(Keys2(f.pending))
    BY <1>1, <2>3, FindFresh
  <2>5. PICK g : g = SettleSql(f, e.pending, last)
    OBVIOUS
  <2>6. Stays(g, f) \/ Skipped(g, f, last)
    BY <1>1, <1>6, <2>3, <2>4, <2>5, KeepsSql
  <2>7. Stays(g, f) => Stays(g, e)
    BY <1>6, <2>3 DEF Stays
  <2>8. Skipped(g, f, last) => Skipped(g, e, last)
    BY <1>6, <2>3 DEF Skipped
  <2> QED  BY <2>1, <2>5, <2>6, <2>7, <2>8
<1> QED  BY <1>3, <1>4, <1>5, <1>6


\* The line that was read ends in what the last byte of it adds.
LEMMA LastRead ==
  ASSUME NEW t \in Seq(Chars), NEW x \in Chars, x # "m1", x # Backslash
  PROVE  \/ Read(t \o <<x>>).rest = <<>>
         \/ \E r \in Seq(Chars), y \in Chars : y # Backslash /\ Read(t \o <<x>>).rest = r \o <<y>>
<1>1. PICK h \in BOOLEAN, l \in Seq(Chars) : h = Out(t).held /\ l = Read(t).rest
  BY ReadOf
<1>2. PICK one \in Seq(Chars) : one = <<x>>
  BY OneLong
<1>3. DecodeBytes(h, one).out = Put(h, x)
  BY <1>2, DecodeOne
<1>4. \E q \in Seq(Chars), y \in Chars : y # Backslash /\ Put(h, x) = q \o <<y>>
  <2>1. ASSUME NEW y \in Chars PROVE <<y>> = <<>> \o <<y>>
    <3>1. <<y>> \in Seq(Chars)
      BY OneLong
    <3> QED  BY <3>1, ConcatEmptySeq
  <2>2. <<>> \in Seq(Chars)
    BY EmptySeq
  <2>3. CASE x = "m2"
    <3>1. PICK m \in Chars : m # Backslash /\ Put(h, x) = <<m>>
      BY <2>3, PutOf
    <3> QED  BY <2>1, <2>2, <3>1
  <2>4. CASE x # "m2"
    <3>1. Put(h, x) = IF h THEN <<"?", x>> ELSE <<x>>
      BY <2>4, PutOf
    <3>2. <<"?", x>> = <<"?">> \o <<x>>
      OBVIOUS
    <3>3. <<"?">> \in Seq(Chars)
      <4>1. "?" \in Chars
        BY DEF Chars
      <4> QED  BY <4>1, OneLong
    <3>4. Put(h, x) = <<"?">> \o <<x>> \/ Put(h, x) = <<>> \o <<x>>
      BY <2>1, <3>1, <3>2
    <3> QED  BY <2>2, <3>3, <3>4
  <2> QED  BY <2>3, <2>4
<1>5. PICK q \in Seq(Chars), y \in Chars : y # Backslash /\ Put(h, x) = q \o <<y>>
  BY <1>4
<1>6. PICK c \in Cuts : c = Cut(l, q)
  BY CutType
<1>7. Cut(l, q \o <<y>>) = CutAt(c, y)
  BY <1>6, CutMore
<1>8. Read(t \o one).rest = Cut(l, DecodeBytes(h, one).out).rest
  BY <1>1, ReadJoined
<1>9. Read(t \o <<x>>).rest = CutAt(c, y).rest
  BY <1>2, <1>3, <1>5, <1>7, <1>8
<1>10. c.rest \in Seq(Chars)
  BY DEF Cuts
<1>11. CutAt(c, y).rest = <<>> \/ CutAt(c, y).rest = c.rest \o <<y>>
  BY CutAtType
<1> QED  BY <1>5, <1>9, <1>10, <1>11

LEMMA EscapesAfter ==
  ASSUME NEW t \in Seq(Chars), NEW x \in Chars, NEW p, OpenLong(p, Read(t \o <<x>>).rest)
  PROVE  LET l == Read(t \o <<x>>).rest
         IN  Escapes(IF x = Backslash THEN Run(l) ELSE 0, l, Out(t \o <<x>>).held)
<1>1. PICK u \in Seq(Chars) : u = t \o <<x>>
  BY Longer
<1>2. PICK h \in BOOLEAN, l \in Seq(Chars) : h = Out(u).held /\ l = Read(u).rest
  BY ReadOf
<1>3. /\ x = "m1" => h = TRUE
      /\ x # "m1" => h = FALSE
  BY <1>1, <1>2, ReadByte
<1>4. OpenLong(p, l)
  BY <1>1, <1>2
<1>5. Even(0)
  BY EvenStep
<1>6. CASE x = Backslash
  <2>1. h = FALSE
    BY <1>3, <1>6 DEF Backslash
  <2>2. Escapes(Run(l), l, h)
    BY <2>1 DEF Escapes, Run
  <2> QED  BY <1>1, <1>2, <1>6, <2>2
<1>7. CASE x = "m1"
  <2>1. x # Backslash /\ h = TRUE
    BY <1>3, <1>7 DEF Backslash
  <2>2. Escapes(0, l, h)
    BY <1>5, <2>1 DEF Escapes
  <2> QED  BY <1>1, <1>2, <2>1, <2>2
<1>8. CASE x # "m1" /\ x # Backslash
  <2>1. PICK k \in Nat : k = Len(l)
    BY Lens
  <2>2. PICK from \in 3..(k + 1) : from = ValueStart(l) /\ k + 1 - from > MaxScanned
    <3>1. ValueStart(l) # 0 /\ Len(l) + 1 - ValueStart(l) > MaxScanned
      BY <1>4 DEF OpenLong
    <3> QED  BY <2>1, <3>1, ValuePlace
  <2>3. MaxScanned \in Nat \ {0}
    BY DecoderAssumption DEF DecoderAssumption
  <2>4. l # <<>>
    <3>1. k >= 2
      BY <2>2
    <3> QED  BY <2>1, <3>1, Lens
  <2>5. PICK r \in Seq(Chars), y \in Chars : y # Backslash /\ l = r \o <<y>>
    <3>1. \/ Read(t \o <<x>>).rest = <<>>
          \/ \E r \in Seq(Chars), y \in Chars : y # Backslash /\ Read(t \o <<x>>).rest = r \o <<y>>
      BY <1>8, LastRead
    <3> QED  BY <1>1, <1>2, <2>4, <3>1
  <2>6. from \in 1..(Len(r) + 1)
    <3>1. Len(l) = Len(r) + 1 /\ Len(r) \in Nat
      BY <2>5, Longer, Lens
    <3> QED  BY <2>1, <2>2, <2>3, <3>1
  <2>7. RunBefore(r \o <<y>>, Len(r \o <<y>>) + 1, from) = 0
    BY <2>5, <2>6, RunMore
  <2>8. Even(RunBefore(l, Len(l) + 1, ValueStart(l)))
    BY <1>5, <2>2, <2>5, <2>7
  <2>9. Escapes(0, l, h)
    BY <1>5, <2>8 DEF Escapes
  <2> QED  BY <1>1, <1>2, <1>8, <2>9
<1> QED  BY <1>6, <1>7, <1>8

-----------------------------------------------------------------------------
(* A slice.                                                                 *)

LEMMA ThreeJoined ==
  ASSUME NEW a \in Seq(Chars), NEW b \in Seq(Chars), NEW c \in Seq(Chars),
         NEW d \in Seq(Chars), d = a \o b, NEW e \in Seq(Chars), e = b \o c
  PROVE  d \o c = a \o e
<1>1. \A S : \A x, y, z \in Seq(S) : (x \o y) \o z = x \o (y \o z)
  BY ConcatAssociative
<1> QED  BY <1>1, SMTT(40)

LEMMA SliceSkipped ==
  ASSUME NEW t \in Seq(Chars), NEW bytes \in Seq(Chars), dec.carried \in Nat,
         Skipping(dec.pending, dec.carried, Read(t).rest, Out(t).held), StillSkipping(bytes)
  PROVE  LET u == t \o bytes
         IN  /\ Read(u).ended = Read(t).ended
             /\ Skipping(dec.pending, Carried(bytes, Len(bytes), dec.carried), Read(u).rest, Out(u).held)
<1>0. PICK p : p = dec.pending
  OBVIOUS
<1>1. PICK n \in Nat : n = dec.carried /\ p = dec.pending
  BY <1>0
<1>2. PICK m \in 0..Len(bytes) : m = Len(bytes)
  BY Lens
<1>3. \A j \in 1..m : bytes[j] # Newline /\ (bytes[j] = Quote => ~Even(Carried(bytes, j - 1, n)))
  BY <1>1, <1>2, AllSkipped DEF Skips
<1>4. SubSeq(bytes, 1, m) = bytes
  BY <1>2, SubSeqFull
<1>5. LET u == t \o SubSeq(bytes, 1, m)
      IN  /\ Read(u).ended = Read(t).ended
          /\ Skipping(p, Carried(bytes, m, n), Read(u).rest, Out(u).held)
  BY <1>1, <1>3, SkipBytes
<1> QED  BY <1>1, <1>2, <1>4, <1>5

LEMMA SliceResumes ==
  ASSUME NEW t \in Seq(Chars), NEW bytes \in Seq(Chars), NEW p \in Seq(Chars), NEW n \in Nat,
         Skipping(p, n, Read(t).rest, Out(t).held), NEW s \in 1..Len(bytes),
         bytes[s] = Newline \/ (bytes[s] = Quote /\ Even(Carried(bytes, s - 1, n))),
         \A i \in 1..(s - 1) : Skips(bytes, i, n)
  PROVE  Grows(t, t \o bytes, p, DecodeBytes(FALSE, From(bytes, s)), TRUE)
<1>1. PICK a \in Seq(Chars), b \in Seq(Chars) :
        /\ a = SubSeq(bytes, 1, s - 1) /\ b = From(bytes, s) /\ bytes = a \o b
        /\ b # <<>> /\ b[1] = bytes[s]
  BY SplitAt
<1>2. PICK u \in Seq(Chars) : u = t \o a
  BY Joined
<1>3. u \o b = t \o bytes
  <2>1. bytes = a \o b
    BY <1>1
  <2> QED  BY <1>2, <2>1, ThreeJoined, SMTT(40)
<1>4. PICK m \in 0..Len(bytes) : m = s - 1
  BY Lens
<1>5. \A j \in 1..m : bytes[j] # Newline /\ (bytes[j] = Quote => ~Even(Carried(bytes, j - 1, n)))
  BY <1>4 DEF Skips
<1>6. PICK c \in Nat : c = Carried(bytes, m, n)
  <2>1. m \in Nat
    BY Lens
  <2> QED  BY <2>1, CarriedStep
<1>7. Read(u).ended = Read(t).ended /\ Skipping(p, c, Read(u).rest, Out(u).held)
  <2>1. LET w == t \o SubSeq(bytes, 1, m)
        IN  /\ Read(w).ended = Read(t).ended
            /\ Skipping(p, Carried(bytes, m, n), Read(w).rest, Out(w).held)
    BY <1>5, SkipBytes
  <2> QED  BY <1>1, <1>4, <1>2, <1>6, <2>1
<1>8. b[1] = Newline \/ (b[1] = Quote /\ Even(c))
  BY <1>1, <1>4, <1>6
<1>9. Grows(u, u \o b, p, DecodeBytes(FALSE, b), TRUE)
  <2>1. b # <<>>
    BY <1>1
  <2>2. Skipping(p, c, Read(u).rest, Out(u).held)
    BY <1>7
  <2> QED  BY <1>8, <2>1, <2>2, GrowsOpen
<1>10. Grows(t, t \o bytes, p, DecodeBytes(FALSE, b), TRUE)
  BY <1>7, <1>9, <1>3 DEF Grows
<1> QED  BY <1>1, <1>10

LEMMA SliceGrows ==
  ASSUME NEW t \in Seq(Chars), NEW bytes \in Seq(Chars), dec \in Decoders,
         dec.skipping => dec.settled /\ ~dec.held,
         PendingInv(dec, Read(t).rest, Out(t).held),
         ~(dec.skipping /\ StillSkipping(bytes))
  PROVE  Grows(t, t \o bytes, dec.pending, DecodeBytes(dec.held, Resumed(bytes)), dec.settled)
<1>1. PICK p \in Seq(Chars), n \in Nat, h \in BOOLEAN, settled \in BOOLEAN :
        p = dec.pending /\ n = dec.carried /\ h = dec.held /\ settled = dec.settled
  BY DEF Decoders
<1>2. CASE ~dec.skipping
  <2>1. h = Out(t).held /\ Kept(p, Read(t).rest) /\ (~settled => p = Read(t).rest)
    BY <1>1, <1>2 DEF PendingInv
  <2>2. Resumed(bytes) = bytes
    BY <1>2 DEF Resumed
  <2>3. Grows(t, t \o bytes, p, DecodeBytes(Out(t).held, bytes), settled)
    BY <2>1, GrowsOn
  <2> QED  BY <1>1, <2>1, <2>2, <2>3
<1>3. CASE dec.skipping
  <2>1. Skipping(p, n, Read(t).rest, Out(t).held) /\ settled = TRUE /\ h = FALSE
    BY <1>1, <1>3 DEF PendingInv
  <2>2. PICK s \in 1..Len(bytes) :
          /\ Resumed(bytes) = From(bytes, s)
          /\ bytes[s] = Newline \/ (bytes[s] = Quote /\ Even(Carried(bytes, s - 1, n)))
          /\ \A i \in 1..(s - 1) : Skips(bytes, i, n)
    BY <1>1, <1>3, ResumedFrom
  <2>3. Grows(t, t \o bytes, p, DecodeBytes(FALSE, From(bytes, s)), TRUE)
    BY <2>1, <2>2, SliceResumes
  <2>4. DecodeBytes(dec.held, Resumed(bytes)) = DecodeBytes(FALSE, From(bytes, s))
    BY <1>1, <2>1, <2>2
  <2> QED  BY <1>1, <2>1, <2>3, <2>4
<1> QED  BY <1>2, <1>3

-----------------------------------------------------------------------------
(* The pieces of a line.                                                    *)

LEMMA PrefixIf ==
  ASSUME NEW s \in Seq(Chars), NEW t \in Seq(Chars), Len(s) <= Len(t),
         \A i \in 1..Len(s) : s[i] = t[i]
  PROVE  IsPrefix(s, t)
<1>1. PICK n \in Nat : n = Len(s)
  BY Lens
<1>2. SubSeq(s, 1, n) = SubSeq(t, 1, n)
  <2>1. n <= Len(s) /\ n <= Len(t) /\ \A i \in 1..n : s[i] = t[i]
    BY <1>1
  <2> QED  BY <2>1, SameStart
<1> QED  BY <1>1, <1>2 DEF IsPrefix

LEMMA PrefixOf ==
  ASSUME NEW s \in Seq(Chars), NEW t \in Seq(Chars), IsPrefix(s, t)
  PROVE  Len(s) <= Len(t) /\ \A i \in 1..Len(s) : s[i] = t[i]
<1>1. PICK n \in Nat, one \in Nat \ {0} : n = Len(s) /\ one = 1
  BY Lens
<1>2. n <= Len(s) /\ n <= Len(t) /\ SubSeq(s, one, n) = SubSeq(t, one, n)
  BY <1>1 DEF IsPrefix
<1>3. ASSUME NEW u \in Seq(Chars), n <= Len(u)
      PROVE  \A i \in 1..n : SubSeq(u, one, n)[i] = u[i]
  <2>1. \A i \in 1..(n - one + 1) : SubSeq(u, one, n)[i] = u[one + i - 1]
    BY <1>3, Piece
  <2>2. n - one + 1 = n /\ \A i \in 1..n : one + i - 1 = i
    BY <1>1
  <2> QED  BY <2>1, <2>2
<1>4. \A i \in 1..n : SubSeq(s, one, n)[i] = s[i]
  BY <1>2, <1>3
<1>5. \A i \in 1..n : SubSeq(t, one, n)[i] = t[i]
  BY <1>2, <1>3
<1>6. \A i \in 1..n : s[i] = t[i]
  BY <1>2, <1>4, <1>5
<1> QED  BY <1>1, <1>2, <1>6

LEMMA PrefixJoined ==
  ASSUME NEW h \in Seq(Chars), NEW p \in Seq(Chars), IsPrefix(h, p), NEW q \in Seq(Chars)
  PROVE  IsPrefix(h, p \o q) /\ IsPrefix(p, p)
<1>1. PICK t \in Seq(Chars) : t = p \o q
  BY Joined
<1>2. Len(t) = Len(p) + Len(q) /\ \A i \in 1..Len(p) : t[i] = p[i]
  BY <1>1, Joined
<1>3. PICK k \in Nat, m \in Nat, n \in Nat : k = Len(h) /\ m = Len(p) /\ n = Len(q)
  BY Lens
<1>4. k <= m /\ \A i \in 1..k : h[i] = p[i]
  BY <1>3, PrefixOf
<1>5. Len(h) <= Len(t)
  BY <1>2, <1>3, <1>4
<1>6. \A i \in 1..Len(h) : h[i] = t[i]
  BY <1>2, <1>3, <1>4
<1>7. IsPrefix(h, t)
  BY <1>5, <1>6, PrefixIf
<1>8. IsPrefix(p, p)
  <2>1. Len(p) <= Len(p)
    BY <1>3
  <2> QED  BY <2>1, PrefixIf
<1> QED  BY <1>1, <1>7, <1>8

LEMMA PrefixItself ==
  ASSUME NEW p \in Seq(Chars)
  PROVE  IsPrefix(p, p)
<1>1. Len(p) <= Len(p)
  BY Lens
<1> QED  BY <1>1, PrefixIf

LEMMA ReverseOf ==
  ASSUME NEW s \in Seq(Chars), NEW n \in Nat, n = Len(s)
  PROVE  /\ Reverse(s) \in Seq(Chars) /\ Len(Reverse(s)) = n
         /\ \A i \in 1..n : Reverse(s)[i] = s[(n - i) + 1]
<1>1. Reverse(s) = [i \in 1..n |-> s[(n - i) + 1]]
  BY DEF Reverse
<1>2. ASSUME NEW i \in 1..n PROVE s[(n - i) + 1] \in Chars
  <2>1. (n - i) + 1 \in 1..Len(s)
    OBVIOUS
  <2> QED  BY <2>1, Lens
<1>3. Reverse(s) \in [1..n -> Chars]
  BY <1>1, <1>2
<1>4. Reverse(s) \in Seq(Chars)
  BY <1>3
<1>5. Len(Reverse(s)) = n
  BY <1>1, <1>3
<1> QED  BY <1>1, <1>4, <1>5

LEMMA SuffixIf ==
  ASSUME NEW s \in Seq(Chars), NEW t \in Seq(Chars), NEW n \in Nat, NEW m \in Nat, n = Len(s), m = Len(t),
         n <= m, \A i \in 1..n : s[(n - i) + 1] = t[(m - i) + 1]
  PROVE  IsSuffix(s, t)
<1>1. PICK a \in Seq(Chars) : a = Reverse(s) /\ Len(a) = n /\ \A i \in 1..n : a[i] = s[(n - i) + 1]
  BY ReverseOf
<1>2. PICK b \in Seq(Chars) : b = Reverse(t) /\ Len(b) = m /\ \A i \in 1..m : b[i] = t[(m - i) + 1]
  BY ReverseOf
<1>3. \A i \in 1..n : i \in 1..m
  OBVIOUS
<1>4. \A i \in 1..n : a[i] = b[i]
  BY <1>1, <1>2, <1>3
<1>5. IsPrefix(a, b)
  BY <1>1, <1>2, <1>4, PrefixIf
<1> QED  BY <1>1, <1>2, <1>5 DEF IsSuffix

LEMMA SuffixItself ==
  ASSUME NEW s \in Seq(Chars)
  PROVE  IsSuffix(s, s)
<1>1. PICK n \in Nat : n = Len(s)
  BY Lens
<1>2. n <= n
  OBVIOUS
<1> QED  BY <1>1, <1>2, SuffixIf

LEMMA SuffixFrom ==
  ASSUME NEW s \in Seq(Chars), NEW i \in 1..(Len(s) + 1)
  PROVE  From(s, i) \in Seq(Chars) /\ IsSuffix(From(s, i), s)
<1>1. PICK m \in Nat : m = Len(s) /\ i \in 1..(m + 1)
  BY Lens
<1>2. PICK u \in Seq(Chars) : u = From(s, i) /\ Len(u) = Len(s) + 1 - i
                              /\ \A j \in 1..(Len(s) + 1 - i) : u[j] = s[i + j - 1]
  BY ValueOf
<1>3. PICK n \in Nat : n = Len(u)
  BY Lens
<1>4. n = m + 1 - i /\ n <= m /\ \A j \in 1..n : u[j] = s[i + j - 1]
  BY <1>1, <1>2, <1>3
<1>5. ASSUME NEW j \in 1..n PROVE u[(n - j) + 1] = s[(m - j) + 1]
  <2>1. (n - j) + 1 \in 1..n
    OBVIOUS
  <2>2. u[(n - j) + 1] = s[i + ((n - j) + 1) - 1]
    BY <1>4, <2>1
  <2>3. i + ((n - j) + 1) - 1 = (m - j) + 1
    BY <1>1, <1>4
  <2> QED  BY <2>2, <2>3
<1>6. IsSuffix(u, s)
  BY <1>1, <1>3, <1>4, <1>5, SuffixIf
<1> QED  BY <1>2, <1>6

LEMMA AddedChar ==
  ASSUME NEW a \in Seq(Chars), NEW b \in Seq(Chars), NEW x \in Chars
  PROVE  (a \o b) \o <<x>> = a \o (b \o <<x>>)
<1>1. \A S : \A s, t \in Seq(S), y \in S : (s \o t) \o <<y>> = s \o (t \o <<y>>)
  BY AddedLast
<1> QED  BY <1>1

\* What is cut out of characters starts with what was pending before them.
LEMMA CutStart ==
  ASSUME NEW p \in Seq(Chars), p # <<>>, NEW chars \in Seq(Chars)
  PROVE  LET c == Cut(p, chars)
         IN  /\ c.ended = <<>> => \E q \in Seq(Chars) : c.rest = p \o q
             /\ c.ended # <<>> => \E q \in Seq(Chars) : c.ended[1] = p \o q
<1> DEFINE Starts(s) == LET c == Cut(p, s)
                        IN  /\ c.ended = <<>> => \E q \in Seq(Chars) : c.rest = p \o q
                            /\ c.ended # <<>> => \E q \in Seq(Chars) : c.ended[1] = p \o q
           G == {s \in Seq(Chars) : Starts(s)}
<1>1. <<>> \in G
  <2>1. Cut(p, <<>>).ended = <<>> /\ Cut(p, <<>>).rest = p
    BY CutNone
  <2>2. p = p \o <<>> /\ <<>> \in Seq(Chars)
    BY EmptySeq, ConcatEmptySeq
  <2> QED  BY <2>1, <2>2
<1>2. ASSUME NEW s \in G, NEW x \in Chars PROVE s \o <<x>> \in G
  <2>1. s \in Seq(Chars) /\ Starts(s) /\ s \o <<x>> \in Seq(Chars)
    BY <1>2, Longer
  <2>2. PICK c \in Cuts : c = Cut(p, s) /\ Cut(p, s \o <<x>>) = CutAt(c, x)
    BY <2>1, CutType, CutMore
  <2>3. PICK ended \in Seq(Seq(Chars)), r \in Seq(Chars) : ended = c.ended /\ r = c.rest
    BY DEF Cuts
  <2>4. /\ ended = <<>> => \E q \in Seq(Chars) : r = p \o q
        /\ ended # <<>> => \E q \in Seq(Chars) : ended[1] = p \o q
    BY <2>1, <2>2, <2>3
  <2>5. CASE x # Newline
    <3>1. CutAt(c, x).ended = ended /\ CutAt(c, x).rest = r \o <<x>>
      BY <2>3, <2>5, CutAtType
    <3>2. ASSUME ended = <<>> PROVE \E q \in Seq(Chars) : r \o <<x>> = p \o q
      <4>1. PICK q \in Seq(Chars) : r = p \o q
        BY <2>4, <3>2
      <4>2. (p \o q) \o <<x>> = p \o (q \o <<x>>)
        BY AddedChar
      <4>3. q \o <<x>> \in Seq(Chars)
        BY Longer
      <4> QED  BY <4>1, <4>2, <4>3
    <3>3. Starts(s \o <<x>>)
      BY <2>2, <2>4, <3>1, <3>2
    <3> QED  BY <2>1, <3>3
  <2>6. CASE x = Newline /\ ended = <<>>
    <3>1. PICK q \in Seq(Chars) : r = p \o q
      BY <2>4, <2>6
    <3>2. r # <<>>
      <4>1. Len(r) = Len(p) + Len(q) /\ Len(p) \in Nat /\ Len(q) \in Nat /\ Len(p) # 0
        BY <3>1, Joined, Lens
      <4>2. Len(r) # 0
        BY <4>1
      <4> QED  BY <4>2, Lens
    <3>3. CutAt(c, x).ended = ended \o <<r>>
      BY <2>3, <2>6, <3>2, CutAtType
    <3>4. <<r>> \in Seq(Seq(Chars)) /\ <<r>>[1] = r /\ <<r>> # <<>>
      BY OneLong
    <3>5. ended \o <<r>> = <<r>>
      BY <2>6, <3>4, ConcatEmptySeq
    <3>6. Starts(s \o <<x>>)
      BY <2>2, <3>1, <3>3, <3>4, <3>5
    <3> QED  BY <2>1, <3>6
  <2>7. CASE x = Newline /\ ended # <<>>
    <3>1. PICK q \in Seq(Chars) : ended[1] = p \o q
      BY <2>4, <2>7
    <3>2. CutAt(c, x).ended = IF r = <<>> THEN ended ELSE ended \o <<r>>
      BY <2>3, <2>7, CutAtType
    <3>3. PICK one \in Seq(Seq(Chars)) : one = <<r>>
      BY OneLong
    <3>4. PICK n \in Nat, k \in Nat : n = Len(ended) /\ k = Len(one) /\ n >= 1
      <4>1. Len(ended) \in Nat /\ Len(one) \in Nat
        BY LinesJoined
      <4>2. Len(ended) # 0
        BY <2>7, EmptySeq
      <4> QED  BY <4>1, <4>2
    <3>5. Len(ended \o one) = n + k /\ (ended \o one)[1] = ended[1]
      <4>1. /\ Len(ended \o one) = Len(ended) + Len(one)
            /\ \A i \in 1..(Len(ended) + Len(one)) :
                 (ended \o one)[i] = IF i <= Len(ended) THEN ended[i] ELSE one[i - Len(ended)]
        BY LinesJoined
      <4>2. 1 \in 1..(Len(ended) + Len(one)) /\ 1 <= Len(ended)
        BY <3>4
      <4>3. (ended \o one)[1] = ended[1]
        BY <4>1, <4>2
      <4> QED  BY <3>4, <4>1, <4>3
    <3>6. ended \o one # <<>>
      <4>1. n + k # 0
        BY <3>4
      <4> QED  BY <3>5, <4>1
    <3>7. CutAt(c, x).ended # <<>> /\ CutAt(c, x).ended[1] = p \o q
      BY <2>7, <3>1, <3>2, <3>3, <3>5, <3>6
    <3>8. Starts(s \o <<x>>)
      BY <2>2, <3>7
    <3> QED  BY <2>1, <3>8
  <2> QED  BY <2>5, <2>6, <2>7
<1> HIDE DEF G
<1>3. G \in SUBSET Seq(Chars)
  BY DEF G
<1>4. chars \in G
  BY <1>1, <1>2, <1>3, EverySequence
<1> QED  BY <1>4 DEF G

-----------------------------------------------------------------------------
(* The lines that are returned, with their pieces.                          *)

LEMMA SameLinesEqual ==
  ASSUME NEW a \in Seq(Seq(Chars)), NEW b \in Seq(Seq(Chars)), NEW n \in Nat, Len(a) = n, Len(b) = n,
         \A i \in 1..n : a[i] = b[i]
  PROVE  a = b
<1>1. \A S : \A s, t \in Seq(S) : Len(s) = Len(t) /\ (\A i \in 1..Len(s) : s[i] = t[i]) => s = t
  BY SeqEqual
<1>2. Len(a) = Len(b) /\ \A i \in 1..Len(a) : a[i] = b[i]
  OBVIOUS
<1> QED  BY <1>1, <1>2

LEMMA ChunksOf ==
  ASSUME NEW ls \in Seq(Chunks), NEW n \in Nat, n = Len(ls)
  PROVE  /\ \A i \in 1..n : /\ ls[i] \in Chunks /\ ls[i].chars \in Seq(Chars)
                            /\ ls[i].head \in Seq(Chars) /\ ls[i].tail \in Seq(Chars)
         /\ Got(ls) \in Seq(Seq(Chars)) /\ Len(Got(ls)) = n
         /\ \A i \in 1..n : Got(ls)[i] = ls[i].chars
<1>1. \A S : \A s \in Seq(S) : \A i \in 1..Len(s) : s[i] \in S
  OBVIOUS
<1>2. ASSUME NEW i \in 1..n
      PROVE  /\ ls[i] \in Chunks /\ ls[i].chars \in Seq(Chars)
             /\ ls[i].head \in Seq(Chars) /\ ls[i].tail \in Seq(Chars)
  <2>1. ls[i] \in Chunks
    BY <1>1
  <2> QED  BY <2>1 DEF Chunks
<1>3. Got(ls) = [i \in 1..n |-> ls[i].chars]
  BY DEF Got
<1>4. Got(ls) \in [1..n -> Seq(Chars)]
  BY <1>2, <1>3
<1>5. Got(ls) \in Seq(Seq(Chars)) /\ Len(Got(ls)) = n
  BY <1>4
<1> QED  BY <1>2, <1>3, <1>5

LEMMA ChunksJoined ==
  ASSUME NEW ls \in Seq(Chunks), NEW ms \in Seq(Chunks)
  PROVE  /\ Len(ls) \in Nat /\ Len(ms) \in Nat
         /\ ls \o ms \in Seq(Chunks) /\ Len(ls \o ms) = Len(ls) + Len(ms)
         /\ \A i \in 1..(Len(ls) + Len(ms)) :
              (ls \o ms)[i] = IF i <= Len(ls) THEN ls[i] ELSE ms[i - Len(ls)]
BY ConcatProperties, LenProperties

LEMMA GotMore ==
  ASSUME NEW ls \in Seq(Chunks), NEW ms \in Seq(Chunks)
  PROVE  /\ ls \o ms \in Seq(Chunks) /\ Got(ls \o ms) = Got(ls) \o Got(ms)
         /\ Pieces(ls) /\ Pieces(ms) => Pieces(ls \o ms)
<1>1. PICK n \in Nat, m \in Nat : n = Len(ls) /\ m = Len(ms)
  BY ChunksJoined
<1>2. PICK all \in Seq(Chunks) : all = ls \o ms
  BY ChunksJoined
<1>3. Len(all) = n + m /\ \A i \in 1..(n + m) : all[i] = IF i <= n THEN ls[i] ELSE ms[i - n]
  <2>1. /\ Len(ls \o ms) = Len(ls) + Len(ms)
        /\ \A i \in 1..(Len(ls) + Len(ms)) :
             (ls \o ms)[i] = IF i <= Len(ls) THEN ls[i] ELSE ms[i - Len(ls)]
    BY ChunksJoined
  <2> QED  BY <1>1, <1>2, <2>1
<1>4. PICK a \in Seq(Seq(Chars)) : a = Got(ls) /\ Len(a) = n /\ \A i \in 1..n : a[i] = ls[i].chars
  BY <1>1, ChunksOf
<1>5. PICK b \in Seq(Seq(Chars)) : b = Got(ms) /\ Len(b) = m /\ \A i \in 1..m : b[i] = ms[i].chars
  BY <1>1, ChunksOf
<1>6. PICK k \in Nat : k = n + m
  OBVIOUS
<1>7. PICK c \in Seq(Seq(Chars)) : c = Got(all) /\ Len(c) = k /\ \A i \in 1..k : c[i] = all[i].chars
  BY <1>3, <1>6, ChunksOf
<1>8. PICK d \in Seq(Seq(Chars)) : d = a \o b
  BY LinesJoined
<1>9. Len(d) = k /\ \A i \in 1..k : d[i] = IF i <= n THEN a[i] ELSE b[i - n]
  <2>1. /\ Len(a \o b) = Len(a) + Len(b)
        /\ \A i \in 1..(Len(a) + Len(b)) :
             (a \o b)[i] = IF i <= Len(a) THEN a[i] ELSE b[i - Len(a)]
    BY LinesJoined
  <2> QED  BY <1>4, <1>5, <1>6, <1>8, <2>1
<1>10. ASSUME NEW i \in 1..k PROVE c[i] = d[i]
  <2>1. CASE i <= n
    <3>1. i \in 1..n
      BY <2>1
    <3> QED  BY <1>3, <1>4, <1>6, <1>7, <1>9, <2>1, <3>1, ZenonT(60)
  <2>2. CASE ~(i <= n)
    <3>1. i - n \in 1..m
      BY <1>6, <2>2
    <3>2. c[i] = ms[i - n].chars
      BY <1>3, <1>6, <1>7, <2>2
    <3>3. d[i] = b[i - n]
      BY <1>9, <2>2
    <3> QED  BY <1>5, <3>1, <3>2, <3>3
  <2> QED  BY <2>1, <2>2
<1>11. c = d
  BY <1>7, <1>9, <1>10, SameLinesEqual
<1>12. ASSUME Pieces(ls), Pieces(ms) PROVE Pieces(all)
  <2>1. ASSUME NEW i \in 1..k PROVE IsPrefix(all[i].head, all[i].chars) /\ IsSuffix(all[i].tail, all[i].chars)
    <3>1. CASE i <= n
      <4>1. i \in 1..Len(ls) /\ all[i] = ls[i]
        BY <1>1, <1>3, <1>6, <3>1
      <4>2. IsPrefix(ls[i].head, ls[i].chars) /\ IsSuffix(ls[i].tail, ls[i].chars)
        BY <1>12, <4>1 DEF Pieces
      <4> QED  BY <4>1, <4>2
    <3>2. CASE ~(i <= n)
      <4>1. i - n \in 1..Len(ms) /\ all[i] = ms[i - n]
        BY <1>1, <1>3, <1>6, <3>2
      <4>2. IsPrefix(ms[i - n].head, ms[i - n].chars) /\ IsSuffix(ms[i - n].tail, ms[i - n].chars)
        BY <1>12, <4>1 DEF Pieces
      <4> QED  BY <4>1, <4>2
    <3> QED  BY <3>1, <3>2
  <2>2. Len(all) = k
    BY <1>3, <1>6
  <2> QED  BY <2>1, <2>2 DEF Pieces
<1> QED  BY <1>2, <1>4, <1>5, <1>7, <1>8, <1>11, <1>12

LEMMA LineOf ==
  ASSUME NEW c \in Seq(Chars)
  PROVE  /\ Line(c) \in Chunks /\ Line(c).chars = c
         /\ IsPrefix(Line(c).head, Line(c).chars) /\ IsSuffix(Line(c).tail, Line(c).chars)
<1>1. Line(c) \in Chunks /\ Line(c).chars = c /\ Line(c).head = c /\ Line(c).tail = c
  BY DEF Line, Chunks
<1> QED  BY <1>1, PrefixItself, SuffixItself

LEMMA EndedOf ==
  ASSUME NEW d, d.pending \in Seq(Chars), d.head \in Seq(Chars), IsPrefix(d.head, d.pending),
         NEW chars \in Seq(Chars)
  PROVE  /\ EndedLines(d, chars) \in Seq(Chunks) /\ Pieces(EndedLines(d, chars))
         /\ Got(EndedLines(d, chars)) = Cut(d.pending, chars).ended
<1>1. PICK p \in Seq(Chars), h \in Seq(Chars) : p = d.pending /\ h = d.head /\ IsPrefix(h, p)
  OBVIOUS
<1>2. PICK c \in Cuts : c = Cut(p, chars)
  BY CutType
<1>3. PICK ended \in Seq(Seq(Chars)) : ended = c.ended
  BY DEF Cuts
<1>4. PICK n \in Nat : n = Len(ended)
  BY LinesJoined
<1>5. \A i \in 1..n : ended[i] \in Seq(Chars)
  BY <1>4
<1> DEFINE joined == [chars |-> ended[1], head |-> h, tail |-> From(ended[1], Len(p) + 1)]
           all == [i \in 1..n |-> IF i = 1 /\ p # <<>> THEN joined ELSE Line(ended[i])]
<1>6. EndedLines(d, chars) = all
  BY <1>1, <1>2, <1>3, <1>4 DEF EndedLines
<1>7. ASSUME p # <<>>, n >= 1
      PROVE  /\ joined \in Chunks /\ joined.chars = ended[1]
             /\ IsPrefix(joined.head, joined.chars) /\ IsSuffix(joined.tail, joined.chars)
  <2>1. ended # <<>>
    BY <1>4, <1>7
  <2>2. PICK q \in Seq(Chars) : ended[1] = p \o q
    BY <1>2, <1>3, <1>7, <2>1, CutStart
  <2>3. PICK e \in Seq(Chars) : e = p \o q
    BY Joined
  <2>4. IsPrefix(h, e)
    BY <1>1, <2>3, PrefixJoined
  <2>5. PICK i \in 1..(Len(e) + 1) : i = Len(p) + 1
    <3>1. PICK m \in Nat, k \in Nat : m = Len(p) /\ k = Len(q)
      BY Lens
    <3>2. Len(e) = m + k
      BY <2>3, <3>1, Joined
    <3>3. m + 1 \in 1..(m + k + 1)
      OBVIOUS
    <3> QED  BY <3>1, <3>2, <3>3
  <2>6. From(e, i) \in Seq(Chars) /\ IsSuffix(From(e, i), e)
    BY SuffixFrom
  <2>7. joined = [chars |-> e, head |-> h, tail |-> From(e, i)]
    BY <2>2, <2>3, <2>5
  <2>8. joined \in Chunks /\ joined.chars = e /\ joined.head = h /\ joined.tail = From(e, i)
    BY <2>6, <2>7 DEF Chunks
  <2> QED  BY <2>2, <2>3, <2>4, <2>6, <2>8
<1> HIDE DEF joined
<1>8. ASSUME NEW i \in 1..n
      PROVE  /\ all[i] \in Chunks /\ all[i].chars = ended[i]
             /\ IsPrefix(all[i].head, all[i].chars) /\ IsSuffix(all[i].tail, all[i].chars)
  <2>1. CASE i = 1 /\ p # <<>>
    <3>1. all[i] = joined /\ n >= 1 /\ ended[i] = ended[1]
      BY <2>1
    <3> QED  BY <1>7, <2>1, <3>1
  <2>2. CASE ~(i = 1 /\ p # <<>>)
    <3>1. all[i] = Line(ended[i])
      BY <2>2
    <3>2. PICK e \in Seq(Chars) : e = ended[i]
      BY <1>5
    <3> QED  BY <3>1, <3>2, LineOf
  <2> QED  BY <2>1, <2>2
<1>9. all \in [1..n -> Chunks]
  BY <1>8
<1> HIDE DEF all
<1>10. all \in Seq(Chunks) /\ Len(all) = n
  BY <1>9
<1>11. Pieces(all)
  BY <1>8, <1>10 DEF Pieces
<1>12. Got(all) \in Seq(Seq(Chars)) /\ Len(Got(all)) = n /\ \A i \in 1..n : Got(all)[i] = all[i].chars
  BY <1>10, ChunksOf
<1>13. Got(all) = ended
  BY <1>4, <1>8, <1>12, SameLinesEqual
<1> QED  BY <1>1, <1>2, <1>3, <1>6, <1>10, <1>11, <1>13

-----------------------------------------------------------------------------
(* The invariant of the lines.                                              *)

\* The invariant of which LinesOfText is a part.
Typed == lines \in Seq(Chunks)
ReadInv == DecoderInv /\ Typed /\ LinesInv /\ PiecesInv

LEMMA ReadStart ==
  ASSUME NEW s \in Seq(Chars)
  PROVE  /\ SubSeq(s, 1, 0) = <<>>
         /\ Read(<<>>).ended = <<>> /\ Read(<<>>).rest = <<>> /\ Out(<<>>).held = FALSE
<1>1. SubSeq(s, 1, 0) = <<>>
  BY SubSeqEmpty
<1>2. Out(<<>>).out = <<>> /\ Out(<<>>).held = FALSE
  BY DecodeNone DEF Out
<1>3. Read(<<>>).ended = <<>> /\ Read(<<>>).rest = <<>>
  BY <1>2, CutNone DEF Read
<1> QED  BY <1>1, <1>2, <1>3

LEMMA ReadInit ==
  ASSUME DecoderInit
  PROVE  ReadInv
<1>1. DecoderInv
  BY DecoderStarts
<1>2. lines = <<>> /\ at = 0 /\ dec = Fresh
  BY DEF DecoderInit
<1>3. PICK none \in Seq(Chunks) : none = <<>> /\ Len(none) = 0
  BY EmptySeq
<1>4. Typed
  BY <1>2, <1>3 DEF Typed
<1>5. PICK t \in Seq(Chars) : t = text
  BY <1>1 DEF DecoderInv
<1>6. SubSeq(text, 1, at) = <<>>
  BY <1>2, <1>5, ReadStart
<1>7. dec.pending = <<>> /\ dec.head = <<>> /\ ~dec.flushed /\ ~dec.skipping /\ dec.held = FALSE
  BY <1>2 DEF Fresh
<1>8. Got(lines) = <<>>
  BY <1>2, <1>3 DEF Got
<1>9. SameLines(Got(lines), Read(<<>>).ended)
  BY <1>5, <1>8, NoLines, ReadStart
<1>10. PendingInv(dec, Read(<<>>).rest, Out(<<>>).held)
  <2>1. Read(<<>>).rest = <<>> /\ Out(<<>>).held = FALSE
    BY <1>5, ReadStart
  <2> QED  BY <1>7, <2>1 DEF PendingInv, Kept
<1>11. at <= Len(text)
  BY <1>2, <1>5, Lens
<1>12. LinesInv
  BY <1>6, <1>7, <1>9, <1>10, <1>11 DEF LinesInv
<1>13. PiecesInv
  <2>1. Pieces(lines)
    BY <1>2, <1>3 DEF Pieces
  <2>2. IsPrefix(dec.head, dec.pending)
    BY <1>7, EmptySeq, PrefixItself
  <2> QED  BY <2>1, <2>2 DEF PiecesInv
<1> QED  BY <1>1, <1>4, <1>12, <1>13 DEF ReadInv

\* The bytes of a slice come after those that were read.
LEMMA SliceAfter ==
  ASSUME NEW s \in Seq(Chars), NEW a \in Nat, NEW n \in Nat \ {0}, a + n <= Len(s)
  PROVE  /\ SubSeq(s, 1, a) \in Seq(Chars) /\ SubSeq(s, a + 1, a + n) \in Seq(Chars)
         /\ SubSeq(s, 1, a + n) = SubSeq(s, 1, a) \o SubSeq(s, a + 1, a + n)
         /\ Len(SubSeq(s, a + 1, a + n)) = n
<1>0. PICK k \in Nat : k = Len(s)
  BY Lens
<1>1. PICK one \in Nat \ {0} : one = 1 /\ a + n <= k
  BY <1>0
<1>2. PICK u \in Seq(Chars) : u = SubSeq(s, one, a) /\ Len(u) = a /\ \A i \in 1..a : u[i] = s[i]
  <2>1. a <= Len(s)
    BY <1>0, <1>1
  <2>2. /\ SubSeq(s, one, a) \in Seq(Chars)
        /\ Len(SubSeq(s, one, a)) = IF one <= a THEN a - one + 1 ELSE 0
        /\ \A i \in 1..(a - one + 1) : SubSeq(s, one, a)[i] = s[one + i - 1]
    BY <2>1, Piece
  <2>3. a - one + 1 = a /\ (IF one <= a THEN a - one + 1 ELSE 0) = a /\ \A i \in 1..a : one + i - 1 = i
    BY <1>1
  <2>4. Len(SubSeq(s, one, a)) = a
    BY <2>2, <2>3
  <2>5. \A i \in 1..a : SubSeq(s, one, a)[i] = s[i]
    BY <2>2, <2>3
  <2> QED  BY <2>2, <2>4, <2>5
<1>3. PICK v \in Seq(Chars) : v = SubSeq(s, a + 1, a + n) /\ Len(v) = n /\ \A i \in 1..n : v[i] = s[a + i]
  <2>1. PICK f \in Nat \ {0}, g \in Nat : f = a + 1 /\ g = a + n /\ g <= Len(s) /\ f <= g
    BY <1>0, <1>1
  <2>2. /\ SubSeq(s, f, g) \in Seq(Chars)
        /\ Len(SubSeq(s, f, g)) = IF f <= g THEN g - f + 1 ELSE 0
        /\ \A i \in 1..(g - f + 1) : SubSeq(s, f, g)[i] = s[f + i - 1]
    BY <2>1, Piece
  <2>3. g - f + 1 = n /\ \A i \in 1..n : f + i - 1 = a + i
    BY <2>1
  <2>4. Len(SubSeq(s, f, g)) = n
    BY <2>1, <2>2, <2>3
  <2>5. \A i \in 1..n : SubSeq(s, f, g)[i] = s[a + i]
    BY <2>2, <2>3
  <2> QED  BY <2>1, <2>2, <2>4, <2>5
<1>4. PICK m \in Nat : m = a + n
  OBVIOUS
<1>5. PICK w \in Seq(Chars) : w = SubSeq(s, one, m) /\ Len(w) = m /\ \A i \in 1..m : w[i] = s[i]
  <2>1. m <= Len(s)
    BY <1>0, <1>1, <1>4
  <2>2. /\ SubSeq(s, one, m) \in Seq(Chars)
        /\ Len(SubSeq(s, one, m)) = IF one <= m THEN m - one + 1 ELSE 0
        /\ \A i \in 1..(m - one + 1) : SubSeq(s, one, m)[i] = s[one + i - 1]
    BY <2>1, Piece
  <2>3. m - one + 1 = m /\ (IF one <= m THEN m - one + 1 ELSE 0) = m /\ \A i \in 1..m : one + i - 1 = i
    BY <1>1
  <2>4. Len(SubSeq(s, one, m)) = m
    BY <2>2, <2>3
  <2>5. \A i \in 1..m : SubSeq(s, one, m)[i] = s[i]
    BY <2>2, <2>3
  <2> QED  BY <2>2, <2>4, <2>5
<1>6. PICK z \in Seq(Chars) : z = u \o v
  BY Joined
<1>7. Len(z) = m /\ (\A i \in 1..a : z[i] = u[i]) /\ \A i \in 1..n : z[a + i] = v[i]
  <2>1. /\ Len(u \o v) = Len(u) + Len(v)
        /\ \A i \in 1..Len(u) : (u \o v)[i] = u[i]
        /\ \A i \in 1..Len(v) : (u \o v)[Len(u) + i] = v[i]
    BY Joined
  <2> QED  BY <1>2, <1>3, <1>4, <1>6, <2>1
<1>8. ASSUME NEW i \in 1..m PROVE w[i] = z[i]
  <2>1. CASE i <= a
    <3>1. i \in 1..a
      BY <2>1
    <3> QED  BY <1>2, <1>5, <1>7, <3>1
  <2>2. CASE ~(i <= a)
    <3>1. PICK j \in 1..n : i = a + j
      <4>1. i - a \in 1..n /\ i = a + (i - a)
        BY <1>4, <2>2
      <4> QED  BY <4>1
    <3>2. z[i] = v[j] /\ v[j] = s[i]
      BY <1>3, <1>7, <3>1
    <3> QED  BY <1>5, <3>2
  <2> QED  BY <2>1, <2>2
<1>9. Len(w) = Len(z) /\ \A i \in 1..Len(w) : w[i] = z[i]
  BY <1>5, <1>7, <1>8
<1>10. w = z
  BY <1>9, SeqEqual
<1> QED  BY <1>1, <1>2, <1>3, <1>4, <1>5, <1>6, <1>10

\* The last byte of what was read; and a line, not settled yet, of what was read.
EndsIn(u, x) ==
  \E v \in Seq(Chars), one \in Seq(Chars), y \in Chars : u = v \o one /\ one = <<y>> /\ x = y
Holds(e, u) ==
  /\ Kept(e.pending, Read(u).rest) /\ (e.settled \/ e.pending = Read(u).rest)
  /\ e.held = Out(u).held

LEMMA UpToLast ==
  ASSUME NEW t \in Seq(Chars), NEW b \in Seq(Chars), b # <<>>
  PROVE  EndsIn(t \o b, b[Len(b)])
<1>1. PICK n \in 1..Len(b) : n = Len(b)
  <2>1. Len(b) \in Nat /\ Len(b) # 0
    BY Lens
  <2> QED  BY <2>1
<1>2. PICK a \in Seq(Chars), x \in Chars : a = SubSeq(b, 1, n - 1) /\ x = b[n] /\ SubSeq(b, 1, n) = a \o <<x>>
  BY PieceMore
<1>3. b = a \o <<x>>
  BY <1>1, <1>2, SubSeqFull
<1>4. (t \o a) \o <<x>> = t \o (a \o <<x>>)
  BY AddedChar
<1>5. t \o a \in Seq(Chars) /\ <<x>> \in Seq(Chars)
  BY Joined, OneLong
<1>6. x = b[Len(b)]
  BY <1>1, <1>2
<1> QED  BY <1>3, <1>4, <1>5, <1>6 DEF EndsIn

\* The pending line once characters were appended to it.
LEMMA NewPendingOf ==
  ASSUME NEW b \in Decoders, NEW c \in Seq(Chars), NEW e, e = NewPending(b, c)
  PROVE  /\ e.pending = Cut(b.pending, c).rest /\ e.held = b.held /\ e.flushed = b.flushed
         /\ e.settled = (Plain(c) /\ b.settled)
         /\ e.head = e.pending \/ (Plain(c) /\ e.head = b.head)
<1>1. PICK rest : rest = Cut(b.pending, c).rest
  OBVIOUS
<1>2. Newline \in ToSet(c) <=> ~Plain(c)
  BY PlainOf
<1>3. b.settled \in BOOLEAN
  BY DEF Decoders
<1>4. CASE ~Plain(c)
  <2>1. e = [b EXCEPT !.pending = rest, !.head = rest, !.settled = FALSE,
                      !.isSql = FALSE, !.valueStart = 0]
    BY <1>1, <1>2, <1>4 DEF NewPending
  <2>2. e.pending = rest /\ e.head = rest /\ e.settled = FALSE /\ e.held = b.held /\ e.flushed = b.flushed
    BY <2>1 DEF Decoders
  <2> QED  BY <1>1, <1>4, <2>2
<1>5. CASE Plain(c) /\ b.pending = <<>>
  <2>1. e = [b EXCEPT !.pending = rest, !.head = rest, !.isSql = FALSE]
    BY <1>1, <1>2, <1>5 DEF NewPending
  <2>2. /\ e.pending = rest /\ e.head = rest /\ e.settled = b.settled
        /\ e.held = b.held /\ e.flushed = b.flushed
    BY <2>1 DEF Decoders
  <2> QED  BY <1>1, <1>3, <1>5, <2>2
<1>6. CASE Plain(c) /\ b.pending # <<>>
  <2>1. e = [b EXCEPT !.pending = rest]
    BY <1>1, <1>2, <1>6 DEF NewPending
  <2>2. /\ e.pending = rest /\ e.head = b.head /\ e.settled = b.settled
        /\ e.held = b.held /\ e.flushed = b.flushed
    BY <2>1 DEF Decoders
  <2> QED  BY <1>1, <1>3, <1>6, <2>2
<1> QED  BY <1>4, <1>5, <1>6

\* The pending line once it was settled is what is kept of what was read.
LEMMA SettledPending ==
  ASSUME NEW u \in Seq(Chars), NEW x, EndsIn(u, x), NEW e, Holds(e, u),
         NEW f, Stays(f, e) \/ Skipped(f, e, x)
  PROVE  PendingInv(f, Read(u).rest, Out(u).held)
<1>0. PICK v \in Seq(Chars), one \in Seq(Chars), y \in Chars : u = v \o one /\ one = <<y>> /\ x = y
  BY DEF EndsIn
<1>1. PICK l \in Seq(Chars), h \in BOOLEAN :
        /\ l = Read(u).rest /\ h = Out(u).held
        /\ Kept(e.pending, l) /\ (e.settled \/ e.pending = l) /\ e.held = h
  BY ReadOf DEF Holds
<1>2. CASE Stays(f, e)
  <2>1. /\ ~f.skipping /\ f.held = h /\ f.pending = e.pending /\ (e.settled => f.settled)
    BY <1>1, <1>2 DEF Stays
  <2>2. Kept(f.pending, l)
    BY <1>1, <2>1
  <2>3. ~f.settled => f.pending = l
    BY <1>1, <2>1
  <2> QED  BY <1>1, <2>1, <2>2, <2>3 DEF PendingInv
<1>3. CASE Skipped(f, e, x)
  <2>1. f.skipping /\ e.pending = l /\ OpenLong(f.pending, l)
        /\ f.carried = IF x = Backslash THEN Run(l) ELSE 0
    BY <1>1, <1>3 DEF Skipped
  <2>2. PICK p : p = f.pending /\ OpenLong(p, Read(v \o <<y>>).rest)
    BY <1>0, <1>1, <2>1
  <2>3. Escapes(IF y = Backslash THEN Run(l) ELSE 0, l, h)
    BY <1>0, <1>1, <2>2, EscapesAfter
  <2>4. Skipping(f.pending, f.carried, l, h)
    BY <1>0, <2>1, <2>3 DEF Skipping
  <2> QED  BY <1>1, <2>1, <2>4 DEF PendingInv
<1> QED  BY <1>2, <1>3

\* The head piece begins the pending line.
LEMMA SettledHead ==
  ASSUME NEW b \in Decoders, IsPrefix(b.head, b.pending), NEW c \in Seq(Chars), NEW e, e = NewPending(b, c),
         NEW f, f.pending \in Seq(Chars), NEW x, Stays(f, e) \/ Skipped(f, e, x)
  PROVE  IsPrefix(f.head, f.pending)
<1>1. PICK p \in Seq(Chars), g \in Seq(Chars) : p = b.pending /\ g = b.head /\ IsPrefix(g, p)
  BY DEF Decoders
<1>2. e.pending = Cut(b.pending, c).rest /\ (e.head = e.pending \/ (Plain(c) /\ e.head = b.head))
  BY NewPendingOf
<1>3. CASE f.head = f.pending
  BY <1>3, PrefixItself
<1>4. CASE f.head # f.pending
  <2>1. f.pending = e.pending /\ f.head = e.head
    BY <1>4 DEF Stays, Skipped
  <2>2. Plain(c) /\ e.head = g /\ e.pending = Cut(p, c).rest
    BY <1>1, <1>2, <1>4, <2>1
  <2>3. e.pending = p \o c
    BY <2>2, CutPlain
  <2>4. IsPrefix(g, p \o c)
    BY <1>1, PrefixJoined
  <2> QED  BY <2>1, <2>2, <2>3, <2>4
<1> QED  BY <1>3, <1>4

-----------------------------------------------------------------------------
(* A slice that is decoded.                                                 *)

LEMMA TextRead ==
  ASSUME NEW t \in Seq(Chars), NEW bytes \in Seq(Chars), bytes # <<>>,
         NEW d, OpenInv(d), ~d.flushed, IsPrefix(d.head, d.pending),
         NEW ls \in Seq(Chunks), SameLines(Got(ls), Read(t).ended), Pieces(ls),
         NEW given \in Outputs, Grows(t, t \o bytes, d.pending, given, d.settled),
         d.skipping => Len(given.out) >= 1 /\ given.out[1] \in {Quote, Newline},
         NEW f, f = SettlePending(NewPending([d EXCEPT !.skipping = FALSE, !.held = given.held], given.out),
                                  Appended(d, given.out), bytes[Len(bytes)])
  PROVE  LET u == t \o bytes
             ms == ls \o EndedLines(d, given.out)
         IN  /\ ~f.flushed /\ ms \in Seq(Chunks) /\ SameLines(Got(ms), Read(u).ended)
             /\ PendingInv(f, Read(u).rest, Out(u).held) /\ Pieces(ms) /\ IsPrefix(f.head, f.pending)
<1>1. PICK c \in Seq(Chars), h \in BOOLEAN : c = given.out /\ h = given.held
  BY DEF Outputs
<1>2. d \in Decoders /\ d.pending \in Seq(Chars) /\ d.head \in Seq(Chars) /\ d.settled \in BOOLEAN
  BY DEF OpenInv, Decoders
<1>0. PICK u \in Seq(Chars) : u = t \o bytes
  BY Joined
<1>3. PICK x : x = bytes[Len(bytes)] /\ EndsIn(u, x)
  BY <1>0, UpToLast
<1>4. PICK p \in Seq(Chars) : p = d.pending
  BY <1>2
<1>5. PICK ended \in Seq(Seq(Chars)) :
        /\ Read(u).ended = Read(t).ended \o ended /\ SameLines(Cut(p, c).ended, ended)
        /\ Kept(Cut(p, c).rest, Read(u).rest)
        /\ ~Plain(c) \/ ~d.settled => Cut(p, c).rest = Read(u).rest
        /\ Out(u).held = h
  BY <1>0, <1>1, <1>4 DEF Grows
<1>6. PICK b \in Decoders : /\ b = [d EXCEPT !.skipping = FALSE, !.held = h] /\ b.pending = p /\ b.head = d.head
                            /\ b.settled = d.settled /\ b.held = h /\ b.flushed = d.flushed
  <2> DEFINE was == [d EXCEPT !.skipping = FALSE, !.held = h]
  <2>1. /\ was \in Decoders /\ was.pending = d.pending /\ was.head = d.head
        /\ was.settled = d.settled /\ was.held = h /\ was.flushed = d.flushed
    BY <1>2 DEF Decoders
  <2> HIDE DEF was
  <2>2. was = [d EXCEPT !.skipping = FALSE, !.held = h]
    BY DEF was
  <2> QED  BY <1>4, <2>1, <2>2
<1>7. PICK e : e = NewPending(b, c)
  OBVIOUS
<1>8. Unsettled(e, Appended(d, c))
  <2>1. Unsettled(NewPending([d EXCEPT !.skipping = FALSE, !.held = h], c), Appended(d, c))
    BY <1>1, LineExtended
  <2> QED  BY <1>6, <1>7, <2>1
<1>9. PICK a : a = Appended(d, c)
  OBVIOUS
<1>10. f = SettlePending(e, a, x)
  <2>1. f = SettlePending(NewPending([d EXCEPT !.skipping = FALSE, !.held = h], c), Appended(d, c), x)
    BY <1>1, <1>3
  <2> QED  BY <1>6, <1>7, <1>9, <2>1
<1>11. Stays(f, e) \/ Skipped(f, e, x)
  BY <1>8, <1>9, <1>10, KeepsLine
<1>12. OpenInv(f)
  BY <1>8, <1>9, <1>10, SettleAppended
<1>13. e \in Decoders /\ ~e.flushed
  BY <1>8 DEF Unsettled
<1>14. f \in Decoders /\ f.settled \in BOOLEAN /\ f.pending \in Seq(Chars)
  BY <1>12 DEF OpenInv, Decoders
<1>15. ~f.flushed
  BY <1>11, <1>13 DEF Stays, Skipped
<1>16. /\ e.pending = Cut(p, c).rest /\ e.held = h /\ e.settled = (Plain(c) /\ d.settled)
  <2>1. /\ e.pending = Cut(b.pending, c).rest /\ e.held = b.held /\ e.settled = (Plain(c) /\ b.settled)
    BY <1>7, NewPendingOf
  <2> QED  BY <1>6, <2>1
<1>17. PendingInv(f, Read(u).rest, Out(u).held)
  <2>1. ~Plain(c) \/ ~d.settled \/ e.settled
    BY <1>16
  <2>2. Holds(e, u)
    BY <1>5, <1>16, <2>1 DEF Holds
  <2> QED  BY <1>3, <1>11, <2>2, SettledPending
<1>18. IsPrefix(f.head, f.pending)
  <2>1. IsPrefix(b.head, b.pending)
    BY <1>4, <1>6
  <2> QED  BY <1>7, <1>11, <1>14, <2>1, SettledHead
<1>19. PICK ns \in Seq(Chunks) : ns = EndedLines(d, c) /\ Pieces(ns) /\ Got(ns) = Cut(p, c).ended
  BY <1>2, <1>4, EndedOf
<1>20. ls \o ns \in Seq(Chunks) /\ Got(ls \o ns) = Got(ls) \o Got(ns) /\ Pieces(ls \o ns)
  BY <1>19, GotMore
<1>21. SameLines(Got(ls \o ns), Read(u).ended)
  <2>1. PICK g \in Seq(Seq(Chars)) : g = Got(ls)
    BY ChunksOf, ChunksJoined
  <2>2. PICK r \in Seq(Seq(Chars)) : r = Read(t).ended
    BY ReadOf
  <2>3. PICK w \in Seq(Seq(Chars)) : w = Got(ns)
    BY ChunksOf, ChunksJoined
  <2>4. SameLines(g, r) /\ SameLines(w, ended)
    BY <1>5, <1>19, <2>1, <2>2, <2>3
  <2>5. SameLines(g \o w, r \o ended)
    BY <2>4, SameLinesJoined
  <2> QED  BY <1>5, <1>20, <2>1, <2>2, <2>3, <2>5
<1> QED  BY <1>0, <1>1, <1>15, <1>17, <1>18, <1>19, <1>20, <1>21

\* What was read of a log that was not flushed.
Holding(t, d, ls) ==
  /\ ~d.flushed /\ ls \in Seq(Chunks) /\ SameLines(Got(ls), Read(t).ended)
  /\ PendingInv(d, Read(t).rest, Out(t).held) /\ Pieces(ls) /\ IsPrefix(d.head, d.pending)

LEMMA ReadText ==
  ASSUME OpenInv(dec), NEW t \in Seq(Chars), NEW bytes \in Seq(Chars), bytes # <<>>,
         Holding(t, dec, lines), ~(dec.skipping /\ StillSkipping(bytes)), DecodeText(bytes)
  PROVE  Holding(t \o bytes, dec', lines')
<1>1. PICK d, ls : d = dec /\ ls = lines
  OBVIOUS
<1>2. /\ OpenInv(d) /\ ~d.flushed /\ IsPrefix(d.head, d.pending) /\ ls \in Seq(Chunks)
      /\ SameLines(Got(ls), Read(t).ended) /\ Pieces(ls)
  BY <1>1 DEF Holding
<1>3. dec \in Decoders /\ (dec.skipping => dec.settled /\ ~dec.held) /\ PendingInv(dec, Read(t).rest, Out(t).held)
  BY <1>1, <1>2 DEF Holding, OpenInv
<1>4. d.held \in BOOLEAN /\ (d.skipping => d.held = FALSE)
  BY <1>1, <1>3 DEF Decoders
<1>5. PICK rest \in Seq(Chars) :
        /\ rest = Resumed(bytes)
        /\ d.skipping => Len(rest) >= 1 /\ rest[1] \in {Quote, Newline}
  BY <1>1, SliceResumed
<1>6. PICK given \in Outputs :
        /\ given = DecodeBytes(d.held, rest)
        /\ d.skipping => Len(given.out) >= 1 /\ given.out[1] \in {Quote, Newline}
  <2>1. /\ DecodeBytes(d.held, rest) \in Outputs
        /\ ~d.held /\ Len(rest) >= 1 /\ rest[1] \in {Quote, Newline} =>
             Len(DecodeBytes(d.held, rest).out) >= 1 /\ DecodeBytes(d.held, rest).out[1] = rest[1]
    BY <1>4, BytesDecoded
  <2> QED  BY <1>4, <1>5, <2>1
<1>7. Grows(t, t \o bytes, d.pending, given, d.settled)
  <2>1. Grows(t, t \o bytes, dec.pending, DecodeBytes(dec.held, Resumed(bytes)), dec.settled)
    BY <1>3, SliceGrows
  <2> QED  BY <1>1, <1>5, <1>6, <2>1
<1>8. PICK f : f = SettlePending(NewPending([d EXCEPT !.skipping = FALSE, !.held = given.held], given.out),
                                 Appended(d, given.out), bytes[Len(bytes)])
  OBVIOUS
<1>9. dec' = f /\ lines' = ls \o EndedLines(d, given.out)
  BY <1>1, <1>5, <1>6, <1>8 DEF DecodeText
<1>10. LET ms == ls \o EndedLines(d, given.out)
       IN  /\ ~f.flushed /\ ms \in Seq(Chunks) /\ SameLines(Got(ms), Read(t \o bytes).ended)
           /\ PendingInv(f, Read(t \o bytes).rest, Out(t \o bytes).held)
           /\ Pieces(ms) /\ IsPrefix(f.head, f.pending)
  BY <1>2, <1>6, <1>7, <1>8, TextRead
<1>11. Holding(t \o bytes, f, ls \o EndedLines(d, given.out))
  BY <1>10 DEF Holding
<1> QED  BY <1>9, <1>11

LEMMA ReadSkip ==
  ASSUME OpenInv(dec), NEW t \in Seq(Chars), NEW bytes \in Seq(Chars),
         Holding(t, dec, lines), dec.skipping, StillSkipping(bytes), SkipSlice(bytes)
  PROVE  Holding(t \o bytes, dec', lines')
<1>1. PICK d, ls : d = dec /\ ls = lines
  OBVIOUS
<1>2. /\ d \in Decoders /\ d.carried \in Nat /\ d.skipping /\ ~d.flushed /\ IsPrefix(d.head, d.pending)
      /\ ls \in Seq(Chunks) /\ SameLines(Got(ls), Read(t).ended) /\ Pieces(ls)
  <2>1. d \in Decoders /\ d.skipping
    BY <1>1 DEF OpenInv
  <2> QED  BY <1>1, <2>1 DEF Holding, Decoders
<1>3. Skipping(dec.pending, dec.carried, Read(t).rest, Out(t).held)
  BY DEF Holding, PendingInv
<1>a. PICK k : k = Carried(bytes, Len(bytes), d.carried)
  OBVIOUS
<1>4. PICK u \in Seq(Chars) : u = t \o bytes /\ k = Carried(bytes, Len(bytes), d.carried)
  BY <1>a, Joined
<1>5. Read(u).ended = Read(t).ended /\ Skipping(d.pending, k, Read(u).rest, Out(u).held)
  BY <1>1, <1>2, <1>3, <1>4, SliceSkipped
<1> DEFINE e == [d EXCEPT !.carried = k]
<1>6. dec' = e /\ lines' = ls
  BY <1>1, <1>4 DEF SkipSlice, Carried
<1>7. /\ e.carried = k /\ e.pending = d.pending /\ e.head = d.head /\ e.skipping = d.skipping
      /\ e.flushed = d.flushed
  BY <1>2 DEF Decoders
<1> HIDE DEF e
<1>8. PendingInv(e, Read(u).rest, Out(u).held)
  BY <1>2, <1>5, <1>7 DEF PendingInv
<1>9. Holding(u, e, ls)
  BY <1>2, <1>5, <1>7, <1>8 DEF Holding
<1> QED  BY <1>4, <1>6, <1>9

LEMMA SliceHeld ==
  ASSUME ReadInv, NEW n \in 1..MaxSlice, DecodeSlice(n)
  PROVE  Typed' /\ LinesInv' /\ PiecesInv'
<1>2. PICK w \in Seq(Chars), a \in Nat : w = text /\ a = at
  BY DEF ReadInv, DecoderInv
<1>3. PICK k \in Nat \ {0} : k = n
  BY DecoderAssumption DEF DecoderAssumption
<1>4. ~dec.flushed /\ a + k <= Len(w) /\ text' = w /\ at' = a + k
  BY <1>2, <1>3 DEF DecodeSlice
<1>5. PICK t \in Seq(Chars), bytes \in Seq(Chars) :
        /\ t = SubSeq(w, 1, a) /\ bytes = SubSeq(w, a + 1, a + k)
        /\ SubSeq(w, 1, a + k) = t \o bytes /\ Len(bytes) = k
  BY <1>4, SliceAfter, ZenonT(60)
<1>6. bytes # <<>>
  BY <1>5, Lens
<1>7. Holding(t, dec, lines) /\ OpenInv(dec)
  BY <1>2, <1>4, <1>5 DEF ReadInv, Typed, LinesInv, PiecesInv, DecoderInv, Holding
<1>8. IF dec.skipping /\ StillSkipping(bytes) THEN SkipSlice(bytes) ELSE DecodeText(bytes)
  BY <1>2, <1>3, <1>5 DEF DecodeSlice
<1>9. Holding(t \o bytes, dec', lines')
  BY <1>6, <1>7, <1>8, ReadText, ReadSkip
<1>10. PICK e, ms, u : e = dec' /\ ms = lines' /\ u = t \o bytes
  OBVIOUS
<1>11. /\ ~e.flushed /\ ms \in Seq(Chunks) /\ SameLines(Got(ms), Read(u).ended)
       /\ PendingInv(e, Read(u).rest, Out(u).held) /\ Pieces(ms) /\ IsPrefix(e.head, e.pending)
  BY <1>9, <1>10 DEF Holding
<1>12. Typed'
  BY <1>10, <1>11 DEF Typed
<1>13. PiecesInv'
  BY <1>10, <1>11 DEF PiecesInv
<1>14. LinesInv'
  <2>1. at' <= Len(text') /\ SubSeq(text', 1, at') = u
    BY <1>4, <1>5, <1>10
  <2>2. ~dec'.flushed
    BY <1>10, <1>11
  <2>3. SameLines(Got(lines'), Read(SubSeq(text', 1, at')).ended)
    BY <1>10, <1>11, <2>1
  <2>4. PendingInv(dec', Read(SubSeq(text', 1, at')).rest, Out(SubSeq(text', 1, at')).held)
    BY <1>10, <1>11, <2>1
  <2> QED  BY <2>1, <2>2, <2>3, <2>4 DEF LinesInv
<1> QED  BY <1>12, <1>13, <1>14

LEMMA SliceRead ==
  ASSUME ReadInv, NEW n \in 1..MaxSlice, DecodeSlice(n)
  PROVE  ReadInv'
<1>1. DecoderInv /\ DecoderNext
  BY DEF ReadInv, DecoderNext
<1>2. DecoderInv'
  BY <1>1, OpenStep
<1>3. Typed' /\ LinesInv' /\ PiecesInv'
  BY SliceHeld
<1> QED  BY <1>2, <1>3 DEF ReadInv


-----------------------------------------------------------------------------
(* The last line.                                                           *)

\* The character that is left of an unfinished one.
Unfinished(waits) == IF waits THEN <<"?">> ELSE <<>>

LEMMA UnfinishedOf ==
  ASSUME NEW h \in BOOLEAN
  PROVE  Unfinished(h) \in Seq(Chars) /\ Plain(Unfinished(h))
<1>1. "?" \in Chars /\ "?" # Newline
  BY DEF Chars, Newline
<1>2. PICK one \in Seq(Chars) : one = <<"?">> /\ Len(one) = 1 /\ one[1] = "?"
  BY <1>1, OneLong
<1>3. Plain(one)
  BY <1>1, <1>2 DEF Plain
<1> QED  BY <1>2, <1>3, EmptySeq, PlainOf DEF Unfinished

LEMMA CutPlainLast ==
  ASSUME NEW line \in Seq(Chars), NEW a \in Seq(Chars), NEW b \in Seq(Chars), Plain(b)
  PROVE  Cut(line, a \o b).ended = Cut(line, a).ended /\ Cut(line, a \o b).rest = Cut(line, a).rest \o b
<1>1. Cut(line, a \o b).ended = Cut(line, a).ended \o Cut(Cut(line, a).rest, b).ended
      /\ Cut(line, a \o b).rest = Cut(Cut(line, a).rest, b).rest
  BY CutJoined
<1>2. Cut(line, a) \in Cuts
  BY CutType
<1>3. PICK r \in Seq(Chars) : r = Cut(line, a).rest
  BY <1>2 DEF Cuts
<1>4. Cut(r, b).ended = <<>> /\ Cut(r, b).rest = r \o b
  BY CutPlain
<1>5. PICK e \in Seq(Seq(Chars)) : e = Cut(line, a).ended
  BY <1>2 DEF Cuts
<1>6. e \o <<>> = e
  BY ConcatEmptySeq
<1> QED  BY <1>1, <1>3, <1>4, <1>5, <1>6

LEMMA NewlineChar == Newline \in Chars
BY DEF Chars

LEMMA WholeOf ==
  ASSUME NEW s \in Seq(Chars), s = text, NEW z, z = Read(s).rest \o Unfinished(Out(s).held)
  PROVE  /\ z \in Seq(Chars)
         /\ z = <<>> => WholeLines = Read(s).ended
         /\ z # <<>> => WholeLines = Read(s).ended \o <<z>>
<1>0. Newline \in Chars
  BY NewlineChar
<1>1. PICK out \in Seq(Chars), h \in BOOLEAN, l \in Seq(Chars), read \in Seq(Seq(Chars)) :
        out = Out(s).out /\ h = Out(s).held /\ l = Read(s).rest /\ read = Read(s).ended
  BY ReadOf
<1>2. PICK q \in Seq(Chars) : q = Unfinished(h) /\ Plain(q)
  BY UnfinishedOf
<1>3. PICK none \in Seq(Chars) : none = <<>>
  BY EmptySeq
<1>4. PICK all \in Seq(Chars) : all = out \o q
  BY Joined
<1>5. Cut(none, out).ended = read /\ Cut(none, out).rest = l
  BY <1>1, <1>3 DEF Read
<1>a. Cut(none, all).ended = read /\ Cut(none, all).rest = z
  <2>1. z = l \o q
    BY <1>1, <1>2
  <2>2. Cut(none, out \o q).ended = Cut(none, out).ended /\ Cut(none, out \o q).rest = Cut(none, out).rest \o q
    <3>1. Plain(q)
      BY <1>2
    <3> QED  BY <3>1, CutPlainLast
  <2> QED  BY <1>4, <1>5, <2>1, <2>2
<1>b. PICK c \in Cuts : c = Cut(none, all)
  BY CutType
<1>9. c = Cut(none, all) /\ c.ended = read /\ c.rest = z
  BY <1>a, <1>b
<1>11. WholeLines = CutAt(c, Newline).ended
  <2>1. WholeLines = Cut(<<>>, (Out(s).out \o Unfinished(Out(s).held)) \o <<Newline>>).ended
    BY DEF WholeLines, Out, Unfinished
  <2>2. WholeLines = Cut(none, all \o <<Newline>>).ended
    BY <1>1, <1>2, <1>3, <1>4, <2>1
  <2>3. Cut(none, all \o <<Newline>>) = CutAt(Cut(none, all), Newline)
    BY <1>0, CutMore
  <2> QED  BY <1>9, <2>2, <2>3
<1>12. WholeLines = IF c.rest = <<>> THEN c.ended ELSE c.ended \o <<c.rest>>
  BY <1>0, <1>11, CutAtType
<1>13. z \in Seq(Chars)
  BY <1>9 DEF Cuts
<1> QED  BY <1>1, <1>9, <1>12, <1>13

\* What is pending when the log ends may be returned of its last line.
LEMMA LastReturned ==
  ASSUME NEW d \in Decoders, d.skipping => ~d.held, NEW l \in Seq(Chars), NEW h \in BOOLEAN,
         PendingInv(d, l, h)
  PROVE  Returned(d.pending \o Unfinished(d.held), l \o Unfinished(h))
<1>1. PICK p \in Seq(Chars), w \in BOOLEAN : p = d.pending /\ w = d.held
  BY DEF Decoders
<1>2. "?" \in Chars /\ "?" # Quote
  BY DEF Chars, Quote
<1>3. p \o <<>> = p /\ l \o <<>> = l
  BY ConcatEmptySeq
<1>4. CASE d.skipping
  <2>1. w = FALSE /\ OpenLong(p, l)
    BY <1>1, <1>4 DEF PendingInv, Skipping
  <2>2. CASE h = TRUE
    <3>1. PICK m \in Seq(Chars) : m = l \o <<"?">>
      BY <1>2, Longer
    <3>2. OpenLong(p, l \o <<"?">>)
      BY <1>2, <2>1, OpenLongStep
    <3>3. Returned(p, m)
      BY <3>1, <3>2, OpenReturned
    <3>4. d.pending \o Unfinished(d.held) = p /\ l \o Unfinished(h) = m
      BY <1>1, <1>3, <2>1, <2>2, <3>1 DEF Unfinished
    <3> QED  BY <3>3, <3>4
  <2>3. CASE h = FALSE
    <3>1. Returned(p, l)
      BY <2>1, OpenReturned
    <3>2. d.pending \o Unfinished(d.held) = p /\ l \o Unfinished(h) = l
      BY <1>1, <1>3, <2>1, <2>3 DEF Unfinished
    <3> QED  BY <3>1, <3>2
  <2> QED  BY <2>2, <2>3
<1>5. CASE ~d.skipping
  <2>1. w = h /\ Kept(p, l)
    BY <1>1, <1>5 DEF PendingInv
  <2>2. CASE h = TRUE
    <3>1. PICK m \in Seq(Chars), r \in Seq(Chars) : m = l \o <<"?">> /\ r = p \o <<"?">>
      BY <1>2, Longer
    <3>2. Kept(p \o <<"?">>, l \o <<"?">>)
      BY <1>2, <2>1, KeptMore
    <3>3. Returned(r, m)
      BY <3>1, <3>2, KeptReturned
    <3>4. d.pending \o Unfinished(d.held) = r /\ l \o Unfinished(h) = m
      BY <1>1, <2>1, <2>2, <3>1 DEF Unfinished
    <3> QED  BY <3>3, <3>4
  <2>3. CASE h = FALSE
    <3>1. Returned(p, l)
      BY <2>1, KeptReturned
    <3>2. d.pending \o Unfinished(d.held) = p /\ l \o Unfinished(h) = l
      BY <1>1, <1>3, <2>1, <2>3 DEF Unfinished
    <3> QED  BY <3>1, <3>2
  <2> QED  BY <2>2, <2>3
<1> QED  BY <1>4, <1>5


\* What is returned once the log ended are its lines.
LEMMA FlushRead ==
  ASSUME ReadInv, Flush
  PROVE  Typed' /\ LinesInv' /\ PiecesInv'
<1>1. PICK d, ls : d = dec /\ ls = lines
  OBVIOUS
<1>2. PICK s \in Seq(Chars) : s = text
  BY DEF ReadInv, DecoderInv
<1>3. ~d.flushed /\ at = Len(s) /\ d \in Decoders /\ (d.skipping => ~d.held) /\ ls \in Seq(Chunks)
  <2>1. ~d.flushed /\ at = Len(s) /\ OpenInv(d)
    BY <1>1, <1>2 DEF Flush, ReadInv, DecoderInv
  <2>2. ls \in Seq(Chunks)
    BY <1>1 DEF ReadInv, Typed
  <2> QED  BY <2>1, <2>2 DEF OpenInv
<1>4. SubSeq(s, 1, at) = s
  BY <1>3, SubSeqFull
<1>5. SameLines(Got(ls), Read(s).ended) /\ PendingInv(d, Read(s).rest, Out(s).held) /\ Pieces(ls)
  BY <1>1, <1>2, <1>3, <1>4 DEF ReadInv, LinesInv, PiecesInv
<1>6. PICK l \in Seq(Chars), h \in BOOLEAN, read \in Seq(Seq(Chars)) :
        l = Read(s).rest /\ h = Out(s).held /\ read = Read(s).ended
  BY ReadOf
<1>7. PICK last \in Seq(Chars) : last = d.pending \o Unfinished(d.held)
  <2>1. PICK w \in BOOLEAN, p \in Seq(Chars) : w = d.held /\ p = d.pending
    BY <1>3 DEF Decoders
  <2> QED  BY <2>1, UnfinishedOf, Joined
<1>8. PICK z \in Seq(Chars) :
        /\ z = l \o Unfinished(h)
        /\ z = <<>> => WholeLines = read
        /\ z # <<>> => WholeLines = read \o <<z>>
  BY <1>2, <1>6, WholeOf
<1>9. Returned(last, z) /\ (last = <<>> <=> z = <<>>)
  <2>1. Returned(d.pending \o Unfinished(d.held), l \o Unfinished(h))
    BY <1>3, <1>5, <1>6, LastReturned
  <2>2. Returned(last, z)
    BY <1>7, <1>8, <2>1
  <2> QED  BY <2>2, ReturnedOf
<1>10. lines' = IF last = <<>> THEN ls ELSE Append(ls, Line(last))
  BY <1>1, <1>7 DEF Flush, Unfinished
<1>11. PICK ms \in Seq(Chunks) : ms = lines' /\ SameLines(Got(ms), WholeLines) /\ Pieces(ms)
  <2>1. CASE last = <<>>
    BY <1>3, <1>5, <1>6, <1>8, <1>9, <1>10, <2>1
  <2>2. CASE last # <<>>
    <3>1. /\ Line(last) \in Chunks /\ Line(last).chars = last
          /\ IsPrefix(Line(last).head, Line(last).chars) /\ IsSuffix(Line(last).tail, Line(last).chars)
      BY LineOf
    <3>2. PICK one \in Seq(Chunks) : one = <<Line(last)>> /\ Len(one) = 1 /\ one[1] = Line(last)
      BY <3>1, OneLong
    <3>3. Pieces(one)
      BY <3>1, <3>2 DEF Pieces
    <3>4. Got(one) = <<last>>
      BY <3>1, <3>2 DEF Got
    <3>5. lines' = ls \o one
      BY <1>3, <1>10, <2>2, <3>1, <3>2, AppendIsConcat
    <3>6. ls \o one \in Seq(Chunks) /\ Got(ls \o one) = Got(ls) \o Got(one) /\ Pieces(ls \o one)
      BY <1>3, <1>5, <3>3, GotMore
    <3>7. SameLines(Got(ls) \o <<last>>, read \o <<z>>)
      <4>1. PICK g \in Seq(Seq(Chars)) : g = Got(ls)
        BY <1>3, ChunksOf, ChunksJoined
      <4>2. PICK a \in Seq(Seq(Chars)), b \in Seq(Seq(Chars)) : a = <<last>> /\ b = <<z>> /\ SameLines(a, b)
        BY <1>9, SameLine
      <4>3. SameLines(g, read)
        BY <1>5, <1>6, <4>1
      <4>4. SameLines(g \o a, read \o b)
        BY <4>2, <4>3, SameLinesJoined
      <4> QED  BY <4>1, <4>2, <4>4
    <3>8. WholeLines = read \o <<z>>
      BY <1>8, <1>9, <2>2
    <3>9. SameLines(Got(ls \o one), WholeLines)
      BY <3>4, <3>6, <3>7, <3>8
    <3> QED  BY <3>5, <3>6, <3>9
  <2> QED  BY <2>1, <2>2
<1>12. PICK e : e = dec' /\ e.flushed
  <2> DEFINE w == [d EXCEPT !.pending = <<>>, !.held = FALSE, !.flushed = TRUE]
  <2>1. dec' = w
    BY <1>1 DEF Flush
  <2>2. w.flushed
    BY <1>3 DEF Decoders
  <2> QED  BY <2>1, <2>2
<1>13. text' = text /\ at' = at /\ at' <= Len(text')
  <2>1. text' = text /\ at' = at
    BY DEF Flush
  <2>2. at <= Len(text)
    BY DEF ReadInv, LinesInv
  <2> QED  BY <2>1, <2>2
<1>14. WholeLines' = WholeLines
  BY <1>13 DEF WholeLines
<1>15. SameLines(Got(lines'), WholeLines')
  BY <1>11, <1>14
<1>16. Typed' /\ PiecesInv'
  BY <1>11, <1>12 DEF Typed, PiecesInv
<1>17. LinesInv'
  BY <1>12, <1>13, <1>15 DEF LinesInv
<1> QED  BY <1>16, <1>17

LEMMA ReadStep ==
  ASSUME ReadInv, [DecoderNext]_decoderVars
  PROVE  ReadInv'
<1>1. CASE UNCHANGED decoderVars
  <2>1. text' = text /\ at' = at /\ dec' = dec /\ lines' = lines
    BY <1>1 DEF decoderVars
  <2>2. WholeLines' = WholeLines
    BY <2>1 DEF WholeLines
  <2>3. DecoderInv'
    BY <1>1, OpenStep DEF ReadInv
  <2>4. Typed' /\ PiecesInv'
    BY <2>1 DEF ReadInv, Typed, PiecesInv
  <2>5. LinesInv'
    BY <2>1, <2>2 DEF ReadInv, LinesInv
  <2> QED  BY <2>3, <2>4, <2>5 DEF ReadInv
<1>2. CASE Flush
  <2>1. DecoderInv'
    BY <1>2, OpenStep DEF ReadInv
  <2> QED  BY <1>2, <2>1, FlushRead DEF ReadInv
<1> QED  BY <1>1, <1>2, SliceRead DEF DecoderNext

LEMMA MoreLines ==
  ASSUME NEW a \in Seq(Seq(Chars)), NEW b \in Seq(Seq(Chars)), NEW c \in Seq(Seq(Chars))
  PROVE  (a \o b) \o c = a \o (b \o c) /\ b \o c \in Seq(Seq(Chars))
<1>1. \A S : \A x, y, z \in Seq(S) : (x \o y) \o z = x \o (y \o z)
  BY ConcatAssociative
<1> QED  BY <1>1, LinesJoined, SMTT(40)

\* The lines of what was read are lines of the whole text.
LEMMA ReadLines ==
  ASSUME NEW s \in Seq(Chars), s = text, NEW a \in Nat, a <= Len(s)
  PROVE  \E more \in Seq(Seq(Chars)) : WholeLines = Read(SubSeq(s, 1, a)).ended \o more
<1>1. PICK z \in Seq(Chars) :
        /\ z = <<>> => WholeLines = Read(s).ended
        /\ z # <<>> => WholeLines = Read(s).ended \o <<z>>
  BY WholeOf
<1>2. PICK last \in Seq(Seq(Chars)) : WholeLines = Read(s).ended \o last
  <2>1. CASE z = <<>>
    <3>1. PICK read \in Seq(Seq(Chars)) : read = Read(s).ended
      BY ReadOf
    <3>2. read \o <<>> = read /\ <<>> \in Seq(Seq(Chars))
      BY ConcatEmptySeq, EmptySeq
    <3> QED  BY <1>1, <2>1, <3>1, <3>2
  <2>2. CASE z # <<>>
    <3>1. <<z>> \in Seq(Seq(Chars))
      BY OneLong
    <3> QED  BY <1>1, <2>2, <3>1
  <2> QED  BY <2>1, <2>2
<1>3. PICK k \in Nat : k = Len(s) /\ a <= k
  BY Lens
<1>4. CASE a = k
  <2>1. SubSeq(s, 1, a) = s
    BY <1>3, <1>4, SubSeqFull
  <2> QED  BY <1>2, <2>1
<1>5. CASE a # k
  <2>1. PICK n \in Nat \ {0} : n = k - a /\ a + n = k
    <3>1. k - a \in Nat \ {0} /\ a + (k - a) = k
      BY <1>3, <1>5
    <3> QED  BY <3>1
  <2>2. PICK t \in Seq(Chars), b \in Seq(Chars) : t = SubSeq(s, 1, a) /\ SubSeq(s, 1, k) = t \o b
    <3>1. a + n <= Len(s)
      BY <1>3, <2>1
    <3>2. /\ SubSeq(s, 1, a) \in Seq(Chars) /\ SubSeq(s, a + 1, a + n) \in Seq(Chars)
          /\ SubSeq(s, 1, a + n) = SubSeq(s, 1, a) \o SubSeq(s, a + 1, a + n)
      BY <3>1, SliceAfter
    <3> QED  BY <2>1, <3>2
  <2>3. s = t \o b
    BY <1>3, <2>2, SubSeqFull
  <2>4. PICK ended \in Seq(Seq(Chars)) : Read(s).ended = Read(t).ended \o ended
    <3>1. /\ Cut(Read(t).rest, DecodeBytes(Out(t).held, b).out) \in Cuts
          /\ Read(t \o b).ended = Read(t).ended \o Cut(Read(t).rest, DecodeBytes(Out(t).held, b).out).ended
      BY ReadJoined
    <3> QED  BY <2>3, <3>1 DEF Cuts
  <2>5. PICK read \in Seq(Seq(Chars)) : read = Read(t).ended
    BY ReadOf
  <2>6. (read \o ended) \o last = read \o (ended \o last) /\ ended \o last \in Seq(Seq(Chars))
    BY MoreLines
  <2> QED  BY <1>2, <2>2, <2>4, <2>5, <2>6
<1> QED  BY <1>4, <1>5

\* Lines of the first of the whole text are what may be returned of those.
LEMMA FirstLines ==
  ASSUME NEW got, NEW read \in Seq(Seq(Chars)), NEW more \in Seq(Seq(Chars)), SameLines(got, read)
  PROVE  /\ Len(got) = Len(read) /\ Len(read) \in Nat
         /\ \A n \in 1..Len(got) : n <= Len(read \o more) /\ Returned(got[n], (read \o more)[n])
<1>1. PICK k \in Nat, m \in Nat : k = Len(read) /\ m = Len(more)
  BY LinesJoined
<1>2. /\ Len(read \o more) = k + m
      /\ \A i \in 1..(k + m) : (read \o more)[i] = IF i <= k THEN read[i] ELSE more[i - k]
  BY <1>1, LinesJoined
<1>3. Len(got) = k /\ \A n \in 1..k : Returned(got[n], read[n])
  BY <1>1 DEF SameLines
<1>4. ASSUME NEW n \in 1..k PROVE n <= k + m /\ n \in 1..(k + m) /\ n <= k
  OBVIOUS
<1> QED  BY <1>1, <1>2, <1>3, <1>4

LEMMA LinesGiven ==
  ASSUME ReadInv
  PROVE  LinesOfText
<1>1. PICK s \in Seq(Chars), a \in Nat, ls \in Seq(Chunks) : s = text /\ a = at /\ ls = lines
  BY DEF ReadInv, Typed, DecoderInv
<1>2. a <= Len(s) /\ Pieces(ls)
  BY <1>1 DEF ReadInv, LinesInv, PiecesInv
<1>3. PICK more \in Seq(Seq(Chars)), read \in Seq(Seq(Chars)) :
        /\ WholeLines = read \o more /\ SameLines(Got(ls), read)
        /\ dec.flushed => Len(read) = Len(WholeLines)
  <2>1. CASE ~dec.flushed
    <3>1. SameLines(Got(ls), Read(SubSeq(s, 1, a)).ended)
      BY <1>1, <2>1 DEF ReadInv, LinesInv
    <3>2. PICK more \in Seq(Seq(Chars)) : WholeLines = Read(SubSeq(s, 1, a)).ended \o more
      BY <1>1, <1>2, ReadLines
    <3>3. PICK read \in Seq(Seq(Chars)) : read = Read(SubSeq(s, 1, a)).ended
      <4>1. SubSeq(s, 1, a) \in Seq(Chars)
        BY <1>2, Piece
      <4> QED  BY <4>1, ReadOf
    <3> QED  BY <2>1, <3>1, <3>2, <3>3
  <2>2. CASE dec.flushed
    <3>1. SameLines(Got(ls), WholeLines)
      BY <1>1, <2>2 DEF ReadInv, LinesInv
    <3>2. PICK read \in Seq(Seq(Chars)) : read = WholeLines
      <4>1. PICK z \in Seq(Chars) :
              /\ z = <<>> => WholeLines = Read(s).ended
              /\ z # <<>> => WholeLines = Read(s).ended \o <<z>>
        BY <1>1, WholeOf
      <4>2. <<z>> \in Seq(Seq(Chars))
        BY OneLong
      <4>3. PICK first \in Seq(Seq(Chars)) : first = Read(s).ended
        BY ReadOf
      <4> QED  BY <4>1, <4>2, <4>3, LinesJoined
    <3>3. read \o <<>> = read /\ <<>> \in Seq(Seq(Chars))
      BY ConcatEmptySeq, EmptySeq
    <3> QED  BY <3>1, <3>2, <3>3
  <2> QED  BY <2>1, <2>2
<1>4. PICK k \in Nat : k = Len(ls)
  BY ChunksJoined
<1>5. /\ DOMAIN ls = 1..k /\ Len(Got(ls)) = k /\ \A i \in 1..k : Got(ls)[i] = ls[i].chars
  BY <1>4, ChunksOf, LenProperties
<1>6. /\ k = Len(read)
      /\ \A n \in 1..k : n <= Len(WholeLines) /\ Returned(Got(ls)[n], WholeLines[n])
  <2>1. /\ Len(Got(ls)) = Len(read)
        /\ \A n \in 1..Len(Got(ls)) : n <= Len(read \o more) /\ Returned(Got(ls)[n], (read \o more)[n])
    BY <1>3, FirstLines
  <2> QED  BY <1>3, <1>5, <2>1
<1>7. LinesWhole
  <2>1. ASSUME NEW n \in DOMAIN lines
        PROVE  /\ n <= Len(WholeLines)
               /\ \/ lines[n].chars = WholeLines[n]
                  \/ TooLong(WholeLines[n]) /\ lines[n].chars = Emptied(WholeLines[n])
    <3>1. n \in 1..k /\ lines[n].chars = Got(ls)[n]
      BY <1>1, <1>5
    <3>2. n <= Len(WholeLines) /\ Returned(lines[n].chars, WholeLines[n])
      BY <1>6, <3>1
    <3> QED  BY <3>2 DEF Returned
  <2>2. dec.flushed => Len(lines) = Len(WholeLines)
    BY <1>1, <1>3, <1>4, <1>6
  <2> QED  BY <2>1, <2>2 DEF LinesWhole
<1>8. PiecesOfLine
  BY <1>1, <1>2, <1>4, <1>5 DEF Pieces, PiecesOfLine
<1> QED  BY <1>7, <1>8 DEF LinesOfText

\* Every line that is returned is a line of the log, in order and whole but for a
\* description too long to be read, once the log ended they are all of them, and
\* what is reported of each are its beginning and its end: of any log, cut into
\* slices anywhere (buildChunkDecoder, decodeSlice, settlePending).
THEOREM LinesCorrect == DecoderSpec => []LinesOfText
<1>1. DecoderInit => ReadInv
  BY ReadInit
<1>2. ReadInv /\ [DecoderNext]_decoderVars => ReadInv'
  BY ReadStep
<1>3. ReadInv => LinesOfText
  BY LinesGiven
<1> QED  BY <1>1, <1>2, <1>3, PTL DEF DecoderSpec

=============================================================================
