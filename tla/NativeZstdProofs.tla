--------------------------- MODULE NativeZstdProofs ---------------------------
(***************************************************************************)
(* NativeZstd for every number of frames, pushes, chunks and threads and   *)
(* every size of its queue and buffers: what waits for its turn is         *)
(* bounded, and threads, queue and fallback together implement             *)
(* StreamDecoder.                                                          *)
(*                                                                         *)
(* Both need to know where every frame is.  OrderInv says it: the frames   *)
(* of the stream are, in order, those delivered, the one being delivered,  *)
(* the queued ones and those still to do; OutInv says that onChunk got     *)
(* exactly what the delivered ones hold, and of the current one what its   *)
(* thread's `taken` says.  ThreadInv and OwnedInv say that output can only *)
(* wait in the thread of the current or a queued frame, and how much;      *)
(* RoomInv, that the queue is below its limits where a frame is added.     *)
(***************************************************************************)
EXTENDS NativeZstd, FiniteSetTheorems, SequenceTheorems, WellFoundedInduction, TLAPS

Kinds == {"small", "foreign", "wide", "large"}
Frame == [lo : Nat, n : Nat, kind : Kinds, bad : BOOLEAN]
Thread == [made : Nat, taken : Nat, state : {"running", "ended", "error"}, paused : BOOLEAN]

TypeInv ==
  /\ frames \in Seq(Frame) /\ out \in Seq(Nat)
  /\ todo \in Seq(Nat) /\ queued \in Seq(Nat)
  /\ current \in Nat \cup {NoFrame}
  /\ final \in BOOLEAN /\ fallback \in BOOLEAN
  /\ caller \in {"idle", "reading", "pushing", "done", "failed"}
  /\ phase \in {"none", "split", "enqueue", "drain", "fallback", "deliver", "check", "wait"}
  /\ after \in {"split", "enqueue", "drain", "fallback"}
  /\ DOMAIN threads \subseteq Nat /\ threads \in [DOMAIN threads -> Thread]

\* The stream up to the end of its i-th frame.
End(i) == IF i = 0 THEN 0 ELSE frames[i].lo + frames[i].n
FramesInv == \A i \in 1..Len(frames) : frames[i].lo = End(i - 1)

\* The frames split off, and those of them no longer in the queue.
Split == Len(frames) - Len(todo)
Taken == Len(frames) - Len(todo) - Len(queued)
Delivering == phase \in {"deliver", "check", "wait"}

\* Every frame is in its place.
OrderInv ==
  /\ \A i \in 1..Len(queued) : queued[i] \in 1..Len(frames)
  /\ Len(todo) <= Len(frames)
  /\ caller # "failed" =>
       /\ Len(queued) + Len(todo) <= Len(frames)
       /\ \A i \in 1..Len(todo) : todo[i] = Split + i
       /\ \A i \in 1..Len(queued) : queued[i] = Taken + i
       /\ current # NoFrame => current = Taken /\ current \in 1..Len(frames)

\* What each phase of a push is about.
PhaseInv ==
  /\ Delivering <=> current # NoFrame
  /\ phase = "none" <=> caller # "pushing"
  /\ caller # "pushing" => todo = <<>>
  /\ fallback /\ caller # "failed" => phase \in {"split", "none"} /\ queued = <<>>
  /\ phase = "drain" \/ (Delivering /\ after = "drain") => todo = <<>> /\ final
  /\ phase \in {"check", "wait"} => current \in DOMAIN threads
  /\ phase = "check" => threads[current].taken = threads[current].made

\* A thread holds what its frame decompressed to and deliver() has not taken.
ThreadGood(f) ==
  LET t == threads[f]
  IN  /\ f \in 1..Split
      /\ t.taken <= t.made /\ t.made <= frames[f].n
      /\ t.made - t.taken <= MaxBuffered
      /\ t.state = "running" /\ ~t.paused => t.made - t.taken < MaxBuffered
      /\ t.state = "ended" => t.made = frames[f].n
      /\ caller # "failed" /\ f > Taken => t.taken = 0
ThreadInv == \A f \in DOMAIN threads : ThreadGood(f)

\* onChunk got what was delivered, in the order of the stream.
OutInv ==
  caller # "failed" =>
    /\ \A i \in 1..Len(out) : out[i] = i
    /\ Len(out) = IF current = NoFrame THEN End(Taken)
                  ELSE frames[current].lo
                         + (IF current \in DOMAIN threads THEN threads[current].taken ELSE 0)

InQueue(f) == \E i \in 1..Len(queued) : queued[i] = f

\* Only a current or queued frame has a thread at work or with output left.
OwnedInv ==
  \A f \in DOMAIN threads :
    threads[f].state = "running" \/ threads[f].taken < threads[f].made =>
      f = current \/ InQueue(f)
LargeInv ==
  \A i \in 1..Len(queued) : queued[i] \in DOMAIN threads => frames[queued[i]].kind = "large"

\* The loop over split() finds room in the queue.
Room == Len(queued) < MaxQueued /\ Cardinality(ThreadedQueued) < MaxThreads
RoomInv ==
  /\ Len(queued) <= MaxQueued /\ Cardinality(ThreadedQueued) <= MaxThreads
  /\ caller \in {"idle", "reading"} \/ phase = "split" \/ (Delivering /\ after = "split") => Room

NativeInv == TypeInv /\ FramesInv /\ OrderInv /\ PhaseInv /\ ThreadInv /\ OutInv
               /\ OwnedInv /\ LargeInv /\ RoomInv

-----------------------------------------------------------------------------
(* The layout of new frames.                                                *)

\* A set of numbers has a least one: the form of induction used below.
LEMMA LeastOf ==
  ASSUME NEW S \in SUBSET Nat, S # {}
  PROVE  \E x \in S : \A y \in S : x <= y
<1> DEFINE Less == {pair \in Nat \X Nat : pair[1] < pair[2]}
<1>1. IsWellFoundedOn(Less, Nat)
  BY NatLessThanWellFounded DEF OpToRel
<1> HIDE DEF Less
<1>2. PICK x \in S : \A y \in S : ~(<<y, x>> \in Less)
  BY <1>1, WFMin
<1>3. ASSUME NEW y \in S PROVE x <= y
  <2>1. x \in Nat /\ y \in Nat /\ <<y, x>> \notin Less
    BY <1>2
  <2>2. ~(y < x)
    BY <2>1 DEF Less
  <2> QED  BY <2>1, <2>2
<1> QED  BY <1>3

\* `end` is where each frame of s ends, laid out from the end of the stream on.
IsEnd(end, s, k) == end = [i \in 0..k |-> IF i = 0 THEN Total ELSE end[i - 1] + s[i].n]

LEMMA EndExists ==
  ASSUME NEW s, NEW k \in Nat
  PROVE  \E end : IsEnd(end, s, k)
<1> DEFINE Bad == {n \in Nat : ~\E end : IsEnd(end, s, n)}
<1>1. SUFFICES ASSUME Bad # {} PROVE FALSE
  OBVIOUS
<1> HIDE DEF Bad
<1>2. PICK m \in Bad : \A n \in Bad : m <= n
  BY <1>1, LeastOf DEF Bad
<1>3. m \in Nat /\ ~\E end : IsEnd(end, s, m)
  BY DEF Bad
<1>4. CASE m = 0
  <2>1. IsEnd([n \in 0..0 |-> Total], s, 0)
    BY DEF IsEnd
  <2> QED
    BY <1>3, <1>4, <2>1
<1>5. CASE m # 0
  <2>1. m - 1 \in Nat /\ ~(m <= m - 1)
    BY <1>3, <1>5
  <2>2. PICK end : IsEnd(end, s, m - 1)
    BY <1>2, <2>1 DEF Bad
  <2> DEFINE step(n) == IF n = 0 THEN Total ELSE end[n - 1] + s[n].n
             new == [n \in 0..m |-> step(n)]
  <2>3. end = [n \in 0..(m - 1) |-> step(n)]
    BY <2>2 DEF IsEnd
  <2> HIDE DEF step
  <2>4. \A n \in 0..(m - 1) : end[n] = step(n) /\ new[n] = step(n)
    BY <1>3, <2>3
  <2>5. \A n \in 0..m : step(n) = IF n = 0 THEN Total ELSE new[n - 1] + s[n].n
    <3>1. ASSUME NEW n \in 0..m, n # 0 PROVE end[n - 1] = new[n - 1]
      <4>1. n - 1 \in 0..(m - 1)
        BY <1>3, <3>1
      <4> QED
        BY <2>4, <4>1
    <3> QED
      BY <3>1 DEF step
  <2>6. IsEnd(new, s, m)
    <3>1. new = [n \in 0..m |-> step(n)]
      OBVIOUS
    <3> HIDE DEF new
    <3> QED
      BY <2>5, <3>1 DEF IsEnd
  <2> QED
    BY <1>3, <2>6
<1> QED
  BY <1>4, <1>5

\* The frames `new` follow each other from `from` on and hold at most C chunks each.
Follows(new, from, C) ==
  /\ new \in Seq(Frame)
  /\ \A i \in 1..Len(new) : new[i].lo = IF i = 1 THEN from ELSE new[i - 1].lo + new[i - 1].n
  /\ Len(new) # 0 => /\ (new[Len(new)].lo + new[Len(new)].n) - from \in 0..Len(new) * C

LEMMA LayFollows ==
  ASSUME Total \in Nat, NEW k \in Nat, NEW s \in [1..k -> Shapes]
  PROVE  Follows(Lay(s), Total, MaxChunks) /\ Len(Lay(s)) = k
<1> DEFINE end == CHOOSE e : IsEnd(e, s, k)
<1>1. Len(s) = k /\ DOMAIN s = 1..k
  OBVIOUS
<1>2. IsEnd(end, s, k)
  BY EndExists
<1>3. Lay(s) = [i \in 1..k |-> [lo |-> end[i - 1], n |-> s[i].n, kind |-> s[i].kind, bad |-> s[i].bad]]
  BY <1>1 DEF Lay, IsEnd
<1> HIDE DEF end
<1> DEFINE step(n) == IF n = 0 THEN Total ELSE end[n - 1] + s[n].n
<1>4. end = [n \in 0..k |-> step(n)]
  BY <1>2 DEF IsEnd
<1> HIDE DEF step
<1>5. \A n \in 0..k : end[n] = step(n)
  BY <1>4
<1>6. end[0] = Total
  BY <1>5 DEF step
<1>7. ASSUME NEW i \in 1..k PROVE end[i] = end[i - 1] + s[i].n
  <2>1. i \in 0..k /\ i # 0
    OBVIOUS
  <2> QED
    BY <1>5, <2>1 DEF step
<1>8. MaxChunks \in Nat /\ MaxChunks >= 1
  BY NativeAssumption DEF NativeAssumption
<1>9. ASSUME NEW i \in 1..k
      PROVE  s[i].n \in 1..MaxChunks /\ s[i].kind \in Kinds /\ s[i].bad \in BOOLEAN
  <2>1. s[i] \in Shapes
    OBVIOUS
  <2> QED
    BY <1>8, <2>1 DEF Shapes, Kinds
<1> DEFINE Good(i) == end[i] \in Nat /\ end[i] >= Total /\ end[i] <= Total + i * MaxChunks
           Bad == {i \in 0..k : ~Good(i)}
<1>10. \A i \in 0..k : Good(i)
  <2>1. SUFFICES ASSUME Bad # {} PROVE FALSE
    OBVIOUS
  <2>2. Bad \in SUBSET Nat
    OBVIOUS
  <2> HIDE DEF Bad
  <2>3. PICK m \in Bad : \A n \in Bad : m <= n
    BY <2>1, <2>2, LeastOf
  <2>4. m \in 0..k /\ ~Good(m)
    BY DEF Bad
  <2>5. m # 0
    BY <1>6, <1>8, <2>4
  <2>6. m \in 1..k /\ m - 1 \in 0..k /\ ~(m <= m - 1)
    BY <2>4, <2>5
  <2>7. Good(m - 1)
    BY <2>3, <2>6 DEF Bad
  <2>8. (m - 1) * MaxChunks + MaxChunks = m * MaxChunks
    BY <1>8, <2>6
  <2>9. (m - 1) * MaxChunks \in Int /\ m * MaxChunks \in Int
    BY <1>8, <2>6
  <2> DEFINE a == (m - 1) * MaxChunks
             b == m * MaxChunks
  <2>10. end[m] = end[m - 1] + s[m].n /\ s[m].n \in 1..MaxChunks
    BY <1>7, <1>9, <2>6
  <2>11. a + MaxChunks = b /\ a \in Int /\ b \in Int
    BY <2>8, <2>9
  <2>12. end[m - 1] \in Nat /\ end[m - 1] >= Total /\ end[m - 1] <= Total + a
    BY <2>7
  <2> HIDE DEF a, b
  <2>13. end[m] \in Nat /\ end[m] >= Total /\ end[m] <= Total + b
    <3>1. end[m] = end[m - 1] + s[m].n /\ s[m].n \in Nat /\ s[m].n <= MaxChunks /\ MaxChunks \in Int
      BY <1>8, <2>10
    <3> HIDE DEF Good
    <3> QED
      BY <2>11, <2>12, <3>1
  <2> QED
    BY <2>4, <2>13 DEF b
<1> HIDE DEF Good
<1>11. ASSUME NEW i \in 1..k
       PROVE  /\ Lay(s)[i] \in Frame
              /\ Lay(s)[i].lo = end[i - 1] /\ Lay(s)[i].n = s[i].n
  <2>1. end[i - 1] \in Nat
    <3>1. i - 1 \in 0..k
      OBVIOUS
    <3> QED
      BY <1>10, <3>1 DEF Good
  <2> QED
    BY <1>3, <1>8, <1>9, <2>1 DEF Frame
<1>12. Lay(s) \in Seq(Frame) /\ Len(Lay(s)) = k
  <2>1. Lay(s) = [i \in 1..k |-> Lay(s)[i]]
    BY <1>3
  <2>2. Lay(s) \in [1..k -> Frame]
    BY <1>11, <2>1
  <2> QED
    BY <2>2, SeqDef
<1>13. ASSUME NEW i \in 1..k
       PROVE  Lay(s)[i].lo = IF i = 1 THEN Total ELSE Lay(s)[i - 1].lo + Lay(s)[i - 1].n
  <2>1. CASE i = 1
    BY <1>6, <1>11, <2>1
  <2>2. CASE i # 1
    <3>1. i - 1 \in 1..k /\ (i - 1) - 1 \in 0..k
      BY <2>2
    <3> QED
      BY <1>7, <1>11, <2>2, <3>1
  <2> QED
    BY <2>1, <2>2
<1>14. ASSUME k # 0 PROVE (Lay(s)[k].lo + Lay(s)[k].n) - Total \in 0..k * MaxChunks
  <2>1. k \in 1..k /\ k \in 0..k
    BY <1>14
  <2>2. Lay(s)[k].lo + Lay(s)[k].n = end[k]
    BY <1>7, <1>11, <2>1
  <2>3. end[k] \in Nat /\ end[k] >= Total /\ end[k] <= Total + k * MaxChunks
    BY <1>10, <2>1 DEF Good
  <2>4. k * MaxChunks \in Int
    BY <1>8
  <2> DEFINE b == k * MaxChunks
  <2>5. b \in Int /\ end[k] <= Total + b
    BY <2>3, <2>4
  <2> HIDE DEF b
  <2>6. end[k] - Total \in 0..b
    BY <2>5, <2>3
  <2>7. (Lay(s)[k].lo + Lay(s)[k].n) - Total \in 0..b
    BY <2>2, <2>6
  <2> QED
    BY <2>7 DEF b
<1> QED
  BY <1>12, <1>13, <1>14 DEF Follows

LEMMA TotalEnd ==
  ASSUME TypeInv
  PROVE  Total \in Nat /\ Total = End(Len(frames)) /\ Len(frames) \in Nat
<1>1. Len(frames) \in Nat /\ (frames = <<>> <=> Len(frames) = 0)
  BY EmptySeq DEF TypeInv
<1>2. CASE frames = <<>>
  BY <1>1, <1>2 DEF Total, End
<1>3. CASE frames # <<>>
  <2>1. Len(frames) \in 1..Len(frames) /\ Len(frames) # 0
    BY <1>1, <1>3
  <2>2. frames[Len(frames)] \in Frame
    BY <2>1, ElementOfSeq DEF TypeInv
  <2>3. frames[Len(frames)].lo \in Nat /\ frames[Len(frames)].n \in Nat
    BY <2>2 DEF Frame
  <2> QED
    BY <1>1, <1>3, <2>1, <2>3 DEF Total, End, Last
<1> QED
  BY <1>2, <1>3

LEMMA FrameFields ==
  ASSUME TypeInv, NEW f \in 1..Len(frames)
  PROVE  /\ frames[f] \in Frame /\ frames[f].lo \in Nat /\ frames[f].n \in Nat
         /\ frames[f].kind \in Kinds /\ frames[f].bad \in BOOLEAN
<1>1. frames[f] \in Frame
  BY ElementOfSeq DEF TypeInv
<1> QED
  BY <1>1 DEF Frame

LEMMA ThreadFields ==
  ASSUME TypeInv, NEW f \in DOMAIN threads
  PROVE  /\ threads[f] \in Thread /\ threads[f].made \in Nat /\ threads[f].taken \in Nat
         /\ threads[f].state \in {"running", "ended", "error"} /\ threads[f].paused \in BOOLEAN
<1>1. threads[f] \in Thread
  BY DEF TypeInv
<1> QED
  BY <1>1 DEF Thread

\* The ends of the frames rise along the stream.
Rising(m) == \A i \in 0..m : End(i) \in Nat /\ End(i) <= End(m)

LEMMA EndsRise ==
  ASSUME TypeInv, FramesInv
  PROVE  \A m \in 0..Len(frames) : Rising(m)
<1> DEFINE Bad == {m \in 0..Len(frames) : ~Rising(m)}
<1>1. Len(frames) \in Nat
  BY TotalEnd
<1>2. SUFFICES ASSUME Bad # {} PROVE FALSE
  OBVIOUS
<1>3. Bad \in SUBSET Nat
  BY <1>1
<1> HIDE DEF Bad
<1>4. PICK m \in Bad : \A n \in Bad : m <= n
  BY <1>2, <1>3, LeastOf
<1>5. m \in 0..Len(frames) /\ ~Rising(m)
  BY DEF Bad
<1>6. m # 0
  BY <1>5 DEF Rising, End
<1>7. m \in 1..Len(frames) /\ m - 1 \in 0..Len(frames) /\ ~(m <= m - 1) /\ m \in Nat
  BY <1>1, <1>5, <1>6
<1>8. Rising(m - 1)
  BY <1>4, <1>7 DEF Bad
<1>9. frames[m].lo = End(m - 1) /\ frames[m].n \in Nat /\ End(m) = frames[m].lo + frames[m].n
  BY <1>6, <1>7, FrameFields DEF FramesInv, End
<1>10. End(m - 1) \in Nat
  BY <1>7, <1>8 DEF Rising
<1>11. End(m) \in Nat /\ End(m - 1) <= End(m)
  BY <1>9, <1>10
<1>12. ASSUME NEW i \in 0..m PROVE End(i) \in Nat /\ End(i) <= End(m)
  <2>1. CASE i = m
    BY <1>11, <2>1
  <2>2. CASE i # m
    <3>1. i \in 0..(m - 1)
      BY <1>7, <2>2
    <3>2. End(i) \in Nat /\ End(i) <= End(m - 1)
      BY <1>8, <3>1 DEF Rising
    <3> QED
      BY <1>10, <1>11, <3>2
  <2> QED
    BY <2>1, <2>2
<1> QED
  BY <1>5, <1>12 DEF Rising

\* A frame ends within the stream.
LEMMA FrameWithin ==
  ASSUME TypeInv, FramesInv, NEW f \in 1..Len(frames)
  PROVE  /\ frames[f].lo + frames[f].n \in Nat /\ frames[f].lo + frames[f].n <= Total
         /\ frames[f].lo = End(f - 1) /\ frames[f].lo + frames[f].n = End(f)
<1>1. Len(frames) \in Nat /\ Total = End(Len(frames))
  BY TotalEnd
<1>2. f \in 0..Len(frames) /\ Len(frames) \in 0..Len(frames)
  BY <1>1
<1>3. Rising(Len(frames))
  BY <1>2, EndsRise
<1>4. End(f) \in Nat /\ End(f) <= Total
  BY <1>1, <1>2, <1>3 DEF Rising
<1>5. frames[f].lo + frames[f].n = End(f)
  BY DEF End
<1> QED
  BY <1>4, <1>5 DEF FramesInv

\* New frames go at the end of the stream and leave it laid out.
Grows(k) ==
  /\ frames' \in Seq(Frame) /\ Len(frames') = Len(frames) + k
  /\ \A i \in 1..Len(frames) : frames'[i] = frames[i]
  /\ FramesInv'
  /\ Total' \in Nat /\ Total' - Total \in 0..k * MaxChunks

LEMMA StreamGrows ==
  ASSUME TypeInv, FramesInv, NEW new,
         Follows(new, Total, MaxChunks), frames' = frames \o new
  PROVE  Grows(Len(new))
<1>1. Len(frames) \in Nat /\ Total \in Nat /\ Total = End(Len(frames))
  BY TotalEnd
<1>2. new \in Seq(Frame) /\ frames \in Seq(Frame) /\ Len(new) \in Nat
  BY DEF Follows, TypeInv
<1>3. /\ frames' \in Seq(Frame) /\ Len(frames') = Len(frames) + Len(new)
      /\ \A i \in 1..Len(frames) : frames'[i] = frames[i]
      /\ \A i \in 1..Len(new) : frames'[Len(frames) + i] = new[i]
  BY <1>2
<1>4. ASSUME NEW i \in 0..Len(frames) PROVE End(i)' = End(i)
  <2>1. i # 0 => i \in 1..Len(frames)
    BY <1>1
  <2> QED
    BY <1>3, <2>1 DEF End
<1>5. ASSUME NEW i \in 1..Len(frames') PROVE frames'[i].lo = End(i - 1)'
  <2>1. CASE i \in 1..Len(frames)
    <3>1. i - 1 \in 0..Len(frames)
      BY <1>1, <2>1
    <3> QED
      BY <1>3, <1>4, <2>1, <3>1 DEF FramesInv
  <2>2. CASE i \notin 1..Len(frames)
    <3>1. PICK j \in 1..Len(new) : i = Len(frames) + j
      <4>1. i - Len(frames) \in 1..Len(new) /\ i = Len(frames) + (i - Len(frames))
        BY <1>1, <1>2, <1>3, <2>2
      <4> QED
        BY <4>1
    <3>2. frames'[i] = new[j]
      BY <1>3, <3>1
    <3>3. CASE j = 1
      <4>1. i - 1 = Len(frames) /\ Len(frames) \in 0..Len(frames)
        BY <1>1, <3>1, <3>3
      <4>2. frames'[i].lo = Total
        BY <3>2, <3>3, <3>1 DEF Follows
      <4> QED
        BY <1>1, <1>4, <4>1, <4>2
    <3>4. CASE j # 1
      <4>1. j - 1 \in 1..Len(new) /\ i - 1 = Len(frames) + (j - 1) /\ i - 1 # 0
        BY <1>1, <1>2, <3>1, <3>4
      <4>2. frames'[i - 1] = new[j - 1]
        BY <1>3, <4>1
      <4>3. new[j].lo = new[j - 1].lo + new[j - 1].n
        BY <3>1, <3>4 DEF Follows
      <4> QED
        BY <3>2, <4>1, <4>2, <4>3 DEF End
    <3> QED
      BY <3>3, <3>4
  <2> QED
    BY <2>1, <2>2
<1>6. FramesInv'
  BY <1>5 DEF FramesInv
<1>7. CASE Len(new) = 0
  <2>1. frames' = frames
    BY <1>2, <1>7, EmptySeq, ConcatEmptySeq
  <2>2. Total' = Total
    BY <2>1 DEF Total
  <2>3. Len(new) * MaxChunks = 0
    BY <1>7, NativeAssumption DEF NativeAssumption
  <2> QED
    BY <1>1, <1>3, <1>6, <2>2, <2>3 DEF Grows
<1>8. CASE Len(new) # 0
  <2>1. Len(frames') # 0 /\ frames' # <<>> /\ Len(new) \in 1..Len(new)
    BY <1>1, <1>2, <1>3, <1>8, EmptySeq
  <2>2. frames'[Len(frames')] = new[Len(new)]
    BY <1>3, <2>1
  <2>3. Total' = new[Len(new)].lo + new[Len(new)].n
    BY <2>1, <2>2 DEF Total, Last
  <2>4. Total' - Total \in 0..Len(new) * MaxChunks
    BY <1>8, <2>3 DEF Follows
  <2>5. new[Len(new)] \in Frame
    BY <1>2, <2>1, ElementOfSeq
  <2>6. Total' \in Nat
    BY <2>3, <2>5 DEF Frame
  <2> QED
    BY <1>3, <1>6, <2>4, <2>6 DEF Grows
<1> QED
  BY <1>7, <1>8

\* The next frame to split off, and the oldest queued one.
LEMMA HeadTodo ==
  ASSUME TypeInv, OrderInv, caller # "failed", todo # <<>>
  PROVE  /\ Head(todo) = Split + 1 /\ Head(todo) \in 1..Len(frames)
         /\ Tail(todo) \in Seq(Nat) /\ Len(Tail(todo)) = Len(todo) - 1
         /\ \A i \in 1..Len(todo) - 1 : i + 1 \in 1..Len(todo) /\ Tail(todo)[i] = todo[i + 1]
         /\ Len(todo) \in Nat /\ Len(todo) >= 1 /\ Len(frames) \in Nat /\ Len(queued) \in Nat
<1>1. todo \in Seq(Nat) /\ Len(frames) \in Nat /\ Len(queued) \in Nat
  BY TotalEnd DEF TypeInv
<1>2. Len(todo) \in Nat /\ Len(todo) # 0
  BY <1>1, EmptySeq
<1>3. 1 \in 1..Len(todo) /\ Head(todo) = todo[1]
  BY <1>1, <1>2
<1>4. Head(todo) = Split + 1 /\ Len(todo) <= Len(frames)
  BY <1>3 DEF OrderInv
<1>5. Head(todo) \in 1..Len(frames)
  BY <1>1, <1>2, <1>4 DEF Split
<1> QED
  BY <1>1, <1>2, <1>4, <1>5

LEMMA HeadQueued ==
  ASSUME TypeInv, OrderInv, caller # "failed", queued # <<>>
  PROVE  /\ Head(queued) = Taken + 1 /\ Head(queued) \in 1..Len(frames)
         /\ Head(queued) = queued[1] /\ 1 \in 1..Len(queued)
         /\ Tail(queued) \in Seq(Nat) /\ Len(Tail(queued)) = Len(queued) - 1
         /\ \A i \in 1..Len(queued) - 1 : i + 1 \in 1..Len(queued) /\ Tail(queued)[i] = queued[i + 1]
         /\ Len(todo) \in Nat /\ Len(queued) >= 1 /\ Len(frames) \in Nat /\ Len(queued) \in Nat
<1>1. queued \in Seq(Nat) /\ Len(frames) \in Nat /\ Len(todo) \in Nat
  BY TotalEnd DEF TypeInv
<1>2. Len(queued) \in Nat /\ Len(queued) # 0
  BY <1>1, EmptySeq
<1>3. 1 \in 1..Len(queued) /\ Head(queued) = queued[1]
  BY <1>1, <1>2
<1>4. Head(queued) = Taken + 1 /\ Head(queued) \in 1..Len(frames)
  BY <1>3 DEF OrderInv
<1> QED
  BY <1>1, <1>2, <1>3, <1>4

-----------------------------------------------------------------------------
(* Output.                                                                  *)

\* A step hands the chunks after `from` up to `upto` of frame f to onChunk.
Gives(f, from, upto) ==
  /\ f \in 1..Len(frames) /\ from \in Nat /\ upto \in Nat
  /\ from <= upto /\ upto <= frames[f].n
  /\ Len(out) = frames[f].lo + from
  /\ \A i \in 1..Len(out) : out[i] = i
  /\ out' = out \o BlocksOf(f, from, upto)

Given(m) ==
  /\ m \in Nat /\ Len(out) <= m /\ m <= Total
  /\ out' \in Seq(Nat) /\ Len(out') = m
  /\ \A i \in 1..m : out'[i] = i

LEMMA GivesInOrder ==
  ASSUME TypeInv, FramesInv, NEW f \in 1..Len(frames), NEW from \in Nat, NEW upto \in Nat,
         Gives(f, from, upto)
  PROVE  Given(frames[f].lo + upto)
<1>1. from <= upto /\ upto <= frames[f].n
  BY DEF Gives
<1>2. frames[f].lo \in Nat /\ frames[f].n \in Nat
  BY <1>1, FrameFields
<1>3. from \in Nat /\ upto \in Nat /\ from <= upto /\ upto <= frames[f].n /\ upto - from \in Nat
  BY <1>1, <1>2
<1> DEFINE new == BlocksOf(f, from, upto)
<1>4. new = [i \in 1..(upto - from) |-> frames[f].lo + from + i]
  BY DEF BlocksOf
<1>5. new \in [1..(upto - from) -> Nat]
  BY <1>1, <1>2, <1>4, SMTT(40)
<1>6. new \in Seq(Nat) /\ Len(new) = upto - from
  BY <1>3, <1>4, <1>5, SeqDef
<1>7. \A i \in 1..(upto - from) : new[i] = frames[f].lo + from + i
  BY <1>4
<1> HIDE DEF new
<1>8. out \in Seq(Nat) /\ out' = out \o new /\ Len(out) = frames[f].lo + from
  BY DEF Gives, TypeInv, new
<1>9. /\ out' \in Seq(Nat) /\ Len(out') = frames[f].lo + upto
      /\ \A i \in 1..Len(out) : out'[i] = out[i]
      /\ \A i \in 1..(upto - from) : out'[Len(out) + i] = new[i]
  <2>1. /\ out' \in Seq(Nat) /\ Len(out') = Len(out) + Len(new)
        /\ \A i \in 1..Len(out) : out'[i] = out[i]
        /\ \A i \in 1..Len(new) : out'[Len(out) + i] = new[i]
    <3>1. out \in Seq(Nat) /\ new \in Seq(Nat) /\ out' = out \o new
      BY <1>6, <1>8
    <3> QED
      BY <3>1
  <2>2. Len(out') = (frames[f].lo + from) + (upto - from)
    BY <1>6, <1>8, <2>1
  <2>3. (frames[f].lo + from) + (upto - from) = frames[f].lo + upto
    BY <1>2, <1>3
  <2> QED
    BY <1>6, <2>1, <2>2, <2>3
<1>10. ASSUME NEW i \in 1..Len(out') PROVE out'[i] = i
  <2>1. CASE i \in 1..Len(out)
    BY <1>9, <2>1 DEF Gives
  <2>2. CASE i \notin 1..Len(out)
    <3>1. i - Len(out) \in 1..(upto - from) /\ i = Len(out) + (i - Len(out))
      <4>1. i \in Nat /\ i > Len(out) /\ i <= frames[f].lo + upto
        BY <1>2, <1>8, <1>9, <2>2
      <4>2. i - Len(out) >= 1 /\ i - Len(out) <= upto - from /\ i - Len(out) \in Int
        BY <1>2, <1>3, <1>8, <4>1, SMTT(40)
      <4> QED
        BY <1>3, <1>2, <1>8, <4>1, <4>2
    <3>2. out'[i] = new[i - Len(out)] /\ new[i - Len(out)] = frames[f].lo + from + (i - Len(out))
      BY <1>7, <1>9, <3>1
    <3> QED
      BY <1>2, <1>3, <1>8, <3>1, <3>2
  <2> QED
    BY <2>1, <2>2
<1>11. frames[f].lo + frames[f].n <= Total /\ Total \in Nat
  BY <1>1, FrameWithin, TotalEnd
<1>12. /\ frames[f].lo + upto \in Nat /\ Len(out) <= frames[f].lo + upto
       /\ frames[f].lo + upto <= Total
  BY <1>2, <1>3, <1>8, <1>11, SMTT(40)
<1> QED
  BY <1>9, <1>10, <1>12 DEF Given

LEMMA TakeGives ==
  ASSUME NativeInv, TakeChunks
  PROVE  /\ Gives(current, threads[current].taken, threads[current].made)
         /\ current \in 1..Len(frames) /\ current \in DOMAIN threads
         /\ threads[current].taken \in Nat /\ threads[current].made \in Nat
         /\ caller = "pushing"
<1>1. TypeInv /\ OrderInv /\ PhaseInv /\ ThreadInv /\ OutInv
  BY DEF NativeInv
<1>2. phase = "deliver" /\ current \in DOMAIN threads
  BY DEF TakeChunks
<1>3. caller = "pushing" /\ current # NoFrame
  BY <1>1, <1>2 DEF PhaseInv, Delivering
<1>4. current \in 1..Len(frames)
  BY <1>1, <1>3 DEF OrderInv
<1>5. threads[current].made \in Nat /\ threads[current].taken \in Nat
  BY <1>1, <1>2, ThreadFields
<1>6. /\ threads[current].taken <= threads[current].made
      /\ threads[current].made <= frames[current].n
  BY <1>1, <1>2 DEF ThreadInv, ThreadGood
<1>7. /\ \A i \in 1..Len(out) : out[i] = i
      /\ Len(out) = frames[current].lo + threads[current].taken
  BY <1>1, <1>2, <1>3 DEF OutInv
<1>8. out' = out \o BlocksOf(current, threads[current].taken, threads[current].made)
  BY DEF TakeChunks
<1> QED
  BY <1>2, <1>3, <1>4, <1>5, <1>6, <1>7, <1>8 DEF Gives

InlineGood == frames[current].kind # "wide" /\ ~frames[current].bad

LEMMA InlineGives ==
  ASSUME NativeInv, DeliverInline, InlineGood
  PROVE  /\ Gives(current, 0, frames[current].n)
         /\ current \in 1..Len(frames) /\ caller = "pushing"
<1>1. TypeInv /\ OrderInv /\ PhaseInv /\ OutInv
  BY DEF NativeInv
<1>2. phase = "deliver" /\ current \notin DOMAIN threads
  BY DEF DeliverInline
<1>3. caller = "pushing" /\ current # NoFrame
  BY <1>1, <1>2 DEF PhaseInv, Delivering
<1>4. current \in 1..Len(frames)
  BY <1>1, <1>3 DEF OrderInv
<1>5. frames[current].lo \in Nat /\ frames[current].n \in Nat
  BY <1>1, <1>4, FrameFields
<1>6. (\A i \in 1..Len(out) : out[i] = i) /\ Len(out) = frames[current].lo + 0
  BY <1>1, <1>2, <1>3 DEF OutInv
<1>7. out' = out \o BlocksOf(current, 0, frames[current].n)
  BY DEF DeliverInline, InlineGood
<1> QED
  BY <1>3, <1>4, <1>5, <1>6, <1>7 DEF Gives

FallbackGood == todo # <<>> /\ ~frames[Head(todo)].bad

LEMMA FallbackGives ==
  ASSUME NativeInv, FallbackFrame, FallbackGood
  PROVE  /\ Gives(Head(todo), 0, frames[Head(todo)].n)
         /\ Head(todo) \in 1..Len(frames) /\ Head(todo) = Split + 1 /\ Taken = Split
         /\ caller = "pushing" /\ queued = <<>> /\ current = NoFrame
<1>1. TypeInv /\ FramesInv /\ OrderInv /\ PhaseInv /\ OutInv
  BY DEF NativeInv
<1>2. phase = "split" /\ fallback /\ todo # <<>>
  BY DEF FallbackFrame, FallbackGood
<1>3. caller = "pushing" /\ current = NoFrame /\ queued = <<>>
  BY <1>1, <1>2 DEF PhaseInv, Delivering
<1>4. /\ Head(todo) = Split + 1 /\ Head(todo) \in 1..Len(frames)
      /\ Len(todo) \in Nat /\ Len(frames) \in Nat
  BY <1>1, <1>2, <1>3, HeadTodo
<1>5. Len(queued) = 0
  BY <1>3, EmptySeq
<1>6. Taken = Split /\ Split \in Int
  BY <1>4, <1>5 DEF Taken, Split
<1>7. frames[Head(todo)].lo \in Nat /\ frames[Head(todo)].n \in Nat
  BY <1>1, <1>4, FrameFields
<1>8. (\A i \in 1..Len(out) : out[i] = i) /\ Len(out) = End(Taken)
  BY <1>1, <1>3 DEF OutInv
<1>9. frames[Head(todo)].lo = End(Split)
  <2>1. frames[Head(todo)].lo = End(Head(todo) - 1)
    BY <1>1, <1>4 DEF FramesInv
  <2>2. Head(todo) - 1 = Split
    BY <1>4, <1>6
  <2> QED
    BY <2>1, <2>2
<1>10. Len(out) = frames[Head(todo)].lo + 0
  BY <1>6, <1>7, <1>8, <1>9
<1>11. out' = out \o BlocksOf(Head(todo), 0, frames[Head(todo)].n)
  BY <1>2 DEF FallbackFrame, FallbackGood
<1> QED
  BY <1>3, <1>4, <1>6, <1>7, <1>8, <1>10, <1>11 DEF Gives

-----------------------------------------------------------------------------
(* A push, and what its steps do to a thread.                               *)

PushStep ==
  \E k \in 0..MaxFrames - Len(frames), isFinal \in BOOLEAN :
    \E s \in [1..k -> Shapes] : OneBad(s) /\ PushChunk(Lay(s), isFinal)

Pushed(k) ==
  /\ Grows(k) /\ k <= MaxFrames
  /\ caller = "reading" /\ caller' = "pushing" /\ final' \in BOOLEAN
  /\ todo' \in Seq(Nat) /\ Len(todo') = k
  /\ \A i \in 1..k : todo'[i] = Len(frames) + i
  /\ phase' = "split"
  /\ UNCHANGED <<after, queued, current, fallback, threads, out>>

LEMMA PushPushes ==
  ASSUME TypeInv, FramesInv, PushStep
  PROVE  \E k \in Nat : Pushed(k)
<1>1. PICK k \in 0..MaxFrames - Len(frames), isFinal \in BOOLEAN :
        \E s \in [1..k -> Shapes] : OneBad(s) /\ PushChunk(Lay(s), isFinal)
  BY DEF PushStep
<1>2. PICK s \in [1..k -> Shapes] : PushChunk(Lay(s), isFinal)
  BY <1>1
<1>3. Len(frames) \in Nat /\ MaxFrames \in Nat /\ Total \in Nat
  BY TotalEnd, NativeAssumption DEF NativeAssumption
<1>4. k \in Nat /\ k <= MaxFrames
  BY <1>3
<1>5. Follows(Lay(s), Total, MaxChunks) /\ Len(Lay(s)) = k
  BY <1>3, <1>4, LayFollows
<1>6. frames' = frames \o Lay(s)
  BY <1>2 DEF PushChunk
<1>7. Grows(k)
  <2>1. Grows(Len(Lay(s)))
    BY <1>5, <1>6, StreamGrows
  <2> QED
    BY <1>5, <2>1
<1>8. DOMAIN Lay(s) = 1..k
  <2>1. Lay(s) \in Seq(Frame)
    BY <1>5 DEF Follows
  <2> QED
    BY <1>5, <2>1
<1>9. todo' = [i \in 1..k |-> Len(frames) + i]
  BY <1>2, <1>8 DEF PushChunk
<1>10. todo' \in [1..k -> Nat]
  BY <1>3, <1>4, <1>9
<1>11. todo' \in Seq(Nat) /\ Len(todo') = k
  BY <1>4, <1>9, <1>10, SeqDef
<1>12. \A i \in 1..k : todo'[i] = Len(frames) + i
  BY <1>9
<1>13. /\ caller = "reading" /\ caller' = "pushing" /\ final' = isFinal /\ phase' = "split"
       /\ UNCHANGED <<after, queued, current, fallback, threads, out>>
  BY <1>2 DEF PushChunk
<1> QED
  BY <1>4, <1>7, <1>11, <1>12, <1>13 DEF Pushed

\* Of the threads only that of frame f changed.
OnlyThread(f) ==
  /\ DOMAIN threads' = DOMAIN threads
  /\ threads' \in [DOMAIN threads' -> Thread]
  /\ \A g \in DOMAIN threads : g # f => threads'[g] = threads[g]

LEMMA DataThread ==
  ASSUME TypeInv, NEW f \in DOMAIN threads, Data(f)
  PROVE  /\ OnlyThread(f)
         /\ threads'[f].made = threads[f].made + 1 /\ threads'[f].taken = threads[f].taken
         /\ threads'[f].state = threads[f].state
         /\ threads'[f].paused = (threads[f].made + 1 - threads[f].taken >= MaxBuffered)
<1>1. PICK full \in BOOLEAN : full = (threads[f].made + 1 - threads[f].taken >= MaxBuffered)
  <2>1. (threads[f].made + 1 - threads[f].taken >= MaxBuffered) \in BOOLEAN
    OBVIOUS
  <2> QED
    BY <2>1, Zenon
<1> DEFINE t == [threads[f] EXCEPT !.made = @ + 1, !.paused = full]
<1>2. threads' = [threads EXCEPT ![f] = t]
  BY <1>1 DEF Data
<1>3. threads[f] \in Thread
  BY ThreadFields
<1>4. /\ t.made = threads[f].made + 1 /\ t.taken = threads[f].taken
      /\ t.state = threads[f].state
  BY <1>3 DEF Thread
<1>5. t.paused = full
  BY <1>3 DEF Thread
<1>6. t \in Thread
  <2> DEFINE u == [threads[f] EXCEPT !.made = @ + 1]
  <2>1. u \in Thread
    BY <1>3 DEF Thread
  <2>2. t = [u EXCEPT !.paused = full]
    OBVIOUS
  <2> HIDE DEF t, u
  <2> QED
    BY <2>1, <2>2 DEF Thread
<1> HIDE DEF t
<1>7. threads \in [DOMAIN threads -> Thread]
  BY DEF TypeInv
<1>8. OnlyThread(f) /\ threads'[f] = t
  BY <1>2, <1>6, <1>7 DEF OnlyThread
<1> QED
  BY <1>1, <1>4, <1>5, <1>8

LEMMA EndThread ==
  ASSUME TypeInv, NEW f \in DOMAIN threads, NEW how \in {"ended", "error"},
         threads' = [threads EXCEPT ![f].state = how]
  PROVE  /\ OnlyThread(f)
         /\ threads'[f].made = threads[f].made /\ threads'[f].taken = threads[f].taken
         /\ threads'[f].state = how /\ threads'[f].paused = threads[f].paused
<1> DEFINE t == [threads[f] EXCEPT !.state = how]
<1>1. threads' = [threads EXCEPT ![f] = t]
  OBVIOUS
<1>2. threads[f] \in Thread
  BY ThreadFields
<1>3. /\ t.made = threads[f].made /\ t.taken = threads[f].taken
      /\ t.state = how /\ t.paused = threads[f].paused /\ t \in Thread
  BY <1>2 DEF Thread
<1> HIDE DEF t
<1>4. threads \in [DOMAIN threads -> Thread]
  BY DEF TypeInv
<1>5. OnlyThread(f) /\ threads'[f] = t
  BY <1>1, <1>3, <1>4 DEF OnlyThread
<1> QED
  BY <1>3, <1>5

LEMMA TakeThread ==
  ASSUME NativeInv, TakeChunks
  PROVE  /\ OnlyThread(current)
         /\ threads'[current].made = threads[current].made
         /\ threads'[current].taken = threads[current].made
         /\ threads'[current].state = threads[current].state
         /\ threads'[current].paused = threads[current].paused
<1>1. TypeInv /\ current \in DOMAIN threads
  BY DEF NativeInv, TakeChunks
<1> DEFINE t == [threads[current] EXCEPT !.taken = threads[current].made]
<1>2. threads' = [threads EXCEPT ![current] = t]
  BY DEF TakeChunks
<1>3. threads[current] \in Thread
  BY <1>1, ThreadFields
<1>4. /\ t.made = threads[current].made /\ t.taken = threads[current].made
      /\ t.state = threads[current].state /\ t.paused = threads[current].paused /\ t \in Thread
  BY <1>3 DEF Thread
<1> HIDE DEF t
<1>5. threads \in [DOMAIN threads -> Thread]
  BY <1>1 DEF TypeInv
<1>6. OnlyThread(current) /\ threads'[current] = t
  BY <1>1, <1>2, <1>4, <1>5 DEF OnlyThread
<1> QED
  BY <1>4, <1>6

LEMMA WaitThread ==
  ASSUME TypeInv, current \in DOMAIN threads, WaitForMore(current)
  PROVE  /\ OnlyThread(current)
         /\ threads'[current].made = threads[current].made
         /\ threads'[current].taken = threads[current].taken
         /\ threads'[current].state = threads[current].state
<1> DEFINE t == [threads[current] EXCEPT !.paused = FALSE]
<1>2. threads' = [threads EXCEPT ![current] = t]
  BY DEF WaitForMore
<1>3. threads[current] \in Thread
  BY ThreadFields
<1>4. /\ t.made = threads[current].made /\ t.taken = threads[current].taken
      /\ t.state = threads[current].state /\ t \in Thread
  BY <1>3 DEF Thread
<1> HIDE DEF t
<1>5. threads \in [DOMAIN threads -> Thread]
  BY DEF TypeInv
<1>6. OnlyThread(current) /\ threads'[current] = t
  BY <1>2, <1>4, <1>5 DEF OnlyThread
<1> QED
  BY <1>4, <1>6

\* A new thread: nothing made yet.
Started(f) ==
  /\ DOMAIN threads' = DOMAIN threads \cup {f}
  /\ threads' \in [DOMAIN threads' -> Thread]
  /\ \A g \in DOMAIN threads : threads'[g] = threads[g]
  /\ threads'[f].made = 0 /\ threads'[f].taken = 0
  /\ threads'[f].state = "running" /\ threads'[f].paused = FALSE

LEMMA StartsThread ==
  ASSUME TypeInv, NEW f \in Nat, f \notin DOMAIN threads, StartThread(f)
  PROVE  Started(f)
<1>1. NewThread \in Thread
  BY DEF NewThread, Thread
<1>2. threads' = [g \in DOMAIN threads \cup {f} |-> IF g = f THEN NewThread ELSE threads[g]]
  BY DEF StartThread
<1>3. DOMAIN threads' = DOMAIN threads \cup {f}
  BY <1>2
<1>4. threads'[f] = NewThread /\ \A g \in DOMAIN threads : threads'[g] = threads[g]
  BY <1>2
<1>5. \A g \in DOMAIN threads : threads[g] \in Thread
  BY ThreadFields
<1>6. threads' \in [DOMAIN threads' -> Thread]
  BY <1>1, <1>2, <1>3, <1>5
<1> QED
  BY <1>3, <1>4, <1>6 DEF Started, NewThread

-----------------------------------------------------------------------------
(* The steps that move frames between the parts of the pipeline.            *)

\* The next frame leaves the stream for its delivery or for the queue.
LEMMA SplitMoves ==
  ASSUME NativeInv, SplitFrame, frames[Head(todo)].kind # "foreign"
  PROVE  /\ caller = "pushing" /\ todo # <<>> /\ phase = "split" /\ current = NoFrame
         /\ todo' = Tail(todo) /\ Handle(Head(todo))
         /\ Head(todo) \notin DOMAIN threads /\ ~fallback
         /\ frames[Head(todo)].kind = "large" => Started(Head(todo))
         /\ frames[Head(todo)].kind # "large" => UNCHANGED threads
         /\ UNCHANGED <<frames, caller, final, pushes, fallback, out>>
<1>1. TypeInv /\ OrderInv /\ PhaseInv /\ ThreadInv
  BY DEF NativeInv
<1>2. phase = "split" /\ todo # <<>> /\ ~fallback
  BY DEF SplitFrame
<1>3. caller = "pushing" /\ current = NoFrame
  BY <1>1, <1>2 DEF PhaseInv, Delivering
<1>4. Head(todo) = Split + 1 /\ Head(todo) \in 1..Len(frames) /\ Len(todo) \in Nat /\ Len(frames) \in Nat
  BY <1>1, <1>2, <1>3, HeadTodo
<1>5. Head(todo) \notin DOMAIN threads
  <2>1. ASSUME Head(todo) \in DOMAIN threads PROVE FALSE
    <3>1. Head(todo) \in 1..Split
      BY <1>1, <2>1 DEF ThreadInv, ThreadGood
    <3>2. Split \in Int
      BY <1>4 DEF Split
    <3> QED
      BY <1>4, <3>1, <3>2
  <2> QED
    BY <2>1
<1>6. frames[Head(todo)].kind = "large" => Started(Head(todo))
  <2>1. ASSUME frames[Head(todo)].kind = "large" PROVE Started(Head(todo))
    <3>1. StartThread(Head(todo)) /\ Head(todo) \in Nat
      BY <1>4, <2>1 DEF SplitFrame
    <3> QED
      BY <1>1, <1>5, <3>1, StartsThread
  <2> QED
    BY <2>1
<1> QED
  BY <1>2, <1>3, <1>5, <1>6 DEF SplitFrame

\* The oldest queued frame becomes the current one.
Moves == (EnqueueWait /\ OverLimit) \/ DeliverAll

LEMMA OldestMoves ==
  ASSUME NativeInv, Moves
  PROVE  /\ caller = "pushing" /\ queued # <<>> /\ current = NoFrame /\ ~fallback
         /\ phase \in {"enqueue", "drain", "fallback"} /\ phase' = "deliver"
         /\ phase = "drain" => after' = "drain"
         /\ phase # "drain" => after' \in {"enqueue", "fallback"}
         /\ current' = Head(queued) /\ queued' = Tail(queued)
         /\ after' = "drain" => phase = "drain"
         /\ UNCHANGED <<frames, caller, final, pushes, todo, fallback, threads, out>>
<1>1. TypeInv /\ OrderInv /\ PhaseInv
  BY DEF NativeInv
<1>2. /\ phase \in {"enqueue", "drain", "fallback"} /\ phase' = "deliver"
      /\ phase = "drain" => after' = "drain"
      /\ phase # "drain" => after' \in {"enqueue", "fallback"}
      /\ current' = Head(queued) /\ queued' = Tail(queued)
      /\ UNCHANGED <<frames, caller, final, pushes, todo, fallback, threads, out>>
  BY DEF Moves, EnqueueWait, DeliverAll, DeliverOldest
<1>3. caller = "pushing" /\ current = NoFrame /\ ~fallback
  BY <1>1, <1>2 DEF PhaseInv, Delivering
<1>4. queued # <<>>
  <2>1. CASE DeliverAll
    BY <2>1 DEF DeliverAll
  <2>2. CASE EnqueueWait /\ OverLimit
    <3>1. SUFFICES ASSUME queued = <<>> PROVE FALSE
      OBVIOUS
    <3>2. ThreadedQueued = {} /\ Len(queued) = 0
      BY <3>1, EmptySeq DEF ThreadedQueued
    <3>3. Cardinality(ThreadedQueued) = 0
      BY <3>2, FS_EmptySet
    <3>4. MaxThreads \in Nat \ {0} /\ MaxQueued \in Nat \ {0}
      BY NativeAssumption DEF NativeAssumption
    <3> QED
      BY <2>2, <3>2, <3>3, <3>4 DEF OverLimit
  <2> QED
    BY <2>1, <2>2 DEF Moves
<1> QED
  BY <1>2, <1>3, <1>4

\* The frame being delivered is left, delivered in full.
Leaves == \/ DeliverInline /\ InlineGood
          \/ CheckThread /\ threads[current].state = "ended"

LEMMA CurrentLeaves ==
  ASSUME NativeInv, Leaves
  PROVE  /\ caller = "pushing" /\ Delivering /\ current \in 1..Len(frames) /\ ~fallback
         /\ phase' = after /\ current' = NoFrame
         /\ UNCHANGED <<frames, caller, final, pushes, todo, after, queued, fallback, threads>>
<1>1. TypeInv /\ OrderInv /\ PhaseInv
  BY DEF NativeInv
<1>2. /\ phase \in {"deliver", "check"} /\ phase' = after /\ current' = NoFrame
      /\ UNCHANGED <<frames, caller, final, pushes, todo, after, queued, fallback, threads>>
  <2>1. CASE DeliverInline /\ InlineGood
    BY <2>1 DEF DeliverInline, InlineGood
  <2>2. CASE CheckThread /\ threads[current].state = "ended"
    BY <2>2 DEF CheckThread
  <2> QED
    BY <2>1, <2>2 DEF Leaves
<1>3. caller = "pushing" /\ Delivering /\ current # NoFrame /\ ~fallback
  BY <1>1, <1>2 DEF PhaseInv, Delivering
<1> QED
  BY <1>1, <1>2, <1>3 DEF OrderInv

\* A failure ends the parse.
Fails == \/ DeliverInline /\ frames[current].kind # "wide" /\ frames[current].bad
         \/ CheckThread /\ threads[current].state = "error"
         \/ FallbackFrame /\ todo # <<>> /\ ~FallbackGood

LEMMA PushFails ==
  ASSUME NativeInv, Fails
  PROVE  /\ caller = "pushing" /\ caller' = "failed" /\ phase' = "none" /\ todo' = <<>>
         /\ current' = NoFrame
         /\ current \in DOMAIN threads => threads[current].taken = threads[current].made
                                            /\ threads[current].state # "running"
         /\ UNCHANGED <<frames, final, pushes, after, queued, fallback, threads, out>>
<1>1. PhaseInv /\ TypeInv
  BY DEF NativeInv
<1>2. CASE DeliverInline /\ frames[current].kind # "wide" /\ frames[current].bad
  BY <1>1, <1>2 DEF DeliverInline, Settle, PhaseInv
<1>3. CASE CheckThread /\ threads[current].state = "error"
  BY <1>1, <1>3 DEF CheckThread, Settle, PhaseInv
<1>4. CASE FallbackFrame /\ todo # <<>> /\ ~FallbackGood
  <2>1. phase = "split" /\ current = NoFrame
    BY <1>1, <1>4 DEF FallbackFrame, PhaseInv, Delivering
  <2>2. current \notin DOMAIN threads
    BY <1>1, <2>1, NativeAssumption DEF NativeAssumption, TypeInv
  <2> QED
    BY <1>1, <1>4, <2>1, <2>2 DEF FallbackFrame, FallbackGood, Settle, PhaseInv
<1> QED
  BY <1>2, <1>3, <1>4 DEF Fails

\* A push returns; the final one has nothing queued then.
Returns == \/ SplitEnd /\ EndOfPush
           \/ Drained
           \/ FallbackFrame /\ todo = <<>>

LEMMA PushReturns ==
  ASSUME NativeInv, Returns
  PROVE  /\ caller = "pushing" /\ caller' = (IF final THEN "done" ELSE "reading")
         /\ phase \in {"split", "drain"} /\ phase' = "none" /\ todo = <<>> /\ todo' = <<>>
         /\ current = NoFrame /\ current' = NoFrame
         /\ final => queued = <<>>
         /\ phase = "drain" => final
         /\ UNCHANGED <<frames, final, pushes, after, queued, fallback, threads, out>>
<1>1. PhaseInv
  BY DEF NativeInv
<1>2. CASE SplitEnd /\ EndOfPush
  BY <1>1, <1>2 DEF SplitEnd, EndOfPush, Settle, PhaseInv, Delivering
<1>3. CASE Drained
  BY <1>1, <1>3 DEF Drained, Settle, PhaseInv, Delivering
<1>4. CASE FallbackFrame /\ todo = <<>>
  BY <1>1, <1>4 DEF FallbackFrame, Settle, PhaseInv, Delivering
<1> QED
  BY <1>2, <1>3, <1>4 DEF Returns

\* The rest of a push: only the phase moves on.
Turns == \/ SplitFrame /\ frames[Head(todo)].kind = "foreign"
         \/ SplitEnd /\ ~EndOfPush
         \/ EnqueueWait /\ ~OverLimit
         \/ ToFallback

LEMMA PhaseTurns ==
  ASSUME NativeInv, Turns
  PROVE  /\ caller = "pushing" /\ current = NoFrame /\ ~fallback
         /\ phase' \in {"split", "drain", "fallback"}
         /\ phase' = "drain" => todo = <<>> /\ final
         /\ phase' = "split" => ~OverLimit \/ queued = <<>>
         /\ fallback' => phase' = "split" /\ queued = <<>>
         /\ fallback' \in BOOLEAN
         /\ UNCHANGED <<frames, caller, final, pushes, todo, after, queued, current, threads, out>>
<1>1. PhaseInv /\ fallback \in BOOLEAN
  BY DEF NativeInv, TypeInv
<1>2. CASE SplitFrame /\ frames[Head(todo)].kind = "foreign"
  BY <1>1, <1>2 DEF SplitFrame, PhaseInv, Delivering
<1>3. CASE SplitEnd /\ ~EndOfPush
  BY <1>1, <1>3 DEF SplitEnd, EndOfPush, PhaseInv, Delivering
<1>4. CASE EnqueueWait /\ ~OverLimit
  BY <1>1, <1>4 DEF EnqueueWait, PhaseInv, Delivering
<1>5. CASE ToFallback
  BY <1>1, <1>5 DEF ToFallback, PhaseInv, Delivering
<1> QED
  BY <1>2, <1>3, <1>4, <1>5 DEF Turns

\* Every step is one of these.
Streams(f) == DeliverInline /\ frames[current].kind = "wide" /\ f = current
Waits == CheckThread /\ threads[current].state = "running"
Cases == \/ OpenDecoder \/ (\E k \in Nat : Pushed(k))
         \/ (SplitFrame /\ frames[Head(todo)].kind # "foreign")
         \/ Moves \/ Leaves \/ Fails \/ Returns \/ Turns
         \/ (FallbackFrame /\ FallbackGood) \/ TakeChunks
         \/ Streams(current) \/ Waits
         \/ (\E f \in DOMAIN threads : ThreadEvent(f))
         \/ UNCHANGED nativeVars

LEMMA StepCases ==
  ASSUME NativeInv, [NativeNext]_nativeVars
  PROVE  Cases
<1>1. TypeInv /\ FramesInv /\ PhaseInv
  BY DEF NativeInv
<1>2. CASE PushStep
  BY <1>1, <1>2, PushPushes DEF Cases
<1>3. CASE CheckThread
  <2>1. current \in DOMAIN threads
    BY <1>1, <1>3 DEF CheckThread, PhaseInv
  <2>2. threads[current].state \in {"running", "ended", "error"}
    BY <1>1, <2>1, ThreadFields
  <2> QED
    BY <1>3, <2>2 DEF Cases, Waits, Leaves, Fails
<1>4. CASE DeliverInline
  BY <1>4 DEF Cases, Streams, Leaves, Fails, InlineGood
<1>5. CASE FallbackFrame
  BY <1>5 DEF Cases, Returns, Fails, FallbackGood
<1>6. CASE SplitFrame
  BY <1>6 DEF Cases, Turns
<1>7. CASE SplitEnd
  BY <1>7 DEF Cases, Turns, Returns
<1>8. CASE EnqueueWait
  BY <1>8 DEF Cases, Turns, Moves
<1>9. CASE DeliverAll \/ Drained \/ ToFallback \/ TakeChunks \/ OpenDecoder
             \/ (\E f \in DOMAIN threads : ThreadEvent(f)) \/ UNCHANGED nativeVars
  BY <1>9 DEF Cases, Turns, Moves, Returns
<1> QED
  BY <1>2, <1>3, <1>4, <1>5, <1>6, <1>7, <1>8, <1>9 DEF NativeNext, PushStep, Work

-----------------------------------------------------------------------------
(* The invariant.                                                           *)

\* What an event of a thread does.
LEMMA EventSteps ==
  ASSUME TypeInv, PhaseInv, NEW f \in DOMAIN threads, ThreadEvent(f)
  PROVE  /\ OnlyThread(f) /\ threads'[f].taken = threads[f].taken
         /\ threads[f].state = "running" /\ phase \in {"none", "wait"}
         /\ threads'[f].made >= threads[f].made
         /\ phase' \in {phase, "deliver"} /\ (phase' = "deliver" => phase = "wait" /\ current = f)
         /\ \/ /\ Data(f) /\ ~threads[f].paused /\ threads[f].made < frames[f].n
               /\ threads'[f].made = threads[f].made + 1 /\ threads'[f].state = "running"
               /\ ~threads'[f].paused => threads'[f].made - threads[f].taken < MaxBuffered
            \/ /\ threads'[f].made = threads[f].made /\ threads'[f].state # "running"
               /\ threads'[f].state = "ended" => threads[f].made = frames[f].n
         /\ UNCHANGED <<frames, caller, final, pushes, todo, after, queued, current, fallback, out>>
<1>1. /\ phase \in {"none", "wait"} /\ threads[f].state = "running"
      /\ UNCHANGED <<frames, caller, final, pushes, todo, after, queued, current, fallback, out>>
  BY DEF ThreadEvent, ThreadFree
<1>2. Signal(f)
  BY DEF ThreadEvent, Data
<1>3. phase' \in {phase, "deliver"} /\ (phase' = "deliver" => phase = "wait" /\ current = f)
  BY <1>1, <1>2 DEF Signal
<1>4. threads[f].made \in Nat /\ threads[f].taken \in Nat
  BY ThreadFields
<1>5. CASE ~threads[f].paused /\ threads[f].made < frames[f].n /\ Data(f)
  <2>1. /\ OnlyThread(f)
        /\ threads'[f].made = threads[f].made + 1 /\ threads'[f].taken = threads[f].taken
        /\ threads'[f].state = threads[f].state
        /\ threads'[f].paused = (threads[f].made + 1 - threads[f].taken >= MaxBuffered)
    BY <1>5, DataThread
  <2>2. MaxBuffered \in Nat
    BY NativeAssumption DEF NativeAssumption
  <2>3. ~threads'[f].paused => threads'[f].made - threads[f].taken < MaxBuffered
    <3>1. ~threads'[f].paused => ~(threads[f].made + 1 - threads[f].taken >= MaxBuffered)
      BY <2>1, Zenon
    <3> QED
      BY <1>4, <2>1, <2>2, <3>1
  <2>4. threads'[f].made >= threads[f].made
    BY <1>4, <2>1
  <2> QED
    BY <1>1, <1>3, <1>5, <2>1, <2>3, <2>4
<1>6. ASSUME NEW how \in {"ended", "error"}, threads' = [threads EXCEPT ![f].state = how],
             how = "ended" => threads[f].made = frames[f].n
      PROVE  /\ OnlyThread(f) /\ threads'[f].taken = threads[f].taken
             /\ threads'[f].made = threads[f].made /\ threads'[f].state # "running"
             /\ threads'[f].made >= threads[f].made
             /\ threads'[f].state = "ended" => threads[f].made = frames[f].n
  <2>1. /\ OnlyThread(f)
        /\ threads'[f].made = threads[f].made /\ threads'[f].taken = threads[f].taken
        /\ threads'[f].state = how
    BY <1>6, EndThread
  <2> QED
    BY <1>4, <1>6, <2>1
<1>7. CASE /\ ~threads[f].paused /\ threads[f].made = frames[f].n /\ ~frames[f].bad
           /\ threads' = [threads EXCEPT ![f].state = "ended"]
  BY <1>1, <1>3, <1>6, <1>7
<1>8. CASE frames[f].bad /\ threads' = [threads EXCEPT ![f].state = "error"]
  BY <1>1, <1>3, <1>6, <1>8
<1> QED
  BY <1>5, <1>7, <1>8 DEF ThreadEvent

LEMMA TypeStep ==
  ASSUME NativeInv, Cases
  PROVE  TypeInv'
<1>1. TypeInv /\ FramesInv /\ OrderInv /\ PhaseInv
  BY DEF NativeInv
<1>2. CASE OpenDecoder
  BY <1>1, <1>2 DEF OpenDecoder, TypeInv
<1>3. CASE \E k \in Nat : Pushed(k)
  BY <1>1, <1>3 DEF Pushed, Grows, TypeInv
<1>4. CASE SplitFrame /\ frames[Head(todo)].kind # "foreign"
  <2>1. /\ caller = "pushing" /\ todo # <<>> /\ todo' = Tail(todo) /\ Handle(Head(todo))
        /\ frames[Head(todo)].kind = "large" => Started(Head(todo))
        /\ frames[Head(todo)].kind # "large" => UNCHANGED threads
        /\ UNCHANGED <<frames, caller, final, pushes, fallback, out>>
    BY <1>4, SplitMoves
  <2>2. Tail(todo) \in Seq(Nat) /\ Head(todo) \in Nat
    <3>1. Tail(todo) \in Seq(Nat) /\ Head(todo) \in 1..Len(frames)
      BY <1>1, <2>1, HeadTodo
    <3> QED
      BY <3>1
  <2>3. /\ queued' \in Seq(Nat) /\ current' \in Nat \cup {NoFrame}
        /\ phase' \in {"deliver", "enqueue"} /\ after' \in {"split", "enqueue", "drain", "fallback"}
    <3>1. CASE Now(Head(todo))
      BY <1>1, <2>2, <3>1 DEF Now, TypeInv
    <3>2. CASE Later(Head(todo))
      <4>1. queued' = Append(queued, Head(todo)) /\ queued \in Seq(Nat)
        BY <1>1, <3>2 DEF Later, TypeInv
      <4>2. queued' \in Seq(Nat)
        BY <2>2, <4>1
      <4> QED
        BY <1>1, <3>2, <4>2 DEF Later, TypeInv
    <3> QED
      BY <2>1, <3>1, <3>2 DEF Handle
  <2>4. DOMAIN threads' \subseteq Nat /\ threads' \in [DOMAIN threads' -> Thread]
    <3>1. CASE frames[Head(todo)].kind = "large"
      BY <1>1, <2>1, <2>2, <3>1 DEF Started, TypeInv
    <3>2. CASE frames[Head(todo)].kind # "large"
      BY <1>1, <2>1, <3>2 DEF TypeInv
    <3> QED
      BY <3>1, <3>2
  <2> QED
    BY <1>1, <2>1, <2>2, <2>3, <2>4 DEF TypeInv
<1>5. CASE Moves
  <2>1. /\ caller = "pushing" /\ queued # <<>> /\ phase' = "deliver"
        /\ after' \in {"enqueue", "drain", "fallback"}
        /\ current' = Head(queued) /\ queued' = Tail(queued)
        /\ UNCHANGED <<frames, caller, final, pushes, todo, fallback, threads, out>>
    BY <1>5, OldestMoves
  <2>2. Tail(queued) \in Seq(Nat) /\ Head(queued) \in 1..Len(frames)
    BY <1>1, <2>1, HeadQueued
  <2>3. current' \in Nat /\ queued' \in Seq(Nat)
    BY <2>1, <2>2
  <2> QED
    BY <1>1, <2>1, <2>3 DEF TypeInv
<1>6. CASE Leaves /\ UNCHANGED out
  <2>1. /\ phase' = after /\ current' = NoFrame
        /\ UNCHANGED <<frames, caller, final, pushes, todo, after, queued, fallback, threads>>
    BY <1>6, CurrentLeaves
  <2> QED
    BY <1>1, <1>6, <2>1 DEF TypeInv
<1>7. CASE DeliverInline /\ InlineGood
  <2>1. /\ phase' = after /\ current' = NoFrame
        /\ UNCHANGED <<frames, caller, final, pushes, todo, after, queued, fallback, threads>>
    BY <1>7, CurrentLeaves DEF Leaves
  <2>2. Gives(current, 0, frames[current].n) /\ current \in 1..Len(frames)
    BY <1>7, InlineGives
  <2>3. frames[current].n \in Nat
    BY <1>1, <2>2, FrameFields
  <2>4. Given(frames[current].lo + frames[current].n)
    BY <1>1, <2>2, <2>3, GivesInOrder
  <2> QED
    BY <1>1, <2>1, <2>4 DEF TypeInv, Given
<1>8. CASE Fails
  <2>1. <<>> \in Seq(Nat)
    OBVIOUS
  <2> QED
    BY <1>1, <1>8, <2>1, PushFails DEF TypeInv
<1>9. CASE Returns
  BY <1>1, <1>9, PushReturns DEF TypeInv
<1>10. CASE Turns
  BY <1>1, <1>10, PhaseTurns DEF TypeInv
<1>11. CASE FallbackFrame /\ FallbackGood
  <2>1. /\ todo' = Tail(todo) /\ UNCHANGED <<caller, phase, current>> /\ todo # <<>>
        /\ UNCHANGED <<frames, final, pushes, after, queued, fallback, threads>>
    BY <1>11 DEF FallbackFrame, FallbackGood
  <2>2. Gives(Head(todo), 0, frames[Head(todo)].n) /\ Head(todo) \in 1..Len(frames) /\ caller = "pushing"
    BY <1>11, FallbackGives
  <2>3. frames[Head(todo)].n \in Nat
    BY <1>1, <2>2, FrameFields
  <2>4. Given(frames[Head(todo)].lo + frames[Head(todo)].n)
    BY <1>1, <2>2, <2>3, GivesInOrder
  <2>5. Tail(todo) \in Seq(Nat)
    BY <1>1, <2>1, <2>2, HeadTodo
  <2> QED
    BY <1>1, <2>1, <2>4, <2>5 DEF TypeInv, Given
<1>12. CASE TakeChunks
  <2>1. /\ Gives(current, threads[current].taken, threads[current].made)
        /\ current \in 1..Len(frames) /\ threads[current].taken \in Nat /\ threads[current].made \in Nat
    BY <1>12, TakeGives
  <2>2. Given(frames[current].lo + threads[current].made)
    BY <1>1, <2>1, GivesInOrder
  <2>3. OnlyThread(current)
    BY <1>12, TakeThread
  <2>4. /\ phase' = "check"
        /\ UNCHANGED <<frames, caller, final, pushes, todo, after, queued, current, fallback>>
    BY <1>12 DEF TakeChunks
  <2> QED
    BY <1>1, <2>2, <2>3, <2>4 DEF TypeInv, Given, OnlyThread
<1>13. CASE Streams(current)
  <2>1. /\ StartThread(current) /\ phase = "deliver" /\ current \notin DOMAIN threads
        /\ UNCHANGED <<frames, caller, phase, final, pushes, todo, after, queued, current, fallback, out>>
    BY <1>13 DEF Streams, DeliverInline
  <2>2. current \in Nat
    BY <1>1, <2>1 DEF PhaseInv, Delivering, TypeInv
  <2>3. Started(current)
    BY <1>1, <2>1, <2>2, StartsThread
  <2> QED
    BY <1>1, <2>1, <2>2, <2>3 DEF TypeInv, Started
<1>14. CASE Waits
  <2>1. current \in DOMAIN threads
    BY <1>1, <1>14 DEF Waits, CheckThread, PhaseInv
  <2>2. /\ WaitForMore(current) /\ phase' = "wait"
        /\ UNCHANGED <<frames, caller, final, pushes, todo, after, queued, current, fallback, out>>
    BY <1>14 DEF Waits, CheckThread, WaitForMore
  <2>3. OnlyThread(current)
    BY <1>1, <2>1, <2>2, WaitThread
  <2> QED
    BY <1>1, <2>2, <2>3 DEF TypeInv, OnlyThread
<1>15. ASSUME NEW f \in DOMAIN threads, ThreadEvent(f) PROVE TypeInv'
  <2>1. /\ OnlyThread(f) /\ phase' \in {phase, "deliver"}
        /\ UNCHANGED <<frames, caller, final, pushes, todo, after, queued, current, fallback, out>>
    BY <1>1, <1>15, EventSteps
  <2> QED
    BY <1>1, <2>1 DEF TypeInv, OnlyThread
<1>16. CASE UNCHANGED nativeVars
  BY <1>1, <1>16 DEF TypeInv, nativeVars
<1>17. CASE Leaves
  BY <1>6, <1>7, <1>17 DEF Leaves, CheckThread
<1> QED
  BY <1>2, <1>3, <1>4, <1>5, <1>8, <1>9, <1>10, <1>11, <1>12, <1>13, <1>14, <1>15, <1>16, <1>17 DEF Cases

LEMMA FramesStep ==
  ASSUME NativeInv, Cases
  PROVE  FramesInv'
<1>1. FramesInv
  BY DEF NativeInv
<1>2. CASE \E k \in Nat : Pushed(k)
  BY <1>2 DEF Pushed, Grows
<1>3. CASE UNCHANGED frames
  BY <1>1, <1>3 DEF FramesInv, End
<1>4. (\E k \in Nat : Pushed(k)) \/ UNCHANGED frames
  BY DEF Cases, OpenDecoder, SplitFrame, Moves, EnqueueWait, DeliverAll, Leaves, Fails, Returns,
         Turns, DeliverInline, CheckThread, FallbackFrame, SplitEnd, Drained, ToFallback,
         TakeChunks, Streams, Waits, ThreadEvent, nativeVars
<1> QED
  BY <1>2, <1>3, <1>4

\* The steps of threads and of the delivery of one frame leave the order alone.
LEMMA InPlace ==
  ASSUME NativeInv,
         TakeChunks \/ Streams(current) \/ Waits
           \/ (\E f \in DOMAIN threads : ThreadEvent(f)) \/ UNCHANGED nativeVars
  PROVE  UNCHANGED <<frames, caller, final, todo, after, queued, current, fallback>>
<1> QED
  BY DEF TakeChunks, Streams, DeliverInline, Waits, CheckThread, WaitForMore, ThreadEvent, nativeVars

LEMMA OrderStep ==
  ASSUME NativeInv, Cases
  PROVE  OrderInv'
<1> DEFINE n == Len(frames)
           t == Len(todo)
           q == Len(queued)
<1>1. TypeInv /\ FramesInv /\ OrderInv /\ PhaseInv
  BY DEF NativeInv
<1>2. n \in Nat /\ t \in Nat /\ q \in Nat /\ queued \in Seq(Nat)
  BY <1>1, TotalEnd DEF TypeInv
<1>3. Split = n - t /\ Taken = n - t - q /\ Split \in Int /\ Taken \in Int
  BY <1>2 DEF Split, Taken
<1>4. CASE OpenDecoder
  BY <1>1, <1>4 DEF OpenDecoder, OrderInv, Split, Taken
<1>5. ASSUME NEW k \in Nat, Pushed(k) PROVE OrderInv'
  <2>1. /\ Len(frames') = n + k /\ Len(todo') = k /\ \A i \in 1..k : todo'[i] = n + i
        /\ caller = "reading" /\ UNCHANGED <<queued, current>>
    BY <1>5 DEF Pushed, Grows
  <2>2. todo = <<>> /\ current = NoFrame /\ t = 0
    BY <1>1, <2>1, EmptySeq DEF PhaseInv, Delivering
  <2>3. Split' = n /\ Taken' = Taken
    BY <1>2, <1>3, <2>1, <2>2 DEF Split, Taken
  <2>4. \A i \in 1..q : queued[i] \in 1..n /\ queued[i] = Taken + i
    BY <1>1, <2>1 DEF OrderInv
  <2>5. q <= n
    BY <1>1, <2>1, <2>2 DEF OrderInv
  <2>6. \A i \in 1..Len(queued') : queued'[i] \in 1..Len(frames') /\ queued'[i] = Taken' + i
    BY <1>2, <2>1, <2>3, <2>4
  <2>7. \A i \in 1..Len(todo') : todo'[i] = Split' + i
    BY <2>1, <2>3
  <2>8. Len(todo') <= Len(frames') /\ Len(queued') + Len(todo') <= Len(frames') /\ current' = NoFrame
    BY <1>2, <2>1, <2>2, <2>5
  <2> QED
    BY <2>6, <2>7, <2>8 DEF OrderInv
<1>6. ASSUME todo # <<>>, caller # "failed", todo' = Tail(todo), frames' = frames
      PROVE  /\ Len(todo') = t - 1 /\ t >= 1 /\ Split' = Split + 1 /\ Len(frames') = n
             /\ \A i \in 1..Len(todo') : todo'[i] = Split' + i
             /\ Head(todo) = Split + 1 /\ Head(todo) \in 1..n
             /\ t <= n /\ q + t <= n
  <2>1. /\ Head(todo) = Split + 1 /\ Head(todo) \in 1..n /\ t >= 1
        /\ Len(Tail(todo)) = t - 1
        /\ \A i \in 1..t - 1 : i + 1 \in 1..t /\ Tail(todo)[i] = todo[i + 1]
    BY <1>1, <1>6, HeadTodo
  <2>2. /\ \A i \in 1..t : todo[i] = Split + i
        /\ t <= n /\ q + t <= n
    BY <1>1, <1>6 DEF OrderInv
  <2>3. Split' = Split + 1 /\ Len(todo') = t - 1 /\ Len(frames') = n
    BY <1>2, <1>3, <1>6, <2>1 DEF Split
  <2>4. ASSUME NEW i \in 1..Len(todo') PROVE todo'[i] = Split' + i
    <3>1. i \in 1..t - 1 /\ i \in Int
      BY <2>3
    <3>2. todo'[i] = Split + (i + 1)
      BY <1>6, <2>1, <2>2, <3>1
    <3> QED
      BY <1>3, <2>3, <3>1, <3>2
  <2> QED
    BY <2>1, <2>2, <2>3, <2>4
<1>7. CASE SplitFrame /\ frames[Head(todo)].kind # "foreign"
  <2>1. /\ caller = "pushing" /\ todo # <<>> /\ todo' = Tail(todo) /\ Handle(Head(todo))
        /\ current = NoFrame /\ frames' = frames /\ caller' = caller
    BY <1>7, SplitMoves
  <2>2. /\ Len(todo') = t - 1 /\ t >= 1 /\ Split' = Split + 1 /\ Len(frames') = n
        /\ \A i \in 1..Len(todo') : todo'[i] = Split' + i
        /\ Head(todo) = Split + 1 /\ Head(todo) \in 1..n
        /\ t <= n /\ q + t <= n
    BY <1>6, <2>1
  <2>3. \A i \in 1..q : queued[i] \in 1..n /\ queued[i] = Taken + i
    BY <1>1, <2>1 DEF OrderInv
  <2>4. CASE Now(Head(todo)) /\ queued = <<>>
    <3>1. queued' = <<>> /\ Len(queued') = 0 /\ q = 0 /\ current' = Head(todo)
      BY <2>4, EmptySeq DEF Now
    <3>2. Taken' = Split + 1
      BY <1>2, <1>3, <2>2, <3>1 DEF Taken
    <3>3. Len(todo') <= Len(frames') /\ Len(queued') + Len(todo') <= Len(frames')
      BY <1>2, <2>2, <3>1
    <3>4. current' = Taken' /\ current' \in 1..Len(frames')
      BY <2>2, <3>1, <3>2
    <3>5. 1..Len(queued') = {}
      BY <3>1
    <3> QED
      BY <2>2, <3>3, <3>4, <3>5 DEF OrderInv
  <2>5. CASE Later(Head(todo))
    <3>1. queued' = Append(queued, Head(todo)) /\ current' = NoFrame
      BY <2>1, <2>5 DEF Later
    <3>2. Head(todo) \in Nat
      BY <2>2
    <3>3. /\ Len(queued') = q + 1 /\ \A i \in 1..q : queued'[i] = queued[i]
          /\ queued'[q + 1] = Head(todo)
      BY <1>2, <3>1, <3>2
    <3>4. Taken' = Taken
      BY <1>2, <1>3, <2>2, <3>3 DEF Taken
    <3>5. ASSUME NEW i \in 1..Len(queued')
          PROVE  queued'[i] \in 1..Len(frames') /\ queued'[i] = Taken' + i
      <4>1. CASE i \in 1..q
        BY <2>2, <2>3, <3>3, <3>4, <4>1
      <4>2. CASE i \notin 1..q
        <5>1. i = q + 1
          BY <1>2, <3>3, <4>2
        <5>2. Taken + (q + 1) = Split + 1
          BY <1>2, <1>3
        <5> QED
          BY <2>2, <3>3, <3>4, <5>1, <5>2
      <4> QED
        BY <4>1, <4>2
    <3>6. Len(todo') <= Len(frames') /\ Len(queued') + Len(todo') <= Len(frames')
      BY <1>2, <2>2, <3>3
    <3> QED
      BY <2>2, <3>1, <3>5, <3>6 DEF OrderInv
  <2> QED
    BY <2>1, <2>4, <2>5 DEF Handle
<1>8. CASE Moves
  <2>1. /\ caller = "pushing" /\ queued # <<>>
        /\ current' = Head(queued) /\ queued' = Tail(queued)
        /\ UNCHANGED <<frames, caller, todo>>
    BY <1>8, OldestMoves
  <2>2. /\ Head(queued) = Taken + 1 /\ Head(queued) \in 1..n
        /\ Len(Tail(queued)) = q - 1 /\ q >= 1
        /\ \A i \in 1..q - 1 : i + 1 \in 1..q /\ Tail(queued)[i] = queued[i + 1]
    BY <1>1, <2>1, HeadQueued
  <2>3. Taken' = Taken + 1 /\ Split' = Split /\ Len(queued') = q - 1
    BY <1>2, <1>3, <2>1, <2>2 DEF Taken, Split
  <2>4. ASSUME NEW i \in 1..Len(queued') PROVE queued'[i] \in 1..n /\ queued'[i] = Taken' + i
    <3>1. i \in 1..q - 1 /\ i \in Int
      BY <2>3
    <3>2. queued'[i] = queued[i + 1] /\ i + 1 \in 1..q
      BY <2>1, <2>2, <3>1
    <3>3. queued[i + 1] \in 1..n /\ queued[i + 1] = Taken + (i + 1)
      BY <1>1, <2>1, <3>2 DEF OrderInv
    <3> QED
      BY <1>3, <2>3, <3>1, <3>2, <3>3
  <2>5. t <= n /\ q + t <= n /\ \A i \in 1..t : todo[i] = Split + i
    BY <1>1, <2>1 DEF OrderInv
  <2>6. Len(queued') + Len(todo') <= Len(frames') /\ Len(todo') <= Len(frames')
    BY <1>2, <2>1, <2>3, <2>5
  <2>7. \A i \in 1..Len(todo') : todo'[i] = Split' + i
    BY <2>1, <2>3, <2>5
  <2> QED
    BY <2>1, <2>2, <2>3, <2>4, <2>6, <2>7 DEF OrderInv
<1>9. CASE Leaves
  <2>1. current' = NoFrame /\ UNCHANGED <<frames, caller, todo, queued>>
    BY <1>9, CurrentLeaves
  <2> QED
    BY <1>1, <2>1 DEF OrderInv, Split, Taken
<1>10. CASE Fails
  <2>1. /\ caller' = "failed" /\ todo' = <<>> /\ UNCHANGED <<frames, queued>>
    BY <1>10, PushFails
  <2>2. Len(todo') = 0 /\ Len(todo') <= Len(frames')
    BY <1>2, <2>1, EmptySeq
  <2> QED
    BY <1>1, <2>1, <2>2 DEF OrderInv
<1>11. CASE Returns
  <2>1. /\ caller = "pushing" /\ todo' = todo /\ current' = NoFrame /\ UNCHANGED <<frames, queued>>
    BY <1>11, PushReturns
  <2> QED
    BY <1>1, <2>1 DEF OrderInv, Split, Taken
<1>12. CASE Turns
  <2>1. UNCHANGED <<frames, caller, todo, queued, current>>
    BY <1>12, PhaseTurns
  <2> QED
    BY <1>1, <2>1 DEF OrderInv, Split, Taken
<1>13. CASE FallbackFrame /\ FallbackGood
  <2>1. /\ todo' = Tail(todo) /\ todo # <<>> /\ UNCHANGED <<frames, caller, queued, current>>
    BY <1>13 DEF FallbackFrame, FallbackGood
  <2>2. caller = "pushing" /\ queued = <<>> /\ current = NoFrame /\ q = 0
    BY <1>13, FallbackGives, EmptySeq
  <2>3. /\ Len(todo') = t - 1 /\ t >= 1 /\ Len(frames') = n /\ t <= n
        /\ \A i \in 1..Len(todo') : todo'[i] = Split' + i
    BY <1>6, <2>1, <2>2
  <2>4. Len(todo') <= Len(frames') /\ Len(queued') + Len(todo') <= Len(frames') /\ 1..Len(queued') = {}
    BY <1>2, <2>1, <2>2, <2>3
  <2> QED
    BY <2>1, <2>2, <2>3, <2>4 DEF OrderInv
<1>14. CASE TakeChunks \/ Streams(current) \/ Waits
              \/ (\E f \in DOMAIN threads : ThreadEvent(f)) \/ UNCHANGED nativeVars
  <2>1. UNCHANGED <<frames, caller, todo, queued, current>>
    BY <1>14, InPlace
  <2> QED
    BY <1>1, <2>1 DEF OrderInv, Split, Taken
<1> QED
  BY <1>4, <1>5, <1>7, <1>8, <1>9, <1>10, <1>11, <1>12, <1>13, <1>14 DEF Cases

LEMMA PhaseStep ==
  ASSUME NativeInv, Cases, TypeInv'
  PROVE  PhaseInv'
<1>1. TypeInv /\ OrderInv /\ PhaseInv
  BY DEF NativeInv
<1>2. NoFrame \notin Nat
  BY NativeAssumption DEF NativeAssumption
<1>3. CASE OpenDecoder
  BY <1>1, <1>3 DEF OpenDecoder, PhaseInv, Delivering
<1>4. CASE \E k \in Nat : Pushed(k)
  BY <1>1, <1>4 DEF Pushed, PhaseInv, Delivering
<1>5. CASE SplitFrame /\ frames[Head(todo)].kind # "foreign"
  <2>1. /\ caller = "pushing" /\ todo # <<>> /\ Handle(Head(todo)) /\ current = NoFrame
        /\ caller' = caller /\ ~fallback /\ fallback' = fallback
    BY <1>5, SplitMoves
  <2>2. Head(todo) # NoFrame
    BY <1>1, <1>2, <2>1, HeadTodo
  <2> QED
    BY <2>1, <2>2 DEF Handle, Now, Later, PhaseInv, Delivering
<1>6. CASE Moves
  <2>1. /\ caller = "pushing" /\ queued # <<>> /\ ~fallback
        /\ phase' = "deliver" /\ current' = Head(queued)
        /\ after' = "drain" => phase = "drain"
        /\ UNCHANGED <<caller, final, todo, fallback>>
    BY <1>6, OldestMoves
  <2>2. Head(queued) # NoFrame
    BY <1>1, <1>2, <2>1, HeadQueued
  <2> QED
    BY <1>1, <2>1, <2>2 DEF PhaseInv, Delivering
<1>7. CASE Leaves
  <2>1. /\ caller = "pushing" /\ Delivering /\ ~fallback /\ phase' = after /\ current' = NoFrame
        /\ UNCHANGED <<caller, final, todo, after, fallback>>
    BY <1>7, CurrentLeaves
  <2> QED
    BY <1>1, <2>1 DEF PhaseInv, Delivering, TypeInv
<1>8. CASE Fails
  BY <1>1, <1>8, PushFails DEF PhaseInv, Delivering
<1>9. CASE Returns
  BY <1>1, <1>9, PushReturns DEF PhaseInv, Delivering, TypeInv
<1>10. CASE Turns
  BY <1>1, <1>10, PhaseTurns DEF PhaseInv, Delivering
<1>11. CASE FallbackFrame /\ FallbackGood
  <2>1. /\ phase = "split" /\ UNCHANGED <<caller, phase, current, final, after, queued, fallback>>
    BY <1>11 DEF FallbackFrame, FallbackGood
  <2>2. caller = "pushing" /\ queued = <<>> /\ current = NoFrame
    BY <1>11, FallbackGives
  <2> QED
    BY <1>1, <2>1, <2>2 DEF PhaseInv, Delivering
<1>12. CASE TakeChunks
  <2>1. /\ OnlyThread(current) /\ threads'[current].made = threads[current].made
        /\ threads'[current].taken = threads[current].made
    BY <1>12, TakeThread
  <2>2. /\ phase = "deliver" /\ phase' = "check" /\ current \in DOMAIN threads
        /\ UNCHANGED <<caller, final, todo, after, queued, current, fallback>>
    BY <1>12 DEF TakeChunks
  <2> QED
    BY <1>1, <2>1, <2>2 DEF PhaseInv, Delivering, OnlyThread
<1>13. CASE Streams(current)
  <2>1. /\ phase = "deliver"
        /\ UNCHANGED <<caller, phase, final, todo, after, queued, current, fallback>>
    BY <1>13 DEF Streams, DeliverInline
  <2> QED
    BY <1>1, <2>1 DEF PhaseInv, Delivering
<1>14. CASE Waits
  <2>1. /\ WaitForMore(current) /\ phase = "check" /\ phase' = "wait"
        /\ UNCHANGED <<caller, final, todo, after, queued, current, fallback>>
    BY <1>14 DEF Waits, CheckThread, WaitForMore
  <2>2. current \in DOMAIN threads
    BY <1>1, <2>1 DEF PhaseInv
  <2>3. OnlyThread(current)
    BY <1>1, <2>1, <2>2, WaitThread
  <2> QED
    BY <1>1, <2>1, <2>2, <2>3 DEF PhaseInv, Delivering, OnlyThread
<1>15. ASSUME NEW f \in DOMAIN threads, ThreadEvent(f) PROVE PhaseInv'
  <2>1. /\ OnlyThread(f) /\ phase \in {"none", "wait"}
        /\ phase' \in {phase, "deliver"} /\ (phase' = "deliver" => phase = "wait" /\ current = f)
        /\ UNCHANGED <<caller, final, todo, after, queued, current, fallback>>
    BY <1>1, <1>15, EventSteps
  <2> QED
    BY <1>1, <2>1 DEF PhaseInv, Delivering, OnlyThread
<1>16. CASE UNCHANGED nativeVars
  BY <1>1, <1>16 DEF PhaseInv, Delivering, nativeVars
<1> QED
  BY <1>3, <1>4, <1>5, <1>6, <1>7, <1>8, <1>9, <1>10, <1>11, <1>12, <1>13, <1>14, <1>15, <1>16
  DEF Cases

\* How a step moves the marks the other invariants are relative to.
Marks == /\ Split \in Int /\ Taken \in Int /\ Split' \in Int /\ Taken' \in Int
         /\ Taken <= Split /\ Split <= Split'
         /\ caller # "failed" /\ caller' # "failed" => Taken <= Taken'
         /\ Len(frames) <= Len(frames')
         /\ \A f \in 1..Len(frames) : frames'[f] = frames[f]
         /\ Split <= Len(frames)
         /\ caller' # "failed" => caller # "failed"

LEMMA MarksMove ==
  ASSUME NativeInv, Cases, TypeInv', OrderInv'
  PROVE  Marks
<1> DEFINE n == Len(frames)
           t == Len(todo)
           q == Len(queued)
<1>1. TypeInv /\ OrderInv /\ PhaseInv
  BY DEF NativeInv
<1>2. /\ n \in Nat /\ t \in Nat /\ q \in Nat
      /\ Len(frames') \in Nat /\ Len(todo') \in Nat /\ Len(queued') \in Nat
  BY <1>1 DEF TypeInv
<1>3. Split = n - t /\ Taken = n - t - q /\ t <= n
  BY <1>1 DEF Split, Taken, OrderInv
<1>4. Split' = Len(frames') - Len(todo') /\ Taken' = Len(frames') - Len(todo') - Len(queued')
  BY DEF Split, Taken
<1>5. ASSUME Len(frames') = n, \A f \in 1..n : frames'[f] = frames[f], Len(todo') <= t,
             caller # "failed" /\ caller' # "failed" => Len(queued') + Len(todo') <= q + t,
             caller' # "failed" => caller # "failed"
      PROVE  Marks
  BY <1>2, <1>3, <1>4, <1>5, SMTT(40) DEF Marks
<1>6. CASE OpenDecoder
  <2>1. UNCHANGED <<frames, todo, queued>> /\ caller = "idle"
    BY <1>6 DEF OpenDecoder
  <2> QED
    BY <1>2, <1>5, <2>1
<1>7. ASSUME NEW k \in Nat, Pushed(k) PROVE Marks
  <2>1. /\ Len(frames') = n + k /\ Len(todo') = k /\ \A f \in 1..n : frames'[f] = frames[f]
        /\ caller = "reading" /\ queued' = queued
    BY <1>7 DEF Pushed, Grows
  <2>2. t = 0
    BY <1>1, <2>1, EmptySeq DEF PhaseInv
  <2> QED
    BY <1>2, <1>3, <1>4, <2>1, <2>2 DEF Marks
<1>8. CASE SplitFrame /\ frames[Head(todo)].kind # "foreign"
  <2>1. /\ caller = "pushing" /\ todo # <<>> /\ todo' = Tail(todo) /\ Handle(Head(todo))
        /\ frames' = frames /\ caller' = caller
    BY <1>8, SplitMoves
  <2>2. Len(Tail(todo)) = t - 1 /\ Head(todo) \in 1..n
    BY <1>1, <2>1, HeadTodo
  <2>3. Len(queued') <= q + 1
    <3>1. CASE Now(Head(todo))
      BY <1>2, <3>1 DEF Now
    <3>2. CASE Later(Head(todo))
      <4>1. queued \in Seq(Nat) /\ Head(todo) \in Nat /\ queued' = Append(queued, Head(todo))
        BY <1>1, <2>2, <3>2 DEF TypeInv, Later
      <4>2. Len(queued') = q + 1
        BY <4>1
      <4> QED
        BY <1>2, <4>2
    <3> QED
      BY <2>1, <3>1, <3>2 DEF Handle
  <2>4. Len(todo') = t - 1
    BY <2>1, <2>2
  <2>5. Len(todo') <= t /\ Len(queued') + Len(todo') <= q + t
    BY <1>2, <2>3, <2>4
  <2> QED
    BY <1>5, <2>1, <2>5
<1>9. CASE Moves
  <2>1. /\ caller = "pushing" /\ queued # <<>> /\ queued' = Tail(queued)
        /\ UNCHANGED <<frames, caller, todo>>
    BY <1>9, OldestMoves
  <2>2. Len(Tail(queued)) = q - 1
    BY <1>1, <2>1, HeadQueued
  <2>3. Len(queued') = q - 1
    BY <2>1, <2>2
  <2>4. Len(todo') <= t /\ Len(queued') + Len(todo') <= q + t
    BY <1>2, <2>1, <2>3
  <2> QED
    BY <1>5, <2>1, <2>4
<1>10. CASE Fails
  <2>1. caller = "pushing" /\ caller' = "failed" /\ todo' = <<>> /\ UNCHANGED <<frames, queued>>
    BY <1>10, PushFails
  <2>2. Len(todo') <= t
    BY <1>2, <2>1, EmptySeq
  <2> QED
    BY <1>5, <2>1, <2>2
<1>11. ASSUME UNCHANGED <<frames, todo, queued>>, caller' # "failed" => caller # "failed"
       PROVE  Marks
  BY <1>2, <1>5, <1>11
<1>12. CASE Leaves
  <2>1. UNCHANGED <<frames, caller, todo, queued>>
    BY <1>12, CurrentLeaves
  <2> QED
    BY <1>11, <2>1
<1>13. CASE Returns
  <2>1. caller = "pushing" /\ todo' = todo /\ UNCHANGED <<frames, queued>>
    BY <1>13, PushReturns
  <2> QED
    BY <1>11, <2>1
<1>14. CASE Turns
  <2>1. UNCHANGED <<frames, caller, todo, queued>>
    BY <1>14, PhaseTurns
  <2> QED
    BY <1>11, <2>1
<1>15. CASE FallbackFrame /\ FallbackGood
  <2>1. /\ todo' = Tail(todo) /\ todo # <<>> /\ UNCHANGED <<frames, caller, queued>>
    BY <1>15 DEF FallbackFrame, FallbackGood
  <2>2. caller = "pushing"
    BY <1>15, FallbackGives
  <2>3. Len(Tail(todo)) = t - 1
    BY <1>1, <2>1, <2>2, HeadTodo
  <2>4. Len(todo') <= t /\ Len(queued') + Len(todo') <= q + t
    BY <1>2, <2>1, <2>3
  <2> QED
    BY <1>5, <2>1, <2>4
<1>16. CASE TakeChunks \/ Streams(current) \/ Waits
              \/ (\E f \in DOMAIN threads : ThreadEvent(f)) \/ UNCHANGED nativeVars
  <2>1. UNCHANGED <<frames, caller, todo, queued>>
    BY <1>16, InPlace
  <2> QED
    BY <1>11, <2>1
<1> QED
  BY <1>6, <1>7, <1>8, <1>9, <1>10, <1>12, <1>13, <1>14, <1>15, <1>16 DEF Cases

\* A thread that did not change stays good.
LEMMA SameThread ==
  ASSUME NativeInv, TypeInv', Marks, NEW f \in DOMAIN threads, f \in DOMAIN threads',
         threads'[f] = threads[f]
  PROVE  ThreadGood(f)'
<1>1. TypeInv /\ ThreadGood(f)
  BY DEF NativeInv, ThreadInv
<1>2. f \in 1..Split /\ f \in Int
  BY <1>1 DEF ThreadGood
<1>3. f \in 1..Len(frames) /\ f \in 1..Split'
  <2>1. Len(frames) \in Nat
    BY <1>1 DEF TypeInv
  <2> QED
    BY <1>2, <2>1 DEF Marks
<1>4. frames'[f] = frames[f]
  BY <1>3 DEF Marks
<1>5. caller' # "failed" /\ f > Taken' => caller # "failed" /\ f > Taken
  BY <1>2 DEF Marks
<1>6. /\ threads'[f].taken <= threads'[f].made /\ threads'[f].made <= frames'[f].n
      /\ threads'[f].made - threads'[f].taken <= MaxBuffered
      /\ threads'[f].state = "running" /\ ~threads'[f].paused
           => threads'[f].made - threads'[f].taken < MaxBuffered
      /\ threads'[f].state = "ended" => threads'[f].made = frames'[f].n
  BY <1>1, <1>4 DEF ThreadGood
<1>7. caller' # "failed" /\ f > Taken' => threads'[f].taken = 0
  BY <1>1, <1>5 DEF ThreadGood
<1> QED
  BY <1>3, <1>6, <1>7 DEF ThreadGood

LEMMA StartedGood ==
  ASSUME TypeInv', NEW f \in 1..Len(frames'), f \in 1..Split', Started(f)
  PROVE  ThreadGood(f)'
<1>1. frames'[f] \in Frame
  BY ElementOfSeq DEF TypeInv
<1>2. frames'[f].n \in Nat
  BY <1>1 DEF Frame
<1>3. MaxBuffered \in Nat /\ MaxBuffered > 0
  BY NativeAssumption DEF NativeAssumption
<1> QED
  BY <1>2, <1>3 DEF Started, ThreadGood

LEMMA ThreadStep ==
  ASSUME NativeInv, Cases, TypeInv', OrderInv', Marks
  PROVE  ThreadInv'
<1>1. TypeInv /\ OrderInv /\ PhaseInv /\ ThreadInv /\ FramesInv
  BY DEF NativeInv
<1>2. MaxBuffered \in Nat /\ MaxBuffered > 0
  BY NativeAssumption DEF NativeAssumption
<1>3. CASE UNCHANGED threads
  BY <1>1, <1>3, SameThread DEF ThreadInv
<1>4. ASSUME NEW g, Started(g), g \in 1..Len(frames'), g \in 1..Split' PROVE ThreadInv'
  <2>1. ASSUME NEW f \in DOMAIN threads' PROVE ThreadGood(f)'
    <3>1. CASE f = g
      BY <1>4, <3>1, StartedGood
    <3>2. CASE f # g
      <4>1. f \in DOMAIN threads /\ threads'[f] = threads[f]
        BY <1>4, <2>1, <3>2 DEF Started
      <4> QED
        BY <2>1, <4>1, SameThread
    <3> QED
      BY <3>1, <3>2
  <2> QED
    BY <2>1 DEF ThreadInv
<1>5. ASSUME NEW g \in DOMAIN threads, OnlyThread(g), ThreadGood(g)' PROVE ThreadInv'
  <2>1. ASSUME NEW f \in DOMAIN threads' PROVE ThreadGood(f)'
    <3>1. CASE f = g
      BY <1>5, <3>1
    <3>2. CASE f # g
      <4>1. f \in DOMAIN threads /\ threads'[f] = threads[f]
        BY <1>5, <2>1, <3>2 DEF OnlyThread
      <4> QED
        BY <2>1, <4>1, SameThread
    <3> QED
      BY <3>1, <3>2
  <2> QED
    BY <2>1 DEF ThreadInv
<1>6. CASE SplitFrame /\ frames[Head(todo)].kind = "large"
  <2>1. /\ caller = "pushing" /\ todo # <<>> /\ Started(Head(todo)) /\ todo' = Tail(todo)
        /\ frames' = frames
    BY <1>6, SplitMoves
  <2>2. Head(todo) = Split + 1 /\ Head(todo) \in 1..Len(frames) /\ Len(Tail(todo)) = Len(todo) - 1
        /\ Len(todo) \in Nat /\ Len(frames) \in Nat
    BY <1>1, <2>1, HeadTodo
  <2>3. Split' = Split + 1
    BY <2>1, <2>2 DEF Split
  <2>4. Head(todo) \in 1..Split'
    BY <2>2, <2>3 DEF Marks
  <2> QED
    BY <1>4, <2>1, <2>2, <2>4
<1>7. CASE Streams(current)
  <2>1. /\ StartThread(current) /\ phase = "deliver" /\ current \notin DOMAIN threads
        /\ UNCHANGED <<frames, todo, queued>>
    BY <1>7 DEF Streams, DeliverInline
  <2>2. caller # "failed" /\ current # NoFrame
    BY <1>1, <2>1 DEF PhaseInv, Delivering
  <2>3. current \in 1..Len(frames) /\ current = Taken
    BY <1>1, <2>2 DEF OrderInv
  <2>4. Started(current)
    BY <1>1, <2>1, <2>3, StartsThread
  <2>5. current \in 1..Split'
    BY <2>3 DEF Marks
  <2> QED
    BY <1>4, <2>1, <2>3, <2>4, <2>5
<1>8. ASSUME NEW c \in DOMAIN threads, OnlyThread(c), c = current, frames' = frames, caller # "failed",
             UNCHANGED <<todo, queued>>, current # NoFrame,
             threads'[c].made = threads[c].made, threads'[c].taken = threads[c].made,
             threads'[c].state = threads[c].state
      PROVE  ThreadInv'
  <2>1. c = Taken /\ Taken \in Int
    BY <1>1, <1>8 DEF OrderInv, Marks
  <2>2. threads[c].made \in Nat
    BY <1>1, <1>8, ThreadFields
  <2>3. ThreadGood(c)
    BY <1>1, <1>8 DEF ThreadInv
  <2>4. Taken' = Taken /\ Split' = Split
    BY <1>8 DEF Taken, Split
  <2>5. c \in 1..Split' /\ threads'[c].made <= frames'[c].n
    BY <1>8, <2>3, <2>4 DEF ThreadGood
  <2>6. /\ threads'[c].taken <= threads'[c].made
        /\ threads'[c].made - threads'[c].taken < MaxBuffered
        /\ threads'[c].made - threads'[c].taken <= MaxBuffered
    BY <1>2, <1>8, <2>2
  <2>7. threads'[c].state = "ended" => threads'[c].made = frames'[c].n
    BY <1>8, <2>3 DEF ThreadGood
  <2>8. ~(c > Taken')
    BY <2>1, <2>4
  <2>9. ThreadGood(c)'
    BY <2>5, <2>6, <2>7, <2>8 DEF ThreadGood
  <2> QED
    BY <1>5, <1>8, <2>9
<1>9. CASE TakeChunks \/ Waits
  <2>1. UNCHANGED <<frames, todo, queued>>
    BY <1>9, InPlace
  <2>2. phase \in {"deliver", "check"}
    BY <1>9 DEF TakeChunks, Waits, CheckThread
  <2>3. current # NoFrame /\ caller # "failed"
    BY <1>1, <2>2 DEF PhaseInv, Delivering
  <2>4. CASE TakeChunks
    <3>1. current \in DOMAIN threads
      BY <2>4, TakeGives
    <3>2. PICK c \in DOMAIN threads : c = current
      BY <3>1
    <3> QED
      BY <1>8, <2>1, <2>3, <2>4, <3>2, TakeThread
  <2>5. CASE Waits
    <3>1. current \in DOMAIN threads /\ threads[current].taken = threads[current].made
      BY <1>1, <2>5 DEF PhaseInv, Waits, CheckThread
    <3>2. PICK c \in DOMAIN threads : c = current
      BY <3>1
    <3>3. WaitForMore(current)
      BY <2>5 DEF Waits, CheckThread
    <3> QED
      BY <1>1, <1>8, <2>1, <2>3, <3>1, <3>2, <3>3, WaitThread
  <2> QED
    BY <1>9, <2>4, <2>5
<1>10. ASSUME NEW f \in DOMAIN threads, ThreadEvent(f) PROVE ThreadInv'
  <2>1. /\ OnlyThread(f) /\ threads'[f].taken = threads[f].taken
        /\ threads[f].state = "running"
        /\ \/ /\ Data(f) /\ ~threads[f].paused /\ threads[f].made < frames[f].n
              /\ threads'[f].made = threads[f].made + 1 /\ threads'[f].state = "running"
              /\ ~threads'[f].paused => threads'[f].made - threads[f].taken < MaxBuffered
           \/ /\ threads'[f].made = threads[f].made /\ threads'[f].state # "running"
              /\ threads'[f].state = "ended" => threads[f].made = frames[f].n
        /\ UNCHANGED <<frames, todo, queued, caller>>
    BY <1>1, <1>10, EventSteps
  <2>2. threads[f].made \in Nat /\ threads[f].taken \in Nat
    BY <1>1, <1>10, ThreadFields
  <2>3. ThreadGood(f)
    BY <1>1 DEF ThreadInv
  <2>4. frames[f].n \in Nat
    <3>1. f \in 1..Len(frames)
      <4>1. f \in 1..Split /\ Len(frames) \in Nat
        BY <1>1, <2>3 DEF ThreadGood, TypeInv
      <4> QED
        BY <4>1 DEF Marks
    <3> QED
      BY <1>1, <3>1, FrameFields
  <2>5. Taken' = Taken /\ Split' = Split
    BY <2>1 DEF Taken, Split
  <2>6. ThreadGood(f)'
    <3>1. CASE /\ ~threads[f].paused /\ threads[f].made < frames[f].n
               /\ threads'[f].made = threads[f].made + 1 /\ threads'[f].state = "running"
               /\ ~threads'[f].paused => threads'[f].made - threads[f].taken < MaxBuffered
      BY <1>2, <2>1, <2>2, <2>3, <2>4, <2>5, <3>1 DEF ThreadGood
    <3>2. CASE /\ threads'[f].made = threads[f].made /\ threads'[f].state # "running"
               /\ threads'[f].state = "ended" => threads[f].made = frames[f].n
      BY <2>1, <2>3, <2>5, <3>2 DEF ThreadGood
    <3> QED
      BY <2>1, <3>1, <3>2
  <2> QED
    BY <1>5, <2>1, <2>6
<1>11. UNCHANGED threads \/ (SplitFrame /\ frames[Head(todo)].kind = "large")
         \/ Streams(current) \/ TakeChunks \/ Waits \/ \E f \in DOMAIN threads : ThreadEvent(f)
  <2>1. CASE SplitFrame /\ frames[Head(todo)].kind # "foreign"
    BY <2>1, SplitMoves
  <2>2. CASE Moves
    BY <2>2, OldestMoves
  <2>3. CASE Leaves
    BY <2>3, CurrentLeaves
  <2>4. CASE Fails
    BY <2>4, PushFails
  <2>5. CASE Returns
    BY <2>5, PushReturns
  <2>6. CASE Turns
    BY <2>6, PhaseTurns
  <2> QED
    BY <2>1, <2>2, <2>3, <2>4, <2>5, <2>6
    DEF Cases, OpenDecoder, Pushed, FallbackFrame, nativeVars
<1> QED
  BY <1>3, <1>6, <1>7, <1>9, <1>10, <1>11

LEMMA OutStep ==
  ASSUME NativeInv, Cases, TypeInv', OrderInv', Marks
  PROVE  OutInv'
<1>1. TypeInv /\ FramesInv /\ OrderInv /\ PhaseInv /\ ThreadInv /\ OutInv
  BY DEF NativeInv
<1>2. NoFrame \notin Nat
  BY NativeAssumption DEF NativeAssumption
<1>3. Len(frames) \in Nat /\ Len(todo) \in Nat /\ Len(queued) \in Nat
  BY <1>1 DEF TypeInv
<1>4. ASSUME UNCHANGED <<frames, out, current, todo, queued>>, caller' # "failed" => caller # "failed",
             DOMAIN threads' = DOMAIN threads,
             \A f \in DOMAIN threads : threads'[f].taken = threads[f].taken
      PROVE  OutInv'
  <2>1. ASSUME caller' # "failed"
        PROVE  /\ \A i \in 1..Len(out') : out'[i] = i
               /\ Len(out') = IF current' = NoFrame THEN End(Taken)'
                              ELSE frames'[current'].lo
                                + (IF current' \in DOMAIN threads' THEN threads'[current'].taken ELSE 0)
    <3>1. End(Taken)' = End(Taken)
      BY <1>4 DEF End, Taken
    <3> QED
      BY <1>1, <1>4, <2>1, <3>1 DEF OutInv
  <2> QED
    BY <2>1 DEF OutInv
<1>5. CASE OpenDecoder \/ UNCHANGED nativeVars
  <2>1. UNCHANGED <<frames, out, current, todo, queued, threads>> /\ (caller' # "failed" => caller # "failed")
    BY <1>5 DEF OpenDecoder, nativeVars
  <2> QED
    BY <1>4, <2>1
<1>6. ASSUME NEW k \in Nat, Pushed(k) PROVE OutInv'
  <2>1. /\ Len(frames') = Len(frames) + k /\ \A f \in 1..Len(frames) : frames'[f] = frames[f]
        /\ Len(todo') = k
        /\ caller = "reading" /\ UNCHANGED <<queued, current, threads, out>>
    BY <1>6 DEF Pushed, Grows
  <2>2. current = NoFrame /\ Len(todo) = 0
    BY <1>1, <2>1, EmptySeq DEF PhaseInv, Delivering
  <2>3. Taken' = Taken /\ Taken \in 0..Len(frames)
    BY <1>1, <1>3, <2>1, <2>2 DEF Taken, OrderInv
  <2>4. End(Taken)' = End(Taken)
    <3>1. CASE Taken = 0
      BY <2>3, <3>1 DEF End
    <3>2. CASE Taken # 0
      <4>1. Taken \in 1..Len(frames)
        BY <1>3, <2>3, <3>2
      <4>2. frames'[Taken] = frames[Taken]
        BY <2>1, <4>1
      <4> QED
        BY <2>3, <4>2 DEF End
    <3> QED
      BY <3>1, <3>2
  <2> QED
    BY <1>1, <2>1, <2>2, <2>4 DEF OutInv
<1>7. CASE SplitFrame /\ frames[Head(todo)].kind # "foreign"
  <2>1. /\ caller = "pushing" /\ todo # <<>> /\ todo' = Tail(todo) /\ Handle(Head(todo))
        /\ current = NoFrame /\ Head(todo) \notin DOMAIN threads
        /\ frames[Head(todo)].kind # "large" => UNCHANGED threads
        /\ UNCHANGED <<frames, caller, out>>
    BY <1>7, SplitMoves
  <2>2. /\ Head(todo) = Split + 1 /\ Head(todo) \in 1..Len(frames)
        /\ Len(Tail(todo)) = Len(todo) - 1
    BY <1>1, <2>1, HeadTodo
  <2>3. (\A i \in 1..Len(out) : out[i] = i) /\ Len(out) = End(Taken)
    BY <1>1, <2>1 DEF OutInv
  <2>4. CASE Now(Head(todo)) /\ queued = <<>> /\ frames[Head(todo)].kind # "large"
    <3>1. current' = Head(todo) /\ current' # NoFrame /\ current' \notin DOMAIN threads'
      BY <1>2, <2>1, <2>2, <2>4 DEF Now
    <3>2. Len(queued) = 0
      BY <2>4, EmptySeq
    <3>3. Taken = Split /\ Head(todo) - 1 = Split
      BY <1>3, <2>2, <3>2 DEF Taken, Split
    <3>4. frames[Head(todo)].lo = End(Taken)
      BY <1>1, <2>2, <3>3 DEF FramesInv
    <3>5. frames[Head(todo)].lo \in Nat
      BY <1>1, <2>2, FrameFields
    <3>6. Len(out') = frames'[current'].lo + 0
      BY <2>1, <2>3, <3>1, <3>4, <3>5
    <3> QED
      BY <2>1, <2>3, <3>1, <3>6 DEF OutInv
  <2>5. CASE Later(Head(todo))
    <3>1. queued' = Append(queued, Head(todo)) /\ current' = NoFrame /\ queued \in Seq(Nat) /\ Head(todo) \in Nat
      BY <1>1, <2>1, <2>2, <2>5 DEF Later, TypeInv
    <3>2. Len(queued') = Len(queued) + 1
      BY <3>1
    <3>3. Taken' = Taken
      BY <1>3, <2>1, <2>2, <3>2 DEF Taken
    <3>4. End(Taken)' = End(Taken)
      BY <2>1, <3>3 DEF End
    <3> QED
      BY <2>1, <2>3, <3>1, <3>4 DEF OutInv
  <2> QED
    BY <2>1, <2>4, <2>5 DEF Handle
<1>8. CASE Moves
  <2>1. /\ caller = "pushing" /\ queued # <<>> /\ current = NoFrame
        /\ current' = Head(queued) /\ UNCHANGED <<frames, caller, todo, threads, out>>
    BY <1>8, OldestMoves
  <2>2. Head(queued) = Taken + 1 /\ Head(queued) \in 1..Len(frames)
    BY <1>1, <2>1, HeadQueued
  <2>3. Taken \in Int
    BY DEF Marks
  <2>4. frames[Head(queued)].lo = End(Taken) /\ frames[Head(queued)].lo \in Nat
    <3>1. Head(queued) - 1 = Taken
      BY <2>2, <2>3
    <3> QED
      BY <1>1, <2>2, <3>1, FrameFields DEF FramesInv
  <2>5. Head(queued) \in DOMAIN threads => threads[Head(queued)].taken = 0
    <3>1. Head(queued) > Taken
      BY <2>2, <2>3
    <3> QED
      BY <1>1, <2>1, <3>1 DEF ThreadInv, ThreadGood
  <2>6. (\A i \in 1..Len(out) : out[i] = i) /\ Len(out) = End(Taken)
    BY <1>1, <2>1 DEF OutInv
  <2>7. current' # NoFrame
    BY <1>2, <2>1, <2>2
  <2>8. Len(out') = frames'[current'].lo
                      + (IF current' \in DOMAIN threads' THEN threads'[current'].taken ELSE 0)
    BY <2>1, <2>4, <2>5, <2>6
  <2> QED
    BY <2>1, <2>6, <2>7, <2>8 DEF OutInv
<1>9. CASE Leaves
  <2>1. /\ caller = "pushing" /\ Delivering /\ current \in 1..Len(frames) /\ current' = NoFrame
        /\ UNCHANGED <<frames, caller, todo, queued, threads>>
    BY <1>9, CurrentLeaves
  <2>2. current = Taken /\ current # NoFrame
    BY <1>1, <1>2, <2>1 DEF OrderInv
  <2>3. frames[current].lo + frames[current].n = End(Taken)
    BY <1>1, <2>1, <2>2, FrameWithin
  <2>4. End(Taken)' = End(Taken)
    BY <2>1 DEF End, Taken
  <2>5. CASE DeliverInline /\ InlineGood
    <3>1. Gives(current, 0, frames[current].n)
      BY <2>5, InlineGives
    <3>2. frames[current].n \in Nat
      BY <1>1, <2>1, FrameFields
    <3>3. Given(frames[current].lo + frames[current].n)
      BY <1>1, <2>1, <3>1, <3>2, GivesInOrder
    <3> QED
      BY <2>1, <2>3, <2>4, <3>3 DEF OutInv, Given
  <2>6. CASE CheckThread /\ threads[current].state = "ended"
    <3>1. out' = out /\ phase = "check"
      BY <2>6 DEF CheckThread
    <3>2. current \in DOMAIN threads /\ threads[current].taken = threads[current].made
      BY <1>1, <3>1 DEF PhaseInv
    <3>3. threads[current].made = frames[current].n
      BY <1>1, <2>6, <3>2 DEF ThreadInv, ThreadGood
    <3>4. /\ \A i \in 1..Len(out) : out[i] = i
          /\ Len(out) = frames[current].lo + threads[current].taken
      BY <1>1, <2>1, <2>2, <3>2 DEF OutInv
    <3>5. Len(out) = End(Taken)
      BY <2>3, <3>2, <3>3, <3>4
    <3> QED
      BY <2>1, <2>4, <3>1, <3>4, <3>5 DEF OutInv
  <2> QED
    BY <1>9, <2>5, <2>6 DEF Leaves
<1>10. CASE Fails
  BY <1>10, PushFails DEF OutInv
<1>11. CASE Returns \/ Turns
  <2>1. UNCHANGED <<frames, out, current, todo, queued, threads>> /\ (caller' # "failed" => caller # "failed")
    BY <1>11, PushReturns, PhaseTurns
  <2> QED
    BY <1>4, <2>1
<1>12. CASE FallbackFrame /\ FallbackGood
  <2>1. /\ todo' = Tail(todo) /\ todo # <<>> /\ UNCHANGED <<frames, caller, queued, current>>
    BY <1>12 DEF FallbackFrame, FallbackGood
  <2>2. /\ Gives(Head(todo), 0, frames[Head(todo)].n)
        /\ Head(todo) \in 1..Len(frames) /\ Head(todo) = Split + 1 /\ Taken = Split
        /\ caller = "pushing" /\ current = NoFrame
    BY <1>12, FallbackGives
  <2>3. frames[Head(todo)].n \in Nat
    BY <1>1, <2>2, FrameFields
  <2>4. Given(frames[Head(todo)].lo + frames[Head(todo)].n)
    BY <1>1, <2>2, <2>3, GivesInOrder
  <2>5. Len(Tail(todo)) = Len(todo) - 1
    BY <1>1, <2>1, <2>2, HeadTodo
  <2>6. Taken' = Taken + 1
    BY <1>3, <2>1, <2>5 DEF Taken
  <2>7. frames[Head(todo)].lo + frames[Head(todo)].n = End(Head(todo))
    BY <1>1, <2>2, FrameWithin
  <2>8. End(Taken)' = End(Head(todo))
    BY <2>1, <2>2, <2>6 DEF End
  <2> QED
    BY <2>1, <2>2, <2>4, <2>7, <2>8 DEF OutInv, Given
<1>13. CASE TakeChunks
  <2>1. /\ Gives(current, threads[current].taken, threads[current].made)
        /\ current \in 1..Len(frames) /\ current \in DOMAIN threads
        /\ threads[current].taken \in Nat /\ threads[current].made \in Nat
    BY <1>13, TakeGives
  <2>2. Given(frames[current].lo + threads[current].made)
    BY <1>1, <2>1, GivesInOrder
  <2>3. DOMAIN threads' = DOMAIN threads /\ threads'[current].taken = threads[current].made
    BY <1>13, TakeThread DEF OnlyThread
  <2>4. UNCHANGED <<frames, current>> /\ current # NoFrame
    BY <1>2, <1>13, <2>1 DEF TakeChunks
  <2>5. Len(out') = frames'[current'].lo
                      + (IF current' \in DOMAIN threads' THEN threads'[current'].taken ELSE 0)
    BY <2>1, <2>2, <2>3, <2>4 DEF Given
  <2> QED
    BY <2>2, <2>4, <2>5 DEF OutInv, Given
<1>14. CASE Streams(current)
  <2>1. /\ StartThread(current) /\ phase = "deliver" /\ current \notin DOMAIN threads
        /\ UNCHANGED <<frames, todo, queued, current, out, caller>>
    BY <1>14 DEF Streams, DeliverInline
  <2>2. current # NoFrame /\ current \in Nat /\ caller # "failed"
    BY <1>1, <2>1 DEF PhaseInv, Delivering, TypeInv
  <2>3. Started(current)
    BY <1>1, <2>1, <2>2, StartsThread
  <2>4. (\A i \in 1..Len(out) : out[i] = i) /\ Len(out) = frames[current].lo + 0
    BY <1>1, <2>1, <2>2 DEF OutInv
  <2>5. Len(out') = frames'[current'].lo
                      + (IF current' \in DOMAIN threads' THEN threads'[current'].taken ELSE 0)
    BY <2>1, <2>3, <2>4 DEF Started
  <2> QED
    BY <2>1, <2>2, <2>4, <2>5 DEF OutInv
<1>15. CASE Waits
  <2>1. /\ WaitForMore(current) /\ phase = "check"
        /\ UNCHANGED <<frames, out, current, todo, queued, caller>>
    BY <1>15 DEF Waits, CheckThread
  <2>2. current \in DOMAIN threads
    BY <1>1, <2>1 DEF PhaseInv
  <2>3. OnlyThread(current) /\ threads'[current].taken = threads[current].taken
    BY <1>1, <2>1, <2>2, WaitThread
  <2> QED
    BY <1>4, <2>1, <2>3 DEF OnlyThread
<1>16. ASSUME NEW f \in DOMAIN threads, ThreadEvent(f) PROVE OutInv'
  <2>1. /\ OnlyThread(f) /\ threads'[f].taken = threads[f].taken
        /\ UNCHANGED <<frames, out, current, todo, queued, caller>>
    BY <1>1, <1>16, EventSteps
  <2> QED
    BY <1>4, <2>1 DEF OnlyThread
<1> QED
  BY <1>5, <1>6, <1>7, <1>8, <1>9, <1>10, <1>11, <1>12, <1>13, <1>14, <1>15, <1>16 DEF Cases

\* The frames in the queue that have a thread.
LEMMA ThreadedFinite ==
  ASSUME TypeInv
  PROVE  /\ DOMAIN queued = 1..Len(queued) /\ ThreadedQueued \subseteq 1..Len(queued)
         /\ IsFiniteSet(ThreadedQueued) /\ Cardinality(ThreadedQueued) \in Nat
<1>1. queued \in Seq(Nat) /\ Len(queued) \in Nat
  BY DEF TypeInv
<1>2. DOMAIN queued = 1..Len(queued) /\ ThreadedQueued \subseteq 1..Len(queued)
  BY <1>1 DEF ThreadedQueued
<1>3. IsFiniteSet(1..Len(queued))
  BY <1>1, FS_Interval
<1>4. IsFiniteSet(ThreadedQueued)
  BY <1>2, <1>3, FS_Subset
<1> QED
  BY <1>2, <1>4, FS_CardinalityType

LEMMA ThreadedNumber == (TypeInv => Cardinality(ThreadedQueued) \in Nat)'
<1>1. TypeInv => Cardinality(ThreadedQueued) \in Nat
  BY ThreadedFinite
<1> QED
  BY <1>1, PTL

LEMMA ThreadedSame ==
  ASSUME TypeInv, OrderInv, queued' = queued, \A f \in 1..Len(frames) : frames'[f] = frames[f]
  PROVE  ThreadedQueued' = ThreadedQueued
<1>1. DOMAIN queued = 1..Len(queued)
  BY ThreadedFinite
<1>2. \A i \in DOMAIN queued : queued[i] \in 1..Len(frames)
  BY <1>1 DEF OrderInv
<1> QED
  BY <1>2 DEF ThreadedQueued

LEMMA ThreadedNone ==
  ASSUME queued = <<>>
  PROVE  Cardinality(ThreadedQueued) = 0 /\ Len(queued) = 0
<1>1. ThreadedQueued = {} /\ Len(queued) = 0
  BY EmptySeq DEF ThreadedQueued
<1> QED
  BY <1>1, FS_EmptySet

LEMMA ThreadedAppend ==
  ASSUME TypeInv, TypeInv', frames' = frames, NEW f \in Nat, queued' = Append(queued, f)
  PROVE  Cardinality(ThreadedQueued') <= Cardinality(ThreadedQueued) + 1
<1>1. queued \in Seq(Nat) /\ Len(queued) \in Nat /\ DOMAIN queued = 1..Len(queued)
  BY ThreadedFinite DEF TypeInv
<1>2. /\ queued' \in Seq(Nat) /\ Len(queued') = Len(queued) + 1
      /\ \A i \in 1..Len(queued) : queued'[i] = queued[i]
  BY <1>1
<1>3. DOMAIN queued' = 1..Len(queued')
  BY <1>2
<1> DEFINE more == ThreadedQueued \cup {Len(queued) + 1}
<1>4. ThreadedQueued' \in SUBSET more
  <2>1. ASSUME NEW i \in ThreadedQueued' PROVE i \in more
    <3>1. i \in 1..Len(queued') /\ frames[queued'[i]].kind = "large"
      BY <1>3, <2>1 DEF ThreadedQueued
    <3>2. CASE i \in 1..Len(queued)
      BY <1>1, <1>2, <3>1, <3>2 DEF ThreadedQueued
    <3>3. CASE i \notin 1..Len(queued)
      BY <1>1, <1>2, <3>1, <3>3
    <3> QED
      BY <3>2, <3>3
  <2> QED
    BY <2>1
<1>5. /\ IsFiniteSet(ThreadedQueued) /\ Cardinality(ThreadedQueued) \in Nat
  BY ThreadedFinite
<1>6. IsFiniteSet(more) /\ Cardinality(more) <= Cardinality(ThreadedQueued) + 1
  <2>1. /\ IsFiniteSet(more)
        /\ Cardinality(more) = IF Len(queued) + 1 \in ThreadedQueued
                                 THEN Cardinality(ThreadedQueued) ELSE Cardinality(ThreadedQueued) + 1
    BY <1>5, FS_AddElement
  <2> QED
    BY <1>5, <2>1
<1> HIDE DEF more
<1>7. IsFiniteSet(ThreadedQueued') /\ Cardinality(ThreadedQueued') <= Cardinality(more)
  BY <1>4, <1>6, FS_Subset
<1>8. Cardinality(ThreadedQueued') \in Nat /\ Cardinality(more) \in Nat
  BY <1>6, <1>7, FS_CardinalityType
<1> QED
  BY <1>5, <1>6, <1>7, <1>8

LEMMA ThreadedTail ==
  ASSUME TypeInv, TypeInv', frames' = frames, queued # <<>>, queued' = Tail(queued)
  PROVE  Cardinality(ThreadedQueued') <= Cardinality(ThreadedQueued)
<1>1. queued \in Seq(Nat) /\ Len(queued) \in Nat /\ DOMAIN queued = 1..Len(queued) /\ Len(queued) # 0
  BY ThreadedFinite, EmptySeq DEF TypeInv
<1>2. /\ queued' \in Seq(Nat) /\ Len(queued') = Len(queued) - 1
      /\ \A i \in 1..Len(queued) - 1 : queued'[i] = queued[i + 1]
  BY <1>1
<1>3. DOMAIN queued' = 1..(Len(queued) - 1)
  BY <1>2
<1>4. \A i \in ThreadedQueued' : i \in Nat /\ i + 1 \in ThreadedQueued
  <2>1. ASSUME NEW i \in ThreadedQueued' PROVE i \in Nat /\ i + 1 \in ThreadedQueued
    <3>1. i \in 1..(Len(queued) - 1) /\ frames[queued'[i]].kind = "large"
      BY <1>3, <2>1 DEF ThreadedQueued
    <3>2. i + 1 \in 1..Len(queued) /\ queued'[i] = queued[i + 1] /\ i \in Nat
      BY <1>1, <1>2, <3>1
    <3> QED
      BY <1>1, <3>1, <3>2 DEF ThreadedQueued
  <2> QED
    BY <2>1
<1> DEFINE A == ThreadedQueued'
           B == ThreadedQueued
           up == [i \in A |-> i + 1]
<1>5. IsFiniteSet(B)
  BY ThreadedFinite
<1>6. \A i \in A : i \in Nat /\ i + 1 \in B
  BY <1>4
<1> HIDE DEF A, B
<1>7. up \in Injection(A, B)
  <2>1. up \in [A -> B]
    BY <1>6
  <2>2. \A i, j \in A : up[i] = up[j] => i = j
    BY <1>6
  <2> HIDE DEF up
  <2> QED
    BY <2>1, <2>2 DEF Injection, IsInjective
<1> HIDE DEF up
<1>8. Cardinality(A) <= Cardinality(B)
  BY <1>5, <1>7, FS_Injection
<1> QED
  BY <1>8 DEF A, B

LEMMA OwnedStep ==
  ASSUME NativeInv, Cases, TypeInv'
  PROVE  OwnedInv'
<1> DEFINE Busy(f) == threads[f].state = "running" \/ threads[f].taken < threads[f].made
<1>1. TypeInv /\ OrderInv /\ PhaseInv /\ OwnedInv
  BY DEF NativeInv
<1>2. NoFrame \notin Nat /\ DOMAIN threads \subseteq Nat
  BY <1>1, NativeAssumption DEF NativeAssumption, TypeInv
<1>3. \A f \in DOMAIN threads : Busy(f) => f = current \/ InQueue(f)
  BY <1>1 DEF OwnedInv
<1>4. CASE UNCHANGED <<threads, current, queued>>
  BY <1>1, <1>4 DEF OwnedInv, InQueue
<1>5. ASSUME NEW g \in DOMAIN threads, OnlyThread(g), UNCHANGED <<current, queued>>,
             g = current \/ InQueue(g)
      PROVE  OwnedInv'
  BY <1>1, <1>5 DEF OwnedInv, InQueue, OnlyThread
<1>6. CASE OpenDecoder \/ (\E k \in Nat : Pushed(k)) \/ (FallbackFrame /\ FallbackGood)
             \/ UNCHANGED nativeVars
  <2>1. UNCHANGED <<threads, current, queued>>
    BY <1>6 DEF OpenDecoder, Pushed, FallbackFrame, FallbackGood, nativeVars
  <2> QED
    BY <1>4, <2>1
<1>7. CASE Returns \/ Turns
  <2>1. UNCHANGED <<threads, current, queued>>
    BY <1>7, PushReturns, PhaseTurns
  <2> QED
    BY <1>4, <2>1
<1>8. CASE SplitFrame /\ frames[Head(todo)].kind # "foreign"
  <2>1. /\ caller = "pushing" /\ todo # <<>> /\ Handle(Head(todo)) /\ current = NoFrame
        /\ frames[Head(todo)].kind = "large" => Started(Head(todo))
        /\ frames[Head(todo)].kind # "large" => UNCHANGED threads
    BY <1>8, SplitMoves
  <2>2. Head(todo) \in Nat
    <3>1. Head(todo) \in 1..Len(frames)
      BY <1>1, <2>1, HeadTodo
    <3> QED
      BY <3>1
  <2>3. \A f \in DOMAIN threads : Busy(f) => InQueue(f)
    BY <1>2, <1>3, <2>1
  <2>4. CASE Now(Head(todo)) /\ queued = <<>> /\ frames[Head(todo)].kind # "large"
    <3>1. \A f \in DOMAIN threads : ~InQueue(f)
      BY <2>4, EmptySeq DEF InQueue
    <3> QED
      BY <2>1, <2>3, <2>4, <3>1 DEF OwnedInv
  <2>5. CASE Later(Head(todo))
    <3>1. queued' = Append(queued, Head(todo)) /\ queued \in Seq(Nat)
      BY <1>1, <2>5 DEF Later, TypeInv
    <3>2. /\ Len(queued) \in Nat /\ Len(queued') = Len(queued) + 1
          /\ \A i \in 1..Len(queued) : queued'[i] = queued[i]
          /\ queued'[Len(queued) + 1] = Head(todo)
      BY <2>2, <3>1
    <3>3. ASSUME NEW f \in DOMAIN threads, InQueue(f) PROVE InQueue(f)'
      <4>1. PICK i \in 1..Len(queued) : queued[i] = f
        BY <3>3 DEF InQueue
      <4>2. i \in 1..Len(queued') /\ queued'[i] = f
        BY <3>2, <4>1
      <4> QED
        BY <4>2 DEF InQueue
    <3>4. ASSUME NEW h, h = Head(todo) PROVE InQueue(h)'
      <4>1. Len(queued) + 1 \in 1..Len(queued') /\ queued'[Len(queued) + 1] = h
        BY <3>2, <3>4
      <4> QED
        BY <4>1 DEF InQueue
    <3>5. ASSUME NEW f \in DOMAIN threads', f \notin DOMAIN threads PROVE InQueue(f)'
      <4>1. f = Head(todo)
        BY <2>1, <3>5 DEF Started
      <4> QED
        BY <3>4, <4>1
    <3>6. ASSUME NEW f \in DOMAIN threads', f \in DOMAIN threads, Busy(f)' PROVE InQueue(f)'
      <4>1. threads'[f] = threads[f]
        BY <2>1, <3>6 DEF Started
      <4> QED
        BY <2>3, <3>3, <3>6, <4>1
    <3> QED
      BY <3>5, <3>6 DEF OwnedInv
  <2> QED
    BY <2>1, <2>4, <2>5 DEF Handle
<1>9. CASE Moves
  <2>1. /\ caller = "pushing" /\ queued # <<>> /\ current = NoFrame
        /\ current' = Head(queued) /\ queued' = Tail(queued) /\ threads' = threads
    BY <1>9, OldestMoves
  <2>2. /\ Head(queued) = queued[1] /\ Len(Tail(queued)) = Len(queued) - 1 /\ Len(queued) \in Nat
        /\ \A i \in 1..Len(queued) - 1 : Tail(queued)[i] = queued[i + 1]
    BY <1>1, <2>1, HeadQueued
  <2>3. ASSUME NEW f \in DOMAIN threads, InQueue(f) PROVE f = current' \/ InQueue(f)'
    <3>1. PICK i \in 1..Len(queued) : queued[i] = f
      BY <2>3 DEF InQueue
    <3>2. CASE i = 1
      BY <2>1, <2>2, <3>1, <3>2
    <3>3. CASE i # 1
      <4>1. i - 1 \in 1..Len(queued) - 1 /\ (i - 1) + 1 = i
        BY <2>2, <3>1, <3>3
      <4>2. i - 1 \in 1..Len(queued') /\ queued'[i - 1] = f
        BY <2>1, <2>2, <3>1, <4>1
      <4> QED
        BY <4>2 DEF InQueue
    <3> QED
      BY <3>2, <3>3
  <2> QED
    BY <1>2, <1>3, <2>1, <2>3 DEF OwnedInv
<1>10. CASE Leaves
  <2>1. UNCHANGED <<queued, threads>>
    BY <1>10, CurrentLeaves
  <2>2. \A f \in DOMAIN threads : Busy(f) => f # current
    <3>1. CASE DeliverInline /\ InlineGood
      BY <3>1 DEF DeliverInline
    <3>2. CASE CheckThread /\ threads[current].state = "ended"
      <4>1. threads[current].taken = threads[current].made /\ threads[current].taken \in Nat
        BY <1>1, <3>2, ThreadFields DEF CheckThread, PhaseInv
      <4>2. ~Busy(current)
        BY <3>2, <4>1
      <4> QED
        BY <4>2
    <3> QED
      BY <1>10, <3>1, <3>2 DEF Leaves
  <2> QED
    BY <1>3, <2>1, <2>2 DEF OwnedInv, InQueue
<1>11. CASE Fails
  <2>1. /\ UNCHANGED <<queued, threads>>
        /\ current \in DOMAIN threads => threads[current].taken = threads[current].made
                                           /\ threads[current].state # "running"
    BY <1>11, PushFails
  <2>2. \A f \in DOMAIN threads : Busy(f) => f # current
    <3>1. ASSUME current \in DOMAIN threads PROVE ~Busy(current)
      <4>1. threads[current].taken \in Nat
        BY <1>1, <3>1, ThreadFields
      <4> QED
        BY <2>1, <3>1, <4>1
    <3> QED
      BY <3>1
  <2> QED
    BY <1>3, <2>1, <2>2 DEF OwnedInv, InQueue
<1>12. CASE TakeChunks
  <2>1. current \in DOMAIN threads /\ OnlyThread(current) /\ UNCHANGED <<current, queued>>
    BY <1>12, TakeGives, TakeThread DEF TakeChunks
  <2> QED
    BY <1>5, <2>1
<1>13. CASE Streams(current)
  <2>1. /\ StartThread(current) /\ phase = "deliver" /\ current \notin DOMAIN threads
        /\ UNCHANGED <<queued, current>>
    BY <1>13 DEF Streams, DeliverInline
  <2>2. current \in Nat
    BY <1>1, <2>1 DEF PhaseInv, Delivering, TypeInv
  <2>3. Started(current)
    BY <1>1, <2>1, <2>2, StartsThread
  <2> QED
    BY <1>3, <2>1, <2>3 DEF OwnedInv, InQueue, Started
<1>14. CASE Waits
  <2>1. WaitForMore(current) /\ phase = "check" /\ UNCHANGED <<queued, current>>
    BY <1>14 DEF Waits, CheckThread
  <2>2. current \in DOMAIN threads
    BY <1>1, <2>1 DEF PhaseInv
  <2>3. OnlyThread(current)
    BY <1>1, <2>1, <2>2, WaitThread
  <2> QED
    BY <1>5, <2>1, <2>2, <2>3
<1>15. ASSUME NEW f \in DOMAIN threads, ThreadEvent(f) PROVE OwnedInv'
  <2>1. OnlyThread(f) /\ threads[f].state = "running" /\ UNCHANGED <<queued, current>>
    BY <1>1, <1>15, EventSteps
  <2> QED
    BY <1>3, <1>5, <2>1
<1> QED
  BY <1>6, <1>7, <1>8, <1>9, <1>10, <1>11, <1>12, <1>13, <1>14, <1>15 DEF Cases

LEMMA LargeStep ==
  ASSUME NativeInv, Cases, TypeInv'
  PROVE  LargeInv'
<1>1. TypeInv /\ OrderInv /\ PhaseInv /\ LargeInv
  BY DEF NativeInv
<1>2. \A i \in 1..Len(queued) : queued[i] \in 1..Len(frames)
  BY <1>1 DEF OrderInv
<1>3. ASSUME queued' = queued, DOMAIN threads' = DOMAIN threads,
             \A f \in 1..Len(frames) : frames'[f] = frames[f]
      PROVE  LargeInv'
  BY <1>1, <1>2, <1>3 DEF LargeInv
<1>4. CASE OpenDecoder \/ (\E k \in Nat : Pushed(k)) \/ (FallbackFrame /\ FallbackGood)
             \/ UNCHANGED nativeVars
  <2>1. UNCHANGED <<threads, queued>> /\ \A f \in 1..Len(frames) : frames'[f] = frames[f]
    BY <1>4 DEF OpenDecoder, Pushed, Grows, FallbackFrame, FallbackGood, nativeVars
  <2> QED
    BY <1>3, <2>1
<1>5. CASE Leaves \/ Fails \/ Returns \/ Turns
  <2>1. UNCHANGED <<threads, queued, frames>>
    BY <1>5, CurrentLeaves, PushFails, PushReturns, PhaseTurns
  <2> QED
    BY <1>3, <2>1
<1>6. CASE SplitFrame /\ frames[Head(todo)].kind # "foreign"
  <2>1. /\ caller = "pushing" /\ todo # <<>> /\ Handle(Head(todo)) /\ frames' = frames
        /\ frames[Head(todo)].kind = "large" => Started(Head(todo))
        /\ frames[Head(todo)].kind # "large" => UNCHANGED threads
        /\ Head(todo) \notin DOMAIN threads
    BY <1>6, SplitMoves
  <2>2. Head(todo) \in Nat
    <3>1. Head(todo) \in 1..Len(frames)
      BY <1>1, <2>1, HeadTodo
    <3> QED
      BY <3>1
  <2>3. \A f \in DOMAIN threads' : f \in DOMAIN threads \/ frames[f].kind = "large"
    BY <2>1 DEF Started
  <2>4. CASE Now(Head(todo)) /\ queued = <<>>
    <3>1. queued' = <<>> /\ 1..Len(queued') = {}
      BY <2>4, EmptySeq DEF Now
    <3> QED
      BY <3>1 DEF LargeInv
  <2>5. CASE Later(Head(todo))
    <3>1. queued' = Append(queued, Head(todo)) /\ queued \in Seq(Nat)
      BY <1>1, <2>5 DEF Later, TypeInv
    <3>2. /\ Len(queued) \in Nat /\ Len(queued') = Len(queued) + 1
          /\ \A i \in 1..Len(queued) : queued'[i] = queued[i]
          /\ queued'[Len(queued) + 1] = Head(todo)
      BY <2>2, <3>1
    <3>3. ASSUME NEW i \in 1..Len(queued'), queued'[i] \in DOMAIN threads'
          PROVE  frames[queued'[i]].kind = "large"
      <4>1. CASE i \in 1..Len(queued)
        BY <1>1, <2>3, <3>2, <3>3, <4>1 DEF LargeInv
      <4>2. CASE i \notin 1..Len(queued)
        <5>1. i = Len(queued) + 1
          BY <3>2, <4>2
        <5> QED
          BY <2>1, <2>3, <3>2, <3>3, <5>1
      <4> QED
        BY <4>1, <4>2
    <3> QED
      BY <2>1, <3>3 DEF LargeInv
  <2> QED
    BY <2>1, <2>4, <2>5 DEF Handle
<1>7. CASE Moves
  <2>1. /\ caller = "pushing" /\ queued # <<>> /\ queued' = Tail(queued)
        /\ UNCHANGED <<frames, threads>>
    BY <1>7, OldestMoves
  <2>2. /\ Len(Tail(queued)) = Len(queued) - 1 /\ Len(queued) \in Nat
        /\ \A i \in 1..Len(queued) - 1 : i + 1 \in 1..Len(queued) /\ Tail(queued)[i] = queued[i + 1]
    BY <1>1, <2>1, HeadQueued
  <2>3. \A i \in 1..Len(queued') : i + 1 \in 1..Len(queued) /\ queued'[i] = queued[i + 1]
    BY <2>1, <2>2
  <2> QED
    BY <1>1, <2>1, <2>3 DEF LargeInv
<1>8. CASE TakeChunks
  <2>1. DOMAIN threads' = DOMAIN threads /\ UNCHANGED <<queued, frames>>
    BY <1>8, TakeThread DEF TakeChunks, OnlyThread
  <2> QED
    BY <1>3, <2>1
<1>9. CASE Streams(current)
  <2>1. /\ StartThread(current) /\ phase = "deliver" /\ current \notin DOMAIN threads
        /\ UNCHANGED <<queued, frames>>
    BY <1>9 DEF Streams, DeliverInline
  <2>2. caller # "failed" /\ current # NoFrame
    BY <1>1, <2>1 DEF PhaseInv, Delivering
  <2>3. current = Taken /\ current \in Nat
    BY <1>1, <2>2 DEF OrderInv, TypeInv
  <2>4. Started(current)
    BY <1>1, <2>1, <2>3, StartsThread
  <2>5. \A i \in 1..Len(queued) : queued[i] # current
    BY <1>1, <2>2, <2>3 DEF OrderInv
  <2> QED
    BY <1>1, <2>1, <2>4, <2>5 DEF LargeInv, Started
<1>10. CASE Waits
  <2>1. WaitForMore(current) /\ phase = "check" /\ UNCHANGED <<queued, frames>>
    BY <1>10 DEF Waits, CheckThread
  <2>2. current \in DOMAIN threads
    BY <1>1, <2>1 DEF PhaseInv
  <2>3. DOMAIN threads' = DOMAIN threads
    BY <1>1, <2>1, <2>2, WaitThread DEF OnlyThread
  <2> QED
    BY <1>3, <2>1, <2>3
<1>11. ASSUME NEW f \in DOMAIN threads, ThreadEvent(f) PROVE LargeInv'
  <2>1. DOMAIN threads' = DOMAIN threads /\ UNCHANGED <<queued, frames>>
    BY <1>1, <1>11, EventSteps DEF OnlyThread
  <2> QED
    BY <1>3, <2>1
<1> QED
  BY <1>4, <1>5, <1>6, <1>7, <1>8, <1>9, <1>10, <1>11 DEF Cases

LEMMA RoomStep ==
  ASSUME NativeInv, Cases, TypeInv'
  PROVE  RoomInv'
<1> DEFINE c == Cardinality(ThreadedQueued)
<1>1. TypeInv /\ OrderInv /\ PhaseInv /\ RoomInv
  BY DEF NativeInv
<1>2. MaxQueued \in Nat /\ MaxThreads \in Nat /\ MaxQueued > 0 /\ MaxThreads > 0
  BY NativeAssumption DEF NativeAssumption
<1>3. c \in Nat /\ Cardinality(ThreadedQueued') \in Nat /\ Len(queued) \in Nat
  BY <1>1, ThreadedFinite, ThreadedNumber DEF TypeInv
<1>4. ASSUME queued' = queued, \A f \in 1..Len(frames) : frames'[f] = frames[f]
      PROVE  ThreadedQueued' = ThreadedQueued /\ Room' = Room
  <2>1. ThreadedQueued' = ThreadedQueued
    BY <1>1, <1>4, ThreadedSame
  <2> QED
    BY <1>4, <2>1 DEF Room
<1> DEFINE Needs == caller \in {"idle", "reading"} \/ phase = "split" \/ (Delivering /\ after = "split")
<1>5. ASSUME queued' = queued, \A f \in 1..Len(frames) : frames'[f] = frames[f], Needs' => Needs
      PROVE  RoomInv'
  <2>1. ThreadedQueued' = ThreadedQueued /\ Room' = Room
    BY <1>4, <1>5
  <2> QED
    BY <1>1, <1>5, <2>1 DEF RoomInv
<1>6. CASE OpenDecoder \/ UNCHANGED nativeVars
  <2>1. UNCHANGED <<queued, frames, phase, after>> /\ (caller' = caller \/ caller = "idle")
    BY <1>6 DEF OpenDecoder, nativeVars
  <2> QED
    BY <1>5, <2>1 DEF Delivering
<1>7. CASE \E k \in Nat : Pushed(k)
  <2>1. /\ queued' = queued /\ caller = "reading" /\ \A f \in 1..Len(frames) : frames'[f] = frames[f]
    BY <1>7 DEF Pushed, Grows
  <2> QED
    BY <1>5, <2>1
<1>8. CASE SplitFrame /\ frames[Head(todo)].kind # "foreign"
  <2>1. /\ caller = "pushing" /\ phase = "split" /\ todo # <<>> /\ Handle(Head(todo))
        /\ frames' = frames /\ caller' = caller
    BY <1>8, SplitMoves
  <2>2. Head(todo) \in Nat
    <3>1. Head(todo) \in 1..Len(frames)
      BY <1>1, <2>1, HeadTodo
    <3> QED
      BY <3>1
  <2>3. Len(queued) < MaxQueued /\ c < MaxThreads
    BY <1>1, <2>1 DEF RoomInv, Room
  <2>4. CASE Now(Head(todo))
    BY <1>5, <2>1, <2>4 DEF Now
  <2>5. CASE Later(Head(todo))
    <3>1. queued' = Append(queued, Head(todo)) /\ queued \in Seq(Nat) /\ phase' = "enqueue"
      BY <1>1, <2>5 DEF Later, TypeInv
    <3>2. Len(queued') = Len(queued) + 1
      BY <2>2, <3>1
    <3>3. Cardinality(ThreadedQueued') <= c + 1
      BY <1>1, <2>1, <2>2, <3>1, ThreadedAppend
    <3>4. Len(queued') <= MaxQueued /\ Cardinality(ThreadedQueued') <= MaxThreads
      BY <1>2, <1>3, <2>3, <3>2, <3>3
    <3> QED
      BY <2>1, <3>1, <3>4 DEF RoomInv, Delivering
  <2> QED
    BY <2>1, <2>4, <2>5 DEF Handle
<1>9. CASE Moves
  <2>1. /\ caller = "pushing" /\ queued # <<>> /\ queued' = Tail(queued)
        /\ phase' = "deliver" /\ after' # "split" /\ UNCHANGED <<frames, caller>>
    BY <1>9, OldestMoves
  <2>2. Len(Tail(queued)) = Len(queued) - 1
    BY <1>1, <2>1, HeadQueued
  <2>3. Cardinality(ThreadedQueued') <= c
    BY <1>1, <2>1, ThreadedTail
  <2>4. Len(queued) <= MaxQueued /\ c <= MaxThreads
    BY <1>1 DEF RoomInv
  <2>5. Len(queued') <= MaxQueued /\ Cardinality(ThreadedQueued') <= MaxThreads
    BY <1>2, <1>3, <2>1, <2>2, <2>3, <2>4
  <2> QED
    BY <2>1, <2>5 DEF RoomInv, Delivering
<1>10. CASE Leaves
  <2>1. /\ Delivering /\ phase' = after /\ caller = "pushing"
        /\ UNCHANGED <<frames, caller, after, queued>>
    BY <1>10, CurrentLeaves
  <2>2. after \in {"split", "enqueue", "drain", "fallback"}
    BY <1>1 DEF TypeInv
  <2> QED
    BY <1>5, <2>1, <2>2 DEF Delivering
<1>11. CASE Fails
  <2>1. caller' = "failed" /\ phase' = "none" /\ UNCHANGED <<frames, queued>>
    BY <1>11, PushFails
  <2> QED
    BY <1>5, <2>1 DEF Delivering
<1>12. CASE Returns
  <2>1. /\ caller' = (IF final THEN "done" ELSE "reading") /\ phase \in {"split", "drain"}
        /\ phase' = "none" /\ (phase = "drain" => final) /\ UNCHANGED <<frames, queued>>
    BY <1>12, PushReturns
  <2> QED
    BY <1>5, <2>1 DEF Delivering
<1>13. CASE Turns
  <2>1. /\ caller = "pushing" /\ phase' \in {"split", "drain", "fallback"}
        /\ phase' = "split" => ~OverLimit \/ queued = <<>>
        /\ UNCHANGED <<frames, caller, queued>>
    BY <1>13, PhaseTurns
  <2>2. ThreadedQueued' = ThreadedQueued /\ Room' = Room
    BY <1>4, <2>1
  <2>3. ASSUME phase' = "split" PROVE Room
    <3>1. CASE ~OverLimit
      BY <1>2, <1>3, <3>1 DEF OverLimit, Room
    <3>2. CASE queued = <<>>
      BY <1>2, <3>2, ThreadedNone DEF Room
    <3> QED
      BY <2>1, <2>3, <3>1, <3>2
  <2> QED
    BY <1>1, <2>1, <2>2, <2>3 DEF RoomInv, Delivering
<1>14. CASE FallbackFrame /\ FallbackGood
  <2>1. UNCHANGED <<frames, queued, caller, phase, after>>
    BY <1>14 DEF FallbackFrame, FallbackGood
  <2> QED
    BY <1>5, <2>1 DEF Delivering
<1>15. CASE TakeChunks \/ Streams(current) \/ Waits
  <2>1. UNCHANGED <<frames, queued, caller, after>> /\ Delivering /\ Delivering'
    BY <1>15 DEF TakeChunks, Streams, DeliverInline, Waits, CheckThread, WaitForMore, Delivering
  <2>2. phase' # "split"
    BY <2>1 DEF Delivering
  <2> QED
    BY <1>5, <2>1, <2>2
<1>16. ASSUME NEW f \in DOMAIN threads, ThreadEvent(f) PROVE RoomInv'
  <2>1. /\ phase' \in {phase, "deliver"} /\ (phase' = "deliver" => phase = "wait")
        /\ phase \in {"none", "wait"} /\ UNCHANGED <<frames, queued, caller, after>>
    BY <1>1, <1>16, EventSteps
  <2> QED
    BY <1>5, <2>1 DEF Delivering
<1> QED
  BY <1>6, <1>7, <1>8, <1>9, <1>10, <1>11, <1>12, <1>13, <1>14, <1>15, <1>16 DEF Cases

-----------------------------------------------------------------------------
(* What follows from it.                                                    *)

LEMMA InvInit ==
  ASSUME NativeInit
  PROVE  NativeInv
<1>1. /\ frames = <<>> /\ caller = "idle" /\ final = FALSE /\ todo = <<>> /\ phase = "none"
      /\ after = "split" /\ queued = <<>> /\ current = NoFrame /\ fallback = FALSE
      /\ threads = [f \in {} |-> 0] /\ out = <<>>
  BY DEF NativeInit
<1>2. <<>> \in Seq(Frame) /\ <<>> \in Seq(Nat) /\ Len(<<>>) = 0 /\ 1..0 = {}
  OBVIOUS
<1>3. DOMAIN threads = {} /\ threads \in [{} -> Thread]
  BY <1>1
<1>4. TypeInv
  BY <1>1, <1>2, <1>3 DEF TypeInv
<1>5. FramesInv /\ OrderInv
  BY <1>1, <1>2 DEF FramesInv, OrderInv
<1>6. PhaseInv
  BY <1>1 DEF PhaseInv, Delivering
<1>7. ThreadInv /\ OwnedInv
  BY <1>3 DEF ThreadInv, OwnedInv
<1>8. OutInv
  <2>0. Len(frames) = 0 /\ Len(todo) = 0 /\ Len(queued) = 0 /\ Len(out) = 0
    BY <1>1, <1>2
  <2>1. Taken = 0 /\ Len(out) = 0 /\ 1..Len(out) = {}
    BY <2>0 DEF Taken
  <2> QED
    BY <1>1, <2>1 DEF OutInv, End
<1>9. LargeInv
  BY <1>1, <1>2 DEF LargeInv
<1>10. RoomInv
  <2>1. Cardinality(ThreadedQueued) = 0 /\ Len(queued) = 0
    BY <1>1, ThreadedNone
  <2>2. MaxQueued \in Nat /\ MaxThreads \in Nat /\ MaxQueued > 0 /\ MaxThreads > 0
    BY NativeAssumption DEF NativeAssumption
  <2> QED
    BY <2>1, <2>2 DEF RoomInv, Room
<1> QED
  BY <1>4, <1>5, <1>6, <1>7, <1>8, <1>9, <1>10 DEF NativeInv

LEMMA InvStep ==
  ASSUME NativeInv, [NativeNext]_nativeVars
  PROVE  NativeInv'
<1>1. Cases
  BY StepCases
<1>2. TypeInv'
  BY <1>1, TypeStep
<1>3. FramesInv' /\ OrderInv'
  BY <1>1, FramesStep, OrderStep
<1>4. PhaseInv'
  BY <1>1, <1>2, PhaseStep
<1>5. Marks
  BY <1>1, <1>2, <1>3, MarksMove
<1>6. ThreadInv' /\ OutInv'
  BY <1>1, <1>2, <1>3, <1>5, ThreadStep, OutStep
<1>7. OwnedInv' /\ LargeInv' /\ RoomInv'
  BY <1>1, <1>2, OwnedStep, LargeStep, RoomStep
<1> QED
  BY <1>2, <1>3, <1>4, <1>6, <1>7 DEF NativeInv

LEMMA BacklogBounds ==
  ASSUME NativeInv
  PROVE  BacklogBounded
<1> DEFINE W == {f \in DOMAIN threads : threads[f].taken < threads[f].made}
           T == ThreadedQueued
           at == [i \in T |-> queued[i]]
           Q == {queued[i] : i \in T}
<1>1. TypeInv /\ OrderInv /\ OwnedInv /\ LargeInv /\ RoomInv /\ ThreadInv
  BY DEF NativeInv
<1>2. /\ IsFiniteSet(T) /\ Cardinality(T) \in Nat /\ DOMAIN queued = 1..Len(queued)
      /\ Cardinality(T) <= MaxThreads /\ MaxThreads \in Nat
  BY <1>1, ThreadedFinite, NativeAssumption DEF RoomInv, NativeAssumption
<1>3. ASSUME NEW f \in W PROVE f \in Q \cup {current}
  <2>1. f = current \/ InQueue(f)
    BY <1>1, <1>3 DEF OwnedInv
  <2>2. ASSUME NEW i \in 1..Len(queued), queued[i] = f PROVE f \in Q
    <3>1. frames[queued[i]].kind = "large"
      BY <1>1, <1>3, <2>2 DEF LargeInv
    <3>2. i \in T
      BY <1>2, <2>2, <3>1 DEF ThreadedQueued
    <3> QED
      BY <2>2, <3>2
  <2> QED
    BY <2>1, <2>2 DEF InQueue
<1>4. at \in Surjection(T, Q)
  BY DEF Surjection
<1> HIDE DEF W, T, at, Q
<1>5. IsFiniteSet(Q) /\ Cardinality(Q) <= Cardinality(T)
  BY <1>2, <1>4, FS_Surjection
<1>6. Cardinality(Q) \in Nat
  BY <1>5, FS_CardinalityType
<1>7. /\ IsFiniteSet(Q \cup {current})
      /\ Cardinality(Q \cup {current}) = IF current \in Q THEN Cardinality(Q) ELSE Cardinality(Q) + 1
  BY <1>5, FS_AddElement
<1>8. IsFiniteSet(W) /\ Cardinality(W) <= Cardinality(Q \cup {current})
  <2>1. W \in SUBSET (Q \cup {current})
    BY <1>3
  <2> QED
    BY <1>7, <2>1, FS_Subset
<1>9. Cardinality(W) \in Nat
  BY <1>8, FS_CardinalityType
<1>10. Cardinality(W) <= MaxThreads + 1
  BY <1>2, <1>5, <1>6, <1>7, <1>8, <1>9
<1>11. \A f \in DOMAIN threads : threads[f].made - threads[f].taken <= MaxBuffered
  BY <1>1 DEF ThreadInv, ThreadGood
<1> QED
  BY <1>1, <1>10, <1>11 DEF BacklogBounded, RoomInv, W

\* The output that waits for its turn is bounded, whatever the frames hold and
\* however their threads are scheduled: no more than MAX_QUEUED_FRAMES frames are
\* queued, no more than MAX_FRAMES_IN_FLIGHT threads and one more, that of the
\* frame being delivered, have output waiting, and each has no more than its limit
\* (native-zstd.ts enqueue, OffThreadFrame).
THEOREM NativeBacklogCorrect == NativeSpec => []BacklogBounded
<1>1. NativeInit => NativeInv
  BY InvInit
<1>2. NativeInv /\ [NativeNext]_nativeVars => NativeInv'
  BY InvStep
<1>3. NativeInv => BacklogBounded
  BY BacklogBounds
<1> QED
  BY <1>1, <1>2, <1>3, PTL DEF NativeSpec

LEMMA ContractInit ==
  ASSUME NativeInit
  PROVE  Contract!Init
<1>1. frames = <<>> /\ caller = "idle" /\ final = FALSE /\ out = <<>>
  BY DEF NativeInit
<1>2. Total = 0
  BY <1>1 DEF Total
<1> QED
  BY <1>1, <1>2 DEF Contract!Init

\* A step that hands over chunks is a Feed of the contract, or nothing if it has none.
LEMMA ContractFeed ==
  ASSUME NativeInv, NEW m, Given(m), caller = "pushing", UNCHANGED <<frames, caller, final>>
  PROVE  [Contract!Next]_Contract!vars
<1>1. TypeInv
  BY DEF NativeInv
<1>2. /\ m \in Nat /\ Len(out) <= m /\ m <= Total /\ out' \in Seq(Nat) /\ Len(out') = m
      /\ \A i \in 1..m : out'[i] = i
  BY DEF Given
<1>3. Total' = Total /\ Total \in Nat /\ out \in Seq(Nat) /\ Len(out) \in Nat
  BY <1>1, TotalEnd DEF Total, TypeInv
<1>4. out' = [b \in 1..m |-> b]
  BY <1>2
<1>5. CASE m = Len(out)
  <2>1. NativeInv => OutInv
    BY DEF NativeInv
  <2>2. \A i \in 1..Len(out) : out[i] = i
    BY <2>1 DEF OutInv
  <2>3. out = [b \in 1..m |-> b]
    BY <1>3, <1>5, <2>2
  <2>4. out' = out
    BY <1>4, <2>3
  <2> QED
    BY <1>3, <2>4 DEF Contract!vars
<1>6. CASE m # Len(out)
  <2>1. m \in Len(out)+1 .. Total
    BY <1>2, <1>3, <1>6
  <2>2. Contract!Feed
    BY <1>3, <1>4, <2>1 DEF Contract!Feed
  <2> QED
    BY <2>2 DEF Contract!Next
<1> QED
  BY <1>5, <1>6

LEMMA ContractStep ==
  ASSUME NativeInv, [NativeNext]_nativeVars
  PROVE  [Contract!Next]_Contract!vars
<1>1. TypeInv /\ FramesInv /\ OrderInv /\ PhaseInv /\ OutInv
  BY DEF NativeInv
<1>2. Cases
  BY StepCases
<1>3. ASSUME UNCHANGED <<frames, caller, final, out>> PROVE [Contract!Next]_Contract!vars
  <2>1. Total' = Total
    BY <1>3 DEF Total
  <2> QED
    BY <1>3, <2>1 DEF Contract!vars
<1>4. ASSUME UNCHANGED <<frames, final, out>>, caller = "pushing", caller' = "failed"
      PROVE  [Contract!Next]_Contract!vars
  <2>1. Total' = Total
    BY <1>4 DEF Total
  <2> QED
    BY <1>4, <2>1 DEF Contract!Fail, Contract!Next
<1>5. CASE OpenDecoder
  <2>1. caller = "idle" /\ caller' = "reading" /\ UNCHANGED <<frames, final, out>>
    BY <1>5 DEF OpenDecoder
  <2>2. Total' = Total
    BY <2>1 DEF Total
  <2> QED
    BY <2>1, <2>2 DEF Contract!Open, Contract!Next
<1>6. ASSUME NEW k \in Nat, Pushed(k) PROVE [Contract!Next]_Contract!vars
  <2>1. /\ caller = "reading" /\ caller' = "pushing" /\ final' \in BOOLEAN /\ out' = out
        /\ Total' \in Nat /\ Total' - Total \in 0..k * MaxChunks /\ k <= MaxFrames
    BY <1>6 DEF Pushed, Grows
  <2>2. Total \in Nat
    BY <1>1, TotalEnd
  <2>3. MaxFrames \in Nat /\ MaxChunks \in Nat
    BY NativeAssumption DEF NativeAssumption
  <2>4. k * MaxChunks <= MaxFrames * MaxChunks /\ k * MaxChunks \in Nat /\ MaxFrames * MaxChunks \in Nat
    BY <2>1, <2>3
  <2>5. PICK n \in 0..MaxFrames * MaxChunks : Total' = Total + n
    <3> DEFINE a == k * MaxChunks
               b == MaxFrames * MaxChunks
    <3>1. a <= b /\ a \in Nat /\ b \in Nat /\ Total' - Total \in 0..a
      BY <2>1, <2>4
    <3> HIDE DEF a, b
    <3>2. PICK grown \in Nat : grown = Total'
      BY <2>1
    <3>3. PICK before \in Nat : before = Total
      BY <2>2
    <3>4. grown - before \in 0..a
      BY <3>1, <3>2, <3>3
    <3>5. grown - before \in 0..b /\ grown = before + (grown - before)
      BY <3>1, <3>4
    <3> QED
      BY <3>2, <3>3, <3>5 DEF b
  <2>6. Contract!Push
    BY <2>1, <2>5 DEF Contract!Push
  <2> QED
    BY <2>6 DEF Contract!Next
<1>7. CASE SplitFrame /\ frames[Head(todo)].kind # "foreign"
  BY <1>3, <1>7, SplitMoves
<1>8. CASE Moves
  BY <1>3, <1>8, OldestMoves
<1>9. CASE Leaves
  <2>1. caller = "pushing" /\ UNCHANGED <<frames, caller, final>> /\ current \in 1..Len(frames)
    BY <1>9, CurrentLeaves
  <2>2. CASE DeliverInline /\ InlineGood
    <3>1. Gives(current, 0, frames[current].n)
      BY <2>2, InlineGives
    <3>2. frames[current].n \in Nat
      BY <1>1, <2>1, FrameFields
    <3>3. Given(frames[current].lo + frames[current].n)
      BY <1>1, <2>1, <3>1, <3>2, GivesInOrder
    <3> QED
      BY <2>1, <3>3, ContractFeed
  <2>3. CASE CheckThread
    <3>1. out' = out
      BY <2>3 DEF CheckThread
    <3> QED
      BY <1>3, <2>1, <3>1
  <2> QED
    BY <1>9, <2>2, <2>3 DEF Leaves
<1>10. CASE Fails
  BY <1>4, <1>10, PushFails
<1>11. CASE Returns
  <2>1. /\ caller = "pushing" /\ caller' = (IF final THEN "done" ELSE "reading")
        /\ todo = <<>> /\ current = NoFrame /\ (final => queued = <<>>)
        /\ UNCHANGED <<frames, final, out>>
    BY <1>11, PushReturns
  <2>2. Total' = Total /\ Total = End(Len(frames)) /\ Len(frames) \in Nat
    BY <1>1, <2>1, TotalEnd DEF Total
  <2>3. final => Len(out) = Total
    <3>1. ASSUME final PROVE Len(out) = Total
      <4>1. Len(todo) = 0 /\ Len(queued) = 0
        BY <2>1, <3>1, EmptySeq
      <4>2. Taken = Len(frames)
        BY <2>2, <4>1 DEF Taken
      <4>3. Len(out) = End(Taken)
        BY <1>1, <2>1 DEF OutInv
      <4> QED
        BY <2>2, <4>2, <4>3
    <3> QED
      BY <3>1
  <2>4. Contract!Return
    BY <2>1, <2>2, <2>3 DEF Contract!Return
  <2> QED
    BY <2>4 DEF Contract!Next
<1>12. CASE Turns
  BY <1>3, <1>12, PhaseTurns
<1>13. CASE FallbackFrame /\ FallbackGood
  <2>1. UNCHANGED <<frames, caller, final>>
    BY <1>13 DEF FallbackFrame, FallbackGood
  <2>2. Gives(Head(todo), 0, frames[Head(todo)].n) /\ Head(todo) \in 1..Len(frames) /\ caller = "pushing"
    BY <1>13, FallbackGives
  <2>3. frames[Head(todo)].n \in Nat
    BY <1>1, <2>2, FrameFields
  <2>4. Given(frames[Head(todo)].lo + frames[Head(todo)].n)
    BY <1>1, <2>2, <2>3, GivesInOrder
  <2> QED
    BY <2>1, <2>2, <2>4, ContractFeed
<1>14. CASE TakeChunks
  <2>1. /\ Gives(current, threads[current].taken, threads[current].made) /\ caller = "pushing"
        /\ current \in 1..Len(frames) /\ threads[current].taken \in Nat /\ threads[current].made \in Nat
    BY <1>14, TakeGives
  <2>2. Given(frames[current].lo + threads[current].made)
    BY <1>1, <2>1, GivesInOrder
  <2>3. UNCHANGED <<frames, caller, final>>
    BY <1>14 DEF TakeChunks
  <2> QED
    BY <2>1, <2>2, <2>3, ContractFeed
<1>15. CASE Streams(current) \/ Waits \/ (\E f \in DOMAIN threads : ThreadEvent(f))
              \/ UNCHANGED nativeVars
  <2>1. UNCHANGED <<frames, caller, final, out>>
    BY <1>15 DEF Streams, DeliverInline, Waits, CheckThread, WaitForMore, ThreadEvent, nativeVars
  <2> QED
    BY <1>3, <2>1
<1> QED
  BY <1>2, <1>5, <1>6, <1>7, <1>8, <1>9, <1>10, <1>11, <1>12, <1>13, <1>14, <1>15 DEF Cases

\* Threads, queue and fallback together keep the promise of a decoder, for every
\* stream and schedule: chunks reach onChunk in the order of the stream, a final
\* push returns after the last of them, and nothing follows a failure
\* (native-zstd.ts createThreadedZstdDecoder, which parser-worker.ts streamFile gets
\* through nodeParseCodecs).
THEOREM NativeDecoderCorrect == NativeSpec => NativeImplementsDecoder
<1>1. NativeInit => NativeInv
  BY InvInit
<1>2. NativeInv /\ [NativeNext]_nativeVars => NativeInv'
  BY InvStep
<1>3. NativeInit => Contract!Init
  BY ContractInit
<1>4. NativeInv /\ [NativeNext]_nativeVars => [Contract!Next]_Contract!vars
  BY ContractStep
<1> QED
  BY <1>1, <1>2, <1>3, <1>4, PTL DEF NativeSpec, NativeImplementsDecoder, Contract!Spec
=============================================================================
