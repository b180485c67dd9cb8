------------------------------ MODULE HostsProofs ------------------------------
(***************************************************************************)
(* Theorems about the hosts of the analyzer whose runs MCHosts checks, one *)
(* section each: the History Server proxy, the list of recent files, the   *)
(* collection of two runs on Node and the run cache of the MCP tools.      *)
(***************************************************************************)
EXTENDS McpRunCache, ShsProxy, RecentFiles, CollectPair, SequenceTheorems,
        FiniteSetTheorems, WellFoundedInduction, TLAPS

-----------------------------------------------------------------------------
(* The History Server proxy.  A download which was cut off never looks      *)
(* whole to the browser, for a body of any length.                          *)

\* Until the response, once opened, is destroyed, everything sent was passed on; it ends only
\* after the whole body.  A client that left while the headers were awaited may
\* still be sent an error, but then nothing was sent.
ProxyInv ==
  /\ sent \in 0..MaxBody /\ received \in Nat
  /\ phase \in {"new", "fetching"} => sent = 0 /\ received = 0 /\ reader = "none"
  /\ reader # "none" => res \in {"open", "ended", "finished", "destroyed"}
  /\ res # "destroyed" => received = sent
  /\ res \in {"ended", "finished"} => sent = MaxBody
  /\ client = "whole" => received = MaxBody /\ sent = MaxBody

\* Nothing was asked for yet.
LEMMA ProxyInitInv == ProxyInit => ProxyInv
  BY ProxyAssumption DEF ProxyInit, ProxyInv

\* Each event of the two streams, the timer and the client keeps it.
LEMMA ProxyStepInv == ProxyInv /\ [ProxyNext]_proxyVars => ProxyInv'
<1> SUFFICES ASSUME ProxyInv, [ProxyNext]_proxyVars PROVE ProxyInv'
  OBVIOUS
<1> USE ProxyAssumption
<1>1. CASE UNCHANGED proxyVars
  BY <1>1 DEF ProxyInv, proxyVars
<1>2. CASE Handle
  BY <1>2 DEF ProxyInv, Handle, SafeError
<1>3. CASE NoHeaders
  BY <1>3 DEF ProxyInv, NoHeaders, SafeError
<1>4. CASE Headers
  BY <1>4 DEF ProxyInv, Headers
<1>5. CASE UpstreamSends
  <2>1. /\ sent < MaxBody /\ sent' = sent + 1 /\ reader = "flowing"
        /\ received' = IF res = "open" THEN received + 1 ELSE received
        /\ UNCHANGED <<phase, res, client>>
    BY <1>5 DEF UpstreamSends
  <2>2. sent \in Nat /\ sent' \in 0..MaxBody /\ received' \in Nat
    BY <2>1 DEF ProxyInv
  <2>3. phase \notin {"new", "fetching"} /\ res \in {"open", "destroyed"}
    BY <2>1 DEF ProxyInv
  <2>4. res' # "destroyed" => received' = sent'
    BY <2>1, <2>3 DEF ProxyInv
  <2> QED BY <2>1, <2>2, <2>3, <2>4 DEF ProxyInv
<1>6. CASE UpstreamEnds
  BY <1>6 DEF ProxyInv, UpstreamEnds
<1>7. CASE UpstreamBreaks
  BY <1>7 DEF ProxyInv, UpstreamBreaks
<1>8. CASE Drain
  BY <1>8 DEF ProxyInv, Drain
<1>9. CASE ClientLeaves
  BY <1>9 DEF ProxyInv, ClientLeaves
<1>10. CASE WatchdogEnds
  BY <1>10 DEF ProxyInv, WatchdogEnds, DestroyReader
<1>11. CASE ReaderError
  BY <1>11 DEF ProxyInv, ReaderError, CutResponse, Finish
<1>12. CASE ResponseFinish
  BY <1>12 DEF ProxyInv, ResponseFinish, Finish
<1>13. CASE ResponseClose
  BY <1>13 DEF ProxyInv, ResponseClose, StopReading, Finish
<1>14. CASE ClientReads
  BY <1>14 DEF ProxyInv, ClientReads
<1> QED BY <1>1, <1>2, <1>3, <1>4, <1>5, <1>6, <1>7, <1>8, <1>9,
        <1>10, <1>11, <1>12, <1>13, <1>14 DEF ProxyNext, Events

\* WholeIsWhole: a body that the History Server, the watchdog or the client cut
\* off never ends as a complete response (pipeWithIdleTimeout).
THEOREM CutIsSeen == ProxySpec => []WholeIsWhole
<1>1. ProxyInv => WholeIsWhole
  BY DEF ProxyInv, WholeIsWhole
<1> QED BY <1>1, ProxyInitInv, ProxyStepInv, PTL DEF ProxySpec

-----------------------------------------------------------------------------
(* The recent files.  Calls which overlap never leave the list longer than  *)
(* its cap, apart from the entries a touch brought back.                    *)

Now == Listed(entries)

\* The calls under way, and the entries they are going to delete.
CallsUnderWay ==
  [n : Int, op : {"addRead"}] \cup [n : Int, op : {"touchPut"}, id : Opened]
    \cup [n : Int, op : {"addDelete"}, evict : UNION {[D -> Nat] : D \in SUBSET Opened}]
Doomed == {f \in Opened : \E call \in underWay : call.op = "addDelete" /\ f \in DOMAIN call.evict}

\* No two entries were opened at the same time.
TimesInv ==
  /\ made \in Int /\ lastTimestamp \in Nat
  /\ entries \in [Opened -> Nat]
  /\ \A f \in Opened : entries[f] <= lastTimestamp
  /\ \A f, g \in Now : entries[f] = entries[g] => f = g
  /\ IsFiniteSet(Now)

\* As soon as no add has its list still to read, what is over the cap is doomed
\* or was written by a touch since.
CapInv ==
  (\A call \in underWay : call.op # "addRead")
    => Cardinality(Now \ (Doomed \cup writtenBack)) <= Cap

RecentInv == TimesInv /\ underWay \subseteq CallsUnderWay /\ CapInv

-----------------------------------------------------------------------------
(* What an add spares.                                                      *)

\* A set of naturals has a least element.
LEMMA LeastOf ==
  ASSUME NEW S \in SUBSET Nat, S # {}
  PROVE  \E x \in S : \A y \in S : x <= y
<1> DEFINE Less == {pair \in Nat \X Nat : pair[1] < pair[2]}
<1>1. IsWellFoundedOn(Less, Nat)
  BY NatLessThanWellFounded DEF OpToRel
<1> HIDE DEF Less
<1>2. PICK x \in S : \A y \in S : ~(<<y, x>> \in Less)
  BY <1>1, WFMin
<1>3. ASSUME NEW y \in S PROVE x <= y
  <2>1. x \in Nat /\ y \in Nat /\ <<y, x>> \notin Less
    BY <1>2
  <2>2. ~(y < x)
    BY <2>1 DEF Less
  <2> QED  BY <2>1, <2>2
<1> QED  BY <1>3

\* The entries with fewer than CAP newer ones are no more than CAP: the oldest
\* of them has all the others among its newer ones.
LEMMA SparedFact ==
  ASSUME TimesInv
  PROVE  Cardinality(Now \ PastCap) <= Cap
<1> DEFINE T == Now \ PastCap
<1>1. IsFiniteSet(T) /\ Cap \in Nat \ {0} /\ Now \subseteq Opened
  BY FS_Subset, RecentAssumption DEF TimesInv, Now, Listed
<1>2. CASE T = {}
  BY <1>1, <1>2, FS_EmptySet
<1>3. CASE T # {}
  <2>1. PICK f \in T : \A g \in T : entries[f] <= entries[g]
    <3> DEFINE V == {entries[g] : g \in T}
    <3>1. V \in SUBSET Nat /\ V # {}
      BY <1>1, <1>3 DEF TimesInv
    <3> HIDE DEF V
    <3>2. PICK v \in V : \A w \in V : v <= w
      BY <3>1, LeastOf
    <3> QED  BY <3>2 DEF V
  <2>2. f \in Now /\ IsFiniteSet(Newer(f))
    BY FS_Subset DEF TimesInv, Now, Newer
  <2>3. Cardinality(Newer(f)) \in Nat /\ Cardinality(Newer(f)) < Cap
    <3>1. Cardinality(Newer(f)) \in Nat
      BY <2>2, FS_CardinalityType
    <3>2. ~(Cardinality(Newer(f)) >= Cap)
      BY <2>2 DEF PastCap, Now
    <3> QED  BY <1>1, <3>1, <3>2
  <2>4. T \ {f} \subseteq Newer(f)
    <3>1. ASSUME NEW g \in T, g # f PROVE g \in Newer(f)
      <4>1. g \in Now /\ entries[g] \in Nat /\ entries[f] \in Nat /\ entries[g] # entries[f]
        BY <1>1, <2>2, <3>1 DEF TimesInv
      <4>2. entries[f] <= entries[g]
        BY <2>1, <3>1
      <4> QED  BY <4>1, <4>2 DEF Newer, Now
    <3> QED  BY <3>1
  <2>5. Cardinality(T \ {f}) <= Cardinality(Newer(f))
    BY <2>2, <2>4, FS_Subset
  <2>6. Cardinality(T \ {f}) = Cardinality(T) - 1 /\ Cardinality(T) \in Nat
    BY <1>1, FS_RemoveElement, FS_CardinalityType
  <2> HIDE DEF T
  <2>7. Cardinality(T) <= Cap
    BY <1>1, <2>3, <2>5, <2>6
  <2> QED  BY <2>7 DEF T
<1> QED  BY <1>2, <1>3

\* A list that loses entries, or has more of them excused, is no longer.
LEMMA Shorter ==
  ASSUME NEW S, NEW T, IsFiniteSet(T), S \subseteq T, Cardinality(T) <= Cap
  PROVE  Cardinality(S) <= Cap
<1>1. IsFiniteSet(S) /\ Cardinality(S) <= Cardinality(T)
  BY FS_Subset
<1>2. Cardinality(S) \in Nat /\ Cardinality(T) \in Nat /\ Cap \in Nat
  BY <1>1, FS_CardinalityType, RecentAssumption
<1> QED  BY <1>1, <1>2

-----------------------------------------------------------------------------
(* The times.                                                               *)

LEMMA StampFact ==
  ASSUME TimesInv, NEW f \in Opened, Stamp(f), made' \in Int
  PROVE  TimesInv' /\ Now' = Now \cup {f}
<1>1. /\ lastTimestamp \in Nat /\ lastTimestamp' = lastTimestamp + 1
      /\ entries \in [Opened -> Nat] /\ entries' = [entries EXCEPT ![f] = lastTimestamp']
  BY DEF TimesInv, Stamp
<1>2. /\ entries' \in [Opened -> Nat] /\ entries'[f] = lastTimestamp'
      /\ \A g \in Opened \ {f} : entries'[g] = entries[g]
  BY <1>1
<1>3. Now' = Now \cup {f}
  BY <1>1, <1>2 DEF Now, Listed
<1>4. \A g \in Opened : entries[g] < lastTimestamp'
  BY <1>1 DEF TimesInv
<1>5. \A g \in Opened : entries'[g] <= lastTimestamp'
  BY <1>1, <1>2, <1>4
<1>6. IsFiniteSet(Now')
  BY <1>3, FS_AddElement DEF TimesInv
<1>7. ASSUME NEW g \in Now', NEW h \in Now', entries'[g] = entries'[h] PROVE g = h
  <2>1. g \in Opened /\ h \in Opened /\ Now \subseteq Opened
    BY DEF Now, Listed
  <2> QED  BY <1>1, <1>2, <1>3, <1>4, <1>7, <2>1 DEF TimesInv
<1> QED  BY <1>1, <1>2, <1>3, <1>5, <1>6, <1>7 DEF TimesInv

LEMMA DropFact ==
  ASSUME TimesInv, NEW f, entries' = [entries EXCEPT ![f] = 0], UNCHANGED lastTimestamp,
         made' \in Int
  PROVE  TimesInv' /\ Now' = Now \ {f}
<1>1. /\ entries' \in [Opened -> Nat] /\ entries \in [Opened -> Nat]
      /\ \A g \in Opened : entries'[g] = IF g = f THEN 0 ELSE entries[g]
  BY DEF TimesInv
<1>2. Now' = Now \ {f} /\ Now \subseteq Opened
  BY <1>1 DEF Now, Listed
<1>3. IsFiniteSet(Now')
  BY <1>2, FS_Subset DEF TimesInv
<1>4. \A g \in Opened : entries'[g] <= lastTimestamp'
  BY <1>1 DEF TimesInv
<1>5. \A g, h \in Now' : entries'[g] = entries'[h] => g = h
  BY <1>1, <1>2 DEF TimesInv
<1> QED  BY <1>1, <1>2, <1>3, <1>4, <1>5 DEF TimesInv

-----------------------------------------------------------------------------
(* One lemma per transaction.                                               *)

LEMMA RecentInitInv ==
  ASSUME RecentInit
  PROVE  RecentInv
<1>1. /\ entries \in [Opened -> 0..Cap] /\ lastTimestamp = Cap /\ Cap \in Nat \ {0}
      /\ \A f, g \in Now : entries[f] = entries[g] => f = g
  BY RecentAssumption DEF RecentInit, Now
<1> DEFINE opened == [f \in Now |-> entries[f]]
<1>2. opened \in Injection(Now, 1..Cap)
  <2>1. \A f \in Now : f \in Opened /\ entries[f] \in 1..Cap
    BY <1>1 DEF Now, Listed
  <2>2. opened \in [Now -> 1..Cap]
    BY <2>1
  <2>3. \A f, g \in Now : opened[f] = opened[g] => f = g
    BY <1>1
  <2> QED  BY <2>2, <2>3 DEF Injection, IsInjective
<1>3. IsFiniteSet(1..Cap) /\ Cardinality(1..Cap) = Cap
  BY <1>1, FS_Interval
<1>4. IsFiniteSet(Now) /\ Cardinality(Now) <= Cap
  BY <1>2, <1>3, FS_Injection
<1>5. TimesInv
  BY <1>1, <1>4 DEF TimesInv, RecentInit
<1>6. CapInv
  BY <1>4, Shorter DEF CapInv
<1> QED  BY <1>5, <1>6 DEF RecentInv, RecentInit

LEMMA AddPutsFact ==
  ASSUME RecentInv, NEW f \in Opened, AddPuts(f)
  PROVE  RecentInv'
<1> DEFINE call == [n |-> made + 1, op |-> "addRead"]
<1>1. made \in Int /\ made' = made + 1 /\ underWay' = underWay \cup {call} /\ Stamp(f)
  BY DEF RecentInv, TimesInv, AddPuts, Begun
<1>2. TimesInv'
  BY <1>1, StampFact DEF RecentInv
<1>3. underWay' \subseteq CallsUnderWay
  BY <1>1 DEF RecentInv, CallsUnderWay
<1>4. CapInv'
  <2>1. call \in underWay' /\ call.op = "addRead"
    BY <1>1
  <2> HIDE DEF call
  <2> QED  BY <2>1 DEF CapInv
<1> QED  BY <1>2, <1>3, <1>4 DEF RecentInv, CallsUnderWay

LEMMA AddReadsFact ==
  ASSUME RecentInv, NEW call \in underWay, AddReads(call)
  PROVE  RecentInv'
<1> DEFINE evict == [f \in PastCap |-> entries[f]]
           deletes == [n |-> call.n, op |-> "addDelete", evict |-> evict]
<1>1. /\ UNCHANGED <<entries, made, lastTimestamp>> /\ writtenBack' = {}
      /\ underWay' = (underWay \ {call}) \cup (IF PastCap = {} THEN {} ELSE {deletes})
  BY DEF AddReads, Goes
<1>2. TimesInv' /\ Now' = Now /\ TimesInv
  BY <1>1 DEF RecentInv, TimesInv, Now
<1>3. PastCap \subseteq Opened
  BY DEF PastCap, Listed
<1>4. deletes \in CallsUnderWay
  <2>1. evict \in [PastCap -> Nat] /\ PastCap \in SUBSET Opened
    BY <1>2, <1>3 DEF TimesInv
  <2>2. call.n \in Int
    BY DEF RecentInv, CallsUnderWay
  <2> HIDE DEF evict
  <2> QED  BY <2>1, <2>2 DEF CallsUnderWay
<1>5. PastCap \subseteq Doomed'
  <2>1. CASE PastCap = {}
    BY <2>1
  <2>2. CASE PastCap # {}
    <3>1. deletes \in underWay' /\ deletes.op = "addDelete" /\ DOMAIN deletes.evict = PastCap
      BY <1>1, <2>2
    <3> HIDE DEF deletes
    <3> QED  BY <1>3, <3>1 DEF Doomed
  <2> QED  BY <2>1, <2>2
<1>6. Cardinality(Now \ PastCap) <= Cap /\ IsFiniteSet(Now \ PastCap)
  BY <1>2, SparedFact, FS_Subset DEF TimesInv
<1>7. (Now \ (Doomed \cup writtenBack))' \subseteq Now \ PastCap
  BY <1>2, <1>5
<1>8. CapInv'
  BY <1>6, <1>7, Shorter DEF CapInv
<1> HIDE DEF deletes
<1> QED  BY <1>1, <1>2, <1>4, <1>8 DEF RecentInv, CallsUnderWay

LEMMA AddDeletesFact ==
  ASSUME RecentInv, NEW call \in underWay, AddDeletes(call)
  PROVE  RecentInv'
<1> DEFINE all == DOMAIN call.evict
           f == CHOOSE g \in all : \A h \in all : call.evict[g] <= call.evict[h]
           left == [g \in all \ {f} |-> call.evict[g]]
           rest == [call EXCEPT !.evict = left]
<1>1. /\ call.op = "addDelete"
      /\ entries' = [entries EXCEPT ![f] = 0]
      /\ underWay' = (underWay \ {call}) \cup (IF all = {f} THEN {} ELSE {rest})
      /\ UNCHANGED <<made, lastTimestamp>> /\ writtenBack' = writtenBack \ {f}
  BY DEF AddDeletes, Goes
<1>2. /\ call = [n |-> call.n, op |-> "addDelete", evict |-> call.evict]
      /\ call.n \in Int /\ all \in SUBSET Opened /\ call.evict \in [all -> Nat]
  BY <1>1 DEF RecentInv, CallsUnderWay
<1> HIDE DEF f
<1>3. left \in [all \ {f} -> Nat]
  BY <1>2
<1> HIDE DEF left, all
<1>4. rest = [n |-> call.n, op |-> "addDelete", evict |-> left]
  BY <1>2
<1> HIDE DEF rest
<1>5. rest \in CallsUnderWay
  BY <1>2, <1>3, <1>4 DEF CallsUnderWay
<1>6. TimesInv' /\ Now' = Now \ {f} /\ IsFiniteSet(Now)
  <2>1. made' \in Int /\ UNCHANGED lastTimestamp
    BY <1>1 DEF RecentInv, TimesInv
  <2> QED  BY <1>1, <2>1, DropFact DEF RecentInv, TimesInv
<1>7. ASSUME NEW g \in Doomed, g # f PROVE g \in Doomed'
  <2>1. PICK other \in underWay : other.op = "addDelete" /\ g \in DOMAIN other.evict
    BY DEF Doomed
  <2>2. CASE other # call
    BY <1>1, <2>1, <2>2 DEF Doomed
  <2>3. CASE other = call
    <3>1. g \in all
      BY <2>1, <2>3 DEF all
    <3>2. rest \in underWay' /\ rest.op = "addDelete" /\ g \in DOMAIN rest.evict
      BY <1>1, <1>3, <1>4, <1>7, <3>1
    <3> QED  BY <3>2 DEF Doomed
  <2> QED  BY <2>2, <2>3
<1>8. CapInv'
  <2>1. SUFFICES ASSUME \A c \in underWay' : c.op # "addRead"
                 PROVE  Cardinality((Now \ (Doomed \cup writtenBack))') <= Cap
    BY DEF CapInv
  <2>2. \A c \in underWay : c.op # "addRead"
    BY <1>1, <2>1
  <2>3. (Now \ (Doomed \cup writtenBack))' \subseteq Now \ (Doomed \cup writtenBack)
    BY <1>1, <1>6, <1>7
  <2>4. IsFiniteSet(Now \ (Doomed \cup writtenBack))
    BY <1>6, FS_Subset
  <2> QED  BY <2>2, <2>3, <2>4, Shorter DEF RecentInv, CapInv
<1> QED  BY <1>1, <1>5, <1>6, <1>8 DEF RecentInv, CallsUnderWay

LEMMA TouchReadsFact ==
  ASSUME RecentInv, NEW f \in Opened, TouchReads(f)
  PROVE  RecentInv'
<1> DEFINE call == [n |-> made + 1, op |-> "touchPut", id |-> f]
<1>1. /\ made \in Int /\ made' = made + 1 /\ underWay' = underWay \cup {call}
      /\ UNCHANGED <<entries, lastTimestamp, writtenBack>>
  BY DEF RecentInv, TimesInv, TouchReads, Begun
<1>2. TimesInv' /\ Now' = Now
  BY <1>1 DEF RecentInv, TimesInv, Now
<1>3. call \in CallsUnderWay
  BY <1>1 DEF CallsUnderWay
<1>4. Doomed' = Doomed
  BY <1>1 DEF Doomed
<1>5. CapInv'
  BY <1>1, <1>2, <1>4 DEF RecentInv, CapInv
<1> QED  BY <1>1, <1>2, <1>3, <1>5 DEF RecentInv, CallsUnderWay

LEMMA TouchPutsFact ==
  ASSUME RecentInv, NEW call \in underWay, TouchPuts(call)
  PROVE  RecentInv'
<1>1. /\ call.op = "touchPut" /\ Stamp(call.id) /\ underWay' = underWay \ {call}
      /\ call.id \in Now \/ writtenBack' = writtenBack \cup {call.id}
      /\ writtenBack \subseteq writtenBack' /\ UNCHANGED made
  BY DEF TouchPuts, Goes, Now
<1>2. call.id \in Opened
  BY <1>1 DEF RecentInv, CallsUnderWay
<1>3. TimesInv' /\ Now' = Now \cup {call.id} /\ IsFiniteSet(Now)
  BY <1>1, <1>2, StampFact DEF RecentInv, TimesInv
<1>4. Doomed' = Doomed
  BY <1>1 DEF Doomed
<1>5. CapInv'
  <2>1. SUFFICES ASSUME \A c \in underWay' : c.op # "addRead"
                 PROVE  Cardinality((Now \ (Doomed \cup writtenBack))') <= Cap
    BY DEF CapInv
  <2>2. \A c \in underWay : c.op # "addRead"
    BY <1>1, <2>1
  <2>3. (Now \ (Doomed \cup writtenBack))' \subseteq Now \ (Doomed \cup writtenBack)
    BY <1>1, <1>3, <1>4
  <2>4. IsFiniteSet(Now \ (Doomed \cup writtenBack))
    BY <1>3, FS_Subset
  <2> QED  BY <2>2, <2>3, <2>4, Shorter DEF RecentInv, CapInv
<1> QED  BY <1>1, <1>3, <1>5 DEF RecentInv, CallsUnderWay

LEMMA RemoveFact ==
  ASSUME RecentInv, NEW f \in Opened, RemoveEntry(f)
  PROVE  RecentInv'
<1>1. /\ made' \in Int /\ entries' = [entries EXCEPT ![f] = 0]
      /\ UNCHANGED <<underWay, lastTimestamp>> /\ writtenBack' = writtenBack \ {f}
  BY DEF RecentInv, TimesInv, RemoveEntry
<1>2. TimesInv' /\ Now' = Now \ {f} /\ IsFiniteSet(Now)
  BY <1>1, DropFact DEF RecentInv, TimesInv
<1>3. Doomed' = Doomed
  BY <1>1 DEF Doomed
<1>4. IsFiniteSet(Now \ (Doomed \cup writtenBack))
  BY <1>2, FS_Subset
<1>5. (Now \ (Doomed \cup writtenBack))' \subseteq Now \ (Doomed \cup writtenBack)
  BY <1>1, <1>2, <1>3
<1>6. CapInv'
  BY <1>1, <1>4, <1>5, Shorter DEF RecentInv, CapInv
<1> QED  BY <1>1, <1>2, <1>6 DEF RecentInv, CallsUnderWay

LEMMA RecentStutter ==
  ASSUME RecentInv, UNCHANGED recentVars
  PROVE  RecentInv'
<1>1. UNCHANGED <<entries, underWay, made, lastTimestamp, writtenBack>>
  BY DEF recentVars
<1>2. TimesInv' /\ Now' = Now /\ Doomed' = Doomed
  BY <1>1 DEF RecentInv, TimesInv, Now, Doomed
<1> QED  BY <1>1, <1>2 DEF RecentInv, CapInv, CallsUnderWay

LEMMA RecentStep ==
  ASSUME RecentInv, [RecentNext]_recentVars
  PROVE  RecentInv'
BY AddPutsFact, AddReadsFact, AddDeletesFact, TouchReadsFact, TouchPutsFact, RemoveFact,
   RecentStutter DEF RecentNext

-----------------------------------------------------------------------------

LEMMA CappedFact ==
  ASSUME RecentInv
  PROVE  CappedButForTouches
<1>1. SUFFICES ASSUME underWay = {} PROVE Cardinality(Now \ writtenBack) <= Cap
  BY DEF CappedButForTouches, Now
<1>2. Doomed = {}
  BY <1>1 DEF Doomed
<1>3. Now \ (Doomed \cup writtenBack) = Now \ writtenBack
  BY <1>2
<1> QED  BY <1>1, <1>3 DEF RecentInv, CapInv

\* Between calls the list holds no more than CAP entries, apart from those a
\* touch wrote back after they were deleted and no add has read since (add,
\* touch and remove of recent-files.ts), for any number of files and of calls
\* that overlap.
THEOREM CapCorrect == RecentSpec => []CappedButForTouches
<1>1. RecentInit => RecentInv
  BY RecentInitInv
<1>2. RecentInv /\ [RecentNext]_recentVars => RecentInv'
  BY RecentStep
<1>3. RecentInv => CappedButForTouches
  BY CappedFact
<1> QED  BY <1>1, <1>2, <1>3, PTL DEF RecentSpec

-----------------------------------------------------------------------------
(* The collection of a pair.  However the thread ends, each log is          *)
(* collected once.                                                          *)

Readings == {"none", "running", "ended"}

\* A log whose parse in the worker thread is not settled yet was not read
\* here, and what the thread posted is the verdict of its log.
PairInv ==
  /\ good \in [Logs -> BOOLEAN] /\ here \in [Logs -> Readings]
  /\ collected \in [Logs -> 0..1]
  /\ files = [l \in Logs |-> IF here[l] = "running" THEN 1 ELSE 0]
  /\ outcome \in [Logs -> {Nothing, "run", "rejected"}]
  /\ \A l \in Logs : outcome[l] \in {Nothing, Verdict(l)}
  /\ plan \in Logs \cup {"none", "inTurn"}
  /\ plan = "none" => /\ \A l \in Logs : here[l] = "none" /\ collected[l] = 0
                      /\ thread = "none" /\ ~done
  /\ (plan = "inTurn" /\ here["baseline"] = "running")
       => here["candidate"] = "none" /\ collected["candidate"] = 0
  /\ thread = "running" \/ events # {} => plan \in Logs
  /\ thread = "running" => events = {} /\ ~done
  /\ ((thread = "running" \/ events # {}) /\ ~done) => here[plan] = "none" /\ collected[plan] = 0
  /\ \A e \in events \cap {"run", "rejected"} : e = Verdict(plan)

LEMMA PairInitInv == PairInit => PairInv
  BY DEF PairInit, PairInv, Logs, Readings

\* Each decision, end of a parse and event of the thread keeps it.
LEMMA PairStepInv == PairInv /\ [PairNext]_pairVars => PairInv'
<1> SUFFICES ASSUME PairInv, [PairNext]_pairVars PROVE PairInv'
  OBVIOUS
<1>1. CASE UNCHANGED pairVars
  BY <1>1 DEF PairInv, pairVars, Verdict
<1>2. CASE CollectPair
  BY <1>2 DEF PairInv, CollectPair, StartHere, Verdict, Other, Logs, Readings
<1>3. CASE ThreadEnds
  BY <1>3 DEF PairInv, ThreadEnds, Verdict, Logs, Readings
<1>4. ASSUME NEW l \in Logs, EndHere(l) PROVE PairInv'
  BY <1>4 DEF PairInv, EndHere, CloseFiles, Verdict, Logs, Readings
<1>5. ASSUME NEW e \in {"run", "rejected", "error", "exit"}, HandleEvent(e) PROVE PairInv'
  BY <1>5 DEF PairInv, HandleEvent, Due, Settles, StartHere, Verdict, Logs, Readings
<1> QED  BY <1>1, <1>2, <1>3, <1>4, <1>5 DEF PairNext, PairStep

\* CollectedOnce: neither the thread that dies after it posted its run, nor
\* the one that could not be created, has a log read twice or a file left open
\* (collectRunPair, collectRunInWorker).
THEOREM PairCorrect == PairSpec => []CollectedOnce
<1>1. PairInv => CollectedOnce
  BY DEF PairInv, CollectedOnce
<1> QED  BY <1>1, PairInitInv, PairStepInv, PTL DEF PairSpec

-----------------------------------------------------------------------------
(* The run cache.  An MCP call which names a file is never answered from an *)
(* older version of it, whatever parses it shares and whatever is evicted.  *)

-----------------------------------------------------------------------------
(* Sequences: an element of a shorter one was an element of the longer one. *)

LEMMA SubSeqElements ==
  ASSUME NEW S, NEW s \in Seq(S), NEW m \in Nat \ {0}, NEW n \in Int, n <= Len(s)
  PROVE  SubSeq(s, m, n) \in Seq(S) /\ ToSet(SubSeq(s, m, n)) \subseteq ToSet(s)
<1>1. \A i \in m..n : i \in DOMAIN s /\ s[i] \in S
  OBVIOUS
<1>2. /\ SubSeq(s, m, n) \in Seq(S)
      /\ Len(SubSeq(s, m, n)) = IF m <= n THEN n - m + 1 ELSE 0
      /\ \A i \in 1..(n - m + 1) : SubSeq(s, m, n)[i] = s[m + i - 1]
  BY <1>1, SubSeqProperties
<1>3. ASSUME NEW i \in DOMAIN SubSeq(s, m, n)
      PROVE  \E j \in DOMAIN s : SubSeq(s, m, n)[i] = s[j]
  <2>1. i \in 1..(n - m + 1)
    BY <1>2
  <2>2. m + i - 1 \in m..n
    BY <2>1
  <2> QED  BY <1>1, <1>2, <2>1, <2>2
<1> QED  BY <1>2, <1>3 DEF ToSet

LEMMA ConcatElements ==
  ASSUME NEW S, NEW s \in Seq(S), NEW t \in Seq(S)
  PROVE  s \o t \in Seq(S) /\ ToSet(s \o t) = ToSet(s) \cup ToSet(t)
<1>1. /\ s \o t \in Seq(S) /\ Len(s \o t) = Len(s) + Len(t)
      /\ \A i \in 1..Len(s) + Len(t) : (s \o t)[i] = IF i <= Len(s) THEN s[i] ELSE t[i - Len(s)]
  BY ConcatProperties
<1>2. \A i \in DOMAIN s : i \in DOMAIN (s \o t) /\ (s \o t)[i] = s[i]
  BY <1>1
<1>3. \A i \in DOMAIN t : i + Len(s) \in DOMAIN (s \o t) /\ (s \o t)[i + Len(s)] = t[i]
  BY <1>1
<1>4. \A i \in DOMAIN (s \o t) :
        \/ i \in DOMAIN s /\ (s \o t)[i] = s[i]
        \/ i - Len(s) \in DOMAIN t /\ (s \o t)[i] = t[i - Len(s)]
  BY <1>1
<1>5. ToSet(s) \subseteq ToSet(s \o t)
  BY <1>2, Zenon DEF ToSet
<1>6. ToSet(t) \subseteq ToSet(s \o t)
  BY <1>3, Zenon DEF ToSet
<1>7. ToSet(s \o t) \subseteq ToSet(s) \cup ToSet(t)
  BY <1>4, Zenon DEF ToSet
<1> QED  BY <1>1, <1>5, <1>6, <1>7

LEMMA AppendElements ==
  ASSUME NEW S, NEW s \in Seq(S), NEW x \in S
  PROVE  Append(s, x) \in Seq(S) /\ ToSet(Append(s, x)) = ToSet(s) \cup {x}
<1>1. /\ Append(s, x) \in Seq(S) /\ Len(Append(s, x)) = Len(s) + 1
      /\ \A i \in 1..Len(s) : Append(s, x)[i] = s[i]
      /\ Append(s, x)[Len(s) + 1] = x
  BY AppendProperties
<1>2. \A i \in DOMAIN s : i \in DOMAIN Append(s, x) /\ Append(s, x)[i] = s[i]
  BY <1>1
<1>3. Len(s) + 1 \in DOMAIN Append(s, x)
  BY <1>1
<1>4. \A i \in DOMAIN Append(s, x) : (i \in DOMAIN s /\ Append(s, x)[i] = s[i]) \/ Append(s, x)[i] = x
  BY <1>1
<1>5. ToSet(s) \subseteq ToSet(Append(s, x))
  BY <1>2, Zenon DEF ToSet
<1>6. x \in ToSet(Append(s, x))
  BY <1>1, <1>3, Zenon DEF ToSet
<1>7. ToSet(Append(s, x)) \subseteq ToSet(s) \cup {x}
  BY <1>4, Zenon DEF ToSet
<1> QED  BY <1>1, <1>5, <1>6, <1>7

LEMMA RemoveElements ==
  ASSUME NEW S, NEW s \in Seq(S), NEW i \in DOMAIN s
  PROVE  RemoveAt(s, i) \in Seq(S) /\ ToSet(RemoveAt(s, i)) \subseteq ToSet(s)
<1>1. i \in Nat \ {0} /\ i <= Len(s) /\ Len(s) \in Nat
  OBVIOUS
<1>2. SubSeq(s, 1, i - 1) \in Seq(S) /\ ToSet(SubSeq(s, 1, i - 1)) \subseteq ToSet(s)
  BY <1>1, SubSeqElements
<1>3. SubSeq(s, i + 1, Len(s)) \in Seq(S) /\ ToSet(SubSeq(s, i + 1, Len(s))) \subseteq ToSet(s)
  BY <1>1, SubSeqElements
<1> DEFINE a == SubSeq(s, 1, i - 1)
           b == SubSeq(s, i + 1, Len(s))
<1>4. RemoveAt(s, i) = a \o b
  BY DEF RemoveAt
<1> HIDE DEF a, b
<1>5. a \in Seq(S) /\ b \in Seq(S) /\ ToSet(a) \subseteq ToSet(s) /\ ToSet(b) \subseteq ToSet(s)
  BY <1>2, <1>3 DEF a, b
<1>6. a \o b \in Seq(S) /\ ToSet(a \o b) = ToSet(a) \cup ToSet(b)
  BY <1>5, ConcatElements
<1> QED  BY <1>4, <1>5, <1>6

-----------------------------------------------------------------------------
(* The invariant: whatever is kept under the key of a file, a run, a parse  *)
(* or a wait for one, is of the version the key names or a later one.       *)

CacheKeys == RunSources \X Nat
FreshAs(key, content) == key[1] \in Files => content >= key[2]

RunRecords(n) ==
  {r \in [id : 1..n, key : CacheKeys, content : Int] : FreshAs(r.key, r.content)}

\* A key leads to runs of that key only.
GoodCache(cache, n) ==
  /\ cache = [runs |-> cache.runs, keys |-> cache.keys, built |-> cache.built]
  /\ cache.runs \in Seq(RunRecords(n))
  /\ cache.keys \subseteq CacheKeys \X (1..n)
  /\ \A k \in cache.keys, r \in ToSet(cache.runs) : r.id = k[2] => r.key = k[1]

ParseRecords ==
  {p \in [key : CacheKeys, read : Int] :
     /\ p.key[2] <= version[p.key[1]]
     /\ p.read # -1 => FreshAs(p.key, p.read)}

Outcomes == [state : {"ready"}, id : Nat, content : Int]
              \cup [state : {"waiting"}, key : CacheKeys] \cup [state : {"failed"}]
AskedRefs == ({"source"} \X RunSources) \cup ({"id"} \X Nat)

RefRecords ==
  {r \in [asked : AskedRefs, since : Int, got : Outcomes] :
     r.asked[1] = "source" /\ r.asked[2] \in Files =>
       /\ r.got.state = "ready" => r.got.content >= r.since
       /\ r.got.state = "waiting" => r.got.key[1] = r.asked[2] /\ r.got.key[2] >= r.since}

CallRecords == [state : {"none", "resolving", "failed", "done"}, refs : Seq(RefRecords)]

CacheInv ==
  /\ version \in [RunSources -> Nat]
  /\ lastRunId \in Nat
  /\ GoodCache(Cache, lastRunId)
  /\ parses \in Seq(ParseRecords)
  /\ calls \in [Calls -> CallRecords]

-----------------------------------------------------------------------------
(* The helpers.                                                             *)

LEMMA ElementsOfSeq ==
  ASSUME NEW S, NEW s \in Seq(S)
  PROVE  ToSet(s) \subseteq S
BY DEF ToSet

\* Deleting runs leaves what it keeps as it was.
LEMMA DeleteFact ==
  ASSUME NEW n \in Nat, NEW cache, GoodCache(cache, n), NEW k \in 0..Len(cache.runs)
  PROVE  GoodCache(DeleteOldest(cache, k), n)
<1> DEFINE d == DeleteOldest(cache, k)
           keys == {x \in cache.keys : \A i \in 1..k : x # <<cache.runs[i].key, cache.runs[i].id>>}
           runs == SubSeq(cache.runs, k + 1, Len(cache.runs))
           built == Without(cache.built, {cache.runs[i].id : i \in 1..k})
<1>0. d = [runs |-> runs, keys |-> keys, built |-> built] /\ keys \subseteq cache.keys
  BY DEF DeleteOldest
<1> HIDE DEF d, keys, built, runs
<1>1. /\ d = [runs |-> d.runs, keys |-> d.keys, built |-> d.built]
      /\ d.runs = SubSeq(cache.runs, k + 1, Len(cache.runs))
      /\ d.keys \subseteq cache.keys
  <2>1. d.runs = runs /\ d.keys = keys /\ d.built = built
    BY <1>0
  <2> QED  BY <1>0, <2>1 DEF runs
<1>2. cache.runs \in Seq(RunRecords(n)) /\ k + 1 \in Nat \ {0} /\ Len(cache.runs) \in Nat
  BY DEF GoodCache
<1>3. d.runs \in Seq(RunRecords(n)) /\ ToSet(d.runs) \subseteq ToSet(cache.runs)
  <2> DEFINE s == cache.runs
             m == k + 1
             last == Len(s)
  <2>1. s \in Seq(RunRecords(n)) /\ m \in Nat \ {0} /\ last \in Int /\ last <= Len(s)
    BY <1>2
  <2>2. d.runs = SubSeq(s, m, last)
    BY <1>1
  <2> HIDE DEF s, m, last
  <2>3. SubSeq(s, m, last) \in Seq(RunRecords(n)) /\ ToSet(SubSeq(s, m, last)) \subseteq ToSet(s)
    BY <2>1, SubSeqElements
  <2> QED  BY <2>2, <2>3 DEF s
<1>4. GoodCache(d, n)
  BY <1>1, <1>3 DEF GoodCache
<1> QED  BY <1>4 DEF d

LEMMA StaleFact ==
  ASSUME NEW n \in Nat, NEW cache, GoodCache(cache, n), NEW c \in Stale(cache)
  PROVE  GoodCache(c, n)
BY DeleteFact DEF Stale

LEMMA OverflowFact ==
  ASSUME NEW n \in Nat, NEW cache, GoodCache(cache, n)
  PROVE  GoodCache(EvictOverflow(cache), n)
<1>1. cache.runs \in Seq(RunRecords(n)) /\ Len(cache.runs) \in Nat /\ CacheCap \in Nat
  BY CacheAssumption DEF GoodCache
<1>2. CASE Len(cache.runs) > CacheCap
  <2>1. Len(cache.runs) - CacheCap \in 0..Len(cache.runs)
    BY <1>1, <1>2
  <2> QED  BY <1>2, <2>1, DeleteFact DEF EvictOverflow
<1>3. CASE ~(Len(cache.runs) > CacheCap)
  BY <1>3 DEF EvictOverflow
<1> QED  BY <1>2, <1>3

\* A touch only moves the run to the end.
LEMMA TouchFact ==
  ASSUME NEW n \in Nat, NEW cache, GoodCache(cache, n), NEW id \in Cached(cache.runs)
  PROVE  GoodCache([cache EXCEPT !.runs = Touch(@, id)], n)
<1> DEFINE s == cache.runs
           i == CHOOSE j \in DOMAIN s : s[j].id = id
           t == Touch(s, id)
<1>1. s \in Seq(RunRecords(n)) /\ \E j \in DOMAIN s : s[j].id = id
  BY DEF GoodCache, Cached
<1>2. i \in DOMAIN s /\ t = Append(RemoveAt(s, i), s[i])
  BY <1>1 DEF Touch
<1> HIDE DEF i, t
<1>3. s[i] \in RunRecords(n) /\ s[i] \in ToSet(s)
  BY <1>1, <1>2 DEF ToSet
<1>4. RemoveAt(s, i) \in Seq(RunRecords(n)) /\ ToSet(RemoveAt(s, i)) \subseteq ToSet(s)
  BY <1>1, <1>2, RemoveElements
<1>5. t \in Seq(RunRecords(n)) /\ ToSet(t) \subseteq ToSet(s)
  BY <1>2, <1>3, <1>4, AppendElements
<1>6. [cache EXCEPT !.runs = t] = [runs |-> t, keys |-> cache.keys, built |-> cache.built]
  BY DEF GoodCache
<1>7. GoodCache([runs |-> t, keys |-> cache.keys, built |-> cache.built], n)
  BY <1>5 DEF GoodCache
<1>8. GoodCache([cache EXCEPT !.runs = t], n)
  BY <1>6, <1>7
<1> QED  BY <1>8 DEF t

LEMMA RunOfFact ==
  ASSUME NEW n \in Nat, NEW cache, GoodCache(cache, n), NEW id \in Cached(cache.runs)
  PROVE  LET r == RunOf(cache.runs, id) IN
         r \in RunRecords(n) /\ r \in ToSet(cache.runs) /\ r.id = id
<1>1. \E r \in ToSet(cache.runs) : r.id = id
  BY DEF Cached, ToSet
<1>2. ToSet(cache.runs) \subseteq RunRecords(n)
  BY ElementsOfSeq DEF GoodCache
<1> QED  BY <1>1, <1>2 DEF RunOf

LEMMA KeyFact ==
  ASSUME version \in [RunSources -> Nat], NEW s \in RunSources
  PROVE  /\ KeyOf(s) \in CacheKeys /\ KeyOf(s)[1] = s /\ KeyOf(s)[2] <= version[s]
         /\ s \in Files => KeyOf(s)[2] = version[s]
<1>1. version[s] \in Nat
  OBVIOUS
<1> QED  BY <1>1 DEF KeyOf, CacheKeys

\* A lookup that finds a run finds one of the key asked for.
LEMMA LookupFact ==
  ASSUME version \in [RunSources -> Nat], NEW n \in Nat, NEW cache, GoodCache(cache, n),
         NEW ref \in AskedRefs
  PROVE  LET l == Lookup(cache, ref) IN
         /\ GoodCache(l.cache, n)
         /\ Asked(ref, l.got) \in RefRecords
         /\ l.start \in BOOLEAN
         /\ l.start => l.got.key \in CacheKeys /\ l.got.key[2] <= version[l.got.key[1]]
<1> DEFINE l == Lookup(cache, ref)
           found == IF ref[1] = "id" THEN {ref[2]} \cap Cached(cache.runs)
                    ELSE CachedIdFor(cache, KeyOf(ref[2]))
           since == IF ref[1] = "id" THEN 0 ELSE version[ref[2]]
           key == KeyOf(ref[2])
<1>0. /\ ref[1] \in {"source", "id"}
      /\ ref[1] = "source" =>
           /\ ref[2] \in RunSources /\ key \in CacheKeys /\ key[1] = ref[2]
           /\ version[ref[2]] \in Nat /\ key[2] <= version[ref[2]]
           /\ ref[2] \in Files => key[2] = version[ref[2]]
      /\ since \in Int
  <2>1. CASE ref \in {"source"} \X RunSources
    <3>1. ref[1] = "source" /\ ref[2] \in RunSources
      BY <2>1
    <3> QED  BY <3>1, KeyFact
  <2>2. CASE ref \in {"id"} \X Nat
    BY <2>2
  <2> QED  BY <2>1, <2>2 DEF AskedRefs
<1>1. /\ l = IF found # {} THEN Hit(cache, CHOOSE id \in found : TRUE)
             ELSE IF ref[1] = "id" THEN [cache |-> cache, got |-> FailedRef, start |-> FALSE]
             ELSE [cache |-> cache, got |-> Waiting(key), start |-> ~SharesParse(key)]
      /\ \A got : Asked(ref, got) = [asked |-> ref, since |-> since, got |-> got]
  BY DEF Lookup, Asked
<1> HIDE DEF l, key, since
<1>2. CASE found # {}
  <2> DEFINE id == CHOOSE id \in found : TRUE
             r == RunOf(cache.runs, id)
  <2>1. id \in found
    BY <1>2
  <2>2. id \in Cached(cache.runs)
    BY <1>0, <2>1 DEF CachedIdFor
  <2>3. r \in RunRecords(n) /\ r \in ToSet(cache.runs) /\ r.id = id
    BY <2>2, RunOfFact
  <2>4. l.cache = [cache EXCEPT !.runs = Touch(@, id)] /\ l.got = FoundRun(r) /\ l.start = FALSE
    BY <1>1, <1>2 DEF Hit
  <2>5. GoodCache(l.cache, n)
    BY <2>2, <2>4, TouchFact
  <2>6. FoundRun(r) \in Outcomes /\ FoundRun(r).state = "ready" /\ FoundRun(r).content = r.content
    BY <2>3 DEF RunRecords, FoundRun, Outcomes
  <2>7. ASSUME ref[1] = "source", ref[2] \in Files PROVE r.content >= since
    <3>1. PICK k \in cache.keys : k[1] = key /\ k[2] = id
      BY <2>1, <2>7 DEF CachedIdFor, key
    <3>2. r.key = key
      BY <2>3, <3>1 DEF GoodCache
    <3> QED  BY <1>0, <2>3, <2>7, <3>2 DEF RunRecords, FreshAs, since
  <2> HIDE DEF r, id
  <2>8. [asked |-> ref, since |-> since, got |-> FoundRun(r)] \in RefRecords
    BY <1>0, <2>6, <2>7 DEF RefRecords
  <2> QED  BY <1>1, <2>4, <2>5, <2>8 DEF l
<1>3. CASE found = {} /\ ref[1] = "id"
  <2>1. l = [cache |-> cache, got |-> FailedRef, start |-> FALSE]
    BY <1>1, <1>3
  <2>2. [asked |-> ref, since |-> since, got |-> FailedRef] \in RefRecords
    BY <1>0, <1>3 DEF RefRecords, Outcomes, FailedRef
  <2>3. l.cache = cache /\ l.got = FailedRef /\ l.start = FALSE
    BY <2>1
  <2> QED  BY <1>1, <2>2, <2>3 DEF l
<1>4. CASE found = {} /\ ref[1] # "id"
  <2>1. l = [cache |-> cache, got |-> Waiting(key), start |-> ~SharesParse(key)]
    BY <1>1, <1>4
  <2>2. l.cache = cache /\ l.got = Waiting(key) /\ l.start = ~SharesParse(key)
    BY <2>1
  <2>3. Waiting(key) \in Outcomes /\ Waiting(key).state = "waiting" /\ Waiting(key).key = key
    BY <1>0, <1>4 DEF Outcomes, Waiting
  <2>4. since = version[ref[2]]
    BY <1>4 DEF since
  <2>5. [asked |-> ref, since |-> since, got |-> Waiting(key)] \in RefRecords
    BY <1>0, <1>4, <2>3, <2>4 DEF RefRecords
  <2>6. l.start \in BOOLEAN
    BY <2>2 DEF SharesParse
  <2> QED  BY <1>0, <1>1, <1>4, <2>2, <2>3, <2>5, <2>6 DEF l
<1> QED  BY <1>2, <1>3, <1>4

-----------------------------------------------------------------------------
(* One lemma per action.                                                    *)

\* An answer reaches the waits of its key, and is fresh enough for them.
LEMMA AnswerFact ==
  ASSUME calls \in [Calls -> CallRecords], NEW key \in CacheKeys, NEW got \in Outcomes,
         got.state # "waiting", got.state = "ready" => FreshAs(key, got.content),
         Answer(key, got)
  PROVE  calls' \in [Calls -> CallRecords]
<1> DEFINE new(ref) == IF ref.got.state = "waiting" /\ ref.got.key = key
                         THEN [ref EXCEPT !.got = got] ELSE ref
<1>1. ASSUME NEW ref \in RefRecords PROVE new(ref) \in RefRecords
  <2>1. CASE ref.got.state = "waiting" /\ ref.got.key = key
    <3>1. new(ref) = [asked |-> ref.asked, since |-> ref.since, got |-> got]
      BY <2>1 DEF RefRecords
    <3>2. ref.since \in Int /\ ref.asked \in AskedRefs
      BY DEF RefRecords
    <3>3. ASSUME ref.asked[1] = "source", ref.asked[2] \in Files, got.state = "ready"
          PROVE  got.content >= ref.since
      <4>1. key[1] \in Files /\ key[2] >= ref.since
        BY <2>1, <3>3 DEF RefRecords
      <4>2. got.content \in Int /\ key[2] \in Int
        BY <3>3 DEF Outcomes, CacheKeys
      <4> QED  BY <3>2, <3>3, <4>1, <4>2 DEF FreshAs
    <3> HIDE DEF new
    <3> QED  BY <3>1, <3>2, <3>3 DEF RefRecords
  <2>2. CASE ~(ref.got.state = "waiting" /\ ref.got.key = key)
    BY <2>2
  <2> QED  BY <2>1, <2>2
<1>2. \A c \in Calls :
        calls'[c] = [calls[c] EXCEPT !.refs = [r \in DOMAIN calls[c].refs |-> new(calls[c].refs[r])]]
  BY DEF Answer
<1>3. calls' = [c \in Calls |-> calls'[c]]
  BY DEF Answer
<1> HIDE DEF new
<1>4. ASSUME NEW c \in Calls PROVE calls'[c] \in CallRecords
  <2> DEFINE s == calls[c].refs
             t == [r \in DOMAIN s |-> new(s[r])]
  <2>1. s \in Seq(RefRecords) /\ calls[c].state \in {"none", "resolving", "failed", "done"}
        /\ calls[c] = [state |-> calls[c].state, refs |-> s]
    BY DEF CallRecords
  <2>2. t \in Seq(RefRecords)
    <3>1. DOMAIN s = 1..Len(s) /\ Len(s) \in Nat /\ \A r \in DOMAIN s : s[r] \in RefRecords
      BY <2>1
    <3>2. t \in [1..Len(s) -> RefRecords]
      BY <1>1, <3>1
    <3> HIDE DEF t
    <3> QED  BY <3>1, <3>2, SeqDef
  <2>3. calls'[c] = [state |-> calls[c].state, refs |-> t]
    BY <1>2, <2>1
  <2> HIDE DEF s, t
  <2> QED  BY <2>1, <2>2, <2>3 DEF CallRecords
<1> QED  BY <1>3, <1>4

LEMMA CacheTyped ==
  ASSUME CacheInv
  PROVE  /\ version \in [RunSources -> Nat] /\ lastRunId \in Nat
         /\ GoodCache(Cache, lastRunId)
         /\ parses \in Seq(ParseRecords)
         /\ calls \in [Calls -> CallRecords]
BY DEF CacheInv

\* What a step leaves of the caches.
LEMMA SetCacheFact ==
  ASSUME NEW n, NEW cache, GoodCache(cache, n), SetCache(cache)
  PROVE  GoodCache(Cache', n)
<1>1. Cache' = [runs |-> cache.runs, keys |-> cache.keys, built |-> cache.built]
  BY DEF Cache, SetCache
<1>2. Cache' = cache
  BY <1>1 DEF GoodCache
<1> QED  BY <1>2

LEMMA CacheInitInv ==
  ASSUME CacheInit
  PROVE  CacheInv
<1>1. Cache = [runs |-> <<>>, keys |-> {}, built |-> <<>>]
  BY DEF CacheInit, Cache
<1>2. ToSet(<<>>) = {}
  BY DEF ToSet
<1>3. GoodCache(Cache, lastRunId)
  BY <1>1, <1>2 DEF GoodCache
<1>4. NoCall \in CallRecords
  BY DEF NoCall, CallRecords
<1> QED  BY <1>3, <1>4 DEF CacheInit, CacheInv

\* The parses started are of keys of the present versions.
LEMMA StartFact ==
  ASSUME parses \in Seq(ParseRecords), NEW keys \in Seq(CacheKeys),
         \A key \in ToSet(keys) : key[2] <= version[key[1]],
         StartParses(keys), UNCHANGED version
  PROVE  parses' \in Seq(ParseRecords')
<1> DEFINE started == [i \in DOMAIN keys |-> [key |-> keys[i], read |-> -1]]
<1>1. ParseRecords' = ParseRecords
  BY DEF ParseRecords
<1>2. started \in Seq(ParseRecords)
  <2>1. \A i \in DOMAIN keys : keys[i] \in CacheKeys /\ keys[i][2] <= version[keys[i][1]]
    BY DEF ToSet
  <2>2. started \in [1..Len(keys) -> ParseRecords]
    BY <2>1 DEF ParseRecords
  <2> HIDE DEF started
  <2> QED  BY <2>2, SeqDef
<1>3. parses' = parses \o started
  BY DEF StartParses
<1> HIDE DEF started
<1> QED  BY <1>1, <1>2, <1>3, ConcatElements

LEMMA ResolvingFact ==
  ASSUME calls \in [Calls -> CallRecords], NEW c \in Calls, NEW refs \in Seq(RefRecords),
         Resolving(c, refs)
  PROVE  calls' \in [Calls -> CallRecords]
<1>1. [state |-> "resolving", refs |-> refs] \in CallRecords
  BY DEF CallRecords
<1> QED  BY <1>1 DEF Resolving

LEMMA CallFact ==
  ASSUME CacheInv, NEW c \in Calls, NEW n \in {1, 2}, NEW refs \in [1..n -> References],
         Call(c, refs)
  PROVE  CacheInv'
<1> USE CacheTyped
<1>1. UNCHANGED <<version, lastRunId>>
  BY DEF Call
<1>2. PICK first \in Stale(Cache) :
        LET one == Lookup(first, refs[1])
            started == IF one.start THEN <<one.got.key>> ELSE <<>>
        IN  \/ /\ Len(refs) = 1
               /\ SetCache(one.cache) /\ StartParses(started)
               /\ Resolving(c, <<Asked(refs[1], one.got)>>)
            \/ /\ Len(refs) = 2
               /\ \E second \in Stale(one.cache) :
                    LET two == Lookup(second, refs[2])
                        again == two.start /\ two.got.key \notin ToSet(started)
                    IN  /\ SetCache(two.cache)
                        /\ StartParses(IF again THEN Append(started, two.got.key) ELSE started)
                        /\ Resolving(c, <<Asked(refs[1], one.got), Asked(refs[2], two.got)>>)
  BY DEF Call
<1> DEFINE one == Lookup(first, refs[1])
           started == IF one.start THEN <<one.got.key>> ELSE <<>>
           Fresh == {key \in CacheKeys : key[2] <= version[key[1]]}
<1>3. \A i \in 1..n : refs[i] \in AskedRefs
  <2>1. References \subseteq AskedRefs
    BY DEF References, AskedRefs
  <2> QED  BY <2>1
<1>4. /\ GoodCache(one.cache, lastRunId)
      /\ Asked(refs[1], one.got) \in RefRecords
      /\ one.start \in BOOLEAN
      /\ one.start => one.got.key \in Fresh
  <2>1. GoodCache(first, lastRunId)
    BY StaleFact
  <2>2. refs[1] \in AskedRefs
    BY <1>3
  <2> QED  BY <2>1, <2>2, LookupFact
<1> HIDE DEF one
<1>5. started \in Seq(Fresh)
  <2> HIDE DEF Fresh
  <2>1. CASE one.start
    <3>1. one.got.key \in Fresh
      BY <1>4, <2>1
    <3> QED  BY <2>1, <3>1
  <2>2. CASE ~one.start
    BY <2>2
  <2> QED  BY <2>1, <2>2
<1>6. ASSUME NEW keys \in Seq(Fresh), StartParses(keys)
      PROVE  parses' \in Seq(ParseRecords')
  <2>1. keys \in Seq(CacheKeys) /\ \A key \in ToSet(keys) : key[2] <= version[key[1]]
    BY DEF ToSet
  <2> QED  BY <1>1, <1>6, <2>1, StartFact
<1> HIDE DEF Fresh, started
<1>7. CASE /\ Len(refs) = 1
           /\ SetCache(one.cache) /\ StartParses(started)
           /\ Resolving(c, <<Asked(refs[1], one.got)>>)
  <2>1. GoodCache(Cache', lastRunId)
    BY <1>4, <1>7, SetCacheFact
  <2>2. parses' \in Seq(ParseRecords')
    BY <1>5, <1>6, <1>7
  <2>3. <<Asked(refs[1], one.got)>> \in Seq(RefRecords)
    BY <1>4
  <2>4. calls' \in [Calls -> CallRecords]
    BY <1>7, <2>3, ResolvingFact
  <2> QED  BY <1>1, <2>1, <2>2, <2>4 DEF CacheInv
<1>8. CASE Len(refs) = 2 /\
           \E second \in Stale(one.cache) :
             LET two == Lookup(second, refs[2])
                 again == two.start /\ two.got.key \notin ToSet(started)
             IN  /\ SetCache(two.cache)
                 /\ StartParses(IF again THEN Append(started, two.got.key) ELSE started)
                 /\ Resolving(c, <<Asked(refs[1], one.got), Asked(refs[2], two.got)>>)
  <2>1. PICK second \in Stale(one.cache) :
             LET two == Lookup(second, refs[2])
                 again == two.start /\ two.got.key \notin ToSet(started)
             IN  /\ SetCache(two.cache)
                 /\ StartParses(IF again THEN Append(started, two.got.key) ELSE started)
                 /\ Resolving(c, <<Asked(refs[1], one.got), Asked(refs[2], two.got)>>)
    BY <1>8
  <2> DEFINE two == Lookup(second, refs[2])
             again == two.start /\ two.got.key \notin ToSet(started)
             keys == IF again THEN Append(started, two.got.key) ELSE started
  <2>2. refs[2] \in AskedRefs
    <3>1. n = 2
      <4>1. refs \in Seq(References) /\ Len(refs) = n
        BY SeqDef
      <4> QED  BY <1>8, <4>1
    <3> QED  BY <1>3, <3>1
  <2>3. /\ GoodCache(two.cache, lastRunId)
        /\ Asked(refs[2], two.got) \in RefRecords
        /\ two.start \in BOOLEAN
        /\ two.start => two.got.key \in Fresh
    <3>1. GoodCache(second, lastRunId)
      BY <1>4, StaleFact
    <3> QED  BY <2>2, <3>1, LookupFact DEF Fresh
  <2>4. /\ SetCache(two.cache) /\ StartParses(keys)
        /\ Resolving(c, <<Asked(refs[1], one.got), Asked(refs[2], two.got)>>)
    BY <2>1
  <2> HIDE DEF two
  <2>5. keys \in Seq(Fresh)
    BY <1>5, <2>3
  <2> HIDE DEF keys
  <2>6. GoodCache(Cache', lastRunId)
    BY <2>3, <2>4, SetCacheFact
  <2>7. parses' \in Seq(ParseRecords')
    BY <1>6, <2>4, <2>5
  <2>8. <<Asked(refs[1], one.got), Asked(refs[2], two.got)>> \in Seq(RefRecords)
    BY <1>4, <2>3
  <2>9. calls' \in [Calls -> CallRecords]
    BY <2>4, <2>8, ResolvingFact
  <2> QED  BY <1>1, <2>6, <2>7, <2>9 DEF CacheInv
<1> QED  BY <1>2, <1>7, <1>8 DEF one, started

\* Caching a run under the next id, in place of the run its key led to.
LEMMA AddFact ==
  ASSUME NEW n \in Nat, NEW cache, GoodCache(cache, n), NEW run \in RunRecords(n + 1),
         run.id = n + 1
  PROVE  GoodCache([cache EXCEPT !.runs = Append(@, run),
                                 !.keys = {k \in @ : k[1] # run.key} \cup {<<run.key, run.id>>}],
                   n + 1)
<1> DEFINE runs == Append(cache.runs, run)
           keys == {k \in cache.keys : k[1] # run.key} \cup {<<run.key, run.id>>}
           added == [runs |-> runs, keys |-> keys, built |-> cache.built]
<1>1. cache.runs \in Seq(RunRecords(n)) /\ cache.keys \subseteq CacheKeys \X (1..n)
  BY DEF GoodCache
<1>2. RunRecords(n) \subseteq RunRecords(n + 1) /\ run.key \in CacheKeys
  BY DEF RunRecords
<1>3. cache.runs \in Seq(RunRecords(n + 1))
  BY <1>1, <1>2
<1>4. runs \in Seq(RunRecords(n + 1)) /\ ToSet(runs) = ToSet(cache.runs) \cup {run}
  BY <1>3, AppendElements
<1>5. keys \subseteq CacheKeys \X (1..(n + 1))
  BY <1>1, <1>2
<1>6. \A r \in ToSet(cache.runs) : r.id \in 1..n
  <2>1. ToSet(cache.runs) \subseteq RunRecords(n)
    BY <1>1, ElementsOfSeq
  <2> QED  BY <2>1 DEF RunRecords
<1>7. ASSUME NEW k \in keys, NEW r \in ToSet(runs), r.id = k[2] PROVE r.key = k[1]
  <2>1. CASE k = <<run.key, run.id>>
    <3>1. r = run
      BY <1>4, <1>6, <1>7, <2>1
    <3> QED  BY <2>1, <3>1
  <2>2. CASE k # <<run.key, run.id>>
    <3>1. k \in cache.keys /\ k[2] \in 1..n
      BY <1>1, <2>2
    <3>2. r \in ToSet(cache.runs)
      BY <1>4, <1>7, <3>1
    <3> QED  BY <1>7, <3>1, <3>2 DEF GoodCache
  <2> QED  BY <2>1, <2>2
<1> HIDE DEF runs, keys
<1>8. [cache EXCEPT !.runs = runs, !.keys = keys] = added
  <2> DEFINE r == cache.runs
             k == cache.keys
             b == cache.built
  <2>1. cache = [runs |-> r, keys |-> k, built |-> b] /\ added.built = b
    BY DEF GoodCache
  <2>2. added = [runs |-> runs, keys |-> keys, built |-> b]
    OBVIOUS
  <2> HIDE DEF r, k, b, added
  <2>3. [cache EXCEPT !.runs = runs] = [runs |-> runs, keys |-> k, built |-> b]
    BY <2>1
  <2>4. [[runs |-> runs, keys |-> k, built |-> b] EXCEPT !.keys = keys]
          = [runs |-> runs, keys |-> keys, built |-> b]
    OBVIOUS
  <2>5. [cache EXCEPT !.runs = runs, !.keys = keys] = [[cache EXCEPT !.runs = runs] EXCEPT !.keys = keys]
    OBVIOUS
  <2> QED  BY <2>2, <2>3, <2>4, <2>5
<1>9. GoodCache(added, n + 1)
  BY <1>4, <1>5, <1>7 DEF GoodCache
<1>10. GoodCache([cache EXCEPT !.runs = runs, !.keys = keys], n + 1)
  BY <1>8, <1>9
<1> QED  BY <1>10 DEF runs, keys

LEMMA ReadSourceFact ==
  ASSUME CacheInv, NEW i \in DOMAIN parses, ReadSource(i)
  PROVE  CacheInv'
<1> USE CacheTyped
<1>1. UNCHANGED <<version, byRunId, byCacheKey, comparisons, lastRunId, calls>>
  BY DEF ReadSource
<1>2. GoodCache(Cache', lastRunId) /\ ParseRecords' = ParseRecords
  BY <1>1 DEF Cache, ParseRecords
<1> DEFINE s == parses[i].key[1]
           p == [key |-> parses[i].key, read |-> version[s]]
<1>3. parses[i] \in ParseRecords /\ parses[i].key \in CacheKeys
  BY DEF ParseRecords
<1>4. version[s] \in Nat /\ version[s] >= parses[i].key[2]
  BY <1>3 DEF ParseRecords, CacheKeys
<1>5. p \in ParseRecords
  BY <1>3, <1>4 DEF ParseRecords, FreshAs
<1>6. parses' = [parses EXCEPT ![i] = p]
  <2>1. parses' = [parses EXCEPT ![i].read = version[s]]
    BY DEF ReadSource
  <2>2. [parses[i] EXCEPT !.read = version[s]] = p
    BY <1>3 DEF ParseRecords
  <2> QED  BY <2>1, <2>2
<1> HIDE DEF p
<1>7. parses' \in Seq(ParseRecords)
  BY <1>5, <1>6
<1> QED  BY <1>1, <1>2, <1>7 DEF CacheInv

LEMMA EndParseFact ==
  ASSUME CacheInv, NEW i \in DOMAIN parses, EndParse(i)
  PROVE  CacheInv'
<1> USE CacheTyped
<1>1. version' = version /\ ParseRecords' = ParseRecords
  BY DEF EndParse, ParseRecords
<1>2. parses' \in Seq(ParseRecords)
  BY RemoveElements DEF EndParse
<1>3. /\ parses[i] \in ParseRecords /\ parses[i].read \in Int
      /\ parses[i].key \in CacheKeys /\ FreshAs(parses[i].key, parses[i].read)
  BY DEF EndParse, ParseRecords
<1> DEFINE run == [id |-> lastRunId', key |-> parses[i].key, content |-> parses[i].read]
           added == [Cache EXCEPT !.runs = Append(@, run),
                                  !.keys = {k \in @ : k[1] # run.key} \cup {<<run.key, run.id>>}]
<1>4. CASE lastRunId' = lastRunId + 1 /\ SetCache(EvictOverflow(added))
           /\ Answer(run.key, FoundRun(run))
  <2>1. run \in RunRecords(lastRunId + 1) /\ run.id = lastRunId + 1
    BY <1>3, <1>4 DEF RunRecords
  <2>2. FoundRun(run) \in Outcomes /\ FoundRun(run).state = "ready"
        /\ FoundRun(run).content = parses[i].read /\ run.key = parses[i].key
    BY <1>3, <1>4 DEF FoundRun, Outcomes
  <2> HIDE DEF run
  <2>3. GoodCache(added, lastRunId + 1)
    BY <2>1, AddFact
  <2> HIDE DEF added
  <2>4. GoodCache(EvictOverflow(added), lastRunId + 1)
    BY <2>3, OverflowFact
  <2>5. GoodCache(Cache', lastRunId')
    BY <1>4, <2>4, SetCacheFact
  <2>6. calls' \in [Calls -> CallRecords]
    BY <1>3, <1>4, <2>2, AnswerFact
  <2> QED  BY <1>1, <1>2, <1>4, <2>5, <2>6 DEF CacheInv
<1>5. CASE /\ Answer(parses[i].key, FailedRef)
           /\ UNCHANGED <<byRunId, byCacheKey, comparisons, lastRunId>>
  <2>1. FailedRef \in Outcomes /\ FailedRef.state = "failed"
    BY DEF FailedRef, Outcomes
  <2>2. calls' \in [Calls -> CallRecords]
    BY <1>3, <1>5, <2>1, AnswerFact
  <2>3. GoodCache(Cache', lastRunId')
    BY <1>5 DEF Cache
  <2> QED  BY <1>1, <1>2, <1>5, <2>2, <2>3 DEF CacheInv
<1> QED  BY <1>4, <1>5 DEF EndParse

LEMMA EndCallFact ==
  ASSUME calls \in [Calls -> CallRecords], NEW c \in Calls,
         NEW state \in {"none", "resolving", "failed", "done"}, EndCall(c, state)
  PROVE  calls' \in [Calls -> CallRecords]
<1>1. calls[c] \in CallRecords
  OBVIOUS
<1>2. [calls[c] EXCEPT !.state = state] \in CallRecords
  BY <1>1 DEF CallRecords
<1> QED  BY <1>2 DEF EndCall

LEMMA FailFact ==
  ASSUME CacheInv, NEW c \in Calls, Fail(c)
  PROVE  CacheInv'
<1> USE CacheTyped
<1>1. UNCHANGED <<version, byRunId, byCacheKey, parses, comparisons, lastRunId>>
  BY DEF Fail
<1>2. calls' \in [Calls -> CallRecords]
  BY EndCallFact DEF Fail
<1>3. Cache' = Cache /\ ParseRecords' = ParseRecords
  BY <1>1 DEF Cache, ParseRecords
<1> QED  BY <1>1, <1>2, <1>3 DEF CacheInv

LEMMA ReportFact ==
  ASSUME CacheInv, NEW c \in Calls, Report(c)
  PROVE  CacheInv'
<1> USE CacheTyped
<1>1. UNCHANGED <<version, parses, lastRunId>>
  BY DEF Report
<1> DEFINE id == calls[c].refs[1].got.id
<1>2. PICK cache \in Stale(Cache) :
        IF id \in Cached(cache.runs)
          THEN SetCache([cache EXCEPT !.runs = Touch(@, id)]) /\ EndCall(c, "done")
          ELSE SetCache(cache) /\ EndCall(c, "failed")
  BY DEF Report
<1> HIDE DEF id
<1>3. GoodCache(cache, lastRunId)
  BY StaleFact
<1>4. GoodCache(Cache', lastRunId)
  <2>1. CASE id \in Cached(cache.runs)
    <3>1. GoodCache([cache EXCEPT !.runs = Touch(@, id)], lastRunId)
      BY <1>3, <2>1, TouchFact
    <3> QED  BY <1>2, <2>1, <3>1, SetCacheFact
  <2>2. CASE id \notin Cached(cache.runs)
    BY <1>2, <1>3, <2>2, SetCacheFact
  <2> QED  BY <2>1, <2>2
<1>5. calls' \in [Calls -> CallRecords]
  BY <1>2, EndCallFact
<1>6. ParseRecords' = ParseRecords
  BY <1>1 DEF ParseRecords
<1> QED  BY <1>1, <1>4, <1>5, <1>6 DEF CacheInv

\* A comparison touches neither the runs nor the keys.
LEMMA CompareFact ==
  ASSUME CacheInv, NEW c \in Calls, Compare(c)
  PROVE  CacheInv'
<1> USE CacheTyped
<1>1. UNCHANGED <<version, byRunId, byCacheKey, parses, lastRunId>>
  BY DEF Compare
<1>2. calls' \in [Calls -> CallRecords]
  BY EndCallFact DEF Compare
<1>3. GoodCache(Cache', lastRunId) /\ ParseRecords' = ParseRecords
  BY <1>1 DEF Cache, ParseRecords, GoodCache
<1> QED  BY <1>1, <1>2, <1>3 DEF CacheInv

LEMMA GrowFact ==
  ASSUME CacheInv, NEW s \in RunSources, Grow(s)
  PROVE  CacheInv'
<1> USE CacheTyped
<1>1. UNCHANGED <<byRunId, byCacheKey, parses, comparisons, lastRunId, calls>>
  BY DEF Grow
<1>2. version' \in [RunSources -> Nat] /\ \A x \in RunSources : version'[x] >= version[x]
  BY DEF Grow
<1>3. ASSUME NEW p \in ParseRecords PROVE p \in ParseRecords'
  <2>1. p.key[1] \in RunSources /\ p.key[2] \in Nat
    BY DEF ParseRecords, CacheKeys
  <2>2. version[p.key[1]] \in Nat /\ version'[p.key[1]] \in Nat
        /\ version'[p.key[1]] >= version[p.key[1]]
    BY <1>2, <2>1
  <2> QED  BY <2>1, <2>2 DEF ParseRecords
<1>4. parses' \in Seq(ParseRecords')
  BY <1>1, <1>3
<1>5. Cache' = Cache
  BY <1>1 DEF Cache
<1> QED  BY <1>1, <1>2, <1>4, <1>5 DEF CacheInv

LEMMA CacheStutter ==
  ASSUME CacheInv, UNCHANGED cacheVars
  PROVE  CacheInv'
<1>1. UNCHANGED <<version, byRunId, byCacheKey, parses, comparisons, lastRunId, calls>>
  BY DEF cacheVars
<1>2. Cache' = Cache /\ ParseRecords' = ParseRecords
  BY <1>1 DEF Cache, ParseRecords
<1> QED  BY <1>1, <1>2, CacheTyped DEF CacheInv

LEMMA CacheStep ==
  ASSUME CacheInv, [CacheNext]_cacheVars
  PROVE  CacheInv'
BY CallFact, ReadSourceFact, EndParseFact, FailFact, ReportFact, CompareFact, GrowFact,
   CacheStutter DEF CacheNext

-----------------------------------------------------------------------------

LEMMA FreshFact ==
  ASSUME CacheInv
  PROVE  NotOlderThanCall
<1>1. SUFFICES ASSUME NEW c \in Calls, NEW r \in ToSet(calls[c].refs),
                      r.got.state = "ready", r.asked[1] = "source", r.asked[2] \in Files
               PROVE  r.got.content >= r.since
  BY DEF NotOlderThanCall
<1>2. calls[c].refs \in Seq(RefRecords)
  BY CacheTyped DEF CallRecords
<1>3. r \in RefRecords
  BY <1>2, ElementsOfSeq
<1> QED  BY <1>1, <1>3 DEF RefRecords

\* A call that names a file is never answered from an older version of it than
\* the one it had when the call was made (resolveOrCreateRun of mcp-tools.ts),
\* for any number of calls, sources, versions and any caps of the caches.
THEOREM AnswersFresh == CacheSpec => []NotOlderThanCall
<1>1. CacheInit => CacheInv
  BY CacheInitInv
<1>2. CacheInv /\ [CacheNext]_cacheVars => CacheInv'
  BY CacheStep
<1>3. CacheInv => NotOlderThanCall
  BY FreshFact
<1> QED  BY <1>1, <1>2, <1>3, PTL DEF CacheSpec

-----------------------------------------------------------------------------
(* The caches agree.  Between any two steps every key leads to a cached run *)
(* and every cached run is led to, and a comparison is of two cached runs.  *)

\* No two runs share an id or a key; a parse is of a key that no run has and
\* that no other parse has.
Unique(runs) ==
  \A i, j \in DOMAIN runs : (runs[i].id = runs[j].id \/ runs[i].key = runs[j].key) => i = j
KeysOf(s) == {s[i].key : i \in DOMAIN s}
Pairs(runs) == {<<runs[i].key, runs[i].id>> : i \in DOMAIN runs}

\* The comparisons built are of runs with the ids given.
Built(built, ids) ==
  /\ built \in Seq(Nat \X Nat) /\ Len(built) <= ComparisonCap
  /\ \A i, j \in DOMAIN built : built[i] = built[j] => i = j
  /\ \A i \in DOMAIN built : built[i][1] \in ids /\ built[i][2] \in ids

Agrees(cache) ==
  Unique(cache.runs) /\ cache.keys = Pairs(cache.runs) /\ Built(cache.built, Cached(cache.runs))

DistinctKeys(s) == \A i, j \in DOMAIN s : s[i].key = s[j].key => i = j

AgreeInv ==
  CacheInv /\ Agrees(Cache) /\ DistinctKeys(parses) /\ KeysOf(parses) \cap KeysOf(byRunId) = {}

-----------------------------------------------------------------------------
(* Sequences, element by element.                                           *)

LEMMA RemovedAt ==
  ASSUME NEW S, NEW s \in Seq(S), NEW i \in DOMAIN s
  PROVE  /\ RemoveAt(s, i) \in Seq(S) /\ Len(RemoveAt(s, i)) = Len(s) - 1
         /\ \A j \in 1..(Len(s) - 1) : RemoveAt(s, i)[j] = s[IF j < i THEN j ELSE j + 1]
<1> DEFINE a == SubSeq(s, 1, i - 1)
           b == SubSeq(s, i + 1, Len(s))
<1>1. i \in Nat \ {0} /\ i <= Len(s) /\ Len(s) \in Nat
  OBVIOUS
<1>2. a \in Seq(S) /\ Len(a) = i - 1 /\ \A j \in 1..(i - 1) : a[j] = s[j]
  <2>1. \A j \in 1..(i - 1) : s[j] \in S
    BY <1>1
  <2> QED  BY <1>1, <2>1, SubSeqProperties
<1>3. b \in Seq(S) /\ Len(b) = Len(s) - i /\ \A j \in 1..(Len(s) - i) : b[j] = s[j + i]
  <2>1. \A j \in (i + 1)..Len(s) : s[j] \in S
    BY <1>1
  <2>2. /\ b \in Seq(S) /\ Len(b) = IF i + 1 <= Len(s) THEN Len(s) - (i + 1) + 1 ELSE 0
        /\ \A j \in 1..(Len(s) - (i + 1) + 1) : b[j] = s[i + 1 + j - 1]
    BY <1>1, <2>1, SubSeqProperties
  <2> HIDE DEF b
  <2>3. Len(b) = Len(s) - i
    BY <1>1, <2>2
  <2>4. ASSUME NEW j \in 1..(Len(s) - i) PROVE b[j] = s[j + i]
    <3>1. j \in 1..(Len(s) - (i + 1) + 1) /\ i + 1 + j - 1 = j + i
      BY <1>1
    <3> QED  BY <2>2, <3>1
  <2> QED  BY <2>2, <2>3, <2>4
<1>4. RemoveAt(s, i) = a \o b
  BY DEF RemoveAt
<1> HIDE DEF a, b
<1>5. /\ a \o b \in Seq(S) /\ Len(a \o b) = Len(a) + Len(b)
      /\ \A j \in 1..Len(a) + Len(b) : (a \o b)[j] = IF j <= Len(a) THEN a[j] ELSE b[j - Len(a)]
  BY <1>2, <1>3, ConcatProperties
<1>6. ASSUME NEW j \in 1..(Len(s) - 1) PROVE (a \o b)[j] = s[IF j < i THEN j ELSE j + 1]
  <2>1. j \in 1..Len(a) + Len(b)
    BY <1>1, <1>2, <1>3
  <2>2. CASE j < i
    <3>1. j <= Len(a) /\ j \in 1..(i - 1)
      BY <1>1, <1>2, <2>2
    <3> QED  BY <1>2, <1>5, <2>1, <2>2, <3>1
  <2>3. CASE ~(j < i)
    <3>1. ~(j <= Len(a)) /\ j - Len(a) \in 1..(Len(s) - i) /\ j - Len(a) + i = j + 1
      BY <1>1, <1>2, <2>3
    <3> QED  BY <1>3, <1>5, <2>1, <2>3, <3>1
  <2> QED  BY <2>2, <2>3
<1>7. Len(a \o b) = Len(s) - 1
  BY <1>1, <1>2, <1>3, <1>5
<1> QED  BY <1>4, <1>5, <1>6, <1>7

\* Moving an element to the end.
LEMMA MovedLast ==
  ASSUME NEW S, NEW s \in Seq(S), NEW i \in DOMAIN s
  PROVE  LET t == Append(RemoveAt(s, i), s[i]) IN
         /\ t \in Seq(S) /\ Len(t) = Len(s) /\ DOMAIN t = DOMAIN s
         /\ \A j \in DOMAIN t : t[j] = s[IF j = Len(s) THEN i ELSE IF j < i THEN j ELSE j + 1]
<1> DEFINE r == RemoveAt(s, i)
           t == Append(r, s[i])
<1>1. i \in 1..Len(s) /\ Len(s) \in Nat /\ s[i] \in S
  OBVIOUS
<1>2. /\ r \in Seq(S) /\ Len(r) = Len(s) - 1
      /\ \A j \in 1..(Len(s) - 1) : r[j] = s[IF j < i THEN j ELSE j + 1]
  BY RemovedAt
<1> HIDE DEF r
<1>3. t \in Seq(S) /\ Len(t) = Len(s) /\ \A j \in 1..Len(r) : t[j] = r[j] /\ t[Len(s)] = s[i]
  <2>1. /\ t \in Seq(S) /\ Len(t) = Len(r) + 1
        /\ \A j \in 1..Len(r) : t[j] = r[j]
        /\ t[Len(r) + 1] = s[i]
    BY <1>1, <1>2, AppendProperties
  <2>2. Len(r) + 1 = Len(s)
    BY <1>1, <1>2
  <2> QED  BY <2>1, <2>2
<1>4. t[Len(s)] = s[i]
  <2>1. t[Len(r) + 1] = s[i]
    BY <1>1, <1>2, AppendProperties
  <2>2. Len(r) + 1 = Len(s)
    BY <1>1, <1>2
  <2> QED  BY <2>1, <2>2
<1> HIDE DEF t
<1>5. DOMAIN t = 1..Len(s) /\ DOMAIN s = 1..Len(s)
  BY <1>3
<1>6. ASSUME NEW j \in 1..Len(s)
      PROVE  t[j] = s[IF j = Len(s) THEN i ELSE IF j < i THEN j ELSE j + 1]
  <2>1. CASE j = Len(s)
    BY <1>4, <2>1
  <2>2. CASE j # Len(s)
    <3>1. j \in 1..(Len(s) - 1) /\ j \in 1..Len(r)
      BY <1>1, <1>2, <2>2
    <3> QED  BY <1>2, <1>3, <2>2, <3>1
  <2> QED  BY <2>1, <2>2
<1>7. t \in Seq(S) /\ Len(t) = Len(s) /\ DOMAIN t = DOMAIN s
      /\ \A j \in DOMAIN t : t[j] = s[IF j = Len(s) THEN i ELSE IF j < i THEN j ELSE j + 1]
  BY <1>3, <1>5, <1>6
<1> QED  BY <1>7 DEF t, r

\* So it has each element of before, at one index.
Rearranged(t, s) ==
  \E p \in [DOMAIN t -> DOMAIN s] :
    /\ \A j \in DOMAIN t : t[j] = s[p[j]]
    /\ \A j, k \in DOMAIN t : p[j] = p[k] => j = k
    /\ \A k \in DOMAIN s : \E j \in DOMAIN t : p[j] = k

LEMMA MovedOnce ==
  ASSUME NEW S, NEW s \in Seq(S), NEW i \in DOMAIN s, NEW t, t = Append(RemoveAt(s, i), s[i])
  PROVE  t \in Seq(S) /\ Len(t) = Len(s) /\ Rearranged(t, s)
<1> DEFINE n == Len(s)
           p == [j \in 1..n |-> IF j = n THEN i ELSE IF j < i THEN j ELSE j + 1]
<1>1. /\ t \in Seq(S) /\ Len(t) = n /\ DOMAIN t = DOMAIN s
      /\ \A j \in DOMAIN t : t[j] = s[IF j = n THEN i ELSE IF j < i THEN j ELSE j + 1]
  BY MovedLast
<1>2. n \in Nat /\ i \in 1..n /\ DOMAIN s = 1..n /\ DOMAIN t = 1..n
  BY <1>1
<1> HIDE DEF n
<1>3. p \in [1..n -> 1..n] /\ \A j \in 1..n : t[j] = s[p[j]]
  BY <1>1, <1>2
<1>4. ASSUME NEW j \in 1..n, NEW k \in 1..n, p[j] = p[k] PROVE j = k
  BY <1>2, <1>4
<1>5. ASSUME NEW k \in 1..n PROVE \E j \in 1..n : p[j] = k
  <2>1. CASE k = i
    BY <1>2, <2>1
  <2>2. CASE k < i
    <3>1. p[k] = k
      BY <1>2, <2>2
    <3> QED  BY <3>1
  <2>3. CASE k > i
    <3>1. k - 1 \in 1..n /\ p[k - 1] = k
      BY <1>2, <2>3
    <3> QED  BY <3>1
  <2> QED  BY <1>2, <2>1, <2>2, <2>3
<1> HIDE DEF p
<1>6. /\ p \in [DOMAIN t -> DOMAIN s]
      /\ \A j \in DOMAIN t : t[j] = s[p[j]]
      /\ \A j, k \in DOMAIN t : p[j] = p[k] => j = k
      /\ \A k \in DOMAIN s : \E j \in DOMAIN t : p[j] = k
  BY <1>2, <1>3, <1>4, <1>5
<1>7. t \in Seq(S) /\ Len(t) = Len(s)
  BY <1>1 DEF n
<1> QED  BY <1>6, <1>7, Zenon DEF Rearranged

-----------------------------------------------------------------------------
(* What Without leaves of the comparisons.                                  *)

Gone(built, gone, i) == built[i][1] \in gone \/ built[i][2] \in gone

\* Its recursive function, over the first n comparisons.
IsLeft(left, n, built, gone) ==
  left = [i \in 0..n |-> IF i = 0 THEN <<>>
                         ELSE IF Gone(built, gone, i) THEN left[i - 1]
                         ELSE Append(left[i - 1], built[i])]

LEMMA LeftExists ==
  ASSUME NEW S, NEW built \in Seq(S), NEW gone
  PROVE  \E left : IsLeft(left, Len(built), built, gone)
<1> DEFINE Bad == {n \in 0..Len(built) : ~\E left : IsLeft(left, n, built, gone)}
<1>1. Len(built) \in Nat
  OBVIOUS
<1>2. SUFFICES ASSUME Bad # {} PROVE FALSE
  BY <1>1
<1>3. Bad \in SUBSET Nat
  BY <1>1
<1> HIDE DEF Bad
<1>4. PICK m \in Bad : \A n \in Bad : m <= n
  BY <1>2, <1>3, LeastOf
<1>5. m \in 0..Len(built) /\ ~\E left : IsLeft(left, m, built, gone)
  BY <1>4 DEF Bad
<1>6. CASE m = 0
  <2>1. IsLeft([i \in 0..0 |-> <<>>], 0, built, gone)
    BY DEF IsLeft
  <2> QED  BY <1>5, <1>6, <2>1
<1>7. CASE m # 0
  <2>1. m - 1 \in 0..Len(built) /\ ~(m <= m - 1) /\ m \in Nat
    BY <1>1, <1>5, <1>7
  <2>2. m - 1 \notin Bad
    BY <1>4, <2>1
  <2>3. PICK left : IsLeft(left, m - 1, built, gone)
    BY <2>1, <2>2 DEF Bad
  <2> DEFINE step(i) == IF i = 0 THEN <<>>
                        ELSE IF Gone(built, gone, i) THEN left[i - 1]
                        ELSE Append(left[i - 1], built[i])
             new == [i \in 0..m |-> step(i)]
  <2>4. left = [i \in 0..(m - 1) |-> step(i)]
    BY <2>3 DEF IsLeft
  <2> HIDE DEF step
  <2>5. \A i \in 0..(m - 1) : left[i] = step(i) /\ new[i] = step(i)
    BY <2>1, <2>4
  <2>6. \A i \in 0..m : step(i) = IF i = 0 THEN <<>>
                                  ELSE IF Gone(built, gone, i) THEN new[i - 1]
                                  ELSE Append(new[i - 1], built[i])
    <3>1. ASSUME NEW i \in 0..m, i # 0 PROVE left[i - 1] = new[i - 1]
      <4>1. i - 1 \in 0..(m - 1)
        BY <2>1, <3>1
      <4> QED  BY <2>5, <4>1
    <3> QED  BY <3>1 DEF step
  <2>7. IsLeft(new, m, built, gone)
    <3>1. new = [i \in 0..m |-> step(i)]
      OBVIOUS
    <3> HIDE DEF new
    <3> QED  BY <2>6, <3>1 DEF IsLeft
  <2> QED  BY <1>5, <2>7
<1> QED  BY <1>6, <1>7

\* The comparisons left are some of those before, none of them of a run that
\* is gone, each at an index of its own.
Thinned(t, n, built, gone) ==
  /\ Len(t) <= n
  /\ \E p \in [DOMAIN t -> 1..n] :
       /\ \A j \in DOMAIN t : t[j] = built[p[j]] /\ ~Gone(built, gone, p[j])
       /\ \A j, k \in DOMAIN t : p[j] = p[k] => j = k

LEMMA LeftFact ==
  ASSUME NEW S, NEW built \in Seq(S), NEW gone, NEW left,
         IsLeft(left, Len(built), built, gone)
  PROVE  \A n \in 0..Len(built) : left[n] \in Seq(S) /\ Thinned(left[n], n, built, gone)
<1> DEFINE Good(n) == left[n] \in Seq(S) /\ Thinned(left[n], n, built, gone)
           Bad == {n \in 0..Len(built) : ~Good(n)}
<1>1. Len(built) \in Nat /\ \A i \in 1..Len(built) : built[i] \in S
  OBVIOUS
<1>2. /\ left[0] = <<>>
      /\ \A i \in 1..Len(built) :
           left[i] = IF Gone(built, gone, i) THEN left[i - 1] ELSE Append(left[i - 1], built[i])
  <2> DEFINE step(i) == IF i = 0 THEN <<>>
                        ELSE IF Gone(built, gone, i) THEN left[i - 1]
                        ELSE Append(left[i - 1], built[i])
  <2>1. left = [i \in 0..Len(built) |-> step(i)]
    BY DEF IsLeft
  <2> HIDE DEF step
  <2>2. \A i \in 0..Len(built) : left[i] = step(i)
    BY <2>1
  <2> QED  BY <1>1, <2>2 DEF step
<1>3. SUFFICES ASSUME Bad # {} PROVE FALSE
  OBVIOUS
<1>4. Bad \in SUBSET Nat
  BY <1>1
<1> HIDE DEF Bad, Good
<1>5. PICK m \in Bad : \A n \in Bad : m <= n
  BY <1>3, <1>4, LeastOf
<1>6. m \in 0..Len(built) /\ ~Good(m)
  BY <1>5 DEF Bad
<1>7. m # 0
  <2>1. Good(0)
    <3> DEFINE e == <<>>
    <3>1. e \in [DOMAIN e -> 1..0] /\ Len(e) <= 0 /\ DOMAIN e = {} /\ e \in Seq(S) /\ left[0] = e
      BY <1>2
    <3> HIDE DEF e
    <3>2. Thinned(e, 0, built, gone)
      BY <3>1, Zenon DEF Thinned
    <3> QED  BY <3>1, <3>2 DEF Good
  <2> QED  BY <1>6, <2>1
<1>8. m \in 1..Len(built) /\ m - 1 \in 0..Len(built) /\ ~(m <= m - 1) /\ m \in Nat
  BY <1>1, <1>6, <1>7
<1>9. Good(m - 1)
  BY <1>5, <1>8 DEF Bad
<1> DEFINE t == left[m - 1]
<1>10. t \in Seq(S) /\ Len(t) \in Nat /\ DOMAIN t = 1..Len(t) /\ Len(t) <= m - 1
  BY <1>9 DEF Good, Thinned
<1>11. PICK p \in [DOMAIN t -> 1..(m - 1)] :
         /\ \A j \in DOMAIN t : t[j] = built[p[j]] /\ ~Gone(built, gone, p[j])
         /\ \A j, k \in DOMAIN t : p[j] = p[k] => j = k
  BY <1>9 DEF Good, Thinned
<1> HIDE DEF t
<1>12. CASE Gone(built, gone, m)
  <2>1. left[m] = t
    BY <1>2, <1>8, <1>12 DEF t
  <2>2. p \in [DOMAIN t -> 1..m] /\ Len(t) <= m
    BY <1>8, <1>10
  <2>3. Thinned(t, m, built, gone)
    BY <1>11, <2>2 DEF Thinned
  <2> QED  BY <1>6, <1>10, <2>1, <2>3 DEF Good
<1>13. CASE ~Gone(built, gone, m)
  <2> DEFINE u == Append(t, built[m])
             l == Len(t)
             q == [j \in 1..(l + 1) |-> IF j = l + 1 THEN m ELSE p[j]]
  <2>1. left[m] = u
    BY <1>2, <1>8, <1>13 DEF t
  <2>2. /\ u \in Seq(S) /\ Len(u) = l + 1 /\ u[l + 1] = built[m]
        /\ \A j \in 1..l : u[j] = t[j]
    BY <1>1, <1>8, <1>10, AppendProperties
  <2> HIDE DEF u
  <2>3. DOMAIN u = 1..(l + 1) /\ l \in Nat /\ DOMAIN t = 1..l /\ l + 1 <= m
    BY <1>8, <1>10, <2>2
  <2> HIDE DEF l
  <2>4. \A j \in 1..l : p[j] \in 1..(m - 1)
    BY <2>3
  <2>5. q \in [1..(l + 1) -> 1..m]
    BY <1>8, <2>3, <2>4
  <2>6. ASSUME NEW j \in 1..(l + 1) PROVE u[j] = built[q[j]] /\ ~Gone(built, gone, q[j])
    <3>1. CASE j = l + 1
      BY <1>13, <2>2, <3>1
    <3>2. CASE j # l + 1
      <4>1. j \in 1..l /\ q[j] = p[j]
        BY <2>3, <3>2
      <4> QED  BY <1>11, <2>2, <2>3, <4>1
    <3> QED  BY <3>1, <3>2
  <2>7. ASSUME NEW j \in 1..(l + 1), NEW k \in 1..(l + 1), q[j] = q[k] PROVE j = k
    <3>1. CASE j = l + 1 /\ k # l + 1
      <4>1. q[j] = m /\ q[k] \in 1..(m - 1)
        BY <2>3, <2>4, <3>1
      <4> QED  BY <1>8, <2>7, <4>1
    <3>2. CASE j # l + 1 /\ k = l + 1
      <4>1. q[k] = m /\ q[j] \in 1..(m - 1)
        BY <2>3, <2>4, <3>2
      <4> QED  BY <1>8, <2>7, <4>1
    <3>3. CASE j # l + 1 /\ k # l + 1
      <4>1. j \in 1..l /\ k \in 1..l /\ q[j] = p[j] /\ q[k] = p[k]
        BY <2>3, <3>3
      <4> QED  BY <1>11, <2>3, <2>7, <4>1
    <3> QED  BY <3>1, <3>2, <3>3
  <2> HIDE DEF q
  <2>8. Thinned(u, m, built, gone)
    <3>1. q \in [DOMAIN u -> 1..m] /\ Len(u) <= m
      BY <2>2, <2>3, <2>5
    <3>2. \A j \in DOMAIN u : u[j] = built[q[j]] /\ ~Gone(built, gone, q[j])
      BY <2>3, <2>6
    <3>3. \A j, k \in DOMAIN u : q[j] = q[k] => j = k
      BY <2>3, <2>7
    <3> QED  BY <3>1, <3>2, <3>3 DEF Thinned
  <2> QED  BY <1>6, <2>1, <2>2, <2>8 DEF Good
<1> QED  BY <1>12, <1>13

LEMMA WithoutFact ==
  ASSUME NEW S, NEW built \in Seq(S), NEW gone
  PROVE  Without(built, gone) \in Seq(S) /\ Thinned(Without(built, gone), Len(built), built, gone)
<1> DEFINE left == CHOOSE left : IsLeft(left, Len(built), built, gone)
<1>1. IsLeft(left, Len(built), built, gone)
  BY LeftExists
<1>2. Without(built, gone) = left[Len(built)]
  BY DEF Without, IsLeft, Gone
<1> HIDE DEF left
<1>3. Len(built) \in 0..Len(built)
  <2>1. Len(built) \in Nat
    OBVIOUS
  <2> QED  BY <2>1
<1> QED  BY <1>1, <1>2, <1>3, LeftFact

-----------------------------------------------------------------------------
(* The operations on the caches keep them in agreement.                     *)

\* Runs in another order.
LEMMA Reordered ==
  ASSUME NEW s, NEW t, Unique(s), Rearranged(t, s)
  PROVE  Unique(t) /\ Pairs(t) = Pairs(s) /\ KeysOf(t) = KeysOf(s) /\ Cached(t) = Cached(s)
<1>1. PICK p \in [DOMAIN t -> DOMAIN s] :
           /\ \A j \in DOMAIN t : t[j] = s[p[j]]
           /\ \A j, k \in DOMAIN t : p[j] = p[k] => j = k
           /\ \A k \in DOMAIN s : \E j \in DOMAIN t : p[j] = k
  BY DEF Rearranged
<1>2. \A j \in DOMAIN t : p[j] \in DOMAIN s
  OBVIOUS
<1>3. Unique(t)
  BY <1>1, <1>2 DEF Unique
<1>4. \A k \in DOMAIN s : \E j \in DOMAIN t : t[j] = s[k]
  BY <1>1
<1>5. \A j \in DOMAIN t : \E k \in DOMAIN s : t[j] = s[k]
  BY <1>1, <1>2
<1>6. Pairs(t) = Pairs(s)
  <2>1. \A x \in Pairs(t) : x \in Pairs(s)
    BY <1>5 DEF Pairs
  <2>2. \A x \in Pairs(s) : x \in Pairs(t)
    BY <1>4 DEF Pairs
  <2> QED  BY <2>1, <2>2
<1>7. KeysOf(t) = KeysOf(s)
  <2>1. \A x \in KeysOf(t) : x \in KeysOf(s)
    BY <1>5 DEF KeysOf
  <2>2. \A x \in KeysOf(s) : x \in KeysOf(t)
    BY <1>4 DEF KeysOf
  <2> QED  BY <2>1, <2>2
<1>8. Cached(t) = Cached(s)
  <2>1. \A x \in Cached(t) : x \in Cached(s)
    BY <1>5 DEF Cached
  <2>2. \A x \in Cached(s) : x \in Cached(t)
    BY <1>4 DEF Cached
  <2> QED  BY <2>1, <2>2
<1> QED  BY <1>3, <1>6, <1>7, <1>8

LEMMA TouchAgrees ==
  ASSUME NEW n \in Nat, NEW cache, GoodCache(cache, n), Agrees(cache), NEW id \in Cached(cache.runs)
  PROVE  LET c == [cache EXCEPT !.runs = Touch(@, id)] IN
         Agrees(c) /\ KeysOf(c.runs) = KeysOf(cache.runs)
<1> DEFINE s == cache.runs
           i == CHOOSE j \in DOMAIN s : s[j].id = id
           t == Touch(s, id)
           c == [cache EXCEPT !.runs = t]
<1>1. s \in Seq(RunRecords(n)) /\ \E j \in DOMAIN s : s[j].id = id
  BY DEF GoodCache, Cached
<1>2. i \in DOMAIN s /\ t = Append(RemoveAt(s, i), s[i])
  BY <1>1 DEF Touch
<1>3. c.runs = t /\ c.keys = cache.keys /\ c.built = cache.built
  <2> HIDE DEF t
  <2> QED  BY DEF GoodCache
<1> HIDE DEF i, t, c, s
<1>4. Rearranged(t, s)
  BY <1>1, <1>2, MovedOnce
<1>5. Unique(s) /\ cache.keys = Pairs(s) /\ Built(cache.built, Cached(s))
  BY DEF Agrees, s
<1>6. Unique(t) /\ Pairs(t) = Pairs(s) /\ KeysOf(t) = KeysOf(s) /\ Cached(t) = Cached(s)
  BY <1>4, <1>5, Reordered
<1>7. Agrees(c) /\ KeysOf(c.runs) = KeysOf(s)
  BY <1>3, <1>5, <1>6 DEF Agrees
<1> QED  BY <1>7 DEF c, s, t

\* The runs deleted take their keys and their comparisons with them, and leave
\* those of the others alone.
LEMMA DeleteAgrees ==
  ASSUME NEW n \in Nat, NEW cache, GoodCache(cache, n), NEW k \in 0..Len(cache.runs),
         Unique(cache.runs), cache.keys = Pairs(cache.runs),
         Built(cache.built, Cached(cache.runs))
  PROVE  LET d == DeleteOldest(cache, k) IN
         Agrees(d) /\ KeysOf(d.runs) \subseteq KeysOf(cache.runs)
<1> DEFINE s == cache.runs
           l == Len(s)
           t == SubSeq(s, k + 1, l)
           keys == {x \in cache.keys : \A i \in 1..k : x # <<s[i].key, s[i].id>>}
           gone == {s[i].id : i \in 1..k}
           built == Without(cache.built, gone)
           d == DeleteOldest(cache, k)
<1>1. s \in Seq(RunRecords(n)) /\ l \in Nat /\ k \in 0..l /\ DOMAIN s = 1..l
  BY DEF GoodCache
<1>2. d.runs = t /\ d.keys = keys /\ d.built = built
  BY DEF DeleteOldest
<1> HIDE DEF d
<1>3. Len(t) = l - k /\ DOMAIN t = 1..(l - k) /\ \A j \in 1..(l - k) : t[j] = s[j + k] /\ j + k \in 1..l
  <2>1. \A i \in (k + 1)..l : s[i] \in RunRecords(n)
    <3>1. \A i \in (k + 1)..l : i \in 1..l
      BY <1>1
    <3> QED  BY <1>1, <3>1
  <2>2. /\ t \in Seq(RunRecords(n)) /\ Len(t) = IF k + 1 <= l THEN l - (k + 1) + 1 ELSE 0
        /\ \A i \in 1..(l - (k + 1) + 1) : t[i] = s[k + 1 + i - 1]
    <3> HIDE DEF s, l, t
    <3>1. k + 1 \in Int /\ l \in Int
      BY <1>1
    <3> QED  BY <2>1, <3>1, SubSeqProperties DEF t
  <2> HIDE DEF t, s, l
  <2>3. Len(t) = l - k
    BY <1>1, <2>2
  <2>4. ASSUME NEW j \in 1..(l - k) PROVE t[j] = s[j + k] /\ j + k \in 1..l
    <3>1. j \in 1..(l - (k + 1) + 1) /\ k + 1 + j - 1 = j + k /\ j + k \in 1..l
      BY <1>1
    <3> QED  BY <2>2, <3>1
  <2> QED  BY <2>2, <2>3, <2>4
<1> HIDE DEF t, l
<1>4. \A i \in (k + 1)..l : i - k \in 1..(l - k) /\ t[i - k] = s[i]
  BY <1>1, <1>3
<1>5. Unique(s) /\ cache.keys = Pairs(s) /\ Built(cache.built, Cached(s))
  OBVIOUS
<1> HIDE DEF s
<1>6. Unique(t)
  <2> SUFFICES ASSUME NEW i \in DOMAIN t, NEW j \in DOMAIN t,
                      t[i].id = t[j].id \/ t[i].key = t[j].key
               PROVE  i = j
    BY DEF Unique
  <2>1. t[i] = s[i + k] /\ t[j] = s[j + k] /\ i + k \in DOMAIN s /\ j + k \in DOMAIN s
    BY <1>1, <1>3
  <2>2. i + k = j + k
    BY <1>5, <2>1 DEF Unique
  <2> QED  BY <1>1, <1>3, <2>2
<1>7. \A i \in 1..k : i \in DOMAIN s
  BY <1>1
<1>8. keys = Pairs(t)
  <2>1. ASSUME NEW x \in keys PROVE x \in Pairs(t)
    <3>1. PICK i \in DOMAIN s : x = <<s[i].key, s[i].id>>
      BY <1>5 DEF Pairs
    <3>2. i \notin 1..k
      BY <3>1
    <3>3. i \in (k + 1)..l
      BY <1>1, <3>2
    <3> QED  BY <1>3, <1>4, <3>1, <3>3 DEF Pairs
  <2>2. ASSUME NEW x \in Pairs(t) PROVE x \in keys
    <3>1. PICK j \in 1..(l - k) : x = <<t[j].key, t[j].id>>
      BY <1>3 DEF Pairs
    <3>2. x = <<s[j + k].key, s[j + k].id>> /\ j + k \in DOMAIN s
      BY <1>1, <1>3, <3>1
    <3>3. x \in cache.keys
      BY <1>5, <3>2 DEF Pairs
    <3>4. ASSUME NEW i \in 1..k, x = <<s[i].key, s[i].id>> PROVE FALSE
      <4>1. i = j + k
        BY <1>5, <1>7, <3>2, <3>4 DEF Unique
      <4> QED  BY <1>1, <4>1
    <3> QED  BY <3>3, <3>4
  <2> QED  BY <2>1, <2>2
<1>9. KeysOf(t) \subseteq KeysOf(s)
  <2>1. \A j \in DOMAIN t : j + k \in DOMAIN s /\ t[j] = s[j + k]
    BY <1>1, <1>3
  <2> QED  BY <2>1, Zenon DEF KeysOf
<1>10. Built(built, Cached(t))
  <2>1. cache.built \in Seq(Nat \X Nat) /\ Len(cache.built) <= ComparisonCap
        /\ Len(cache.built) \in Nat /\ ComparisonCap \in Nat
    BY <1>5, CacheAssumption DEF Built
  <2> HIDE DEF gone
  <2>2. built \in Seq(Nat \X Nat) /\ Thinned(built, Len(cache.built), cache.built, gone)
    BY <2>1, WithoutFact
  <2> HIDE DEF built
  <2>3. PICK p \in [DOMAIN built -> 1..Len(cache.built)] :
          /\ \A j \in DOMAIN built : built[j] = cache.built[p[j]] /\ ~Gone(cache.built, gone, p[j])
          /\ \A i, j \in DOMAIN built : p[i] = p[j] => i = j
    BY <2>2 DEF Thinned
  <2>4. Len(built) <= ComparisonCap
    <3>1. Len(built) \in Nat /\ Len(built) <= Len(cache.built)
      BY <2>2 DEF Thinned
    <3> QED  BY <2>1, <3>1
  <2>5. \A j \in DOMAIN built : p[j] \in DOMAIN cache.built
    BY <2>1, <2>3
  <2>6. \A i, j \in DOMAIN built : built[i] = built[j] => i = j
    BY <1>5, <2>3, <2>5 DEF Built
  <2>7. ASSUME NEW id \in Cached(s), id \notin gone PROVE id \in Cached(t)
    <3>1. PICK i \in DOMAIN s : id = s[i].id
      BY <2>7 DEF Cached
    <3>2. i \notin 1..k
      BY <2>7, <3>1 DEF gone
    <3>3. i \in (k + 1)..l
      BY <1>1, <3>2
    <3> QED  BY <1>3, <1>4, <3>1, <3>3 DEF Cached
  <2>8. ASSUME NEW j \in DOMAIN built PROVE built[j][1] \in Cached(t) /\ built[j][2] \in Cached(t)
    <3>1. cache.built[p[j]][1] \in Cached(s) /\ cache.built[p[j]][2] \in Cached(s)
      BY <1>5, <2>5 DEF Built
    <3>2. built[j][1] \notin gone /\ built[j][2] \notin gone /\ built[j] = cache.built[p[j]]
      BY <2>3 DEF Gone
    <3> QED  BY <2>7, <3>1, <3>2
  <2> QED  BY <2>2, <2>4, <2>6, <2>8 DEF Built
<1>11. Agrees(d) /\ KeysOf(d.runs) \subseteq KeysOf(s)
  BY <1>2, <1>6, <1>8, <1>9, <1>10 DEF Agrees
<1> QED  BY <1>11 DEF d, s

LEMMA StaleAgrees ==
  ASSUME NEW n \in Nat, NEW cache, GoodCache(cache, n), Agrees(cache), NEW c \in Stale(cache)
  PROVE  Agrees(c) /\ KeysOf(c.runs) \subseteq KeysOf(cache.runs)
BY DeleteAgrees DEF Stale, Agrees

LEMMA OverflowAgrees ==
  ASSUME NEW n \in Nat, NEW cache, GoodCache(cache, n), Agrees(cache)
  PROVE  LET c == EvictOverflow(cache) IN
         Agrees(c) /\ KeysOf(c.runs) \subseteq KeysOf(cache.runs)
<1>1. cache.runs \in Seq(RunRecords(n)) /\ Len(cache.runs) \in Nat /\ CacheCap \in Nat
  BY CacheAssumption DEF GoodCache
<1>2. CASE Len(cache.runs) > CacheCap
  <2>1. Len(cache.runs) - CacheCap \in 0..Len(cache.runs)
    BY <1>1, <1>2
  <2> QED  BY <1>2, <2>1, DeleteAgrees DEF EvictOverflow, Agrees
<1>3. CASE ~(Len(cache.runs) > CacheCap)
  BY <1>3 DEF EvictOverflow
<1> QED  BY <1>2, <1>3

\* A lookup starts a parse only of a key that has no run and no parse.
LEMMA LookupAgrees ==
  ASSUME NEW n \in Nat, NEW cache, GoodCache(cache, n), Agrees(cache), NEW ref \in AskedRefs
  PROVE  LET l == Lookup(cache, ref) IN
         /\ Agrees(l.cache) /\ KeysOf(l.cache.runs) \subseteq KeysOf(cache.runs)
         /\ l.start => l.got.key \notin KeysOf(cache.runs) /\ l.got.key \notin KeysOf(parses)
<1> DEFINE l == Lookup(cache, ref)
           key == KeyOf(ref[2])
           found == IF ref[1] = "id" THEN {ref[2]} \cap Cached(cache.runs)
                    ELSE CachedIdFor(cache, key)
<1>1. l = IF found # {} THEN Hit(cache, CHOOSE id \in found : TRUE)
          ELSE IF ref[1] = "id" THEN [cache |-> cache, got |-> FailedRef, start |-> FALSE]
          ELSE [cache |-> cache, got |-> Waiting(key), start |-> ~SharesParse(key)]
  BY DEF Lookup
<1> HIDE DEF l, key
<1>2. CASE found # {}
  <2> DEFINE id == CHOOSE id \in found : TRUE
             c == [cache EXCEPT !.runs = Touch(@, id)]
  <2>1. id \in Cached(cache.runs)
    BY <1>2 DEF CachedIdFor
  <2>2. l.cache = c /\ l.start = FALSE
    BY <1>1, <1>2 DEF Hit
  <2> HIDE DEF id
  <2>3. Agrees(c) /\ KeysOf(c.runs) = KeysOf(cache.runs)
    BY <2>1, TouchAgrees
  <2> HIDE DEF c
  <2> QED  BY <2>2, <2>3 DEF l
<1>3. CASE found = {} /\ ref[1] = "id"
  <2>1. l = [cache |-> cache, got |-> FailedRef, start |-> FALSE]
    BY <1>1, <1>3
  <2>2. l.cache = cache /\ l.start = FALSE
    BY <2>1
  <2> QED  BY <2>2 DEF l
<1>4. CASE found = {} /\ ref[1] # "id"
  <2>1. l = [cache |-> cache, got |-> Waiting(key), start |-> ~SharesParse(key)]
    BY <1>1, <1>4
  <2>2. l.cache = cache /\ l.got = Waiting(key) /\ l.start = ~SharesParse(key)
    BY <2>1
  <2>3. l.got.key = key
    BY <2>2 DEF Waiting
  <2>4. ASSUME key \in KeysOf(cache.runs) PROVE FALSE
    <3>1. PICK i \in DOMAIN cache.runs : cache.runs[i].key = key
      BY <2>4 DEF KeysOf
    <3> DEFINE k == <<cache.runs[i].key, cache.runs[i].id>>
    <3>2. k \in cache.keys /\ k[1] = key /\ k[2] \in Cached(cache.runs)
      BY <3>1 DEF Agrees, Pairs, Cached
    <3>3. k[2] \in CachedIdFor(cache, key)
      BY <3>2 DEF CachedIdFor
    <3> QED  BY <1>4, <3>3
  <2>5. l.start => key \notin KeysOf(parses)
    BY <2>2 DEF SharesParse, KeysOf
  <2> QED  BY <2>2, <2>3, <2>4, <2>5 DEF l
<1> QED  BY <1>2, <1>3, <1>4

LEMMA StartAgrees ==
  ASSUME parses \in Seq(ParseRecords), DistinctKeys(parses), NEW keys \in Seq(CacheKeys),
         \A i, j \in DOMAIN keys : keys[i] = keys[j] => i = j,
         \A i \in DOMAIN keys : keys[i] \notin KeysOf(parses),
         StartParses(keys)
  PROVE  /\ DistinctKeys(parses')
         /\ \A key \in KeysOf(parses') : key \in KeysOf(parses) \/ \E i \in DOMAIN keys : key = keys[i]
<1> DEFINE started == [i \in DOMAIN keys |-> [key |-> keys[i], read |-> -1]]
           R == [key : CacheKeys, read : Int]
           m == Len(parses)
           n == Len(keys)
<1>1. started \in Seq(R) /\ Len(started) = n /\ \A i \in 1..n : started[i].key = keys[i]
  <2>1. \A i \in DOMAIN keys : keys[i] \in CacheKeys
    OBVIOUS
  <2>2. started \in [1..n -> R] /\ n \in Nat
    BY <2>1
  <2>3. \A i \in 1..n : started[i].key = keys[i]
    OBVIOUS
  <2>4. Len(started) = n
    <3>1. DOMAIN started = 1..n
      OBVIOUS
    <3> QED  BY <2>2, <3>1
  <2> HIDE DEF started, n, R
  <2>5. started \in Seq(R)
    BY <2>2, SeqDef
  <2> QED  BY <2>3, <2>4, <2>5
<1>2. parses \in Seq(R) /\ m \in Nat /\ n \in Nat
  <2>1. \A i \in 1..m : parses[i] \in R
    BY DEF ParseRecords
  <2>2. m \in Nat /\ n \in Nat /\ parses = [i \in 1..m |-> parses[i]]
    OBVIOUS
  <2> HIDE DEF R, m, n
  <2>3. parses \in [1..m -> R]
    BY <2>1, <2>2
  <2> QED  BY <2>2, <2>3, SeqDef
<1>3. parses' = parses \o started
  BY DEF StartParses
<1> HIDE DEF started, R
<1>4. /\ parses' \in Seq(R) /\ Len(parses') = m + n
      /\ \A i \in 1..m + n : parses'[i] = IF i <= m THEN parses[i] ELSE started[i - m]
  <2> DEFINE s == parses
  <2>1. s \in Seq(R) /\ started \in Seq(R) /\ Len(s) = m /\ Len(started) = n
    BY <1>1, <1>2
  <2> HIDE DEF s, n, m
  <2>2. /\ s \o started \in Seq(R) /\ Len(s \o started) = Len(s) + Len(started)
        /\ \A i \in 1..Len(s) + Len(started) :
             (s \o started)[i] = IF i <= Len(s) THEN s[i] ELSE started[i - Len(s)]
    BY <2>1, ConcatProperties, ZenonT(60)
  <2> QED  BY <1>3, <2>1, <2>2 DEF s
<1>5. DOMAIN parses = 1..m /\ DOMAIN keys = 1..n /\ DOMAIN parses' = 1..(m + n)
  BY <1>2, <1>4
<1> HIDE DEF m, n
<1>6. ASSUME NEW i \in 1..(m + n)
      PROVE  \/ i \in 1..m /\ parses'[i].key = parses[i].key
             \/ i - m \in 1..n /\ parses'[i].key = keys[i - m] /\ ~(i \in 1..m)
  <2>1. CASE i <= m
    BY <1>2, <1>4, <2>1
  <2>2. CASE ~(i <= m)
    <3>1. i - m \in 1..n /\ ~(i \in 1..m)
      BY <1>2, <2>2
    <3> QED  BY <1>1, <1>4, <2>2, <3>1
  <2> QED  BY <2>1, <2>2
<1>7. \A i \in 1..m : parses[i].key \in KeysOf(parses)
  BY <1>5 DEF KeysOf
<1>8. ASSUME NEW i \in 1..(m + n), NEW j \in 1..(m + n), parses'[i].key = parses'[j].key
      PROVE  i = j
  <2>1. CASE i \in 1..m /\ j \in 1..m
    <3>1. parses[i].key = parses[j].key
      BY <1>2, <1>6, <1>8, <2>1
    <3> QED  BY <1>5, <2>1, <3>1 DEF DistinctKeys
  <2>2. CASE i \in 1..m /\ j \notin 1..m
    BY <1>5, <1>6, <1>7, <1>8, <2>2
  <2>3. CASE i \notin 1..m /\ j \in 1..m
    BY <1>5, <1>6, <1>7, <1>8, <2>3
  <2>4. CASE i \notin 1..m /\ j \notin 1..m
    <3>1. i - m \in 1..n /\ j - m \in 1..n /\ keys[i - m] = keys[j - m]
      BY <1>6, <1>8, <2>4
    <3>2. i - m = j - m
      BY <1>5, <3>1
    <3> QED  BY <1>2, <3>2
  <2> QED  BY <2>1, <2>2, <2>3, <2>4
<1>9. DistinctKeys(parses')
  BY <1>5, <1>8 DEF DistinctKeys
<1>10. ASSUME NEW key \in KeysOf(parses')
       PROVE  key \in KeysOf(parses) \/ \E i \in DOMAIN keys : key = keys[i]
  <2>1. PICK i \in 1..(m + n) : key = parses'[i].key
    BY <1>5 DEF KeysOf
  <2> QED  BY <1>5, <1>6, <1>7, <2>1
<1> QED  BY <1>9, <1>10

\* What a step leaves of the caches.
LEMMA SetCacheAgrees ==
  ASSUME NEW n, NEW cache, GoodCache(cache, n), SetCache(cache), Agrees(cache)
  PROVE  Agrees(Cache') /\ byRunId' = cache.runs /\ Cache'.runs = byRunId'
<1>1. Cache' = [runs |-> cache.runs, keys |-> cache.keys, built |-> cache.built]
  BY DEF Cache, SetCache
<1>2. Cache' = cache
  BY <1>1 DEF GoodCache
<1> QED  BY <1>2 DEF SetCache

-----------------------------------------------------------------------------
(* One lemma per action that touches the caches or the parses.              *)

LEMMA AgreeTyped ==
  ASSUME AgreeInv
  PROVE  /\ CacheInv /\ Agrees(Cache) /\ DistinctKeys(parses)
         /\ GoodCache(Cache, lastRunId) /\ lastRunId \in Nat
         /\ parses \in Seq(ParseRecords) /\ version \in [RunSources -> Nat]
         /\ KeysOf(parses) \cap KeysOf(Cache.runs) = {} /\ Cache.runs = byRunId
BY CacheTyped DEF AgreeInv, Cache

LEMMA CallAgrees ==
  ASSUME AgreeInv, NEW c \in Calls, NEW n \in {1, 2}, NEW refs \in [1..n -> References],
         Call(c, refs)
  PROVE  AgreeInv'
<1> USE AgreeTyped
<1>1. CacheInv'
  BY CallFact
<1>2. PICK first \in Stale(Cache) :
        LET one == Lookup(first, refs[1])
            started == IF one.start THEN <<one.got.key>> ELSE <<>>
        IN  \/ /\ Len(refs) = 1
               /\ SetCache(one.cache) /\ StartParses(started)
               /\ Resolving(c, <<Asked(refs[1], one.got)>>)
            \/ /\ Len(refs) = 2
               /\ \E second \in Stale(one.cache) :
                    LET two == Lookup(second, refs[2])
                        again == two.start /\ two.got.key \notin ToSet(started)
                    IN  /\ SetCache(two.cache)
                        /\ StartParses(IF again THEN Append(started, two.got.key) ELSE started)
                        /\ Resolving(c, <<Asked(refs[1], one.got), Asked(refs[2], two.got)>>)
  BY DEF Call
<1> DEFINE one == Lookup(first, refs[1])
           started == IF one.start THEN <<one.got.key>> ELSE <<>>
<1>3. \A i \in 1..n : refs[i] \in AskedRefs
  <2>1. References \subseteq AskedRefs
    BY DEF References, AskedRefs
  <2> QED  BY <2>1
<1>4. GoodCache(first, lastRunId) /\ Agrees(first) /\ KeysOf(first.runs) \subseteq KeysOf(Cache.runs)
  BY StaleFact, StaleAgrees
<1>5. /\ GoodCache(one.cache, lastRunId) /\ Agrees(one.cache)
      /\ KeysOf(one.cache.runs) \subseteq KeysOf(first.runs)
      /\ one.start \in BOOLEAN
      /\ one.start => /\ one.got.key \in CacheKeys
                      /\ one.got.key \notin KeysOf(first.runs) /\ one.got.key \notin KeysOf(parses)
  <2>1. refs[1] \in AskedRefs
    BY <1>3
  <2> QED  BY <1>4, <2>1, LookupFact, LookupAgrees
<1> HIDE DEF one
\* New keys started, none of them cached by then.
<1>6. ASSUME NEW cache, GoodCache(cache, lastRunId), Agrees(cache), SetCache(cache),
             KeysOf(cache.runs) \subseteq KeysOf(first.runs),
             NEW keys \in Seq(CacheKeys), StartParses(keys),
             \A i, j \in DOMAIN keys : keys[i] = keys[j] => i = j,
             \A i \in DOMAIN keys : keys[i] \notin KeysOf(parses) /\ keys[i] \notin KeysOf(cache.runs)
      PROVE  AgreeInv'
  <2>1. Agrees(Cache') /\ byRunId' = cache.runs
    BY <1>6, SetCacheAgrees
  <2>2. /\ DistinctKeys(parses')
        /\ \A key \in KeysOf(parses') : key \in KeysOf(parses) \/ \E i \in DOMAIN keys : key = keys[i]
    BY <1>6, StartAgrees
  <2>3. \A key \in KeysOf(parses) : key \notin KeysOf(cache.runs)
    BY <1>4, <1>6
  <2>4. KeysOf(parses') \cap KeysOf(byRunId') = {}
    BY <1>6, <2>1, <2>2, <2>3
  <2>5. KeysOf(parses)' = KeysOf(parses') /\ KeysOf(byRunId)' = KeysOf(byRunId')
    OBVIOUS
  <2> QED  BY <1>1, <2>1, <2>2, <2>4, <2>5 DEF AgreeInv, DistinctKeys
<1>7. /\ started \in Seq(CacheKeys)
      /\ \A i, j \in DOMAIN started : started[i] = started[j] => i = j
      /\ \A i \in DOMAIN started :
           started[i] \notin KeysOf(parses) /\ started[i] \notin KeysOf(first.runs)
      /\ Len(started) <= 1
  BY <1>5
<1> HIDE DEF started
<1>8. CASE /\ Len(refs) = 1
           /\ SetCache(one.cache) /\ StartParses(started)
           /\ Resolving(c, <<Asked(refs[1], one.got)>>)
  BY <1>5, <1>6, <1>7, <1>8
<1>9. CASE Len(refs) = 2 /\
           \E second \in Stale(one.cache) :
             LET two == Lookup(second, refs[2])
                 again == two.start /\ two.got.key \notin ToSet(started)
             IN  /\ SetCache(two.cache)
                 /\ StartParses(IF again THEN Append(started, two.got.key) ELSE started)
                 /\ Resolving(c, <<Asked(refs[1], one.got), Asked(refs[2], two.got)>>)
  <2>1. PICK second \in Stale(one.cache) :
             LET two == Lookup(second, refs[2])
                 again == two.start /\ two.got.key \notin ToSet(started)
             IN  /\ SetCache(two.cache)
                 /\ StartParses(IF again THEN Append(started, two.got.key) ELSE started)
                 /\ Resolving(c, <<Asked(refs[1], one.got), Asked(refs[2], two.got)>>)
    BY <1>9
  <2> DEFINE two == Lookup(second, refs[2])
             again == two.start /\ two.got.key \notin ToSet(started)
             keys == IF again THEN Append(started, two.got.key) ELSE started
  <2>2. refs[2] \in AskedRefs
    <3>1. n = 2
      <4>1. refs \in Seq(References) /\ Len(refs) = n
        BY SeqDef
      <4> QED  BY <1>9, <4>1
    <3> QED  BY <1>3, <3>1
  <2>3. GoodCache(second, lastRunId) /\ Agrees(second)
        /\ KeysOf(second.runs) \subseteq KeysOf(one.cache.runs)
    BY <1>5, StaleFact, StaleAgrees
  <2>4. /\ GoodCache(two.cache, lastRunId) /\ Agrees(two.cache)
        /\ KeysOf(two.cache.runs) \subseteq KeysOf(second.runs)
        /\ two.start \in BOOLEAN
        /\ two.start => /\ two.got.key \in CacheKeys
                        /\ two.got.key \notin KeysOf(second.runs) /\ two.got.key \notin KeysOf(parses)
    BY <2>2, <2>3, LookupFact, LookupAgrees
  <2>5. SetCache(two.cache) /\ StartParses(keys)
    BY <2>1
  <2> HIDE DEF two
  <2>6. KeysOf(two.cache.runs) \subseteq KeysOf(first.runs)
    BY <1>5, <2>3, <2>4
  <2>7. /\ keys \in Seq(CacheKeys)
        /\ \A i, j \in DOMAIN keys : keys[i] = keys[j] => i = j
        /\ \A i \in DOMAIN keys :
             keys[i] \notin KeysOf(parses) /\ keys[i] \notin KeysOf(two.cache.runs)
    <3>1. CASE ~again
      BY <1>7, <2>6, <3>1
    <3>2. CASE again
      <4> DEFINE k == two.got.key
      <4>1. k \in CacheKeys /\ k \notin KeysOf(two.cache.runs) /\ k \notin KeysOf(parses)
            /\ \A i \in DOMAIN started : started[i] # k
        BY <2>4, <3>2 DEF ToSet
      <4>2. keys = Append(started, k)
        BY <3>2
      <4> HIDE DEF k, keys
      <4>3. /\ keys \in Seq(CacheKeys) /\ Len(keys) = Len(started) + 1
            /\ \A i \in 1..Len(started) : keys[i] = started[i]
            /\ keys[Len(started) + 1] = k
        BY <1>7, <4>1, <4>2, AppendProperties
      <4>4. Len(started) \in Nat /\ DOMAIN started = 1..Len(started)
            /\ DOMAIN keys = 1..(Len(started) + 1)
        BY <1>7, <4>3
      <4>5. \A i, j \in DOMAIN keys : keys[i] = keys[j] => i = j
        BY <1>7, <4>1, <4>3, <4>4
      <4>6. \A i \in DOMAIN keys :
             keys[i] \notin KeysOf(parses) /\ keys[i] \notin KeysOf(two.cache.runs)
        BY <1>7, <2>6, <4>1, <4>3, <4>4
      <4> QED  BY <4>3, <4>5, <4>6
    <3> QED  BY <3>1, <3>2
  <2> HIDE DEF keys
  <2> QED  BY <1>6, <2>4, <2>5, <2>6, <2>7
<1> QED  BY <1>2, <1>8, <1>9 DEF one, started

\* The run of a parse is of a key no other run has.
LEMMA AddAgrees ==
  ASSUME NEW n \in Nat, NEW cache, GoodCache(cache, n), Agrees(cache),
         NEW run, run.id = n + 1, run.key \notin KeysOf(cache.runs),
         NEW added, added.runs = Append(cache.runs, run), added.built = cache.built,
         added.keys = {k \in cache.keys : k[1] # run.key} \cup {<<run.key, run.id>>}
  PROVE  Agrees(added) /\ \A key \in KeysOf(added.runs) : key \in KeysOf(cache.runs) \/ key = run.key
<1> DEFINE s == cache.runs
           l == Len(s)
           t == Append(s, run)
<1>1. s \in Seq(RunRecords(n)) /\ l \in Nat /\ DOMAIN s = 1..l
      /\ \A i \in 1..l : s[i].id \in 1..n /\ s[i].key \in KeysOf(s)
  <2>1. s \in Seq(RunRecords(n))
    BY DEF GoodCache
  <2>2. \A i \in DOMAIN s : s[i] \in RunRecords(n)
    BY <2>1
  <2>3. l \in Nat /\ DOMAIN s = 1..l
    BY <2>1
  <2> HIDE DEF s, l
  <2> QED  BY <2>1, <2>2, <2>3 DEF RunRecords, KeysOf
<1>2. DOMAIN t = 1..(l + 1) /\ t[l + 1] = run /\ \A i \in 1..l : t[i] = s[i]
  <2> DEFINE S == RunRecords(n) \cup {run}
  <2>1. s \in Seq(S) /\ run \in S
    <3>1. RunRecords(n) \subseteq S /\ run \in S
      OBVIOUS
    <3> HIDE DEF S, s
    <3> QED  BY <1>1, <3>1
  <2> HIDE DEF S, s
  <2>2. /\ t \in Seq(S) /\ Len(t) = l + 1 /\ t[l + 1] = run /\ \A i \in 1..l : t[i] = s[i]
    BY <2>1, AppendProperties
  <2> HIDE DEF t
  <2> QED  BY <2>2
<1>3. Unique(s) /\ cache.keys = Pairs(s) /\ Built(cache.built, Cached(s)) /\ run.key \notin KeysOf(s)
  BY DEF Agrees
<1>4. added.runs = t
  OBVIOUS
<1> HIDE DEF s, l, t
<1>5. Unique(t)
  <2> SUFFICES ASSUME NEW i \in 1..(l + 1), NEW j \in 1..(l + 1),
                      t[i].id = t[j].id \/ t[i].key = t[j].key
               PROVE  i = j
    BY <1>2 DEF Unique
  <2>1. CASE i \in 1..l /\ j \in 1..l
    <3>1. s[i].id = s[j].id \/ s[i].key = s[j].key
      BY <1>2, <2>1
    <3> QED  BY <1>1, <1>3, <2>1, <3>1 DEF Unique
  <2>2. CASE i \in 1..l /\ j \notin 1..l
    <3>1. j = l + 1 /\ t[j] = run /\ t[i] = s[i]
      BY <1>1, <1>2, <2>2
    <3> QED  BY <1>1, <1>3, <2>2, <3>1
  <2>3. CASE i \notin 1..l /\ j \in 1..l
    <3>1. i = l + 1 /\ t[i] = run /\ t[j] = s[j]
      BY <1>1, <1>2, <2>3
    <3> QED  BY <1>1, <1>3, <2>3, <3>1
  <2>4. CASE i \notin 1..l /\ j \notin 1..l
    BY <1>1, <2>4
  <2> QED  BY <2>1, <2>2, <2>3, <2>4
<1>6. /\ l + 1 \in DOMAIN t /\ \A i \in DOMAIN s : i \in DOMAIN t /\ t[i] = s[i]
      /\ \A i \in DOMAIN t : t[i] = run \/ (i \in DOMAIN s /\ t[i] = s[i])
  BY <1>1, <1>2
<1>7. added.keys = Pairs(t)
  <2>1. ASSUME NEW k \in added.keys PROVE k \in Pairs(t)
    <3>1. CASE k = <<run.key, run.id>>
      BY <1>2, <1>6, <3>1 DEF Pairs
    <3>2. CASE k # <<run.key, run.id>>
      <4>1. k \in Pairs(s)
        BY <1>3, <3>2
      <4> QED  BY <1>6, <4>1 DEF Pairs
    <3> QED  BY <3>1, <3>2
  <2>2. ASSUME NEW k \in Pairs(t) PROVE k \in added.keys
    <3>1. PICK i \in DOMAIN t : k = <<t[i].key, t[i].id>>
      BY DEF Pairs
    <3>2. CASE t[i] = run
      BY <3>1, <3>2
    <3>3. CASE i \in DOMAIN s /\ t[i] = s[i]
      <4>1. k \in cache.keys /\ k[1] = s[i].key /\ s[i].key \in KeysOf(s)
        BY <1>1, <1>3, <3>1, <3>3 DEF Pairs
      <4> QED  BY <1>3, <4>1
    <3> QED  BY <1>6, <3>2, <3>3
  <2> QED  BY <2>1, <2>2
<1>8. Built(added.built, Cached(t))
  <2>1. \A id \in Cached(s) : id \in Cached(t)
    BY <1>6 DEF Cached
  <2> QED  BY <1>3, <2>1 DEF Built
<1>9. ASSUME NEW key \in KeysOf(t) PROVE key \in KeysOf(s) \/ key = run.key
  BY <1>6 DEF KeysOf
<1> QED  BY <1>4, <1>5, <1>7, <1>8, <1>9 DEF Agrees, s

\* A parse that ends leaves those of the other keys.
LEMMA EndParseLeaves ==
  ASSUME parses \in Seq(ParseRecords), DistinctKeys(parses), NEW i \in DOMAIN parses,
         parses' = RemoveAt(parses, i)
  PROVE  /\ DistinctKeys(parses')
         /\ \A key \in KeysOf(parses') : key \in KeysOf(parses) /\ key # parses[i].key
<1> DEFINE m == Len(parses)
           at(j) == IF j < i THEN j ELSE j + 1
<1>1. /\ parses' \in Seq(ParseRecords) /\ Len(parses') = m - 1
      /\ \A j \in 1..(m - 1) : parses'[j] = parses[at(j)]
  BY RemovedAt
<1>2. m \in Nat /\ DOMAIN parses = 1..m /\ i \in 1..m /\ DOMAIN parses' = 1..(m - 1)
  BY <1>1
<1> HIDE DEF m
<1>3. \A j \in 1..(m - 1) : at(j) \in 1..m /\ at(j) # i
  BY <1>2
<1>4. \A j, k \in 1..(m - 1) : at(j) = at(k) => j = k
  BY <1>2
<1> HIDE DEF at
<1>5. DistinctKeys(parses')
  BY <1>1, <1>2, <1>3, <1>4 DEF DistinctKeys
<1>6. ASSUME NEW key \in KeysOf(parses') PROVE key \in KeysOf(parses) /\ key # parses[i].key
  <2>1. PICK j \in 1..(m - 1) : key = parses'[j].key
    BY <1>2 DEF KeysOf
  <2>2. key = parses[at(j)].key /\ at(j) \in DOMAIN parses /\ at(j) # i
    BY <1>1, <1>2, <1>3, <2>1
  <2> QED  BY <2>2 DEF KeysOf, DistinctKeys
<1> QED  BY <1>5, <1>6

LEMMA EndParseAgrees ==
  ASSUME AgreeInv, NEW i \in DOMAIN parses, EndParse(i)
  PROVE  AgreeInv'
<1> USE AgreeTyped
<1>1. CacheInv'
  BY EndParseFact
<1>2. /\ DistinctKeys(parses')
      /\ \A key \in KeysOf(parses') : key \in KeysOf(parses) /\ key # parses[i].key
  BY EndParseLeaves DEF EndParse
<1> DEFINE run == [id |-> lastRunId', key |-> parses[i].key, content |-> parses[i].read]
           runs == Append(Cache.runs, run)
           keys == {k \in Cache.keys : k[1] # run.key} \cup {<<run.key, run.id>>}
           added == [Cache EXCEPT !.runs = runs, !.keys = keys]
<1>3. parses[i] \in ParseRecords /\ parses[i].key \in KeysOf(parses)
  BY DEF KeysOf
<1>4. CASE lastRunId' = lastRunId + 1 /\ SetCache(EvictOverflow(added))
  <2>1. run.id = lastRunId + 1 /\ run.key = parses[i].key /\ run.key \notin KeysOf(Cache.runs)
    BY <1>3, <1>4
  <2>2. run \in RunRecords(lastRunId + 1)
    BY <1>3, <1>4 DEF RunRecords, EndParse, ParseRecords
  <2> HIDE DEF run
  <2>3. GoodCache(added, lastRunId + 1)
    BY <2>1, <2>2, AddFact
  <2>4. added.runs = runs /\ added.keys = keys /\ added.built = Cache.built
    <3> HIDE DEF runs, keys
    <3> QED  BY DEF Cache
  <2> HIDE DEF added
  <2>5. Agrees(added) /\ \A key \in KeysOf(added.runs) : key \in KeysOf(Cache.runs) \/ key = run.key
    BY <2>1, <2>4, AddAgrees
  <2>6. /\ GoodCache(EvictOverflow(added), lastRunId + 1) /\ Agrees(EvictOverflow(added))
        /\ KeysOf(EvictOverflow(added).runs) \subseteq KeysOf(added.runs)
    BY <2>3, <2>5, OverflowFact, OverflowAgrees
  <2>7. Agrees(Cache') /\ byRunId' = EvictOverflow(added).runs
    BY <1>4, <2>6, SetCacheAgrees
  <2>8. KeysOf(parses') \cap KeysOf(byRunId') = {}
    BY <1>2, <2>1, <2>5, <2>6, <2>7
  <2>9. KeysOf(parses)' = KeysOf(parses') /\ KeysOf(byRunId)' = KeysOf(byRunId')
    OBVIOUS
  <2> QED  BY <1>1, <1>2, <2>7, <2>8, <2>9 DEF AgreeInv, DistinctKeys
<1>5. CASE UNCHANGED <<byRunId, byCacheKey, comparisons, lastRunId>>
  <2>1. Cache' = Cache
    BY <1>5 DEF Cache
  <2>2. Agrees(Cache)'
    BY <2>1 DEF Agrees, Unique, Pairs, Built, Cached
  <2>3. KeysOf(parses') \cap KeysOf(byRunId') = {}
    BY <1>2, <1>5
  <2>4. KeysOf(parses)' = KeysOf(parses') /\ KeysOf(byRunId)' = KeysOf(byRunId')
    OBVIOUS
  <2> QED  BY <1>1, <1>2, <2>2, <2>3, <2>4 DEF AgreeInv, DistinctKeys
<1> QED  BY <1>4, <1>5 DEF EndParse

LEMMA ReportAgrees ==
  ASSUME AgreeInv, NEW c \in Calls, Report(c)
  PROVE  AgreeInv'
<1> USE AgreeTyped
<1>1. CacheInv' /\ parses' = parses
  BY ReportFact DEF Report
<1> DEFINE id == calls[c].refs[1].got.id
<1>2. PICK cache \in Stale(Cache) :
        IF id \in Cached(cache.runs)
          THEN SetCache([cache EXCEPT !.runs = Touch(@, id)]) /\ EndCall(c, "done")
          ELSE SetCache(cache) /\ EndCall(c, "failed")
  BY DEF Report
<1> HIDE DEF id
<1>3. GoodCache(cache, lastRunId) /\ Agrees(cache) /\ KeysOf(cache.runs) \subseteq KeysOf(Cache.runs)
  BY StaleFact, StaleAgrees
<1>4. ASSUME NEW left, SetCache(left), GoodCache(left, lastRunId), Agrees(left),
             KeysOf(left.runs) \subseteq KeysOf(cache.runs)
      PROVE  AgreeInv'
  <2>1. Agrees(Cache') /\ byRunId' = left.runs
    BY <1>4, SetCacheAgrees
  <2>2. KeysOf(parses') \cap KeysOf(byRunId') = {}
    BY <1>1, <1>3, <1>4, <2>1
  <2>3. KeysOf(parses)' = KeysOf(parses') /\ KeysOf(byRunId)' = KeysOf(byRunId')
    OBVIOUS
  <2> QED  BY <1>1, <2>1, <2>2, <2>3 DEF AgreeInv, DistinctKeys
<1>5. CASE id \in Cached(cache.runs)
  <2> DEFINE left == [cache EXCEPT !.runs = Touch(@, id)]
  <2>1. GoodCache(left, lastRunId) /\ Agrees(left) /\ KeysOf(left.runs) = KeysOf(cache.runs)
    BY <1>3, <1>5, TouchFact, TouchAgrees
  <2>2. SetCache(left)
    BY <1>2, <1>5
  <2> HIDE DEF left
  <2> QED  BY <1>4, <2>1, <2>2
<1>6. CASE id \notin Cached(cache.runs)
  BY <1>2, <1>3, <1>4, <1>6
<1> QED  BY <1>5, <1>6

\* A comparison built before is used again, or the one just built is kept if
\* both its runs are still cached, in place of the oldest one if need be.
LEMMA CompareAgrees ==
  ASSUME AgreeInv, NEW c \in Calls, Compare(c)
  PROVE  AgreeInv'
<1> USE AgreeTyped
<1>1. CacheInv' /\ UNCHANGED <<version, byRunId, byCacheKey, parses, lastRunId>>
  BY CompareFact DEF Compare
<1> DEFINE ids == <<calls[c].refs[1].got.id, calls[c].refs[2].got.id>>
           kept == Append(comparisons, ids)
           Live == Cached(byRunId)
           n == Len(comparisons)
<1>2. comparisons' = IF ids \in ToSet(comparisons) THEN Renew(comparisons, ids)
                     ELSE IF ~MayKeep(ids) THEN comparisons
                     ELSE IF Len(kept) > ComparisonCap THEN Tail(kept) ELSE kept
  BY DEF Compare
<1>3. Unique(byRunId) /\ byCacheKey = Pairs(byRunId) /\ Built(comparisons, Live)
  BY DEF Agrees, Cache
<1>4. comparisons \in Seq(Nat \X Nat) /\ n \in Nat /\ n <= ComparisonCap /\ ComparisonCap \in Nat
  BY <1>3, CacheAssumption DEF Built
<1>5. Live \subseteq Nat
  <2>1. \A i \in DOMAIN byRunId : byRunId[i].id \in Nat
    <3>1. byRunId \in Seq(RunRecords(lastRunId))
      BY DEF GoodCache, Cache
    <3>2. \A i \in DOMAIN byRunId : byRunId[i] \in RunRecords(lastRunId)
      BY <3>1
    <3> QED  BY <3>2 DEF RunRecords
  <2> QED  BY <2>1 DEF Cached
<1> DEFINE a == ids[1]
           b == ids[2]
<1>6. ids = <<a, b>> /\ DOMAIN ids = {1, 2}
  OBVIOUS
<1> HIDE DEF ids, Live
<1>7. Built(comparisons', Live)
  <2>1. CASE ids \in ToSet(comparisons)
    <3> DEFINE i == CHOOSE i \in DOMAIN comparisons : comparisons[i] = ids
    <3>1. \E j \in DOMAIN comparisons : comparisons[j] = ids
      BY <2>1 DEF ToSet
    <3>2. i \in DOMAIN comparisons /\ comparisons[i] = ids
      BY <3>1
    <3>3. comparisons' = Append(RemoveAt(comparisons, i), comparisons[i])
      BY <1>2, <2>1, <3>2 DEF Renew
    <3> HIDE DEF i, n
    <3>4. comparisons' \in Seq(Nat \X Nat) /\ Len(comparisons') = Len(comparisons)
          /\ Rearranged(comparisons', comparisons)
      BY <1>4, <3>2, <3>3, MovedOnce, ZenonT(60)
    <3>5. PICK p \in [DOMAIN comparisons' -> DOMAIN comparisons] :
            /\ \A j \in DOMAIN comparisons' : comparisons'[j] = comparisons[p[j]]
            /\ \A j, k \in DOMAIN comparisons' : p[j] = p[k] => j = k
      BY <3>4 DEF Rearranged
    <3>6. \A j \in DOMAIN comparisons' : p[j] \in DOMAIN comparisons
      BY <3>5
    <3> QED  BY <1>3, <1>4, <3>4, <3>5, <3>6, SMTT(40) DEF Built, n
  <2>2. CASE ids \notin ToSet(comparisons) /\ ~MayKeep(ids)
    BY <1>2, <1>3, <2>2
  <2>3. CASE ids \notin ToSet(comparisons) /\ MayKeep(ids)
    <3>1. a \in Live /\ b \in Live /\ ids \in Nat \X Nat
      BY <1>5, <1>6, <2>3 DEF MayKeep, Live
    <3>2. /\ kept \in Seq(Nat \X Nat) /\ Len(kept) = n + 1 /\ kept[n + 1] = ids
          /\ \A i \in 1..n : kept[i] = comparisons[i]
      BY <1>4, <3>1, AppendProperties
    <3> HIDE DEF kept
    <3>3. DOMAIN comparisons = 1..n /\ DOMAIN kept = 1..(n + 1)
      BY <1>4, <3>2
    <3> HIDE DEF n
    <3>4. \A i \in 1..n : comparisons[i] # ids
      BY <2>3, <3>3 DEF ToSet
    <3>5. \A i \in 1..(n + 1) : i = n + 1 \/ i \in 1..n
      BY <1>4
    <3>6. \A i, j \in 1..(n + 1) : kept[i] = kept[j] => i = j
      BY <1>3, <3>2, <3>3, <3>4, <3>5 DEF Built
    <3>7. \A i \in 1..(n + 1) : kept[i][1] \in Live /\ kept[i][2] \in Live
      BY <1>3, <1>6, <3>1, <3>2, <3>3, <3>5 DEF Built
    <3>8. CASE Len(kept) > ComparisonCap
      <4>1. comparisons' = Tail(kept) /\ kept # <<>>
        BY <1>2, <1>4, <2>3, <3>2, <3>8
      <4> DEFINE t == Tail(kept)
      <4>2. t \in Seq(Nat \X Nat) /\ Len(t) = n /\ \A i \in 1..n : t[i] = kept[i + 1]
        <5>1. Len(kept) - 1 = n
          BY <1>4, <3>2
        <5> QED  BY <3>2, <4>1, <5>1, HeadTailProperties
      <4> HIDE DEF t
      <4>3. DOMAIN t = 1..n /\ \A i \in 1..n : i + 1 \in 1..(n + 1)
        BY <1>4, <4>2
      <4>4. \A i, j \in 1..n : t[i] = t[j] => i = j
        <5> SUFFICES ASSUME NEW i \in 1..n, NEW j \in 1..n, t[i] = t[j] PROVE i = j
          OBVIOUS
        <5> DEFINE k == i + 1
                   l == j + 1
        <5>1. k \in 1..(n + 1) /\ l \in 1..(n + 1) /\ kept[k] = kept[l]
          BY <4>2, <4>3
        <5> HIDE DEF k, l
        <5>2. k = l
          BY <3>6, <5>1
        <5> QED  BY <1>4, <5>2 DEF k, l
      <4>5. \A i \in 1..n : t[i][1] \in Live /\ t[i][2] \in Live
        BY <3>7, <4>2, <4>3
      <4>6. Built(t, Live)
        BY <1>4, <4>2, <4>3, <4>4, <4>5 DEF Built
      <4> QED  BY <4>1, <4>6 DEF t
    <3>9. CASE ~(Len(kept) > ComparisonCap)
      <4>1. comparisons' = kept /\ Len(kept) <= ComparisonCap
        BY <1>2, <1>4, <2>3, <3>2, <3>9
      <4>2. Built(kept, Live)
        BY <3>2, <3>3, <3>6, <3>7, <4>1 DEF Built
      <4> QED  BY <4>1, <4>2
    <3> QED  BY <3>8, <3>9
  <2> QED  BY <2>1, <2>2, <2>3
<1>8. Agrees(Cache')
  <2>1. Cache'.runs = byRunId /\ Cache'.keys = byCacheKey /\ Cache'.built = comparisons'
    BY <1>1 DEF Cache
  <2> QED  BY <1>3, <1>7, <2>1 DEF Agrees, Live
<1>9. KeysOf(parses)' = KeysOf(parses) /\ KeysOf(byRunId)' = KeysOf(byRunId)
  BY <1>1 DEF KeysOf
<1> QED  BY <1>1, <1>8, <1>9 DEF AgreeInv, DistinctKeys

LEMMA ReadSourceAgrees ==
  ASSUME AgreeInv, NEW i \in DOMAIN parses, ReadSource(i)
  PROVE  AgreeInv'
<1> USE AgreeTyped
<1>1. CacheInv' /\ UNCHANGED <<byRunId, byCacheKey, comparisons>>
  BY ReadSourceFact DEF ReadSource
<1>2. DOMAIN parses' = DOMAIN parses /\ \A j \in DOMAIN parses : parses'[j].key = parses[j].key
  BY DEF ReadSource, ParseRecords
<1>3. KeysOf(parses') = KeysOf(parses)
  BY <1>2 DEF KeysOf
<1>4. DistinctKeys(parses')
  BY <1>2 DEF DistinctKeys
<1>5. Cache' = Cache
  BY <1>1 DEF Cache
<1>6. KeysOf(parses)' = KeysOf(parses) /\ KeysOf(byRunId)' = KeysOf(byRunId)
  BY <1>1, <1>3
<1> QED  BY <1>1, <1>4, <1>5, <1>6 DEF AgreeInv, DistinctKeys

\* The steps that leave the caches and the parses alone.
LEMMA OtherAgrees ==
  ASSUME AgreeInv, CacheInv', UNCHANGED <<byRunId, byCacheKey, parses, comparisons>>
  PROVE  AgreeInv'
<1> USE AgreeTyped
<1>1. Cache' = Cache
  BY DEF Cache
<1>2. KeysOf(parses)' = KeysOf(parses) /\ KeysOf(byRunId)' = KeysOf(byRunId)
  OBVIOUS
<1> QED  BY <1>1, <1>2 DEF AgreeInv, DistinctKeys

LEMMA AgreeStep ==
  ASSUME AgreeInv, [CacheNext]_cacheVars
  PROVE  AgreeInv'
<1>1. CacheInv'
  BY AgreeTyped, CacheStep
<1>2. ASSUME NEW c \in Calls, Fail(c) PROVE AgreeInv'
  BY <1>1, <1>2, OtherAgrees DEF Fail
<1>3. ASSUME NEW s \in RunSources, Grow(s) PROVE AgreeInv'
  BY <1>1, <1>3, OtherAgrees DEF Grow
<1>4. CASE UNCHANGED cacheVars
  BY <1>1, <1>4, OtherAgrees DEF cacheVars
<1> QED  BY <1>2, <1>3, <1>4, CallAgrees, ReadSourceAgrees, EndParseAgrees, ReportAgrees,
            CompareAgrees DEF CacheNext

LEMMA AgreeInit ==
  ASSUME CacheInit
  PROVE  AgreeInv
<1>1. CacheInv
  BY CacheInitInv
<1>2. Cache = [runs |-> <<>>, keys |-> {}, built |-> <<>>] /\ ComparisonCap \in Nat
  BY CacheAssumption DEF CacheInit, Cache
<1>3. KeysOf(<<>>) = {} /\ Pairs(<<>>) = {} /\ Unique(<<>>) /\ DistinctKeys(<<>>)
  BY DEF KeysOf, Pairs, Unique, DistinctKeys
<1>4. Built(<<>>, Cached(<<>>))
  BY <1>2 DEF Built
<1> QED  BY <1>1, <1>2, <1>3, <1>4 DEF AgreeInv, Agrees, CacheInit

LEMMA AgreeFact ==
  ASSUME AgreeInv
  PROVE  CachesAgree
<1> USE AgreeTyped
<1>1. Unique(byRunId) /\ byCacheKey = Pairs(byRunId) /\ Built(comparisons, Cached(byRunId))
  BY DEF Agrees, Cache
<1>2. RunsReachable
  BY <1>1 DEF RunsReachable, Pairs
<1>3. IsInjective(comparisons)
  BY <1>1 DEF Built, IsInjective
<1>4. \A p \in ToSet(comparisons) : {p[1], p[2]} \subseteq Cached(byRunId)
  BY <1>1 DEF Built, ToSet
<1> QED  BY <1>1, <1>2, <1>3, <1>4 DEF CachesAgree, ComparisonsLive, Built

\* CachesAgree: no slot of the cache is held by a run that no key leads to, no
\* key outlives its run and no comparison either of its runs, whatever expires
\* between the lookups, the parses and the build (deleteRunEntry, cacheRun,
\* compareRuns), for any caps, sources and calls.
THEOREM CachesCorrect == CacheSpec => []CachesAgree
<1>1. CacheInit => AgreeInv
  BY AgreeInit
<1>2. AgreeInv /\ [CacheNext]_cacheVars => AgreeInv'
  BY AgreeStep
<1>3. AgreeInv => CachesAgree
  BY AgreeFact
<1> QED  BY <1>1, <1>2, <1>3, PTL DEF CacheSpec
=============================================================================
