------------------------------ MODULE RecentFiles ------------------------------
(***************************************************************************)
(* The list of recent files (packages/core/src/recent-files.ts): each call *)
(* is a chain of IndexedDB transactions, and calls of the dashboard, of    *)
(* the landing and of a parse that ends run side by side.  Transactions on *)
(* the one store run one at a time, in the order they were made; a step    *)
(* here is one of them.  Names, handles and counts of an entry drop out.   *)
(***************************************************************************)
EXTENDS Integers, FiniteSets

CONSTANTS Opened,   \* ids of the files the reader opens
          Cap,      \* CAP
          MaxCalls  \* bound: calls of add, touch and remove

ASSUME RecentAssumption == Cap \in Nat \ {0} /\ MaxCalls \in Nat

VARIABLES
  entries,    \* per id: lastOpenedAt, or 0 for none
  underWay,      \* the calls that wait between two of their transactions
  made,       \* calls so far
  lastTimestamp,
  writtenBack \* history: entries that a touch wrote back after they were deleted,
              \* and that no add has read since

recentVars == <<entries, underWay, made, lastTimestamp, writtenBack>>

Listed(list) == {f \in Opened : list[f] # 0}

RecentInit ==
  /\ entries \in {list \in [Opened -> 0..Cap] :
                    \A f, g \in Listed(list) : list[f] = list[g] => f = g}
  /\ underWay = {} /\ made = 0 /\ lastTimestamp = Cap
  /\ writtenBack = {}

Begun(call) == /\ made < MaxCalls
               /\ made' = made + 1
               /\ underWay' = underWay \cup {call}

Goes(call, next) == underWay' = (underWay \ {call}) \cup next

\* getNow, later than every time it gave.
Stamp(f) == /\ lastTimestamp' = lastTimestamp + 1
            /\ entries' = [entries EXCEPT ![f] = lastTimestamp']

\* add: the entry is written, the list read, and what is past the cap deleted
\* one by one, the oldest first.
AddPuts(f) ==
  /\ Stamp(f)
  /\ Begun([n |-> made + 1, op |-> "addRead"])
  /\ UNCHANGED writtenBack

Newer(f) == {g \in Listed(entries) : entries[g] > entries[f]}
OldestOne == IF Cardinality(Listed(entries)) <= Cap THEN {}
             ELSE {f \in Listed(entries) : Newer(f) = Listed(entries) \ {f}}
PastCap == {f \in Listed(entries) : Cardinality(Newer(f)) >= Cap}

AddReads(call) ==
  /\ call.op = "addRead"
  /\ LET evict == [f \in PastCap |-> entries[f]] IN
       Goes(call, IF PastCap = {} THEN {} ELSE {[n |-> call.n, op |-> "addDelete", evict |-> evict]})
  /\ writtenBack' = {}
  /\ UNCHANGED <<entries, made, lastTimestamp>>

AddDeletes(call) ==
  /\ call.op = "addDelete"
  /\ LET all == DOMAIN call.evict
         f == CHOOSE g \in all : \A h \in all : call.evict[g] <= call.evict[h]
         left == [g \in all \ {f} |-> call.evict[g]]
     IN  /\ entries' = [entries EXCEPT ![f] = 0]
         /\ writtenBack' = writtenBack \ {f}
         /\ Goes(call, IF all = {f} THEN {} ELSE {[call EXCEPT !.evict = left]})
  /\ UNCHANGED <<made, lastTimestamp>>

\* touch, unless the entry is gone.
TouchReads(f) ==
  /\ f \in Listed(entries)
  /\ Begun([n |-> made + 1, op |-> "touchPut", id |-> f])
  /\ UNCHANGED <<entries, lastTimestamp, writtenBack>>

TouchPuts(call) ==
  /\ call.op = "touchPut"
  /\ Stamp(call.id)
  /\ Goes(call, {})
  /\ writtenBack' = IF call.id \in Listed(entries) THEN writtenBack ELSE writtenBack \cup {call.id}
  /\ UNCHANGED made

RemoveEntry(f) ==
  /\ made < MaxCalls /\ made' = made + 1
  /\ entries' = [entries EXCEPT ![f] = 0] /\ writtenBack' = writtenBack \ {f}
  /\ UNCHANGED <<underWay, lastTimestamp>>

RecentNext ==
  \/ \E f \in Opened : AddPuts(f) \/ TouchReads(f) \/ RemoveEntry(f)
  \/ \E call \in underWay : AddReads(call) \/ AddDeletes(call) \/ TouchPuts(call)

RecentSpec == RecentInit /\ [][RecentNext]_recentVars

-----------------------------------------------------------------------------
(* Properties.                                                              *)

\* What the documentation says of the list: between calls it holds no more than
\* CAP entries.  A touch whose entry is evicted between its two transactions
\* writes it back, and no call looks at the cap again until the next add.
Capped == underWay = {} => Cardinality(Listed(entries)) <= Cap

\* What the code does keep: only the entries a touch wrote back after they were
\* deleted, and no add has read since, come on top of the CAP.  Adds that
\* overlap never leave one of their own too many, whichever of them deletes what
\* (add, touch and remove).
CappedButForTouches == underWay = {} => Cardinality(Listed(entries) \ writtenBack) <= Cap
=============================================================================
