---------------------------- MODULE MCRunAlignment ----------------------------
(***************************************************************************)
(* TLC instances of RunAlignment: small tables, and runs of up to three    *)
(* stages in up to two executions or in none.                              *)
(***************************************************************************)
EXTENDS RunAlignment

Kind(exact, structural) ==
  [exact |-> exact, structural |-> structural, name |-> "n1", site |-> exact, bookkeeping |-> FALSE]

\* Two kinds of one structural key, one of another with similar details, and
\* two without a plan.
KA == Kind("e1", "s1")
KB == Kind("e2", "s1")
KC == Kind("e3", "s2")
KN == Kind("e4", NoKey)
KM == Kind("e5", NoKey)
KBook == [KC EXCEPT !.exact = "e6", !.bookkeeping = TRUE]
StageKinds == {KA, KB, KC, KN, KM, KBook}
Planned == {KA, KB, KC}
Alike == [k \in StageKinds |-> [l \in StageKinds |->
            IF k = l THEN 10 ELSE IF {k, l} \subseteq Planned THEN 7 ELSE 0]]

RunOfKinds(ks, es) == [i \in DOMAIN es |-> [kind |-> ks[i], execution |-> es[i]]]
RunsOf(x, y) ==
  {RunOfKinds(<<k>>, e) : k \in {KA, KN, KBook}, e \in {<<x>>, <<NoExecution>>}}
  \cup {RunOfKinds(<<k, l>>, e) : k \in {KA, KN, KB}, l \in {KA, KC, KM},
          e \in {<<x, x>>, <<x, y>>, <<NoExecution, NoExecution>>, <<NoExecution, x>>}}
  \cup {RunOfKinds(<<k, l, m>>, <<x, x, x>>) : k \in {KA, KB}, l \in {KA, KC, KN}, m \in {KB, KC}}
  \cup {RunOfKinds(<<k, KB, l>>, <<x, x, y>>) : k \in {KA, KM}, l \in {KA, KC, KBook}}
OddRuns == RunsOf(1, 3)
AllRuns == RunsOf(1, 3) \cup RunsOf(2, 4)   \* executions with the same ids, and with others

\* The first n of the ids are those of the first sequence.
Scores(n, m, S) == [1..n -> [1..m -> S]]
TableOf(ids, n, s) == [idA |-> SubSeq(ids, 1, n), idB |-> SubSeq(ids, n + 1, Len(ids)), score |-> s]

NoTable == [idA |-> <<>>, idB |-> <<>>, score |-> <<>>]
SomeTables ==
  {NoTable}
  \cup {TableOf(ids, 2, s) : ids \in {<<1, 2, 1, 2>>, <<1, 3, 2, 4>>, <<2, 3, 1, 4>>, <<3, 4, 1, 2>>},
                              s \in Scores(2, 2, {0, 5, 6, 7})}
  \cup {TableOf(ids, 2, s) : ids \in {<<1, 2, 3, 4, 5>>, <<2, 4, 1, 3, 5>>, <<1, 5, 2, 3, 4>>},
                              s \in Scores(2, 3, {0, 5, 7})}
  \cup {TableOf(<<2, 4, 6, 1, 3>>, 3, s) : s \in Scores(3, 2, {0, 5, 7})}
  \cup {TableOf(<<1, 2, 3, 4, 5, 6>>, 3, s) : s \in Scores(3, 3, {0, 5})}
  \cup {TableOf(<<1, 2, 3, 4, 5, 6>>, 2, s) : s \in Scores(2, 4, {0, 7})}
=============================================================================
