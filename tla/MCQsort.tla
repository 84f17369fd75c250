-------------------------------- MODULE MCQsort --------------------------------
(***************************************************************************)
(* Qsort on every order of a few nodes, two and three of them as large as  *)
(* each other; and on tables as long as the SAGA's lists, made from a      *)
(* sorted one by turning it round, cutting it and exchanging two nodes.    *)
(***************************************************************************)
EXTENDS Qsort, SequencesExt

MCSize == <<1, 2, 2, 4, 4, 4>> \o [k \in 1 .. 10 |-> k + 6]

ShortTables == UNION {SetToSeqs(1 .. n) : n \in 1 .. 7}

Cut(t, n) == SubSeq(t, n, Len(t)) \o SubSeq(t, 1, n - 1)

LongTables ==
    LET up == [i \in 1 .. 16 |-> i]
        cut == {Cut(t, n) : t \in {up, Reverse(up)}, n \in 1 .. 16}
    IN  {[t EXCEPT ![i] = t[j], ![j] = t[i]] :
            t \in cut, i \in {1, 4, 8, 13}, j \in 1 .. 16}

MCTables == ShortTables \union LongTables
================================================================================
