--------------------------------- MODULE Qsort ---------------------------------
(***************************************************************************)
(* The C library's qsort (ext/libcmini/sources/qsort.c) as sort_restab     *)
(* calls it, on a table of distinct nodes: a quicksort with a stack of its *)
(* own that leaves short runs to an insertion sort.  Its inner loops have  *)
(* no bounds; only what the table holds stops them.                        *)
(***************************************************************************)
EXTENDS ResOrder, FiniteSets

CONSTANTS
    Tables,       \* the tables it may be called with
    MAX_THRESH    \* runs of this many steps are left to the insertion sort

ASSUME QsortAssumption ==
    /\ MAX_THRESH \in Nat \ {0}
    /\ \A t \in Tables : t \in Seq(DOMAIN Size)
    /\ \A t \in Tables : \A i, j \in DOMAIN t : t[i] = t[j] => i = j
    /\ Size \in [DOMAIN Size -> Int]

VARIABLES
    pc,
    base,             \* the table as it was given
    a,                \* the table
    lo, hi,           \* the part that is being divided
    left, right,      \* the pointers that walk towards each other
    pivot,            \* the node in pivot_buffer
    stack,            \* parts that wait, as pairs of lo and hi
    run, tmp          \* run_ptr and tmp_ptr

vars == <<pc, base, a, lo, hi, left, right, pivot, stack, run, tmp>>
part == <<lo, hi, left, right, pivot, stack>>

nel == Len(base)
SwapLosing(t, i, j) == [t EXCEPT ![i] = t[j]]                    \* mutant

Swap(t, i, j) == [t EXCEPT ![i] = t[j], ![j] = t[i]]

Init ==
    /\ base \in Tables
    /\ a = base
    /\ pc = IF nel = 0 THEN "done" ELSE IF nel > MAX_THRESH THEN "median" ELSE "first"
    /\ lo = 1 /\ hi = nel
    /\ left = 0 /\ right = 0 /\ pivot = 0
    /\ stack = <<>>
    /\ run = 2 /\ tmp = 1

(***************************************************************************)
(* The quicksort                                                           *)
(***************************************************************************)
(* mutant: the last element is not looked at *)
MedianOfTwo(t, mid) ==
    IF cmp_res(t[mid], t[lo]) THEN Swap(t, mid, lo) ELSE t

(* first, middle and last element in order *)
MedianOfThree(t, mid) ==
    LET t1 == IF cmp_res(t[mid], t[lo]) THEN Swap(t, mid, lo) ELSE t
        t2 == Swap(t1, mid, hi)
    IN  IF ~cmp_res(t1[hi], t1[mid]) THEN t1
        ELSE IF cmp_res(t2[mid], t2[lo]) THEN Swap(t2, mid, lo) ELSE t2

Median ==
    /\ pc = "median"
    /\ LET mid == lo + (hi - lo) \div 2
       IN  /\ a' = MedianOfThree(a, mid)
           /\ pivot' = a'[mid]
    /\ left' = lo + 1
    /\ right' = hi - 1
    /\ pc' = "left"
    /\ UNCHANGED <<base, lo, hi, stack, run, tmp>>

(* one round of each of the two inner loops *)
ScanLeft ==
    /\ pc = "left"
    /\ IF cmp_res(a[left], pivot) THEN left' = left + 1 /\ UNCHANGED pc
       ELSE pc' = "right" /\ UNCHANGED left
    /\ UNCHANGED <<base, a, lo, hi, right, pivot, stack, run, tmp>>

ScanRight ==
    /\ pc = "right"
    /\ IF cmp_res(pivot, a[right]) THEN right' = right - 1 /\ UNCHANGED pc
       ELSE pc' = "exchange" /\ UNCHANGED right
    /\ UNCHANGED <<base, a, lo, hi, left, pivot, stack, run, tmp>>

MetNever == FALSE                                                \* mutant

Met == left = right

Exchange ==
    /\ pc = "exchange"
    /\ a' = IF left < right THEN Swap(a, left, right) ELSE a
    /\ left' = IF left < right \/ Met THEN left + 1 ELSE left
    /\ right' = IF left < right \/ Met THEN right - 1 ELSE right
    /\ pc' = IF left' <= right' /\ ~Met THEN "left" ELSE "split"
    /\ UNCHANGED <<base, lo, hi, pivot, stack, run, tmp>>

Short(from, to) == to - from <= MAX_THRESH

RightIsShorterNot == right - lo < hi - left                      \* mutant

RightIsShorter == right - lo > hi - left

(* go on with a part that is not short, the smaller one if there are two *)
Split ==
    /\ pc = "split"
    /\ IF Short(lo, right) /\ Short(left, hi)
       THEN IF stack = <<>> THEN pc' = "first" /\ UNCHANGED <<lo, hi, stack>>
            ELSE /\ lo' = Head(stack)[1] /\ hi' = Head(stack)[2]
                 /\ stack' = Tail(stack)
                 /\ pc' = "median"
       ELSE /\ pc' = "median"
            /\ IF Short(lo, right) THEN lo' = left /\ UNCHANGED <<hi, stack>>
               ELSE IF Short(left, hi) THEN hi' = right /\ UNCHANGED <<lo, stack>>
               ELSE IF RightIsShorter
               THEN lo' = left /\ stack' = <<<<lo, right>>>> \o stack /\ UNCHANGED hi
               ELSE hi' = right /\ stack' = <<<<left, hi>>>> \o stack /\ UNCHANGED lo
    /\ UNCHANGED <<base, a, left, right, pivot, run, tmp>>

(***************************************************************************)
(* The insertion sort                                                      *)
(***************************************************************************)
(* the smallest element is not behind this place *)
Thresh == IF nel < MAX_THRESH + 1 THEN nel ELSE MAX_THRESH + 1

FindFirst ==
    /\ pc = "first"
    /\ IF run <= Thresh
       THEN /\ tmp' = IF cmp_res(a[run], a[tmp]) THEN run ELSE tmp
            /\ run' = run + 1
            /\ UNCHANGED <<pc, a>>
       ELSE /\ a' = Swap(a, 1, tmp)
            /\ run' = 3 /\ tmp' = 2
            /\ pc' = IF run' <= nel THEN "insert" ELSE "done"
    /\ UNCHANGED <<base, part>>

InsertSwapping(t, i, j) == Swap(t, i, j)                         \* mutant

(* a[i] moves to place j, the elements from there on one up *)
Insert(t, i, j) ==
    [k \in DOMAIN t |-> IF k = j THEN t[i]
                        ELSE IF j < k /\ k <= i THEN t[k - 1] ELSE t[k]]

Insertion ==
    /\ pc = "insert"
    /\ IF cmp_res(a[run], a[tmp]) THEN tmp' = tmp - 1 /\ UNCHANGED <<pc, a, run>>
       ELSE /\ a' = Insert(a, run, tmp + 1)
            /\ run' = run + 1 /\ tmp' = run
            /\ pc' = IF run' <= nel THEN "insert" ELSE "done"
    /\ UNCHANGED <<base, part>>

Next ==
    \/ Median \/ ScanLeft \/ ScanRight \/ Exchange \/ Split
    \/ FindFirst \/ Insertion

Spec == Init /\ [][Next]_vars

FairSpec == Spec /\ WF_vars(Next)

--------------------------------------------------------------------------------
(* Whatever is compared is in the table: the loops without bounds end at an
   element that stops them, although cmp_res never says that two are equal.  No
   length that is compared as an unsigned number is below zero. *)
InBounds ==
    /\ pc = "median" => 1 <= lo /\ lo < hi /\ hi <= nel
    /\ pc = "left" => left \in 1 .. nel
    /\ pc = "right" => right \in 1 .. nel
    /\ pc = "exchange" => left \in 1 .. nel /\ right \in 1 .. nel
    /\ pc = "split" => lo <= right /\ left <= hi
    /\ pc = "first" => tmp \in 1 .. nel
    /\ pc = "insert" => tmp \in 1 .. nel /\ run \in 1 .. nel

(* No node is lost or there twice, at any time: the pivot is a copy. *)
KeepsNodes ==
    /\ DOMAIN a = DOMAIN base
    /\ \A i, j \in DOMAIN a : a[i] = a[j] => i = j
    /\ \A i \in DOMAIN base : \E j \in DOMAIN a : a[j] = base[i]

(* The longer part waits and the other one goes first: the part that is divided
   halves with each entry of the stack, which has 32. *)
StackHalves == pc = "median" => (hi - lo + 1) * 2 ^ Len(stack) <= nel

(* What the dialog relies on: the result is in order, and the first node moves
   only for one that goes before it. *)
Sorts == pc = "done" => a \in qsort(base)

Terminates == <>(pc = "done")
================================================================================
