------------------------------ MODULE QsortProofs ------------------------------
(***************************************************************************)
(* The library's qsort, for every table, every order of its nodes and every*)
(* threshold: it never leaves the table and never loses a node, although   *)
(* its inner loops have no bounds and cmp_res never says that two are      *)
(* equal; it returns the nodes in order; and its stack has room.           *)
(***************************************************************************)
EXTENDS Qsort, FiniteSetTheorems, WellFoundedInduction, TLAPS

Nodes == DOMAIN Size

(* no node of the table b goes before m *)
Greatest(b, m) == \A j \in 1 .. Len(b) : Size[b[j]] <= Size[m]

(* such a node is among the first r *)
HasFirst(b, t, r) == \E k \in 1 .. r : Greatest(b, t[k])

(* t holds the nodes of b *)
Perm(b, t) ==
    /\ t \in [1 .. Len(b) -> Nodes]
    /\ \A i, j \in 1 .. Len(b) : t[i] = t[j] => i = j
    /\ \A i \in 1 .. Len(b) : \E j \in 1 .. Len(b) : t[j] = b[i]
    /\ \A i \in 1 .. Len(b) : \E j \in 1 .. Len(b) : t[i] = b[j]

Dividing == pc \in {"median", "left", "right", "exchange", "split"}
Walking == pc \in {"left", "right", "exchange", "split"}

Parts ==
    /\ stack \in Seq((1 .. nel) \X (1 .. nel))
    /\ \A i \in DOMAIN stack : stack[i][1] < stack[i][2]
    /\ Dividing => lo \in 1 .. nel /\ hi \in 1 .. nel /\ lo < hi
    /\ Dividing => run = 2 /\ tmp = 1

(* the ends of the part stop the pointers, and are never exchanged; what is
   right of the right pointer does not go before the pivot *)
Walls ==
    Walking =>
        /\ pivot \in Nodes
        /\ left \in lo + 1 .. hi
        /\ right \in lo .. hi - 1
        /\ Size[pivot] <= Size[a[lo]]
        /\ \A k \in right + 1 .. hi : Size[a[k]] <= Size[pivot]
        /\ pc \in {"right", "exchange"} => Size[a[left]] <= Size[pivot]
        /\ pc = "exchange" => Size[pivot] <= Size[a[right]]
        /\ pc = "split" => right < left

(* The first r places are one part, being divided or waiting, or too short to be
   divided; the other parts lie behind them. *)
Leftmost(r) ==
    \/ lo = 1 /\ hi = r /\ \A j \in DOMAIN stack : r < stack[j][1]
    \/ /\ r < lo
       /\ \E i \in DOMAIN stack :
             /\ stack[i] = <<1, r>>
             /\ \A j \in DOMAIN stack : j # i => r < stack[j][1]
    \/ r <= Thresh /\ r < lo /\ \A j \in DOMAIN stack : r < stack[j][1]

First == Dividing => \E r \in 1 .. nel : HasFirst(base, a, r) /\ Leftmost(r)

Finding ==
    pc = "first" =>
        /\ nel >= 1
        /\ HasFirst(base, a, Thresh)
        /\ run \in 2 .. Thresh + 1
        /\ tmp \in 1 .. run - 1
        /\ \A k \in 1 .. run - 1 : Size[a[k]] <= Size[a[tmp]]

Inserting ==
    pc = "insert" =>
        /\ run \in 3 .. nel
        /\ tmp \in 1 .. run - 1
        /\ Greatest(base, a[1])

IInv ==
    /\ base \in Tables
    /\ pc \in {"median", "left", "right", "exchange", "split", "first", "insert",
               "done"}
    /\ Perm(base, a)
    /\ Parts
    /\ Walls
    /\ First
    /\ Finding
    /\ Inserting

--------------------------------------------------------------------------------
(***************************************************************************)
(* The table                                                               *)
(***************************************************************************)
(* A table of the assumption holds nodes, each once, and sizes are numbers. *)
LEMMA TableFacts ==
    ASSUME NEW b \in Tables
    PROVE  /\ Len(b) \in Nat
           /\ b \in [1 .. Len(b) -> Nodes]
           /\ \A i, j \in 1 .. Len(b) : b[i] = b[j] => i = j
           /\ \A m \in Nodes : Size[m] \in Int
           /\ Perm(b, b)
<1>1. b \in Seq(Nodes)
  BY QsortAssumption DEF Nodes
<1>2. Len(b) \in Nat /\ DOMAIN b = 1 .. Len(b) /\ b \in [1 .. Len(b) -> Nodes]
  BY <1>1
<1>3. \A i, j \in 1 .. Len(b) : b[i] = b[j] => i = j
  BY <1>2, QsortAssumption
<1>4. \A m \in Nodes : Size[m] \in Int
  BY QsortAssumption DEF Nodes
<1>5. Perm(b, b)
  BY <1>2, <1>3 DEF Perm
<1> QED
  BY <1>2, <1>3, <1>4, <1>5

LEMMA ThreshFacts ==
    ASSUME base \in Tables
    PROVE  /\ Thresh \in Nat /\ Thresh <= nel
           /\ nel >= 1 => Thresh >= 1
           /\ \A r \in 1 .. nel : r <= MAX_THRESH + 1 => r <= Thresh
           /\ nel <= MAX_THRESH => Thresh = nel
BY TableFacts, QsortAssumption DEF Thresh, nel

(* Some node is among the largest: the one with the fewest larger than it. *)
LEMMA GreatestExists ==
    ASSUME NEW b \in Tables, Len(b) >= 1
    PROVE  HasFirst(b, b, Len(b))
<1> DEFINE Larger(k) == {j \in 1 .. Len(b) : Size[b[k]] < Size[b[j]]}
           Counts == {Cardinality(Larger(k)) : k \in 1 .. Len(b)}
<1>1. \A k \in 1 .. Len(b) : Size[b[k]] \in Int
  BY TableFacts
<1>2. \A k \in 1 .. Len(b) : IsFiniteSet(Larger(k)) /\ Cardinality(Larger(k)) \in Nat
  <2> TAKE k \in 1 .. Len(b)
  <2>1. IsFiniteSet(1 .. Len(b))
    BY TableFacts, FS_Interval
  <2>2. IsFiniteSet(Larger(k))
    BY <2>1, FS_Subset
  <2> QED
    BY <2>2, FS_CardinalityType
<1>3. Counts \subseteq Nat /\ Counts # {}
  <2>1. 1 \in 1 .. Len(b)
    BY TableFacts
  <2> QED
    BY <1>2, <2>1
<1>4. \E c \in Counts : \A d \in Counts : <<d, c>> \notin OpToRel(<, Nat)
  BY <1>3, NatLessThanWellFounded, WFMin
<1>5. PICK k \in 1 .. Len(b) :
          \A i \in 1 .. Len(b) : ~(Cardinality(Larger(i)) < Cardinality(Larger(k)))
  BY <1>2, <1>4 DEF OpToRel
<1>6. ASSUME NEW j \in 1 .. Len(b) PROVE Size[b[j]] <= Size[b[k]]
  <2>1. SUFFICES ASSUME Size[b[k]] < Size[b[j]] PROVE FALSE
    BY <1>1
  <2>2. Larger(j) \subseteq Larger(k) /\ j \in Larger(k) /\ j \notin Larger(j)
    BY <1>1, <2>1
  <2>3. Cardinality(Larger(j)) <= Cardinality(Larger(k))
    BY <1>2, <2>2, FS_Subset
  <2>4. Cardinality(Larger(j)) # Cardinality(Larger(k))
    BY <1>2, <2>2, FS_Subset
  <2>5. Cardinality(Larger(j)) \in Nat /\ Cardinality(Larger(k)) \in Nat
    BY <1>2
  <2>6. ~(Cardinality(Larger(j)) < Cardinality(Larger(k)))
    BY <1>5
  <2> HIDE DEF Larger
  <2> QED
    BY <2>3, <2>4, <2>5, <2>6
<1> QED
  BY <1>6, TableFacts DEF HasFirst, Greatest

--------------------------------------------------------------------------------
(***************************************************************************)
(* Moving nodes about                                                      *)
(***************************************************************************)
(* q takes every place back where p found it *)
Undoes(b, q, p) ==
    /\ p \in [1 .. Len(b) -> 1 .. Len(b)] /\ q \in [1 .. Len(b) -> 1 .. Len(b)]
    /\ \A k \in 1 .. Len(b) : p[q[k]] = k /\ q[p[k]] = k

(* u is t with the node of place p[k] at place k *)
Moved(b, t, u, p) ==
    /\ DOMAIN u = 1 .. Len(b)
    /\ u = [k \in DOMAIN u |-> u[k]]
    /\ \A k \in 1 .. Len(b) : u[k] = t[p[k]]

(* What is moved along a bijection keeps its nodes. *)
LEMMA MovedPerm ==
    ASSUME NEW b \in Tables, NEW t, Perm(b, t), NEW p, NEW q, Undoes(b, q, p),
           NEW u, Moved(b, t, u, p)
    PROVE  Perm(b, u)
<1>0. \A k \in 1 .. Len(b) : /\ p[k] \in 1 .. Len(b) /\ q[k] \in 1 .. Len(b)
                          /\ p[q[k]] = k /\ q[p[k]] = k /\ u[k] = t[p[k]]
  BY DEF Undoes, Moved
<1>1. u \in [1 .. Len(b) -> Nodes]
  <2>1. \A k \in 1 .. Len(b) : t[k] \in Nodes
    BY DEF Perm
  <2>2. \A k \in 1 .. Len(b) : u[k] \in Nodes
    BY <1>0, <2>1
  <2> QED
    BY <2>2 DEF Moved
<1>2. ASSUME NEW k \in 1 .. Len(b), NEW l \in 1 .. Len(b), u[k] = u[l] PROVE k = l
  <2>1. p[k] \in 1 .. Len(b) /\ p[l] \in 1 .. Len(b) /\ t[p[k]] = t[p[l]]
    BY <1>0, <1>2
  <2>2. p[k] = p[l]
    BY <2>1 DEF Perm
  <2> QED
    BY <1>0, <2>2
<1>3. ASSUME NEW k \in 1 .. Len(b) PROVE \E l \in 1 .. Len(b) : u[l] = b[k]
  <2>1. PICK l \in 1 .. Len(b) : t[l] = b[k]
    BY DEF Perm
  <2>2. q[l] \in 1 .. Len(b) /\ u[q[l]] = t[l]
    BY <1>0
  <2> QED
    BY <2>1, <2>2
<1>4. ASSUME NEW k \in 1 .. Len(b) PROVE \E l \in 1 .. Len(b) : u[k] = b[l]
  <2>1. p[k] \in 1 .. Len(b) /\ u[k] = t[p[k]]
    BY <1>0
  <2>2. PICK l \in 1 .. Len(b) : t[p[k]] = b[l]
    BY <2>1 DEF Perm
  <2> QED
    BY <2>1, <2>2
<1> QED
  BY <1>1, <1>2, <1>3, <1>4 DEF Perm

LEMMA SwapAt ==
    ASSUME NEW b \in Tables, NEW t, Perm(b, t), NEW i \in 1 .. Len(b), NEW j \in 1 .. Len(b)
    PROVE  /\ \A k \in 1 .. Len(b) :
                 Swap(t, i, j)[k] = IF k = i THEN t[j] ELSE IF k = j THEN t[i]
                                    ELSE t[k]
           /\ Perm(b, Swap(t, i, j))
<1> DEFINE p == [k \in 1 .. Len(b) |-> IF k = i THEN j ELSE IF k = j THEN i ELSE k]
           u == Swap(t, i, j)
<1>1. Undoes(b, p, p)
  BY DEF Undoes
<1>2. Moved(b, t, u, p)
  BY DEF Swap, Perm, Moved
<1>3. \A k \in 1 .. Len(b) : u[k] = IF k = i THEN t[j] ELSE IF k = j THEN t[i] ELSE t[k]
  BY DEF Swap, Perm
<1>4. Perm(b, u)
  <2> HIDE DEF p, u
  <2> QED
    BY <1>1, <1>2, MovedPerm
<1> QED
  BY <1>3, <1>4

(* An exchange within the first r places, or behind them, leaves their first
   node among them. *)
LEMMA SwapFirst ==
    ASSUME NEW b \in Tables, NEW t, Perm(b, t), NEW i \in 1 .. Len(b), NEW j \in 1 .. Len(b),
           NEW r \in 1 .. Len(b), HasFirst(b, t, r), i <= r <=> j <= r
    PROVE  HasFirst(b, Swap(t, i, j), r)
<1>1. PICK k \in 1 .. r : Greatest(b, t[k])
  BY DEF HasFirst
<1>2. Len(b) \in Nat /\ k \in 1 .. Len(b)
  BY TableFacts
<1> DEFINE u == Swap(t, i, j)
           l == IF k = i THEN j ELSE IF k = j THEN i ELSE k
<1>3. \A m \in 1 .. Len(b) : u[m] = IF m = i THEN t[j] ELSE IF m = j THEN t[i] ELSE t[m]
  BY SwapAt
<1>4. l \in 1 .. r /\ l \in 1 .. Len(b)
  BY <1>2
<1>5. u[l] = t[k]
  <2> HIDE DEF u
  <2> QED
    BY <1>2, <1>3, <1>4
<1> QED
  BY <1>1, <1>4, <1>5 DEF HasFirst

LEMMA InsertPerm ==
    ASSUME NEW b \in Tables, NEW t, Perm(b, t),
           NEW i \in 1 .. Len(b), NEW j \in 1 .. Len(b), j <= i
    PROVE  /\ Perm(b, Insert(t, i, j))
           /\ j > 1 => Insert(t, i, j)[1] = t[1]
<1>0. Len(b) \in Nat /\ DOMAIN t = 1 .. Len(b)
  BY TableFacts DEF Perm
<1> DEFINE p == [k \in 1 .. Len(b) |-> IF k = j THEN i
                                   ELSE IF j < k /\ k <= i THEN k - 1 ELSE k]
           q == [k \in 1 .. Len(b) |-> IF k = i THEN j
                                   ELSE IF j <= k /\ k < i THEN k + 1 ELSE k]
           u == Insert(t, i, j)
<1>1. Undoes(b, q, p)
  BY <1>0 DEF Undoes
<1>2. u = [k \in 1 .. Len(b) |-> t[p[k]]]
  BY <1>0 DEF Insert
<1>3. Moved(b, t, u, p)
  <2> HIDE DEF p, u
  <2> QED
    BY <1>2 DEF Moved
<1>4. Perm(b, u)
  <2> HIDE DEF p, q, u
  <2> QED
    BY <1>1, <1>3, MovedPerm
<1>5. j > 1 => u[1] = t[1]
  BY <1>0, <1>2
<1> QED
  BY <1>4, <1>5

LEMMA InTable ==
    ASSUME NEW b \in Tables, NEW t, Perm(b, t)
    PROVE  /\ Len(b) \in Nat
           /\ DOMAIN t = 1 .. Len(b)
           /\ \A k \in 1 .. Len(b) : t[k] \in Nodes /\ Size[t[k]] \in Int
BY TableFacts DEF Perm

LEMMA GreatestOver ==
    ASSUME NEW b \in Tables, NEW t, Perm(b, t), NEW m, Greatest(b, m),
           NEW k \in 1 .. Len(b)
    PROVE  Size[t[k]] <= Size[m]
<1>1. PICK l \in 1 .. Len(b) : t[k] = b[l]
  BY DEF Perm
<1> QED
  BY <1>1 DEF Greatest

LEMMA GreatestUp ==
    ASSUME NEW b \in Tables, NEW m \in Nodes, NEW x \in Nodes,
           Greatest(b, m), Size[m] <= Size[x]
    PROVE  Greatest(b, x)
<1>1. ASSUME NEW j \in 1 .. Len(b) PROVE Size[b[j]] <= Size[x]
  <2>1. Size[b[j]] \in Int /\ Size[m] \in Int /\ Size[x] \in Int
    BY TableFacts
  <2>2. Size[b[j]] <= Size[m]
    BY DEF Greatest
  <2> QED
    BY <2>1, <2>2
<1> QED
  BY <1>1 DEF Greatest

LEMMA MedianFacts ==
    ASSUME NEW b \in Tables, NEW t, Perm(b, t),
           lo \in 1 .. Len(b), hi \in 1 .. Len(b), lo < hi,
           NEW mid \in lo .. hi - 1, NEW v, v = MedianOfThree(t, mid)
    PROVE  /\ Perm(b, v)
           /\ \A r \in 1 .. Len(b) :
                 HasFirst(b, t, r) /\ (hi <= r \/ r < lo) => HasFirst(b, v, r)
           /\ Size[v[mid]] <= Size[v[lo]]
           /\ Size[v[hi]] <= Size[v[mid]]
<1> DEFINE t1 == IF cmp_res(t[mid], t[lo]) THEN Swap(t, mid, lo) ELSE t
           t2 == Swap(t1, mid, hi)
           t3 == Swap(t2, mid, lo)
           Kept(w) == /\ Perm(b, w)
                      /\ \A r \in 1 .. Len(b) :
                            HasFirst(b, t, r) /\ (hi <= r \/ r < lo) => HasFirst(b, w, r)
<1>0. Len(b) \in Nat /\ mid \in 1 .. Len(b) /\ mid <= hi
  BY TableFacts
<1>1. ASSUME NEW w, Kept(w), NEW i \in lo .. hi
      PROVE  Kept(Swap(w, mid, i))
  <2>1. i \in 1 .. Len(b)
    BY <1>0
  <2>2. Perm(b, Swap(w, mid, i))
    BY <1>0, <1>1, <2>1, SwapAt
  <2>3. ASSUME NEW r \in 1 .. Len(b), HasFirst(b, t, r), hi <= r \/ r < lo
        PROVE  HasFirst(b, Swap(w, mid, i), r)
    <3>1. HasFirst(b, w, r)
      BY <1>1, <2>3
    <3>2. mid <= r <=> i <= r
      BY <1>0, <2>3
    <3> QED
      BY <1>0, <1>1, <2>1, <3>1, <3>2, SwapFirst
  <2> QED
    BY <2>2, <2>3
<1>2. Kept(t)
  OBVIOUS
<1>3. Kept(t1)
  BY <1>1, <1>2
<1>4. Kept(t2)
  BY <1>1, <1>3
<1>5. Kept(t3)
  BY <1>1, <1>4
<1>6. Size[t1[mid]] <= Size[t1[lo]]
  <2>1. Size[t[mid]] \in Int /\ Size[t[lo]] \in Int
    BY <1>0, InTable
  <2>2. CASE cmp_res(t[mid], t[lo])
    <3>1. t1[mid] = t[lo] /\ t1[lo] = t[mid]
      BY <1>0, <2>2, SwapAt
    <3> QED
      BY <2>1, <2>2, <3>1 DEF cmp_res
  <2>3. CASE ~cmp_res(t[mid], t[lo])
    BY <2>1, <2>3 DEF cmp_res
  <2> QED
    BY <2>2, <2>3
<1>7. /\ Size[t1[lo]] \in Int /\ Size[t1[mid]] \in Int /\ Size[t1[hi]] \in Int
      /\ t2[mid] = t1[hi] /\ t2[hi] = t1[mid]
      /\ t2[lo] = IF lo = mid THEN t1[hi] ELSE t1[lo]
  <2> HIDE DEF t1
  <2> QED
    BY <1>0, <1>3, InTable, SwapAt
<1>8. t3[mid] = t2[lo] /\ t3[lo] = t2[mid] /\ t3[hi] = t2[hi]
  <2> HIDE DEF t2
  <2> QED
    BY <1>0, <1>4, SwapAt
<1>9. v = IF ~cmp_res(t1[hi], t1[mid]) THEN t1
          ELSE IF cmp_res(t2[mid], t2[lo]) THEN t3 ELSE t2
  BY DEF MedianOfThree
<1> HIDE DEF t1, t2, t3
<1>10. CASE ~cmp_res(t1[hi], t1[mid])
  BY <1>3, <1>6, <1>7, <1>9, <1>10 DEF cmp_res
<1>11. CASE cmp_res(t1[hi], t1[mid]) /\ cmp_res(t2[mid], t2[lo])
  BY <1>5, <1>6, <1>7, <1>8, <1>9, <1>11 DEF cmp_res
<1>12. CASE cmp_res(t1[hi], t1[mid]) /\ ~cmp_res(t2[mid], t2[lo])
  BY <1>4, <1>6, <1>7, <1>9, <1>12 DEF cmp_res
<1> QED
  BY <1>10, <1>11, <1>12

--------------------------------------------------------------------------------
(***************************************************************************)
(* The first state                                                         *)
(***************************************************************************)
LEMMA InitInv == Init => IInv
<1> SUFFICES ASSUME Init PROVE IInv
  OBVIOUS
<1> USE DEF Init
<1>1. base \in Tables /\ a = base /\ stack = <<>> /\ lo = 1 /\ hi = nel
      /\ run = 2 /\ tmp = 1
      /\ pc = IF nel = 0 THEN "done" ELSE IF nel > MAX_THRESH THEN "median" ELSE "first"
  OBVIOUS
<1> HIDE DEF Init
<1>2. nel \in Nat /\ nel = Len(base)
  BY <1>1, TableFacts DEF nel
<1>3. MAX_THRESH \in Nat /\ MAX_THRESH >= 1
  BY QsortAssumption
<1>4. Perm(base, a)
  BY <1>1, TableFacts
<1>5. Parts
  BY <1>1, <1>2, <1>3 DEF Parts, Dividing
<1>6. Walls
  BY <1>1 DEF Walls, Walking
<1>7. nel >= 1 => HasFirst(base, a, nel)
  BY <1>1, <1>2, GreatestExists
<1>8. First
  <2> SUFFICES ASSUME Dividing PROVE \E r \in 1 .. nel : HasFirst(base, a, r) /\ Leftmost(r)
    BY DEF First
  <2>1. nel >= 1 /\ nel \in 1 .. nel
    BY <1>1, <1>2, <1>3 DEF Dividing
  <2>2. Leftmost(nel)
    BY <1>1 DEF Leftmost
  <2> QED
    BY <1>7, <2>1, <2>2
<1>9. Finding
  <2> SUFFICES ASSUME pc = "first" PROVE Finding
    BY DEF Finding
  <2>1. nel >= 1 /\ Thresh = nel
    BY <1>1, <1>2, <1>3, ThreshFacts
  <2>2. Size[a[1]] <= Size[a[1]]
    BY <1>2, <1>1, <1>4, <2>1, InTable
  <2> QED
    BY <1>1, <1>2, <1>7, <2>1, <2>2 DEF Finding
<1>10. Inserting
  BY <1>1 DEF Inserting
<1> QED
  BY <1>1, <1>4, <1>5, <1>6, <1>8, <1>9, <1>10 DEF IInv

--------------------------------------------------------------------------------
(***************************************************************************)
(* The quicksort                                                           *)
(***************************************************************************)
(* What every step starts from. *)
LEMMA Typed ==
    ASSUME IInv
    PROVE  /\ base \in Tables /\ nel = Len(base) /\ nel \in Nat /\ Perm(base, a)
           /\ MAX_THRESH \in Nat /\ MAX_THRESH >= 1
           /\ \A k \in 1 .. nel : a[k] \in Nodes /\ Size[a[k]] \in Int
           /\ Walking => Size[pivot] \in Int
BY TableFacts, InTable, QsortAssumption DEF IInv, nel, Walls

LEMMA MedianInv == IInv /\ Median => IInv'
<1> SUFFICES ASSUME IInv, Median PROVE IInv'
  OBVIOUS
<1> DEFINE mid == lo + (hi - lo) \div 2
<1>1. /\ pc = "median" /\ pc' = "left" /\ a' = MedianOfThree(a, mid) /\ pivot' = a'[mid]
      /\ left' = lo + 1 /\ right' = hi - 1
      /\ UNCHANGED <<base, lo, hi, stack, run, tmp>>
  BY DEF Median
<1>2. /\ base \in Tables /\ nel = Len(base) /\ nel \in Nat /\ Perm(base, a)
      /\ nel' = nel /\ Thresh' = Thresh
  BY <1>1, Typed DEF nel, Thresh
<1>3. lo \in 1 .. nel /\ hi \in 1 .. nel /\ lo < hi
  BY <1>1 DEF IInv, Parts, Dividing
<1>4. mid \in lo .. hi - 1
  BY <1>2, <1>3
<1> HIDE DEF mid
<1>5. /\ Perm(base, a')
      /\ \A r \in 1 .. nel :
            HasFirst(base, a, r) /\ (hi <= r \/ r < lo) => HasFirst(base, a', r)
      /\ Size[a'[mid]] <= Size[a'[lo]] /\ Size[a'[hi]] <= Size[a'[mid]]
  BY <1>1, <1>2, <1>3, <1>4, MedianFacts
<1>6. Parts'
  BY <1>1, <1>2 DEF IInv, Parts, Dividing
<1>7. Walls'
  <2>1. pivot' \in Nodes
    BY <1>1, <1>2, <1>3, <1>4, <1>5, InTable
  <2>2. \A k \in right' + 1 .. hi' : k = hi
    BY <1>1, <1>2, <1>3
  <2>3. left' \in lo' + 1 .. hi' /\ right' \in lo' .. hi' - 1
    BY <1>1, <1>2, <1>3
  <2>4. /\ Size[pivot'] <= Size[a'[lo']]
        /\ \A k \in right' + 1 .. hi' : Size[a'[k]] <= Size[pivot']
    BY <1>1, <1>5, <2>2
  <2> QED
    BY <1>1, <2>1, <2>3, <2>4 DEF Walls, Walking
<1>8. First'
  <2>1. PICK r \in 1 .. nel : HasFirst(base, a, r) /\ Leftmost(r)
    BY <1>1 DEF IInv, First, Dividing
  <2>2. hi <= r \/ r < lo
    BY <1>2, <1>3, <2>1 DEF Leftmost
  <2>3. HasFirst(base', a', r)
    BY <1>1, <1>5, <2>1, <2>2
  <2>4. Leftmost(r)'
    BY <1>1, <1>2, <2>1 DEF Leftmost
  <2> QED
    BY <1>2, <2>3, <2>4 DEF First
<1>9. Finding' /\ Inserting'
  BY <1>1 DEF Finding, Inserting
<1> QED
  BY <1>1, <1>2, <1>5, <1>6, <1>7, <1>8, <1>9 DEF IInv

(* A step of the pointers that neither moves a node nor changes the parts. *)
LEMMA PartsKept ==
    ASSUME IInv, Walking, UNCHANGED <<base, a, lo, hi, pivot, stack, run, tmp>>,
           pc' \in {"left", "right", "exchange", "split"}
    PROVE  nel' = nel /\ Perm(base', a') /\ Parts' /\ First' /\ Finding' /\ Inserting'
<1>1. nel' = nel /\ Thresh' = Thresh /\ Dividing
  BY DEF nel, Thresh, Walking, Dividing
<1>2. Parts' /\ Perm(base', a')
  BY <1>1 DEF IInv, Parts
<1>3. First'
  <2>1. PICK r \in 1 .. nel : HasFirst(base, a, r) /\ Leftmost(r)
    BY <1>1 DEF IInv, First
  <2>2. HasFirst(base', a', r) /\ Leftmost(r)'
    BY <1>1, <2>1 DEF Leftmost
  <2> QED
    BY <1>1, <2>2 DEF First
<1>4. Finding' /\ Inserting'
  BY DEF Finding, Inserting
<1> QED
  BY <1>1, <1>2, <1>3, <1>4

LEMMA ScanLeftInv == IInv /\ ScanLeft => IInv'
<1> SUFFICES ASSUME IInv, ScanLeft PROVE IInv'
  OBVIOUS
<1>1. /\ pc = "left" /\ Walking /\ UNCHANGED <<base, a, lo, hi, right, pivot, stack, run, tmp>>
      /\ \/ cmp_res(a[left], pivot) /\ left' = left + 1 /\ pc' = "left"
         \/ ~cmp_res(a[left], pivot) /\ left' = left /\ pc' = "right"
  BY DEF ScanLeft, Walking
<1>2. nel' = nel /\ Perm(base', a') /\ Parts' /\ First' /\ Finding' /\ Inserting'
  BY <1>1, PartsKept
<1>3. lo \in 1 .. nel /\ hi \in 1 .. nel /\ nel \in Nat
  BY <1>1, Typed DEF IInv, Parts, Dividing
<1>4. /\ pivot \in Nodes /\ left \in lo + 1 .. hi /\ right \in lo .. hi - 1
      /\ Size[pivot] <= Size[a[lo]]
      /\ \A k \in right + 1 .. hi : Size[a[k]] <= Size[pivot]
  BY <1>1 DEF IInv, Walls
<1>5. left \in 1 .. nel /\ Size[a[left]] \in Int /\ Size[pivot] \in Int
  BY <1>1, <1>3, <1>4, Typed
<1>6. cmp_res(a[left], pivot) => left <= right
  <2> SUFFICES ASSUME Size[a[left]] > Size[pivot], left > right PROVE FALSE
    BY <1>3, <1>4 DEF cmp_res
  <2>1. left \in right + 1 .. hi
    BY <1>3, <1>4
  <2> QED
    BY <1>4, <1>5, <2>1
<1>7. ~cmp_res(a[left], pivot) => Size[a[left]] <= Size[pivot]
  BY <1>5 DEF cmp_res
<1>8. left' \in lo + 1 .. hi
  BY <1>1, <1>3, <1>4, <1>6
<1>9. Walls'
  BY <1>1, <1>4, <1>7, <1>8 DEF Walls
<1> QED
  BY <1>1, <1>2, <1>9 DEF IInv

LEMMA ScanRightInv == IInv /\ ScanRight => IInv'
<1> SUFFICES ASSUME IInv, ScanRight PROVE IInv'
  OBVIOUS
<1>1. /\ pc = "right" /\ Walking /\ UNCHANGED <<base, a, lo, hi, left, pivot, stack, run, tmp>>
      /\ \/ cmp_res(pivot, a[right]) /\ right' = right - 1 /\ pc' = "right"
         \/ ~cmp_res(pivot, a[right]) /\ right' = right /\ pc' = "exchange"
  BY DEF ScanRight, Walking
<1>2. nel' = nel /\ Perm(base', a') /\ Parts' /\ First' /\ Finding' /\ Inserting'
  BY <1>1, PartsKept
<1>3. lo \in 1 .. nel /\ hi \in 1 .. nel /\ nel \in Nat
  BY <1>1, Typed DEF IInv, Parts, Dividing
<1>4. /\ pivot \in Nodes /\ left \in lo + 1 .. hi /\ right \in lo .. hi - 1
      /\ Size[pivot] <= Size[a[lo]] /\ Size[a[left]] <= Size[pivot]
      /\ \A k \in right + 1 .. hi : Size[a[k]] <= Size[pivot]
  BY <1>1 DEF IInv, Walls
<1>5. right \in 1 .. nel /\ Size[a[right]] \in Int /\ Size[pivot] \in Int
      /\ Size[a[lo]] \in Int
  BY <1>1, <1>3, <1>4, Typed
<1>6. cmp_res(pivot, a[right]) => lo < right /\ Size[a[right]] <= Size[pivot]
  BY <1>3, <1>4, <1>5 DEF cmp_res
<1>7. ~cmp_res(pivot, a[right]) => Size[pivot] <= Size[a[right]]
  BY <1>5 DEF cmp_res
<1>8. right' \in lo .. hi - 1
  BY <1>1, <1>3, <1>4, <1>6
<1>9. \A k \in right' + 1 .. hi : Size[a[k]] <= Size[pivot]
  <2> TAKE k \in right' + 1 .. hi
  <2>1. k \in right + 1 .. hi \/ (k = right /\ cmp_res(pivot, a[right]))
    BY <1>1, <1>3, <1>4
  <2> QED
    BY <1>4, <1>6, <2>1
<1>10. Walls'
  BY <1>1, <1>4, <1>7, <1>8, <1>9 DEF Walls
<1> QED
  BY <1>1, <1>2, <1>10 DEF IInv

LEMMA ExchangeInv == IInv /\ Exchange => IInv'
<1> SUFFICES ASSUME IInv, Exchange PROVE IInv'
  OBVIOUS
<1>1. /\ pc = "exchange" /\ pc' \in {"left", "split"}
      /\ UNCHANGED <<base, lo, hi, pivot, stack, run, tmp>>
      /\ pc' = "split" => right' < left' \/ left = right
      /\ \/ /\ left < right /\ a' = Swap(a, left, right)
            /\ left' = left + 1 /\ right' = right - 1
         \/ left = right /\ a' = a /\ left' = left + 1 /\ right' = right - 1
         \/ ~(left <= right) /\ a' = a /\ left' = left /\ right' = right
  <2>1. \A x, y \in Int : ~(x <= y) => y < x
    OBVIOUS
  <2>2. left \in Int /\ right \in Int
    BY Typed DEF Exchange, IInv, Walls, Walking, Parts, Dividing
  <2>3. left' \in Int /\ right' \in Int
    BY <2>2 DEF Exchange, Met
  <2> QED
    BY <2>1, <2>2, <2>3 DEF Exchange, Met
<1>2. /\ base \in Tables /\ nel = Len(base) /\ nel \in Nat /\ Perm(base, a)
      /\ nel' = nel /\ Thresh' = Thresh
      /\ \A k \in 1 .. nel : a[k] \in Nodes /\ Size[a[k]] \in Int
  BY <1>1, Typed DEF nel, Thresh
<1>3. lo \in 1 .. nel /\ hi \in 1 .. nel /\ lo < hi
  BY <1>1 DEF IInv, Parts, Dividing
<1>4. /\ pivot \in Nodes /\ left \in lo + 1 .. hi /\ right \in lo .. hi - 1
      /\ Size[pivot] <= Size[a[lo]] /\ Size[a[left]] <= Size[pivot]
      /\ \A k \in right + 1 .. hi : Size[a[k]] <= Size[pivot]
  BY <1>1 DEF IInv, Walls, Walking
<1>5. left \in 1 .. nel /\ right \in 1 .. nel
  BY <1>2, <1>3, <1>4
<1>6. Perm(base, a')
  BY <1>1, <1>2, <1>5, SwapAt
<1>7. Parts'
  BY <1>1, <1>2 DEF IInv, Parts, Dividing
<1>8. left' \in lo + 1 .. hi /\ right' \in lo .. hi - 1 /\ (pc' = "split" => right' < left')
  BY <1>1, <1>2, <1>3, <1>4
<1>9. a'[lo] = a[lo] /\ \A k \in right' + 1 .. hi : Size[a'[k]] <= Size[pivot]
  <2>1. CASE left < right
    <3>1. \A k \in 1 .. nel : a'[k] = IF k = left THEN a[right] ELSE IF k = right THEN a[left]
                                      ELSE a[k]
      BY <1>1, <1>2, <1>4, <1>5, <2>1, SwapAt
    <3>2. right' = right - 1
      BY <1>1, <1>2, <1>4, <2>1
    <3>3. ASSUME NEW k \in right' + 1 .. hi PROVE Size[a'[k]] <= Size[pivot]
      <4>1. k \in 1 .. nel /\ (k = right \/ k \in right + 1 .. hi) /\ k # left
        BY <1>2, <1>3, <1>4, <2>1, <3>2
      <4> QED
        BY <1>4, <3>1, <4>1
    <3>4. a'[lo] = a[lo]
      BY <1>2, <1>3, <1>4, <2>1, <3>1
    <3> QED
      BY <3>3, <3>4
  <2>2. CASE ~(left < right)
    <3>1. a' = a /\ \A k \in right' + 1 .. hi : k \in right + 1 .. hi \/ k = left
      BY <1>1, <1>2, <1>3, <1>4, <2>2
    <3> QED
      BY <1>4, <3>1
  <2> QED
    BY <2>1, <2>2
<1>10. Walls'
  BY <1>1, <1>4, <1>8, <1>9 DEF Walls
<1>11. First'
  <2>1. PICK r \in 1 .. nel : HasFirst(base, a, r) /\ Leftmost(r)
    BY <1>1 DEF IInv, First, Dividing
  <2>2. left <= r <=> right <= r
    BY <1>2, <1>3, <1>4, <2>1 DEF Leftmost
  <2>3. HasFirst(base', a', r)
    BY <1>1, <1>2, <1>5, <2>1, <2>2, SwapFirst
  <2>4. Leftmost(r)'
    BY <1>1, <1>2, <2>1 DEF Leftmost
  <2> QED
    BY <1>2, <2>3, <2>4 DEF First
<1>12. Finding' /\ Inserting'
  BY <1>1 DEF Finding, Inserting
<1> QED
  BY <1>1, <1>2, <1>6, <1>7, <1>10, <1>11, <1>12 DEF IInv

LEMMA PushFacts ==
    ASSUME NEW S, NEW s \in Seq(S), NEW x \in S
    PROVE  /\ <<x>> \o s \in Seq(S)
           /\ DOMAIN (<<x>> \o s) = 1 .. Len(s) + 1
           /\ (<<x>> \o s)[1] = x
           /\ \A j \in DOMAIN s : j + 1 \in DOMAIN (<<x>> \o s) /\ (<<x>> \o s)[j + 1] = s[j]
           /\ \A j \in DOMAIN (<<x>> \o s) :
                 j = 1 \/ (j - 1 \in DOMAIN s /\ (<<x>> \o s)[j] = s[j - 1])
OBVIOUS

LEMMA PopFacts ==
    ASSUME NEW S, NEW s \in Seq(S), s # <<>>
    PROVE  /\ 1 \in DOMAIN s /\ Head(s) = s[1] /\ s[1] \in S
           /\ Tail(s) \in Seq(S)
           /\ \A j \in DOMAIN Tail(s) : j + 1 \in DOMAIN s /\ Tail(s)[j] = s[j + 1]
           /\ \A j \in DOMAIN s : j = 1 \/ (j - 1 \in DOMAIN Tail(s) /\ Tail(s)[j - 1] = s[j])
OBVIOUS

(* When the pointers have crossed, a first node in the part is left of the right
   pointer, as what is right of it does not go before the first of the part. *)
LEMMA FirstLeft ==
    ASSUME IInv, pc = "split"
    PROVE  \E r \in 1 .. nel :
              /\ HasFirst(base, a, r)
              /\ \/ lo = 1 /\ r = right /\ \A j \in DOMAIN stack : r < stack[j][1]
                 \/ /\ r < lo
                    /\ \E i \in DOMAIN stack :
                          /\ stack[i] = <<1, r>>
                          /\ \A j \in DOMAIN stack : j # i => r < stack[j][1]
                 \/ r <= Thresh /\ r < lo /\ \A j \in DOMAIN stack : r < stack[j][1]
<1>1. PICK r \in 1 .. nel : HasFirst(base, a, r) /\ Leftmost(r)
  BY DEF IInv, First, Dividing
<1>2. CASE ~(lo = 1 /\ hi = r)
  BY <1>1, <1>2 DEF Leftmost
<1>3. CASE lo = 1 /\ hi = r
  <2>1. /\ pivot \in Nodes /\ right \in lo .. hi - 1
        /\ Size[pivot] <= Size[a[lo]]
        /\ \A k \in right + 1 .. hi : Size[a[k]] <= Size[pivot]
    BY DEF IInv, Walls, Walking
  <2>2. /\ base \in Tables /\ nel = Len(base) /\ nel \in Nat
        /\ \A k \in 1 .. nel : a[k] \in Nodes /\ Size[a[k]] \in Int
        /\ Size[pivot] \in Int
    BY Typed DEF Walking
  <2>3. right \in 1 .. nel /\ right < r /\ 1 \in 1 .. right
    BY <1>3, <2>1, <2>2
  <2>4. PICK k \in 1 .. r : Greatest(base, a[k])
    BY <1>1 DEF HasFirst
  <2>5. HasFirst(base, a, right)
    <3>1. CASE k \in 1 .. right
      BY <2>4, <3>1 DEF HasFirst
    <3>2. CASE k \notin 1 .. right
      <4>1. k \in right + 1 .. hi /\ k \in 1 .. nel /\ 1 \in 1 .. nel
        BY <1>3, <2>2, <2>3, <3>2
      <4>2. Size[a[k]] <= Size[pivot] /\ Size[pivot] <= Size[a[1]]
        BY <1>3, <2>1, <4>1
      <4>3. a[k] \in Nodes /\ a[1] \in Nodes /\ Size[a[k]] <= Size[a[1]]
        BY <2>2, <4>1, <4>2
      <4>4. Greatest(base, a[1])
        BY <2>2, <2>4, <4>3, GreatestUp
      <4> QED
        BY <2>3, <4>4 DEF HasFirst
    <3> QED
      BY <3>1, <3>2
  <2>6. stack \in Seq((1 .. nel) \X (1 .. nel))
    BY DEF IInv, Parts
  <2>7. \A j \in DOMAIN stack : stack[j][1] \in Int
    BY <2>2, <2>6
  <2>8. \A j \in DOMAIN stack : r < stack[j][1]
    BY <1>1, <1>3, <2>2 DEF Leftmost
  <2>9. \A j \in DOMAIN stack : right < stack[j][1]
    BY <2>3, <2>7, <2>8
  <2> QED
    BY <1>3, <2>3, <2>5, <2>9
<1> QED
  BY <1>2, <1>3

LEMMA SplitInv == IInv /\ Split => IInv'
<1> SUFFICES ASSUME IInv, Split PROVE IInv'
  OBVIOUS
<1> DEFINE Pair == (1 .. nel) \X (1 .. nel)
<1>1. /\ pc = "split" /\ UNCHANGED <<base, a, left, right, pivot, run, tmp>>
      /\ pc' \in {"median", "first"}
  BY DEF Split
<1>2. /\ base \in Tables /\ nel = Len(base) /\ nel \in Nat /\ Perm(base, a)
      /\ MAX_THRESH \in Nat /\ MAX_THRESH >= 1
      /\ nel' = nel /\ Thresh' = Thresh
      /\ \A k \in 1 .. nel : a[k] \in Nodes /\ Size[a[k]] \in Int
  BY <1>1, Typed DEF nel, Thresh
<1>3. /\ lo \in 1 .. nel /\ hi \in 1 .. nel /\ lo < hi
      /\ left \in lo + 1 .. hi /\ right \in lo .. hi - 1 /\ right < left
      /\ run = 2 /\ tmp = 1
      /\ stack \in Seq(Pair)
      /\ \A i \in DOMAIN stack : stack[i][1] < stack[i][2]
  BY <1>1 DEF IInv, Parts, Dividing, Walls, Walking
<1>4. \A i \in DOMAIN stack : stack[i] \in Pair /\ stack[i][1] \in Int /\ stack[i][2] \in Int
  BY <1>2, <1>3
<1>5. PICK r \in 1 .. nel :
          /\ HasFirst(base, a, r)
          /\ \/ lo = 1 /\ r = right /\ \A j \in DOMAIN stack : r < stack[j][1]
             \/ /\ r < lo
                /\ \E i \in DOMAIN stack :
                      /\ stack[i] = <<1, r>>
                      /\ \A j \in DOMAIN stack : j # i => r < stack[j][1]
             \/ r <= Thresh /\ r < lo /\ \A j \in DOMAIN stack : r < stack[j][1]
  BY <1>1, FirstLeft
<1>6. HasFirst(base', a', r)
  BY <1>1, <1>5
<1>7. Thresh \in Nat /\ Thresh <= nel /\ (right - lo <= MAX_THRESH /\ lo = 1 => right <= Thresh)
  BY <1>2, <1>3, ThreshFacts
<1> HIDE DEF Pair
<1>8. CASE Short(lo, right) /\ Short(left, hi) /\ stack = <<>>
  <2>1. pc' = "first" /\ UNCHANGED <<lo, hi, stack>>
    BY <1>8 DEF Split
  <2>2. r <= Thresh
    BY <1>5, <1>7, <1>8 DEF Short
  <2>3. HasFirst(base, a, Thresh)
    BY <1>2, <1>5, <1>7, <2>2 DEF HasFirst
  <2>4. Parts'
    BY <1>1, <1>2, <1>3, <2>1 DEF Parts, Dividing, Pair
  <2>5. \A k \in 1 .. run - 1 : Size[a[k]] <= Size[a[tmp]]
    <3>1. \A k \in 1 .. run - 1 : k = tmp /\ k \in 1 .. nel
      BY <1>2, <1>3
    <3>2. Size[a[tmp]] \in Int
      BY <1>2, <1>3
    <3> QED
      BY <3>1, <3>2
  <2>6. Finding'
    BY <1>1, <1>2, <1>3, <1>5, <1>7, <2>2, <2>3, <2>5 DEF Finding
  <2>7. Walls' /\ First' /\ Inserting'
    BY <2>1 DEF Walls, Walking, First, Dividing, Inserting
  <2> QED
    BY <1>1, <1>2, <2>4, <2>6, <2>7 DEF IInv
<1>9. CASE ~(Short(lo, right) /\ Short(left, hi) /\ stack = <<>>)
  <2>1. pc' = "median"
    BY <1>9 DEF Split
  <2>2. Parts' /\ Leftmost(r)'
    <3>0. /\ ~Short(lo, right) => lo < right
          /\ ~Short(left, hi) => left < hi
          /\ left \in 1 .. nel /\ right \in 1 .. nel
      BY <1>2, <1>3 DEF Short
    <3>1. CASE Short(lo, right) /\ Short(left, hi) /\ stack # <<>>
      <4>1. lo' = Head(stack)[1] /\ hi' = Head(stack)[2] /\ stack' = Tail(stack)
        BY <3>1 DEF Split
      <4>2. /\ 1 \in DOMAIN stack /\ Head(stack) = stack[1] /\ stack[1] \in Pair
            /\ stack' \in Seq(Pair)
            /\ \A j \in DOMAIN stack' : j + 1 \in DOMAIN stack /\ stack'[j] = stack[j + 1]
            /\ \A j \in DOMAIN stack :
                  j = 1 \/ (j - 1 \in DOMAIN stack' /\ stack'[j - 1] = stack[j])
            /\ \A j \in DOMAIN stack : j \in Int
            /\ \A j \in DOMAIN stack' : j \in Int
        BY <1>3, <3>1, <4>1, PopFacts
      <4>3. /\ lo' = stack[1][1] /\ hi' = stack[1][2] /\ lo' \in 1 .. nel /\ hi' \in 1 .. nel
            /\ lo' < hi'
        BY <1>3, <4>1, <4>2 DEF Pair
      <4>4. Parts'
        <5>1. \A i \in DOMAIN stack' : stack'[i][1] < stack'[i][2]
          BY <1>3, <4>2
        <5> QED
          BY <1>1, <1>2, <1>3, <4>2, <4>3, <5>1 DEF Parts, Pair
      <4>5. CASE \A j \in DOMAIN stack : r < stack[j][1]
        <5>1. r < lo' /\ \A j \in DOMAIN stack' : r < stack'[j][1]
          BY <4>2, <4>3, <4>5
        <5>2. r <= Thresh'
          BY <1>2, <1>5, <1>7, <3>1, <4>5 DEF Short
        <5> QED
          BY <4>4, <5>1, <5>2 DEF Leftmost
      <4>6. CASE \E i \in DOMAIN stack :
                    /\ stack[i] = <<1, r>>
                    /\ \A j \in DOMAIN stack : j # i => r < stack[j][1]
        <5>1. PICK i \in DOMAIN stack :
                    /\ stack[i] = <<1, r>>
                    /\ \A j \in DOMAIN stack : j # i => r < stack[j][1]
          BY <4>6
        <5>2. CASE i = 1
          <6>1. lo' = 1 /\ hi' = r
            BY <4>3, <5>1, <5>2
          <6>2. \A j \in DOMAIN stack' : r < stack'[j][1]
            <7>1. \A j \in DOMAIN stack' : j + 1 # 1
              BY <4>1, <1>3, <4>2
            <7> QED
              BY <4>2, <5>1, <5>2, <7>1
          <6> QED
            BY <4>4, <6>1, <6>2 DEF Leftmost
        <5>3. CASE i # 1
          <6>1. r < lo'
            BY <4>2, <4>3, <5>1, <5>3
          <6>2. i - 1 \in DOMAIN stack' /\ stack'[i - 1] = <<1, r>>
            BY <4>2, <5>1, <5>3
          <6>3. ASSUME NEW j \in DOMAIN stack', j # i - 1 PROVE r < stack'[j][1]
            <7>1. j + 1 # i /\ j + 1 \in DOMAIN stack
              BY <4>2, <6>3
            <7> QED
              BY <4>2, <5>1, <7>1
          <6> QED
            BY <4>4, <6>1, <6>2, <6>3 DEF Leftmost
        <5> QED
          BY <5>2, <5>3
      <4> QED
        BY <1>5, <4>5, <4>6
    <3>2. CASE Short(lo, right) /\ ~Short(left, hi)
      <4>1. lo' = left /\ hi' = hi /\ stack' = stack
        BY <3>2 DEF Split
      <4>2. Parts'
        BY <1>1, <1>2, <1>3, <3>0, <3>2, <4>1 DEF Parts, Pair
      <4>3. r < left
        BY <1>2, <1>3, <1>5
      <4>4. r = right /\ lo = 1 => r <= Thresh
        BY <1>7, <3>2 DEF Short
      <4> QED
        BY <1>2, <1>5, <4>1, <4>2, <4>3, <4>4 DEF Leftmost
    <3>3. CASE ~Short(lo, right) /\ Short(left, hi)
      <4>1. lo' = lo /\ hi' = right /\ stack' = stack
        BY <3>3 DEF Split
      <4>2. Parts'
        BY <1>1, <1>2, <1>3, <3>0, <3>3, <4>1 DEF Parts, Pair
      <4> QED
        BY <1>2, <1>5, <4>1, <4>2 DEF Leftmost
    <3>4. ASSUME NEW x \in Pair, x[1] < x[2], stack' = <<x>> \o stack,
                 lo' \in 1 .. nel, hi' \in 1 .. nel, lo' < hi',
                 \/ lo' = left /\ x = <<lo, right>>
                 \/ lo' = lo /\ hi' = right /\ x = <<left, hi>>
          PROVE  Parts' /\ Leftmost(r)'
      <4>1. /\ stack' \in Seq(Pair) /\ 1 \in DOMAIN stack' /\ stack'[1] = x
            /\ \A j \in DOMAIN stack : j + 1 \in DOMAIN stack' /\ stack'[j + 1] = stack[j]
            /\ \A j \in DOMAIN stack' :
                  j = 1 \/ (j - 1 \in DOMAIN stack /\ stack'[j] = stack[j - 1])
            /\ \A j \in DOMAIN stack : j \in Int
            /\ \A j \in DOMAIN stack' : j \in Int
        BY <1>3, <3>4, PushFacts
      <4>2. Parts'
        <5>1. \A i \in DOMAIN stack' : stack'[i][1] < stack'[i][2]
          BY <1>3, <3>4, <4>1
        <5> QED
          BY <1>1, <1>2, <1>3, <3>4, <4>1, <5>1 DEF Parts, Pair
      <4>3. CASE \A j \in DOMAIN stack : r < stack[j][1]
        <5>1. \A j \in DOMAIN stack' : j # 1 => r < stack'[j][1]
          BY <4>1, <4>3
        <5>2. CASE lo' = left /\ x = <<lo, right>> /\ lo = 1 /\ r = right
          BY <1>3, <4>1, <4>2, <5>1, <5>2 DEF Leftmost
        <5>3. CASE lo' = left /\ x = <<lo, right>> /\ r <= Thresh /\ r < lo
          <6>1. r < left
            BY <1>2, <1>3, <5>3
          <6> QED
            BY <1>2, <4>1, <4>2, <5>1, <5>3, <6>1 DEF Leftmost
        <5>4. CASE lo' = lo /\ hi' = right /\ x = <<left, hi>> /\ lo = 1 /\ r = right
          BY <1>3, <4>1, <4>2, <5>1, <5>4 DEF Leftmost
        <5>5. CASE lo' = lo /\ hi' = right /\ x = <<left, hi>> /\ r <= Thresh /\ r < lo
          <6>1. r < left
            BY <1>2, <1>3, <5>5
          <6> QED
            BY <1>2, <4>1, <4>2, <5>1, <5>5, <6>1 DEF Leftmost
        <5>6. (lo = 1 /\ r = right) \/ (r <= Thresh /\ r < lo)
          <6>1. SUFFICES ASSUME NEW i \in DOMAIN stack, stack[i] = <<1, r>> PROVE FALSE
            BY <1>5
          <6>2. r < 1
            BY <4>3, <6>1
          <6> QED
            BY <6>2
        <5> QED
          BY <3>4, <5>2, <5>3, <5>4, <5>5, <5>6
      <4>4. CASE /\ r < lo
                 /\ \E i \in DOMAIN stack :
                       /\ stack[i] = <<1, r>>
                       /\ \A j \in DOMAIN stack : j # i => r < stack[j][1]
        <5>1. PICK i \in DOMAIN stack :
                    /\ stack[i] = <<1, r>>
                    /\ \A j \in DOMAIN stack : j # i => r < stack[j][1]
          BY <4>4
        <5>2. r < lo' /\ r < x[1]
          BY <1>2, <1>3, <3>4, <4>4
        <5>3. i + 1 \in DOMAIN stack' /\ stack'[i + 1] = <<1, r>>
          BY <4>1, <5>1
        <5>4. ASSUME NEW j \in DOMAIN stack', j # i + 1 PROVE r < stack'[j][1]
          <6>1. CASE j = 1
            BY <4>1, <5>2, <6>1
          <6>2. CASE j # 1
            <7>1. j - 1 # i /\ j - 1 \in DOMAIN stack
              BY <4>1, <5>4, <6>2
            <7> QED
              BY <4>1, <5>1, <6>2, <7>1
          <6> QED
            BY <6>1, <6>2
        <5> QED
          BY <4>2, <5>2, <5>3, <5>4 DEF Leftmost
      <4> QED
        BY <1>5, <4>3, <4>4
    <3>5. CASE ~Short(lo, right) /\ ~Short(left, hi)
      <4>1. \/ lo' = left /\ hi' = hi /\ stack' = <<<<lo, right>>>> \o stack
            \/ lo' = lo /\ hi' = right /\ stack' = <<<<left, hi>>>> \o stack
        BY <3>5 DEF Split
      <4>2. /\ <<lo, right>> \in Pair /\ <<lo, right>>[1] < <<lo, right>>[2]
            /\ <<left, hi>> \in Pair /\ <<left, hi>>[1] < <<left, hi>>[2]
        BY <1>3, <3>0, <3>5 DEF Pair
      <4>3. CASE lo' = left /\ hi' = hi /\ stack' = <<<<lo, right>>>> \o stack
        BY <1>3, <3>0, <3>4, <3>5, <4>2, <4>3
      <4>4. CASE lo' = lo /\ hi' = right /\ stack' = <<<<left, hi>>>> \o stack
        BY <1>3, <3>0, <3>4, <3>5, <4>2, <4>4
      <4> QED
        BY <4>1, <4>3, <4>4
    <3> QED
      BY <1>9, <3>1, <3>2, <3>3, <3>5
  <2>3. First'
    BY <1>2, <1>6, <2>2 DEF First
  <2>4. Walls' /\ Finding' /\ Inserting'
    BY <2>1 DEF Walls, Walking, Finding, Inserting
  <2> QED
    BY <1>1, <1>2, <2>2, <2>3, <2>4 DEF IInv
<1> QED
  BY <1>8, <1>9

--------------------------------------------------------------------------------
(***************************************************************************)
(* The insertion sort                                                      *)
(***************************************************************************)
LEMMA FindFirstInv == IInv /\ FindFirst => IInv'
<1> SUFFICES ASSUME IInv, FindFirst PROVE IInv'
  OBVIOUS
<1>1. /\ pc = "first" /\ UNCHANGED <<base, lo, hi, left, right, pivot, stack>>
      /\ \/ /\ run <= Thresh /\ run' = run + 1 /\ pc' = "first" /\ a' = a
            /\ tmp' = IF cmp_res(a[run], a[tmp]) THEN run ELSE tmp
         \/ /\ ~(run <= Thresh) /\ a' = Swap(a, 1, tmp) /\ run' = 3 /\ tmp' = 2
            /\ pc' = IF 3 <= nel THEN "insert" ELSE "done"
  BY DEF FindFirst, part
<1>2. /\ base \in Tables /\ nel = Len(base) /\ nel \in Nat /\ Perm(base, a)
      /\ nel' = nel /\ Thresh' = Thresh
      /\ \A k \in 1 .. nel : a[k] \in Nodes /\ Size[a[k]] \in Int
  BY <1>1, Typed DEF nel, Thresh
<1>3. /\ nel >= 1 /\ HasFirst(base, a, Thresh) /\ run \in 2 .. Thresh + 1
      /\ tmp \in 1 .. run - 1
      /\ \A k \in 1 .. run - 1 : Size[a[k]] <= Size[a[tmp]]
  BY <1>1 DEF IInv, Finding
<1>4. Thresh \in Nat /\ Thresh <= nel
  BY <1>2, ThreshFacts
<1>5. tmp \in 1 .. nel
  BY <1>2, <1>3, <1>4
<1>6. Parts' /\ Walls' /\ First'
  BY <1>1, <1>2 DEF IInv, Parts, Walls, Walking, First, Dividing
<1>7. CASE run <= Thresh
  <2>1. /\ run' = run + 1 /\ pc' = "first" /\ a' = a
        /\ tmp' = IF cmp_res(a[run], a[tmp]) THEN run ELSE tmp
    BY <1>1, <1>7
  <2>2. run \in 1 .. nel
    BY <1>2, <1>3, <1>4, <1>7
  <2>3. run' \in 2 .. Thresh + 1 /\ tmp' \in 1 .. run' - 1
    BY <1>3, <1>4, <1>7, <2>1
  <2>4. ASSUME NEW k \in 1 .. run' - 1 PROVE Size[a[k]] <= Size[a[tmp']]
    <3>1. Size[a[run]] \in Int /\ Size[a[tmp]] \in Int
      BY <1>2, <1>5, <2>2
    <3>2. k \in 1 .. nel /\ (k = run \/ k \in 1 .. run - 1)
      BY <1>2, <1>3, <2>1, <2>2
    <3>3. Size[a[k]] \in Int
      BY <1>2, <3>2
    <3>4. k = run \/ Size[a[k]] <= Size[a[tmp]]
      BY <1>3, <3>2
    <3>5. CASE cmp_res(a[run], a[tmp])
      BY <2>1, <3>1, <3>3, <3>4, <3>5 DEF cmp_res
    <3>6. CASE ~cmp_res(a[run], a[tmp])
      BY <2>1, <3>1, <3>3, <3>4, <3>6 DEF cmp_res
    <3> QED
      BY <3>5, <3>6
  <2>5. Finding' /\ Inserting'
    BY <1>1, <1>2, <1>3, <2>1, <2>3, <2>4 DEF Finding, Inserting
  <2> QED
    BY <1>1, <1>2, <1>6, <2>1, <2>5 DEF IInv
<1>8. CASE ~(run <= Thresh)
  <2>1. /\ a' = Swap(a, 1, tmp) /\ run' = 3 /\ tmp' = 2
        /\ pc' = IF 3 <= nel THEN "insert" ELSE "done"
    BY <1>1, <1>8
  <2>2. run - 1 = Thresh /\ 1 \in 1 .. nel
    BY <1>2, <1>3, <1>4, <1>8
  <2>3. Perm(base, a') /\ a'[1] = a[tmp]
    BY <1>2, <1>5, <2>1, <2>2, SwapAt
  <2>4. PICK k \in 1 .. Thresh : Greatest(base, a[k])
    BY <1>3 DEF HasFirst
  <2>5. k \in 1 .. nel /\ Size[a[k]] <= Size[a[tmp]]
    BY <1>2, <1>3, <1>4, <2>2
  <2>6. Greatest(base, a[tmp])
    BY <1>2, <1>5, <2>4, <2>5, GreatestUp
  <2>7. Inserting'
    BY <1>1, <1>2, <2>1, <2>3, <2>6 DEF Inserting
  <2>8. Finding'
    BY <2>1 DEF Finding
  <2> QED
    BY <1>1, <1>2, <1>6, <2>1, <2>3, <2>7, <2>8 DEF IInv
<1> QED
  BY <1>7, <1>8

LEMMA InsertionInv == IInv /\ Insertion => IInv'
<1> SUFFICES ASSUME IInv, Insertion PROVE IInv'
  OBVIOUS
<1>1. /\ pc = "insert" /\ UNCHANGED <<base, lo, hi, left, right, pivot, stack>>
      /\ \/ /\ cmp_res(a[run], a[tmp]) /\ tmp' = tmp - 1 /\ pc' = "insert"
            /\ a' = a /\ run' = run
         \/ /\ a' = Insert(a, run, tmp + 1) /\ run' = run + 1 /\ tmp' = run
            /\ pc' = IF run + 1 <= nel THEN "insert" ELSE "done"
  BY DEF Insertion, part
<1>2. /\ base \in Tables /\ nel = Len(base) /\ nel \in Nat /\ Perm(base, a)
      /\ nel' = nel /\ Thresh' = Thresh
      /\ \A k \in 1 .. nel : a[k] \in Nodes /\ Size[a[k]] \in Int
  BY <1>1, Typed DEF nel, Thresh
<1>3. run \in 3 .. nel /\ tmp \in 1 .. run - 1 /\ Greatest(base, a[1])
  BY <1>1 DEF IInv, Inserting
<1>4. Parts' /\ Walls' /\ First' /\ Finding'
  BY <1>1, <1>2 DEF IInv, Parts, Walls, Walking, First, Dividing, Finding
<1>5. CASE cmp_res(a[run], a[tmp]) /\ tmp' = tmp - 1 /\ pc' = "insert" /\ a' = a /\ run' = run
  <2>1. run \in 1 .. nel
    BY <1>2, <1>3
  <2>2. Size[a[run]] <= Size[a[1]]
    BY <1>2, <1>3, <2>1, GreatestOver
  <2>3. tmp # 1
    <3>1. 1 \in 1 .. nel
      BY <1>2, <1>3
    <3> QED
      BY <1>2, <1>5, <2>1, <2>2, <3>1 DEF cmp_res
  <2>4. tmp' \in 1 .. run' - 1
    BY <1>2, <1>3, <1>5, <2>3
  <2>5. Inserting'
    BY <1>1, <1>2, <1>3, <1>5, <2>4 DEF Inserting
  <2> QED
    BY <1>1, <1>2, <1>4, <1>5, <2>5 DEF IInv
<1>6. CASE /\ a' = Insert(a, run, tmp + 1) /\ run' = run + 1 /\ tmp' = run
           /\ pc' = IF run + 1 <= nel THEN "insert" ELSE "done"
  <2>1. /\ run \in 1 .. nel /\ tmp + 1 \in 1 .. nel /\ tmp + 1 <= run /\ tmp + 1 > 1
    BY <1>2, <1>3
  <2>2. Perm(base, a') /\ a'[1] = a[1]
    BY <1>2, <1>6, <2>1, InsertPerm
  <2>3. pc' = "insert" => run' \in 3 .. nel /\ tmp' \in 1 .. run' - 1
    BY <1>2, <1>3, <1>6
  <2>4. Inserting'
    BY <1>1, <1>2, <1>3, <2>2, <2>3 DEF Inserting
  <2> QED
    BY <1>1, <1>2, <1>4, <1>6, <2>2, <2>4 DEF IInv
<1> QED
  BY <1>1, <1>5, <1>6

--------------------------------------------------------------------------------
(***************************************************************************)
(* What the invariant is for                                               *)
(***************************************************************************)
LEMMA NextInv == IInv /\ [Next]_vars => IInv'
<1>1. ASSUME IInv, UNCHANGED vars PROVE IInv'
  BY <1>1 DEF vars, IInv, nel, Thresh, Parts, Dividing, Walls, Walking, First,
     Leftmost, Finding, Inserting
<1> QED
  BY <1>1, MedianInv, ScanLeftInv, ScanRightInv, ExchangeInv, SplitInv, FindFirstInv,
     InsertionInv DEF Next

LEMMA InvBounds == IInv => InBounds
<1> SUFFICES ASSUME IInv PROVE InBounds
  OBVIOUS
<1>1. nel \in Nat /\ Thresh \in Nat /\ Thresh <= nel
  BY Typed, ThreshFacts
<1>2. Dividing => lo \in 1 .. nel /\ hi \in 1 .. nel /\ lo < hi
  BY DEF IInv, Parts
<1>3. Walking => left \in lo + 1 .. hi /\ right \in lo .. hi - 1
  BY DEF IInv, Walls
<1>4. pc = "first" => tmp \in 1 .. nel
  BY <1>1 DEF IInv, Finding
<1>5. pc = "insert" => tmp \in 1 .. nel /\ run \in 1 .. nel
  BY <1>1 DEF IInv, Inserting
<1> QED
  BY <1>1, <1>2, <1>3, <1>4, <1>5 DEF InBounds, Dividing, Walking

LEMMA InvKeeps == IInv => KeepsNodes
<1> SUFFICES ASSUME IInv PROVE KeepsNodes
  OBVIOUS
<1>1. DOMAIN a = 1 .. nel /\ DOMAIN base = 1 .. nel /\ nel = Len(base) /\ Perm(base, a)
  BY Typed, InTable, TableFacts
<1> QED
  BY <1>1 DEF KeepsNodes, Perm

(* Theorem: no comparison ever leaves the table, whatever it holds and wherever the
   two unbounded loops of qsort.c (137, 140) start. *)
THEOREM QsortInBounds == Spec => []InBounds
<1>1. Spec => []IInv
  BY InitInv, NextInv, PTL DEF Spec
<1> QED
  BY <1>1, InvBounds, PTL

(* Theorem: the list that sort_restab links again holds every node of the mode list
   exactly once, at every moment of the sort. *)
THEOREM NodesKept == Spec => []KeepsNodes
<1>1. Spec => []IInv
  BY InitInv, NextInv, PTL DEF Spec
<1> QED
  BY <1>1, InvKeeps, PTL

--------------------------------------------------------------------------------
(***************************************************************************)
(* The order of the result                                                 *)
(***************************************************************************)
(* the first r nodes of t are in order *)
Ordered(t, r) == \A i, j \in 1 .. r : i < j => Size[t[j]] <= Size[t[i]]

(* what the pointer of the insertion sort has passed goes behind the node that is
   being inserted *)
Growing ==
    /\ pc = "insert" => /\ Ordered(a, run - 1)
                        /\ \A k \in tmp + 1 .. run - 1 : Size[a[k]] <= Size[a[run]]
    /\ pc = "done" => Ordered(a, nel)

(* The first node stays where it is when no other goes before it. *)
HeadStays ==
    nel >= 1 /\ Greatest(base, base[1]) =>
        /\ a[1] = base[1]
        /\ pc = "first" => tmp = 1

LEMMA GrowingStep == IInv /\ Growing /\ Next => Growing'
<1> SUFFICES ASSUME IInv, Growing, Next PROVE Growing'
  OBVIOUS
<1>1. /\ base \in Tables /\ nel = Len(base) /\ nel \in Nat /\ Perm(base, a)
      /\ \A k \in 1 .. nel : a[k] \in Nodes /\ Size[a[k]] \in Int
  BY Typed
<1>2. CASE Median \/ ScanLeft \/ ScanRight \/ Exchange \/ Split
  <2>1. pc' \notin {"insert", "done"}
    BY <1>2 DEF Median, ScanLeft, ScanRight, Exchange, Split
  <2> QED
    BY <2>1 DEF Growing
<1>3. CASE FindFirst
  <2>1. /\ nel' = nel /\ pc = "first"
        /\ \/ pc' = "first"
           \/ /\ ~(run <= Thresh) /\ a' = Swap(a, 1, tmp) /\ run' = 3 /\ tmp' = 2
              /\ pc' = IF 3 <= nel THEN "insert" ELSE "done"
    BY <1>3 DEF FindFirst, nel
  <2>2. CASE pc' = "first"
    BY <2>2 DEF Growing
  <2>3. CASE /\ ~(run <= Thresh) /\ a' = Swap(a, 1, tmp) /\ run' = 3 /\ tmp' = 2
             /\ pc' = IF 3 <= nel THEN "insert" ELSE "done"
    <3>1. /\ nel >= 1 /\ HasFirst(base, a, Thresh) /\ run \in 2 .. Thresh + 1
          /\ tmp \in 1 .. run - 1
          /\ \A k \in 1 .. run - 1 : Size[a[k]] <= Size[a[tmp]]
      BY <2>1 DEF IInv, Finding
    <3>2. Thresh \in Nat /\ Thresh <= nel
      BY <1>1, ThreshFacts
    <3>3. tmp \in 1 .. nel /\ 1 \in 1 .. nel /\ run - 1 = Thresh
      BY <1>1, <2>3, <3>1, <3>2
    <3>4. Perm(base, a') /\ a'[1] = a[tmp]
      BY <1>1, <2>3, <3>3, SwapAt
    <3>5. PICK k \in 1 .. Thresh : Greatest(base, a[k])
      BY <3>1 DEF HasFirst
    <3>6. k \in 1 .. nel /\ Size[a[k]] <= Size[a[tmp]]
      BY <1>1, <3>1, <3>2, <3>3
    <3>7. Greatest(base, a'[1])
      BY <1>1, <3>3, <3>4, <3>5, <3>6, GreatestUp
    <3>8. \A j \in 1 .. nel : Size[a'[j]] <= Size[a'[1]]
      BY <1>1, <3>4, <3>7, GreatestOver
    <3>9. \A r \in 0 .. 2 : r <= nel => Ordered(a', r)
      BY <1>1, <3>8 DEF Ordered
    <3>10. pc' = "insert" => Ordered(a', run' - 1) /\ tmp' + 1 > run' - 1
      BY <1>1, <2>3, <3>9
    <3>11. pc' = "done" => Ordered(a', nel')
      BY <1>1, <2>1, <2>3, <3>9
    <3> QED
      BY <2>3, <3>10, <3>11 DEF Growing
  <2> QED
    BY <2>1, <2>2, <2>3
<1>4. CASE Insertion
  <2>1. /\ pc = "insert" /\ nel' = nel
        /\ \/ /\ cmp_res(a[run], a[tmp]) /\ tmp' = tmp - 1 /\ pc' = "insert"
              /\ a' = a /\ run' = run
           \/ /\ ~cmp_res(a[run], a[tmp]) /\ a' = Insert(a, run, tmp + 1)
              /\ run' = run + 1 /\ tmp' = run
              /\ pc' = IF run + 1 <= nel THEN "insert" ELSE "done"
    BY <1>4 DEF Insertion, nel
  <2>2. run \in 3 .. nel /\ tmp \in 1 .. run - 1
    BY <2>1 DEF IInv, Inserting
  <2>3. /\ Ordered(a, run - 1)
        /\ \A k \in tmp + 1 .. run - 1 : Size[a[k]] <= Size[a[run]]
    BY <2>1 DEF Growing
  <2>4. CASE /\ cmp_res(a[run], a[tmp]) /\ tmp' = tmp - 1 /\ pc' = "insert"
             /\ a' = a /\ run' = run
    <3>1. tmp \in 1 .. nel /\ run \in 1 .. nel /\ Size[a[tmp]] <= Size[a[run]]
      BY <1>1, <2>2, <2>4 DEF cmp_res
    <3>2. \A k \in tmp' + 1 .. run' - 1 : k = tmp \/ k \in tmp + 1 .. run - 1
      BY <1>1, <2>2, <2>4
    <3> QED
      BY <2>3, <2>4, <3>1, <3>2 DEF Growing
  <2>5. CASE /\ ~cmp_res(a[run], a[tmp]) /\ a' = Insert(a, run, tmp + 1)
             /\ run' = run + 1 /\ tmp' = run
             /\ pc' = IF run + 1 <= nel THEN "insert" ELSE "done"
    <3>1. tmp \in 1 .. nel /\ run \in 1 .. nel
      BY <1>1, <2>2
    <3>2. Size[a[run]] <= Size[a[tmp]]
      BY <1>1, <2>5, <3>1 DEF cmp_res
    <3>3. \A k \in 1 .. run :
             a'[k] = IF k = tmp + 1 THEN a[run]
                     ELSE IF tmp + 1 < k /\ k <= run THEN a[k - 1] ELSE a[k]
      <4>1. \A k \in 1 .. run : k \in DOMAIN a
        BY <1>1, <2>2, InTable
      <4> QED
        BY <2>5, <4>1 DEF Insert
    <3>4. ASSUME NEW i \in 1 .. run, NEW j \in 1 .. run, i < j
          PROVE  Size[a'[j]] <= Size[a'[i]]
      <4>1. \A k, l \in 1 .. run - 1 : k < l => Size[a[l]] <= Size[a[k]]
        BY <2>3 DEF Ordered
      <4>2. /\ i \in Int /\ j \in Int /\ i <= tmp => i \in 1 .. run - 1
            /\ j <= tmp => j \in 1 .. run - 1
            /\ j > tmp + 1 => j - 1 \in tmp + 1 .. run - 1 /\ j - 1 \in 1 .. run - 1
            /\ i > tmp + 1 => i - 1 \in tmp + 1 .. run - 1 /\ i - 1 \in 1 .. run - 1
            /\ tmp \in 1 .. run - 1
        BY <1>1, <2>2
      <4>3. \A k \in 1 .. run : Size[a[k]] \in Int
        BY <1>1, <2>2
      <4>4. CASE j <= tmp
        BY <2>2, <3>3, <3>4, <4>1, <4>2, <4>4
      <4>5. CASE j = tmp + 1
        <5>1. a'[j] = a[run] /\ a'[i] = a[i] /\ i \in 1 .. run - 1 /\ i <= tmp
          BY <2>2, <3>3, <3>4, <4>2, <4>5
        <5>2. Size[a[tmp]] <= Size[a[i]]
          BY <4>1, <4>2, <4>3, <5>1
        <5> QED
          BY <3>1, <3>2, <4>2, <4>3, <5>1, <5>2
      <4>6. CASE j > tmp + 1
        <5>1. a'[j] = a[j - 1] /\ j - 1 \in tmp + 1 .. run - 1 /\ j - 1 \in 1 .. run - 1
          BY <2>2, <3>3, <3>4, <4>2, <4>6
        <5>2. CASE i <= tmp
          BY <2>2, <3>3, <4>1, <4>2, <5>1, <5>2
        <5>3. CASE i = tmp + 1
          BY <2>2, <2>3, <3>3, <4>2, <5>1, <5>3
        <5>4. CASE i > tmp + 1
          <6>1. a'[i] = a[i - 1] /\ i - 1 \in 1 .. run - 1 /\ i - 1 < j - 1
            BY <2>2, <3>3, <3>4, <4>2, <5>4
          <6> QED
            BY <4>1, <5>1, <6>1
        <5> QED
          BY <2>2, <4>2, <5>2, <5>3, <5>4
      <4> QED
        BY <2>2, <4>2, <4>4, <4>5, <4>6
    <3>5. Ordered(a', run)
      BY <3>4 DEF Ordered
    <3>6. run' - 1 = run /\ tmp' + 1 > run' - 1 /\ (pc' = "done" => nel' = run)
      BY <1>1, <2>1, <2>2, <2>5
    <3> QED
      BY <2>5, <3>5, <3>6 DEF Growing
  <2> QED
    BY <2>1, <2>4, <2>5
<1> QED
  BY <1>2, <1>3, <1>4 DEF Next

(* MedianOfThree and the exchanges leave the first place alone when none goes before
   its node. *)
LEMMA HeadStep == IInv /\ HeadStays /\ Next => HeadStays'
<1> SUFFICES ASSUME IInv, HeadStays, Next, nel' >= 1, Greatest(base', base'[1])
             PROVE  a'[1] = base'[1] /\ (pc' = "first" => tmp' = 1)
  BY DEF HeadStays
<1>1. base' = base /\ nel' = nel
  BY DEF Next, Median, ScanLeft, ScanRight, Exchange, Split, FindFirst, Insertion, nel
<1>2. /\ base \in Tables /\ nel = Len(base) /\ nel \in Nat /\ Perm(base, a)
      /\ \A k \in 1 .. nel : a[k] \in Nodes /\ Size[a[k]] \in Int
      /\ 1 \in 1 .. nel
  BY <1>1, Typed
<1>3. a[1] = base[1] /\ Greatest(base, a[1]) /\ (pc = "first" => tmp = 1)
  BY <1>1 DEF HeadStays
<1>4. \A k \in 1 .. nel : ~cmp_res(a[k], a[1])
  BY <1>2, <1>3, GreatestOver DEF cmp_res
<1>5. CASE Median
  <2> DEFINE mid == lo + (hi - lo) \div 2
             t2 == Swap(a, mid, hi)
  <2>1. a' = MedianOfThree(a, mid) /\ pc' # "first" /\ pc = "median"
    BY <1>5 DEF Median
  <2>2. lo \in 1 .. nel /\ hi \in 1 .. nel /\ lo < hi
    BY <2>1 DEF IInv, Parts, Dividing
  <2>3. mid \in lo .. hi - 1 /\ mid \in 1 .. nel
    BY <1>2, <2>2
  <2> HIDE DEF mid
  <2>4. CASE lo = 1
    <3>1. ~cmp_res(a[mid], a[lo]) /\ ~cmp_res(a[hi], a[lo])
      BY <1>4, <2>2, <2>3, <2>4
    <3>2. CASE mid = lo
      <4>1. a' = a
        BY <2>1, <3>1, <3>2 DEF MedianOfThree
      <4> QED
        BY <1>1, <1>3, <2>1, <4>1
    <3>3. CASE mid # lo
      <4>1. t2[mid] = a[hi] /\ t2[lo] = a[lo]
        BY <1>2, <2>2, <2>3, <3>3, SwapAt
      <4>2. ~cmp_res(t2[mid], t2[lo])
        BY <3>1, <4>1
      <4>3. a' = a \/ a' = t2
        <5> HIDE DEF t2
        <5>1. a' = IF ~cmp_res(a[hi], a[mid]) THEN a
                   ELSE IF cmp_res(t2[mid], t2[lo]) THEN Swap(t2, mid, lo) ELSE t2
          BY <2>1, <3>1 DEF MedianOfThree, t2
        <5> QED
          BY <4>2, <5>1
      <4> QED
        BY <1>1, <1>3, <2>1, <2>4, <4>1, <4>3
    <3> QED
      BY <3>2, <3>3
  <2>5. CASE lo # 1
    <3>1. 1 # lo /\ 1 # mid /\ 1 # hi
      BY <2>2, <2>3, <2>5
    <3>2. ASSUME NEW w, Perm(base, w), w[1] = a[1], NEW i \in {lo, mid, hi}
          PROVE  Perm(base, Swap(w, mid, i)) /\ Swap(w, mid, i)[1] = a[1]
      <4>1. i \in 1 .. nel /\ i # 1
        BY <2>2, <2>3, <3>1, <3>2
      <4> QED
        BY <1>2, <2>3, <3>1, <3>2, <4>1, SwapAt
    <3> DEFINE w1 == IF cmp_res(a[mid], a[lo]) THEN Swap(a, mid, lo) ELSE a
               w2 == Swap(w1, mid, hi)
               w3 == Swap(w2, mid, lo)
    <3>3. Perm(base, w1) /\ w1[1] = a[1]
      BY <1>2, <3>2
    <3>4. Perm(base, w2) /\ w2[1] = a[1]
      <4> HIDE DEF w1
      <4> QED
        BY <3>2, <3>3
    <3>5. w3[1] = a[1]
      <4> HIDE DEF w2
      <4> QED
        BY <3>2, <3>4
    <3>6. a' \in {w1, w2, w3}
      BY <2>1 DEF MedianOfThree
    <3> HIDE DEF w1, w2, w3
    <3> QED
      BY <1>1, <1>3, <2>1, <3>3, <3>4, <3>5, <3>6
  <2> QED
    BY <2>4, <2>5
<1>6. CASE ScanLeft \/ ScanRight
  BY <1>1, <1>3, <1>6 DEF ScanLeft, ScanRight
<1>7. CASE Exchange
  <2>1. /\ pc = "exchange" /\ pc' # "first"
        /\ a' = IF left < right THEN Swap(a, left, right) ELSE a
    BY <1>7 DEF Exchange
  <2>2. /\ lo \in 1 .. nel /\ hi \in 1 .. nel /\ left \in lo + 1 .. hi
        /\ right \in lo .. hi - 1
    BY <2>1 DEF IInv, Parts, Dividing, Walls, Walking
  <2>3. left < right => left \in 1 .. nel /\ right \in 1 .. nel /\ left # 1 /\ right # 1
    BY <1>2, <2>2
  <2>4. CASE left < right
    <3>1. a' = Swap(a, left, right)
      BY <2>1, <2>4
    <3>0. left \in 1 .. Len(base) /\ right \in 1 .. Len(base) /\ left # 1 /\ right # 1
      BY <1>2, <2>3, <2>4
    <3>2. \A k \in 1 .. Len(base) : Swap(a, left, right)[k] = IF k = left THEN a[right]
                                     ELSE IF k = right THEN a[left] ELSE a[k]
      BY <1>2, <3>0, SwapAt
    <3>3. Swap(a, left, right)[1] = a[1]
      BY <1>2, <3>0, <3>2
    <3> QED
      BY <1>1, <1>3, <2>1, <3>1, <3>3
  <2>5. CASE ~(left < right)
    BY <1>1, <1>3, <2>1, <2>5
  <2> QED
    BY <2>4, <2>5
<1>8. CASE Split
  <2>1. a' = a /\ tmp' = tmp /\ tmp = 1
    BY <1>8 DEF Split, IInv, Parts, Dividing
  <2> QED
    BY <1>1, <1>3, <2>1
<1>9. CASE FindFirst
  <2>1. tmp = 1
    BY <1>3, <1>9 DEF FindFirst
  <2>2. CASE run <= Thresh
    <3>1. run \in 1 .. nel
      BY <1>2, <1>9, <2>2, ThreshFacts DEF FindFirst, IInv, Finding
    <3>2. a' = a /\ tmp' = tmp
      BY <1>4, <1>9, <2>1, <2>2, <3>1 DEF FindFirst
    <3> QED
      BY <1>1, <1>3, <2>1, <3>2
  <2>3. CASE ~(run <= Thresh)
    <3>1. a' = Swap(a, 1, 1) /\ pc' # "first"
      BY <1>9, <2>1, <2>3 DEF FindFirst
    <3>2. a'[1] = a[1]
      BY <1>2, <3>1, SwapAt
    <3> QED
      BY <1>1, <1>3, <3>1, <3>2
  <2> QED
    BY <2>2, <2>3
<1>10. CASE Insertion
  <2>1. pc' # "first" /\ (a' = a \/ a' = Insert(a, run, tmp + 1))
    BY <1>10 DEF Insertion
  <2>2. run \in 3 .. nel /\ tmp \in 1 .. run - 1
    BY <1>10 DEF Insertion, IInv, Inserting
  <2>3. run \in 1 .. nel /\ tmp + 1 \in 1 .. nel /\ tmp + 1 <= run /\ tmp + 1 > 1
    BY <1>2, <2>2
  <2>4. Insert(a, run, tmp + 1)[1] = a[1]
    BY <1>2, <2>3, InsertPerm
  <2> QED
    BY <1>1, <1>3, <2>1, <2>4
<1> QED
  BY <1>5, <1>6, <1>7, <1>8, <1>9, <1>10 DEF Next

LEMMA InvSorts == IInv /\ Growing /\ HeadStays => Sorts
<1> SUFFICES ASSUME IInv, Growing, HeadStays, pc = "done" PROVE a \in qsort(base)
  BY DEF Sorts
<1>1. /\ base \in Tables /\ nel = Len(base) /\ nel \in Nat /\ Perm(base, a)
      /\ \A k \in 1 .. nel : a[k] \in Nodes /\ Size[a[k]] \in Int
  BY Typed
<1>2. DOMAIN base = 1 .. nel /\ DOMAIN a = 1 .. nel
  BY <1>1, TableFacts, InTable
<1>3. a \in [DOMAIN base -> {base[i] : i \in DOMAIN base}]
  <2>1. a = [k \in 1 .. nel |-> a[k]]
    BY <1>1 DEF Perm
  <2>2. \A k \in 1 .. nel : a[k] \in {base[i] : i \in 1 .. nel}
    BY <1>1 DEF Perm
  <2> QED
    BY <1>2, <2>1, <2>2
<1>4. \A i \in DOMAIN base : \E j \in DOMAIN base : a[j] = base[i]
  BY <1>1, <1>2 DEF Perm
<1>5. \A i, j \in DOMAIN base : i < j => a[i] # a[j] /\ ~cmp_res(a[j], a[i])
  <2> SUFFICES ASSUME NEW i \in 1 .. nel, NEW j \in 1 .. nel, i < j
               PROVE  a[i] # a[j] /\ ~cmp_res(a[j], a[i])
    BY <1>2
  <2>1. Size[a[j]] <= Size[a[i]] /\ Size[a[j]] \in Int /\ Size[a[i]] \in Int
    BY <1>1 DEF Growing, Ordered
  <2>2. ~cmp_res(a[j], a[i])
    BY <2>1 DEF cmp_res
  <2>3. a[i] # a[j]
    BY <1>1 DEF Perm
  <2> QED
    BY <2>2, <2>3
<1>6. ASSUME base # <<>>, \A i \in DOMAIN base : ~cmp_res(base[i], base[1])
      PROVE  a[1] = base[1]
  <2>1. nel >= 1 /\ 1 \in 1 .. nel
    BY <1>1, <1>6, QsortAssumption
  <2>2. \A i \in 1 .. nel : Size[base[i]] \in Int
    BY <1>1, TableFacts
  <2>3. Greatest(base, base[1])
    BY <1>1, <1>2, <1>6, <2>1, <2>2 DEF Greatest, cmp_res
  <2> QED
    BY <2>1, <2>3 DEF HeadStays
<1> QED
  BY <1>3, <1>4, <1>5, <1>6 DEF qsort

(* Theorem: qsort returns the nodes in the order of cmp_res, and a node that none
   goes before stays first, for every table and threshold. *)
THEOREM SortCorrect == Spec => []Sorts
<1>1. Init => IInv /\ Growing /\ HeadStays
  <2> SUFFICES ASSUME Init PROVE Growing /\ HeadStays
    BY InitInv
  <2>1. nel \in Nat /\ pc # "insert" /\ (pc = "done" => nel = 0)
    BY TableFacts DEF Init, nel
  <2> QED
    BY <2>1 DEF Init, Growing, HeadStays, Ordered
<1>2. IInv /\ Growing /\ HeadStays /\ [Next]_vars => (IInv /\ Growing /\ HeadStays)'
  <2>1. UNCHANGED vars /\ Growing /\ HeadStays => (Growing /\ HeadStays)'
    BY DEF vars, Growing, HeadStays, nel
  <2> QED
    BY <2>1, NextInv, GrowingStep, HeadStep
<1> QED
  BY <1>1, <1>2, InvSorts, PTL DEF Spec

--------------------------------------------------------------------------------
(***************************************************************************)
(* The depth of the stack                                                  *)
(***************************************************************************)
(* The powers of two, as the numbers of subsets. *)
LEMMA PowersOfTwo ==
    ASSUME NEW n \in Nat
    PROVE  2 ^ 0 = 1 /\ 2 ^ n \in Nat /\ 2 ^ (n + 1) = 2 * 2 ^ n
<1> DEFINE S == SUBSET (1 .. n)
           With(X) == X \union {n + 1}
           T == {With(X) : X \in S}
<1>1. ASSUME NEW m \in Nat
      PROVE  IsFiniteSet(SUBSET (1 .. m)) /\ Cardinality(SUBSET (1 .. m)) = 2 ^ m
  <2>1. IsFiniteSet(1 .. m) /\ Cardinality(1 .. m) = m
    BY FS_Interval
  <2> QED
    BY <2>1, FS_SUBSET
<1>2. IsFiniteSet(S) /\ Cardinality(S) = 2 ^ n /\ 2 ^ n \in Nat
  BY <1>1, FS_CardinalityType
<1>3. IsFiniteSet(SUBSET (1 .. n + 1)) /\ Cardinality(SUBSET (1 .. n + 1)) = 2 ^ (n + 1)
  BY <1>1
<1>4. IsFiniteSet(T) /\ Cardinality(T) = Cardinality(S)
  <2> DEFINE f == [X \in S |-> With(X)]
  <2>1. \A X \in S : n + 1 \notin X
    OBVIOUS
  <2>2. \A X, Y \in S : With(X) = With(Y) => X = Y
    BY <2>1
  <2>3. f \in Bijection(S, T)
    <3> HIDE DEF S, With
    <3> QED
      BY <2>2 DEF Bijection, Injection, Surjection, IsInjective
  <2>4. ExistsBijection(S, T)
    BY <2>3 DEF ExistsBijection
  <2> HIDE DEF S, T
  <2> QED
    BY <1>2, <2>4, FS_Bijection
<1>5. S \union T = SUBSET (1 .. n + 1)
  <2>1. ASSUME NEW X \in SUBSET (1 .. n + 1) PROVE X \in S \union T
    <3>1. CASE n + 1 \notin X
      BY <3>1
    <3>2. CASE n + 1 \in X
      <4>1. X \ {n + 1} \in S /\ X = With(X \ {n + 1})
        BY <3>2
      <4> QED
        BY <4>1
    <3> QED
      BY <3>1, <3>2
  <2>2. ASSUME NEW X \in S PROVE X \in SUBSET (1 .. n + 1) /\ With(X) \in SUBSET (1 .. n + 1)
    <3>1. \A x \in X : x \in 1 .. n
      OBVIOUS
    <3>2. \A x \in X : x \in 1 .. n + 1
      BY <3>1, SMTT(30)
    <3>3. n + 1 \in 1 .. n + 1
      OBVIOUS
    <3> QED
      BY <3>2, <3>3, Zenon
  <2>3. \A X : X \in S \union T <=> X \in SUBSET (1 .. n + 1)
    BY <2>1, <2>2
  <2> HIDE DEF S, T
  <2> QED
    BY <2>3
<1>6. S \intersect T = {}
  <2>1. \A X \in S : n + 1 \notin X
    OBVIOUS
  <2>2. \A X \in T : n + 1 \in X
    OBVIOUS
  <2> HIDE DEF S, T
  <2> QED
    BY <2>1, <2>2
<1>7. Cardinality(S \union T) = Cardinality(S) + Cardinality(T) - Cardinality(S \intersect T)
  <2> HIDE DEF S, T
  <2> QED
    BY <1>2, <1>4, FS_Union
<1>8. 2 ^ 0 = 1
  OBVIOUS
<1> HIDE DEF S, T
<1>9. Cardinality(S \intersect T) = 0
  BY <1>6, FS_EmptySet
<1>10. Cardinality(S \union T) = 2 * Cardinality(S)
  <2>1. Cardinality(S) \in Nat
    BY <1>2, FS_CardinalityType
  <2> QED
    BY <1>4, <1>7, <1>9, <2>1
<1> QED
  BY <1>2, <1>3, <1>5, <1>8, <1>10, Zenon

LEMMA Smaller ==
    ASSUME NEW x \in Nat, NEW y \in Nat, NEW p \in Nat, NEW n \in Nat, y * p <= n
    PROVE  /\ x <= y => x * p <= n
           /\ 2 * x <= y => x * (2 * p) <= n
<1>1. \A u, v \in Nat : u <= v => u * p <= v * p
  <2> TAKE u, v \in Nat
  <2> HAVE u <= v
  <2>1. v * p = u * p + (v - u) * p /\ v - u \in Nat
    OBVIOUS
  <2>2. (v - u) * p \in Nat /\ u * p \in Nat
    BY <2>1
  <2> QED
    BY <2>1, <2>2
<1>2. x * p \in Nat /\ y * p \in Nat /\ 2 * x \in Nat /\ (2 * x) * p \in Nat
  OBVIOUS
<1>3. x * (2 * p) = (2 * x) * p
  OBVIOUS
<1>4. x <= y => x * p <= y * p
  BY <1>1
<1>5. 2 * x <= y => (2 * x) * p <= y * p
  BY <1>1, <1>2
<1> QED
  BY <1>2, <1>3, <1>4, <1>5

(* Each waiting part was the longer one when it was put on the stack, and all that
   is above it comes from the other one. *)
Halved ==
    Dividing =>
        /\ (hi - lo + 1) * 2 ^ Len(stack) <= nel
        /\ \A i \in DOMAIN stack :
              (stack[i][2] - stack[i][1] + 1) * 2 ^ (Len(stack) - i) <= nel

LEMMA PopHalved ==
    ASSUME IInv, Halved, pc = "split", stack # <<>>,
           NEW l, NEW h, NEW s, l = Head(stack)[1], h = Head(stack)[2], s = Tail(stack)
    PROVE  /\ (h - l + 1) * 2 ^ Len(s) <= nel
           /\ \A i \in DOMAIN s : (s[i][2] - s[i][1] + 1) * 2 ^ (Len(s) - i) <= nel
<1>1. stack \in Seq((1 .. nel) \X (1 .. nel))
  BY DEF IInv, Parts
<1>2. /\ Len(stack) \in Nat /\ Len(stack) >= 1 /\ Len(s) = Len(stack) - 1
      /\ DOMAIN s = 1 .. Len(s) /\ DOMAIN stack = 1 .. Len(stack)
      /\ Head(stack) = stack[1] /\ \A i \in DOMAIN s : s[i] = stack[i + 1]
  BY <1>1
<1>3. \A i \in DOMAIN stack :
         (stack[i][2] - stack[i][1] + 1) * 2 ^ (Len(stack) - i) <= nel
  BY DEF Halved, Dividing
<1>4. (h - l + 1) * 2 ^ Len(s) <= nel
  BY <1>2, <1>3
<1>5. ASSUME NEW i \in DOMAIN s PROVE (s[i][2] - s[i][1] + 1) * 2 ^ (Len(s) - i) <= nel
  <2>1. i + 1 \in DOMAIN stack /\ Len(stack) - (i + 1) = Len(s) - i /\ s[i] = stack[i + 1]
    BY <1>2
  <2>2. (stack[i + 1][2] - stack[i + 1][1] + 1) * 2 ^ (Len(stack) - (i + 1)) <= nel
    BY <1>3, <2>1
  <2> QED
    BY <2>1, <2>2
<1> QED
  BY <1>4, <1>5

LEMMA PushHalved ==
    ASSUME IInv, Halved, pc = "split",
           NEW x \in (1 .. nel) \X (1 .. nel), NEW l \in 1 .. nel, NEW h \in 1 .. nel,
           l <= h, x[1] <= x[2],
           x[2] - x[1] <= hi - lo, 2 * (h - l + 1) <= hi - lo + 1,
           NEW s, s = <<x>> \o stack
    PROVE  /\ (h - l + 1) * 2 ^ Len(s) <= nel
           /\ \A i \in DOMAIN s : (s[i][2] - s[i][1] + 1) * 2 ^ (Len(s) - i) <= nel
<1>1. /\ stack \in Seq((1 .. nel) \X (1 .. nel)) /\ nel \in Nat
      /\ lo \in 1 .. nel /\ hi \in 1 .. nel /\ lo < hi
  BY Typed DEF IInv, Parts, Dividing
<1>2. /\ Len(stack) \in Nat /\ Len(s) = Len(stack) + 1 /\ DOMAIN s = 1 .. Len(s)
      /\ DOMAIN stack = 1 .. Len(stack) /\ s[1] = x
      /\ \A i \in DOMAIN s : i # 1 => s[i] = stack[i - 1]
  BY <1>1
<1>3. /\ (hi - lo + 1) * 2 ^ Len(stack) <= nel
      /\ \A i \in DOMAIN stack :
            (stack[i][2] - stack[i][1] + 1) * 2 ^ (Len(stack) - i) <= nel
  BY DEF Halved, Dividing
<1> DEFINE p == 2 ^ Len(stack)
<1>4. p \in Nat /\ 2 ^ Len(s) = 2 * p
  BY <1>2, PowersOfTwo
<1>5. /\ hi - lo + 1 \in Nat /\ h - l + 1 \in Nat /\ x[2] - x[1] + 1 \in Nat
      /\ x[2] - x[1] + 1 <= hi - lo + 1
  BY <1>1
<1> HIDE DEF p
<1>6. (hi - lo + 1) * p <= nel
  BY <1>3 DEF p
<1>0. \A u, v \in Nat : v * p <= nel /\ 2 * u <= v => u * (2 * p) <= nel
  BY <1>1, <1>4, Smaller
<1>13. \A u, v \in Nat : v * p <= nel /\ u <= v => u * p <= nel
  BY <1>1, <1>4, Smaller
<1> DEFINE now == h - l + 1
           wait == x[2] - x[1] + 1
           was == hi - lo + 1
<1>11. now \in Nat /\ wait \in Nat /\ was \in Nat /\ 2 * now <= was /\ wait <= was
  BY <1>5
<1>12. was * p <= nel
  BY <1>6
<1>7. (h - l + 1) * (2 * p) <= nel
  <2>1. now * (2 * p) <= nel
    <3> HIDE DEF now, wait, was
    <3> QED
      BY <1>0, <1>11, <1>12
  <2> QED
    BY <2>1
<1>8. (x[2] - x[1] + 1) * p <= nel
  <2>1. wait * p <= nel
    <3> HIDE DEF now, wait, was
    <3> QED
      BY <1>11, <1>12, <1>13
  <2> QED
    BY <2>1
<1>9. ASSUME NEW i \in DOMAIN s PROVE (s[i][2] - s[i][1] + 1) * 2 ^ (Len(s) - i) <= nel
  <2>1. CASE i = 1
    <3>1. Len(s) - i = Len(stack) /\ s[i] = x
      BY <1>2, <2>1
    <3> QED
      BY <1>8, <3>1 DEF p
  <2>2. CASE i # 1
    <3>1. i - 1 \in DOMAIN stack /\ Len(stack) - (i - 1) = Len(s) - i /\ s[i] = stack[i - 1]
      BY <1>2, <2>2
    <3>2. (stack[i - 1][2] - stack[i - 1][1] + 1) * 2 ^ (Len(stack) - (i - 1)) <= nel
      BY <1>3, <3>1
    <3> QED
      BY <3>1, <3>2
  <2> QED
    BY <2>1, <2>2
<1>10. (h - l + 1) * 2 ^ Len(s) <= nel
  BY <1>4, <1>7
<1> QED
  BY <1>9, <1>10

LEMMA HalvedStep == IInv /\ Halved /\ Next => Halved'
<1> SUFFICES ASSUME IInv, Halved, Next PROVE Halved'
  OBVIOUS
<1>1. base' = base /\ nel' = nel
  BY DEF Next, Median, ScanLeft, ScanRight, Exchange, Split, FindFirst, Insertion, nel
<1>2. CASE Median \/ ScanLeft \/ ScanRight \/ Exchange
  <2>1. Dividing /\ UNCHANGED <<lo, hi, stack>>
    BY <1>2 DEF Median, ScanLeft, ScanRight, Exchange, Dividing
  <2> QED
    BY <1>1, <2>1 DEF Halved
<1>3. CASE FindFirst \/ Insertion
  <2>1. ~Dividing'
    BY <1>3 DEF FindFirst, Insertion, Dividing
  <2> QED
    BY <2>1 DEF Halved
<1>4. CASE Split
  <2>1. /\ pc = "split" /\ nel \in Nat /\ lo \in 1 .. nel /\ hi \in 1 .. nel /\ lo < hi
        /\ left \in lo + 1 .. hi /\ right \in lo .. hi - 1 /\ right < left
        /\ stack \in Seq((1 .. nel) \X (1 .. nel))
    BY <1>4, Typed DEF Split, IInv, Parts, Dividing, Walls, Walking
  <2>2. /\ (hi - lo + 1) * 2 ^ Len(stack) <= nel
        /\ \A i \in DOMAIN stack :
              (stack[i][2] - stack[i][1] + 1) * 2 ^ (Len(stack) - i) <= nel
    BY <2>1 DEF Halved, Dividing
  <2>3. CASE Short(lo, right) /\ Short(left, hi)
    <3>1. CASE stack = <<>>
      <4>1. ~Dividing'
        BY <1>4, <2>3, <3>1 DEF Split, Dividing
      <4> QED
        BY <4>1 DEF Halved
    <3>2. CASE stack # <<>>
      <4>1. lo' = Head(stack)[1] /\ hi' = Head(stack)[2] /\ stack' = Tail(stack)
        BY <1>4, <2>3, <3>2 DEF Split
      <4> QED
        BY <1>1, <2>1, <3>2, <4>1, PopHalved DEF Halved
    <3> QED
      BY <3>1, <3>2
  <2>4. ASSUME lo' \in lo .. hi, hi' \in lo .. hi, lo' <= hi', stack' = stack
        PROVE  Halved'
    <3>0. \A l, h \in lo .. hi : l <= h => h - l + 1 \in Nat /\ h - l + 1 <= hi - lo + 1
      BY <2>1
    <3>1. /\ hi' - lo' + 1 \in Nat /\ hi - lo + 1 \in Nat /\ hi' - lo' + 1 <= hi - lo + 1
          /\ Len(stack) \in Nat
      <4>1. hi' - lo' + 1 \in Nat /\ hi' - lo' + 1 <= hi - lo + 1
        BY <2>4, <3>0
      <4>2. hi - lo + 1 \in Nat
        BY <2>1
      <4>3. Len(stack) \in Nat
        BY <2>1
      <4> QED
        BY <4>1, <4>2, <4>3
    <3> DEFINE p == 2 ^ Len(stack)
    <3>2. p \in Nat
      BY <3>1, PowersOfTwo
    <3> HIDE DEF p
    <3>3. (hi - lo + 1) * p <= nel
      BY <2>2 DEF p
    <3>4. (hi' - lo' + 1) * p <= nel
      <4>1. \A u, v \in Nat : v * p <= nel /\ u <= v => u * p <= nel
        BY <2>1, <3>2, Smaller
      <4> QED
        BY <3>1, <3>3, <4>1
    <3> QED
      BY <1>1, <2>2, <2>4, <3>4 DEF Halved, p
  <2>5. CASE Short(lo, right) /\ ~Short(left, hi)
    BY <1>4, <2>1, <2>4, <2>5 DEF Split
  <2>6. CASE ~Short(lo, right) /\ Short(left, hi)
    BY <1>4, <2>1, <2>4, <2>6 DEF Split
  <2>7. CASE ~Short(lo, right) /\ ~Short(left, hi)
    <3>1. lo < right /\ left < hi /\ MAX_THRESH \in Nat
      BY <2>1, <2>7, QsortAssumption DEF Short
    <3>2. CASE RightIsShorter
      <4>1. lo' = left /\ hi' = hi /\ stack' = <<<<lo, right>>>> \o stack
        BY <1>4, <2>7, <3>2 DEF Split
      <4> DEFINE x == <<lo, right>>
      <4>2. /\ x \in (1 .. nel) \X (1 .. nel) /\ x[1] = lo /\ x[2] = right
            /\ left \in 1 .. nel
        BY <2>1
      <4>3. 2 * (hi - left + 1) <= hi - lo + 1
        BY <2>1, <3>2 DEF RightIsShorter
      <4>4. stack' = <<x>> \o stack
        BY <4>1
      <4> HIDE DEF x
      <4>5. x[1] <= x[2] /\ x[2] - x[1] <= hi - lo /\ left <= hi
        BY <2>1, <3>1, <4>2
      <4> QED
        BY <1>1, <2>1, <4>1, <4>2, <4>3, <4>4, <4>5, PushHalved DEF Halved
    <3>3. CASE ~RightIsShorter
      <4>1. lo' = lo /\ hi' = right /\ stack' = <<<<left, hi>>>> \o stack
        BY <1>4, <2>7, <3>3 DEF Split
      <4> DEFINE x == <<left, hi>>
      <4>2. /\ x \in (1 .. nel) \X (1 .. nel) /\ x[1] = left /\ x[2] = hi
            /\ right \in 1 .. nel
        BY <2>1
      <4>3. 2 * (right - lo + 1) <= hi - lo + 1
        BY <2>1, <3>3 DEF RightIsShorter
      <4>4. stack' = <<x>> \o stack
        BY <4>1
      <4> HIDE DEF x
      <4>5. x[1] <= x[2] /\ x[2] - x[1] <= hi - lo /\ lo <= right
        BY <2>1, <3>1, <4>2
      <4> QED
        BY <1>1, <2>1, <4>1, <4>2, <4>3, <4>4, <4>5, PushHalved DEF Halved
    <3> QED
      BY <3>2, <3>3
  <2> QED
    BY <2>3, <2>5, <2>6, <2>7
<1> QED
  BY <1>2, <1>3, <1>4 DEF Next

(* Theorem: whatever the table, the part that is divided is at most half as long for
   each part that waits: a stack of as many entries as a length has bits is enough. *)
THEOREM StackSuffices == Spec => []StackHalves
<1>1. Init => Halved
  <2> SUFFICES ASSUME Init PROVE Halved
    OBVIOUS
  <2>1. nel \in Nat /\ lo = 1 /\ hi = nel /\ stack = <<>>
    BY TableFacts DEF Init, nel
  <2>2. 2 ^ Len(stack) = 1 /\ DOMAIN stack = {}
    BY <2>1, PowersOfTwo
  <2>3. hi - lo + 1 = nel
    BY <2>1
  <2> QED
    BY <2>1, <2>2, <2>3 DEF Halved
<1>2. IInv /\ Halved /\ [Next]_vars => (IInv /\ Halved)'
  <2>1. UNCHANGED vars /\ Halved => Halved'
    BY DEF vars, Halved, Dividing, nel
  <2> QED
    BY <2>1, NextInv, HalvedStep
<1>3. Halved => StackHalves
  BY DEF Halved, StackHalves, Dividing
<1> QED
  BY <1>1, <1>2, <1>3, InitInv, PTL DEF Spec
================================================================================
