---------------------------- MODULE SelectionProofs ----------------------------
(***************************************************************************)
(* What the dialog promises for every table, list box and sequence of      *)
(* clicks: what is confirmed is what is highlighted, the list box shows the *)
(* whole list with the choice in sight, and starts on the current mode.    *)
(***************************************************************************)
EXTENDS Selection, FiniteSetTheorems, WellFoundedInduction, TLAPS

(* Before the dialog is open: res_tab is a node of the list to be shown; the
   depths still to be scanned hold no marked node; cur_res is the marked node
   of the list to be shown, and that list will be shown from its head. *)
Starting ==
    pc \in {"default", "select"} =>
        /\ must_shutdown = 0
        /\ \A d \in Depths : scan <= d => InList(d) \intersect selected = {}
        /\ cur_res = NULL => selected = {}
        /\ cur_res # NULL =>
              /\ pc = "select"
              /\ bpp_index < scan
              /\ res_tab = list[bpp_index][1]
              /\ InList(bpp_index) \intersect selected = {cur_res}

(* res_tab is in the list of the depth shown, or no depth has modes. *)
Loaded ==
    /\ pc = "default" => res_tab = NULL
    /\ pc # "default" =>
          \/ NonEmpty = {} /\ res_tab = NULL
          \/ res_tab \in InList(bpp_index)

(* Once it is open: the list box shows the chain from res_tab on, the only
   node marked in the whole list is cur_res, and it is in that chain. *)
Showing ==
    pc \in {"open", "closed"} =>
        /\ color_label = bpp_index
        /\ lbox_items = res_tab
        /\ InList(bpp_index) \intersect selected = {cur_res} \ {NULL}
        /\ cur_res # NULL => cur_res \in Chain(lbox_items)
        /\ ok_enabled <=> cur_res # NULL

IInv ==
    /\ TypeOK
    /\ Disjoint(list)
    /\ AtMostOne
    /\ Starting
    /\ Loaded
    /\ Showing
    /\ must_shutdown = 1 => pc = "closed" /\ cur_res # NULL

(* A set of naturals that is not empty has a least member: Smallest finds it. *)
LEMMA SmallestIsLeast ==
    ASSUME NEW S, S \subseteq Nat, S # {}
    PROVE  Smallest(S) \in S /\ \A j \in S : Smallest(S) <= j
<1>1. IsWellFoundedOn(OpToRel(<, Nat), Nat)
  BY NatLessThanWellFounded
<1>2. \E k \in S : \A j \in S : <<j, k>> \notin OpToRel(<, Nat)
  BY <1>1, WFMin
<1>3. \E k \in S : \A j \in S : k <= j
  <2>1. PICK k \in S : \A j \in S : <<j, k>> \notin OpToRel(<, Nat)
    BY <1>2
  <2>2. ASSUME NEW j \in S PROVE k <= j
    <3>1. ~(j < k)
      BY <2>1 DEF OpToRel
    <3> QED
      BY <3>1
  <2> QED
    BY <2>2
<1> QED
  BY <1>3 DEF Smallest
--------------------------------------------------------------------------------
(***************************************************************************)
(* The chains                                                              *)
(***************************************************************************)
(* The chain from a node of a list stays in that list. *)
LEMMA ChainInList ==
    ASSUME Disjoint(list), NEW d \in Depths, NEW p \in InList(d)
    PROVE  Chain(p) \subseteq InList(d)
<1> SUFFICES ASSUME NEW m \in Chain(p) PROVE m \in InList(d)
  OBVIOUS
<1>1. PICK e \in Depths : \E i, j \in DOMAIN list[e] :
          i <= j /\ list[e][i] = p /\ list[e][j] = m
  BY DEF Chain
<1>2. e = d
  BY <1>1 DEF Disjoint, InList
<1> QED
  BY <1>1, <1>2 DEF InList

(* The chain from the head of a list is the whole list. *)
LEMMA ChainFromHead ==
    ASSUME list \in [Depths -> Seq(Modes)], Disjoint(list),
           NEW d \in Depths, list[d] # <<>>
    PROVE  /\ 1 \in DOMAIN list[d]
           /\ list[d][1] \in InList(d)
           /\ Chain(list[d][1]) = InList(d)
<1>1. list[d] \in Seq(Modes) /\ 1 \in DOMAIN list[d]
  OBVIOUS
<1>2. list[d][1] \in InList(d)
  BY <1>1 DEF InList
<1>3. Chain(list[d][1]) \subseteq InList(d)
  BY <1>2, ChainInList
<1>4. ASSUME NEW m \in InList(d) PROVE m \in Chain(list[d][1])
  <2>1. PICK j \in DOMAIN list[d] : list[d][j] = m
    BY <1>4 DEF InList
  <2>2. j \in Nat /\ 1 <= j /\ m \in Modes
    BY <1>1, <2>1
  <2> QED
    BY <1>1, <2>1, <2>2 DEF Chain
<1> QED
  BY <1>1, <1>2, <1>3, <1>4

(* A node of a list is the first of the chain that starts there. *)
LEMMA ChainHasStart ==
    ASSUME list \in [Depths -> Seq(Modes)], NEW d \in Depths,
           NEW p \in InList(d)
    PROVE  p \in Chain(p) /\ p \in Modes
<1>1. PICK i \in DOMAIN list[d] : list[d][i] = p
  BY DEF InList
<1>2. i \in Nat /\ p \in Modes
  BY <1>1
<1> QED
  BY <1>1, <1>2 DEF Chain

(* The null pointer starts no chain. *)
LEMMA ChainOfNull ==
    ASSUME list \in [Depths -> Seq(Modes)]
    PROVE  Chain(NULL) = {}
<1> SUFFICES ASSUME NEW d \in Depths, NEW i \in DOMAIN list[d] 
             PROVE list[d][i] # NULL
  BY DEF Chain
<1>1. list[d][i] \in Modes
  OBVIOUS
<1> QED
  BY <1>1, SelectionAssumption

(* Sorting a list, with or without memory for the table, permutes it. *)
LEMMA SortPermutes ==
    ASSUME NEW s \in Seq(Modes), NEW failed, NEW t \in sort_restab(s, failed),
           \A i, j \in DOMAIN s : s[i] = s[j] => i = j
    PROVE  /\ t \in Seq(Modes)
           /\ DOMAIN t = DOMAIN s
           /\ {t[i] : i \in DOMAIN t} = {s[i] : i \in DOMAIN s}
           /\ \A i, j \in DOMAIN t : t[i] = t[j] => i = j
<1>1. CASE t = s
  BY <1>1
<1>2. CASE t \in qsort(s)
  <2>1. t \in [DOMAIN s -> {s[i] : i \in DOMAIN s}]
    BY <1>2 DEF qsort
  <2>2. DOMAIN s = 1 .. Len(s) /\ Len(s) \in Nat
    OBVIOUS
  <2>3. t \in [1 .. Len(s) -> Modes]
    BY <2>1, <2>2
  <2>4. t \in Seq(Modes)
    BY <2>2, <2>3
  <2>5. \A i \in DOMAIN s : \E j \in DOMAIN s : t[j] = s[i]
    BY <1>2 DEF qsort
  <2>6. \A i, j \in DOMAIN s : i < j => t[i] # t[j]
    BY <1>2 DEF qsort
  <2>7. DOMAIN t = DOMAIN s
    BY <2>1
  <2>8. {t[i] : i \in DOMAIN t} = {s[i] : i \in DOMAIN s}
    BY <2>1, <2>5, <2>7
  <2>9. \A i, j \in DOMAIN t : t[i] = t[j] => i = j
    <3> SUFFICES ASSUME NEW i \in DOMAIN t, NEW j \in DOMAIN t, i # j
                 PROVE t[i] # t[j]
      OBVIOUS
    <3>1. i \in Nat /\ j \in Nat
      BY <2>2, <2>7
    <3>2. i < j \/ j < i
      BY <3>1
    <3> QED
      BY <2>6, <2>7, <3>2
  <2> QED
    BY <2>4, <2>7, <2>8, <2>9
<1>3. t = s \/ t \in qsort(s)
  BY SelectionAssumption DEF sort_restab
<1> QED
  BY <1>1, <1>2, <1>3

(* Sorting one list keeps the members of every list. *)
LEMMA SortOneList ==
    ASSUME list \in [Depths -> Seq(Modes)], Disjoint(list),
           NEW d \in Depths, NEW failed, NEW s \in sort_restab(list[d], failed),
           list' = [list EXCEPT ![d] = s]
    PROVE  /\ list' \in [Depths -> Seq(Modes)]
           /\ Disjoint(list')
           /\ \A e \in Depths : InList(e)' = InList(e)
           /\ NonEmpty' = NonEmpty
           /\ list'[d] = s
           /\ s \in Seq(Modes)
           /\ {s[i] : i \in DOMAIN s} = InList(d)
<1>1. \A i, j \in DOMAIN list[d] : list[d][i] = list[d][j] => i = j
  BY DEF Disjoint
<1>2. /\ s \in Seq(Modes)
      /\ DOMAIN s = DOMAIN list[d]
      /\ {s[i] : i \in DOMAIN s} = {list[d][i] : i \in DOMAIN list[d]}
      /\ \A i, j \in DOMAIN s : s[i] = s[j] => i = j
  <2>1. list[d] \in Seq(Modes)
    OBVIOUS
  <2> QED
    BY <1>1, <2>1, SortPermutes
<1>3. list' \in [Depths -> Seq(Modes)] /\ list'[d] = s
  BY <1>2
<1>4. \A e \in Depths : e # d => list'[e] = list[e]
  OBVIOUS
<1>5. ASSUME NEW e \in Depths PROVE InList(e)' = InList(e)
  <2>1. CASE e = d
    <3>1. list'[e] = s
      BY <1>3, <2>1
    <3>2. InList(e)' = {s[i] : i \in DOMAIN s}
      BY <3>1 DEF InList
    <3>3. InList(e) = {list[d][i] : i \in DOMAIN list[d]}
      BY <2>1 DEF InList
    <3> QED
      BY <1>2, <3>2, <3>3
  <2>2. CASE e # d
    BY <2>2, <1>4 DEF InList
  <2> QED
    BY <2>1, <2>2
<1>6. Disjoint(list')
  <2> SUFFICES ASSUME NEW e \in Depths, NEW f \in Depths,
                      NEW i \in DOMAIN list'[e], NEW j \in DOMAIN list'[f],
                      list'[e][i] = list'[f][j]
               PROVE  e = f /\ i = j
    BY DEF Disjoint
  <2>1. list'[e][i] \in InList(e)' /\ list'[f][j] \in InList(f)'
    BY DEF InList
  <2>2. list'[e][i] \in InList(e) /\ list'[f][j] \in InList(f)
    BY <1>5, <2>1
  <2>3. e = f
    BY <2>2 DEF InList, Disjoint
  <2>4. CASE e = d
    BY <2>3, <2>4, <1>2, <1>3
  <2>5. CASE e # d
    BY <2>3, <2>5, <1>4 DEF Disjoint
  <2> QED
    BY <2>3, <2>4, <2>5
<1>7. NonEmpty' = NonEmpty
  <2>1. \A e \in Depths : list[e] # <<>> <=> InList(e) # {}
    <3>1. ASSUME NEW e \in Depths PROVE list[e] # <<>> <=> InList(e) # {}
      <4>1. list[e] \in Seq(Modes)
        OBVIOUS
      <4>2. list[e] # <<>> <=> 1 \in DOMAIN list[e]
        BY <4>1
      <4>3. list[e] = <<>> => DOMAIN list[e] = {}
        BY <4>1
      <4> QED
        BY <4>2, <4>3 DEF InList
    <3> QED
      BY <3>1
  <2>2. \A e \in Depths : list'[e] # <<>> <=> InList(e)' # {}
    <3>1. ASSUME NEW e \in Depths PROVE list'[e] # <<>> <=> InList(e)' # {}
      <4>1. list'[e] \in Seq(Modes)
        BY <1>3
      <4>2. list'[e] # <<>> <=> 1 \in DOMAIN list'[e]
        BY <4>1
      <4>3. list'[e] = <<>> => DOMAIN list'[e] = {}
        BY <4>1
      <4> QED
        BY <4>2, <4>3 DEF InList
    <3> QED
      BY <3>1
  <2> QED
    BY <2>1, <2>2, <1>5 DEF NonEmpty
<1> QED
  BY <1>2, <1>3, <1>5, <1>6, <1>7 DEF InList

(* There are finitely many depths. *)
LEMMA NonEmptyFinite == IsFiniteSet(NonEmpty)
<1>1. MAX_DEPTHS - 1 \in Int
  BY SelectionAssumption
<1>2. IsFiniteSet(Depths)
  BY <1>1, FS_Interval DEF Depths
<1>3. NonEmpty \in SUBSET Depths
  BY DEF NonEmpty
<1> QED
  BY <1>2, <1>3, FS_Subset

(* The counts and offsets of the dialog are numbers. *)
LEMMA ChainCount ==
    ASSUME NEW p
    PROVE  count_res(p) \in Nat
<1>1. IsFiniteSet(Chain(p))
  BY FS_Subset, SelectionAssumption DEF Chain
<1> QED
  BY <1>1, FS_CardinalityType DEF count_res

LEMMA ScrollIsNat ==
    ASSUME NEW p
    PROVE  ScrollTo(selected_res_index(p)) \in Nat
<1> DEFINE K == {k \in 0 .. count_res(p) - 1 :
                     \E m \in selected : Reach(p, k, m)}
<1>1. K \subseteq Nat
  BY ChainCount
<1>2. selected_res_index(p) \in Nat \union {-1}
  <2>1. CASE K = {}
    BY <2>1 DEF selected_res_index
  <2>2. CASE K # {}
    <3>1. Smallest(K) \in Nat
      BY <1>1, <2>2, SmallestIsLeast
    <3> QED
      BY <2>2, <3>1 DEF selected_res_index
  <2> QED
    BY <2>1, <2>2
<1> QED
  BY <1>2, SelectionAssumption DEF ScrollTo

--------------------------------------------------------------------------------
(***************************************************************************)
(* IInv is inductive                                                       *)
(***************************************************************************)
LEMMA InitIInv == Init => IInv
<1> SUFFICES ASSUME Init PROVE IInv
  OBVIOUS
<1> USE DEF Init
<1>1. list \in [Depths -> Seq(Modes)] /\ Disjoint(list)
  BY SelectionAssumption
<1>2. 0 \in Depths /\ 0 \in 0 .. MAX_DEPTHS
  BY SelectionAssumption DEF Depths
<1>3. TypeOK
  BY <1>1, <1>2 DEF TypeOK
<1> QED
  BY <1>1, <1>3 DEF IInv, AtMostOne, Starting, Loaded, Showing

LEMMA DefaultBestIInv == IInv /\ DefaultBest => IInv'
<1> SUFFICES ASSUME IInv, DefaultBest PROVE IInv'
  OBVIOUS
<1> USE DEF DefaultBest, initVars, boxVars
<1>1. /\ TypeOK /\ Disjoint(list) /\ pc = "default" /\ cur_res = NULL
      /\ selected = {} /\ must_shutdown = 0
  BY DEF IInv, Starting
<1>2. CASE NonEmpty = {} /\ UNCHANGED <<list, bpp_index, res_tab, taken>>
  <2>1. res_tab = NULL
    BY <1>1 DEF IInv, Loaded
  <2> QED
    BY <1>1, <1>2, <2>1 DEF IInv, TypeOK, AtMostOne, Starting, Loaded,
                        Showing, InList, NonEmpty
<1>3. CASE \E best \in NonEmpty, failed \in MallocFails :
             \E s \in sort_restab(list[best], failed) :
                /\ list' = [list EXCEPT ![best] = s]
                /\ bpp_index' = best
                /\ res_tab' = s[1]
                /\ taken' = IF failed THEN "unsorted" ELSE "sorted"
  <2>0. PICK best \in NonEmpty, failed \in MallocFails :
             \E s \in sort_restab(list[best], failed) :
                /\ list' = [list EXCEPT ![best] = s]
                /\ bpp_index' = best
                /\ res_tab' = s[1]
                /\ taken' = IF failed THEN "unsorted" ELSE "sorted"
    BY <1>3
  <2>1. PICK s \in sort_restab(list[best], failed) :
             /\ list' = [list EXCEPT ![best] = s]
             /\ bpp_index' = best
             /\ res_tab' = s[1]
             /\ taken' = IF failed THEN "unsorted" ELSE "sorted"
    BY <2>0
  <2>2. best \in Depths /\ list[best] # <<>>
    BY DEF NonEmpty
  <2>3. /\ list' \in [Depths -> Seq(Modes)]
        /\ Disjoint(list')
        /\ \A e \in Depths : InList(e)' = InList(e)
        /\ NonEmpty' = NonEmpty
        /\ list'[best] = s /\ s \in Seq(Modes)
    BY <1>1, <2>1, <2>2, SortOneList DEF TypeOK
  <2>4. s # <<>>
    BY <2>1, <2>3 DEF NonEmpty
  <2>5. 1 \in DOMAIN s /\ s[1] \in Modes
    BY <2>3, <2>4
  <2>6. res_tab' \in InList(bpp_index)'
    BY <2>1, <2>3, <2>5 DEF InList
  <2>7. TypeOK'
    BY <1>1, <2>1, <2>2, <2>3, <2>5 DEF TypeOK
  <2> QED
    BY <1>1, <2>3, <2>6, <2>7 DEF IInv, AtMostOne, Starting, Loaded, Showing
<1> QED
  BY <1>2, <1>3

LEMMA SelectCurrentIInv == IInv /\ SelectCurrent => IInv'
<1> SUFFICES ASSUME IInv, SelectCurrent PROVE IInv'
  OBVIOUS
<1> USE DEF SelectCurrent, initVars, boxVars
<1>0. TypeOK /\ Disjoint(list) /\ AtMostOne /\ Starting /\ Loaded
  BY DEF IInv
<1>1. /\ TypeOK /\ Disjoint(list) /\ pc = "select" /\ pc' = "select"
      /\ scan \in Depths /\ scan' = scan + 1 /\ must_shutdown' = 0
      /\ AtMostOne /\ Starting /\ Loaded
  <2>1. must_shutdown = 0
    BY <1>0 DEF Starting
  <2> QED
    BY <1>0, <2>1
<1>2a. PICK failed \in MallocFails : \E s \in sort_restab(list[scan], failed) :
          /\ list' = [list EXCEPT ![scan] = s]
          /\ \/ /\ \A i \in DOMAIN s : ~IsCurrent(s[i])
                /\ taken' = Retaken(failed)
                /\ UNCHANGED <<cur_res, selected, bpp_index, res_tab>>
             \/ \E i \in DOMAIN s :
                   /\ IsCurrent(s[i])
                   /\ \A j \in DOMAIN s : j < i => ~IsCurrent(s[j])
                   /\ cur_res' = s[i]
                   /\ selected' = selected \union {s[i]}
                   /\ bpp_index' = scan
                   /\ res_tab' = s[1]
                   /\ taken' = "sorted"
  OBVIOUS
<1>2. PICK s \in sort_restab(list[scan], failed) :
          /\ list' = [list EXCEPT ![scan] = s]
          /\ \/ /\ \A i \in DOMAIN s : ~IsCurrent(s[i])
                /\ taken' = Retaken(failed)
                /\ UNCHANGED <<cur_res, selected, bpp_index, res_tab>>
             \/ \E i \in DOMAIN s :
                   /\ IsCurrent(s[i])
                   /\ \A j \in DOMAIN s : j < i => ~IsCurrent(s[j])
                   /\ cur_res' = s[i]
                   /\ selected' = selected \union {s[i]}
                   /\ bpp_index' = scan
                   /\ res_tab' = s[1]
                   /\ taken' = "sorted"
  BY <1>2a
<1>3. /\ list' \in [Depths -> Seq(Modes)]
      /\ Disjoint(list')
      /\ \A e \in Depths : InList(e)' = InList(e)
      /\ NonEmpty' = NonEmpty
      /\ list'[scan] = s /\ s \in Seq(Modes)
      /\ {s[i] : i \in DOMAIN s} = InList(scan)
  <2>1. list \in [Depths -> Seq(Modes)] /\ Disjoint(list) /\ scan \in Depths
    BY <1>1 DEF TypeOK
  <2>2. list' = [list EXCEPT ![scan] = s]
    BY <1>2
  <2> HIDE DEF SelectCurrent
  <2> QED
    BY <2>1, <2>2, SortOneList
<1>4. scan' \in 0 .. MAX_DEPTHS /\ taken' \in {"sorted", "unsorted", "too early"}
  <2>1. taken \in {"sorted", "unsorted", "too early"}
    BY <1>1 DEF TypeOK
  <2>2. taken' = "sorted" \/ taken' = Retaken(failed)
    BY <1>2
  <2> HIDE DEF SelectCurrent
  <2>3. taken' \in {"sorted", "unsorted", "too early"}
    BY <2>1, <2>2 DEF Retaken
  <2>4. scan' \in 0 .. MAX_DEPTHS
    BY <1>1, SelectionAssumption DEF Depths
  <2> QED
    BY <2>3, <2>4
<1>5. \A d \in Depths : scan' <= d => scan <= d /\ d # scan
  BY <1>1 DEF Depths
<1>6. CASE UNCHANGED <<cur_res, selected, bpp_index, res_tab>>
  <2>1. TypeOK'
    BY <1>1, <1>3, <1>4, <1>6 DEF TypeOK
  <2>2. AtMostOne'
    BY <1>1, <1>3, <1>6 DEF AtMostOne
  <2>3. bpp_index < scan => list'[bpp_index] = list[bpp_index]
    <3>1. list' = [list EXCEPT ![scan] = s]
      BY <1>2
    <3> HIDE DEF SelectCurrent
    <3>2. list \in [Depths -> Seq(Modes)] /\ bpp_index \in Depths /\ scan \in Depths
      BY <1>1 DEF TypeOK
    <3>3. bpp_index < scan => bpp_index # scan
      BY <3>2 DEF Depths
    <3> QED
      BY <3>1, <3>2, <3>3
  <2>4. Starting'
    <3>1. \A d \in Depths : scan' <= d => (InList(d) \intersect selected)' = {}
      BY <1>1, <1>3, <1>5, <1>6 DEF Starting
    <3>2. cur_res # NULL => bpp_index < scan'
      <4> HIDE DEF SelectCurrent
      <4>1. cur_res # NULL => bpp_index < scan
        BY <1>1 DEF Starting
      <4>2. bpp_index \in Depths /\ scan \in Depths /\ scan' = scan + 1
        BY <1>1 DEF TypeOK
      <4> QED
        BY <4>1, <4>2 DEF Depths
    <3>3. bpp_index \in Depths
      BY <1>1 DEF TypeOK
    <3> QED
      BY <1>1, <1>3, <1>6, <2>3, <3>1, <3>2, <3>3 DEF Starting
  <2>5. Loaded'
    BY <1>1, <1>3, <1>6 DEF Loaded, TypeOK
  <2> QED
    BY <1>1, <1>3, <2>1, <2>2, <2>4, <2>5 DEF IInv, Showing
<1>7. CASE \E i \in DOMAIN s : /\ cur_res' = s[i]
                               /\ selected' = selected \union {s[i]}
                               /\ bpp_index' = scan
                               /\ res_tab' = s[1]
  <2>1. PICK i \in DOMAIN s : /\ cur_res' = s[i]
                              /\ selected' = selected \union {s[i]}
                              /\ bpp_index' = scan
                              /\ res_tab' = s[1]
    BY <1>7
  <2>2. 1 \in DOMAIN s /\ s[1] \in Modes /\ s[i] \in Modes
    BY <1>3
  <2>3. s[i] \in InList(scan) /\ s[1] \in InList(scan)
    BY <1>3, <2>2
  <2>4. \A d \in Depths : d # scan => s[i] \notin InList(d)
    BY <1>1, <2>3 DEF InList, Disjoint
  <2>5. InList(scan) \intersect selected = {}
    BY <1>1 DEF Starting, Depths
  <2>6. \A d \in Depths : d = scan =>
            (InList(d) \intersect selected)' = {s[i]}
    BY <1>1, <1>3, <2>1, <2>3, <2>5
  <2>7. \A d \in Depths : d # scan =>
            (InList(d) \intersect selected)' = InList(d) \intersect selected
    BY <1>1, <1>3, <2>1, <2>4
  <2>8. TypeOK'
    BY <1>1, <1>3, <1>4, <2>1, <2>2 DEF TypeOK
  <2>9. AtMostOne'
    <3>1. ASSUME NEW d \in Depths, NEW m \in (InList(d) \intersect selected)',
                 NEW n \in (InList(d) \intersect selected)'
          PROVE m = n
      BY <3>1, <1>1, <2>6, <2>7 DEF AtMostOne
    <3> QED
      BY <3>1 DEF AtMostOne
  <2>10. Starting'
    <3>1. \A d \in Depths : scan' <= d => (InList(d) \intersect selected)' = {}
      BY <1>1, <1>5, <2>7 DEF Starting
    <3>2. bpp_index' < scan'
      BY <1>1, <2>1 DEF Depths
    <3>3. cur_res' # NULL
      BY <2>1, <2>2, SelectionAssumption
    <3>4. (InList(bpp_index) \intersect selected)' = {cur_res'}
      <4>1. \A d \in Depths : d = bpp_index' =>
                (InList(d) \intersect selected)' = {cur_res'}
        BY <2>1, <2>6
      <4>2. bpp_index' \in Depths
        BY <1>1, <2>1
      <4> QED
        BY <4>1, <4>2 DEF InList
    <3> QED
      BY <1>1, <1>3, <2>1, <3>1, <3>2, <3>3, <3>4 DEF Starting
  <2>11. Loaded'
    BY <1>1, <1>3, <2>1, <2>3 DEF Loaded
  <2> QED
    BY <1>1, <1>3, <2>8, <2>9, <2>10, <2>11 DEF IInv, Showing
<1> QED
  BY <1>2, <1>6, <1>7

LEMMA OpenDialogIInv == IInv /\ OpenDialog => IInv'
<1> SUFFICES ASSUME IInv, OpenDialog PROVE IInv'
  OBVIOUS
<1>1. /\ TypeOK /\ Disjoint(list) /\ AtMostOne /\ Starting /\ Loaded
      /\ pc = "select" /\ pc' \in {"open", "closed"}
      /\ ok_enabled' = (cur_res # NULL)
      /\ color_label' = bpp_index
      /\ lbox_items' = res_tab
      /\ UNCHANGED <<scan, current, list, bpp_index, res_tab, taken, cur_res, selected,
                     must_shutdown>>
  BY DEF OpenDialog, IInv, initVars, OkState, set_bpp
<1>2. must_shutdown' = 0
  BY <1>1 DEF Starting
<1>3. TypeOK'
  <2>1. lbox_first' \in Nat
    BY ScrollIsNat DEF OpenDialog
  <2>2. lbox_names' \in Seq(Depths)
    <3>1. IsFiniteSet(NonEmpty)
      BY NonEmptyFinite
    <3>2. Cardinality(NonEmpty) \in Nat /\ NonEmpty \subseteq Depths
      BY <3>1, FS_CardinalityType DEF NonEmpty
    <3>3. lbox_names' \in [1 .. Cardinality(NonEmpty) -> NonEmpty]
      BY DEF OpenDialog, init_lbox_names
    <3>4. lbox_names' \in [1 .. Cardinality(NonEmpty) -> Depths]
      BY <3>2, <3>3
    <3> QED
      BY <3>2, <3>4
  <2>3. pc' \in {"default", "select", "open", "closed"}
    BY <1>1
  <2>4. lbox_items' \in Modes \union {NULL} /\ color_label' \in Depths
    BY <1>1 DEF TypeOK
  <2> QED
    BY <1>1, <2>1, <2>2, <2>3, <2>4 DEF TypeOK
<1>4. Disjoint(list') /\ AtMostOne'
  BY <1>1 DEF AtMostOne, InList
<1>5. Loaded'
  BY <1>1 DEF Loaded, NonEmpty, InList
<1>6. Chain(lbox_items)' = Chain(res_tab)
  BY <1>1 DEF Chain
<1>7. (InList(bpp_index) \intersect selected)' = InList(bpp_index) \intersect selected
  BY <1>1 DEF InList
<1>8. /\ InList(bpp_index) \intersect selected = {cur_res} \ {NULL}
      /\ cur_res # NULL => cur_res \in Chain(res_tab)
  <2>1. CASE cur_res = NULL
    BY <1>1, <2>1 DEF Starting
  <2>2. CASE cur_res # NULL
    <3>1. /\ res_tab = list[bpp_index][1]
          /\ InList(bpp_index) \intersect selected = {cur_res}
      BY <1>1, <2>2 DEF Starting
    <3>2. bpp_index \in Depths /\ list \in [Depths -> Seq(Modes)]
      BY <1>1 DEF TypeOK
    <3>3. list[bpp_index] # <<>>
      <4>1. PICK i \in DOMAIN list[bpp_index] : list[bpp_index][i] = cur_res
        BY <3>1 DEF InList
      <4> QED
        BY <4>1
    <3>4. Chain(res_tab) = InList(bpp_index)
      BY <1>1, <3>1, <3>2, <3>3, ChainFromHead
    <3> QED
      BY <2>2, <3>1, <3>4
  <2> QED
    BY <2>1, <2>2
<1>9. Showing'
  BY <1>1, <1>6, <1>7, <1>8 DEF Showing
<1> QED
  BY <1>1, <1>2, <1>3, <1>4, <1>5, <1>9 DEF IInv, Starting

LEMMA ClickRowIInv == IInv /\ ClickRow => IInv'
<1> SUFFICES ASSUME IInv, ClickRow PROVE IInv'
  OBVIOUS
<1>1. /\ TypeOK /\ Disjoint(list) /\ AtMostOne /\ Loaded /\ Showing
      /\ pc = "open" /\ pc' \in {"open", "closed"}
      /\ must_shutdown' = 1 => pc' = "closed" \/ must_shutdown = 1
      /\ must_shutdown' = must_shutdown \/ must_shutdown' = 1
      /\ UNCHANGED <<scan, current, list, bpp_index, res_tab, taken, lbox_items,
                     lbox_first, lbox_names, color_label>>
  BY DEF ClickRow, Close, IInv, initVars, boxVars
<1>2. must_shutdown # 1
  BY <1>1 DEF IInv
<1>3. PICK m \in Chain(lbox_items) : select_item(m)
  BY DEF ClickRow
<1>4. m \in Modes /\ m # NULL
  BY SelectionAssumption DEF Chain
<1>5. /\ selected' = (selected \ Chain(lbox_items)) \union {m}
      /\ ok_enabled' = (cur_res = NULL \/ ok_enabled)
      /\ cur_res' = m
  BY <1>3 DEF select_item
<1>6. /\ bpp_index \in Depths /\ list \in [Depths -> Seq(Modes)]
      /\ must_shutdown \in {0, 1} /\ ok_enabled \in BOOLEAN
      /\ selected \subseteq Modes
  BY <1>1 DEF TypeOK
<1>7. /\ lbox_items \in InList(bpp_index)
      /\ Chain(lbox_items) \subseteq InList(bpp_index)
  <2>1. lbox_items # NULL
    BY <1>3, <1>6, ChainOfNull
  <2>2. lbox_items \in InList(bpp_index)
    BY <1>1, <2>1 DEF Showing, Loaded
  <2> QED
    BY <1>1, <1>6, <2>2, ChainInList
<1>8. ok_enabled' = TRUE
  BY <1>1, <1>5, <1>6 DEF Showing
<1>9. TypeOK'
  BY <1>1, <1>4, <1>5, <1>6, <1>8 DEF TypeOK
<1>10. \A d \in Depths : InList(d)' = InList(d)
  BY <1>1 DEF InList
<1>11. InList(bpp_index) \intersect selected' = {m}
  <2>1. InList(bpp_index) \intersect selected \subseteq Chain(lbox_items)
    BY <1>1 DEF Showing
  <2> QED
    BY <1>3, <1>5, <1>7, <2>1
<1>12. \A d \in Depths : d # bpp_index =>
          InList(d) \intersect selected' = InList(d) \intersect selected
  <2>1. \A d \in Depths : d # bpp_index =>
            InList(d) \intersect InList(bpp_index) = {}
    BY <1>1, <1>6 DEF InList, Disjoint
  <2> QED
    BY <1>3, <1>5, <1>7, <2>1
<1>13. AtMostOne'
  <2>1. ASSUME NEW d \in Depths, NEW x \in InList(d) \intersect selected',
               NEW y \in InList(d) \intersect selected'
        PROVE x = y
    <3>1. CASE d = bpp_index
      BY <1>11, <2>1, <3>1
    <3>2. CASE d # bpp_index
      BY <1>1, <1>12, <2>1, <3>2 DEF AtMostOne
    <3> QED
      BY <3>1, <3>2
  <2> QED
    BY <1>10, <2>1 DEF AtMostOne
<1>14. Chain(lbox_items)' = Chain(lbox_items)
  BY <1>1 DEF Chain
<1>15. InList(bpp_index)' = InList(bpp_index)
  BY <1>1 DEF InList
<1>16. Showing'
  BY <1>1, <1>3, <1>4, <1>5, <1>8, <1>11, <1>14, <1>15 DEF Showing
<1>17. Loaded'
  BY <1>1, <1>15 DEF Loaded, NonEmpty
<1>18. must_shutdown' = 1 => pc' = "closed" /\ cur_res' # NULL
  BY <1>1, <1>2, <1>4, <1>5
<1> QED
  BY <1>1, <1>9, <1>13, <1>16, <1>17, <1>18 DEF IInv, Starting

(* The popup leads to a depth that has modes. *)
LEMMA PopupHasModes ==
    ASSUME NEW idx \in Nat, popup_to_index(idx) \in Depths
    PROVE  popup_to_index(idx) \in NonEmpty
<1> DEFINE S == {d \in Depths : CountUpTo(d) > idx}
           n == popup_to_index(idx)
<1>1. S \subseteq Nat /\ -1 \notin Depths
  BY DEF Depths
<1>2. S # {} /\ n = Smallest(S)
  BY <1>1 DEF popup_to_index
<1>3. n \in S /\ \A j \in S : n <= j
  BY <1>1, <1>2, SmallestIsLeast
<1>4. {e \in NonEmpty : e <= n} # {}
  <2>1. CountUpTo(n) > 0
    <3>1. IsFiniteSet(NonEmpty)
      BY NonEmptyFinite
    <3>2. CountUpTo(n) \in Nat
      BY <3>1, FS_Subset, FS_CardinalityType DEF CountUpTo
    <3> QED
      BY <1>3, <3>2
  <2> QED
    BY <2>1, FS_EmptySet DEF CountUpTo
<1>5. SUFFICES ASSUME n \notin NonEmpty PROVE FALSE
  OBVIOUS
<1>6. PICK e \in NonEmpty : e <= n
  BY <1>4
<1>7. n - 1 \in Depths /\ n \in Nat
  <2>1. e \in Depths /\ e # n /\ n \in Depths
    BY <1>3, <1>5, <1>6 DEF NonEmpty
  <2> QED
    BY <1>6, <2>1, SelectionAssumption DEF Depths
<1>8. {x \in NonEmpty : x <= n - 1} = {x \in NonEmpty : x <= n}
  <2>1. \A x \in NonEmpty : x \in Nat /\ x # n
    BY <1>5 DEF NonEmpty, Depths
  <2>2. \A x \in NonEmpty : x <= n - 1 <=> x <= n
    BY <1>7, <2>1
  <2> QED
    BY <2>2
<1>9. n - 1 \in S
  BY <1>3, <1>7, <1>8 DEF CountUpTo
<1> QED
  BY <1>3, <1>7, <1>9

LEMMA ColorsSwitch ==
    ASSUME TypeOK, Colors
    PROVE  \E d \in NonEmpty : SwitchDepth(d)
<1>1. PICK index \in simple_popup(lbox_names, index_to_popup(bpp_index)) :
          /\ index >= 0
          /\ popup_to_index(index) \in Depths \ {bpp_index}
          /\ SwitchDepth(popup_to_index(index))
  BY DEF Colors
<1>2. index \in Int
  <2>1. CountUpTo(bpp_index) \in Int
    <3>1. IsFiniteSet(NonEmpty)
      BY NonEmptyFinite
    <3> QED
      BY <3>1, FS_Subset, FS_CardinalityType DEF CountUpTo
  <2>2. DOMAIN lbox_names \subseteq Int
    <3>1. lbox_names \in Seq(Depths)
      BY DEF TypeOK
    <3> QED
      BY <3>1
  <2> QED
    BY <2>1, <2>2 DEF simple_popup, index_to_popup
<1>3. index \in Nat
  BY <1>1, <1>2
<1> QED
  BY <1>1, <1>3, PopupHasModes

LEMMA ColorsIInv == IInv /\ Colors => IInv'
<1> SUFFICES ASSUME IInv, Colors PROVE IInv'
  OBVIOUS
<1>1. /\ TypeOK /\ Disjoint(list) /\ AtMostOne /\ Loaded /\ Showing
      /\ must_shutdown = 1 => pc = "closed"
      /\ pc = "open"
      /\ UNCHANGED <<pc, scan, current, list, selected, lbox_names,
                     must_shutdown>>
  BY DEF Colors, IInv, initVars
<1>2. PICK d \in NonEmpty : SwitchDepth(d)
  BY <1>1, ColorsSwitch
<1>4. d \in Depths /\ list[d] # <<>>
  BY DEF NonEmpty
<1>5. /\ bpp_index' = d
      /\ res_tab' = list[d][1] /\ taken' = "sorted"
      /\ color_label' = d
      /\ lbox_first' = ScrollTo(selected_res_index(list[d][1]))
      /\ lbox_items' = list[d][1]
      /\ cur_res' = lbox_get_slct_item(list[d][1])
      /\ ok_enabled' = (cur_res' # NULL)
  BY <1>2 DEF SwitchDepth, OkState, set_bpp
<1>6. list \in [Depths -> Seq(Modes)] /\ selected \subseteq Modes
  BY <1>1 DEF TypeOK
<1>7. /\ 1 \in DOMAIN list[d]
      /\ list[d][1] \in InList(d)
      /\ Chain(list[d][1]) = InList(d)
      /\ list[d][1] \in Modes
  BY <1>1, <1>4, <1>6, ChainFromHead, ChainHasStart
<1>8. /\ InList(d) \intersect selected = {cur_res'} \ {NULL}
      /\ cur_res' \in Modes \union {NULL}
      /\ cur_res' # NULL => cur_res' \in InList(d)
  <2>1. CASE InList(d) \intersect selected = {}
    BY <1>5, <1>7, <2>1 DEF lbox_get_slct_item
  <2>2. CASE InList(d) \intersect selected # {}
    <3>1. cur_res' \in InList(d) \intersect selected
      BY <1>5, <1>7, <2>2 DEF lbox_get_slct_item
    <3>2. \A m \in InList(d) \intersect selected : m = cur_res'
      BY <1>1, <1>4, <3>1 DEF AtMostOne
    <3>3. cur_res' # NULL
      BY <1>6, <3>1, SelectionAssumption
    <3> QED
      BY <1>6, <3>1, <3>2, <3>3
  <2> QED
    BY <2>1, <2>2
<1>9. InList(bpp_index)' = InList(d)
  BY <1>1, <1>5 DEF InList
<1>10. Chain(lbox_items)' = InList(d)
  <2>1. Chain(lbox_items)' = Chain(list[d][1])
    BY <1>1, <1>5 DEF Chain
  <2> QED
    BY <1>7, <2>1
<1>11. TypeOK'
  <2>1. lbox_first' \in Nat
    BY <1>5, ScrollIsNat
  <2> QED
    BY <1>1, <1>4, <1>5, <1>7, <1>8, <2>1 DEF TypeOK
<1>12. Disjoint(list') /\ AtMostOne'
  BY <1>1 DEF AtMostOne, InList
<1>13. Loaded'
  BY <1>1, <1>5, <1>7, <1>9 DEF Loaded
<1>14. Showing'
  BY <1>1, <1>5, <1>8, <1>9, <1>10 DEF Showing
<1>15. must_shutdown' # 1
  BY <1>1
<1> QED
  BY <1>1, <1>11, <1>12, <1>13, <1>14, <1>15 DEF IInv, Starting

LEMMA OtherStepsIInv ==
    IInv /\ (Scroll \/ Ok \/ Cancel \/ UNCHANGED vars) => IInv'
<1> SUFFICES ASSUME IInv, Scroll \/ Ok \/ Cancel \/ UNCHANGED vars PROVE IInv'
  OBVIOUS
<1>1. /\ TypeOK /\ Disjoint(list) /\ AtMostOne /\ Starting /\ Loaded /\ Showing
      /\ must_shutdown = 1 => pc = "closed" /\ cur_res # NULL
  BY DEF IInv
<1>2. UNCHANGED <<scan, current, list, bpp_index, res_tab, taken, cur_res, selected,
                  lbox_items, lbox_names, color_label, ok_enabled>>
  BY DEF Scroll, Ok, Cancel, vars, initVars, boxVars
<1>3. /\ Chain(lbox_items)' = Chain(lbox_items)
      /\ InList(bpp_index)' = InList(bpp_index)
      /\ \A d \in Depths : InList(d)' = InList(d)
  BY <1>2 DEF Chain, InList
<1>4. Disjoint(list') /\ AtMostOne'
  BY <1>1, <1>2, <1>3 DEF AtMostOne
<1>5. lbox_first' \in Nat
  <2>1. CASE Scroll
    <3>1. PICK first \in 0 .. count_res(lbox_items) - Rows : lbox_first' = first
      BY <2>1 DEF Scroll
    <3> QED
      BY <3>1, ChainCount, SelectionAssumption
  <2>2. CASE ~Scroll
    BY <2>2, <1>1 DEF Ok, Cancel, vars, boxVars, TypeOK
  <2> QED
    BY <2>1, <2>2
<1>6. CASE UNCHANGED <<pc, must_shutdown>>
  BY <1>1, <1>2, <1>3, <1>4, <1>5, <1>6
  DEF IInv, TypeOK, Starting, Loaded, Showing, NonEmpty
<1>7. CASE /\ pc = "open" /\ pc' = "closed"
           /\ must_shutdown' \in {0, 1}
           /\ must_shutdown' = 1 => cur_res # NULL
  BY <1>1, <1>2, <1>3, <1>4, <1>5, <1>7
  DEF IInv, TypeOK, Starting, Loaded, Showing, NonEmpty
<1>8. CASE Ok
  <2>1. cur_res # NULL
    BY <1>1, <1>8 DEF Ok, Showing
  <2> QED
    BY <1>7, <1>8, <2>1 DEF Ok, Close
<1>9. CASE Cancel
  <2>1. must_shutdown # 1 /\ must_shutdown \in {0, 1}
    BY <1>1, <1>9 DEF Cancel, TypeOK
  <2> QED
    BY <1>7, <1>9, <2>1 DEF Cancel, Close
<1> QED
  BY <1>6, <1>8, <1>9 DEF Scroll, vars

--------------------------------------------------------------------------------
(***************************************************************************)
(* The theorems                                                            *)
(***************************************************************************)
LEMMA Inductive == Spec => []IInv
<1>1. Init => IInv
  BY InitIInv
<1>2. IInv /\ [Next]_vars => IInv'
  BY DefaultBestIInv, SelectCurrentIInv, OpenDialogIInv, ClickRowIInv,
     ColorsIInv, OtherStepsIInv DEF Next
<1> QED
  BY <1>1, <1>2, PTL DEF Spec

(* The variables keep their types: in particular bpp_index never leaves the
   tables it indexes and popup_to_index's -1 is never used as an index. *)
THEOREM TypeCorrect == Spec => []TypeOK
<1>1. IInv => TypeOK
  BY DEF IInv
<1> QED
  BY <1>1, Inductive, PTL

(* While the dialog is open, the highlighted row of the list box is cur_res. *)
THEOREM HighlightCorrect == Spec => []HighlightIsChoice
<1>1. IInv => HighlightIsChoice
  <2> SUFFICES ASSUME IInv, pc = "open"
               PROVE  Chain(lbox_items) \intersect selected = {cur_res} \ {NULL}
    BY DEF HighlightIsChoice
  <2>1. /\ InList(bpp_index) \intersect selected = {cur_res} \ {NULL}
        /\ cur_res # NULL => cur_res \in Chain(lbox_items)
        /\ lbox_items = res_tab
        /\ Disjoint(list) /\ TypeOK
        /\ (res_tab = NULL \/ res_tab \in InList(bpp_index))
    BY DEF IInv, Showing, Loaded
  <2>2. Chain(lbox_items) \subseteq InList(bpp_index)
    BY <2>1, ChainInList, ChainOfNull DEF TypeOK
  <2> QED
    BY <2>1, <2>2
<1> QED
  BY <1>1, Inductive, PTL

(* Whatever the tables and the clicks were, a confirmed mode is a real mode of
   the depth on the button, and the one that is highlighted: the pointer that
   save and apply follow without a check is never null. *)
THEOREM ConfirmedIsShown == Spec => []ConfirmedMode
<1>1. IInv => ConfirmedMode
  <2> SUFFICES ASSUME IInv, must_shutdown = 1
               PROVE  /\ cur_res \in Modes
                      /\ cur_res \in InList(color_label)
                      /\ Chain(lbox_items) \intersect selected = {cur_res}
    BY DEF ConfirmedMode
  <2>1. /\ cur_res # NULL
        /\ InList(bpp_index) \intersect selected = {cur_res} \ {NULL}
        /\ cur_res \in Chain(lbox_items)
        /\ color_label = bpp_index
        /\ lbox_items = res_tab
        /\ Disjoint(list) /\ TypeOK
        /\ (res_tab = NULL \/ res_tab \in InList(bpp_index))
    BY DEF IInv, Showing, Loaded
  <2>2. Chain(lbox_items) \subseteq InList(bpp_index)
    BY <2>1, ChainInList, ChainOfNull DEF TypeOK
  <2> QED
    BY <2>1, <2>2 DEF TypeOK
<1> QED
  BY <1>1, Inductive, PTL

(* OK can be pressed exactly when there is a mode to confirm. *)
THEOREM OkCorrect == Spec => []OkIffChoice
<1>1. IInv => OkIffChoice
  BY DEF IInv, Showing, OkIffChoice
<1> QED
  BY <1>1, Inductive, PTL

(* No depth ever has two modes marked. *)
THEOREM OneMarkPerDepth == Spec => []AtMostOne
<1>1. IInv => AtMostOne
  BY DEF IInv
<1> QED
  BY <1>1, Inductive, PTL

(* A click marks a mode of the list shown and clears marks there only: every
   other depth keeps its highlighted mode. *)
THEOREM ChoiceRemembered == Spec => RemembersChoice
<1> DEFINE Others == \A d \in Depths \ {bpp_index} :
                (InList(d) \intersect selected)' = InList(d) \intersect selected
<1>1. ASSUME IInv, [Next]_vars, pc = "open" PROVE Others
  <2>1. CASE ClickRow
    <3>1. PICK m \in Chain(lbox_items) : select_item(m)
      BY <2>1 DEF ClickRow
    <3>2. list' = list /\ selected' = (selected \ Chain(lbox_items)) \union {m}
      BY <2>1, <3>1 DEF ClickRow, select_item
    <3>3. /\ TypeOK /\ Disjoint(list) /\ lbox_items = res_tab
          /\ (res_tab = NULL \/ res_tab \in InList(bpp_index))
      BY <1>1 DEF IInv, Showing, Loaded
    <3>4. bpp_index \in Depths /\ list \in [Depths -> Seq(Modes)]
      BY <3>3 DEF TypeOK
    <3>5. Chain(lbox_items) \subseteq InList(bpp_index)
      BY <3>3, <3>4, ChainInList, ChainOfNull
    <3>6. ASSUME NEW d \in Depths \ {bpp_index}
          PROVE  (InList(d) \intersect selected)' = InList(d) \intersect selected
      <4>1. InList(d) \intersect InList(bpp_index) = {}
        BY <3>3, <3>4 DEF InList, Disjoint
      <4>2. InList(d)' = InList(d)
        BY <3>2 DEF InList
      <4> QED
        BY <3>2, <3>5, <4>1, <4>2
    <3> QED
      BY <3>6
  <2>2. CASE UNCHANGED <<list, selected>>
    BY <2>2 DEF InList
  <2>3. ClickRow \/ UNCHANGED <<list, selected>>
    BY <1>1 DEF Next, DefaultBest, SelectCurrent, OpenDialog, Scroll, Colors,
                Ok, Cancel, vars
  <2> QED
    BY <2>1, <2>2, <2>3
<1>2. IInv /\ [Next]_vars => [pc = "open" => Others]_vars
  BY <1>1
<1> QED
  BY <1>2, Inductive, PTL DEF Spec, RemembersChoice

(* The label on the colour button names the depth whose list is shown, and no
   node of another depth is in the list box. *)
THEOREM LabelCorrect == Spec => []LabelMatchesList
<1>1. IInv => LabelMatchesList
  <2> SUFFICES ASSUME IInv, pc = "open"
               PROVE  /\ color_label = bpp_index
                      /\ Chain(lbox_items) \subseteq InList(color_label)
                      /\ NonEmpty # {} => Chain(lbox_items) # {}
    BY DEF LabelMatchesList
  <2>1. /\ color_label = bpp_index /\ lbox_items = res_tab
        /\ Disjoint(list) /\ bpp_index \in Depths
        /\ list \in [Depths -> Seq(Modes)]
        /\ \/ NonEmpty = {} /\ res_tab = NULL
           \/ res_tab \in InList(bpp_index)
    BY DEF IInv, TypeOK, Showing, Loaded
  <2>2. CASE NonEmpty = {} /\ res_tab = NULL
    BY <2>1, <2>2, ChainOfNull
  <2>3. CASE res_tab \in InList(bpp_index)
    BY <2>1, <2>3, ChainInList, ChainHasStart
  <2> QED
    BY <2>1, <2>2, <2>3
<1> QED
  BY <1>1, Inductive, PTL

--------------------------------------------------------------------------------
(***************************************************************************)
(* The colour popup                                                        *)
(***************************************************************************)
(* While the dialog is open the popup has a row for each depth with modes. *)
RowsCurrent == pc = "open" => lbox_names \in init_lbox_names

LEMMA RowsStayCurrent == Spec => []RowsCurrent
<1>1. Init => RowsCurrent
  BY DEF Init, RowsCurrent
<1>2. RowsCurrent /\ [Next]_vars => RowsCurrent'
  <2> SUFFICES ASSUME RowsCurrent, [Next]_vars PROVE RowsCurrent'
    OBVIOUS
  <2>1. CASE OpenDialog
    <3>1. list' = list /\ lbox_names' \in init_lbox_names
      BY <2>1 DEF OpenDialog
    <3>2. init_lbox_names' = init_lbox_names
      BY <3>1 DEF init_lbox_names, NonEmpty
    <3> QED
      BY <3>1, <3>2 DEF RowsCurrent
  <2>2. CASE DefaultBest \/ SelectCurrent
    BY <2>2 DEF DefaultBest, SelectCurrent, RowsCurrent
  <2>3. CASE ClickRow \/ Scroll \/ Colors \/ Ok \/ Cancel \/ UNCHANGED vars
    <3>1. list' = list /\ lbox_names' = lbox_names /\ (pc' = "open" => pc = "open")
      BY <2>3 DEF ClickRow, Scroll, Colors, Ok, Cancel, Close, vars
    <3>2. init_lbox_names' = init_lbox_names
      BY <3>1 DEF init_lbox_names, NonEmpty
    <3> QED
      BY <3>1, <3>2 DEF RowsCurrent
  <2> QED
    BY <2>1, <2>2, <2>3 DEF Next
<1> QED
  BY <1>1, <1>2, PTL DEF Spec

(* The rows are the depths with modes in their order: row k is the k-th. *)
LEMMA RowIsPlace ==
    ASSUME NEW f \in init_lbox_names
    PROVE  /\ f \in [1 .. Cardinality(NonEmpty) -> NonEmpty]
           /\ Cardinality(NonEmpty) \in Nat
           /\ \A d \in NonEmpty : \E k \in DOMAIN f : f[k] = d
           /\ \A k \in DOMAIN f :
                 /\ CountUpTo(f[k]) = k
                 /\ \A d \in Depths : d < f[k] => CountUpTo(d) < k
<1> DEFINE n == Cardinality(NonEmpty)
<1>1. NonEmpty \subseteq Depths /\ Depths \subseteq Nat /\ MAX_DEPTHS \in Nat
  BY SelectionAssumption DEF NonEmpty, Depths
<1>2. IsFiniteSet(Depths)
  <2>1. 0 \in Int /\ MAX_DEPTHS - 1 \in Int
    BY <1>1
  <2> QED
    BY <2>1, FS_Interval DEF Depths
<1>3. IsFiniteSet(NonEmpty) /\ n \in Nat
  BY <1>1, <1>2, FS_Subset, FS_CardinalityType
<1>4. /\ f \in [1 .. n -> NonEmpty]
      /\ \A i, j \in 1 .. n : i < j => f[i] < f[j]
  BY DEF init_lbox_names
<1> HIDE DEF n
<1>5. \A i, j \in 1 .. n : f[i] \in Nat /\ f[j] \in Nat /\ (f[i] <= f[j] <=> i <= j)
  <2> SUFFICES ASSUME NEW i \in 1 .. n, NEW j \in 1 .. n
               PROVE  f[i] \in Nat /\ f[j] \in Nat /\ (f[i] <= f[j] <=> i <= j)
    OBVIOUS
  <2>1. f[i] \in Nat /\ f[j] \in Nat /\ i \in Nat /\ j \in Nat
    <3>1. i \in Nat /\ j \in Nat
      BY <1>3
    <3>2. f[i] \in NonEmpty /\ f[j] \in NonEmpty
      BY <1>4
    <3> QED
      BY <1>1, <3>1, <3>2
  <2>2. (i < j => f[i] < f[j]) /\ (j < i => f[j] < f[i])
    BY <1>4
  <2> QED
    BY <2>1, <2>2
<1>6. IsFiniteSet(1 .. n) /\ Cardinality(1 .. n) = n
  BY <1>3, FS_Interval
<1>7. f \in Surjection(1 .. n, NonEmpty)
  <2>1. f \in Injection(1 .. n, NonEmpty)
    BY <1>4, <1>5 DEF Injection, IsInjective
  <2> QED
    BY <2>1, <1>3, <1>6, FS_Injection DEF n
<1>8. \A d \in NonEmpty : \E k \in 1 .. n : f[k] = d
  BY <1>7 DEF Surjection
<1>9. ASSUME NEW k \in 1 .. n
      PROVE  /\ CountUpTo(f[k]) = k
             /\ \A d \in Depths : d < f[k] => CountUpTo(d) < k
  <2> DEFINE upto == {e \in NonEmpty : e <= f[k]}
             g == [i \in 1 .. k |-> f[i]]
  <2>1. k \in Nat /\ 1 <= k /\ 1 .. k \subseteq 1 .. n
    BY <1>3, <1>9
  <2>2. g \in [1 .. k -> upto]
    BY <2>1, <1>4, <1>5
  <2>3. \A e \in upto : \E i \in 1 .. k : g[i] = e
    <3> SUFFICES ASSUME NEW e \in upto PROVE \E i \in 1 .. k : g[i] = e
      OBVIOUS
    <3>1. PICK i \in 1 .. n : f[i] = e
      BY <1>8
    <3>2. i <= k
      BY <3>1, <1>5
    <3> QED
      BY <3>1, <3>2, <1>3, <2>1
  <2>4. \A i, j \in 1 .. k : g[i] = g[j] => i = j
    <3> SUFFICES ASSUME NEW i \in 1 .. k, NEW j \in 1 .. k, f[i] = f[j]
                 PROVE  i = j
      OBVIOUS
    <3>1. i \in 1 .. n /\ j \in 1 .. n
      BY <2>1
    <3> QED
      BY <3>1, <1>5, <2>1
  <2>5. ExistsBijection(1 .. k, upto)
    <3>1. g \in Bijection(1 .. k, upto)
      BY <2>2, <2>3, <2>4 DEF Bijection, Injection, Surjection, IsInjective
    <3> QED
      BY <3>1 DEF ExistsBijection
  <2>6. IsFiniteSet(upto) /\ Cardinality(upto) = k
    BY <2>1, <2>5, FS_Interval, FS_Bijection
  <2>7. ASSUME NEW d \in Depths, d < f[k]
        PROVE  CountUpTo(d) < k
    <3> DEFINE below == {e \in NonEmpty : e <= d}
    <3>1. f[k] \in upto /\ f[k] \in Nat /\ d \in Nat
      BY <1>1, <1>4, <1>5
    <3>2. below \in SUBSET (upto \ {f[k]})
      <4> SUFFICES ASSUME NEW e \in below PROVE e \in upto \ {f[k]}
        OBVIOUS
      <4>1. e \in NonEmpty /\ e \in Nat /\ e <= d
        BY <1>1
      <4> QED
        BY <4>1, <3>1, <2>7
    <3>3. IsFiniteSet(upto \ {f[k]}) /\ Cardinality(upto \ {f[k]}) = k - 1
      BY <3>1, <2>6, FS_RemoveElement
    <3>4. Cardinality(below) \in Nat /\ Cardinality(below) <= k - 1
      BY <3>2, <3>3, FS_Subset, FS_CardinalityType
    <3> QED
      BY <3>4, <2>1 DEF CountUpTo
  <2> QED
    BY <2>6, <2>7 DEF CountUpTo
<1> QED
  BY <1>3, <1>4, <1>8, <1>9 DEF n

(* The popup's rows and the two conversions between rows and depths, three loops
   of the code, agree for every number of depths and every table. *)
THEOREM PopupCorrect == Spec => []PopupRoundTrip
<1>1. IInv /\ RowsCurrent => PopupRoundTrip
  <2> SUFFICES ASSUME IInv, RowsCurrent, pc = "open"
               PROVE  /\ \A k \in DOMAIN lbox_names :
                             popup_to_index(k - 1) = lbox_names[k]
                      /\ NonEmpty # {} =>
                            /\ index_to_popup(bpp_index) + 1 \in DOMAIN lbox_names
                            /\ lbox_names[index_to_popup(bpp_index) + 1] = bpp_index
    BY DEF PopupRoundTrip
  <2> DEFINE f == lbox_names
  <2>1. f \in init_lbox_names
    BY DEF RowsCurrent
  <2>2. /\ f \in [1 .. Cardinality(NonEmpty) -> NonEmpty]
        /\ Cardinality(NonEmpty) \in Nat
        /\ \A d \in NonEmpty : \E k \in DOMAIN f : f[k] = d
        /\ \A k \in DOMAIN f :
                 /\ CountUpTo(f[k]) = k
                 /\ \A d \in Depths : d < f[k] => CountUpTo(d) < k
    BY <2>1, RowIsPlace
  <2> HIDE DEF f
  <2>3. ASSUME NEW k \in DOMAIN f PROVE popup_to_index(k - 1) = f[k]
    <3> DEFINE S == {d \in Depths : CountUpTo(d) > k - 1}
    <3>1. k \in Nat /\ f[k] \in Depths /\ Depths \subseteq Nat
      BY <2>2, <2>3, SelectionAssumption DEF NonEmpty, Depths
    <3>2. f[k] \in S
      BY <3>1, <2>2
    <3>3. \A d \in S : f[k] <= d
      <4> SUFFICES ASSUME NEW d \in Depths, CountUpTo(d) > k - 1
                   PROVE  f[k] <= d
        OBVIOUS
      <4>1. CountUpTo(d) \in Nat
        <5>1. IsFiniteSet(NonEmpty)
          <6>1. NonEmpty \subseteq 0 .. MAX_DEPTHS - 1 /\ MAX_DEPTHS - 1 \in Int
            BY SelectionAssumption DEF NonEmpty, Depths
          <6>2. IsFiniteSet(0 .. MAX_DEPTHS - 1)
            BY <6>1, FS_Interval
          <6> QED
            BY <6>1, <6>2, FS_Subset
        <5>2. {e \in NonEmpty : e <= d} \in SUBSET NonEmpty
          OBVIOUS
        <5> QED
          BY <5>1, <5>2, FS_Subset, FS_CardinalityType DEF CountUpTo
      <4>2. ~(d < f[k])
        BY <4>1, <3>1, <2>2
      <4>3. d \in Nat /\ f[k] \in Nat
        BY <3>1
      <4> QED
        BY <4>2, <4>3
    <3>4. S \subseteq Nat /\ S # {}
      BY <3>1, <3>2
    <3> HIDE DEF S
    <3>5. Smallest(S) \in S /\ \A j \in S : Smallest(S) <= j
      BY <3>4, SmallestIsLeast
    <3>6. Smallest(S) = f[k]
      <4>1. Smallest(S) <= f[k] /\ f[k] <= Smallest(S)
        BY <3>2, <3>3, <3>5
      <4>2. Smallest(S) \in Nat /\ f[k] \in Nat
        BY <3>1, <3>4, <3>5
      <4> QED
        BY <4>1, <4>2
    <3> QED
      BY <3>4, <3>6 DEF popup_to_index, S
  <2>4. ASSUME NonEmpty # {}
        PROVE  /\ index_to_popup(bpp_index) + 1 \in DOMAIN f
               /\ f[index_to_popup(bpp_index) + 1] = bpp_index
    <3>1. bpp_index \in NonEmpty
      <4>1. res_tab \in InList(bpp_index) /\ bpp_index \in Depths
        BY <2>4 DEF IInv, Loaded, TypeOK
      <4> QED
        BY <4>1 DEF InList, NonEmpty
    <3>2. PICK k \in DOMAIN f : f[k] = bpp_index
      BY <3>1, <2>2
    <3>3. CountUpTo(bpp_index) = k /\ k \in Nat
      BY <3>2, <2>2
    <3> QED
      BY <3>2, <3>3 DEF index_to_popup
  <2> QED
    BY <2>3, <2>4 DEF f
<1> QED
  BY <1>1, Inductive, RowsStayCurrent, PTL

--------------------------------------------------------------------------------
(***************************************************************************)
(* What is in the list box                                                 *)
(***************************************************************************)
(* nothing in the list goes before its first mode *)
Sorted(s) == \A i \in DOMAIN s : ~cmp_res(s[i], s[1])

(* The mode chosen is a current one; without one no list scanned so far has the
   current mode, the deepest list is shown, and from its head, unless that was
   read too early; a head read from a sorted list is left there by a second sort. *)
Choosing ==
    pc \in {"default", "select"} =>
        /\ cur_res # NULL => IsCurrent(cur_res)
        /\ cur_res = NULL =>
              \A d \in Depths : d < scan => \A m \in InList(d) : ~IsCurrent(m)
        /\ pc = "select" /\ cur_res = NULL =>
              /\ \A d \in NonEmpty : d <= bpp_index
              /\ NonEmpty # {} /\ taken # "too early" =>
                    res_tab = list[bpp_index][1]
              /\ NonEmpty # {} /\ taken = "sorted" => Sorted(list[bpp_index])

(* A list that was sorted has a first mode, and keeps it when it is sorted again. *)
LEMMA SortHead ==
    ASSUME NEW s \in Seq(Modes), s # <<>>, NEW t \in sort_restab(s, FALSE)
    PROVE  Sorted(t) /\ (Sorted(s) => t[1] = s[1])
<1>1. t \in qsort(s)
  BY DEF sort_restab
<1>2. DOMAIN s = 1 .. Len(s) /\ Len(s) \in Nat /\ 1 \in DOMAIN s
  OBVIOUS
<1>3. DOMAIN t = DOMAIN s /\ \A i \in DOMAIN s : t[i] \in Modes
  <2>1. t \in [DOMAIN s -> {s[i] : i \in DOMAIN s}]
    BY <1>1 DEF qsort
  <2>2. \A i \in DOMAIN s : s[i] \in Modes
    OBVIOUS
  <2> QED
    BY <2>1, <2>2
<1>4. \A i, j \in DOMAIN s : i < j => ~cmp_res(t[j], t[i])
  BY <1>1 DEF qsort
<1>5. ~cmp_res(t[1], t[1])
  BY <1>2, <1>3, SelectionAssumption DEF cmp_res
<1>6. Sorted(t)
  BY <1>2, <1>3, <1>4, <1>5 DEF Sorted
<1>7. Sorted(s) => t[1] = s[1]
  BY <1>1 DEF qsort, Sorted
<1> QED
  BY <1>6, <1>7

LEMMA SameLists ==
    ASSUME UNCHANGED <<list, current>>
    PROVE  /\ NonEmpty' = NonEmpty
           /\ \A d : InList(d)' = InList(d)
           /\ \A m : IsCurrent(m)' <=> IsCurrent(m)
           /\ UNCHANGED <<bpp_index, lbox_items>> =>
                 /\ Chain(lbox_items)' = Chain(lbox_items)
                 /\ InList(bpp_index)' = InList(bpp_index)
BY DEF NonEmpty, InList, IsCurrent, Chain

LEMMA InitChoosing == Init => Choosing /\ WholeListShown
BY SelectionAssumption DEF Init, Choosing, WholeListShown, Depths

LEMMA DefaultBestChoosing == IInv /\ Choosing /\ DefaultBest => Choosing'
<1> SUFFICES ASSUME IInv, Choosing, DefaultBest PROVE Choosing'
  OBVIOUS
<1>1. /\ TypeOK /\ Disjoint(list) /\ pc = "default" /\ pc' = "select" /\ cur_res = NULL
      /\ UNCHANGED <<cur_res, scan, current>>
  BY DEF IInv, Starting, DefaultBest, initVars
<1>2. /\ list \in [Depths -> Seq(Modes)]
      /\ \A d \in Depths : d < scan => \A m \in InList(d) : ~IsCurrent(m)
  BY <1>1 DEF TypeOK, Choosing
<1>3. CASE NonEmpty = {} /\ UNCHANGED <<list, bpp_index, res_tab, taken>>
  BY <1>1, <1>2, <1>3, SameLists DEF Choosing
<1>4. CASE ~(NonEmpty = {} /\ UNCHANGED <<list, bpp_index, res_tab, taken>>)
  <2>1. PICK best \in NonEmpty, failed \in MallocFails :
            \E s \in sort_restab(list[best], failed) :
               /\ \A d \in NonEmpty : d <= best
               /\ list' = [list EXCEPT ![best] = s]
               /\ bpp_index' = best
               /\ res_tab' = s[1]
               /\ taken' = IF failed THEN "unsorted" ELSE "sorted"
    BY <1>4 DEF DefaultBest
  <2>2. PICK s \in sort_restab(list[best], failed) :
            /\ \A d \in NonEmpty : d <= best
            /\ list' = [list EXCEPT ![best] = s]
            /\ bpp_index' = best
            /\ res_tab' = s[1]
            /\ taken' = IF failed THEN "unsorted" ELSE "sorted"
    BY <2>1
  <2>3. best \in Depths /\ list[best] \in Seq(Modes) /\ list[best] # <<>>
    BY <1>2 DEF NonEmpty
  <2>4. /\ \A e \in Depths : InList(e)' = InList(e)
        /\ NonEmpty' = NonEmpty
        /\ list'[best] = s
    BY <1>1, <1>2, <2>2, <2>3, SortOneList
  <2>5. taken' = "sorted" => Sorted(s)
    <3>1. failed \in BOOLEAN
      BY SelectionAssumption
    <3>2. taken' = "sorted" => ~failed
      BY <2>2, <3>1
    <3>3. CASE failed = FALSE
      BY <2>2, <2>3, <3>3, SortHead
    <3> QED
      BY <3>1, <3>2, <3>3
  <2> QED
    BY <1>1, <1>2, <2>2, <2>4, <2>5 DEF Choosing, IsCurrent
<1> QED
  BY <1>3, <1>4

LEMMA SelectCurrentChoosing == IInv /\ Choosing /\ SelectCurrent => Choosing'
<1> SUFFICES ASSUME IInv, Choosing, SelectCurrent PROVE Choosing'
  OBVIOUS
<1>1. /\ TypeOK /\ Disjoint(list) /\ Loaded /\ pc = "select" /\ pc' = "select"
      /\ scan \in Depths /\ scan' = scan + 1 /\ current' = current
  BY DEF IInv, SelectCurrent
<1>2a. PICK failed \in MallocFails : \E s \in sort_restab(list[scan], failed) :
          /\ list' = [list EXCEPT ![scan] = s]
          /\ \/ /\ \A i \in DOMAIN s : ~IsCurrent(s[i])
                /\ taken' = Retaken(failed)
                /\ UNCHANGED <<cur_res, selected, bpp_index, res_tab>>
             \/ \E i \in DOMAIN s :
                   /\ IsCurrent(s[i])
                   /\ \A j \in DOMAIN s : j < i => ~IsCurrent(s[j])
                   /\ cur_res' = s[i]
                   /\ selected' = selected \union {s[i]}
                   /\ bpp_index' = scan
                   /\ res_tab' = s[1]
                   /\ taken' = "sorted"
  BY DEF SelectCurrent
<1>2. PICK s \in sort_restab(list[scan], failed) :
          /\ list' = [list EXCEPT ![scan] = s]
          /\ \/ /\ \A i \in DOMAIN s : ~IsCurrent(s[i])
                /\ taken' = Retaken(failed)
                /\ UNCHANGED <<cur_res, selected, bpp_index, res_tab>>
             \/ \E i \in DOMAIN s :
                   /\ IsCurrent(s[i])
                   /\ \A j \in DOMAIN s : j < i => ~IsCurrent(s[j])
                   /\ cur_res' = s[i]
                   /\ selected' = selected \union {s[i]}
                   /\ bpp_index' = scan
                   /\ res_tab' = s[1]
                   /\ taken' = "sorted"
  BY <1>2a
<1>3. list \in [Depths -> Seq(Modes)] /\ bpp_index \in Depths
  BY <1>1 DEF TypeOK
<1>4. /\ \A e \in Depths : InList(e)' = InList(e)
      /\ NonEmpty' = NonEmpty
      /\ list'[scan] = s /\ s \in Seq(Modes)
      /\ {s[i] : i \in DOMAIN s} = InList(scan)
  <2>1. list' = [list EXCEPT ![scan] = s] /\ Disjoint(list) /\ scan \in Depths
    BY <1>1, <1>2
  <2> QED
    BY <1>3, <2>1, SortOneList
<1>5. CASE \E i \in DOMAIN s : IsCurrent(s[i]) /\ cur_res' = s[i]
  <2>1. cur_res' \in Modes /\ cur_res' # NULL /\ IsCurrent(cur_res')
    BY <1>4, <1>5, SelectionAssumption
  <2> QED
    BY <1>1, <2>1 DEF Choosing, IsCurrent
<1>6. CASE /\ \A i \in DOMAIN s : ~IsCurrent(s[i])
           /\ taken' = Retaken(failed)
           /\ UNCHANGED <<cur_res, selected, bpp_index, res_tab>>
  <2>1. CASE cur_res # NULL
    BY <1>1, <1>6, <2>1 DEF Choosing, IsCurrent
  <2>2. CASE cur_res = NULL
    <3>1. /\ \A d \in Depths : d < scan => \A m \in InList(d) : ~IsCurrent(m)
          /\ \A d \in NonEmpty : d <= bpp_index
          /\ NonEmpty # {} /\ taken # "too early" => res_tab = list[bpp_index][1]
          /\ NonEmpty # {} /\ taken = "sorted" => Sorted(list[bpp_index])
      BY <1>1, <2>2 DEF Choosing
    <3>2. ASSUME NEW d \in Depths, d < scan', NEW m \in InList(d)' PROVE ~IsCurrent(m)
      <4>1. d < scan \/ d = scan
        BY <1>1, <3>2 DEF Depths
      <4>2. m \in InList(d)
        BY <1>4, <3>2
      <4>3. CASE d < scan
        BY <3>1, <4>2, <4>3
      <4>4. CASE d = scan
        BY <1>4, <1>6, <4>2, <4>4
      <4> QED
        BY <4>1, <4>3, <4>4
    <3>3. ASSUME NonEmpty # {}
          PROVE  /\ taken' # "too early" => res_tab = list'[bpp_index][1]
                 /\ taken' = "sorted" => Sorted(list'[bpp_index])
      <4>1. CASE bpp_index # scan
        <5>1. taken' = taken /\ list'[bpp_index] = list[bpp_index]
          BY <1>2, <1>3, <1>6, <4>1 DEF Retaken
        <5> QED
          BY <3>1, <3>3, <5>1
      <4>2. CASE bpp_index = scan
        <5>1. res_tab \in InList(scan)
          BY <1>1, <3>3, <4>2 DEF Loaded
        <5>2. list[scan] \in Seq(Modes) /\ list[scan] # <<>>
          BY <1>1, <1>3, <5>1 DEF InList
        <5>3. failed \in BOOLEAN
          BY SelectionAssumption
        <5>4. CASE failed = TRUE
          <6>1. s = list[scan] /\ taken' = taken
            BY <1>2, <1>6, <5>4 DEF sort_restab, Retaken
          <6> QED
            BY <1>4, <3>1, <3>3, <4>2, <6>1
        <5>5. CASE failed = FALSE
          <6>1. Sorted(s) /\ (Sorted(list[scan]) => s[1] = list[scan][1])
            BY <1>2, <5>2, <5>5, SortHead
          <6>2. taken = "sorted" => taken' = "sorted"
            BY <1>6 DEF Retaken
          <6>3. taken' # "too early" => taken = "sorted"
            BY <1>1, <1>6, <4>2, <5>5 DEF Retaken, TypeOK
          <6> QED
            BY <1>4, <3>1, <3>3, <4>2, <6>1, <6>2, <6>3
        <5> QED
          BY <5>3, <5>4, <5>5
      <4> QED
        BY <4>1, <4>2
    <3> QED
      BY <1>1, <1>4, <1>6, <2>2, <3>1, <3>2, <3>3 DEF Choosing, IsCurrent
  <2> QED
    BY <2>1, <2>2
<1> QED
  BY <1>2, <1>5, <1>6

LEMMA OpenDialogWhole == IInv /\ Choosing /\ OpenDialog => WholeListShown'
<1> SUFFICES ASSUME IInv, Choosing, OpenDialog, pc' = "open" PROVE WholeListShown'
  BY DEF WholeListShown
<1>1. /\ TypeOK /\ Disjoint(list) /\ Starting /\ Loaded /\ pc = "select"
      /\ scan = MAX_DEPTHS /\ lbox_items' = res_tab
      /\ UNCHANGED <<list, bpp_index, current, taken>>
  BY DEF IInv, OpenDialog, initVars
<1>2. list \in [Depths -> Seq(Modes)] /\ bpp_index \in Depths
  BY <1>1 DEF TypeOK
<1>3. /\ Chain(lbox_items)' = Chain(res_tab) /\ InList(bpp_index)' = InList(bpp_index)
      /\ NonEmpty' = NonEmpty
  BY <1>1 DEF Chain, InList, NonEmpty
<1>4. res_tab = list[bpp_index][1] /\ InList(bpp_index) # {} =>
          Chain(res_tab) = InList(bpp_index)
  <2>1. InList(bpp_index) # {} => list[bpp_index] # <<>>
    BY <1>2 DEF InList
  <2> QED
    BY <1>1, <1>2, <2>1, ChainFromHead
<1>5. CASE cur_res # NULL
  <2>1. res_tab = list[bpp_index][1] /\ InList(bpp_index) # {}
    BY <1>1, <1>5 DEF Starting
  <2> QED
    BY <1>3, <1>4, <2>1 DEF WholeListShown
<1>6. CASE cur_res = NULL
  <2>1. bpp_index < scan
    BY <1>1, <1>2, SelectionAssumption DEF Depths
  <2>2. /\ \A m \in InList(bpp_index) : ~IsCurrent(m)
        /\ \A d \in NonEmpty : d <= bpp_index
        /\ NonEmpty # {} /\ taken # "too early" => res_tab = list[bpp_index][1]
    BY <1>1, <1>2, <1>6, <2>1 DEF Choosing
  <2>3. CASE taken = "too early"
    BY <1>1, <1>3, <2>2, <2>3 DEF WholeListShown, IsCurrent
  <2>4. CASE taken # "too early" /\ res_tab \in InList(bpp_index)
    <3>1. bpp_index \in NonEmpty
      <4>1. list[bpp_index] \in Seq(Modes) /\ InList(bpp_index) # {}
        BY <1>2, <2>4
      <4>2. list[bpp_index] # <<>>
        BY <4>1 DEF InList
      <4> QED
        BY <1>2, <4>2 DEF NonEmpty
    <3> QED
      BY <1>3, <1>4, <2>2, <2>4, <3>1 DEF WholeListShown
  <2>5. CASE NonEmpty = {} /\ res_tab = NULL
    <3>1. list[bpp_index] = <<>>
      BY <1>2, <2>5 DEF NonEmpty
    <3>2. InList(bpp_index) = {}
      BY <3>1 DEF InList
    <3> QED
      BY <1>2, <1>3, <2>5, <3>2, ChainOfNull DEF WholeListShown
  <2> QED
    BY <1>1, <2>3, <2>4, <2>5 DEF Loaded
<1> QED
  BY <1>5, <1>6

LEMMA ColorsWhole == IInv /\ Colors => WholeListShown'
<1> SUFFICES ASSUME IInv, Colors PROVE WholeListShown'
  OBVIOUS
<1>1. TypeOK /\ Disjoint(list) /\ list' = list
  BY DEF IInv, Colors
<1>2. PICK d \in NonEmpty : SwitchDepth(d)
  BY <1>1, ColorsSwitch
<1>3. bpp_index' = d /\ lbox_items' = list[d][1]
  BY <1>2 DEF SwitchDepth
<1>4. Chain(list[d][1]) = InList(d)
  BY <1>1, ChainFromHead DEF TypeOK, NonEmpty
<1>5. Chain(lbox_items)' = Chain(list[d][1]) /\ InList(bpp_index)' = InList(d)
  BY <1>1, <1>3 DEF Chain, InList
<1> QED
  BY <1>4, <1>5 DEF WholeListShown

LEMMA ChoosingInductive == Spec => [](IInv /\ Choosing /\ WholeListShown)
<1>1. ASSUME IInv, Choosing, WholeListShown, [Next]_vars
      PROVE  Choosing' /\ WholeListShown'
  <2>1. CASE DefaultBest
    BY <1>1, <2>1, DefaultBestChoosing DEF DefaultBest, WholeListShown
  <2>2. CASE SelectCurrent
    BY <1>1, <2>2, SelectCurrentChoosing DEF SelectCurrent, WholeListShown
  <2>3. CASE OpenDialog
    BY <1>1, <2>3, OpenDialogWhole DEF OpenDialog, Choosing
  <2>4. CASE Colors
    BY <1>1, <2>4, ColorsWhole DEF Colors, Choosing
  <2>5. CASE ClickRow \/ Scroll \/ Ok \/ Cancel
    <3>1. /\ pc' \in {"open", "closed"} /\ pc = "open"
          /\ UNCHANGED <<list, bpp_index, lbox_items, current, taken>>
      BY <2>5 DEF ClickRow, Scroll, Ok, Cancel, Close, initVars, boxVars
    <3> QED
      BY <1>1, <3>1, SameLists DEF Choosing, WholeListShown
  <2>6. CASE UNCHANGED vars
    BY <1>1, <2>6, SameLists DEF vars, Choosing, WholeListShown
  <2> QED
    BY <1>1, <2>1, <2>2, <2>3, <2>4, <2>5, <2>6 DEF Next
<1>2. IInv /\ [Next]_vars => IInv'
  BY DefaultBestIInv, SelectCurrentIInv, OpenDialogIInv, ClickRowIInv,
     ColorsIInv, OtherStepsIInv DEF Next
<1> QED
  BY <1>1, <1>2, InitIInv, InitChoosing, PTL DEF Spec

(* Theorem: the list box holds the whole list, but for the one case of a first sort
   that got no memory and a second that did. *)
THEOREM WholeListCorrect == Spec => []WholeListShown
BY ChoosingInductive, PTL

(* Theorem: the dialog opens on a list with the current mode, and that mode is chosen;
   when no list has it, it opens on the deepest list with nothing chosen. *)
THEOREM PreselectionCorrect == Spec => PreselectsCurrent
<1> DEFINE now == {d \in Depths : \E m \in InList(d) : Code[m] = current}
           Opened == IF now # {}
                     THEN /\ bpp_index' \in now
                          /\ cur_res' \in InList(bpp_index)'
                          /\ Code[cur_res'] = current
                     ELSE /\ cur_res' = NULL
                          /\ \A d \in NonEmpty : d <= bpp_index'
<1>1. ASSUME IInv, Choosing, [Next]_vars, pc = "select", pc' = "open" PROVE Opened
  <2>1. OpenDialog
    BY <1>1 DEF Next, DefaultBest, SelectCurrent, ClickRow, Scroll, Colors, Ok, Cancel, vars
  <2>2. /\ scan = MAX_DEPTHS /\ UNCHANGED <<list, bpp_index, cur_res>>
        /\ bpp_index \in Depths /\ current \in Codes
        /\ list \in [Depths -> Seq(Modes)]
    BY <1>1, <2>1 DEF OpenDialog, IInv, TypeOK
  <2>3. \A m \in Modes : IsCurrent(m) <=> Code[m] = current
    <3> TAKE m \in Modes
    <3>1. Code[m] \in Codes
      BY SelectionAssumption
    <3>2. /\ Code[m] = [rez |-> Code[m].rez, vmode |-> Code[m].vmode]
          /\ current = [rez |-> current.rez, vmode |-> current.vmode]
      BY <2>2, <3>1, SelectionAssumption
    <3> QED
      BY <3>2 DEF IsCurrent
  <2>4. \A d \in Depths : InList(d) \subseteq Modes
    BY <2>2 DEF InList
  <2>5. InList(bpp_index)' = InList(bpp_index)
    BY <2>2 DEF InList
  <2>6. CASE cur_res # NULL
    <3>1. cur_res \in InList(bpp_index) /\ IsCurrent(cur_res)
      BY <1>1, <2>6 DEF IInv, Starting, Choosing
    <3>2. Code[cur_res] = current /\ bpp_index \in now
      BY <2>2, <2>3, <2>4, <3>1
    <3> QED
      BY <2>2, <2>5, <3>1, <3>2
  <2>7. CASE cur_res = NULL
    <3>1. \A d \in Depths : d < scan
      BY <2>2, SelectionAssumption DEF Depths
    <3>2. \A d \in Depths : \A m \in InList(d) : ~IsCurrent(m)
      BY <1>1, <2>7, <3>1 DEF Choosing
    <3>3. now = {}
      BY <2>3, <2>4, <3>2
    <3>4. \A d \in NonEmpty : d <= bpp_index
      BY <1>1, <2>7 DEF Choosing
    <3> QED
      BY <2>2, <2>7, <3>3, <3>4
  <2> QED
    BY <2>6, <2>7
<1>2. IInv /\ Choosing /\ [Next]_vars => [pc = "select" /\ pc' = "open" => Opened]_vars
  BY <1>1
<1> QED
  BY <1>2, ChoosingInductive, PTL DEF Spec, PreselectsCurrent

--------------------------------------------------------------------------------
(***************************************************************************)
(* What is in sight                                                        *)
(***************************************************************************)
(* The chain from the i-th node of a list is the rest of the list. *)
LEMMA ChainIsRest ==
    ASSUME list \in [Depths -> Seq(Modes)], Disjoint(list),
           NEW d \in Depths, NEW i \in DOMAIN list[d]
    PROVE  /\ Chain(list[d][i]) = {list[d][j] : j \in i .. Len(list[d])}
           /\ count_res(list[d][i]) = Len(list[d]) - i + 1
           /\ \A k \in Nat : \A m : Reach(list[d][i], k, m) <=>
                                   i + k \in DOMAIN list[d] /\ m = list[d][i + k]
<1> DEFINE s == list[d]
           p == s[i]
           Rest == {s[j] : j \in i .. Len(s)}
<1>1. /\ s \in Seq(Modes) /\ Len(s) \in Nat /\ DOMAIN s = 1 .. Len(s)
      /\ i \in 1 .. Len(s) /\ \A j \in DOMAIN s : s[j] \in Modes
  OBVIOUS
<1>2. \A e \in Depths : \A j \in DOMAIN list[e] : list[e][j] = p => e = d /\ j = i
  BY DEF Disjoint
<1>3. Chain(p) = Rest
  <2>1. ASSUME NEW m \in Chain(p) PROVE m \in Rest
    <3>1. PICK e \in Depths : \E j, k \in DOMAIN list[e] :
                                 j <= k /\ list[e][j] = p /\ list[e][k] = m
      BY DEF Chain
    <3>2. e = d
      BY <1>2, <3>1
    <3>3. PICK j \in DOMAIN s, k \in DOMAIN s : j <= k /\ s[j] = p /\ s[k] = m
      BY <3>1, <3>2
    <3>4. j = i
      BY <1>2, <3>3
    <3> QED
      BY <1>1, <3>3, <3>4
  <2>2. ASSUME NEW m \in Rest PROVE m \in Chain(p)
    <3>1. PICK j \in i .. Len(s) : m = s[j]
      OBVIOUS
    <3>2. j \in DOMAIN s /\ i <= j
      BY <1>1
    <3> QED
      BY <1>1, <3>1, <3>2 DEF Chain
  <2> QED
    BY <2>1, <2>2
<1>4. count_res(p) = Len(s) - i + 1
  <2> DEFINE f == [j \in i .. Len(s) |-> s[j]]
  <2>1. \A j, k \in i .. Len(s) : s[j] = s[k] => j = k
    <3>1. \A j, k \in DOMAIN s : s[j] = s[k] => j = k
      BY DEF Disjoint
    <3> QED
      BY <1>1, <3>1
  <2>2. f \in Bijection(i .. Len(s), Rest)
    <3> HIDE DEF s
    <3> QED
      BY <2>1 DEF Bijection, Injection, Surjection, IsInjective
  <2>3. ExistsBijection(i .. Len(s), Rest)
    BY <2>2 DEF ExistsBijection
  <2>4. IsFiniteSet(i .. Len(s)) /\ Cardinality(i .. Len(s)) = Len(s) - i + 1
    BY <1>1, FS_Interval
  <2> HIDE DEF s, Rest
  <2>5. Cardinality(Rest) = Len(s) - i + 1
    BY <2>3, <2>4, FS_Bijection
  <2> QED
    BY <1>3, <2>5 DEF count_res, p
<1>5. ASSUME NEW k \in Nat, NEW m
      PROVE  Reach(p, k, m) <=> i + k \in DOMAIN s /\ m = s[i + k]
  <2>1. ASSUME Reach(p, k, m) PROVE i + k \in DOMAIN s /\ m = s[i + k]
    BY <1>2, <2>1 DEF Reach
  <2>2. ASSUME i + k \in DOMAIN s, m = s[i + k] PROVE Reach(p, k, m)
    BY <1>1, <2>2 DEF Reach
  <2> QED
    BY <2>1, <2>2
<1> QED
  BY <1>3, <1>4, <1>5

(* Loaded into the list box from a node on, with m the only one marked, a list shows
   m, and has no empty row before its end is reached. *)
InSight(p, first, m) ==
    /\ m # NULL => \E row \in 0 .. Rows - 1 : Reach(p, first + row, m)
    /\ first = 0 \/ first + Rows <= count_res(p)

LEMMA LoadedInSight ==
    ASSUME list \in [Depths -> Seq(Modes)], Disjoint(list), NEW d \in Depths,
           NEW p \in InList(d), NEW m, Chain(p) \intersect selected = {m} \ {NULL}
    PROVE  InSight(p, ScrollTo(selected_res_index(p)), m)
<1>1. PICK i \in DOMAIN list[d] : p = list[d][i]
  BY DEF InList
<1> DEFINE s == list[d]
           n == Len(s) - i + 1
           K == {k \in 0 .. count_res(p) - 1 : \E x \in selected : Reach(p, k, x)}
<1>2. /\ Len(s) \in Nat /\ DOMAIN s = 1 .. Len(s) /\ i \in 1 .. Len(s) /\ n \in Nat
      /\ Rows \in Nat /\ Rows >= 1
  BY SelectionAssumption
<1>3. /\ Chain(p) = {s[j] : j \in i .. Len(s)}
      /\ count_res(p) = n
      /\ \A k \in Nat : \A x : Reach(p, k, x) <=> i + k \in DOMAIN s /\ x = s[i + k]
  BY <1>1, ChainIsRest
<1>4. \A k \in K : k \in 0 .. n - 1 /\ Reach(p, k, m) /\ m # NULL
  <2> TAKE k \in K
  <2>1. k \in 0 .. n - 1 /\ k \in Nat
    BY <1>2, <1>3
  <2>2. PICK x \in selected : Reach(p, k, x)
    OBVIOUS
  <2>3. i + k \in i .. Len(s) /\ x = s[i + k]
    BY <1>2, <1>3, <2>1, <2>2
  <2>4. x \in Chain(p) \intersect selected
    BY <1>3, <2>2, <2>3
  <2> QED
    BY <2>1, <2>2, <2>4
<1>5. m # NULL => K # {}
  <2> SUFFICES ASSUME m # NULL PROVE K # {}
    OBVIOUS
  <2>1. m \in Chain(p) /\ m \in selected
    OBVIOUS
  <2>2. PICK j \in i .. Len(s) : m = s[j]
    BY <1>3, <2>1
  <2>3. j - i \in 0 .. n - 1 /\ j - i \in Nat /\ i + (j - i) = j /\ j \in DOMAIN s
    BY <1>2
  <2>4. Reach(p, j - i, m)
    BY <1>3, <2>2, <2>3
  <2>5. j - i \in K
    BY <1>3, <2>1, <2>3, <2>4
  <2> QED
    BY <2>5
<1> DEFINE first == ScrollTo(selected_res_index(p))
<1>6. CASE K = {}
  <2>1. selected_res_index(p) = -1
    BY <1>6 DEF selected_res_index
  <2>2. first = 0
    BY <1>2, <2>1 DEF ScrollTo
  <2> QED
    BY <1>5, <1>6, <2>2 DEF InSight
<1>7. CASE K # {}
  <2> DEFINE k == selected_res_index(p)
  <2>1. K \subseteq Nat
    BY <1>2, <1>3
  <2>2. k \in K
    BY <1>7, <2>1, SmallestIsLeast DEF selected_res_index
  <2>3. k \in 0 .. n - 1 /\ Reach(p, k, m) /\ m # NULL
    BY <1>4, <2>2
  <2> HIDE DEF k, K, n
  <2>4. CASE k > Rows - 1
    <3>1. first = k - (Rows - 1)
      BY <2>4 DEF ScrollTo, k
    <3>2. first + (Rows - 1) = k /\ Rows - 1 \in 0 .. Rows - 1 /\ first + Rows <= n
      BY <1>2, <2>3, <3>1
    <3> HIDE DEF first
    <3>3. \E row \in 0 .. Rows - 1 : Reach(p, first + row, m)
      BY <2>3, <3>2
    <3> QED
      BY <1>3, <3>2, <3>3 DEF InSight, first
  <2>5. CASE ~(k > Rows - 1)
    <3>1. first = 0
      BY <2>5 DEF ScrollTo, k
    <3>2. k \in 0 .. Rows - 1 /\ 0 + k = k
      BY <1>2, <2>3, <2>5
    <3>3. \E row \in 0 .. Rows - 1 : Reach(p, 0 + row, m)
      BY <2>3, <3>2
    <3> QED
      BY <3>1, <3>3 DEF InSight
  <2> QED
    BY <2>4, <2>5
<1> QED
  BY <1>6, <1>7

LEMMA NullInSight ==
    ASSUME list \in [Depths -> Seq(Modes)]
    PROVE  InSight(NULL, ScrollTo(selected_res_index(NULL)), NULL)
<1>1. count_res(NULL) = 0
  BY ChainOfNull, FS_EmptySet DEF count_res
<1>2. 0 .. count_res(NULL) - 1 = {}
  BY <1>1
<1>3. selected_res_index(NULL) = -1
  BY <1>2 DEF selected_res_index
<1> QED
  BY <1>3, SelectionAssumption DEF ScrollTo, InSight

(* Theorem: a list is loaded into the box so that its marked mode is in sight, for
   lists and boxes of any length. *)
THEOREM ChoiceInSight == Spec => ShowsChoice
<1> DEFINE Shown == /\ cur_res' # NULL =>
                          \E row \in 0 .. Rows - 1 :
                              Reach(lbox_items, lbox_first + row, cur_res)'
                    /\ (lbox_first = 0 \/ lbox_first + Rows <= count_res(lbox_items))'
<1>1. ASSUME list' = list, InSight(lbox_items', lbox_first', cur_res') PROVE Shown
  <2>1. \A k : Reach(lbox_items, lbox_first + k, cur_res)'
                  <=> Reach(lbox_items', lbox_first' + k, cur_res')
    BY <1>1 DEF Reach
  <2>2. count_res(lbox_items)' = count_res(lbox_items')
    BY <1>1 DEF count_res, Chain
  <2> QED
    BY <1>1, <2>1, <2>2 DEF InSight
<1>2. ASSUME IInv, [Next]_vars, lbox_items' # lbox_items PROVE Shown
  <2>1. TypeOK /\ Disjoint(list) /\ list \in [Depths -> Seq(Modes)]
    BY <1>2 DEF IInv, TypeOK
  <2>2. CASE OpenDialog
    <3>1. /\ list' = list /\ lbox_items' = res_tab /\ cur_res' = cur_res
          /\ lbox_first' = ScrollTo(selected_res_index(res_tab)) /\ pc = "select"
      BY <2>2 DEF OpenDialog
    <3>2. /\ InList(bpp_index) \intersect selected = {cur_res} \ {NULL}
          /\ cur_res # NULL => res_tab = list[bpp_index][1]
          /\ bpp_index \in Depths
      BY <1>2, <3>1 DEF IInv, Starting, TypeOK
    <3>3. CASE res_tab \in InList(bpp_index)
      <4>1. list[bpp_index] # <<>>
        BY <2>1, <3>2, <3>3 DEF InList
      <4>2. cur_res # NULL => Chain(res_tab) = InList(bpp_index)
        BY <2>1, <3>2, <4>1, ChainFromHead
      <4>3. Chain(res_tab) \subseteq InList(bpp_index)
        BY <2>1, <3>2, <3>3, ChainInList
      <4>4. Chain(res_tab) \intersect selected = {cur_res} \ {NULL}
        BY <3>2, <4>2, <4>3
      <4> QED
        BY <1>1, <2>1, <3>1, <3>2, <3>3, <4>4, LoadedInSight
    <3>4. CASE NonEmpty = {} /\ res_tab = NULL
      <4>1. InList(bpp_index) = {}
        BY <2>1, <3>2, <3>4 DEF NonEmpty, InList
      <4>2. cur_res = NULL
        BY <3>2, <4>1
      <4> QED
        BY <1>1, <2>1, <3>1, <3>4, <4>2, NullInSight
    <3> QED
      BY <1>2, <3>1, <3>3, <3>4 DEF IInv, Loaded
  <2>3. CASE Colors
    <3>1. PICK d \in NonEmpty : SwitchDepth(d)
      BY <2>1, <2>3, ColorsSwitch
    <3>2. /\ list' = list /\ lbox_items' = list[d][1]
          /\ lbox_first' = ScrollTo(selected_res_index(list[d][1]))
          /\ cur_res' = lbox_get_slct_item(list[d][1])
          /\ d \in Depths
      BY <2>3, <3>1 DEF Colors, SwitchDepth, NonEmpty
    <3>3. list[d][1] \in InList(d) /\ Chain(list[d][1]) = InList(d)
      BY <2>1, <3>1, ChainFromHead DEF NonEmpty
    <3>4. Chain(list[d][1]) \intersect selected = {cur_res'} \ {NULL}
      <4>1. CASE InList(d) \intersect selected = {}
        BY <3>2, <3>3, <4>1 DEF lbox_get_slct_item
      <4>2. CASE InList(d) \intersect selected # {}
        <5>1. cur_res' \in InList(d) \intersect selected
          BY <3>2, <3>3, <4>2 DEF lbox_get_slct_item
        <5>2. \A m \in InList(d) \intersect selected : m = cur_res'
          BY <1>2, <3>2, <5>1 DEF IInv, AtMostOne
        <5>3. cur_res' # NULL
          BY <2>1, <5>1, SelectionAssumption DEF TypeOK
        <5> QED
          BY <3>3, <5>1, <5>2, <5>3
      <4> QED
        BY <4>1, <4>2
    <3> QED
      BY <1>1, <2>1, <3>2, <3>3, <3>4, LoadedInSight
  <2>4. OpenDialog \/ Colors
    BY <1>2 DEF Next, DefaultBest, SelectCurrent, ClickRow, Scroll, Ok, Cancel, vars, boxVars
  <2> QED
    BY <2>2, <2>3, <2>4
<1>3. IInv /\ [Next]_vars => [lbox_items' # lbox_items => Shown]_vars
  BY <1>2
<1> QED
  BY <1>3, Inductive, PTL DEF Spec, ShowsChoice
================================================================================
