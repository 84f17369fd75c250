------------------------------- MODULE Selection -------------------------------
(***************************************************************************)
(* The resolution dialog of chgres.c: the mode lists built per colour      *)
(* depth, how init_res picks the list and the mode that are shown first,   *)
(* and what select_res and hdl_obj do with the user's clicks until the     *)
(* dialog closes with or without a confirmed mode.                         *)
(*                                                                         *)
(* A struct res is a member of Modes.  list[d] is the chain that starts at *)
(* possible_resolutions[d]; res_tab and the list box's own item pointer    *)
(* are nodes of some chain, so what is shown is the part of the chain from *)
(* that node on.                                                           *)
(***************************************************************************)
EXTENDS ResOrder, FiniteSets

CONSTANTS
    MAX_DEPTHS,   \* number of colour depths (8 in extern.h)
    Rows,         \* rows of the list box (N_ITEMS = 10 in chgres.c)
    Modes,        \* the struct res nodes
    NULL,         \* the null pointer
    Code,         \* Code[m]: the hardware code of m, a record of rez and vmode
    Codes,        \* what (currez, vmode) may be
    InitTables,   \* the tables the initres_ functions may leave behind
    MallocFails   \* the outcomes of Malloc explored: a subset of BOOLEAN

Depths == 0 .. MAX_DEPTHS - 1

(* the tables are made of distinct nodes, each in one chain *)
Disjoint(t) ==
    \A d, e \in Depths : \A i \in DOMAIN t[d], j \in DOMAIN t[e] :
        t[d][i] = t[e][j] => d = e /\ i = j

ASSUME SelectionAssumption ==
    /\ MAX_DEPTHS \in Nat \ {0}
    /\ Rows \in Nat \ {0}
    /\ IsFiniteSet(Modes)
    /\ NULL \notin Modes
    /\ Code \in [Modes -> Codes]
    /\ \A c \in Codes : c = [rez |-> c.rez, vmode |-> c.vmode]
    /\ Size \in [Modes -> Int]
    /\ MallocFails \subseteq BOOLEAN
    /\ InitTables \subseteq [Depths -> Seq(Modes)]
    /\ \A t \in InitTables : Disjoint(t)

VARIABLES
    pc,             \* "default", "select", "open" or "closed"
    scan,           \* the depth init_res looks at next
    current,        \* (currez, vmode) as the initres_ functions report it
    list,           \* the chains of possible_resolutions
    bpp_index,      \* the depth shown
    res_tab,        \* first node of the list shown
    taken,          \* history: when res_tab was read, see WholeListShown
    cur_res,        \* the mode that OK would confirm
    selected,       \* nodes with base.selected set
    lbox_items,     \* the list box's item pointer
    lbox_first,     \* the list box's first visible item
    lbox_names,     \* the depths named by the colour popup
    color_label,    \* the depth named on the colour button
    ok_enabled,     \* the OK button is not OS_DISABLED
    must_shutdown

initVars == <<scan, current>>
boxVars == <<lbox_items, lbox_first>>
vars == <<pc, scan, current, list, bpp_index, res_tab, taken, cur_res, selected,
          lbox_items, lbox_first, lbox_names, color_label, ok_enabled,
          must_shutdown>>

(***************************************************************************)
(* The lists                                                               *)
(***************************************************************************)
NonEmpty == {d \in Depths : list[d] # <<>>}

(* m is k links after p *)
Reach(p, k, m) ==
    \E d \in Depths : \E i \in DOMAIN list[d] :
        /\ list[d][i] = p
        /\ i + k \in DOMAIN list[d]
        /\ m = list[d][i + k]

Chain(p) ==
    {m \in Modes : \E d \in Depths : \E i, j \in DOMAIN list[d] :
                       i <= j /\ list[d][i] = p /\ list[d][j] = m}

count_res(p) == Cardinality(Chain(p))

Smallest(S) == CHOOSE k \in S : \A j \in S : k <= j

(* place of the first selected node of the chain at p, -1 without one *)
selected_res_index(p) ==
    LET K == {k \in 0 .. count_res(p) - 1 :
                 \E m \in selected : Reach(p, k, m)}
    IN  IF K = {} THEN -1 ELSE Smallest(K)

(* without memory for its table sort_restab leaves the chain as it is *)
sort_restab(s, failed) == IF failed THEN {s} ELSE qsort(s)

(***************************************************************************)
(* init_res, after the tables are built                                    *)
(***************************************************************************)
Init ==
    /\ pc = "default"
    /\ scan = 0
    /\ current \in Codes
    /\ list \in InitTables
    /\ bpp_index = 0
    /\ res_tab = NULL
    /\ taken = "sorted"
    /\ cur_res = NULL
    /\ selected = {}
    /\ lbox_items = NULL
    /\ lbox_first = 0
    /\ lbox_names = <<>>
    /\ color_label = 0
    /\ ok_enabled = FALSE
    /\ must_shutdown = 0

(* show the deepest list that has modes *)
DefaultBest ==
    /\ pc = "default"
    /\ \/ /\ NonEmpty = {}
          /\ UNCHANGED <<list, bpp_index, res_tab, taken>>
       \/ \E best \in NonEmpty, failed \in MallocFails :
          \E s \in sort_restab(list[best], failed) :
             /\ \A d \in NonEmpty : d <= best
             /\ list' = [list EXCEPT ![best] = s]
             /\ bpp_index' = best
             /\ res_tab' = s[1]
             /\ taken' = IF failed THEN "unsorted" ELSE "sorted"
    /\ pc' = "select"
    /\ UNCHANGED <<cur_res, selected, initVars, boxVars, lbox_names,
                   color_label, ok_enabled, must_shutdown>>

(* mutant: the vmode alone is compared *)
IsCurrentByVmode(m) == Code[m].vmode = current.vmode

IsCurrent(m) == Code[m].rez = current.rez /\ Code[m].vmode = current.vmode

(* res_tab is not read again when its list is sorted at last *)
Retaken(failed) ==
    IF taken = "unsorted" /\ scan = bpp_index /\ ~failed THEN "too early"
    ELSE taken

(* mutant: res_tab is read before the list is sorted *)
SelectCurrentStale ==
    /\ pc = "select"
    /\ scan \in Depths
    /\ \E failed \in MallocFails : \E s \in sort_restab(list[scan], failed) :
          /\ list' = [list EXCEPT ![scan] = s]
          /\ \/ /\ \A i \in DOMAIN s : ~IsCurrent(s[i])
                /\ taken' = Retaken(failed)
                /\ UNCHANGED <<cur_res, selected, bpp_index, res_tab>>
             \/ \E i \in DOMAIN s :
                   /\ IsCurrent(s[i])
                   /\ \A j \in DOMAIN s : j < i => ~IsCurrent(s[j])
                   /\ cur_res' = s[i]
                   /\ selected' = selected \union {s[i]}
                   /\ bpp_index' = scan
                   /\ res_tab' = list[scan][1]
                   /\ taken' = "sorted"
    /\ scan' = scan + 1
    /\ UNCHANGED <<pc, current, boxVars, lbox_names, color_label, ok_enabled,
                   must_shutdown>>

(* one round of the loop that looks for the current mode *)
SelectCurrent ==
    /\ pc = "select"
    /\ scan \in Depths
    /\ \E failed \in MallocFails : \E s \in sort_restab(list[scan], failed) :
          /\ list' = [list EXCEPT ![scan] = s]
          /\ \/ /\ \A i \in DOMAIN s : ~IsCurrent(s[i])
                /\ taken' = Retaken(failed)
                /\ UNCHANGED <<cur_res, selected, bpp_index, res_tab>>
             \/ \E i \in DOMAIN s :
                   /\ IsCurrent(s[i])
                   /\ \A j \in DOMAIN s : j < i => ~IsCurrent(s[j])
                   /\ cur_res' = s[i]
                   /\ selected' = selected \union {s[i]}
                   /\ bpp_index' = scan
                   /\ res_tab' = s[1]
                   /\ taken' = "sorted"
    /\ scan' = scan + 1
    /\ UNCHANGED <<pc, current, boxVars, lbox_names, color_label, ok_enabled,
                   must_shutdown>>

(***************************************************************************)
(* select_res                                                              *)
(***************************************************************************)
(* the labels of the depths that have modes, in the order of the table *)
init_lbox_names ==
    LET n == Cardinality(NonEmpty)
    IN  {f \in [1 .. n -> NonEmpty] : \A i, j \in 1 .. n : i < j => f[i] < f[j]}

CountUpTo(d) == Cardinality({e \in NonEmpty : e <= d})

index_to_popup_OffByOne(d) == CountUpTo(d)     \* mutant

index_to_popup(d) == CountUpTo(d) - 1

popup_to_index(idx) ==
    LET S == {d \in Depths : CountUpTo(d) > idx}
    IN  IF S = {} THEN -1 ELSE Smallest(S)

ScrollToUnchecked(idx) == idx - (Rows - 1)                                 \* mutant
ScrollToOneOff(idx) == IF idx > Rows THEN idx - (Rows - 1) ELSE 0          \* mutant

(* first visible row when the selected item is offset idx of its list *)
ScrollTo(idx) == IF idx > Rows - 1 THEN idx - (Rows - 1) ELSE 0

OkStateAlways(res) == TRUE      \* mutant

(* OK is enabled for a mode and disabled for the null pointer *)
OkState(res) == res # NULL

set_bpp_Stale(d) == UNCHANGED color_label     \* mutant

(* write the label of depth d on the colour button *)
set_bpp(d) == color_label' = d

(* the dialog, the list box and the window are made, or one of them is not *)
OpenDialog ==
    /\ pc = "select"
    /\ scan = MAX_DEPTHS
    /\ ok_enabled' = OkState(cur_res)
    /\ lbox_names' \in init_lbox_names
    /\ set_bpp(bpp_index)
    /\ lbox_items' = res_tab
    /\ lbox_first' = ScrollTo(selected_res_index(res_tab))
    /\ pc' \in {"open", "closed"}
    /\ UNCHANGED <<initVars, list, bpp_index, res_tab, taken, cur_res,
                   selected, must_shutdown>>

(***************************************************************************)
(* hdl_obj and the callbacks of the list box                               *)
(***************************************************************************)
Close(confirmed) ==
    /\ pc' = "closed"
    /\ must_shutdown' = confirmed

(* mutants: the callback forgets the pointer; the list box keeps the old mark
   (LBOX_SNGL missing); every list is cleared *)
select_item_Forgets(m) ==
    /\ selected' = (selected \ Chain(lbox_items)) \union {m}
    /\ ok_enabled' = (cur_res = NULL \/ ok_enabled)
    /\ UNCHANGED cur_res
select_item_Multiple(m) ==
    /\ selected' = selected \union {m}
    /\ ok_enabled' = (cur_res = NULL \/ ok_enabled)
    /\ cur_res' = m
select_item_ClearsAll(m) ==
    /\ selected' = {m}
    /\ ok_enabled' = (cur_res = NULL \/ ok_enabled)
    /\ cur_res' = m

(* lbox_do on a row with an item: the item becomes the only selected one of
   the list, then the callback select_item runs *)
select_item(m) ==
    /\ selected' = (selected \ Chain(lbox_items)) \union {m}
    /\ ok_enabled' = (cur_res = NULL \/ ok_enabled)
    /\ cur_res' = m

ClickRow ==
    /\ pc = "open"
    /\ \E row \in 0 .. Rows - 1 : \E m \in Chain(lbox_items) :
          /\ Reach(lbox_items, lbox_first + row, m)
          /\ select_item(m)
    /\ \/ UNCHANGED <<pc, must_shutdown>>
       \/ Close(1)                      \* double click: lbox_do returned -1
    /\ UNCHANGED <<initVars, list, bpp_index, res_tab, taken, boxVars,
                   lbox_names, color_label>>

Scroll ==
    /\ pc = "open"
    /\ \E first \in 0 .. count_res(lbox_items) - Rows : lbox_first' = first
    /\ UNCHANGED <<pc, initVars, list, bpp_index, res_tab, taken, cur_res,
                   selected, lbox_items, lbox_names, color_label, ok_enabled,
                   must_shutdown>>

(* what simple_popup may return: a row, -1 when dismissed, or the row it was
   given when there is no memory *)
simple_popup(names, marked) ==
    {-1, marked} \union {k - 1 : k \in DOMAIN names}

lbox_get_slct_item(p) ==
    IF Chain(p) \intersect selected = {} THEN NULL
    ELSE CHOOSE m \in Chain(p) \intersect selected : TRUE

(* show the list of depth d *)
SwitchDepth(d) ==
    /\ bpp_index' = d
    /\ res_tab' = list[d][1]
    /\ taken' = "sorted"
    /\ set_bpp(d)
    /\ lbox_first' = ScrollTo(selected_res_index(list[d][1]))
    /\ lbox_items' = list[d][1]
    /\ cur_res' = lbox_get_slct_item(list[d][1])
    /\ ok_enabled' = OkState(cur_res')

Colors ==
    /\ pc = "open"
    /\ \E index \in simple_popup(lbox_names, index_to_popup(bpp_index)) :
          /\ index >= 0
          /\ popup_to_index(index) \in Depths \ {bpp_index}
          /\ SwitchDepth(popup_to_index(index))
    /\ UNCHANGED <<pc, initVars, list, selected, lbox_names, must_shutdown>>

Ok ==
    /\ pc = "open"
    /\ ok_enabled
    /\ Close(1)
    /\ UNCHANGED <<initVars, list, bpp_index, res_tab, taken, cur_res,
                   selected, boxVars, lbox_names, color_label, ok_enabled>>

(* the Cancel button, or the window's closer (HNDL_CLSD) *)
Cancel ==
    /\ pc = "open"
    /\ \/ Close(0)
       \/ Close(must_shutdown)
    /\ UNCHANGED <<initVars, list, bpp_index, res_tab, taken, cur_res,
                   selected, boxVars, lbox_names, color_label, ok_enabled>>

Next ==
    \/ DefaultBest
    \/ SelectCurrent
    \/ OpenDialog
    \/ ClickRow
    \/ Scroll
    \/ Colors
    \/ Ok
    \/ Cancel

Spec == Init /\ [][Next]_vars

--------------------------------------------------------------------------------
(***************************************************************************)
(* Properties                                                              *)
(***************************************************************************)
InList(d) == {list[d][i] : i \in DOMAIN list[d]}

(* The types of the variables. *)
TypeOK ==
    /\ pc \in {"default", "select", "open", "closed"}
    /\ scan \in 0 .. MAX_DEPTHS
    /\ current \in Codes
    /\ list \in [Depths -> Seq(Modes)]
    /\ bpp_index \in Depths
    /\ res_tab \in Modes \union {NULL}
    /\ taken \in {"sorted", "unsorted", "too early"}
    /\ cur_res \in Modes \union {NULL}
    /\ selected \subseteq Modes
    /\ lbox_items \in Modes \union {NULL}
    /\ lbox_first \in Nat
    /\ lbox_names \in Seq(Depths)
    /\ color_label \in Depths
    /\ ok_enabled \in BOOLEAN
    /\ must_shutdown \in {0, 1}

(* main saves and applies cur_res when select_res returns 1: by then cur_res
   is a real mode, it belongs to the depth named on the colour button, and it
   is the one highlighted in the list the user saw.  Neither save nor apply
   checks the pointer. *)
ConfirmedMode ==
    must_shutdown = 1 =>
        /\ cur_res \in Modes
        /\ cur_res \in InList(color_label)
        /\ Chain(lbox_items) \intersect selected = {cur_res}

(* While the dialog is open the highlighted row and the global cur_res agree,
   although one is kept by the list box and the other by the callback. *)
HighlightIsChoice ==
    pc = "open" =>
        Chain(lbox_items) \intersect selected = {cur_res} \ {NULL}

(* OK can be pressed exactly when there is a mode to confirm; three places in
   the code switch the button. *)
OkIffChoice == pc = "open" => (ok_enabled <=> cur_res # NULL)

(* The label on the colour button names the depth whose list is shown. *)
LabelMatchesList ==
    pc = "open" =>
        /\ color_label = bpp_index
        /\ Chain(lbox_items) \subseteq InList(color_label)
        /\ NonEmpty # {} => Chain(lbox_items) # {}

(* The popup's rows, made by init_lbox_names, and the two conversions between
   rows and depths count the same tables: a row leads to the depth it names,
   and the row that is check-marked names the depth shown. *)
PopupRoundTrip ==
    pc = "open" =>
        /\ \A k \in DOMAIN lbox_names : popup_to_index(k - 1) = lbox_names[k]
        /\ NonEmpty # {} =>
              /\ index_to_popup(bpp_index) + 1 \in DOMAIN lbox_names
              /\ lbox_names[index_to_popup(bpp_index) + 1] = bpp_index

(* In each depth at most one mode is marked, so a click leaves no second one
   highlighted. *)
AtMostOne ==
    \A d \in Depths : \A m, n \in InList(d) \intersect selected : m = n

(* Every mode of the depth shown is in the list box: the second sort of a list
   leaves its first mode where it is, although it moves others.  The one
   exception: when the first sort of the deepest list got no memory and the
   second one did, res_tab was read too early and is left on a node in the middle
   of the sorted chain, until the user comes back from another depth; and only
   if the current mode was not found there, for then it is read again. *)
WholeListShown ==
    pc = "open" =>
        \/ Chain(lbox_items) = InList(bpp_index)
        \/ /\ taken = "too early"
           /\ \A d \in NonEmpty : d <= bpp_index
           /\ \A m \in InList(bpp_index) : ~IsCurrent(m)

(* A depth keeps its highlighted mode while the list of another is shown. *)
RemembersChoice ==
    [][pc = "open" =>
         \A d \in Depths \ {bpp_index} :
             (InList(d) \intersect selected)' = InList(d) \intersect selected]_vars

(* Whenever a list is loaded into the list box, when the dialog opens and
   after a change of depth, the highlighted mode is among the visible rows, and
   a list that fills the box leaves no row empty. *)
ShowsChoice ==
    [][lbox_items' # lbox_items =>
         /\ cur_res' # NULL =>
               \E row \in 0 .. Rows - 1 :
                   Reach(lbox_items, lbox_first + row, cur_res)'
         /\ (lbox_first = 0 \/ lbox_first + Rows <= count_res(lbox_items))']_vars

(* The dialog opens on the list that holds the current mode, with it chosen;
   with no mode of the current code it opens on the deepest list, with none
   chosen. *)
PreselectsCurrent ==
    [][pc = "select" /\ pc' = "open" =>
         LET now == {d \in Depths : \E m \in InList(d) : Code[m] = current}
         IN  IF now # {}
             THEN /\ bpp_index' \in now
                  /\ cur_res' \in InList(bpp_index)'
                  /\ Code[cur_res'] = current
             ELSE /\ cur_res' = NULL
                  /\ \A d \in NonEmpty : d <= bpp_index']_vars
================================================================================
