------------------------------- MODULE ModeTables ------------------------------
(***************************************************************************)
(* The first half of init_res: the drivers that ASSIGN.SYS names, the      *)
(* modes of the video hardware (see ModeRows), and the modes of an ET4000  *)
(* card that NVDI's drivers serve, which take the place of the hardware's. *)
(* Each struct res is allocated for itself, and any allocation may fail.   *)
(***************************************************************************)
EXTENDS ModeRows, FiniteSets, SequencesExt

CONSTANTS
    Machines,     \* what the program may find: see Init
    Beyond,       \* what lies after gdos_drivers in memory: no driver's name
    MaxLost       \* bound on failing allocations

Depths == 0 .. 7                                       \* MAX_DEPTHS
valid_planes == <<1, 2, 4, 8, 15, 16, 24, 32>>

Card(index, planes, driver) ==
    [index |-> index, planes |-> planes, driver |-> driver]

et4000modes == <<
    Card(0, 1, "XVGA2.SYS"), Card(2, 4, "XVGA16.SYS"), Card(3, 8, "XVGA256.SYS"),
    Card(4, 15, "XVGA32K.SYS"), Card(5, 16, "XVGA65K.SYS"),
    Card(6, 24, "XVGA16M.SYS") >>

Cards == DOMAIN et4000modes

Drivers == {et4000modes[i].driver : i \in Cards}

NoName == ""                     \* a row of gdos_drivers at first

(* 256 modes in nvdivga.inf and the number of one would be a code of SAGA's; at
   2^14 it would leave the short that it is kept in *)
ASSUME TablesAssumption ==
    /\ Beyond \notin Drivers
    /\ MaxLost \in Nat
    /\ \A m \in Machines :
          /\ m.assign \in Seq([id : Int, name : STRING])
          /\ m.inf \in Seq([planes : Nat, width : Nat, height : Nat])
          /\ Len(m.inf) < 256

VARIABLES
    pc,
    vdo, mono, vga,   \* the video hardware, and its monitor
    sys_vdi,          \* "atari", "nvdi" or "fvdi"
    assign,           \* the lines [id, name] of ASSIGN.SYS with a driver
    inf,              \* the modes [planes, width, height] of nvdivga.inf
    read,             \* how many lines of ASSIGN.SYS are read
    gdos_drivers,     \* the table of drivers, and the row behind its end
    todo,             \* what is still to be made a struct res
    list,             \* possible_resolutions
    rez, count,       \* these fields of et4000modes
    lost              \* allocations that failed

machine == <<vdo, mono, vga, sys_vdi, assign, inf>>
vars == <<pc, machine, read, gdos_drivers, todo, list, rez, count, lost>>

Init ==
    /\ pc = "assign"
    /\ \E m \in Machines :
          /\ vdo = m.vdo /\ mono = m.mono /\ vga = m.vga
          /\ sys_vdi = m.sys_vdi
          /\ assign = m.assign
          /\ inf = m.inf
    /\ read = 0
    /\ gdos_drivers = [id \in 0 .. 11 |-> IF id = 11 THEN Beyond ELSE NoName]
    /\ todo = <<>>
    /\ list = [d \in Depths |-> <<>>]
    /\ rez = [i \in Cards |-> 0]
    /\ count = [i \in Cards |-> 0]
    /\ lost = 0

IsRowLast(id) == id > 0 /\ id < 10                               \* mutant
IsRowAfter(id) == id > 0 /\ id <= 11                             \* mutant

IsRow(id) == id > 0 /\ id < 11

(* read_assign_sys, one line: its driver goes to the row of its id, over that of an
   earlier line *)
ReadAssign ==
    /\ pc = "assign" /\ read < Len(assign)
    /\ LET line == assign[read + 1]
       IN  IF IsRow(line.id)
           THEN gdos_drivers' = [gdos_drivers EXCEPT ![line.id] = line.name]
           ELSE UNCHANGED gdos_drivers
    /\ read' = read + 1
    /\ UNCHANGED <<pc, machine, todo, list, rez, count, lost>>

(* initres_st, _tt, _falc or _saga; other hardware has no modes *)
Rows ==
    CASE vdo = "st"     -> initres_st
      [] vdo = "tt"     -> initres_tt(mono)
      [] vdo = "falcon" -> IF mono THEN falcon_mono
                           ELSE IF vga THEN falcon_vga ELSE falcon_tv
      [] vdo = "saga"   -> (IF sys_vdi = "fvdi" THEN <<>> ELSE saga_atari)
                              \o saga_modes(sys_vdi = "fvdi")
      [] OTHER          -> <<>>

Hardware ==
    /\ pc = "assign" /\ read = Len(assign)
    /\ todo' = Rows
    /\ pc' = "create"
    /\ UNCHANGED <<machine, read, gdos_drivers, list, rez, count, lost>>

(* create_mode and create_nvdivga_mode put the node before the others *)
create_mode(m) ==
    \/ list' = [list EXCEPT ![m.idx] = <<m>> \o @] /\ UNCHANGED lost
    \/ lost < MaxLost /\ lost' = lost + 1 /\ UNCHANGED list

find_modeNever(m) == FALSE                                       \* mutant

find_mode(m) ==
    \E i \in DOMAIN list[m.idx] :
        LET r == list[m.idx][i]
        IN  <<r.width, r.height, r.planes>> = <<m.width, m.height, m.planes>>

IsSaga(m) == vdo = "saga" /\ m.vmode >= SVEXT

CreateMode ==
    /\ pc = "create" /\ todo # <<>>
    /\ IF IsSaga(Head(todo)) /\ find_mode(Head(todo)) THEN UNCHANGED <<list, lost>>
       ELSE create_mode(Head(todo))
    /\ todo' = Tail(todo)
    /\ UNCHANGED <<pc, machine, read, gdos_drivers, rez, count>>

(* mutant: the names are compared as far as "XVGA" *)
get_gdos_driver_Prefix(name) ==
    LET S == {i \in 1 .. 11 : gdos_drivers[i] \in Drivers}
    IN  IF S = {} THEN 0 ELSE CHOOSE i \in S : \A j \in S : i <= j

(* the first row with that name, 0 without one *)
get_gdos_driver(name) ==
    LET S == {i \in 1 .. 11 : gdos_drivers[i] = name}
    IN  IF S = {} THEN 0 ELSE CHOOSE i \in S : \A j \in S : i <= j

OwnedByRow(i) == i - 1                                           \* mutant

(* the list that holds a driver's modes, and only those *)
OwnedBy(i) == et4000modes[i].index

(* initres_nvdivga, up to the modes of nvdivga.inf *)
FindDrivers ==
    /\ pc = "create" /\ todo = <<>>
    /\ IF sys_vdi = "nvdi"
       THEN rez' = [i \in Cards |-> get_gdos_driver(et4000modes[i].driver)]
       ELSE UNCHANGED rez
    /\ LET present == {i \in Cards : rez'[i] > 0}
           owned == {OwnedBy(i) : i \in present}
       IN  /\ list' = [d \in Depths |-> IF d \in owned THEN <<>> ELSE list[d]]
           /\ todo' = IF present = {} THEN <<>> ELSE inf
    /\ pc' = "inf"
    /\ UNCHANGED <<machine, read, gdos_drivers, count, lost>>

(* mutant: a mode that got no memory is not counted *)
CountedIfMade(i) == IF lost' = lost THEN count[i] + 1 ELSE count[i]

Counted(i) == count[i] + 1

(* one mode of nvdivga.inf: its number counts the modes of its depth *)
InfMode ==
    /\ pc = "inf" /\ todo # <<>>
    /\ LET e == Head(todo)
       IN  \/ /\ \A i \in Cards : et4000modes[i].planes # e.planes
              /\ UNCHANGED <<list, count, lost>>
           \/ \E i \in Cards :
                 /\ et4000modes[i].planes = e.planes
                 /\ create_mode(
                      [Mode(OwnedBy(i), e.width, e.height, e.planes,
                            rez[i], SVEXT + count[i]) EXCEPT !.card = i])
                 /\ count' = [count EXCEPT ![i] = Counted(i)]
    /\ todo' = Tail(todo)
    /\ UNCHANGED <<pc, machine, read, gdos_drivers, rez>>

Built ==
    /\ pc = "inf" /\ todo = <<>>
    /\ pc' = "done"
    /\ UNCHANGED <<machine, read, gdos_drivers, todo, list, rez, count, lost>>

Next ==
    \/ ReadAssign \/ Hardware \/ CreateMode \/ FindDrivers \/ InfMode \/ Built

Spec == Init /\ [][Next]_vars

(***************************************************************************)
(* What a code stands for elsewhere                                        *)
(***************************************************************************)
(* apply and the desktop files pass one word on, and which of the two it is *)
Word(m) == IF m.vmode = 0 THEN <<m.rez, 0>> ELSE <<m.vmode, 1>>

ReportedWithPal(m, pal) == [rez |-> m.rez, vmode |-> m.vmode + pal]  \* mutant

(* what the initres_ functions report as currez and vmode when the hardware is
   in the mode of m, which it may have switched to PAL *)
Reported(m, pal) ==
    LET hw == IF m.rez = REZ_FALCON THEN m.vmode + pal ELSE 0
    IN  IF vdo \in {"falcon", "saga"}
        THEN [rez |-> REZ_FALCON,
              vmode |-> IF (hw \div PAL) % 2 = 1 THEN hw - PAL ELSE hw]
        ELSE [rez |-> m.rez, vmode |-> 0]

--------------------------------------------------------------------------------
InList(d) == ToSet(list[d])
Offered == UNION {InList(d) : d \in Depths}
Size(m) == <<m.width, m.height>>

(* The types of the variables, and each mode in the list it was made for. *)
TypeOK ==
    /\ pc \in {"assign", "create", "inf", "done"}
    /\ read \in 0 .. Len(assign)
    /\ DOMAIN gdos_drivers = 0 .. 11
    /\ DOMAIN list = Depths
    /\ \A d \in Depths : \A m \in InList(d) : m.idx = d
    /\ rez \in [Cards -> 0 .. 10]
    /\ count \in [Cards -> Nat]
    /\ lost \in 0 .. MaxLost

(* A driver that is found has the id of the first of the rows 1 to 10 whose last
   line in ASSIGN.SYS names it; get_gdos_driver's look behind the table never
   finds one. *)
DriverIsAssigned ==
    LET LastFor(k) == \A l \in DOMAIN assign : l > k => assign[l].id # assign[k].id
        Ids(name) == {assign[k].id : k \in {k \in DOMAIN assign :
                        /\ assign[k].name = name
                        /\ assign[k].id \in 1 .. 10
                        /\ LastFor(k)}}
    IN  pc = "inf" /\ sys_vdi = "nvdi" =>
            \A i \in Cards :
                LET ids == Ids(et4000modes[i].driver)
                IN  \/ ids = {} /\ rez[i] = 0
                    \/ rez[i] \in ids /\ \A id \in ids : rez[i] <= id

(* A depth that a driver serves shows that driver's modes and no others: the
   hardware's own modes of the depth are gone. *)
CardOwnsDepth ==
    pc \in {"inf", "done"} =>
        \A i \in Cards : rez[i] > 0 =>
            \A m \in InList(et4000modes[i].index) : m.card = i /\ m.rez = rez[i]

(* how many modes of the j-th one's depth are before it in nvdivga.inf *)
PlaceOf(j) == Cardinality({k \in 1 .. j - 1 : inf[k].planes = inf[j].planes})

(* The number in a card's mode is its place among the modes of its depth in
   nvdivga.inf, where NVDI looks it up: also when some mode before it found no
   memory. *)
NumberIsPlace ==
    pc = "done" =>
        \A m \in Offered : m.card # 0 =>
            \E j \in DOMAIN inf :
                /\ m.planes = inf[j].planes
                /\ Size(m) = <<inf[j].width, inf[j].height>>
                /\ m.vmode = SVEXT + PlaceOf(j)

(* In a list of the hardware's modes the size, all that a row shows, tells which
   mode it is. *)
RowTellsMode ==
    pc = "done" =>
        \A d \in Depths : \A m, n \in InList(d) :
            m.card = 0 /\ n.card = 0 /\ Size(m) = Size(n) => m = n

(* The mode that init_res looks for by its code is one mode, the hardware's and
   the card's taken together.  (A card's modes of a depth without a driver have
   no code of their own: all have rez 0.) *)
CodeTellsMode ==
    pc = "done" =>
        \A m, n \in Offered :
            m.rez > 0 /\ <<m.rez, m.vmode>> = <<n.rez, n.vmode>> => m = n

(* One word is enough to ask for a mode, as far as the word goes: it tells the
   hardware's modes from each other and from the card's, and the card's modes of
   one depth, and the hardware's modes with a vmode are the ones of REZ_FALCON.
   (Two NVDI-VGA modes of different depths share their word: each depth is
   numbered from 0.) *)
WordTellsMode ==
    pc = "done" =>
        \A m, n \in Offered :
            /\ m.card = 0 \/ n.card = 0 \/ m.planes = n.planes =>
                  (Word(m) = Word(n) => m = n)
            /\ m.card = 0 /\ m.vmode # 0 => m.rez = REZ_FALCON

(* A mode that was picked from the table and has taken effect is found again at
   the next start, in PAL or not. *)
FoundAgain ==
    pc = "done" =>
        \A m \in Offered : \A pal \in {0, PAL} : m.card = 0 =>
            Reported(m, pal) = [rez |-> m.rez, vmode |-> m.vmode]

(* valid_planes, bpp_tab: the modes of a list have the depth that the popup and
   the button name. *)
LabelTrue == \A d \in Depths : \A m \in InList(d) : m.planes = valid_planes[d + 1]
================================================================================
