----------------------------- MODULE MCModeTables ------------------------------
(***************************************************************************)
(* ModeTables on every hardware and monitor, with short ASSIGN.SYS and     *)
(* nvdivga.inf files.                                                      *)
(***************************************************************************)
EXTENDS ModeTables

Line(id, name) == [id |-> id, name |-> name]
Entry(planes, width, height) ==
    [planes |-> planes, width |-> width, height |-> height]

Computer(hardware, vdi, assigned, modes) ==
    [vdo |-> hardware[1], mono |-> hardware[2], vga |-> hardware[3],
     sys_vdi |-> vdi, assign |-> assigned, inf |-> modes]

AllHardware ==
    {<<"st", FALSE, FALSE>>, <<"tt", TRUE, FALSE>>, <<"tt", FALSE, FALSE>>,
     <<"falcon", TRUE, FALSE>>, <<"falcon", FALSE, TRUE>>,
     <<"falcon", FALSE, FALSE>>, <<"saga", FALSE, FALSE>>,
     <<"other", FALSE, FALSE>>}

(* ids in and out of range, twice, and two ids for one driver *)
AssignLines ==
    {Line(id, name) : id \in {0, 1, 5, 10, 11},
                      name \in {"XVGA16.SYS", "XVGA256.SYS", "META.SYS"}}
Assigns == UNION {[1 .. n -> AssignLines] : n \in 0 .. 2}

(* two modes of a depth, of several depths, and of depths without a driver *)
Infs ==
    {<<>>, <<Entry(4, 800, 600), Entry(8, 640, 400), Entry(4, 640, 400)>>,
     <<Entry(8, 640, 480), Entry(2, 640, 480), Entry(8, 800, 600),
       Entry(24, 640, 480), Entry(15, 640, 480)>>}

Drivers4and8 == <<Line(5, "XVGA256.SYS"), Line(2, "XVGA16.SYS")>>

MCMachines ==
    {Computer(hw, vdi, Drivers4and8, modes) :
        hw \in AllHardware, vdi \in {"atari", "nvdi", "fvdi"}, modes \in Infs}
    \union
    {Computer(hw, "nvdi", a, modes) :
        hw \in {<<"st", FALSE, FALSE>>, <<"tt", TRUE, FALSE>>},
        a \in Assigns, modes \in Infs}
================================================================================
