-------------------------------- MODULE MCSetup --------------------------------
(***************************************************************************)
(* Setup with the hardware of each _VDO, a Vampire told by its processor   *)
(* or by its machine, and an old TOS without cookies.                      *)
(***************************************************************************)
EXTENDS Setup

Cookie(id, value) == [id |-> id, value |-> value]

Machine(vampire, video, processor, board) ==
    [vampire |-> vampire,
     cookies |-> <<Cookie("_CPU", processor), Cookie("_VDO", video * 65536),
                   Cookie("_SND", 3), Cookie("_MCH", board * 65536)>>]

MCHardware ==
    {Machine(FALSE, video, 30, video) : video \in 0 .. 3}
    \union {Machine(TRUE, 3, 80, 3), Machine(TRUE, 0, 40, 6),
            [vampire |-> FALSE, cookies |-> <<>>]}

MCOthers == {[begins |-> "AESSYS", id |-> 3], [begins |-> "other", id |-> 0]}
================================================================================
