------------------------------ MODULE MCSaveStore ------------------------------
(***************************************************************************)
(* SaveStore with modes whose codes differ in rez, in one byte of vmode,    *)
(* in its width and in depth, and with the files the program was made for. *)
(***************************************************************************)
EXTENDS SaveStore, MCSaveConfig

MCModes ==
    {Mode(2, 0, 4), Mode(9, 0, 8), Mode(5, 26, 4), Mode(5, 16642, 16),
     Mode(5, 16901, 32), Mode(10, 16385, 8)}

(* fVDI knows a driver for each of the depths *)
Drivers ==
    FlattenSeq([i \in 1 .. 4 |->
        <<Driver(<<4, 8, 16, 32>>[i]), Word("a driver"), NL>>])

Fvdi(before, after) ==
    before \o <<Word("01r"), Word("a driver"), ModeName(Mode(5, 26, 4)), NL>>
        \o after

(* with the drivers before the mode's line and after it, without the one of the
   mode, and with the mode's line as the last, which is not found there *)
MCFiles(target) ==
    IF target = "fvdi"
    THEN {Fvdi(Drivers, Other("x")), Fvdi(<<>>, Drivers \o Other("x")),
          Fvdi(<<>>, Other("x")), Fvdi(Drivers, <<>>)}
    ELSE Expected(target)
================================================================================
