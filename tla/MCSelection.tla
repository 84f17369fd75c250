------------------------------ MODULE MCSelection ------------------------------
(***************************************************************************)
(* Selection with three depths and a list box of two rows, so that a list  *)
(* of four modes scrolls and the current mode may start out of sight.      *)
(***************************************************************************)
EXTENDS Selection, TLC

CONSTANTS a, b, c, d, e, f

MCModes == {a, b, c, d, e, f}

(* d and e are listed twice under one code, as the VGA list of initres_falc
   does; a, b and c differ in rez only, as the ST modes do; the
   last code is a current mode that no table knows *)
Hw(rez, vmode) == [rez |-> rez, vmode |-> vmode]

MCCode == a :> Hw(4, 0) @@ b :> Hw(2, 0) @@ c :> Hw(3, 0)
          @@ d :> Hw(5, 1) @@ e :> Hw(5, 1) @@ f :> Hw(5, 2)
MCCodes == {MCCode[m] : m \in MCModes} \union {Hw(5, 9)}
MCSize == a :> 3 @@ b :> 1 @@ c :> 2 @@ d :> 2 @@ e :> 2 @@ f :> 4

Table(s0, s1, s2) == 0 :> s0 @@ 1 :> s1 @@ 2 :> s2

MCInitTables ==
    { Table(<<>>, <<>>, <<>>),
      Table(<<a>>, <<b>>, <<c>>),
      Table(<<a, f>>, <<>>, <<b, d, e, c>>),
      Table(<<>>, <<b, c, d, e>>, <<>>),
      Table(<<b, a, e, d>>, <<f, c>>, <<>>) }
================================================================================
