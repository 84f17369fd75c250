------------------------------- MODULE MCApplyRes ------------------------------
(***************************************************************************)
(* ApplyRes with two applications, a limit of three steps of a counter     *)
(* with eight values, started from each of them.                         *)
(***************************************************************************)
EXTENDS ApplyRes

MCSlots == {1, 2}
================================================================================
