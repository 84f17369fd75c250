------------------------------- MODULE SaveStore -------------------------------
(***************************************************************************)
(* SaveConfig implements ConfigStore, for files that it was written for.   *)
(* The file is cut short, or half written, from Open to Close; a reader    *)
(* that does not look in between, which is to say a machine that is not    *)
(* switched off, sees the old file until the save returns.                 *)
(***************************************************************************)
EXTENDS SaveConfig

visible == IF pc = "write" THEN old ELSE disk

OthersOf(b) ==
    IF b = NoFile THEN {}
    ELSE Others(b) \union (IF Desk THEN {<<0, OtherFields(b)>>} ELSE {})

(* the new text is shorter than the lines that it replaces in the file *)
TextLength ==
    CASE Target = "xaaes" -> Len(XaaesText(cur_res))
      [] Target = "myaes" -> Len(MyaesText(cur_res))
      [] OTHER            -> 0

Shorter(b) == Overwritten /\ b # NoFile /\ TextLength < RoomIn(b)

Kind(mode) == mode.vmode = 0

Store == INSTANCE ConfigStore WITH
    Modes  <- Chosen,
    wanted <- cur_res,
    stored <- {m \in Chosen : visible # NoFile /\ HoldsMode(visible, m)},
    others <- OthersOf(visible),
    status <- IF pc # "done" THEN "busy" ELSE IF ret = 1 THEN "saved" ELSE "failed",
    shrinks <- Shorter(visible),
    careless <- Desk,
    fresh  <- OthersOf(default_newdesk)

(* Each run of the program is one step of the store: the confirmed mode and no
   other of its hardware is read back, and the rest of the file is the same, or
   has the end of a longer text behind it, where the file is not truncated; or
   nothing has changed and the result says so.  Only the desktop's files are
   treated carelessly: when the file cannot be loaded the built-in NEWDESK.INF
   takes its place, and when it cannot be created the result is still 1. *)
StoresMode == Store!Spec
================================================================================
