--------------------------------- MODULE Chgres --------------------------------
(***************************************************************************)
(* main() of chgres.c: the dialog, then save(), then apply() unless the    *)
(* save had to succeed and did not.  save and apply are those of           *)
(* SaveConfig and ApplyRes, on the same system; of the dialog only its     *)
(* outcome is left, a confirmed mode or none (see Selection).              *)
(*                                                                         *)
(* SaveConfig's variables are used as they are: pc and ret are those of    *)
(* save.  The program runs once.                                           *)
(***************************************************************************)
EXTENDS SaveConfig

CONSTANTS Slots, Limit, Wrap, MaxTime                     \* of ApplyRes

ASSUME OneRun == Saves = 1

VARIABLES
    phase,        \* "dialog", "save", "apply" or "end"
    told,         \* the user has seen the message that nothing was done
    apply_pc, retries, startms, apid, applied, time, boot, blocking,
    last_veto, machine

(* apply tells no difference between the AESes on MiNT that are not N.AES *)
sys_aes == IF aes \in {"xaaes", "myaes"} THEN "mint" ELSE aes

Apply == INSTANCE ApplyRes WITH
            pc <- apply_pc, ret <- applied

apply_vars == <<apply_pc, retries, startms, apid, applied, time, boot,
                blocking, last_veto, machine>>
main_vars == <<phase, told, vars, apply_vars>>

MainInit ==
    /\ phase = "dialog"
    /\ told = FALSE
    /\ Init
    /\ Apply!Init

DialogAppliesFirst ==                                            \* mutant
    /\ phase = "dialog"
    /\ phase' \in {"apply", "end"}
    /\ UNCHANGED <<told, vars, apply_vars>>

(* select_res returns 1 or 0 *)
Dialog ==
    /\ phase = "dialog"
    /\ phase' \in {"save", "end"}
    /\ UNCHANGED <<told, vars, apply_vars>>

Saving ==
    /\ phase = "save"
    /\ Next
    /\ UNCHANGED <<phase, told, apply_vars>>

SaveFailedIgnored == FALSE                                       \* mutant

SaveFailed == ret < 0

(* mutants: no else; no message *)
SavedFallsThrough ==
    /\ phase = "save" /\ pc = "done"
    /\ phase' = "apply"
    /\ told' = SaveFailed
    /\ UNCHANGED <<vars, apply_vars>>
SavedSilent ==
    /\ phase = "save" /\ pc = "done"
    /\ phase' = IF SaveFailed THEN "end" ELSE "apply"
    /\ UNCHANGED <<told, vars, apply_vars>>

(* a save that had to succeed and did not ends the program with a message *)
Saved ==
    /\ phase = "save" /\ pc = "done"
    /\ phase' = IF SaveFailed THEN "end" ELSE "apply"
    /\ told' = SaveFailed
    /\ UNCHANGED <<vars, apply_vars>>

(* the rest of the machine runs on meanwhile *)
Applying ==
    /\ phase = "apply"
    /\ UNCHANGED <<phase, told, vars>>
    /\ Apply!Next

Applied ==
    /\ phase = "apply" /\ apply_pc = "done"
    /\ phase' = "end"
    /\ told' = (applied < 0)
    /\ UNCHANGED <<vars, apply_vars>>

MainNext == Dialog \/ Saving \/ Saved \/ Applying \/ Applied

MainSpec == MainInit /\ [][MainNext]_main_vars
--------------------------------------------------------------------------------
Confirmed == pc = "done"

(* The message says that the resolution was not changed: then the file was not
   touched, the AES has not switched, and no shutdown or reset is under way. *)
ErrorMeansNothingDone == told => machine = "up" /\ disk = old

(* Without the message something was done about a confirmed mode: the AES has
   switched, or the machine was reset (whether into that mode: see
   RebootEntersChosen).  MagiC is left out: shel_write may refuse the restart
   there, and apply does not look at its result. *)
SilentMeansDone ==
    phase = "end" /\ Confirmed /\ ~told /\ Target # "magic" =>
        machine \in {"switched", "reset"}

(* fVDI and XaAES get the mode from their file only, so nothing is done to the
   machine before the mode is in it, whatever goes wrong before the file is
   written: its path, its contents, or opening it.  A write that a full disk cuts
   short is left out, since save does not notice it: see SavedMeansWritten. *)
SavedBeforeApplied ==
    /\ machine # "up" /\ Target \in {"fvdi", "xaaes"}
    /\ WellFormed(old) /\ ~cut
    => Holds(disk)

(* README.TXT: where the AES cannot switch, the machine is rebooted so that it
   can enter the selected resolution: the file that tells it which one that is
   has been written by then. *)
RebootEntersChosen ==
    machine \in {"reset", "shutting"} /\ WellFormed(old) => Holds(disk)

(* A machine that is shut down or restarts has no write to come; and, unless a
   full disk cut a write short, which save does not notice, it finds the file
   whole: with the confirmed mode in it, or as it was before the program was
   started. *)
ResetFindsWhole ==
    machine \in {"reset", "shutting", "down", "refused"} =>
        /\ pc = "done"
        /\ WellFormed(old) /\ ~cut => Holds(disk) \/ disk = old
================================================================================
