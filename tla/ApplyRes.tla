-------------------------------- MODULE ApplyRes -------------------------------
(***************************************************************************)
(* apply() of chgres.c: how the confirmed mode takes effect.  MagiC starts *)
(* SHUTDOWN.PRG; an AES on MiNT is asked to change the resolution, and     *)
(* N.AES may refuse and name an application in its way, which apply kills  *)
(* before it asks again, for ten seconds at most; everything else resets   *)
(* the machine.  The word that asks the AES for the mode is Word of        *)
(* ModeTables, where the modes are; here the AES is asked or is not.       *)
(*                                                                         *)
(* The applications, N.AES and the 200 Hz counter run on while apply does: *)
(* they are the environment's actions.                                     *)
(***************************************************************************)
EXTENDS Integers

CONSTANTS
    Slots,        \* application ids of the AES, positive numbers
    Limit,        \* the 10 seconds, in steps of the counter
    Wrap,         \* the counter's values: 0 .. Wrap - 1 (2^32 in the code)
    MaxTime       \* bound on time: it stops there, at Limit or later

ASSUME ApplyAssumption ==
    /\ Slots \subseteq Nat \ {0}
    /\ Limit \in Nat \ {0}
    /\ MaxTime \in Nat
    /\ Limit <= MaxTime
    /\ Wrap \in Nat
    /\ MaxTime < Wrap \div 2

(* the values of sys_aes that apply tells apart; "mint" stands for the AES of
   MiNT itself, XaAES and MyAES *)
AESes == {"tos", "emutos", "geneva", "magic", "mint", "naes"}

VARIABLES
    pc,
    sys_aes, fvdi,    \* the system setup() found
    retries, startms, apid,
    ret,              \* apply's result, 0 while it runs
    time,             \* real time since apply began, bounded by MaxTime
    boot,             \* the counter's value when apply began
    blocking,         \* applications that keep N.AES from switching
    last_veto,        \* the one its latest answer named, 0 if none
    machine           \* "up", "switched", "shutting", "down", "reset", or
                      \* "refused": up, but shutdown has been asked for

env == <<time, boot, blocking>>
system == <<sys_aes, fvdi>>
vars == <<pc, system, retries, startms, apid, ret, env, last_veto, machine>>

(***************************************************************************)
(* The counter, and the elapsed time as a signed difference of two reads   *)
(***************************************************************************)
getms == (boot + time) % Wrap

Signed(n) == IF n >= Wrap \div 2 THEN n - Wrap ELSE n

InTimeAbsolute == getms < (startms + Limit) % Wrap      \* mutant
InTimeForever == TRUE                                   \* mutant

InTime == Signed((getms - startms) % Wrap) < Limit

(***************************************************************************)
(* apply                                                                   *)
(***************************************************************************)
Init ==
    /\ pc = "start"
    /\ sys_aes \in AESes
    /\ fvdi \in BOOLEAN
    /\ retries = 0
    /\ startms = 0
    /\ apid = 0
    /\ ret = 0
    /\ time = 0
    /\ boot \in 0 .. Wrap - 1
    /\ blocking \in SUBSET Slots
    /\ last_veto = 0
    /\ machine = "up"

Return(r) == pc' = "done" /\ ret' = r

PlainTosAnyBit == sys_aes \in {"tos", "emutos", "magic"}         \* mutant

(* sys_aes & F_SYSTEM_TOS: F_SYSTEM_EMUTOS includes that bit *)
PlainTos == sys_aes \in {"tos", "emutos"}

(* fVDI is loaded at boot: on a system that is not plain TOS, shutdown is asked
   to end the processes first.  It may not do so, its result is not looked at. *)
Fvdi ==
    /\ pc = "start" /\ fvdi
    /\ machine' \in IF PlainTos THEN {machine} ELSE {"down", "refused"}
    /\ pc' = "reboot"
    /\ UNCHANGED <<system, retries, startms, apid, ret, env, last_veto>>

Geneva ==
    /\ pc = "start" /\ ~fvdi /\ sys_aes = "geneva"
    /\ Return(-1)
    /\ UNCHANGED <<system, retries, startms, apid, env, last_veto, machine>>

(* SHUTDOWN.PRG may fail to start; the result is not looked at *)
Magic ==
    /\ pc = "start" /\ ~fvdi /\ sys_aes = "magic"
    /\ machine' \in {"up", "shutting"}
    /\ Return(1)
    /\ UNCHANGED <<system, retries, startms, apid, env, last_veto>>

NoMint ==
    /\ pc = "start" /\ ~fvdi /\ sys_aes \in {"tos", "emutos"}
    /\ pc' = "reboot"
    /\ UNCHANGED <<system, retries, startms, apid, ret, env, last_veto,
                   machine>>

Mint ==
    /\ pc = "start" /\ ~fvdi /\ sys_aes \in {"mint", "naes"}
    /\ startms' = getms
    /\ retries' = 1
    /\ pc' = "ask"
    /\ UNCHANGED <<system, apid, ret, env, last_veto, machine>>

FreshApidKept == apid                                   \* mutant
FreshApidNone == -1                                     \* mutant

(* apid as the round begins *)
FreshApid == 0

(* shel_write(SHW_RESCHNG): the AES switches, or refuses.  Only N.AES gets a
   place to put the id of the application in the way. *)
Ask ==
    /\ pc = "ask" /\ retries > 0
    /\ \/ /\ blocking = {} \/ sys_aes # "naes"
          /\ machine' = "switched"
          /\ Return(1)
          /\ last_veto' = 0
          /\ apid' = FreshApid
       \/ /\ sys_aes = "naes"
          /\ \E s \in blocking : last_veto' = s /\ apid' = s
          /\ pc' = "check"
          /\ UNCHANGED <<machine, ret>>
       \/ /\ last_veto' = 0
          /\ apid' = FreshApid
          /\ pc' = "check"
          /\ UNCHANGED <<machine, ret>>
    /\ UNCHANGED <<system, retries, startms, env>>

(* after a refusal: is there time left, and someone to kill? *)
Check ==
    /\ pc = "check"
    /\ \/ InTime /\ apid > 0 /\ pc' = "kill" /\ UNCHANGED retries
       \/ ~(InTime /\ apid > 0) /\ pc' = "ask" /\ retries' = retries - 1
    /\ UNCHANGED <<system, startms, apid, ret, env, last_veto, machine>>

(* get_pid and kill_pid: retries is decremented and incremented again.  The
   application may be gone already. *)
Kill ==
    /\ pc = "kill"
    /\ blocking' = blocking \ {apid}
    /\ pc' = "ask"
    /\ UNCHANGED <<system, retries, startms, apid, ret, time, boot, last_veto,
                   machine>>

GiveUp ==
    /\ pc = "ask" /\ retries = 0
    /\ pc' = "reboot"
    /\ UNCHANGED <<system, retries, startms, apid, ret, env, last_veto,
                   machine>>

warm_reboot ==
    /\ pc = "reboot"
    /\ machine' = "reset"
    /\ Return(1)
    /\ UNCHANGED <<system, retries, startms, apid, env, last_veto>>

(***************************************************************************)
(* The environment                                                         *)
(***************************************************************************)
Tick ==
    /\ pc \notin {"start", "done"}
    /\ time < MaxTime
    /\ time' = time + 1
    /\ UNCHANGED <<pc, system, retries, startms, apid, ret, boot, blocking,
                   last_veto, machine>>

(* applications come and go, and change their minds *)
Applications ==
    /\ pc # "done"
    /\ blocking' \in SUBSET Slots
    /\ UNCHANGED <<pc, system, retries, startms, apid, ret, time, boot,
                   last_veto, machine>>

Program == \/ Fvdi \/ Geneva \/ Magic \/ NoMint \/ Mint
           \/ Ask \/ Check \/ Kill \/ GiveUp \/ warm_reboot

Next == Program \/ Tick \/ Applications

Spec == Init /\ [][Next]_vars

(* the processor runs the program and the timer interrupt counts on *)
FairSpec == Spec /\ WF_vars(Program) /\ WF_vars(Tick)

--------------------------------------------------------------------------------
(* The types of the variables. *)
TypeOK ==
    /\ pc \in {"start", "ask", "check", "kill", "reboot", "done"}
    /\ sys_aes \in AESes
    /\ fvdi \in BOOLEAN
    /\ retries \in {0, 1}
    /\ startms \in 0 .. Wrap - 1
    /\ apid \in Slots \union {0}
    /\ ret \in {-1, 0, 1}
    /\ time \in 0 .. MaxTime
    /\ boot \in 0 .. Wrap - 1
    /\ blocking \subseteq Slots
    /\ last_veto \in Slots \union {0}
    /\ machine \in {"up", "switched", "shutting", "down", "refused", "reset"}

(* apply kills with signal 9, so it must aim only at an application that N.AES
   named in the answer to the very request it has just made: never at one it
   named in an earlier round, and never under another AES. *)
KillsOnlyVetoing ==
    pc = "kill" =>
        /\ sys_aes = "naes" /\ ~fvdi
        /\ last_veto # 0 /\ apid = last_veto

(* While N.AES names applications in the way, apply does not reset the machine
   before the ten seconds are over, whatever value the counter started from. *)
PatientUntilLimit ==
    pc \in {"reboot", "done"} /\ machine \in {"up", "reset"} /\ last_veto # 0 =>
        time >= Limit

(* No machine is reset after its AES accepted to switch, and a system with
   processes to end (fVDI on other than TOS) has been asked to shut down before
   the reset: whether it did so is not looked at. *)
NoResetAfterSwitch ==
    [][/\ machine = "switched" => machine' = "switched"
       /\ machine' = "reset" /\ fvdi /\ sys_aes \notin {"tos", "emutos"} =>
            machine \in {"down", "refused", "reset"}]_vars

(* apply returns or resets the machine, whatever the applications do. *)
Terminates == <>(pc = "done")
================================================================================
