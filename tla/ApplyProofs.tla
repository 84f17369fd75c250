------------------------------ MODULE ApplyProofs ------------------------------
(***************************************************************************)
(* Proofs about ApplyRes, for any number of applications, any limit and    *)
(* any width of the counter that the assumption allows.                    *)
(***************************************************************************)
EXTENDS ApplyRes, TLAPS

(***************************************************************************)
(* The counter wraps, the difference of two reads does not                 *)
(***************************************************************************)

(* A read of the counter at most one turn later, less the first read, is the
   time between them, whether the counter wrapped or not. *)
LEMMA ElapsedMod ==
    ASSUME NEW W \in Nat \ {0}, NEW b \in 0 .. W - 1, NEW t \in 0 .. W - 1
    PROVE  (((b + t) % W) - b) % W = t
<1>1. ASSUME NEW x \in 0 .. W - 1 PROVE x % W = x
  OBVIOUS
<1>2. ASSUME NEW x \in W .. 2 * W - 1 PROVE x % W = x - W
  OBVIOUS
<1>3. ASSUME NEW x \in -W .. -1 PROVE x % W = x + W
  OBVIOUS
<1>4. CASE b + t < W
  BY <1>1, <1>4
<1>5. CASE b + t >= W
  <2>1. (b + t) % W = b + t - W
    BY <1>2, <1>5
  <2> QED
    BY <2>1, <1>3
<1> QED
  BY <1>4, <1>5

(***************************************************************************)
(* The inductive invariant                                                 *)
(***************************************************************************)

(* Nothing has happened before the first branch. *)
Starting ==
    pc = "start" =>
        /\ retries = 0 /\ apid = 0 /\ last_veto = 0 /\ time = 0
        /\ machine = "up" /\ ret = 0

(* The loop is entered under an AES on MiNT without fVDI; the machine is up and
   has not been asked to reset, and apid is what the latest answer set. *)
Looping ==
    /\ pc \in {"ask", "check", "kill"} =>
        /\ sys_aes \in {"mint", "naes"} /\ ~fvdi
        /\ startms = boot
        /\ machine = "up"
    /\ pc \in {"check", "kill"} => apid = last_veto /\ retries = 1
    /\ pc = "kill" => apid # 0
    /\ last_veto # 0 => sys_aes = "naes" /\ ~fvdi

(* apply has given up, or is about to. *)
Leaving == pc \in {"reboot", "done"} \/ (pc = "ask" /\ retries = 0)

(* Before the reset the machine is still up, or has been asked to shut down where
   there is something to shut down; an AES that has accepted is left alone. *)
Ending ==
    /\ pc = "reboot" =>
        /\ machine \in {"up", "down", "refused"}
        /\ fvdi /\ sys_aes \notin {"tos", "emutos"} =>
                machine \in {"down", "refused"}
    /\ machine = "switched" => pc = "done"

IInv ==
    /\ TypeOK
    /\ Starting
    /\ Looping
    /\ Leaving => last_veto = 0 \/ time >= Limit
    /\ Ending

LEMMA InitIInv == Init => IInv
BY ApplyAssumption
   DEF Init, IInv, TypeOK, AESes, Starting, Looping, Leaving, Ending

(* As long as the loop runs, less than Limit by the counter is less than Limit. *)
LEMMA InTimeIsTime ==
    ASSUME TypeOK, startms = boot
    PROVE  InTime <=> time < Limit
<1>1. /\ Wrap \in Nat \ {0} /\ boot \in 0 .. Wrap - 1 /\ time \in 0 .. Wrap - 1
      /\ time < Wrap \div 2 /\ Limit \in Nat
  BY ApplyAssumption DEF TypeOK
<1>2. (getms - startms) % Wrap = time
  BY <1>1, ElapsedMod DEF getms
<1>3. Signed(time) = time
  BY <1>1 DEF Signed
<1> QED
  BY <1>2, <1>3 DEF InTime

LEMMA Inductive == IInv /\ [Next]_vars => IInv'
<1> SUFFICES ASSUME IInv, [Next]_vars PROVE IInv'
  OBVIOUS
<1> USE ApplyAssumption
<1> USE DEF IInv, TypeOK, AESes, Starting, Looping, Leaving, Ending, system, env
<1>1. CASE Fvdi
  BY <1>1 DEF Fvdi, PlainTos
<1>2. CASE Geneva
  BY <1>2 DEF Geneva, Return
<1>3. CASE Magic
  BY <1>3 DEF Magic, Return
<1>4. CASE NoMint
  BY <1>4 DEF NoMint
<1>5. CASE Mint
  <2>1. startms' = boot
    BY <1>5 DEF Mint, getms
  <2> QED
    BY <1>5, <2>1 DEF Mint
<1>6. CASE Ask
  BY <1>6 DEF Ask, Return, FreshApid
<1>7. CASE Check
  <2>1. pc = "check" /\ (InTime <=> time < Limit)
    BY <1>7, InTimeIsTime DEF Check
  <2> QED
    BY <1>7, <2>1 DEF Check
<1>8. CASE Kill
  BY <1>8 DEF Kill
<1>9. CASE GiveUp
  BY <1>9 DEF GiveUp
<1>10. CASE warm_reboot
  BY <1>10 DEF warm_reboot, Return
<1>11. CASE Tick
  BY <1>11 DEF Tick
<1>12. CASE Applications
  BY <1>12 DEF Applications
<1>13. CASE UNCHANGED vars
  BY <1>13 DEF vars
<1> QED
  BY <1>1, <1>2, <1>3, <1>4, <1>5, <1>6, <1>7, <1>8, <1>9, <1>10, <1>11,
     <1>12, <1>13 DEF Next, Program

LEMMA Invariant == Spec => []IInv
<1> QED
  BY InitIInv, Inductive, PTL DEF Spec

(***************************************************************************)
(* The theorems                                                            *)
(***************************************************************************)

(* Every variable of apply keeps its type: retries never exceeds 1 and time
   stays within its bound. *)
THEOREM TypeCorrect == Spec => []TypeOK
<1>1. IInv => TypeOK
  BY DEF IInv
<1> QED
  BY <1>1, Invariant, PTL

(* kill_pid is only ever aimed at the application that N.AES named last. *)
THEOREM KillCorrect == Spec => []KillsOnlyVetoing
<1>1. IInv => KillsOnlyVetoing
  BY DEF IInv, Looping, KillsOnlyVetoing
<1> QED
  BY <1>1, Invariant, PTL

(* As long as N.AES names applications, apply waits for the ten seconds to pass,
   for every value of the counter at the start. *)
THEOREM PatienceCorrect == Spec => []PatientUntilLimit
<1>1. IInv => PatientUntilLimit
  BY DEF IInv, Leaving, PatientUntilLimit
<1> QED
  BY <1>1, Invariant, PTL

(* There is no reset after a switch, and none before the shutdown it
   needs has been asked for. *)
THEOREM ResetCorrect == Spec => NoResetAfterSwitch
<1> DEFINE A == /\ machine = "switched" => machine' = "switched"
                /\ machine' = "reset" /\ fvdi /\ sys_aes \notin {"tos", "emutos"} =>
                        machine \in {"down", "refused", "reset"}
<1>1. IInv /\ [Next]_vars => [A]_vars
  <2> SUFFICES ASSUME IInv, Next PROVE A
    OBVIOUS
  <2> USE DEF IInv, TypeOK, Looping, Ending, Starting, system, env
  <2>1. CASE Fvdi \/ Geneva \/ Magic \/ NoMint \/ Mint
    BY <2>1 DEF Fvdi, Geneva, Magic, NoMint, Mint
  <2>2. CASE Ask \/ Check \/ Kill \/ GiveUp
    BY <2>2 DEF Ask, Check, Kill, GiveUp
  <2>3. CASE warm_reboot
    BY <2>3 DEF warm_reboot
  <2>4. CASE Tick \/ Applications
    BY <2>4 DEF Tick, Applications
  <2> QED
    BY <2>1, <2>2, <2>3, <2>4 DEF Next, Program
<1> QED
  BY <1>1, Invariant, PTL DEF Spec, NoResetAfterSwitch
================================================================================
