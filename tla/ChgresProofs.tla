------------------------------ MODULE ChgresProofs -----------------------------
(***************************************************************************)
(* What main's order of save and apply guarantees, for every system, file, *)
(* mode and fault.                                                         *)
(***************************************************************************)
EXTENDS Chgres, SaveProofs

(* save runs once, has a result, and one other than 1 only with the file
   untouched (IInv); it never succeeds under Geneva. *)
SaveInv ==
    /\ IInv
    /\ ret \in {-1, 0, 1}
    /\ runs = 1
    /\ aes = "geneva" /\ ~fvdi =>
          /\ pc \in {"load", "done"}
          /\ pc = "done" => ret = -1

(* what apply has done by the time it returns *)
Settled ==
    apply_pc = "done" =>
        \/ applied = -1
        \/ machine \in {"switched", "reset"}
        \/ aes = "magic" /\ ~fvdi

(* apply is started after a save that did not fail, and gives up only under
   Geneva; without the message the program ends before save or after apply. *)
ApplyInv ==
    /\ phase \in {"dialog", "save", "apply", "end"}
    /\ phase \in {"dialog", "save"} =>
          machine = "up" /\ applied = 0 /\ ~told
    /\ phase = "apply" => pc = "done" /\ ret >= 0 /\ ~told
    /\ applied \in {-1, 0, 1}
    /\ applied = -1 => aes = "geneva" /\ ~fvdi
    /\ Settled
    /\ phase = "dialog" => pc = "load"
    /\ phase = "end" /\ pc = "done" /\ ~told =>
          apply_pc = "done" /\ applied # -1
    /\ phase = "end" /\ machine # "up" => pc = "done" /\ ret >= 0

MainInv == SaveInv /\ ApplyInv /\ (told => phase = "end") /\ ErrorMeansNothingDone

LEMMA InitMainInv == MainInit => MainInv
BY DEF MainInit, MainInv, SaveInv, ApplyInv, Settled, ErrorMeansNothingDone,
       Init, Apply!Init, IInv

LEMMA OnlyOnce == ASSUME runs = 1 PROVE ~Again
BY OneRun DEF Again

(* A step of save keeps what is known of it. *)
LEMMA SaveStep ==
    ASSUME SaveInv, Next, UNCHANGED fvdi, UNCHANGED aes
    PROVE  SaveInv'
<1>1. IInv'
  BY Inductive DEF SaveInv
<1>2. pc \in {"load", "open", "write", "done"} /\ runs = 1 /\ ret \in {-1, 0, 1}
  BY DEF SaveInv, IInv
<1>3. CASE Load
  <2>1. Failure \in {-1, 0} /\ (aes = "geneva" /\ ~fvdi => Failure = -1)
    BY DEF Failure, Target
  <2>2. \/ pc' = "open" /\ ret' = ret /\ \E b : Plans(b) # {}
        \/ pc' = "done" /\ ret' = Failure
    BY <1>3 DEF Load, Return
  <2>3. aes = "geneva" /\ ~fvdi => \A b : Plans(b) = {}
    BY DEF Plans, Target
  <2>4. runs' = runs
    BY <1>3 DEF Load
  <2> QED
    BY <1>1, <1>2, <2>1, <2>2, <2>3, <2>4 DEF SaveInv
<1>4. CASE Open
  <2>1. pc = "open" /\ runs' = runs
    BY <1>4 DEF Open
  <2>2. Failure \in {-1, 0}
    BY DEF Failure
  <2>3. \/ pc' = "write" /\ ret' = ret
        \/ pc' = "done" /\ ret' \in {-1, 0, 1}
    BY <1>4, <2>2 DEF Open, Return
  <2> QED
    BY <1>1, <1>2, <2>1, <2>3 DEF SaveInv
<1>5. CASE Write
  BY <1>1, <1>5 DEF Write, SaveInv
<1>6. CASE Close
  BY <1>1, <1>6 DEF Close, Return, SaveInv
<1> QED
  BY <1>2, <1>3, <1>4, <1>5, <1>6, OnlyOnce DEF Next

(* apply's result is -1 only under Geneva. *)
LEMMA ApplyStep ==
    ASSUME applied \in {-1, 0, 1},
           applied = -1 => aes = "geneva" /\ ~fvdi,
           Apply!Next, UNCHANGED fvdi, UNCHANGED aes
    PROVE  /\ applied' \in {-1, 0, 1}
           /\ applied' = -1 => aes = "geneva" /\ ~fvdi
<1>1. CASE Apply!Geneva
  BY <1>1 DEF Apply!Geneva, Apply!Return, sys_aes
<1>2. CASE Apply!Magic \/ Apply!Ask \/ Apply!warm_reboot
  BY <1>2 DEF Apply!Magic, Apply!Ask, Apply!warm_reboot, Apply!Return
<1>3. CASE Apply!Fvdi \/ Apply!NoMint \/ Apply!Mint \/ Apply!Check
           \/ Apply!Kill \/ Apply!GiveUp
  BY <1>3 DEF Apply!Fvdi, Apply!NoMint, Apply!Mint, Apply!Check, Apply!Kill,
              Apply!GiveUp
<1>4. CASE Apply!Tick \/ Apply!Applications
  BY <1>4 DEF Apply!Tick, Apply!Applications
<1> QED
  BY <1>1, <1>2, <1>3, <1>4 DEF Apply!Next, Apply!Program

(* apply returns with another result only after it has done something to the
   machine, or has asked MagiC to. *)
LEMMA ApplySettles ==
    ASSUME Settled, Apply!Next, UNCHANGED fvdi, UNCHANGED aes
    PROVE  Settled'
<1> USE DEF Settled
<1>1. CASE Apply!Geneva
  BY <1>1 DEF Apply!Geneva, Apply!Return
<1>2. CASE Apply!Magic
  BY <1>2 DEF Apply!Magic, Apply!Return, sys_aes
<1>3. CASE Apply!Ask \/ Apply!warm_reboot
  BY <1>3 DEF Apply!Ask, Apply!warm_reboot, Apply!Return
<1>4. CASE Apply!Fvdi \/ Apply!NoMint \/ Apply!Mint \/ Apply!Check
           \/ Apply!Kill \/ Apply!GiveUp
  BY <1>4 DEF Apply!Fvdi, Apply!NoMint, Apply!Mint, Apply!Check, Apply!Kill,
              Apply!GiveUp
<1>5. CASE Apply!Tick
  BY <1>5 DEF Apply!Tick
<1>6. CASE Apply!Applications
  BY <1>6 DEF Apply!Applications
<1> QED
  BY <1>1, <1>2, <1>3, <1>4, <1>5, <1>6 DEF Apply!Next, Apply!Program

(* A step of save touches neither the system nor the mode. *)
LEMMA SaveKeepsSystem ==
    ASSUME runs = 1, Next
    PROVE  UNCHANGED <<aes, fvdi, cur_res>>
<1>1. ~Again
  BY OnlyOnce
<1> QED
  BY <1>1 DEF Next, Load, Open, Write, Close

LEMMA MainInductive == MainInv /\ [MainNext]_main_vars => MainInv'
<1> SUFFICES ASSUME MainInv, [MainNext]_main_vars PROVE MainInv'
  OBVIOUS
<1> USE DEF MainInv, ApplyInv, Settled, ErrorMeansNothingDone, vars, apply_vars
<1>1. CASE Dialog
  BY <1>1 DEF Dialog, SaveInv, IInv
<1>2. CASE Saving
  <2>1. UNCHANGED <<aes, fvdi, cur_res>>
    BY <1>2, SaveKeepsSystem DEF Saving, SaveInv
  <2>2. SaveInv'
    BY <1>2, <2>1, SaveStep DEF Saving
  <2>3. ~told' /\ phase' = "save" /\ UNCHANGED <<machine, applied, apply_pc>>
    BY <1>2 DEF Saving
  <2> QED
    BY <1>2, <2>1, <2>2, <2>3 DEF Saving
<1>3. CASE Saved
  <2>1. SaveInv'
    BY <1>3 DEF Saved, SaveInv, IInv
  <2>2. /\ phase = "save" /\ pc = "done" /\ pc' = "done"
        /\ phase' = IF ret < 0 THEN "end" ELSE "apply"
        /\ told' = (ret < 0)
        /\ UNCHANGED <<ret, machine, applied, apply_pc, disk, old, aes, fvdi>>
    BY <1>3 DEF Saved, SaveFailed
  <2>3. CASE ret < 0
    <3>1. phase' = "end" /\ told'
      BY <2>2, <2>3, Zenon
    <3>2. ErrorMeansNothingDone'
      BY <2>2, <2>3 DEF SaveInv, IInv
    <3>3. ApplyInv'
      <4>1. Settled'
        BY <1>3 DEF Saved
      <4> QED
        BY <2>2, <3>1, <4>1
    <3> QED
      BY <2>1, <3>1, <3>2, <3>3
  <2>4. CASE ret \in {0, 1}
    <3>1. ~(ret < 0) /\ ret >= 0
      BY <2>4
    <3>2. phase' = "apply" /\ ~told' /\ ret' = ret
      BY <2>2, <3>1, Zenon
    <3> QED
      BY <2>1, <2>2, <3>1, <3>2
  <2> QED
    BY <2>3, <2>4 DEF SaveInv
<1>4. CASE Applying
  <2>1. SaveInv'
    BY <1>4 DEF Applying, SaveInv, IInv
  <2>2. applied' \in {-1, 0, 1} /\ (applied' = -1 => aes = "geneva" /\ ~fvdi)
    BY <1>4, ApplyStep DEF Applying
  <2>3. /\ phase = "apply" /\ phase' = "apply" /\ ~told'
        /\ UNCHANGED <<aes, fvdi, pc, ret>>
    BY <1>4 DEF Applying
  <2>4. Settled'
    BY <1>4, ApplySettles DEF Applying
  <2>5. ApplyInv'
    BY <2>2, <2>3, <2>4
  <2> QED
    BY <2>1, <2>3, <2>5
<1>5. CASE Applied
  <2>1. SaveInv'
    BY <1>5 DEF Applied, SaveInv, IInv
  <2>2. applied \in {0, 1}
    BY <1>5 DEF Applied, SaveInv, IInv
  <2>3. ~(applied < 0)
    BY <2>2
  <2>4. /\ phase' = "end" /\ ~told'
        /\ apply_pc = "done" /\ pc = "done"
        /\ UNCHANGED <<aes, fvdi, pc, ret, apply_pc, applied, machine>>
    <3>1. told' = (applied < 0)
      BY <1>5 DEF Applied
    <3>2. ~told'
      BY <2>3, <3>1, Zenon
    <3> QED
      BY <1>5, <3>2 DEF Applied
  <2>5. ApplyInv'
    BY <2>2, <2>4
  <2> QED
    BY <2>1, <2>4, <2>5
<1>6. CASE UNCHANGED main_vars
  BY <1>6 DEF main_vars, vars, SaveInv, IInv
<1> QED
  BY <1>1, <1>2, <1>3, <1>4, <1>5, <1>6 DEF MainNext

(* When the user is told that the resolution was not changed, neither the file
   nor the machine was touched. *)
THEOREM ErrorIsTrue == MainSpec => []ErrorMeansNothingDone
<1>1. MainInv => ErrorMeansNothingDone
  BY DEF MainInv
<1> QED
  BY <1>1, InitMainInv, MainInductive, PTL DEF MainSpec

(* Without the message a confirmed mode has been switched to, or the machine was
   reset: there is no path through save and apply that does nothing and says
   nothing, MagiC's left out. *)
THEOREM SilenceIsTrue == MainSpec => []SilentMeansDone
<1>1. MainInv => SilentMeansDone
  BY DEF MainInv, ApplyInv, Settled, SilentMeansDone, Confirmed, Target
<1> QED
  BY <1>1, InitMainInv, MainInductive, PTL DEF MainSpec

--------------------------------------------------------------------------------
(***************************************************************************)
(* What is in the file when something is done to the machine: Inv is what  *)
(* SaveProofs knows of a save, and nothing but save touches its variables. *)
(***************************************************************************)
LEMMA InvStep ==
    ~Text(NoFile) /\ Inv /\ [MainNext]_main_vars => Inv'
<1>1. [MainNext]_main_vars => [Next]_vars
  BY DEF MainNext, main_vars, Dialog, Saving, Saved, Applying, Applied
<1> QED
  BY <1>1, ContentStep

(* Nothing happens to the machine before a save that did not fail is over. *)
LEMMA MachineAfterSave ==
    ASSUME MainInv, machine # "up"
    PROVE  pc = "done" /\ ret >= 0
BY DEF MainInv, ApplyInv

(* Unless a full disk cut a write short, a machine that is shut down or restarts
   finds the file whole: with the confirmed mode in it, or as it was before the
   program was started. *)
THEOREM FileIsWhole ==
    ASSUME ~Text(NoFile)
    PROVE  MainSpec => []ResetFindsWhole
<1>1. MainInv /\ Inv => ResetFindsWhole
  <2> SUFFICES ASSUME MainInv, Inv, machine \in {"reset", "shutting", "down", "refused"}
               PROVE  /\ pc = "done"
                      /\ WellFormed(old) /\ ~cut => Holds(disk) \/ disk = old
    BY DEF ResetFindsWhole
  <2>1. pc = "done"
    BY MachineAfterSave
  <2>2. WellFormed(old) /\ ~cut => Right(disk) \/ disk = old
    BY <2>1 DEF Inv, ContentInv
  <2> QED
    BY <2>1, <2>2 DEF Right, Good
<1>2. MainInit => Inv
  BY InitInv DEF MainInit
<1> QED
  BY <1>1, <1>2, InvStep, InitMainInv, MainInductive, PTL DEF MainSpec

(* Under fVDI and XaAES nothing is done to the machine before the mode is in
   the file they take it from, whatever goes wrong with the file except that a
   full disk cuts a write short: that is not noticed. *)
THEOREM FileComesFirst ==
    ASSUME ~Text(NoFile)
    PROVE  MainSpec => []SavedBeforeApplied
<1>1. MainInv /\ Inv => SavedBeforeApplied
  <2> SUFFICES ASSUME MainInv, Inv, machine # "up", Target \in {"fvdi", "xaaes"},
                      WellFormed(old), ~cut
               PROVE  Holds(disk)
    BY DEF SavedBeforeApplied
  <2>1. pc = "done" /\ ret >= 0
    BY MachineAfterSave
  <2>2. Failure = -1 /\ ~Desk
    BY DEF Failure, Desk, DeskTargets
  <2>3. ret # Failure
    BY <2>1, <2>2
  <2>4. Right(disk)
    BY <2>1, <2>2, <2>3 DEF Inv, ContentInv
  <2> QED
    BY <2>4 DEF Right, Good
<1>2. MainInit => Inv
  BY InitInv DEF MainInit
<1> QED
  BY <1>1, <1>2, InvStep, InitMainInv, MainInductive, PTL DEF MainSpec
================================================================================
