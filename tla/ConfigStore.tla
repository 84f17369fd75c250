------------------------------ MODULE ConfigStore ------------------------------
(***************************************************************************)
(* What the user may expect of saving: a configuration that holds a mode   *)
(* and other things.  A save that succeeds replaces the mode, in one step, *)
(* and touches nothing else, but for litter where the mode takes less room *)
(* than the one before it; one that fails touches nothing.  A careless     *)
(* system may in addition report a save that it did not make, and start    *)
(* the configuration over.  SaveStore shows that SaveConfig does this file *)
(* by file.                                                                *)
(***************************************************************************)
CONSTANTS
    Modes,        \* the modes the user may want
    Kind(_)       \* the kind of hardware that a mode belongs to

VARIABLES
    wanted,       \* the mode the user has asked for
    stored,       \* the modes that a reader of the configuration finds
    others,       \* everything else it holds, a set
    status,       \* "busy", "saved" or "failed"
    shrinks,      \* the mode wanted takes less room than what is stored
    careless,     \* the system is a careless one
    fresh         \* everything else that a new configuration holds

system == <<careless, fresh>>
vars == <<wanted, stored, others, status, shrinks, system>>

Init ==
    /\ wanted \in Modes
    /\ stored \subseteq Modes
    /\ status = "busy"
    /\ shrinks \in BOOLEAN
    /\ careless \in BOOLEAN

(* a machine only looks for modes of its own kind *)
ReadsOnly(m) == {n \in stored : Kind(n) = Kind(m)} = {m}

Finish(result) ==
    /\ status = "busy"
    /\ status' = result
    /\ UNCHANGED <<wanted, system>>

StoreWanted ==
    /\ stored' \in SUBSET Modes
    /\ ReadsOnly(wanted)'
    /\ shrinks' = FALSE

Save == ~shrinks /\ Finish("saved") /\ StoreWanted /\ UNCHANGED others

(* the end of what was longer stays, and looks like something else *)
Litter == shrinks /\ Finish("saved") /\ StoreWanted /\ others \subseteq others'

Fail == Finish("failed") /\ UNCHANGED <<stored, others, shrinks>>

(* nothing was done, but the result says that it was *)
Pretend == careless /\ Finish("saved") /\ UNCHANGED <<stored, others, shrinks>>

(* the rest of the configuration is lost *)
StartOver == careless /\ Finish("saved") /\ StoreWanted /\ others' = fresh

Want ==
    /\ status # "busy"
    /\ status' = "busy"
    /\ wanted' \in Modes
    /\ shrinks' \in BOOLEAN
    /\ UNCHANGED <<stored, others, system>>

Next == Save \/ Litter \/ Fail \/ Pretend \/ StartOver \/ Want

Spec == Init /\ [][Next]_vars
================================================================================
