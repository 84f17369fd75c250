--------------------------------- MODULE Setup ---------------------------------
(***************************************************************************)
(* setup: which system the program runs on, told from the cookie jar, the  *)
(* header of the operating system and the processes of MiNT, although      *)
(* systems pretend to be others.  Boots, which is not the program's, says  *)
(* what a system leaves there.                                             *)
(***************************************************************************)
EXTENDS Integers, Sequences, SequencesExt

CONSTANTS
    AesVersions,      \* the versions that an AES may report
    Hardware,         \* [vampire, cookies]: the hardware and what it is told by
    Others            \* [begins, id]: processes that are no AES

MiNTs == {"mint_aes", "naes", "xaaes", "myaes"}
Systems == {"tos", "emutos", "geneva", "magic"} \union MiNTs
AesProcesses == {"myaes", "XaSYS"}

SystemCookies == {"Gnva", "MiNT", "MagX", "nAES", "NVDI", "fVDI"}

(* the value of the first of the cookies with that id, 0 without one *)
Value(cookies, id) ==
    LET S == {i \in DOMAIN cookies : cookies[i].id = id}
    IN  IF S = {} THEN 0 ELSE cookies[CHOOSE i \in S : \A j \in S : i <= j].value

(* _VDO and _MCH have their number in the upper word, _CPU in the lower one *)
Video(cookies) == Value(cookies, "_VDO") \div 65536
Processor(cookies) == (Value(cookies, "_CPU") % 65536) \div 10
Board(cookies) == Value(cookies, "_MCH") \div 65536

(* The hardware's cookies are not the systems'.  A Vampire, and no other machine,
   has a 68080 or says that it is one; only there is there SAGA's video. *)
ASSUME SetupAssumption ==
    /\ AesVersions \subseteq Nat
    /\ \A p \in Others : p.begins \notin AesProcesses /\ p.id \in Nat
    /\ \A hw \in Hardware :
          /\ hw.cookies \in Seq([id : STRING, value : Nat])
          /\ \A i \in DOMAIN hw.cookies : hw.cookies[i].id \notin SystemCookies
          /\ hw.vampire <=> Processor(hw.cookies) = 8 \/ Board(hw.cookies) = 6
          /\ Video(hw.cookies) = 6 => hw.vampire

VARIABLES
    pc,
    running,          \* what really runs: [aes, vdi, vampire]
    jar,              \* the cookies [id, value], up to the jar's end
    header,           \* [version, etos] of the operating system
    aes_global0,      \* the version that the AES reports
    processes,        \* [begins, id]: what is in u:/proc, in its order
    naes_hdr3,        \* a word of the header that the cookie nAES points to
    vdo, cpu, mch,
    tos_emutos,       \* EmuTOS's version, 0 on another system
    sys_aes, sys_vdi

machine == <<running, jar, header, aes_global0, processes, naes_hdr3>>
vars == <<pc, machine, vdo, cpu, mch, tos_emutos, sys_aes, sys_vdi>>

(* the systems' own cookies, and those they may set to pass for another *)
OwnCookies(aes) ==
    CASE aes = "geneva" -> {"Gnva"}
      [] aes = "magic"  -> {"MagX"}
      [] aes = "naes"   -> {"MiNT", "nAES"}
      [] aes \in {"mint_aes", "xaaes", "myaes"} -> {"MiNT"}
      [] OTHER          -> {}

FalseCookies(aes) ==
    CASE aes = "geneva"   -> {"MiNT"}
      [] aes = "naes"     -> {"MagX"}
      [] aes = "mint_aes" -> {"nAES"}
      [] aes \in {"xaaes", "myaes"} -> {"nAES", "MagX"}
      [] OTHER            -> {}

VdiCookies(vdi) ==
    CASE vdi = "nvdi" -> {{"NVDI"}}
      [] vdi = "fvdi" -> {{"fVDI"}, {"fVDI", "NVDI"}}
      [] OTHER        -> {{}}

OwnProcess(aes) ==
    CASE aes = "xaaes" -> <<[begins |-> "XaSYS", id |-> 7]>>
      [] aes = "myaes" -> <<[begins |-> "myaes", id |-> 7]>>
      [] OTHER         -> <<>>

(* bit 15 is clear in N.AES's own header; the AESes that are told by their
   process may copy that one *)
NaesHeaders(aes) ==
    CASE aes = "naes"     -> {0}
      [] aes = "mint_aes" -> {32768}
      [] OTHER            -> {0, 32768}

(* EmuTOS comes with a desktop of its own, or with an AES of version 4 and the
   desktop of TOS *)
Kernel(aes, h, version) ==
    CASE aes = "emutos" -> h.etos /\ version < 1024
      [] aes = "tos"    -> h.etos => version >= 1024
      [] OTHER          -> TRUE

Boots ==
    \E aes \in Systems, vdi \in {"atari", "nvdi", "fvdi"}, hw \in Hardware :
    \E false \in SUBSET FalseCookies(aes), drivers \in VdiCookies(vdi) :
        /\ running = [aes |-> aes, vdi |-> vdi, vampire |-> hw.vampire]
        /\ aes_global0 \in AesVersions
        /\ header \in [version : {518}, etos : BOOLEAN]
        /\ Kernel(aes, header, aes_global0)
        /\ LET names == SetToSeq(OwnCookies(aes) \union false \union drivers)
           IN  jar = hw.cookies
                        \o [i \in DOMAIN names |-> [id |-> names[i], value |-> 1]]
        /\ naes_hdr3 \in NaesHeaders(aes)
        /\ processes \in {OwnProcess(aes)}
              \union {<<p>> \o OwnProcess(aes) : p \in Others}

Init ==
    /\ pc = "cookies"
    /\ Boots
    /\ vdo = 0 /\ cpu = 0 /\ mch = 0
    /\ tos_emutos = 0
    /\ sys_aes = "none" /\ sys_vdi = "none"

(***************************************************************************)
(* The program                                                             *)
(***************************************************************************)
get_cookie(id) == Value(jar, id)

(* the id of the first process whose name begins like that, -1 without one *)
get_process_id(name) ==
    LET S == {i \in DOMAIN processes : processes[i].begins = name}
    IN  IF S = {} THEN -1
        ELSE processes[CHOOSE i \in S : \A j \in S : i <= j].id

ReadCookies ==
    /\ pc = "cookies"
    /\ vdo' = Video(jar)
    /\ cpu' = Processor(jar)
    /\ mch' = Board(jar)
    /\ pc' = "header"
    /\ UNCHANGED <<machine, tos_emutos, sys_aes, sys_vdi>>

ReadHeader ==
    /\ pc = "header"
    /\ tos_emutos' = IF header.etos THEN header.version ELSE 0
    /\ pc' = "aes"
    /\ UNCHANGED <<machine, vdo, cpu, mch, sys_aes, sys_vdi>>

MintAesByCookie ==                                               \* mutant
    IF get_cookie("nAES") # 0 THEN "naes"
    ELSE IF get_process_id("myaes") > 0 THEN "myaes"
    ELSE IF get_process_id("XaSYS") > 0 THEN "xaaes"
    ELSE "mint_aes"

MintAes ==
    IF get_process_id("myaes") > 0 THEN "myaes"
    ELSE IF get_process_id("XaSYS") > 0 THEN "xaaes"
    ELSE IF get_cookie("nAES") # 0 /\ naes_hdr3 \div 32768 = 0 THEN "naes"
    ELSE "mint_aes"

FindAES ==
    /\ pc = "aes"
    /\ sys_aes' =
          IF get_cookie("Gnva") # 0 THEN "geneva"
          ELSE IF get_cookie("MiNT") # 0 THEN MintAes
          ELSE IF get_cookie("MagX") # 0 THEN "magic"
          ELSE IF tos_emutos # 0 /\ aes_global0 < 1024 THEN "emutos"
          ELSE "tos"
    /\ pc' = "vdi"
    /\ UNCHANGED <<machine, vdo, cpu, mch, tos_emutos, sys_vdi>>

Vdi ==
    IF get_cookie("fVDI") # 0 THEN "fvdi"
    ELSE IF get_cookie("NVDI") # 0 THEN "nvdi" ELSE "atari"

FindVDI ==
    /\ pc = "vdi"
    /\ sys_vdi' = Vdi
    /\ pc' = "vdo"
    /\ UNCHANGED <<machine, vdo, cpu, mch, tos_emutos, sys_aes>>

IsVampire == cpu = 8 \/ mch = 6

FixVdo ==
    /\ pc = "vdo"
    /\ vdo' = IF IsVampire THEN 6 ELSE vdo
    /\ pc' = "done"
    /\ UNCHANGED <<machine, cpu, mch, tos_emutos, sys_aes, sys_vdi>>

Next == ReadCookies \/ ReadHeader \/ FindAES \/ FindVDI \/ FixVdo

Spec == Init /\ [][Next]_vars

--------------------------------------------------------------------------------
(* What save and apply work for is the system that runs, whatever cookies it
   sets.  "We cannot rely on cookies for AES because some of them have options
   to masquerade"; fVDI may set the cookie of NVDI; "make sure vampire gets saga
   modes", whatever video hardware its cookie tells of, and no other machine. *)
RecognisesSystem ==
    /\ pc \in {"vdi", "vdo", "done"} => sys_aes = running.aes
    /\ pc \in {"vdo", "done"} => sys_vdi = running.vdi
    /\ pc = "done" => (running.vampire <=> vdo = 6)
================================================================================
