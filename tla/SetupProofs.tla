------------------------------ MODULE SetupProofs -----------------------------
(***************************************************************************)
(* setup finds the system that runs, for every hardware, every AES version *)
(* and every other process, whatever the system sets to pass for another.  *)
(***************************************************************************)
EXTENDS Setup, FiniteSetTheorems, SequenceTheorems,
    WellFoundedInduction, TLAPS

Cookies == [id : STRING, value : Nat] \union [id : SystemCookies, value : {1}]
Processes == {[begins |-> b, id |-> 7] : b \in AesProcesses} \union Others

(* the cookies that a system sets, each once and with the value 1 *)
Set(names, rest) ==
    /\ rest \in Seq(Cookies)
    /\ \A i \in DOMAIN rest : rest[i].id \in names /\ rest[i].value = 1
    /\ \A n \in names : \E i \in DOMAIN rest : rest[i].id = n

NoCookie(c, id) == \A i \in DOMAIN c : c[i].id # id

FirstCookie(c, id, i) ==
    /\ c[i].id = id
    /\ \A j \in DOMAIN c : c[j].id = id => i <= j

--------------------------------------------------------------------------------
(***************************************************************************)
(* The cookie jar                                                          *)
(***************************************************************************)
(* A nonempty set of places has a first one. *)
LEMMA FirstPlace ==
    ASSUME NEW n \in Nat, NEW S, S \subseteq 1 .. n, S # {}
    PROVE  \E i \in S : \A j \in S : i <= j
<1>1. S \subseteq Nat
  OBVIOUS
<1>2. \E i \in S : \A j \in S : <<j, i>> \notin OpToRel(<, Nat)
  BY <1>1, NatLessThanWellFounded, WFMin
<1>3. PICK i \in S : \A j \in S : <<j, i>> \notin OpToRel(<, Nat)
  BY <1>2
<1>4. ASSUME NEW j \in S PROVE i <= j
  <2>1. ~(j < i)
    BY <1>1, <1>3 DEF OpToRel
  <2> QED
    BY <1>1, <2>1
<1> QED
  BY <1>4

(* The value is that of a cookie with the id, and of none before it. *)
LEMMA ValueIs ==
    ASSUME NEW c \in Seq(Cookies), NEW id
    PROVE  \/ NoCookie(c, id) /\ Value(c, id) = 0
           \/ \E i \in DOMAIN c : FirstCookie(c, id, i) /\ Value(c, id) = c[i].value
<1> DEFINE S == {i \in DOMAIN c : c[i].id = id}
<1>1. CASE S = {}
  BY <1>1 DEF Value, NoCookie
<1>2. CASE S # {}
  <2> DEFINE f == CHOOSE i \in S : \A j \in S : i <= j
  <2>1. Len(c) \in Nat /\ DOMAIN c = 1 .. Len(c) /\ S \subseteq 1 .. Len(c)
    OBVIOUS
  <2>2. \E i \in S : \A j \in S : i <= j
    <3> HIDE DEF S
    <3> QED
      BY <1>2, <2>1, FirstPlace
  <2>3. f \in S /\ \A j \in S : f <= j
    <3> HIDE DEF S
    <3> QED
      BY <2>2
  <2>4. Value(c, id) = c[f].value
    BY <1>2 DEF Value
  <2> HIDE DEF f
  <2> QED
    BY <2>3, <2>4 DEF FirstCookie
<1> QED
  BY <1>1, <1>2

(* What the hardware tells is not changed by what a system adds, and a system's
   cookie is there exactly when it was set. *)
LEMMA JarValues ==
    ASSUME NEW c \in Seq(Cookies), \A i \in DOMAIN c : c[i].id \notin SystemCookies,
           NEW names \in SUBSET SystemCookies, NEW rest, Set(names, rest)
    PROVE  /\ \A id : id \notin SystemCookies => Value(c \o rest, id) = Value(c, id)
           /\ \A id \in SystemCookies : Value(c \o rest, id) # 0 <=> id \in names
<1> DEFINE j == c \o rest
<1>1. /\ rest \in Seq(Cookies) /\ j \in Seq(Cookies)
      /\ Len(c) \in Nat /\ Len(rest) \in Nat /\ Len(j) = Len(c) + Len(rest)
      /\ DOMAIN c = 1 .. Len(c) /\ DOMAIN rest = 1 .. Len(rest)
      /\ DOMAIN j = 1 .. Len(j)
      /\ \A i \in 1 .. Len(c) + Len(rest) :
            j[i] = IF i <= Len(c) THEN c[i] ELSE rest[i - Len(c)]
  <2>1. rest \in Seq(Cookies)
    BY DEF Set
  <2> QED
    BY <2>1, LenProperties, ConcatProperties
<1>2. \A i \in 1 .. Len(c) : j[i] = c[i] /\ c[i].id \notin SystemCookies
  BY <1>1
<1>3. \A i \in 1 .. Len(rest) :
         j[Len(c) + i] = rest[i] /\ rest[i].id \in names /\ rest[i].value = 1
  BY <1>1 DEF Set
<1>4. \A i \in 1 .. Len(j) : i \in 1 .. Len(c) \/ i - Len(c) \in 1 .. Len(rest)
  BY <1>1
<1>5. \A i \in 1 .. Len(j) : ~(i \in 1 .. Len(c)) =>
         j[i].id \in names /\ j[i].value = 1
  BY <1>1, <1>3, <1>4
<1> HIDE DEF j
<1>6. ASSUME NEW id, id \notin SystemCookies PROVE Value(j, id) = Value(c, id)
  <2>1. \A i \in DOMAIN j : j[i].id = id => i \in DOMAIN c /\ c[i] = j[i]
    <3>1. ASSUME NEW i \in DOMAIN j, j[i].id = id PROVE i \in 1 .. Len(c)
      <4>1. id \notin names
        BY <1>6
      <4> QED
        BY <1>1, <1>5, <3>1, <4>1
    <3> QED
      BY <1>1, <1>2, <3>1
  <2>2. \A i \in DOMAIN c : i \in DOMAIN j /\ c[i] = j[i]
    BY <1>1, <1>2
  <2>3. \/ NoCookie(j, id) /\ Value(j, id) = 0
        \/ \E i \in DOMAIN j : FirstCookie(j, id, i) /\ Value(j, id) = j[i].value
    BY <1>1, ValueIs
  <2>4. \/ NoCookie(c, id) /\ Value(c, id) = 0
        \/ \E i \in DOMAIN c : FirstCookie(c, id, i) /\ Value(c, id) = c[i].value
    BY ValueIs
  <2>5. NoCookie(j, id) <=> NoCookie(c, id)
    BY <2>1, <2>2 DEF NoCookie
  <2>6. ASSUME NEW i \in DOMAIN j, FirstCookie(j, id, i),
               NEW k \in DOMAIN c, FirstCookie(c, id, k)
        PROVE  j[i].value = c[k].value
    <3>1. i <= k /\ k <= i
      BY <2>1, <2>2, <2>6 DEF FirstCookie
    <3>2. i \in Int /\ k \in Int
      BY <1>1
    <3> QED
      BY <2>2, <3>1, <3>2
  <2> QED
    BY <2>3, <2>4, <2>5, <2>6 DEF NoCookie, FirstCookie
<1>7. ASSUME NEW id \in SystemCookies PROVE Value(j, id) # 0 <=> id \in names
  <2>1. \A i \in DOMAIN j : j[i].id = id => id \in names /\ j[i].value = 1
    BY <1>1, <1>2, <1>5
  <2>2. ASSUME id \in names PROVE \E i \in DOMAIN j : j[i].id = id
    <3>1. PICK i \in DOMAIN rest : rest[i].id = id
      BY <2>2 DEF Set
    <3>2. Len(c) + i \in DOMAIN j
      BY <1>1
    <3> QED
      BY <1>1, <1>3, <3>1, <3>2
  <2>3. \/ NoCookie(j, id) /\ Value(j, id) = 0
        \/ \E i \in DOMAIN j : FirstCookie(j, id, i) /\ Value(j, id) = j[i].value
    BY <1>1, ValueIs
  <2> QED
    BY <2>1, <2>2, <2>3 DEF NoCookie, FirstCookie
<1> QED
  BY <1>6, <1>7 DEF j

(* The places of a set's sequence hold its members, each at some place. *)
LEMMA SequenceOf ==
    ASSUME NEW S, IsFiniteSet(S)
    PROVE  /\ Cardinality(S) \in Nat
           /\ SetToSeq(S) \in [1 .. Cardinality(S) -> S]
           /\ \A x \in S : \E i \in 1 .. Cardinality(S) : SetToSeq(S)[i] = x
<1> DEFINE n == Cardinality(S)
<1>1. n \in Nat
  BY FS_CardinalityType
<1>2. PICK f \in Bijection(1 .. n, S) : TRUE
  BY FS_CardinalityType DEF ExistsBijection
<1>3. f \in [1 .. n -> S] /\ IsInjective(f)
  BY <1>2 DEF Bijection, Injection
<1>4. SetToSeq(S) \in [1 .. n -> S] /\ IsInjective(SetToSeq(S))
  BY <1>3 DEF SetToSeq
<1>5. SetToSeq(S) \in Injection(1 .. n, S)
  BY <1>4 DEF Injection
<1>6. SetToSeq(S) \in Surjection(1 .. n, S)
  BY <1>1, <1>5, FS_Injection, FS_Interval
<1> QED
  BY <1>1, <1>4, <1>6 DEF Surjection
--------------------------------------------------------------------------------
(***************************************************************************)
(* What a system leaves                                                    *)
(***************************************************************************)
(* The system that runs, told by what setup may look at. *)
CookiesTell ==
    /\ get_cookie("Gnva") # 0 <=> running.aes = "geneva"
    /\ running.aes # "geneva" => (get_cookie("MiNT") # 0 <=> running.aes \in MiNTs)
    /\ running.aes \notin MiNTs => (get_cookie("MagX") # 0 <=> running.aes = "magic")
    /\ running.aes = "naes" => get_cookie("nAES") # 0 /\ naes_hdr3 = 0
    /\ running.aes = "mint_aes" => naes_hdr3 = 32768
    /\ get_cookie("fVDI") # 0 <=> running.vdi = "fvdi"
    /\ running.vdi = "nvdi" => get_cookie("NVDI") # 0
    /\ running.vdi = "atari" => get_cookie("NVDI") = 0

ProcessesTell ==
    /\ get_process_id("myaes") > 0 <=> running.aes = "myaes"
    /\ get_process_id("XaSYS") > 0 <=> running.aes = "xaaes"

HardwareTells ==
    /\ running.vampire <=> Processor(jar) = 8 \/ Board(jar) = 6
    /\ Video(jar) = 6 => running.vampire

Told ==
    /\ running.aes \in Systems
    /\ running.vdi \in {"atari", "nvdi", "fvdi"}
    /\ Kernel(running.aes, header, aes_global0)
    /\ header.version = 518
    /\ header.etos \in BOOLEAN
    /\ aes_global0 \in Nat
    /\ CookiesTell
    /\ ProcessesTell
    /\ HardwareTells

(* What setup has found out by each of its steps. *)
IInv ==
    /\ pc \in {"cookies", "header", "aes", "vdi", "vdo", "done"}
    /\ Told
    /\ pc \in {"header", "aes", "vdi", "vdo"} =>
          /\ vdo = Video(jar)
          /\ cpu = Processor(jar)
          /\ mch = Board(jar)
    /\ pc = "aes" => tos_emutos = IF header.etos THEN 518 ELSE 0
    /\ RecognisesSystem

(* The id is that of a process whose name begins like that. *)
LEMMA ProcessIs ==
    ASSUME processes \in Seq(Processes), NEW name
    PROVE  \/ /\ \A i \in DOMAIN processes : processes[i].begins # name
              /\ get_process_id(name) = -1
           \/ \E i \in DOMAIN processes :
                 /\ processes[i].begins = name
                 /\ get_process_id(name) = processes[i].id
<1> DEFINE S == {i \in DOMAIN processes : processes[i].begins = name}
           f == CHOOSE i \in S : \A j \in S : i <= j
<1>1. CASE S = {}
  BY <1>1 DEF get_process_id
<1>2. CASE S # {}
  <2>1. Len(processes) \in Nat /\ S \subseteq 1 .. Len(processes)
    OBVIOUS
  <2>2. f \in S
    <3> HIDE DEF S
    <3>1. \E i \in S : \A j \in S : i <= j
      BY <1>2, <2>1, FirstPlace
    <3> QED
      BY <3>1
  <2>3. get_process_id(name) = processes[f].id
    BY <1>2 DEF get_process_id
  <2> HIDE DEF f
  <2> QED
    BY <2>2, <2>3
<1> QED
  BY <1>1, <1>2

LEMMA BootsTells == Boots => Told
<1> SUFFICES ASSUME Boots PROVE Told
  OBVIOUS
<1>0. PICK aes \in Systems, vdi \in {"atari", "nvdi", "fvdi"}, hw \in Hardware :
           \E false \in SUBSET FalseCookies(aes), drivers \in VdiCookies(vdi) :
             /\ running = [aes |-> aes, vdi |-> vdi, vampire |-> hw.vampire]
             /\ aes_global0 \in AesVersions
             /\ header \in [version : {518}, etos : BOOLEAN]
             /\ Kernel(aes, header, aes_global0)
             /\ LET names == SetToSeq(OwnCookies(aes) \union false \union drivers)
                IN  jar = hw.cookies
                             \o [i \in DOMAIN names |-> [id |-> names[i], value |-> 1]]
             /\ naes_hdr3 \in NaesHeaders(aes)
             /\ processes \in {OwnProcess(aes)}
                   \union {<<p>> \o OwnProcess(aes) : p \in Others}
  BY Zenon DEF Boots
<1>1. PICK false \in SUBSET FalseCookies(aes), drivers \in VdiCookies(vdi) :
        /\ running = [aes |-> aes, vdi |-> vdi, vampire |-> hw.vampire]
        /\ aes_global0 \in AesVersions
        /\ header \in [version : {518}, etos : BOOLEAN]
        /\ Kernel(aes, header, aes_global0)
        /\ LET names == SetToSeq(OwnCookies(aes) \union false \union drivers)
           IN  jar = hw.cookies
                        \o [i \in DOMAIN names |-> [id |-> names[i], value |-> 1]]
        /\ naes_hdr3 \in NaesHeaders(aes)
        /\ processes \in {OwnProcess(aes)}
              \union {<<p>> \o OwnProcess(aes) : p \in Others}
  BY Zenon, <1>0
<1> DEFINE S == OwnCookies(aes) \union false \union drivers
           names == SetToSeq(S)
           rest == [i \in DOMAIN names |-> [id |-> names[i], value |-> 1]]
<1>2. S \in SUBSET SystemCookies
  <2>1. aes \in {"tos", "emutos", "geneva", "magic", "mint_aes", "naes", "xaaes", "myaes"}
    BY DEF Systems, MiNTs
  <2>2. OwnCookies(aes) \subseteq SystemCookies
    BY <2>1 DEF OwnCookies, SystemCookies
  <2>3. FalseCookies(aes) \subseteq SystemCookies
    BY <2>1 DEF FalseCookies, SystemCookies
  <2>4. drivers \subseteq SystemCookies
    BY DEF VdiCookies, SystemCookies
  <2> QED
    BY <2>2, <2>3, <2>4
<1>3. IsFiniteSet(S)
  <2>1. IsFiniteSet(SystemCookies)
    <3>1. /\ IsFiniteSet({"Gnva"}) /\ IsFiniteSet({"MiNT"}) /\ IsFiniteSet({"MagX"})
          /\ IsFiniteSet({"nAES"}) /\ IsFiniteSet({"NVDI"}) /\ IsFiniteSet({"fVDI"})
      BY FS_Singleton
    <3>2. IsFiniteSet({"Gnva"} \union {"MiNT"} \union {"MagX"})
      BY <3>1, FS_Union
    <3>3. IsFiniteSet({"nAES"} \union {"NVDI"} \union {"fVDI"})
      BY <3>1, FS_Union
    <3>4. SystemCookies = ({"Gnva"} \union {"MiNT"} \union {"MagX"})
                             \union ({"nAES"} \union {"NVDI"} \union {"fVDI"})
      BY DEF SystemCookies
    <3>5. IsFiniteSet(({"Gnva"} \union {"MiNT"} \union {"MagX"})
                         \union ({"nAES"} \union {"NVDI"} \union {"fVDI"}))
      BY <3>2, <3>3, FS_Union
    <3> QED
      BY <3>4, <3>5
  <2> QED
    BY <1>2, <2>1, FS_Subset
<1>4. Set(S, rest)
  <2>1. /\ Cardinality(S) \in Nat
        /\ names \in [1 .. Cardinality(S) -> S]
        /\ \A x \in S : \E i \in 1 .. Cardinality(S) : names[i] = x
    BY <1>3, SequenceOf
  <2>2. S \subseteq SystemCookies
    BY <1>2
  <2> HIDE DEF S, names
  <2>3. DOMAIN names = 1 .. Cardinality(S)
    BY <2>1
  <2>4. rest \in [1 .. Cardinality(S) -> Cookies]
    BY <2>1, <2>2, <2>3 DEF Cookies
  <2>5. rest \in Seq(Cookies) /\ DOMAIN rest = 1 .. Cardinality(S)
    BY <2>1, <2>4
  <2>6. \A i \in DOMAIN rest : rest[i].id = names[i] /\ rest[i].value = 1
    BY <2>3, <2>5
  <2> QED
    BY <2>1, <2>5, <2>6 DEF Set
<1>5. jar = hw.cookies \o rest
  BY <1>1
<1>6. /\ hw.cookies \in Seq(Cookies)
      /\ \A i \in DOMAIN hw.cookies : hw.cookies[i].id \notin SystemCookies
  <2>1. [id : STRING, value : Nat] \subseteq Cookies
    BY DEF Cookies
  <2>2. hw.cookies \in Seq([id : STRING, value : Nat])
    BY SetupAssumption
  <2>3. hw.cookies \in Seq(Cookies)
    BY <2>1, <2>2, SeqMonotonic
  <2> QED
    BY <2>3, SetupAssumption
<1> HIDE DEF S, names, rest
<1>7. /\ \A id : id \notin SystemCookies => Value(jar, id) = Value(hw.cookies, id)
      /\ \A id \in SystemCookies : get_cookie(id) # 0 <=> id \in S
  BY <1>2, <1>4, <1>5, <1>6, JarValues DEF get_cookie
<1>8. HardwareTells
  <2>1. "_CPU" \notin SystemCookies /\ "_MCH" \notin SystemCookies
        /\ "_VDO" \notin SystemCookies
    BY DEF SystemCookies
  <2>2. /\ Processor(jar) = Processor(hw.cookies) /\ Board(jar) = Board(hw.cookies)
        /\ Video(jar) = Video(hw.cookies)
    BY <1>7, <2>1 DEF Processor, Board, Video
  <2> QED
    BY <1>1, <2>2, SetupAssumption DEF HardwareTells
<1>9. CookiesTell
  <2>1. /\ get_cookie("Gnva") # 0 <=> "Gnva" \in S
        /\ get_cookie("MiNT") # 0 <=> "MiNT" \in S
        /\ get_cookie("MagX") # 0 <=> "MagX" \in S
        /\ get_cookie("nAES") # 0 <=> "nAES" \in S
        /\ get_cookie("fVDI") # 0 <=> "fVDI" \in S
        /\ get_cookie("NVDI") # 0 <=> "NVDI" \in S
    BY <1>7 DEF SystemCookies
  <2>2. aes \in {"tos", "emutos", "geneva", "magic", "mint_aes", "naes", "xaaes", "myaes"}
    BY DEF Systems, MiNTs
  <2>3. running.aes = aes /\ running.vdi = vdi
    BY <1>1
  <2>4. /\ "Gnva" \in S <=> aes = "geneva"
        /\ aes # "geneva" => ("MiNT" \in S <=> aes \in MiNTs)
        /\ aes \notin MiNTs => ("MagX" \in S <=> aes = "magic")
        /\ aes = "naes" => "nAES" \in S
    <3>1. drivers \subseteq {"NVDI", "fVDI"}
      BY DEF VdiCookies
    <3>2. CASE aes \in {"tos", "emutos"}
      <4>1. OwnCookies(aes) = {} /\ FalseCookies(aes) = {}
        BY <3>2 DEF OwnCookies, FalseCookies
      <4> QED
        BY <3>1, <3>2, <4>1 DEF S, MiNTs
    <3>3. CASE aes = "geneva"
      <4>1. OwnCookies(aes) = {"Gnva"} /\ FalseCookies(aes) = {"MiNT"}
        BY <3>3 DEF OwnCookies, FalseCookies
      <4> QED
        BY <3>1, <3>3, <4>1 DEF S, MiNTs
    <3>4. CASE aes = "magic"
      <4>1. OwnCookies(aes) = {"MagX"} /\ FalseCookies(aes) = {}
        BY <3>4 DEF OwnCookies, FalseCookies
      <4> QED
        BY <3>1, <3>4, <4>1 DEF S, MiNTs
    <3>5. CASE aes = "naes"
      <4>1. OwnCookies(aes) = {"MiNT", "nAES"} /\ FalseCookies(aes) = {"MagX"}
        BY <3>5 DEF OwnCookies, FalseCookies
      <4> QED
        BY <3>1, <3>5, <4>1 DEF S, MiNTs
    <3>6. CASE aes = "mint_aes"
      <4>1. OwnCookies(aes) = {"MiNT"} /\ FalseCookies(aes) = {"nAES"}
        BY <3>6 DEF OwnCookies, FalseCookies
      <4> QED
        BY <3>1, <3>6, <4>1 DEF S, MiNTs
    <3>7. CASE aes \in {"xaaes", "myaes"}
      <4>1. OwnCookies(aes) = {"MiNT"} /\ FalseCookies(aes) = {"nAES", "MagX"}
        BY <3>7 DEF OwnCookies, FalseCookies
      <4> QED
        BY <3>1, <3>7, <4>1 DEF S, MiNTs
    <3> QED
      BY <2>2, <3>2, <3>3, <3>4, <3>5, <3>6, <3>7
  <2>5. /\ "fVDI" \in S <=> vdi = "fvdi"
        /\ vdi = "nvdi" => "NVDI" \in S
        /\ vdi = "atari" => "NVDI" \notin S
    <3>1. OwnCookies(aes) \subseteq {"Gnva", "MiNT", "MagX", "nAES"}
      BY <2>2 DEF OwnCookies
    <3>2. FalseCookies(aes) \subseteq {"Gnva", "MiNT", "MagX", "nAES"}
      BY <2>2 DEF FalseCookies
    <3>3. /\ vdi = "fvdi" => "fVDI" \in drivers
          /\ vdi = "nvdi" => drivers = {"NVDI"}
          /\ vdi = "atari" => drivers = {}
      BY DEF VdiCookies
    <3> QED
      BY <3>1, <3>2, <3>3 DEF S
  <2>6. aes = "naes" => naes_hdr3 = 0
    BY <1>1 DEF NaesHeaders
  <2>7. aes = "mint_aes" => naes_hdr3 = 32768
    BY <1>1 DEF NaesHeaders
  <2> QED
    BY <2>1, <2>3, <2>4, <2>5, <2>6, <2>7 DEF CookiesTell
<1>10. ProcessesTell
  <2> DEFINE own == OwnProcess(aes)
  <2>1. /\ own \in Seq(Processes)
        /\ \A i \in DOMAIN own : own[i].id = 7
        /\ (\E i \in DOMAIN own : own[i].begins = "myaes") <=> aes = "myaes"
        /\ (\E i \in DOMAIN own : own[i].begins = "XaSYS") <=> aes = "xaaes"
    <3>1. CASE aes = "xaaes"
      <4> DEFINE p == [begins |-> "XaSYS", id |-> 7]
      <4>1. p \in Processes
        BY DEF Processes, AesProcesses
      <4>2. own = <<p>>
        BY <3>1 DEF OwnProcess
      <4>3. p.begins = "XaSYS" /\ p.id = 7
        OBVIOUS
      <4> HIDE DEF p, own
      <4>4. own \in Seq(Processes) /\ DOMAIN own = {1} /\ own[1] = p
        BY <4>1, <4>2
      <4> QED
        BY <3>1, <4>3, <4>4
    <3>2. CASE aes = "myaes"
      <4> DEFINE p == [begins |-> "myaes", id |-> 7]
      <4>1. p \in Processes
        BY DEF Processes, AesProcesses
      <4>2. own = <<p>>
        BY <3>2 DEF OwnProcess
      <4>3. p.begins = "myaes" /\ p.id = 7
        OBVIOUS
      <4> HIDE DEF p, own
      <4>4. own \in Seq(Processes) /\ DOMAIN own = {1} /\ own[1] = p
        BY <4>1, <4>2
      <4> QED
        BY <3>2, <4>3, <4>4
    <3>3. CASE aes # "xaaes" /\ aes # "myaes"
      <4>1. own = <<>>
        BY <3>3 DEF OwnProcess
      <4> QED
        BY <3>3, <4>1
    <3> QED
      BY <3>1, <3>2, <3>3
  <2> HIDE DEF own
  <2>2. /\ processes \in Seq(Processes)
        /\ \A name \in AesProcesses :
              /\ (\E i \in DOMAIN processes : processes[i].begins = name)
                    <=> \E i \in DOMAIN own : own[i].begins = name
              /\ \A i \in DOMAIN processes : processes[i].begins = name =>
                    processes[i].id = 7
    <3>1. CASE processes = own
      BY <2>1, <3>1
    <3>2. ASSUME NEW p \in Others, processes = <<p>> \o own
          PROVE  /\ processes \in Seq(Processes)
                 /\ \A name \in AesProcesses :
                       /\ (\E i \in DOMAIN processes : processes[i].begins = name)
                             <=> \E i \in DOMAIN own : own[i].begins = name
                       /\ \A i \in DOMAIN processes : processes[i].begins = name =>
                             processes[i].id = 7
      <4>1. p \in Processes /\ p.begins \notin AesProcesses
        BY SetupAssumption DEF Processes
      <4>2. <<p>> \in Seq(Processes) /\ Len(<<p>>) = 1 /\ <<p>>[1] = p
        BY <4>1
      <4>3. /\ processes \in Seq(Processes)
            /\ Len(own) \in Nat /\ Len(processes) = 1 + Len(own)
            /\ DOMAIN own = 1 .. Len(own) /\ DOMAIN processes = 1 .. 1 + Len(own)
            /\ \A i \in 1 .. 1 + Len(own) :
                  processes[i] = IF i <= 1 THEN <<p>>[i] ELSE own[i - 1]
        BY <2>1, <3>2, <4>2, LenProperties, ConcatProperties
      <4>4. processes[1] = p
        BY <4>2, <4>3
      <4>5. \A i \in DOMAIN processes :
               i # 1 => i - 1 \in DOMAIN own /\ processes[i] = own[i - 1]
        BY <4>3
      <4>6. \A i \in DOMAIN own :
               i + 1 \in DOMAIN processes /\ processes[i + 1] = own[i]
        BY <4>3
      <4>7. ASSUME NEW name \in AesProcesses
            PROVE  /\ (\E i \in DOMAIN processes : processes[i].begins = name)
                         <=> \E i \in DOMAIN own : own[i].begins = name
                   /\ \A i \in DOMAIN processes : processes[i].begins = name =>
                         processes[i].id = 7
        <5>1. processes[1].begins # name
          BY <4>1, <4>4
        <5>2. \A i \in DOMAIN processes : processes[i].begins = name =>
                 i - 1 \in DOMAIN own /\ processes[i] = own[i - 1]
          BY <4>5, <5>1
        <5> QED
          BY <2>1, <4>6, <5>2
      <4> QED
        BY <4>3, <4>7
    <3>3. processes = own \/ \E p \in Others : processes = <<p>> \o own
      BY <1>1 DEF own
    <3> QED
      BY <3>1, <3>2, <3>3
  <2>3. running.aes = aes
    BY <1>1
  <2>4. \A name \in AesProcesses :
           get_process_id(name) > 0 <=> \E i \in DOMAIN processes :
                                           processes[i].begins = name
    BY <2>2, ProcessIs
  <2> QED
    BY <2>1, <2>2, <2>3, <2>4 DEF ProcessesTell, AesProcesses
<1> QED
  BY <1>1, <1>8, <1>9, <1>10, SetupAssumption DEF Told

LEMMA Inductive == IInv /\ [Next]_vars => IInv'
<1> SUFFICES ASSUME IInv, [Next]_vars PROVE IInv'
  OBVIOUS
<1>0. ASSUME UNCHANGED machine
      PROVE  /\ Told'
             /\ Video(jar)' = Video(jar) /\ Processor(jar)' = Processor(jar)
             /\ Board(jar)' = Board(jar)
             /\ header' = header /\ running' = running
  BY <1>0 DEF machine, IInv, Told, Kernel, CookiesTell, ProcessesTell, HardwareTells,
     get_cookie, get_process_id
<1>1. CASE ReadCookies
  BY <1>0, <1>1 DEF ReadCookies, IInv, RecognisesSystem
<1>2. CASE ReadHeader
  BY <1>0, <1>2 DEF ReadHeader, IInv, RecognisesSystem, Told
<1>3. CASE FindAES
  <2>1. sys_aes' = running.aes
    <3>1. Told /\ tos_emutos = IF header.etos THEN 518 ELSE 0
      BY <1>3 DEF FindAES, IInv
    <3>2. running.aes \in MiNTs => MintAes = running.aes
      BY <3>1 DEF Told, CookiesTell, ProcessesTell, MintAes, MiNTs
    <3> QED
      BY <1>3, <3>1, <3>2
      DEF FindAES, Told, CookiesTell, Kernel, Systems, MiNTs
  <2> QED
    BY <1>0, <1>3, <2>1 DEF FindAES, IInv, RecognisesSystem
<1>4. CASE FindVDI
  <2>1. Vdi = running.vdi
    BY DEF IInv, Told, CookiesTell, Vdi
  <2> QED
    BY <1>0, <1>4, <2>1 DEF FindVDI, IInv, RecognisesSystem
<1>5. CASE FixVdo
  <2>1. running.vampire <=> vdo' = 6
    BY <1>5 DEF FixVdo, IInv, Told, HardwareTells, IsVampire
  <2> QED
    BY <1>0, <1>5, <2>1 DEF FixVdo, IInv, RecognisesSystem
<1>6. CASE UNCHANGED vars
  BY <1>0, <1>6 DEF vars, IInv, RecognisesSystem
<1> QED
  BY <1>1, <1>2, <1>3, <1>4, <1>5, <1>6 DEF Next

(* Theorem: what save and apply work for is the AES, the VDI and the hardware that
   run, for every set of cookies that a system may leave to pass for another. *)
THEOREM SystemRecognised == Spec => []RecognisesSystem
<1>1. Init => IInv
  BY BootsTells DEF Init, IInv, RecognisesSystem
<1>2. IInv => RecognisesSystem
  BY DEF IInv
<1> QED
  BY <1>1, <1>2, Inductive, PTL DEF Spec
================================================================================
