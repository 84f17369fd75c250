------------------------------- MODULE SaveConfig ------------------------------
(***************************************************************************)
(* save() of chgres.c with save.c and the line operations of utils.c: the  *)
(* confirmed mode goes into the configuration file of the AES, or of fVDI. *)
(* Each save reads the whole file, works out what to write, opens the file *)
(* for writing and writes it in pieces; the results of the writes are not  *)
(* looked at.                                                              *)
(***************************************************************************)
EXTENDS ConfigLines

CONSTANTS
    Chosen,       \* modes [rez, vmode, planes, size] the user may confirm
    Systems,      \* pairs <<aes, fvdi>> that setup() may find
    Files(_),     \* contents the file of a target may have at first
    Faults,       \* what may go wrong: "path", "load", "open", "write"
    MaxName,      \* longest driver name, 30 characters in the code
    Saves,        \* bound on the runs of the program
    Room,         \* bound on the tokens that the lines of a mode take
    NoFile        \* what a file that is not there holds

AESes ==
    {"tos", "emutos", "geneva", "magic", "mint", "naes", "xaaes", "myaes"}

(* the rez of a mode without vmode is one hexadecimal digit, counted from 2 *)
IsMode(mode) ==
    /\ mode.rez \in Int /\ mode.vmode \in Nat
    /\ mode.vmode = 0 => mode.rez \in 2 .. 17

(* the lines that save_xaaes_inf and save_myaes_inf print; vmode has a fixed
   width for XaAES *)
Entry(key, value) == <<Word(key)>> \o value \o <<NL>>

XaaesText(mode) ==
    Entry("SCREENDEV", Decimal(mode.rez)) \o Entry("MODECODE", <<Num(mode.vmode)>>)

MyaesText(mode) ==
    Entry("vsetmode", Decimal(mode.vmode)) \o Entry("rezmode", Decimal(mode.rez - 2))
        \o Entry("esetshift", Decimal(0))

ASSUME SaveAssumption ==
    /\ Faults \subseteq {"path", "load", "open", "write"}
    /\ MaxName \in Nat
    /\ Saves \in Nat \ {0}
    /\ Room \in Nat \ {0}
    /\ Systems \subseteq AESes \X BOOLEAN
    /\ \A mode \in Chosen :
          /\ IsMode(mode)
          /\ Len(XaaesText(mode)) <= Room /\ Len(MyaesText(mode)) <= Room
    /\ \A target \in AESes \union {"fvdi"} : \A b \in Files(target) :
          b = NoFile \/ b \in Seq(ToSet(b))

VARIABLES
    pc,
    aes, fvdi,        \* the system that setup() found
    cur_res,          \* the confirmed mode
    disk,             \* the file of this system
    old,              \* what it held when the program was started
    plan,             \* how the file is opened and what is still to write
    pos,              \* the position in the open file
    ret,              \* the result of save()
    runs,
    cut               \* history: a write of this save was cut short

(* further tokens *)
Driver(planes) == <<"#[driver]", planes>>
ModeName(mode) == <<"mode", mode>>
NoName == Word("")
Stray(i) == <<"stray", i>>      \* memory after the end of a buffer

(***************************************************************************)
(* What each save_xxx_inf means to write, into a new file or over the old  *)
(* one, in pieces.  The set is empty where the function gives up, and has  *)
(* several members where the code reads a variable that it never set.     *)
(***************************************************************************)
Create(chunks) == [create |-> TRUE, checked |-> TRUE, chunks |-> chunks]

save_magx_inf(b) ==
    LET dev  == find_line(b, Word("#_DEV"))
        sect == find_line(b, Word("#[aes]"))
        new  == <<Word("#_DEV"), Num(cur_res.rez), Num(cur_res.vmode), NL>>
        Insert(p, q) == {Create(<<Before(b, p), new, From(b, q)>>)}
    IN  IF dev.remain > 0 THEN Insert(dev.p, dev.p + dev.linesize)
        ELSE IF sect.remain > 0
        THEN Insert(sect.p + sect.linesize, sect.p + sect.linesize)
        ELSE Insert(1, 1)

(* the second digit of a field becomes the rez *)
RezDigit(field) == ((field \div 16) * 16) + ((cur_res.rez - 2) % 16)

(* every field of the "#E" line is a number with its blank; there are at least
   two.  Fcreate's negative results pass for a handle here. *)
save_desk_inf_base(b, emutos, eoffset) ==
    LET line == find_line(b, Word("#E"))
        first == IF cur_res.vmode = 0 THEN 255 ELSE cur_res.vmode \div 256
        second == IF cur_res.vmode = 0 THEN cur_res.rez - 2
                  ELSE cur_res.vmode % 256
        Rewrite(text) ==
            {[create |-> TRUE, checked |-> FALSE, chunks |-> <<text>>]}
    IN  IF line.remain = 0 THEN {}
        ELSE IF cur_res.vmode = 0 /\ ~emutos /\ line.linesize >= 3
        THEN Rewrite([b EXCEPT ![line.p + 2] =
                        Num(RezDigit(b[line.p + 2][2]))])
        ELSE IF line.linesize >= eoffset + 2
        THEN Rewrite([b EXCEPT ![line.p + eoffset] = Num(first),
                               ![line.p + eoffset + 1] = Num(second)])
        ELSE {}

RemoveNextOrElse(s, key) ==                                      \* mutant
    IF s.at # 0 THEN s ELSE remove_line(s.buf, key)

(* one more line is removed, if it is there; at is the place of the last one *)
RemoveNext(s, key) ==
    LET r == remove_line(s.buf, key)
    IN  IF r.at = 0 THEN s ELSE r

Loaded(b) == [buf |-> b, at |-> 0]

(* save_xaaes_inf and save_myaes_inf: the old file is opened, not truncated, so
   that the end of a longer one stays behind what is written.
   The new lines take the place of the line removed last.  When no key was
   found, sn still holds whatever was on the stack. *)
Overwrite(b, r, new) ==
    LET Garbage(sn) == SubSeq(Append(b, Stray(1)), 1, sn)
        Pieces == IF r.at # 0
                  THEN {<<Before(r.buf, r.at), new, From(r.buf, r.at)>>}
                  ELSE {<<new, Garbage(sn)>> : sn \in 0 .. Len(b) + 1}
    IN  {[create |-> FALSE, checked |-> TRUE, chunks |-> c] : c \in Pieces}

save_xaaes_inf(b) ==
    LET one == RemoveNext(Loaded(b), Word("SCREENDEV"))
        two == RemoveNext(one, Word("MODECODE"))
    IN  Overwrite(b, two, XaaesText(cur_res))

save_myaes_inf(b) ==
    LET one == RemoveNext(Loaded(b), Word("vsetmode"))
        two == RemoveNext(one, Word("rezmode"))
        three == RemoveNext(two, Word("esetshift"))
    IN  Overwrite(b, three, MyaesText(cur_res))

(* the driver of the mode's depth: a set, empty when it has none *)
DriverId(b) ==
    LET line == find_line(b, Driver(cur_res.planes))
        name == b[line.p + 1]
    IN  IF line.remain > 0 /\ line.linesize - 1 \in 1 .. MaxName
        THEN {IF name = NL THEN NoName ELSE name}
        ELSE {}

save_fvdi_inf_AtEnd(b) ==                                        \* mutant
    LET one == remove_line(b, Word("01r"))
        two == remove_line(one.buf, Word("01r"))
    IN  IF one.at # 0 /\ two.at = 0
        THEN {Create(<<one.buf, <<Word("01r"), id, ModeName(cur_res), NL>> >>) :
                id \in DriverId(b)}
        ELSE {}

save_fvdi_inf(b) ==
    LET one == remove_line(b, Word("01r"))
        two == remove_line(one.buf, Word("01r"))
    IN  IF one.at # 0 /\ two.at = 0
        THEN {Create(<<Before(one.buf, one.at),
                       <<Word("01r"), id, ModeName(cur_res), NL>>,
                       From(one.buf, one.at)>>) : id \in DriverId(b)}
        ELSE {}

(***************************************************************************)
(* save: the file of the system, fVDI's first                              *)
(***************************************************************************)
Target == IF fvdi THEN "fvdi" ELSE aes

DeskTargets == {"tos", "emutos", "mint", "naes"}

Plans(b) ==
    CASE Target = "fvdi"                   -> save_fvdi_inf(b)
      [] Target = "magic"                  -> save_magx_inf(b)
      [] Target = "emutos"                 -> save_desk_inf_base(b, TRUE, 3)
      [] Target \in {"tos", "mint", "naes"} -> save_desk_inf_base(b, FALSE, 5)
      [] Target = "xaaes"                  -> save_xaaes_inf(b)
      [] Target = "myaes"                  -> save_myaes_inf(b)
      [] Target = "geneva"                 -> {}

(* the "#E" line of default_newdesk, between the lines around it *)
default_newdesk ==
    <<Word("#K"), NL>>
    \o <<Word("#E"), Num(24), Num(19), Num(0), Num(6), Num(0), Num(0), Num(0), NL>>
    \o <<Word("#W"), NL>>

(* what load_file may give; some callers then take the default *)
load_file ==
    LET Missing == IF Target \in {"tos", "mint", "naes"} THEN default_newdesk
                   ELSE NoFile
    IN  {IF disk = NoFile THEN Missing ELSE disk}
            \union (IF "load" \in Faults THEN {Missing} ELSE {})

(* the directory of the AES is found through its process or the environment *)
PathKnown ==
    IF "path" \in Faults /\ Target \in {"naes", "xaaes"} THEN BOOLEAN
    ELSE {TRUE}

Failure == IF Target \in {"tos", "emutos", "xaaes", "fvdi", "geneva"} THEN -1
           ELSE 0

NoPlan == [create |-> FALSE, checked |-> TRUE, chunks |-> <<>>]

Return(r) == pc' = "done" /\ ret' = r /\ plan' = NoPlan

Init ==
    /\ pc = "load"
    /\ \E s \in Systems : aes = s[1] /\ fvdi = s[2]
    /\ cur_res \in Chosen
    /\ disk \in Files(Target)
    /\ old = disk
    /\ plan = NoPlan
    /\ pos = 0
    /\ ret = 0
    /\ runs = 1
    /\ cut = FALSE

LoadCreatesFirst ==                                              \* mutant
    /\ pc = "load"
    /\ \E known \in PathKnown, b \in load_file :
          LET plans == IF known /\ b # NoFile THEN Plans(b) ELSE {}
          IN  \/ plan' \in plans /\ pc' = "open" /\ UNCHANGED <<ret, disk>>
              \/ /\ plans = {} /\ Return(Failure)
                 /\ disk' = IF known /\ b # NoFile THEN <<>> ELSE disk
    /\ UNCHANGED <<aes, fvdi, cur_res, old, pos, runs, cut>>

Load ==
    /\ pc = "load"
    /\ \E known \in PathKnown, b \in load_file :
          LET plans == IF known /\ b # NoFile THEN Plans(b) ELSE {}
          IN  \/ /\ plan' \in plans
                 /\ pc' = "open"
                 /\ UNCHANGED ret
              \/ plans = {} /\ Return(Failure)
    /\ UNCHANGED <<aes, fvdi, cur_res, disk, old, pos, runs, cut>>

(* Fcreate or Fopen *)
Open ==
    /\ pc = "open"
    /\ \/ /\ disk' = IF plan.create THEN <<>> ELSE disk
          /\ pos' = 0
          /\ pc' = "write"
          /\ UNCHANGED <<plan, ret>>
       \/ /\ "open" \in Faults
          /\ Return(IF plan.checked THEN Failure ELSE 1)
          /\ UNCHANGED <<disk, pos>>
    /\ UNCHANGED <<aes, fvdi, cur_res, old, runs, cut>>

PutOneBack(file, at, text) == SubSeq(file, 1, at - 1) \o text    \* mutant

(* text written into a file at a position: it replaces what is there *)
Put(file, at, text) ==
    SubSeq(file, 1, at) \o text \o SubSeq(file, at + Len(text) + 1, Len(file))

(* one Fwrite; on a full disk it writes less *)
Write ==
    /\ pc = "write" /\ plan.chunks # <<>>
    /\ LET chunk == Head(plan.chunks)
       IN  \E n \in (IF "write" \in Faults THEN 0 .. Len(chunk)
                     ELSE {Len(chunk)}) :
             /\ disk' = Put(disk, pos, SubSeq(chunk, 1, n))
             /\ pos' = pos + n
             /\ cut' = (cut \/ n < Len(chunk))
    /\ plan' = [plan EXCEPT !.chunks = Tail(@)]
    /\ UNCHANGED <<pc, aes, fvdi, cur_res, old, ret, runs>>

Close ==
    /\ pc = "write" /\ plan.chunks = <<>>
    /\ Return(1)
    /\ UNCHANGED <<aes, fvdi, cur_res, disk, old, pos, runs, cut>>

(* the user starts the program once more, and picks a mode *)
Again ==
    /\ pc = "done" /\ runs < Saves
    /\ pc' = "load"
    /\ cur_res' \in Chosen
    /\ old' = disk
    /\ runs' = runs + 1
    /\ cut' = FALSE
    /\ UNCHANGED <<aes, fvdi, disk, plan, pos, ret>>

Next == Load \/ Open \/ Write \/ Close \/ Again

vars == <<pc, aes, fvdi, cur_res, disk, old, plan, pos, ret, runs, cut>>

Spec == Init /\ [][Next]_vars

--------------------------------------------------------------------------------
(***************************************************************************)
(* How the AES or fVDI reads the file at the next start, and what a file   *)
(* looks like that save can work with                                      *)
(***************************************************************************)
Desk == Target \in DeskTargets

(* the places of the mode's two numbers in the "#E" line *)
Fields == IF Target = "emutos" THEN {3, 4} ELSE {5, 6}

(* the lines that make up a mode *)
Setting(b, mode) ==
    CASE Target = "magic" -> {<<Word("#_DEV"), Num(mode.rez), Num(mode.vmode)>>}
      [] Target = "xaaes" -> {<<Word("SCREENDEV")>> \o Decimal(mode.rez),
                              <<Word("MODECODE")>> \o <<Num(mode.vmode)>>}
      [] Target = "myaes" -> {<<Word("vsetmode")>> \o Decimal(mode.vmode),
                              <<Word("rezmode")>> \o Decimal(mode.rez - 2),
                              <<Word("esetshift")>> \o Decimal(0)}
      [] Target = "fvdi"  ->
            {<<Word("01r"), b[i + 1], ModeName(mode)>> :
                i \in Found(b, Driver(mode.planes)) \ {Len(b)}}
      [] OTHER            -> {}

Keys ==
    CASE Desk             -> {Word("#E")}
      [] Target = "magic" -> {Word("#_DEV")}
      [] Target = "xaaes" -> {Word("SCREENDEV"), Word("MODECODE")}
      [] Target = "myaes" -> {Word("vsetmode"), Word("rezmode"), Word("esetshift")}
      [] Target = "fvdi"  -> {Word("01r")}
      [] OTHER            -> {}

(* on EmuTOS the two numbers always tell; elsewhere a mode with vmode 0 is
   told by the low digit of the second number *)
HoldsDesk(b, mode) ==
    LET E == OnlyLine(b, Word("#E"))
        Pair == <<E[4 + 2], E[4 + 3]>>
    IN  IF Target = "emutos"
        THEN <<E[4], E[5]>> = IF mode.vmode = 0
                              THEN <<Num(255), Num(mode.rez - 2)>>
                              ELSE <<Num(mode.vmode \div 256),
                                     Num(mode.vmode % 256)>>
        ELSE IF mode.vmode = 0
        THEN E[3][2] % 16 = mode.rez - 2
        ELSE Pair = <<Num(mode.vmode \div 256), Num(mode.vmode % 256)>>

(* each line of the mode is there, once *)
HoldsMode(b, mode) ==
    /\ \A key \in Keys : Cardinality(Found(b, key)) = 1
    /\ Desk => HoldsDesk(b, mode)
    /\ \A s \in Setting(b, mode) : IsPrefix(s, OnlyLine(b, s[1]))

Holds(b) == HoldsMode(b, cur_res)

(* the files that are opened without being truncated *)
Overwritten == Target \in {"xaaes", "myaes"}

(* the room that the lines of a mode take in such a file *)
RoomIn(b) ==
    LET Size(key) == Len(OnlyLine(b, Word(key)))
    IN  CASE Target = "xaaes" -> Size("SCREENDEV") + Size("MODECODE")
          [] Target = "myaes" -> Size("vsetmode") + Size("rezmode") + Size("esetshift")
          [] OTHER            -> 0

(* The file ends with a part that names no key, made of whole lines, and as long
   as the text that a save may leave behind. *)
EndsFree(b) ==
    /\ b[Len(b)] = NL
    /\ \E i \in Starts(b) :
          /\ Len(b) - i + 1 >= Room
          /\ \A j \in i .. Len(b) : b[j] \notin Keys

(* One line for each key, none of them the last of the file; the fields of the
   "#E" line are numbers; a driver's name is there and fits; what may be left
   behind a shorter text has no key in it. *)
WellFormed(b) ==
    /\ b # NoFile
    /\ Target # "geneva"
    /\ \/ \A key \in Keys : Once(b, key)
       \/ /\ Target = "magic" /\ Found(b, Word("#_DEV")) = {}
          /\ Once(b, Word("#[aes]"))
    /\ Target = "fvdi" => \A mode \in Chosen :
          /\ Once(b, Driver(mode.planes))
          /\ Len(OnlyLine(b, Driver(mode.planes))) \in 3 .. MaxName + 1
    /\ Desk => LET E == OnlyLine(b, Word("#E"))
               IN  Len(E) >= 8 /\ \A i \in 2 .. Len(E) - 1 : E[i][2] \in Nat
    /\ Overwritten => RoomIn(b) <= Room /\ EndsFree(b)

(* everything but the lines of the mode *)
Others(b) == LinesBut(b, Keys)

(* of the "#E" line, everything but the numbers of the mode *)
OtherFields(b) ==
    LET E == OnlyLine(b, Word("#E"))
    IN  <<Len(E), E[3][2] \div 16,
          [i \in (2 .. Len(E)) \ {3} |->
                IF i - 1 \in Fields THEN NL ELSE E[i]]>>

--------------------------------------------------------------------------------
(* The types of the variables; the file position never lies behind the end of
   the file, so that no save leaves a hole. *)
TypeOK ==
    /\ pc \in {"load", "open", "write", "done"}
    /\ <<aes, fvdi>> \in Systems
    /\ cur_res \in Chosen
    /\ plan.create \in BOOLEAN /\ plan.checked \in BOOLEAN
    /\ pos \in Nat
    /\ pc = "write" => disk # NoFile /\ pos <= Len(disk)
    /\ ret \in {-1, 0, 1}
    /\ runs \in 1 .. Saves
    /\ cut \in BOOLEAN

(* A save that reports a failure, wherever it gave up, has left the file as it
   was: every check of the old contents comes before the file is opened for
   writing. *)
FailureLeavesFile == pc = "done" /\ ret # 1 => disk = old

(* A save to a file as the program expects it reports success, and what the AES
   or fVDI will read is the confirmed mode: also when lines were removed first
   and the rest of the file has moved, and when the new text is shorter and the
   end of the old one stays behind it. *)
SavedIsOnDisk == pc = "done" /\ WellFormed(old) => ret = 1 /\ Holds(disk)

(* After a save, unless the disk was full, the file is again one that a later
   save can work with, so that runs of the program do not wear it down: one line
   for each key, and behind them an end that hides no key, although every save
   of a shorter mode makes the XaAES's and MyAES's file longer there. *)
StaysUsable ==
    [][pc' = "done" /\ WellFormed(old) /\ ~cut => WellFormed(disk')]_vars

(* chgres.c says of the result 1: "saved". *)
SavedMeansWritten == pc = "done" /\ ret = 1 /\ WellFormed(old) => Holds(disk)

(* README.TXT says of the example with the two driver lines and the mode line
   that it will allow the program to change the resolution. *)
ExampleWorks ==
    /\ Target = "fvdi" /\ pc = "done"
    /\ old \in {<<Driver(16), Word("saga16.sys"), NL,
                  Driver(32), Word("saga32.sys"), NL,
                  Word("01r"), Word("saga16.sys"), ModeName(m)>> \o end :
                    m \in Chosen, end \in {<<>>, <<NL>>}}
    => ret = 1
================================================================================
