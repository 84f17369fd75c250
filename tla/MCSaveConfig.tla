------------------------------ MODULE MCSaveConfig -----------------------------
(***************************************************************************)
(* SaveConfig with small files: as the AES leaves them, with other lines   *)
(* around the mode's, without them, and with them in the wrong place.      *)
(***************************************************************************)
EXTENDS SaveConfig

Mode(rez, vmode, planes) == [rez |-> rez, vmode |-> vmode, planes |-> planes]

(* ST high, a SAGA mode in 16 bits and a card's mode in 8 bits *)
MCChosen == {Mode(4, 0, 1), Mode(5, 16642, 16), Mode(10, 16385, 8)}

Sagas == {Mode(5, 16642, 16), Mode(5, 16901, 32)}

AllSystems == (AESes \X {FALSE}) \union {<<"tos", TRUE>>, <<"mint", TRUE>>}

Other(w) == <<Word(w), NL>>
KeyLine(key, n) == <<Word(key)>> \o Decimal(n) \o <<NL>>
LongLine(key, n) == <<Word(key)>> \o Decimal(n) \o <<Word("; a comment"), NL>>

(* a last line that a shorter text may leave behind in part *)
End == <<Word("last")>> \o [i \in 1 .. 16 |-> Word("of all")] \o <<NL>>

Desktop(fields) ==
    Other("#a") \o <<Word("#E")>> \o [i \in 1 .. fields |-> Num(16 + i)]
        \o <<NL>> \o Other("#W")

(* every order of the keys, with other lines between them and at the end; with
   numbers of one character, and of more than the program writes *)
Keyed(keys) ==
    {FlattenSeq([i \in 1 .. Len(o) |-> KeyLine(o[i], n * i) \o Other(ToString(i))])
        \o End : o \in SetToSeqs(ToSet(keys)), n \in {1, 2600}}

FvdiFile(tail) ==
    <<Driver(16), Word("saga16.sys"), NL, Driver(32), Word("saga32.sys"), NL,
      Word("01r"), Word("saga16.sys"), ModeName(Mode(5, 16642, 16))>> \o tail

OtherDrivers == <<Driver(1), Word("mono.sys"), NL, Driver(8), Word("card.sys"), NL>>

(* the files that the program was written for *)
Expected(target) ==
    CASE target \in {"tos", "emutos", "mint", "naes"} -> {Desktop(6), Desktop(7)}
      [] target = "magic" ->
            {Other("x") \o KeyLine("#_DEV", 2) \o Other("y"),
             Other("x") \o Other("#[aes]") \o Other("y")}
      [] target = "xaaes" -> Keyed(<<"SCREENDEV", "MODECODE">>)
      [] target = "myaes" -> Keyed(<<"vsetmode", "rezmode", "esetshift">>)
      [] target = "fvdi" ->
            {OtherDrivers \o FvdiFile(<<NL>> \o Other("x")),
             FvdiFile(<<NL>> \o OtherDrivers \o Other("x"))}
      [] OTHER -> {NoFile}

(* and others that it may meet *)
Unexpected(target) ==
    CASE target \in {"tos", "emutos", "mint", "naes"} ->
            {NoFile, Desktop(5), Desktop(4), Desktop(2), Other("#a")}
      [] target = "magic" -> {NoFile, Other("x"), Other("x") \o KeyLine("#_DEV", 2)}
      [] target = "xaaes" ->
            {NoFile, Other("x") \o Other("y"),
             Other("x") \o KeyLine("SCREENDEV", 1) \o KeyLine("MODECODE", 2),
             LongLine("SCREENDEV", 1) \o LongLine("MODECODE", 2) \o Other("x")}
      [] target = "myaes" ->
            {NoFile, Other("x"), KeyLine("rezmode", 2) \o Other("x")}
      [] target = "fvdi" ->
            {NoFile, FvdiFile(<<>>), FvdiFile(<<NL>>),
             FvdiFile(<<NL, Word("01r"), NL>> \o Other("x")),
             <<Word("01r"), NL, Driver(16), NL>> \o Other("x")}
      [] OTHER -> {}

AnyFile(target) == Expected(target) \union Unexpected(target)
================================================================================
