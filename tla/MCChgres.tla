------------------------------- MODULE MCChgres --------------------------------
(***************************************************************************)
(* Chgres with one application, a short limit and one file of each kind.   *)
(***************************************************************************)
EXTENDS Chgres

Mode(rez, vmode, planes) == [rez |-> rez, vmode |-> vmode, planes |-> planes]

MCChosen == {Mode(4, 0, 1), Mode(5, 16642, 16)}

(* every system that setup() can find *)
MCSystems == AESes \X BOOLEAN

Other(w) == <<Word(w), NL>>

(* the end of a file that is not truncated: a line without a key, as long as the
   lines of any mode *)
End == [i \in 1 .. 17 |-> Word("y")] \o <<NL>>

(* a file as the system leaves it, and one without the lines that save needs *)
MCFiles(target) ==
    {CASE target \in {"tos", "emutos", "mint", "naes"} ->
            <<Word("#E"), Num(17), Num(18), Num(19), Num(20), Num(21), Num(22),
              NL>> \o Other("#W")
       [] target = "magic" -> <<Word("#_DEV"), Num(2), Num(0), NL>> \o Other("y")
       [] target = "xaaes" ->
            Entry("MODECODE", <<Num(1)>>) \o Entry("SCREENDEV", Decimal(12)) \o End
       [] target = "myaes" ->
            Entry("vsetmode", Decimal(0)) \o Entry("rezmode", Decimal(10))
                \o Entry("esetshift", Decimal(0)) \o End
       [] target = "fvdi" ->
            <<Driver(1), Word("mono.sys"), NL,
              Driver(16), Word("saga16.sys"), NL,
              Word("01r"), Word("saga16.sys"), NL>> \o Other("y")
       [] OTHER -> NoFile}
    \union {Other("y")}
================================================================================
