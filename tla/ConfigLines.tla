------------------------------ MODULE ConfigLines ------------------------------
(***************************************************************************)
(* The line operations of utils.c on the text of a configuration file.     *)
(*                                                                         *)
(* A text is a sequence of tokens.  A word, a line end and a number of     *)
(* fixed width are one token each; a number printed with %d takes one for  *)
(* each of its characters, for where a file is not truncated the length of *)
(* the new text decides what is left of the old one.  A line is found by   *)
(* its first token.                                                        *)
(***************************************************************************)
EXTENDS Integers, SequencesExt

(* tokens *)
Word(w) == <<w, 0>>
Num(n) == <<"number", n>>

(* %d: what is left of a number that was cut is not another number *)
Width(n) == (IF n < 0 THEN 2 ELSE 1)
            + Cardinality({p \in {10, 100, 1000, 10000} : n >= p \/ -n >= p})
Decimal(n) == [i \in 1 .. Width(n) |-> Num(n)]

NL == <<"line end", 0>>

Starts(b) == {i \in 1 .. Len(b) : i = 1 \/ b[i - 1] = NL}

(* the last position of the line that starts at i *)
LineEnd(b, i) ==
    CHOOSE j \in i .. Len(b) :
        /\ b[j] = NL \/ j = Len(b)
        /\ \A k \in i .. j - 1 : b[k] # NL

Found(b, key) == {i \in Starts(b) : b[i] = key}

(* the characters after the line at i: the caller takes 0 for not found *)
Remain(b, i) == Len(b) - LineEnd(b, i)

(* the first line with the key.  Without one, remain is 0 and p is the end. *)
find_line(b, key) ==
    IF Found(b, key) = {}
    THEN [p |-> Len(b) + 1, linesize |-> 0, remain |-> 0]
    ELSE LET i == CHOOSE f \in Found(b, key) :
                    \A g \in Found(b, key) : f <= g
         IN  [p |-> i, linesize |-> LineEnd(b, i) - i + 1,
              remain |-> Remain(b, i)]

Before(b, p) == SubSeq(b, 1, p - 1)
From(b, p) == SubSeq(b, p, Len(b))

remove_line_NoLineEnd(b, key) ==                                 \* mutant
    LET line == find_line(b, key)
    IN  IF line.remain = 0
        THEN [buf |-> b, at |-> 0]
        ELSE [buf |-> Before(b, line.p) \o From(b, line.p + line.linesize - 1),
              at |-> line.p]

(* the buffer without the line; at is where the line was, 0 if not found *)
remove_line(b, key) ==
    LET line == find_line(b, key)
    IN  IF line.remain = 0
        THEN [buf |-> b, at |-> 0]
        ELSE [buf |-> Before(b, line.p) \o From(b, line.p + line.linesize),
              at |-> line.p]

--------------------------------------------------------------------------------
(* for properties: the line with a key that is there once *)
OnlyLine(b, key) ==
    LET i == CHOOSE i \in Found(b, key) : TRUE
    IN  SubSeq(b, i, LineEnd(b, i))

(* There is one line with the key, and the file goes on after it. *)
Once(b, key) ==
    /\ Cardinality(Found(b, key)) = 1
    /\ \A i \in Found(b, key) : LineEnd(b, i) < Len(b)

(* the lines with none of the keys, each with its place among them *)
Kept(b, keys) == {i \in Starts(b) : b[i] \notin keys}

LinesBut(b, keys) ==
    {<<Cardinality({j \in Kept(b, keys) : j <= i}), SubSeq(b, i, LineEnd(b, i))>> :
        i \in Kept(b, keys)}
================================================================================
