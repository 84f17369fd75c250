------------------------------ MODULE SaveProofs -------------------------------
(***************************************************************************)
(* Proofs about SaveConfig, for every file, mode, system and fault.        *)
(***************************************************************************)
EXTENDS SaveStore, LinesProofs

(* Until the file is opened for writing it is as it was when the program was
   started, and a save that did not succeed never opened it. *)
IInv ==
    /\ pc \in {"load", "open", "write", "done"}
    /\ pc \in {"load", "open"} => disk = old
    /\ pc = "done" /\ ret # 1 => disk = old

LEMMA Inductive == IInv /\ [Next]_vars => IInv'
<1> SUFFICES ASSUME IInv, [Next]_vars PROVE IInv'
  OBVIOUS
<1> USE DEF IInv
<1>1. CASE Load
  <2>1. disk' = old'
    BY <1>1 DEF Load
  <2> QED
    BY <1>1, <2>1 DEF Load, Return
<1>2. CASE Open
  <2>1. disk = old /\ old' = old
    BY <1>2 DEF Open
  <2> QED
    BY <1>2, <2>1 DEF Open, Return
<1>3. CASE Write
  BY <1>3 DEF Write
<1>4. CASE Close
  BY <1>4 DEF Close, Return
<1>5. CASE Again
  BY <1>5 DEF Again
<1>6. CASE UNCHANGED vars
  BY <1>6 DEF vars
<1> QED
  BY <1>1, <1>2, <1>3, <1>4, <1>5, <1>6 DEF Next

(* A save that reports a failure has left the file as it was, whatever the file
   holds and whichever step failed. *)
THEOREM FailureIsHarmless == Spec => []FailureLeavesFile
<1>1. Init => IInv
  BY DEF Init, IInv
<1>2. IInv => FailureLeavesFile
  BY DEF IInv, FailureLeavesFile
<1> QED
  BY <1>1, <1>2, Inductive, PTL DEF Spec

--------------------------------------------------------------------------------
(***************************************************************************)
(* Writing into a file                                                     *)
(***************************************************************************)
(* p is f with the text t from the position at on *)
PutAt(p, f, at, t) ==
    /\ Text(p)
    /\ Len(p) = IF at + Len(t) > Len(f) THEN at + Len(t) ELSE Len(f)
    /\ \A i \in 1 .. Len(p) :
          p[i] = IF i > at /\ i <= at + Len(t) THEN t[i - at] ELSE f[i]

LEMMA PutIs ==
    ASSUME NEW f, NEW at, NEW t, Text(f), Text(t), at \in Nat, at <= Len(f)
    PROVE  PutAt(Put(f, at, t), f, at, t)
<1> DEFINE A == SubSeq(f, 1, at)
           B == SubSeq(f, at + Len(t) + 1, Len(f))
           x == A \o t
           p == x \o B
<1>1. Len(f) \in Nat /\ Len(t) \in Nat
  BY TextLen
<1>2. Text(A) /\ Len(A) = at /\ \A i \in 1 .. at : A[i] = f[i]
  <2>1. Text(A) /\ Len(A) = at
    BY TextPrefix
  <2>2. \A i \in 1 .. at - 1 + 1 : A[i] = f[1 + i - 1]
    BY TextSub
  <2> HIDE DEF A
  <2> QED
    BY <2>1, <2>2
<1>3. /\ Text(B) /\ Len(B) = IF at + Len(t) < Len(f) THEN Len(f) - (at + Len(t)) ELSE 0
      /\ \A i \in 1 .. Len(B) : B[i] = f[at + Len(t) + i]
  <2> DEFINE n == at + Len(t) + 1
  <2>1. n \in Int /\ Len(f) \in Int
    BY <1>1
  <2> HIDE DEF n
  <2> DEFINE C == SubSeq(f, n, Len(f))
  <2>2. /\ Text(C) /\ Len(C) = IF n <= Len(f) THEN Len(f) - n + 1 ELSE 0
        /\ \A i \in 1 .. Len(f) - n + 1 : C[i] = f[n + i - 1]
    BY <2>1, TextSub
  <2> HIDE DEF C
  <2>3. Text(C) /\ Len(C) = IF at + Len(t) < Len(f) THEN Len(f) - (at + Len(t)) ELSE 0
    BY <1>1, <2>2 DEF n
  <2>4. \A i \in 1 .. Len(C) : C[i] = f[at + Len(t) + i]
    <3> TAKE i \in 1 .. Len(C)
    <3>1. i \in 1 .. Len(f) - n + 1 /\ n + i - 1 = at + Len(t) + i
      BY <1>1, <2>3 DEF n
    <3> QED
      BY <2>2, <3>1
  <2>5. C = B
    BY DEF C, n
  <2> HIDE DEF B
  <2> QED
    BY <2>3, <2>4, <2>5
<1> HIDE DEF A, B
<1>4. /\ Text(x) /\ Len(x) = at + Len(t)
      /\ \A i \in 1 .. at : x[i] = f[i]
      /\ \A i \in 1 .. Len(t) : x[at + i] = t[i]
  <2>1. /\ Text(x) /\ Len(x) = Len(A) + Len(t)
        /\ \A i \in 1 .. Len(A) : x[i] = A[i]
        /\ \A i \in 1 .. Len(t) : x[Len(A) + i] = t[i]
    BY <1>2, TextJoin
  <2> HIDE DEF x
  <2> QED
    BY <1>2, <2>1
<1> HIDE DEF x
<1>5. /\ Text(p) /\ Len(p) = at + Len(t) + Len(B)
      /\ \A i \in 1 .. at + Len(t) : p[i] = x[i]
      /\ \A i \in 1 .. Len(B) : p[at + Len(t) + i] = f[at + Len(t) + i]
  <2>1. /\ Text(p) /\ Len(p) = Len(x) + Len(B)
        /\ \A i \in 1 .. Len(x) : p[i] = x[i]
        /\ \A i \in 1 .. Len(B) : p[Len(x) + i] = B[i]
    <3>1. Text(x) /\ Text(B)
      BY <1>3, <1>4
    <3> QED
      BY <3>1, TextJoin
  <2> HIDE DEF p
  <2> QED
    BY <1>3, <1>4, <2>1
<1> HIDE DEF p
<1>6. Len(p) = IF at + Len(t) > Len(f) THEN at + Len(t) ELSE Len(f)
  <2>1. Len(p) = at + Len(t) + Len(B)
    BY <1>5
  <2>2. Len(B) = IF at + Len(t) < Len(f) THEN Len(f) - (at + Len(t)) ELSE 0
    BY <1>3
  <2>3. CASE at + Len(t) < Len(f)
    BY <1>1, <2>1, <2>2, <2>3
  <2>4. CASE ~(at + Len(t) < Len(f))
    <3>1. Len(B) = 0
      BY <2>2, <2>4
    <3>2. Len(p) = at + Len(t)
      BY <1>1, <2>1, <3>1
    <3> QED
      BY <1>1, <2>4, <3>2
  <2> QED
    BY <2>3, <2>4
<1>7. \A i \in 1 .. Len(p) :
         p[i] = IF i > at /\ i <= at + Len(t) THEN t[i - at] ELSE f[i]
  <2> TAKE i \in 1 .. Len(p)
  <2>1. CASE i <= at
    <3>1. i \in 1 .. at /\ i \in 1 .. at + Len(t)
      BY <1>1, <2>1
    <3> QED
      BY <1>1, <1>4, <1>5, <2>1, <3>1
  <2>2. CASE i > at /\ i <= at + Len(t)
    <3>1. i - at \in 1 .. Len(t) /\ at + (i - at) = i /\ i \in 1 .. at + Len(t)
      BY <1>1, <2>2
    <3>2. x[at + (i - at)] = t[i - at] /\ p[i] = x[i]
      BY <1>4, <1>5, <3>1
    <3> QED
      BY <2>2, <3>1, <3>2
  <2>3. CASE i > at + Len(t)
    <3> DEFINE m == i - (at + Len(t))
    <3>1. m \in 1 .. Len(B) /\ at + Len(t) + m = i
      <4>1. Len(B) \in Nat /\ Len(p) = at + Len(t) + Len(B)
        BY <1>3, <1>5, TextLen
      <4> QED
        BY <1>1, <2>3, <4>1
    <3> HIDE DEF m
    <3>2. p[i] = f[i]
      BY <1>5, <3>1
    <3> QED
      BY <1>1, <2>3, <3>2
  <2> QED
    BY <1>1, <2>1, <2>2, <2>3
<1>8. Put(f, at, t) = p
  BY DEF Put, p, x, A, B
<1> QED
  BY <1>5, <1>6, <1>7, <1>8 DEF PutAt

(* two pieces one after the other are one piece *)
LEMMA PutPut ==
    ASSUME NEW f, NEW at, NEW t, NEW r, Text(f), Text(t), Text(r),
           at \in Nat, at <= Len(f)
    PROVE  Put(Put(f, at, t), at + Len(t), r) = Put(f, at, t \o r)
<1> DEFINE p == Put(f, at, t)
           n == at + Len(t)
           q == Put(p, n, r)
           s == t \o r
           u == Put(f, at, s)
<1>1. Len(f) \in Nat /\ Len(t) \in Nat /\ Len(r) \in Nat
  BY TextLen
<1>2. PutAt(p, f, at, t)
  BY PutIs
<1> HIDE DEF p
<1>3. Text(p) /\ n \in Nat /\ n <= Len(p)
  BY <1>1, <1>2 DEF PutAt
<1>4. PutAt(q, p, n, r)
  <2> HIDE DEF n
  <2> QED
    BY <1>3, PutIs
<1>5. /\ Text(s) /\ Len(s) = Len(t) + Len(r)
      /\ \A i \in 1 .. Len(t) : s[i] = t[i]
      /\ \A i \in 1 .. Len(r) : s[Len(t) + i] = r[i]
  BY TextJoin
<1> HIDE DEF s
<1>6. PutAt(u, f, at, s)
  BY <1>5, PutIs
<1> HIDE DEF q, u
<1>7. Len(q) = Len(u) /\ Text(q) /\ Text(u) /\ Len(p) <= Len(q) /\ Len(p) \in Nat
  <2>1. Text(q) /\ Text(u)
    BY <1>4, <1>6 DEF PutAt
  <2>2. /\ Len(p) = IF n > Len(f) THEN n ELSE Len(f)
        /\ Len(q) = IF n + Len(r) > Len(p) THEN n + Len(r) ELSE Len(p)
        /\ Len(u) = IF at + Len(s) > Len(f) THEN at + Len(s) ELSE Len(f)
    BY <1>2, <1>4, <1>6 DEF PutAt
  <2>3. at + Len(s) = n + Len(r)
    BY <1>1, <1>5
  <2> HIDE DEF n
  <2>4. n + Len(r) >= n
    BY <1>1, <1>3
  <2> QED
    BY <1>1, <1>3, <2>1, <2>2, <2>3, <2>4
<1>8. \A i \in 1 .. Len(q) : q[i] = u[i]
  <2> SUFFICES ASSUME NEW i \in 1 .. Len(q) PROVE q[i] = u[i]
    OBVIOUS
  <2>1. i \in 1 .. Len(u)
    BY <1>7
  <2>2. /\ q[i] = IF i > n /\ i <= n + Len(r) THEN r[i - n] ELSE p[i]
        /\ u[i] = IF i > at /\ i <= at + Len(s) THEN s[i - at] ELSE f[i]
    BY <1>4, <1>6, <2>1 DEF PutAt
  <2>3. CASE i <= at
    <3>1. i \in 1 .. Len(p)
      BY <1>1, <1>3, <2>3
    <3>2. p[i] = f[i]
      BY <1>1, <1>2, <2>3, <3>1 DEF PutAt
    <3>3. ~(i > n) /\ ~(i > at)
      BY <1>1, <2>3
    <3> QED
      BY <2>2, <3>2, <3>3
  <2>4. CASE i > at /\ i <= n
    <3>1. i \in 1 .. Len(p) /\ i - at \in 1 .. Len(t)
      BY <1>1, <1>3, <2>4
    <3>2. p[i] = t[i - at]
      BY <1>2, <2>4, <3>1 DEF PutAt
    <3>3. ~(i > n) /\ i <= at + Len(s) /\ i > at
      BY <1>1, <1>5, <2>4
    <3> QED
      BY <1>5, <2>2, <3>1, <3>2, <3>3
  <2>5. CASE i > n /\ i <= n + Len(r)
    <3>1. i - n \in 1 .. Len(r) /\ Len(t) + (i - n) = i - at
      BY <1>1, <2>5
    <3>2. s[Len(t) + (i - n)] = r[i - n]
      BY <1>5, <3>1
    <3>3. i > at /\ i <= at + Len(s)
      BY <1>1, <1>5, <2>5
    <3> QED
      BY <2>2, <2>5, <3>1, <3>2, <3>3
  <2>6. CASE i > n + Len(r)
    <3>1. i \in 1 .. Len(p) /\ i <= Len(f)
      BY <1>1, <1>2, <1>4, <2>6 DEF PutAt
    <3>2. p[i] = f[i]
      BY <1>1, <1>2, <2>6, <3>1 DEF PutAt
    <3>3. ~(i <= n + Len(r)) /\ ~(i <= at + Len(s))
      BY <1>1, <1>5, <2>6
    <3> QED
      BY <2>2, <3>2, <3>3
  <2> QED
    BY <1>1, <2>3, <2>4, <2>5, <2>6
<1>9. q = u
  BY <1>7, <1>8, TextEqual
<1> QED
  BY <1>9 DEF p, q, s, u

LEMMA EmptyText == Text(<<>>) /\ Len(<<>>) = 0
<1>1. <<>> \in Seq({}) /\ Len(<<>>) = 0
  OBVIOUS
<1> QED
  BY <1>1 DEF Text

LEMMA PutNothing ==
    ASSUME NEW f, NEW at, Text(f), at \in Nat, at <= Len(f)
    PROVE  Put(f, at, <<>>) = f
<1>1. PutAt(Put(f, at, <<>>), f, at, <<>>)
  BY EmptyText, PutIs
<1>2. Len(f) \in Nat /\ Len(<<>>) = 0
  BY EmptyText, TextLen
<1> DEFINE p == Put(f, at, <<>>)
<1> HIDE DEF p
<1>3. Text(p) /\ Len(p) = Len(f) /\ \A i \in 1 .. Len(p) : p[i] = f[i]
  <2>1. PutAt(p, f, at, <<>>)
    BY <1>1 DEF p
  <2> QED
    BY <1>2, <2>1 DEF PutAt
<1>4. p = f
  BY <1>3, TextEqual
<1> QED
  BY <1>4 DEF p

(* a text written from the beginning: the end of a longer file stays behind *)
LEMMA PutFirst ==
    ASSUME NEW f, NEW t, Text(f), Text(t)
    PROVE  /\ Put(f, 0, t) = t \o SubSeq(f, Len(t) + 1, Len(f))
           /\ Put(<<>>, 0, t) = t
<1>1. ASSUME NEW b
      PROVE  Put(b, 0, t) = t \o SubSeq(b, Len(t) + 1, Len(b))
  <2>1. SubSeq(b, 1, 0) = <<>>
    <3>1. Text(SubSeq(b, 1, 0)) /\ Len(SubSeq(b, 1, 0)) = 0
      BY TextSub
    <3> QED
      BY <3>1, TextLen
  <2>2. <<>> \o t = t
    BY JoinEmpty
  <2>3. 0 + Len(t) + 1 = Len(t) + 1
    BY TextLen
  <2> QED
    BY <2>1, <2>2, <2>3 DEF Put
<1>2. Put(<<>>, 0, t) = t
  <2> DEFINE e == SubSeq(<<>>, Len(t) + 1, Len(<<>>))
  <2>1. Text(e) /\ Len(e) = 0
    <3>1. Len(t) \in Nat /\ Len(<<>>) = 0
      BY EmptyText, TextLen
    <3>2. Len(t) + 1 \in Int /\ ~(Len(t) + 1 <= 0)
      BY <3>1
    <3> QED
      BY <3>1, <3>2, TextSub
  <2>2. e = <<>>
    BY <2>1, TextLen
  <2> HIDE DEF e
  <2>3. Put(<<>>, 0, t) = t \o e
    BY <1>1 DEF e
  <2> QED
    BY <2>2, <2>3, JoinEmpty
<1> QED
  BY <1>1, <1>2

LEMMA PutText ==
    ASSUME NEW f, NEW at, NEW t, Text(f), Text(t), at \in Nat, at <= Len(f)
    PROVE  Text(Put(f, at, t)) /\ at + Len(t) <= Len(Put(f, at, t))
<1> DEFINE p == Put(f, at, t)
<1>1. PutAt(p, f, at, t)
  BY PutIs
<1>2. Len(f) \in Nat /\ Len(t) \in Nat
  BY TextLen
<1> HIDE DEF p
<1>3. Text(p) /\ at + Len(t) <= Len(p)
  BY <1>1, <1>2 DEF PutAt
<1> QED
  BY <1>3 DEF p

--------------------------------------------------------------------------------
(***************************************************************************)
(* What a save means to write                                              *)
(***************************************************************************)
(* the text of what is still to write, in at most three pieces *)
Rest(chunks) ==
    CASE Len(chunks) = 0 -> <<>>
      [] Len(chunks) = 1 -> chunks[1]
      [] Len(chunks) = 2 -> chunks[1] \o chunks[2]
      [] Len(chunks) = 3 -> chunks[1] \o (chunks[2] \o chunks[3])

Pieces(chunks) ==
    /\ Text(chunks) /\ Len(chunks) <= 3
    /\ \A i \in 1 .. Len(chunks) : Text(chunks[i])

IsPlan(p) ==
    /\ p = [create |-> p.create, checked |-> p.checked, chunks |-> p.chunks]
    /\ p.create \in BOOLEAN /\ p.checked \in BOOLEAN
    /\ Pieces(p.chunks)

(* a file that a save can work with, and that holds the mode *)
Good(b) == Text(b) /\ WellFormed(b) /\ Holds(b) /\ ~Shorter(b)

(* everything that is no part of a mode is the same in t as in b, but for what
   is left behind a shorter text *)
Keeps(t, b) ==
    /\ OthersOf(b) \subseteq OthersOf(t)
    /\ Shorter(b) \/ OthersOf(t) = OthersOf(b)

LEMMA LinesKept ==
    ASSUME NEW t, NEW b, Text(t), Text(b), ~Text(NoFile), ~Desk,
           SameBut(t, b, Keys)
    PROVE  Keeps(t, b)
BY DEF Keeps, OthersOf, Others, SameBut

(* what the file holds when all is written, emptied before or not *)
Written(p, b) == Put(IF p.create THEN <<>> ELSE b, 0, Rest(p.chunks))

(* a plan for the file b that will make it good *)
Fits(p, b) == IsPlan(p) /\ Good(Written(p, b)) /\ Keeps(Written(p, b), b)

LEMMA ThreePieces ==
    ASSUME NEW s, Text(s), Len(s) = 3, Text(s[1]), Text(s[2]), Text(s[3])
    PROVE  Pieces(s) /\ Rest(s) = s[1] \o (s[2] \o s[3])
BY DEF Pieces, Rest

LEMMA TwoPieces ==
    ASSUME NEW s, Text(s), Len(s) = 2, Text(s[1]), Text(s[2])
    PROVE  Pieces(s) /\ Rest(s) = s[1] \o s[2]
BY DEF Pieces, Rest

LEMMA OnePiece ==
    ASSUME NEW s, Text(s), Len(s) = 1, Text(s[1])
    PROVE  Pieces(s) /\ Rest(s) = s[1]
BY DEF Pieces, Rest

LEMMA CreateFits ==
    ASSUME NEW a, NEW v, NEW c, NEW b, Text(a), Text(v), Text(c),
           Good(a \o (v \o c)), Keeps(a \o (v \o c), b)
    PROVE  Fits(Create(<<a, v, c>>), b)
<1> DEFINE s == <<a, v, c>>
           p == Create(s)
<1>1. s \in Seq({a, v, c}) /\ Len(s) = 3 /\ s[1] = a /\ s[2] = v /\ s[3] = c
  OBVIOUS
<1> HIDE DEF s
<1>2. Text(s)
  BY <1>1 DEF Text
<1>3. Pieces(s) /\ Rest(s) = a \o (v \o c)
  BY <1>1, <1>2, ThreePieces
<1>4. IsPlan(p) /\ p.create /\ p.chunks = s
  BY <1>3 DEF Create, IsPlan
<1> HIDE DEF p
<1>6. Written(p, b) = a \o (v \o c)
  <2> DEFINE r == a \o (v \o c)
  <2>1. Text(v \o c)
    BY TextJoin
  <2>2. Text(r)
    BY <2>1, TextJoin
  <2> HIDE DEF r
  <2>3. Put(<<>>, 0, r) = r
    BY <2>2, PutFirst
  <2>4. Written(p, b) = Put(<<>>, 0, r)
    BY <1>3, <1>4 DEF Written, r
  <2> QED
    BY <2>3, <2>4 DEF r
<1>5. Fits(p, b)
  BY <1>4, <1>6 DEF Fits
<1> QED
  BY <1>5 DEF p, s

LEMMA Tokens ==
    /\ \A n : Num(n) # NL
    /\ \A mode : ModeName(mode) # NL
    /\ \A k \in {"#_DEV", "#[aes]", "#E", "SCREENDEV", "MODECODE", "vsetmode",
                "rezmode", "esetshift", "01r"} :
          /\ Word(k) # NL
          /\ \A m \in {"#_DEV", "#[aes]", "#E", "SCREENDEV", "MODECODE",
                      "vsetmode", "rezmode", "esetshift", "01r"} :
                k # m => Word(k) # Word(m)
          /\ \A planes : Word(k) # Driver(planes)
BY DEF Num, NL, ModeName, Word, Driver

(* MagiC: the line of the mode takes the place of the old one, or follows the
   line that begins the section. *)
LEMMA MagicGood ==
    ASSUME NEW t, t # NoFile, Target = "magic", Text(t),
           Has(t, Word("#_DEV"),
               <<Word("#_DEV"), Num(cur_res.rez), Num(cur_res.vmode), NL>>)
    PROVE  Good(t)
<1> DEFINE key == Word("#_DEV")
           v == <<key, Num(cur_res.rez), Num(cur_res.vmode), NL>>
<1>1. ~Desk /\ Keys = {key}
  BY DEF Desk, DeskTargets, Keys
<1>2. Once(t, key) /\ OnlyLine(t, key) = v /\ Cardinality(Found(t, key)) = 1
  BY OnceHas
<1>3. Setting(t, cur_res) = {<<key, Num(cur_res.rez), Num(cur_res.vmode)>>}
  BY DEF Setting
<1>4. IsPrefix(<<key, Num(cur_res.rez), Num(cur_res.vmode)>>, v)
  BY Tokens, LineOfFour
<1>5. Holds(t)
  <2>1. <<key, Num(cur_res.rez), Num(cur_res.vmode)>>[1] = key
    OBVIOUS
  <2> HIDE DEF key, v
  <2> QED
    BY <1>1, <1>2, <1>3, <1>4, <2>1 DEF Holds, HoldsMode
<1>6. WellFormed(t) /\ ~Shorter(t)
  <2> HIDE DEF key, v
  <2> QED
    BY <1>1, <1>2 DEF WellFormed, Overwritten, Shorter
<1> QED
  BY <1>5, <1>6 DEF Good

LEMMA MagicFits ==
    ASSUME NEW b, ~Text(NoFile), Target = "magic", Text(b), WellFormed(b)
    PROVE  save_magx_inf(b) # {} /\ \A p \in save_magx_inf(b) : Fits(p, b)
<1> DEFINE key == Word("#_DEV")
           v == <<key, Num(cur_res.rez), Num(cur_res.vmode), NL>>
           dev == find_line(b, key)
           sect == find_line(b, Word("#[aes]"))
<1>1. Line(v) /\ v[1] = key
  BY Tokens, LineOfFour
<1>2. \/ Once(b, key)
      \/ Found(b, key) = {} /\ Once(b, Word("#[aes]"))
  BY DEF WellFormed, Keys, Desk, DeskTargets
<1> HIDE DEF v
<1>6. Keys = {key} /\ ~Desk
  BY DEF Keys, Desk, DeskTargets
<1>3. ASSUME NEW a, NEW c, Whole(a), Text(c), c # <<>>, None(a \o c, key),
             SameBut(b, a \o c, Keys)
      PROVE  Fits(Create(<<a, v, c>>), b)
  <2> DEFINE t == a \o (v \o c)
  <2>1. Text(t) /\ Has(t, key, v)
    BY <1>1, <1>3, LineAround
  <2>5. SameBut(t, a \o c, Keys)
    BY <1>1, <1>3, <1>6, LineAside
  <2>6. SameBut(t, b, Keys)
    BY <1>3, <2>5 DEF SameBut
  <2> HIDE DEF t
  <2>7. Keeps(t, b)
    BY <1>6, <2>1, <2>6, LinesKept
  <2>2. t # NoFile
    BY <2>1
  <2>3. Good(t)
    BY <2>1, <2>2, MagicGood DEF v
  <2>4. Text(a) /\ Text(v)
    BY <1>1, <1>3 DEF Whole, Line
  <2> QED
    BY <1>3, <2>3, <2>4, <2>7, CreateFits DEF t
<1>4. CASE Once(b, key)
  <2>1. PICK w, a, c : Parts(b, key, w, a, c)
    BY <1>4, OnceHas, Cut
  <2>2. /\ Len(a) \in Nat /\ Len(w) \in Nat /\ Len(c) \in Nat \ {0}
        /\ dev = [p |-> Len(a) + 1, linesize |-> Len(w), remain |-> Len(c)]
        /\ Before(b, Len(a) + 1) = a
        /\ From(b, Len(a) + 1 + Len(w)) = c
    BY <2>1, PartsFind
  <2> HIDE DEF dev
  <2>3. /\ dev.remain > 0 /\ Before(b, dev.p) = a
        /\ From(b, dev.p + dev.linesize) = c
    BY <2>2
  <2>4. save_magx_inf(b) = {Create(<<a, v, c>>)}
    BY <2>3 DEF save_magx_inf, dev, v
  <2>5. Fits(Create(<<a, v, c>>), b)
    <3>1. /\ Whole(a) /\ Line(w) /\ Text(c) /\ c # <<>>
          /\ b = a \o (w \o c) /\ w[1] = key /\ None(a \o c, key)
      BY <2>1, PartsHas DEF Parts
    <3>2. SameBut(b, a \o c, Keys)
      BY <1>6, <3>1, LineAside
    <3> QED
      BY <1>3, <3>1, <3>2
  <2> QED
    BY <2>4, <2>5
<1>5. CASE Found(b, key) = {} /\ Once(b, Word("#[aes]"))
  <2>1. PICK w, a, c : Parts(b, Word("#[aes]"), w, a, c)
    BY <1>5, OnceHas, Cut
  <2>2. /\ Len(a) \in Nat /\ Len(w) \in Nat /\ Len(c) \in Nat \ {0}
        /\ sect = [p |-> Len(a) + 1, linesize |-> Len(w), remain |-> Len(c)]
        /\ From(b, Len(a) + 1 + Len(w)) = c
    BY <2>1, PartsFind
  <2>3. /\ Before(b, Len(a) + 1 + Len(w)) = a \o w
        /\ Whole(a \o w) /\ b = (a \o w) \o c
    BY <2>1, PartsHas
  <2>4. dev.remain = 0
    BY <1>5, NoneFind DEF None
  <2> HIDE DEF dev, sect
  <2>5. /\ ~(dev.remain > 0) /\ sect.remain > 0
        /\ Before(b, sect.p + sect.linesize) = a \o w
        /\ From(b, sect.p + sect.linesize) = c
    BY <2>2, <2>3, <2>4
  <2>6. save_magx_inf(b) = {Create(<<a \o w, v, c>>)}
    BY <2>5 DEF save_magx_inf, dev, sect, v
  <2>7. Fits(Create(<<a \o w, v, c>>), b)
    <3>1. None((a \o w) \o c, key)
      BY <1>5, <2>3 DEF None
    <3>2. SameBut(b, (a \o w) \o c, Keys)
      BY <2>3 DEF SameBut
    <3> QED
      BY <1>3, <2>1, <2>3, <3>1, <3>2 DEF Parts
  <2> QED
    BY <2>6, <2>7
<1> QED
  BY <1>2, <1>4, <1>5

--------------------------------------------------------------------------------
(* The desktops: one field of the "#E" line is changed, or two. *)
Fields8(w) == Len(w) >= 8 /\ \A i \in 2 .. Len(w) - 1 : w[i][2] \in Nat

TellsMode(w) ==
    IF Target = "emutos"
    THEN <<w[4], w[5]>> = IF cur_res.vmode = 0
                          THEN <<Num(255), Num(cur_res.rez - 2)>>
                          ELSE <<Num(cur_res.vmode \div 256),
                                 Num(cur_res.vmode % 256)>>
    ELSE IF cur_res.vmode = 0
    THEN w[3][2] % 16 = cur_res.rez - 2
    ELSE <<w[6], w[7]>> = <<Num(cur_res.vmode \div 256),
                            Num(cur_res.vmode % 256)>>

LEMMA DeskGood ==
    ASSUME NEW t, NEW w, t # NoFile, Desk, Text(t),
           Has(t, Word("#E"), w), Fields8(w), TellsMode(w)
    PROVE  Good(t)
<1> DEFINE key == Word("#E")
<1>1. Keys = {key} /\ Target \in DeskTargets
  BY DEF Desk, Keys, DeskTargets
<1>2. Target \notin {"magic", "xaaes", "myaes", "fvdi", "geneva"}
  BY <1>1 DEF DeskTargets
<1>3. Once(t, key) /\ OnlyLine(t, key) = w /\ Cardinality(Found(t, key)) = 1
  BY OnceHas
<1>4. Setting(t, cur_res) = {}
  BY <1>2 DEF Setting
<1>5. HoldsDesk(t, cur_res)
  <2>1. 4 + 2 = 6 /\ 4 + 3 = 7
    OBVIOUS
  <2> QED
    BY <1>3, <2>1 DEF HoldsDesk, TellsMode
<1> HIDE DEF key
<1>6. Holds(t)
  BY <1>1, <1>3, <1>4, <1>5 DEF Holds, HoldsMode
<1>7. WellFormed(t) /\ ~Shorter(t)
  BY <1>1, <1>2, <1>3 DEF WellFormed, Fields8, Overwritten, Shorter, key
<1> QED
  BY <1>6, <1>7 DEF Good

FieldsOf(E) ==
    <<Len(E), E[3][2] \div 16,
      [i \in (2 .. Len(E)) \ {3} |-> IF i - 1 \in Fields THEN NL ELSE E[i]]>>

LEMMA DeskKept ==
    ASSUME NEW t, NEW b, NEW v, NEW w, NEW a, NEW c, ~Text(NoFile), Desk,
           Parts(t, Word("#E"), v, a, c), Parts(b, Word("#E"), w, a, c),
           FieldsOf(v) = FieldsOf(w)
    PROVE  Keeps(t, b)
<1> DEFINE key == Word("#E")
<1>1. Keys = {key}
  BY DEF Desk, Keys, DeskTargets
<1> HIDE DEF key
<1>2. ASSUME NEW x, NEW y, Parts(x, key, y, a, c)
      PROVE  /\ Text(x) /\ OnlyLine(x, key) = y
             /\ SameBut(x, a \o c, Keys)
  <2>1. Text(x) /\ Has(x, key, y)
    BY <1>2, PartsHas
  <2>2. /\ Whole(a) /\ Line(y) /\ Text(c)
        /\ x = a \o (y \o c) /\ y[1] \in Keys
    BY <1>1, <1>2 DEF Parts
  <2>3. SameBut(x, a \o c, Keys)
    BY <2>2, LineAside
  <2> QED
    BY <2>1, <2>3, OnceHas
<1>3. /\ Text(t) /\ OnlyLine(t, key) = v /\ SameBut(t, a \o c, Keys)
      /\ Text(b) /\ OnlyLine(b, key) = w /\ SameBut(b, a \o c, Keys)
  BY <1>2 DEF key
<1>4. OtherFields(t) = FieldsOf(v) /\ OtherFields(b) = FieldsOf(w)
  BY <1>3 DEF OtherFields, FieldsOf, key
<1>5. Others(t) = Others(b)
  BY <1>3 DEF SameBut, Others
<1>6. t # NoFile /\ b # NoFile
  BY <1>3
<1> QED
  BY <1>4, <1>5, <1>6 DEF Keeps, OthersOf

LEMMA DeskFits ==
    ASSUME NEW b, NEW emutos, NEW eoffset, ~Text(NoFile), Desk,
           Text(b), WellFormed(b), IsMode(cur_res),
           emutos <=> Target = "emutos",
           Target = "emutos" => eoffset = 3, Target # "emutos" => eoffset = 5
    PROVE  /\ save_desk_inf_base(b, emutos, eoffset) # {}
           /\ \A p \in save_desk_inf_base(b, emutos, eoffset) : Fits(p, b)
<1> DEFINE key == Word("#E")
           w == OnlyLine(b, key)
           line == find_line(b, key)
           Plan(text) == [create |-> TRUE, checked |-> FALSE, chunks |-> <<text>>]
<1>1. Keys = {key} /\ Target # "magic"
  BY DEF Desk, Keys, DeskTargets
<1>2. Has(b, key, w) /\ Fields8(w)
  BY <1>1, OnceHas DEF WellFormed, Fields8
<1> HIDE DEF w
<1>3. PICK a, c : Parts(b, key, w, a, c)
  BY <1>2, Cut
<1>4. /\ Len(a) \in Nat /\ Len(w) \in Nat \ {0} /\ Len(c) \in Nat \ {0}
      /\ line = [p |-> Len(a) + 1, linesize |-> Len(w), remain |-> Len(c)]
  BY <1>3, PartsFind
<1> HIDE DEF line
<1>5. ASSUME NEW t, NEW v, Parts(t, key, v, a, c), Fields8(v), TellsMode(v),
             FieldsOf(v) = FieldsOf(w)
      PROVE  Fits(Plan(t), b)
  <2>1. Text(t) /\ Has(t, key, v)
    BY <1>5, PartsHas
  <2>2. t # NoFile
    BY <2>1
  <2>3. Good(t)
    BY <1>5, <2>1, <2>2, DeskGood
  <2>9. Keeps(t, b)
    BY <1>3, <1>5, DeskKept
  <2> DEFINE s == <<t>>
             p == [create |-> TRUE, checked |-> FALSE, chunks |-> s]
  <2>4. s \in Seq({t}) /\ Len(s) = 1 /\ s[1] = t
    OBVIOUS
  <2> HIDE DEF s
  <2>5. Text(s)
    BY <2>4 DEF Text
  <2>6. Pieces(s) /\ Rest(s) = t
    BY <2>1, <2>4, <2>5, OnePiece
  <2>7. IsPlan(p) /\ p.create /\ p.chunks = s
    BY <2>6 DEF IsPlan
  <2> HIDE DEF p
  <2>10. Written(p, b) = t
    <3>1. Put(<<>>, 0, t) = t
      BY <2>1, PutFirst
    <3> QED
      BY <2>6, <2>7, <3>1 DEF Written
  <2>8. Fits(p, b)
    BY <2>3, <2>7, <2>9, <2>10 DEF Fits
  <2> QED
    BY <2>8 DEF p, s
<1> HIDE DEF Plan
<1>6. \A x : Num(x) # NL /\ Num(x)[2] = x
  BY DEF Num, NL
<1>7. /\ Len(w) >= 8 /\ \A i \in 2 .. Len(w) - 1 : w[i][2] \in Nat
      /\ cur_res.vmode \in Nat /\ (cur_res.vmode = 0 => cur_res.rez \in 2 .. 17)
  BY <1>2 DEF Fields8, IsMode
<1>8. CASE cur_res.vmode = 0 /\ ~emutos
  <2> DEFINE x == Num(RezDigit(b[line.p + 2][2]))
             t == [b EXCEPT ![line.p + 2] = x]
             v == [w EXCEPT ![3] = x]
  <2>1. line.p + 2 = Len(a) + 3 /\ line.linesize >= 3 /\ line.remain # 0
    BY <1>4, <1>7
  <2>2. b[Len(a) + 3] = w[3] /\ w[3][2] \in Nat /\ 3 \in 2 .. Len(w) - 1
    <3>1. 3 \in 1 .. Len(w) /\ 3 \in 2 .. Len(w) - 1
      BY <1>4, <1>7
    <3> QED
      BY <1>3, <1>7, <3>1, PartsHas
  <2>3. RezDigit(w[3][2]) \in Nat /\ RezDigit(w[3][2]) % 16 = cur_res.rez - 2
    <3>1. PICK d \in Nat : w[3][2] \div 16 = d
      BY <2>2
    <3>2. (cur_res.rez - 2) % 16 = cur_res.rez - 2 /\ cur_res.rez - 2 \in 0 .. 15
      BY <1>7, <1>8
    <3>3. RezDigit(w[3][2]) = d * 16 + (cur_res.rez - 2)
      BY <3>1, <3>2 DEF RezDigit
    <3>4. \A e \in 0 .. 15 : d * 16 + e \in Nat /\ (d * 16 + e) % 16 = e
      BY <3>1
    <3> QED
      BY <3>2, <3>3, <3>4
  <2>4. x = Num(RezDigit(w[3][2]))
    BY <2>1, <2>2
  <2>5. save_desk_inf_base(b, emutos, eoffset) = {Plan(t)}
    BY <1>8, <2>1 DEF save_desk_inf_base, Plan, line
  <2> HIDE DEF x
  <2>6. Parts(t, key, v, a, c) /\ Changed(v, w, 3, x)
    <3>1. x # NL
      BY <1>6, <2>4
    <3> QED
      BY <1>3, <2>1, <2>2, <3>1, PutToken
  <2> HIDE DEF t, v
  <2>7. Fields8(v)
    BY <1>4, <1>6, <1>7, <2>3, <2>4, <2>6 DEF Fields8, Changed
  <2>9. FieldsOf(v) = FieldsOf(w)
    <3>1. /\ Len(v) = Len(w) /\ 3 \in 1 .. Len(w) /\ v[3] = x
          /\ \A i \in (2 .. Len(w)) \ {3} : v[i] = w[i]
      BY <1>4, <1>7, <2>6 DEF Changed
    <3>2. v[3][2] \div 16 = w[3][2] \div 16
      <4>1. PICK d \in Nat : w[3][2] \div 16 = d
        BY <2>2
      <4>2. (cur_res.rez - 2) % 16 \in 0 .. 15
        BY <1>7, <1>8
      <4>3. RezDigit(w[3][2]) = d * 16 + ((cur_res.rez - 2) % 16)
        BY <4>1 DEF RezDigit
      <4>4. \A e \in 0 .. 15 : (d * 16 + e) \div 16 = d
        BY <4>1
      <4>5. v[3][2] = RezDigit(w[3][2])
        BY <1>6, <2>4, <3>1
      <4> QED
        BY <4>1, <4>2, <4>3, <4>4, <4>5
    <3> QED
      BY <3>1, <3>2 DEF FieldsOf
  <2>8. TellsMode(v)
    <3>1. v[3] = x
      BY <1>4, <1>7, <2>6 DEF Changed
    <3> QED
      BY <1>6, <1>8, <2>3, <2>4, <3>1 DEF TellsMode
  <2> QED
    BY <1>5, <2>5, <2>6, <2>7, <2>8, <2>9
<1>9. CASE ~(cur_res.vmode = 0 /\ ~emutos)
  <2> DEFINE m == IF cur_res.vmode = 0 THEN 255 ELSE cur_res.vmode \div 256
             n == IF cur_res.vmode = 0 THEN cur_res.rez - 2
                  ELSE cur_res.vmode % 256
             x == Num(m)
             y == Num(n)
             t1 == [b EXCEPT ![line.p + eoffset] = x]
             t == [t1 EXCEPT ![line.p + eoffset + 1] = y]
             v1 == [w EXCEPT ![eoffset + 1] = x]
             v == [v1 EXCEPT ![eoffset + 2] = y]
  <2>1. m \in Nat /\ n \in Nat
    <3>1. cur_res.vmode \div 256 \in Nat /\ cur_res.vmode % 256 \in Nat
      BY <1>7
    <3>2. cur_res.vmode = 0 => cur_res.rez - 2 \in Nat
      BY <1>7
    <3> QED
      BY <3>1, <3>2
  <2>2. /\ line.p + eoffset = Len(a) + (eoffset + 1)
        /\ line.p + eoffset + 1 = Len(a) + (eoffset + 2)
        /\ line.linesize >= eoffset + 2 /\ line.remain # 0
        /\ eoffset + 1 \in 2 .. Len(w) - 1 /\ eoffset + 2 \in 2 .. Len(w) - 1
    BY <1>4, <1>7
  <2>3. save_desk_inf_base(b, emutos, eoffset) = {Plan(t)}
    <3>1. t = [b EXCEPT ![line.p + eoffset] = x, ![line.p + eoffset + 1] = y]
      OBVIOUS
    <3> QED
      BY <1>9, <2>2, <3>1 DEF save_desk_inf_base, Plan, line
  <2>4. <<x, y>> = IF cur_res.vmode = 0
                   THEN <<Num(255), Num(cur_res.rez - 2)>>
                   ELSE <<Num(cur_res.vmode \div 256), Num(cur_res.vmode % 256)>>
    OBVIOUS
  <2>5. x # NL /\ y # NL /\ x[2] \in Nat /\ y[2] \in Nat
    BY <1>6, <2>1
  <2> HIDE DEF x, y, m, n
  <2>6. Parts(t1, key, v1, a, c) /\ Changed(v1, w, eoffset + 1, x)
    <3> DEFINE i == eoffset + 1
               j == line.p + eoffset
    <3>1. i \in 2 .. Len(w) - 1 /\ j = Len(a) + i
      BY <2>2
    <3> HIDE DEF i, j
    <3>2. /\ Parts([b EXCEPT ![j] = x], key, [w EXCEPT ![i] = x], a, c)
          /\ Changed([w EXCEPT ![i] = x], w, i, x)
      BY <1>3, <2>5, <3>1, PutToken
    <3> QED
      BY <3>2 DEF i, j
  <2> HIDE DEF t1, v1
  <2>7. Parts(t, key, v, a, c) /\ Changed(v, v1, eoffset + 2, y)
    <3> DEFINE i == eoffset + 2
               j == line.p + eoffset + 1
    <3>1. Len(v1) = Len(w)
      BY <2>6 DEF Changed
    <3>2. i \in 2 .. Len(v1) - 1 /\ j = Len(a) + i
      BY <2>2, <3>1
    <3> HIDE DEF i, j
    <3>3. /\ Parts([t1 EXCEPT ![j] = y], key, [v1 EXCEPT ![i] = y], a, c)
          /\ Changed([v1 EXCEPT ![i] = y], v1, i, y)
      BY <2>5, <2>6, <3>2, PutToken
    <3> QED
      BY <3>3 DEF i, j
  <2> HIDE DEF t, v
  <2>8. Fields8(v)
    <3> SUFFICES ASSUME NEW k \in 2 .. Len(w) - 1 PROVE v[k][2] \in Nat
      BY <1>7, <2>6, <2>7 DEF Fields8, Changed
    <3>1. k \in 1 .. Len(w)
      BY <1>4
    <3>2. v[k] = y \/ v[k] = x \/ v[k] = w[k]
      BY <2>6, <2>7, <3>1 DEF Changed
    <3> QED
      BY <1>7, <2>5, <3>2
  <2>9. v[eoffset + 1] = x /\ v[eoffset + 2] = y
    <3>1. eoffset + 1 \in 1 .. Len(w) /\ eoffset + 2 \in 1 .. Len(w)
      BY <1>4, <2>2
    <3>2. eoffset + 1 # eoffset + 2
      BY <2>2
    <3>3. v1[eoffset + 1] = x /\ v1[eoffset + 2] = w[eoffset + 2]
      BY <2>6, <3>1, <3>2 DEF Changed
    <3>4. v[eoffset + 2] = y /\ v[eoffset + 1] = v1[eoffset + 1]
      BY <2>7, <2>6, <3>1, <3>2 DEF Changed
    <3> QED
      BY <3>3, <3>4
  <2>11. FieldsOf(v) = FieldsOf(w)
    <3>1. Len(v) = Len(w) /\ 3 \in 1 .. Len(w)
      BY <1>4, <1>7, <2>6, <2>7 DEF Changed
    <3>2. \A i \in 1 .. Len(w) : i \notin {eoffset + 1, eoffset + 2} => v[i] = w[i]
      BY <2>6, <2>7 DEF Changed
    <3>3. Fields = {eoffset, eoffset + 1} /\ eoffset \in {3, 5}
      BY DEF Fields
    <3>4. v[3] = w[3]
      BY <3>1, <3>2, <3>3
    <3>5. \A i \in (2 .. Len(w)) \ {3} : i - 1 \notin Fields => v[i] = w[i]
      BY <1>4, <3>2, <3>3
    <3> QED
      BY <3>1, <3>4, <3>5 DEF FieldsOf
  <2>10. TellsMode(v)
    <3>1. CASE Target = "emutos"
      <4>1. v[4] = x /\ v[5] = y
        BY <2>9, <3>1
      <4> QED
        BY <2>4, <3>1, <4>1 DEF TellsMode
    <3>2. CASE Target # "emutos"
      <4>1. v[6] = x /\ v[7] = y /\ cur_res.vmode # 0
        BY <1>9, <2>9, <3>2
      <4> QED
        BY <2>4, <3>2, <4>1 DEF TellsMode
    <3> QED
      BY <3>1, <3>2
  <2> QED
    BY <1>5, <2>3, <2>7, <2>8, <2>10, <2>11
<1> QED
  BY <1>8, <1>9

--------------------------------------------------------------------------------
(* XaAES and MyAES: the lines of the mode are taken out wherever they are, and
   the new ones are put where the last of them was. *)
LEMMA EndsFreeIs ==
    ASSUME NEW b, Text(b)
    PROVE  /\ EndsFree(b) => \E z : EndsIn(b, z) /\ Free(z, Keys) /\ Len(z) >= Room
           /\ \A z : EndsIn(b, z) /\ Free(z, Keys) /\ Len(z) >= Room => EndsFree(b)
<1>1. Len(b) \in Nat /\ Room \in Nat \ {0}
  BY TextLen, SaveAssumption
<1>2. ASSUME EndsFree(b)
      PROVE  \E z : EndsIn(b, z) /\ Free(z, Keys) /\ Len(z) >= Room
  <2>1. PICK i \in Starts(b) : /\ Len(b) - i + 1 >= Room
                               /\ \A j \in i .. Len(b) : b[j] \notin Keys
    BY <1>2 DEF EndsFree
  <2>2. i \in 1 .. Len(b) /\ (i = 1 \/ b[i - 1] = NL) /\ b[Len(b)] = NL
    BY <1>2, <2>1 DEF Starts, EndsFree
  <2> DEFINE x == SubSeq(b, 1, i - 1)
             z == SubSeq(b, i, Len(b))
  <2>3. i - 1 \in 0 .. Len(b) /\ i - 1 \in Nat /\ i - 1 <= Len(b) /\ (i - 1) + 1 = i
    BY <1>1, <2>2
  <2>4. b = x \o z
    BY <2>3, JoinCut
  <2>5. Text(x) /\ Len(x) = i - 1 /\ \A j \in 1 .. i - 1 : x[j] = b[j]
    <3>1. Text(x) /\ Len(x) = i - 1
      BY <2>3, TextPrefix
    <3>2. \A j \in 1 .. (i - 1) - 1 + 1 : x[j] = b[1 + j - 1]
      BY <2>3, TextSub
    <3> HIDE DEF x
    <3> QED
      BY <2>2, <3>1, <3>2
  <2>6. /\ Text(z) /\ Len(z) = Len(b) - i + 1
        /\ \A j \in 1 .. Len(z) : z[j] = b[i + j - 1]
    <3>1. /\ Text(z) /\ Len(z) = IF i <= Len(b) THEN Len(b) - i + 1 ELSE 0
          /\ \A j \in 1 .. Len(b) - i + 1 : z[j] = b[i + j - 1]
      BY <1>1, <2>2, TextSub
    <3> HIDE DEF z
    <3> QED
      BY <1>1, <2>2, <3>1
  <2> HIDE DEF x, z
  <2>7. Whole(x)
    <3>1. CASE i = 1
      BY <2>5, <3>1, TextLen DEF Whole
    <3>2. CASE i # 1
      <4>1. i - 1 \in 1 .. i - 1
        BY <2>2, <3>2
      <4> QED
        BY <2>2, <2>5, <3>2, <4>1 DEF Whole
    <3> QED
      BY <3>1, <3>2
  <2>8. Free(z, Keys)
    <3>1. Len(z) \in 1 .. Len(z) /\ i + Len(z) - 1 = Len(b)
      BY <1>1, <2>2, <2>6
    <3>2. Whole(z)
      BY <2>2, <2>6, <3>1 DEF Whole
    <3>3. \A j \in 1 .. Len(z) : z[j] \notin Keys
      <4> TAKE j \in 1 .. Len(z)
      <4>1. i + j - 1 \in i .. Len(b)
        BY <1>1, <2>2, <2>6
      <4> QED
        BY <2>1, <2>6, <4>1
    <3> QED
      BY <3>2, <3>3 DEF Free
  <2> QED
    BY <2>1, <2>4, <2>6, <2>7, <2>8 DEF EndsIn
<1>3. ASSUME NEW z, EndsIn(b, z), Free(z, Keys), Len(z) >= Room
      PROVE  EndsFree(b)
  <2>1. PICK x : Whole(x) /\ b = x \o z
    BY <1>3 DEF EndsIn
  <2>2. /\ Text(x) /\ Text(z) /\ Len(x) \in Nat /\ Len(z) \in Nat \ {0}
        /\ z[Len(z)] = NL /\ (x = <<>> \/ x[Len(x)] = NL)
        /\ \A j \in 1 .. Len(z) : z[j] \notin Keys
    <3>1. Text(x) /\ Text(z) /\ Len(x) \in Nat /\ Len(z) \in Nat
      BY <1>3, <2>1, TextLen DEF Free, Whole
    <3>2. Len(z) # 0
      BY <1>1, <1>3, <3>1
    <3>3. z # <<>>
      BY <3>1, <3>2, TextLen
    <3> QED
      BY <1>3, <2>1, <3>1, <3>2, <3>3 DEF Free, Whole
  <2>3. /\ Len(b) = Len(x) + Len(z)
        /\ \A j \in 1 .. Len(x) : b[j] = x[j]
        /\ \A j \in 1 .. Len(z) : b[Len(x) + j] = z[j]
    BY <2>1, <2>2, TextJoin
  <2> DEFINE i == Len(x) + 1
  <2>4. i \in Starts(b)
    <3>1. i \in 1 .. Len(b)
      BY <2>2, <2>3
    <3>2. i = 1 \/ b[i - 1] = NL
      <4>1. CASE x = <<>>
        BY <2>2, <4>1, TextLen
      <4>2. CASE x # <<>>
        <5>1. Len(x) \in 1 .. Len(x) /\ i - 1 = Len(x)
          BY <2>2, <4>2, TextLen
        <5> QED
          BY <2>2, <2>3, <4>2, <5>1
      <4> QED
        BY <4>1, <4>2
    <3> QED
      BY <3>1, <3>2 DEF Starts
  <2>5. b[Len(b)] = NL
    <3>1. Len(z) \in 1 .. Len(z)
      BY <2>2
    <3> QED
      BY <2>2, <2>3, <3>1
  <2>6. Len(b) - i + 1 >= Room
    BY <1>1, <1>3, <2>2, <2>3
  <2>7. \A j \in i .. Len(b) : b[j] \notin Keys
    <3> TAKE j \in i .. Len(b)
    <3>1. j - Len(x) \in 1 .. Len(z) /\ Len(x) + (j - Len(x)) = j
      BY <2>2, <2>3
    <3>2. b[Len(x) + (j - Len(x))] = z[j - Len(x)]
      BY <2>3, <3>1
    <3> QED
      BY <2>2, <3>1, <3>2
  <2> HIDE DEF i
  <2> QED
    BY <2>4, <2>5, <2>6, <2>7 DEF EndsFree
<1> QED
  BY <1>2, <1>3

LEMMA KeyedGood ==
    ASSUME NEW t, t # NoFile, Text(t), Target \in {"xaaes", "myaes"},
           \A key \in Keys : \E w :
              /\ Has(t, key, w)
              /\ \A s \in Setting(t, cur_res) : s[1] = key => IsPrefix(s, w),
           \A s \in Setting(t, cur_res) : s[1] \in Keys,
           RoomIn(t) = TextLength, TextLength \in Nat, TextLength <= Room,
           EndsFree(t)
    PROVE  Good(t)
<1>1. ~Desk /\ Target \notin {"geneva", "fvdi"}
  BY DEF Desk, DeskTargets
<1>2. ASSUME NEW key \in Keys
      PROVE  /\ Once(t, key) /\ Cardinality(Found(t, key)) = 1
             /\ \A s \in Setting(t, cur_res) :
                   s[1] = key => IsPrefix(s, OnlyLine(t, key))
  <2>1. PICK w : /\ Has(t, key, w)
                 /\ \A s \in Setting(t, cur_res) : s[1] = key => IsPrefix(s, w)
    OBVIOUS
  <2>3. Once(t, key) /\ OnlyLine(t, key) = w /\ Cardinality(Found(t, key)) = 1
    BY <2>1, OnceHas
  <2> QED
    BY <2>1, <2>3
<1>3. Holds(t)
  BY <1>1, <1>2 DEF Holds, HoldsMode
<1>4. WellFormed(t)
  BY <1>1, <1>2 DEF WellFormed
<1>5. ~Shorter(t)
  BY DEF Shorter
<1> QED
  BY <1>3, <1>4, <1>5 DEF Good

(* d is what follows the new lines in the file, from the rest c of the old one
   and what a shorter text leaves behind; n tokens were replaced *)
Follows(d, b, a, new, c, n) ==
    /\ Put(b, 0, a \o (new \o c)) = a \o (new \o d)
    /\ Text(d) /\ d # <<>>
    /\ \A key \in Keys : None(a \o d, key)
    /\ LinesBut(b, Keys) \subseteq LinesBut(a \o d, Keys)
    /\ Len(new) >= n => SameBut(a \o d, b, Keys)
    /\ Text(a \o (new \o d)) => EndsFree(a \o (new \o d))

Followed(b, a, new, c, n) == \E d : Follows(d, b, a, new, c, n)

(* The new text replaces n tokens of the file in front of an end without keys:
   what it leaves behind is of that end. *)
LEMMA TailFits ==
    ASSUME NEW b, NEW a, NEW new, NEW c, NEW z, NEW n \in Nat,
           Text(b), Whole(a), Whole(new), Text(c), c # <<>>,
           EndsIn(b, z), EndsIn(c, z), Free(z, Keys), Len(z) >= Room,
           n <= Room, Len(b) = n + Len(a \o c),
           \A key \in Keys : None(a \o c, key), SameBut(b, a \o c, Keys)
    PROVE  Followed(b, a, new, c, n)
<1>1. /\ Text(a) /\ Text(new) /\ Text(z) /\ Whole(z)
      /\ Len(a) \in Nat /\ Len(new) \in Nat /\ Len(c) \in Nat \ {0}
      /\ Len(z) \in Nat /\ Len(b) \in Nat /\ Room \in Nat
  BY TextLen, SaveAssumption DEF Whole, Free
<1> DEFINE e == new \o c
           r == a \o e
<1>2. /\ Text(a \o c) /\ Len(a \o c) = Len(a) + Len(c)
      /\ Text(e) /\ Len(e) = Len(new) + Len(c)
  BY <1>1, TextJoin
<1> HIDE DEF e
<1>3. Text(r) /\ Len(r) = Len(a) + Len(e)
  BY <1>1, <1>2, TextJoin
<1> DEFINE tail == SubSeq(b, Len(r) + 1, Len(b))
           d == c \o tail
<1>4. Put(b, 0, r) = r \o tail
  <2> HIDE DEF r
  <2> QED
    BY <1>3, PutFirst
<1> HIDE DEF r
<1>5. Free(tail, Keys) /\ (tail = <<>> <=> Len(b) <= Len(r))
  <2>1. Len(r) \in Nat /\ Len(b) - Len(r) <= Len(z)
    BY <1>1, <1>2, <1>3
  <2> QED
    BY <2>1, FreeTail
<1> HIDE DEF tail
<1>6. Text(tail) /\ Whole(tail) /\ Len(tail) \in Nat
  BY <1>5, TextLen DEF Free, Whole
<1>7. r \o tail = a \o (new \o d)
  <2>1. Associate(a, e, tail) /\ Associate(new, c, tail)
    BY <1>1, <1>2, <1>6, JoinAssociative
  <2> QED
    BY <2>1 DEF Associate, r, e
<1>8. Text(d) /\ d # <<>>
  <2>1. Text(d) /\ Len(d) = Len(c) + Len(tail)
    BY <1>6, TextJoin
  <2>2. Len(d) # 0
    BY <1>1, <1>6, <2>1
  <2> HIDE DEF d
  <2> QED
    BY <2>1, <2>2, TextLen
<1>9. a \o d = (a \o c) \o tail
  <2>1. Associate(a, c, tail)
    BY <1>1, <1>6, JoinAssociative
  <2> QED
    BY <2>1 DEF Associate
<1>10. Whole(a \o c)
  <2>1. Whole(c)
    BY <1>1, EndsWhole
  <2> QED
    BY <2>1, WholeJoin
<1>11. \A key \in Keys : None(a \o d, key)
  <2> TAKE key \in Keys
  <2>1. None(a \o c, key) /\ None(tail, key)
    BY <1>5, FreeNone
  <2>2. None((a \o c) \o tail, key)
    BY <1>6, <1>10, <2>1, JoinNone
  <2> QED
    BY <1>9, <2>2
<1>12. LinesBut(a \o c, Keys) \subseteq LinesBut(a \o d, Keys)
  <2>1. LinesBut(a \o c, Keys) \subseteq LinesBut((a \o c) \o tail, Keys)
    BY <1>6, <1>10, TailAdds
  <2> QED
    BY <1>9, <2>1
<1>13. ASSUME Len(new) >= n PROVE SameBut(a \o d, b, Keys)
  <2>1. Len(b) <= Len(r)
    BY <1>1, <1>2, <1>3, <1>13
  <2>2. tail = <<>>
    BY <1>5, <2>1
  <2>3. a \o d = a \o c
    BY <2>2, JoinEmpty
  <2> QED
    BY <2>3 DEF SameBut
<1>14. ASSUME Text(a \o (new \o d)) PROVE EndsFree(a \o (new \o d))
  <2> DEFINE u == new \o d
             y == z \o tail
  <2>1. EndsIn(d, y)
    BY <1>1, <1>6, EndsMore
  <2>2. Free(y, Keys) /\ Len(y) = Len(z) + Len(tail)
    BY <1>5, FreeJoin
  <2> HIDE DEF d, y
  <2>3. Text(y)
    BY <2>2 DEF Free, Whole
  <2>4. EndsIn(u, y)
    BY <2>1, <2>3, EndsJoin
  <2> HIDE DEF u
  <2>5. EndsIn(a \o u, y)
    BY <2>3, <2>4, EndsJoin
  <2>6. Len(y) >= Room
    BY <1>1, <1>6, <2>2
  <2>7. Text(a \o u)
    BY <1>14 DEF u
  <2>8. EndsFree(a \o u)
    BY <2>2, <2>5, <2>6, <2>7, EndsFreeIs
  <2> QED
    BY <2>8 DEF u
<1>15. LinesBut(b, Keys) \subseteq LinesBut(a \o d, Keys)
  BY <1>12 DEF SameBut
<1> HIDE DEF d
<1>16. Put(b, 0, r) = a \o (new \o d)
  BY <1>4, <1>7
<1>17. Put(b, 0, a \o (new \o c)) = a \o (new \o d)
  BY <1>16 DEF r, e
<1>18. Follows(d, b, a, new, c, n)
  BY <1>8, <1>11, <1>13, <1>14, <1>15, <1>17 DEF Follows
<1> QED
  BY <1>18 DEF Followed

LEMMA OverwriteFits ==
    ASSUME NEW a, NEW new, NEW c, NEW b, NEW text, NEW t,
           Text(a), Text(new), Text(c),
           Before(text, Len(a) + 1) = a, From(text, Len(a) + 1) = c,
           Put(b, 0, a \o (new \o c)) = t, Good(t), Keeps(t, b),
           NEW r, r.buf = text, r.at = Len(a) + 1
    PROVE  /\ Overwrite(b, r, new) # {}
           /\ \A p \in Overwrite(b, r, new) : Fits(p, b)
<1> DEFINE s == <<a, new, c>>
           p == [create |-> FALSE, checked |-> TRUE, chunks |-> s]
<1>1. s \in Seq({a, new, c}) /\ Len(s) = 3 /\ s[1] = a /\ s[2] = new /\ s[3] = c
  OBVIOUS
<1>2. Len(a) \in Nat /\ r.at # 0
  BY TextLen
<1>3. Overwrite(b, r, new) = {p}
  BY <1>2 DEF Overwrite
<1> HIDE DEF s
<1>4. Text(s)
  BY <1>1 DEF Text
<1>5. Pieces(s) /\ Rest(s) = a \o (new \o c)
  BY <1>1, <1>4, ThreePieces
<1>6. IsPlan(p) /\ p.chunks = s /\ ~p.create
  BY <1>5 DEF IsPlan
<1> HIDE DEF p
<1>8. Written(p, b) = t
  BY <1>5, <1>6 DEF Written
<1>7. Fits(p, b)
  BY <1>6, <1>8 DEF Fits
<1> QED
  BY <1>3, <1>7

Removed(s, key, w, r) ==
    \E a, c : /\ Without(s.buf, key, w, a, c)
              /\ r.buf = a \o c /\ r.at = Len(a) + 1

LEMMA RemoveNextOnce ==
    ASSUME NEW s, NEW key, NEW w, Text(s.buf), Has(s.buf, key, w)
    PROVE  Removed(s, key, w, RemoveNext(s, key))
<1> DEFINE b == s.buf
<1>1. PICK a, c : /\ Without(b, key, w, a, c)
                  /\ remove_line(b, key) = [buf |-> a \o c, at |-> Len(a) + 1]
  BY RemoveOnce
<1>2. Len(a) \in Nat
  BY <1>1, TextLen DEF Without, Whole
<1>3. RemoveNext(s, key) = [buf |-> a \o c, at |-> Len(a) + 1]
  BY <1>1, <1>2 DEF RemoveNext
<1> QED
  BY <1>1, <1>3 DEF Removed

(* the end without keys is still there *)
LEMMA WithoutEnds ==
    ASSUME NEW b, NEW key \in Keys, NEW w, NEW a, NEW c, NEW z,
           Without(b, key, w, a, c), Free(z, Keys), EndsIn(b, z)
    PROVE  EndsIn(c, z) /\ EndsIn(a \o c, z)
<1>1. /\ Whole(a) /\ Line(w) /\ Text(c) /\ w[1] \in Keys
      /\ b = a \o (w \o c) /\ Text(z)
  BY DEF Without, Free, Whole
<1>2. EndsIn(a \o (w \o c), z)
  BY <1>1
<1>3. EndsIn(c, z)
  BY <1>1, <1>2, LineEndsIn
<1> QED
  BY <1>1, <1>3, EndsJoin

LEMMA KeyedWellFormed ==
    ASSUME NEW b, Target \in {"xaaes", "myaes"}, Text(b), WellFormed(b)
    PROVE  /\ \A key \in Keys : Has(b, key, OnlyLine(b, key))
           /\ RoomIn(b) <= Room
           /\ \E z : EndsIn(b, z) /\ Free(z, Keys) /\ Len(z) >= Room
<1>1. /\ \A key \in Keys : Once(b, key)
      /\ RoomIn(b) <= Room /\ EndsFree(b)
  BY DEF WellFormed, Overwritten
<1> QED
  BY <1>1, OnceHas, EndsFreeIs

LEMMA XaaesFits ==
    ASSUME NEW b, ~Text(NoFile), Target = "xaaes", Text(b), WellFormed(b),
           cur_res \in Chosen
    PROVE  save_xaaes_inf(b) # {} /\ \A p \in save_xaaes_inf(b) : Fits(p, b)
<1> DEFINE k1 == Word("SCREENDEV")
           k2 == Word("MODECODE")
           n1 == Decimal(cur_res.rez)
           n2 == <<Num(cur_res.vmode)>>
           s1 == <<k1>> \o n1
           s2 == <<k2>> \o n2
           v1 == EntryOf(k1, n1)
           v2 == EntryOf(k2, n2)
           one == RemoveNext(Loaded(b), k1)
           two == RemoveNext(one, k2)
<1>1. Keys = {k1, k2} /\ ~Desk /\ Overwritten
  BY DEF Keys, Desk, DeskTargets, Overwritten
<1>2. \A t : Setting(t, cur_res) = {s1, s2}
  BY DEF Setting
<1>3. XaaesText(cur_res) = v1 \o v2
  BY DEF XaaesText, Entry, EntryOf
<1>4. save_xaaes_inf(b) = Overwrite(b, two, v1 \o v2)
  BY <1>3 DEF save_xaaes_inf
<1>5. k1 # k2 /\ k1 # NL /\ k2 # NL /\ Value(n1) /\ Value(n2)
  BY Tokens, DecimalValue, NumValue
<1>6. Loaded(b).buf = b
  BY DEF Loaded
<1>7. TextLength = Len(v1 \o v2) /\ Len(v1 \o v2) <= Room
  BY <1>3, SaveAssumption DEF TextLength
<1>8. \A t : RoomIn(t) = Len(OnlyLine(t, k1)) + Len(OnlyLine(t, k2))
  BY DEF RoomIn
<1> HIDE DEF k1, k2, n1, n2
<1>9. /\ Line(v1) /\ Line(v2) /\ v1[1] = k1 /\ v2[1] = k2
      /\ IsPrefix(s1, v1) /\ IsPrefix(s2, v2) /\ s1[1] = k1 /\ s2[1] = k2
  BY <1>5, LineOfEntry
<1> HIDE DEF v1, v2, s1, s2
<1> DEFINE w1 == OnlyLine(b, k1)
           w2 == OnlyLine(b, k2)
<1>10. Has(b, k1, w1) /\ Has(b, k2, w2) /\ Len(w1) + Len(w2) <= Room
  BY <1>1, <1>8, KeyedWellFormed
<1>11. PICK z : EndsIn(b, z) /\ Free(z, Keys) /\ Len(z) >= Room
  BY KeyedWellFormed
<1> HIDE DEF w1, w2
<1>12. PICK a1, c1 : /\ Without(b, k1, w1, a1, c1)
                     /\ one.buf = a1 \o c1
  <2>1. Removed(Loaded(b), k1, w1, one)
    BY <1>6, <1>10, RemoveNextOnce
  <2> HIDE DEF one
  <2> QED
    BY <1>6, <2>1 DEF Removed
<1>13. EndsIn(a1 \o c1, z)
  BY <1>1, <1>11, <1>12, WithoutEnds
<1> DEFINE b1 == a1 \o c1
<1> HIDE DEF one
<1>14. /\ one.buf = b1 /\ Text(b1) /\ Len(b) = Len(w1) + Len(b1)
       /\ Len(w1) \in Nat /\ None(b1, k1) /\ Has(b1, k2, w2)
       /\ SameBut(b, b1, Keys)
  BY <1>1, <1>5, <1>10, <1>12 DEF Without
<1> HIDE DEF b1
<1>15. PICK a, c : /\ Without(b1, k2, w2, a, c)
                   /\ two.buf = a \o c /\ two.at = Len(a) + 1
  <2>1. Removed(one, k2, w2, two)
    BY <1>14, RemoveNextOnce
  <2> HIDE DEF two
  <2> QED
    BY <1>14, <2>1 DEF Removed
<1>16. EndsIn(c, z)
  BY <1>1, <1>11, <1>13, <1>15, WithoutEnds DEF b1
<1>17. /\ Whole(a) /\ Text(a) /\ Text(c) /\ c # <<>> /\ Len(a \o c) \in Nat
       /\ Len(w2) \in Nat /\ Len(b1) = Len(w2) + Len(a \o c)
       /\ Before(a \o c, Len(a) + 1) = a /\ From(a \o c, Len(a) + 1) = c
       /\ None(a \o c, k1) /\ None(a \o c, k2)
       /\ SameBut(b1, a \o c, Keys)
  BY <1>1, <1>5, <1>14, <1>15 DEF Without, Whole
<1> DEFINE new == v1 \o v2
<1>18. /\ Text(new) /\ Whole(new) /\ Len(new) = Len(v1) + Len(v2)
       /\ Len(new) \in Nat
  <2>1. Whole(v1) /\ Whole(v2) /\ Text(v1) /\ Text(v2)
    BY <1>9, LineHas DEF Line
  <2> QED
    BY <2>1, WholeJoin, TextJoin, TextLen
<1>19. PICK d : /\ Put(b, 0, a \o (new \o c)) = a \o (new \o d)
                /\ Text(d) /\ d # <<>>
                /\ \A key \in Keys : None(a \o d, key)
                /\ LinesBut(b, Keys) \subseteq LinesBut(a \o d, Keys)
                /\ Len(new) >= Len(w1) + Len(w2) => SameBut(a \o d, b, Keys)
                /\ Text(a \o (new \o d)) => EndsFree(a \o (new \o d))
  <2> DEFINE n == Len(w1) + Len(w2)
  <2>1. n \in Nat /\ n <= Room
    BY <1>10, <1>14, <1>17
  <2>2. Len(b) = n + Len(a \o c)
    BY <1>14, <1>17
  <2> HIDE DEF n, new
  <2>3. SameBut(b, a \o c, Keys) /\ \A key \in Keys : None(a \o c, key)
    BY <1>1, <1>14, <1>17 DEF SameBut
  <2>4. Followed(b, a, new, c, n)
    BY <1>11, <1>16, <1>17, <1>18, <2>1, <2>2, <2>3, TailFits
  <2> QED
    BY <2>4 DEF n, Followed, Follows
<1> DEFINE t == a \o (new \o d)
<1>20. Text(t) /\ Has(t, k1, v1) /\ Has(t, k2, v2)
  <2>1. /\ Whole(a) /\ Line(v1) /\ Line(v2) /\ Text(d) /\ d # <<>>
        /\ v1[1] # v2[1] /\ None(a \o d, v1[1]) /\ None(a \o d, v2[1])
    BY <1>1, <1>5, <1>9, <1>17, <1>19
  <2>2. Text(t) /\ Has(t, v1[1], v1) /\ Has(t, v2[1], v2)
    BY <2>1, TwoLines
  <2> QED
    BY <1>9, <2>2
<1>21. SameBut(t, a \o d, Keys)
  <2>1. v1[1] \in Keys /\ v2[1] \in Keys
    BY <1>1, <1>9
  <2> QED
    BY <1>9, <1>17, <1>19, <2>1, TwoAside
<1>22. Put(b, 0, a \o (new \o c)) = t /\ EndsFree(t)
  BY <1>19, <1>20
<1> HIDE DEF t, new
<1>23. RoomIn(t) = TextLength /\ TextLength \in Nat /\ TextLength <= Room
  <2>1. OnlyLine(t, k1) = v1 /\ OnlyLine(t, k2) = v2
    BY <1>20, OnceHas
  <2> QED
    BY <1>7, <1>8, <1>18, <2>1 DEF new
<1>24. Good(t)
  <2>1. t # NoFile
    BY <1>20
  <2>2. \A s \in Setting(t, cur_res) :
           /\ s[1] \in Keys
           /\ s[1] = k1 => IsPrefix(s, v1)
           /\ s[1] = k2 => IsPrefix(s, v2)
    BY <1>1, <1>2, <1>5, <1>9
  <2> QED
    BY <1>1, <1>20, <1>22, <1>23, <2>1, <2>2, KeyedGood
<1>25. Keeps(t, b)
  <2>1. OthersOf(b) = LinesBut(b, Keys) /\ OthersOf(t) = LinesBut(t, Keys)
    BY <1>1, <1>20 DEF OthersOf, Others
  <2>2. OthersOf(b) \subseteq OthersOf(t)
    BY <1>19, <1>21, <2>1 DEF SameBut
  <2>3. CASE Len(new) >= Len(w1) + Len(w2)
    BY <1>19, <1>21, <2>1, <2>2, <2>3 DEF SameBut, Keeps
  <2>4. CASE ~(Len(new) >= Len(w1) + Len(w2))
    <3>1. RoomIn(b) = Len(w1) + Len(w2) /\ TextLength = Len(new)
      BY <1>7, <1>8 DEF w1, w2, new
    <3>2. b # NoFile /\ TextLength < RoomIn(b)
      BY <1>14, <1>17, <1>18, <2>4, <3>1
    <3> QED
      BY <1>1, <2>2, <3>2 DEF Shorter, Keeps
  <2> QED
    BY <2>3, <2>4
<1> HIDE DEF two
<1>26. /\ Overwrite(b, two, new) # {}
       /\ \A p \in Overwrite(b, two, new) : Fits(p, b)
  BY <1>15, <1>17, <1>18, <1>22, <1>24, <1>25, OverwriteFits
<1> QED
  BY <1>4, <1>26 DEF new, two

LEMMA MyaesFits ==
    ASSUME NEW b, ~Text(NoFile), Target = "myaes", Text(b), WellFormed(b),
           cur_res \in Chosen
    PROVE  save_myaes_inf(b) # {} /\ \A p \in save_myaes_inf(b) : Fits(p, b)
<1> DEFINE k1 == Word("vsetmode")
           k2 == Word("rezmode")
           k3 == Word("esetshift")
           n1 == Decimal(cur_res.vmode)
           n2 == Decimal(cur_res.rez - 2)
           n3 == Decimal(0)
           s1 == <<k1>> \o n1
           s2 == <<k2>> \o n2
           s3 == <<k3>> \o n3
           v1 == EntryOf(k1, n1)
           v2 == EntryOf(k2, n2)
           v3 == EntryOf(k3, n3)
           one == RemoveNext(Loaded(b), k1)
           two == RemoveNext(one, k2)
           three == RemoveNext(two, k3)
<1>1. Keys = {k1, k2, k3} /\ ~Desk /\ Overwritten
  BY DEF Keys, Desk, DeskTargets, Overwritten
<1>2. \A t : Setting(t, cur_res) = {s1, s2, s3}
  BY DEF Setting
<1>3. MyaesText(cur_res) = (v1 \o v2) \o v3
  BY DEF MyaesText, Entry, EntryOf
<1>4. save_myaes_inf(b) = Overwrite(b, three, (v1 \o v2) \o v3)
  BY <1>3 DEF save_myaes_inf
<1>5. /\ k1 # k2 /\ k1 # k3 /\ k2 # k3 /\ k1 # NL /\ k2 # NL /\ k3 # NL
      /\ Value(n1) /\ Value(n2) /\ Value(n3)
  BY Tokens, DecimalValue
<1>6. Loaded(b).buf = b
  BY DEF Loaded
<1>7. TextLength = Len((v1 \o v2) \o v3) /\ Len((v1 \o v2) \o v3) <= Room
  BY <1>3, SaveAssumption DEF TextLength
<1>8. \A t : RoomIn(t) = (Len(OnlyLine(t, k1)) + Len(OnlyLine(t, k2)))
                           + Len(OnlyLine(t, k3))
  BY DEF RoomIn
<1> HIDE DEF k1, k2, k3, n1, n2, n3
<1>9. /\ Line(v1) /\ Line(v2) /\ Line(v3)
      /\ v1[1] = k1 /\ v2[1] = k2 /\ v3[1] = k3
      /\ IsPrefix(s1, v1) /\ IsPrefix(s2, v2) /\ IsPrefix(s3, v3)
      /\ s1[1] = k1 /\ s2[1] = k2 /\ s3[1] = k3
  BY <1>5, LineOfEntry
<1> HIDE DEF v1, v2, v3, s1, s2, s3
<1> DEFINE w1 == OnlyLine(b, k1)
           w2 == OnlyLine(b, k2)
           w3 == OnlyLine(b, k3)
<1>10. /\ Has(b, k1, w1) /\ Has(b, k2, w2) /\ Has(b, k3, w3)
       /\ (Len(w1) + Len(w2)) + Len(w3) <= Room
  BY <1>1, <1>8, KeyedWellFormed
<1>11. PICK z : EndsIn(b, z) /\ Free(z, Keys) /\ Len(z) >= Room
  BY KeyedWellFormed
<1> HIDE DEF w1, w2, w3
<1>12. PICK a1, c1 : /\ Without(b, k1, w1, a1, c1)
                     /\ one.buf = a1 \o c1
  <2>1. Removed(Loaded(b), k1, w1, one)
    BY <1>6, <1>10, RemoveNextOnce
  <2> HIDE DEF one
  <2> QED
    BY <1>6, <2>1 DEF Removed
<1>13. EndsIn(a1 \o c1, z)
  BY <1>1, <1>11, <1>12, WithoutEnds
<1> DEFINE b1 == a1 \o c1
<1> HIDE DEF one
<1>14. /\ one.buf = b1 /\ Text(b1) /\ Len(b) = Len(w1) + Len(b1)
       /\ Len(w1) \in Nat /\ None(b1, k1) /\ Has(b1, k2, w2) /\ Has(b1, k3, w3)
       /\ SameBut(b, b1, Keys)
  BY <1>1, <1>5, <1>10, <1>12 DEF Without
<1> HIDE DEF b1
<1>27. PICK a2, c2 : /\ Without(b1, k2, w2, a2, c2)
                     /\ two.buf = a2 \o c2
  <2>1. Removed(one, k2, w2, two)
    BY <1>14, RemoveNextOnce
  <2> HIDE DEF two
  <2> QED
    BY <1>14, <2>1 DEF Removed
<1>28. EndsIn(a2 \o c2, z)
  BY <1>1, <1>11, <1>13, <1>27, WithoutEnds DEF b1
<1> DEFINE b2 == a2 \o c2
<1> HIDE DEF two
<1>29. /\ two.buf = b2 /\ Text(b2) /\ Len(b1) = Len(w2) + Len(b2)
       /\ Len(w2) \in Nat /\ None(b2, k1) /\ None(b2, k2) /\ Has(b2, k3, w3)
       /\ SameBut(b1, b2, Keys)
  BY <1>1, <1>5, <1>14, <1>27 DEF Without
<1> HIDE DEF b2
<1>15. PICK a, c : /\ Without(b2, k3, w3, a, c)
                   /\ three.buf = a \o c /\ three.at = Len(a) + 1
  <2>1. Removed(two, k3, w3, three)
    BY <1>29, RemoveNextOnce
  <2> HIDE DEF three
  <2> QED
    BY <1>29, <2>1 DEF Removed
<1>16. EndsIn(c, z)
  BY <1>1, <1>11, <1>15, <1>28, WithoutEnds DEF b2
<1>17. /\ Whole(a) /\ Text(a) /\ Text(c) /\ c # <<>> /\ Len(a \o c) \in Nat
       /\ Len(w3) \in Nat /\ Len(b2) = Len(w3) + Len(a \o c)
       /\ Before(a \o c, Len(a) + 1) = a /\ From(a \o c, Len(a) + 1) = c
       /\ None(a \o c, k1) /\ None(a \o c, k2) /\ None(a \o c, k3)
       /\ SameBut(b2, a \o c, Keys)
  BY <1>1, <1>5, <1>15, <1>29 DEF Without, Whole
<1> DEFINE new == (v1 \o v2) \o v3
<1>18. /\ Text(new) /\ Whole(new) /\ Len(new) = (Len(v1) + Len(v2)) + Len(v3)
       /\ Len(new) \in Nat
  <2> DEFINE x == v1 \o v2
  <2>1. /\ Whole(v1) /\ Whole(v2) /\ Text(v1) /\ Text(v2)
        /\ Whole(v3) /\ Text(v3)
    BY <1>9, LineHas DEF Line
  <2>2. Whole(x) /\ Text(x) /\ Len(x) = Len(v1) + Len(v2)
    BY <2>1, WholeJoin, TextJoin
  <2> HIDE DEF x
  <2>3. Whole(x \o v3) /\ Text(x \o v3) /\ Len(x \o v3) = Len(x) + Len(v3)
    BY <2>1, <2>2, WholeJoin, TextJoin
  <2>4. Len(x \o v3) \in Nat
    BY <2>3, TextLen
  <2> QED
    BY <2>2, <2>3, <2>4 DEF x
<1>19. PICK d : /\ Put(b, 0, a \o (new \o c)) = a \o (new \o d)
                /\ Text(d) /\ d # <<>>
                /\ \A key \in Keys : None(a \o d, key)
                /\ LinesBut(b, Keys) \subseteq LinesBut(a \o d, Keys)
                /\ Len(new) >= (Len(w1) + Len(w2)) + Len(w3) => SameBut(a \o d, b, Keys)
                /\ Text(a \o (new \o d)) => EndsFree(a \o (new \o d))
  <2> DEFINE n == (Len(w1) + Len(w2)) + Len(w3)
  <2>1. n \in Nat /\ n <= Room
    BY <1>10, <1>14, <1>17, <1>29
  <2>2. Len(b) = n + Len(a \o c)
    BY <1>14, <1>17, <1>29
  <2> HIDE DEF n, new
  <2>3. SameBut(b, a \o c, Keys) /\ \A key \in Keys : None(a \o c, key)
    BY <1>1, <1>14, <1>17, <1>29 DEF SameBut
  <2>4. Followed(b, a, new, c, n)
    BY <1>11, <1>16, <1>17, <1>18, <2>1, <2>2, <2>3, TailFits
  <2> QED
    BY <2>4 DEF n, Followed, Follows
<1> DEFINE t == a \o (new \o d)
<1>20. Text(t) /\ Has(t, k1, v1) /\ Has(t, k2, v2) /\ Has(t, k3, v3)
  <2>1. /\ Whole(a) /\ Line(v1) /\ Line(v2) /\ Line(v3) /\ Text(d) /\ d # <<>>
        /\ v1[1] # v2[1] /\ v1[1] # v3[1] /\ v2[1] # v3[1]
        /\ None(a \o d, v1[1]) /\ None(a \o d, v2[1]) /\ None(a \o d, v3[1])
    BY <1>1, <1>5, <1>9, <1>17, <1>19
  <2>2. /\ Text(t) /\ Has(t, v1[1], v1) /\ Has(t, v2[1], v2)
        /\ Has(t, v3[1], v3)
    BY <2>1, ThreeLines
  <2> QED
    BY <1>9, <2>2
<1>21. SameBut(t, a \o d, Keys)
  <2>1. v1[1] \in Keys /\ v2[1] \in Keys /\ v3[1] \in Keys
    BY <1>1, <1>9
  <2> QED
    BY <1>9, <1>17, <1>19, <2>1, ThreeAside
<1>22. Put(b, 0, a \o (new \o c)) = t /\ EndsFree(t)
  BY <1>19, <1>20
<1> HIDE DEF t, new
<1>23. RoomIn(t) = TextLength /\ TextLength \in Nat /\ TextLength <= Room
  <2>1. OnlyLine(t, k1) = v1 /\ OnlyLine(t, k2) = v2 /\ OnlyLine(t, k3) = v3
    BY <1>20, OnceHas
  <2> QED
    BY <1>7, <1>8, <1>18, <2>1 DEF new
<1>24. Good(t)
  <2>1. t # NoFile
    BY <1>20
  <2>2. \A s \in Setting(t, cur_res) :
           /\ s[1] \in Keys
           /\ s[1] = k1 => IsPrefix(s, v1)
           /\ s[1] = k2 => IsPrefix(s, v2)
           /\ s[1] = k3 => IsPrefix(s, v3)
    BY <1>1, <1>2, <1>5, <1>9
  <2> QED
    BY <1>1, <1>20, <1>22, <1>23, <2>1, <2>2, KeyedGood
<1>25. Keeps(t, b)
  <2>1. OthersOf(b) = LinesBut(b, Keys) /\ OthersOf(t) = LinesBut(t, Keys)
    BY <1>1, <1>20 DEF OthersOf, Others
  <2>2. OthersOf(b) \subseteq OthersOf(t)
    BY <1>19, <1>21, <2>1 DEF SameBut
  <2>3. CASE Len(new) >= (Len(w1) + Len(w2)) + Len(w3)
    BY <1>19, <1>21, <2>1, <2>2, <2>3 DEF SameBut, Keeps
  <2>4. CASE ~(Len(new) >= (Len(w1) + Len(w2)) + Len(w3))
    <3>1. /\ RoomIn(b) = (Len(w1) + Len(w2)) + Len(w3)
          /\ TextLength = Len(new)
      BY <1>7, <1>8 DEF w1, w2, w3, new
    <3>2. b # NoFile /\ TextLength < RoomIn(b)
      BY <1>14, <1>17, <1>18, <1>29, <2>4, <3>1
    <3> QED
      BY <1>1, <2>2, <3>2 DEF Shorter, Keeps
  <2> QED
    BY <2>3, <2>4
<1> HIDE DEF three
<1>26. /\ Overwrite(b, three, new) # {}
       /\ \A p \in Overwrite(b, three, new) : Fits(p, b)
  BY <1>15, <1>17, <1>18, <1>22, <1>24, <1>25, OverwriteFits
<1> QED
  BY <1>4, <1>26 DEF new, three

--------------------------------------------------------------------------------
(* fVDI: the line of the mode is taken out and put in again, with the driver
   that the file names for the depth. *)
LEMMA FvdiFits ==
    ASSUME NEW b, ~Text(NoFile), Target = "fvdi", Text(b), WellFormed(b),
           cur_res \in Chosen
    PROVE  save_fvdi_inf(b) # {} /\ \A p \in save_fvdi_inf(b) : Fits(p, b)
<1> DEFINE key == Word("01r")
           D == Driver(cur_res.planes)
           one == remove_line(b, key)
           d == OnlyLine(b, D)
           v == <<key, d[2], ModeName(cur_res), NL>>
<1>1. Keys = {key} /\ ~Desk
  BY DEF Keys, Desk, DeskTargets
<1>2. key # NL /\ ModeName(cur_res) # NL /\ \A planes : key # Driver(planes)
  BY Tokens
<1>3. /\ Once(b, key)
      /\ \A mode \in Chosen :
            /\ Once(b, Driver(mode.planes))
            /\ Len(OnlyLine(b, Driver(mode.planes))) \in 3 .. MaxName + 1
  BY <1>1 DEF WellFormed
<1> HIDE DEF key
<1>4. Has(b, D, d) /\ Len(d) \in 3 .. MaxName + 1
  BY <1>3, OnceHas
<1> HIDE DEF d
<1>5. MaxName \in Nat
  BY SaveAssumption
<1>6. DriverId(b) = {d[2]} /\ d[2] # NL
  <2> DEFINE line == find_line(b, D)
  <2>1. PICK a, c : Parts(b, D, d, a, c)
    BY <1>4, Cut
  <2>2. /\ line = [p |-> Len(a) + 1, linesize |-> Len(d), remain |-> Len(c)]
        /\ Len(a) \in Nat /\ Len(d) \in Nat /\ Len(c) \in Nat \ {0}
    BY <2>1, PartsFind
  <2>3. 2 \in 1 .. Len(d) - 1 /\ 2 \in 1 .. Len(d)
    BY <1>4, <1>5, <2>2
  <2>4. d[2] # NL
    BY <2>1, <2>3 DEF Parts, Line
  <2>5. b[Len(a) + 2] = d[2]
    <3>1. \A i \in 1 .. Len(d) : b[Len(a) + i] = d[i]
      BY <2>1, PartsHas
    <3> QED
      BY <2>3, <3>1
  <2> HIDE DEF line
  <2>6. /\ line.p + 1 = Len(a) + 2 /\ line.remain > 0
        /\ line.linesize - 1 \in 1 .. MaxName
    BY <1>4, <1>5, <2>2
  <2>7. b[line.p + 1] = d[2]
    BY <2>5, <2>6
  <2>8. DriverId(b) = {d[2]}
    BY <2>4, <2>6, <2>7 DEF DriverId, line
  <2> QED
    BY <2>4, <2>8
<1>7. Line(v) /\ v[1] = key
  BY <1>2, <1>6, LineOfFour
<1>8. IsPrefix(<<key, d[2], ModeName(cur_res)>>, v)
  BY <1>2, <1>6, LineOfFour
<1>9. PICK w : Has(b, key, w)
  BY <1>3, OnceHas
<1>10. PICK a, c : /\ Without(b, key, w, a, c)
                   /\ one = [buf |-> a \o c, at |-> Len(a) + 1]
  BY <1>9, RemoveOnce
<1>11. /\ Whole(a) /\ Text(a) /\ Text(c) /\ c # <<>> /\ None(a \o c, key)
       /\ Before(a \o c, Len(a) + 1) = a /\ From(a \o c, Len(a) + 1) = c
  BY <1>10 DEF Without, Whole
<1>12. \A k : k # key => \A x : Has(b, k, x) <=> Has(a \o c, k, x)
  BY <1>10 DEF Without
<1> HIDE DEF one
<1>13. save_fvdi_inf(b) = {Create(<<a, v, c>>)}
  <2>1. remove_line(a \o c, key).at = 0
    BY <1>11, NoneFind
  <2>2. one.at # 0 /\ one.buf = a \o c /\ one.at = Len(a) + 1
    BY <1>10, <1>11, TextLen
  <2>3. Before(one.buf, one.at) = a /\ From(one.buf, one.at) = c
    BY <1>11, <2>2
  <2>4. save_fvdi_inf(b) =
           {Create(<<Before(one.buf, one.at),
                     <<key, id, ModeName(cur_res), NL>>,
                     From(one.buf, one.at)>>) : id \in DriverId(b)}
    BY <2>1, <2>2 DEF save_fvdi_inf, one, key
  <2> QED
    BY <1>6, <2>3, <2>4
<1>23. SameBut(b, a \o c, Keys)
  BY <1>1, <1>10 DEF Without
<1> HIDE DEF v
<1> DEFINE t == a \o (v \o c)
<1>24. SameBut(t, a \o c, Keys)
  BY <1>1, <1>7, <1>11, LineAside
<1>14. /\ Text(t) /\ Has(t, key, v)
       /\ \A k : k # key => \A x : Has(b, k, x) <=> Has(t, k, x)
  BY <1>7, <1>11, <1>12, LineAround
<1> HIDE DEF t
<1>25. Keeps(t, b)
  <2>1. SameBut(t, b, Keys)
    BY <1>23, <1>24 DEF SameBut
  <2> QED
    BY <1>1, <1>14, <2>1, LinesKept
<1>15. t # NoFile
  BY <1>14
<1>16. Once(t, key) /\ OnlyLine(t, key) = v /\ Cardinality(Found(t, key)) = 1
  BY <1>14, OnceHas
<1>17. WellFormed(t)
  <2>1. ASSUME NEW mode \in Chosen
        PROVE  /\ Once(t, Driver(mode.planes))
               /\ Len(OnlyLine(t, Driver(mode.planes))) \in 3 .. MaxName + 1
    <3> DEFINE E == Driver(mode.planes)
    <3>1. Has(b, E, OnlyLine(b, E)) /\ E # key
      BY <1>2, <1>3, OnceHas
    <3>2. Has(t, E, OnlyLine(b, E))
      BY <1>14, <3>1
    <3>3. Once(t, E) /\ OnlyLine(t, E) = OnlyLine(b, E)
      BY <1>14, <3>2, OnceHas
    <3> QED
      BY <1>3, <3>3
  <2> QED
    BY <1>1, <1>15, <1>16, <2>1 DEF WellFormed, Overwritten
<1>18. Setting(t, cur_res) \subseteq {<<key, d[2], ModeName(cur_res)>>}
  <2>1. Has(t, D, d)
    BY <1>2, <1>4, <1>14
  <2>2. PICK e, f : /\ Parts(t, D, d, e, f)
                    /\ Found(t, D) = {Len(e) + 1}
    BY <1>14, <2>1, Cut
  <2>3. Len(e) \in Nat /\ 2 \in 1 .. Len(d)
    BY <1>4, <1>5, <2>2, PartsFind
  <2>4. t[(Len(e) + 1) + 1] = d[2]
    <3>1. \A i \in 1 .. Len(d) : t[Len(e) + i] = d[i]
      BY <2>2, PartsHas
    <3>3. t[Len(e) + 2] = d[2]
      BY <2>3, <3>1
    <3>2. (Len(e) + 1) + 1 = Len(e) + 2
      BY <2>3
    <3> QED
      BY <3>2, <3>3
  <2>5. Setting(t, cur_res) =
           {<<key, t[i + 1], ModeName(cur_res)>> : i \in Found(t, D) \ {Len(t)}}
    BY DEF Setting, key
  <2> QED
    BY <2>2, <2>4, <2>5
<1>19. Holds(t)
  <2>1. <<key, d[2], ModeName(cur_res)>>[1] = key
    OBVIOUS
  <2> QED
    BY <1>1, <1>8, <1>16, <1>18, <2>1 DEF Holds, HoldsMode
<1>20. Good(t)
  BY <1>14, <1>17, <1>19 DEF Good, Shorter, Overwritten
<1>21. Text(v)
  BY <1>7 DEF Line
<1>22. Fits(Create(<<a, v, c>>), b)
  BY <1>11, <1>20, <1>21, <1>25, CreateFits DEF t
<1> QED
  BY <1>13, <1>22

--------------------------------------------------------------------------------
(* Every save of a file as the program expects it has plans, and all fit. *)
LEMMA PlansFit ==
    ASSUME NEW b, ~Text(NoFile), aes \in AESes, cur_res \in Chosen,
           Text(b), WellFormed(b)
    PROVE  Plans(b) # {} /\ \A p \in Plans(b) : Fits(p, b)
<1>1. IsMode(cur_res)
  BY SaveAssumption
<1>2. CASE Target = "fvdi"
  <2>1. Plans(b) = save_fvdi_inf(b)
    BY <1>2 DEF Plans
  <2> QED
    BY <1>2, <2>1, FvdiFits
<1>3. CASE Target = "magic"
  <2>1. Plans(b) = save_magx_inf(b)
    BY <1>3 DEF Plans
  <2> QED
    BY <1>3, <2>1, MagicFits
<1>4. CASE Target = "emutos"
  <2>1. Plans(b) = save_desk_inf_base(b, TRUE, 3) /\ Desk
    BY <1>4 DEF Plans, Desk, DeskTargets
  <2> QED
    BY <1>1, <1>4, <2>1, DeskFits
<1>5. CASE Target \in {"tos", "mint", "naes"}
  <2>1. Plans(b) = save_desk_inf_base(b, FALSE, 5) /\ Desk /\ Target # "emutos"
    BY <1>5 DEF Plans, Desk, DeskTargets
  <2> QED
    BY <1>1, <2>1, DeskFits
<1>6. CASE Target = "xaaes"
  <2>1. Plans(b) = save_xaaes_inf(b)
    BY <1>6 DEF Plans
  <2> QED
    BY <1>6, <2>1, XaaesFits
<1>7. CASE Target = "myaes"
  <2>1. Plans(b) = save_myaes_inf(b)
    BY <1>7 DEF Plans
  <2> QED
    BY <1>7, <2>1, MyaesFits
<1>8. Target # "geneva"
  BY DEF WellFormed
<1> QED
  BY <1>2, <1>3, <1>4, <1>5, <1>6, <1>7, <1>8 DEF Target, AESes

LEMMA LineOfTwo ==
    ASSUME NEW x, x # NL
    PROVE  Line(<<x, NL>>) /\ <<x, NL>>[1] = x
<1> DEFINE w == <<x, NL>>
<1>1. w \in Seq({x, NL}) /\ Len(w) = 2 /\ w[1] = x /\ w[2] = NL /\ w # <<>>
  OBVIOUS
<1> HIDE DEF w
<1>2. Line(w)
  BY <1>1 DEF Line, Text
<1> QED
  BY <1>1, <1>2 DEF w

LEMMA DefaultWellFormed ==
    ASSUME ~Text(NoFile), Desk
    PROVE  Text(default_newdesk) /\ WellFormed(default_newdesk)
<1> DEFINE key == Word("#E")
           K == <<Word("#K"), NL>>
           W == <<Word("#W"), NL>>
           E == <<key, Num(24), Num(19), Num(0), Num(6), Num(0), Num(0),
                  Num(0), NL>>
           t == K \o (E \o W)
<1>1. /\ Word("#K") # NL /\ Word("#W") # NL
      /\ key # NL /\ Word("#K") # key /\ Word("#W") # key
      /\ \A n : Num(n) # NL /\ Num(n)[2] = n
  BY DEF Word, Num, NL
<1>2. Line(K) /\ Line(W) /\ K[1] # key /\ W[1] # key
  BY <1>1, LineOfTwo
<1> HIDE DEF K, W, key
<1>3. Line(E) /\ E[1] = key /\ Len(E) = 9 /\ \A i \in 2 .. 8 : E[i][2] \in Nat
  <2> DEFINE T == {key, NL} \union {Num(n) : n \in Nat}
  <2>1. E \in Seq(T)
    <3>1. \A n \in Nat : Num(n) \in T
      OBVIOUS
    <3>2. key \in T /\ NL \in T
      OBVIOUS
    <3> HIDE DEF T
    <3> QED
      BY <3>1, <3>2
  <2>2. /\ Len(E) = 9 /\ E[1] = key /\ E[9] = NL /\ E # <<>>
        /\ E[2] = Num(24) /\ E[3] = Num(19) /\ E[4] = Num(0) /\ E[5] = Num(6)
        /\ E[6] = Num(0) /\ E[7] = Num(0) /\ E[8] = Num(0)
    OBVIOUS
  <2> HIDE DEF E, T
  <2>3. \A i \in 2 .. 8 : E[i] # NL /\ E[i][2] \in Nat
    BY <1>1, <2>2
  <2>4. \A i \in 1 .. 8 : E[i] # NL
    BY <1>1, <2>2, <2>3
  <2>5. Line(E)
    BY <2>1, <2>2, <2>4 DEF Line, Text
  <2> QED
    BY <2>2, <2>3, <2>5
<1>4. default_newdesk = t
  <2>1. default_newdesk = (K \o E) \o W
    BY DEF default_newdesk, K, W, key
  <2> HIDE DEF E
  <2>2. Text(K) /\ Text(E) /\ Text(W)
    BY <1>2, <1>3 DEF Line
  <2>3. (K \o E) \o W = t
    <3>1. Associate(K, E, W)
      BY <2>2, JoinAssociative
    <3> QED
      BY <3>1 DEF Associate
  <2> QED
    BY <2>1, <2>3
<1> HIDE DEF E
<1>5. /\ Whole(K) /\ None(K, key) /\ None(W, key) /\ Text(W) /\ W # <<>>
  BY <1>2, LineHas DEF Line
<1>6. None(K \o W, key)
  BY <1>5, JoinNone
<1>7. Text(t) /\ Has(t, key, E)
  BY <1>3, <1>5, <1>6, LineAround
<1> HIDE DEF t
<1>8. t # NoFile
  BY <1>7
<1>9. Once(t, key) /\ OnlyLine(t, key) = E
  BY <1>7, OnceHas
<1>10. Keys = {key} /\ Target \notin {"geneva", "magic", "fvdi", "xaaes", "myaes"}
  BY DEF Keys, Desk, DeskTargets, key
<1>11. Len(E) >= 8 /\ \A i \in 2 .. Len(E) - 1 : E[i][2] \in Nat
  BY <1>3
<1>12. WellFormed(t)
  BY <1>8, <1>9, <1>10, <1>11 DEF WellFormed, Overwritten, key
<1> QED
  BY <1>4, <1>7, <1>12

(* Whatever a file holds, a plan for it is a plan; the file is opened without
   being emptied for XaAES and MyAES only, and the result of opening it goes
   unchecked for the desktops only. *)
Planned(p) ==
    /\ IsPlan(p)
    /\ p.create \/ Target \in {"xaaes", "myaes"}
    /\ p.checked \/ Desk

LEMMA CreatePlanned ==
    ASSUME NEW a, NEW v, NEW c, Text(a), Text(v), Text(c)
    PROVE  Planned(Create(<<a, v, c>>))
<1> DEFINE s == <<a, v, c>>
           p == Create(s)
<1>1. s \in Seq({a, v, c}) /\ Len(s) = 3 /\ s[1] = a /\ s[2] = v /\ s[3] = c
  OBVIOUS
<1> HIDE DEF s
<1>2. Text(s)
  BY <1>1 DEF Text
<1>3. Pieces(s)
  BY <1>1, <1>2, ThreePieces
<1>4. Planned(p)
  BY <1>3 DEF Create, IsPlan, Planned
<1> QED
  BY <1>4 DEF p, s

LEMMA CutType ==
    ASSUME NEW b, NEW m \in Int, NEW n \in Int, Text(b)
    PROVE  Text(Before(b, m)) /\ Text(From(b, n))
<1>1. Len(b) \in Int /\ 1 \in Int /\ m - 1 \in Int
  BY TextLen
<1> QED
  BY <1>1, TextSub DEF Before, From

LEMMA LinePlanned == \A x, y, z : Text(<<x, y, z, NL>>)
<1>1. \A x, y, z : <<x, y, z, NL>> \in Seq({x, y, z, NL})
  OBVIOUS
<1> QED
  BY <1>1 DEF Text

LEMMA TextsPlanned == Text(XaaesText(cur_res)) /\ Text(MyaesText(cur_res))
<1>1. ASSUME NEW key, NEW value, Word(key) # NL, Value(value)
      PROVE  Text(Entry(key, value))
  <2>1. Entry(key, value) = EntryOf(Word(key), value)
    BY DEF Entry, EntryOf
  <2>2. Line(EntryOf(Word(key), value))
    BY <1>1, LineOfEntry
  <2> QED
    BY <2>1, <2>2 DEF Line
<1> DEFINE v1 == Entry("SCREENDEV", Decimal(cur_res.rez))
           v2 == Entry("MODECODE", <<Num(cur_res.vmode)>>)
           v3 == Entry("vsetmode", Decimal(cur_res.vmode))
           v4 == Entry("rezmode", Decimal(cur_res.rez - 2))
           v5 == Entry("esetshift", Decimal(0))
<1>2. Text(v1) /\ Text(v2) /\ Text(v3) /\ Text(v4) /\ Text(v5)
  BY <1>1, Tokens, DecimalValue, NumValue
<1>3. XaaesText(cur_res) = v1 \o v2 /\ MyaesText(cur_res) = (v3 \o v4) \o v5
  BY DEF XaaesText, MyaesText
<1> HIDE DEF v1, v2, v3, v4, v5
<1>4. Text(v1 \o v2) /\ Text(v3 \o v4)
  BY <1>2, TextJoin
<1>5. Text((v3 \o v4) \o v5)
  BY <1>2, <1>4, TextJoin
<1> QED
  BY <1>3, <1>4, <1>5

LEMMA MagicPlanned ==
    ASSUME NEW b, Text(b)
    PROVE  \A p \in save_magx_inf(b) : Planned(p)
<1> DEFINE v == <<Word("#_DEV"), Num(cur_res.rez), Num(cur_res.vmode), NL>>
           dev == find_line(b, Word("#_DEV"))
           sect == find_line(b, Word("#[aes]"))
<1>1. /\ dev.p \in Int /\ dev.linesize \in Int
      /\ sect.p \in Int /\ sect.linesize \in Int
  BY FindType
<1>2. Text(v)
  BY LinePlanned
<1> HIDE DEF dev, sect, v
<1>3. ASSUME NEW m \in Int, NEW n \in Int
      PROVE  Planned(Create(<<Before(b, m), v, From(b, n)>>))
  BY <1>2, CutType, CreatePlanned
<1>4. \A p \in save_magx_inf(b) : \E m, n \in Int :
         p = Create(<<Before(b, m), v, From(b, n)>>)
  <2>1. /\ dev.p + dev.linesize \in Int /\ sect.p + sect.linesize \in Int
        /\ 1 \in Int
    BY <1>1
  <2> QED
    BY <1>1, <2>1 DEF save_magx_inf, dev, sect, v
<1> QED
  BY <1>3, <1>4

LEMMA ExceptType ==
    ASSUME NEW b, Text(b), NEW k, NEW x
    PROVE  Text([b EXCEPT ![k] = x])
<1>1. PICK S : b \in Seq(S)
  BY DEF Text
<1> DEFINE d == [b EXCEPT ![k] = x]
<1>2. Len(b) \in Nat /\ b \in [1 .. Len(b) -> S]
  BY <1>1
<1>3. d \in [1 .. Len(b) -> S \union {x}]
  BY <1>2
<1>4. d \in Seq(S \union {x})
  BY <1>2, <1>3, SeqDef
<1> QED
  BY <1>4 DEF Text

LEMMA DeskPlanned ==
    ASSUME NEW b, NEW emutos, NEW eoffset, Text(b), Desk
    PROVE  \A p \in save_desk_inf_base(b, emutos, eoffset) : Planned(p)
<1> DEFINE Plan(text) == [create |-> TRUE, checked |-> FALSE, chunks |-> <<text>>]
<1>1. ASSUME NEW t, Text(t) PROVE Planned(Plan(t))
  <2> DEFINE s == <<t>>
             p == [create |-> TRUE, checked |-> FALSE, chunks |-> s]
  <2>1. s \in Seq({t}) /\ Len(s) = 1 /\ s[1] = t
    OBVIOUS
  <2> HIDE DEF s
  <2>2. Text(s)
    BY <2>1 DEF Text
  <2>3. Pieces(s)
    BY <1>1, <2>1, <2>2, OnePiece
  <2>4. Planned(p)
    BY <2>3 DEF IsPlan, Planned
  <2> QED
    BY <2>4 DEF s
<1> DEFINE line == find_line(b, Word("#E"))
           first == IF cur_res.vmode = 0 THEN 255 ELSE cur_res.vmode \div 256
           second == IF cur_res.vmode = 0 THEN cur_res.rez - 2
                     ELSE cur_res.vmode % 256
           t == [b EXCEPT ![line.p + 2] = Num(RezDigit(b[line.p + 2][2]))]
           u == [b EXCEPT ![line.p + eoffset] = Num(first)]
           v == [u EXCEPT ![line.p + eoffset + 1] = Num(second)]
<1>2. Text(t)
  BY ExceptType
<1>3. Text(v)
  <2>1. Text(u)
    BY ExceptType
  <2> HIDE DEF u
  <2> QED
    BY <2>1, ExceptType
<1>4. v = [b EXCEPT ![line.p + eoffset] = Num(first),
                    ![line.p + eoffset + 1] = Num(second)]
  OBVIOUS
<1> HIDE DEF t, v
<1>5. save_desk_inf_base(b, emutos, eoffset) \subseteq {Plan(t), Plan(v)}
  BY <1>4 DEF save_desk_inf_base, t
<1> HIDE DEF Plan
<1> QED
  BY <1>1, <1>2, <1>3, <1>5

LEMMA OverwritePlanned ==
    ASSUME NEW b, NEW r, NEW new, Text(b), Text(r.buf), r.at \in Nat, Text(new),
           Target \in {"xaaes", "myaes"}
    PROVE  \A p \in Overwrite(b, r, new) : Planned(p)
<1> DEFINE Plan(c) == [create |-> FALSE, checked |-> TRUE, chunks |-> c]
           s == <<Before(r.buf, r.at), new, From(r.buf, r.at)>>
           g(sn) == <<new, SubSeq(Append(b, Stray(1)), 1, sn)>>
<1>1. ASSUME NEW c, Pieces(c) PROVE Planned(Plan(c))
  BY <1>1 DEF IsPlan, Planned
<1>2. Pieces(s)
  <2>1. /\ s \in Seq({s[1], s[2], s[3]}) /\ Len(s) = 3
        /\ s[1] = Before(r.buf, r.at) /\ s[2] = new /\ s[3] = From(r.buf, r.at)
    OBVIOUS
  <2>2. Text(Before(r.buf, r.at)) /\ Text(From(r.buf, r.at))
    BY CutType
  <2> HIDE DEF s
  <2>3. Text(s)
    BY <2>1 DEF Text
  <2> QED
    BY <2>1, <2>2, <2>3, ThreePieces
<1>3. ASSUME NEW sn \in 0 .. Len(b) + 1 PROVE Pieces(g(sn))
  <2> DEFINE c == g(sn)
  <2>1. /\ c \in Seq({c[1], c[2]}) /\ Len(c) = 2
        /\ c[1] = new /\ c[2] = SubSeq(Append(b, Stray(1)), 1, sn)
    OBVIOUS
  <2>2. Text(SubSeq(Append(b, Stray(1)), 1, sn))
    <3>1. sn \in Int /\ 1 \in Int
      BY TextLen
    <3> QED
      BY <3>1, TextSub
  <2> HIDE DEF c
  <2>3. Text(c)
    BY <2>1 DEF Text
  <2>4. Pieces(c)
    BY <2>1, <2>2, <2>3, TwoPieces
  <2> QED
    BY <2>4 DEF c
<1>4. \A p \in Overwrite(b, r, new) :
         \/ p = Plan(s)
         \/ \E sn \in 0 .. Len(b) + 1 : p = Plan(g(sn))
  BY DEF Overwrite
<1> HIDE DEF Plan, s, g
<1> QED
  BY <1>1, <1>2, <1>3, <1>4

LEMMA RemoveNextType ==
    ASSUME NEW s, NEW key, Text(s.buf), s.at \in Nat
    PROVE  Text(RemoveNext(s, key).buf) /\ RemoveNext(s, key).at \in Nat
BY RemoveType DEF RemoveNext

LEMMA XaaesPlanned ==
    ASSUME NEW b, Text(b), Target = "xaaes"
    PROVE  \A p \in save_xaaes_inf(b) : Planned(p)
<1> DEFINE zero == Loaded(b)
           one == RemoveNext(zero, Word("SCREENDEV"))
           two == RemoveNext(one, Word("MODECODE"))
           new == XaaesText(cur_res)
<1>1. save_xaaes_inf(b) = Overwrite(b, two, new)
  BY DEF save_xaaes_inf
<1>2. Text(zero.buf) /\ zero.at \in Nat
  BY DEF Loaded
<1> HIDE DEF zero
<1>3. Text(one.buf) /\ one.at \in Nat
  BY <1>2, RemoveNextType
<1> HIDE DEF one
<1>4. Text(two.buf) /\ two.at \in Nat
  BY <1>3, RemoveNextType
<1> HIDE DEF two
<1>6. Text(new)
  BY TextsPlanned
<1> HIDE DEF new
<1> QED
  BY <1>1, <1>4, <1>6, OverwritePlanned

LEMMA MyaesPlanned ==
    ASSUME NEW b, Text(b), Target = "myaes"
    PROVE  \A p \in save_myaes_inf(b) : Planned(p)
<1> DEFINE zero == Loaded(b)
           one == RemoveNext(zero, Word("vsetmode"))
           two == RemoveNext(one, Word("rezmode"))
           three == RemoveNext(two, Word("esetshift"))
           new == MyaesText(cur_res)
<1>1. save_myaes_inf(b) = Overwrite(b, three, new)
  BY DEF save_myaes_inf
<1>2. Text(zero.buf) /\ zero.at \in Nat
  BY DEF Loaded
<1> HIDE DEF zero
<1>3. Text(one.buf) /\ one.at \in Nat
  BY <1>2, RemoveNextType
<1> HIDE DEF one
<1>4. Text(two.buf) /\ two.at \in Nat
  BY <1>3, RemoveNextType
<1> HIDE DEF two
<1>5. Text(three.buf) /\ three.at \in Nat
  BY <1>4, RemoveNextType
<1> HIDE DEF three
<1>7. Text(new)
  BY TextsPlanned
<1> HIDE DEF new
<1> QED
  BY <1>1, <1>5, <1>7, OverwritePlanned

LEMMA FvdiPlanned ==
    ASSUME NEW b, Text(b)
    PROVE  \A p \in save_fvdi_inf(b) : Planned(p)
<1> DEFINE one == remove_line(b, Word("01r"))
           v(id) == <<Word("01r"), id, ModeName(cur_res), NL>>
<1>1. Text(one.buf) /\ one.at \in Int
  BY RemoveType
<1>2. \A id : Text(v(id))
  BY LinePlanned
<1>3. \A p \in save_fvdi_inf(b) : \E id :
         p = Create(<<Before(one.buf, one.at), v(id), From(one.buf, one.at)>>)
  BY DEF save_fvdi_inf
<1> HIDE DEF one, v
<1>4. Text(Before(one.buf, one.at)) /\ Text(From(one.buf, one.at))
  BY <1>1, CutType
<1>5. ASSUME NEW id
      PROVE  Planned(Create(<<Before(one.buf, one.at), v(id),
                              From(one.buf, one.at)>>))
  BY <1>2, <1>4, CreatePlanned
<1> QED
  BY <1>3, <1>5

LEMMA PlansType ==
    ASSUME NEW b, aes \in AESes, Text(b)
    PROVE  \A p \in Plans(b) : Planned(p)
<1>1. CASE Target = "fvdi"
  <2>1. Plans(b) = save_fvdi_inf(b)
    BY <1>1 DEF Plans
  <2> QED
    BY <2>1, FvdiPlanned
<1>2. CASE Target = "magic"
  <2>1. Plans(b) = save_magx_inf(b)
    BY <1>2 DEF Plans
  <2> QED
    BY <2>1, MagicPlanned
<1>3. CASE Target = "emutos"
  <2>1. Plans(b) = save_desk_inf_base(b, TRUE, 3) /\ Desk
    BY <1>3 DEF Plans, Desk, DeskTargets
  <2> QED
    BY <2>1, DeskPlanned
<1>4. CASE Target \in {"tos", "mint", "naes"}
  <2>1. Plans(b) = save_desk_inf_base(b, FALSE, 5) /\ Desk
    BY <1>4 DEF Plans, Desk, DeskTargets
  <2> QED
    BY <2>1, DeskPlanned
<1>5. CASE Target = "xaaes"
  <2>1. Plans(b) = save_xaaes_inf(b)
    BY <1>5 DEF Plans
  <2> QED
    BY <1>5, <2>1, XaaesPlanned
<1>6. CASE Target = "myaes"
  <2>1. Plans(b) = save_myaes_inf(b)
    BY <1>6 DEF Plans
  <2> QED
    BY <1>6, <2>1, MyaesPlanned
<1>7. CASE Target = "geneva"
  BY <1>7 DEF Plans
<1> QED
  BY <1>1, <1>2, <1>3, <1>4, <1>5, <1>6, <1>7 DEF Target, AESes

--------------------------------------------------------------------------------
(* the first piece, and what follows it *)
LEMMA RestHead ==
    ASSUME NEW s, Pieces(s), s # <<>>
    PROVE  /\ Text(Head(s)) /\ Pieces(Tail(s)) /\ Text(Rest(Tail(s)))
           /\ Rest(s) = Head(s) \o Rest(Tail(s))
<1>1. PICK S : s \in Seq(S)
  BY DEF Pieces, Text
<1>2. /\ Len(s) \in 1 .. 3
      /\ \A i \in 1 .. Len(s) : Text(s[i])
  <2>1. Len(s) \in Nat /\ Len(s) # 0 /\ Len(s) <= 3
    BY <1>1, EmptySeq DEF Pieces
  <2>2. \A n \in Nat : n # 0 /\ n <= 3 => n \in 1 .. 3
    OBVIOUS
  <2>3. Len(s) \in 1 .. 3
    BY <2>1, <2>2
  <2> QED
    BY <2>3, Zenon DEF Pieces
<1> DEFINE t == Tail(s)
<1>3. /\ t \in Seq(S) /\ Len(t) = Len(s) - 1 /\ Head(s) = s[1]
      /\ \A i \in 1 .. Len(t) : t[i] = s[i + 1]
  BY <1>1, <1>2
<1> HIDE DEF t
<1>4. Text(s[1])
  BY <1>2
<1>5. Pieces(t)
  <2>1. \A i \in 1 .. Len(t) : Text(t[i])
    <3> TAKE i \in 1 .. Len(t)
    <3>1. i + 1 \in 1 .. Len(s) /\ t[i] = s[i + 1]
      BY <1>2, <1>3
    <3> QED
      BY <1>2, <3>1
  <2>2. Len(t) <= 3
    BY <1>2, <1>3
  <2> QED
    BY <1>3, <2>1, <2>2 DEF Pieces, Text
<1>6. Text(Rest(t)) /\ Rest(s) = s[1] \o Rest(t)
  <2>1. CASE Len(s) = 1
    <3>1. Rest(t) = <<>> /\ Rest(s) = s[1]
      BY <1>3, <2>1 DEF Rest
    <3> QED
      BY <1>4, <3>1, JoinEmpty
  <2>2. CASE Len(s) = 2
    <3>1. Rest(t) = s[2] /\ Rest(s) = s[1] \o s[2] /\ Text(s[2])
      BY <1>2, <1>3, <2>2 DEF Rest
    <3> QED
      BY <3>1
  <2>3. CASE Len(s) = 3
    <3>1. Text(s[2]) /\ Text(s[3])
      BY <1>2, <2>3
    <3>2. Rest(t) = s[2] \o s[3] /\ Rest(s) = s[1] \o (s[2] \o s[3])
      BY <1>3, <2>3 DEF Rest
    <3> QED
      BY <3>1, <3>2, TextJoin
  <2> QED
    BY <1>2, <2>1, <2>2, <2>3
<1> QED
  BY <1>3, <1>4, <1>5, <1>6 DEF t

--------------------------------------------------------------------------------
(***************************************************************************)
(* Types                                                                   *)
(***************************************************************************)
TypeInv ==
    /\ pc \in {"load", "open", "write", "done"}
    /\ <<aes, fvdi>> \in Systems
    /\ cur_res \in Chosen
    /\ disk = NoFile \/ Text(disk)
    /\ old = NoFile \/ Text(old)
    /\ IsPlan(plan)
    /\ pos \in Nat
    /\ pc = "open" => plan.create \/ Text(disk)
    /\ pc = "write" => Text(disk) /\ pos <= Len(disk)
    /\ ret \in {-1, 0, 1}
    /\ runs \in 1 .. Saves
    /\ cut \in BOOLEAN

LEMMA EmptyPieces == Pieces(<<>>) /\ Rest(<<>>) = <<>>
BY EmptyText DEF Pieces, Rest

LEMMA NoPlanIs == IsPlan(NoPlan)
BY EmptyPieces DEF NoPlan, IsPlan

LEMMA FilesText ==
    ASSUME aes \in AESes, NEW b \in Files(Target)
    PROVE  b = NoFile \/ Text(b)
<1>1. Target \in AESes \union {"fvdi"}
  BY DEF Target
<1>2. b = NoFile \/ b \in Seq(ToSet(b))
  BY <1>1, SaveAssumption
<1> QED
  BY <1>2 DEF Text

(* What a save works on is the file, or the default desktop. *)
LEMMA LoadText ==
    ASSUME ~Text(NoFile), disk = NoFile \/ Text(disk),
           NEW b \in load_file, b # NoFile
    PROVE  /\ Text(b)
           /\ b = disk \/ (Desk /\ b = default_newdesk)
           /\ b = disk \/ disk = NoFile \/ "load" \in Faults
<1>1. \/ b = disk
      \/ /\ Target \in {"tos", "mint", "naes"} /\ b = default_newdesk
         /\ disk = NoFile \/ "load" \in Faults
  BY DEF load_file
<1>2. Target \in {"tos", "mint", "naes"} => Desk
  BY DEF Desk, DeskTargets
<1>3. Text(b)
  <2>1. CASE b = disk
    BY <2>1
  <2>2. CASE Desk /\ b = default_newdesk
    BY <2>2, DefaultWellFormed
  <2> QED
    BY <1>1, <1>2, <2>1, <2>2
<1>4. b = disk \/ (Desk /\ b = default_newdesk)
  BY <1>1, <1>2, Zenon
<1>5. b = disk \/ disk = NoFile \/ "load" \in Faults
  BY <1>1
<1> QED
  BY <1>3, <1>4, <1>5, Zenon

LEMMA InitTypeInv == Init => TypeInv
<1> SUFFICES ASSUME Init PROVE TypeInv
  OBVIOUS
<1>1. PICK s \in Systems : aes = s[1] /\ fvdi = s[2]
  BY DEF Init
<1>2. <<aes, fvdi>> \in Systems /\ aes \in AESes
  <2>1. s \in AESes \X BOOLEAN
    BY SaveAssumption
  <2>2. s = <<s[1], s[2]>>
    BY <2>1
  <2> QED
    BY <1>1, <2>1, <2>2
<1>3. disk = NoFile \/ Text(disk)
  BY <1>2, FilesText DEF Init
<1>4. runs \in 1 .. Saves
  BY SaveAssumption DEF Init
<1> QED
  BY <1>2, <1>3, <1>4, NoPlanIs DEF Init, TypeInv

LEMMA SystemType ==
    ASSUME TypeInv PROVE aes \in AESes /\ fvdi \in BOOLEAN
BY SaveAssumption DEF TypeInv

LEMMA TypeStep == ~Text(NoFile) /\ TypeInv /\ [Next]_vars => TypeInv'
<1> SUFFICES ASSUME ~Text(NoFile), TypeInv, [Next]_vars PROVE TypeInv'
  OBVIOUS
<1>1. CASE Load
  <2>1. PICK known \in PathKnown, b \in load_file :
           LET plans == IF known /\ b # NoFile THEN Plans(b) ELSE {}
           IN  \/ /\ plan' \in plans
                  /\ pc' = "open"
                  /\ UNCHANGED ret
               \/ plans = {} /\ Return(Failure)
    BY <1>1 DEF Load
  <2>2. UNCHANGED <<aes, fvdi, cur_res, disk, old, pos, runs, cut>>
    BY <1>1 DEF Load
  <2>3. CASE b # NoFile /\ plan' \in Plans(b) /\ pc' = "open" /\ UNCHANGED ret
    <3>1. Text(b) /\ (b = disk \/ Desk)
      BY <2>3, LoadText DEF TypeInv
    <3>2. Planned(plan')
      BY <2>3, <3>1, PlansType, SystemType
    <3>3. plan'.create \/ Text(disk)
      <4>1. Target \in {"xaaes", "myaes"} => ~Desk
        BY DEF Desk, DeskTargets
      <4> QED
        BY <3>1, <3>2, <4>1 DEF Planned
    <3>4. IsPlan(plan')
      BY <3>2 DEF Planned
    <3> QED
      BY <2>2, <2>3, <3>3, <3>4 DEF TypeInv
  <2>4. CASE Return(Failure)
    <3>1. Failure \in {-1, 0, 1}
      BY DEF Failure
    <3> QED
      BY <2>2, <2>4, <3>1, NoPlanIs DEF TypeInv, Return
  <2> QED
    BY <2>1, <2>3, <2>4
<1>2. CASE Open
  <2>1. UNCHANGED <<aes, fvdi, cur_res, old, runs, cut>> /\ pc = "open"
    BY <1>2 DEF Open
  <2>2. CASE /\ disk' = IF plan.create THEN <<>> ELSE disk
             /\ pos' = 0 /\ pc' = "write" /\ UNCHANGED <<plan, ret>>
    <3>1. Text(disk') /\ 0 <= Len(disk')
      <4>1. Text(disk')
        BY <2>1, <2>2, EmptyText DEF TypeInv
      <4> QED
        BY <4>1, TextLen
    <3> QED
      BY <2>1, <2>2, <3>1 DEF TypeInv
  <2>3. CASE /\ Return(IF plan.checked THEN Failure ELSE 1)
             /\ UNCHANGED <<disk, pos>>
    <3>1. Failure \in {-1, 0, 1}
      BY DEF Failure
    <3>2. ret' \in {-1, 0, 1} /\ pc' = "done" /\ plan' = NoPlan
      BY <2>3, <3>1 DEF Return
    <3> QED
      BY <2>1, <2>3, <3>2, NoPlanIs DEF TypeInv
  <2> QED
    BY <1>2, <2>2, <2>3 DEF Open
<1>3. CASE Write
  <2>1. /\ pc = "write" /\ plan.chunks # <<>> /\ pc' = pc
        /\ UNCHANGED <<aes, fvdi, cur_res, old, ret, runs>>
        /\ plan' = [plan EXCEPT !.chunks = Tail(@)]
    BY <1>3 DEF Write
  <2> DEFINE chunk == Head(plan.chunks)
  <2>2. Text(chunk) /\ Pieces(Tail(plan.chunks))
    BY <2>1, RestHead DEF TypeInv, IsPlan
  <2> HIDE DEF chunk
  <2>3. PICK n \in 0 .. Len(chunk) :
           /\ disk' = Put(disk, pos, SubSeq(chunk, 1, n))
           /\ pos' = pos + n
           /\ cut' = (cut \/ n < Len(chunk))
    <3>1. Len(chunk) \in Nat
      BY <2>2, TextLen
    <3>2. Len(chunk) \in 0 .. Len(chunk)
      BY <3>1
    <3> QED
      BY <1>3, <3>2 DEF Write, chunk
  <2>4. n \in Nat
    BY <2>2, <2>3, TextLen
  <2>5. Text(SubSeq(chunk, 1, n)) /\ Len(SubSeq(chunk, 1, n)) = n
    BY <2>4, TextSub
  <2>6. Text(disk) /\ pos \in Nat /\ pos <= Len(disk)
    BY <2>1 DEF TypeInv
  <2>7. Text(disk') /\ pos' \in Nat /\ pos' <= Len(disk')
    <3> DEFINE t == SubSeq(chunk, 1, n)
               p == Put(disk, pos, t)
    <3>1. Text(t) /\ Len(t) = n
      BY <2>5
    <3> HIDE DEF t
    <3>2. Text(p) /\ pos + Len(t) <= Len(p)
      BY <2>6, <3>1, PutText
    <3>3. disk' = p
      BY <2>3 DEF t
    <3> HIDE DEF p
    <3> QED
      BY <2>3, <2>4, <2>6, <3>1, <3>2, <3>3
  <2>8. IsPlan(plan')
    <3> DEFINE t == Tail(plan.chunks)
    <3>1. Pieces(t) /\ plan' = [plan EXCEPT !.chunks = t]
      BY <2>1, <2>2
    <3> HIDE DEF t
    <3> QED
      BY <3>1 DEF TypeInv, IsPlan
  <2>9. cut' \in BOOLEAN
    BY <2>3
  <2> QED
    BY <2>1, <2>7, <2>8, <2>9 DEF TypeInv
<1>4. CASE Close
  BY <1>4, NoPlanIs DEF Close, Return, TypeInv
<1>5. CASE Again
  <2>1. runs + 1 \in 1 .. Saves
    BY <1>5, SaveAssumption DEF Again, TypeInv
  <2> QED
    BY <1>5, <2>1 DEF Again, TypeInv
<1>6. CASE UNCHANGED vars
  BY <1>6 DEF vars, TypeInv
<1> QED
  BY <1>1, <1>2, <1>3, <1>4, <1>5, <1>6 DEF Next

LEMMA TypeInvImplies == ~Text(NoFile) /\ TypeInv => TypeOK
BY DEF TypeInv, TypeOK, IsPlan

(* The variables keep their types, and the place where the next piece is written
   is never behind the end of the file, whatever the file holds, whatever goes
   wrong, and where a variable that was never set takes any value. *)
THEOREM TypeCorrect == ASSUME ~Text(NoFile) PROVE Spec => []TypeOK
BY InitTypeInv, TypeStep, TypeInvImplies, PTL DEF Spec

--------------------------------------------------------------------------------
(***************************************************************************)
(* The mode is in the file                                                 *)
(***************************************************************************)
(* a good file that keeps what is no part of a mode: of the file as it was when
   the program was started, or of the built-in one of a desktop *)
Right(b) ==
    /\ Good(b)
    /\ Keeps(b, old) \/ (Desk /\ Keeps(b, default_newdesk))

(* If the file was as the program expects it and no write was cut short, then
   what is written so far, with what is still to write put into it, is a file
   that holds the mode and keeps the rest.  A save that did not write the file
   either says so, or is one for the desktops. *)
ContentInv ==
    /\ pc \in {"load", "open"} => ~cut
    /\ pc = "open" => plan.checked \/ Desk
    /\ pc = "open" /\ WellFormed(old) => Right(Written(plan, disk))
    /\ pc = "write" /\ ~cut /\ WellFormed(old) =>
          Right(Put(disk, pos, Rest(plan.chunks)))
    /\ pc = "done" /\ ~cut /\ WellFormed(old) =>
          \/ ret = 1 /\ Right(disk)
          \/ Faults # {} /\ disk = old /\ (ret = Failure \/ Desk)

Inv == TypeInv /\ IInv /\ ContentInv

LEMMA SameTarget ==
    ASSUME aes' = aes, fvdi' = fvdi
    PROVE  /\ \A x : WellFormed(x)' <=> WellFormed(x)
           /\ \A x, m : HoldsMode(x, m)' <=> HoldsMode(x, m)
           /\ \A x : OthersOf(x)' = OthersOf(x)
           /\ Failure' = Failure /\ Desk' = Desk
           /\ cur_res' = cur_res => \A x : Shorter(x)' <=> Shorter(x)
<1>1. /\ Target' = Target /\ Desk' = Desk /\ Keys' = Keys /\ Fields' = Fields
      /\ Overwritten' = Overwritten
  BY DEF Target, Desk, Keys, Fields, Overwritten
<1>2. \A x : RoomIn(x)' = RoomIn(x) /\ (EndsFree(x)' <=> EndsFree(x))
  BY <1>1 DEF RoomIn, EndsFree
<1>3. \A x : WellFormed(x)' <=> WellFormed(x)
  BY <1>1, <1>2 DEF WellFormed
<1>4. \A x, m : HoldsMode(x, m)' <=> HoldsMode(x, m)
  BY <1>1 DEF HoldsMode, HoldsDesk, Setting
<1>5. \A x : OthersOf(x)' = OthersOf(x)
  BY <1>1 DEF OthersOf, Others, OtherFields
<1>6. Failure' = Failure
  BY <1>1 DEF Failure
<1>7. cur_res' = cur_res => \A x : Shorter(x)' <=> Shorter(x)
  <2> SUFFICES ASSUME cur_res' = cur_res, NEW x PROVE Shorter(x)' <=> Shorter(x)
    OBVIOUS
  <2>1. TextLength' = TextLength
    BY <1>1 DEF TextLength
  <2> QED
    BY <1>1, <1>2, <2>1 DEF Shorter
<1> QED
  BY <1>1, <1>3, <1>4, <1>5, <1>6, <1>7

LEMMA SameSystem ==
    ASSUME aes' = aes, fvdi' = fvdi, cur_res' = cur_res, old' = old
    PROVE  /\ \A x : Right(x)' <=> Right(x)
           /\ \A x : WellFormed(x)' <=> WellFormed(x)
           /\ Failure' = Failure /\ (Desk' <=> Desk)
<1>1. /\ \A x : WellFormed(x)' <=> WellFormed(x)
      /\ \A x, m : HoldsMode(x, m)' <=> HoldsMode(x, m)
      /\ \A x : OthersOf(x)' = OthersOf(x)
      /\ Failure' = Failure /\ Desk' = Desk
      /\ \A x : Shorter(x)' <=> Shorter(x)
  BY SameTarget
<1>2. \A x : Good(x)' <=> Good(x)
  BY <1>1 DEF Good, Holds
<1>3. \A x, y : Keeps(x, y)' <=> Keeps(x, y)
  BY <1>1 DEF Keeps
<1>4. \A x : Right(x)' <=> Right(x)
  <2> TAKE x
  <2>1. Keeps(x, old)' <=> Keeps(x, old)
    BY <1>3
  <2>2. Keeps(x, default_newdesk)' <=> Keeps(x, default_newdesk)
    BY <1>3
  <2> QED
    BY <1>1, <1>2, <2>1, <2>2 DEF Right
<1> QED
  BY <1>1, <1>4

LEMMA ContentLoad ==
    ASSUME ~Text(NoFile), Inv, Load
    PROVE  ContentInv'
<1>1. PICK known \in PathKnown, b \in load_file :
         LET plans == IF known /\ b # NoFile THEN Plans(b) ELSE {}
         IN  \/ /\ plan' \in plans
                /\ pc' = "open"
                /\ UNCHANGED ret
             \/ plans = {} /\ Return(Failure)
  BY DEF Load
<1>2. UNCHANGED <<aes, fvdi, cur_res, disk, old, pos, runs, cut>> /\ pc = "load"
  BY DEF Load
<1>3. disk = old /\ (disk = NoFile \/ Text(disk))
  BY <1>2 DEF Inv, IInv, TypeInv
<1>4. /\ \A x : Right(x)' <=> Right(x)
      /\ \A x : WellFormed(x)' <=> WellFormed(x)
      /\ Failure' = Failure /\ (Desk' <=> Desk)
  BY <1>2, SameSystem
<1>5. WellFormed(old)' <=> WellFormed(old)
  <2>1. WellFormed(old)' <=> WellFormed(old')
    BY <1>4
  <2> QED
    BY <1>2, <2>1
<1>6. aes \in AESes /\ cur_res \in Chosen
  BY SystemType DEF Inv, TypeInv
<1>7. ASSUME b # NoFile, WellFormed(old)
      PROVE  /\ Plans(b) # {} /\ \A p \in Plans(b) : Fits(p, b)
             /\ b = disk \/ (Desk /\ b = default_newdesk)
  <2>1. Text(b) /\ (b = disk \/ (Desk /\ b = default_newdesk))
    BY <1>3, <1>7, LoadText
  <2>2. WellFormed(b)
    <3>1. CASE b = disk
      BY <1>3, <1>7, <3>1
    <3>2. CASE Desk /\ b = default_newdesk
      BY <3>2, DefaultWellFormed
    <3> QED
      BY <2>1, <3>1, <3>2
  <2>3. Plans(b) # {} /\ \A p \in Plans(b) : Fits(p, b)
    BY <1>6, <2>1, <2>2, PlansFit
  <2> QED
    BY <2>1, <2>3
<1>8. CASE b # NoFile /\ plan' \in Plans(b) /\ pc' = "open"
  <2>1. Text(b)
    BY <1>3, <1>8, LoadText
  <2>2. Planned(plan')
    BY <1>6, <1>8, <2>1, PlansType
  <2>3. plan'.checked \/ Desk'
    BY <1>4, <2>2 DEF Planned
  <2>4. ASSUME WellFormed(old)' PROVE Right(Written(plan, disk))'
    <3>1. Fits(plan', b) /\ (b = disk \/ (Desk /\ b = default_newdesk))
      BY <1>5, <1>7, <1>8, <2>4
    <3>2. Written(plan', b) = Written(plan', disk')
      <4>1. CASE b = disk
        BY <1>2, <4>1
      <4>2. CASE Desk
        <5>1. Target \notin {"xaaes", "myaes"}
          BY <4>2 DEF Desk, DeskTargets
        <5>2. plan'.create
          BY <2>2, <5>1 DEF Planned
        <5> QED
          BY <5>2 DEF Written
      <4> QED
        BY <3>1, <4>1, <4>2
    <3>3. Right(Written(plan', b))
      BY <1>3, <3>1 DEF Fits, Right
    <3>4. Right(Written(plan', disk'))
      BY <3>2, <3>3
    <3>5. Written(plan, disk)' = Written(plan', disk')
      BY DEF Written
    <3> QED
      BY <1>4, <3>4, <3>5
  <2>5. ~cut'
    BY <1>2 DEF Inv, ContentInv
  <2> QED
    BY <1>8, <2>3, <2>4, <2>5 DEF ContentInv
<1>9. CASE /\ (IF known /\ b # NoFile THEN Plans(b) ELSE {}) = {}
           /\ Return(Failure)
  <2>1. pc' = "done" /\ ret' = Failure
    BY <1>9 DEF Return
  <2>2. WellFormed(old) => Faults # {}
    <3> SUFFICES ASSUME WellFormed(old), Faults = {} PROVE FALSE
      OBVIOUS
    <3>1. known = TRUE
      BY DEF PathKnown
    <3>2. b = NoFile
      BY <1>7, <1>9, <3>1
    <3>3. disk # NoFile
      BY <1>3 DEF WellFormed
    <3>4. b = disk
      BY <3>3 DEF load_file
    <3> QED
      BY <3>2, <3>3, <3>4
  <2>3. WellFormed(old)' => Faults # {} /\ disk' = old' /\ ret' = Failure'
    BY <1>2, <1>3, <1>4, <1>5, <2>1, <2>2
  <2> QED
    BY <2>1, <2>3 DEF ContentInv
<1> QED
  BY <1>1, <1>8, <1>9

LEMMA ContentOpen ==
    ASSUME ~Text(NoFile), Inv, Open
    PROVE  ContentInv'
<1>1. UNCHANGED <<aes, fvdi, cur_res, old, runs, cut>> /\ pc = "open"
  BY DEF Open
<1>2. disk = old /\ IsPlan(plan) /\ (plan.create \/ Text(disk))
  BY <1>1 DEF Inv, IInv, TypeInv
<1>3. /\ \A x : Right(x)' <=> Right(x)
      /\ \A x : WellFormed(x)' <=> WellFormed(x)
      /\ Failure' = Failure /\ (Desk' <=> Desk)
  BY <1>1, SameSystem
<1>4. WellFormed(old)' <=> WellFormed(old)
  <2>1. WellFormed(old)' <=> WellFormed(old')
    BY <1>3
  <2> QED
    BY <1>1, <2>1
<1>5. CASE /\ disk' = IF plan.create THEN <<>> ELSE disk
           /\ pos' = 0 /\ pc' = "write" /\ UNCHANGED <<plan, ret>>
  <2>1. Put(disk', pos', Rest(plan'.chunks)) = Written(plan, disk)
    BY <1>5 DEF Written
  <2>2. ASSUME WellFormed(old)'
        PROVE  Right(Put(disk, pos, Rest(plan.chunks)))'
    <3>1. Right(Written(plan, disk))
      BY <1>1, <1>4, <2>2 DEF Inv, ContentInv
    <3>2. Right(Put(disk', pos', Rest(plan'.chunks)))
      BY <2>1, <3>1
    <3> QED
      BY <1>3, <3>2
  <2> QED
    BY <1>5, <2>2 DEF ContentInv
<1>6. CASE /\ "open" \in Faults
           /\ Return(IF plan.checked THEN Failure ELSE 1)
           /\ UNCHANGED <<disk, pos>>
  <2>1. pc' = "done" /\ disk' = old'
    BY <1>1, <1>2, <1>6 DEF Return
  <2>2. ret' = Failure' \/ Desk'
    BY <1>1, <1>3, <1>6 DEF Return, Inv, ContentInv
  <2> QED
    BY <1>6, <2>1, <2>2 DEF ContentInv
<1> QED
  BY <1>5, <1>6 DEF Open

LEMMA ContentWrite ==
    ASSUME Inv, Write
    PROVE  ContentInv'
<1>1. /\ pc = "write" /\ plan.chunks # <<>> /\ pc' = "write"
      /\ UNCHANGED <<aes, fvdi, cur_res, old, ret, runs>>
      /\ plan' = [plan EXCEPT !.chunks = Tail(@)]
  BY DEF Write
<1>2. /\ \A x : Right(x)' <=> Right(x)
      /\ \A x : WellFormed(x)' <=> WellFormed(x)
  BY <1>1, SameSystem
<1>3. WellFormed(old)' <=> WellFormed(old)
  <2>1. WellFormed(old)' <=> WellFormed(old')
    BY <1>2
  <2> QED
    BY <1>1, <2>1
<1> DEFINE chunk == Head(plan.chunks)
           r == Rest(Tail(plan.chunks))
<1>4. Text(chunk) /\ Text(r) /\ Rest(plan.chunks) = chunk \o r
  BY <1>1, RestHead DEF Inv, TypeInv, IsPlan
<1>5. Rest(plan'.chunks) = r
  <2>1. plan'.chunks = Tail(plan.chunks)
    BY <1>1 DEF Inv, TypeInv, IsPlan
  <2> QED
    BY <2>1
<1>6. PICK n \in 0 .. Len(chunk) :
         /\ disk' = Put(disk, pos, SubSeq(chunk, 1, n))
         /\ pos' = pos + n
         /\ cut' = (cut \/ n < Len(chunk))
  <2>1. Len(chunk) \in Nat
    BY <1>4, TextLen
  <2>2. Len(chunk) \in 0 .. Len(chunk)
    BY <2>1
  <2> QED
    BY <2>2 DEF Write
<1> HIDE DEF chunk, r
<1>7. Text(disk) /\ pos \in Nat /\ pos <= Len(disk)
  BY <1>1 DEF Inv, TypeInv
<1>8. ASSUME ~cut'
      PROVE  /\ ~cut /\ disk' = Put(disk, pos, chunk)
             /\ pos' = pos + Len(chunk)
  <2>1. Len(chunk) \in Nat
    BY <1>4, TextLen
  <2>4. ~cut /\ ~(n < Len(chunk))
    BY <1>6, <1>8, Zenon
  <2>2. ~cut /\ n = Len(chunk)
    BY <1>6, <2>1, <2>4
  <2>3. SubSeq(chunk, 1, Len(chunk)) = chunk
    BY <1>4, SubSeqFull DEF Text
  <2> QED
    BY <1>6, <2>2, <2>3
<1>9. ASSUME ~cut', WellFormed(old)'
      PROVE  Right(Put(disk, pos, Rest(plan.chunks)))'
  <2>1. Right(Put(disk, pos, Rest(plan.chunks)))
    BY <1>1, <1>3, <1>8, <1>9 DEF Inv, ContentInv
  <2>2. Put(Put(disk, pos, chunk), pos + Len(chunk), r) = Put(disk, pos, chunk \o r)
    BY <1>4, <1>7, PutPut
  <2>3. Right(Put(disk', pos', Rest(plan'.chunks)))
    BY <1>4, <1>5, <1>8, <1>9, <2>1, <2>2
  <2> QED
    BY <1>2, <2>3
<1> QED
  BY <1>1, <1>9 DEF ContentInv

(* When the last piece is written, the file is as it should be. *)
LEMMA ContentClosed ==
    ASSUME Inv, pc = "write", plan.chunks = <<>>, ~cut, WellFormed(old)
    PROVE  Right(disk)
<1>1. Rest(plan.chunks) = <<>>
  BY EmptyPieces
<1>2. Right(Put(disk, pos, <<>>))
  BY <1>1 DEF Inv, ContentInv
<1>3. Text(disk) /\ pos \in Nat /\ pos <= Len(disk)
  BY DEF Inv, TypeInv
<1>4. Put(disk, pos, <<>>) = disk
  BY <1>3, PutNothing
<1> QED
  BY <1>2, <1>4

LEMMA ContentClose ==
    ASSUME Inv, Close
    PROVE  ContentInv'
<1>1. /\ pc = "write" /\ plan.chunks = <<>> /\ pc' = "done" /\ ret' = 1
      /\ UNCHANGED <<aes, fvdi, cur_res, disk, old, pos, runs, cut>>
  BY DEF Close, Return
<1>2. /\ \A x : Right(x)' <=> Right(x)
      /\ \A x : WellFormed(x)' <=> WellFormed(x)
  BY <1>1, SameSystem
<1>3. WellFormed(old)' <=> WellFormed(old)
  <2>1. WellFormed(old)' <=> WellFormed(old')
    BY <1>2
  <2> QED
    BY <1>1, <2>1
<1>4. ASSUME ~cut', WellFormed(old)' PROVE Right(disk)'
  <2>1. Right(disk')
    BY <1>1, <1>3, <1>4, ContentClosed
  <2> QED
    BY <1>2, <2>1
<1> QED
  BY <1>1, <1>4 DEF ContentInv

LEMMA ContentStep ==
    ~Text(NoFile) /\ Inv /\ [Next]_vars => Inv'
<1> SUFFICES ASSUME ~Text(NoFile), Inv, [Next]_vars PROVE Inv'
  OBVIOUS
<1>1. TypeInv' /\ IInv'
  BY TypeStep, Inductive DEF Inv
<1>2. CASE Load
  BY <1>1, <1>2, ContentLoad DEF Inv
<1>3. CASE Open
  BY <1>1, <1>3, ContentOpen DEF Inv
<1>4. CASE Write
  BY <1>1, <1>4, ContentWrite DEF Inv
<1>5. CASE Close
  BY <1>1, <1>5, ContentClose DEF Inv
<1>6. CASE Again
  BY <1>1, <1>6 DEF Again, Inv, ContentInv
<1>7. CASE UNCHANGED vars
  <2>1. ContentInv'
    <3>1. /\ UNCHANGED <<pc, aes, fvdi, cur_res, disk, old, plan, pos, ret, cut>>
      BY <1>7 DEF vars
    <3>2. /\ \A x : Right(x)' <=> Right(x)
          /\ \A x : WellFormed(x)' <=> WellFormed(x)
          /\ Failure' = Failure /\ (Desk' <=> Desk)
      BY <3>1, SameSystem
    <3>3. WellFormed(old)' <=> WellFormed(old)
      <4>1. WellFormed(old)' <=> WellFormed(old')
        BY <3>2
      <4> QED
        BY <3>1, <4>1
    <3>4. Right(disk)' <=> Right(disk)
      <4>1. Right(disk)' <=> Right(disk')
        BY <3>2
      <4> QED
        BY <3>1, <4>1
    <3>5. /\ Right(Written(plan, disk))' <=> Right(Written(plan, disk))
          /\ Right(Put(disk, pos, Rest(plan.chunks)))' <=>
                Right(Put(disk, pos, Rest(plan.chunks)))
      <4>1. /\ Right(Written(plan, disk))' <=> Right(Written(plan', disk'))
            /\ Right(Put(disk, pos, Rest(plan.chunks)))' <=>
                  Right(Put(disk', pos', Rest(plan'.chunks)))
        BY <3>2 DEF Written
      <4> QED
        BY <3>1, <4>1
    <3> QED
      BY <3>1, <3>2, <3>3, <3>4, <3>5 DEF Inv, ContentInv
  <2> QED
    BY <1>1, <2>1 DEF Inv
<1> QED
  BY <1>2, <1>3, <1>4, <1>5, <1>6, <1>7 DEF Next

LEMMA InitInv == Init => Inv
BY InitTypeInv DEF Init, IInv, ContentInv, Inv

(* Only a fault cuts a write short. *)
LEMMA NotCut ==
    ASSUME "write" \notin Faults
    PROVE  TypeInv /\ ~cut /\ [Next]_vars => ~cut'
<1> SUFFICES ASSUME TypeInv, ~cut, [Next]_vars PROVE ~cut'
  OBVIOUS
<1>1. CASE Write
  <2> DEFINE chunk == Head(plan.chunks)
  <2>1. plan.chunks # <<>>
    BY <1>1 DEF Write
  <2>2. Len(chunk) \in Nat
    BY <2>1, RestHead, TextLen DEF TypeInv, IsPlan
  <2>3. cut' = (cut \/ Len(chunk) < Len(chunk))
    BY <1>1 DEF Write
  <2> HIDE DEF chunk
  <2>4. ~(Len(chunk) < Len(chunk))
    BY <2>2
  <2> QED
    BY <2>3, <2>4, Zenon
<1>2. CASE ~Write
  BY <1>2 DEF Next, Load, Open, Close, Again, vars
<1> QED
  BY <1>1, <1>2

(* A save of any file as the program expects it succeeds, and what the AES or
   fVDI will read is the confirmed mode, in the one place where it looks. *)
THEOREM SavedCorrect ==
    ASSUME ~Text(NoFile), Faults = {}
    PROVE  Spec => []SavedIsOnDisk
<1>1. "write" \notin Faults
  OBVIOUS
<1>2. Inv /\ ~cut => SavedIsOnDisk
  BY DEF Inv, ContentInv, SavedIsOnDisk, Right, Good
<1>3. Init => Inv /\ ~cut
  BY InitInv DEF Init
<1>4. Inv /\ ~cut /\ [Next]_vars => (Inv /\ ~cut)'
  BY <1>1, ContentStep, NotCut DEF Inv
<1> QED
  BY <1>2, <1>3, <1>4, PTL DEF Spec

(* Unless the disk was full, such a file can be worked with again after the
   save, however long the text of the mode and of the one before it are, whatever
   the order of the lines and the drivers, and however a step failed: it holds
   up for any number of saves. *)
THEOREM UsableCorrect ==
    ASSUME ~Text(NoFile)
    PROVE  Spec => StaysUsable
<1>1. Inv /\ Inv' /\ [Next]_vars =>
         [pc' = "done" /\ WellFormed(old) /\ ~cut => WellFormed(disk')]_vars
  <2> SUFFICES ASSUME Inv, Inv', Next, pc' = "done", WellFormed(old), ~cut
               PROVE  WellFormed(disk')
    BY Zenon
  <2>1. ~Again
    BY DEF Again
  <2>2. UNCHANGED <<aes, fvdi, cur_res, old>>
    BY <2>1 DEF Next, Load, Open, Write, Close
  <2>3. /\ \A x : Right(x)' <=> Right(x)
        /\ \A x : WellFormed(x)' <=> WellFormed(x)
    BY <2>2, SameSystem
  <2>4. WellFormed(old)' <=> WellFormed(old)
    <3>1. WellFormed(old)' <=> WellFormed(old')
      BY <2>3
    <3> QED
      BY <2>2, <3>1
  <2>8. ~cut'
    BY DEF Next, Load, Open, Write, Close, Again, Inv, IInv
  <2>5. Right(disk)' \/ disk' = old'
    BY <2>4, <2>8 DEF Inv, ContentInv
  <2>6. CASE Right(disk)'
    <3>1. Right(disk')
      BY <2>3, <2>6
    <3> QED
      BY <3>1 DEF Right, Good
  <2>7. CASE disk' = old'
    BY <2>2, <2>7
  <2> QED
    BY <2>5, <2>6, <2>7
<1> QED
  BY <1>1, InitInv, ContentStep, PTL DEF Spec, StaysUsable

--------------------------------------------------------------------------------
(***************************************************************************)
(* A save is one step of the store                                         *)
(***************************************************************************)
(* What is written tells the mode: rez and vmode together, as ModeTables'
   CodeTellsMode says they do, and where a desktop's file is written, which has
   room for one of them, vmode or else rez, as WordTellsMode says. *)
ToldApart ==
    /\ \A m, n \in Chosen : m.rez = n.rez /\ m.vmode = n.vmode => m = n
    /\ (\E s \in Systems : s[1] \in DeskTargets /\ ~s[2]) =>
          \A m, n \in Chosen :
             m.vmode = n.vmode /\ (m.vmode = 0 => m.rez = n.rez) => m = n

LEMMA PrefixTells ==
    ASSUME NEW s, NEW t, Len(s) \in Nat, IsPrefix(s, t), NEW i \in 1 .. Len(s)
    PROVE  s[i] = t[i]
<1>1. SubSeq(s, 1, Len(s)) = SubSeq(t, 1, Len(s))
  BY DEF IsPrefix
<1>2. SubSeq(s, 1, Len(s))[i] = s[i] /\ SubSeq(t, 1, Len(s))[i] = t[i]
  BY TextSub
<1> QED
  BY <1>1, <1>2

LEMMA ValueTells ==
    ASSUME NEW key, NEW v, NEW t, key # NL, Value(v), IsPrefix(<<key>> \o v, t)
    PROVE  (<<key>> \o v)[1] = key /\ t[2] = v[1]
<1> DEFINE s == <<key>> \o v
           w == EntryOf(key, v)
<1>1. Line(w) /\ IsPrefix(s, w) /\ w[2] = v[1] /\ s[1] = key
  BY LineOfEntry
<1>2. Len(s) \in Nat /\ 2 \in 1 .. Len(s)
  <2> DEFINE k == <<key>>
  <2>1. k \in Seq({key}) /\ Len(k) = 1
    OBVIOUS
  <2> HIDE DEF k
  <2>2. Text(k) /\ Text(v) /\ Len(v) \in Nat \ {0}
    BY <2>1 DEF Value, Text
  <2>3. Len(k \o v) = Len(k) + Len(v)
    BY <2>2, TextJoin
  <2>4. Len(k \o v) \in Nat /\ Len(k \o v) >= 2
    BY <2>1, <2>2, <2>3
  <2>5. Len(s) \in Nat /\ Len(s) >= 2
    BY <2>4 DEF k
  <2> HIDE DEF s
  <2> QED
    BY <2>5
<1> HIDE DEF w
<1>3. s[2] = t[2]
  <2>1. IsPrefix(s, t)
    OBVIOUS
  <2> HIDE DEF s
  <2> QED
    BY <1>2, <2>1, PrefixTells
<1>4. s[2] = w[2]
  <2>1. IsPrefix(s, w)
    BY <1>1
  <2> HIDE DEF s
  <2> QED
    BY <1>2, <2>1, PrefixTells
<1> QED
  BY <1>1, <1>3, <1>4

LEMMA TripleTells ==
    ASSUME NEW key, NEW x, NEW y, NEW t, IsPrefix(<<key, x, y>>, t)
    PROVE  t[2] = x /\ t[3] = y
<1> DEFINE s == <<key, x, y>>
<1>1. Len(s) = 3 /\ s[2] = x /\ s[3] = y
  OBVIOUS
<1> HIDE DEF s
<1>2. s[2] = t[2] /\ s[3] = t[3]
  BY <1>1, PrefixTells DEF s
<1> QED
  BY <1>1, <1>2

LEMMA NumTells ==
    /\ \A x, y : Num(x) = Num(y) => x = y
    /\ \A x, y : ModeName(x) = ModeName(y) => x = y
BY DEF Num, ModeName

(* A file does not hold two modes of the same kind of hardware. *)
LEMMA OneMode ==
    ASSUME ToldApart, <<aes, fvdi>> \in Systems, NEW b, WellFormed(b), Text(b),
           NEW m \in Chosen, NEW n \in Chosen,
           HoldsMode(b, m), HoldsMode(b, n), Kind(m) = Kind(n)
    PROVE  m = n
<1>1. IsMode(m) /\ IsMode(n)
  BY SaveAssumption
<1>2. CASE Desk
  <2>1. HoldsDesk(b, m) /\ HoldsDesk(b, n)
    BY <1>2 DEF HoldsMode
  <2>2. m.vmode \in Nat /\ n.vmode \in Nat /\ m.rez \in Int /\ n.rez \in Int
    BY <1>1 DEF IsMode
  <2>3. (m.vmode = 0) <=> (n.vmode = 0)
    BY DEF Kind
  <2>6. m.vmode = n.vmode /\ (m.vmode = 0 => m.rez = n.rez) => m = n
    <3> DEFINE s == <<aes, fvdi>>
    <3>1. s \in Systems /\ s[1] \in DeskTargets /\ ~s[2]
      BY <1>2 DEF Desk, Target, DeskTargets
    <3> QED
      BY <3>1 DEF ToldApart
  <2>4. CASE m.vmode = 0
    <3>1. m.rez - 2 = n.rez - 2
      BY <2>1, <2>3, <2>4, NumTells DEF HoldsDesk
    <3> QED
      BY <2>2, <2>3, <2>4, <2>6, <3>1
  <2>5. CASE m.vmode # 0
    <3>1. m.vmode \div 256 = n.vmode \div 256 /\ m.vmode % 256 = n.vmode % 256
      BY <2>1, <2>3, <2>5, NumTells DEF HoldsDesk
    <3>2. m.vmode = n.vmode
      BY <2>2, <3>1
    <3> QED
      BY <2>5, <2>6, <3>2
  <2> QED
    BY <2>4, <2>5
<1>3. \A l \in {m, n} : \A s \in Setting(b, l) : IsPrefix(s, OnlyLine(b, s[1]))
  BY DEF HoldsMode
<1>4. CASE Target = "magic"
  <2> DEFINE t == OnlyLine(b, Word("#_DEV"))
  <2>1. ASSUME NEW l \in {m, n} PROVE t[2] = Num(l.rez) /\ t[3] = Num(l.vmode)
    <3> DEFINE s == <<Word("#_DEV"), Num(l.rez), Num(l.vmode)>>
    <3>1. s \in Setting(b, l) /\ s[1] = Word("#_DEV")
      BY <1>4 DEF Setting
    <3>2. IsPrefix(s, t)
      BY <1>3, <3>1
    <3> HIDE DEF t
    <3> QED
      BY <3>2, TripleTells
  <2> HIDE DEF t
  <2>2. m.rez = n.rez /\ m.vmode = n.vmode
    BY <2>1, NumTells
  <2> QED
    BY <2>2 DEF ToldApart
<1>5. CASE Target = "xaaes"
  <2> DEFINE t == OnlyLine(b, Word("SCREENDEV"))
             u == OnlyLine(b, Word("MODECODE"))
  <2>1. ASSUME NEW l \in {m, n} PROVE t[2] = Num(l.rez) /\ u[2] = Num(l.vmode)
    <3> DEFINE x == Decimal(l.rez)
               y == <<Num(l.vmode)>>
               s == <<Word("SCREENDEV")>> \o x
               r == <<Word("MODECODE")>> \o y
    <3>1. s \in Setting(b, l) /\ r \in Setting(b, l)
      BY <1>5 DEF Setting
    <3>2. /\ Value(x) /\ x[1] = Num(l.rez)
          /\ Value(y) /\ y[1] = Num(l.vmode)
          /\ Word("SCREENDEV") # NL /\ Word("MODECODE") # NL
      BY DecimalValue, NumValue, Tokens
    <3>3. s[1] = Word("SCREENDEV") /\ r[1] = Word("MODECODE")
      <4> HIDE DEF x, y
      <4> QED
        BY <3>2, LineOfEntry
    <3>4. IsPrefix(s, t) /\ IsPrefix(r, u)
      BY <1>3, <3>1, <3>3
    <3> HIDE DEF t, u, x, y
    <3> QED
      BY <3>2, <3>4, ValueTells
  <2> HIDE DEF t, u
  <2>2. m.rez = n.rez /\ m.vmode = n.vmode
    BY <2>1, NumTells
  <2> QED
    BY <2>2 DEF ToldApart
<1>6. CASE Target = "myaes"
  <2> DEFINE t == OnlyLine(b, Word("rezmode"))
             u == OnlyLine(b, Word("vsetmode"))
  <2>1. ASSUME NEW l \in {m, n}
        PROVE  t[2] = Num(l.rez - 2) /\ u[2] = Num(l.vmode)
    <3> DEFINE x == Decimal(l.rez - 2)
               y == Decimal(l.vmode)
               s == <<Word("rezmode")>> \o x
               r == <<Word("vsetmode")>> \o y
    <3>1. s \in Setting(b, l) /\ r \in Setting(b, l)
      BY <1>6 DEF Setting
    <3>2. /\ Value(x) /\ x[1] = Num(l.rez - 2)
          /\ Value(y) /\ y[1] = Num(l.vmode)
          /\ Word("rezmode") # NL /\ Word("vsetmode") # NL
      BY DecimalValue, Tokens
    <3>3. s[1] = Word("rezmode") /\ r[1] = Word("vsetmode")
      <4> HIDE DEF x, y
      <4> QED
        BY <3>2, LineOfEntry
    <3>4. IsPrefix(s, t) /\ IsPrefix(r, u)
      BY <1>3, <3>1, <3>3
    <3> HIDE DEF t, u, x, y
    <3> QED
      BY <3>2, <3>4, ValueTells
  <2> HIDE DEF t, u
  <2>2. m.rez - 2 = n.rez - 2 /\ m.vmode = n.vmode
    BY <2>1, NumTells
  <2>3. m.rez = n.rez
    BY <1>1, <2>2 DEF IsMode
  <2> QED
    BY <2>2, <2>3 DEF ToldApart
<1>7. CASE Target = "fvdi"
  <2> DEFINE t == OnlyLine(b, Word("01r"))
  <2>1. ASSUME NEW l \in {m, n} PROVE t[3] = ModeName(l)
    <3>1. Once(b, Driver(l.planes))
      BY <1>7 DEF WellFormed
    <3>2. PICK i : i \in Found(b, Driver(l.planes)) \ {Len(b)}
      <4> DEFINE F == Found(b, Driver(l.planes))
      <4>1. F # {}
        <5>1. Cardinality(F) = 1
          BY <3>1 DEF Once
        <5> HIDE DEF F
        <5> QED
          BY <5>1, FS_EmptySet
      <4>2. PICK i \in F : LineEnd(b, i) < Len(b)
        BY <3>1, <4>1 DEF Once
      <4>3. i \in 1 .. Len(b)
        BY <4>2 DEF Found, Starts, Text
      <4>4. LineEnd(b, i) \in i .. Len(b) /\ Len(b) \in Nat
        BY <4>3, LineEndType, TextLen
      <4>5. i # Len(b)
        BY <4>2, <4>3, <4>4
      <4> QED
        BY <4>2, <4>5
    <3> DEFINE s == <<Word("01r"), b[i + 1], ModeName(l)>>
    <3>3. s \in Setting(b, l) /\ s[1] = Word("01r")
      BY <1>7, <3>2 DEF Setting
    <3>4. IsPrefix(s, t)
      BY <1>3, <3>3
    <3> HIDE DEF t
    <3> QED
      BY <3>4, TripleTells
  <2> HIDE DEF t
  <2> QED
    BY <2>1, NumTells
<1>8. Target # "geneva"
  BY DEF WellFormed
<1>9. aes \in AESes
  <2> DEFINE s == <<aes, fvdi>>
  <2>1. s \in AESes \X BOOLEAN /\ s[1] = aes
    BY SaveAssumption
  <2> QED
    BY <2>1
<1> QED
  BY <1>2, <1>4, <1>5, <1>6, <1>7, <1>8, <1>9
     DEF Desk, DeskTargets, Target, AESes

(* The file was as the program expects it when the program was started, and no
   write was cut short. *)
StoreInv == Inv /\ ~cut /\ WellFormed(old)

LEMMA StoreInvStep ==
    ASSUME ~Text(NoFile), "write" \notin Faults, StoreInv, [Next]_vars
    PROVE  StoreInv'
<1>1. Inv' /\ ~cut'
  BY ContentStep, NotCut DEF StoreInv, Inv
<1>2. UNCHANGED <<aes, fvdi>>
  BY DEF Next, Load, Open, Write, Close, Again, vars
<1>3. \A x : WellFormed(x)' <=> WellFormed(x)
  BY <1>2, SameTarget
<1>4. WellFormed(old')
  <2>1. CASE old' = old
    BY <2>1 DEF StoreInv
  <2>2. CASE Again
    <3>1. old' = disk /\ pc = "done"
      BY <2>2 DEF Again
    <3>2. Right(disk) \/ disk = old
      BY <3>1 DEF StoreInv, Inv, ContentInv
    <3> QED
      BY <3>1, <3>2 DEF StoreInv, Right, Good
  <2> QED
    BY <2>1, <2>2 DEF Next, Load, Open, Write, Close, vars
<1> QED
  BY <1>1, <1>3, <1>4 DEF StoreInv

(* what a reader finds in the file *)
Stored(b) == {m \in Chosen : b # NoFile /\ HoldsMode(b, m)}

(* of the confirmed mode's kind it finds that mode only *)
LEMMA ReadsChosen ==
    ASSUME ToldApart, <<aes, fvdi>> \in Systems, cur_res \in Chosen, NEW b, b # NoFile,
           Good(b)
    PROVE  {n \in Stored(b) : Kind(n) = Kind(cur_res)} = {cur_res}
<1>1. HoldsMode(b, cur_res)
  BY DEF Good, Holds
<1>2. \A n \in Stored(b) : Kind(n) = Kind(cur_res) => n = cur_res
  BY <1>1, OneMode DEF Good, Stored
<1> QED
  BY <1>1, <1>2 DEF Stored

LEMMA StoreUnfold ==
    /\ visible' = visible /\ UNCHANGED <<aes, fvdi>> =>
          /\ Stored(visible)' = Stored(visible)
          /\ OthersOf(visible)' = OthersOf(visible)
          /\ cur_res' = cur_res => Shorter(visible)' = Shorter(visible)
    /\ UNCHANGED <<aes, fvdi>> =>
          /\ Desk' = Desk
          /\ OthersOf(default_newdesk)' = OthersOf(default_newdesk)
<1> SUFFICES ASSUME UNCHANGED <<aes, fvdi>>
             PROVE  /\ visible' = visible =>
                          /\ Stored(visible)' = Stored(visible)
                          /\ OthersOf(visible)' = OthersOf(visible)
                          /\ cur_res' = cur_res =>
                                Shorter(visible)' = Shorter(visible)
                    /\ Desk' = Desk
                    /\ OthersOf(default_newdesk)' = OthersOf(default_newdesk)
  OBVIOUS
<1>1. /\ \A x, m : HoldsMode(x, m)' <=> HoldsMode(x, m)
      /\ \A x : OthersOf(x)' = OthersOf(x)
      /\ Desk' = Desk
      /\ cur_res' = cur_res => \A x : Shorter(x)' <=> Shorter(x)
  BY SameTarget
<1>2. OthersOf(visible)' = OthersOf(visible')
  BY <1>1
<1>3. Stored(visible)' = Stored(visible')
  BY <1>1 DEF Stored
<1>4. visible' = visible /\ cur_res' = cur_res =>
         Shorter(visible)' = Shorter(visible)
  <2> SUFFICES ASSUME visible' = visible, cur_res' = cur_res
               PROVE  Shorter(visible)' = Shorter(visible)
    OBVIOUS
  <2>1. Shorter(visible)' <=> Shorter(visible')
    BY <1>1
  <2>2. Shorter(visible)' \in BOOLEAN /\ Shorter(visible) \in BOOLEAN
    BY DEF Shorter
  <2> QED
    BY <2>1, <2>2
<1> QED
  BY <1>1, <1>2, <1>3, <1>4

(* what the result says, for the store *)
Status == IF pc # "done" THEN "busy" ELSE IF ret = 1 THEN "saved" ELSE "failed"

(* a step that a reader of the file does not see *)
LEMMA StoreStutters ==
    ASSUME UNCHANGED <<aes, fvdi, cur_res>>, visible' = visible, Status' = Status
    PROVE  UNCHANGED Store!vars
<1>1. /\ Stored(visible)' = Stored(visible)
      /\ OthersOf(visible)' = OthersOf(visible)
      /\ Shorter(visible)' = Shorter(visible)
      /\ Desk' = Desk
      /\ OthersOf(default_newdesk)' = OthersOf(default_newdesk)
  BY StoreUnfold
<1> QED
  BY <1>1 DEF Store!vars, Store!system, Stored, Status

(* a save that gives up *)
LEMMA StoreFails ==
    ASSUME UNCHANGED <<aes, fvdi, cur_res>>, visible' = visible, pc # "done",
           pc' = "done", ret' # 1
    PROVE  Store!Fail
<1>1. /\ Stored(visible)' = Stored(visible)
      /\ OthersOf(visible)' = OthersOf(visible)
      /\ Shorter(visible)' = Shorter(visible)
      /\ Desk' = Desk
      /\ OthersOf(default_newdesk)' = OthersOf(default_newdesk)
  BY StoreUnfold
<1> QED
  BY <1>1 DEF Store!Fail, Store!Finish, Store!system, Stored

(* a desktop's save that could not open the file *)
LEMMA StorePretends ==
    ASSUME UNCHANGED <<aes, fvdi, cur_res>>, visible' = visible, pc # "done",
           pc' = "done", ret' = 1, Desk
    PROVE  Store!Pretend
<1>1. /\ Stored(visible)' = Stored(visible)
      /\ OthersOf(visible)' = OthersOf(visible)
      /\ Shorter(visible)' = Shorter(visible)
      /\ Desk' = Desk
      /\ OthersOf(default_newdesk)' = OthersOf(default_newdesk)
  BY StoreUnfold
<1> QED
  BY <1>1 DEF Store!Pretend, Store!Finish, Store!system, Stored

(* the program is started once more *)
LEMMA StoreWants ==
    ASSUME UNCHANGED <<aes, fvdi>>, visible' = visible, pc = "done",
           pc' # "done", cur_res' \in Chosen
    PROVE  Store!Want
<1>1. /\ Stored(visible)' = Stored(visible)
      /\ OthersOf(visible)' = OthersOf(visible)
      /\ Desk' = Desk
      /\ OthersOf(default_newdesk)' = OthersOf(default_newdesk)
  BY StoreUnfold
<1>2. Shorter(visible)' \in BOOLEAN
  BY DEF Shorter
<1> QED
  BY <1>1, <1>2 DEF Store!Want, Store!system, Stored

(* a save that has written the file *)
LEMMA StoreSaves ==
    ASSUME ToldApart, <<aes, fvdi>> \in Systems, cur_res \in Chosen, ~Text(NoFile),
           UNCHANGED <<aes, fvdi, cur_res>>, pc # "done", pc' = "done", ret' = 1,
           Good(visible'),
           \/ Keeps(visible', visible)
           \/ Desk /\ Keeps(visible', default_newdesk)
    PROVE  Store!Save \/ Store!Litter \/ Store!StartOver
<1>1. /\ \A x, m : HoldsMode(x, m)' <=> HoldsMode(x, m)
      /\ \A x : OthersOf(x)' = OthersOf(x)
      /\ Desk' = Desk
      /\ \A x : Shorter(x)' <=> Shorter(x)
  BY SameTarget
<1>2. Stored(visible)' = Stored(visible')
  BY <1>1 DEF Stored
<1>3. /\ OthersOf(visible)' = OthersOf(visible')
      /\ OthersOf(default_newdesk)' = OthersOf(default_newdesk)
  BY <1>1
<1>4. visible' # NoFile /\ ~Shorter(visible)'
  <2>1. Shorter(visible)' <=> Shorter(visible')
    BY <1>1
  <2> QED
    BY <2>1 DEF Good
<1>5. {n \in Stored(visible') : Kind(n) = Kind(cur_res)} = {cur_res}
  BY <1>4, ReadsChosen
<1>6. /\ Stored(visible)' \in SUBSET Chosen
      /\ {n \in Stored(visible)' : Kind(n) = Kind(cur_res')} = {cur_res'}
  BY <1>2, <1>5 DEF Stored
<1>7. Store!StoreWanted
  <2>1. Shorter(visible)' = FALSE
    BY <1>4 DEF Shorter
  <2> QED
    BY <1>6, <2>1 DEF Store!StoreWanted, Store!ReadsOnly, Stored, Kind
<1>8. Store!Finish("saved")
  BY <1>1, <1>3 DEF Store!Finish, Store!system
<1>9. CASE Keeps(visible', visible)
  <2>1. CASE ~Shorter(visible)
    <3>1. OthersOf(visible)' = OthersOf(visible)
      BY <1>3, <1>9, <2>1 DEF Keeps
    <3> QED
      BY <1>7, <1>8, <2>1, <3>1 DEF Store!Save
  <2>2. CASE Shorter(visible)
    <3>1. OthersOf(visible) \subseteq OthersOf(visible)'
      BY <1>3, <1>9 DEF Keeps
    <3> QED
      BY <1>7, <1>8, <2>2, <3>1 DEF Store!Litter
  <2> QED
    BY <2>1, <2>2
<1>10. CASE Desk /\ Keeps(visible', default_newdesk)
  <2>1. ~Shorter(default_newdesk)
    BY <1>10 DEF Shorter, Overwritten, Desk, DeskTargets
  <2>2. OthersOf(visible)' = OthersOf(default_newdesk)
    BY <1>3, <1>10, <2>1 DEF Keeps
  <2> QED
    BY <1>7, <1>8, <1>10, <2>2 DEF Store!StartOver
<1> QED
  BY <1>9, <1>10

LEMMA StoreStep ==
    ASSUME ToldApart, ~Text(NoFile), StoreInv, StoreInv', [Next]_vars
    PROVE  [Store!Next]_(Store!vars)
<1>1. /\ <<aes, fvdi>> \in Systems /\ cur_res \in Chosen
      /\ pc \in {"load", "open"} => disk = old
      /\ WellFormed(old)
  BY DEF StoreInv, Inv, TypeInv, IInv
<1>2. CASE Load
  <2>1. /\ UNCHANGED <<aes, fvdi, cur_res, disk, old>> /\ pc = "load"
        /\ \/ pc' = "open"
           \/ pc' = "done" /\ ret' = Failure
    BY <1>2 DEF Load, Return
  <2>2. visible' = visible
    BY <2>1 DEF visible
  <2>3. Failure # 1
    BY DEF Failure
  <2>4. CASE pc' = "open"
    BY <2>1, <2>2, <2>4, StoreStutters DEF Status
  <2>5. CASE pc' = "done" /\ ret' = Failure
    <3>1. Store!Fail
      BY <2>1, <2>2, <2>3, <2>5, StoreFails
    <3> QED
      BY <3>1 DEF Store!Next
  <2> QED
    BY <2>1, <2>4, <2>5
<1>3. CASE Open
  <2>1. /\ UNCHANGED <<aes, fvdi, cur_res, old>> /\ pc = "open"
        /\ disk = old
    BY <1>1, <1>3 DEF Open
  <2>2. CASE pc' = "write"
    <3>1. visible' = visible
      BY <2>1, <2>2 DEF visible
    <3> QED
      BY <2>1, <2>2, <3>1, StoreStutters DEF Status
  <2>3. CASE pc' = "done" /\ disk' = disk
    <3>1. visible' = visible
      BY <2>1, <2>3 DEF visible
    <3>2. CASE ret' # 1
      <4>1. Store!Fail
        BY <2>1, <2>3, <3>1, <3>2, StoreFails
      <4> QED
        BY <4>1 DEF Store!Next
    <3>3. CASE ret' = 1
      <4>1. Desk
        <5>1. ~plan.checked
          BY <1>3, <2>3, <3>3 DEF Open, Return, Failure
        <5> QED
          BY <2>1, <5>1 DEF StoreInv, Inv, ContentInv
      <4>2. Store!Pretend
        BY <2>1, <2>3, <3>1, <3>3, <4>1, StorePretends
      <4> QED
        BY <4>2 DEF Store!Next
    <3> QED
      BY <3>2, <3>3
  <2> QED
    BY <1>3, <2>2, <2>3 DEF Open, Return
<1>4. CASE Write
  <2>1. /\ UNCHANGED <<aes, fvdi, cur_res, old>> /\ pc = "write" /\ pc' = "write"
    BY <1>4 DEF Write
  <2>2. visible' = visible
    BY <2>1 DEF visible
  <2> QED
    BY <2>1, <2>2, StoreStutters DEF Status
<1>5. CASE Close
  <2>1. /\ UNCHANGED <<aes, fvdi, cur_res, disk, old>> /\ pc = "write"
        /\ pc' = "done" /\ ret' = 1
    BY <1>5 DEF Close, Return
  <2>2. visible = old /\ visible' = disk'
    BY <2>1 DEF visible
  <2>3. Right(disk)
    BY <1>1, <1>5, ContentClosed DEF StoreInv, Close
  <2>4. /\ Good(visible')
        /\ \/ Keeps(visible', visible)
           \/ Desk /\ Keeps(visible', default_newdesk)
    BY <2>1, <2>2, <2>3 DEF Right
  <2>5. Store!Save \/ Store!Litter \/ Store!StartOver
    BY <1>1, <2>1, <2>4, StoreSaves
  <2> QED
    BY <2>5 DEF Store!Next
<1>6. CASE Again
  <2>1. /\ UNCHANGED <<aes, fvdi, disk>> /\ pc = "done" /\ pc' = "load"
        /\ cur_res' \in Chosen
    BY <1>6 DEF Again
  <2>2. visible' = visible
    BY <2>1 DEF visible
  <2>3. Store!Want
    BY <2>1, <2>2, StoreWants
  <2> QED
    BY <2>3 DEF Store!Next
<1>7. CASE UNCHANGED vars
  <2>1. UNCHANGED <<pc, aes, fvdi, cur_res, disk, old, ret>>
    BY <1>7 DEF vars
  <2>2. visible' = visible /\ Status' = Status
    BY <2>1 DEF visible, Status
  <2> QED
    BY <2>1, <2>2, StoreStutters
<1> QED
  BY <1>2, <1>3, <1>4, <1>5, <1>6, <1>7 DEF Next

LEMMA StoreInit == Init => Store!Init
<1> SUFFICES ASSUME Init PROVE Store!Init
  OBVIOUS
<1>1. cur_res \in Chosen /\ pc = "load"
  BY DEF Init
<1>2. Desk \in BOOLEAN /\ Shorter(visible) \in BOOLEAN
  BY DEF Desk, Shorter
<1> QED
  BY <1>1, <1>2 DEF Store!Init

(* For a file as the program expects it, and whatever goes wrong before the file
   is written, each run of the program is one step of the store: the mode is
   replaced, and all other lines stay in their order, or nothing changes and the
   result says so.  Where the file is not truncated and the mode takes less room
   than the one before it, the other lines stay in their order and the end of the
   old text joins them; the desktops' three ways out are those that the store
   allows. *)
THEOREM StoreImplemented ==
    ASSUME ~Text(NoFile), "write" \notin Faults, ToldApart
    PROVE  Spec /\ WellFormed(old) => StoresMode
<1>1. Init /\ WellFormed(old) => StoreInv
  BY InitInv DEF StoreInv, Init
<1>2. StoreInv /\ [Next]_vars => StoreInv'
  BY StoreInvStep
<1>3. StoreInv /\ StoreInv' /\ [Next]_vars => [Store!Next]_(Store!vars)
  BY StoreStep
<1> QED
  BY <1>1, <1>2, <1>3, StoreInit, PTL DEF Spec, StoresMode, Store!Spec
================================================================================
