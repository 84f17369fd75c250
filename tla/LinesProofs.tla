------------------------------ MODULE LinesProofs ------------------------------
(***************************************************************************)
(* What the line operations of ConfigLines do to a text: where a line ends *)
(* up when others are taken out or put in around it.                       *)
(***************************************************************************)
EXTENDS ConfigLines, SequenceTheorems, FiniteSetTheorems, NaturalsInduction, TLAPS

Text(b) == \E S : b \in Seq(S)

(* a text of whole lines, and one line with its end *)
Whole(a) == Text(a) /\ (a = <<>> \/ a[Len(a)] = NL)

Line(w) ==
    /\ Text(w) /\ w # <<>>
    /\ w[Len(w)] = NL
    /\ \A i \in 1 .. Len(w) - 1 : w[i] # NL

None(b, key) == Found(b, key) = {}

(* w is the only line with the key, and in Has there is something after it *)
HasIn(b, key, w) ==
    \E i \in 1 .. Len(b) : Found(b, key) = {i} /\ w = SubSeq(b, i, LineEnd(b, i))

Has(b, key, w) ==
    \E i \in 1 .. Len(b) :
        /\ Found(b, key) = {i}
        /\ LineEnd(b, i) < Len(b)
        /\ w = SubSeq(b, i, LineEnd(b, i))

(* b is a, the line w, and c, which is not empty; the key is that of w only *)
Parts(b, key, w, a, c) ==
    /\ Whole(a) /\ Line(w) /\ Text(c) /\ c # <<>>
    /\ b = a \o (w \o c)
    /\ w[1] = key /\ None(a, key) /\ None(c, key)

--------------------------------------------------------------------------------
(***************************************************************************)
(* Texts                                                                   *)
(***************************************************************************)
LEMMA TextPair ==
    ASSUME NEW a, NEW b, Text(a), Text(b)
    PROVE  \E S : a \in Seq(S) /\ b \in Seq(S)
<1>1. PICK S : a \in Seq(S)
  BY DEF Text
<1>2. PICK T : b \in Seq(T)
  BY DEF Text
<1>3. a \in Seq(S \union T) /\ b \in Seq(S \union T)
  BY <1>1, <1>2, SeqMonotonic
<1> QED
  BY <1>3

LEMMA TextLen ==
    ASSUME NEW b, Text(b)
    PROVE  Len(b) \in Nat /\ (b = <<>> <=> Len(b) = 0) /\ DOMAIN b = 1 .. Len(b)
BY DEF Text

LEMMA TextEqual ==
    ASSUME NEW a, NEW b, Text(a), Text(b), Len(a) = Len(b),
           \A i \in 1 .. Len(a) : a[i] = b[i]
    PROVE  a = b
<1>1. PICK S : a \in Seq(S) /\ b \in Seq(S)
  BY TextPair
<1> QED
  BY <1>1, SeqEqual

LEMMA TextJoin ==
    ASSUME NEW a, NEW b, Text(a), Text(b)
    PROVE  /\ Text(a \o b)
           /\ Len(a \o b) = Len(a) + Len(b)
           /\ \A i \in 1 .. Len(a) : (a \o b)[i] = a[i]
           /\ \A i \in 1 .. Len(b) : (a \o b)[Len(a) + i] = b[i]
<1>1. PICK S : a \in Seq(S) /\ b \in Seq(S)
  BY TextPair
<1>2. a \o b \in Seq(S)
  BY <1>1
<1> QED
  BY <1>1, <1>2 DEF Text

Associate(a, b, c) == (a \o b) \o c = a \o (b \o c)

LEMMA JoinAssociative ==
    ASSUME NEW a, NEW b, NEW c, Text(a), Text(b), Text(c)
    PROVE  Associate(a, b, c)
<1>1. Text(a \o b) /\ Text(b \o c)
  BY TextJoin
<1>2. PICK S : a \o b \in Seq(S) /\ b \o c \in Seq(S)
  BY <1>1, TextPair
<1>3. PICK T : a \in Seq(T) /\ b \in Seq(T)
  BY TextPair
<1>4. PICK U : b \in Seq(U) /\ c \in Seq(U)
  BY TextPair
<1>5. a \in Seq(T \union U) /\ b \in Seq(T \union U) /\ c \in Seq(T \union U)
  BY <1>3, <1>4, SeqMonotonic
<1> QED
  BY <1>5, ConcatAssociative DEF Associate

LEMMA JoinEmpty ==
    ASSUME NEW a, Text(a)
    PROVE  a \o <<>> = a /\ <<>> \o a = a /\ Text(<<>>)
<1>1. PICK S : a \in Seq(S)
  BY DEF Text
<1>2. <<>> \in Seq(S)
  OBVIOUS
<1> QED
  BY <1>1, <1>2, ConcatEmptySeq DEF Text

LEMMA TextSub ==
    ASSUME NEW b, NEW m \in Int, NEW n \in Int
    PROVE  /\ Text(SubSeq(b, m, n))
           /\ Len(SubSeq(b, m, n)) = IF m <= n THEN n - m + 1 ELSE 0
           /\ \A i \in 1 .. n - m + 1 : SubSeq(b, m, n)[i] = b[m + i - 1]
<1> DEFINE S == {b[i] : i \in m .. n}
<1>1. \A i \in m .. n : b[i] \in S
  OBVIOUS
<1> HIDE DEF S
<1>2. /\ SubSeq(b, m, n) \in Seq(S)
      /\ Len(SubSeq(b, m, n)) = IF m <= n THEN n - m + 1 ELSE 0
      /\ \A i \in 1 .. n - m + 1 : SubSeq(b, m, n)[i] = b[m + i - 1]
  BY <1>1, SubSeqProperties
<1> QED
  BY <1>2 DEF Text

LEMMA TextPrefix ==
    ASSUME NEW b, Text(b), NEW n \in Nat, n <= Len(b)
    PROVE  Text(SubSeq(b, 1, n)) /\ Len(SubSeq(b, 1, n)) = n
<1> DEFINE a == SubSeq(b, 1, n)
<1>1. Text(a) /\ Len(a) = IF 1 <= n THEN n - 1 + 1 ELSE 0
  BY TextSub
<1> HIDE DEF a
<1>2. Len(a) = n
  BY <1>1
<1> QED
  BY <1>1, <1>2 DEF a

(* cutting a text in front of a place gives it back in two parts *)
LEMMA CutJoin ==
    ASSUME NEW a, NEW b, Text(a), Text(b)
    PROVE  /\ Before(a \o b, Len(a) + 1) = a
           /\ From(a \o b, Len(a) + 1) = b
<1>1. Len(a) \in Nat /\ Len(b) \in Nat
  BY TextLen
<1>2. Before(a \o b, Len(a) + 1) = a
  <2> DEFINE x == SubSeq(a \o b, 1, Len(a) + 1 - 1)
  <2>1. Text(x) /\ Len(x) = Len(a) /\ \A i \in 1 .. Len(a) : x[i] = (a \o b)[i]
    BY <1>1, TextSub
  <2>2. \A i \in 1 .. Len(a) : x[i] = a[i]
    BY <2>1, TextJoin
  <2>3. x = a
    <3> HIDE DEF x
    <3> QED
      BY <2>1, <2>2, TextEqual
  <2> QED
    BY <2>3 DEF Before
<1>3. From(a \o b, Len(a) + 1) = b
  <2> DEFINE x == SubSeq(a \o b, Len(a) + 1, Len(a \o b))
  <2>1. Len(a \o b) = Len(a) + Len(b)
    BY TextJoin
  <2>2. /\ Text(x) /\ Len(x) = Len(b)
        /\ \A i \in 1 .. Len(b) : x[i] = (a \o b)[Len(a) + 1 + i - 1]
    BY <1>1, <2>1, TextSub
  <2>3. \A i \in 1 .. Len(b) : x[i] = b[i]
    BY <1>1, <2>2, TextJoin
  <2>4. x = b
    <3> HIDE DEF x
    <3> QED
      BY <2>2, <2>3, TextEqual
  <2> QED
    BY <2>4 DEF From
<1> QED
  BY <1>2, <1>3

(* and the parts of a text give it back when they are joined *)
LEMMA JoinCut ==
    ASSUME NEW b, Text(b), NEW n \in 0 .. Len(b)
    PROVE  b = SubSeq(b, 1, n) \o SubSeq(b, n + 1, Len(b))
<1> DEFINE x == SubSeq(b, 1, n)
           y == SubSeq(b, n + 1, Len(b))
<1>1. Len(b) \in Nat
  BY TextLen
<1>2. Text(x) /\ Len(x) = n /\ \A i \in 1 .. n : x[i] = b[i]
  BY <1>1, TextSub
<1>3. /\ Text(y) /\ Len(y) = Len(b) - n
      /\ \A i \in 1 .. Len(b) - n : y[i] = b[n + i]
  BY <1>1, TextSub
<1> HIDE DEF x, y
<1>4. /\ Text(x \o y) /\ Len(x \o y) = Len(b)
      /\ \A i \in 1 .. n : (x \o y)[i] = x[i]
      /\ \A i \in 1 .. Len(b) - n : (x \o y)[n + i] = y[i]
  BY <1>1, <1>2, <1>3, TextJoin
<1>5. \A i \in 1 .. Len(b) : (x \o y)[i] = b[i]
  <2> TAKE i \in 1 .. Len(b)
  <2>1. CASE i <= n
    BY <1>1, <1>2, <1>4, <2>1
  <2>2. CASE i > n
    <3>1. i - n \in 1 .. Len(b) - n /\ n + (i - n) = i
      BY <1>1, <2>2
    <3>2. (x \o y)[n + (i - n)] = b[n + (i - n)]
      BY <1>3, <1>4, <3>1
    <3> QED
      BY <3>1, <3>2
  <2>3. i <= n \/ i > n
    BY <1>1
  <2> QED
    BY <2>1, <2>2, <2>3
<1>6. b = x \o y
  BY <1>4, <1>5, TextEqual
<1> QED
  BY <1>6 DEF x, y

--------------------------------------------------------------------------------
(***************************************************************************)
(* Lines                                                                   *)
(***************************************************************************)
LEMMA Least ==
    ASSUME NEW E, E \subseteq Nat, E # {}
    PROVE  \E j \in E : \A k \in E : j <= k
<1>1. PICK j \in E : \A k \in E : <<k, j>> \notin OpToRel(<, Nat)
  BY NatLessThanWellFounded, WFMin
<1>2. \A k \in E : ~(k < j)
  BY <1>1 DEF OpToRel
<1>3. \A k \in E : j <= k
  BY <1>2
<1> QED
  BY <1>3

LEMMA LineEndIs ==
    ASSUME NEW b, Text(b), NEW i \in 1 .. Len(b), NEW j \in i .. Len(b),
           b[j] = NL \/ j = Len(b), \A k \in i .. j - 1 : b[k] # NL
    PROVE  LineEnd(b, i) = j
<1> DEFINE P(m) == /\ b[m] = NL \/ m = Len(b)
                   /\ \A k \in i .. m - 1 : b[k] # NL
<1>1. Len(b) \in Nat
  BY TextLen
<1>2. \A m \in i .. Len(b) : P(m) => m = j
  <2> SUFFICES ASSUME NEW m \in i .. Len(b), P(m) PROVE m = j
    OBVIOUS
  <2>1. CASE m < j
    <3>1. m \in i .. j - 1 /\ m # Len(b)
      BY <1>1, <2>1
    <3> QED
      BY <3>1
  <2>2. CASE j < m
    <3>1. j \in i .. m - 1 /\ j # Len(b)
      BY <1>1, <2>2
    <3> QED
      BY <3>1
  <2> QED
    BY <1>1, <2>1, <2>2
<1>3. P(j)
  OBVIOUS
<1> HIDE DEF P
<1>4. (CHOOSE m \in i .. Len(b) : P(m)) = j
  BY <1>2, <1>3
<1> QED
  BY <1>4 DEF LineEnd, P

LEMMA LineEndType ==
    ASSUME NEW b, Text(b), NEW i \in 1 .. Len(b)
    PROVE  /\ LineEnd(b, i) \in i .. Len(b)
           /\ b[LineEnd(b, i)] = NL \/ LineEnd(b, i) = Len(b)
           /\ \A k \in i .. LineEnd(b, i) - 1 : b[k] # NL
<1> DEFINE E == {j \in i .. Len(b) : b[j] = NL \/ j = Len(b)}
<1>1. Len(b) \in Nat
  BY TextLen
<1>2. Len(b) \in E /\ E \subseteq Nat
  BY <1>1
<1>3. PICK j \in E : \A k \in E : j <= k
  <2> HIDE DEF E
  <2> QED
    BY <1>2, Least
<1>5. /\ j \in i .. Len(b) /\ (b[j] = NL \/ j = Len(b))
      /\ \A k \in i .. j - 1 : b[k] # NL
  BY <1>1, <1>3
<1>6. LineEnd(b, i) = j
  BY <1>5, LineEndIs
<1> QED
  BY <1>5, <1>6

(* where the lines of a joined text are *)
LEMMA JoinFound ==
    ASSUME NEW a, NEW b, NEW key, Whole(a), Text(b)
    PROVE  Found(a \o b, key) =
              Found(a, key) \union {Len(a) + i : i \in Found(b, key)}
<1> DEFINE c == a \o b
<1>1. /\ Text(a) /\ Len(a) \in Nat /\ Len(b) \in Nat
      /\ Len(a) # 0 => a[Len(a)] = NL
  BY TextLen DEF Whole
<1>2. /\ Len(c) = Len(a) + Len(b)
      /\ \A i \in 1 .. Len(a) : c[i] = a[i]
      /\ \A i \in 1 .. Len(b) : c[Len(a) + i] = b[i]
  BY <1>1, TextJoin
<1> HIDE DEF c
<1>3. \A i \in 1 .. Len(a) : i \in Starts(c) <=> i \in Starts(a)
  <2> SUFFICES ASSUME NEW i \in 1 .. Len(a) PROVE i \in Starts(c) <=> i \in Starts(a)
    OBVIOUS
  <2>1. i # 1 => i - 1 \in 1 .. Len(a)
    BY <1>1
  <2> QED
    BY <1>1, <1>2, <2>1 DEF Starts
<1>4. \A i \in 1 .. Len(b) : Len(a) + i \in Starts(c) <=> i \in Starts(b)
  <2> SUFFICES ASSUME NEW i \in 1 .. Len(b)
               PROVE  Len(a) + i \in Starts(c) <=> i \in Starts(b)
    OBVIOUS
  <2>1. CASE i = 1
    <3>1. Len(a) + i \in 1 .. Len(c) /\ (Len(a) + i = 1 \/ c[Len(a) + i - 1] = NL)
      BY <1>1, <1>2, <2>1
    <3> QED
      BY <2>1, <3>1 DEF Starts
  <2>2. CASE i # 1
    <3>1. i - 1 \in 1 .. Len(b) /\ Len(a) + i - 1 = Len(a) + (i - 1)
      BY <1>1, <2>2
    <3>2. c[Len(a) + (i - 1)] = b[i - 1]
      BY <1>2, <3>1
    <3>3. Len(a) + i # 1 /\ Len(a) + i \in 1 .. Len(c)
      BY <1>1, <1>2, <3>1
    <3> QED
      BY <2>2, <3>1, <3>2, <3>3 DEF Starts
  <2> QED
    BY <2>1, <2>2
<1>5. Found(c, key) \subseteq Found(a, key) \union {Len(a) + i : i \in Found(b, key)}
  <2> SUFFICES ASSUME NEW j \in Found(c, key)
               PROVE  j \in Found(a, key) \/ \E i \in Found(b, key) : j = Len(a) + i
    OBVIOUS
  <2>1. j \in Starts(c) /\ j \in 1 .. Len(c) /\ c[j] = key
    BY DEF Found, Starts
  <2>2. CASE j <= Len(a)
    BY <1>1, <1>2, <1>3, <2>1, <2>2 DEF Found
  <2>3. CASE j > Len(a)
    <3>1. j - Len(a) \in 1 .. Len(b) /\ j = Len(a) + (j - Len(a))
      BY <1>1, <1>2, <2>1, <2>3
    <3>2. j - Len(a) \in Found(b, key)
      BY <1>2, <1>4, <2>1, <3>1 DEF Found
    <3> QED
      BY <3>1, <3>2
  <2> QED
    BY <1>1, <1>2, <2>1, <2>2, <2>3
<1>6. Found(a, key) \subseteq Found(c, key)
  BY <1>2, <1>3 DEF Found, Starts
<1>7. \A i \in Found(b, key) : Len(a) + i \in Found(c, key)
  <2> TAKE i \in Found(b, key)
  <2>1. i \in 1 .. Len(b) /\ i \in Starts(b) /\ b[i] = key
    BY DEF Found, Starts
  <2> QED
    BY <1>2, <1>4, <2>1 DEF Found
<1> QED
  BY <1>5, <1>6, <1>7 DEF c

LEMMA JoinLeft ==
    ASSUME NEW a, NEW b, Whole(a), Text(b), NEW i \in 1 .. Len(a)
    PROVE  /\ LineEnd(a \o b, i) = LineEnd(a, i)
           /\ LineEnd(a, i) \in 1 .. Len(a)
           /\ SubSeq(a \o b, i, LineEnd(a, i)) = SubSeq(a, i, LineEnd(a, i))
<1> DEFINE c == a \o b
           e == LineEnd(a, i)
<1>1. Text(a) /\ Len(a) \in Nat /\ Len(b) \in Nat /\ a[Len(a)] = NL
  BY TextLen DEF Whole
<1>2. /\ Text(c) /\ Len(c) = Len(a) + Len(b)
      /\ \A k \in 1 .. Len(a) : c[k] = a[k]
  BY <1>1, TextJoin
<1>3. /\ e \in i .. Len(a) /\ (a[e] = NL \/ e = Len(a))
      /\ \A k \in i .. e - 1 : a[k] # NL
  BY <1>1, LineEndType
<1> HIDE DEF c, e
<1>4. e \in i .. Len(c) /\ i \in 1 .. Len(c) /\ c[e] = NL
  BY <1>1, <1>2, <1>3
<1>5. \A k \in i .. e - 1 : c[k] # NL
  BY <1>1, <1>2, <1>3
<1>6. LineEnd(c, i) = e
  BY <1>2, <1>4, <1>5, LineEndIs
<1>7. SubSeq(c, i, e) = SubSeq(a, i, e)
  <2>1. e \in Int /\ i \in Int
    BY <1>3
  <2>2. /\ Text(SubSeq(c, i, e)) /\ Text(SubSeq(a, i, e))
        /\ Len(SubSeq(c, i, e)) = e - i + 1 /\ Len(SubSeq(a, i, e)) = e - i + 1
        /\ \A k \in 1 .. e - i + 1 : SubSeq(c, i, e)[k] = c[i + k - 1]
        /\ \A k \in 1 .. e - i + 1 : SubSeq(a, i, e)[k] = a[i + k - 1]
    BY <1>3, <2>1, TextSub
  <2>3. \A k \in 1 .. e - i + 1 : c[i + k - 1] = a[i + k - 1]
    BY <1>1, <1>2, <1>3
  <2> QED
    BY <2>2, <2>3, TextEqual
<1> QED
  BY <1>1, <1>3, <1>6, <1>7 DEF c, e

LEMMA JoinRight ==
    ASSUME NEW a, NEW b, Text(a), Text(b), NEW i \in 1 .. Len(b)
    PROVE  /\ LineEnd(a \o b, Len(a) + i) = Len(a) + LineEnd(b, i)
           /\ SubSeq(a \o b, Len(a) + i, Len(a) + LineEnd(b, i)) =
                 SubSeq(b, i, LineEnd(b, i))
<1> DEFINE c == a \o b
           e == LineEnd(b, i)
           j == Len(a) + i
           f == Len(a) + e
<1>1. Len(a) \in Nat /\ Len(b) \in Nat
  BY TextLen
<1>2. /\ Text(c) /\ Len(c) = Len(a) + Len(b)
      /\ \A k \in 1 .. Len(b) : c[Len(a) + k] = b[k]
  BY TextJoin
<1>3. /\ e \in i .. Len(b) /\ (b[e] = NL \/ e = Len(b))
      /\ \A k \in i .. e - 1 : b[k] # NL
  BY LineEndType
<1> HIDE DEF c, e
<1>4. f \in j .. Len(c) /\ j \in 1 .. Len(c) /\ (c[f] = NL \/ f = Len(c))
  <2>1. f \in j .. Len(c) /\ j \in 1 .. Len(c)
    BY <1>1, <1>2, <1>3
  <2>2. c[f] = b[e] /\ (e = Len(b) => f = Len(c))
    <3>1. e \in 1 .. Len(b)
      BY <1>1, <1>3
    <3>2. c[f] = b[e]
      BY <1>2, <3>1
    <3>3. e = Len(b) => f = Len(c)
      BY <1>2
    <3> QED
      BY <3>2, <3>3
  <2> QED
    BY <1>3, <2>1, <2>2
<1>5. \A k \in j .. f - 1 : c[k] # NL
  <2> TAKE k \in j .. f - 1
  <2>1. k - Len(a) \in i .. e - 1 /\ k = Len(a) + (k - Len(a))
    BY <1>1, <1>3
  <2>2. k - Len(a) \in 1 .. Len(b)
    BY <1>1, <1>3, <2>1
  <2> QED
    BY <1>2, <1>3, <2>1, <2>2
<1> HIDE DEF j, f
<1>6. LineEnd(c, j) = f
  BY <1>2, <1>4, <1>5, LineEndIs
<1>7. SubSeq(c, j, f) = SubSeq(b, i, e)
  <2>1. e \in Int /\ i \in Int /\ f \in Int /\ j \in Int /\ f - j = e - i /\ i <= e
    BY <1>1, <1>3 DEF f, j
  <2>2. /\ Text(SubSeq(c, j, f)) /\ Text(SubSeq(b, i, e))
        /\ Len(SubSeq(c, j, f)) = e - i + 1 /\ Len(SubSeq(b, i, e)) = e - i + 1
        /\ \A k \in 1 .. e - i + 1 : SubSeq(c, j, f)[k] = c[j + k - 1]
        /\ \A k \in 1 .. e - i + 1 : SubSeq(b, i, e)[k] = b[i + k - 1]
    BY <2>1, TextSub
  <2>3. \A k \in 1 .. e - i + 1 : c[j + k - 1] = b[i + k - 1]
    <3> TAKE k \in 1 .. e - i + 1
    <3>1. i + k - 1 \in 1 .. Len(b) /\ j + k - 1 = Len(a) + (i + k - 1)
      BY <1>1, <1>3 DEF j
    <3> QED
      BY <1>2, <3>1
  <2> QED
    BY <2>2, <2>3, TextEqual
<1> QED
  BY <1>6, <1>7 DEF c, e, j, f

LEMMA FoundIn == \A b, key : Found(b, key) \subseteq 1 .. Len(b)
BY DEF Found, Starts

LEMMA JoinNone ==
    ASSUME NEW a, NEW b, NEW key, Whole(a), Text(b)
    PROVE  None(a \o b, key) <=> None(a, key) /\ None(b, key)
<1>1. Found(a \o b, key) =
         Found(a, key) \union {Len(a) + i : i \in Found(b, key)}
  BY JoinFound
<1> HIDE DEF Found
<1> QED
  BY <1>1 DEF None

(* A line with the key is in one part of a text and not in the other. *)
LEMMA JoinHas ==
    ASSUME NEW a, NEW b, NEW key, NEW w, Whole(a), Text(b), b # <<>>
    PROVE  Has(a \o b, key, w) <=>
              \/ HasIn(a, key, w) /\ None(b, key)
              \/ None(a, key) /\ Has(b, key, w)
<1> DEFINE c == a \o b
<1>1. /\ Text(a) /\ Len(a) \in Nat /\ Len(b) \in Nat \ {0}
      /\ Len(c) = Len(a) + Len(b)
  BY TextLen, TextJoin DEF Whole
<1>2. Found(c, key) = Found(a, key) \union {Len(a) + i : i \in Found(b, key)}
  BY JoinFound
<1>3. Found(a, key) \subseteq 1 .. Len(a) /\ Found(b, key) \subseteq 1 .. Len(b)
  BY FoundIn
<1>4. \A i \in 1 .. Len(a) :
         /\ LineEnd(c, i) = LineEnd(a, i)
         /\ LineEnd(a, i) < Len(c)
         /\ SubSeq(c, i, LineEnd(a, i)) = SubSeq(a, i, LineEnd(a, i))
  <2> TAKE i \in 1 .. Len(a)
  <2>1. LineEnd(a, i) \in 1 .. Len(a)
    BY JoinLeft
  <2>2. LineEnd(a, i) < Len(c)
    BY <1>1, <2>1
  <2> QED
    BY <2>2, JoinLeft
<1>5. \A i \in 1 .. Len(b) :
         /\ LineEnd(c, Len(a) + i) = Len(a) + LineEnd(b, i)
         /\ LineEnd(b, i) \in 1 .. Len(b)
         /\ SubSeq(c, Len(a) + i, Len(a) + LineEnd(b, i)) =
               SubSeq(b, i, LineEnd(b, i))
  <2> TAKE i \in 1 .. Len(b)
  <2>1. LineEnd(b, i) \in i .. Len(b)
    BY LineEndType
  <2> QED
    BY <1>1, <2>1, JoinRight
<1> HIDE DEF c
<1>6. ASSUME HasIn(a, key, w), None(b, key) PROVE Has(c, key, w)
  <2>1. PICK i \in 1 .. Len(a) : Found(a, key) = {i} /\ w = SubSeq(a, i, LineEnd(a, i))
    BY <1>6 DEF HasIn
  <2>2. Found(c, key) = {i} /\ i \in 1 .. Len(c)
    BY <1>1, <1>2, <1>6, <2>1 DEF None
  <2> QED
    BY <1>4, <2>1, <2>2 DEF Has
<1>7. ASSUME None(a, key), Has(b, key, w) PROVE Has(c, key, w)
  <2>1. PICK i \in 1 .. Len(b) : /\ Found(b, key) = {i}
                                /\ LineEnd(b, i) < Len(b)
                                /\ w = SubSeq(b, i, LineEnd(b, i))
    BY <1>7 DEF Has
  <2>2. Found(c, key) = {Len(a) + i} /\ Len(a) + i \in 1 .. Len(c)
    BY <1>1, <1>2, <1>7, <2>1 DEF None
  <2>3. LineEnd(c, Len(a) + i) < Len(c)
    BY <1>1, <1>5, <2>1
  <2> QED
    BY <1>5, <2>1, <2>2, <2>3 DEF Has
<1>8. ASSUME Has(c, key, w)
      PROVE  \/ HasIn(a, key, w) /\ None(b, key)
             \/ None(a, key) /\ Has(b, key, w)
  <2>1. PICK j \in 1 .. Len(c) : /\ Found(c, key) = {j}
                                /\ LineEnd(c, j) < Len(c)
                                /\ w = SubSeq(c, j, LineEnd(c, j))
    BY <1>8 DEF Has
  <2>2. CASE j \in Found(a, key)
    <3>1. \A i \in Found(b, key) : Len(a) + i = j
      BY <1>2, <2>1
    <3>2. None(b, key)
      BY <1>1, <1>3, <2>2, <3>1 DEF None
    <3>3. Found(a, key) = {j}
      BY <1>2, <2>1, <2>2
    <3> QED
      BY <1>3, <1>4, <2>1, <3>2, <3>3 DEF HasIn
  <2>3. CASE j \notin Found(a, key)
    <3>1. None(a, key)
      BY <1>2, <2>1, <2>3 DEF None
    <3>2. PICK i \in Found(b, key) : j = Len(a) + i
      BY <1>2, <2>1, <2>3
    <3>3. Found(b, key) = {i}
      <4>1. \A k \in Found(b, key) : Len(a) + k = Len(a) + i
        BY <1>2, <2>1, <3>2
      <4> QED
        BY <1>1, <1>3, <4>1
    <3>4. LineEnd(b, i) < Len(b)
      BY <1>1, <1>3, <1>5, <2>1, <3>2
    <3> QED
      BY <1>3, <1>5, <2>1, <3>1, <3>2, <3>3, <3>4 DEF Has
  <2> QED
    BY <2>2, <2>3
<1> QED
  BY <1>6, <1>7, <1>8 DEF c

(* A line has the key that it starts with, and no other. *)
LEMMA LineHas ==
    ASSUME NEW v, Line(v), NEW key
    PROVE  /\ Whole(v)
           /\ None(v, key) <=> v[1] # key
           /\ \A w : HasIn(v, key, w) <=> v[1] = key /\ w = v
<1>1. /\ Text(v) /\ Len(v) \in Nat \ {0} /\ v[Len(v)] = NL
      /\ \A i \in 1 .. Len(v) - 1 : v[i] # NL
  BY TextLen DEF Line
<1>2. Starts(v) = {1}
  BY <1>1 DEF Starts
<1>3. Found(v, key) = IF v[1] = key THEN {1} ELSE {}
  BY <1>2 DEF Found
<1>4. LineEnd(v, 1) = Len(v)
  BY <1>1, LineEndIs
<1>5. SubSeq(v, 1, Len(v)) = v
  BY <1>1, SubSeqFull DEF Text
<1>6. None(v, key) <=> v[1] # key
  BY <1>3 DEF None
<1>7. \A w : HasIn(v, key, w) <=> v[1] = key /\ w = v
  <2> TAKE w
  <2>1. ASSUME HasIn(v, key, w) PROVE v[1] = key /\ w = v
    <3>1. PICK i \in 1 .. Len(v) : Found(v, key) = {i} /\ w = SubSeq(v, i, LineEnd(v, i))
      BY <2>1 DEF HasIn
    <3>2. v[1] = key /\ i = 1
      BY <1>3, <3>1
    <3> QED
      BY <1>4, <1>5, <3>1, <3>2
  <2>2. ASSUME v[1] = key, w = v PROVE HasIn(v, key, w)
    <3>1. 1 \in 1 .. Len(v) /\ Found(v, key) = {1}
      BY <1>1, <1>3, <2>2
    <3>2. w = SubSeq(v, 1, LineEnd(v, 1))
      BY <1>4, <1>5, <2>2
    <3> QED
      BY <3>1, <3>2 DEF HasIn
  <2> QED
    BY <2>1, <2>2
<1>8. Whole(v)
  BY <1>1 DEF Whole
<1> QED
  BY <1>6, <1>7, <1>8

LEMMA WholeJoin ==
    ASSUME NEW a, NEW b, Whole(a), Whole(b)
    PROVE  Whole(a \o b)
<1>1. Text(a) /\ Text(b) /\ Len(a) \in Nat /\ Len(b) \in Nat
  BY TextLen DEF Whole
<1>2. /\ Text(a \o b) /\ Len(a \o b) = Len(a) + Len(b)
      /\ \A i \in 1 .. Len(b) : (a \o b)[Len(a) + i] = b[i]
  BY <1>1, TextJoin
<1>3. CASE b = <<>>
  BY <1>1, <1>3, JoinEmpty
<1>4. CASE b # <<>>
  <2>1. Len(b) \in 1 .. Len(b) /\ b[Len(b)] = NL
    BY <1>1, <1>4, TextLen DEF Whole
  <2> QED
    BY <1>2, <2>1 DEF Whole
<1> QED
  BY <1>3, <1>4

(* A text can be cut around the only line with a key. *)
LEMMA Cut ==
    ASSUME NEW b, NEW key, NEW w, Text(b), Has(b, key, w)
    PROVE  \E a, c :
              /\ Parts(b, key, w, a, c)
              /\ Found(b, key) = {Len(a) + 1}
              /\ LineEnd(b, Len(a) + 1) = Len(a) + Len(w)
<1>1. PICK i \in 1 .. Len(b) : /\ Found(b, key) = {i}
                              /\ LineEnd(b, i) < Len(b)
                              /\ w = SubSeq(b, i, LineEnd(b, i))
  BY DEF Has
<1> DEFINE e == LineEnd(b, i)
           a == SubSeq(b, 1, i - 1)
           c == SubSeq(b, e + 1, Len(b))
<1>2. /\ Len(b) \in Nat /\ e \in i .. Len(b) - 1 /\ b[e] = NL
      /\ \A k \in i .. e - 1 : b[k] # NL
  <2>1. Len(b) \in Nat
    BY TextLen
  <2>2. /\ e \in i .. Len(b) /\ (b[e] = NL \/ e = Len(b))
        /\ \A k \in i .. e - 1 : b[k] # NL
    BY LineEndType
  <2> QED
    BY <1>1, <2>1, <2>2
<1>3. i \in Starts(b) /\ b[i] = key
  BY <1>1 DEF Found
<1>4. w = SubSeq(b, i, e)
  BY <1>1
<1> HIDE DEF e
<1>5. /\ Text(w) /\ Len(w) = e - i + 1
      /\ \A k \in 1 .. e - i + 1 : w[k] = b[i + k - 1]
  BY <1>2, <1>4, TextSub
<1>6. Line(w) /\ w[1] = key
  <2>1. w[1] = key
    BY <1>2, <1>3, <1>5
  <2>2. w # <<>> /\ w[Len(w)] = NL
    BY <1>2, <1>5
  <2>3. \A k \in 1 .. Len(w) - 1 : w[k] # NL
    <3> TAKE k \in 1 .. Len(w) - 1
    <3>1. i + k - 1 \in i .. e - 1 /\ k \in 1 .. e - i + 1
      BY <1>2, <1>5
    <3> QED
      BY <1>2, <1>5, <3>1
  <2> QED
    BY <1>5, <2>1, <2>2, <2>3 DEF Line
<1>7. /\ Text(a) /\ Len(a) = i - 1
      /\ \A k \in 1 .. i - 1 : a[k] = b[k]
  BY <1>2, TextSub
<1>8. Whole(a)
  <2>1. CASE i = 1
    BY <1>7, <2>1, TextLen DEF Whole
  <2>2. CASE i # 1
    <3>1. b[i - 1] = NL
      BY <1>3, <2>2 DEF Starts
    <3> QED
      BY <1>2, <1>7, <2>2, <3>1 DEF Whole
  <2> QED
    BY <2>1, <2>2
<1>9. Text(c) /\ Len(c) = Len(b) - e /\ c # <<>>
  <2>1. e + 1 \in Int /\ Len(b) \in Int /\ e + 1 <= Len(b)
    BY <1>2
  <2>2. Text(c) /\ Len(c) = Len(b) - (e + 1) + 1
    BY <2>1, TextSub
  <2> HIDE DEF c
  <2>3. Len(c) = Len(b) - e /\ Len(c) # 0
    BY <1>2, <2>2
  <2> QED
    BY <2>2, <2>3, TextLen
<1>10. b = a \o (w \o c)
  <2> DEFINE d == SubSeq(b, 1, e)
  <2>1. Text(d) /\ Len(d) = e /\ \A k \in 1 .. e : d[k] = b[k]
    BY <1>2, TextSub
  <2>2. b = d \o c
    <3>1. e \in 0 .. Len(b)
      BY <1>2
    <3> QED
      BY <3>1, JoinCut
  <2> HIDE DEF d
  <2>3. d = SubSeq(d, 1, i - 1) \o SubSeq(d, i, e)
    <3>1. i - 1 \in 0 .. Len(d) /\ (i - 1) + 1 = i
      BY <1>2, <2>1
    <3> QED
      BY <2>1, <3>1, JoinCut
  <2>4. SubSeq(d, 1, i - 1) = a
    <3>1. /\ Text(SubSeq(d, 1, i - 1)) /\ Len(SubSeq(d, 1, i - 1)) = i - 1
          /\ \A k \in 1 .. i - 1 : SubSeq(d, 1, i - 1)[k] = d[k]
      BY <1>2, TextSub
    <3>2. \A k \in 1 .. i - 1 : d[k] = a[k]
      BY <1>2, <1>7, <2>1
    <3> HIDE DEF a
    <3> QED
      BY <1>7, <3>1, <3>2, TextEqual
  <2>5. SubSeq(d, i, e) = w
    <3>1. /\ Text(SubSeq(d, i, e)) /\ Len(SubSeq(d, i, e)) = e - i + 1
          /\ \A k \in 1 .. e - i + 1 : SubSeq(d, i, e)[k] = d[i + k - 1]
      BY <1>2, TextSub
    <3>2. \A k \in 1 .. e - i + 1 : d[i + k - 1] = w[k]
      BY <1>2, <1>5, <2>1
    <3> QED
      BY <1>5, <3>1, <3>2, TextEqual
  <2>6. d = a \o w
    BY <2>3, <2>4, <2>5
  <2> HIDE DEF a, c
  <2>7. Text(a) /\ Text(w) /\ Text(c)
    BY <1>5, <1>7, <1>9
  <2>8. (a \o w) \o c = a \o (w \o c)
    <3>1. Associate(a, w, c)
      BY <2>7, JoinAssociative
    <3> QED
      BY <3>1 DEF Associate
  <2> QED
    BY <2>2, <2>6, <2>8
<1>11. None(a, key) /\ None(c, key)
  <2> HIDE DEF a, c
  <2>1. Text(w \o c) /\ w \o c # <<>>
    <3>1. Text(w \o c) /\ Len(w \o c) = Len(w) + Len(c) /\ Len(w) \in Nat /\ Len(c) \in Nat
      BY <1>5, <1>9, TextJoin, TextLen
    <3>2. Len(w \o c) # 0
      BY <1>2, <1>5, <1>9, <3>1
    <3> QED
      BY <3>1, <3>2
  <2>2. Found(b, key) = Found(a, key) \union {Len(a) + j : j \in Found(w \o c, key)}
    BY <1>8, <1>10, <2>1, JoinFound
  <2>3. i \notin Found(a, key)
    BY <1>2, <1>7, FoundIn
  <2>4. None(a, key)
    BY <1>1, <2>2, <2>3 DEF None
  <2>5. Has(w \o c, key, w)
    <3>1. ~HasIn(a, key, w)
      BY <2>4 DEF HasIn, None
    <3> QED
      BY <1>8, <1>10, <2>1, <3>1, JoinHas
  <2>6. None(c, key)
    BY <1>6, <1>9, <2>5, JoinHas, LineHas
  <2> QED
    BY <2>4, <2>6
<1>12. Len(a) + 1 = i /\ Len(a) + Len(w) = e
  BY <1>2, <1>5, <1>7
<1> HIDE DEF a, c
<1>13. Found(b, key) = {Len(a) + 1} /\ LineEnd(b, Len(a) + 1) = Len(a) + Len(w)
  BY <1>1, <1>12 DEF e
<1> QED
  BY <1>6, <1>8, <1>9, <1>10, <1>11, <1>13 DEF Parts

(* Around a line that is put in, or taken out, the others stay what they are. *)
LEMMA LineAround ==
    ASSUME NEW a, NEW v, NEW c, NEW key,
           Whole(a), Line(v), Text(c), c # <<>>
    PROVE  /\ Text(a \o (v \o c)) /\ Text(a \o c)
           /\ key # v[1] => (None(a \o (v \o c), key) <=> None(a \o c, key))
           /\ key # v[1] => \A w : Has(a \o (v \o c), key, w) <=> Has(a \o c, key, w)
           /\ key = v[1] /\ None(a \o c, key) => Has(a \o (v \o c), key, v)
<1>1. Text(a) /\ Text(v) /\ Whole(v)
  BY LineHas DEF Whole
<1>2. Text(v \o c) /\ v \o c # <<>>
  <2>1. /\ Text(v \o c) /\ Len(v \o c) = Len(v) + Len(c)
        /\ Len(v) \in Nat /\ Len(c) \in Nat /\ Len(c) # 0
    BY <1>1, TextJoin, TextLen
  <2>2. Len(v \o c) # 0
    BY <2>1
  <2> QED
    BY <2>1, <2>2
<1>3. Text(a \o (v \o c)) /\ Text(a \o c)
  BY <1>1, <1>2, TextJoin
<1>4. /\ None(a \o (v \o c), key) <=> None(a, key) /\ None(v \o c, key)
      /\ None(v \o c, key) <=> None(v, key) /\ None(c, key)
      /\ None(a \o c, key) <=> None(a, key) /\ None(c, key)
      /\ None(v, key) <=> v[1] # key
  BY <1>1, <1>2, JoinNone, LineHas
<1>5. ASSUME NEW w
      PROVE  /\ Has(a \o (v \o c), key, w) <=>
                   \/ HasIn(a, key, w) /\ None(v \o c, key)
                   \/ None(a, key) /\ Has(v \o c, key, w)
             /\ Has(v \o c, key, w) <=>
                   \/ HasIn(v, key, w) /\ None(c, key)
                   \/ None(v, key) /\ Has(c, key, w)
             /\ Has(a \o c, key, w) <=>
                   \/ HasIn(a, key, w) /\ None(c, key)
                   \/ None(a, key) /\ Has(c, key, w)
             /\ HasIn(v, key, w) <=> v[1] = key /\ w = v
  BY <1>1, <1>2, JoinHas, LineHas
<1>6. key # v[1] => \A w : Has(a \o (v \o c), key, w) <=> Has(a \o c, key, w)
  BY <1>4, <1>5
<1>7. key = v[1] /\ None(a \o c, key) => Has(a \o (v \o c), key, v)
  BY <1>4, <1>5
<1> QED
  BY <1>3, <1>4, <1>6, <1>7

(* Two new lines, and three, where there was none of them *)
LEMMA LineBefore ==
    ASSUME NEW v, NEW c, Line(v), Text(c)
    PROVE  Text(v \o c) /\ v \o c # <<>> /\ Len(v \o c) = Len(v) + Len(c)
<1>1. /\ Text(v \o c) /\ Len(v \o c) = Len(v) + Len(c)
      /\ Len(v) \in Nat /\ Len(v) # 0 /\ Len(c) \in Nat
  BY TextJoin, TextLen DEF Line
<1>2. Len(v \o c) # 0
  BY <1>1
<1> QED
  BY <1>1, <1>2

--------------------------------------------------------------------------------
(***************************************************************************)
(* The other lines: a line with one of the keys may be taken out of a text *)
(* or put into it, and they stay what they are and in their order.         *)
(***************************************************************************)
LEMMA KeptIs ==
    ASSUME NEW b, NEW keys
    PROVE  /\ Kept(b, keys) \subseteq 1 .. Len(b)
           /\ \A i : i \in Kept(b, keys) <=>
                       \E key : key \notin keys /\ i \in Found(b, key)
BY DEF Kept, Found, Starts

LEMMA KeptFinite ==
    ASSUME NEW b, NEW keys, Text(b)
    PROVE  IsFiniteSet(Kept(b, keys)) /\ Kept(b, keys) \subseteq Nat
<1>1. Len(b) \in Nat
  BY TextLen
<1>2. IsFiniteSet(1 .. Len(b))
  BY <1>1, FS_Interval
<1>3. Kept(b, keys) \subseteq 1 .. Len(b)
  BY KeptIs
<1>4. IsFiniteSet(Kept(b, keys))
  BY <1>2, <1>3, FS_Subset
<1> QED
  BY <1>1, <1>3, <1>4

LEMMA KeptJoin ==
    ASSUME NEW a, NEW b, NEW keys, Whole(a), Text(b)
    PROVE  Kept(a \o b, keys) =
              Kept(a, keys) \union {Len(a) + i : i \in Kept(b, keys)}
<1> DEFINE c == a \o b
<1>1. \A key : Found(c, key) =
                  Found(a, key) \union {Len(a) + i : i \in Found(b, key)}
  BY JoinFound
<1>2. /\ \A i : i \in Kept(a, keys) <=> \E key : key \notin keys /\ i \in Found(a, key)
      /\ \A i : i \in Kept(b, keys) <=> \E key : key \notin keys /\ i \in Found(b, key)
      /\ \A i : i \in Kept(c, keys) <=> \E key : key \notin keys /\ i \in Found(c, key)
  BY KeptIs
<1> HIDE DEF c
<1>3. ASSUME NEW j
      PROVE  j \in Kept(c, keys) <=>
                j \in Kept(a, keys) \/ \E i \in Kept(b, keys) : j = Len(a) + i
  <2>1. ASSUME j \in Kept(c, keys)
        PROVE  j \in Kept(a, keys) \/ \E i \in Kept(b, keys) : j = Len(a) + i
    <3>1. PICK key : key \notin keys /\ j \in Found(c, key)
      BY <1>2, <2>1
    <3>2. j \in Found(a, key) \/ \E i \in Found(b, key) : j = Len(a) + i
      BY <1>1, <3>1
    <3> QED
      BY <1>2, <3>1, <3>2
  <2>2. ASSUME j \in Kept(a, keys) PROVE j \in Kept(c, keys)
    <3>1. PICK key : key \notin keys /\ j \in Found(a, key)
      BY <1>2, <2>2
    <3> QED
      BY <1>1, <1>2, <3>1
  <2>3. ASSUME NEW i \in Kept(b, keys), j = Len(a) + i PROVE j \in Kept(c, keys)
    <3>1. PICK key : key \notin keys /\ i \in Found(b, key)
      BY <1>2
    <3>2. j \in Found(c, key)
      BY <1>1, <2>3, <3>1
    <3> QED
      BY <1>2, <3>1, <3>2
  <2> QED
    BY <2>1, <2>2, <2>3
<1> QED
  BY <1>3 DEF c

LEMMA LineKept ==
    ASSUME NEW v, NEW keys, Line(v), v[1] \in keys
    PROVE  Kept(v, keys) = {}
<1>1. \A key : Found(v, key) = {} <=> v[1] # key
  BY LineHas DEF None
<1>2. \A i : i \in Kept(v, keys) <=> \E key : key \notin keys /\ i \in Found(v, key)
  BY KeptIs
<1> QED
  BY <1>1, <1>2

(* As many of T are at most m as of S are at most n, if T is S with all above
   some place moved up. *)
Up(i, p, d) == IF i <= p THEN i ELSE i + d

MovedUp(T, S, p, d) == T = {Up(i, p, d) : i \in S}

Places(S) == IsFiniteSet(S) /\ S \subseteq Nat

Place(S, n) == Cardinality({j \in S : j <= n})

LEMMA SamePlace ==
    ASSUME NEW S, NEW T, NEW p \in Nat, NEW d \in Nat,
           NEW n \in S, Places(S), MovedUp(T, S, p, d)
    PROVE  Place(T, Up(n, p, d)) = Place(S, n)
<1> DEFINE m == Up(n, p, d)
           A == {i \in S : i <= n}
           B == {j \in T : j <= m}
           f == [i \in A |-> Up(i, p, d)]
<1>1. \A i \in S : i \in Nat
  BY DEF Places
<1>0. T = {Up(i, p, d) : i \in S}
  BY DEF MovedUp
<1>2. IsFiniteSet(A)
  BY FS_Subset DEF Places
<1>3. f \in [A -> B]
  <2>1. \A i \in A : Up(i, p, d) <= m
    BY <1>1 DEF Up
  <2> QED
    BY <1>0, <2>1
<1>4. \A x, y \in A : f[x] = f[y] => x = y
  BY <1>1 DEF Up
<1>5. \A j \in B : \E i \in A : f[i] = j
  <2> SUFFICES ASSUME NEW j \in B PROVE \E i \in A : f[i] = j
    OBVIOUS
  <2>1. PICK i \in S : j = Up(i, p, d)
    BY <1>0
  <2>2. i <= n
    BY <1>1, <2>1 DEF Up
  <2> QED
    BY <2>1, <2>2
<1> HIDE DEF f, A, B
<1>6. f \in Bijection(A, B)
  BY <1>3, <1>4, <1>5 DEF Bijection, Injection, Surjection, IsInjective
<1>7. ExistsBijection(A, B)
  BY <1>6 DEF ExistsBijection
<1> QED
  BY <1>2, <1>7, FS_Bijection DEF A, B, Place

SameBut(t, b, keys) == LinesBut(t, keys) = LinesBut(b, keys)

LEMMA LineAside ==
    ASSUME NEW a, NEW v, NEW c, NEW keys, Whole(a), Line(v), Text(c),
           v[1] \in keys
    PROVE  SameBut(a \o (v \o c), a \o c, keys)
<1> DEFINE x == a \o c
           y == a \o (v \o c)
           K == Kept(x, keys)
           L == Kept(y, keys)
           p == Len(a)
           d == Len(v)
           Move(i) == Up(i, p, d)
<1>1. Text(a) /\ Text(v) /\ Whole(v) /\ p \in Nat /\ d \in Nat /\ Len(c) \in Nat
  BY LineHas, TextLen DEF Whole
<1>2. Text(v \o c) /\ Len(v \o c) = d + Len(c)
  BY LineBefore
<1>3. K = Kept(a, keys) \union {p + i : i \in Kept(c, keys)}
  BY KeptJoin
<1>4. L = Kept(a, keys) \union {p + i : i \in Kept(v \o c, keys)}
  BY <1>2, KeptJoin
<1>5. Kept(v \o c, keys) = {d + i : i \in Kept(c, keys)}
  BY <1>1, KeptJoin, LineKept
<1>6. Kept(a, keys) \subseteq 1 .. p /\ Kept(c, keys) \subseteq 1 .. Len(c)
  BY KeptIs
<1>7. K \subseteq 1 .. p + Len(c)
  BY <1>1, <1>3, <1>6
<1> HIDE DEF K, L
<1>8. L = {Move(i) : i \in K}
  <2>1. ASSUME NEW j \in L PROVE \E i \in K : j = Move(i)
    <3>1. CASE j \in Kept(a, keys)
      BY <1>3, <1>6, <3>1 DEF Up
    <3>2. CASE j \notin Kept(a, keys)
      <4>1. PICK i \in Kept(c, keys) : j = p + (d + i)
        BY <1>4, <1>5, <2>1, <3>2
      <4>2. p + i \in K /\ ~(p + i <= p) /\ j = (p + i) + d
        BY <1>1, <1>3, <1>6, <4>1
      <4> QED
        BY <4>2 DEF Up
    <3> QED
      BY <3>1, <3>2
  <2>2. ASSUME NEW i \in K PROVE Move(i) \in L
    <3>1. CASE i \in Kept(a, keys)
      BY <1>4, <1>6, <3>1 DEF Up
    <3>2. CASE i \notin Kept(a, keys)
      <4>1. PICK k \in Kept(c, keys) : i = p + k
        BY <1>3, <2>2, <3>2
      <4>2. Move(i) = p + (d + k)
        BY <1>1, <1>6, <4>1 DEF Up
      <4> QED
        BY <1>4, <1>5, <4>2
    <3> QED
      BY <3>1, <3>2
  <2> QED
    BY <2>1, <2>2
<1>9. ASSUME NEW i \in K
      PROVE  SubSeq(y, Move(i), LineEnd(y, Move(i))) = SubSeq(x, i, LineEnd(x, i))
  <2>1. CASE i <= p
    <3>1. i \in 1 .. p /\ Move(i) = i
      BY <1>1, <1>7, <2>1 DEF Up
    <3> HIDE DEF x, y, Move
    <3>2. /\ LineEnd(x, i) = LineEnd(a, i)
          /\ SubSeq(x, i, LineEnd(a, i)) = SubSeq(a, i, LineEnd(a, i))
      BY <3>1, JoinLeft DEF x
    <3>3. /\ LineEnd(y, i) = LineEnd(a, i)
          /\ SubSeq(y, i, LineEnd(a, i)) = SubSeq(a, i, LineEnd(a, i))
      BY <1>2, <3>1, JoinLeft DEF y
    <3> QED
      BY <3>1, <3>2, <3>3
  <2>2. CASE ~(i <= p)
    <3>1. /\ i - p \in 1 .. Len(c) /\ i = p + (i - p)
          /\ d + (i - p) \in 1 .. Len(v \o c)
          /\ Move(i) = p + (d + (i - p))
      BY <1>1, <1>2, <1>7, <2>2 DEF Up
    <3> DEFINE k == i - p
    <3> HIDE DEF k, x, y, Move
    <3>2. k \in 1 .. Len(c) /\ i = p + k /\ d + k \in 1 .. Len(v \o c)
          /\ Move(i) = p + (d + k)
      BY <3>1 DEF k
    <3>3. /\ LineEnd(x, p + k) = p + LineEnd(c, k)
          /\ SubSeq(x, p + k, p + LineEnd(c, k)) = SubSeq(c, k, LineEnd(c, k))
      BY <1>1, <3>2, JoinRight DEF x
    <3>4. /\ LineEnd(v \o c, d + k) = d + LineEnd(c, k)
          /\ SubSeq(v \o c, d + k, d + LineEnd(c, k)) = SubSeq(c, k, LineEnd(c, k))
      BY <1>1, <3>2, JoinRight
    <3>5. /\ LineEnd(y, p + (d + k)) = p + LineEnd(v \o c, d + k)
          /\ SubSeq(y, p + (d + k), p + LineEnd(v \o c, d + k)) =
                SubSeq(v \o c, d + k, LineEnd(v \o c, d + k))
      BY <1>1, <1>2, <3>2, JoinRight DEF y
    <3> QED
      BY <3>2, <3>3, <3>4, <3>5
  <2> QED
    BY <2>1, <2>2
<1>10. ASSUME NEW i \in K
       PROVE  Place(L, Move(i)) = Place(K, i)
  <2>1. Places(K)
    <3>1. Text(x)
      BY <1>1, TextJoin
    <3> QED
      BY <3>1, KeptFinite DEF K, Places
  <2>2. MovedUp(L, K, p, d)
    BY <1>8 DEF MovedUp
  <2>3. p \in Nat /\ d \in Nat /\ i \in K /\ Move(i) = Up(i, p, d)
    BY <1>1
  <2> HIDE DEF p, d, x, y, Move
  <2>4. Place(L, Up(i, p, d)) = Place(K, i)
    BY <2>1, <2>2, <2>3, SamePlace
  <2> QED
    BY <2>3, <2>4
<1> HIDE DEF x, y, Move
<1>11. /\ LinesBut(x, keys) =
                {<<Place(K, i), SubSeq(x, i, LineEnd(x, i))>> : i \in K}
       /\ LinesBut(y, keys) =
                {<<Place(L, i), SubSeq(y, i, LineEnd(y, i))>> : i \in L}
  BY DEF LinesBut, Place, K, L
<1>12. LinesBut(y, keys) = {<<Place(L, Move(i)),
                              SubSeq(y, Move(i), LineEnd(y, Move(i)))>> : i \in K}
  <2> DEFINE Other(j) == <<Place(L, j), SubSeq(y, j, LineEnd(y, j))>>
  <2>1. LinesBut(y, keys) = {Other(j) : j \in L}
    BY <1>11
  <2> HIDE DEF Other
  <2>2. {Other(j) : j \in L} = {Other(Move(i)) : i \in K}
    BY <1>8
  <2> QED
    BY <2>1, <2>2 DEF Other
<1>13. LinesBut(y, keys) = LinesBut(x, keys)
  BY <1>9, <1>10, <1>11, <1>12
<1> QED
  BY <1>13 DEF SameBut, x, y

LEMMA TwoAside ==
    ASSUME NEW a, NEW v, NEW w, NEW c, NEW keys, Whole(a), Line(v), Line(w),
           Text(c), v[1] \in keys, w[1] \in keys
    PROVE  SameBut(a \o ((v \o w) \o c), a \o c, keys)
<1> DEFINE d == w \o c
<1>1. Text(d) /\ Text(v) /\ Text(w)
  BY LineBefore DEF Line
<1>2. (v \o w) \o c = v \o d
  BY <1>1, JoinAssociative DEF Associate
<1>3. SameBut(a \o d, a \o c, keys)
  BY LineAside
<1> HIDE DEF d
<1>4. SameBut(a \o (v \o d), a \o d, keys)
  BY <1>1, LineAside
<1> QED
  BY <1>2, <1>3, <1>4 DEF SameBut

LEMMA ThreeAside ==
    ASSUME NEW a, NEW u, NEW v, NEW w, NEW c, NEW keys, Whole(a), Line(u),
           Line(v), Line(w), Text(c), u[1] \in keys, v[1] \in keys, w[1] \in keys
    PROVE  SameBut(a \o (((u \o v) \o w) \o c), a \o c, keys)
<1> DEFINE x == v \o w
           d == x \o c
<1>1. Text(u) /\ Text(v) /\ Text(w)
  BY DEF Line
<1>2. Text(x) /\ Text(d)
  BY <1>1, TextJoin
<1>3. (u \o v) \o w = u \o x
  BY <1>1, JoinAssociative DEF Associate
<1>4. SameBut(a \o d, a \o c, keys)
  BY TwoAside
<1> HIDE DEF x
<1>5. (u \o x) \o c = u \o d
  <2>1. Associate(u, x, c)
    BY <1>1, <1>2, JoinAssociative
  <2> QED
    BY <2>1 DEF Associate
<1> HIDE DEF d
<1>6. SameBut(a \o (u \o d), a \o d, keys)
  BY <1>2, LineAside
<1> QED
  BY <1>3, <1>4, <1>5, <1>6 DEF SameBut

LEMMA TwoLines ==
    ASSUME NEW a, NEW v, NEW w, NEW c,
           Whole(a), Line(v), Line(w), Text(c), c # <<>>, v[1] # w[1],
           None(a \o c, v[1]), None(a \o c, w[1])
    PROVE  LET t == a \o ((v \o w) \o c)
           IN  /\ Text(t) /\ Len(t) = Len(a \o c) + Len(v) + Len(w)
               /\ Has(t, v[1], v) /\ Has(t, w[1], w)
               /\ \A k : k \notin {v[1], w[1]} =>
                     (None(t, k) <=> None(a \o c, k))
<1> DEFINE d == w \o c
           t == a \o (v \o d)
<1>1. Text(a) /\ Text(v) /\ Text(w)
  BY DEF Whole, Line
<1>2. Text(d) /\ d # <<>> /\ Len(d) = Len(w) + Len(c)
  BY LineBefore
<1>3. (v \o w) \o c = v \o d
  <2>1. Associate(v, w, c)
    BY <1>1, JoinAssociative
  <2> QED
    BY <2>1 DEF Associate
<1>4. /\ Has(a \o d, w[1], w) /\ None(a \o d, v[1])
      /\ \A k : k # w[1] => (None(a \o d, k) <=> None(a \o c, k))
  BY LineAround
<1> HIDE DEF d
<1>5. /\ Text(t) /\ Has(t, v[1], v) /\ Has(t, w[1], w)
      /\ \A k : k # v[1] => (None(t, k) <=> None(a \o d, k))
  BY <1>2, <1>4, LineAround
<1>6. Len(t) = Len(a \o c) + Len(v) + Len(w)
  <2>1. Text(v \o d) /\ Len(v \o d) = Len(v) + Len(d)
    BY <1>2, LineBefore
  <2>2. Len(t) = Len(a) + Len(v \o d) /\ Len(a \o c) = Len(a) + Len(c)
    BY <1>1, <2>1, TextJoin
  <2>3. Len(a) \in Nat /\ Len(v) \in Nat /\ Len(w) \in Nat /\ Len(c) \in Nat
    BY <1>1, TextLen
  <2> HIDE DEF t
  <2> QED
    BY <1>2, <2>1, <2>2, <2>3
<1>7. \A k : k \notin {v[1], w[1]} => (None(t, k) <=> None(a \o c, k))
  BY <1>4, <1>5
<1> QED
  BY <1>3, <1>5, <1>6, <1>7

LEMMA ThreeLines ==
    ASSUME NEW a, NEW u, NEW v, NEW w, NEW c,
           Whole(a), Line(u), Line(v), Line(w), Text(c), c # <<>>,
           u[1] # v[1], u[1] # w[1], v[1] # w[1],
           None(a \o c, u[1]), None(a \o c, v[1]), None(a \o c, w[1])
    PROVE  LET t == a \o (((u \o v) \o w) \o c)
           IN  /\ Text(t) /\ Len(t) = Len(a \o c) + Len(u) + Len(v) + Len(w)
               /\ Has(t, u[1], u) /\ Has(t, v[1], v) /\ Has(t, w[1], w)
<1> DEFINE d == (v \o w) \o c
           t == a \o (u \o d)
<1>1. Text(a) /\ Text(u) /\ Text(v) /\ Text(w) /\ Text(v \o w)
  BY TextJoin DEF Whole, Line
<1>2. /\ Text(a \o d) /\ Len(a \o d) = Len(a \o c) + Len(v) + Len(w)
      /\ Has(a \o d, v[1], v) /\ Has(a \o d, w[1], w)
      /\ None(a \o d, u[1])
  BY TwoLines
<1>3. Text(d) /\ d # <<>>
  <2>1. (v \o w) \o c = v \o (w \o c)
    <3>1. Associate(v, w, c)
      BY <1>1, JoinAssociative
    <3> QED
      BY <3>1 DEF Associate
  <2> QED
    BY <2>1, LineBefore
<1>4. ((u \o v) \o w) \o c = u \o d
  <2>1. (u \o v) \o w = u \o (v \o w)
    <3>1. Associate(u, v, w)
      BY <1>1, JoinAssociative
    <3> QED
      BY <3>1 DEF Associate
  <2>2. (u \o (v \o w)) \o c = u \o d
    <3> DEFINE x == v \o w
    <3>1. Text(u) /\ Text(x) /\ Text(c)
      BY <1>1
    <3> HIDE DEF x
    <3>2. (u \o x) \o c = u \o (x \o c)
      <4>1. Associate(u, x, c)
        BY <3>1, JoinAssociative
      <4> QED
        BY <4>1 DEF Associate
    <3> QED
      BY <3>2 DEF x
  <2> QED
    BY <2>1, <2>2
<1> HIDE DEF d
<1>5. Text(t) /\ Has(t, u[1], u) /\ Has(t, v[1], v) /\ Has(t, w[1], w)
  BY <1>2, <1>3, LineAround
<1>6. Len(t) = Len(a \o c) + Len(u) + Len(v) + Len(w)
  <2>1. Text(u \o d) /\ Len(u \o d) = Len(u) + Len(d)
    BY <1>3, LineBefore
  <2>2. Len(t) = Len(a) + Len(u \o d) /\ Len(a \o d) = Len(a) + Len(d)
    BY <1>1, <1>3, <2>1, TextJoin
  <2>3. /\ Len(a) \in Nat /\ Len(u) \in Nat /\ Len(v) \in Nat /\ Len(w) \in Nat
        /\ Len(d) \in Nat
    BY <1>1, <1>3, TextLen
  <2>4. Len(a \o c) \in Nat
    BY <1>1, TextJoin, TextLen
  <2> HIDE DEF t
  <2> QED
    BY <1>2, <2>1, <2>2, <2>3, <2>4
<1> QED
  BY <1>4, <1>5, <1>6

(* What find_line and remove_line give for a line that is there once... *)
LEMMA PartsFind ==
    ASSUME NEW b, NEW key, NEW w, NEW a, NEW c, Parts(b, key, w, a, c)
    PROVE  /\ find_line(b, key) =
                 [p |-> Len(a) + 1, linesize |-> Len(w), remain |-> Len(c)]
           /\ Len(a) \in Nat /\ Len(w) \in Nat \ {0} /\ Len(c) \in Nat \ {0}
           /\ Len(b) = Len(a) + Len(w) + Len(c)
           /\ Before(b, Len(a) + 1) = a
           /\ From(b, Len(a) + 1 + Len(w)) = c
           /\ remove_line(b, key) = [buf |-> a \o c, at |-> Len(a) + 1]
<1>1. /\ Whole(a) /\ Line(w) /\ w[1] = key /\ Text(a) /\ Text(w) /\ Text(c)
      /\ None(a, key) /\ None(c, key) /\ c # <<>> /\ b = a \o (w \o c)
  BY DEF Parts, Whole, Line
<1>2. Len(a) \in Nat /\ Len(w) \in Nat \ {0} /\ Len(c) \in Nat \ {0}
  BY <1>1, TextLen DEF Line
<1>3. Text(w \o c) /\ Len(w \o c) = Len(w) + Len(c) /\ w \o c # <<>>
  <2>1. Text(w \o c) /\ Len(w \o c) = Len(w) + Len(c)
    BY <1>1, TextJoin
  <2>2. Len(w \o c) # 0
    BY <1>2, <2>1
  <2> QED
    BY <2>1, <2>2
<1>4. Text(b) /\ Len(b) = Len(a) + Len(w) + Len(c)
  BY <1>1, <1>2, <1>3, TextJoin
<1>5. Whole(w)
  BY <1>1, LineHas
<1>6. Found(b, key) = {Len(a) + 1}
  <2>1. Found(w \o c, key) = {1}
    <3>1. Found(w \o c, key) = Found(w, key) \union {Len(w) + i : i \in Found(c, key)}
      BY <1>1, <1>5, JoinFound
    <3>2. Found(c, key) = {}
      BY <1>1 DEF None
    <3>3. Found(w, key) = {1}
      <4>1. Starts(w) = {1}
        BY <1>1, <1>2 DEF Starts, Line
      <4> QED
        BY <1>1, <4>1 DEF Found
    <3> QED
      BY <3>1, <3>2, <3>3
  <2>2. Found(b, key) = Found(a, key) \union {Len(a) + i : i \in Found(w \o c, key)}
    BY <1>1, <1>3, JoinFound
  <2>3. Found(a, key) = {}
    BY <1>1 DEF None
  <2> QED
    BY <2>1, <2>2, <2>3
<1>7. LineEnd(b, Len(a) + 1) = Len(a) + Len(w)
  <2>1. LineEnd(w, 1) = Len(w) /\ 1 \in 1 .. Len(w) /\ 1 \in 1 .. Len(w \o c)
    <3>1. 1 \in 1 .. Len(w) /\ Len(w) \in 1 .. Len(w) /\ 1 \in 1 .. Len(w \o c)
      BY <1>2, <1>3
    <3>2. \A k \in 1 .. Len(w) - 1 : w[k] # NL
      BY <1>1 DEF Line
    <3> QED
      BY <1>1, <3>1, <3>2, LineEndIs
  <2>2. LineEnd(w \o c, 1) = Len(w)
    BY <1>1, <1>5, <2>1, JoinLeft
  <2>3. LineEnd(a \o (w \o c), Len(a) + 1) = Len(a) + LineEnd(w \o c, 1)
    BY <1>1, <1>3, <2>1, JoinRight
  <2> QED
    BY <1>1, <2>2, <2>3
<1>8. find_line(b, key) =
         [p |-> Len(a) + 1, linesize |-> Len(w), remain |-> Len(c)]
  <2> DEFINE i == CHOOSE f \in Found(b, key) : \A g \in Found(b, key) : f <= g
  <2>1. i = Len(a) + 1
    BY <1>2, <1>6
  <2> HIDE DEF i
  <2>2. LineEnd(b, i) - i + 1 = Len(w) /\ Remain(b, i) = Len(c)
    BY <1>2, <1>4, <1>7, <2>1 DEF Remain
  <2>3. find_line(b, key) =
           [p |-> i, linesize |-> LineEnd(b, i) - i + 1, remain |-> Remain(b, i)]
    BY <1>6 DEF find_line, i
  <2> QED
    BY <2>1, <2>2, <2>3
<1>9. Before(b, Len(a) + 1) = a
  BY <1>1, <1>3, CutJoin
<1>10. From(b, Len(a) + 1 + Len(w)) = c
  <2>1. b = (a \o w) \o c
    <3>1. Associate(a, w, c)
      BY <1>1, JoinAssociative
    <3> QED
      BY <1>1, <3>1 DEF Associate
  <2>2. Text(a \o w) /\ Len(a \o w) = Len(a) + Len(w)
    BY <1>1, TextJoin
  <2>3. From((a \o w) \o c, Len(a \o w) + 1) = c
    BY <1>1, <2>2, CutJoin
  <2>4. Len(a \o w) + 1 = Len(a) + 1 + Len(w)
    BY <1>2, <2>2
  <2> QED
    BY <2>1, <2>3, <2>4
<1>11. remove_line(b, key) = [buf |-> a \o c, at |-> Len(a) + 1]
  <2> DEFINE line == find_line(b, key)
  <2>1. line.remain # 0 /\ line.p = Len(a) + 1 /\ line.linesize = Len(w)
    BY <1>2, <1>8
  <2>2. remove_line(b, key) =
           [buf |-> Before(b, line.p) \o From(b, line.p + line.linesize),
            at |-> line.p]
    BY <2>1 DEF remove_line
  <2> HIDE DEF line
  <2> QED
    BY <1>9, <1>10, <2>1, <2>2
<1> QED
  BY <1>2, <1>4, <1>8, <1>9, <1>10, <1>11

(* ... and for one that is not there. *)
LEMMA NoneFind ==
    ASSUME NEW b, NEW key, None(b, key)
    PROVE  /\ find_line(b, key).remain = 0
           /\ remove_line(b, key) = [buf |-> b, at |-> 0]
BY DEF None, find_line, remove_line

(* b is a, the only line w with the key, and c: without w, no line has the key,
   and the others are what they were. *)
Without(b, key, w, a, c) ==
    /\ Whole(a) /\ Line(w) /\ Text(c) /\ c # <<>>
    /\ b = a \o (w \o c) /\ w[1] = key
    /\ Text(a \o c) /\ Len(a \o c) \in Nat /\ Len(w) \in Nat
    /\ Len(b) = Len(w) + Len(a \o c)
    /\ Before(a \o c, Len(a) + 1) = a /\ From(a \o c, Len(a) + 1) = c
    /\ None(a \o c, key)
    /\ \A k : k # key => (None(b, k) <=> None(a \o c, k))
    /\ \A k : k # key => \A x : Has(b, k, x) <=> Has(a \o c, k, x)
    /\ \A keys : key \in keys => SameBut(b, a \o c, keys)

LEMMA RemoveOnce ==
    ASSUME NEW b, NEW key, NEW w, Text(b), Has(b, key, w)
    PROVE  \E a, c :
              /\ Without(b, key, w, a, c)
              /\ remove_line(b, key) = [buf |-> a \o c, at |-> Len(a) + 1]
<1>1. PICK a, c : Parts(b, key, w, a, c)
  BY Cut
<1>2. /\ Len(a) \in Nat /\ Len(w) \in Nat /\ Len(c) \in Nat
      /\ Len(b) = Len(a) + Len(w) + Len(c)
      /\ remove_line(b, key) = [buf |-> a \o c, at |-> Len(a) + 1]
  BY <1>1, PartsFind
<1>3. /\ Whole(a) /\ Line(w) /\ Text(c) /\ c # <<>> /\ Text(a)
      /\ b = a \o (w \o c) /\ w[1] = key
  BY <1>1 DEF Parts, Whole
<1>4. Text(a \o c) /\ Len(a \o c) = Len(a) + Len(c)
  BY <1>3, TextJoin
<1>5. Len(b) = Len(w) + Len(a \o c) /\ Len(a \o c) \in Nat
  BY <1>2, <1>4
<1>6. Before(a \o c, Len(a) + 1) = a /\ From(a \o c, Len(a) + 1) = c
  BY <1>3, CutJoin
<1>7. None(a \o c, key)
  BY <1>1, <1>3, JoinNone DEF Parts
<1>8. \A k : k # key => (None(b, k) <=> None(a \o c, k))
  BY <1>3, LineAround
<1>9. \A k : k # key => \A x : Has(b, k, x) <=> Has(a \o c, k, x)
  BY <1>3, LineAround
<1>11. \A keys : key \in keys => SameBut(b, a \o c, keys)
  BY <1>3, LineAside
<1>10. Without(b, key, w, a, c)
  BY <1>2, <1>3, <1>4, <1>5, <1>6, <1>7, <1>8, <1>9, <1>11 DEF Without
<1> QED
  BY <1>2, <1>10

(* For any text they keep to the text. *)
LEMMA FindType ==
    ASSUME NEW b, NEW key, Text(b)
    PROVE  /\ find_line(b, key).p \in Nat \ {0}
           /\ find_line(b, key).linesize \in Nat
           /\ find_line(b, key).remain \in Nat
<1>1. Len(b) \in Nat
  BY TextLen
<1>2. CASE Found(b, key) = {}
  BY <1>1, <1>2 DEF find_line
<1>3. CASE Found(b, key) # {}
  <2>1. Found(b, key) \subseteq Nat /\ Found(b, key) \subseteq 1 .. Len(b)
    BY <1>1, FoundIn
  <2>2. \E f \in Found(b, key) : \A g \in Found(b, key) : f <= g
    BY <1>3, <2>1, Least
  <2> DEFINE i == CHOOSE f \in Found(b, key) : \A g \in Found(b, key) : f <= g
  <2>3. i \in 1 .. Len(b)
    BY <2>1, <2>2
  <2>4. find_line(b, key) =
           [p |-> i, linesize |-> LineEnd(b, i) - i + 1, remain |-> Remain(b, i)]
    BY <1>3 DEF find_line
  <2> HIDE DEF i
  <2>5. LineEnd(b, i) \in i .. Len(b)
    BY <2>3, LineEndType
  <2> QED
    BY <1>1, <2>3, <2>4, <2>5 DEF Remain
<1> QED
  BY <1>2, <1>3

LEMMA RemoveType ==
    ASSUME NEW b, NEW key, Text(b)
    PROVE  Text(remove_line(b, key).buf) /\ remove_line(b, key).at \in Nat
<1> DEFINE line == find_line(b, key)
<1>1. line.p \in Nat \ {0} /\ line.linesize \in Nat /\ Len(b) \in Nat
  BY FindType, TextLen
<1> HIDE DEF line
<1>2. Text(Before(b, line.p)) /\ Text(From(b, line.p + line.linesize))
  BY <1>1, TextSub DEF Before, From
<1>3. Text(Before(b, line.p) \o From(b, line.p + line.linesize))
  BY <1>2, TextJoin
<1> QED
  BY <1>1, <1>3 DEF remove_line, line

LEMMA PartsHas ==
    ASSUME NEW b, NEW key, NEW w, NEW a, NEW c, Parts(b, key, w, a, c)
    PROVE  /\ Text(b) /\ Has(b, key, w)
           /\ None(a \o c, key)
           /\ Before(b, Len(a) + 1 + Len(w)) = a \o w
           /\ Whole(a \o w) /\ b = (a \o w) \o c
           /\ \A i \in 1 .. Len(w) : b[Len(a) + i] = w[i]
<1>1. /\ Whole(a) /\ Line(w) /\ w[1] = key /\ Text(a) /\ Text(w) /\ Text(c)
      /\ None(a, key) /\ None(c, key) /\ c # <<>> /\ b = a \o (w \o c)
  BY DEF Parts, Whole, Line
<1>2. None(a \o c, key)
  BY <1>1, JoinNone
<1>3. Text(b) /\ Has(b, key, w)
  BY <1>1, <1>2, LineAround
<1>4. b = (a \o w) \o c
  <2>1. Associate(a, w, c)
    BY <1>1, JoinAssociative
  <2> QED
    BY <1>1, <2>1 DEF Associate
<1>5. Whole(a \o w)
  <2>1. Whole(w)
    BY <1>1, LineHas
  <2> QED
    BY <1>1, <2>1, WholeJoin
<1>6. /\ Text(a \o w) /\ Len(a \o w) = Len(a) + Len(w)
      /\ \A i \in 1 .. Len(w) : (a \o w)[Len(a) + i] = w[i]
  BY <1>1, TextJoin
<1>7. Len(a) \in Nat /\ Len(w) \in Nat
  BY <1>1, TextLen
<1>8. Before(b, Len(a) + 1 + Len(w)) = a \o w
  <2>1. Before((a \o w) \o c, Len(a \o w) + 1) = a \o w
    BY <1>1, <1>6, CutJoin
  <2>2. Len(a \o w) + 1 = Len(a) + 1 + Len(w)
    BY <1>6, <1>7
  <2> QED
    BY <1>4, <2>1, <2>2
<1>9. \A i \in 1 .. Len(w) : b[Len(a) + i] = w[i]
  <2> TAKE i \in 1 .. Len(w)
  <2>1. Len(a) + i \in 1 .. Len(a \o w)
    BY <1>6, <1>7
  <2>2. ((a \o w) \o c)[Len(a) + i] = (a \o w)[Len(a) + i]
    BY <1>1, <1>6, <2>1, TextJoin
  <2> QED
    BY <1>4, <1>6, <2>2
<1> QED
  BY <1>2, <1>3, <1>4, <1>5, <1>8, <1>9

(* d is s with x in the place k *)
Changed(d, s, k, x) ==
    /\ Text(d) /\ Len(d) = Len(s)
    /\ \A m \in 1 .. Len(s) : d[m] = IF m = k THEN x ELSE s[m]

LEMMA TextExcept ==
    ASSUME NEW s, Text(s), NEW k \in 1 .. Len(s), NEW x
    PROVE  Changed([s EXCEPT ![k] = x], s, k, x)
<1>1. PICK S : s \in Seq(S)
  BY DEF Text
<1>2. s \in Seq(S \union {x})
  BY <1>1, SeqMonotonic
<1> QED
  BY <1>2, ExceptSeq DEF Text, Changed

(* A line keeps its place when a token in its middle is changed. *)
LEMMA PartsExcept ==
    ASSUME NEW b, NEW key, NEW w, NEW a, NEW c, Parts(b, key, w, a, c),
           NEW i \in 2 .. Len(w) - 1, NEW x, x # NL,
           NEW d, Changed(d, b, Len(a) + i, x), NEW v, Changed(v, w, i, x)
    PROVE  Parts(d, key, v, a, c)
<1> DEFINE j == Len(a) + i
<1>1. /\ Whole(a) /\ Line(w) /\ w[1] = key /\ Text(a) /\ Text(w) /\ Text(c)
      /\ None(a, key) /\ None(c, key) /\ c # <<>> /\ b = a \o (w \o c)
  BY DEF Parts, Whole, Line
<1>2. /\ Len(a) \in Nat /\ Len(w) \in Nat /\ Len(c) \in Nat /\ Text(b)
      /\ Len(b) = Len(a) + Len(w) + Len(c)
  BY PartsFind, PartsHas
<1>3. /\ Text(v) /\ Len(v) = Len(w)
      /\ \A k \in 1 .. Len(w) : v[k] = IF k = i THEN x ELSE w[k]
  BY DEF Changed
<1>4. j \in 1 .. Len(b)
  BY <1>2
<1>5. /\ Text(d) /\ Len(d) = Len(b)
      /\ \A k \in 1 .. Len(b) : d[k] = IF k = j THEN x ELSE b[k]
  BY DEF Changed
<1>6. Line(v) /\ v[1] = key
  BY <1>1, <1>2, <1>3, TextLen DEF Line
<1> Text(a) /\ Text(c) /\ Text(v)
  BY <1>1, <1>3
<1>7. d = a \o (v \o c)
  <2>1. /\ Text(v \o c) /\ Len(v \o c) = Len(w) + Len(c)
        /\ \A k \in 1 .. Len(w) : (v \o c)[k] = v[k]
        /\ \A k \in 1 .. Len(c) : (v \o c)[Len(w) + k] = c[k]
    <3>1. /\ Text(v \o c) /\ Len(v \o c) = Len(v) + Len(c)
          /\ \A k \in 1 .. Len(v) : (v \o c)[k] = v[k]
          /\ \A k \in 1 .. Len(c) : (v \o c)[Len(v) + k] = c[k]
      BY TextJoin
    <3> QED
      BY <1>3, <3>1
  <2>2. /\ Text(a \o (v \o c)) /\ Len(a \o (v \o c)) = Len(b)
        /\ \A k \in 1 .. Len(a) : (a \o (v \o c))[k] = a[k]
        /\ \A k \in 1 .. Len(w) + Len(c) : (a \o (v \o c))[Len(a) + k] = (v \o c)[k]
    <3> DEFINE u == v \o c
    <3>1. Len(a) + (Len(w) + Len(c)) = Len(b) /\ Text(u) /\ Len(u) = Len(w) + Len(c)
      BY <1>2, <2>1
    <3> HIDE DEF u
    <3>2. /\ Text(a \o u) /\ Len(a \o u) = Len(a) + Len(u)
          /\ \A k \in 1 .. Len(a) : (a \o u)[k] = a[k]
          /\ \A k \in 1 .. Len(u) : (a \o u)[Len(a) + k] = u[k]
      BY <3>1, TextJoin
    <3>3. /\ Text(a \o u) /\ Len(a \o u) = Len(b)
          /\ \A k \in 1 .. Len(a) : (a \o u)[k] = a[k]
          /\ \A k \in 1 .. Len(w) + Len(c) : (a \o u)[Len(a) + k] = u[k]
      BY <3>1, <3>2
    <3> QED
      BY <3>3 DEF u
  <2>3. /\ Text(w \o c) /\ Len(w \o c) = Len(w) + Len(c)
        /\ \A k \in 1 .. Len(w) : (w \o c)[k] = w[k]
        /\ \A k \in 1 .. Len(c) : (w \o c)[Len(w) + k] = c[k]
    BY <1>1, TextJoin
  <2>4. /\ \A k \in 1 .. Len(a) : b[k] = a[k]
        /\ \A k \in 1 .. Len(w) + Len(c) : b[Len(a) + k] = (w \o c)[k]
    BY <1>1, <2>3, TextJoin
  <2>5. \A k \in 1 .. Len(b) : d[k] = (a \o (v \o c))[k]
    <3> SUFFICES ASSUME NEW k \in 1 .. Len(b)
                 PROVE  d[k] = (a \o (v \o c))[k]
      OBVIOUS
    <3>1. CASE k <= Len(a)
      <4>1. k \in 1 .. Len(a) /\ k # j
        BY <1>2, <3>1
      <4> QED
        BY <1>5, <2>2, <2>4, <4>1
    <3>2. CASE Len(a) < k /\ k <= Len(a) + Len(w)
      <4> DEFINE m == k - Len(a)
      <4>1. /\ m \in 1 .. Len(w) /\ m \in 1 .. Len(w) + Len(c)
            /\ k = Len(a) + m /\ (k = j <=> m = i)
        BY <1>2, <3>2
      <4> HIDE DEF m
      <4>2. (a \o (v \o c))[k] = v[m] /\ b[k] = w[m]
        BY <2>1, <2>2, <2>3, <2>4, <4>1
      <4> HIDE DEF j
      <4> QED
        BY <1>3, <1>5, <4>1, <4>2
    <3>3. CASE k > Len(a) + Len(w)
      <4> DEFINE m == k - Len(a) - Len(w)
      <4>1. /\ m \in 1 .. Len(c) /\ Len(w) + m \in 1 .. Len(w) + Len(c)
            /\ k = Len(a) + (Len(w) + m) /\ k # j
        BY <1>2, <3>3
      <4> HIDE DEF m, j
      <4>2. (a \o (v \o c))[k] = c[m] /\ b[k] = c[m]
        BY <2>1, <2>2, <2>3, <2>4, <4>1
      <4> QED
        BY <1>5, <4>1, <4>2
    <3>4. k <= Len(a) \/ (Len(a) < k /\ k <= Len(a) + Len(w)) \/ k > Len(a) + Len(w)
      BY <1>2
    <3> QED
      BY <3>1, <3>2, <3>3, <3>4
  <2> QED
    BY <1>5, <2>2, <2>5, TextEqual
<1>8. Parts(d, key, v, a, c)
  BY <1>1, <1>6, <1>7 DEF Parts
<1> QED
  BY <1>8

LEMMA PutToken ==
    ASSUME NEW b, NEW key, NEW w, NEW a, NEW c, Parts(b, key, w, a, c),
           NEW i \in 2 .. Len(w) - 1, NEW x, x # NL, NEW j, j = Len(a) + i
    PROVE  /\ Parts([b EXCEPT ![j] = x], key, [w EXCEPT ![i] = x], a, c)
           /\ Changed([w EXCEPT ![i] = x], w, i, x)
<1> DEFINE d == [b EXCEPT ![j] = x]
           v == [w EXCEPT ![i] = x]
<1>1. Text(b) /\ Text(w)
  BY PartsHas DEF Parts, Line
<1>2. j \in 1 .. Len(b) /\ i \in 1 .. Len(w)
  <2>1. /\ Len(a) \in Nat /\ Len(w) \in Nat \ {0} /\ Len(c) \in Nat \ {0}
        /\ Len(b) = Len(a) + Len(w) + Len(c)
    BY PartsFind
  <2> QED
    BY <2>1
<1>3. Changed(d, b, j, x) /\ Changed(v, w, i, x)
  BY <1>1, <1>2, TextExcept
<1> HIDE DEF d, v
<1>4. Changed(d, b, Len(a) + i, x)
  BY <1>3
<1>5. Parts(d, key, v, a, c)
  BY <1>3, <1>4, PartsExcept
<1> QED
  BY <1>3, <1>5 DEF d, v

(* a line of a key and a value *)
EntryOf(key, value) == (<<key>> \o value) \o <<NL>>

Value(value) ==
    /\ Text(value) /\ Len(value) \in Nat \ {0}
    /\ \A i \in 1 .. Len(value) : value[i] # NL

LEMMA LineOfEntry ==
    ASSUME NEW key, NEW value, key # NL, Value(value)
    PROVE  LET w == EntryOf(key, value)
           IN  /\ Line(w) /\ Len(w) = Len(value) + 2 /\ w[1] = key
               /\ IsPrefix(<<key>> \o value, w)
               /\ (<<key>> \o value)[1] = key /\ w[2] = value[1]
<1> DEFINE s == <<key>>
           e == <<NL>>
           u == s \o value
           w == u \o e
<1>1. /\ s \in Seq({key}) /\ Len(s) = 1 /\ s[1] = key
      /\ e \in Seq({NL}) /\ Len(e) = 1 /\ e[1] = NL
  OBVIOUS
<1> HIDE DEF s, e
<1>2. Text(s) /\ Text(e)
  BY <1>1 DEF Text
<1>3. /\ Text(value) /\ Len(value) \in Nat \ {0}
      /\ \A i \in 1 .. Len(value) : value[i] # NL
  BY DEF Value
<1>4. /\ Text(u) /\ Len(u) = Len(value) + 1 /\ u[1] = key
      /\ \A i \in 1 .. Len(value) : u[1 + i] = value[i]
  <2>1. /\ Text(u) /\ Len(u) = Len(s) + Len(value)
        /\ \A i \in 1 .. Len(s) : u[i] = s[i]
        /\ \A i \in 1 .. Len(value) : u[Len(s) + i] = value[i]
    BY <1>2, <1>3, TextJoin
  <2> HIDE DEF u
  <2>2. 1 \in 1 .. Len(s) /\ Len(s) + Len(value) = Len(value) + 1
    BY <1>1, <1>3
  <2> QED
    BY <1>1, <2>1, <2>2
<1> HIDE DEF u
<1>5. /\ Text(w) /\ Len(w) = Len(value) + 2
      /\ \A i \in 1 .. Len(u) : w[i] = u[i]
      /\ w[Len(value) + 2] = NL
  <2>1. /\ Text(w) /\ Len(w) = Len(u) + Len(e)
        /\ \A i \in 1 .. Len(u) : w[i] = u[i]
        /\ \A i \in 1 .. Len(e) : w[Len(u) + i] = e[i]
    BY <1>2, <1>4, TextJoin
  <2>2. Len(u) + 1 = Len(value) + 2 /\ 1 \in 1 .. Len(e)
    BY <1>1, <1>3, <1>4
  <2> HIDE DEF w
  <2> QED
    BY <1>1, <2>1, <2>2
<1>6. IsPrefix(u, w)
  <2>1. Len(u) \in Nat /\ Len(u) <= Len(w)
    BY <1>3, <1>4, <1>5
  <2> HIDE DEF w
  <2>2. SubSeq(w, 1, Len(u)) = SubSeq(u, 1, Len(u))
    <3>1. /\ Text(SubSeq(w, 1, Len(u))) /\ Len(SubSeq(w, 1, Len(u))) = Len(u)
          /\ Text(SubSeq(u, 1, Len(u))) /\ Len(SubSeq(u, 1, Len(u))) = Len(u)
      BY <1>4, <1>5, <2>1, TextPrefix
    <3>2. \A i \in 1 .. Len(u) : /\ SubSeq(w, 1, Len(u))[i] = w[i]
                                 /\ SubSeq(u, 1, Len(u))[i] = u[i]
      BY <2>1, TextSub
    <3> QED
      BY <1>5, <3>1, <3>2, TextEqual
  <2> HIDE DEF w
  <2> QED
    BY <2>1, <2>2 DEF IsPrefix
<1> HIDE DEF w
<1>7. Line(w) /\ w[1] = key /\ w[2] = value[1]
  <2>1. \A i \in 1 .. Len(w) - 1 : w[i] # NL
    <3> TAKE i \in 1 .. Len(w) - 1
    <3>1. i \in 1 .. Len(u)
      BY <1>3, <1>4, <1>5
    <3>2. CASE i = 1
      BY <1>4, <1>5, <3>1, <3>2
    <3>3. CASE i # 1
      <4>1. i - 1 \in 1 .. Len(value) /\ 1 + (i - 1) = i
        BY <1>3, <1>4, <3>1, <3>3
      <4>2. value[i - 1] # NL
        BY <1>3, <4>1
      <4>3. u[1 + (i - 1)] = value[i - 1]
        BY <1>4, <4>1
      <4> QED
        BY <1>5, <3>1, <4>1, <4>2, <4>3
    <3> QED
      BY <3>2, <3>3
  <2>2. 1 \in 1 .. Len(u) /\ 2 \in 1 .. Len(u) /\ 1 \in 1 .. Len(value) /\ 1 + 1 = 2
    BY <1>3, <1>4
  <2>3. w[1] = key /\ w[2] = value[1]
    BY <1>4, <1>5, <2>2
  <2>4. w # <<>> /\ w[Len(w)] = NL
    BY <1>3, <1>5, TextLen
  <2> QED
    BY <1>5, <2>1, <2>3, <2>4 DEF Line
<1> QED
  BY <1>4, <1>5, <1>6, <1>7 DEF w, u, s, e, EntryOf

LEMMA DecimalValue ==
    ASSUME NEW n
    PROVE  Value(Decimal(n)) /\ Decimal(n)[1] = Num(n)
<1>1. Width(n) \in Nat \ {0}
  <2> DEFINE P == {p \in {10, 100, 1000, 10000} : n >= p \/ -n >= p}
             T == {10, 100, 1000, 10000}
  <2>1. IsFiniteSet(T)
    <3>1. PICK m \in Int : m = 10000
      OBVIOUS
    <3>2. T \subseteq 1 .. m
      BY <3>1
    <3>3. IsFiniteSet(1 .. m)
      BY FS_Interval
    <3> HIDE DEF T
    <3> QED
      BY <3>2, <3>3, FS_Subset
  <2>2. P \subseteq T
    OBVIOUS
  <2> HIDE DEF P, T
  <2>3. IsFiniteSet(P)
    BY <2>1, <2>2, FS_Subset
  <2>4. Cardinality(P) \in Nat
    BY <2>3, FS_CardinalityType
  <2> DEFINE m == IF n < 0 THEN 2 ELSE 1
  <2>5. Width(n) = m + Cardinality(P) /\ m \in {1, 2}
    BY DEF Width, P
  <2> HIDE DEF m
  <2> QED
    BY <2>4, <2>5
<1> DEFINE d == Decimal(n)
<1>2. d = [i \in 1 .. Width(n) |-> Num(n)]
  BY DEF Decimal
<1> HIDE DEF d
<1>3. d \in Seq({Num(n)}) /\ Len(d) = Width(n) /\ \A i \in 1 .. Width(n) : d[i] = Num(n)
  BY <1>1, <1>2
<1>4. Num(n) # NL
  BY DEF Num, NL
<1> QED
  BY <1>1, <1>3, <1>4 DEF Value, Text, d

LEMMA NumValue ==
    ASSUME NEW n
    PROVE  Value(<<Num(n)>>) /\ <<Num(n)>>[1] = Num(n)
<1> DEFINE d == <<Num(n)>>
<1>1. d \in Seq({Num(n)}) /\ Len(d) = 1 /\ d[1] = Num(n)
  OBVIOUS
<1> HIDE DEF d
<1>2. Num(n) # NL
  BY DEF Num, NL
<1>3. Value(d)
  BY <1>1, <1>2 DEF Value, Text
<1> QED
  BY <1>1, <1>3 DEF d

(* a line of four tokens *)
LEMMA LineOfFour ==
    ASSUME NEW x, NEW y, NEW z, x # NL, y # NL, z # NL
    PROVE  /\ Line(<<x, y, z, NL>>) /\ Len(<<x, y, z, NL>>) = 4
           /\ <<x, y, z, NL>>[1] = x
           /\ IsPrefix(<<x, y, z>>, <<x, y, z, NL>>)
<1>1. <<x, y, z, NL>> \in Seq({x, y, z, NL})
  OBVIOUS
<1>2. Line(<<x, y, z, NL>>)
  <2> DEFINE w == <<x, y, z, NL>>
  <2>1. /\ Len(w) = 4 /\ w[1] = x /\ w[2] = y /\ w[3] = z /\ w[4] = NL
        /\ Text(w) /\ w # <<>>
    BY <1>1 DEF Text
  <2> HIDE DEF w
  <2>2. Line(w)
    BY <2>1 DEF Line
  <2> QED
    BY <2>2 DEF w
<1>3. IsPrefix(<<x, y, z>>, <<x, y, z, NL>>)
  BY DEF IsPrefix
<1> QED
  BY <1>2, <1>3

--------------------------------------------------------------------------------
(***************************************************************************)
(* The end of a text                                                       *)
(***************************************************************************)
(* whole lines, and no token of them is one of the keys *)
Free(z, keys) == Whole(z) /\ \A i \in 1 .. Len(z) : z[i] \notin keys

EndsIn(b, z) == \E x : Whole(x) /\ b = x \o z

LEMMA FreeNone ==
    ASSUME NEW z, NEW keys, Free(z, keys), NEW key \in keys
    PROVE  None(z, key)
BY DEF Free, None, Found, Starts

LEMMA FreeJoin ==
    ASSUME NEW y, NEW z, NEW keys, Free(y, keys), Free(z, keys)
    PROVE  Free(y \o z, keys) /\ Len(y \o z) = Len(y) + Len(z)
<1>1. /\ Whole(y) /\ Whole(z) /\ Text(y) /\ Text(z)
      /\ \A i \in 1 .. Len(y) : y[i] \notin keys
      /\ \A i \in 1 .. Len(z) : z[i] \notin keys
  BY DEF Free, Whole
<1>2. Whole(y \o z)
  BY <1>1, WholeJoin
<1> DEFINE x == y \o z
<1>3. /\ Text(x) /\ Len(x) = Len(y) + Len(z) /\ Len(y) \in Nat /\ Len(z) \in Nat
      /\ \A i \in 1 .. Len(y) : x[i] = y[i]
      /\ \A i \in 1 .. Len(z) : x[Len(y) + i] = z[i]
  BY <1>1, TextJoin, TextLen
<1> HIDE DEF x
<1>4. \A i \in 1 .. Len(x) : x[i] \notin keys
  <2> TAKE i \in 1 .. Len(x)
  <2>1. CASE i <= Len(y)
    BY <1>1, <1>3, <2>1
  <2>2. CASE i > Len(y)
    <3>1. i - Len(y) \in 1 .. Len(z) /\ i = Len(y) + (i - Len(y))
      BY <1>3, <2>2
    <3>2. x[Len(y) + (i - Len(y))] = z[i - Len(y)]
      BY <1>3, <3>1
    <3> QED
      BY <1>1, <3>1, <3>2
  <2> QED
    BY <1>3, <2>1, <2>2
<1> QED
  BY <1>2, <1>3, <1>4 DEF Free, x

(* a text that is longer than what is in front of such an end *)
LEMMA FreeTail ==
    ASSUME NEW b, NEW z, NEW keys, EndsIn(b, z), Free(z, keys),
           NEW n \in Nat, Len(b) - n <= Len(z)
    PROVE  LET tail == SubSeq(b, n + 1, Len(b))
           IN  /\ Free(tail, keys)
               /\ tail = <<>> <=> Len(b) <= n
<1>1. PICK x : Whole(x) /\ b = x \o z
  BY DEF EndsIn
<1>2. /\ Text(x) /\ Text(z) /\ Len(x) \in Nat /\ Len(z) \in Nat
      /\ z = <<>> \/ z[Len(z)] = NL
      /\ \A i \in 1 .. Len(z) : z[i] \notin keys
  BY <1>1, TextLen DEF Free, Whole
<1>3. /\ Text(b) /\ Len(b) = Len(x) + Len(z)
      /\ \A i \in 1 .. Len(z) : b[Len(x) + i] = z[i]
  BY <1>1, <1>2, TextJoin
<1> DEFINE tail == SubSeq(b, n + 1, Len(b))
<1>4. /\ Text(tail)
      /\ Len(tail) = IF n + 1 <= Len(b) THEN Len(b) - (n + 1) + 1 ELSE 0
      /\ \A i \in 1 .. Len(b) - (n + 1) + 1 : tail[i] = b[n + 1 + i - 1]
  BY <1>2, <1>3, TextSub
<1> HIDE DEF tail
<1>5. tail = <<>> <=> Len(tail) = 0
  BY <1>4, TextLen
<1>6. ASSUME Len(b) <= n PROVE Free(tail, keys) /\ tail = <<>>
  <2>1. Len(tail) = 0
    BY <1>2, <1>3, <1>4, <1>6
  <2>2. Whole(tail)
    BY <1>4, <1>5, <2>1 DEF Whole
  <2>3. \A i \in 1 .. Len(tail) : tail[i] \notin keys
    BY <2>1
  <2> QED
    BY <1>5, <2>1, <2>2, <2>3 DEF Free
<1>7. ASSUME ~(Len(b) <= n) PROVE Free(tail, keys) /\ tail # <<>>
  <2>1. Len(tail) = Len(b) - n /\ Len(tail) > 0
    BY <1>2, <1>3, <1>4, <1>7
  <2>2. \A i \in 1 .. Len(tail) : tail[i] = z[n - Len(x) + i]
                                /\ n - Len(x) + i \in 1 .. Len(z)
    <3> TAKE i \in 1 .. Len(tail)
    <3>1. n - Len(x) + i \in 1 .. Len(z) /\ Len(x) + (n - Len(x) + i) = n + i
      BY <1>2, <1>3, <2>1
    <3>2. b[Len(x) + (n - Len(x) + i)] = z[n - Len(x) + i]
      BY <1>3, <3>1
    <3>3. i \in 1 .. Len(b) - (n + 1) + 1 /\ n + 1 + i - 1 = n + i
      BY <1>2, <1>3, <2>1
    <3> QED
      BY <1>4, <3>1, <3>2, <3>3
  <2>3. \A i \in 1 .. Len(tail) : tail[i] \notin keys
    BY <1>2, <2>2
  <2>4. tail[Len(tail)] = NL
    <3>1. Len(tail) \in 1 .. Len(tail) /\ n - Len(x) + Len(tail) = Len(z)
      BY <1>2, <1>3, <2>1
    <3>2. Len(z) # 0
      BY <2>2, <3>1
    <3> QED
      BY <1>2, <2>2, <3>1, <3>2, TextLen
  <2>5. tail # <<>>
    BY <1>5, <2>1
  <2>6. Whole(tail)
    BY <1>4, <2>4 DEF Whole
  <2> QED
    BY <2>3, <2>5, <2>6 DEF Free
<1> QED
  BY <1>6, <1>7 DEF tail

(* An end without the key of a line is not touched when the line is taken out *)
LEMMA LineEndsIn ==
    ASSUME NEW a, NEW w, NEW c, NEW z, NEW keys, Whole(a), Line(w), Text(c),
           w[1] \in keys, Free(z, keys), EndsIn(a \o (w \o c), z)
    PROVE  EndsIn(c, z)
<1> DEFINE d == w \o c
           b == a \o d
<1>1. PICK x : Whole(x) /\ b = x \o z
  BY DEF EndsIn
<1>2. /\ Text(a) /\ Text(x) /\ Text(w) /\ Text(z)
      /\ Len(a) \in Nat /\ Len(w) \in Nat \ {0} /\ Len(c) \in Nat
      /\ Len(x) \in Nat /\ Len(z) \in Nat
      /\ w[Len(w)] = NL /\ \A i \in 1 .. Len(w) - 1 : w[i] # NL
      /\ x = <<>> \/ x[Len(x)] = NL
      /\ \A i \in 1 .. Len(z) : z[i] \notin keys
  BY <1>1, TextLen DEF Whole, Line, Free
<1>3. /\ Text(d) /\ Len(d) = Len(w) + Len(c)
      /\ \A i \in 1 .. Len(w) : d[i] = w[i]
      /\ \A i \in 1 .. Len(c) : d[Len(w) + i] = c[i]
  BY <1>2, TextJoin
<1> HIDE DEF d
<1>4. /\ Text(b) /\ Len(b) = Len(a) + Len(d)
      /\ \A i \in 1 .. Len(d) : b[Len(a) + i] = d[i]
  <2>1. Text(a) /\ Text(d)
    BY <1>2, <1>3, Zenon
  <2>2. /\ Text(a \o d) /\ Len(a \o d) = Len(a) + Len(d)
        /\ \A i \in 1 .. Len(d) : (a \o d)[Len(a) + i] = d[i]
    BY <2>1, TextJoin
  <2> QED
    BY <2>2, Zenon
<1> HIDE DEF b
<1>5. /\ Len(b) = Len(x) + Len(z)
      /\ \A i \in 1 .. Len(x) : b[i] = x[i]
      /\ \A i \in 1 .. Len(z) : b[Len(x) + i] = z[i]
  BY <1>1, <1>2, TextJoin
<1>6. \A i \in 1 .. Len(w) : b[Len(a) + i] = w[i]
  BY <1>2, <1>3, <1>4
<1>7. Len(a) + 1 <= Len(x)
  <2>1. b[Len(a) + 1] = w[1]
    BY <1>2, <1>6
  <2>2. CASE Len(a) + 1 > Len(x)
    <3>1. /\ Len(a) + 1 - Len(x) \in 1 .. Len(z)
          /\ Len(x) + (Len(a) + 1 - Len(x)) = Len(a) + 1
      BY <1>2, <1>3, <1>4, <1>5, <2>2
    <3>2. b[Len(x) + (Len(a) + 1 - Len(x))] = z[Len(a) + 1 - Len(x)]
      BY <1>5, <3>1
    <3> QED
      BY <1>2, <2>1, <3>1, <3>2
  <2> QED
    BY <1>2, <2>2
<1> DEFINE m == Len(a) + Len(w)
<1>8. m <= Len(x)
  <2>1. CASE m > Len(x)
    <3>1. /\ Len(x) - Len(a) \in 1 .. Len(w) - 1
          /\ Len(a) + (Len(x) - Len(a)) = Len(x) /\ Len(x) \in 1 .. Len(x)
      BY <1>2, <1>7, <2>1
    <3>2. b[Len(a) + (Len(x) - Len(a))] = w[Len(x) - Len(a)]
      BY <1>2, <1>6, <3>1
    <3>3. x[Len(x)] # NL
      BY <1>2, <1>5, <3>1, <3>2
    <3>4. x # <<>>
      BY <1>2, <1>7, TextLen
    <3> QED
      BY <1>2, <3>3, <3>4
  <2> QED
    BY <1>2, <2>1
<1> DEFINE y == SubSeq(x, m + 1, Len(x))
           u == SubSeq(x, 1, m)
<1>9. x = u \o y /\ Text(u) /\ Len(u) = m /\ Text(y)
  <2>1. m \in 0 .. Len(x) /\ m \in Nat
    BY <1>2, <1>8
  <2> HIDE DEF m
  <2>2. m + 1 \in Int /\ Len(x) \in Int
    BY <1>2, <2>1
  <2>3. x = u \o y
    BY <1>2, <2>1, JoinCut
  <2>4. m \in Nat /\ m <= Len(x)
    BY <1>2, <2>1
  <2>5. Text(u) /\ Len(u) = m
    BY <1>2, <2>4, TextPrefix
  <2>6. Text(y)
    BY <2>2, TextSub
  <2> QED
    BY <2>3, <2>5, <2>6
<1> HIDE DEF u, y
<1>10. Whole(y)
  <2>1. Len(y) \in Nat /\ Len(x) = m + Len(y) /\ \A i \in 1 .. Len(y) : x[m + i] = y[i]
    <3> HIDE DEF m
    <3>1. Len(u \o y) = Len(u) + Len(y) /\ \A i \in 1 .. Len(y) : (u \o y)[Len(u) + i] = y[i]
      BY <1>9, TextJoin
    <3> QED
      BY <1>9, <3>1, TextLen
  <2>2. CASE y # <<>>
    <3>1. Len(y) \in 1 .. Len(y)
      BY <1>9, <2>1, <2>2, TextLen
    <3>2. x # <<>>
      BY <1>2, <1>7, TextLen
    <3> QED
      BY <1>2, <1>9, <2>1, <3>1, <3>2 DEF Whole
  <2> QED
    BY <1>9, <2>2 DEF Whole
<1>11. c = y \o z
  <2>1. From(b, m + 1) = c
    <3>1. b = (a \o w) \o c
      <4>1. Associate(a, w, c)
        BY <1>2, JoinAssociative
      <4> QED
        BY <4>1 DEF Associate, b, d
    <3>2. Text(a \o w) /\ Len(a \o w) = m
      BY <1>2, TextJoin
    <3> HIDE DEF m
    <3> QED
      BY <3>1, <3>2, CutJoin
  <2>2. From(b, m + 1) = y \o z
    <3>1. b = u \o (y \o z)
      <4>1. Associate(u, y, z)
        BY <1>2, <1>9, JoinAssociative
      <4> QED
        BY <1>1, <1>9, <4>1 DEF Associate
    <3>2. Text(y \o z)
      BY <1>2, <1>9, TextJoin
    <3> HIDE DEF m
    <3> QED
      BY <1>9, <3>1, <3>2, CutJoin
  <2> QED
    BY <2>1, <2>2
<1> QED
  BY <1>10, <1>11 DEF EndsIn

LEMMA EndsJoin ==
    ASSUME NEW a, NEW c, NEW z, Whole(a), Text(z), EndsIn(c, z)
    PROVE  EndsIn(a \o c, z)
<1>1. PICK x : Whole(x) /\ c = x \o z
  BY DEF EndsIn
<1>2. a \o (x \o z) = (a \o x) \o z
  <2>1. Associate(a, x, z)
    BY <1>1, JoinAssociative DEF Whole
  <2> QED
    BY <2>1 DEF Associate
<1>3. Whole(a \o x)
  BY <1>1, WholeJoin
<1> QED
  BY <1>1, <1>2, <1>3 DEF EndsIn

LEMMA EndsMore ==
    ASSUME NEW c, NEW z, NEW t, Text(z), Text(t), EndsIn(c, z)
    PROVE  EndsIn(c \o t, z \o t)
<1>1. PICK x : Whole(x) /\ c = x \o z
  BY DEF EndsIn
<1>2. (x \o z) \o t = x \o (z \o t)
  <2>1. Associate(x, z, t)
    BY <1>1, JoinAssociative DEF Whole
  <2> QED
    BY <2>1 DEF Associate
<1> QED
  BY <1>1, <1>2 DEF EndsIn

LEMMA EndsWhole ==
    ASSUME NEW b, NEW z, Whole(z), EndsIn(b, z)
    PROVE  Whole(b)
BY WholeJoin DEF EndsIn

(* what follows whole lines does not change them *)
LEMMA TailAdds ==
    ASSUME NEW a, NEW t, NEW keys, Whole(a), Text(t)
    PROVE  LinesBut(a, keys) \subseteq LinesBut(a \o t, keys)
<1> DEFINE b == a \o t
           K == Kept(a, keys)
           L == Kept(b, keys)
           Rank(S, i) == Cardinality({j \in S : j <= i})
<1>1. Len(a) \in Nat /\ K \subseteq 1 .. Len(a) /\ Kept(t, keys) \subseteq 1 .. Len(t)
  BY TextLen, KeptIs DEF Whole
<1>2. L = K \union {Len(a) + i : i \in Kept(t, keys)}
  BY KeptJoin
<1>3. ASSUME NEW i \in K
      PROVE  /\ i \in L
             /\ {j \in L : j <= i} = {j \in K : j <= i}
             /\ SubSeq(b, i, LineEnd(b, i)) = SubSeq(a, i, LineEnd(a, i))
  <2>1. i \in 1 .. Len(a)
    BY <1>1
  <2>2. {j \in L : j <= i} = {j \in K : j <= i}
    <3>1. Len(t) \in Nat
      BY TextLen
    <3>2. \A j \in Kept(t, keys) : ~(Len(a) + j <= i)
      BY <1>1, <2>1, <3>1
    <3> HIDE DEF K, L
    <3> QED
      BY <1>2, <3>2
  <2>3. SubSeq(b, i, LineEnd(b, i)) = SubSeq(a, i, LineEnd(a, i))
    BY <2>1, JoinLeft
  <2> QED
    BY <1>2, <2>2, <2>3
<1>4. LinesBut(a, keys) = {<<Rank(K, i), SubSeq(a, i, LineEnd(a, i))>> : i \in K}
  BY DEF LinesBut
<1>5. LinesBut(b, keys) = {<<Rank(L, i), SubSeq(b, i, LineEnd(b, i))>> : i \in L}
  BY DEF LinesBut
<1> HIDE DEF K, L, b
<1>6. \A i \in K : /\ i \in L
                   /\ <<Rank(K, i), SubSeq(a, i, LineEnd(a, i))>> =
                        <<Rank(L, i), SubSeq(b, i, LineEnd(b, i))>>
  BY <1>3
<1> QED
  BY <1>4, <1>5, <1>6 DEF b

--------------------------------------------------------------------------------
(* Once and OnlyLine say the same as Has. *)
LEMMA OnceHas ==
    ASSUME NEW b, NEW key, Text(b)
    PROVE  /\ Once(b, key) => Has(b, key, OnlyLine(b, key))
           /\ \A w : Has(b, key, w) =>
                 /\ Once(b, key) /\ OnlyLine(b, key) = w
                 /\ Cardinality(Found(b, key)) = 1
<1>1. Len(b) \in Nat
  BY TextLen
<1>2. IsFiniteSet(Found(b, key))
  <2>1. IsFiniteSet(1 .. Len(b))
    BY <1>1, FS_Interval
  <2> QED
    BY <2>1, FoundIn, FS_Subset
<1>3. ASSUME Once(b, key) PROVE Has(b, key, OnlyLine(b, key))
  <2>1. PICK i : Found(b, key) = {i}
    BY <1>2, <1>3, FS_Singleton DEF Once
  <2>2. i \in 1 .. Len(b) /\ LineEnd(b, i) < Len(b)
    BY <1>3, <2>1, FoundIn DEF Once
  <2>3. OnlyLine(b, key) = SubSeq(b, i, LineEnd(b, i))
    BY <2>1 DEF OnlyLine
  <2> QED
    BY <2>1, <2>2, <2>3 DEF Has
<1>4. ASSUME NEW w, Has(b, key, w)
      PROVE  /\ Once(b, key) /\ OnlyLine(b, key) = w
             /\ Cardinality(Found(b, key)) = 1
  <2>1. PICK i \in 1 .. Len(b) : /\ Found(b, key) = {i}
                                /\ LineEnd(b, i) < Len(b)
                                /\ w = SubSeq(b, i, LineEnd(b, i))
    BY <1>4 DEF Has
  <2>2. Cardinality(Found(b, key)) = 1
    BY <2>1, FS_Singleton
  <2>3. OnlyLine(b, key) = w
    BY <2>1 DEF OnlyLine
  <2> QED
    BY <2>1, <2>2, <2>3 DEF Once
<1> QED
  BY <1>3, <1>4
================================================================================
