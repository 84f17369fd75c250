------------------------------ MODULE TablesProofs -----------------------------
(***************************************************************************)
(* The properties of ModeTables hold for every ASSIGN.SYS, for every       *)
(* nvdivga.inf of fewer than 256 modes and for any number of allocations   *)
(* that fail.  The modes of the hardware are the tables themselves: what   *)
(* is said of all of them is proved table by table.                        *)
(***************************************************************************)
EXTENDS ModeTables, FiniteSetTheorems, WellFoundedInduction, TLAPS

--------------------------------------------------------------------------------
(***************************************************************************)
(* The tables of the hardware                                              *)
(***************************************************************************)
(* the modes of the hardware's tables *)
HwMode == [idx : Depths, width : Nat, height : Nat, planes : Nat, rez : Nat,
           vmode : Nat, card : {0}]

(* SAGA's own modes *)
Own(m) == m.vmode >= SVEXT

(* the codes of a table *)
Coded(R) ==
    \A j \in DOMAIN R :
        /\ R[j].rez > 0
        /\ R[j].vmode # 0 => R[j].rez = REZ_FALCON
        /\ (R[j].vmode \div PAL) % 2 = 0
        /\ Own(R[j]) => R[j].vmode >= SVEXT + 256

(* a code tells a mode; so does a size in its list, if SAGA's own modes are taken
   for themselves *)
Apart(m, n) ==
    /\ m.rez = n.rez /\ m.vmode = n.vmode => m = n
    /\ m.idx = n.idx => m.planes = n.planes
    /\ m.idx = n.idx /\ Size(m) = Size(n) /\ (Own(m) <=> Own(n)) => m = n

Told(R) ==
    \A j, k \in DOMAIN R :
        Apart(R[j], R[k]) /\ (j < k /\ Own(R[j]) => Own(R[k]))

Good(R) == R \in Seq(HwMode) /\ Coded(R) /\ Told(R)

(* No modes. *)
LEMMA EmptyTable == Good(<<>>)
BY DEF Good, Coded, Told

(* initres_st. *)
LEMMA StTable ==
    Good(initres_st) /\ \A j \in DOMAIN initres_st : initres_st[j].vmode = 0
<1> USE DEF initres_st, Rez, Mode, REZ_ST_LOW, REZ_ST_MED, REZ_ST_HIGH, REZ_FALCON, PAL,
            SVEXT, Depths
<1>1. initres_st \in Seq(HwMode)
  BY DEF HwMode
<1>2. Coded(initres_st) /\ \A j \in DOMAIN initres_st : initres_st[j].vmode = 0
  BY DEF Coded, Own
<1>3. Told(initres_st)
  BY DEF Told, Apart, Own, Size
<1> QED
  BY <1>1, <1>2, <1>3 DEF Good

(* Two tables after each other. *)
LEMMA GoodJoined ==
    ASSUME NEW A, NEW B, Good(A), Good(B),
           \A j \in DOMAIN A, k \in DOMAIN B :
               Apart(A[j], B[k]) /\ (Own(A[j]) => Own(B[k]))
    PROVE  /\ Good(A \o B)
           /\ \A j \in DOMAIN (A \o B) :
                 \/ j \in DOMAIN A /\ (A \o B)[j] = A[j]
                 \/ j - Len(A) \in DOMAIN B /\ (A \o B)[j] = B[j - Len(A)]
<1> DEFINE R == A \o B
           First(j) == j \in DOMAIN A /\ R[j] = A[j]
           Second(j) == j > Len(A) /\ j - Len(A) \in DOMAIN B /\ R[j] = B[j - Len(A)]
<1>0. A \in Seq(HwMode) /\ B \in Seq(HwMode)
  BY DEF Good
<1>1. /\ R \in Seq(HwMode) /\ Len(R) = Len(A) + Len(B)
      /\ DOMAIN R = 1 .. Len(A) + Len(B)
      /\ DOMAIN A = 1 .. Len(A) /\ DOMAIN B = 1 .. Len(B)
      /\ Len(A) \in Nat /\ Len(B) \in Nat
      /\ \A j \in 1 .. Len(A) : R[j] = A[j]
      /\ \A j \in Len(A) + 1 .. Len(A) + Len(B) : R[j] = B[j - Len(A)]
  BY <1>0
<1> HIDE DEF R
<1>2. \A j \in DOMAIN R : First(j) \/ Second(j)
  BY <1>1
<1>3. Coded(R)
  BY <1>2 DEF Good, Coded
<1>4. Told(R)
  <2> SUFFICES ASSUME NEW j \in DOMAIN R, NEW k \in DOMAIN R
               PROVE  Apart(R[j], R[k]) /\ (j < k /\ Own(R[j]) => Own(R[k]))
    BY DEF Told
  <2>1. CASE First(j) /\ First(k)
    BY <2>1 DEF Good, Told
  <2>2. CASE Second(j) /\ First(k)
    <3>1. ~ j < k
      BY <1>1, <2>2
    <3>2. Apart(A[k], B[j - Len(A)])
      BY <2>2
    <3> QED
      BY <2>2, <3>1, <3>2 DEF Apart
  <2>3. CASE First(j) /\ Second(k)
    BY <2>3
  <2>4. CASE Second(j) /\ Second(k)
    <3>1. j < k => j - Len(A) < k - Len(A)
      BY <1>1, <2>4
    <3> QED
      BY <2>4, <3>1 DEF Good, Told
  <2> QED
    BY <1>2, <2>1, <2>2, <2>3, <2>4
<1> QED
  BY <1>1, <1>2, <1>3, <1>4 DEF Good, R

(* initres_tt, with either monitor. *)
LEMMA TtTable ==
    ASSUME NEW b
    PROVE  Good(initres_tt(b)) /\ \A j \in DOMAIN initres_tt(b) : initres_tt(b)[j].vmode = 0
<1> USE DEF Rez, Mode, REZ_ST_LOW, REZ_ST_MED, REZ_ST_HIGH, REZ_TT_LOW, REZ_TT_MED,
            REZ_TT_HIGH, REZ_FALCON, PAL, SVEXT, Depths
<1> DEFINE Mono == <<Rez(0, 1280, 960, 1, REZ_TT_HIGH)>>
           Colour == <<Rez(2, 640, 480, 4, REZ_TT_MED), Rez(3, 320, 480, 8, REZ_TT_LOW)>>
<1>1. Good(Mono) /\ \A j \in DOMAIN Mono : Mono[j].vmode = 0
  BY DEF Good, Coded, Told, Apart, Own, HwMode, Size
<1>2. Good(Colour) /\ \A j \in DOMAIN Colour : Colour[j].vmode = 0
  BY DEF Good, Coded, Told, Apart, Own, HwMode, Size
<1>3. \A j \in DOMAIN Colour, k \in DOMAIN initres_st :
         Apart(Colour[j], initres_st[k]) /\ ~ Own(Colour[j])
  BY DEF initres_st, Apart, Own, Size
<1>4. CASE b
  BY <1>1, <1>4 DEF initres_tt
<1>5. CASE ~ b
  <2> HIDE DEF Colour
  <2>1. /\ Good(Colour \o initres_st)
        /\ \A j \in DOMAIN (Colour \o initres_st) :
              \/ j \in DOMAIN Colour /\ (Colour \o initres_st)[j] = Colour[j]
              \/ /\ j - Len(Colour) \in DOMAIN initres_st
                 /\ (Colour \o initres_st)[j] = initres_st[j - Len(Colour)]
    BY <1>2, <1>3, StTable, GoodJoined
  <2>2. \A j \in DOMAIN (Colour \o initres_st) : (Colour \o initres_st)[j].vmode = 0
    BY <1>2, <2>1, StTable
  <2>3. initres_tt(b) = Colour \o initres_st
    BY <1>5 DEF initres_tt, Colour
  <2> QED
    BY <2>1, <2>2, <2>3
<1> QED
  BY <1>4, <1>5

(* falcon_mono. *)
LEMMA FalconMono ==
    /\ Good(falcon_mono)
    /\ \A j \in DOMAIN falcon_mono : falcon_mono[j].rez = REZ_FALCON /\ ~ Own(falcon_mono[j])
<1> USE DEF falcon_mono, Row, Mode, REZ_FALCON, PAL, SVEXT, Depths, STMODES, COL80, BPS1
<1>1. falcon_mono \in Seq(HwMode)
  BY DEF HwMode
<1>2. /\ Coded(falcon_mono)
      /\ \A j \in DOMAIN falcon_mono : falcon_mono[j].rez = REZ_FALCON /\ ~ Own(falcon_mono[j])
  BY DEF Coded, Own
<1>3. Told(falcon_mono)
  BY DEF Told, Apart, Own, Size
<1> QED
  BY <1>1, <1>2, <1>3 DEF Good

(* falcon_vga: the depth is in the low bits of the code. *)
LEMMA FalconVga ==
    /\ Good(falcon_vga)
    /\ \A j \in DOMAIN falcon_vga : falcon_vga[j].rez = REZ_FALCON /\ ~ Own(falcon_vga[j])
<1> USE DEF falcon_vga, Row, Mode, REZ_FALCON, PAL, SVEXT, Depths,
            BPS1, BPS2, BPS4, BPS8, BPS16, COL80, VGA, TV, OVERSCAN, STMODES, VERTFLAG
<1>1. falcon_vga \in Seq(HwMode) /\ DOMAIN falcon_vga = 1 .. 19
  BY DEF HwMode
<1>2. /\ Coded(falcon_vga)
      /\ \A j \in DOMAIN falcon_vga : falcon_vga[j].rez = REZ_FALCON /\ ~ Own(falcon_vga[j])
  BY DEF Coded, Own
<1>3. \A j \in 1 .. 19 : LET m == falcon_vga[j] IN
         /\ ~ Own(m) /\ m.vmode % 8 = m.idx
         /\ m.idx = 0 <=> j \in 1 .. 3
         /\ m.idx = 1 <=> j \in 4 .. 8
         /\ m.idx = 2 <=> j \in 9 .. 13
         /\ m.idx = 3 <=> j \in 14 .. 17
         /\ m.idx = 4 <=> j \in 18 .. 19
         /\ m.idx \in 0 .. 4
  BY DEF Own
<1>4. \A j, k \in 1 .. 3 : Apart(falcon_vga[j], falcon_vga[k])
  BY DEF Apart, Size, Own
<1>5. \A j, k \in 4 .. 8 : Apart(falcon_vga[j], falcon_vga[k])
  <2>1. \A j, k \in 4 .. 8 : falcon_vga[j].vmode = falcon_vga[k].vmode => j = k
    OBVIOUS
  <2>2. \A j, k \in 4 .. 8 :
           (/\ falcon_vga[j].width = falcon_vga[k].width
            /\ falcon_vga[j].height = falcon_vga[k].height) => j = k
    OBVIOUS
  <2>3. \A j \in 4 .. 8 : falcon_vga[j].planes = 2
    OBVIOUS
  <2> HIDE DEF falcon_vga, Row, Mode
  <2> QED
    BY <2>1, <2>2, <2>3 DEF Apart, Size
<1>6. \A j, k \in 9 .. 13 : Apart(falcon_vga[j], falcon_vga[k])
  <2>1. \A j, k \in 9 .. 13 : falcon_vga[j].vmode = falcon_vga[k].vmode => j = k
    OBVIOUS
  <2>2. \A j, k \in 9 .. 13 :
           (/\ falcon_vga[j].width = falcon_vga[k].width
            /\ falcon_vga[j].height = falcon_vga[k].height) => j = k
    OBVIOUS
  <2>3. \A j \in 9 .. 13 : falcon_vga[j].planes = 4
    OBVIOUS
  <2> HIDE DEF falcon_vga, Row, Mode
  <2> QED
    BY <2>1, <2>2, <2>3 DEF Apart, Size
<1>7. \A j, k \in 14 .. 17 : Apart(falcon_vga[j], falcon_vga[k])
  <2>1. \A j, k \in 14 .. 17 : falcon_vga[j].vmode = falcon_vga[k].vmode => j = k
    OBVIOUS
  <2>2. \A j, k \in 14 .. 17 :
           (/\ falcon_vga[j].width = falcon_vga[k].width
            /\ falcon_vga[j].height = falcon_vga[k].height) => j = k
    OBVIOUS
  <2>3. \A j \in 14 .. 17 : falcon_vga[j].planes = 8
    OBVIOUS
  <2> HIDE DEF falcon_vga, Row, Mode
  <2> QED
    BY <2>1, <2>2, <2>3 DEF Apart, Size
<1>8. \A j, k \in 18 .. 19 : Apart(falcon_vga[j], falcon_vga[k])
  <2>1. \A j, k \in 18 .. 19 : falcon_vga[j].vmode = falcon_vga[k].vmode => j = k
    OBVIOUS
  <2>2. \A j, k \in 18 .. 19 :
           (/\ falcon_vga[j].width = falcon_vga[k].width
            /\ falcon_vga[j].height = falcon_vga[k].height) => j = k
    OBVIOUS
  <2>3. \A j \in 18 .. 19 : falcon_vga[j].planes = 16
    OBVIOUS
  <2> HIDE DEF falcon_vga, Row, Mode
  <2> QED
    BY <2>1, <2>2, <2>3 DEF Apart, Size
<1> HIDE DEF falcon_vga, Row, Mode
<1>9. ASSUME NEW j \in 1 .. 19, NEW k \in 1 .. 19, falcon_vga[j].idx # falcon_vga[k].idx
      PROVE  Apart(falcon_vga[j], falcon_vga[k])
  <2>1. falcon_vga[j].vmode % 8 = falcon_vga[j].idx /\ falcon_vga[k].vmode % 8 = falcon_vga[k].idx
    BY <1>3
  <2>2. falcon_vga[j].vmode # falcon_vga[k].vmode
    BY <1>9, <2>1
  <2> QED
    BY <1>9, <2>2 DEF Apart
<1>10. ASSUME NEW j \in DOMAIN falcon_vga, NEW k \in DOMAIN falcon_vga
       PROVE  Apart(falcon_vga[j], falcon_vga[k]) /\ ~ Own(falcon_vga[j])
  <2>1. j \in 1 .. 19 /\ k \in 1 .. 19
    BY <1>1
  <2>2. ~ Own(falcon_vga[j]) /\ falcon_vga[j].idx \in 0 .. 4
    BY <1>3, <2>1
  <2>3. CASE falcon_vga[j].idx # falcon_vga[k].idx
    BY <1>9, <2>1, <2>2, <2>3
  <2>4. CASE falcon_vga[j].idx = falcon_vga[k].idx
    <3>1. CASE falcon_vga[j].idx = 0
      <4>1. j \in 1 .. 3 /\ k \in 1 .. 3
        BY <1>3, <2>1, <2>4, <3>1
      <4> QED
        BY <1>4, <2>2, <4>1
    <3>2. CASE falcon_vga[j].idx = 1
      <4>1. j \in 4 .. 8 /\ k \in 4 .. 8
        BY <1>3, <2>1, <2>4, <3>2
      <4> QED
        BY <1>5, <2>2, <4>1
    <3>3. CASE falcon_vga[j].idx = 2
      <4>1. j \in 9 .. 13 /\ k \in 9 .. 13
        BY <1>3, <2>1, <2>4, <3>3
      <4> QED
        BY <1>6, <2>2, <4>1
    <3>4. CASE falcon_vga[j].idx = 3
      <4>1. j \in 14 .. 17 /\ k \in 14 .. 17
        BY <1>3, <2>1, <2>4, <3>4
      <4> QED
        BY <1>7, <2>2, <4>1
    <3>5. CASE falcon_vga[j].idx = 4
      <4>1. j \in 18 .. 19 /\ k \in 18 .. 19
        BY <1>3, <2>1, <2>4, <3>5
      <4> QED
        BY <1>8, <2>2, <4>1
    <3> QED
      BY <2>2, <3>1, <3>2, <3>3, <3>4, <3>5
  <2> QED
    BY <2>2, <2>3, <2>4
<1>11. Told(falcon_vga)
  BY <1>10 DEF Told
<1> QED
  BY <1>1, <1>2, <1>11 DEF Good

(* falcon_tv: the depth is in the low bits of the code. *)
LEMMA FalconTv ==
    /\ Good(falcon_tv)
    /\ \A j \in DOMAIN falcon_tv : falcon_tv[j].rez = REZ_FALCON /\ ~ Own(falcon_tv[j])
<1> USE DEF falcon_tv, Row, Mode, REZ_FALCON, PAL, SVEXT, Depths,
            BPS1, BPS2, BPS4, BPS8, BPS16, COL80, VGA, TV, OVERSCAN, STMODES, VERTFLAG
<1>1. falcon_tv \in Seq(HwMode) /\ DOMAIN falcon_tv = 1 .. 36
  BY DEF HwMode
<1>2. /\ Coded(falcon_tv)
      /\ \A j \in DOMAIN falcon_tv : falcon_tv[j].rez = REZ_FALCON /\ ~ Own(falcon_tv[j])
  BY DEF Coded, Own
<1>3. \A j \in 1 .. 36 : LET m == falcon_tv[j] IN
         /\ ~ Own(m) /\ m.vmode % 8 = m.idx
         /\ m.idx = 0 <=> j \in 1 .. 4
         /\ m.idx = 1 <=> j \in 5 .. 12
         /\ m.idx = 2 <=> j \in 13 .. 20
         /\ m.idx = 3 <=> j \in 21 .. 28
         /\ m.idx = 4 <=> j \in 29 .. 36
         /\ m.idx \in 0 .. 4
  BY DEF Own
<1>4. \A j, k \in 1 .. 4 : Apart(falcon_tv[j], falcon_tv[k])
  <2>1. \A j, k \in 1 .. 4 : falcon_tv[j].vmode = falcon_tv[k].vmode => j = k
    OBVIOUS
  <2>2. \A j, k \in 1 .. 4 :
           (/\ falcon_tv[j].width = falcon_tv[k].width
            /\ falcon_tv[j].height = falcon_tv[k].height) => j = k
    OBVIOUS
  <2>3. \A j \in 1 .. 4 : falcon_tv[j].planes = 1
    OBVIOUS
  <2> HIDE DEF falcon_tv, Row, Mode
  <2> QED
    BY <2>1, <2>2, <2>3 DEF Apart, Size
<1>5. \A j, k \in 5 .. 12 : Apart(falcon_tv[j], falcon_tv[k])
  <2>1. \A j, k \in 5 .. 12 : falcon_tv[j].vmode = falcon_tv[k].vmode => j = k
    OBVIOUS
  <2>2. \A j, k \in 5 .. 12 :
           (/\ falcon_tv[j].width = falcon_tv[k].width
            /\ falcon_tv[j].height = falcon_tv[k].height) => j = k
    OBVIOUS
  <2>3. \A j \in 5 .. 12 : falcon_tv[j].planes = 2
    OBVIOUS
  <2> HIDE DEF falcon_tv, Row, Mode
  <2> QED
    BY <2>1, <2>2, <2>3 DEF Apart, Size
<1>6. \A j, k \in 13 .. 20 : Apart(falcon_tv[j], falcon_tv[k])
  <2>1. \A j, k \in 13 .. 20 : falcon_tv[j].vmode = falcon_tv[k].vmode => j = k
    OBVIOUS
  <2>2. \A j, k \in 13 .. 20 :
           (/\ falcon_tv[j].width = falcon_tv[k].width
            /\ falcon_tv[j].height = falcon_tv[k].height) => j = k
    OBVIOUS
  <2>3. \A j \in 13 .. 20 : falcon_tv[j].planes = 4
    OBVIOUS
  <2> HIDE DEF falcon_tv, Row, Mode
  <2> QED
    BY <2>1, <2>2, <2>3 DEF Apart, Size
<1>7. \A j, k \in 21 .. 28 : Apart(falcon_tv[j], falcon_tv[k])
  <2>1. \A j, k \in 21 .. 28 : falcon_tv[j].vmode = falcon_tv[k].vmode => j = k
    OBVIOUS
  <2>2. \A j, k \in 21 .. 28 :
           (/\ falcon_tv[j].width = falcon_tv[k].width
            /\ falcon_tv[j].height = falcon_tv[k].height) => j = k
    OBVIOUS
  <2>3. \A j \in 21 .. 28 : falcon_tv[j].planes = 8
    OBVIOUS
  <2> HIDE DEF falcon_tv, Row, Mode
  <2> QED
    BY <2>1, <2>2, <2>3 DEF Apart, Size
<1>8. \A j, k \in 29 .. 36 : Apart(falcon_tv[j], falcon_tv[k])
  <2>1. \A j, k \in 29 .. 36 : falcon_tv[j].vmode = falcon_tv[k].vmode => j = k
    OBVIOUS
  <2>2. \A j, k \in 29 .. 36 :
           (/\ falcon_tv[j].width = falcon_tv[k].width
            /\ falcon_tv[j].height = falcon_tv[k].height) => j = k
    OBVIOUS
  <2>3. \A j \in 29 .. 36 : falcon_tv[j].planes = 16
    OBVIOUS
  <2> HIDE DEF falcon_tv, Row, Mode
  <2> QED
    BY <2>1, <2>2, <2>3 DEF Apart, Size
<1> HIDE DEF falcon_tv, Row, Mode
<1>9. ASSUME NEW j \in 1 .. 36, NEW k \in 1 .. 36, falcon_tv[j].idx # falcon_tv[k].idx
      PROVE  Apart(falcon_tv[j], falcon_tv[k])
  <2>1. falcon_tv[j].vmode % 8 = falcon_tv[j].idx /\ falcon_tv[k].vmode % 8 = falcon_tv[k].idx
    BY <1>3
  <2>2. falcon_tv[j].vmode # falcon_tv[k].vmode
    BY <1>9, <2>1
  <2> QED
    BY <1>9, <2>2 DEF Apart
<1>10. ASSUME NEW j \in DOMAIN falcon_tv, NEW k \in DOMAIN falcon_tv
       PROVE  Apart(falcon_tv[j], falcon_tv[k]) /\ ~ Own(falcon_tv[j])
  <2>1. j \in 1 .. 36 /\ k \in 1 .. 36
    BY <1>1
  <2>2. ~ Own(falcon_tv[j]) /\ falcon_tv[j].idx \in 0 .. 4
    BY <1>3, <2>1
  <2>3. CASE falcon_tv[j].idx # falcon_tv[k].idx
    BY <1>9, <2>1, <2>2, <2>3
  <2>4. CASE falcon_tv[j].idx = falcon_tv[k].idx
    <3>1. CASE falcon_tv[j].idx = 0
      <4>1. j \in 1 .. 4 /\ k \in 1 .. 4
        BY <1>3, <2>1, <2>4, <3>1
      <4> QED
        BY <1>4, <2>2, <4>1
    <3>2. CASE falcon_tv[j].idx = 1
      <4>1. j \in 5 .. 12 /\ k \in 5 .. 12
        BY <1>3, <2>1, <2>4, <3>2
      <4> QED
        BY <1>5, <2>2, <4>1
    <3>3. CASE falcon_tv[j].idx = 2
      <4>1. j \in 13 .. 20 /\ k \in 13 .. 20
        BY <1>3, <2>1, <2>4, <3>3
      <4> QED
        BY <1>6, <2>2, <4>1
    <3>4. CASE falcon_tv[j].idx = 3
      <4>1. j \in 21 .. 28 /\ k \in 21 .. 28
        BY <1>3, <2>1, <2>4, <3>4
      <4> QED
        BY <1>7, <2>2, <4>1
    <3>5. CASE falcon_tv[j].idx = 4
      <4>1. j \in 29 .. 36 /\ k \in 29 .. 36
        BY <1>3, <2>1, <2>4, <3>5
      <4> QED
        BY <1>8, <2>2, <4>1
    <3> QED
      BY <2>2, <3>1, <3>2, <3>3, <3>4, <3>5
  <2> QED
    BY <2>2, <2>3, <2>4
<1>11. Told(falcon_tv)
  BY <1>10 DEF Told
<1> QED
  BY <1>1, <1>2, <1>11 DEF Good

(* the depths of SAGA, and those that the older tables have too *)
Register == [idx : Depths, reg : 0 .. 10, bpp : 1 .. 32]

Depth(idx, planes) == idx \in {0, 1, 2} => planes = valid_planes[idx + 1]

(* The depths that are left have registers of their own. *)
LEMMA SagaDepths ==
    ASSUME NEW f, NEW D, D = saga_depths(f)
    PROVE  /\ D \in Seq(Register)
           /\ \A i \in DOMAIN D : Depth(D[i].idx, D[i].bpp)
           /\ \A i, j \in DOMAIN D : D[i].idx = D[j].idx \/ D[i].reg = D[j].reg => i = j
<1> DEFINE A == IF f THEN <<>>
                ELSE <<[idx |-> 0, reg |-> 8, bpp |-> 1], [idx |-> 1, reg |-> 9, bpp |-> 2],
                       [idx |-> 2, reg |-> 10, bpp |-> 4], [idx |-> 3, reg |-> 1, bpp |-> 8]>>
           B == <<[idx |-> 5, reg |-> 2, bpp |-> 16], [idx |-> 7, reg |-> 5, bpp |-> 32]>>
<1>1. /\ A \in Seq(Register)
      /\ \A i, j \in DOMAIN A : A[i].idx = A[j].idx \/ A[i].reg = A[j].reg => i = j
      /\ \A i \in DOMAIN A : A[i].idx < 4 /\ A[i].reg \notin {2, 5}
      /\ \A i \in DOMAIN A : Depth(A[i].idx, A[i].bpp)
  <2>1. CASE f
    <3>1. A = <<>>
      BY <2>1
    <3> HIDE DEF A
    <3> QED
      BY <3>1
  <2>2. CASE ~ f
    <3>1. A = <<[idx |-> 0, reg |-> 8, bpp |-> 1], [idx |-> 1, reg |-> 9, bpp |-> 2],
                [idx |-> 2, reg |-> 10, bpp |-> 4], [idx |-> 3, reg |-> 1, bpp |-> 8]>>
      BY <2>2
    <3> HIDE DEF A
    <3>2. A \in Seq(Register)
      BY <3>1 DEF Register, Depths
    <3> QED
      BY <3>1, <3>2 DEF Depth, valid_planes
  <2> QED
    BY <2>1, <2>2
<1>2. /\ B \in Seq(Register)
      /\ \A i, j \in DOMAIN B : B[i].idx = B[j].idx \/ B[i].reg = B[j].reg => i = j
      /\ \A i \in DOMAIN B : B[i].idx > 4 /\ B[i].reg \in {2, 5}
      /\ \A i \in DOMAIN B : Depth(B[i].idx, B[i].bpp)
  BY DEF Register, Depths, Depth
<1>3. D = A \o B
  BY DEF saga_depths
<1> HIDE DEF A, B
<1>4. /\ D \in Seq(Register) /\ DOMAIN D = 1 .. Len(A) + Len(B)
      /\ DOMAIN A = 1 .. Len(A) /\ DOMAIN B = 1 .. Len(B)
      /\ Len(A) \in Nat /\ Len(B) \in Nat
      /\ \A j \in 1 .. Len(A) : D[j] = A[j]
      /\ \A j \in Len(A) + 1 .. Len(A) + Len(B) : D[j] = B[j - Len(A)]
  BY <1>1, <1>2, <1>3
<1>5. \A j \in DOMAIN D :
         \/ j \in DOMAIN A /\ D[j] = A[j]
         \/ j > Len(A) /\ j - Len(A) \in DOMAIN B /\ D[j] = B[j - Len(A)]
  <2> SUFFICES ASSUME NEW j \in 1 .. Len(A) + Len(B)
               PROVE  \/ j \in DOMAIN A /\ D[j] = A[j]
                      \/ j > Len(A) /\ j - Len(A) \in DOMAIN B /\ D[j] = B[j - Len(A)]
    BY <1>4
  <2>1. CASE j <= Len(A)
    BY <1>4, <2>1
  <2>2. CASE j > Len(A)
    BY <1>4, <2>2
  <2> QED
    BY <1>4, <2>1, <2>2
<1>6. ASSUME NEW i \in DOMAIN D, NEW j \in DOMAIN D, D[i].idx = D[j].idx \/ D[i].reg = D[j].reg
      PROVE  i = j
  <2>1. D[i] \in Register /\ D[j] \in Register
    BY <1>4
  <2>2. CASE i \in DOMAIN A /\ D[i] = A[i]
    BY <1>1, <1>2, <1>5, <1>6, <2>1, <2>2 DEF Register, Depths
  <2>3. CASE i > Len(A) /\ i - Len(A) \in DOMAIN B /\ D[i] = B[i - Len(A)]
    <3>1. CASE j \in DOMAIN A /\ D[j] = A[j]
      BY <1>1, <1>2, <1>6, <2>1, <2>3, <3>1 DEF Register, Depths
    <3>2. CASE j > Len(A) /\ j - Len(A) \in DOMAIN B /\ D[j] = B[j - Len(A)]
      <4>1. i - Len(A) = j - Len(A)
        BY <1>2, <1>6, <2>3, <3>2
      <4> QED
        BY <1>4, <4>1
    <3> QED
      BY <1>5, <3>1, <3>2
  <2> QED
    BY <1>5, <2>2, <2>3
<1>7. \A i \in DOMAIN D : Depth(D[i].idx, D[i].bpp)
  BY <1>1, <1>2, <1>5
<1> QED
  BY <1>4, <1>6, <1>7

(* So have the sizes. *)
LEMMA SagaSizes ==
    /\ Len(saga_resolutions) = 16
    /\ \A r \in 1 .. 16 : /\ saga_resolutions[r][1] = r
                         /\ saga_resolutions[r][2] \in Nat
                         /\ saga_resolutions[r][3] \in Nat
    /\ \A r, q \in 1 .. 16 :
          (/\ saga_resolutions[r][2] = saga_resolutions[q][2]
           /\ saga_resolutions[r][3] = saga_resolutions[q][3]) => r = q
<1>1. Len(saga_resolutions) = 16
  BY DEF saga_resolutions
<1>2. \A r \in 1 .. 16 : /\ saga_resolutions[r][1] = r
                        /\ saga_resolutions[r][2] \in Nat
                        /\ saga_resolutions[r][3] \in Nat
  BY DEF saga_resolutions
<1>3. ASSUME NEW r \in 1 .. 16, NEW q \in 1 .. 16,
             saga_resolutions[r][2] = saga_resolutions[q][2],
             saga_resolutions[r][3] = saga_resolutions[q][3]
      PROVE  r = q
  BY <1>3 DEF saga_resolutions
<1> QED
  BY <1>1, <1>2, <1>3

(* Each mode that SAGA has of its own is a size and a depth. *)
LEMMA SagaModes ==
    ASSUME NEW f
    PROVE  /\ Good(saga_modes(f))
           /\ \A j \in DOMAIN saga_modes(f) :
                 /\ saga_modes(f)[j].rez = REZ_FALCON /\ Own(saga_modes(f)[j])
                 /\ Depth(saga_modes(f)[j].idx, saga_modes(f)[j].planes)
<1> DEFINE D == saga_depths(f)
           S == saga_modes(f)
           d(n) == ((n - 1) \div 16) + 1
           r(n) == ((n - 1) % 16) + 1
           M(e, q) == Row(e.idx, saga_resolutions[q][2], saga_resolutions[q][3], e.bpp,
                          SVEXT + q * 256 + e.reg)
<1>1. /\ D \in Seq(Register) /\ Len(D) \in Nat /\ DOMAIN D = 1 .. Len(D)
      /\ \A i, j \in DOMAIN D : D[i].idx = D[j].idx \/ D[i].reg = D[j].reg => i = j
      /\ \A i \in DOMAIN D : Depth(D[i].idx, D[i].bpp)
  BY SagaDepths
<1>2. S = [n \in 1 .. 16 * Len(D) |-> M(D[d(n)], r(n))]
  <2>1. ASSUME NEW n \in 1 .. 16 * Len(D) PROVE r(n) \in 1 .. 16
    BY <1>1, <2>1
  <2> DEFINE N(e, res) == Row(e.idx, res[2], res[3], e.bpp, SagaVmode(res, e))
  <2>2. S = [n \in 1 .. 16 * Len(D) |-> N(D[d(n)], saga_resolutions[r(n)])]
    BY SagaSizes DEF saga_modes
  <2>3. ASSUME NEW n \in 1 .. 16 * Len(D)
        PROVE  N(D[d(n)], saga_resolutions[r(n)]) = M(D[d(n)], r(n))
    <3>1. saga_resolutions[r(n)][1] = r(n)
      BY <2>1, SagaSizes
    <3> HIDE DEF d, r, D
    <3> QED
      BY <3>1 DEF SagaVmode
  <2> HIDE DEF N, M, d, r, S
  <2> QED
    BY <2>2, <2>3
<1> HIDE DEF D, S
<1>3. ASSUME NEW n \in 1 .. 16 * Len(D)
      PROVE  /\ d(n) \in DOMAIN D /\ r(n) \in 1 .. 16 /\ n = 16 * (d(n) - 1) + r(n)
             /\ D[d(n)] \in Register /\ S[n] = M(D[d(n)], r(n))
  <2>1. d(n) \in DOMAIN D /\ r(n) \in 1 .. 16 /\ n = 16 * (d(n) - 1) + r(n)
    BY <1>1
  <2> QED
    BY <1>1, <1>2, <2>1
<1> HIDE DEF d, r
<1>4. ASSUME NEW e \in Register, NEW q \in 1 .. 16
      PROVE  /\ M(e, q) \in HwMode /\ Own(M(e, q)) /\ M(e, q).rez = REZ_FALCON
             /\ M(e, q).vmode >= SVEXT + 256 /\ (M(e, q).vmode \div PAL) % 2 = 0
  BY SagaSizes DEF Register, Row, Mode, HwMode, REZ_FALCON, SVEXT, Own, PAL
<1>5. ASSUME NEW e \in Register, NEW q \in 1 .. 16, NEW g \in Register, NEW p \in 1 .. 16
      PROVE  /\ M(e, q).vmode = M(g, p).vmode => e.reg = g.reg /\ q = p
             /\ M(e, q).idx = M(g, p).idx => e.idx = g.idx
             /\ Size(M(e, q)) = Size(M(g, p)) => q = p
  <2>1. /\ M(e, q).vmode = SVEXT + q * 256 + e.reg /\ M(g, p).vmode = SVEXT + p * 256 + g.reg
        /\ M(e, q).idx = e.idx /\ M(g, p).idx = g.idx
        /\ Size(M(e, q)) = <<saga_resolutions[q][2], saga_resolutions[q][3]>>
        /\ Size(M(g, p)) = <<saga_resolutions[p][2], saga_resolutions[p][3]>>
    BY DEF Row, Mode, Size
  <2> HIDE DEF M
  <2>2. e.reg \in 0 .. 10 /\ g.reg \in 0 .. 10
    BY DEF Register
  <2>3. M(e, q).vmode = M(g, p).vmode => e.reg = g.reg /\ q = p
    <3>1. ASSUME NEW a \in 0 .. 10, NEW b \in 0 .. 10,
                 SVEXT + q * 256 + a = SVEXT + p * 256 + b
          PROVE  a = b /\ q = p
      <4>1. ~ q < p /\ ~ p < q
        BY <3>1 DEF SVEXT
      <4>2. q = p
        BY <4>1
      <4> QED
        BY <3>1, <4>2 DEF SVEXT
    <3> QED
      BY <2>1, <2>2, <3>1
  <2>4. ASSUME Size(M(e, q)) = Size(M(g, p)) PROVE q = p
    <3>1. <<saga_resolutions[q][2], saga_resolutions[q][3]>>
             = <<saga_resolutions[p][2], saga_resolutions[p][3]>>
      BY <2>1, <2>4
    <3>2. /\ saga_resolutions[q][2] = saga_resolutions[p][2]
          /\ saga_resolutions[q][3] = saga_resolutions[p][3]
      BY <3>1
    <3> QED
      BY <3>2, SagaSizes
  <2> QED
    BY <2>1, <2>3, <2>4
<1>6. S \in Seq(HwMode) /\ DOMAIN S = 1 .. 16 * Len(D)
  <2>1. \A n \in 1 .. 16 * Len(D) : M(D[d(n)], r(n)) \in HwMode
    BY <1>3, <1>4
  <2>2. S \in Seq(HwMode) /\ Len(S) = 16 * Len(D)
    <3>1. 16 * Len(D) \in Nat
      BY <1>1
    <3>2. S \in [1 .. 16 * Len(D) -> HwMode]
      BY <1>2, <2>1
    <3> QED
      BY <3>1, <3>2, SMTT(30)
  <2> QED
    BY <2>2
<1> HIDE DEF M
<1>7. \A n \in DOMAIN S : /\ Own(S[n]) /\ S[n].rez = REZ_FALCON
                          /\ S[n].vmode >= SVEXT + 256 /\ (S[n].vmode \div PAL) % 2 = 0
  <2> SUFFICES ASSUME NEW n \in DOMAIN S
               PROVE  /\ Own(S[n]) /\ S[n].rez = REZ_FALCON
                      /\ S[n].vmode >= SVEXT + 256 /\ (S[n].vmode \div PAL) % 2 = 0
    OBVIOUS
  <2>1. r(n) \in 1 .. 16 /\ D[d(n)] \in Register /\ S[n] = M(D[d(n)], r(n))
    BY <1>3, <1>6
  <2> QED
    BY <1>4, <2>1
<1>8. ASSUME NEW n \in DOMAIN S, NEW k \in DOMAIN S PROVE Apart(S[n], S[k])
  <2>1. /\ d(n) \in DOMAIN D /\ r(n) \in 1 .. 16
        /\ D[d(n)] \in Register /\ S[n] = M(D[d(n)], r(n))
    BY <1>3, <1>6
  <2>2. /\ d(k) \in DOMAIN D /\ r(k) \in 1 .. 16
        /\ D[d(k)] \in Register /\ S[k] = M(D[d(k)], r(k))
    BY <1>3, <1>6
  <2>3. S[n].vmode = S[k].vmode => d(n) = d(k) /\ r(n) = r(k)
    <3>1. S[n].vmode = S[k].vmode => D[d(n)].reg = D[d(k)].reg /\ r(n) = r(k)
      BY <1>5, <2>1, <2>2
    <3> QED
      BY <1>1, <2>1, <2>2, <3>1
  <2>4. S[n].idx = S[k].idx => d(n) = d(k)
    <3>1. S[n].idx = S[k].idx => D[d(n)].idx = D[d(k)].idx
      BY <1>5, <2>1, <2>2
    <3> QED
      BY <1>1, <2>1, <2>2, <3>1
  <2>5. Size(S[n]) = Size(S[k]) => r(n) = r(k)
    BY <1>5, <2>1, <2>2
  <2>6. d(n) = d(k) => S[n].planes = S[k].planes
    BY <2>1, <2>2 DEF M, Row, Mode
  <2> QED
    BY <2>1, <2>2, <2>3, <2>4, <2>5, <2>6 DEF Apart
<1>9. Coded(S)
  BY <1>7 DEF Coded, REZ_FALCON
<1>10. Told(S)
  BY <1>7, <1>8 DEF Told
<1>11. ASSUME NEW n \in DOMAIN S PROVE Depth(S[n].idx, S[n].planes)
  <2>1. /\ d(n) \in DOMAIN D /\ S[n] = M(D[d(n)], r(n))
    BY <1>3, <1>6
  <2>2. S[n].idx = D[d(n)].idx /\ S[n].planes = D[d(n)].bpp
    BY <2>1 DEF M, Row, Mode
  <2> QED
    BY <1>1, <2>1, <2>2
<1> QED
  BY <1>6, <1>7, <1>9, <1>10, <1>11 DEF Good, S

(* saga_atari. *)
LEMMA SagaAtari ==
    /\ Good(saga_atari)
    /\ \A j \in DOMAIN saga_atari :
          /\ saga_atari[j].rez = REZ_FALCON /\ ~ Own(saga_atari[j])
          /\ saga_atari[j].idx \in {0, 1, 2}
          /\ Depth(saga_atari[j].idx, saga_atari[j].planes)
<1> USE DEF saga_atari, Row, Mode, REZ_FALCON, PAL, SVEXT, Depths, STMODES, COL80, VGA,
            VERTFLAG, BPS1, BPS2, BPS4
<1>1. saga_atari \in Seq(HwMode)
  BY DEF HwMode
<1>2. Coded(saga_atari)
  BY DEF Coded, Own
<1>3. Told(saga_atari)
  BY DEF Told, Apart, Own, Size
<1> QED
  BY <1>1, <1>2, <1>3 DEF Good, Own, Depth, valid_planes

(* What the rows of every hardware have in common. *)
LEMMA RowsGood ==
    /\ Good(Rows)
    /\ \A j \in DOMAIN Rows :
          /\ IF vdo \in {"falcon", "saga"} THEN Rows[j].rez = REZ_FALCON
             ELSE Rows[j].vmode = 0
          /\ vdo # "saga" => ~ Own(Rows[j])
<1>1. CASE vdo = "st"
  <2>1. Rows = initres_st
    BY <1>1 DEF Rows
  <2> QED
    BY <1>1, <2>1, StTable DEF Own, SVEXT
<1>2. CASE vdo = "tt"
  <2>1. Rows = initres_tt(mono)
    BY <1>2 DEF Rows
  <2> HIDE DEF Rows
  <2>2. \A j \in DOMAIN Rows : Rows[j].vmode = 0
    BY <2>1, TtTable
  <2>3. \A j \in DOMAIN Rows : ~ Own(Rows[j])
    BY <2>2 DEF Own, SVEXT
  <2>4. Good(Rows)
    BY <2>1, TtTable
  <2> QED
    BY <1>2, <2>2, <2>3, <2>4
<1>3. CASE vdo = "falcon"
  <2>1. Rows = falcon_mono \/ Rows = falcon_vga \/ Rows = falcon_tv
    BY <1>3 DEF Rows
  <2> QED
    BY <1>3, <2>1, FalconMono, FalconVga, FalconTv
<1>4. CASE vdo = "saga"
  <2> DEFINE A == IF sys_vdi = "fvdi" THEN <<>> ELSE saga_atari
             S == saga_modes(sys_vdi = "fvdi")
  <2>1. Rows = A \o S
    BY <1>4 DEF Rows
  <2>2. /\ Good(A)
        /\ \A j \in DOMAIN A : /\ A[j].rez = REZ_FALCON /\ ~ Own(A[j])
                               /\ A[j].idx \in {0, 1, 2} /\ Depth(A[j].idx, A[j].planes)
    BY EmptyTable, SagaAtari
  <2>3. /\ Good(S)
        /\ \A j \in DOMAIN S : /\ S[j].rez = REZ_FALCON /\ Own(S[j])
                               /\ Depth(S[j].idx, S[j].planes)
    BY SagaModes
  <2> HIDE DEF A, S
  <2>4. ASSUME NEW j \in DOMAIN A, NEW k \in DOMAIN S
        PROVE  Apart(A[j], S[k]) /\ (Own(A[j]) => Own(S[k]))
    <3>1. A[j].vmode # S[k].vmode
      BY <2>2, <2>3 DEF Own
    <3>2. A[j].idx = S[k].idx => A[j].planes = S[k].planes
      BY <2>2, <2>3 DEF Depth
    <3> QED
      BY <2>2, <2>3, <3>1, <3>2 DEF Apart
  <2>5. Good(A \o S) /\ \A j \in DOMAIN (A \o S) : (A \o S)[j].rez = REZ_FALCON
    <3>1. /\ Good(A \o S)
          /\ \A j \in DOMAIN (A \o S) :
                \/ j \in DOMAIN A /\ (A \o S)[j] = A[j]
                \/ j - Len(A) \in DOMAIN S /\ (A \o S)[j] = S[j - Len(A)]
      BY <2>2, <2>3, <2>4, GoodJoined
    <3> QED
      BY <2>2, <2>3, <3>1
  <2> QED
    BY <1>4, <2>1, <2>5
<1>5. CASE vdo \notin {"st", "tt", "falcon", "saga"}
  <2>1. Rows = <<>>
    BY <1>5 DEF Rows
  <2> QED
    BY <2>1, EmptyTable
<1> QED
  BY <1>1, <1>2, <1>3, <1>4, <1>5

--------------------------------------------------------------------------------
(***************************************************************************)
(* The inductive invariant                                                 *)
(***************************************************************************)
(* a struct res, of the hardware or of a card *)
AnyMode == [idx : Depths, width : Nat, height : Nat, planes : Nat, rez : Nat,
            vmode : Nat, card : Nat]
AssignLine == [id : Int, name : STRING]
InfEntry == [planes : Nat, width : Nat, height : Nat]

Typed ==
    /\ pc \in {"assign", "create", "inf", "done"}
    /\ assign \in Seq(AssignLine)
    /\ inf \in Seq(InfEntry) /\ Len(inf) < 256
    /\ read \in 0 .. Len(assign)
    /\ DOMAIN gdos_drivers = 0 .. 11
    /\ list \in [Depths -> Seq(AnyMode)]
    /\ \A d \in Depths : \A m \in InList(d) : m.idx = d
    /\ count \in [Cards -> Nat]
    /\ lost \in 0 .. MaxLost

(* A row of gdos_drivers has the name of the last line with its id. *)
Named ==
    /\ gdos_drivers[11] = Beyond
    /\ \A id \in 1 .. 10 :
          \/ gdos_drivers[id] = NoName /\ \A k \in 1 .. read : assign[k].id # id
          \/ \E k \in 1 .. read :
                /\ assign[k].id = id /\ assign[k].name = gdos_drivers[id]
                /\ \A l \in k + 1 .. read : assign[l].id # id
    /\ pc # "assign" => read = Len(assign)

(* rez says where a driver is. *)
Placed ==
    /\ rez \in [Cards -> 0 .. 10]
    /\ \A i \in Cards : rez[i] > 0 => gdos_drivers[rez[i]] = et4000modes[i].driver
    /\ pc = "assign" => rez = [i \in Cards |-> 0]
    /\ pc = "inf" => DriverIsAssigned

(* the modes made from the first k rows *)
FromRow(k, m) == \E j \in 1 .. k : m = Rows[j]

CardMode(i, j) ==
    [Mode(OwnedBy(i), inf[j].width, inf[j].height, inf[j].planes,
          rez[i], SVEXT + PlaceOf(j)) EXCEPT !.card = i]

FromFile(m) ==
    \E i \in Cards, j \in DOMAIN inf :
        inf[j].planes = et4000modes[i].planes /\ m = CardMode(i, j)

Making ==
    /\ pc = "assign" => \A d \in Depths : list[d] = <<>>
    /\ pc = "create" =>
          /\ todo \in Seq(HwMode) /\ Len(todo) <= Len(Rows)
          /\ \A i \in 1 .. Len(todo) : todo[i] = Rows[Len(Rows) - Len(todo) + i]
          /\ \A d \in Depths : \A m \in InList(d) : FromRow(Len(Rows) - Len(todo), m)
    /\ pc \in {"inf", "done"} =>
          \A d \in Depths : \A m \in InList(d) : FromRow(Len(Rows), m) \/ FromFile(m)

(* the size tells a mode of the hardware, while they are being made *)
SizeTells ==
    \A d \in Depths : \A m, n \in InList(d) :
        m.card = 0 /\ n.card = 0 /\ Size(m) = Size(n) => m = n

(* how many of the first k modes of nvdivga.inf have that depth *)
Before(planes, k) == Cardinality({l \in 1 .. k : inf[l].planes = planes})

Counting ==
    /\ pc \in {"assign", "create"} => count = [i \in Cards |-> 0]
    /\ pc = "inf" /\ todo # <<>> =>
          /\ todo \in Seq(InfEntry) /\ Len(todo) <= Len(inf)
          /\ \A l \in 1 .. Len(todo) : todo[l] = inf[Len(inf) - Len(todo) + l]
          /\ \A i \in Cards :
                count[i] = Before(et4000modes[i].planes, Len(inf) - Len(todo))

IInv == Typed /\ Named /\ Placed /\ Making /\ SizeTells /\ Counting /\ CardOwnsDepth

(* The rows of et4000modes. *)
LEMMA CardFacts ==
    /\ Cards = 1 .. 6
    /\ \A i \in Cards :
          /\ OwnedBy(i) \in Depths /\ OwnedBy(i) = et4000modes[i].index
          /\ et4000modes[i].planes \in Nat
          /\ et4000modes[i].driver \in Drivers /\ et4000modes[i].driver # NoName
    /\ \A i, j \in Cards :
          \/ i = j
          \/ /\ OwnedBy(i) # OwnedBy(j)
             /\ et4000modes[i].planes # et4000modes[j].planes
             /\ et4000modes[i].driver # et4000modes[j].driver
<1>1. Cards = 1 .. 6
  BY DEF Cards, et4000modes
<1>2. \A i \in Cards : OwnedBy(i) = et4000modes[i].index /\ et4000modes[i].driver \in Drivers
  BY DEF OwnedBy, Drivers
<1>3. \A i \in 1 .. 6 : et4000modes[i].index \in Depths /\ et4000modes[i].planes \in Nat
  BY DEF et4000modes, Card, Depths
<1>5. \A i \in 1 .. 6 : et4000modes[i].driver # NoName
  <2>1. /\ et4000modes[1].driver = "XVGA2.SYS" /\ et4000modes[2].driver = "XVGA16.SYS"
        /\ et4000modes[3].driver = "XVGA256.SYS" /\ et4000modes[4].driver = "XVGA32K.SYS"
        /\ et4000modes[5].driver = "XVGA65K.SYS" /\ et4000modes[6].driver = "XVGA16M.SYS"
    BY DEF et4000modes, Card
  <2>2. \A i \in 1 .. 6 : i = 1 \/ i = 2 \/ i = 3 \/ i = 4 \/ i = 5 \/ i = 6
    OBVIOUS
  <2>3. /\ "XVGA2.SYS" # "" /\ "XVGA16.SYS" # "" /\ "XVGA256.SYS" # ""
        /\ "XVGA32K.SYS" # "" /\ "XVGA65K.SYS" # "" /\ "XVGA16M.SYS" # ""
    OBVIOUS
  <2> QED
    BY <2>1, <2>2, <2>3 DEF NoName
<1>4. \A i, j \in 1 .. 6 :
          \/ i = j
          \/ /\ et4000modes[i].index # et4000modes[j].index
             /\ et4000modes[i].planes # et4000modes[j].planes
             /\ et4000modes[i].driver # et4000modes[j].driver
  BY DEF et4000modes, Card
<1>6. ASSUME NEW i \in Cards, NEW j \in Cards
      PROVE  \/ i = j
             \/ /\ OwnedBy(i) # OwnedBy(j)
                /\ et4000modes[i].planes # et4000modes[j].planes
                /\ et4000modes[i].driver # et4000modes[j].driver
  BY <1>1, <1>2, <1>4
<1> QED
  BY <1>1, <1>2, <1>3, <1>5, <1>6

(* The machine stays, and with it the table. *)
LEMMA Frame ==
    ASSUME [Next]_vars
    PROVE  /\ UNCHANGED <<vdo, mono, vga, sys_vdi, assign, inf>>
           /\ Rows' = Rows
<1>1. UNCHANGED <<vdo, mono, vga, sys_vdi, assign, inf>>
  BY Zenon DEF Next, vars, machine, ReadAssign, Hardware, CreateMode, FindDrivers, InfMode, Built
<1> QED
  BY <1>1 DEF Rows

(* get_gdos_driver finds the first of the rows with a driver's name, and none
   behind the table. *)
LEMMA FirstWithName ==
    ASSUME gdos_drivers[11] = Beyond, NEW name \in Drivers, NEW r, r = get_gdos_driver(name)
    PROVE  \/ r = 0 /\ \A id \in 1 .. 10 : gdos_drivers[id] # name
           \/ /\ r \in 1 .. 10 /\ gdos_drivers[r] = name
              /\ \A id \in 1 .. 10 : gdos_drivers[id] = name => r <= id
<1> DEFINE S == {i \in 1 .. 11 : gdos_drivers[i] = name}
<1>1. \A i \in S : i \in 1 .. 10 /\ gdos_drivers[i] = name
  BY TablesAssumption
<1>2. \A i \in 1 .. 10 : gdos_drivers[i] = name => i \in S
  OBVIOUS
<1>3. r = IF S = {} THEN 0 ELSE CHOOSE i \in S : \A j \in S : i <= j
  BY DEF get_gdos_driver
<1> HIDE DEF S
<1>4. CASE S = {}
  BY <1>2, <1>3, <1>4
<1>5. CASE S # {}
  <2>1. S \subseteq Nat
    BY <1>1
  <2>2. PICK i \in S : \A j \in S : <<j, i>> \notin OpToRel(<, Nat)
    BY <1>5, <2>1, NatLessThanWellFounded, WFMin
  <2>3. ASSUME NEW j \in S PROVE i <= j
    <3>1. ~ (j < i)
      BY <2>1, <2>2 DEF OpToRel
    <3> QED
      BY <2>1, <3>1
  <2>4. r \in S /\ \A j \in S : r <= j
    BY <1>3, <1>5, <2>3
  <2> QED
    BY <1>1, <1>2, <2>4
<1> QED
  BY <1>4, <1>5

(* Making a node adds it to its list and nothing to another one. *)
LEMMA CreateAdds ==
    ASSUME list \in [Depths -> Seq(AnyMode)], lost \in 0 .. MaxLost,
           NEW m \in AnyMode, create_mode(m)
    PROVE  /\ list' \in [Depths -> Seq(AnyMode)] /\ lost' \in 0 .. MaxLost
           /\ \A d \in Depths : \A n \in InList(d)' :
                 n \in InList(d) \/ (n = m /\ d = m.idx)
<1>1. CASE UNCHANGED list /\ lost < MaxLost /\ lost' = lost + 1
  BY <1>1, TablesAssumption DEF InList
<1>2. CASE list' = [list EXCEPT ![m.idx] = <<m>> \o @] /\ UNCHANGED lost
  <2>1. list' \in [Depths -> Seq(AnyMode)]
    <3>1. m.idx \in Depths
      BY DEF AnyMode
    <3>2. <<m>> \o list[m.idx] \in Seq(AnyMode)
      BY <3>1
    <3> QED
      BY <1>2, <3>1, <3>2
  <2>2. ASSUME NEW d \in Depths, NEW n \in InList(d)'
        PROVE  n \in InList(d) \/ (n = m /\ d = m.idx)
    <3>1. PICK i \in DOMAIN list'[d] : list'[d][i] = n
      BY DEF InList, ToSet
    <3>2. CASE d # m.idx
      <4>1. list'[d] = list[d]
        BY <1>2, <3>2
      <4> QED
        BY <3>1, <4>1 DEF InList, ToSet
    <3>3. CASE d = m.idx
      <4>1. list'[d] = <<m>> \o list[d] /\ list[d] \in Seq(AnyMode)
        BY <1>2, <3>3
      <4>2. (i = 1 /\ n = m) \/ (i - 1 \in DOMAIN list[d] /\ n = list[d][i - 1])
        BY <3>1, <4>1
      <4> QED
        BY <3>3, <4>2 DEF InList, ToSet
    <3> QED
      BY <3>2, <3>3
  <2> QED
    BY <1>2, <2>1, <2>2
<1> QED
  BY <1>1, <1>2 DEF create_mode

(* The next row. *)
LEMMA NextRow ==
    ASSUME IInv, pc = "create", todo # <<>>
    PROVE  /\ Head(todo) \in HwMode /\ Head(todo) \in AnyMode
           /\ Len(todo) \in Nat /\ Len(todo) >= 1 /\ Len(Rows) \in Nat
           /\ Len(todo) <= Len(Rows)
           /\ Head(todo) = Rows[Len(Rows) - Len(todo) + 1]
           /\ Tail(todo) \in Seq(HwMode) /\ Len(Tail(todo)) = Len(todo) - 1
           /\ \A i \in 1 .. Len(Tail(todo)) :
                 Tail(todo)[i] = Rows[Len(Rows) - Len(Tail(todo)) + i]
<1>1. /\ todo \in Seq(HwMode) /\ Len(todo) <= Len(Rows)
      /\ \A i \in 1 .. Len(todo) : todo[i] = Rows[Len(Rows) - Len(todo) + i]
  BY DEF IInv, Making
<1>2. Rows \in Seq(HwMode) /\ Len(Rows) \in Nat
  BY RowsGood DEF Good
<1>3. /\ Head(todo) \in HwMode /\ Head(todo) = todo[1]
      /\ Len(todo) \in Nat /\ Len(todo) >= 1
      /\ Tail(todo) \in Seq(HwMode) /\ Len(Tail(todo)) = Len(todo) - 1
      /\ \A i \in 1 .. Len(todo) - 1 : Tail(todo)[i] = todo[i + 1]
  BY <1>1
<1>4. Head(todo) \in AnyMode
  BY <1>3 DEF HwMode, AnyMode
<1>5. ASSUME NEW i \in 1 .. Len(Tail(todo))
      PROVE  Tail(todo)[i] = Rows[Len(Rows) - Len(Tail(todo)) + i]
  <2>1. i \in 1 .. Len(todo) - 1 /\ i + 1 \in 1 .. Len(todo)
    BY <1>3
  <2>2. Tail(todo)[i] = Rows[Len(Rows) - Len(todo) + (i + 1)]
    BY <1>1, <1>3, <2>1
  <2>3. Len(Rows) - Len(todo) + (i + 1) = Len(Rows) - Len(Tail(todo)) + i
    BY <1>2, <1>3
  <2> QED
    BY <2>2, <2>3
<1> QED
  BY <1>1, <1>2, <1>3, <1>4, <1>5

(* The next mode of nvdivga.inf. *)
LEMMA NextEntry ==
    ASSUME IInv, pc = "inf", todo # <<>>
    PROVE  /\ Head(todo) \in InfEntry
           /\ Len(inf) \in Nat /\ Len(todo) \in Nat /\ Len(todo) >= 1 /\ Len(todo) <= Len(inf)
           /\ Head(todo) = inf[Len(inf) - Len(todo) + 1]
           /\ Tail(todo) \in Seq(InfEntry) /\ Len(Tail(todo)) = Len(todo) - 1
           /\ \A i \in 1 .. Len(Tail(todo)) :
                 Tail(todo)[i] = inf[Len(inf) - Len(Tail(todo)) + i]
<1>1. /\ todo \in Seq(InfEntry) /\ Len(todo) <= Len(inf)
      /\ \A i \in 1 .. Len(todo) : todo[i] = inf[Len(inf) - Len(todo) + i]
  BY DEF IInv, Counting
<1>2. inf \in Seq(InfEntry) /\ Len(inf) \in Nat
  BY DEF IInv, Typed
<1>3. /\ Head(todo) \in InfEntry /\ Head(todo) = todo[1]
      /\ Len(todo) \in Nat /\ Len(todo) >= 1
      /\ Tail(todo) \in Seq(InfEntry) /\ Len(Tail(todo)) = Len(todo) - 1
      /\ \A i \in 1 .. Len(todo) - 1 : Tail(todo)[i] = todo[i + 1]
  BY <1>1
<1>5. ASSUME NEW i \in 1 .. Len(Tail(todo))
      PROVE  Tail(todo)[i] = inf[Len(inf) - Len(Tail(todo)) + i]
  <2>1. i \in 1 .. Len(todo) - 1 /\ i + 1 \in 1 .. Len(todo)
    BY <1>3
  <2>2. Tail(todo)[i] = inf[Len(inf) - Len(todo) + (i + 1)]
    BY <1>1, <1>3, <2>1
  <2>3. Len(inf) - Len(todo) + (i + 1) = Len(inf) - Len(Tail(todo)) + i
    BY <1>2, <1>3
  <2> QED
    BY <2>2, <2>3
<1> QED
  BY <1>1, <1>2, <1>3, <1>5

(* A mode of nvdivga.inf is left out, or one is made for the row of et4000modes
   that has its depth. *)
LEMMA InfMakes ==
    ASSUME IInv, InfMode
    PROVE  LET e == Head(todo)
               Made(i) == [Mode(OwnedBy(i), e.width, e.height, e.planes,
                                rez[i], SVEXT + count[i]) EXCEPT !.card = i]
           IN  \/ /\ \A i \in Cards : et4000modes[i].planes # e.planes
                  /\ UNCHANGED <<list, count, lost>>
               \/ \E i \in Cards :
                     /\ et4000modes[i].planes = e.planes
                     /\ Made(i) \in AnyMode /\ Made(i).idx = OwnedBy(i)
                     /\ Made(i).card = i /\ Made(i).rez = rez[i]
                     /\ create_mode(Made(i))
                     /\ count' = [count EXCEPT ![i] = count[i] + 1]
<1> DEFINE e == Head(todo)
           Made(i) == [Mode(OwnedBy(i), e.width, e.height, e.planes,
                            rez[i], SVEXT + count[i]) EXCEPT !.card = i]
<1>1. e \in InfEntry
  BY NextEntry DEF InfMode
<1>2. CASE /\ \A i \in Cards : et4000modes[i].planes # e.planes
           /\ UNCHANGED <<list, count, lost>>
  BY <1>2
<1>3. CASE \E i \in Cards : /\ et4000modes[i].planes = e.planes /\ create_mode(Made(i))
                            /\ count' = [count EXCEPT ![i] = Counted(i)]
  <2>1. PICK i \in Cards : /\ et4000modes[i].planes = e.planes /\ create_mode(Made(i))
                           /\ count' = [count EXCEPT ![i] = Counted(i)]
    BY <1>3
  <2> HIDE DEF Made
  <2>2. rez[i] \in 0 .. 10 /\ count[i] \in Nat /\ OwnedBy(i) \in Depths /\ i \in Nat
    <3>1. OwnedBy(i) \in Depths /\ i \in Nat
      <4>1. Cards = 1 .. 6 /\ \A k \in Cards : OwnedBy(k) \in Depths
        BY CardFacts
      <4> QED
        BY <4>1
    <3>2. rez \in [Cards -> 0 .. 10] /\ count \in [Cards -> Nat]
      BY DEF IInv, Placed, Typed
    <3> QED
      BY <3>1, <3>2
  <2> HIDE DEF e
  <2>3. /\ Made(i) \in AnyMode /\ Made(i).idx = OwnedBy(i)
        /\ Made(i).card = i /\ Made(i).rez = rez[i]
    BY <1>1, <2>2 DEF Made, Mode, AnyMode, InfEntry, SVEXT
  <2> HIDE DEF Made
  <2> QED
    BY <2>1, <2>3 DEF Counted, Made, e
<1> QED
  BY <1>2, <1>3, Zenon DEF InfMode

--------------------------------------------------------------------------------
(***************************************************************************)
(* Every step keeps it                                                     *)
(***************************************************************************)
(* Typed: a node goes to the list of its idx. *)
LEMMA TypedStep == IInv /\ [Next]_vars => Typed'
<1> SUFFICES ASSUME IInv, [Next]_vars PROVE Typed'
  OBVIOUS
<1>1. Typed /\ UNCHANGED <<assign, inf>>
  BY Frame DEF IInv
<1>2. CASE ReadAssign
  <2>1. /\ UNCHANGED <<pc, list, count, lost>> /\ read' = read + 1 /\ read < Len(assign)
        /\ DOMAIN gdos_drivers' = DOMAIN gdos_drivers
    BY <1>2 DEF ReadAssign
  <2> QED
    BY <1>1, <2>1 DEF Typed, InList
<1>3. CASE Hardware \/ Built
  <2>1. /\ UNCHANGED <<read, gdos_drivers, list, count, lost>> /\ pc' \in {"create", "done"}
    BY <1>3, Zenon DEF Hardware, Built
  <2> QED
    BY <1>1, <2>1 DEF Typed, InList
<1>4. CASE CreateMode
  <2>1. /\ UNCHANGED <<pc, read, gdos_drivers, count>> /\ pc = "create" /\ todo # <<>>
        /\ UNCHANGED <<list, lost>> \/ create_mode(Head(todo))
    BY <1>4 DEF CreateMode
  <2>2. Head(todo) \in AnyMode
    BY <2>1, NextRow
  <2>3. /\ list' \in [Depths -> Seq(AnyMode)] /\ lost' \in 0 .. MaxLost
        /\ \A d \in Depths : \A n \in InList(d)' :
              n \in InList(d) \/ (n = Head(todo) /\ d = Head(todo).idx)
    BY <1>1, <2>1, <2>2, CreateAdds DEF Typed, InList
  <2> QED
    BY <1>1, <2>1, <2>3 DEF Typed
<1>5. CASE FindDrivers
  <2> DEFINE owned == {OwnedBy(i) : i \in {j \in Cards : rez'[j] > 0}}
  <2>1. /\ UNCHANGED <<read, gdos_drivers, count, lost>> /\ pc' = "inf"
        /\ list' = [d \in Depths |-> IF d \in owned THEN <<>> ELSE list[d]]
    BY <1>5 DEF FindDrivers
  <2> HIDE DEF owned
  <2>2. list' \in [Depths -> Seq(AnyMode)]
    BY <1>1, <2>1 DEF Typed
  <2>3. ASSUME NEW d \in Depths, NEW m \in InList(d)' PROVE m \in InList(d)
    BY <2>1 DEF InList, ToSet
  <2> QED
    BY <1>1, <2>1, <2>2, <2>3 DEF Typed
<1>6. CASE InfMode
  <2>1. UNCHANGED <<pc, read, gdos_drivers>>
    BY <1>6, Zenon DEF InfMode
  <2>2. CASE UNCHANGED <<list, count, lost>>
    BY <1>1, <2>1, <2>2 DEF Typed, InList
  <2>3. CASE \E i \in Cards : \E m \in AnyMode :
                create_mode(m) /\ count' = [count EXCEPT ![i] = count[i] + 1]
    <3>1. PICK i \in Cards : \E m \in AnyMode :
                create_mode(m) /\ count' = [count EXCEPT ![i] = count[i] + 1]
      BY <2>3
    <3>2. PICK m \in AnyMode :
                create_mode(m) /\ count' = [count EXCEPT ![i] = count[i] + 1]
      BY <3>1
    <3>3. /\ list' \in [Depths -> Seq(AnyMode)] /\ lost' \in 0 .. MaxLost
          /\ \A d \in Depths : \A n \in InList(d)' :
                n \in InList(d) \/ (n = m /\ d = m.idx)
      BY <1>1, <3>2, CreateAdds DEF Typed
    <3>4. count' \in [Cards -> Nat]
      BY <1>1, <3>2 DEF Typed
    <3> QED
      BY <1>1, <2>1, <3>3, <3>4 DEF Typed
  <2> QED
    BY <1>6, <2>2, <2>3, InfMakes
<1>7. CASE UNCHANGED vars
  BY <1>1, <1>7 DEF Typed, InList, vars
<1> QED
  BY <1>2, <1>3, <1>4, <1>5, <1>6, <1>7 DEF Next

(* Named: the line that is read is the last one so far with its id. *)
LEMMA NamedStep == IInv /\ [Next]_vars => Named'
<1> SUFFICES ASSUME IInv, [Next]_vars PROVE Named'
  OBVIOUS
<1>1. Named /\ Typed /\ UNCHANGED assign
  BY Frame DEF IInv
<1>2. CASE ReadAssign
  <2> DEFINE line == assign[read + 1]
  <2>1. /\ pc = "assign" /\ pc' = pc /\ read' = read + 1 /\ read < Len(assign)
        /\ IF IsRow(line.id)
           THEN gdos_drivers' = [gdos_drivers EXCEPT ![line.id] = line.name]
           ELSE UNCHANGED gdos_drivers
    BY <1>2 DEF ReadAssign
  <2>2. read \in Nat /\ line \in AssignLine
    BY <1>1, <2>1 DEF Typed
  <2>3. \A k \in 1 .. read' : k \in 1 .. read \/ k = read + 1
    BY <2>1, <2>2
  <2> HIDE DEF line
  <2>4. IsRow(line.id) <=> line.id \in 1 .. 10
    BY <2>2 DEF IsRow, AssignLine
  <2>5. \A id \in 1 .. 11 : gdos_drivers'[id] =
              IF id = line.id /\ id \in 1 .. 10 THEN line.name ELSE gdos_drivers[id]
    <3>1. DOMAIN gdos_drivers = 0 .. 11
      BY <1>1 DEF Typed
    <3>2. CASE line.id \in 1 .. 10
      <4>1. gdos_drivers' = [gdos_drivers EXCEPT ![line.id] = line.name]
        BY <2>1, <2>4, <3>2
      <4> QED
        BY <3>1, <3>2, <4>1
    <3>3. CASE line.id \notin 1 .. 10
      BY <2>1, <2>4, <3>3
    <3> QED
      BY <3>2, <3>3
  <2>6. ASSUME NEW id \in 1 .. 10
        PROVE  \/ gdos_drivers'[id] = NoName /\ \A k \in 1 .. read' : assign[k].id # id
               \/ \E k \in 1 .. read' :
                     /\ assign[k].id = id /\ assign[k].name = gdos_drivers'[id]
                     /\ \A l \in k + 1 .. read' : assign[l].id # id
    <3>1. CASE id = line.id
      <4>1. /\ read + 1 \in 1 .. read' /\ assign[read + 1].id = id
            /\ assign[read + 1].name = gdos_drivers'[id]
            /\ \A l \in (read + 1) + 1 .. read' : FALSE
        BY <2>1, <2>2, <2>5, <3>1 DEF line
      <4> QED
        BY <4>1
    <3>2. CASE id # line.id
      <4>1. gdos_drivers'[id] = gdos_drivers[id] /\ assign[read + 1].id # id
        BY <2>5, <3>2 DEF line
      <4>2. CASE gdos_drivers[id] = NoName /\ \A k \in 1 .. read : assign[k].id # id
        BY <2>3, <4>1, <4>2
      <4>3. CASE \E k \in 1 .. read :
                     /\ assign[k].id = id /\ assign[k].name = gdos_drivers[id]
                     /\ \A l \in k + 1 .. read : assign[l].id # id
        <5>1. PICK k \in 1 .. read :
                     /\ assign[k].id = id /\ assign[k].name = gdos_drivers[id]
                     /\ \A l \in k + 1 .. read : assign[l].id # id
          BY <4>3
        <5>2. k \in 1 .. read' /\ \A l \in k + 1 .. read' : l \in k + 1 .. read \/ l = read + 1
          BY <2>1, <2>2
        <5> QED
          BY <4>1, <5>1, <5>2
      <4> QED
        BY <1>1, <4>2, <4>3 DEF Named
    <3> QED
      BY <3>1, <3>2
  <2>7. gdos_drivers'[11] = Beyond
    BY <1>1, <2>5 DEF Named
  <2> QED
    BY <1>1, <2>1, <2>6, <2>7 DEF Named
<1>3. CASE Hardware
  <2>1. UNCHANGED <<read, gdos_drivers>> /\ read = Len(assign)
    BY <1>3 DEF Hardware
  <2> QED
    BY <1>1, <2>1 DEF Named
<1>4. CASE CreateMode \/ FindDrivers \/ InfMode \/ Built
  <2>1. UNCHANGED <<read, gdos_drivers>> /\ pc # "assign"
    BY <1>4, Zenon DEF CreateMode, FindDrivers, InfMode, Built
  <2> QED
    BY <1>1, <2>1 DEF Named
<1>5. CASE UNCHANGED vars
  BY <1>1, <1>5 DEF Named, vars
<1> QED
  BY <1>2, <1>3, <1>4, <1>5 DEF Next

(* A name is in the row of an id when the last line with the id has it. *)
LEMMA RowHasLast ==
    ASSUME IInv, pc # "assign", NEW name, name # NoName, NEW id \in 1 .. 10
    PROVE  gdos_drivers[id] = name <=>
              \E k \in DOMAIN assign :
                 /\ assign[k].name = name /\ assign[k].id = id
                 /\ \A l \in DOMAIN assign : l > k => assign[l].id # id
<1>1. /\ read = Len(assign) /\ Len(assign) \in Nat /\ DOMAIN assign = 1 .. Len(assign)
      /\ \/ gdos_drivers[id] = NoName /\ \A k \in 1 .. read : assign[k].id # id
         \/ \E k \in 1 .. read :
                /\ assign[k].id = id /\ assign[k].name = gdos_drivers[id]
                /\ \A l \in k + 1 .. read : assign[l].id # id
  <2>1. read = Len(assign) /\ Len(assign) \in Nat /\ DOMAIN assign = 1 .. Len(assign)
    BY DEF IInv, Named, Typed
  <2> QED
    BY <2>1 DEF IInv, Named
<1>2. CASE gdos_drivers[id] = NoName /\ \A k \in 1 .. read : assign[k].id # id
  BY <1>1, <1>2
<1>3. CASE \E k \in 1 .. read :
                /\ assign[k].id = id /\ assign[k].name = gdos_drivers[id]
                /\ \A l \in k + 1 .. read : assign[l].id # id
  <2>1. PICK k \in 1 .. read :
                /\ assign[k].id = id /\ assign[k].name = gdos_drivers[id]
                /\ \A l \in k + 1 .. read : assign[l].id # id
    BY <1>3
  <2>2. \A l \in DOMAIN assign : l > k => assign[l].id # id
    BY <1>1, <2>1
  <2>3. k \in DOMAIN assign
    BY <1>1
  <2>4. ASSUME NEW j \in DOMAIN assign, assign[j].id = id,
               \A l \in DOMAIN assign : l > j => assign[l].id # id
        PROVE  j = k
    BY <1>1, <2>1, <2>2, <2>3, <2>4
  <2> QED
    BY <2>1, <2>2, <2>3, <2>4
<1> QED
  BY <1>1, <1>2, <1>3

(* Placed: a row that is found stays, all lines being read. *)
LEMMA PlacedStep == IInv /\ [Next]_vars => Placed'
<1> SUFFICES ASSUME IInv, [Next]_vars PROVE Placed'
  OBVIOUS
<1>1. Placed /\ Typed /\ Named /\ UNCHANGED <<assign, sys_vdi>>
  BY Frame DEF IInv
<1>2. CASE ReadAssign
  <2>1. pc = "assign" /\ pc' = pc /\ rez' = rez
    BY <1>2 DEF ReadAssign
  <2> QED
    BY <1>1, <2>1 DEF Placed
<1>3. CASE Hardware \/ CreateMode \/ Built
  <2>1. UNCHANGED <<rez, gdos_drivers>> /\ pc' \in {"create", "done"}
    BY <1>3, Zenon DEF Hardware, CreateMode, Built
  <2> QED
    BY <1>1, <2>1 DEF Placed
<1>4. CASE FindDrivers
  <2>1. /\ pc = "create" /\ pc' = "inf" /\ UNCHANGED gdos_drivers
        /\ IF sys_vdi = "nvdi"
           THEN rez' = [i \in Cards |-> get_gdos_driver(et4000modes[i].driver)]
           ELSE UNCHANGED rez
    BY <1>4 DEF FindDrivers
  <2>2. CASE sys_vdi # "nvdi"
    BY <1>1, <2>1, <2>2 DEF Placed, DriverIsAssigned
  <2>3. CASE sys_vdi = "nvdi"
    <3>1. ASSUME NEW i \in Cards
          PROVE  \/ /\ rez'[i] = 0
                    /\ \A id \in 1 .. 10 : gdos_drivers[id] # et4000modes[i].driver
                 \/ /\ rez'[i] \in 1 .. 10
                    /\ gdos_drivers[rez'[i]] = et4000modes[i].driver
                    /\ \A id \in 1 .. 10 :
                          gdos_drivers[id] = et4000modes[i].driver => rez'[i] <= id
      <4>1. rez'[i] = get_gdos_driver(et4000modes[i].driver)
        BY <2>1, <2>3
      <4>2. et4000modes[i].driver \in Drivers /\ gdos_drivers[11] = Beyond
        BY <1>1, CardFacts DEF Named
      <4> QED
        BY <4>1, <4>2, FirstWithName
    <3>2. rez' \in [Cards -> 0 .. 10]
      <4>1. \A i \in Cards : rez'[i] \in 0 .. 10
        BY <3>1
      <4> QED
        BY <2>1, <2>3, <4>1
    <3>3. \A i \in Cards : rez'[i] > 0 => gdos_drivers'[rez'[i]] = et4000modes[i].driver
      BY <2>1, <3>1
    <3>4. DriverIsAssigned'
      <4> DEFINE Ids(name) ==
            {assign[k].id : k \in {k \in DOMAIN assign :
               /\ assign[k].name = name
               /\ assign[k].id \in 1 .. 10
               /\ \A l \in DOMAIN assign : l > k => assign[l].id # assign[k].id}}
      <4>1. ASSUME NEW i \in Cards
            PROVE  \A id : id \in Ids(et4000modes[i].driver) <=>
                      id \in 1 .. 10 /\ gdos_drivers[id] = et4000modes[i].driver
        <5> DEFINE name == et4000modes[i].driver
        <5>1. name # NoName
          BY CardFacts
        <5> HIDE DEF name
        <5>2. ASSUME NEW id \in 1 .. 10
              PROVE  gdos_drivers[id] = name <=>
                        \E k \in DOMAIN assign :
                           /\ assign[k].name = name /\ assign[k].id = id
                           /\ \A l \in DOMAIN assign : l > k => assign[l].id # id
          BY <2>1, <5>1, RowHasLast
        <5>3. \A id : id \in Ids(name) <=>
                 /\ id \in 1 .. 10
                 /\ \E k \in DOMAIN assign :
                       /\ assign[k].name = name /\ assign[k].id = id
                       /\ \A l \in DOMAIN assign : l > k => assign[l].id # id
          OBVIOUS
        <5> HIDE DEF Ids
        <5>4. \A id : id \in Ids(name) <=> id \in 1 .. 10 /\ gdos_drivers[id] = name
          BY <5>2, <5>3
        <5> QED
          BY <5>4 DEF name
      <4> HIDE DEF Ids
      <4>2. ASSUME NEW i \in Cards
            PROVE  \/ Ids(et4000modes[i].driver) = {} /\ rez'[i] = 0
                   \/ /\ rez'[i] \in Ids(et4000modes[i].driver)
                      /\ \A id \in Ids(et4000modes[i].driver) : rez'[i] <= id
        BY <3>1, <4>1
      <4> QED
        BY <1>1, <4>2 DEF DriverIsAssigned, Ids
    <3> QED
      BY <2>1, <3>2, <3>3, <3>4 DEF Placed
  <2> QED
    BY <2>2, <2>3
<1>5. CASE InfMode
  <2>1. pc = "inf" /\ pc' = pc /\ UNCHANGED <<rez, gdos_drivers>>
    BY <1>5, Zenon DEF InfMode
  <2>2. DriverIsAssigned'
    BY <1>1, <2>1 DEF Placed, DriverIsAssigned
  <2> QED
    BY <1>1, <2>1, <2>2 DEF Placed
<1>6. CASE UNCHANGED vars
  <2>1. UNCHANGED <<pc, rez, gdos_drivers>>
    BY <1>6 DEF vars
  <2>2. DriverIsAssigned <=> DriverIsAssigned'
    BY <1>1, <2>1 DEF DriverIsAssigned
  <2> QED
    BY <1>1, <2>1, <2>2 DEF Placed
<1> QED
  BY <1>2, <1>3, <1>4, <1>5, <1>6 DEF Next

(* How the count goes on. *)
LEMMA BeforeNext ==
    ASSUME NEW planes, NEW k \in Nat
    PROVE  /\ Before(planes, 0) = 0 /\ Before(planes, k) \in Nat
           /\ Before(planes, k + 1) = Before(planes, k)
                                      + (IF inf[k + 1].planes = planes THEN 1 ELSE 0)
<1> DEFINE S(n) == {l \in 1 .. n : inf[l].planes = planes}
<1>1. Before(planes, 0) = 0
  <2>1. S(0) = {}
    OBVIOUS
  <2> QED
    BY <2>1, FS_EmptySet DEF Before
<1>2. IsFiniteSet(S(k)) /\ Cardinality(S(k)) \in Nat
  <2>1. IsFiniteSet(1 .. k)
    BY FS_Interval
  <2> QED
    BY <2>1, FS_Subset, FS_CardinalityType
<1>3. CASE inf[k + 1].planes = planes
  <2>1. S(k + 1) = S(k) \union {k + 1} /\ k + 1 \notin S(k)
    BY <1>3
  <2>2. Cardinality(S(k + 1)) = Cardinality(S(k)) + 1
    BY <1>2, <2>1, FS_AddElement
  <2> QED
    BY <1>1, <1>2, <1>3, <2>2 DEF Before
<1>4. CASE inf[k + 1].planes # planes
  <2>1. S(k + 1) = S(k)
    BY <1>4
  <2> HIDE DEF S
  <2>2. Cardinality(S(k + 1)) = Cardinality(S(k)) + 0
    BY <1>2, <2>1
  <2> QED
    BY <1>1, <1>2, <1>4, <2>2 DEF Before, S
<1> QED
  BY <1>3, <1>4

(* Counting: each mode of nvdivga.inf is counted, also one without memory. *)
LEMMA CountingStep == IInv /\ [Next]_vars => Counting'
<1> SUFFICES ASSUME IInv, [Next]_vars PROVE Counting'
  OBVIOUS
<1>1. Counting /\ Typed /\ inf' = inf /\ inf \in Seq(InfEntry) /\ Len(inf) \in Nat
  BY Frame DEF IInv, Typed
<1>2. CASE ReadAssign \/ Hardware \/ CreateMode
  <2>1. count' = count /\ pc \in {"assign", "create"} /\ pc' \in {"assign", "create"}
    BY <1>2, Zenon DEF ReadAssign, Hardware, CreateMode
  <2> QED
    BY <1>1, <2>1 DEF Counting
<1>3. CASE FindDrivers
  <2>1. /\ count' = count /\ pc = "create" /\ pc' = "inf" /\ (todo' = <<>> \/ todo' = inf)
    BY <1>3 DEF FindDrivers
  <2>2. ASSUME todo' = inf, NEW i \in Cards
        PROVE  count'[i] = Before(et4000modes[i].planes, Len(inf) - Len(inf))'
    <3>1. count'[i] = 0
      BY <1>1, <2>1 DEF Counting
    <3>2. Before(et4000modes[i].planes, Len(inf) - Len(inf)) = 0
      <4>1. Len(inf) - Len(inf) = 0
        BY <1>1
      <4> QED
        BY <4>1, BeforeNext
    <3> QED
      BY <1>1, <3>1, <3>2 DEF Before
  <2> QED
    BY <1>1, <2>1, <2>2 DEF Counting
<1>4. CASE InfMode
  <2> DEFINE k == Len(inf) - Len(todo)
             e == Head(todo)
  <2>1. pc = "inf" /\ pc' = pc /\ todo # <<>> /\ todo' = Tail(todo)
    BY <1>4, Zenon DEF InfMode
  <2>2. /\ Len(inf) \in Nat /\ Len(todo) \in Nat /\ Len(todo) >= 1 /\ Len(todo) <= Len(inf)
        /\ e = inf[k + 1]
        /\ Tail(todo) \in Seq(InfEntry) /\ Len(Tail(todo)) = Len(todo) - 1
        /\ \A i \in 1 .. Len(Tail(todo)) :
              Tail(todo)[i] = inf[Len(inf) - Len(Tail(todo)) + i]
    BY <2>1, NextEntry
  <2>3. k \in Nat /\ Len(inf) - Len(Tail(todo)) = k + 1
    BY <2>2
  <2>4. ASSUME NEW i \in Cards
        PROVE  count'[i] = Before(et4000modes[i].planes, k + 1)
    <3>1. /\ count[i] = Before(et4000modes[i].planes, k) /\ count \in [Cards -> Nat]
      BY <1>1, <2>1 DEF Counting, Typed
    <3>2. Before(et4000modes[i].planes, k + 1) = Before(et4000modes[i].planes, k)
              + (IF inf[k + 1].planes = et4000modes[i].planes THEN 1 ELSE 0)
      BY <2>3, BeforeNext
    <3>3. Before(et4000modes[i].planes, k) \in Nat
      BY <2>3, BeforeNext
    <3> HIDE DEF k
    <3>4. CASE UNCHANGED count /\ \A j \in Cards : et4000modes[j].planes # e.planes
      BY <2>2, <3>1, <3>2, <3>3, <3>4
    <3>5. CASE \E j \in Cards : /\ et4000modes[j].planes = e.planes
                                /\ count' = [count EXCEPT ![j] = count[j] + 1]
      <4>1. PICK j \in Cards : /\ et4000modes[j].planes = e.planes
                               /\ count' = [count EXCEPT ![j] = count[j] + 1]
        BY <3>5
      <4>2. CASE i = j
        BY <2>2, <3>1, <3>2, <3>3, <4>1, <4>2
      <4>3. CASE i # j
        <5>1. et4000modes[i].planes # e.planes
          BY <4>1, <4>3, CardFacts
        <5> QED
          BY <2>2, <3>1, <3>2, <3>3, <4>1, <4>3, <5>1
      <4> QED
        BY <4>2, <4>3
    <3> QED
      BY <1>4, <3>4, <3>5, InfMakes
  <2> HIDE DEF e
  <2>5. /\ todo' \in Seq(InfEntry) /\ Len(todo') <= Len(inf')
        /\ \A l \in 1 .. Len(todo') : todo'[l] = inf'[Len(inf') - Len(todo') + l]
    BY <1>1, <2>1, <2>2
  <2>6. ASSUME NEW i \in Cards
        PROVE  count'[i] = Before(et4000modes[i].planes, Len(inf) - Len(todo))'
    <3>1. Before(et4000modes[i].planes, Len(inf) - Len(todo))'
            = Before(et4000modes[i].planes, k + 1)
      <4>1. Len(inf') - Len(todo') = k + 1
        BY <1>1, <2>1, <2>3
      <4> HIDE DEF k
      <4> QED
        BY <1>1, <4>1 DEF Before
    <3> QED
      BY <2>4, <3>1
  <2> HIDE DEF k
  <2> QED
    BY <2>1, <2>5, <2>6 DEF Counting
<1>5. CASE Built
  <2>1. pc' = "done"
    BY <1>5 DEF Built
  <2> QED
    BY <2>1 DEF Counting
<1>6. CASE UNCHANGED vars
  <2>1. UNCHANGED <<pc, count, todo>>
    BY <1>6 DEF vars
  <2> QED
    BY <1>1, <2>1 DEF Counting, Before
<1> QED
  BY <1>2, <1>3, <1>4, <1>5, <1>6 DEF Next

(* CardOwnsDepth: no mode of the hardware is added once the drivers are known. *)
LEMMA CardStep == IInv /\ [Next]_vars => CardOwnsDepth'
<1> SUFFICES ASSUME IInv, [Next]_vars PROVE CardOwnsDepth'
  OBVIOUS
<1>0. CardOwnsDepth /\ list \in [Depths -> Seq(AnyMode)] /\ lost \in 0 .. MaxLost
  BY DEF IInv, Typed
<1>1. CASE ReadAssign \/ Hardware \/ CreateMode
  <2>1. pc' \in {"assign", "create"}
    BY <1>1, Zenon DEF ReadAssign, Hardware, CreateMode
  <2> QED
    BY <2>1 DEF CardOwnsDepth
<1>2. CASE FindDrivers
  <2> DEFINE owned == {OwnedBy(i) : i \in {j \in Cards : rez'[j] > 0}}
  <2>1. list' = [d \in Depths |-> IF d \in owned THEN <<>> ELSE list[d]]
    BY <1>2 DEF FindDrivers
  <2>2. ASSUME NEW i \in Cards, rez'[i] > 0
        PROVE  InList(et4000modes[i].index)' = {}
    <3>1. OwnedBy(i) \in owned /\ OwnedBy(i) \in Depths
      BY <2>2, CardFacts
    <3>2. list'[OwnedBy(i)] = <<>>
      BY <2>1, <3>1
    <3> QED
      BY <3>2 DEF InList, ToSet, OwnedBy
  <2> QED
    BY <2>2 DEF CardOwnsDepth
<1>3. CASE InfMode
  <2>1. pc = "inf" /\ rez' = rez
    BY <1>3 DEF InfMode
  <2>2. CASE UNCHANGED list
    BY <1>0, <2>1, <2>2 DEF CardOwnsDepth, InList
  <2>3. CASE \E i \in Cards : \E m \in AnyMode :
                m.idx = OwnedBy(i) /\ m.card = i /\ m.rez = rez[i] /\ create_mode(m)
    <3>1. PICK i \in Cards : \E m \in AnyMode :
                m.idx = OwnedBy(i) /\ m.card = i /\ m.rez = rez[i] /\ create_mode(m)
      BY <2>3
    <3>2. PICK m \in AnyMode :
                m.idx = OwnedBy(i) /\ m.card = i /\ m.rez = rez[i] /\ create_mode(m)
      BY <3>1
    <3>3. \A d \in Depths : \A k \in InList(d)' :
                k \in InList(d) \/ (k = m /\ d = m.idx)
      BY <1>0, <3>2, CreateAdds
    <3>4. ASSUME NEW j \in Cards, rez'[j] > 0,
                 NEW k \in InList(et4000modes[j].index)'
          PROVE  k.card = j /\ k.rez = rez'[j]
      <4>1. OwnedBy(j) \in Depths /\ k \in InList(OwnedBy(j))'
        BY <3>4, CardFacts DEF OwnedBy
      <4>2. CASE k \in InList(OwnedBy(j))
        BY <1>0, <2>1, <3>4, <4>2 DEF CardOwnsDepth, OwnedBy
      <4>3. CASE k = m /\ OwnedBy(j) = m.idx
        <5>1. i = j
          BY <3>2, <4>3, CardFacts
        <5> QED
          BY <2>1, <3>2, <4>3, <5>1
      <4> QED
        BY <3>3, <4>1, <4>2, <4>3
    <3> QED
      BY <3>4 DEF CardOwnsDepth
  <2> QED
    BY <1>3, <2>2, <2>3, InfMakes
<1>4. CASE Built
  <2>1. pc = "inf" /\ UNCHANGED <<list, rez>>
    BY <1>4 DEF Built
  <2> QED
    BY <1>0, <2>1 DEF CardOwnsDepth, InList
<1>5. CASE UNCHANGED vars
  BY <1>0, <1>5 DEF vars, CardOwnsDepth, InList
<1> QED
  BY <1>1, <1>2, <1>3, <1>4, <1>5 DEF Next

(* The count of a depth is a mode's place, when it is the mode's turn. *)
LEMMA CountIsPlace ==
    ASSUME IInv, pc = "inf", todo # <<>>, NEW i \in Cards,
           et4000modes[i].planes = Head(todo).planes
    PROVE  LET j == Len(inf) - Len(todo) + 1
           IN  j \in DOMAIN inf /\ Head(todo) = inf[j] /\ count[i] = PlaceOf(j)
<1> DEFINE k == Len(inf) - Len(todo)
<1>1. /\ Head(todo) = inf[k + 1] /\ k \in Nat /\ k + 1 \in 1 .. Len(inf)
      /\ DOMAIN inf = 1 .. Len(inf)
  <2>1. inf \in Seq(InfEntry)
    BY DEF IInv, Typed
  <2> QED
    BY <2>1, NextEntry
<1>2. count[i] = Before(inf[k + 1].planes, k)
  BY <1>1 DEF IInv, Counting
<1>3. PlaceOf(k + 1) = Before(inf[k + 1].planes, k)
  <2>1. (k + 1) - 1 = k
    BY <1>1
  <2> HIDE DEF k
  <2> QED
    BY <2>1 DEF PlaceOf, Before
<1> QED
  BY <1>1, <1>2, <1>3

(* Making: what is added is the next row, or the next mode of nvdivga.inf. *)
LEMMA MakingStep == IInv /\ [Next]_vars => Making'
<1> SUFFICES ASSUME IInv, [Next]_vars PROVE Making'
  OBVIOUS
<1>1. /\ Making /\ Rows' = Rows /\ inf' = inf
      /\ list \in [Depths -> Seq(AnyMode)] /\ lost \in 0 .. MaxLost
      /\ Rows \in Seq(HwMode) /\ Len(Rows) \in Nat
  BY Frame, RowsGood DEF IInv, Typed, Good
<1>2. \A k, m : FromRow(k, m)' <=> FromRow(k, m)
  BY <1>1 DEF FromRow
<1>3. ASSUME rez' = rez, NEW m PROVE FromFile(m)' <=> FromFile(m)
  BY <1>1, <1>3 DEF FromFile, CardMode, PlaceOf
<1>4. CASE ReadAssign
  BY <1>1, <1>4 DEF ReadAssign, Making
<1>5. CASE Hardware
  <2>1. pc = "assign" /\ pc' = "create" /\ todo' = Rows /\ list' = list
    BY <1>5 DEF Hardware
  <2>2. Len(todo') \in Nat /\ Len(Rows') - Len(todo') = 0
    BY <1>1, <2>1
  <2>3. \A i \in 1 .. Len(todo') : todo'[i] = Rows'[Len(Rows') - Len(todo') + i]
    BY <1>1, <2>1, <2>2
  <2>4. \A d \in Depths : InList(d)' = {}
    BY <1>1, <2>1 DEF Making, InList, ToSet
  <2> QED
    BY <1>1, <2>1, <2>2, <2>3, <2>4 DEF Making
<1>6. CASE CreateMode
  <2> DEFINE k == Len(Rows) - Len(todo)
  <2>1. /\ pc = "create" /\ pc' = pc /\ todo # <<>> /\ todo' = Tail(todo)
        /\ UNCHANGED <<list, lost>> \/ create_mode(Head(todo))
    BY <1>6 DEF CreateMode
  <2>2. /\ Head(todo) \in AnyMode /\ Head(todo) = Rows[k + 1]
        /\ k \in Nat /\ Len(Rows) - Len(Tail(todo)) = k + 1
        /\ Tail(todo) \in Seq(HwMode) /\ Len(Tail(todo)) <= Len(Rows)
        /\ \A i \in 1 .. Len(Tail(todo)) :
              Tail(todo)[i] = Rows[Len(Rows) - Len(Tail(todo)) + i]
    BY <2>1, NextRow
  <2>3. \A d \in Depths : \A n \in InList(d)' : n \in InList(d) \/ n = Head(todo)
    <3>1. CASE UNCHANGED <<list, lost>>
      BY <3>1 DEF InList
    <3>2. CASE create_mode(Head(todo))
      BY <1>1, <2>2, <3>2, CreateAdds
    <3> QED
      BY <2>1, <3>1, <3>2
  <2>4. ASSUME NEW d \in Depths, NEW n \in InList(d)' PROVE FromRow(k + 1, n)
    <3>1. CASE n \in InList(d)
      <4>1. FromRow(k, n)
        BY <1>1, <2>1, <3>1 DEF Making
      <4> HIDE DEF k
      <4> QED
        BY <2>2, <4>1 DEF FromRow
    <3>2. CASE n = Head(todo)
      <4> HIDE DEF k
      <4> QED
        BY <2>2, <3>2 DEF FromRow
    <3> QED
      BY <2>3, <3>1, <3>2
  <2>5. Len(Rows') - Len(todo') = k + 1
    BY <1>1, <2>1, <2>2
  <2> HIDE DEF k
  <2>6. ASSUME NEW d \in Depths, NEW m \in InList(d)'
        PROVE  FromRow(Len(Rows) - Len(todo), m)'
    <3>1. FromRow(Len(Rows) - Len(todo), m)' <=> FromRow(k + 1, m)
      BY <1>1, <2>5 DEF FromRow
    <3> QED
      BY <2>4, <3>1
  <2>7. \A i \in 1 .. Len(todo') : todo'[i] = Rows'[Len(Rows') - Len(todo') + i]
    BY <1>1, <2>1, <2>2
  <2> QED
    BY <1>1, <2>1, <2>2, <2>6, <2>7 DEF Making
<1>7. CASE FindDrivers
  <2> DEFINE owned == {OwnedBy(i) : i \in {j \in Cards : rez'[j] > 0}}
  <2>1. /\ pc = "create" /\ todo = <<>> /\ pc' = "inf"
        /\ list' = [d \in Depths |-> IF d \in owned THEN <<>> ELSE list[d]]
    BY <1>7 DEF FindDrivers
  <2> HIDE DEF owned
  <2>2. ASSUME NEW d \in Depths, NEW m \in InList(d)' PROVE m \in InList(d)
    BY <2>1 DEF InList, ToSet
  <2>3. Len(Rows) - Len(todo) = Len(Rows)
    BY <1>1, <2>1
  <2>4. ASSUME NEW d \in Depths, NEW m \in InList(d)' PROVE FromRow(Len(Rows), m)'
    <3>1. FromRow(Len(Rows), m)
      BY <1>1, <2>1, <2>2, <2>3 DEF Making
    <3> QED
      BY <1>1, <3>1 DEF FromRow
  <2> QED
    BY <2>1, <2>4 DEF Making
<1>8. CASE InfMode
  <2> DEFINE j == Len(inf) - Len(todo) + 1
  <2>1. pc = "inf" /\ pc' = pc /\ todo # <<>> /\ rez' = rez
    BY <1>8, Zenon DEF InfMode
  <2>2. CASE UNCHANGED list
    <3>1. \A d \in Depths : \A m \in InList(d)' : FromRow(Len(Rows), m) \/ FromFile(m)
      BY <1>1, <2>1, <2>2 DEF Making, InList
    <3> QED
      BY <1>1, <1>2, <1>3, <2>1, <3>1 DEF Making
  <2>3. CASE \E i \in Cards :
                /\ et4000modes[i].planes = Head(todo).planes
                /\ CardMode(i, j) \in AnyMode /\ create_mode(CardMode(i, j))
    <3>1. PICK i \in Cards :
                /\ et4000modes[i].planes = Head(todo).planes
                /\ CardMode(i, j) \in AnyMode /\ create_mode(CardMode(i, j))
      BY <2>3
    <3>2. j \in DOMAIN inf /\ Head(todo) = inf[j]
      BY <2>1, <3>1, CountIsPlace
    <3>3. \A d \in Depths : \A n \in InList(d)' : n \in InList(d) \/ n = CardMode(i, j)
      BY <1>1, <3>1, CreateAdds
    <3> HIDE DEF j
    <3>4. FromFile(CardMode(i, j))
      BY <3>1, <3>2 DEF FromFile
    <3>5. \A d \in Depths : \A m \in InList(d)' : FromRow(Len(Rows), m) \/ FromFile(m)
      BY <1>1, <2>1, <3>3, <3>4 DEF Making
    <3> QED
      BY <1>1, <1>2, <1>3, <2>1, <3>5 DEF Making
  <2>4. ASSUME NEW i \in Cards, et4000modes[i].planes = Head(todo).planes
        PROVE  CardMode(i, j) = [Mode(OwnedBy(i), Head(todo).width, Head(todo).height,
                                      Head(todo).planes, rez[i], SVEXT + count[i])
                                   EXCEPT !.card = i]
    <3>1. j \in DOMAIN inf /\ Head(todo) = inf[j] /\ count[i] = PlaceOf(j)
      BY <2>1, <2>4, CountIsPlace
    <3> HIDE DEF j
    <3> QED
      BY <3>1 DEF CardMode
  <2> HIDE DEF j
  <2> QED
    BY <1>8, <2>2, <2>3, <2>4, InfMakes
<1>9. CASE Built
  <2>1. pc = "inf" /\ pc' = "done" /\ UNCHANGED <<list, rez>>
    BY <1>9, Zenon DEF Built
  <2>2. \A d \in Depths : \A m \in InList(d)' : FromRow(Len(Rows), m) \/ FromFile(m)
    BY <1>1, <2>1 DEF Making, InList
  <2> QED
    BY <1>1, <1>2, <1>3, <2>1, <2>2 DEF Making
<1>10. CASE UNCHANGED vars
  <2>1. UNCHANGED <<pc, todo, list, rez>>
    BY <1>10 DEF vars
  <2>2. \A d : InList(d)' = InList(d)
    BY <2>1 DEF InList
  <2> QED
    BY <1>1, <1>2, <1>3, <2>1, <2>2 DEF Making
<1> QED
  BY <1>4, <1>5, <1>6, <1>7, <1>8, <1>9, <1>10 DEF Next

(* A mode that find_mode misses has a size of its own, if all that are made are
   modes of the table before it. *)
LEMMA NewSize ==
    ASSUME IInv, pc = "create", todo # <<>>,
           ~ (IsSaga(Head(todo)) /\ find_mode(Head(todo))),
           NEW n \in InList(Head(todo).idx), Size(n) = Size(Head(todo))
    PROVE  n = Head(todo)
<1> DEFINE r == Head(todo)
           k == Len(Rows) - Len(todo)
<1>1. /\ r \in HwMode /\ r = Rows[k + 1] /\ k + 1 \in DOMAIN Rows /\ k \in Nat
      /\ Rows \in Seq(HwMode)
  BY NextRow, RowsGood DEF Good
<1> HIDE DEF r
<1>2. r.idx \in Depths
  BY <1>1 DEF HwMode
<1>3. PICK j \in 1 .. k : n = Rows[j]
  BY <1>2 DEF IInv, Making, FromRow, r
<1>4. j \in DOMAIN Rows /\ j < k + 1 /\ n.idx = r.idx
  <2>1. n.idx = r.idx
    BY <1>2 DEF IInv, Typed, r
  <2> HIDE DEF k
  <2> QED
    BY <1>1, <1>3, <2>1
<1> HIDE DEF k
<1>5. Apart(Rows[j], Rows[k + 1]) /\ (Own(Rows[j]) => Own(Rows[k + 1]))
  BY <1>1, <1>4, RowsGood DEF Good, Told
<1>6. CASE ~ Own(r)
  BY <1>1, <1>3, <1>4, <1>5, <1>6 DEF Apart, r
<1>7. CASE Own(r)
  <2>1. IsSaga(r)
    BY <1>1, <1>7, RowsGood DEF IsSaga, Own
  <2>2. n.planes = r.planes
    BY <1>1, <1>3, <1>4, <1>5 DEF Apart
  <2>3. find_mode(r)
    <3>1. PICK i \in DOMAIN list[r.idx] : list[r.idx][i] = n
      BY DEF InList, ToSet, r
    <3>2. n.width = r.width /\ n.height = r.height
      BY DEF Size, r
    <3> QED
      BY <2>2, <3>1, <3>2 DEF find_mode
  <2> QED
    BY <2>1, <2>3 DEF r
<1> QED
  BY <1>6, <1>7

(* SizeTells: only a mode with a new size is added by the hardware. *)
LEMMA SizeTellsStep == IInv /\ [Next]_vars => SizeTells'
<1> SUFFICES ASSUME IInv, [Next]_vars PROVE SizeTells'
  OBVIOUS
<1>1. SizeTells /\ list \in [Depths -> Seq(AnyMode)] /\ lost \in 0 .. MaxLost
  BY DEF IInv, Typed
<1>2. ASSUME \A d \in Depths : \A n \in InList(d)' : n \in InList(d)
      PROVE  SizeTells'
  BY <1>1, <1>2 DEF SizeTells
<1>3. CASE ReadAssign \/ Hardware \/ Built \/ UNCHANGED vars
  <2>1. list' = list
    BY <1>3, Zenon DEF ReadAssign, Hardware, Built, vars
  <2> QED
    BY <1>2, <2>1 DEF InList
<1>4. CASE CreateMode
  <2>1. /\ pc = "create" /\ todo # <<>>
        /\ \/ UNCHANGED list
           \/ ~ (IsSaga(Head(todo)) /\ find_mode(Head(todo))) /\ create_mode(Head(todo))
    BY <1>4 DEF CreateMode
  <2>2. CASE UNCHANGED list
    BY <1>2, <2>2 DEF InList
  <2>3. CASE ~ (IsSaga(Head(todo)) /\ find_mode(Head(todo))) /\ create_mode(Head(todo))
    <3> DEFINE r == Head(todo)
    <3>1. r \in AnyMode
      BY <2>1, NextRow
    <3>2. \A d \in Depths : \A n \in InList(d)' : n \in InList(d) \/ (n = r /\ d = r.idx)
      BY <1>1, <2>3, <3>1, CreateAdds
    <3>3. \A n \in InList(r.idx) : Size(n) = Size(r) => n = r
      BY <2>1, <2>3, NewSize
    <3> HIDE DEF r
    <3>4. ASSUME NEW d \in Depths, NEW m \in InList(d)', NEW n \in InList(d)',
                 m.card = 0, n.card = 0, Size(m) = Size(n)
          PROVE  m = n
      <4>1. CASE m \in InList(d) /\ n \in InList(d)
        BY <1>1, <3>4, <4>1 DEF SizeTells
      <4>2. CASE m \in InList(d) /\ n = r /\ d = r.idx
        BY <3>3, <3>4, <4>2
      <4>3. CASE n \in InList(d) /\ m = r /\ d = r.idx
        BY <3>3, <3>4, <4>3
      <4>4. CASE m = r /\ n = r
        BY <4>4
      <4> QED
        BY <3>2, <4>1, <4>2, <4>3, <4>4
    <3>5. SizeTells'
      BY <3>4 DEF SizeTells, Size
    <3> QED
      BY <3>5
  <2> QED
    BY <2>1, <2>2, <2>3
<1>5. CASE FindDrivers
  <2> DEFINE owned == {OwnedBy(i) : i \in {j \in Cards : rez'[j] > 0}}
  <2>1. list' = [d \in Depths |-> IF d \in owned THEN <<>> ELSE list[d]]
    BY <1>5 DEF FindDrivers
  <2> HIDE DEF owned
  <2>2. ASSUME NEW d \in Depths, NEW m \in InList(d)' PROVE m \in InList(d)
    BY <2>1 DEF InList, ToSet
  <2> QED
    BY <1>2, <2>2
<1>6. CASE InfMode
  <2>1. CASE UNCHANGED list
    BY <1>2, <2>1 DEF InList
  <2>2. CASE \E i \in Cards : \E m \in AnyMode : m.card = i /\ create_mode(m)
    <3>1. PICK i \in Cards : \E m \in AnyMode : m.card = i /\ create_mode(m)
      BY <2>2
    <3>2. PICK m \in AnyMode : m.card = i /\ create_mode(m)
      BY <3>1
    <3>3. \A d \in Depths : \A k \in InList(d)' : k \in InList(d) \/ k = m
      BY <1>1, <3>2, CreateAdds
    <3>4. i # 0
      BY CardFacts
    <3> QED
      BY <1>1, <3>2, <3>3, <3>4 DEF SizeTells
  <2> QED
    BY <1>6, <2>1, <2>2, InfMakes
<1> QED
  BY <1>3, <1>4, <1>5, <1>6 DEF Next

(* Before ASSIGN.SYS is read. *)
LEMMA InitIInv == Init => IInv
<1> SUFFICES ASSUME Init PROVE IInv
  OBVIOUS
<1>1. /\ pc = "assign" /\ read = 0 /\ lost = 0
      /\ gdos_drivers = [id \in 0 .. 11 |-> IF id = 11 THEN Beyond ELSE NoName]
      /\ list = [d \in Depths |-> <<>>]
      /\ rez = [i \in Cards |-> 0] /\ count = [i \in Cards |-> 0]
  BY DEF Init
<1>2. assign \in Seq(AssignLine) /\ inf \in Seq(InfEntry) /\ Len(inf) < 256
  <2>1. PICK m \in Machines : assign = m.assign /\ inf = m.inf
    BY DEF Init
  <2> QED
    BY <2>1, TablesAssumption DEF AssignLine, InfEntry
<1>3. \A d \in Depths : InList(d) = {}
  BY <1>1 DEF InList, ToSet
<1>4. Typed
  <2>1. Len(assign) \in Nat
    BY <1>2
  <2> QED
    BY <1>1, <1>2, <1>3, <2>1, TablesAssumption DEF Typed
<1>5. Named
  BY <1>1 DEF Named
<1>6. Placed
  BY <1>1 DEF Placed
<1>7. Making /\ SizeTells /\ Counting /\ CardOwnsDepth
  BY <1>1, <1>3 DEF Making, SizeTells, Counting, CardOwnsDepth
<1> QED
  BY <1>4, <1>5, <1>6, <1>7 DEF IInv

(* The rows of gdos_drivers are those of the lines read so far, a list holds modes
   of the table and of nvdivga.inf only, and the count of a depth is the place of
   its next mode, in every state of init_res. *)
THEOREM Inductive == Spec => []IInv
<1>1. IInv /\ [Next]_vars => IInv'
  BY TypedStep, NamedStep, PlacedStep, MakingStep, SizeTellsStep, CountingStep, CardStep
  DEF IInv
<1> QED
  BY <1>1, InitIInv, PTL DEF Spec

--------------------------------------------------------------------------------
(***************************************************************************)
(* What follows from it                                                    *)
(***************************************************************************)
(* What an offered mode is. *)
LEMMA OfferedMode ==
    ASSUME IInv, pc = "done", NEW m \in Offered
    PROVE  \/ m.card = 0 /\ \E j \in DOMAIN Rows : m = Rows[j]
           \/ m.card # 0 /\ FromFile(m)
<1>1. PICK d \in Depths : m \in InList(d)
  BY DEF Offered
<1>2. FromRow(Len(Rows), m) \/ FromFile(m)
  BY <1>1 DEF IInv, Making
<1>3. CASE FromRow(Len(Rows), m)
  <2>1. Rows \in Seq(HwMode)
    BY RowsGood DEF Good
  <2>2. PICK j \in DOMAIN Rows : m = Rows[j]
    BY <1>3, <2>1 DEF FromRow
  <2>3. m \in HwMode
    BY <2>1, <2>2
  <2> QED
    BY <2>2, <2>3 DEF HwMode
<1>4. CASE FromFile(m)
  <2>1. PICK i \in Cards, j \in DOMAIN inf :
           inf[j].planes = et4000modes[i].planes /\ m = CardMode(i, j)
    BY <1>4 DEF FromFile
  <2>2. m.card = i
    BY <2>1 DEF CardMode, Mode
  <2>3. i # 0
    BY CardFacts
  <2> QED
    BY <1>4, <2>2, <2>3
<1> QED
  BY <1>2, <1>3, <1>4

(* Places go up with the modes of a depth. *)
LEMMA Places ==
    ASSUME Typed, NEW j \in DOMAIN inf
    PROVE  /\ PlaceOf(j) \in 0 .. 255
           /\ \A k \in DOMAIN inf :
                 j < k /\ inf[j].planes = inf[k].planes => PlaceOf(j) < PlaceOf(k)
<1> DEFINE S(k) == {l \in 1 .. k - 1 : inf[l].planes = inf[k].planes}
<1>1. DOMAIN inf = 1 .. Len(inf) /\ Len(inf) \in Nat /\ Len(inf) < 256
  BY DEF Typed
<1>2. ASSUME NEW k \in DOMAIN inf
      PROVE  IsFiniteSet(S(k)) /\ Cardinality(S(k)) \in Nat /\ Cardinality(S(k)) <= k - 1
  <2>1. IsFiniteSet(1 .. k - 1) /\ Cardinality(1 .. k - 1) = k - 1
    <3>1. 1 \in Int /\ k - 1 \in Int /\ (k - 1) - 1 + 1 = k - 1 /\ (1 > k - 1 => k - 1 = 0)
      BY <1>1
    <3> QED
      BY <3>1, FS_Interval
  <2>2. S(k) \subseteq 1 .. k - 1
    OBVIOUS
  <2> HIDE DEF S
  <2> QED
    BY <2>1, <2>2, FS_Subset, FS_CardinalityType
<1>3. PlaceOf(j) \in 0 .. 255
  <2>1. PlaceOf(j) = Cardinality(S(j)) /\ j \in 1 .. Len(inf)
    BY <1>1 DEF PlaceOf
  <2>2. Cardinality(S(j)) \in Nat /\ Cardinality(S(j)) <= j - 1
    BY <1>2
  <2>3. j \in Nat /\ j <= 255
    BY <1>1, <2>1
  <2> HIDE DEF S
  <2>4. \A c \in Nat : c <= j - 1 => c \in 0 .. 255
    BY <2>3
  <2> QED
    BY <2>1, <2>2, <2>4
<1>4. ASSUME NEW k \in DOMAIN inf, j < k, inf[j].planes = inf[k].planes
      PROVE  PlaceOf(j) < PlaceOf(k)
  <2>1. S(j) \subseteq S(k) /\ j \in S(k) /\ j \notin S(j)
    BY <1>1, <1>4
  <2>2. /\ IsFiniteSet(S(k)) /\ Cardinality(S(k)) \in Nat
        /\ IsFiniteSet(S(j)) /\ Cardinality(S(j)) \in Nat
    BY <1>2
  <2>3. PlaceOf(j) = Cardinality(S(j)) /\ PlaceOf(k) = Cardinality(S(k))
    BY DEF PlaceOf
  <2> HIDE DEF S
  <2>4. Cardinality(S(j)) <= Cardinality(S(k)) /\ Cardinality(S(j)) # Cardinality(S(k))
    BY <2>1, <2>2, FS_Subset
  <2> QED
    BY <2>2, <2>3, <2>4
<1> QED
  BY <1>3, <1>4

(* TypeOK, with rez within the rows of gdos_drivers and every mode in the list it
   was made for. *)
THEOREM TypeCorrect == Spec => []TypeOK
<1>1. IInv => TypeOK
  BY DEF IInv, Typed, Placed, TypeOK
<1> QED
  BY <1>1, Inductive, PTL

(* DriverIsAssigned: read_assign_sys and get_gdos_driver find the first of the rows
   whose last line in ASSIGN.SYS names the driver, and nothing behind the table. *)
THEOREM AssignedCorrect == Spec => []DriverIsAssigned
<1>1. IInv => DriverIsAssigned
  <2>1. pc # "inf" => DriverIsAssigned
    BY DEF DriverIsAssigned
  <2> QED
    BY <2>1 DEF IInv, Placed
<1> QED
  BY <1>1, Inductive, PTL

(* CardOwnsDepth: initres_nvdivga empties the lists of the drivers it finds, and
   adds to each the modes of its driver. *)
THEOREM CardCorrect == Spec => []CardOwnsDepth
<1>1. IInv => CardOwnsDepth
  BY DEF IInv
<1> QED
  BY <1>1, Inductive, PTL

(* NumberIsPlace: create_nvdivga_mode numbers a mode by its place in nvdivga.inf,
   whatever allocation failed before it. *)
THEOREM NumberCorrect == Spec => []NumberIsPlace
<1>1. ASSUME IInv, pc = "done", NEW m \in Offered, m.card # 0
      PROVE  \E j \in DOMAIN inf :
                /\ m.planes = inf[j].planes
                /\ Size(m) = <<inf[j].width, inf[j].height>>
                /\ m.vmode = SVEXT + PlaceOf(j)
  <2>1. FromFile(m)
    BY <1>1, OfferedMode
  <2>2. PICK i \in Cards, j \in DOMAIN inf : m = CardMode(i, j)
    BY <2>1 DEF FromFile
  <2>3. /\ m.planes = inf[j].planes
        /\ Size(m) = <<inf[j].width, inf[j].height>>
        /\ m.vmode = SVEXT + PlaceOf(j)
    BY <2>2 DEF CardMode, Mode, Size
  <2> QED
    BY <2>3
<1>2. IInv => NumberIsPlace
  BY <1>1 DEF NumberIsPlace
<1> QED
  BY <1>2, Inductive, PTL

(* RowTellsMode: no list of the hardware's modes shows two with the same size,
   since the tables have none and find_mode keeps SAGA's from becoming one. *)
THEOREM RowCorrect == Spec => []RowTellsMode
<1>1. IInv => RowTellsMode
  BY DEF IInv, SizeTells, RowTellsMode
<1> QED
  BY <1>1, Inductive, PTL

(* A card's numbers stay below SAGA's registers. *)
LEMMA NumbersApart ==
    ASSUME IInv, pc = "done", NEW a \in Offered, NEW b \in Offered,
           a.card = 0, b.card # 0
    PROVE  a.vmode # b.vmode /\ b.vmode # 0
<1>1. PICK j \in DOMAIN Rows : a = Rows[j]
  BY OfferedMode
<1>2. a.vmode \in Nat /\ (a.vmode >= SVEXT => a.vmode >= SVEXT + 256)
  <2>1. Coded(Rows) /\ Rows[j] \in HwMode
    BY RowsGood DEF Good
  <2> QED
    BY <1>1, <2>1 DEF Coded, Own, HwMode
<1>3. FromFile(b)
  BY OfferedMode
<1>4. PICK i \in Cards, k \in DOMAIN inf : b = CardMode(i, k)
  BY <1>3 DEF FromFile
<1>5. b.vmode = SVEXT + PlaceOf(k)
  BY <1>4 DEF CardMode, Mode
<1>6. PlaceOf(k) \in 0 .. 255
  BY Places DEF IInv
<1> QED
  BY <1>2, <1>5, <1>6 DEF SVEXT

(* Of a card's modes of one depth, the number tells which. *)
LEMMA NumberTells ==
    ASSUME IInv, pc = "done", NEW m \in Offered, NEW n \in Offered,
           m.card # 0, n.card # 0, m.planes = n.planes, m.vmode = n.vmode
    PROVE  m = n
<1>1. FromFile(m) /\ FromFile(n)
  BY OfferedMode
<1>2. PICK i \in Cards, j \in DOMAIN inf :
         inf[j].planes = et4000modes[i].planes /\ m = CardMode(i, j)
  BY <1>1 DEF FromFile
<1>3. PICK h \in Cards, k \in DOMAIN inf :
         inf[k].planes = et4000modes[h].planes /\ n = CardMode(h, k)
  BY <1>1 DEF FromFile
<1>4. /\ m.planes = inf[j].planes /\ m.vmode = SVEXT + PlaceOf(j)
      /\ n.planes = inf[k].planes /\ n.vmode = SVEXT + PlaceOf(k)
  BY <1>2, <1>3 DEF CardMode, Mode
<1>5. i = h
  <2>1. et4000modes[i].planes = et4000modes[h].planes
    BY <1>2, <1>3, <1>4
  <2> QED
    BY <2>1, CardFacts
<1>6. j = k
  <2>1. inf[j].planes = inf[k].planes
    BY <1>4
  <2>2. PlaceOf(j) \in 0 .. 255 /\ PlaceOf(k) \in 0 .. 255
    BY Places DEF IInv
  <2>3. ~ j < k /\ ~ k < j
    <3>1. j < k => PlaceOf(j) < PlaceOf(k)
      BY <2>1, Places DEF IInv
    <3>2. k < j => PlaceOf(k) < PlaceOf(j)
      BY <2>1, Places DEF IInv
    <3>3. \A a, b \in 0 .. 255 : SVEXT + a = SVEXT + b => ~ a < b /\ ~ b < a
      BY DEF SVEXT
    <3>4. SVEXT + PlaceOf(j) = SVEXT + PlaceOf(k)
      BY <1>4
    <3> QED
      BY <2>2, <3>1, <3>2, <3>3, <3>4
  <2>4. j \in Nat /\ k \in Nat
    <3>1. DOMAIN inf = 1 .. Len(inf)
      BY DEF IInv, Typed
    <3> QED
      BY <3>1
  <2> QED
    BY <2>3, <2>4
<1> QED
  BY <1>2, <1>3, <1>5, <1>6

(* CodeTellsMode: the rez and vmode that init_res looks for belong to one mode.
   A card's numbers stay below SAGA's registers, and the row of a driver's name
   tells its depth. *)
THEOREM CodeCorrect == Spec => []CodeTellsMode
<1>1. ASSUME IInv, pc = "done", NEW m \in Offered, NEW n \in Offered,
             m.rez > 0, m.rez = n.rez, m.vmode = n.vmode
      PROVE  m = n
  <2>1. CASE m.card = 0 /\ n.card = 0
    <3>1. PICK j \in DOMAIN Rows : m = Rows[j]
      BY <1>1, <2>1, OfferedMode
    <3>2. PICK k \in DOMAIN Rows : n = Rows[k]
      BY <1>1, <2>1, OfferedMode
    <3>3. Apart(Rows[j], Rows[k])
      BY RowsGood DEF Good, Told
    <3> QED
      BY <1>1, <3>1, <3>2, <3>3 DEF Apart
  <2>2. CASE m.card = 0 <=> n.card # 0
    BY <1>1, <2>2, NumbersApart
  <2>3. CASE m.card # 0 /\ n.card # 0
    <3>1. PICK i \in Cards, j \in DOMAIN inf :
             inf[j].planes = et4000modes[i].planes /\ m = CardMode(i, j)
      BY <1>1, <2>3, OfferedMode DEF FromFile
    <3>2. PICK h \in Cards, k \in DOMAIN inf :
             inf[k].planes = et4000modes[h].planes /\ n = CardMode(h, k)
      BY <1>1, <2>3, OfferedMode DEF FromFile
    <3>3. /\ m.rez = rez[i] /\ m.planes = inf[j].planes
          /\ n.rez = rez[h] /\ n.planes = inf[k].planes
      BY <3>1, <3>2 DEF CardMode, Mode
    <3>4. i = h
      <4>1. et4000modes[i].driver = et4000modes[h].driver
        BY <1>1, <3>3 DEF IInv, Placed
      <4> QED
        BY <4>1, CardFacts
    <3> QED
      BY <1>1, <2>3, <3>1, <3>2, <3>3, <3>4, NumberTells
  <2> QED
    BY <1>1, <2>1, <2>2, <2>3
<1>2. IInv => CodeTellsMode
  BY <1>1 DEF CodeTellsMode
<1> QED
  BY <1>2, Inductive, PTL

(* WordTellsMode: the one word that apply passes on tells the hardware's own modes
   apart, and from the card's; of the card's modes it tells those of one depth. *)
THEOREM WordCorrect == Spec => []WordTellsMode
<1>1. ASSUME IInv, pc = "done", NEW m \in Offered, NEW n \in Offered,
             m.card = 0, n.card = 0
      PROVE  (Word(m) = Word(n) => m = n) /\ (m.vmode # 0 => m.rez = REZ_FALCON)
  <2>1. PICK j \in DOMAIN Rows : m = Rows[j]
    BY <1>1, OfferedMode
  <2>2. PICK k \in DOMAIN Rows : n = Rows[k]
    BY <1>1, OfferedMode
  <2>3. Apart(m, n)
    BY <2>1, <2>2, RowsGood DEF Good, Told
  <2>4. /\ m.vmode # 0 => m.rez = REZ_FALCON
        /\ n.vmode # 0 => n.rez = REZ_FALCON
    BY <2>1, <2>2, RowsGood DEF Good, Coded
  <2>5. Word(m) = Word(n) => m.rez = n.rez /\ m.vmode = n.vmode
    BY <2>4 DEF Word
  <2> QED
    BY <2>3, <2>4, <2>5 DEF Apart
<1>2. ASSUME IInv, pc = "done", NEW a \in Offered, NEW b \in Offered,
             a.card = 0, b.card # 0
      PROVE  Word(a) # Word(b)
  <2>1. a.vmode # b.vmode /\ b.vmode # 0
    BY <1>2, NumbersApart
  <2> QED
    BY <2>1 DEF Word
<1>3. ASSUME IInv, pc = "done", NEW m \in Offered, NEW n \in Offered,
             m.card # 0, n.card # 0, m.planes = n.planes, Word(m) = Word(n)
      PROVE  m = n
  <2>1. m.vmode # 0 /\ n.vmode # 0
    <3>1. ASSUME NEW l \in Offered, l.card # 0 PROVE l.vmode # 0
      <4>1. FromFile(l)
        BY <1>3, <3>1, OfferedMode
      <4>2. PICK i \in Cards, k \in DOMAIN inf : l = CardMode(i, k)
        BY <4>1 DEF FromFile
      <4>3. l.vmode = SVEXT + PlaceOf(k) /\ PlaceOf(k) \in 0 .. 255
        BY <1>3, <4>2, Places DEF IInv, CardMode, Mode
      <4> QED
        BY <4>3 DEF SVEXT
    <3> QED
      BY <1>3, <3>1
  <2>2. m.vmode = n.vmode
    BY <1>3, <2>1 DEF Word
  <2> QED
    BY <1>3, <2>2, NumberTells
<1>4. IInv => WordTellsMode
  <2> SUFFICES ASSUME IInv, pc = "done", NEW m \in Offered, NEW n \in Offered
               PROVE  /\ m.card = 0 \/ n.card = 0 \/ m.planes = n.planes =>
                            (Word(m) = Word(n) => m = n)
                      /\ m.card = 0 /\ m.vmode # 0 => m.rez = REZ_FALCON
    BY DEF WordTellsMode
  <2>1. m.card = 0 /\ m.vmode # 0 => m.rez = REZ_FALCON
    BY <1>1
  <2>2. CASE m.card = 0 /\ n.card = 0
    BY <1>1, <2>1, <2>2
  <2>3. CASE m.card = 0 <=> n.card # 0
    BY <1>2, <2>1, <2>3
  <2>4. CASE m.card # 0 /\ n.card # 0
    BY <1>3, <2>1, <2>4
  <2> QED
    BY <2>2, <2>3, <2>4
<1> QED
  BY <1>4, Inductive, PTL

(* FoundAgain: what the initres_ functions report for a mode that has taken effect
   is the code of its row, with the PAL bit taken away. *)
THEOREM FoundCorrect == Spec => []FoundAgain
<1>1. ASSUME IInv, pc = "done", NEW m \in Offered, NEW pal \in {0, PAL}, m.card = 0
      PROVE  Reported(m, pal) = [rez |-> m.rez, vmode |-> m.vmode]
  <2>1. PICK j \in DOMAIN Rows : m = Rows[j]
    BY <1>1, OfferedMode
  <2>2. IF vdo \in {"falcon", "saga"} THEN m.rez = REZ_FALCON ELSE m.vmode = 0
    BY <2>1, RowsGood
  <2>3. (m.vmode \div PAL) % 2 = 0 /\ m.vmode \in Nat
    <3>1. Coded(Rows) /\ Rows[j] \in HwMode
      BY RowsGood DEF Good
    <3> QED
      BY <2>1, <3>1 DEF Coded, HwMode
  <2>4. CASE vdo \in {"falcon", "saga"}
    <3>1. Reported(m, pal) =
             [rez |-> REZ_FALCON,
              vmode |-> IF ((m.vmode + pal) \div PAL) % 2 = 1
                        THEN (m.vmode + pal) - PAL ELSE m.vmode + pal]
      BY <2>2, <2>4, Zenon DEF Reported
    <3>2. (IF ((m.vmode + pal) \div PAL) % 2 = 1
           THEN (m.vmode + pal) - PAL ELSE m.vmode + pal) = m.vmode
      <4>1. CASE pal = 0
        BY <2>3, <4>1 DEF PAL
      <4>2. CASE pal = PAL
        BY <2>3, <4>2 DEF PAL
      <4> QED
        BY <4>1, <4>2
    <3> QED
      BY <2>2, <2>4, <3>1, <3>2
  <2>5. CASE vdo \notin {"falcon", "saga"}
    BY <2>2, <2>5 DEF Reported
  <2> QED
    BY <2>4, <2>5
<1>2. IInv => FoundAgain
  BY <1>1 DEF FoundAgain
<1> QED
  BY <1>2, Inductive, PTL
================================================================================
