-------------------------------- MODULE ModeRows -------------------------------
(***************************************************************************)
(* The modes that the initres_ functions of res.c list for each video      *)
(* hardware, in their order.                                               *)
(***************************************************************************)
EXTENDS Integers, Sequences

(* mint/falcon.h *)
BPS1 == 0
BPS2 == 1
BPS4 == 2
BPS8 == 3
BPS16 == 4
COL80 == 8
VGA == 16
TV == 0
PAL == 32
OVERSCAN == 64
STMODES == 128
VERTFLAG == 256

(* extern.h *)
REZ_ST_LOW == 2
REZ_ST_MED == 3
REZ_ST_HIGH == 4
REZ_FALCON == 5
REZ_TT_MED == 6
REZ_TT_HIGH == 8
REZ_TT_LOW == 9
SVEXT == 16384

(* a struct res: its list, its visible size, its depth and its code; card is
   the row of et4000modes that it was made from, 0 for the modes below *)
Mode(idx, width, height, planes, rez, vmode) ==
    [idx |-> idx, width |-> width, height |-> height, planes |-> planes,
     rez |-> rez, vmode |-> vmode, card |-> 0]

Rez(idx, width, height, planes, rez) == Mode(idx, width, height, planes, rez, 0)

Row(idx, width, height, planes, vmode) ==
    Mode(idx, width, height, planes, REZ_FALCON, vmode)

initres_st == <<
    Rez(0, 640, 400, 1, REZ_ST_HIGH), Rez(1, 640, 200, 2, REZ_ST_MED),
    Rez(2, 320, 200, 4, REZ_ST_LOW) >>

initres_tt(mono) ==
    IF mono THEN <<Rez(0, 1280, 960, 1, REZ_TT_HIGH)>>
    ELSE <<Rez(2, 640, 480, 4, REZ_TT_MED), Rez(3, 320, 480, 8, REZ_TT_LOW)>>
            \o initres_st

falcon_mono == <<Row(0, 640, 400, 1, STMODES + COL80 + BPS1)>>

falcon_vga == <<
    Row(0, 640, 240, 1, VERTFLAG + VGA + COL80 + BPS1),
    Row(0, 640, 400, 1, STMODES + VGA + COL80 + BPS1),
    Row(0, 640, 240, 1, VERTFLAG + VGA + COL80 + BPS1),
    Row(1, 320, 240, 2, VERTFLAG + VGA + BPS2),
    Row(1, 320, 480, 2, VGA + BPS2),
    Row(1, 640, 200, 2, VERTFLAG + STMODES + VGA + COL80 + BPS2),
    Row(1, 640, 240, 2, VERTFLAG + VGA + COL80 + BPS2),
    Row(1, 640, 480, 2, VGA + COL80 + BPS2),
    Row(2, 320, 200, 4, VERTFLAG + STMODES + VGA + BPS4),
    Row(2, 320, 240, 4, VERTFLAG + VGA + BPS4),
    Row(2, 320, 480, 4, VGA + BPS4),
    Row(2, 640, 240, 4, VERTFLAG + VGA + COL80 + BPS4),
    Row(2, 640, 480, 4, VGA + COL80 + BPS4),
    Row(3, 320, 240, 8, VERTFLAG + VGA + BPS8),
    Row(3, 320, 480, 8, VGA + BPS8),
    Row(3, 640, 240, 8, VERTFLAG + VGA + COL80 + BPS8),
    Row(3, 640, 480, 8, VGA + COL80 + BPS8),
    Row(4, 320, 240, 16, VERTFLAG + VGA + BPS16),
    Row(4, 320, 480, 16, VGA + BPS16) >>

falcon_tv == <<
    Row(0, 640, 240, 1, TV + COL80 + BPS1),
    Row(0, 640, 400, 1, VERTFLAG + TV + STMODES + COL80 + BPS1),
    Row(0, 768, 240, 1, TV + OVERSCAN + COL80 + BPS1),
    Row(0, 768, 480, 1, VERTFLAG + TV + OVERSCAN + COL80 + BPS1),
    Row(1, 320, 200, 2, TV + BPS2), Row(1, 320, 400, 2, VERTFLAG + TV + BPS2),
    Row(1, 320, 240, 2, TV + OVERSCAN + BPS2),
    Row(1, 320, 480, 2, VERTFLAG + TV + OVERSCAN + BPS2),
    Row(1, 640, 200, 2, TV + STMODES + COL80 + BPS2),
    Row(1, 640, 400, 2, VERTFLAG + TV + COL80 + BPS2),
    Row(1, 768, 240, 2, TV + OVERSCAN + COL80 + BPS2),
    Row(1, 768, 480, 2, VERTFLAG + TV + OVERSCAN + COL80 + BPS2),
    Row(2, 320, 200, 4, TV + STMODES + BPS4),
    Row(2, 320, 400, 4, VERTFLAG + TV + BPS4),
    Row(2, 384, 240, 4, OVERSCAN + BPS4),
    Row(2, 384, 480, 4, VERTFLAG + TV + OVERSCAN + BPS4),
    Row(2, 640, 200, 4, COL80 + BPS4),
    Row(2, 640, 400, 4, VERTFLAG + TV + COL80 + BPS4),
    Row(2, 768, 240, 4, OVERSCAN + COL80 + BPS4),
    Row(2, 768, 480, 4, VERTFLAG + TV + OVERSCAN + COL80 + BPS4),
    Row(3, 320, 200, 8, TV + BPS8), Row(3, 320, 400, 8, VERTFLAG + TV + BPS8),
    Row(3, 384, 240, 8, TV + OVERSCAN + BPS8),
    Row(3, 384, 480, 8, VERTFLAG + TV + OVERSCAN + BPS8),
    Row(3, 640, 200, 8, TV + COL80 + BPS8),
    Row(3, 640, 400, 8, VERTFLAG + TV + COL80 + BPS8),
    Row(3, 768, 240, 8, TV + OVERSCAN + COL80 + BPS8),
    Row(3, 768, 480, 8, VERTFLAG + TV + OVERSCAN + COL80 + BPS8),
    Row(4, 320, 200, 16, TV + BPS16),
    Row(4, 320, 400, 16, VERTFLAG + TV + BPS16),
    Row(4, 384, 240, 16, TV + OVERSCAN + BPS16),
    Row(4, 384, 480, 16, VERTFLAG + TV + OVERSCAN + BPS16),
    Row(4, 640, 200, 16, TV + COL80 + BPS16),
    Row(4, 640, 400, 16, VERTFLAG + TV + COL80 + BPS16),
    Row(4, 768, 240, 16, TV + OVERSCAN + COL80 + BPS16),
    Row(4, 768, 480, 16, VERTFLAG + TV + OVERSCAN + COL80 + BPS16) >>

saga_atari == <<
    Row(2, 640, 480, 4, VGA + COL80 + BPS4),
    Row(0, 640, 400, 1, STMODES + VGA + COL80 + BPS1),
    Row(1, 640, 200, 2, VERTFLAG + STMODES + VGA + COL80 + BPS2),
    Row(2, 320, 200, 4, VERTFLAG + STMODES + VGA + BPS4) >>

saga_resolutions == <<
    <<1, 320, 200>>, <<2, 320, 240>>, <<3, 320, 256>>, <<4, 640, 400>>,
    <<5, 640, 480>>, <<6, 640, 512>>, <<7, 960, 540>>, <<8, 480, 270>>,
    <<9, 304, 224>>, <<10, 1280, 720>>, <<11, 640, 360>>, <<12, 800, 600>>,
    <<13, 1024, 768>>, <<14, 720, 576>>, <<15, 848, 480>>, <<16, 640, 200>> >>

(* for each list that is left the register and the depth: none of 15 and 24 bits,
   and fVDI's driver has none below 16 *)
saga_depths(fvdi) ==
    (IF fvdi THEN <<>>
     ELSE <<[idx |-> 0, reg |-> 8, bpp |-> 1], [idx |-> 1, reg |-> 9, bpp |-> 2],
            [idx |-> 2, reg |-> 10, bpp |-> 4], [idx |-> 3, reg |-> 1, bpp |-> 8]>>)
    \o <<[idx |-> 5, reg |-> 2, bpp |-> 16], [idx |-> 7, reg |-> 5, bpp |-> 32]>>

SagaVmode_NoDepth(res, depth) == SVEXT + res[1] * 256              \* mutant

(* 0x4000 | the resolution's register << 8 | the depth's register *)
SagaVmode(res, depth) == SVEXT + res[1] * 256 + depth.reg

(* all sizes in each depth *)
saga_modes(fvdi) ==
    LET Sizes == Len(saga_resolutions)
    IN  [n \in 1 .. Sizes * Len(saga_depths(fvdi)) |->
            LET depth == saga_depths(fvdi)[((n - 1) \div Sizes) + 1]
                res == saga_resolutions[((n - 1) % Sizes) + 1]
            IN  Row(depth.idx, res[2], res[3], depth.bpp, SagaVmode(res, depth))]
================================================================================
