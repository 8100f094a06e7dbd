--------------------------- MODULE MLCalibration ---------------------------
(***************************************************************************)
(* Orientation and calibration in the InvenSense motion library            *)
(* (mlsdk/mllite/ml.c).  A mounting matrix is a 3x3 signed char array,     *)
(* row-major, as in the platform data; inv_orientation_matrix_to_scalar    *)
(* packs it into three 3-bit fields (axis in bits 0-1, sign in bit 2).      *)
(* The variable calibration turns such a scalar back into the calibration  *)
(* matrix.  inv_apply_calibration runs the two in sequence while the DMP   *)
(* is opened.                                                             *)
(*                                                                         *)
(* The sensitivities (inv_obj.gyro->sens, accel->sens) are positive scale  *)
(* factors and are taken as 1: a calibration matrix is its sign pattern.   *)
(* The calls are those made in state DMP_OPENED, which both variable       *)
(* calibrations and the calibration block of inv_apply_calibration         *)
(* require.                                                                *)
(***************************************************************************)
EXTENDS Integers, Sequences, Bitwise, TLC

CONSTANTS
  Mounts,       \* mounting matrices the platform data may hold
  AccelMounts,  \* matrices callers pass to inv_set_accel_mounting
  CompassMounts,      \* matrices callers pass to inv_set_compass_calibration
  CompassMount,       \* pdata_slave[EXT_SLAVE_TYPE_COMPASS]->orientation
  CPASS_MTX_SUPPORTED, \* inv_dmpkey_supported(KEY_CPASS_MTX_00)
  IoResults     \* {"ok"} or {"ok", "err"}

Idx == 0 .. 8
Matrices == [Idx -> {-1, 0, 1}]
NoMtx == [k \in Idx |-> 0]

ASSUME /\ Mounts \subseteq Matrices /\ AccelMounts \subseteq Mounts
       /\ CompassMount \in CompassMounts /\ CompassMounts \subseteq Matrices
       /\ CPASS_MTX_SUPPORTED \in BOOLEAN
       /\ IoResults \subseteq {"ok", "err"} /\ "ok" \in IoResults

Row(mtx, i) == [j \in 0 .. 2 |-> mtx[3 * i + j]]

\* Mutant: the codes for -Y and -Z are swapped.
RowScaleSwapped(row) ==
  IF row[0] > 0 THEN 0 ELSE IF row[0] < 0 THEN 4
  ELSE IF row[1] > 0 THEN 1 ELSE IF row[1] < 0 THEN 6
  ELSE IF row[2] > 0 THEN 2 ELSE IF row[2] < 0 THEN 5
  ELSE 7

\* inv_row_2_scale: the first non-zero entry decides; 7 marks an empty row.
inv_row_2_scale(row) ==
  IF row[0] > 0 THEN 0 ELSE IF row[0] < 0 THEN 4
  ELSE IF row[1] > 0 THEN 1 ELSE IF row[1] < 0 THEN 5
  ELSE IF row[2] > 0 THEN 2 ELSE IF row[2] < 0 THEN 6
  ELSE 7

\* Mutant: the third row is shifted by 7 instead of 6.
ScalarShift7(mtx) ==
  (inv_row_2_scale(Row(mtx, 0))
     | (inv_row_2_scale(Row(mtx, 1)) * 2^3))
     | (inv_row_2_scale(Row(mtx, 2)) * 2^7)

\* inv_orientation_matrix_to_scalar: row i in bits 3i .. 3i+2.
inv_orientation_matrix_to_scalar(mtx) ==
  (inv_row_2_scale(Row(mtx, 0))
     | (inv_row_2_scale(Row(mtx, 1)) * 2^3))
     | (inv_row_2_scale(Row(mtx, 2)) * 2^6)

SIGNSET(x) == IF x # 0 THEN -1 ELSE 1

\* The three assignments shared by inv_gyro_var_cal and inv_accel_var_cal
\* into a zeroed 3x3 array: row i gets SIGNSET(orient & sign[i+1]) in the
\* column named by bits 3i .. 3i+1.
VarCal(orient, sign) ==
  LET z  == NoMtx
      c0 == orient & 3
      c1 == ((orient & 24) \div 2^3) + 3
      c2 == ((orient & 192) \div 2^6) + 6
  IN [[[z EXCEPT ![c0] = SIGNSET(orient & sign[1])]
          EXCEPT ![c1] = SIGNSET(orient & sign[2])]
          EXCEPT ![c2] = SIGNSET(orient & sign[3])]

\* Mutant: the gyro takes the second row's sign from bit 0x004.
GyroVarCalRow1Bit(orient) == VarCal(orient, <<4, 4, 256>>)

\* The calibration matrix written by inv_gyro_var_cal (sign bits 0x004,
\* 0x020, 0x100) and by inv_accel_var_cal (0x004, 0x004, 0x100).
GyroVarCal(orient) == VarCal(orient, <<4, 32, 256>>)
AccelVarCal(orient) == VarCal(orient, <<4, 4, 256>>)

\* The DMP opcodes inv_gyro_dmp_cal writes to KEY_FCFG_1 for a field naming
\* X, Y or Z (tmpD, tmpE, tmpF); the if-chains compare the masked field with
\* 0, 1 and 2 times its unit.  A field of 3 (an all-zero row) matches none
\* and leaves regs[i] uninitialised; the platform mountings have none.
GyroTmp == 0 :> "DINA4C" @@ 1 :> "DINACD" @@ 2 :> "DINA6C"
GyroFcfg1(o) == <<GyroTmp[o & 3], GyroTmp[(o & 24) \div 8],
                  GyroTmp[(o & 192) \div 64]>>

\* KEY_FCFG_3: DINA36, DINA56, DINA76, each "| 1" (TRUE here) when the row's
\* sign bit 0x004, 0x020, 0x100 is set.
GyroFcfg3(o) == <<(o & 4) # 0, (o & 32) # 0, (o & 256) # 0>>

\* tmp[] of inv_accel_dmp_cal, indexed by the field: KEY_FCFG_2.
AccelTmp == 0 :> "DINA0C" @@ 1 :> "DINAC9" @@ 2 :> "DINA2C"
AccelFcfg2(o) == <<AccelTmp[o & 3], AccelTmp[(o \div 8) & 3],
                   AccelTmp[(o \div 64) & 3]>>

\* Mutant: the second row's sign taken from 0x004, as in inv_accel_var_cal.
AccelFcfg7Row1Bit(o) == <<(o & 4) # 0, (o & 4) # 0, (o & 256) # 0>>

\* KEY_FCFG_7: DINA26, DINA46, DINA66 (DINA76 on product B1_E1_5), each
\* "| 1" when the row's sign bit 0x004, 0x020, 0x100 is set.
AccelFcfg7(o) == <<(o & 4) # 0, (o & 32) # 0, (o & 256) # 0>>

NoRegs == <<"none", "none", "none">>
NoSigns == <<FALSE, FALSE, FALSE>>

\* The number of DMP memory writes of a call that succeed before the first
\* failing one returns; n when all succeed.
Writes(n) == IF "err" \in IoResults THEN 0 .. n ELSE {n}

(* inv_mpu6050_accel(orient, mode, regs): the six accel opcodes            *)
(* inv_set_mpu_sensors writes to KEY_FCFG_2 for an MPU-6050 accel.  Every *)
(* byte starts as DINA90+7; mode 0 selects rows from {DINA0C, DINAC9,     *)
(* DINA2C}, mode 1 from {DINA4C, DINACD, DINA6C} after bank DINA80+1, and *)
(* mode 2 from {DINACF, DINA0C, DINAC9}, switching between bank DINA80    *)
(* (tmp1) and DINA80+1 (tmp2) on the fields that name X.  Signs unused.  *)
Mpu6050Tmp == <<0 :> "DINA0C" @@ 1 :> "DINAC9" @@ 2 :> "DINA2C",
                0 :> "DINA4C" @@ 1 :> "DINACD" @@ 2 :> "DINA6C",
                0 :> "DINACF" @@ 1 :> "DINA0C" @@ 2 :> "DINAC9">>
Fill == "DINA97"

\* Mutant: the ZXY/YXZ branch of mode 2 switches back to bank tmp1.
Mpu6050ZxyBank(orient, mode) ==
  LET t == Mpu6050Tmp[mode + 1]
      f0 == orient & 3  f1 == (orient \div 8) & 3  f2 == (orient \div 64) & 3
  IN CASE mode = 0 -> <<t[f0], t[f1], t[f2], Fill, Fill, Fill>>
       [] mode = 1 -> <<"DINA81", t[f0], t[f1], t[f2], Fill, Fill>>
       [] mode = 2 /\ f0 # 0 /\ f1 # 0 ->
            <<"DINA81", t[f0], t[f1], "DINA80", t[f2], Fill>>
       [] mode = 2 /\ f0 # 0 ->
            <<"DINA81", t[f0], "DINA80", t[f1], "DINA80", t[f2]>>
       [] mode = 2 -> <<"DINA80", t[f0], "DINA81", t[f1], t[f2], Fill>>
       [] OTHER -> <<Fill, Fill, Fill, Fill, Fill, Fill>>

inv_mpu6050_accel(orient, mode) ==
  LET t == Mpu6050Tmp[mode + 1]
      f0 == orient & 3  f1 == (orient \div 8) & 3  f2 == (orient \div 64) & 3
  IN CASE mode = 0 -> <<t[f0], t[f1], t[f2], Fill, Fill, Fill>>
       [] mode = 1 -> <<"DINA81", t[f0], t[f1], t[f2], Fill, Fill>>
       [] mode = 2 /\ f0 # 0 /\ f1 # 0 ->
            <<"DINA81", t[f0], t[f1], "DINA80", t[f2], Fill>>
       [] mode = 2 /\ f0 # 0 ->
            <<"DINA81", t[f0], "DINA80", t[f1], "DINA81", t[f2]>>
       [] mode = 2 -> <<"DINA80", t[f0], "DINA81", t[f1], t[f2], Fill>>
       [] OTHER -> <<Fill, Fill, Fill, Fill, Fill, Fill>>

(* Mutant: the case key keeps the sign bits of rows 0 and 1 (& 0xff).    *)
FreescaleCaseSigned(orient) ==
  LET c == orient & 255
  IN IF c \in {80, 129, 17, 66, 10} THEN c ELSE 136

(* The switch of inv_freescale_sensor_fusion_16bit and _8bit: the key is  *)
(* inv_accel_orient & 0xdb, which keeps the axis bits of the three fields *)
(* and drops the sign bits 0x004, 0x020 (and 0x100, beyond the mask);     *)
(* cases 0x50, 0x81, 0x11, 0x42, 0x0a, and the default ("typically 0x88"). *)
(* The opcodes of each case are abstracted to the case key.               *)
FreescaleCase(orient) ==
  LET c == orient & 219
  IN IF c \in {80, 129, 17, 66, 10} THEN c ELSE 136

\* The first ten and the last seven opcodes of the KEY_FCFG_FSCALE program
\* of inv_freescale_sensor_fusion_8bit, the same for every case.
FscaleHead == <<"DINAC3", "DINA90+14", "DINAA0+9", "DINA3E", "DINA5E",
                "DINA7E", "DINAC2", "DINAA0+9", "DINA90+9", "DINAF8+2">>
FscaleTail == <<"DINA90+7", "DINAF8+3", "DINAA0+9", "DINA0E", "DINA0E",
                "DINA0E", "DINAF8+1">>

\* An opcode followed by seven copies of another.
Run8(first, rest) == <<first>> \o [i \in 1 .. 7 |-> rest]

(* Mutant: case 0x0a's run gets one DINA50 too many.                     *)
FscaleSectionLongRun(c) ==
  CASE c = 80  -> <<"DINACB", "DINACF">> \o Run8("DINA7C", "DINA78")
    [] c = 129 -> Run8("DINA2C", "DINA28") \o <<"DINACD", "DINACB">>
    [] c = 17  -> Run8("DINA2C", "DINA28") \o <<"DINACB", "DINACF">>
    [] c = 66  -> <<"DINACF", "DINACD">> \o Run8("DINA7C", "DINA78")
    [] c = 10  -> <<"DINACD">> \o Run8("DINA54", "DINA50")
                    \o <<"DINA50", "DINACF">>
    [] OTHER   -> <<"DINACB">> \o Run8("DINA54", "DINA50") \o <<"DINACD">>

(* The case section of inv_freescale_sensor_fusion_8bit's switch on the   *)
(* case key FreescaleCase: two single opcodes and a run of eight.         *)
FscaleSection(c) ==
  CASE c = 80  -> <<"DINACB", "DINACF">> \o Run8("DINA7C", "DINA78")
    [] c = 129 -> Run8("DINA2C", "DINA28") \o <<"DINACD", "DINACB">>
    [] c = 17  -> Run8("DINA2C", "DINA28") \o <<"DINACB", "DINACF">>
    [] c = 66  -> <<"DINACF", "DINACD">> \o Run8("DINA7C", "DINA78")
    [] c = 10  -> <<"DINACD">> \o Run8("DINA54", "DINA50") \o <<"DINACF">>
    [] OTHER   -> <<"DINACB">> \o Run8("DINA54", "DINA50") \o <<"DINACD">>

\* inv_freescale_sensor_fusion_8bit: the opcodes regs[0 .. kk-1] written to
\* KEY_FCFG_FSCALE (kk = the length) for accel orient scalar orient.
inv_freescale_sensor_fusion_8bit(orient) ==
  FscaleHead \o FscaleSection(FreescaleCase(orient)) \o FscaleTail

(* The first byte of the 4-byte DMP word inv_set_compass_calibration     *)
(* writes for a matrix entry: regp {64,0,0,0} for 1, regn {64+128,0,0,0}  *)
(* for -1, reg0 otherwise.                                                *)
CompassReg(e) == CASE e = 1 -> 64 [] e = -1 -> 64 + 128 [] OTHER -> 0

(* Mutant: errors = inv_set_mpu_memory(...), so only the last write's     *)
(* result is kept.                                                        *)
CompassFailedLast(failed) == 8 \in failed

\* errors += inv_set_mpu_memory(...) over the nine writes; non-zero fails.
CompassFailed(failed) == failed # {}

(* The sets of the nine KEY_CPASS_MTX writes that fail: none, the last,   *)
(* or the first (every write is attempted whatever the earlier results).  *)
CompassFailures == IF "err" \in IoResults THEN {{}, {8}, {0}} ELSE {{}}

----------------------------------------------------------------------------
VARIABLES
  gyroMount,        \* mldl_cfg->pdata->orientation (fixed platform data)
  accelPlatform,    \* pdata_slave[EXT_SLAVE_TYPE_ACCEL]->orientation
  inv_gyro_orient,
  inv_accel_orient,
  calGyro,          \* inv_obj.calmat->gyro
  calAccel,         \* inv_obj.calmat->accel
  gyroCalFor,       \* ghost: the mounting inv_gyro_orient stood for at the
  accelCalFor,      \*   last variable calibration (NoMtx: none yet)
  gyroOrientFor,    \* ghost: the mounting each orient scalar was made from
  accelOrientFor,
  dmpGyro,          \* DMP memory: [axes |-> KEY_FCFG_1, signs |-> KEY_FCFG_3]
  dmpAccel,         \*             [axes |-> KEY_FCFG_2, signs |-> KEY_FCFG_7]
  dmpGyroFor,       \* ghost: [axes |-> m, signs |-> m], the mounting each
  dmpAccelFor,      \*   field of dmpGyro / dmpAccel was written for
  calCompass,       \* inv_obj.calmat->compass / 2^30 (scale taken as 1)
  dmpCompass,       \* DMP memory: first byte of KEY_CPASS_MTX_00 .. _22
  compassCall       \* ghost: result of the last inv_set_compass_calibration

vars == <<gyroMount, accelPlatform, inv_gyro_orient, inv_accel_orient,
          calGyro, calAccel, gyroCalFor, accelCalFor, gyroOrientFor,
          accelOrientFor, dmpGyro, dmpAccel, dmpGyroFor, dmpAccelFor,
          calCompass, dmpCompass, compassCall>>
compassVars == <<calCompass, dmpCompass, compassCall>>

\* inv_orientation_matrix_to_scalar of each possible mounting, computed once.
ScalarOf == [m \in Mounts |-> inv_orientation_matrix_to_scalar(m)]

\* The orient scalars the globals can hold, and what each call computes
\* from them, evaluated once.
Orients == {0} \cup {ScalarOf[m] : m \in Mounts}
Of(F(_)) == [o \in Orients |-> F(o)]
GyroCal == Of(GyroVarCal)
AccelCal == Of(AccelVarCal)
Fcfg1 == Of(GyroFcfg1)
Fcfg3 == Of(GyroFcfg3)
Fcfg2 == Of(AccelFcfg2)
Fcfg7 == Of(AccelFcfg7)

\* Globals start zeroed; the platform data is whatever the board gives.
Init ==
  /\ gyroMount \in Mounts /\ accelPlatform \in Mounts
  /\ inv_gyro_orient = 0 /\ inv_accel_orient = 0
  /\ calGyro = NoMtx /\ calAccel = NoMtx
  /\ gyroCalFor = NoMtx /\ accelCalFor = NoMtx
  /\ gyroOrientFor = NoMtx /\ accelOrientFor = NoMtx
  /\ dmpGyro = [axes |-> NoRegs, signs |-> NoSigns]
  /\ dmpAccel = [axes |-> NoRegs, signs |-> NoSigns]
  /\ dmpGyroFor = [axes |-> NoMtx, signs |-> NoMtx]
  /\ dmpAccelFor = [axes |-> NoMtx, signs |-> NoMtx]
  /\ calCompass = NoMtx /\ dmpCompass = NoMtx /\ compassCall = "none"

(* The DMP writes of inv_gyro_dmp_cal for orient scalar o (made from      *)
(* mounting m) when the first n of KEY_FCFG_1, KEY_FCFG_3 and KEY_D_0_104 *)
(* succeed: a failure returns, leaving the later ones unwritten.          *)
GyroDmpWrite(n, o, m) ==
  /\ dmpGyro' = [axes  |-> IF n >= 1 THEN Fcfg1[o] ELSE dmpGyro.axes,
                 signs |-> IF n >= 2 THEN Fcfg3[o] ELSE dmpGyro.signs]
  /\ dmpGyroFor' = [axes  |-> IF n >= 1 THEN m ELSE dmpGyroFor.axes,
                    signs |-> IF n >= 2 THEN m ELSE dmpGyroFor.signs]

(* inv_accel_dmp_cal: KEY_D_1_152 (the zero-g offsets), KEY_FCFG_2,       *)
(* KEY_FCFG_7, KEY_D_0_108, each returning on failure.  The accel slave   *)
(* is configured with a non-zero id, as an MPU-6050 accel is.             *)
AccelDmpWrite(n, o, m) ==
  /\ dmpAccel' = [axes  |-> IF n >= 2 THEN Fcfg2[o] ELSE dmpAccel.axes,
                  signs |-> IF n >= 3 THEN Fcfg7[o] ELSE dmpAccel.signs]
  /\ dmpAccelFor' = [axes  |-> IF n >= 2 THEN m ELSE dmpAccelFor.axes,
                     signs |-> IF n >= 3 THEN m ELSE dmpAccelFor.signs]

(* inv_set_compass_calibration(range, orientation): calmat->compass is   *)
(* set first, then (if the DMP image has KEY_CPASS_MTX_00) all nine words *)
(* are written, a failed write leaving its word as it was; the summed     *)
(* errors decide the result.                                              *)
CompassWrite(m, failed) ==
  /\ calCompass' = m
  /\ dmpCompass' = IF CPASS_MTX_SUPPORTED
                     THEN [k \in Idx |-> IF k \in failed THEN dmpCompass[k]
                                                         ELSE CompassReg(m[k])]
                     ELSE dmpCompass
  /\ compassCall' = IF CPASS_MTX_SUPPORTED /\ CompassFailed(failed)
                      THEN "err" ELSE "ok"

gyroDmpVars == <<dmpGyro, dmpGyroFor>>
accelDmpVars == <<dmpAccel, dmpAccelFor>>

\* inv_set_accel_mounting(mount), a public call.
inv_set_accel_mounting(mount) ==
  /\ inv_accel_orient' = ScalarOf[mount]
  /\ accelOrientFor' = mount
  /\ UNCHANGED <<gyroMount, accelPlatform, inv_gyro_orient, calGyro,
                 calAccel, gyroCalFor, accelCalFor, gyroOrientFor>>
  /\ UNCHANGED <<gyroDmpVars, accelDmpVars, compassVars>>

\* inv_gyro_var_cal() and inv_accel_var_cal(), public calls.
inv_gyro_var_cal ==
  /\ calGyro' = GyroCal[inv_gyro_orient]
  /\ gyroCalFor' = gyroOrientFor
  /\ UNCHANGED <<gyroMount, accelPlatform, inv_gyro_orient, inv_accel_orient,
                 calAccel, accelCalFor, gyroOrientFor, accelOrientFor>>
  /\ UNCHANGED <<gyroDmpVars, accelDmpVars, compassVars>>

inv_accel_var_cal ==
  /\ calAccel' = AccelCal[inv_accel_orient]
  /\ accelCalFor' = accelOrientFor
  /\ UNCHANGED <<gyroMount, accelPlatform, inv_gyro_orient, inv_accel_orient,
                 calGyro, gyroCalFor, gyroOrientFor, accelOrientFor>>
  /\ UNCHANGED <<gyroDmpVars, accelDmpVars, compassVars>>

\* inv_gyro_dmp_cal() and inv_accel_dmp_cal(), public calls, from the
\* current orient scalars.
inv_gyro_dmp_cal ==
  /\ \E n \in Writes(3) : GyroDmpWrite(n, inv_gyro_orient, gyroOrientFor)
  /\ UNCHANGED <<gyroMount, accelPlatform, inv_gyro_orient, inv_accel_orient,
                 calGyro, calAccel, gyroCalFor, accelCalFor, gyroOrientFor,
                 accelOrientFor, accelDmpVars, compassVars>>

inv_accel_dmp_cal ==
  /\ \E n \in Writes(4) : AccelDmpWrite(n, inv_accel_orient, accelOrientFor)
  /\ UNCHANGED <<gyroMount, accelPlatform, inv_gyro_orient, inv_accel_orient,
                 calGyro, calAccel, gyroCalFor, accelCalFor, gyroOrientFor,
                 accelOrientFor, gyroDmpVars, compassVars>>

(* inv_apply_calibration() in DMP_OPENED: gyro orient, inv_gyro_dmp_cal  *)
(* (returning on failure), inv_gyro_var_cal, accel mounting,             *)
(* inv_accel_dmp_cal (returning on failure), inv_accel_var_cal, and,    *)
(* the compass slave being configured, inv_set_compass_calibration with  *)
(* the platform's compass mounting.                                       *)
inv_apply_calibration ==
  \E gw \in Writes(3), aw \in Writes(4), cf \in CompassFailures :
    LET go  == ScalarOf[gyroMount]
        ao  == ScalarOf[accelPlatform]
        gOK == gw = 3
        aOK == gOK /\ aw = 4
    IN /\ inv_gyro_orient' = go
       /\ gyroOrientFor' = gyroMount
       /\ GyroDmpWrite(gw, go, gyroMount)
       /\ calGyro' = IF gOK THEN GyroCal[go] ELSE calGyro
       /\ gyroCalFor' = IF gOK THEN gyroMount ELSE gyroCalFor
       /\ inv_accel_orient' = IF gOK THEN ao ELSE inv_accel_orient
       /\ accelOrientFor' = IF gOK THEN accelPlatform ELSE accelOrientFor
       /\ IF gOK THEN AccelDmpWrite(aw, ao, accelPlatform)
                 ELSE UNCHANGED accelDmpVars
       /\ calAccel' = IF aOK THEN AccelCal[ao] ELSE calAccel
       /\ accelCalFor' = IF aOK THEN accelPlatform ELSE accelCalFor
       /\ IF aOK THEN CompassWrite(CompassMount, cf) ELSE UNCHANGED compassVars
       /\ UNCHANGED <<gyroMount, accelPlatform>>

\* inv_set_compass_calibration(range, orientation), a public call.
inv_set_compass_calibration(m) ==
  /\ \E failed \in CompassFailures : CompassWrite(m, failed)
  /\ UNCHANGED <<gyroMount, accelPlatform, inv_gyro_orient, inv_accel_orient,
                 calGyro, calAccel, gyroCalFor, accelCalFor, gyroOrientFor,
                 accelOrientFor, gyroDmpVars, accelDmpVars>>


Next ==
  \/ \E m \in AccelMounts : inv_set_accel_mounting(m)
  \/ inv_gyro_var_cal \/ inv_accel_var_cal
  \/ inv_gyro_dmp_cal \/ inv_accel_dmp_cal
  \/ inv_apply_calibration
  \/ \E m \in CompassMounts : inv_set_compass_calibration(m)

Spec == Init /\ [][Next]_vars

----------------------------------------------------------------------------
(* Properties.                                                             *)
(***************************************************************************)

TypeOK ==
  /\ gyroMount \in Mounts /\ accelPlatform \in Mounts
  /\ inv_gyro_orient \in 0 .. 511 /\ inv_accel_orient \in 0 .. 511
  /\ calGyro \in Matrices /\ calAccel \in Matrices
  /\ {gyroCalFor, accelCalFor, gyroOrientFor, accelOrientFor,
      dmpGyroFor.axes, dmpGyroFor.signs, dmpAccelFor.axes, dmpAccelFor.signs}
       \subseteq Mounts \cup {NoMtx}
  /\ dmpGyro \in [axes : {NoRegs} \cup [1 .. 3 -> {GyroTmp[a] : a \in 0 .. 2}],
                  signs : [1 .. 3 -> BOOLEAN]]
  /\ dmpAccel \in [axes : {NoRegs} \cup [1 .. 3 -> {AccelTmp[a] : a \in 0 .. 2}],
                   signs : [1 .. 3 -> BOOLEAN]]
  /\ calCompass \in Matrices /\ dmpCompass \in [Idx -> {0, 64, 192}]
  /\ compassCall \in {"none", "ok", "err"}

\* The meaning of an orientation scalar, from the table in
\* inv_orientation_matrix_to_scalar's comment: field i names the column
\* (0 X, 1 Y, 2 Z) and bit 2 of the field the sign of row i.
OrientMatrix(s) ==
  [k \in Idx |->
     LET f == (s \div 2^(3 * (k \div 3))) % 8
     IN IF f % 4 = k % 3 THEN (IF f >= 4 THEN -1 ELSE 1) ELSE 0]

(* Every orient scalar the code builds, by inv_apply_calibration or       *)
(* inv_set_accel_mounting, decodes by the documented table to the         *)
(* mounting matrix it was made from (inv_row_2_scale and                  *)
(* inv_orientation_matrix_to_scalar against the comment's table).         *)
OrientationRoundTrip ==
  /\ gyroOrientFor # NoMtx => OrientMatrix(inv_gyro_orient) = gyroOrientFor
  /\ accelOrientFor # NoMtx => OrientMatrix(inv_accel_orient) = accelOrientFor

(* After any sequence of mounting, calibration and self-test calls, the  *)
(* gyro calibration matrix is the mounting matrix its orient scalar was   *)
(* made from.                                                             *)
GyroCalIsMounting ==
  gyroCalFor # NoMtx => calGyro = gyroCalFor

(* The same for the accelerometer: inv_accel_var_cal turns the accel     *)
(* orient scalar back into its mounting matrix.                          *)
AccelCalIsMounting ==
  accelCalFor # NoMtx => calAccel = accelCalFor


\* The column holding the non-zero entry of row i of a mounting matrix.
RowAxis(m, i) == CHOOSE j \in 0 .. 2 : m[3 * i + j] # 0

(* The DMP's axis and sign configuration, KEY_FCFG_1/3 for the gyro and    *)
(* KEY_FCFG_2/7 for the accel, selects for each row the axis and sign of *)
(* the mounting it was written for, even when a failing write left the   *)
(* fields of one call mixed with those of another.                       *)
DmpConfigIsMounting ==
  \A i \in 0 .. 2 :
    /\ dmpGyroFor.axes # NoMtx =>
         dmpGyro.axes[i + 1] = GyroTmp[RowAxis(dmpGyroFor.axes, i)]
    /\ dmpGyroFor.signs # NoMtx =>
         dmpGyro.signs[i + 1] =
           (dmpGyroFor.signs[3 * i + RowAxis(dmpGyroFor.signs, i)] < 0)
    /\ dmpAccelFor.axes # NoMtx =>
         dmpAccel.axes[i + 1] = AccelTmp[RowAxis(dmpAccelFor.axes, i)]
    /\ dmpAccelFor.signs # NoMtx =>
         dmpAccel.signs[i + 1] =
           (dmpAccelFor.signs[3 * i + RowAxis(dmpAccelFor.signs, i)] < 0)

(* The signed permutation matrices: every mounting a board can have.     *)
SignedPerms ==
  {[k \in Idx |-> IF p[k \div 3] = k % 3 THEN sg[k \div 3] ELSE 0] :
     p \in Permutations(0 .. 2), sg \in [0 .. 2 -> {-1, 1}]}

(* Reference for the MPU-6050 accel program: for each row in turn, a bank *)
(* opcode when the row's axis lies in another DMP bank than the previous  *)
(* one (mode 1: all in DINA80+1; mode 2: X in DINA80, Y and Z in          *)
(* DINA80+1; mode 0: no banks), then the row's axis opcode.              *)
Bank(mode, a) ==
  CASE mode = 1 -> "DINA81"
    [] mode = 2 -> IF a = 0 THEN "DINA80" ELSE "DINA81"
    [] OTHER -> "none"

RECURSIVE Program(_, _, _, _)
Program(m, mode, i, bank) ==
  IF i = 3 THEN <<>>
  ELSE LET a == RowAxis(m, i)
           b == Bank(mode, a)
       IN (IF b = bank THEN <<>> ELSE <<b>>)
            \o <<Mpu6050Tmp[mode + 1][a]>> \o Program(m, mode, i + 1, b)

AccelProgramOf(m, mode) ==
  LET p == Program(m, mode, 0, "none")
  IN [j \in 1 .. 6 |-> IF j <= Len(p) THEN p[j] ELSE Fill]

\* inv_mpu6050_accel is the reference program for every signed permutation
\* and every mode inv_set_mpu_sensors uses (evaluated once).
Mpu6050AllMounts ==
  \A m \in SignedPerms, mode \in 0 .. 2 :
    inv_mpu6050_accel(inv_orientation_matrix_to_scalar(m), mode) =
      AccelProgramOf(m, mode)

(* inv_mpu6050_accel, which inv_set_mpu_sensors writes to KEY_FCFG_2 from *)
(* the platform accel mounting, gives for every signed permutation and    *)
(* mode each row's axis opcode in order under the right DMP bank, whatever *)
(* the signs; and when inv_accel_dmp_cal last wrote KEY_FCFG_2 for that    *)
(* same mounting, the two writers of the key agree on its three opcodes.  *)
Mpu6050ProgramSelectsRows ==
  /\ Mpu6050AllMounts
  /\ dmpAccelFor.axes = accelPlatform =>
       SubSeq(inv_mpu6050_accel(ScalarOf[accelPlatform], 0), 1, 3) = dmpAccel.axes

\* The orient scalar of a mounting's unsigned axis permutation.
PermCode(m) == RowAxis(m, 0) + 8 * RowAxis(m, 1) + 64 * RowAxis(m, 2)

\* The case key of every signed permutation is its permutation's code
\* (evaluated once).
FusionAllMounts ==
  \A m \in SignedPerms :
    FreescaleCase(inv_orientation_matrix_to_scalar(m)) = PermCode(m)

(* The freescale fusion setup picks, for every signed permutation         *)
(* mounting, the case of the mounting's axis permutation, so a board      *)
(* mounted with a flipped axis is not sent to the default identity        *)
(* program; in particular, called now, it would pick the case of the      *)
(* mounting inv_accel_orient was last set from (by inv_apply_calibration  *)
(* or inv_set_accel_mounting).                                            *)
FusionCaseIsPermutation ==
  /\ FusionAllMounts
  /\ accelOrientFor # NoMtx =>
       FreescaleCase(inv_accel_orient) = PermCode(accelOrientFor)

\* unsigned char regs[27] of inv_freescale_sensor_fusion_8bit.
FscaleRegs == 27

\* The slot (0, 1 or 2) of the case section holding the run of eight.
RunSlot(sec) ==
  (CHOOSE i \in 1 .. 3 : sec[i] \in {"DINA54", "DINA7C", "DINA2C"}) - 1

\* For every signed permutation: the program fills regs exactly, and the
\* run sits in the slot of the row mounted on chip axis 1 (evaluated once).
FscaleAllMounts ==
  \A m \in SignedPerms :
    LET o == inv_orientation_matrix_to_scalar(m)
    IN /\ Len(inv_freescale_sensor_fusion_8bit(o)) = FscaleRegs
       /\ RowAxis(m, RunSlot(FscaleSection(FreescaleCase(o)))) = 1

\* The program length for each orient scalar (evaluated once).
FscaleLenOf(o) == Len(inv_freescale_sensor_fusion_8bit(o))
FscaleLen == Of(FscaleLenOf)

(* inv_freescale_sensor_fusion_8bit fills regs[] with kk++ and no bound:  *)
(* for every signed permutation mounting its case section keeps kk at     *)
(* exactly 27, the size of regs, so the KEY_FCFG_FSCALE write neither     *)
(* overruns the array nor sends uninitialised bytes; and each section     *)
(* puts its eight-opcode run in the slot of the row the mounting reads    *)
(* from chip axis Y, so a section copied to the wrong case is caught.     *)
(* Called now, it would write such a program for inv_accel_orient.        *)
FscaleProgramFitsRegs ==
  /\ FscaleAllMounts
  /\ accelOrientFor # NoMtx => FscaleLen[inv_accel_orient] = FscaleRegs

\* The signed 32-bit number of a big-endian DMP word whose first byte is b
\* and whose other bytes are zero: the byte as a signed char, times 2^24.
Q30Word(b) == (IF b >= 128 THEN b - 256 ELSE b) * 2^24

(* After inv_set_compass_calibration reports success, directly or from    *)
(* inv_apply_calibration, each KEY_CPASS_MTX word, read by the DMP as a   *)
(* signed Q30 number, is the calibration matrix entry calmat->compass[k]  *)
(* (orientation * 2^30, the scale going to mag->sens): no failed or       *)
(* mis-encoded write is reported as success.                              *)
CompassDmpMatchesCal ==
  CPASS_MTX_SUPPORTED /\ compassCall = "ok" =>
    \A k \in Idx : Q30Word(dmpCompass[k]) = calCompass[k] * 2^30
=============================================================================
