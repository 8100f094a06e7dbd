---------------------------- MODULE MLSelfTest -----------------------------
(***************************************************************************)
(* inv_set_mpu_6050_config() in mlsdk/mllite/ml.c: read four self-test    *)
(* bytes from MPU registers 0x0d..0x10, turn the low six bits of the      *)
(* fourth into the ACT0 word, and the low six bits of the first three,    *)
(* rotated by the gyro mounting matrix, into the ACSX/ACSY/ACSZ words of  *)
(* DMP memory.  Each register access may fail and returns at once.        *)
(***************************************************************************)
EXTENDS Integers, Bitwise

CONSTANTS
  Mounts,       \* gyro mounting matrices (mldl_cfg->pdata->orientation)
  AtcValues,    \* byte values the self-test registers may hold
  IoResults     \* {"ok"} or {"ok", "err"}

Idx == 0 .. 8
Axes == 0 .. 2

ASSUME /\ Mounts \subseteq [Idx -> {-1, 0, 1}]
       /\ AtcValues \subseteq 0 .. 255
       /\ IoResults \subseteq {"ok", "err"} /\ "ok" \in IoResults

\* temp = atc[3] & 0x3f; if (temp >= 32) temp = temp - 64;
SelfTestTemp(b) == LET t == b & 63 IN IF t >= 32 THEN t - 64 ELSE t

\* s[kk] = atc[kk] & 0x3f; if (s[kk] > 32) s[kk] = s[kk] - 64;
SelfTestAxis(b) == LET t == b & 63 IN IF t > 32 THEN t - 64 ELSE t

\* temp = (temp << 21) | 0x100000; temp += (1L << 29); temp = -temp;
\* the shifted value has bit 20 clear, so the | adds 2^20.
Act0(b) == -((SelfTestTemp(b) * 2^21 + 2^20) + 2^29)

\* s[kk] *= 2516582; s2[kk] = row kk of the orientation times s.
Acs(atc, mtx) ==
  [kk \in Axes |->
     mtx[3 * kk] * (SelfTestAxis(atc[0]) * 2516582)
     + mtx[3 * kk + 1] * (SelfTestAxis(atc[1]) * 2516582)
     + mtx[3 * kk + 2] * (SelfTestAxis(atc[2]) * 2516582)]

VARIABLES
  gyroMount,    \* the platform's gyro mounting (fixed)
  act0,         \* DMP memory KEY_D_ACT0
  acs,          \* DMP memory KEY_D_ACSX, KEY_D_ACSY, KEY_D_ACSZ
  act0From,     \* ghost: the byte ACT0 was last computed from (-1: never)
  acsFrom       \* ghost: per axis, the bytes it was last computed from

vars == <<gyroMount, act0, acs, act0From, acsFrom>>

NoAtc == [k \in 0 .. 3 |-> -1]

Init ==
  /\ gyroMount \in Mounts
  /\ act0 = 0 /\ acs = [kk \in Axes |-> 0]
  /\ act0From = -1 /\ acsFrom = [kk \in Axes |-> NoAtc]

\* inv_set_mpu_6050_config(): the read (return on error: a stutter step),
\* the ACT0 write (return on error), then ACSX, ACSY, ACSZ in turn, the
\* first failing one returning; "written" counts those that succeeded.
inv_set_mpu_6050_config ==
  \E atc \in [0 .. 3 -> AtcValues], w \in IoResults, written \in 0 .. 3 :
    /\ "err" \notin IoResults => (w = "ok" /\ written = 3)
    /\ w = "ok"
    /\ act0' = Act0(atc[3])
    /\ act0From' = atc[3]
    /\ acs' = [kk \in Axes |->
                 IF kk < written THEN Acs(atc, gyroMount)[kk] ELSE acs[kk]]
    /\ acsFrom' = [kk \in Axes |-> IF kk < written THEN atc ELSE acsFrom[kk]]
    /\ UNCHANGED gyroMount

Next == inv_set_mpu_6050_config

Spec == Init /\ [][Next]_vars

----------------------------------------------------------------------------
\* The DMP words are signed 32-bit; ACT0 is zero until first written and
\* negative after.
Word == (-(2^30) - 2^30) .. ((2^30 - 1) + 2^30)

TypeOK ==
  /\ gyroMount \in Mounts
  /\ act0 \in (-(2^30) - 2^30) .. 0 /\ act0From \in AtcValues \cup {-1}
  /\ acs \in [Axes -> Word]
  /\ acsFrom \in [Axes -> [0 .. 3 -> AtcValues] \cup {NoAtc}]

\* The two's complement value of a 6-bit field.
Signed6(b) == LET t == b % 64 IN IF t >= 32 THEN t - 64 ELSE t

(* Each ACS word is the signed 6-bit self-test fields of the bytes it was *)
(* computed from, scaled by 2516582 and rotated by the gyro mounting.      *)
SelfTestSignExtended ==
  \A kk \in Axes :
    acsFrom[kk] # NoAtc =>
      acs[kk] = 2516582 * (  gyroMount[3 * kk] * Signed6(acsFrom[kk][0])
                           + gyroMount[3 * kk + 1] * Signed6(acsFrom[kk][1])
                           + gyroMount[3 * kk + 2] * Signed6(acsFrom[kk][2]))
=============================================================================
