----------------------------- MODULE MLSensors -----------------------------
(***************************************************************************)
(* Sensor selection and motion reset in the InvenSense motion library     *)
(* (mlsdk/mllite/ml.c): inv_set_mpu_sensors, inv_reset_motion,            *)
(* inv_set_mode_change, inv_start_bias_calc / inv_stop_bias_calc and      *)
(* inv_check_flag.  inv_set_mpu_sensors checks its argument, turns the    *)
(* accel's DMP-driven mode on when the DMP processor is newly requested,  *)
(* asks the advanced-fusion mode-change callback, writes the accel's DMP  *)
(* program KEY_FCFG_2, records the request, and while the DMP runs        *)
(* restarts the DL with the new sensors and resets motion detection.      *)
(*                                                                         *)
(* The DL (inv_dl_start, inv_dl_stop), the accel slave configuration      *)
(* (inv_mpu_config_accel) and inv_dmp_open/start/stop are outside the     *)
(* repository: each call succeeds or fails as IoResults allows, and the   *)
(* DL runs the sensors it was last started with and not stopped.  A       *)
(* request gives each sensor group the number of axes asked for: 0, all   *)
(* 3, or 1 standing for any mask with some but not all of the group's     *)
(* bits.                                                                   *)
(***************************************************************************)
EXTENDS Integers, Sequences, FiniteSets

CONSTANTS
  IoResults,          \* {"ok"} or {"ok", "err"}
  Slaves,             \* slave groups in the platform data (pdata_slave)
  ACCEL_IS_MPU6050,   \* slave[EXT_SLAVE_TYPE_ACCEL]->id == ACCEL_ID_MPU6050
  Requests,           \* the masks callers pass to inv_set_mpu_sensors
  NoMotionTimes,      \* tmp = (long)(time * 200) of inv_set_no_motion_time
  NoMotionThreshs     \* tmp = (long)(thresh * thresh * 2.045f) of
                      \*   inv_set_no_motion_thresh

Groups == {"accel", "compass", "pressure"}

ASSUME /\ IoResults \subseteq {"ok", "err"} /\ "ok" \in IoResults
       /\ Slaves \subseteq Groups /\ ACCEL_IS_MPU6050 \in BOOLEAN
       /\ Requests \subseteq [accel : {0, 1, 3}, compass : {0, 1, 3},
                              pressure : {0, 1, 3}, dmp : BOOLEAN]
       /\ NoMotionTimes \subseteq Int /\ NoMotionThreshs \subseteq Int

\* The inv_state_t values in the order the code compares them.
Rank == [SERIAL_OPENED |-> 2, DMP_OPENED |-> 3, DMP_STARTED |-> 4]

\* What a request turns on: the groups asked for in full and the DMP.
On(r) == {g \in Groups : r[g] = 3} \cup (IF r.dmp THEN {"dmp"} ELSE {})

NoSensors == [accel |-> 0, compass |-> 0, pressure |-> 0, dmp |-> FALSE]

VARIABLES
  sstate,           \* inv_params_obj.state, from DMP_OPENED's view
  requested,        \* mldl_cfg->inv_mpu_cfg->requested_sensors
  running,          \* what the DL runs (inv_dl_start / inv_dl_stop)
  accelIrq,         \* the accel slave's IRQ: "default", "none", "data_ready"
  fcfg2,            \* KEY_FCFG_2: inv_mpu6050_accel mode last written, or -1
  modeChangeCb,     \* inv_obj.adv_fusion->mode_change_cb is set
  motion,           \* inv_obj.lite_fusion->motion_state
  motionFlag,       \* inv_obj.sys->flags[INV_MOTION_STATE_CHANGE] ("clear": 0)
  dmpMotion,        \* DMP motion words: "stale", "partial" or "reset"
  biascalcSuspend,  \* inv_obj.adv_fusion->biascalc_suspend
  motionDuration,   \* inv_obj.lite_fusion->motion_duration
  dmpDuration,      \* DMP memory KEY_D_1_106: <<high byte, low byte>>
  durationErr,      \* ghost: a call reported an error after assigning
                    \*   motion_duration and before writing KEY_D_1_106
  lastCall          \* ghost: what the last inv_set_mpu_sensors since the
                    \*   DMP last started or stopped returned

sensorVars == <<sstate, requested, running, accelIrq, fcfg2, modeChangeCb,
                motion, motionFlag, dmpMotion, biascalcSuspend, lastCall,
                motionDuration, dmpDuration, durationErr>>
durationVars == <<motionDuration, dmpDuration, durationErr>>

\* The two bytes inv_reset_motion and inv_set_no_motion_time write for a
\* motion duration: (d >> 8) & 0xff, then d & 0xff.
DurationBytes(d) == <<(d \div 256) % 256, d % 256>>

\* After inv_serial_start: the configuration is zeroed, nothing requested.
SensorsInit ==
  /\ sstate = "SERIAL_OPENED"
  /\ requested = NoSensors /\ running = {}
  /\ accelIrq = "default" /\ fcfg2 = -1
  /\ modeChangeCb = FALSE
  /\ motion = "INV_MOTION" /\ motionFlag = "clear" /\ dmpMotion = "stale"
  /\ biascalcSuspend = 0
  /\ lastCall = "none"
  /\ motionDuration = 0 /\ dmpDuration = DurationBytes(0) /\ durationErr = FALSE

\* The result of the n-th of k calls when any of them may fail: the number
\* of calls that succeed before the first failure (k: none fails).
Writes(k) == IF "err" \in IoResults THEN 0 .. k ELSE {k}

----------------------------------------------------------------------------
(* inv_reset_motion(), its first k DMP writes succeeding: motion state    *)
(* and flag are set to INV_MOTION before any write; KEY_D_1_106 (from     *)
(* motion_duration d), KEY_D_1_96, KEY_D_0_96 and the gyro bias           *)
(* (KEY_D_2_96 or inv_set_gyro_bias_in_dps) follow, each returning on     *)
(* failure.  word and err are KEY_D_1_106 and the ghost before the call.  *)
ResetMotion(k, d, word, err) ==
  /\ motion' = "INV_MOTION"
  /\ motionFlag' = "INV_MOTION"
  /\ dmpMotion' = CASE k = 4 -> "reset"
                    [] k = 0 -> dmpMotion
                    [] OTHER -> "partial"
  /\ dmpDuration' = IF k >= 1 THEN DurationBytes(d) ELSE word
  /\ durationErr' = IF k >= 1 THEN FALSE ELSE err

\* The four DMP writes of inv_reset_motion.
ResetWrites == <<"KEY_D_1_106", "KEY_D_1_96", "KEY_D_0_96", "KEY_D_2_96">>

\* Mutant: requested_sensors is read after the call assigned it.
TurningOnAfterAssign(r) ==
  LET requested_sensors == r IN r.dmp /\ ~requested_sensors.dmp

\* The DMP is turned on by this call: it is requested and was not.
TurningOn(r) == r.dmp /\ ~requested.dmp

\* Mutant: the modes are numbered from 1.
AccelModeFromOne(r) ==
  CASE ACCEL_IS_MPU6050 -> 1
    [] r.compass # 0    -> 2
    [] OTHER            -> 3

\* The inv_mpu6050_accel mode inv_set_mpu_sensors writes to KEY_FCFG_2.
AccelMode(r) ==
  CASE ACCEL_IS_MPU6050 -> 0
    [] r.compass # 0    -> 1
    [] OTHER            -> 2

\* The calls inv_set_mpu_sensors(r) makes after its argument checks, in
\* order, that can fail and return.
SensorCalls(r) ==
  (IF TurningOn(r) THEN <<"odr_resume", "irq_resume">> ELSE <<>>)
  \o (IF modeChangeCb THEN <<"mode_change">> ELSE <<>>)
  \o (IF sstate = "DMP_STARTED"
        THEN <<"dl_start">> \o ResetWrites \o <<"dl_stop">> ELSE <<>>)
  \o (IF ~r.dmp /\ r.accel = 3 THEN <<"irq_data_ready">> ELSE <<>>)

\* Every axis group is asked for in full or not at all, and only if its
\* slave is present; otherwise an error with nothing changed.
ValidRequest(r) == \A g \in Groups : r[g] \in {0, 3} /\ (r[g] = 3 => g \in Slaves)

(* inv_set_mpu_sensors(r): the state guard and the argument checks return *)
(* with nothing changed (stutter steps, left out).  n of the calls        *)
(* succeed, the next one failing and returning.  The KEY_FCFG_2 write     *)
(* after the mode-change callback stores its result without testing it;  *)
(* the next call that assigns result (inv_dl_start, or the data-ready IRQ *)
(* configuration) overwrites it, else it is returned.  requested_sensors  *)
(* is assigned after the KEY_FCFG_2 write and before the DL calls.        *)
inv_set_mpu_sensors(r) ==
  /\ Rank[sstate] >= Rank["DMP_OPENED"]
  /\ ValidRequest(r)
  /\ LET calls == SensorCalls(r)
         pre == (IF TurningOn(r) THEN 2 ELSE 0) + (IF modeChangeCb THEN 1 ELSE 0)
     IN \E n \in Writes(Len(calls)) :
          LET Done(c) == \E i \in 1 .. n : calls[i] = c
              assigned == n >= pre
              fcfgWrite == assigned /\ "accel" \in Slaves /\ r.accel = 3
              resetDone == Cardinality({i \in 1 .. n : calls[i] \in
                                          {ResetWrites[j] : j \in 1 .. 4}})
              overwritten == sstate = "DMP_STARTED" \/ (~r.dmp /\ r.accel = 3)
          IN \E fw \in IF fcfgWrite THEN IoResults ELSE {"ok"} :
             /\ accelIrq' = CASE Done("irq_data_ready") -> "data_ready"
                                [] Done("irq_resume")     -> "none"
                                [] OTHER                  -> accelIrq
             /\ fcfg2' = IF fcfgWrite /\ fw = "ok" THEN AccelMode(r) ELSE fcfg2
             /\ requested' = IF assigned THEN r ELSE requested
             /\ running' = CASE Done("dl_stop")  -> On(r)
                               [] Done("dl_start") -> running \cup On(r)
                               [] OTHER            -> running
             /\ IF Done("dl_start")
                  THEN ResetMotion(resetDone, motionDuration, dmpDuration, durationErr)
                  ELSE UNCHANGED <<motion, motionFlag, dmpMotion, dmpDuration, durationErr>>
             /\ lastCall' = IF n < Len(calls) \/ (fcfgWrite /\ fw = "err" /\ ~overwritten)
                              THEN "err" ELSE "ok"
  /\ UNCHANGED <<sstate, modeChangeCb, biascalcSuspend, motionDuration>>

\* inv_reset_motion() called on its own (at start-up and resume).
inv_reset_motion ==
  /\ \E k \in Writes(4) : ResetMotion(k, motionDuration, dmpDuration, durationErr)
  /\ UNCHANGED <<sstate, requested, running, accelIrq, fcfg2, modeChangeCb,
                 biascalcSuspend, lastCall, motionDuration>>

\* inv_set_mode_change(func): store or clear the mode-change callback.
inv_set_mode_change(set) ==
  /\ modeChangeCb' = set
  /\ UNCHANGED <<sstate, requested, running, accelIrq, fcfg2, motion,
                 motionFlag, dmpMotion, biascalcSuspend, lastCall,
                 durationVars>>

\* inv_start_bias_calc() sets biascalc_suspend = 1, inv_stop_bias_calc()
\* sets it to 0.
inv_start_bias_calc ==
  /\ biascalcSuspend' = 1
  /\ UNCHANGED <<sstate, requested, running, accelIrq, fcfg2, modeChangeCb,
                 motion, motionFlag, dmpMotion, lastCall,
                 durationVars>>

inv_stop_bias_calc ==
  /\ biascalcSuspend' = 0
  /\ UNCHANGED <<sstate, requested, running, accelIrq, fcfg2, modeChangeCb,
                 motion, motionFlag, dmpMotion, lastCall,
                 durationVars>>

\* inv_check_flag(INV_MOTION_STATE_CHANGE): return the flag and clear it.
inv_check_flag ==
  /\ motionFlag # "clear"
  /\ motionFlag' = "clear"
  /\ UNCHANGED <<sstate, requested, running, accelIrq, fcfg2, modeChangeCb,
                 motion, dmpMotion, biascalcSuspend, lastCall,
                 durationVars>>

(* inv_dmp_open, inv_dmp_start, inv_dmp_stop and inv_dmp_close (outside   *)
(* the repository): a successful start turns on the requested sensors     *)
(* ("inv_dmp_start will turn the sensors on"), a stop turns the DL off.   *)
DmpOpen ==
  /\ sstate = "SERIAL_OPENED" /\ sstate' = "DMP_OPENED"
  /\ UNCHANGED <<requested, running, accelIrq, fcfg2, modeChangeCb, motion,
                 motionFlag, dmpMotion, biascalcSuspend, lastCall,
                 durationVars>>

DmpStart ==
  /\ sstate = "DMP_OPENED" /\ sstate' = "DMP_STARTED"
  /\ running' = On(requested)
  /\ lastCall' = "none"
  /\ UNCHANGED <<requested, accelIrq, fcfg2, modeChangeCb, motion,
                 motionFlag, dmpMotion, biascalcSuspend,
                 durationVars>>

DmpStop ==
  /\ sstate = "DMP_STARTED" /\ sstate' = "DMP_OPENED"
  /\ running' = {}
  /\ lastCall' = "none"
  /\ UNCHANGED <<requested, accelIrq, fcfg2, modeChangeCb, motion,
                 motionFlag, dmpMotion, biascalcSuspend,
                 durationVars>>

(* Mutant: the duration bytes are taken from motion_duration before it is *)
(* assigned.                                                              *)
NoMotionTimeOldRegs(tmp) ==
  /\ 0 <= tmp /\ tmp <= 65535
  /\ motionDuration' = tmp
  /\ \E w \in IoResults :
       IF w = "ok"
       THEN \E k \in Writes(4) :
              ResetMotion(k, tmp, DurationBytes(motionDuration), FALSE)
       ELSE /\ durationErr' = TRUE
            /\ UNCHANGED <<motion, motionFlag, dmpMotion, dmpDuration>>
  /\ UNCHANGED <<sstate, requested, running, accelIrq, fcfg2, modeChangeCb,
                 biascalcSuspend, lastCall>>

(* inv_set_no_motion_time(time), tmp = (long)(time * 200): out of          *)
(* 0 .. 65535 it returns an error with nothing changed (a stutter, left   *)
(* out).  motion_duration is assigned first; the KEY_D_1_106 write of its *)
(* two bytes may fail and return; then inv_reset_motion, whose first      *)
(* write is KEY_D_1_106 again.  No state is checked, whatever the @pre.   *)
inv_set_no_motion_time(tmp) ==
  /\ 0 <= tmp /\ tmp <= 65535
  /\ motionDuration' = tmp
  /\ \E w \in IoResults :
       IF w = "ok"
       THEN \E k \in Writes(4) :
              ResetMotion(k, tmp, DurationBytes(tmp), FALSE)
       ELSE /\ durationErr' = TRUE
            /\ UNCHANGED <<motion, motionFlag, dmpMotion, dmpDuration>>
  /\ UNCHANGED <<sstate, requested, running, accelIrq, fcfg2, modeChangeCb,
                 biascalcSuspend, lastCall>>

(* inv_set_no_motion_thresh(thresh): out of 0 .. 8180000 an error with     *)
(* nothing changed; a failed KEY_D_1_108 write returns with nothing       *)
(* modelled changed (the threshold word is read by no modelled code);     *)
(* after a successful one, inv_reset_motion.                              *)
inv_set_no_motion_thresh(tmp) ==
  /\ 0 <= tmp /\ tmp <= 8180000
  /\ \E k \in Writes(4) : ResetMotion(k, motionDuration, dmpDuration, durationErr)
  /\ UNCHANGED <<sstate, requested, running, accelIrq, fcfg2, modeChangeCb,
                 biascalcSuspend, lastCall, motionDuration>>

SensorsNext ==
  \/ \E r \in Requests : inv_set_mpu_sensors(r)
  \/ inv_reset_motion \/ inv_check_flag
  \/ \E set \in BOOLEAN : inv_set_mode_change(set)
  \/ inv_start_bias_calc \/ inv_stop_bias_calc
  \/ DmpOpen \/ DmpStart \/ DmpStop
  \/ \E tmp \in NoMotionTimes : inv_set_no_motion_time(tmp)
  \/ \E tmp \in NoMotionThreshs : inv_set_no_motion_thresh(tmp)

SensorsSpec == SensorsInit /\ [][SensorsNext]_sensorVars

----------------------------------------------------------------------------
(* Properties.                                                             *)
(***************************************************************************)

SensorsTypeOK ==
  /\ sstate \in DOMAIN Rank
  /\ requested \in Requests \cup {NoSensors}
  /\ running \subseteq Groups \cup {"dmp"}
  /\ accelIrq \in {"default", "none", "data_ready"}
  /\ fcfg2 \in {-1, 0, 1, 2} /\ modeChangeCb \in BOOLEAN
  /\ motion \in {"INV_MOTION", "INV_NO_MOTION"}
  /\ motionFlag \in {"clear", "INV_MOTION", "INV_NO_MOTION"}
  /\ dmpMotion \in {"stale", "partial", "reset"}
  /\ biascalcSuspend \in {0, 1} /\ lastCall \in {"none", "ok", "err"}
  /\ motionDuration \in 0 .. 65535 /\ durationErr \in BOOLEAN
  /\ dmpDuration \in [1 .. 2 -> 0 .. 255]

(* The accel interrupt follows the request across any sequence of calls,  *)
(* failed ones included: while the DMP processor is requested the accel's *)
(* IRQ is off (the DMP FIFO drives the interrupt), and after a call that  *)
(* succeeded with the accel requested without the DMP it is data-ready.   *)
(* It rests on the turn-on test reading requested_sensors before the      *)
(* call assigns it.                                                       *)
AccelIrqMatchesRequest ==
  /\ requested.dmp => accelIrq = "none"
  /\ (lastCall = "ok" /\ ~requested.dmp /\ requested.accel = 3)
       => accelIrq = "data_ready"

(* The DMP's no-motion duration word KEY_D_1_106, read as a big-endian    *)
(* 16-bit number, is inv_obj.lite_fusion->motion_duration, across any mix *)
(* of inv_set_no_motion_time, inv_set_no_motion_thresh, inv_reset_motion  *)
(* and inv_set_mpu_sensors calls, failed ones included; the only          *)
(* exception is after inv_set_no_motion_time assigned motion_duration and *)
(* reported the failure of its write, until a later KEY_D_1_106 write.    *)
DurationInDmp ==
  ~durationErr => dmpDuration[1] * 256 + dmpDuration[2] = motionDuration
=============================================================================
