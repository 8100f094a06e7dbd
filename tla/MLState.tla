------------------------------ MODULE MLState ------------------------------
(***************************************************************************)
(* The power-state side of the InvenSense motion library (mlsdk/mllite/    *)
(* ml.c): the state held in inv_params_obj, serial start and stop, the     *)
(* DMP interrupt sources, the features that keep a DMP setting in step     *)
(* with the compass through state callbacks (gyro dead zone, bias from     *)
(* LPF, bias from gravity), and inv_set_mpu_sensors() changing whether     *)
(* the compass is requested.                                               *)
(*                                                                         *)
(* The state machine itself (inv_state_transition, inv_run_state_callbacks *)
(* in mlstates.c) and the DMP open/start/stop calls are not part of the    *)
(* repository; they are modelled as their callers in ml.c rely on them: a *)
(* transition runs every registered state callback, and if one of them     *)
(* fails the transition reports an error and the state stays.  Every       *)
(* write to the device (serial open/close, DMP memory, the DL interrupt    *)
(* configuration, the callback list) succeeds or fails as IoResults        *)
(* allows.  A DMP setting is abstracted to "on", "off" or "high".          *)
(***************************************************************************)
EXTENDS Naturals, FiniteSets, Bitwise

CONSTANTS
  IoResults,              \* {"ok"} or {"ok", "err"}
  DMP_DR_KEY_SUPPORTED    \* inv_dmpkey_supported(KEY_CFG_DR_INT)

ASSUME /\ IoResults \subseteq {"ok", "err"} /\ "ok" \in IoResults
       /\ DMP_DR_KEY_SUPPORTED \in BOOLEAN

\* The INV_STATE_* values, in the order the code compares them.
INV_STATE_SERIAL_CLOSED == 0
INV_STATE_SERIAL_OPENED == 1
INV_STATE_DMP_OPENED    == 2
INV_STATE_DMP_STARTED   == 3
States == INV_STATE_SERIAL_CLOSED .. INV_STATE_DMP_STARTED

\* The interrupt_sources bits.
INV_INT_MOTION == 1
INV_INT_FIFO   == 2
INV_INT_DMP_DR == 4
AllSources == 7

\* The features whose state callbacks ml.c registers.
Features == {"DeadZone", "LPF", "Gravity"}
Settings == {"on", "off", "high"}

VARIABLES
  state,          \* inv_params_obj.state
  serialOpen,     \* g_mlsl_handle refers to an open serial port
  stateCbs,       \* the registered state callbacks, by feature
  setting,        \* the DMP setting of each feature (KEY_D_0_163,
                  \*   KEY_FCFG_5, the gyro data source)
  compass,        \* the compass is among the requested sensors
  sources,        \* inv_obj.sys->interrupt_sources
  dlInt,          \* the DL configuration has BIT_DMP_INT_EN set
  staleSensors,   \* ghost: the compass request changed while started
  unsynced        \* ghost: features whose last set/enable/disable call
                  \*   failed, or whose callback's last write failed

vars == <<state, serialOpen, stateCbs, setting, compass, sources, dlInt,
          staleSensors, unsynced>>

\* The setting a compass-checking feature should have: each of the three
\* is enabled exactly when no compass is present.
Track == IF compass THEN "off" ELSE "on"

\* The setting written for check_compass = cc: "!check_compass ||
\* !inv_compass_present()" selects the enabled value.
Checked(cc) == IF ~cc \/ ~compass THEN "on" ELSE "off"

\* Mutant: the dead zone callback acts on DMP_OPENED instead of STARTED.
DeadZoneOnOpen(new_state) == new_state = INV_STATE_DMP_OPENED

\* inv_dead_zone_CB and inv_bias_from_LPF_CB only write on DMP_STARTED.
inv_dead_zone_CB(new_state) == new_state = INV_STATE_DMP_STARTED
inv_bias_from_LPF_CB(new_state) == new_state = INV_STATE_DMP_STARTED
\* inv_bias_from_gravity_CB writes the data source on every transition.
inv_bias_from_gravity_CB(new_state) == TRUE

Acts(f, new_state) ==
  CASE f = "DeadZone" -> inv_dead_zone_CB(new_state)
    [] f = "LPF"      -> inv_bias_from_LPF_CB(new_state)
    [] f = "Gravity"  -> inv_bias_from_gravity_CB(new_state)

\* inv_state_transition(new_state) from state st with DMP settings set
\* (and unsynced features uns):
\* the possible outcomes as records [ok, state, setting, unsynced].  Each
\* acting callback writes Track, or fails and leaves its setting.
Transitions(new_state, st, set, uns) ==
  LET acting == {f \in stateCbs : Acts(f, new_state)}
  IN {[ok      |-> \A f \in acting : res[f] = "ok",
       state   |-> IF \A f \in acting : res[f] = "ok" THEN new_state ELSE st,
       setting |-> [f \in Features |->
                      IF f \in acting /\ res[f] = "ok" THEN Track ELSE set[f]],
       unsynced |-> (uns \ {f \in acting : res[f] = "ok"})
                      \cup {f \in acting : res[f] = "err"}]
      : res \in [acting -> IoResults]}

\* Take the outcome t of a transition.
Apply(t) == state' = t.state /\ setting' = t.setting /\ unsynced' = t.unsynced

\* The static initialiser of inv_params_obj; device memory and the
\* requested sensors are whatever the device holds.
Init ==
  /\ state = INV_STATE_SERIAL_CLOSED
  /\ serialOpen = FALSE
  /\ stateCbs = {}
  /\ setting \in [Features -> Settings]
  /\ compass \in BOOLEAN
  /\ sources = 0
  /\ dlInt = FALSE
  /\ staleSensors = FALSE
  /\ unsynced = {}

----------------------------------------------------------------------------
(* Serial start and stop.                                                  *)
(***************************************************************************)

\* inv_serial_start(): return at once if the state is SERIAL_OPENED or
\* beyond; else transition to SERIAL_OPENED, open the port, and on a failed
\* open transition back to SERIAL_CLOSED, ignoring that result.
inv_serial_start ==
  /\ state < INV_STATE_SERIAL_OPENED
  /\ \E t1 \in Transitions(INV_STATE_SERIAL_OPENED, state, setting, unsynced),
        open \in IoResults :
       \/ /\ ~t1.ok
          /\ Apply(t1) /\ UNCHANGED serialOpen
       \/ /\ t1.ok /\ open = "ok"
          /\ Apply(t1) /\ serialOpen' = TRUE
       \/ /\ t1.ok /\ open = "err"
          /\ \E t2 \in Transitions(INV_STATE_SERIAL_CLOSED, t1.state,
                                   t1.setting, t1.unsynced) : Apply(t2)
          /\ UNCHANGED serialOpen
  /\ UNCHANGED <<stateCbs, compass, sources, dlInt, staleSensors>>

\* inv_serial_stop(): return if SERIAL_CLOSED; else transition to
\* SERIAL_CLOSED, log a failure, and close the port regardless.
inv_serial_stop ==
  /\ state # INV_STATE_SERIAL_CLOSED
  /\ \E t \in Transitions(INV_STATE_SERIAL_CLOSED, state, setting, unsynced),
        close \in IoResults :
       /\ Apply(t)
       /\ serialOpen' = (serialOpen /\ close = "err")
  /\ UNCHANGED <<stateCbs, compass, sources, dlInt, staleSensors>>

----------------------------------------------------------------------------
(* The callers of the state machine outside ml.c: inv_dmp_open,            *)
(* inv_dmp_start and inv_dmp_stop, reduced to their transition.            *)
(***************************************************************************)

DmpTransition(from, to) ==
  /\ state = from
  /\ \E t \in Transitions(to, state, setting, unsynced) :
       /\ Apply(t)
       /\ staleSensors' = IF t.ok /\ to = INV_STATE_DMP_STARTED
                            THEN FALSE ELSE staleSensors
  /\ UNCHANGED <<serialOpen, stateCbs, compass, sources, dlInt>>

DmpOpen  == DmpTransition(INV_STATE_SERIAL_OPENED, INV_STATE_DMP_OPENED)
DmpStart == DmpTransition(INV_STATE_DMP_OPENED, INV_STATE_DMP_STARTED)
DmpStop  == DmpTransition(INV_STATE_DMP_STARTED, INV_STATE_DMP_OPENED)

----------------------------------------------------------------------------
(* DMP interrupt sources.                                                  *)
(***************************************************************************)

\* Mutant: interrupt_sources |= bit written as += bit.
SetInterruptAdd(bit, on) ==
  /\ state >= INV_STATE_DMP_OPENED
  /\ \E cfg \in IoResults :
       IF on
       THEN /\ cfg = "ok"
            /\ dlInt' = TRUE /\ sources' = sources + bit
       ELSE LET rest == sources - (sources & bit)
            IN /\ sources' = rest
               /\ dlInt' = IF rest = 0 /\ cfg = "ok" THEN FALSE ELSE dlInt
  /\ UNCHANGED <<state, serialOpen, stateCbs, setting, compass, staleSensors,
                 unsynced>>

\* Mutant: the "if (!interrupt_sources)" test is dropped.
SetInterruptAlwaysClear(bit, on) ==
  /\ state >= INV_STATE_DMP_OPENED
  /\ \E cfg \in IoResults :
       IF on
       THEN /\ cfg = "ok"
            /\ dlInt' = TRUE /\ sources' = sources | bit
       ELSE LET rest == sources - (sources & bit)
            IN /\ sources' = rest
               /\ dlInt' = IF cfg = "ok" THEN FALSE ELSE dlInt
  /\ UNCHANGED <<state, serialOpen, stateCbs, setting, compass, staleSensors,
                 unsynced>>

\* The body shared by inv_set_motion_interrupt, inv_set_fifo_interrupt and
\* inv_set_dmp_dr_interrupt: refuse before DMP_OPENED; on: enable the DL
\* interrupt, and only if that worked add the source; off: remove the
\* source and, if none is left, disable the DL interrupt.  The trailing
\* DMP memory write changes nothing modelled.  A failed enable is a
\* stutter step.
SetInterrupt(bit, on) ==
  /\ state >= INV_STATE_DMP_OPENED
  /\ \E cfg \in IoResults :
       IF on
       THEN /\ cfg = "ok"
            /\ dlInt' = TRUE /\ sources' = sources | bit
       ELSE LET rest == sources - (sources & bit)
            IN /\ sources' = rest
               /\ dlInt' = IF rest = 0 /\ cfg = "ok" THEN FALSE ELSE dlInt
  /\ UNCHANGED <<state, serialOpen, stateCbs, setting, compass, staleSensors,
                 unsynced>>

inv_set_motion_interrupt(on) == SetInterrupt(INV_INT_MOTION, on)
inv_set_fifo_interrupt(on) == SetInterrupt(INV_INT_FIFO, on)
inv_set_dmp_dr_interrupt(on) ==
  DMP_DR_KEY_SUPPORTED /\ SetInterrupt(INV_INT_DMP_DR, on)

----------------------------------------------------------------------------
(* Features kept in step with the compass by a state callback.             *)
(***************************************************************************)

\* Register (want) or unregister (~want) the callback of f if it is not
\* already so; the call, when made, may fail.  The outcome is whether the
\* function may go on.
Registration(f, want, res) ==
  IF want = (f \in stateCbs) THEN TRUE ELSE res = "ok"

Registered(f, want) == IF want THEN stateCbs \cup {f} ELSE stateCbs \ {f}

\* inv_set_dead_zone_*, inv_enable/disable_bias_from_LPF: check the
\* callback, register or unregister it (return on error), then write the
\* DMP setting (return on error).
RegisterThenWrite(f, want, val) ==
  /\ \E reg \in IoResults, mem \in IoResults :
       LET go == Registration(f, want, reg)
       IN /\ stateCbs' = IF go THEN Registered(f, want) ELSE stateCbs
          /\ setting' = IF go /\ mem = "ok"
                          THEN [setting EXCEPT ![f] = val] ELSE setting
          /\ unsynced' = IF go /\ mem = "ok" THEN unsynced \ {f}
                                            ELSE unsynced \cup {f}
  /\ UNCHANGED <<state, serialOpen, compass, sources, dlInt, staleSensors>>

\* inv_enable/disable_bias_from_gravity: write the gyro data source first
\* (return on error), then register or unregister the callback.
WriteThenRegister(f, want, val) ==
  /\ \E mem \in IoResults, reg \in IoResults :
       /\ setting' = IF mem = "ok" THEN [setting EXCEPT ![f] = val]
                                   ELSE setting
       /\ unsynced' = IF mem = "ok" /\ Registration(f, want, reg)
                         THEN unsynced \ {f} ELSE unsynced \cup {f}
       /\ stateCbs' = IF mem = "ok" /\ Registration(f, want, reg)
                        THEN Registered(f, want) ELSE stateCbs
  /\ UNCHANGED <<state, serialOpen, compass, sources, dlInt, staleSensors>>

inv_set_dead_zone_high == RegisterThenWrite("DeadZone", FALSE, "high")
inv_set_dead_zone_zero == RegisterThenWrite("DeadZone", FALSE, "off")
inv_set_dead_zone_normal(cc) == RegisterThenWrite("DeadZone", cc, Checked(cc))
inv_disable_bias_from_LPF == RegisterThenWrite("LPF", FALSE, "off")
inv_enable_bias_from_LPF(cc) == RegisterThenWrite("LPF", cc, Checked(cc))
inv_enable_bias_from_gravity(cc) == WriteThenRegister("Gravity", cc, Checked(cc))
inv_disable_bias_from_gravity == WriteThenRegister("Gravity", FALSE, "off")

----------------------------------------------------------------------------
(* Sensors.                                                                *)
(***************************************************************************)

\* inv_set_mpu_sensors(sensors): refuse before DMP_OPENED; the checks and
\* device configuration before "requested_sensors = sensors" return with
\* nothing changed (stutter steps); after it the compass request is the
\* new one whatever inv_dl_start and inv_reset_motion return.  No state
\* transition happens, so no state callback runs.
inv_set_mpu_sensors(c) ==
  /\ state >= INV_STATE_DMP_OPENED
  /\ compass' = c
  /\ staleSensors' = (staleSensors \/
                       (state = INV_STATE_DMP_STARTED /\ c # compass))
  /\ UNCHANGED <<state, serialOpen, stateCbs, setting, sources, dlInt,
                 unsynced>>

----------------------------------------------------------------------------
Next ==
  \/ inv_serial_start \/ inv_serial_stop
  \/ DmpOpen \/ DmpStart \/ DmpStop
  \/ \E on \in BOOLEAN :
       \/ inv_set_motion_interrupt(on)
       \/ inv_set_fifo_interrupt(on)
       \/ inv_set_dmp_dr_interrupt(on)
  \/ inv_set_dead_zone_high \/ inv_set_dead_zone_zero
  \/ inv_disable_bias_from_LPF \/ inv_disable_bias_from_gravity
  \/ \E cc \in BOOLEAN :
       \/ inv_set_dead_zone_normal(cc)
       \/ inv_enable_bias_from_LPF(cc)
       \/ inv_enable_bias_from_gravity(cc)
  \/ \E c \in BOOLEAN : inv_set_mpu_sensors(c)

Spec == Init /\ [][Next]_vars

----------------------------------------------------------------------------
(* Properties.                                                             *)
(***************************************************************************)

TypeOK ==
  /\ state \in States
  /\ serialOpen \in BOOLEAN
  /\ stateCbs \subseteq Features
  /\ setting \in [Features -> Settings]
  /\ compass \in BOOLEAN
  /\ sources \in 0 .. AllSources
  /\ dlInt \in BOOLEAN
  /\ staleSensors \in BOOLEAN
  /\ unsynced \subseteq Features

(* While any interrupt source is enabled, the DL interrupt is enabled:    *)
(* the three setters enable it before adding a source and disable it only *)
(* when the last source is removed, whatever writes fail.                  *)
InterruptLineServesSources ==
  sources # 0 => dlInt

(* inv_serial_start() returns INV_SUCCESS without opening anything once   *)
(* the state is SERIAL_OPENED or beyond, so whenever the state says so    *)
(* the serial port must be open.                                          *)
SerialHandleMatchesState ==
  state >= INV_STATE_SERIAL_OPENED => serialOpen

(* Once the DMP has started, each feature configured with check_compass = *)
(* 1 (its callback registered) has the setting its documentation promises *)
(* for the current compass request: enabled exactly when no compass is    *)
(* present.  The enable functions write it, the callbacks rewrite it when *)
(* the DMP starts.  Device writes may fail: a feature whose last call     *)
(* reported an error to its caller, or whose callback failed, is exempt   *)
(* until it is set again.  Restricted to runs where the compass request has not changed   *)
(* since the DMP started.                                                 *)
CheckedFeaturesTrackCompass ==
  (state = INV_STATE_DMP_STARTED /\ ~staleSensors) =>
    \A f \in stateCbs \ unsynced : setting[f] = Track
=============================================================================
