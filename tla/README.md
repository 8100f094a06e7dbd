# TLA+ models of android_vendor

This directory holds TLA+ models of the parts of this vendor tree that have
control state: the gator daemon's segmented ring buffer; the InvenSense
motion library's callback registry, power state, interrupt sources,
compass-dependent features, orientation/calibration encodings and self-test
configuration; and the two JNI bridges to the sensor service. Each model is checked with TLC. `PROJECT.json`
lists the components, runs, mutants, source map, findings and hazards.

## 1. Inventory

| Part | Source | State | Operations | Hard behaviour |
|---|---|---|---|---|
| gator `Fifo` | `src/arm/gator-daemon/Fifo.h` (declaration only; behaviour from `spec.md`) | `mWrite`, `mRead`, `mReadCommit`, `mRaggedEnd`, `mEnd`, semaphores `mWaitForSpaceSem`, `*mReaderSem`, arena | `write`, `release`, `read`, end flag, queries | one producer and one consumer thread; the ragged-end wrap costs an extra permit; the consumer uses bytes after `read` has returned their permit |
| DMP interrupt callback registry | `ml.c` 88-101, 329-388, 497-539 | `mlxCallbackInterrupt` (count and array) | register, unregister, run (from `inv_update_data`) | an application thread unregisters, shifting the array, while the sensor thread iterates it, with no lock (FIXME at line 363) |
| MPL power state and serial port | `ml.c` 76-82, 126-172 | `inv_params_obj.state`, `g_mlsl_handle` | `inv_serial_start`, `inv_serial_stop` | every transition runs the state callbacks, which write to the device and can fail; both functions ignore or only log a failed transition |
| DMP interrupt sources | `ml.c` 585-753 | `interrupt_sources`, the DL interrupt enable | three setters, one getter | the enable/disable of the DL interrupt and the source mask are updated in two steps, either of which can fail |
| Compass-dependent features | `ml.c` 1123-1551 | the callback list; DMP settings for dead zone, LPF bias and gyro data source | seven set/enable/disable functions, three state callbacks | a setting depends on the compass but is refreshed only on state transitions |
| Sensor selection | `ml.c` 1958-2110 | `requested_sensors`, the accel IRQ mode, `KEY_FCFG_2`, the sensors the DL runs | `inv_set_mpu_sensors`, `inv_set_mode_change` | up to ten device calls, each able to fail and return; the request is recorded part way; the compass request changes while the DMP runs with no transition |
| Update and motion reset | `ml.c` 393-576, 1590-1693 | interrupt triggers, motion state and flag, `biascalc_suspend`, `motion_duration` | `inv_update_data`, `inv_reset_motion`, bias calc switches, `inv_check_flag`, no-motion time and threshold setters | the interrupt handler can set a trigger between `inv_update_data`'s read and its clear |
| Orientation and calibration | `ml.c` 185-281, 755-1112, 1728-1945, 2115-2173 | calibration matrices, orientation scalars | pure computations plus DMP writes | bit-field encodings of signed permutation matrices; 6-bit sign extension |
| JNI bridges | `jni/*.cpp` | a static binder per library | SWIG wrappers, `JNI_OnLoad` | a lazily initialised static is shared by JNI threads; an early return after pinning an array |
| Light/pressure HAL, headers | `libsensors/*.cpp`, `gesture.h`, `log.h` | none worth modelling | constructors, one-line conversions | none |

How the parts interact:
- The ring buffer stands alone. The gator producer and consumer threads are its only users.
- In the motion library, the application thread calls the registry, feature and interrupt functions and `inv_set_mpu_sensors`. A sensor thread calls `inv_update_data`, which reads and clears the triggers set by the interrupt handler and, after an MPU interrupt, runs the interrupt callbacks.
- Power-state transitions run the state callbacks registered by the feature functions.

## 2. Modules

### FifoChannel: what the Fifo promises
A bounded FIFO channel of records, of capacity `Capacity`:
- `Commit(r)` adds a record, and is refused once the stream is closed;
- `Take` removes the oldest record, and is weakly fair;
- `Close` ends the stream.

### Fifo, MCFifo, MCFifoTwoSegments
Only the class declaration of `Fifo` is in the repository, so its operations are modelled from `spec.md`. They are marked `spec_modelled` in the map.

Variables:
- the cursors and the end flag, from `Fifo.h` line 28;
- the two semaphores;
- the committed records `frames`;
- a ghost `arena` that records which record wrote each byte;
- the program counters of the producer and the consumer;
- ghost logs of the records produced and delivered.

Actions:

| Action | What it models |
|---|---|
| `AcquireSpace` | the wait on the space semaphore |
| `write(len)` | writes in place, or moves to `wrapWait` when `len` does not fit before the threshold |
| `WriteWrap` | the ragged-end policy: take a second permit, mark the tail ragged, grant at 0 |
| `release` | commits and posts the reader semaphore |
| `EndStream` | sets the end flag |
| `WaitReaderSem`, `read`, `Consume` | the consumer. `read` skips a ragged tail, returns 1 permit (2 when it skipped one), and hands out the bytes that `Consume` later uses |

`Chan == INSTANCE FifoChannel WITH queue <- ids of frames, closed <- mEnd, Capacity <- Segments - 1` is the refinement mapping. `ImplementsChannel` checks it.

The Fifo initialisation gives `Segments - 1` permits, keeping one segment as slack as spec.md section 3 requires.

### MLCallbacks, MCMLCallbacks
The callback registry:
- Variables: `numInterruptProcesses` and `processInterruptCb`, as in the code.
- `inv_register_dmp_interupt_cb` is one step. It writes the slot before the count, so the sensor thread cannot see a half-added entry.
- `inv_unregister_dmp_interupt_cb` finds the entry. After that, `UnregisterShift` performs one iteration of the shift loop per step, then the decrement.
- `inv_update_data` is the sensor thread, one trigger access per step:
  - `inv_update_data` itself is the entry once the state guard and `inv_read_and_process_fifo` have passed. Its early returns change nothing.
  - `UpdateTriggers` reads the AUX1 trigger (`ReadTrigger`), clears it if it was set (`ClearTrigger`), then does the same for the MPU trigger.
  - `inv_run_dmp_interupt_cb` starts the run if the MPU trigger was read set, and `NoCallbacks` skips it otherwise. `RunTest` is the loop test. The body reads slot `kk` twice, as the code does: `RunCall` tests it for NULL and `RunInvoke` calls what it holds by then.
  - `inv_get_fifo_status` returns to idle.
- `Interrupt(src)` is the interrupt handler, which lives outside the repository. It sets a trigger between any two steps.
- Ghost variables:
  - `registered`: what callers were told;
  - `stable`: the callbacks registered throughout the current run;
  - `calls`: the calls made, in order;
  - `overlapped`: an unregister ran during the current run;
  - `pending`: an MPU interrupt arrived after the last run began.
- `unregFunc` is unregister's parameter `func`, kept while the shift runs and NULL otherwise.
- `FairSpec` adds the fairness described under "Fairness" below, for the liveness property `InterruptServed`.
- `CallbackRegistry` is the abstract specification. It is a set `cbs` of at most `Capacity` callbacks, and a variable `unregistering` that holds the callback whose unregister call is in progress.
  - `Register(f)` adds an absent callback when there is room, in one step.
  - `BeginUnregister(f)` starts the call for a present callback and leaves the set unchanged.
  - `EndUnregister` removes exactly that callback.
- `Registry == INSTANCE CallbackRegistry WITH cbs <- LiveCallbacks, unregistering <- (unregFunc while shifting, else NULL), ...` is the refinement mapping. While a shift is under way, `LiveCallbacks` is the table's first `numInterruptProcesses` entries plus `unregFunc`, which the first shift step may already have overwritten. Otherwise it is just those entries.
- `ImplementsRegistry` checks that unregister's find step and every shift step leave that set unchanged, even interleaved with the sensor thread, and that the decrement removes exactly `func`. A shift that copies in the wrong direction loses one callback and revives another. That mutant breaks the property.

### MLSensors, MCMLSensors
Sensor selection, motion reset and the no-motion settings (`ml.c` 393-576, 1590-1693, 1958-2110).
- Variables:
  - `sstate`: the power state;
  - `requested`: `requested_sensors`, with each group at 0, 1 (a partial mask) or 3 axes, plus the DMP bit;
  - `running`: the sensors the DL runs;
  - `accelIrq`: the accel slave's IRQ mode;
  - `fcfg2`: the `inv_mpu6050_accel` mode last written to `KEY_FCFG_2`;
  - `modeChangeCb`;
  - `motion` and `motionFlag`: the motion state and its change flag;
  - `dmpMotion`: how far the motion words were rewritten;
  - `biascalcSuspend`;
  - `motionDuration` and `dmpDuration`: `lite_fusion->motion_duration` and the two bytes of `KEY_D_1_106`.
- `inv_set_mpu_sensors(r)` is one action for the whole function:
  - The state guard and the per-group argument checks (`ValidRequest`) return with nothing changed.
  - `SensorCalls(r)` is the sequence of calls that can fail and return. It depends on the request and the state:
    - the ODR and IRQ resume when the DMP turns on;
    - the mode-change callback;
    - `inv_dl_start`, the four `inv_reset_motion` writes and `inv_dl_stop` while started;
    - the data-ready IRQ.
  - `\E n` picks how many of those calls succeed.
  - `requested_sensors` is assigned only if the calls before it succeeded.
  - The `KEY_FCFG_2` write's result is kept only when no later call overwrites it, as in the code.
- `inv_reset_motion`, `inv_set_mode_change`, `inv_start_bias_calc`, `inv_stop_bias_calc` and `inv_check_flag` are one action each.
- `DmpOpen`, `DmpStart` and `DmpStop` are the DMP calls outside the repository. A start turns the requested sensors on, as the comment at line 2061 says.
- The ghost `lastCall` is what the last `inv_set_mpu_sensors` since the last start or stop returned.
- `inv_set_no_motion_time(tmp)` assigns `motion_duration` and then writes its two bytes (`DurationBytes`), which may fail and return. `inv_reset_motion` follows, and its first write is `KEY_D_1_106` again, from `motion_duration`. `ResetMotion(k, d, word, err)` takes that duration.
- `inv_set_no_motion_thresh(tmp)` writes `KEY_D_1_108`, whose value is not kept, then calls `inv_reset_motion`.
- Both take the converted `tmp` as input, values on both sides of the range check included. Out-of-range values return with nothing changed.
- The ghost `durationErr` marks a reported failure of `inv_set_no_motion_time`'s own write. It is cleared by the next write of the key.
- `inv_set_no_motion_threshAccel` is not modelled: it sets two `lite_fusion` fields that no code in the repository reads.

### MLState
The power state and everything it drives:
- `state` ranges over the `INV_STATE_*` values in the order the code compares them. `serialOpen` says whether the port is open. `stateCbs` is the set of registered state callbacks.
- `setting` holds the DMP setting of each feature: on, off or high.
- `compass` is the compass request, `sources` is the `interrupt_sources` bit mask (using `Bitwise`), and `dlInt` is the DL interrupt enable.

`inv_state_transition` and `inv_run_state_callbacks` live in `mlstates.c`, which is not in the repository. `Transitions(new, st, set, uns)` models them as `ml.c` relies on them:
- every registered callback that acts on `new` writes the setting for the current compass;
- if any callback fails, the transition returns an error and the state stays where it was.

`inv_serial_start` and `inv_serial_stop` are single actions with every result of their transitions and port calls.

`DmpOpen`, `DmpStart` and `DmpStop` stand for the DMP calls outside the repository, reduced to their transition.

The remaining actions:
- `SetInterrupt(bit, on)` is the shared body of the three interrupt setters.
- `RegisterThenWrite` covers the dead-zone and LPF functions: register or unregister, then write.
- `WriteThenRegister` covers the gravity functions: write, then register or unregister.
- `inv_set_mpu_sensors(c)` is the function's effect on the compass request (line 2059), with no transition. `MLSensors` models the rest of the function.

Every device write may fail when the constant `IoResults` is `{"ok", "err"}`. A failed call that changes nothing is a stutter step and is left out.

The ghost `unsynced` holds the features whose last set, enable or disable call, or whose callback's last write, reported an error. The caller was told of the failure, so `CheckedFeaturesTrackCompass` exempts those features until they are set again.

### MLCalibration, MCMLCalibration
Orientation encoding and the calibration derived from it (`ml.c` 185-281, 755-1112, 1728-1945):
- `inv_row_2_scale` and `inv_orientation_matrix_to_scalar` are operators over signed permutation matrices. `VarCal` is the shared body of `inv_gyro_var_cal` and `inv_accel_var_cal`; the two differ only in the bit each reads for the sign of row 1.
- `GyroFcfg1`/`GyroFcfg3` and `AccelFcfg2`/`AccelFcfg7` are the DMP axis and sign words of `inv_gyro_dmp_cal` and `inv_accel_dmp_cal`. Register words are model values named after the DINA constants.
- Actions: `inv_set_accel_mounting(m)`, the two variable calibrations, the two DMP calibrations, and `inv_apply_calibration` (gyro orient, gyro DMP cal, gyro var cal, accel orient, accel DMP cal, accel var cal, returning at the first failure).
- `Writes(n)` is the number of DMP writes of a call that succeed before one fails.
- Ghosts: the mounting each scalar, matrix and DMP field was computed for. The properties compare each value with the value its ghost predicts.
- Sensitivities are taken as 1, so a calibration matrix is its sign pattern.
- `inv_mpu6050_accel(orient, mode)` (`ml.c` 755-818) is an operator giving the six KEY_FCFG_2 opcodes for an MPU-6050 accel. `Mpu6050ProgramSelectsRows` compares it, for all 48 signed permutations (`SignedPerms`, built with `Permutations`) and modes 0-2, with `AccelProgramOf`. That reference is a `RECURSIVE` definition: per row, a bank opcode when the row's axis is in another DMP bank than the previous row's, then the axis opcode, padded with DINA90+7. The property also checks the state: when `inv_accel_dmp_cal` last wrote KEY_FCFG_2 for the platform accel mounting, mode 0 of `inv_mpu6050_accel` agrees with it. `inv_set_mpu_sensors` writes the same key from that mounting.
- `FreescaleCase(orient)` is the switch key of `inv_freescale_sensor_fusion_16bit`/`_8bit` (`inv_accel_orient & 0xdb`, default 0x88). `FusionCaseIsPermutation` checks that, for every signed permutation, it is the code of the mounting's unsigned axis permutation (`PermCode`). It also checks this for the current `inv_accel_orient` and the mounting that orient was set from. The two functions' DMP writes are not state of the model: nothing in the repository calls them, and nothing modelled reads those keys.
- `inv_freescale_sensor_fusion_8bit(orient)` is the opcode sequence the function writes to `KEY_FCFG_FSCALE`: `FscaleHead`, then the case section `FscaleSection(FreescaleCase(orient))`, then `FscaleTail`. Each case section has two single opcodes and a run of eight (`Run8`). Its length is the final `kk`. `FscaleProgramFitsRegs` checks that, for every signed permutation, the length equals the size of `regs[27]`, since `regs[kk++]` has no bound check. It also checks that each section puts its run in the slot of the row that the mounting reads from chip axis Y.
- `inv_set_compass_calibration(m)` is a public call and also the last step of `inv_apply_calibration` (the compass slave is configured; the platform's compass mounting is `CompassMount`). It sets `calCompass` (calmat->compass / 2^30, scale taken as 1) and then attempts all nine `KEY_CPASS_MTX` words. `dmpCompass` holds their first bytes (64, 192 or 0). A failing write leaves its word as it was: `CompassFailures` is none, the last, or the first. The summed errors decide `compassCall`, a ghost holding the last call's result.

### MLSelfTest, MCMLSelfTest
`inv_set_mpu_6050_config` (`ml.c` 2115-2173) reads four self-test bytes, then writes ACT0 and the three ACS words. The ACS words are rotated by the gyro mounting. Ghosts record the bytes each word was computed from.

### JNIBinder, MCJNIBinder
Both JNI bridges (`jni/invensense_hardware_mpljni.cpp`, `..._pedjni.cpp`):
- Each library has a static binder (`binder`), created lazily by `get_sysapi_binder` / `get_sysped_binder` with no lock.
- A Java thread runs a native method as the steps `SWIG_JavaArrayIn` (pin and copy, for array methods), `BinderTest`, `Lookup` (getService loop, then `create*Connection`, whose result may be NULL), `Recheck` and `WrapperCall` (the binder call, copy-back, unpin and delete, or the early `return false` on a NULL binder).
- `JNI_OnLoad(l)` registers the natives or fails.
- Ghosts: `created` counts connections; `leaked` is set when a wrapper returns still holding a pin or a copy.

## 3. Runs

| Run | Checks | Result |
|---|---|---|
| `fifo_core` (`MCFifo.cfg`: total 6, segment 2, lengths {1,2}, 7 records) | `TypeOK`, `NoOverrun`, `DeliveredInOrder`, `EmptyMeansDrained`, `WriteCompletes`, `EndDrains`, `ImplementsChannel` | pass, 16 469 states |
| `fifo_two_segments` (total 4, segment 2) | `WriteCompletes` | violation: the wrap needs a second permit that never exists |
| `callbacks` (3 callbacks, capacity 2, two interrupt sources, `FairSpec`, no symmetry because a liveness property is checked) | `TypeOK`, `RegistryMatchesCallers`, `QuietRunCallsEachOnce`, `InterruptNotLost`, `InterruptServed`, `ImplementsRegistry` | pass, 134 921 states |
| `callbacks_race` | `RunCallsEachOnce` | violation: unregistering f1 during a run skips f2 |
| `mlstate` (writes may fail) | `TypeOK`, `InterruptLineServesSources`, `CheckedFeaturesTrackCompass` | pass, 294 516 states |
| `serial_state` (writes may fail) | `SerialHandleMatchesState` | violation: the state says SERIAL_OPENED with no port open |
| `calibration` (5 platform mountings, 2 accel mountings, writes may fail) | `TypeOK`, `OrientationRoundTrip`, `GyroCalIsMounting`, `DmpConfigIsMounting`, `Mpu6050ProgramSelectsRows`, `FusionCaseIsPermutation`, `CompassDmpMatchesCal`, `FscaleProgramFitsRegs` | pass, 264 510 states, about 2.5 minutes |
| `accel_calibration` | `AccelCalIsMounting` | violation: a mounting whose first two rows differ in sign gives a wrong accel matrix |
| `selftest_axes` (bytes 31, 32, 97) | `SelfTestSignExtended` | violation: the axis field 32 (-32) is written as +32 |
| `sensors` (6 valid requests, a partial one and one without its slave, calls may fail) | `SensorsTypeOK`, `AccelIrqMatchesRequest`, `DurationInDmp` | pass, 46 944 states, about 100 s |
| `jni` (2 threads, service returns a connection) | `TypeOK` (its bound on `created`: only the threads racing a first call create a connection) | pass, 2 671 states |
| `jni_null_service` (service may return NULL) | `NoLeakOnReturn` | violation: an array wrapper returns with the array pinned and its copy leaked |

Each property of a passing run is also checked against a mutant of the code it is about (`PROJECT.json`, "mutants"), and TLC finds each mutant violating it.

### Bounds, and why they are enough
- **Fifo.** Three segments is the smallest arena where a wrap and a ragged skip happen with a record still unread. Lengths 1 and 2 give both a full and a ragged fit, and seven records wrap the arena more than twice.
- **Callback registry.** Three callbacks with capacity two reach full, duplicate and not-found refusals, and a shift that moves an entry under the run loop. Both trigger sources and the handler firing at every step let an interrupt arrive between any read and clear.
- **MLSensors.** The accel and compass slaves, each on or off, with and without the DMP, give every call sequence `inv_set_mpu_sensors` can make: DMP turn-on, DL restart, data-ready IRQ. Any prefix of the calls can succeed. The two refused requests exercise the argument checks. Pressure has no slave in this platform, so it only appears refused. The no-motion times are -1, 258 and 65536 ticks: one accepted value with two distinct non-zero bytes, and one refused value on each side of the range. The thresholds are 8180000 and 8180001, the accepted bound and the first refused value.
- **MLState.** It is finite: four states, three features, three interrupt bits. Every reachable combination is explored.
- **MLCalibration.** The five platform mountings put every signed axis in some row, and include rows 0 and 1 of opposite sign (the case the row-1 sign bit gets wrong). Two accel mountings for `inv_set_accel_mounting` still let the accel orient disagree with the platform data. The compass mounting is a turn about X, so both the regp and the regn words occur. The identity is the second matrix an application may pass, so a failed write can leave a word of one matrix beside the words of the other. The two constant properties range over all 48 signed permutations, not only over the model's mountings.
- **MLSelfTest.** The bytes 31, 32 and 97 sit on both sides of the 6-bit sign boundary, and 97 has upper bits set that the mask must drop.
- **JNIBinder.** Two threads are enough for two first calls to race. Three method kinds (MPL scalar, MPL array, pedometer) cover every wrapper shape.

### Fairness
- Fifo: weak fairness on the producer's steps once it holds a permit or is writing, and on the consumer's steps. A thread blocked on a semaphore is scheduled once the semaphore is posted.
- `AcquireSpace` and `EndStream` are not fair, because starting a write and ending the stream are the producer's own choice.
- JNIBinder: no fairness, because only safety is checked. Whether a native method returns depends only on the getService retry loop, which ends when the sensor service answers. That service is outside the repository, so a liveness property would hold only by the fairness assumed for it.
- MLCallbacks (`FairSpec`, run `callbacks`) has two fairness conditions:
  - Weak fairness on the steps of `inv_update_data` once it has been entered (`SensorStep`), since nothing in it blocks.
  - Weak fairness on entering `inv_update_data` while an MPU interrupt is pending. The interrupt exists to make the sensor loop call it, but that loop is in the HAL, outside the repository, so this is an assumption about the caller.
  - The application thread's calls and the interrupt handler are not fair.
  - `InterruptServed` holds under these conditions.
- The other motion-library modules are checked for safety only. Nothing in the repository makes their application-thread calls happen.

## 4. Findings
1. **Two-segment Fifo** (spec gap). With `totalBufferSize = 2 * singleBufferSize`, a wrapping producer blocks for ever.
2. **Callback race** (`ml.c:363`, code bug). Unregister shifts the table under a running loop, and a callback that stayed registered is skipped.
3. **Serial state** (`ml.c:142`, `ml.c:163`, code bug). A failed transition is ignored or only logged, so the state and the port disagree. From then on, `inv_serial_start` reports success without opening a port.
4. **Accel calibration sign** (`ml.c:920`, code bug). `inv_accel_var_cal` tests bit 4 for row 1's sign where `inv_gyro_var_cal` tests bit 32. A mounting whose first two rows differ in sign gives a wrong matrix. The DMP configuration of the same mounting is right.
5. **Self-test sign extension** (`ml.c:2146`, code bug). The axis fields use `> 32` where the temperature field uses `>= 32`, so -32 is written as +32.
6. **JNI leak on a NULL binder** (`invensense_hardware_mpljni.cpp:912`, code bug). An array wrapper pins the Java array and allocates a copy before fetching the binder, then `return false` skips the release and the delete.

Two more disagreements are recorded as hazards in `PROJECT.json` rather than as runs:
- **Stale compass settings** (`ml.c:2059`). `inv_set_mpu_sensors` changes the compass request while the DMP runs, and no state callback refreshes the dead zone, LPF bias or gyro data source. `CheckedFeaturesTrackCompass` holds only up to such a change (the ghost `staleSensors`); TLC breaks it at once without that restriction.
- **Ignored `KEY_FCFG_2` result** (`ml.c:2046`, code bug). The write of the accel program stores its result in `result` without testing it. `inv_dl_start`, or the data-ready IRQ configuration, overwrites `result`, so the caller is told success while the DMP keeps the previous accel program. Against the statement that a successful call with the accel requested leaves that request's mode in `KEY_FCFG_2`, TLC finds this in 4 steps: `inv_dmp_open`, then `inv_set_mpu_sensors(accel)` whose `KEY_FCFG_2` write fails and whose IRQ call succeeds.

The unlocked lazy initialisation of the static binder (`mpljni.cpp:54`) lets two first calls both create a connection. It is listed as a hazard, not a run: the surplus connection is dropped by the `sp<>` assignment.

## 5. Plan for the remaining work
1. **Motion events.** `inv_read_and_process_fifo` (outside the repository) sets the motion state and flag that `inv_check_flag` reads and clears. A model of it would let the flag race against the sensor thread.
2. **Sensors with MLState.** Compose `MLSensors` with `MLState`, so that the compass request and the state callbacks share one `inv_set_mpu_sensors`. The product is too large for one run at the present bounds.
3. **MLCalibration, continued.** The scale-factor words (KEY_D_0_104, KEY_D_0_108, KEY_D_1_152) and the compass scale by value.
4. **No-motion conversions.** The float-to-long conversions of `inv_set_no_motion_thresh` and `inv_set_no_motion_time`, and `inv_set_no_motion_threshAccel`'s `sqrtf`, as operators over bounded inputs.

## 6. Not modelled
- The light and pressure HAL classes: constructors and one-line conversions. The event codes they subscribe go to `SamsungSensorBase`, which is not in the repository. `PressureSensor`'s constructor sets `mSensors[Pressure]` only under `WITH_AMBIENT_TEMPERATURE` (`PressureSensor.cpp` 40-56). A build without that define therefore subscribes an uninitialised code. This is listed as a hazard without a property.
- `gesture.h` and `log.h`: declarations only.
- The Fifo query operations: they change nothing.
- The DMP writes of `inv_freescale_sensor_fusion_16bit`/`_8bit` as actions, and the opcodes of each 16-bit case: nothing in the repository calls them, and with their two DMP keys as state the calibration run grew to 2.4 million states (23 minutes). Their case selection, and the 8-bit program as an operator, are checked.
- Logging, and the byte values of DMP memory writes (abstracted to on, off or high).
- Everything behind the interfaces outside the repository (`mlstates.c`, `mldl`, `mlsl`, the DMP image). Where `ml.c` depends on one of them, the model states the assumption it makes.
