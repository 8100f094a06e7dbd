---------------------------- MODULE MLCallbacks ----------------------------
(***************************************************************************)
(* The DMP-interrupt callback registry of the InvenSense motion library   *)
(* (mlxCallbackInterrupt in mlsdk/mllite/ml.c).  An application thread    *)
(* registers and unregisters callbacks while the sensor thread, in        *)
(* inv_update_data(), reads and clears the interrupt triggers set by the  *)
(* interrupt handler and runs every registered callback after an MPU      *)
(* interrupt.  Nothing locks the table ("FIXME, we may need a thread      *)
(* block here"), so unregister's shift loop and the run loop are modelled *)
(* one array access per step.                                             *)
(***************************************************************************)
EXTENDS Naturals, Sequences, FiniteSets, SequencesExt

CONSTANTS
  Funcs,                    \* callback function pointers (model values)
  NULL,                     \* the zero pointer left by memset
  MAX_INTERRUPT_PROCESSES   \* capacity of processInterruptCb[]

ASSUME /\ NULL \notin Funcs
       /\ MAX_INTERRUPT_PROCESSES \in Nat \ {0}

Slots == 0 .. MAX_INTERRUPT_PROCESSES - 1

VARIABLES
  numInterruptProcesses,
  processInterruptCb,
  appPC,        \* application thread: "idle" or "shift" inside unregister
  jj,           \* unregister's shift index
  unregFunc,    \* unregister's parameter func, NULL when idle
  runPC,        \* sensor thread: "idle", the steps of inv_update_data,
                \* "test" (kk < num?), "call" (slot test), "invoke"
  kk,           \* inv_run_dmp_interupt_cb's loop index
  trigger,      \* interrupt trigger per source, set by the handler
  mpuInterrupt, \* inv_update_data's local mpu_interrupt
  registered,   \* ghost: callbacks whose register returned INV_SUCCESS
                \*        and whose unregister has not
  stable,       \* ghost: callbacks registered throughout the current run
  calls,        \* ghost: callbacks called in the current run, in order
  overlapped,   \* ghost: an unregister ran during the current run
  pending       \* ghost: an MPU interrupt came after the last run began

vars == <<numInterruptProcesses, processInterruptCb, appPC, jj, unregFunc,
                 runPC, kk,
          trigger, mpuInterrupt, registered, stable, calls, overlapped,
          pending>>

Sources == {"AUX1", "MPU"}

\* The sensor thread is inside inv_run_dmp_interupt_cb's loop.
InRun == runPC \in {"test", "call", "invoke"}

\* State the application thread never touches.
SensorLocals == <<trigger, mpuInterrupt, pending>>

\* The callbacks the table currently holds.
Table == {processInterruptCb[i] : i \in 0 .. numInterruptProcesses - 1}

\* inv_init_ml_cb(): memset the registry to zero.
Init ==
  /\ numInterruptProcesses = 0
  /\ processInterruptCb = [i \in Slots |-> NULL]
  /\ appPC = "idle" /\ jj = 0 /\ unregFunc = NULL
  /\ runPC = "idle" /\ kk = 0
  /\ trigger = [s \in Sources |-> FALSE] /\ mpuInterrupt = FALSE
  /\ registered = {} /\ stable = {} /\ calls = <<>> /\ overlapped = FALSE
  /\ pending = FALSE

----------------------------------------------------------------------------
(* Application thread.                                                     *)
(***************************************************************************)

\* Mutant: the duplicate check is dropped.
RegisterNoDuplicateCheck(func) ==
  /\ appPC = "idle"
  /\ IF numInterruptProcesses <= MAX_INTERRUPT_PROCESSES - 1
     THEN /\ processInterruptCb' =
               [processInterruptCb EXCEPT ![numInterruptProcesses] = func]
          /\ numInterruptProcesses' = numInterruptProcesses + 1
          /\ registered' = registered \cup {func}
     ELSE UNCHANGED <<processInterruptCb, numInterruptProcesses, registered>>
  /\ UNCHANGED <<appPC, jj, unregFunc,
                 runPC, kk, stable, calls, overlapped,
                 SensorLocals>>

\* Mutant: the capacity test lets one more in.
RegisterCapacityOffByOne(func) ==
  /\ appPC = "idle"
  /\ IF /\ numInterruptProcesses <= MAX_INTERRUPT_PROCESSES
        /\ func \notin Table
     THEN /\ processInterruptCb' =
               [processInterruptCb EXCEPT ![numInterruptProcesses] = func]
          /\ numInterruptProcesses' = numInterruptProcesses + 1
          /\ registered' = registered \cup {func}
     ELSE UNCHANGED <<processInterruptCb, numInterruptProcesses, registered>>
  /\ UNCHANGED <<appPC, jj, unregFunc,
                 runPC, kk, stable, calls, overlapped,
                 SensorLocals>>

\* inv_register_dmp_interupt_cb(func): refuse when full or already present,
\* else store at the end and count it.  The slot is written before the
\* count, so the sensor thread never sees it early: one step.
inv_register_dmp_interupt_cb(func) ==
  /\ appPC = "idle"
  /\ IF /\ numInterruptProcesses <= MAX_INTERRUPT_PROCESSES - 1
        /\ func \notin Table
     THEN /\ processInterruptCb' =
               [processInterruptCb EXCEPT ![numInterruptProcesses] = func]
          /\ numInterruptProcesses' = numInterruptProcesses + 1
          /\ registered' = registered \cup {func}
     ELSE UNCHANGED <<processInterruptCb, numInterruptProcesses, registered>>
  /\ UNCHANGED <<appPC, jj, unregFunc,
                 runPC, kk, stable, calls, overlapped,
                 SensorLocals>>

\* inv_unregister_dmp_interupt_cb(func): find func (the search only reads
\* the table), then shift the tail left one slot per step.  Not found:
\* INV_ERROR_INVALID_PARAMETER and no change.
inv_unregister_dmp_interupt_cb(func) ==
  /\ appPC = "idle"
  /\ IF func \in Table
     THEN LET at == CHOOSE i \in 0 .. numInterruptProcesses - 1 :
                      processInterruptCb[i] = func
          IN /\ appPC' = "shift"
             /\ jj' = at + 1
             /\ unregFunc' = func
             /\ registered' = registered \ {func}
             /\ stable' = stable \ {func}
             /\ overlapped' = (overlapped \/ InRun)
     ELSE UNCHANGED <<appPC, jj, unregFunc, registered, stable, overlapped>>
  /\ UNCHANGED <<numInterruptProcesses, processInterruptCb, runPC, kk, calls,
                 SensorLocals>>

\* Mutant: the shift copies in the wrong direction.
UnregisterShiftReversed ==
  /\ appPC = "shift"
  /\ IF jj < numInterruptProcesses
     THEN /\ processInterruptCb' =
               [processInterruptCb EXCEPT ![jj] = processInterruptCb[jj - 1]]
          /\ jj' = jj + 1
          /\ UNCHANGED <<numInterruptProcesses, appPC, unregFunc>>
     ELSE /\ numInterruptProcesses' = numInterruptProcesses - 1
          /\ appPC' = "idle" /\ unregFunc' = NULL
          /\ UNCHANGED <<processInterruptCb, jj>>
  /\ overlapped' = (overlapped \/ InRun)
  /\ UNCHANGED <<runPC, kk, registered, stable, calls, SensorLocals>>

\* One iteration of the shift loop, or the final decrement.
UnregisterShift ==
  /\ appPC = "shift"
  /\ IF jj < numInterruptProcesses
     THEN /\ processInterruptCb' =
               [processInterruptCb EXCEPT ![jj - 1] = processInterruptCb[jj]]
          /\ jj' = jj + 1
          /\ UNCHANGED <<numInterruptProcesses, appPC, unregFunc>>
     ELSE /\ numInterruptProcesses' = numInterruptProcesses - 1
          /\ appPC' = "idle" /\ unregFunc' = NULL
          /\ UNCHANGED <<processInterruptCb, jj>>
  /\ overlapped' = (overlapped \/ InRun)
  /\ UNCHANGED <<runPC, kk, registered, stable, calls, SensorLocals>>

----------------------------------------------------------------------------
(* Sensor thread.                                                          *)
(***************************************************************************)

\* The interrupt handler (outside the repository) sets the trigger of the
\* source that interrupted, between any two steps of the sensor thread.
Interrupt(src) ==
  /\ trigger' = [trigger EXCEPT ![src] = TRUE]
  /\ pending' = (pending \/ src = "MPU")
  /\ UNCHANGED <<numInterruptProcesses, processInterruptCb, appPC, jj, unregFunc,
                 runPC,
                 kk, mpuInterrupt, registered, stable, calls, overlapped>>

\* inv_update_data(): the state is DMP_STARTED and inv_read_and_process_fifo
\* succeeded.  Its early returns (wrong state, FIFO error) change nothing.
inv_update_data ==
  /\ runPC = "idle"
  /\ runPC' = "aux"
  /\ UNCHANGED <<numInterruptProcesses, processInterruptCb, appPC, jj, unregFunc,
                 kk,
                 registered, stable, calls, overlapped, SensorLocals>>

\* Mutant: the trigger is cleared whatever was read.
ReadTriggerClearAlways(src, clearPC, next) ==
  /\ mpuInterrupt' = trigger[src]
  /\ runPC' = clearPC
  /\ UNCHANGED <<numInterruptProcesses, processInterruptCb, appPC, jj, unregFunc,
                 kk,
                 trigger, registered, stable, calls, overlapped, pending>>

\* mpu_interrupt = inv_get_interrupt_trigger(src); if it is set, the next
\* step clears it.
ReadTrigger(src, clearPC, next) ==
  /\ mpuInterrupt' = trigger[src]
  /\ runPC' = IF trigger[src] THEN clearPC ELSE next
  /\ UNCHANGED <<numInterruptProcesses, processInterruptCb, appPC, jj, unregFunc,
                 kk,
                 trigger, registered, stable, calls, overlapped, pending>>

\* inv_clear_interrupt_trigger(src).
ClearTrigger(src, next) ==
  /\ trigger' = [trigger EXCEPT ![src] = FALSE]
  /\ runPC' = next
  /\ UNCHANGED <<numInterruptProcesses, processInterruptCb, appPC, jj, unregFunc,
                 kk,
                 mpuInterrupt, registered, stable, calls, overlapped, pending>>

\* The AUX1 trigger, then the MPU trigger, each read and cleared if set.
UpdateTriggers ==
  \/ runPC = "aux" /\ ReadTrigger("AUX1", "auxclear", "mpu")
  \/ runPC = "auxclear" /\ ClearTrigger("AUX1", "mpu")
  \/ runPC = "mpu" /\ ReadTrigger("MPU", "mpuclear", "cb")
  \/ runPC = "mpuclear" /\ ClearTrigger("MPU", "cb")

\* Mutant: the test re-reads the MPU trigger, which was just cleared,
\* instead of the local mpu_interrupt.
NoCallbacksTriggerReread ==
  /\ runPC = "cb" /\ ~trigger["MPU"]
  /\ runPC' = "status"
  /\ UNCHANGED <<numInterruptProcesses, processInterruptCb, appPC, jj, unregFunc,
                 kk,
                 registered, stable, calls, overlapped, SensorLocals>>

\* No MPU interrupt: the callbacks are not run.
NoCallbacks ==
  /\ runPC = "cb" /\ ~mpuInterrupt
  /\ runPC' = "status"
  /\ UNCHANGED <<numInterruptProcesses, processInterruptCb, appPC, jj, unregFunc,
                 kk,
                 registered, stable, calls, overlapped, SensorLocals>>

\* inv_run_dmp_interupt_cb(), called by inv_update_data() after an MPU
\* interrupt: the loop starts at kk = 0.
inv_run_dmp_interupt_cb ==
  /\ runPC = "cb" /\ mpuInterrupt
  /\ runPC' = "test" /\ kk' = 0 /\ pending' = FALSE
  /\ stable' = registered /\ calls' = <<>>
  /\ overlapped' = (appPC # "idle")
  /\ UNCHANGED <<numInterruptProcesses, processInterruptCb, appPC, jj, unregFunc,
                 trigger, mpuInterrupt, registered>>

\* Mutant: the loop stops one entry early.
RunTestOffByOne ==
  /\ runPC = "test"
  /\ runPC' = IF kk < numInterruptProcesses - 1 THEN "call" ELSE "status"
  /\ UNCHANGED <<numInterruptProcesses, processInterruptCb, appPC, jj, unregFunc,
                 kk,
                 registered, stable, calls, overlapped, SensorLocals>>

\* The loop test kk < numInterruptProcesses.
RunTest ==
  /\ runPC = "test"
  /\ runPC' = IF kk < numInterruptProcesses THEN "call" ELSE "status"
  /\ UNCHANGED <<numInterruptProcesses, processInterruptCb, appPC, jj, unregFunc,
                 kk,
                 registered, stable, calls, overlapped, SensorLocals>>

\* The loop body's test: read slot kk; if it is NULL go to the next slot.
RunCall ==
  /\ runPC = "call"
  /\ IF processInterruptCb[kk] # NULL
       THEN runPC' = "invoke" /\ UNCHANGED kk
       ELSE runPC' = "test" /\ kk' = kk + 1
  /\ UNCHANGED <<numInterruptProcesses, processInterruptCb, appPC, jj, unregFunc,
                 registered, stable, calls, overlapped, SensorLocals>>

\* The call reads slot kk again, and calls what it holds now.
RunInvoke ==
  /\ runPC = "invoke"
  /\ calls' = Append(calls, processInterruptCb[kk])
  /\ kk' = kk + 1
  /\ runPC' = "test"
  /\ UNCHANGED <<numInterruptProcesses, processInterruptCb, appPC, jj, unregFunc,
                 registered, stable, overlapped, SensorLocals>>

\* return inv_get_fifo_status(): reads only.
inv_get_fifo_status ==
  /\ runPC = "status"
  /\ runPC' = "idle"
  /\ UNCHANGED <<numInterruptProcesses, processInterruptCb, appPC, jj, unregFunc,
                 kk,
                 registered, stable, calls, overlapped, SensorLocals>>

----------------------------------------------------------------------------
Next ==
  \/ \E f \in Funcs : inv_register_dmp_interupt_cb(f)
  \/ \E f \in Funcs : inv_unregister_dmp_interupt_cb(f)
  \/ UnregisterShift
  \/ \E src \in Sources : Interrupt(src)
  \/ inv_update_data \/ UpdateTriggers \/ NoCallbacks
  \/ inv_run_dmp_interupt_cb \/ RunTest \/ RunCall \/ RunInvoke
  \/ inv_get_fifo_status

Spec == Init /\ [][Next]_vars

\* The steps of inv_update_data once it has been called.
SensorStep ==
  \/ UpdateTriggers \/ NoCallbacks \/ inv_run_dmp_interupt_cb
  \/ RunTest \/ RunCall \/ RunInvoke \/ inv_get_fifo_status

(* The sensor thread, once inside inv_update_data, runs it to the end     *)
(* (nothing in it blocks), and the application calls inv_update_data     *)
(* again while an MPU interrupt is pending, which is what the interrupt   *)
(* is for (the caller is outside the repository).                         *)
FairSpec ==
  /\ Spec
  /\ WF_vars(SensorStep)
  /\ WF_vars(pending /\ inv_update_data)

----------------------------------------------------------------------------
(* Properties.                                                             *)
(***************************************************************************)

TypeOK ==
  /\ numInterruptProcesses \in 0 .. MAX_INTERRUPT_PROCESSES
  /\ processInterruptCb \in [Slots -> Funcs \cup {NULL}]
  /\ appPC \in {"idle", "shift"} /\ jj \in 0 .. MAX_INTERRUPT_PROCESSES
  /\ unregFunc \in Funcs \cup {NULL}
  /\ runPC \in {"idle", "aux", "auxclear", "mpu", "mpuclear", "cb", "test",
                "call", "invoke", "status"}
  /\ kk \in 0 .. MAX_INTERRUPT_PROCESSES
  /\ trigger \in [Sources -> BOOLEAN] /\ mpuInterrupt \in BOOLEAN
  /\ registered \subseteq Funcs /\ stable \subseteq Funcs
  /\ calls \in Seq(Funcs) /\ overlapped \in BOOLEAN /\ pending \in BOOLEAN

(* Between calls of the application thread, the first                     *)
(* numInterruptProcesses slots hold each callback whose register returned *)
(* INV_SUCCESS (and whose unregister has not) exactly once: the duplicate *)
(* check, the capacity check and the shift loop agree with what callers   *)
(* were told, whatever the sensor thread was doing meanwhile.             *)
RegistryMatchesCallers ==
  appPC = "idle" =>
    /\ Table = registered
    /\ Cardinality(Table) = numInterruptProcesses

CallCount(f) == Cardinality({i \in 1 .. Len(calls) : calls[i] = f})

(* A run of inv_run_dmp_interupt_cb() that no unregister overlapped calls *)
(* every callback registered when it started exactly once.                *)
QuietRunCallsEachOnce ==
  (~InRun /\ ~overlapped) =>
    \A f \in stable : CallCount(f) = 1

(* Any finished run called each callback that stayed registered for the   *)
(* whole run exactly once, even when the application thread unregistered *)
(* another callback meanwhile.                                            *)
RunCallsEachOnce ==
  ~InRun => \A f \in stable : CallCount(f) = 1

(* No MPU interrupt is lost: one raised after the last callback run began *)
(* either still has its trigger set or has been read by inv_update_data,  *)
(* which is about to run the callbacks.  The handler may set the trigger  *)
(* between the read and the clear, so the clear must depend on the read.  *)
InterruptNotLost ==
  pending =>
    \/ trigger["MPU"]
    \/ mpuInterrupt /\ runPC \in {"mpuclear", "cb"}

(* Every MPU interrupt is eventually served: after the handler sets the   *)
(* MPU trigger, inv_update_data reads it, clears it and runs the          *)
(* callbacks, however the handler's later interrupts and the application *)
(* thread's register and unregister calls interleave.                    *)
InterruptServed == pending ~> ~pending

(* The registry implements the set of callbacks its callers are promised *)
(* (CallbackRegistry): register takes effect in one step, and an          *)
(* unregister, once it has found func, leaves the set of callbacks in     *)
(* the table unchanged through every step of its shift loop, interleaved *)
(* with the sensor thread, and its decrement removes exactly func.  While *)
(* the shift is under way func may already be overwritten, so the set is *)
(* the table's live entries with func added back.                         *)
LiveCallbacks == IF appPC = "shift" THEN Table \cup {unregFunc} ELSE Table

Registry == INSTANCE CallbackRegistry
              WITH cbs <- LiveCallbacks,
                   unregistering <- IF appPC = "shift" THEN unregFunc ELSE NULL,
                   Capacity <- MAX_INTERRUPT_PROCESSES, NoCall <- NULL

ImplementsRegistry == Registry!Spec
=============================================================================
