----------------------------- MODULE JNIBinder ------------------------------
(***************************************************************************)
(* The two JNI bridges of the InvenSense system APIs                       *)
(* (jni/invensense_hardware_mpljni.cpp and ..._pedjni.cpp).  Each library  *)
(* keeps the binder connection to the sensor service in a function-local   *)
(* static, created on first use by get_sysapi_binder / get_sysped_binder   *)
(* with no lock.  Every native method, on any Java thread, fetches it and  *)
(* makes one binder call; the array methods of the MPL bridge first pin    *)
(* the Java array and copy it into a new C array (SWIG_JavaArrayIn...), and *)
(* afterwards copy back, unpin (SWIG_JavaArrayArgout...) and delete it.  *)
(*                                                                         *)
(* A connection is a boolean (present or NULL) and a native method is its  *)
(* library and kind: the wrappers differ only in the binder method they   *)
(* call, whose result is passed through.                                   *)
(***************************************************************************)
EXTENDS Naturals, FiniteSets

CONSTANTS
  Threads,          \* Java threads calling native methods
  ServiceResults,   \* what create*Connection returns: {"conn"} or {"conn", "null"}
  OnLoadResults     \* outcome of JNI_OnLoad: {"ok"} or {"ok", "failed"}

ASSUME /\ ServiceResults \subseteq {"conn", "null"} /\ "conn" \in ServiceResults
       /\ OnLoadResults \subseteq {"ok", "failed"} /\ "ok" \in OnLoadResults

Libs == {"mpl", "ped"}

\* sysMethods[]: resetCal, selfTest, setBiasUpdateFunc, setSensors and
\* setLocalMagField take scalars; getSensors, getBiases and setBiases arrays.
MplWrappers == {[lib |-> "mpl", kind |-> "scalar"],
                [lib |-> "mpl", kind |-> "array"]}

\* sysPedMethods[]: startPed, stopPed, getSteps, getWalkTime, clearPedData.
PedWrappers == {[lib |-> "ped", kind |-> "scalar"]}

Wrappers == MplWrappers \cup PedWrappers

VARIABLES
  loaded,     \* per library: "unloaded", or what JNI_OnLoad returned
  binder,     \* per library: the static s_sapi / s_sped is non-NULL
  created,    \* ghost: per library, connections the service has created
  pc,         \* per thread: "idle", "test", "lookup", "recheck", "call"
  wrapper,    \* per thread: the native method it is running
  held,       \* per thread: "pin" (Java array pinned), "alloc" (C copy)
  local,      \* per thread: the sp<> get_*_binder returned is non-NULL
  leaked      \* ghost: a wrapper returned still holding a pin or a copy

vars == <<loaded, binder, created, pc, wrapper, held, local, leaked>>

Init ==
  /\ loaded = [l \in Libs |-> "unloaded"]
  /\ binder = [l \in Libs |-> FALSE]
  /\ created = [l \in Libs |-> 0]
  /\ pc = [t \in Threads |-> "idle"]
  /\ wrapper = [t \in Threads |-> [lib |-> "mpl", kind |-> "scalar"]]
  /\ held = [t \in Threads |-> {}]
  /\ local = [t \in Threads |-> FALSE]
  /\ leaked = FALSE

Lib(t) == wrapper[t].lib

----------------------------------------------------------------------------
(* JNI_OnLoad: GetEnv, then jniRegisterNativeMethods; either failing goes  *)
(* to bail and returns -1 ("failed"), and the VM refuses the library.      *)
JNI_OnLoad(l) ==
  /\ loaded[l] = "unloaded"
  /\ \E r \in OnLoadResults : loaded' = [loaded EXCEPT ![l] = r]
  /\ UNCHANGED <<binder, created, pc, wrapper, held, local, leaked>>

(* A thread enters a registered native method.  An array method runs      *)
(* SWIG_JavaArrayIn*: a null array or a failed pin returns 0 at once (no  *)
(* state change, left out); otherwise the array is pinned and copied into *)
(* new[] (new does not return NULL on this platform).                     *)
SWIG_JavaArrayIn(t, w) ==
  /\ pc[t] = "idle"
  /\ loaded[w.lib] = "ok"
  /\ wrapper' = [wrapper EXCEPT ![t] = w]
  /\ held' = [held EXCEPT ![t] = IF w.kind = "array" THEN {"pin", "alloc"}
                                                   ELSE {}]
  /\ pc' = [pc EXCEPT ![t] = "test"]
  /\ UNCHANGED <<loaded, binder, created, local, leaked>>

\* Mutant: the lazy-initialisation test is dropped.
BinderTestDropped(t) ==
  /\ pc[t] = "test"
  /\ pc' = [pc EXCEPT ![t] = "lookup"]
  /\ UNCHANGED <<loaded, binder, created, wrapper, held, local, leaked>>

\* get_sysapi_binder: if (s_sapi == NULL) ...
BinderTest(t) ==
  /\ pc[t] = "test"
  /\ pc' = [pc EXCEPT ![t] = IF binder[Lib(t)] THEN "recheck" ELSE "lookup"]
  /\ UNCHANGED <<loaded, binder, created, wrapper, held, local, leaked>>

(* getService retried every 250 ms until the sensor service answers (a    *)
(* failed try changes nothing), then s_sapi = create*Connection(), which  *)
(* may return NULL.  The assignment overwrites whatever another thread    *)
(* stored meanwhile.                                                      *)
Lookup(t) ==
  /\ pc[t] = "lookup"
  /\ \E r \in ServiceResults :
       /\ binder' = [binder EXCEPT ![Lib(t)] = (r = "conn")]
       /\ created' = IF r = "conn"
                       THEN [created EXCEPT ![Lib(t)] = @ + 1] ELSE created
  /\ pc' = [pc EXCEPT ![t] = "recheck"]
  /\ UNCHANGED <<loaded, wrapper, held, local, leaked>>

\* if (s_sapi == NULL) return false; return s_sapi;  (a second read)
Recheck(t) ==
  /\ pc[t] = "recheck"
  /\ local' = [local EXCEPT ![t] = binder[Lib(t)]]
  /\ pc' = [pc EXCEPT ![t] = "call"]
  /\ UNCHANGED <<loaded, binder, created, wrapper, held, leaked>>

\* SWIG_JavaArrayArgout*: copy the C array back into the Java array and
\* Release<Type>ArrayElements, unpinning it.
SWIG_JavaArrayArgout(h) == h \ {"pin"}

(* The wrapper: if (s_sapi == 0) return false, keeping the pin and the    *)
(* copy; else the binder call, SWIG_JavaArrayArgout* and delete [] arg1   *)
(* for an array method, and return.  What is left held is leaked.        *)
WrapperCall(t) ==
  /\ pc[t] = "call"
  /\ LET left == IF local[t] THEN SWIG_JavaArrayArgout(held[t]) \ {"alloc"}
                             ELSE held[t]
     IN leaked' = (leaked \/ left # {})
  /\ held' = [held EXCEPT ![t] = {}]
  /\ pc' = [pc EXCEPT ![t] = "idle"]
  /\ UNCHANGED <<loaded, binder, created, wrapper, local>>

ThreadStep(t) ==
  \/ BinderTest(t) \/ Lookup(t) \/ Recheck(t) \/ WrapperCall(t)

Next ==
  \/ \E l \in Libs : JNI_OnLoad(l)
  \/ \E t \in Threads, w \in Wrappers : SWIG_JavaArrayIn(t, w)
  \/ \E t \in Threads : ThreadStep(t)

\* Safety only: whether a native method returns depends on the getService
\* loop, which ends only when the sensor service (outside the repository)
\* answers.
Spec == Init /\ [][Next]_vars

----------------------------------------------------------------------------
(* Properties.                                                             *)
(***************************************************************************)

(* Types; the bound on created says that only the threads racing the      *)
(* first call of a library look the service up: once the static is set,   *)
(* the lazy test stops every later lookup.                                 *)
TypeOK ==
  /\ loaded \in [Libs -> {"unloaded", "ok", "failed"}]
  /\ binder \in [Libs -> BOOLEAN]
  /\ created \in [Libs -> 0 .. Cardinality(Threads)]
  /\ pc \in [Threads -> {"idle", "test", "lookup", "recheck", "call"}]
  /\ wrapper \in [Threads -> Wrappers]
  /\ held \in [Threads -> SUBSET {"pin", "alloc"}]
  /\ local \in [Threads -> BOOLEAN] /\ leaked \in BOOLEAN

(* Every native method returns having released the Java array it pinned  *)
(* and deleted the copy it allocated, whatever the other threads did to   *)
(* the shared static meanwhile.                                           *)
NoLeakOnReturn == ~leaked

=============================================================================
