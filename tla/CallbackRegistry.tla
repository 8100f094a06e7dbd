-------------------------- MODULE CallbackRegistry --------------------------
(***************************************************************************)
(* What the DMP-interrupt callback registry of ml.c promises its callers: *)
(* a set of at most Capacity callbacks.  Registering adds a callback that *)
(* is absent while there is room, in one step.  Unregistering a present   *)
(* callback is a call in progress (unregistering) that ends by removing   *)
(* exactly that callback; until it ends the set does not change.  Every  *)
(* other call changes nothing.                                            *)
(***************************************************************************)
EXTENDS Naturals, FiniteSets

CONSTANTS Funcs, Capacity, NoCall

VARIABLES cbs, unregistering

Init == cbs = {} /\ unregistering = NoCall

\* inv_register_dmp_interupt_cb: INV_SUCCESS only for an absent callback
\* when the table is not full.
Register(f) ==
  /\ unregistering = NoCall
  /\ f \notin cbs
  /\ Cardinality(cbs) < Capacity
  /\ cbs' = cbs \cup {f}
  /\ UNCHANGED unregistering

\* inv_unregister_dmp_interupt_cb finds a present callback ...
BeginUnregister(f) ==
  /\ unregistering = NoCall
  /\ f \in cbs
  /\ unregistering' = f
  /\ UNCHANGED cbs

\* ... and returns INV_SUCCESS having removed exactly that one.
EndUnregister ==
  /\ unregistering # NoCall
  /\ cbs' = cbs \ {unregistering}
  /\ unregistering' = NoCall

Next ==
  \/ \E f \in Funcs : Register(f) \/ BeginUnregister(f)
  \/ EndUnregister

Spec == Init /\ [][Next]_<<cbs, unregistering>>
=============================================================================
