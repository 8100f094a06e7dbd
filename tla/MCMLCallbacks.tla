--------------------------- MODULE MCMLCallbacks ---------------------------
(* Three callbacks for a table of two slots: the table fills, a third     *)
(* registration is refused, and an unregister shifts a live entry.        *)
EXTENDS MLCallbacks

CONSTANTS f1, f2, f3

MCFuncs == {f1, f2, f3}
MCMaxInterruptProcesses == 2
FuncSymmetry == Permutations(MCFuncs)
=============================================================================
