CONSTANTS
  f1 = f1
  f2 = f2
  f3 = f3
  NULL = NULL
  Funcs <- MCFuncs
  MAX_INTERRUPT_PROCESSES <- MCMaxInterruptProcesses
SYMMETRY FuncSymmetry
SPECIFICATION Spec
INVARIANT RunCallsEachOnce
