\* The sensor service may return a NULL connection.
CONSTANTS
  t1 = t1
  t2 = t2
  Threads <- MCThreads
  ServiceResults = {"conn", "null"}
  OnLoadResults = {"ok"}
SPECIFICATION Spec
INVARIANT NoLeakOnReturn
