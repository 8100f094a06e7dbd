\* Two threads; the sensor service always returns a connection; a library
\* may fail to load.  When both fail no native method can ever run, so the
\* system really stops there.
CONSTANTS
  t1 = t1
  t2 = t2
  Threads <- MCThreads
  ServiceResults = {"conn"}
  OnLoadResults = {"ok", "failed"}
SPECIFICATION Spec
INVARIANT TypeOK
CHECK_DEADLOCK FALSE
