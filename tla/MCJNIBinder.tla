---------------------------- MODULE MCJNIBinder -----------------------------
(* Two Java threads calling the native methods of both JNI bridges.        *)
EXTENDS JNIBinder

CONSTANTS t1, t2

MCThreads == {t1, t2}
=============================================================================
