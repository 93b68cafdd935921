----------------------------- MODULE MCPmonitor -----------------------------
(* Pmonitor with three threads: one in the loop and two that may wait for   *)
(* the mutex.                                                               *)
EXTENDS Pmonitor

CONSTANTS t1, t2, t3

MCThreads == {t1, t2, t3}
=============================================================================
