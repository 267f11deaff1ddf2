---------------------------- MODULE MCDaemonPool ----------------------------
(* Small instances of DaemonPool.                                          *)
EXTENDS DaemonPool, TLC

CONSTANTS r1, r2, r3, k1

\* All requests want one daemon.
OneKey == [r \in Requests |-> k1]

=============================================================================
