---------------------------- MODULE MCServerRun ----------------------------
(* Model-checking instance of ServerRun.                                   *)
EXTENDS ServerRun, TLC

CONSTANTS a, b, u1, u2, c1

TwoRepos == {a, b}
TwoUpdates == {u1, u2}
OneCall == {c1}
=============================================================================
