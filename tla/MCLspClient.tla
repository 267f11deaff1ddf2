---------------------------- MODULE MCLspClient ----------------------------
(* Small instances of LspClient. client_calls has one call next to         *)
(* shutdown's own, which a stopper starts; client_shutdown and             *)
(* client_hangs have shutdown's own only.                                  *)
EXTENDS LspClient, TLC

=============================================================================
