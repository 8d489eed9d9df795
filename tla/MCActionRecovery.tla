-------------------------- MODULE MCActionRecovery --------------------------
(* Small instances of ActionRecovery for TLC.                              *)
EXTENDS ActionRecovery
=============================================================================
