-------------------------- MODULE MCCommerceWrites --------------------------
(* Small instances of CommerceWrites for TLC.                              *)
EXTENDS CommerceWrites
=============================================================================
