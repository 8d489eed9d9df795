----------------------- MODULE MCCommerceIdempotency -----------------------
(* A small instance of CommerceIdempotency for TLC.                        *)
EXTENDS CommerceIdempotency
=============================================================================
