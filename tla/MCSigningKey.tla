---------------------------- MODULE MCSigningKey ----------------------------
(* Values for the constants of SigningKey. *)
EXTENDS SigningKey

CONSTANTS k1, k2, k3

MCKeys == {k1, k2, k3}
=============================================================================
