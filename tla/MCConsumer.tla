----------------------------- MODULE MCConsumer -----------------------------
(* Values for the constants of Consumer. *)
EXTENDS Consumer

Limited == {1}
Mixed == {None, 1}
=============================================================================
