---------------------------- MODULE MCDataSyncer ----------------------------
(* Values for the constants of DataSyncer. *)
EXTENDS DataSyncer

CONSTANTS e1, e2

Plain(S) == [text |-> S, bytes |-> {}]

MCEntries == {e1, e2}
TwoPayloads == {Plain({e1}), Plain({e1, e2})}
=============================================================================
