---------------------------- MODULE MCCallbackBot ----------------------------
(* Instances of CallbackBot for TLC: one transaction of every kind.        *)
EXTENDS CallbackBot

MCKind == [t \in Txs |-> t]
=============================================================================
