------------------------------ MODULE MCArbBot ------------------------------
(* Instances of ArbBot for TLC.                                            *)
EXTENDS ArbBot

CONSTANTS u, n, v, f2, f3, uv, nuv

MCFactoryOf == [p \in Pools |-> IF p \in V3Pools THEN f3 ELSE f2]

MCSwapPools == [a \in Arbs |-> IF a = uv THEN <<u, v>> ELSE <<n, u, v>>]
=============================================================================
