------------------------- MODULE MCArbitrageService -------------------------
(* Instances of ArbitrageService for TLC: cycles over six pools.           *)
EXTENDS ArbitrageService

CONSTANTS p1, p2, p3, p4, p5, p6, ab, bc, be, cf, dbe

(* ab, bc, be and the three-pool cycle dbe are affected by p2; cf meets    *)
(* only bc.                                                                *)
MCSwapPools ==
  [a \in Arbs |-> CASE a = ab  -> <<p1, p2>>
                    [] a = bc  -> <<p2, p3>>
                    [] a = be  -> <<p2, p5>>
                    [] a = cf  -> <<p3, p6>>
                    [] a = dbe -> <<p4, p2, p5>>]

MCProfits == -1 .. 2
=============================================================================
