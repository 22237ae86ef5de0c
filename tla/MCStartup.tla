------------------------------ MODULE MCStartup ------------------------------
(* Instances of Startup for TLC.  The configurations have a v3 exchange    *)
(* with an unknown name before, between and after known ones, the same     *)
(* factory twice, and a factory degenbot knows already.                    *)
EXTENDS Startup

CONSTANTS p1, p2, ab, f1, f2, f3

MCPathOf == [a \in Paths |-> {p1, p2}]

V2(f) == [version |-> "v2", name |-> "other", factory |-> f]
V3(name, f) == [version |-> "v3", name |-> name, factory |-> f]

MCConfigs == {
  <<V2(f1), V3("other", f2), V3("pancakeswap", f3)>>,
  <<V3("other", f1), V3("uniswap", f2), V3("other", f3)>>,
  <<V3("uniswap", f2), V3("pancakeswap", f2), V3("uniswap", f1)>>}
=============================================================================
