--------------------------- MODULE MCEventService ---------------------------
(* Instances of EventService, with its history, for TLC.                   *)
EXTENDS EventHistory

CONSTANTS u, n, v, w, f2, f3, g3

(* u and n are V2 pools of the factory f2; v is a V3 pool of the startup   *)
(* factory f3, w one of the factory g3, which may be known or not.         *)
MCFactoryOf == [p \in Pools |-> CASE p = v -> f3 [] p = w -> g3 [] OTHER -> f2]
=============================================================================
