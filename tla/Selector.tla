------------------------------ MODULE Selector ------------------------------
(***************************************************************************)
(* What process_onchain_arbs promises (app/core/arbitrage_service.py): a   *)
(* task learns the results of its cycles one by one, and then decides once *)
(* and for all on the profitable cycles to execute, "the most profitable   *)
(* arbitrage opportunities without overlap".  How it finds them - process  *)
(* pool, sorting, working set - is left to ArbitrageService.               *)
(***************************************************************************)
EXTENDS Integers, Sequences

CONSTANTS
  Arbs, SwapPools, Profits, TaskIds  \* as in ArbitrageService

VARIABLES
  phase,   \* phase[t]: of task t, "idle", "working" or "done"
  earned,  \* the results task t has learned
  kept     \* the results task t has decided for

vars == <<phase, earned, kept>>

Result == [arb : Arbs, profit : Profits]

Init ==
  /\ phase = [t \in TaskIds |-> "idle"]
  /\ earned = [t \in TaskIds |-> {}]
  /\ kept = [t \in TaskIds |-> {}]

Pools(a) == {SwapPools[a][k] : k \in 1 .. Len(SwapPools[a])}

Compete(r, s) == Pools(r.arb) \cap Pools(s.arb) # {}

(* Profitable results that do not compete, where every profitable result   *)
(* left out competes with one that earns at least as much.                 *)
Selections(E) ==
  {S \in SUBSET E :
     /\ \A r \in S : r.profit >= 0
     /\ \A r, s \in S : r # s => ~Compete(r, s)
     /\ \A r \in E : r.profit >= 0 =>
          r \in S \/ \E s \in S : s.profit >= r.profit /\ Compete(r, s)}

Begin(t) ==
  /\ phase[t] = "idle"
  /\ phase' = [phase EXCEPT ![t] = "working"]
  /\ UNCHANGED <<earned, kept>>

(* One result for each cycle.                                              *)
Learn(t, r) ==
  /\ phase[t] = "working"
  /\ \A s \in earned[t] : s.arb # r.arb
  /\ earned' = [earned EXCEPT ![t] = @ \cup {r}]
  /\ UNCHANGED <<phase, kept>>

Decide(t) ==
  /\ phase[t] = "working"
  /\ phase' = [phase EXCEPT ![t] = "done"]
  /\ \E S \in Selections(earned[t]) : kept' = [kept EXCEPT ![t] = S]
  /\ UNCHANGED earned

Next ==
  \E t \in TaskIds : Begin(t) \/ Decide(t) \/ \E r \in Result : Learn(t, r)

Spec == Init /\ [][Next]_vars
=============================================================================
