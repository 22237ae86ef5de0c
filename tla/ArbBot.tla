------------------------------- MODULE ArbBot -------------------------------
(***************************************************************************)
(* The arbitrage bot after initialize() (app/bots/arb_bot.py, run): the    *)
(* event service and find_onchain_arbs run as tasks of one asyncio loop    *)
(* and share the queue pools_to_process and the pool helpers.  The cycles  *)
(* in all_arbs were built by load_pools over the helpers of that time; a   *)
(* helper that a manager drops lives on in the cycles and gets no updates. *)
(* load_pools has set live, so run() creates both tasks without waiting.   *)
(***************************************************************************)
EXTENDS EventService

CONSTANTS Arbs, SwapPools, Profits, TaskIds

VARIABLES
  task,      \* the tasks of process_onchain_arbs
  orphaned,  \* pools whose helper in the cycles no manager holds any more
  tried      \* tried[a][p]: state of p when the calculation of cycle a was
             \* last tried, whether calculate_with_pool raised or not;
             \* at the start, the state the cycle was loaded with

Arbitrage == INSTANCE ArbitrageService WITH ArbPools <- Pools

botVars == <<vars, task, orphaned, tried>>

ASSUME LoadedAssumption ==
  \A a \in Arbs : Arbitrage!PoolSet(a) \subseteq LoadedPools

(* What a calculation reads from a helper.                                 *)
State(h) == <<h.val, h.book>>

BotInit ==
  /\ Init
  /\ task = [t \in TaskIds |-> Arbitrage!NoTask]
  /\ orphaned = {}
  /\ tried = [a \in Arbs |->
               [p \in Arbitrage!PoolSet(a) |-> State(helper[p])]]

Listening ==
  /\ Service \/ Environment
  /\ orphaned' = orphaned \cup {p \in Pools : helper[p] # None /\ helper'[p] = None}
  /\ UNCHANGED <<task, tried>>

otherServiceVars ==
  <<chainVars, loop, subscribed, chan, first_event, managers, helper,
    snapshot, puts>>

FindArbs ==
  /\ Arbitrage!FindOnchainArbs
  /\ UNCHANGED <<otherServiceVars, orphaned, tried>>

(* The first turn of a task calls calculate_with_pool for each cycle; the  *)
(* call takes the state of the pools along to the executor, or raises, and *)
(* then the cycle is left alone until an update affects it again.          *)
EvaluateArbs(t) ==
  /\ Arbitrage!SubmitCalculations(t)
  /\ tried' = [a \in Arbs |->
                 IF a \in task[t].arbs
                 THEN [p \in Arbitrage!PoolSet(a) |->
                         IF p \in orphaned THEN tried[a][p] ELSE State(helper[p])]
                 ELSE tried[a]]
  /\ UNCHANGED <<otherServiceVars, orphaned>>

FinishArbs(t) ==
  /\ task[t].state # "created"
  /\ Arbitrage!RunTask(t)
  /\ UNCHANGED <<otherServiceVars, orphaned, tried>>

BotNext ==
  \/ Listening
  \/ FindArbs
  \/ \E t \in TaskIds : EvaluateArbs(t) \/ FinishArbs(t)

BotFairness ==
  /\ WF_botVars(RunPut /\ Listening)
  /\ WF_botVars(FindArbs)
  /\ \A t \in TaskIds : WF_botVars(EvaluateArbs(t))

BotSpec == BotInit /\ [][BotNext]_botVars
BotFairSpec == BotSpec /\ BotFairness

-----------------------------------------------------------------------------
(* Properties.                                                             *)

Stale(a, p) == p \notin orphaned /\ tried[a][p] # State(helper[p])

(* p's address, or a task for cycle a, is on its way.                      *)
Scheduled(a, p) ==
  \/ \E i \in 1 .. Len(puts) : puts[i] = p
  \/ \E i \in 1 .. Len(queue) : queue[i] = p
  \/ \E t \in TaskIds : task[t].state = "created" /\ a \in task[t].arbs

(* No update is lost between the two services: a two-pool cycle that was   *)
(* last tried with another state of a pool than the helper has now is      *)
(* going to be tried again - the handler's put task, the queue, and        *)
(* find_onchain_arbs with its task hand the pool on without a gap.         *)
NoLostUpdate ==
  \A a \in {c \in Arbs : Len(SwapPools[c]) = 2} : \A p \in Arbitrage!PoolSet(a) :
    Stale(a, p) => Scheduled(a, p)

(* ... and it is in fact tried, whatever the listener goes through: the    *)
(* calculation with the new state is attempted.  One that raises is        *)
(* dropped, and the code does not repeat it.                               *)
EveryUpdateTried ==
  \A a \in {c \in Arbs : Len(SwapPools[c]) = 2} : \A p \in Arbitrage!PoolSet(a) :
    Stale(a, p) ~> ~Stale(a, p)

(* The docstring of find_affected_arbs: "if the given pool address is part *)
(* of any of the arbitrage cycles" the cycle is affected, of three pools   *)
(* too, so that no update of any of its pools is lost.                     *)
AnyPoolAffects ==
  \A a \in Arbs : \A p \in Arbitrage!PoolSet(a) : Stale(a, p) => Scheduled(a, p)
=============================================================================
