-------------------------- MODULE ArbitrageService --------------------------
(***************************************************************************)
(* ArbitrageService (app/core/arbitrage_service.py).  find_onchain_arbs    *)
(* takes one pool at a time from pools_to_process and creates a task of    *)
(* process_onchain_arbs for the arbitrage cycles the pool affects.  Each   *)
(* task submits the cycles to a process pool, collects the results in the  *)
(* order they complete, and keeps the most profitable cycles that share no *)
(* pool.  The tasks run concurrently; each await is a step boundary.       *)
(***************************************************************************)
EXTENDS Integers, Sequences, FiniteSets

CONSTANTS
  ArbPools,   \* addresses of pools
  Arbs,       \* keys of bot_state.all_arbs
  SwapPools,  \* SwapPools[a]: the pools of cycle a, in swap order
  Profits,    \* the profit amounts a calculation can return
  TaskIds     \* bound: the tasks process_onchain_arbs ever gets, in order

ASSUME CyclesAssumption ==
  /\ SwapPools \in [Arbs -> Seq(ArbPools)]
  /\ \A a \in Arbs : Len(SwapPools[a]) \in {2, 3}
  /\ Profits \subseteq Int
  /\ TaskIds \subseteq Nat

VARIABLES
  queue,   \* bot_state.pools_to_process
  task     \* the tasks of process_onchain_arbs

arbVars == <<queue, task>>

States == {"none", "created", "calculating", "selecting", "reported", "empty"}
Result == [arb : Arbs, profit : Profits]

(* arbs: the argument arb_helpers; pending: the futures not completed;     *)
(* results: calculation_results; work: the indices of the results in       *)
(* all_profitable_arbs; chosen: those in arbs_without_overlap.             *)
Task == [state   : States,
         arbs    : SUBSET Arbs,
         pending : SUBSET Arbs,
         results : Seq(Result),
         work    : SUBSET Nat,
         chosen  : SUBSET Nat]

NoTask == [state |-> "none", arbs |-> {}, pending |-> {}, results |-> <<>>,
           work |-> {}, chosen |-> {}]

ArbTypeOK ==
  /\ queue \in Seq(ArbPools)
  /\ task \in [TaskIds -> Task]

ArbInit ==
  /\ queue = <<>>
  /\ task = [t \in TaskIds |-> NoTask]

-----------------------------------------------------------------------------
(* A cycle of two pools is affected by either, one of three pools by the   *)
(* middle one only.                                                        *)
\* A faulty variant of FindAffectedArbs.
FirstPoolOnly(p) == {a \in Arbs : SwapPools[a][1] = p}
\* A faulty variant of FindAffectedArbs.
ThreePoolAlways(p) ==
  {a \in Arbs : Len(SwapPools[a]) = 3 \/ p \in {SwapPools[a][1], SwapPools[a][2]}}
FindAffectedArbs(p) ==
  {a \in Arbs : IF Len(SwapPools[a]) = 2
                THEN p \in {SwapPools[a][1], SwapPools[a][2]}
                ELSE p = SwapPools[a][2]}

(* One turn of find_onchain_arbs: get, find, create_task, task_done.       *)
FindOnchainArbs ==
  /\ queue # <<>>
  /\ queue' = Tail(queue)
  /\ LET found == FindAffectedArbs(Head(queue))
     IN IF found = {}
        THEN UNCHANGED task
        ELSE \E t \in TaskIds :
               /\ task[t].state = "none"
               /\ \A s \in TaskIds : s < t => task[s].state # "none"
               /\ task' = [task EXCEPT ![t].state = "created",
                                       ![t].arbs = found]

(* The task's first turn submits every cycle; the submissions that raise   *)
(* are passed over.                                                        *)
SubmitCalculations(t) ==
  /\ task[t].state = "created"
  /\ \E sent \in SUBSET task[t].arbs :
       task' = [task EXCEPT ![t].state = "calculating", ![t].pending = sent]
  /\ UNCHANGED queue

(* A future completes, in any order, with a result or with an exception.   *)
\* A faulty variant of CalculationDone.
ResultWithoutProfit(t, a, profit) ==
  /\ a \in task[t].pending
  /\ task' = [task EXCEPT ![t].pending = @ \ {a},
                          ![t].results = Append(@, [arb |-> a])]
  /\ UNCHANGED queue
CalculationDone(t, a, profit) ==
  /\ a \in task[t].pending
  /\ task' = [task EXCEPT ![t].pending = @ \ {a},
                          ![t].results = Append(@, [arb |-> a, profit |-> profit])]
  /\ UNCHANGED queue

\* A faulty variant of CalculationFailed.
CalculationAborted(t, a) ==
  /\ a \in task[t].pending
  /\ task' = [task EXCEPT ![t].state = "none", ![t].pending = {}]
  /\ UNCHANGED queue
CalculationFailed(t, a) ==
  /\ a \in task[t].pending
  /\ task' = [task EXCEPT ![t].pending = @ \ {a}]
  /\ UNCHANGED queue

(* The results kept: those with profit_amount >= 0.                        *)
\* A faulty variant of Profitable.
AllResults(results) == 1 .. Len(results)
Profitable(results) == {i \in 1 .. Len(results) : results[i].profit >= 0}

SortResults(t) ==
  LET work == Profitable(task[t].results)
  IN /\ task[t].state = "calculating"
     /\ task[t].pending = {}
     /\ task' = [task EXCEPT ![t].state = IF work = {} THEN "empty" ELSE "selecting",
                             ![t].work = work]
     /\ UNCHANGED queue

(* sorted(..., reverse=True) is stable: equal profits stay in the order of *)
(* completion.                                                             *)
\* A faulty variant of SortedBefore.
ReverseSorted(results, i, j) ==
  \/ results[i].profit < results[j].profit
  \/ results[i].profit = results[j].profit /\ i <= j
SortedBefore(results, i, j) ==
  \/ results[i].profit > results[j].profit
  \/ results[i].profit = results[j].profit /\ i <= j

PoolSet(a) == {SwapPools[a][k] : k \in 1 .. Len(SwapPools[a])}

Conflict(results, i, j) ==
  PoolSet(results[i].arb) \cap PoolSet(results[j].arb) # {}

(* One turn of the selection loop: pop the most profitable cycle and drop  *)
(* the cycles that share a pool with it.                                   *)
SelectMostProfitable(t) ==
  /\ task[t].state = "selecting"
  /\ \E i \in task[t].work :
       LET rest == {j \in task[t].work \ {i} : ~Conflict(task[t].results, i, j)}
       IN /\ \A j \in task[t].work : SortedBefore(task[t].results, i, j)
          /\ task' = [task EXCEPT
                        ![t].state = IF rest = {} THEN "reported" ELSE "selecting",
                        ![t].work = rest,
                        ![t].chosen = @ \cup {i}]
  /\ UNCHANGED queue

RunTask(t) ==
  \/ SubmitCalculations(t)
  \/ \E a \in Arbs : \/ \E profit \in Profits : CalculationDone(t, a, profit)
                     \/ CalculationFailed(t, a)
  \/ SortResults(t)
  \/ SelectMostProfitable(t)

ArbNext ==
  \/ FindOnchainArbs
  \/ \E t \in TaskIds : RunTask(t)

(* The event service puts a pool on the queue.                             *)
Put(p) ==
  /\ queue' = Append(queue, p)
  /\ UNCHANGED task

(* In the runs TaskIds bounds the puts.                                    *)
PutPool ==
  /\ Len(queue) + Cardinality({t \in TaskIds : task[t].state # "none"})
       < Cardinality(TaskIds)
  /\ \E p \in ArbPools : Put(p)

(* The asyncio loop runs ready tasks, and the process pool completes every *)
(* future it accepted, at the latest with an exception.                    *)
ArbFairness ==
  /\ WF_arbVars(FindOnchainArbs)
  /\ \A t \in TaskIds : WF_arbVars(RunTask(t))

ArbSpec == ArbInit /\ [][ArbNext \/ PutPool]_arbVars
ArbFairSpec == ArbSpec /\ ArbFairness

(* With any number of puts, as in the running bot.                         *)
ArbOpenNext == ArbNext \/ \E p \in ArbPools : Put(p)
ArbOpenSpec == ArbInit /\ [][ArbOpenNext]_arbVars

-----------------------------------------------------------------------------
(* The tasks as a selector: while the loop of the selection runs, what it  *)
(* has chosen so far is not visible.                                       *)
Phase(T) ==
  CASE T.state = "none" -> "idle"
    [] T.state \in {"created", "calculating", "selecting"} -> "working"
    [] T.state \in {"reported", "empty"} -> "done"

Earned(T) == {T.results[i] : i \in 1 .. Len(T.results)}

Kept(T) == {T.results[i] : i \in IF Phase(T) = "done" THEN T.chosen ELSE {}}

Sel == INSTANCE Selector WITH
         phase  <- [t \in TaskIds |-> Phase(task[t])],
         earned <- [t \in TaskIds |-> Earned(task[t])],
         kept   <- [t \in TaskIds |-> Kept(task[t])]

-----------------------------------------------------------------------------
(* Properties.                                                             *)

(* Every task decides once, after its last result, and for a selection     *)
(* that is as good as its results allow ("selects the most profitable      *)
(* arbitrage opportunities without overlap", process_onchain_arbs): no     *)
(* failure, order of completion or other task revises what was kept.       *)
ImplementsSelector == Sel!Spec

(* A cycle with a profitable result is only left out for one that earns at *)
(* least as much and uses one of its pools: the loop drops nothing else,   *)
(* and nothing is lost among futures that complete in any order or fail.   *)
LeftOutForBetter ==
  \A t \in TaskIds : task[t].state \in {"reported", "empty"} =>
    \A i \in 1 .. Len(task[t].results) :
      \/ task[t].results[i].profit < 0
      \/ i \in task[t].chosen
      \/ \E j \in task[t].chosen :
           /\ task[t].results[j].profit >= task[t].results[i].profit
           /\ PoolSet(task[t].results[i].arb)
                \cap PoolSet(task[t].results[j].arb) # {}

(* As every cycle of a task contains the pool that changed, one cycle is   *)
(* reported, and none of the task's results earns more: find_affected_arbs *)
(* and the selection together.                                             *)
ReportsTheBest ==
  \A t \in TaskIds : task[t].state = "reported" =>
    \E i \in task[t].chosen :
      /\ task[t].chosen = {i}
      /\ \A j \in 1 .. Len(task[t].results) :
           task[t].results[j].profit <= task[t].results[i].profit

(* Every pool put on the queue is taken, and every task that was created   *)
(* comes to its end, although submissions and calculations may raise.      *)
EveryTaskEnds ==
  /\ queue # <<>> ~> queue = <<>>
  /\ \A t \in TaskIds :
       task[t].state = "created" ~> task[t].state \in {"reported", "empty"}
=============================================================================
