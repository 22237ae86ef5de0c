---------------------------- MODULE ArbBotProofs ----------------------------
(***************************************************************************)
(* No update is lost between the two services, for any pools, cycles,      *)
(* tasks and faults but a failing update_snapshot.  The argument follows   *)
(* the address of a changed pool: a handler that changes a helper creates  *)
(* its put task (HandlerQueues), the put task hands it to the queue, and   *)
(* find_onchain_arbs makes a task of it that holds every two-pool cycle    *)
(* of the pool (TwoPoolAffected).                                          *)
(***************************************************************************)
EXTENDS ArbBot, EventServiceProofs

Cycles == {c \in Arbs : Len(SwapPools[c]) = 2}

(* As long as a pool of a cycle was not dropped, its helper exists.        *)
LoadedHeld == \A p \in LoadedPools : p \in orphaned \/ helper[p] # None

TasksOK == task \in [TaskIds -> Arbitrage!Task]

BotInv == IInv /\ TasksOK /\ LoadedHeld /\ NoLostUpdate

-----------------------------------------------------------------------------
(* Cycles.                                                                 *)

LEMMA PoolsOfCycles ==
  ASSUME NEW a \in Arbs, NEW p \in Arbitrage!PoolSet(a)
  PROVE  p \in LoadedPools /\ p \in Pools
<1>1. p \in LoadedPools
  BY LoadedAssumption
<1> QED
  BY <1>1, FactoryAssumption, PoolsAssumption

(* Both pools of a two-pool cycle affect it.                               *)
LEMMA TwoPoolAffected ==
  ASSUME NEW a \in Cycles, NEW p \in Arbitrage!PoolSet(a)
  PROVE  a \in Arbitrage!FindAffectedArbs(p)
<1>1. a \in Arbs /\ Len(SwapPools[a]) = 2
  BY DEF Cycles
<1>2. PICK k \in 1 .. 2 : p = SwapPools[a][k]
  BY <1>1 DEF Arbitrage!PoolSet
<1>3. p \in {SwapPools[a][1], SwapPools[a][2]}
  BY <1>2
<1> QED
  BY <1>1, <1>3 DEF Arbitrage!FindAffectedArbs

-----------------------------------------------------------------------------
(* The event service.                                                      *)

(* A handler leaves the helper of a pool as it is, drops it, or creates    *)
(* the put task of the pool.                                               *)
Queues(p) ==
  \/ UNCHANGED <<helper, puts>>
  \/ \E x : /\ helper' = [helper EXCEPT ![p] = x]
            /\ \/ UNCHANGED puts /\ (helper[p] # None => x \in {None, helper[p]})
               \/ puts' = Append(puts, p)

LEMMA HandlerQueues ==
  ASSUME IInv, Handle, "snapshot" \notin Faults
  PROVE  \E p \in Pools : Queues(p)
<1> DEFINE m == Head(chan)
           p == m.pool
           b == StateBlock(m)
<1>1. Receive
  BY DEF Handle, FirstEvent, AnonymousEvent, OtherEvent, ProcessMintEvent,
         ProcessBurnEvent, ProcessSwapEvent, ProcessSyncEvent,
         ProcessNewV2PoolEvent, ProcessNewV3PoolEvent, Dispatch
<1>2. p \in Pools
  BY <1>1, MessageOK
<1>3. ASSUME NEW c, Keep(p, GetPool(p, c)) PROVE Queues(p)
  BY <1>3 DEF Keep, GetPool, Queues
<1>4. ASSUME Keep(p, None) PROVE Queues(p)
  BY <1>4 DEF Keep, Queues
<1>5. ASSUME NEW x, Store(p, x) PROVE Queues(p)
  BY <1>5 DEF Store, Queues
<1>6. ASSUME Ignore \/ Raise PROVE Queues(p)
  BY <1>6 DEF Ignore, Raise, Queues
<1>7. ASSUME NEW c, NoHelper(p, c) PROVE Queues(p)
  BY <1>6, <1>7 DEF NoHelper
<1>8. ASSUME NEW x, LiquidityChanged(p, x) PROVE Queues(p)
  BY <1>5, <1>8 DEF LiquidityChanged
<1>9. ASSUME NEW c, LateDecodeError(p, GetPool(p, c)) PROVE Queues(p)
  BY <1>9 DEF LateDecodeError, GetPool, Queues
<1>10. ASSUME NEW c, UpdateRefused(p, GetPool(p, c), m) PROVE Queues(p)
  BY <1>3, <1>10 DEF UpdateRefused
<1>11. CASE ProcessMintEvent
  <2>1. \/ NoHelper(p, b)
        \/ LateDecodeError(p, GetPool(p, b))
        \/ Keep(p, GetPool(p, b))
        \/ UpdateRefused(p, GetPool(p, b), m)
        \/ LiquidityChanged(p, Moved(GetPool(p, b), m.val, m.block))
    BY <1>11 DEF ProcessMintEvent
  <2> HIDE DEF m, p, b
  <2> QED
    BY <1>2, <1>3, <1>7, <1>8, <1>9, <1>10, <2>1
<1>12. CASE ProcessBurnEvent
  <2>1. \/ NoHelper(p, b)
        \/ LateDecodeError(p, GetPool(p, b))
        \/ Keep(p, GetPool(p, b))
        \/ UpdateRefused(p, GetPool(p, b), m)
        \/ Keep(p, None)
        \/ LiquidityChanged(p, Moved(GetPool(p, b), -m.val, m.block))
    BY <1>12 DEF ProcessBurnEvent, AssertionFailed
  <2> HIDE DEF m, p, b
  <2> QED
    BY <1>2, <1>3, <1>4, <1>7, <1>8, <1>9, <1>10, <2>1
<1>13. CASE ProcessSwapEvent
  <2>1. \/ Raise
        \/ NoHelper(p, b)
        \/ UpdateRefused(p, GetPool(p, b), m)
        \/ Store(p, Replaced(GetPool(p, b), m))
    BY <1>13 DEF ProcessSwapEvent
  <2> HIDE DEF m, p, b
  <2> QED
    BY <1>2, <1>5, <1>6, <1>7, <1>10, <2>1
<1>14. CASE ProcessSyncEvent
  <2>1. \/ Raise
        \/ NoHelper(p, head)
        \/ UpdateRefused(p, GetPool(p, head), m)
        \/ Store(p, Synced(m))
    BY <1>14 DEF ProcessSyncEvent
  <2> HIDE DEF m, p, b
  <2> QED
    BY <1>2, <1>5, <1>6, <1>7, <1>10, <2>1
<1>15. CASE ProcessNewV2PoolEvent \/ ProcessNewV3PoolEvent
  <2>1. Raise \/ Ignore \/ Keep(p, GetPool(p, m.block))
    BY <1>15 DEF ProcessNewV2PoolEvent, ProcessNewV3PoolEvent, NewPoolEvent
  <2> HIDE DEF m, p, b
  <2> QED
    BY <1>2, <1>3, <1>6, <2>1
<1>16. CASE FirstEvent \/ AnonymousEvent \/ OtherEvent
  <2>1. UNCHANGED <<helper, puts>>
    BY <1>16 DEF FirstEvent, AnonymousEvent, OtherEvent
  <2> QED
    BY <1>2, <2>1 DEF Queues
<1> QED
  BY <1>11, <1>12, <1>13, <1>14, <1>15, <1>16 DEF Handle

(* The other steps of the service and its environment leave the helpers    *)
(* alone and at most move an address from its put task to the queue.       *)
LEMMA OthersHandOver ==
  ASSUME Service \/ Environment
  PROVE  \/ Handle /\ UNCHANGED queue
         \/ RunPut /\ UNCHANGED helper
         \/ UNCHANGED <<helper, puts, queue>>
<1>1. CASE Handle
  <2>1. Receive
    BY <1>1 DEF Handle, FirstEvent, AnonymousEvent, OtherEvent, ProcessMintEvent,
         ProcessBurnEvent, ProcessSwapEvent, ProcessSyncEvent,
         ProcessNewV2PoolEvent, ProcessNewV3PoolEvent, Dispatch
  <2> QED
    BY <1>1, <2>1 DEF Receive
<1>2. CASE Subscribe \/ Wake \/ Cancelled \/ RunPut \/ Environment
  BY <1>2 DEF Subscribe, Wake, Cancelled, RunPut, Environment, LogEmitted,
       BlockMined, Reorder, Disconnect, UpdateBotState, serviceVars
<1> QED
  BY <1>1, <1>2 DEF Service

-----------------------------------------------------------------------------
(* One task changes.                                                       *)

(* A task that is not "created" before or after carries no promise.        *)
Replaces(t, T) ==
  /\ T \in Arbitrage!Task
  /\ T.state # "created"
  /\ task' = [task EXCEPT ![t] = T]
  /\ UNCHANGED queue

LEMMA SubmitReplaces ==
  ASSUME TasksOK, NEW t \in TaskIds, Arbitrage!SubmitCalculations(t)
  PROVE  \E T : Replaces(t, T)
<1>1. PICK sent \in SUBSET task[t].arbs :
        task' = [task EXCEPT ![t].state = "calculating", ![t].pending = sent]
  BY DEF Arbitrage!SubmitCalculations
<1> DEFINE T == [task[t] EXCEPT !.state = "calculating", !.pending = sent]
<1>2. task[t] \in Arbitrage!Task
  BY DEF TasksOK
<1>3. T \in Arbitrage!Task /\ T.state = "calculating"
  BY <1>2 DEF Arbitrage!Task, Arbitrage!States
<1>4. task' = [task EXCEPT ![t] = T]
  BY <1>1 DEF TasksOK
<1> QED
  BY <1>3, <1>4 DEF Replaces, Arbitrage!SubmitCalculations

LEMMA FinishReplaces ==
  ASSUME TasksOK, NEW t \in TaskIds, FinishArbs(t)
  PROVE  \E T : Replaces(t, T)
<1>1. task[t] \in Arbitrage!Task /\ task[t].state # "created"
  BY DEF TasksOK, FinishArbs
<1>2. ASSUME NEW a \in Arbs, NEW profit \in Profits, Arbitrage!CalculationDone(t, a, profit)
      PROVE  \E T : Replaces(t, T)
  <2> DEFINE r == [arb |-> a, profit |-> profit]
             T == [task[t] EXCEPT !.pending = @ \ {a}, !.results = Append(@, r)]
  <2>1. task[t].results \in Seq(Arbitrage!Result) /\ r \in Arbitrage!Result
    BY <1>1 DEF Arbitrage!Task, Arbitrage!Result
  <2>2. Append(task[t].results, r) \in Seq(Arbitrage!Result)
    BY <2>1
  <2>3. T \in Arbitrage!Task /\ T.state = task[t].state
    BY <1>1, <2>2 DEF Arbitrage!Task
  <2>4. task' = [task EXCEPT ![t] = T]
    BY <1>2 DEF TasksOK, Arbitrage!CalculationDone
  <2> QED
    BY <1>1, <1>2, <2>3, <2>4 DEF Replaces, Arbitrage!CalculationDone
<1>3. ASSUME NEW a \in Arbs, Arbitrage!CalculationFailed(t, a)
      PROVE  \E T : Replaces(t, T)
  <2> DEFINE T == [task[t] EXCEPT !.pending = @ \ {a}]
  <2>1. T \in Arbitrage!Task /\ T.state = task[t].state
    BY <1>1 DEF Arbitrage!Task
  <2>2. task' = [task EXCEPT ![t] = T]
    BY <1>3 DEF TasksOK, Arbitrage!CalculationFailed
  <2> QED
    BY <1>1, <1>3, <2>1, <2>2 DEF Replaces, Arbitrage!CalculationFailed
<1>4. CASE Arbitrage!SortResults(t)
  <2> DEFINE work == Arbitrage!Profitable(task[t].results)
             T == [task[t] EXCEPT !.state = IF work = {} THEN "empty" ELSE "selecting",
                                  !.work = work]
  <2>1. work \subseteq Nat
    BY DEF Arbitrage!Profitable
  <2>2. task' = [task EXCEPT ![t] = T] /\ UNCHANGED queue
    BY <1>4 DEF TasksOK, Arbitrage!SortResults
  <2> HIDE DEF work
  <2>3. T \in Arbitrage!Task /\ T.state # "created"
    BY <1>1, <2>1 DEF Arbitrage!Task, Arbitrage!States
  <2> QED
    BY <2>2, <2>3 DEF Replaces
<1>5. CASE Arbitrage!SelectMostProfitable(t)
  <2>1. PICK i \in task[t].work :
          task' = [task EXCEPT
                     ![t].state = IF {j \in task[t].work \ {i} :
                                        ~Arbitrage!Conflict(task[t].results, i, j)} = {}
                                  THEN "reported" ELSE "selecting",
                     ![t].work = {j \in task[t].work \ {i} :
                                    ~Arbitrage!Conflict(task[t].results, i, j)},
                     ![t].chosen = @ \cup {i}]
    BY <1>5 DEF Arbitrage!SelectMostProfitable
  <2> DEFINE rest == {j \in task[t].work \ {i} :
                        ~Arbitrage!Conflict(task[t].results, i, j)}
             T == [task[t] EXCEPT !.state = IF rest = {} THEN "reported" ELSE "selecting",
                                  !.work = rest, !.chosen = @ \cup {i}]
  <2>2. task[t].work \subseteq Nat /\ i \in Nat /\ rest \subseteq Nat
    BY <1>1 DEF Arbitrage!Task
  <2>3. task' = [task EXCEPT ![t] = T]
    BY <2>1 DEF TasksOK
  <2> HIDE DEF rest
  <2>4. T \in Arbitrage!Task /\ T.state # "created"
    BY <1>1, <2>2 DEF Arbitrage!Task, Arbitrage!States
  <2> QED
    BY <1>5, <2>3, <2>4 DEF Replaces, Arbitrage!SelectMostProfitable
<1>6. ~Arbitrage!SubmitCalculations(t)
  BY <1>1 DEF Arbitrage!SubmitCalculations
<1> QED
  BY <1>2, <1>3, <1>4, <1>5, <1>6 DEF FinishArbs, Arbitrage!RunTask

-----------------------------------------------------------------------------
(* Each step of the bot keeps the invariant.                               *)

LEMMA BotInitOK == BotInit => BotInv
<1> SUFFICES ASSUME BotInit PROVE BotInv
  OBVIOUS
<1>1. IInv
  BY InitIInv DEF BotInit
<1>2. TasksOK
  <2>1. Arbitrage!NoTask \in Arbitrage!Task
    BY EmptySeq DEF Arbitrage!NoTask, Arbitrage!Task, Arbitrage!States
  <2> QED
    BY <2>1 DEF BotInit, TasksOK
<1>3. LoadedHeld
  <2> SUFFICES ASSUME NEW p \in LoadedPools PROVE helper[p] # None
    BY DEF LoadedHeld
  <2>1. p \in Pools /\ now[p] \in Nat
    BY FactoryAssumption, PoolsAssumption, <1>1
    DEF BotInit, Init, ChainInit, IInv, HistoryOK, States
  <2>2. helper[p] = [val |-> now[p], book |-> now[p], block |-> 0]
    BY <2>1 DEF BotInit, Init
  <2>3. helper[p] \in Helper
    BY <2>1, <2>2 DEF Helper
  <2> QED
    BY <2>3, NoneAssumption
<1>4. NoLostUpdate
  BY DEF BotInit, NoLostUpdate, Stale
<1> QED
  BY <1>1, <1>2, <1>3, <1>4 DEF BotInv

(* What was on its way stays on its way when nothing is taken away.        *)
LEMMA StaysScheduled ==
  ASSUME NEW a, NEW p, Scheduled(a, p), UNCHANGED <<queue, task>>,
         \A i \in 1 .. Len(puts) : puts[i] = p => \E j \in 1 .. Len(puts') : puts'[j] = p
  PROVE  Scheduled(a, p)'
  BY DEF Scheduled

LEMMA ListeningOK ==
  ASSUME BotInv, Listening, "snapshot" \notin Faults PROVE BotInv'
<1>0. /\ IInv /\ TasksOK /\ LoadedHeld /\ NoLostUpdate
      /\ Service \/ Environment
      /\ orphaned' = orphaned \cup {p \in Pools : helper[p] # None /\ helper'[p] = None}
      /\ task' = task /\ tried' = tried
      /\ puts \in Seq(Pools) /\ queue \in Seq(Pools)
      /\ helper \in [Pools -> Helper \cup {None}]
  BY DEF BotInv, Listening, IInv, HelpersOK, StateOK
<1>1. IInv'
  BY <1>0, StepIInv DEF Next
<1>2. TasksOK'
  BY <1>0 DEF TasksOK
<1>3. LoadedHeld'
  BY <1>0, FactoryAssumption, PoolsAssumption DEF LoadedHeld
<1>4. NoLostUpdate'
  <2> SUFFICES ASSUME NEW a \in Cycles, NEW p \in Arbitrage!PoolSet(a), Stale(a, p)'
               PROVE  Scheduled(a, p)'
    BY DEF NoLostUpdate, Cycles, Arbitrage!PoolSet
  <2>1. a \in Arbs /\ p \in Pools /\ p \in LoadedPools
    BY PoolsOfCycles DEF Cycles
  <2>2. p \notin orphaned' /\ tried[a][p] # State(helper'[p])
    BY <1>0 DEF Stale, State
  <2>3. p \notin orphaned /\ helper[p] # None /\ helper'[p] # None
    BY <1>0, <2>1, <2>2 DEF LoadedHeld
  <2>4. ASSUME helper'[p] = helper[p] PROVE Scheduled(a, p)
    BY <1>0, <2>2, <2>3, <2>4 DEF Stale, NoLostUpdate, Cycles
  <2>5. CASE UNCHANGED <<helper, puts, queue>>
    BY <1>0, <2>4, <2>5, StaysScheduled
  <2>6. CASE Handle /\ UNCHANGED queue
    <3>1. PICK q \in Pools : Queues(q)
      BY <1>0, <2>6, HandlerQueues
    <3>2. CASE UNCHANGED <<helper, puts>>
      BY <1>0, <2>4, <2>6, <3>2, StaysScheduled
    <3>3. ASSUME NEW x, helper' = [helper EXCEPT ![q] = x],
                 UNCHANGED puts, helper[q] # None => x \in {None, helper[q]}
          PROVE  Scheduled(a, p)'
      <4>1. helper'[p] = helper[p]
        BY <1>0, <2>1, <2>3, <3>3
      <4> QED
        BY <1>0, <2>4, <2>6, <3>3, <4>1, StaysScheduled
    <3>4. ASSUME NEW x, helper' = [helper EXCEPT ![q] = x], puts' = Append(puts, q)
          PROVE  Scheduled(a, p)'
      <4>1. /\ Len(puts') = Len(puts) + 1 /\ Len(puts) \in Nat
            /\ puts'[Len(puts) + 1] = q
            /\ \A i \in 1 .. Len(puts) : puts'[i] = puts[i]
        BY <1>0, <3>4
      <4>2. \A i \in 1 .. Len(puts) : i \in 1 .. Len(puts')
        BY <4>1
      <4>3. CASE p = q
        <5>1. Len(puts) + 1 \in 1 .. Len(puts')
          BY <4>1
        <5> QED
          BY <4>1, <4>3, <5>1 DEF Scheduled
      <4>4. CASE p # q
        <5>1. helper'[p] = helper[p]
          BY <1>0, <2>1, <3>4, <4>4
        <5> QED
          BY <1>0, <2>4, <2>6, <4>1, <4>2, <5>1, StaysScheduled
      <4> QED
        BY <4>3, <4>4
    <3> QED
      BY <3>1, <3>2, <3>3, <3>4 DEF Queues
  <2>7. CASE RunPut /\ UNCHANGED helper
    <3>1. Scheduled(a, p)
      BY <2>4, <2>7
    <3>2. /\ puts # <<>> /\ puts' = Tail(puts) /\ queue' = Append(queue, Head(puts))
      BY <2>7 DEF RunPut
    <3>3. /\ Len(queue') = Len(queue) + 1 /\ Len(queue) \in Nat
          /\ queue'[Len(queue) + 1] = puts[1]
          /\ \A i \in 1 .. Len(queue) : queue'[i] = queue[i]
      BY <1>0, <3>2
    <3>4. CASE \E i \in 1 .. Len(queue) : queue[i] = p
      <4>1. \A i \in 1 .. Len(queue) : i \in 1 .. Len(queue')
        BY <3>3
      <4> QED
        BY <3>3, <3>4, <4>1 DEF Scheduled
    <3>5. CASE puts[1] = p
      <4>1. Len(queue) + 1 \in 1 .. Len(queue')
        BY <3>3
      <4> QED
        BY <3>3, <3>5, <4>1 DEF Scheduled
    <3>6. ASSUME NEW i \in 1 .. Len(puts), puts[i] = p, puts[1] # p
          PROVE  Scheduled(a, p)'
      <4>1. i - 1 \in 1 .. Len(puts') /\ puts'[i - 1] = puts[i]
        BY <1>0, <3>2, <3>6
      <4> QED
        BY <3>6, <4>1 DEF Scheduled
    <3>7. CASE \E t \in TaskIds : task[t].state = "created" /\ a \in task[t].arbs
      BY <1>0, <3>7 DEF Scheduled
    <3> QED
      BY <3>1, <3>4, <3>5, <3>6, <3>7 DEF Scheduled
  <2> QED
    BY <1>0, <2>5, <2>6, <2>7, OthersHandOver
<1> QED
  BY <1>1, <1>2, <1>3, <1>4 DEF BotInv

LEMMA FindArbsOK == ASSUME BotInv, FindArbs PROVE BotInv'
<1>0. /\ IInv /\ TasksOK /\ LoadedHeld /\ NoLostUpdate
      /\ Arbitrage!FindOnchainArbs /\ queue # <<>> /\ queue' = Tail(queue)
      /\ UNCHANGED <<otherServiceVars, orphaned, tried>>
      /\ puts \in Seq(Pools) /\ queue \in Seq(Pools)
  BY DEF BotInv, FindArbs, IInv, StateOK, Arbitrage!FindOnchainArbs
<1>1. IInv'
  <2>1. TakePool
    BY <1>0 DEF TakePool, otherServiceVars
  <2> QED
    BY <1>0, <2>1, StepIInv DEF Next
<1> DEFINE found == Arbitrage!FindAffectedArbs(Head(queue))
<1>2. \/ found = {} /\ task' = task
      \/ \E t \in TaskIds :
           /\ task[t].state = "none"
           /\ task' = [task EXCEPT ![t].state = "created", ![t].arbs = found]
  BY <1>0 DEF Arbitrage!FindOnchainArbs
<1>3. found \subseteq Arbs
  BY DEF Arbitrage!FindAffectedArbs
<1> HIDE DEF found
<1>4. ASSUME NEW t \in TaskIds, task[t].state = "none",
             task' = [task EXCEPT ![t].state = "created", ![t].arbs = found]
      PROVE  /\ TasksOK'
             /\ task'[t].state = "created" /\ task'[t].arbs = found
             /\ \A s \in TaskIds : task[s].state = "created" => task'[s] = task[s]
  <2> DEFINE T == [task[t] EXCEPT !.state = "created", !.arbs = found]
  <2>1. task[t] \in Arbitrage!Task /\ task \in [TaskIds -> Arbitrage!Task]
    BY <1>0 DEF TasksOK
  <2>2. T \in Arbitrage!Task /\ T.state = "created" /\ T.arbs = found
    BY <1>3, <2>1 DEF Arbitrage!Task, Arbitrage!States
  <2>3. task' = [task EXCEPT ![t] = T]
    BY <1>4, <2>1
  <2> HIDE DEF T
  <2> QED
    BY <1>4, <2>1, <2>2, <2>3 DEF TasksOK
<1>5. TasksOK' /\ \A s \in TaskIds : task[s].state = "created" => task'[s] = task[s]
  BY <1>0, <1>2, <1>4 DEF TasksOK
<1>6. LoadedHeld'
  BY <1>0 DEF LoadedHeld, otherServiceVars
<1>7. NoLostUpdate'
  <2> SUFFICES ASSUME NEW a \in Cycles, NEW p \in Arbitrage!PoolSet(a), Stale(a, p)'
               PROVE  Scheduled(a, p)'
    BY DEF NoLostUpdate, Cycles, Arbitrage!PoolSet
  <2>1. Scheduled(a, p)
    BY <1>0 DEF NoLostUpdate, Cycles, Stale, State, otherServiceVars
  <2>2. CASE \E i \in 1 .. Len(puts) : puts[i] = p
    BY <1>0, <2>2 DEF Scheduled, otherServiceVars
  <2>3. CASE \E s \in TaskIds : task[s].state = "created" /\ a \in task[s].arbs
    BY <1>5, <2>3 DEF Scheduled
  <2>4. CASE Head(queue) = p
    <3>1. a \in found
      BY <2>4, TwoPoolAffected DEF found
    <3> QED
      BY <1>2, <1>4, <3>1 DEF Scheduled
  <2>5. ASSUME NEW i \in 1 .. Len(queue), queue[i] = p, Head(queue) # p
        PROVE  Scheduled(a, p)'
    <3>1. i - 1 \in 1 .. Len(queue') /\ queue'[i - 1] = queue[i]
      BY <1>0, <2>5
    <3> QED
      BY <2>5, <3>1 DEF Scheduled
  <2> QED
    BY <2>1, <2>2, <2>3, <2>4, <2>5 DEF Scheduled
<1> QED
  BY <1>1, <1>5, <1>6, <1>7 DEF BotInv

(* A turn of a task only matters for the cycles whose evaluation it was.   *)
LEMMA TurnOK ==
  ASSUME BotInv, NEW t \in TaskIds, NEW T, Replaces(t, T),
         UNCHANGED <<otherServiceVars, orphaned>>,
         \A a \in Cycles : \A p \in Arbitrage!PoolSet(a) :
           Stale(a, p)' => /\ Stale(a, p)
                           /\ ~(task[t].state = "created" /\ a \in task[t].arbs)
  PROVE  BotInv'
<1>0. /\ IInv /\ TasksOK /\ LoadedHeld /\ NoLostUpdate
      /\ task' = [task EXCEPT ![t] = T] /\ T \in Arbitrage!Task
      /\ queue' = queue
  BY DEF BotInv, Replaces
<1>1. IInv'
  <2>1. UNCHANGED vars
    BY <1>0 DEF otherServiceVars, vars, serviceVars
  <2> QED
    BY <1>0, <2>1, StepIInv
<1>2. TasksOK'
  BY <1>0 DEF TasksOK
<1>3. LoadedHeld'
  BY <1>0 DEF LoadedHeld, otherServiceVars
<1>4. NoLostUpdate'
  <2> SUFFICES ASSUME NEW a \in Cycles, NEW p \in Arbitrage!PoolSet(a), Stale(a, p)'
               PROVE  Scheduled(a, p)'
    BY DEF NoLostUpdate, Cycles, Arbitrage!PoolSet
  <2>1. Stale(a, p) /\ ~(task[t].state = "created" /\ a \in task[t].arbs)
    OBVIOUS
  <2>2. Scheduled(a, p)
    BY <1>0, <2>1 DEF NoLostUpdate, Cycles
  <2>3. \A s \in TaskIds : s # t => task'[s] = task[s]
    BY <1>0 DEF TasksOK
  <2>4. puts' = puts
    BY DEF otherServiceVars
  <2> QED
    BY <1>0, <2>1, <2>2, <2>3, <2>4 DEF Scheduled
<1> QED
  BY <1>1, <1>2, <1>3, <1>4 DEF BotInv

LEMMA EvaluateOK == ASSUME BotInv, NEW t \in TaskIds, EvaluateArbs(t) PROVE BotInv'
<1>1. PICK T : Replaces(t, T)
  BY SubmitReplaces DEF BotInv, EvaluateArbs
<1>2. ASSUME NEW a \in Cycles, NEW p \in Arbitrage!PoolSet(a), Stale(a, p)'
      PROVE  Stale(a, p) /\ a \notin task[t].arbs
  <2>1. a \in Arbs
    BY DEF Cycles
  <2>2. orphaned' = orphaned /\ helper' = helper /\ Arbitrage!PoolSet(a)' = Arbitrage!PoolSet(a)
    BY DEF EvaluateArbs, otherServiceVars, Arbitrage!PoolSet
  <2>3. p \notin orphaned /\ tried'[a][p] # State(helper[p])
    BY <1>2, <2>2 DEF Stale, State
  <2>4. a \notin task[t].arbs
    <3> SUFFICES ASSUME a \in task[t].arbs PROVE FALSE
      OBVIOUS
    <3>1. tried'[a] = [q \in Arbitrage!PoolSet(a) |->
                        IF q \in orphaned THEN tried[a][q] ELSE State(helper[q])]
      BY <2>1 DEF EvaluateArbs
    <3> QED
      BY <2>3, <3>1
  <2>5. tried'[a] = tried[a]
    BY <2>1, <2>4 DEF EvaluateArbs
  <2> QED
    BY <2>3, <2>4, <2>5 DEF Stale
<1> QED
  BY <1>1, <1>2, TurnOK DEF EvaluateArbs

LEMMA FinishOK == ASSUME BotInv, NEW t \in TaskIds, FinishArbs(t) PROVE BotInv'
<1>1. PICK T : Replaces(t, T)
  BY FinishReplaces DEF BotInv
<1>2. ASSUME NEW a \in Cycles, NEW p \in Arbitrage!PoolSet(a), Stale(a, p)'
      PROVE  Stale(a, p) /\ task[t].state # "created"
  BY <1>2 DEF FinishArbs, otherServiceVars, Stale, State
<1> QED
  BY <1>1, <1>2, TurnOK DEF FinishArbs

LEMMA BotStepOK ==
  ASSUME "snapshot" \notin Faults PROVE BotInv /\ [BotNext]_botVars => BotInv'
<1> SUFFICES ASSUME BotInv, [BotNext]_botVars PROVE BotInv'
  OBVIOUS
<1>1. CASE UNCHANGED botVars
  <2>1. UNCHANGED vars /\ UNCHANGED <<task, orphaned, tried, helper, puts, queue>>
    BY <1>1 DEF botVars, vars, serviceVars
  <2>2. IInv'
    BY <2>1, StepIInv DEF BotInv
  <2> QED
    BY <2>1, <2>2 DEF BotInv, TasksOK, LoadedHeld, NoLostUpdate, Stale, State,
                      Scheduled, Arbitrage!PoolSet
<1> QED
  BY <1>1, ListeningOK, FindArbsOK, EvaluateOK, FinishOK DEF BotNext

(* A two-pool cycle that was last tried with an older state than a         *)
(* helper's is on its way to be tried again, through the put task of the   *)
(* handler, the queue, and the task of find_onchain_arbs - as long as      *)
(* update_snapshot does not raise between the two.                         *)
THEOREM UpdatesReachTheirCycles ==
  ASSUME "snapshot" \notin Faults
  PROVE  BotSpec => []NoLostUpdate
<1>1. BotInit => BotInv
  BY BotInitOK
<1>2. BotInv /\ [BotNext]_botVars => BotInv'
  BY BotStepOK
<1>3. BotInv => NoLostUpdate
  BY DEF BotInv
<1> QED
  BY <1>1, <1>2, <1>3, PTL DEF BotSpec

-----------------------------------------------------------------------------
(* The arbitrage service only takes pools from the queue: what holds of    *)
(* the event service alone holds of it within the bot, such as the block   *)
(* of the reserves that the calculations take along.                       *)
THEOREM RunsTheEventService == BotSpec => Spec /\ []ReservesOfBlock
<1>1. BotInit => Init
  BY DEF BotInit
<1>2. ASSUME [BotNext]_botVars PROVE [Next]_vars
  <2>1. CASE Listening
    BY <2>1 DEF Listening, Next
  <2>2. CASE FindArbs
    <3>1. TakePool
      BY <2>2 DEF FindArbs, Arbitrage!FindOnchainArbs, TakePool, otherServiceVars
    <3> QED
      BY <3>1 DEF Next
  <2>3. ASSUME NEW t \in TaskIds, EvaluateArbs(t) \/ FinishArbs(t)
        PROVE  UNCHANGED vars
    <3>1. UNCHANGED otherServiceVars /\ UNCHANGED queue
      BY <2>3 DEF EvaluateArbs, FinishArbs, Arbitrage!RunTask,
           Arbitrage!SubmitCalculations, Arbitrage!CalculationDone,
           Arbitrage!CalculationFailed, Arbitrage!SortResults,
           Arbitrage!SelectMostProfitable
    <3> QED
      BY <3>1 DEF otherServiceVars, vars, serviceVars
  <2>4. CASE UNCHANGED botVars
    BY <2>4 DEF botVars
  <2> QED
    BY <1>2, <2>1, <2>2, <2>3, <2>4 DEF BotNext
<1>3. BotSpec => Spec
  BY <1>1, <1>2, PTL DEF BotSpec, Spec
<1> QED
  BY <1>3, ReservesFromBlock, PTL

(* And its behaviours are those of the arbitrage service, with the put     *)
(* tasks of the handlers as the ones that put pools: what holds of the     *)
(* selection of process_onchain_arbs alone holds of it within the bot.     *)
THEOREM RunsTheArbitrageService == BotSpec => Arbitrage!ArbOpenSpec
<1>1. BotInit => Arbitrage!ArbInit /\ Init
  BY DEF BotInit, Init, Arbitrage!ArbInit
<1>2. ASSUME IInv, [BotNext]_botVars
      PROVE  [Arbitrage!ArbOpenNext]_(Arbitrage!arbVars)
  <2>1. CASE Listening
    <3>1. UNCHANGED task /\ (RunPut \/ UNCHANGED queue)
      BY <2>1, OthersHandOver DEF Listening
    <3>2. CASE RunPut
      <4>1. queue' = Append(queue, Head(puts)) /\ Head(puts) \in Pools
        BY <1>2, <3>2, TypesFollow, HeadTailProperties DEF RunPut, TypeOK
      <4>2. Arbitrage!Put(Head(puts))
        BY <3>1, <4>1 DEF Arbitrage!Put
      <4> QED
        BY <4>1, <4>2 DEF Arbitrage!ArbOpenNext
    <3>3. CASE UNCHANGED queue
      BY <3>1, <3>3 DEF Arbitrage!arbVars
    <3> QED
      BY <3>1, <3>2, <3>3
  <2>2. CASE FindArbs
    BY <2>2 DEF FindArbs, Arbitrage!ArbNext, Arbitrage!ArbOpenNext
  <2>3. ASSUME NEW t \in TaskIds, EvaluateArbs(t) \/ FinishArbs(t)
        PROVE  Arbitrage!ArbOpenNext
    <3>1. Arbitrage!RunTask(t)
      BY <2>3 DEF EvaluateArbs, FinishArbs, Arbitrage!RunTask
    <3> QED
      BY <3>1 DEF Arbitrage!ArbNext, Arbitrage!ArbOpenNext
  <2>4. CASE UNCHANGED botVars
    BY <2>4 DEF botVars, vars, serviceVars, Arbitrage!arbVars
  <2> QED
    BY <1>2, <2>1, <2>2, <2>3, <2>4 DEF BotNext
<1>3. BotSpec => Spec
  BY RunsTheEventService, PTL
<1> QED
  BY <1>1, <1>2, <1>3, Invariance, PTL DEF BotSpec, Arbitrage!ArbOpenSpec
=============================================================================
