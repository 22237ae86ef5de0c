---------------------------- MODULE EventService ----------------------------
(***************************************************************************)
(* EventService.process_uniswap_events (app/core/event_service.py): the    *)
(* task that listens on the Redis channel cream_events, applies each log   *)
(* to the degenbot helper of its pool and schedules the pool's address on  *)
(* the queue pools_to_process.  The handlers contain no await, so each one *)
(* is one atomic step of the asyncio loop.                                 *)
(*                                                                         *)
(* The degenbot library is external.  From the way the handlers use it:    *)
(*  - get_pool returns the helper a manager holds, or builds one from the  *)
(*    chain at the requested block and keeps it; it raises ManagerError    *)
(*    for a pool of another factory, and any exception if the RPC fails;   *)
(*  - external_update and update_reserves refuse an update older than the  *)
(*    helper and accept one of the helper's own block (a block carries     *)
(*    several updates); a burn below zero fails an assertion.              *)
(***************************************************************************)
EXTENDS Chain

CONSTANTS
  None,
  Factories,        \* addresses of pool factories
  FactoryOf,        \* the factory of each pool
  StartupFactories, \* factories whose managers create_pool_managers built
  LoadedPools,      \* pools whose helpers load_pools built
  SnapshotPools,    \* V3 pools the liquidity snapshot file covers
  Faults            \* the failures the environment may produce

AllFaults == {"late", "disconnect", "reorder", "reset", "cancel",
              "rpc", "manager", "decode", "update", "snapshot"}

Helper == [val : Int, book : Int, block : Nat]

ASSUME FactoryAssumption ==
  /\ FactoryOf \in [Pools -> Factories]
  /\ StartupFactories \subseteq Factories
  /\ LoadedPools \subseteq {p \in Deployed : FactoryOf[p] \in StartupFactories}
  /\ SnapshotPools \subseteq Deployed \cap V3Pools

ASSUME FaultsAssumption == Faults \subseteq AllFaults

ASSUME NoneAssumption == None \notin Helper /\ None \notin Int

VARIABLES
  loop,        \* the listening task: starting, listening, sleeping, stopped
  subscribed,  \* Redis knows the subscription to cream_events
  chan,        \* messages delivered to the subscription and not read yet
  first_event, \* bot_state.first_event
  managers,    \* keys of bot_state.pool_managers
  helper,      \* the helper the managers hold for each pool, or None
  snapshot,    \* bot_state.snapshot: liquidity book of each pool, or None
  puts,        \* tasks created for pools_to_process.put, not run yet
  queue        \* bot_state.pools_to_process

serviceVars == <<loop, subscribed, chan, first_event, managers, helper,
                 snapshot, puts, queue>>
vars == <<chainVars, serviceVars>>

TypeOK ==
  /\ ChainTypeOK
  /\ loop \in {"starting", "listening", "sleeping", "stopped"}
  /\ subscribed \in BOOLEAN
  /\ chan \in Seq(Log)
  /\ first_event \in Nat \cup {None}
  /\ managers \subseteq Factories
  /\ helper \in [Pools -> Helper \cup {None}]
  /\ snapshot \in [Pools -> Int \cup {None}]
  /\ puts \in Seq(Pools)
  /\ queue \in Seq(Pools)

(* The state initialize() leaves: helpers and snapshot at the block before *)
(* the first event, which is block 0 here.                                 *)
Init ==
  /\ ChainInit
  /\ loop = "starting"
  /\ subscribed = FALSE
  /\ chan = <<>>
  /\ first_event = 1
  /\ managers = StartupFactories
  /\ helper = [p \in Pools |->
                 IF p \in LoadedPools
                 THEN [val |-> now[p], book |-> now[p], block |-> 0]
                 ELSE None]
  /\ snapshot = [p \in Pools |-> IF p \in SnapshotPools THEN now[p] ELSE None]
  /\ puts = <<>>
  /\ queue = <<>>

-----------------------------------------------------------------------------
(* The environment: blocks, Redis, and the other tasks of the bot.         *)

LogEmitted ==
  /\ ChainEmits
  /\ UNCHANGED serviceVars

(* CREAM publishes the logs of a mined block.  Redis keeps nothing for an  *)
(* absent subscriber.                                                      *)
BlockMined ==
  /\ loop = "starting" => "late" \in Faults
  /\ Seal
  /\ chan' = IF subscribed THEN chan \o open ELSE chan
  /\ UNCHANGED <<loop, subscribed, first_event, managers, helper, snapshot,
                 puts, queue>>

(* CREAM publishes two logs in the wrong order.                            *)
Reorder ==
  /\ "reorder" \in Faults
  /\ Len(chan) >= 2
  /\ chan' = <<chan[2], chan[1]>> \o SubSeq(chan, 3, Len(chan))
  /\ UNCHANGED <<chainVars, loop, subscribed, first_event, managers, helper,
                 snapshot, puts, queue>>

(* The connection to Redis breaks: listen() raises, the unread messages    *)
(* are gone and so is the subscription, until listen() is entered again.   *)
Disconnect ==
  /\ "disconnect" \in Faults
  /\ loop = "listening"
  /\ loop' = "sleeping"
  /\ subscribed' = FALSE
  /\ chan' = <<>>
  /\ UNCHANGED <<chainVars, first_event, managers, helper, snapshot, puts, queue>>

(* BootstrapService.update_bot_state copies first_event from CREAM's       *)
(* app_state, where a restarted CREAM holds null until its first event.    *)
UpdateBotState(v) ==
  /\ "reset" \in Faults
  /\ first_event' = v
  /\ UNCHANGED <<chainVars, loop, subscribed, chan, managers, helper, snapshot,
                 puts, queue>>

(* A task created for pools_to_process.put runs.  The queue is unbounded,  *)
(* so the put never waits and the tasks run in their creation order.       *)
RunPut ==
  /\ puts # <<>>
  /\ queue' = Append(queue, Head(puts))
  /\ puts' = Tail(puts)
  /\ UNCHANGED <<chainVars, loop, subscribed, chan, first_event, managers,
                 helper, snapshot>>

(* find_onchain_arbs takes a pool from the queue.                          *)
TakePool ==
  /\ queue # <<>>
  /\ queue' = Tail(queue)
  /\ UNCHANGED <<chainVars, loop, subscribed, chan, first_event, managers,
                 helper, snapshot, puts>>

-----------------------------------------------------------------------------
(* The listening loop.                                                     *)

Subscribe ==
  /\ loop = "starting"
  /\ loop' = "listening"
  /\ subscribed' = TRUE
  /\ UNCHANGED <<chainVars, chan, first_event, managers, helper, snapshot,
                 puts, queue>>

\* A faulty variant of Wake.
WakeAfresh ==
  /\ loop = "sleeping"
  /\ loop' = "listening"
  /\ subscribed' = TRUE
  /\ chan' = <<>>
  /\ UNCHANGED <<chainVars, first_event, managers, helper, snapshot, puts, queue>>

(* After the one-second sleep, listen() is entered again, which reconnects *)
(* and subscribes again if the connection was lost.                        *)
Wake ==
  /\ loop = "sleeping"
  /\ loop' = "listening"
  /\ subscribed' = TRUE
  /\ UNCHANGED <<chainVars, chan, first_event, managers, helper, snapshot,
                 puts, queue>>

(* The task is cancelled: the loop returns.                                *)
Cancelled ==
  /\ "cancel" \in Faults
  /\ loop \in {"listening", "sleeping"}
  /\ loop' = "stopped"
  /\ UNCHANGED <<chainVars, subscribed, chan, first_event, managers, helper,
                 snapshot, puts, queue>>

Receive ==
  /\ loop = "listening"
  /\ chan # <<>>
  /\ chan' = Tail(chan)
  /\ UNCHANGED <<chainVars, subscribed, first_event, queue>>

(* The message goes to the handler of its topic.                           *)
Dispatch(kind) ==
  /\ Receive
  /\ first_event # None
  /\ Head(chan).kind = kind

(* While first_event is None the loop looks for the block number in the    *)
(* Redis envelope, which has no "params": KeyError, and the log is lost.   *)
FirstEvent ==
  /\ Receive
  /\ first_event = None
  /\ loop' = "sleeping"
  /\ UNCHANGED <<managers, helper, snapshot, puts>>

(* topics[0] of a log without topics raises IndexError outside the inner   *)
(* try; an unknown topic is skipped.                                       *)
AnonymousEvent ==
  /\ Dispatch("anonymous")
  /\ loop' = "sleeping"
  /\ UNCHANGED <<managers, helper, snapshot, puts>>

OtherEvent ==
  /\ Dispatch("other")
  /\ UNCHANGED <<loop, managers, helper, snapshot, puts>>

-----------------------------------------------------------------------------
(* degenbot, as the handlers use it.                                       *)

Known(p) == FactoryOf[p] \in managers

(* The block the V3 handlers ask get_pool for: the one before the event.   *)
\* A faulty variant of StateBlock.
EventBlock(m) == m.block
StateBlock(m) == m.block - 1

NewHelper(p, b) ==
  [val   |-> hist[p][b],
   book  |-> IF FactoryOf[p] \in StartupFactories /\ snapshot[p] # None
             THEN snapshot[p] ELSE hist[p][b],
   block |-> b]

\* A faulty variant of GetPool.
AlwaysBuild(p, b) == NewHelper(p, b)
GetPool(p, b) == IF helper[p] # None THEN helper[p] ELSE NewHelper(p, b)

CanGet(p, b) == helper[p] # None \/ hist[p][b] # Absent

(* external_update of a liquidity change.                                  *)
Moved(h, delta, b) == [val |-> h.val + delta, book |-> h.book + delta, block |-> b]

(* external_update of a swap; update_reserves of a sync.                   *)
Replaced(h, m) == [val |-> m.val, book |-> h.book, block |-> m.block]
\* A faulty variant of Synced.
SyncedAtNewest(m) == [val |-> m.val, book |-> m.val, block |-> head]
Synced(m) == [val |-> m.val, book |-> m.val, block |-> m.block]

-----------------------------------------------------------------------------
(* Ways a handler ends.                                                    *)

Ignore == UNCHANGED <<loop, helper, snapshot, puts>>

\* A faulty variant of Raise.
RaiseOut == loop' = "stopped" /\ UNCHANGED <<helper, snapshot, puts>>
Raise == loop' = "sleeping" /\ UNCHANGED <<helper, snapshot, puts>>

Keep(p, h) ==
  /\ helper' = [helper EXCEPT ![p] = h]
  /\ UNCHANGED <<loop, snapshot, puts>>

\* A faulty variant of Store.
StoreUnqueued(p, h) ==
  /\ helper' = [helper EXCEPT ![p] = h]
  /\ UNCHANGED <<loop, puts>>
Store(p, h) ==
  /\ helper' = [helper EXCEPT ![p] = h]
  /\ puts' = Append(puts, p)
  /\ UNCHANGED loop

(* No manager knows the pool, or building the helper fails: ManagerError   *)
(* ends in "ignore events for unknown pools", other exceptions leave the   *)
(* handler and put the loop to sleep.                                      *)
NoHelper(p, b) ==
  \/ ~Known(p) /\ Ignore
  \/ /\ Known(p) /\ helper[p] = None
     /\ hist[p][b] = Absent \/ "rpc" \in Faults
     /\ Ignore \/ Raise

(* The update is in the past, or fails for another reason: it is logged or *)
(* passed over, and the pool is not queued.                                *)
UpdateRefused(p, h, m) ==
  /\ h.block > m.block \/ "update" \in Faults
  /\ Keep(p, h)

(* The payload does not decode after get_pool: KeyError returns, any other *)
(* exception leaves the handler.                                           *)
LateDecodeError(p, h) ==
  /\ "decode" \in Faults
  /\ helper' = [helper EXCEPT ![p] = h]
  /\ loop' \in {"listening", "sleeping"}
  /\ UNCHANGED <<snapshot, puts>>

(* The assertion "liquidity >= 0" of external_update fails: the pool is    *)
(* removed from its manager.                                               *)
\* A faulty variant of AssertionFailed.
AssertionLogged(p, h, m) == Keep(p, Moved(h, -m.val, m.block))
AssertionFailed(p, h, m) ==
  /\ h.block <= m.block /\ h.val < m.val
  /\ Keep(p, None)

(* external_update succeeded; update_snapshot follows, then the put task.  *)
\* A faulty variant of LiquidityChanged.
SnapshotForgotten(p, h) == Store(p, h) /\ UNCHANGED snapshot
LiquidityChanged(p, h) ==
  \/ /\ Store(p, h)
     /\ snapshot' = [snapshot EXCEPT ![p] = h.book]
  \/ /\ "snapshot" \in Faults
     /\ Keep(p, h)

-----------------------------------------------------------------------------
(* The handlers.                                                           *)

ProcessMintEvent ==
  LET m == Head(chan)
      p == m.pool
      b == StateBlock(m)
      h == GetPool(p, b)
  IN /\ Dispatch("mint")
     /\ \/ NoHelper(p, b)
        \/ /\ Known(p) /\ CanGet(p, b)
           /\ \/ LateDecodeError(p, h)
              \/ m.val = 0 /\ Keep(p, h)
              \/ m.val # 0 /\ UpdateRefused(p, h, m)
              \/ /\ m.val # 0 /\ h.block <= m.block
                 /\ LiquidityChanged(p, Moved(h, m.val, m.block))
     /\ UNCHANGED managers

ProcessBurnEvent ==
  LET m == Head(chan)
      p == m.pool
      b == StateBlock(m)
      h == GetPool(p, b)
  IN /\ Dispatch("burn")
     /\ \/ NoHelper(p, b)
        \/ /\ Known(p) /\ CanGet(p, b)
           /\ \/ LateDecodeError(p, h)
              \/ m.val = 0 /\ Keep(p, h)
              \/ m.val # 0 /\ UpdateRefused(p, h, m)
              \/ m.val # 0 /\ AssertionFailed(p, h, m)
              \/ /\ m.val # 0 /\ h.block <= m.block /\ h.val >= m.val
                 /\ LiquidityChanged(p, Moved(h, -m.val, m.block))
     /\ UNCHANGED managers

ProcessSwapEvent ==
  LET m == Head(chan)
      p == m.pool
      b == StateBlock(m)
      h == GetPool(p, b)
  IN /\ Dispatch("swap")
     /\ \/ "decode" \in Faults /\ Raise
        \/ NoHelper(p, b)
        \/ /\ Known(p) /\ CanGet(p, b)
           /\ \/ UpdateRefused(p, h, m)
              \/ /\ h.block <= m.block
                 /\ Store(p, Replaced(h, m))
                 /\ UNCHANGED snapshot
     /\ UNCHANGED managers

(* get_pool without state_block builds a V2 helper at the newest block.    *)
ProcessSyncEvent ==
  LET m == Head(chan)
      p == m.pool
      h == GetPool(p, head)
  IN /\ Dispatch("sync")
     /\ \/ "decode" \in Faults /\ Raise
        \/ NoHelper(p, head)
        \/ /\ Known(p) /\ CanGet(p, head)
           /\ \/ UpdateRefused(p, h, m)
              \/ /\ h.block <= m.block
                 /\ Store(p, Synced(m))
                 /\ UNCHANGED snapshot
     /\ UNCHANGED managers

\* A faulty variant of RegisterManager.
RegisterPool(p) == managers' = managers \cup {p}
RegisterManager(p) == managers' = managers \cup {FactoryOf[p]}

(* A factory announces a pool: the manager is created if there is none,    *)
(* then get_pool builds the helper at the event's own block.  Nothing is   *)
(* queued.                                                                 *)
NewPoolEvent ==
  LET m == Head(chan)
      p == m.pool
  IN \/ "decode" \in Faults /\ Raise /\ UNCHANGED managers
     \/ ~Known(p) /\ "manager" \in Faults /\ Ignore /\ UNCHANGED managers
     \/ /\ RegisterManager(p)
        /\ \/ "rpc" \in Faults /\ helper[p] = None /\ Ignore
           \/ CanGet(p, m.block) /\ Keep(p, GetPool(p, m.block))

ProcessNewV2PoolEvent == Dispatch("pair") /\ NewPoolEvent

ProcessNewV3PoolEvent == Dispatch("pool") /\ NewPoolEvent

Handle ==
  \/ FirstEvent
  \/ AnonymousEvent
  \/ OtherEvent
  \/ ProcessMintEvent
  \/ ProcessBurnEvent
  \/ ProcessSwapEvent
  \/ ProcessSyncEvent
  \/ ProcessNewV2PoolEvent
  \/ ProcessNewV3PoolEvent

Service == Subscribe \/ Wake \/ Cancelled \/ Handle \/ RunPut

Environment ==
  \/ LogEmitted
  \/ BlockMined
  \/ Reorder
  \/ Disconnect
  \/ \E v \in {None, 1} : UpdateBotState(v)

Next == Service \/ Environment \/ TakePool

(* The asyncio loop runs every ready task; nothing is assumed of the       *)
(* environment.                                                            *)
Fairness ==
  /\ WF_vars(Subscribe)
  /\ WF_vars(Wake)
  /\ WF_vars(Handle)
  /\ WF_vars(RunPut)

Spec == Init /\ [][Next]_vars
FairSpec == Spec /\ Fairness

-----------------------------------------------------------------------------
(* Properties.                                                             *)

PoolsIn(s) == {s[i].pool : i \in 1 .. Len(s)}

(* Every log of pool p has been mined, delivered and handled.              *)
Settled(p) == p \notin PoolsIn(open) \cup PoolsIn(chan)

(* Block by block: when the logs of a pool up to block b are handled, its  *)
(* helper holds the state and liquidity the pool had at the end of b, if   *)
(* it is not newer - so no computation of the bot sees a half of b once b  *)
(* is over.  Each change is applied exactly once and in its block,         *)
(* wherever in the stream of logs the handlers built the helper            *)
(* (state_block=event_block - 1, or the newest block for a V2 pool).       *)
BlockStateExact ==
  \A p \in Pools : \A b \in 0 .. head :
    /\ helper[p] # None /\ helper[p].block <= b
    /\ \A i \in 1 .. Len(chan) : chan[i].pool = p => chan[i].block > b
    => helper[p].val = hist[p][b] /\ helper[p].book = hist[p][b]

(* When every log of a pool has been handled, its helper holds the pool's  *)
(* state and liquidity on the chain: each change is applied exactly once,  *)
(* wherever in the stream of logs the handlers built the helper            *)
(* (state_block=event_block - 1, or the newest block for a V2 pool).       *)
PoolStateExact ==
  \A p \in Pools :
    helper[p] # None /\ Settled(p) => /\ helper[p].val = now[p]
                                     /\ helper[p].book = now[p]

(* Whatever is lost, reordered or failing, the reserves in the helper of a *)
(* V2 pool are reserves the pool had in the block the helper is stamped    *)
(* with (update_reserves with update_block=event_block, get_pool).         *)
ReservesOfBlock ==
  \A p \in V2Pools :
    helper[p] # None =>
      /\ helper[p].block <= head
      /\ helper[p].val <= hist[p][helper[p].block]
      /\ helper[p].block > 0 => hist[p][helper[p].block - 1] <= helper[p].val

(* A helper that is kept never goes back to an older block, whatever the   *)
(* order of the logs: the updates of process_*_event are refused, and a    *)
(* pool that is announced again is found in its manager.                   *)
HelperNeverOlder ==
  [][\A p \in Pools :
       helper[p] # None /\ helper'[p] # None =>
         helper'[p].block >= helper[p].block]_vars

(* A helper that is reachable from a manager has no negative liquidity,    *)
(* even after lost and repeated logs: process_burn_event removes the pool  *)
(* when the assertion of external_update fails.                            *)
RegisteredNonNegative ==
  \A p \in V3Pools : helper[p] # None => helper[p].val >= 0

(* The snapshot holds the tick data of every registered pool of a startup  *)
(* factory it covers, so a pool that process_burn_event removed and        *)
(* get_pool builds again keeps its liquidity book.                         *)
SnapshotCurrent ==
  \A p \in V3Pools :
    /\ FactoryOf[p] \in StartupFactories
    /\ helper[p] # None /\ snapshot[p] # None
    => snapshot[p] = helper[p].book

(* Every delivered log is read, although any of them may raise in its      *)
(* handler: the loop sleeps for a second and listens again.                *)
EveryLogRead == chan # <<>> ~> chan = <<>>

(* The comment "use previous block state to avoid double-counting          *)
(* liquidity events" (process_mint_event): no liquidity is counted twice.  *)
NoDoubleCounting ==
  \A p \in V3Pools :
    helper[p] # None /\ Settled(p) => helper[p].book <= now[p]
=============================================================================
