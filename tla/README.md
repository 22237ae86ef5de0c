# A TLA+ development of cream-bots

cream-bots runs arbitrage bots on EVM chains. A separate process, CREAM, watches the
chain and publishes every log on Redis; a bot keeps a degenbot helper for every pool up
to date from those logs and looks for profitable cycles of swaps whenever a pool
changes. Offline builders fetch the pools, their liquidity and the cycles the bot starts
from. The code is the package `src/src/cream_bots`; paths below are relative to it.

The development models the running arbitrage bot, the start of the bots, the callback bot,
and the builders whose files the bots read. TLC checks every module on small instances;
TLAPS proves every safety property that should hold for every value of the constants.

## 1. The system

| component | state it keeps | operations | status |
|---|---|---|---|
| EventService (`app/core/event_service.py`) | pool managers, helpers, liquidity snapshot, `first_event`; put tasks | listens on `cream_events`; handlers for Mint, Burn, Swap, Sync, PairCreated, PoolCreated | modelled |
| ArbitrageService (`app/core/arbitrage_service.py`) | `pools_to_process`, `all_arbs`, one task per changed pool | `find_onchain_arbs`, `find_affected_arbs`, `process_onchain_arbs` | modelled but for `process_backrun_arbs`, which nothing calls |
| ArbBot (`app/bots/arb_bot.py`) | the bot state shared by the services | `run`, `initialize`, `close` | modelled |
| SniperBot (`app/bots/sniper_bot.py`) | a bot state without `first_event` | `run`, `close` | modelled |
| CallbackBot (`app/bots/callback_bot/`) | `failed_transactions`, `newest_block`, `live` | `run`, `close`; the handling of a pending transaction | modelled |
| ExchangeService (`app/core/exchange_service.py`) | `FACTORY_DEPLOYMENTS` of degenbot | `add_deployments`; `add_routers`, `add_aggregators` | `add_deployments` only |
| BootstrapService (`app/core/bootstrap_service.py`) | copies `first_event`, `newest_block`, `live` and others from CREAM | listens on `cream_app_state` | modelled |
| PoolService (`app/core/pool_service.py`) | builds managers, helpers and cycles | `create_pool_managers`, `load_pools`, `create_pool_helper(s)` | modelled |
| BlacklistService (`app/core/blacklist_service.py`) | blacklisted pools, tokens, arbs | `load_blacklists`; `update_blacklist` | loading only |
| pool fetchers (`builders/lp_fetcher_v2.py`, `lp_fetcher_v3.py`) | a JSON file per factory | resumable scan in windows | modelled |
| liquidity fetcher (`builders/liquidity_fetcher.py`) | a snapshot file per chain | resumable scan, replay, rewrite | modelled |
| path builders (`builders/arbs_2pool.py`, `arbs_3pool.py`) | files of pathways | pure functions of the pool files | modelled |
| AnvilService, AggregatorService, config | see section 9 | | not modelled |

How they interact. `ArbBot.run` starts the task of BootstrapService, registers the configured
factories with degenbot, waits for `first_event`, builds managers and helpers at the block before it, then starts the tasks
of the event service and of `find_onchain_arbs`. The event service and the arbitrage
service share the asyncio loop, the helpers, and the queue `pools_to_process`. Every
changed pool is handed over in three steps: a handler creates a task that puts the address
on the queue, `find_onchain_arbs` takes it and creates a task, and that task submits the
calculations of the affected cycles to a process pool. `CallbackBot.run` gathers BootstrapService
and a listener on `cream_pending_transactions` that waits for `live`. The builders exchange files with the
bot and each other.

Where it is hard:

* **Interleaving.** Any number of handlers may run between two steps of the hand-over and
  between two awaits of a task. Only an `await` that really suspends gives up control,
  which decides, for instance, whether a CREAM message can change `first_event` in the
  middle of the start.
* **Delivery.** Redis pub/sub keeps nothing for an absent subscriber, and a broken
  connection loses what was not read. CREAM is outside the repository; late, lost and
  reordered logs are all possible.
* **Partial failure.** Each handler has several places that may raise, with four
  different ends: ignore, log and go on, remove the pool, or leave the handler for the
  outer loop, which sleeps one second.
* **Stale state.** A helper may be built in the middle of the stream of logs, at a block the
  stream has passed or not reached; a log may then repeat or miss a change.
* **Crash and restart.** The builders rewrite their only file with `open(..., "w")`, may be
  signalled or die between any two statements, and resume from the file alone.
* **Boundaries.** Windows with inclusive ends, spans that shrink, filters by degree.

What makes each component correct:

* event service: a helper is the chain's state at its block, moves forward only, agrees
  with the snapshot, a fault harms the pools it hits only, and the loop survives everything;
* arbitrage service: the selection is greedy, reports the best cycle, and every task ends;
* both together: no update of a pool is lost between them;
* start: every exchange the code can deploy gets its own deployment, snapshot and helpers are of
  one block, and cycles only refer to tracked pools;
* callback bot: a report names the next block, no transaction stops the others, and the bot
  does not outlive one of its tasks;
* builders: nothing on the chain is skipped or counted twice, whatever happens to the
  process, and all pathways are found.

The hazards are listed line by line in `PROJECT.json` with the properties that cover them,
or the reason why none does.

## 2. The modules

| module | models | extends or instantiates |
|---|---|---|
| `Chain` | the chain and CREAM (external) | |
| `EventService` | the listener, its handlers, the put tasks | `Chain` |
| `EventHistory` | the same, with a record of the pools that a fault has hit | `EventService` |
| `ArbitrageService` | queue, tasks, selection | instance of `Selector` (refinement) |
| `ArbBot` | both services running together | `EventService`, instance of `ArbitrageService` |
| `Selector` | what a task of the arbitrage service promises (abstract) | |
| `ExchangeService` | `add_deployments` and degenbot's table | |
| `Startup` | `run()` of ArbBot and SniperBot beside BootstrapService | `ExchangeService` |
| `CallbackBot` | both tasks of the callback bot | |
| `LpFetcher` | one factory of a pool fetcher | instance of `PoolFile` (refinement) |
| `PoolFile` | what a pool fetcher promises of its data file (abstract) | |
| `LiquidityFetcher` | the liquidity fetcher for one chain | instance of `SnapshotFile` (refinement) |
| `SnapshotFile` | what the liquidity fetcher promises of the snapshot file (abstract) | |
| `ArbPaths` | both path builders and what they should find | |
| `MCEventService`, `MCArbitrageService`, `MCArbBot`, `MCStartup`, `MCCallbackBot` | the functions among the constants, for TLC | |
| `EventServiceProofs`, `ArbitrageServiceProofs`, `ArbBotProofs`, `StartupProofs`, `CallbackBotProofs`, `LpFetcherProofs`, `LiquidityFetcherProofs`, `ArbPathsProofs` | theorems and proofs | the module in their name |

A definition that a comment calls *a faulty variant* of the next one is used by no
specification. Put in its place, it must make TLC violate the property `PROJECT.json` pairs
it with.

### Chain and EventService

The chain is a growing history: `now` is the state of every pool after its newest log,
`open` the logs of the block being built, `hist[p][b]` what an RPC read at block `b` returns.
A V2 pool's state is the index of its reserves, which each Sync advances; a V3 pool's
state is its liquidity on one tick range, which Mint and Burn change and Swap carries.
That is as much as the properties tell apart: whether a state is of the right block and whether a
liquidity change has been applied once. A mined block is delivered at once, as CREAM
publishes it, if a subscription exists.

The handlers contain no `await`, so each is one atomic action; in the map, `ProcessMintEvent`
and its siblings are the whole `process_*_event`. `Handle` dispatches on the topic. The ends of a
handler are operators of their own (`Ignore`, `Raise`, `Keep`, `Store`, `AssertionFailed`,
`LiquidityChanged`), and every exception path of the code is one of their uses. `helper[p]`
is what the manager of `p`'s factory holds: `val` is the state the bot computes with, `book`
the tick data, `block` the update block. `get_pool` either returns what is held or builds at the
block the caller names: `event_block - 1` for V3 logs, the event's own block for
PoolCreated, the newest block for Sync and PairCreated.
`puts` are the tasks created for `pools_to_process.put`, which run in creation order.

What may go wrong is a constant, `Faults`:

| fault | meaning |
|---|---|
| `late` | blocks are mined before the subscription exists |
| `disconnect` | the Redis connection breaks and unread messages are lost |
| `reorder` | two delivered logs change places |
| `reset` | BootstrapService changes `first_event`, to null or back |
| `cancel` | the task is cancelled |
| `rpc` | building a helper fails |
| `manager` | creating a manager fails |
| `decode` | the payload of a log does not decode |
| `update` | the update fails for a reason other than an old block |
| `snapshot` | `update_snapshot` raises after the helper was updated |

### EventHistory

`EventHistory` adds a history variable and changes nothing of what the service does. `missed` is the set
of pools a log of which was lost (late subscription, disconnect), has changed places with another log
of the pool, or was given up by its handler: no helper could be had, the
payload did not decode, the update failed, or the exception left for the outer loop. Also in it is a pool whose PoolCreated is handled while logs of it
from the same block are unread: those are counted twice (section 7). `FaultsStayLocal` is about all
other pools. The runs of the event service all carry this history along, which restricts nothing.

### ArbitrageService and ArbBot

`task[t]` is one `process_onchain_arbs`: the affected cycles, the submitted calculations
still pending, the results in order of completion, the sorted working set and the cycles
chosen. One action is one turn between awaits: the submission of all calculations, each
completion (a result or an exception), the sort, and one turn of the `while True` loop
that pops the best cycle and drops the conflicting ones. `FindOnchainArbs` is one turn of the
loop on the queue.

`ArbBot` runs both on the same queue and records in `tried[a][p]` the state of `p` when the calculation
of cycle `a` was last tried, at first the state it was loaded with. A call of `calculate_with_pool` that raises counts as
a try: the code drops it, and does not come back to the cycle until an update affects it again. A pool that a failed assertion removed from its
manager lives on in `swap_pools` of the cycles; those pools are in `orphaned` and their cycles
are not claimed to see anything new.

### Selector

`Selector` says what a task of `process_onchain_arbs` is for, without saying how: it learns the
results of its cycles one by one and then decides once, on all it has learned, for profitable
cycles that share no pool, such that every profitable one it left out shares a pool
with a kept one that earns no less. `ArbitrageService` implements it (`ImplementsSelector`):
`phase`, `earned` and `kept` are computed from `task`, and the turns of the selection loop, which
edit the working set step by step, are one `Decide`.

### ExchangeService and Startup

`AddDeployment` is one turn of the loop of `add_deployments`, with its local variable
`factory_deployment` as a variable of the module, since it survives from one exchange to the
next: for a v3 exchange with an unknown name it is unbound (the exception is caught) or the
deployment of an earlier exchange. `exchanges` is any of the configurations in `Configs`, `refuses` any
set of factories whose registration raises. A deployment is its factory and `abi`, which stands
for all that differs between versions.

`Startup` extends it: the loop is the first part of `run()` of both bots. `pc` is where `run()`
is, `turn` says whether it still has control of the loop. The waits for
`first_event` and `live` sleep, so BootstrapService runs between their turns. The other
awaits of `run()` are calls of coroutines that never suspend, and are steps that keep control.
A step may raise, which closes the bot. An exception of BootstrapService's messages ends its task
silently, one of `subscribe` or `unsubscribe` reaches the bot when it gathers its tasks. What
`load_pools` reads from files is any subset: listed pools, blacklisted pools and arbs, pools that
`get_pool` refuses with `ManagerError`.

Consequences the model makes visible. Once the wait for `first_event` is over nothing
else runs until the bot waits for `live`, which `load_pools` has just set itself; so CREAM's `live`
never delays the bot, and the statement inside that wait, which reads an attribute
`average_blocktime` the class does not have, is unreachable. The subscription to `cream_events`
starts after all helpers are built, so the logs between `first_event` and that moment are
never seen: this is the fault `late` of `EventService`. And SniperBot never starts a service: its
state has no `first_event`, which `create_pool_managers` reads.

### CallbackBot

A transaction is a model value with a `Kind`: what the code tells apart about it, from a message that
is no JSON to a complete call of the 1inch aggregator. `HandleMessage` is the whole path of one
message (`process_pending_transactions`, `clean_transaction`, `process_transaction`,
`print_transaction_details`), which contains no await that suspends; `eth_call` may fail
for any transaction. Its ends are `Skip`, `Raise`, `Fail` and the report. `boot` and `pc` are the
two gathered tasks; `GatherRaises`, `Close` and `Interrupt` are `run_bot`. `published` remembers the
newest block CREAM has sent, for the property about reports only.

### LpFetcher

One factory and its file. A window is fetched, appended to `lp_data`, and the file is
opened (which truncates it) and written: two steps, since the process may die between them.
A file torn this way makes every later start raise. `Signal` is the SIGINT handler,
`Die` everything that stops the process without it. The next start resumes after the block
of the last pool in the file.

### PoolFile

`PoolFile` knows nothing of runs: a file is missing, saved, being rewritten or lost. A rewrite only
adds pools at the end of the list, and the new list is one that a later run can go on from: in block
order, without a gap up to its resume block, no pool more than twice. A file that is lost stays lost,
as the fetcher cannot start on it. `LpFetcher` implements it (`ImplementsPoolFile`): a truncated file
whose writer lives is being rewritten with `lp_data`, one whose writer is dead is lost. Windows,
signals and loading are stutters.

### LiquidityFetcher

`StartRun` loads pools and snapshot and asks for the newest block, `FetchWindow` and `FetchFails` are
the loop with its adaptive span (`* 1.05`, `* 0.75`, truncated), first for Mint, then
for Burn; `ApplyEvents` replays the logs pool by pool and opens the file; `WriteSnapshot` writes it.
Tick data is one amount of liquidity per pool, so the order of logs within one block makes no difference
to the result, and the replay is ordered by block. `liquidity_events` holds the places of the logs in
the chain's history, so that a log that is read twice is one place listed twice. A file that cannot be read counts as no snapshot, as the bare
`except` does, and everything is fetched again.

### SnapshotFile

The snapshot as its readers see it: a rewrite takes it from its block to a later one. The pools that
are rewritten, among them all that were always listed, gain exactly the logs after the old block up to
the new one (`Change`); the others stay as they are, which is why a pool that is listed late is never
caught up with (section 7). A snapshot that is lost is followed by one that starts from nothing.
`LiquidityFetcher` implements it (`ImplementsSnapshotFile`): two series of windows, their retries and the
replay are one `Rewrite`.

### ArbPaths

`TwoPoolArbPaths` and `ThreePoolArbPaths` are the sets the builders write, as the code
computes them (tokens to pools, the multigraph, the filter by degree, unordered pairs
of tokens, both directions). `TwoPoolCycles` and `ThreePoolCycles` are what the
README asks for: all sequences of swaps from the wrapped token back to it. Hashes and JSON are
left out; a pathway is its sequence of pools.

## 3. Properties

| property | module | says |
|---|---|---|
| `BlockStateExact` | EventService | once the logs of a pool up to a block are handled, its helper is exactly the pool's state at the end of that block: nothing is missed, counted twice or put in another block, wherever the helper was built |
| `ReservesOfBlock` | EventService | under every fault, a V2 helper holds reserves the pool had in the block it is stamped with |
| `HelperNeverOlder` | EventService | no step takes a helper back to an older block |
| `RegisteredNonNegative` | EventService | no helper a manager holds has negative liquidity |
| `SnapshotCurrent` | EventService | the snapshot has the tick data of every covered helper, so a pool can be removed and built again from it |
| `FaultsStayLocal` | EventHistory | a pool that missed no log has an exact helper, block by block, whatever faults hit the other pools |
| `EveryLogRead` | EventService | no exception keeps a delivered log from being read |
| `LeftOutForBetter`, `ReportsTheBest` | ArbitrageService | a profitable cycle is only left out for a better one that shares a pool, and the best is reported |
| `EveryTaskEnds` | ArbitrageService | every pool is taken from the queue and every task ends |
| `ImplementsSelector` | ArbitrageService | every task implements the abstract selector |
| `NoLostUpdate` | ArbBot | a two-pool cycle last tried with an older state than the helper's is scheduled |
| `EveryUpdateTried` | ArbBot | and its calculation is tried again in the end |
| `OneStateBlock` | Startup | snapshot and helpers are of the block before `first_event` |
| `CyclesTracked` | Startup | loaded cycles have all their helpers and nothing that is blacklisted |
| `KnownExchangesRegistered`, `DeploymentsMatch` | ExchangeService | no exception and no stale deployment of one exchange costs another one its own, or gives it a wrong one |
| `NeverWaitsForLive`, `StartsUp` | Startup | the wait for `live` never sleeps; a bot that has its `first_event`, or needs none, starts or is closed |
| `ReportsNextBlock` | CallbackBot | while BootstrapService has read everything, a report names the block after CREAM's newest |
| `EveryTransactionRead` | CallbackBot | no transaction keeps those behind it from being read |
| `FailureEndsTheBot` | CallbackBot | an exception of one task ends the other and closes the bot |
| `NothingSkipped`, `AtMostTwice` | LpFetcher | the pool file across stops, deaths and restarts |
| `ImplementsPoolFile` | LpFetcher | no run rewrites the file with less than it held, or with a list the next run cannot go on from |
| `SnapshotExact`, `NeverRefused` | LiquidityFetcher | the snapshot is the chain at `snapshot_block`; the replay order suits `external_update` |
| `ImplementsSnapshotFile` | LiquidityFetcher | each snapshot is the one before plus the logs between their blocks, for the listed pools only |
| `EveryRunEnds` | both fetchers | a run comes to its end |
| `AllTwoPoolPathways`, `AllThreePoolPathways` | ArbPaths | all pathways and nothing else |

`TypeOK`, `ArbTypeOK`, `StartupTypeOK`, `CallbackTypeOK`, `LpTypeOK`, `LqTypeOK` are the type invariants.

## 4. Runs

Every bound is a named constant of its module.

| run | instance | shows |
|---|---|---|
| `EventService_exact` | 2 V2 and 2 V3 pools: one V3 pool loaded at the start, one only met in the logs, and a V2 factory the bot learns of when it announces a pool; 2 blocks of 2 logs; failing managers and snapshots, cancellation | `BlockStateExact` |
| `EventService_faults` | 3 pools, one created in the stream; 3 blocks of 1 log of any kind but PairCreated; all faults but `cancel` and `snapshot` | type, `ReservesOfBlock`, `RegisteredNonNegative`, `SnapshotCurrent`, `FaultsStayLocal`, `HelperNeverOlder`, `EveryLogRead` |
| `EventService_double` | a V3 pool created in the stream | `NoDoubleCounting` fails (section 7) |
| `ArbitrageService_select` | 5 cycles over 6 pools, one of three pools; profits -1 to 2 | the selection, `ImplementsSelector`, `EveryTaskEnds` |
| `ArbBot_update` | a V2 and a V3 pool in one cycle; 3 blocks of 1 log; 3 tasks; late subscription, disconnects, resets, cancellation | `NoLostUpdate`, `EveryUpdateTried` |
| `ArbBot_three` | a cycle of three pools | `AnyPoolAffects` fails |
| `Startup_load` | both bots; 2 pools, 1 cycle over both; 3 configurations of 3 exchanges over 3 factories, one of them degenbot's own; every content of the files; any `first_event`; 1 unread message | the table of deployments and the start |
| `CallbackBot_pending` | one transaction of each of the 8 kinds; 2 deliveries, 1 disconnect, blocks 0 and 1, 1 unread `app_state` message | the callback bot |
| `LpFetcher_scan` | 3 pools, 7 blocks, span 2, 2 deaths, any number of signals | the pool file, `ImplementsPoolFile`, `EveryRunEnds` |
| `LiquidityFetcher_runs` | 2 pools, one listed late; 3 logs, 4 blocks, span 2, 2 failures or deaths | the snapshot, `ImplementsSnapshotFile`, `EveryRunEnds` |
| `LiquidityFetcher_listed` | the same without failures, 5 blocks | `ListedPoolsExact` fails |
| `ArbPaths_all` | every assignment of 4 tokens to 4 pools, listed in every order | the pathways |

Why the bounds are enough.

* EventService: a helper may be built before, within and after a block with logs of its pool.
  With two logs per block and two blocks the construction falls on each side of another log
  of the same block and of the next one. Three blocks of one log cover a lost Mint, the Burn
  that then fails, and the log that builds the pool again; reordering needs two logs. All
  invariants of this run but `FaultsStayLocal` are proved for all bounds (section 6).
* ArbitrageService: the cycles conflict in a chain (`ab`, `bc`, `cf`) and twice (`be`, `dbe`);
  the profits include a loss, zero, ties and different gains. `cf` is not affected by the
  pools of the other cycles, so it also shows that a task holds only cycles of one pool.
* ArbBot: three updates with at most three tasks, so that an update arrives before, between
  and after the take, the creation and the first turn of an earlier task. There are as many tasks
  as updates, so the bound never stops the arbitrage service.
* Startup: a cycle of two pools separates "some pool has a helper" from "all pools have one". One
  unread message is enough to change any field at any suspension. The configurations have the
  v3 exchange with the unknown name before, between and after exchanges that are known, and one factory twice.
* CallbackBot: two deliveries show each kind in front of each other, and one transaction delivered
  twice; a disconnect may hit either listener. A second block separates the newest block from the first.
* LpFetcher: seven blocks are three windows of span 2; three pools can share a block or the
  boundary of two windows; the second death hits a run that resumed after a first.
* LiquidityFetcher: the span shrinks from 2 to 1 to 0, and a window has between 1 and 3 blocks.
* ArbPaths: four pools give every shape of two- and three-swap cycle with one pool to spare.

No run checks for deadlock: in each module every bound is reached at some point, and a bot
without messages or a fetcher nobody starts rightly stands still.

Two exclusions are substantive. `BlockStateExact` does not hold under lost logs, for
which the code has no recovery, nor under `rpc`: when building a helper fails on one log of a block, the
next log of that block builds it at the previous block, and the first change is missing.
`SnapshotCurrent` and `NoLostUpdate` do not hold under `snapshot`: the handler raises after
the helper was updated and before the pool is queued.

## 5. Fairness

* `EventService`: weak fairness of `Subscribe`, `Wake`, `Handle` and `RunPut`: the asyncio loop runs
  every ready task, the sleep of a second ends, and the loop then reads the next message. Nothing
  is assumed of the chain, CREAM or Redis. (`EveryLogRead` is checked without `cancel`,
  since a cancelled listener reads nothing more.)
* `ArbitrageService`: weak fairness of the turns of the loop and of each task, and of the
  completion of each submitted calculation by the process pool.
* `ArbBot`: weak fairness of the put tasks, of the loop on the queue and of the first turn of each
  task; none of the listener, which may be cancelled or lose its connection.
* `Startup`: weak fairness of the two tasks. `StartsUp` assumes in its statement, not as fairness, that
  `first_event` arrives for good, and only of the bot that waits for it: SniperBot closes in any case.
* `CallbackBot`: weak fairness of `Bootstrap`, `Listener` and `Main`: the loop runs every ready task,
  and sleeps end. CREAM need not send anything, `eth_call` need not succeed.
* Both fetchers: weak fairness of a running process. Nobody has to start it, and failures
  are bounded by `MaxFailures`; the endless retry of the liquidity fetcher ends only if `get_logs`
  succeeds at last.

## 6. Proofs

TLAPS checks the following for every value of the constants, from the assumptions named
in the modules: V2 and V3 pools are disjoint, startup helpers belong to startup factories,
bounds are natural numbers, and the like. TLC evaluates the same assumptions in the runs.

* **`EventServiceProofs`**: `TypeCorrect`, `ReservesFromBlock`, `NonNegativeLiquidity`,
  `HelpersMoveForward`, `SnapshotAgrees`, `HelpersExact`, `SettledHelpersExact`. None of these is inductive. `IInv` adds that the
  chain's history of a V2 pool never decreases, that every log in `open` or `chan` fits its block
  (a Sync carries a value between the ends of the previous block and its own), that
  helpers are never newer than the chain, and that they satisfy the properties. That is needed since a
  handler trusts the block and the value in the log; with them, each handler is shown to
  keep `IInv` by what it writes (`HandlerWrites`): one helper, which was built, moved or
  replaced by an accepted log. `HelpersMoveForward` and `SnapshotAgrees` follow from the
  same lemma; the latter assumes that `"snapshot"` is not among the faults.
  `HelpersExact` is about fewer behaviours (`Reliable`): nothing is lost, late, reordered or reset, RPC reads,
  decoding and updates do not fail, no V3 pool is announced, and no factory has pools of both versions. Its
  invariant `ExactInv` speaks of the logs that are not handled yet (`Pending`), and compares states at the
  end of every block, not only now. For each block, the last pending Sync of a V2
  pool up to its end carries the reserves of that end, and a helper that no such Sync will move has them already. For a
  V3 pool with a helper the pending logs lead from its liquidity to the chain's (`Leads`, a trace of
  states, so no induction is needed), through the liquidity at the end of each block since the
  helper's (`Past`); for one without, none of its logs was handled, and they lead
  there from the state of any block: that is why get_pool may build it at the block before its first log.
  `SettledHelpersExact` says the same of the open block.
* **`ArbitrageServiceProofs`**: `ArbTypeCorrect`, `GreedyChoice`, `BestIsReported`,
  `SelectorImplemented`, `TasksAdvance`, for any cycles and any number of tasks. They are stated of
  `ArbOpenSpec`, in which the event service puts any number of pools; `ArbSpec` of the runs bounds
  the puts (`RunsAreOpen`). `SInv` describes the
  selection half-way: what is in the working set conflicts with nothing that was chosen, and
  every profitable result is in the working set, chosen, or conflicts with a chosen one that earns no
  less. `BestIsReported` also needs that all cycles of a task contain the pool it
  was created for, which comes from `FindAffectedArbs`: after one choice the working set is empty.
  `SelectorImplemented` is the refinement: the initial states map to initial states, and each turn
  to a step of `Selector` or to a stutter. Only the last turn of the selection, which empties the
  working set, maps to `Decide`, and `SInv` is what makes the chosen set one of `Selections`.
* **`ArbBotProofs`**: `UpdatesReachTheirCycles`, `RunsTheEventService`, `RunsTheArbitrageService`. `BotInv` follows the address of a
  changed pool: a handler that changes a helper creates its put task or drops the pool
  (`HandlerQueues`), the put task hands it to the queue, `find_onchain_arbs` makes a task of it
  that holds every two-pool cycle of the pool (`TwoPoolAffected`), and the first turn of the task takes the
  state that is there by then. It assumes that `"snapshot"` is not among the faults, since
  `update_snapshot` is called between the change and the put. The other two say that the bot's
  behaviours are those of the event service and, with its put tasks as the source of pools, those of the arbitrage
  service: the theorems above hold of the running bot.
* **`StartupProofs`**: `StartupTypeCorrect`, `HelpersOfOneBlock`, `LoadedCyclesTracked`,
  `LiveWhenAwaited`, `KnownRegistered`, `OwnDeployments`. `Held` says that from the end of the first wait
  `run()` has control and `first_event` is neither null nor zero; `Built` says what exists at each
  point. The last two hold for any configuration, by `Deployed`: what is left in
  `factory_deployment` was made for a configured exchange, and it is stored under that
  exchange's own factory whichever exchange the loop is at.
* **`CallbackBotProofs`**: `CallbackTypeCorrect`, `ReportsAreCurrent`. What CREAM published
  last is either the last unread message that names a block (`OnItsWay`), or all such messages are
  read and it is in the bot state (`Arrived`).
* **`LpFetcherProofs`**: `LpTypeCorrect`, `NoPoolSkipped`, `FileInBlockOrder`, `ListedAtMostTwice`,
  `TruncationIsSafe`, `PoolFileImplemented`, for every chain and every span. `LpInv` says that file and memory are each a
  list in block order that is complete up to its own last block, which is where the next run
  resumes; that the memory holds what the file held; and that while a run scans, no pool of the
  window's first block or later is in memory twice, since the next window lists that block again.
  The refinement also needs that between two rewrites the memory is the file
  (`MemoryIsFile`): then each window extends what is in the file, and so does the final save after
  a signal, even one that came before this factory. `InBlockOrder` and `TruncatedWhenHeld` are
  theorems without a run: `ImplementsPoolFile` says more.
* **`LiquidityFetcherProofs`**: `LqTypeCorrect`, `SnapshotIsExact`, `NothingRefused`,
  `SnapshotFileImplemented`. `LqInv` says that
  what a run has read is each log between the snapshot's block and the ends of the two series
  of windows (`ReadLogs`), once. Counting the entries is then counting the logs
  (`CountedOnce`, through a bijection), so the replay adds what happened since the snapshot; a window that
  fails changes the span only, a death leaves the old file or one that cannot be read.
  For the refinement `FileIsLoaded` adds that a run still holds what the file holds until it opens
  it for writing; then the replay of any listed pool, not only of one that was always listed, is
  the `Change` between two blocks (`ReplayIsChange`).
* **`ArbPathsProofs`**: `PathsTypeCorrect`, `AllTwoPool`, `AllThreePool`, for any finite set of
  pools and any tokens. The heart of the second is that the filter by degree loses nothing
  (a token within a three-pool cycle has two different pools) and that taking either token of an unordered pair
  first gives the same paths.

Only model-checked: `FaultsStayLocal`, `HelpersExact` being its counterpart without faults; and liveness,
since ENABLED and fairness are out of the prover's reach. For the two
fetchers and the tasks of the arbitrage service the safety half of it is proved: a bound that every step
of the process lowers and that nothing else raises. `RunsGetShorter` (one in each fetcher's module)
counts the blocks a run still has to read, at most one window each, and so holds when the span of the
liquidity fetcher has shrunk to zero; a failing `get_logs` leaves the bound as it is. In `TasksAdvance` a task
reaches a later stage, or has fewer open calculations or a smaller working set. What
TLC adds is that a process that has not ended can always take such a step.

## 7. Where code and documents disagree

Shown by runs whose property TLC finds violated:

* `EventService_double`: a helper built by PoolCreated is at the end of the event's block,
  so a Mint of that block is counted twice (`process_new_v3_pool_event`; the Mint handler's comment
  wants to avoid double-counting).
* `ArbBot_three`: a cycle of three pools is affected by its middle pool only; the docstring of
  `find_affected_arbs` says any pool.
* `LiquidityFetcher_listed`: a pool listed after a run has passed its Mint logs is never
  caught up with.

Seen while modelling, and part of the models, without a run of their own:

* while `first_event` is None the loop looks for the block number in the Redis envelope, raises
  and loses the log;
* a log with an empty list of topics raises and puts the listener to sleep, where a
  comment says it is ignored; a failed assertion on a Burn removes the pool, where a comment says `sys.exit`;
* a cycle with profit 0 passes a filter documented to drop what is not profitable, and is reported when no
  better one conflicts with it;
* a cycle whose `calculate_with_pool` raises keeps its last evaluation until the next update that affects it;
* one malformed `app_state` message ends BootstrapService without an error: a bot that has no `first_event`
  by then waits for ever, and a callback bot that runs reports with the `newest_block` it has;
* a V3 pool that missed a Mint or Burn keeps a wrong liquidity, for which there is no recovery;
* a pool fetcher that dies while it writes leaves a file that makes every later start raise;
* a window of the pool fetchers has `BLOCK_SPAN + 1` blocks and the next begins with its
  last, so a pool may be listed twice;
* SniperBot stops in every start, since `SniperBotState` has no `first_event`;
* a v3 exchange with an unknown name gets no deployment, and what is said of it is an exception about
  an unbound variable or the exception of registering an earlier exchange again;
* the callback bot never empties `failed_transactions`, so a timeout of the node silences a
  transaction for good.

Seen outside the models: the repository's README speaks of a channel `cream_finalized_transactions`
that nothing subscribes to; `load_pools` compares tokens with the blacklist of pools
(`pool_service.py:104`), so the blacklist of tokens keeps no pool out; the blacklists are read from
`app/data` (`blacklist_service.py:19`), where no other file is; `task_done` is called in a `finally`
after a `get` that may have been cancelled (`arbitrage_service.py:104`).

## 8. What the abstraction leaves out

Prices, ticks, reserves and amounts are indices or small numbers; the mathematics of a swap is
degenbot's. Logging, the queue-size log task, formatting and paths are left out. A pool
has one liquidity range, so a Swap cannot cross a tick. `LiquidityFetcher` puts the replayed value in place of
the old one where the code merges tick dictionaries: the helper is handed the dictionaries of the snapshot entry,
which degenbot is taken to update in place, so that the merge is the replayed value; if it copied them, a tick that
the replay removes would survive the merge. The loop's one-second sleep and the executors
have no duration. Redis delivers a block's logs together. `close()` of the bots releases
connections and changes nothing the properties speak of. `EventService` does not model the end of the bot when the
`subscribe` of the events task raises, outside its `try`, so that `gather` raises and `run_bot` closes. The callback bot's report is the transaction and
the expected block.

## 9. Not modelled, and what is left

Not modelled, because it keeps no state or nothing runs it:

* `AnvilService`: the fork is started and never used. `AggregatorService` looks an address up in a
  constant table; the callback bot's `Kind` says what it finds.
* `ArbitrageService.process_backrun_arbs`, `ExchangeService.add_routers` and `add_aggregators`,
  `BlacklistService.update_blacklist` and `is_blacklisted`, `CallbackAggregatorService`: called or constructed by
  nothing, and several of them read attributes that no class sets, so there is no behaviour to be
  faithful to.
* The configuration: constants, logging, and wrappers of Redis without state.

Left for later work:

1. The composition of `Startup` with `EventService`, in place of the fault `late`: the logs
   between `first_event` and the subscription.
2. The calculations of cycles whose helper was removed and built again (`orphaned` in `ArbBot`),
   for which the code states no intention so far.
