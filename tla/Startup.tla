------------------------------- MODULE Startup -------------------------------
(***************************************************************************)
(* How a bot starts.  ArbBot.run calls ExchangeService.add_deployments,    *)
(* PoolService.create_pool_managers, BlacklistService.load_blacklists and  *)
(* PoolService.load_pools (app/core), beside the task of BootstrapService, *)
(* which copies CREAM's app_state into the bot state.  The two tasks share *)
(* one asyncio loop: a task keeps control until it sleeps or waits, and    *)
(* most awaits of run() do neither, so the module says which has control.  *)
(* SniperBot.run makes the first of these calls without BootstrapService.  *)
(***************************************************************************)
EXTENDS ExchangeService

CONSTANTS
  Pools,       \* pool addresses
  Paths,       \* arb ids in the arb_paths files
  PathOf,      \* PathOf[a]: the pools of path a
  None,        \* Python's None
  Malformed,   \* a message that raises in BootstrapService
  MaxBlock,    \* bound: values of first_event
  MaxMessages  \* bound: unread messages on cream_app_state

ASSUME PathsAssumption ==
  /\ PathOf \in [Paths -> SUBSET Pools]
  /\ None \notin Int
  /\ MaxBlock \in Nat /\ MaxMessages \in Nat

VARIABLES
  bot,         \* the class main.py runs
  files,       \* what the bot has read from the pool and blacklist files
  chan,        \* cream_app_state messages delivered and not read
  boot,        \* the task BootstrapService.start
  turn,        \* "run" while run() keeps control, else "loop"
  pc,          \* where run() is
  first_event, live, managers, all_arbs,  \* fields of bot_state
  tried,       \* pools create_pool_helpers has passed
  helper       \* state block of each pool's helper in all_pools, or None

vars == <<bot, files, chan, boot, turn, pc, first_event, live, managers,
          all_arbs, tried, helper, exchangeVars>>

AppState == [first_event : 0 .. MaxBlock \cup {None}, live : BOOLEAN]

(* listed: the pools of the lp_fetchers' files; unmanaged: pools for which *)
(* get_pool raises ManagerError.                                           *)
Files == [listed : SUBSET Pools, black_pools : SUBSET Pools,
          black_arbs : SUBSET Paths, unmanaged : SUBSET Pools]

NoFiles == [listed |-> {}, black_pools |-> {}, black_arbs |-> {}, unmanaged |-> {}]

StartupTypeOK ==
  /\ ExchangeTypeOK
  /\ bot \in {"arb", "sniper"}
  /\ files \in Files
  /\ chan \in Seq(AppState \cup {Malformed})
  /\ boot \in {"none", "created", "listening", "ended", "raised"}
  /\ turn \in {"loop", "run"}
  /\ pc \in {"start", "deploying", "waiting", "managers", "files", "helpers",
             "spawn", "waitLive", "running", "failed", "closed"}
  /\ first_event \in 0 .. MaxBlock \cup {None}
  /\ live \in BOOLEAN
  /\ managers \in Int \cup {None}
  /\ all_arbs \subseteq Paths
  /\ tried \subseteq Pools
  /\ helper \in [Pools -> Int \cup {None}]

(* SniperBotState is created with live=True.                               *)
LiveAtStart == bot = "sniper"

Init ==
  /\ ExchangeInit
  /\ bot \in {"arb", "sniper"}
  /\ files = NoFiles
  /\ chan = <<>>
  /\ boot = "none"
  /\ turn = "loop"
  /\ pc = "start"
  /\ first_event = None
  /\ live = LiveAtStart
  /\ managers = None
  /\ all_arbs = {}
  /\ tried = {}
  /\ helper = [p \in Pools |-> None]

-----------------------------------------------------------------------------
(* CREAM, external, publishes its app_state; first_event is null until its *)
(* first event, and again after a restart.                                 *)
CreamPublishes ==
  /\ boot = "listening"
  /\ Len(chan) < MaxMessages
  /\ \E m \in AppState \cup {Malformed} : chan' = Append(chan, m)
  /\ UNCHANGED <<bot, files, boot, turn, pc, first_event, live, managers,
                 all_arbs, tried, helper, exchangeVars>>

-----------------------------------------------------------------------------
(* BootstrapService.start: it runs when run() has given up control.  An    *)
(* exception of listen() or of a message ends it without a word, one of    *)
(* subscribe or unsubscribe, outside the except clauses, stays in the task *)
(* until run() gathers it.                                                 *)

StartBootstrap ==
  /\ turn = "loop"
  /\ boot = "created"
  /\ boot' \in {"listening", "raised"}
  /\ UNCHANGED <<bot, files, chan, turn, pc, first_event, live, managers,
                 all_arbs, tried, helper, exchangeVars>>

UpdateBotState ==
  /\ turn = "loop"
  /\ boot = "listening"
  /\ chan # <<>>
  /\ chan' = Tail(chan)
  /\ IF Head(chan) = Malformed
     THEN boot' \in {"ended", "raised"} /\ UNCHANGED <<first_event, live>>
     ELSE /\ first_event' = Head(chan).first_event
          /\ live' = Head(chan).live
          /\ UNCHANGED boot
  /\ UNCHANGED <<bot, files, turn, pc, managers, all_arbs, tried, helper,
                 exchangeVars>>

-----------------------------------------------------------------------------
(* ArbBot.run and SniperBot.run.                                           *)

\* A faulty variant of KeepControl.
YieldControl == turn' = "loop"
KeepControl == turn' = "run"

(* A call raises, and run() with it.                                       *)
Fails ==
  /\ pc' = "failed"
  /\ turn' = "loop"
  /\ UNCHANGED <<live, managers, all_arbs, tried, helper, exchangeVars>>

BeginRun ==
  /\ pc = "start"
  /\ boot' = IF bot = "arb" THEN "created" ELSE boot
  /\ pc' = "deploying"
  /\ KeepControl
  /\ UNCHANGED <<live, managers, all_arbs, tried, helper, exchangeVars>>

(* One exchange of add_deployments; an address that is no address raises.  *)
AddExchange ==
  /\ pc = "deploying"
  /\ UNCHANGED boot
  /\ \/ ~AllAdded /\ Fails
     \/ /\ AddDeployment
        /\ KeepControl
        /\ UNCHANGED <<pc, live, managers, all_arbs, tried, helper>>

DeploymentsAdded ==
  /\ pc = "deploying"
  /\ AllAdded
  /\ pc' = "waiting"
  /\ KeepControl
  /\ UNCHANGED <<boot, live, managers, all_arbs, tried, helper, exchangeVars>>

(* "while not first_event": zero waits, too.                               *)
WaitFirstEvent ==
  /\ pc = "waiting"
  /\ bot = "arb"
  /\ UNCHANGED <<boot, live, managers, all_arbs, tried, helper, exchangeVars>>
  /\ \/ first_event \in {None, 0} /\ turn' = "loop" /\ UNCHANGED pc
     \/ first_event \notin {None, 0} /\ KeepControl /\ pc' = "managers"

(* SniperBotState has no first_event: AttributeError.                      *)
NoFirstEvent ==
  /\ pc = "waiting"
  /\ bot = "sniper"
  /\ Fails
  /\ UNCHANGED boot

(* fetch_new_liquidity_events brings the snapshot to the block before the  *)
(* first event, and every manager works on that snapshot.                  *)
CreatePoolManagers ==
  /\ pc = "managers"
  /\ UNCHANGED boot
  /\ \/ Fails
     \/ /\ first_event # None
        /\ managers' = first_event - 1
        /\ KeepControl
        /\ pc' = "files"
        /\ UNCHANGED <<live, all_arbs, tried, helper, exchangeVars>>

(* load_blacklists and the first half of load_pools; a blacklist that is   *)
(* missing is empty, a missing file of pools or paths raises.              *)
LoadFiles ==
  /\ pc = "files"
  /\ UNCHANGED boot
  /\ \/ Fails /\ UNCHANGED files
     \/ /\ files' \in Files
        /\ KeepControl
        /\ pc' = "helpers"
        /\ UNCHANGED <<live, managers, all_arbs, tried, helper, exchangeVars>>

PoolData == files.listed \ files.black_pools

ArbPaths == {a \in Paths : /\ a \notin files.black_arbs
                           /\ PathOf[a] \subseteq PoolData}

UniquePools == UNION {PathOf[a] : a \in ArbPaths} \cap PoolData

(* get_pool asks for the block before first_event, which is read again for *)
(* every pool.  ManagerError leaves the pool without a helper; any other   *)
(* exception, None - 1 among them, ends the bot.                           *)
CreatePoolHelper(p) ==
  /\ pc = "helpers"
  /\ p \in UniquePools \ tried
  /\ UNCHANGED boot
  /\ \/ Fails
     \/ /\ first_event # None
        /\ tried' = tried \cup {p}
        /\ helper' = IF p \in files.unmanaged
                     THEN helper
                     ELSE [helper EXCEPT ![p] = first_event - 1]
        /\ KeepControl
        /\ UNCHANGED <<pc, live, managers, all_arbs, exchangeVars>>

\* A faulty variant of AllHelpers.
SomeHelper(a) == \E p \in PathOf[a] : helper[p] # None
AllHelpers(a) == \A p \in PathOf[a] : helper[p] # None

\* A faulty variant of GoesLive.
LiveUnset == live' = None
\* A faulty variant of GoesLive.
StaysAsItIs == UNCHANGED live
GoesLive == live' = TRUE

(* The tokens and cycles are constructed and live is set; a constructor    *)
(* may raise, and nobody reads the cycles that were added before.          *)
LoadCycles ==
  /\ pc = "helpers"
  /\ UniquePools \subseteq tried
  /\ UNCHANGED boot
  /\ \/ Fails
     \/ /\ all_arbs' = {a \in ArbPaths : AllHelpers(a)}
        /\ GoesLive
        /\ KeepControl
        /\ pc' = "spawn"
        /\ UNCHANGED <<managers, tried, helper, exchangeVars>>

(* The task of process_uniswap_events is created.                          *)
SpawnEvents ==
  /\ pc = "spawn"
  /\ KeepControl
  /\ pc' = "waitLive"
  /\ UNCHANGED <<boot, live, managers, all_arbs, tried, helper, exchangeVars>>

(* "while not live", then the task of find_onchain_arbs is created.        *)
WaitLive ==
  /\ pc = "waitLive"
  /\ turn' = "loop"
  /\ pc' = IF live THEN "running" ELSE "waitLive"
  /\ UNCHANGED <<boot, live, managers, all_arbs, tried, helper, exchangeVars>>

(* asyncio.gather raises what a task raised, if it did so long before.     *)
GatherRaises ==
  /\ pc = "running"
  /\ boot = "raised"
  /\ Fails
  /\ UNCHANGED boot

(* run_bot closes the bot, and asyncio.run cancels the task that is left.  *)
Close ==
  /\ pc = "failed"
  /\ pc' = "closed"
  /\ boot' = IF boot \in {"created", "listening"} THEN "ended" ELSE boot
  /\ UNCHANGED <<turn, live, managers, all_arbs, tried, helper, exchangeVars>>

Run ==
  /\ \/ LoadFiles
     \/ /\ UNCHANGED files
        /\ \/ BeginRun
           \/ AddExchange
           \/ DeploymentsAdded
           \/ WaitFirstEvent
           \/ NoFirstEvent
           \/ CreatePoolManagers
           \/ \E p \in Pools : CreatePoolHelper(p)
           \/ LoadCycles
           \/ SpawnEvents
           \/ WaitLive
           \/ GatherRaises
           \/ Close
  /\ UNCHANGED <<bot, chan, first_event>>

Next == Run \/ StartBootstrap \/ UpdateBotState \/ CreamPublishes

Spec == Init /\ [][Next]_vars

(* The asyncio loop runs every ready task.                                 *)
FairSpec == Spec /\ WF_vars(Run) /\ WF_vars(StartBootstrap) /\ WF_vars(UpdateBotState)

-----------------------------------------------------------------------------
(* Properties.                                                             *)

(* The snapshot and every helper are of one block, the one before the      *)
(* first_event the event service starts with, although BootstrapService    *)
(* may change first_event at every suspension of run(): from the wait in   *)
(* create_pool_managers on, run() keeps control.                           *)
OneStateBlock ==
  /\ \A p \in Pools : helper[p] # None => helper[p] = managers
  /\ pc \in {"spawn", "waitLive"} =>
       /\ first_event # None
       /\ managers = first_event - 1

(* Every cycle in all_arbs has a helper for each of its pools, so that     *)
(* find_affected_arbs and the calculations never meet a missing pool; and  *)
(* none of them is blacklisted or has a pool that is.                      *)
CyclesTracked ==
  \A a \in all_arbs :
    /\ \A p \in PathOf[a] : helper[p] # None /\ p \notin files.black_pools
    /\ a \notin files.black_arbs

(* No task can reset live between load_pools and the wait in run(), so     *)
(* the bot starts find_onchain_arbs without waiting for CREAM.             *)
NeverWaitsForLive == pc = "waitLive" => live

(* A bot that has no first_event to wait for, or whose first_event has     *)
(* arrived for good, starts, or its start fails and its connections are    *)
(* closed; it never waits for ever.                                        *)
StartsUp ==
  bot = "sniper" \/ <>[](first_event \notin {None, 0})
    => <>(pc \in {"running", "closed"})
=============================================================================
