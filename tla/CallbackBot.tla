----------------------------- MODULE CallbackBot -----------------------------
(***************************************************************************)
(* The callback bot (app/bots/callback_bot): run() gathers the task of     *)
(* BootstrapService.start, which copies CREAM's app_state into the bot     *)
(* state, and that of process_pending_transactions, which waits until the  *)
(* state is live and then reads pending transactions from Redis, simulates *)
(* each of them and reports those to the 1inch aggregator with the block   *)
(* they are expected in.                                                   *)
(***************************************************************************)
EXTENDS Integers, Sequences

CONSTANTS
  Txs,            \* transactions, by their hash
  Kind,           \* Kind[t]: what the code tells about transaction t
  None,           \* Python's None
  Absent,         \* a key that app_state does not have
  Malformed,      \* an app_state message that raises
  MaxBlock,       \* bound: CREAM's newest block
  MaxMessages,    \* bound: unread messages of app_state
  MaxDeliveries,  \* bound: transactions delivered
  MaxDisconnects  \* bound: broken connections

(* garbled: no JSON, or no hash.  unknownType: a type but 0 to 3.          *)
(* deployment: to is null.  noTo: it is missing.  plain: to no aggregator. *)
(* other: to another aggregator than 1inch.  cut: to 1inch, but a field    *)
(* that is reported is missing.                                            *)
Kinds == {"garbled", "unknownType", "deployment", "noTo", "plain", "other",
          "cut", "oneinch"}

ASSUME CallbackAssumption ==
  /\ Kind \in [Txs -> Kinds]
  /\ None \notin Int /\ Absent \notin Int /\ None # Absent
  /\ Absent \notin BOOLEAN
  /\ MaxBlock \in Nat /\ MaxMessages \in Nat
  /\ MaxDeliveries \in Nat /\ MaxDisconnects \in Nat

VARIABLES
  bot,           \* run() of main.py's run_bot
  boot,          \* the task BootstrapService.start
  pc,            \* the task process_pending_transactions
  live, newest_block, failed_transactions,  \* fields of bot_state
  aggregators,   \* the chain has aggregators
  cream_block,   \* CREAM's newest block
  published,     \* the newest_block CREAM sent last to the bot
  app_chan,      \* cream_app_state messages delivered and not read
  chan,          \* cream_pending_transactions, likewise
  reported,      \* what print_transaction_details has reported
  deliveries, disconnects

appVars == <<live, newest_block>>
creamVars == <<cream_block, published>>
vars == <<bot, boot, pc, appVars, failed_transactions, aggregators, creamVars,
          app_chan, chan, reported, deliveries, disconnects>>

AppState == [newest_block : 0 .. MaxBlock \cup {None, Absent},
             live : BOOLEAN \cup {Absent}]
Report == [tx : Txs, block : Int]

CallbackTypeOK ==
  /\ bot \in {"running", "failed", "closed"}
  /\ boot \in {"created", "listening", "ended", "raised"}
  /\ pc \in {"waiting", "listening", "sleeping", "raised", "cancelled"}
  /\ live \in BOOLEAN
  /\ newest_block \in 0 .. MaxBlock \cup {None}
  /\ failed_transactions \subseteq Txs
  /\ aggregators \in BOOLEAN
  /\ cream_block \in 0 .. MaxBlock
  /\ published \in 0 .. MaxBlock \cup {None}
  /\ app_chan \in Seq(AppState \cup {Malformed})
  /\ chan \in Seq(Txs)
  /\ reported \in Seq(Report)
  /\ deliveries \in 0 .. MaxDeliveries
  /\ disconnects \in 0 .. MaxDisconnects

Init ==
  /\ bot = "running"
  /\ boot = "created"
  /\ pc = "waiting"
  /\ live = FALSE
  /\ newest_block = None
  /\ failed_transactions = {}
  /\ aggregators \in BOOLEAN
  /\ cream_block = 0
  /\ published = None
  /\ app_chan = <<>>
  /\ chan = <<>>
  /\ reported = <<>>
  /\ deliveries = 0
  /\ disconnects = 0

-----------------------------------------------------------------------------
(* CREAM and Redis, external.                                              *)

\* A faulty variant of Given.
AlwaysGiven(value, old) == value
Given(value, old) == IF value = Absent THEN old ELSE value

CreamPublishes ==
  /\ boot = "listening"
  /\ Len(app_chan) < MaxMessages
  /\ cream_block' \in {cream_block, cream_block + 1} \cap 0 .. MaxBlock
  /\ \E m \in [newest_block : {cream_block', None, Absent},
               live : BOOLEAN \cup {Absent}] \cup {Malformed} :
       /\ app_chan' = Append(app_chan, m)
       /\ published' = IF m = Malformed THEN published
                       ELSE Given(m.newest_block, published)
  /\ UNCHANGED <<bot, boot, pc, appVars, failed_transactions, aggregators, chan,
                 reported, deliveries, disconnects>>

(* Any transaction, one that was delivered before, too.                    *)
DeliverTransaction ==
  /\ pc \in {"listening", "sleeping"}
  /\ deliveries < MaxDeliveries
  /\ \E t \in Txs : chan' = Append(chan, t)
  /\ deliveries' = deliveries + 1
  /\ UNCHANGED <<bot, boot, pc, appVars, failed_transactions, aggregators,
                 creamVars, app_chan, reported, disconnects>>

-----------------------------------------------------------------------------
(* BootstrapService.start: an exception of listen() or of a message ends   *)
(* it, one of subscribe or unsubscribe stays in the task.                  *)

bootFrame == <<bot, pc, failed_transactions, aggregators, creamVars, chan,
               reported, deliveries, disconnects>>

StartBootstrap ==
  /\ boot = "created"
  /\ boot' \in {"listening", "raised"}
  /\ UNCHANGED <<bootFrame, appVars, app_chan>>

(* update_bot_state sets the keys that are there.                          *)
\* A faulty variant of SetNewestBlock.
FirstNewestBlock(m) ==
  newest_block' = IF newest_block = None THEN Given(m.newest_block, None)
                                         ELSE newest_block
SetNewestBlock(m) == newest_block' = Given(m.newest_block, newest_block)

UpdateBotState ==
  /\ boot = "listening"
  /\ app_chan # <<>>
  /\ app_chan' = Tail(app_chan)
  /\ \/ /\ Head(app_chan) = Malformed
        /\ boot' \in {"ended", "raised"}
        /\ UNCHANGED appVars
     \/ /\ Head(app_chan) # Malformed
        /\ SetNewestBlock(Head(app_chan))
        /\ live' = Given(Head(app_chan).live, live)
        /\ UNCHANGED boot
  /\ UNCHANGED bootFrame

(* The connection of BootstrapService breaks.                              *)
BootstrapDisconnected ==
  /\ boot = "listening"
  /\ disconnects < MaxDisconnects
  /\ disconnects' = disconnects + 1
  /\ boot' \in {"ended", "raised"}
  /\ app_chan' = <<>>
  /\ UNCHANGED <<bot, pc, appVars, failed_transactions, aggregators, creamVars,
                 chan, reported, deliveries>>

-----------------------------------------------------------------------------
(* process_pending_transactions.                                           *)

txFrame == <<bot, boot, appVars, aggregators, creamVars, app_chan, deliveries>>

(* "while not live", and the subscription, which may raise.                *)
Subscribe ==
  /\ pc = "waiting"
  /\ live
  /\ pc' \in {"listening", "raised"}
  /\ UNCHANGED <<txFrame, failed_transactions, chan, reported, disconnects>>

(* The ends of a message's handling.                                       *)
Skip == UNCHANGED <<pc, failed_transactions, reported>>

(* An exception leaves the async for; the message is lost.                 *)
\* A faulty variant of Raise.
RaiseAndReturn == pc' = "cancelled" /\ UNCHANGED <<failed_transactions, reported>>
Raise == pc' = "sleeping" /\ UNCHANGED <<failed_transactions, reported>>

Fail(t) ==
  /\ failed_transactions' = failed_transactions \cup {t}
  /\ UNCHANGED <<pc, reported>>

PrintTransactionDetails(t) ==
  /\ IF newest_block = None
     THEN UNCHANGED reported
     ELSE reported' = Append(reported, [tx |-> t, block |-> newest_block + 1])
  /\ pc' = IF newest_block = None \/ Kind[t] = "cut" THEN "sleeping" ELSE pc
  /\ UNCHANGED failed_transactions

(* A transaction that passed the simulation.                               *)
ProcessTransaction(t) ==
  CASE Kind[t] = "deployment" -> Skip
    [] Kind[t] = "noTo" -> Raise
    [] Kind[t] \in {"plain", "other"} -> IF aggregators THEN Skip ELSE Raise
    [] Kind[t] \in {"cut", "oneinch"} ->
         IF aggregators THEN PrintTransactionDetails(t) ELSE Raise

(* eth_call fails, for whatever reason, or does not.                       *)
CleanTransaction(t) ==
  \/ Fail(t)
  \/ Kind[t] # "unknownType" /\ ProcessTransaction(t)

PreviouslyFailed(t) == t \in failed_transactions

(* eth_call and the coroutines called here never suspend.                  *)
HandleMessage ==
  /\ pc = "listening"
  /\ chan # <<>>
  /\ chan' = Tail(chan)
  /\ LET t == Head(chan)
     IN IF Kind[t] = "garbled" THEN Raise
        ELSE IF PreviouslyFailed(t) THEN Skip
        ELSE CleanTransaction(t)
  /\ UNCHANGED <<txFrame, disconnects>>

(* listen() raises; what was not read is lost.                             *)
Disconnected ==
  /\ pc = "listening"
  /\ disconnects < MaxDisconnects
  /\ disconnects' = disconnects + 1
  /\ chan' = <<>>
  /\ Raise
  /\ UNCHANGED txFrame

Wake ==
  /\ pc = "sleeping"
  /\ pc' = "listening"
  /\ UNCHANGED <<txFrame, failed_transactions, chan, reported, disconnects>>

-----------------------------------------------------------------------------
(* run() and run_bot.                                                      *)

runFrame == <<appVars, failed_transactions, aggregators, creamVars, app_chan,
              chan, reported, deliveries, disconnects>>

(* gather raises as soon as one of its tasks has.                          *)
\* A faulty variant of TaskRaised.
AllTasksEnded == boot \in {"ended", "raised"} /\ pc \in {"raised", "cancelled"}
TaskRaised == boot = "raised" \/ pc = "raised"

GatherRaises ==
  /\ bot = "running"
  /\ TaskRaised
  /\ bot' = "failed"
  /\ UNCHANGED <<boot, pc, runFrame>>

(* Ctrl-C cancels run(), and with it both tasks.                           *)
Interrupt ==
  /\ bot = "running"
  /\ bot' = "failed"
  /\ boot' = IF boot = "raised" THEN boot ELSE "ended"
  /\ pc' = IF pc = "raised" THEN pc ELSE "cancelled"
  /\ UNCHANGED runFrame

(* run_bot closes the bot; asyncio.run cancels what is still running.      *)
Close ==
  /\ bot = "failed"
  /\ bot' = "closed"
  /\ boot' = IF boot = "raised" THEN boot ELSE "ended"
  /\ pc' = IF pc = "raised" THEN pc ELSE "cancelled"
  /\ UNCHANGED runFrame

Bootstrap == StartBootstrap \/ UpdateBotState
Listener == Subscribe \/ HandleMessage \/ Wake
Main == GatherRaises \/ Close

Next ==
  \/ Bootstrap \/ Listener \/ Main
  \/ CreamPublishes \/ DeliverTransaction
  \/ BootstrapDisconnected \/ Disconnected \/ Interrupt

Spec == Init /\ [][Next]_vars

(* The asyncio loop runs every ready task, and sleeps come to an end.      *)
FairSpec == Spec /\ WF_vars(Bootstrap) /\ WF_vars(Listener) /\ WF_vars(Main)

-----------------------------------------------------------------------------
(* Properties.                                                             *)

(* While BootstrapService has read all that CREAM published, a report      *)
(* names the block after CREAM's newest, however many messages lacked the  *)
(* key; only a bot whose BootstrapService has ended reports an old block.  *)
ReportsNextBlock ==
  [][reported' # reported /\ boot = "listening" /\ app_chan = <<>>
       => published # None /\ reported'[Len(reported')].block = published + 1]_vars

(* No transaction, whatever exception it raises, keeps those behind it     *)
(* from being read as long as the bot runs.                                *)
EveryTransactionRead == chan # <<>> ~> chan = <<>> \/ bot # "running"

(* What one of the two tasks raises ends the other one, too: the bot does  *)
(* not go on without it.                                                   *)
FailureEndsTheBot ==
  boot = "raised" \/ pc = "raised"
    ~> bot = "closed" /\ pc \in {"raised", "cancelled"}
=============================================================================
