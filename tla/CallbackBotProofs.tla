-------------------------- MODULE CallbackBotProofs --------------------------
(***************************************************************************)
(* The callback bot for any transactions and any messages of CREAM.        *)
(***************************************************************************)
EXTENDS CallbackBot, SequenceTheorems, TLAPS

(* The n-th unread message says what the newest block is.                  *)
Names(n) == app_chan[n] # Malformed /\ app_chan[n].newest_block # Absent

(* What CREAM published last is on its way, or is in the bot state.        *)
OnItsWay ==
  \E n \in 1 .. Len(app_chan) :
    /\ Names(n) /\ app_chan[n].newest_block = published
    /\ \A k \in n + 1 .. Len(app_chan) : ~Names(k)

Arrived ==
  /\ \A n \in 1 .. Len(app_chan) : ~Names(n)
  /\ newest_block = published

CallbackInv ==
  /\ CallbackTypeOK
  /\ boot \in {"created", "listening"} => OnItsWay \/ Arrived

LEMMA InitCallback == Init => CallbackInv
<1> SUFFICES ASSUME Init
             PROVE  CallbackInv
  OBVIOUS
<1>1. /\ app_chan \in Seq(AppState \cup {Malformed}) /\ chan \in Seq(Txs)
      /\ reported \in Seq(Report)
  BY DEF Init
<1>2. CallbackTypeOK
  <2>1. 0 \in 0 .. MaxBlock /\ 0 \in 0 .. MaxDeliveries /\ 0 \in 0 .. MaxDisconnects
    BY CallbackAssumption
  <2> QED
    BY <1>1, <2>1, Zenon DEF Init, CallbackTypeOK
<1>3. Arrived
  BY DEF Init, Arrived
<1> QED
  BY <1>2, <1>3 DEF CallbackInv

-----------------------------------------------------------------------------
(* What a message does to the fields it may name.                          *)
LEMMA MessageFields ==
  ASSUME CallbackTypeOK, NEW m \in AppState
  PROVE  /\ Given(m.newest_block, newest_block) \in 0 .. MaxBlock \cup {None}
         /\ Given(m.newest_block, published) \in 0 .. MaxBlock \cup {None}
         /\ Given(m.live, live) \in BOOLEAN
BY DEF Given, AppState, CallbackTypeOK

(* Neither queue nor bot state changes.                                    *)
LEMMA AppUnchanged ==
  ASSUME CallbackInv, CallbackTypeOK', UNCHANGED <<app_chan, newest_block, published>>,
         boot' \in {"created", "listening"} => boot \in {"created", "listening"}
  PROVE  CallbackInv'
BY DEF CallbackInv, OnItsWay, Arrived, Names

LEMMA PublishStep ==
  ASSUME CallbackInv, CreamPublishes
  PROVE  CallbackInv'
<1>1. PICK m \in [newest_block : {cream_block', None, Absent},
                  live : BOOLEAN \cup {Absent}] \cup {Malformed} :
        /\ app_chan' = Append(app_chan, m)
        /\ published' = IF m = Malformed THEN published
                        ELSE Given(m.newest_block, published)
  BY DEF CreamPublishes
<1>2. /\ boot = "listening" /\ cream_block' \in 0 .. MaxBlock
      /\ UNCHANGED <<bot, boot, pc, appVars, failed_transactions, aggregators,
                     chan, reported, deliveries, disconnects>>
  BY DEF CreamPublishes
<1>3. m \in AppState \cup {Malformed}
  BY <1>1, <1>2 DEF AppState
<1>4. PICK L \in Nat :
      /\ app_chan \in Seq(AppState \cup {Malformed}) /\ L = Len(app_chan)
      /\ app_chan' \in Seq(AppState \cup {Malformed})
      /\ Len(app_chan') = L + 1
      /\ \A k \in 1 .. L : app_chan'[k] = app_chan[k]
      /\ app_chan'[L + 1] = m
  BY <1>1, <1>3, AppendProperties, LenProperties DEF CallbackInv, CallbackTypeOK
<1>5. published' \in 0 .. MaxBlock \cup {None}
  BY <1>1, <1>3, MessageFields DEF CallbackInv, CallbackTypeOK
<1>6. CallbackTypeOK'
  BY <1>2, <1>4, <1>5 DEF CallbackInv, CallbackTypeOK, appVars
<1>7. (OnItsWay \/ Arrived)'
  <2>1. CASE m # Malformed /\ m.newest_block # Absent
    <3>1. published' = m.newest_block
      BY <1>1, <2>1 DEF Given
    <3>2. /\ L + 1 \in 1 .. Len(app_chan')
          /\ Names(L + 1)'
          /\ app_chan'[L + 1].newest_block = published'
          /\ \A k \in (L + 1) + 1 .. Len(app_chan') : ~Names(k)'
      BY <1>4, <2>1, <3>1 DEF Names
    <3> QED
      BY <3>2 DEF OnItsWay
  <2>2. CASE ~(m # Malformed /\ m.newest_block # Absent)
    <3>1. published' = published
      BY <1>1, <2>2 DEF Given
    <3>2. \A k \in 1 .. L : Names(k)' <=> Names(k)
      BY <1>4 DEF Names
    <3>3. ~Names(L + 1)'
      BY <1>4, <2>2 DEF Names
    <3>4. CASE OnItsWay
      <4>1. PICK n \in 1 .. L :
              /\ Names(n) /\ app_chan[n].newest_block = published
              /\ \A k \in n + 1 .. L : ~Names(k)
        BY <1>4, <3>4 DEF OnItsWay
      <4>2. n \in 1 .. Len(app_chan') /\ Names(n)' /\ app_chan'[n].newest_block = published'
        BY <1>4, <3>1, <3>2, <4>1
      <4>3. ASSUME NEW k \in n + 1 .. Len(app_chan')
            PROVE  ~Names(k)'
        <5>1. CASE k = L + 1
          BY <3>3, <5>1
        <5>2. CASE k # L + 1
          <6>1. k \in n + 1 .. L /\ k \in 1 .. L
            BY <1>4, <4>1, <4>3, <5>2
          <6> QED
            BY <3>2, <4>1, <6>1
        <5> QED
          BY <5>1, <5>2
      <4> QED
        BY <4>2, <4>3 DEF OnItsWay
    <3>5. CASE Arrived
      BY <1>2, <1>4, <3>1, <3>2, <3>3, <3>5 DEF Arrived, appVars
    <3> QED
      BY <1>2, <3>4, <3>5 DEF CallbackInv
  <2> QED
    BY <2>1, <2>2
<1> QED
  BY <1>6, <1>7 DEF CallbackInv

LEMMA UpdateStep ==
  ASSUME CallbackInv, UpdateBotState
  PROVE  CallbackInv'
<1> DEFINE m == Head(app_chan)
<1>1. /\ boot = "listening" /\ app_chan # <<>> /\ app_chan' = Tail(app_chan)
      /\ UNCHANGED bootFrame
  BY DEF UpdateBotState
<1>2. /\ app_chan \in Seq(AppState \cup {Malformed}) /\ Len(app_chan) \in Nat \ {0}
      /\ m = app_chan[1] /\ m \in AppState \cup {Malformed}
      /\ app_chan' \in Seq(AppState \cup {Malformed})
      /\ Len(app_chan') = Len(app_chan) - 1
      /\ \A k \in 1 .. Len(app_chan') : app_chan'[k] = app_chan[k + 1]
  BY <1>1, HeadTailProperties, EmptySeq, LenProperties DEF CallbackInv, CallbackTypeOK
<1>3. CASE m = Malformed
  <2>1. boot' \in {"ended", "raised"} /\ UNCHANGED appVars
    BY <1>3 DEF UpdateBotState
  <2>2. CallbackTypeOK'
    BY <1>1, <1>2, <2>1 DEF CallbackInv, CallbackTypeOK, bootFrame, appVars, creamVars
  <2> QED
    BY <2>1, <2>2 DEF CallbackInv
<1>4. CASE m # Malformed
  <2>1. /\ newest_block' = Given(m.newest_block, newest_block)
        /\ live' = Given(m.live, live) /\ boot' = boot
        /\ published' = published
    BY <1>1, <1>4 DEF UpdateBotState, SetNewestBlock, bootFrame, creamVars
  <2>2. newest_block' \in 0 .. MaxBlock \cup {None} /\ live' \in BOOLEAN
    BY <1>2, <1>4, <2>1, MessageFields DEF CallbackInv
  <2>3. CallbackTypeOK'
    BY <1>1, <1>2, <2>1, <2>2 DEF CallbackInv, CallbackTypeOK, bootFrame, creamVars
  <2>4. \A k \in 1 .. Len(app_chan') : Names(k)' <=> Names(k + 1)
    BY <1>2 DEF Names
  <2>5. CASE OnItsWay
    <3>1. PICK n \in 1 .. Len(app_chan) :
            /\ Names(n) /\ app_chan[n].newest_block = published
            /\ \A k \in n + 1 .. Len(app_chan) : ~Names(k)
      BY <2>5 DEF OnItsWay
    <3>2. CASE n = 1
      <4>1. newest_block' = published'
        BY <1>2, <2>1, <3>1, <3>2 DEF Names, Given
      <4>2. \A k \in 1 .. Len(app_chan') : ~Names(k)'
        BY <1>2, <2>4, <3>1, <3>2
      <4> QED
        BY <4>1, <4>2, <2>3 DEF Arrived, CallbackInv
    <3>3. CASE n # 1
      <4>1. n - 1 \in 1 .. Len(app_chan')
        BY <1>2, <3>3
      <4>2. Names(n - 1)' /\ app_chan'[n - 1].newest_block = published'
        BY <1>2, <2>1, <2>4, <3>1, <4>1
      <4>3. \A k \in (n - 1) + 1 .. Len(app_chan') : ~Names(k)'
        BY <1>2, <2>4, <3>1, <4>1
      <4> QED
        BY <4>1, <4>2, <4>3, <2>3 DEF OnItsWay, CallbackInv
    <3> QED
      BY <3>2, <3>3
  <2>6. CASE Arrived
    <3>1. newest_block' = published'
      BY <1>2, <1>4, <2>1, <2>6 DEF Arrived, Names, Given
    <3>2. \A k \in 1 .. Len(app_chan') : ~Names(k)'
      BY <1>2, <2>4, <2>6 DEF Arrived
    <3> QED
      BY <3>1, <3>2, <2>3 DEF Arrived, CallbackInv
  <2> QED
    BY <1>1, <2>5, <2>6 DEF CallbackInv
<1> QED
  BY <1>3, <1>4

-----------------------------------------------------------------------------
(* The steps of the listener: what they leave alone, and what they report. *)
LEMMA HandleStep ==
  ASSUME CallbackTypeOK, HandleMessage
  PROVE  /\ pc' \in {"listening", "sleeping"}
         /\ failed_transactions' \subseteq Txs
         /\ reported' \in Seq(Report)
         /\ reported' # reported =>
              /\ newest_block # None
              /\ Head(chan) \notin failed_transactions
              /\ reported' = Append(reported, [tx |-> Head(chan),
                                               block |-> newest_block + 1])
<1> DEFINE t == Head(chan)
<1>1. pc = "listening" /\ t \in Txs
  BY HeadTailProperties DEF HandleMessage, CallbackTypeOK
<1>2. CASE Raise \/ Skip \/ Fail(t)
  BY <1>1, <1>2 DEF Raise, Skip, Fail, CallbackTypeOK
<1>3. CASE ~(Raise \/ Skip \/ Fail(t))
  <2>1. PrintTransactionDetails(t) /\ t \notin failed_transactions
    <3>1. ~PreviouslyFailed(t) /\ CleanTransaction(t)
      BY <1>3 DEF HandleMessage
    <3>2. ProcessTransaction(t)
      BY <1>3, <3>1 DEF CleanTransaction
    <3>3. Kind[t] \in Kinds /\ Kind[t] \notin {"garbled", "unknownType"}
      BY <1>1, <1>3, <3>1, CallbackAssumption DEF HandleMessage, CleanTransaction
    <3>4. PrintTransactionDetails(t)
      BY <1>3, <3>2, <3>3 DEF ProcessTransaction, Kinds
    <3> QED
      BY <3>1, <3>4 DEF PreviouslyFailed
  <2>2. newest_block # None => [tx |-> t, block |-> newest_block + 1] \in Report
    BY <1>1 DEF Report, CallbackTypeOK
  <2>3. reported' \in Seq(Report)
    <3>1. reported \in Seq(Report)
      BY DEF CallbackTypeOK
    <3>2. CASE newest_block = None
      BY <2>1, <3>1, <3>2 DEF PrintTransactionDetails
    <3>3. CASE newest_block # None
      <4>1. reported' = Append(reported, [tx |-> t, block |-> newest_block + 1])
        BY <2>1, <3>3 DEF PrintTransactionDetails
      <4> HIDE DEF t
      <4> QED
        BY <2>2, <3>1, <3>3, <4>1, AppendProperties
    <3> QED
      BY <3>2, <3>3
  <2>4. pc' \in {"listening", "sleeping"} /\ failed_transactions' \subseteq Txs
    BY <1>1, <2>1 DEF PrintTransactionDetails, CallbackTypeOK
  <2>5. reported' # reported =>
          /\ newest_block # None
          /\ reported' = Append(reported, [tx |-> t, block |-> newest_block + 1])
    BY <2>1 DEF PrintTransactionDetails
  <2> QED
    BY <2>1, <2>3, <2>4, <2>5
<1> QED
  BY <1>2, <1>3

LEMMA NextCallback ==
  ASSUME CallbackInv, [Next]_vars
  PROVE  CallbackInv'
<1> USE DEF CallbackInv, txFrame, runFrame, bootFrame, appVars, creamVars
<1>0. CASE UNCHANGED vars
  <2>1. CallbackTypeOK'
    BY <1>0 DEF vars, CallbackTypeOK
  <2> QED
    BY <1>0, <2>1, AppUnchanged DEF vars
<1>1. CASE CreamPublishes
  BY <1>1, PublishStep
<1>2. CASE UpdateBotState
  BY <1>2, UpdateStep
<1>3. CASE DeliverTransaction
  <2>1. PICK t \in Txs : chan' = Append(chan, t)
    BY <1>3 DEF DeliverTransaction
  <2>2. chan' \in Seq(Txs)
    BY <2>1, AppendProperties DEF CallbackTypeOK
  <2>3. CallbackTypeOK'
    BY <1>3, <2>2, CallbackAssumption DEF DeliverTransaction, CallbackTypeOK
  <2> QED
    BY <1>3, <2>3, AppUnchanged DEF DeliverTransaction
<1>4. CASE StartBootstrap
  <2>1. CallbackTypeOK'
    BY <1>4 DEF StartBootstrap, CallbackTypeOK
  <2> QED
    BY <1>4, <2>1, AppUnchanged DEF StartBootstrap
<1>5. CASE BootstrapDisconnected
  <2>1. <<>> \in Seq(AppState \cup {Malformed})
    OBVIOUS
  <2>2. CallbackTypeOK' /\ boot' \in {"ended", "raised"}
    BY <1>5, <2>1, CallbackAssumption DEF BootstrapDisconnected, CallbackTypeOK
  <2> QED
    BY <2>2
<1>6. CASE Subscribe
  <2>1. CallbackTypeOK'
    BY <1>6 DEF Subscribe, CallbackTypeOK
  <2> QED
    BY <1>6, <2>1, AppUnchanged DEF Subscribe
<1>7. CASE HandleMessage
  <2>1. chan' \in Seq(Txs) /\ UNCHANGED <<txFrame, disconnects>>
    BY <1>7, HeadTailProperties DEF HandleMessage, CallbackTypeOK
  <2>2. CallbackTypeOK'
    BY <1>7, <2>1, HandleStep DEF CallbackTypeOK
  <2> QED
    BY <2>1, <2>2, AppUnchanged
<1>8. CASE Disconnected
  <2>1. <<>> \in Seq(Txs)
    OBVIOUS
  <2>2. CallbackTypeOK'
    BY <1>8, <2>1, CallbackAssumption DEF Disconnected, Raise, CallbackTypeOK
  <2> QED
    BY <1>8, <2>2, AppUnchanged DEF Disconnected
<1>9. CASE Wake
  <2>1. CallbackTypeOK'
    BY <1>9 DEF Wake, CallbackTypeOK
  <2> QED
    BY <1>9, <2>1, AppUnchanged DEF Wake
<1>10. CASE GatherRaises
  <2>1. CallbackTypeOK'
    BY <1>10 DEF GatherRaises, CallbackTypeOK
  <2> QED
    BY <1>10, <2>1, AppUnchanged DEF GatherRaises
<1>11. CASE Interrupt \/ Close
  <2>1. CallbackTypeOK' /\ boot' \notin {"created", "listening"}
    BY <1>11 DEF Interrupt, Close, CallbackTypeOK
  <2> QED
    BY <2>1
<1> QED
  BY <1>0, <1>1, <1>2, <1>3, <1>4, <1>5, <1>6, <1>7, <1>8, <1>9, <1>10, <1>11
     DEF Next, Bootstrap, Listener, Main

LEMMA CallbackInvariant == Spec => []CallbackInv
<1>1. CallbackInv /\ [Next]_vars => CallbackInv'
  BY NextCallback
<1> QED
  BY <1>1, InitCallback, PTL DEF Spec

(* Only HandleMessage reports.                                             *)
LEMMA OnlyHandleReports ==
  ASSUME Next, reported' # reported
  PROVE  HandleMessage
BY DEF Next, Bootstrap, Listener, Main, CreamPublishes, DeliverTransaction,
       StartBootstrap, UpdateBotState, BootstrapDisconnected, Subscribe, Wake,
       Disconnected, Raise, GatherRaises, Interrupt, Close, txFrame, runFrame,
       bootFrame

-----------------------------------------------------------------------------
(* The variables of the callback bot keep their types.                     *)
THEOREM CallbackTypeCorrect == Spec => []CallbackTypeOK
BY CallbackInvariant, PTL DEF CallbackInv

(* Reports name the block after the one CREAM published last, once         *)
(* BootstrapService has read everything.                                   *)
THEOREM ReportsAreCurrent == Spec => ReportsNextBlock
<1>1. ASSUME CallbackInv, Next, reported' # reported, boot = "listening", app_chan = <<>>
      PROVE  published # None /\ reported'[Len(reported')].block = published + 1
  <2>1. HandleMessage
    BY <1>1, OnlyHandleReports
  <2>2. Len(app_chan) = 0
    BY <1>1
  <2>3. newest_block = published
    BY <1>1, <2>2 DEF CallbackInv, OnItsWay, Arrived
  <2>4. /\ newest_block # None
        /\ reported' = Append(reported, [tx |-> Head(chan), block |-> newest_block + 1])
        /\ [tx |-> Head(chan), block |-> newest_block + 1] \in Report
        /\ reported \in Seq(Report)
    <3>1. Head(chan) \in Txs
      BY <1>1, <2>1, HeadTailProperties DEF CallbackInv, CallbackTypeOK, HandleMessage
    <3> QED
      BY <1>1, <2>1, <3>1, HandleStep DEF CallbackInv, CallbackTypeOK, Report
  <2>5. reported'[Len(reported')] = [tx |-> Head(chan), block |-> newest_block + 1]
    BY <2>4, AppendProperties
  <2> QED
    BY <2>3, <2>4, <2>5
<1>2. CallbackInv /\ [Next]_vars =>
        [reported' # reported /\ boot = "listening" /\ app_chan = <<>>
           => published # None /\ reported'[Len(reported')].block = published + 1]_vars
  BY <1>1 DEF vars
<1> QED
  BY <1>2, CallbackInvariant, PTL DEF Spec, ReportsNextBlock
=============================================================================
