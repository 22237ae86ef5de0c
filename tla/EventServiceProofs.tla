------------------------- MODULE EventServiceProofs -------------------------
(***************************************************************************)
(* Safety of the event service for every set of pools, every bound and     *)
(* every combination of faults.  The argument: a log that was mined tells  *)
(* the truth about its block (MinedLog), block states are ordered          *)
(* (HistoryOK), and each handler leaves a helper that is justified by one  *)
(* log or one read of the chain (HelperOK).  Exactness (BlockStateExact)   *)
(* holds under fewer faults: there the logs still to be handled lead from  *)
(* each helper to the chain's state (ExactInv, the last part).             *)
(***************************************************************************)
EXTENDS EventService, SequenceTheorems, TLAPS

States == Nat \cup {Absent}

(* The invariant is stated over the chain's state, so that the logs seen   *)
(* before and after a block is mined can be compared.                      *)
LogFits(m) ==
  /\ m \in Log
  /\ m.val \in Nat
  /\ m.kind \in {"sync", "pair"} => m.pool \in V2Pools
  /\ m.kind \in {"mint", "burn", "swap", "pool"} => m.pool \in V3Pools

MinedLog ==
  {m \in Log : /\ LogFits(m)
               /\ m.block \in 1 .. head
               /\ m.kind = "sync" => /\ hist[m.pool][m.block - 1] <= m.val
                                     /\ m.val <= hist[m.pool][m.block]}

OpenLog ==
  {m \in Log : /\ LogFits(m)
               /\ m.block = head + 1
               /\ m.kind = "sync" => /\ hist[m.pool][head] <= m.val
                                     /\ m.val <= now[m.pool]}

HistoryOK ==
  /\ head \in 0 .. MaxBlock
  /\ now \in [Pools -> States]
  /\ hist \in [Pools -> [0 .. MaxBlock -> States]]
  /\ \A p \in V2Pools :
       /\ hist[p][head] <= now[p]
       /\ \A b \in 1 .. head : hist[p][b - 1] <= hist[p][b]

LogsOK ==
  /\ open \in Seq(OpenLog)
  /\ chan \in Seq(MinedLog)

HelperOK(p, x) ==
  \/ x = None
  \/ /\ x \in Helper
     /\ x.block \in 0 .. head
     /\ p \in V3Pools => x.val >= 0
     /\ p \in V2Pools => /\ x.val <= hist[p][x.block]
                         /\ x.block > 0 => hist[p][x.block - 1] <= x.val

HelpersOK ==
  /\ helper \in [Pools -> Helper \cup {None}]
  /\ \A p \in Pools : HelperOK(p, helper[p])

StateOK ==
  /\ loop \in {"starting", "listening", "sleeping", "stopped"}
  /\ subscribed \in BOOLEAN
  /\ first_event \in Nat \cup {None}
  /\ managers \subseteq Factories
  /\ snapshot \in [Pools -> Int \cup {None}]
  /\ puts \in Seq(Pools)
  /\ queue \in Seq(Pools)

IInv == HistoryOK /\ LogsOK /\ HelpersOK /\ StateOK

-----------------------------------------------------------------------------
(* The invariant implies the properties.                                   *)

(* A sequence over a subset is a sequence over the set.                    *)
LEMMA TypesFollow == IInv => TypeOK
<1>1. OpenLog \subseteq Log /\ MinedLog \subseteq Log
  BY DEF OpenLog, MinedLog
<1>2. ASSUME IInv PROVE TypeOK
  <2>1. open \in Seq(Log) /\ chan \in Seq(Log)
    BY <1>1, <1>2, SeqMonotonic DEF IInv, LogsOK
  <2> QED
    BY <1>2, <2>1 DEF IInv, HistoryOK, HelpersOK, StateOK, TypeOK, ChainTypeOK, States
<1> QED
  BY <1>2

(* The two safety properties are conjuncts of HelperOK.                    *)
LEMMA SafetyFollows == IInv => ReservesOfBlock /\ RegisteredNonNegative
<1> SUFFICES ASSUME IInv PROVE ReservesOfBlock /\ RegisteredNonNegative
  OBVIOUS
<1>1. ASSUME NEW p \in Pools, helper[p] # None
      PROVE  /\ helper[p].block \in 0 .. head
             /\ p \in V3Pools => helper[p].val >= 0
             /\ p \in V2Pools =>
                  /\ helper[p].val <= hist[p][helper[p].block]
                  /\ helper[p].block > 0 => hist[p][helper[p].block - 1] <= helper[p].val
  BY <1>1 DEF IInv, HelpersOK, HelperOK
<1>2. head \in Nat
  BY BoundsAssumption DEF IInv, HistoryOK
<1>3. V2Pools \subseteq Pools /\ V3Pools \subseteq Pools
  BY DEF Pools
<1> QED
  BY <1>1, <1>2, <1>3 DEF ReservesOfBlock, RegisteredNonNegative

-----------------------------------------------------------------------------
(* Initially no log exists and helpers hold the state of block 0.          *)
LEMMA InitIInv == Init => IInv
<1> SUFFICES ASSUME Init PROVE IInv
  OBVIOUS
<1> USE DEF Init, ChainInit, Absent
<1>0. MaxBlock \in Nat /\ MaxAmount \in Nat
  BY BoundsAssumption
<1>1. now \in [Pools -> States]
  BY <1>0 DEF States
<1>2. hist \in [Pools -> [0 .. MaxBlock -> States]]
  BY <1>0, <1>1 DEF States
<1>3. HistoryOK
  BY <1>0, <1>1, <1>2 DEF HistoryOK, Pools, States
<1>4. LogsOK
  BY EmptySeq DEF LogsOK
<1>5. HelpersOK
  <2>1. ASSUME NEW p \in LoadedPools PROVE p \in Pools /\ now[p] \in Nat
    BY <2>1, <1>1, FactoryAssumption, PoolsAssumption DEF States
  <2>2. helper \in [Pools -> Helper \cup {None}]
    BY <2>1 DEF Helper
  <2>3. ASSUME NEW p \in Pools PROVE HelperOK(p, helper[p])
    <3>1. CASE p \in LoadedPools
      <4>1. helper[p] = [val |-> now[p], book |-> now[p], block |-> 0]
        BY <3>1
      <4>2. hist[p][0] = now[p]
        BY <1>0
      <4> QED
        BY <4>1, <4>2, <2>1, <3>1 DEF HelperOK, Helper
    <3>2. CASE p \notin LoadedPools
      BY <3>2 DEF HelperOK
    <3> QED BY <3>1, <3>2
  <2> QED BY <2>2, <2>3 DEF HelpersOK
<1>6. StateOK
  <2>1. snapshot \in [Pools -> Int \cup {None}]
    BY <1>1 DEF States
  <2>2. puts \in Seq(Pools) /\ queue \in Seq(Pools)
    BY EmptySeq
  <2> QED
    BY <2>1, <2>2, FactoryAssumption DEF StateOK
<1> QED
  BY <1>3, <1>4, <1>5, <1>6 DEF IInv

-----------------------------------------------------------------------------
(* The chain.                                                              *)

(* A log is appended to the open block and fits the new state of its pool. *)
LEMMA EmitOK ==
  ASSUME IInv, NEW kind \in AllKinds, NEW p \in Pools, NEW val \in Nat,
         NEW s \in States, Emit(kind, p, val, s),
         p \in V2Pools => now[p] <= s,
         kind = "sync" => p \in V2Pools /\ val = s,
         kind = "pair" => p \in V2Pools,
         kind \in {"mint", "burn", "swap", "pool"} => p \in V3Pools
  PROVE  HistoryOK' /\ open' \in Seq(OpenLog')
<1> DEFINE m == [kind |-> kind, pool |-> p, block |-> head + 1, val |-> val]
<1>0. /\ MaxBlock \in Nat /\ head \in 0 .. MaxBlock /\ head' = head /\ hist' = hist
      /\ now \in [Pools -> States] /\ now' = [now EXCEPT ![p] = s]
      /\ open' = Append(open, m) /\ open \in Seq(OpenLog)
  BY BoundsAssumption DEF IInv, HistoryOK, LogsOK, Emit
<1>1. \A q \in V2Pools : q \in Pools /\ now[q] \in Int /\ now[q] <= now'[q]
  BY <1>0 DEF Pools, States, Absent
<1>2. \A q \in V2Pools : hist[q][head] \in Int /\ hist[q][head] <= now[q]
  BY <1>0, BoundsAssumption DEF IInv, HistoryOK, Pools, States, Absent
<1>3. HistoryOK'
  <2>1. now' \in [Pools -> States]
    BY <1>0
  <2>2. \A q \in V2Pools : hist'[q][head'] <= now'[q]
    BY <1>0, <1>1, <1>2, <2>1 DEF Pools, States, Absent
  <2> QED
    BY <1>0, <2>1, <2>2 DEF IInv, HistoryOK
<1>4. OpenLog \subseteq OpenLog'
  <2> SUFFICES ASSUME NEW x \in OpenLog PROVE x \in OpenLog'
    OBVIOUS
  <2>1. x \in Log /\ LogFits(x) /\ x.block = head + 1
    BY DEF OpenLog
  <2>2. x.kind = "sync" => hist'[x.pool][head'] <= x.val /\ x.val <= now'[x.pool]
    <3> SUFFICES ASSUME x.kind = "sync"
                 PROVE  hist'[x.pool][head'] <= x.val /\ x.val <= now'[x.pool]
      OBVIOUS
    <3>1. x.pool \in V2Pools /\ x.val \in Int
      BY <2>1 DEF LogFits
    <3>2. hist[x.pool][head] <= x.val /\ x.val <= now[x.pool]
      BY DEF OpenLog
    <3>3. now'[x.pool] \in Int
      BY <1>0, <1>1, <3>1 DEF Pools, States, Absent
    <3> QED
      BY <1>0, <1>1, <3>1, <3>2, <3>3
  <2> QED
    BY <1>0, <2>1, <2>2 DEF OpenLog, LogFits
<1>5. m \in OpenLog'
  <2>1. m \in Log
    BY <1>0 DEF Log
  <2>2. LogFits(m)
    BY <2>1 DEF LogFits
  <2>3. kind = "sync" => hist[p][head] <= val /\ val <= now'[p]
    BY <1>0, <1>1, <1>2 DEF States, Absent
  <2> HIDE DEF m
  <2>4. m.kind = kind /\ m.pool = p /\ m.block = head + 1 /\ m.val = val
    BY DEF m
  <2> QED
    BY <1>0, <2>1, <2>2, <2>3, <2>4 DEF OpenLog, LogFits
<1>6. open \in Seq(OpenLog')
  BY <1>0, <1>4, SeqMonotonic
<1> QED
  BY <1>0, <1>3, <1>5, <1>6

(* Every transaction of the open block is an Emit of that kind.            *)
LEMMA ChainEmitsOK == IInv /\ ChainEmits => HistoryOK' /\ open' \in Seq(OpenLog')
<1> SUFFICES ASSUME IInv, ChainEmits PROVE HistoryOK' /\ open' \in Seq(OpenLog')
  OBVIOUS
<1>0. /\ \A q \in Pools : now[q] \in States
      /\ MaxAmount \in Nat
      /\ V2Pools \cap V3Pools = {} /\ Pools = V2Pools \cup V3Pools
  BY BoundsAssumption, PoolsAssumption DEF IInv, HistoryOK, Pools
<1>1. PICK p \in Pools :
        \/ EmitSync(p)
        \/ \E amount \in 0 .. MaxAmount : EmitMint(p, amount) \/ EmitBurn(p, amount)
        \/ EmitSwap(p)
        \/ EmitCreated(p)
        \/ \E kind \in {"other", "anonymous"} : EmitForeign(p, kind)
  BY DEF ChainEmits
<1> USE DEF AllKinds, States, Absent
<1>2. CASE EmitSync(p)
  <2>1. now[p] \in Nat /\ p \in V2Pools /\ now[p] + 1 \in Nat
    BY <1>0, <1>2 DEF EmitSync
  <2>2. Emit("sync", p, now[p] + 1, now[p] + 1)
    BY <1>2 DEF EmitSync
  <2> QED
    BY <1>0, <2>1, <2>2, EmitOK
<1>3. ASSUME NEW amount \in 0 .. MaxAmount, EmitMint(p, amount)
      PROVE  HistoryOK' /\ open' \in Seq(OpenLog')
  <2>1. now[p] \in Nat /\ p \in V3Pools /\ amount \in Nat /\ now[p] + amount \in Nat
    BY <1>0, <1>3 DEF EmitMint
  <2>2. Emit("mint", p, amount, now[p] + amount)
    BY <1>3 DEF EmitMint
  <2> QED
    BY <1>0, <2>1, <2>2, EmitOK
<1>4. ASSUME NEW amount \in 0 .. MaxAmount, EmitBurn(p, amount)
      PROVE  HistoryOK' /\ open' \in Seq(OpenLog')
  <2>1. now[p] \in Nat /\ p \in V3Pools /\ amount \in Nat /\ now[p] - amount \in Nat
    BY <1>0, <1>4 DEF EmitBurn
  <2>2. Emit("burn", p, amount, now[p] - amount)
    BY <1>4 DEF EmitBurn
  <2> QED
    BY <1>0, <2>1, <2>2, EmitOK
<1>5. CASE EmitSwap(p)
  <2>1. now[p] \in Nat /\ p \in V3Pools
    BY <1>0, <1>5 DEF EmitSwap
  <2>2. Emit("swap", p, now[p], now[p])
    BY <1>5 DEF EmitSwap
  <2> QED
    BY <1>0, <2>1, <2>2, EmitOK
<1>6. CASE EmitCreated(p)
  <2>1. now[p] <= 0
    BY <1>6 DEF EmitCreated
  <2>2. CASE p \in V2Pools
    <3>1. Emit("pair", p, 0, 0)
      BY <1>6, <2>2 DEF EmitCreated
    <3> QED
      BY <2>1, <2>2, <3>1, EmitOK
  <2>3. CASE p \notin V2Pools
    <3>1. Emit("pool", p, 0, 0)
      BY <1>6, <2>3 DEF EmitCreated
    <3> QED
      BY <1>0, <2>1, <2>3, <3>1, EmitOK
  <2> QED
    BY <2>2, <2>3
<1>7. ASSUME NEW kind \in {"other", "anonymous"}, EmitForeign(p, kind)
      PROVE  HistoryOK' /\ open' \in Seq(OpenLog')
  <2>1. Emit(kind, p, 0, now[p]) /\ now[p] \in States /\ now[p] <= now[p]
    BY <1>0, <1>7 DEF EmitForeign
  <2> QED
    BY <2>1, EmitOK
<1> QED
  BY <1>1, <1>2, <1>3, <1>4, <1>5, <1>6, <1>7

(* Mining turns the logs of the open block into mined logs, and what was   *)
(* said of older blocks stays true.                                        *)
LEMMA SealOK ==
  IInv /\ Seal => /\ HistoryOK'
                  /\ MinedLog \subseteq MinedLog'
                  /\ OpenLog \subseteq MinedLog'
                  /\ \A p \in Pools : \A x : HelperOK(p, x) => HelperOK(p, x)'
<1> SUFFICES ASSUME IInv, Seal
             PROVE  /\ HistoryOK'
                    /\ MinedLog \subseteq MinedLog'
                    /\ OpenLog \subseteq MinedLog'
                    /\ \A p \in Pools : \A x : HelperOK(p, x) => HelperOK(p, x)'
  OBVIOUS
<1>0. /\ MaxBlock \in Nat /\ head \in 0 .. MaxBlock - 1 /\ head' = head + 1
      /\ now' = now /\ now \in [Pools -> States]
      /\ hist \in [Pools -> [0 .. MaxBlock -> States]]
      /\ V2Pools \subseteq Pools
  BY BoundsAssumption DEF IInv, HistoryOK, Seal, Pools
<1>1. \A p \in Pools : /\ hist'[p] = [hist[p] EXCEPT ![head + 1] = now[p]]
                       /\ hist'[p] \in [0 .. MaxBlock -> States]
  BY <1>0 DEF Seal
<1>2. \A p \in Pools : /\ hist'[p][head + 1] = now[p]
                       /\ \A b \in 0 .. head : hist'[p][b] = hist[p][b]
  <2> TAKE p \in Pools
  <2>1. /\ hist'[p] = [hist[p] EXCEPT ![head + 1] = now[p]]
        /\ hist[p] \in [0 .. MaxBlock -> States]
        /\ head + 1 \in 0 .. MaxBlock
    BY <1>0, <1>1
  <2>2. ASSUME NEW b \in 0 .. head PROVE hist'[p][b] = hist[p][b]
    <3>1. b \in 0 .. MaxBlock /\ b # head + 1
      BY <1>0
    <3> QED
      BY <2>1, <3>1
  <2> QED
    BY <2>1, <2>2
<1>3. HistoryOK'
  <2>1. hist' \in [Pools -> [0 .. MaxBlock -> States]]
    <3>1. hist' = [p \in Pools |-> [hist[p] EXCEPT ![head + 1] = now[p]]]
      BY DEF Seal
    <3>2. \A p \in Pools :
            [hist[p] EXCEPT ![head + 1] = now[p]] \in [0 .. MaxBlock -> States]
      BY <1>0
    <3> QED
      BY <3>1, <3>2
  <2>2. \A p \in V2Pools : /\ hist'[p][head'] <= now'[p]
                           /\ \A b \in 1 .. head' : hist'[p][b - 1] <= hist'[p][b]
    <3> SUFFICES ASSUME NEW p \in V2Pools
                 PROVE  /\ hist'[p][head'] <= now'[p]
                        /\ \A b \in 1 .. head' : hist'[p][b - 1] <= hist'[p][b]
      OBVIOUS
    <3>1. /\ hist[p][head] <= now[p] /\ now[p] \in Int
          /\ \A b \in 1 .. head : hist[p][b - 1] <= hist[p][b]
      BY <1>0 DEF IInv, HistoryOK, States, Absent
    <3>2. /\ hist'[p][head + 1] = now[p] /\ hist'[p][head] = hist[p][head]
          /\ \A b \in 0 .. head : hist'[p][b] = hist[p][b]
      BY <1>0, <1>2 DEF Pools
    <3>3. head' = head + 1 /\ now' = now /\ head \in Nat
      BY <1>0 DEF Seal
    <3>4. ASSUME NEW b \in 1 .. head + 1
          PROVE  hist'[p][b - 1] <= hist'[p][b]
      <4>1. CASE b = head + 1
        BY <3>1, <3>2, <3>3, <4>1
      <4>2. CASE b \in 1 .. head
        <5>1. b \in 0 .. head /\ b - 1 \in 0 .. head
          BY <3>3, <4>2
        <5> QED
          BY <3>1, <3>2, <4>2, <5>1
      <4> QED
        BY <3>3, <4>1, <4>2
    <3>5. hist'[p][head'] <= now'[p]
      BY <3>1, <3>2, <3>3
    <3> QED
      BY <3>3, <3>4, <3>5
  <2> QED
    BY <1>0, <2>1, <2>2 DEF HistoryOK
<1>4. MinedLog \subseteq MinedLog'
  <2> SUFFICES ASSUME NEW x \in MinedLog PROVE x \in MinedLog'
    OBVIOUS
  <2>1. x \in Log /\ LogFits(x) /\ x.block \in 1 .. head
    BY DEF MinedLog
  <2>2. x.block - 1 \in 0 .. head /\ x.block \in 0 .. head /\ x.block \in 1 .. head'
    BY <1>0, <2>1
  <2>3. x.kind = "sync" => /\ x.pool \in Pools
                           /\ hist[x.pool][x.block - 1] <= x.val
                           /\ x.val <= hist[x.pool][x.block]
    BY <2>1, <1>0 DEF MinedLog, LogFits
  <2>4. x.kind = "sync" => /\ hist'[x.pool][x.block - 1] <= x.val
                           /\ x.val <= hist'[x.pool][x.block]
    BY <1>2, <2>2, <2>3
  <2> QED
    BY <2>1, <2>2, <2>4 DEF MinedLog, LogFits
<1>5. OpenLog \subseteq MinedLog'
  BY <1>0, <1>2 DEF OpenLog, MinedLog, LogFits
<1>6. ASSUME NEW p \in Pools, NEW x, HelperOK(p, x) PROVE HelperOK(p, x)'
  BY <1>0, <1>2, <1>6 DEF HelperOK, Helper
<1> QED
  BY <1>3, <1>4, <1>5, <1>6

-----------------------------------------------------------------------------
(* The handlers.                                                           *)

(* What get_pool returns is justified by a read of the chain at a block    *)
(* that has been mined, or was already there.                              *)
LEMMA GetPoolOK ==
  ASSUME IInv, NEW p \in Pools, NEW b \in 0 .. head, CanGet(p, b)
  PROVE  /\ HelperOK(p, GetPool(p, b))
         /\ GetPool(p, b) \in Helper
         /\ helper[p] # None => GetPool(p, b) = helper[p]
<1>1. CASE helper[p] # None
  BY <1>1 DEF IInv, HelpersOK, HelperOK, GetPool
<1>2. CASE helper[p] = None
  <2>1. hist[p][b] # Absent /\ GetPool(p, b) = NewHelper(p, b)
    BY <1>2 DEF CanGet, GetPool
  <2>2. /\ MaxBlock \in Nat /\ head \in 0 .. MaxBlock /\ b \in 0 .. MaxBlock
        /\ hist[p] \in [0 .. MaxBlock -> States] /\ snapshot[p] \in Int \cup {None}
        /\ p \in V2Pools => \A c \in 1 .. head : hist[p][c - 1] <= hist[p][c]
    BY BoundsAssumption DEF IInv, HistoryOK, StateOK
  <2>3. hist[p][b] \in Nat
    BY <2>1, <2>2 DEF States
  <2>4. /\ NewHelper(p, b) \in Helper
        /\ NewHelper(p, b).val = hist[p][b] /\ NewHelper(p, b).block = b
    BY <2>2, <2>3 DEF NewHelper, Helper
  <2>5. p \in V2Pools => /\ hist[p][b] <= hist[p][b]
                         /\ b > 0 => hist[p][b - 1] <= hist[p][b]
    BY <2>2, <2>3
  <2> QED
    BY <1>2, <2>1, <2>3, <2>4, <2>5 DEF HelperOK
<1> QED
  BY <1>1, <1>2

(* The facts every handler starts from.                                    *)
LEMMA MessageOK ==
  ASSUME IInv, Receive
  PROVE  /\ Head(chan) \in MinedLog
         /\ Head(chan).pool \in Pools
         /\ StateBlock(Head(chan)) \in 0 .. head
         /\ head \in Nat
         /\ chan' \in Seq(MinedLog')
         /\ HistoryOK' /\ open' \in Seq(OpenLog')
         /\ subscribed' \in BOOLEAN /\ first_event' \in Nat \cup {None}
         /\ queue' \in Seq(Pools)
         /\ \A p \in Pools : \A x : HelperOK(p, x)' <=> HelperOK(p, x)
<1>1. /\ chan \in Seq(MinedLog) /\ chan # <<>> /\ chan' = Tail(chan)
      /\ head' = head /\ hist' = hist /\ now' = now /\ open' = open
      /\ subscribed' = subscribed /\ first_event' = first_event /\ queue' = queue
  BY DEF IInv, LogsOK, Receive, chainVars
<1>2. Head(chan) \in MinedLog /\ Tail(chan) \in Seq(MinedLog)
  BY <1>1, HeadTailProperties
<1>3. Head(chan).pool \in Pools /\ Head(chan).block \in 1 .. head
  BY <1>2 DEF MinedLog, Log
<1>4. head \in Nat
  BY BoundsAssumption DEF IInv, HistoryOK
<1>5. StateBlock(Head(chan)) \in 0 .. head
  BY <1>3, <1>4 DEF StateBlock
<1>6. MinedLog' = MinedLog /\ OpenLog' = OpenLog
  BY <1>1 DEF MinedLog, OpenLog, LogFits
<1>7. HistoryOK'
  BY <1>1 DEF IInv, HistoryOK
<1>8. \A p \in Pools : \A x : HelperOK(p, x)' <=> HelperOK(p, x)
  BY <1>1 DEF HelperOK
<1> QED
  BY <1>1, <1>2, <1>3, <1>4, <1>5, <1>6, <1>7, <1>8 DEF IInv, LogsOK, StateOK

(* A step that stores at most one justified helper keeps the invariant.    *)
LEMMA StoreOK ==
  ASSUME IInv, Receive, NEW p \in Pools, NEW x,
         HelperOK(p, x), helper' = [helper EXCEPT ![p] = x],
         loop' \in {"starting", "listening", "sleeping", "stopped"},
         managers' \subseteq Factories,
         snapshot' \in [Pools -> Int \cup {None}],
         puts' \in Seq(Pools)
  PROVE  IInv'
<1>1. x \in Helper \cup {None}
  BY DEF HelperOK
<1>2. /\ helper \in [Pools -> Helper \cup {None}]
      /\ \A q \in Pools : HelperOK(q, helper[q])
  BY DEF IInv, HelpersOK
<1>3. helper' \in [Pools -> Helper \cup {None}]
  BY <1>1, <1>2
<1>4. ASSUME NEW q \in Pools PROVE HelperOK(q, helper'[q])
  <2>1. CASE q = p
    BY <1>2, <2>1
  <2>2. CASE q # p
    BY <1>2, <2>2
  <2> QED BY <2>1, <2>2
<1>5. HelpersOK'
  <2>1. \A q \in Pools : HelperOK(q, helper'[q]) => HelperOK(q, helper[q])'
    <3>1. \A q \in Pools : \A y : HelperOK(q, y)' <=> HelperOK(q, y)
      BY MessageOK
    <3>2. head' = head /\ hist' = hist
      BY DEF Receive, chainVars
    <3> QED
      BY <3>2 DEF HelperOK
  <2> QED
    BY <1>3, <1>4, <2>1 DEF HelpersOK
<1> QED
  BY <1>5, MessageOK DEF IInv, LogsOK, StateOK

(* A handler that changes nothing but the loop keeps the invariant.        *)
LEMMA NothingStoredOK ==
  ASSUME IInv, Receive, UNCHANGED <<helper, snapshot, puts>>,
         loop' \in {"starting", "listening", "sleeping", "stopped"},
         managers' \subseteq Factories
  PROVE  IInv'
<1>1. Head(chan).pool \in Pools
  BY MessageOK
<1>2. HelperOK(Head(chan).pool, helper[Head(chan).pool])
  BY <1>1 DEF IInv, HelpersOK
<1>3. helper' = [helper EXCEPT ![Head(chan).pool] = helper[Head(chan).pool]]
  BY DEF IInv, HelpersOK
<1>4. snapshot' \in [Pools -> Int \cup {None}] /\ puts' \in Seq(Pools)
  BY DEF IInv, StateOK
<1> QED
  BY <1>1, <1>2, <1>3, <1>4, StoreOK

(* The ways a handler ends keep the invariant, if what they store is       *)
(* justified.                                                              *)
LEMMA KeepOK ==
  ASSUME IInv, Receive, NEW p \in Pools, NEW x, HelperOK(p, x),
         helper' = [helper EXCEPT ![p] = x], UNCHANGED <<snapshot, puts>>,
         loop' \in {loop, "sleeping", "listening"}, managers' \subseteq Factories
  PROVE  IInv'
<1>1. /\ loop' \in {"starting", "listening", "sleeping", "stopped"}
      /\ snapshot' \in [Pools -> Int \cup {None}] /\ puts' \in Seq(Pools)
  BY DEF IInv, StateOK
<1> QED
  BY <1>1, StoreOK

LEMMA NoHelperOK ==
  ASSUME IInv, Receive, NEW p, NEW b, NoHelper(p, b), UNCHANGED managers
  PROVE  IInv'
<1>1. UNCHANGED <<helper, snapshot, puts>> /\ loop' \in {loop, "sleeping"}
  BY DEF NoHelper, Ignore, Raise
<1>2. /\ loop' \in {"starting", "listening", "sleeping", "stopped"}
      /\ managers' \subseteq Factories
  BY <1>1 DEF IInv, StateOK
<1> QED
  BY <1>1, <1>2, NothingStoredOK

LEMMA StoredOK ==
  ASSUME IInv, Receive, NEW p \in Pools, NEW x \in Helper, HelperOK(p, x),
         Store(p, x), UNCHANGED managers,
         snapshot' \in {snapshot, [snapshot EXCEPT ![p] = x.book]}
  PROVE  IInv'
<1>1. /\ loop' \in {"starting", "listening", "sleeping", "stopped"}
      /\ managers' \subseteq Factories
      /\ puts \in Seq(Pools) /\ puts' = Append(puts, p)
      /\ snapshot \in [Pools -> Int \cup {None}] /\ x.book \in Int
      /\ helper' = [helper EXCEPT ![p] = x]
  BY DEF IInv, StateOK, Store, Helper
<1>2. puts' \in Seq(Pools)
  BY <1>1
<1>3. snapshot' \in [Pools -> Int \cup {None}]
  BY <1>1
<1> QED
  BY <1>1, <1>2, <1>3, StoreOK

LEMMA LiquidityChangedOK ==
  ASSUME IInv, Receive, NEW p \in Pools, NEW x \in Helper, HelperOK(p, x),
         LiquidityChanged(p, x), UNCHANGED managers
  PROVE  IInv'
<1>1. CASE Store(p, x) /\ snapshot' = [snapshot EXCEPT ![p] = x.book]
  BY <1>1, StoredOK
<1>2. CASE Keep(p, x)
  <2>1. managers' \subseteq Factories
    BY DEF IInv, StateOK
  <2> QED
    BY <1>2, <2>1, KeepOK DEF Keep
<1> QED
  BY <1>1, <1>2 DEF LiquidityChanged

(* A mint adds to a liquidity that was not negative.                       *)
LEMMA MintOK == IInv /\ ProcessMintEvent => IInv'
<1> SUFFICES ASSUME IInv, ProcessMintEvent PROVE IInv'
  OBVIOUS
<1> DEFINE m == Head(chan)
           p == m.pool
           b == StateBlock(m)
           h == GetPool(p, b)
<1>1. /\ Receive /\ m.kind = "mint" /\ UNCHANGED managers
      /\ \/ NoHelper(p, b)
         \/ /\ Known(p) /\ CanGet(p, b)
            /\ \/ LateDecodeError(p, h)
               \/ m.val = 0 /\ Keep(p, h)
               \/ m.val # 0 /\ UpdateRefused(p, h, m)
               \/ /\ m.val # 0 /\ h.block <= m.block
                  /\ LiquidityChanged(p, Moved(h, m.val, m.block))
  BY DEF ProcessMintEvent, Dispatch
<1>2. /\ p \in V3Pools /\ p \in Pools /\ p \notin V2Pools
      /\ m.val \in Nat /\ m.block \in 1 .. head /\ b \in 0 .. head /\ head \in Nat
  BY <1>1, MessageOK, PoolsAssumption DEF MinedLog, LogFits
<1>3. managers' \subseteq Factories
  BY <1>1 DEF IInv, StateOK
<1>4. CASE NoHelper(p, b)
  BY <1>1, <1>4, NoHelperOK
<1>5. CASE CanGet(p, b) /\ \/ LateDecodeError(p, h)
                           \/ Keep(p, h)
                           \/ UpdateRefused(p, h, m)
  <2>1. HelperOK(p, h)
    BY <1>2, <1>5, GetPoolOK
  <2>2. /\ helper' = [helper EXCEPT ![p] = h] /\ UNCHANGED <<snapshot, puts>>
        /\ loop' \in {loop, "sleeping", "listening"}
    BY <1>5 DEF LateDecodeError, Keep, UpdateRefused
  <2> QED
    BY <1>1, <1>2, <1>3, <2>1, <2>2, KeepOK
<1>6. CASE CanGet(p, b) /\ LiquidityChanged(p, Moved(h, m.val, m.block))
  <2>1. h \in Helper /\ HelperOK(p, h)
    BY <1>2, <1>6, GetPoolOK
  <2>2. h.val \in Nat
    BY <1>2, <2>1, NoneAssumption DEF HelperOK, Helper
  <2>3. /\ Moved(h, m.val, m.block) \in Helper
        /\ HelperOK(p, Moved(h, m.val, m.block))
    BY <1>2, <2>1, <2>2 DEF Moved, Helper, HelperOK
  <2> QED
    BY <1>1, <1>2, <1>6, <2>3, LiquidityChangedOK
<1> QED
  BY <1>1, <1>4, <1>5, <1>6

(* A burn below zero removes the helper instead of storing the result.     *)
LEMMA BurnOK == IInv /\ ProcessBurnEvent => IInv'
<1> SUFFICES ASSUME IInv, ProcessBurnEvent PROVE IInv'
  OBVIOUS
<1> DEFINE m == Head(chan)
           p == m.pool
           b == StateBlock(m)
           h == GetPool(p, b)
<1>1. /\ Receive /\ m.kind = "burn" /\ UNCHANGED managers
      /\ \/ NoHelper(p, b)
         \/ /\ Known(p) /\ CanGet(p, b)
            /\ \/ LateDecodeError(p, h)
               \/ m.val = 0 /\ Keep(p, h)
               \/ m.val # 0 /\ UpdateRefused(p, h, m)
               \/ m.val # 0 /\ AssertionFailed(p, h, m)
               \/ /\ m.val # 0 /\ h.block <= m.block /\ h.val >= m.val
                  /\ LiquidityChanged(p, Moved(h, -m.val, m.block))
  BY DEF ProcessBurnEvent, Dispatch
<1>2. /\ p \in V3Pools /\ p \in Pools /\ p \notin V2Pools
      /\ m.val \in Nat /\ m.block \in 1 .. head /\ b \in 0 .. head /\ head \in Nat
  BY <1>1, MessageOK, PoolsAssumption DEF MinedLog, LogFits
<1>3. managers' \subseteq Factories
  BY <1>1 DEF IInv, StateOK
<1>4. CASE NoHelper(p, b)
  BY <1>1, <1>4, NoHelperOK
<1>5. CASE CanGet(p, b) /\ \/ LateDecodeError(p, h)
                           \/ Keep(p, h)
                           \/ UpdateRefused(p, h, m)
  <2>1. HelperOK(p, h)
    BY <1>2, <1>5, GetPoolOK
  <2>2. /\ helper' = [helper EXCEPT ![p] = h] /\ UNCHANGED <<snapshot, puts>>
        /\ loop' \in {loop, "sleeping", "listening"}
    BY <1>5 DEF LateDecodeError, Keep, UpdateRefused
  <2> QED
    BY <1>1, <1>2, <1>3, <2>1, <2>2, KeepOK
<1>6. CASE AssertionFailed(p, h, m)
  <2>1. HelperOK(p, None)
    BY DEF HelperOK
  <2> QED
    BY <1>1, <1>2, <1>3, <1>6, <2>1, KeepOK DEF AssertionFailed, Keep
<1>7. CASE /\ CanGet(p, b) /\ h.val >= m.val
           /\ LiquidityChanged(p, Moved(h, -m.val, m.block))
  <2>1. h \in Helper /\ HelperOK(p, h)
    BY <1>2, <1>7, GetPoolOK
  <2>2. h.val - m.val \in Nat
    BY <1>2, <1>7, <2>1 DEF Helper
  <2>3. /\ Moved(h, -m.val, m.block) \in Helper
        /\ HelperOK(p, Moved(h, -m.val, m.block))
    BY <1>2, <2>1, <2>2 DEF Moved, Helper, HelperOK
  <2> QED
    BY <1>1, <1>2, <1>7, <2>3, LiquidityChangedOK
<1> QED
  BY <1>1, <1>4, <1>5, <1>6, <1>7

(* A swap's liquidity comes from the log.                                  *)
LEMMA SwapOK == IInv /\ ProcessSwapEvent => IInv'
<1> SUFFICES ASSUME IInv, ProcessSwapEvent PROVE IInv'
  OBVIOUS
<1> DEFINE m == Head(chan)
           p == m.pool
           b == StateBlock(m)
           h == GetPool(p, b)
<1>1. /\ Receive /\ m.kind = "swap" /\ UNCHANGED managers
      /\ \/ Raise
         \/ NoHelper(p, b)
         \/ /\ CanGet(p, b)
            /\ \/ UpdateRefused(p, h, m)
               \/ Store(p, Replaced(h, m)) /\ UNCHANGED snapshot
  BY DEF ProcessSwapEvent, Dispatch
<1>2. /\ p \in V3Pools /\ p \in Pools /\ p \notin V2Pools
      /\ m.val \in Nat /\ m.block \in 1 .. head /\ b \in 0 .. head /\ head \in Nat
  BY <1>1, MessageOK, PoolsAssumption DEF MinedLog, LogFits
<1>3. managers' \subseteq Factories
  BY <1>1 DEF IInv, StateOK
<1>4. CASE Raise
  BY <1>1, <1>3, <1>4, NothingStoredOK DEF Raise
<1>5. CASE NoHelper(p, b)
  BY <1>1, <1>5, NoHelperOK
<1>6. CASE CanGet(p, b) /\ UpdateRefused(p, h, m)
  BY <1>1, <1>2, <1>3, <1>6, GetPoolOK, KeepOK DEF UpdateRefused, Keep
<1>7. CASE CanGet(p, b) /\ Store(p, Replaced(h, m)) /\ UNCHANGED snapshot
  <2>1. h \in Helper
    BY <1>2, <1>7, GetPoolOK
  <2>2. Replaced(h, m) \in Helper /\ HelperOK(p, Replaced(h, m))
    BY <1>2, <2>1 DEF Replaced, Helper, HelperOK
  <2> QED
    BY <1>1, <1>2, <1>7, <2>2, StoredOK
<1> QED
  BY <1>1, <1>4, <1>5, <1>6, <1>7

(* The reserves and the block both come from the log.                      *)
LEMMA SyncOK == IInv /\ ProcessSyncEvent => IInv'
<1> SUFFICES ASSUME IInv, ProcessSyncEvent PROVE IInv'
  OBVIOUS
<1> DEFINE m == Head(chan)
           p == m.pool
           h == GetPool(p, head)
<1>1. /\ Receive /\ m.kind = "sync" /\ UNCHANGED managers
      /\ \/ Raise
         \/ NoHelper(p, head)
         \/ /\ CanGet(p, head)
            /\ \/ UpdateRefused(p, h, m)
               \/ Store(p, Synced(m)) /\ UNCHANGED snapshot
  BY DEF ProcessSyncEvent, Dispatch
<1>2. /\ p \in V2Pools /\ p \in Pools /\ p \notin V3Pools
      /\ m.val \in Nat /\ m.block \in 1 .. head /\ head \in 0 .. head /\ head \in Nat
      /\ hist[p][m.block - 1] <= m.val /\ m.val <= hist[p][m.block]
  BY <1>1, MessageOK, PoolsAssumption DEF MinedLog, LogFits
<1>3. managers' \subseteq Factories
  BY <1>1 DEF IInv, StateOK
<1>4. CASE Raise
  BY <1>1, <1>3, <1>4, NothingStoredOK DEF Raise
<1>5. CASE NoHelper(p, head)
  BY <1>1, <1>5, NoHelperOK
<1>6. CASE CanGet(p, head) /\ UpdateRefused(p, h, m)
  BY <1>1, <1>2, <1>3, <1>6, GetPoolOK, KeepOK DEF UpdateRefused, Keep
<1>7. CASE Store(p, Synced(m)) /\ UNCHANGED snapshot
  <2>1. Synced(m) \in Helper /\ HelperOK(p, Synced(m))
    BY <1>2 DEF Synced, Helper, HelperOK
  <2> QED
    BY <1>1, <1>2, <1>7, <2>1, StoredOK
<1> QED
  BY <1>1, <1>4, <1>5, <1>6, <1>7

(* A new pool's helper is read at the block of its creation.               *)
LEMMA NewPoolOK ==
  ASSUME IInv, Receive, NewPoolEvent
  PROVE  IInv'
<1> DEFINE m == Head(chan)
           p == m.pool
<1>1. /\ p \in Pools /\ m.block \in 0 .. head /\ FactoryOf[p] \in Factories
      /\ managers \subseteq Factories
      /\ loop \in {"starting", "listening", "sleeping", "stopped"}
  BY MessageOK, FactoryAssumption DEF MinedLog, IInv, StateOK
<1>2. CASE Raise /\ UNCHANGED managers
  BY <1>1, <1>2, NothingStoredOK DEF Raise
<1>3. CASE Ignore /\ managers' \subseteq Factories
  BY <1>1, <1>3, NothingStoredOK DEF Ignore
<1>4. CASE /\ managers' \subseteq Factories
           /\ CanGet(p, m.block) /\ Keep(p, GetPool(p, m.block))
  BY <1>1, <1>4, GetPoolOK, KeepOK DEF Keep
<1>5. RegisterManager(p) => managers' \subseteq Factories
  BY <1>1 DEF RegisterManager
<1> QED
  BY <1>1, <1>2, <1>3, <1>4, <1>5 DEF NewPoolEvent

(* Every disjunct of the listening loop.                                   *)
LEMMA HandleOK == IInv /\ Handle => IInv'
<1> SUFFICES ASSUME IInv, Handle PROVE IInv'
  OBVIOUS
<1>1. managers \subseteq Factories
      /\ loop \in {"starting", "listening", "sleeping", "stopped"}
  BY DEF IInv, StateOK
<1>2. CASE FirstEvent
  BY <1>1, <1>2, NothingStoredOK DEF FirstEvent
<1>3. CASE AnonymousEvent
  BY <1>1, <1>3, NothingStoredOK DEF AnonymousEvent, Dispatch
<1>4. CASE OtherEvent
  BY <1>1, <1>4, NothingStoredOK DEF OtherEvent, Dispatch
<1>5. CASE ProcessMintEvent
  BY <1>5, MintOK
<1>6. CASE ProcessBurnEvent
  BY <1>6, BurnOK
<1>7. CASE ProcessSwapEvent
  BY <1>7, SwapOK
<1>8. CASE ProcessSyncEvent
  BY <1>8, SyncOK
<1>9. CASE ProcessNewV2PoolEvent
  BY <1>9, NewPoolOK DEF ProcessNewV2PoolEvent, Dispatch
<1>10. CASE ProcessNewV3PoolEvent
  BY <1>10, NewPoolOK DEF ProcessNewV3PoolEvent, Dispatch
<1> QED
  BY <1>2, <1>3, <1>4, <1>5, <1>6, <1>7, <1>8, <1>9, <1>10 DEF Handle

-----------------------------------------------------------------------------
(* Steps that leave the helpers and the chain's past alone.                *)

(* What HelpersOK and MinedLog say depends on a few variables only.        *)
LEMMA FrameOK ==
  ASSUME IInv, UNCHANGED <<head, hist, helper>>, HistoryOK',
         open' \in Seq(OpenLog'), chan' \in Seq(MinedLog), StateOK'
  PROVE  IInv'
<1>1. MinedLog' = MinedLog
  BY DEF MinedLog, LogFits
<1>2. HelpersOK'
  BY DEF IInv, HelpersOK, HelperOK
<1> QED
  BY <1>1, <1>2 DEF IInv, LogsOK

(* The put tasks, find_onchain_arbs and the loop around listen().          *)
LEMMA LoopOK ==
  ASSUME IInv, UNCHANGED <<chainVars, helper>>,
         chan' \in Seq(MinedLog), StateOK'
  PROVE  IInv'
<1>1. HistoryOK'
  BY DEF IInv, HistoryOK, chainVars
<1>2. OpenLog' = OpenLog
  BY DEF OpenLog, LogFits, chainVars
<1>3. UNCHANGED <<head, hist, helper, open>>
  BY DEF chainVars
<1> QED
  BY <1>1, <1>2, <1>3, FrameOK DEF IInv, LogsOK

LEMMA EnvironmentOK == IInv /\ Environment => IInv'
<1> SUFFICES ASSUME IInv, Environment PROVE IInv'
  OBVIOUS
<1>0. chan \in Seq(MinedLog) /\ open \in Seq(OpenLog) /\ StateOK
  BY DEF IInv, LogsOK
<1>1. CASE LogEmitted
  <2>1. UNCHANGED <<head, hist>>
    BY <1>1 DEF LogEmitted, ChainEmits, Emit, EmitSync, EmitMint, EmitBurn,
                EmitSwap, EmitCreated, EmitForeign
  <2>2. HistoryOK' /\ open' \in Seq(OpenLog')
    BY <1>1, ChainEmitsOK DEF LogEmitted
  <2>3. StateOK' /\ UNCHANGED <<helper, chan>>
    BY <1>0, <1>1 DEF LogEmitted, serviceVars, StateOK
  <2> QED
    BY <1>0, <2>1, <2>2, <2>3, FrameOK
<1>2. CASE BlockMined
  <2>1. /\ Seal /\ open' = <<>> /\ UNCHANGED helper
        /\ chan' = IF subscribed THEN chan \o open ELSE chan
        /\ StateOK'
    BY <1>0, <1>2 DEF BlockMined, Seal, StateOK
  <2>2. /\ HistoryOK'
        /\ MinedLog \subseteq MinedLog'
        /\ OpenLog \subseteq MinedLog'
        /\ \A p \in Pools : \A x : HelperOK(p, x) => HelperOK(p, x)'
    BY <2>1, SealOK
  <2>3. chan \in Seq(MinedLog') /\ open \in Seq(MinedLog')
    BY <1>0, <2>2, SeqMonotonic
  <2>4. chan' \in Seq(MinedLog')
    BY <2>1, <2>3, ConcatProperties
  <2>5. open' \in Seq(OpenLog')
    BY <2>1, EmptySeq
  <2>6. HelpersOK'
    <3>1. \A p \in Pools : HelperOK(p, helper[p])
      BY DEF IInv, HelpersOK
    <3>2. ASSUME NEW p \in Pools PROVE HelperOK(p, helper[p])'
      <4>1. \A x : HelperOK(p, x) => \/ x = None
                                     \/ /\ x \in Helper
                                        /\ x.block \in 0 .. head'
                                        /\ p \in V3Pools => x.val >= 0
                                        /\ p \in V2Pools =>
                                             /\ x.val <= hist'[p][x.block]
                                             /\ x.block > 0 => hist'[p][x.block - 1] <= x.val
        BY <2>2 DEF HelperOK
      <4> QED
        BY <2>1, <3>1, <4>1 DEF HelperOK
    <3> QED
      BY <2>1, <3>2 DEF IInv, HelpersOK
  <2> QED
    BY <2>1, <2>2, <2>4, <2>5, <2>6 DEF IInv, LogsOK
<1>3. CASE Reorder
  <2>1. /\ UNCHANGED <<chainVars, helper>> /\ StateOK' /\ Len(chan) >= 2
        /\ chan' = <<chan[2], chan[1]>> \o SubSeq(chan, 3, Len(chan))
    BY <1>0, <1>3 DEF Reorder, StateOK
  <2>2. Len(chan) \in Nat /\ \A i \in 1 .. Len(chan) : chan[i] \in MinedLog
    BY <1>0, ElementOfSeq, LenProperties
  <2>3. <<chan[2], chan[1]>> \in Seq(MinedLog)
    BY <2>1, <2>2
  <2>4. SubSeq(chan, 3, Len(chan)) \in Seq(MinedLog)
    BY <2>2, SubSeqProperties
  <2>5. chan' \in Seq(MinedLog)
    BY <2>1, <2>3, <2>4, ConcatProperties
  <2> QED
    BY <2>1, <2>5, LoopOK
<1>4. CASE Disconnect
  <2>1. UNCHANGED <<chainVars, helper>> /\ StateOK' /\ chan' = <<>>
    BY <1>0, <1>4 DEF Disconnect, StateOK
  <2> QED
    BY <2>1, LoopOK, EmptySeq
<1>5. ASSUME NEW v \in {None, 1}, UpdateBotState(v) PROVE IInv'
  <2>1. UNCHANGED <<chainVars, helper, chan>> /\ StateOK'
    BY <1>0, <1>5 DEF UpdateBotState, StateOK
  <2> QED
    BY <1>0, <2>1, LoopOK
<1> QED
  BY <1>1, <1>2, <1>3, <1>4, <1>5 DEF Environment

LEMMA StepIInv == IInv /\ [Next]_vars => IInv'
<1> SUFFICES ASSUME IInv, [Next]_vars PROVE IInv'
  OBVIOUS
<1>0. chan \in Seq(MinedLog) /\ StateOK
  BY DEF IInv, LogsOK
<1>1. CASE Subscribe \/ Wake \/ Cancelled
  <2>1. UNCHANGED <<chainVars, helper, chan>> /\ StateOK'
    BY <1>0, <1>1 DEF Subscribe, Wake, Cancelled, StateOK
  <2> QED
    BY <1>0, <2>1, LoopOK
<1>2. CASE Handle
  BY <1>2, HandleOK
<1>3. CASE RunPut
  <2>1. Head(puts) \in Pools /\ Tail(puts) \in Seq(Pools)
    BY <1>0, <1>3, HeadTailProperties DEF RunPut, StateOK
  <2>2. Append(queue, Head(puts)) \in Seq(Pools)
    BY <1>0, <2>1 DEF StateOK
  <2>3. UNCHANGED <<chainVars, helper, chan>> /\ StateOK'
    BY <1>0, <1>3, <2>1, <2>2 DEF RunPut, StateOK
  <2> QED
    BY <1>0, <2>3, LoopOK
<1>4. CASE Environment
  BY <1>4, EnvironmentOK
<1>5. CASE TakePool
  <2>1. Tail(queue) \in Seq(Pools)
    BY <1>0, <1>5, HeadTailProperties DEF TakePool, StateOK
  <2>2. UNCHANGED <<chainVars, helper, chan>> /\ StateOK'
    BY <1>0, <1>5, <2>1 DEF TakePool, StateOK
  <2> QED
    BY <1>0, <2>2, LoopOK
<1>6. CASE UNCHANGED vars
  <2>1. UNCHANGED <<chainVars, helper, chan>> /\ StateOK'
    BY <1>0, <1>6 DEF vars, serviceVars, StateOK
  <2> QED
    BY <1>0, <2>1, LoopOK
<1> QED
  BY <1>1, <1>2, <1>3, <1>4, <1>5, <1>6 DEF Next, Service

(* The invariant holds in every state of every behaviour.                  *)
LEMMA Invariance == Spec => []IInv
  BY InitIInv, StepIInv, PTL DEF Spec

(* All variables of the service and of its environment keep their types.   *)
THEOREM TypeCorrect == Spec => []TypeOK
  BY Invariance, TypesFollow, PTL

(* The reserves of a registered V2 pool are always reserves it had in the  *)
(* block its helper is stamped with, whatever logs process_sync_event      *)
(* misses, sees late or sees in another order.                             *)
THEOREM ReservesFromBlock == Spec => []ReservesOfBlock
  BY Invariance, SafetyFollows, PTL

(* No helper with negative liquidity is reachable from a pool manager:     *)
(* process_burn_event drops the pool before anyone can find it.            *)
THEOREM NonNegativeLiquidity == Spec => []RegisteredNonNegative
  BY Invariance, SafetyFollows, PTL

-----------------------------------------------------------------------------
(* What one handler may write: the helper of one pool, no older than the   *)
(* one that was there, and with a liquidity book that is either in the     *)
(* snapshot afterwards or comes from the previous helper or the snapshot.  *)
BookKept(p, x) ==
  x # None => IF helper[p] # None
              THEN x.book = helper[p].book
              ELSE snapshot[p] # None /\ FactoryOf[p] \in StartupFactories
                     => x.book = snapshot[p]

Writes(p, x) ==
  /\ helper' = [helper EXCEPT ![p] = x]
  /\ helper[p] # None /\ x # None => x.block >= helper[p].block
  /\ p \in V3Pools /\ "snapshot" \notin Faults =>
       \/ snapshot' = [snapshot EXCEPT ![p] = x.book]
       \/ UNCHANGED snapshot /\ BookKept(p, x)
  /\ p \notin V3Pools => UNCHANGED snapshot

(* A handler that stores nothing writes what was there.                    *)
LEMMA WritesNothing ==
  ASSUME IInv, NEW p \in Pools, UNCHANGED <<helper, snapshot>>
  PROVE  Writes(p, helper[p])
<1>1. /\ helper \in [Pools -> Helper \cup {None}]
      /\ helper[p] # None => helper[p].block \in Int
  BY DEF IInv, HelpersOK, Helper
<1> QED
  BY <1>1 DEF Writes, BookKept

(* A handler that only asks get_pool keeps the block and the book.         *)
LEMMA WritesGot ==
  ASSUME IInv, NEW p \in Pools, NEW b \in 0 .. head, CanGet(p, b),
         helper' = [helper EXCEPT ![p] = GetPool(p, b)], UNCHANGED snapshot
  PROVE  Writes(p, GetPool(p, b))
<1>1. GetPool(p, b) \in Helper /\ (helper[p] # None => GetPool(p, b) = helper[p])
  BY GetPoolOK
<1>2. GetPool(p, b).block \in Int
  BY <1>1 DEF Helper
<1>3. BookKept(p, GetPool(p, b))
  BY <1>1 DEF BookKept, GetPool, NewHelper
<1> QED
  BY <1>1, <1>2, <1>3 DEF Writes

LEMMA V3HandlerWrites ==
  ASSUME IInv, ProcessMintEvent \/ ProcessBurnEvent \/ ProcessSwapEvent
  PROVE  \E p \in Pools : \E x : Writes(p, x)
<1> DEFINE m == Head(chan)
           p == m.pool
           b == StateBlock(m)
           h == GetPool(p, b)
<1>1. Receive /\ m.kind \in {"mint", "burn", "swap"}
  BY DEF ProcessMintEvent, ProcessBurnEvent, ProcessSwapEvent, Dispatch
<1>2. /\ p \in V3Pools /\ p \in Pools
      /\ m.val \in Nat /\ m.block \in 1 .. head /\ b \in 0 .. head /\ head \in Nat
  BY <1>1, MessageOK DEF MinedLog, LogFits
<1>3. CASE UNCHANGED <<helper, snapshot>>
  BY <1>2, <1>3, WritesNothing
<1>4. CASE CanGet(p, b) /\ helper' = [helper EXCEPT ![p] = h] /\ UNCHANGED snapshot
  BY <1>2, <1>4, WritesGot
<1>5. CASE helper' = [helper EXCEPT ![p] = None] /\ UNCHANGED snapshot
  BY <1>2, <1>5 DEF Writes, BookKept
<1>6. ASSUME NEW x, CanGet(p, b), h.block <= m.block, x.block = m.block,
             x # None, LiquidityChanged(p, x)
      PROVE  Writes(p, x)
  <2>1. helper[p] # None => helper[p] = h
    BY <1>2, <1>6, GetPoolOK
  <2>2. helper' = [helper EXCEPT ![p] = x]
    BY <1>6 DEF LiquidityChanged, Store, Keep
  <2>3. "snapshot" \notin Faults => snapshot' = [snapshot EXCEPT ![p] = x.book]
    BY <1>6 DEF LiquidityChanged
  <2> QED
    BY <1>2, <1>6, <2>1, <2>2, <2>3 DEF Writes
<1>7. CASE /\ CanGet(p, b) /\ h.block <= m.block
           /\ Store(p, Replaced(h, m)) /\ UNCHANGED snapshot
  <2>1. h \in Helper /\ (helper[p] # None => helper[p] = h)
    BY <1>2, <1>7, GetPoolOK
  <2>2. BookKept(p, h)
    BY <2>1 DEF BookKept, GetPool, NewHelper
  <2>3. /\ Replaced(h, m).book = h.book /\ Replaced(h, m).block = m.block
        /\ h # None
    BY <2>1, NoneAssumption DEF Replaced
  <2>4. BookKept(p, Replaced(h, m))
    BY <2>2, <2>3 DEF BookKept
  <2> QED
    BY <1>2, <1>7, <2>1, <2>3, <2>4 DEF Writes, Store
<1>8. CASE ProcessMintEvent
  <2>1. \/ UNCHANGED <<helper, snapshot>>
        \/ CanGet(p, b) /\ helper' = [helper EXCEPT ![p] = h] /\ UNCHANGED snapshot
        \/ /\ CanGet(p, b) /\ h.block <= m.block
           /\ LiquidityChanged(p, Moved(h, m.val, m.block))
    BY <1>8 DEF ProcessMintEvent, NoHelper, Ignore, Raise, LateDecodeError, Keep,
                UpdateRefused
  <2>2. Moved(h, m.val, m.block).block = m.block
    BY DEF Moved
  <2>3. CanGet(p, b) => Moved(h, m.val, m.block) # None
    <3>1. CanGet(p, b) => h \in Helper
      BY <1>2, GetPoolOK
    <3>2. CanGet(p, b) => Moved(h, m.val, m.block) \in Helper
      BY <1>2, <3>1 DEF Moved, Helper
    <3> QED
      BY <3>2, NoneAssumption
  <2> HIDE DEF h, b, p, m
  <2> QED
    BY <1>2, <1>3, <1>4, <1>6, <2>1, <2>2, <2>3
<1>9. CASE ProcessBurnEvent
  <2>1. \/ UNCHANGED <<helper, snapshot>>
        \/ CanGet(p, b) /\ helper' = [helper EXCEPT ![p] = h] /\ UNCHANGED snapshot
        \/ helper' = [helper EXCEPT ![p] = None] /\ UNCHANGED snapshot
        \/ /\ CanGet(p, b) /\ h.block <= m.block
           /\ LiquidityChanged(p, Moved(h, -m.val, m.block))
    BY <1>9 DEF ProcessBurnEvent, NoHelper, Ignore, Raise, LateDecodeError, Keep,
                UpdateRefused, AssertionFailed
  <2>2. Moved(h, -m.val, m.block).block = m.block
    BY DEF Moved
  <2>3. CanGet(p, b) => Moved(h, -m.val, m.block) # None
    <3>1. CanGet(p, b) => h \in Helper
      BY <1>2, GetPoolOK
    <3>2. CanGet(p, b) => Moved(h, -m.val, m.block) \in Helper
      BY <1>2, <3>1 DEF Moved, Helper
    <3> QED
      BY <3>2, NoneAssumption
  <2> HIDE DEF h, b, p, m
  <2> QED
    BY <1>2, <1>3, <1>4, <1>5, <1>6, <2>1, <2>2, <2>3
<1>10. CASE ProcessSwapEvent
  <2>1. \/ UNCHANGED <<helper, snapshot>>
        \/ CanGet(p, b) /\ helper' = [helper EXCEPT ![p] = h] /\ UNCHANGED snapshot
        \/ /\ CanGet(p, b) /\ h.block <= m.block
           /\ Store(p, Replaced(h, m)) /\ UNCHANGED snapshot
    BY <1>10 DEF ProcessSwapEvent, NoHelper, Ignore, Raise, Keep, UpdateRefused
  <2> QED
    BY <1>3, <1>4, <1>7, <2>1
<1> QED
  BY <1>8, <1>9, <1>10

LEMMA HandlerWrites == IInv /\ Handle => \E p \in Pools : \E x : Writes(p, x)
<1> SUFFICES ASSUME IInv, Handle PROVE \E p \in Pools : \E x : Writes(p, x)
  OBVIOUS
<1> DEFINE m == Head(chan)
           p == m.pool
<1>1. Receive
  BY DEF Handle, FirstEvent, AnonymousEvent, OtherEvent, ProcessMintEvent,
         ProcessBurnEvent, ProcessSwapEvent, ProcessSyncEvent,
         ProcessNewV2PoolEvent, ProcessNewV3PoolEvent, Dispatch
<1>2. p \in Pools /\ m.block \in 1 .. head /\ m.block \in 0 .. head /\ head \in 0 .. head
  BY <1>1, MessageOK DEF MinedLog
<1>3. CASE UNCHANGED <<helper, snapshot>>
  BY <1>2, <1>3, WritesNothing
<1>4. CASE ProcessMintEvent \/ ProcessBurnEvent \/ ProcessSwapEvent
  BY <1>4, V3HandlerWrites
<1>5. CASE ProcessSyncEvent
  <2>1. \/ UNCHANGED <<helper, snapshot>>
        \/ /\ CanGet(p, head) /\ helper' = [helper EXCEPT ![p] = GetPool(p, head)]
           /\ UNCHANGED snapshot
        \/ /\ CanGet(p, head) /\ GetPool(p, head).block <= m.block
           /\ helper' = [helper EXCEPT ![p] = Synced(m)] /\ UNCHANGED snapshot
    BY <1>5 DEF ProcessSyncEvent, NoHelper, Ignore, Raise, Keep, UpdateRefused, Store
  <2>2. p \notin V3Pools
    BY <1>1, <1>5, MessageOK, PoolsAssumption
    DEF MinedLog, LogFits, ProcessSyncEvent, Dispatch
  <2>3. CASE /\ CanGet(p, head) /\ GetPool(p, head).block <= m.block
             /\ helper' = [helper EXCEPT ![p] = Synced(m)] /\ UNCHANGED snapshot
    <3>1. helper[p] # None => GetPool(p, head) = helper[p]
      BY <1>2, <2>3, GetPoolOK
    <3>2. Synced(m).block = m.block
      BY DEF Synced
    <3>3. helper[p] # None => Synced(m).block >= helper[p].block
      BY <2>3, <3>1, <3>2
    <3> QED
      BY <1>2, <2>2, <2>3, <3>3 DEF Writes
  <2> QED
    BY <1>2, <1>3, <2>1, <2>3, WritesGot
<1>6. CASE ProcessNewV2PoolEvent \/ ProcessNewV3PoolEvent
  <2>1. \/ UNCHANGED <<helper, snapshot>>
        \/ /\ CanGet(p, m.block) /\ helper' = [helper EXCEPT ![p] = GetPool(p, m.block)]
           /\ UNCHANGED snapshot
    BY <1>6 DEF ProcessNewV2PoolEvent, ProcessNewV3PoolEvent, NewPoolEvent,
                Ignore, Raise, Keep
  <2> QED
    BY <1>2, <1>3, <2>1, WritesGot
<1>7. CASE FirstEvent \/ AnonymousEvent \/ OtherEvent
  BY <1>3, <1>7 DEF FirstEvent, AnonymousEvent, OtherEvent
<1> QED
  BY <1>4, <1>5, <1>6, <1>7 DEF Handle

(* Every other step leaves helpers and snapshot alone.                     *)
LEMMA OnlyHandlersWrite ==
  [Next]_vars => Handle \/ UNCHANGED <<helper, snapshot>>
BY DEF Next, Service, Environment, Subscribe, Wake, Cancelled, RunPut, LogEmitted,
       BlockMined, Reorder, Disconnect, UpdateBotState, TakePool, vars, serviceVars

(* No interleaving of logs and faults takes a helper that is kept back to  *)
(* an older block.                                                         *)
THEOREM HelpersMoveForward == Spec => HelperNeverOlder
<1>1. ASSUME IInv, [Next]_vars, NEW p \in Pools, helper[p] # None, helper'[p] # None
      PROVE  helper'[p].block >= helper[p].block
  <2>1. helper \in [Pools -> Helper \cup {None}]
    BY <1>1 DEF IInv, HelpersOK
  <2>2. helper[p].block \in Int
    BY <1>1, <2>1 DEF Helper
  <2>3. CASE UNCHANGED helper
    BY <2>2, <2>3
  <2>4. CASE Handle
    <3>0. PICK q \in Pools : \E x : Writes(q, x)
      BY <1>1, <2>4, HandlerWrites
    <3>1. PICK x : Writes(q, x)
      BY <3>0
    <3>2. /\ helper' = [helper EXCEPT ![q] = x]
          /\ helper[q] # None /\ x # None => x.block >= helper[q].block
      BY <3>1 DEF Writes
    <3> QED
      BY <1>1, <2>1, <2>2, <3>2
  <2> QED
    BY <1>1, <2>3, <2>4, OnlyHandlersWrite
<1>2. IInv /\ [Next]_vars =>
        [\A p \in Pools : helper[p] # None /\ helper'[p] # None =>
           helper'[p].block >= helper[p].block]_vars
  BY <1>1
<1> QED
  BY <1>2, Invariance, PTL DEF Spec, HelperNeverOlder

(* As long as update_snapshot does not fail, the snapshot agrees with the  *)
(* helpers it covers, also across the removal and rebuilding of a pool.    *)
THEOREM SnapshotAgrees ==
  ASSUME "snapshot" \notin Faults
  PROVE  Spec => []SnapshotCurrent
<1>1. Init => SnapshotCurrent
  BY FactoryAssumption DEF Init, SnapshotCurrent, Pools
<1>2. ASSUME IInv, SnapshotCurrent, [Next]_vars PROVE SnapshotCurrent'
  <2>1. CASE UNCHANGED <<helper, snapshot>>
    BY <1>2, <2>1 DEF SnapshotCurrent
  <2>2. CASE Handle
    <3>0. PICK q \in Pools : \E x : Writes(q, x)
      BY <1>2, <2>2, HandlerWrites
    <3>1. PICK x : Writes(q, x)
      BY <3>0
    <3>2. helper \in [Pools -> Helper \cup {None}] /\ snapshot \in [Pools -> Int \cup {None}]
      BY <1>2 DEF IInv, HelpersOK, StateOK
    <3> SUFFICES ASSUME NEW p \in V3Pools, FactoryOf[p] \in StartupFactories,
                        helper'[p] # None, snapshot'[p] # None
                 PROVE  snapshot'[p] = helper'[p].book
      BY DEF SnapshotCurrent
    <3>3. p \in Pools
      BY DEF Pools
    <3>4. helper[p] # None /\ snapshot[p] # None => snapshot[p] = helper[p].book
      BY <1>2 DEF SnapshotCurrent
    <3>5. CASE p # q
      <4>1. helper'[p] = helper[p] /\ snapshot'[p] = snapshot[p]
        BY <3>1, <3>2, <3>3, <3>5 DEF Writes
      <4> QED
        BY <3>4, <4>1
    <3>6. CASE p = q
      <4>1. helper'[p] = x
        BY <3>1, <3>2, <3>6 DEF Writes
      <4>2. CASE snapshot' = [snapshot EXCEPT ![p] = x.book]
        BY <3>2, <3>3, <4>1, <4>2
      <4>3. CASE UNCHANGED snapshot /\ BookKept(p, x)
        BY <3>4, <4>1, <4>3 DEF BookKept
      <4> QED
        BY <3>1, <3>6, <4>2, <4>3 DEF Writes
    <3> QED
      BY <3>5, <3>6
  <2> QED
    BY <1>2, <2>1, <2>2, OnlyHandlersWrite
<1> QED
  BY <1>1, <1>2, Invariance, PTL DEF Spec

-----------------------------------------------------------------------------
(* Exactness.  Without lost, late or reordered logs, a helper differs from *)
(* the chain by exactly the logs that are still to come.                   *)

(* The logs that are mined or delivered and not handled, in chain order.   *)
Pending == chan \o open

(* What a log of a V3 pool makes of its liquidity x.                       *)
Changes(m, x, y) ==
  /\ m.kind = "mint" => y = x + m.val
  /\ m.kind = "burn" => y = x - m.val /\ y >= 0
  /\ m.kind = "swap" => x = m.val /\ y = x

(* A log of V3 pool p in a block after b.                                  *)
Relevant(p, b, m) ==
  m.pool = p /\ m.kind \in {"mint", "burn", "swap"} /\ m.block > b

(* The liquidity of p before and after each log of s, when those up to     *)
(* block b are skipped; it is the same between two logs of p.              *)
IsTrace(p, b, s, st) ==
  /\ st \in [1 .. Len(s) + 1 -> Int]
  /\ \A i \in 1 .. Len(s) : Relevant(p, b, s[i]) => Changes(s[i], st[i], st[i + 1])
  /\ \A i, j \in 1 .. Len(s) + 1 :
       i <= j /\ (\A k \in i .. j - 1 : ~Relevant(p, b, s[k])) => st[i] = st[j]

(* Before the k-th log of s, the logs of p up to block d are over.         *)
Boundary(p, s, d, k) ==
  \A i \in 1 .. Len(s) : Relevant(p, 0, s[i]) => (i < k <=> s[i].block <= d)

(* The trace goes through the liquidity that past gives for the ends of    *)
(* its blocks.                                                             *)
Passes(p, past, s, st) ==
  \A d \in DOMAIN past : \A k \in 1 .. Len(s) + 1 :
    Boundary(p, s, d, k) => st[k] = past[d]

Leads(p, b, past, s, x, y) ==
  \E st : IsTrace(p, b, s, st) /\ Passes(p, past, s, st) /\ st[1] = x /\ st[Len(s) + 1] = y

(* The mined history of p from block c on.                                 *)
Past(p, c) == [d \in c .. head |-> hist[p][d]]

Within(f, past) == DOMAIN f \subseteq DOMAIN past /\ \A d \in DOMAIN f : f[d] = past[d]

LEMMA TraceAppend ==
  ASSUME NEW s \in Seq(Log), NEW m \in Log, NEW p, NEW b, NEW x, NEW y, NEW z \in Int,
         NEW past, \A d \in DOMAIN past : d \in Nat /\ d < m.block, b \in Nat,
         Leads(p, b, past, s, x, y),
         Relevant(p, b, m) => Changes(m, y, z), ~Relevant(p, b, m) => z = y
  PROVE  Leads(p, b, past, Append(s, m), x, z)
<1> DEFINE n == Len(s)
           t == Append(s, m)
<1>1. /\ n \in Nat /\ Len(t) = n + 1 /\ t[n + 1] = m
      /\ \A i \in 1 .. n : t[i] = s[i]
  BY AppendProperties, LenProperties
<1>2. PICK st : IsTrace(p, b, s, st) /\ Passes(p, past, s, st) /\ st[1] = x /\ st[n + 1] = y
  BY DEF Leads
<1> DEFINE u == [i \in 1 .. n + 2 |-> IF i = n + 2 THEN z ELSE st[i]]
<1> HIDE DEF n, t
<1>3. /\ u \in [1 .. Len(t) + 1 -> Int]
      /\ \A i \in 1 .. n + 1 : u[i] = st[i]
      /\ u[n + 2] = z
  BY <1>1, <1>2 DEF IsTrace, n
<1> HIDE DEF u
<1>4. ASSUME NEW i \in 1 .. Len(t), Relevant(p, b, t[i])
      PROVE  Changes(t[i], u[i], u[i + 1])
  <2>1. CASE i = n + 1
    BY <1>1, <1>2, <1>3, <1>4, <2>1
  <2>2. CASE i # n + 1
    <3>1. i \in 1 .. n /\ i \in 1 .. n + 1 /\ i + 1 \in 1 .. n + 1
      BY <1>1, <2>2
    <3>2. t[i] = s[i] /\ u[i] = st[i] /\ u[i + 1] = st[i + 1]
      BY <1>1, <1>3, <3>1
    <3> QED
      BY <1>2, <1>4, <3>1, <3>2 DEF IsTrace, n
  <2> QED
    BY <2>1, <2>2
<1>5. ASSUME NEW i \in 1 .. Len(t) + 1, NEW j \in 1 .. Len(t) + 1, i <= j,
             \A k \in i .. j - 1 : ~Relevant(p, b, t[k])
      PROVE  u[i] = u[j]
  <2>1. ASSUME NEW k \in 1 .. n + 1, i <= k, k <= j PROVE st[i] = st[k]
    <3>1. i \in 1 .. n + 1 /\ i <= k
      BY <1>1, <2>1
    <3>2. ASSUME NEW l \in i .. k - 1 PROVE ~Relevant(p, b, s[l])
      <4>1. l \in i .. j - 1 /\ l \in 1 .. n
        BY <1>1, <2>1, <3>1
      <4> QED
        BY <1>1, <1>5, <4>1
    <3> QED
      BY <1>2, <3>1, <3>2 DEF IsTrace, n
  <2>2. CASE j \in 1 .. n + 1
    BY <1>1, <1>3, <1>5, <2>1, <2>2
  <2>3. CASE j = n + 2 /\ i = n + 2
    BY <2>3
  <2>4. CASE j = n + 2 /\ i \in 1 .. n + 1
    <3>1. st[i] = st[n + 1]
      BY <1>1, <2>1, <2>4
    <3>2. z = y
      <4>1. n + 1 \in i .. j - 1
        BY <1>1, <2>4
      <4> QED
        BY <1>1, <1>5, <4>1
    <3> QED
      BY <1>2, <1>3, <2>4, <3>1, <3>2
  <2> QED
    BY <1>1, <2>2, <2>3, <2>4
<1>6. u[1] = x /\ u[Len(t) + 1] = z
  BY <1>1, <1>2, <1>3
<1>7. IsTrace(p, b, t, u)
  BY <1>3, <1>4, <1>5 DEF IsTrace
<1>8. ASSUME NEW d \in DOMAIN past, NEW k \in 1 .. Len(t) + 1, Boundary(p, t, d, k)
      PROVE  u[k] = past[d]
  <2>1. d \in Nat /\ d < m.block /\ m.block \in Nat
    BY DEF Log
  <2>2. ASSUME NEW l \in 1 .. n + 1,
               \A i \in 1 .. n : Relevant(p, 0, s[i]) => (i < l <=> s[i].block <= d)
        PROVE  u[l] = past[d]
    <3>1. Boundary(p, s, d, l)
      BY <2>2 DEF Boundary, n
    <3>2. st[l] = past[d]
      BY <1>2, <3>1 DEF Passes, n
    <3> QED
      BY <1>3, <3>2
  <2>3. \A i \in 1 .. n : Relevant(p, 0, s[i]) => (i < k <=> s[i].block <= d)
    BY <1>1, <1>8 DEF Boundary
  <2>4. CASE k \in 1 .. n + 1
    BY <2>2, <2>3, <2>4
  <2>5. CASE k = n + 2
    <3>1. ~Relevant(p, 0, m)
      <4>1. n + 1 \in 1 .. Len(t) /\ n + 1 < k
        BY <1>1, <2>5
      <4> QED
        BY <1>1, <1>8, <2>1, <4>1 DEF Boundary
    <3>2. ~Relevant(p, b, m)
      BY <2>1, <3>1 DEF Relevant
    <3>3. n + 1 \in 1 .. n + 1 /\ \A i \in 1 .. n : i < n + 1 /\ i < k
      BY <1>1, <2>5
    <3>4. u[n + 1] = past[d]
      BY <2>2, <2>3, <3>3
    <3> QED
      BY <1>2, <1>3, <2>5, <3>2, <3>3, <3>4
  <2> QED
    BY <1>1, <2>4, <2>5
<1>9. Passes(p, past, t, u)
  BY <1>8 DEF Passes
<1> QED
  BY <1>6, <1>7, <1>9 DEF Leads, t

(* Past the first log the trace goes on from its result w, and still goes  *)
(* through what it went through from the block of that log on - or from    *)
(* any block, if the log changed nothing.                                  *)
LEMMA TraceTail ==
  ASSUME NEW s \in Seq(Log), s # <<>>, NEW p, NEW b \in Nat, NEW past, NEW x, NEW y,
         \A i \in 1 .. Len(s) : s[1].block <= s[i].block,
         DOMAIN past \subseteq Nat, Leads(p, b, past, s, x, y)
  PROVE  \E w \in Int :
           /\ \A f : /\ Within(f, past)
                     /\ w = x \/ \A d \in DOMAIN f : s[1].block <= d
                     => Leads(p, b, f, Tail(s), w, y)
           /\ Relevant(p, b, s[1]) => Changes(s[1], x, w)
           /\ ~Relevant(p, b, s[1]) => w = x
<1> DEFINE n == Len(s)
           t == Tail(s)
<1>1. /\ n \in Nat /\ 1 <= n /\ Len(t) = n - 1
      /\ \A i \in 1 .. n - 1 : t[i] = s[i + 1]
  BY HeadTailProperties, LenProperties, EmptySeq
<1>2. PICK st : IsTrace(p, b, s, st) /\ Passes(p, past, s, st) /\ st[1] = x /\ st[n + 1] = y
  BY DEF Leads
<1> DEFINE u == [i \in 1 .. n |-> st[i + 1]]
<1> HIDE DEF n, t
<1>3. /\ u \in [1 .. Len(t) + 1 -> Int]
      /\ \A i \in 1 .. n : u[i] = st[i + 1]
  <2>1. st \in [1 .. n + 1 -> Int]
    BY <1>2 DEF IsTrace, n
  <2>2. \A i \in 1 .. n : i + 1 \in 1 .. n + 1
    BY <1>1
  <2>3. Len(t) + 1 = n
    BY <1>1
  <2> QED
    BY <2>1, <2>2, <2>3
<1> HIDE DEF u
<1>4. ASSUME NEW i \in 1 .. Len(t), Relevant(p, b, t[i])
      PROVE  Changes(t[i], u[i], u[i + 1])
  <2>1. i \in 1 .. n /\ i + 1 \in 1 .. n /\ t[i] = s[i + 1]
    BY <1>1
  <2>2. u[i] = st[i + 1] /\ u[i + 1] = st[(i + 1) + 1]
    BY <1>3, <2>1
  <2> QED
    BY <1>2, <1>4, <2>1, <2>2 DEF IsTrace, n
<1>5. ASSUME NEW i \in 1 .. Len(t) + 1, NEW j \in 1 .. Len(t) + 1, i <= j,
             \A k \in i .. j - 1 : ~Relevant(p, b, t[k])
      PROVE  u[i] = u[j]
  <2>1. i \in 1 .. n /\ j \in 1 .. n /\ i + 1 \in 1 .. n + 1 /\ j + 1 \in 1 .. n + 1
        /\ i + 1 <= j + 1
    BY <1>1, <1>5
  <2>2. ASSUME NEW k \in i + 1 .. (j + 1) - 1 PROVE ~Relevant(p, b, s[k])
    <3>1. k - 1 \in i .. j - 1 /\ k - 1 \in 1 .. n - 1 /\ (k - 1) + 1 = k
      BY <1>1, <2>1
    <3> QED
      BY <1>1, <1>5, <3>1
  <2>3. st[i + 1] = st[j + 1]
    BY <1>2, <2>1, <2>2 DEF IsTrace, n
  <2> QED
    BY <1>3, <2>1, <2>3
<1>6. IsTrace(p, b, t, u)
  BY <1>3, <1>4, <1>5 DEF IsTrace
<1>7. 1 \in 1 .. n /\ n \in 1 .. n /\ Len(t) + 1 = n
  BY <1>1
<1>8. u[1] = st[2] /\ u[Len(t) + 1] = y /\ u[1] \in Int
  BY <1>2, <1>3, <1>7
<1>9. ASSUME NEW f, Within(f, past), u[1] = x \/ \A d \in DOMAIN f : s[1].block <= d
      PROVE  Leads(p, b, f, t, u[1], y)
  <2>1. ASSUME NEW d \in DOMAIN f, NEW k \in 1 .. Len(t) + 1, Boundary(p, t, d, k)
        PROVE  u[k] = f[d]
    <3>1. /\ d \in DOMAIN past /\ f[d] = past[d] /\ d \in Nat
          /\ k \in 1 .. n /\ k + 1 \in 1 .. n + 1 /\ u[k] = st[k + 1]
      <4>1. d \in DOMAIN past /\ f[d] = past[d] /\ d \in Nat
        BY <1>9 DEF Within
      <4>2. k \in 1 .. n /\ k + 1 \in 1 .. n + 1
        BY <1>1
      <4> QED
        BY <1>3, <4>1, <4>2
    <3>2. ASSUME NEW i \in 1 .. n PROVE s[i] \in Log /\ s[i].block \in Nat
      <4>1. s[i] \in Log
        BY <3>2, ElementOfSeq DEF n
      <4> QED
        BY <4>1 DEF Log
    <3>3. CASE Relevant(p, 0, s[1]) => s[1].block <= d
      <4>1. ASSUME NEW i \in 1 .. n, Relevant(p, 0, s[i])
            PROVE  i < k + 1 <=> s[i].block <= d
        <5>1. CASE i = 1
          BY <3>1, <3>3, <4>1, <5>1
        <5>2. CASE i # 1
          <6>1. i - 1 \in 1 .. Len(t) /\ t[i - 1] = s[i] /\ (i - 1 < k <=> i < k + 1)
            BY <1>1, <3>1, <5>2
          <6> QED
            BY <2>1, <4>1, <6>1 DEF Boundary
        <5> QED
          BY <5>1, <5>2
      <4>2. Boundary(p, s, d, k + 1)
        BY <4>1 DEF Boundary, n
      <4> QED
        BY <1>2, <3>1, <4>2 DEF Passes, n
    <3>4. CASE ~(s[1].block <= d)
      <4>1. u[1] = x
        BY <1>9, <3>4
      <4>2. \A i \in 1 .. n : ~(s[i].block <= d)
        BY <1>7, <3>1, <3>2, <3>4 DEF n
      <4>3. Boundary(p, s, d, 1)
        BY <4>2 DEF Boundary, n
      <4>4. st[1] = past[d]
        BY <1>1, <1>2, <3>1, <4>3 DEF Passes, n
      <4>5. ASSUME NEW j \in 1 .. k - 1 PROVE ~Relevant(p, b, t[j])
        <5>1. j \in 1 .. Len(t) /\ j < k /\ j + 1 \in 1 .. n /\ t[j] = s[j + 1]
          BY <1>1, <3>1
        <5>2. ~Relevant(p, 0, t[j])
          BY <2>1, <4>2, <5>1 DEF Boundary
        <5>3. t[j].block \in Nat
          BY <3>2, <5>1
        <5> QED
          BY <5>2, <5>3 DEF Relevant
      <4>6. u[1] = u[k]
        BY <1>1, <1>5, <3>1, <4>5
      <4> QED
        BY <1>2, <3>1, <4>1, <4>4, <4>6
    <3> QED
      BY <3>3, <3>4
  <2>2. Passes(p, f, t, u)
    BY <2>1 DEF Passes
  <2> QED
    BY <1>6, <1>8, <2>2 DEF Leads
<1>10. Relevant(p, b, s[1]) => Changes(s[1], x, u[1])
  BY <1>2, <1>7, <1>8 DEF IsTrace, n
<1>11. ~Relevant(p, b, s[1]) => u[1] = x
  <2>1. 1 \in 1 .. n + 1 /\ 2 \in 1 .. n + 1 /\ 1 .. 2 - 1 = {1}
    BY <1>1
  <2> QED
    BY <1>2, <1>8, <2>1 DEF IsTrace, n
<1> QED
  BY <1>8, <1>9, <1>10, <1>11 DEF t

(* Without logs of the pool nothing changes.                               *)
LEMMA TraceNone ==
  ASSUME NEW s \in Seq(Log), NEW p, NEW b, \A i \in 1 .. Len(s) : ~Relevant(p, b, s[i]),
         NEW past
  PROVE  /\ \A x \in Int : (\A d \in DOMAIN past : past[d] = x) => Leads(p, b, past, s, x, x)
         /\ \A x, y : Leads(p, b, past, s, x, y) => x = y
<1>0. Len(s) \in Nat
  BY LenProperties
<1>1. ASSUME NEW x \in Int, \A d \in DOMAIN past : past[d] = x
      PROVE  Leads(p, b, past, s, x, x)
  <2> DEFINE u == [i \in 1 .. Len(s) + 1 |-> x]
  <2>1. IsTrace(p, b, s, u)
    BY DEF IsTrace
  <2>2. u[1] = x /\ u[Len(s) + 1] = x
    BY <1>0
  <2>3. Passes(p, past, s, u)
    BY <1>1 DEF Passes
  <2> QED
    BY <2>1, <2>2, <2>3 DEF Leads
<1>2. ASSUME NEW x, NEW y, Leads(p, b, past, s, x, y) PROVE x = y
  <2>1. PICK st : IsTrace(p, b, s, st) /\ st[1] = x /\ st[Len(s) + 1] = y
    BY <1>2 DEF Leads
  <2>2. /\ 1 \in 1 .. Len(s) + 1 /\ Len(s) + 1 \in 1 .. Len(s) + 1 /\ 1 <= Len(s) + 1
        /\ 1 .. (Len(s) + 1) - 1 = 1 .. Len(s)
    BY <1>0
  <2> QED
    BY <2>1, <2>2 DEF IsTrace
<1> QED
  BY <1>1, <1>2

(* A trace begins at the state of every block whose logs are over.         *)
LEMMA TraceStart ==
  ASSUME NEW s \in Seq(Log), NEW p, NEW b, NEW past, NEW x, NEW y,
         Leads(p, b, past, s, x, y), NEW d \in DOMAIN past,
         \A i \in 1 .. Len(s) : Relevant(p, 0, s[i]) => ~(s[i].block <= d)
  PROVE  x = past[d]
<1>1. PICK st : IsTrace(p, b, s, st) /\ Passes(p, past, s, st) /\ st[1] = x
  BY DEF Leads
<1>2. Boundary(p, s, d, 1)
  BY LenProperties DEF Boundary
<1>3. 1 \in 1 .. Len(s) + 1
  BY LenProperties
<1> QED
  BY <1>1, <1>2, <1>3 DEF Passes

(* A trace ends at the state of a block with all of its logs.              *)
LEMMA TraceSealed ==
  ASSUME NEW s \in Seq(Log), NEW p, NEW b \in Nat, NEW past, NEW x, NEW y, NEW f,
         Leads(p, b, past, s, x, y), \A i \in 1 .. Len(s) : s[i].block \in Nat,
         \A d \in DOMAIN f : \/ d \in DOMAIN past /\ f[d] = past[d]
                             \/ f[d] = y /\ \A i \in 1 .. Len(s) : s[i].block <= d
  PROVE  Leads(p, b, f, s, x, y)
<1>1. PICK st : IsTrace(p, b, s, st) /\ Passes(p, past, s, st) /\ st[1] = x /\ st[Len(s) + 1] = y
  BY DEF Leads
<1>2. ASSUME NEW d \in DOMAIN f, NEW k \in 1 .. Len(s) + 1, Boundary(p, s, d, k)
      PROVE  st[k] = f[d]
  <2>1. CASE d \in DOMAIN past /\ f[d] = past[d]
    BY <1>1, <1>2, <2>1 DEF Passes
  <2>2. CASE f[d] = y /\ \A i \in 1 .. Len(s) : s[i].block <= d
    <3>1. Len(s) + 1 \in 1 .. Len(s) + 1 /\ k <= Len(s) + 1
      BY LenProperties
    <3>2. ASSUME NEW j \in k .. (Len(s) + 1) - 1 PROVE ~Relevant(p, b, s[j])
      <4>1. j \in 1 .. Len(s) /\ ~(j < k)
        BY LenProperties
      <4>2. ~Relevant(p, 0, s[j])
        BY <1>2, <2>2, <4>1 DEF Boundary
      <4> QED
        BY <4>1, <4>2 DEF Relevant
    <3>3. st[k] = st[Len(s) + 1]
      BY <1>1, <3>1, <3>2 DEF IsTrace
    <3> QED
      BY <1>1, <2>2, <3>3
  <2> QED
    BY <2>1, <2>2
<1>3. Passes(p, f, s, st)
  BY <1>2 DEF Passes
<1> QED
  BY <1>1, <1>3 DEF Leads

(* Only which logs count matters, not the block they are counted from.     *)
LEMMA TraceSame ==
  ASSUME NEW s \in Seq(Log), NEW p, NEW b, NEW c, NEW past, NEW x, NEW y,
         \A i \in 1 .. Len(s) : Relevant(p, b, s[i]) <=> Relevant(p, c, s[i]),
         Leads(p, b, past, s, x, y)
  PROVE  Leads(p, c, past, s, x, y)
<1>1. PICK st : IsTrace(p, b, s, st) /\ Passes(p, past, s, st) /\ st[1] = x /\ st[Len(s) + 1] = y
  BY DEF Leads
<1>2. ASSUME NEW i \in 1 .. Len(s) + 1, NEW j \in 1 .. Len(s) + 1, i <= j,
             \A k \in i .. j - 1 : ~Relevant(p, c, s[k])
      PROVE  st[i] = st[j]
  <2>1. i .. j - 1 \subseteq 1 .. Len(s)
    BY LenProperties
  <2> QED
    BY <1>1, <1>2, <2>1 DEF IsTrace
<1>3. IsTrace(p, c, s, st)
  BY <1>1, <1>2 DEF IsTrace
<1> QED
  BY <1>1, <1>3 DEF Leads

-----------------------------------------------------------------------------
(* The invariant.                                                          *)

Due == 1 .. Len(Pending)

Sync(p, m) == m.pool = p /\ m.kind = "sync"

Concerns(p, m) == m.pool = p /\ m.kind \in {"mint", "burn", "swap", "sync"}

(* Blocks that no handled log is newer than.                               *)
Reached(b) == b = head \/ (chan # <<>> /\ chan[1].block <= b)

(* The state of p at the end of block d, where the open block is the last. *)
At(p, d) == IF d = head + 1 THEN now[p] ELSE hist[p][d]

DeliveryOK ==
  /\ loop # "starting" => subscribed
  /\ first_event # None
  /\ \A i \in Due : Pending[i].kind # "pool"
  /\ \A i, j \in Due : i <= j => Pending[i].block <= Pending[j].block
  /\ \A p \in Pools : \A i \in Due : Concerns(p, Pending[i]) => now[p] # Absent
  /\ StartupFactories \subseteq managers
  /\ managers \subseteq StartupFactories \cup {FactoryOf[q] : q \in V2Pools}
  /\ \A p \in Pools : helper[p] # None => FactoryOf[p] \in managers
  /\ \A p \in Pools : \A b \in 0 .. head : now[p] = Absent => hist[p][b] = Absent
  /\ \A p \in V3Pools : \A b \in 0 .. head : hist[p][b] = Absent => now[p] = Absent

(* Between the Syncs of a V2 pool its state stays.  At the end of any      *)
(* block it is the value of the last pending Sync up to there; without     *)
(* one, it is the state of any block the handled logs have not passed, and *)
(* the helper, if no older, has it.                                        *)
V2Exact(p) ==
  /\ snapshot[p] = None
  /\ \A d \in 0 .. head + 1 : \A i \in Due :
       /\ Sync(p, Pending[i]) /\ Pending[i].block <= d
       /\ \A j \in Due : i < j /\ Sync(p, Pending[j]) => Pending[j].block > d
       => Pending[i].val = At(p, d)
  /\ \A b \in 0 .. head : \A d \in b .. head + 1 :
       /\ Reached(b) /\ hist[p][b] # Absent
       /\ \A i \in Due : Sync(p, Pending[i]) /\ Pending[i].block <= d => Pending[i].block <= b
       => hist[p][b] = At(p, d)
  /\ helper[p] # None =>
       /\ now[p] # Absent
       /\ helper[p].book = helper[p].val
       /\ \A d \in helper[p].block .. head + 1 :
            (\A i \in Due : Sync(p, Pending[i]) /\ Pending[i].block <= d
                              => Pending[i].block < helper[p].block)
              => helper[p].val = At(p, d)

(* A V3 pool with a helper: the pending logs lead to the chain's state,    *)
(* through its state at the end of each block that is no older.            *)
V3Held(p) ==
  helper[p] # None =>
    /\ helper[p].book = helper[p].val
    /\ Leads(p, 0, Past(p, helper[p].block), Pending, helper[p].val, now[p])
    /\ \A i \in Due : helper[p].block <= Pending[i].block

(* One without: none of its logs was handled, so they lead there from any  *)
(* block, and the snapshot is its liquidity before the first of them.      *)
V3Untouched(p) ==
  helper[p] = None /\ FactoryOf[p] \in StartupFactories =>
    /\ \A b \in 0 .. head :
         hist[p][b] # Absent => Leads(p, b, Past(p, b), Pending, hist[p][b], now[p])
    /\ snapshot[p] # None =>
         /\ \A b \in 0 .. head :
              (\A i \in Due : Relevant(p, 0, Pending[i]) => b < Pending[i].block)
                => hist[p][b] = snapshot[p]
         /\ (\A i \in Due : ~Relevant(p, 0, Pending[i])) => now[p] = snapshot[p]

PoolsExact ==
  /\ \A p \in V2Pools : V2Exact(p)
  /\ \A p \in V3Pools : V3Held(p) /\ V3Untouched(p)

ExactInv == IInv /\ DeliveryOK /\ PoolsExact

(* The bot and its environment, when nothing is lost, late or reordered,   *)
(* no log announces a V3 pool, and no factory has pools of both versions.  *)
Reliable ==
  /\ Faults \subseteq {"manager", "snapshot", "cancel"}
  /\ "pool" \notin Kinds
  /\ \A p \in V2Pools, q \in V3Pools : FactoryOf[p] # FactoryOf[q]

-----------------------------------------------------------------------------
(* Pending logs.                                                           *)

LEMMA PendingLogs ==
  ASSUME IInv
  PROVE  /\ Pending \in Seq(Log) /\ Len(Pending) \in Nat /\ head \in Nat
         /\ Len(Pending) = Len(chan) + Len(open)
         /\ \A i \in Due : /\ Pending[i] \in Log /\ LogFits(Pending[i])
                           /\ Pending[i].block \in 1 .. head + 1
         /\ Len(chan) \in Nat /\ Len(open) \in Nat
         /\ \A i \in 1 .. Len(chan) : Pending[i] = chan[i] /\ Pending[i].block <= head
         /\ \A i \in 1 .. Len(open) : /\ Pending[Len(chan) + i] = open[i]
                                      /\ open[i].block = head + 1
<1>1. /\ chan \in Seq(MinedLog) /\ open \in Seq(OpenLog)
      /\ MinedLog \subseteq Log /\ OpenLog \subseteq Log
      /\ head \in 0 .. MaxBlock /\ MaxBlock \in Nat
  BY BoundsAssumption DEF IInv, LogsOK, HistoryOK, MinedLog, OpenLog
<1>2. chan \in Seq(Log) /\ open \in Seq(Log)
  BY <1>1, SeqMonotonic
<1>3. /\ Pending \in Seq(Log) /\ Len(Pending) = Len(chan) + Len(open)
      /\ \A i \in 1 .. Len(chan) + Len(open) :
           Pending[i] = IF i <= Len(chan) THEN chan[i] ELSE open[i - Len(chan)]
  BY <1>2, ConcatProperties DEF Pending
<1>4. Len(chan) \in Nat /\ Len(open) \in Nat
  BY <1>2, LenProperties
<1>5. ASSUME NEW i \in 1 .. Len(chan)
      PROVE  /\ Pending[i] = chan[i] /\ Pending[i] \in Log /\ LogFits(Pending[i])
             /\ Pending[i].block \in 1 .. head
  <2>1. chan[i] \in MinedLog
    BY <1>1, ElementOfSeq
  <2>2. Pending[i] = chan[i]
    BY <1>3, <1>4
  <2> QED
    BY <2>1, <2>2 DEF MinedLog
<1>6. ASSUME NEW i \in 1 .. Len(open)
      PROVE  /\ Pending[Len(chan) + i] = open[i] /\ open[i] \in Log /\ LogFits(open[i])
             /\ open[i].block = head + 1
  <2>1. open[i] \in OpenLog
    BY <1>1, ElementOfSeq
  <2>2. /\ Len(chan) + i \in 1 .. Len(chan) + Len(open) /\ ~(Len(chan) + i <= Len(chan))
        /\ (Len(chan) + i) - Len(chan) = i
    BY <1>4
  <2>3. Pending[Len(chan) + i] = open[i]
    BY <1>3, <2>2
  <2> QED
    BY <2>1, <2>3 DEF OpenLog
<1>7. ASSUME NEW i \in Due
      PROVE  /\ Pending[i] \in Log /\ LogFits(Pending[i])
             /\ Pending[i].block \in 1 .. head + 1
  <2>1. CASE i \in 1 .. Len(chan)
    BY <1>1, <1>5, <2>1
  <2>2. CASE i \notin 1 .. Len(chan)
    <3>1. /\ i - Len(chan) \in 1 .. Len(open) /\ Len(chan) + (i - Len(chan)) = i
      BY <1>3, <1>4, <2>2 DEF Due
    <3>2. /\ Pending[i] = open[i - Len(chan)]
          /\ open[i - Len(chan)] \in Log /\ LogFits(open[i - Len(chan)])
          /\ open[i - Len(chan)].block = head + 1
      BY <1>6, <3>1
    <3> QED
      BY <1>1, <3>2
  <2> QED
    BY <2>1, <2>2
<1>8. head \in Nat
  BY <1>1
<1>9. Len(Pending) \in Nat
  BY <1>3, <1>4
<1>10. \A i \in 1 .. Len(chan) : Pending[i] = chan[i] /\ Pending[i].block <= head
  BY <1>5, <1>8
<1>11. \A i \in 1 .. Len(open) : Pending[Len(chan) + i] = open[i] /\ open[i].block = head + 1
  BY <1>6
<1> QED
  BY <1>3, <1>4, <1>7, <1>8, <1>9, <1>10, <1>11

(* A settled pool has no pending log.                                      *)
LEMMA ExactFollows == ExactInv => PoolStateExact
<1> SUFFICES ASSUME ExactInv, NEW p \in Pools, helper[p] # None, Settled(p)
             PROVE  helper[p].val = now[p] /\ helper[p].book = now[p]
  BY DEF PoolStateExact
<1>0. IInv /\ PoolsExact
  BY DEF ExactInv
<1>1. Pending \in Seq(Log) /\ Due = 1 .. Len(Pending)
  BY <1>0, PendingLogs DEF Due
<1>2. \A i \in Due : Pending[i].pool # p
  <2> SUFFICES ASSUME NEW i \in Due, Pending[i].pool = p PROVE FALSE
    OBVIOUS
  <2>1. /\ Len(chan) \in Nat /\ Len(open) \in Nat /\ Len(Pending) = Len(chan) + Len(open)
        /\ \A k \in 1 .. Len(chan) : Pending[k] = chan[k]
        /\ \A k \in 1 .. Len(open) : Pending[Len(chan) + k] = open[k]
    BY <1>0, PendingLogs
  <2>2. i \in 1 .. Len(chan) \/ i - Len(chan) \in 1 .. Len(open)
    BY <2>1 DEF Due
  <2>3. CASE i \in 1 .. Len(chan)
    BY <2>1, <2>3 DEF Settled, PoolsIn
  <2>4. CASE i - Len(chan) \in 1 .. Len(open)
    <3>1. Pending[i] = open[i - Len(chan)]
      <4>1. Len(chan) + (i - Len(chan)) = i
        BY <2>1 DEF Due
      <4> QED
        BY <2>1, <2>4, <4>1
    <3> QED
      BY <2>4, <3>1 DEF Settled, PoolsIn
  <2> QED
    BY <2>2, <2>3, <2>4
<1>3. CASE p \in V2Pools
  <2>1. \A i \in Due : ~Sync(p, Pending[i])
    BY <1>2 DEF Sync
  <2>2. head + 1 \in helper[p].block .. head + 1 /\ At(p, head + 1) = now[p]
    BY <1>0, PendingLogs DEF IInv, HelpersOK, HelperOK, Helper, At
  <2> QED
    BY <1>0, <1>3, <2>1, <2>2 DEF PoolsExact, V2Exact
<1>4. CASE p \in V3Pools
  <2>1. \A i \in 1 .. Len(Pending) : ~Relevant(p, 0, Pending[i])
    BY <1>1, <1>2 DEF Relevant
  <2>2. /\ \E past : Leads(p, 0, past, Pending, helper[p].val, now[p])
        /\ helper[p].book = helper[p].val
    BY <1>0, <1>4 DEF PoolsExact, V3Held
  <2>3. helper[p].val = now[p]
    BY <1>1, <2>1, <2>2, TraceNone
  <2> QED
    BY <2>2, <2>3
<1> QED
  BY <1>3, <1>4 DEF Pools

(* No pending log of the pool is of block b or an older one: those of the  *)
(* channel are newer by assumption, those of the open block anyway.        *)
LEMMA BlocksFollow == ExactInv => BlockStateExact
<1> SUFFICES ASSUME ExactInv, NEW p \in Pools, NEW b \in 0 .. head,
                    helper[p] # None, helper[p].block <= b,
                    \A i \in 1 .. Len(chan) : chan[i].pool = p => chan[i].block > b
             PROVE  helper[p].val = hist[p][b] /\ helper[p].book = hist[p][b]
  BY DEF BlockStateExact
<1>0. IInv /\ PoolsExact
  BY DEF ExactInv
<1>1. Pending \in Seq(Log) /\ Due = 1 .. Len(Pending) /\ head \in Nat
  BY <1>0, PendingLogs DEF Due
<1>2. \A i \in Due : Pending[i].pool = p => ~(Pending[i].block <= b)
  <2> SUFFICES ASSUME NEW i \in Due, Pending[i].pool = p, Pending[i].block <= b PROVE FALSE
    OBVIOUS
  <2>1. /\ Len(chan) \in Nat /\ Len(open) \in Nat /\ Len(Pending) = Len(chan) + Len(open)
        /\ \A k \in 1 .. Len(chan) : Pending[k] = chan[k]
        /\ \A k \in 1 .. Len(open) : /\ Pending[Len(chan) + k] = open[k]
                                     /\ open[k].block = head + 1
        /\ Pending[i].block \in 1 .. head + 1
    BY <1>0, PendingLogs
  <2>2. CASE i \in 1 .. Len(chan)
    <3>1. chan[i].pool = p /\ chan[i].block <= b
      BY <2>1, <2>2
    <3>2. chan[i].block > b /\ Pending[i].block = chan[i].block /\ Pending[i].block \in Nat
      BY <1>1, <2>1, <2>2, <3>1
    <3> QED
      BY <1>1, <3>1, <3>2
  <2>3. CASE i - Len(chan) \in 1 .. Len(open)
    <3>1. Len(chan) + (i - Len(chan)) = i
      BY <2>1 DEF Due
    <3>2. Pending[i] = open[i - Len(chan)]
      BY <2>1, <2>3, <3>1
    <3>3. Pending[i].block = head + 1
      BY <2>1, <2>3, <3>2
    <3> QED
      BY <1>1, <3>3
  <2> QED
    BY <2>1, <2>2, <2>3 DEF Due
<1>3. helper[p].block \in Nat
  BY <1>0 DEF IInv, HelpersOK, Helper
<1>4. CASE p \in V2Pools
  <2>1. \A i \in Due : Sync(p, Pending[i]) => ~(Pending[i].block <= b)
    BY <1>2 DEF Sync
  <2>2. b \in helper[p].block .. head + 1 /\ At(p, b) = hist[p][b]
    BY <1>1, <1>3 DEF At
  <2> QED
    BY <1>0, <1>4, <2>1, <2>2 DEF PoolsExact, V2Exact
<1>5. CASE p \in V3Pools
  <2>1. \A i \in 1 .. Len(Pending) : Relevant(p, 0, Pending[i]) => ~(Pending[i].block <= b)
    BY <1>1, <1>2 DEF Relevant
  <2>2. PICK past : past = Past(p, helper[p].block)
    OBVIOUS
  <2>3. Leads(p, 0, past, Pending, helper[p].val, now[p]) /\ helper[p].book = helper[p].val
    BY <1>0, <1>5, <2>2 DEF PoolsExact, V3Held
  <2>4. b \in DOMAIN past /\ past[b] = hist[p][b]
    BY <1>1, <1>3, <2>2 DEF Past
  <2>5. helper[p].val = past[b]
    BY <1>1, <2>1, <2>3, <2>4, TraceStart
  <2> QED
    BY <2>3, <2>4, <2>5
<1> QED
  BY <1>4, <1>5 DEF Pools

LEMMA InitExact == Init => ExactInv
<1> SUFFICES ASSUME Init PROVE ExactInv
  OBVIOUS
<1>0. /\ IInv /\ chan = <<>> /\ open = <<>> /\ head = 0
      /\ loop = "starting" /\ first_event = 1 /\ managers = StartupFactories
      /\ MaxBlock \in Nat /\ Absent \in Int
  BY InitIInv, BoundsAssumption DEF Init, ChainInit, Absent
<1>1. Pending \in Seq(Log) /\ Len(Pending) = 0 /\ Due = {}
  <2>1. Len(chan) = 0 /\ Len(open) = 0
    BY <1>0, EmptySeq
  <2> QED
    BY <1>0, <2>1, PendingLogs DEF Due
<1>2. \A p \in Pools : hist[p][0] = now[p] /\ now[p] \in Int
  BY <1>0, BoundsAssumption DEF Init, ChainInit, Absent
<1>3. \A p \in LoadedPools : p \in Pools /\ FactoryOf[p] \in StartupFactories /\ now[p] # Absent
  BY FactoryAssumption, PoolsAssumption DEF Init, ChainInit
<1>4. \A p \in Pools :
        /\ helper[p] = IF p \in LoadedPools
                       THEN [val |-> now[p], book |-> now[p], block |-> 0] ELSE None
        /\ snapshot[p] = IF p \in SnapshotPools THEN now[p] ELSE None
  BY DEF Init
<1>5. V2Pools \subseteq Pools /\ V3Pools \subseteq Pools /\ 0 .. head = {0}
  BY <1>0 DEF Pools
<1>6. DeliveryOK
  <2>1. \A p \in Pools : helper[p] # None => p \in LoadedPools
    BY <1>4
  <2>2. \A p \in Pools : helper[p] # None => FactoryOf[p] \in managers
    BY <1>0, <1>3, <2>1
  <2>3. \A p \in Pools : \A b \in 0 .. head : hist[p][b] = now[p]
    BY <1>2, <1>5
  <2>4. first_event # None
    BY <1>0, NoneAssumption
  <2> QED
    BY <1>0, <1>1, <1>5, <2>2, <2>3, <2>4 DEF DeliveryOK
<1>7. ASSUME NEW p \in V2Pools PROVE V2Exact(p)
  <2>1. p \notin SnapshotPools /\ p \in Pools
    BY <1>5, FactoryAssumption, PoolsAssumption
  <2>2. snapshot[p] = None
    BY <1>4, <2>1
  <2>3. \A d \in 0 .. head + 1 : At(p, d) = now[p]
    BY <1>0, <1>2, <2>1 DEF At
  <2>4. helper[p] # None => /\ p \in LoadedPools
                            /\ helper[p] = [val |-> now[p], book |-> now[p], block |-> 0]
    BY <1>4, <2>1
  <2>5. helper[p] # None => /\ now[p] # Absent /\ helper[p].block = 0
                            /\ helper[p].book = now[p] /\ helper[p].val = now[p]
    BY <1>3, <2>4
  <2>6. \A b \in 0 .. head : hist[p][b] = now[p] /\ b .. head + 1 \subseteq 0 .. head + 1
    BY <1>0, <1>2, <1>5, <2>1
  <2> QED
    BY <1>1, <2>2, <2>3, <2>5, <2>6 DEF V2Exact
<1>8. ASSUME NEW p \in V3Pools PROVE V3Held(p) /\ V3Untouched(p)
  <2>1. p \in Pools
    BY <1>5
  <2>2. \A b : Leads(p, b, Past(p, 0), Pending, now[p], now[p])
    <3>1. now[p] \in Int /\ 1 .. Len(Pending) = {}
      BY <1>1, <1>2, <2>1
    <3>2. PICK past : past = Past(p, 0)
      OBVIOUS
    <3>3. \A d \in DOMAIN past : past[d] = now[p]
      BY <1>2, <1>5, <2>1, <3>2 DEF Past
    <3> TAKE b
    <3>4. \A i \in 1 .. Len(Pending) : ~Relevant(p, b, Pending[i])
      BY <3>1
    <3>5. Leads(p, b, past, Pending, now[p], now[p])
      BY <1>1, <3>1, <3>3, <3>4, TraceNone
    <3> QED
      BY <3>2, <3>5
  <2>3. V3Held(p)
    <3>1. helper[p] # None => helper[p] = [val |-> now[p], book |-> now[p], block |-> 0]
      BY <1>4, <2>1
    <3>2. helper[p] # None =>
            helper[p].val = now[p] /\ helper[p].book = now[p] /\ helper[p].block = 0
      BY <3>1
    <3> QED
      BY <1>1, <2>2, <3>2 DEF V3Held
  <2>4. V3Untouched(p)
    <3>1. \A b \in 0 .. head : b = 0 /\ hist[p][b] = now[p]
      BY <1>2, <1>5, <2>1
    <3>2. snapshot[p] # None => now[p] = snapshot[p]
      BY <1>4, <2>1
    <3> QED
      BY <2>2, <3>1, <3>2 DEF V3Untouched
  <2> QED
    BY <2>3, <2>4
<1> QED
  BY <1>0, <1>6, <1>7, <1>8 DEF ExactInv, PoolsExact

(* A step that neither adds nor handles a log.                             *)
LEMMA QuietExact ==
  ASSUME ExactInv, IInv',
         UNCHANGED <<chainVars, chan, first_event, managers, helper, snapshot>>,
         loop' # "starting" => subscribed'
  PROVE  ExactInv'
<1>1. /\ Pending' = Pending /\ Due' = Due /\ head' = head /\ now' = now /\ hist' = hist
      /\ chan' = chan /\ first_event' = first_event /\ managers' = managers
      /\ helper' = helper /\ snapshot' = snapshot
  BY DEF Pending, Due, chainVars
<1>2. DeliveryOK'
  BY <1>1 DEF ExactInv, DeliveryOK, Concerns
<1>3. ASSUME NEW p PROVE Reached(p)' = Reached(p)
  BY <1>1 DEF Reached
<1>4. \A p : V2Exact(p)' = V2Exact(p)
  BY <1>1, <1>3 DEF V2Exact, Sync, At
<1>5. \A p : V3Held(p)' = V3Held(p)
  BY <1>1 DEF V3Held, Past
<1>6. \A p : V3Untouched(p)' = V3Untouched(p)
  BY <1>1 DEF V3Untouched, Past, Relevant
<1> QED
  BY <1>2, <1>4, <1>5, <1>6 DEF ExactInv, PoolsExact

(* What a transaction does to the pools, told apart by the log it emits.   *)
EmitFits(m) ==
  /\ m \in Log /\ m.block = head + 1 /\ m.kind # "pool"
  /\ open' = Append(open, m)
  /\ \A q \in Pools : /\ now[q] # Absent => now'[q] # Absent
                      /\ Concerns(q, m) => now[q] # Absent
  /\ \A q \in V2Pools :
       /\ Sync(q, m) => m.val = now'[q]
       /\ ~Sync(q, m) /\ now[q] # Absent => now'[q] = now[q]
  /\ \A q \in V3Pools :
       /\ Relevant(q, 0, m) => Changes(m, now[q], now'[q])
       /\ ~Relevant(q, 0, m) => now'[q] = now[q]

LEMMA EmitKinds ==
  ASSUME Reliable, IInv, ChainEmits
  PROVE  \E m : EmitFits(m)
<1>0. /\ now \in [Pools -> States] /\ head \in Nat
      /\ V2Pools \cap V3Pools = {} /\ Pools = V2Pools \cup V3Pools
  BY BoundsAssumption, PoolsAssumption DEF IInv, HistoryOK, Pools
<1>1. ASSUME NEW kind \in AllKinds, NEW p \in Pools, NEW val \in Int, NEW s,
             Emit(kind, p, val, s),
             now[p] # Absent => s # Absent,
             kind \in {"sync", "mint", "burn", "swap"} => now[p] # Absent,
             p \in V2Pools =>
               /\ kind \notin {"mint", "burn", "swap"}
               /\ kind = "sync" => val = s
               /\ kind # "sync" /\ now[p] # Absent => s = now[p],
             p \in V3Pools =>
               /\ kind = "mint" => s = now[p] + val
               /\ kind = "burn" => s = now[p] - val /\ s >= 0
               /\ kind = "swap" => now[p] = val /\ s = now[p]
               /\ kind \notin {"mint", "burn", "swap"} => s = now[p]
      PROVE  \E m : EmitFits(m)
  <2> DEFINE m == [kind |-> kind, pool |-> p, block |-> head + 1, val |-> val]
  <2>1. /\ m \in Log /\ m.kind = kind /\ m.pool = p /\ m.block = head + 1 /\ m.val = val
        /\ open' = Append(open, m)
    BY <1>0, <1>1 DEF Emit, Log
  <2> HIDE DEF m
  <2>2. /\ kind # "pool" /\ now' = [now EXCEPT ![p] = s]
    BY <1>1 DEF Emit, Reliable
  <2>3. \A q \in Pools : now'[q] = IF q = p THEN s ELSE now[q]
    BY <1>0, <2>2
  <2>4. \A q \in Pools : /\ now[q] # Absent => now'[q] # Absent
                         /\ Concerns(q, m) => now[q] # Absent
    BY <1>1, <2>1, <2>3 DEF Concerns
  <2>5. \A q \in V2Pools : /\ Sync(q, m) => m.val = now'[q]
                           /\ ~Sync(q, m) /\ now[q] # Absent => now'[q] = now[q]
    BY <1>0, <1>1, <2>1, <2>3 DEF Sync
  <2>6. \A q \in V3Pools : /\ Relevant(q, 0, m) => Changes(m, now[q], now'[q])
                           /\ ~Relevant(q, 0, m) => now'[q] = now[q]
    <3> TAKE q \in V3Pools
    <3>1. q \in Pools
      BY <1>0
    <3>2. CASE q = p
      BY <1>0, <1>1, <2>1, <2>3, <3>1, <3>2 DEF Relevant, Changes
    <3>3. CASE q # p
      BY <2>1, <2>3, <3>1, <3>3 DEF Relevant
    <3> QED
      BY <3>2, <3>3
  <2> QED
    BY <2>1, <2>2, <2>4, <2>5, <2>6 DEF EmitFits
<1>2. PICK p \in Pools :
        \/ EmitSync(p)
        \/ \E amount \in 0 .. MaxAmount : EmitMint(p, amount) \/ EmitBurn(p, amount)
        \/ EmitSwap(p)
        \/ EmitCreated(p)
        \/ \E kind \in {"other", "anonymous"} : EmitForeign(p, kind)
  BY DEF ChainEmits
<1>3. /\ now[p] \in States /\ MaxAmount \in Nat
      /\ \A amount \in 0 .. MaxAmount : amount \in Nat
  BY <1>0, BoundsAssumption
<1> USE DEF AllKinds, States, Absent
<1>4. CASE EmitSync(p)
  <2>1. /\ now[p] \in Nat /\ p \in V2Pools /\ p \notin V3Pools
        /\ now[p] + 1 \in Int /\ now[p] + 1 # -1
        /\ Emit("sync", p, now[p] + 1, now[p] + 1)
    BY <1>0, <1>3, <1>4 DEF EmitSync
  <2> QED
    BY <2>1, <1>1
<1>5. ASSUME NEW amount \in 0 .. MaxAmount, EmitMint(p, amount) PROVE \E m : EmitFits(m)
  <2>1. /\ now[p] \in Nat /\ p \in V3Pools /\ p \notin V2Pools
        /\ amount \in Int /\ now[p] # -1 /\ now[p] + amount # -1
        /\ Emit("mint", p, amount, now[p] + amount)
    BY <1>0, <1>3, <1>5 DEF EmitMint
  <2> QED
    BY <2>1, <1>1
<1>6. ASSUME NEW amount \in 0 .. MaxAmount, EmitBurn(p, amount) PROVE \E m : EmitFits(m)
  <2>1. /\ now[p] \in Nat /\ p \in V3Pools /\ p \notin V2Pools
        /\ amount \in Int /\ now[p] # -1 /\ now[p] - amount >= 0 /\ now[p] - amount # -1
        /\ Emit("burn", p, amount, now[p] - amount)
    BY <1>0, <1>3, <1>6 DEF EmitBurn
  <2> QED
    BY <2>1, <1>1
<1>7. CASE EmitSwap(p)
  <2>1. /\ now[p] \in Nat /\ p \in V3Pools /\ p \notin V2Pools
        /\ now[p] \in Int /\ now[p] # -1 /\ Emit("swap", p, now[p], now[p])
    BY <1>0, <1>3, <1>7 DEF EmitSwap
  <2> QED
    BY <2>1, <1>1
<1>8. CASE EmitCreated(p)
  <2>1. now[p] = -1 /\ Emit(IF p \in V2Pools THEN "pair" ELSE "pool", p, 0, 0)
    BY <1>8 DEF EmitCreated
  <2>2. p \in V2Pools
    <3> SUFFICES ASSUME p \notin V2Pools PROVE FALSE
      OBVIOUS
    <3>1. Emit("pool", p, 0, 0)
      BY <2>1
    <3> QED
      BY <3>1 DEF Emit, Reliable
  <2>3. p \notin V3Pools /\ Emit("pair", p, 0, 0) /\ 0 \in Int
    BY <1>0, <2>1, <2>2
  <2> QED
    BY <2>1, <2>3, <1>1
<1>9. ASSUME NEW kind \in {"other", "anonymous"}, EmitForeign(p, kind)
      PROVE  \E m : EmitFits(m)
  <2>1. Emit(kind, p, 0, now[p]) /\ 0 \in Int
    BY <1>9 DEF EmitForeign
  <2> QED
    BY <2>1, <1>1
<1> QED
  BY <1>2, <1>4, <1>5, <1>6, <1>7, <1>8, <1>9

(* A new log keeps the invariant: it is the last one of its pool.          *)
LEMMA EmitExact ==
  ASSUME Reliable, ExactInv, IInv', ChainEmits, UNCHANGED serviceVars
  PROVE  ExactInv'
<1>0. /\ IInv /\ DeliveryOK /\ PoolsExact
      /\ V2Pools \subseteq Pools /\ V3Pools \subseteq Pools
  BY DEF ExactInv, Pools
<1>1. /\ head' = head /\ hist' = hist /\ chan' = chan /\ first_event' = first_event
      /\ managers' = managers /\ helper' = helper /\ snapshot' = snapshot
      /\ loop' = loop /\ subscribed' = subscribed
  BY DEF ChainEmits, EmitSync, EmitMint, EmitBurn, EmitSwap, EmitCreated, EmitForeign,
         Emit, serviceVars
<1>2. PICK m : EmitFits(m)
  BY <1>0, EmitKinds
<1> DEFINE n == Len(Pending)
<1>3. /\ Pending \in Seq(Log) /\ n \in Nat /\ head \in Nat /\ Due = 1 .. n
      /\ \A i \in Due : Pending[i].block \in 1 .. head + 1
  BY <1>0, PendingLogs DEF Due
<1>4. Pending' = Append(Pending, m)
  <2>1. chan \in Seq(Log) /\ open \in Seq(Log) /\ m \in Log /\ open' = Append(open, m)
    BY <1>0, <1>2, TypesFollow DEF TypeOK, ChainTypeOK, EmitFits
  <2> QED
    BY <1>1, <2>1 DEF Pending
<1>5. /\ Due' = 1 .. n + 1 /\ Pending'[n + 1] = m
      /\ \A i \in Due : Pending'[i] = Pending[i] /\ i \in Due' /\ i # n + 1
      /\ \A i \in Due' : i \in Due \/ i = n + 1
      /\ m.block = head + 1 /\ m \in Log
  <2>1. m \in Log /\ m.block = head + 1
    BY <1>2 DEF EmitFits
  <2>2. /\ Len(Append(Pending, m)) = n + 1
        /\ Append(Pending, m)[n + 1] = m
        /\ \A i \in 1 .. n : Append(Pending, m)[i] = Pending[i]
    BY <1>3, <2>1, AppendProperties
  <2>3. Due' = 1 .. n + 1
    BY <1>4, <2>2 DEF Due
  <2> HIDE DEF n
  <2> QED
    BY <1>3, <1>4, <2>1, <2>2, <2>3
<1> HIDE DEF n
<1>6. \A b : Reached(b)' <=> Reached(b)
  BY <1>1 DEF Reached
<1>7. DeliveryOK'
  <2>1. \A i \in Due' : Pending'[i].kind # "pool"
    BY <1>0, <1>2, <1>5 DEF DeliveryOK, EmitFits
  <2>2. \A i, j \in Due' : i <= j => Pending'[i].block <= Pending'[j].block
    <3> TAKE i, j \in Due'
    <3>1. CASE i \in Due /\ j \in Due
      BY <1>0, <1>5, <3>1 DEF DeliveryOK
    <3>2. CASE i \in Due /\ j = n + 1
      BY <1>3, <1>5, <3>2
    <3>3. CASE i = n + 1 /\ j = n + 1
      BY <1>3, <1>5, <3>3
    <3>4. CASE i = n + 1 /\ j \in Due
      BY <1>3, <3>4
    <3> QED
      BY <1>5, <3>1, <3>2, <3>3, <3>4
  <2>3. \A p \in Pools : \A i \in Due' : Concerns(p, Pending'[i]) => now'[p] # Absent
    <3> TAKE p \in Pools
    <3> TAKE i \in Due'
    <3>1. now[p] # Absent => now'[p] # Absent
      BY <1>2 DEF EmitFits
    <3>2. CASE i \in Due
      <4>1. Concerns(p, Pending[i]) => now[p] # Absent
        BY <1>0, <3>2 DEF DeliveryOK
      <4> QED
        BY <1>5, <3>1, <3>2, <4>1
    <3>3. CASE i = n + 1
      <4>1. Concerns(p, m) => now[p] # Absent
        BY <1>2 DEF EmitFits
      <4> QED
        BY <1>5, <3>1, <3>3, <4>1
    <3> QED
      BY <1>5, <3>2, <3>3
  <2>4. \A p \in Pools : \A b \in 0 .. head : now'[p] = Absent => hist[p][b] = Absent
    BY <1>0, <1>2 DEF DeliveryOK, EmitFits
  <2>5. \A p \in V3Pools : \A b \in 0 .. head : hist[p][b] = Absent => now'[p] = Absent
    <3> TAKE p \in V3Pools
    <3>1. now[p] = Absent => ~Relevant(p, 0, m)
      BY <1>0, <1>2 DEF EmitFits, Relevant, Concerns
    <3>2. now[p] = Absent => now'[p] = Absent
      BY <1>2, <3>1 DEF EmitFits
    <3> QED
      BY <1>0, <3>2 DEF DeliveryOK
  <2>6. \A p \in Pools : Concerns(p, m)' = Concerns(p, m)
    BY DEF Concerns
  <2> QED
    BY <1>0, <1>1, <2>1, <2>2, <2>3, <2>4, <2>5 DEF DeliveryOK, Concerns
<1>8. ASSUME NEW p \in V2Pools PROVE V2Exact(p)'
  <2>1. V2Exact(p) /\ p \in Pools
    BY <1>0 DEF PoolsExact
  <2>2. /\ Sync(p, m) => m.val = now'[p]
        /\ ~Sync(p, m) /\ now[p] # Absent => now'[p] = now[p]
        /\ now[p] # Absent => now'[p] # Absent
    BY <1>2, <2>1 DEF EmitFits
  <2>3. \A i \in Due : Sync(p, Pending[i]) => now[p] # Absent
    BY <1>0, <2>1 DEF DeliveryOK, Sync, Concerns
  <2>4. \A i \in Due' : Pending'[i].block \in 1 .. head + 1
    BY <1>3, <1>5
  <2>5. ASSUME NEW d \in 0 .. head + 1, NEW i \in Due', Sync(p, Pending'[i]),
               Pending'[i].block <= d,
               \A j \in Due' : i < j /\ Sync(p, Pending'[j]) => Pending'[j].block > d
        PROVE  Pending'[i].val = At(p, d)'
    <3>1. CASE i = n + 1
      <4>1. d = head + 1
        BY <1>3, <1>5, <2>5, <3>1
      <4> QED
        BY <1>1, <1>5, <2>2, <2>5, <3>1, <4>1 DEF At
    <3>2. CASE i \in Due
      <4>1. Pending'[i] = Pending[i] /\ i < n + 1 /\ n + 1 \in Due'
        BY <1>3, <1>5, <3>2
      <4>2. \A j \in Due : i < j /\ Sync(p, Pending[j]) => Pending[j].block > d
        BY <1>5, <2>5
      <4>3. Pending[i].val = At(p, d) /\ now[p] # Absent
        BY <2>1, <2>3, <2>5, <3>2, <4>1, <4>2 DEF V2Exact
      <4>4. CASE d = head + 1
        <5>1. ~Sync(p, m)
          BY <1>3, <1>5, <2>5, <4>1, <4>4
        <5> QED
          BY <1>1, <2>2, <4>1, <4>3, <4>4, <5>1 DEF At
      <4>5. CASE d # head + 1
        BY <1>1, <4>1, <4>3, <4>5 DEF At
      <4> QED
        BY <4>4, <4>5
    <3> QED
      BY <1>5, <3>1, <3>2
  <2>6. ASSUME NEW b \in 0 .. head, NEW d \in b .. head + 1, Reached(b), hist[p][b] # Absent,
               \A i \in Due' : Sync(p, Pending'[i]) /\ Pending'[i].block <= d
                                 => Pending'[i].block <= b
        PROVE  hist[p][b] = At(p, d)'
    <3>1. hist[p][b] = At(p, d)
      BY <1>5, <2>1, <2>6 DEF V2Exact
    <3>2. CASE d = head + 1
      <4>1. ~Sync(p, m)
        BY <1>3, <1>5, <2>6, <3>2
      <4>2. now[p] # Absent
        BY <1>0, <2>1, <2>6 DEF DeliveryOK
      <4> QED
        BY <1>1, <2>2, <3>1, <3>2, <4>1, <4>2 DEF At
    <3>3. CASE d # head + 1
      BY <1>1, <3>1, <3>3 DEF At
    <3> QED
      BY <3>2, <3>3
  <2>7. ASSUME helper[p] # None
        PROVE  /\ now'[p] # Absent
               /\ helper[p].book = helper[p].val
               /\ \A d \in helper[p].block .. head + 1 :
                    (\A i \in Due' : Sync(p, Pending'[i]) /\ Pending'[i].block <= d
                                       => Pending'[i].block < helper[p].block)
                      => helper[p].val = At(p, d)'
    <3>1. now[p] # Absent /\ helper[p].book = helper[p].val
      BY <2>1, <2>7 DEF V2Exact
    <3> SUFFICES ASSUME NEW d \in helper[p].block .. head + 1,
                        \A i \in Due' : Sync(p, Pending'[i]) /\ Pending'[i].block <= d
                                          => Pending'[i].block < helper[p].block
                 PROVE  helper[p].val = At(p, d)'
      BY <2>2, <3>1
    <3>2. helper[p].block \in 0 .. head
      BY <1>0, <2>1, <2>7 DEF IInv, HelpersOK, HelperOK
    <3>3. helper[p].val = At(p, d)
      BY <1>5, <2>1, <2>7 DEF V2Exact
    <3>4. CASE d = head + 1
      <4>1. ~Sync(p, m)
        BY <1>3, <1>5, <3>2, <3>4
      <4> QED
        BY <1>1, <2>2, <3>1, <3>3, <3>4, <4>1 DEF At
    <3>5. CASE d # head + 1
      BY <1>1, <3>3, <3>5 DEF At
    <3> QED
      BY <3>4, <3>5
  <2>8. snapshot[p] = None
    BY <2>1 DEF V2Exact
  <2> QED
    BY <1>1, <1>6, <2>5, <2>6, <2>7, <2>8 DEF V2Exact, Sync
<1>9. ASSUME NEW p \in V3Pools PROVE V3Held(p)' /\ V3Untouched(p)'
  <2>1. V3Held(p) /\ V3Untouched(p) /\ p \in Pools
    BY <1>0 DEF PoolsExact
  <2>2. /\ Relevant(p, 0, m) => Changes(m, now[p], now'[p])
        /\ ~Relevant(p, 0, m) => now'[p] = now[p]
        /\ now'[p] \in Int
    <3>1. now'[p] \in Int
      BY <2>1, <1>0 DEF IInv, HistoryOK, States, Absent
    <3> QED
      BY <1>2, <3>1 DEF EmitFits
  <2>3. ASSUME NEW b \in 0 .. head, NEW c \in Nat, NEW x,
               Leads(p, b, Past(p, c), Pending, x, now[p])
        PROVE  Leads(p, b, Past(p, c)', Pending', x, now'[p])
    <3>1. Relevant(p, b, m) <=> Relevant(p, 0, m)
      BY <1>3, <1>5 DEF Relevant
    <3>2. PICK past : past = Past(p, c)
      OBVIOUS
    <3>3. \A d \in DOMAIN past : d \in Nat /\ d < m.block
      BY <1>3, <1>5, <3>2 DEF Past
    <3>4. b \in Nat
      BY <1>3
    <3>5. Leads(p, b, past, Append(Pending, m), x, now'[p])
      BY <1>3, <1>5, <2>2, <2>3, <3>1, <3>2, <3>3, <3>4, TraceAppend
    <3>6. Past(p, c)' = past
      BY <1>1, <3>2 DEF Past
    <3> QED
      BY <1>4, <3>5, <3>6
  <2>4. V3Held(p)'
    <3> SUFFICES ASSUME helper[p] # None
                 PROVE  /\ helper[p].book = helper[p].val
                        /\ Leads(p, 0, Past(p, helper[p].block)', Pending', helper[p].val,
                                 now'[p])
                        /\ \A i \in Due' : helper[p].block <= Pending'[i].block
      BY <1>1 DEF V3Held
    <3>1. helper[p].block \in 0 .. head
      BY <1>0, <2>1 DEF IInv, HelpersOK, HelperOK
    <3>2. \A i \in Due' : helper[p].block <= Pending'[i].block
      BY <1>3, <1>5, <2>1, <3>1 DEF V3Held
    <3>3. helper[p].block \in Nat /\ 0 \in 0 .. head
      BY <1>3, <3>1
    <3>4. Leads(p, 0, Past(p, helper[p].block), Pending, helper[p].val, now[p])
      BY <2>1 DEF V3Held
    <3>5. Leads(p, 0, Past(p, helper[p].block)', Pending', helper[p].val, now'[p])
      <4>1. PICK c \in Nat : c = helper[p].block
        BY <3>3
      <4>2. Leads(p, 0, Past(p, c)', Pending', helper[p].val, now'[p])
        BY <2>3, <3>3, <3>4, <4>1
      <4> QED
        BY <1>1, <4>1, <4>2 DEF Past
    <3> QED
      BY <2>1, <3>2, <3>5 DEF V3Held
  <2>5. V3Untouched(p)'
    <3> SUFFICES ASSUME helper[p] = None, FactoryOf[p] \in StartupFactories
                 PROVE  /\ \A b \in 0 .. head :
                             hist[p][b] # Absent =>
                               Leads(p, b, Past(p, b)', Pending', hist[p][b], now'[p])
                        /\ snapshot[p] # None =>
                             /\ \A b \in 0 .. head :
                                  (\A i \in Due' : Relevant(p, 0, Pending'[i])
                                                     => b < Pending'[i].block)
                                    => hist[p][b] = snapshot[p]
                             /\ (\A i \in Due' : ~Relevant(p, 0, Pending'[i]))
                                  => now'[p] = snapshot[p]
      BY <1>1 DEF V3Untouched
    <3>1. \A b \in 0 .. head :
            hist[p][b] # Absent =>
              Leads(p, b, Past(p, b)', Pending', hist[p][b], now'[p])
      BY <1>3, <2>1, <2>3 DEF V3Untouched
    <3>2. ASSUME snapshot[p] # None, NEW b \in 0 .. head,
                 \A i \in Due' : Relevant(p, 0, Pending'[i]) => b < Pending'[i].block
          PROVE  hist[p][b] = snapshot[p]
      BY <1>5, <2>1, <3>2 DEF V3Untouched
    <3>3. ASSUME snapshot[p] # None, \A i \in Due' : ~Relevant(p, 0, Pending'[i])
          PROVE  now'[p] = snapshot[p]
      <4>1. ~Relevant(p, 0, m) /\ (\A i \in Due : ~Relevant(p, 0, Pending[i]))
        <5>1. n + 1 \in Due'
          BY <1>3, <1>5
        <5> QED
          BY <1>5, <3>3, <5>1
      <4> QED
        BY <2>1, <2>2, <3>3, <4>1 DEF V3Untouched
    <3> QED
      BY <3>1, <3>2, <3>3
  <2> QED
    BY <2>4, <2>5
<1> QED
  BY <1>7, <1>8, <1>9 DEF ExactInv, PoolsExact

(* Mining keeps the pending logs: the subscription takes all of them.      *)
LEMMA SealExact ==
  ASSUME Reliable, ExactInv, IInv', BlockMined
  PROVE  ExactInv'
<1>0. /\ IInv /\ DeliveryOK /\ PoolsExact
      /\ V2Pools \subseteq Pools /\ V3Pools \subseteq Pools
  BY DEF ExactInv, Pools
<1>1. /\ Seal /\ now' = now /\ head' = head + 1 /\ open' = <<>> /\ first_event' = first_event
      /\ managers' = managers /\ helper' = helper /\ snapshot' = snapshot
      /\ loop' = loop /\ subscribed' = subscribed /\ chan' = chan \o open
  BY <1>0 DEF BlockMined, Seal, DeliveryOK, Reliable
<1>2. /\ Pending \in Seq(Log) /\ Len(Pending) \in Nat /\ head \in Nat /\ Due = 1 .. Len(Pending)
      /\ \A i \in Due : Pending[i].block \in 1 .. head + 1
  BY <1>0, PendingLogs DEF Due
<1>3. Pending' = Pending /\ Due' = Due /\ chan' = Pending
  <2>1. Pending' = Pending \o <<>> /\ chan' = Pending
    BY <1>1 DEF Pending
  <2>2. Pending' = Pending
    BY <1>2, <2>1, ConcatEmptySeq
  <2> QED
    BY <2>1, <2>2 DEF Due
<1>4. \A p \in Pools : /\ hist'[p][head + 1] = now[p] /\ now[p] \in Int
                       /\ \A b \in 0 .. head : hist'[p][b] = hist[p][b]
  <2> TAKE p \in Pools
  <2>1. /\ hist \in [Pools -> [0 .. MaxBlock -> States]] /\ now[p] \in Int
        /\ head + 1 \in 0 .. MaxBlock /\ MaxBlock \in Nat
    BY <1>0, <1>1, <1>2, BoundsAssumption DEF IInv, HistoryOK, States, Absent, Seal
  <2>2. hist'[p] = [hist[p] EXCEPT ![head + 1] = now[p]]
    BY <1>1 DEF Seal
  <2>3. hist'[p][head + 1] = now[p]
    BY <2>1, <2>2
  <2>4. ASSUME NEW b \in 0 .. head PROVE hist'[p][b] = hist[p][b]
    <3>1. b \in 0 .. MaxBlock /\ b # head + 1
      BY <1>2, <2>1
    <3> QED
      BY <2>1, <2>2, <3>1
  <2> QED
    BY <2>1, <2>3, <2>4
<1>5. \A b \in 0 .. head' : b \in 0 .. head \/ b = head + 1
  BY <1>1, <1>2
<1>6. \A b \in 0 .. head : Reached(b)' => Reached(b)
  <2> SUFFICES ASSUME NEW b \in 0 .. head, Reached(b)' PROVE Reached(b)
    OBVIOUS
  <2>1. Pending # <<>> /\ Pending[1].block <= b
    <3>1. b # head'
      BY <1>1, <1>2
    <3> QED
      BY <1>3, <3>1 DEF Reached
  <2>2. 1 \in 1 .. Len(Pending)
    BY <1>2, <2>1, EmptySeq
  <2>3. CASE chan = <<>>
    <3>1. Len(chan) = 0 /\ 1 \in 1 .. Len(open)
      BY <1>0, <2>2, <2>3, EmptySeq, PendingLogs
    <3>2. Pending[Len(chan) + 1] = open[1] /\ open[1].block = head + 1
      BY <1>0, <3>1, PendingLogs
    <3>3. Pending[1].block = head + 1
      BY <3>1, <3>2
    <3> QED
      BY <1>2, <2>1, <3>3
  <2>4. CASE chan # <<>>
    <3>1. 1 \in 1 .. Len(chan)
      <4>1. chan \in Seq(Log) /\ Len(chan) \in Nat
        BY <1>0, TypesFollow, PendingLogs DEF TypeOK
      <4> QED
        BY <2>4, <4>1, EmptySeq
    <3>2. Pending[1] = chan[1]
      BY <1>0, <3>1, PendingLogs
    <3> QED
      BY <2>1, <2>4, <3>2 DEF Reached
  <2> QED
    BY <2>3, <2>4
<1>7. DeliveryOK'
  <2>1. \A p \in Pools : \A b \in 0 .. head' : now[p] = Absent => hist'[p][b] = Absent
    BY <1>0, <1>4, <1>5 DEF DeliveryOK
  <2>2. \A p \in V3Pools : \A b \in 0 .. head' : hist'[p][b] = Absent => now[p] = Absent
    BY <1>0, <1>4, <1>5 DEF DeliveryOK
  <2> QED
    BY <1>0, <1>1, <1>3, <2>1, <2>2 DEF DeliveryOK, Concerns
<1>8. \A p \in Pools : \A d \in 0 .. head' + 1 :
        \E e \in 0 .. head + 1 : /\ At(p, d)' = At(p, e)
                                 /\ e = d \/ (d = head + 2 /\ e = head + 1)
  <2> TAKE p \in Pools
  <2> TAKE d \in 0 .. head' + 1
  <2>1. CASE d \in 0 .. head
    <3>1. At(p, d)' = hist[p][d] /\ At(p, d) = hist[p][d]
      BY <1>1, <1>2, <1>4, <2>1 DEF At
    <3> QED
      BY <1>2, <2>1, <3>1
  <2>2. CASE d = head + 1
    <3>1. At(p, d)' = now[p] /\ At(p, head + 1) = now[p]
      BY <1>1, <1>2, <1>4, <2>2 DEF At
    <3> QED
      BY <1>2, <2>2, <3>1
  <2>3. CASE d = head + 2
    <3>1. At(p, d)' = now[p] /\ At(p, head + 1) = now[p]
      BY <1>1, <1>2, <1>4, <2>3 DEF At
    <3> QED
      BY <1>2, <2>3, <3>1
  <2> QED
    BY <1>1, <1>2, <2>1, <2>2, <2>3
<1>9. ASSUME NEW p \in V2Pools PROVE V2Exact(p)'
  <2>1. V2Exact(p) /\ p \in Pools
    BY <1>0 DEF PoolsExact
  <2>2. ASSUME NEW d \in 0 .. head' + 1, NEW i \in Due, Sync(p, Pending[i]),
               Pending[i].block <= d,
               \A k \in Due : i < k /\ Sync(p, Pending[k]) => Pending[k].block > d
        PROVE  Pending[i].val = At(p, d)'
    <3>1. PICK e \in 0 .. head + 1 : /\ At(p, d)' = At(p, e)
                                     /\ e = d \/ (d = head + 2 /\ e = head + 1)
      BY <1>8, <2>1
    <3>2. Pending[i].block <= e
      BY <1>2, <2>2, <3>1
    <3>3. \A k \in Due : i < k /\ Sync(p, Pending[k]) => Pending[k].block > e
      BY <1>2, <2>2, <3>1
    <3> QED
      BY <2>1, <2>2, <3>1, <3>2, <3>3 DEF V2Exact
  <2>3. ASSUME NEW b \in 0 .. head', NEW d \in b .. head' + 1, Reached(b)', hist'[p][b] # Absent,
               \A i \in Due : Sync(p, Pending[i]) /\ Pending[i].block <= d
                                => Pending[i].block <= b
        PROVE  hist'[p][b] = At(p, d)'
    <3>1. CASE b = head + 1
      BY <1>1, <1>2, <1>4, <2>1, <3>1 DEF At
    <3>2. CASE b \in 0 .. head
      <4>1. hist'[p][b] = hist[p][b] /\ Reached(b)
        BY <1>4, <1>6, <2>1, <2>3, <3>2
      <4>2. d \in 0 .. head' + 1
        BY <1>1, <1>2, <2>3
      <4>3. PICK e \in 0 .. head + 1 : /\ At(p, d)' = At(p, e)
                                       /\ e = d \/ (d = head + 2 /\ e = head + 1)
        BY <1>8, <2>1, <4>2
      <4>4. e \in b .. head + 1
        BY <1>1, <1>2, <2>3, <3>2, <4>3
      <4>5. \A i \in Due : Sync(p, Pending[i]) /\ Pending[i].block <= e
                             => Pending[i].block <= b
        BY <1>2, <2>3, <4>3
      <4>6. hist[p][b] = At(p, e)
        BY <2>1, <2>3, <3>2, <4>1, <4>4, <4>5 DEF V2Exact
      <4> QED
        BY <4>1, <4>3, <4>6
    <3> QED
      BY <1>5, <3>1, <3>2
  <2>4. ASSUME helper[p] # None, NEW d \in helper[p].block .. head' + 1,
               \A i \in Due : Sync(p, Pending[i]) /\ Pending[i].block <= d
                                => Pending[i].block < helper[p].block
        PROVE  helper[p].val = At(p, d)'
    <3>1. helper[p].block \in 0 .. head
      BY <1>0, <2>1, <2>4 DEF IInv, HelpersOK, HelperOK
    <3>2. d \in 0 .. head' + 1
      BY <1>1, <1>2, <2>4, <3>1
    <3>3. PICK e \in 0 .. head + 1 : /\ At(p, d)' = At(p, e)
                                     /\ e = d \/ (d = head + 2 /\ e = head + 1)
      BY <1>8, <2>1, <3>2
    <3>4. e \in helper[p].block .. head + 1
      BY <1>1, <1>2, <2>4, <3>1, <3>3
    <3>5. \A i \in Due : Sync(p, Pending[i]) /\ Pending[i].block <= e
                           => Pending[i].block < helper[p].block
      BY <1>2, <2>4, <3>3
    <3>6. helper[p].val = At(p, e)
      BY <2>1, <2>4, <3>4, <3>5 DEF V2Exact
    <3> QED
      BY <3>3, <3>6
  <2>5. /\ snapshot[p] = None
        /\ helper[p] # None => now[p] # Absent /\ helper[p].book = helper[p].val
    BY <2>1 DEF V2Exact
  <2> QED
    BY <1>1, <1>3, <2>2, <2>3, <2>4, <2>5 DEF V2Exact, Sync
<1>10. ASSUME NEW p \in V3Pools PROVE V3Held(p)' /\ V3Untouched(p)'
  <2>1. V3Held(p) /\ V3Untouched(p) /\ p \in Pools
    BY <1>0 DEF PoolsExact
  <2>2. ASSUME NEW b \in Nat, NEW c \in Nat, NEW x, Leads(p, b, Past(p, c), Pending, x, now[p])
        PROVE  Leads(p, b, Past(p, c)', Pending, x, now[p])
    <3>1. PICK past : past = Past(p, c)
      OBVIOUS
    <3>2. PICK f : f = Past(p, c)'
      OBVIOUS
    <3>3. \A d \in DOMAIN f :
            \/ d \in DOMAIN past /\ f[d] = past[d]
            \/ f[d] = now[p] /\ \A i \in 1 .. Len(Pending) : Pending[i].block <= d
      <4>1. DOMAIN past = c .. head /\ \A d \in c .. head : past[d] = hist[p][d]
        BY <3>1 DEF Past
      <4>2. DOMAIN f = c .. head + 1 /\ \A d \in c .. head + 1 : f[d] = hist'[p][d]
        BY <1>1, <3>2 DEF Past
      <4> QED
        BY <1>2, <1>4, <2>1, <4>1, <4>2
    <3>4. \A i \in 1 .. Len(Pending) : Pending[i].block \in Nat
      BY <1>2
    <3>5. Leads(p, b, past, Pending, x, now[p])
      BY <2>2, <3>1
    <3>6. Leads(p, b, f, Pending, x, now[p])
      BY <1>2, <3>3, <3>4, <3>5, TraceSealed
    <3> QED
      BY <3>2, <3>6
  <2>3. V3Held(p)'
    <3> SUFFICES ASSUME helper[p] # None
                 PROVE  Leads(p, 0, Past(p, helper[p].block)', Pending, helper[p].val, now[p])
      BY <1>1, <1>3, <2>1 DEF V3Held, Past
    <3>1. PICK c \in Nat : c = helper[p].block
      BY <1>0, <2>1 DEF IInv, HelpersOK, Helper
    <3>2. Leads(p, 0, Past(p, c), Pending, helper[p].val, now[p])
      BY <2>1, <3>1 DEF V3Held
    <3>3. Leads(p, 0, Past(p, c)', Pending, helper[p].val, now[p])
      BY <2>2, <3>2
    <3> QED
      BY <1>1, <3>1, <3>3 DEF Past
  <2>4. V3Untouched(p)'
    <3> SUFFICES ASSUME helper[p] = None, FactoryOf[p] \in StartupFactories
                 PROVE  /\ \A b \in 0 .. head' :
                             hist'[p][b] # Absent =>
                               Leads(p, b, Past(p, b)', Pending, hist'[p][b], now[p])
                        /\ snapshot[p] # None =>
                             /\ \A b \in 0 .. head' :
                                  (\A i \in Due : Relevant(p, 0, Pending[i])
                                                    => b < Pending[i].block)
                                    => hist'[p][b] = snapshot[p]
                             /\ (\A i \in Due : ~Relevant(p, 0, Pending[i]))
                                  => now[p] = snapshot[p]
      BY <1>1, <1>3 DEF V3Untouched, Past
    <3>1. ASSUME NEW b \in 0 .. head', hist'[p][b] # Absent
          PROVE  Leads(p, b, Past(p, b)', Pending, hist'[p][b], now[p])
      <4>1. CASE b = head + 1
        <5>1. \A i \in 1 .. Len(Pending) : ~Relevant(p, b, Pending[i])
          BY <1>2, <4>1 DEF Relevant
        <5>2. now[p] \in Int /\ hist'[p][b] = now[p]
          BY <1>4, <2>1, <4>1
        <5>3. PICK f : f = Past(p, b)'
          OBVIOUS
        <5>4. \A d \in DOMAIN f : f[d] = now[p]
          BY <1>1, <1>2, <4>1, <5>2, <5>3 DEF Past
        <5>5. Leads(p, b, f, Pending, now[p], now[p])
          BY <1>2, <5>1, <5>2, <5>4, TraceNone
        <5> QED
          BY <5>2, <5>3, <5>5
      <4>2. CASE b \in 0 .. head
        <5>1. hist'[p][b] = hist[p][b]
          BY <1>4, <2>1, <4>2
        <5>2. Leads(p, b, Past(p, b), Pending, hist[p][b], now[p])
          BY <2>1, <3>1, <4>2, <5>1 DEF V3Untouched
        <5> QED
          BY <1>2, <2>2, <4>2, <5>1, <5>2
      <4> QED
        BY <1>5, <4>1, <4>2
    <3>2. ASSUME snapshot[p] # None, \A i \in Due : ~Relevant(p, 0, Pending[i])
          PROVE  now[p] = snapshot[p]
      BY <2>1, <3>2 DEF V3Untouched
    <3>3. ASSUME snapshot[p] # None, NEW b \in 0 .. head',
                 \A i \in Due : Relevant(p, 0, Pending[i]) => b < Pending[i].block
          PROVE  hist'[p][b] = snapshot[p]
      <4>1. CASE b = head + 1
        <5>1. \A i \in Due : ~Relevant(p, 0, Pending[i])
          BY <1>2, <3>3, <4>1
        <5> QED
          BY <1>4, <2>1, <3>2, <3>3, <4>1, <5>1
      <4>2. CASE b \in 0 .. head
        <5>1. hist'[p][b] = hist[p][b]
          BY <1>4, <2>1, <4>2
        <5> QED
          BY <2>1, <3>3, <4>2, <5>1 DEF V3Untouched
      <4> QED
        BY <1>5, <4>1, <4>2
    <3> QED
      BY <3>1, <3>2, <3>3
  <2> QED
    BY <2>3, <2>4
<1> QED
  BY <1>7, <1>9, <1>10 DEF ExactInv, PoolsExact

(* Reading a message takes the first pending log, and no later log is of   *)
(* an older block.                                                         *)
LEMMA PendingTail ==
  ASSUME IInv, DeliveryOK, Receive
  PROVE  /\ Pending \in Seq(Log) /\ Pending # <<>> /\ Pending' = Tail(Pending)
         /\ Head(chan) = Pending[1] /\ 1 \in Due /\ Pending[1].block \in 1 .. head
         /\ \A i \in Due' : /\ i + 1 \in Due /\ Pending'[i] = Pending[i + 1]
                            /\ Pending[1].block <= Pending'[i].block
                            /\ Pending'[i].block \in 1 .. head + 1
         /\ \A i \in Due : i = 1 \/ (i - 1 \in Due' /\ Pending'[i - 1] = Pending[i])
         /\ Due \subseteq Nat /\ Due' \subseteq Nat /\ head \in Nat
         /\ Reached(Pending[1].block) /\ Reached(head)
         /\ \A b \in 0 .. head : Reached(b)' => Reached(b) /\ Pending[1].block <= b
         /\ UNCHANGED <<head, now, hist, subscribed, first_event>>
<1>1. /\ chan # <<>> /\ chan' = Tail(chan)
      /\ UNCHANGED <<head, now, open, hist, subscribed, first_event>>
  BY DEF Receive, chainVars
<1>2. chan \in Seq(Log) /\ open \in Seq(Log)
  BY TypesFollow DEF TypeOK, ChainTypeOK
<1> DEFINE n == Len(Pending)
<1>3. /\ Pending \in Seq(Log) /\ n \in Nat /\ head \in Nat /\ Due = 1 .. n
      /\ n = Len(chan) + Len(open)
      /\ \A i \in Due : Pending[i].block \in 1 .. head + 1
      /\ Len(chan) \in Nat /\ Len(open) \in Nat
      /\ \A i \in 1 .. Len(chan) : Pending[i] = chan[i] /\ Pending[i].block <= head
  BY PendingLogs DEF Due
<1>4. Len(chan) # 0
  BY <1>1, <1>2, EmptySeq
<1>5. /\ 1 \in 1 .. Len(chan) /\ 1 \in Due /\ Pending # <<>>
      /\ Pending[1] = chan[1] /\ Pending[1].block \in 1 .. head
  <2>1. 1 \in 1 .. Len(chan) /\ 1 \in Due /\ n # 0
    BY <1>3, <1>4
  <2>2. Pending[1] = chan[1] /\ Pending[1].block <= head /\ Pending[1].block \in 1 .. head + 1
    BY <1>3, <2>1
  <2>3. Pending # <<>>
    BY <2>1, EmptySeq
  <2> QED
    BY <1>3, <2>1, <2>2, <2>3
<1>6. Head(chan) = chan[1]
  BY <1>1, <1>2, HeadTailProperties
<1>7. Pending' = Tail(Pending)
  <2>1. Pending' = Tail(chan) \o open
    BY <1>1 DEF Pending
  <2>2. /\ Tail(chan) \in Seq(Log) /\ Len(Tail(chan)) = Len(chan) - 1
        /\ \A i \in 1 .. Len(Tail(chan)) : Tail(chan)[i] = chan[i + 1]
    BY <1>1, <1>2, HeadTailProperties
  <2>3. /\ Tail(chan) \o open \in Seq(Log)
        /\ Len(Tail(chan) \o open) = Len(Tail(chan)) + Len(open)
        /\ \A i \in 1 .. Len(Tail(chan)) + Len(open) :
             (Tail(chan) \o open)[i] = IF i <= Len(Tail(chan)) THEN Tail(chan)[i]
                                       ELSE open[i - Len(Tail(chan))]
    BY <1>2, <2>2, ConcatProperties
  <2>4. /\ Tail(Pending) \in Seq(Log) /\ Len(Tail(Pending)) = n - 1
        /\ \A i \in 1 .. Len(Tail(Pending)) : Tail(Pending)[i] = Pending[i + 1]
    BY <1>3, <1>5, HeadTailProperties
  <2>5. \A i \in 1 .. n :
          Pending[i] = IF i <= Len(chan) THEN chan[i] ELSE open[i - Len(chan)]
    BY <1>2, <1>3, ConcatProperties DEF Pending
  <2>6. Len(Tail(chan) \o open) = Len(Tail(Pending))
    BY <1>3, <2>2, <2>3, <2>4
  <2>7. ASSUME NEW i \in 1 .. Len(Tail(Pending))
        PROVE  (Tail(chan) \o open)[i] = Tail(Pending)[i]
    <3>1. i \in 1 .. n - 1 /\ i + 1 \in 1 .. n /\ i \in 1 .. Len(Tail(chan)) + Len(open)
      BY <1>3, <2>2, <2>4
    <3>2. Tail(Pending)[i] = IF i + 1 <= Len(chan) THEN chan[i + 1]
                             ELSE open[(i + 1) - Len(chan)]
      BY <2>4, <2>5, <3>1
    <3>3. CASE i + 1 <= Len(chan)
      <4>1. i <= Len(Tail(chan)) /\ i \in 1 .. Len(Tail(chan))
        BY <1>3, <2>2, <3>1, <3>3
      <4> QED
        BY <2>2, <2>3, <3>1, <3>2, <3>3, <4>1
    <3>4. CASE ~(i + 1 <= Len(chan))
      <4>1. ~(i <= Len(Tail(chan))) /\ i - Len(Tail(chan)) = (i + 1) - Len(chan)
        BY <1>3, <2>2, <3>1, <3>4
      <4> QED
        BY <2>3, <3>1, <3>2, <3>4, <4>1
    <3> QED
      BY <3>3, <3>4
  <2>8. Tail(chan) \o open = Tail(Pending)
    BY <2>3, <2>4, <2>6, <2>7, SeqEqual
  <2> QED
    BY <2>1, <2>8
<1>8. /\ Due' = 1 .. n - 1
      /\ \A i \in 1 .. n - 1 : Pending'[i] = Pending[i + 1]
  <2>1. /\ Len(Tail(Pending)) = n - 1
        /\ \A i \in 1 .. Len(Tail(Pending)) : Tail(Pending)[i] = Pending[i + 1]
    BY <1>3, <1>5, HeadTailProperties
  <2> QED
    BY <1>7, <2>1 DEF Due
<1> HIDE DEF n
<1>9. \A i \in Due' : /\ i + 1 \in Due /\ Pending'[i] = Pending[i + 1]
                      /\ Pending[1].block <= Pending'[i].block
                      /\ Pending'[i].block \in 1 .. head + 1
  <2> TAKE i \in Due'
  <2>1. i + 1 \in Due /\ Pending'[i] = Pending[i + 1] /\ 1 <= i + 1
    BY <1>3, <1>8
  <2> QED
    BY <1>3, <1>5, <2>1 DEF DeliveryOK
<1>10. \A i \in Due : i = 1 \/ (i - 1 \in Due' /\ Pending'[i - 1] = Pending[i])
  <2> SUFFICES ASSUME NEW i \in Due, i # 1
               PROVE  i - 1 \in Due' /\ Pending'[i - 1] = Pending[i]
    OBVIOUS
  <2>1. i - 1 \in 1 .. n - 1 /\ (i - 1) + 1 = i
    BY <1>3
  <2> QED
    BY <1>8, <2>1
<1>11. Due \subseteq Nat /\ Due' \subseteq Nat
  BY <1>3, <1>8
<1>12. Reached(Pending[1].block) /\ Reached(head)
  BY <1>1, <1>3, <1>5 DEF Reached
<1>13. ASSUME NEW b \in 0 .. head, Reached(b)'
       PROVE  Reached(b) /\ Pending[1].block <= b
  <2>1. CASE b = head
    BY <1>3, <1>5, <2>1 DEF Reached
  <2>2. CASE chan' # <<>> /\ chan'[1].block <= b
    <3>1. chan' \in Seq(Log) /\ Len(chan') = Len(chan) - 1
          /\ \A i \in 1 .. Len(chan') : chan'[i] = chan[i + 1]
      BY <1>1, <1>2, HeadTailProperties
    <3>2. 1 \in 1 .. Len(chan') /\ 1 + 1 \in 1 .. Len(chan) /\ 1 + 1 \in Due
      <4>1. Len(chan') # 0
        BY <2>2, <3>1, EmptySeq
      <4> QED
        BY <1>3, <3>1, <4>1
    <3>3. chan'[1] = Pending[1 + 1]
      BY <1>3, <3>1, <3>2
    <3>4. Pending[1].block <= Pending[1 + 1].block /\ Pending[1 + 1].block \in 1 .. head + 1
      BY <1>3, <1>5, <3>2 DEF DeliveryOK
    <3>5. Pending[1].block <= b
      BY <1>3, <1>5, <2>2, <3>3, <3>4
    <3> QED
      BY <1>1, <1>5, <3>5 DEF Reached
  <2> QED
    BY <1>1, <1>13, <2>1, <2>2 DEF Reached
<1> QED
  BY <1>1, <1>3, <1>5, <1>6, <1>7, <1>9, <1>10, <1>11, <1>12, <1>13

LEMMA PendingSorted ==
  ASSUME IInv, DeliveryOK, Receive
  PROVE  \A i \in 1 .. Len(Pending) : Pending[1].block <= Pending[i].block
<1>1. 1 \in Due /\ Due = 1 .. Len(Pending) /\ \A i \in Due : 1 <= i
  BY PendingTail, PendingLogs DEF Due
<1> QED
  BY <1>1 DEF DeliveryOK

LEMMA HandledDelivery ==
  ASSUME ExactInv, Receive,
         StartupFactories \subseteq managers',
         managers' \subseteq StartupFactories \cup {FactoryOf[q] : q \in V2Pools},
         \A p \in Pools : helper'[p] # None => FactoryOf[p] \in managers'
  PROVE  DeliveryOK'
<1>0. IInv /\ DeliveryOK
  BY DEF ExactInv
<1>1. loop = "listening"
  BY DEF Receive
<1>2. subscribed' /\ first_event' # None
  BY <1>0, <1>1, PendingTail DEF DeliveryOK
<1>3. \A i \in Due' : Pending'[i].kind # "pool"
  BY <1>0, PendingTail DEF DeliveryOK
<1>4. \A i, j \in Due' : i <= j => Pending'[i].block <= Pending'[j].block
  <2> TAKE i, j \in Due'
  <2>1. /\ i \in Nat /\ j \in Nat /\ i + 1 \in Due /\ j + 1 \in Due
        /\ Pending'[i] = Pending[i + 1] /\ Pending'[j] = Pending[j + 1]
    BY <1>0, PendingTail
  <2> QED
    BY <1>0, <2>1 DEF DeliveryOK
<1>5. \A p \in Pools : \A i \in Due' : Concerns(p, Pending'[i]) => now'[p] # Absent
  BY <1>0, PendingTail DEF DeliveryOK
<1>6. /\ \A p \in Pools : \A b \in 0 .. head' : now'[p] = Absent => hist'[p][b] = Absent
      /\ \A p \in V3Pools : \A b \in 0 .. head' : hist'[p][b] = Absent => now'[p] = Absent
  BY <1>0, PendingTail DEF DeliveryOK
<1> QED
  BY <1>2, <1>3, <1>4, <1>5, <1>6 DEF DeliveryOK, Concerns

(* A V2 pool after a log, whatever the handler made of its helper.         *)
LEMMA V2Handled ==
  ASSUME ExactInv, Receive, NEW p \in V2Pools, snapshot'[p] = snapshot[p],
         helper'[p] # None =>
           /\ now[p] # Absent
           /\ helper'[p].book = helper'[p].val
           /\ \A d \in helper'[p].block .. head + 1 :
                (\A i \in Due' : Sync(p, Pending'[i]) /\ Pending'[i].block <= d
                                   => Pending'[i].block < helper'[p].block)
                  => helper'[p].val = At(p, d)
  PROVE  V2Exact(p)'
<1>0. IInv /\ DeliveryOK /\ V2Exact(p)
  BY DEF ExactInv, PoolsExact
<1>1. UNCHANGED <<head, now, hist>> /\ \A d : At(p, d)' = At(p, d)
  BY <1>0, PendingTail DEF At
<1>2. ASSUME NEW d \in 0 .. head + 1, NEW i \in Due', Sync(p, Pending'[i]),
             Pending'[i].block <= d,
             \A j \in Due' : i < j /\ Sync(p, Pending'[j]) => Pending'[j].block > d
      PROVE  Pending'[i].val = At(p, d)
  <2>1. i \in Nat /\ i + 1 \in Due /\ Pending'[i] = Pending[i + 1]
    BY <1>0, PendingTail
  <2>2. ASSUME NEW j \in Due, i + 1 < j, Sync(p, Pending[j]) PROVE Pending[j].block > d
    <3>1. j \in Nat /\ j # 1
      BY <1>0, <2>1, <2>2, PendingTail
    <3>2. j - 1 \in Due' /\ Pending'[j - 1] = Pending[j] /\ i < j - 1
      BY <1>0, <2>1, <2>2, <3>1, PendingTail
    <3> QED
      BY <1>2, <2>2, <3>2
  <2> QED
    BY <1>0, <1>2, <2>1, <2>2 DEF V2Exact
<1>3. ASSUME NEW b \in 0 .. head, NEW d \in b .. head + 1, Reached(b)', hist[p][b] # Absent,
             \A i \in Due' : Sync(p, Pending'[i]) /\ Pending'[i].block <= d
                               => Pending'[i].block <= b
      PROVE  hist[p][b] = At(p, d)
  <2>1. Reached(b) /\ Pending[1].block <= b
    BY <1>0, <1>3, PendingTail
  <2>2. ASSUME NEW i \in Due, Sync(p, Pending[i]), Pending[i].block <= d
        PROVE  Pending[i].block <= b
    <3>1. CASE i = 1
      BY <2>1, <3>1
    <3>2. CASE i # 1
      <4>1. i - 1 \in Due' /\ Pending'[i - 1] = Pending[i]
        BY <1>0, <3>2, PendingTail
      <4> QED
        BY <1>3, <2>2, <4>1
    <3> QED
      BY <3>1, <3>2
  <2> QED
    BY <1>0, <1>3, <2>1, <2>2 DEF V2Exact
<1>4. snapshot'[p] = None
  BY <1>0 DEF V2Exact
<1> QED
  BY <1>1, <1>2, <1>3, <1>4 DEF V2Exact, Sync

LEMMA V2Passed ==
  ASSUME ExactInv, Receive, NEW p \in V2Pools,
         snapshot'[p] = snapshot[p], helper'[p] = helper[p],
         helper[p] = None \/ ~Sync(p, Pending[1]) \/ Pending[1].block < helper[p].block
  PROVE  V2Exact(p)'
<1>0. IInv /\ DeliveryOK /\ V2Exact(p)
  BY DEF ExactInv, PoolsExact
<1>1. ASSUME helper[p] # None, NEW d \in helper[p].block .. head + 1,
             \A i \in Due' : Sync(p, Pending'[i]) /\ Pending'[i].block <= d
                               => Pending'[i].block < helper[p].block
      PROVE  helper[p].val = At(p, d)
  <2>1. ASSUME NEW i \in Due, Sync(p, Pending[i]), Pending[i].block <= d
        PROVE  Pending[i].block < helper[p].block
    <3>1. CASE i = 1
      BY <1>1, <2>1, <3>1
    <3>2. CASE i # 1
      <4>1. i - 1 \in Due' /\ Pending'[i - 1] = Pending[i]
        BY <1>0, <3>2, PendingTail
      <4> QED
        BY <1>1, <2>1, <4>1
    <3> QED
      BY <3>1, <3>2
  <2> QED
    BY <1>0, <1>1, <2>1 DEF V2Exact
<1> QED
  BY <1>0, <1>1, V2Handled DEF V2Exact

(* A V2 pool whose helper is built during the step, at block b.            *)
LEMMA V2Built ==
  ASSUME ExactInv, Receive, NEW p \in V2Pools, NEW b \in 0 .. head,
         helper[p] = None, CanGet(p, b), Reached(b), Pending[1].block <= b,
         snapshot'[p] = snapshot[p], helper'[p] = NewHelper(p, b)
  PROVE  V2Exact(p)'
<1>0. IInv /\ DeliveryOK /\ V2Exact(p) /\ p \in Pools
  BY DEF ExactInv, PoolsExact, Pools
<1>1. /\ hist[p][b] # Absent /\ now[p] # Absent
      /\ helper'[p].val = hist[p][b] /\ helper'[p].book = hist[p][b] /\ helper'[p].block = b
  <2>1. snapshot[p] = None /\ hist[p][b] # Absent
    BY <1>0 DEF V2Exact, CanGet
  <2>2. now[p] # Absent
    BY <1>0, <2>1 DEF DeliveryOK
  <2> QED
    BY <2>1, <2>2 DEF NewHelper
<1>2. ASSUME NEW d \in b .. head + 1,
             \A i \in Due' : Sync(p, Pending'[i]) /\ Pending'[i].block <= d
                               => Pending'[i].block < b
      PROVE  hist[p][b] = At(p, d)
  <2>1. ASSUME NEW i \in Due, Sync(p, Pending[i]), Pending[i].block <= d
        PROVE  Pending[i].block <= b
    <3>1. CASE i = 1
      BY <3>1
    <3>2. CASE i # 1
      <4>1. /\ i - 1 \in Due' /\ Pending'[i - 1] = Pending[i]
            /\ Pending'[i - 1].block \in 1 .. head + 1 /\ head \in Nat
        BY <1>0, <3>2, PendingTail
      <4> QED
        BY <1>2, <2>1, <4>1
    <3> QED
      BY <3>1, <3>2
  <2> QED
    BY <1>0, <1>1, <2>1 DEF V2Exact
<1> QED
  BY <1>1, <1>2, V2Handled

(* A V2 pool that takes the state of its Sync log.                         *)
LEMMA V2Synced ==
  ASSUME ExactInv, Receive, NEW p \in V2Pools, Sync(p, Pending[1]),
         snapshot'[p] = snapshot[p], helper'[p] = Synced(Pending[1])
  PROVE  V2Exact(p)'
<1> DEFINE m == Pending[1]
<1>0. IInv /\ DeliveryOK /\ V2Exact(p) /\ p \in Pools
  BY DEF ExactInv, PoolsExact, Pools
<1>1. /\ helper'[p].val = m.val /\ helper'[p].book = m.val /\ helper'[p].block = m.block
      /\ 1 \in Due /\ now[p] # Absent
  <2>1. 1 \in Due
    BY <1>0, PendingTail
  <2> QED
    BY <1>0, <2>1 DEF DeliveryOK, Sync, Concerns, Synced
<1>2. ASSUME NEW d \in m.block .. head + 1,
             \A i \in Due' : Sync(p, Pending'[i]) /\ Pending'[i].block <= d
                               => Pending'[i].block < m.block
      PROVE  m.val = At(p, d)
  <2>0. m.block \in 1 .. head /\ head \in Nat /\ d \in 0 .. head + 1 /\ m.block <= d
    BY <1>0, PendingTail
  <2>1. ASSUME NEW j \in Due, 1 < j, Sync(p, Pending[j]) PROVE Pending[j].block > d
    <3>1. /\ j - 1 \in Due' /\ Pending'[j - 1] = Pending[j]
          /\ m.block <= Pending'[j - 1].block /\ Pending'[j - 1].block \in 1 .. head + 1
      BY <1>0, <2>1, PendingTail
    <3>2. ~(Pending[j].block < m.block)
      BY <2>0, <3>1
    <3>3. ~(Pending[j].block <= d)
      BY <1>2, <2>1, <3>1, <3>2
    <3> QED
      BY <2>0, <3>1, <3>3
  <2> QED
    BY <1>0, <1>1, <2>0, <2>1 DEF V2Exact
<1> QED
  BY <1>1, <1>2, V2Handled

(* A V3 pool that the log leaves alone.                                    *)
LEMMA V3Passed ==
  ASSUME ExactInv, Receive, NEW p \in V3Pools,
         snapshot'[p] = snapshot[p], helper'[p] = helper[p],
         \/ ~Relevant(p, 0, Pending[1])
         \/ helper[p] = None /\ FactoryOf[p] \notin StartupFactories
  PROVE  V3Held(p)' /\ V3Untouched(p)'
<1>0. /\ IInv /\ DeliveryOK /\ V3Held(p) /\ V3Untouched(p) /\ p \in Pools
      /\ UNCHANGED <<head, now, hist>>
  BY PendingTail DEF ExactInv, PoolsExact, Pools
<1>1. /\ Pending \in Seq(Log) /\ Pending # <<>> /\ Pending' = Tail(Pending)
      /\ 1 \in Due /\ Pending[1].block \in 1 .. head /\ head \in Nat
  BY <1>0, PendingTail
<1>2. CASE ~Relevant(p, 0, Pending[1])
  <2>1. ASSUME NEW b \in 0 .. head, NEW c \in Nat, NEW x,
               Leads(p, b, Past(p, c), Pending, x, now[p])
        PROVE  Leads(p, b, Past(p, c)', Pending', x, now[p])
    <3>1. ~Relevant(p, b, Pending[1]) /\ b \in Nat
      BY <1>1, <1>2 DEF Relevant
    <3>2. PICK past : past = Past(p, c)
      OBVIOUS
    <3>3. past = Past(p, c)' /\ DOMAIN past \subseteq Nat /\ Within(past, past)
      BY <1>0, <1>1, <3>2 DEF Past, Within
    <3>4. Leads(p, b, past, Pending, x, now[p])
      BY <2>1, <3>2
    <3>5. PICK w \in Int : /\ \A f : Within(f, past) /\ w = x
                                       => Leads(p, b, f, Tail(Pending), w, now[p])
                           /\ ~Relevant(p, b, Pending[1]) => w = x
      BY <1>0, <1>1, <3>1, <3>3, <3>4, PendingSorted, TraceTail
    <3> QED
      BY <1>1, <3>1, <3>3, <3>5
  <2>2. V3Held(p)'
    <3> SUFFICES ASSUME helper[p] # None
                 PROVE  /\ helper[p].book = helper[p].val
                        /\ Leads(p, 0, Past(p, helper[p].block)', Pending', helper[p].val,
                                 now[p])
                        /\ \A i \in Due' : helper[p].block <= Pending'[i].block
      BY <1>0 DEF V3Held
    <3>1. PICK c \in Nat : c = helper[p].block
      BY <1>0 DEF IInv, HelpersOK, Helper
    <3>2. Leads(p, 0, Past(p, helper[p].block)', Pending', helper[p].val, now[p])
      <4>1. 0 \in 0 .. head /\ Leads(p, 0, Past(p, c), Pending, helper[p].val, now[p])
        BY <1>0, <1>1, <3>1 DEF V3Held
      <4>2. Leads(p, 0, Past(p, c)', Pending', helper[p].val, now[p])
        BY <2>1, <4>1
      <4> QED
        BY <3>1, <4>2 DEF Past
    <3>3. \A i \in Due' : helper[p].block <= Pending'[i].block
      BY <1>0, PendingTail DEF V3Held
    <3> QED
      BY <1>0, <3>2, <3>3 DEF V3Held
  <2>3. V3Untouched(p)'
    <3> SUFFICES ASSUME helper[p] = None, FactoryOf[p] \in StartupFactories
                 PROVE  /\ \A b \in 0 .. head :
                             hist[p][b] # Absent =>
                               Leads(p, b, Past(p, b)', Pending', hist[p][b], now[p])
                        /\ snapshot[p] # None =>
                             /\ \A b \in 0 .. head :
                                  (\A i \in Due' : Relevant(p, 0, Pending'[i])
                                                     => b < Pending'[i].block)
                                    => hist[p][b] = snapshot[p]
                             /\ (\A i \in Due' : ~Relevant(p, 0, Pending'[i]))
                                  => now[p] = snapshot[p]
      BY <1>0 DEF V3Untouched, Past
    <3>1. \A b \in 0 .. head :
            hist[p][b] # Absent =>
              Leads(p, b, Past(p, b)', Pending', hist[p][b], now[p])
      BY <1>0, <1>1, <2>1 DEF V3Untouched
    <3>2. ASSUME snapshot[p] # None, NEW b \in 0 .. head,
                 \A i \in Due' : Relevant(p, 0, Pending'[i]) => b < Pending'[i].block
          PROVE  hist[p][b] = snapshot[p]
      <4>1. ASSUME NEW i \in Due, Relevant(p, 0, Pending[i]) PROVE b < Pending[i].block
        <5>1. i # 1
          BY <1>2, <4>1
        <5>2. i - 1 \in Due' /\ Pending'[i - 1] = Pending[i]
          BY <1>0, <5>1, PendingTail
        <5> QED
          BY <3>2, <4>1, <5>2
      <4> QED
        BY <1>0, <3>2, <4>1 DEF V3Untouched
    <3>3. ASSUME snapshot[p] # None, \A i \in Due' : ~Relevant(p, 0, Pending'[i])
          PROVE  now[p] = snapshot[p]
      <4>1. ASSUME NEW i \in Due PROVE ~Relevant(p, 0, Pending[i])
        <5>1. CASE i = 1
          BY <1>2, <5>1
        <5>2. CASE i # 1
          <6>1. i - 1 \in Due' /\ Pending'[i - 1] = Pending[i]
            BY <1>0, <5>2, PendingTail
          <6> QED
            BY <3>3, <6>1
        <5> QED
          BY <5>1, <5>2
      <4> QED
        BY <1>0, <3>3, <4>1 DEF V3Untouched
    <3> QED
      BY <3>1, <3>2, <3>3
  <2> QED
    BY <2>2, <2>3
<1>3. CASE helper[p] = None /\ FactoryOf[p] \notin StartupFactories
  BY <1>0, <1>3 DEF V3Held, V3Untouched
<1> QED
  BY <1>2, <1>3

(* What get_pool returns at the block before a log of the pool: liquidity  *)
(* that this log and the later ones turn into the chain's.                 *)
LEMMA V3Got ==
  ASSUME ExactInv, Receive, NEW p \in V3Pools, Relevant(p, 0, Pending[1]),
         CanGet(p, StateBlock(Pending[1])),
         helper[p] = None => FactoryOf[p] \in StartupFactories,
         NEW h, h = GetPool(p, StateBlock(Pending[1]))
  PROVE  /\ h \in Helper /\ h.book = h.val /\ h.block <= Pending[1].block
         /\ Leads(p, 0, Past(p, h.block), Pending, h.val, now[p])
<1> DEFINE m == Pending[1]
           b == StateBlock(m)
<1>0. IInv /\ DeliveryOK /\ V3Held(p) /\ V3Untouched(p) /\ p \in Pools
  BY DEF ExactInv, PoolsExact, Pools
<1>1. /\ 1 \in Due /\ m.block \in 1 .. head /\ head \in Nat
      /\ Pending \in Seq(Log) /\ Due = 1 .. Len(Pending)
      /\ \A i \in Due : m.block <= Pending[i].block /\ Pending[i].block \in 1 .. head + 1
  <2>1. 1 \in Due /\ m.block \in 1 .. head /\ head \in Nat /\ Pending \in Seq(Log)
    BY <1>0, PendingTail
  <2>2. /\ Due = 1 .. Len(Pending)
        /\ \A i \in Due : Pending[i].block \in 1 .. head + 1
    BY <1>0, PendingLogs DEF Due
  <2>3. \A i \in Due : m.block <= Pending[i].block
    BY <1>0, <2>1, <2>2 DEF DeliveryOK
  <2> QED
    BY <2>1, <2>2, <2>3
<1>2. b \in 0 .. head /\ b < m.block /\ b = m.block - 1
  BY <1>1 DEF StateBlock
<1>3. h \in Helper
  BY <1>0, <1>2, GetPoolOK
<1>4. CASE helper[p] # None
  BY <1>0, <1>1, <1>3, <1>4 DEF GetPool, V3Held
<1>5. CASE helper[p] = None
  <2>1. /\ h.val = hist[p][b] /\ h.block = b /\ hist[p][b] # Absent
        /\ h.book = IF FactoryOf[p] \in StartupFactories /\ snapshot[p] # None
                    THEN snapshot[p] ELSE hist[p][b]
    BY <1>5 DEF GetPool, NewHelper, CanGet
  <2>2. \A i \in Due : b < Pending[i].block
    BY <1>1, <1>2
  <2>3. h.book = h.val
    <3>1. snapshot[p] # None => hist[p][b] = snapshot[p]
      BY <1>0, <1>2, <1>5, <2>2 DEF V3Untouched
    <3> QED
      BY <2>1, <3>1
  <2>4. Leads(p, b, Past(p, b), Pending, h.val, now[p])
    BY <1>0, <1>2, <1>5, <2>1 DEF V3Untouched
  <2>5. \A i \in 1 .. Len(Pending) : Relevant(p, b, Pending[i]) <=> Relevant(p, 0, Pending[i])
    BY <1>1, <2>2 DEF Relevant
  <2>6. Leads(p, 0, Past(p, h.block), Pending, h.val, now[p])
    BY <1>1, <2>1, <2>4, <2>5, TraceSame
  <2>7. h.block <= m.block
    BY <1>1, <1>2, <2>1
  <2> QED
    BY <1>3, <2>3, <2>6, <2>7
<1> QED
  BY <1>4, <1>5

(* A helper that took the change of the log.                               *)
LEMMA V3Put ==
  ASSUME ExactInv, Receive, NEW p \in V3Pools, NEW x \in Helper, helper'[p] = x,
         x.book = x.val, x.block <= Pending[1].block,
         Leads(p, 0, Past(p, x.block), Tail(Pending), x.val, now[p])
  PROVE  V3Held(p)' /\ V3Untouched(p)'
<1>0. IInv /\ DeliveryOK /\ helper'[p] # None
  BY NoneAssumption DEF ExactInv
<1>1. /\ UNCHANGED <<head, now, hist>> /\ Pending' = Tail(Pending)
      /\ Pending[1].block \in 1 .. head /\ head \in Nat
      /\ \A i \in Due' : /\ Pending[1].block <= Pending'[i].block
                         /\ Pending'[i].block \in 1 .. head + 1
  BY <1>0, PendingTail
<1>2. x.block \in Nat
  BY DEF Helper
<1>3. ASSUME NEW i \in Due' PROVE x.block <= Pending'[i].block
  <2>1. /\ Pending[1].block <= Pending'[i].block
        /\ Pending'[i].block \in 1 .. head + 1
    BY <1>1
  <2>2. Pending[1].block \in Nat /\ head + 1 \in Nat
    BY <1>1
  <2>3. Pending'[i].block \in Nat
    BY <2>1, <2>2
  <2> QED
    BY <1>2, <2>1, <2>2, <2>3
<1>4. Leads(p, 0, Past(p, x.block)', Pending', x.val, now'[p])
  <2>1. Past(p, x.block)' = Past(p, x.block)
    BY <1>1 DEF Past
  <2> QED
    BY <1>1, <2>1
<1>5. V3Held(p)'
  BY <1>3, <1>4 DEF V3Held
<1> QED
  BY <1>0, <1>5 DEF V3Untouched

(* A step that handles a log touches at most the pool of the log.          *)
LEMMA OneTouched ==
  ASSUME ExactInv, IInv', Receive, UNCHANGED managers,
         \A q \in Pools : q # Pending[1].pool =>
                            helper'[q] = helper[q] /\ snapshot'[q] = snapshot[q],
         \A q \in Pools : helper'[q] # None => Known(q),
         \A q \in V2Pools : q = Pending[1].pool => V2Exact(q)',
         \A q \in V3Pools : q = Pending[1].pool => V3Held(q)' /\ V3Untouched(q)'
  PROVE  ExactInv'
<1>0. V2Pools \subseteq Pools /\ V3Pools \subseteq Pools /\ DeliveryOK
  BY DEF Pools, ExactInv
<1>1. DeliveryOK'
  BY <1>0, HandledDelivery DEF DeliveryOK, Known
<1>2. ASSUME NEW q \in V2Pools PROVE V2Exact(q)'
  <2>1. q # Pending[1].pool => ~Sync(q, Pending[1])
    BY DEF Sync
  <2> QED
    BY <1>0, <2>1, V2Passed
<1>3. ASSUME NEW q \in V3Pools PROVE V3Held(q)' /\ V3Untouched(q)'
  <2>1. q # Pending[1].pool => ~Relevant(q, 0, Pending[1])
    BY DEF Relevant
  <2> QED
    BY <1>0, <2>1, V3Passed
<1> QED
  BY <1>1, <1>2, <1>3 DEF ExactInv, PoolsExact

(* The log concerns no pool, or its handler stores nothing and its pool    *)
(* has no helper.                                                          *)
LEMMA NothingTouched ==
  ASSUME Reliable, ExactInv, IInv', Receive, UNCHANGED <<managers, helper, snapshot>>,
         \A q \in Pools : Concerns(q, Pending[1]) =>
           helper[q] = None /\ (q \in V2Pools \/ FactoryOf[q] \notin StartupFactories)
  PROVE  ExactInv'
<1>0. /\ V2Pools \subseteq Pools /\ V3Pools \subseteq Pools /\ DeliveryOK
      /\ V2Pools \cap V3Pools = {}
  BY PoolsAssumption DEF Pools, ExactInv
<1>1. \A q \in Pools : helper'[q] # None => Known(q)
  BY <1>0 DEF DeliveryOK, Known
<1>2. ASSUME NEW q \in V2Pools PROVE V2Exact(q)'
  <2>1. Sync(q, Pending[1]) => helper[q] = None
    BY <1>0 DEF Sync, Concerns
  <2> QED
    BY <2>1, V2Passed
<1>3. ASSUME NEW q \in V3Pools PROVE V3Held(q)' /\ V3Untouched(q)'
  <2>1. Relevant(q, 0, Pending[1]) => helper[q] = None /\ FactoryOf[q] \notin StartupFactories
    BY <1>0 DEF Relevant, Concerns
  <2> QED
    BY <2>1, V3Passed
<1> QED
  BY <1>1, <1>2, <1>3, OneTouched

(* Without RPC failures get_pool fails only for a pool of no manager, or   *)
(* for a V2 pool that does not exist.                                      *)
LEMMA NoHelperExact ==
  ASSUME Reliable, ExactInv, IInv', Receive, UNCHANGED managers,
         NEW b \in 0 .. head, NoHelper(Pending[1].pool, b),
         Concerns(Pending[1].pool, Pending[1])
  PROVE  ExactInv'
<1> DEFINE p == Pending[1].pool
<1>0. IInv /\ DeliveryOK /\ p \in Pools /\ 1 \in Due
  <2>1. IInv /\ DeliveryOK
    BY DEF ExactInv
  <2>2. p \in Pools
    BY <2>1, MessageOK, PendingTail
  <2> QED
    BY <2>1, <2>2, PendingTail
<1>1. UNCHANGED <<helper, snapshot>>
  BY DEF NoHelper, Ignore, Raise
<1>2. \/ ~Known(p)
      \/ Known(p) /\ helper[p] = None /\ hist[p][b] = Absent
  BY DEF NoHelper, Reliable
<1>3. now[p] # Absent
  BY <1>0 DEF DeliveryOK
<1>4. CASE ~Known(p)
  <2>1. helper[p] = None /\ FactoryOf[p] \notin StartupFactories
    BY <1>0, <1>4 DEF DeliveryOK, Known
  <2> QED
    BY <1>1, <2>1, NothingTouched DEF Concerns
<1>5. CASE helper[p] = None /\ hist[p][b] = Absent
  <2>1. p \in V2Pools
    BY <1>0, <1>3, <1>5 DEF DeliveryOK, Pools
  <2> QED
    BY <1>1, <1>5, <2>1, NothingTouched DEF Concerns
<1> QED
  BY <1>2, <1>4, <1>5

(* A liquidity change or a swap that was taken over.                       *)
LEMMA V3Exact ==
  ASSUME ExactInv, IInv', Receive, UNCHANGED managers,
         NEW p \in V3Pools, p = Pending[1].pool, Known(p),
         NEW x \in Helper, helper' = [helper EXCEPT ![p] = x],
         \A q \in Pools : q # p => snapshot'[q] = snapshot[q],
         x.book = x.val, x.block <= Pending[1].block,
         Leads(p, 0, Past(p, x.block), Tail(Pending), x.val, now[p])
  PROVE  ExactInv'
<1>0. /\ IInv /\ DeliveryOK /\ p \in Pools /\ V3Pools \subseteq Pools
      /\ V2Pools \subseteq Pools /\ p \notin V2Pools
      /\ helper \in [Pools -> Helper \cup {None}]
  BY PoolsAssumption DEF Pools, ExactInv, IInv, HelpersOK
<1>1. helper'[p] = x /\ \A q \in Pools : q # p => helper'[q] = helper[q]
  BY <1>0
<1>2. \A q \in Pools : helper'[q] # None => Known(q)
  BY <1>0, <1>1 DEF DeliveryOK, Known
<1>3. V3Held(p)' /\ V3Untouched(p)'
  BY <1>1, V3Put
<1> QED
  BY <1>0, <1>1, <1>2, <1>3, OneTouched

(* The facts the handlers of V3 logs share.                                *)
LEMMA V3Start ==
  ASSUME Reliable, ExactInv, Receive, Pending[1].kind \in {"mint", "burn", "swap"},
         NEW p, p = Pending[1].pool, NEW h, h = GetPool(p, StateBlock(Pending[1])),
         Known(p), CanGet(p, StateBlock(Pending[1]))
  PROVE  /\ p \in V3Pools /\ h \in Helper /\ h.book = h.val
         /\ h.block <= Pending[1].block
         /\ \E w \in Int :
              /\ Changes(Pending[1], h.val, w)
              /\ Leads(p, 0, Past(p, Pending[1].block), Tail(Pending), w, now[p])
              /\ w = h.val => Leads(p, 0, Past(p, h.block), Tail(Pending), w, now[p])
<1>0. IInv /\ DeliveryOK
  BY DEF ExactInv
<1>1. /\ p \in V3Pools /\ 1 \in Due /\ Pending[1].block \in 1 .. head
      /\ Pending \in Seq(Log) /\ Pending # <<>>
  <2>1. p \in V3Pools
    BY <1>0, MessageOK, PendingTail DEF MinedLog, LogFits
  <2> QED
    BY <1>0, <2>1, PendingTail
<1>2. Relevant(p, 0, Pending[1])
  BY <1>0, <1>1, PendingTail DEF Relevant
<1>3. FactoryOf[p] \in StartupFactories
  <2>1. \A q \in V2Pools : FactoryOf[q] # FactoryOf[p]
    BY <1>1 DEF Reliable
  <2> QED
    BY <1>0, <2>1 DEF DeliveryOK, Known
<1>4. /\ h \in Helper /\ h.book = h.val /\ h.block <= Pending[1].block
      /\ Leads(p, 0, Past(p, h.block), Pending, h.val, now[p])
  BY <1>1, <1>2, <1>3, V3Got
<1>5. PICK past, f : past = Past(p, h.block) /\ f = Past(p, Pending[1].block)
  OBVIOUS
<1>6. /\ h.block \in Nat /\ Pending[1].block \in Nat /\ head \in Nat
      /\ DOMAIN past = h.block .. head /\ DOMAIN f = Pending[1].block .. head
  BY <1>0, <1>1, <1>4, <1>5, PendingTail DEF Past, Helper
<1>7. /\ DOMAIN past \subseteq Nat /\ Within(past, past) /\ Within(f, past)
      /\ \A d \in DOMAIN f : Pending[1].block <= d
  BY <1>4, <1>5, <1>6 DEF Within, Past
<1>8. PICK w \in Int :
        /\ \A g : /\ Within(g, past)
                  /\ w = h.val \/ \A d \in DOMAIN g : Pending[1].block <= d
                  => Leads(p, 0, g, Tail(Pending), w, now[p])
        /\ Relevant(p, 0, Pending[1]) => Changes(Pending[1], h.val, w)
  <2>1. Leads(p, 0, past, Pending, h.val, now[p]) /\ 0 \in Nat
    BY <1>4, <1>5
  <2>2. \A i \in 1 .. Len(Pending) : Pending[1].block <= Pending[i].block
    BY <1>0, PendingSorted
  <2> QED
    BY <1>1, <1>7, <2>1, <2>2, TraceTail
<1>9. /\ Leads(p, 0, f, Tail(Pending), w, now[p])
      /\ w = h.val => Leads(p, 0, past, Tail(Pending), w, now[p])
  BY <1>7, <1>8
<1> QED
  BY <1>1, <1>2, <1>4, <1>5, <1>8, <1>9

LEMMA MintExact ==
  ASSUME Reliable, ExactInv, IInv', ProcessMintEvent
  PROVE  ExactInv'
<1> DEFINE m == Pending[1]
           p == m.pool
           b == StateBlock(m)
           h == GetPool(p, b)
<1>0. IInv /\ DeliveryOK
  BY DEF ExactInv
<1>1. Receive /\ UNCHANGED managers /\ Head(chan) = m /\ m.kind = "mint"
  BY <1>0, PendingTail DEF ProcessMintEvent, Dispatch
<1>2. m.val \in Nat /\ b \in 0 .. head /\ p \in Pools /\ Concerns(p, m)
  BY <1>0, <1>1, MessageOK DEF MinedLog, LogFits, Concerns
<1>3. CASE NoHelper(p, b)
  BY <1>1, <1>2, <1>3, NoHelperExact
<1>4. CASE /\ Known(p) /\ CanGet(p, b)
           /\ \/ m.val = 0 /\ Keep(p, h)
              \/ m.val # 0 /\ UpdateRefused(p, h, m)
              \/ /\ m.val # 0 /\ h.block <= m.block
                 /\ LiquidityChanged(p, Moved(h, m.val, m.block))
  <2>1. /\ p \in V3Pools /\ h \in Helper /\ h.book = h.val /\ h.block <= m.block
        /\ \E w \in Int :
             /\ Changes(m, h.val, w)
             /\ Leads(p, 0, Past(p, m.block), Tail(Pending), w, now[p])
             /\ w = h.val => Leads(p, 0, Past(p, h.block), Tail(Pending), w, now[p])
    BY <1>1, <1>4, V3Start
  <2> HIDE DEF h
  <2>2. PICK w \in Int :
          /\ Changes(m, h.val, w)
          /\ Leads(p, 0, Past(p, m.block), Tail(Pending), w, now[p])
          /\ w = h.val => Leads(p, 0, Past(p, h.block), Tail(Pending), w, now[p])
    BY <2>1
  <2>3. w = h.val + m.val /\ h.val \in Int /\ h.block \in Nat /\ m.block \in Nat
    BY <1>0, <1>1, <2>1, <2>2, PendingTail DEF Changes, Helper
  <2>4. CASE m.val = 0 /\ Keep(p, h)
    <3>1. w = h.val
      BY <2>3, <2>4
    <3> QED
      BY <1>1, <1>4, <2>1, <2>2, <2>4, <3>1, V3Exact DEF Keep
  <2>5. CASE UpdateRefused(p, h, m)
    BY <2>1, <2>3, <2>5 DEF UpdateRefused, Reliable
  <2>6. CASE LiquidityChanged(p, Moved(h, m.val, m.block))
    <3> DEFINE x == Moved(h, m.val, m.block)
    <3>1. x \in Helper /\ x.book = x.val /\ x.val = w /\ x.block = m.block
      BY <1>2, <2>1, <2>3 DEF Moved, Helper
    <3> HIDE DEF x
    <3>2. /\ helper' = [helper EXCEPT ![p] = x]
          /\ snapshot' = snapshot \/ snapshot' = [snapshot EXCEPT ![p] = x.book]
      BY <2>6 DEF LiquidityChanged, Store, Keep, x
    <3>3. \A q \in Pools : q # p => snapshot'[q] = snapshot[q]
      BY <1>0, <3>2 DEF IInv, StateOK
    <3>4. x.block <= m.block
      BY <2>3, <3>1
    <3> QED
      BY <1>1, <1>4, <2>1, <2>2, <3>1, <3>2, <3>3, <3>4, V3Exact
  <2> QED
    BY <1>4, <2>4, <2>5, <2>6 DEF h
<1> QED
  BY <1>1, <1>3, <1>4 DEF ProcessMintEvent, LateDecodeError, Reliable

LEMMA BurnExact ==
  ASSUME Reliable, ExactInv, IInv', ProcessBurnEvent
  PROVE  ExactInv'
<1> DEFINE m == Pending[1]
           p == m.pool
           b == StateBlock(m)
           h == GetPool(p, b)
<1>0. IInv /\ DeliveryOK
  BY DEF ExactInv
<1>1. Receive /\ UNCHANGED managers /\ Head(chan) = m /\ m.kind = "burn"
  BY <1>0, PendingTail DEF ProcessBurnEvent, Dispatch
<1>2. m.val \in Nat /\ b \in 0 .. head /\ p \in Pools /\ Concerns(p, m)
  BY <1>0, <1>1, MessageOK DEF MinedLog, LogFits, Concerns
<1>3. CASE NoHelper(p, b)
  BY <1>1, <1>2, <1>3, NoHelperExact
<1>4. CASE /\ Known(p) /\ CanGet(p, b)
           /\ \/ m.val = 0 /\ Keep(p, h)
              \/ m.val # 0 /\ UpdateRefused(p, h, m)
              \/ m.val # 0 /\ AssertionFailed(p, h, m)
              \/ /\ m.val # 0 /\ h.block <= m.block /\ h.val >= m.val
                 /\ LiquidityChanged(p, Moved(h, -m.val, m.block))
  <2>1. /\ p \in V3Pools /\ h \in Helper /\ h.book = h.val /\ h.block <= m.block
        /\ \E w \in Int :
             /\ Changes(m, h.val, w)
             /\ Leads(p, 0, Past(p, m.block), Tail(Pending), w, now[p])
             /\ w = h.val => Leads(p, 0, Past(p, h.block), Tail(Pending), w, now[p])
    BY <1>1, <1>4, V3Start
  <2> HIDE DEF h
  <2>2. PICK w \in Int :
          /\ Changes(m, h.val, w)
          /\ Leads(p, 0, Past(p, m.block), Tail(Pending), w, now[p])
          /\ w = h.val => Leads(p, 0, Past(p, h.block), Tail(Pending), w, now[p])
    BY <2>1
  <2>3. /\ w = h.val - m.val /\ w >= 0
        /\ h.val \in Int /\ h.block \in Nat /\ m.block \in Nat
    BY <1>0, <1>1, <2>1, <2>2, PendingTail DEF Changes, Helper
  <2>4. CASE m.val = 0 /\ Keep(p, h)
    <3>1. w = h.val
      BY <2>3, <2>4
    <3> QED
      BY <1>1, <1>4, <2>1, <2>2, <2>4, <3>1, V3Exact DEF Keep
  <2>5. CASE UpdateRefused(p, h, m) \/ AssertionFailed(p, h, m)
    BY <1>2, <2>1, <2>3, <2>5 DEF UpdateRefused, AssertionFailed, Reliable
  <2>6. CASE LiquidityChanged(p, Moved(h, -m.val, m.block))
    <3> DEFINE x == Moved(h, -m.val, m.block)
    <3>1. x \in Helper /\ x.book = x.val /\ x.val = w /\ x.block = m.block
      BY <1>2, <2>1, <2>3 DEF Moved, Helper
    <3> HIDE DEF x
    <3>2. /\ helper' = [helper EXCEPT ![p] = x]
          /\ snapshot' = snapshot \/ snapshot' = [snapshot EXCEPT ![p] = x.book]
      BY <2>6 DEF LiquidityChanged, Store, Keep, x
    <3>3. \A q \in Pools : q # p => snapshot'[q] = snapshot[q]
      BY <1>0, <3>2 DEF IInv, StateOK
    <3>4. x.block <= m.block
      BY <2>3, <3>1
    <3> QED
      BY <1>1, <1>4, <2>1, <2>2, <3>1, <3>2, <3>3, <3>4, V3Exact
  <2> QED
    BY <1>4, <2>4, <2>5, <2>6 DEF h
<1> QED
  BY <1>1, <1>3, <1>4 DEF ProcessBurnEvent, LateDecodeError, Reliable

LEMMA SwapExact ==
  ASSUME Reliable, ExactInv, IInv', ProcessSwapEvent
  PROVE  ExactInv'
<1> DEFINE m == Pending[1]
           p == m.pool
           b == StateBlock(m)
           h == GetPool(p, b)
<1>0. IInv /\ DeliveryOK
  BY DEF ExactInv
<1>1. Receive /\ UNCHANGED managers /\ Head(chan) = m /\ m.kind = "swap"
  BY <1>0, PendingTail DEF ProcessSwapEvent, Dispatch
<1>2. m.val \in Nat /\ b \in 0 .. head /\ p \in Pools /\ Concerns(p, m)
  BY <1>0, <1>1, MessageOK DEF MinedLog, LogFits, Concerns
<1>3. CASE NoHelper(p, b)
  BY <1>1, <1>2, <1>3, NoHelperExact
<1>4. CASE /\ Known(p) /\ CanGet(p, b)
           /\ \/ UpdateRefused(p, h, m)
              \/ h.block <= m.block /\ Store(p, Replaced(h, m)) /\ UNCHANGED snapshot
  <2>1. /\ p \in V3Pools /\ h \in Helper /\ h.book = h.val /\ h.block <= m.block
        /\ \E w \in Int :
             /\ Changes(m, h.val, w)
             /\ Leads(p, 0, Past(p, m.block), Tail(Pending), w, now[p])
             /\ w = h.val => Leads(p, 0, Past(p, h.block), Tail(Pending), w, now[p])
    BY <1>1, <1>4, V3Start
  <2> HIDE DEF h
  <2>2. PICK w \in Int :
          /\ Changes(m, h.val, w)
          /\ Leads(p, 0, Past(p, m.block), Tail(Pending), w, now[p])
          /\ w = h.val => Leads(p, 0, Past(p, h.block), Tail(Pending), w, now[p])
    BY <2>1
  <2>3. /\ h.val = m.val /\ w = h.val /\ h.book \in Int
        /\ h.val \in Int /\ h.block \in Nat /\ m.block \in Nat
    BY <1>0, <1>1, <2>1, <2>2, PendingTail DEF Changes, Helper
  <2>4. CASE UpdateRefused(p, h, m)
    BY <2>1, <2>3, <2>4 DEF UpdateRefused, Reliable
  <2>5. CASE Store(p, Replaced(h, m)) /\ UNCHANGED snapshot
    <3> DEFINE x == Replaced(h, m)
    <3>1. x \in Helper /\ x.book = x.val /\ x.val = w /\ x.block = m.block
      BY <1>2, <2>1, <2>3 DEF Replaced, Helper
    <3> HIDE DEF x
    <3>2. helper' = [helper EXCEPT ![p] = x] /\ snapshot' = snapshot
      BY <2>5 DEF Store, x
    <3>3. x.block <= m.block
      BY <2>3, <3>1
    <3> QED
      BY <1>1, <1>4, <2>1, <2>2, <3>1, <3>2, <3>3, V3Exact
  <2> QED
    BY <1>4, <2>4, <2>5 DEF h
<1> QED
  BY <1>1, <1>3, <1>4 DEF ProcessSwapEvent, Reliable

LEMMA SyncExact ==
  ASSUME Reliable, ExactInv, IInv', ProcessSyncEvent
  PROVE  ExactInv'
<1> DEFINE m == Pending[1]
<1> PICK p : p = m.pool
  OBVIOUS
<1> DEFINE h == GetPool(p, head)
<1>0. IInv /\ DeliveryOK
  BY DEF ExactInv
<1>1. Receive /\ UNCHANGED managers /\ Head(chan) = m /\ m.kind = "sync"
  BY <1>0, PendingTail DEF ProcessSyncEvent, Dispatch
<1>2. /\ p \in V2Pools /\ p \notin V3Pools /\ p \in Pools /\ head \in 0 .. head
      /\ Concerns(p, m) /\ Sync(p, m)
      /\ m.block \in 1 .. head /\ head \in Nat /\ Reached(head)
      /\ V2Pools \subseteq Pools /\ V3Pools \subseteq Pools
  <2>1. p \in V2Pools /\ head \in Nat /\ m.block \in 1 .. head /\ Reached(head)
    BY <1>0, <1>1, MessageOK, PendingTail DEF MinedLog, LogFits
  <2> QED
    BY <1>1, <2>1, PoolsAssumption DEF Pools, Concerns, Sync
<1>3. CASE NoHelper(p, head)
  BY <1>1, <1>2, <1>3, NoHelperExact
<1>4. ASSUME NEW x, Known(p), helper' = [helper EXCEPT ![p] = x], UNCHANGED snapshot,
             V2Exact(p)'
      PROVE  ExactInv'
  <2>1. \A q \in Pools : q # p => helper'[q] = helper[q] /\ snapshot'[q] = snapshot[q]
    BY <1>0, <1>4 DEF IInv, HelpersOK
  <2>2. \A q \in Pools : helper'[q] # None => Known(q)
    BY <1>0, <1>4, <2>1 DEF DeliveryOK, Known
  <2> QED
    BY <1>1, <1>2, <1>4, <2>1, <2>2, OneTouched
<1>5. CASE Known(p) /\ CanGet(p, head) /\ UpdateRefused(p, h, m)
  <2>1. /\ helper' = [helper EXCEPT ![p] = h] /\ UNCHANGED snapshot /\ h.block > m.block
        /\ helper'[p] = h
    BY <1>0, <1>2, <1>5 DEF UpdateRefused, Keep, Reliable, IInv, HelpersOK
  <2>2. CASE helper[p] # None
    <3>1. h = helper[p] /\ h \in Helper
      BY <1>0, <1>2, <1>5, <2>2, GetPoolOK
    <3>2. m.block < helper[p].block
      BY <1>2, <2>1, <3>1 DEF Helper
    <3>3. V2Exact(p)'
      BY <1>1, <1>2, <2>1, <3>1, <3>2, V2Passed
    <3> QED
      BY <1>4, <1>5, <2>1, <3>3
  <2>3. CASE helper[p] = None
    <3>1. helper'[p] = NewHelper(p, head) /\ m.block <= head
      BY <1>2, <2>1, <2>3 DEF GetPool
    <3>2. V2Exact(p)'
      BY <1>1, <1>2, <1>5, <2>1, <2>3, <3>1, V2Built
    <3> QED
      BY <1>4, <1>5, <2>1, <3>2
  <2> QED
    BY <2>2, <2>3
<1>6. CASE Known(p) /\ Store(p, Synced(m)) /\ UNCHANGED snapshot
  <2>1. helper' = [helper EXCEPT ![p] = Synced(m)] /\ helper'[p] = Synced(m)
    BY <1>0, <1>2, <1>6 DEF Store, IInv, HelpersOK
  <2>2. V2Exact(p)'
    BY <1>1, <1>2, <1>6, <2>1, V2Synced
  <2> QED
    BY <1>4, <1>6, <2>1, <2>2
<1> QED
  BY <1>1, <1>3, <1>5, <1>6 DEF ProcessSyncEvent, Reliable

(* A pair announced to the bot: its manager is created, and its helper is  *)
(* built at the block of the log.                                          *)
LEMMA NewPairExact ==
  ASSUME Reliable, ExactInv, IInv', ProcessNewV2PoolEvent
  PROVE  ExactInv'
<1> DEFINE m == Pending[1]
<1> PICK p : p = m.pool
  OBVIOUS
<1>0. IInv /\ DeliveryOK
  BY DEF ExactInv
<1>1. Receive /\ Head(chan) = m /\ m.kind = "pair" /\ NewPoolEvent
  BY <1>0, PendingTail DEF ProcessNewV2PoolEvent, Dispatch
<1>2. /\ p \in V2Pools /\ p \notin V3Pools /\ p \in Pools
      /\ m.block \in 0 .. head /\ Reached(m.block) /\ m.block <= m.block
      /\ V2Pools \subseteq Pools /\ V3Pools \subseteq Pools
  <2>1. /\ p \in V2Pools /\ Reached(m.block)
        /\ head \in Nat /\ m.block \in 1 .. head
    BY <1>0, <1>1, MessageOK, PendingTail DEF MinedLog, LogFits
  <2> QED
    BY <2>1, PoolsAssumption DEF Pools
<1>3. \A q \in Pools : ~Concerns(q, m) /\ ~Sync(q, m) /\ ~Relevant(q, 0, m)
  BY <1>1 DEF Concerns, Sync, Relevant
<1>4. CASE Ignore /\ UNCHANGED managers
  BY <1>1, <1>3, <1>4, NothingTouched DEF Ignore
<1>5. CASE /\ RegisterManager(p) /\ CanGet(p, m.block)
           /\ Keep(p, GetPool(p, m.block))
  <2>1. /\ helper' = [helper EXCEPT ![p] = GetPool(p, m.block)] /\ UNCHANGED snapshot
        /\ managers' = managers \cup {FactoryOf[p]}
    BY <1>5 DEF Keep, RegisterManager
  <2>2. /\ helper'[p] = GetPool(p, m.block)
        /\ \A q \in Pools : q # p => helper'[q] = helper[q]
    BY <1>0, <1>2, <2>1 DEF IInv, HelpersOK
  <2>3. DeliveryOK'
    <3>1. \A q \in Pools : helper'[q] # None => FactoryOf[q] \in managers'
      BY <1>0, <2>1, <2>2 DEF DeliveryOK
    <3>2. /\ StartupFactories \subseteq managers'
          /\ managers' \subseteq StartupFactories \cup {FactoryOf[q] : q \in V2Pools}
      BY <1>0, <1>2, <2>1 DEF DeliveryOK
    <3> QED
      BY <1>1, <3>1, <3>2, HandledDelivery
  <2>4. V2Exact(p)'
    <3>1. CASE helper[p] # None
      <4>1. helper'[p] = helper[p]
        BY <2>2, <3>1 DEF GetPool
      <4> QED
        BY <1>1, <1>2, <1>3, <2>1, <4>1, V2Passed
    <3>2. CASE helper[p] = None
      <4>1. helper'[p] = NewHelper(p, m.block)
        BY <2>2, <3>2 DEF GetPool
      <4> QED
        BY <1>1, <1>2, <1>5, <2>1, <3>2, <4>1, V2Built
    <3> QED
      BY <3>1, <3>2
  <2>5. ASSUME NEW q \in V2Pools PROVE V2Exact(q)'
    <3>1. q # p => helper'[q] = helper[q] /\ snapshot'[q] = snapshot[q] /\ ~Sync(q, m)
      BY <1>2, <1>3, <2>1, <2>2
    <3> QED
      BY <1>1, <2>4, <3>1, V2Passed
  <2>6. ASSUME NEW q \in V3Pools PROVE V3Held(q)' /\ V3Untouched(q)'
    <3>1. helper'[q] = helper[q] /\ snapshot'[q] = snapshot[q] /\ ~Relevant(q, 0, m)
      BY <1>2, <1>3, <2>1, <2>2
    <3> QED
      BY <1>1, <3>1, V3Passed
  <2> QED
    BY <2>3, <2>5, <2>6 DEF ExactInv, PoolsExact
<1> QED
  BY <1>1, <1>4, <1>5 DEF NewPoolEvent, Reliable

LEMMA HandleExact ==
  ASSUME Reliable, ExactInv, IInv', Handle
  PROVE  ExactInv'
<1>0. IInv /\ DeliveryOK
  BY DEF ExactInv
<1>1. ~FirstEvent
  BY <1>0 DEF FirstEvent, DeliveryOK
<1>2. CASE AnonymousEvent \/ OtherEvent
  <2>1. /\ Receive /\ UNCHANGED <<managers, helper, snapshot>>
        /\ Pending[1].kind \in {"anonymous", "other"}
    BY <1>0, <1>2, PendingTail DEF AnonymousEvent, OtherEvent, Dispatch
  <2>2. \A q \in Pools : ~Concerns(q, Pending[1])
    BY <2>1 DEF Concerns
  <2> QED
    BY <2>1, <2>2, NothingTouched
<1>3. ~ProcessNewV3PoolEvent
  <2>1. ASSUME ProcessNewV3PoolEvent PROVE FALSE
    <3>1. Receive /\ Pending[1].kind = "pool" /\ 1 \in Due
      BY <1>0, <2>1, PendingTail DEF ProcessNewV3PoolEvent, Dispatch
    <3> QED
      BY <1>0, <3>1 DEF DeliveryOK
  <2> QED
    BY <2>1
<1> QED
  BY <1>1, <1>2, <1>3, MintExact, BurnExact, SwapExact, SyncExact, NewPairExact DEF Handle

LEMMA StepExact ==
  ASSUME Reliable, ExactInv, IInv', [Next]_vars
  PROVE  ExactInv'
<1>0. DeliveryOK
  BY DEF ExactInv
<1>1. CASE Subscribe \/ Wake \/ Cancelled \/ RunPut \/ TakePool \/ UNCHANGED vars
  <2>1. UNCHANGED <<chainVars, chan, first_event, managers, helper, snapshot>>
    BY <1>1 DEF Subscribe, Wake, Cancelled, RunPut, TakePool, vars, serviceVars
  <2>2. loop' # "starting" => subscribed'
    BY <1>0, <1>1 DEF Subscribe, Wake, Cancelled, RunPut, TakePool, vars, serviceVars,
                      DeliveryOK
  <2> QED
    BY <2>1, <2>2, QuietExact
<1>2. CASE Handle
  BY <1>2, HandleExact
<1>3. CASE LogEmitted
  BY <1>3, EmitExact DEF LogEmitted
<1>4. CASE BlockMined
  BY <1>4, SealExact
<1>5. ~Reorder /\ ~Disconnect /\ \A v : ~UpdateBotState(v)
  BY DEF Reorder, Disconnect, UpdateBotState, Reliable
<1> QED
  BY <1>1, <1>2, <1>3, <1>4, <1>5 DEF Next, Service, Environment

(* Block by block, every log that was handled is in its pool's helper      *)
(* exactly once, for any number of pools, blocks and logs and wherever in  *)
(* the stream of logs get_pool built the helper: process_*_event counts    *)
(* neither the state before the event block nor the log twice.  What the   *)
(* proof assumes of the environment is Reliable; the failures it leaves    *)
(* are those of update_snapshot, of creating a manager, and of cancelled   *)
(* tasks.                                                                  *)
THEOREM HelpersExact ==
  ASSUME Reliable
  PROVE  Spec => []BlockStateExact
<1>1. Init => ExactInv
  BY InitExact
<1>2. ExactInv /\ IInv' /\ [Next]_vars => ExactInv'
  BY StepExact
<1>3. ExactInv => BlockStateExact
  BY BlocksFollow
<1> QED
  BY <1>1, <1>2, <1>3, Invariance, PTL DEF Spec

(* So a pool with no log left, mined or not, has its current state in the  *)
(* helper the handlers of event_service.py left.                           *)
THEOREM SettledHelpersExact ==
  ASSUME Reliable
  PROVE  Spec => []PoolStateExact
<1>1. Init => ExactInv
  BY InitExact
<1>2. ExactInv /\ IInv' /\ [Next]_vars => ExactInv'
  BY StepExact
<1>3. ExactInv => PoolStateExact
  BY ExactFollows
<1> QED
  BY <1>1, <1>2, <1>3, Invariance, PTL DEF Spec
=============================================================================
