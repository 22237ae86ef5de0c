---------------------------- MODULE EventHistory ----------------------------
(***************************************************************************)
(* EventService with a history variable: the pools a log of which has not  *)
(* reached the helper as CREAM published it.  What the service does is     *)
(* left to EventService; the history only says whom a fault has hit.       *)
(***************************************************************************)
EXTENDS EventService

VARIABLE missed  \* pools that missed a log

historyVars == <<vars, missed>>

HistoryInit == Init /\ missed = {}

(* The handler made of the log what it says: the update was stored, it is  *)
(* one the helper is already past, or it changes nothing.  PoolCreated     *)
(* takes the helper to the end of its block, and with it the changes of    *)
(* the block whose logs still follow, which are then counted twice.        *)
Applied(m) ==
  \/ puts' # puts
  \/ helper[m.pool] # None /\ helper[m.pool].block > m.block
  \/ helper'[m.pool] # None /\ m.kind \in {"mint", "burn"} /\ m.val = 0
  \/ m.kind \in {"pair", "other", "anonymous"}
  \/ /\ m.kind = "pool" /\ helper'[m.pool] # None
     /\ \A i \in 2 .. Len(chan) :
          chan[i].pool = m.pool => chan[i].block > m.block

(* Two logs of one pool change places.                                     *)
Displaced == IF chan[1].pool = chan[2].pool THEN {chan[1].pool} ELSE {}

Miss(s) == missed' = missed \cup s

MissUnlessApplied == Miss(IF Applied(Head(chan)) THEN {} ELSE {Head(chan).pool})

(* Handle, handler by handler.                                             *)
HistoryHandle ==
  \/ FirstEvent /\ MissUnlessApplied
  \/ AnonymousEvent /\ MissUnlessApplied
  \/ OtherEvent /\ MissUnlessApplied
  \/ ProcessMintEvent /\ MissUnlessApplied
  \/ ProcessBurnEvent /\ MissUnlessApplied
  \/ ProcessSwapEvent /\ MissUnlessApplied
  \/ ProcessSyncEvent /\ MissUnlessApplied
  \/ ProcessNewV2PoolEvent /\ MissUnlessApplied
  \/ ProcessNewV3PoolEvent /\ MissUnlessApplied

HistoryNext ==
  \/ HistoryHandle
  \/ BlockMined /\ Miss(IF subscribed THEN {} ELSE PoolsIn(open))
  \/ Disconnect /\ Miss(PoolsIn(chan))
  \/ Reorder /\ Miss(Displaced)
  \/ Subscribe /\ Miss({})
  \/ Wake /\ Miss({})
  \/ Cancelled /\ Miss({})
  \/ RunPut /\ Miss({})
  \/ TakePool /\ Miss({})
  \/ LogEmitted /\ Miss({})
  \/ \E v \in {None, 1} : UpdateBotState(v) /\ Miss({})

HistorySpec == HistoryInit /\ [][HistoryNext]_historyVars
HistoryFairSpec == HistorySpec /\ Fairness

-----------------------------------------------------------------------------
(* Properties.                                                             *)

(* A fault costs nobody but the pools it hits.  If every log of a pool so  *)
(* far has come in its turn and its handler has run to the end, its helper *)
(* is exactly the pool's state, block by block, whatever logs of other     *)
(* pools were lost, displaced or given up in an exception: neither the     *)
(* sleep of the loop after another pool's exception, nor the removal of    *)
(* another pool, nor a new subscription touches it.  The liquidity that is *)
(* wrong for good after a lost Mint is thus confined to its own pool.      *)
FaultsStayLocal ==
  \A p \in Pools \ missed : \A b \in 0 .. head :
    /\ helper[p] # None /\ helper[p].block <= b
    /\ \A i \in 1 .. Len(chan) : chan[i].pool = p => chan[i].block > b
    => helper[p].val = hist[p][b] /\ helper[p].book = hist[p][b]
=============================================================================
