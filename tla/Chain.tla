------------------------------- MODULE Chain -------------------------------
(***************************************************************************)
(* The blockchain and the CREAM process that watches it, as the bots see   *)
(* them.  Both are external to the repository: the chain is reached by RPC *)
(* reads at a given block, CREAM by the messages it publishes on the Redis *)
(* channel cream_events, one per log entry, once the block is mined.       *)
(*                                                                         *)
(* A V2 pool's state is the index of its current reserves, which every     *)
(* Sync log advances.  A V3 pool's state is its liquidity, on the one tick *)
(* range that is always in range: Mint adds to it, Burn takes from it, and *)
(* Swap carries its absolute value.                                        *)
(***************************************************************************)
EXTENDS Integers, Sequences

CONSTANTS
  V2Pools,    \* addresses of Uniswap V2 pools
  V3Pools,    \* addresses of Uniswap V3 pools
  Deployed,   \* the pools that exist when the bot starts
  Kinds,      \* the kinds of log the modelled blocks contain
  MaxBlock,   \* bound: number of blocks mined
  MaxLogs,    \* bound: logs per block
  MaxAmount   \* bound: largest amount minted or burnt, and initial liquidity

Pools == V2Pools \cup V3Pools

AllKinds == {"sync", "mint", "burn", "swap", "pair", "pool", "other", "anonymous"}

ASSUME PoolsAssumption ==
  /\ V2Pools \cap V3Pools = {}
  /\ Deployed \subseteq Pools

ASSUME BoundsAssumption ==
  /\ Kinds \subseteq AllKinds
  /\ MaxBlock \in Nat /\ MaxLogs \in Nat /\ MaxAmount \in Nat

Absent == -1    \* the state of a pool that is not deployed yet

VARIABLES
  head,   \* number of the newest block
  now,    \* state of each pool after the newest log, mined or not
  open,   \* logs of the block being built
  hist    \* hist[p][b]: state of pool p at the end of block b (RPC reads)

chainVars == <<head, now, open, hist>>

Log == [kind : AllKinds, pool : Pools, block : Nat, val : Int]

ChainTypeOK ==
  /\ head \in 0 .. MaxBlock
  /\ now \in [Pools -> Nat \cup {Absent}]
  /\ open \in Seq(Log)
  /\ hist \in [Pools -> [0 .. MaxBlock -> Nat \cup {Absent}]]

ChainInit ==
  /\ head = 0
  /\ now \in [Pools -> Absent .. MaxAmount]
  /\ \A p \in Pools : /\ p \notin Deployed <=> now[p] = Absent
                      /\ p \in V2Pools => now[p] <= 0
  /\ open = <<>>
  /\ hist = [p \in Pools |->
               [b \in 0 .. MaxBlock |-> IF b = 0 THEN now[p] ELSE Absent]]

(* A transaction of the open block emits a log; p's state becomes s.       *)
Emit(kind, p, val, s) ==
  /\ kind \in Kinds
  /\ head < MaxBlock
  /\ Len(open) < MaxLogs
  /\ now' = [now EXCEPT ![p] = s]
  /\ open' = Append(open, [kind  |-> kind, pool |-> p,
                           block |-> head + 1, val |-> val])
  /\ UNCHANGED <<head, hist>>

EmitSync(p) ==
  /\ p \in V2Pools /\ now[p] # Absent
  /\ Emit("sync", p, now[p] + 1, now[p] + 1)

EmitMint(p, amount) ==
  /\ p \in V3Pools /\ now[p] # Absent
  /\ Emit("mint", p, amount, now[p] + amount)

EmitBurn(p, amount) ==
  /\ p \in V3Pools /\ amount <= now[p]
  /\ Emit("burn", p, amount, now[p] - amount)

EmitSwap(p) ==
  /\ p \in V3Pools /\ now[p] # Absent
  /\ Emit("swap", p, now[p], now[p])

EmitCreated(p) ==
  /\ now[p] = Absent
  /\ Emit(IF p \in V2Pools THEN "pair" ELSE "pool", p, 0, 0)

(* A log the bot has no handler for, or one without any topic.             *)
EmitForeign(p, kind) ==
  /\ kind \in {"other", "anonymous"}
  /\ Emit(kind, p, 0, now[p])

ChainEmits ==
  \E p \in Pools :
    \/ EmitSync(p)
    \/ \E amount \in 0 .. MaxAmount : EmitMint(p, amount) \/ EmitBurn(p, amount)
    \/ EmitSwap(p)
    \/ EmitCreated(p)
    \/ \E kind \in {"other", "anonymous"} : EmitForeign(p, kind)

(* The open block is mined.                                                *)
Seal ==
  /\ head < MaxBlock
  /\ head' = head + 1
  /\ hist' = [p \in Pools |-> [hist[p] EXCEPT ![head + 1] = now[p]]]
  /\ open' = <<>>
  /\ UNCHANGED now
=============================================================================
