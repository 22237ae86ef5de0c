---------------------------- MODULE SnapshotFile ----------------------------
(***************************************************************************)
(* What the V3 liquidity fetcher (builders/liquidity_fetcher.py) promises  *)
(* of its snapshot file: a rewrite brings the pools of the pool files from *)
(* the block of the snapshot to a later one, and leaves the others where   *)
(* they are.  A file that is left half written is rewritten from nothing.  *)
(* Runs, windows, retries and the replay are left to LiquidityFetcher.     *)
(***************************************************************************)
EXTENDS Integers, Sequences, FiniteSets

CONSTANTS
  V3Pools, Known, StartBlock, MaxBlock   \* as in LiquidityFetcher

VARIABLES
  head, logs, listed,   \* the chain and the pool files, as in LiquidityFetcher
  state,                \* "missing", "saved", "rewriting" or "lost"
  block, liquidity      \* the snapshot in the file, or being written to it

vars == <<head, logs, listed, state, block, liquidity>>

Init ==
  /\ head = StartBlock
  /\ logs = <<>>
  /\ listed = Known
  /\ state = "missing"
  /\ block = StartBlock
  /\ liquidity = [p \in V3Pools |-> 0]

(* What the logs after block "from" up to block "to" add for pool p.       *)
Change(p, from, to) ==
  LET of(kind) == {k \in 1 .. Len(logs) :
                     /\ logs[k].pool = p /\ logs[k].kind = kind
                     /\ from < logs[k].block /\ logs[k].block <= to}
  IN Cardinality(of("Mint")) - Cardinality(of("Burn"))

(* Logs are only added to the open block, blocks and pool files only grow. *)
Grow ==
  /\ \/ logs' = logs
     \/ \E p \in V3Pools, k \in {"Mint", "Burn"} :
          logs' = Append(logs, [pool |-> p, kind |-> k, block |-> head + 1])
  /\ head' \in head .. MaxBlock
  /\ listed \subseteq listed' /\ listed' \subseteq V3Pools
  /\ UNCHANGED <<state, block, liquidity>>

Rewrite ==
  /\ state # "rewriting"
  /\ state' = "rewriting"
  /\ block' \in block .. head
  /\ state = "saved" => block < block'
  /\ \E updated \in SUBSET listed :
       /\ Known \subseteq updated
       /\ liquidity' = [p \in V3Pools |->
                          liquidity[p] + IF p \in updated THEN Change(p, block, block')
                                                          ELSE 0]
  /\ UNCHANGED <<head, logs, listed>>

Save ==
  /\ state = "rewriting"
  /\ state' = "saved"
  /\ UNCHANGED <<head, logs, listed, block, liquidity>>

(* The process dies before the dump is complete.                           *)
Lose ==
  /\ state = "rewriting"
  /\ state' = "lost"
  /\ block' = StartBlock
  /\ liquidity' = [p \in V3Pools |-> 0]
  /\ UNCHANGED <<head, logs, listed>>

Next == Grow \/ Rewrite \/ Save \/ Lose

Spec == Init /\ [][Next]_vars
=============================================================================
