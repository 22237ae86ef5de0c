------------------------------ MODULE PoolFile ------------------------------
(***************************************************************************)
(* What a pool fetcher (builders/lp_fetcher_v2.py, lp_fetcher_v3.py)       *)
(* promises of its data file: it holds pools in the order of their blocks, *)
(* all of them up to the block of the last one, and a rewrite only adds    *)
(* pools at its end.  A file that is left half written is lost for good.   *)
(* The runs, their windows, memory and signals are left to LpFetcher.      *)
(***************************************************************************)
EXTENDS Integers, Sequences

CONSTANTS
  FactoryBlock, MaxBlock   \* as in LpFetcher

VARIABLES
  head, created,           \* the chain, as in LpFetcher
  state,                   \* "missing", "saved", "rewriting" or "lost"
  pools                    \* the pools in the file, or being written to it

vars == <<head, created, state, pools>>

Init ==
  /\ head = FactoryBlock
  /\ created \in {<<>>, <<FactoryBlock>>}
  /\ state = "missing"
  /\ pools = <<>>

(* The block a later run goes on from.                                     *)
ResumeBlock(list) ==
  IF list = <<>> THEN FactoryBlock ELSE created[list[Len(list)]]

(* Pools on the chain, in block order, no block before the resume block is *)
(* left out, and no pool is written more than twice.                       *)
Usable(list) ==
  /\ list \in Seq(1 .. Len(created))
  /\ \A j, k \in 1 .. Len(list) : j <= k => created[list[j]] <= created[list[k]]
  /\ \A p \in 1 .. Len(created) :
       FactoryBlock < created[p] /\ created[p] <= ResumeBlock(list)
         => \E k \in 1 .. Len(list) : list[k] = p
  /\ \A a, b, c \in 1 .. Len(list) :
       a < b /\ b < c => ~(list[a] = list[b] /\ list[b] = list[c])

Extends(longer, list) ==
  Len(list) <= Len(longer) /\ \A k \in 1 .. Len(list) : longer[k] = list[k]

MineBlock ==
  /\ head < MaxBlock
  /\ head' = head + 1
  /\ Extends(created', created)
  /\ \A k \in 1 .. Len(created') : k > Len(created) => created'[k] = head'
  /\ UNCHANGED <<state, pools>>

Rewrite ==
  /\ state \in {"missing", "saved"}
  /\ state' = "rewriting"
  /\ Usable(pools') /\ Extends(pools', pools)
  /\ UNCHANGED <<head, created>>

Save ==
  /\ state = "rewriting"
  /\ state' = "saved"
  /\ UNCHANGED <<head, created, pools>>

(* The process dies before the dump is complete.                           *)
Lose ==
  /\ state = "rewriting"
  /\ state' = "lost"
  /\ pools' = <<>>
  /\ UNCHANGED <<head, created>>

Next == MineBlock \/ Rewrite \/ Save \/ Lose

Spec == Init /\ [][Next]_vars
=============================================================================
