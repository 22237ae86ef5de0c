------------------------------ MODULE LpFetcher ------------------------------
(***************************************************************************)
(* The pool fetchers builders/lp_fetcher_v2.py and lp_fetcher_v3.py, for   *)
(* one factory and its data file.  The two differ in the contract event    *)
(* they read and in the fields they store.  A fetcher is started by hand,  *)
(* again and again; it reads the file, goes on from the block of the last  *)
(* pool in it, and rewrites the file after every window of blocks.  The    *)
(* process may die at any point.                                           *)
(***************************************************************************)
EXTENDS Integers, Sequences, FiniteSets

CONSTANTS
  BlockSpan,        \* BLOCK_SPAN
  FactoryBlock,     \* factory_deployment_block
  HandlerInstalled, \* signal_handler is installed (__main__ only)
  MaxBlock,         \* bound: the newest block
  MaxPools,         \* bound: the pools the factory creates
  MaxFailures       \* bound: the times the process dies

ASSUME SpanAssumption == BlockSpan \in Nat \ {0}
ASSUME LpBoundsAssumption ==
  /\ MaxBlock \in Nat /\ FactoryBlock \in 0 .. MaxBlock
  /\ MaxPools \in Nat \ {0} /\ MaxFailures \in Nat
  /\ HandlerInstalled \in BOOLEAN

VARIABLES
  head,         \* the newest block
  created,      \* created[k]: the block of the k-th pool of the factory
  file,         \* data_file: missing, torn, or saved with the indices of pools
  pc,           \* where the process is
  keep_running,
  lp_data,      \* the pools in memory
  i,            \* first block of the next window
  current_block,
  failures

vars == <<head, created, file, pc, keep_running, lp_data, i, current_block,
          failures>>

Missing == [state |-> "missing", pools |-> <<>>]
Torn    == [state |-> "torn", pools |-> <<>>]
Saved(pools) == [state |-> "saved", pools |-> pools]

LpTypeOK ==
  /\ head \in 0 .. MaxBlock
  /\ created \in Seq(0 .. MaxBlock) /\ Len(created) <= MaxPools
  /\ file \in [state : {"missing", "torn", "saved"}, pools : Seq(1 .. MaxPools)]
  /\ pc \in {"idle", "scanning", "opened", "stopping", "final"}
  /\ keep_running \in BOOLEAN
  /\ lp_data \in Seq(1 .. MaxPools)
  /\ i \in Nat /\ current_block \in 0 .. MaxBlock
  /\ failures \in 0 .. MaxFailures

Init ==
  /\ head = FactoryBlock
  /\ created \in {<<>>, <<FactoryBlock>>}
  /\ file = Missing
  /\ pc = "idle"
  /\ keep_running = TRUE
  /\ lp_data = <<>>
  /\ i = 0
  /\ current_block = 0
  /\ failures = 0

-----------------------------------------------------------------------------
(* The chain, the user and the machine.                                    *)

MineBlock ==
  /\ head < MaxBlock
  /\ head' = head + 1
  /\ \E n \in 0 .. MaxPools - Len(created) :
       created' = created \o [k \in 1 .. n |-> head + 1]
  /\ UNCHANGED <<file, pc, keep_running, lp_data, i, current_block, failures>>

(* SIGINT with the handler: keep_running stays FALSE for the files of all  *)
(* factories the process still visits.                                     *)
Signal ==
  /\ HandlerInstalled
  /\ pc # "idle"
  /\ keep_running' = FALSE
  /\ UNCHANGED <<head, created, file, pc, lp_data, i, current_block, failures>>

(* The process is killed, get_logs raises, or there is no handler.  A file *)
(* that open(..., "w") has truncated stays so.                             *)
Die ==
  /\ pc # "idle"
  /\ failures < MaxFailures
  /\ failures' = failures + 1
  /\ pc' = "idle"
  /\ lp_data' = <<>>
  /\ UNCHANGED <<head, created, file, keep_running, i, current_block>>

-----------------------------------------------------------------------------
(* One factory of main().                                                  *)

PreviousBlock(pools) ==
  IF pools = <<>> THEN FactoryBlock ELSE created[pools[Len(pools)]]

(* Load the file, if it exists, and ask for the chain's height.            *)
\* A faulty variant of FirstBlock.
SkipOne(pools) == PreviousBlock(pools) + 2
FirstBlock(pools) == PreviousBlock(pools) + 1

\* A faulty variant of Loaded.
LoadedAfterSignal == IF keep_running' THEN file.pools ELSE <<>>
Loaded == file.pools

StartFactory ==
  /\ pc = "idle"
  /\ file.state # "torn"    \* else ujson.load raises
  /\ keep_running' \in {TRUE, ~HandlerInstalled}
  /\ lp_data' = Loaded
  /\ i' = FirstBlock(file.pools)
  /\ current_block' = head
  /\ pc' = "scanning"
  /\ UNCHANGED <<head, created, file, failures>>

\* A faulty variant of EndBlock.
TwiceAsFar ==
  IF i + 2 * BlockSpan > current_block THEN current_block ELSE i + 2 * BlockSpan
EndBlock == IF i + BlockSpan > current_block THEN current_block ELSE i + BlockSpan

(* get_logs, in log order.                                                 *)
PoolsCreated(from, to) ==
  {k \in 1 .. Len(created) : from <= created[k] /\ created[k] <= to}
InLogOrder(pools) ==
  {logs \in [1 .. Cardinality(pools) -> pools] :
     /\ \A p \in pools : \E k \in DOMAIN logs : logs[k] = p
     /\ \A j, k \in DOMAIN logs : j < k => logs[j] < logs[k]}

(* One window: fetch, append, and open the file for writing.               *)
FetchWindow ==
  /\ pc = "scanning"
  /\ i <= current_block
  /\ keep_running
  /\ \E logs \in InLogOrder(PoolsCreated(i, EndBlock)) :
       lp_data' = lp_data \o logs
  /\ file' = Torn
  /\ pc' = "opened"
  /\ UNCHANGED <<head, created, keep_running, i, current_block, failures>>

\* A faulty variant of NextWindow.
SameWindow == i
NextWindow == i + BlockSpan
SaveWindow ==
  /\ pc = "opened"
  /\ file' = Saved(lp_data)
  /\ i' = NextWindow
  /\ pc' = "scanning"
  /\ UNCHANGED <<head, created, keep_running, lp_data, current_block, failures>>

(* The loop ends, or keep_running breaks it.                               *)
\* A faulty variant of EndRange.
EndRangeStopped ==
  /\ pc = "scanning"
  /\ i > current_block \/ ~keep_running
  /\ pc' = IF keep_running THEN "idle" ELSE "stopped"
  /\ UNCHANGED <<head, created, file, keep_running, lp_data, i, current_block,
                 failures>>
EndRange ==
  /\ pc = "scanning"
  /\ i > current_block \/ ~keep_running
  /\ pc' = IF keep_running THEN "idle" ELSE "stopping"
  /\ UNCHANGED <<head, created, file, keep_running, lp_data, i, current_block,
                 failures>>

OpenFinal ==
  /\ pc = "stopping"
  /\ file' = Torn
  /\ pc' = "final"
  /\ UNCHANGED <<head, created, keep_running, lp_data, i, current_block, failures>>

FinalSave ==
  /\ pc = "final"
  /\ file' = Saved(lp_data)
  /\ pc' = "idle"
  /\ UNCHANGED <<head, created, keep_running, lp_data, i, current_block, failures>>

Fetcher ==
  \/ FetchWindow
  \/ SaveWindow
  \/ EndRange
  \/ OpenFinal
  \/ FinalSave

Next == Fetcher \/ StartFactory \/ MineBlock \/ Signal \/ Die

Spec == Init /\ [][Next]_vars

(* A running process keeps running; nothing makes the user start it.       *)
FairSpec == Spec /\ WF_vars(Fetcher)

-----------------------------------------------------------------------------
(* The runs as a file: what open(..., "w") has truncated is being          *)
(* rewritten with the pools in memory, and lost once the process is dead.  *)
Writing == pc \in {"opened", "final"}

FileState ==
  CASE Writing -> "rewriting"
    [] ~Writing /\ file.state = "torn" -> "lost"
    [] OTHER -> file.state

PF == INSTANCE PoolFile WITH
        state <- FileState,
        pools <- IF Writing THEN lp_data ELSE file.pools

-----------------------------------------------------------------------------
(* Properties.                                                             *)

Listed(pools) == {pools[k] : k \in 1 .. Len(pools)}

(* The pools created after the factory's deployment, up to block b.        *)
CreatedUpTo(b) ==
  {k \in 1 .. Len(created) : FactoryBlock < created[k] /\ created[k] <= b}

(* The file holds every pool up to the block a later run resumes from, and *)
(* the memory every pool of the blocks already passed - wherever earlier   *)
(* runs were stopped or died.  No pool is skipped for good.                *)
NothingSkipped ==
  /\ CreatedUpTo(PreviousBlock(file.pools)) \subseteq Listed(file.pools)
  /\ pc = "scanning" =>
       CreatedUpTo(IF i > current_block THEN current_block ELSE i - 1)
         \subseteq Listed(lp_data)

(* The entries are in block order, so the last one has the newest block,   *)
(* which the next run relies on.                                           *)
InBlockOrder ==
  \A j, k \in 1 .. Len(file.pools) :
    j <= k => created[file.pools[j]] <= created[file.pools[k]]

(* Consecutive windows share a block, so a pool may be listed twice; but   *)
(* no sequence of stops, deaths and restarts lists it more often.          *)
AtMostTwice ==
  \A p \in Listed(file.pools) :
    \A a, b, c \in {k \in 1 .. Len(file.pools) : file.pools[k] = p} :
      a = b \/ b = c \/ a = c

(* The file is truncated only when the memory holds every pool it held:    *)
(* the windows, the final save and the saves of a process that was         *)
(* signalled before it came to this factory rewrite what they loaded.      *)
TruncatedWhenHeld ==
  [][file.state = "saved" /\ file'.state = "torn"
     => Listed(file.pools) \subseteq Listed(lp_data')]_vars

(* Whatever the windows, signals, deaths and restarts, the file of main()  *)
(* is only ever extended, to a list from which the next run can go on; no  *)
(* run rewrites it with less, and none starts on a file that was lost.     *)
ImplementsPoolFile == PF!Spec

(* A run comes to its end, with a signal or without.                       *)
EveryRunEnds == pc # "idle" ~> pc = "idle"
=============================================================================
