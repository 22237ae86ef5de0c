-------------------------- MODULE LiquidityFetcher --------------------------
(***************************************************************************)
(* The V3 liquidity fetcher (builders/liquidity_fetcher.py), for one chain *)
(* and its snapshot file.  It is started by hand, again and again: it      *)
(* loads the pools that lp_fetcher_v3 has listed and the snapshot, reads   *)
(* first the Mint, then the Burn logs since the snapshot's block in        *)
(* windows of adaptive size, replays them pool by pool in chain order, and *)
(* rewrites the snapshot.  get_logs may fail and the process may die.      *)
(*                                                                         *)
(* A pool's tick data is abstracted to the liquidity of one position.      *)
(* degenbot's external_update, external, refuses an update that is older   *)
(* than the helper; its liquidity check cannot fail here, as the helper's  *)
(* in-range liquidity is set to 1 << 256.                                  *)
(***************************************************************************)
EXTENDS Integers, Sequences, FiniteSets

CONSTANTS
  V3Pools,      \* addresses of V3 pools
  Known,        \* those in the pool files from the beginning
  None,
  StartBlock,   \* UNISWAPV3_START_BLOCK
  BlockSpan,    \* BLOCK_SPAN
  MaxBlock,     \* bound: the newest block
  MaxLogs,      \* bound: the liquidity logs on the chain
  MaxFailures   \* bound: failing get_logs calls and deaths

ASSUME KnownAssumption == Known \subseteq V3Pools /\ None \notin Int
ASSUME BlocksAssumption ==
  /\ StartBlock \in 0 .. MaxBlock /\ BlockSpan \in Nat
  /\ MaxBlock \in Nat /\ MaxLogs \in Nat /\ MaxFailures \in Nat

VARIABLES
  head,               \* the newest block
  logs,               \* the liquidity logs of all V3 pools, in chain order
  listed,             \* the pools in the files of lp_fetcher_v3
  file,               \* snapshot_file
  pc,                 \* where the process is
  newest_block, lp_data, snapshot_last_block, liquidity_snapshot,
  event,              \* the event being fetched
  start_block, block_span,
  liquidity_events,   \* the logs read so far, by their places in logs
  failures

chainVars == <<head, logs, listed>>
runVars == <<newest_block, lp_data, snapshot_last_block>>
fetchVars == <<event, start_block, block_span, liquidity_events>>
vars == <<chainVars, file, pc, runVars, liquidity_snapshot, fetchVars, failures>>

Event == [pool : V3Pools, kind : {"Mint", "Burn"}, block : Nat]

(* No entry for a pool is the same as an entry without any liquidity.      *)
Empty == [p \in V3Pools |-> 0]

Missing == [state |-> "missing", block |-> 0, liquidity |-> Empty]
Torn == [state |-> "torn", block |-> 0, liquidity |-> Empty]
Saved(block, liquidity) ==
  [state |-> "saved", block |-> block, liquidity |-> liquidity]

LqTypeOK ==
  /\ head \in StartBlock .. MaxBlock
  /\ logs \in Seq(Event)
  /\ listed \subseteq V3Pools /\ lp_data \subseteq V3Pools
  /\ file \in [state : {"missing", "torn", "saved"}, block : Nat,
               liquidity : [V3Pools -> Int]]
  /\ pc \in {"idle", "fetching", "applying", "writing", "refused"}
  /\ newest_block \in Nat
  /\ snapshot_last_block \in Nat \cup {None}
  /\ liquidity_snapshot \in [V3Pools -> Int]
  /\ event \in {"Mint", "Burn"}
  /\ start_block \in Nat /\ block_span \in Nat
  /\ liquidity_events \in Seq(1 .. Len(logs))
  /\ failures \in 0 .. MaxFailures

(* What the logs up to block b add up to for pool p.                       *)
LogsOf(p, kind, b) ==
  {k \in 1 .. Len(logs) : /\ logs[k].pool = p /\ logs[k].kind = kind
                          /\ logs[k].block <= b}
LiquidityAt(p, b) ==
  Cardinality(LogsOf(p, "Mint", b)) - Cardinality(LogsOf(p, "Burn", b))

Init ==
  /\ head = StartBlock
  /\ logs = <<>>
  /\ listed = Known
  /\ file = Missing
  /\ pc = "idle"
  /\ newest_block = 0
  /\ lp_data = {}
  /\ snapshot_last_block = None
  /\ liquidity_snapshot = Empty
  /\ event = "Mint"
  /\ start_block = 0
  /\ block_span = BlockSpan
  /\ liquidity_events = <<>>
  /\ failures = 0

-----------------------------------------------------------------------------
(* The chain, the pool fetcher and the machine.                            *)

(* A transaction of the open block changes the liquidity of a pool.        *)
LiquidityLog(p, kind) ==
  /\ head < MaxBlock
  /\ Len(logs) < MaxLogs
  /\ kind = "Burn" => LiquidityAt(p, head + 1) > 0
  /\ logs' = Append(logs, [pool |-> p, kind |-> kind, block |-> head + 1])
  /\ UNCHANGED <<head, listed, file, pc, runVars, liquidity_snapshot, fetchVars,
                 failures>>

MineBlock ==
  /\ head < MaxBlock
  /\ head' = head + 1
  /\ UNCHANGED <<logs, listed, file, pc, runVars, liquidity_snapshot, fetchVars,
                 failures>>

(* lp_fetcher_v3 lists a pool.                                             *)
ListPool(p) ==
  /\ p \notin listed
  /\ listed' = listed \cup {p}
  /\ UNCHANGED <<head, logs, file, pc, runVars, liquidity_snapshot, fetchVars,
                 failures>>

Die ==
  /\ pc \in {"fetching", "applying", "writing"}
  /\ failures < MaxFailures
  /\ failures' = failures + 1
  /\ pc' = "idle"
  /\ UNCHANGED <<chainVars, file, runVars, liquidity_snapshot, fetchVars>>

-----------------------------------------------------------------------------
(* The fetcher.                                                            *)

Later(a, b) == IF a > b THEN a ELSE b
Earlier(a, b) == IF a < b THEN a ELSE b

\* A faulty variant of FirstBlock.
FromLastBlock(last) == IF last = None THEN StartBlock ELSE Later(StartBlock, last)
FirstBlock(last) == IF last = None THEN StartBlock ELSE Later(StartBlock, last + 1)

(* A snapshot that cannot be read counts as none: everything is fetched    *)
(* again.  One that is not older than the chain fails the assertion.       *)
LastBlock == IF file.state = "saved" THEN file.block ELSE None

StartRun ==
  /\ pc = "idle"
  /\ LastBlock # None => LastBlock < head
  /\ newest_block' = head
  /\ lp_data' = listed
  /\ snapshot_last_block' = LastBlock
  /\ liquidity_snapshot' = file.liquidity
  /\ event' = "Mint"
  /\ start_block' = FirstBlock(LastBlock)
  /\ block_span' = BlockSpan
  /\ liquidity_events' = <<>>
  /\ pc' = "fetching"
  /\ UNCHANGED <<chainVars, file, failures>>

EndBlock == Earlier(newest_block, start_block + block_span)

(* get_logs, in log order.                                                 *)
EventLogs ==
  {k \in 1 .. Len(logs) : /\ logs[k].kind = event
                          /\ logs[k].block \in start_block .. EndBlock}
InLogOrder(places) ==
  {read \in [1 .. Cardinality(places) -> places] :
     /\ \A k \in places : \E i \in DOMAIN read : read[i] = k
     /\ \A i, j \in DOMAIN read : i < j => read[i] < read[j]}

(* int(0.75 * block_span) and int(1.05 * block_span).                      *)
\* A faulty variant of Shrunk.
ShrunkByTwo(span) == span - 2
Shrunk(span) == (3 * span) \div 4
Grown(span)  == (21 * span) \div 20

FetchFails ==
  /\ pc = "fetching"
  /\ failures < MaxFailures
  /\ failures' = failures + 1
  /\ block_span' = Shrunk(block_span)
  /\ UNCHANGED <<chainVars, file, pc, runVars, liquidity_snapshot, event,
                 start_block, liquidity_events>>

(* One window; after the newest block the Burn events, then the replay.    *)
\* A faulty variant of NextStart.
SameStart == start_block
NextStart == EndBlock + 1

FetchWindow ==
  /\ pc = "fetching"
  /\ \E read \in InLogOrder(EventLogs) :
       liquidity_events' = liquidity_events \o read
  /\ \/ /\ EndBlock # newest_block
        /\ start_block' = NextStart
        /\ block_span' = Grown(block_span)
        /\ UNCHANGED <<pc, event>>
     \/ /\ EndBlock = newest_block
        /\ event = "Mint"
        /\ event' = "Burn"
        /\ start_block' = FirstBlock(snapshot_last_block)
        /\ block_span' = BlockSpan
        /\ UNCHANGED pc
     \/ /\ EndBlock = newest_block
        /\ event = "Burn"
        /\ pc' = "applying"
        /\ UNCHANGED <<event, start_block, block_span>>
  /\ UNCHANGED <<chainVars, file, runVars, liquidity_snapshot, failures>>

EventsOf(p) ==
  {i \in 1 .. Len(liquidity_events) : logs[liquidity_events[i]].pool = p}
BlockOf(i) == logs[liquidity_events[i]].block

(* sorted by block; the order within a block makes no difference to a sum. *)
\* A faulty variant of ReplayedBefore.
AsFetched(i, j) == i < j
ReplayedBefore(i, j) ==
  \/ BlockOf(i) < BlockOf(j)
  \/ BlockOf(i) = BlockOf(j) /\ i < j

(* external_update raises for an event older than the helper, whose block  *)
(* starts as the snapshot's and follows the events.                        *)
Refused(p) ==
  \/ \E i \in EventsOf(p) :
       BlockOf(i) < IF snapshot_last_block = None THEN StartBlock
                                                  ELSE snapshot_last_block
  \/ \E i, j \in EventsOf(p) : ReplayedBefore(i, j) /\ BlockOf(j) < BlockOf(i)

(* The helper works on the dictionaries of the snapshot entry, so merging  *)
(* them afterwards leaves the replayed amount.                             *)
Replayed(p) ==
  LET of(kind) == {i \in EventsOf(p) : logs[liquidity_events[i]].kind = kind}
  IN liquidity_snapshot[p] + Cardinality(of("Mint")) - Cardinality(of("Burn"))

(* The replay skips the pools that are in no pool file.                    *)
\* A faulty variant of Skipped.
NeverSkipped(p) == FALSE
Skipped(p) == p \notin lp_data

(* Then the snapshot file is opened for writing.                           *)
ApplyEvents ==
  /\ pc = "applying"
  /\ IF \E p \in V3Pools : ~Skipped(p) /\ Refused(p)
     THEN pc' = "refused" /\ UNCHANGED <<file, liquidity_snapshot>>
     ELSE /\ pc' = "writing"
          /\ file' = Torn
          /\ liquidity_snapshot' =
               [p \in V3Pools |-> IF Skipped(p) THEN liquidity_snapshot[p]
                                                ELSE Replayed(p)]
  /\ UNCHANGED <<chainVars, runVars, fetchVars, failures>>

WriteSnapshot ==
  /\ pc = "writing"
  /\ file' = Saved(newest_block, liquidity_snapshot)
  /\ pc' = "idle"
  /\ UNCHANGED <<chainVars, runVars, liquidity_snapshot, fetchVars, failures>>

Fetcher == FetchFails \/ FetchWindow \/ ApplyEvents \/ WriteSnapshot

Next ==
  \/ StartRun
  \/ Fetcher
  \/ \E p \in V3Pools : ListPool(p) \/ \E k \in {"Mint", "Burn"} : LiquidityLog(p, k)
  \/ MineBlock
  \/ Die

Spec == Init /\ [][Next]_vars

(* A running process keeps running; nothing makes the user start it.       *)
FairSpec == Spec /\ WF_vars(Fetcher)

-----------------------------------------------------------------------------
(* The runs as a snapshot file: what open(..., "w") has truncated is being *)
(* rewritten, and lost once the process is dead.                           *)
FileState ==
  CASE pc = "writing" -> "rewriting"
    [] pc # "writing" /\ file.state = "torn" -> "lost"
    [] OTHER -> file.state

FileBlock ==
  CASE pc = "writing" -> newest_block
    [] pc # "writing" /\ file.state = "saved" -> file.block
    [] OTHER -> StartBlock

SF == INSTANCE SnapshotFile WITH
        state     <- FileState,
        block     <- FileBlock,
        liquidity <- IF pc = "writing" THEN liquidity_snapshot ELSE file.liquidity

-----------------------------------------------------------------------------
(* Properties.                                                             *)

(* The snapshot of a pool that has been in the pool files all along is its *)
(* liquidity on the chain at snapshot_block: no window is skipped or read  *)
(* twice, across failing get_logs calls, deaths, a truncated snapshot file *)
(* and any number of runs.                                                 *)
SnapshotExact ==
  file.state = "saved" =>
    \A p \in Known : file.liquidity[p] = LiquidityAt(p, file.block)

(* The replay order suits external_update: no run fails with an update     *)
(* that it refuses, although all Mint events are fetched before the first  *)
(* Burn event.                                                             *)
NeverRefused == pc # "refused"

(* Each rewrite of the snapshot brings every pool from the block of the    *)
(* last snapshot to its own, or leaves the pool alone because the files of *)
(* lp_fetcher_v3 do not list it, however often main() was run and died.    *)
ImplementsSnapshotFile == SF!Spec

(* A run comes to its end when get_logs fails only a finite number of      *)
(* times, even when the span has shrunk to zero.                           *)
EveryRunEnds == pc = "fetching" ~> pc = "idle"

(* README: "After you have V3 pools fetched, you can get liquidity data    *)
(* for them": the snapshot is exact for every pool that was listed when    *)
(* the run started.                                                        *)
ListedPoolsExact ==
  pc = "idle" /\ file.state = "saved" /\ file.block = newest_block =>
    \A p \in lp_data : file.liquidity[p] = LiquidityAt(p, file.block)
=============================================================================
