----------------------- MODULE LiquidityFetcherProofs -----------------------
(***************************************************************************)
(* The liquidity fetcher, for every set of pools, every chain and every    *)
(* span of the windows.  The argument: what a run has read is each log     *)
(* between the snapshot's block and the windows' ends, once (ReadLogs), so *)
(* the replay counts each of them once (CountedOnce) and the snapshot is   *)
(* that of the newest block.                                               *)
(***************************************************************************)
EXTENDS LiquidityFetcher, SequenceTheorems, FiniteSetTheorems, TLAPS

(* A sequence that lists the elements of a set once each.                  *)
Lists(s, S) ==
  /\ s \in Seq(S)
  /\ \A x \in S : \E i \in 1 .. Len(s) : s[i] = x
  /\ \A i, j \in 1 .. Len(s) : s[i] = s[j] => i = j

(* The block the snapshot of a run is of.                                  *)
Base == IF snapshot_last_block = None THEN StartBlock ELSE snapshot_last_block

(* The block up to which the logs of a kind have been read.                *)
UpTo(kind) ==
  IF pc = "applying" THEN newest_block
  ELSE IF kind = event THEN start_block - 1
  ELSE IF kind = "Mint" THEN newest_block
  ELSE FirstBlock(snapshot_last_block) - 1

ReadLogs ==
  {k \in 1 .. Len(logs) : Base < logs[k].block /\ logs[k].block <= UpTo(logs[k].kind)}

Exact(liquidity, b) == \A p \in Known : liquidity[p] = LiquidityAt(p, b)

ChainOK ==
  /\ Known \subseteq listed
  /\ \A k \in 1 .. Len(logs) : StartBlock < logs[k].block /\ logs[k].block <= head + 1

FileOK ==
  /\ file.state = "saved" =>
       file.block \in StartBlock .. head /\ Exact(file.liquidity, file.block)
  /\ file.state # "saved" => file.liquidity = Empty

RunOK ==
  /\ pc # "refused"
  /\ pc # "idle" => newest_block \in StartBlock .. head /\ Known \subseteq lp_data
  /\ pc \in {"fetching", "applying"} =>
       /\ Base \in StartBlock .. newest_block
       /\ snapshot_last_block # None => Base < newest_block
       /\ Exact(liquidity_snapshot, Base)
       /\ Lists(liquidity_events, ReadLogs)
  /\ pc = "fetching" => start_block \in FirstBlock(snapshot_last_block) .. newest_block
  /\ pc = "writing" => Exact(liquidity_snapshot, newest_block)

LqInv == LqTypeOK /\ ChainOK /\ FileOK /\ RunOK

-----------------------------------------------------------------------------
(* Lists.                                                                  *)

(* get_logs returns each log of the window once.                           *)
LEMMA WindowLists ==
  ASSUME NEW n \in Nat, NEW places \in SUBSET (1 .. n), NEW read \in InLogOrder(places)
  PROVE  Lists(read, places)
<1>1. Cardinality(places) \in Nat
  <2>1. IsFiniteSet(1 .. n)
    BY FS_Interval
  <2> QED
    BY <2>1, FS_Subset, FS_CardinalityType
<1>2. /\ read \in Seq(places) /\ Len(read) = Cardinality(places)
      /\ DOMAIN read = 1 .. Len(read)
  BY <1>1 DEF InLogOrder
<1>3. \A i \in 1 .. Len(read) : read[i] \in Nat
  <2>1. \A i \in 1 .. Len(read) : read[i] \in places
    BY <1>2, ElementOfSeq
  <2>2. places \subseteq Nat
    OBVIOUS
  <2> QED
    BY <2>1, <2>2
<1>4. \A i, j \in 1 .. Len(read) : i < j => read[i] < read[j]
  BY <1>2 DEF InLogOrder
<1>5. \A i, j \in 1 .. Len(read) : read[i] = read[j] => i = j
  <2> TAKE i, j \in 1 .. Len(read)
  <2>1. i < j \/ j < i \/ i = j
    BY <1>1, <1>2
  <2> QED
    BY <1>3, <1>4, <2>1
<1> QED
  BY <1>2, <1>5 DEF InLogOrder, Lists

(* Two lists without a common element form a list.                         *)
LEMMA ConcatLists ==
  ASSUME NEW S, NEW T, NEW s, NEW t, Lists(s, S), Lists(t, T), S \cap T = {}
  PROVE  Lists(s \o t, S \cup T)
<1>1. s \in Seq(S \cup T) /\ t \in Seq(S \cup T) /\ s \in Seq(S) /\ t \in Seq(T)
  BY SeqMonotonic DEF Lists
<1> DEFINE all == s \o t
           n == Len(s)
           m == Len(t)
<1>2. n \in Nat /\ m \in Nat
  BY <1>1
<1>3. /\ all \in Seq(S \cup T) /\ Len(all) = n + m
      /\ \A i \in 1 .. n + m : all[i] = IF i <= n THEN s[i] ELSE t[i - n]
  BY <1>1, ConcatProperties
<1> HIDE DEF all, n, m
<1>4. \A i \in 1 .. n : i \in 1 .. n + m /\ all[i] = s[i] /\ s[i] \in S
  BY <1>1, <1>2, <1>3 DEF n
<1>5. \A i \in 1 .. m : i + n \in 1 .. n + m /\ all[i + n] = t[i] /\ t[i] \in T
  <2> TAKE i \in 1 .. m
  <2>1. i + n \in 1 .. n + m /\ ~(i + n <= n) /\ (i + n) - n = i
    BY <1>2
  <2>2. t[i] \in T
    BY <1>1 DEF m
  <2> QED
    BY <1>3, <2>1, <2>2
<1>6. \A i \in 1 .. n + m : i \in 1 .. n \/ (\E k \in 1 .. m : i = k + n)
  <2> TAKE i \in 1 .. n + m
  <2>1. CASE i <= n
    BY <1>2, <2>1
  <2>2. CASE i > n
    <3>1. i - n \in 1 .. m /\ i = (i - n) + n
      BY <1>2, <2>2
    <3> QED
      BY <3>1
  <2> QED
    BY <1>2, <2>1, <2>2
<1>7. /\ \A x \in S : \E i \in 1 .. n : s[i] = x
      /\ \A x \in T : \E i \in 1 .. m : t[i] = x
      /\ \A i, j \in 1 .. n : s[i] = s[j] => i = j
      /\ \A i, j \in 1 .. m : t[i] = t[j] => i = j
  BY DEF Lists, n, m
<1>8. \A x \in S \cup T : \E i \in 1 .. Len(all) : all[i] = x
  BY <1>3, <1>4, <1>5, <1>7
<1>9. \A i, j \in 1 .. Len(all) : all[i] = all[j] => i = j
  <2> SUFFICES ASSUME NEW i \in 1 .. n + m, NEW j \in 1 .. n + m, all[i] = all[j]
               PROVE  i = j
    BY <1>3
  <2>1. CASE i \in 1 .. n /\ j \in 1 .. n
    BY <2>1, <1>4, <1>7
  <2>2. CASE i \in 1 .. n /\ j \notin 1 .. n
    BY <2>2, <1>4, <1>5, <1>6
  <2>3. CASE i \notin 1 .. n /\ j \in 1 .. n
    BY <2>3, <1>4, <1>5, <1>6
  <2>4. CASE i \notin 1 .. n /\ j \notin 1 .. n
    <3>1. PICK k \in 1 .. m : i = k + n
      BY <1>6, <2>4
    <3>2. PICK l \in 1 .. m : j = l + n
      BY <1>6, <2>4
    <3>3. t[k] = t[l]
      BY <1>5, <3>1, <3>2
    <3> QED
      BY <1>7, <3>1, <3>2, <3>3
  <2> QED
    BY <2>1, <2>2, <2>3, <2>4
<1> QED
  BY <1>3, <1>8, <1>9 DEF Lists, all

(* Counting the entries of a list is counting the elements.                *)
LEMMA CountedOnce ==
  ASSUME NEW S, NEW s, Lists(s, S), NEW Q \in SUBSET S,
         NEW I, I = {i \in 1 .. Len(s) : s[i] \in Q}
  PROVE  IsFiniteSet(I) /\ Cardinality(I) = Cardinality(Q)
<1> DEFINE f == [i \in I |-> s[i]]
<1>1. IsFiniteSet(I)
  <2>1. Len(s) \in Nat
    BY DEF Lists
  <2>2. IsFiniteSet(1 .. Len(s))
    BY <2>1, FS_Interval
  <2> QED
    BY <2>2, FS_Subset
<1>2. f \in Bijection(I, Q)
  <2>1. f \in [I -> Q]
    OBVIOUS
  <2>2. IsInjective(f)
    BY DEF Lists, IsInjective
  <2>3. \A x \in Q : \E i \in I : f[i] = x
    BY DEF Lists
  <2> QED
    BY <2>1, <2>2, <2>3 DEF Bijection, Injection, Surjection
<1>3. ExistsBijection(I, Q)
  BY <1>2 DEF ExistsBijection
<1> QED
  BY <1>1, <1>3, FS_Bijection

-----------------------------------------------------------------------------
(* The chain.                                                              *)

(* The types of what the lemmas below speak of.                            *)
LEMMA LogFields ==
  ASSUME LqInv, NEW k \in 1 .. Len(logs)
  PROVE  /\ logs[k].pool \in V3Pools /\ logs[k].kind \in {"Mint", "Burn"}
         /\ logs[k].block \in Nat
         /\ StartBlock < logs[k].block /\ logs[k].block <= head + 1
<1>1. logs[k] \in Event
  BY ElementOfSeq DEF LqInv, LqTypeOK
<1> QED
  BY <1>1 DEF Event, LqInv, ChainOK

LEMMA Blocks ==
  ASSUME LqInv
  PROVE  /\ StartBlock \in Nat /\ MaxBlock \in Nat /\ head \in Nat /\ StartBlock <= head
         /\ newest_block \in Nat /\ start_block \in Nat /\ block_span \in Nat
         /\ None \notin Int /\ Len(logs) \in Nat
         /\ snapshot_last_block # None => snapshot_last_block \in Nat
BY BlocksAssumption, KnownAssumption DEF LqInv, LqTypeOK

(* No log of an older block is ever added.                                 *)
LogsGrow ==
  \/ logs' = logs
  \/ \E r \in Event : r.block = head + 1 /\ logs' = Append(logs, r)

LEMMA SameHistory ==
  ASSUME LqInv, LogsGrow
  PROVE  /\ Len(logs') \in Nat /\ Len(logs) <= Len(logs')
         /\ \A k \in 1 .. Len(logs) : logs'[k] = logs[k]
         /\ \A k \in 1 .. Len(logs') : k \in 1 .. Len(logs) \/ logs'[k].block = head + 1
         /\ \A b \in Nat : b <= head =>
              \A p, kind : LogsOf(p, kind, b)' = LogsOf(p, kind, b)
         /\ \A b \in Nat : b <= head => \A p : LiquidityAt(p, b)' = LiquidityAt(p, b)
<1>0. logs \in Seq(Event) /\ Len(logs) \in Nat /\ head \in Nat
  BY Blocks DEF LqInv, LqTypeOK
<1>1. /\ Len(logs') \in Nat /\ Len(logs) <= Len(logs')
      /\ \A k \in 1 .. Len(logs) : logs'[k] = logs[k] /\ k \in 1 .. Len(logs')
      /\ \A k \in 1 .. Len(logs') : k \in 1 .. Len(logs) \/ logs'[k].block = head + 1
  <2>1. CASE logs' = logs
    BY <1>0, <2>1
  <2>2. ASSUME NEW r \in Event, r.block = head + 1, logs' = Append(logs, r)
        PROVE  /\ Len(logs') \in Nat /\ Len(logs) <= Len(logs')
               /\ \A k \in 1 .. Len(logs) : logs'[k] = logs[k] /\ k \in 1 .. Len(logs')
               /\ \A k \in 1 .. Len(logs') : k \in 1 .. Len(logs) \/ logs'[k].block = head + 1
    <3>1. Len(logs') = Len(logs) + 1 /\ logs'[Len(logs) + 1] = r
          /\ \A k \in 1 .. Len(logs) : logs'[k] = logs[k]
      BY <1>0, <2>2
    <3>2. \A k \in 1 .. Len(logs') : k \in 1 .. Len(logs) \/ k = Len(logs) + 1
      BY <1>0, <3>1
    <3> QED
      BY <1>0, <2>2, <3>1, <3>2
  <2> QED
    BY <2>1, <2>2 DEF LogsGrow
<1>2. ASSUME NEW b \in Nat, b <= head, NEW p, NEW kind
      PROVE  LogsOf(p, kind, b)' = LogsOf(p, kind, b)
  <2>1. \A k \in 1 .. Len(logs') : logs'[k].block <= b => k \in 1 .. Len(logs)
    BY <1>0, <1>1, <1>2
  <2> QED
    BY <1>1, <2>1 DEF LogsOf
<1>3. ASSUME NEW b \in Nat, b <= head, NEW p
      PROVE  LiquidityAt(p, b)' = LiquidityAt(p, b)
  BY <1>2, <1>3 DEF LiquidityAt
<1> QED
  BY <1>1, <1>2, <1>3

(* A step of the chain or of the pool fetcher disturbs no run.             *)
LEMMA ChainStep ==
  ASSUME LqInv, LogsGrow, head' \in head .. MaxBlock,
         listed \subseteq listed', listed' \subseteq V3Pools,
         UNCHANGED <<file, pc, runVars, liquidity_snapshot, fetchVars, failures>>
  PROVE  LqInv'
<1>0. /\ LqTypeOK /\ ChainOK /\ FileOK /\ RunOK
      /\ file' = file /\ pc' = pc /\ newest_block' = newest_block /\ lp_data' = lp_data
      /\ snapshot_last_block' = snapshot_last_block /\ event' = event
      /\ liquidity_snapshot' = liquidity_snapshot /\ start_block' = start_block
      /\ block_span' = block_span /\ liquidity_events' = liquidity_events
      /\ failures' = failures
  BY DEF LqInv, runVars, fetchVars
<1>1. /\ Len(logs') \in Nat /\ Len(logs) <= Len(logs')
      /\ \A k \in 1 .. Len(logs) : logs'[k] = logs[k]
      /\ \A k \in 1 .. Len(logs') : k \in 1 .. Len(logs) \/ logs'[k].block = head + 1
      /\ \A b \in Nat : b <= head => \A p : LiquidityAt(p, b)' = LiquidityAt(p, b)
  BY SameHistory
<1>2. /\ StartBlock \in Nat /\ MaxBlock \in Nat /\ head \in Nat /\ StartBlock <= head
      /\ newest_block \in Nat /\ start_block \in Nat
      /\ None \notin Int /\ Len(logs) \in Nat
      /\ snapshot_last_block # None => snapshot_last_block \in Nat
  BY Blocks
<1>3. head' \in Nat /\ head <= head' /\ head' <= MaxBlock
  BY <1>2
<1>4. LqTypeOK'
  <2>1. logs' \in Seq(Event)
    <3>1. logs \in Seq(Event)
      BY <1>0 DEF LqTypeOK
    <3>2. ASSUME NEW r \in Event, logs' = Append(logs, r) PROVE logs' \in Seq(Event)
      BY <3>1, <3>2, AppendProperties
    <3> QED
      BY <3>1, <3>2 DEF LogsGrow
  <2>2. liquidity_events' \in Seq(1 .. Len(logs'))
    <3>1. 1 .. Len(logs) \subseteq 1 .. Len(logs')
      BY <1>1, <1>2
    <3> QED
      BY <1>0, <3>1, SeqMonotonic DEF LqTypeOK
  <2> QED
    BY <1>0, <1>2, <1>3, <2>1, <2>2 DEF LqTypeOK
<1>5. ChainOK'
  <2>1. ASSUME NEW k \in 1 .. Len(logs')
        PROVE  StartBlock < logs'[k].block /\ logs'[k].block <= head' + 1
    <3>1. CASE k \in 1 .. Len(logs)
      <4>1. logs[k].block \in Nat /\ StartBlock < logs[k].block /\ logs[k].block <= head + 1
        BY <3>1, LogFields
      <4> QED
        BY <1>1, <1>2, <1>3, <3>1, <4>1
    <3>2. CASE k \notin 1 .. Len(logs)
      BY <1>1, <1>2, <1>3, <3>2
    <3> QED
      BY <3>1, <3>2
  <2> QED
    BY <1>0, <2>1 DEF ChainOK
<1>6. \A b \in Nat : \A l : b <= head /\ Exact(l, b) => Exact(l, b)'
  BY <1>1 DEF Exact
<1>7. FileOK'
  BY <1>0, <1>2, <1>3, <1>6 DEF FileOK
<1>8. RunOK'
  <2>1. pc # "idle" => newest_block \in Nat /\ newest_block <= head
    BY <1>0, <1>2 DEF RunOK
  <2>2. Base' = Base
    BY <1>0 DEF Base
  <2>3. \A kind : UpTo(kind)' = UpTo(kind)
    BY <1>0 DEF UpTo, FirstBlock, Later
  <2>4. pc \in {"fetching", "applying"} =>
          /\ Base \in Nat /\ Base <= head
          /\ UpTo("Mint") \in Int /\ UpTo("Mint") <= head
          /\ UpTo("Burn") \in Int /\ UpTo("Burn") <= head
    <3> SUFFICES ASSUME pc \in {"fetching", "applying"}
                 PROVE  /\ Base \in Nat /\ Base <= head
                        /\ UpTo("Mint") \in Int /\ UpTo("Mint") <= head
                        /\ UpTo("Burn") \in Int /\ UpTo("Burn") <= head
      OBVIOUS
    <3>1. Base \in StartBlock .. newest_block
      BY <1>0 DEF RunOK
    <3>2. FirstBlock(snapshot_last_block) \in Int /\ FirstBlock(snapshot_last_block) - 1 <= newest_block
      BY <1>2, <3>1 DEF FirstBlock, Later, Base
    <3>3. pc = "fetching" => start_block - 1 <= newest_block
      BY <1>0, <1>2, <3>2 DEF RunOK
    <3> QED
      BY <1>2, <2>1, <3>1, <3>2, <3>3 DEF UpTo
  <2>5. pc \in {"fetching", "applying"} => ReadLogs' = ReadLogs
    <3> SUFFICES ASSUME pc \in {"fetching", "applying"} PROVE ReadLogs' = ReadLogs
      OBVIOUS
    <3>1. ReadLogs \subseteq ReadLogs'
      <4> SUFFICES ASSUME NEW k \in ReadLogs PROVE k \in ReadLogs'
        OBVIOUS
      <4>1. k \in 1 .. Len(logs) /\ Base < logs[k].block /\ logs[k].block <= UpTo(logs[k].kind)
        BY DEF ReadLogs
      <4>2. logs'[k] = logs[k] /\ k \in 1 .. Len(logs')
        BY <1>1, <1>2, <4>1
      <4> QED
        BY <2>2, <2>3, <4>1, <4>2 DEF ReadLogs
    <3>2. ReadLogs' \subseteq ReadLogs
      <4> SUFFICES ASSUME NEW k \in ReadLogs' PROVE k \in ReadLogs
        OBVIOUS
      <4>1. /\ k \in 1 .. Len(logs') /\ Base < logs'[k].block
            /\ logs'[k].block <= UpTo(logs'[k].kind)
        BY <2>2, <2>3 DEF ReadLogs
      <4>2. k \in 1 .. Len(logs)
        <5> SUFFICES ASSUME k \notin 1 .. Len(logs) PROVE FALSE
          OBVIOUS
        <5>1. logs'[k].block = head + 1
          BY <1>1, <4>1
        <5>2. logs'[k].kind \in {"Mint", "Burn"}
          <6>1. logs' \in Seq(Event)
            BY <1>4 DEF LqTypeOK
          <6>2. logs'[k] \in Event
            BY <4>1, <6>1, ElementOfSeq
          <6> QED
            BY <6>2 DEF Event
        <5> QED
          BY <1>2, <2>4, <4>1, <5>1, <5>2
      <4> QED
        BY <1>1, <4>1, <4>2 DEF ReadLogs
    <3> QED
      BY <3>1, <3>2
  <2>6. pc # "idle" => newest_block \in StartBlock .. head' /\ Known \subseteq lp_data
    BY <1>0, <1>2, <1>3 DEF RunOK
  <2>7. pc \in {"fetching", "applying"} => Exact(liquidity_snapshot, Base)'
    BY <1>0, <1>6, <2>2, <2>4 DEF RunOK
  <2>8. pc = "writing" => Exact(liquidity_snapshot, newest_block)'
    BY <1>0, <1>6, <2>1 DEF RunOK
  <2>9. FirstBlock(snapshot_last_block)' = FirstBlock(snapshot_last_block)
    BY <1>0 DEF FirstBlock, Later
  <2> QED
    BY <1>0, <2>2, <2>5, <2>6, <2>7, <2>8, <2>9 DEF RunOK
<1> QED
  BY <1>4, <1>5, <1>7, <1>8 DEF LqInv

LEMMA LogStep ==
  ASSUME LqInv, NEW p \in V3Pools, NEW kind \in {"Mint", "Burn"}, LiquidityLog(p, kind)
  PROVE  LqInv'
<1> DEFINE r == [pool |-> p, kind |-> kind, block |-> head + 1]
<1>1. head \in Nat /\ head \in StartBlock .. MaxBlock /\ head \in head .. MaxBlock
  BY Blocks DEF LqInv, LqTypeOK
<1>2. r \in Event /\ r.block = head + 1 /\ logs' = Append(logs, r)
  BY <1>1 DEF Event, LiquidityLog
<1>3. LogsGrow
  BY <1>2 DEF LogsGrow
<1> QED
  BY <1>1, <1>3, ChainStep DEF LiquidityLog, LqInv, LqTypeOK

LEMMA MineStep == LqInv /\ MineBlock => LqInv'
<1> SUFFICES ASSUME LqInv, MineBlock PROVE LqInv'
  OBVIOUS
<1>1. head' \in head .. MaxBlock
  BY Blocks DEF MineBlock
<1>2. LogsGrow
  BY DEF LogsGrow, MineBlock
<1> QED
  BY <1>1, <1>2, ChainStep DEF MineBlock, LqInv, LqTypeOK

LEMMA ListStep == ASSUME LqInv, NEW p \in V3Pools, ListPool(p) PROVE LqInv'
<1>1. head' \in head .. MaxBlock
  BY Blocks DEF ListPool, LqInv, LqTypeOK
<1>2. LogsGrow
  BY DEF LogsGrow, ListPool
<1> QED
  BY <1>1, <1>2, ChainStep DEF ListPool, LqInv, LqTypeOK

-----------------------------------------------------------------------------
(* The fetcher.                                                            *)

(* When nothing that was read or saved concerns the step.                  *)
LEMMA SameExact ==
  ASSUME UNCHANGED logs
  PROVE  /\ \A p, kind, b : LogsOf(p, kind, b)' = LogsOf(p, kind, b)
         /\ \A l, b : Exact(l, b)' = Exact(l, b)
<1>1. \A p, kind, b : LogsOf(p, kind, b)' = LogsOf(p, kind, b)
  BY DEF LogsOf
<1>2. \A p, b : LiquidityAt(p, b)' = LiquidityAt(p, b)
  BY <1>1 DEF LiquidityAt
<1> QED
  BY <1>1, <1>2 DEF Exact

LEMMA FileParts ==
  ASSUME LqInv
  PROVE  /\ file.state \in {"missing", "torn", "saved"}
         /\ file.block \in Nat /\ file.liquidity \in [V3Pools -> Int]
BY DEF LqInv, LqTypeOK

(* Without a snapshot nothing is known, and nothing happened before        *)
(* UNISWAPV3_START_BLOCK.                                                  *)
LEMMA EmptyExact == LqInv => Exact(Empty, StartBlock)
<1> SUFFICES ASSUME LqInv, NEW p \in Known PROVE Empty[p] = LiquidityAt(p, StartBlock)
  BY DEF Exact
<1>1. \A kind : LogsOf(p, kind, StartBlock) = {}
  <2> SUFFICES ASSUME NEW k \in 1 .. Len(logs), logs[k].block <= StartBlock PROVE FALSE
    BY DEF LogsOf
  <2> QED
    BY LogFields, Blocks
<1>2. LiquidityAt(p, StartBlock) = 0
  BY <1>1, FS_EmptySet DEF LiquidityAt
<1> QED
  BY <1>2, KnownAssumption DEF Empty

LEMMA StartStep == LqInv /\ StartRun => LqInv'
<1> SUFFICES ASSUME LqInv, StartRun PROVE LqInv'
  OBVIOUS
<1>0. /\ LqTypeOK /\ ChainOK /\ FileOK /\ RunOK
      /\ head' = head /\ logs' = logs /\ listed' = listed /\ file' = file
      /\ failures' = failures /\ pc' = "fetching"
      /\ newest_block' = head /\ lp_data' = listed
      /\ snapshot_last_block' = LastBlock
      /\ liquidity_snapshot' = file.liquidity /\ event' = "Mint"
      /\ start_block' = FirstBlock(LastBlock)
      /\ block_span' = BlockSpan /\ liquidity_events' = <<>>
      /\ LastBlock # None => LastBlock < head
  BY DEF LqInv, StartRun, chainVars
<1>1. /\ StartBlock \in Nat /\ MaxBlock \in Nat /\ head \in Nat /\ StartBlock <= head
      /\ None \notin Int /\ BlockSpan \in Nat
  BY Blocks, BlocksAssumption
<1>2. /\ file.state \in {"missing", "torn", "saved"}
      /\ file.block \in Nat /\ file.liquidity \in [V3Pools -> Int]
  BY FileParts
<1>3. \/ LastBlock = None /\ file.state # "saved"
      \/ /\ LastBlock = file.block /\ LastBlock \in Nat /\ LastBlock # None
         /\ file.state = "saved" /\ StartBlock <= LastBlock /\ LastBlock < head
  BY <1>0, <1>1, <1>2 DEF LastBlock, FileOK
<1>4. /\ FirstBlock(LastBlock) \in Nat /\ FirstBlock(LastBlock) <= head
      /\ LastBlock # None => FirstBlock(LastBlock) = LastBlock + 1
      /\ LastBlock = None => FirstBlock(LastBlock) = StartBlock
  BY <1>1, <1>3 DEF FirstBlock, Later
<1>5. /\ Base' = IF LastBlock = None THEN StartBlock ELSE LastBlock
      /\ \A kind : UpTo(kind)' = FirstBlock(LastBlock) - 1
  <2>1. FirstBlock(snapshot_last_block)' = FirstBlock(LastBlock)
    BY <1>0 DEF FirstBlock, Later
  <2> QED
    BY <1>0, <2>1 DEF Base, UpTo
<1>6. LqTypeOK'
  <2>1. <<>> \in Seq(1 .. Len(logs))
    BY EmptySeq
  <2> QED
    BY <1>0, <1>1, <1>2, <1>3, <1>4, <2>1 DEF LqTypeOK
<1>7. ChainOK'
  BY <1>0 DEF ChainOK
<1>8. FileOK'
  BY <1>0, SameExact DEF FileOK
<1>9. RunOK'
  <2>1. Exact(liquidity_snapshot, Base)'
    <3>1. Exact(file.liquidity, Base')
      <4>1. CASE LastBlock = None
        BY <1>0, <1>3, <1>5, <4>1, EmptyExact DEF FileOK
      <4>2. CASE LastBlock # None
        BY <1>0, <1>3, <1>5, <4>2 DEF FileOK
      <4> QED
        BY <4>1, <4>2
    <3> QED
      BY <1>0, <3>1, SameExact
  <2>2. ReadLogs' = {}
    <3> SUFFICES ASSUME NEW k \in 1 .. Len(logs), Base' < logs[k].block,
                        logs[k].block <= FirstBlock(LastBlock) - 1
                 PROVE  FALSE
      BY <1>0, <1>5 DEF ReadLogs
    <3>1. logs[k].block \in Nat
      BY LogFields
    <3> QED
      BY <1>1, <1>3, <1>4, <1>5, <3>1
  <2>3. Lists(<<>>, {})
    BY EmptySeq DEF Lists
  <2>4. Base' \in StartBlock .. head /\ (LastBlock # None => Base' < head)
    BY <1>1, <1>3, <1>5
  <2>5. FirstBlock(snapshot_last_block)' = FirstBlock(LastBlock)
    BY <1>0 DEF FirstBlock, Later
  <2>6. FirstBlock(LastBlock) \in FirstBlock(LastBlock) .. head
    BY <1>1, <1>4
  <2>7. newest_block' \in StartBlock .. head' /\ Known \subseteq lp_data'
    BY <1>0, <1>1 DEF ChainOK
  <2> QED
    BY <1>0, <2>1, <2>2, <2>3, <2>4, <2>5, <2>6, <2>7 DEF RunOK
<1> QED
  BY <1>6, <1>7, <1>8, <1>9 DEF LqInv

(* A window that is read again reads nothing twice: only the span changes. *)
LEMMA FailStep == LqInv /\ FetchFails => LqInv'
<1> SUFFICES ASSUME LqInv, FetchFails PROVE LqInv'
  OBVIOUS
<1>0. /\ LqTypeOK /\ ChainOK /\ FileOK /\ RunOK
      /\ head' = head /\ logs' = logs /\ listed' = listed /\ file' = file
      /\ failures < MaxFailures /\ failures' = failures + 1 /\ pc' = pc
      /\ newest_block' = newest_block /\ lp_data' = lp_data
      /\ snapshot_last_block' = snapshot_last_block
      /\ liquidity_snapshot' = liquidity_snapshot /\ event' = event
      /\ start_block' = start_block /\ block_span' = Shrunk(block_span)
      /\ liquidity_events' = liquidity_events
  BY DEF LqInv, FetchFails, chainVars, runVars
<1>1. Shrunk(block_span) \in Nat /\ failures' \in 0 .. MaxFailures
  BY <1>0, BlocksAssumption DEF LqTypeOK, Shrunk
<1>2. LqTypeOK'
  BY <1>0, <1>1 DEF LqTypeOK
<1>3. Base' = Base /\ ReadLogs' = ReadLogs
      /\ FirstBlock(snapshot_last_block)' = FirstBlock(snapshot_last_block)
  BY <1>0 DEF Base, ReadLogs, UpTo, FirstBlock, Later
<1>4. ChainOK' /\ FileOK'
  BY <1>0, SameExact DEF ChainOK, FileOK
<1>5. RunOK'
  BY <1>0, <1>3, SameExact DEF RunOK
<1> QED
  BY <1>2, <1>4, <1>5 DEF LqInv

(* The windows of one event join without a gap and without an overlap.     *)
LEMMA FetchStep == LqInv /\ FetchWindow => LqInv'
<1> SUFFICES ASSUME LqInv, FetchWindow PROVE LqInv'
  OBVIOUS
<1>0. /\ LqTypeOK /\ ChainOK /\ FileOK /\ RunOK /\ pc = "fetching"
      /\ head' = head /\ logs' = logs /\ listed' = listed /\ file' = file
      /\ failures' = failures /\ newest_block' = newest_block /\ lp_data' = lp_data
      /\ snapshot_last_block' = snapshot_last_block
      /\ liquidity_snapshot' = liquidity_snapshot
      /\ event \in {"Mint", "Burn"}
  BY DEF LqInv, LqTypeOK, FetchWindow, chainVars, runVars
<1> DEFINE F == FirstBlock(snapshot_last_block)
<1>1. /\ StartBlock \in Nat /\ head \in Nat /\ newest_block \in Nat
      /\ start_block \in Nat /\ block_span \in Nat /\ BlockSpan \in Nat
      /\ None \notin Int /\ Len(logs) \in Nat
      /\ snapshot_last_block # None => snapshot_last_block \in Nat
      /\ Base \in StartBlock .. newest_block /\ Base \in Nat
      /\ snapshot_last_block # None => Base < newest_block
      /\ Exact(liquidity_snapshot, Base) /\ Lists(liquidity_events, ReadLogs)
      /\ start_block \in F .. newest_block
      /\ newest_block \in StartBlock .. head /\ Known \subseteq lp_data
  BY <1>0, Blocks, BlocksAssumption DEF RunOK
<1>2. /\ F \in Nat /\ StartBlock <= F /\ F <= newest_block
      /\ F = Base + 1 \/ (F = StartBlock /\ Base = StartBlock)
  BY <1>1 DEF FirstBlock, Later, Base
<1>3. EndBlock \in start_block .. newest_block /\ EndBlock \in Nat
  BY <1>1, <1>2 DEF EndBlock, Earlier
<1>4. F' = F /\ Base' = Base
  BY <1>0 DEF FirstBlock, Later, Base
<1>5. UpTo(event) = start_block - 1
  BY <1>0 DEF UpTo
<1> HIDE DEF F
<1>6. PICK read \in InLogOrder(EventLogs) : liquidity_events' = liquidity_events \o read
  BY DEF FetchWindow
<1>7. Lists(read, EventLogs)
  BY <1>1, WindowLists DEF EventLogs
<1>8. ReadLogs \cap EventLogs = {}
  <2> SUFFICES ASSUME NEW k \in 1 .. Len(logs), logs[k].kind = event,
                      start_block <= logs[k].block, logs[k].block <= start_block - 1
               PROVE  FALSE
    BY <1>1, <1>3, <1>5 DEF ReadLogs, EventLogs
  <2>1. logs[k].block \in Nat
    BY LogFields
  <2> QED
    BY <1>1, <2>1
<1>9. /\ start_block' \in Nat /\ block_span' \in Nat /\ event' \in {"Mint", "Burn"}
      /\ pc' = "fetching" => start_block' \in F .. newest_block
      /\ pc' \in {"fetching", "applying"}
      /\ \A kind \in {"Mint", "Burn"} :
           UpTo(kind)' = IF kind = event THEN EndBlock ELSE UpTo(kind)
  <2>1. CASE /\ EndBlock # newest_block /\ start_block' = NextStart
             /\ block_span' = Grown(block_span) /\ UNCHANGED <<pc, event>>
    <3>1. start_block' = EndBlock + 1 /\ start_block' \in Nat
          /\ start_block' \in F .. newest_block
      BY <1>1, <1>2, <1>3, <2>1 DEF NextStart
    <3>2. block_span' \in Nat
      BY <1>1, <2>1 DEF Grown
    <3>3. start_block' - 1 = EndBlock
      BY <1>3, <3>1
    <3> QED
      BY <1>0, <1>4, <2>1, <3>1, <3>2, <3>3 DEF UpTo, F
  <2>2. CASE /\ EndBlock = newest_block /\ event = "Mint" /\ event' = "Burn"
             /\ start_block' = F /\ block_span' = BlockSpan /\ UNCHANGED pc
    <3>1. F \in F .. newest_block
      BY <1>1, <1>2
    <3> QED
      BY <1>0, <1>1, <1>2, <1>4, <2>2, <3>1 DEF UpTo, F
  <2>3. CASE /\ EndBlock = newest_block /\ event = "Burn" /\ pc' = "applying"
             /\ UNCHANGED <<event, start_block, block_span>>
    BY <1>0, <1>1, <1>4, <2>3 DEF UpTo, F
  <2> QED
    BY <2>1, <2>2, <2>3 DEF FetchWindow, F
<1>10. ReadLogs' = ReadLogs \cup EventLogs
  <2>1. ASSUME NEW k \in 1 .. Len(logs)
        PROVE  k \in ReadLogs' <=> k \in ReadLogs \/ k \in EventLogs
    <3>0. logs[k].kind \in {"Mint", "Burn"}
      BY LogFields
    <3>1. PICK kind \in {"Mint", "Burn"} : logs[k].kind = kind
      BY <3>0
    <3>2. k \in ReadLogs' <=> Base < logs[k].block /\ logs[k].block <= UpTo(kind)'
      BY <1>0, <1>4, <3>1 DEF ReadLogs, UpTo
    <3>3. k \in ReadLogs <=> Base < logs[k].block /\ logs[k].block <= UpTo(kind)
      BY <3>1 DEF ReadLogs
    <3>7. logs[k].block \in Nat /\ StartBlock < logs[k].block
      BY LogFields
    <3>4. k \in EventLogs <=> /\ kind = event
                              /\ start_block <= logs[k].block /\ logs[k].block <= EndBlock
      BY <1>1, <1>3, <3>1, <3>7 DEF EventLogs
    <3>5. CASE kind # event
      <4>1. UpTo(kind)' = UpTo(kind)
        BY <1>9, <3>5
      <4> QED
        BY <3>2, <3>3, <3>4, <3>5, <4>1
    <3>6. CASE kind = event
      <4>1. UpTo(kind)' = EndBlock /\ UpTo(kind) = start_block - 1
        BY <1>5, <1>9, <3>6
      <4>2. start_block <= logs[k].block => Base < logs[k].block
        BY <1>1, <1>2, <3>7
      <4>3. logs[k].block <= start_block - 1 => logs[k].block <= EndBlock
        BY <1>1, <1>3, <3>7
      <4>4. logs[k].block <= start_block - 1 \/ start_block <= logs[k].block
        BY <1>1, <3>7
      <4> QED
        BY <3>2, <3>3, <3>4, <3>6, <4>1, <4>2, <4>3, <4>4
    <3> QED
      BY <3>5, <3>6
  <2>2. ReadLogs' \subseteq 1 .. Len(logs) /\ ReadLogs \subseteq 1 .. Len(logs)
        /\ EventLogs \subseteq 1 .. Len(logs)
    BY <1>0 DEF ReadLogs, EventLogs
  <2> QED
    BY <2>1, <2>2
<1>11. Lists(liquidity_events', ReadLogs')
  BY <1>1, <1>6, <1>7, <1>8, <1>10, ConcatLists
<1>12. LqTypeOK'
  <2>1. liquidity_events' \in Seq(1 .. Len(logs))
    <3>1. ReadLogs' \subseteq 1 .. Len(logs)
      BY <1>0 DEF ReadLogs
    <3> QED
      BY <1>11, <3>1, SeqMonotonic DEF Lists
  <2> QED
    BY <1>0, <1>9, <2>1 DEF LqTypeOK
<1>13. ChainOK' /\ FileOK'
  BY <1>0, SameExact DEF ChainOK, FileOK
<1>14. RunOK'
  <2>1. Exact(liquidity_snapshot, Base)'
    BY <1>0, <1>1, <1>4, SameExact
  <2> QED
    BY <1>0, <1>1, <1>4, <1>9, <1>11, <2>1 DEF RunOK, F
<1> QED
  BY <1>12, <1>13, <1>14 DEF LqInv

-----------------------------------------------------------------------------
(* The replay.                                                             *)

(* What was read of a pool and a kind is what happened after the snapshot. *)
LEMMA ReplayCounts ==
  ASSUME LqInv, pc = "applying", NEW p, NEW kind \in {"Mint", "Burn"}
  PROVE  LET of == {i \in EventsOf(p) : logs[liquidity_events[i]].kind = kind}
         IN /\ IsFiniteSet(of)
            /\ Cardinality(LogsOf(p, kind, newest_block))
                 = Cardinality(LogsOf(p, kind, Base)) + Cardinality(of)
            /\ Cardinality(LogsOf(p, kind, Base)) \in Nat /\ Cardinality(of) \in Nat
<1> DEFINE of == {i \in EventsOf(p) : logs[liquidity_events[i]].kind = kind}
           Q == {k \in ReadLogs : logs[k].pool = p /\ logs[k].kind = kind}
           old == LogsOf(p, kind, Base)
<1>1. /\ Lists(liquidity_events, ReadLogs) /\ Base \in StartBlock .. newest_block
      /\ StartBlock \in Nat /\ newest_block \in Nat /\ Len(logs) \in Nat
      /\ Base \in Nat /\ Base <= newest_block
  BY Blocks DEF LqInv, RunOK
<1>2. of = {i \in 1 .. Len(liquidity_events) : liquidity_events[i] \in Q}
  <2>1. \A i \in 1 .. Len(liquidity_events) : liquidity_events[i] \in ReadLogs
    BY <1>1, ElementOfSeq DEF Lists
  <2> QED
    BY <2>1 DEF EventsOf
<1>3. IsFiniteSet(of) /\ Cardinality(of) = Cardinality(Q)
  <2>1. Q \in SUBSET ReadLogs
    OBVIOUS
  <2>2. Lists(liquidity_events, ReadLogs)
    BY <1>1
  <2>3. \A I : I = {i \in 1 .. Len(liquidity_events) : liquidity_events[i] \in Q}
               => IsFiniteSet(I) /\ Cardinality(I) = Cardinality(Q)
    <3> HIDE DEF Q
    <3> QED
      BY <2>1, <2>2, CountedOnce
  <2> HIDE DEF Q, of
  <2> QED
    BY <1>2, <2>3
<1>4. \A k \in ReadLogs : Base < logs[k].block /\ logs[k].block <= newest_block
  BY DEF ReadLogs, UpTo
<1>5. LogsOf(p, kind, newest_block) = old \cup Q
  <2>1. ASSUME NEW k \in 1 .. Len(logs)
        PROVE  /\ k \in ReadLogs <=> Base < logs[k].block /\ logs[k].block <= newest_block
               /\ logs[k].block <= Base => logs[k].block <= newest_block
               /\ logs[k].block <= Base \/ Base < logs[k].block
    <3>1. logs[k].block \in Nat
      BY LogFields
    <3> QED
      BY <1>1, <3>1 DEF ReadLogs, UpTo
  <2>2. ReadLogs \subseteq 1 .. Len(logs)
    BY DEF ReadLogs
  <2> QED
    BY <2>1, <2>2 DEF LogsOf
<1>6. old \cap Q = {}
  <2> SUFFICES ASSUME NEW k \in ReadLogs, logs[k].block <= Base PROVE FALSE
    BY DEF LogsOf
  <2>1. k \in 1 .. Len(logs)
    BY DEF ReadLogs
  <2>2. logs[k].block \in Nat
    BY <2>1, LogFields
  <2> QED
    BY <1>1, <1>4, <2>2
<1>7. IsFiniteSet(old) /\ IsFiniteSet(Q)
  <2>1. IsFiniteSet(1 .. Len(logs))
    BY <1>1, FS_Interval
  <2>2. old \in SUBSET (1 .. Len(logs)) /\ Q \in SUBSET (1 .. Len(logs))
    BY DEF LogsOf, ReadLogs
  <2> QED
    BY <2>1, <2>2, FS_Subset
<1>8. Cardinality(old) \in Nat /\ Cardinality(Q) \in Nat
  BY <1>7, FS_CardinalityType
<1> HIDE DEF old, Q, of
<1>9. Cardinality(old \cup Q) = Cardinality(old) + Cardinality(Q)
  <2>1. Cardinality(old \cup Q) = Cardinality(old) + Cardinality(Q) - Cardinality({})
    BY <1>6, <1>7, FS_Union
  <2> QED
    BY <1>8, <2>1, FS_EmptySet
<1>10. /\ IsFiniteSet(of)
       /\ Cardinality(LogsOf(p, kind, newest_block)) = Cardinality(old) + Cardinality(of)
       /\ Cardinality(old) \in Nat /\ Cardinality(of) \in Nat
  BY <1>3, <1>5, <1>8, <1>9
<1> QED
  BY <1>10 DEF of, old

LEMMA ApplyStep == LqInv /\ ApplyEvents => LqInv'
<1> SUFFICES ASSUME LqInv, ApplyEvents PROVE LqInv'
  OBVIOUS
<1>0. /\ LqTypeOK /\ ChainOK /\ FileOK /\ RunOK /\ pc = "applying"
      /\ head' = head /\ logs' = logs /\ listed' = listed
      /\ failures' = failures /\ newest_block' = newest_block /\ lp_data' = lp_data
      /\ snapshot_last_block' = snapshot_last_block
      /\ event' = event /\ start_block' = start_block /\ block_span' = block_span
      /\ liquidity_events' = liquidity_events
  BY DEF LqInv, ApplyEvents, chainVars, runVars, fetchVars
<1>1. /\ StartBlock \in Nat /\ newest_block \in Nat /\ None \notin Int
      /\ Base \in StartBlock .. newest_block /\ Base \in Nat
      /\ Exact(liquidity_snapshot, Base) /\ Lists(liquidity_events, ReadLogs)
      /\ newest_block \in StartBlock .. head /\ Known \subseteq lp_data
  BY <1>0, Blocks DEF RunOK
<1>2. ASSUME NEW p PROVE ~Refused(p)
  <2>1. ASSUME NEW i \in EventsOf(p) PROVE BlockOf(i) \in Nat /\ Base < BlockOf(i)
    <3>1. i \in 1 .. Len(liquidity_events)
      BY DEF EventsOf
    <3>2. liquidity_events[i] \in ReadLogs
      BY <1>1, <3>1, ElementOfSeq DEF Lists
    <3> QED
      BY <3>2, LogFields DEF ReadLogs, BlockOf
  <2>2. ASSUME NEW i \in EventsOf(p) PROVE ~(BlockOf(i) < Base)
    BY <1>1, <2>1
  <2>3. ASSUME NEW i \in EventsOf(p), NEW j \in EventsOf(p), ReplayedBefore(i, j)
        PROVE  ~(BlockOf(j) < BlockOf(i))
    BY <2>1, <2>3 DEF ReplayedBefore
  <2> QED
    BY <2>2, <2>3 DEF Refused, Base
<1>3. /\ pc' = "writing" /\ file' = Torn
      /\ liquidity_snapshot' = [p \in V3Pools |-> IF p \in lp_data THEN Replayed(p)
                                                  ELSE liquidity_snapshot[p]]
  BY <1>2 DEF ApplyEvents, Skipped
<1>4. ASSUME NEW p \in V3Pools
      PROVE  /\ Replayed(p) \in Int
             /\ Replayed(p) = liquidity_snapshot[p]
                                + (LiquidityAt(p, newest_block) - LiquidityAt(p, Base))
             /\ LiquidityAt(p, Base) \in Int /\ LiquidityAt(p, newest_block) \in Int
  <2> DEFINE of(kind) == {i \in EventsOf(p) : logs[liquidity_events[i]].kind = kind}
             c(kind) == Cardinality(of(kind))
             a(kind, b) == Cardinality(LogsOf(p, kind, b))
  <2>1. \A kind \in {"Mint", "Burn"} :
          /\ a(kind, newest_block) = a(kind, Base) + c(kind)
          /\ a(kind, Base) \in Nat /\ c(kind) \in Nat
    BY <1>0, ReplayCounts
  <2>2. Replayed(p) = liquidity_snapshot[p] + c("Mint") - c("Burn")
    BY DEF Replayed
  <2>3. \A b : LiquidityAt(p, b) = a("Mint", b) - a("Burn", b)
    BY DEF LiquidityAt
  <2>4. liquidity_snapshot[p] \in Int
    BY <1>0 DEF LqTypeOK
  <2> HIDE DEF c, a, of
  <2> QED
    BY <2>1, <2>2, <2>3, <2>4
<1>5. \A p \in Known : liquidity_snapshot'[p] = LiquidityAt(p, newest_block)
  <2> TAKE p \in Known
  <2>1. p \in V3Pools /\ p \in lp_data /\ liquidity_snapshot[p] = LiquidityAt(p, Base)
    BY <1>1, KnownAssumption DEF Exact
  <2>2. liquidity_snapshot'[p] = Replayed(p)
    BY <1>3, <2>1
  <2> QED
    BY <1>4, <2>1, <2>2
<1>6. LqTypeOK'
  <2>1. liquidity_snapshot' \in [V3Pools -> Int]
    BY <1>0, <1>3, <1>4 DEF LqTypeOK
  <2>2. Torn \in [state : {"missing", "torn", "saved"}, block : Nat,
                  liquidity : [V3Pools -> Int]]
    BY DEF Torn, Empty
  <2> QED
    BY <1>0, <1>3, <2>1, <2>2 DEF LqTypeOK
<1>7. ChainOK' /\ FileOK'
  BY <1>0, <1>3 DEF ChainOK, FileOK, Torn, Empty
<1>8. RunOK'
  <2>1. Exact(liquidity_snapshot, newest_block)'
    BY <1>0, <1>5, SameExact DEF Exact
  <2> QED
    BY <1>0, <1>1, <1>3, <2>1 DEF RunOK
<1> QED
  BY <1>6, <1>7, <1>8 DEF LqInv

LEMMA WriteStep == LqInv /\ WriteSnapshot => LqInv'
<1> SUFFICES ASSUME LqInv, WriteSnapshot PROVE LqInv'
  OBVIOUS
<1>0. /\ LqTypeOK /\ ChainOK /\ RunOK /\ pc = "writing" /\ pc' = "idle"
      /\ file' = Saved(newest_block, liquidity_snapshot)
      /\ head' = head /\ logs' = logs /\ listed' = listed
      /\ failures' = failures /\ newest_block' = newest_block /\ lp_data' = lp_data
      /\ snapshot_last_block' = snapshot_last_block
      /\ liquidity_snapshot' = liquidity_snapshot
      /\ event' = event /\ start_block' = start_block /\ block_span' = block_span
      /\ liquidity_events' = liquidity_events
  BY DEF LqInv, WriteSnapshot, chainVars, runVars, fetchVars
<1>1. newest_block \in StartBlock .. head /\ Exact(liquidity_snapshot, newest_block)
  BY <1>0 DEF RunOK
<1>2. /\ file' \in [state : {"missing", "torn", "saved"}, block : Nat,
                    liquidity : [V3Pools -> Int]]
      /\ file'.state = "saved" /\ file'.block = newest_block
      /\ file'.liquidity = liquidity_snapshot
  BY <1>0 DEF LqTypeOK, Saved
<1>3. LqTypeOK'
  BY <1>0, <1>2 DEF LqTypeOK
<1>4. Exact(file.liquidity, file.block)'
  BY <1>0, <1>1, <1>2, SameExact
<1> QED
  BY <1>0, <1>1, <1>2, <1>3, <1>4 DEF LqInv, ChainOK, FileOK, RunOK

LEMMA DieStep == LqInv /\ Die => LqInv'
<1> SUFFICES ASSUME LqInv, Die PROVE LqInv'
  OBVIOUS
<1>0. /\ LqTypeOK /\ ChainOK /\ FileOK /\ RunOK /\ pc' = "idle"
      /\ failures < MaxFailures /\ failures' = failures + 1
      /\ head' = head /\ logs' = logs /\ listed' = listed /\ file' = file
      /\ newest_block' = newest_block /\ lp_data' = lp_data
      /\ snapshot_last_block' = snapshot_last_block
      /\ liquidity_snapshot' = liquidity_snapshot
      /\ event' = event /\ start_block' = start_block /\ block_span' = block_span
      /\ liquidity_events' = liquidity_events
  BY DEF LqInv, Die, chainVars, runVars, fetchVars
<1>1. failures' \in 0 .. MaxFailures
  BY <1>0, BlocksAssumption DEF LqTypeOK
<1>2. LqTypeOK' /\ ChainOK' /\ FileOK'
  BY <1>0, <1>1, SameExact DEF LqTypeOK, ChainOK, FileOK
<1> QED
  BY <1>0, <1>2 DEF LqInv, RunOK

-----------------------------------------------------------------------------
(* The theorems.                                                           *)

LEMMA InitLq == Init => LqInv
<1> SUFFICES ASSUME Init PROVE LqInv
  OBVIOUS
<1>1. Len(logs) = 0 /\ <<>> \in Seq(Event) /\ <<>> \in Seq(1 .. Len(logs))
  BY EmptySeq DEF Init
<1>2. Missing \in [state : {"missing", "torn", "saved"}, block : Nat,
                   liquidity : [V3Pools -> Int]]
  BY DEF Missing, Empty
<1>3. LqTypeOK
  <2>1. StartBlock \in StartBlock .. MaxBlock
    BY BlocksAssumption
  <2> QED
    BY <1>1, <1>2, <2>1, BlocksAssumption, KnownAssumption DEF Init, LqTypeOK, Empty
<1>4. ChainOK /\ FileOK /\ RunOK
  BY <1>1 DEF Init, ChainOK, FileOK, RunOK, Missing
<1> QED
  BY <1>3, <1>4 DEF LqInv

LEMMA NextLq == LqInv /\ [Next]_vars => LqInv'
<1> SUFFICES ASSUME LqInv, [Next]_vars PROVE LqInv'
  OBVIOUS
<1>1. CASE UNCHANGED vars
  <2>1. /\ head' \in head .. MaxBlock /\ listed \subseteq listed' /\ listed' \subseteq V3Pools
        /\ UNCHANGED <<file, pc, runVars, liquidity_snapshot, fetchVars, failures>>
        /\ LogsGrow
    BY <1>1, Blocks DEF vars, chainVars, LogsGrow, LqInv, LqTypeOK
  <2> QED
    BY <2>1, ChainStep
<1>2. CASE Fetcher
  BY <1>2, FailStep, FetchStep, ApplyStep, WriteStep DEF Fetcher
<1> QED
  BY <1>1, <1>2, StartStep, LogStep, MineStep, ListStep, DieStep DEF Next

LEMMA LqInvariant == Spec => []LqInv
  BY InitLq, NextLq, PTL DEF Spec

(* The variables of the fetcher keep their types, for any pools, any chain *)
(* and any span.                                                           *)
THEOREM LqTypeCorrect == Spec => []LqTypeOK
<1>1. LqInv => LqTypeOK
  BY DEF LqInv
<1> QED
  BY <1>1, LqInvariant, PTL

(* The snapshot is exact for every pool that was always listed: the        *)
(* windows of main() skip and repeat nothing, however the span shrinks,    *)
(* and a run that dies leaves a file that makes the next one start again.  *)
THEOREM SnapshotIsExact == Spec => []SnapshotExact
<1>1. LqInv => SnapshotExact
  BY DEF LqInv, FileOK, Exact, SnapshotExact
<1> QED
  BY <1>1, LqInvariant, PTL

(* external_update refuses no event of the replay: none is older than the  *)
(* snapshot, and they are sorted by block.                                 *)
THEOREM NothingRefused == Spec => []NeverRefused
<1>1. LqInv => NeverRefused
  BY DEF LqInv, RunOK, NeverRefused
<1> QED
  BY <1>1, LqInvariant, PTL
-----------------------------------------------------------------------------
(* The refinement of SnapshotFile.                                         *)

(* Until it writes, a run holds what it has loaded, and nobody else        *)
(* rewrites the file.                                                      *)
FileIsLoaded ==
  /\ lp_data \subseteq listed
  /\ pc \in {"fetching", "applying"} =>
       snapshot_last_block = LastBlock /\ liquidity_snapshot = file.liquidity
  /\ pc = "writing" => file.state = "torn"

LEMMA LoadedStep == LqInv /\ LqInv' /\ FileIsLoaded /\ [Next]_vars => FileIsLoaded'
<1> SUFFICES ASSUME LqInv, LqInv', FileIsLoaded, [Next]_vars PROVE FileIsLoaded'
  OBVIOUS
<1>1. CASE StartRun
  BY <1>1 DEF StartRun, chainVars, FileIsLoaded, LastBlock
<1>2. CASE FetchFails \/ FetchWindow
  <2>1. /\ UNCHANGED <<listed, lp_data, file, snapshot_last_block, liquidity_snapshot>>
        /\ pc = "fetching" /\ pc' \in {"fetching", "applying"}
    BY <1>2 DEF FetchFails, FetchWindow, chainVars, runVars
  <2> QED
    BY <2>1 DEF FileIsLoaded, LastBlock
<1>3. CASE ApplyEvents
  <2>1. pc' = "writing" /\ file' = Torn
    BY <1>3 DEF ApplyEvents, LqInv, RunOK
  <2> QED
    BY <1>3, <2>1 DEF ApplyEvents, chainVars, runVars, FileIsLoaded, Torn
<1>4. CASE WriteSnapshot \/ Die
  BY <1>4 DEF WriteSnapshot, Die, chainVars, runVars, FileIsLoaded
<1>5. CASE MineBlock \/ (\E p \in V3Pools : \E k \in {"Mint", "Burn"} : LiquidityLog(p, k))
  BY <1>5 DEF MineBlock, LiquidityLog, runVars, FileIsLoaded, LastBlock
<1>6. ASSUME NEW p \in V3Pools, ListPool(p) PROVE FileIsLoaded'
  BY <1>6 DEF ListPool, runVars, FileIsLoaded, LastBlock
<1>7. CASE UNCHANGED vars
  BY <1>7 DEF vars, chainVars, runVars, FileIsLoaded, LastBlock
<1> QED
  BY <1>1, <1>2, <1>3, <1>4, <1>5, <1>6, <1>7 DEF Next, Fetcher

LEMMA LoadedInvariant == Spec => []FileIsLoaded
<1>1. Init => FileIsLoaded
  BY DEF Init, FileIsLoaded
<1> QED
  BY <1>1, LoadedStep, LqInvariant, PTL DEF Spec

(* The replay adds what happened to a pool after the snapshot.             *)
LEMMA ReplayIsChange ==
  ASSUME LqInv, pc = "applying", NEW p \in V3Pools
  PROVE  /\ Replayed(p) = liquidity_snapshot[p] + SF!Change(p, Base, newest_block)
         /\ liquidity_snapshot[p] \in Int
<1> DEFINE of(kind) == {i \in EventsOf(p) : logs[liquidity_events[i]].kind = kind}
           Q(kind) == {k \in 1 .. Len(logs) :
                         /\ logs[k].pool = p /\ logs[k].kind = kind
                         /\ Base < logs[k].block /\ logs[k].block <= newest_block}
<1>1. Lists(liquidity_events, ReadLogs) /\ liquidity_snapshot[p] \in Int
  BY DEF LqInv, LqTypeOK, RunOK
<1>2. ReadLogs = {k \in 1 .. Len(logs) : Base < logs[k].block /\ logs[k].block <= newest_block}
  BY DEF ReadLogs, UpTo
<1>3. ASSUME NEW kind
      PROVE  /\ Cardinality(of(kind)) = Cardinality(Q(kind))
             /\ Cardinality(of(kind)) \in Nat
  <2>1. Q(kind) \in SUBSET ReadLogs
    BY <1>2
  <2>2. \A i \in 1 .. Len(liquidity_events) :
          liquidity_events[i] \in ReadLogs
    BY <1>1, ElementOfSeq DEF Lists
  <2>3. of(kind) = {i \in 1 .. Len(liquidity_events) : liquidity_events[i] \in Q(kind)}
    BY <1>2, <2>2 DEF EventsOf
  <2> HIDE DEF Q, of
  <2>4. IsFiniteSet(of(kind)) /\ Cardinality(of(kind)) = Cardinality(Q(kind))
    BY <1>1, <2>1, <2>3, CountedOnce
  <2> QED
    BY <2>4, FS_CardinalityType
<1>4. Replayed(p) = liquidity_snapshot[p] + Cardinality(of("Mint")) - Cardinality(of("Burn"))
  BY DEF Replayed
<1>5. SF!Change(p, Base, newest_block) = Cardinality(Q("Mint")) - Cardinality(Q("Burn"))
  BY DEF SF!Change, SF!Cardinality, Cardinality
<1> HIDE DEF of, Q
<1> QED
  BY <1>1, <1>3, <1>4, <1>5

(* The block of the file is the one that a run starts from.                *)
LEMMA FileOfRun ==
  ASSUME LqInv, FileIsLoaded, pc \in {"fetching", "applying"}
  PROVE  /\ FileBlock = Base
         /\ FileState \in {"missing", "lost", "saved"}
         /\ FileState = "saved" => snapshot_last_block # None
<1>1. /\ file.state \in {"missing", "torn", "saved"} /\ file.block \in Nat
      /\ None \notin Int
  BY FileParts, Blocks
<1>2. snapshot_last_block = LastBlock
  BY DEF FileIsLoaded
<1> QED
  BY <1>1, <1>2 DEF FileBlock, FileState, Base, LastBlock

LEMMA SnapshotStep ==
  ASSUME LqInv, LqInv', FileIsLoaded, [Next]_vars
  PROVE  [SF!Next]_(SF!vars)
<1> DEFINE held == IF pc = "writing" THEN liquidity_snapshot ELSE file.liquidity
<1>1. ASSUME head' \in head .. MaxBlock, listed \subseteq listed', listed' \subseteq V3Pools,
             \/ logs' = logs
             \/ \E p \in V3Pools, k \in {"Mint", "Burn"} :
                  logs' = Append(logs, [pool |-> p, kind |-> k, block |-> head + 1]),
             UNCHANGED <<file, pc, newest_block, liquidity_snapshot>>
      PROVE  SF!Next
  <2>1. UNCHANGED <<FileState, FileBlock, held>>
    BY <1>1 DEF FileState, FileBlock
  <2> QED
    BY <1>1, <2>1 DEF SF!Next, SF!Grow
<1>2. CASE MineBlock \/ (\E p \in V3Pools : ListPool(p) \/ \E k \in {"Mint", "Burn"} : LiquidityLog(p, k))
  <2>1. /\ head \in Nat /\ MaxBlock \in Nat /\ head <= MaxBlock
        /\ listed \subseteq V3Pools
    BY Blocks DEF LqInv, LqTypeOK
  <2>2. CASE MineBlock
    BY <1>1, <2>1, <2>2 DEF MineBlock, runVars
  <2>3. ASSUME NEW p \in V3Pools, ListPool(p) PROVE SF!Next
    BY <1>1, <2>1, <2>3 DEF ListPool, runVars
  <2>4. ASSUME NEW p \in V3Pools, NEW k \in {"Mint", "Burn"}, LiquidityLog(p, k)
        PROVE  SF!Next
    BY <1>1, <2>1, <2>4 DEF LiquidityLog, runVars
  <2> QED
    BY <1>2, <2>2, <2>3, <2>4
<1>3. CASE ApplyEvents
  <2>1. /\ pc = "applying" /\ pc' = "writing"
        /\ UNCHANGED <<head, logs, listed, newest_block>>
        /\ liquidity_snapshot' = [p \in V3Pools |-> IF Skipped(p) THEN liquidity_snapshot[p]
                                                    ELSE Replayed(p)]
    BY <1>3 DEF ApplyEvents, chainVars, runVars, LqInv, RunOK
  <2>2. /\ FileBlock = Base /\ FileState \in {"missing", "lost", "saved"}
        /\ FileState = "saved" => snapshot_last_block # None
        /\ held = liquidity_snapshot
    BY <2>1, FileOfRun DEF FileIsLoaded
  <2>3. FileState' = "rewriting" /\ FileBlock' = newest_block /\ held' = liquidity_snapshot'
    BY <2>1 DEF FileState, FileBlock
  <2>4. /\ newest_block \in Base .. head
        /\ FileState = "saved" => Base < newest_block
    BY <2>1, <2>2, Blocks DEF LqInv, RunOK
  <2>5. lp_data \in SUBSET listed /\ Known \subseteq lp_data
    BY <2>1 DEF FileIsLoaded, LqInv, RunOK
  <2>6. liquidity_snapshot' =
          [p \in V3Pools |-> liquidity_snapshot[p]
             + IF p \in lp_data THEN SF!Change(p, Base, newest_block) ELSE 0]
    <3>1. ASSUME NEW p \in V3Pools
          PROVE  (IF Skipped(p) THEN liquidity_snapshot[p] ELSE Replayed(p))
                   = liquidity_snapshot[p]
                       + IF p \in lp_data THEN SF!Change(p, Base, newest_block) ELSE 0
      BY <2>1, ReplayIsChange DEF Skipped
    <3> QED
      BY <2>1, <3>1
  <2>7. held' = [p \in V3Pools |-> held[p]
                   + IF p \in lp_data THEN SF!Change(p, FileBlock, FileBlock') ELSE 0]
    BY <2>2, <2>3, <2>6
  <2> QED
    BY <2>1, <2>2, <2>3, <2>4, <2>5, <2>7 DEF SF!Next, SF!Rewrite
<1>4. CASE WriteSnapshot
  BY <1>4 DEF WriteSnapshot, Saved, chainVars, runVars, FileState, FileBlock, SF!Next, SF!Save
<1>5. CASE Die
  <2>1. CASE pc = "writing"
    <3>1. file.state = "torn" /\ file.liquidity = Empty
      BY <2>1 DEF FileIsLoaded, LqInv, FileOK
    <3> QED
      BY <1>5, <2>1, <3>1 DEF Die, chainVars, FileState, FileBlock, Empty, SF!Next, SF!Lose
  <2>2. CASE pc # "writing"
    BY <1>5, <2>2 DEF Die, chainVars, FileState, FileBlock, SF!vars
  <2> QED
    BY <2>1, <2>2
<1>6. CASE StartRun \/ FetchFails \/ FetchWindow
  <2>1. pc # "writing" /\ pc' # "writing" /\ UNCHANGED <<head, logs, listed, file>>
    BY <1>6 DEF StartRun, FetchFails, FetchWindow, chainVars
  <2> QED
    BY <2>1 DEF FileState, FileBlock, SF!vars
<1>7. CASE UNCHANGED vars
  BY <1>7 DEF vars, chainVars, runVars, FileState, FileBlock, SF!vars
<1> QED
  BY <1>2, <1>3, <1>4, <1>5, <1>6, <1>7 DEF Next, Fetcher

(* Every snapshot follows from the one before by the logs between their    *)
(* blocks, for the listed pools, and never goes back; a file that a death  *)
(* left half written is followed by one that starts from nothing.          *)
THEOREM SnapshotFileImplemented == Spec => ImplementsSnapshotFile
<1>1. Init => SF!Init
  BY DEF Init, Missing, Empty, FileState, FileBlock, SF!Init
<1> QED
  BY <1>1, SnapshotStep, LqInvariant, LoadedInvariant, PTL
     DEF Spec, ImplementsSnapshotFile, SF!Spec
-----------------------------------------------------------------------------
(* Why a run ends.                                                         *)

(* A bound on the steps that a running process has left, the failing calls *)
(* of get_logs apart: at most a window for each block that is left of the  *)
(* one event, and of the other.                                            *)
BlocksFrom(b) == newest_block + 1 - b
StepsLeft ==
  CASE pc = "fetching" /\ event = "Mint" ->
         BlocksFrom(start_block) + BlocksFrom(FirstBlock(snapshot_last_block)) + 2
    [] pc = "fetching" /\ event # "Mint" -> BlocksFrom(start_block) + 2
    [] pc = "applying" -> 2
    [] pc = "writing"  -> 1
    [] pc \in {"idle", "refused"} -> 0

LEMMA StepsLeftType ==
  LqInv => /\ StepsLeft \in Nat
           /\ pc = "fetching" =>
                /\ BlocksFrom(start_block) \in Nat \ {0}
                /\ BlocksFrom(FirstBlock(snapshot_last_block)) \in Nat \ {0}
<1> SUFFICES ASSUME LqInv
             PROVE  /\ StepsLeft \in Nat
                    /\ pc = "fetching" =>
                         /\ BlocksFrom(start_block) \in Nat \ {0}
                         /\ BlocksFrom(FirstBlock(snapshot_last_block)) \in Nat \ {0}
  OBVIOUS
<1>1. /\ StartBlock \in Nat /\ newest_block \in Nat /\ start_block \in Nat
      /\ snapshot_last_block # None => snapshot_last_block \in Nat
      /\ pc \in {"idle", "fetching", "applying", "writing", "refused"}
  BY Blocks DEF LqInv, LqTypeOK
<1>2. FirstBlock(snapshot_last_block) \in Nat
  BY <1>1 DEF FirstBlock, Later
<1>3. ASSUME pc = "fetching"
      PROVE  /\ BlocksFrom(start_block) \in Nat \ {0}
             /\ BlocksFrom(FirstBlock(snapshot_last_block)) \in Nat \ {0}
  <2>1. start_block \in FirstBlock(snapshot_last_block) .. newest_block
    BY <1>3 DEF LqInv, RunOK
  <2> QED
    BY <1>1, <1>2, <2>1 DEF BlocksFrom
<1>4. StepsLeft \in Nat
  <2>1. CASE pc = "fetching" /\ event = "Mint"
    <3>1. StepsLeft = BlocksFrom(start_block) + BlocksFrom(FirstBlock(snapshot_last_block)) + 2
      BY <2>1 DEF StepsLeft
    <3> QED
      BY <1>3, <2>1, <3>1
  <2>2. CASE pc = "fetching" /\ event # "Mint"
    <3>1. StepsLeft = BlocksFrom(start_block) + 2
      BY <2>2 DEF StepsLeft
    <3> QED
      BY <1>3, <2>2, <3>1
  <2>3. CASE pc # "fetching"
    BY <1>1, <2>3 DEF StepsLeft
  <2> QED
    BY <2>1, <2>2, <2>3
<1> QED
  BY <1>3, <1>4

(* The safety half of EveryRunEnds: each window that get_logs answers, the *)
(* replay and the write take the run nearer to its end, even when the span *)
(* has shrunk to zero; a call that fails takes nothing back, and newer     *)
(* blocks are left to the next run.                                        *)
THEOREM RunsGetShorter ==
  Spec => [][/\ FetchWindow \/ ApplyEvents \/ WriteSnapshot => StepsLeft' < StepsLeft
             /\ ~StartRun => StepsLeft' <= StepsLeft]_vars
<1> DEFINE Shorter ==
      /\ FetchWindow \/ ApplyEvents \/ WriteSnapshot => StepsLeft' < StepsLeft
      /\ ~StartRun => StepsLeft' <= StepsLeft
<1>0. (LqInv => /\ StepsLeft \in Nat
                /\ pc = "fetching" =>
                     /\ BlocksFrom(start_block) \in Nat \ {0}
                     /\ BlocksFrom(FirstBlock(snapshot_last_block)) \in Nat \ {0})'
  BY StepsLeftType, PTL
<1>1. ASSUME LqInv, LqInv', Next PROVE Shorter
  <2>1. StepsLeft \in Nat /\ StepsLeft' \in Nat
    BY <1>0, <1>1, StepsLeftType
  <2>2. ASSUME FetchWindow PROVE StepsLeft' < StepsLeft
    <3> DEFINE F == FirstBlock(snapshot_last_block)
    <3>1. /\ pc = "fetching" /\ event \in {"Mint", "Burn"}
          /\ newest_block' = newest_block /\ snapshot_last_block' = snapshot_last_block
          /\ F' = F
      BY <1>1, <2>2 DEF FetchWindow, runVars, LqInv, LqTypeOK, FirstBlock, Later
    <3>2. /\ newest_block \in Nat /\ start_block \in Nat /\ block_span \in Nat
          /\ BlocksFrom(start_block) \in Nat \ {0} /\ BlocksFrom(F) \in Nat \ {0}
      BY <1>1, <3>1, Blocks, StepsLeftType
    <3>3. start_block <= newest_block
      BY <3>2 DEF BlocksFrom
    <3>4. EndBlock \in Nat /\ start_block <= EndBlock
      BY <3>2, <3>3 DEF EndBlock, Earlier
    <3>5. BlocksFrom(F)' = BlocksFrom(F)
      BY <3>1 DEF BlocksFrom
    <3> HIDE DEF F
    <3>6. /\ event = "Mint" => StepsLeft = BlocksFrom(start_block) + BlocksFrom(F) + 2
          /\ event # "Mint" => StepsLeft = BlocksFrom(start_block) + 2
      BY <3>1 DEF StepsLeft, F
    <3>7. CASE EndBlock # newest_block /\ start_block' = NextStart /\ UNCHANGED <<pc, event>>
      <4>1. BlocksFrom(start_block)' < BlocksFrom(start_block) /\ BlocksFrom(start_block)' \in Int
        BY <3>1, <3>2, <3>4, <3>7 DEF BlocksFrom, NextStart
      <4>2. /\ event = "Mint" => StepsLeft' = BlocksFrom(start_block)' + BlocksFrom(F)' + 2
            /\ event # "Mint" => StepsLeft' = BlocksFrom(start_block)' + 2
        BY <3>1, <3>7 DEF StepsLeft, F
      <4> QED
        BY <3>2, <3>5, <3>6, <4>1, <4>2
    <3>8. CASE event = "Mint" /\ event' = "Burn" /\ start_block' = F /\ UNCHANGED pc
      <4>1. StepsLeft' = BlocksFrom(start_block)' + 2
        BY <3>1, <3>8 DEF StepsLeft
      <4>2. BlocksFrom(start_block)' = BlocksFrom(F)
        BY <3>1, <3>8 DEF BlocksFrom
      <4> QED
        BY <3>2, <3>6, <3>8, <4>1, <4>2
    <3>9. CASE event = "Burn" /\ pc' = "applying"
      <4>1. StepsLeft' = 2
        BY <3>9 DEF StepsLeft
      <4> QED
        BY <3>2, <3>6, <3>9, <4>1
    <3> QED
      BY <2>2, <3>7, <3>8, <3>9 DEF FetchWindow, F
  <2>3. ASSUME ApplyEvents PROVE StepsLeft' < StepsLeft
    BY <2>3 DEF ApplyEvents, StepsLeft
  <2>4. ASSUME WriteSnapshot PROVE StepsLeft' < StepsLeft
    BY <2>4 DEF WriteSnapshot, StepsLeft
  <2>5. ASSUME UNCHANGED <<pc, newest_block, snapshot_last_block, event, start_block>>
        PROVE  StepsLeft' = StepsLeft
    BY <2>5 DEF StepsLeft, BlocksFrom, FirstBlock, Later
  <2>6. ASSUME Die PROVE StepsLeft' <= StepsLeft
    <3>1. StepsLeft' = 0
      BY <2>6 DEF Die, StepsLeft
    <3> QED
      BY <2>1, <3>1
  <2>7. ASSUME FetchFails PROVE StepsLeft' = StepsLeft
    BY <2>5, <2>7 DEF FetchFails, runVars
  <2>8. ASSUME MineBlock PROVE StepsLeft' = StepsLeft
    BY <2>5, <2>8 DEF MineBlock, runVars, fetchVars
  <2>9. ASSUME NEW p \in V3Pools, ListPool(p) PROVE StepsLeft' = StepsLeft
    BY <2>5, <2>9 DEF ListPool, runVars, fetchVars
  <2>10. ASSUME NEW p \in V3Pools, NEW k \in {"Mint", "Burn"}, LiquidityLog(p, k)
         PROVE  StepsLeft' = StepsLeft
    BY <2>5, <2>10 DEF LiquidityLog, runVars, fetchVars
  <2>11. FetchWindow \/ ApplyEvents \/ WriteSnapshot => StepsLeft' < StepsLeft
    BY <2>2, <2>3, <2>4
  <2>12. \/ StartRun \/ StepsLeft' < StepsLeft \/ StepsLeft' = StepsLeft
         \/ StepsLeft' <= StepsLeft
    BY <1>1, <2>6, <2>7, <2>8, <2>9, <2>10, <2>11 DEF Next, Fetcher
  <2> QED
    BY <2>1, <2>11, <2>12
<1>2. LqInv /\ LqInv' /\ [Next]_vars => [Shorter]_vars
  BY <1>1
<1> QED
  BY <1>2, LqInvariant, PTL DEF Spec
=============================================================================
