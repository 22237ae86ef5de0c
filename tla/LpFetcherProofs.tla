--------------------------- MODULE LpFetcherProofs ---------------------------
(***************************************************************************)
(* The pool fetchers, for every chain and every span of the windows.  The  *)
(* lemmas are about a list of pools and the blocks c the pools were        *)
(* created in; the theorems apply them to the file and to the memory.      *)
(***************************************************************************)
EXTENDS LpFetcher, SequenceTheorems, FiniteSetTheorems, TLAPS

InChainOrder(c) ==
  /\ c \in Seq(0 .. MaxBlock)
  /\ \A j, k \in 1 .. Len(c) : j <= k => c[j] <= c[k]

UpTo(c, b) == {k \in 1 .. Len(c) : FactoryBlock < c[k] /\ c[k] <= b}

LastBlock(c, pools) ==
  IF pools = <<>> THEN FactoryBlock ELSE c[pools[Len(pools)]]

(* A list in block order with no pool more than twice.                     *)
Listing(c, pools) ==
  /\ pools \in Seq(1 .. Len(c))
  /\ \A j, k \in 1 .. Len(pools) : j <= k => c[pools[j]] <= c[pools[k]]
  /\ \A a, b, d \in 1 .. Len(pools) :
       a < b /\ b < d => ~(pools[a] = pools[b] /\ pools[b] = pools[d])

Complete(c, pools, b) == UpTo(c, b) \subseteq Listed(pools)

(* A run that loads the list and resumes after its last block skips none.  *)
Resumable(c, pools) ==
  Listing(c, pools) /\ Complete(c, pools, LastBlock(c, pools))

(* No entry is of a block after b; none of block b or after is twice.      *)
Within(c, pools, b) == \A k \in 1 .. Len(pools) : c[pools[k]] <= b
OnceFrom(c, pools, b) ==
  \A j, k \in 1 .. Len(pools) : pools[j] = pools[k] /\ b <= c[pools[j]] => j = k

Passed == IF i > current_block THEN current_block ELSE i - 1

LpInv ==
  /\ LpTypeOK
  /\ InChainOrder(created)
  /\ \A k \in 1 .. Len(created) : created[k] <= head
  /\ FactoryBlock <= head /\ current_block <= head
  /\ Resumable(created, file.pools)
  /\ pc # "idle" =>
       /\ Resumable(created, lp_data)
       /\ Listed(file.pools) \subseteq Listed(lp_data)
  /\ pc = "scanning" =>
       /\ Within(created, lp_data, i) /\ Within(created, lp_data, current_block)
       /\ OnceFrom(created, lp_data, i)
       /\ Complete(created, lp_data, Passed)
  /\ pc = "opened" =>
       /\ i <= current_block
       /\ Within(created, lp_data, EndBlock)
       /\ OnceFrom(created, lp_data, i + BlockSpan)
       /\ Complete(created, lp_data, EndBlock)

-----------------------------------------------------------------------------
(* The logs of a window, in the order of the chain.                        *)
LEMMA LogsOfWindow ==
  ASSUME NEW n \in Nat, NEW pools \in SUBSET (1 .. n),
         NEW logs \in InLogOrder(pools)
  PROVE  /\ logs \in Seq(pools) /\ Listed(logs) = pools
         /\ \A j, k \in 1 .. Len(logs) : j < k => logs[j] < logs[k]
<1>1. Cardinality(pools) \in Nat
  <2>1. IsFiniteSet(1 .. n)
    BY FS_Interval
  <2> QED
    BY <2>1, FS_Subset, FS_CardinalityType
<1>2. logs \in Seq(pools) /\ Len(logs) = Cardinality(pools)
  BY <1>1 DEF InLogOrder
<1>3. DOMAIN logs = 1 .. Len(logs)
  BY <1>2
<1> QED
  BY <1>2, <1>3 DEF InLogOrder, Listed

(* A window from block "from" to block "to" extends a list that holds the  *)
(* pools up to the block before, and perhaps those of "from" already.      *)
LEMMA Extended ==
  ASSUME NEW c, InChainOrder(c), NEW pools, Listing(c, pools),
         NEW from \in Nat, NEW to \in Nat, from <= to,
         Within(c, pools, from), OnceFrom(c, pools, from),
         Complete(c, pools, from - 1),
         NEW logs \in InLogOrder({k \in 1 .. Len(c) : from <= c[k] /\ c[k] <= to})
  PROVE  /\ Listing(c, pools \o logs)
         /\ Within(c, pools \o logs, to)
         /\ OnceFrom(c, pools \o logs, from + 1)
         /\ Complete(c, pools \o logs, to)
         /\ Listed(pools) \subseteq Listed(pools \o logs)
<1> DEFINE W == {k \in 1 .. Len(c) : from <= c[k] /\ c[k] <= to}
           S == 1 .. Len(c)
           all == pools \o logs
           P == Len(pools)
<1>1. Len(c) \in Nat /\ \A k \in S : c[k] \in Nat
  <2>1. \A k \in S : c[k] \in 0 .. MaxBlock
    BY ElementOfSeq DEF InChainOrder
  <2> QED
    BY <2>1 DEF InChainOrder
<1>2. /\ logs \in Seq(W) /\ Listed(logs) = W
      /\ \A j, k \in 1 .. Len(logs) : j < k => logs[j] < logs[k]
  BY <1>1, LogsOfWindow
<1>3. pools \in Seq(S) /\ logs \in Seq(S)
  BY <1>2, SeqMonotonic DEF Listing
<1>4. /\ all \in Seq(S) /\ Len(all) = P + Len(logs)
      /\ \A k \in 1 .. P + Len(logs) :
           all[k] = IF k <= P THEN pools[k] ELSE logs[k - P]
  BY <1>3, ConcatProperties
<1>5. P \in Nat /\ Len(logs) \in Nat
  BY <1>3
<1>6. \A k \in 1 .. P : pools[k] \in S /\ all[k] = pools[k] /\ c[pools[k]] <= from
  <2> SUFFICES ASSUME NEW k \in 1 .. P
               PROVE  pools[k] \in S /\ all[k] = pools[k] /\ c[pools[k]] <= from
    OBVIOUS
  <2>1. pools[k] \in S /\ c[pools[k]] <= from
    BY <1>3, ElementOfSeq DEF Within
  <2>2. k \in 1 .. P + Len(logs) /\ k <= P
    BY <1>5
  <2> HIDE DEF all
  <2> QED
    BY <1>4, <2>1, <2>2
<1>7. \A k \in 1 .. Len(logs) :
        logs[k] \in S /\ from <= c[logs[k]] /\ c[logs[k]] <= to
  BY <1>2, ElementOfSeq
<1>8. /\ \A j, k \in 1 .. P : j <= k => c[pools[j]] <= c[pools[k]]
       /\ \A a, b, d \in 1 .. P :
            a < b /\ b < d => ~(pools[a] = pools[b] /\ pools[b] = pools[d])
  BY DEF Listing
<1>9. \A j, k \in 1 .. P :
         pools[j] = pools[k] /\ from <= c[pools[j]] => j = k
  BY DEF OnceFrom
<1>10. \A j, k \in S : j <= k => c[j] <= c[k]
  BY DEF InChainOrder
<1>11. S \subseteq Nat /\ Len(all) \in Nat
  BY <1>1, <1>4, <1>5
<1> HIDE DEF all, W, P, S
<1>12. \A k \in P + 1 .. Len(all) :
        /\ k - P \in 1 .. Len(logs) /\ all[k] = logs[k - P]
        /\ all[k] \in S /\ all[k] \in Nat
        /\ from <= c[all[k]] /\ c[all[k]] <= to
  <2> TAKE k \in P + 1 .. Len(all)
  <2>1. k - P \in 1 .. Len(logs) /\ all[k] = logs[k - P]
    BY <1>4, <1>5
  <2> QED
    BY <2>1, <1>7, <1>11
<1>13. \A j, k \in P + 1 .. Len(all) : j < k => all[j] < all[k]
  <2> TAKE j, k \in P + 1 .. Len(all)
  <2> HAVE j < k
  <2>1. j - P < k - P
    BY <1>4, <1>5
  <2> QED
    BY <1>2, <1>12, <2>1
<1>14. Listing(c, all)
  <2>1. \A j, k \in 1 .. Len(all) : j <= k => c[all[j]] <= c[all[k]]
    <3> TAKE j, k \in 1 .. Len(all)
    <3> HAVE j <= k
    <3>1. CASE k <= P
      BY <3>1, <1>4, <1>5, <1>6, <1>8
    <3>2. CASE j <= P /\ P < k
      <4>1. j \in 1 .. P /\ k \in P + 1 .. Len(all)
        BY <3>2, <1>4, <1>5
      <4>2. c[all[j]] \in Nat /\ c[all[j]] <= from
        BY <4>1, <1>1, <1>6
      <4>3. c[all[k]] \in Nat /\ from <= c[all[k]]
        BY <4>1, <1>1, <1>12
      <4> QED
        BY <4>2, <4>3
    <3>3. CASE P < j
      <4>1. j \in P + 1 .. Len(all) /\ k \in P + 1 .. Len(all)
        BY <3>3, <1>4, <1>5
      <4>2. all[j] \in S /\ all[k] \in S /\ all[j] \in Nat /\ all[k] \in Nat
        BY <4>1, <1>12
      <4>3. j = k \/ j < k
        BY <4>1, <1>5, <1>11
      <4>4. all[j] <= all[k]
        BY <4>1, <4>2, <4>3, <1>13
      <4> QED
        BY <4>2, <4>4, <1>10
    <3> QED
      BY <3>1, <3>2, <3>3, <1>4, <1>5
  <2>2. \A a, b, d \in 1 .. Len(all) :
          a < b /\ b < d => ~(all[a] = all[b] /\ all[b] = all[d])
    <3> TAKE a, b, d \in 1 .. Len(all)
    <3> HAVE a < b /\ b < d
    <3> SUFFICES ASSUME all[a] = all[b], all[b] = all[d]
                 PROVE  FALSE
      OBVIOUS
    <3>1. CASE d <= P
      BY <3>1, <1>4, <1>5, <1>6, <1>8
    <3>2. CASE b <= P /\ P < d
      <4>1. a \in 1 .. P /\ b \in 1 .. P /\ d \in P + 1 .. Len(all)
        BY <3>2, <1>4, <1>5
      <4>2. pools[a] = pools[b] /\ from <= c[pools[a]]
        BY <4>1, <1>6, <1>12
      <4>3. a = b
        BY <4>1, <4>2, <1>9
      <4> QED
        BY <4>1, <4>3, <1>5
    <3>3. CASE P < b
      <4>1. b \in P + 1 .. Len(all) /\ d \in P + 1 .. Len(all)
        BY <3>3, <1>4, <1>5
      <4> QED
        BY <4>1, <1>1, <1>5, <1>11, <1>12, <1>13
    <3> QED
      BY <3>1, <3>2, <3>3, <1>4, <1>5
  <2> QED
    BY <1>4, <2>1, <2>2 DEF Listing, S
<1>15. Within(c, all, to)
  <2> SUFFICES ASSUME NEW k \in 1 .. Len(all)
               PROVE  c[all[k]] <= to
    BY DEF Within
  <2>1. CASE k <= P
    BY <2>1, <1>1, <1>5, <1>6
  <2>2. CASE P < k
    BY <2>2, <1>4, <1>5, <1>12
  <2> QED
    BY <2>1, <2>2, <1>4, <1>5
<1>16. OnceFrom(c, all, from + 1)
  <2> SUFFICES ASSUME NEW j \in 1 .. Len(all), NEW k \in 1 .. Len(all),
                      all[j] = all[k], from + 1 <= c[all[j]]
               PROVE  j = k
    BY DEF OnceFrom
  <2>1. ~(j <= P) /\ ~(k <= P)
    BY <1>1, <1>5, <1>6
  <2>2. j \in P + 1 .. Len(all) /\ k \in P + 1 .. Len(all)
    BY <2>1, <1>4, <1>5
  <2> QED
    BY <2>2, <1>5, <1>11, <1>12, <1>13
<1>17. Listed(pools) \subseteq Listed(all)
  BY <1>4, <1>5, <1>6 DEF Listed, P
<1>18. W \subseteq Listed(all)
  <2> SUFFICES ASSUME NEW w \in W
               PROVE  w \in Listed(all)
    OBVIOUS
  <2>1. PICK k \in 1 .. Len(logs) : logs[k] = w
    BY <1>2 DEF Listed
  <2>2. P + k \in 1 .. Len(all) /\ all[P + k] = w
    BY <2>1, <1>4, <1>5
  <2> QED
    BY <2>2 DEF Listed
<1>19. Complete(c, all, to)
  <2>1. UpTo(c, to) \subseteq UpTo(c, from - 1) \cup W
    BY <1>1 DEF UpTo, W, S
  <2> QED
    BY <2>1, <1>17, <1>18 DEF Complete
<1> QED
  BY <1>14, <1>15, <1>16, <1>17, <1>19 DEF all

(* What a list says stays true when new blocks create further pools.       *)
LEMMA Grown ==
  ASSUME NEW c, InChainOrder(c), NEW d, InChainOrder(d), Len(c) <= Len(d),
         NEW h \in Nat,
         \A k \in 1 .. Len(c) : d[k] = c[k] /\ c[k] <= h,
         \A k \in Len(c) + 1 .. Len(d) : h < d[k],
         NEW pools, Listing(c, pools)
  PROVE  /\ Listing(d, pools)
         /\ \A b : Within(c, pools, b) => Within(d, pools, b)
         /\ \A b : OnceFrom(c, pools, b) => OnceFrom(d, pools, b)
         /\ \A b \in Int : b <= h /\ Complete(c, pools, b) => Complete(d, pools, b)
         /\ LastBlock(d, pools) = LastBlock(c, pools)
<1>1. Len(c) \in Nat /\ Len(d) \in Nat
  BY DEF InChainOrder
<1>2. 1 .. Len(c) \subseteq 1 .. Len(d)
  BY <1>1
<1>3. pools \in Seq(1 .. Len(c)) /\ pools \in Seq(1 .. Len(d))
  BY <1>2, SeqMonotonic DEF Listing
<1>4. \A k \in 1 .. Len(pools) : d[pools[k]] = c[pools[k]]
  BY <1>3, ElementOfSeq
<1>5. Listing(d, pools)
  BY <1>3, <1>4 DEF Listing
<1>6. ASSUME NEW b, Within(c, pools, b)
      PROVE  Within(d, pools, b)
  BY <1>4, <1>6 DEF Within
<1>7. ASSUME NEW b, OnceFrom(c, pools, b)
      PROVE  OnceFrom(d, pools, b)
  BY <1>4, <1>7 DEF OnceFrom
<1>8. ASSUME NEW b \in Int, b <= h, Complete(c, pools, b)
      PROVE  Complete(d, pools, b)
  <2>1. \A k \in 1 .. Len(d) : d[k] \in Nat
    <3>1. \A k \in 1 .. Len(d) : d[k] \in 0 .. MaxBlock
      BY ElementOfSeq DEF InChainOrder
    <3> QED
      BY <3>1
  <2>2. UpTo(d, b) \subseteq UpTo(c, b)
    <3> SUFFICES ASSUME NEW k \in 1 .. Len(d), FactoryBlock < d[k], d[k] <= b
                 PROVE  k \in UpTo(c, b)
      BY DEF UpTo
    <3>1. k \notin Len(c) + 1 .. Len(d)
      BY <1>8, <2>1
    <3>2. k \in 1 .. Len(c)
      BY <1>1, <3>1
    <3> QED
      BY <3>2 DEF UpTo
  <2> QED
    BY <1>8, <2>2 DEF Complete
<1>9. LastBlock(d, pools) = LastBlock(c, pools)
  <2>1. pools # <<>> => Len(pools) \in 1 .. Len(pools)
    BY <1>3
  <2> QED
    BY <1>4, <2>1 DEF LastBlock
<1> QED
  BY <1>5, <1>6, <1>7, <1>8, <1>9

(* A list that holds all up to b and nothing later can be resumed from.    *)
LEMMA ResumesFromLast ==
  ASSUME NEW c, InChainOrder(c), NEW pools, Listing(c, pools), NEW b \in Nat,
         Within(c, pools, b), Complete(c, pools, b)
  PROVE  Resumable(c, pools)
<1>1. \A k \in 1 .. Len(c) : c[k] \in Nat
  <2>1. \A k \in 1 .. Len(c) : c[k] \in 0 .. MaxBlock
    BY ElementOfSeq DEF InChainOrder
  <2> QED
    BY <2>1
<1>2. pools \in Seq(1 .. Len(c))
  BY DEF Listing
<1>3. CASE pools = <<>>
  BY <1>1, <1>3, LpBoundsAssumption DEF Resumable, Complete, LastBlock, UpTo
<1>4. CASE pools # <<>>
  <2>1. Len(pools) \in 1 .. Len(pools)
    BY <1>2, <1>4
  <2>2. pools[Len(pools)] \in 1 .. Len(c) /\ c[pools[Len(pools)]] <= b
    BY <1>2, <2>1, ElementOfSeq DEF Within
  <2>3. UpTo(c, c[pools[Len(pools)]]) \subseteq UpTo(c, b)
    BY <1>1, <2>2 DEF UpTo
  <2> QED
    BY <1>4, <2>3 DEF Resumable, Complete, LastBlock
<1> QED
  BY <1>3, <1>4

LEMMA EmptyResumable ==
  ASSUME NEW c, InChainOrder(c)
  PROVE  Resumable(c, <<>>)
<1>1. \A k \in 1 .. Len(c) : c[k] \in Nat
  <2>1. \A k \in 1 .. Len(c) : c[k] \in 0 .. MaxBlock
    BY ElementOfSeq DEF InChainOrder
  <2> QED
    BY <2>1
<1>2. Listing(c, <<>>)
  BY DEF Listing
<1>3. UpTo(c, FactoryBlock) = {}
  BY <1>1, LpBoundsAssumption DEF UpTo
<1> QED
  BY <1>2, <1>3 DEF Resumable, Complete, LastBlock

LEMMA ListType ==
  ASSUME NEW c, Len(c) \in Nat, Len(c) <= MaxPools, NEW pools, Listing(c, pools)
  PROVE  pools \in Seq(1 .. MaxPools)
<1>1. 1 .. Len(c) \subseteq 1 .. MaxPools
  BY LpBoundsAssumption
<1> QED
  BY <1>1, SeqMonotonic DEF Listing

-----------------------------------------------------------------------------
(* The invariant.                                                          *)
LEMMA InitLp == Init => LpInv
<1> SUFFICES ASSUME Init
             PROVE  LpInv
  OBVIOUS
<1>1. FactoryBlock \in 0 .. MaxBlock /\ 0 \in 0 .. MaxBlock /\ MaxPools \in Nat \ {0}
  BY LpBoundsAssumption
<1>2. /\ created \in Seq(0 .. MaxBlock) /\ Len(created) \in {0, 1}
      /\ \A k \in 1 .. Len(created) : k = 1 /\ created[k] = FactoryBlock
  <2>1. CASE created = <<>>
    BY <2>1
  <2>2. CASE created = <<FactoryBlock>>
    BY <1>1, <2>2
  <2> QED
    BY <2>1, <2>2 DEF Init
<1>3. InChainOrder(created)
  BY <1>1, <1>2 DEF InChainOrder
<1>4. LpTypeOK
  <2>1. file \in [state : {"missing", "torn", "saved"}, pools : Seq(1 .. MaxPools)]
    BY DEF Init, Missing
  <2>2. /\ lp_data \in Seq(1 .. MaxPools) /\ failures \in 0 .. MaxFailures
        /\ keep_running \in BOOLEAN /\ Len(created) <= MaxPools
    BY <1>1, <1>2, LpBoundsAssumption DEF Init
  <2> QED
    BY <1>1, <1>2, <2>1, <2>2 DEF Init, LpTypeOK
<1>5. file.pools = <<>>
  BY DEF Init, Missing
<1> QED
  BY <1>1, <1>2, <1>3, <1>4, <1>5, EmptyResumable DEF Init, LpInv

LEMMA MineStep == LpInv /\ MineBlock => LpInv'
<1> SUFFICES ASSUME LpInv, MineBlock
             PROVE  LpInv'
  OBVIOUS
<1> DEFINE L == Len(created)
<1>1. PICK n \in 0 .. MaxPools - L :
        created' = created \o [k \in 1 .. n |-> head + 1]
  BY DEF MineBlock
<1>2. /\ head \in 0 .. MaxBlock /\ head' = head + 1 /\ head' \in 0 .. MaxBlock
      /\ created \in Seq(0 .. MaxBlock) /\ L \in Nat /\ L <= MaxPools
      /\ UNCHANGED <<file, pc, keep_running, lp_data, i, current_block, failures>>
  BY LpBoundsAssumption DEF MineBlock, LpInv, LpTypeOK
<1>3. /\ [k \in 1 .. n |-> head + 1] \in Seq(0 .. MaxBlock)
      /\ Len([k \in 1 .. n |-> head + 1]) = n /\ n \in Nat
  BY <1>2
<1>4. /\ created' \in Seq(0 .. MaxBlock) /\ Len(created') = L + n
      /\ \A k \in 1 .. L + n :
           created'[k] = IF k <= L THEN created[k] ELSE head + 1
  <2>1. \A k \in 1 .. L + n :
          created'[k] = IF k <= L THEN created[k]
                        ELSE [m \in 1 .. n |-> head + 1][k - L]
    BY <1>1, <1>2, <1>3, ConcatProperties
  <2>2. \A k \in 1 .. L + n : ~(k <= L) => k - L \in 1 .. n
    BY <1>2, <1>3
  <2>3. created' \in Seq(0 .. MaxBlock) /\ Len(created') = L + n
    BY <1>1, <1>2, <1>3, ConcatProperties
  <2> QED
    BY <2>1, <2>2, <2>3
<1>5. PICK d : d = created'
  OBVIOUS
<1>6. \A k \in 1 .. L : created[k] \in Nat /\ created[k] <= head
  <2>1. \A k \in 1 .. L : created[k] \in 0 .. MaxBlock
    BY <1>2, ElementOfSeq
  <2> QED
    BY <2>1 DEF LpInv
<1>7. /\ Len(created) <= Len(d)
      /\ \A k \in 1 .. Len(created) : d[k] = created[k] /\ created[k] <= head
      /\ \A k \in Len(created) + 1 .. Len(d) : head < d[k]
  BY <1>2, <1>3, <1>4, <1>5, <1>6
<1>8. InChainOrder(d) /\ \A k \in 1 .. Len(d) : d[k] <= head'
  <2>1. \A k \in 1 .. Len(d) : d[k] \in Nat /\ d[k] <= head + 1
    BY <1>2, <1>3, <1>4, <1>5, <1>6
  <2>2. \A j, k \in 1 .. Len(d) : j <= k => d[j] <= d[k]
    <3> TAKE j, k \in 1 .. Len(d)
    <3> HAVE j <= k
    <3>1. CASE k <= L
      BY <3>1, <1>2, <1>3, <1>4, <1>5 DEF LpInv, InChainOrder
    <3>2. CASE ~(k <= L)
      BY <3>2, <2>1, <1>2, <1>3, <1>4, <1>5
    <3> QED
      BY <3>1, <3>2
  <2> QED
    BY <2>1, <2>2, <1>2, <1>4, <1>5 DEF InChainOrder
<1>9. InChainOrder(created) /\ head \in Nat
  BY <1>2 DEF LpInv
<1>10. \A pools : Resumable(created, pools) => Resumable(d, pools)
  <2> SUFFICES ASSUME NEW pools, Resumable(created, pools)
               PROVE  Resumable(d, pools)
    OBVIOUS
  <2>1. LastBlock(created, pools) \in Int /\ LastBlock(created, pools) <= head
    <3>1. CASE pools = <<>>
      BY <3>1, LpBoundsAssumption DEF LastBlock, LpInv
    <3>2. CASE pools # <<>>
      <4>1. pools \in Seq(1 .. L)
        BY DEF Resumable, Listing
      <4>2. pools[Len(pools)] \in 1 .. L
        BY <3>2, <4>1, ElementOfSeq
      <4> QED
        BY <3>2, <4>2, <1>6 DEF LastBlock
    <3> QED
      BY <3>1, <3>2
  <2> QED
    BY <2>1, <1>7, <1>8, <1>9, Grown DEF Resumable
<1>11. LpTypeOK'
  <2>1. Len(created') <= MaxPools
    BY <1>1, <1>2, <1>3, <1>4, LpBoundsAssumption
  <2> QED
    BY <1>2, <1>4, <2>1 DEF LpInv, LpTypeOK
<1>12. pc # "idle" => Listing(created, lp_data)
  BY DEF LpInv, Resumable
<1>13. pc = "scanning" =>
         /\ Within(d, lp_data, i) /\ Within(d, lp_data, current_block)
         /\ OnceFrom(d, lp_data, i)
         /\ Complete(d, lp_data, Passed)
  <2>1. pc = "scanning" => Passed \in Int /\ Passed <= head
    BY <1>2 DEF LpInv, LpTypeOK, Passed
  <2> QED
    BY <2>1, <1>7, <1>8, <1>9, <1>12, Grown DEF LpInv
<1>14. pc = "opened" =>
         /\ Within(d, lp_data, EndBlock)
         /\ OnceFrom(d, lp_data, i + BlockSpan)
         /\ Complete(d, lp_data, EndBlock)
  <2>1. pc = "opened" => EndBlock \in Int /\ EndBlock <= head
    BY <1>2, SpanAssumption DEF LpInv, LpTypeOK, EndBlock
  <2> QED
    BY <2>1, <1>7, <1>8, <1>9, <1>12, Grown DEF LpInv
<1>15. FactoryBlock <= head' /\ current_block' <= head'
  BY <1>2, LpBoundsAssumption DEF LpInv, LpTypeOK
<1> QED
  BY <1>2, <1>5, <1>8, <1>10, <1>11, <1>13, <1>14, <1>15
     DEF LpInv, Passed, EndBlock

(* The fields of a file that is read or written.                           *)
LEMMA FileFields ==
  ASSUME LpTypeOK
  PROVE  /\ file.pools \in Seq(1 .. MaxPools)
         /\ Torn.pools = <<>>
         /\ Torn \in [state : {"missing", "torn", "saved"}, pools : Seq(1 .. MaxPools)]
         /\ \A pools \in Seq(1 .. MaxPools) :
              /\ Saved(pools).pools = pools
              /\ Saved(pools) \in
                   [state : {"missing", "torn", "saved"}, pools : Seq(1 .. MaxPools)]
BY DEF LpTypeOK, Torn, Saved

(* A step that leaves the chain alone.                                     *)
LEMMA ChainUnchanged ==
  ASSUME LpInv, LpTypeOK', UNCHANGED <<head, created>>, current_block' <= head
  PROVE  /\ InChainOrder(created')
         /\ \A k \in 1 .. Len(created') : created'[k] <= head'
         /\ FactoryBlock <= head' /\ current_block' <= head'
BY DEF LpInv

LEMMA StartStep == LpInv /\ StartFactory => LpInv'
<1> SUFFICES ASSUME LpInv, StartFactory
             PROVE  LpInv'
  OBVIOUS
<1> DEFINE last == LastBlock(created, file.pools)
<1>1. /\ lp_data' = file.pools /\ i' = last + 1 /\ current_block' = head
      /\ pc' = "scanning" /\ file' = file
      /\ UNCHANGED <<head, created, failures>>
      /\ keep_running' \in BOOLEAN
  BY LpBoundsAssumption
     DEF StartFactory, Loaded, FirstBlock, PreviousBlock, LastBlock
<1>2. /\ \A k \in 1 .. Len(created) : created[k] \in Nat /\ created[k] <= head
      /\ head \in Nat
  <2>1. \A k \in 1 .. Len(created) : created[k] \in 0 .. MaxBlock
    BY ElementOfSeq DEF LpInv, LpTypeOK
  <2> QED
    BY <2>1 DEF LpInv, LpTypeOK
<1>3. Resumable(created, file.pools) /\ file.pools \in Seq(1 .. Len(created))
  BY DEF LpInv, Resumable, Listing
<1>4. last \in Nat /\ last <= head /\ Within(created, file.pools, last)
  <2>1. CASE file.pools = <<>>
    BY <2>1, LpBoundsAssumption DEF LastBlock, LpInv, Within
  <2>2. CASE file.pools # <<>>
    <3>1. Len(file.pools) \in 1 .. Len(file.pools)
      BY <1>3, <2>2
    <3>2. file.pools[Len(file.pools)] \in 1 .. Len(created)
      BY <1>3, <3>1, ElementOfSeq
    <3>3. Within(created, file.pools, last)
      BY <1>3, <2>2, <3>1 DEF Within, LastBlock, Resumable, Listing
    <3> QED
      BY <1>2, <2>2, <3>2, <3>3 DEF LastBlock
  <2> QED
    BY <2>1, <2>2
<1> HIDE DEF last
<1>5. \A k \in 1 .. Len(file.pools) : created[file.pools[k]] \in Nat
  BY <1>2, <1>3, ElementOfSeq
<1>6. /\ Within(created, file.pools, last + 1)
      /\ Within(created, file.pools, head)
      /\ OnceFrom(created, file.pools, last + 1)
  BY <1>2, <1>4, <1>5 DEF Within, OnceFrom
<1>7. Passed' = last
  BY <1>1, <1>2, <1>4 DEF Passed
<1>8. Complete(created, file.pools, last)
  BY <1>3 DEF Resumable, last
<1>9. LpTypeOK'
  BY <1>1, <1>4, FileFields DEF LpInv, LpTypeOK
<1>10. /\ InChainOrder(created')
       /\ \A k \in 1 .. Len(created') : created'[k] <= head'
       /\ FactoryBlock <= head' /\ current_block' <= head'
  BY <1>1, <1>2, <1>9, ChainUnchanged
<1> QED
  BY <1>1, <1>3, <1>6, <1>7, <1>8, <1>9, <1>10 DEF LpInv

LEMMA FetchStep == LpInv /\ FetchWindow => LpInv'
<1> SUFFICES ASSUME LpInv, FetchWindow
             PROVE  LpInv'
  OBVIOUS
<1>1. PICK logs \in InLogOrder(PoolsCreated(i, EndBlock)) :
        lp_data' = lp_data \o logs
  BY DEF FetchWindow
<1>2. /\ pc = "scanning" /\ i <= current_block /\ pc' = "opened" /\ file' = Torn
      /\ UNCHANGED <<head, created, keep_running, i, current_block, failures>>
  BY DEF FetchWindow
<1>3. /\ i \in Nat /\ current_block \in Nat /\ BlockSpan \in Nat \ {0}
      /\ EndBlock \in Nat /\ i <= EndBlock /\ Passed = i - 1
  BY <1>2, SpanAssumption DEF LpInv, LpTypeOK, EndBlock, Passed
<1>4. Listing(created, lp_data) /\ InChainOrder(created)
  BY <1>2 DEF LpInv, Resumable
<1>5. /\ Within(created, lp_data, i) /\ OnceFrom(created, lp_data, i)
      /\ Complete(created, lp_data, i - 1)
  BY <1>2, <1>3 DEF LpInv
<1>6. logs \in InLogOrder({k \in 1 .. Len(created) :
                             i <= created[k] /\ created[k] <= EndBlock})
  BY DEF PoolsCreated
<1>7. /\ Listing(created, lp_data')
      /\ Within(created, lp_data', EndBlock)
      /\ OnceFrom(created, lp_data', i + 1)
      /\ Complete(created, lp_data', EndBlock)
  BY <1>1, <1>3, <1>4, <1>5, <1>6, Extended
<1>8. /\ Len(created) \in Nat /\ Len(created) <= MaxPools
      /\ \A k \in 1 .. Len(lp_data') : created[lp_data'[k]] \in Nat
  <2>1. /\ created \in Seq(0 .. MaxBlock) /\ Len(created) \in Nat
        /\ Len(created) <= MaxPools /\ lp_data' \in Seq(1 .. Len(created))
    BY <1>7 DEF LpInv, LpTypeOK, Listing
  <2>2. \A k \in 1 .. Len(lp_data') : lp_data'[k] \in 1 .. Len(created)
    BY <2>1, ElementOfSeq
  <2>3. \A k \in 1 .. Len(created) : created[k] \in 0 .. MaxBlock
    BY <2>1, ElementOfSeq
  <2> QED
    BY <2>1, <2>2, <2>3
<1>9. OnceFrom(created, lp_data', i + BlockSpan)
  <2>1. \A b \in Nat : i + BlockSpan <= b => i + 1 <= b
    BY <1>3
  <2>2. SUFFICES ASSUME NEW j \in 1 .. Len(lp_data'), NEW k \in 1 .. Len(lp_data'),
                        lp_data'[j] = lp_data'[k],
                        i + BlockSpan <= created[lp_data'[j]]
                 PROVE  j = k
    BY DEF OnceFrom
  <2>3. i + 1 <= created[lp_data'[j]]
    BY <1>8, <2>1, <2>2
  <2> QED
    BY <1>7, <2>2, <2>3 DEF OnceFrom
<1>10. Resumable(created, lp_data')
  BY <1>3, <1>4, <1>7, ResumesFromLast
<1>11. LpTypeOK'
  <2>1. lp_data' \in Seq(1 .. MaxPools)
    BY <1>7, <1>8, ListType
  <2> QED
    BY <1>2, <2>1, FileFields DEF LpInv, LpTypeOK
<1>12. EndBlock' = EndBlock
  BY <1>2 DEF EndBlock
<1>13. /\ Resumable(created, file'.pools)
       /\ Listed(file'.pools) \subseteq Listed(lp_data')
  BY <1>2, <1>4, EmptyResumable, FileFields DEF LpInv, Listed
<1>14. /\ InChainOrder(created')
       /\ \A k \in 1 .. Len(created') : created'[k] <= head'
       /\ FactoryBlock <= head' /\ current_block' <= head'
  BY <1>2, <1>11, ChainUnchanged DEF LpInv
<1> QED
  BY <1>2, <1>7, <1>9, <1>10, <1>11, <1>12, <1>13, <1>14 DEF LpInv

LEMMA FetchKeeps ==
  ASSUME LpInv, FetchWindow
  PROVE  Listed(lp_data) \subseteq Listed(lp_data')
<1>1. PICK logs \in InLogOrder(PoolsCreated(i, EndBlock)) :
        lp_data' = lp_data \o logs
  BY DEF FetchWindow
<1>2. /\ i \in Nat /\ EndBlock \in Nat /\ i <= EndBlock /\ Passed = i - 1
  BY SpanAssumption DEF FetchWindow, LpInv, LpTypeOK, EndBlock, Passed
<1>3. /\ Listing(created, lp_data) /\ InChainOrder(created)
      /\ Within(created, lp_data, i) /\ OnceFrom(created, lp_data, i)
      /\ Complete(created, lp_data, i - 1)
  BY <1>2 DEF FetchWindow, LpInv, Resumable
<1>4. logs \in InLogOrder({k \in 1 .. Len(created) :
                             i <= created[k] /\ created[k] <= EndBlock})
  BY DEF PoolsCreated
<1> QED
  BY <1>1, <1>2, <1>3, <1>4, Extended

LEMMA SaveStep == LpInv /\ SaveWindow => LpInv'
<1> SUFFICES ASSUME LpInv, SaveWindow
             PROVE  LpInv'
  OBVIOUS
<1>1. /\ pc = "opened" /\ pc' = "scanning" /\ file' = Saved(lp_data)
      /\ i' = i + BlockSpan
      /\ UNCHANGED <<head, created, keep_running, lp_data, current_block, failures>>
  BY DEF SaveWindow, NextWindow
<1>2. /\ i \in Nat /\ current_block \in Nat /\ BlockSpan \in Nat \ {0}
      /\ i <= current_block /\ lp_data \in Seq(1 .. MaxPools)
  BY <1>1, SpanAssumption DEF LpInv, LpTypeOK
<1>3. /\ Resumable(created, lp_data) /\ Within(created, lp_data, EndBlock)
      /\ OnceFrom(created, lp_data, i') /\ Complete(created, lp_data, EndBlock)
  BY <1>1 DEF LpInv
<1>4. /\ EndBlock \in Nat /\ EndBlock <= i' /\ EndBlock <= current_block
      /\ Passed' \in Nat /\ Passed' <= EndBlock
  BY <1>1, <1>2 DEF EndBlock, Passed
<1>5. /\ \A k \in 1 .. Len(created) : created[k] \in Nat
      /\ \A k \in 1 .. Len(lp_data) : created[lp_data[k]] \in Nat
  <2>1. created \in Seq(0 .. MaxBlock) /\ lp_data \in Seq(1 .. Len(created))
    BY <1>3 DEF LpInv, LpTypeOK, Resumable, Listing
  <2>2. \A k \in 1 .. Len(created) : created[k] \in 0 .. MaxBlock
    BY <2>1, ElementOfSeq
  <2>3. \A k \in 1 .. Len(lp_data) : lp_data[k] \in 1 .. Len(created)
    BY <2>1, ElementOfSeq
  <2> QED
    BY <2>2, <2>3
<1>6. Within(created, lp_data, i') /\ Within(created, lp_data, current_block)
  BY <1>1, <1>2, <1>3, <1>4, <1>5 DEF Within
<1>7. Complete(created, lp_data, Passed')
  <2>1. UpTo(created, Passed') \subseteq UpTo(created, EndBlock)
    BY <1>4, <1>5 DEF UpTo
  <2> QED
    BY <1>3, <2>1 DEF Complete
<1>8. LpTypeOK'
  BY <1>1, <1>2, FileFields DEF LpInv, LpTypeOK
<1>9. file'.pools = lp_data
  BY <1>1, <1>2, FileFields DEF LpInv
<1>10. /\ InChainOrder(created')
       /\ \A k \in 1 .. Len(created') : created'[k] <= head'
       /\ FactoryBlock <= head' /\ current_block' <= head'
  BY <1>1, <1>8, ChainUnchanged DEF LpInv
<1> QED
  BY <1>1, <1>3, <1>6, <1>7, <1>8, <1>9, <1>10 DEF LpInv

LEMMA NextLp == LpInv /\ [Next]_vars => LpInv'
<1> SUFFICES ASSUME LpInv, [Next]_vars
             PROVE  LpInv'
  OBVIOUS
<1>1. CASE MineBlock
  BY <1>1, MineStep
<1>2. CASE StartFactory
  BY <1>2, StartStep
<1>3. CASE FetchWindow
  BY <1>3, FetchStep
<1>4. CASE SaveWindow
  BY <1>4, SaveStep
<1>5. CASE EndRange
  <2>1. LpTypeOK'
    BY <1>5 DEF EndRange, LpInv, LpTypeOK
  <2> QED
    BY <1>5, <2>1 DEF EndRange, LpInv
<1>6. CASE OpenFinal
  <2>1. LpTypeOK' /\ file'.pools = <<>>
    BY <1>6, FileFields DEF OpenFinal, LpInv, LpTypeOK
  <2>2. Resumable(created, <<>>) /\ Listed(<<>>) \subseteq Listed(lp_data)
    BY EmptyResumable DEF LpInv, Listed
  <2> QED
    BY <1>6, <2>1, <2>2 DEF OpenFinal, LpInv
<1>7. CASE FinalSave
  <2>1. lp_data \in Seq(1 .. MaxPools)
    BY DEF LpInv, LpTypeOK
  <2>2. LpTypeOK' /\ file'.pools = lp_data
    BY <1>7, <2>1, FileFields DEF FinalSave, LpInv, LpTypeOK
  <2> QED
    BY <1>7, <2>2 DEF FinalSave, LpInv
<1>8. CASE Signal
  <2>1. LpTypeOK'
    BY <1>8 DEF Signal, LpInv, LpTypeOK
  <2> QED
    BY <1>8, <2>1 DEF Signal, LpInv, Passed, EndBlock
<1>9. CASE Die
  <2>1. LpTypeOK'
    BY <1>9, LpBoundsAssumption DEF Die, LpInv, LpTypeOK
  <2> QED
    BY <1>9, <2>1 DEF Die, LpInv
<1>10. CASE UNCHANGED vars
  <2>1. LpTypeOK'
    BY <1>10 DEF vars, LpInv, LpTypeOK
  <2> QED
    BY <1>10, <2>1 DEF vars, LpInv, Passed, EndBlock
<1> QED
  BY <1>1, <1>2, <1>3, <1>4, <1>5, <1>6, <1>7, <1>8, <1>9, <1>10
     DEF Next, Fetcher

LEMMA LpInvariant == Spec => []LpInv
<1>1. Init => LpInv
  BY InitLp
<1>2. LpInv /\ [Next]_vars => LpInv'
  BY NextLp
<1> QED
  BY <1>1, <1>2, PTL DEF Spec

-----------------------------------------------------------------------------
(* What it implies, for every chain, span and sequence of interruptions.   *)

(* The variables keep their types.                                         *)
THEOREM LpTypeCorrect == Spec => []LpTypeOK
<1>1. LpInv => LpTypeOK
  BY DEF LpInv
<1> QED
  BY <1>1, LpInvariant, PTL

(* No pool is skipped for good.                                            *)
THEOREM NoPoolSkipped == Spec => []NothingSkipped
<1>1. LpInv => NothingSkipped
  BY DEF LpInv, NothingSkipped, Resumable, Complete, UpTo, CreatedUpTo,
         PreviousBlock, LastBlock, Passed
<1> QED
  BY <1>1, LpInvariant, PTL

(* The file stays in block order.                                          *)
THEOREM FileInBlockOrder == Spec => []InBlockOrder
<1>1. LpInv => InBlockOrder
  BY DEF LpInv, InBlockOrder, Resumable, Listing
<1> QED
  BY <1>1, LpInvariant, PTL

(* No pool is listed more than twice.                                      *)
THEOREM ListedAtMostTwice == Spec => []AtMostTwice
<1>1. LpInv => AtMostTwice
  <2> SUFFICES ASSUME LpInv, NEW p \in Listed(file.pools),
                      NEW a \in {k \in 1 .. Len(file.pools) : file.pools[k] = p},
                      NEW b \in {k \in 1 .. Len(file.pools) : file.pools[k] = p},
                      NEW c \in {k \in 1 .. Len(file.pools) : file.pools[k] = p}
               PROVE  a = b \/ b = c \/ a = c
    BY DEF AtMostTwice
  <2>1. Listing(created, file.pools)
    BY DEF LpInv, Resumable
  <2>2. /\ a \in 1 .. Len(file.pools) /\ b \in 1 .. Len(file.pools)
        /\ c \in 1 .. Len(file.pools) /\ Len(file.pools) \in Nat
        /\ file.pools[a] = p /\ file.pools[b] = p /\ file.pools[c] = p
    BY <2>1 DEF Listing
  <2>3. \A x, y, z \in 1 .. Len(file.pools) :
          x < y /\ y < z =>
            ~(file.pools[x] = file.pools[y] /\ file.pools[y] = file.pools[z])
    BY <2>1 DEF Listing
  <2> QED
    BY <2>2, <2>3
<1> QED
  BY <1>1, LpInvariant, PTL

(* The file is truncated only while the memory holds all it held.          *)
THEOREM TruncationIsSafe == Spec => TruncatedWhenHeld
<1>1. LpInv /\ LpInv' /\ [Next]_vars
        => [file.state = "saved" /\ file'.state = "torn"
              => Listed(file.pools) \subseteq Listed(lp_data')]_vars
  <2> SUFFICES ASSUME LpInv, LpInv', Next,
                      file.state = "saved", file'.state = "torn"
               PROVE  Listed(file.pools) \subseteq Listed(lp_data')
    OBVIOUS
  <2>1. CASE FetchWindow
    BY <2>1, FetchKeeps DEF FetchWindow, LpInv
  <2>2. CASE OpenFinal
    BY <2>2 DEF OpenFinal, LpInv
  <2>3. CASE ~(FetchWindow \/ OpenFinal)
    <3>1. file' = file \/ file' = Saved(lp_data)
      BY <2>3 DEF Next, Fetcher, SaveWindow, EndRange, FinalSave, StartFactory,
                  MineBlock, Signal, Die
    <3> QED
      BY <3>1 DEF Saved
  <2> QED
    BY <2>1, <2>2, <2>3
<1> QED
  BY <1>1, LpInvariant, PTL DEF Spec, TruncatedWhenHeld
-----------------------------------------------------------------------------
(* The refinement of PoolFile.                                             *)

(* Between the rewrites the memory holds what the file holds.              *)
MemoryIsFile ==
  /\ pc \in {"scanning", "stopping"} => file.state # "torn" /\ lp_data = file.pools
  /\ Writing => file.state = "torn"
  /\ file.state # "saved" => file.pools = <<>>

LEMMA MemoryStep == LpInv /\ MemoryIsFile /\ [Next]_vars => MemoryIsFile'
<1> SUFFICES ASSUME LpInv, MemoryIsFile, [Next]_vars
             PROVE  MemoryIsFile'
  OBVIOUS
<1>1. CASE FetchWindow \/ OpenFinal
  BY <1>1 DEF FetchWindow, OpenFinal, MemoryIsFile, Writing, Torn
<1>2. CASE SaveWindow \/ FinalSave
  BY <1>2 DEF SaveWindow, FinalSave, MemoryIsFile, Writing, Saved
<1>3. CASE StartFactory
  BY <1>3 DEF StartFactory, MemoryIsFile, Writing, Loaded
<1>4. CASE EndRange \/ Die \/ MineBlock \/ Signal \/ UNCHANGED vars
  BY <1>4 DEF EndRange, Die, MineBlock, Signal, vars, MemoryIsFile, Writing
<1> QED
  BY <1>1, <1>2, <1>3, <1>4 DEF Next, Fetcher

LEMMA MemoryInvariant == Spec => []MemoryIsFile
<1>1. Init => MemoryIsFile
  BY DEF Init, MemoryIsFile, Writing, Missing
<1> QED
  BY <1>1, MemoryStep, LpInvariant, PTL DEF Spec

(* A list that a run resumes from is one that the file may hold.           *)
LEMMA ResumableIsUsable ==
  ASSUME Resumable(created, lp_data) PROVE PF!Usable(lp_data)
<1>1. Listing(created, lp_data) /\ UpTo(created, LastBlock(created, lp_data)) \subseteq Listed(lp_data)
  BY DEF Resumable, Complete
<1>2. PF!ResumeBlock(lp_data) = LastBlock(created, lp_data)
  BY DEF PF!ResumeBlock, LastBlock
<1> QED
  BY <1>1, <1>2 DEF PF!Usable, Listing, UpTo, Listed

(* Each step of the fetcher, the chain or the machine is a step of the     *)
(* file or leaves it alone.                                                *)
LEMMA FileStep ==
  ASSUME LpInv, LpInv', MemoryIsFile, [Next]_vars
  PROVE  [PF!Next]_(PF!vars)
<1> DEFINE filePools == IF Writing THEN lp_data ELSE file.pools
<1>1. CASE MineBlock
  <2>1. /\ head < MaxBlock /\ head' = head + 1
        /\ UNCHANGED <<FileState, filePools>>
    BY <1>1 DEF MineBlock, FileState, Writing
  <2>2. PICK n \in 0 .. MaxPools - Len(created) :
          created' = created \o [k \in 1 .. n |-> head + 1]
    BY <1>1 DEF MineBlock
  <2>3. created \in Seq(0 .. MaxBlock) /\ Len(created) \in Nat /\ n \in Nat
    BY DEF LpInv, LpTypeOK
  <2>4. /\ Len(created') = Len(created) + n
        /\ \A k \in 1 .. Len(created) : created'[k] = created[k]
        /\ \A k \in 1 .. Len(created') : k > Len(created) => created'[k] = head + 1
    <3> DEFINE S == 0 .. MaxBlock \cup {head + 1}
               new == [k \in 1 .. n |-> head + 1]
    <3>1. created \in Seq(S) /\ new \in Seq(S) /\ Len(new) = n
      <4>1. 0 .. MaxBlock \subseteq S
        OBVIOUS
      <4>2. created \in Seq(S)
        BY <2>3, <4>1, SeqMonotonic
      <4>3. new \in [1 .. n -> S]
        OBVIOUS
      <4>4. new \in Seq(S) /\ Len(new) = n
        BY <2>3, <4>3
      <4> QED
        BY <4>2, <4>4
    <3>2. /\ Len(created') = Len(created) + n
          /\ \A k \in 1 .. Len(created) + n :
               created'[k] = IF k <= Len(created) THEN created[k]
                                                  ELSE new[k - Len(created)]
      BY <2>2, <3>1, ConcatProperties
    <3>3. \A k \in 1 .. Len(created) : k \in 1 .. Len(created) + n /\ k <= Len(created)
      BY <2>3
    <3>4. \A k \in 1 .. Len(created) + n :
            k > Len(created) => ~(k <= Len(created)) /\ k - Len(created) \in 1 .. n
      BY <2>3
    <3> QED
      BY <3>2, <3>3, <3>4
  <2> QED
    BY <2>1, <2>3, <2>4 DEF PF!Next, PF!MineBlock, PF!Extends
<1>2. CASE FetchWindow
  <2>1. /\ pc = "scanning" /\ pc' = "opened" /\ file' = Torn
        /\ UNCHANGED <<head, created>>
    BY <1>2 DEF FetchWindow
  <2>2. /\ FileState \in {"missing", "saved"} /\ filePools = lp_data
        /\ FileState' = "rewriting" /\ filePools' = lp_data'
    BY <2>1 DEF FileState, Writing, MemoryIsFile, LpInv, LpTypeOK
  <2>3. PF!Usable(lp_data')
    <3>1. Resumable(created, lp_data)'
      BY <2>1 DEF LpInv
    <3>2. Listing(created, lp_data)' /\ UpTo(created, LastBlock(created, lp_data))' \subseteq Listed(lp_data)'
      BY <3>1 DEF Resumable, Complete
    <3>3. PF!ResumeBlock(lp_data') = LastBlock(created, lp_data)'
      BY <2>1 DEF PF!ResumeBlock, LastBlock
    <3> QED
      BY <2>1, <3>2, <3>3 DEF PF!Usable, Listing, UpTo, Listed
  <2>4. PF!Extends(lp_data', lp_data)
    <3>1. PICK logs \in InLogOrder(PoolsCreated(i, EndBlock)) :
            lp_data' = lp_data \o logs
      BY <1>2 DEF FetchWindow
    <3>2. Len(created) \in Nat /\ lp_data \in Seq(1 .. MaxPools)
      BY DEF LpInv, LpTypeOK
    <3>3. logs \in Seq(PoolsCreated(i, EndBlock))
      <4>1. PoolsCreated(i, EndBlock) \in SUBSET (1 .. Len(created))
        BY DEF PoolsCreated
      <4> QED
        BY <3>2, <4>1, LogsOfWindow
    <3>4. /\ Len(lp_data') = Len(lp_data) + Len(logs)
          /\ \A k \in 1 .. Len(lp_data) + Len(logs) :
               lp_data'[k] = IF k <= Len(lp_data) THEN lp_data[k]
                                                  ELSE logs[k - Len(lp_data)]
      <4> DEFINE S == 1 .. MaxPools \cup PoolsCreated(i, EndBlock)
      <4>1. lp_data \in Seq(S) /\ logs \in Seq(S)
        BY <3>2, <3>3, SeqMonotonic
      <4> QED
        BY <3>1, <4>1, ConcatProperties
    <3>5. Len(lp_data) \in Nat /\ Len(logs) \in Nat
      BY <3>2, <3>3
    <3>6. \A k \in 1 .. Len(lp_data) : k \in 1 .. Len(lp_data) + Len(logs) /\ k <= Len(lp_data)
      BY <3>5
    <3> QED
      BY <3>4, <3>5, <3>6 DEF PF!Extends
  <2>5. PF!Usable(filePools') /\ PF!Extends(filePools', filePools)
    BY <2>2, <2>3, <2>4
  <2> QED
    BY <2>1, <2>2, <2>5 DEF PF!Next, PF!Rewrite
<1>3. CASE OpenFinal
  <2>1. /\ pc = "stopping" /\ pc' = "final" /\ file' = Torn
        /\ UNCHANGED <<head, created, lp_data>>
    BY <1>3 DEF OpenFinal
  <2>2. /\ FileState \in {"missing", "saved"} /\ filePools = lp_data
        /\ FileState' = "rewriting" /\ filePools' = lp_data
    BY <2>1 DEF FileState, Writing, MemoryIsFile, LpInv, LpTypeOK
  <2>3. PF!Usable(lp_data) /\ Len(lp_data) \in Nat
    BY <2>1, ResumableIsUsable DEF LpInv, LpTypeOK
  <2>4. PF!Extends(lp_data, lp_data)
    BY <2>3 DEF PF!Extends
  <2>5. PF!Usable(filePools') /\ PF!Extends(filePools', filePools)
    BY <2>2, <2>3, <2>4
  <2> QED
    BY <2>1, <2>2, <2>5 DEF PF!Next, PF!Rewrite
<1>4. CASE SaveWindow \/ FinalSave
  BY <1>4 DEF SaveWindow, FinalSave, Saved, FileState, Writing, PF!Next, PF!Save
<1>5. CASE Die
  <2>1. CASE Writing
    BY <1>5, <2>1 DEF Die, MemoryIsFile, FileState, Writing, PF!Next, PF!Lose
  <2>2. CASE ~Writing
    BY <1>5, <2>2 DEF Die, FileState, Writing, PF!vars
  <2> QED
    BY <2>1, <2>2
<1>6. CASE StartFactory \/ EndRange \/ Signal
  BY <1>6 DEF StartFactory, EndRange, Signal, FileState, Writing, PF!vars
<1>7. CASE UNCHANGED vars
  BY <1>7 DEF vars, FileState, Writing, PF!vars
<1> QED
  BY <1>1, <1>2, <1>3, <1>4, <1>5, <1>6, <1>7 DEF Next, Fetcher

(* The runs of a fetcher are those of a file that is only ever extended,   *)
(* and from which every later run can go on, until it is lost.             *)
THEOREM PoolFileImplemented == Spec => ImplementsPoolFile
<1>1. Init => PF!Init
  BY DEF Init, Missing, FileState, Writing, PF!Init
<1>2. LpInv /\ LpInv' /\ MemoryIsFile /\ [Next]_vars => [PF!Next]_(PF!vars)
  BY FileStep
<1> QED
  BY <1>1, <1>2, LpInvariant, MemoryInvariant, PTL
     DEF Spec, ImplementsPoolFile, PF!Spec
-----------------------------------------------------------------------------
(* Why a run ends.                                                         *)

(* A bound on the steps that a running process has left.                   *)
BlocksLeft == IF i > current_block THEN 0 ELSE current_block + 1 - i
StepsLeft ==
  CASE pc = "scanning" -> 2 * BlocksLeft + 3
    [] pc = "opened"   -> 2 * BlocksLeft + 2
    [] pc = "stopping" -> 2
    [] pc = "final"    -> 1
    [] pc = "idle"     -> 0

LEMMA StepsLeftType == LpInv => BlocksLeft \in Nat /\ StepsLeft \in Nat
<1> SUFFICES ASSUME LpInv PROVE BlocksLeft \in Nat /\ StepsLeft \in Nat
  OBVIOUS
<1>1. i \in Nat /\ current_block \in Nat /\ pc \in {"idle", "scanning", "opened", "stopping", "final"}
  BY DEF LpInv, LpTypeOK
<1>2. BlocksLeft \in Nat
  BY <1>1 DEF BlocksLeft
<1> QED
  BY <1>1, <1>2 DEF StepsLeft

(* The safety half of EveryRunEnds: every step of main() takes a run       *)
(* nearer to its end, for any span, and neither a new block nor a signal   *)
(* takes it further away, since current_block is read once.                *)
THEOREM RunsGetShorter ==
  Spec => [][/\ Fetcher => StepsLeft' < StepsLeft
             /\ ~StartFactory => StepsLeft' <= StepsLeft]_vars
<1> DEFINE Shorter == /\ Fetcher => StepsLeft' < StepsLeft
                      /\ ~StartFactory => StepsLeft' <= StepsLeft
<1>0. (LpInv => BlocksLeft \in Nat /\ StepsLeft \in Nat)'
  BY StepsLeftType, PTL
<1>1. ASSUME LpInv, LpInv', Next PROVE Shorter
  <2>1. /\ BlocksLeft \in Nat /\ StepsLeft \in Nat
        /\ BlocksLeft' \in Nat /\ StepsLeft' \in Nat
        /\ i \in Nat /\ current_block \in Nat /\ BlockSpan \in Nat \ {0}
    <3>1. BlocksLeft \in Nat /\ StepsLeft \in Nat
      BY <1>1, StepsLeftType
    <3>2. BlocksLeft' \in Nat /\ StepsLeft' \in Nat
      BY <1>0, <1>1
    <3> QED
      BY <1>1, <3>1, <3>2, SpanAssumption DEF LpInv, LpTypeOK
  <2>2. ASSUME FetchWindow PROVE StepsLeft' < StepsLeft
    <3>1. BlocksLeft' = BlocksLeft /\ pc = "scanning" /\ pc' = "opened"
      BY <2>2 DEF FetchWindow, BlocksLeft
    <3> QED
      BY <2>1, <3>1 DEF StepsLeft
  <2>3. ASSUME SaveWindow PROVE StepsLeft' < StepsLeft
    <3>1. /\ pc = "opened" /\ pc' = "scanning" /\ i' = i + BlockSpan
          /\ current_block' = current_block /\ i <= current_block
      BY <1>1, <2>3 DEF SaveWindow, NextWindow, LpInv
    <3>2. BlocksLeft' < BlocksLeft
      BY <2>1, <3>1 DEF BlocksLeft
    <3> QED
      BY <2>1, <3>1, <3>2 DEF StepsLeft
  <2>4. ASSUME EndRange \/ OpenFinal \/ FinalSave PROVE StepsLeft' < StepsLeft
    BY <2>1, <2>4 DEF EndRange, OpenFinal, FinalSave, StepsLeft
  <2>5. ASSUME MineBlock \/ Signal PROVE StepsLeft' = StepsLeft
    BY <2>5 DEF MineBlock, Signal, StepsLeft, BlocksLeft
  <2>6. ASSUME Die PROVE StepsLeft' <= StepsLeft
    <3>1. StepsLeft' = 0
      BY <2>6 DEF Die, StepsLeft
    <3> QED
      BY <2>1, <3>1
  <2>7. Fetcher => StepsLeft' < StepsLeft
    BY <2>2, <2>3, <2>4 DEF Fetcher
  <2> QED
    BY <1>1, <2>1, <2>5, <2>6, <2>7 DEF Next
<1>2. LpInv /\ LpInv' /\ [Next]_vars => [Shorter]_vars
  BY <1>1
<1> QED
  BY <1>2, LpInvariant, PTL DEF Spec
=============================================================================
