----------------------- MODULE ArbitrageServiceProofs -----------------------
(***************************************************************************)
(* The selection of process_onchain_arbs for any set of cycles, any number *)
(* of concurrent tasks and any order of results.  The invariant follows    *)
(* the working set: what is in it conflicts with nothing that was chosen,  *)
(* and what left it was chosen or lost to a chosen cycle.                  *)
(***************************************************************************)
EXTENDS ArbitrageService, SequenceTheorems, TLAPS

(* The task's fields fit its state.                                        *)
Shaped(T) ==
  /\ T \in Task
  /\ T.pending \subseteq T.arbs
  /\ T.pending # {} => T.state = "calculating"
  /\ T.state \in {"none", "created"} => T.results = <<>>
  /\ T.state \in {"none", "created", "calculating"} => T.work = {} /\ T.chosen = {}
  /\ T.state \in {"reported", "empty"} => T.work = {}
  /\ T.state \in {"selecting", "reported", "empty"} => T.pending = {}
  /\ T.state = "reported" => T.chosen # {}

Beats(results, j, i) ==
  /\ results[j].profit >= results[i].profit
  /\ Conflict(results, j, i)

(* The selection so far.                                                   *)
Selected(T) ==
  /\ T.work \subseteq Profitable(T.results)
  /\ T.chosen \subseteq Profitable(T.results)
  /\ \A i \in T.work : \A j \in T.chosen : ~Conflict(T.results, i, j)
  /\ \A i, j \in T.chosen : i # j => ~Conflict(T.results, i, j)
  /\ T.state \in {"selecting", "reported", "empty"} =>
       \A i \in Profitable(T.results) :
         i \in T.work \/ i \in T.chosen \/ \E j \in T.chosen : Beats(T.results, j, i)

(* All cycles of a task contain the pool it was created for, and those     *)
(* with a result are no longer pending.                                    *)
Sharing(T) ==
  /\ \E p \in ArbPools : \A a \in T.arbs : p \in PoolSet(a)
  /\ \A i \in 1 .. Len(T.results) : T.results[i].arb \in T.arbs \ T.pending

TaskOK(T) == Shaped(T) /\ Selected(T) /\ (T.state # "none" => Sharing(T))
                /\ (T.state = "none" => T.results = <<>>)

SInv ==
  /\ queue \in Seq(ArbPools)
  /\ task \in [TaskIds -> Task]
  /\ \A t \in TaskIds : TaskOK(task[t])

-----------------------------------------------------------------------------
(* The invariant implies the properties.                                   *)

(* Whether two results conflict does not depend on their order.            *)
LEMMA ConflictSymmetric ==
  \A results, i, j : Conflict(results, i, j) <=> Conflict(results, j, i)
  BY DEF Conflict

LEMMA PropertiesFollow ==
  SInv => ArbTypeOK /\ LeftOutForBetter
<1> SUFFICES ASSUME SInv
             PROVE  ArbTypeOK /\ LeftOutForBetter
  OBVIOUS
<1>1. ArbTypeOK
  BY DEF SInv, ArbTypeOK
<1>2. ASSUME NEW t \in TaskIds, task[t].state \in {"reported", "empty"},
             NEW i \in 1 .. Len(task[t].results)
      PROVE  \/ task[t].results[i].profit < 0
             \/ i \in task[t].chosen
             \/ \E j \in task[t].chosen :
                  /\ task[t].results[j].profit >= task[t].results[i].profit
                  /\ PoolSet(task[t].results[i].arb)
                       \cap PoolSet(task[t].results[j].arb) # {}
  <2>1. TaskOK(task[t])
    BY DEF SInv
  <2>2. task[t].results[i].profit \in Int
    <3>1. task[t].results \in Seq(Result)
      BY <2>1 DEF TaskOK, Shaped, Task
    <3>2. task[t].results[i] \in Result
      BY <3>1, ElementOfSeq
    <3> QED
      BY <3>2, CyclesAssumption DEF Result
  <2>3. task[t].work = {}
    BY <1>2, <2>1 DEF TaskOK, Shaped
  <2>4. CASE task[t].results[i].profit >= 0
    <3>1. i \in Profitable(task[t].results)
      BY <2>4 DEF Profitable
    <3>2. i \in task[t].chosen \/ \E j \in task[t].chosen : Beats(task[t].results, j, i)
      BY <1>2, <2>1, <2>3, <3>1 DEF TaskOK, Selected
    <3> QED
      BY <3>2 DEF Beats, Conflict
  <2> QED
    BY <2>2, <2>4
<1>3. LeftOutForBetter
  BY <1>2 DEF LeftOutForBetter
<1> QED
  BY <1>1, <1>3

(* All results share a pool, so only one of them can be chosen, and the    *)
(* others lost to it or earn less than nothing.                            *)
LEMMA BestFollows == SInv => ReportsTheBest
<1> SUFFICES ASSUME SInv, NEW t \in TaskIds, task[t].state = "reported"
             PROVE  \E i \in task[t].chosen :
                      /\ task[t].chosen = {i}
                      /\ \A j \in 1 .. Len(task[t].results) :
                           task[t].results[j].profit <= task[t].results[i].profit
  BY DEF ReportsTheBest
<1> DEFINE T == task[t]
<1>1. TaskOK(T) /\ Sharing(T)
  BY DEF SInv, TaskOK
<1>2. PICK i \in T.chosen : TRUE
  BY <1>1 DEF TaskOK, Shaped
<1>3. T.chosen \subseteq 1 .. Len(T.results) /\ T.results[i].profit >= 0
  BY <1>1, <1>2 DEF TaskOK, Selected, Profitable
<1>4. \A j \in 1 .. Len(T.results) : T.results[j].profit \in Int
  <2>1. T.results \in Seq(Result)
    BY <1>1 DEF TaskOK, Shaped, Task
  <2>2. \A j \in 1 .. Len(T.results) : T.results[j] \in Result
    BY <2>1, ElementOfSeq
  <2> QED
    BY <2>2, CyclesAssumption DEF Result
<1>5. \A j \in T.chosen : Conflict(T.results, i, j)
  BY <1>1, <1>2, <1>3 DEF Sharing, Conflict
<1>6. T.chosen = {i}
  BY <1>1, <1>2, <1>5 DEF TaskOK, Selected
<1>7. ASSUME NEW j \in 1 .. Len(T.results)
      PROVE  T.results[j].profit <= T.results[i].profit
  <2>1. CASE T.results[j].profit < 0
    BY <1>2, <1>3, <1>4, <2>1
  <2>2. CASE T.results[j].profit >= 0
    <3>1. j \in Profitable(T.results)
      BY <2>2 DEF Profitable
    <3>2. j \in T.chosen \/ \E k \in T.chosen : Beats(T.results, k, j)
      BY <1>1, <3>1 DEF TaskOK, Shaped, Selected
    <3>3. j = i \/ Beats(T.results, i, j)
      BY <1>6, <3>2
    <3>4. T.results[i].profit \in Int
      BY <1>2, <1>3, <1>4
    <3> QED
      BY <1>4, <3>3, <3>4 DEF Beats
  <2> QED
    BY <1>4, <2>1, <2>2
<1> QED
  BY <1>2, <1>6, <1>7

-----------------------------------------------------------------------------
(* The invariant is inductive.                                             *)

LEMMA InitSInv == ArbInit => SInv
<1> SUFFICES ASSUME ArbInit PROVE SInv
  OBVIOUS
<1>1. queue \in Seq(ArbPools) /\ <<>> \in Seq(Result) /\ Len(<<>>) = 0
  BY EmptySeq DEF ArbInit
<1>2. NoTask \in Task
  BY <1>1 DEF NoTask, Task, States
<1>3. TaskOK(NoTask)
  BY <1>2 DEF TaskOK, Shaped, Selected, NoTask, Profitable
<1> QED
  BY <1>1, <1>2, <1>3 DEF ArbInit, SInv

(* A step that changes one task needs that task checked only.              *)
LEMMA OneTask ==
  ASSUME SInv, NEW t \in TaskIds, NEW T,
         task' = [task EXCEPT ![t] = T], TaskOK(T), queue' \in Seq(ArbPools)
  PROVE  SInv'
<1>1. T \in Task
  BY DEF TaskOK, Shaped
<1>2. task' \in [TaskIds -> Task]
  BY <1>1 DEF SInv
<1>3. \A s \in TaskIds : TaskOK(task'[s])
  <2> TAKE s \in TaskIds
  <2>1. CASE s = t
    BY <2>1 DEF SInv
  <2>2. CASE s # t
    BY <2>2 DEF SInv
  <2> QED BY <2>1, <2>2
<1> QED
  BY <1>2, <1>3 DEF SInv

LEMMA FindOK == SInv /\ FindOnchainArbs => SInv'
<1> SUFFICES ASSUME SInv, FindOnchainArbs PROVE SInv'
  OBVIOUS
<1>1. Tail(queue) \in Seq(ArbPools) /\ Head(queue) \in ArbPools
  BY HeadTailProperties DEF SInv, FindOnchainArbs
<1>2. CASE UNCHANGED task
  BY <1>1, <1>2 DEF SInv, FindOnchainArbs
<1>3. CASE \E t \in TaskIds :
             /\ task[t].state = "none"
             /\ task' = [task EXCEPT ![t].state = "created",
                                     ![t].arbs = FindAffectedArbs(Head(queue))]
  <2>1. PICK t \in TaskIds :
             /\ task[t].state = "none"
             /\ task' = [task EXCEPT ![t].state = "created",
                                     ![t].arbs = FindAffectedArbs(Head(queue))]
    BY <1>3
  <2> DEFINE T == [task[t] EXCEPT !.state = "created",
                                  !.arbs = FindAffectedArbs(Head(queue))]
  <2>2. task[t] \in Task /\ TaskOK(task[t])
    BY DEF SInv
  <2>3. /\ T \in Task /\ T.state = "created" /\ T.arbs = FindAffectedArbs(Head(queue))
        /\ T.pending = task[t].pending /\ T.results = task[t].results
        /\ T.work = task[t].work /\ T.chosen = task[t].chosen
    BY <2>2 DEF Task, States, FindAffectedArbs
  <2>4. T.pending = {} /\ T.results = <<>> /\ T.work = {} /\ T.chosen = {}
    BY <2>1, <2>2, <2>3 DEF TaskOK, Shaped
  <2>5. \A a \in FindAffectedArbs(Head(queue)) : Head(queue) \in PoolSet(a)
    <3> SUFFICES ASSUME NEW a \in FindAffectedArbs(Head(queue))
                 PROVE  Head(queue) \in PoolSet(a)
      OBVIOUS
    <3>1. a \in Arbs /\ Len(SwapPools[a]) \in {2, 3}
      BY CyclesAssumption DEF FindAffectedArbs
    <3>2. Head(queue) = SwapPools[a][1] \/ Head(queue) = SwapPools[a][2]
      BY DEF FindAffectedArbs
    <3> QED
      BY <3>1, <3>2 DEF PoolSet
  <2> HIDE DEF T
  <2>6. TaskOK(T)
    BY <1>1, <2>3, <2>4, <2>5, EmptySeq DEF TaskOK, Shaped, Selected, Sharing, Profitable
  <2>7. task' = [task EXCEPT ![t] = T]
    BY <2>1 DEF SInv, T
  <2> QED
    BY <1>1, <2>6, <2>7, OneTask DEF FindOnchainArbs
<1> QED
  BY <1>2, <1>3 DEF FindOnchainArbs

LEMMA SubmitOK == ASSUME SInv, NEW t \in TaskIds, SubmitCalculations(t) PROVE SInv'
<1>1. PICK sent \in SUBSET task[t].arbs :
        task' = [task EXCEPT ![t].state = "calculating", ![t].pending = sent]
  BY DEF SubmitCalculations
<1> DEFINE T == [task[t] EXCEPT !.state = "calculating", !.pending = sent]
<1>2. task[t] \in Task /\ TaskOK(task[t]) /\ task[t].state = "created"
  BY DEF SInv, SubmitCalculations
<1>3. /\ T \in Task /\ T.state = "calculating" /\ T.pending = sent
      /\ T.arbs = task[t].arbs /\ T.results = task[t].results
      /\ T.work = task[t].work /\ T.chosen = task[t].chosen
  BY <1>2 DEF Task, States
<1>4. task' = [task EXCEPT ![t] = T]
  BY <1>1 DEF SInv
<1> HIDE DEF T
<1>5. T.results = <<>> /\ T.work = {} /\ T.chosen = {} /\ Len(T.results) = 0
  BY <1>2, <1>3, EmptySeq DEF TaskOK, Shaped
<1>6. TaskOK(T)
  BY <1>2, <1>3, <1>5 DEF TaskOK, Shaped, Selected, Sharing
<1> QED
  BY <1>4, <1>6, OneTask DEF SInv, SubmitCalculations

(* The result that is appended belongs to a cycle that had none.           *)
LEMMA DoneOK ==
  ASSUME SInv, NEW t \in TaskIds, NEW a \in Arbs, NEW profit \in Profits,
         CalculationDone(t, a, profit)
  PROVE  SInv'
<1> DEFINE r == [arb |-> a, profit |-> profit]
           T == [task[t] EXCEPT !.pending = @ \ {a}, !.results = Append(@, r)]
<1>1. /\ task[t] \in Task /\ TaskOK(task[t]) /\ a \in task[t].pending
      /\ task[t].results \in Seq(Result) /\ r \in Result
  BY DEF SInv, CalculationDone, Task, Result
<1>2. task[t].state = "calculating" /\ task[t].work = {} /\ task[t].chosen = {}
      /\ Sharing(task[t])
  BY <1>1 DEF TaskOK, Shaped
<1>3. /\ Append(task[t].results, r) \in Seq(Result)
      /\ Len(Append(task[t].results, r)) = Len(task[t].results) + 1
      /\ Len(task[t].results) \in Nat
      /\ Append(task[t].results, r)[Len(task[t].results) + 1] = r
      /\ \A i \in 1 .. Len(task[t].results) :
           Append(task[t].results, r)[i] = task[t].results[i]
  BY <1>1
<1>4. /\ T \in Task /\ T.state = "calculating" /\ T.pending = task[t].pending \ {a}
      /\ T.arbs = task[t].arbs /\ T.results = Append(task[t].results, r)
      /\ T.work = {} /\ T.chosen = {}
  BY <1>1, <1>2, <1>3 DEF Task, States
<1>5. task' = [task EXCEPT ![t] = T]
  BY DEF SInv, CalculationDone
<1> HIDE DEF T
<1>6. Sharing(T)
  <2>1. \A i \in 1 .. Len(T.results) :
          \/ i \in 1 .. Len(task[t].results) /\ T.results[i] = task[t].results[i]
          \/ i = Len(task[t].results) + 1 /\ T.results[i].arb = a
    BY <1>3, <1>4
  <2>2. a \in task[t].arbs /\ a \in task[t].pending
    BY <1>1 DEF TaskOK, Shaped
  <2> QED
    BY <1>2, <1>4, <2>1, <2>2 DEF Sharing
<1>7. TaskOK(T)
  <2>1. Shaped(T)
    BY <1>1, <1>4 DEF TaskOK, Shaped
  <2>2. Selected(T)
    BY <1>4 DEF Selected
  <2> QED
    BY <1>4, <1>6, <2>1, <2>2 DEF TaskOK
<1> QED
  BY <1>5, <1>7, OneTask DEF SInv, CalculationDone

LEMMA FailedOK ==
  ASSUME SInv, NEW t \in TaskIds, NEW a \in Arbs, CalculationFailed(t, a)
  PROVE  SInv'
<1> DEFINE T == [task[t] EXCEPT !.pending = @ \ {a}]
<1>1. task[t] \in Task /\ TaskOK(task[t]) /\ a \in task[t].pending
  BY DEF SInv, CalculationFailed
<1>2. /\ T \in Task /\ T.state = task[t].state /\ T.pending = task[t].pending \ {a}
      /\ T.arbs = task[t].arbs /\ T.results = task[t].results
      /\ T.work = task[t].work /\ T.chosen = task[t].chosen
  BY <1>1 DEF Task
<1>3. task' = [task EXCEPT ![t] = T]
  BY DEF SInv, CalculationFailed
<1> HIDE DEF T
<1>4. TaskOK(T)
  BY <1>1, <1>2 DEF TaskOK, Shaped, Selected, Sharing
<1> QED
  BY <1>3, <1>4, OneTask DEF SInv, CalculationFailed

(* At the start of the selection nothing has been dropped.                 *)
LEMMA SortOK == ASSUME SInv, NEW t \in TaskIds, SortResults(t) PROVE SInv'
<1> DEFINE work == Profitable(task[t].results)
           T == [task[t] EXCEPT !.state = IF work = {} THEN "empty" ELSE "selecting",
                                !.work = work]
<1>1. /\ task[t] \in Task /\ TaskOK(task[t]) /\ task[t].state = "calculating"
      /\ task[t].pending = {} /\ work \subseteq Nat
  BY DEF SInv, SortResults, Profitable
<1>2. /\ T \in Task /\ T.state = (IF work = {} THEN "empty" ELSE "selecting")
      /\ T.pending = {} /\ T.arbs = task[t].arbs /\ T.results = task[t].results
      /\ T.work = work /\ T.chosen = task[t].chosen
  BY <1>1 DEF Task, States
<1>3. task' = [task EXCEPT ![t] = T]
  BY DEF SInv, SortResults
<1> HIDE DEF T
<1>4. T.chosen = {}
  BY <1>1, <1>2 DEF TaskOK, Shaped
<1>5. Shaped(T)
  BY <1>1, <1>2, <1>4 DEF TaskOK, Shaped
<1>6. Selected(T)
  BY <1>2, <1>4 DEF Selected
<1>7. TaskOK(T)
  BY <1>1, <1>2, <1>5, <1>6 DEF TaskOK, Sharing
<1> QED
  BY <1>3, <1>7, OneTask DEF SInv, SortResults

(* The chosen result beats all that conflict with it, and the rest         *)
(* conflicts with none of the chosen ones.                                 *)
LEMMA SelectOK == ASSUME SInv, NEW t \in TaskIds, SelectMostProfitable(t) PROVE SInv'
<1> DEFINE R == task[t].results
           Rest(i) == {j \in task[t].work \ {i} : ~Conflict(R, i, j)}
<1>1. PICK i \in task[t].work :
        /\ \A j \in task[t].work : SortedBefore(R, i, j)
        /\ task' = [task EXCEPT
                      ![t].state = IF Rest(i) = {} THEN "reported" ELSE "selecting",
                      ![t].work = Rest(i),
                      ![t].chosen = @ \cup {i}]
  BY DEF SelectMostProfitable
<1> DEFINE T == [task[t] EXCEPT
                   !.state = IF Rest(i) = {} THEN "reported" ELSE "selecting",
                   !.work = Rest(i),
                   !.chosen = @ \cup {i}]
<1>2. /\ task[t] \in Task /\ TaskOK(task[t]) /\ task[t].state = "selecting"
      /\ task[t].work \subseteq Nat /\ Rest(i) \subseteq task[t].work
  BY DEF SInv, SelectMostProfitable, Task
<1>3. /\ T \in Task /\ T.state = (IF Rest(i) = {} THEN "reported" ELSE "selecting")
      /\ T.pending = task[t].pending /\ T.arbs = task[t].arbs /\ T.results = R
      /\ T.work = Rest(i) /\ T.chosen = task[t].chosen \cup {i}
  BY <1>2 DEF Task, States
<1>4. task' = [task EXCEPT ![t] = T]
  BY <1>1 DEF SInv
<1> HIDE DEF T
<1>5. Shaped(T)
  BY <1>2, <1>3 DEF TaskOK, Shaped
<1>6. Selected(T)
  <2> HIDE DEF R
  <2>1. /\ task[t].work \subseteq Profitable(R) /\ task[t].chosen \subseteq Profitable(R)
        /\ \A j \in task[t].work : \A k \in task[t].chosen : ~Conflict(R, j, k)
        /\ \A j, k \in task[t].chosen : j # k => ~Conflict(R, j, k)
        /\ \A j \in Profitable(R) :
             j \in task[t].work \/ j \in task[t].chosen
               \/ \E k \in task[t].chosen : Beats(R, k, j)
    BY <1>2 DEF TaskOK, Selected, R
  <2>2. \A j \in Rest(i) : ~Conflict(R, i, j) /\ ~Conflict(R, j, i)
    BY ConflictSymmetric
  <2>3. \A j \in T.work : \A k \in T.chosen : ~Conflict(R, j, k)
    BY <1>2, <1>3, <2>1, <2>2
  <2>4. \A j, k \in T.chosen : j # k => ~Conflict(R, j, k)
    <3>1. \A k \in task[t].chosen : ~Conflict(R, i, k) /\ ~Conflict(R, k, i)
      BY <1>1, <2>1, ConflictSymmetric
    <3>2. \A j \in T.chosen : j \in task[t].chosen \/ j = i
      BY <1>3
    <3> QED
      BY <2>1, <3>1, <3>2
  <2>5. \A j \in Profitable(R) : R[j].profit \in Int
    <3>1. R \in Seq(Result)
      BY <1>2 DEF Task, R
    <3>2. \A j \in 1 .. Len(R) : R[j] \in Result
      BY <3>1, ElementOfSeq
    <3> QED
      BY <3>2, CyclesAssumption DEF Profitable, Result
  <2>6. ASSUME NEW j \in task[t].work, Conflict(R, i, j) PROVE Beats(R, i, j)
    <3>1. SortedBefore(R, i, j)
      BY <1>1
    <3>2. R[i].profit \in Int /\ R[j].profit \in Int
      BY <2>1, <2>5
    <3>3. R[i].profit >= R[j].profit
      BY <3>1, <3>2 DEF SortedBefore
    <3> QED
      BY <2>6, <3>3 DEF Beats
  <2>7. \A j \in Profitable(R) :
          j \in T.work \/ j \in T.chosen \/ \E k \in T.chosen : Beats(R, k, j)
    <3> TAKE j \in Profitable(R)
    <3>1. CASE j \in task[t].work
      <4>1. i \in T.chosen
        BY <1>3
      <4>2. CASE Conflict(R, i, j)
        BY <2>6, <3>1, <4>1, <4>2
      <4>3. CASE ~Conflict(R, i, j)
        <5>1. j = i \/ j \in Rest(i)
          BY <3>1, <4>3
        <5> QED
          BY <1>3, <4>1, <5>1
      <4> QED
        BY <4>2, <4>3
    <3>2. CASE j \notin task[t].work
      BY <1>3, <2>1, <3>2
    <3> QED
      BY <3>1, <3>2
  <2> QED
    BY <1>1, <1>2, <1>3, <2>1, <2>3, <2>4, <2>7 DEF Selected
<1>7. TaskOK(T)
  BY <1>2, <1>3, <1>5, <1>6 DEF TaskOK, Sharing
<1> QED
  BY <1>4, <1>7, OneTask DEF SInv, SelectMostProfitable

LEMMA StepSInv == SInv /\ [ArbOpenNext]_arbVars => SInv'
<1> SUFFICES ASSUME SInv, [ArbOpenNext]_arbVars PROVE SInv'
  OBVIOUS
<1>1. CASE FindOnchainArbs
  BY <1>1, FindOK
<1>2. ASSUME NEW t \in TaskIds, RunTask(t) PROVE SInv'
  BY <1>2, SubmitOK, DoneOK, FailedOK, SortOK, SelectOK DEF RunTask
<1>3. ASSUME NEW p \in ArbPools, Put(p) PROVE SInv'
  <2>1. queue' \in Seq(ArbPools) /\ UNCHANGED task
    BY <1>3 DEF Put, SInv
  <2> QED
    BY <2>1 DEF SInv
<1>4. CASE UNCHANGED arbVars
  BY <1>4 DEF arbVars, SInv
<1> QED
  BY <1>1, <1>2, <1>3, <1>4 DEF ArbNext, ArbOpenNext

LEMMA SelectionInvariant == ArbOpenSpec => []SInv
  BY InitSInv, StepSInv, PTL DEF ArbOpenSpec

(* What holds with any number of puts holds with those the runs allow.     *)
LEMMA RunsAreOpen == ArbSpec => ArbOpenSpec
<1>1. [ArbNext \/ PutPool]_arbVars => [ArbOpenNext]_arbVars
  BY DEF ArbOpenNext, PutPool
<1> QED
  BY <1>1, PTL DEF ArbSpec, ArbOpenSpec

(* The queue and the tasks keep their types.                               *)
THEOREM ArbTypeCorrect == ArbOpenSpec => []ArbTypeOK
  BY SelectionInvariant, PropertiesFollow, PTL

(* The loop leaves a profitable cycle out only for a chosen one that earns *)
(* at least as much and needs the same pool.                               *)
THEOREM GreedyChoice == ArbOpenSpec => []LeftOutForBetter
  BY SelectionInvariant, PropertiesFollow, PTL

(* Since all cycles of a task contain the pool that changed, the loop      *)
(* always ends with one cycle, and it is the best of the task.             *)
THEOREM BestIsReported == ArbOpenSpec => []ReportsTheBest
  BY SelectionInvariant, BestFollows, PTL

-----------------------------------------------------------------------------
(* The tasks implement Selector.                                           *)

LEMMA PoolsAgree == \A a : Sel!Pools(a) = PoolSet(a)
  BY DEF Sel!Pools, PoolSet

(* A task whose working set is empty has found a selection.                *)
LEMMA ChosenIsSelection ==
  ASSUME NEW T, TaskOK(T), T.work = {}, T.state \in {"selecting", "reported", "empty"}
  PROVE  {T.results[i] : i \in T.chosen} \in Sel!Selections(Earned(T))
<1> DEFINE S == {T.results[i] : i \in T.chosen}
           E == Earned(T)
<1>1. T.chosen \subseteq 1 .. Len(T.results)
  BY DEF TaskOK, Selected, Profitable
<1>2. S \in SUBSET E
  BY <1>1 DEF Earned
<1>3. \A r \in S : r.profit >= 0
  BY DEF TaskOK, Selected, Profitable
<1>4. \A i, j : Sel!Compete(T.results[i], T.results[j]) <=> Conflict(T.results, i, j)
  BY PoolsAgree DEF Sel!Compete, Conflict
<1>5. ASSUME NEW r \in S, NEW s \in S, r # s
      PROVE  ~Sel!Compete(r, s)
  <2>1. PICK i \in T.chosen : r = T.results[i]
    OBVIOUS
  <2>2. PICK j \in T.chosen : s = T.results[j]
    OBVIOUS
  <2>3. ~Conflict(T.results, i, j)
    BY <1>5, <2>1, <2>2 DEF TaskOK, Selected
  <2> QED
    BY <1>4, <2>1, <2>2, <2>3
<1>6. ASSUME NEW r \in E, r.profit >= 0
      PROVE  r \in S \/ \E s \in S : s.profit >= r.profit /\ Sel!Compete(r, s)
  <2>1. PICK i \in 1 .. Len(T.results) : r = T.results[i]
    BY DEF Earned
  <2>2. i \in Profitable(T.results)
    BY <1>6, <2>1 DEF Profitable
  <2>3. i \in T.chosen \/ \E j \in T.chosen : Beats(T.results, j, i)
    BY <2>2 DEF TaskOK, Selected
  <2>4. CASE i \in T.chosen
    BY <2>1, <2>4
  <2>5. ASSUME NEW j \in T.chosen, Beats(T.results, j, i)
        PROVE  \E s \in S : s.profit >= r.profit /\ Sel!Compete(r, s)
    <3>1. T.results[j].profit >= r.profit /\ Conflict(T.results, i, j)
      BY <2>1, <2>5, ConflictSymmetric DEF Beats
    <3> QED
      BY <1>4, <2>1, <3>1
  <2> QED
    BY <2>3, <2>4, <2>5
<1> QED
  BY <1>2, <1>3, <1>5, <1>6 DEF Sel!Selections

LEMMA SelectorInit == ArbInit => Sel!Init
<1> SUFFICES ASSUME ArbInit
             PROVE  Sel!Init
  OBVIOUS
<1>1. \A t \in TaskIds : task[t] = NoTask
  BY DEF ArbInit
<1>2. Phase(NoTask) = "idle" /\ Earned(NoTask) = {} /\ Kept(NoTask) = {}
  BY DEF Phase, Earned, Kept, NoTask
<1> QED
  BY <1>1, <1>2 DEF Sel!Init

(* What the selector sees of a step of task t.                             *)
LEMMA OthersUnchanged ==
  ASSUME SInv, NEW t \in TaskIds, NEW T, task' = [task EXCEPT ![t] = T]
  PROVE  /\ [s \in TaskIds |-> Phase(task'[s])]
              = [[s \in TaskIds |-> Phase(task[s])] EXCEPT ![t] = Phase(T)]
         /\ [s \in TaskIds |-> Earned(task'[s])]
              = [[s \in TaskIds |-> Earned(task[s])] EXCEPT ![t] = Earned(T)]
         /\ [s \in TaskIds |-> Kept(task'[s])]
              = [[s \in TaskIds |-> Kept(task[s])] EXCEPT ![t] = Kept(T)]
<1>1. \A s \in TaskIds :
        /\ Phase(task'[s]) = IF s = t THEN Phase(T) ELSE Phase(task[s])
        /\ Earned(task'[s]) = IF s = t THEN Earned(T) ELSE Earned(task[s])
        /\ Kept(task'[s]) = IF s = t THEN Kept(T) ELSE Kept(task[s])
  <2> TAKE s \in TaskIds
  <2>1. task'[s] = IF s = t THEN T ELSE task[s]
    BY DEF SInv
  <2> QED
    BY <2>1
<1> QED
  BY <1>1

(* A step that changes nothing the selector sees.                          *)
LEMMA StutterOK ==
  ASSUME SInv, NEW t \in TaskIds, NEW T, task' = [task EXCEPT ![t] = T],
         Phase(T) = Phase(task[t]), Earned(T) = Earned(task[t]),
         Kept(T) = Kept(task[t])
  PROVE  UNCHANGED Sel!vars
<1>1. \A s \in TaskIds : /\ Phase(task'[s]) = Phase(task[s])
                         /\ Earned(task'[s]) = Earned(task[s])
                         /\ Kept(task'[s]) = Kept(task[s])
  <2> TAKE s \in TaskIds
  <2>1. task'[s] = IF s = t THEN T ELSE task[s]
    BY DEF SInv
  <2> QED
    BY <2>1
<1> QED
  BY <1>1 DEF Sel!vars

(* A step that ends a task with nothing left in the working set.           *)
LEMMA DecideOK ==
  ASSUME SInv, NEW t \in TaskIds, NEW T, task' = [task EXCEPT ![t] = T],
         TaskOK(T), T.work = {}, T.results = task[t].results,
         T.state \in {"reported", "empty"},
         task[t].state \in {"calculating", "selecting"}
  PROVE  Sel!Next
<1>1. Phase(T) = "done" /\ Phase(task[t]) = "working"
  BY DEF Phase
<1>2. Earned(T) = Earned(task[t])
  BY DEF Earned
<1>3. Kept(T) = {T.results[i] : i \in T.chosen}
  BY <1>1 DEF Kept
<1>4. Kept(T) \in Sel!Selections(Earned(task[t]))
  BY <1>2, <1>3, ChosenIsSelection
<1>5. [s \in TaskIds |-> Earned(task'[s])] = [s \in TaskIds |-> Earned(task[s])]
  <2>1. \A s \in TaskIds : task'[s] = IF s = t THEN T ELSE task[s]
    BY DEF SInv
  <2> QED
    BY <1>2, <2>1
<1>6. Sel!Decide(t)
  <2>1. [s \in TaskIds |-> Phase(task[s])][t] = "working"
    BY <1>1
  <2>2. [s \in TaskIds |-> Phase(task'[s])]
          = [[s \in TaskIds |-> Phase(task[s])] EXCEPT ![t] = "done"]
    <3>1. [s \in TaskIds |-> Phase(task'[s])]
            = [[s \in TaskIds |-> Phase(task[s])] EXCEPT ![t] = Phase(T)]
      BY OthersUnchanged
    <3> QED
      BY <1>1, <3>1
  <2>3. [s \in TaskIds |-> Kept(task'[s])]
          = [[s \in TaskIds |-> Kept(task[s])] EXCEPT ![t] = Kept(T)]
    BY OthersUnchanged
  <2>4. Kept(T) \in Sel!Selections([s \in TaskIds |-> Earned(task[s])][t])
    BY <1>4
  <2> QED
    BY <1>5, <2>1, <2>2, <2>3, <2>4 DEF Sel!Decide
<1> QED
  BY <1>6 DEF Sel!Next

(* A result that arrives is one the task has not learned for its cycle.    *)
LEMMA LearnOK ==
  ASSUME SInv, NEW t \in TaskIds, NEW a \in Arbs, NEW profit \in Profits,
         CalculationDone(t, a, profit)
  PROVE  Sel!Next
<1> DEFINE r == [arb |-> a, profit |-> profit]
           T == [task[t] EXCEPT !.pending = @ \ {a}, !.results = Append(@, r)]
<1>1. /\ task[t] \in Task /\ TaskOK(task[t]) /\ a \in task[t].pending
      /\ task[t].results \in Seq(Result) /\ r \in Result
  BY DEF SInv, CalculationDone, Task, Result
<1>2. task[t].state = "calculating" /\ Sharing(task[t])
  BY <1>1 DEF TaskOK, Shaped
<1>3. /\ Append(task[t].results, r) \in Seq(Result)
      /\ Len(Append(task[t].results, r)) = Len(task[t].results) + 1
      /\ Len(task[t].results) \in Nat
      /\ Append(task[t].results, r)[Len(task[t].results) + 1] = r
      /\ \A i \in 1 .. Len(task[t].results) :
           Append(task[t].results, r)[i] = task[t].results[i]
  BY <1>1
<1>4. task' = [task EXCEPT ![t] = T]
  BY DEF SInv, CalculationDone
<1>5. /\ T.state = "calculating" /\ T.results = Append(task[t].results, r)
  BY <1>1, <1>2 DEF Task
<1> HIDE DEF T
<1>6. Phase(T) = "working" /\ Phase(task[t]) = "working"
  BY <1>2, <1>5 DEF Phase
<1>7. Earned(T) = Earned(task[t]) \cup {r}
  <2>1. \A i \in 1 .. Len(T.results) :
          \/ T.results[i] = r
          \/ i \in 1 .. Len(task[t].results) /\ T.results[i] = task[t].results[i]
    <3> DEFINE L == Len(task[t].results)
    <3>1. \A i \in 1 .. L + 1 : i = L + 1 \/ i \in 1 .. L
      BY <1>3
    <3> QED
      BY <1>3, <1>5, <3>1
  <2>2. \A i \in 1 .. Len(task[t].results) :
          i \in 1 .. Len(T.results) /\ T.results[i] = task[t].results[i]
    BY <1>3, <1>5
  <2>3. \E i \in 1 .. Len(T.results) : T.results[i] = r
    BY <1>3, <1>5
  <2> QED
    BY <2>1, <2>2, <2>3 DEF Earned
<1>8. Kept(T) = Kept(task[t])
  BY <1>6 DEF Kept
<1>9. \A s \in Earned(task[t]) : s.arb # a
  BY <1>1, <1>2 DEF Earned, Sharing
<1>10. Sel!Learn(t, r)
  <2>1. [s \in TaskIds |-> Phase(task[s])][t] = "working"
    BY <1>6
  <2>2. [s \in TaskIds |-> Earned(task'[s])]
          = [[s \in TaskIds |-> Earned(task[s])] EXCEPT ![t] = @ \cup {r}]
    <3>1. [s \in TaskIds |-> Earned(task'[s])]
            = [[s \in TaskIds |-> Earned(task[s])] EXCEPT ![t] = Earned(T)]
      BY <1>4, OthersUnchanged
    <3> QED
      BY <1>7, <3>1
  <2>3. /\ [s \in TaskIds |-> Phase(task'[s])] = [s \in TaskIds |-> Phase(task[s])]
        /\ [s \in TaskIds |-> Kept(task'[s])] = [s \in TaskIds |-> Kept(task[s])]
    <3>1. \A s \in TaskIds : task'[s] = IF s = t THEN T ELSE task[s]
      BY <1>4 DEF SInv
    <3> QED
      BY <1>6, <1>8, <3>1
  <2>4. \A s \in [u \in TaskIds |-> Earned(task[u])][t] : s.arb # r.arb
    BY <1>9
  <2> QED
    BY <2>1, <2>2, <2>3, <2>4 DEF Sel!Learn
<1>11. r \in Sel!Result
  BY DEF Sel!Result
<1> QED
  BY <1>10, <1>11 DEF Sel!Next

LEMMA BeginOK ==
  ASSUME SInv, FindOnchainArbs
  PROVE  [Sel!Next]_(Sel!vars)
<1>1. CASE UNCHANGED task
  BY <1>1 DEF Sel!vars
<1>2. CASE \E t \in TaskIds :
             /\ task[t].state = "none"
             /\ task' = [task EXCEPT ![t].state = "created",
                                     ![t].arbs = FindAffectedArbs(Head(queue))]
  <2>1. PICK t \in TaskIds :
             /\ task[t].state = "none"
             /\ task' = [task EXCEPT ![t].state = "created",
                                     ![t].arbs = FindAffectedArbs(Head(queue))]
    BY <1>2
  <2> DEFINE T == [task[t] EXCEPT !.state = "created",
                                  !.arbs = FindAffectedArbs(Head(queue))]
  <2>2. task[t] \in Task
    BY DEF SInv
  <2>3. T.state = "created" /\ T.results = task[t].results
    BY <2>2 DEF Task
  <2>4. task' = [task EXCEPT ![t] = T]
    BY <2>1 DEF SInv
  <2> HIDE DEF T
  <2>5. /\ Phase(T) = "working" /\ Phase(task[t]) = "idle"
        /\ Earned(T) = Earned(task[t])
    BY <2>1, <2>3 DEF Phase, Earned
  <2>6. Kept(T) = Kept(task[t])
    BY <2>5 DEF Kept
  <2>7. [s \in TaskIds |-> Phase(task'[s])]
          = [[s \in TaskIds |-> Phase(task[s])] EXCEPT ![t] = "working"]
    <3>1. [s \in TaskIds |-> Phase(task'[s])]
            = [[s \in TaskIds |-> Phase(task[s])] EXCEPT ![t] = Phase(T)]
      BY <2>4, OthersUnchanged
    <3> QED
      BY <2>5, <3>1
  <2>8. /\ [s \in TaskIds |-> Earned(task'[s])] = [s \in TaskIds |-> Earned(task[s])]
        /\ [s \in TaskIds |-> Kept(task'[s])] = [s \in TaskIds |-> Kept(task[s])]
    <3>1. \A s \in TaskIds : task'[s] = IF s = t THEN T ELSE task[s]
      BY <2>4 DEF SInv
    <3> QED
      BY <2>5, <2>6, <3>1
  <2>9. Sel!Begin(t)
    BY <2>5, <2>7, <2>8 DEF Sel!Begin
  <2> QED
    BY <2>9 DEF Sel!Next
<1> QED
  BY <1>1, <1>2 DEF FindOnchainArbs

LEMMA SelectorStep ==
  SInv /\ SInv' /\ [ArbOpenNext]_arbVars => [Sel!Next]_(Sel!vars)
<1> SUFFICES ASSUME SInv, SInv', [ArbOpenNext]_arbVars
             PROVE  [Sel!Next]_(Sel!vars)
  OBVIOUS
<1>1. CASE FindOnchainArbs
  BY <1>1, BeginOK
<1>2. CASE UNCHANGED task
  BY <1>2 DEF Sel!vars
<1>3. ASSUME NEW t \in TaskIds, RunTask(t)
      PROVE  [Sel!Next]_(Sel!vars)
  <2>1. TaskOK(task[t]) /\ TaskOK(task'[t]) /\ task[t] \in Task
    BY DEF SInv
  <2>2. CASE SubmitCalculations(t)
    <3>1. PICK sent \in SUBSET task[t].arbs :
            task' = [task EXCEPT ![t].state = "calculating", ![t].pending = sent]
      BY <2>2 DEF SubmitCalculations
    <3> DEFINE T == [task[t] EXCEPT !.state = "calculating", !.pending = sent]
    <3>2. /\ task' = [task EXCEPT ![t] = T]
          /\ T.state = "calculating" /\ T.results = task[t].results
      BY <2>1, <3>1 DEF SInv, Task
    <3> HIDE DEF T
    <3>3. Phase(T) = "working" /\ Phase(task[t]) = "working"
      BY <2>2, <3>2 DEF Phase, SubmitCalculations
    <3>4. Earned(T) = Earned(task[t]) /\ Kept(T) = Kept(task[t])
      BY <3>2, <3>3 DEF Earned, Kept
    <3> QED
      BY <3>2, <3>3, <3>4, StutterOK
  <2>3. ASSUME NEW a \in Arbs, CalculationFailed(t, a)
        PROVE  [Sel!Next]_(Sel!vars)
    <3> DEFINE T == [task[t] EXCEPT !.pending = @ \ {a}]
    <3>1. /\ task' = [task EXCEPT ![t] = T] /\ T.state = task[t].state
          /\ T.results = task[t].results /\ T.chosen = task[t].chosen
      BY <2>1, <2>3 DEF CalculationFailed, SInv, Task
    <3> HIDE DEF T
    <3>2. Phase(T) = Phase(task[t]) /\ Earned(T) = Earned(task[t])
      BY <3>1 DEF Phase, Earned
    <3>3. Kept(T) = Kept(task[t])
      BY <3>1, <3>2 DEF Kept
    <3> QED
      BY <3>1, <3>2, <3>3, StutterOK
  <2>4. CASE SortResults(t)
    <3> DEFINE work == Profitable(task[t].results)
               T == [task[t] EXCEPT !.state = IF work = {} THEN "empty" ELSE "selecting",
                                    !.work = work]
    <3>1. task' = [task EXCEPT ![t] = T] /\ task'[t] = T
      BY <2>4 DEF SortResults, SInv
    <3>2. /\ T.state = (IF work = {} THEN "empty" ELSE "selecting")
          /\ T.work = work /\ T.results = task[t].results
          /\ task[t].state = "calculating"
      BY <2>1, <2>4 DEF SortResults, Task
    <3>3. TaskOK(T)
      BY <2>1, <3>1
    <3> HIDE DEF T, work
    <3>4. CASE work = {}
      BY <3>1, <3>2, <3>3, <3>4, DecideOK
    <3>5. CASE work # {}
      <4>1. Phase(T) = "working" /\ Phase(task[t]) = "working"
        BY <3>2, <3>5 DEF Phase
      <4>2. Earned(T) = Earned(task[t]) /\ Kept(T) = Kept(task[t])
        BY <3>2, <4>1 DEF Earned, Kept
      <4> QED
        BY <3>1, <4>1, <4>2, StutterOK
    <3> QED
      BY <3>4, <3>5
  <2>5. CASE SelectMostProfitable(t)
    <3> DEFINE Rest(i) == {j \in task[t].work \ {i} : ~Conflict(task[t].results, i, j)}
    <3>1. PICK i \in task[t].work :
            task' = [task EXCEPT
                       ![t].state = IF Rest(i) = {} THEN "reported" ELSE "selecting",
                       ![t].work = Rest(i),
                       ![t].chosen = @ \cup {i}]
      BY <2>5 DEF SelectMostProfitable
    <3> DEFINE T == [task[t] EXCEPT
                       !.state = IF Rest(i) = {} THEN "reported" ELSE "selecting",
                       !.work = Rest(i),
                       !.chosen = @ \cup {i}]
    <3>2. task' = [task EXCEPT ![t] = T] /\ task'[t] = T
      BY <3>1 DEF SInv
    <3>3. /\ T.state = (IF Rest(i) = {} THEN "reported" ELSE "selecting")
          /\ T.work = Rest(i) /\ T.results = task[t].results
          /\ task[t].state = "selecting"
      BY <2>1, <2>5 DEF SelectMostProfitable, Task
    <3>4. TaskOK(T)
      BY <2>1, <3>2
    <3> HIDE DEF T, Rest
    <3>5. CASE Rest(i) = {}
      BY <3>2, <3>3, <3>4, <3>5, DecideOK
    <3>6. CASE Rest(i) # {}
      <4>1. Phase(T) = "working" /\ Phase(task[t]) = "working"
        BY <3>3, <3>6 DEF Phase
      <4>2. Earned(T) = Earned(task[t]) /\ Kept(T) = Kept(task[t])
        BY <3>3, <4>1 DEF Earned, Kept
      <4> QED
        BY <3>2, <4>1, <4>2, StutterOK
    <3> QED
      BY <3>5, <3>6
  <2> QED
    BY <1>3, <2>2, <2>3, <2>4, <2>5, LearnOK DEF RunTask
<1> QED
  BY <1>1, <1>2, <1>3 DEF ArbNext, ArbOpenNext, Put, arbVars

(* The tasks implement the selector: every task decides once, on all it    *)
(* has learned, for a selection that is as good as the results allow.      *)
THEOREM SelectorImplemented == ArbOpenSpec => ImplementsSelector
<1>1. ArbInit => Sel!Init
  BY SelectorInit
<1>2. SInv /\ SInv' /\ [ArbOpenNext]_arbVars => [Sel!Next]_(Sel!vars)
  BY SelectorStep
<1> QED
  BY <1>1, <1>2, SelectionInvariant, PTL DEF ArbOpenSpec, ImplementsSelector, Sel!Spec
-----------------------------------------------------------------------------
(* Why a task ends.                                                        *)

Rank(state) ==
  CASE state = "none"        -> 0
    [] state = "created"     -> 1
    [] state = "calculating" -> 2
    [] state = "selecting"   -> 3
    [] state \in {"reported", "empty"} -> 4

(* U is nearer to the end than T: in a later stage, or in the same one     *)
(* with fewer open calculations or a smaller working set.                  *)
Nearer(T, U) ==
  \/ Rank(T.state) < Rank(U.state)
  \/ /\ U.state = T.state /\ U.work = T.work
     /\ U.pending \subseteq T.pending /\ U.pending # T.pending
  \/ /\ U.state = T.state /\ U.pending = T.pending
     /\ U.work \subseteq T.work /\ U.work # T.work

LEMMA RunsNearer ==
  ASSUME SInv, NEW t \in TaskIds, RunTask(t)
  PROVE  /\ Nearer(task[t], task'[t])
         /\ \A s \in TaskIds : s # t => task'[s] = task[s]
<1>0. task \in [TaskIds -> Task] /\ task[t] \in Task
  BY DEF SInv
<1> DEFINE T == task[t]
           U == task'[t]
<1>1. CASE SubmitCalculations(t)
  <2>1. PICK sent \in SUBSET T.arbs :
          task' = [task EXCEPT ![t].state = "calculating", ![t].pending = sent]
    BY <1>1 DEF SubmitCalculations
  <2>2. U.state = "calculating" /\ T.state = "created"
    BY <1>0, <1>1, <2>1 DEF Task, SubmitCalculations
  <2>3. Rank(T.state) = 1 /\ Rank(U.state) = 2
    BY <2>2 DEF Rank
  <2> QED
    BY <1>0, <2>1, <2>3 DEF Nearer
<1>2. ASSUME NEW a \in Arbs,
             CalculationFailed(t, a) \/ \E profit \in Profits : CalculationDone(t, a, profit)
      PROVE  /\ Nearer(T, U) /\ \A s \in TaskIds : s # t => task'[s] = task[s]
  <2>1. /\ a \in T.pending
        /\ U.pending = T.pending \ {a} /\ U.state = T.state /\ U.work = T.work
        /\ \A s \in TaskIds : s # t => task'[s] = task[s]
    BY <1>0, <1>2 DEF Task, CalculationFailed, CalculationDone
  <2> QED
    BY <2>1 DEF Nearer
<1>3. CASE SortResults(t)
  <2>1. /\ T.state = "calculating" /\ U.state \in {"empty", "selecting"}
        /\ \A s \in TaskIds : s # t => task'[s] = task[s]
    BY <1>0, <1>3 DEF Task, SortResults
  <2>2. Rank(T.state) = 2 /\ Rank(U.state) \in {3, 4}
    BY <2>1 DEF Rank
  <2> QED
    BY <2>1, <2>2 DEF Nearer
<1>4. CASE SelectMostProfitable(t)
  <2>1. PICK i \in T.work :
          LET rest == {j \in T.work \ {i} : ~Conflict(T.results, i, j)}
          IN task' = [task EXCEPT
                        ![t].state = IF rest = {} THEN "reported" ELSE "selecting",
                        ![t].work = rest,
                        ![t].chosen = @ \cup {i}]
    BY <1>4 DEF SelectMostProfitable
  <2> DEFINE rest == {j \in T.work \ {i} : ~Conflict(T.results, i, j)}
  <2>2. rest \subseteq T.work /\ rest # T.work
    OBVIOUS
  <2> HIDE DEF rest
  <2>3. /\ T.state = "selecting" /\ U.state \in {"reported", "selecting"}
        /\ U.work = rest /\ U.pending = T.pending
        /\ \A s \in TaskIds : s # t => task'[s] = task[s]
    BY <1>0, <1>4, <2>1 DEF Task, SelectMostProfitable, rest
  <2>4. CASE U.state = "selecting"
    BY <2>2, <2>3, <2>4 DEF Nearer
  <2>5. CASE U.state = "reported"
    <3>1. Rank(T.state) = 3 /\ Rank(U.state) = 4
      BY <2>3, <2>5 DEF Rank
    <3> QED
      BY <2>3, <3>1 DEF Nearer
  <2> QED
    BY <2>3, <2>4, <2>5
<1> QED
  BY <1>1, <1>2, <1>3, <1>4 DEF RunTask

(* The safety half of EveryTaskEnds: each turn of a task and each of its   *)
(* calculations takes it nearer to its end, and no other task, put or turn *)
(* of find_onchain_arbs takes it back or hands it more to do.              *)
THEOREM TasksAdvance ==
  ArbOpenSpec => [][\A t \in TaskIds :
                      /\ RunTask(t) => Nearer(task[t], task'[t])
                      /\ task'[t] # task[t] => Nearer(task[t], task'[t])]_arbVars
<1> DEFINE Advance == \A t \in TaskIds :
                        /\ RunTask(t) => Nearer(task[t], task'[t])
                        /\ task'[t] # task[t] => Nearer(task[t], task'[t])
<1>1. ASSUME SInv, ArbOpenNext PROVE Advance
  <2> SUFFICES ASSUME NEW t \in TaskIds, task'[t] # task[t]
               PROVE  Nearer(task[t], task'[t])
    BY <1>1, RunsNearer
  <2>1. task \in [TaskIds -> Task]
    BY <1>1 DEF SInv
  <2>2. CASE FindOnchainArbs
    <3>1. PICK s \in TaskIds :
            /\ task[s].state = "none"
            /\ task' = [task EXCEPT ![s].state = "created",
                                    ![s].arbs = FindAffectedArbs(Head(queue))]
      BY <2>2 DEF FindOnchainArbs
    <3>2. s = t /\ task[t].state = "none" /\ task'[t].state = "created"
      BY <2>1, <3>1 DEF Task
    <3>3. Rank(task[t].state) = 0 /\ Rank(task'[t].state) = 1
      BY <3>2 DEF Rank
    <3> QED
      BY <3>3 DEF Nearer
  <2>3. ASSUME NEW s \in TaskIds, RunTask(s) PROVE Nearer(task[t], task'[t])
    BY <1>1, <2>3, RunsNearer
  <2>4. ASSUME NEW p \in ArbPools, Put(p) PROVE FALSE
    BY <2>4 DEF Put
  <2> QED
    BY <1>1, <2>2, <2>3, <2>4 DEF ArbOpenNext, ArbNext
<1>2. SInv /\ [ArbOpenNext]_arbVars => [Advance]_arbVars
  BY <1>1
<1> QED
  BY <1>2, SelectionInvariant, PTL DEF ArbOpenSpec
=============================================================================
