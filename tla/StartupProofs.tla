---------------------------- MODULE StartupProofs ----------------------------
(***************************************************************************)
(* The start of the bot for any pools, paths and files and any messages of *)
(* CREAM.  The invariant says what run() has done at each point, and that  *)
(* it keeps control from the end of the wait until it is done.             *)
(***************************************************************************)
EXTENDS Startup, SequenceTheorems, TLAPS

Before == {"start", "deploying", "waiting", "managers", "files", "helpers"}
InControl == {"managers", "files", "helpers", "spawn", "waitLive"}

(* Nothing can interfere, and first_event is the one that was waited for.  *)
Held ==
  /\ pc \in InControl => turn = "run" /\ first_event \notin {None, 0}
  /\ pc \in InControl \ {"managers"} => managers = first_event - 1
  /\ pc \in {"spawn", "waitLive"} => live

(* What has been built.                                                    *)
Built ==
  /\ pc \in Before => all_arbs = {}
  /\ pc \in Before \ {"helpers"} => \A p \in Pools : helper[p] = None
  /\ \A p \in Pools : helper[p] # None => helper[p] = managers

(* What add_deployments has done up to the exchange it is at; the local    *)
(* variable is unbound or the deployment of an exchange it has passed.     *)
Deployed ==
  /\ \A k \in 1 .. Len(exchanges) :
       k < at /\ Known(exchanges[k]) /\ exchanges[k].factory \notin refuses
         => deployments[exchanges[k].factory] # Unbound
  /\ factory_deployment # Unbound =>
       \E k \in 1 .. Len(exchanges) :
         /\ Known(exchanges[k])
         /\ factory_deployment = [factory |-> exchanges[k].factory,
                                  abi |-> Abi(exchanges[k])]
  /\ DeploymentsMatch

StartupInv == StartupTypeOK /\ Held /\ Built /\ CyclesTracked /\ Deployed

LEMMA InitStartup == Init => StartupInv
<1> SUFFICES ASSUME Init
             PROVE  StartupInv
  OBVIOUS
<1>1. chan \in Seq(AppState \cup {Malformed}) /\ NoFiles \in Files
  BY DEF Init, NoFiles, Files
<1>2. ExchangeTypeOK
  <2>1. exchanges \in Seq(Exchange)
    BY ExchangesAssumption DEF Init, ExchangeInit
  <2>2. Len(exchanges) \in Nat
    BY <2>1, LenProperties
  <2>3. deployments \in [Factories -> Deployment \cup {Unbound}]
    BY DEF Init, ExchangeInit, Deployment
  <2> QED
    BY <2>1, <2>2, <2>3 DEF Init, ExchangeInit, ExchangeTypeOK
<1>3. StartupTypeOK
  BY <1>1, <1>2 DEF Init, LiveAtStart, StartupTypeOK
<1>4. Held /\ Built /\ CyclesTracked
  BY DEF Init, Held, Built, CyclesTracked, Before, InControl
<1>5. Deployed
  <2>1. at = 1 /\ factory_deployment = Unbound
    BY DEF Init, ExchangeInit
  <2>2. DeploymentsMatch
    BY DEF Init, ExchangeInit, DeploymentsMatch
  <2> QED
    BY <2>1, <2>2 DEF Deployed
<1> QED
  BY <1>3, <1>4, <1>5 DEF StartupInv

-----------------------------------------------------------------------------
(* One turn of the loop over the exchanges.                                *)
LEMMA ExchangeStep ==
  ASSUME ExchangeTypeOK, Deployed, AddDeployment
  PROVE  ExchangeTypeOK' /\ Deployed'
<1> DEFINE e == exchanges[at]
           made == [factory |-> e.factory, abi |-> Abi(e)]
<1>1. /\ at \in 1 .. Len(exchanges) /\ Len(exchanges) \in Nat
      /\ at' = at + 1 /\ exchanges' = exchanges /\ refuses' = refuses
      /\ e \in Exchange
  BY LenProperties, ElementOfSeq DEF AddDeployment, NextExchange, ExchangeTypeOK
<1>2. made \in Deployment
  BY <1>1 DEF Exchange, Deployment, Abi
<1>3. CASE deployments[e.factory] # Unbound
  <2>1. UNCHANGED <<factory_deployment, deployments>>
    BY <1>3 DEF AddDeployment
  <2>2. ExchangeTypeOK'
    BY <1>1, <2>1 DEF ExchangeTypeOK
  <2>3. Deployed'
    BY <1>1, <1>3, <2>1 DEF Deployed, DeploymentsMatch, ExchangeTypeOK
  <2> QED
    BY <2>2, <2>3
<1>4. CASE deployments[e.factory] = Unbound
  <2> DEFINE d == factory_deployment'
  <2>1. /\ d = IF Known(e) THEN made ELSE factory_deployment
        /\ deployments' = IF d = Unbound \/ d.factory \in refuses
                          THEN deployments
                          ELSE [deployments EXCEPT ![d.factory] = d]
    BY <1>4 DEF AddDeployment, BuiltDeployment, RegisterExchange
  <2>2. d \in Deployment \cup {Unbound}
    BY <1>2, <2>1 DEF ExchangeTypeOK
  <2>3. deployments' \in [Factories -> Deployment \cup {Unbound}]
    BY <2>1, <2>2 DEF ExchangeTypeOK
  <2>4. ExchangeTypeOK'
    BY <1>1, <2>2, <2>3 DEF ExchangeTypeOK
  <2>5. d # Unbound => \E k \in 1 .. Len(exchanges) :
          /\ Known(exchanges[k])
          /\ d = [factory |-> exchanges[k].factory, abi |-> Abi(exchanges[k])]
    BY <1>1, <2>1 DEF Deployed
  <2>6. DeploymentsMatch'
    <3> SUFFICES ASSUME NEW f \in Factories, deployments'[f] # Unbound
                 PROVE  /\ deployments'[f].factory = f
                        /\ \/ f \in Builtin
                           \/ \E k \in 1 .. Len(exchanges) :
                                /\ exchanges[k].factory = f /\ Known(exchanges[k])
                                /\ deployments'[f].abi = Abi(exchanges[k])
      BY <1>1 DEF DeploymentsMatch, Known, Abi
    <3>1. CASE deployments'[f] = deployments[f]
      BY <3>1 DEF Deployed, DeploymentsMatch
    <3>2. CASE deployments'[f] # deployments[f]
      <4>1. d # Unbound /\ d.factory = f /\ deployments'[f] = d
        BY <2>1, <3>2, <2>2 DEF ExchangeTypeOK
      <4> QED
        BY <4>1, <2>5
    <3> QED
      BY <3>1, <3>2
  <2>7. ASSUME NEW f \in Factories, deployments[f] # Unbound
        PROVE  deployments'[f] # Unbound
    BY <2>1, <2>2, <2>7 DEF ExchangeTypeOK
  <2>8. Known(e) /\ e.factory \notin refuses => deployments'[e.factory] # Unbound
    <3> SUFFICES ASSUME Known(e), e.factory \notin refuses
                 PROVE  deployments'[e.factory] # Unbound
      OBVIOUS
    <3>1. d = made /\ d # Unbound /\ d.factory = e.factory
      BY <1>2, <2>1, ExchangesAssumption
    <3>2. deployments' = [deployments EXCEPT ![e.factory] = made]
      BY <2>1, <3>1
    <3> QED
      BY <3>1, <3>2, <1>1 DEF ExchangeTypeOK, Exchange
  <2>9. ASSUME NEW k \in 1 .. Len(exchanges), k < at + 1,
               Known(exchanges[k]), exchanges[k].factory \notin refuses
        PROVE  deployments'[exchanges[k].factory] # Unbound
    <3>1. CASE k = at
      BY <2>8, <2>9, <3>1
    <3>2. CASE k # at
      <4>1. k < at
        BY <1>1, <2>9, <3>2
      <4>2. exchanges[k] \in Exchange
        BY ElementOfSeq DEF ExchangeTypeOK
      <4>3. exchanges[k].factory \in Factories
        BY <4>2 DEF Exchange
      <4> QED
        BY <2>7, <2>9, <4>1, <4>3 DEF Deployed
    <3> QED
      BY <3>1, <3>2
  <2>10. Deployed'
    BY <1>1, <2>5, <2>6, <2>9 DEF Deployed, Known, Abi
  <2> QED
    BY <2>4, <2>10
<1> QED
  BY <1>3, <1>4

-----------------------------------------------------------------------------
LEMMA ExchangeUnchanged ==
  ASSUME ExchangeTypeOK, Deployed, UNCHANGED exchangeVars
  PROVE  ExchangeTypeOK' /\ Deployed'
<1>1. ExchangeTypeOK'
  BY DEF ExchangeTypeOK, exchangeVars
<1>2. DeploymentsMatch'
  BY DEF Deployed, DeploymentsMatch, exchangeVars, Known, Abi
<1>3. Deployed'
  BY <1>2 DEF Deployed, exchangeVars, Known, Abi
<1> QED
  BY <1>1, <1>3

-----------------------------------------------------------------------------
LEMMA MessagesTyped ==
  ASSUME StartupInv, chan # <<>>
  PROVE  /\ Tail(chan) \in Seq(AppState \cup {Malformed})
         /\ Head(chan) # Malformed =>
              /\ Head(chan).first_event \in 0 .. MaxBlock \cup {None}
              /\ Head(chan).live \in BOOLEAN
<1>1. chan \in Seq(AppState \cup {Malformed})
  BY DEF StartupInv, StartupTypeOK
<1>2. Head(chan) \in AppState \cup {Malformed} /\ Tail(chan) \in Seq(AppState \cup {Malformed})
  BY <1>1, HeadTailProperties
<1> QED
  BY <1>2 DEF AppState

LEMMA EnvironmentStep ==
  ASSUME StartupInv, CreamPublishes \/ StartBootstrap \/ UpdateBotState
  PROVE  StartupInv'
<1> USE DEF StartupInv, Held, Built, CyclesTracked, Before, InControl
<1>x. ExchangeTypeOK' /\ Deployed'
  <2>1. UNCHANGED exchangeVars
    BY DEF CreamPublishes, StartBootstrap, UpdateBotState
  <2> QED
    BY <2>1, ExchangeUnchanged DEF StartupTypeOK
<1>1. CASE CreamPublishes
  <2>1. PICK m \in AppState \cup {Malformed} : chan' = Append(chan, m)
    BY <1>1 DEF CreamPublishes
  <2>2. chan' \in Seq(AppState \cup {Malformed})
    BY <2>1, AppendProperties DEF StartupTypeOK
  <2>3. UNCHANGED <<bot, files, boot, turn, pc, first_event, live, managers,
                    all_arbs, tried, helper>>
    BY <1>1 DEF CreamPublishes
  <2> QED
    BY <1>x, <2>2, <2>3 DEF StartupTypeOK
<1>2. CASE StartBootstrap
  BY <1>x, <1>2 DEF StartBootstrap, StartupTypeOK
<1>3. CASE UpdateBotState
  <2>1. /\ turn = "loop" /\ chan # <<>> /\ chan' = Tail(chan)
        /\ UNCHANGED <<bot, files, turn, pc, managers, all_arbs, tried, helper>>
    BY <1>3 DEF UpdateBotState
  <2>2. /\ first_event' \in 0 .. MaxBlock \cup {None}
        /\ live' \in BOOLEAN
        /\ boot' \in {"none", "created", "listening", "ended", "raised"}
    BY <1>3, <2>1, MessagesTyped DEF UpdateBotState, StartupTypeOK
  <2>3. StartupTypeOK'
    BY <1>x, <2>1, <2>2, MessagesTyped DEF StartupTypeOK
  <2>4. pc \notin InControl
    BY <2>1
  <2> QED
    BY <1>x, <2>1, <2>3, <2>4
<1> QED
  BY <1>1, <1>2, <1>3

-----------------------------------------------------------------------------
(* The steps of run(), without what none of them changes.                  *)
LEMMA RunStep ==
  ASSUME StartupInv, Run
  PROVE  StartupInv'
<1> USE DEF StartupInv, Held, Built, CyclesTracked, Before, InControl
<1>u. /\ UNCHANGED <<bot, chan, first_event>>
      /\ LoadFiles \/ UNCHANGED files
  BY DEF Run
<1>x. ExchangeTypeOK' /\ Deployed'
  <2>1. CASE AddDeployment
    BY <2>1, ExchangeStep DEF StartupTypeOK
  <2>2. CASE ~AddDeployment
    <3>1. UNCHANGED exchangeVars
      BY <2>2 DEF Run, BeginRun, AddExchange, DeploymentsAdded, WaitFirstEvent,
                  NoFirstEvent, CreatePoolManagers, LoadFiles, CreatePoolHelper,
                  LoadCycles, SpawnEvents, WaitLive, GatherRaises, Close, Fails
    <3> QED
      BY <3>1, ExchangeUnchanged DEF StartupTypeOK
  <2> QED
    BY <2>1, <2>2
<1>f. ASSUME Fails, UNCHANGED files,
             boot' \in {"none", "created", "listening", "ended", "raised"}
      PROVE  StartupInv'
  BY <1>f, <1>u, <1>x DEF Fails, StartupTypeOK
<1>0. CASE LoadFiles
  <2>1. CASE Fails
    <3>1. UNCHANGED <<files, boot>>
      BY <1>0, <2>1 DEF LoadFiles, Fails
    <3> QED
      BY <1>f, <2>1, <3>1 DEF StartupTypeOK
  <2>2. CASE ~Fails
    BY <1>0, <1>u, <1>x, <2>2 DEF LoadFiles, KeepControl, StartupTypeOK
  <2> QED
    BY <2>1, <2>2
<1> SUFFICES ASSUME UNCHANGED files
             PROVE  StartupInv'
  BY <1>0, <1>u
<1>1. CASE BeginRun
  BY <1>1, <1>u, <1>x DEF BeginRun, KeepControl, StartupTypeOK
<1>2. CASE AddExchange
  <2>1. CASE Fails
    BY <1>2, <1>f, <2>1 DEF AddExchange, StartupTypeOK
  <2>2. CASE ~Fails
    BY <1>2, <1>u, <1>x, <2>2 DEF AddExchange, KeepControl, StartupTypeOK
  <2> QED
    BY <2>1, <2>2
<1>3. CASE DeploymentsAdded
  BY <1>3, <1>u, <1>x DEF DeploymentsAdded, KeepControl, StartupTypeOK
<1>4. CASE WaitFirstEvent
  BY <1>4, <1>u, <1>x DEF WaitFirstEvent, KeepControl, StartupTypeOK
<1>5. CASE NoFirstEvent
  BY <1>5, <1>f DEF NoFirstEvent, StartupTypeOK
<1>6. CASE CreatePoolManagers
  <2>1. CASE Fails
    BY <1>6, <1>f, <2>1 DEF CreatePoolManagers, StartupTypeOK
  <2>2. CASE ~Fails
    <3>1. /\ pc = "managers" /\ first_event # None
          /\ managers' = first_event - 1 /\ turn' = "run" /\ pc' = "files"
          /\ UNCHANGED <<boot, live, all_arbs, tried, helper>>
      BY <1>6, <2>2 DEF CreatePoolManagers, KeepControl
    <3>2. managers' \in Int
      BY <3>1 DEF StartupTypeOK
    <3>3. StartupTypeOK'
      BY <3>1, <3>2, <1>u, <1>x DEF StartupTypeOK
    <3> QED
      BY <3>1, <3>3, <1>u, <1>x
  <2> QED
    BY <2>1, <2>2
<1>7. ASSUME NEW p \in Pools, CreatePoolHelper(p)
      PROVE  StartupInv'
  <2>1. CASE Fails
    BY <1>7, <1>f, <2>1 DEF CreatePoolHelper, StartupTypeOK
  <2>2. CASE ~Fails
    <3>1. /\ pc = "helpers" /\ first_event # None
          /\ tried' = tried \cup {p} /\ turn' = "run"
          /\ helper' = IF p \in files.unmanaged
                       THEN helper
                       ELSE [helper EXCEPT ![p] = first_event - 1]
          /\ UNCHANGED <<boot, pc, live, managers, all_arbs>>
      BY <1>7, <2>2 DEF CreatePoolHelper, KeepControl
    <3>2. first_event - 1 \in Int
      BY <3>1 DEF StartupTypeOK
    <3>3. StartupTypeOK'
      BY <3>1, <3>2, <1>u, <1>x DEF StartupTypeOK
    <3>4. \A q \in Pools : helper'[q] \in {helper[q], first_event - 1}
      BY <3>1 DEF StartupTypeOK
    <3> QED
      BY <3>1, <3>3, <3>4, <1>u, <1>x
  <2> QED
    BY <2>1, <2>2
<1>8. CASE LoadCycles
  <2>1. CASE Fails
    BY <1>8, <1>f, <2>1 DEF LoadCycles, StartupTypeOK
  <2>2. CASE ~Fails
    <3>1. /\ pc = "helpers" /\ pc' = "spawn" /\ turn' = "run" /\ live' = TRUE
          /\ all_arbs' = {a \in ArbPaths : AllHelpers(a)}
          /\ UNCHANGED <<boot, managers, tried, helper>>
      BY <1>8, <2>2 DEF LoadCycles, KeepControl, GoesLive
    <3>2. \A a \in all_arbs' :
            /\ a \in Paths /\ a \notin files.black_arbs
            /\ \A p \in PathOf[a] : helper[p] # None /\ p \notin files.black_pools
      BY <3>1 DEF ArbPaths, AllHelpers, PoolData
    <3>3. StartupTypeOK'
      BY <3>1, <3>2, <1>u, <1>x DEF StartupTypeOK
    <3> QED
      BY <3>1, <3>2, <3>3, <1>u, <1>x
  <2> QED
    BY <2>1, <2>2
<1>9. CASE SpawnEvents
  BY <1>9, <1>u, <1>x DEF SpawnEvents, KeepControl, StartupTypeOK
<1>10. CASE WaitLive
  BY <1>10, <1>u, <1>x DEF WaitLive, StartupTypeOK
<1>11. CASE GatherRaises
  BY <1>11, <1>f DEF GatherRaises, StartupTypeOK
<1>12. CASE Close
  BY <1>12, <1>u, <1>x DEF Close, StartupTypeOK
<1> QED
  BY <1>0, <1>1, <1>2, <1>3, <1>4, <1>5, <1>6, <1>7, <1>8, <1>9, <1>10, <1>11, <1>12
     DEF Run

LEMMA StartupInvariant == Spec => []StartupInv
<1>1. StartupInv /\ [Next]_vars => StartupInv'
  <2>1. ASSUME StartupInv, UNCHANGED vars
        PROVE  StartupInv'
    <3>1. ExchangeTypeOK' /\ Deployed'
      BY <2>1, ExchangeUnchanged DEF StartupInv, StartupTypeOK, vars
    <3> QED
      BY <2>1, <3>1 DEF StartupInv, StartupTypeOK, Held, Built, CyclesTracked, vars
  <2> QED
    BY <2>1, EnvironmentStep, RunStep DEF Next
<1> QED
  BY <1>1, InitStartup, PTL DEF Spec

-----------------------------------------------------------------------------
(* The variables of the start keep their types.                            *)
THEOREM StartupTypeCorrect == Spec => []StartupTypeOK
BY StartupInvariant, PTL DEF StartupInv

(* Snapshot and helpers are of the block before first_event, however often *)
(* BootstrapService changes it.                                            *)
THEOREM HelpersOfOneBlock == Spec => []OneStateBlock
<1>1. StartupInv => OneStateBlock
  BY DEF StartupInv, Held, Built, OneStateBlock, InControl
<1> QED
  BY <1>1, StartupInvariant, PTL

(* No cycle is loaded without the helpers of all its pools.                *)
THEOREM LoadedCyclesTracked == Spec => []CyclesTracked
BY StartupInvariant, PTL DEF StartupInv

(* One exchange's exception or unknown name keeps no other one from its    *)
(* deployment.                                                             *)
THEOREM KnownRegistered == Spec => []KnownExchangesRegistered
<1>1. StartupInv => KnownExchangesRegistered
  <2>1. SUFFICES ASSUME StartupInv, AllAdded
                 PROVE  KnownExchangesRegistered
    BY DEF KnownExchangesRegistered
  <2>2. Len(exchanges) \in Nat /\ at \in Nat /\ at > Len(exchanges)
    BY <2>1, LenProperties DEF StartupInv, StartupTypeOK, ExchangeTypeOK, AllAdded
  <2> QED
    BY <2>1, <2>2 DEF StartupInv, Deployed, KnownExchangesRegistered
<1> QED
  BY <1>1, StartupInvariant, PTL

(* No factory is registered with the deployment of another one, whatever   *)
(* the loop leaves in its local variable.                                  *)
THEOREM OwnDeployments == Spec => []DeploymentsMatch
<1>1. StartupInv => DeploymentsMatch
  BY DEF StartupInv, Deployed
<1> QED
  BY <1>1, StartupInvariant, PTL

(* The wait for live never sleeps.                                         *)
THEOREM LiveWhenAwaited == Spec => []NeverWaitsForLive
<1>1. StartupInv => NeverWaitsForLive
  BY DEF StartupInv, Held, NeverWaitsForLive
<1> QED
  BY <1>1, StartupInvariant, PTL
=============================================================================
