--------------------------- MODULE ExchangeService ---------------------------
(***************************************************************************)
(* ExchangeService.add_deployments (app/core/exchange_service.py): before  *)
(* the managers are created, the factories in the chain's configuration    *)
(* are registered in degenbot's table FACTORY_DEPLOYMENTS.  The loop keeps *)
(* one local variable, factory_deployment, from one exchange to the next:  *)
(* for a v3 exchange with an unknown name it is unbound, or still that of  *)
(* an earlier exchange.                                                    *)
(***************************************************************************)
EXTENDS Integers, Sequences

CONSTANTS
  Factories,  \* factory addresses
  Configs,    \* contents of chain_data["factories"], in iteration order
  Builtin,    \* factories degenbot has a deployment for by itself
  Unbound     \* no deployment

Exchange == [version : {"v2", "v3"},
             name    : {"uniswap", "pancakeswap", "other"},
             factory : Factories]

(* abi stands for the fields in which the deployments differ.              *)
Deployment == [factory : Factories, abi : {"builtin", "v2", "v3", "pancake"}]

ASSUME ExchangesAssumption ==
  /\ Configs \subseteq Seq(Exchange)
  /\ Builtin \subseteq Factories
  /\ Unbound \notin Deployment

VARIABLES
  exchanges,          \* chain_data["factories"]
  refuses,            \* factories for which register_exchange raises
  at,                 \* the exchange the loop is at
  factory_deployment, \* local variable of add_deployments
  deployments         \* FACTORY_DEPLOYMENTS[chain_id]

exchangeVars == <<exchanges, refuses, at, factory_deployment, deployments>>

ExchangeTypeOK ==
  /\ exchanges \in Seq(Exchange)
  /\ refuses \subseteq Factories
  /\ at \in 1 .. Len(exchanges) + 1
  /\ factory_deployment \in Deployment \cup {Unbound}
  /\ deployments \in [Factories -> Deployment \cup {Unbound}]

ExchangeInit ==
  /\ exchanges \in Configs
  /\ refuses \in SUBSET Factories
  /\ at = 1
  /\ factory_deployment = Unbound
  /\ deployments = [f \in Factories |-> IF f \in Builtin
                                        THEN [factory |-> f, abi |-> "builtin"]
                                        ELSE Unbound]

(* The exchanges add_deployments builds a deployment for.                  *)
Known(e) == e.version = "v2" \/ e.name \in {"uniswap", "pancakeswap"}

Abi(e) ==
  IF e.version = "v2" THEN "v2"
  ELSE IF e.name = "pancakeswap" THEN "pancake" ELSE "v3"

BuiltDeployment(e) ==
  IF Known(e) THEN [factory |-> e.factory, abi |-> Abi(e)] ELSE factory_deployment

(* register_exchange stores a deployment under its own factory address; an *)
(* exception, UnboundLocalError among them, is caught and logged.          *)
\* A faulty variant of RegisterExchange.
RegisterUnderCurrent(d) ==
  deployments' = IF d = Unbound \/ exchanges[at].factory \in refuses
                 THEN deployments
                 ELSE [deployments EXCEPT ![exchanges[at].factory] = d]
RegisterExchange(d) ==
  deployments' = IF d = Unbound \/ d.factory \in refuses
                 THEN deployments
                 ELSE [deployments EXCEPT ![d.factory] = d]

\* A faulty variant of NextExchange.
StopAtError ==
  at' = IF deployments' = deployments THEN Len(exchanges) + 1 ELSE at + 1
NextExchange == at' = at + 1

(* One turn of the loop; a factory that is registered is passed over.      *)
AddDeployment ==
  /\ at <= Len(exchanges)
  /\ IF deployments[exchanges[at].factory] # Unbound
     THEN UNCHANGED <<factory_deployment, deployments>>
     ELSE /\ factory_deployment' = BuiltDeployment(exchanges[at])
          /\ RegisterExchange(factory_deployment')
  /\ NextExchange
  /\ UNCHANGED <<exchanges, refuses>>

AllAdded == at > Len(exchanges)

-----------------------------------------------------------------------------
(* Properties of the finished table.                                       *)

(* Every exchange the code knows how to deploy has its deployment, unless  *)
(* its own registration raised: neither another one's exception nor the    *)
(* deployment left over from another exchange gets in the way.             *)
KnownExchangesRegistered ==
  AllAdded =>
    \A k \in 1 .. Len(exchanges) :
      Known(exchanges[k]) /\ exchanges[k].factory \notin refuses
        => deployments[exchanges[k].factory] # Unbound

(* No factory is registered with the deployment of another one, the stale  *)
(* factory_deployment in particular: it is degenbot's own, or made for a   *)
(* configured exchange with that factory.                                  *)
DeploymentsMatch ==
  \A f \in Factories : deployments[f] # Unbound =>
    /\ deployments[f].factory = f
    /\ \/ f \in Builtin
       \/ \E k \in 1 .. Len(exchanges) :
            /\ exchanges[k].factory = f /\ Known(exchanges[k])
            /\ deployments[f].abi = Abi(exchanges[k])
=============================================================================
