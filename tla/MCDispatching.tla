---------------------------- MODULE MCDispatching ----------------------------
(***************************************************************************)
(* The resource broker, the parallel dispatcher and the learning stores,    *)
(* each with its fairness, side by side. They share no state here, so a     *)
(* behaviour is one of a single part, chosen at the start, while the others *)
(* stay where they began: the run costs the sum of their states, not the    *)
(* product.                                                                 *)
(***************************************************************************)
EXTENDS MCResourceBroker, MCParallelDispatch, LearningStores

VARIABLE part

\* A part that is not chosen, and has several initial states, is given one.
DispatchingInit == /\ part \in {"broker", "dispatch", "stores"}
                   /\ BrokerInit /\ Init /\ LsInit
                   /\ part # "stores" => lsLegacy = FALSE

DispatchingNext ==
  \/ part = "broker" /\ BrokerNext /\ UNCHANGED <<part, vars, lsVars>>
  \/ part = "dispatch" /\ Next /\ UNCHANGED <<part, brokerVars, lsVars>>
  \/ part = "stores" /\ LsNext /\ UNCHANGED <<part, brokerVars, vars>>

\* The fairness of BrokerFairSpec, FairSpec and LsFairness, each
\* asked of its part only.
DispatchingFairness ==
  /\ WF_brokerVars(part = "broker" /\ Holder)
  /\ WF_brokerVars(part = "broker" /\ BrokerTick)
  /\ \A o \in Owners : WF_brokerVars(part = "broker" /\ WaiterStep(o))
  /\ WF_vars(part = "dispatch" /\ Cycle) /\ WF_vars(part = "dispatch" /\ TimePasses)
  /\ \A t \in Tasks : WF_vars(part = "dispatch" /\ Driver(t))
  /\ \A p \in LsProcs : /\ WF_lsVars(part = "stores" /\ LsStep(p))
                        /\ SF_lsVars(part = "stores" /\ LsTimeout(p))

DispatchingSpec == /\ DispatchingInit
                   /\ [][DispatchingNext]_<<part, brokerVars, vars, lsVars>>
                   /\ DispatchingFairness
=============================================================================
