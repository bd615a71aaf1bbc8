------------------------------ MODULE MCMachine ------------------------------
(***************************************************************************)
(* How work is executed on the machine, part beside part: the dispatcher    *)
(* with crashes, nested resource use, the execution gateway, the Lima       *)
(* backend, a Cursor session and the trust of a project. They share no      *)
(* state here, so a behaviour is one of a single part, chosen at the start, *)
(* while the others stay where they began: the run costs the sum of their   *)
(* states, not the product.                                                 *)
(***************************************************************************)
EXTENDS MCResourceBroker, MCParallelDispatch, ExecutionGateway, LimaBackend,
        CursorSession, TrustPolicy

VARIABLE part

\* A part that is not chosen, and has several initial states, is given one.
MachineInit ==
  /\ part \in {"broker", "dispatch", "gateway", "lima", "cursor", "trust"}
  /\ BrokerInit /\ Init /\ GwInit /\ LimaInit /\ CsInit /\ TpInit
  /\ part # "gateway" => gwActivated = TRUE
  /\ part # "cursor" => csReq = [allow |-> FALSE, workshop |-> FALSE, model |-> CsNone, approved |-> {}]

MachineNext ==
  /\ UNCHANGED part
  /\ \/ part = "broker" /\ BrokerNext /\ UNCHANGED <<vars, gwVars, limaVars, csVars, tpVars>>
     \/ part = "dispatch" /\ Next /\ UNCHANGED <<brokerVars, gwVars, limaVars, csVars, tpVars>>
     \/ part = "gateway" /\ GwNext /\ UNCHANGED <<brokerVars, vars, limaVars, csVars, tpVars>>
     \/ part = "lima" /\ LimaNext /\ UNCHANGED <<brokerVars, vars, gwVars, csVars, tpVars>>
     \/ part = "cursor" /\ CsNext /\ UNCHANGED <<brokerVars, vars, gwVars, limaVars, tpVars>>
     \/ part = "trust" /\ TpNext /\ UNCHANGED <<brokerVars, vars, gwVars, limaVars, csVars>>

\* In the configuration the two processes and executions are the same two model
\* values, which every part treats alike.
MachineSymmetry == Permutations(GwExecs)

MachineSpec ==
  MachineInit /\ [][MachineNext]_<<part, brokerVars, vars, gwVars, limaVars, csVars, tpVars>>
=============================================================================
