--------------------------- MODULE CursorSession ----------------------------
(***************************************************************************)
(* One run of the Cursor agent over ACP (execution/cursor-acp-runtime.ts)   *)
(* under the provider action policy (security/provider-approval-policy.ts). *)
(* Major asks the agent to open a session, to take a model and to work on a *)
(* prompt; meanwhile the agent asks for permissions, in any order and as    *)
(* often as it likes, answers late or wrongly, dies, or is aborted. The     *)
(* agent is external: its answers and requests are arbitrary.               *)
(***************************************************************************)
EXTENDS Naturals

CONSTANTS CsLabels,   \* tool kinds the agent labels its actions with
          CsTexts,    \* what the disclosed command is: "plain", "destructive", "push", ...
          CsModels,   \* models an agent may offer
          CsAsks,     \* bound: permissions asked for
          CsNone

ASSUME CsAssumption == CsAsks \in Nat /\ CsNone \notin CsModels

VARIABLES
  csReq,      \* the request: mutation allowed, workshop, model wanted, approvals
  csPc,       \* where execute is
  csLeft,     \* remainingDecisions
  csModel,    \* the model option as last reported, CsNone without one
  csChild,    \* the agent's process
  csAborted,
  csGranted   \* history: how often each action was allowed

csVars == <<csReq, csPc, csLeft, csModel, csChild, csAborted, csGranted>>

CsActions == [label : CsLabels, text : CsTexts]

(***************************************************************************)
(* The policy                                                               *)
(***************************************************************************)

\* classifyProviderAction: the command tightens the label.
CsClassify(a) == IF a.text = "plain" THEN a.label ELSE a.text

\* providerActionDigest: what is approved is one exact action, as classified.
CsDigest(a) == <<CsClassify(a), a.text>>

CsCategory(kind) ==
  CASE kind = "execute" -> "command_execution"
    [] kind = "install" -> "dependency_install"
    [] kind \in {"external", "fetch"} -> "external_integration"
    [] kind \in {"push", "deploy"} -> kind
    [] OTHER -> CsNone

CsDecision(a) == [category |-> CsCategory(CsClassify(a)), digest |-> CsDigest(a)]

\* Categories a supervised workshop allows inside the assigned project.
CsIsolated(kind) == kind \in {"execute", "install", "fetch"}

\* decideProviderAction, for the one host with approvals of single actions.
CsDecide(a, left) ==
  LET kind == CsClassify(a) IN
  CASE kind = "delete" -> csReq.workshop
    [] kind \in {"destructive", "unknown"} -> FALSE
    [] CsCategory(kind) # CsNone -> (csReq.workshop /\ CsIsolated(kind)) \/ CsDecision(a) \in left
    [] OTHER -> kind \in {"read", "edit", "move", "search", "think"}

\* validateProviderApprovalAuthority: at most one approval in a category.
CsAuthority ==
  LET Needing == {a \in CsActions : CsCategory(CsClassify(a)) # CsNone}
  IN {S \in SUBSET {CsDecision(a) : a \in Needing} :
        \A d, e \in S : d.category = e.category => d = e}

CsInit ==
  /\ csReq \in [allow : BOOLEAN, workshop : BOOLEAN, model : CsModels \cup {CsNone},
                approved : CsAuthority]
  /\ csPc = "initialize" /\ csLeft = csReq.approved /\ csModel = CsNone
  /\ csChild = "up" /\ csAborted = FALSE
  /\ csGranted = [a \in CsActions |-> 0]

(***************************************************************************)
(* The permission handler                                                   *)
(***************************************************************************)

\* Slip: an approval outlives its use.
CsSpend_Kept(a) == csLeft

\* decideCursorPermission: an automatic answer uses up the approval it matches.
CsSpend(a) == {d \in csLeft : d.digest # CsDigest(a)}

CsListening == csPc \in {"session", "model", "prompt"} /\ csChild = "up"

\* A request without an allow_once option is cancelled, its approval spent.
CsAsk(a) ==
  /\ CsListening /\ csGranted[a] < CsAsks
  /\ csReq.allow /\ CsDecide(a, csLeft)
  /\ csLeft' = CsSpend(a)
  /\ \E once \in BOOLEAN : csGranted' = [csGranted EXCEPT ![a] = IF once THEN @ + 1 ELSE @]
  /\ UNCHANGED <<csReq, csPc, csModel, csChild, csAborted>>

(***************************************************************************)
(* The protocol                                                             *)
(***************************************************************************)

\* A request to the agent that fails, or an answer that is not accepted: the
\* finally of execute.
CsAnswered(pc, next) == csPc = pc /\ csChild = "up" /\ csPc' = next
CsFails ==
  /\ csPc \in {"initialize", "session", "model", "prompt"} /\ csPc' = "finally"
  /\ UNCHANGED <<csReq, csLeft, csModel, csChild, csAborted, csGranted>>

\* initialize, whose answer must have the same protocol version.
CsInitialize ==
  /\ CsAnswered("initialize", "session")
  /\ UNCHANGED <<csReq, csLeft, csModel, csChild, csAborted, csGranted>>

\* session/load or session/new, with the options the session has: cursorModelOption.
CsOpen ==
  /\ CsAnswered("session", "model")
  /\ csModel' \in CsModels \cup {CsNone}
  /\ UNCHANGED <<csReq, csLeft, csChild, csAborted, csGranted>>

CsConfirmed(m) == m = csReq.model

\* The model that was asked for is set and confirmed; "auto" asks for none.
CsSelect ==
  /\ \/ /\ csReq.model = CsNone /\ csModel' = csModel
     \/ /\ csReq.model # CsNone /\ csModel # CsNone
        /\ \E m \in CsModels \cup {CsNone} : CsConfirmed(m) /\ csModel' = m
  /\ CsAnswered("model", "prompt")
  /\ UNCHANGED <<csReq, csLeft, csChild, csAborted, csGranted>>

\* session/prompt is answered; an aborted session is answered too.
CsPrompted ==
  /\ CsAnswered("prompt", "closing")
  /\ UNCHANGED <<csReq, csLeft, csModel, csChild, csAborted, csGranted>>

(***************************************************************************)
(* The end of the agent                                                     *)
(***************************************************************************)

\* It ends by itself, or with the SIGTERM of an abort or of the closing; it may
\* also ignore both.
CsDies ==
  /\ csChild = "up" /\ csChild' = "gone"
  /\ UNCHANGED <<csReq, csPc, csLeft, csModel, csAborted, csGranted>>

\* abort: session/cancel and a SIGTERM, once.
CsAbort ==
  /\ csPc # "over" /\ ~csAborted /\ csAborted' = TRUE
  /\ UNCHANGED <<csReq, csPc, csLeft, csModel, csChild, csGranted>>

\* Standard input is closed and the agent has half a second, SIGTERM and two
\* more seconds, SIGKILL; the result is handed out by way of the finally.
CsClose ==
  /\ csPc = "closing" /\ csPc' = "finally"
  /\ csChild' \in IF csChild = "up" THEN {"gone", "killed"} ELSE {csChild}
  /\ UNCHANGED <<csReq, csLeft, csModel, csAborted, csGranted>>

\* The finally: whoever has not exited is killed, and the backend forgets it.
CsFinally ==
  /\ csPc = "finally" /\ csPc' = "over"
  /\ csChild' = IF csChild = "up" THEN "killed" ELSE csChild
  /\ UNCHANGED <<csReq, csLeft, csModel, csAborted, csGranted>>

CsNext ==
  \/ \E a \in CsActions : CsAsk(a)
  \/ CsInitialize \/ CsOpen \/ CsSelect \/ CsPrompted \/ CsFails
  \/ CsDies \/ CsAbort \/ CsClose \/ CsFinally

CsSpec == CsInit /\ [][CsNext]_csVars

(***************************************************************************)
(* Properties                                                               *)
(***************************************************************************)

\* Types; what is left of the approvals is part of what the request came with.
CsTypeOK ==
  /\ csReq.allow \in BOOLEAN /\ csReq.workshop \in BOOLEAN
  /\ csReq.model \in CsModels \cup {CsNone}
  /\ csPc \in {"initialize", "session", "model", "prompt", "closing", "finally", "over"}
  /\ csLeft \subseteq csReq.approved
  /\ csModel \in CsModels \cup {CsNone} /\ csChild \in {"up", "gone", "killed"}
  /\ csAborted \in BOOLEAN /\ csGranted \in [CsActions -> 0..CsAsks]

\* An action that needs an approval is allowed with it, and only once for it,
\* however often the agent asks and under whatever label (decideCursorPermission's
\* splice).
CsApprovedOnce ==
  \A a \in {b \in CsActions : csGranted[b] > 0} :
    LET kind == CsClassify(a) IN
    CsCategory(kind) # CsNone /\ ~(csReq.workshop /\ CsIsolated(kind)) =>
      /\ CsDecision(a) \in csReq.approved /\ csGranted[a] = 1
      /\ \A b \in CsActions : csGranted[b] > 0 /\ CsDigest(b) = CsDigest(a) => b = a

\* A destructive command is never allowed, as an edit or as an approved command
\* or in a workshop, and a deletion only in a workshop; a run that may not change
\* the guest is allowed nothing (decideProviderAction, the permission handler).
CsNeverGranted ==
  \A a \in CsActions :
    csGranted[a] > 0 => /\ csReq.allow /\ a.text # "destructive"
                        /\ a.text = "plain" /\ a.label = "delete" => csReq.workshop

\* The prompt is only given to the model that was asked for, whatever the agent
\* offers or answers (CursorAcpRuntime.execute's confirmation).
CsModelHeld ==
  csPc \in {"prompt", "closing"} /\ csReq.model # CsNone => csModel = csReq.model

\* When execute is over no agent is left running, whichever way it ended
\* (the closing and the finally of CursorAcpRuntime.execute).
CsNoneLeft == csPc = "over" => csChild # "up"

\* What an agent that asks and answers as it likes can get out of a session: the
\* parts above.
CsSafe == CsTypeOK /\ CsApprovedOnce /\ CsNeverGranted /\ CsModelHeld /\ CsNoneLeft
=============================================================================
