----------------------------- MODULE StagedFields -----------------------------
(***************************************************************************)
(* What a staged-validation lease is for (security/staged-validation.ts):   *)
(* fixed field cases, each run once by a provider in its own workspace and  *)
(* then completed from the evidence of that run. A Cursor resume builds on  *)
(* a completed create, a recovery on a contained failure. The races of one  *)
(* lease's admission and settlement are ExecutionGateway's; here a lease is *)
(* followed from issue to evidence, beside leases it builds on, revocation, *)
(* expiry and whoever else writes in the workspace.                         *)
(***************************************************************************)
EXTENDS Naturals

CONSTANTS SfLeases,    \* leases, numbered in the order they are issued
          SfCases,     \* the cases that are issued
          SfEdits,     \* bound: writes by others in a workspace
          SfNone

ASSUME SfAssumption == SfLeases \subseteq Nat \ {0} /\ SfEdits \in Nat

VARIABLES
  sfLease,   \* validation_leases
  sfFiles,   \* per workspace: the files in it
  sfEdits,
  sfSeen     \* history: the workspace as it was when the lease was completed

sfVars == <<sfLease, sfFiles, sfEdits, sfSeen>>

SfLive == {"issued", "running", "validating"}

\* fixedStagedValidationCase and the field requests: who runs, where, ending how.
SfCursor == {"create", "resume", "cancel", "failure"}
SfSpace(case) ==
  CASE case \in {"create", "resume"} -> "cursor-success"
    [] case \in {"failure", "recovery"} -> "failure-recovery"
    [] OTHER -> case
SfExpected(case) == IF case = "cancel" THEN "cancelled" ELSE "succeeded"

\* The files a provider field must end with; a release field's are not listed.
SfFiles == {"field", "resumed"}
SfProviderCases == {"claude", "codex", "create", "resume", "cancel"}
SfExactFiles(case) ==
  CASE case \in {"claude", "create"} -> {"field"}
    [] case = "resume" -> {"field", "resumed"}
    [] OTHER -> {}

SfAbsent == [status |-> "none", case |-> SfNone, pred |-> 0, ran |-> "none", reason |-> "none",
             clean |-> FALSE, session |-> 0, files |-> {}]

SfInit ==
  /\ sfLease = [l \in SfLeases |-> SfAbsent]
  /\ sfFiles = [w \in {SfSpace(c) : c \in SfCases} |-> {}]
  /\ sfEdits = 0
  /\ sfSeen = [l \in SfLeases |-> {}]

SfSpaceOf(l) == SfSpace(sfLease[l].case)

(***************************************************************************)
(* Issue and start                                                          *)
(***************************************************************************)

\* A recovery follows a Cursor run of the same workspace that was interrupted
\* and cleaned up after.
SfContained(pred, case) ==
  /\ sfLease[pred].status \in {"failed", "cancelled"} /\ sfLease[pred].case \in SfCursor
  /\ SfSpaceOf(pred) = SfSpace(case)
  /\ sfLease[pred].reason = "interrupted" /\ sfLease[pred].clean

\* A resume follows a completed Cursor field of the same workspace with a session.
SfResumable(pred, case) ==
  /\ sfLease[pred].status = "succeeded" /\ sfLease[pred].case \in SfCursor
  /\ SfSpaceOf(pred) = SfSpace(case) /\ sfLease[pred].session # 0

SfPredecessor(case, pred) ==
  CASE case = "recovery" -> pred # 0 /\ SfContained(pred, case)
    [] case = "resume" -> pred # 0 /\ SfResumable(pred, case)
    [] OTHER -> pred = 0

\* One lease is live at a time (the unique index on the activation slot).
SfIssue(l, case, pred) ==
  /\ sfLease[l].status = "none" /\ \A k \in SfLeases : sfLease[k].status \notin SfLive
  /\ \A k \in SfLeases : k < l => sfLease[k].status # "none"
  /\ pred < l /\ SfPredecessor(case, pred)
  /\ sfLease' = [sfLease EXCEPT ![l] = [SfAbsent EXCEPT !.status = "issued", !.case = case,
                                                         !.pred = pred]]
  /\ UNCHANGED <<sfFiles, sfEdits, sfSeen>>

\* The request is the case's own, and its predecessor is looked at again.
SfCaseRequest(l) == SfPredecessor(sfLease[l].case, sfLease[l].pred)

\* Provider, project, workspace, request and worker lease are those of the lease.
SfStart(l) ==
  /\ sfLease[l].status = "issued" /\ SfCaseRequest(l)
  /\ sfLease' = [sfLease EXCEPT ![l].status = "running"]
  /\ UNCHANGED <<sfFiles, sfEdits, sfSeen>>

(***************************************************************************)
(* The run ends: the lease records how, and a digest of the workspace       *)
(***************************************************************************)
SfSettled(outcome, case, clean) ==
  IF outcome = SfExpected(case) /\ clean THEN "validating"
  ELSE IF outcome = "cancelled" THEN "cancelled" ELSE "failed"

\* A Cursor run has a session of its own or, resumed, that of its predecessor;
\* what it leaves in the workspace is up to it.
SfSettle(l, outcome, clean, files) ==
  LET case == sfLease[l].case
      sessions == IF case = "create" THEN {0, l}
                  ELSE IF case = "resume" THEN {l, sfLease[sfLease[l].pred].session} ELSE {0}
  IN
  /\ sfLease[l].status = "running"
  /\ files # sfFiles[SfSpaceOf(l)] => files \subseteq SfExactFiles(case) \cup {"field"}
  /\ sfFiles' = [sfFiles EXCEPT ![SfSpaceOf(l)] = files]
  /\ \E session \in sessions :
       sfLease' = [sfLease EXCEPT ![l] =
                     [@ EXCEPT !.status = SfSettled(outcome, case, clean), !.ran = outcome,
                               !.reason = IF outcome = "succeeded" THEN "none" ELSE "interrupted",
                               !.clean = clean, !.session = session, !.files = files]]
  /\ UNCHANGED <<sfEdits, sfSeen>>

(***************************************************************************)
(* Completion                                                               *)
(***************************************************************************)

\* Slip: the workspace is not compared with the digest of the run.
SfIdentity_NoDigest(l) == sfLease[l].status = "validating" /\ sfLease[l].clean

\* The evidence is of this lease's run and the workspace is still as it left it.
SfIdentity(l) ==
  /\ sfLease[l].status = "validating" /\ sfLease[l].clean
  /\ sfFiles[SfSpaceOf(l)] = sfLease[l].files

SfTerminal(l) ==
  /\ sfLease' = [sfLease EXCEPT ![l].status = "succeeded"]
  /\ sfSeen' = [sfSeen EXCEPT ![l] = sfFiles[SfSpaceOf(l)]]
  /\ UNCHANGED <<sfFiles, sfEdits>>

\* A release field; its failing half is never completed.
SfCompleteRelease(l) ==
  /\ sfLease[l].case \notin SfProviderCases /\ SfIdentity(l)
  /\ sfLease[l].case # "failure"
  /\ sfLease[l].case = "recovery" => SfContained(sfLease[l].pred, "recovery")
  /\ SfTerminal(l)

SfCompleteCli(l) ==
  /\ sfLease[l].case \in SfProviderCases \ SfCursor /\ SfIdentity(l)
  /\ sfFiles[SfSpaceOf(l)] = SfExactFiles(sfLease[l].case)
  /\ SfTerminal(l)

\* A created session has a name; a resumed one is the one that was asked for.
SfCompleteCursor(l) ==
  LET case == sfLease[l].case IN
  /\ case \in SfProviderCases \cap SfCursor /\ SfIdentity(l)
  /\ sfFiles[SfSpaceOf(l)] = SfExactFiles(case)
  /\ case = "create" => sfLease[l].session # 0
  /\ case = "resume" => sfLease[l].session = sfLease[sfLease[l].pred].session
  /\ SfTerminal(l)

(***************************************************************************)
(* Revocation, expiry, and others in the workspace                          *)
(***************************************************************************)
SfClose(l, status) ==
  /\ sfLease[l].status \in SfLive
  /\ sfLease' = [sfLease EXCEPT ![l].status = status, ![l].reason = "closed"]
  /\ UNCHANGED <<sfFiles, sfEdits, sfSeen>>

SfRevoke(l) == SfClose(l, "cancelled")
SfExpire(l) == SfClose(l, "expired")

SfEdit(w, files) ==
  /\ sfEdits < SfEdits /\ files # sfFiles[w]
  /\ sfEdits' = sfEdits + 1
  /\ sfFiles' = [sfFiles EXCEPT ![w] = files]
  /\ UNCHANGED <<sfLease, sfSeen>>

SfNext ==
  \/ \E w \in DOMAIN sfFiles, files \in SUBSET SfFiles : SfEdit(w, files)
  \/ \E l \in SfLeases :
       \/ \E case \in SfCases, pred \in SfLeases \cup {0} : SfIssue(l, case, pred)
       \/ SfStart(l)
       \/ \E outcome \in {"succeeded", "failed", "cancelled"}, clean \in BOOLEAN,
             files \in SUBSET SfFiles : SfSettle(l, outcome, clean, files)
       \/ SfCompleteRelease(l) \/ SfCompleteCli(l) \/ SfCompleteCursor(l)
       \/ SfRevoke(l) \/ SfExpire(l)

SfSpec == SfInit /\ [][SfNext]_sfVars

(***************************************************************************)
(* Properties                                                               *)
(***************************************************************************)

\* Leases and workspaces have the shapes the code gives them.
SfTypeOK == \A l \in SfLeases :
  /\ sfLease[l].status \in {"none", "issued", "running", "validating", "succeeded", "failed",
                            "cancelled", "expired"}
  /\ sfLease[l].case \in SfCases \cup {SfNone} /\ sfLease[l].pred \in SfLeases \cup {0}
  /\ sfLease[l].files \subseteq SfFiles

\* A field that counts as passed rests on its own run: it ended the way the case
\* wants, was cleaned up after, and the workspace in which the evidence was found
\* is the one that run left, though others may write there in between.
SfPassIsOfItsRun == \A l \in SfLeases : sfLease[l].status = "succeeded" =>
  /\ sfLease[l].ran = SfExpected(sfLease[l].case) /\ sfLease[l].clean
  /\ sfSeen[l] = sfLease[l].files

\* A passed recovery recovered from a run that really took place, was interrupted
\* and cleaned up after, not from a lease that was revoked or lapsed; a passed
\* resume continued the session of a field that passed.
SfChainHolds == \A l \in SfLeases : sfLease[l].status = "succeeded" =>
  LET pred == sfLease[l].pred IN
  /\ sfLease[l].case = "recovery" => /\ sfLease[pred].ran \in {"failed", "cancelled"}
                                     /\ sfLease[pred].clean
  /\ sfLease[l].case = "resume" => /\ sfLease[pred].status = "succeeded"
                                   /\ sfLease[pred].session = sfLease[l].session

\* What a passed field rests on: the parts above.
SfSafe == SfTypeOK /\ SfPassIsOfItsRun /\ SfChainHolds

-----------------------------------------------------------------------------
(* The inductive invariant of the proofs *)

SfRecord ==
  [status : {"none", "issued", "running", "validating", "succeeded", "failed", "cancelled",
             "expired"},
   case : SfCases \cup {SfNone}, pred : SfLeases \cup {0},
   ran : {"none", "succeeded", "failed", "cancelled"}, reason : {"none", "interrupted", "closed"},
   clean : BOOLEAN, session : Nat, files : SUBSET SfFiles]

SfWorldOK == /\ sfLease \in [SfLeases -> SfRecord]
             /\ sfFiles \in [{SfSpace(c) : c \in SfCases} -> SUBSET SfFiles]
             /\ sfSeen \in [SfLeases -> SUBSET SfFiles]

\* What an issued lease builds on is over, so it stays as it was when the lease
\* was issued; and only a run is recorded as interrupted.
SfBuilt(x) == /\ x.status # "none" => x.case \in SfCases /\ SfPredecessor(x.case, x.pred)
              /\ x.reason = "interrupted" => x.ran \in {"failed", "cancelled"}

\* A lease that is validated or passed had the run its case asks for.
SfRested(x, seen) ==
  /\ x.status \in {"validating", "succeeded"} => x.ran = SfExpected(x.case) /\ x.clean
  /\ x.status = "succeeded" => /\ seen = x.files
                               /\ x.case = "resume" => sfLease[x.pred].session = x.session

SfInv == SfWorldOK /\ \A l \in SfLeases : SfBuilt(sfLease[l]) /\ SfRested(sfLease[l], sfSeen[l])
=============================================================================
