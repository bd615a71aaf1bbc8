--------------------------- MODULE RoadmapProposals ---------------------------
(***************************************************************************)
(* Proposed updates of the roadmap sheet and the crash-consistent protocol  *)
(* that applies them (roadmap/proposal-service.ts). Rows live in the        *)
(* database and change by compare-and-swap; the sheet is outside and every  *)
(* call to it is awaited, so other callers, people and reconciliation act   *)
(* in between. The sheet has one cell that all updates and people write.    *)
(***************************************************************************)
EXTENDS Naturals

CONSTANTS RpUpdates,       \* proposals, each with its own idempotency key
          RpDone,          \* those that mark their row Done
          RpProcs,         \* callers: proposing, applying or reconciling
          RpForeign,       \* those that run on a host other than the first
          RpLease,         \* how long an apply attempt holds its row
          RpMaxTime, RpMaxEdits, RpMaxAttempts,  \* bounds
          RpNone

ASSUME RpAssumption == /\ RpDone \subseteq RpUpdates /\ RpForeign \subseteq RpProcs
                       /\ RpLease \in Nat /\ RpMaxTime \in Nat /\ RpMaxAttempts \in Nat

VARIABLES
  rpRow,     \* roadmap_updates: status, attempt, expiry, sourceRevision, dryRunDiff
  rpSheet,   \* the source: revision, the cell, the idempotency keys applied
  rpProof,   \* what is on record for a Done: "evidence", "approval"
  rpHost,    \* roadmap_runtime_hosts: the host mutation is bound to
  rpProc,    \* per caller: where it is, the revision or the time it read, the row it saw
  rpClock, rpEdits,
  rpWritten, \* history: updates whose change reached the sheet
  rpLate     \* history: updates requeued as not written while their attempt could still
             \* write, or while a no from before its write was still to be acted on

rpVars == <<rpRow, rpSheet, rpProof, rpHost, rpProc, rpClock, rpEdits, rpWritten, rpLate>>

RpStatuses == {"none", "proposed", "applying", "applied", "rejected", "superseded"}

RpAbsent == [status |-> "none", attempt |-> 0, expiry |-> 0, base |-> 0, from |-> RpNone]

RpIdle == [pc |-> "idle", update |-> RpNone, read |-> 0, attempt |-> 0,
           seen |-> RpAbsent, yes |-> FALSE]

RpInit ==
  /\ rpRow = [u \in RpUpdates |-> RpAbsent]
  /\ rpSheet = [revision |-> 0, cell |-> RpNone, keys |-> {}]
  /\ rpProof = {} /\ rpHost = RpNone
  /\ rpProc = [p \in RpProcs |-> RpIdle]
  /\ rpClock = 0 /\ rpEdits = 0 /\ rpWritten = {} /\ rpLate = {}

RpGoto(p, rec) == rpProc' = [rpProc EXCEPT ![p] = rec]
RpReturn(p) == RpGoto(p, RpIdle)

(***************************************************************************)
(* Proposing: the revision is asked for before the dry run is made          *)
(***************************************************************************)

\* A Done needs evidence of a task of the item before anything is asked.
RpDoneEvidence(u) == u \in RpDone => "evidence" \in rpProof

RpPropose(p, u) ==
  /\ rpProc[p].pc = "idle" /\ rpRow[u].status = "none"
  /\ RpDoneEvidence(u)
  /\ RpGoto(p, [RpIdle EXCEPT !.pc = "dry run", !.update = u, !.read = rpSheet.revision])
  /\ UNCHANGED <<rpRow, rpSheet, rpProof, rpHost, rpClock, rpEdits, rpWritten, rpLate>>

\* The dry run records what the cell held; the key is unique, so that a second
\* proposal of the same change is refused whatever became of the first.
RpDryRun(p) ==
  LET u == rpProc[p].update IN
  /\ rpProc[p].pc = "dry run"
  /\ rpRow' = IF rpRow[u].status = "none"
              THEN [rpRow EXCEPT ![u] = [RpAbsent EXCEPT !.status = "proposed",
                                           !.base = rpProc[p].read, !.from = rpSheet.cell]]
              ELSE rpRow
  /\ RpReturn(p)
  /\ UNCHANGED <<rpSheet, rpProof, rpHost, rpClock, rpEdits, rpWritten, rpLate>>

(***************************************************************************)
(* Applying                                                                 *)
(***************************************************************************)

\* The first host that applies or reconciles is the only one that ever may.
RpBindHost(p) ==
  LET host == IF p \in RpForeign THEN "other" ELSE "first" IN
  /\ rpHost \in {RpNone, host}
  /\ rpHost' = host

\* An applied row is reported, one being applied or settled otherwise refused.
RpApply(p, u) ==
  /\ rpProc[p].pc = "idle" /\ rpRow[u].status # "none"
  /\ RpBindHost(p)
  /\ IF rpRow[u].status = "proposed"
     THEN RpGoto(p, [RpIdle EXCEPT !.pc = "revision", !.update = u, !.seen = rpRow[u]])
     ELSE UNCHANGED rpProc
  /\ UNCHANGED <<rpRow, rpSheet, rpProof, rpClock, rpEdits, rpWritten, rpLate>>

RpRevision(p) ==
  /\ rpProc[p].pc = "revision"
  /\ RpGoto(p, [rpProc[p] EXCEPT !.pc = "compare", !.read = rpSheet.revision])
  /\ UNCHANGED <<rpRow, rpSheet, rpProof, rpHost, rpClock, rpEdits, rpWritten, rpLate>>

\* Compare-and-swap proposed -> applying under a fresh attempt, then on to `pc`;
\* a row that is no longer proposed throws.
RpClaim(p, u, pc) ==
  IF rpRow[u].status = "proposed"
  THEN /\ rpRow[u].attempt < RpMaxAttempts
       /\ rpRow' = [rpRow EXCEPT ![u].status = "applying", ![u].attempt = @ + 1,
                                 ![u].expiry = rpClock + RpLease]
       /\ RpGoto(p, [rpProc[p] EXCEPT !.pc = pc, !.attempt = rpRow[u].attempt + 1,
                                      !.yes = pc = "settle"])
  ELSE RpReturn(p) /\ UNCHANGED rpRow

\* The source has not moved since the dry run: a Done shows its evidence again
\* and an approved decision, then the attempt is claimed.
RpClaimFresh(p) ==
  LET u == rpProc[p].update IN
  /\ rpProc[p].pc = "compare" /\ rpProc[p].read = rpProc[p].seen.base
  /\ IF RpDoneEvidence(u) /\ (u \in RpDone => "approval" \in rpProof)
     THEN RpClaim(p, u, "write")
     ELSE RpReturn(p) /\ UNCHANGED rpRow
  /\ UNCHANGED <<rpSheet, rpProof, rpHost, rpClock, rpEdits, rpWritten, rpLate>>

\* Slip: the source is not asked whether it holds the key already.
RpAsk_NoQuery(p) ==
  /\ rpProc[p].pc = "compare" /\ rpProc[p].read # rpProc[p].seen.base
  /\ RpGoto(p, [rpProc[p] EXCEPT !.pc = "moved", !.yes = FALSE])
  /\ UNCHANGED <<rpRow, rpSheet, rpProof, rpHost, rpClock, rpEdits, rpWritten, rpLate>>

\* The source moved: it is asked for the key before the update is given up.
RpAsk(p) ==
  /\ rpProc[p].pc = "compare" /\ rpProc[p].read # rpProc[p].seen.base
  /\ RpGoto(p, [rpProc[p] EXCEPT !.pc = "moved", !.yes = rpProc[p].update \in rpSheet.keys])
  /\ UNCHANGED <<rpRow, rpSheet, rpProof, rpHost, rpClock, rpEdits, rpWritten, rpLate>>

RpMoved(p) ==
  LET u == rpProc[p].update IN
  /\ rpProc[p].pc = "moved"
  /\ IF rpProc[p].yes
     THEN RpClaim(p, u, "settle")
     ELSE /\ rpRow' = IF rpRow[u].status = "proposed"
                      THEN [rpRow EXCEPT ![u].status = "superseded"] ELSE rpRow
          /\ RpReturn(p)
  /\ UNCHANGED <<rpSheet, rpProof, rpHost, rpClock, rpEdits, rpWritten, rpLate>>

\* adapter.apply: a key it holds is a success without a write, a cell that is not
\* what the dry run saw rejects, else the cell is written with the key.
RpWrite(p) ==
  LET u == rpProc[p].update
      held == u \in rpSheet.keys
      writes == ~held /\ rpSheet.cell = rpProc[p].seen.from
  IN
  /\ rpProc[p].pc = "write"
  /\ IF writes
     THEN /\ rpSheet' = [revision |-> rpSheet.revision + 1, cell |-> u,
                         keys |-> rpSheet.keys \cup {u}]
          /\ rpWritten' = rpWritten \cup {u}
     ELSE UNCHANGED <<rpSheet, rpWritten>>
  /\ RpGoto(p, [rpProc[p] EXCEPT !.pc = "settle", !.yes = held \/ writes])
  /\ UNCHANGED <<rpRow, rpProof, rpHost, rpClock, rpEdits, rpLate>>

\* Only the attempt that was claimed settles the row; a displaced one throws.
RpSettle(p) ==
  LET u == rpProc[p].update
      mine == rpRow[u].status = "applying" /\ rpRow[u].attempt = rpProc[p].attempt
  IN
  /\ rpProc[p].pc = "settle"
  /\ rpRow' = IF mine THEN [rpRow EXCEPT ![u].status = IF rpProc[p].yes THEN "applied"
                                                                        ELSE "rejected"]
              ELSE rpRow
  /\ RpReturn(p)
  /\ UNCHANGED <<rpSheet, rpProof, rpHost, rpClock, rpEdits, rpWritten, rpLate>>

(***************************************************************************)
(* Reconciliation of rows that are stuck in applying                        *)
(***************************************************************************)
RpReconcile(p, u) ==
  /\ rpProc[p].pc = "idle" /\ rpRow[u].status = "applying"
  /\ RpBindHost(p)
  /\ RpGoto(p, [RpIdle EXCEPT !.pc = "stuck", !.update = u, !.seen = rpRow[u],
                              !.read = rpClock])
  /\ UNCHANGED <<rpRow, rpSheet, rpProof, rpClock, rpEdits, rpWritten, rpLate>>

RpAskStuck(p) ==
  /\ rpProc[p].pc = "stuck"
  /\ RpGoto(p, [rpProc[p] EXCEPT !.pc = "resolve", !.yes = rpProc[p].update \in rpSheet.keys])
  /\ UNCHANGED <<rpRow, rpSheet, rpProof, rpHost, rpClock, rpEdits, rpWritten, rpLate>>

\* A request or an answer that a requeue overtakes: the write of the attempt, and
\* a no given before the write arrived.
RpOvertaken(r) == \/ r.pc = "write"
                  \/ r.pc = "moved" /\ ~r.yes /\ r.update \in rpWritten

\* A key the source holds settles the row; one it does not hold requeues it, but
\* only when the lease had lapsed. Either only if the attempt is still the one
\* that was read.
RpResolve(p) ==
  LET u == rpProc[p].update
      seen == rpProc[p].seen
      same == rpRow[u].status = "applying" /\ rpRow[u].attempt = seen.attempt
      requeue == same /\ ~rpProc[p].yes /\ seen.expiry <= rpProc[p].read
  IN
  /\ rpProc[p].pc = "resolve"
  /\ rpRow' = [rpRow EXCEPT ![u].status = CASE same /\ rpProc[p].yes -> "applied"
                                            [] requeue -> "proposed"
                                            [] OTHER -> @]
  /\ rpLate' = IF requeue /\ \E q \in RpProcs : rpProc[q].update = u /\ RpOvertaken(rpProc[q])
               THEN rpLate \cup {u} ELSE rpLate
  /\ RpReturn(p)
  /\ UNCHANGED <<rpSheet, rpProof, rpHost, rpClock, rpEdits, rpWritten>>

(***************************************************************************)
(* The rest of the world                                                    *)
(***************************************************************************)

\* A person edits the sheet, the cell or something else.
RpEdit ==
  /\ rpEdits < RpMaxEdits
  /\ rpEdits' = rpEdits + 1
  /\ \E cell \in {rpSheet.cell, "person"} :
       rpSheet' = [rpSheet EXCEPT !.revision = @ + 1, !.cell = cell]
  /\ UNCHANGED <<rpRow, rpProof, rpHost, rpProc, rpClock, rpWritten, rpLate>>

RpProve(x) ==
  /\ x \notin rpProof
  /\ rpProof' = rpProof \cup {x}
  /\ UNCHANGED <<rpRow, rpSheet, rpHost, rpProc, rpClock, rpEdits, rpWritten, rpLate>>

RpTick ==
  /\ rpClock < RpMaxTime
  /\ rpClock' = rpClock + 1
  /\ UNCHANGED <<rpRow, rpSheet, rpProof, rpHost, rpProc, rpEdits, rpWritten, rpLate>>

\* A caller dies; what it had asked of the sheet and not yet got is lost.
RpCrash(p) ==
  /\ rpProc[p].pc # "idle"
  /\ RpReturn(p)
  /\ UNCHANGED <<rpRow, rpSheet, rpProof, rpHost, rpClock, rpEdits, rpWritten, rpLate>>

RpNext ==
  \/ RpEdit
  \/ RpTick
  \/ \E x \in {"evidence", "approval"} : RpProve(x)
  \/ \E p \in RpProcs :
       \/ RpDryRun(p)
       \/ RpRevision(p)
       \/ RpClaimFresh(p)
       \/ RpAsk(p)
       \/ RpMoved(p)
       \/ RpWrite(p)
       \/ RpSettle(p)
       \/ RpAskStuck(p)
       \/ RpResolve(p)
       \/ RpCrash(p)
       \/ \E u \in RpUpdates : RpPropose(p, u) \/ RpApply(p, u) \/ RpReconcile(p, u)

RpSpec == RpInit /\ [][RpNext]_rpVars

(***************************************************************************)
(* Properties                                                               *)
(***************************************************************************)

\* Rows, the sheet and the callers have the shapes the code gives them.
RpTypeOK ==
  /\ rpRow \in [RpUpdates -> [status : RpStatuses, attempt : 0..RpMaxAttempts,
                              expiry : 0..RpMaxTime + RpLease, base : Nat,
                              from : RpUpdates \cup {RpNone, "person"}]]
  /\ rpSheet.keys \subseteq RpUpdates /\ rpWritten \subseteq RpUpdates
  /\ rpLate \subseteq RpUpdates /\ rpHost \in {RpNone, "first", "other"}

\* What the database says became of an update is what happened at the source,
\* whatever crashed, raced or was edited in between: an applied one reached the
\* sheet, and a rejected or superseded one never did. The code's own residual
\* window is excepted by name: a row requeued after its lease lapsed while its
\* write was still on its way, or while somebody had yet to act on a no that was
\* given before that write arrived.
RpVerdictTrue == \A u \in RpUpdates :
  /\ rpRow[u].status = "applied" => u \in rpWritten
  /\ rpRow[u].status \in {"rejected", "superseded"} /\ u \notin rpLate => u \notin rpWritten

\* The rows tell what happened to the sheet: the parts above.
RpSafe == RpTypeOK /\ RpVerdictTrue

-----------------------------------------------------------------------------
(* The inductive invariant of the proofs *)

RpRow == [status : RpStatuses, attempt : 0..RpMaxAttempts, expiry : 0..RpMaxTime + RpLease,
          base : Nat, from : RpUpdates \cup {RpNone, "person"}]
RpUse == [pc : {"idle", "dry run", "revision", "compare", "moved", "write", "settle", "stuck",
                "resolve"},
          update : RpUpdates \cup {RpNone}, read : Nat, attempt : 0..RpMaxAttempts,
          seen : RpRow, yes : BOOLEAN]

RpWorldOK ==
  /\ rpRow \in [RpUpdates -> RpRow] /\ rpProc \in [RpProcs -> RpUse]
  /\ rpSheet \in [revision : Nat, cell : RpUpdates \cup {RpNone, "person"}, keys : SUBSET RpUpdates]
  /\ rpClock \in 0..RpMaxTime /\ rpHost \in {RpNone, "first", "other"}
  /\ rpWritten = rpSheet.keys /\ rpLate \subseteq RpUpdates

\* A caller at work has an update, a yes is one the sheet gave, and an attempt
\* is one that was claimed.
RpAtWork == \A p \in RpProcs :
  /\ rpProc[p].pc # "idle" => rpProc[p].update \in RpUpdates
  /\ rpProc[p].yes => rpProc[p].update \in rpWritten
  /\ rpProc[p].pc \in {"write", "settle"} =>
       rpProc[p].attempt <= rpRow[rpProc[p].update].attempt

\* No two callers have claimed the same attempt.
RpOwnAttempt == \A p, q \in RpProcs :
  (/\ rpProc[p].pc \in {"write", "settle"} /\ rpProc[q].pc \in {"write", "settle"}
   /\ rpProc[p].update = rpProc[q].update /\ rpProc[p].attempt = rpProc[q].attempt) => p = q

\* A row that is rejected or superseded is of an update that did not reach the
\* sheet; who may still write it has the row, and who brings the row a no brings
\* the truth.
RpTold == \A u \in RpUpdates \ rpLate :
  /\ rpRow[u].status \in {"none", "rejected", "superseded"} => u \notin rpWritten
  /\ \A p \in RpProcs : rpProc[p].update = u =>
       LET mine == rpRow[u].status = "applying" /\ rpRow[u].attempt = rpProc[p].attempt IN
       /\ rpProc[p].pc = "write" => mine \/ u \in rpWritten
       /\ rpProc[p].pc = "settle" /\ mine /\ ~rpProc[p].yes => u \notin rpWritten

\* Nobody is about to supersede a row on a no that is no longer true.
RpAnswered == \A p \in RpProcs :
  /\ rpProc[p].pc = "moved" /\ ~rpProc[p].yes
  /\ rpRow[rpProc[p].update].status = "proposed" /\ rpProc[p].update \notin rpLate
  => rpProc[p].update \notin rpWritten

\* An applied one reached it; a row that is not there has had no attempt.
RpApplied == \A u \in RpUpdates :
  /\ rpRow[u].status = "applied" => u \in rpWritten
  /\ rpRow[u].status = "none" => rpRow[u].attempt = 0

RpInv == RpWorldOK /\ RpAtWork /\ RpOwnAttempt /\ RpTold /\ RpAnswered /\ RpApplied
=============================================================================
