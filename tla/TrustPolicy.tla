---------------------------- MODULE TrustPolicy -----------------------------
(***************************************************************************)
(* The trust a project has (supervisor/policy.ts): observe, assist, build,  *)
(* unattended. The owner configures it; grades of independent reviews are   *)
(* what the promotions ask for. Every operation reads the whole policy      *)
(* store, computes and writes it back, without a lock, so commands that run *)
(* beside each other may overwrite one another. One project is followed.    *)
(***************************************************************************)
EXTENDS Naturals

CONSTANTS TpProcs,     \* commands that may run beside each other
          TpNeeded,    \* shadow passes a promotion to assist asks for
          TpMaxRuns,   \* bound: shadow grades recorded
          TpMaxWrites, \* bound: other writes
          TpNone

VARIABLES
  tpStore,    \* the project's entry, or TpNone
  tpProc,     \* per command: what it is about to write
  tpSerial,   \* history: writes so far
  tpSaid,     \* history: the trust configured last
  tpRaced,    \* history: a write overwrote one it had not read
  tpPasses,   \* history: shadow passes recorded in all
  tpStreak,   \* history: shadow passes recorded since the last shadow fail, or removal
  tpProved    \* history: trusts at which an execution grade has passed

tpVars == <<tpStore, tpProc, tpSerial, tpSaid, tpRaced, tpPasses, tpStreak, tpProved>>

TpTrusts == {"observe", "assist", "build", "unattended"}
TpGradeRec == [kind : {"shadow", "execution"}, result : {"pass", "fail"}, at : TpTrusts]
\* The class and the permissions that follow from trust are left out.
TpEntry == [trust : TpTrusts, passes : 0..TpMaxRuns, last : TpGradeRec \cup {TpNone}]

ASSUME TpAssumption ==
  /\ TpNeeded \in Nat /\ TpMaxRuns \in Nat /\ TpMaxWrites \in Nat
  /\ TpNone \notin TpGradeRec /\ TpNone \notin TpEntry

\* defaultProjectPolicy.
TpDefault == [trust |-> "observe", passes |-> 0, last |-> TpNone]

TpIdle == [pc |-> "idle", read |-> 0, next |-> TpNone, grade |-> TpNone]

TpInit ==
  /\ tpStore = TpNone /\ tpProc = [p \in TpProcs |-> TpIdle]
  /\ tpSerial = 0 /\ tpSaid = "observe" /\ tpRaced = FALSE
  /\ tpPasses = 0 /\ tpStreak = 0 /\ tpProved = {}

(***************************************************************************)
(* Promotions                                                               *)
(***************************************************************************)

TpLast(e, kind, at) == e.last # TpNone /\ e.last = [kind |-> kind, result |-> "pass", at |-> at]

\* assist: three consecutive shadow passes, and a last grade of any kind that passed.
TpToAssist(e) == e # TpNone /\ e.passes >= TpNeeded /\ e.last # TpNone /\ e.last.result = "pass"

\* build: the owner says so, or a pass at assist.
TpToBuild(e, approved) ==
  approved \/ (e # TpNone /\ e.trust = "assist" /\ TpLast(e, "execution", "assist"))

\* Slip: a pass at any trust will do.
TpToUnattended_AnyTrust(e) ==
  e # TpNone /\ e.trust = "build" /\ e.last # TpNone /\ e.last.result = "pass"

\* unattended: only from build, with a pass at build as the last grade.
TpToUnattended(e) == e # TpNone /\ e.trust = "build" /\ TpLast(e, "execution", "build")

TpMayBe(trust, e, approved) ==
  /\ trust = "assist" => TpToAssist(e)
  /\ trust = "build" => TpToBuild(e, approved)
  /\ trust = "unattended" => TpToUnattended(e)

TpReads(p, next, grade, kind) ==
  /\ tpProc[p].pc = "idle" /\ tpSerial < TpMaxWrites
  /\ tpProc' = [tpProc EXCEPT ![p] =
        [pc |-> kind, read |-> tpSerial, next |-> next, grade |-> grade]]
  /\ UNCHANGED <<tpStore, tpSerial, tpSaid, tpRaced, tpPasses, tpStreak, tpProved>>

\* configureProjectPolicy, up to its write. Counts and grades are carried over.
TpConfigure(p, trust, approved) ==
  LET e == IF tpStore = TpNone THEN TpDefault ELSE tpStore IN
  /\ TpMayBe(trust, tpStore, approved)
  /\ TpReads(p, [e EXCEPT !.trust = trust], TpNone, "configure")

(***************************************************************************)
(* Grades                                                                   *)
(***************************************************************************)

TpCounted(e, kind, result) ==
  CASE kind # "shadow" -> e.passes
    [] kind = "shadow" /\ result = "pass" -> e.passes + 1
    [] OTHER -> 0

\* storeGrade: the grade is kept with the trust it was read at; trust stays.
TpGraded(e, kind, result) ==
  [e EXCEPT !.passes = TpCounted(e, kind, result),
            !.last = [kind |-> kind, result |-> result, at |-> e.trust]]

\* recordShadowGrade and recordIndependentGrade, up to the write. That the review
\* is canonical, independent and of the same head is checked before the store is
\* read; nothing asks whether the same review was counted before.
TpGrade(p, kind, result) ==
  LET e == IF tpStore = TpNone THEN TpDefault ELSE tpStore IN
  /\ kind = "shadow" => e.passes < TpMaxRuns
  /\ TpReads(p, TpGraded(e, kind, result),
             [kind |-> kind, result |-> result, at |-> e.trust], "grade")

\* removeProjectPolicies, by the registry's collector.
TpRemove(p) == tpStore # TpNone /\ TpReads(p, TpNone, TpNone, "remove")

\* writeStore: the whole file is replaced by what was computed from what was read.
TpWrite(p) ==
  LET c == tpProc[p] IN
  /\ c.pc # "idle" /\ tpSerial < TpMaxWrites
  /\ tpStore' = c.next
  /\ tpSerial' = tpSerial + 1
  /\ tpRaced' = (tpRaced \/ c.read # tpSerial)
  /\ tpSaid' = CASE c.pc = "configure" -> c.next.trust
                 [] c.pc = "remove" -> "observe"
                 [] OTHER -> tpSaid
  /\ tpPasses' = IF c.pc = "grade" /\ c.grade.kind = "shadow" /\ c.grade.result = "pass"
                 THEN tpPasses + 1 ELSE tpPasses
  /\ tpStreak' = CASE c.pc = "remove" -> 0
                   [] c.pc = "grade" /\ c.grade.kind = "shadow" ->
                        IF c.grade.result = "pass" THEN tpStreak + 1 ELSE 0
                   [] OTHER -> tpStreak
  /\ tpProved' = IF c.pc = "grade" /\ c.grade.kind = "execution" /\ c.grade.result = "pass"
                 THEN tpProved \cup {c.grade.at} ELSE tpProved
  /\ tpProc' = [tpProc EXCEPT ![p] = TpIdle]

TpNext ==
  \E p \in TpProcs :
    \/ \E trust \in TpTrusts, approved \in BOOLEAN : TpConfigure(p, trust, approved)
    \/ \E kind \in {"shadow", "execution"}, result \in {"pass", "fail"} : TpGrade(p, kind, result)
    \/ TpRemove(p) \/ TpWrite(p)

TpSpec == TpInit /\ [][TpNext]_tpVars

(***************************************************************************)
(* Properties                                                               *)
(***************************************************************************)

\* Types.
TpTypeOK ==
  /\ tpStore \in TpEntry \cup {TpNone}
  /\ \A p \in TpProcs : tpProc[p].next \in TpEntry \cup {TpNone}
  /\ tpSerial \in 0..TpMaxWrites

\* A project gets to unattended only when an execution grade has passed while it
\* was at build, however commands overwrite each other; a project at assist has
\* had its three shadow passes (configureProjectPolicy's conditions over a store
\* that is written without a lock).
TpTrustIsEarned ==
  tpStore # TpNone =>
    /\ tpStore.trust = "unattended" => "build" \in tpProved
    /\ tpStore.trust = "assist" => tpPasses >= TpNeeded

\* The counted passes are the consecutive ones: a shadow fail or a removal takes
\* all that went before away, and no configuration and no execution grade in
\* between loses or invents one, unless a write passed over one it had not read.
TpFailsCount == tpStore # TpNone /\ ~tpRaced => tpStore.passes = tpStreak

\* The trust of a project is the one its owner configured last: grades move it
\* neither up nor down, unless one was computed before the owner's change and
\* written after it.
TpOwnerDecides == tpStore # TpNone /\ ~tpRaced => tpStore.trust = tpSaid

\* Trust follows the owner and the grades: the parts above.
TpSafe == TpTypeOK /\ TpTrustIsEarned /\ TpFailsCount /\ TpOwnerDecides

(***************************************************************************)
(* The inductive invariant of the proofs                                    *)
(***************************************************************************)

TpPending == [pc : {"configure", "grade", "remove"}, read : Nat,
              next : TpEntry \cup {TpNone}, grade : TpGradeRec \cup {TpNone}]

TpTypes ==
  /\ tpStore \in TpEntry \cup {TpNone}
  /\ tpProc \in [TpProcs -> TpPending \cup {TpIdle}]
  /\ tpSerial \in 0..TpMaxWrites /\ tpSaid \in TpTrusts /\ tpRaced \in BOOLEAN
  /\ tpPasses \in Nat /\ tpStreak \in Nat /\ tpProved \subseteq TpTrusts

\* An entry rests on a history of so many shadow passes and these proofs.
TpRestsOn(e, passes, proved) ==
  /\ e.trust = "unattended" => "build" \in proved
  /\ e.trust = "assist" => passes >= TpNeeded
  /\ e.passes <= passes
  /\ e.last # TpNone /\ e.last.kind = "execution" /\ e.last.result = "pass"
       => e.last.at \in proved

TpShadowPass(c) == c.grade.kind = "shadow" /\ c.grade.result = "pass"
TpExecutionPass(c) == c.grade.kind = "execution" /\ c.grade.result = "pass"

\* What a command will write rests on the history its write makes.
TpWillRest(c) ==
  /\ c.pc = "configure" => c.next # TpNone /\ TpRestsOn(c.next, tpPasses, tpProved)
  /\ c.pc = "grade" =>
       /\ c.next # TpNone /\ c.grade # TpNone
       /\ TpRestsOn(c.next, IF TpShadowPass(c) THEN tpPasses + 1 ELSE tpPasses,
                    IF TpExecutionPass(c) THEN tpProved \cup {c.grade.at} ELSE tpProved)
  /\ c.pc = "remove" => c.next = TpNone

\* What a command will write, having read the present store, follows from it.
TpWillFollow(c) ==
  /\ c.pc # "idle" => c.read <= tpSerial
  /\ c.read = tpSerial =>
       /\ c.pc = "configure" => c.next.passes = tpStreak
       /\ c.pc = "grade" =>
            /\ c.next.trust = tpSaid
            /\ c.next.passes = IF c.grade.kind # "shadow" THEN tpStreak
                               ELSE IF c.grade.result = "pass" THEN tpStreak + 1 ELSE 0

TpFollows == IF tpStore = TpNone THEN tpSaid = "observe" /\ tpStreak = 0
             ELSE tpStore.trust = tpSaid /\ tpStore.passes = tpStreak

TpInv ==
  /\ TpTypes
  /\ tpStore # TpNone => TpRestsOn(tpStore, tpPasses, tpProved)
  /\ \A p \in TpProcs : TpWillRest(tpProc[p])
  /\ ~tpRaced => TpFollows /\ \A p \in TpProcs : TpWillFollow(tpProc[p])
=============================================================================
