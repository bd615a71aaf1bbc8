------------------------ MODULE UserStateActivation ------------------------
(***************************************************************************)
(* scripts/activate-major-user-state.py: the entries of a manifest are      *)
(* activated one by one. A target that exists is renamed to a backup, then  *)
(* the staged source is copied beside it and renamed into place. An error   *)
(* or a signal takes back, in reverse order, what was touched; a kill       *)
(* leaves things as they are.                                               *)
(***************************************************************************)
EXTENDS Naturals

CONSTANT AcEntries   \* number of entries in the manifest

ASSUME AcAssumption == AcEntries \in Nat \ {0}

AcIndex == 1..AcEntries

VARIABLES
  acHad,      \* entry -> the target existed before
  acAbsent,   \* entry -> the manifest wants the target absent
  acLive,     \* entry -> what is at the target: "old", "new" or "none"
  acBackup,   \* entry -> the rollback file exists
  acTemp,     \* a temporary copy exists beside the entry being activated
  acTouched,  \* entries 1..acTouched are in the list of touched targets
  acBad,      \* a target could not be put back
  acPc

acVars == <<acHad, acAbsent, acLive, acBackup, acTemp, acTouched, acBad, acPc>>
acManifest == <<acHad, acAbsent>>

AcBefore(i) == IF acHad[i] THEN "old" ELSE "none"
AcAfter(i) == IF acAbsent[i] THEN "none" ELSE "new"

AcInit == /\ acHad \in [AcIndex -> BOOLEAN]
          /\ acAbsent \in [AcIndex -> BOOLEAN]
          /\ acLive = [i \in AcIndex |-> AcBefore(i)]
          /\ acBackup = [i \in AcIndex |-> FALSE]
          /\ acTemp = FALSE
          /\ acTouched = 0
          /\ acBad = FALSE
          /\ acPc = "next"

\* The rename of the target and the note of it, with the signals blocked.
AcSetAside ==
  LET i == acTouched + 1 IN
  /\ acPc = "next" /\ acTouched < AcEntries
  /\ acBackup' = [acBackup EXCEPT ![i] = acHad[i]]
  /\ acLive' = [acLive EXCEPT ![i] = "none"]
  /\ acTouched' = i
  /\ acPc' = IF acAbsent[i] THEN "next" ELSE "copy"
  /\ UNCHANGED <<acManifest, acTemp, acBad>>

\* install_source copies to a temporary name, os.replace puts it in place.
AcCopy ==
  /\ acPc = "copy"
  /\ acTemp' = TRUE
  /\ acPc' = "place"
  /\ UNCHANGED <<acManifest, acLive, acBackup, acTouched, acBad>>

AcPlace ==
  /\ acPc = "place"
  /\ acLive' = [acLive EXCEPT ![acTouched] = "new"]
  /\ acTemp' = FALSE
  /\ acPc' = "next"
  /\ UNCHANGED <<acManifest, acBackup, acTouched, acBad>>

\* An error of a file operation, or SIGINT, SIGTERM or SIGHUP: from here on
\* signals are ignored.
AcInterrupted ==
  /\ acPc \in {"next", "copy", "place"}
  /\ acPc' = "undo"
  /\ UNCHANGED <<acManifest, acLive, acBackup, acTemp, acTouched, acBad>>

\* Slip: a target that did not exist before is left in place.
AcRestore_KeepsNew ==
  /\ acPc = "undo" /\ acTouched > 0
  /\ acLive' = [acLive EXCEPT ![acTouched] = IF acBackup[acTouched] THEN "old" ELSE acLive[acTouched]]
  /\ acBackup' = [acBackup EXCEPT ![acTouched] = FALSE]
  /\ acTouched' = acTouched - 1
  /\ UNCHANGED <<acManifest, acTemp, acBad, acPc>>

\* One target of the reversed list: what is there is removed and the backup,
\* if there is one, is renamed back.
AcRestore ==
  /\ acPc = "undo" /\ acTouched > 0
  /\ acLive' = [acLive EXCEPT ![acTouched] = IF acBackup[acTouched] THEN "old" ELSE "none"]
  /\ acBackup' = [acBackup EXCEPT ![acTouched] = FALSE]
  /\ acTouched' = acTouched - 1
  /\ UNCHANGED <<acManifest, acTemp, acBad, acPc>>

\* An OSError of the removal or of the rename is noted, and the next target is
\* taken back; the report at the end says CRITICAL.
AcRestoreFails ==
  /\ acPc = "undo" /\ acTouched > 0
  /\ \E left \in {acLive[acTouched], "none"} : acLive' = [acLive EXCEPT ![acTouched] = left]
  /\ acTouched' = acTouched - 1
  /\ acBad' = TRUE
  /\ UNCHANGED <<acManifest, acBackup, acTemp, acPc>>

AcUndone ==
  /\ acPc = "undo" /\ acTouched = 0
  /\ acTemp' = FALSE
  /\ acPc' = IF acBad THEN "critical" ELSE "failed"
  /\ UNCHANGED <<acManifest, acLive, acBackup, acTouched, acBad>>

\* Every entry is in place: signals are ignored, the backups are removed. A
\* backup that cannot be removed stays, with a warning.
AcCommit ==
  /\ acPc = "next" /\ acTouched = AcEntries
  /\ \E kept \in SUBSET AcIndex : acBackup' = [i \in AcIndex |-> acBackup[i] /\ i \in kept]
  /\ acPc' = "committed"
  /\ UNCHANGED <<acManifest, acLive, acTemp, acTouched, acBad>>

\* SIGKILL or a power cut.
AcKilled ==
  /\ acPc \in {"next", "copy", "place", "undo"}
  /\ acPc' = "killed"
  /\ UNCHANGED <<acManifest, acLive, acBackup, acTemp, acTouched, acBad>>

AcNext == \/ AcSetAside \/ AcCopy \/ AcPlace \/ AcInterrupted \/ AcRestore
          \/ AcRestoreFails \/ AcUndone \/ AcCommit \/ AcKilled

AcSpec == AcInit /\ [][AcNext]_acVars
-----------------------------------------------------------------------------
AcEnded == acPc \in {"failed", "committed"}
AcShown == CASE acPc = "committed" /\ \A i \in AcIndex : acLive[i] = AcAfter(i) -> "new"
             [] acPc = "failed" /\ \A i \in AcIndex : acLive[i] = AcBefore(i) -> "old"
             [] ~AcEnded -> "old"
             [] OTHER -> "mixed"

AcSwitch == INSTANCE AtomicSwitch WITH swState <- AcShown, swOpen <- ~AcEnded

\* The transaction is all or nothing: an activation that reports success has
\* replaced every target, one that reports failure has put every target back
\* ("live state restored"), whatever error or signal came at whatever point.
AcAllOrNothing == AcSwitch!SwSpec

\* Even a killed activation loses no file of the user: what was at a target is
\* there or in the backup beside it, until every target has been replaced.
AcOldIsKept ==
  acPc # "committed" =>
    \A i \in AcIndex : acHad[i] => acLive[i] = "old" \/ acBackup[i]

\* An activation is all or nothing, and a killed one has lost nothing
\* (activate-major-user-state.py): the two parts above.
AcSafe == []AcOldIsKept /\ AcAllOrNothing
-----------------------------------------------------------------------------
(* The inductive invariant of the proofs *)

AcTypes ==
  /\ acHad \in [AcIndex -> BOOLEAN] /\ acAbsent \in [AcIndex -> BOOLEAN]
  /\ acLive \in [AcIndex -> {"old", "new", "none"}]
  /\ acBackup \in [AcIndex -> BOOLEAN] /\ acTemp \in BOOLEAN /\ acBad \in BOOLEAN
  /\ acTouched \in 0..AcEntries
  /\ acPc \in {"next", "copy", "place", "undo", "failed", "critical", "committed", "killed"}

\* Entry i on the way forward: untouched, replaced, or set aside just now.
AcForward(i) ==
  /\ i > acTouched => acLive[i] = AcBefore(i) /\ ~acBackup[i]
  /\ i <= acTouched => acBackup[i] = acHad[i]
  /\ i < acTouched \/ (i = acTouched /\ acPc = "next") => acLive[i] = AcAfter(i)
  /\ i = acTouched /\ acPc # "next" => acLive[i] = "none" /\ ~acAbsent[i]

\* Entry i on the way back: still to be taken back, or as it was before.
AcBackward(i) ==
  /\ i <= acTouched => acBackup[i] = acHad[i]
  /\ i > acTouched /\ ~acBad => acLive[i] = AcBefore(i)

AcInv ==
  /\ AcTypes
  /\ acPc \in {"next", "copy", "place"} => ~acBad /\ \A i \in AcIndex : AcForward(i)
  /\ acPc \in {"copy", "place"} => acTouched > 0
  /\ acPc = "undo" => \A i \in AcIndex : AcBackward(i)
  /\ acPc = "failed" => \A i \in AcIndex : acLive[i] = AcBefore(i)
  /\ acPc = "committed" => \A i \in AcIndex : acLive[i] = AcAfter(i)
  /\ AcOldIsKept
=============================================================================
