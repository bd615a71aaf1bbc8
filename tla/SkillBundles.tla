---------------------------- MODULE SkillBundles ----------------------------
(***************************************************************************)
(* The Skills Library bundles (src/src/skills/sync.ts): a sync copies a     *)
(* validated source into a bundle directory named by its hash, switches the *)
(* host files, the marker and the "current" link to it in a transaction of  *)
(* renames, and keeps two older bundles; a rollback switches back to the    *)
(* predecessor the active bundle's marker records. There is no lock.        *)
(***************************************************************************)
EXTENDS Naturals, FiniteSets

CONSTANTS SkBundles,      \* bundle identities (source contents)
          SkProcs,        \* concurrent sync or rollback commands
          SkRetained,     \* how many older bundles are kept: 2 in the code
          SkMaxFaults,    \* bound: failing file operations and bit rot
          SkMaxCrashes,   \* bound: killed commands
          SkNone

ASSUME SkAssumption == /\ SkRetained \in Nat \ {0} /\ SkMaxFaults \in Nat /\ SkMaxCrashes \in Nat
                       /\ SkNone \notin SkBundles

VARIABLES
  skDir,      \* bundle -> "none", "ok" or "corrupt"
  skNewer,    \* the bundle directories by modification time: <<newer, older>>
  skPrev,     \* bundle -> previousBundle in its marker
  skCurrent,  \* the bundle the "current" link names
  skHost,     \* the bundle the host files were taken from
  skProc,     \* per process: where it is
  skFaults, skCrashes,
  skMixed     \* history: commands overlapped, were killed, or failed beyond their rollback

skVars == <<skDir, skNewer, skPrev, skCurrent, skHost, skProc, skFaults, skCrashes, skMixed>>
skLinks == <<skPrev, skCurrent, skHost>>
skLimits == <<skFaults, skCrashes>>

SkArtifacts == <<"host", "marker", "current">>
\* The directories there are, and which of them is newer than which: the code sorts by mtime.
SkThere(dirs) == {b \in SkBundles : dirs[b] # "none"}
SkKept(dirs, newer) == newer \cap (SkThere(dirs) \X SkThere(dirs))
\* A marker is a file of its bundle's directory.
SkMarkers(dirs) == [b \in SkBundles |-> IF dirs[b] = "none" THEN SkNone ELSE skPrev[b]]
SkTouch(b, dirs) ==
  {e \in skNewer : e[1] # b /\ e[2] # b} \cup ({b} \X (SkThere(dirs) \ {b}))

\* pred: the predecessor to record; was: what the renamed artifacts held;
\* at: artifacts 1..at have been replaced; reuse: inside the try of line 847.
SkIdle == [pc |-> "idle", b |-> SkNone, pred |-> SkNone, at |-> 0, reuse |-> FALSE,
           rollback |-> FALSE, was |-> [host |-> SkNone, marker |-> SkNone, current |-> SkNone]]

SkInit == \E b0 \in SkBundles :
  /\ skDir = [b \in SkBundles |-> IF b = b0 THEN "ok" ELSE "none"]
  /\ skNewer = {}
  /\ skPrev = [b \in SkBundles |-> SkNone]
  /\ skCurrent = b0 /\ skHost = b0
  /\ skProc = [p \in SkProcs |-> SkIdle]
  /\ skFaults = 0 /\ skCrashes = 0 /\ skMixed = FALSE

SkBusy == {p \in SkProcs : skProc[p].pc # "idle"}
SkSet(p, rec) == skProc' = [skProc EXCEPT ![p] = rec]
SkFault == skFaults < SkMaxFaults /\ skFaults' = skFaults + 1
\* The active bundle can be read: the link's target exists and is whole.
SkReadable(b) == b # SkNone /\ skDir[b] = "ok"

\* syncFromSource with a source that validates: the marker of the current
\* bundle gives the predecessor, and a retained copy is reused if it is whole.
SkSync(p, b) ==
  LET pred == IF skCurrent # SkNone /\ skDir[skCurrent] # "none" THEN skCurrent ELSE SkNone
      whole == skDir[b] = "ok"
  IN
  /\ skProc[p].pc = "idle"
  /\ SkSet(p, [SkIdle EXCEPT !.pc = IF whole THEN "activate" ELSE "copy", !.b = b,
                             !.pred = pred, !.reuse = whole])
  /\ skDir' = IF skDir[b] = "corrupt" THEN [skDir EXCEPT ![b] = "none"] ELSE skDir
  /\ skNewer' = SkKept(skDir', skNewer)
  /\ skMixed' = (skMixed \/ SkBusy # {})
  /\ skPrev' = SkMarkers(skDir')
  /\ UNCHANGED <<skCurrent, skHost, skLimits>>

\* The copy is staged, validated and renamed to its place; or it fails, the
\* stage is removed and the error is thrown.
SkCopy(p) ==
  LET r == skProc[p] IN
  /\ r.pc = "copy"
  /\ \/ /\ skDir' = [skDir EXCEPT ![r.b] = "ok"]
        /\ skNewer' = SkTouch(r.b, skDir)
        /\ skPrev' = [skPrev EXCEPT ![r.b] = r.pred]
        /\ SkSet(p, [r EXCEPT !.pc = "activate", !.reuse = FALSE])
        /\ UNCHANGED <<skFaults, skMixed>>
     \/ /\ SkFault
        /\ SkSet(p, SkIdle)
        \* a sync that quarantined the active bundle (SkFails) leaves no active one
        /\ skMixed' = (skMixed \/ skCurrent = r.b)
        /\ UNCHANGED <<skDir, skNewer, skPrev>>
  /\ UNCHANGED <<skCurrent, skHost, skCrashes>>

\* rollbackMajorSkills: the active bundle is whole and records a predecessor
\* that is retained and whole; corrupt ones are put in quarantine.
SkRollback(p) ==
  LET sound == [b \in SkBundles |-> IF skDir[b] = "corrupt" THEN "none" ELSE skDir[b]] IN
  /\ skProc[p].pc = "idle" /\ SkReadable(skCurrent) /\ skPrev[skCurrent] # SkNone
  /\ skDir' = sound
  /\ skNewer' = SkKept(sound, skNewer)
  /\ \/ /\ sound[skPrev[skCurrent]] = "ok" /\ skPrev[skCurrent] # skCurrent
        /\ SkSet(p, [SkIdle EXCEPT !.pc = "activate", !.b = skPrev[skCurrent],
                                   !.pred = skCurrent, !.rollback = TRUE])
        /\ skMixed' = (skMixed \/ SkBusy # {})
     \/ /\ sound[skPrev[skCurrent]] # "ok" \/ skPrev[skCurrent] = skCurrent
        /\ UNCHANGED <<skProc, skMixed>>
  /\ skPrev' = SkMarkers(skDir')
  /\ UNCHANGED <<skCurrent, skHost, skLimits>>

\* The artifact the transaction of p replaces next; the marker only when a
\* different predecessor is to be recorded in a bundle that is not active.
SkSkipsMarker(r) == r.pred = SkNone \/ r.pred = r.b \/ skCurrent = r.b
SkArtifact(r) == SkArtifacts[r.at + 1]

\* commitArtifactTransaction, the first rename: the artifact is set aside.
SkAside(p) ==
  LET r == skProc[p] IN
  /\ r.pc = "activate" /\ r.at < 3
  /\ \/ /\ SkArtifact(r) = "marker" /\ SkSkipsMarker(r)
        /\ SkSet(p, [r EXCEPT !.at = @ + 1, !.was.marker = skPrev[r.b]])
        /\ UNCHANGED skLinks
     \/ /\ SkArtifact(r) = "marker" /\ ~SkSkipsMarker(r)
        /\ SkSet(p, [r EXCEPT !.pc = "place", !.was.marker = skPrev[r.b]])
        /\ UNCHANGED skLinks
     \/ /\ SkArtifact(r) = "host"
        /\ SkSet(p, [r EXCEPT !.pc = "place", !.was.host = skHost])
        /\ skHost' = SkNone
        /\ UNCHANGED <<skPrev, skCurrent>>
     \/ /\ SkArtifact(r) = "current"
        /\ SkSet(p, [r EXCEPT !.pc = "place", !.was.current = skCurrent])
        /\ skCurrent' = SkNone
        /\ UNCHANGED <<skPrev, skHost>>
  /\ UNCHANGED <<skDir, skNewer, skLimits, skMixed>>

\* The second rename puts the staged artifact in its place.
SkPlace(p) ==
  LET r == skProc[p] IN
  /\ r.pc = "place"
  /\ SkSet(p, [r EXCEPT !.pc = "activate", !.at = @ + 1])
  /\ skHost' = IF SkArtifact(r) = "host" THEN r.b ELSE skHost
  /\ skPrev' = IF SkArtifact(r) = "marker" THEN [skPrev EXCEPT ![r.b] = r.pred] ELSE skPrev
  /\ skCurrent' = IF SkArtifact(r) = "current" THEN r.b ELSE skCurrent
  /\ skNewer' = IF SkArtifact(r) = "marker" /\ skDir[r.b] # "none" THEN SkTouch(r.b, skDir) ELSE skNewer
  /\ UNCHANGED <<skDir, skLimits, skMixed>>

\* A rename fails: the artifact set aside comes back at once.
SkRenameFails(p) ==
  LET r == skProc[p] IN
  /\ r.pc \in {"activate", "place"} /\ r.at < 3 /\ SkFault
  /\ SkSet(p, [r EXCEPT !.pc = "undo"])
  /\ skHost' = IF r.pc = "place" /\ SkArtifact(r) = "host" THEN r.was.host ELSE skHost
  /\ skCurrent' = IF r.pc = "place" /\ SkArtifact(r) = "current" THEN r.was.current ELSE skCurrent
  /\ UNCHANGED <<skDir, skNewer, skPrev, skCrashes, skMixed>>

\* The committed artifacts are taken back in reverse order.
SkUndo(p) ==
  LET r == skProc[p] IN
  /\ r.pc = "undo" /\ r.at > 0
  /\ SkSet(p, [r EXCEPT !.at = @ - 1])
  /\ skHost' = IF r.at = 1 THEN r.was.host ELSE skHost
  /\ skPrev' = IF r.at = 2 THEN [skPrev EXCEPT ![r.b] = r.was.marker] ELSE skPrev
  /\ UNCHANGED <<skDir, skNewer, skCurrent, skLimits, skMixed>>

\* An error while taking back: the finally clause removes every backup.
SkUndoFails(p) ==
  LET r == skProc[p] IN
  /\ r.pc = "undo" /\ r.at > 0 /\ SkFault
  /\ skMixed' = TRUE
  /\ SkSet(p, [r EXCEPT !.at = 0])
  /\ UNCHANGED <<skDir, skNewer, skLinks, skCrashes>>

\* The transaction has failed. The catch around a reused bundle takes any
\* error for corruption: the bundle goes to quarantine and is copied again.
SkFails(p) ==
  LET r == skProc[p] IN
  /\ r.pc = "undo" /\ r.at = 0
  /\ IF r.reuse
     THEN /\ skDir' = [skDir EXCEPT ![r.b] = "none"]
          /\ skNewer' = SkKept(skDir', skNewer)
          /\ SkSet(p, [r EXCEPT !.pc = "copy", !.was = SkIdle.was])
     ELSE /\ SkSet(p, SkIdle)
          /\ UNCHANGED <<skDir, skNewer>>
  /\ skPrev' = SkMarkers(skDir')
  /\ UNCHANGED <<skCurrent, skHost, skLimits, skMixed>>

\* What a sync may keep beside the bundle it activated, and which of them rank
\* before c: the predecessor, and then whatever is newer.
SkRows(r) == {b \in SkBundles : b # r.b /\ skDir[b] = "ok"}
SkAhead(r, c) ==
  {b \in SkRows(r) : b # c /\ (b = r.pred \/ (c # r.pred /\ <<b, c>> \in skNewer))}

\* Slip: the predecessor is put last.
SkRetain_PredecessorLast(p) ==
  LET r == skProc[p]
      ahead(b, c) == b # c /\ (c = r.pred \/ (b # r.pred /\ <<b, c>> \in skNewer))
      kept == {c \in SkRows(r) : Cardinality({b \in SkRows(r) : ahead(b, c)}) < SkRetained}
  IN
  /\ r.pc = "activate" /\ r.at = 3
  /\ skDir' = IF r.rollback THEN skDir
              ELSE [b \in SkBundles |-> IF b = r.b \/ b \in kept THEN skDir[b] ELSE "none"]
  /\ skNewer' = SkKept(skDir', skNewer)
  /\ SkSet(p, SkIdle)
  /\ skPrev' = SkMarkers(skDir')
  /\ UNCHANGED <<skCurrent, skHost, skLimits, skMixed>>

\* retainRollbackBundles: the predecessor first, then the newest, SkRetained in all;
\* corrupt ones go to quarantine. A rollback keeps what there is.
SkRetain(p) ==
  LET r == skProc[p]
      kept == {c \in SkRows(r) : Cardinality(SkAhead(r, c)) < SkRetained}
  IN
  /\ r.pc = "activate" /\ r.at = 3
  /\ skDir' = IF r.rollback THEN skDir
              ELSE [b \in SkBundles |-> IF b = r.b \/ b \in kept THEN skDir[b] ELSE "none"]
  /\ skNewer' = SkKept(skDir', skNewer)
  /\ SkSet(p, SkIdle)
  /\ skPrev' = SkMarkers(skDir')
  /\ UNCHANGED <<skCurrent, skHost, skLimits, skMixed>>

\* Between commands: bit rot, or a hand that edits a bundle that is not active.
SkRot(b) ==
  /\ skDir[b] = "ok" /\ b # skCurrent /\ SkBusy = {}
  /\ SkFault
  /\ skDir' = [skDir EXCEPT ![b] = "corrupt"]
  /\ UNCHANGED <<skNewer, skLinks, skProc, skCrashes, skMixed>>

SkKilled(p) ==
  /\ skProc[p].pc # "idle" /\ skCrashes < SkMaxCrashes
  /\ skCrashes' = skCrashes + 1
  /\ skMixed' = TRUE
  /\ SkSet(p, SkIdle)
  /\ UNCHANGED <<skDir, skNewer, skLinks, skFaults>>

SkNext == \/ \E p \in SkProcs :
               \/ \E b \in SkBundles : SkSync(p, b)
               \/ SkCopy(p) \/ SkRollback(p) \/ SkAside(p) \/ SkPlace(p) \/ SkRenameFails(p)
               \/ SkUndo(p) \/ SkUndoFails(p) \/ SkFails(p) \/ SkRetain(p) \/ SkKilled(p)
          \/ \E b \in SkBundles : SkRot(b)

SkSpec == SkInit /\ [][SkNext]_skVars
-----------------------------------------------------------------------------
\* Of two directories one is the newer.
SkOrdered ==
  /\ skNewer \subseteq SkThere(skDir) \X SkThere(skDir)
  /\ \A b, c \in SkThere(skDir) :
       b # c => (<<b, c>> \in skNewer <=> <<c, b>> \notin skNewer)
  /\ \A b, c, d \in SkThere(skDir) :
       <<b, c>> \in skNewer /\ <<c, d>> \in skNewer => b # d /\ <<b, d>> \in skNewer

\* Directories, markers, links and processes have their types.
SkTypeOK ==
  /\ skDir \in [SkBundles -> {"none", "ok", "corrupt"}]
  /\ skPrev \in [SkBundles -> SkBundles \cup {SkNone}]
  /\ {skCurrent, skHost} \subseteq SkBundles \cup {SkNone}
  /\ \A p \in SkProcs : skProc[p].at \in 0..3
  /\ SkOrdered

\* Between commands the active bundle exists, is whole, and is the one the host
\* files come from: a failed sync or rollback has put all three back, however
\* many renames it had done (sync.ts:626). It may fail only after commands that
\* overlapped or were killed, an error while taking back, or the quarantine of
\* the active bundle after its activation failed (sync.ts:863).
SkActiveUsable ==
  SkBusy = {} /\ ~skMixed => SkReadable(skCurrent) /\ skHost = skCurrent

\* "Reactivate the exact predecessor" (sync.ts:957): as long as nothing rots,
\* the predecessor the active bundle records is still there to go back to, also
\* after syncs of retained bundles and after rollbacks.
SkRollbackPossible ==
  SkBusy = {} /\ ~skMixed /\ skFaults = 0 /\ skPrev[skCurrent] # SkNone =>
    skDir[skPrev[skCurrent]] = "ok"

\* A corrupt bundle never becomes active: whatever the link is switched to was
\* validated in the same command.
SkNeverActivatesCorrupt ==
  [][skCurrent' # skCurrent /\ skCurrent' # SkNone /\ skCurrent' \notin
       {skProc[p].was.current : p \in SkProcs} /\ ~skMixed => skDir[skCurrent'] = "ok"]_skVars

\* Which bundle is active and which can be gone back to: the parts above.
SkSafe ==
  /\ [](SkTypeOK /\ SkActiveUsable /\ SkRollbackPossible)
  /\ SkNeverActivatesCorrupt
=============================================================================
