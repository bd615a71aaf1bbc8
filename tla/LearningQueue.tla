--------------------------- MODULE LearningQueue ---------------------------
(***************************************************************************)
(* The queue of learning steps (src/src/learning/queue.ts): a step that     *)
(* fails after a run is appended to queue.jsonl, and a drain claims the     *)
(* file by renaming it, replays it line by line and unlinks it. Files of    *)
(* drains that died are claimed too. An append is an open by name and a     *)
(* write to the open file, which may have been renamed in between.          *)
(***************************************************************************)
EXTENDS Naturals, Sequences

CONSTANTS LqSteps,        \* learning steps; each is run once
          LqProcs,        \* processes that run steps and drain the queue
          LqMaxAttempts,  \* MAX_ATTEMPTS (5)
          LqMaxCrashes,   \* bound: processes that may die
          LqNone, LqLost  \* no file named; a file no longer reachable by name

ASSUME LqAssumption == LqMaxAttempts \in Nat \ {0} /\ LqMaxCrashes \in Nat

VARIABLES
  lqNew,      \* steps that have not been run yet
  lqMain,     \* queue.jsonl: a sequence of entries, and whether it exists
  lqProc,     \* per process: what it does
  lqDead,     \* steps in queue.failed.jsonl
  lqApplied,  \* history: how often each step was applied
  lqFails,    \* history: how often applying it has failed
  lqGone,     \* history: steps reported lost, or written to a file already read
  lqCrashes

lqVars == <<lqNew, lqMain, lqProc, lqDead, lqApplied, lqFails, lqGone, lqCrashes>>

LqEntry == [step : LqSteps, attempts : 0..(LqMaxAttempts - 1)]
LqNoFile == [there |-> FALSE, lines |-> <<>>]
\* handle: the step being appended; at: the file the handle is open on (the
\* main file, or the process that claimed it); file: the claimed file; todo:
\* the lines still to replay; late: the time budget is used up.
LqIdle == [pc |-> "idle", handle |-> LqNone, at |-> LqNone, file |-> <<>>,
           todo |-> <<>>, late |-> FALSE]

LqInit == /\ lqNew = LqSteps
          /\ lqMain = LqNoFile
          /\ lqProc = [p \in LqProcs |-> LqIdle]
          /\ lqDead = {}
          /\ lqApplied = [s \in LqSteps |-> 0]
          /\ lqFails = [s \in LqSteps |-> 0]
          /\ lqGone = {}
          /\ lqCrashes = 0

LqSet(p, rec) == lqProc' = [lqProc EXCEPT ![p] = rec]
LqAppended(file, entry) == [there |-> TRUE, lines |-> Append(file.lines, entry)]

\* runLearningStep: applied, or open the queue to append it, or reported lost.
LqRun(p, s) ==
  /\ lqProc[p].pc = "idle" /\ s \in lqNew
  /\ lqNew' = lqNew \ {s}
  /\ \/ /\ lqApplied' = [lqApplied EXCEPT ![s] = @ + 1]
        /\ UNCHANGED <<lqMain, lqProc, lqFails, lqGone>>
     \/ /\ lqFails' = [lqFails EXCEPT ![s] = @ + 1]
        /\ LqSet(p, [LqIdle EXCEPT !.pc = "opened", !.handle = s, !.at = LqNone])
        /\ lqMain' = [lqMain EXCEPT !.there = TRUE]
        /\ UNCHANGED <<lqApplied, lqGone>>
     \/ /\ lqFails' = [lqFails EXCEPT ![s] = @ + 1]
        /\ lqGone' = lqGone \cup {s}
        /\ UNCHANGED <<lqMain, lqProc, lqApplied>>
  /\ UNCHANGED <<lqDead, lqCrashes>>

\* The renamed file is one whose lines a drain, of this or of a later process,
\* is still to read.
LqUnread(at) == at \in LqProcs /\ lqProc[at].pc \in {"claimed", "dead"}
\* One that is being replayed was read: a line added now comes back only if its drain dies.
LqReplayed(at) == at \in LqProcs /\ lqProc[at].pc = "replay"

\* The write of appendFileSync, to the file the handle is open on.
LqWrite(p) ==
  LET r == lqProc[p]
      entry == [step |-> r.handle, attempts |-> 0]
  IN
  /\ r.pc = "opened"
  /\ \/ /\ r.at = LqNone
        /\ lqMain' = LqAppended(lqMain, entry)
        /\ LqSet(p, LqIdle)
        /\ UNCHANGED lqGone
     \/ /\ LqUnread(r.at) \/ LqReplayed(r.at)
        /\ lqProc' = [lqProc EXCEPT ![p] = LqIdle, ![r.at].file = Append(@, entry)]
        /\ lqGone' = IF LqUnread(r.at) THEN lqGone ELSE lqGone \cup {r.handle}
        /\ UNCHANGED lqMain
     \/ /\ r.at = LqLost
        /\ lqGone' = lqGone \cup {r.handle}
        /\ LqSet(p, LqIdle)
        /\ UNCHANGED lqMain
  /\ UNCHANGED <<lqNew, lqDead, lqApplied, lqFails, lqCrashes>>

\* Where the handles on the main file point after a rename or an unlink.
LqMoved(old, new) == [q \in LqProcs |-> IF lqProc[q].pc = "opened" /\ lqProc[q].at = old
                                        THEN [lqProc[q] EXCEPT !.at = new] ELSE lqProc[q]]

\* claim(): the queue file, or the file of a dead drain, becomes this drain's.
LqClaim(p) ==
  /\ lqProc[p].pc = "idle"
  /\ \/ /\ lqMain.there
        /\ lqProc' = [LqMoved(LqNone, p) EXCEPT ![p] = [LqIdle EXCEPT !.pc = "claimed",
                                                           !.file = lqMain.lines]]
        /\ lqMain' = LqNoFile
     \/ \E q \in LqProcs :
          /\ lqProc[q].pc = "dead" /\ lqProc[q].at = q
          /\ lqProc' = [LqMoved(q, p) EXCEPT ![p] = [LqIdle EXCEPT !.pc = "claimed",
                                                        !.file = lqProc[q].file],
                                             ![q] = [LqIdle EXCEPT !.pc = "dead"]]
          /\ UNCHANGED lqMain
  /\ UNCHANGED <<lqNew, lqDead, lqApplied, lqFails, lqGone, lqCrashes>>

LqRead(p) ==
  /\ lqProc[p].pc = "claimed"
  /\ LqSet(p, [lqProc[p] EXCEPT !.pc = "replay", !.todo = lqProc[p].file])
  /\ UNCHANGED <<lqNew, lqMain, lqDead, lqApplied, lqFails, lqGone, lqCrashes>>

\* Slip: a line out of attempts is not written anywhere.
LqPutBack_Drops(entry) ==
  IF entry.attempts >= LqMaxAttempts
  THEN UNCHANGED <<lqMain, lqDead>>
  ELSE lqMain' = LqAppended(lqMain, entry) /\ UNCHANGED lqDead

\* A failed or skipped line goes back to the queue or to the dead letters.
LqPutBack(entry) ==
  IF entry.attempts >= LqMaxAttempts
  THEN lqDead' = lqDead \cup {entry.step} /\ UNCHANGED lqMain
  ELSE lqMain' = LqAppended(lqMain, entry) /\ UNCHANGED lqDead

\* One line of the loop: applied, failed, or passed over for lack of time.
LqReplay(p) ==
  LET r == lqProc[p]
      entry == Head(r.todo)
      next == [r EXCEPT !.todo = Tail(r.todo)]
  IN
  /\ r.pc = "replay" /\ r.todo # <<>>
  /\ \/ /\ ~r.late
        /\ lqApplied' = [lqApplied EXCEPT ![entry.step] = @ + 1]
        /\ LqSet(p, next)
        /\ UNCHANGED <<lqMain, lqDead, lqFails>>
     \/ /\ ~r.late
        /\ lqFails' = [lqFails EXCEPT ![entry.step] = @ + 1]
        /\ LqPutBack([entry EXCEPT !.attempts = @ + 1])
        /\ LqSet(p, next)
        /\ UNCHANGED lqApplied
     \/ /\ LqPutBack(entry)
        /\ LqSet(p, [next EXCEPT !.late = TRUE])
        /\ UNCHANGED <<lqApplied, lqFails>>
  /\ UNCHANGED <<lqNew, lqGone, lqCrashes>>

LqUnlink(p) ==
  /\ lqProc[p].pc = "replay" /\ lqProc[p].todo = <<>>
  /\ lqProc' = [LqMoved(p, LqLost) EXCEPT ![p] = LqIdle]
  /\ UNCHANGED <<lqNew, lqMain, lqDead, lqApplied, lqFails, lqGone, lqCrashes>>

\* A process dies; a file it has claimed stays under the name of its dead pid
\* (at = p). A step it was about to append is lost with it.
LqCrash(p) ==
  LET r == lqProc[p]
      claimed == r.pc \in {"claimed", "replay"}
  IN
  /\ lqCrashes < LqMaxCrashes /\ r.pc \notin {"idle", "dead"}
  /\ lqCrashes' = lqCrashes + 1
  /\ LqSet(p, [LqIdle EXCEPT !.pc = "dead", !.file = IF claimed THEN r.file ELSE <<>>,
                              !.at = IF claimed THEN p ELSE LqNone])
  /\ lqGone' = IF r.pc = "opened" THEN lqGone \cup {r.handle} ELSE lqGone
  /\ UNCHANGED <<lqNew, lqMain, lqDead, lqApplied, lqFails>>

LqProcStep(p) == LqWrite(p) \/ LqRead(p) \/ LqReplay(p) \/ LqUnlink(p)
LqNext == \E p \in LqProcs : \/ \E s \in LqSteps : LqRun(p, s)
                             \/ LqClaim(p) \/ LqProcStep(p) \/ LqCrash(p)

LqSpec == LqInit /\ [][LqNext]_lqVars
-----------------------------------------------------------------------------
\* The counters and files have their types: a line of the queue has attempts left.
LqTypeOK == /\ lqNew \subseteq LqSteps /\ lqDead \subseteq LqSteps /\ lqGone \subseteq LqSteps
            /\ lqMain.lines \in Seq(LqEntry) /\ lqCrashes \in 0..LqMaxCrashes
            /\ lqApplied \in [LqSteps -> 0..2^LqMaxCrashes]

LqLines == {lqMain.lines} \cup {lqProc[p].file : p \in LqProcs}
                \cup {lqProc[p].todo : p \in LqProcs}
LqQueued == UNION {{f[i].step : i \in DOMAIN f} : f \in LqLines}

\* No step disappears: a step that was run has been applied, waits in a file or
\* with an appender, is a dead letter, or is one of the two losses the code
\* has: reported lost, or written to a file a drain has already read
\* (queue.ts:164).
LqNothingVanishes ==
  \A s \in LqSteps \ lqNew :
    \/ lqApplied[s] > 0
    \/ s \in LqQueued \cup lqDead \cup lqGone
    \/ \E p \in LqProcs : lqProc[p].handle = s

\* "Claim a queue file by atomic rename so two drains never replay one entry
\* twice" (queue.ts:134): only the death of a drain between replaying a line and
\* unlinking its file makes a second copy of the line, and so each death at most
\* doubles the number of times a step is applied.
LqAppliedOnce == \A s \in LqSteps : lqApplied[s] <= 2^lqCrashes

\* A dead letter has failed MAX_ATTEMPTS replays, besides the run itself:
\* lines passed over when the budget ran out do not count as attempts.
LqDeadHasFailed == \A s \in lqDead : lqFails[s] > LqMaxAttempts

\* What the queue does with a step (appendQueue, drainQueue): the parts above.
LqSafe == LqTypeOK /\ LqNothingVanishes /\ LqAppliedOnce /\ LqDeadHasFailed
=============================================================================
