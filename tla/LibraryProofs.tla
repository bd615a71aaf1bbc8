---------------------------- MODULE LibraryProofs ----------------------------
(* Theorems about what is kept in files beside the stores: the queue of       *)
(* learning steps (LearningQueue) for any steps, processes, attempts and      *)
(* deaths, and the bundles of the skills library (SkillBundles) for any       *)
(* bundles, commands and deaths.                                              *)
EXTENDS LearningQueue, SkillBundles, FiniteSetTheorems, TLAPS

-----------------------------------------------------------------------------
(* The queue of learning steps *)

\* The entries of a file, and the steps they are of.
LqOf(f) == {f[i] : i \in DOMAIN f}
LqStepsOf(f) == {e.step : e \in LqOf(f)}

LqHolds ==
  [pc : {"idle", "opened", "claimed", "replay", "dead"}, handle : LqSteps \cup {LqNone},
   at : LqProcs \cup {LqNone, LqLost}, file : Seq(LqEntry), todo : Seq(LqEntry), late : BOOLEAN]

LqTypes ==
  /\ lqNew \subseteq LqSteps /\ lqDead \subseteq LqSteps /\ lqGone \subseteq LqSteps
  /\ lqMain \in [there : BOOLEAN, lines : Seq(LqEntry)]
  /\ lqProc \in [LqProcs -> LqHolds]
  /\ lqFails \in [LqSteps -> Nat] /\ lqApplied \in [LqSteps -> Nat]

\* Entries whose step has failed as often as they say, and in its run.
LqCounted == {e \in LqEntry : lqFails[e.step] > e.attempts}

\* What process p holds says so, and what it has still to replay is in the file it holds.
LqGoodProc(p) ==
  /\ LqOf(lqProc[p].file) \subseteq LqCounted /\ LqOf(lqProc[p].todo) \subseteq LqCounted
  /\ lqProc[p].pc = "opened" => lqProc[p].handle \in LqSteps /\ lqFails[lqProc[p].handle] > 0
  /\ lqProc[p].pc = "replay" => LqStepsOf(lqProc[p].todo) \subseteq LqStepsOf(lqProc[p].file)

\* A step is at process p: in the file p is to read, in what it has still to replay, or about
\* to be appended.  A file that is being replayed does not count, it will be unlinked.
LqWith(p, s) ==
  \/ lqProc[p].pc \in {"claimed", "dead"} /\ s \in LqStepsOf(lqProc[p].file)
  \/ lqProc[p].pc = "replay" /\ s \in LqStepsOf(lqProc[p].todo)
  \/ lqProc[p].pc = "opened" /\ lqProc[p].handle = s

LqKept(s) ==
  \/ s \in lqNew \/ lqApplied[s] > 0 \/ s \in lqDead \/ s \in lqGone
  \/ s \in LqStepsOf(lqMain.lines)
  \/ \E p \in LqProcs : LqWith(p, s)

\* The inductive invariant of the queue.
LqInv ==
  /\ LqTypes /\ LqOf(lqMain.lines) \subseteq LqCounted /\ (\A p \in LqProcs : LqGoodProc(p))
  /\ (\A s \in LqSteps : LqKept(s)) /\ LqDeadHasFailed

\* Process q keeps what it holds, though its handle may point elsewhere.
LqSame(q) ==
  /\ lqProc'[q].pc = lqProc[q].pc /\ lqProc'[q].handle = lqProc[q].handle
  /\ lqProc'[q].file = lqProc[q].file /\ lqProc'[q].todo = lqProc[q].todo

\* A line that is appended is an entry of the file.
LEMMA LqOfAppend ==
  ASSUME NEW f \in Seq(LqEntry), NEW e \in LqEntry
  PROVE  /\ Append(f, e) \in Seq(LqEntry) /\ LqOf(Append(f, e)) = LqOf(f) \cup {e}
         /\ LqStepsOf(Append(f, e)) = LqStepsOf(f) \cup {e.step}
<1> DEFINE g == Append(f, e)
<1>a. /\ Len(f) \in Nat /\ DOMAIN f = 1..Len(f) /\ DOMAIN g = 1..(Len(f) + 1)
      /\ g[Len(f) + 1] = e /\ \A i \in 1..Len(f) : g[i] = f[i]
  OBVIOUS
<1>b. \A i \in 1..(Len(f) + 1) : i = Len(f) + 1 \/ i \in 1..Len(f)
  BY <1>a
<1>c. Len(f) + 1 \in 1..(Len(f) + 1) /\ \A i \in 1..Len(f) : i \in 1..(Len(f) + 1)
  BY <1>a
<1>d. g \in Seq(LqEntry)
  OBVIOUS
<1> HIDE DEF g
<1>e. LqOf(g) \subseteq LqOf(f) \cup {e}
  BY <1>a, <1>b DEF LqOf
<1>f. LqOf(f) \cup {e} \subseteq LqOf(g)
  BY <1>a, <1>c DEF LqOf
<1>1. LqOf(Append(f, e)) = LqOf(f) \cup {e}
  BY <1>e, <1>f DEF g
<1>2. LqStepsOf(Append(f, e)) = LqStepsOf(f) \cup {e.step}
  BY <1>1 DEF LqStepsOf
<1> QED
  BY <1>1, <1>2

\* An empty file has no entries.
LEMMA LqOfEmpty == LqOf(<<>>) = {} /\ LqStepsOf(<<>>) = {}
BY DEF LqOf, LqStepsOf

\* A file has its first line and the others.
LEMMA LqOfHead ==
  ASSUME NEW f \in Seq(LqEntry), f # <<>>
  PROVE  /\ Head(f) \in LqEntry /\ Tail(f) \in Seq(LqEntry)
         /\ LqOf(f) = {Head(f)} \cup LqOf(Tail(f))
         /\ LqStepsOf(f) = {Head(f).step} \cup LqStepsOf(Tail(f))
<1>1. /\ Len(f) \in Nat /\ Len(f) > 0 /\ DOMAIN f = 1..Len(f)
      /\ Head(f) = f[1] /\ Head(f) \in LqEntry /\ Tail(f) \in Seq(LqEntry)
      /\ DOMAIN Tail(f) = 1..(Len(f) - 1) /\ \A i \in 1..(Len(f) - 1) : Tail(f)[i] = f[i + 1]
  OBVIOUS
<1>2. \A i \in 1..Len(f) : i = 1 \/ (i - 1 \in 1..(Len(f) - 1) /\ (i - 1) + 1 = i)
  BY <1>1
<1>3. \A i \in 1..(Len(f) - 1) : i + 1 \in 1..Len(f)
  BY <1>1
<1>4. LqOf(f) \subseteq {Head(f)} \cup LqOf(Tail(f))
  <2>1. SUFFICES ASSUME NEW i \in 1..Len(f), i # 1 PROVE f[i] \in LqOf(Tail(f))
    BY <1>1 DEF LqOf
  <2>2. i - 1 \in 1..(Len(f) - 1) /\ f[i] = Tail(f)[i - 1]
    BY <1>1, <1>2, <2>1
  <2> QED
    BY <1>1, <2>2 DEF LqOf
<1>5. {Head(f)} \cup LqOf(Tail(f)) \subseteq LqOf(f)
  BY <1>1, <1>3 DEF LqOf
<1>6. LqOf(f) = {Head(f)} \cup LqOf(Tail(f))
  BY <1>4, <1>5
<1>7. LqStepsOf(f) = {Head(f).step} \cup LqStepsOf(Tail(f))
  BY <1>6 DEF LqStepsOf
<1> QED
  BY <1>1, <1>6, <1>7

\* The fields of an entry.
LEMMA LqEntryTypes ==
  ASSUME NEW e \in LqEntry
  PROVE  e.step \in LqSteps /\ e.attempts \in Nat
BY LqAssumption DEF LqEntry

\* An entry of one try more.
LEMMA LqEntryFields ==
  ASSUME NEW e \in LqEntry
  PROVE  /\ e.step \in LqSteps /\ e.attempts \in Nat /\ e.attempts < LqMaxAttempts
         /\ [e EXCEPT !.attempts = @ + 1].step = e.step
         /\ [e EXCEPT !.attempts = @ + 1].attempts = e.attempts + 1
         /\ e.attempts + 1 < LqMaxAttempts => [e EXCEPT !.attempts = @ + 1] \in LqEntry
BY LqAssumption DEF LqEntry

\* The first entry of a step.
LEMMA LqEntryFirst ==
  ASSUME NEW s \in LqSteps
  PROVE  [step |-> s, attempts |-> 0] \in LqEntry
BY LqAssumption DEF LqEntry

\* What a step has to show: the processes it moves, the queue, and where their steps went.
LEMMA LqStepKeeps ==
  ASSUME LqInv, LqTypes', NEW P \in SUBSET LqProcs,
         \A q \in LqProcs \ P : LqSame(q), \A q \in P : LqGoodProc(q)',
         \A s \in LqSteps : lqFails'[s] >= lqFails[s] /\ (lqApplied[s] > 0 => lqApplied'[s] > 0),
         LqOf(lqMain'.lines) \subseteq LqCounted',
         \A s \in lqDead' : s \in lqDead \/ lqFails'[s] > LqMaxAttempts,
         lqDead \subseteq lqDead', lqGone \subseteq lqGone',
         \A s \in LqSteps :
           s \in lqNew \/ s \in LqStepsOf(lqMain.lines) \/ (\E q \in P : LqWith(q, s)) => LqKept(s)'
  PROVE  LqInv'
<1>0. /\ lqFails \in [LqSteps -> Nat] /\ lqFails' \in [LqSteps -> Nat]
      /\ lqDead \subseteq LqSteps /\ lqProc \in [LqProcs -> LqHolds]
  BY DEF LqInv, LqTypes
<1>1. LqCounted \subseteq LqCounted'
  <2>1. ASSUME NEW e \in LqEntry, lqFails[e.step] > e.attempts PROVE lqFails'[e.step] > e.attempts
    BY <1>0, <2>1, LqEntryTypes
  <2> QED
    BY <2>1 DEF LqCounted
<1>2. ASSUME NEW q \in LqProcs PROVE LqGoodProc(q)'
  <2>1. CASE q \in P
    BY <2>1
  <2>2. CASE q \notin P
    <3>1. LqSame(q) /\ LqGoodProc(q)
      BY <2>2 DEF LqInv
    <3>2. lqProc[q].pc = "opened" => lqProc[q].handle \in LqSteps /\ lqFails'[lqProc[q].handle] > 0
      BY <1>0, <3>1 DEF LqGoodProc
    <3> QED
      BY <1>1, <3>1, <3>2 DEF LqSame, LqGoodProc
  <2> QED
    BY <2>1, <2>2
<1>3. ASSUME NEW s \in LqSteps PROVE LqKept(s)'
  <2>1. LqKept(s)
    BY DEF LqInv
  <2>2. CASE \E q \in LqProcs : LqWith(q, s)
    <3>1. PICK q \in LqProcs : LqWith(q, s)
      BY <2>2
    <3>2. CASE q \in P
      BY <3>1, <3>2
    <3>3. CASE q \notin P
      <4>1. LqWith(q, s)'
        BY <3>1, <3>3 DEF LqWith, LqSame
      <4> QED
        BY <4>1 DEF LqKept
    <3> QED
      BY <3>2, <3>3
  <2>3. CASE s \in lqNew \/ s \in LqStepsOf(lqMain.lines)
    BY <2>3
  <2>4. CASE lqApplied[s] > 0 \/ s \in lqDead \/ s \in lqGone
    BY <2>4 DEF LqKept
  <2> QED
    BY <2>1, <2>2, <2>3, <2>4 DEF LqKept
<1>4. LqDeadHasFailed'
  <2>1. ASSUME NEW s \in lqDead PROVE lqFails'[s] > LqMaxAttempts
    BY <1>0, <2>1, LqAssumption DEF LqInv, LqDeadHasFailed
  <2> QED
    BY <2>1 DEF LqDeadHasFailed
<1> QED
  BY <1>2, <1>3, <1>4 DEF LqInv

\* The same for a step that moves one process.
LEMMA LqStepOne ==
  ASSUME LqInv, LqTypes', NEW p \in LqProcs,
         \A q \in LqProcs \ {p} : LqSame(q), LqGoodProc(p)',
         \A s \in LqSteps : lqFails'[s] >= lqFails[s] /\ (lqApplied[s] > 0 => lqApplied'[s] > 0),
         LqOf(lqMain'.lines) \subseteq LqCounted',
         \A s \in lqDead' : s \in lqDead \/ lqFails'[s] > LqMaxAttempts,
         lqDead \subseteq lqDead', lqGone \subseteq lqGone',
         \A s \in LqSteps : s \in lqNew \/ s \in LqStepsOf(lqMain.lines) \/ LqWith(p, s) => LqKept(s)'
  PROVE  LqInv'
<1>1. PICK P \in SUBSET LqProcs : P = {p}
  OBVIOUS
<1>2. /\ \A q \in LqProcs \ P : LqSame(q)
      /\ \A s \in LqSteps :
           s \in lqNew \/ s \in LqStepsOf(lqMain.lines) \/ (\E q \in P : LqWith(q, s)) => LqKept(s)'
  BY <1>1
<1>3. \A q \in P : LqGoodProc(q)'
  BY <1>1
<1> QED
  BY <1>2, <1>3, LqStepKeeps

\* And for one that moves none.
LEMMA LqStepNone ==
  ASSUME LqInv, LqTypes', lqProc' = lqProc,
         \A s \in LqSteps : lqFails'[s] >= lqFails[s] /\ (lqApplied[s] > 0 => lqApplied'[s] > 0),
         LqOf(lqMain'.lines) \subseteq LqCounted', lqDead' = lqDead, lqGone \subseteq lqGone',
         \A s \in LqSteps : s \in lqNew \/ s \in LqStepsOf(lqMain.lines) => LqKept(s)'
  PROVE  LqInv'
<1>1. PICK P \in SUBSET LqProcs : P = {}
  OBVIOUS
<1>2. /\ \A q \in LqProcs \ P : LqSame(q)
      /\ \A s \in LqSteps :
           s \in lqNew \/ s \in LqStepsOf(lqMain.lines) \/ (\E q \in P : LqWith(q, s)) => LqKept(s)'
  BY <1>1 DEF LqSame
<1>3. \A q \in P : LqGoodProc(q)'
  BY <1>1
<1> QED
  BY <1>2, <1>3, LqStepKeeps

\* The record of an idle process is in order, whatever has failed.
LEMMA LqGoodIdle ==
  ASSUME NEW p, lqProc'[p].file = <<>>, lqProc'[p].todo = <<>>,
         lqProc'[p].pc \in {"idle", "dead"}
  PROVE  LqGoodProc(p)'
BY LqOfEmpty DEF LqGoodProc

\* A step that is run is applied, about to be appended, or reported lost.
LEMMA LqRunStep ==
  ASSUME LqInv, NEW p \in LqProcs, NEW s \in LqSteps, LqRun(p, s)
  PROVE  LqInv'
<1>0. LqTypes /\ s \in lqNew /\ lqProc[p].pc = "idle" /\ lqNew' = lqNew \ {s} /\ lqDead' = lqDead
  BY DEF LqInv, LqRun
<1>1. CASE lqApplied' = [lqApplied EXCEPT ![s] = @ + 1] /\ UNCHANGED <<lqMain, lqProc, lqFails, lqGone>>
  <2>1. LqTypes'
    BY <1>0, <1>1 DEF LqTypes
  <2>2. \A t \in LqSteps : lqApplied[t] > 0 => lqApplied'[t] > 0
    BY <1>0, <1>1 DEF LqTypes
  <2>3. lqApplied'[s] > 0
    BY <1>0, <1>1 DEF LqTypes
  <2>4. \A t \in LqSteps : lqFails'[t] >= lqFails[t]
    BY <1>0, <1>1 DEF LqTypes
  <2>5. \A t \in LqSteps : t \in lqNew \/ t \in LqStepsOf(lqMain.lines) => LqKept(t)'
    BY <1>0, <1>1, <2>3 DEF LqKept
  <2>6. LqOf(lqMain'.lines) \subseteq LqCounted'
    BY <1>1 DEF LqInv, LqCounted
  <2> QED
    BY <1>0, <1>1, <2>1, <2>2, <2>4, <2>5, <2>6, LqStepNone
<1>2. CASE /\ lqFails' = [lqFails EXCEPT ![s] = @ + 1]
           /\ LqSet(p, [LqIdle EXCEPT !.pc = "opened", !.handle = s, !.at = LqNone])
           /\ lqMain' = [lqMain EXCEPT !.there = TRUE]
           /\ UNCHANGED <<lqApplied, lqGone>>
  <2> DEFINE x == [LqIdle EXCEPT !.pc = "opened", !.handle = s, !.at = LqNone]
  <2>1. /\ x \in LqHolds /\ x.pc = "opened" /\ x.handle = s /\ x.file = <<>> /\ x.todo = <<>>
    <3>1. <<>> \in Seq(LqEntry)
      OBVIOUS
    <3> QED
      BY <3>1 DEF LqIdle, LqHolds
  <2>2. lqProc' = [lqProc EXCEPT ![p] = x]
    BY <1>2 DEF LqSet
  <2> HIDE DEF x
  <2>3. lqProc'[p] = x /\ \A q \in LqProcs \ {p} : LqSame(q)
    BY <1>0, <2>2 DEF LqTypes, LqSame
  <2>4. /\ lqFails' \in [LqSteps -> Nat] /\ lqFails'[s] > 0
        /\ \A t \in LqSteps : lqFails'[t] >= lqFails[t]
    BY <1>0, <1>2 DEF LqTypes
  <2>5. lqMain' \in [there : BOOLEAN, lines : Seq(LqEntry)] /\ lqMain'.lines = lqMain.lines
    BY <1>0, <1>2 DEF LqTypes
  <2>6. LqTypes'
    BY <1>0, <1>2, <2>1, <2>2, <2>4, <2>5 DEF LqTypes
  <2>7. LqGoodProc(p)'
    BY <2>1, <2>3, <2>4, LqOfEmpty DEF LqGoodProc
  <2>8. LqOf(lqMain'.lines) \subseteq LqCounted'
    <3>1. ASSUME NEW e \in LqEntry, lqFails[e.step] > e.attempts PROVE lqFails'[e.step] > e.attempts
      BY <1>0, <2>4, <3>1, LqEntryTypes DEF LqTypes
    <3> QED
      BY <2>5, <3>1 DEF LqInv, LqCounted
  <2>9. LqWith(p, s)'
    BY <2>1, <2>3 DEF LqWith
  <2>10. \A t \in LqSteps : t \in lqNew \/ t \in LqStepsOf(lqMain.lines) => LqKept(t)'
    BY <1>0, <2>5, <2>9 DEF LqKept
  <2>11. \A t \in LqSteps : ~LqWith(p, t)
    BY <1>0 DEF LqWith
  <2> QED
    BY <1>0, <1>2, <2>3, <2>4, <2>6, <2>7, <2>8, <2>10, <2>11, LqStepOne
<1>3. CASE /\ lqFails' = [lqFails EXCEPT ![s] = @ + 1] /\ lqGone' = lqGone \cup {s}
           /\ UNCHANGED <<lqMain, lqProc, lqApplied>>
  <2>4. /\ lqFails' \in [LqSteps -> Nat] /\ \A t \in LqSteps : lqFails'[t] >= lqFails[t]
    BY <1>0, <1>3 DEF LqTypes
  <2>6. LqTypes'
    BY <1>0, <1>3, <2>4 DEF LqTypes
  <2>8. LqOf(lqMain'.lines) \subseteq LqCounted'
    <3>1. ASSUME NEW e \in LqEntry, lqFails[e.step] > e.attempts PROVE lqFails'[e.step] > e.attempts
      BY <1>0, <2>4, <3>1, LqEntryTypes DEF LqTypes
    <3> QED
      BY <1>3, <3>1 DEF LqInv, LqCounted
  <2>10. \A t \in LqSteps : t \in lqNew \/ t \in LqStepsOf(lqMain.lines) => LqKept(t)'
    BY <1>0, <1>3 DEF LqKept
  <2> QED
    BY <1>0, <1>3, <2>4, <2>6, <2>8, <2>10, LqStepNone
<1> QED
  BY <1>1, <1>2, <1>3 DEF LqRun

\* The write reaches the queue or a file still to be read, or a file that was read already.
LEMMA LqWriteStep ==
  ASSUME LqInv, NEW p \in LqProcs, LqWrite(p)
  PROVE  LqInv'
<1>h. PICK h : h = lqProc[p].handle
  OBVIOUS
<1>e. PICK e : e = [step |-> h, attempts |-> 0]
  OBVIOUS
<1>0. /\ LqTypes /\ lqProc \in [LqProcs -> LqHolds] /\ LqGoodProc(p) /\ lqProc[p].pc = "opened"
      /\ UNCHANGED <<lqNew, lqDead, lqApplied, lqFails>>
  BY DEF LqInv, LqTypes, LqWrite
<1>1. h \in LqSteps /\ lqFails[h] > 0 /\ e \in LqEntry /\ e.step = h /\ e.attempts = 0
  BY <1>h, <1>e, <1>0, LqEntryFirst DEF LqGoodProc
<1>2. LqCounted' = LqCounted /\ e \in LqCounted
  BY <1>0, <1>1 DEF LqCounted
<1>3. \A t : LqWith(p, t) => t = h
  BY <1>h, <1>0 DEF LqWith
<1>4. /\ \A s \in LqSteps : lqFails'[s] >= lqFails[s] /\ (lqApplied[s] > 0 => lqApplied'[s] > 0)
      /\ lqDead \subseteq lqDead' /\ \A s \in lqDead' : s \in lqDead
      /\ \A s \in lqNew : LqKept(s)'
  BY <1>0 DEF LqTypes, LqKept
<1>5. LqIdle \in LqHolds /\ LqIdle.pc = "idle" /\ LqIdle.file = <<>> /\ LqIdle.todo = <<>>
  <2>1. <<>> \in Seq(LqEntry)
    OBVIOUS
  <2> QED
    BY <2>1 DEF LqIdle, LqHolds
<1>6. ASSUME LqSet(p, LqIdle)
      PROVE  /\ lqProc' \in [LqProcs -> LqHolds] /\ lqProc'[p] = LqIdle
             /\ LqGoodProc(p)' /\ \A q \in LqProcs \ {p} : LqSame(q)
  <2>1. lqProc'[p] = LqIdle /\ lqProc' \in [LqProcs -> LqHolds] /\ \A q \in LqProcs \ {p} : LqSame(q)
    BY <1>0, <1>5, <1>6 DEF LqSet, LqSame
  <2> QED
    BY <1>5, <2>1, LqGoodIdle
<1>7. CASE lqMain' = LqAppended(lqMain, e) /\ LqSet(p, LqIdle) /\ UNCHANGED lqGone
  <2>1. /\ lqMain' \in [there : BOOLEAN, lines : Seq(LqEntry)]
        /\ LqOf(lqMain'.lines) = LqOf(lqMain.lines) \cup {e}
        /\ LqStepsOf(lqMain'.lines) = LqStepsOf(lqMain.lines) \cup {h}
    <3>1. lqMain.lines \in Seq(LqEntry) /\ lqMain'.lines = Append(lqMain.lines, e) /\ lqMain'.there = TRUE
      BY <1>0, <1>7 DEF LqTypes, LqAppended
    <3>2. lqMain' \in [there : BOOLEAN, lines : Seq(LqEntry)]
      BY <1>1, <1>7, <3>1, LqOfAppend DEF LqAppended
    <3> QED
      BY <1>1, <3>1, <3>2, LqOfAppend
  <2>2. LqTypes'
    BY <1>0, <1>6, <1>7, <2>1 DEF LqTypes
  <2>3. LqOf(lqMain'.lines) \subseteq LqCounted'
    BY <1>2, <2>1 DEF LqInv
  <2>4. \A s \in LqSteps : s \in LqStepsOf(lqMain.lines) \/ LqWith(p, s) => LqKept(s)'
    BY <1>3, <2>1 DEF LqKept
  <2> QED
    BY <1>4, <1>6, <1>7, <2>2, <2>3, <2>4, LqStepOne
<1>8. CASE lqGone' = lqGone \cup {h} /\ LqSet(p, LqIdle) /\ UNCHANGED lqMain
  <2>1. LqTypes'
    BY <1>0, <1>1, <1>6, <1>8 DEF LqTypes
  <2>2. LqOf(lqMain'.lines) \subseteq LqCounted'
    BY <1>2, <1>8 DEF LqInv
  <2>3. \A s \in LqSteps : s \in LqStepsOf(lqMain.lines) \/ LqWith(p, s) => LqKept(s)'
    BY <1>3, <1>8 DEF LqKept
  <2> QED
    BY <1>4, <1>6, <1>8, <2>1, <2>2, <2>3, LqStepOne
<1>9. CASE /\ LqUnread(lqProc[p].at) \/ LqReplayed(lqProc[p].at)
           /\ lqProc' = [lqProc EXCEPT ![p] = LqIdle, ![lqProc[p].at].file = Append(@, e)]
           /\ lqGone' = IF LqUnread(lqProc[p].at) THEN lqGone ELSE lqGone \cup {h}
           /\ UNCHANGED lqMain
  <2>a. PICK a : a = lqProc[p].at
    OBVIOUS
  <2>1. /\ a \in LqProcs /\ lqProc[a].pc \in {"claimed", "dead", "replay"} /\ a # p
        /\ lqProc[a].pc = "replay" => lqGone' = lqGone \cup {h}
        /\ lqGone \subseteq lqGone' /\ lqGone' \subseteq LqSteps
    BY <1>0, <1>1, <1>9, <2>a DEF LqTypes, LqUnread, LqReplayed
  <2> DEFINE f == Append(lqProc[a].file, e)
             x == [lqProc[a] EXCEPT !.file = f]
  <2>2. lqProc[a] \in LqHolds /\ lqProc[a].file \in Seq(LqEntry)
    BY <1>0, <2>1 DEF LqHolds
  <2>3. /\ f \in Seq(LqEntry) /\ LqOf(f) = LqOf(lqProc[a].file) \cup {e}
        /\ LqStepsOf(f) = LqStepsOf(lqProc[a].file) \cup {h}
    BY <1>1, <2>2, LqOfAppend
  <2>4. lqProc' = [lqProc EXCEPT ![p] = LqIdle, ![a] = x]
    BY <1>0, <1>9, <2>a, <2>1
  <2> HIDE DEF f
  <2>5. x \in LqHolds /\ x.pc = lqProc[a].pc /\ x.file = f /\ x.todo = lqProc[a].todo
    BY <2>2, <2>3 DEF LqHolds
  <2> HIDE DEF x
  <2>6. /\ lqProc' \in [LqProcs -> LqHolds] /\ lqProc'[p] = LqIdle /\ lqProc'[a] = x
        /\ \A q \in LqProcs \ {p, a} : LqSame(q)
    BY <1>0, <1>5, <2>1, <2>4, <2>5 DEF LqSame
  <2>7. LqTypes'
    BY <1>0, <1>9, <2>1, <2>6 DEF LqTypes
  <2>8. LqOf(lqMain'.lines) \subseteq LqCounted'
    BY <1>2, <1>9 DEF LqInv
  <2>9. LqGoodProc(p)' /\ LqGoodProc(a)'
    <3>1. LqGoodProc(p)'
      BY <1>5, <2>6, LqGoodIdle
    <3>2. LqGoodProc(a)
      BY <2>1 DEF LqInv
    <3> QED
      BY <1>2, <2>1, <2>3, <2>5, <2>6, <3>1, <3>2 DEF LqGoodProc
  <2>10. LqKept(h)'
    <3>1. lqProc[a].pc # "replay" => LqWith(a, h)'
      BY <2>1, <2>3, <2>5, <2>6 DEF LqWith
    <3> QED
      BY <2>1, <3>1 DEF LqKept
  <2>11. \A t : LqWith(a, t) => LqWith(a, t)'
    BY <2>1, <2>3, <2>5, <2>6 DEF LqWith
  <2>12. PICK P \in SUBSET LqProcs : P = {p, a}
    BY <2>1
  <2>13. \A s \in LqSteps :
           s \in lqNew \/ s \in LqStepsOf(lqMain.lines) \/ (\E q \in P : LqWith(q, s)) => LqKept(s)'
    BY <1>3, <1>4, <1>9, <2>1, <2>10, <2>11, <2>12 DEF LqKept
  <2>14. (\A q \in LqProcs \ P : LqSame(q)) /\ \A q \in P : LqGoodProc(q)'
    BY <2>6, <2>9, <2>12
  <2> QED
    BY <1>4, <1>9, <2>1, <2>7, <2>8, <2>13, <2>14, LqStepKeeps
<1> QED
  BY <1>h, <1>e, <1>7, <1>8, <1>9 DEF LqWrite

\* A rename or an unlink moves handles and nothing else.
LEMMA LqMovedHolds ==
  ASSUME lqProc \in [LqProcs -> LqHolds], NEW o, NEW n \in LqProcs \cup {LqNone, LqLost}
  PROVE  /\ LqMoved(o, n) \in [LqProcs -> LqHolds]
         /\ \A q \in LqProcs :
              /\ LqMoved(o, n)[q].pc = lqProc[q].pc /\ LqMoved(o, n)[q].handle = lqProc[q].handle
              /\ LqMoved(o, n)[q].file = lqProc[q].file /\ LqMoved(o, n)[q].todo = lqProc[q].todo
<1>1. ASSUME NEW q \in LqProcs
      PROVE  LET x == LqMoved(o, n)[q]
             IN  /\ x \in LqHolds /\ x.pc = lqProc[q].pc /\ x.handle = lqProc[q].handle
                 /\ x.file = lqProc[q].file /\ x.todo = lqProc[q].todo
  <2>1. LqMoved(o, n)[q] \in {lqProc[q], [lqProc[q] EXCEPT !.at = n]}
    BY DEF LqMoved
  <2>2. lqProc[q] \in LqHolds
    OBVIOUS
  <2> QED
    BY <2>1, <2>2 DEF LqHolds
<1>2. LqMoved(o, n) = [q \in LqProcs |-> LqMoved(o, n)[q]]
  BY DEF LqMoved
<1> QED
  BY <1>1, <1>2

\* A drain takes a file over, from the queue or from a drain that died.
LEMMA LqClaimStep ==
  ASSUME LqInv, NEW p \in LqProcs, LqClaim(p)
  PROVE  LqInv'
<1>0. /\ LqTypes /\ lqProc \in [LqProcs -> LqHolds] /\ LqGoodProc(p) /\ lqProc[p].pc = "idle"
      /\ UNCHANGED <<lqNew, lqDead, lqApplied, lqFails, lqGone>>
  <2>1. lqProc[p].pc = "idle" /\ UNCHANGED <<lqNew, lqDead, lqApplied, lqFails, lqGone>>
    BY Zenon DEF LqClaim
  <2> QED
    BY <2>1 DEF LqInv, LqTypes
<1>1. LqCounted' = LqCounted
  BY <1>0 DEF LqCounted
<1>2. \A t : ~LqWith(p, t)
  BY <1>0 DEF LqWith
<1>3. /\ \A s \in LqSteps : lqFails'[s] >= lqFails[s] /\ (lqApplied[s] > 0 => lqApplied'[s] > 0)
      /\ lqDead \subseteq lqDead' /\ \A s \in lqDead' : s \in lqDead
      /\ \A s \in lqNew : LqKept(s)'
  BY <1>0 DEF LqTypes, LqKept
<1>4. <<>> \in Seq(LqEntry)
  OBVIOUS
<1>5. CASE /\ lqProc' = [LqMoved(LqNone, p) EXCEPT ![p] = [LqIdle EXCEPT !.pc = "claimed",
                                                           !.file = lqMain.lines]]
           /\ lqMain' = LqNoFile
  <2> DEFINE x == [LqIdle EXCEPT !.pc = "claimed", !.file = lqMain.lines]
             m == LqMoved(LqNone, p)
  <2>1. lqMain.lines \in Seq(LqEntry)
    BY <1>0 DEF LqTypes
  <2>2. x \in LqHolds /\ x.pc = "claimed" /\ x.file = lqMain.lines /\ x.todo = <<>>
    BY <1>4, <2>1 DEF LqIdle, LqHolds
  <2>3. /\ m \in [LqProcs -> LqHolds]
        /\ \A q \in LqProcs : /\ m[q].pc = lqProc[q].pc /\ m[q].handle = lqProc[q].handle
                              /\ m[q].file = lqProc[q].file /\ m[q].todo = lqProc[q].todo
    BY <1>0, LqMovedHolds
  <2>4. lqProc' = [m EXCEPT ![p] = x]
    BY <1>5
  <2> HIDE DEF x, m
  <2>5. /\ lqProc' \in [LqProcs -> LqHolds] /\ lqProc'[p] = x
        /\ \A q \in LqProcs \ {p} : LqSame(q)
    BY <2>2, <2>3, <2>4 DEF LqSame
  <2>6. LqTypes' /\ lqMain'.lines = <<>>
    BY <1>0, <1>4, <1>5, <2>5 DEF LqTypes, LqNoFile
  <2>7. LqOf(lqMain'.lines) \subseteq LqCounted' /\ LqGoodProc(p)'
    BY <1>1, <2>2, <2>5, <2>6, LqOfEmpty DEF LqInv, LqGoodProc
  <2>8. \A s \in LqSteps : s \in LqStepsOf(lqMain.lines) => LqWith(p, s)'
    BY <2>2, <2>5 DEF LqWith
  <2>9. \A s \in LqSteps : s \in LqStepsOf(lqMain.lines) => LqKept(s)'
    BY <2>8 DEF LqKept
  <2> QED
    BY <1>0, <1>2, <1>3, <2>5, <2>6, <2>7, <2>9, LqStepOne
<1>6. ASSUME NEW q \in LqProcs, lqProc[q].pc = "dead", UNCHANGED lqMain,
             lqProc' = [LqMoved(q, p) EXCEPT ![p] = [LqIdle EXCEPT !.pc = "claimed",
                                                       !.file = lqProc[q].file],
                                             ![q] = [LqIdle EXCEPT !.pc = "dead"]]
      PROVE  LqInv'
  <2> DEFINE x == [LqIdle EXCEPT !.pc = "claimed", !.file = lqProc[q].file]
             y == [LqIdle EXCEPT !.pc = "dead"]
             m == LqMoved(q, p)
  <2>1. lqProc[q].file \in Seq(LqEntry) /\ p # q
    BY <1>0, <1>6 DEF LqHolds
  <2>2. x \in LqHolds /\ x.pc = "claimed" /\ x.file = lqProc[q].file /\ x.todo = <<>>
    BY <1>4, <2>1 DEF LqIdle, LqHolds
  <2>y. y \in LqHolds /\ y.pc = "dead" /\ y.file = <<>> /\ y.todo = <<>>
    BY <1>4 DEF LqIdle, LqHolds
  <2>3. /\ m \in [LqProcs -> LqHolds]
        /\ \A k \in LqProcs : /\ m[k].pc = lqProc[k].pc /\ m[k].handle = lqProc[k].handle
                              /\ m[k].file = lqProc[k].file /\ m[k].todo = lqProc[k].todo
    BY <1>0, LqMovedHolds
  <2>4. lqProc' = [m EXCEPT ![p] = x, ![q] = y]
    BY <1>6
  <2> HIDE DEF x, y, m
  <2>5. /\ lqProc' \in [LqProcs -> LqHolds] /\ lqProc'[p] = x /\ lqProc'[q] = y
        /\ \A k \in LqProcs \ {p, q} : LqSame(k)
    BY <2>1, <2>2, <2>y, <2>3, <2>4 DEF LqSame
  <2>6. LqTypes'
    BY <1>0, <1>6, <2>5 DEF LqTypes
  <2>7. LqOf(lqMain'.lines) \subseteq LqCounted' /\ LqGoodProc(p)' /\ LqGoodProc(q)'
    <3>1. LqGoodProc(q) /\ LqOf(lqMain.lines) \subseteq LqCounted
      BY DEF LqInv
    <3>2. LqGoodProc(q)'
      BY <2>y, <2>5, LqGoodIdle
    <3>3. LqGoodProc(p)'
      BY <1>1, <2>2, <2>5, <3>1, LqOfEmpty DEF LqGoodProc
    <3> QED
      BY <1>1, <1>6, <3>1, <3>2, <3>3
  <2>8. \A s : LqWith(q, s) => LqWith(p, s)'
    BY <1>6, <2>2, <2>5 DEF LqWith
  <2>9. \A s \in LqSteps : s \in LqStepsOf(lqMain.lines) \/ LqWith(q, s) => LqKept(s)'
    BY <1>6, <2>8 DEF LqKept
  <2>10. PICK P \in SUBSET LqProcs : P = {p, q}
    OBVIOUS
  <2>11. \A s \in LqSteps :
           s \in lqNew \/ s \in LqStepsOf(lqMain.lines) \/ (\E k \in P : LqWith(k, s)) => LqKept(s)'
    BY <1>2, <1>3, <2>9, <2>10
  <2>12. (\A k \in LqProcs \ P : LqSame(k)) /\ \A k \in P : LqGoodProc(k)'
    BY <2>5, <2>7, <2>10
  <2> QED
    BY <1>0, <1>3, <2>6, <2>7, <2>11, <2>12, LqStepKeeps
<1> QED
  BY <1>5, <1>6, Zenon DEF LqClaim

\* A file is read, a file replayed to its end is unlinked, a process dies.
LEMMA LqOtherStep ==
  ASSUME LqInv, NEW p \in LqProcs, LqRead(p) \/ LqUnlink(p) \/ LqCrash(p)
  PROVE  LqInv'
<1>0. /\ LqTypes /\ lqProc \in [LqProcs -> LqHolds] /\ LqGoodProc(p) /\ lqProc[p] \in LqHolds
      /\ lqProc[p].file \in Seq(LqEntry) /\ LqOf(lqMain.lines) \subseteq LqCounted
  BY DEF LqInv, LqTypes, LqHolds
<1>a. UNCHANGED <<lqNew, lqMain, lqDead, lqApplied, lqFails>> /\ lqGone \subseteq lqGone'
  BY DEF LqRead, LqUnlink, LqCrash
<1>1. LqCounted' = LqCounted
  BY <1>a DEF LqCounted
<1>3. /\ \A s \in LqSteps : lqFails'[s] >= lqFails[s] /\ (lqApplied[s] > 0 => lqApplied'[s] > 0)
      /\ lqDead \subseteq lqDead' /\ \A s \in lqDead' : s \in lqDead
      /\ \A s \in lqNew : LqKept(s)'
  BY <1>0, <1>a DEF LqTypes, LqKept
<1>4. <<>> \in Seq(LqEntry)
  OBVIOUS
<1>5. \A s : s \in LqStepsOf(lqMain.lines) => LqKept(s)'
  BY <1>a DEF LqKept
<1>6. LqOf(lqMain'.lines) \subseteq LqCounted'
  BY <1>0, <1>1, <1>a
<1>7. CASE LqRead(p)
  <2> DEFINE x == [lqProc[p] EXCEPT !.pc = "replay", !.todo = lqProc[p].file]
  <2>1. lqProc' = [lqProc EXCEPT ![p] = x] /\ lqProc[p].pc = "claimed" /\ lqGone' = lqGone
    BY <1>7 DEF LqRead, LqSet
  <2>2. x \in LqHolds /\ x.pc = "replay" /\ x.todo = lqProc[p].file /\ x.file = lqProc[p].file
    BY <1>0 DEF LqHolds
  <2> HIDE DEF x
  <2>3. /\ lqProc' \in [LqProcs -> LqHolds] /\ lqProc'[p] = x
        /\ \A k \in LqProcs \ {p} : LqSame(k)
    BY <1>0, <2>1, <2>2 DEF LqSame
  <2>4. LqTypes'
    BY <1>0, <1>a, <2>1, <2>3 DEF LqTypes
  <2>5. LqGoodProc(p)'
    BY <1>0, <1>1, <2>2, <2>3 DEF LqGoodProc
  <2>6. \A s : LqWith(p, s) => LqWith(p, s)'
    BY <2>1, <2>2, <2>3 DEF LqWith
  <2>7. \A s : LqWith(p, s) => LqKept(s)'
    BY <2>6 DEF LqKept
  <2> QED
    BY <1>3, <1>5, <1>6, <1>a, <2>3, <2>4, <2>5, <2>7, LqStepOne
<1>8. CASE LqUnlink(p)
  <2> DEFINE m == LqMoved(p, LqLost)
  <2>1. lqProc' = [m EXCEPT ![p] = LqIdle] /\ lqProc[p].pc = "replay" /\ lqProc[p].todo = <<>>
        /\ lqGone' = lqGone
    BY <1>8 DEF LqUnlink
  <2>2. LqIdle \in LqHolds /\ LqIdle.pc = "idle" /\ LqIdle.file = <<>> /\ LqIdle.todo = <<>>
    BY <1>4 DEF LqIdle, LqHolds
  <2>3. /\ m \in [LqProcs -> LqHolds]
        /\ \A k \in LqProcs : /\ m[k].pc = lqProc[k].pc /\ m[k].handle = lqProc[k].handle
                              /\ m[k].file = lqProc[k].file /\ m[k].todo = lqProc[k].todo
    BY <1>0, LqMovedHolds
  <2> HIDE DEF m
  <2>4. /\ lqProc' \in [LqProcs -> LqHolds] /\ lqProc'[p] = LqIdle
        /\ \A k \in LqProcs \ {p} : LqSame(k)
    BY <2>1, <2>2, <2>3 DEF LqSame
  <2>5. LqTypes'
    BY <1>0, <1>a, <2>1, <2>4 DEF LqTypes
  <2>6. LqGoodProc(p)'
    BY <2>2, <2>4, LqGoodIdle
  <2>7. \A s : ~LqWith(p, s)
    BY <2>1, LqOfEmpty DEF LqWith
  <2> QED
    BY <1>3, <1>5, <1>6, <1>a, <2>4, <2>5, <2>6, <2>7, LqStepOne
<1>9. CASE LqCrash(p)
  <2>c. PICK f : f = IF lqProc[p].pc \in {"claimed", "replay"} THEN lqProc[p].file ELSE <<>>
    OBVIOUS
  <2>d. PICK a : a = IF lqProc[p].pc \in {"claimed", "replay"} THEN p ELSE LqNone
    OBVIOUS
  <2>1. lqProc' = [lqProc EXCEPT ![p] = [LqIdle EXCEPT !.pc = "dead", !.file = f, !.at = a]]
    BY <1>9, <2>c, <2>d DEF LqCrash, LqSet
  <2>2. /\ lqProc[p].pc \notin {"idle", "dead"}
        /\ lqGone' = IF lqProc[p].pc = "opened" THEN lqGone \cup {lqProc[p].handle} ELSE lqGone
    BY <1>9 DEF LqCrash
  <2> DEFINE x == [LqIdle EXCEPT !.pc = "dead", !.file = f, !.at = a]
  <2>3. x \in LqHolds /\ x.pc = "dead" /\ x.file = f /\ x.todo = <<>>
    BY <1>0, <1>4, <2>c, <2>d DEF LqIdle, LqHolds
  <2>n. lqProc' = [lqProc EXCEPT ![p] = x]
    BY <2>1
  <2> HIDE DEF x
  <2>4. /\ lqProc' \in [LqProcs -> LqHolds] /\ lqProc'[p] = x
        /\ \A k \in LqProcs \ {p} : LqSame(k)
    BY <1>0, <2>n, <2>3 DEF LqSame
  <2>5. LqTypes'
    BY <1>0, <1>a, <2>2, <2>4 DEF LqTypes, LqGoodProc
  <2>6. LqGoodProc(p)'
    BY <1>0, <1>1, <2>c, <2>3, <2>4, LqOfEmpty DEF LqGoodProc
  <2>7. \A s : LqWith(p, s) => LqKept(s)'
    <3>1. ASSUME NEW s, LqWith(p, s), lqProc[p].pc # "opened" PROVE LqWith(p, s)'
      BY <1>0, <2>c, <2>2, <2>3, <2>4, <3>1 DEF LqWith, LqGoodProc
    <3>2. ASSUME NEW s, LqWith(p, s), lqProc[p].pc = "opened" PROVE s \in lqGone'
      BY <2>2, <3>2 DEF LqWith
    <3> QED
      BY <3>1, <3>2 DEF LqKept
  <2> QED
    BY <1>3, <1>5, <1>6, <1>a, <2>4, <2>5, <2>6, <2>7, LqStepOne
<1> QED
  BY <1>7, <1>8, <1>9

\* A line that is put back is in the queue, or has used its attempts and is a dead letter.
LEMMA LqPutBackKeeps ==
  ASSUME LqTypes, LqOf(lqMain.lines) \subseteq LqCounted', NEW e, LqPutBack(e),
         e.step \in LqSteps, e.attempts \in Nat,
         e.attempts < LqMaxAttempts => e \in LqEntry, lqFails'[e.step] > e.attempts,
         e.attempts >= LqMaxAttempts => e.attempts = LqMaxAttempts
  PROVE  /\ lqMain' \in [there : BOOLEAN, lines : Seq(LqEntry)] /\ lqDead' \subseteq LqSteps
         /\ LqOf(lqMain'.lines) \subseteq LqCounted' /\ lqDead \subseteq lqDead'
         /\ \A s \in lqDead' : s \in lqDead \/ lqFails'[s] > LqMaxAttempts
         /\ LqStepsOf(lqMain.lines) \subseteq LqStepsOf(lqMain'.lines)
         /\ e.step \in lqDead' \cup LqStepsOf(lqMain'.lines)
<1>0. lqMain.lines \in Seq(LqEntry) /\ lqDead \subseteq LqSteps
  BY DEF LqTypes
<1>1. CASE e.attempts >= LqMaxAttempts
  <2>1. lqDead' = lqDead \cup {e.step} /\ lqMain' = lqMain
    BY <1>1 DEF LqPutBack
  <2> QED
    BY <1>1, <2>1 DEF LqTypes
<1>2. CASE ~(e.attempts >= LqMaxAttempts)
  <2>1. lqDead' = lqDead /\ lqMain' = LqAppended(lqMain, e)
    BY <1>2 DEF LqPutBack
  <2>2. e \in LqEntry
    BY <1>2, LqAssumption
  <2>3. e \in LqCounted'
    BY <2>2 DEF LqCounted
  <2>4. lqMain'.lines = Append(lqMain.lines, e) /\ lqMain'.there = TRUE
    BY <2>1 DEF LqAppended
  <2>5. /\ Append(lqMain.lines, e) \in Seq(LqEntry)
        /\ LqOf(lqMain'.lines) = LqOf(lqMain.lines) \cup {e}
        /\ LqStepsOf(lqMain'.lines) = LqStepsOf(lqMain.lines) \cup {e.step}
    BY <1>0, <2>2, <2>4, LqOfAppend
  <2>6. lqMain' \in [there : BOOLEAN, lines : Seq(LqEntry)]
    BY <2>1, <2>5 DEF LqAppended
  <2> QED
    BY <1>0, <2>1, <2>3, <2>5, <2>6
<1> QED
  BY <1>1, <1>2

\* A line is applied, fails once more, or is passed over; it is put back unless it was applied.
LEMMA LqReplayStep ==
  ASSUME LqInv, NEW p \in LqProcs, LqReplay(p)
  PROVE  LqInv'
<1>e. PICK e : e = Head(lqProc[p].todo)
  OBVIOUS
<1>t. PICK t : t = Tail(lqProc[p].todo)
  OBVIOUS
<1>0. /\ LqTypes /\ lqProc \in [LqProcs -> LqHolds] /\ LqGoodProc(p) /\ lqProc[p] \in LqHolds
      /\ lqProc[p].todo \in Seq(LqEntry) /\ LqOf(lqMain.lines) \subseteq LqCounted
  BY DEF LqInv, LqTypes, LqHolds
<1>1. lqProc[p].pc = "replay" /\ lqProc[p].todo # <<>> /\ UNCHANGED <<lqNew, lqGone>>
  BY DEF LqReplay
<1>2. /\ e \in LqEntry /\ t \in Seq(LqEntry) /\ LqOf(lqProc[p].todo) = {e} \cup LqOf(t)
      /\ LqStepsOf(lqProc[p].todo) = {e.step} \cup LqStepsOf(t)
  BY <1>e, <1>t, <1>0, <1>1, LqOfHead
<1>3. /\ e.step \in LqSteps /\ e.attempts \in Nat /\ e.attempts < LqMaxAttempts
      /\ lqFails[e.step] > e.attempts /\ lqFails \in [LqSteps -> Nat]
      /\ lqApplied \in [LqSteps -> Nat]
  <2>1. e \in LqCounted
    BY <1>0, <1>2 DEF LqGoodProc
  <2> QED
    BY <1>0, <1>2, <2>1, LqEntryFields DEF LqCounted, LqTypes
<1>4. ASSUME NEW x \in LqHolds, lqProc' = [lqProc EXCEPT ![p] = x],
             x.pc = "replay", x.todo = t, x.file = lqProc[p].file,
             lqFails' \in [LqSteps -> Nat], lqApplied' \in [LqSteps -> Nat],
             \A s \in LqSteps : lqFails'[s] >= lqFails[s] /\ (lqApplied[s] > 0 => lqApplied'[s] > 0),
             lqMain' \in [there : BOOLEAN, lines : Seq(LqEntry)], lqDead' \subseteq LqSteps,
             LqOf(lqMain'.lines) \subseteq LqCounted', lqDead \subseteq lqDead',
             \A s \in lqDead' : s \in lqDead \/ lqFails'[s] > LqMaxAttempts,
             LqStepsOf(lqMain.lines) \subseteq LqStepsOf(lqMain'.lines),
             lqApplied'[e.step] > 0 \/ e.step \in lqDead' \cup LqStepsOf(lqMain'.lines)
      PROVE  LqInv'
  <2>3. /\ lqProc' \in [LqProcs -> LqHolds] /\ lqProc'[p] = x
        /\ \A k \in LqProcs \ {p} : LqSame(k)
    BY <1>0, <1>4 DEF LqSame
  <2>4. LqTypes'
    BY <1>0, <1>1, <1>4, <2>3 DEF LqTypes
  <2>5. LqCounted \subseteq LqCounted'
    <3>1. ASSUME NEW c \in LqEntry, lqFails[c.step] > c.attempts PROVE lqFails'[c.step] > c.attempts
      BY <1>3, <1>4, <3>1, LqEntryTypes
    <3> QED
      BY <3>1 DEF LqCounted
  <2>6. LqGoodProc(p)'
    BY <1>0, <1>1, <1>2, <1>4, <2>3, <2>5 DEF LqGoodProc
  <2>7. \A s \in LqSteps : LqWith(p, s) => s = e.step \/ LqWith(p, s)'
    BY <1>1, <1>2, <1>4, <2>3 DEF LqWith
  <2>8. \A s \in LqSteps : s \in lqNew \/ s \in LqStepsOf(lqMain.lines) \/ LqWith(p, s) => LqKept(s)'
    BY <1>1, <1>4, <2>7 DEF LqKept
  <2> QED
    BY <1>1, <1>4, <2>3, <2>4, <2>6, <2>8, LqStepOne
<1>5. LET x == [[lqProc[p] EXCEPT !.todo = t] EXCEPT !.late = TRUE]
      IN  x \in LqHolds /\ x.pc = "replay" /\ x.todo = t /\ x.file = lqProc[p].file
  BY <1>0, <1>1, <1>2 DEF LqHolds
<1>5a. LET x == [lqProc[p] EXCEPT !.todo = t]
      IN  x \in LqHolds /\ x.pc = "replay" /\ x.todo = t /\ x.file = lqProc[p].file
  BY <1>0, <1>1, <1>2 DEF LqHolds
<1>6. CASE /\ lqApplied' = [lqApplied EXCEPT ![e.step] = @ + 1]
           /\ LqSet(p, [lqProc[p] EXCEPT !.todo = t]) /\ UNCHANGED <<lqMain, lqDead, lqFails>>
  <2>1. /\ lqApplied' \in [LqSteps -> Nat] /\ lqApplied'[e.step] > 0
        /\ \A s \in LqSteps : lqApplied[s] > 0 => lqApplied'[s] > 0
    BY <1>3, <1>6
  <2>2. \A s \in LqSteps : lqFails'[s] >= lqFails[s]
    BY <1>3, <1>6
  <2>3. LqCounted' = LqCounted
    BY <1>6 DEF LqCounted
  <2>4. lqMain' \in [there : BOOLEAN, lines : Seq(LqEntry)] /\ lqDead' \subseteq LqSteps
    BY <1>0, <1>6 DEF LqTypes
  <2>5. LqOf(lqMain'.lines) \subseteq LqCounted'
    BY <1>0, <1>6, <2>3
  <2>x. PICK x \in LqHolds : /\ x = [lqProc[p] EXCEPT !.todo = t]
                            /\ x.pc = "replay" /\ x.todo = t /\ x.file = lqProc[p].file
    BY <1>5a
  <2>y. lqProc' = [lqProc EXCEPT ![p] = x]
    BY <1>6, <2>x DEF LqSet
  <2> QED
    BY <1>3, <1>4, <1>6, <2>x, <2>y, <2>1, <2>2, <2>4, <2>5
<1>7. CASE /\ lqFails' = [lqFails EXCEPT ![e.step] = @ + 1]
           /\ LqPutBack([e EXCEPT !.attempts = @ + 1])
           /\ LqSet(p, [lqProc[p] EXCEPT !.todo = t]) /\ UNCHANGED lqApplied
  <2>d. PICK d : d = [e EXCEPT !.attempts = @ + 1]
    OBVIOUS
  <2>1. /\ d.step = e.step /\ d.attempts = e.attempts + 1
        /\ e.attempts + 1 < LqMaxAttempts => d \in LqEntry
    BY <1>2, <2>d, LqEntryFields
  <2>2. /\ lqFails' \in [LqSteps -> Nat] /\ lqFails'[e.step] = lqFails[e.step] + 1
        /\ \A s \in LqSteps : lqFails'[s] >= lqFails[s]
    BY <1>3, <1>7
  <2>3. LqOf(lqMain.lines) \subseteq LqCounted'
    <3>1. ASSUME NEW c \in LqEntry, lqFails[c.step] > c.attempts PROVE lqFails'[c.step] > c.attempts
      BY <1>3, <2>2, <3>1, LqEntryTypes
    <3> QED
      BY <1>0, <3>1 DEF LqCounted
  <2>4. /\ d.attempts \in Nat /\ (d.attempts < LqMaxAttempts => d \in LqEntry)
        /\ d.step \in LqSteps /\ lqFails'[d.step] > d.attempts
        /\ d.attempts >= LqMaxAttempts => d.attempts = LqMaxAttempts
    BY <1>3, <2>1, <2>2, LqAssumption
  <2>5. LqPutBack(d)
    BY <1>7, <2>d
  <2>6. /\ lqMain' \in [there : BOOLEAN, lines : Seq(LqEntry)] /\ lqDead' \subseteq LqSteps
        /\ LqOf(lqMain'.lines) \subseteq LqCounted' /\ lqDead \subseteq lqDead'
        /\ \A s \in lqDead' : s \in lqDead \/ lqFails'[s] > LqMaxAttempts
        /\ LqStepsOf(lqMain.lines) \subseteq LqStepsOf(lqMain'.lines)
        /\ d.step \in lqDead' \cup LqStepsOf(lqMain'.lines)
    BY <1>0, <2>3, <2>4, <2>5, LqPutBackKeeps
  <2>x. PICK x \in LqHolds : /\ x = [lqProc[p] EXCEPT !.todo = t]
                            /\ x.pc = "replay" /\ x.todo = t /\ x.file = lqProc[p].file
    BY <1>5a
  <2>y. lqProc' = [lqProc EXCEPT ![p] = x]
    BY <1>7, <2>x DEF LqSet
  <2>7. lqApplied' \in [LqSteps -> Nat] /\ \A s \in LqSteps : lqApplied[s] > 0 => lqApplied'[s] > 0
    BY <1>3, <1>7
  <2> QED
    BY <1>4, <2>x, <2>y, <2>1, <2>2, <2>6, <2>7
<1>8. CASE /\ LqPutBack(e) /\ LqSet(p, [[lqProc[p] EXCEPT !.todo = t] EXCEPT !.late = TRUE])
           /\ UNCHANGED <<lqApplied, lqFails>>
  <2>1. LqOf(lqMain.lines) \subseteq LqCounted'
    BY <1>0, <1>8 DEF LqCounted
  <2>2. e.attempts >= LqMaxAttempts => e.attempts = LqMaxAttempts
    BY <1>3, LqAssumption
  <2>3. lqFails'[e.step] > e.attempts /\ \A s \in LqSteps : lqFails'[s] >= lqFails[s]
    BY <1>3, <1>8
  <2>4. /\ lqMain' \in [there : BOOLEAN, lines : Seq(LqEntry)] /\ lqDead' \subseteq LqSteps
        /\ LqOf(lqMain'.lines) \subseteq LqCounted' /\ lqDead \subseteq lqDead'
        /\ \A s \in lqDead' : s \in lqDead \/ lqFails'[s] > LqMaxAttempts
        /\ LqStepsOf(lqMain.lines) \subseteq LqStepsOf(lqMain'.lines)
        /\ e.step \in lqDead' \cup LqStepsOf(lqMain'.lines)
    BY <1>0, <1>2, <1>3, <1>8, <2>1, <2>2, <2>3, LqPutBackKeeps
  <2>x. PICK x \in LqHolds : /\ x = [[lqProc[p] EXCEPT !.todo = t] EXCEPT !.late = TRUE]
                            /\ x.pc = "replay" /\ x.todo = t /\ x.file = lqProc[p].file
    BY <1>5
  <2>y. lqProc' = [lqProc EXCEPT ![p] = x]
    BY <1>8, <2>x DEF LqSet
  <2>5. /\ lqFails' \in [LqSteps -> Nat] /\ lqApplied' \in [LqSteps -> Nat]
        /\ \A s \in LqSteps : lqApplied[s] > 0 => lqApplied'[s] > 0
    BY <1>3, <1>8
  <2> QED
    BY <1>4, <2>x, <2>y, <2>3, <2>4, <2>5
<1> QED
  BY <1>e, <1>t, <1>6, <1>7, <1>8 DEF LqReplay

\* The queue begins with every step still to be run, and nothing on file.
LEMMA LqInitInv == LqInit => LqInv
<1> SUFFICES ASSUME LqInit PROVE LqInv
  OBVIOUS
<1>1. <<>> \in Seq(LqEntry)
  OBVIOUS
<1>2. LqIdle \in LqHolds /\ LqIdle.pc = "idle" /\ LqIdle.file = <<>> /\ LqIdle.todo = <<>>
  BY <1>1 DEF LqIdle, LqHolds
<1>3. LqTypes /\ lqMain.lines = <<>>
  BY <1>1, <1>2 DEF LqInit, LqTypes, LqNoFile
<1>4. ASSUME NEW p \in LqProcs PROVE LqGoodProc(p)
  BY <1>2, LqOfEmpty DEF LqInit, LqGoodProc
<1>5. lqNew = LqSteps /\ lqDead = {}
  BY DEF LqInit
<1>6. LqDeadHasFailed
  BY <1>5 DEF LqDeadHasFailed
<1>7. \A s \in LqSteps : LqKept(s)
  BY <1>5 DEF LqKept
<1> QED
  BY <1>3, <1>4, <1>6, <1>7, LqOfEmpty DEF LqInv

\* Every step of the queue keeps its invariant.
LEMMA LqNextInv == LqInv /\ [LqNext]_lqVars => LqInv'
<1>1. ASSUME LqInv, LqNext PROVE LqInv'
  <2>1. PICK p \in LqProcs : \/ \E s \in LqSteps : LqRun(p, s)
                             \/ LqClaim(p) \/ LqProcStep(p) \/ LqCrash(p)
    BY <1>1 DEF LqNext
  <2> QED
    BY <1>1, <2>1, LqRunStep, LqClaimStep, LqWriteStep, LqReplayStep, LqOtherStep DEF LqProcStep
<1>2. ASSUME LqInv, UNCHANGED lqVars PROVE LqInv'
  <2>1. /\ lqNew' = lqNew /\ lqMain' = lqMain /\ lqProc' = lqProc /\ lqDead' = lqDead
        /\ lqApplied' = lqApplied /\ lqFails' = lqFails /\ lqGone' = lqGone
    BY <1>2 DEF lqVars
  <2> QED
    BY <1>2, <2>1 DEF LqInv, LqTypes, LqCounted, LqGoodProc, LqKept, LqWith, LqDeadHasFailed
<1> QED
  BY <1>1, <1>2

\* What is kept is in a file, with an appender, or one of the outcomes.
LEMMA LqInvKeeps == LqInv => LqNothingVanishes
<1> SUFFICES ASSUME LqInv PROVE LqNothingVanishes
  OBVIOUS
<1>1. ASSUME NEW f \in LqLines, NEW s, s \in LqStepsOf(f) PROVE s \in LqQueued
  BY <1>1 DEF LqQueued, LqStepsOf, LqOf
<1>2. lqMain.lines \in LqLines /\ \A p \in LqProcs : {lqProc[p].file, lqProc[p].todo} \subseteq LqLines
  BY DEF LqLines
<1>3. ASSUME NEW s \in LqSteps, s \notin lqNew
      PROVE  \/ lqApplied[s] > 0 \/ s \in LqQueued \cup lqDead \cup lqGone
             \/ \E p \in LqProcs : lqProc[p].handle = s
  <2>1. LqKept(s)
    BY DEF LqInv
  <2>2. ASSUME NEW p \in LqProcs, LqWith(p, s) PROVE s \in LqQueued \/ lqProc[p].handle = s
    BY <1>1, <1>2, <2>2 DEF LqWith
  <2> QED
    BY <1>1, <1>2, <1>3, <2>1, <2>2 DEF LqKept
<1> QED
  BY <1>3, Zenon DEF LqNothingVanishes

\* A set of one element more has twice the subsets.
LEMMA LqDoubles ==
  ASSUME NEW n \in Nat
  PROVE  2^n \in Nat /\ 2^(n + 1) = 2^n + 2^n /\ 2^n > 0
<1>c. \A m \in Nat : IsFiniteSet(1..m) /\ Cardinality(1..m) = m
  <2> SUFFICES ASSUME NEW m \in Nat PROVE IsFiniteSet(1..m) /\ Cardinality(1..m) = m
    OBVIOUS
  <2> QED
    BY FS_Interval
<1>s. \A m \in Nat : IsFiniteSet(SUBSET (1..m)) /\ Cardinality(SUBSET (1..m)) = 2^m
  <2> SUFFICES ASSUME NEW m \in Nat PROVE IsFiniteSet(SUBSET (1..m)) /\ Cardinality(SUBSET (1..m)) = 2^m
    OBVIOUS
  <2>1. IsFiniteSet(1..m) /\ Cardinality(1..m) = m
    BY <1>c
  <2>2. IsFiniteSet(SUBSET (1..m)) /\ Cardinality(SUBSET (1..m)) = 2^Cardinality(1..m)
    BY <2>1, FS_SUBSET
  <2> QED
    BY <2>1, <2>2, Zenon
<1> DEFINE A == SUBSET (1..n)
           B == {x \cup {n + 1} : x \in A}
           f == [x \in A |-> x \cup {n + 1}]
<1>0. n + 1 \in Nat /\ 1..(n + 1) = (1..n) \cup {n + 1} /\ n + 1 \notin 1..n
  OBVIOUS
<1>1. SUBSET (1..(n + 1)) = A \cup B
  <2>1. ASSUME NEW y \in SUBSET (1..(n + 1)) PROVE y \in A \cup B
    <3>1. CASE n + 1 \in y
      <4>1. y \ {n + 1} \in A /\ y = (y \ {n + 1}) \cup {n + 1}
        BY <1>0, <3>1
      <4> QED
        BY <4>1
    <3>2. CASE n + 1 \notin y
      BY <1>0, <3>2
    <3> QED
      BY <3>1, <3>2
  <2>2. A \cup B \subseteq SUBSET (1..(n + 1))
    BY <1>0
  <2> QED
    BY <2>1, <2>2
<1>2. A \cap B = {}
  BY <1>0
<1>3. IsFiniteSet(A) /\ Cardinality(A) = 2^n /\ Cardinality(A) \in Nat
  BY <1>s, FS_CardinalityType
<1>4. f \in Bijection(A, B)
  <2>1. \A x, y \in A : f[x] = f[y] => x = y
    BY <1>0
  <2>2. f \in [A -> B] /\ \A z \in B : \E x \in A : f[x] = z
    OBVIOUS
  <2> QED
    BY <2>1, <2>2 DEF Bijection, Injection, Surjection, IsInjective
<1>5. IsFiniteSet(B) /\ Cardinality(B) = Cardinality(A)
  BY <1>3, <1>4, FS_Bijection DEF ExistsBijection
<1>6. Cardinality(A \cup B) = Cardinality(A) + Cardinality(A)
  <2>1. Cardinality(A \cup B) = Cardinality(A) + Cardinality(B) - Cardinality(A \cap B)
    BY <1>3, <1>5, FS_Union
  <2>2. Cardinality(A \cap B) = 0
    BY <1>2, FS_EmptySet
  <2> QED
    BY <1>3, <1>5, <2>1, <2>2
<1>7. Cardinality(SUBSET (1..(n + 1))) = 2^(n + 1)
  BY <1>0, <1>s
<1>8. Cardinality(A) > 0
  <2>1. {} \in A
    OBVIOUS
  <2>2. Cardinality(A) # 0
    BY <1>3, <2>1, FS_EmptySet
  <2> QED
    BY <1>3, <2>2
<1> HIDE DEF A, B, f
<1> QED
  BY <1>1, <1>3, <1>6, <1>7, <1>8

\* A power of two is at least that of a smaller exponent.
LEMMA LqPowerGrows ==
  ASSUME NEW n \in Nat, NEW m \in Nat, n <= m
  PROVE  2^n <= 2^m
<1>1. \A k \in Nat : IsFiniteSet(SUBSET (1..k)) /\ Cardinality(SUBSET (1..k)) = 2^k
  <2> SUFFICES ASSUME NEW k \in Nat PROVE IsFiniteSet(SUBSET (1..k)) /\ Cardinality(SUBSET (1..k)) = 2^k
    OBVIOUS
  <2>1. IsFiniteSet(1..k) /\ Cardinality(1..k) = k
    BY FS_Interval
  <2>2. IsFiniteSet(SUBSET (1..k)) /\ Cardinality(SUBSET (1..k)) = 2^Cardinality(1..k)
    BY <2>1, FS_SUBSET
  <2> QED
    BY <2>1, <2>2, Zenon
<1>2. SUBSET (1..n) \subseteq SUBSET (1..m)
  OBVIOUS
<1>3. Cardinality(SUBSET (1..n)) <= Cardinality(SUBSET (1..m))
  BY <1>1, <1>2, FS_Subset
<1> QED
  BY <1>1, <1>3

\* The lines of a file that are of a step, and how many there are.
LqAt(f, s) == {i \in DOMAIN f : f[i].step = s}
LqN(f, s) == Cardinality(LqAt(f, s))

\* The lines process p may still replay: a file it has not read, or what is left of one.
LqRest(p) == IF lqProc[p].pc \in {"claimed", "dead"} THEN lqProc[p].file
             ELSE IF lqProc[p].pc = "replay" THEN lqProc[p].todo ELSE <<>>
LqRests == [p \in LqProcs |-> LqRest(p)]

\* The lines of a step among the files of R, one file for each process.
LqSpread(R, s) == {x \in LqProcs \X Nat : x[2] \in LqAt(R[x[1]], s)}

\* How often s was applied, and how often it still may be.
LqTotal(s) == lqApplied[s] + LqN(lqMain.lines, s) + Cardinality(LqSpread(LqRests, s))

\* A step that was not run yet, or failed in its run and is about to be appended.
LqFresh(s) == s \in lqNew \/ \E p \in LqProcs : lqProc[p].pc = "opened" /\ lqProc[p].handle = s

\* The applications a step had or may still have, and its lines in one file, are at most two to
\* the power of the deaths; of a step not yet written there are none.
LqBound(s) ==
  /\ IsFiniteSet(LqSpread(LqRests, s))
  /\ LqTotal(s) <= 2^lqCrashes
  /\ \A p \in LqProcs : LqN(lqProc[p].file, s) <= 2^lqCrashes
  /\ LqFresh(s) => LqTotal(s) = 0 /\ \A p \in LqProcs : LqN(lqProc[p].file, s) = 0

\* Only one process appends a step, and only one that was run.
LqHandled ==
  \A p \in LqProcs : lqProc[p].pc = "opened" =>
    /\ lqProc[p].handle \notin lqNew
    /\ \A q \in LqProcs : lqProc[q].pc = "opened" /\ lqProc[q].handle = lqProc[p].handle => q = p

\* The inductive invariant that bounds how often a step is applied.
LqCopyInv ==
  /\ lqCrashes \in Nat /\ lqCrashes <= LqMaxCrashes /\ LqHandled
  /\ \A s \in LqSteps : LqBound(s)

\* A file has finitely many lines of a step.
LEMMA LqAtFinite ==
  ASSUME NEW f \in Seq(LqEntry), NEW s
  PROVE  /\ IsFiniteSet(LqAt(f, s)) /\ LqN(f, s) \in Nat /\ LqAt(f, s) \subseteq 1..Len(f)
         /\ Len(f) \in Nat
<1>1. LqAt(f, s) \subseteq 1..Len(f) /\ Len(f) \in Nat
  BY DEF LqAt
<1>2. IsFiniteSet(1..Len(f))
  BY <1>1, FS_Interval
<1> QED
  BY <1>1, <1>2, FS_Subset, FS_CardinalityType DEF LqN

\* An empty file has none.
LEMMA LqNEmpty == \A s : LqN(<<>>, s) = 0
<1>1. \A s : LqAt(<<>>, s) = {}
  BY DEF LqAt
<1> QED
  BY <1>1, FS_EmptySet DEF LqN

\* A line that is appended adds one to the lines of its step.
LEMMA LqNAppend ==
  ASSUME NEW f \in Seq(LqEntry), NEW e \in LqEntry, NEW s
  PROVE  LqN(Append(f, e), s) = LqN(f, s) + (IF e.step = s THEN 1 ELSE 0)
<1> DEFINE g == Append(f, e)
           n == Len(f) + 1
<1>1. /\ LqAt(f, s) \subseteq 1..Len(f) /\ IsFiniteSet(LqAt(f, s)) /\ Len(f) \in Nat
      /\ Cardinality(LqAt(f, s)) \in Nat
  BY LqAtFinite DEF LqN
<1>2. /\ DOMAIN f = 1..Len(f) /\ DOMAIN g = 1..n /\ g[n] = e /\ \A i \in 1..Len(f) : g[i] = f[i]
  OBVIOUS
<1>3. n \notin 1..Len(f) /\ 1..n = (1..Len(f)) \cup {n}
  BY <1>1
<1> HIDE DEF g, n
<1>4. CASE e.step = s
  <2>1. LqAt(g, s) = LqAt(f, s) \cup {n}
    BY <1>2, <1>3, <1>4 DEF LqAt
  <2>2. n \notin LqAt(f, s)
    BY <1>1, <1>3
  <2>3. Cardinality(LqAt(f, s) \cup {n}) = Cardinality(LqAt(f, s)) + 1
    BY <1>1, <2>2, FS_AddElement
  <2>4. LqN(g, s) = LqN(f, s) + 1
    BY <2>1, <2>3 DEF LqN
  <2> QED
    BY <1>4, <2>4 DEF g
<1>5. CASE e.step # s
  <2>1. LqAt(g, s) = LqAt(f, s)
    BY <1>2, <1>3, <1>5 DEF LqAt
  <2>2. LqN(g, s) = LqN(f, s) /\ LqN(f, s) \in Nat
    BY <1>1, <2>1 DEF LqN
  <2> QED
    BY <1>5, <2>2 DEF g
<1> QED
  BY <1>4, <1>5

\* The first line of a file is the one that is not left.
LEMMA LqNHead ==
  ASSUME NEW f \in Seq(LqEntry), f # <<>>, NEW s
  PROVE  LqN(f, s) = LqN(Tail(f), s) + (IF Head(f).step = s THEN 1 ELSE 0)
<1> DEFINE g == Tail(f)
           A == LqAt(g, s)
           B == {i \in LqAt(f, s) : i # 1}
           h == [i \in A |-> i + 1]
<1>1. /\ Len(f) \in Nat /\ Len(f) > 0 /\ DOMAIN f = 1..Len(f) /\ Head(f) = f[1] /\ g \in Seq(LqEntry)
      /\ DOMAIN g = 1..(Len(f) - 1) /\ \A i \in 1..(Len(f) - 1) : g[i] = f[i + 1]
  OBVIOUS
<1>2. /\ IsFiniteSet(A) /\ Cardinality(A) \in Nat /\ IsFiniteSet(LqAt(f, s))
      /\ Cardinality(LqAt(f, s)) \in Nat
  BY <1>1, LqAtFinite DEF LqN
<1> HIDE DEF g
<1>3. h \in Bijection(A, B)
  <2>1. \A i \in A : i \in 1..(Len(f) - 1) /\ i + 1 \in 1..Len(f) /\ i + 1 # 1 /\ f[i + 1].step = s
    BY <1>1 DEF LqAt
  <2>2. h \in [A -> B]
    BY <1>1, <2>1 DEF LqAt
  <2>3. ASSUME NEW j \in B PROVE \E i \in A : h[i] = j
    <3>1. j \in 1..Len(f) /\ j # 1 /\ f[j].step = s
      BY <1>1 DEF LqAt
    <3>2. j - 1 \in 1..(Len(f) - 1) /\ (j - 1) + 1 = j
      BY <1>1, <3>1
    <3>3. j - 1 \in A
      BY <1>1, <3>1, <3>2 DEF LqAt
    <3> QED
      BY <3>2, <3>3
  <2>4. \A i, j \in A : h[i] = h[j] => i = j
    BY <2>1
  <2> QED
    BY <2>2, <2>3, <2>4 DEF Bijection, Injection, Surjection, IsInjective
<1>4. IsFiniteSet(B) /\ Cardinality(B) = Cardinality(A)
  BY <1>2, <1>3, FS_Bijection DEF ExistsBijection
<1>5. CASE Head(f).step = s
  <2>1. LqAt(f, s) = B \cup {1} /\ 1 \notin B
    BY <1>1, <1>5 DEF LqAt
  <2>2. Cardinality(B \cup {1}) = Cardinality(B) + 1
    BY <1>4, <2>1, FS_AddElement
  <2>3. LqN(f, s) = LqN(g, s) + 1
    BY <1>4, <2>1, <2>2 DEF LqN
  <2> QED
    BY <1>5, <2>3 DEF g
<1>6. CASE Head(f).step # s
  <2>1. LqAt(f, s) = B
    BY <1>1, <1>6 DEF LqAt
  <2>2. LqN(f, s) = LqN(g, s) /\ LqN(g, s) \in Nat
    BY <1>2, <1>4, <2>1 DEF LqN
  <2> QED
    BY <1>6, <2>2 DEF g
<1> QED
  BY <1>5, <1>6

\* Two ways to give a file to every process that differ in the one of p.
LqDiffer(R, S, p) ==
  /\ R \in [LqProcs -> Seq(LqEntry)] /\ S \in [LqProcs -> Seq(LqEntry)]
  /\ p \in LqProcs /\ \A q \in LqProcs \ {p} : S[q] = R[q]

\* The lines of a step change by those of the one file that changes.
LEMMA LqSpreadMoves ==
  ASSUME NEW R, NEW S, NEW p, NEW s, LqDiffer(R, S, p), IsFiniteSet(LqSpread(R, s))
  PROVE  /\ IsFiniteSet(LqSpread(S, s))
         /\ Cardinality(LqSpread(R, s)) \in Nat /\ Cardinality(LqSpread(S, s)) \in Nat
         /\ Cardinality(LqSpread(S, s)) + LqN(R[p], s) = Cardinality(LqSpread(R, s)) + LqN(S[p], s)
<1>0. /\ R \in [LqProcs -> Seq(LqEntry)] /\ S \in [LqProcs -> Seq(LqEntry)]
      /\ p \in LqProcs /\ \A q \in LqProcs \ {p} : S[q] = R[q]
  BY DEF LqDiffer
<1> DEFINE Q == {x \in LqSpread(R, s) : x[1] # p}
           B(T) == {x \in LqSpread(T, s) : x[1] = p}
<1>1. IsFiniteSet(Q) /\ Cardinality(Q) \in Nat
  <2>1. IsFiniteSet(Q)
    BY FS_Subset
  <2> QED
    BY <2>1, FS_CardinalityType
<1>2. ASSUME NEW T \in [LqProcs -> Seq(LqEntry)], \A q \in LqProcs \ {p} : T[q] = R[q]
      PROVE  IsFiniteSet(LqSpread(T, s)) /\ Cardinality(LqSpread(T, s)) = Cardinality(Q) + LqN(T[p], s)
  <2> DEFINE A == LqAt(T[p], s)
             h == [i \in A |-> <<p, i>>]
  <2>1. LqSpread(T, s) = Q \cup B(T)
    <3>1. ASSUME NEW x \in LqProcs \X Nat, x[1] # p PROVE x \in LqSpread(T, s) <=> x \in LqSpread(R, s)
      <4>1. T[x[1]] = R[x[1]]
        BY <1>2, <3>1
      <4> QED
        BY <4>1 DEF LqSpread
    <3>2. LqSpread(T, s) \subseteq LqProcs \X Nat /\ LqSpread(R, s) \subseteq LqProcs \X Nat
      BY DEF LqSpread
    <3> QED
      BY <3>1, <3>2
  <2>2. Q \cap B(T) = {}
    OBVIOUS
  <2>3. IsFiniteSet(A) /\ Cardinality(A) \in Nat /\ A \subseteq Nat
    <3>1. T[p] \in Seq(LqEntry)
      BY <1>0, <1>2
    <3>2. IsFiniteSet(A) /\ LqN(T[p], s) \in Nat /\ A \subseteq 1..Len(T[p]) /\ Len(T[p]) \in Nat
      BY <3>1, LqAtFinite
    <3> QED
      BY <3>2 DEF LqN
  <2>4. h \in Bijection(A, B(T))
    <3>1. h \in [A -> B(T)]
      BY <1>0, <2>3 DEF LqSpread
    <3>2. ASSUME NEW x \in B(T) PROVE \E i \in A : h[i] = x
      <4>1. x[1] = p /\ x[2] \in A /\ x = <<x[1], x[2]>>
        BY DEF LqSpread
      <4> QED
        BY <4>1
    <3>3. \A i, j \in A : h[i] = h[j] => i = j
      OBVIOUS
    <3> QED
      BY <3>1, <3>2, <3>3 DEF Bijection, Injection, Surjection, IsInjective
  <2>5. IsFiniteSet(B(T)) /\ Cardinality(B(T)) = Cardinality(A)
    BY <2>3, <2>4, FS_Bijection DEF ExistsBijection
  <2>6. Cardinality(Q \cap B(T)) = 0
    BY <2>2, FS_EmptySet
  <2>7. /\ IsFiniteSet(Q \cup B(T))
        /\ Cardinality(Q \cup B(T)) = Cardinality(Q) + Cardinality(B(T)) - Cardinality(Q \cap B(T))
    BY <1>1, <2>5, FS_Union
  <2>8. Cardinality(Q \cup B(T)) = Cardinality(Q) + Cardinality(A)
    BY <1>1, <2>3, <2>5, <2>6, <2>7
  <2> QED
    BY <2>1, <2>7, <2>8 DEF LqN
<1>3. Cardinality(LqSpread(R, s)) = Cardinality(Q) + LqN(R[p], s)
  BY <1>0, <1>2
<1>4. IsFiniteSet(LqSpread(S, s)) /\ Cardinality(LqSpread(S, s)) = Cardinality(Q) + LqN(S[p], s)
  BY <1>0, <1>2
<1>5. LqN(R[p], s) \in Nat /\ LqN(S[p], s) \in Nat
  BY <1>0, LqAtFinite
<1> QED
  BY <1>1, <1>3, <1>4, <1>5

\* What types give: the files of the processes, and the numbers.
LEMMA LqCopyTypes ==
  ASSUME LqTypes, NEW s \in LqSteps
  PROVE  /\ lqMain.lines \in Seq(LqEntry) /\ LqN(lqMain.lines, s) \in Nat /\ lqApplied[s] \in Nat
         /\ LqRests \in [LqProcs -> Seq(LqEntry)]
         /\ IsFiniteSet(LqSpread(LqRests, s)) => /\ Cardinality(LqSpread(LqRests, s)) \in Nat
                                                 /\ LqTotal(s) \in Nat
         /\ \A p \in LqProcs : /\ lqProc[p].file \in Seq(LqEntry) /\ lqProc[p].todo \in Seq(LqEntry)
                               /\ LqN(lqProc[p].file, s) \in Nat
                               /\ LqN(lqProc[p].todo, s) \in Nat
                               /\ LqRest(p) \in Seq(LqEntry) /\ LqN(LqRest(p), s) \in Nat
<1>1. lqMain.lines \in Seq(LqEntry) /\ LqN(lqMain.lines, s) \in Nat /\ lqApplied[s] \in Nat
  BY LqAtFinite DEF LqTypes
<1>2. ASSUME NEW p \in LqProcs
      PROVE  /\ lqProc[p].file \in Seq(LqEntry) /\ lqProc[p].todo \in Seq(LqEntry)
             /\ LqN(lqProc[p].file, s) \in Nat /\ LqRest(p) \in Seq(LqEntry)
             /\ LqN(lqProc[p].todo, s) \in Nat /\ LqN(LqRest(p), s) \in Nat
  <2>1. lqProc[p].file \in Seq(LqEntry) /\ lqProc[p].todo \in Seq(LqEntry) /\ <<>> \in Seq(LqEntry)
    BY DEF LqTypes, LqHolds
  <2>2. LqRest(p) \in Seq(LqEntry)
    BY <2>1 DEF LqRest
  <2> QED
    BY <2>1, <2>2, LqAtFinite
<1>3. LqRests \in [LqProcs -> Seq(LqEntry)]
  BY <1>2 DEF LqRests
<1>4. ASSUME IsFiniteSet(LqSpread(LqRests, s))
      PROVE  Cardinality(LqSpread(LqRests, s)) \in Nat /\ LqTotal(s) \in Nat
  BY <1>1, <1>4, FS_CardinalityType DEF LqTotal
<1> QED
  BY <1>1, <1>2, <1>3, <1>4

\* A process that is as before has the same lines left.
LEMMA LqSameRest ==
  ASSUME NEW p, LqSame(p)
  PROVE  LqRest(p)' = LqRest(p)
BY DEF LqSame, LqRest

\* The files of the processes after a step.
LEMMA LqRestsNext ==
  ASSUME LqTypes'
  PROVE  /\ LqRests' \in [LqProcs -> Seq(LqEntry)]
         /\ \A q \in LqProcs : LqRests'[q] = LqRest(q)' /\ LqRest(q)' \in Seq(LqEntry)
<1>1. ASSUME NEW q \in LqProcs PROVE LqRest(q)' \in Seq(LqEntry)
  <2>1. lqProc'[q].file \in Seq(LqEntry) /\ lqProc'[q].todo \in Seq(LqEntry) /\ <<>> \in Seq(LqEntry)
    BY DEF LqTypes, LqHolds
  <2> QED
    BY <2>1 DEF LqRest
<1> QED
  BY <1>1 DEF LqRests

\* Where one process moves, the lines that may still be replayed change by its own.
LEMMA LqOneMoves ==
  ASSUME LqTypes, LqTypes', NEW p \in LqProcs, \A q \in LqProcs \ {p} : LqRest(q)' = LqRest(q),
         NEW s \in LqSteps, IsFiniteSet(LqSpread(LqRests, s))
  PROVE  /\ IsFiniteSet(LqSpread(LqRests, s))' /\ Cardinality(LqSpread(LqRests, s))' \in Nat
         /\ Cardinality(LqSpread(LqRests, s))' + LqN(LqRest(p), s)
              = Cardinality(LqSpread(LqRests, s)) + LqN(LqRest(p), s)'
<1>R. PICK R : R = LqRests
  OBVIOUS
<1>S. PICK S : S = LqRests'
  OBVIOUS
<1>1. R \in [LqProcs -> Seq(LqEntry)] /\ S \in [LqProcs -> Seq(LqEntry)]
  BY <1>R, <1>S, LqCopyTypes, LqRestsNext
<1>2. \A q \in LqProcs : R[q] = LqRest(q) /\ S[q] = LqRest(q)'
  BY <1>R, <1>S DEF LqRests
<1>3. \A q \in LqProcs \ {p} : S[q] = R[q]
  BY <1>2
<1>4. IsFiniteSet(LqSpread(R, s))
  BY <1>R
<1>d. LqDiffer(R, S, p)
  BY <1>1, <1>3 DEF LqDiffer
<1>5. /\ IsFiniteSet(LqSpread(S, s)) /\ Cardinality(LqSpread(S, s)) \in Nat
      /\ Cardinality(LqSpread(S, s)) + LqN(R[p], s) = Cardinality(LqSpread(R, s)) + LqN(S[p], s)
  BY <1>4, <1>d, LqSpreadMoves
<1>6. /\ LqSpread(LqRests, s)' = LqSpread(S, s) /\ LqN(LqRest(p), s)' = LqN(LqRest(p)', s)
  BY <1>S DEF LqSpread, LqN, LqAt
<1> QED
  BY <1>R, <1>2, <1>5, <1>6

\* Where two move, by theirs.
LEMMA LqTwoMove ==
  ASSUME LqTypes, LqTypes', NEW p \in LqProcs, NEW a \in LqProcs, p # a,
         \A q \in LqProcs \ {p, a} : LqRest(q)' = LqRest(q),
         NEW s \in LqSteps, IsFiniteSet(LqSpread(LqRests, s))
  PROVE  /\ IsFiniteSet(LqSpread(LqRests, s))' /\ Cardinality(LqSpread(LqRests, s))' \in Nat
         /\ Cardinality(LqSpread(LqRests, s))' + LqN(LqRest(p), s) + LqN(LqRest(a), s)
              = Cardinality(LqSpread(LqRests, s)) + LqN(LqRest(p), s)' + LqN(LqRest(a), s)'
<1>R. PICK R : R = LqRests
  OBVIOUS
<1>S. PICK S : S = LqRests'
  OBVIOUS
<1>1. R \in [LqProcs -> Seq(LqEntry)] /\ S \in [LqProcs -> Seq(LqEntry)]
  BY <1>R, <1>S, LqCopyTypes, LqRestsNext
<1>2. \A q \in LqProcs : R[q] = LqRest(q) /\ S[q] = LqRest(q)'
  BY <1>R, <1>S DEF LqRests
<1>T. PICK T : T = [R EXCEPT ![p] = S[p]]
  OBVIOUS
<1>3. T[p] = S[p] /\ T[a] = R[a]
  BY <1>1, <1>T
<1>a. T \in [LqProcs -> Seq(LqEntry)]
  BY <1>1, <1>T
<1>b. \A q \in LqProcs \ {p} : T[q] = R[q]
  BY <1>1, <1>T
<1>4. \A q \in LqProcs \ {a} : S[q] = T[q]
  BY <1>2, <1>3, <1>b
<1>5. IsFiniteSet(LqSpread(R, s))
  BY <1>R
<1>d. LqDiffer(R, T, p) /\ LqDiffer(T, S, a)
  BY <1>1, <1>4, <1>a, <1>b DEF LqDiffer
<1>6. /\ IsFiniteSet(LqSpread(T, s)) /\ Cardinality(LqSpread(T, s)) \in Nat
      /\ Cardinality(LqSpread(R, s)) \in Nat
      /\ Cardinality(LqSpread(T, s)) + LqN(R[p], s) = Cardinality(LqSpread(R, s)) + LqN(T[p], s)
  BY <1>5, <1>d, LqSpreadMoves
<1>7. /\ IsFiniteSet(LqSpread(S, s)) /\ Cardinality(LqSpread(S, s)) \in Nat
      /\ Cardinality(LqSpread(S, s)) + LqN(T[a], s) = Cardinality(LqSpread(T, s)) + LqN(S[a], s)
  BY <1>6, <1>d, LqSpreadMoves
<1>8. /\ LqN(R[p], s) \in Nat /\ LqN(R[a], s) \in Nat /\ LqN(S[p], s) \in Nat /\ LqN(S[a], s) \in Nat
  BY <1>1, LqAtFinite
<1>9. Cardinality(LqSpread(S, s)) + LqN(R[p], s) + LqN(R[a], s)
        = Cardinality(LqSpread(R, s)) + LqN(S[p], s) + LqN(S[a], s)
  <2>1. LqN(T[p], s) = LqN(S[p], s) /\ LqN(T[a], s) = LqN(R[a], s)
    BY <1>3
  <2> QED
    BY <1>6, <1>7, <1>8, <2>1
<1>10. /\ LqSpread(LqRests, s)' = LqSpread(S, s) /\ LqN(LqRest(p), s)' = LqN(LqRest(p)', s)
       /\ LqN(LqRest(a), s)' = LqN(LqRest(a)', s)
  BY <1>S DEF LqSpread, LqN, LqAt
<1> QED
  BY <1>R, <1>2, <1>7, <1>9, <1>10

\* The bounds of a step are kept where it gains nothing, or one line in place of its writer.
LEMMA LqBoundKept ==
  ASSUME NEW s \in LqSteps, LqTypes, LqTypes', LqBound(s), lqCrashes \in Nat, lqCrashes' = lqCrashes,
         IsFiniteSet(LqSpread(LqRests, s))',
         \/ LqTotal(s)' <= LqTotal(s)
         \/ LqFresh(s) /\ ~LqFresh(s)' /\ LqTotal(s)' <= LqTotal(s) + 1,
         \A p \in LqProcs :
           \/ \E q \in LqProcs : LqN(lqProc[p].file, s)' <= LqN(lqProc[q].file, s)
           \/ LqN(lqProc[p].file, s)' <= LqTotal(s)
           \/ LqFresh(s) /\ ~LqFresh(s)' /\ LqN(lqProc[p].file, s)' <= LqN(lqProc[p].file, s) + 1,
         LqFresh(s)' => LqFresh(s)
  PROVE  LqBound(s)'
<1>1. 2^lqCrashes \in Nat /\ 2^lqCrashes > 0
  BY LqDoubles
<1>2. LqTotal(s) \in Nat /\ \A p \in LqProcs : LqN(lqProc[p].file, s) \in Nat
  BY LqCopyTypes DEF LqBound
<1>3. LqTotal(s)' \in Nat /\ \A p \in LqProcs : LqN(lqProc[p].file, s)' \in Nat
  <2>1. /\ lqMain'.lines \in Seq(LqEntry) /\ lqApplied'[s] \in Nat
        /\ \A p \in LqProcs : lqProc'[p].file \in Seq(LqEntry)
    BY DEF LqTypes, LqHolds
  <2>2. LqN(lqMain.lines, s)' \in Nat /\ \A p \in LqProcs : LqN(lqProc[p].file, s)' \in Nat
    BY <2>1, LqAtFinite
  <2>3. Cardinality(LqSpread(LqRests, s))' \in Nat
    BY FS_CardinalityType
  <2> QED
    BY <2>1, <2>2, <2>3 DEF LqTotal
<1>4. /\ LqTotal(s) <= 2^lqCrashes /\ \A p \in LqProcs : LqN(lqProc[p].file, s) <= 2^lqCrashes
      /\ LqFresh(s) => LqTotal(s) = 0 /\ \A p \in LqProcs : LqN(lqProc[p].file, s) = 0
  BY DEF LqBound
<1>5. LqTotal(s)' <= 2^lqCrashes /\ (LqFresh(s)' => LqTotal(s)' = 0)
  BY <1>1, <1>2, <1>3, <1>4
<1>6. ASSUME NEW p \in LqProcs
      PROVE  LqN(lqProc[p].file, s)' <= 2^lqCrashes /\ (LqFresh(s)' => LqN(lqProc[p].file, s)' = 0)
  <2>1. CASE \E q \in LqProcs : LqN(lqProc[p].file, s)' <= LqN(lqProc[q].file, s)
    BY <1>1, <1>2, <1>3, <1>4, <2>1
  <2>2. CASE LqN(lqProc[p].file, s)' <= LqTotal(s)
    BY <1>1, <1>2, <1>3, <1>4, <2>2
  <2>3. CASE LqFresh(s) /\ ~LqFresh(s)' /\ LqN(lqProc[p].file, s)' <= LqN(lqProc[p].file, s) + 1
    BY <1>1, <1>2, <1>3, <1>4, <2>3
  <2> QED
    BY <2>1, <2>2, <2>3
<1> QED
  BY <1>5, <1>6 DEF LqBound

\* Where no process opens the queue, the steps about to be appended are of those that were.
LEMMA LqHandledKept ==
  ASSUME LqHandled, lqNew' \subseteq lqNew,
         \A q \in LqProcs : lqProc'[q].pc = "opened" =>
           lqProc[q].pc = "opened" /\ lqProc'[q].handle = lqProc[q].handle
  PROVE  /\ LqHandled' /\ \A s : LqFresh(s)' => LqFresh(s)
         /\ \A p \in LqProcs : lqProc[p].pc = "opened" /\ lqProc'[p].pc # "opened"
              => \A h : lqProc[p].handle = h => LqFresh(h) /\ ~LqFresh(h)'
<1>1. LqHandled'
  BY DEF LqHandled
<1>2. \A s : LqFresh(s)' => LqFresh(s)
  BY DEF LqFresh
<1>3. ASSUME NEW p \in LqProcs, lqProc[p].pc = "opened", lqProc'[p].pc # "opened",
             NEW h, lqProc[p].handle = h
      PROVE  LqFresh(h) /\ ~LqFresh(h)'
  <2>1. LqFresh(h)
    BY <1>3 DEF LqFresh
  <2>2. h \notin lqNew'
    BY <1>3 DEF LqHandled
  <2>3. ASSUME NEW q \in LqProcs, lqProc'[q].pc = "opened" PROVE lqProc'[q].handle # h
    BY <1>3, <2>3 DEF LqHandled
  <2>4. ~LqFresh(h)'
    BY <2>2, <2>3 DEF LqFresh
  <2> QED
    BY <2>1, <2>4
<1> QED
  BY <1>1, <1>2, <1>3

\* A process that moves alone moves no other's file.
LEMMA LqOneStep ==
  ASSUME LqTypes, LqTypes', NEW p \in LqProcs, \A q \in LqProcs \ {p} : LqSame(q),
         NEW s \in LqSteps, LqBound(s), lqCrashes \in Nat, lqCrashes' = lqCrashes,
         LqFresh(s)' => LqFresh(s),
         LET before == lqApplied[s] + LqN(lqMain.lines, s) + LqN(LqRest(p), s)
             after  == lqApplied'[s] + LqN(lqMain.lines, s)' + LqN(LqRest(p), s)'
         IN  after <= before \/ (LqFresh(s) /\ ~LqFresh(s)' /\ after <= before + 1),
         \/ LqN(lqProc[p].file, s)' <= LqN(lqProc[p].file, s)
         \/ LqN(lqProc[p].file, s)' <= LqTotal(s)
  PROVE  LqBound(s)'
<1>1. IsFiniteSet(LqSpread(LqRests, s))
  BY DEF LqBound
<1>2. \A q \in LqProcs \ {p} : LqRest(q)' = LqRest(q)
  BY LqSameRest
<1>3. /\ IsFiniteSet(LqSpread(LqRests, s))' /\ Cardinality(LqSpread(LqRests, s))' \in Nat
      /\ Cardinality(LqSpread(LqRests, s))' + LqN(LqRest(p), s)
           = Cardinality(LqSpread(LqRests, s)) + LqN(LqRest(p), s)'
  BY <1>1, <1>2, LqOneMoves
<1>4. /\ Cardinality(LqSpread(LqRests, s)) \in Nat /\ LqN(LqRest(p), s) \in Nat
      /\ LqN(lqMain.lines, s) \in Nat /\ lqApplied[s] \in Nat
      /\ \A q \in LqProcs : LqN(lqProc[q].file, s) \in Nat
  BY <1>1, LqCopyTypes
<1>5. LqN(lqMain.lines, s)' \in Nat /\ lqApplied'[s] \in Nat /\ LqN(LqRest(p), s)' \in Nat
  <2>1. lqMain'.lines \in Seq(LqEntry) /\ lqApplied'[s] \in Nat /\ LqRest(p)' \in Seq(LqEntry)
    BY LqRestsNext DEF LqTypes
  <2> QED
    BY <2>1, LqAtFinite
<1>6. \/ LqTotal(s)' <= LqTotal(s)
      \/ LqFresh(s) /\ ~LqFresh(s)' /\ LqTotal(s)' <= LqTotal(s) + 1
  BY <1>3, <1>4, <1>5 DEF LqTotal
<1>7. ASSUME NEW q \in LqProcs \ {p} PROVE LqN(lqProc[q].file, s)' <= LqN(lqProc[q].file, s)
  <2>1. LqN(lqProc[q].file, s)' = LqN(lqProc[q].file, s)
    BY DEF LqSame
  <2> QED
    BY <1>4, <2>1
<1>8. \A q \in LqProcs :
        \/ \E r \in LqProcs : LqN(lqProc[q].file, s)' <= LqN(lqProc[r].file, s)
        \/ LqN(lqProc[q].file, s)' <= LqTotal(s)
  BY <1>7
<1> QED
  BY <1>3, <1>6, <1>8, LqBoundKept

\* A step that is run is applied at most once, and appended by one process.
LEMMA LqRunCopies ==
  ASSUME LqCopyInv, LqTypes, LqTypes', NEW p \in LqProcs, NEW s \in LqSteps, LqRun(p, s)
  PROVE  LqCopyInv'
<1>0. /\ s \in lqNew /\ lqProc[p].pc = "idle" /\ lqNew' = lqNew \ {s} /\ lqCrashes' = lqCrashes
      /\ lqCrashes \in Nat /\ LqHandled /\ \A t \in LqSteps : LqBound(t)
  BY DEF LqRun, LqCopyInv
<1>1. /\ lqMain.lines \in Seq(LqEntry) /\ LqRest(p) = <<>>
      /\ \A t \in LqSteps : LqN(lqMain.lines, t) \in Nat /\ lqApplied[t] \in Nat
      /\ \A t \in LqSteps : LqN(lqProc[p].file, t) \in Nat
  BY <1>0, LqCopyTypes DEF LqRest, LqTypes
<1>2. \A t : LqN(LqRest(p), t) = 0
  BY <1>1, LqNEmpty
<1>3. CASE lqApplied' = [lqApplied EXCEPT ![s] = @ + 1] /\ UNCHANGED <<lqMain, lqProc, lqFails, lqGone>>
  <2>1. LqHandled' /\ \A t : LqFresh(t)' => LqFresh(t)
    BY <1>0, <1>3, LqHandledKept
  <2>2. LqFresh(s) /\ ~LqFresh(s)'
    BY <1>0, <1>3 DEF LqFresh, LqHandled
  <2>3. \A q \in LqProcs : LqSame(q)
    BY <1>3 DEF LqSame
  <2>4. /\ lqApplied'[s] = lqApplied[s] + 1 /\ \A t \in LqSteps \ {s} : lqApplied'[t] = lqApplied[t]
    BY <1>3 DEF LqTypes
  <2>5. ASSUME NEW t \in LqSteps PROVE LqBound(t)'
    <3>1. /\ LqN(lqMain.lines, t)' = LqN(lqMain.lines, t) /\ LqN(LqRest(p), t)' = LqN(LqRest(p), t)
          /\ LqN(lqProc[p].file, t)' = LqN(lqProc[p].file, t)
      BY <1>3 DEF LqRest
    <3>2. LqN(lqProc[p].file, t)' <= LqN(lqProc[p].file, t)
      BY <1>1, <3>1
    <3>3. LET before == lqApplied[t] + LqN(lqMain.lines, t) + LqN(LqRest(p), t)
              after  == lqApplied'[t] + LqN(lqMain.lines, t)' + LqN(LqRest(p), t)'
          IN  after <= before \/ (t = s /\ after <= before + 1)
      <4>1. LqN(lqMain.lines, t) \in Nat /\ lqApplied[t] \in Nat /\ LqN(LqRest(p), t) = 0
        BY <1>1, <1>2
      <4>2. lqApplied'[t] = lqApplied[t] \/ (t = s /\ lqApplied'[t] = lqApplied[t] + 1)
        BY <2>4
      <4> QED
        BY <3>1, <4>1, <4>2
    <3>4. LET before == lqApplied[t] + LqN(lqMain.lines, t) + LqN(LqRest(p), t)
              after  == lqApplied'[t] + LqN(lqMain.lines, t)' + LqN(LqRest(p), t)'
          IN  after <= before \/ (LqFresh(t) /\ ~LqFresh(t)' /\ after <= before + 1)
      <4>1. CASE t = s
        <5>1. LqFresh(t) /\ ~LqFresh(t)'
          BY <2>2, <4>1
        <5> QED
          BY <3>3, <5>1
      <4>2. CASE t # s
        BY <3>3, <4>2
      <4> QED
        BY <4>1, <4>2
    <3> QED
      BY <1>0, <2>1, <2>3, <3>2, <3>4, LqOneStep
  <2> QED
    BY <1>0, <2>1, <2>5 DEF LqCopyInv
<1>4. CASE /\ LqSet(p, [LqIdle EXCEPT !.pc = "opened", !.handle = s, !.at = LqNone])
           /\ lqMain' = [lqMain EXCEPT !.there = TRUE]
           /\ UNCHANGED <<lqApplied, lqGone>>
  <2>x. PICK x : x = [LqIdle EXCEPT !.pc = "opened", !.handle = s, !.at = LqNone]
    OBVIOUS
  <2>1. x.pc = "opened" /\ x.handle = s /\ x.file = <<>>
    BY <2>x DEF LqIdle
  <2>2. lqProc' = [lqProc EXCEPT ![p] = x] /\ lqMain'.lines = lqMain.lines /\ lqApplied' = lqApplied
    BY <1>4, <2>x DEF LqSet, LqTypes
  <2>3. lqProc'[p] = x /\ \A q \in LqProcs \ {p} : lqProc'[q] = lqProc[q]
    BY <2>2 DEF LqTypes
  <2>4. \A q \in LqProcs \ {p} : LqSame(q)
    BY <2>3 DEF LqSame
  <2>5. LqHandled'
    BY <1>0, <2>1, <2>3 DEF LqHandled
  <2>6. \A t : LqFresh(t)' => LqFresh(t)
    BY <1>0, <2>1, <2>3 DEF LqFresh
  <2>7. LqRest(p)' = <<>>
    BY <2>1, <2>3 DEF LqRest
  <2>8. ASSUME NEW t \in LqSteps PROVE LqBound(t)'
    <3>1. LqN(lqMain.lines, t)' = LqN(lqMain.lines, t)
      BY <2>2
    <3>2. LqN(LqRest(p), t)' = 0 /\ LqN(lqProc[p].file, t)' = 0
      BY <2>1, <2>3, <2>7, LqNEmpty
    <3>3. LqN(lqProc[p].file, t)' <= LqN(lqProc[p].file, t)
      BY <1>1, <3>2
    <3>4. LET before == lqApplied[t] + LqN(lqMain.lines, t) + LqN(LqRest(p), t)
              after  == lqApplied'[t] + LqN(lqMain.lines, t)' + LqN(LqRest(p), t)'
          IN  after <= before
      BY <1>1, <1>2, <2>2, <3>1, <3>2
    <3> QED
      BY <1>0, <2>4, <2>6, <3>3, <3>4, LqOneStep
  <2> QED
    BY <1>0, <2>5, <2>8 DEF LqCopyInv
<1>5. CASE UNCHANGED <<lqMain, lqProc, lqApplied>>
  <2>1. LqHandled' /\ \A t : LqFresh(t)' => LqFresh(t)
    BY <1>0, <1>5, LqHandledKept
  <2>2. \A q \in LqProcs : LqSame(q)
    BY <1>5 DEF LqSame
  <2>3. ASSUME NEW t \in LqSteps PROVE LqBound(t)'
    <3>1. /\ LqN(lqMain.lines, t)' = LqN(lqMain.lines, t) /\ LqN(LqRest(p), t)' = LqN(LqRest(p), t)
          /\ LqN(lqProc[p].file, t)' = LqN(lqProc[p].file, t)
      BY <1>5 DEF LqRest
    <3>2. LqN(lqProc[p].file, t)' <= LqN(lqProc[p].file, t)
      BY <1>1, <3>1
    <3>3. LET before == lqApplied[t] + LqN(lqMain.lines, t) + LqN(LqRest(p), t)
              after  == lqApplied'[t] + LqN(lqMain.lines, t)' + LqN(LqRest(p), t)'
          IN  after <= before
      BY <1>1, <1>2, <1>5, <3>1
    <3> QED
      BY <1>0, <2>1, <2>2, <3>2, <3>3, LqOneStep
  <2> QED
    BY <1>0, <2>1, <2>3 DEF LqCopyInv
<1> QED
  BY <1>3, <1>4, <1>5 DEF LqRun

\* The step that is written was at its writer only.
LEMMA LqWriteCopies ==
  ASSUME LqCopyInv, LqTypes, LqTypes', NEW p \in LqProcs, LqWrite(p), LqGoodProc(p)
  PROVE  LqCopyInv'
<1>h. PICK h : h = lqProc[p].handle
  OBVIOUS
<1>e. PICK e : e = [step |-> h, attempts |-> 0]
  OBVIOUS
<1>0. /\ lqProc[p].pc = "opened" /\ UNCHANGED <<lqNew, lqApplied>> /\ lqCrashes' = lqCrashes
      /\ lqCrashes \in Nat /\ LqHandled /\ \A t \in LqSteps : LqBound(t)
      /\ lqProc \in [LqProcs -> LqHolds]
  BY DEF LqWrite, LqCopyInv, LqTypes
<1>1. h \in LqSteps /\ e \in LqEntry /\ e.step = h
  BY <1>h, <1>e, <1>0, LqEntryFirst DEF LqGoodProc
<1>2. /\ LqRest(p) = <<>> /\ lqMain.lines \in Seq(LqEntry)
      /\ \A t \in LqSteps : LqN(lqMain.lines, t) \in Nat /\ lqApplied[t] \in Nat
      /\ \A t \in LqSteps, q \in LqProcs : LqN(lqProc[q].file, t) \in Nat /\ LqN(LqRest(q), t) \in Nat
  BY <1>0, LqCopyTypes DEF LqRest, LqTypes
<1>3. LqIdle.pc = "idle" /\ LqIdle.file = <<>>
  BY DEF LqIdle
<1>4. ASSUME lqProc'[p] = LqIdle,
             \A q \in LqProcs \ {p} : lqProc'[q].pc = lqProc[q].pc /\ lqProc'[q].handle = lqProc[q].handle
      PROVE  LqHandled' /\ (\A t : LqFresh(t)' => LqFresh(t)) /\ LqFresh(h) /\ ~LqFresh(h)'
  <2>1. \A q \in LqProcs : lqProc'[q].pc = "opened" =>
           lqProc[q].pc = "opened" /\ lqProc'[q].handle = lqProc[q].handle
    BY <1>3, <1>4
  <2>2. lqProc[p].pc = "opened" /\ lqProc'[p].pc # "opened" /\ lqProc[p].handle = h /\ lqNew' \subseteq lqNew
    BY <1>h, <1>0, <1>3, <1>4
  <2> QED
    BY <1>0, <2>1, <2>2, LqHandledKept
<1>5. ASSUME LqSet(p, LqIdle)
      PROVE  /\ lqProc'[p] = LqIdle /\ (\A q \in LqProcs \ {p} : LqSame(q))
             /\ LqHandled' /\ (\A t : LqFresh(t)' => LqFresh(t)) /\ LqFresh(h) /\ ~LqFresh(h)'
             /\ LqRest(p)' = <<>>
             /\ \A t \in LqSteps : LqN(LqRest(p), t)' = 0 /\ LqN(lqProc[p].file, t)' <= LqN(lqProc[p].file, t)
  <2>1. lqProc'[p] = LqIdle /\ \A q \in LqProcs \ {p} : LqSame(q)
    BY <1>0, <1>5 DEF LqSet, LqSame
  <2>2. LqRest(p)' = <<>> /\ lqProc'[p].file = <<>>
    BY <1>3, <2>1 DEF LqRest
  <2>3. ASSUME NEW t \in LqSteps
        PROVE  LqN(LqRest(p), t)' = 0 /\ LqN(lqProc[p].file, t)' <= LqN(lqProc[p].file, t)
    <3>1. LqN(LqRest(p), t)' = 0 /\ LqN(lqProc[p].file, t)' = 0
      BY <2>2, LqNEmpty
    <3> QED
      BY <1>2, <3>1
  <2> QED
    BY <1>4, <2>1, <2>2, <2>3 DEF LqSame
<1>6. CASE lqMain' = LqAppended(lqMain, e) /\ LqSet(p, LqIdle)
  <2>1. lqMain'.lines = Append(lqMain.lines, e)
    BY <1>6 DEF LqAppended
  <2>2. ASSUME NEW t \in LqSteps PROVE LqBound(t)'
    <3>1. LqN(lqMain.lines, t)' = LqN(lqMain.lines, t) + (IF h = t THEN 1 ELSE 0)
      BY <1>1, <1>2, <2>1, LqNAppend
    <3>2. LqN(LqRest(p), t) = 0 /\ LqN(LqRest(p), t)' = 0
      BY <1>2, <1>5, <1>6, LqNEmpty
    <3>3. LET before == lqApplied[t] + LqN(lqMain.lines, t) + LqN(LqRest(p), t)
              after  == lqApplied'[t] + LqN(lqMain.lines, t)' + LqN(LqRest(p), t)'
          IN  after <= before \/ (LqFresh(t) /\ ~LqFresh(t)' /\ after <= before + 1)
      BY <1>0, <1>2, <1>5, <1>6, <3>1, <3>2
    <3> QED
      BY <1>0, <1>5, <1>6, <3>3, LqOneStep
  <2> QED
    BY <1>0, <1>5, <1>6, <2>2 DEF LqCopyInv
<1>7. CASE LqSet(p, LqIdle) /\ UNCHANGED lqMain
  <2>2. ASSUME NEW t \in LqSteps PROVE LqBound(t)'
    <3>2. /\ LqN(LqRest(p), t) = 0 /\ LqN(LqRest(p), t)' = 0
          /\ LqN(lqMain.lines, t)' = LqN(lqMain.lines, t)
      BY <1>2, <1>5, <1>7, LqNEmpty
    <3>3. LET before == lqApplied[t] + LqN(lqMain.lines, t) + LqN(LqRest(p), t)
              after  == lqApplied'[t] + LqN(lqMain.lines, t)' + LqN(LqRest(p), t)'
          IN  after <= before
      BY <1>0, <1>2, <1>5, <1>7, <3>2
    <3> QED
      BY <1>0, <1>5, <1>7, <3>3, LqOneStep
  <2> QED
    BY <1>0, <1>5, <1>7, <2>2 DEF LqCopyInv
<1>8. CASE /\ LqUnread(lqProc[p].at) \/ LqReplayed(lqProc[p].at)
           /\ lqProc' = [lqProc EXCEPT ![p] = LqIdle, ![lqProc[p].at].file = Append(@, e)]
           /\ UNCHANGED lqMain
  <2>a. PICK a : a = lqProc[p].at
    OBVIOUS
  <2>1. a \in LqProcs /\ lqProc[a].pc \in {"claimed", "dead", "replay"} /\ a # p
    BY <1>0, <1>8, <2>a DEF LqUnread, LqReplayed
  <2>2. lqProc[a] \in LqHolds /\ lqProc[a].file \in Seq(LqEntry)
    BY <1>0, <2>1 DEF LqHolds
  <2>f. PICK f : f = Append(lqProc[a].file, e)
    OBVIOUS
  <2>x. PICK x : x = [lqProc[a] EXCEPT !.file = f]
    OBVIOUS
  <2>3. /\ x.pc = lqProc[a].pc /\ x.handle = lqProc[a].handle /\ x.file = f /\ x.todo = lqProc[a].todo
    BY <2>2, <2>x DEF LqHolds
  <2>4. lqProc' = [lqProc EXCEPT ![p] = LqIdle, ![a] = x]
    BY <1>0, <1>8, <2>a, <2>f, <2>x, <2>1
  <2>5. lqProc'[p] = LqIdle /\ lqProc'[a] = x /\ \A q \in LqProcs \ {p, a} : lqProc'[q] = lqProc[q]
    BY <1>0, <2>1, <2>4
  <2>6. LqHandled' /\ (\A t : LqFresh(t)' => LqFresh(t)) /\ LqFresh(h) /\ ~LqFresh(h)'
    BY <1>4, <2>3, <2>5
  <2>7. /\ LqRest(p)' = <<>> /\ \A q \in LqProcs \ {p, a} : LqRest(q)' = LqRest(q)
    BY <1>3, <2>5 DEF LqRest
  <2>8. LqRest(a)' = LqRest(a) \/ (LqRest(a) = lqProc[a].file /\ LqRest(a)' = f)
    BY <2>1, <2>3, <2>5 DEF LqRest
  <2>9. ASSUME NEW t \in LqSteps PROVE LqBound(t)'
    <3>1. LqN(f, t) = LqN(lqProc[a].file, t) + (IF h = t THEN 1 ELSE 0) /\ LqN(lqProc[a].file, t) \in Nat
      BY <1>1, <1>2, <2>f, <2>1, <2>2, LqNAppend
    <3>2. LqBound(t) /\ IsFiniteSet(LqSpread(LqRests, t))
      BY <1>0 DEF LqBound
    <3>3. /\ IsFiniteSet(LqSpread(LqRests, t))' /\ Cardinality(LqSpread(LqRests, t))' \in Nat
          /\ Cardinality(LqSpread(LqRests, t))' + LqN(LqRest(p), t) + LqN(LqRest(a), t)
               = Cardinality(LqSpread(LqRests, t)) + LqN(LqRest(p), t)' + LqN(LqRest(a), t)'
      BY <2>1, <2>7, <3>2, LqTwoMove
    <3>4. LqN(LqRest(p), t) = 0 /\ LqN(LqRest(p), t)' = 0 /\ LqN(LqRest(a), t) \in Nat
      BY <1>2, <2>1, <2>7, LqNEmpty
    <3>5. \/ LqN(LqRest(a), t)' = LqN(LqRest(a), t)
          \/ LqN(LqRest(a), t)' = LqN(LqRest(a), t) + (IF h = t THEN 1 ELSE 0)
      BY <2>8, <3>1
    <3>6. /\ LqN(lqMain.lines, t)' = LqN(lqMain.lines, t) /\ lqApplied'[t] = lqApplied[t]
          /\ LqN(lqMain.lines, t) \in Nat /\ lqApplied[t] \in Nat /\ Cardinality(LqSpread(LqRests, t)) \in Nat
      BY <1>0, <1>2, <1>8, <3>2, LqCopyTypes
    <3>7. \/ LqTotal(t)' <= LqTotal(t)
          \/ LqFresh(t) /\ ~LqFresh(t)' /\ LqTotal(t)' <= LqTotal(t) + 1
      <4>1. CASE h = t
        <5>1. LqFresh(t) /\ ~LqFresh(t)'
          BY <2>6, <4>1
        <5>2. LqTotal(t)' <= LqTotal(t) + 1
          BY <3>3, <3>4, <3>5, <3>6 DEF LqTotal
        <5> QED
          BY <5>1, <5>2
      <4>2. CASE h # t
        <5>1. LqN(LqRest(a), t)' = LqN(LqRest(a), t)
          BY <3>4, <3>5, <4>2
        <5> QED
          BY <3>3, <3>4, <3>6, <5>1 DEF LqTotal
      <4> QED
        BY <4>1, <4>2
    <3>8. ASSUME NEW q \in LqProcs
          PROVE  \/ \E r \in LqProcs : LqN(lqProc[q].file, t)' <= LqN(lqProc[r].file, t)
                 \/ LqN(lqProc[q].file, t)' <= LqTotal(t)
                 \/ LqFresh(t) /\ ~LqFresh(t)' /\ LqN(lqProc[q].file, t)' <= LqN(lqProc[q].file, t) + 1
      <4>1. CASE q = a
        <5>1. LqN(lqProc[a].file, t)' = LqN(f, t)
          BY <2>3, <2>5
        <5>2. CASE h = t
          <6>1. LqFresh(t) /\ ~LqFresh(t)' /\ LqN(f, t) <= LqN(lqProc[a].file, t) + 1
            BY <2>6, <3>1, <5>2
          <6> QED
            BY <4>1, <5>1, <6>1
        <5>3. CASE h # t
          <6>1. LqN(f, t) <= LqN(lqProc[a].file, t)
            BY <3>1, <5>3
          <6> QED
            BY <2>1, <4>1, <5>1, <6>1
        <5> QED
          BY <5>2, <5>3
      <4>2. CASE q = p
        <5>1. LqN(lqProc[p].file, t)' = 0 /\ LqN(lqProc[p].file, t) \in Nat
          BY <1>2, <1>3, <2>5, LqNEmpty
        <5> QED
          BY <4>2, <5>1
      <4>3. CASE q \notin {p, a}
        <5>1. LqN(lqProc[q].file, t)' = LqN(lqProc[q].file, t) /\ LqN(lqProc[q].file, t) \in Nat
          BY <1>2, <2>5, <4>3
        <5> QED
          BY <5>1
      <4> QED
        BY <4>1, <4>2, <4>3
    <3> QED
      BY <1>0, <2>6, <3>2, <3>3, <3>7, <3>8, LqBoundKept
  <2> QED
    BY <1>0, <2>6, <2>9 DEF LqCopyInv
<1> QED
  BY <1>h, <1>e, <1>6, <1>7, <1>8 DEF LqWrite

\* A file that is claimed is nowhere else.
LEMMA LqClaimCopies ==
  ASSUME LqCopyInv, LqTypes, LqTypes', NEW p \in LqProcs, LqClaim(p)
  PROVE  LqCopyInv'
<1>0. /\ lqProc[p].pc = "idle" /\ UNCHANGED <<lqNew, lqApplied>> /\ lqCrashes' = lqCrashes
      /\ lqCrashes \in Nat /\ LqHandled /\ (\A t \in LqSteps : LqBound(t))
      /\ lqProc \in [LqProcs -> LqHolds]
  <2>1. /\ lqProc[p].pc = "idle" /\ UNCHANGED <<lqNew, lqApplied>> /\ lqCrashes' = lqCrashes
    BY Zenon DEF LqClaim
  <2> QED
    BY <2>1 DEF LqCopyInv, LqTypes
<1>1. /\ LqRest(p) = <<>> /\ lqMain.lines \in Seq(LqEntry)
      /\ \A t \in LqSteps : LqN(lqMain.lines, t) \in Nat /\ lqApplied[t] \in Nat
      /\ \A t \in LqSteps, q \in LqProcs : LqN(lqProc[q].file, t) \in Nat /\ LqN(LqRest(q), t) \in Nat
  BY <1>0, LqCopyTypes DEF LqRest, LqTypes
<1>2. \A t : LqN(LqRest(p), t) = 0
  BY <1>1, LqNEmpty
<1>3. CASE /\ lqProc' = [LqMoved(LqNone, p) EXCEPT ![p] = [LqIdle EXCEPT !.pc = "claimed",
                                                           !.file = lqMain.lines]]
           /\ lqMain' = LqNoFile
  <2>x. PICK x : x = [LqIdle EXCEPT !.pc = "claimed", !.file = lqMain.lines]
    OBVIOUS
  <2>m. PICK m : m = LqMoved(LqNone, p)
    OBVIOUS
  <2>1. x.pc = "claimed" /\ x.file = lqMain.lines
    BY <2>x DEF LqIdle
  <2>2. /\ m \in [LqProcs -> LqHolds]
        /\ \A q \in LqProcs : /\ m[q].pc = lqProc[q].pc /\ m[q].handle = lqProc[q].handle
                              /\ m[q].file = lqProc[q].file /\ m[q].todo = lqProc[q].todo
    BY <1>0, <2>m, LqMovedHolds
  <2>3. lqProc' = [m EXCEPT ![p] = x]
    BY <1>3, <2>x, <2>m
  <2>4. lqProc'[p] = x /\ \A q \in LqProcs \ {p} : LqSame(q)
    BY <2>2, <2>3 DEF LqSame
  <2>5. LqHandled' /\ \A t : LqFresh(t)' => LqFresh(t)
    <3>1. \A q \in LqProcs : lqProc'[q].pc = "opened" =>
            lqProc[q].pc = "opened" /\ lqProc'[q].handle = lqProc[q].handle
      BY <2>1, <2>4 DEF LqSame
    <3> QED
      BY <1>0, <3>1, LqHandledKept
  <2>6. LqRest(p)' = lqMain.lines /\ lqMain'.lines = <<>> /\ lqProc'[p].file = lqMain.lines
    BY <1>3, <2>1, <2>4 DEF LqRest, LqNoFile
  <2>7. ASSUME NEW t \in LqSteps PROVE LqBound(t)'
    <3>1. /\ LqN(LqRest(p), t)' = LqN(lqMain.lines, t) /\ LqN(lqMain.lines, t)' = 0
          /\ LqN(lqProc[p].file, t)' = LqN(lqMain.lines, t)
      BY <2>6, LqNEmpty
    <3>2. LET before == lqApplied[t] + LqN(lqMain.lines, t) + LqN(LqRest(p), t)
              after  == lqApplied'[t] + LqN(lqMain.lines, t)' + LqN(LqRest(p), t)'
          IN  after <= before
      BY <1>0, <1>1, <1>2, <3>1
    <3>3. LqN(lqProc[p].file, t)' <= LqTotal(t)
      <4>1. Cardinality(LqSpread(LqRests, t)) \in Nat
        BY <1>0, LqCopyTypes DEF LqBound
      <4> QED
        BY <1>1, <3>1, <4>1 DEF LqTotal
    <3> QED
      BY <1>0, <2>4, <2>5, <3>2, <3>3, LqOneStep
  <2> QED
    BY <1>0, <2>5, <2>7 DEF LqCopyInv
<1>4. ASSUME NEW a \in LqProcs, lqProc[a].pc = "dead", UNCHANGED lqMain,
             lqProc' = [LqMoved(a, p) EXCEPT ![p] = [LqIdle EXCEPT !.pc = "claimed",
                                                       !.file = lqProc[a].file],
                                             ![a] = [LqIdle EXCEPT !.pc = "dead"]]
      PROVE  LqCopyInv'
  <2>x. PICK x : x = [LqIdle EXCEPT !.pc = "claimed", !.file = lqProc[a].file]
    OBVIOUS
  <2>y. PICK y : y = [LqIdle EXCEPT !.pc = "dead"]
    OBVIOUS
  <2>m. PICK m : m = LqMoved(a, p)
    OBVIOUS
  <2>1. /\ x.pc = "claimed" /\ x.file = lqProc[a].file /\ y.pc = "dead" /\ y.file = <<>> /\ p # a
    BY <1>0, <1>4, <2>x, <2>y DEF LqIdle
  <2>2. /\ m \in [LqProcs -> LqHolds]
        /\ \A q \in LqProcs : /\ m[q].pc = lqProc[q].pc /\ m[q].handle = lqProc[q].handle
                              /\ m[q].file = lqProc[q].file /\ m[q].todo = lqProc[q].todo
    BY <1>0, <2>m, LqMovedHolds
  <2>3. lqProc' = [m EXCEPT ![p] = x, ![a] = y]
    BY <1>4, <2>x, <2>y, <2>m
  <2>4. lqProc'[p] = x /\ lqProc'[a] = y /\ \A q \in LqProcs \ {p, a} : LqSame(q)
    BY <2>1, <2>2, <2>3 DEF LqSame
  <2>5. LqHandled' /\ \A t : LqFresh(t)' => LqFresh(t)
    <3>1. \A q \in LqProcs : lqProc'[q].pc = "opened" =>
            lqProc[q].pc = "opened" /\ lqProc'[q].handle = lqProc[q].handle
      BY <2>1, <2>4 DEF LqSame
    <3> QED
      BY <1>0, <3>1, LqHandledKept
  <2>6. LqRest(p)' = lqProc[a].file /\ LqRest(a) = lqProc[a].file /\ LqRest(a)' = <<>>
    BY <1>4, <2>1, <2>4 DEF LqRest
  <2>7. \A q \in LqProcs \ {p, a} : LqRest(q)' = LqRest(q)
    BY <2>4, LqSameRest
  <2>8. ASSUME NEW t \in LqSteps PROVE LqBound(t)'
    <3>1. /\ LqN(LqRest(p), t)' = LqN(LqRest(a), t) /\ LqN(LqRest(a), t)' = 0
          /\ LqN(LqRest(p), t) = 0 /\ LqN(LqRest(a), t) \in Nat
      BY <1>1, <1>2, <1>4, <2>6, LqNEmpty
    <3>2. LqBound(t) /\ IsFiniteSet(LqSpread(LqRests, t)) /\ Cardinality(LqSpread(LqRests, t)) \in Nat
      BY <1>0, LqCopyTypes DEF LqBound
    <3>3. /\ IsFiniteSet(LqSpread(LqRests, t))' /\ Cardinality(LqSpread(LqRests, t))' \in Nat
          /\ Cardinality(LqSpread(LqRests, t))' + LqN(LqRest(p), t) + LqN(LqRest(a), t)
               = Cardinality(LqSpread(LqRests, t)) + LqN(LqRest(p), t)' + LqN(LqRest(a), t)'
      BY <1>4, <2>1, <2>7, <3>2, LqTwoMove
    <3>4. LqN(lqMain.lines, t)' = LqN(lqMain.lines, t) /\ lqApplied'[t] = lqApplied[t]
      BY <1>0, <1>4
    <3>5. LqTotal(t)' <= LqTotal(t)
      <4>1. Cardinality(LqSpread(LqRests, t))' = Cardinality(LqSpread(LqRests, t))
        BY <3>1, <3>2, <3>3
      <4>2. LqTotal(t)' = LqTotal(t) /\ LqTotal(t) \in Nat
        BY <3>2, <3>4, <4>1, LqCopyTypes DEF LqTotal
      <4> QED
        BY <4>2
    <3>6. ASSUME NEW q \in LqProcs
          PROVE  \E r \in LqProcs : LqN(lqProc[q].file, t)' <= LqN(lqProc[r].file, t)
      <4>1. CASE q = p
        <5>1. LqN(lqProc[p].file, t)' = LqN(lqProc[a].file, t) /\ LqN(lqProc[a].file, t) \in Nat
          BY <1>1, <1>4, <2>1, <2>4
        <5> QED
          BY <1>4, <4>1, <5>1
      <4>2. CASE q = a
        <5>1. LqN(lqProc[a].file, t)' = 0 /\ LqN(lqProc[a].file, t) \in Nat
          BY <1>1, <1>4, <2>1, <2>4, LqNEmpty
        <5> QED
          BY <1>4, <4>2, <5>1
      <4>3. CASE q \notin {p, a}
        <5>1. LqN(lqProc[q].file, t)' = LqN(lqProc[q].file, t) /\ LqN(lqProc[q].file, t) \in Nat
          BY <1>1, <2>4, <4>3 DEF LqSame
        <5> QED
          BY <5>1
      <4> QED
        BY <4>1, <4>2, <4>3
    <3> QED
      BY <1>0, <2>5, <3>2, <3>3, <3>5, <3>6, LqBoundKept
  <2> QED
    BY <1>0, <2>5, <2>8 DEF LqCopyInv
<1> QED
  BY <1>3, <1>4, Zenon DEF LqClaim

\* A drain that reads its file has all of its lines still to replay; one that unlinks it has none.
LEMMA LqReadCopies ==
  ASSUME LqCopyInv, LqTypes, LqTypes', NEW p \in LqProcs, LqRead(p) \/ LqUnlink(p)
  PROVE  LqCopyInv'
<1>0. /\ UNCHANGED <<lqNew, lqMain, lqApplied>> /\ lqCrashes' = lqCrashes
      /\ lqCrashes \in Nat /\ LqHandled /\ (\A t \in LqSteps : LqBound(t))
      /\ lqProc \in [LqProcs -> LqHolds]
  BY DEF LqRead, LqUnlink, LqCopyInv, LqTypes
<1>1. \A t \in LqSteps : /\ LqN(lqMain.lines, t) \in Nat /\ lqApplied[t] \in Nat
                         /\ LqN(lqProc[p].file, t) \in Nat /\ LqN(LqRest(p), t) \in Nat
  BY LqCopyTypes
<1>2. ASSUME lqProc'[p].pc # "opened", \A q \in LqProcs \ {p} : LqSame(q), LqRest(p)' = LqRest(p),
             lqProc'[p].file \in {lqProc[p].file, <<>>}
      PROVE  LqCopyInv'
  <2>1. LqHandled' /\ \A t : LqFresh(t)' => LqFresh(t)
    <3>1. \A q \in LqProcs : lqProc'[q].pc = "opened" =>
            lqProc[q].pc = "opened" /\ lqProc'[q].handle = lqProc[q].handle
      BY <1>2 DEF LqSame
    <3> QED
      BY <1>0, <3>1, LqHandledKept
  <2>2. ASSUME NEW t \in LqSteps PROVE LqBound(t)'
    <3>1. LqN(LqRest(p), t)' = LqN(LqRest(p), t) /\ LqN(lqMain.lines, t)' = LqN(lqMain.lines, t)
      BY <1>0, <1>2
    <3>2. LqN(lqProc[p].file, t)' <= LqN(lqProc[p].file, t)
      <4>1. LqN(lqProc[p].file, t)' \in {LqN(lqProc[p].file, t), 0}
        BY <1>2, LqNEmpty
      <4> QED
        BY <1>1, <4>1
    <3>3. LET before == lqApplied[t] + LqN(lqMain.lines, t) + LqN(LqRest(p), t)
              after  == lqApplied'[t] + LqN(lqMain.lines, t)' + LqN(LqRest(p), t)'
          IN  after <= before
      BY <1>0, <1>1, <3>1
    <3> QED
      BY <1>0, <1>2, <2>1, <3>2, <3>3, LqOneStep
  <2> QED
    BY <1>0, <2>1, <2>2 DEF LqCopyInv
<1>3. CASE LqRead(p)
  <2>x. PICK x : x = [lqProc[p] EXCEPT !.pc = "replay", !.todo = lqProc[p].file]
    OBVIOUS
  <2>1. lqProc' = [lqProc EXCEPT ![p] = x] /\ lqProc[p].pc = "claimed"
    BY <1>3, <2>x DEF LqRead, LqSet
  <2>2. x.pc = "replay" /\ x.todo = lqProc[p].file /\ x.file = lqProc[p].file
    BY <1>0, <2>x DEF LqHolds
  <2>3. lqProc'[p] = x /\ \A k \in LqProcs \ {p} : LqSame(k)
    BY <1>0, <2>1 DEF LqSame
  <2>4. LqRest(p)' = LqRest(p)
    BY <2>1, <2>2, <2>3 DEF LqRest
  <2> QED
    BY <1>2, <2>2, <2>3, <2>4
<1>4. CASE LqUnlink(p)
  <2>m. PICK m : m = LqMoved(p, LqLost)
    OBVIOUS
  <2>1. lqProc' = [m EXCEPT ![p] = LqIdle] /\ lqProc[p].pc = "replay" /\ lqProc[p].todo = <<>>
    BY <1>4, <2>m DEF LqUnlink
  <2>2. /\ m \in [LqProcs -> LqHolds]
        /\ \A k \in LqProcs : /\ m[k].pc = lqProc[k].pc /\ m[k].handle = lqProc[k].handle
                              /\ m[k].file = lqProc[k].file /\ m[k].todo = lqProc[k].todo
    BY <1>0, <2>m, LqMovedHolds
  <2>3. lqProc'[p] = LqIdle /\ \A k \in LqProcs \ {p} : LqSame(k)
    BY <2>1, <2>2 DEF LqSame
  <2>4. LqIdle.pc = "idle" /\ LqIdle.file = <<>>
    BY DEF LqIdle
  <2>5. LqRest(p)' = LqRest(p)
    BY <2>1, <2>3, <2>4 DEF LqRest
  <2> QED
    BY <1>2, <2>3, <2>4, <2>5
<1> QED
  BY <1>3, <1>4

\* The death of a drain brings back the lines of the file it was replaying: no more than there
\* were applications to bound.
LEMMA LqCrashCopies ==
  ASSUME LqCopyInv, LqTypes, LqTypes', NEW p \in LqProcs, LqCrash(p)
  PROVE  LqCopyInv'
<1>0. /\ UNCHANGED <<lqNew, lqMain, lqApplied>> /\ lqCrashes' = lqCrashes + 1
      /\ lqCrashes \in Nat /\ lqCrashes + 1 <= LqMaxCrashes
      /\ LqHandled /\ (\A t \in LqSteps : LqBound(t)) /\ lqProc \in [LqProcs -> LqHolds]
  BY LqAssumption DEF LqCrash, LqCopyInv, LqTypes
<1>f. PICK f : f = IF lqProc[p].pc \in {"claimed", "replay"} THEN lqProc[p].file ELSE <<>>
  OBVIOUS
<1>a. PICK a : a = IF lqProc[p].pc \in {"claimed", "replay"} THEN p ELSE LqNone
  OBVIOUS
<1>x. PICK x : x = [LqIdle EXCEPT !.pc = "dead", !.file = f, !.at = a]
  OBVIOUS
<1>1. lqProc' = [lqProc EXCEPT ![p] = x]
  BY <1>f, <1>a, <1>x DEF LqCrash, LqSet
<1>2. x.pc = "dead" /\ x.file = f
  BY <1>x DEF LqIdle
<1>3. lqProc'[p] = x /\ \A k \in LqProcs \ {p} : LqSame(k)
  BY <1>0, <1>1 DEF LqSame
<1>4. LqRest(p)' = f /\ lqProc'[p].file = f /\ \A q \in LqProcs \ {p} : LqRest(q)' = LqRest(q)
  BY <1>2, <1>3, LqSameRest DEF LqRest
<1>5. LqHandled' /\ \A t : LqFresh(t)' => LqFresh(t)
  <2>1. \A q \in LqProcs : lqProc'[q].pc = "opened" =>
          lqProc[q].pc = "opened" /\ lqProc'[q].handle = lqProc[q].handle
    BY <1>2, <1>3 DEF LqSame
  <2> QED
    BY <1>0, <2>1, LqHandledKept
<1>6. 2^lqCrashes \in Nat /\ 2^(lqCrashes + 1) = 2^lqCrashes + 2^lqCrashes
  BY <1>0, LqDoubles
<1>7. ASSUME NEW t \in LqSteps PROVE LqBound(t)'
  <2>1. /\ LqBound(t) /\ IsFiniteSet(LqSpread(LqRests, t)) /\ Cardinality(LqSpread(LqRests, t)) \in Nat
        /\ LqN(lqMain.lines, t) \in Nat /\ lqApplied[t] \in Nat /\ LqN(LqRest(p), t) \in Nat
        /\ \A q \in LqProcs : LqN(lqProc[q].file, t) \in Nat
    BY <1>0, LqCopyTypes DEF LqBound
  <2>2. /\ LqTotal(t) <= 2^lqCrashes /\ \A q \in LqProcs : LqN(lqProc[q].file, t) <= 2^lqCrashes
    BY <2>1 DEF LqBound
  <2>3. LqN(f, t) \in Nat /\ LqN(f, t) <= LqN(lqProc[p].file, t)
    <3>1. LqN(f, t) \in {LqN(lqProc[p].file, t), 0}
      BY <1>f, LqNEmpty
    <3> QED
      BY <2>1, <3>1
  <2>4. /\ IsFiniteSet(LqSpread(LqRests, t))' /\ Cardinality(LqSpread(LqRests, t))' \in Nat
        /\ Cardinality(LqSpread(LqRests, t))' + LqN(LqRest(p), t)
             = Cardinality(LqSpread(LqRests, t)) + LqN(LqRest(p), t)'
    BY <1>4, <2>1, LqOneMoves
  <2>5. /\ LqN(LqRest(p), t)' = LqN(f, t) /\ LqN(lqMain.lines, t)' = LqN(lqMain.lines, t)
        /\ lqApplied'[t] = lqApplied[t] /\ LqN(lqProc[p].file, t)' = LqN(f, t)
    BY <1>0, <1>4
  <2>6. LqTotal(t)' <= LqTotal(t) + LqN(f, t) /\ LqTotal(t) \in Nat /\ LqTotal(t)' \in Nat
    BY <2>1, <2>3, <2>4, <2>5 DEF LqTotal
  <2>7. LqTotal(t)' <= 2^(lqCrashes + 1)
    BY <1>6, <2>1, <2>2, <2>3, <2>6
  <2>8. ASSUME NEW q \in LqProcs
        PROVE  LqN(lqProc[q].file, t)' <= LqN(lqProc[q].file, t) /\ LqN(lqProc[q].file, t)' \in Nat
    <3>1. CASE q = p
      BY <2>3, <2>5, <3>1
    <3>2. CASE q # p
      <4>1. LqN(lqProc[q].file, t)' = LqN(lqProc[q].file, t)
        BY <1>3, <3>2 DEF LqSame
      <4> QED
        BY <2>1, <4>1
    <3> QED
      BY <3>1, <3>2
  <2>9. \A q \in LqProcs : LqN(lqProc[q].file, t)' <= 2^(lqCrashes + 1)
    BY <1>6, <2>1, <2>2, <2>8
  <2>10. LqFresh(t)' => LqTotal(t)' = 0 /\ \A q \in LqProcs : LqN(lqProc[q].file, t)' = 0
    <3>1. SUFFICES ASSUME LqFresh(t)' PROVE LqTotal(t)' = 0 /\ \A q \in LqProcs : LqN(lqProc[q].file, t)' = 0
      OBVIOUS
    <3>2. LqTotal(t) = 0 /\ \A q \in LqProcs : LqN(lqProc[q].file, t) = 0
      BY <1>5, <2>1, <3>1 DEF LqBound
    <3>3. LqTotal(t)' = 0
      BY <2>3, <2>6, <3>2
    <3> QED
      BY <2>8, <3>2, <3>3
  <2> QED
    BY <1>0, <2>4, <2>7, <2>9, <2>10 DEF LqBound
<1>8. lqCrashes' \in Nat /\ lqCrashes' <= LqMaxCrashes
  BY <1>0
<1> QED
  BY <1>5, <1>7, <1>8 DEF LqCopyInv

\* A line that is put back is one line more of its step in the queue, or none.
LEMMA LqPutBackCounts ==
  ASSUME LqTypes, NEW e, LqPutBack(e), e.attempts \in Nat, e.attempts < LqMaxAttempts => e \in LqEntry,
         NEW t \in LqSteps
  PROVE  /\ LqN(lqMain.lines, t)' \in Nat
         /\ LqN(lqMain.lines, t)' <= LqN(lqMain.lines, t) + (IF e.step = t THEN 1 ELSE 0)
<1>0. lqMain.lines \in Seq(LqEntry) /\ LqN(lqMain.lines, t) \in Nat
  BY LqCopyTypes
<1>1. CASE e.attempts >= LqMaxAttempts
  <2>1. lqMain' = lqMain
    BY <1>1 DEF LqPutBack
  <2>2. LqN(lqMain.lines, t)' = LqN(lqMain.lines, t)
    BY <2>1
  <2> QED
    BY <1>0, <2>2
<1>2. CASE ~(e.attempts >= LqMaxAttempts)
  <2>1. lqMain' = LqAppended(lqMain, e)
    BY <1>2 DEF LqPutBack
  <2>2. e \in LqEntry
    BY <1>2, LqAssumption
  <2>3. lqMain'.lines = Append(lqMain.lines, e)
    BY <2>1 DEF LqAppended
  <2>4. LqN(lqMain.lines, t)' = LqN(lqMain.lines, t) + (IF e.step = t THEN 1 ELSE 0)
    BY <1>0, <2>2, <2>3, LqNAppend
  <2> QED
    BY <1>0, <2>4
<1> QED
  BY <1>1, <1>2

\* A line that is replayed is no longer left to replay: it was applied, or is back in the queue.
LEMMA LqReplayCopies ==
  ASSUME LqCopyInv, LqTypes, LqTypes', NEW p \in LqProcs, LqReplay(p)
  PROVE  LqCopyInv'
<1>e. PICK e : e = Head(lqProc[p].todo)
  OBVIOUS
<1>t. PICK r : r = Tail(lqProc[p].todo)
  OBVIOUS
<1>0. /\ lqProc[p].pc = "replay" /\ lqProc[p].todo # <<>> /\ lqNew' = lqNew /\ lqCrashes' = lqCrashes
      /\ lqCrashes \in Nat /\ LqHandled /\ (\A t \in LqSteps : LqBound(t))
      /\ lqProc \in [LqProcs -> LqHolds] /\ lqProc[p].todo \in Seq(LqEntry) /\ lqProc[p] \in LqHolds
      /\ lqApplied \in [LqSteps -> Nat]
  BY DEF LqReplay, LqCopyInv, LqTypes, LqHolds
<1>1. /\ e \in LqEntry /\ r \in Seq(LqEntry) /\ e.step \in LqSteps /\ e.attempts \in Nat
      /\ LqRest(p) = lqProc[p].todo
  BY <1>e, <1>t, <1>0, LqOfHead, LqEntryFields DEF LqRest
<1>2. ASSUME NEW t \in LqSteps
      PROVE  /\ LqN(lqMain.lines, t) \in Nat /\ lqApplied[t] \in Nat /\ LqN(lqProc[p].file, t) \in Nat
             /\ LqN(r, t) \in Nat /\ LqN(LqRest(p), t) = LqN(r, t) + (IF e.step = t THEN 1 ELSE 0)
  BY <1>e, <1>t, <1>0, <1>1, LqCopyTypes, LqAtFinite, LqNHead
<1>3. ASSUME NEW x, lqProc' = [lqProc EXCEPT ![p] = x], x.pc = "replay", x.todo = r,
             x.file = lqProc[p].file,
             \A t \in LqSteps :
               LET more == IF e.step = t THEN 1 ELSE 0
               IN  /\ LqN(lqMain.lines, t)' \in Nat /\ lqApplied'[t] \in Nat
                   /\ lqApplied'[t] + LqN(lqMain.lines, t)' <= lqApplied[t] + LqN(lqMain.lines, t) + more
      PROVE  LqCopyInv'
  <2>1. lqProc'[p] = x /\ \A q \in LqProcs \ {p} : LqSame(q)
    BY <1>0, <1>3 DEF LqSame
  <2>2. LqHandled' /\ \A t : LqFresh(t)' => LqFresh(t)
    <3>1. \A q \in LqProcs : lqProc'[q].pc = "opened" =>
            lqProc[q].pc = "opened" /\ lqProc'[q].handle = lqProc[q].handle
      BY <1>3, <2>1 DEF LqSame
    <3> QED
      BY <1>0, <3>1, LqHandledKept
  <2>3. LqRest(p)' = r /\ lqProc'[p].file = lqProc[p].file
    BY <1>3, <2>1 DEF LqRest
  <2>4. ASSUME NEW t \in LqSteps PROVE LqBound(t)'
    <3>1. LqN(LqRest(p), t)' = LqN(r, t) /\ LqN(lqProc[p].file, t)' = LqN(lqProc[p].file, t)
      BY <2>3
    <3>2. LqN(lqProc[p].file, t)' <= LqN(lqProc[p].file, t)
      BY <1>2, <3>1
    <3>3. LET before == lqApplied[t] + LqN(lqMain.lines, t) + LqN(LqRest(p), t)
              after  == lqApplied'[t] + LqN(lqMain.lines, t)' + LqN(LqRest(p), t)'
          IN  after <= before
      <4>1. CASE e.step = t
        BY <1>2, <1>3, <3>1, <4>1
      <4>2. CASE e.step # t
        BY <1>2, <1>3, <3>1, <4>2
      <4> QED
        BY <4>1, <4>2
    <3> QED
      BY <1>0, <2>1, <2>2, <3>2, <3>3, LqOneStep
  <2> QED
    BY <1>0, <2>2, <2>4 DEF LqCopyInv
<1>4. LET x == [[lqProc[p] EXCEPT !.todo = r] EXCEPT !.late = TRUE]
      IN  x.pc = "replay" /\ x.todo = r /\ x.file = lqProc[p].file
  BY <1>0, <1>1 DEF LqHolds
<1>5. LET x == [lqProc[p] EXCEPT !.todo = r]
      IN  x.pc = "replay" /\ x.todo = r /\ x.file = lqProc[p].file
  BY <1>0, <1>1 DEF LqHolds
<1>6. CASE /\ lqApplied' = [lqApplied EXCEPT ![e.step] = @ + 1]
           /\ LqSet(p, [lqProc[p] EXCEPT !.todo = r]) /\ UNCHANGED lqMain
  <2>x. PICK x : /\ x = [lqProc[p] EXCEPT !.todo = r]
                 /\ x.pc = "replay" /\ x.todo = r /\ x.file = lqProc[p].file
    BY <1>5
  <2>1. lqProc' = [lqProc EXCEPT ![p] = x]
    BY <1>6, <2>x DEF LqSet
  <2>2. ASSUME NEW t \in LqSteps
        PROVE  LET more == IF e.step = t THEN 1 ELSE 0
               IN  /\ LqN(lqMain.lines, t)' \in Nat /\ lqApplied'[t] \in Nat
                   /\ lqApplied'[t] + LqN(lqMain.lines, t)' <= lqApplied[t] + LqN(lqMain.lines, t) + more
    <3>1. LqN(lqMain.lines, t)' = LqN(lqMain.lines, t)
      BY <1>6
    <3>2. lqApplied'[t] = lqApplied[t] + (IF e.step = t THEN 1 ELSE 0)
      BY <1>0, <1>1, <1>6
    <3> QED
      BY <1>2, <3>1, <3>2
  <2> QED
    BY <1>3, <2>x, <2>1, <2>2
<1>7. CASE /\ LqPutBack([e EXCEPT !.attempts = @ + 1])
           /\ LqSet(p, [lqProc[p] EXCEPT !.todo = r]) /\ UNCHANGED lqApplied
  <2>x. PICK x : /\ x = [lqProc[p] EXCEPT !.todo = r]
                 /\ x.pc = "replay" /\ x.todo = r /\ x.file = lqProc[p].file
    BY <1>5
  <2>1. lqProc' = [lqProc EXCEPT ![p] = x]
    BY <1>7, <2>x DEF LqSet
  <2>d. PICK d : d = [e EXCEPT !.attempts = @ + 1]
    OBVIOUS
  <2>3. /\ d.step = e.step /\ d.attempts \in Nat /\ (d.attempts < LqMaxAttempts => d \in LqEntry)
        /\ LqPutBack(d)
    BY <1>1, <1>7, <2>d, LqEntryFields
  <2>2. ASSUME NEW t \in LqSteps
        PROVE  LET more == IF e.step = t THEN 1 ELSE 0
               IN  /\ LqN(lqMain.lines, t)' \in Nat /\ lqApplied'[t] \in Nat
                   /\ lqApplied'[t] + LqN(lqMain.lines, t)' <= lqApplied[t] + LqN(lqMain.lines, t) + more
    <3>1. /\ LqN(lqMain.lines, t)' \in Nat
          /\ LqN(lqMain.lines, t)' <= LqN(lqMain.lines, t) + (IF e.step = t THEN 1 ELSE 0)
      BY <2>3, LqPutBackCounts
    <3>2. lqApplied'[t] = lqApplied[t]
      BY <1>7
    <3> QED
      BY <1>2, <3>1, <3>2
  <2> QED
    BY <1>3, <2>x, <2>1, <2>2
<1>8. CASE /\ LqPutBack(e) /\ LqSet(p, [[lqProc[p] EXCEPT !.todo = r] EXCEPT !.late = TRUE])
           /\ UNCHANGED lqApplied
  <2>x. PICK x : /\ x = [[lqProc[p] EXCEPT !.todo = r] EXCEPT !.late = TRUE]
                 /\ x.pc = "replay" /\ x.todo = r /\ x.file = lqProc[p].file
    BY <1>4
  <2>1. lqProc' = [lqProc EXCEPT ![p] = x]
    BY <1>8, <2>x DEF LqSet
  <2>2. ASSUME NEW t \in LqSteps
        PROVE  LET more == IF e.step = t THEN 1 ELSE 0
               IN  /\ LqN(lqMain.lines, t)' \in Nat /\ lqApplied'[t] \in Nat
                   /\ lqApplied'[t] + LqN(lqMain.lines, t)' <= lqApplied[t] + LqN(lqMain.lines, t) + more
    <3>1. /\ LqN(lqMain.lines, t)' \in Nat
          /\ LqN(lqMain.lines, t)' <= LqN(lqMain.lines, t) + (IF e.step = t THEN 1 ELSE 0)
      BY <1>1, <1>8, LqPutBackCounts
    <3>2. lqApplied'[t] = lqApplied[t]
      BY <1>8
    <3> QED
      BY <1>2, <3>1, <3>2
  <2> QED
    BY <1>3, <2>x, <2>1, <2>2
<1> QED
  BY <1>e, <1>t, <1>6, <1>7, <1>8 DEF LqReplay

\* At the start no step has a line, and none was applied.
LEMMA LqInitCopies == LqInit => LqCopyInv
<1> SUFFICES ASSUME LqInit PROVE LqCopyInv
  OBVIOUS
<1>1. /\ lqNew = LqSteps /\ lqMain.lines = <<>> /\ lqCrashes = 0
      /\ \A p \in LqProcs : lqProc[p].pc = "idle" /\ lqProc[p].file = <<>>
      /\ \A s \in LqSteps : lqApplied[s] = 0
  BY DEF LqInit, LqNoFile, LqIdle
<1>2. LqHandled /\ lqCrashes \in Nat /\ lqCrashes <= LqMaxCrashes
  BY <1>1, LqAssumption DEF LqHandled
<1>3. 2^lqCrashes \in Nat /\ 2^lqCrashes > 0
  BY <1>2, LqDoubles
<1>4. ASSUME NEW s \in LqSteps PROVE LqBound(s)
  <2>1. \A p \in LqProcs : LqRests[p] = <<>>
    BY <1>1 DEF LqRests, LqRest
  <2>2. LqSpread(LqRests, s) = {}
    BY <2>1 DEF LqSpread, LqAt
  <2>3. IsFiniteSet(LqSpread(LqRests, s)) /\ Cardinality(LqSpread(LqRests, s)) = 0
    BY <2>2, FS_EmptySet
  <2>4. LqTotal(s) = 0 /\ \A p \in LqProcs : LqN(lqProc[p].file, s) = 0
    BY <1>1, <2>3, LqNEmpty DEF LqTotal
  <2> QED
    BY <1>3, <2>3, <2>4 DEF LqBound
<1> QED
  BY <1>2, <1>4 DEF LqCopyInv

\* Every step of the queue keeps the bound on the lines and applications of a step.
LEMMA LqNextCopies == LqInv /\ LqInv' /\ LqCopyInv /\ [LqNext]_lqVars => LqCopyInv'
<1>1. ASSUME LqInv, LqInv', LqCopyInv, LqNext PROVE LqCopyInv'
  <2>1. PICK p \in LqProcs : \/ \E s \in LqSteps : LqRun(p, s)
                             \/ LqClaim(p) \/ LqProcStep(p) \/ LqCrash(p)
    BY <1>1 DEF LqNext
  <2>2. LqTypes /\ LqTypes' /\ LqGoodProc(p)
    BY <1>1 DEF LqInv
  <2> QED
    BY <1>1, <2>1, <2>2, LqRunCopies, LqClaimCopies, LqWriteCopies, LqReplayCopies, LqReadCopies,
       LqCrashCopies DEF LqProcStep
<1>2. ASSUME LqCopyInv, UNCHANGED lqVars PROVE LqCopyInv'
  <2>1. /\ lqNew' = lqNew /\ lqMain' = lqMain /\ lqProc' = lqProc /\ lqApplied' = lqApplied
        /\ lqCrashes' = lqCrashes
    BY <1>2 DEF lqVars
  <2> QED
    BY <1>2, <2>1 DEF LqCopyInv, LqHandled, LqBound, LqFresh, LqTotal, LqRests, LqRest, LqSpread
<1> QED
  BY <1>1, <1>2

\* The bound is one of the applications alone.
LEMMA LqCopiesBound == LqInv /\ LqCopyInv => LqTypeOK /\ LqAppliedOnce
<1> SUFFICES ASSUME LqInv, LqCopyInv PROVE LqTypeOK /\ LqAppliedOnce
  OBVIOUS
<1>1. LqTypes /\ lqCrashes \in Nat /\ lqCrashes <= LqMaxCrashes
  BY DEF LqInv, LqCopyInv
<1>2. 2^lqCrashes \in Nat /\ 2^LqMaxCrashes \in Nat /\ 2^lqCrashes <= 2^LqMaxCrashes
  BY <1>1, LqAssumption, LqDoubles, LqPowerGrows
<1>3. ASSUME NEW s \in LqSteps PROVE lqApplied[s] \in Nat /\ lqApplied[s] <= 2^lqCrashes
  <2>1. /\ LqN(lqMain.lines, s) \in Nat /\ lqApplied[s] \in Nat /\ LqTotal(s) <= 2^lqCrashes
        /\ Cardinality(LqSpread(LqRests, s)) \in Nat
    BY <1>1, LqCopyTypes DEF LqCopyInv, LqBound
  <2> QED
    BY <1>2, <2>1 DEF LqTotal
<1>4. LqAppliedOnce
  BY <1>3, Zenon DEF LqAppliedOnce
<1>a. PICK n \in Nat : n = 2^lqCrashes
  BY <1>2, Zenon
<1>b. PICK m \in Nat : m = 2^LqMaxCrashes
  BY <1>2, Zenon
<1>c. n <= m
  BY <1>2, <1>a, <1>b, Zenon
<1>d. ASSUME NEW s \in LqSteps PROVE lqApplied[s] \in 0..m
  <2>1. lqApplied[s] \in Nat /\ lqApplied[s] <= n
    BY <1>3, <1>a, Zenon
  <2> QED
    BY <1>c, <2>1
<1>5. \A s \in LqSteps : lqApplied[s] \in 0..2^LqMaxCrashes
  BY <1>b, <1>d, Zenon
<1>6. lqApplied \in [LqSteps -> 0..2^LqMaxCrashes] /\ lqCrashes \in 0..LqMaxCrashes
  BY <1>1, <1>5, LqAssumption DEF LqTypes
<1> QED
  BY <1>1, <1>4, <1>6 DEF LqTypeOK, LqTypes

\* The queue is safe, for any number of steps, processes, attempts and deaths: no learning step
\* disappears but by the two losses of queue.ts, a dead letter has failed in its run and in every
\* one of its replays, and each death at most doubles the times a step is applied, so a step is
\* applied once where no drain dies.
THEOREM QueueIsSafe == LqSpec => []LqSafe
<1>1. LqInv /\ LqCopyInv => LqSafe
  BY LqInvKeeps, LqCopiesBound DEF LqInv, LqSafe
<1> QED
  BY <1>1, LqInitInv, LqNextInv, LqInitCopies, LqNextCopies, PTL DEF LqSpec

-----------------------------------------------------------------------------
(* The bundles of the skills library *)

SkMaybe == SkBundles \cup {SkNone}
SkWas == [host : SkMaybe, marker : SkMaybe, current : SkMaybe]
SkTurn == [pc : {"idle", "copy", "activate", "place", "undo"}, b : SkMaybe, pred : SkMaybe,
           at : 0..3, reuse : BOOLEAN, rollback : BOOLEAN, was : SkWas]

SkTypes ==
  /\ skDir \in [SkBundles -> {"none", "ok", "corrupt"}] /\ skPrev \in [SkBundles -> SkMaybe]
  /\ skCurrent \in SkMaybe /\ skHost \in SkMaybe /\ skFaults \in Nat /\ skMixed \in BOOLEAN
  /\ skProc \in [SkProcs -> SkTurn]
  /\ \A p \in SkProcs : skProc[p].pc # "idle" => skProc[p].b \in SkBundles
  /\ \A p \in SkProcs : skProc[p].pc \in {"place", "undo"} => skProc[p].at < 3
  /\ IsFiniteSet(SkThere(skDir))

\* What the one command under way has done to host files and link, by the artifacts it has renamed.
SkUnder(r) ==
  /\ r.pc = "copy" \/ r.reuse => ~r.rollback
  /\ r.pc = "copy" => /\ skHost = skCurrent /\ r.at = 0
                      /\ skCurrent # r.b => SkReadable(skCurrent)
  /\ r.pc \in {"activate", "place", "undo"} => skDir[r.b] = "ok"
  /\ r.pc \in {"activate", "undo"} /\ r.at = 0 => skHost = skCurrent /\ SkReadable(skCurrent)
  /\ r.pc = "place" /\ r.at = 0 =>
       skHost = SkNone /\ r.was.host = skCurrent /\ SkReadable(skCurrent)
  /\ <<r.pc, r.at>> \in ({"activate", "place", "undo"} \X {1}) \cup ({"activate", "undo"} \X {2}) =>
       skHost = r.b /\ r.was.host = skCurrent /\ SkReadable(skCurrent)
  /\ r.pc = "place" /\ r.at = 2 =>
       /\ skHost = r.b /\ skCurrent = SkNone
       /\ r.was.host = r.was.current /\ SkReadable(r.was.current)
  /\ r.pc = "activate" /\ r.at = 3 => skHost = r.b /\ skCurrent = r.b

\* A command alone leaves the active bundle usable, however its renames end.
SkAlone ==
  ~skMixed =>
    /\ \A p, q \in SkBusy : p = q
    /\ SkBusy = {} => SkReadable(skCurrent) /\ skHost = skCurrent
    /\ \A p \in SkBusy : SkUnder(skProc[p])

SkFew == Cardinality(SkThere(skDir)) <= SkRetained + 1

\* What the one command under way, that has met no fault, will have recorded and kept.
SkBound(r) ==
  /\ r.pc # "undo" /\ r.pred \in SkBundles /\ skDir[r.pred] = "ok"
  /\ r.pc = "copy" => r.b # r.pred
  /\ r.pc = "place" /\ r.at = 1 => r.b # r.pred
  /\ r.pc = "copy" \/ r.at < 2 \/ (r.pc = "activate" /\ r.at = 2) => skCurrent = r.pred
  /\ r.pc # "copy" /\ r.at >= 2 /\ r.b # r.pred => skPrev[r.b] = r.pred
  /\ r.b = r.pred /\ skPrev[r.b] # SkNone => skDir[skPrev[r.b]] = "ok"
  /\ r.b = r.pred \/ r.rollback => SkFew
  /\ r.rollback => r.b # r.pred

\* Without a fault, the predecessor of the active bundle is kept.
SkGoesBack ==
  ~skMixed /\ skFaults = 0 =>
    /\ \A b \in SkBundles : skDir[b] # "corrupt"
    /\ SkBusy = {} => SkFew /\ (skPrev[skCurrent] # SkNone => skDir[skPrev[skCurrent]] = "ok")
    /\ \A p \in SkBusy : SkBound(skProc[p])

\* The inductive invariant of the bundles.
SkInv == SkTypes /\ SkOrdered /\ SkAlone /\ SkGoesBack

\* A step of one command keeps the invariant if it leaves behind what the place it goes to asks for.
LEMMA SkSteps ==
  ASSUME SkInv, NEW p \in SkProcs, NEW r \in SkTurn, SkSet(p, r),
         r.pc # "idle" => r.b \in SkBundles, r.pc \in {"place", "undo"} => r.at < 3,
         skDir' \in [SkBundles -> {"none", "ok", "corrupt"}], skPrev' \in [SkBundles -> SkMaybe],
         skCurrent' \in SkMaybe, skHost' \in SkMaybe, skFaults' \in Nat, skMixed' \in BOOLEAN,
         IsFiniteSet(SkThere(skDir')), SkOrdered',
         ~skMixed' => SkBusy \subseteq {p},
         ~skMixed' /\ r.pc = "idle" => SkReadable(skCurrent)' /\ skHost' = skCurrent',
         ~skMixed' /\ r.pc # "idle" => SkUnder(r)',
         ~skMixed' /\ skFaults' = 0 => \A b \in SkBundles : skDir'[b] # "corrupt",
         ~skMixed' /\ skFaults' = 0 /\ r.pc = "idle" =>
           SkFew' /\ (skPrev[skCurrent] # SkNone => skDir[skPrev[skCurrent]] = "ok")',
         ~skMixed' /\ skFaults' = 0 /\ r.pc # "idle" => SkBound(r)'
  PROVE  SkInv'
<1>1. skProc' = [skProc EXCEPT ![p] = r] /\ skProc \in [SkProcs -> SkTurn]
  BY DEF SkSet, SkInv, SkTypes
<1>2. skProc'[p] = r /\ \A q \in SkProcs : q # p => skProc'[q] = skProc[q]
  BY <1>1
<1>3. SkTypes'
  <2>1. skProc' \in [SkProcs -> SkTurn]
    BY <1>1
  <2>2. \A q \in SkProcs : skProc'[q].pc # "idle" => skProc'[q].b \in SkBundles
    BY <1>2 DEF SkInv, SkTypes
  <2>3. \A q \in SkProcs : skProc'[q].pc \in {"place", "undo"} => skProc'[q].at < 3
    BY <1>2 DEF SkInv, SkTypes
  <2>4. IsFiniteSet(SkThere(skDir))'
    BY DEF SkThere
  <2> QED
    BY <2>1, <2>2, <2>3, <2>4 DEF SkTypes
<1>4. ~skMixed' => SkBusy' \subseteq {p} /\ (SkBusy' = {} <=> r.pc = "idle")
  BY <1>2 DEF SkBusy
<1>5. SkAlone'
  BY <1>2, <1>4 DEF SkAlone
<1>6. SkGoesBack'
  BY <1>2, <1>4 DEF SkGoesBack
<1> QED
  BY <1>3, <1>5, <1>6 DEF SkInv

\* What is known of a command under way.
LEMMA SkHas ==
  ASSUME SkInv, NEW p \in SkProcs
  PROVE  /\ skProc[p] \in SkTurn /\ skProc[p].was \in SkWas
         /\ skProc[p].pc # "idle" => skProc[p].b \in SkBundles
         /\ skProc[p].pc \in {"place", "undo"} => skProc[p].at \in 0..2
         /\ skDir \in [SkBundles -> {"none", "ok", "corrupt"}] /\ skPrev \in [SkBundles -> SkMaybe]
         /\ skCurrent \in SkMaybe /\ skHost \in SkMaybe /\ skFaults \in Nat /\ skMixed \in BOOLEAN
         /\ IsFiniteSet(SkThere(skDir)) /\ SkOrdered
         /\ ~skMixed /\ skProc[p].pc # "idle" => SkBusy \subseteq {p} /\ SkUnder(skProc[p])
         /\ ~skMixed /\ skFaults = 0 => \A b \in SkBundles : skDir[b] # "corrupt"
         /\ ~skMixed /\ skFaults = 0 /\ skProc[p].pc # "idle" => SkBound(skProc[p])
<1>1. skProc[p] \in SkTurn
  BY DEF SkInv, SkTypes
<1>2. skProc[p].was \in SkWas /\ skProc[p].at \in 0..3
  BY <1>1 DEF SkTurn
<1>3. skProc[p].pc \in {"place", "undo"} => skProc[p].at \in 0..2
  BY <1>2 DEF SkInv, SkTypes
<1>4. ~skMixed /\ skProc[p].pc # "idle" => SkBusy \subseteq {p} /\ SkUnder(skProc[p])
  BY DEF SkInv, SkAlone, SkBusy
<1>5. ~skMixed /\ skFaults = 0 => \A b \in SkBundles : skDir[b] # "corrupt"
  BY DEF SkInv, SkGoesBack
<1>6. ~skMixed /\ skFaults = 0 /\ skProc[p].pc # "idle" => SkBound(skProc[p])
  BY DEF SkInv, SkGoesBack, SkBusy
<1> QED
  BY <1>1, <1>2, <1>3, <1>4, <1>5, <1>6 DEF SkInv, SkTypes

\* Directories that go leave the others in their order.
LEMMA SkOrderKept ==
  ASSUME SkOrdered, IsFiniteSet(SkThere(skDir)), SkThere(skDir') \subseteq SkThere(skDir),
         skNewer' = SkKept(skDir', skNewer)
  PROVE  SkOrdered' /\ IsFiniteSet(SkThere(skDir'))
<1> DEFINE T == SkThere(skDir')
<1>1. skNewer' = skNewer \cap (T \X T)
  BY DEF SkKept
<1>2. SkThere(skDir)' = T
  BY DEF SkThere
<1> HIDE DEF T
<1>3. /\ skNewer' \subseteq T \X T
      /\ \A b, c \in T : <<b, c>> \in skNewer' <=> <<b, c>> \in skNewer
  BY <1>1
<1>4. T \subseteq SkThere(skDir)
  BY DEF T
<1>5. SkOrdered'
  BY <1>2, <1>3, <1>4 DEF SkOrdered
<1> QED
  BY <1>4, <1>5, FS_Subset DEF T

\* A directory that is written is the newest.
LEMMA SkOrderTouched ==
  ASSUME SkOrdered, IsFiniteSet(SkThere(skDir)), NEW b \in SkBundles,
         SkThere(skDir') = SkThere(skDir) \cup {b}, skNewer' = SkTouch(b, skDir)
  PROVE  SkOrdered' /\ IsFiniteSet(SkThere(skDir'))
<1> DEFINE S == SkThere(skDir)
           T == SkThere(skDir')
<1>1. skNewer' = {e \in skNewer : e[1] # b /\ e[2] # b} \cup ({b} \X (S \ {b}))
  BY DEF SkTouch
<1>2. SkThere(skDir)' = T /\ T = S \cup {b}
  BY DEF SkThere
<1>3. skNewer \subseteq S \X S
  BY DEF SkOrdered
<1>o. /\ \A x, y \in S : x # y => (<<x, y>> \in skNewer <=> <<y, x>> \notin skNewer)
      /\ \A x, y, z \in S : <<x, y>> \in skNewer /\ <<y, z>> \in skNewer => x # z /\ <<x, z>> \in skNewer
  BY DEF SkOrdered
<1>4. ASSUME NEW x, NEW y
      PROVE  <<x, y>> \in skNewer' <=>
               \/ <<x, y>> \in skNewer /\ x # b /\ y # b
               \/ x = b /\ y \in S \ {b}
  BY <1>1
<1>5. skNewer' \subseteq T \X T
  BY <1>1, <1>2, <1>3
<1>6. \A x, y : <<x, y>> \in skNewer => x \in S /\ y \in S
  BY <1>3
<1> HIDE DEF S, T
<1>7. ASSUME NEW x \in T, NEW y \in T, x # y
      PROVE  <<x, y>> \in skNewer' <=> <<y, x>> \notin skNewer'
  <2>1. <<x, y>> \in skNewer' <=>
          (<<x, y>> \in skNewer /\ x # b /\ y # b) \/ (x = b /\ y \in S \ {b})
    BY <1>4
  <2>2. <<y, x>> \in skNewer' <=>
          (<<y, x>> \in skNewer /\ y # b /\ x # b) \/ (y = b /\ x \in S \ {b})
    BY <1>4
  <2>3. x \in S \/ x = b
    BY <1>2
  <2>4. y \in S \/ y = b
    BY <1>2
  <2>5. x \in S /\ y \in S => (<<x, y>> \in skNewer <=> <<y, x>> \notin skNewer)
    BY <1>7, <1>o
  <2> QED
    BY <1>7, <2>1, <2>2, <2>3, <2>4, <2>5
<1>8. \A x, y, z \in T : <<x, y>> \in skNewer' /\ <<y, z>> \in skNewer' =>
        x # z /\ <<x, z>> \in skNewer'
  BY <1>2, <1>4, <1>6, <1>o
<1>9. SkOrdered'
  BY <1>2, <1>5, <1>7, <1>8 DEF SkOrdered
<1> QED
  BY <1>2, <1>9, FS_AddElement DEF S, T

\* Which artifact is next.
LEMMA SkNth ==
  ASSUME NEW r, r.at \in 0..2
  PROVE  /\ SkArtifact(r) = "host" <=> r.at = 0
         /\ SkArtifact(r) = "marker" <=> r.at = 1
         /\ SkArtifact(r) = "current" <=> r.at = 2
<1>1. CASE r.at = 0
  BY <1>1 DEF SkArtifact, SkArtifacts
<1>2. CASE r.at = 1
  BY <1>2 DEF SkArtifact, SkArtifacts
<1>3. CASE r.at = 2
  BY <1>3 DEF SkArtifact, SkArtifacts
<1> QED
  BY <1>1, <1>2, <1>3

\* Of two that may be kept one ranks before the other, and those before it before both.
LEMMA SkRanks ==
  ASSUME SkOrdered, IsFiniteSet(SkThere(skDir)), NEW r, NEW x \in SkRows(r), NEW y \in SkRows(r)
  PROVE  /\ x # y => x \in SkAhead(r, y) \/ y \in SkAhead(r, x)
         /\ IsFiniteSet(SkAhead(r, x)) /\ Cardinality(SkAhead(r, x)) \in Nat
         /\ x \in SkAhead(r, y) => Cardinality(SkAhead(r, x)) < Cardinality(SkAhead(r, y))
<1>0. SkRows(r) \subseteq SkThere(skDir)
  BY DEF SkRows, SkThere
<1>1. x # y => x \in SkAhead(r, y) \/ y \in SkAhead(r, x)
  BY <1>0 DEF SkAhead, SkOrdered
<1>2. ASSUME NEW z PROVE IsFiniteSet(SkAhead(r, z)) /\ Cardinality(SkAhead(r, z)) \in Nat
  <2>1. SkAhead(r, z) \subseteq SkThere(skDir)
    BY <1>0 DEF SkAhead
  <2>2. IsFiniteSet(SkAhead(r, z))
    BY <2>1, FS_Subset
  <2> QED
    BY <2>2, FS_CardinalityType
<1>3. ASSUME x \in SkAhead(r, y) PROVE Cardinality(SkAhead(r, x)) < Cardinality(SkAhead(r, y))
  <2>1. SkAhead(r, x) \subseteq SkAhead(r, y)
    <3> SUFFICES ASSUME NEW z \in SkAhead(r, x) PROVE z \in SkAhead(r, y)
      OBVIOUS
    <3>1. /\ z \in SkRows(r) /\ z # x /\ (z = r.pred \/ (x # r.pred /\ <<z, x>> \in skNewer))
          /\ x # y /\ (x = r.pred \/ (y # r.pred /\ <<x, y>> \in skNewer))
      BY <1>3 DEF SkAhead
    <3>2. x \in SkThere(skDir) /\ y \in SkThere(skDir) /\ z \in SkThere(skDir)
      BY <1>0, <3>1
    <3>3. <<z, x>> \in skNewer /\ <<x, y>> \in skNewer => z # y /\ <<z, y>> \in skNewer
      BY <3>2 DEF SkOrdered
    <3> QED
      BY <3>1, <3>3 DEF SkAhead
  <2>2. x \notin SkAhead(r, x)
    BY DEF SkAhead
  <2>3. SkAhead(r, x) # SkAhead(r, y)
    BY <1>3, <2>2
  <2>4. /\ Cardinality(SkAhead(r, x)) <= Cardinality(SkAhead(r, y))
        /\ Cardinality(SkAhead(r, x)) # Cardinality(SkAhead(r, y))
    BY <1>2, <2>1, <2>3, FS_Subset
  <2>5. Cardinality(SkAhead(r, x)) \in Nat /\ Cardinality(SkAhead(r, y)) \in Nat
    BY <1>2
  <2> QED
    BY <2>4, <2>5
<1> QED
  BY <1>1, <1>2, <1>3

\* No more are kept than the retention says.
LEMMA SkKeptFew ==
  ASSUME SkOrdered, IsFiniteSet(SkThere(skDir)), NEW r,
         NEW K, K = {c \in SkRows(r) : Cardinality(SkAhead(r, c)) < SkRetained}
  PROVE  IsFiniteSet(K) /\ Cardinality(K) <= SkRetained /\ Cardinality(K) \in Nat
<1> DEFINE f == [c \in K |-> Cardinality(SkAhead(r, c)) + 1]
<1>1. ASSUME NEW c \in K PROVE f[c] \in 1..SkRetained
  <2>1. Cardinality(SkAhead(r, c)) \in Nat /\ Cardinality(SkAhead(r, c)) < SkRetained
    BY SkRanks
  <2> QED
    BY <2>1, SkAssumption
<1>2. ASSUME NEW c \in K, NEW d \in K, c # d PROVE f[c] # f[d]
  <2>0. c \in SkRows(r) /\ d \in SkRows(r)
    OBVIOUS
  <2>1. Cardinality(SkAhead(r, c)) \in Nat /\ Cardinality(SkAhead(r, d)) \in Nat
    BY <2>0, SkRanks
  <2>2. c \in SkAhead(r, d) \/ d \in SkAhead(r, c)
    BY <1>2, <2>0, SkRanks
  <2>3. Cardinality(SkAhead(r, c)) # Cardinality(SkAhead(r, d))
    <3>1. CASE c \in SkAhead(r, d)
      <4>1. Cardinality(SkAhead(r, c)) < Cardinality(SkAhead(r, d))
        BY <2>0, <3>1, SkRanks
      <4> QED
        BY <2>1, <4>1
    <3>2. CASE d \in SkAhead(r, c)
      <4>1. Cardinality(SkAhead(r, d)) < Cardinality(SkAhead(r, c))
        BY <2>0, <3>2, SkRanks
      <4> QED
        BY <2>1, <4>1
    <3> QED
      BY <2>2, <3>1, <3>2
  <2> QED
    BY <2>1, <2>3
<1>3. f \in Injection(K, 1..SkRetained)
  <2>1. f \in [K -> 1..SkRetained]
    BY <1>1
  <2>2. IsInjective(f)
    BY <1>2 DEF IsInjective
  <2> QED
    BY <2>1, <2>2 DEF Injection
<1>4. IsFiniteSet(1..SkRetained) /\ Cardinality(1..SkRetained) = SkRetained
  <2>1. 1 \in Int /\ SkRetained \in Int /\ ~(1 > SkRetained)
    BY SkAssumption
  <2>2. IsFiniteSet(1..SkRetained) /\ Cardinality(1..SkRetained) = SkRetained - 1 + 1
    BY <2>1, FS_Interval
  <2> QED
    BY <2>1, <2>2
<1> HIDE DEF f
<1>5. IsFiniteSet(K) /\ Cardinality(K) <= Cardinality(1..SkRetained)
  BY <1>3, <1>4, FS_Injection
<1> QED
  BY <1>4, <1>5, FS_CardinalityType

\* One whole bundle is active at the start.
LEMMA SkInitInv == SkInit => SkInv
<1> SUFFICES ASSUME SkInit PROVE SkInv
  OBVIOUS
<1>1. PICK b0 \in SkBundles :
        /\ skDir = [b \in SkBundles |-> IF b = b0 THEN "ok" ELSE "none"]
        /\ skNewer = {} /\ skPrev = [b \in SkBundles |-> SkNone]
        /\ skCurrent = b0 /\ skHost = b0 /\ skProc = [p \in SkProcs |-> SkIdle]
        /\ skFaults = 0 /\ skMixed = FALSE
  BY DEF SkInit
<1>2. SkThere(skDir) = {b0}
  BY <1>1 DEF SkThere
<1>3. IsFiniteSet({b0}) /\ Cardinality({b0}) = 1
  BY FS_Singleton
<1>4. SkIdle \in SkTurn /\ SkIdle.pc = "idle"
  BY DEF SkIdle, SkTurn, SkWas, SkMaybe
<1>5. SkTypes
  BY <1>1, <1>2, <1>3, <1>4 DEF SkTypes, SkMaybe
<1>6. SkOrdered
  BY <1>1, <1>2 DEF SkOrdered
<1>7. SkBusy = {}
  BY <1>1, <1>4 DEF SkBusy
<1>8. SkAlone
  BY <1>1, <1>7, SkAssumption DEF SkAlone, SkReadable
<1>9. SkFew
  BY <1>2, <1>3, SkAssumption DEF SkFew
<1>10. SkGoesBack
  BY <1>1, <1>7, <1>9 DEF SkGoesBack
<1> QED
  BY <1>5, <1>6, <1>8, <1>10 DEF SkInv

\* The record of a command that begins.
LEMMA SkFresh ==
  ASSUME NEW pc \in {"copy", "activate"}, NEW b \in SkBundles, NEW q \in SkMaybe,
         NEW reuse \in BOOLEAN, NEW back \in BOOLEAN, NEW r,
         r = [pc |-> pc, b |-> b, pred |-> q, at |-> 0, reuse |-> reuse, rollback |-> back,
              was |-> SkIdle.was]
  PROVE  r \in SkTurn
<1>1. SkIdle.was \in SkWas
  BY DEF SkIdle, SkWas, SkMaybe
<1>2. b \in SkMaybe
  BY DEF SkMaybe
<1> HIDE DEF SkIdle
<1> QED
  BY <1>1, <1>2 DEF SkTurn

\* What a command that begins knows, and that directories which go do not disturb.
LEMMA SkBegins ==
  ASSUME SkInv, NEW D \in [SkBundles -> {"none", "ok", "corrupt"}], skDir' = D,
         \A x \in SkBundles : D[x] = skDir[x] \/ (D[x] = "none" /\ skDir[x] = "corrupt"),
         skNewer' = SkKept(skDir', skNewer), skPrev' = SkMarkers(skDir'),
         UNCHANGED <<skCurrent, skHost, skLimits>>
  PROVE  /\ skPrev' \in [SkBundles -> SkMaybe] /\ skFaults' = skFaults
         /\ SkOrdered' /\ IsFiniteSet(SkThere(skDir'))
         /\ \A x : SkReadable(x) /\ x \in SkBundles => SkReadable(x)'
         /\ \A x \in SkBundles : skDir[x] = "ok" => skPrev'[x] = skPrev[x] /\ skDir'[x] = "ok"
         /\ ~skMixed /\ skFaults = 0 => /\ skDir' = skDir /\ SkThere(skDir') = SkThere(skDir)
                                        /\ \A x \in SkBundles : skDir[x] # "corrupt"
<1>1. skPrev' = [x \in SkBundles |-> IF D[x] = "none" THEN SkNone ELSE skPrev[x]]
  BY DEF SkMarkers
<1>2. skPrev \in [SkBundles -> SkMaybe] /\ skDir \in [SkBundles -> {"none", "ok", "corrupt"}]
      /\ IsFiniteSet(SkThere(skDir)) /\ SkOrdered
  BY DEF SkInv, SkTypes
<1>3. skPrev' \in [SkBundles -> SkMaybe]
  BY <1>1, <1>2 DEF SkMaybe
<1>4. SkThere(skDir') \subseteq SkThere(skDir)
  BY DEF SkThere
<1>5. SkOrdered' /\ IsFiniteSet(SkThere(skDir'))
  BY <1>2, <1>4, SkOrderKept
<1>6. \A x \in SkBundles : skDir[x] = "ok" => skPrev'[x] = skPrev[x] /\ skDir'[x] = "ok"
  BY <1>1
<1>7. \A x : SkReadable(x) /\ x \in SkBundles => SkReadable(x)'
  BY DEF SkReadable
<1>8. ASSUME ~skMixed, skFaults = 0
      PROVE  /\ skDir' = skDir /\ SkThere(skDir') = SkThere(skDir)
             /\ \A x \in SkBundles : skDir[x] # "corrupt"
  <2>1. \A x \in SkBundles : skDir[x] # "corrupt"
    BY <1>8 DEF SkInv, SkGoesBack
  <2>2. \A x \in SkBundles : D[x] = skDir[x]
    BY <2>1
  <2>3. D = skDir
    BY <1>2, <2>2
  <2> QED
    BY <2>1, <2>3
<1> QED
  BY <1>3, <1>5, <1>6, <1>7, <1>8 DEF skLimits

\* A sync begins with what the active bundle tells and the copy it may reuse.
LEMMA SkSyncStep ==
  ASSUME SkInv, NEW p \in SkProcs, NEW b \in SkBundles, SkSync(p, b)
  PROVE  SkInv'
<1>D. PICK D : D = (IF skDir[b] = "corrupt" THEN [skDir EXCEPT ![b] = "none"] ELSE skDir)
  OBVIOUS
<1>w. PICK w \in BOOLEAN : w = (skDir[b] = "ok")
  BY Zenon
<1>q. PICK q : q = (IF skCurrent # SkNone /\ skDir[skCurrent] # "none" THEN skCurrent ELSE SkNone)
  OBVIOUS
<1>r. PICK r : r = [SkIdle EXCEPT !.pc = IF w THEN "activate" ELSE "copy", !.b = b,
                                  !.pred = q, !.reuse = w]
  OBVIOUS
<1>0. /\ skProc[p].pc = "idle" /\ skDir' = D /\ skNewer' = SkKept(skDir', skNewer)
      /\ skPrev' = SkMarkers(skDir') /\ UNCHANGED <<skCurrent, skHost, skLimits>>
  BY <1>D DEF SkSync
<1>m. skMixed' = (skMixed \/ SkBusy # {})
  BY Zenon DEF SkSync
<1>1. SkSet(p, r)
  BY <1>w, <1>q, <1>r, Zenon DEF SkSync
<1>2. skDir \in [SkBundles -> {"none", "ok", "corrupt"}] /\ skCurrent \in SkMaybe /\ skHost \in SkMaybe
      /\ skFaults \in Nat /\ skMixed \in BOOLEAN
  BY SkHas
<1>3. D \in [SkBundles -> {"none", "ok", "corrupt"}]
      /\ \A x \in SkBundles : D[x] = skDir[x] \/ (D[x] = "none" /\ skDir[x] = "corrupt")
  BY <1>D, <1>2
<1>4. /\ skPrev' \in [SkBundles -> SkMaybe] /\ skFaults' = skFaults
      /\ SkOrdered' /\ IsFiniteSet(SkThere(skDir'))
      /\ \A x : SkReadable(x) /\ x \in SkBundles => SkReadable(x)'
      /\ \A x \in SkBundles : skDir[x] = "ok" => skPrev'[x] = skPrev[x] /\ skDir'[x] = "ok"
      /\ ~skMixed /\ skFaults = 0 => /\ skDir' = skDir /\ SkThere(skDir') = SkThere(skDir)
                                     /\ \A x \in SkBundles : skDir[x] # "corrupt"
  BY <1>0, <1>3, SkBegins
<1>5. /\ r.pc = (IF w THEN "activate" ELSE "copy") /\ r.b = b /\ r.pred = q /\ r.at = 0
      /\ r.rollback = FALSE
  BY <1>r DEF SkIdle
<1>6. r \in SkTurn
  <2>1. q \in SkMaybe
    BY <1>2, <1>q DEF SkMaybe
  <2> QED
    <3>1. PICK c \in {"copy", "activate"} : c = (IF w THEN "activate" ELSE "copy")
      OBVIOUS
    <3>2. r = [SkIdle EXCEPT !.pc = c, !.b = b, !.pred = q, !.reuse = w]
      BY <1>r, <3>1
    <3>3. r = [pc |-> c, b |-> b, pred |-> q, at |-> 0, reuse |-> w, rollback |-> FALSE,
               was |-> SkIdle.was]
      BY <3>2 DEF SkIdle
    <3> QED
      BY <2>1, <3>3, SkFresh
<1>7. skMixed' \in BOOLEAN /\ (~skMixed' => ~skMixed /\ SkBusy = {})
  BY <1>m, <1>2
<1>8. ~skMixed' => SkReadable(skCurrent) /\ skHost = skCurrent /\ q = skCurrent /\ skCurrent \in SkBundles
  <2> SUFFICES ASSUME ~skMixed'
               PROVE SkReadable(skCurrent) /\ skHost = skCurrent /\ q = skCurrent /\ skCurrent \in SkBundles
    OBVIOUS
  <2>1. SkReadable(skCurrent) /\ skHost = skCurrent
    BY <1>7 DEF SkInv, SkAlone
  <2> QED
    BY <1>2, <1>q, <2>1 DEF SkReadable, SkMaybe
<1>9. ASSUME ~skMixed' PROVE SkUnder(r)'
  <2>1. SkReadable(skCurrent)' /\ skHost' = skCurrent'
    BY <1>0, <1>4, <1>8, <1>9
  <2>2. w => skDir'[b] = "ok"
    BY <1>w, <1>4
  <2> QED
    BY <1>5, <2>1, <2>2 DEF SkUnder
<1>10. ASSUME ~skMixed', skFaults' = 0 PROVE SkBound(r)'
  <2>1. skDir' = skDir /\ SkThere(skDir') = SkThere(skDir) /\ ~skMixed /\ skFaults = 0 /\ SkBusy = {}
    BY <1>4, <1>7, <1>10
  <2>2. SkFew /\ (skPrev[skCurrent] # SkNone => skDir[skPrev[skCurrent]] = "ok")
    BY <2>1 DEF SkInv, SkGoesBack
  <2>3. SkFew'
    BY <2>1, <2>2 DEF SkFew, SkThere
  <2>4. skDir[skCurrent] = "ok" /\ skCurrent \in SkBundles /\ q = skCurrent /\ skCurrent' = skCurrent
    BY <1>0, <1>8, <1>10 DEF SkReadable
  <2>5. skPrev'[skCurrent] = skPrev[skCurrent]
    BY <1>4, <2>4
  <2>6. ~w => b # q
    BY <1>w, <2>4
  <2> QED
    BY <1>5, <2>1, <2>2, <2>3, <2>4, <2>5, <2>6 DEF SkBound
<1>11. ~skMixed' /\ skFaults' = 0 => \A x \in SkBundles : skDir'[x] # "corrupt"
  BY <1>4, <1>7
<1>12. skDir' \in [SkBundles -> {"none", "ok", "corrupt"}] /\ skCurrent' \in SkMaybe /\ skHost' \in SkMaybe
       /\ skFaults' \in Nat
  BY <1>0, <1>2, <1>3, <1>4
<1>13. r.pc \in {"activate", "copy"}
  BY <1>5
<1> QED
  BY <1>1, <1>4, <1>5, <1>6, <1>7, <1>9, <1>10, <1>11, <1>12, <1>13, SkSteps

\* A rollback begins when the predecessor is whole; else only what is corrupt goes.
LEMMA SkRollbackStep ==
  ASSUME SkInv, NEW p \in SkProcs, SkRollback(p)
  PROVE  SkInv'
<1>D. PICK D : D = [b \in SkBundles |-> IF skDir[b] = "corrupt" THEN "none" ELSE skDir[b]]
  OBVIOUS
<1>0. /\ skProc[p].pc = "idle" /\ SkReadable(skCurrent) /\ skPrev[skCurrent] # SkNone
      /\ skDir' = D /\ skNewer' = SkKept(skDir', skNewer)
      /\ skPrev' = SkMarkers(skDir') /\ UNCHANGED <<skCurrent, skHost, skLimits>>
  BY <1>D DEF SkRollback
<1>2. skDir \in [SkBundles -> {"none", "ok", "corrupt"}] /\ skCurrent \in SkMaybe /\ skHost \in SkMaybe
      /\ skFaults \in Nat /\ skMixed \in BOOLEAN /\ skPrev \in [SkBundles -> SkMaybe]
  BY SkHas
<1>3. D \in [SkBundles -> {"none", "ok", "corrupt"}]
      /\ \A x \in SkBundles : D[x] = skDir[x] \/ (D[x] = "none" /\ skDir[x] = "corrupt")
  BY <1>D, <1>2
<1>4. /\ skPrev' \in [SkBundles -> SkMaybe] /\ skFaults' = skFaults
      /\ SkOrdered' /\ IsFiniteSet(SkThere(skDir'))
      /\ \A x : SkReadable(x) /\ x \in SkBundles => SkReadable(x)'
      /\ \A x \in SkBundles : skDir[x] = "ok" => skPrev'[x] = skPrev[x] /\ skDir'[x] = "ok"
      /\ ~skMixed /\ skFaults = 0 => /\ skDir' = skDir /\ SkThere(skDir') = SkThere(skDir)
                                     /\ \A x \in SkBundles : skDir[x] # "corrupt"
  BY <1>0, <1>3, SkBegins
<1>5. skCurrent \in SkBundles /\ skDir[skCurrent] = "ok" /\ skPrev[skCurrent] \in SkBundles
  BY <1>0, <1>2 DEF SkReadable, SkMaybe
<1>t. skDir' \in [SkBundles -> {"none", "ok", "corrupt"}] /\ skCurrent' \in SkMaybe /\ skHost' \in SkMaybe
      /\ skFaults' \in Nat
  BY <1>0, <1>2, <1>3, <1>4
<1>6. CASE /\ D[skPrev[skCurrent]] = "ok" /\ skPrev[skCurrent] # skCurrent
           /\ SkSet(p, [SkIdle EXCEPT !.pc = "activate", !.b = skPrev[skCurrent],
                                      !.pred = skCurrent, !.rollback = TRUE])
           /\ skMixed' = (skMixed \/ SkBusy # {})
  <2>r. PICK r : r = [SkIdle EXCEPT !.pc = "activate", !.b = skPrev[skCurrent],
                                    !.pred = skCurrent, !.rollback = TRUE]
    OBVIOUS
  <2>1. /\ r.pc = "activate" /\ r.b = skPrev[skCurrent] /\ r.pred = skCurrent /\ r.at = 0 /\ r.rollback
        /\ ~r.reuse
    BY <2>r DEF SkIdle
  <2>2. r \in SkTurn
    <3>1. r = [pc |-> "activate", b |-> skPrev[skCurrent], pred |-> skCurrent, at |-> 0,
               reuse |-> FALSE, rollback |-> TRUE, was |-> SkIdle.was]
      BY <2>r DEF SkIdle
    <3> QED
      BY <1>2, <1>5, <3>1, SkFresh
  <2>3. skMixed' \in BOOLEAN /\ (~skMixed' => ~skMixed /\ SkBusy = {})
    BY <1>2, <1>6
  <2>4. ASSUME ~skMixed' PROVE SkUnder(r)'
    <3>1. SkReadable(skCurrent)' /\ skHost' = skCurrent'
      <4>1. skHost = skCurrent
        BY <2>3, <2>4 DEF SkInv, SkAlone
      <4> QED
        BY <1>0, <1>4, <1>5, <4>1
    <3>2. skDir'[r.b] = "ok"
      BY <1>0, <1>6, <2>1
    <3> QED
      BY <2>1, <3>1, <3>2 DEF SkUnder
  <2>5. ASSUME ~skMixed', skFaults' = 0 PROVE SkBound(r)'
    <3>1. skDir' = skDir /\ SkThere(skDir') = SkThere(skDir) /\ ~skMixed /\ skFaults = 0 /\ SkBusy = {}
      BY <1>4, <2>3, <2>5
    <3>2. SkFew
      BY <3>1 DEF SkInv, SkGoesBack
    <3>3. SkFew'
      BY <3>1, <3>2 DEF SkFew, SkThere
    <3> QED
      BY <1>0, <1>5, <1>6, <2>1, <3>1, <3>3 DEF SkBound
  <2>6. ~skMixed' /\ skFaults' = 0 => \A x \in SkBundles : skDir'[x] # "corrupt"
    BY <1>4, <2>3
  <2>7. SkSet(p, r)
    BY <1>6, <2>r
  <2> QED
    BY <1>4, <1>5, <1>t, <2>1, <2>2, <2>3, <2>4, <2>5, <2>6, <2>7, SkSteps
<1>7. CASE UNCHANGED <<skProc, skMixed>>
  <2>1. SkBusy' = SkBusy
    BY <1>7 DEF SkBusy
  <2>2. SkTypes'
    <3>1. /\ skProc \in [SkProcs -> SkTurn]
          /\ \A q \in SkProcs : skProc[q].pc # "idle" => skProc[q].b \in SkBundles
          /\ \A q \in SkProcs : skProc[q].pc \in {"place", "undo"} => skProc[q].at < 3
      BY DEF SkInv, SkTypes
    <3>2. IsFiniteSet(SkThere(skDir))'
      BY <1>4 DEF SkThere
    <3> QED
      BY <1>2, <1>4, <1>7, <1>t, <3>1, <3>2 DEF SkTypes
  <2>3. SkAlone'
    <3> SUFFICES ASSUME ~skMixed' PROVE SkAlone'
      BY DEF SkAlone
    <3>0. ~skMixed /\ SkAlone
      BY <1>7 DEF SkInv
    <3>1. \A q1, q2 \in SkBusy' : q1 = q2
      BY <2>1, <3>0 DEF SkAlone
    <3>2. SkBusy' = {} => SkReadable(skCurrent)' /\ skHost' = skCurrent'
      BY <1>0, <1>4, <1>5, <2>1, <3>0 DEF SkAlone
    <3>3. ASSUME NEW q \in SkBusy' PROVE SkUnder(skProc[q])'
      <4>1. SkUnder(skProc[q]) /\ skProc[q] \in SkTurn /\ (skProc[q].pc # "idle" => skProc[q].b \in SkBundles)
        BY <2>1, <3>0, <3>3 DEF SkAlone, SkInv, SkTypes, SkBusy
      <4>2. skProc[q].was.current \in SkMaybe
        BY <4>1 DEF SkTurn, SkWas
      <4>3. \A x \in SkMaybe : SkReadable(x) => SkReadable(x)'
        BY <1>4 DEF SkMaybe, SkReadable
      <4>4. SkReadable(skCurrent) => SkReadable(skCurrent)'
        BY <1>0, <1>4, <1>5
      <4>5. SkReadable(skProc[q].was.current) => SkReadable(skProc[q].was.current)'
        BY <1>7, <4>2, <4>3
      <4>6. \A x \in SkBundles : skDir[x] = "ok" => skDir'[x] = "ok"
        BY <1>4
      <4>7. skProc' = skProc /\ skCurrent' = skCurrent /\ skHost' = skHost
        BY <1>0, <1>7
      <4> QED
        BY <4>1, <4>4, <4>5, <4>6, <4>7 DEF SkUnder
    <3> QED
      BY <3>1, <3>2, <3>3 DEF SkAlone
  <2>4. SkGoesBack'
    <3> SUFFICES ASSUME ~skMixed', skFaults' = 0 PROVE SkGoesBack'
      BY DEF SkGoesBack
    <3>1. skDir' = skDir /\ SkThere(skDir') = SkThere(skDir) /\ ~skMixed /\ skFaults = 0 /\ SkGoesBack
          /\ \A x \in SkBundles : skDir[x] # "corrupt"
      BY <1>4, <1>7 DEF SkInv
    <3>2. SkFew => SkFew'
      BY <3>1 DEF SkFew, SkThere
    <3>3. skPrev'[skCurrent] = skPrev[skCurrent] /\ skCurrent' = skCurrent
      BY <1>0, <1>4, <1>5
    <3>4. SkBusy' = {} => SkFew' /\ (skPrev[skCurrent] # SkNone => skDir[skPrev[skCurrent]] = "ok")'
      BY <2>1, <3>1, <3>2, <3>3 DEF SkGoesBack
    <3>5. ASSUME NEW q \in SkBusy' PROVE SkBound(skProc[q])'
      <4>1. /\ SkBound(skProc[q]) /\ SkUnder(skProc[q])
            /\ skProc[q].pc # "idle" /\ skProc[q].b \in SkBundles
            /\ skProc[q].pc \in {"idle", "copy", "activate", "place", "undo"}
        BY <2>1, <3>1, <3>5 DEF SkGoesBack, SkAlone, SkInv, SkTypes, SkTurn, SkBusy
      <4>2. skProc[q].pc # "copy" => skDir[skProc[q].b] = "ok"
        BY <4>1 DEF SkUnder
      <4>3. skProc[q].pc # "copy" => skPrev'[skProc[q].b] = skPrev[skProc[q].b]
        BY <1>4, <4>1, <4>2
      <4>4. skProc[q].pc = "copy" => skProc[q].b # skProc[q].pred
        BY <4>1 DEF SkBound
      <4>5. skProc' = skProc /\ skCurrent' = skCurrent
        BY <1>0, <1>7
      <4> QED
        BY <3>1, <3>2, <4>1, <4>3, <4>4, <4>5 DEF SkBound
    <3> QED
      BY <3>1, <3>4, <3>5 DEF SkGoesBack
  <2> QED
    BY <1>4, <2>2, <2>3, <2>4 DEF SkInv
<1> QED
  BY <1>D, <1>6, <1>7 DEF SkRollback

\* A step that leaves the directories.
LEMMA SkSame ==
  ASSUME SkInv, UNCHANGED <<skDir, skNewer>>
  PROVE  /\ SkOrdered' /\ IsFiniteSet(SkThere(skDir')) /\ (SkFew => SkFew')
         /\ skDir' \in [SkBundles -> {"none", "ok", "corrupt"}]
         /\ \A x : SkReadable(x) => SkReadable(x)'
BY DEF SkInv, SkTypes, SkOrdered, SkThere, SkFew, SkReadable

\* The copy is in its place, or the sync ends.
LEMMA SkCopyStep ==
  ASSUME SkInv, NEW p \in SkProcs, SkCopy(p)
  PROVE  SkInv'
<1>r. PICK r : r = skProc[p]
  OBVIOUS
<1>0. /\ r.pc = "copy" /\ UNCHANGED <<skCurrent, skHost>>
  BY <1>r DEF SkCopy
<1>h. /\ r \in SkTurn /\ r.was \in SkWas /\ r.b \in SkBundles
      /\ skDir \in [SkBundles -> {"none", "ok", "corrupt"}] /\ skPrev \in [SkBundles -> SkMaybe]
      /\ skCurrent \in SkMaybe /\ skHost \in SkMaybe /\ skFaults \in Nat /\ skMixed \in BOOLEAN
      /\ IsFiniteSet(SkThere(skDir)) /\ SkOrdered
      /\ ~skMixed => SkBusy \subseteq {p} /\ SkUnder(r)
      /\ ~skMixed /\ skFaults = 0 => \A b \in SkBundles : skDir[b] # "corrupt"
      /\ ~skMixed /\ skFaults = 0 => SkBound(r)
  BY <1>0, <1>r, SkHas
<1>1. CASE /\ skDir' = [skDir EXCEPT ![r.b] = "ok"] /\ skNewer' = SkTouch(r.b, skDir)
           /\ skPrev' = [skPrev EXCEPT ![r.b] = r.pred]
           /\ SkSet(p, [r EXCEPT !.pc = "activate", !.reuse = FALSE])
           /\ UNCHANGED <<skFaults, skMixed>>
  <2>n. PICK n : n = [r EXCEPT !.pc = "activate", !.reuse = FALSE]
    OBVIOUS
  <2>1. n \in SkTurn /\ n.pc = "activate" /\ n.b = r.b /\ n.pred = r.pred /\ n.at = r.at
        /\ n.rollback = r.rollback
    BY <1>h, <2>n DEF SkTurn
  <2>2. SkThere(skDir') = SkThere(skDir) \cup {r.b}
    BY <1>1, <1>h DEF SkThere
  <2>3. SkOrdered' /\ IsFiniteSet(SkThere(skDir'))
    BY <1>1, <1>h, <2>2, SkOrderTouched
  <2>4. /\ skDir' \in [SkBundles -> {"none", "ok", "corrupt"}] /\ skPrev' \in [SkBundles -> SkMaybe]
        /\ \A x \in SkBundles : skDir'[x] = IF x = r.b THEN "ok" ELSE skDir[x]
    <3>1. r.pred \in SkMaybe
      BY <1>h DEF SkTurn
    <3> QED
      BY <1>1, <1>h, <3>1
  <2>5. ASSUME ~skMixed' PROVE SkUnder(n)'
    <3>1. SkUnder(r)
      BY <1>1, <1>h, <2>5
    <3>2. skHost = skCurrent /\ r.at = 0 /\ (skCurrent # r.b => SkReadable(skCurrent)) /\ ~r.rollback
      BY <1>0, <3>1 DEF SkUnder
    <3>3. SkReadable(skCurrent)'
      BY <1>0, <1>h, <2>4, <3>2, SkAssumption DEF SkReadable, SkMaybe
    <3> QED
      BY <1>0, <1>h, <2>1, <2>4, <3>2, <3>3 DEF SkUnder
  <2>6. ASSUME ~skMixed', skFaults' = 0 PROVE SkBound(n)'
    <3>1. SkBound(r) /\ SkUnder(r)
      BY <1>1, <1>h, <2>6
    <3>2. /\ r.pred \in SkBundles /\ skDir[r.pred] = "ok" /\ r.b # r.pred /\ skCurrent = r.pred
          /\ r.at = 0 /\ ~r.rollback
      BY <1>0, <3>1 DEF SkBound, SkUnder
    <3> QED
      BY <1>0, <2>1, <2>4, <3>2 DEF SkBound
  <2>7. ~skMixed' /\ skFaults' = 0 => \A x \in SkBundles : skDir'[x] # "corrupt"
    BY <1>1, <1>h, <2>4
  <2>8. SkSet(p, n) /\ skFaults' \in Nat /\ skMixed' \in BOOLEAN /\ (~skMixed' => SkBusy \subseteq {p})
        /\ skCurrent' \in SkMaybe /\ skHost' \in SkMaybe
    BY <1>0, <1>1, <1>h, <2>n
  <2> QED
    BY <1>h, <2>1, <2>3, <2>4, <2>5, <2>6, <2>7, <2>8, SkSteps
<1>2. CASE /\ SkFault /\ SkSet(p, SkIdle) /\ skMixed' = (skMixed \/ skCurrent = r.b)
           /\ UNCHANGED <<skDir, skNewer, skPrev>>
  <2>1. SkIdle \in SkTurn /\ SkIdle.pc = "idle"
    BY DEF SkIdle, SkTurn, SkWas, SkMaybe
  <2>2. skFaults' \in Nat /\ skFaults' # 0
    BY <1>2, <1>h DEF SkFault
  <2>3. /\ SkOrdered' /\ IsFiniteSet(SkThere(skDir'))
        /\ skDir' \in [SkBundles -> {"none", "ok", "corrupt"}]
        /\ \A x : SkReadable(x) => SkReadable(x)'
    BY <1>2, SkSame
  <2>4. skMixed' \in BOOLEAN /\ (~skMixed' => ~skMixed /\ skCurrent # r.b)
    BY <1>2, <1>h
  <2>5. ~skMixed' => SkReadable(skCurrent)' /\ skHost' = skCurrent'
    BY <1>0, <1>h, <2>3, <2>4 DEF SkUnder, SkReadable
  <2>6. /\ skPrev' \in [SkBundles -> SkMaybe] /\ skCurrent' \in SkMaybe /\ skHost' \in SkMaybe
        /\ ~skMixed' => SkBusy \subseteq {p}
    BY <1>0, <1>2, <1>h, <2>4
  <2>7. SkSet(p, SkIdle)
    BY <1>2
  <2> QED
    BY <2>1, <2>2, <2>3, <2>4, <2>5, <2>6, <2>7, SkSteps
<1> QED
  BY <1>r, <1>1, <1>2 DEF SkCopy

\* A step of a transaction that renames: the directories stay.
LEMMA SkRenames ==
  ASSUME SkInv, NEW p \in SkProcs, skProc[p].pc # "idle",
         NEW n \in SkTurn, SkSet(p, n), n.b = skProc[p].b, n.pc # "idle",
         n.pc \in {"place", "undo"} => n.at < 3,
         UNCHANGED <<skDir, skMixed>>, SkOrdered',
         skPrev' \in [SkBundles -> SkMaybe], skCurrent' \in SkMaybe, skHost' \in SkMaybe,
         skFaults' \in Nat, skFaults' = 0 => skFaults = 0,
         ~skMixed => SkUnder(n)', ~skMixed /\ skFaults' = 0 => SkBound(n)'
  PROVE  SkInv'
<1>h. /\ skProc[p].b \in SkBundles
      /\ skDir \in [SkBundles -> {"none", "ok", "corrupt"}] /\ skMixed \in BOOLEAN
      /\ IsFiniteSet(SkThere(skDir))
      /\ ~skMixed => SkBusy \subseteq {p}
      /\ ~skMixed /\ skFaults = 0 => \A b \in SkBundles : skDir[b] # "corrupt"
  BY SkHas
<1>1. IsFiniteSet(SkThere(skDir'))
  BY <1>h
<1>2. /\ skDir' \in [SkBundles -> {"none", "ok", "corrupt"}] /\ skMixed' \in BOOLEAN
      /\ ~skMixed' => SkBusy \subseteq {p}
      /\ ~skMixed' /\ skFaults' = 0 => \A b \in SkBundles : skDir'[b] # "corrupt"
  BY <1>h
<1> QED
  BY <1>h, <1>1, <1>2, SkSteps

\* An artifact is set aside.
LEMMA SkAsideStep ==
  ASSUME SkInv, NEW p \in SkProcs, SkAside(p)
  PROVE  SkInv'
<1>r. PICK r : r = skProc[p]
  OBVIOUS
<1>0. r.pc = "activate" /\ r.at < 3 /\ UNCHANGED <<skDir, skNewer, skLimits, skMixed>>
  BY <1>r DEF SkAside
<1>h. /\ r \in SkTurn /\ r.was \in SkWas /\ r.b \in SkBundles /\ r.at \in 0..2
      /\ skPrev \in [SkBundles -> SkMaybe]
      /\ skCurrent \in SkMaybe /\ skHost \in SkMaybe /\ skFaults \in Nat
      /\ ~skMixed => SkUnder(r)
      /\ ~skMixed /\ skFaults = 0 => SkBound(r)
  <2>1. r \in SkTurn
    BY <1>r, SkHas
  <2>2. r.at \in 0..2
    BY <1>0, <2>1 DEF SkTurn
  <2> QED
    BY <1>0, <1>r, <2>2, SkHas
<1>s. SkOrdered' /\ (SkFew => SkFew') /\ \A x : SkReadable(x) => SkReadable(x)'
  BY <1>0, SkSame
<1>n. /\ SkArtifact(r) = "host" <=> r.at = 0
      /\ SkArtifact(r) = "marker" <=> r.at = 1
      /\ SkArtifact(r) = "current" <=> r.at = 2
  BY <1>h, SkNth
<1>t. skPrev[r.b] \in SkMaybe /\ SkNone \in SkMaybe /\ SkNone \notin SkBundles
  BY <1>h, SkAssumption DEF SkMaybe
<1>f. skFaults' = skFaults /\ skFaults' \in Nat
  BY <1>0, <1>h DEF skLimits
<1>1. CASE r.at = 1 /\ SkSkipsMarker(r)
  <2>1. SkSet(p, [r EXCEPT !.at = @ + 1, !.was.marker = skPrev[r.b]]) /\ UNCHANGED skLinks
    BY <1>r, <1>n, <1>1 DEF SkAside
  <2>n. PICK n : n = [r EXCEPT !.at = @ + 1, !.was.marker = skPrev[r.b]]
    OBVIOUS
  <2>2. n \in SkTurn /\ n.pc = "activate" /\ n.b = r.b /\ n.pred = r.pred /\ n.at = 2
        /\ n.rollback = r.rollback /\ n.reuse = r.reuse /\ n.was.host = r.was.host
    <3>1. PICK w : w = [r.was EXCEPT !.marker = skPrev[r.b]]
      OBVIOUS
    <3>2. w \in SkWas /\ w.host = r.was.host
      BY <1>h, <1>t, <3>1 DEF SkWas
    <3>3. r.at + 1 = 2 /\ n = [r EXCEPT !.at = @ + 1, !.was = w]
      BY <1>1, <1>h, <2>n, <3>1 DEF SkTurn
    <3>4. n = [r EXCEPT !.at = 2, !.was = w]
      BY <3>3
    <3>5. r \in SkTurn /\ r.pc = "activate" /\ w \in SkWas /\ 2 \in 0..3
      BY <1>0, <1>h, <3>2
    <3>6. n \in SkTurn
      BY <3>4, <3>5 DEF SkTurn
    <3>7. n.pc = "activate" /\ n.b = r.b /\ n.pred = r.pred /\ n.at = 2 /\ n.rollback = r.rollback /\ n.reuse = r.reuse
          /\ n.was = w
      BY <3>4, <3>5 DEF SkTurn
    <3> QED
      BY <3>2, <3>6, <3>7
  <2>3. UNCHANGED <<skPrev, skCurrent, skHost>>
    BY <2>1 DEF skLinks
  <2>4. ~skMixed => SkUnder(n)'
    BY <1>0, <1>h, <1>s, <1>1, <2>2, <2>3 DEF SkUnder
  <2>5. ASSUME ~skMixed, skFaults' = 0 PROVE SkBound(n)'
    <3>1. SkBound(r)
      BY <1>f, <1>h, <2>5
    <3>2. r.pred = r.b
      BY <1>0, <1>t, <1>1, <3>1 DEF SkBound, SkSkipsMarker
    <3> QED
      BY <1>0, <1>s, <1>1, <2>2, <2>3, <3>1, <3>2 DEF SkBound
  <2>6. SkSet(p, n)
    BY <2>1, <2>n
  <2> QED
    BY <1>0, <1>r, <1>h, <1>s, <1>f, <2>2, <2>3, <2>4, <2>5, <2>6, SkRenames
<1>2. CASE r.at = 1 /\ ~SkSkipsMarker(r)
  <2>1. SkSet(p, [r EXCEPT !.pc = "place", !.was.marker = skPrev[r.b]]) /\ UNCHANGED skLinks
    BY <1>r, <1>n, <1>2 DEF SkAside
  <2>n. PICK n : n = [r EXCEPT !.pc = "place", !.was.marker = skPrev[r.b]]
    OBVIOUS
  <2>2. n \in SkTurn /\ n.pc = "place" /\ n.b = r.b /\ n.pred = r.pred /\ n.at = 1
        /\ n.rollback = r.rollback /\ n.reuse = r.reuse /\ n.was.host = r.was.host
    BY <1>0, <1>h, <1>t, <1>2, <2>n DEF SkTurn, SkWas
  <2>3. UNCHANGED <<skPrev, skCurrent, skHost>>
    BY <2>1 DEF skLinks
  <2>4. ~skMixed => SkUnder(n)'
    BY <1>0, <1>h, <1>s, <1>2, <2>2, <2>3 DEF SkUnder
  <2>5. ~skMixed /\ skFaults' = 0 => SkBound(n)'
    BY <1>0, <1>h, <1>f, <1>s, <1>2, <2>2, <2>3 DEF SkBound, SkSkipsMarker
  <2>6. SkSet(p, n)
    BY <2>1, <2>n
  <2> QED
    BY <1>0, <1>r, <1>h, <1>s, <1>f, <2>2, <2>3, <2>4, <2>5, <2>6, SkRenames
<1>3. CASE r.at = 0
  <2>1. /\ SkSet(p, [r EXCEPT !.pc = "place", !.was.host = skHost])
        /\ skHost' = SkNone /\ UNCHANGED <<skPrev, skCurrent>>
    BY <1>r, <1>n, <1>3 DEF SkAside
  <2>n. PICK n : n = [r EXCEPT !.pc = "place", !.was.host = skHost]
    OBVIOUS
  <2>2. n \in SkTurn /\ n.pc = "place" /\ n.b = r.b /\ n.pred = r.pred /\ n.at = 0
        /\ n.rollback = r.rollback /\ n.reuse = r.reuse /\ n.was.host = skHost
    BY <1>0, <1>h, <1>3, <2>n DEF SkTurn, SkWas
  <2>4. ~skMixed => SkUnder(n)'
    BY <1>0, <1>h, <1>s, <1>3, <2>1, <2>2 DEF SkUnder
  <2>5. ~skMixed /\ skFaults' = 0 => SkBound(n)'
    BY <1>0, <1>h, <1>f, <1>s, <1>3, <2>1, <2>2 DEF SkBound
  <2>6. SkSet(p, n)
    BY <2>1, <2>n
  <2> QED
    BY <1>0, <1>r, <1>h, <1>s, <1>f, <1>t, <2>1, <2>2, <2>4, <2>5, <2>6, SkRenames
<1>4. CASE r.at = 2
  <2>1. /\ SkSet(p, [r EXCEPT !.pc = "place", !.was.current = skCurrent])
        /\ skCurrent' = SkNone /\ UNCHANGED <<skPrev, skHost>>
    BY <1>r, <1>n, <1>4 DEF SkAside
  <2>n. PICK n : n = [r EXCEPT !.pc = "place", !.was.current = skCurrent]
    OBVIOUS
  <2>2. n \in SkTurn /\ n.pc = "place" /\ n.b = r.b /\ n.pred = r.pred /\ n.at = 2
        /\ n.rollback = r.rollback /\ n.reuse = r.reuse /\ n.was.host = r.was.host /\ n.was.current = skCurrent
    BY <1>0, <1>h, <1>4, <2>n DEF SkTurn, SkWas
  <2>4. ~skMixed => SkUnder(n)'
    BY <1>0, <1>h, <1>s, <1>4, <2>1, <2>2 DEF SkUnder
  <2>5. ~skMixed /\ skFaults' = 0 => SkBound(n)'
    BY <1>0, <1>h, <1>f, <1>s, <1>4, <2>1, <2>2 DEF SkBound
  <2>6. SkSet(p, n)
    BY <2>1, <2>n
  <2> QED
    BY <1>0, <1>r, <1>h, <1>s, <1>f, <1>t, <2>1, <2>2, <2>4, <2>5, <2>6, SkRenames
<1> QED
  BY <1>h, <1>1, <1>2, <1>3, <1>4

\* The new artifact is in its place.
LEMMA SkPlaceStep ==
  ASSUME SkInv, NEW p \in SkProcs, SkPlace(p)
  PROVE  SkInv'
<1>r. PICK r : r = skProc[p]
  OBVIOUS
<1>0. /\ r.pc = "place" /\ UNCHANGED <<skDir, skLimits, skMixed>>
      /\ SkSet(p, [r EXCEPT !.pc = "activate", !.at = @ + 1])
      /\ skHost' = (IF SkArtifact(r) = "host" THEN r.b ELSE skHost)
      /\ skPrev' = (IF SkArtifact(r) = "marker" THEN [skPrev EXCEPT ![r.b] = r.pred] ELSE skPrev)
      /\ skCurrent' = (IF SkArtifact(r) = "current" THEN r.b ELSE skCurrent)
      /\ skNewer' = (IF SkArtifact(r) = "marker" /\ skDir[r.b] # "none" THEN SkTouch(r.b, skDir) ELSE skNewer)
  BY <1>r DEF SkPlace
<1>h. /\ r \in SkTurn /\ r.was \in SkWas /\ r.b \in SkBundles /\ r.at \in 0..2
      /\ skPrev \in [SkBundles -> SkMaybe] /\ IsFiniteSet(SkThere(skDir)) /\ SkOrdered
      /\ skCurrent \in SkMaybe /\ skHost \in SkMaybe /\ skFaults \in Nat
      /\ ~skMixed => SkUnder(r)
      /\ ~skMixed /\ skFaults = 0 => SkBound(r)
  BY <1>0, <1>r, SkHas
<1>n. /\ SkArtifact(r) = "host" <=> r.at = 0
      /\ SkArtifact(r) = "marker" <=> r.at = 1
      /\ SkArtifact(r) = "current" <=> r.at = 2
  BY <1>h, SkNth
<1>t. r.b \in SkMaybe /\ r.pred \in SkMaybe
  BY <1>h DEF SkTurn, SkMaybe
<1>f. skFaults' = skFaults /\ skFaults' \in Nat
  BY <1>0, <1>h DEF skLimits
<1>s. SkOrdered' /\ (SkFew => SkFew') /\ \A x : SkReadable(x) => SkReadable(x)'
  <2>1. (SkFew => SkFew') /\ \A x : SkReadable(x) => SkReadable(x)'
    BY <1>0 DEF SkFew, SkReadable, SkThere
  <2>2. SkOrdered'
    <3>1. CASE SkArtifact(r) = "marker" /\ skDir[r.b] # "none"
      <4>1. SkThere(skDir') = SkThere(skDir) \cup {r.b}
        BY <1>0, <1>h, <3>1 DEF SkThere
      <4> QED
        BY <1>0, <1>h, <3>1, <4>1, SkOrderTouched
    <3>2. CASE ~(SkArtifact(r) = "marker" /\ skDir[r.b] # "none")
      BY <1>0, <3>2, SkSame
    <3> QED
      BY <3>1, <3>2
  <2> QED
    BY <2>1, <2>2
<1>p. PICK n : n = [r EXCEPT !.pc = "activate", !.at = @ + 1]
  OBVIOUS
<1>1. n \in SkTurn /\ n.pc = "activate" /\ n.b = r.b /\ n.pred = r.pred /\ n.at = r.at + 1
      /\ n.rollback = r.rollback /\ n.reuse = r.reuse /\ n.was = r.was
  <2>1. PICK k \in 0..3 : k = r.at + 1
    BY <1>h
  <2>2. n = [r EXCEPT !.pc = "activate", !.at = k]
    BY <1>p, <2>1
  <2> QED
    BY <1>h, <2>1, <2>2 DEF SkTurn
<1>2. skPrev' \in [SkBundles -> SkMaybe] /\ skCurrent' \in SkMaybe /\ skHost' \in SkMaybe
  BY <1>0, <1>h, <1>t
<1>3. ASSUME ~skMixed PROVE SkUnder(n)'
  <2>0. SkUnder(r) /\ n.at = r.at + 1
    BY <1>h, <1>1, <1>3
  <2>b. n.reuse => ~n.rollback
    BY <1>1, <2>0 DEF SkUnder
  <2>1. CASE r.at = 0
    <3>1. n.at = 1 /\ skHost' = r.b /\ skCurrent' = skCurrent
      BY <1>0, <1>n, <2>0, <2>1
    <3>2. r.was.host = skCurrent /\ SkReadable(skCurrent) /\ skDir[r.b] = "ok"
      BY <1>0, <2>0, <2>1 DEF SkUnder
    <3> QED
      BY <1>0, <1>s, <1>1, <2>b, <3>1, <3>2 DEF SkUnder
  <2>2. CASE r.at = 1
    <3>1. n.at = 2 /\ skHost' = skHost /\ skCurrent' = skCurrent
      BY <1>0, <1>n, <2>0, <2>2
    <3>2. skHost = r.b /\ r.was.host = skCurrent /\ SkReadable(skCurrent) /\ skDir[r.b] = "ok"
      BY <1>0, <2>0, <2>2 DEF SkUnder
    <3> QED
      BY <1>0, <1>s, <1>1, <2>b, <3>1, <3>2 DEF SkUnder
  <2>3. CASE r.at = 2
    <3>1. n.at = 3 /\ skHost' = skHost /\ skCurrent' = r.b
      BY <1>0, <1>n, <2>0, <2>3
    <3>2. skHost = r.b /\ skDir[r.b] = "ok"
      BY <1>0, <2>0, <2>3 DEF SkUnder
    <3> QED
      BY <1>0, <1>1, <2>b, <3>1, <3>2 DEF SkUnder
  <2> QED
    BY <1>h, <2>1, <2>2, <2>3
<1>4. ASSUME ~skMixed, skFaults' = 0 PROVE SkBound(n)'
  <2>0. SkBound(r) /\ n.at = r.at + 1 /\ r.pred \in SkBundles /\ skDir'[r.pred] = "ok"
        /\ (r.b = r.pred \/ r.rollback => SkFew') /\ (r.rollback => r.b # r.pred)
    BY <1>0, <1>h, <1>f, <1>s, <1>1, <1>4 DEF SkBound
  <2>1. CASE r.at = 0
    <3>1. n.at = 1 /\ skCurrent' = skCurrent /\ skPrev' = skPrev
      BY <1>0, <1>n, <2>0, <2>1
    <3> QED
      BY <1>0, <1>1, <2>0, <2>1, <3>1 DEF SkBound
  <2>2. CASE r.at = 1
    <3>1. n.at = 2 /\ skCurrent' = skCurrent /\ skPrev'[r.b] = r.pred /\ r.b # r.pred
      BY <1>0, <1>h, <1>n, <2>0, <2>2 DEF SkBound
    <3> QED
      BY <1>0, <1>1, <2>0, <2>2, <3>1 DEF SkBound
  <2>3. CASE r.at = 2
    <3>1. n.at = 3 /\ skPrev' = skPrev
      BY <1>0, <1>n, <2>0, <2>3
    <3> QED
      BY <1>0, <1>1, <2>0, <2>3, <3>1 DEF SkBound
  <2> QED
    BY <1>h, <2>1, <2>2, <2>3
<1>5. SkSet(p, n)
  BY <1>0, <1>p
<1> QED
  BY <1>0, <1>r, <1>h, <1>s, <1>f, <1>1, <1>2, <1>3, <1>4, <1>5, SkRenames

\* A rename fails: what was set aside is back, and the rest is taken back next.
LEMMA SkRenameFailsStep ==
  ASSUME SkInv, NEW p \in SkProcs, SkRenameFails(p)
  PROVE  SkInv'
<1>r. PICK r : r = skProc[p]
  OBVIOUS
<1>0. /\ r.pc \in {"activate", "place"} /\ r.at < 3 /\ SkFault
      /\ SkSet(p, [r EXCEPT !.pc = "undo"])
      /\ skHost' = (IF r.pc = "place" /\ SkArtifact(r) = "host" THEN r.was.host ELSE skHost)
      /\ skCurrent' = (IF r.pc = "place" /\ SkArtifact(r) = "current" THEN r.was.current ELSE skCurrent)
      /\ UNCHANGED <<skDir, skNewer, skPrev, skMixed>>
  BY <1>r DEF SkRenameFails
<1>h. /\ r \in SkTurn /\ r.was \in SkWas /\ r.b \in SkBundles /\ r.at \in 0..2
      /\ skPrev \in [SkBundles -> SkMaybe]
      /\ skCurrent \in SkMaybe /\ skHost \in SkMaybe /\ skFaults \in Nat
      /\ ~skMixed => SkUnder(r)
  <2>1. r \in SkTurn
    BY <1>r, SkHas
  <2>2. r.at \in 0..2
    BY <1>0, <2>1 DEF SkTurn
  <2> QED
    BY <1>0, <1>r, <2>2, SkHas
<1>s. SkOrdered' /\ \A x : SkReadable(x) => SkReadable(x)'
  BY <1>0, SkSame
<1>n. /\ SkArtifact(r) = "host" <=> r.at = 0
      /\ SkArtifact(r) = "current" <=> r.at = 2
  BY <1>h, SkNth
<1>f. skFaults' \in Nat /\ skFaults' # 0
  BY <1>0, <1>h DEF SkFault
<1>p. PICK n : n = [r EXCEPT !.pc = "undo"]
  OBVIOUS
<1>1. n \in SkTurn /\ n.pc = "undo" /\ n.b = r.b /\ n.at = r.at /\ n.was = r.was
      /\ n.rollback = r.rollback /\ n.reuse = r.reuse
  BY <1>h, <1>p DEF SkTurn
<1>2. skPrev' \in [SkBundles -> SkMaybe] /\ skCurrent' \in SkMaybe /\ skHost' \in SkMaybe
  <2>1. r.was.host \in SkMaybe /\ r.was.current \in SkMaybe
    BY <1>h DEF SkWas
  <2> QED
    BY <1>0, <1>h, <2>1
<1>3. ASSUME ~skMixed PROVE SkUnder(n)'
  <2>0. SkUnder(r)
    BY <1>h, <1>3
  <2>1. CASE r.at = 0
    <3>1. skHost' = skCurrent' /\ SkReadable(skCurrent)'
      BY <1>0, <1>n, <1>s, <2>0, <2>1 DEF SkUnder
    <3> QED
      BY <1>0, <1>1, <2>0, <2>1, <3>1 DEF SkUnder
  <2>2. CASE r.at = 1
    <3>1. skHost' = skHost /\ skCurrent' = skCurrent
      BY <1>0, <1>n, <2>2
    <3> QED
      BY <1>0, <1>s, <1>1, <2>0, <2>2, <3>1 DEF SkUnder
  <2>3. CASE r.at = 2
    <3>1. skHost' = skHost
      BY <1>0, <1>n, <2>3
    <3>2. skHost = r.b /\ r.was.host = skCurrent' /\ SkReadable(skCurrent)'
      BY <1>0, <1>n, <1>s, <2>0, <2>3 DEF SkUnder
    <3> QED
      BY <1>0, <1>1, <2>0, <2>3, <3>1, <3>2 DEF SkUnder
  <2> QED
    BY <1>h, <2>1, <2>2, <2>3
<1>4. SkSet(p, n)
  BY <1>0, <1>p
<1> QED
  BY <1>0, <1>r, <1>h, <1>s, <1>f, <1>1, <1>2, <1>3, <1>4, SkRenames

\* A committed artifact is taken back.
LEMMA SkUndoStep ==
  ASSUME SkInv, NEW p \in SkProcs, SkUndo(p)
  PROVE  SkInv'
<1>r. PICK r : r = skProc[p]
  OBVIOUS
<1>0. /\ r.pc = "undo" /\ r.at > 0
      /\ SkSet(p, [r EXCEPT !.at = @ - 1])
      /\ skHost' = (IF r.at = 1 THEN r.was.host ELSE skHost)
      /\ skPrev' = (IF r.at = 2 THEN [skPrev EXCEPT ![r.b] = r.was.marker] ELSE skPrev)
      /\ UNCHANGED <<skDir, skNewer, skCurrent, skLimits, skMixed>>
  BY <1>r DEF SkUndo
<1>h. /\ r \in SkTurn /\ r.was \in SkWas /\ r.b \in SkBundles /\ r.at \in 0..2
      /\ skPrev \in [SkBundles -> SkMaybe]
      /\ skCurrent \in SkMaybe /\ skHost \in SkMaybe /\ skFaults \in Nat
      /\ ~skMixed => SkUnder(r)
      /\ ~skMixed /\ skFaults = 0 => SkBound(r)
  BY <1>0, <1>r, SkHas
<1>s. SkOrdered' /\ \A x : SkReadable(x) => SkReadable(x)'
  BY <1>0, SkSame
<1>f. skFaults' = skFaults
  BY <1>0 DEF skLimits
<1>k. PICK k \in {0, 1} : k = r.at - 1
  BY <1>0, <1>h
<1>p. PICK n : n = [r EXCEPT !.at = k]
  OBVIOUS
<1>1. n \in SkTurn /\ n.pc = "undo" /\ n.b = r.b /\ n.at = k /\ n.was = r.was
      /\ n.rollback = r.rollback /\ n.reuse = r.reuse
  BY <1>0, <1>h, <1>p DEF SkTurn
<1>2. skPrev' \in [SkBundles -> SkMaybe] /\ skCurrent' \in SkMaybe /\ skHost' \in SkMaybe
  <2>1. r.was.host \in SkMaybe /\ r.was.marker \in SkMaybe
    BY <1>h DEF SkWas
  <2> QED
    BY <1>0, <1>h, <2>1
<1>3. ASSUME ~skMixed PROVE SkUnder(n)'
  <2>0. SkUnder(r) /\ r.at \in {1, 2} /\ skCurrent' = skCurrent
    BY <1>0, <1>h, <1>3
  <2>1. skHost = r.b /\ r.was.host = skCurrent /\ SkReadable(skCurrent) /\ skDir[r.b] = "ok"
        /\ (r.reuse => ~r.rollback)
    BY <1>0, <2>0 DEF SkUnder
  <2>2. CASE r.at = 1
    <3>1. k = 0 /\ skHost' = skCurrent
      BY <1>0, <1>k, <2>1, <2>2
    <3> QED
      BY <1>0, <1>s, <1>1, <2>0, <2>1, <3>1 DEF SkUnder
  <2>3. CASE r.at = 2
    <3>1. k = 1 /\ skHost' = skHost
      BY <1>0, <1>k, <2>3
    <3> QED
      BY <1>0, <1>s, <1>1, <2>0, <2>1, <3>1 DEF SkUnder
  <2> QED
    BY <2>0, <2>2, <2>3
<1>4. SkSet(p, n)
  BY <1>0, <1>k, <1>p
<1>5. ~(~skMixed /\ skFaults' = 0)
  BY <1>0, <1>f, <1>h DEF SkBound
<1>6. n.at < 3
  BY <1>1
<1> QED
  BY <1>0, <1>r, <1>h, <1>s, <1>f, <1>1, <1>2, <1>3, <1>4, <1>5, <1>6, SkRenames

\* An error while taking back mixes, as does the end of a process.
LEMMA SkMixes ==
  ASSUME SkInv, NEW p \in SkProcs, NEW n \in SkTurn, SkSet(p, n),
         n.pc # "idle" => n.b \in SkBundles, n.pc \in {"place", "undo"} => n.at < 3,
         UNCHANGED <<skDir, skNewer, skLinks>>, skFaults' \in Nat, skMixed' = TRUE
  PROVE  SkInv'
<1>1. /\ skPrev \in [SkBundles -> SkMaybe] /\ skCurrent \in SkMaybe /\ skHost \in SkMaybe
      /\ UNCHANGED <<skPrev, skCurrent, skHost>>
  BY SkHas DEF skLinks
<1>2. /\ SkOrdered' /\ IsFiniteSet(SkThere(skDir'))
      /\ skDir' \in [SkBundles -> {"none", "ok", "corrupt"}]
  BY SkSame
<1>3. skPrev' \in [SkBundles -> SkMaybe] /\ skCurrent' \in SkMaybe /\ skHost' \in SkMaybe
  BY <1>1
<1> QED
  BY <1>2, <1>3, SkSteps

\* What was set aside is lost.
LEMMA SkUndoFailsStep ==
  ASSUME SkInv, NEW p \in SkProcs, SkUndoFails(p)
  PROVE  SkInv'
<1>r. PICK r : r = skProc[p]
  OBVIOUS
<1>0. /\ r.pc = "undo" /\ SkFault /\ SkSet(p, [r EXCEPT !.at = 0]) /\ skMixed' = TRUE
      /\ UNCHANGED <<skDir, skNewer, skLinks>>
  BY <1>r DEF SkUndoFails
<1>h. r \in SkTurn /\ r.b \in SkBundles /\ skFaults \in Nat
  BY <1>0, <1>r, SkHas
<1>p. PICK n : n = [r EXCEPT !.at = 0]
  OBVIOUS
<1>1. n \in SkTurn /\ n.pc = "undo" /\ n.b = r.b /\ n.at = 0
  BY <1>0, <1>h, <1>p DEF SkTurn
<1>2. skFaults' \in Nat
  BY <1>0, <1>h DEF SkFault
<1>3. SkSet(p, n)
  BY <1>0, <1>p
<1> QED
  BY <1>0, <1>h, <1>1, <1>2, <1>3, SkMixes

\* A command is killed.
LEMMA SkKilledStep ==
  ASSUME SkInv, NEW p \in SkProcs, SkKilled(p)
  PROVE  SkInv'
<1>1. SkIdle \in SkTurn /\ SkIdle.pc = "idle"
  BY DEF SkIdle, SkTurn, SkWas, SkMaybe
<1>2. SkSet(p, SkIdle) /\ UNCHANGED <<skDir, skNewer, skLinks, skFaults>> /\ skMixed' = TRUE
  BY DEF SkKilled
<1>3. skFaults \in Nat
  BY SkHas
<1> QED
  BY <1>1, <1>2, <1>3, SkMixes

\* A failed transaction has put back host files and link; a reused bundle is copied again.
LEMMA SkFailsStep ==
  ASSUME SkInv, NEW p \in SkProcs, SkFails(p)
  PROVE  SkInv'
<1>r. PICK r : r = skProc[p]
  OBVIOUS
<1>0. /\ r.pc = "undo" /\ r.at = 0 /\ skPrev' = SkMarkers(skDir')
      /\ UNCHANGED <<skCurrent, skHost, skLimits, skMixed>>
  BY <1>r DEF SkFails
<1>h. /\ r \in SkTurn /\ r.was \in SkWas /\ r.b \in SkBundles
      /\ skDir \in [SkBundles -> {"none", "ok", "corrupt"}] /\ skPrev \in [SkBundles -> SkMaybe]
      /\ skCurrent \in SkMaybe /\ skHost \in SkMaybe /\ skFaults \in Nat /\ skMixed \in BOOLEAN
      /\ IsFiniteSet(SkThere(skDir)) /\ SkOrdered
      /\ ~skMixed => SkBusy \subseteq {p} /\ SkUnder(r)
      /\ ~skMixed /\ skFaults = 0 => SkBound(r)
  BY <1>0, <1>r, SkHas
<1>f. skFaults' = skFaults /\ ~(~skMixed /\ skFaults = 0)
  BY <1>0, <1>h DEF skLimits, SkBound
<1>u. ~skMixed => /\ skHost = skCurrent /\ SkReadable(skCurrent) /\ (r.reuse => ~r.rollback)
  BY <1>0, <1>h DEF SkUnder
<1>1. CASE r.reuse
  <2>1. /\ skDir' = [skDir EXCEPT ![r.b] = "none"] /\ skNewer' = SkKept(skDir', skNewer)
        /\ SkSet(p, [r EXCEPT !.pc = "copy", !.was = SkIdle.was])
    BY <1>r, <1>1 DEF SkFails
  <2>n. PICK n : n = [r EXCEPT !.pc = "copy", !.was = SkIdle.was]
    OBVIOUS
  <2>2. n \in SkTurn /\ n.pc = "copy" /\ n.b = r.b /\ n.at = 0 /\ n.rollback = r.rollback
    <3>1. SkIdle.was \in SkWas
      BY DEF SkIdle, SkWas, SkMaybe
    <3> QED
      BY <1>0, <1>h, <2>n, <3>1 DEF SkTurn
  <2>3. skDir' \in [SkBundles -> {"none", "ok", "corrupt"}] /\ SkThere(skDir') \subseteq SkThere(skDir)
    BY <1>h, <2>1 DEF SkThere
  <2>4. SkOrdered' /\ IsFiniteSet(SkThere(skDir'))
    BY <1>h, <2>1, <2>3, SkOrderKept
  <2>5. skPrev' \in [SkBundles -> SkMaybe]
    BY <1>0, <1>h DEF SkMarkers, SkMaybe
  <2>6. ASSUME ~skMixed PROVE SkUnder(n)'
    <3>1. skCurrent # r.b => SkReadable(skCurrent)'
      BY <1>0, <1>h, <1>u, <2>1, <2>6 DEF SkReadable, SkMaybe
    <3> QED
      BY <1>0, <1>u, <1>1, <2>2, <2>6, <3>1 DEF SkUnder
  <2>7. SkSet(p, n)
    BY <2>1, <2>n
  <2> QED
    BY <1>0, <1>h, <1>f, <2>2, <2>3, <2>4, <2>5, <2>6, <2>7, SkSteps
<1>2. CASE ~r.reuse
  <2>1. SkSet(p, SkIdle) /\ UNCHANGED <<skDir, skNewer>>
    BY <1>r, <1>2 DEF SkFails
  <2>2. SkIdle \in SkTurn /\ SkIdle.pc = "idle"
    BY DEF SkIdle, SkTurn, SkWas, SkMaybe
  <2>3. /\ SkOrdered' /\ IsFiniteSet(SkThere(skDir'))
        /\ skDir' \in [SkBundles -> {"none", "ok", "corrupt"}]
        /\ \A x : SkReadable(x) => SkReadable(x)'
    BY <2>1, SkSame
  <2>4. skPrev' \in [SkBundles -> SkMaybe]
    BY <1>0, <1>h DEF SkMarkers, SkMaybe
  <2>5. ~skMixed => SkReadable(skCurrent)' /\ skHost' = skCurrent'
    BY <1>0, <1>u, <2>3
  <2> QED
    BY <1>0, <1>h, <1>f, <2>1, <2>2, <2>3, <2>4, <2>5, SkSteps
<1> QED
  BY <1>1, <1>2

\* The predecessor and what is newest is kept, and no more than the retention says.
LEMMA SkRetainStep ==
  ASSUME SkInv, NEW p \in SkProcs, SkRetain(p)
  PROVE  SkInv'
<1>r. PICK r : r = skProc[p]
  OBVIOUS
<1>K. PICK K : K = {c \in SkRows(r) : Cardinality(SkAhead(r, c)) < SkRetained}
  OBVIOUS
<1>D. PICK D : D = (IF r.rollback THEN skDir
                    ELSE [b \in SkBundles |-> IF b = r.b \/ b \in K THEN skDir[b] ELSE "none"])
  OBVIOUS
<1>0. /\ r.pc = "activate" /\ r.at = 3 /\ skDir' = D /\ skNewer' = SkKept(skDir', skNewer)
      /\ SkSet(p, SkIdle) /\ skPrev' = SkMarkers(skDir')
      /\ UNCHANGED <<skCurrent, skHost, skLimits, skMixed>>
  BY <1>r, <1>K, <1>D DEF SkRetain
<1>h. /\ r \in SkTurn /\ r.b \in SkBundles
      /\ skDir \in [SkBundles -> {"none", "ok", "corrupt"}] /\ skPrev \in [SkBundles -> SkMaybe]
      /\ skCurrent \in SkMaybe /\ skHost \in SkMaybe /\ skFaults \in Nat /\ skMixed \in BOOLEAN
      /\ IsFiniteSet(SkThere(skDir)) /\ SkOrdered
      /\ ~skMixed => SkBusy \subseteq {p} /\ SkUnder(r)
      /\ ~skMixed /\ skFaults = 0 => \A b \in SkBundles : skDir[b] # "corrupt"
      /\ ~skMixed /\ skFaults = 0 => SkBound(r)
  BY <1>0, <1>r, SkHas
<1>1. /\ D \in [SkBundles -> {"none", "ok", "corrupt"}]
      /\ \A x \in SkBundles : D[x] = IF r.rollback \/ x = r.b \/ x \in K THEN skDir[x] ELSE "none"
  BY <1>D, <1>h
<1>2. SkThere(skDir') \subseteq SkThere(skDir)
  BY <1>0, <1>1 DEF SkThere
<1>3. SkOrdered' /\ IsFiniteSet(SkThere(skDir'))
  BY <1>0, <1>h, <1>2, SkOrderKept
<1>4. /\ skPrev' \in [SkBundles -> SkMaybe]
      /\ \A x \in SkBundles : skDir'[x] # "none" => skPrev'[x] = skPrev[x]
  BY <1>0, <1>h, <1>1 DEF SkMarkers, SkMaybe
<1>5. SkIdle \in SkTurn /\ SkIdle.pc = "idle"
  BY DEF SkIdle, SkTurn, SkWas, SkMaybe
<1>6. ASSUME ~skMixed
      PROVE  /\ SkReadable(skCurrent)' /\ skHost' = skCurrent' /\ skCurrent' = r.b
             /\ skDir'[r.b] = "ok" /\ skPrev'[r.b] = skPrev[r.b]
  <2>1. skHost = r.b /\ skCurrent = r.b /\ skDir[r.b] = "ok"
    BY <1>0, <1>h, <1>6 DEF SkUnder
  <2>2. skDir'[r.b] = "ok" /\ skCurrent' = r.b /\ skHost' = r.b
    BY <1>0, <1>h, <1>1, <2>1
  <2>3. skPrev'[r.b] = skPrev[r.b]
    BY <1>h, <1>4, <2>2
  <2> QED
    BY <1>h, <2>2, <2>3, SkAssumption DEF SkReadable
<1>7. ASSUME ~skMixed, skFaults = 0
      PROVE  SkFew' /\ (skPrev[skCurrent] # SkNone => skDir[skPrev[skCurrent]] = "ok")'
  <2>0. SkBound(r) /\ SkUnder(r) /\ skDir[r.b] = "ok"
    BY <1>0, <1>h, <1>7 DEF SkUnder
  <2>b. /\ r.pred \in SkBundles /\ skDir[r.pred] = "ok"
        /\ r.b # r.pred => skPrev[r.b] = r.pred
        /\ r.b = r.pred /\ skPrev[r.b] # SkNone => skDir[skPrev[r.b]] = "ok"
        /\ r.b = r.pred \/ r.rollback => SkFew
        /\ r.rollback => r.b # r.pred
    BY <1>0, <2>0 DEF SkBound
  <2>1. CASE r.rollback
    <3>1. \A x \in SkBundles : D[x] = skDir[x]
      BY <1>1, <2>1
    <3>2. SkThere(skDir') = SkThere(skDir)
      BY <1>0, <3>1 DEF SkThere
    <3>3. SkFew'
      BY <2>b, <2>1, <3>2 DEF SkFew, SkThere
    <3>4. skPrev'[skCurrent'] = r.pred /\ skDir'[r.pred] = "ok"
      BY <1>0, <1>6, <1>7, <2>b, <2>1, <3>1
    <3> QED
      BY <3>3, <3>4
  <2>2. CASE ~r.rollback
    <3>1. SkThere(skDir') = K \cup {r.b}
      <4>1. \A x \in K : x \in SkBundles /\ skDir[x] = "ok"
        BY <1>K DEF SkRows
      <4> QED
        BY <1>0, <1>h, <1>1, <2>0, <2>2, <4>1 DEF SkThere
    <3>2. IsFiniteSet(K) /\ Cardinality(K) <= SkRetained /\ Cardinality(K) \in Nat
      BY <1>h, <1>K, SkKeptFew
    <3>3. SkFew'
      <4>1. r.b \notin K
        BY <1>K DEF SkRows
      <4>2. Cardinality(K \cup {r.b}) = Cardinality(K) + 1
        BY <3>2, <4>1, FS_AddElement
      <4>3. Cardinality(SkThere(skDir')) <= SkRetained + 1
        BY <3>1, <3>2, <4>2, SkAssumption
      <4> QED
        BY <4>3 DEF SkFew, SkThere
    <3>4. CASE r.b # r.pred
      <4>1. r.pred \in SkRows(r) /\ SkAhead(r, r.pred) = {}
        BY <2>b, <3>4 DEF SkRows, SkAhead
      <4>2. Cardinality(SkAhead(r, r.pred)) < SkRetained
        BY <4>1, FS_EmptySet, SkAssumption
      <4>3. r.pred \in K
        BY <1>K, <4>1, <4>2
      <4>4. skDir'[r.pred] = "ok" /\ skPrev'[skCurrent'] = r.pred
        BY <1>0, <1>1, <1>6, <1>7, <2>b, <3>4, <4>3
      <4> QED
        BY <3>3, <4>4
    <3>5. CASE r.b = r.pred
      <4> SUFFICES ASSUME skPrev'[skCurrent'] # SkNone PROVE skDir'[skPrev'[skCurrent']] = "ok"
        BY <3>3
      <4>x. PICK x : x = skPrev[r.b]
        OBVIOUS
      <4>1. skPrev'[skCurrent'] = x /\ x # SkNone /\ x \in SkBundles /\ skDir[x] = "ok"
        BY <1>6, <1>7, <1>h, <2>b, <3>5, <4>x DEF SkMaybe
      <4>2. CASE x = r.b
        BY <1>6, <1>7, <4>1, <4>2
      <4>3. CASE x # r.b
        <5>1. x \in SkRows(r) /\ r.b \in SkThere(skDir) /\ SkAhead(r, x) \subseteq SkThere(skDir) \ {r.b, x}
          BY <1>h, <2>0, <4>1, <4>3 DEF SkRows, SkAhead, SkThere
        <5>2. x \in SkThere(skDir) \ {r.b}
          BY <4>1, <4>3 DEF SkThere
        <5>3. IsFiniteSet(SkThere(skDir) \ {r.b})
              /\ Cardinality(SkThere(skDir) \ {r.b}) = Cardinality(SkThere(skDir)) - 1
          BY <1>h, <5>1, FS_RemoveElement
        <5>4. IsFiniteSet(SkAhead(r, x)) /\ Cardinality(SkAhead(r, x)) \in Nat
              /\ Cardinality(SkAhead(r, x)) <= Cardinality(SkThere(skDir) \ {r.b})
              /\ Cardinality(SkAhead(r, x)) # Cardinality(SkThere(skDir) \ {r.b})
          <6>1. SkAhead(r, x) \subseteq SkThere(skDir) \ {r.b} /\ SkAhead(r, x) # SkThere(skDir) \ {r.b}
            BY <5>1, <5>2
          <6> QED
            BY <5>3, <6>1, FS_Subset, FS_CardinalityType
        <5>5. Cardinality(SkThere(skDir)) \in Nat /\ Cardinality(SkThere(skDir)) <= SkRetained + 1
          BY <1>h, <2>b, <3>5, FS_CardinalityType DEF SkFew
        <5>6. Cardinality(SkAhead(r, x)) < SkRetained
          BY <5>3, <5>4, <5>5, SkAssumption
        <5>7. x \in K
          BY <1>K, <5>1, <5>6
        <5> QED
          BY <1>0, <1>1, <4>1, <5>7
      <4> QED
        BY <4>2, <4>3
    <3> QED
      BY <3>4, <3>5
  <2> QED
    BY <2>1, <2>2
<1>8. ~skMixed /\ skFaults = 0 => \A x \in SkBundles : skDir'[x] # "corrupt"
  BY <1>0, <1>h, <1>1
<1>9. skFaults' = skFaults /\ skMixed' = skMixed /\ skCurrent' = skCurrent /\ skHost' = skHost
      /\ skDir' \in [SkBundles -> {"none", "ok", "corrupt"}]
  BY <1>0, <1>1 DEF skLimits
<1> QED
  BY <1>0, <1>h, <1>3, <1>4, <1>5, <1>6, <1>7, <1>8, <1>9, SkSteps

\* Between commands a bundle that is not active rots.
LEMMA SkRotStep ==
  ASSUME SkInv, NEW b \in SkBundles, SkRot(b)
  PROVE  SkInv'
<1>0. /\ skDir[b] = "ok" /\ b # skCurrent /\ SkBusy = {} /\ SkFault
      /\ skDir' = [skDir EXCEPT ![b] = "corrupt"]
      /\ UNCHANGED <<skNewer, skPrev, skCurrent, skHost, skProc, skMixed>>
  BY DEF SkRot, skLinks
<1>1. /\ SkTypes /\ SkOrdered /\ SkAlone
      /\ skDir \in [SkBundles -> {"none", "ok", "corrupt"}] /\ skFaults \in Nat /\ skCurrent \in SkMaybe
  BY DEF SkInv, SkTypes
<1>2. skFaults' \in Nat /\ skFaults' # 0
  BY <1>0, <1>1 DEF SkFault
<1>3. skDir' \in [SkBundles -> {"none", "ok", "corrupt"}]
      /\ \A x \in SkBundles : skDir'[x] = IF x = b THEN "corrupt" ELSE skDir[x]
  BY <1>0, <1>1
<1>4. SkThere(skDir') = SkThere(skDir) /\ SkThere(skDir)' = SkThere(skDir')
  BY <1>0, <1>3 DEF SkThere
<1>5. SkTypes'
  <2>1. IsFiniteSet(SkThere(skDir))'
    BY <1>1, <1>4 DEF SkTypes
  <2> QED
    BY <1>0, <1>1, <1>2, <1>3, <2>1 DEF SkTypes
<1>6. SkOrdered'
  <2>1. SkThere(skDir)' = SkThere(skDir)
    BY <1>4
  <2>2. skNewer' = skNewer /\ SkOrdered
    BY <1>0, <1>1
  <2> QED
    BY <2>1, <2>2 DEF SkOrdered
<1>7. SkBusy' = {}
  BY <1>0 DEF SkBusy
<1>8. SkAlone'
  <2>1. SkReadable(skCurrent) => SkReadable(skCurrent)'
    BY <1>0, <1>1, <1>3 DEF SkReadable, SkMaybe
  <2> QED
    BY <1>0, <1>1, <1>7, <2>1 DEF SkAlone
<1>9. SkGoesBack'
  BY <1>2 DEF SkGoesBack
<1> QED
  BY <1>5, <1>6, <1>8, <1>9 DEF SkInv

\* Every step keeps the invariant.
LEMMA SkNextInv == SkInv /\ [SkNext]_skVars => SkInv'
<1> SUFFICES ASSUME SkInv, [SkNext]_skVars PROVE SkInv'
  OBVIOUS
<1>1. CASE \E p \in SkProcs :
               \/ \E b \in SkBundles : SkSync(p, b)
               \/ SkCopy(p) \/ SkRollback(p) \/ SkAside(p) \/ SkPlace(p) \/ SkRenameFails(p)
               \/ SkUndo(p) \/ SkUndoFails(p) \/ SkFails(p) \/ SkRetain(p) \/ SkKilled(p)
  BY <1>1, SkSyncStep, SkCopyStep, SkRollbackStep, SkAsideStep, SkPlaceStep, SkRenameFailsStep,
     SkUndoStep, SkUndoFailsStep, SkFailsStep, SkRetainStep, SkKilledStep
<1>2. CASE \E b \in SkBundles : SkRot(b)
  BY <1>2, SkRotStep
<1>3. CASE UNCHANGED skVars
  BY <1>3 DEF skVars, SkInv, SkTypes, SkOrdered, SkAlone, SkGoesBack, SkThere, SkBusy, SkUnder, SkBound,
              SkFew, SkReadable
<1> QED
  BY <1>1, <1>2, <1>3 DEF SkNext

\* The invariant holds what a host and a rollback rely on.
LEMMA SkSafeFromInv == SkInv => SkTypeOK /\ SkActiveUsable /\ SkRollbackPossible
<1> SUFFICES ASSUME SkInv PROVE SkTypeOK /\ SkActiveUsable /\ SkRollbackPossible
  OBVIOUS
<1>1. SkTypeOK
  BY DEF SkInv, SkTypes, SkTypeOK, SkTurn, SkMaybe
<1>2. SkActiveUsable
  BY DEF SkInv, SkAlone, SkActiveUsable
<1>3. SkRollbackPossible
  BY DEF SkInv, SkGoesBack, SkRollbackPossible
<1> QED
  BY <1>1, <1>2, <1>3

\* The link is switched to a bundle the same command found whole, or back.
LEMMA SkSwitches ==
  SkInv /\ [SkNext]_skVars =>
    [skCurrent' # skCurrent /\ skCurrent' # SkNone /\ skCurrent' \notin
       {skProc[p].was.current : p \in SkProcs} /\ ~skMixed => skDir[skCurrent'] = "ok"]_skVars
<1> SUFFICES ASSUME SkInv, SkNext, ~skMixed, skCurrent' # skCurrent, skCurrent' # SkNone,
                    skCurrent' \notin {skProc[p].was.current : p \in SkProcs}
             PROVE  skDir[skCurrent'] = "ok"
  OBVIOUS
<1>1. PICK p \in SkProcs : SkAside(p) \/ SkPlace(p) \/ SkRenameFails(p)
  <2>1. ASSUME NEW p \in SkProcs, NEW b \in SkBundles, SkSync(p, b) PROVE skCurrent' = skCurrent
    BY <2>1 DEF SkSync
  <2>2. ASSUME NEW p \in SkProcs, SkCopy(p) \/ SkRollback(p) \/ SkUndo(p) \/ SkFails(p) \/ SkRetain(p)
        PROVE  skCurrent' = skCurrent
    <3>1. CASE SkCopy(p)
      BY <3>1 DEF SkCopy
    <3>2. CASE SkRollback(p)
      BY <3>2 DEF SkRollback
    <3>3. CASE SkUndo(p)
      BY <3>3 DEF SkUndo
    <3>4. CASE SkFails(p)
      BY <3>4 DEF SkFails
    <3>5. CASE SkRetain(p)
      BY <3>5 DEF SkRetain
    <3> QED
      BY <2>2, <3>1, <3>2, <3>3, <3>4, <3>5
  <2>3. ASSUME NEW p \in SkProcs, SkUndoFails(p) \/ SkKilled(p) PROVE skCurrent' = skCurrent
    BY <2>3 DEF SkUndoFails, SkKilled, skLinks
  <2>4. ASSUME NEW b \in SkBundles, SkRot(b) PROVE skCurrent' = skCurrent
    BY <2>4 DEF SkRot, skLinks
  <2> QED
    BY <2>1, <2>2, <2>3, <2>4 DEF SkNext
<1>2. CASE SkAside(p)
  BY <1>2 DEF SkAside, skLinks
<1>3. CASE SkPlace(p)
  <2>1. skCurrent' = skProc[p].b /\ skProc[p].pc = "place"
    BY <1>3 DEF SkPlace
  <2>2. SkUnder(skProc[p])
    BY <2>1, SkHas
  <2> QED
    BY <2>1, <2>2 DEF SkUnder
<1>4. CASE SkRenameFails(p)
  BY <1>4 DEF SkRenameFails
<1> QED
  BY <1>1, <1>2, <1>3, <1>4

\* Any bundles, commands, failures and deaths: between commands that did not overlap, die or fail
\* beyond their rollback the active bundle is whole and is the one the hosts use; as long as
\* nothing has failed, the predecessor it records is there to go back to; and no corrupt bundle is
\* made the active one.
THEOREM BundlesAreSafe == SkSpec => SkSafe
<1>1. SkInit => SkInv
  BY SkInitInv
<1>2. SkInv /\ [SkNext]_skVars => SkInv'
  BY SkNextInv
<1>3. SkInv => SkTypeOK /\ SkActiveUsable /\ SkRollbackPossible
  BY SkSafeFromInv
<1>4. SkInv /\ [SkNext]_skVars =>
        [skCurrent' # skCurrent /\ skCurrent' # SkNone /\ skCurrent' \notin
           {skProc[p].was.current : p \in SkProcs} /\ ~skMixed => skDir[skCurrent'] = "ok"]_skVars
  BY SkSwitches
<1> QED
  BY <1>1, <1>2, <1>3, <1>4, PTL DEF SkSpec, SkSafe, SkNeverActivatesCorrupt
=============================================================================
