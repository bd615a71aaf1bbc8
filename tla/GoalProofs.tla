----------------------------- MODULE GoalProofs -----------------------------
(* Theorems about goals: the cycles that work on one and what the owner says *)
(* meanwhile (GoalCycles), the sessions that work on several (GoalOwnership),*)
(* the proposals for the roadmap (RoadmapProposals), the skills made of what *)
(* was done (SkillLifecycle) and the increments of the workstation's bundle  *)
(* (MajorKernel), for any number of each.                                    *)
EXTENDS GoalCycles, GoalOwnership, RoadmapProposals, SkillLifecycle, MajorKernel,
        FiniteSetTheorems, SequenceTheorems, TLAPS

-----------------------------------------------------------------------------
(* The cycles of a goal *)

\* What a process with the fence leaves behind when it takes any other place.
LEMMA CyCycleMoves ==
  ASSUME CyInv, NEW p \in CyPids, NEW c \in CyCycle, NEW g \in CyGoal,
         cyCycle' = [cyCycle EXCEPT ![p] = c], cyGoal' = g, cyLate' \in BOOLEAN,
         c.pc \in {"routing", "worker", "after"} =>
           CyHasFence(p) \/ \A q \in CyPids : ~CyHasFence(q),
         \A q \in CyPids : g.pid = q /\ q # p => cyGoal.pid = q,
         g.pid = p => c.pc \in {"worker", "after"},
         ~cyLate' => /\ ~cyLate \/ \A q \in CyPids : q = p \/ ~CyHasFence(q)
                     /\ g.ref \in {CyNone, g.text}
                     /\ \/ g.text = cyGoal.text
                        \/ \A q \in CyPids : q = p \/ ~CyHasFence(q)
                     /\ c.pc \in {"worker", "after"} => c.text = g.text,
         g.status = "paused" => /\ c.pc = "after" => c.raced
                                /\ \/ cyGoal.status = "paused"
                                   \/ \A q \in CyPids : q = p \/ ~CyHasFence(q)
  PROVE  CyInv'
<1>1. \A q \in CyPids : cyCycle'[q] = IF q = p THEN c ELSE cyCycle[q]
  BY DEF CyInv, CyTypeOK
<1>2. CyTypeOK'
  BY DEF CyInv, CyTypeOK
<1>3. CyFenceIsOne'
  BY <1>1 DEF CyInv, CyFenceIsOne, CyHasFence
<1>4. CyPidWorks'
  BY <1>1 DEF CyInv, CyPidWorks
<1>5. CyWorkOfOutcome'
  BY <1>1 DEF CyInv, CyWorkOfOutcome, CyHasFence
<1>6. CyPauseIsLate'
  BY <1>1 DEF CyInv, CyPauseIsLate, CyHasFence
<1> QED  BY <1>2, <1>3, <1>4, <1>5, <1>6 DEF CyInv

\* The end of a cycle: the fence and the pid are given back.
LEMMA CyWriteInv ==
  ASSUME CyInv, NEW p \in CyPids, CyHasFence(p), NEW patch \in CyGoal, CyWrite(p, patch),
         patch.pid = CyNone, patch.text = cyGoal.text,
         ~cyLate => patch.ref \in {CyNone, cyGoal.text}
  PROVE  CyInv'
<1> DEFINE c == IF cyCycle[p].fg
                  THEN [CyIdle EXCEPT !.pc = "hop", !.fg = TRUE, !.hop = cyCycle[p].hop]
                  ELSE CyIdle
<1>1. c \in CyCycle /\ c.pc \in {"hop", "idle"}
  <2>1. CyIdle \in CyCycle
    BY CyAssumption DEF CyIdle, CyCycle
  <2>2. cyCycle[p].hop \in 0..CyHopLimit
    BY DEF CyInv, CyTypeOK, CyCycle
  <2>3. [CyIdle EXCEPT !.pc = "hop", !.fg = TRUE, !.hop = cyCycle[p].hop] \in CyCycle
    BY <2>2 DEF CyIdle, CyCycle
  <2> QED  BY <2>1, <2>3 DEF CyIdle
<1>2. cyCycle' = [cyCycle EXCEPT ![p] = c] /\ cyGoal' = patch /\ cyLate' = cyLate
  BY DEF CyWrite
<1>3. \A q \in CyPids : q = p \/ ~CyHasFence(q)
  BY DEF CyInv, CyFenceIsOne
<1>4. cyLate \in BOOLEAN
  BY DEF CyInv, CyTypeOK
<1>5. CyNone \notin CyPids
  BY CyAssumption
<1> HIDE DEF c
<1> QED  BY <1>1, <1>2, <1>3, <1>4, <1>5, CyCycleMoves

\* Nothing has been done at the start.
LEMMA CyInitInv == CyInit => CyInv
<1> SUFFICES ASSUME CyInit PROVE CyInv
  OBVIOUS
<1>1. PICK t \in CyTexts, auto \in BOOLEAN :
        cyGoal = [status |-> "active", text |-> t, auto |-> auto, pid |-> CyNone,
                  due |-> TRUE, retry |-> FALSE, pending |-> FALSE, fails |-> 0,
                  ref |-> CyNone]
  BY DEF CyInit
<1>2. cyGoal \in CyGoal
  <2>1. 0 \in 0..CyGiveUp
    BY CyAssumption
  <2> QED  BY <1>1, <2>1 DEF CyGoal, CyStatus
<1>3. CyIdle \in CyCycle
  BY CyAssumption DEF CyIdle, CyCycle
<1>4. cyCycle = [p \in CyPids |-> CyIdle] /\ cyLate = FALSE
  BY DEF CyInit
<1>5. \A p \in CyPids : cyCycle[p].pc = "idle"
  BY <1>4 DEF CyIdle
<1>6. CyTypeOK
  BY <1>2, <1>3, <1>4 DEF CyTypeOK
<1>7. CyFenceIsOne
  BY <1>5 DEF CyFenceIsOne, CyHasFence
<1>8. CyPidWorks
  BY <1>1, CyAssumption DEF CyPidWorks
<1>9. CyWorkOfOutcome
  BY <1>1, <1>5 DEF CyWorkOfOutcome
<1>10. CyPauseIsLate
  BY <1>1 DEF CyPauseIsLate
<1> QED  BY <1>6, <1>7, <1>8, <1>9, <1>10 DEF CyInv

\* The goal changes under its cycles; a new text is late for those that work on the old.
LEMMA CyGoalMoves ==
  ASSUME CyInv, NEW g \in CyGoal, cyGoal' = g, UNCHANGED cyCycle, cyLate' \in BOOLEAN,
         g.pid \in {CyNone, cyGoal.pid}, g.status = "paused" => cyGoal.status = "paused",
         ~cyLate' => /\ g.ref \in {CyNone, g.text}
                     /\ ~cyLate \/ ~CyWorks
                     /\ g.text = cyGoal.text \/ ~CyWorks
  PROVE  CyInv'
<1>1. CyTypeOK'
  BY DEF CyInv, CyTypeOK
<1>2. CyFenceIsOne'
  BY DEF CyInv, CyFenceIsOne, CyHasFence
<1>3. CyPidWorks'
  BY CyAssumption DEF CyInv, CyPidWorks
<1>4. CyWorkOfOutcome'
  BY DEF CyInv, CyWorkOfOutcome, CyWorks
<1>5. CyPauseIsLate'
  BY DEF CyInv, CyPauseIsLate
<1> QED  BY <1>1, <1>2, <1>3, <1>4, <1>5 DEF CyInv

\* The owner redefines the goal or reports on it, a review ends, a delay runs out.
LEMMA CyOwnerInv ==
  ASSUME CyInv, CyOwner \/ CyReviewed \/ CyDue
  PROVE  CyInv'
<1>0. cyGoal \in CyGoal /\ cyLate \in BOOLEAN
  BY DEF CyInv, CyTypeOK
<1>1. ASSUME NEW t \in CyTexts
      PROVE  /\ CyKeptRef(t) \in CyTexts \cup {CyNone}
             /\ CyRedefined(t) => /\ cyLate' \in BOOLEAN
                                  /\ ~cyLate' => /\ CyKeptRef(t) \in {CyNone, t}
                                                 /\ ~cyLate \/ ~CyWorks
                                                 /\ t = cyGoal.text \/ ~CyWorks
  <2>1. CASE cyGoal.text = t
    BY <1>0, <2>1 DEF CyKeptRef, CyRedefined, CyGoal, CyInv, CyWorkOfOutcome
  <2>2. CASE cyGoal.text # t
    <3>1. CyKeptRef(t) = CyNone
      BY <2>2 DEF CyKeptRef
    <3>2. CyWorks \in BOOLEAN
      BY DEF CyWorks
    <3>3. CyRedefined(t) => cyLate' = CyWorks
      BY <2>2 DEF CyRedefined
    <3> QED  BY <3>1, <3>2, <3>3
  <2> QED  BY <2>1, <2>2
<1>2. ASSUME NEW t \in CyTexts, NEW auto \in BOOLEAN, CyStart(t, auto) PROVE CyInv'
  <2> DEFINE g == [cyGoal EXCEPT !.status = "active", !.text = t, !.auto = auto, !.due = TRUE,
                              !.ref = CyKeptRef(t), !.retry = FALSE, !.pending = FALSE]
  <2>1. cyGoal' = g /\ CyRedefined(t) /\ UNCHANGED cyCycle
    BY <1>2 DEF CyStart
  <2>2. /\ g \in CyGoal /\ g.pid = cyGoal.pid /\ g.status = "active" /\ g.text = t
        /\ g.ref = CyKeptRef(t)
    BY <1>0, <1>1 DEF CyGoal, CyStatus
  <2> HIDE DEF g
  <2> QED  BY <1>1, <2>1, <2>2, CyGoalMoves
<1>3. ASSUME NEW t \in CyTexts, CyRefine(t) PROVE CyInv'
  <2> DEFINE g == [cyGoal EXCEPT !.status = "active", !.text = t, !.pid = CyNone, !.due = TRUE,
                              !.ref = CyKeptRef(t), !.retry = FALSE, !.pending = FALSE]
  <2>1. cyGoal' = g /\ CyRedefined(t) /\ UNCHANGED cyCycle
    BY <1>3 DEF CyRefine
  <2>2. /\ g \in CyGoal /\ g.pid = CyNone /\ g.status = "active" /\ g.text = t
        /\ g.ref = CyKeptRef(t)
    BY <1>0, <1>1 DEF CyGoal, CyStatus
  <2> HIDE DEF g
  <2> QED  BY <1>1, <2>1, <2>2, CyGoalMoves
<1>4. CASE CyReviewed
  <2>1. PICK status \in {"active", "done"} :
          cyGoal' = [cyGoal EXCEPT !.pending = FALSE, !.status = status, !.due = TRUE]
    BY <1>4 DEF CyReviewed
  <2> DEFINE g == [cyGoal EXCEPT !.pending = FALSE, !.status = status, !.due = TRUE]
  <2>2. /\ g \in CyGoal /\ g.pid = cyGoal.pid /\ g.status = status /\ g.text = cyGoal.text
        /\ g.ref = cyGoal.ref
    BY <1>0 DEF CyGoal, CyStatus
  <2>3. cyGoal' = g /\ UNCHANGED <<cyCycle, cyLate>>
    BY <1>4, <2>1 DEF CyReviewed
  <2>4. ~cyLate => g.ref \in {CyNone, g.text}
    BY <2>2 DEF CyInv, CyWorkOfOutcome
  <2> HIDE DEF g
  <2> QED  BY <1>0, <2>2, <2>3, <2>4, CyGoalMoves
<1>5. CASE CyDue
  <2> DEFINE g == [cyGoal EXCEPT !.due = TRUE]
  <2>1. /\ g \in CyGoal /\ g.pid = cyGoal.pid /\ g.status = cyGoal.status
        /\ g.text = cyGoal.text /\ g.ref = cyGoal.ref
    BY <1>0 DEF CyGoal, CyStatus
  <2>2. cyGoal' = g /\ UNCHANGED <<cyCycle, cyLate>>
    BY <1>5 DEF CyDue
  <2>3. ~cyLate => g.ref \in {CyNone, g.text}
    BY <2>1 DEF CyInv, CyWorkOfOutcome
  <2> HIDE DEF g
  <2> QED  BY <1>0, <2>1, <2>2, <2>3, CyGoalMoves
<1>6. ASSUME NEW status \in {"active", "blocked", "failed", "paused"}, CyReport(status)
      PROVE  CyInv'
  <2> DEFINE g == [cyGoal EXCEPT !.status = status, !.pid = CyNone, !.pending = FALSE,
                              !.retry = FALSE]
             c(p) == IF cyCycle[p].pc = "after" THEN [cyCycle[p] EXCEPT !.raced = TRUE]
                     ELSE cyCycle[p]
  <2>1. /\ g \in CyGoal /\ g.pid = CyNone /\ g.text = cyGoal.text /\ g.ref = cyGoal.ref
    BY <1>0 DEF CyGoal, CyStatus
  <2>2. ASSUME NEW p \in CyPids
        PROVE  /\ c(p) \in CyCycle /\ c(p).pc = cyCycle[p].pc /\ c(p).text = cyCycle[p].text
               /\ c(p).pc = "after" => c(p).raced
    <3>1. cyCycle[p] \in CyCycle
      BY DEF CyInv, CyTypeOK
    <3> QED  BY <3>1 DEF CyCycle
  <2>3. cyGoal' = g /\ cyCycle' = [p \in CyPids |-> c(p)] /\ UNCHANGED cyLate
    BY <1>6 DEF CyReport
  <2> HIDE DEF g, c
  <2>4. CyTypeOK'
    BY <1>0, <2>1, <2>2, <2>3 DEF CyTypeOK
  <2>5. CyFenceIsOne'
    BY <2>2, <2>3 DEF CyInv, CyFenceIsOne, CyHasFence
  <2>6. CyPidWorks'
    BY <2>1, <2>3, CyAssumption DEF CyPidWorks
  <2>7. CyWorkOfOutcome'
    BY <2>1, <2>2, <2>3 DEF CyInv, CyWorkOfOutcome
  <2>8. CyPauseIsLate'
    BY <2>2, <2>3 DEF CyPauseIsLate
  <2> QED  BY <2>4, <2>5, <2>6, <2>7, <2>8 DEF CyInv
<1> QED  BY <1>2, <1>3, <1>4, <1>5, <1>6 DEF CyOwner

\* A cycle begins with the text the goal has and the fence nobody has.
LEMMA CyBeginInv ==
  ASSUME CyInv, NEW p \in CyPids, NEW fg \in BOOLEAN, NEW hop \in 0..CyHopLimit,
         CyMayCycle, CyBegin(p, fg, hop), UNCHANGED <<cyGoal, cyLate>>
  PROVE  CyInv'
<1> DEFINE c == [pc |-> "routing", text |-> cyGoal.text, fg |-> fg, hop |-> hop, raced |-> FALSE]
<1>1. cyGoal \in CyGoal /\ cyLate \in BOOLEAN
  BY DEF CyInv, CyTypeOK
<1>2. c \in CyCycle /\ c.pc = "routing"
  BY <1>1 DEF CyCycle, CyGoal
<1>3. cyCycle' = [cyCycle EXCEPT ![p] = c]
  BY DEF CyBegin
<1>4. \A q \in CyPids : ~CyHasFence(q)
  BY DEF CyMayCycle
<1>5. cyGoal.pid # p
  BY <1>4 DEF CyInv, CyPidWorks, CyHasFence
<1>6. ~cyLate => cyGoal.ref \in {CyNone, cyGoal.text}
  BY DEF CyInv, CyWorkOfOutcome
<1> HIDE DEF c
<1> QED  BY <1>1, <1>2, <1>3, <1>4, <1>5, <1>6, CyCycleMoves

\* What the end of a cycle may make of the goal.
LEMMA CyPatches ==
  ASSUME CyInv, NEW p \in CyPids, cyCycle[p].pc = "after",
         NEW patch \in {CyFailed, CyRerouted, CyNewStrategy, CyStopped} \cup CySucceeded(p)
  PROVE  /\ patch \in CyGoal /\ patch.pid = CyNone /\ patch.text = cyGoal.text
         /\ ~cyLate => patch.ref \in {CyNone, cyGoal.text}
<1>1. cyGoal \in CyGoal /\ cyCycle[p] \in CyCycle
  BY DEF CyInv, CyTypeOK
<1>2. ~cyLate => /\ cyGoal.ref \in {CyNone, cyGoal.text}
                 /\ cyCycle[p].text = cyGoal.text
  BY DEF CyInv, CyWorkOfOutcome
<1>3. CyMore \in 0..CyGiveUp /\ 0 \in 0..CyGiveUp
  <2>1. cyGoal.fails \in 0..CyGiveUp
    BY <1>1 DEF CyGoal
  <2> QED  BY <2>1, CyAssumption DEF CyMore
<1>4. /\ CyFailed \in CyGoal /\ CyFailed.pid = CyNone /\ CyFailed.text = cyGoal.text
      /\ CyFailed.ref = cyGoal.ref
  BY <1>1, <1>3 DEF CyFailed, CyGoal, CyStatus
<1>5. /\ CyRerouted \in CyGoal /\ CyRerouted.pid = CyNone /\ CyRerouted.text = cyGoal.text
      /\ CyRerouted.ref = cyGoal.ref
  BY <1>1 DEF CyRerouted, CyGoal, CyStatus
<1>6. /\ CyNewStrategy \in CyGoal /\ CyNewStrategy.pid = CyNone
      /\ CyNewStrategy.text = cyGoal.text /\ CyNewStrategy.ref = cyGoal.ref
  <2> DEFINE n == IF CyMore < 2 /\ CyGiveUp >= 2 THEN 2 ELSE CyMore
  <2>1. n \in 0..CyGiveUp
    BY <1>3, CyAssumption
  <2>2. CyNewStrategy = [CyRerouted EXCEPT !.fails = n]
    BY DEF CyNewStrategy
  <2> HIDE DEF n
  <2> QED  BY <1>5, <2>1, <2>2 DEF CyGoal
<1>7. /\ CyStopped \in CyGoal /\ CyStopped.pid = CyNone /\ CyStopped.text = cyGoal.text
      /\ CyStopped.ref = cyGoal.ref
  BY <1>4 DEF CyStopped, CyGoal, CyStatus
<1>8. ASSUME patch \in CySucceeded(p)
      PROVE  /\ patch \in CyGoal /\ patch.pid = CyNone /\ patch.text = cyGoal.text
             /\ patch.ref = cyCycle[p].text
  <2> DEFINE base == [cyGoal EXCEPT !.pid = CyNone, !.fails = 0, !.retry = FALSE,
                                    !.pending = FALSE, !.ref = cyCycle[p].text]
  <2>1. /\ base \in CyGoal /\ base.pid = CyNone /\ base.text = cyGoal.text
        /\ base.ref = cyCycle[p].text
    BY <1>1, <1>3 DEF CyGoal, CyCycle
  <2>2. patch \in {[base EXCEPT !.status = "blocked"],
                   [base EXCEPT !.status = "active", !.pending = TRUE, !.due = TRUE],
                   [base EXCEPT !.status = "active", !.due = FALSE],
                   [CyFailed EXCEPT !.ref = cyCycle[p].text]}
    BY <1>8 DEF CySucceeded
  <2> HIDE DEF base
  <2>3. \A s \in CyStatus : "active" \in CyStatus /\ "blocked" \in CyStatus
    BY DEF CyStatus
  <2>4. CASE patch = [CyFailed EXCEPT !.ref = cyCycle[p].text]
    BY <1>1, <1>4, <2>4 DEF CyGoal, CyCycle
  <2>5. CASE patch = [base EXCEPT !.status = "blocked"]
    BY <2>1, <2>5 DEF CyGoal, CyStatus
  <2>6. CASE patch = [base EXCEPT !.status = "active", !.pending = TRUE, !.due = TRUE]
    BY <2>1, <2>6 DEF CyGoal, CyStatus
  <2>7. CASE patch = [base EXCEPT !.status = "active", !.due = FALSE]
    BY <2>1, <2>7 DEF CyGoal, CyStatus
  <2> QED  BY <2>2, <2>4, <2>5, <2>6, <2>7
<1> QED  BY <1>2, <1>4, <1>5, <1>6, <1>7, <1>8

\* The steps of a cycle.
LEMMA CyStepInv ==
  ASSUME CyInv, NEW p \in CyPids,
         CyForeground(p) \/ CyDaemon(p) \/ CyStep(p) \/ CyDies(p)
  PROVE  CyInv'
<1>0. /\ cyGoal \in CyGoal /\ cyLate \in BOOLEAN /\ cyCycle[p] \in CyCycle
      /\ ~cyLate => cyGoal.ref \in {CyNone, cyGoal.text}
  BY DEF CyInv, CyTypeOK, CyWorkOfOutcome
<1>1. CASE CyForeground(p)
  <2>1. 0 \in 0..CyHopLimit
    BY CyAssumption
  <2> QED  BY <1>1, <2>1, CyBeginInv DEF CyForeground
<1>2. CASE CyDaemon(p)
  <2>1. 0 \in 0..CyHopLimit
    BY CyAssumption
  <2> QED  BY <1>2, <2>1, CyBeginInv DEF CyDaemon
<1>3. CASE CyCheckpoint(p)
  <2>1. ASSUME NEW patch \in CyGoal, CyWrite(p, patch), patch.pid = CyNone,
               patch.text = cyGoal.text, patch.ref = cyGoal.ref
        PROVE  CyInv'
    <3>1. CyHasFence(p)
      BY <1>3 DEF CyCheckpoint, CyHasFence
    <3> QED  BY <1>0, <2>1, <3>1, CyWriteInv
  <2> DEFINE a == [cyGoal EXCEPT !.status = "active", !.pid = CyNone, !.due = FALSE, !.retry = FALSE]
             b == [cyGoal EXCEPT !.status = "active", !.pid = CyNone, !.due = TRUE, !.retry = TRUE]
             c == [cyGoal EXCEPT !.status = "blocked", !.pid = CyNone, !.retry = FALSE]
  <2>2. \A x \in {a, b, c} : x \in CyGoal /\ x.pid = CyNone /\ x.text = cyGoal.text /\ x.ref = cyGoal.ref
    BY <1>0 DEF CyGoal, CyStatus
  <2>3. CyWrite(p, a) \/ CyWrite(p, b) \/ CyWrite(p, c)
    BY <1>3 DEF CyCheckpoint
  <2> HIDE DEF a, b, c
  <2> QED  BY <2>1, <2>2, <2>3
<1>4. CASE CyDispatch(p)
  <2> DEFINE g == [cyGoal EXCEPT !.status = "running", !.pid = p, !.pending = FALSE]
             c == [cyCycle[p] EXCEPT !.pc = "worker"]
  <2>1. cyGoal' = g /\ cyCycle' = [cyCycle EXCEPT ![p] = c]
    BY <1>4 DEF CyDispatch, CyInv, CyTypeOK
  <2>2. /\ g \in CyGoal /\ g.pid = p /\ g.status = "running" /\ g.text = cyGoal.text
        /\ g.ref = cyGoal.ref
    BY <1>0 DEF CyGoal, CyStatus
  <2>3. c \in CyCycle /\ c.pc = "worker" /\ c.text = cyCycle[p].text
    BY <1>0 DEF CyCycle
  <2>4. CyHasFence(p)
    BY <1>4 DEF CyDispatch, CyHasFence
  <2>5. /\ cyLate' \in BOOLEAN
        /\ ~cyLate' => ~cyLate /\ cyGoal.text = cyCycle[p].text
    BY <1>0, <1>4 DEF CyDispatch
  <2> HIDE DEF g, c
  <2> QED  BY <1>0, <2>1, <2>2, <2>3, <2>4, <2>5, CyCycleMoves
<1>5. CASE CyUnsigned(p)
  <2> DEFINE g == [cyGoal EXCEPT !.status = "active", !.pid = CyNone, !.due = FALSE,
                               !.pending = FALSE, !.retry = FALSE]
  <2>1. g \in CyGoal /\ g.pid = CyNone /\ g.text = cyGoal.text /\ g.ref = cyGoal.ref
    BY <1>0 DEF CyGoal, CyStatus
  <2>2. CyWrite(p, g) /\ CyHasFence(p)
    BY <1>5 DEF CyUnsigned, CyHasFence
  <2> HIDE DEF g
  <2> QED  BY <1>0, <2>1, <2>2, CyWriteInv
<1>6. CASE CyReadAgain(p)
  <2>1. CASE CyWrite(p, [cyGoal EXCEPT !.pid = CyNone])
    <3> DEFINE g == [cyGoal EXCEPT !.pid = CyNone]
    <3>1. g \in CyGoal /\ g.pid = CyNone /\ g.text = cyGoal.text /\ g.ref = cyGoal.ref
      BY <1>0 DEF CyGoal
    <3>2. CyWrite(p, g) /\ CyHasFence(p)
      BY <1>6, <2>1 DEF CyReadAgain, CyHasFence
    <3> HIDE DEF g
    <3> QED  BY <1>0, <3>1, <3>2, CyWriteInv
  <2>2. CASE /\ ~CyClosed
             /\ cyCycle' = [cyCycle EXCEPT ![p].pc = "after"]
             /\ UNCHANGED <<cyGoal, cyLate>>
    <3> DEFINE c == [cyCycle[p] EXCEPT !.pc = "after"]
    <3>1. cyCycle' = [cyCycle EXCEPT ![p] = c] /\ cyGoal' = cyGoal /\ cyLate' = cyLate
      BY <2>2 DEF CyInv, CyTypeOK
    <3>2. c \in CyCycle /\ c.pc = "after" /\ c.text = cyCycle[p].text
      BY <1>0 DEF CyCycle
    <3>3. CyHasFence(p) /\ cyCycle[p].pc = "worker"
      BY <1>6 DEF CyReadAgain, CyHasFence
    <3>4. cyGoal.status # "paused"
      BY <2>2 DEF CyClosed
    <3>5. ~cyLate => c.text = cyGoal.text
      BY <3>2, <3>3 DEF CyInv, CyWorkOfOutcome
    <3> HIDE DEF c
    <3> QED  BY <1>0, <3>1, <3>2, <3>3, <3>4, <3>5, CyCycleMoves
  <2> QED  BY <1>6, <2>1, <2>2 DEF CyReadAgain
<1>7. CASE CySettle(p)
  <2>1. PICK patch \in {CyFailed, CyRerouted, CyNewStrategy, CyStopped} \cup CySucceeded(p) :
          CyWrite(p, patch)
    BY <1>7 DEF CySettle
  <2>2. cyCycle[p].pc = "after" /\ CyHasFence(p)
    BY <1>7 DEF CySettle, CyHasFence
  <2> QED  BY <2>1, <2>2, CyPatches, CyWriteInv
<1>8. CASE CyHop(p)
  <2>1. CyIdle \in CyCycle /\ CyIdle.pc = "idle"
    BY CyAssumption DEF CyIdle, CyCycle
  <2>2. cyCycle[p].pc = "hop" /\ cyGoal.pid # p
    BY <1>8 DEF CyHop, CyInv, CyPidWorks
  <2>3. CASE CyAgain /\ ~CyLast(p) /\ CyMayCycle /\ CyBegin(p, TRUE, cyCycle[p].hop + 1) /\ UNCHANGED cyGoal
    <3>1. cyCycle[p].hop + 1 \in 0..CyHopLimit
      BY <1>0, <2>3, CyAssumption DEF CyLast, CyCycle
    <3>2. UNCHANGED <<cyGoal, cyLate>>
      BY <1>8, <2>3 DEF CyHop
    <3> QED  BY <2>3, <3>1, <3>2, CyBeginInv
  <2>4. CASE cyCycle' = [cyCycle EXCEPT ![p] = CyIdle] /\ UNCHANGED cyGoal
    <3>1. cyLate' = cyLate /\ cyGoal' = cyGoal
      BY <1>8, <2>4 DEF CyHop
    <3> QED  BY <1>0, <2>1, <2>2, <2>4, <3>1, CyCycleMoves
  <2>5. CASE /\ cyGoal' = [cyGoal EXCEPT !.retry = FALSE, !.due = FALSE]
             /\ cyCycle' = [cyCycle EXCEPT ![p] = CyIdle]
    <3> DEFINE g == [cyGoal EXCEPT !.retry = FALSE, !.due = FALSE]
    <3>1. /\ g \in CyGoal /\ g.pid = cyGoal.pid /\ g.text = cyGoal.text /\ g.ref = cyGoal.ref
          /\ g.status = cyGoal.status
      BY <1>0 DEF CyGoal
    <3>2. cyGoal' = g /\ cyLate' = cyLate
      BY <1>8, <2>5 DEF CyHop
    <3> HIDE DEF g
    <3> QED  BY <1>0, <2>1, <2>2, <2>5, <3>1, <3>2, CyCycleMoves
  <2> QED  BY <1>8, <2>3, <2>4, <2>5 DEF CyHop
<1>9. CASE CyDies(p)
  <2> DEFINE g == [cyGoal EXCEPT !.pid = IF @ = p THEN CyNone ELSE @]
  <2>1. CyIdle \in CyCycle /\ CyIdle.pc = "idle"
    BY CyAssumption DEF CyIdle, CyCycle
  <2>2. /\ g \in CyGoal /\ g.pid # p /\ g.pid \in {CyNone, cyGoal.pid}
        /\ g.text = cyGoal.text /\ g.ref = cyGoal.ref /\ g.status = cyGoal.status
    BY <1>0, CyAssumption DEF CyGoal
  <2>3. cyGoal' = g /\ cyCycle' = [cyCycle EXCEPT ![p] = CyIdle] /\ cyLate' = cyLate
    BY <1>9 DEF CyDies
  <2>4. /\ \A q \in CyPids : g.pid = q /\ q # p => cyGoal.pid = q
        /\ g.pid = p => CyIdle.pc \in {"worker", "after"}
    BY <2>2, CyAssumption
  <2>5. \/ cyGoal.status = "paused"
        \/ g.status # "paused"
    BY <2>2
  <2>6. \/ g.text = cyGoal.text
        \/ \A q \in CyPids : q = p \/ ~CyHasFence(q)
    BY <2>2
  <2> HIDE DEF g
  <2> QED  BY <1>0, <2>1, <2>2, <2>3, <2>4, <2>5, <2>6, CyCycleMoves
<1> QED  BY <1>1, <1>2, <1>3, <1>4, <1>5, <1>6, <1>7, <1>8, <1>9 DEF CyStep

\* Every step of the goal and its cycles.
LEMMA CyNextInv ==
  ASSUME CyInv, [CyNext]_cyVars
  PROVE  CyInv'
<1>1. CASE UNCHANGED cyVars
  BY <1>1 DEF CyInv, CyTypeOK, CyFenceIsOne, CyHasFence, CyPidWorks, CyWorkOfOutcome,
              CyPauseIsLate, cyVars
<1>2. CASE CyNext
  BY <1>2, CyOwnerInv, CyStepInv DEF CyNext
<1> QED  BY <1>1, <1>2

(* Any number of processes, outcomes and hops: the stored session is one of the
   present outcome, the recorded pid is at work, one process has the fence, and
   a pause outlives the worker it found running. *)
THEOREM CyclesAreSafe == CySpec => CySafe
<1>1. CyInit => CyInv
  BY CyInitInv
<1>2. CyInv /\ [CyNext]_cyVars => CyInv'
  BY CyNextInv
<1>3. CyInv => CyTypeOK /\ CySessionOfOutcome /\ CyPidIsAtWork
  BY DEF CyInv, CyWorkOfOutcome, CySessionOfOutcome, CyFenceIsOne, CyPidWorks, CyPidIsAtWork
<1>4. CyInv => [\A p \in CyPids : CySettle(p) /\ cyGoal.status = "paused"
                                   => cyCycle[p].raced]_cyVars
  BY DEF CyInv, CyPauseIsLate, CySettle
<1> QED  BY <1>1, <1>2, <1>3, <1>4, PTL DEF CySpec, CySafe, CyPauseStands

-----------------------------------------------------------------------------
(* The ownership of goals *)

\* What the garbage collection may not do.
GoSparesLive ==
  \A g \in GoGoals : goGoal'[g].status = "removed" /\ GoExists(g)
        => \/ goGoal[g].repo \notin goPaths
           \/ goGoal[g].repo # goPlan[g]

GoWorldOK == goPaths \subseteq GoRepos /\ goLeases \subseteq GoRepos
             /\ goPlan \in [GoGoals -> GoRepos \cup {GoNone}]

\* One goal changes, without a change of who works on it.
LEMMA GoGoalMoves ==
  ASSUME GoInv, NEW g \in GoGoals, NEW x \in GoGoalRec, goGoal' = [goGoal EXCEPT ![g] = x],
         UNCHANGED goSess, x.status \in {"open", "closed"},
         GoExists(g), x.live = goGoal[g].live, x.age = goGoal[g].age,
         GoWorldOK'
  PROVE  GoInv' /\ GoSparesLive
<1>1. \A h \in GoGoals : goGoal'[h] = IF h = g THEN x ELSE goGoal[h]
  BY DEF GoInv, GoTypeOK
<1>2. GoTypeOK'
  BY DEF GoInv, GoTypeOK, GoWorldOK
<1>3. GoUnderWay' /\ GoBeliefsAgree'
  BY DEF GoInv, GoUnderWay, GoBeliefsAgree
<1>4. GoBeliefHolds'
  BY <1>1 DEF GoInv, GoBeliefHolds, GoExists
<1>5. GoSparesLive
  BY <1>1 DEF GoSparesLive, GoExists
<1> QED  BY <1>2, <1>3, <1>4, <1>5 DEF GoInv

\* Only the world around goals and sessions changes.
LEMMA GoWorldMoves ==
  ASSUME GoInv, UNCHANGED <<goGoal, goSess>>, GoWorldOK'
  PROVE  GoInv' /\ GoSparesLive
<1>1. GoTypeOK'
  BY DEF GoInv, GoTypeOK, GoWorldOK
<1>2. GoUnderWay' /\ GoBeliefsAgree'
  BY DEF GoInv, GoUnderWay, GoBeliefsAgree
<1>3. GoBeliefHolds'
  BY DEF GoInv, GoBeliefHolds, GoExists
<1>4. GoSparesLive
  BY DEF GoSparesLive, GoExists
<1> QED  BY <1>1, <1>2, <1>3, <1>4 DEF GoInv

\* One session goes on in its admission and believes what it believed.
LEMMA GoSessionMoves ==
  ASSUME GoInv, NEW s \in GoSessions, NEW x \in GoSessRec, goSess' = [goSess EXCEPT ![s] = x],
         UNCHANGED <<goPaths, goLeases, goPlan>>,
         x.owns = goSess[s].owns, x.age = goSess[s].age,
         x.pc # "idle" => x.goal \in GoGoals,
         x.pc \in {"leases", "reconcile"} => x.repo \in GoRepos
  PROVE  /\ GoUnderWay' /\ GoBeliefsAgree'
         /\ UNCHANGED goGoal => GoInv' /\ GoSparesLive
<1>1. \A u \in GoSessions : /\ goSess'[u] = IF u = s THEN x ELSE goSess[u]
                            /\ goSess'[u].owns = goSess[u].owns
                            /\ goSess'[u].age = goSess[u].age
  BY DEF GoInv, GoTypeOK
<1>2. GoUnderWay'
  BY <1>1 DEF GoInv, GoUnderWay
<1>3. GoBeliefsAgree'
  BY <1>1 DEF GoInv, GoBeliefsAgree
<1>4. ASSUME UNCHANGED goGoal PROVE GoInv' /\ GoSparesLive
  <2>1. GoTypeOK'
    BY <1>4 DEF GoInv, GoTypeOK
  <2>2. GoBeliefHolds'
    BY <1>1, <1>4 DEF GoInv, GoBeliefHolds, GoExists
  <2>3. GoSparesLive
    BY <1>4 DEF GoSparesLive, GoExists
  <2> QED  BY <1>2, <1>3, <2>1, <2>2, <2>3 DEF GoInv
<1> QED  BY <1>2, <1>3, <1>4

\* No goals and no sessions at the start.
LEMMA GoInitInv == GoInit => GoInv
<1> SUFFICES ASSUME GoInit PROVE GoInv
  OBVIOUS
<1>1. GoBlank \in GoGoalRec /\ GoIdle \in GoSessRec
  <2>1. 0 \in GoAges
    BY GoAssumption DEF GoAges
  <2> QED  BY <2>1 DEF GoBlank, GoGoalRec, GoIdle, GoSessRec
<1>2. GoTypeOK
  BY <1>1 DEF GoInit, GoTypeOK
<1>3. \A s \in GoSessions : goSess[s].pc = "idle" /\ goSess[s].owns = GoNone
  BY DEF GoInit, GoIdle
<1>4. GoUnderWay /\ GoBeliefsAgree
  BY <1>3 DEF GoUnderWay, GoBeliefsAgree
<1>5. GoBeliefHolds
  BY <1>3, GoAssumption DEF GoBeliefHolds
<1> QED  BY <1>2, <1>4, <1>5 DEF GoInv

\* An admission: the goal of the project, an open one or a new one.
LEMMA GoAdmitInv ==
  ASSUME GoInv, NEW s \in GoSessions, NEW r \in GoRepos, GoAdmit(s, r)
  PROVE  GoInv' /\ GoSparesLive
<1>0. goSess \in [GoSessions -> GoSessRec] /\ goGoal \in [GoGoals -> GoGoalRec]
  BY DEF GoInv, GoTypeOK
<1>1. PICK g \in GoGoals :
        /\ goSess' = [goSess EXCEPT ![s] = [@ EXCEPT !.pc = "leases", !.goal = g, !.repo = r]]
        /\ \/ UNCHANGED goGoal
           \/ /\ goGoal[g].status = "none"
              /\ goGoal' = [goGoal EXCEPT ![g] = [@ EXCEPT !.status = "open", !.repo = r]]
  BY DEF GoAdmit
<1> DEFINE x == [goSess[s] EXCEPT !.pc = "leases", !.goal = g, !.repo = r]
           y == [goGoal[g] EXCEPT !.status = "open", !.repo = r]
<1>2. /\ x \in GoSessRec /\ x.pc = "leases" /\ x.goal = g /\ x.repo = r
      /\ x.owns = goSess[s].owns /\ x.age = goSess[s].age
  BY <1>0 DEF GoSessRec
<1>3. goSess' = [goSess EXCEPT ![s] = x]
  BY <1>0, <1>1
<1>4. UNCHANGED <<goPaths, goLeases, goPlan>>
  BY DEF GoAdmit
<1>5. y \in GoGoalRec /\ y.status = "open"
  BY <1>0 DEF GoGoalRec
<1> HIDE DEF x
<1>6. GoUnderWay' /\ GoBeliefsAgree' /\ (UNCHANGED goGoal => GoInv' /\ GoSparesLive)
  BY <1>2, <1>3, <1>4, GoSessionMoves
<1>7. CASE goGoal[g].status = "none" /\ goGoal' = [goGoal EXCEPT ![g] = y]
  <2> HIDE DEF y
  <2>1. \A h \in GoGoals : goGoal'[h] = IF h = g THEN y ELSE goGoal[h]
    BY <1>0, <1>7
  <2>2. goGoal' \in [GoGoals -> GoGoalRec] /\ goSess' \in [GoSessions -> GoSessRec]
    BY <1>0, <1>2, <1>3, <1>5, <1>7
  <2>3. GoTypeOK'
    BY <1>4, <2>2 DEF GoInv, GoTypeOK
  <2>4. \A u \in GoSessions : goSess'[u].owns = goSess[u].owns /\ goSess'[u].age = goSess[u].age
    BY <1>0, <1>2, <1>3
  <2>5. \A u \in GoSessions : goSess[u].owns # g
    BY <1>7 DEF GoInv, GoBeliefHolds
  <2>6. GoBeliefHolds'
    BY <2>1, <2>4, <2>5 DEF GoInv, GoBeliefHolds, GoExists
  <2>7. GoSparesLive
    BY <1>5, <1>7, <2>1 DEF GoSparesLive, GoExists
  <2> QED  BY <1>6, <2>3, <2>6, <2>7 DEF GoInv
<1> QED  BY <1>0, <1>1, <1>6, <1>7

\* The leases are looked at.
LEMMA GoSeeLeasesInv ==
  ASSUME GoInv, NEW s \in GoSessions, GoSeeLeases(s)
  PROVE  GoInv' /\ GoSparesLive
<1> DEFINE b == \E r \in goLeases : GoBase[r] = GoIdentity[goSess[s].repo]
           x == [goSess[s] EXCEPT !.pc = "reconcile", !.leased = b]
<1>0. goSess \in [GoSessions -> GoSessRec]
  BY DEF GoInv, GoTypeOK
<1>1. goSess' = [goSess EXCEPT ![s] = x] /\ UNCHANGED <<goPaths, goLeases, goPlan, goGoal>>
  BY <1>0 DEF GoSeeLeases
<1>2. b \in BOOLEAN
  OBVIOUS
<1> HIDE DEF b
<1>3. /\ x \in GoSessRec /\ x.pc = "reconcile" /\ x.goal = goSess[s].goal
      /\ x.repo = goSess[s].repo /\ x.owns = goSess[s].owns /\ x.age = goSess[s].age
  BY <1>0, <1>2 DEF GoSessRec
<1>4. x.goal \in GoGoals /\ x.repo \in GoRepos
  BY <1>3 DEF GoSeeLeases, GoInv, GoUnderWay
<1> HIDE DEF x
<1> QED  BY <1>1, <1>3, <1>4, GoSessionMoves

\* Reconciliation moves a goal, and drops a claim only when it is out of date.
LEMMA GoReconcileInv ==
  ASSUME GoInv, NEW s \in GoSessions, GoReconcile(s)
  PROVE  GoInv' /\ GoSparesLive
<1> DEFINE g == goSess[s].goal
           pc == IF GoExists(g) THEN "claim" ELSE "idle"
           goal == IF GoExists(g) THEN g ELSE GoNone
           x == [goSess[s] EXCEPT !.pc = pc, !.goal = goal, !.repo = GoNone, !.leased = FALSE]
           live == IF goGoal[g].live = s THEN s ELSE GoNone
           age == IF goGoal[g].live = s THEN goGoal[g].age ELSE 0
           y == [goGoal[g] EXCEPT !.repo = goSess[s].repo, !.pid = FALSE, !.live = live, !.age = age]
<1>0. /\ goSess \in [GoSessions -> GoSessRec] /\ goGoal \in [GoGoals -> GoGoalRec]
      /\ g \in GoGoals /\ goSess[s].repo \in GoRepos
  BY DEF GoInv, GoTypeOK, GoReconcile, GoUnderWay
<1>1. goSess' = [goSess EXCEPT ![s] = x] /\ UNCHANGED <<goPaths, goLeases, goPlan>>
  <2>1. goSess' = [goSess EXCEPT ![s] =
          [@ EXCEPT !.pc = pc, !.goal = goal, !.repo = GoNone, !.leased = FALSE]]
    BY DEF GoReconcile
  <2>2. UNCHANGED <<goPaths, goLeases, goPlan>>
    BY DEF GoReconcile
  <2> HIDE DEF pc, goal
  <2>3. goSess' = [goSess EXCEPT ![s] = x]
    BY <1>0, <2>1 DEF GoSessRec
  <2> QED  BY <2>2, <2>3
<1>2. x \in GoSessRec /\ x.owns = goSess[s].owns /\ x.age = goSess[s].age
  BY <1>0 DEF GoSessRec
<1>3. x.pc # "idle" => x.goal \in GoGoals
  BY <1>0 DEF GoSessRec
<1>4. x.pc \notin {"leases", "reconcile"}
  BY <1>0 DEF GoSessRec
<1>5. GoUnderWay' /\ GoBeliefsAgree' /\ (UNCHANGED goGoal => GoInv' /\ GoSparesLive)
  <2> HIDE DEF x
  <2> QED  BY <1>1, <1>2, <1>3, <1>4, GoSessionMoves
<1>6. CASE GoMayMove(g, s)
  <2>1. goGoal' = [goGoal EXCEPT ![g] = y]
    <3>1. goGoal' = [goGoal EXCEPT ![g] =
                       [@ EXCEPT !.repo = goSess[s].repo, !.pid = FALSE, !.live = live, !.age = age]]
      BY <1>6 DEF GoReconcile
    <3> HIDE DEF live, age
    <3> QED  BY <1>0, <3>1 DEF GoGoalRec
  <2>2. y \in GoGoalRec
    <3>1. 0 \in GoAges
      BY GoAssumption DEF GoAges
    <3> QED  BY <1>0, <3>1 DEF GoGoalRec
  <2>3. /\ y.status = goGoal[g].status /\ GoExists(g)
        /\ \/ y.live = goGoal[g].live /\ y.age = goGoal[g].age
           \/ y.live = GoNone /\ ~GoFresh(g)
    BY <1>0, <1>6 DEF GoMayMove, GoGoalRec
  <2> HIDE DEF x, y, g
  <2>4. \A h \in GoGoals : goGoal'[h] = IF h = g THEN y ELSE goGoal[h]
    BY <1>0, <2>1
  <2>5. GoTypeOK'
    <3>1. goGoal' \in [GoGoals -> GoGoalRec] /\ goSess' \in [GoSessions -> GoSessRec]
      BY <1>0, <1>1, <1>2, <2>1, <2>2
    <3> QED  BY <1>1, <3>1 DEF GoInv, GoTypeOK
  <2>6. \A u \in GoSessions : goSess'[u].owns = goSess[u].owns /\ goSess'[u].age = goSess[u].age
    BY <1>0, <1>1, <1>2
  <2>7. ASSUME NEW u \in GoSessions, goSess[u].owns = g, goSess[u].age <= GoStale
        PROVE  GoFresh(g)
    <3>1. goGoal[g].live = u /\ goGoal[g].age <= goSess[u].age
      BY <1>0, <2>3, <2>7 DEF GoInv, GoBeliefHolds
    <3>2. goGoal[g].age \in Nat /\ goSess[u].age \in Nat
      BY <1>0 DEF GoGoalRec, GoSessRec, GoAges
    <3>3. u # GoNone
      BY GoAssumption
    <3> QED  BY <2>7, <3>1, <3>2, <3>3, GoAssumption DEF GoFresh
  <2>8. GoBeliefHolds'
    <3> SUFFICES ASSUME NEW u \in GoSessions, NEW h \in GoGoals, goSess[u].owns = h
                 PROVE  /\ goGoal'[h].status # "none"
                        /\ goSess[u].age <= GoStale /\ GoExists(h)'
                             => goGoal'[h].live = u /\ goGoal'[h].age <= goSess[u].age
      BY <2>6 DEF GoBeliefHolds
    <3>1. CASE h = g
      BY <1>0, <2>3, <2>4, <2>7, <3>1 DEF GoInv, GoBeliefHolds, GoExists
    <3>2. CASE h # g
      BY <2>4, <3>2 DEF GoInv, GoBeliefHolds, GoExists
    <3> QED  BY <3>1, <3>2
  <2>9. GoSparesLive
    BY <2>3, <2>4 DEF GoSparesLive, GoExists
  <2> QED  BY <1>5, <2>5, <2>8, <2>9 DEF GoInv
<1>7. CASE ~GoMayMove(g, s)
  <2>1. UNCHANGED goGoal
    BY <1>7 DEF GoReconcile
  <2> QED  BY <1>5, <2>1
<1> QED  BY <1>6, <1>7

\* An answer to a session: it is the one that works on the goal, or it is told
\* that it works on nothing.
LEMMA GoAnswered ==
  ASSUME GoInv, NEW s \in GoSessions, NEW g \in GoGoals, NEW won \in BOOLEAN,
         won => GoExists(g) /\ GoClaimable(g, s),
         goGoal' = IF won THEN [goGoal EXCEPT ![g] = [@ EXCEPT !.live = s, !.age = 0]] ELSE goGoal,
         goSess' = [goSess EXCEPT ![s] = [GoIdle EXCEPT !.owns = IF won THEN g ELSE GoNone]],
         UNCHANGED <<goPaths, goLeases, goPlan>>
  PROVE  GoInv' /\ GoSparesLive
<1> DEFINE x == [GoIdle EXCEPT !.owns = IF won THEN g ELSE GoNone]
           y == IF won THEN [goGoal[g] EXCEPT !.live = s, !.age = 0] ELSE goGoal[g]
<1>0. goSess \in [GoSessions -> GoSessRec] /\ goGoal \in [GoGoals -> GoGoalRec] /\ 0 \in GoAges
  BY GoAssumption DEF GoInv, GoTypeOK, GoAges
<1>1. /\ x \in GoSessRec /\ x.pc = "idle" /\ x.age = 0
      /\ x.owns = IF won THEN g ELSE GoNone
  BY <1>0 DEF GoIdle, GoSessRec
<1>2. /\ y \in GoGoalRec /\ y.status = goGoal[g].status
      /\ won => y.live = s /\ y.age = 0
      /\ ~won => y = goGoal[g]
  BY <1>0 DEF GoGoalRec
<1>3. goGoal' = [goGoal EXCEPT ![g] = y]
  BY <1>0
<1>4. goSess' = [goSess EXCEPT ![s] = x]
  OBVIOUS
<1> HIDE DEF x, y
<1>5. \A h \in GoGoals : goGoal'[h] = IF h = g THEN y ELSE goGoal[h]
  BY <1>0, <1>3
<1>6. \A u \in GoSessions : goSess'[u] = IF u = s THEN x ELSE goSess[u]
  BY <1>0, <1>4
<1>7. GoTypeOK'
  <2>1. goGoal' \in [GoGoals -> GoGoalRec] /\ goSess' \in [GoSessions -> GoSessRec]
    BY <1>0, <1>1, <1>2, <1>3, <1>4
  <2> QED  BY <2>1 DEF GoInv, GoTypeOK
<1>8. GoUnderWay'
  BY <1>1, <1>6 DEF GoInv, GoUnderWay
<1>9. ASSUME won, NEW u \in GoSessions, u # s, goSess[u].owns = g PROVE ~(goSess[u].age <= GoStale)
  <2> SUFFICES ASSUME goSess[u].age <= GoStale PROVE FALSE
    OBVIOUS
  <2>1. goGoal[g].live = u /\ goGoal[g].age <= goSess[u].age
    BY <1>9 DEF GoInv, GoBeliefHolds
  <2>2. goGoal[g].age \in Nat /\ goSess[u].age \in Nat
    BY <1>0 DEF GoGoalRec, GoSessRec, GoAges
  <2>3. u # GoNone
    BY GoAssumption
  <2> QED  BY <1>9, <2>1, <2>2, <2>3, GoAssumption DEF GoClaimable, GoFresh
<1>10. GoBeliefHolds'
  <2> SUFFICES ASSUME NEW u \in GoSessions, NEW h \in GoGoals, goSess'[u].owns = h
               PROVE  /\ goGoal'[h].status # "none"
                      /\ goSess'[u].age <= GoStale /\ GoExists(h)'
                           => goGoal'[h].live = u /\ goGoal'[h].age <= goSess'[u].age
    BY DEF GoBeliefHolds
  <2>1. CASE u = s
    <3>1. goSess'[u].owns = IF won THEN g ELSE GoNone
      BY <1>1, <1>6, <2>1
    <3>2. won /\ h = g
      BY <3>1, GoAssumption
    <3>3. goGoal[g].status # "none"
      BY <3>2 DEF GoExists
    <3>4. goGoal'[h].live = s /\ goGoal'[h].age = 0 /\ goSess'[u].age = 0
      BY <1>1, <1>2, <1>5, <1>6, <2>1, <3>2
    <3> QED  BY <1>2, <1>5, <2>1, <3>2, <3>3, <3>4
  <2>2. CASE u # s
    <3>1. goSess[u].owns = h /\ goSess'[u] = goSess[u]
      BY <1>6, <2>2
    <3>2. CASE h = g /\ won
      BY <1>2, <1>5, <1>9, <2>2, <3>1, <3>2 DEF GoInv, GoBeliefHolds
    <3>3. CASE ~(h = g /\ won)
      <4>1. goGoal'[h] = goGoal[h]
        BY <1>2, <1>5, <3>3
      <4> QED  BY <3>1, <4>1 DEF GoInv, GoBeliefHolds, GoExists
    <3> QED  BY <3>2, <3>3
  <2> QED  BY <2>1, <2>2
<1>11. GoBeliefsAgree'
  <2> SUFFICES ASSUME NEW u \in GoSessions, NEW v \in GoSessions, u # v,
                      goSess'[u].owns = goSess'[v].owns, goSess'[u].owns # GoNone
               PROVE  goSess'[u].age > GoStale \/ goSess'[v].age > GoStale
    BY DEF GoBeliefsAgree
  <2>1. ASSUME NEW w \in GoSessions PROVE goSess[w].age \in Nat
    BY <1>0 DEF GoSessRec, GoAges
  <2>2. CASE u # s /\ v # s
    BY <1>6, <2>2 DEF GoInv, GoBeliefsAgree
  <2>3. CASE u = s
    <3>1. won /\ goSess'[v].owns = g /\ goSess'[v] = goSess[v]
      BY <1>1, <1>6, <2>3
    <3> QED  BY <1>9, <2>1, <2>3, <3>1, GoAssumption
  <2>4. CASE v = s
    <3>1. won /\ goSess'[u].owns = g /\ goSess'[u] = goSess[u]
      BY <1>1, <1>6, <2>4
    <3> QED  BY <1>9, <2>1, <2>4, <3>1, GoAssumption
  <2> QED  BY <2>2, <2>3, <2>4
<1>12. GoSparesLive
  BY <1>2, <1>5 DEF GoSparesLive, GoExists
<1> QED  BY <1>7, <1>8, <1>10, <1>11, <1>12 DEF GoInv

\* A claim is won when nobody is within the window, a heartbeat when the goal names the session.
LEMMA GoClaimInv ==
  ASSUME GoInv, NEW s \in GoSessions, GoClaimLive(s) \/ GoHeartbeat(s)
  PROVE  GoInv' /\ GoSparesLive
<1>0. goGoal \in [GoGoals -> GoGoalRec] /\ goSess \in [GoSessions -> GoSessRec]
  BY DEF GoInv, GoTypeOK
<1>1. CASE GoClaimLive(s)
  <2> DEFINE g == goSess[s].goal
             won == GoExists(g) /\ GoClaimable(g, s)
  <2>1. g \in GoGoals
    BY <1>1 DEF GoClaimLive, GoInv, GoUnderWay
  <2>2. /\ goGoal' = IF won THEN [goGoal EXCEPT ![g] = [@ EXCEPT !.live = s, !.age = 0]] ELSE goGoal
        /\ goSess' = [goSess EXCEPT ![s] = [GoIdle EXCEPT !.owns = IF won THEN g ELSE GoNone]]
        /\ UNCHANGED <<goPaths, goLeases, goPlan>>
    BY <1>1 DEF GoClaimLive
  <2>3. won \in BOOLEAN
    BY DEF GoExists, GoClaimable
  <2>4. won => GoExists(g) /\ GoClaimable(g, s)
    OBVIOUS
  <2> HIDE DEF g, won
  <2> QED  BY <2>1, <2>2, <2>3, <2>4, GoAnswered
<1>2. CASE GoHeartbeat(s)
  <2> DEFINE g == goSess[s].owns
             mine == GoExists(g) /\ goGoal[g].live = s
  <2>1. g \in GoGoals
    BY <1>0, <1>2 DEF GoHeartbeat, GoSessRec
  <2>2. /\ goGoal' = IF mine THEN [goGoal EXCEPT ![g].age = 0] ELSE goGoal
        /\ goSess' = [goSess EXCEPT ![s] = [GoIdle EXCEPT !.owns = IF mine THEN g ELSE GoNone]]
        /\ UNCHANGED <<goPaths, goLeases, goPlan>>
    BY <1>2 DEF GoHeartbeat
  <2>3. mine \in BOOLEAN
    BY DEF GoExists
  <2>4. mine => GoExists(g) /\ GoClaimable(g, s)
    BY DEF GoClaimable
  <2>5. mine => [goGoal EXCEPT ![g].age = 0] = [goGoal EXCEPT ![g] = [@ EXCEPT !.live = s, !.age = 0]]
    <3> SUFFICES ASSUME mine
                 PROVE  [goGoal EXCEPT ![g].age = 0]
                          = [goGoal EXCEPT ![g] = [@ EXCEPT !.live = s, !.age = 0]]
      OBVIOUS
    <3>1. goGoal[g] \in GoGoalRec /\ goGoal[g].live = s
      BY <1>0, <2>1
    <3> HIDE DEF g
    <3>2. [goGoal[g] EXCEPT !.age = 0] = [goGoal[g] EXCEPT !.live = s, !.age = 0]
      BY <3>1 DEF GoGoalRec
    <3> QED  BY <1>0, <2>1, <3>2
  <2> HIDE DEF g, mine
  <2> QED  BY <2>1, <2>2, <2>3, <2>4, <2>5, GoAnswered
<1> QED  BY <1>1, <1>2

\* Time passes for the goals and for the sessions alike.
LEMMA GoTickInv ==
  ASSUME GoInv, GoTick
  PROVE  GoInv' /\ GoSparesLive
<1> DEFINE gage(g) == IF goGoal[g].live = GoNone THEN 0 ELSE GoOlder(goGoal[g].age)
           sage(s) == IF goSess[s].owns = GoNone THEN 0 ELSE GoOlder(goSess[s].age)
<1>0. goGoal \in [GoGoals -> GoGoalRec] /\ goSess \in [GoSessions -> GoSessRec]
  BY DEF GoInv, GoTypeOK
<1>1. /\ goGoal' = [g \in GoGoals |-> [goGoal[g] EXCEPT !.age = gage(g)]]
      /\ goSess' = [s \in GoSessions |-> [goSess[s] EXCEPT !.age = sage(s)]]
      /\ UNCHANGED <<goPaths, goLeases, goPlan>>
  BY <1>0 DEF GoTick, GoGoalRec, GoSessRec
<1>2. \A a \in GoAges : GoOlder(a) \in GoAges
  BY GoAssumption DEF GoAges, GoOlder
<1>3. 0 \in GoAges
  BY GoAssumption DEF GoAges
<1>4. \A g \in GoGoals : gage(g) \in GoAges
  BY <1>0, <1>2, <1>3 DEF GoGoalRec
<1>5. \A s \in GoSessions : sage(s) \in GoAges
  BY <1>0, <1>2, <1>3 DEF GoSessRec
<1>6. ASSUME NEW g \in GoGoals, NEW s \in GoSessions, goSess[s].owns # GoNone,
             goGoal[g].live # GoNone
      PROVE  /\ sage(s) <= GoStale => goSess[s].age <= GoStale
             /\ goGoal[g].age <= goSess[s].age => gage(g) <= sage(s)
  <2>1. goGoal[g].age \in GoAges /\ goSess[s].age \in GoAges
    BY <1>0 DEF GoGoalRec, GoSessRec
  <2>2. \A a, b \in GoAges : /\ GoOlder(a) <= GoStale => a <= GoStale
                             /\ a <= b => GoOlder(a) <= GoOlder(b)
    BY GoAssumption DEF GoAges, GoOlder
  <2> QED  BY <1>6, <2>1, <2>2
<1>7. ASSUME NEW s \in GoSessions, goSess[s].owns # GoNone
      PROVE  sage(s) <= GoStale => goSess[s].age <= GoStale
  <2>1. goSess[s].age \in GoAges
    BY <1>0 DEF GoSessRec
  <2>2. \A a \in GoAges : GoOlder(a) <= GoStale => a <= GoStale
    BY GoAssumption DEF GoAges, GoOlder
  <2> QED  BY <1>7, <2>1, <2>2
<1> HIDE DEF gage, sage
<1>8. \A g \in GoGoals : /\ goGoal'[g] \in GoGoalRec
                         /\ goGoal'[g].status = goGoal[g].status /\ goGoal'[g].live = goGoal[g].live
                         /\ goGoal'[g].age = gage(g)
  BY <1>0, <1>1, <1>4 DEF GoGoalRec
<1>9. \A s \in GoSessions : /\ goSess'[s] \in GoSessRec
                            /\ goSess'[s].pc = goSess[s].pc /\ goSess'[s].goal = goSess[s].goal
                            /\ goSess'[s].repo = goSess[s].repo /\ goSess'[s].owns = goSess[s].owns
                            /\ goSess'[s].age = sage(s)
  BY <1>0, <1>1, <1>5 DEF GoSessRec
<1>10. GoTypeOK'
  BY <1>1, <1>8, <1>9 DEF GoInv, GoTypeOK
<1>11. GoUnderWay'
  BY <1>9 DEF GoInv, GoUnderWay
<1>12. GoBeliefHolds'
  <2> SUFFICES ASSUME NEW s \in GoSessions, NEW g \in GoGoals, goSess'[s].owns = g
               PROVE  /\ goGoal'[g].status # "none"
                      /\ goSess'[s].age <= GoStale /\ GoExists(g)'
                           => goGoal'[g].live = s /\ goGoal'[g].age <= goSess'[s].age
    BY DEF GoBeliefHolds
  <2>1. goSess[s].owns = g /\ g # GoNone /\ s # GoNone
    BY <1>9, GoAssumption
  <2>2. goGoal'[g].status # "none"
    BY <1>8, <2>1 DEF GoInv, GoBeliefHolds
  <2>3. ASSUME sage(s) <= GoStale, GoExists(g)
        PROVE  goGoal[g].live = s /\ gage(g) <= sage(s)
    <3>1. goSess[s].age <= GoStale
      BY <1>7, <2>1, <2>3
    <3>2. goGoal[g].live = s /\ goGoal[g].age <= goSess[s].age
      BY <2>1, <2>3, <3>1 DEF GoInv, GoBeliefHolds
    <3> QED  BY <1>6, <2>1, <3>2
  <2>4. GoExists(g)' => GoExists(g)
    BY <1>8 DEF GoExists
  <2> QED  BY <1>8, <1>9, <2>2, <2>3, <2>4
<1>13. GoBeliefsAgree'
  <2> SUFFICES ASSUME NEW s \in GoSessions, NEW u \in GoSessions, s # u,
                      goSess'[s].owns = goSess'[u].owns, goSess'[s].owns # GoNone
               PROVE  goSess'[s].age > GoStale \/ goSess'[u].age > GoStale
    BY DEF GoBeliefsAgree
  <2>1. goSess[s].age > GoStale \/ goSess[u].age > GoStale
    BY <1>9 DEF GoInv, GoBeliefsAgree
  <2>2. ASSUME NEW v \in GoSessions PROVE goSess[v].age \in Nat /\ sage(v) \in Nat
    BY <1>0, <1>5 DEF GoSessRec, GoAges
  <2>3. /\ sage(s) <= GoStale => goSess[s].age <= GoStale
        /\ sage(u) <= GoStale => goSess[u].age <= GoStale
    BY <1>7, <1>9
  <2>4. goSess'[s].age = sage(s) /\ goSess'[u].age = sage(u)
    BY <1>9
  <2> QED  BY <2>1, <2>2, <2>3, <2>4, GoAssumption
<1>14. GoSparesLive
  BY <1>8 DEF GoSparesLive, GoExists
<1> QED  BY <1>10, <1>11, <1>12, <1>13, <1>14 DEF GoInv

\* Cycles, owners, workers, worktrees and the collector's plan.
LEMMA GoOthersInv ==
  ASSUME GoInv,
         \/ \E g \in GoGoals : GoCycle(g) \/ GoClose(g) \/ \E r \in GoRepos : GoBind(g, r)
         \/ \E r \in GoRepos : GoDelegate(r) \/ GoWorktree(r)
         \/ GoGcPlan
  PROVE  GoInv' /\ GoSparesLive
<1>0. GoWorldOK /\ goGoal \in [GoGoals -> GoGoalRec]
  BY DEF GoInv, GoTypeOK, GoWorldOK
<1>1. ASSUME NEW g \in GoGoals, GoCycle(g) PROVE GoInv' /\ GoSparesLive
  <2> DEFINE x == [goGoal[g] EXCEPT !.pid = ~@]
  <2>1. goGoal' = [goGoal EXCEPT ![g] = x] /\ UNCHANGED <<goPaths, goLeases, goSess, goPlan>>
    BY <1>0, <1>1 DEF GoCycle
  <2>2. /\ x \in GoGoalRec /\ x.status = goGoal[g].status /\ x.live = goGoal[g].live
        /\ x.age = goGoal[g].age
    BY <1>0 DEF GoGoalRec
  <2>3. goGoal[g].status = "open"
    BY <1>1 DEF GoCycle
  <2>4. GoWorldOK'
    BY <1>0, <2>1 DEF GoWorldOK
  <2> HIDE DEF x
  <2> QED  BY <2>1, <2>2, <2>3, <2>4, GoGoalMoves DEF GoExists
<1>2. ASSUME NEW g \in GoGoals, GoClose(g) PROVE GoInv' /\ GoSparesLive
  <2> DEFINE x == [goGoal[g] EXCEPT !.status = "closed"]
  <2>1. goGoal' = [goGoal EXCEPT ![g] = x] /\ UNCHANGED <<goPaths, goLeases, goSess, goPlan>>
    BY <1>0, <1>2 DEF GoClose
  <2>2. /\ x \in GoGoalRec /\ x.status = "closed" /\ x.live = goGoal[g].live
        /\ x.age = goGoal[g].age
    BY <1>0 DEF GoGoalRec
  <2>3. goGoal[g].status = "open"
    BY <1>2 DEF GoClose
  <2>4. GoWorldOK'
    BY <1>0, <2>1 DEF GoWorldOK
  <2> HIDE DEF x
  <2> QED  BY <2>1, <2>2, <2>3, <2>4, GoGoalMoves DEF GoExists
<1>3. ASSUME NEW g \in GoGoals, NEW r \in GoRepos, GoBind(g, r) PROVE GoInv' /\ GoSparesLive
  <2> DEFINE x == [goGoal[g] EXCEPT !.repo = r]
  <2>1. goGoal' = [goGoal EXCEPT ![g] = x] /\ UNCHANGED <<goPaths, goLeases, goSess, goPlan>>
    BY <1>0, <1>3 DEF GoBind
  <2>2. /\ x \in GoGoalRec /\ x.status = goGoal[g].status /\ x.live = goGoal[g].live
        /\ x.age = goGoal[g].age
    BY <1>0 DEF GoGoalRec
  <2>3. GoExists(g)
    BY <1>3 DEF GoBind
  <2>4. GoWorldOK'
    BY <1>0, <2>1 DEF GoWorldOK
  <2> HIDE DEF x
  <2> QED  BY <2>1, <2>2, <2>3, <2>4, GoGoalMoves DEF GoExists
<1>4. ASSUME NEW r \in GoRepos, GoDelegate(r) \/ GoWorktree(r) PROVE GoInv' /\ GoSparesLive
  <2>1. GoWorldOK' /\ UNCHANGED <<goGoal, goSess>>
    BY <1>0, <1>4 DEF GoDelegate, GoWorktree, GoWorldOK
  <2> QED  BY <2>1, GoWorldMoves
<1>5. CASE GoGcPlan
  <2>1. \A g \in GoGoals : goGoal[g].repo \in GoRepos \cup {GoNone}
    BY <1>0 DEF GoGoalRec
  <2>2. goPlan' \in [GoGoals -> GoRepos \cup {GoNone}]
    BY <1>5, <2>1 DEF GoGcPlan
  <2>3. UNCHANGED <<goGoal, goPaths, goLeases, goSess>>
    BY <1>5 DEF GoGcPlan
  <2>4. GoWorldOK'
    BY <1>0, <2>2, <2>3 DEF GoWorldOK
  <2> QED  BY <2>3, <2>4, GoWorldMoves
<1> QED  BY <1>1, <1>2, <1>3, <1>4, <1>5

\* The collector removes what it planned, where the planned path has not come back.
LEMMA GoGcApplyInv ==
  ASSUME GoInv, GoGcApply
  PROVE  GoInv' /\ GoSparesLive
<1>0. goGoal \in [GoGoals -> GoGoalRec]
  BY DEF GoInv, GoTypeOK
<1> DEFINE gone == [GoBlank EXCEPT !.status = "removed"]
<1>1. /\ goGoal' = [g \in GoGoals |-> IF GoGcRemoves(g) THEN gone ELSE goGoal[g]]
      /\ goPlan' = [g \in GoGoals |-> GoNone]
      /\ UNCHANGED <<goPaths, goLeases, goSess>>
  BY DEF GoGcApply
<1>2. gone \in GoGoalRec /\ gone.status = "removed"
  <2>1. 0 \in GoAges
    BY GoAssumption DEF GoAges
  <2> QED  BY <2>1 DEF GoBlank, GoGoalRec
<1> HIDE DEF gone
<1>3. \A g \in GoGoals : goGoal'[g] = IF GoGcRemoves(g) THEN gone ELSE goGoal[g]
  BY <1>1
<1>4. GoTypeOK'
  <2>1. goGoal' \in [GoGoals -> GoGoalRec]
    BY <1>0, <1>1, <1>2
  <2> QED  BY <1>1, <2>1 DEF GoInv, GoTypeOK
<1>5. GoUnderWay' /\ GoBeliefsAgree'
  BY <1>1 DEF GoInv, GoUnderWay, GoBeliefsAgree
<1>6. GoBeliefHolds'
  BY <1>1, <1>2, <1>3 DEF GoInv, GoBeliefHolds, GoExists
<1>7. GoSparesLive
  BY <1>3 DEF GoSparesLive, GoExists, GoGcRemoves
<1> QED  BY <1>4, <1>5, <1>6, <1>7 DEF GoInv

\* Every step of the sessions and their goals.
LEMMA GoNextInv ==
  ASSUME GoInv, [GoNext]_goVars
  PROVE  GoInv' /\ GoSparesLive
<1>1. CASE UNCHANGED goVars
  <2>1. UNCHANGED <<goGoal, goSess>> /\ GoWorldOK'
    BY <1>1 DEF goVars, GoInv, GoTypeOK, GoWorldOK
  <2> QED  BY <2>1, GoWorldMoves
<1>2. ASSUME NEW s \in GoSessions, GoSession(s) PROVE GoInv' /\ GoSparesLive
  BY <1>2, GoAdmitInv, GoSeeLeasesInv, GoReconcileInv, GoClaimInv DEF GoSession
<1> QED  BY <1>1, <1>2, GoTickInv, GoOthersInv, GoGcApplyInv DEF GoNext

(* Any number of sessions, goals and worktrees, any staleness window: two
   sessions never both believe in their work on one goal within the window,
   and the collection spares a goal whose planned worktree is there. *)
THEOREM OwnershipIsSafe == GoSpec => GoSafe
<1>1. GoInit => GoInv
  BY GoInitInv
<1>2. GoInv /\ [GoNext]_goVars => GoInv'
  BY GoNextInv
<1>3. GoInv => GoTypeOK /\ GoBeliefsAgree
  BY DEF GoInv
<1>4. GoInv /\ [GoNext]_goVars
        => [\A g \in GoGoals : goGoal'[g].status = "removed" /\ GoExists(g)
              => \/ goGoal[g].repo \notin goPaths
                 \/ goGoal[g].repo # goPlan[g]]_goVars
  BY GoNextInv DEF GoSparesLive
<1> QED  BY <1>1, <1>2, <1>3, <1>4, PTL DEF GoSpec, GoSafe, GoGcSparesLive

-----------------------------------------------------------------------------
(* Roadmap proposals *)

\* Nobody at work and no row.
LEMMA RpInitInv == RpInit => RpInv
<1> SUFFICES ASSUME RpInit PROVE RpInv
  OBVIOUS
<1>1. 0 \in 0..RpMaxAttempts /\ 0 \in 0..RpMaxTime + RpLease /\ 0 \in 0..RpMaxTime
  BY RpAssumption
<1>2. RpAbsent \in RpRow /\ RpAbsent.status = "none"
  BY <1>1 DEF RpAbsent, RpRow, RpStatuses
<1>3. RpIdle \in RpUse /\ RpIdle.pc = "idle" /\ RpIdle.yes = FALSE
  BY <1>1, <1>2 DEF RpIdle, RpUse
<1>4. RpWorldOK
  BY <1>1, <1>2, <1>3 DEF RpInit, RpWorldOK
<1>5. (\A p \in RpProcs : rpProc[p] = RpIdle) /\ (\A u \in RpUpdates : rpRow[u] = RpAbsent)
      /\ rpWritten = {}
  BY DEF RpInit
<1>6. RpAtWork /\ RpOwnAttempt
  BY <1>3, <1>5 DEF RpAtWork, RpOwnAttempt
<1>7. RpTold /\ RpAnswered /\ RpApplied
  <2>1. RpAbsent.attempt = 0
    BY DEF RpAbsent
  <2> QED  BY <1>2, <1>3, <1>5, <2>1 DEF RpTold, RpAnswered, RpApplied
<1> QED  BY <1>4, <1>6, <1>7 DEF RpInv

\* A caller who rests.
LEMMA RpRests == RpIdle \in RpUse /\ RpIdle.pc = "idle" /\ RpIdle.yes = FALSE /\ RpAbsent \in RpRow
                 /\ RpAbsent.status = "none" /\ RpAbsent.attempt = 0
<1>1. 0 \in 0..RpMaxAttempts /\ 0 \in 0..RpMaxTime + RpLease
  BY RpAssumption
<1>2. RpAbsent \in RpRow /\ RpAbsent.status = "none" /\ RpAbsent.attempt = 0
  BY <1>1 DEF RpAbsent, RpRow, RpStatuses
<1> QED  BY <1>1, <1>2 DEF RpIdle, RpUse

\* The types and the rows as they are.
LEMMA RpFacts ==
  ASSUME RpInv
  PROVE  /\ rpRow \in [RpUpdates -> RpRow] /\ rpProc \in [RpProcs -> RpUse]
         /\ rpSheet \in [revision : Nat, cell : RpUpdates \cup {RpNone, "person"},
                         keys : SUBSET RpUpdates]
         /\ rpClock \in 0..RpMaxTime /\ rpHost \in {RpNone, "first", "other"}
         /\ rpWritten = rpSheet.keys /\ rpLate \subseteq RpUpdates
         /\ \A p \in RpProcs : /\ rpProc[p] \in RpUse
                               /\ rpProc[p].pc # "idle" => rpProc[p].update \in RpUpdates
                               /\ rpProc[p].yes => rpProc[p].update \in rpWritten
BY DEF RpInv, RpWorldOK, RpAtWork

\* A caller goes on without a row, a write or an attempt changing hands.
LEMMA RpWalks ==
  ASSUME RpInv, NEW p \in RpProcs, NEW x \in RpUse,
         rpProc' = [rpProc EXCEPT ![p] = x], x.pc \notin {"write", "settle"},
         x.pc # "idle" => x.update \in RpUpdates, x.yes => x.update \in rpWritten,
         x.pc = "moved" => x.yes \/ x.update \notin rpWritten,
         UNCHANGED <<rpRow, rpSheet, rpWritten, rpLate, rpClock>>,
         rpHost' \in {RpNone, "first", "other"}
  PROVE  RpInv'
<1>1. rpProc'[p] = x /\ rpProc' \in [RpProcs -> RpUse]
      /\ \A q \in RpProcs \ {p} : rpProc'[q] = rpProc[q]
  BY RpFacts
<1>2. RpWorldOK'
  BY <1>1, RpFacts DEF RpWorldOK
<1>3. RpAtWork'
  BY <1>1 DEF RpInv, RpAtWork
<1>4. RpOwnAttempt'
  BY <1>1 DEF RpInv, RpOwnAttempt
<1>5. RpTold'
  BY <1>1 DEF RpInv, RpTold
<1>6. RpAnswered'
  BY <1>1 DEF RpInv, RpAnswered
<1>7. RpApplied'
  BY DEF RpInv, RpApplied
<1> QED  BY <1>2, <1>3, <1>4, <1>5, <1>6, <1>7 DEF RpInv

\* A row gets a new status from a caller who then rests.
LEMMA RpRowMoves ==
  ASSUME RpInv, NEW p \in RpProcs, rpProc' = [rpProc EXCEPT ![p] = RpIdle],
         NEW u \in RpUpdates, NEW y \in RpRow, rpRow' = [rpRow EXCEPT ![u] = y],
         y.attempt = rpRow[u].attempt,
         UNCHANGED <<rpSheet, rpWritten, rpClock, rpHost>>,
         rpLate \subseteq rpLate', rpLate' \subseteq RpUpdates,
         y.status # "none",
         u \notin rpLate' /\ y.status \in {"rejected", "superseded"} => u \notin rpWritten,
         \/ u \in rpLate' \/ u \notin rpWritten \/ y.status # "proposed"
         \/ \A q \in RpProcs : q # p =>
              ~(rpProc[q].pc = "moved" /\ rpProc[q].update = u /\ ~rpProc[q].yes),
         y.status = "applied" => u \in rpWritten,
         y.status = "applying" => rpRow[u].status = "applying",
         \/ u \in rpLate' \/ u \in rpWritten \/ y.status = "applying" \/ rpRow[u].status # "applying"
         \/ \A q \in RpProcs : q # p =>
              ~(rpProc[q].pc = "write" /\ rpProc[q].update = u /\ rpRow[u].attempt = rpProc[q].attempt)
  PROVE  RpInv'
<1>1. /\ rpProc'[p] = RpIdle /\ rpProc' \in [RpProcs -> RpUse]
      /\ \A q \in RpProcs \ {p} : rpProc'[q] = rpProc[q]
  BY RpFacts, RpRests
<1>2. /\ rpRow'[u] = y /\ rpRow' \in [RpUpdates -> RpRow]
      /\ \A v \in RpUpdates \ {u} : rpRow'[v] = rpRow[v]
  BY RpFacts
<1>3. RpWorldOK'
  BY <1>1, <1>2, RpFacts DEF RpWorldOK
<1>4. \A v \in RpUpdates : rpRow'[v].attempt = rpRow[v].attempt
  BY <1>2
<1>5. ASSUME NEW q \in RpProcs
      PROVE  /\ rpProc'[q].pc # "idle" => rpProc'[q].update \in RpUpdates
             /\ rpProc'[q].yes => rpProc'[q].update \in rpWritten'
             /\ rpProc'[q].pc \in {"write", "settle"} =>
                  rpProc'[q].attempt <= rpRow'[rpProc'[q].update].attempt
  <2>1. CASE q = p
    BY <1>1, <2>1, RpRests
  <2>2. CASE q # p
    BY <1>1, <1>4, <2>2 DEF RpInv, RpAtWork
  <2> QED  BY <2>1, <2>2
<1>6. RpAtWork'
  BY <1>5 DEF RpAtWork
<1>7. RpOwnAttempt'
  BY <1>1, RpRests DEF RpInv, RpOwnAttempt
<1>8. ASSUME NEW v \in RpUpdates, v \notin rpLate'
      PROVE  /\ rpRow'[v].status \in {"none", "rejected", "superseded"}
                  => v \notin rpWritten'
             /\ \A q \in RpProcs : rpProc'[q].update = v =>
                  LET mine == rpRow'[v].status = "applying"
                              /\ rpRow'[v].attempt = rpProc'[q].attempt IN
                  /\ rpProc'[q].pc = "write" => mine \/ v \in rpWritten'
                  /\ rpProc'[q].pc = "settle" /\ mine /\ ~rpProc'[q].yes => v \notin rpWritten'
  <2>1. v \notin rpLate
    BY <1>8
  <2>2. rpRow'[v].status \in {"none", "rejected", "superseded"} => v \notin rpWritten
    BY <1>2, <1>8, <2>1 DEF RpInv, RpTold
  <2>3. ASSUME NEW q \in RpProcs, rpProc'[q].update = v, rpProc'[q].pc \in {"write", "settle"}
        PROVE  LET mine == rpRow'[v].status = "applying"
                           /\ rpRow'[v].attempt = rpProc'[q].attempt IN
               /\ rpProc'[q].pc = "write" => mine \/ v \in rpWritten
               /\ rpProc'[q].pc = "settle" /\ mine /\ ~rpProc'[q].yes => v \notin rpWritten
    <3>1. q # p /\ rpProc'[q] = rpProc[q]
      BY <1>1, <2>3, RpRests
    <3>2. /\ rpProc[q].pc = "write" => (rpRow[v].status = "applying"
                                        /\ rpRow[v].attempt = rpProc[q].attempt)
                                       \/ v \in rpWritten
          /\ rpProc[q].pc = "settle" /\ rpRow[v].status = "applying"
             /\ rpRow[v].attempt = rpProc[q].attempt /\ ~rpProc[q].yes => v \notin rpWritten
      BY <2>1, <2>3, <3>1 DEF RpInv, RpTold
    <3>3. CASE v = u
      BY <1>2, <1>8, <2>3, <3>1, <3>2, <3>3
    <3>4. CASE v # u
      BY <1>2, <2>3, <3>1, <3>2, <3>4
    <3> QED  BY <3>3, <3>4
  <2> QED  BY <2>2, <2>3
<1>9. RpTold'
  BY <1>8 DEF RpTold
<1>10. RpAnswered'
  <2>1. ASSUME NEW q \in RpProcs, rpProc'[q].pc = "moved", ~rpProc'[q].yes,
               rpRow'[rpProc'[q].update].status = "proposed", rpProc'[q].update \notin rpLate'
        PROVE  rpProc'[q].update \notin rpWritten
    <3>1. q # p /\ rpProc'[q] = rpProc[q] /\ rpProc[q].update \in RpUpdates
      BY <1>1, <2>1, RpRests, RpFacts
    <3>2. CASE rpProc[q].update = u
      BY <1>2, <2>1, <3>1, <3>2
    <3>3. CASE rpProc[q].update # u
      BY <1>2, <2>1, <3>1, <3>3 DEF RpInv, RpAnswered
    <3> QED  BY <3>2, <3>3
  <2> QED  BY <2>1 DEF RpAnswered
<1>11. RpApplied'
  BY <1>2 DEF RpInv, RpApplied
<1> QED  BY <1>3, <1>6, <1>7, <1>9, <1>10, <1>11 DEF RpInv

\* An attempt is claimed: the row had none that is still on its way.
LEMMA RpClaims ==
  ASSUME RpInv, NEW p \in RpProcs, NEW pc \in {"write", "settle"},
         rpProc[p].pc \in {"compare", "moved"}, RpClaim(p, rpProc[p].update, pc),
         pc = "settle" => rpProc[p].yes,
         UNCHANGED <<rpSheet, rpWritten, rpLate, rpClock, rpHost>>
  PROVE  RpInv'
<1> DEFINE u == rpProc[p].update
           y == [rpRow[u] EXCEPT !.status = "applying", !.attempt = @ + 1,
                                 !.expiry = rpClock + RpLease]
           x == [rpProc[p] EXCEPT !.pc = pc, !.attempt = rpRow[u].attempt + 1,
                                  !.yes = pc = "settle"]
<1>0. rpProc[p] \in RpUse /\ u \in RpUpdates /\ rpRow[u] \in RpRow
      /\ rpRow \in [RpUpdates -> RpRow] /\ rpProc \in [RpProcs -> RpUse]
  BY RpFacts
<1>1. CASE RpReturn(p) /\ UNCHANGED rpRow
  BY <1>1, RpWalks, RpRests, RpFacts DEF RpReturn, RpGoto
<1>2. CASE /\ rpRow[u].status = "proposed" /\ rpRow[u].attempt < RpMaxAttempts
           /\ rpRow' = [rpRow EXCEPT ![u].status = "applying", ![u].attempt = @ + 1,
                                     ![u].expiry = rpClock + RpLease]
           /\ RpGoto(p, x)
  <2>1. /\ rpRow[u].attempt + 1 \in 0..RpMaxAttempts /\ rpRow[u].attempt \in Nat
        /\ rpClock + RpLease \in 0..RpMaxTime + RpLease
    BY <1>0, <1>2, RpAssumption, RpFacts DEF RpRow
  <2>2. /\ y \in RpRow /\ y.status = "applying" /\ y.attempt = rpRow[u].attempt + 1
    BY <1>0, <2>1 DEF RpRow, RpStatuses
  <2>3. rpRow' = [rpRow EXCEPT ![u] = y]
    BY <1>0, <1>2
  <2>4. /\ x \in RpUse /\ x.pc = pc /\ x.attempt = rpRow[u].attempt + 1 /\ x.update = u
        /\ x.yes = (pc = "settle")
    BY <1>0, <2>1 DEF RpUse
  <2>5. rpProc' = [rpProc EXCEPT ![p] = x]
    BY <1>2 DEF RpGoto
  <2> HIDE DEF x, y
  <2>6. /\ rpProc'[p] = x /\ rpProc' \in [RpProcs -> RpUse]
        /\ \A q \in RpProcs \ {p} : rpProc'[q] = rpProc[q]
    BY <1>0, <2>4, <2>5
  <2>7. /\ rpRow'[u] = y /\ rpRow' \in [RpUpdates -> RpRow]
        /\ \A v \in RpUpdates \ {u} : rpRow'[v] = rpRow[v]
    BY <1>0, <2>2, <2>3
  <2>8. RpWorldOK'
    BY <2>6, <2>7, RpFacts DEF RpWorldOK
  <2>9. \A q \in RpProcs : rpProc[q].pc \in {"write", "settle"} /\ rpProc[q].update = u =>
             rpProc[q].attempt \in Nat /\ rpProc[q].attempt < y.attempt
    <3>1. \A q \in RpProcs : rpProc[q].attempt \in Nat
      <4>1. \A q \in RpProcs : rpProc[q].attempt \in 0..RpMaxAttempts
        BY <1>0 DEF RpUse
      <4> QED  BY <4>1, RpAssumption
    <3>2. \A q \in RpProcs : rpProc[q].pc \in {"write", "settle"} /\ rpProc[q].update = u =>
             rpProc[q].attempt <= rpRow[u].attempt
      BY DEF RpInv, RpAtWork
    <3> DEFINE n == rpRow[u].attempt
    <3>3. n \in Nat /\ y.attempt = n + 1
      BY <2>1, <2>2
    <3>4. ASSUME NEW q \in RpProcs, rpProc[q].pc \in {"write", "settle"}, rpProc[q].update = u
          PROVE  rpProc[q].attempt \in Nat /\ rpProc[q].attempt < y.attempt
      <4> DEFINE m == rpProc[q].attempt
      <4>1. m \in Nat /\ m <= n
        BY <3>1, <3>2, <3>4
      <4> HIDE DEF m, n
      <4>2. m \in Nat /\ m < y.attempt
        BY <3>3, <4>1
      <4> QED  BY <4>2 DEF m
    <3> QED  BY <3>4
  <2>10. ASSUME NEW q \in RpProcs
         PROVE  /\ rpProc'[q].pc # "idle" => rpProc'[q].update \in RpUpdates
                /\ rpProc'[q].yes => rpProc'[q].update \in rpWritten'
                /\ rpProc'[q].pc \in {"write", "settle"} =>
                     rpProc'[q].attempt <= rpRow'[rpProc'[q].update].attempt
    <3>1. CASE q = p
      <4>1. rpProc'[q] = x /\ rpRow'[u] = y
        BY <2>6, <2>7, <3>1
      <4>2. y.attempt <= y.attempt
        BY <2>1, <2>2
      <4>3. x.yes => u \in rpWritten'
        BY <2>4 DEF RpInv, RpAtWork
      <4> HIDE DEF u
      <4> QED  BY <1>0, <2>2, <2>4, <4>1, <4>2, <4>3
    <3>2. CASE q # p
      <4>1. /\ rpProc[q].pc # "idle" => rpProc[q].update \in RpUpdates
            /\ rpProc[q].yes => rpProc[q].update \in rpWritten
            /\ rpProc[q].pc \in {"write", "settle"} =>
                 rpProc[q].attempt <= rpRow[rpProc[q].update].attempt
        BY DEF RpInv, RpAtWork
      <4> QED  BY <2>1, <2>2, <2>6, <2>7, <2>9, <3>2, <4>1
    <3> QED  BY <3>1, <3>2
  <2>11. RpAtWork'
    BY <2>10 DEF RpAtWork
  <2>12. RpOwnAttempt'
    BY <2>1, <2>2, <2>4, <2>6, <2>9 DEF RpInv, RpOwnAttempt
  <2>13. ASSUME NEW v \in RpUpdates, v \notin rpLate
         PROVE  /\ rpRow'[v].status \in {"none", "rejected", "superseded"}
                     => v \notin rpWritten
                /\ \A q \in RpProcs : rpProc'[q].update = v =>
                     LET mine == rpRow'[v].status = "applying"
                                 /\ rpRow'[v].attempt = rpProc'[q].attempt IN
                     /\ rpProc'[q].pc = "write" => mine \/ v \in rpWritten
                     /\ rpProc'[q].pc = "settle" /\ mine /\ ~rpProc'[q].yes => v \notin rpWritten
    <3>1. /\ rpRow[v].status \in {"none", "rejected", "superseded"}
               => v \notin rpWritten
          /\ \A q \in RpProcs : rpProc[q].update = v =>
               LET mine == rpRow[v].status = "applying"
                           /\ rpRow[v].attempt = rpProc[q].attempt IN
               /\ rpProc[q].pc = "write" => mine \/ v \in rpWritten
               /\ rpProc[q].pc = "settle" /\ mine /\ ~rpProc[q].yes => v \notin rpWritten
      BY <2>13 DEF RpInv, RpTold
    <3>2. CASE v # u
      BY <2>4, <2>6, <2>7, <3>1, <3>2
    <3>3. CASE v = u
      <4>1. rpRow[v].status # "applying"
        BY <1>2, <3>3
      <4>2. rpRow'[v] = y
        BY <2>7, <3>3
      <4>3. ASSUME NEW q \in RpProcs, rpProc'[q].update = v
            PROVE  LET mine == rpRow'[v].status = "applying"
                               /\ rpRow'[v].attempt = rpProc'[q].attempt IN
                   /\ rpProc'[q].pc = "write" => mine \/ v \in rpWritten'
                   /\ rpProc'[q].pc = "settle" /\ mine /\ ~rpProc'[q].yes => v \notin rpWritten'
        <5>1. CASE q = p
          <6>1. rpProc'[q] = x
            BY <2>6, <5>1
          <6> QED  BY <2>2, <2>4, <4>1, <4>2, <6>1
        <5>2. CASE q # p
          <6>1. rpProc'[q] = rpProc[q] /\ rpProc[q].update = v
            BY <2>6, <4>3, <5>2
          <6>2. rpProc[q].pc \in {"write", "settle"} => rpProc[q].attempt # y.attempt
            BY <2>1, <2>2, <2>9, <3>3, <6>1
          <6> QED  BY <3>1, <4>1, <4>2, <6>1, <6>2
        <5> QED  BY <5>1, <5>2
      <4> QED  BY <2>2, <4>2, <4>3
    <3> QED  BY <3>2, <3>3
  <2>14. RpTold'
    BY <2>13 DEF RpTold
  <2>15. RpAnswered'
    <3>1. x.pc # "moved" /\ y.status # "proposed"
      BY <2>2, <2>4
    <3> QED  BY <2>6, <2>7, <3>1, RpFacts DEF RpInv, RpAnswered
  <2>16. RpApplied'
    BY <2>2, <2>7 DEF RpInv, RpApplied
  <2> QED  BY <2>8, <2>11, <2>12, <2>14, <2>15, <2>16 DEF RpInv
<1> QED  BY <1>1, <1>2 DEF RpClaim

\* A write: the cell is written with the key, or the caller goes on to settle
\* with what the sheet told it.
LEMMA RpWrites ==
  ASSUME RpInv, NEW p \in RpProcs, RpWrite(p) PROVE RpInv'
<1> DEFINE u == rpProc[p].update
           x == [rpProc[p] EXCEPT !.pc = "settle", !.yes = u \in rpWritten']
<1>1. rpProc[p] \in RpUse /\ u \in RpUpdates /\ rpProc \in [RpProcs -> RpUse]
      /\ rpProc[p].pc = "write" /\ rpWritten = rpSheet.keys
  BY RpFacts DEF RpWrite
<1>2. /\ \/ UNCHANGED <<rpSheet, rpWritten>>
         \/ /\ rpSheet' = [revision |-> rpSheet.revision + 1, cell |-> u,
                           keys |-> rpSheet.keys \cup {u}]
            /\ rpWritten' = rpWritten \cup {u} /\ u \notin rpWritten
      /\ UNCHANGED <<rpRow, rpLate, rpClock, rpHost>>
  BY <1>1 DEF RpWrite
<1>3. rpProc' = [rpProc EXCEPT ![p] = x]
  <2> DEFINE held == u \in rpSheet.keys
             writes == ~held /\ rpSheet.cell = rpProc[p].seen.from
  <2>1. rpProc' = [rpProc EXCEPT ![p] = [rpProc[p] EXCEPT !.pc = "settle",
                                                          !.yes = held \/ writes]]
    BY DEF RpWrite, RpGoto
  <2>2. (held \/ writes) = (u \in rpWritten')
    BY <1>1 DEF RpWrite
  <2> QED  BY <2>1, <2>2
<1>4. /\ x \in RpUse /\ x.pc = "settle" /\ x.update = u /\ x.attempt = rpProc[p].attempt
      /\ x.yes = (u \in rpWritten')
  <2>1. (u \in rpWritten') \in BOOLEAN
    OBVIOUS
  <2> QED  BY <1>1, <2>1 DEF RpUse
<1> HIDE DEF x
<1>5. /\ rpProc'[p] = x /\ rpProc' \in [RpProcs -> RpUse]
      /\ \A q \in RpProcs \ {p} : rpProc'[q] = rpProc[q]
  BY <1>1, <1>3, <1>4
<1>6. rpWritten \subseteq rpWritten' /\ \A v \in rpWritten' : v \in rpWritten \/ v = u
  BY <1>2
<1>7. RpWorldOK'
  <2>1. rpWritten' = rpSheet'.keys
    BY <1>1, <1>2
  <2>2. rpSheet' \in [revision : Nat, cell : RpUpdates \cup {RpNone, "person"},
                      keys : SUBSET RpUpdates]
    BY <1>1, <1>2, RpFacts
  <2> QED  BY <1>2, <1>5, <2>1, <2>2, RpFacts DEF RpWorldOK
<1>8. RpAtWork'
  BY <1>1, <1>2, <1>4, <1>5, <1>6 DEF RpInv, RpAtWork
<1>9. RpOwnAttempt'
  <2>1. \A q \in RpProcs : /\ rpProc'[q].pc \in {"write", "settle"}
                                <=> rpProc[q].pc \in {"write", "settle"}
                           /\ rpProc'[q].update = rpProc[q].update
                           /\ rpProc'[q].attempt = rpProc[q].attempt
    BY <1>1, <1>4, <1>5
  <2> QED  BY <2>1 DEF RpInv, RpOwnAttempt
<1>10. ASSUME NEW v \in RpUpdates, v \notin rpLate
       PROVE  /\ rpRow[v].status \in {"none", "rejected", "superseded"}
                   => v \notin rpWritten'
              /\ \A q \in RpProcs : rpProc'[q].update = v =>
                   LET mine == rpRow[v].status = "applying"
                               /\ rpRow[v].attempt = rpProc'[q].attempt IN
                   /\ rpProc'[q].pc = "write" => mine \/ v \in rpWritten'
                   /\ rpProc'[q].pc = "settle" /\ mine /\ ~rpProc'[q].yes => v \notin rpWritten'
  <2>1. /\ rpRow[v].status \in {"none", "rejected", "superseded"}
             => v \notin rpWritten
        /\ \A q \in RpProcs : rpProc[q].update = v =>
             LET mine == rpRow[v].status = "applying"
                         /\ rpRow[v].attempt = rpProc[q].attempt IN
             /\ rpProc[q].pc = "write" => mine \/ v \in rpWritten
             /\ rpProc[q].pc = "settle" /\ mine /\ ~rpProc[q].yes => v \notin rpWritten
    BY <1>10 DEF RpInv, RpTold
  <2>2. CASE v # u \/ UNCHANGED rpWritten
    <3>1. v \in rpWritten' <=> v \in rpWritten
      BY <1>6, <2>2
    <3>2. ASSUME NEW q \in RpProcs, rpProc'[q].update = v
          PROVE  LET mine == rpRow[v].status = "applying"
                             /\ rpRow[v].attempt = rpProc'[q].attempt IN
                 /\ rpProc'[q].pc = "write" => mine \/ v \in rpWritten
                 /\ rpProc'[q].pc = "settle" /\ mine /\ ~rpProc'[q].yes => v \notin rpWritten
      <4>1. CASE q = p
        BY <1>4, <1>5, <3>1, <3>2, <4>1
      <4>2. CASE q # p
        BY <1>5, <2>1, <3>2, <4>2
      <4> QED  BY <4>1, <4>2
    <3> QED  BY <2>1, <3>1, <3>2
  <2>3. CASE v = u /\ v \notin rpWritten /\ v \in rpWritten'
    <3>1. rpRow[v].status = "applying" /\ rpRow[v].attempt = rpProc[p].attempt
      BY <1>1, <2>1, <2>3
    <3>2. ASSUME NEW q \in RpProcs, rpProc'[q].update = v, rpProc'[q].pc = "settle",
                 rpRow[v].attempt = rpProc'[q].attempt
          PROVE  q = p
      <4>1. CASE q # p
        <5>1. rpProc[q].pc = "settle" /\ rpProc[q].update = rpProc[p].update
              /\ rpProc[q].attempt = rpProc[p].attempt
          BY <1>5, <2>3, <3>1, <3>2, <4>1
        <5> QED  BY <1>1, <5>1 DEF RpInv, RpOwnAttempt
      <4> QED  BY <4>1
    <3> QED  BY <1>4, <1>5, <2>3, <3>1, <3>2
  <2> QED  BY <1>2, <2>2, <2>3
<1>11. RpTold'
  BY <1>2, <1>10 DEF RpTold
<1>12. RpAnswered'
  <2>1. ASSUME NEW q \in RpProcs, rpProc'[q].pc = "moved", ~rpProc'[q].yes,
               rpRow[rpProc'[q].update].status = "proposed", rpProc'[q].update \notin rpLate
        PROVE  rpProc'[q].update \notin rpWritten'
    <3>1. q # p /\ rpProc'[q] = rpProc[q] /\ rpProc[q].update \in RpUpdates
      BY <1>4, <1>5, <2>1, RpFacts
    <3>2. rpProc[q].update \notin rpWritten
      BY <2>1, <3>1 DEF RpInv, RpAnswered
    <3>3. rpProc[q].update # u
      <4>1. u \notin rpLate /\ u \notin rpWritten => rpRow[u].status = "applying"
        BY <1>1 DEF RpInv, RpTold
      <4> QED  BY <2>1, <3>1, <3>2, <4>1
    <3> QED  BY <1>6, <3>1, <3>2, <3>3
  <2> QED  BY <1>2, <2>1 DEF RpAnswered
<1>13. RpApplied'
  BY <1>2, <1>6 DEF RpInv, RpApplied
<1> QED  BY <1>7, <1>8, <1>9, <1>11, <1>12, <1>13 DEF RpInv

\* Proposing: the dry run is recorded once.
LEMMA RpProposes ==
  ASSUME RpInv, NEW p \in RpProcs, NEW u \in RpUpdates, RpPropose(p, u) \/ RpDryRun(p)
  PROVE  RpInv'
<1>1. CASE RpPropose(p, u)
  <2> DEFINE x == [RpIdle EXCEPT !.pc = "dry run", !.update = u, !.read = rpSheet.revision]
  <2>1. rpProc' = [rpProc EXCEPT ![p] = x]
    BY <1>1 DEF RpPropose, RpGoto
  <2>2. x \in RpUse /\ x.pc = "dry run" /\ x.update = u /\ x.yes = FALSE
    BY RpRests, RpFacts DEF RpUse
  <2> HIDE DEF x
  <2> QED  BY <1>1, <2>1, <2>2, RpWalks, RpFacts DEF RpPropose
<1>2. CASE RpDryRun(p)
  <2> DEFINE v == rpProc[p].update
             y == [RpAbsent EXCEPT !.status = "proposed", !.base = rpProc[p].read,
                                   !.from = rpSheet.cell]
  <2>1. /\ rpProc[p] \in RpUse /\ v \in RpUpdates /\ rpProc' = [rpProc EXCEPT ![p] = RpIdle]
        /\ UNCHANGED <<rpSheet, rpProof, rpHost, rpClock, rpEdits, rpWritten, rpLate>>
    BY <1>2, RpFacts DEF RpDryRun, RpReturn, RpGoto
  <2>2. CASE rpRow[v].status = "none"
    <3>1. rpRow' = [rpRow EXCEPT ![v] = y]
      BY <1>2, <2>2 DEF RpDryRun
    <3>2. y \in RpRow /\ y.status = "proposed" /\ y.attempt = 0
      BY <2>1, RpRests, RpFacts DEF RpRow, RpUse, RpStatuses
    <3>3. rpRow[v].attempt = 0 /\ (v \notin rpLate => v \notin rpWritten)
      BY <2>1, <2>2 DEF RpInv, RpTold, RpApplied
    <3> HIDE DEF v, y
    <3> QED  BY <2>1, <2>2, <3>1, <3>2, <3>3, RpRowMoves, RpFacts
  <2>3. CASE rpRow[v].status # "none"
    <3>1. UNCHANGED rpRow
      BY <1>2, <2>3 DEF RpDryRun
    <3> QED  BY <2>1, <3>1, RpWalks, RpRests, RpFacts
  <2> QED  BY <2>2, <2>3
<1> QED  BY <1>1, <1>2

\* Applying up to the claim: the row, the revision and the key are read.
LEMMA RpReads ==
  ASSUME RpInv, NEW p \in RpProcs, NEW u \in RpUpdates,
         RpApply(p, u) \/ RpRevision(p) \/ RpAsk(p) \/ RpReconcile(p, u) \/ RpAskStuck(p)
  PROVE  RpInv'
<1>0. RpIdle \in RpUse /\ rpRow[u] \in RpRow /\ rpProc[p] \in RpUse /\ rpClock \in Nat
      /\ rpSheet.revision \in Nat /\ rpWritten = rpSheet.keys
  BY RpRests, RpFacts, RpAssumption
<1>1. CASE RpApply(p, u)
  <2>1. rpHost' \in {RpNone, "first", "other"}
    BY <1>1 DEF RpApply, RpBindHost
  <2>2. CASE rpRow[u].status = "proposed"
    <3> DEFINE x == [RpIdle EXCEPT !.pc = "revision", !.update = u, !.seen = rpRow[u]]
    <3>1. rpProc' = [rpProc EXCEPT ![p] = x]
      BY <1>1, <2>2 DEF RpApply, RpGoto
    <3>2. x \in RpUse /\ x.pc = "revision" /\ x.update = u /\ x.yes = FALSE
      BY <1>0, RpRests DEF RpUse
    <3> HIDE DEF x
    <3> QED  BY <1>1, <2>1, <3>1, <3>2, RpWalks, RpFacts DEF RpApply
  <2>3. CASE rpRow[u].status # "proposed"
    <3>1. UNCHANGED <<rpRow, rpSheet, rpProc, rpClock, rpWritten, rpLate>>
      BY <1>1, <2>3 DEF RpApply
    <3> QED  BY <2>1, <3>1 DEF RpInv, RpWorldOK, RpAtWork, RpOwnAttempt, RpTold, RpAnswered,
         RpApplied
  <2> QED  BY <2>2, <2>3
<1>2. CASE RpRevision(p)
  <2> DEFINE x == [rpProc[p] EXCEPT !.pc = "compare", !.read = rpSheet.revision]
  <2>1. rpProc' = [rpProc EXCEPT ![p] = x]
    BY <1>2 DEF RpRevision, RpGoto
  <2>2. x \in RpUse /\ x.pc = "compare" /\ x.update = rpProc[p].update /\ x.yes = rpProc[p].yes
    BY <1>0 DEF RpUse
  <2> HIDE DEF x
  <2> QED  BY <1>2, <2>1, <2>2, RpWalks, RpFacts DEF RpRevision
<1>3. CASE RpAsk(p) \/ RpAskStuck(p)
  <2>1. PICK pc \in {"moved", "resolve"} :
          rpProc' = [rpProc EXCEPT ![p] = [rpProc[p] EXCEPT !.pc = pc,
                                             !.yes = rpProc[p].update \in rpSheet.keys]]
    BY <1>3 DEF RpAsk, RpAskStuck, RpGoto
  <2> DEFINE x == [rpProc[p] EXCEPT !.pc = pc, !.yes = rpProc[p].update \in rpSheet.keys]
  <2>2. (rpProc[p].update \in rpSheet.keys) \in BOOLEAN
    OBVIOUS
  <2>3. x \in RpUse /\ x.pc = pc /\ x.update = rpProc[p].update
        /\ x.yes = (rpProc[p].update \in rpSheet.keys)
    BY <1>0, <2>2 DEF RpUse
  <2>4. rpProc' = [rpProc EXCEPT ![p] = x]
    BY <2>1
  <2>5. rpProc[p].pc # "idle" /\ UNCHANGED <<rpRow, rpSheet, rpHost, rpClock, rpWritten, rpLate>>
    BY <1>3 DEF RpAsk, RpAskStuck
  <2> HIDE DEF x
  <2> QED  BY <1>0, <2>3, <2>4, <2>5, RpWalks, RpFacts
<1>4. CASE RpReconcile(p, u)
  <2> DEFINE x == [RpIdle EXCEPT !.pc = "stuck", !.update = u, !.seen = rpRow[u],
                                 !.read = rpClock]
  <2>1. rpProc' = [rpProc EXCEPT ![p] = x] /\ rpHost' \in {RpNone, "first", "other"}
    BY <1>4 DEF RpReconcile, RpGoto, RpBindHost
  <2>2. x \in RpUse /\ x.pc = "stuck" /\ x.update = u /\ x.yes = FALSE
    BY <1>0, RpRests DEF RpUse
  <2> HIDE DEF x
  <2> QED  BY <1>4, <2>1, <2>2, RpWalks, RpFacts DEF RpReconcile
<1> QED  BY <1>1, <1>2, <1>3, <1>4

\* The claim on an unmoved source, and the answer about a moved one.
LEMMA RpTakes ==
  ASSUME RpInv, NEW p \in RpProcs, RpClaimFresh(p) \/ RpMoved(p)
  PROVE  RpInv'
<1>0. rpProc[p].pc \in {"compare", "moved"} /\ rpProc[p].update \in RpUpdates
      /\ UNCHANGED <<rpSheet, rpWritten, rpLate, rpClock, rpHost>>
  BY RpFacts DEF RpClaimFresh, RpMoved
<1>1. CASE RpClaimFresh(p) /\ RpClaim(p, rpProc[p].update, "write")
  BY <1>0, <1>1, RpClaims
<1>2. CASE RpMoved(p) /\ rpProc[p].yes
  <2>1. RpClaim(p, rpProc[p].update, "settle")
    BY <1>2 DEF RpMoved
  <2> QED  BY <1>0, <1>2, <2>1, RpClaims
<1>3. CASE rpProc' = [rpProc EXCEPT ![p] = RpIdle] /\ UNCHANGED rpRow
  BY <1>0, <1>3, RpWalks, RpRests, RpFacts
<1>4. CASE RpMoved(p) /\ ~rpProc[p].yes /\ rpRow[rpProc[p].update].status = "proposed"
  <2> DEFINE u == rpProc[p].update
             y == [rpRow[u] EXCEPT !.status = "superseded"]
  <2>1. rpProc' = [rpProc EXCEPT ![p] = RpIdle]
    BY <1>4 DEF RpMoved, RpReturn, RpGoto
  <2>2. rpRow' = [rpRow EXCEPT ![u].status = "superseded"]
    BY <1>4 DEF RpMoved
  <2>3. rpRow' = [rpRow EXCEPT ![u] = y]
    BY <2>2
  <2>4. y \in RpRow /\ y.status = "superseded" /\ y.attempt = rpRow[u].attempt
    BY <1>0, RpFacts DEF RpRow, RpStatuses
  <2>5. rpRow[u].status = "proposed" /\ u \in RpUpdates /\ (u \notin rpLate => u \notin rpWritten)
    BY <1>0, <1>4 DEF RpInv, RpAnswered, RpMoved
  <2> HIDE DEF u, y
  <2> QED  BY <1>0, <2>1, <2>3, <2>4, <2>5, RpRowMoves, RpFacts
<1>5. CASE RpMoved(p) /\ ~rpProc[p].yes /\ rpRow[rpProc[p].update].status # "proposed"
  BY <1>3, <1>5 DEF RpMoved, RpReturn, RpGoto
<1>6. CASE RpClaimFresh(p) /\ RpReturn(p) /\ UNCHANGED rpRow
  BY <1>3, <1>6 DEF RpReturn, RpGoto
<1> QED  BY <1>1, <1>2, <1>4, <1>5, <1>6 DEF RpClaimFresh

\* The attempt settles its row with what the sheet told it.
LEMMA RpSettles ==
  ASSUME RpInv, NEW p \in RpProcs, RpSettle(p) PROVE RpInv'
<1>1. PICK u \in RpUpdates : u = rpProc[p].update
  BY RpFacts DEF RpSettle
<1>2. /\ rpProc[p].pc = "settle" /\ rpProc' = [rpProc EXCEPT ![p] = RpIdle]
      /\ UNCHANGED <<rpSheet, rpWritten, rpClock, rpHost>> /\ UNCHANGED rpLate
      /\ rpRow[u] \in RpRow
  BY RpFacts DEF RpSettle, RpReturn, RpGoto
<1>3. CASE ~(rpRow[u].status = "applying" /\ rpRow[u].attempt = rpProc[p].attempt)
  <2>1. UNCHANGED rpRow
    BY <1>1, <1>3 DEF RpSettle
  <2> QED  BY <1>2, <2>1, RpWalks, RpRests, RpFacts
<1>4. CASE rpRow[u].status = "applying" /\ rpRow[u].attempt = rpProc[p].attempt
  <2>1. PICK s \in {"applied", "rejected"} : s = IF rpProc[p].yes THEN "applied" ELSE "rejected"
    OBVIOUS
  <2>2. rpRow' = [rpRow EXCEPT ![u].status = s]
    BY <1>1, <1>4, <2>1 DEF RpSettle
  <2>3. [rpRow[u] EXCEPT !.status = s] \in RpRow
    BY <1>2 DEF RpRow, RpStatuses
  <2>4. PICK y \in RpRow : y = [rpRow[u] EXCEPT !.status = s]
    BY <2>3
  <2>5. rpRow' = [rpRow EXCEPT ![u] = y]
    BY <2>2, <2>4
  <2>6. y.status = s /\ y.attempt = rpRow[u].attempt
    BY <1>2, <2>4 DEF RpRow
  <2>7. (s = "applied" => u \in rpWritten) /\ (s = "rejected" /\ u \notin rpLate => u \notin rpWritten)
    BY <1>1, <1>2, <1>4, <2>1 DEF RpInv, RpAtWork, RpTold
  <2>8. \A q \in RpProcs : q # p =>
          ~(rpProc[q].pc = "write" /\ rpProc[q].update = u /\ rpRow[u].attempt = rpProc[q].attempt)
    BY <1>1, <1>2, <1>4 DEF RpInv, RpOwnAttempt
  <2>9. rpLate \subseteq rpLate' /\ rpLate' \subseteq RpUpdates
    BY <1>2, RpFacts
  <2>10. /\ y.status \notin {"none", "applying"} /\ (y.status = "applied" => u \in rpWritten)
         /\ u \notin rpLate' /\ y.status = "rejected" => u \notin rpWritten
         /\ y.status \notin {"proposed", "superseded"}
    BY <1>2, <2>6, <2>7
  <2> QED  BY <1>2, <2>5, <2>6, <2>8, <2>9, <2>10, RpRowMoves
<1> QED  BY <1>3, <1>4

\* Reconciliation: a key the sheet holds settles the row, one it did not hold
\* requeues it.
LEMMA RpResolves ==
  ASSUME RpInv, NEW p \in RpProcs, RpResolve(p) PROVE RpInv'
<1>1. PICK u \in RpUpdates : u = rpProc[p].update
  BY RpFacts DEF RpResolve
<1> DEFINE same == rpRow[u].status = "applying" /\ rpRow[u].attempt = rpProc[p].seen.attempt
           requeue == same /\ ~rpProc[p].yes /\ rpProc[p].seen.expiry <= rpProc[p].read
           gone == \E q \in RpProcs : rpProc[q].update = u /\ RpOvertaken(rpProc[q])
<1>2. /\ rpProc[p].pc = "resolve" /\ rpProc' = [rpProc EXCEPT ![p] = RpIdle]
      /\ UNCHANGED <<rpSheet, rpWritten, rpClock, rpHost>>
      /\ rpLate' = IF requeue /\ gone THEN rpLate \cup {u} ELSE rpLate
      /\ rpRow[u] \in RpRow /\ rpRow \in [RpUpdates -> RpRow]
  BY <1>1, RpFacts DEF RpResolve, RpReturn, RpGoto
<1>3. /\ same /\ rpProc[p].yes => rpRow' = [rpRow EXCEPT ![u].status = "applied"]
      /\ requeue => rpRow' = [rpRow EXCEPT ![u].status = "proposed"]
      /\ ~(same /\ rpProc[p].yes) /\ ~requeue =>
           rpRow' = [rpRow EXCEPT ![u].status = rpRow[u].status]
  BY <1>1 DEF RpResolve
<1>4. rpLate \subseteq rpLate' /\ rpLate' \subseteq RpUpdates
  BY <1>2, RpFacts
<1>5. CASE ~(same /\ rpProc[p].yes) /\ ~requeue
  <2>1. UNCHANGED rpRow
    <3>1. rpRow' = [rpRow EXCEPT ![u] = [rpRow[u] EXCEPT !.status = rpRow[u].status]]
      BY <1>3, <1>5
    <3>2. [rpRow[u] EXCEPT !.status = rpRow[u].status] = rpRow[u]
      BY <1>2 DEF RpRow
    <3> QED  BY <1>2, <3>1, <3>2
  <2>2. UNCHANGED rpLate
    BY <1>2, <1>5
  <2> QED  BY <1>2, <2>1, <2>2, RpWalks, RpRests, RpFacts
<1>6. CASE same /\ rpProc[p].yes
  <2>1. [rpRow[u] EXCEPT !.status = "applied"] \in RpRow
    BY <1>2 DEF RpRow, RpStatuses
  <2>2. PICK y \in RpRow : y = [rpRow[u] EXCEPT !.status = "applied"]
    BY <2>1
  <2>3. rpRow' = [rpRow EXCEPT ![u] = y]
    BY <1>3, <1>6, <2>2
  <2>4. y.status = "applied" /\ y.attempt = rpRow[u].attempt
    BY <1>2, <2>2 DEF RpRow
  <2>5. u \in rpWritten
    BY <1>1, <1>6, RpFacts
  <2> HIDE DEF same, requeue, gone
  <2> QED  BY <1>2, <1>4, <2>3, <2>4, <2>5, RpRowMoves
<1>7. CASE requeue
  <2>1. [rpRow[u] EXCEPT !.status = "proposed"] \in RpRow
    BY <1>2 DEF RpRow, RpStatuses
  <2>2. PICK y \in RpRow : y = [rpRow[u] EXCEPT !.status = "proposed"]
    BY <2>1
  <2>3. rpRow' = [rpRow EXCEPT ![u] = y]
    BY <1>3, <1>7, <2>2
  <2>4. y.status = "proposed" /\ y.attempt = rpRow[u].attempt
    BY <1>2, <2>2 DEF RpRow
  <2>5. u \notin rpLate' =>
          /\ u \notin rpWritten \/ \A q \in RpProcs :
               ~(rpProc[q].pc = "moved" /\ rpProc[q].update = u /\ ~rpProc[q].yes)
          /\ \A q \in RpProcs : ~(rpProc[q].pc = "write" /\ rpProc[q].update = u)
    BY <1>2, <1>7 DEF RpOvertaken
  <2>6. \/ u \in rpLate'
        \/ \A q \in RpProcs : q # p =>
             ~(rpProc[q].pc = "write" /\ rpProc[q].update = u /\ rpRow[u].attempt = rpProc[q].attempt)
    BY <2>5
  <2> HIDE DEF same, requeue, gone
  <2> QED  BY <1>2, <1>4, <2>3, <2>4, <2>5, <2>6, RpRowMoves
<1> QED  BY <1>5, <1>6, <1>7

\* People, the record of proof, the clock and a death.
LEMMA RpWorld ==
  ASSUME RpInv, \/ RpEdit \/ RpTick
                \/ \E x \in {"evidence", "approval"} : RpProve(x)
                \/ \E p \in RpProcs : RpCrash(p)
  PROVE  RpInv'
<1>1. CASE RpEdit
  <2>1. /\ UNCHANGED <<rpRow, rpHost, rpProc, rpClock, rpWritten, rpLate>>
        /\ rpSheet'.keys = rpSheet.keys
        /\ rpSheet' \in [revision : Nat, cell : RpUpdates \cup {RpNone, "person"},
                         keys : SUBSET RpUpdates]
    <3>1. PICK cell \in {rpSheet.cell, "person"} :
            rpSheet' = [rpSheet EXCEPT !.revision = @ + 1, !.cell = cell]
      BY <1>1 DEF RpEdit
    <3>2. rpSheet.revision + 1 \in Nat /\ cell \in RpUpdates \cup {RpNone, "person"}
      BY RpFacts
    <3> QED  BY <1>1, <3>1, <3>2, RpFacts DEF RpEdit
  <2> QED  BY <2>1 DEF RpInv, RpWorldOK, RpAtWork, RpOwnAttempt, RpTold, RpAnswered,
         RpApplied
<1>2. CASE RpTick
  <2>1. rpClock' \in 0..RpMaxTime /\ UNCHANGED <<rpRow, rpSheet, rpHost, rpProc, rpWritten, rpLate>>
    BY <1>2, RpFacts, RpAssumption DEF RpTick
  <2> QED  BY <2>1 DEF RpInv, RpWorldOK, RpAtWork, RpOwnAttempt, RpTold, RpAnswered,
         RpApplied
<1>3. CASE \E x \in {"evidence", "approval"} : RpProve(x)
  <2>1. UNCHANGED <<rpRow, rpSheet, rpHost, rpProc, rpClock, rpWritten, rpLate>>
    BY <1>3 DEF RpProve
  <2> QED  BY <2>1 DEF RpInv, RpWorldOK, RpAtWork, RpOwnAttempt, RpTold, RpAnswered,
         RpApplied
<1>4. CASE \E p \in RpProcs : RpCrash(p)
  BY <1>4, RpWalks, RpRests, RpFacts DEF RpCrash, RpReturn, RpGoto
<1> QED  BY <1>1, <1>2, <1>3, <1>4

\* What a caller does keeps the invariant.
LEMMA RpStepInv == RpInv /\ [RpNext]_rpVars => RpInv'
<1> SUFFICES ASSUME RpInv, [RpNext]_rpVars PROVE RpInv'
  OBVIOUS
<1>1. CASE UNCHANGED rpVars
  BY <1>1 DEF rpVars, RpInv, RpWorldOK, RpAtWork, RpOwnAttempt, RpTold, RpAnswered,
         RpApplied
<1>2. CASE \/ RpEdit \/ RpTick
           \/ \E x \in {"evidence", "approval"} : RpProve(x)
           \/ \E p \in RpProcs : RpCrash(p)
  BY <1>2, RpWorld
<1>3. ASSUME NEW p \in RpProcs, NEW u \in RpUpdates,
             \/ RpPropose(p, u) \/ RpApply(p, u) \/ RpReconcile(p, u)
      PROVE  RpInv'
  BY <1>3, RpProposes, RpReads
<1>4. ASSUME NEW p \in RpProcs, RpDryRun(p) \/ RpRevision(p) \/ RpAsk(p) \/ RpAskStuck(p)
      PROVE  RpInv'
  <2>1. rpProc[p].update \in RpUpdates
    BY <1>4, RpFacts DEF RpDryRun, RpRevision, RpAsk, RpAskStuck
  <2> QED  BY <1>4, <2>1, RpProposes, RpReads
<1>5. ASSUME NEW p \in RpProcs,
             RpClaimFresh(p) \/ RpMoved(p) \/ RpWrite(p) \/ RpSettle(p) \/ RpResolve(p)
      PROVE  RpInv'
  BY <1>5, RpTakes, RpWrites, RpSettles, RpResolves
<1> QED  BY <1>1, <1>2, <1>3, <1>4, <1>5 DEF RpNext

\* Any callers, hosts and proposals: what the database says became of an update
\* is what happened at the sheet, but for one that was requeued as unwritten
\* while its attempt could still write or had.
THEOREM ProposalsAreTrue == RpSpec => []RpSafe
<1>1. RpInv => RpSafe
  <2> SUFFICES ASSUME RpInv PROVE RpSafe
    OBVIOUS
  <2>1. RpTypeOK
    BY RpFacts DEF RpTypeOK, RpRow
  <2>2. RpVerdictTrue
    BY DEF RpVerdictTrue, RpInv, RpTold, RpApplied
  <2> QED  BY <2>1, <2>2 DEF RpSafe
<1> QED  BY <1>1, RpInitInv, RpStepInv, PTL DEF RpSpec

-----------------------------------------------------------------------------
(* The life of a generated skill *)

\* The store is a sequence of candidates, each of them sound.
LEMMA SlFacts ==
  ASSUME SlInv
  PROVE  /\ Len(slStore) \in Nat /\ SlIds = 1..Len(slStore)
         /\ slStore \in [SlIds -> SlCand] /\ SlIds \subseteq Nat
         /\ slProc \in [SlProcs -> SlUse] /\ slLock \in SlProcs \cup {SlNone}
         /\ \A c \in SlIds : slStore[c] \in SlCand /\ SlSound(slStore[c], slGraded)
         /\ \A p \in SlProcs : slProc[p] \in SlUse /\ SlWorks(p)
<1>1. slStore \in Seq(SlCand)
  BY DEF SlInv
<1>2. Len(slStore) \in Nat /\ SlIds = 1..Len(slStore) /\ slStore \in [SlIds -> SlCand]
  BY <1>1 DEF SlIds
<1>3. SlIds \subseteq Nat
  BY <1>2
<1> QED  BY <1>2, <1>3 DEF SlInv

\* A process at rest.
LEMMA SlRests == SlIdle \in SlUse /\ SlIdle.pc = "idle"
<1>1. SlNone \in SlWords
  BY DEF SlWords
<1> QED  BY <1>1 DEF SlIdle, SlUse

\* An empty store and nobody at work.
LEMMA SlInitInv == SlInit => SlInv
<1> SUFFICES ASSUME SlInit PROVE SlInv
  OBVIOUS
<1>1. slStore \in Seq(SlCand) /\ SlIds = {}
  BY DEF SlInit, SlIds
<1>2. \A p \in SlProcs : slProc[p] = SlIdle
  BY DEF SlInit
<1>3. slProc \in [SlProcs -> SlUse] /\ slLock \in SlProcs \cup {SlNone} /\ ~slUngraded
  BY SlRests DEF SlInit
<1>4. \A p \in SlProcs : SlWorks(p)
  BY <1>2, SlRests DEF SlWorks
<1> QED  BY <1>1, <1>3, <1>4 DEF SlInv

\* The text of a candidate is a word, and what is sound stays so when more is graded.
LEMMA SlTextIsWord ==
  ASSUME NEW c \in Nat, NEW cand \in SlCand PROVE SlText(c, cand) \in SlWords
BY DEF SlText, SlCand, SlWords

\* What is sound stays so when more is graded.
LEMMA SlSoundMore ==
  ASSUME NEW cand, NEW G, NEW H, G \subseteq H, SlSound(cand, G) PROVE SlSound(cand, H)
BY DEF SlSound

\* The store may change as long as its candidates stay sound and nobody but who
\* comes to rest is between the two writes of a promotion.
LEMMA SlAllMoves ==
  ASSUME SlInv, slLock' \in SlProcs \cup {SlNone}, slUngraded' = slUngraded,
         slStore' \in Seq(SlCand), \A c \in DOMAIN slStore' : SlSound(slStore'[c], slGraded'),
         slGraded \subseteq slGraded', slProc' \in [SlProcs -> SlUse],
         \A p \in SlProcs : \/ slProc'[p] = slProc[p] /\ slLock # p
                            \/ slProc'[p].pc \in {"idle", "validated"}
  PROVE  SlInv'
<1>1. ASSUME NEW p \in SlProcs PROVE SlWorks(p)'
  <2>1. CASE slProc'[p] = slProc[p] /\ slLock # p
    <3>1. slProc[p].pc # "written" /\ (slProc[p].pc = "load" => slProc[p].text \in slGraded)
      BY <2>1, SlFacts DEF SlWorks
    <3> QED  BY <2>1, <3>1 DEF SlWorks
  <2>2. CASE slProc'[p].pc \in {"idle", "validated"}
    BY <2>2 DEF SlWorks
  <2> QED  BY <2>1, <2>2
<1> QED  BY <1>1 DEF SlInv, SlIds

\* While nobody has the lock, in particular.
LEMMA SlStoreMoves ==
  ASSUME SlInv, slLock = SlNone, slLock' = slLock, slUngraded' = slUngraded,
         slStore' \in Seq(SlCand), \A c \in DOMAIN slStore' : SlSound(slStore'[c], slGraded'),
         slGraded \subseteq slGraded', slProc' \in [SlProcs -> SlUse],
         \A p \in SlProcs : slProc'[p] = slProc[p] \/ slProc'[p].pc \in {"idle", "validated"}
  PROVE  SlInv'
<1>1. \A p \in SlProcs : slLock # p
  BY SlAssumption
<1> QED  BY <1>1, SlAllMoves

\* A store with as many candidates is a sequence.
LEMMA SlStoreIsSeq ==
  ASSUME SlInv, slStore' \in [SlIds -> SlCand]
  PROVE  slStore' \in Seq(SlCand) /\ DOMAIN slStore' = SlIds
<1>1. Len(slStore) \in Nat /\ slStore' \in [1..Len(slStore) -> SlCand]
  BY SlFacts
<1> QED  BY <1>1, SlFacts

\* An observation: a new candidate, or one more of the candidate it matches.
LEMMA SlObserves ==
  ASSUME SlInv, NEW task \in SlTasks, NEW goal \in SlGoals, SlObserve(task, goal)
  PROVE  SlInv'
<1>1. /\ slLock = SlNone /\ UNCHANGED <<slFile, slLock, slProc, slGraded, slUngraded>>
  BY DEF SlObserve
<1>2. CASE SlMatch = 0
  <2> DEFINE d == SlCandidate(task, goal)
  <2>1. slStore' = Append(slStore, d)
    BY <1>2 DEF SlObserve
  <2>2. SlNone \in SlWords
    BY DEF SlWords
  <2>3. d \in SlCand /\ d.successes = 0 /\ d.uses = 0 /\ d.validated = FALSE /\ d.path = FALSE
        /\ d.status = "candidate"
    BY <2>2 DEF SlCandidate, SlCand
  <2>4. SlSound(d, slGraded)
    BY <2>3 DEF SlSound
  <2> HIDE DEF d
  <2>5. slStore' \in Seq(SlCand) /\ slStore \in Seq(SlCand)
    BY <2>1, <2>3 DEF SlInv
  <2>6. ASSUME NEW c \in DOMAIN slStore' PROVE SlSound(slStore'[c], slGraded')
    <3>1. (c \in SlIds /\ slStore'[c] = slStore[c]) \/ slStore'[c] = d
      BY <2>1, <2>5 DEF SlIds
    <3> QED  BY <1>1, <2>4, <3>1, SlFacts
  <2> QED  BY <1>1, <2>5, <2>6, SlStoreMoves, SlFacts
<1>3. CASE SlMatch # 0
  <2> DEFINE m == SlMatch
  <2>1. slStore' = [slStore EXCEPT ![m] = SlMerged(slStore[m], task, goal)]
    BY <1>3 DEF SlObserve
  <2> HIDE DEF m
  <2>2. ASSUME NEW c \in SlIds
        PROVE  LET d == SlMerged(slStore[c], task, goal) IN
               d \in SlCand /\ SlSound(d, slGraded)
    <3> DEFINE k == slStore[c]
               d == SlMerged(k, task, goal)
    <3>1. k \in SlCand /\ SlSound(k, slGraded)
      BY SlFacts
    <3> HIDE DEF k
    <3>2. /\ d \in SlCand /\ d.successes = k.successes /\ d.uses = k.uses
          /\ d.validated = k.validated /\ d.approved = k.approved /\ d.path = k.path
          /\ d.text = k.text /\ (d.status = "active" => k.status = "active")
      <4> DEFINE t == IF k.status = "active" THEN "review" ELSE k.status
                 v == IF k.status = "active" THEN k.version + 1 ELSE k.version
                 n == k.seen + 1
                 T == k.tasks \cup {task}
                 G == k.goals \cup {goal}
      <4>1. d = [k EXCEPT !.status = t, !.version = v, !.seen = n, !.tasks = T, !.goals = G]
        BY DEF SlMerged
      <4>2. /\ t \in {"candidate", "active", "review", "deprecated"} /\ v \in Nat /\ n \in Nat
            /\ T \in SUBSET SlTasks /\ G \in SUBSET SlGoals /\ (t = "active" => k.status = "active")
        BY <3>1 DEF SlCand
      <4> HIDE DEF d, t, v, n, T, G
      <4>3. d \in SlCand
        BY <3>1, <4>1, <4>2 DEF SlCand
      <4>4. /\ d.successes = k.successes /\ d.uses = k.uses /\ d.validated = k.validated
            /\ d.approved = k.approved /\ d.path = k.path /\ d.text = k.text /\ d.status = t
        BY <3>1, <4>1 DEF SlCand
      <4> QED  BY <4>2, <4>3, <4>4
    <3> HIDE DEF d
    <3>3. d \in SlCand /\ SlSound(d, slGraded)
      BY <3>1, <3>2 DEF SlSound
    <3> QED  BY <3>3 DEF d, k
  <2>3. slStore \in [SlIds -> SlCand]
    BY SlFacts
  <2>4. slStore' \in [SlIds -> SlCand] /\ \A c \in SlIds : SlSound(slStore'[c], slGraded)
    <3>1. ASSUME NEW c \in SlIds
          PROVE  slStore'[c] \in SlCand /\ SlSound(slStore'[c], slGraded)
      <4>1. CASE c = m
        <5>1. slStore'[c] = SlMerged(slStore[c], task, goal)
          BY <2>1, <2>3, <4>1
        <5> QED  BY <2>2, <5>1
      <4>2. CASE c # m
        BY <2>1, <2>3, <4>2, SlFacts
      <4> QED  BY <4>1, <4>2
    <3>2. slStore' = [c \in SlIds |-> slStore'[c]]
      BY <2>1, <2>3
    <3> QED  BY <3>1, <3>2
  <2> QED  BY <1>1, <2>4, SlStoreIsSeq, SlStoreMoves, SlFacts
<1> QED  BY <1>2, <1>3

\* A sound candidate that is given a status it may have stays sound.
LEMMA SlGivenStatus ==
  ASSUME NEW cand, NEW G, SlSound(cand, G),
         NEW s \in {"candidate", "active", "review", "deprecated"}, s = "active" => cand.path
  PROVE  [cand EXCEPT !.status = s] \in SlCand /\ SlSound([cand EXCEPT !.status = s], G)
<1> DEFINE d == [cand EXCEPT !.status = s]
<1>1. cand \in SlCand
  BY DEF SlSound
<1>2. /\ d \in SlCand /\ d.status = s /\ d.successes = cand.successes /\ d.uses = cand.uses
      /\ d.validated = cand.validated /\ d.approved = cand.approved /\ d.path = cand.path
      /\ d.text = cand.text
  BY <1>1 DEF SlCand
<1> HIDE DEF d
<1>3. d \in SlCand /\ SlSound(d, G)
  BY <1>2 DEF SlSound
<1> QED  BY <1>3 DEF d

\* A candidate is sent to review, deprecated or restored.
LEMMA SlGives ==
  ASSUME SlInv, slLock = SlNone, NEW k,
         NEW s \in {"candidate", "active", "review", "deprecated"},
         slStore' = [slStore EXCEPT ![k].status = s],
         k \in SlIds /\ s = "active" => slStore[k].path,
         UNCHANGED <<slFile, slLock, slProc, slGraded, slUngraded>>
  PROVE  SlInv'
<1>1. ASSUME NEW c \in SlIds
      PROVE  slStore'[c] \in SlCand /\ SlSound(slStore'[c], slGraded)
  <2>1. SlSound(slStore[c], slGraded) /\ slStore[c] \in SlCand /\ slStore \in [SlIds -> SlCand]
    BY SlFacts
  <2>2. CASE c = k
    <3>1. slStore'[c] = [slStore[c] EXCEPT !.status = s]
      BY <2>1, <2>2
    <3> QED  BY <2>1, <2>2, <3>1, SlGivenStatus
  <2>3. CASE c # k
    BY <2>1, <2>3
  <2> QED  BY <2>2, <2>3
<1>2. slStore' = [c \in SlIds |-> slStore'[c]]
  BY SlFacts
<1>3. slStore' \in [SlIds -> SlCand]
  BY <1>1, <1>2
<1> QED  BY <1>1, <1>3, SlStoreIsSeq, SlStoreMoves, SlFacts

\* Review, deprecation and restoration.
LEMMA SlReviews ==
  ASSUME SlInv, \/ \E c \in SlIds : SlHold(c)
                \/ \E skill \in SlTasks : SlDeprecate(skill) \/ SlRestore(skill)
  PROVE  SlInv'
<1>1. CASE \E c \in SlIds : SlHold(c)
  BY <1>1, SlGives DEF SlHold
<1>2. CASE \E skill \in SlTasks : SlDeprecate(skill)
  BY <1>2, SlGives DEF SlDeprecate
<1>3. CASE \E skill \in SlTasks : SlRestore(skill)
  BY <1>3, SlGives DEF SlRestore
<1> QED  BY <1>1, <1>2, <1>3

\* A grade covers the texts of the goal's candidates as they are.
LEMMA SlValidates ==
  ASSUME SlInv, NEW p \in SlProcs, NEW goal \in SlGoals, SlValidate(p, goal) PROVE SlInv'
<1> DEFINE covered == {c \in SlIds : SlEligible(slStore[c], goal)}
           x == [SlIdle EXCEPT !.pc = "validated", !.goal = goal]
<1>1. /\ slLock = SlNone /\ UNCHANGED <<slLock, slUngraded>>
      /\ slGraded' = slGraded \cup {SlText(c, slStore[c]) : c \in covered}
      /\ slProc' = [slProc EXCEPT ![p] = x]
      /\ slStore' = [c \in SlIds |->
                      IF c \in covered
                      THEN [slStore[c] EXCEPT !.validated = TRUE,
                                              !.approved = SlText(c, slStore[c])]
                      ELSE slStore[c]]
  BY DEF SlValidate, SlGoto
<1>2. x \in SlUse /\ x.pc = "validated"
  BY SlRests DEF SlUse
<1>3. ASSUME NEW c \in SlIds
      PROVE  slStore'[c] \in SlCand /\ SlSound(slStore'[c], slGraded')
  <2>1. /\ slStore[c] \in SlCand /\ SlSound(slStore[c], slGraded) /\ c \in Nat
        /\ slGraded \subseteq slGraded'
    BY <1>1, SlFacts
  <2>2. CASE c \in covered
    <3> DEFINE w == SlText(c, slStore[c])
               d == [slStore[c] EXCEPT !.validated = TRUE, !.approved = w]
    <3>1. w \in SlWords /\ w \in slGraded'
      BY <1>1, <2>1, <2>2, SlTextIsWord
    <3>2. slStore'[c] = d
      BY <1>1, <2>2
    <3> HIDE DEF w
    <3>3. /\ d \in SlCand /\ d.validated = TRUE /\ d.approved = w /\ d.path = slStore[c].path
          /\ d.text = slStore[c].text /\ d.status = slStore[c].status
          /\ d.uses = slStore[c].uses /\ d.successes = slStore[c].successes
      BY <2>1, <3>1 DEF SlCand
    <3> HIDE DEF d
    <3> QED  BY <2>1, <3>1, <3>2, <3>3 DEF SlSound
  <2>3. CASE c \notin covered
    BY <1>1, <2>1, <2>3, SlSoundMore
  <2> QED  BY <2>2, <2>3
<1> HIDE DEF covered, x
<1>4. slStore' \in [SlIds -> SlCand]
  <2>1. slStore' = [c \in SlIds |-> slStore'[c]]
    BY <1>1
  <2> QED  BY <1>3, <2>1
<1>5. slProc' \in [SlProcs -> SlUse] /\ slProc'[p] = x /\ \A q \in SlProcs : q # p => slProc'[q] = slProc[q]
  BY <1>1, <1>2, SlFacts
<1>6. \A q \in SlProcs : slProc'[q] = slProc[q] \/ slProc'[q].pc \in {"idle", "validated"}
  BY <1>2, <1>5
<1>7. slGraded \subseteq slGraded'
  BY <1>1
<1>8. slStore' \in Seq(SlCand) /\ DOMAIN slStore' = SlIds
  BY <1>4, SlStoreIsSeq
<1> QED  BY <1>1, <1>3, <1>5, <1>6, <1>7, <1>8, SlStoreMoves

\* What the grade's own refused promotions write.
LEMMA SlAfterGrade ==
  ASSUME SlInv, NEW p \in SlProcs, SlPromoteAfterGrade(p) PROVE SlInv'
<1> DEFINE held == {c \in SlIds : /\ slProc[p].goal \in slStore[c].goals
                                  /\ SlConfident(slStore[c]) /\ SlHeld(slStore[c])}
<1>1. /\ slLock = SlNone /\ UNCHANGED <<slLock, slGraded, slUngraded>>
      /\ slProc' = [slProc EXCEPT ![p] = SlIdle]
      /\ slStore' = [c \in SlIds |-> IF c \in held THEN [slStore[c] EXCEPT !.status = "review"]
                                     ELSE slStore[c]]
  BY DEF SlPromoteAfterGrade, SlGoto
<1> HIDE DEF held
<1>2. ASSUME NEW c \in SlIds
      PROVE  slStore'[c] \in SlCand /\ SlSound(slStore'[c], slGraded)
  <2>1. slStore[c] \in SlCand /\ SlSound(slStore[c], slGraded)
    BY SlFacts
  <2> QED  BY <1>1, <2>1, SlGivenStatus
<1>3. slStore' \in [SlIds -> SlCand]
  <2>1. slStore' = [c \in SlIds |-> slStore'[c]]
    BY <1>1
  <2> QED  BY <1>2, <2>1
<1>4. slProc' \in [SlProcs -> SlUse]
      /\ \A q \in SlProcs : slProc'[q] = slProc[q] \/ slProc'[q].pc \in {"idle", "validated"}
  BY <1>1, SlRests, SlFacts
<1> QED  BY <1>1, <1>2, <1>3, <1>4, SlStoreIsSeq, SlStoreMoves

\* A reported outcome scores the skill and may retire it.
LEMMA SlScores ==
  ASSUME SlInv, NEW skill \in SlTasks, NEW success \in BOOLEAN, SlOutcome(skill, success)
  PROVE  SlInv'
<1> DEFINE scored == {c \in SlIds : slStore[c].skill = skill /\ slStore[c].status = "active"}
<1>1. /\ slLock = SlNone /\ UNCHANGED <<slLock, slProc, slGraded, slUngraded>>
      /\ slStore' = [c \in SlIds |-> IF c \in scored THEN SlScored(slStore[c], success)
                                     ELSE slStore[c]]
  BY DEF SlOutcome
<1> HIDE DEF scored
<1>2. ASSUME NEW cand, SlSound(cand, slGraded)
      PROVE  SlScored(cand, success) \in SlCand /\ SlSound(SlScored(cand, success), slGraded)
  <2> DEFINE u == cand.uses + 1
             n == cand.successes + IF success THEN 1 ELSE 0
             s == IF u >= SlTrial /\ 2 * n < u THEN "deprecated" ELSE cand.status
             d == SlScored(cand, success)
  <2>1. cand \in SlCand /\ cand.uses \in Nat /\ cand.successes \in Nat
        /\ cand.successes <= cand.uses
    BY <1>2 DEF SlSound, SlCand
  <2>2. u \in Nat /\ n \in Nat /\ n <= u
    BY <2>1
  <2>3. d = [cand EXCEPT !.uses = u, !.successes = n, !.status = s]
    BY DEF SlScored
  <2>4. s \in {"candidate", "active", "review", "deprecated"} /\ (s = "active" => cand.status = "active")
    BY <2>1 DEF SlCand
  <2> HIDE DEF u, n, s, d
  <2>5. d \in SlCand
    BY <2>1, <2>2, <2>3, <2>4 DEF SlCand
  <2>6. /\ d.uses = u /\ d.successes = n /\ d.status = s /\ d.validated = cand.validated
        /\ d.approved = cand.approved /\ d.path = cand.path /\ d.text = cand.text
    BY <2>1, <2>3 DEF SlCand
  <2>7. SlSound(d, slGraded)
    BY <1>2, <2>2, <2>4, <2>5, <2>6 DEF SlSound
  <2> QED  BY <2>5, <2>7 DEF d
<1>3. ASSUME NEW c \in SlIds
      PROVE  slStore'[c] \in SlCand /\ SlSound(slStore'[c], slGraded)
  <2>1. slStore[c] \in SlCand /\ SlSound(slStore[c], slGraded)
    BY SlFacts
  <2> QED  BY <1>1, <1>2, <2>1
<1>4. slStore' \in [SlIds -> SlCand]
  <2>1. slStore' = [c \in SlIds |-> slStore'[c]]
    BY <1>1
  <2> QED  BY <1>3, <2>1
<1> QED  BY <1>1, <1>3, <1>4, SlStoreIsSeq, SlStoreMoves, SlFacts

\* The second write of a promotion: the text is the one that was graded.
LEMMA SlPromotes ==
  ASSUME SlInv, NEW p \in SlProcs, SlPromote(p) PROVE SlInv'
<1> DEFINE k == slProc[p].c
           w == SlText(k, slStore[k])
           d == [slStore[k] EXCEPT !.status = "active", !.path = TRUE, !.text = w]
<1>1. /\ k \in SlIds /\ w \in slGraded /\ slLock = p
      /\ slLock' = SlNone /\ UNCHANGED <<slGraded, slUngraded>>
      /\ slProc' = [slProc EXCEPT ![p] = SlIdle]
  BY SlFacts DEF SlPromote, SlGoto, SlWorks
<1>2. slStore' = [slStore EXCEPT ![k].status = "active", ![k].path = TRUE, ![k].text = w]
  BY DEF SlPromote
<1>3. slStore \in [SlIds -> SlCand] /\ slStore[k] \in SlCand /\ SlSound(slStore[k], slGraded)
      /\ k \in Nat
  BY <1>1, SlFacts
<1>4. w \in SlWords
  BY <1>3, SlTextIsWord
<1>5. slStore' = [slStore EXCEPT ![k] = d]
  BY <1>2, <1>3
<1> HIDE DEF k, w
<1>6. /\ d \in SlCand /\ d.status = "active" /\ d.path = TRUE /\ d.text = w
      /\ d.validated = slStore[k].validated /\ d.approved = slStore[k].approved
      /\ d.uses = slStore[k].uses /\ d.successes = slStore[k].successes
  BY <1>3, <1>4 DEF SlCand
<1> HIDE DEF d
<1>7. SlSound(d, slGraded)
  BY <1>1, <1>3, <1>6 DEF SlSound
<1>8. slStore' \in [SlIds -> SlCand]
  BY <1>3, <1>5, <1>6
<1>9. \A c \in SlIds : SlSound(slStore'[c], slGraded)
  BY <1>3, <1>5, <1>7, SlFacts
<1>10. /\ slProc' \in [SlProcs -> SlUse]
       /\ \A q \in SlProcs : \/ slProc'[q] = slProc[q] /\ slLock # q
                             \/ slProc'[q].pc \in {"idle", "validated"}
  BY <1>1, SlRests, SlFacts
<1> QED  BY <1>1, <1>8, <1>9, <1>10, SlStoreIsSeq, SlAllMoves

\* A process goes on without the store or what is graded changing.
LEMMA SlWalks ==
  ASSUME SlInv, NEW p \in SlProcs, NEW x \in SlUse, slProc' = [slProc EXCEPT ![p] = x],
         UNCHANGED <<slStore, slGraded>>, ~slUngraded',
         \/ slLock' = slLock
         \/ slLock = SlNone /\ slLock' = p,
         x.pc = "written" => /\ slLock' = p /\ x.c \in SlIds
                             /\ SlText(x.c, slStore[x.c]) \in slGraded,
         x.pc = "load" => x.text \in slGraded
  PROVE  SlInv'
<1>1. /\ slProc'[p] = x /\ slProc' \in [SlProcs -> SlUse]
      /\ \A q \in SlProcs : q # p => slProc'[q] = slProc[q]
  BY SlFacts
<1>2. ASSUME NEW q \in SlProcs PROVE SlWorks(q)'
  <2>1. CASE q = p
    BY <1>1, <2>1 DEF SlWorks, SlIds, SlText
  <2>2. CASE q # p
    <3>1. slProc'[q] = slProc[q] /\ SlWorks(q)
      BY <1>1, <2>2, SlFacts
    <3>2. slProc[q].pc = "written" => slLock' = slLock
      BY <3>1, SlAssumption DEF SlWorks
    <3> QED  BY <3>1, <3>2 DEF SlWorks, SlIds, SlText
  <2> QED  BY <2>1, <2>2
<1> QED  BY <1>1, <1>2 DEF SlInv, SlIds

\* The first write of a promotion, a load and a death.
LEMMA SlWalkers ==
  ASSUME SlInv, NEW p \in SlProcs,
         \/ SlDies(p) \/ SlLoad(p)
         \/ \E c \in SlIds : SlWriteSkill(p, c) \/ SlReadStore(p, c)
  PROVE  SlInv'
<1>1. CASE SlDies(p)
  BY <1>1, SlWalks, SlRests DEF SlDies, SlGoto, SlInv
<1>2. CASE SlLoad(p)
  <2>1. ~slUngraded'
    BY <1>2, SlFacts DEF SlLoad, SlInv, SlWorks
  <2> QED  BY <1>2, <2>1, SlWalks, SlRests DEF SlLoad, SlGoto
<1>3. ASSUME NEW c \in SlIds, SlWriteSkill(p, c) PROVE SlInv'
  <2> DEFINE x == [SlIdle EXCEPT !.pc = "written", !.c = c]
  <2>1. x \in SlUse /\ x.pc = "written" /\ x.c = c
    BY SlRests, SlFacts DEF SlUse
  <2>2. SlText(c, slStore[c]) \in slGraded
    BY <1>3, SlFacts DEF SlWriteSkill, SlPromotable, SlConfident, SlSound
  <2>3. slProc' = [slProc EXCEPT ![p] = x] /\ slLock = SlNone /\ slLock' = p
        /\ UNCHANGED <<slStore, slGraded, slUngraded>>
    BY <1>3 DEF SlWriteSkill, SlGoto
  <2>4. ~slUngraded'
    BY <2>3 DEF SlInv
  <2> HIDE DEF x
  <2> QED  BY <2>1, <2>2, <2>3, <2>4, SlWalks
<1>4. ASSUME NEW c \in SlIds, SlReadStore(p, c) PROVE SlInv'
  <2> DEFINE x == [SlIdle EXCEPT !.pc = "load", !.skill = slStore[c].skill,
                                 !.text = slStore[c].text]
  <2>1. slStore[c] \in SlCand /\ SlSound(slStore[c], slGraded)
    BY SlFacts
  <2>2. slStore[c].skill \in SlTasks /\ slStore[c].text \in SlWords
    BY <2>1 DEF SlCand
  <2>3. x \in SlUse /\ x.pc = "load" /\ x.text = slStore[c].text
    BY <2>2, SlRests DEF SlUse
  <2>4. slStore[c].text \in slGraded
    BY <1>4, <2>1 DEF SlReadStore, SlSound
  <2>5. slProc' = [slProc EXCEPT ![p] = x] /\ slLock' = slLock
        /\ UNCHANGED <<slStore, slGraded, slUngraded>>
    BY <1>4 DEF SlReadStore, SlGoto
  <2>6. ~slUngraded'
    BY <2>5 DEF SlInv
  <2> HIDE DEF x
  <2> QED  BY <2>3, <2>4, <2>5, <2>6, SlWalks
<1> QED  BY <1>1, <1>2, <1>3, <1>4

\* Every step of the skills keeps the invariant.
LEMMA SlStepInv == SlInv /\ [SlNext]_slVars => SlInv'
<1> SUFFICES ASSUME SlInv, [SlNext]_slVars PROVE SlInv'
  OBVIOUS
<1>1. CASE UNCHANGED slVars
  BY <1>1 DEF slVars, SlInv, SlIds, SlWorks, SlText
<1>2. CASE \/ \E c \in SlIds : SlHold(c)
           \/ \E skill \in SlTasks : SlDeprecate(skill) \/ SlRestore(skill)
  BY <1>2, SlReviews
<1>3. CASE \/ \E task \in SlTasks, goal \in SlGoals : SlObserve(task, goal)
           \/ \E skill \in SlTasks, success \in BOOLEAN : SlOutcome(skill, success)
  BY <1>3, SlObserves, SlScores
<1>4. ASSUME NEW p \in SlProcs,
             \/ SlPromoteAfterGrade(p) \/ SlPromote(p)
             \/ \E goal \in SlGoals : SlValidate(p, goal)
      PROVE  SlInv'
  BY <1>4, SlAfterGrade, SlPromotes, SlValidates
<1>5. ASSUME NEW p \in SlProcs,
             \/ SlDies(p) \/ SlLoad(p)
             \/ \E c \in SlIds : SlWriteSkill(p, c) \/ SlReadStore(p, c)
      PROVE  SlInv'
  BY <1>5, SlWalkers
<1> QED  BY <1>1, <1>2, <1>3, <1>4, <1>5 DEF SlNext

\* Any tasks, goals and processes: a session is given texts only that a passing
\* grade covered word for word, whatever was observed, promoted, retired and
\* restored in between.
THEOREM SkillsAreGraded == SlSpec => []SlSafe
<1>1. SlInv => SlSafe
  <2> SUFFICES ASSUME SlInv PROVE SlSafe
    OBVIOUS
  <2>1. SlTypeOK
    BY SlFacts DEF SlTypeOK, SlCand, SlUse, SlSound
  <2> QED  BY <2>1 DEF SlSafe, SlLoadedIsGraded, SlInv
<1> QED  BY <1>1, SlInitInv, SlStepInv, PTL DEF SlSpec

-----------------------------------------------------------------------------
(* The workstation bundle *)

KnTurn ==
  [pc : KnSteps, mode : KnModes, turns : 0..KnTurns, aborted : BOOLEAN, before : Nat, ok : BOOLEAN,
   end : KnEnds, worked : BOOLEAN, told : BOOLEAN, hops : {0, 1}, stolen : BOOLEAN,
   inherited : BOOLEAN, touched : BOOLEAN]
KnEntry == [goal : KnGoals, pid : 1..KnBoots]

KnTypes ==
  /\ knGoal \in [KnSessions -> KnGoals] /\ knBoot \in 1..KnBoots /\ knRoute \in KnRoutes
  /\ knRun \in [KnSessions -> KnTurn] /\ knClaim \in [KnGoals -> {KnNone} \cup KnClaims]
  /\ knLease \in [KnGoals -> {KnNone} \cup KnLeases] /\ knQueue \in Seq(KnEntry)
  /\ knCycle \in [KnGoals -> Nat] /\ knFiles \in [KnGoals -> Nat]

\* Leases and a queue as the broker may store them: a goal is queued once, and not while it has
\* a lease, and there are no more leases than slots.
KnBroker(leases, queue) ==
  /\ leases \in [KnGoals -> {KnNone} \cup KnLeases] /\ queue \in Seq(KnEntry)
  /\ IsFiniteSet(KnHeld(leases)) /\ Cardinality(KnHeld(leases)) <= KnSlots
  /\ \A i \in 1..Len(queue) : leases[queue[i].goal] = KnNone
  /\ \A i, j \in 1..Len(queue) : queue[i].goal = queue[j].goal => i = j

\* Turn r, as one of session s: what it works under, and what its outcome rests on.
KnGoodTurn(s, r) ==
  /\ r.pc \in {"work", "report"} /\ ~r.inherited =>
       knLease[knGoal[s]] # KnNone /\ knLease[knGoal[s]].pid = knBoot
  /\ r.pc \in {"show", "route", "acquire", "wait", "work", "report"} /\ ~r.stolen =>
       knClaim[knGoal[s]] # KnNone /\ knClaim[knGoal[s]].by = <<s, r.mode>>
  /\ r.end \in {"completed", "reviewed"} => (r.worked /\ r.told) \/ r.hops > 0
  /\ r.pc \notin {"idle", "review", "reviewing"} => r.end = "none"
  /\ r.pc = "report" => r.worked
  /\ r.pc = "release" /\ r.ok => r.worked /\ r.told
  /\ r.pc = "after" => r.hops > 0
  /\ r.pc \in {"review", "reviewing"} => r.end = "completed"
  /\ r.pc = "reviewing" => r.before <= knFiles[knGoal[s]]
  /\ r.touched => r.pc = "reviewing" /\ r.before < knFiles[knGoal[s]]

\* The inductive invariant of the bundle.
KnInv == KnTypes /\ KnBroker(knLease, knQueue) /\ \A s \in KnSessions : KnGoodTurn(s, knRun[s])

\* The record of a turn that has not begun.
LEMMA KnIdleTurn ==
  ASSUME NEW n \in 0..KnTurns, NEW e \in KnEnds
  PROVE  [KnIdle EXCEPT !.turns = n, !.end = e] \in KnTurn
BY DEF KnIdle, KnTurn, KnSteps, KnModes, KnEnds

\* A turn that has not begun, in any life.
LEMMA KnIdleGood ==
  ASSUME NEW s, NEW n \in 0..KnTurns, NEW e \in {"none", "answered", "error", "cancelled", "lost"},
         NEW r, r = [KnIdle EXCEPT !.turns = n, !.end = e]
  PROVE  r \in KnTurn /\ KnGoodTurn(s, r)
<1>1. r \in KnTurn
  <2>1. e \in KnEnds
    BY DEF KnEnds
  <2> QED
    BY <2>1, KnIdleTurn, Zenon
<1>2. r.pc = "idle" /\ r.end = e /\ r.touched = FALSE
  BY DEF KnIdle
<1>3. KnGoodTurn(s, r)
  BY <1>2 DEF KnGoodTurn
<1> QED
  BY <1>1, <1>3

\* What the provider makes of an increment: an error, or a completed turn.
LEMMA KnSettledGood ==
  ASSUME NEW s, NEW r \in KnTurn, NEW ok \in BOOLEAN, ~r.touched,
         ok => (r.worked /\ r.told) \/ r.hops > 0
  PROVE  KnSettled(r, ok) \in KnTurn /\ KnGoodTurn(s, KnSettled(r, ok))
<1>1. CASE ok
  <2> DEFINE x == [r EXCEPT !.pc = IF r.mode = "command" THEN "review" ELSE "idle",
                            !.ok = TRUE, !.end = KnReceipt(r, ok)]
  <2>1. KnSettled(r, ok) = x
    BY <1>1 DEF KnSettled
  <2>2. KnReceipt(r, ok) = "completed"
    BY <1>1 DEF KnReceipt
  <2>3. x \in KnTurn /\ x.pc \in {"review", "idle"} /\ x.end = "completed" /\ ~x.touched
        /\ x.worked = r.worked /\ x.told = r.told /\ x.hops = r.hops
    BY <2>2 DEF KnTurn, KnSteps, KnEnds
  <2> HIDE DEF x
  <2>4. KnGoodTurn(s, x)
    BY <1>1, <2>3 DEF KnGoodTurn
  <2> QED
    BY <2>1, <2>3, <2>4
<1>2. CASE ~ok
  <2>1. KnReceipt(r, ok) \in {"cancelled", "error"}
    BY <1>2 DEF KnReceipt
  <2>2. KnSettled(r, ok) = [KnIdle EXCEPT !.turns = r.turns, !.end = KnReceipt(r, ok)]
    BY <1>2 DEF KnSettled
  <2>3. r.turns \in 0..KnTurns
    BY DEF KnTurn
  <2>4. PICK n \in 0..KnTurns, e \in {"cancelled", "error"} : n = r.turns /\ e = KnReceipt(r, ok)
    BY <2>1, <2>3
  <2>5. KnSettled(r, ok) = [KnIdle EXCEPT !.turns = n, !.end = e]
    BY <2>2, <2>4
  <2>6. e \in {"none", "answered", "error", "cancelled", "lost"}
    BY <2>4
  <2>7. PICK x : x = KnSettled(r, ok)
    OBVIOUS
  <2>8. x = [KnIdle EXCEPT !.turns = n, !.end = e]
    BY <2>5, <2>7
  <2>9. x \in KnTurn /\ KnGoodTurn(s, x)
    BY <2>6, <2>8, KnIdleGood, Zenon
  <2> QED
    BY <2>7, <2>9
<1> QED
  BY <1>1, <1>2

\* A step that moves one session and leaves the records alone.
LEMMA KnMoves ==
  ASSUME KnInv, NEW s \in KnSessions, NEW r \in KnTurn, KnSet(s, r),
         UNCHANGED <<knGoal, knBoot, knRoute, knClaim, knLease, knQueue, knFiles>>,
         knCycle' \in [KnGoals -> Nat], KnGoodTurn(s, r)
  PROVE  KnInv'
<1>1. knRun' = [knRun EXCEPT ![s] = r] /\ knRun \in [KnSessions -> KnTurn]
  BY DEF KnSet, KnInv, KnTypes
<1>2. KnTypes'
  BY <1>1 DEF KnInv, KnTypes
<1>3. KnBroker(knLease, knQueue)'
  BY DEF KnInv, KnBroker, KnHeld
<1>4. ASSUME NEW t \in KnSessions PROVE KnGoodTurn(t, knRun[t])'
  <2>1. KnGoodTurn(t, knRun'[t])
    BY <1>1 DEF KnInv
  <2> QED
    BY <2>1 DEF KnGoodTurn
<1> QED
  BY <1>2, <1>3, <1>4 DEF KnInv

\* The process starts with idle sessions, no claims and no leases.
LEMMA KnInitInv == KnInit => KnInv
<1> SUFFICES ASSUME KnInit PROVE KnInv
  OBVIOUS
<1>1. KnIdle \in KnTurn /\ KnIdle.pc = "idle" /\ KnIdle.end = "none" /\ ~KnIdle.touched
  BY KnAssumption DEF KnIdle, KnTurn, KnSteps, KnModes, KnEnds
<1>2. KnIdle \in KnTurn /\ \A s : KnGoodTurn(s, KnIdle)
  BY <1>1 DEF KnGoodTurn
<1>3. knRun \in [KnSessions -> KnTurn] /\ \A s \in KnSessions : knRun[s] = KnIdle
  BY <1>2 DEF KnInit
<1>4. <<>> \in Seq(KnEntry) /\ Len(<<>>) = 0
  OBVIOUS
<1>5. knQueue = <<>> /\ knLease = [g \in KnGoals |-> KnNone]
  BY DEF KnInit
<1>6. KnTypes
  <2>1. knGoal \in [KnSessions -> KnGoals] /\ knBoot \in 1..KnBoots /\ knRoute \in KnRoutes
    BY KnAssumption DEF KnInit
  <2>2. /\ knClaim \in [KnGoals -> {KnNone} \cup KnClaims]
        /\ knCycle \in [KnGoals -> Nat] /\ knFiles \in [KnGoals -> Nat]
    BY DEF KnInit
  <2> QED
    BY <1>3, <1>4, <1>5, <2>1, <2>2 DEF KnTypes
<1>7. KnHeld(knLease) = {}
  BY <1>5 DEF KnHeld
<1>8. KnBroker(knLease, knQueue)
  <2>1. IsFiniteSet(KnHeld(knLease)) /\ Cardinality(KnHeld(knLease)) <= KnSlots
    BY <1>7, FS_EmptySet, KnAssumption
  <2>2. knLease \in [KnGoals -> {KnNone} \cup KnLeases] /\ knQueue \in Seq(KnEntry) /\ Len(knQueue) = 0
    BY <1>4, <1>5
  <2>3. 1..Len(knQueue) = {}
    BY <2>2
  <2> QED
    BY <2>1, <2>2, <2>3 DEF KnBroker
<1> QED
  BY <1>2, <1>3, <1>6, <1>8 DEF KnInv

\* As many entries as there is room for have their leases.
LEMMA KnGrantMany ==
  ASSUME NEW G, IsFiniteSet(G), NEW n \in Nat, NEW f \in [1..n -> KnGoals],
         NEW H, H \subseteq G \cup {f[i] : i \in 1..n}
  PROVE  IsFiniteSet(H) /\ Cardinality(H) <= Cardinality(G) + n
<1> DEFINE T == {f[i] : i \in 1..n}
<1>1. f \in Surjection(1..n, T)
  BY DEF Surjection
<1>2. IsFiniteSet(1..n) /\ Cardinality(1..n) = n
  BY FS_Interval
<1> HIDE DEF T
<1>3. IsFiniteSet(T) /\ Cardinality(T) <= n
  BY <1>1, <1>2, FS_Surjection
<1>4. IsFiniteSet(G \cap T) /\ Cardinality(G \cap T) \in Nat
  BY FS_Intersection, FS_CardinalityType
<1>5. IsFiniteSet(G \cup T) /\ Cardinality(G \cup T) <= Cardinality(G) + n
  <2>1. Cardinality(G) \in Nat /\ Cardinality(T) \in Nat
    BY <1>3, FS_CardinalityType
  <2>2. /\ IsFiniteSet(G \cup T)
        /\ Cardinality(G \cup T) = Cardinality(G) + Cardinality(T) - Cardinality(G \cap T)
    BY <1>3, FS_Union
  <2> QED
    BY <1>3, <1>4, <2>1, <2>2
<1>6. H \in SUBSET (G \cup T)
  BY DEF T
<1>7. IsFiniteSet(H) /\ Cardinality(H) <= Cardinality(G \cup T)
  BY <1>5, <1>6, FS_Subset
<1> QED
  BY <1>3, <1>5, <1>7, FS_CardinalityType

\* A lease that is alive survives the pruning, and no other comes into being by it.
LEMMA KnPrunedFacts ==
  ASSUME KnInv
  PROVE  /\ KnPruned \in [KnGoals -> {KnNone} \cup KnLeases]
         /\ \A g \in KnGoals : /\ KnPruned[g] \in {KnNone, knLease[g]}
                               /\ KnActive(knLease[g]) => KnPruned[g] = knLease[g]
         /\ IsFiniteSet(KnHeld(KnPruned)) /\ Cardinality(KnHeld(KnPruned)) <= KnSlots
         /\ Cardinality(KnHeld(KnPruned)) \in Nat
<1>1. knLease \in [KnGoals -> {KnNone} \cup KnLeases]
  BY DEF KnInv, KnBroker
<1>2. /\ KnPruned \in [KnGoals -> {KnNone} \cup KnLeases]
      /\ \A g \in KnGoals : /\ KnPruned[g] \in {KnNone, knLease[g]}
                            /\ KnActive(knLease[g]) => KnPruned[g] = knLease[g]
  BY <1>1 DEF KnPruned
<1>3. KnHeld(KnPruned) \in SUBSET KnHeld(knLease)
  BY <1>2 DEF KnHeld
<1>4. IsFiniteSet(KnHeld(knLease)) /\ Cardinality(KnHeld(knLease)) <= KnSlots
  BY DEF KnInv, KnBroker
<1>5. /\ IsFiniteSet(KnHeld(KnPruned)) /\ Cardinality(KnHeld(KnPruned)) \in Nat
      /\ Cardinality(KnHeld(KnPruned)) <= Cardinality(KnHeld(knLease))
      /\ Cardinality(KnHeld(knLease)) \in Nat
  BY <1>3, <1>4, FS_Subset, FS_CardinalityType
<1> QED
  BY <1>2, <1>4, <1>5, KnAssumption

\* The promotion of queued requests keeps the broker's store in order, and every live lease.
LEMMA KnPromotedFacts ==
  ASSUME KnInv
  PROVE  /\ KnBroker(KnPromoted.leases, KnPromoted.queue)
         /\ \A g \in KnGoals : KnActive(knLease[g]) => KnPromoted.leases[g] = knLease[g]
<1> DEFINE room == KnSlots - Cardinality(KnHeld(KnPruned))
<1>n. PICK n : n = IF room < Len(knQueue) THEN room ELSE Len(knQueue)
  OBVIOUS
<1>l. PICK L : L = [g \in KnGoals |-> IF \E i \in 1..n : knQueue[i].goal = g
                                      THEN [pid |-> knQueue[KnPlace(g)].pid, lapsed |-> FALSE]
                                      ELSE KnPruned[g]]
  OBVIOUS
<1>q. PICK Q : Q = SubSeq(knQueue, n + 1, Len(knQueue))
  OBVIOUS
<1>0. KnPromoted.leases = L /\ KnPromoted.queue = Q
  BY <1>n, <1>l, <1>q DEF KnPromoted
<1>1. /\ knQueue \in Seq(KnEntry) /\ Len(knQueue) \in Nat /\ DOMAIN knQueue = 1..Len(knQueue)
      /\ \A i \in 1..Len(knQueue) : knQueue[i] \in KnEntry /\ knLease[knQueue[i].goal] = KnNone
      /\ \A i, j \in 1..Len(knQueue) : knQueue[i].goal = knQueue[j].goal => i = j
  BY DEF KnInv, KnBroker
<1>2. room \in Nat
  BY KnPrunedFacts, KnAssumption
<1> HIDE DEF room
<1>3. n \in Nat /\ n <= Len(knQueue) /\ n <= room
  <2>1. Len(knQueue) \in Nat
    BY <1>1
  <2> QED
    BY <1>n, <1>2, <2>1
<1>4. \A i \in 1..n : i \in 1..Len(knQueue)
  BY <1>1, <1>3
<1>5. ASSUME NEW g \in KnGoals, NEW i \in 1..n, knQueue[i].goal = g
      PROVE  [pid |-> knQueue[KnPlace(g)].pid, lapsed |-> FALSE] \in KnLeases
  <2>1. KnPlace(g) \in DOMAIN knQueue
    BY <1>1, <1>4, <1>5 DEF KnPlace
  <2>2. knQueue[KnPlace(g)].pid \in 1..KnBoots
    BY <1>1, <2>1 DEF KnEntry
  <2> QED
    BY <2>2 DEF KnLeases
<1>6. L \in [KnGoals -> {KnNone} \cup KnLeases]
  <2>1. ASSUME NEW g \in KnGoals
        PROVE  (IF \E i \in 1..n : knQueue[i].goal = g
                THEN [pid |-> knQueue[KnPlace(g)].pid, lapsed |-> FALSE]
                ELSE KnPruned[g]) \in {KnNone} \cup KnLeases
    <3>1. KnPruned[g] \in {KnNone} \cup KnLeases
      BY KnPrunedFacts
    <3> QED
      BY <1>5, <3>1
  <2> QED
    BY <1>l, <2>1
<1>7. \A g \in KnGoals : ~(\E i \in 1..n : knQueue[i].goal = g) => L[g] = KnPruned[g]
  BY <1>l
<1>8. IsFiniteSet(KnHeld(L)) /\ Cardinality(KnHeld(L)) <= KnSlots
  <2>1. PICK f : f = [i \in 1..n |-> knQueue[i].goal]
    OBVIOUS
  <2>2. f \in [1..n -> KnGoals] /\ \A i \in 1..n : f[i] = knQueue[i].goal
    BY <1>1, <1>4, <2>1 DEF KnEntry
  <2>3. KnHeld(L) \subseteq KnHeld(KnPruned) \cup {f[i] : i \in 1..n}
    BY <1>7, <2>2 DEF KnHeld
  <2>4. IsFiniteSet(KnHeld(L)) /\ Cardinality(KnHeld(L)) <= Cardinality(KnHeld(KnPruned)) + n
    BY <1>3, <2>2, <2>3, KnPrunedFacts, KnGrantMany
  <2>5. Cardinality(KnHeld(L)) \in Nat
    BY <2>4, FS_CardinalityType
  <2> QED
    BY <1>3, <2>4, <2>5, KnPrunedFacts, KnAssumption DEF room
<1>9. /\ Q \in Seq(KnEntry) /\ Len(Q) = Len(knQueue) - n
      /\ \A i \in 1..Len(Q) : n + i \in 1..Len(knQueue) /\ Q[i] = knQueue[n + i]
  <2>1. /\ SubSeq(knQueue, n + 1, Len(knQueue)) \in Seq(KnEntry)
        /\ Len(Q) = IF n + 1 <= Len(knQueue) THEN Len(knQueue) - (n + 1) + 1 ELSE 0
        /\ \A i \in 1..(Len(knQueue) - (n + 1) + 1) : Q[i] = knQueue[n + 1 + i - 1]
    <3>1. n + 1 \in Int /\ Len(knQueue) \in Int /\ \A i \in (n + 1)..Len(knQueue) : knQueue[i] \in KnEntry
      BY <1>1, <1>3
    <3> QED
      BY <1>q, <3>1, SubSeqProperties
  <2>2. Len(Q) = Len(knQueue) - n
    <3>1. Len(knQueue) \in Nat
      BY <1>1
    <3> QED
      BY <1>3, <2>1, <3>1
  <2>3. \A i \in 1..Len(Q) : n + i \in 1..Len(knQueue) /\ n + 1 + i - 1 = n + i
    BY <1>1, <1>3, <2>2
  <2>4. \A i \in 1..Len(Q) : i \in 1..(Len(knQueue) - (n + 1) + 1)
    BY <1>1, <1>3, <2>2
  <2> QED
    BY <1>q, <2>1, <2>2, <2>3, <2>4
<1>10. ASSUME NEW i \in 1..Len(Q) PROVE L[Q[i].goal] = KnNone
  <2>1. n + i \in 1..Len(knQueue) /\ Q[i] = knQueue[n + i] /\ \A j \in 1..n : j # n + i
    BY <1>1, <1>3, <1>9
  <2>2. Q[i].goal \in KnGoals /\ knLease[Q[i].goal] = KnNone
    BY <1>1, <2>1 DEF KnEntry
  <2>3. ~\E j \in 1..n : knQueue[j].goal = Q[i].goal
    BY <1>1, <1>4, <2>1
  <2>4. KnPruned[Q[i].goal] = KnNone
    BY <2>2, KnPrunedFacts
  <2> QED
    BY <1>7, <2>2, <2>3, <2>4
<1>11. ASSUME NEW i \in 1..Len(Q), NEW j \in 1..Len(Q), Q[i].goal = Q[j].goal PROVE i = j
  <2>1. /\ n + i \in 1..Len(knQueue) /\ n + j \in 1..Len(knQueue)
        /\ Q[i] = knQueue[n + i] /\ Q[j] = knQueue[n + j]
    BY <1>9
  <2>2. n + i = n + j
    BY <1>1, <1>11, <2>1
  <2> QED
    BY <1>3, <1>9, <2>2
<1>12. ASSUME NEW g \in KnGoals, KnActive(knLease[g]) PROVE L[g] = knLease[g]
  <2>1. knLease[g] # KnNone
    BY <1>12 DEF KnActive
  <2>2. ~\E j \in 1..n : knQueue[j].goal = g
    BY <1>1, <1>4, <2>1
  <2> QED
    BY <1>7, <1>12, <2>2, KnPrunedFacts
<1> QED
  BY <1>0, <1>6, <1>8, <1>9, <1>10, <1>11, <1>12 DEF KnBroker

\* A request, whatever becomes of it, keeps the store in order, and every live lease.
LEMMA KnRequestedFacts ==
  ASSUME KnInv, NEW s \in KnSessions
  PROVE  /\ KnBroker(KnRequested(s).leases, KnRequested(s).queue)
         /\ \A g \in KnGoals : KnActive(knLease[g]) => KnRequested(s).leases[g] = knLease[g]
<1>g. PICK g : g = knGoal[s]
  OBVIOUS
<1>p. PICK L, Q : L = KnPromoted.leases /\ Q = KnPromoted.queue
  OBVIOUS
<1>0. KnPromoted = [leases |-> L, queue |-> Q]
  BY <1>p DEF KnPromoted
<1>1. KnBroker(L, Q) /\ \A h \in KnGoals : KnActive(knLease[h]) => L[h] = knLease[h]
  BY <1>p, KnPromotedFacts
<1>2. g \in KnGoals /\ knBoot \in 1..KnBoots
  BY <1>g DEF KnInv, KnTypes
<1>3. L \in [KnGoals -> {KnNone} \cup KnLeases] /\ Q \in Seq(KnEntry) /\ DOMAIN Q = 1..Len(Q) /\ Len(Q) \in Nat
  BY <1>1 DEF KnBroker
<1>4. CASE L[g] # KnNone \/ \E i \in DOMAIN Q : Q[i].goal = g
  <2>1. KnRequested(s) = KnPromoted
    BY <1>g, <1>0, <1>4 DEF KnRequested
  <2> QED
    BY <1>p, <1>1, <2>1
<1>5. CASE L[g] = KnNone /\ ~(\E i \in DOMAIN Q : Q[i].goal = g) /\ KnRoom(L)
  <2>1. PICK x : x = [pid |-> knBoot, lapsed |-> FALSE]
    OBVIOUS
  <2>2. PICK M : M = [L EXCEPT ![g] = x]
    OBVIOUS
  <2>3. KnRequested(s).leases = M /\ KnRequested(s).queue = Q
    BY <1>g, <1>0, <1>5, <2>1, <2>2 DEF KnRequested
  <2>4. x \in KnLeases
    BY <1>2, <2>1 DEF KnLeases
  <2>5. M \in [KnGoals -> {KnNone} \cup KnLeases] /\ \A h \in KnGoals : h # g => M[h] = L[h]
    BY <1>2, <1>3, <2>2, <2>4
  <2>6. IsFiniteSet(KnHeld(M)) /\ Cardinality(KnHeld(M)) <= KnSlots
    <3>1. KnHeld(M) \in SUBSET (KnHeld(L) \cup {g})
      BY <2>5 DEF KnHeld
    <3>2. IsFiniteSet(KnHeld(L)) /\ Cardinality(KnHeld(L)) \in Nat /\ Cardinality(KnHeld(L)) < KnSlots
      BY <1>1, <1>5, FS_CardinalityType DEF KnBroker, KnRoom
    <3>3. IsFiniteSet(KnHeld(L) \cup {g}) /\ Cardinality(KnHeld(L) \cup {g}) <= Cardinality(KnHeld(L)) + 1
      <4>1. /\ IsFiniteSet(KnHeld(L) \cup {g})
            /\ Cardinality(KnHeld(L) \cup {g}) =
                 IF g \in KnHeld(L) THEN Cardinality(KnHeld(L)) ELSE Cardinality(KnHeld(L)) + 1
        BY <3>2, FS_AddElement
      <4> QED
        BY <3>2, <4>1
    <3>4. IsFiniteSet(KnHeld(M)) /\ Cardinality(KnHeld(M)) <= Cardinality(KnHeld(L) \cup {g})
      BY <3>1, <3>3, FS_Subset
    <3> QED
      BY <3>2, <3>3, <3>4, FS_CardinalityType, KnAssumption
  <2>7. \A i \in 1..Len(Q) : M[Q[i].goal] = KnNone
    <3>1. ASSUME NEW i \in 1..Len(Q)
          PROVE  Q[i].goal \in KnGoals /\ Q[i].goal # g /\ L[Q[i].goal] = KnNone
      <4>1. Q[i] \in KnEntry
        BY <1>3
      <4> QED
        BY <1>1, <1>3, <1>5, <4>1 DEF KnBroker, KnEntry
    <3> QED
      BY <2>5, <3>1
  <2>8. KnBroker(M, Q)
    BY <1>1, <2>5, <2>6, <2>7 DEF KnBroker
  <2>9. \A h \in KnGoals : KnActive(knLease[h]) => M[h] = knLease[h]
    <3>1. ~KnActive(knLease[g])
      BY <1>1, <1>2, <1>5 DEF KnActive
    <3> QED
      BY <1>1, <2>5, <3>1
  <2> QED
    BY <2>3, <2>8, <2>9
<1>6. CASE L[g] = KnNone /\ ~(\E i \in DOMAIN Q : Q[i].goal = g) /\ ~KnRoom(L)
  <2>1. PICK e : e = [goal |-> g, pid |-> knBoot]
    OBVIOUS
  <2>2. PICK R : R = Append(Q, e)
    OBVIOUS
  <2>3. KnRequested(s).leases = L /\ KnRequested(s).queue = R
    BY <1>g, <1>0, <1>6, <2>1, <2>2 DEF KnRequested
  <2>4. e \in KnEntry /\ e.goal = g
    BY <1>2, <2>1 DEF KnEntry
  <2>5. /\ R \in Seq(KnEntry) /\ Len(R) = Len(Q) + 1 /\ R[Len(Q) + 1] = e
        /\ \A i \in 1..Len(Q) : R[i] = Q[i]
    BY <1>3, <2>2, <2>4
  <2>6. \A i \in 1..Len(R) : i = Len(Q) + 1 \/ i \in 1..Len(Q)
    BY <1>3, <2>5
  <2>7. \A i \in 1..Len(R) : L[R[i].goal] = KnNone
    BY <1>1, <1>6, <2>4, <2>5, <2>6 DEF KnBroker
  <2>8. ASSUME NEW i \in 1..Len(R), NEW j \in 1..Len(R), R[i].goal = R[j].goal PROVE i = j
    BY <1>1, <1>3, <1>6, <2>4, <2>5, <2>6, <2>8 DEF KnBroker
  <2>9. KnBroker(L, R)
    BY <1>1, <2>5, <2>7, <2>8 DEF KnBroker
  <2> QED
    BY <1>1, <2>3, <2>9
<1> QED
  BY <1>4, <1>5, <1>6

\* A session has a turn, in order, in a project.
LEMMA KnHas ==
  ASSUME KnInv, NEW s \in KnSessions
  PROVE  /\ knRun[s] \in KnTurn /\ KnGoodTurn(s, knRun[s]) /\ knGoal[s] \in KnGoals
         /\ knCycle[knGoal[s]] \in Nat /\ knFiles[knGoal[s]] \in Nat /\ knCycle \in [KnGoals -> Nat]
         /\ knRun[s].pc # "reviewing" => ~knRun[s].touched
<1>1. /\ knRun[s] \in KnTurn /\ KnGoodTurn(s, knRun[s]) /\ knGoal[s] \in KnGoals
      /\ knCycle[knGoal[s]] \in Nat /\ knFiles[knGoal[s]] \in Nat /\ knCycle \in [KnGoals -> Nat]
  BY DEF KnInv, KnTypes
<1> QED
  BY <1>1 DEF KnGoodTurn

\* A turn that has just begun, or is over without having completed, is in order.
LEMMA KnQuiet ==
  ASSUME NEW s, NEW r, ~r.touched, r.pc \in {"idle", "admit"}, r.end \notin {"completed", "reviewed"},
         r.pc = "admit" => r.end = "none"
  PROVE  KnGoodTurn(s, r)
BY DEF KnGoodTurn

\* A turn begins: a message, a greeting or a command.
LEMMA KnBeginStep ==
  ASSUME KnInv, NEW s \in KnSessions, KnMessage(s) \/ KnGreeting(s) \/ KnCommand(s)
  PROVE  KnInv'
<1>0. /\ knRun[s].turns < KnTurns /\ knRun[s] \in KnTurn /\ knCycle \in [KnGoals -> Nat]
      /\ UNCHANGED <<knGoal, knBoot, knRoute, knClaim, knLease, knQueue, knCycle, knFiles>>
  BY KnHas DEF KnMessage, KnGreeting, KnCommand
<1>1. PICK n : n = knRun[s].turns + 1
  OBVIOUS
<1>2. n \in 0..KnTurns
  BY <1>0, <1>1, KnAssumption DEF KnTurn
<1>3. KnIdle \in KnTurn /\ KnIdle.pc = "idle" /\ KnIdle.end = "none" /\ ~KnIdle.touched
  BY KnAssumption DEF KnIdle, KnTurn, KnModes, KnSteps, KnEnds
<1>4. ASSUME NEW t \in KnTurn, t.pc = "idle", t.end = "none", ~t.touched,
             KnSet(s, IF KnKnown THEN [t EXCEPT !.pc = "admit"] ELSE [t EXCEPT !.end = "error"])
      PROVE  KnInv'
  <2>2. PICK x : x = IF KnKnown THEN [t EXCEPT !.pc = "admit"] ELSE [t EXCEPT !.end = "error"]
    OBVIOUS
  <2>3. \/ x = [t EXCEPT !.pc = "admit"]
        \/ x = [t EXCEPT !.end = "error"]
    BY <2>2
  <2>4. /\ x \in KnTurn /\ ~x.touched
        /\ (x.pc = "idle" /\ x.end = "error") \/ (x.pc = "admit" /\ x.end = "none")
    BY <1>4, <2>3 DEF KnTurn, KnSteps, KnEnds
  <2>5. KnSet(s, x)
    BY <1>4, <2>2
  <2> QED
    BY <1>0, <2>4, <2>5, KnQuiet, KnMoves
<1>5. CASE KnMessage(s)
  <2>1. PICK t : t = [KnIdle EXCEPT !.turns = n]
    OBVIOUS
  <2>2. t \in KnTurn /\ t.pc = "idle" /\ t.end = "none" /\ ~t.touched
    BY <1>2, <1>3, <2>1 DEF KnTurn
  <2>3. KnSet(s, IF KnKnown THEN [t EXCEPT !.pc = "admit"] ELSE [t EXCEPT !.end = "error"])
    BY <1>1, <1>5, <2>1, Zenon DEF KnMessage
  <2> QED
    BY <1>4, <2>2, <2>3
<1>6. CASE KnGreeting(s)
  <2>1. PICK x : x = [KnIdle EXCEPT !.turns = n, !.end = "answered"]
    OBVIOUS
  <2>2. KnSet(s, x)
    BY <1>1, <1>6, <2>1, Zenon DEF KnGreeting
  <2>3. PICK e : e = "answered"
    OBVIOUS
  <2>4. x = [KnIdle EXCEPT !.turns = n, !.end = e]
    BY <2>1, <2>3
  <2>5. e \in {"none", "answered", "error", "cancelled", "lost"}
    BY <2>3
  <2>6. x \in KnTurn /\ KnGoodTurn(s, x)
    BY <1>2, <2>4, <2>5, KnIdleGood, Zenon
  <2> QED
    BY <1>0, <2>2, <2>6, KnMoves
<1>7. CASE KnCommand(s)
  <2>1. PICK t : t = [KnIdle EXCEPT !.turns = n, !.mode = "command"]
    OBVIOUS
  <2>2. KnSet(s, IF KnKnown THEN [t EXCEPT !.pc = "admit"] ELSE [t EXCEPT !.end = "error"])
    BY <1>1, <1>7, <2>1, Zenon DEF KnCommand
  <2>3. t \in KnTurn /\ t.pc = "idle" /\ t.end = "none" /\ ~t.touched
    BY <1>2, <1>3, <2>1 DEF KnTurn, KnModes
  <2> QED
    BY <1>4, <2>2, <2>3
<1> QED
  BY <1>5, <1>6, <1>7

\* The user's abort only marks the turn.
LEMMA KnAbortStep ==
  ASSUME KnInv, NEW s \in KnSessions, KnAbort(s)
  PROVE  KnInv'
<1>0. /\ knRun[s] \in KnTurn /\ KnGoodTurn(s, knRun[s]) /\ knGoal[s] \in KnGoals
      /\ knCycle[knGoal[s]] \in Nat /\ knCycle \in [KnGoals -> Nat]
      /\ knRun[s].pc # "reviewing" => ~knRun[s].touched
  BY KnHas
<1>1. /\ knRun[s].pc # "idle"
      /\ UNCHANGED <<knGoal, knBoot, knRoute, knClaim, knLease, knQueue, knCycle, knFiles>>
  BY DEF KnAbort, KnGoesOn, KnGoes, KnCompleted
<1>2. PICK r : r = [knRun[s] EXCEPT !.aborted = TRUE]
  OBVIOUS
<1>3. KnSet(s, r)
  BY <1>2 DEF KnAbort, KnGoes
<1>4. r \in KnTurn
  BY <1>0, <1>1, <1>2 DEF KnTurn, KnSteps
<1>5. KnGoodTurn(s, r)
  BY <1>0, <1>1, <1>2 DEF KnGoodTurn, KnTurn
<1> QED
  BY <1>0, <1>1, <1>3, <1>4, <1>5, KnMoves

\* goal show notes the cycle, and the ways part.
LEMMA KnShowStep ==
  ASSUME KnInv, NEW s \in KnSessions, KnShow(s)
  PROVE  KnInv'
<1>0. /\ knRun[s] \in KnTurn /\ KnGoodTurn(s, knRun[s]) /\ knGoal[s] \in KnGoals
      /\ knCycle[knGoal[s]] \in Nat /\ knCycle \in [KnGoals -> Nat]
      /\ knRun[s].pc # "reviewing" => ~knRun[s].touched
  BY KnHas
<1>1. /\ knRun[s].pc = "show"
      /\ UNCHANGED <<knGoal, knBoot, knRoute, knClaim, knLease, knQueue, knCycle, knFiles>>
  BY DEF KnShow, KnGoesOn, KnGoes, KnCompleted
<1>2. PICK r : r = [knRun[s] EXCEPT !.pc = IF knRoute = "native" THEN "route" ELSE "run",
                                !.before = knCycle[knGoal[s]]]
  OBVIOUS
<1>3. KnSet(s, r)
  BY <1>2 DEF KnShow, KnGoes
<1>4. r \in KnTurn
  BY <1>0, <1>1, <1>2 DEF KnTurn, KnSteps
<1>5. KnGoodTurn(s, r)
  BY <1>0, <1>1, <1>2 DEF KnGoodTurn, KnTurn
<1> QED
  BY <1>0, <1>1, <1>3, <1>4, <1>5, KnMoves

\* A routed increment asks for a lease.
LEMMA KnRoutedStep ==
  ASSUME KnInv, NEW s \in KnSessions, KnRouted(s)
  PROVE  KnInv'
<1>0. /\ knRun[s] \in KnTurn /\ KnGoodTurn(s, knRun[s]) /\ knGoal[s] \in KnGoals
      /\ knCycle[knGoal[s]] \in Nat /\ knCycle \in [KnGoals -> Nat]
      /\ knRun[s].pc # "reviewing" => ~knRun[s].touched
  BY KnHas
<1>1. /\ knRun[s].pc = "route"
      /\ UNCHANGED <<knGoal, knBoot, knRoute, knClaim, knLease, knQueue, knCycle, knFiles>>
  BY DEF KnRouted, KnGoesOn, KnGoes, KnCompleted
<1>2. PICK r : r = [knRun[s] EXCEPT !.pc = "acquire"]
  OBVIOUS
<1>3. KnSet(s, r)
  BY <1>2 DEF KnRouted, KnGoes
<1>4. r \in KnTurn
  BY <1>0, <1>1, <1>2 DEF KnTurn, KnSteps
<1>5. KnGoodTurn(s, r)
  BY <1>0, <1>1, <1>2 DEF KnGoodTurn, KnTurn
<1> QED
  BY <1>0, <1>1, <1>3, <1>4, <1>5, KnMoves

\* A waiting increment asks again.
LEMMA KnPollStep ==
  ASSUME KnInv, NEW s \in KnSessions, KnPoll(s)
  PROVE  KnInv'
<1>0. /\ knRun[s] \in KnTurn /\ KnGoodTurn(s, knRun[s]) /\ knGoal[s] \in KnGoals
      /\ knCycle[knGoal[s]] \in Nat /\ knCycle \in [KnGoals -> Nat]
      /\ knRun[s].pc # "reviewing" => ~knRun[s].touched
  BY KnHas
<1>1. /\ knRun[s].pc = "wait"
      /\ UNCHANGED <<knGoal, knBoot, knRoute, knClaim, knLease, knQueue, knCycle, knFiles>>
  BY DEF KnPoll, KnGoesOn, KnGoes, KnCompleted
<1>2. PICK r : r = [knRun[s] EXCEPT !.pc = "acquire"]
  OBVIOUS
<1>3. KnSet(s, r)
  BY <1>2 DEF KnPoll, KnGoes
<1>4. r \in KnTurn
  BY <1>0, <1>1, <1>2 DEF KnTurn, KnSteps
<1>5. KnGoodTurn(s, r)
  BY <1>0, <1>1, <1>2 DEF KnGoodTurn, KnTurn
<1> QED
  BY <1>0, <1>1, <1>3, <1>4, <1>5, KnMoves

\* Only a worker that completed is reported.
LEMMA KnWorkDoneStep ==
  ASSUME KnInv, NEW s \in KnSessions, KnWorkDone(s)
  PROVE  KnInv'
<1>0. /\ knRun[s] \in KnTurn /\ KnGoodTurn(s, knRun[s]) /\ knGoal[s] \in KnGoals
      /\ knCycle[knGoal[s]] \in Nat /\ knCycle \in [KnGoals -> Nat]
      /\ knRun[s].pc # "reviewing" => ~knRun[s].touched
  BY KnHas
<1>1. /\ knRun[s].pc = "work" /\ knRun[s].worked
      /\ UNCHANGED <<knGoal, knBoot, knRoute, knClaim, knLease, knQueue, knCycle, knFiles>>
  BY DEF KnWorkDone, KnGoesOn, KnGoes, KnCompleted
<1>2. PICK r : r = [knRun[s] EXCEPT !.pc = "report"]
  OBVIOUS
<1>3. KnSet(s, r)
  BY <1>2 DEF KnWorkDone, KnGoes
<1>4. r \in KnTurn
  BY <1>0, <1>1, <1>2 DEF KnTurn, KnSteps
<1>5. KnGoodTurn(s, r)
  BY <1>0, <1>1, <1>2 DEF KnGoodTurn, KnTurn
<1> QED
  BY <1>0, <1>1, <1>3, <1>4, <1>5, KnMoves

\* A worker that failed leaves nothing to report.
LEMMA KnWorkFailsStep ==
  ASSUME KnInv, NEW s \in KnSessions, KnWorkFails(s)
  PROVE  KnInv'
<1>0. /\ knRun[s] \in KnTurn /\ KnGoodTurn(s, knRun[s]) /\ knGoal[s] \in KnGoals
      /\ knCycle[knGoal[s]] \in Nat /\ knCycle \in [KnGoals -> Nat]
      /\ knRun[s].pc # "reviewing" => ~knRun[s].touched
  BY KnHas
<1>1. /\ knRun[s].pc = "work"
      /\ UNCHANGED <<knGoal, knBoot, knRoute, knClaim, knLease, knQueue, knCycle, knFiles>>
  BY DEF KnWorkFails, KnGoesOn, KnGoes, KnCompleted
<1>2. PICK r : r = [knRun[s] EXCEPT !.pc = "release", !.ok = FALSE]
  OBVIOUS
<1>3. KnSet(s, r)
  BY <1>2 DEF KnWorkFails, KnGoes
<1>4. r \in KnTurn
  BY <1>0, <1>1, <1>2 DEF KnTurn, KnSteps
<1>5. KnGoodTurn(s, r)
  BY <1>0, <1>1, <1>2 DEF KnGoodTurn, KnTurn
<1> QED
  BY <1>0, <1>1, <1>3, <1>4, <1>5, KnMoves

\* A report that is stored makes the increment a success.
LEMMA KnReportStep ==
  ASSUME KnInv, NEW s \in KnSessions, KnReport(s)
  PROVE  KnInv'
<1>0. /\ knRun[s] \in KnTurn /\ KnGoodTurn(s, knRun[s]) /\ knGoal[s] \in KnGoals
      /\ knCycle[knGoal[s]] \in Nat /\ knCycle \in [KnGoals -> Nat]
      /\ knRun[s].pc # "reviewing" => ~knRun[s].touched
  BY KnHas
<1>1. /\ knRun[s].pc = "report"
      /\ UNCHANGED <<knGoal, knBoot, knRoute, knClaim, knLease, knQueue, knCycle, knFiles>>
  BY DEF KnReport, KnGoesOn, KnGoes, KnCompleted
<1>2. PICK r : r = [knRun[s] EXCEPT !.pc = "release", !.ok = TRUE, !.told = TRUE]
  OBVIOUS
<1>3. KnSet(s, r)
  BY <1>2 DEF KnReport, KnGoes
<1>4. r \in KnTurn
  BY <1>0, <1>1, <1>2 DEF KnTurn, KnSteps
<1>5. KnGoodTurn(s, r)
  BY <1>0, <1>1, <1>2 DEF KnGoodTurn, KnTurn
<1> QED
  BY <1>0, <1>1, <1>3, <1>4, <1>5, KnMoves

\* A report that was cut short makes it a failure, stored or not.
LEMMA KnReportFailsStep ==
  ASSUME KnInv, NEW s \in KnSessions, KnReportFails(s)
  PROVE  KnInv'
<1>0. /\ knRun[s] \in KnTurn /\ KnGoodTurn(s, knRun[s]) /\ knCycle \in [KnGoals -> Nat]
      /\ knRun[s].pc # "reviewing" => ~knRun[s].touched
  BY KnHas
<1>1. /\ knRun[s].pc = "report"
      /\ UNCHANGED <<knGoal, knBoot, knRoute, knClaim, knLease, knQueue, knCycle, knFiles>>
  BY DEF KnReportFails
<1>2. PICK b \in BOOLEAN : KnSet(s, [knRun[s] EXCEPT !.pc = "release", !.ok = FALSE, !.told = b])
  BY Zenon DEF KnReportFails
<1>3. PICK r : r = [knRun[s] EXCEPT !.pc = "release", !.ok = FALSE, !.told = b]
  OBVIOUS
<1>4. r \in KnTurn
  BY <1>0, <1>3 DEF KnTurn, KnSteps
<1>5. KnGoodTurn(s, r)
  BY <1>0, <1>1, <1>3 DEF KnGoodTurn, KnTurn
<1>6. KnSet(s, r)
  BY <1>2, <1>3
<1> QED
  BY <1>0, <1>1, <1>4, <1>5, <1>6, KnMoves

\* A turn that ends with an outcome it has earned.
LEMMA KnSettlesStep ==
  ASSUME KnInv, NEW s \in KnSessions, NEW r \in KnTurn, NEW ok \in BOOLEAN, ~r.touched,
         ok => (r.worked /\ r.told) \/ r.hops > 0, KnSet(s, KnSettled(r, ok)),
         UNCHANGED <<knGoal, knBoot, knRoute, knClaim, knLease, knQueue, knFiles>>,
         knCycle' \in [KnGoals -> Nat]
  PROVE  KnInv'
<1>1. PICK x : x = KnSettled(r, ok)
  OBVIOUS
<1>2. x \in KnTurn /\ KnGoodTurn(s, x)
  BY <1>1, KnSettledGood
<1> QED
  BY <1>1, <1>2, KnMoves

\* A failed command of the CLI ends the turn.
LEMMA KnFailsStep ==
  ASSUME KnInv, NEW s \in KnSessions, KnFails(s)
  PROVE  KnInv'
<1>1. knRun[s] \in KnTurn /\ ~knRun[s].touched /\ knCycle \in [KnGoals -> Nat]
  BY KnHas DEF KnFails
<1>2. /\ KnSet(s, KnSettled(knRun[s], FALSE))
      /\ UNCHANGED <<knGoal, knBoot, knRoute, knClaim, knLease, knQueue, knCycle, knFiles>>
  BY DEF KnFails
<1> QED
  BY <1>1, <1>2, KnSettlesStep

\* The release of the lease is refused and changes nothing of the outcome.
LEMMA KnReleaseStep ==
  ASSUME KnInv, NEW s \in KnSessions, KnRelease(s)
  PROVE  KnInv'
<1>1. knRun[s] \in KnTurn /\ ~knRun[s].touched /\ knCycle \in [KnGoals -> Nat] /\ KnGoodTurn(s, knRun[s])
  BY KnHas DEF KnRelease
<1>2. /\ KnSet(s, KnSettled(knRun[s], knRun[s].ok)) /\ knRun[s].pc = "release"
      /\ UNCHANGED <<knGoal, knBoot, knRoute, knClaim, knLease, knQueue, knCycle, knFiles>>
  BY DEF KnRelease
<1>3. knRun[s].ok \in BOOLEAN
  BY <1>1 DEF KnTurn
<1>4. knRun[s].ok => knRun[s].worked /\ knRun[s].told
  BY <1>1, <1>2 DEF KnGoodTurn
<1> QED
  BY <1>1, <1>2, <1>3, <1>4, KnSettlesStep

\* A foreground run dispatches a cycle or ends the turn.
LEMMA KnForegroundStep ==
  ASSUME KnInv, NEW s \in KnSessions, KnForeground(s)
  PROVE  KnInv'
<1>0. /\ knRun[s] \in KnTurn /\ KnGoodTurn(s, knRun[s]) /\ knGoal[s] \in KnGoals
      /\ knCycle \in [KnGoals -> Nat] /\ ~knRun[s].touched
  BY KnHas DEF KnForeground, KnGoesOn
<1>1. /\ knRun[s].pc = "run"
      /\ UNCHANGED <<knGoal, knBoot, knRoute, knClaim, knLease, knQueue, knFiles>>
  BY DEF KnForeground, KnGoesOn
<1>2. PICK hops \in {0, 1} :
         /\ knCycle' = [knCycle EXCEPT ![knGoal[s]] = @ + hops]
         /\ KnSet(s, IF hops = 0 THEN KnSettled(knRun[s], FALSE)
                     ELSE [knRun[s] EXCEPT !.pc = "after", !.hops = hops])
  BY DEF KnForeground
<1>3. knCycle' \in [KnGoals -> Nat]
  BY <1>0, <1>2
<1>4. CASE hops = 0
  BY <1>0, <1>1, <1>2, <1>3, <1>4, KnSettlesStep
<1>5. CASE hops = 1
  <2>1. PICK r : r = [knRun[s] EXCEPT !.pc = "after", !.hops = 1]
    OBVIOUS
  <2>2. KnSet(s, r)
    BY <1>2, <1>5, <2>1
  <2>3. r \in KnTurn
    BY <1>0, <2>1 DEF KnTurn, KnSteps
  <2>4. KnGoodTurn(s, r)
    BY <1>0, <1>1, <2>1 DEF KnGoodTurn, KnTurn
  <2> QED
    BY <1>1, <1>3, <2>2, <2>3, <2>4, KnMoves
<1> QED
  BY <1>4, <1>5

\* After it the turn is settled.
LEMMA KnAfterStep ==
  ASSUME KnInv, NEW s \in KnSessions, KnAfter(s)
  PROVE  KnInv'
<1>1. knRun[s] \in KnTurn /\ ~knRun[s].touched /\ knCycle \in [KnGoals -> Nat] /\ KnGoodTurn(s, knRun[s])
  BY KnHas DEF KnAfter, KnGoesOn
<1>2. /\ KnSet(s, KnSettled(knRun[s], knCycle[knGoal[s]] > knRun[s].before)) /\ knRun[s].pc = "after"
      /\ UNCHANGED <<knGoal, knBoot, knRoute, knClaim, knLease, knQueue, knCycle, knFiles>>
  BY DEF KnAfter, KnGoesOn
<1>3. knRun[s].hops > 0
  BY <1>1, <1>2 DEF KnGoodTurn
<1>4. CASE knCycle[knGoal[s]] > knRun[s].before
  <2>1. KnSettled(knRun[s], knCycle[knGoal[s]] > knRun[s].before) = KnSettled(knRun[s], TRUE)
    BY <1>4 DEF KnSettled, KnReceipt
  <2> QED
    BY <1>1, <1>2, <1>3, <2>1, KnSettlesStep
<1>5. CASE ~(knCycle[knGoal[s]] > knRun[s].before)
  <2>1. KnSettled(knRun[s], knCycle[knGoal[s]] > knRun[s].before) = KnSettled(knRun[s], FALSE)
    BY <1>5 DEF KnSettled, KnReceipt
  <2> QED
    BY <1>1, <1>2, <2>1, KnSettlesStep
<1> QED
  BY <1>4, <1>5

\* A review begins with the hash of the workspace as it is, or ends the turn.
LEMMA KnReviewStep ==
  ASSUME KnInv, NEW s \in KnSessions, KnReview(s)
  PROVE  KnInv'
<1>0. /\ knRun[s] \in KnTurn /\ KnGoodTurn(s, knRun[s]) /\ knFiles[knGoal[s]] \in Nat
      /\ knCycle \in [KnGoals -> Nat] /\ ~knRun[s].touched
  BY KnHas DEF KnReview
<1>1. /\ knRun[s].pc = "review"
      /\ UNCHANGED <<knGoal, knBoot, knRoute, knClaim, knLease, knQueue, knCycle, knFiles>>
  BY DEF KnReview
<1>2. PICK r : r = [knRun[s] EXCEPT !.pc = "reviewing", !.before = knFiles[knGoal[s]]]
  OBVIOUS
<1>3. r \in KnTurn
  BY <1>0, <1>2 DEF KnTurn, KnSteps
<1>4. KnGoodTurn(s, r)
  BY <1>0, <1>1, <1>2 DEF KnGoodTurn, KnTurn
<1>5. KnSet(s, r) \/ KnSet(s, KnSettled(knRun[s], FALSE))
  BY <1>2 DEF KnReview, KnHash
<1>6. CASE KnSet(s, r)
  BY <1>0, <1>1, <1>3, <1>4, <1>6, KnMoves
<1>7. CASE KnSet(s, KnSettled(knRun[s], FALSE))
  BY <1>0, <1>1, <1>7, KnSettlesStep
<1> QED
  BY <1>5, <1>6, <1>7

\* A review is accepted of the workspace it began with.
LEMMA KnReviewedStep ==
  ASSUME KnInv, NEW s \in KnSessions, KnReviewed(s)
  PROVE  KnInv'
<1>0. /\ knRun[s] \in KnTurn /\ KnGoodTurn(s, knRun[s]) /\ knFiles[knGoal[s]] \in Nat
      /\ knCycle \in [KnGoals -> Nat]
  BY KnHas DEF KnReview
<1>1. /\ knRun[s].pc = "reviewing"
      /\ UNCHANGED <<knGoal, knBoot, knRoute, knClaim, knLease, knQueue, knCycle, knFiles>>
  BY DEF KnReviewed
<1>2. PICK r : r = [knRun[s] EXCEPT !.pc = "idle", !.end = "reviewed"]
  OBVIOUS
<1>3. r \in KnTurn
  BY <1>0, <1>2 DEF KnTurn, KnSteps, KnEnds
<1>4. CASE KnUnchanged(s) /\ KnSet(s, r)
  <2>1. ~knRun[s].touched
    BY <1>0, <1>1, <1>4 DEF KnGoodTurn, KnUnchanged, KnHash, KnTurn
  <2>2. KnGoodTurn(s, r)
    BY <1>0, <1>1, <1>2, <2>1 DEF KnGoodTurn, KnTurn
  <2> QED
    BY <1>0, <1>1, <1>3, <1>4, <2>2, KnMoves
<1>5. CASE KnSet(s, KnSettled(knRun[s], FALSE))
  <2>1. PICK x : x = KnSettled(knRun[s], FALSE)
    OBVIOUS
  <2>2. x \in KnTurn /\ KnGoodTurn(s, x)
    <3>1. KnReceipt(knRun[s], FALSE) \in {"cancelled", "error"}
      BY DEF KnReceipt
    <3>2. knRun[s].turns \in 0..KnTurns
      BY <1>0 DEF KnTurn
    <3>3. PICK n \in 0..KnTurns, e \in {"cancelled", "error"} :
            n = knRun[s].turns /\ e = KnReceipt(knRun[s], FALSE)
      BY <3>1, <3>2
    <3>4. x = [KnIdle EXCEPT !.turns = n, !.end = e]
      BY <2>1, <3>3 DEF KnSettled
    <3>5. e \in {"none", "answered", "error", "cancelled", "lost"}
      BY <3>3
    <3> QED
      BY <3>4, <3>5, KnIdleGood, Zenon
  <2> QED
    BY <1>0, <1>1, <1>5, <2>1, <2>2, KnMoves
<1> QED
  BY <1>2, <1>4, <1>5 DEF KnReviewed

\* Who is admitted owns the claim, and whoever had it before knows that it was lost.
LEMMA KnAdmitStep ==
  ASSUME KnInv, NEW s \in KnSessions, KnAdmit(s)
  PROVE  KnInv'
<1>g. PICK g : g = knGoal[s]
  OBVIOUS
<1>0. /\ knRun[s] \in KnTurn /\ KnGoodTurn(s, knRun[s]) /\ g \in KnGoals /\ knCycle \in [KnGoals -> Nat]
      /\ ~knRun[s].touched
  BY <1>g, KnHas DEF KnAdmit, KnGoesOn
<1>1. /\ knRun[s].pc = "admit" /\ KnTypes
      /\ UNCHANGED <<knGoal, knBoot, knRoute, knLease, knQueue, knCycle, knFiles>>
  BY DEF KnAdmit, KnGoesOn, KnInv
<1>2. CASE ~KnOwns(s)
  <2>1. KnSet(s, KnSettled(knRun[s], FALSE)) /\ UNCHANGED knClaim
    BY <1>2 DEF KnAdmit
  <2> QED
    BY <1>0, <1>1, <2>1, KnSettlesStep
<1>3. CASE KnOwns(s)
  <2>1. PICK r : r = [knRun[s] EXCEPT !.pc = "show"]
    OBVIOUS
  <2>2. PICK x : x = [by |-> <<s, knRun[s].mode>>, fresh |-> TRUE]
    OBVIOUS
  <2>3. knClaim' = [knClaim EXCEPT ![g] = x]
    BY <1>g, <1>3, <2>2 DEF KnAdmit, KnWho
  <2>4. x \in KnClaims /\ x # KnNone /\ x.by = <<s, knRun[s].mode>>
    <3>1. x \in KnClaims
      BY <1>0, <2>2 DEF KnClaims, KnTurn
    <3> QED
      BY <2>2, <3>1, KnAssumption
  <2>5. r \in KnTurn /\ r.pc = "show" /\ r.mode = knRun[s].mode
    BY <1>0, <2>1 DEF KnTurn, KnSteps
  <2>6. knRun' = [t \in KnSessions |->
           IF t = s THEN r
           ELSE IF knClaim[g] # KnNone /\ ~knClaim[g].fresh /\ t # s /\ knClaim[g].by = KnWho(t)
                THEN [knRun[t] EXCEPT !.stolen = TRUE] ELSE knRun[t]]
    <3> DEFINE robbed(t) == knClaim[g] # KnNone /\ ~knClaim[g].fresh /\ t # s /\ knClaim[g].by = KnWho(t)
    <3>1. knRun' = [t \in KnSessions |->
             CASE t = s -> [knRun[t] EXCEPT !.pc = "show"]
               [] robbed(t) -> [knRun[t] EXCEPT !.stolen = TRUE]
               [] OTHER -> knRun[t]]
      BY <1>g, <1>3 DEF KnAdmit
    <3>2. ASSUME NEW t \in KnSessions
          PROVE  (CASE t = s -> [knRun[t] EXCEPT !.pc = "show"]
                    [] robbed(t) -> [knRun[t] EXCEPT !.stolen = TRUE]
                    [] OTHER -> knRun[t]) =
                 (IF t = s THEN r ELSE IF robbed(t) THEN [knRun[t] EXCEPT !.stolen = TRUE] ELSE knRun[t])
      <4>1. robbed(t) => t # s
        OBVIOUS
      <4> HIDE DEF robbed
      <4> QED
        BY <2>1, <4>1
    <3> QED
      BY <3>1, <3>2
  <2>7. knRun'[s] = r /\ \A t \in KnSessions : t # s =>
           \/ knRun'[t] = knRun[t]
              /\ ~(knClaim[g] # KnNone /\ ~knClaim[g].fresh /\ knClaim[g].by = KnWho(t))
           \/ knRun'[t] = [knRun[t] EXCEPT !.stolen = TRUE]
    BY <2>6
  <2>8. knRun' \in [KnSessions -> KnTurn]
    <3>1. ASSUME NEW t \in KnSessions PROVE knRun'[t] \in KnTurn
      <4>1. knRun[t] \in KnTurn
        BY <1>1 DEF KnTypes
      <4>2. [knRun[t] EXCEPT !.stolen = TRUE] \in KnTurn
        BY <4>1 DEF KnTurn
      <4> QED
        BY <2>5, <2>7, <4>1, <4>2
    <3> QED
      BY <2>6, <3>1
  <2>9. KnTypes'
    BY <1>0, <1>1, <2>3, <2>4, <2>8 DEF KnTypes
  <2>10. KnBroker(knLease, knQueue)'
    BY <1>1 DEF KnInv, KnBroker, KnHeld
  <2>11. KnGoodTurn(s, knRun[s])'
    <3>1. r.touched = knRun[s].touched /\ r.end = knRun[s].end
      BY <1>0, <2>1 DEF KnTurn
    <3>2. knClaim'[g] = x /\ knRun[s].end = "none"
      BY <1>0, <1>1, <2>3 DEF KnTypes, KnGoodTurn
    <3> QED
      BY <1>g, <1>0, <1>1, <2>4, <2>5, <2>7, <3>1, <3>2 DEF KnGoodTurn
  <2>12. ASSUME NEW t \in KnSessions, t # s PROVE KnGoodTurn(t, knRun[t])'
    <3>0. KnGoodTurn(t, knRun[t]) /\ knRun[t] \in KnTurn
      BY KnHas
    <3>1. CASE knRun'[t] = [knRun[t] EXCEPT !.stolen = TRUE]
      BY <1>1, <3>0, <3>1 DEF KnGoodTurn, KnTurn
    <3>2. CASE /\ knRun'[t] = knRun[t]
               /\ ~(knClaim[g] # KnNone /\ ~knClaim[g].fresh /\ knClaim[g].by = KnWho(t))
      <4>1. CASE knGoal[t] # g
        <5>1. knClaim'[knGoal[t]] = knClaim[knGoal[t]]
          BY <1>0, <1>1, <2>3, <4>1 DEF KnTypes
        <5> QED
          BY <1>1, <3>0, <3>2, <5>1 DEF KnGoodTurn
      <4>2. CASE knGoal[t] = g
        <5>1. ~(knClaim[g] # KnNone /\ knClaim[g].by = <<t, knRun[t].mode>>)
          <6>1. <<t, knRun[t].mode>> # <<s, knRun[s].mode>>
            BY <2>12
          <6> QED
            BY <1>g, <1>3, <3>2, <6>1 DEF KnOwns, KnWho
        <5> QED
          BY <1>1, <3>0, <3>2, <4>2, <5>1 DEF KnGoodTurn
      <4> QED
        BY <4>1, <4>2
    <3> QED
      BY <2>7, <2>12, <3>1, <3>2
  <2> QED
    BY <2>9, <2>10, <2>11, <2>12 DEF KnInv
<1> QED
  BY <1>2, <1>3

\* A request for a lease moves the session and the broker's store.
LEMMA KnBrokerMoves ==
  ASSUME KnInv, NEW s \in KnSessions, NEW r \in KnTurn, KnSet(s, r), KnAsked(s),
         UNCHANGED <<knGoal, knBoot, knRoute, knClaim, knCycle, knFiles>>, KnGoodTurn(s, r)'
  PROVE  KnInv'
<1>1. knRun' = [knRun EXCEPT ![s] = r] /\ knRun \in [KnSessions -> KnTurn] /\ KnTypes
  BY DEF KnSet, KnInv, KnTypes
<1>2. knLease' = KnRequested(s).leases /\ knQueue' = KnRequested(s).queue
  BY DEF KnAsked
<1>3. /\ KnBroker(knLease', knQueue')
      /\ \A g \in KnGoals : KnActive(knLease[g]) => knLease'[g] = knLease[g]
  BY <1>2, KnRequestedFacts
<1>4. KnTypes'
  BY <1>1, <1>3 DEF KnTypes, KnBroker
<1>5. KnBroker(knLease, knQueue)'
  BY <1>3 DEF KnBroker, KnHeld
<1>6. ASSUME NEW t \in KnSessions PROVE KnGoodTurn(t, knRun[t])'
  <2>1. CASE t = s
    BY <1>1, <2>1
  <2>2. CASE t # s
    <3>1. knRun'[t] = knRun[t] /\ KnGoodTurn(t, knRun[t]) /\ knGoal[t] \in KnGoals
      BY <1>1, <2>2, KnHas
    <3>2. knLease[knGoal[t]] # KnNone /\ knLease[knGoal[t]].pid = knBoot =>
            knLease'[knGoal[t]] = knLease[knGoal[t]]
      BY <1>3, <3>1 DEF KnActive
    <3> QED
      BY <3>1, <3>2 DEF KnGoodTurn
  <2> QED
    BY <2>1, <2>2
<1> QED
  BY <1>4, <1>5, <1>6 DEF KnInv

\* One round for a lease: a worker begins under one, or waits.
LEMMA KnAcquireStep ==
  ASSUME KnInv, NEW s \in KnSessions, KnAcquire(s)
  PROVE  KnInv'
<1>l. PICK l : l = KnRequested(s).leases[knGoal[s]]
  OBVIOUS
<1>b. PICK b \in BOOLEAN : b = (l # KnNone /\ l.pid # knBoot)
  BY Zenon
<1>r. PICK r : r = [knRun[s] EXCEPT !.pc = IF l # KnNone THEN "work" ELSE "wait", !.inherited = b]
  OBVIOUS
<1>0. /\ knRun[s] \in KnTurn /\ KnGoodTurn(s, knRun[s]) /\ knRun[s].pc = "acquire" /\ ~knRun[s].touched
      /\ KnAsked(s) /\ UNCHANGED <<knGoal, knBoot, knRoute, knClaim, knCycle, knFiles>>
  BY KnHas DEF KnAcquire, KnGoesOn
<1>1. KnSet(s, r)
  BY <1>l, <1>b, <1>r, Zenon DEF KnAcquire
<1>2. r \in KnTurn
  BY <1>0, <1>r DEF KnTurn, KnSteps
<1>3. knLease'[knGoal[s]] = l
  BY <1>0, <1>l DEF KnAsked
<1>4. /\ r.pc = (IF l # KnNone THEN "work" ELSE "wait") /\ r.inherited = b
      /\ r.stolen = knRun[s].stolen /\ r.mode = knRun[s].mode
      /\ r.end = knRun[s].end /\ r.touched = knRun[s].touched
  BY <1>0, <1>r DEF KnTurn
<1>5. KnGoodTurn(s, r)'
  BY <1>0, <1>b, <1>3, <1>4 DEF KnGoodTurn
<1> QED
  BY <1>0, <1>1, <1>2, <1>5, KnBrokerMoves

\* An abort after the request leaves the broker with it.
LEMMA KnAcquireCutStep ==
  ASSUME KnInv, NEW s \in KnSessions, KnAcquireCut(s)
  PROVE  KnInv'
<1>0. /\ knRun[s] \in KnTurn /\ ~knRun[s].touched /\ KnAsked(s)
      /\ UNCHANGED <<knGoal, knBoot, knRoute, knClaim, knCycle, knFiles>>
  BY KnHas DEF KnAcquireCut
<1>1. PICK x : x = KnSettled(knRun[s], FALSE)
  OBVIOUS
<1>2. KnSet(s, x)
  BY <1>1 DEF KnAcquireCut
<1>3. x \in KnTurn /\ x.pc = "idle" /\ x.end \in {"cancelled", "error"} /\ ~x.touched
  <2>1. x \in KnTurn
    BY <1>0, <1>1, KnSettledGood
  <2>2. x.pc = "idle" /\ x.end = KnReceipt(knRun[s], FALSE) /\ ~x.touched
    BY <1>1 DEF KnSettled, KnIdle
  <2> QED
    BY <2>1, <2>2 DEF KnReceipt
<1>4. KnGoodTurn(s, x)'
  BY <1>3 DEF KnGoodTurn
<1> QED
  BY <1>0, <1>2, <1>3, <1>4, KnBrokerMoves

\* A write in a workspace is noted by the reviews that look at it.
LEMMA KnWriteStep ==
  ASSUME KnInv, NEW g \in KnGoals, NEW run \in [KnSessions -> KnTurn], KnWrite(g, run),
         \A t \in KnSessions : KnGoodTurn(t, run[t]),
         UNCHANGED <<knGoal, knBoot, knRoute, knClaim, knLease, knQueue, knCycle>>
  PROVE  KnInv'
<1>0. KnTypes
  BY DEF KnInv
<1>1. /\ knFiles' = [knFiles EXCEPT ![g] = @ + 1] /\ knFiles \in [KnGoals -> Nat]
      /\ knRun' = [t \in KnSessions |->
           IF knGoal[t] = g /\ run[t].pc = "reviewing" THEN [run[t] EXCEPT !.touched = TRUE]
           ELSE run[t]]
  BY <1>0 DEF KnWrite, KnTypes
<1>2. knFiles' \in [KnGoals -> Nat]
  BY <1>1
<1>3. ASSUME NEW t \in KnSessions PROVE knRun'[t] \in KnTurn /\ KnGoodTurn(t, knRun[t])'
  <2>0. run[t] \in KnTurn /\ KnGoodTurn(t, run[t]) /\ knGoal[t] \in KnGoals
    BY <1>0 DEF KnTypes
  <2>1. CASE knGoal[t] = g /\ run[t].pc = "reviewing"
    <3>1. PICK r : r = [run[t] EXCEPT !.touched = TRUE]
      OBVIOUS
    <3>2. knRun'[t] = r
      BY <1>1, <2>1, <3>1
    <3>3. r \in KnTurn /\ r.touched /\ r.pc = "reviewing" /\ r.end = run[t].end /\ r.before = run[t].before
      BY <2>0, <2>1, <3>1 DEF KnTurn
    <3>4. r.end = "completed" /\ r.before <= knFiles[g] /\ r.before \in Nat /\ knFiles[g] \in Nat
      BY <1>1, <2>0, <2>1, <3>3 DEF KnGoodTurn, KnTurn
    <3>5. knFiles'[g] = knFiles[g] + 1
      BY <1>1
    <3>6. r.before < knFiles'[g] /\ r.before <= knFiles'[g]
      BY <3>4, <3>5
    <3>7. (r.worked /\ r.told) \/ r.hops > 0
      <4>1. r.worked = run[t].worked /\ r.told = run[t].told /\ r.hops = run[t].hops
        BY <2>0, <3>1 DEF KnTurn
      <4> QED
        BY <2>0, <3>3, <3>4, <4>1 DEF KnGoodTurn
    <3>8. knGoal'[t] = g
      BY <2>1
    <3> QED
      BY <3>2, <3>3, <3>4, <3>6, <3>7, <3>8 DEF KnGoodTurn
  <2>2. CASE ~(knGoal[t] = g /\ run[t].pc = "reviewing")
    <3>1. knRun'[t] = run[t]
      BY <1>1, <2>2
    <3>2. run[t].pc = "reviewing" => knFiles'[knGoal[t]] = knFiles[knGoal[t]]
      BY <1>1, <2>0, <2>2
    <3> QED
      BY <2>0, <3>1, <3>2 DEF KnGoodTurn
  <2> QED
    BY <2>1, <2>2
<1>4. knRun' \in [KnSessions -> KnTurn]
  BY <1>1, <1>3
<1>5. KnTypes'
  BY <1>0, <1>2, <1>4 DEF KnTypes
<1>6. KnBroker(knLease, knQueue)'
  BY DEF KnInv, KnBroker, KnHeld
<1> QED
  BY <1>3, <1>5, <1>6 DEF KnInv

\* The worker writes and ends.
LEMMA KnWorkStep ==
  ASSUME KnInv, NEW s \in KnSessions, KnWork(s)
  PROVE  KnInv'
<1>0. /\ knRun[s] \in KnTurn /\ KnGoodTurn(s, knRun[s]) /\ knGoal[s] \in KnGoals
      /\ knRun[s].pc = "work" /\ knRun \in [KnSessions -> KnTurn]
      /\ UNCHANGED <<knGoal, knBoot, knRoute, knClaim, knLease, knQueue, knCycle>>
  BY KnHas DEF KnWork, KnInv, KnTypes
<1>1. PICK r : r = [knRun[s] EXCEPT !.worked = TRUE]
  OBVIOUS
<1>2. r \in KnTurn
  BY <1>0, <1>1 DEF KnTurn
<1>3. KnGoodTurn(s, r)
  BY <1>0, <1>1 DEF KnGoodTurn, KnTurn
<1>4. PICK run : run = [knRun EXCEPT ![s] = r]
  OBVIOUS
<1>5. run \in [KnSessions -> KnTurn] /\ \A t \in KnSessions : KnGoodTurn(t, run[t])
  BY <1>0, <1>2, <1>3, <1>4 DEF KnInv
<1>6. KnWrite(knGoal[s], run)
  BY <1>1, <1>4 DEF KnWork
<1> QED
  BY <1>0, <1>5, <1>6, KnWriteStep

\* Somebody else writes.
LEMMA KnEditStep ==
  ASSUME KnInv, NEW g \in KnGoals, KnEdit(g)
  PROVE  KnInv'
<1>1. /\ knRun \in [KnSessions -> KnTurn] /\ \A t \in KnSessions : KnGoodTurn(t, knRun[t])
      /\ KnWrite(g, knRun)
      /\ UNCHANGED <<knGoal, knBoot, knRoute, knClaim, knLease, knQueue, knCycle>>
  BY DEF KnEdit, KnInv, KnTypes
<1> QED
  BY <1>1, KnWriteStep

\* A claim that grows old keeps its owner.
LEMMA KnStaleStep ==
  ASSUME KnInv, NEW g \in KnGoals, KnStale(g)
  PROVE  KnInv'
<1>0. /\ KnTypes /\ knClaim[g] \in KnClaims /\ knClaim[g] # KnNone
      /\ UNCHANGED <<knGoal, knBoot, knRoute, knRun, knLease, knQueue, knCycle, knFiles>>
  BY DEF KnStale, KnInv, KnTypes
<1>1. PICK x : x = [knClaim[g] EXCEPT !.fresh = FALSE]
  OBVIOUS
<1>2. x \in KnClaims /\ x.by = knClaim[g].by
  BY <1>0, <1>1 DEF KnClaims
<1>3. x # KnNone
  BY <1>2, KnAssumption
<1>4. knClaim' = [knClaim EXCEPT ![g] = x]
  BY <1>1 DEF KnStale
<1>5. KnTypes'
  BY <1>0, <1>2, <1>4 DEF KnTypes
<1>6. KnBroker(knLease, knQueue)'
  BY <1>0 DEF KnInv, KnBroker, KnHeld
<1>7. ASSUME NEW t \in KnSessions PROVE KnGoodTurn(t, knRun[t])'
  <2>1. KnGoodTurn(t, knRun[t]) /\ knGoal[t] \in KnGoals
    BY <1>0 DEF KnInv, KnTypes
  <2>2. knClaim[knGoal[t]] # KnNone =>
          knClaim'[knGoal[t]] # KnNone /\ knClaim'[knGoal[t]].by = knClaim[knGoal[t]].by
    BY <1>0, <1>2, <1>3, <1>4, <2>1 DEF KnTypes
  <2> QED
    BY <1>0, <2>1, <2>2 DEF KnGoodTurn
<1> QED
  BY <1>5, <1>6, <1>7 DEF KnInv

\* A lease whose time is over is still a lease of its process.
LEMMA KnLapseStep ==
  ASSUME KnInv, NEW g \in KnGoals, KnLapse(g)
  PROVE  KnInv'
<1>0. /\ KnTypes /\ knLease[g] \in KnLeases /\ knLease[g] # KnNone
      /\ UNCHANGED <<knGoal, knBoot, knRoute, knRun, knClaim, knQueue, knCycle, knFiles>>
  BY DEF KnLapse, KnInv, KnTypes
<1>1. PICK x : x = [knLease[g] EXCEPT !.lapsed = TRUE]
  OBVIOUS
<1>2. x \in KnLeases /\ x.pid = knLease[g].pid
  BY <1>0, <1>1 DEF KnLeases
<1>3. x # KnNone
  BY <1>2, KnAssumption
<1>4. knLease' = [knLease EXCEPT ![g] = x] /\ knLease \in [KnGoals -> {KnNone} \cup KnLeases]
  BY <1>0, <1>1 DEF KnLapse, KnTypes
<1>5. knLease' \in [KnGoals -> {KnNone} \cup KnLeases]
  BY <1>2, <1>4
<1>6. KnTypes'
  BY <1>0, <1>5 DEF KnTypes
<1>7. ASSUME NEW h \in KnGoals
      PROVE  /\ (knLease'[h] = KnNone) <=> (knLease[h] = KnNone)
             /\ knLease[h] # KnNone => knLease'[h].pid = knLease[h].pid
  BY <1>0, <1>2, <1>3, <1>4
<1>8. KnHeld(knLease') = KnHeld(knLease)
  BY <1>7 DEF KnHeld
<1>9. KnBroker(knLease, knQueue)'
  <2>1. KnBroker(knLease, knQueue)
    BY DEF KnInv
  <2>2. IsFiniteSet(KnHeld(knLease')) /\ Cardinality(KnHeld(knLease')) <= KnSlots
    BY <1>8, <2>1 DEF KnBroker
  <2>3. knQueue' \in Seq(KnEntry)
    BY <1>0, <2>1 DEF KnBroker
  <2>4. ASSUME NEW i \in 1..Len(knQueue) PROVE knLease'[knQueue[i].goal] = KnNone
    <3>1. knQueue[i] \in KnEntry /\ knLease[knQueue[i].goal] = KnNone
      BY <2>1 DEF KnBroker
    <3> QED
      BY <1>7, <3>1 DEF KnEntry
  <2>5. \A i, j \in 1..Len(knQueue) : knQueue[i].goal = knQueue[j].goal => i = j
    BY <2>1 DEF KnBroker
  <2> QED
    BY <1>0, <1>5, <2>2, <2>3, <2>4, <2>5 DEF KnBroker, KnHeld
<1>10. ASSUME NEW t \in KnSessions PROVE KnGoodTurn(t, knRun[t])'
  <2>1. KnGoodTurn(t, knRun[t]) /\ knGoal[t] \in KnGoals
    BY <1>0 DEF KnInv, KnTypes
  <2> QED
    BY <1>0, <1>7, <2>1 DEF KnGoodTurn
<1> QED
  BY <1>6, <1>9, <1>10 DEF KnInv

\* A restart leaves no turn under way.
LEMMA KnRestartStep ==
  ASSUME KnInv, KnRestart
  PROVE  KnInv'
<1>0. /\ KnTypes /\ knBoot' \in 1..KnBoots /\ knRoute' \in KnRoutes
      /\ UNCHANGED <<knGoal, knClaim, knLease, knQueue, knCycle, knFiles>>
  <2>1. KnTypes /\ knBoot < KnBoots /\ knBoot' = knBoot + 1 /\ knRoute' \in KnRoutes
    BY Zenon DEF KnRestart, KnInv
  <2>2. knBoot' \in 1..KnBoots
    BY <2>1, KnAssumption DEF KnTypes
  <2> QED
    BY <2>1, <2>2, Zenon DEF KnRestart
<1>a. knRun' = [s \in KnSessions |->
        [KnIdle EXCEPT !.turns = knRun[s].turns,
                       !.end = IF knRun[s].pc = "idle" THEN "none" ELSE "lost"]]
  BY Zenon DEF KnRestart
<1>1. ASSUME NEW t \in KnSessions PROVE knRun'[t] \in KnTurn /\ KnGoodTurn(t, knRun[t])'
  <2>1. PICK e : e = (IF knRun[t].pc = "idle" THEN "none" ELSE "lost")
    OBVIOUS
  <2>2. PICK n : n = knRun[t].turns
    OBVIOUS
  <2>3. n \in 0..KnTurns
    BY <1>0, <2>2 DEF KnTypes, KnTurn
  <2>4. e \in {"none", "lost"}
    BY <2>1
  <2>5. PICK r : r = [KnIdle EXCEPT !.turns = n, !.end = e]
    OBVIOUS
  <2>6. knRun'[t] = r
    <3>1. knRun'[t] = [KnIdle EXCEPT !.turns = knRun[t].turns,
                         !.end = IF knRun[t].pc = "idle" THEN "none" ELSE "lost"]
      BY <1>a, Zenon
    <3> QED
      BY <2>1, <2>2, <2>5, <3>1, Zenon
  <2>7. r \in KnTurn
    <3>1. e \in {"none", "answered", "error", "cancelled", "lost"}
      BY <2>4
    <3> QED
      BY <2>3, <2>5, <3>1, KnIdleGood, Zenon
  <2>8. r.pc = "idle" /\ r.end = e /\ r.touched = FALSE
    BY <2>5 DEF KnIdle
  <2>9. KnGoodTurn(t, knRun[t])'
    BY <2>4, <2>6, <2>8 DEF KnGoodTurn
  <2> QED
    BY <2>6, <2>7, <2>9
<1>2. knRun' \in [KnSessions -> KnTurn]
  <2>1. PICK f : f = [t \in KnSessions |-> [KnIdle EXCEPT !.turns = knRun[t].turns,
                         !.end = IF knRun[t].pc = "idle" THEN "none" ELSE "lost"]]
    BY Zenon
  <2>2. f = [t \in KnSessions |-> f[t]]
    BY <2>1, Zenon
  <2>3. knRun' = f
    BY <1>a, <2>1, Zenon
  <2> QED
    BY <1>1, <2>2, <2>3
<1>3. KnTypes'
  BY <1>0, <1>2 DEF KnTypes
<1>4. KnBroker(knLease, knQueue)'
  BY <1>0 DEF KnInv, KnBroker, KnHeld
<1> QED
  BY <1>1, <1>3, <1>4 DEF KnInv

\* Every step of the bundle keeps the invariant.
LEMMA KnNextInv == KnInv /\ [KnNext]_knVars => KnInv'
<1> SUFFICES ASSUME KnInv, [KnNext]_knVars PROVE KnInv'
  OBVIOUS
<1>1. CASE \E s \in KnSessions :
       \/ KnMessage(s) \/ KnGreeting(s) \/ KnCommand(s) \/ KnAbort(s) \/ KnFails(s)
       \/ KnAdmit(s) \/ KnShow(s) \/ KnRouted(s) \/ KnAcquire(s) \/ KnAcquireCut(s) \/ KnPoll(s)
       \/ KnWork(s) \/ KnWorkDone(s) \/ KnWorkFails(s) \/ KnReport(s) \/ KnReportFails(s)
       \/ KnRelease(s) \/ KnForeground(s) \/ KnAfter(s) \/ KnReview(s) \/ KnReviewed(s)
  BY <1>1, KnBeginStep, KnAbortStep, KnFailsStep, KnAdmitStep, KnShowStep, KnRoutedStep,
     KnAcquireStep, KnAcquireCutStep, KnPollStep, KnWorkStep, KnWorkDoneStep, KnWorkFailsStep,
     KnReportStep, KnReportFailsStep, KnReleaseStep, KnForegroundStep, KnAfterStep, KnReviewStep,
     KnReviewedStep
<1>2. CASE \E g \in KnGoals : KnEdit(g) \/ KnStale(g) \/ KnLapse(g)
  BY <1>2, KnEditStep, KnStaleStep, KnLapseStep
<1>3. CASE KnRestart
  BY <1>3, KnRestartStep
<1>4. CASE UNCHANGED knVars
  BY <1>4 DEF knVars, KnInv, KnTypes, KnBroker, KnHeld, KnGoodTurn
<1> QED
  BY <1>1, <1>2, <1>3, <1>4 DEF KnNext

\* Workers under a lease of this process never outnumber the leases, and those never the slots.
LEMMA KnSlotsFromInv == KnInv => KnSlotsKept
<1> SUFFICES ASSUME KnInv PROVE KnSlotsKept
  OBVIOUS
<1> DEFINE W == {knGoal[s] : s \in {t \in KnSessions : KnAtWork(t) /\ ~knRun[t].inherited}}
<1>1. W \subseteq KnHeld(knLease)
  BY DEF KnInv, KnTypes, KnGoodTurn, KnAtWork, KnHeld
<1>2. IsFiniteSet(KnHeld(knLease)) /\ Cardinality(KnHeld(knLease)) <= KnSlots
  BY DEF KnInv, KnBroker
<1>3. Cardinality(W) <= Cardinality(KnHeld(knLease)) /\ IsFiniteSet(W)
  BY <1>1, <1>2, FS_Subset
<1>4. Cardinality(W) \in Nat /\ Cardinality(KnHeld(knLease)) \in Nat /\ KnSlots \in Nat
  BY <1>2, <1>3, FS_CardinalityType, KnAssumption
<1> QED
  BY <1>2, <1>3, <1>4 DEF KnSlotsKept

\* The invariant holds what the increments rely on.
LEMMA KnSafeFromInv == KnInv => KnSafe
<1> SUFFICES ASSUME KnInv PROVE KnSafe
  OBVIOUS
<1>1. KnTypeOK
  <2>1. ASSUME NEW s \in KnSessions
        PROVE  /\ DOMAIN knRun[s] = DOMAIN KnIdle
               /\ knRun[s].pc \in KnSteps /\ knRun[s].mode \in KnModes /\ knRun[s].end \in KnEnds
               /\ knRun[s].turns \in 0..KnTurns
    <3>1. knRun[s] \in KnTurn
      BY DEF KnInv, KnTypes
    <3> QED
      BY <3>1 DEF KnTurn, KnIdle
  <2>2. \A i, j \in DOMAIN knQueue : knQueue[i].goal = knQueue[j].goal => i = j
    <3>1. knQueue \in Seq(KnEntry) /\ \A i, j \in 1..Len(knQueue) : knQueue[i].goal = knQueue[j].goal => i = j
      BY DEF KnInv, KnBroker
    <3>2. DOMAIN knQueue = 1..Len(knQueue)
      BY <3>1
    <3> QED
      BY <3>1, <3>2
  <2> QED
    BY <2>1, <2>2 DEF KnTypeOK, KnInv, KnTypes
<1>2. KnWorkIsLeased
  BY DEF KnInv, KnGoodTurn, KnWorkIsLeased, KnAtWork
<1>3. KnSlotsKept
  BY KnSlotsFromInv
<1>4. KnOneWorker
  <2> SUFFICES ASSUME NEW s \in KnSessions, NEW t \in KnSessions, s # t, knGoal[s] = knGoal[t],
                      KnAtWork(s), KnAtWork(t), ~knRun[s].stolen, ~knRun[t].stolen
               PROVE  FALSE
    BY DEF KnOneWorker
  <2>1. knClaim[knGoal[s]].by = <<s, knRun[s].mode>> /\ knClaim[knGoal[t]].by = <<t, knRun[t].mode>>
    BY DEF KnInv, KnGoodTurn, KnAtWork
  <2> QED
    BY <2>1
<1>5. KnDoneIsDone
  BY DEF KnInv, KnGoodTurn, KnDoneIsDone
<1>6. KnReviewBinds
  BY DEF KnInv, KnGoodTurn, KnReviewBinds
<1> QED
  BY <1>1, <1>2, <1>3, <1>4, <1>5, <1>6 DEF KnSafe

\* Whatever the sessions, the aborts, the clock and restarts do: a worker of the bundle runs under
\* a lease, within the slots and alone on its project unless its claim was lost; what is recorded
\* as completed was done; and an accepted review is of files nobody wrote in meanwhile.
THEOREM IncrementsAreSafe == KnSpec => []KnSafe
<1>1. KnInit => KnInv
  BY KnInitInv
<1>2. KnInv /\ [KnNext]_knVars => KnInv'
  BY KnNextInv
<1>3. KnInv => KnSafe
  BY KnSafeFromInv
<1> QED
  BY <1>1, <1>2, <1>3, PTL DEF KnSpec
=============================================================================
