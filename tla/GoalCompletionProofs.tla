------------------------- MODULE GoalCompletionProofs -------------------------
(* Proofs about GoalCompletion for any number of daemons, foreground runs and     *)
(* graders, any bounds, and an owner who redefines the goal at any time; the last  *)
(* part, about deciding a claim once, for one daemon or foreground run.           *)
EXTENDS GoalCompletion, TLAPS

Reviewing == {"dispatch", "reviewing", "settle"}
Grading == {"grade", "commit", "write"}
Busy == {"check", "working", "after", "report", "clear", "reviewing", "settle"} \cup Grading

(* The state lock is held through the transaction and the write after it.        *)
LockHeld == \A p \in Procs : lock = p <=> pc[p] \in {"commit", "write"}

(* A process that reviews has read a claim, with an attempt left once the         *)
(* dispatch is made.                                                             *)
ClaimOfReview ==
  \A p \in Procs :
    /\ pc[p] = "review" => snap[p].pending # NoPending
    /\ pc[p] \in Reviewing => /\ snap[p].pending \in Claim
                              /\ snap[p].pending.attempts < MAX_INDEPENDENT_REVIEW_ATTEMPTS
    /\ pc[p] = "grade" /\ p \notin Graders => snap[p].pending \in Claim
    /\ pc[p] = "settle" => local[p].result \in {"pass", "fail", "inconclusive"}

(* Its dispatch has no receipt yet and is nobody else's.                         *)
ReviewOwned ==
  \A p \in Procs : pc[p] \in Reviewing =>
    /\ local[p].dispatch \in 1..Len(dispatches)
    /\ dispatches[local[p].dispatch].verdict = "none"
    /\ \A q \in Procs : pc[q] \in Reviewing /\ q # p =>
         local[q].dispatch # local[p].dispatch

(* A grade works on a recorded receipt; inside the transaction it is the pending  *)
(* claim's, and after it the commit is there.                                    *)
GradeReceipt ==
  \A p \in Procs : pc[p] \in Grading =>
    /\ local[p].dispatch \in 1..Len(dispatches)
    /\ dispatches[local[p].dispatch].verdict # "none"

GradeClaim ==
  \A p \in Procs : pc[p] = "commit" =>
    dispatches[local[p].dispatch].claim = goal.pending.claim

GradeCommitted ==
  \A p \in Procs : pc[p] = "write" =>
    \E i \in 1..Len(commits) : commits[i].dispatch = local[p].dispatch

(* A commit repeats its receipt, and its goal is done only for a pass.           *)
CommitsBacked ==
  \A i \in 1..Len(commits) :
    /\ commits[i].dispatch \in 1..Len(dispatches)
    /\ dispatches[commits[i].dispatch].verdict = commits[i].verdict
    /\ dispatches[commits[i].dispatch].claim = commits[i].claim
    /\ commits[i].final.status = "done" => commits[i].verdict = "pass"
    /\ commits[i].final.pid = None

RecoverInRange == \A p \in Procs : local[p].commit <= Len(commits)

(* The pid on the goal is of a process that will still clear it.                 *)
PidBusy == goal.pid \in Procs => pc[goal.pid] \in Busy

(* A freeze precedes the work, so the claim is about a real source.              *)
Frozen ==
  \A p \in Procs : pc[p] \in {"start", "check", "working", "after", "report"} =>
    local[p].src \in Sources

GoalInv ==
  /\ TypeOK
  /\ LockHeld /\ ClaimOfReview /\ ReviewOwned 
  /\ GradeReceipt /\ GradeClaim /\ GradeCommitted /\ CommitsBacked
  /\ RecoverInRange /\ PidBusy /\ Frozen
  /\ DoneIsGraded /\ TaskFollowsCommit
-------------------------------------------------------------------------------
(* What the patches make of a goal is a goal. *)
LEMMA PatchTypes ==
  ASSUME NEW g \in Goal, NEW p \in Procs
  PROVE  /\ Reopened(g) \in Goal
         /\ Orphan(g, p) \in Goal
         /\ NoPending \in Pending
         /\ FirstGoal \in Goal
         /\ Seen(g) \in [epoch : 0..MaxEpoch, pending : Pending]
         /\ \A v \in {"pass", "fail"} : Graded(g, v) \in Goal
         /\ \A c \in Claim, a \in 0..MAX_INDEPENDENT_REVIEW_ATTEMPTS :
              Inconclusive(g, c, a) \in Goal
         /\ \A c \in Claim : WithoutDispatch(c) \in Claim
<1>0. MAX_INDEPENDENT_REVIEW_ATTEMPTS \in Nat /\ MaxEpoch \in Nat
  BY GoalAssumption
<1>1. /\ NoPending \in Pending /\ g.pending \in Pending
  BY DEF Pending, Goal
<1>2. Reopened(g) \in Goal /\ Orphan(g, p) \in Goal
  BY <1>1 DEF Goal, GoalStatus, Reopened, Orphan
<1>6. FirstGoal \in Goal
  BY <1>0, <1>1 DEF Goal, GoalStatus, FirstGoal
<1>7. Seen(g) \in [epoch : 0..MaxEpoch, pending : Pending]
  BY <1>1 DEF Goal, Seen
<1>8. \A v \in {"pass", "fail"} : Graded(g, v) \in Goal
  BY <1>1 DEF Goal, GoalStatus, Graded
<1>3. ASSUME NEW c \in Claim PROVE WithoutDispatch(c) \in Claim /\ WithoutDispatch(c).dispatch = 0
  BY GoalAssumption DEF Claim, WithoutDispatch
<1>4. ASSUME NEW c \in Claim, c.dispatch = 0, NEW a \in 0..MAX_INDEPENDENT_REVIEW_ATTEMPTS
      PROVE  [c EXCEPT !.attempts = a] \in Claim
  BY <1>4 DEF Claim
<1>5. \A c \in Claim, a \in 0..MAX_INDEPENDENT_REVIEW_ATTEMPTS :
        Inconclusive(g, c, a) \in Goal
  BY <1>3, <1>4 DEF Inconclusive, Goal, GoalStatus, Pending
<1> QED
  BY <1>1, <1>2, <1>3, <1>5, <1>6, <1>7, <1>8

(* Leaving a cycle keeps the types of what it resets. *)
LEMMA LeaveTypes ==
  ASSUME TypeOK, NEW p \in Procs, Leave(p)
  PROVE  /\ pc' \in [Procs -> PCs]
         /\ snap' \in [Procs -> [epoch : 0..MaxEpoch, pending : Pending]]
         /\ local' \in [Procs -> Local]
         /\ fence' \in Procs \cup {None, Dead}
<1>1. Seen(FirstGoal) \in [epoch : 0..MaxEpoch, pending : Pending]
  <2>1. FirstGoal \in Goal
    BY PatchTypes DEF TypeOK
  <2> QED
    BY <2>1, PatchTypes
<1>2. Fresh \in Local
  BY GoalAssumption DEF Fresh, Local, Results
<1> QED
  BY <1>1, <1>2 DEF TypeOK, Leave, Goto, PCs

(* A cycle that reviews has read a claim, and a claim with a dispatch has an attempt *)
(* left. *)
LEMMA ClaimRead ==
  ASSUME GoalInv, NEW p \in Procs
  PROVE  /\ pc[p] = "review" => Mine(p) \in Claim
         /\ Mine(p) \in Claim => /\ Mine(p).attempts \in 0..MAX_INDEPENDENT_REVIEW_ATTEMPTS
                                 /\ Mine(p).attempts \in Nat
         /\ Mine(p) \in Claim /\ Mine(p).dispatch # 0 =>
              Mine(p).attempts < MAX_INDEPENDENT_REVIEW_ATTEMPTS
  BY GoalAssumption DEF GoalInv, TypeOK, ClaimOfReview, ReviewOwned, Mine, Pending, Claim

(* A claim with an attempt left may carry a dispatch. *)
LEMMA DispatchedClaim ==
  ASSUME NEW c \in Claim, c.attempts < MAX_INDEPENDENT_REVIEW_ATTEMPTS,
         NEW d \in 0..MaxDispatches
  PROVE  [c EXCEPT !.dispatch = d] \in Claim
  BY DEF Claim

(* Every step leaves a goal of the right type. *)
LEMMA GoalType ==
  ASSUME GoalInv, Next
  PROVE  goal' \in Goal
<1>1. ASSUME NEW p \in Procs, StartCycle(p) PROVE goal' \in Goal
  BY <1>1 DEF StartCycle, GoalInv, TypeOK
<1>2. ASSUME NEW p \in Procs, recoverSupervisorCompletion(p) PROVE goal' \in Goal
  <2>1. goal \in Goal /\ commits \in Seq(Commit) /\ local[p].commit \in Nat
    BY DEF GoalInv, TypeOK, Local
  <2>2. local[p].commit > 0 => commits[local[p].commit].final \in Goal
    <3>1. local[p].commit > 0 => commits[local[p].commit] \in Commit
      BY <2>1 DEF GoalInv, RecoverInRange
    <3> QED
      BY <3>1 DEF Commit
  <2> QED
    BY <1>2, <2>1, <2>2 DEF recoverSupervisorCompletion
<1>3. ASSUME NEW p \in Procs, ReadGoal(p) PROVE goal' \in Goal
  BY <1>3 DEF ReadGoal, GoalInv, TypeOK
<1>4. ASSUME NEW p \in Procs, TakeFence(p) PROVE goal' \in Goal
  BY <1>4 DEF TakeFence, GoalInv, TypeOK
<1>5. ASSUME NEW p \in Procs, RefusedFence(p) PROVE goal' \in Goal
  BY <1>5 DEF RefusedFence, GoalInv, TypeOK
<1>6. ASSUME NEW p \in Procs, ReviewStale(p) PROVE goal' \in Goal
  BY <1>6, PatchTypes DEF ReviewStale, Goal, GoalStatus, GoalInv, TypeOK
<1>7. ASSUME NEW p \in Procs, recoverAbandonedReviewDispatch(p) PROVE goal' \in Goal
  <2>1. goal \in Goal
    BY DEF GoalInv, TypeOK
  <2>2. Mine(p) \in Claim /\ Mine(p).attempts + 1 \in 0..MAX_INDEPENDENT_REVIEW_ATTEMPTS
    BY <1>7, ClaimRead, GoalAssumption DEF recoverAbandonedReviewDispatch, GoalInv,
       ClaimOfReview, ReviewOwned, Reviewing, Mine
  <2>3. Inconclusive(goal, Mine(p), Mine(p).attempts + 1) \in Goal
    BY <2>1, <2>2, PatchTypes
  <2> QED
    BY <1>7, <2>3 DEF recoverAbandonedReviewDispatch
<1>8. ASSUME NEW p \in Procs, ReviewExhausted(p) PROVE goal' \in Goal
  BY <1>8, ClaimRead, PatchTypes, GoalAssumption DEF ReviewExhausted, GoalInv, TypeOK, Mine
<1>9. ASSUME NEW p \in Procs, ReviewWaits(p) PROVE goal' \in Goal
  BY <1>9 DEF ReviewWaits, GoalInv, TypeOK
<1>10. ASSUME NEW p \in Procs, CreateReviewRun(p) PROVE goal' \in Goal
  BY <1>10 DEF CreateReviewRun, GoalInv, TypeOK
<1>11. ASSUME NEW p \in Procs, DispatchReview(p) PROVE goal' \in Goal
  <2>1. goal \in Goal /\ local[p].dispatch \in 0..MaxDispatches
    BY DEF GoalInv, TypeOK, Local
  <2>2. Mine(p) \in Claim /\ Mine(p).attempts < MAX_INDEPENDENT_REVIEW_ATTEMPTS
    BY <1>11 DEF DispatchReview, GoalInv, ClaimOfReview, ReviewOwned, Reviewing, Mine
  <2>3. [Mine(p) EXCEPT !.dispatch = local[p].dispatch] \in Pending
    BY <2>1, <2>2, DispatchedClaim DEF Pending
  <2> QED
    BY <1>11, <2>1, <2>3 DEF DispatchReview, Goal
<1>12. ASSUME NEW p \in Procs, ReviewerReturns(p) PROVE goal' \in Goal
  BY <1>12 DEF ReviewerReturns, GoalInv, TypeOK
<1>13. ASSUME NEW p \in Procs, recordInconclusiveReviewAttempt(p) PROVE goal' \in Goal
  <2>1. goal \in Goal
    BY DEF GoalInv, TypeOK
  <2>2. Mine(p) \in Claim /\ Mine(p).attempts + 1 \in 0..MAX_INDEPENDENT_REVIEW_ATTEMPTS
    BY <1>13, ClaimRead, GoalAssumption DEF recordInconclusiveReviewAttempt, GoalInv,
       ClaimOfReview, ReviewOwned, Reviewing, Mine
  <2>3. Inconclusive(goal, Mine(p), Mine(p).attempts + 1) \in Goal
    BY <2>1, <2>2, PatchTypes
  <2> QED
    BY <1>13, <2>3 DEF recordInconclusiveReviewAttempt
<1>14. ASSUME NEW p \in Procs, ReviewUnbound(p) PROVE goal' \in Goal
  <2>1. goal \in Goal /\ Mine(p) \in Claim
    BY <1>14 DEF ReviewUnbound, GoalInv, TypeOK, ClaimOfReview, ReviewOwned, Reviewing, Mine
  <2>2. WithoutDispatch(Mine(p)) \in Pending
    BY <2>1, PatchTypes DEF Pending
  <2> QED
    BY <1>14, <2>1, <2>2 DEF ReviewUnbound, Goal
<1>15. ASSUME NEW p \in Procs, postReviewSourceChange(p) PROVE goal' \in Goal
  BY <1>15, PatchTypes DEF postReviewSourceChange, GoalInv, TypeOK
<1>16. ASSUME NEW p \in Procs, recordIndependentReviewExecution(p) PROVE goal' \in Goal
  BY <1>16 DEF recordIndependentReviewExecution, GoalInv, TypeOK
<1>17. ASSUME NEW p \in Procs, GradeRefused(p) PROVE goal' \in Goal
  BY <1>17, PatchTypes DEF GradeRefused, Throw, GoalInv, TypeOK
<1>18. ASSUME NEW p \in Procs, GradeBegin(p) PROVE goal' \in Goal
  BY <1>18 DEF GradeBegin, GoalInv, TypeOK
<1>19. ASSUME NEW p \in Procs, GradeReopens(p) PROVE goal' \in Goal
  BY <1>19, PatchTypes DEF GradeReopens, Throw, GoalInv, TypeOK
<1>20. ASSUME NEW p \in Procs, CommitGrade(p) PROVE goal' \in Goal
  BY <1>20 DEF CommitGrade, GoalInv, TypeOK
<1>21. ASSUME NEW p \in Procs, CommitFenced(p) PROVE goal' \in Goal
  BY <1>21, PatchTypes DEF CommitFenced, Throw, GoalInv, TypeOK
<1>22. ASSUME NEW p \in Procs, WriteGoal(p) PROVE goal' \in Goal
  <2>1. goal \in Goal
    BY DEF GoalInv, TypeOK
  <2>2. dispatches[local[p].dispatch].verdict \in {"pass", "fail"}
    <3>1. /\ dispatches[local[p].dispatch] \in Dispatch
          /\ dispatches[local[p].dispatch].verdict # "none"
      BY <1>22 DEF WriteGoal, GoalInv, TypeOK, GradeReceipt, GradeClaim, GradeCommitted,
         Grading
    <3> QED
      BY <3>1 DEF Dispatch
  <2> QED
    BY <1>22, <2>1, <2>2, PatchTypes DEF WriteGoal
<1>23. ASSUME NEW p \in Procs, WorkCheckpoint(p) PROVE goal' \in Goal
  BY <1>23, PatchTypes DEF WorkCheckpoint, Goal, GoalStatus, GoalInv, TypeOK
<1>24. ASSUME NEW p \in Procs, freezeSupervisorCandidate(p) PROVE goal' \in Goal
  BY <1>24 DEF freezeSupervisorCandidate, GoalInv, TypeOK
<1>25. ASSUME NEW p \in Procs, StartWork(p) PROVE goal' \in Goal
  BY <1>25, PatchTypes DEF StartWork, Goal, GoalStatus, GoalInv, TypeOK
<1>26. ASSUME NEW p \in Procs, DispatchRefused(p) PROVE goal' \in Goal
  BY <1>26, PatchTypes DEF DispatchRefused, GoalInv, TypeOK
<1>27. ASSUME NEW p \in Procs, DispatchWorker(p) PROVE goal' \in Goal
  <2>1. goal \in Goal /\ Orphan(goal, p) \in Goal
    BY PatchTypes DEF GoalInv, TypeOK
  <2> QED
    BY <1>27, <2>1 DEF DispatchWorker, Throw
<1>28. ASSUME NEW p \in Procs, WorkerReturns(p) PROVE goal' \in Goal
  BY <1>28 DEF WorkerReturns, GoalInv, TypeOK
<1>29. ASSUME NEW p \in Procs, WorkUnsigned(p) PROVE goal' \in Goal
  BY <1>29, PatchTypes DEF WorkUnsigned, GoalInv, TypeOK
<1>30. ASSUME NEW p \in Procs, ReadAfter(p) PROVE goal' \in Goal
  BY <1>30 DEF ReadAfter, GoalInv, TypeOK
<1>31. ASSUME NEW p \in Procs, ClearPid(p) PROVE goal' \in Goal
  BY <1>31, PatchTypes DEF ClearPid, Goal, GoalStatus, GoalInv, TypeOK
<1>32. ASSUME NEW p \in Procs, ClaimCompletion(p) PROVE goal' \in Goal
  <2> DEFINE c == [claim |-> claims + 1, src |-> local[p].src, task |-> local[p].task,
                  attempts |-> 0, dispatch |-> 0]
  <2>1. goal \in Goal /\ claims + 1 \in 1..MaxClaims /\ local[p].task \in BOOLEAN
    <3>1. goal \in Goal /\ local[p] \in Local /\ claims \in 0..MaxClaims
      BY DEF GoalInv, TypeOK
    <3>2. claims < MaxClaims /\ MaxClaims \in Nat
      BY <1>32, GoalAssumption DEF ClaimCompletion
    <3> QED
      BY <3>1, <3>2 DEF Local
  <2>2. local[p].src \in Sources
    BY <1>32 DEF ClaimCompletion, GoalInv, Frozen
  <2>3. c \in Claim
    BY <2>1, <2>2, GoalAssumption DEF Claim
  <2> HIDE DEF c
  <2>4. goal' = [goal EXCEPT !.status = "active", !.pid = None, !.pending = c]
    BY <1>32 DEF ClaimCompletion, c
  <2> QED
    BY <2>1, <2>3, <2>4 DEF Goal, GoalStatus, Pending
<1>33. ASSUME NEW p \in Procs, WorkReported(p) PROVE goal' \in Goal
  <2>1. Reopened(goal) \in Goal
    BY PatchTypes DEF GoalInv, TypeOK
  <2>2. PICK st \in GoalStatus : goal' = [Reopened(goal) EXCEPT !.status = st]
    BY <1>33 DEF WorkReported, GoalStatus
  <2> QED
    BY <2>1, <2>2 DEF Goal
<1>34. ASSUME NEW p \in Procs, CliGrade(p) PROVE goal' \in Goal
  BY <1>34 DEF CliGrade, GoalInv, TypeOK
<1>35. ASSUME NEW p \in Procs, CliRefused(p) PROVE goal' \in Goal
  BY <1>35 DEF CliRefused, GoalInv, TypeOK
<1>36. ASSUME NEW p \in Procs, Crash(p) PROVE goal' \in Goal
  BY <1>36, PatchTypes DEF Crash, GoalInv, TypeOK
<1>37. CASE RedefineGoal
  <2>1. goal \in Goal /\ NoPending \in Pending
    BY DEF GoalInv, TypeOK, Pending
  <2>2. goal.epoch + 1 \in 0..MaxEpoch
    BY <1>37, <2>1, GoalAssumption DEF RedefineGoal, Goal
  <2>3. PICK pid \in {None, goal.pid} :
          goal' = [goal EXCEPT !.epoch = goal.epoch + 1, !.status = "active", !.pid = pid,
                               !.pending = NoPending]
    BY <1>37 DEF RedefineGoal
  <2> QED
    BY <2>1, <2>2, <2>3 DEF Goal, GoalStatus
<1>38. CASE ReportGoal
  BY <1>38, GoalAssumption DEF ReportGoal, Goal, GoalStatus, GoalInv, TypeOK, Pending
<1>39. CASE EditSource
  BY <1>39 DEF EditSource, GoalInv, TypeOK
<1>40. CASE MoveTask
  BY <1>40 DEF MoveTask, GoalInv, TypeOK
<1> QED
  BY <1>1, <1>2, <1>3, <1>4, <1>5, <1>6, <1>7, <1>8, <1>9, <1>10, <1>11, <1>12, <1>13,
     <1>14, <1>15, <1>16, <1>17, <1>18, <1>19, <1>20, <1>21, <1>22, <1>23, <1>24, <1>25,
     <1>26, <1>27, <1>28, <1>29, <1>30, <1>31, <1>32, <1>33, <1>34, <1>35, <1>36, <1>37,
     <1>38, <1>39, <1>40 DEF Next, Run, Enter, Review, Grade, Work
(* A dispatch with another run status or verdict is a dispatch. *)
LEMMA DispatchPatches ==
  ASSUME NEW d \in Dispatch
  PROVE  /\ \A r \in {"running", "succeeded", "failed"} : [d EXCEPT !.run = r] \in Dispatch
         /\ \A v \in {"none", "pass", "fail"} : [d EXCEPT !.verdict = v] \in Dispatch
  BY DEF Dispatch

(* So is a process's carried state with one of its fields replaced. *)
LEMMA LocalPatches ==
  ASSUME NEW l \in Local
  PROVE  /\ \A n \in Nat : [l EXCEPT !.commit = n] \in Local
         /\ \A d \in 0..MaxDispatches : [l EXCEPT !.dispatch = d] \in Local
         /\ \A r \in Results : [l EXCEPT !.result = r] \in Local
         /\ \A x \in Sources, t \in BOOLEAN : [l EXCEPT !.src = x, !.task = t] \in Local
  BY DEF Local

(* The part of TypeOK about what is stored. *)
StoreTyped ==
  /\ task \in {"none", "ready", "completed"}
  /\ source \in Sources /\ claims \in 0..MaxClaims
  /\ dispatches \in Seq(Dispatch) /\ Len(dispatches) <= MaxDispatches
  /\ commits \in Seq(Commit)
  /\ crashes \in 0..MaxCrashes /\ contended \in BOOLEAN

(* What is stored keeps its type. *)
LEMMA StoreType ==
  ASSUME GoalInv, Next
  PROVE  StoreTyped'
<1>1. ASSUME NEW p \in Procs, StartCycle(p) PROVE StoreTyped'
  BY <1>1 DEF StartCycle, database, GoalInv, TypeOK, StoreTyped
<1>2. ASSUME NEW p \in Procs, recoverSupervisorCompletion(p) PROVE StoreTyped'
  BY <1>2 DEF recoverSupervisorCompletion, database, GoalInv, TypeOK, StoreTyped
<1>3. ASSUME NEW p \in Procs, ReadGoal(p) PROVE StoreTyped'
  BY <1>3 DEF ReadGoal, database, GoalInv, TypeOK, StoreTyped
<1>4. ASSUME NEW p \in Procs, TakeFence(p) PROVE StoreTyped'
  BY <1>4 DEF TakeFence, database, GoalInv, TypeOK, StoreTyped
<1>5. ASSUME NEW p \in Procs, RefusedFence(p) PROVE StoreTyped'
  BY <1>5 DEF RefusedFence, database, GoalInv, TypeOK, StoreTyped
<1>6. ASSUME NEW p \in Procs, ReviewStale(p) PROVE StoreTyped'
  BY <1>6 DEF ReviewStale, database, GoalInv, TypeOK, StoreTyped
<1>7. ASSUME NEW p \in Procs, recoverAbandonedReviewDispatch(p) PROVE StoreTyped'
  <2> DEFINE k == Mine(p).dispatch
  <2>1. CASE k \in 1..Len(dispatches)
    <3>1. [dispatches[k] EXCEPT !.run = "failed"] \in Dispatch
      <4>1. dispatches[k] \in Dispatch
        BY <2>1 DEF GoalInv, TypeOK
      <4> QED
        BY <4>1, DispatchPatches
    <3>2. dispatches' \in Seq(Dispatch) /\ Len(dispatches') = Len(dispatches)
      BY <1>7, <2>1, <3>1 DEF recoverAbandonedReviewDispatch, GoalInv, TypeOK
    <3> QED
      BY <1>7, <3>2 DEF recoverAbandonedReviewDispatch, GoalInv, TypeOK, StoreTyped
  <2>2. CASE k \notin 1..Len(dispatches)
    <3>1. dispatches' = dispatches
      BY <1>7, <2>2 DEF recoverAbandonedReviewDispatch, GoalInv, TypeOK
    <3> QED
      BY <1>7, <3>1 DEF recoverAbandonedReviewDispatch, GoalInv, TypeOK, StoreTyped
  <2> QED
    BY <2>1, <2>2
<1>8. ASSUME NEW p \in Procs, ReviewExhausted(p) PROVE StoreTyped'
  BY <1>8 DEF ReviewExhausted, database, GoalInv, TypeOK, StoreTyped
<1>9. ASSUME NEW p \in Procs, ReviewWaits(p) PROVE StoreTyped'
  BY <1>9 DEF ReviewWaits, database, GoalInv, TypeOK, StoreTyped
<1>10. ASSUME NEW p \in Procs, CreateReviewRun(p) PROVE StoreTyped'
  <2> DEFINE d == [claim |-> Mine(p).claim, src |-> Mine(p).src, epoch |-> snap[p].epoch,
                  run |-> "running", verdict |-> "none"]
  <2>1. Mine(p) \in Claim /\ snap[p].epoch \in 0..MaxEpoch
    BY <1>10, ClaimRead DEF CreateReviewRun, GoalInv, TypeOK
  <2>2. d \in Dispatch
    BY <2>1 DEF Dispatch, Claim
  <2>3. dispatches' = Append(dispatches, d)
    BY <1>10 DEF CreateReviewRun
  <2> HIDE DEF d
  <2> QED
    BY <1>10, <2>2, <2>3, GoalAssumption DEF CreateReviewRun, GoalInv, TypeOK, StoreTyped
<1>11. ASSUME NEW p \in Procs, DispatchReview(p) PROVE StoreTyped'
  BY <1>11 DEF DispatchReview, database, GoalInv, TypeOK, StoreTyped
<1>12. ASSUME NEW p \in Procs, ReviewerReturns(p) PROVE StoreTyped'
  <2>1. local[p].dispatch \in 1..Len(dispatches)
    BY <1>12 DEF ReviewerReturns, GoalInv, ClaimOfReview, ReviewOwned, Reviewing
  <2>2. \A run \in {"succeeded", "failed"} :
          [dispatches[local[p].dispatch] EXCEPT !.run = run] \in Dispatch
    <3>1. dispatches[local[p].dispatch] \in Dispatch
      BY <2>1 DEF GoalInv, TypeOK
    <3> QED
      BY <3>1, <2>1, DispatchPatches
  <2> QED
    <3>1. PICK run \in {"succeeded", "failed"} :
            dispatches' = [dispatches EXCEPT ![local[p].dispatch] =
                             [dispatches[local[p].dispatch] EXCEPT !.run = run]]
      BY <1>12, <2>1 DEF ReviewerReturns
    <3>2. UNCHANGED <<task, claims, commits, source, contended, crashes>>
      BY <1>12 DEF ReviewerReturns
    <3> DEFINE x == [dispatches[local[p].dispatch] EXCEPT !.run = run]
    <3>3. x \in Dispatch
      BY <2>2
    <3>4. dispatches' = [dispatches EXCEPT ![local[p].dispatch] = x]
      BY <3>1
    <3> HIDE DEF x
    <3>5. dispatches' \in Seq(Dispatch) /\ Len(dispatches') = Len(dispatches)
      BY <2>1, <3>3, <3>4 DEF GoalInv, TypeOK
    <3> QED
      BY <3>2, <3>5 DEF GoalInv, TypeOK, StoreTyped
<1>13. ASSUME NEW p \in Procs, recordInconclusiveReviewAttempt(p) PROVE StoreTyped'
  BY <1>13 DEF recordInconclusiveReviewAttempt, database, GoalInv, TypeOK, StoreTyped
<1>14. ASSUME NEW p \in Procs, ReviewUnbound(p) PROVE StoreTyped'
  BY <1>14 DEF ReviewUnbound, database, GoalInv, TypeOK, StoreTyped
<1>15. ASSUME NEW p \in Procs, postReviewSourceChange(p) PROVE StoreTyped'
  BY <1>15 DEF postReviewSourceChange, database, GoalInv, TypeOK, StoreTyped
<1>16. ASSUME NEW p \in Procs, recordIndependentReviewExecution(p) PROVE StoreTyped'
  <2>1. local[p].dispatch \in 1..Len(dispatches) /\ local[p].result \in {"pass", "fail"}
    BY <1>16 DEF recordIndependentReviewExecution, GoalInv, ClaimOfReview, ReviewOwned,
       Reviewing
  <2>2. [dispatches[local[p].dispatch] EXCEPT !.verdict = local[p].result] \in Dispatch
    <3>1. dispatches[local[p].dispatch] \in Dispatch
      BY <2>1 DEF GoalInv, TypeOK
    <3> QED
      BY <3>1, <2>1, DispatchPatches
  <2> QED
    BY <1>16, <2>1, <2>2 DEF recordIndependentReviewExecution, GoalInv, TypeOK, StoreTyped
<1>17. ASSUME NEW p \in Procs, GradeRefused(p) PROVE StoreTyped'
  BY <1>17 DEF GradeRefused, Throw, database, GoalInv, TypeOK, StoreTyped
<1>18. ASSUME NEW p \in Procs, GradeBegin(p) PROVE StoreTyped'
  BY <1>18 DEF GradeBegin, database, GoalInv, TypeOK, StoreTyped
<1>19. ASSUME NEW p \in Procs, GradeReopens(p) PROVE StoreTyped'
  BY <1>19 DEF GradeReopens, Throw, database, GoalInv, TypeOK, StoreTyped
<1>20. ASSUME NEW p \in Procs, CommitGrade(p) PROVE StoreTyped'
  <2> DEFINE d == local[p].dispatch
             v == dispatches[d].verdict
             c == [dispatch |-> d, claim |-> goal.pending.claim, task |-> goal.pending.task,
                   verdict |-> v, final |-> Graded(goal, v)]
  <2>1. d \in 1..Len(dispatches) /\ d \in 1..MaxDispatches /\ dispatches[d] \in Dispatch
    BY <1>20, GoalAssumption DEF CommitGrade, GoalInv, TypeOK, GradeReceipt, GradeClaim,
       GradeCommitted, Grading
  <2>2. v \in {"pass", "fail"} /\ goal.pending.claim \in 1..MaxClaims
    BY <1>20, <2>1 DEF CommitGrade, GoalInv, GradeReceipt, GradeClaim, GradeCommitted,
       Grading, Dispatch
  <2>3. Graded(goal, v) \in Goal /\ goal.pending.task \in BOOLEAN
    <3>1. goal \in Goal /\ goal.pending \in Pending
      BY DEF GoalInv, TypeOK, Goal
    <3>2. goal.pending.task \in BOOLEAN
      <4>1. CASE goal.pending \in Claim
        BY <4>1 DEF Claim
      <4>2. CASE goal.pending = NoPending
        BY <4>2 DEF NoPending
      <4> QED
        BY <3>1, <4>1, <4>2 DEF Pending
    <3> QED
      BY <2>2, <3>1, <3>2, PatchTypes
  <2>4. c \in Commit
    BY <2>1, <2>2, <2>3 DEF Commit
  <2>5. commits' = Append(commits, c)
    BY <1>20 DEF CommitGrade
  <2>6. task' \in {"completed", task}
    BY <1>20 DEF CommitGrade
  <2> HIDE DEF c
  <2> QED
    BY <1>20, <2>4, <2>5, <2>6 DEF CommitGrade, GoalInv, TypeOK, StoreTyped
<1>21. ASSUME NEW p \in Procs, CommitFenced(p) PROVE StoreTyped'
  BY <1>21 DEF CommitFenced, Throw, database, GoalInv, TypeOK, StoreTyped
<1>22. ASSUME NEW p \in Procs, WriteGoal(p) PROVE StoreTyped'
  BY <1>22 DEF WriteGoal, database, GoalInv, TypeOK, StoreTyped
<1>23. ASSUME NEW p \in Procs, WorkCheckpoint(p) PROVE StoreTyped'
  BY <1>23 DEF WorkCheckpoint, database, GoalInv, TypeOK, StoreTyped
<1>24. ASSUME NEW p \in Procs, freezeSupervisorCandidate(p) PROVE StoreTyped'
  BY <1>24 DEF freezeSupervisorCandidate, database, GoalInv, TypeOK, StoreTyped
<1>25. ASSUME NEW p \in Procs, StartWork(p) PROVE StoreTyped'
  BY <1>25 DEF StartWork, database, GoalInv, TypeOK, StoreTyped
<1>26. ASSUME NEW p \in Procs, DispatchRefused(p) PROVE StoreTyped'
  BY <1>26 DEF DispatchRefused, database, GoalInv, TypeOK, StoreTyped
<1>27. ASSUME NEW p \in Procs, DispatchWorker(p) PROVE StoreTyped'
  BY <1>27 DEF DispatchWorker, Throw, database, GoalInv, TypeOK, StoreTyped
<1>28. ASSUME NEW p \in Procs, WorkerReturns(p) PROVE StoreTyped'
  BY <1>28 DEF WorkerReturns, database, GoalInv, TypeOK, StoreTyped
<1>29. ASSUME NEW p \in Procs, WorkUnsigned(p) PROVE StoreTyped'
  BY <1>29 DEF WorkUnsigned, database, GoalInv, TypeOK, StoreTyped
<1>30. ASSUME NEW p \in Procs, ReadAfter(p) PROVE StoreTyped'
  BY <1>30 DEF ReadAfter, database, GoalInv, TypeOK, StoreTyped
<1>31. ASSUME NEW p \in Procs, ClearPid(p) PROVE StoreTyped'
  BY <1>31 DEF ClearPid, database, GoalInv, TypeOK, StoreTyped
<1>32. ASSUME NEW p \in Procs, ClaimCompletion(p) PROVE StoreTyped'
  BY <1>32, GoalAssumption DEF ClaimCompletion, GoalInv, TypeOK, StoreTyped
<1>33. ASSUME NEW p \in Procs, WorkReported(p) PROVE StoreTyped'
  BY <1>33 DEF WorkReported, database, GoalInv, TypeOK, StoreTyped
<1>34. ASSUME NEW p \in Procs, CliGrade(p) PROVE StoreTyped'
  BY <1>34 DEF CliGrade, database, GoalInv, TypeOK, StoreTyped
<1>35. ASSUME NEW p \in Procs, CliRefused(p) PROVE StoreTyped'
  BY <1>35 DEF CliRefused, database, GoalInv, TypeOK, StoreTyped
<1>36. ASSUME NEW p \in Procs, Crash(p) PROVE StoreTyped'
  BY <1>36, GoalAssumption DEF Crash, database, GoalInv, TypeOK, StoreTyped
<1>37. CASE RedefineGoal
  BY <1>37 DEF RedefineGoal, database, GoalInv, TypeOK, StoreTyped
<1>38. CASE ReportGoal
  BY <1>38 DEF ReportGoal, database, GoalInv, TypeOK, StoreTyped
<1>39. CASE EditSource
  BY <1>39 DEF EditSource, database, GoalInv, TypeOK, StoreTyped
<1>40. CASE MoveTask
  BY <1>40 DEF MoveTask, GoalInv, TypeOK, StoreTyped
<1> QED
  BY <1>1, <1>2, <1>3, <1>4, <1>5, <1>6, <1>7, <1>8, <1>9, <1>10, <1>11, <1>12, <1>13,
     <1>14, <1>15, <1>16, <1>17, <1>18, <1>19, <1>20, <1>21, <1>22, <1>23, <1>24, <1>25,
     <1>26, <1>27, <1>28, <1>29, <1>30, <1>31, <1>32, <1>33, <1>34, <1>35, <1>36, <1>37,
     <1>38, <1>39, <1>40 DEF Next, Run, Enter, Review, Grade, Work

(* The part of TypeOK about the processes and their locks. *)
ControlTyped ==
  /\ fence \in Procs \cup {None, Dead}
  /\ lock \in Procs \cup {None}
  /\ pc \in [Procs -> PCs]
  /\ snap \in [Procs -> [epoch : 0..MaxEpoch, pending : Pending]]
  /\ local \in [Procs -> Local]

(* The processes and their locks keep their types. *)
LEMMA ControlType ==
  ASSUME GoalInv, Next
  PROVE  ControlTyped'
<1>1. ASSUME NEW p \in Procs, StartCycle(p) PROVE ControlTyped'
  <2>1. local[p] \in Local /\ Len(commits) \in Nat
    BY DEF GoalInv, TypeOK
  <2>2. [local[p] EXCEPT !.commit = Len(commits)] \in Local
    BY <2>1, LocalPatches
  <2> QED
    BY <1>1, <2>2 DEF StartCycle, Goto, PCs, GoalInv, TypeOK, ControlTyped
<1>2. ASSUME NEW p \in Procs, recoverSupervisorCompletion(p) PROVE ControlTyped'
  <2>1. local[p] \in Local
    BY DEF GoalInv, TypeOK
  <2>2. [local[p] EXCEPT !.commit = 0] \in Local
    BY <2>1, LocalPatches
  <2> QED
    BY <1>2, <2>2 DEF recoverSupervisorCompletion, Goto, PCs, GoalInv, TypeOK, ControlTyped
<1>3. ASSUME NEW p \in Procs, ReadGoal(p) PROVE ControlTyped'
  <2>1. Seen(goal) \in [epoch : 0..MaxEpoch, pending : Pending]
    BY PatchTypes DEF GoalInv, TypeOK
  <2> QED
    BY <1>3, <2>1, LeaveTypes DEF ReadGoal, Goto, PCs, GoalInv, TypeOK, ControlTyped
<1>4. ASSUME NEW p \in Procs, TakeFence(p) PROVE ControlTyped'
  BY <1>4 DEF TakeFence, Goto, PCs, GoalInv, TypeOK, ControlTyped
<1>5. ASSUME NEW p \in Procs, RefusedFence(p) PROVE ControlTyped'
  BY <1>5, LeaveTypes DEF RefusedFence, GoalInv, TypeOK, ControlTyped
<1>6. ASSUME NEW p \in Procs, ReviewStale(p) PROVE ControlTyped'
  BY <1>6, LeaveTypes DEF ReviewStale, GoalInv, TypeOK, ControlTyped
<1>7. ASSUME NEW p \in Procs, recoverAbandonedReviewDispatch(p) PROVE ControlTyped'
  BY <1>7, LeaveTypes DEF recoverAbandonedReviewDispatch, GoalInv, TypeOK, ControlTyped
<1>8. ASSUME NEW p \in Procs, ReviewExhausted(p) PROVE ControlTyped'
  BY <1>8, LeaveTypes DEF ReviewExhausted, GoalInv, TypeOK, ControlTyped
<1>9. ASSUME NEW p \in Procs, ReviewWaits(p) PROVE ControlTyped'
  BY <1>9, LeaveTypes DEF ReviewWaits, GoalInv, TypeOK, ControlTyped
<1>10. ASSUME NEW p \in Procs, CreateReviewRun(p) PROVE ControlTyped'
  <2>1. local[p] \in Local /\ Len(dispatches) + 1 \in 0..MaxDispatches
    BY <1>10, GoalAssumption DEF CreateReviewRun, GoalInv, TypeOK
  <2>2. [local[p] EXCEPT !.dispatch = Len(dispatches) + 1] \in Local
    BY <2>1, LocalPatches
  <2> QED
    BY <1>10, <2>2 DEF CreateReviewRun, Goto, PCs, GoalInv, TypeOK, ControlTyped
<1>11. ASSUME NEW p \in Procs, DispatchReview(p) PROVE ControlTyped'
  BY <1>11 DEF DispatchReview, Goto, PCs, GoalInv, TypeOK, ControlTyped
<1>12. ASSUME NEW p \in Procs, ReviewerReturns(p) PROVE ControlTyped'
  <2>1. local[p] \in Local /\ pc \in [Procs -> PCs] /\ local \in [Procs -> Local]
    BY DEF GoalInv, TypeOK
  <2>2. PICK r \in Results : local' = [local EXCEPT ![p] = [local[p] EXCEPT !.result = r]]
    BY <1>12, <2>1 DEF ReviewerReturns, GoalInv, TypeOK, Results
  <2>3. [local[p] EXCEPT !.result = r] \in Local
    BY <2>1, <2>2, LocalPatches DEF GoalInv, TypeOK
  <2> QED
    BY <1>12, <2>1, <2>2, <2>3 DEF ReviewerReturns, Goto, PCs, GoalInv, TypeOK, ControlTyped
<1>13. ASSUME NEW p \in Procs, recordInconclusiveReviewAttempt(p) PROVE ControlTyped'
  BY <1>13, LeaveTypes DEF recordInconclusiveReviewAttempt, GoalInv, TypeOK, ControlTyped
<1>14. ASSUME NEW p \in Procs, ReviewUnbound(p) PROVE ControlTyped'
  BY <1>14, LeaveTypes DEF ReviewUnbound, GoalInv, TypeOK, ControlTyped
<1>15. ASSUME NEW p \in Procs, postReviewSourceChange(p) PROVE ControlTyped'
  BY <1>15, LeaveTypes DEF postReviewSourceChange, GoalInv, TypeOK, ControlTyped
<1>16. ASSUME NEW p \in Procs, recordIndependentReviewExecution(p) PROVE ControlTyped'
  BY <1>16, GoalAssumption DEF recordIndependentReviewExecution, Goto, PCs, GoalInv, TypeOK,
     ControlTyped, Local, Results
<1>17. ASSUME NEW p \in Procs, GradeRefused(p) PROVE ControlTyped'
  BY <1>17, LeaveTypes DEF GradeRefused, Throw, GoalInv, TypeOK, ControlTyped
<1>18. ASSUME NEW p \in Procs, GradeBegin(p) PROVE ControlTyped'
  BY <1>18 DEF GradeBegin, Goto, PCs, GoalInv, TypeOK, ControlTyped
<1>19. ASSUME NEW p \in Procs, GradeReopens(p) PROVE ControlTyped'
  BY <1>19, LeaveTypes DEF GradeReopens, Throw, GoalInv, TypeOK, ControlTyped
<1>20. ASSUME NEW p \in Procs, CommitGrade(p) PROVE ControlTyped'
  BY <1>20 DEF CommitGrade, Goto, PCs, GoalInv, TypeOK, ControlTyped
<1>21. ASSUME NEW p \in Procs, CommitFenced(p) PROVE ControlTyped'
  BY <1>21, LeaveTypes DEF CommitFenced, Throw, GoalInv, TypeOK, ControlTyped
<1>22. ASSUME NEW p \in Procs, WriteGoal(p) PROVE ControlTyped'
  BY <1>22, LeaveTypes DEF WriteGoal, GoalInv, TypeOK, ControlTyped
<1>23. ASSUME NEW p \in Procs, WorkCheckpoint(p) PROVE ControlTyped'
  BY <1>23, LeaveTypes DEF WorkCheckpoint, GoalInv, TypeOK, ControlTyped
<1>24. ASSUME NEW p \in Procs, freezeSupervisorCandidate(p) PROVE ControlTyped'
  <2>1. local[p] \in Local /\ source \in Sources /\ (task = "ready") \in BOOLEAN
    BY DEF GoalInv, TypeOK
  <2>2. [local[p] EXCEPT !.src = source, !.task = (task = "ready")] \in Local
    BY <2>1, LocalPatches
  <2> QED
    BY <1>24, <2>2 DEF freezeSupervisorCandidate, Goto, PCs, GoalInv, TypeOK, ControlTyped
<1>25. ASSUME NEW p \in Procs, StartWork(p) PROVE ControlTyped'
  BY <1>25 DEF StartWork, Goto, PCs, GoalInv, TypeOK, ControlTyped
<1>26. ASSUME NEW p \in Procs, DispatchRefused(p) PROVE ControlTyped'
  BY <1>26, LeaveTypes DEF DispatchRefused, GoalInv, TypeOK, ControlTyped
<1>27. ASSUME NEW p \in Procs, DispatchWorker(p) PROVE ControlTyped'
  BY <1>27, LeaveTypes DEF DispatchWorker, Throw, Goto, PCs, GoalInv, TypeOK, ControlTyped
<1>28. ASSUME NEW p \in Procs, WorkerReturns(p) PROVE ControlTyped'
  <2>1. local[p] \in Local /\ pc \in [Procs -> PCs] /\ local \in [Procs -> Local]
    BY DEF GoalInv, TypeOK
  <2>2. PICK r \in Results : local' = [local EXCEPT ![p] = [local[p] EXCEPT !.result = r]]
    BY <1>28, <2>1 DEF WorkerReturns, GoalInv, TypeOK, Results
  <2>3. [local[p] EXCEPT !.result = r] \in Local
    BY <2>1, <2>2, LocalPatches DEF GoalInv, TypeOK
  <2> QED
    BY <1>28, <2>1, <2>2, <2>3 DEF WorkerReturns, Goto, PCs, GoalInv, TypeOK, ControlTyped
<1>29. ASSUME NEW p \in Procs, WorkUnsigned(p) PROVE ControlTyped'
  BY <1>29, LeaveTypes DEF WorkUnsigned, GoalInv, TypeOK, ControlTyped
<1>30. ASSUME NEW p \in Procs, ReadAfter(p) PROVE ControlTyped'
  <2>1. local[p] \in Local
    BY DEF GoalInv, TypeOK
  <2>2. [local[p] EXCEPT !.result = "more"] \in Local
    BY <2>1, LocalPatches DEF Results
  <2>3. [local[p] EXCEPT !.result = local[p].result] \in Local
    BY <2>1, LocalPatches DEF Local
  <2> QED
    BY <1>30, <2>2, <2>3 DEF ReadAfter, Goto, PCs, GoalInv, TypeOK, ControlTyped
<1>31. ASSUME NEW p \in Procs, ClearPid(p) PROVE ControlTyped'
  BY <1>31, LeaveTypes DEF ClearPid, GoalInv, TypeOK, ControlTyped
<1>32. ASSUME NEW p \in Procs, ClaimCompletion(p) PROVE ControlTyped'
  BY <1>32, LeaveTypes DEF ClaimCompletion, GoalInv, TypeOK, ControlTyped
<1>33. ASSUME NEW p \in Procs, WorkReported(p) PROVE ControlTyped'
  BY <1>33, LeaveTypes DEF WorkReported, GoalInv, TypeOK, ControlTyped
<1>34. ASSUME NEW p \in Procs, CliGrade(p) PROVE ControlTyped'
  <2>1. PICK d \in 1..Len(dispatches) : local' = [local EXCEPT ![p].dispatch = d]
    BY <1>34 DEF CliGrade
  <2>2. local[p] \in Local /\ d \in 0..MaxDispatches
    BY <2>1, GoalAssumption DEF GoalInv, TypeOK
  <2>3. [local[p] EXCEPT !.dispatch = d] \in Local
    BY <2>2, LocalPatches
  <2>4. local' \in [Procs -> Local]
    BY <2>1, <2>3 DEF GoalInv, TypeOK
  <2> QED
    BY <1>34, <2>4 DEF CliGrade, Goto, PCs, GoalInv, TypeOK, ControlTyped
<1>35. ASSUME NEW p \in Procs, CliRefused(p) PROVE ControlTyped'
  BY <1>35, LeaveTypes DEF CliRefused, GoalInv, TypeOK, ControlTyped
<1>36. ASSUME NEW p \in Procs, Crash(p) PROVE ControlTyped'
  <2>1. Seen(FirstGoal) \in [epoch : 0..MaxEpoch, pending : Pending] /\ Fresh \in Local
    <3>1. FirstGoal \in Goal
      BY PatchTypes DEF GoalInv, TypeOK
    <3> QED
      BY <3>1, PatchTypes, GoalAssumption DEF Fresh, Local, Results
  <2> QED
    BY <1>36, <2>1 DEF Crash, Goto, PCs, GoalInv, TypeOK, ControlTyped
<1>37. CASE RedefineGoal
  BY <1>37, LeaveTypes DEF RedefineGoal, GoalInv, TypeOK, ControlTyped
<1>38. CASE ReportGoal
  BY <1>38, LeaveTypes DEF ReportGoal, GoalInv, TypeOK, ControlTyped
<1>39. CASE EditSource
  BY <1>39, LeaveTypes DEF EditSource, GoalInv, TypeOK, ControlTyped
<1>40. CASE MoveTask
  BY <1>40, LeaveTypes DEF MoveTask, GoalInv, TypeOK, ControlTyped
<1> QED
  BY <1>1, <1>2, <1>3, <1>4, <1>5, <1>6, <1>7, <1>8, <1>9, <1>10, <1>11, <1>12, <1>13,
     <1>14, <1>15, <1>16, <1>17, <1>18, <1>19, <1>20, <1>21, <1>22, <1>23, <1>24, <1>25,
     <1>26, <1>27, <1>28, <1>29, <1>30, <1>31, <1>32, <1>33, <1>34, <1>35, <1>36, <1>37,
     <1>38, <1>39, <1>40 DEF Next, Run, Enter, Review, Grade, Work

(* The state lock is taken with the transaction and left with the write. *)
LEMMA LockStep ==
  ASSUME GoalInv, Next
  PROVE  LockHeld'
<1>1. ASSUME NEW p \in Procs, StartCycle(p) PROVE LockHeld'
  BY <1>1, GoalAssumption DEF StartCycle, Goto, GoalInv, TypeOK, PCs, LockHeld
<1>2. ASSUME NEW p \in Procs, recoverSupervisorCompletion(p) PROVE LockHeld'
  BY <1>2, GoalAssumption DEF recoverSupervisorCompletion, Goto, CanWrite, GoalInv, TypeOK,
     PCs, LockHeld
<1>3. ASSUME NEW p \in Procs, ReadGoal(p) PROVE LockHeld'
  BY <1>3, GoalAssumption DEF ReadGoal, Leave, Goto, Fresh, GoalInv, TypeOK, PCs, LockHeld
<1>4. ASSUME NEW p \in Procs, TakeFence(p) PROVE LockHeld'
  BY <1>4, GoalAssumption DEF TakeFence, Goto, GoalInv, TypeOK, PCs, LockHeld
<1>5. ASSUME NEW p \in Procs, RefusedFence(p) PROVE LockHeld'
  BY <1>5, GoalAssumption DEF RefusedFence, Leave, Goto, Fresh, GoalInv, TypeOK, PCs,
     LockHeld
<1>6. ASSUME NEW p \in Procs, ReviewStale(p) PROVE LockHeld'
  BY <1>6, GoalAssumption DEF ReviewStale, Leave, Goto, CanWrite, Fresh, GoalInv, TypeOK,
     PCs, LockHeld
<1>7. ASSUME NEW p \in Procs, recoverAbandonedReviewDispatch(p) PROVE LockHeld'
  BY <1>7, GoalAssumption DEF recoverAbandonedReviewDispatch, Leave, Goto, CanWrite, Fresh,
     GoalInv, TypeOK, PCs, LockHeld
<1>8. ASSUME NEW p \in Procs, ReviewExhausted(p) PROVE LockHeld'
  BY <1>8, GoalAssumption DEF ReviewExhausted, Leave, Goto, CanWrite, Fresh, GoalInv,
     TypeOK, PCs, LockHeld
<1>9. ASSUME NEW p \in Procs, ReviewWaits(p) PROVE LockHeld'
  BY <1>9, GoalAssumption DEF ReviewWaits, Leave, Goto, CanWrite, Fresh, GoalInv, TypeOK,
     PCs, LockHeld
<1>10. ASSUME NEW p \in Procs, CreateReviewRun(p) PROVE LockHeld'
  BY <1>10, GoalAssumption DEF CreateReviewRun, Goto, GoalInv, TypeOK, PCs, LockHeld
<1>11. ASSUME NEW p \in Procs, DispatchReview(p) PROVE LockHeld'
  BY <1>11, GoalAssumption DEF DispatchReview, Goto, CanWrite, GoalInv, TypeOK, PCs,
     LockHeld
<1>12. ASSUME NEW p \in Procs, ReviewerReturns(p) PROVE LockHeld'
  BY <1>12, GoalAssumption DEF ReviewerReturns, Goto, GoalInv, TypeOK, PCs, LockHeld
<1>13. ASSUME NEW p \in Procs, recordInconclusiveReviewAttempt(p) PROVE LockHeld'
  BY <1>13, GoalAssumption DEF recordInconclusiveReviewAttempt, Leave, Goto, CanWrite,
     Fresh, GoalInv, TypeOK, PCs, LockHeld
<1>14. ASSUME NEW p \in Procs, ReviewUnbound(p) PROVE LockHeld'
  BY <1>14, GoalAssumption DEF ReviewUnbound, Leave, Goto, CanWrite, Fresh, GoalInv, TypeOK,
     PCs, LockHeld
<1>15. ASSUME NEW p \in Procs, postReviewSourceChange(p) PROVE LockHeld'
  BY <1>15, GoalAssumption DEF postReviewSourceChange, Leave, Goto, CanWrite, Fresh,
     GoalInv, TypeOK, PCs, LockHeld
<1>16. ASSUME NEW p \in Procs, recordIndependentReviewExecution(p) PROVE LockHeld'
  BY <1>16, GoalAssumption DEF recordIndependentReviewExecution, Goto, GoalInv, TypeOK, PCs,
     LockHeld
<1>17. ASSUME NEW p \in Procs, GradeRefused(p) PROVE LockHeld'
  BY <1>17, GoalAssumption DEF GradeRefused, Throw, Leave, Goto, CanWrite, Fresh, GoalInv,
     TypeOK, PCs, LockHeld
<1>18. ASSUME NEW p \in Procs, GradeBegin(p) PROVE LockHeld'
  BY <1>18, GoalAssumption DEF GradeBegin, Goto, CanWrite, GoalInv, TypeOK, PCs, LockHeld
<1>19. ASSUME NEW p \in Procs, GradeReopens(p) PROVE LockHeld'
  BY <1>19, GoalAssumption DEF GradeReopens, Throw, Leave, Goto, CanWrite, Fresh, GoalInv,
     TypeOK, PCs, LockHeld
<1>20. ASSUME NEW p \in Procs, CommitGrade(p) PROVE LockHeld'
  BY <1>20, GoalAssumption DEF CommitGrade, Goto, GoalInv, TypeOK, PCs, LockHeld
<1>21. ASSUME NEW p \in Procs, CommitFenced(p) PROVE LockHeld'
  BY <1>21, GoalAssumption DEF CommitFenced, Throw, Leave, Goto, Fresh, GoalInv, TypeOK,
     PCs, LockHeld
<1>22. ASSUME NEW p \in Procs, WriteGoal(p) PROVE LockHeld'
  BY <1>22, GoalAssumption DEF WriteGoal, Leave, Goto, Fresh, GoalInv, TypeOK, PCs, LockHeld
<1>23. ASSUME NEW p \in Procs, WorkCheckpoint(p) PROVE LockHeld'
  BY <1>23, GoalAssumption DEF WorkCheckpoint, Leave, Goto, CanWrite, Fresh, GoalInv,
     TypeOK, PCs, LockHeld
<1>24. ASSUME NEW p \in Procs, freezeSupervisorCandidate(p) PROVE LockHeld'
  BY <1>24, GoalAssumption DEF freezeSupervisorCandidate, Goto, GoalInv, TypeOK, PCs,
     LockHeld
<1>25. ASSUME NEW p \in Procs, StartWork(p) PROVE LockHeld'
  BY <1>25, GoalAssumption DEF StartWork, Goto, CanWrite, GoalInv, TypeOK, PCs, LockHeld
<1>26. ASSUME NEW p \in Procs, DispatchRefused(p) PROVE LockHeld'
  BY <1>26, GoalAssumption DEF DispatchRefused, Leave, Goto, CanWrite, Fresh, GoalInv,
     TypeOK, PCs, LockHeld
<1>27. ASSUME NEW p \in Procs, DispatchWorker(p) PROVE LockHeld'
  BY <1>27, GoalAssumption DEF DispatchWorker, Throw, Leave, Goto, Fresh, GoalInv, TypeOK,
     PCs, LockHeld
<1>28. ASSUME NEW p \in Procs, WorkerReturns(p) PROVE LockHeld'
  BY <1>28, GoalAssumption DEF WorkerReturns, Goto, GoalInv, TypeOK, PCs, LockHeld
<1>29. ASSUME NEW p \in Procs, WorkUnsigned(p) PROVE LockHeld'
  BY <1>29, GoalAssumption DEF WorkUnsigned, Leave, Goto, CanWrite, Fresh, GoalInv, TypeOK,
     PCs, LockHeld
<1>30. ASSUME NEW p \in Procs, ReadAfter(p) PROVE LockHeld'
  BY <1>30, GoalAssumption DEF ReadAfter, Goto, GoalInv, TypeOK, PCs, LockHeld
<1>31. ASSUME NEW p \in Procs, ClearPid(p) PROVE LockHeld'
  BY <1>31, GoalAssumption DEF ClearPid, Leave, Goto, CanWrite, Fresh, GoalInv, TypeOK, PCs,
     LockHeld
<1>32. ASSUME NEW p \in Procs, ClaimCompletion(p) PROVE LockHeld'
  BY <1>32, GoalAssumption DEF ClaimCompletion, Leave, Goto, CanWrite, Fresh, GoalInv,
     TypeOK, PCs, LockHeld
<1>33. ASSUME NEW p \in Procs, WorkReported(p) PROVE LockHeld'
  BY <1>33, GoalAssumption DEF WorkReported, Leave, Goto, CanWrite, Fresh, GoalInv, TypeOK,
     PCs, LockHeld
<1>34. ASSUME NEW p \in Procs, CliGrade(p) PROVE LockHeld'
  BY <1>34, GoalAssumption DEF CliGrade, Goto, GoalInv, TypeOK, PCs, LockHeld
<1>35. ASSUME NEW p \in Procs, CliRefused(p) PROVE LockHeld'
  BY <1>35, GoalAssumption DEF CliRefused, GoalInv, TypeOK, PCs, LockHeld
<1>36. ASSUME NEW p \in Procs, Crash(p) PROVE LockHeld'
  BY <1>36, GoalAssumption DEF Crash, Goto, Fresh, GoalInv, TypeOK, PCs, LockHeld
<1>37. CASE RedefineGoal
  BY <1>37, GoalAssumption DEF RedefineGoal, CanWrite, GoalInv, TypeOK, PCs, LockHeld
<1>38. CASE ReportGoal
  BY <1>38, GoalAssumption DEF ReportGoal, CanWrite, GoalInv, TypeOK, PCs, LockHeld
<1>39. CASE EditSource
  BY <1>39, GoalAssumption DEF EditSource, GoalInv, TypeOK, PCs, LockHeld
<1>40. CASE MoveTask
  BY <1>40, GoalAssumption DEF MoveTask, GoalInv, TypeOK, PCs, LockHeld
<1> QED
  BY <1>1, <1>2, <1>3, <1>4, <1>5, <1>6, <1>7, <1>8, <1>9, <1>10, <1>11, <1>12, <1>13,
     <1>14, <1>15, <1>16, <1>17, <1>18, <1>19, <1>20, <1>21, <1>22, <1>23, <1>24, <1>25,
     <1>26, <1>27, <1>28, <1>29, <1>30, <1>31, <1>32, <1>33, <1>34, <1>35, <1>36, <1>37,
     <1>38, <1>39, <1>40 DEF Next, Run, Enter, Review, Grade, Work

(* The work steps keep the frozen source. *)
LEMMA FrozenStep ==
  ASSUME GoalInv, Next
  PROVE  Frozen'
<1>1. ASSUME NEW p \in Procs, StartCycle(p) PROVE Frozen'
  BY <1>1 DEF StartCycle, Goto, GoalInv, TypeOK, PCs, Frozen
<1>2. ASSUME NEW p \in Procs, recoverSupervisorCompletion(p) PROVE Frozen'
  BY <1>2 DEF recoverSupervisorCompletion, Goto, CanWrite, GoalInv, TypeOK, PCs, Frozen
<1>3. ASSUME NEW p \in Procs, ReadGoal(p) PROVE Frozen'
  BY <1>3 DEF ReadGoal, Leave, Goto, Fresh, GoalInv, TypeOK, PCs, Frozen
<1>4. ASSUME NEW p \in Procs, TakeFence(p) PROVE Frozen'
  BY <1>4 DEF TakeFence, Goto, GoalInv, TypeOK, PCs, Frozen
<1>5. ASSUME NEW p \in Procs, RefusedFence(p) PROVE Frozen'
  BY <1>5 DEF RefusedFence, Leave, Goto, Fresh, GoalInv, TypeOK, PCs, Frozen
<1>6. ASSUME NEW p \in Procs, ReviewStale(p) PROVE Frozen'
  BY <1>6 DEF ReviewStale, Leave, Goto, CanWrite, Fresh, GoalInv, TypeOK, PCs, Frozen
<1>7. ASSUME NEW p \in Procs, recoverAbandonedReviewDispatch(p) PROVE Frozen'
  BY <1>7 DEF recoverAbandonedReviewDispatch, Leave, Goto, CanWrite, Fresh, GoalInv, TypeOK,
     PCs, Frozen
<1>8. ASSUME NEW p \in Procs, ReviewExhausted(p) PROVE Frozen'
  BY <1>8 DEF ReviewExhausted, Leave, Goto, CanWrite, Fresh, GoalInv, TypeOK, PCs, Frozen
<1>9. ASSUME NEW p \in Procs, ReviewWaits(p) PROVE Frozen'
  BY <1>9 DEF ReviewWaits, Leave, Goto, CanWrite, Fresh, GoalInv, TypeOK, PCs, Frozen
<1>10. ASSUME NEW p \in Procs, CreateReviewRun(p) PROVE Frozen'
  BY <1>10 DEF CreateReviewRun, Goto, GoalInv, TypeOK, PCs, Frozen
<1>11. ASSUME NEW p \in Procs, DispatchReview(p) PROVE Frozen'
  BY <1>11 DEF DispatchReview, Goto, CanWrite, GoalInv, TypeOK, PCs, Frozen
<1>12. ASSUME NEW p \in Procs, ReviewerReturns(p) PROVE Frozen'
  BY <1>12 DEF ReviewerReturns, Goto, GoalInv, TypeOK, PCs, Frozen
<1>13. ASSUME NEW p \in Procs, recordInconclusiveReviewAttempt(p) PROVE Frozen'
  BY <1>13 DEF recordInconclusiveReviewAttempt, Leave, Goto, CanWrite, Fresh, GoalInv,
     TypeOK, PCs, Frozen
<1>14. ASSUME NEW p \in Procs, ReviewUnbound(p) PROVE Frozen'
  BY <1>14 DEF ReviewUnbound, Leave, Goto, CanWrite, Fresh, GoalInv, TypeOK, PCs, Frozen
<1>15. ASSUME NEW p \in Procs, postReviewSourceChange(p) PROVE Frozen'
  BY <1>15 DEF postReviewSourceChange, Leave, Goto, CanWrite, Fresh, GoalInv, TypeOK, PCs,
     Frozen
<1>16. ASSUME NEW p \in Procs, recordIndependentReviewExecution(p) PROVE Frozen'
  BY <1>16 DEF recordIndependentReviewExecution, Goto, GoalInv, TypeOK, PCs, Frozen
<1>17. ASSUME NEW p \in Procs, GradeRefused(p) PROVE Frozen'
  BY <1>17 DEF GradeRefused, Throw, Leave, Goto, CanWrite, Fresh, GoalInv, TypeOK, PCs,
     Frozen
<1>18. ASSUME NEW p \in Procs, GradeBegin(p) PROVE Frozen'
  BY <1>18 DEF GradeBegin, Goto, CanWrite, GoalInv, TypeOK, PCs, Frozen
<1>19. ASSUME NEW p \in Procs, GradeReopens(p) PROVE Frozen'
  BY <1>19 DEF GradeReopens, Throw, Leave, Goto, CanWrite, Fresh, GoalInv, TypeOK, PCs,
     Frozen
<1>20. ASSUME NEW p \in Procs, CommitGrade(p) PROVE Frozen'
  BY <1>20 DEF CommitGrade, Goto, GoalInv, TypeOK, PCs, Frozen
<1>21. ASSUME NEW p \in Procs, CommitFenced(p) PROVE Frozen'
  BY <1>21 DEF CommitFenced, Throw, Leave, Goto, Fresh, GoalInv, TypeOK, PCs, Frozen
<1>22. ASSUME NEW p \in Procs, WriteGoal(p) PROVE Frozen'
  BY <1>22 DEF WriteGoal, Leave, Goto, Fresh, GoalInv, TypeOK, PCs, Frozen
<1>23. ASSUME NEW p \in Procs, WorkCheckpoint(p) PROVE Frozen'
  BY <1>23 DEF WorkCheckpoint, Leave, Goto, CanWrite, Fresh, GoalInv, TypeOK, PCs, Frozen
<1>24. ASSUME NEW p \in Procs, freezeSupervisorCandidate(p) PROVE Frozen'
  BY <1>24 DEF freezeSupervisorCandidate, Goto, GoalInv, TypeOK, PCs, Frozen
<1>25. ASSUME NEW p \in Procs, StartWork(p) PROVE Frozen'
  BY <1>25 DEF StartWork, Goto, CanWrite, GoalInv, TypeOK, PCs, Frozen
<1>26. ASSUME NEW p \in Procs, DispatchRefused(p) PROVE Frozen'
  BY <1>26 DEF DispatchRefused, Leave, Goto, CanWrite, Fresh, GoalInv, TypeOK, PCs, Frozen
<1>27. ASSUME NEW p \in Procs, DispatchWorker(p) PROVE Frozen'
  BY <1>27 DEF DispatchWorker, Throw, Leave, Goto, Fresh, GoalInv, TypeOK, PCs, Frozen
<1>28. ASSUME NEW p \in Procs, WorkerReturns(p) PROVE Frozen'
  BY <1>28 DEF WorkerReturns, Goto, GoalInv, TypeOK, PCs, Frozen
<1>29. ASSUME NEW p \in Procs, WorkUnsigned(p) PROVE Frozen'
  BY <1>29 DEF WorkUnsigned, Leave, Goto, CanWrite, Fresh, GoalInv, TypeOK, PCs, Frozen
<1>30. ASSUME NEW p \in Procs, ReadAfter(p) PROVE Frozen'
  BY <1>30 DEF ReadAfter, Goto, GoalInv, TypeOK, PCs, Frozen
<1>31. ASSUME NEW p \in Procs, ClearPid(p) PROVE Frozen'
  BY <1>31 DEF ClearPid, Leave, Goto, CanWrite, Fresh, GoalInv, TypeOK, PCs, Frozen
<1>32. ASSUME NEW p \in Procs, ClaimCompletion(p) PROVE Frozen'
  BY <1>32 DEF ClaimCompletion, Leave, Goto, CanWrite, Fresh, GoalInv, TypeOK, PCs, Frozen
<1>33. ASSUME NEW p \in Procs, WorkReported(p) PROVE Frozen'
  BY <1>33 DEF WorkReported, Leave, Goto, CanWrite, Fresh, GoalInv, TypeOK, PCs, Frozen
<1>34. ASSUME NEW p \in Procs, CliGrade(p) PROVE Frozen'
  BY <1>34 DEF CliGrade, Goto, GoalInv, TypeOK, PCs, Frozen
<1>35. ASSUME NEW p \in Procs, CliRefused(p) PROVE Frozen'
  BY <1>35 DEF CliRefused, GoalInv, TypeOK, PCs, Frozen
<1>36. ASSUME NEW p \in Procs, Crash(p) PROVE Frozen'
  BY <1>36 DEF Crash, Goto, Fresh, GoalInv, TypeOK, PCs, Frozen
<1>37. CASE RedefineGoal
  BY <1>37 DEF RedefineGoal, CanWrite, GoalInv, TypeOK, PCs, Frozen
<1>38. CASE ReportGoal
  BY <1>38 DEF ReportGoal, CanWrite, GoalInv, TypeOK, PCs, Frozen
<1>39. CASE EditSource
  BY <1>39 DEF EditSource, GoalInv, TypeOK, PCs, Frozen
<1>40. CASE MoveTask
  BY <1>40 DEF MoveTask, GoalInv, TypeOK, PCs, Frozen
<1> QED
  BY <1>1, <1>2, <1>3, <1>4, <1>5, <1>6, <1>7, <1>8, <1>9, <1>10, <1>11, <1>12, <1>13,
     <1>14, <1>15, <1>16, <1>17, <1>18, <1>19, <1>20, <1>21, <1>22, <1>23, <1>24, <1>25,
     <1>26, <1>27, <1>28, <1>29, <1>30, <1>31, <1>32, <1>33, <1>34, <1>35, <1>36, <1>37,
     <1>38, <1>39, <1>40 DEF Next, Run, Enter, Review, Grade, Work

(* What a step leaves of the records: dispatches keep their claim and, once they have *)
(* one, their verdict; commits stay. *)
HistoryKept ==
  /\ Len(dispatches) <= Len(dispatches') /\ Len(commits) <= Len(commits')
  /\ \A d \in 1..Len(dispatches) :
       /\ dispatches'[d].claim = dispatches[d].claim
       /\ dispatches[d].verdict # "none" => dispatches'[d].verdict = dispatches[d].verdict
  /\ \A i \in 1..Len(commits) : commits'[i] = commits[i]

(* A receipt is recorded once and a commit is never changed. *)
LEMMA HistoryStep ==
  ASSUME GoalInv, Next
  PROVE  HistoryKept
<1>1. ASSUME NEW p \in Procs, StartCycle(p) PROVE HistoryKept
  BY <1>1 DEF StartCycle, database, HistoryKept
<1>2. ASSUME NEW p \in Procs, recoverSupervisorCompletion(p) PROVE HistoryKept
  BY <1>2 DEF recoverSupervisorCompletion, database, HistoryKept
<1>3. ASSUME NEW p \in Procs, ReadGoal(p) PROVE HistoryKept
  BY <1>3 DEF ReadGoal, database, HistoryKept
<1>4. ASSUME NEW p \in Procs, TakeFence(p) PROVE HistoryKept
  BY <1>4 DEF TakeFence, database, HistoryKept
<1>5. ASSUME NEW p \in Procs, RefusedFence(p) PROVE HistoryKept
  BY <1>5 DEF RefusedFence, database, HistoryKept
<1>6. ASSUME NEW p \in Procs, ReviewStale(p) PROVE HistoryKept
  BY <1>6 DEF ReviewStale, database, HistoryKept
<1>7. ASSUME NEW p \in Procs, recoverAbandonedReviewDispatch(p) PROVE HistoryKept
  BY <1>7 DEF recoverAbandonedReviewDispatch, GoalInv, TypeOK, HistoryKept, Dispatch
<1>8. ASSUME NEW p \in Procs, ReviewExhausted(p) PROVE HistoryKept
  BY <1>8 DEF ReviewExhausted, database, HistoryKept
<1>9. ASSUME NEW p \in Procs, ReviewWaits(p) PROVE HistoryKept
  BY <1>9 DEF ReviewWaits, database, HistoryKept
<1>10. ASSUME NEW p \in Procs, CreateReviewRun(p) PROVE HistoryKept
  BY <1>10 DEF CreateReviewRun, GoalInv, TypeOK, HistoryKept
<1>11. ASSUME NEW p \in Procs, DispatchReview(p) PROVE HistoryKept
  BY <1>11 DEF DispatchReview, database, HistoryKept
<1>12. ASSUME NEW p \in Procs, ReviewerReturns(p) PROVE HistoryKept
  BY <1>12 DEF ReviewerReturns, GoalInv, TypeOK, HistoryKept, Dispatch
<1>13. ASSUME NEW p \in Procs, recordInconclusiveReviewAttempt(p) PROVE HistoryKept
  BY <1>13 DEF recordInconclusiveReviewAttempt, database, HistoryKept
<1>14. ASSUME NEW p \in Procs, ReviewUnbound(p) PROVE HistoryKept
  BY <1>14 DEF ReviewUnbound, database, HistoryKept
<1>15. ASSUME NEW p \in Procs, postReviewSourceChange(p) PROVE HistoryKept
  BY <1>15 DEF postReviewSourceChange, database, HistoryKept
<1>16. ASSUME NEW p \in Procs, recordIndependentReviewExecution(p) PROVE HistoryKept
  <2>1. dispatches[local[p].dispatch].verdict = "none"
    BY <1>16 DEF recordIndependentReviewExecution, GoalInv, ReviewOwned, Reviewing
  <2> QED
    BY <1>16, <2>1, SMTT(30) DEF recordIndependentReviewExecution, GoalInv, TypeOK, HistoryKept,
       Dispatch
<1>17. ASSUME NEW p \in Procs, GradeRefused(p) PROVE HistoryKept
  BY <1>17 DEF GradeRefused, Throw, database, HistoryKept
<1>18. ASSUME NEW p \in Procs, GradeBegin(p) PROVE HistoryKept
  BY <1>18 DEF GradeBegin, database, HistoryKept
<1>19. ASSUME NEW p \in Procs, GradeReopens(p) PROVE HistoryKept
  BY <1>19 DEF GradeReopens, Throw, database, HistoryKept
<1>20. ASSUME NEW p \in Procs, CommitGrade(p) PROVE HistoryKept
  BY <1>20 DEF CommitGrade, GoalInv, TypeOK, HistoryKept
<1>21. ASSUME NEW p \in Procs, CommitFenced(p) PROVE HistoryKept
  BY <1>21 DEF CommitFenced, Throw, database, HistoryKept
<1>22. ASSUME NEW p \in Procs, WriteGoal(p) PROVE HistoryKept
  BY <1>22 DEF WriteGoal, database, HistoryKept
<1>23. ASSUME NEW p \in Procs, WorkCheckpoint(p) PROVE HistoryKept
  BY <1>23 DEF WorkCheckpoint, database, HistoryKept
<1>24. ASSUME NEW p \in Procs, freezeSupervisorCandidate(p) PROVE HistoryKept
  BY <1>24 DEF freezeSupervisorCandidate, database, HistoryKept
<1>25. ASSUME NEW p \in Procs, StartWork(p) PROVE HistoryKept
  BY <1>25 DEF StartWork, database, HistoryKept
<1>26. ASSUME NEW p \in Procs, DispatchRefused(p) PROVE HistoryKept
  BY <1>26 DEF DispatchRefused, database, HistoryKept
<1>27. ASSUME NEW p \in Procs, DispatchWorker(p) PROVE HistoryKept
  BY <1>27 DEF DispatchWorker, Throw, database, HistoryKept
<1>28. ASSUME NEW p \in Procs, WorkerReturns(p) PROVE HistoryKept
  BY <1>28 DEF WorkerReturns, database, HistoryKept
<1>29. ASSUME NEW p \in Procs, WorkUnsigned(p) PROVE HistoryKept
  BY <1>29 DEF WorkUnsigned, database, HistoryKept
<1>30. ASSUME NEW p \in Procs, ReadAfter(p) PROVE HistoryKept
  BY <1>30 DEF ReadAfter, database, HistoryKept
<1>31. ASSUME NEW p \in Procs, ClearPid(p) PROVE HistoryKept
  BY <1>31 DEF ClearPid, database, HistoryKept
<1>32. ASSUME NEW p \in Procs, ClaimCompletion(p) PROVE HistoryKept
  BY <1>32 DEF ClaimCompletion, HistoryKept
<1>33. ASSUME NEW p \in Procs, WorkReported(p) PROVE HistoryKept
  BY <1>33 DEF WorkReported, database, HistoryKept
<1>34. ASSUME NEW p \in Procs, CliGrade(p) PROVE HistoryKept
  BY <1>34 DEF CliGrade, database, HistoryKept
<1>35. ASSUME NEW p \in Procs, CliRefused(p) PROVE HistoryKept
  BY <1>35 DEF CliRefused, database, HistoryKept
<1>36. ASSUME NEW p \in Procs, Crash(p) PROVE HistoryKept
  BY <1>36 DEF Crash, database, HistoryKept
<1>37. CASE RedefineGoal
  BY <1>37 DEF RedefineGoal, database, HistoryKept
<1>38. CASE ReportGoal
  BY <1>38 DEF ReportGoal, database, HistoryKept
<1>39. CASE EditSource
  BY <1>39 DEF EditSource, database, HistoryKept
<1>40. CASE MoveTask
  BY <1>40 DEF MoveTask, HistoryKept
<1> QED
  BY <1>1, <1>2, <1>3, <1>4, <1>5, <1>6, <1>7, <1>8, <1>9, <1>10, <1>11, <1>12, <1>13,
     <1>14, <1>15, <1>16, <1>17, <1>18, <1>19, <1>20, <1>21, <1>22, <1>23, <1>24, <1>25,
     <1>26, <1>27, <1>28, <1>29, <1>30, <1>31, <1>32, <1>33, <1>34, <1>35, <1>36, <1>37,
     <1>38, <1>39, <1>40 DEF Next, Run, Enter, Review, Grade, Work

CommitKept ==
  \A q \in Procs : local'[q].commit \in {local[q].commit, 0, Len(commits)}

(* A process looks at the newest commit, or at none. *)
LEMMA CommitIndex ==
  ASSUME GoalInv, Next
  PROVE  CommitKept
<1>1. ASSUME NEW p \in Procs, StartCycle(p) PROVE CommitKept
  BY <1>1 DEF StartCycle, GoalInv, TypeOK, CommitKept
<1>2. ASSUME NEW p \in Procs, recoverSupervisorCompletion(p) PROVE CommitKept
  BY <1>2 DEF recoverSupervisorCompletion, GoalInv, TypeOK, CommitKept
<1>3. ASSUME NEW p \in Procs, ReadGoal(p) PROVE CommitKept
  <2>1. local' = local \/ local' = [local EXCEPT ![p] = Fresh]
    BY <1>3 DEF ReadGoal, Leave
  <2>2. Fresh.commit = 0
    BY DEF Fresh
  <2> QED
    BY <2>1, <2>2 DEF GoalInv, TypeOK, CommitKept
<1>4. ASSUME NEW p \in Procs, TakeFence(p) PROVE CommitKept
  BY <1>4 DEF TakeFence, Goto, GoalInv, TypeOK, Local, CommitKept
<1>5. ASSUME NEW p \in Procs, RefusedFence(p) PROVE CommitKept
  BY <1>5 DEF RefusedFence, Leave, Goto, Fresh, GoalInv, TypeOK, Local, CommitKept
<1>6. ASSUME NEW p \in Procs, ReviewStale(p) PROVE CommitKept
  BY <1>6 DEF ReviewStale, Leave, Goto, CanWrite, Fresh, GoalInv, TypeOK, Local, CommitKept
<1>7. ASSUME NEW p \in Procs, recoverAbandonedReviewDispatch(p) PROVE CommitKept
  BY <1>7 DEF recoverAbandonedReviewDispatch, Leave, Goto, CanWrite, Fresh, GoalInv, TypeOK,
     Local, CommitKept
<1>8. ASSUME NEW p \in Procs, ReviewExhausted(p) PROVE CommitKept
  BY <1>8 DEF ReviewExhausted, Leave, Goto, CanWrite, Fresh, GoalInv, TypeOK, Local,
     CommitKept
<1>9. ASSUME NEW p \in Procs, ReviewWaits(p) PROVE CommitKept
  BY <1>9 DEF ReviewWaits, Leave, Goto, CanWrite, Fresh, GoalInv, TypeOK, Local, CommitKept
<1>10. ASSUME NEW p \in Procs, CreateReviewRun(p) PROVE CommitKept
  BY <1>10 DEF CreateReviewRun, Goto, GoalInv, TypeOK, Local, CommitKept
<1>11. ASSUME NEW p \in Procs, DispatchReview(p) PROVE CommitKept
  BY <1>11 DEF DispatchReview, Goto, CanWrite, GoalInv, TypeOK, Local, CommitKept
<1>12. ASSUME NEW p \in Procs, ReviewerReturns(p) PROVE CommitKept
  BY <1>12 DEF ReviewerReturns, Goto, GoalInv, TypeOK, Local, CommitKept
<1>13. ASSUME NEW p \in Procs, recordInconclusiveReviewAttempt(p) PROVE CommitKept
  BY <1>13 DEF recordInconclusiveReviewAttempt, Leave, Goto, CanWrite, Fresh, GoalInv,
     TypeOK, Local, CommitKept
<1>14. ASSUME NEW p \in Procs, ReviewUnbound(p) PROVE CommitKept
  BY <1>14 DEF ReviewUnbound, Leave, Goto, CanWrite, Fresh, GoalInv, TypeOK, Local,
     CommitKept
<1>15. ASSUME NEW p \in Procs, postReviewSourceChange(p) PROVE CommitKept
  BY <1>15 DEF postReviewSourceChange, Leave, Goto, CanWrite, Fresh, GoalInv, TypeOK, Local,
     CommitKept
<1>16. ASSUME NEW p \in Procs, recordIndependentReviewExecution(p) PROVE CommitKept
  BY <1>16 DEF recordIndependentReviewExecution, Goto, GoalInv, TypeOK, Local, CommitKept
<1>17. ASSUME NEW p \in Procs, GradeRefused(p) PROVE CommitKept
  BY <1>17 DEF GradeRefused, Throw, Leave, Goto, CanWrite, Fresh, GoalInv, TypeOK, Local,
     CommitKept
<1>18. ASSUME NEW p \in Procs, GradeBegin(p) PROVE CommitKept
  BY <1>18 DEF GradeBegin, Goto, CanWrite, GoalInv, TypeOK, Local, CommitKept
<1>19. ASSUME NEW p \in Procs, GradeReopens(p) PROVE CommitKept
  BY <1>19 DEF GradeReopens, Throw, Leave, Goto, CanWrite, Fresh, GoalInv, TypeOK, Local,
     CommitKept
<1>20. ASSUME NEW p \in Procs, CommitGrade(p) PROVE CommitKept
  BY <1>20 DEF CommitGrade, Goto, GoalInv, TypeOK, Local, CommitKept
<1>21. ASSUME NEW p \in Procs, CommitFenced(p) PROVE CommitKept
  BY <1>21 DEF CommitFenced, Throw, Leave, Goto, Fresh, GoalInv, TypeOK, Local, CommitKept
<1>22. ASSUME NEW p \in Procs, WriteGoal(p) PROVE CommitKept
  BY <1>22 DEF WriteGoal, Leave, Goto, Fresh, GoalInv, TypeOK, Local, CommitKept
<1>23. ASSUME NEW p \in Procs, WorkCheckpoint(p) PROVE CommitKept
  BY <1>23 DEF WorkCheckpoint, Leave, Goto, CanWrite, Fresh, GoalInv, TypeOK, Local,
     CommitKept
<1>24. ASSUME NEW p \in Procs, freezeSupervisorCandidate(p) PROVE CommitKept
  BY <1>24 DEF freezeSupervisorCandidate, GoalInv, TypeOK, CommitKept
<1>25. ASSUME NEW p \in Procs, StartWork(p) PROVE CommitKept
  BY <1>25 DEF StartWork, Goto, CanWrite, GoalInv, TypeOK, Local, CommitKept
<1>26. ASSUME NEW p \in Procs, DispatchRefused(p) PROVE CommitKept
  BY <1>26 DEF DispatchRefused, Leave, Goto, CanWrite, Fresh, GoalInv, TypeOK, Local,
     CommitKept
<1>27. ASSUME NEW p \in Procs, DispatchWorker(p) PROVE CommitKept
  <2>1. local' = local \/ local' = [local EXCEPT ![p] = Fresh]
    BY <1>27 DEF DispatchWorker, Throw, Leave
  <2>2. Fresh.commit = 0
    BY DEF Fresh
  <2> QED
    BY <2>1, <2>2 DEF GoalInv, TypeOK, CommitKept
<1>28. ASSUME NEW p \in Procs, WorkerReturns(p) PROVE CommitKept
  BY <1>28 DEF WorkerReturns, Goto, GoalInv, TypeOK, Local, CommitKept
<1>29. ASSUME NEW p \in Procs, WorkUnsigned(p) PROVE CommitKept
  BY <1>29 DEF WorkUnsigned, Leave, Goto, CanWrite, Fresh, GoalInv, TypeOK, Local,
     CommitKept
<1>30. ASSUME NEW p \in Procs, ReadAfter(p) PROVE CommitKept
  BY <1>30 DEF ReadAfter, Goto, GoalInv, TypeOK, Local, CommitKept
<1>31. ASSUME NEW p \in Procs, ClearPid(p) PROVE CommitKept
  BY <1>31 DEF ClearPid, Leave, Goto, CanWrite, Fresh, GoalInv, TypeOK, Local, CommitKept
<1>32. ASSUME NEW p \in Procs, ClaimCompletion(p) PROVE CommitKept
  BY <1>32 DEF ClaimCompletion, Leave, Goto, CanWrite, Fresh, GoalInv, TypeOK, Local,
     CommitKept
<1>33. ASSUME NEW p \in Procs, WorkReported(p) PROVE CommitKept
  BY <1>33 DEF WorkReported, Leave, Goto, CanWrite, Fresh, GoalInv, TypeOK, Local,
     CommitKept
<1>34. ASSUME NEW p \in Procs, CliGrade(p) PROVE CommitKept
  BY <1>34 DEF CliGrade, GoalInv, TypeOK, CommitKept
<1>35. ASSUME NEW p \in Procs, CliRefused(p) PROVE CommitKept
  BY <1>35 DEF CliRefused, GoalInv, TypeOK, Local, CommitKept
<1>36. ASSUME NEW p \in Procs, Crash(p) PROVE CommitKept
  BY <1>36 DEF Crash, Goto, Fresh, GoalInv, TypeOK, Local, CommitKept
<1>37. CASE RedefineGoal
  BY <1>37 DEF RedefineGoal, CanWrite, GoalInv, TypeOK, Local, CommitKept
<1>38. CASE ReportGoal
  BY <1>38 DEF ReportGoal, CanWrite, GoalInv, TypeOK, Local, CommitKept
<1>39. CASE EditSource
  BY <1>39 DEF EditSource, GoalInv, TypeOK, Local, CommitKept
<1>40. CASE MoveTask
  BY <1>40 DEF MoveTask, GoalInv, TypeOK, Local, CommitKept
<1> QED
  BY <1>1, <1>2, <1>3, <1>4, <1>5, <1>6, <1>7, <1>8, <1>9, <1>10, <1>11, <1>12, <1>13,
     <1>14, <1>15, <1>16, <1>17, <1>18, <1>19, <1>20, <1>21, <1>22, <1>23, <1>24, <1>25,
     <1>26, <1>27, <1>28, <1>29, <1>30, <1>31, <1>32, <1>33, <1>34, <1>35, <1>36, <1>37,
     <1>38, <1>39, <1>40 DEF Next, Run, Enter, Review, Grade, Work

(* A process never looks past the commits there are. *)
LEMMA RangeStep ==
  ASSUME GoalInv, Next
  PROVE  RecoverInRange'
<1>1. SUFFICES ASSUME NEW q \in Procs PROVE local'[q].commit <= Len(commits')
  BY DEF RecoverInRange
<1>2. local'[q].commit \in {local[q].commit, 0, Len(commits)}
  BY CommitIndex DEF CommitKept
<1>3. /\ local[q].commit \in Nat /\ local[q].commit <= Len(commits)
      /\ Len(commits) \in Nat
  BY DEF GoalInv, TypeOK, RecoverInRange, Local
<1>4. Len(commits) <= Len(commits') /\ Len(commits') \in Nat
  BY HistoryStep, StoreType DEF HistoryKept, StoreTyped
<1> QED
  BY <1>2, <1>3, <1>4

(* A pid leaves the goal before its process leaves the cycle. *)
LEMMA PidStep ==
  ASSUME GoalInv, Next
  PROVE  PidBusy'
<1>1. ASSUME NEW p \in Procs, StartCycle(p) PROVE PidBusy'
  BY <1>1, GoalAssumption DEF StartCycle, Goto, GoalInv, TypeOK, Goal, PidBusy, Busy,
     Grading, Procs
<1>2. ASSUME NEW p \in Procs, recoverSupervisorCompletion(p) PROVE PidBusy'
  <2>1. local[p].commit \in Nat /\ local[p].commit <= Len(commits)
    BY DEF GoalInv, TypeOK, RecoverInRange, Local
  <2>2. local[p].commit > 0 => commits[local[p].commit].final.pid = None
    BY <2>1 DEF GoalInv, TypeOK, CommitsBacked
  <2>3. goal'.pid \in {goal.pid, None}
    BY <1>2, <2>2 DEF recoverSupervisorCompletion
  <2> QED
    BY <1>2, <2>3, GoalAssumption DEF recoverSupervisorCompletion, Goto, GoalInv, TypeOK,
       PidBusy, Busy, Grading
<1>3. ASSUME NEW p \in Procs, ReadGoal(p) PROVE PidBusy'
  BY <1>3, GoalAssumption DEF ReadGoal, Leave, Goto, Fresh, GoalInv, TypeOK, Goal, PidBusy,
     Busy, Grading, Procs
<1>4. ASSUME NEW p \in Procs, TakeFence(p) PROVE PidBusy'
  BY <1>4, GoalAssumption DEF TakeFence, Goto, GoalInv, TypeOK, Goal, PidBusy, Busy,
     Grading, Procs
<1>5. ASSUME NEW p \in Procs, RefusedFence(p) PROVE PidBusy'
  BY <1>5, GoalAssumption DEF RefusedFence, Leave, Goto, Fresh, GoalInv, TypeOK, Goal,
     PidBusy, Busy, Grading, Procs
<1>6. ASSUME NEW p \in Procs, ReviewStale(p) PROVE PidBusy'
  BY <1>6, GoalAssumption DEF ReviewStale, Leave, Goto, CanWrite, Fresh, GoalInv, TypeOK,
     Goal, PidBusy, Busy, Grading, Procs
<1>7. ASSUME NEW p \in Procs, recoverAbandonedReviewDispatch(p) PROVE PidBusy'
  BY <1>7, GoalAssumption DEF recoverAbandonedReviewDispatch, Leave, Goto, CanWrite, Fresh,
     GoalInv, TypeOK, Inconclusive, Goal, PidBusy, Busy, Grading, Procs
<1>8. ASSUME NEW p \in Procs, ReviewExhausted(p) PROVE PidBusy'
  BY <1>8, GoalAssumption DEF ReviewExhausted, Leave, Goto, CanWrite, Fresh, GoalInv,
     TypeOK, Inconclusive, Goal, PidBusy, Busy, Grading, Procs
<1>9. ASSUME NEW p \in Procs, ReviewWaits(p) PROVE PidBusy'
  BY <1>9, GoalAssumption DEF ReviewWaits, Leave, Goto, CanWrite, Fresh, GoalInv, TypeOK,
     Goal, PidBusy, Busy, Grading, Procs
<1>10. ASSUME NEW p \in Procs, CreateReviewRun(p) PROVE PidBusy'
  BY <1>10, GoalAssumption DEF CreateReviewRun, Goto, GoalInv, TypeOK, Goal, PidBusy, Busy,
     Grading, Procs
<1>11. ASSUME NEW p \in Procs, DispatchReview(p) PROVE PidBusy'
  BY <1>11, GoalAssumption DEF DispatchReview, Goto, CanWrite, GoalInv, TypeOK, Goal,
     PidBusy, Busy, Grading, Procs
<1>12. ASSUME NEW p \in Procs, ReviewerReturns(p) PROVE PidBusy'
  BY <1>12, GoalAssumption DEF ReviewerReturns, Goto, GoalInv, TypeOK, Goal, PidBusy, Busy,
     Grading, Procs
<1>13. ASSUME NEW p \in Procs, recordInconclusiveReviewAttempt(p) PROVE PidBusy'
  BY <1>13, GoalAssumption DEF recordInconclusiveReviewAttempt, Leave, Goto, CanWrite,
     Fresh, GoalInv, TypeOK, Inconclusive, Goal, PidBusy, Busy, Grading, Procs
<1>14. ASSUME NEW p \in Procs, ReviewUnbound(p) PROVE PidBusy'
  BY <1>14, GoalAssumption DEF ReviewUnbound, Leave, Goto, CanWrite, Fresh, GoalInv, TypeOK,
     Goal, PidBusy, Busy, Grading, Procs
<1>15. ASSUME NEW p \in Procs, postReviewSourceChange(p) PROVE PidBusy'
  BY <1>15, GoalAssumption DEF postReviewSourceChange, Leave, Goto, CanWrite, Fresh,
     GoalInv, TypeOK, Reopened, Goal, PidBusy, Busy, Grading, Procs
<1>16. ASSUME NEW p \in Procs, recordIndependentReviewExecution(p) PROVE PidBusy'
  BY <1>16, GoalAssumption DEF recordIndependentReviewExecution, Goto, GoalInv, TypeOK,
     Goal, PidBusy, Busy, Grading, Procs
<1>17. ASSUME NEW p \in Procs, GradeRefused(p) PROVE PidBusy'
  BY <1>17, GoalAssumption DEF GradeRefused, Throw, Leave, Goto, CanWrite, Fresh, GoalInv,
     TypeOK, Orphan, Goal, PidBusy, Busy, Grading, Procs
<1>18. ASSUME NEW p \in Procs, GradeBegin(p) PROVE PidBusy'
  BY <1>18, GoalAssumption DEF GradeBegin, Goto, CanWrite, GoalInv, TypeOK, Goal, PidBusy,
     Busy, Grading, Procs
<1>19. ASSUME NEW p \in Procs, GradeReopens(p) PROVE PidBusy'
  BY <1>19, GoalAssumption DEF GradeReopens, Throw, Leave, Goto, CanWrite, Fresh, GoalInv,
     TypeOK, Orphan, Reopened, Goal, PidBusy, Busy, Grading, Procs
<1>20. ASSUME NEW p \in Procs, CommitGrade(p) PROVE PidBusy'
  BY <1>20, GoalAssumption DEF CommitGrade, Goto, GoalInv, TypeOK, Graded, Goal, PidBusy,
     Busy, Grading, Procs
<1>21. ASSUME NEW p \in Procs, CommitFenced(p) PROVE PidBusy'
  BY <1>21, GoalAssumption DEF CommitFenced, Throw, Leave, Goto, Fresh, GoalInv, TypeOK,
     Orphan, Reopened, Goal, PidBusy, Busy, Grading, Procs
<1>22. ASSUME NEW p \in Procs, WriteGoal(p) PROVE PidBusy'
  BY <1>22, GoalAssumption DEF WriteGoal, Leave, Goto, Fresh, GoalInv, TypeOK, Graded, Goal,
     PidBusy, Busy, Grading, Procs
<1>23. ASSUME NEW p \in Procs, WorkCheckpoint(p) PROVE PidBusy'
  BY <1>23, GoalAssumption DEF WorkCheckpoint, Leave, Goto, CanWrite, Fresh, GoalInv,
     TypeOK, Reopened, Goal, PidBusy, Busy, Grading, Procs
<1>24. ASSUME NEW p \in Procs, freezeSupervisorCandidate(p) PROVE PidBusy'
  BY <1>24, GoalAssumption DEF freezeSupervisorCandidate, Goto, GoalInv, TypeOK, Goal,
     PidBusy, Busy, Grading, Procs
<1>25. ASSUME NEW p \in Procs, StartWork(p) PROVE PidBusy'
  BY <1>25, GoalAssumption DEF StartWork, Goto, CanWrite, GoalInv, TypeOK, Goal, PidBusy,
     Busy, Grading, Procs
<1>26. ASSUME NEW p \in Procs, DispatchRefused(p) PROVE PidBusy'
  BY <1>26, GoalAssumption DEF DispatchRefused, Leave, Goto, CanWrite, Fresh, GoalInv,
     TypeOK, Reopened, Goal, PidBusy, Busy, Grading, Procs
<1>27. ASSUME NEW p \in Procs, DispatchWorker(p) PROVE PidBusy'
  BY <1>27, GoalAssumption DEF DispatchWorker, Throw, Leave, Goto, Fresh, GoalInv, TypeOK,
     Orphan, Goal, PidBusy, Busy, Grading, Procs
<1>28. ASSUME NEW p \in Procs, WorkerReturns(p) PROVE PidBusy'
  BY <1>28, GoalAssumption DEF WorkerReturns, Goto, GoalInv, TypeOK, Goal, PidBusy, Busy,
     Grading, Procs
<1>29. ASSUME NEW p \in Procs, WorkUnsigned(p) PROVE PidBusy'
  BY <1>29, GoalAssumption DEF WorkUnsigned, Leave, Goto, CanWrite, Fresh, GoalInv, TypeOK,
     Reopened, Goal, PidBusy, Busy, Grading, Procs
<1>30. ASSUME NEW p \in Procs, ReadAfter(p) PROVE PidBusy'
  BY <1>30, GoalAssumption DEF ReadAfter, Goto, GoalInv, TypeOK, Goal, PidBusy, Busy,
     Grading, Procs
<1>31. ASSUME NEW p \in Procs, ClearPid(p) PROVE PidBusy'
  BY <1>31, GoalAssumption DEF ClearPid, Leave, Goto, CanWrite, Fresh, GoalInv, TypeOK,
     Goal, PidBusy, Busy, Grading, Procs
<1>32. ASSUME NEW p \in Procs, ClaimCompletion(p) PROVE PidBusy'
  BY <1>32, GoalAssumption DEF ClaimCompletion, Leave, Goto, CanWrite, Fresh, GoalInv,
     TypeOK, Goal, PidBusy, Busy, Grading, Procs
<1>33. ASSUME NEW p \in Procs, WorkReported(p) PROVE PidBusy'
  BY <1>33, GoalAssumption DEF WorkReported, Leave, Goto, CanWrite, Fresh, GoalInv, TypeOK,
     Reopened, Goal, PidBusy, Busy, Grading, Procs
<1>34. ASSUME NEW p \in Procs, CliGrade(p) PROVE PidBusy'
  BY <1>34, GoalAssumption DEF CliGrade, Goto, GoalInv, TypeOK, Goal, PidBusy, Busy,
     Grading, Procs
<1>35. ASSUME NEW p \in Procs, CliRefused(p) PROVE PidBusy'
  BY <1>35, GoalAssumption DEF CliRefused, GoalInv, TypeOK, Goal, PidBusy, Busy, Grading,
     Procs
<1>36. ASSUME NEW p \in Procs, Crash(p) PROVE PidBusy'
  BY <1>36, GoalAssumption DEF Crash, Goto, Fresh, GoalInv, TypeOK, Orphan, Goal, PidBusy,
     Busy, Grading, Procs
<1>37. CASE RedefineGoal
  BY <1>37, GoalAssumption DEF RedefineGoal, CanWrite, GoalInv, TypeOK, Goal, PidBusy, Busy,
     Grading, Procs
<1>38. CASE ReportGoal
  BY <1>38, GoalAssumption DEF ReportGoal, CanWrite, GoalInv, TypeOK, Goal, PidBusy, Busy,
     Grading, Procs
<1>39. CASE EditSource
  BY <1>39, GoalAssumption DEF EditSource, GoalInv, TypeOK, Goal, PidBusy, Busy, Grading,
     Procs
<1>40. CASE MoveTask
  BY <1>40, GoalAssumption DEF MoveTask, GoalInv, TypeOK, Goal, PidBusy, Busy, Grading,
     Procs
<1> QED
  BY <1>1, <1>2, <1>3, <1>4, <1>5, <1>6, <1>7, <1>8, <1>9, <1>10, <1>11, <1>12, <1>13,
     <1>14, <1>15, <1>16, <1>17, <1>18, <1>19, <1>20, <1>21, <1>22, <1>23, <1>24, <1>25,
     <1>26, <1>27, <1>28, <1>29, <1>30, <1>31, <1>32, <1>33, <1>34, <1>35, <1>36, <1>37,
     <1>38, <1>39, <1>40 DEF Next, Run, Enter, Review, Grade, Work

(* A review keeps the claim it read. *)
LEMMA ClaimStep ==
  ASSUME GoalInv, Next
  PROVE  ClaimOfReview'
<1>1. ASSUME NEW p \in Procs, StartCycle(p) PROVE ClaimOfReview'
  BY <1>1, ClaimRead DEF StartCycle, Goto, GoalInv, TypeOK, ClaimOfReview, Reviewing, PCs
<1>2. ASSUME NEW p \in Procs, recoverSupervisorCompletion(p) PROVE ClaimOfReview'
  BY <1>2, ClaimRead DEF recoverSupervisorCompletion, Goto, GoalInv, TypeOK, ClaimOfReview,
     Reviewing, PCs
<1>3. ASSUME NEW p \in Procs, ReadGoal(p) PROVE ClaimOfReview'
  BY <1>3, ClaimRead DEF ReadGoal, Leave, Goto, GoalInv, TypeOK, ClaimOfReview, Reviewing,
     Seen, PCs
<1>4. ASSUME NEW p \in Procs, TakeFence(p) PROVE ClaimOfReview'
  BY <1>4, ClaimRead DEF TakeFence, Goto, GoalInv, TypeOK, ClaimOfReview, Reviewing, PCs
<1>5. ASSUME NEW p \in Procs, RefusedFence(p) PROVE ClaimOfReview'
  BY <1>5, ClaimRead DEF RefusedFence, Leave, Goto, GoalInv, TypeOK, ClaimOfReview,
     Reviewing, Seen, PCs
<1>6. ASSUME NEW p \in Procs, ReviewStale(p) PROVE ClaimOfReview'
  BY <1>6, ClaimRead DEF ReviewStale, Leave, Goto, GoalInv, TypeOK, ClaimOfReview,
     Reviewing, Mine, Seen, PCs
<1>7. ASSUME NEW p \in Procs, recoverAbandonedReviewDispatch(p) PROVE ClaimOfReview'
  BY <1>7, ClaimRead DEF recoverAbandonedReviewDispatch, Leave, Goto, GoalInv, TypeOK,
     ClaimOfReview, Reviewing, Mine, Seen, PCs
<1>8. ASSUME NEW p \in Procs, ReviewExhausted(p) PROVE ClaimOfReview'
  BY <1>8, ClaimRead DEF ReviewExhausted, Leave, Goto, GoalInv, TypeOK, ClaimOfReview,
     Reviewing, Mine, Seen, PCs
<1>9. ASSUME NEW p \in Procs, ReviewWaits(p) PROVE ClaimOfReview'
  BY <1>9, ClaimRead DEF ReviewWaits, Leave, Goto, GoalInv, TypeOK, ClaimOfReview,
     Reviewing, Mine, MayReview, Seen, PCs
<1>10. ASSUME NEW p \in Procs, CreateReviewRun(p) PROVE ClaimOfReview'
  BY <1>10, ClaimRead DEF CreateReviewRun, Goto, GoalInv, TypeOK, ClaimOfReview, Reviewing,
     Mine, MayReview, PCs
<1>11. ASSUME NEW p \in Procs, DispatchReview(p) PROVE ClaimOfReview'
  BY <1>11, ClaimRead DEF DispatchReview, Goto, GoalInv, TypeOK, ClaimOfReview, Reviewing,
     Mine, PCs
<1>12. ASSUME NEW p \in Procs, ReviewerReturns(p) PROVE ClaimOfReview'
  BY <1>12, ClaimRead DEF ReviewerReturns, Goto, GoalInv, TypeOK, ClaimOfReview, Reviewing,
     PCs
<1>13. ASSUME NEW p \in Procs, recordInconclusiveReviewAttempt(p) PROVE ClaimOfReview'
  BY <1>13, ClaimRead DEF recordInconclusiveReviewAttempt, Leave, Goto, GoalInv, TypeOK,
     ClaimOfReview, Reviewing, Mine, Seen, PCs
<1>14. ASSUME NEW p \in Procs, ReviewUnbound(p) PROVE ClaimOfReview'
  BY <1>14, ClaimRead DEF ReviewUnbound, Leave, Goto, GoalInv, TypeOK, ClaimOfReview,
     Reviewing, Mine, Seen, PCs
<1>15. ASSUME NEW p \in Procs, postReviewSourceChange(p) PROVE ClaimOfReview'
  BY <1>15, ClaimRead DEF postReviewSourceChange, Leave, Goto, GoalInv, TypeOK,
     ClaimOfReview, Reviewing, Mine, Seen, PCs
<1>16. ASSUME NEW p \in Procs, recordIndependentReviewExecution(p) PROVE ClaimOfReview'
  BY <1>16, ClaimRead DEF recordIndependentReviewExecution, Goto, GoalInv, TypeOK,
     ClaimOfReview, Reviewing, Mine, PCs
<1>17. ASSUME NEW p \in Procs, GradeRefused(p) PROVE ClaimOfReview'
  BY <1>17, ClaimRead DEF GradeRefused, Throw, Leave, Goto, GoalInv, TypeOK, ClaimOfReview,
     Reviewing, Seen, PCs
<1>18. ASSUME NEW p \in Procs, GradeBegin(p) PROVE ClaimOfReview'
  BY <1>18, ClaimRead DEF GradeBegin, Goto, GoalInv, TypeOK, ClaimOfReview, Reviewing, PCs
<1>19. ASSUME NEW p \in Procs, GradeReopens(p) PROVE ClaimOfReview'
  BY <1>19, ClaimRead DEF GradeReopens, Throw, Leave, Goto, GoalInv, TypeOK, ClaimOfReview,
     Reviewing, Seen, PCs
<1>20. ASSUME NEW p \in Procs, CommitGrade(p) PROVE ClaimOfReview'
  BY <1>20, ClaimRead DEF CommitGrade, Goto, GoalInv, TypeOK, ClaimOfReview, Reviewing, PCs
<1>21. ASSUME NEW p \in Procs, CommitFenced(p) PROVE ClaimOfReview'
  BY <1>21, ClaimRead DEF CommitFenced, Throw, Leave, Goto, GoalInv, TypeOK, ClaimOfReview,
     Reviewing, Seen, PCs
<1>22. ASSUME NEW p \in Procs, WriteGoal(p) PROVE ClaimOfReview'
  BY <1>22, ClaimRead DEF WriteGoal, Leave, Goto, GoalInv, TypeOK, ClaimOfReview, Reviewing,
     Seen, PCs
<1>23. ASSUME NEW p \in Procs, WorkCheckpoint(p) PROVE ClaimOfReview'
  BY <1>23, ClaimRead DEF WorkCheckpoint, Leave, Goto, GoalInv, TypeOK, ClaimOfReview,
     Reviewing, Seen, PCs
<1>24. ASSUME NEW p \in Procs, freezeSupervisorCandidate(p) PROVE ClaimOfReview'
  BY <1>24, ClaimRead DEF freezeSupervisorCandidate, Goto, GoalInv, TypeOK, ClaimOfReview,
     Reviewing, PCs
<1>25. ASSUME NEW p \in Procs, StartWork(p) PROVE ClaimOfReview'
  BY <1>25, ClaimRead DEF StartWork, Goto, GoalInv, TypeOK, ClaimOfReview, Reviewing, PCs
<1>26. ASSUME NEW p \in Procs, DispatchRefused(p) PROVE ClaimOfReview'
  BY <1>26, ClaimRead DEF DispatchRefused, Leave, Goto, GoalInv, TypeOK, ClaimOfReview,
     Reviewing, Seen, PCs
<1>27. ASSUME NEW p \in Procs, DispatchWorker(p) PROVE ClaimOfReview'
  BY <1>27, ClaimRead DEF DispatchWorker, Throw, Leave, Goto, GoalInv, TypeOK,
     ClaimOfReview, Reviewing, Seen, PCs
<1>28. ASSUME NEW p \in Procs, WorkerReturns(p) PROVE ClaimOfReview'
  BY <1>28, ClaimRead DEF WorkerReturns, Goto, GoalInv, TypeOK, ClaimOfReview, Reviewing,
     PCs
<1>29. ASSUME NEW p \in Procs, WorkUnsigned(p) PROVE ClaimOfReview'
  BY <1>29, ClaimRead DEF WorkUnsigned, Leave, Goto, GoalInv, TypeOK, ClaimOfReview,
     Reviewing, Seen, PCs
<1>30. ASSUME NEW p \in Procs, ReadAfter(p) PROVE ClaimOfReview'
  BY <1>30, ClaimRead DEF ReadAfter, Goto, GoalInv, TypeOK, ClaimOfReview, Reviewing, PCs
<1>31. ASSUME NEW p \in Procs, ClearPid(p) PROVE ClaimOfReview'
  BY <1>31, ClaimRead DEF ClearPid, Leave, Goto, GoalInv, TypeOK, ClaimOfReview, Reviewing,
     Seen, PCs
<1>32. ASSUME NEW p \in Procs, ClaimCompletion(p) PROVE ClaimOfReview'
  BY <1>32, ClaimRead DEF ClaimCompletion, Leave, Goto, GoalInv, TypeOK, ClaimOfReview,
     Reviewing, Seen, PCs
<1>33. ASSUME NEW p \in Procs, WorkReported(p) PROVE ClaimOfReview'
  BY <1>33, ClaimRead DEF WorkReported, Leave, Goto, GoalInv, TypeOK, ClaimOfReview,
     Reviewing, Seen, PCs
<1>34. ASSUME NEW p \in Procs, CliGrade(p) PROVE ClaimOfReview'
  BY <1>34, ClaimRead DEF CliGrade, Goto, GoalInv, TypeOK, ClaimOfReview, Reviewing, PCs
<1>35. ASSUME NEW p \in Procs, CliRefused(p) PROVE ClaimOfReview'
  BY <1>35, ClaimRead DEF CliRefused, GoalInv, TypeOK, ClaimOfReview, Reviewing, PCs
<1>36. ASSUME NEW p \in Procs, Crash(p) PROVE ClaimOfReview'
  BY <1>36, ClaimRead DEF Crash, Goto, GoalInv, TypeOK, ClaimOfReview, Reviewing, Seen, PCs
<1>37. CASE RedefineGoal
  BY <1>37, ClaimRead DEF RedefineGoal, GoalInv, TypeOK, ClaimOfReview, Reviewing, PCs
<1>38. CASE ReportGoal
  BY <1>38, ClaimRead DEF ReportGoal, GoalInv, TypeOK, ClaimOfReview, Reviewing, PCs
<1>39. CASE EditSource
  BY <1>39, ClaimRead DEF EditSource, GoalInv, TypeOK, ClaimOfReview, Reviewing, PCs
<1>40. CASE MoveTask
  BY <1>40, ClaimRead DEF MoveTask, GoalInv, TypeOK, ClaimOfReview, Reviewing, PCs
<1> QED
  BY <1>1, <1>2, <1>3, <1>4, <1>5, <1>6, <1>7, <1>8, <1>9, <1>10, <1>11, <1>12, <1>13,
     <1>14, <1>15, <1>16, <1>17, <1>18, <1>19, <1>20, <1>21, <1>22, <1>23, <1>24, <1>25,
     <1>26, <1>27, <1>28, <1>29, <1>30, <1>31, <1>32, <1>33, <1>34, <1>35, <1>36, <1>37,
     <1>38, <1>39, <1>40 DEF Next, Run, Enter, Review, Grade, Work

(* A dispatch under review stays its own and without a receipt. *)
LEMMA ReviewStep ==
  ASSUME GoalInv, Next
  PROVE  ReviewOwned'
<1>1. ASSUME NEW p \in Procs, StartCycle(p) PROVE ReviewOwned'
  BY <1>1, HistoryStep DEF StartCycle, Goto, GoalInv, TypeOK, ReviewOwned, Reviewing, PCs,
     database
<1>2. ASSUME NEW p \in Procs, recoverSupervisorCompletion(p) PROVE ReviewOwned'
  BY <1>2, HistoryStep DEF recoverSupervisorCompletion, Goto, GoalInv, TypeOK, ReviewOwned,
     Reviewing, PCs, database
<1>3. ASSUME NEW p \in Procs, ReadGoal(p) PROVE ReviewOwned'
  <2>1. dispatches' = dispatches /\ pc'[p] \notin Reviewing
    BY <1>3 DEF ReadGoal, Leave, Goto, GoalInv, TypeOK, Reviewing, database
  <2>2. \A q \in Procs \ {p} : pc'[q] = pc[q] /\ local'[q] = local[q]
    BY <1>3 DEF ReadGoal, Leave, Goto, GoalInv, TypeOK
  <2> QED
    BY <2>1, <2>2 DEF GoalInv, ReviewOwned
<1>4. ASSUME NEW p \in Procs, TakeFence(p) PROVE ReviewOwned'
  BY <1>4, HistoryStep DEF TakeFence, Goto, GoalInv, TypeOK, ReviewOwned, Reviewing, PCs,
     database
<1>5. ASSUME NEW p \in Procs, RefusedFence(p) PROVE ReviewOwned'
  BY <1>5, HistoryStep DEF RefusedFence, Leave, Goto, GoalInv, TypeOK, ReviewOwned,
     Reviewing, PCs, database
<1>6. ASSUME NEW p \in Procs, ReviewStale(p) PROVE ReviewOwned'
  BY <1>6, HistoryStep DEF ReviewStale, Leave, Goto, GoalInv, TypeOK, ReviewOwned,
     Reviewing, PCs, database
<1>7. ASSUME NEW p \in Procs, recoverAbandonedReviewDispatch(p) PROVE ReviewOwned'
  BY <1>7, HistoryStep DEF recoverAbandonedReviewDispatch, Leave, Goto, GoalInv, TypeOK,
     ReviewOwned, Reviewing, PCs
<1>8. ASSUME NEW p \in Procs, ReviewExhausted(p) PROVE ReviewOwned'
  BY <1>8, HistoryStep DEF ReviewExhausted, Leave, Goto, GoalInv, TypeOK, ReviewOwned,
     Reviewing, PCs, database
<1>9. ASSUME NEW p \in Procs, ReviewWaits(p) PROVE ReviewOwned'
  BY <1>9, HistoryStep DEF ReviewWaits, Leave, Goto, GoalInv, TypeOK, ReviewOwned,
     Reviewing, PCs, database
<1>10. ASSUME NEW p \in Procs, CreateReviewRun(p) PROVE ReviewOwned'
  BY <1>10, HistoryStep DEF CreateReviewRun, Goto, GoalInv, TypeOK, ReviewOwned, Reviewing,
     PCs
<1>11. ASSUME NEW p \in Procs, DispatchReview(p) PROVE ReviewOwned'
  BY <1>11, HistoryStep DEF DispatchReview, Goto, GoalInv, TypeOK, ReviewOwned, Reviewing,
     PCs, database
<1>12. ASSUME NEW p \in Procs, ReviewerReturns(p) PROVE ReviewOwned'
  BY <1>12, HistoryStep DEF ReviewerReturns, Goto, GoalInv, TypeOK, ReviewOwned, Reviewing,
     PCs
<1>13. ASSUME NEW p \in Procs, recordInconclusiveReviewAttempt(p) PROVE ReviewOwned'
  BY <1>13, HistoryStep DEF recordInconclusiveReviewAttempt, Leave, Goto, GoalInv, TypeOK,
     ReviewOwned, Reviewing, PCs, database
<1>14. ASSUME NEW p \in Procs, ReviewUnbound(p) PROVE ReviewOwned'
  BY <1>14, HistoryStep DEF ReviewUnbound, Leave, Goto, GoalInv, TypeOK, ReviewOwned,
     Reviewing, PCs, database
<1>15. ASSUME NEW p \in Procs, postReviewSourceChange(p) PROVE ReviewOwned'
  BY <1>15, HistoryStep DEF postReviewSourceChange, Leave, Goto, GoalInv, TypeOK,
     ReviewOwned, Reviewing, PCs, database
<1>16. ASSUME NEW p \in Procs, recordIndependentReviewExecution(p) PROVE ReviewOwned'
  BY <1>16, HistoryStep DEF recordIndependentReviewExecution, Goto, GoalInv, TypeOK,
     ReviewOwned, Reviewing, PCs
<1>17. ASSUME NEW p \in Procs, GradeRefused(p) PROVE ReviewOwned'
  BY <1>17, HistoryStep DEF GradeRefused, Throw, Leave, Goto, GoalInv, TypeOK, ReviewOwned,
     Reviewing, PCs, database
<1>18. ASSUME NEW p \in Procs, GradeBegin(p) PROVE ReviewOwned'
  BY <1>18, HistoryStep DEF GradeBegin, Goto, GoalInv, TypeOK, ReviewOwned, Reviewing, PCs,
     database
<1>19. ASSUME NEW p \in Procs, GradeReopens(p) PROVE ReviewOwned'
  BY <1>19, HistoryStep DEF GradeReopens, Throw, Leave, Goto, GoalInv, TypeOK, ReviewOwned,
     Reviewing, PCs, database
<1>20. ASSUME NEW p \in Procs, CommitGrade(p) PROVE ReviewOwned'
  BY <1>20, HistoryStep DEF CommitGrade, Goto, GoalInv, TypeOK, ReviewOwned, Reviewing, PCs
<1>21. ASSUME NEW p \in Procs, CommitFenced(p) PROVE ReviewOwned'
  BY <1>21, HistoryStep DEF CommitFenced, Throw, Leave, Goto, GoalInv, TypeOK, ReviewOwned,
     Reviewing, PCs, database
<1>22. ASSUME NEW p \in Procs, WriteGoal(p) PROVE ReviewOwned'
  BY <1>22, HistoryStep DEF WriteGoal, Leave, Goto, GoalInv, TypeOK, ReviewOwned, Reviewing,
     PCs, database
<1>23. ASSUME NEW p \in Procs, WorkCheckpoint(p) PROVE ReviewOwned'
  BY <1>23, HistoryStep DEF WorkCheckpoint, Leave, Goto, GoalInv, TypeOK, ReviewOwned,
     Reviewing, PCs, database
<1>24. ASSUME NEW p \in Procs, freezeSupervisorCandidate(p) PROVE ReviewOwned'
  BY <1>24, HistoryStep DEF freezeSupervisorCandidate, Goto, GoalInv, TypeOK, ReviewOwned,
     Reviewing, PCs, database
<1>25. ASSUME NEW p \in Procs, StartWork(p) PROVE ReviewOwned'
  BY <1>25, HistoryStep DEF StartWork, Goto, GoalInv, TypeOK, ReviewOwned, Reviewing, PCs,
     database
<1>26. ASSUME NEW p \in Procs, DispatchRefused(p) PROVE ReviewOwned'
  BY <1>26, HistoryStep DEF DispatchRefused, Leave, Goto, GoalInv, TypeOK, ReviewOwned,
     Reviewing, PCs, database
<1>27. ASSUME NEW p \in Procs, DispatchWorker(p) PROVE ReviewOwned'
  <2>1. dispatches' = dispatches /\ pc'[p] \notin Reviewing
    BY <1>27 DEF DispatchWorker, Throw, Leave, Goto, GoalInv, TypeOK, Reviewing, database
  <2>2. \A q \in Procs \ {p} : pc'[q] = pc[q] /\ local'[q] = local[q]
    BY <1>27 DEF DispatchWorker, Throw, Leave, Goto, GoalInv, TypeOK
  <2> QED
    BY <2>1, <2>2 DEF GoalInv, ReviewOwned
<1>28. ASSUME NEW p \in Procs, WorkerReturns(p) PROVE ReviewOwned'
  BY <1>28, HistoryStep DEF WorkerReturns, Goto, GoalInv, TypeOK, ReviewOwned, Reviewing,
     PCs, database
<1>29. ASSUME NEW p \in Procs, WorkUnsigned(p) PROVE ReviewOwned'
  BY <1>29, HistoryStep DEF WorkUnsigned, Leave, Goto, GoalInv, TypeOK, ReviewOwned,
     Reviewing, PCs, database
<1>30. ASSUME NEW p \in Procs, ReadAfter(p) PROVE ReviewOwned'
  BY <1>30, HistoryStep DEF ReadAfter, Goto, GoalInv, TypeOK, ReviewOwned, Reviewing, PCs,
     database
<1>31. ASSUME NEW p \in Procs, ClearPid(p) PROVE ReviewOwned'
  BY <1>31, HistoryStep DEF ClearPid, Leave, Goto, GoalInv, TypeOK, ReviewOwned, Reviewing,
     PCs, database
<1>32. ASSUME NEW p \in Procs, ClaimCompletion(p) PROVE ReviewOwned'
  BY <1>32, HistoryStep DEF ClaimCompletion, Leave, Goto, GoalInv, TypeOK, ReviewOwned,
     Reviewing, PCs
<1>33. ASSUME NEW p \in Procs, WorkReported(p) PROVE ReviewOwned'
  BY <1>33, HistoryStep DEF WorkReported, Leave, Goto, GoalInv, TypeOK, ReviewOwned,
     Reviewing, PCs, database
<1>34. ASSUME NEW p \in Procs, CliGrade(p) PROVE ReviewOwned'
  BY <1>34, HistoryStep DEF CliGrade, Goto, GoalInv, TypeOK, ReviewOwned, Reviewing, PCs,
     database
<1>35. ASSUME NEW p \in Procs, CliRefused(p) PROVE ReviewOwned'
  BY <1>35, HistoryStep DEF CliRefused, GoalInv, TypeOK, ReviewOwned, Reviewing, PCs,
     database
<1>36. ASSUME NEW p \in Procs, Crash(p) PROVE ReviewOwned'
  BY <1>36, HistoryStep DEF Crash, Goto, GoalInv, TypeOK, ReviewOwned, Reviewing, PCs,
     database
<1>37. CASE RedefineGoal
  BY <1>37, HistoryStep DEF RedefineGoal, GoalInv, TypeOK, ReviewOwned, Reviewing, PCs,
     database
<1>38. CASE ReportGoal
  BY <1>38, HistoryStep DEF ReportGoal, GoalInv, TypeOK, ReviewOwned, Reviewing, PCs,
     database
<1>39. CASE EditSource
  BY <1>39, HistoryStep DEF EditSource, GoalInv, TypeOK, ReviewOwned, Reviewing, PCs,
     database
<1>40. CASE MoveTask
  BY <1>40, HistoryStep DEF MoveTask, GoalInv, TypeOK, ReviewOwned, Reviewing, PCs
<1> QED
  BY <1>1, <1>2, <1>3, <1>4, <1>5, <1>6, <1>7, <1>8, <1>9, <1>10, <1>11, <1>12, <1>13,
     <1>14, <1>15, <1>16, <1>17, <1>18, <1>19, <1>20, <1>21, <1>22, <1>23, <1>24, <1>25,
     <1>26, <1>27, <1>28, <1>29, <1>30, <1>31, <1>32, <1>33, <1>34, <1>35, <1>36, <1>37,
     <1>38, <1>39, <1>40 DEF Next, Run, Enter, Review, Grade, Work

(* Where a grade comes from: it was there, or it starts on a dispatch with a receipt. *)
EntersGrading(q) ==
  \/ pc[q] \in Grading /\ local'[q].dispatch = local[q].dispatch
  \/ /\ local'[q].dispatch \in 1..Len(dispatches)
     /\ dispatches'[local'[q].dispatch].verdict # "none"

(* A grade starts on a recorded receipt and keeps it. *)
LEMMA GradingFrame ==
  ASSUME GoalInv, NEW q \in Procs, pc'[q] \in Grading, Next
  PROVE  EntersGrading(q)
<1>1. ASSUME NEW p \in Procs, StartCycle(p) PROVE EntersGrading(q)
  BY <1>1 DEF StartCycle, Goto, GoalInv, TypeOK, Grading, EntersGrading
<1>2. ASSUME NEW p \in Procs, recoverSupervisorCompletion(p) PROVE EntersGrading(q)
  BY <1>2 DEF recoverSupervisorCompletion, Goto, GoalInv, TypeOK, Grading, EntersGrading
<1>3. ASSUME NEW p \in Procs, ReadGoal(p) PROVE EntersGrading(q)
  BY <1>3 DEF ReadGoal, Leave, Goto, GoalInv, TypeOK, Grading, EntersGrading
<1>4. ASSUME NEW p \in Procs, TakeFence(p) PROVE EntersGrading(q)
  BY <1>4 DEF TakeFence, Goto, GoalInv, TypeOK, Grading, EntersGrading
<1>5. ASSUME NEW p \in Procs, RefusedFence(p) PROVE EntersGrading(q)
  BY <1>5 DEF RefusedFence, Leave, Goto, GoalInv, TypeOK, Grading, EntersGrading
<1>6. ASSUME NEW p \in Procs, ReviewStale(p) PROVE EntersGrading(q)
  BY <1>6 DEF ReviewStale, Leave, Goto, GoalInv, TypeOK, Grading, EntersGrading
<1>7. ASSUME NEW p \in Procs, recoverAbandonedReviewDispatch(p) PROVE EntersGrading(q)
  BY <1>7 DEF recoverAbandonedReviewDispatch, Leave, Goto, GoalInv, TypeOK, Grading,
     EntersGrading
<1>8. ASSUME NEW p \in Procs, ReviewExhausted(p) PROVE EntersGrading(q)
  BY <1>8 DEF ReviewExhausted, Leave, Goto, GoalInv, TypeOK, Grading, EntersGrading
<1>9. ASSUME NEW p \in Procs, ReviewWaits(p) PROVE EntersGrading(q)
  BY <1>9 DEF ReviewWaits, Leave, Goto, GoalInv, TypeOK, Grading, EntersGrading
<1>10. ASSUME NEW p \in Procs, CreateReviewRun(p) PROVE EntersGrading(q)
  BY <1>10 DEF CreateReviewRun, Goto, GoalInv, TypeOK, Grading, EntersGrading
<1>11. ASSUME NEW p \in Procs, DispatchReview(p) PROVE EntersGrading(q)
  BY <1>11 DEF DispatchReview, Goto, GoalInv, TypeOK, Grading, EntersGrading
<1>12. ASSUME NEW p \in Procs, ReviewerReturns(p) PROVE EntersGrading(q)
  BY <1>12 DEF ReviewerReturns, Goto, GoalInv, TypeOK, Grading, EntersGrading
<1>13. ASSUME NEW p \in Procs, recordInconclusiveReviewAttempt(p) PROVE EntersGrading(q)
  BY <1>13 DEF recordInconclusiveReviewAttempt, Leave, Goto, GoalInv, TypeOK, Grading,
     EntersGrading
<1>14. ASSUME NEW p \in Procs, ReviewUnbound(p) PROVE EntersGrading(q)
  BY <1>14 DEF ReviewUnbound, Leave, Goto, GoalInv, TypeOK, Grading, EntersGrading
<1>15. ASSUME NEW p \in Procs, postReviewSourceChange(p) PROVE EntersGrading(q)
  BY <1>15 DEF postReviewSourceChange, Leave, Goto, GoalInv, TypeOK, Grading, EntersGrading
<1>16. ASSUME NEW p \in Procs, recordIndependentReviewExecution(p) PROVE EntersGrading(q)
  <2>1. q # p => pc[q] \in Grading
    BY <1>16 DEF recordIndependentReviewExecution, Goto, GoalInv, TypeOK
  <2>2. local' = local
    BY <1>16 DEF recordIndependentReviewExecution
  <2>3. /\ local[p].dispatch \in 1..Len(dispatches)
        /\ local[p].result \in {"pass", "fail"}
    BY <1>16 DEF recordIndependentReviewExecution, GoalInv, ReviewOwned, ClaimOfReview,
       Reviewing
  <2>4. dispatches'[local[p].dispatch].verdict = local[p].result
    BY <1>16, <2>3 DEF recordIndependentReviewExecution, GoalInv, TypeOK, Dispatch
  <2> QED
    BY <2>1, <2>2, <2>3, <2>4 DEF EntersGrading
<1>17. ASSUME NEW p \in Procs, GradeRefused(p) PROVE EntersGrading(q)
  BY <1>17 DEF GradeRefused, Throw, Leave, Goto, GoalInv, TypeOK, Grading, EntersGrading
<1>18. ASSUME NEW p \in Procs, GradeBegin(p) PROVE EntersGrading(q)
  BY <1>18 DEF GradeBegin, Goto, GoalInv, TypeOK, Grading, EntersGrading
<1>19. ASSUME NEW p \in Procs, GradeReopens(p) PROVE EntersGrading(q)
  BY <1>19 DEF GradeReopens, Throw, Leave, Goto, GoalInv, TypeOK, Grading, EntersGrading
<1>20. ASSUME NEW p \in Procs, CommitGrade(p) PROVE EntersGrading(q)
  BY <1>20 DEF CommitGrade, Goto, GoalInv, TypeOK, Grading, EntersGrading
<1>21. ASSUME NEW p \in Procs, CommitFenced(p) PROVE EntersGrading(q)
  BY <1>21 DEF CommitFenced, Throw, Leave, Goto, GoalInv, TypeOK, Grading, EntersGrading
<1>22. ASSUME NEW p \in Procs, WriteGoal(p) PROVE EntersGrading(q)
  BY <1>22 DEF WriteGoal, Leave, Goto, GoalInv, TypeOK, Grading, EntersGrading
<1>23. ASSUME NEW p \in Procs, WorkCheckpoint(p) PROVE EntersGrading(q)
  BY <1>23 DEF WorkCheckpoint, Leave, Goto, GoalInv, TypeOK, Grading, EntersGrading
<1>24. ASSUME NEW p \in Procs, freezeSupervisorCandidate(p) PROVE EntersGrading(q)
  BY <1>24 DEF freezeSupervisorCandidate, Goto, GoalInv, TypeOK, Grading, EntersGrading
<1>25. ASSUME NEW p \in Procs, StartWork(p) PROVE EntersGrading(q)
  BY <1>25 DEF StartWork, Goto, GoalInv, TypeOK, Grading, EntersGrading
<1>26. ASSUME NEW p \in Procs, DispatchRefused(p) PROVE EntersGrading(q)
  BY <1>26 DEF DispatchRefused, Leave, Goto, GoalInv, TypeOK, Grading, EntersGrading
<1>27. ASSUME NEW p \in Procs, DispatchWorker(p) PROVE EntersGrading(q)
  BY <1>27 DEF DispatchWorker, Throw, Leave, Goto, GoalInv, TypeOK, Grading, EntersGrading
<1>28. ASSUME NEW p \in Procs, WorkerReturns(p) PROVE EntersGrading(q)
  BY <1>28 DEF WorkerReturns, Goto, GoalInv, TypeOK, Grading, EntersGrading
<1>29. ASSUME NEW p \in Procs, WorkUnsigned(p) PROVE EntersGrading(q)
  BY <1>29 DEF WorkUnsigned, Leave, Goto, GoalInv, TypeOK, Grading, EntersGrading
<1>30. ASSUME NEW p \in Procs, ReadAfter(p) PROVE EntersGrading(q)
  BY <1>30 DEF ReadAfter, Goto, GoalInv, TypeOK, Grading, EntersGrading
<1>31. ASSUME NEW p \in Procs, ClearPid(p) PROVE EntersGrading(q)
  BY <1>31 DEF ClearPid, Leave, Goto, GoalInv, TypeOK, Grading, EntersGrading
<1>32. ASSUME NEW p \in Procs, ClaimCompletion(p) PROVE EntersGrading(q)
  BY <1>32 DEF ClaimCompletion, Leave, Goto, GoalInv, TypeOK, Grading, EntersGrading
<1>33. ASSUME NEW p \in Procs, WorkReported(p) PROVE EntersGrading(q)
  BY <1>33 DEF WorkReported, Leave, Goto, GoalInv, TypeOK, Grading, EntersGrading
<1>34. ASSUME NEW p \in Procs, CliGrade(p) PROVE EntersGrading(q)
  <2>1. PICK d \in 1..Len(dispatches) : /\ dispatches[d].verdict # "none"
                                 /\ local' = [local EXCEPT ![p].dispatch = d]
    BY <1>34 DEF CliGrade
  <2>2. dispatches' = dispatches
    BY <1>34 DEF CliGrade, database
  <2>3. q # p => pc[q] \in Grading
    BY <1>34 DEF CliGrade, Goto, GoalInv, TypeOK
  <2>4. local[p] \in Local /\ local \in [Procs -> Local]
    BY DEF GoalInv, TypeOK
  <2>5. local'[p].dispatch = d /\ (q # p => local'[q] = local[q])
    BY <2>1, <2>4 DEF Local
  <2> QED
    BY <2>1, <2>2, <2>3, <2>5 DEF EntersGrading
<1>35. ASSUME NEW p \in Procs, CliRefused(p) PROVE EntersGrading(q)
  BY <1>35 DEF CliRefused, GoalInv, TypeOK, Grading, EntersGrading
<1>36. ASSUME NEW p \in Procs, Crash(p) PROVE EntersGrading(q)
  BY <1>36 DEF Crash, Goto, GoalInv, TypeOK, Grading, EntersGrading
<1>37. CASE RedefineGoal
  BY <1>37 DEF RedefineGoal, GoalInv, TypeOK, Grading, EntersGrading
<1>38. CASE ReportGoal
  BY <1>38 DEF ReportGoal, GoalInv, TypeOK, Grading, EntersGrading
<1>39. CASE EditSource
  BY <1>39 DEF EditSource, GoalInv, TypeOK, Grading, EntersGrading
<1>40. CASE MoveTask
  BY <1>40 DEF MoveTask, GoalInv, TypeOK, Grading, EntersGrading
<1> QED
  BY <1>1, <1>2, <1>3, <1>4, <1>5, <1>6, <1>7, <1>8, <1>9, <1>10, <1>11, <1>12, <1>13,
     <1>14, <1>15, <1>16, <1>17, <1>18, <1>19, <1>20, <1>21, <1>22, <1>23, <1>24, <1>25,
     <1>26, <1>27, <1>28, <1>29, <1>30, <1>31, <1>32, <1>33, <1>34, <1>35, <1>36, <1>37,
     <1>38, <1>39, <1>40 DEF Next, Run, Enter, Review, Grade, Work

(* Where a transaction comes from: nobody else can touch the goal while it runs, and *)
(* it starts on the receipt of the pending claim. *)
InTransaction(q) ==
  /\ local'[q].dispatch = local[q].dispatch /\ goal'.pending = goal.pending
  /\ \/ pc[q] = "commit"
     \/ /\ pc[q] = "grade"
        /\ dispatches[local[q].dispatch].claim = goal.pending.claim

(* The claim inside a transaction is the one of its receipt. *)
LEMMA TransactionFrame ==
  ASSUME GoalInv, NEW q \in Procs, pc'[q] = "commit", Next
  PROVE  InTransaction(q)
<1>1. ASSUME NEW p \in Procs, StartCycle(p) PROVE InTransaction(q)
  BY <1>1, GoalAssumption DEF StartCycle, Goto, GoalInv, TypeOK, LockHeld, Goal,
     InTransaction
<1>2. ASSUME NEW p \in Procs, recoverSupervisorCompletion(p) PROVE InTransaction(q)
  BY <1>2, GoalAssumption DEF recoverSupervisorCompletion, Goto, GoalInv, TypeOK, CanWrite,
     LockHeld, Goal, InTransaction
<1>3. ASSUME NEW p \in Procs, ReadGoal(p) PROVE InTransaction(q)
  BY <1>3, GoalAssumption DEF ReadGoal, Leave, Goto, GoalInv, TypeOK, LockHeld, Goal,
     InTransaction
<1>4. ASSUME NEW p \in Procs, TakeFence(p) PROVE InTransaction(q)
  BY <1>4, GoalAssumption DEF TakeFence, Goto, GoalInv, TypeOK, LockHeld, Goal,
     InTransaction
<1>5. ASSUME NEW p \in Procs, RefusedFence(p) PROVE InTransaction(q)
  BY <1>5, GoalAssumption DEF RefusedFence, Leave, Goto, GoalInv, TypeOK, LockHeld, Goal,
     InTransaction
<1>6. ASSUME NEW p \in Procs, ReviewStale(p) PROVE InTransaction(q)
  BY <1>6, GoalAssumption DEF ReviewStale, Leave, Goto, GoalInv, TypeOK, CanWrite, LockHeld,
     Goal, InTransaction
<1>7. ASSUME NEW p \in Procs, recoverAbandonedReviewDispatch(p) PROVE InTransaction(q)
  BY <1>7, GoalAssumption DEF recoverAbandonedReviewDispatch, Leave, Goto, GoalInv, TypeOK,
     CanWrite, LockHeld, Goal, InTransaction
<1>8. ASSUME NEW p \in Procs, ReviewExhausted(p) PROVE InTransaction(q)
  BY <1>8, GoalAssumption DEF ReviewExhausted, Leave, Goto, GoalInv, TypeOK, CanWrite,
     LockHeld, Goal, InTransaction
<1>9. ASSUME NEW p \in Procs, ReviewWaits(p) PROVE InTransaction(q)
  BY <1>9, GoalAssumption DEF ReviewWaits, Leave, Goto, GoalInv, TypeOK, CanWrite, LockHeld,
     Goal, InTransaction
<1>10. ASSUME NEW p \in Procs, CreateReviewRun(p) PROVE InTransaction(q)
  BY <1>10, GoalAssumption DEF CreateReviewRun, Goto, GoalInv, TypeOK, LockHeld, Goal,
     InTransaction
<1>11. ASSUME NEW p \in Procs, DispatchReview(p) PROVE InTransaction(q)
  BY <1>11, GoalAssumption DEF DispatchReview, Goto, GoalInv, TypeOK, CanWrite, LockHeld,
     Goal, InTransaction
<1>12. ASSUME NEW p \in Procs, ReviewerReturns(p) PROVE InTransaction(q)
  BY <1>12, GoalAssumption DEF ReviewerReturns, Goto, GoalInv, TypeOK, LockHeld, Goal,
     InTransaction
<1>13. ASSUME NEW p \in Procs, recordInconclusiveReviewAttempt(p) PROVE InTransaction(q)
  BY <1>13, GoalAssumption DEF recordInconclusiveReviewAttempt, Leave, Goto, GoalInv,
     TypeOK, CanWrite, LockHeld, Goal, InTransaction
<1>14. ASSUME NEW p \in Procs, ReviewUnbound(p) PROVE InTransaction(q)
  BY <1>14, GoalAssumption DEF ReviewUnbound, Leave, Goto, GoalInv, TypeOK, CanWrite,
     LockHeld, Goal, InTransaction
<1>15. ASSUME NEW p \in Procs, postReviewSourceChange(p) PROVE InTransaction(q)
  BY <1>15, GoalAssumption DEF postReviewSourceChange, Leave, Goto, GoalInv, TypeOK,
     CanWrite, LockHeld, Goal, InTransaction
<1>16. ASSUME NEW p \in Procs, recordIndependentReviewExecution(p) PROVE InTransaction(q)
  BY <1>16, GoalAssumption DEF recordIndependentReviewExecution, Goto, GoalInv, TypeOK,
     LockHeld, Goal, InTransaction
<1>17. ASSUME NEW p \in Procs, GradeRefused(p) PROVE InTransaction(q)
  BY <1>17, GoalAssumption DEF GradeRefused, Throw, Leave, Goto, GoalInv, TypeOK, CanWrite,
     LockHeld, Orphan, Goal, ReceiptStands, InTransaction
<1>18. ASSUME NEW p \in Procs, GradeBegin(p) PROVE InTransaction(q)
  BY <1>18, GoalAssumption DEF GradeBegin, Goto, GoalInv, TypeOK, CanWrite, LockHeld, Goal,
     ReceiptStands, InTransaction
<1>19. ASSUME NEW p \in Procs, GradeReopens(p) PROVE InTransaction(q)
  BY <1>19, GoalAssumption DEF GradeReopens, Throw, Leave, Goto, GoalInv, TypeOK, CanWrite,
     LockHeld, Orphan, Goal, ReceiptStands, InTransaction
<1>20. ASSUME NEW p \in Procs, CommitGrade(p) PROVE InTransaction(q)
  BY <1>20, GoalAssumption DEF CommitGrade, Goto, GoalInv, TypeOK, LockHeld, Goal,
     InTransaction
<1>21. ASSUME NEW p \in Procs, CommitFenced(p) PROVE InTransaction(q)
  BY <1>21, GoalAssumption DEF CommitFenced, Throw, Leave, Goto, GoalInv, TypeOK, LockHeld,
     Orphan, Goal, InTransaction
<1>22. ASSUME NEW p \in Procs, WriteGoal(p) PROVE InTransaction(q)
  BY <1>22, GoalAssumption DEF WriteGoal, Leave, Goto, GoalInv, TypeOK, LockHeld, Goal,
     InTransaction
<1>23. ASSUME NEW p \in Procs, WorkCheckpoint(p) PROVE InTransaction(q)
  BY <1>23, GoalAssumption DEF WorkCheckpoint, Leave, Goto, GoalInv, TypeOK, CanWrite,
     LockHeld, Goal, InTransaction
<1>24. ASSUME NEW p \in Procs, freezeSupervisorCandidate(p) PROVE InTransaction(q)
  BY <1>24, GoalAssumption DEF freezeSupervisorCandidate, Goto, GoalInv, TypeOK, LockHeld,
     Goal, InTransaction
<1>25. ASSUME NEW p \in Procs, StartWork(p) PROVE InTransaction(q)
  BY <1>25, GoalAssumption DEF StartWork, Goto, GoalInv, TypeOK, CanWrite, LockHeld, Goal,
     InTransaction
<1>26. ASSUME NEW p \in Procs, DispatchRefused(p) PROVE InTransaction(q)
  BY <1>26, GoalAssumption DEF DispatchRefused, Leave, Goto, GoalInv, TypeOK, CanWrite,
     LockHeld, Goal, InTransaction
<1>27. ASSUME NEW p \in Procs, DispatchWorker(p) PROVE InTransaction(q)
  BY <1>27, GoalAssumption DEF DispatchWorker, Throw, Leave, Goto, GoalInv, TypeOK,
     LockHeld, Orphan, Goal, InTransaction
<1>28. ASSUME NEW p \in Procs, WorkerReturns(p) PROVE InTransaction(q)
  BY <1>28, GoalAssumption DEF WorkerReturns, Goto, GoalInv, TypeOK, LockHeld, Goal,
     InTransaction
<1>29. ASSUME NEW p \in Procs, WorkUnsigned(p) PROVE InTransaction(q)
  BY <1>29, GoalAssumption DEF WorkUnsigned, Leave, Goto, GoalInv, TypeOK, CanWrite,
     LockHeld, Goal, InTransaction
<1>30. ASSUME NEW p \in Procs, ReadAfter(p) PROVE InTransaction(q)
  BY <1>30, GoalAssumption DEF ReadAfter, Goto, GoalInv, TypeOK, LockHeld, Goal,
     InTransaction
<1>31. ASSUME NEW p \in Procs, ClearPid(p) PROVE InTransaction(q)
  BY <1>31, GoalAssumption DEF ClearPid, Leave, Goto, GoalInv, TypeOK, CanWrite, LockHeld,
     Goal, InTransaction
<1>32. ASSUME NEW p \in Procs, ClaimCompletion(p) PROVE InTransaction(q)
  BY <1>32, GoalAssumption DEF ClaimCompletion, Leave, Goto, GoalInv, TypeOK, CanWrite,
     LockHeld, Goal, InTransaction
<1>33. ASSUME NEW p \in Procs, WorkReported(p) PROVE InTransaction(q)
  BY <1>33, GoalAssumption DEF WorkReported, Leave, Goto, GoalInv, TypeOK, CanWrite,
     LockHeld, Goal, InTransaction
<1>34. ASSUME NEW p \in Procs, CliGrade(p) PROVE InTransaction(q)
  BY <1>34, GoalAssumption DEF CliGrade, Goto, GoalInv, TypeOK, LockHeld, Goal,
     InTransaction
<1>35. ASSUME NEW p \in Procs, CliRefused(p) PROVE InTransaction(q)
  BY <1>35, GoalAssumption DEF CliRefused, GoalInv, TypeOK, LockHeld, Goal, InTransaction
<1>36. ASSUME NEW p \in Procs, Crash(p) PROVE InTransaction(q)
  BY <1>36, GoalAssumption DEF Crash, Goto, GoalInv, TypeOK, LockHeld, Orphan, Goal,
     InTransaction
<1>37. CASE RedefineGoal
  BY <1>37, GoalAssumption DEF RedefineGoal, GoalInv, TypeOK, CanWrite, LockHeld, Goal,
     InTransaction
<1>38. CASE ReportGoal
  BY <1>38, GoalAssumption DEF ReportGoal, GoalInv, TypeOK, CanWrite, LockHeld, Goal,
     InTransaction
<1>39. CASE EditSource
  BY <1>39, GoalAssumption DEF EditSource, GoalInv, TypeOK, LockHeld, Goal, InTransaction
<1>40. CASE MoveTask
  BY <1>40, GoalAssumption DEF MoveTask, GoalInv, TypeOK, LockHeld, Goal, InTransaction
<1> QED
  BY <1>1, <1>2, <1>3, <1>4, <1>5, <1>6, <1>7, <1>8, <1>9, <1>10, <1>11, <1>12, <1>13,
     <1>14, <1>15, <1>16, <1>17, <1>18, <1>19, <1>20, <1>21, <1>22, <1>23, <1>24, <1>25,
     <1>26, <1>27, <1>28, <1>29, <1>30, <1>31, <1>32, <1>33, <1>34, <1>35, <1>36, <1>37,
     <1>38, <1>39, <1>40 DEF Next, Run, Enter, Review, Grade, Work

(* Where the write after a commit comes from. *)
AfterCommit(q) ==
  \/ pc[q] = "write" /\ local'[q].dispatch = local[q].dispatch
  \/ \E i \in 1..Len(commits') : commits'[i].dispatch = local'[q].dispatch

(* The goal is written after the commit. *)
LEMMA WriteFrame ==
  ASSUME GoalInv, NEW q \in Procs, pc'[q] = "write", Next
  PROVE  AfterCommit(q)
<1>1. ASSUME NEW p \in Procs, StartCycle(p) PROVE AfterCommit(q)
  BY <1>1 DEF StartCycle, Goto, GoalInv, TypeOK, AfterCommit
<1>2. ASSUME NEW p \in Procs, recoverSupervisorCompletion(p) PROVE AfterCommit(q)
  BY <1>2 DEF recoverSupervisorCompletion, Goto, GoalInv, TypeOK, AfterCommit
<1>3. ASSUME NEW p \in Procs, ReadGoal(p) PROVE AfterCommit(q)
  BY <1>3 DEF ReadGoal, Leave, Goto, GoalInv, TypeOK, AfterCommit
<1>4. ASSUME NEW p \in Procs, TakeFence(p) PROVE AfterCommit(q)
  BY <1>4 DEF TakeFence, Goto, GoalInv, TypeOK, AfterCommit
<1>5. ASSUME NEW p \in Procs, RefusedFence(p) PROVE AfterCommit(q)
  BY <1>5 DEF RefusedFence, Leave, Goto, GoalInv, TypeOK, AfterCommit
<1>6. ASSUME NEW p \in Procs, ReviewStale(p) PROVE AfterCommit(q)
  BY <1>6 DEF ReviewStale, Leave, Goto, GoalInv, TypeOK, AfterCommit
<1>7. ASSUME NEW p \in Procs, recoverAbandonedReviewDispatch(p) PROVE AfterCommit(q)
  BY <1>7 DEF recoverAbandonedReviewDispatch, Leave, Goto, GoalInv, TypeOK, AfterCommit
<1>8. ASSUME NEW p \in Procs, ReviewExhausted(p) PROVE AfterCommit(q)
  BY <1>8 DEF ReviewExhausted, Leave, Goto, GoalInv, TypeOK, AfterCommit
<1>9. ASSUME NEW p \in Procs, ReviewWaits(p) PROVE AfterCommit(q)
  BY <1>9 DEF ReviewWaits, Leave, Goto, GoalInv, TypeOK, AfterCommit
<1>10. ASSUME NEW p \in Procs, CreateReviewRun(p) PROVE AfterCommit(q)
  BY <1>10 DEF CreateReviewRun, Goto, GoalInv, TypeOK, AfterCommit
<1>11. ASSUME NEW p \in Procs, DispatchReview(p) PROVE AfterCommit(q)
  BY <1>11 DEF DispatchReview, Goto, GoalInv, TypeOK, AfterCommit
<1>12. ASSUME NEW p \in Procs, ReviewerReturns(p) PROVE AfterCommit(q)
  BY <1>12 DEF ReviewerReturns, Goto, GoalInv, TypeOK, AfterCommit
<1>13. ASSUME NEW p \in Procs, recordInconclusiveReviewAttempt(p) PROVE AfterCommit(q)
  BY <1>13 DEF recordInconclusiveReviewAttempt, Leave, Goto, GoalInv, TypeOK, AfterCommit
<1>14. ASSUME NEW p \in Procs, ReviewUnbound(p) PROVE AfterCommit(q)
  BY <1>14 DEF ReviewUnbound, Leave, Goto, GoalInv, TypeOK, AfterCommit
<1>15. ASSUME NEW p \in Procs, postReviewSourceChange(p) PROVE AfterCommit(q)
  BY <1>15 DEF postReviewSourceChange, Leave, Goto, GoalInv, TypeOK, AfterCommit
<1>16. ASSUME NEW p \in Procs, recordIndependentReviewExecution(p) PROVE AfterCommit(q)
  BY <1>16 DEF recordIndependentReviewExecution, Goto, GoalInv, TypeOK, AfterCommit
<1>17. ASSUME NEW p \in Procs, GradeRefused(p) PROVE AfterCommit(q)
  BY <1>17 DEF GradeRefused, Throw, Leave, Goto, GoalInv, TypeOK, AfterCommit
<1>18. ASSUME NEW p \in Procs, GradeBegin(p) PROVE AfterCommit(q)
  BY <1>18 DEF GradeBegin, Goto, GoalInv, TypeOK, AfterCommit
<1>19. ASSUME NEW p \in Procs, GradeReopens(p) PROVE AfterCommit(q)
  BY <1>19 DEF GradeReopens, Throw, Leave, Goto, GoalInv, TypeOK, AfterCommit
<1>20. ASSUME NEW p \in Procs, CommitGrade(p) PROVE AfterCommit(q)
  <2>1. commits'[Len(commits) + 1].dispatch = local[p].dispatch
    BY <1>20 DEF CommitGrade, GoalInv, TypeOK
  <2>2. Len(commits') = Len(commits) + 1 /\ Len(commits) \in Nat
    BY <1>20 DEF CommitGrade, GoalInv, TypeOK
  <2>3. Len(commits) + 1 \in 1..Len(commits')
    BY <2>2
  <2>4. local' = local /\ (q # p => pc[q] = "write")
    BY <1>20 DEF CommitGrade, Goto, GoalInv, TypeOK
  <2> QED
    BY <2>1, <2>3, <2>4 DEF AfterCommit
<1>21. ASSUME NEW p \in Procs, CommitFenced(p) PROVE AfterCommit(q)
  BY <1>21 DEF CommitFenced, Throw, Leave, Goto, GoalInv, TypeOK, AfterCommit
<1>22. ASSUME NEW p \in Procs, WriteGoal(p) PROVE AfterCommit(q)
  BY <1>22 DEF WriteGoal, Leave, Goto, GoalInv, TypeOK, AfterCommit
<1>23. ASSUME NEW p \in Procs, WorkCheckpoint(p) PROVE AfterCommit(q)
  BY <1>23 DEF WorkCheckpoint, Leave, Goto, GoalInv, TypeOK, AfterCommit
<1>24. ASSUME NEW p \in Procs, freezeSupervisorCandidate(p) PROVE AfterCommit(q)
  BY <1>24 DEF freezeSupervisorCandidate, Goto, GoalInv, TypeOK, AfterCommit
<1>25. ASSUME NEW p \in Procs, StartWork(p) PROVE AfterCommit(q)
  BY <1>25 DEF StartWork, Goto, GoalInv, TypeOK, AfterCommit
<1>26. ASSUME NEW p \in Procs, DispatchRefused(p) PROVE AfterCommit(q)
  BY <1>26 DEF DispatchRefused, Leave, Goto, GoalInv, TypeOK, AfterCommit
<1>27. ASSUME NEW p \in Procs, DispatchWorker(p) PROVE AfterCommit(q)
  BY <1>27 DEF DispatchWorker, Throw, Leave, Goto, GoalInv, TypeOK, AfterCommit
<1>28. ASSUME NEW p \in Procs, WorkerReturns(p) PROVE AfterCommit(q)
  BY <1>28 DEF WorkerReturns, Goto, GoalInv, TypeOK, AfterCommit
<1>29. ASSUME NEW p \in Procs, WorkUnsigned(p) PROVE AfterCommit(q)
  BY <1>29 DEF WorkUnsigned, Leave, Goto, GoalInv, TypeOK, AfterCommit
<1>30. ASSUME NEW p \in Procs, ReadAfter(p) PROVE AfterCommit(q)
  BY <1>30 DEF ReadAfter, Goto, GoalInv, TypeOK, AfterCommit
<1>31. ASSUME NEW p \in Procs, ClearPid(p) PROVE AfterCommit(q)
  BY <1>31 DEF ClearPid, Leave, Goto, GoalInv, TypeOK, AfterCommit
<1>32. ASSUME NEW p \in Procs, ClaimCompletion(p) PROVE AfterCommit(q)
  BY <1>32 DEF ClaimCompletion, Leave, Goto, GoalInv, TypeOK, AfterCommit
<1>33. ASSUME NEW p \in Procs, WorkReported(p) PROVE AfterCommit(q)
  BY <1>33 DEF WorkReported, Leave, Goto, GoalInv, TypeOK, AfterCommit
<1>34. ASSUME NEW p \in Procs, CliGrade(p) PROVE AfterCommit(q)
  BY <1>34 DEF CliGrade, Goto, GoalInv, TypeOK, AfterCommit
<1>35. ASSUME NEW p \in Procs, CliRefused(p) PROVE AfterCommit(q)
  BY <1>35 DEF CliRefused, GoalInv, TypeOK, AfterCommit
<1>36. ASSUME NEW p \in Procs, Crash(p) PROVE AfterCommit(q)
  BY <1>36 DEF Crash, Goto, GoalInv, TypeOK, AfterCommit
<1>37. CASE RedefineGoal
  BY <1>37 DEF RedefineGoal, GoalInv, TypeOK, AfterCommit
<1>38. CASE ReportGoal
  BY <1>38 DEF ReportGoal, GoalInv, TypeOK, AfterCommit
<1>39. CASE EditSource
  BY <1>39 DEF EditSource, GoalInv, TypeOK, AfterCommit
<1>40. CASE MoveTask
  BY <1>40 DEF MoveTask, GoalInv, TypeOK, AfterCommit
<1> QED
  BY <1>1, <1>2, <1>3, <1>4, <1>5, <1>6, <1>7, <1>8, <1>9, <1>10, <1>11, <1>12, <1>13,
     <1>14, <1>15, <1>16, <1>17, <1>18, <1>19, <1>20, <1>21, <1>22, <1>23, <1>24, <1>25,
     <1>26, <1>27, <1>28, <1>29, <1>30, <1>31, <1>32, <1>33, <1>34, <1>35, <1>36, <1>37,
     <1>38, <1>39, <1>40 DEF Next, Run, Enter, Review, Grade, Work

(* A grade keeps its receipt, its claim and its commit. *)
LEMMA GradeStep ==
  ASSUME GoalInv, Next
  PROVE  GradeReceipt' /\ GradeClaim' /\ GradeCommitted'
<1> USE DEF HistoryKept
<1>0. HistoryKept /\ Len(dispatches) \in Nat /\ Len(dispatches') \in Nat
  BY HistoryStep, StoreType DEF StoreTyped, GoalInv, TypeOK
<1>1. ASSUME NEW q \in Procs, pc'[q] \in Grading
      PROVE  /\ local'[q].dispatch \in 1..Len(dispatches')
             /\ dispatches'[local'[q].dispatch].verdict # "none"
  BY <1>0, <1>1, GradingFrame DEF EntersGrading, GoalInv, GradeReceipt
<1>2. ASSUME NEW q \in Procs, pc'[q] = "commit"
      PROVE  dispatches'[local'[q].dispatch].claim = goal'.pending.claim
  <2>1. InTransaction(q)
    BY <1>2, TransactionFrame
  <2>2. local[q].dispatch \in 1..Len(dispatches)
    BY <2>1 DEF InTransaction, GoalInv, GradeReceipt, Grading
  <2>3. dispatches[local[q].dispatch].claim = goal.pending.claim
    BY <2>1 DEF InTransaction, GoalInv, GradeClaim
  <2> QED
    BY <1>0, <2>1, <2>2, <2>3 DEF InTransaction
<1>3. ASSUME NEW q \in Procs, pc'[q] = "write"
      PROVE  \E i \in 1..Len(commits') : commits'[i].dispatch = local'[q].dispatch
  <2>1. AfterCommit(q)
    BY <1>3, WriteFrame
  <2>2. CASE pc[q] = "write" /\ local'[q].dispatch = local[q].dispatch
    <3>1. PICK i \in 1..Len(commits) : commits[i].dispatch = local[q].dispatch
      BY <2>2 DEF GoalInv, GradeCommitted
    <3>2. i \in 1..Len(commits') /\ commits'[i] = commits[i]
      BY <1>0, <3>1, StoreType DEF StoreTyped, GoalInv, TypeOK
    <3> QED
      BY <2>2, <3>1, <3>2
  <2> QED
    BY <2>1, <2>2 DEF AfterCommit
<1> QED
  BY <1>1, <1>2, <1>3 DEF GradeReceipt, GradeClaim, GradeCommitted

(* The commits stay, or one that repeats its receipt is added to them. *)
OneCommit ==
  \/ commits' = commits
  \/ \E c \in Commit :
       /\ commits' = Append(commits, c)
       /\ c.dispatch \in 1..Len(dispatches) /\ dispatches' = dispatches
       /\ dispatches[c.dispatch].verdict = c.verdict
       /\ dispatches[c.dispatch].claim = c.claim
       /\ c.final.status = "done" => c.verdict = "pass"
       /\ c.final.pid = None

(* Only a grade adds a commit. *)
LEMMA CommitFrame ==
  ASSUME GoalInv, Next
  PROVE  OneCommit
<1>1. ASSUME NEW p \in Procs, StartCycle(p) PROVE OneCommit
  BY <1>1 DEF StartCycle, database, OneCommit
<1>2. ASSUME NEW p \in Procs, recoverSupervisorCompletion(p) PROVE OneCommit
  BY <1>2 DEF recoverSupervisorCompletion, database, OneCommit
<1>3. ASSUME NEW p \in Procs, ReadGoal(p) PROVE OneCommit
  BY <1>3 DEF ReadGoal, database, OneCommit
<1>4. ASSUME NEW p \in Procs, TakeFence(p) PROVE OneCommit
  BY <1>4 DEF TakeFence, database, OneCommit
<1>5. ASSUME NEW p \in Procs, RefusedFence(p) PROVE OneCommit
  BY <1>5 DEF RefusedFence, database, OneCommit
<1>6. ASSUME NEW p \in Procs, ReviewStale(p) PROVE OneCommit
  BY <1>6 DEF ReviewStale, database, OneCommit
<1>7. ASSUME NEW p \in Procs, recoverAbandonedReviewDispatch(p) PROVE OneCommit
  BY <1>7 DEF recoverAbandonedReviewDispatch, OneCommit
<1>8. ASSUME NEW p \in Procs, ReviewExhausted(p) PROVE OneCommit
  BY <1>8 DEF ReviewExhausted, database, OneCommit
<1>9. ASSUME NEW p \in Procs, ReviewWaits(p) PROVE OneCommit
  BY <1>9 DEF ReviewWaits, database, OneCommit
<1>10. ASSUME NEW p \in Procs, CreateReviewRun(p) PROVE OneCommit
  BY <1>10 DEF CreateReviewRun, OneCommit
<1>11. ASSUME NEW p \in Procs, DispatchReview(p) PROVE OneCommit
  BY <1>11 DEF DispatchReview, database, OneCommit
<1>12. ASSUME NEW p \in Procs, ReviewerReturns(p) PROVE OneCommit
  BY <1>12 DEF ReviewerReturns, OneCommit
<1>13. ASSUME NEW p \in Procs, recordInconclusiveReviewAttempt(p) PROVE OneCommit
  BY <1>13 DEF recordInconclusiveReviewAttempt, database, OneCommit
<1>14. ASSUME NEW p \in Procs, ReviewUnbound(p) PROVE OneCommit
  BY <1>14 DEF ReviewUnbound, database, OneCommit
<1>15. ASSUME NEW p \in Procs, postReviewSourceChange(p) PROVE OneCommit
  BY <1>15 DEF postReviewSourceChange, database, OneCommit
<1>16. ASSUME NEW p \in Procs, recordIndependentReviewExecution(p) PROVE OneCommit
  BY <1>16 DEF recordIndependentReviewExecution, OneCommit
<1>17. ASSUME NEW p \in Procs, GradeRefused(p) PROVE OneCommit
  BY <1>17 DEF GradeRefused, database, OneCommit
<1>18. ASSUME NEW p \in Procs, GradeBegin(p) PROVE OneCommit
  BY <1>18 DEF GradeBegin, database, OneCommit
<1>19. ASSUME NEW p \in Procs, GradeReopens(p) PROVE OneCommit
  BY <1>19 DEF GradeReopens, database, OneCommit
<1>20. ASSUME NEW p \in Procs, CommitGrade(p) PROVE OneCommit
  <2> DEFINE d == local[p].dispatch
             v == dispatches[d].verdict
             c == [dispatch |-> d, claim |-> goal.pending.claim, task |-> goal.pending.task,
                   verdict |-> v, final |-> Graded(goal, v)]
  <2>1. commits' = Append(commits, c) /\ dispatches' = dispatches
    BY <1>20 DEF CommitGrade
  <2>2. d \in 1..Len(dispatches) /\ dispatches[d].claim = goal.pending.claim /\ v # "none"
    BY <1>20 DEF CommitGrade, GoalInv, GradeReceipt, GradeClaim, Grading
  <2>3. dispatches[d] \in Dispatch /\ Len(dispatches) <= MaxDispatches /\ Len(dispatches) \in Nat
    BY <2>2 DEF GoalInv, TypeOK
  <2>4. v \in {"pass", "fail"} /\ goal.pending.claim \in 1..MaxClaims
    BY <2>2, <2>3 DEF Dispatch
  <2>5. goal \in Goal /\ goal.pending.task \in BOOLEAN
    <3>1. goal \in Goal /\ goal.pending \in Pending
      BY DEF GoalInv, TypeOK, Goal
    <3>2. \A k \in Claim : k.task \in BOOLEAN
      BY DEF Claim
    <3>3. NoPending.task \in BOOLEAN
      BY DEF NoPending
    <3> QED
      BY <3>1, <3>2, <3>3 DEF Pending
  <2>6. Graded(goal, v) \in Goal
    BY <2>4, <2>5, PatchTypes
  <2>7. Graded(goal, v).pid = None /\ (Graded(goal, v).status = "done" => v = "pass")
    BY <2>4, <2>5 DEF Graded, Goal
  <2>8. d \in 1..MaxDispatches
    BY <2>2, <2>3, GoalAssumption
  <2>9. c \in Commit
    BY <2>4, <2>5, <2>6, <2>8 DEF Commit
  <2> QED
    BY <2>1, <2>2, <2>7, <2>9 DEF OneCommit
<1>21. ASSUME NEW p \in Procs, CommitFenced(p) PROVE OneCommit
  BY <1>21 DEF CommitFenced, database, OneCommit
<1>22. ASSUME NEW p \in Procs, WriteGoal(p) PROVE OneCommit
  BY <1>22 DEF WriteGoal, database, OneCommit
<1>23. ASSUME NEW p \in Procs, WorkCheckpoint(p) PROVE OneCommit
  BY <1>23 DEF WorkCheckpoint, database, OneCommit
<1>24. ASSUME NEW p \in Procs, freezeSupervisorCandidate(p) PROVE OneCommit
  BY <1>24 DEF freezeSupervisorCandidate, database, OneCommit
<1>25. ASSUME NEW p \in Procs, StartWork(p) PROVE OneCommit
  BY <1>25 DEF StartWork, database, OneCommit
<1>26. ASSUME NEW p \in Procs, DispatchRefused(p) PROVE OneCommit
  BY <1>26 DEF DispatchRefused, database, OneCommit
<1>27. ASSUME NEW p \in Procs, DispatchWorker(p) PROVE OneCommit
  BY <1>27 DEF DispatchWorker, database, OneCommit
<1>28. ASSUME NEW p \in Procs, WorkerReturns(p) PROVE OneCommit
  BY <1>28 DEF WorkerReturns, database, OneCommit
<1>29. ASSUME NEW p \in Procs, WorkUnsigned(p) PROVE OneCommit
  BY <1>29 DEF WorkUnsigned, database, OneCommit
<1>30. ASSUME NEW p \in Procs, ReadAfter(p) PROVE OneCommit
  BY <1>30 DEF ReadAfter, database, OneCommit
<1>31. ASSUME NEW p \in Procs, ClearPid(p) PROVE OneCommit
  BY <1>31 DEF ClearPid, database, OneCommit
<1>32. ASSUME NEW p \in Procs, ClaimCompletion(p) PROVE OneCommit
  BY <1>32 DEF ClaimCompletion, OneCommit
<1>33. ASSUME NEW p \in Procs, WorkReported(p) PROVE OneCommit
  BY <1>33 DEF WorkReported, database, OneCommit
<1>34. ASSUME NEW p \in Procs, CliGrade(p) PROVE OneCommit
  BY <1>34 DEF CliGrade, database, OneCommit
<1>35. ASSUME NEW p \in Procs, CliRefused(p) PROVE OneCommit
  BY <1>35 DEF CliRefused, database, OneCommit
<1>36. ASSUME NEW p \in Procs, Crash(p) PROVE OneCommit
  BY <1>36 DEF Crash, database, OneCommit
<1>37. CASE RedefineGoal
  BY <1>37 DEF RedefineGoal, database, OneCommit
<1>38. CASE ReportGoal
  BY <1>38 DEF ReportGoal, database, OneCommit
<1>39. CASE EditSource
  BY <1>39 DEF EditSource, database, OneCommit
<1>40. CASE MoveTask
  BY <1>40 DEF MoveTask, OneCommit
<1> QED
  BY <1>1, <1>2, <1>3, <1>4, <1>5, <1>6, <1>7, <1>8, <1>9, <1>10, <1>11, <1>12, <1>13,
     <1>14, <1>15, <1>16, <1>17, <1>18, <1>19, <1>20, <1>21, <1>22, <1>23, <1>24, <1>25,
     <1>26, <1>27, <1>28, <1>29, <1>30, <1>31, <1>32, <1>33, <1>34, <1>35, <1>36, <1>37,
     <1>38, <1>39, <1>40 DEF Next, Run, Enter, Review, Grade, Work

(* Commits stay backed by their receipts. *)
LEMMA BackedStep ==
  ASSUME GoalInv, Next
  PROVE  CommitsBacked'
<1>0. /\ HistoryKept /\ OneCommit
      /\ Len(dispatches) \in Nat /\ Len(dispatches') \in Nat
      /\ commits \in Seq(Commit)
  BY HistoryStep, CommitFrame, StoreType DEF StoreTyped, GoalInv, TypeOK
<1>1. SUFFICES ASSUME NEW i \in 1..Len(commits')
      PROVE  /\ commits'[i].dispatch \in 1..Len(dispatches')
             /\ dispatches'[commits'[i].dispatch].verdict = commits'[i].verdict
             /\ dispatches'[commits'[i].dispatch].claim = commits'[i].claim
             /\ commits'[i].final.status = "done" => commits'[i].verdict = "pass"
             /\ commits'[i].final.pid = None
  BY DEF CommitsBacked
<1>2. CASE i \in 1..Len(commits)
  <2>1. commits'[i] = commits[i]
    BY <1>0, <1>2 DEF HistoryKept
  <2>2. commits[i] \in Commit
    BY <1>0, <1>2
  <2>3. /\ commits[i].dispatch \in 1..Len(dispatches)
        /\ dispatches[commits[i].dispatch].verdict = commits[i].verdict
        /\ dispatches[commits[i].dispatch].claim = commits[i].claim
        /\ commits[i].final.status = "done" => commits[i].verdict = "pass"
        /\ commits[i].final.pid = None
    BY <1>2 DEF GoalInv, CommitsBacked
  <2>4. commits[i].verdict # "none"
    BY <2>2 DEF Commit
  <2> QED
    BY <1>0, <2>1, <2>3, <2>4 DEF HistoryKept
<1>3. CASE i \notin 1..Len(commits)
  BY <1>0, <1>3 DEF OneCommit
<1> QED
  BY <1>2, <1>3

CommittedPass == \E i \in 1..Len(commits) : commits[i].verdict = "pass"
WasDone == goal.status = "done" \/ CommittedPass

(* A goal becomes done only after a committed pass. *)
LEMMA StatusFrame ==
  ASSUME GoalInv, goal'.status = "done", Next
  PROVE  WasDone
<1>1. ASSUME NEW p \in Procs, StartCycle(p) PROVE WasDone
  BY <1>1 DEF StartCycle, Goal, GoalInv, TypeOK, WasDone, CommittedPass
<1>2. ASSUME NEW p \in Procs, recoverSupervisorCompletion(p) PROVE WasDone
  <2>1. local[p].commit \in Nat /\ local[p].commit <= Len(commits)
    BY DEF GoalInv, TypeOK, RecoverInRange, Local
  <2>2. local[p].commit > 0 => local[p].commit \in 1..Len(commits)
    BY <2>1 DEF GoalInv, TypeOK
  <2> QED
    BY <1>2, <2>2 DEF recoverSupervisorCompletion, GoalInv, CommitsBacked, WasDone,
       CommittedPass
<1>3. ASSUME NEW p \in Procs, ReadGoal(p) PROVE WasDone
  BY <1>3 DEF ReadGoal, Goal, GoalInv, TypeOK, WasDone, CommittedPass
<1>4. ASSUME NEW p \in Procs, TakeFence(p) PROVE WasDone
  BY <1>4 DEF TakeFence, Goal, GoalInv, TypeOK, WasDone, CommittedPass
<1>5. ASSUME NEW p \in Procs, RefusedFence(p) PROVE WasDone
  BY <1>5 DEF RefusedFence, Goal, GoalInv, TypeOK, WasDone, CommittedPass
<1>6. ASSUME NEW p \in Procs, ReviewStale(p) PROVE WasDone
  BY <1>6 DEF ReviewStale, Goal, GoalInv, TypeOK, WasDone, CommittedPass
<1>7. ASSUME NEW p \in Procs, recoverAbandonedReviewDispatch(p) PROVE WasDone
  BY <1>7 DEF recoverAbandonedReviewDispatch, Inconclusive, Goal, GoalInv, TypeOK, WasDone,
     CommittedPass
<1>8. ASSUME NEW p \in Procs, ReviewExhausted(p) PROVE WasDone
  BY <1>8 DEF ReviewExhausted, Inconclusive, Goal, GoalInv, TypeOK, WasDone, CommittedPass
<1>9. ASSUME NEW p \in Procs, ReviewWaits(p) PROVE WasDone
  BY <1>9 DEF ReviewWaits, Goal, GoalInv, TypeOK, WasDone, CommittedPass
<1>10. ASSUME NEW p \in Procs, CreateReviewRun(p) PROVE WasDone
  BY <1>10 DEF CreateReviewRun, Goal, GoalInv, TypeOK, WasDone, CommittedPass
<1>11. ASSUME NEW p \in Procs, DispatchReview(p) PROVE WasDone
  BY <1>11 DEF DispatchReview, Goal, GoalInv, TypeOK, WasDone, CommittedPass
<1>12. ASSUME NEW p \in Procs, ReviewerReturns(p) PROVE WasDone
  BY <1>12 DEF ReviewerReturns, Goal, GoalInv, TypeOK, WasDone, CommittedPass
<1>13. ASSUME NEW p \in Procs, recordInconclusiveReviewAttempt(p) PROVE WasDone
  BY <1>13 DEF recordInconclusiveReviewAttempt, Inconclusive, Goal, GoalInv, TypeOK,
     WasDone, CommittedPass
<1>14. ASSUME NEW p \in Procs, ReviewUnbound(p) PROVE WasDone
  BY <1>14 DEF ReviewUnbound, Goal, GoalInv, TypeOK, WasDone, CommittedPass
<1>15. ASSUME NEW p \in Procs, postReviewSourceChange(p) PROVE WasDone
  BY <1>15 DEF postReviewSourceChange, Reopened, Goal, GoalInv, TypeOK, WasDone,
     CommittedPass
<1>16. ASSUME NEW p \in Procs, recordIndependentReviewExecution(p) PROVE WasDone
  BY <1>16 DEF recordIndependentReviewExecution, Goal, GoalInv, TypeOK, WasDone,
     CommittedPass
<1>17. ASSUME NEW p \in Procs, GradeRefused(p) PROVE WasDone
  BY <1>17 DEF GradeRefused, Throw, Orphan, Goal, GoalInv, TypeOK, WasDone, CommittedPass
<1>18. ASSUME NEW p \in Procs, GradeBegin(p) PROVE WasDone
  BY <1>18 DEF GradeBegin, Goal, GoalInv, TypeOK, WasDone, CommittedPass
<1>19. ASSUME NEW p \in Procs, GradeReopens(p) PROVE WasDone
  BY <1>19 DEF GradeReopens, Throw, Orphan, Reopened, Goal, GoalInv, TypeOK, WasDone,
     CommittedPass
<1>20. ASSUME NEW p \in Procs, CommitGrade(p) PROVE WasDone
  BY <1>20 DEF CommitGrade, Goal, GoalInv, TypeOK, WasDone, CommittedPass
<1>21. ASSUME NEW p \in Procs, CommitFenced(p) PROVE WasDone
  BY <1>21 DEF CommitFenced, Throw, Orphan, Reopened, Goal, GoalInv, TypeOK, WasDone,
     CommittedPass
<1>22. ASSUME NEW p \in Procs, WriteGoal(p) PROVE WasDone
  <2> DEFINE v == dispatches[local[p].dispatch].verdict
  <2>1. v = "pass"
    BY <1>22 DEF WriteGoal, Graded, GoalInv, TypeOK, Goal
  <2>2. PICK i \in 1..Len(commits) : commits[i].dispatch = local[p].dispatch
    BY <1>22 DEF WriteGoal, GoalInv, GradeCommitted
  <2> QED
    BY <2>1, <2>2 DEF GoalInv, CommitsBacked, WasDone, CommittedPass
<1>23. ASSUME NEW p \in Procs, WorkCheckpoint(p) PROVE WasDone
  BY <1>23 DEF WorkCheckpoint, Reopened, Goal, GoalInv, TypeOK, WasDone, CommittedPass
<1>24. ASSUME NEW p \in Procs, freezeSupervisorCandidate(p) PROVE WasDone
  BY <1>24 DEF freezeSupervisorCandidate, Goal, GoalInv, TypeOK, WasDone, CommittedPass
<1>25. ASSUME NEW p \in Procs, StartWork(p) PROVE WasDone
  BY <1>25 DEF StartWork, Goal, GoalInv, TypeOK, WasDone, CommittedPass
<1>26. ASSUME NEW p \in Procs, DispatchRefused(p) PROVE WasDone
  BY <1>26 DEF DispatchRefused, Reopened, Goal, GoalInv, TypeOK, WasDone, CommittedPass
<1>27. ASSUME NEW p \in Procs, DispatchWorker(p) PROVE WasDone
  BY <1>27 DEF DispatchWorker, Throw, Orphan, Goal, GoalInv, TypeOK, WasDone, CommittedPass
<1>28. ASSUME NEW p \in Procs, WorkerReturns(p) PROVE WasDone
  BY <1>28 DEF WorkerReturns, Goal, GoalInv, TypeOK, WasDone, CommittedPass
<1>29. ASSUME NEW p \in Procs, WorkUnsigned(p) PROVE WasDone
  BY <1>29 DEF WorkUnsigned, Reopened, Goal, GoalInv, TypeOK, WasDone, CommittedPass
<1>30. ASSUME NEW p \in Procs, ReadAfter(p) PROVE WasDone
  BY <1>30 DEF ReadAfter, Goal, GoalInv, TypeOK, WasDone, CommittedPass
<1>31. ASSUME NEW p \in Procs, ClearPid(p) PROVE WasDone
  BY <1>31 DEF ClearPid, Goal, GoalInv, TypeOK, WasDone, CommittedPass
<1>32. ASSUME NEW p \in Procs, ClaimCompletion(p) PROVE WasDone
  BY <1>32 DEF ClaimCompletion, Goal, GoalInv, TypeOK, WasDone, CommittedPass
<1>33. ASSUME NEW p \in Procs, WorkReported(p) PROVE WasDone
  BY <1>33 DEF WorkReported, Reopened, Goal, GoalInv, TypeOK, WasDone, CommittedPass
<1>34. ASSUME NEW p \in Procs, CliGrade(p) PROVE WasDone
  BY <1>34 DEF CliGrade, Goal, GoalInv, TypeOK, WasDone, CommittedPass
<1>35. ASSUME NEW p \in Procs, CliRefused(p) PROVE WasDone
  BY <1>35 DEF CliRefused, Goal, GoalInv, TypeOK, WasDone, CommittedPass
<1>36. ASSUME NEW p \in Procs, Crash(p) PROVE WasDone
  BY <1>36 DEF Crash, Orphan, Goal, GoalInv, TypeOK, WasDone, CommittedPass
<1>37. CASE RedefineGoal
  BY <1>37 DEF RedefineGoal, Goal, GoalInv, TypeOK, WasDone, CommittedPass
<1>38. CASE ReportGoal
  BY <1>38 DEF ReportGoal, Goal, GoalInv, TypeOK, WasDone, CommittedPass
<1>39. CASE EditSource
  BY <1>39 DEF EditSource, Goal, GoalInv, TypeOK, WasDone, CommittedPass
<1>40. CASE MoveTask
  BY <1>40 DEF MoveTask, Goal, GoalInv, TypeOK, WasDone, CommittedPass
<1> QED
  BY <1>1, <1>2, <1>3, <1>4, <1>5, <1>6, <1>7, <1>8, <1>9, <1>10, <1>11, <1>12, <1>13,
     <1>14, <1>15, <1>16, <1>17, <1>18, <1>19, <1>20, <1>21, <1>22, <1>23, <1>24, <1>25,
     <1>26, <1>27, <1>28, <1>29, <1>30, <1>31, <1>32, <1>33, <1>34, <1>35, <1>36, <1>37,
     <1>38, <1>39, <1>40 DEF Next, Run, Enter, Review, Grade, Work

(* A done goal keeps its committed pass. *)
LEMMA DoneStep ==
  ASSUME GoalInv, Next
  PROVE  DoneIsGraded'
<1>1. SUFFICES ASSUME goal'.status = "done"
      PROVE  \E i \in 1..Len(commits') :
               /\ commits'[i].verdict = "pass"
               /\ dispatches'[commits'[i].dispatch].verdict = "pass"
               /\ dispatches'[commits'[i].dispatch].claim = commits'[i].claim
  BY DEF DoneIsGraded
<1>2. PICK i \in 1..Len(commits) : commits[i].verdict = "pass"
  BY <1>1, StatusFrame DEF GoalInv, DoneIsGraded, WasDone, CommittedPass
<1>3. i \in 1..Len(commits') /\ commits'[i] = commits[i]
  BY HistoryStep, StoreType DEF HistoryKept, StoreTyped, GoalInv, TypeOK
<1> QED
  BY <1>2, <1>3, BackedStep DEF CommitsBacked

(* The task is completed with the commit and stays so. *)
LEMMA TaskStep ==
  ASSUME GoalInv, Next
  PROVE  TaskFollowsCommit'
<1>1. ASSUME NEW p \in Procs, StartCycle(p) PROVE TaskFollowsCommit'
  BY <1>1 DEF StartCycle, database, GoalInv, TaskFollowsCommit
<1>2. ASSUME NEW p \in Procs, recoverSupervisorCompletion(p) PROVE TaskFollowsCommit'
  BY <1>2 DEF recoverSupervisorCompletion, database, GoalInv, TaskFollowsCommit
<1>3. ASSUME NEW p \in Procs, ReadGoal(p) PROVE TaskFollowsCommit'
  BY <1>3 DEF ReadGoal, database, GoalInv, TaskFollowsCommit
<1>4. ASSUME NEW p \in Procs, TakeFence(p) PROVE TaskFollowsCommit'
  BY <1>4 DEF TakeFence, database, GoalInv, TaskFollowsCommit
<1>5. ASSUME NEW p \in Procs, RefusedFence(p) PROVE TaskFollowsCommit'
  BY <1>5 DEF RefusedFence, database, GoalInv, TaskFollowsCommit
<1>6. ASSUME NEW p \in Procs, ReviewStale(p) PROVE TaskFollowsCommit'
  BY <1>6 DEF ReviewStale, database, GoalInv, TaskFollowsCommit
<1>7. ASSUME NEW p \in Procs, recoverAbandonedReviewDispatch(p) PROVE TaskFollowsCommit'
  BY <1>7 DEF recoverAbandonedReviewDispatch, GoalInv, TaskFollowsCommit
<1>8. ASSUME NEW p \in Procs, ReviewExhausted(p) PROVE TaskFollowsCommit'
  BY <1>8 DEF ReviewExhausted, database, GoalInv, TaskFollowsCommit
<1>9. ASSUME NEW p \in Procs, ReviewWaits(p) PROVE TaskFollowsCommit'
  BY <1>9 DEF ReviewWaits, database, GoalInv, TaskFollowsCommit
<1>10. ASSUME NEW p \in Procs, CreateReviewRun(p) PROVE TaskFollowsCommit'
  BY <1>10 DEF CreateReviewRun, GoalInv, TaskFollowsCommit
<1>11. ASSUME NEW p \in Procs, DispatchReview(p) PROVE TaskFollowsCommit'
  BY <1>11 DEF DispatchReview, database, GoalInv, TaskFollowsCommit
<1>12. ASSUME NEW p \in Procs, ReviewerReturns(p) PROVE TaskFollowsCommit'
  BY <1>12 DEF ReviewerReturns, GoalInv, TaskFollowsCommit
<1>13. ASSUME NEW p \in Procs, recordInconclusiveReviewAttempt(p) PROVE TaskFollowsCommit'
  BY <1>13 DEF recordInconclusiveReviewAttempt, database, GoalInv, TaskFollowsCommit
<1>14. ASSUME NEW p \in Procs, ReviewUnbound(p) PROVE TaskFollowsCommit'
  BY <1>14 DEF ReviewUnbound, database, GoalInv, TaskFollowsCommit
<1>15. ASSUME NEW p \in Procs, postReviewSourceChange(p) PROVE TaskFollowsCommit'
  BY <1>15 DEF postReviewSourceChange, database, GoalInv, TaskFollowsCommit
<1>16. ASSUME NEW p \in Procs, recordIndependentReviewExecution(p) PROVE TaskFollowsCommit'
  BY <1>16 DEF recordIndependentReviewExecution, GoalInv, TaskFollowsCommit
<1>17. ASSUME NEW p \in Procs, GradeRefused(p) PROVE TaskFollowsCommit'
  BY <1>17 DEF GradeRefused, database, GoalInv, TaskFollowsCommit
<1>18. ASSUME NEW p \in Procs, GradeBegin(p) PROVE TaskFollowsCommit'
  BY <1>18 DEF GradeBegin, database, GoalInv, TaskFollowsCommit
<1>19. ASSUME NEW p \in Procs, GradeReopens(p) PROVE TaskFollowsCommit'
  BY <1>19 DEF GradeReopens, database, GoalInv, TaskFollowsCommit
<1>20. ASSUME NEW p \in Procs, CommitGrade(p) PROVE TaskFollowsCommit'
  <2> DEFINE d == local[p].dispatch
             v == dispatches[d].verdict
             c == [dispatch |-> d, claim |-> goal.pending.claim, task |-> goal.pending.task,
                   verdict |-> v, final |-> Graded(goal, v)]
  <2>1. commits' = Append(commits, c) /\ commits \in Seq(Commit)
    BY <1>20 DEF CommitGrade, GoalInv, TypeOK
  <2>2. task' = IF c.verdict = "pass" /\ c.task THEN "completed" ELSE task
    BY <1>20 DEF CommitGrade
  <2> HIDE DEF c
  <2>3. /\ Len(commits') = Len(commits) + 1 /\ commits'[Len(commits) + 1] = c
        /\ \A i \in 1..Len(commits) : commits'[i] = commits[i]
    BY <2>1
  <2>4. (\E i \in 1..Len(commits') : commits'[i].verdict = "pass" /\ commits'[i].task)
        <=> \/ \E i \in 1..Len(commits) : commits[i].verdict = "pass" /\ commits[i].task
            \/ c.verdict = "pass" /\ c.task
    BY <2>1, <2>3
  <2> QED
    BY <2>2, <2>4 DEF GoalInv, TaskFollowsCommit
<1>21. ASSUME NEW p \in Procs, CommitFenced(p) PROVE TaskFollowsCommit'
  BY <1>21 DEF CommitFenced, database, GoalInv, TaskFollowsCommit
<1>22. ASSUME NEW p \in Procs, WriteGoal(p) PROVE TaskFollowsCommit'
  BY <1>22 DEF WriteGoal, database, GoalInv, TaskFollowsCommit
<1>23. ASSUME NEW p \in Procs, WorkCheckpoint(p) PROVE TaskFollowsCommit'
  BY <1>23 DEF WorkCheckpoint, database, GoalInv, TaskFollowsCommit
<1>24. ASSUME NEW p \in Procs, freezeSupervisorCandidate(p) PROVE TaskFollowsCommit'
  BY <1>24 DEF freezeSupervisorCandidate, database, GoalInv, TaskFollowsCommit
<1>25. ASSUME NEW p \in Procs, StartWork(p) PROVE TaskFollowsCommit'
  BY <1>25 DEF StartWork, database, GoalInv, TaskFollowsCommit
<1>26. ASSUME NEW p \in Procs, DispatchRefused(p) PROVE TaskFollowsCommit'
  BY <1>26 DEF DispatchRefused, database, GoalInv, TaskFollowsCommit
<1>27. ASSUME NEW p \in Procs, DispatchWorker(p) PROVE TaskFollowsCommit'
  BY <1>27 DEF DispatchWorker, database, GoalInv, TaskFollowsCommit
<1>28. ASSUME NEW p \in Procs, WorkerReturns(p) PROVE TaskFollowsCommit'
  BY <1>28 DEF WorkerReturns, database, GoalInv, TaskFollowsCommit
<1>29. ASSUME NEW p \in Procs, WorkUnsigned(p) PROVE TaskFollowsCommit'
  BY <1>29 DEF WorkUnsigned, database, GoalInv, TaskFollowsCommit
<1>30. ASSUME NEW p \in Procs, ReadAfter(p) PROVE TaskFollowsCommit'
  BY <1>30 DEF ReadAfter, database, GoalInv, TaskFollowsCommit
<1>31. ASSUME NEW p \in Procs, ClearPid(p) PROVE TaskFollowsCommit'
  BY <1>31 DEF ClearPid, database, GoalInv, TaskFollowsCommit
<1>32. ASSUME NEW p \in Procs, ClaimCompletion(p) PROVE TaskFollowsCommit'
  BY <1>32 DEF ClaimCompletion, GoalInv, TaskFollowsCommit
<1>33. ASSUME NEW p \in Procs, WorkReported(p) PROVE TaskFollowsCommit'
  BY <1>33 DEF WorkReported, database, GoalInv, TaskFollowsCommit
<1>34. ASSUME NEW p \in Procs, CliGrade(p) PROVE TaskFollowsCommit'
  BY <1>34 DEF CliGrade, database, GoalInv, TaskFollowsCommit
<1>35. ASSUME NEW p \in Procs, CliRefused(p) PROVE TaskFollowsCommit'
  BY <1>35 DEF CliRefused, database, GoalInv, TaskFollowsCommit
<1>36. ASSUME NEW p \in Procs, Crash(p) PROVE TaskFollowsCommit'
  BY <1>36 DEF Crash, database, GoalInv, TaskFollowsCommit
<1>37. CASE RedefineGoal
  BY <1>37 DEF RedefineGoal, database, GoalInv, TaskFollowsCommit
<1>38. CASE ReportGoal
  BY <1>38 DEF ReportGoal, database, GoalInv, TaskFollowsCommit
<1>39. CASE EditSource
  BY <1>39 DEF EditSource, database, GoalInv, TaskFollowsCommit
<1>40. CASE MoveTask
  BY <1>40 DEF MoveTask, GoalInv, TaskFollowsCommit
<1> QED
  BY <1>1, <1>2, <1>3, <1>4, <1>5, <1>6, <1>7, <1>8, <1>9, <1>10, <1>11, <1>12, <1>13,
     <1>14, <1>15, <1>16, <1>17, <1>18, <1>19, <1>20, <1>21, <1>22, <1>23, <1>24, <1>25,
     <1>26, <1>27, <1>28, <1>29, <1>30, <1>31, <1>32, <1>33, <1>34, <1>35, <1>36, <1>37,
     <1>38, <1>39, <1>40 DEF Next, Run, Enter, Review, Grade, Work

(* The initial states satisfy the invariant. *)
LEMMA InitInv ==
  ASSUME Init
  PROVE  GoalInv
<1>1. FirstGoal \in Goal /\ Seen(FirstGoal) \in [epoch : 0..MaxEpoch, pending : Pending]
  <2>1. NoPending \in Pending
    BY DEF Pending
  <2> QED
    BY <2>1, GoalAssumption DEF FirstGoal, Goal, GoalStatus, Seen
<1>2. Fresh \in Local
  BY GoalAssumption DEF Fresh, Local, Results
<1>3. TypeOK
  <2>1. /\ goal \in Goal /\ task \in {"none", "ready"} /\ source \in Sources
        /\ claims \in 0..MaxClaims /\ crashes \in 0..MaxCrashes
    BY <1>1, GoalAssumption DEF Init
  <2>2. /\ dispatches \in Seq(Dispatch) /\ commits \in Seq(Commit)
        /\ Len(dispatches) <= MaxDispatches
    BY GoalAssumption DEF Init
  <2>3. fence = None /\ contended = FALSE /\ lock = None
    BY DEF Init
  <2>4. pc \in [Procs -> PCs]
    BY DEF Init, PCs
  <2>5. snap \in [Procs -> [epoch : 0..MaxEpoch, pending : Pending]]
    BY <1>1 DEF Init
  <2>6. local \in [Procs -> Local]
    BY <1>2 DEF Init
  <2> QED
    BY <2>1, <2>2, <2>3, <2>4, <2>5, <2>6 DEF TypeOK
<1>4. LockHeld /\ ClaimOfReview /\ ReviewOwned /\ Frozen
  BY GoalAssumption DEF Init, LockHeld, ClaimOfReview, ReviewOwned, Reviewing, Frozen
<1>5. GradeReceipt /\ GradeClaim /\ GradeCommitted /\ CommitsBacked
  BY DEF Init, GradeReceipt, GradeClaim, GradeCommitted, CommitsBacked, Grading
<1>6. RecoverInRange /\ PidBusy
  BY GoalAssumption DEF Init, RecoverInRange, PidBusy, Fresh, FirstGoal
<1>7. DoneIsGraded /\ TaskFollowsCommit
  BY DEF Init, DoneIsGraded, TaskFollowsCommit, FirstGoal
<1> QED
  BY <1>3, <1>4, <1>5, <1>6, <1>7 DEF GoalInv

(* Every step keeps the invariant. *)
LEMMA NextInv ==
  ASSUME GoalInv, [Next]_vars
  PROVE  GoalInv'
<1>1. CASE Next
  <2>1. TypeOK'
    BY <1>1, GoalType, StoreType, ControlType DEF StoreTyped, ControlTyped, TypeOK
  <2> QED
    BY <1>1, <2>1, LockStep, ClaimStep, ReviewStep, GradeStep, BackedStep, RangeStep,
       PidStep, FrozenStep, DoneStep, TaskStep DEF GoalInv
<1>2. CASE UNCHANGED vars
  <2>1. TypeOK' /\ DoneIsGraded' /\ TaskFollowsCommit'
    BY <1>2 DEF vars, GoalInv, TypeOK, DoneIsGraded, TaskFollowsCommit
  <2>2. LockHeld' /\ ClaimOfReview' /\ ReviewOwned' /\ Frozen' /\ PidBusy'
    BY <1>2 DEF vars, GoalInv, LockHeld, ClaimOfReview, ReviewOwned, Frozen, PidBusy
  <2>3. GradeReceipt' /\ GradeClaim' /\ GradeCommitted' /\ CommitsBacked' /\ RecoverInRange'
    BY <1>2 DEF vars, GoalInv, GradeReceipt, GradeClaim, GradeCommitted, CommitsBacked,
                RecoverInRange
  <2> QED
    BY <2>1, <2>2, <2>3 DEF GoalInv
<1> QED
  BY <1>1, <1>2

(* GoalInv is an invariant of every behaviour. *)
LEMMA Invariance == Spec => []GoalInv
  BY InitInv, NextInv, PTL DEF Spec

(* Every variable of the goal's cycles, reviews and grades keeps its type, an      *)
(* attempt count never passes MAX_INDEPENDENT_REVIEW_ATTEMPTS included.            *)
THEOREM GoalTypeCorrect == Spec => []TypeOK
<1>1. GoalInv => TypeOK
  BY DEF GoalInv
<1> QED
  BY <1>1, Invariance, PTL

(* "A worker claim alone can never mark a goal done" (src/supervisor/state.ts):  *)
(* for any number of processes, whatever crashes, a done goal has a committed    *)
(* pass that repeats a passing independent receipt for the same claim.           *)
THEOREM DoneGraded == Spec => []DoneIsGraded
<1>1. GoalInv => DoneIsGraded
  BY DEF GoalInv
<1> QED
  BY <1>1, Invariance, PTL

(* The canonical task is completed exactly when a pass of a claim about it is    *)
(* committed: the transaction of applyIndependentCompletionGrade writes both or  *)
(* neither.                                                                      *)
THEOREM TaskCommit == Spec => []TaskFollowsCommit
<1>1. GoalInv => TaskFollowsCommit
  BY DEF GoalInv
<1> QED
  BY <1>1, Invariance, PTL

(* Both together: a goal is done, and its canonical task completed, by a committed *)
(* pass of an independent review and by nothing else, in every interleaving of    *)
(* cycles, grades, crashes and the owner (applyIndependentCompletionGrade).       *)
THEOREM CompletionGraded == Spec => []CompletionIsGraded
<1>1. DoneIsGraded /\ TaskFollowsCommit => CompletionIsGraded
  BY DEF CompletionIsGraded
<1> QED
  BY <1>1, DoneGraded, TaskCommit, PTL

(* No cycle or grade ends, by return, error or crash, with its own live pid left *)
(* on the goal, so the daemon's filter never passes the goal over for good.      *)
THEOREM LivePid == Spec => []LivePidWorks
<1>1. GoalInv => LivePidWorks
  BY DEF GoalInv, PidBusy, LivePidWorks, Busy, Grading
<1> QED
  BY <1>1, Invariance, PTL
-------------------------------------------------------------------------------
(* A claim is decided once.  The daemon and the foreground runs start the cycles   *)
(* of the goal, and the argument needs that one process does: two cycles that      *)
(* read the same pending claim before a grade commits it can each put it back      *)
(* after the other has read the commit.                                            *)
Cyclers == Daemons \cup Foregrounds
OneCycle == \A p, q \in Cyclers : p = q

DecidedClaims == {commits[i].claim : i \in 1..Len(commits)}
LastCommit == commits[Len(commits)]

Fenced == {"review", "dispatch", "reviewing", "settle", "work", "start", "check",
           "working", "after", "report", "clear"} \cup Grading

(* Whoever is past the fence holds it, and a grader does nothing but grade.        *)
FenceHeld == \A p \in Procs : pc[p] \in Fenced => fence = p
GradersGrade == \A p \in Graders : pc[p] \in {"idle"} \cup Grading

(* A claim number is one that was given, and a committed goal has none pending.    *)
ClaimsMade ==
  /\ goal.pending.claim <= claims
  /\ \A p \in Procs : snap[p].pending.claim <= claims
  /\ \A i \in 1..Len(commits) :
       commits[i].claim <= claims /\ commits[i].final.pending = NoPending

(* A decided claim that is pending again is the newest decision's, with that       *)
(* decision's dispatch or without any.                                             *)
Lingering ==
  goal.pending.claim \in DecidedClaims =>
    /\ LastCommit.claim = goal.pending.claim
    /\ goal.pending.dispatch \in {0, LastCommit.dispatch}

(* A transaction is open on an undecided claim.                                    *)
Undecided ==
  \A p \in Procs : pc[p] = "commit" =>
    /\ goal.pending.dispatch = local[p].dispatch
    /\ goal.pending.claim \notin DecidedClaims

(* A decided claim without its dispatch could be reviewed again: the cycle that    *)
(* would do so holds the decision first and writes it over the goal.               *)
Redo == goal.pending.claim \in DecidedClaims /\ goal.pending.dispatch = 0

RecoverFinds ==
  \A p \in Cyclers : Redo =>
    /\ pc[p] = "recover" => local[p].commit = Len(commits)
    /\ pc[p] = "read" => goal.status = "done"

(* What a cycle has read is undecided wherever it would start a review of it, and  *)
(* a decided claim it can put back is the newest decision's.                       *)
ReviewFinds ==
  \A p \in Cyclers :
    /\ pc[p] = "fence" => goal.pending \in {snap[p].pending, NoPending}
    /\ pc[p] \in {"fence", "review"} /\ snap[p].pending.claim \in DecidedClaims =>
         snap[p].pending.dispatch # 0 /\ LastCommit.claim = snap[p].pending.claim
    /\ pc[p] \in Reviewing \cup {"grade"} => snap[p].pending.claim \notin DecidedClaims

FenceInv == FenceHeld /\ GradersGrade

Decisions ==
  /\ ClaimsMade /\ Lingering /\ Undecided /\ RecoverFinds /\ ReviewFinds
  /\ ClaimDecidedOnce

OnceInv == FenceInv /\ Decisions

(* The fence is with the process past it, through every step. *)
LEMMA FenceStep ==
  ASSUME GoalInv, FenceInv, Next
  PROVE  FenceInv'
<1>1. ASSUME NEW p \in Procs, StartCycle(p) PROVE FenceInv'
  BY <1>1, GoalAssumption DEF StartCycle, Goto, GoalInv, TypeOK, FenceInv, FenceHeld,
     GradersGrade, Fenced, Grading
<1>2. ASSUME NEW p \in Procs, recoverSupervisorCompletion(p) PROVE FenceInv'
  BY <1>2, GoalAssumption DEF recoverSupervisorCompletion, Goto, GoalInv, TypeOK,
     FenceInv, FenceHeld, GradersGrade, Fenced, Grading
<1>3. ASSUME NEW p \in Procs, ReadGoal(p) PROVE FenceInv'
  <2>1. CASE goal.status \in {"done", "paused"}
    <3>1. Leave(p)
      BY <1>3, <2>1 DEF ReadGoal
    <3> QED
      BY <3>1, GoalAssumption DEF Leave, Goto, GoalInv, TypeOK, FenceInv, FenceHeld,
         GradersGrade, Fenced, Grading
  <2>2. CASE goal.status \notin {"done", "paused"}
    <3>1. pc[p] = "read" /\ Goto(p, "fence") /\ fence' = fence
      BY <1>3, <2>2 DEF ReadGoal
    <3> QED
      BY <3>1, GoalAssumption DEF Goto, GoalInv, TypeOK, FenceInv, FenceHeld, GradersGrade,
         Fenced, Grading
  <2> QED
    BY <2>1, <2>2
<1>4. ASSUME NEW p \in Procs, TakeFence(p) PROVE FenceInv'
  BY <1>4, GoalAssumption DEF TakeFence, Goto, GoalInv, TypeOK, FenceInv, FenceHeld,
     GradersGrade, Fenced, Grading
<1>5. ASSUME NEW p \in Procs, RefusedFence(p) PROVE FenceInv'
  BY <1>5, GoalAssumption DEF RefusedFence, Leave, Goto, GoalInv, TypeOK, FenceInv,
     FenceHeld, GradersGrade, Fenced, Grading
<1>6. ASSUME NEW p \in Procs, ReviewStale(p) PROVE FenceInv'
  BY <1>6, GoalAssumption DEF ReviewStale, Leave, Goto, GoalInv, TypeOK, FenceInv,
     FenceHeld, GradersGrade, Fenced, Grading
<1>7. ASSUME NEW p \in Procs, recoverAbandonedReviewDispatch(p) PROVE FenceInv'
  BY <1>7, GoalAssumption DEF recoverAbandonedReviewDispatch, Leave, Goto, GoalInv,
     TypeOK, FenceInv, FenceHeld, GradersGrade, Fenced, Grading
<1>8. ASSUME NEW p \in Procs, ReviewExhausted(p) PROVE FenceInv'
  BY <1>8, GoalAssumption DEF ReviewExhausted, Leave, Goto, GoalInv, TypeOK, FenceInv,
     FenceHeld, GradersGrade, Fenced, Grading
<1>9. ASSUME NEW p \in Procs, ReviewWaits(p) PROVE FenceInv'
  BY <1>9, GoalAssumption DEF ReviewWaits, Leave, Goto, GoalInv, TypeOK, FenceInv,
     FenceHeld, GradersGrade, Fenced, Grading
<1>10. ASSUME NEW p \in Procs, CreateReviewRun(p) PROVE FenceInv'
  BY <1>10, GoalAssumption DEF CreateReviewRun, Goto, GoalInv, TypeOK, FenceInv,
     FenceHeld, GradersGrade, Fenced, Grading
<1>11. ASSUME NEW p \in Procs, DispatchReview(p) PROVE FenceInv'
  BY <1>11, GoalAssumption DEF DispatchReview, Goto, GoalInv, TypeOK, FenceInv,
     FenceHeld, GradersGrade, Fenced, Grading
<1>12. ASSUME NEW p \in Procs, ReviewerReturns(p) PROVE FenceInv'
  BY <1>12, GoalAssumption DEF ReviewerReturns, Goto, GoalInv, TypeOK, FenceInv,
     FenceHeld, GradersGrade, Fenced, Grading
<1>13. ASSUME NEW p \in Procs, recordInconclusiveReviewAttempt(p) PROVE FenceInv'
  BY <1>13, GoalAssumption DEF recordInconclusiveReviewAttempt, Leave, Goto, GoalInv,
     TypeOK, FenceInv, FenceHeld, GradersGrade, Fenced, Grading
<1>14. ASSUME NEW p \in Procs, ReviewUnbound(p) PROVE FenceInv'
  BY <1>14, GoalAssumption DEF ReviewUnbound, Leave, Goto, GoalInv, TypeOK, FenceInv,
     FenceHeld, GradersGrade, Fenced, Grading
<1>15. ASSUME NEW p \in Procs, postReviewSourceChange(p) PROVE FenceInv'
  BY <1>15, GoalAssumption DEF postReviewSourceChange, Leave, Goto, GoalInv, TypeOK,
     FenceInv, FenceHeld, GradersGrade, Fenced, Grading
<1>16. ASSUME NEW p \in Procs, recordIndependentReviewExecution(p) PROVE FenceInv'
  BY <1>16, GoalAssumption DEF recordIndependentReviewExecution, Goto, GoalInv,
     TypeOK, FenceInv, FenceHeld, GradersGrade, Fenced, Grading
<1>17. ASSUME NEW p \in Procs, GradeRefused(p) PROVE FenceInv'
  BY <1>17, GoalAssumption DEF GradeRefused, Throw, Leave, Goto, GoalInv, TypeOK,
     FenceInv, FenceHeld, GradersGrade, Fenced, Grading
<1>18. ASSUME NEW p \in Procs, GradeBegin(p) PROVE FenceInv'
  BY <1>18, GoalAssumption DEF GradeBegin, Goto, GoalInv, TypeOK, FenceInv, FenceHeld,
     GradersGrade, Fenced, Grading
<1>19. ASSUME NEW p \in Procs, GradeReopens(p) PROVE FenceInv'
  BY <1>19, GoalAssumption DEF GradeReopens, Throw, Leave, Goto, GoalInv, TypeOK,
     FenceInv, FenceHeld, GradersGrade, Fenced, Grading
<1>20. ASSUME NEW p \in Procs, CommitGrade(p) PROVE FenceInv'
  BY <1>20, GoalAssumption DEF CommitGrade, Goto, GoalInv, TypeOK, FenceInv,
     FenceHeld, GradersGrade, Fenced, Grading
<1>21. ASSUME NEW p \in Procs, CommitFenced(p) PROVE FenceInv'
  BY <1>21, GoalAssumption DEF CommitFenced, Throw, Leave, Goto, GoalInv, TypeOK,
     FenceInv, FenceHeld, GradersGrade, Fenced, Grading
<1>22. ASSUME NEW p \in Procs, WriteGoal(p) PROVE FenceInv'
  BY <1>22, GoalAssumption DEF WriteGoal, Leave, Goto, GoalInv, TypeOK, FenceInv,
     FenceHeld, GradersGrade, Fenced, Grading
<1>23. ASSUME NEW p \in Procs, WorkCheckpoint(p) PROVE FenceInv'
  BY <1>23, GoalAssumption DEF WorkCheckpoint, Leave, Goto, GoalInv, TypeOK, FenceInv,
     FenceHeld, GradersGrade, Fenced, Grading
<1>24. ASSUME NEW p \in Procs, freezeSupervisorCandidate(p) PROVE FenceInv'
  BY <1>24, GoalAssumption DEF freezeSupervisorCandidate, Goto, GoalInv, TypeOK,
     FenceInv, FenceHeld, GradersGrade, Fenced, Grading
<1>25. ASSUME NEW p \in Procs, StartWork(p) PROVE FenceInv'
  BY <1>25, GoalAssumption DEF StartWork, Goto, GoalInv, TypeOK, FenceInv, FenceHeld,
     GradersGrade, Fenced, Grading
<1>26. ASSUME NEW p \in Procs, DispatchRefused(p) PROVE FenceInv'
  BY <1>26, GoalAssumption DEF DispatchRefused, Leave, Goto, GoalInv, TypeOK,
     FenceInv, FenceHeld, GradersGrade, Fenced, Grading
<1>27. ASSUME NEW p \in Procs, DispatchWorker(p) PROVE FenceInv'
  <2>1. pc[p] = "check" /\ (Leave(p) \/ (Goto(p, "working") /\ fence' = fence))
    BY <1>27 DEF DispatchWorker, Throw
  <2>2. CASE Leave(p)
    BY <2>1, <2>2, GoalAssumption DEF Leave, Goto, GoalInv, TypeOK, FenceInv, FenceHeld,
       GradersGrade, Fenced, Grading
  <2>3. CASE Goto(p, "working") /\ fence' = fence
    BY <2>1, <2>3, GoalAssumption DEF Goto, GoalInv, TypeOK, FenceInv, FenceHeld,
       GradersGrade, Fenced, Grading
  <2> QED
    BY <2>1, <2>2, <2>3
<1>28. ASSUME NEW p \in Procs, WorkerReturns(p) PROVE FenceInv'
  BY <1>28, GoalAssumption DEF WorkerReturns, Goto, GoalInv, TypeOK, FenceInv,
     FenceHeld, GradersGrade, Fenced, Grading
<1>29. ASSUME NEW p \in Procs, WorkUnsigned(p) PROVE FenceInv'
  BY <1>29, GoalAssumption DEF WorkUnsigned, Leave, Goto, GoalInv, TypeOK, FenceInv,
     FenceHeld, GradersGrade, Fenced, Grading
<1>30. ASSUME NEW p \in Procs, ReadAfter(p) PROVE FenceInv'
  BY <1>30, GoalAssumption DEF ReadAfter, Goto, GoalInv, TypeOK, FenceInv, FenceHeld,
     GradersGrade, Fenced, Grading
<1>31. ASSUME NEW p \in Procs, ClearPid(p) PROVE FenceInv'
  BY <1>31, GoalAssumption DEF ClearPid, Leave, Goto, GoalInv, TypeOK, FenceInv,
     FenceHeld, GradersGrade, Fenced, Grading
<1>32. ASSUME NEW p \in Procs, ClaimCompletion(p) PROVE FenceInv'
  BY <1>32, GoalAssumption DEF ClaimCompletion, Leave, Goto, GoalInv, TypeOK,
     FenceInv, FenceHeld, GradersGrade, Fenced, Grading
<1>33. ASSUME NEW p \in Procs, WorkReported(p) PROVE FenceInv'
  BY <1>33, GoalAssumption DEF WorkReported, Leave, Goto, GoalInv, TypeOK, FenceInv,
     FenceHeld, GradersGrade, Fenced, Grading
<1>34. ASSUME NEW p \in Procs, CliGrade(p) PROVE FenceInv'
  BY <1>34, GoalAssumption DEF CliGrade, Goto, GoalInv, TypeOK, FenceInv, FenceHeld,
     GradersGrade, Fenced, Grading
<1>35. ASSUME NEW p \in Procs, CliRefused(p) PROVE FenceInv'
  BY <1>35, GoalAssumption DEF CliRefused, GoalInv, TypeOK, FenceInv, FenceHeld,
     GradersGrade, Fenced, Grading
<1>36. ASSUME NEW p \in Procs, Crash(p) PROVE FenceInv'
  BY <1>36, GoalAssumption DEF Crash, Goto, GoalInv, TypeOK, FenceInv, FenceHeld,
     GradersGrade, Fenced, Grading
<1>37. CASE RedefineGoal
  BY <1>37, GoalAssumption DEF RedefineGoal, GoalInv, TypeOK, FenceInv, FenceHeld,
     GradersGrade, Fenced, Grading
<1>38. CASE ReportGoal
  BY <1>38, GoalAssumption DEF ReportGoal, GoalInv, TypeOK, FenceInv, FenceHeld,
     GradersGrade, Fenced, Grading
<1>39. CASE EditSource
  BY <1>39, GoalAssumption DEF EditSource, GoalInv, TypeOK, FenceInv, FenceHeld,
     GradersGrade, Fenced, Grading
<1>40. CASE MoveTask
  BY <1>40, GoalAssumption DEF MoveTask, GoalInv, TypeOK, FenceInv, FenceHeld,
     GradersGrade, Fenced, Grading
<1> QED
  BY <1>1, <1>2, <1>3, <1>4, <1>5, <1>6, <1>7, <1>8, <1>9, <1>10, <1>11, <1>12, <1>13,
     <1>14, <1>15, <1>16, <1>17, <1>18, <1>19, <1>20, <1>21, <1>22, <1>23, <1>24, <1>25,
     <1>26, <1>27, <1>28, <1>29, <1>30, <1>31, <1>32, <1>33, <1>34, <1>35, <1>36, <1>37,
     <1>38, <1>39, <1>40 DEF Next, Run, Enter, Review, Grade, Work
(* The steps that matter to a decision are few.  All the others keep the commits    *)
(* and the claims, keep the pending claim or drop it, and move one process: out of  *)
(* the part of a cycle that starts from what it read, or forward in it.            *)
Loose == {"idle", "work", "start", "check", "working", "after", "report", "clear", "write"}

Stays(q) == pc'[q] = pc[q] /\ snap'[q] = snap[q] /\ local'[q] = local[q]
OneMoves(p) == \A q \in Procs : q # p => Stays(q)

Forward(p) ==
  /\ snap'[p] = snap[p]
  /\ \/ pc[p] = "fence" /\ pc'[p] = "review"
     \/ pc[p] = "review" /\ pc'[p] = "dispatch" /\ snap[p].pending.dispatch = 0
     \/ pc[p] \in Reviewing /\ pc'[p] \in {"reviewing", "settle", "grade"}
     \/ p \in Graders /\ pc'[p] = "grade"

PendingKept == goal'.pending = goal.pending /\ goal'.status = goal.status

Silent ==
  /\ commits' = commits /\ claims' = claims
  /\ PendingKept \/ goal'.pending = NoPending
  /\ \A q \in Procs : Stays(q)

Quiet(p) ==
  /\ commits' = commits /\ claims' = claims /\ OneMoves(p)
  /\ snap'[p].pending \in {snap[p].pending, NoPending}
  /\ \/ PendingKept
     \/ goal'.pending = NoPending
     \/ goal'.pending = goal.pending /\ p \in Cyclers /\ pc'[p] \in Loose
  /\ pc'[p] \in Loose \/ Forward(p)

(* A cycle puts back the claim it read.                                            *)
PutsBack(p) ==
  /\ commits' = commits /\ claims' = claims /\ OneMoves(p)
  /\ p \in Cyclers
  /\ snap'[p].pending \in {snap[p].pending, NoPending}
  /\ goal'.pending.claim = snap[p].pending.claim
  /\ \/ pc[p] \in Reviewing \cup {"grade"}
     \/ pc[p] = "review" /\ goal'.pending.dispatch = 0
  /\ \/ pc'[p] = "idle"
     \/ pc[p] = "dispatch" /\ pc'[p] = "reviewing" /\ snap'[p] = snap[p]

Decisive(p) ==
  \/ StartCycle(p) \/ recoverSupervisorCompletion(p) \/ ReadGoal(p)
  \/ GradeBegin(p) \/ CommitGrade(p) \/ ClaimCompletion(p)

DecisionStep ==
  \/ Silent
  \/ \E p \in Procs : Quiet(p) \/ PutsBack(p) \/ Decisive(p)

(* What a patch leaves of the pending claim. *)
LEMMA PatchPending ==
  ASSUME NEW g \in Goal, NEW p
  PROVE  /\ Reopened(g).pending = NoPending
         /\ Orphan(g, p).pending = g.pending /\ Orphan(g, p).status = g.status
         /\ \A v : Graded(g, v).pending = NoPending
         /\ \A c \in Claim : \A a : /\ Inconclusive(g, c, a).pending.claim = c.claim
                                    /\ Inconclusive(g, c, a).pending.dispatch = 0
         /\ \A c \in Claim : /\ WithoutDispatch(c).claim = c.claim
                            /\ WithoutDispatch(c).dispatch = 0
<1>1. \A c \in Claim : /\ WithoutDispatch(c) \in Claim
                      /\ WithoutDispatch(c).claim = c.claim
                      /\ WithoutDispatch(c).dispatch = 0
  BY GoalAssumption DEF WithoutDispatch, Claim
<1>2. ASSUME NEW c \in Claim, NEW a
      PROVE  /\ [c EXCEPT !.attempts = a].claim = c.claim
             /\ [c EXCEPT !.attempts = a].dispatch = c.dispatch
  BY DEF Claim
<1>3. ASSUME NEW c \in Claim, NEW a
      PROVE  /\ Inconclusive(g, c, a).pending.claim = c.claim
             /\ Inconclusive(g, c, a).pending.dispatch = 0
  <2>1. Inconclusive(g, c, a).pending = [WithoutDispatch(c) EXCEPT !.attempts = a]
    BY DEF Inconclusive, Goal
  <2> QED
    BY <2>1, <1>1, <1>2
<1>4. /\ Reopened(g).pending = NoPending
      /\ Orphan(g, p).pending = g.pending /\ Orphan(g, p).status = g.status
      /\ \A v : Graded(g, v).pending = NoPending
  BY DEF Reopened, Orphan, Graded, Goal
<1> QED
  BY <1>1, <1>3, <1>4

(* A process that leaves its cycle keeps nothing of it, and the others stay. *)
LEMMA LeaveMoves ==
  ASSUME TypeOK, NEW p \in Procs, Leave(p)
  PROVE  pc'[p] = "idle" /\ snap'[p].pending = NoPending /\ OneMoves(p)
<1>1. Seen(FirstGoal).pending = NoPending
  BY DEF Seen, FirstGoal
<1> QED
  BY <1>1 DEF TypeOK, Leave, Goto, OneMoves, Stays

(* A process that goes on with what it read moves alone. *)
LEMMA GotoMoves ==
  ASSUME TypeOK, NEW p \in Procs, NEW s, Goto(p, s), snap' = snap,
         \A q \in Procs : q # p => local'[q] = local[q]
  PROVE  pc'[p] = s /\ snap'[p] = snap[p] /\ OneMoves(p)
  BY DEF TypeOK, Goto, OneMoves, Stays


(* Every step is one of these. *)
LEMMA DecisionFrame ==
  ASSUME GoalInv, FenceInv, Next
  PROVE  DecisionStep
<1>0. /\ TypeOK /\ goal \in Goal
      /\ \A p \in Procs : p \in Cyclers \/ pc[p] \in {"idle"} \cup Grading
  BY DEF GoalInv, TypeOK, FenceInv, GradersGrade, Procs, Cyclers
<1>1. ASSUME NEW p \in Procs, StartCycle(p) PROVE DecisionStep
  BY <1>1 DEF Decisive, DecisionStep
<1>2. ASSUME NEW p \in Procs, recoverSupervisorCompletion(p) PROVE DecisionStep
  BY <1>2 DEF Decisive, DecisionStep
<1>3. ASSUME NEW p \in Procs, ReadGoal(p) PROVE DecisionStep
  BY <1>3 DEF Decisive, DecisionStep
<1>4. ASSUME NEW p \in Procs, TakeFence(p) PROVE DecisionStep
  <2>1. \E s : /\ Goto(p, s) /\ snap' = snap
               /\ \A q \in Procs : q # p => local'[q] = local[q]
    BY <1>0, <1>4 DEF TakeFence, TypeOK
  <2>2. pc'[p] \in Loose \/ Forward(p)
    BY <1>0, <1>4 DEF TakeFence, Goto, TypeOK, Forward, Loose, Reviewing
  <2>3. /\ commits' = commits /\ claims' = claims
        /\ PendingKept \/ goal'.pending = NoPending
    BY <1>0, <1>4 DEF TakeFence, database, PendingKept, Goal
  <2> QED
    BY <1>0, <2>1, <2>2, <2>3, GotoMoves DEF DecisionStep, Quiet
<1>5. ASSUME NEW p \in Procs, RefusedFence(p) PROVE DecisionStep
  <2>1. Leave(p) /\ commits' = commits /\ claims' = claims
    BY <1>5 DEF RefusedFence, database
  <2>2. \/ PendingKept \/ goal'.pending = NoPending
        \/ goal'.pending = goal.pending /\ p \in Cyclers
    BY <1>0, <1>5, PatchPending DEF RefusedFence, Goal, Grading, PendingKept
  <2> QED
    BY <1>0, <2>1, <2>2, LeaveMoves DEF DecisionStep, Quiet, Loose
<1>6. ASSUME NEW p \in Procs, ReviewStale(p) PROVE DecisionStep
  <2>1. Leave(p) /\ commits' = commits /\ claims' = claims
    BY <1>6 DEF ReviewStale, database
  <2>2. \/ PendingKept \/ goal'.pending = NoPending
        \/ goal'.pending = goal.pending /\ p \in Cyclers
    BY <1>0, <1>6, PatchPending DEF ReviewStale, Goal, Grading, PendingKept
  <2> QED
    BY <1>0, <2>1, <2>2, LeaveMoves DEF DecisionStep, Quiet, Loose
<1>7. ASSUME NEW p \in Procs, recoverAbandonedReviewDispatch(p) PROVE DecisionStep
  <2>1. Leave(p) /\ commits' = commits /\ claims' = claims /\ p \in Cyclers
    BY <1>0, <1>7 DEF recoverAbandonedReviewDispatch, Grading, Procs, Cyclers
  <2>2. Mine(p) \in Claim
    BY <1>0, <1>7, ClaimRead DEF recoverAbandonedReviewDispatch, GoalInv, ClaimOfReview,
       Reviewing, Mine
  <2>3. goal'.pending.claim = Mine(p).claim /\ goal'.pending.dispatch = 0
    BY <1>0, <1>7, <2>2, PatchPending DEF recoverAbandonedReviewDispatch, Goal
  <2>4. pc[p] \in {"review", "settle", "grade"}
    BY <1>7 DEF recoverAbandonedReviewDispatch
  <2> QED
    BY <1>0, <2>1, <2>3, <2>4, LeaveMoves DEF DecisionStep, PutsBack, Reviewing, Mine
<1>8. ASSUME NEW p \in Procs, ReviewExhausted(p) PROVE DecisionStep
  <2>1. Leave(p) /\ commits' = commits /\ claims' = claims /\ p \in Cyclers
    BY <1>0, <1>8 DEF ReviewExhausted, database, Grading, Procs, Cyclers
  <2>2. Mine(p) \in Claim
    BY <1>0, <1>8, ClaimRead DEF ReviewExhausted, GoalInv, ClaimOfReview, Reviewing, Mine
  <2>3. goal'.pending.claim = Mine(p).claim /\ goal'.pending.dispatch = 0
    BY <1>0, <1>8, <2>2, PatchPending DEF ReviewExhausted, Goal
  <2>4. pc[p] \in {"review", "settle", "grade"}
    BY <1>8 DEF ReviewExhausted
  <2> QED
    BY <1>0, <2>1, <2>3, <2>4, LeaveMoves DEF DecisionStep, PutsBack, Reviewing, Mine
<1>9. ASSUME NEW p \in Procs, ReviewWaits(p) PROVE DecisionStep
  <2>1. Leave(p) /\ commits' = commits /\ claims' = claims
    BY <1>9 DEF ReviewWaits, database
  <2>2. \/ PendingKept \/ goal'.pending = NoPending
        \/ goal'.pending = goal.pending /\ p \in Cyclers
    BY <1>0, <1>9, PatchPending DEF ReviewWaits, Goal, Grading, PendingKept
  <2> QED
    BY <1>0, <2>1, <2>2, LeaveMoves DEF DecisionStep, Quiet, Loose
<1>10. ASSUME NEW p \in Procs, CreateReviewRun(p) PROVE DecisionStep
  <2>1. \E s : /\ Goto(p, s) /\ snap' = snap
               /\ \A q \in Procs : q # p => local'[q] = local[q]
    BY <1>0, <1>10 DEF CreateReviewRun, TypeOK
  <2>2. pc'[p] \in Loose \/ Forward(p)
    BY <1>0, <1>10 DEF CreateReviewRun, MayReview, Mine, Mine, Goto, TypeOK, Forward,
       Loose, Reviewing
  <2>3. /\ commits' = commits /\ claims' = claims
        /\ PendingKept \/ goal'.pending = NoPending
    BY <1>0, <1>10 DEF CreateReviewRun, MayReview, Mine, PendingKept, Goal
  <2> QED
    BY <1>0, <2>1, <2>2, <2>3, GotoMoves DEF DecisionStep, Quiet
<1>11. ASSUME NEW p \in Procs, DispatchReview(p) PROVE DecisionStep
  <2>1. /\ commits' = commits /\ claims' = claims /\ pc[p] = "dispatch" /\ p \in Cyclers
        /\ Goto(p, "reviewing") /\ snap' = snap /\ local' = local
    BY <1>0, <1>11 DEF DispatchReview, database, Grading
  <2>2. Mine(p) \in Claim
    BY <2>1 DEF GoalInv, ClaimOfReview, Reviewing, Mine
  <2>3. [Mine(p) EXCEPT !.dispatch = local[p].dispatch].claim = Mine(p).claim
    BY <2>2 DEF Claim
  <2>4. goal'.pending.claim = snap[p].pending.claim
    BY <1>0, <1>11, <2>3 DEF DispatchReview, Goal, Mine
  <2> QED
    BY <1>0, <2>1, <2>4, GotoMoves DEF DecisionStep, PutsBack, Reviewing
<1>12. ASSUME NEW p \in Procs, ReviewerReturns(p) PROVE DecisionStep
  <2>1. \E s : /\ Goto(p, s) /\ snap' = snap
               /\ \A q \in Procs : q # p => local'[q] = local[q]
    BY <1>0, <1>12 DEF ReviewerReturns, TypeOK
  <2>2. pc'[p] \in Loose \/ Forward(p)
    BY <1>0, <1>12 DEF ReviewerReturns, Goto, TypeOK, Forward, Loose, Reviewing
  <2>3. /\ commits' = commits /\ claims' = claims
        /\ PendingKept \/ goal'.pending = NoPending
    BY <1>0, <1>12 DEF ReviewerReturns, PendingKept, Goal
  <2> QED
    BY <1>0, <2>1, <2>2, <2>3, GotoMoves DEF DecisionStep, Quiet
<1>13. ASSUME NEW p \in Procs, recordInconclusiveReviewAttempt(p) PROVE DecisionStep
  <2>1. Leave(p) /\ commits' = commits /\ claims' = claims /\ p \in Cyclers
    BY <1>0, <1>13 DEF recordInconclusiveReviewAttempt, database, Grading, Procs, Cyclers
  <2>2. Mine(p) \in Claim
    BY <1>0, <1>13, ClaimRead DEF recordInconclusiveReviewAttempt, GoalInv, ClaimOfReview,
       Reviewing, Mine
  <2>3. goal'.pending.claim = Mine(p).claim /\ goal'.pending.dispatch = 0
    BY <1>0, <1>13, <2>2, PatchPending DEF recordInconclusiveReviewAttempt, Goal
  <2>4. pc[p] \in {"review", "settle", "grade"}
    BY <1>13 DEF recordInconclusiveReviewAttempt
  <2> QED
    BY <1>0, <2>1, <2>3, <2>4, LeaveMoves DEF DecisionStep, PutsBack, Reviewing, Mine
<1>14. ASSUME NEW p \in Procs, ReviewUnbound(p) PROVE DecisionStep
  <2>1. Leave(p) /\ commits' = commits /\ claims' = claims /\ p \in Cyclers
    BY <1>0, <1>14 DEF ReviewUnbound, database, Grading, Procs, Cyclers
  <2>2. Mine(p) \in Claim
    BY <1>0, <1>14, ClaimRead DEF ReviewUnbound, GoalInv, ClaimOfReview, Reviewing, Mine
  <2>3. goal'.pending.claim = Mine(p).claim /\ goal'.pending.dispatch = 0
    BY <1>0, <1>14, <2>2, PatchPending DEF ReviewUnbound, Goal
  <2>4. pc[p] \in {"review", "settle", "grade"}
    BY <1>14 DEF ReviewUnbound
  <2> QED
    BY <1>0, <2>1, <2>3, <2>4, LeaveMoves DEF DecisionStep, PutsBack, Reviewing, Mine
<1>15. ASSUME NEW p \in Procs, postReviewSourceChange(p) PROVE DecisionStep
  <2>1. Leave(p) /\ commits' = commits /\ claims' = claims
    BY <1>15 DEF postReviewSourceChange, database
  <2>2. \/ PendingKept \/ goal'.pending = NoPending
        \/ goal'.pending = goal.pending /\ p \in Cyclers
    BY <1>0, <1>15, PatchPending DEF postReviewSourceChange, Goal, Grading, PendingKept
  <2> QED
    BY <1>0, <2>1, <2>2, LeaveMoves DEF DecisionStep, Quiet, Loose
<1>16. ASSUME NEW p \in Procs, recordIndependentReviewExecution(p) PROVE DecisionStep
  <2>1. \E s : /\ Goto(p, s) /\ snap' = snap
               /\ \A q \in Procs : q # p => local'[q] = local[q]
    BY <1>0, <1>16 DEF recordIndependentReviewExecution, TypeOK
  <2>2. pc'[p] \in Loose \/ Forward(p)
    BY <1>0, <1>16 DEF recordIndependentReviewExecution, Mine, Goto, TypeOK, Forward,
       Loose, Reviewing
  <2>3. /\ commits' = commits /\ claims' = claims
        /\ PendingKept \/ goal'.pending = NoPending
    BY <1>0, <1>16 DEF recordIndependentReviewExecution, Mine, PendingKept, Goal
  <2> QED
    BY <1>0, <2>1, <2>2, <2>3, GotoMoves DEF DecisionStep, Quiet
<1>17. ASSUME NEW p \in Procs, GradeRefused(p) PROVE DecisionStep
  <2>1. Leave(p) /\ commits' = commits /\ claims' = claims
    BY <1>17 DEF GradeRefused, database, Throw
  <2>2. \/ PendingKept \/ goal'.pending = NoPending
        \/ goal'.pending = goal.pending /\ p \in Cyclers
    BY <1>0, <1>17, PatchPending DEF GradeRefused, Throw, Goal, Grading, PendingKept
  <2> QED
    BY <1>0, <2>1, <2>2, LeaveMoves DEF DecisionStep, Quiet, Loose
<1>18. ASSUME NEW p \in Procs, GradeBegin(p) PROVE DecisionStep
  BY <1>18 DEF Decisive, DecisionStep
<1>19. ASSUME NEW p \in Procs, GradeReopens(p) PROVE DecisionStep
  <2>1. Leave(p) /\ commits' = commits /\ claims' = claims
    BY <1>19 DEF GradeReopens, database, Throw
  <2>2. Reopened(goal) \in Goal /\ Reopened(goal).pending = NoPending
    BY <1>0, PatchTypes, PatchPending
  <2>3. \/ PendingKept \/ goal'.pending = NoPending
        \/ goal'.pending = goal.pending /\ p \in Cyclers
    BY <1>0, <2>2, <1>19, PatchPending DEF GradeReopens, Throw
  <2> QED
    BY <1>0, <2>1, <2>3, LeaveMoves DEF DecisionStep, Quiet, Loose
<1>20. ASSUME NEW p \in Procs, CommitGrade(p) PROVE DecisionStep
  BY <1>20 DEF Decisive, DecisionStep
<1>21. ASSUME NEW p \in Procs, CommitFenced(p) PROVE DecisionStep
  <2>1. Leave(p) /\ commits' = commits /\ claims' = claims
    BY <1>21 DEF CommitFenced, database, Throw
  <2>2. Reopened(goal) \in Goal /\ Reopened(goal).pending = NoPending
    BY <1>0, PatchTypes, PatchPending
  <2>3. \/ PendingKept \/ goal'.pending = NoPending
        \/ goal'.pending = goal.pending /\ p \in Cyclers
    BY <1>0, <2>2, <1>21, PatchPending DEF CommitFenced, Throw
  <2> QED
    BY <1>0, <2>1, <2>3, LeaveMoves DEF DecisionStep, Quiet, Loose
<1>22. ASSUME NEW p \in Procs, WriteGoal(p) PROVE DecisionStep
  <2>1. Leave(p) /\ commits' = commits /\ claims' = claims
    BY <1>22 DEF WriteGoal, database
  <2>2. \/ PendingKept \/ goal'.pending = NoPending
        \/ goal'.pending = goal.pending /\ p \in Cyclers
    BY <1>0, <1>22, PatchPending DEF WriteGoal, Goal, Grading, PendingKept
  <2> QED
    BY <1>0, <2>1, <2>2, LeaveMoves DEF DecisionStep, Quiet, Loose
<1>23. ASSUME NEW p \in Procs, WorkCheckpoint(p) PROVE DecisionStep
  <2>1. Leave(p) /\ commits' = commits /\ claims' = claims
    BY <1>23 DEF WorkCheckpoint, database
  <2>2. \/ PendingKept \/ goal'.pending = NoPending
        \/ goal'.pending = goal.pending /\ p \in Cyclers
    BY <1>0, <1>23, PatchPending DEF WorkCheckpoint, Goal, Grading, PendingKept
  <2> QED
    BY <1>0, <2>1, <2>2, LeaveMoves DEF DecisionStep, Quiet, Loose
<1>24. ASSUME NEW p \in Procs, freezeSupervisorCandidate(p) PROVE DecisionStep
  <2>1. \E s : /\ Goto(p, s) /\ snap' = snap
               /\ \A q \in Procs : q # p => local'[q] = local[q]
    BY <1>0, <1>24 DEF freezeSupervisorCandidate, TypeOK
  <2>2. pc'[p] \in Loose \/ Forward(p)
    BY <1>0, <1>24 DEF freezeSupervisorCandidate, Goto, TypeOK, Forward, Loose, Reviewing
  <2>3. /\ commits' = commits /\ claims' = claims
        /\ PendingKept \/ goal'.pending = NoPending
    BY <1>0, <1>24 DEF freezeSupervisorCandidate, database, PendingKept, Goal
  <2> QED
    BY <1>0, <2>1, <2>2, <2>3, GotoMoves DEF DecisionStep, Quiet
<1>25. ASSUME NEW p \in Procs, StartWork(p) PROVE DecisionStep
  <2>1. \E s : /\ Goto(p, s) /\ snap' = snap
               /\ \A q \in Procs : q # p => local'[q] = local[q]
    BY <1>0, <1>25 DEF StartWork, TypeOK
  <2>2. pc'[p] \in Loose \/ Forward(p)
    BY <1>0, <1>25 DEF StartWork, Goto, TypeOK, Forward, Loose, Reviewing
  <2>3. /\ commits' = commits /\ claims' = claims
        /\ PendingKept \/ goal'.pending = NoPending
    BY <1>0, <1>25 DEF StartWork, database, PendingKept, Goal
  <2> QED
    BY <1>0, <2>1, <2>2, <2>3, GotoMoves DEF DecisionStep, Quiet
<1>26. ASSUME NEW p \in Procs, DispatchRefused(p) PROVE DecisionStep
  <2>1. Leave(p) /\ commits' = commits /\ claims' = claims
    BY <1>26 DEF DispatchRefused, database
  <2>2. \/ PendingKept \/ goal'.pending = NoPending
        \/ goal'.pending = goal.pending /\ p \in Cyclers
    BY <1>0, <1>26, PatchPending DEF DispatchRefused, Goal, Grading, PendingKept
  <2> QED
    BY <1>0, <2>1, <2>2, LeaveMoves DEF DecisionStep, Quiet, Loose
<1>27. ASSUME NEW p \in Procs, DispatchWorker(p) PROVE DecisionStep
  <2>1. /\ commits' = commits /\ claims' = claims
        /\ \/ Leave(p)
           \/ Goto(p, "working") /\ snap' = snap /\ local' = local
    BY <1>27 DEF DispatchWorker, Throw, database
  <2>2. PendingKept
    BY <1>0, <1>27, PatchPending DEF DispatchWorker, Throw, PendingKept
  <2> QED
    BY <1>0, <2>1, <2>2, LeaveMoves, GotoMoves DEF DecisionStep, Quiet, Loose
<1>28. ASSUME NEW p \in Procs, WorkerReturns(p) PROVE DecisionStep
  <2>1. \E s : /\ Goto(p, s) /\ snap' = snap
               /\ \A q \in Procs : q # p => local'[q] = local[q]
    BY <1>0, <1>28 DEF WorkerReturns, TypeOK
  <2>2. pc'[p] \in Loose \/ Forward(p)
    BY <1>0, <1>28 DEF WorkerReturns, Goto, TypeOK, Forward, Loose, Reviewing
  <2>3. /\ commits' = commits /\ claims' = claims
        /\ PendingKept \/ goal'.pending = NoPending
    BY <1>0, <1>28 DEF WorkerReturns, database, PendingKept, Goal
  <2> QED
    BY <1>0, <2>1, <2>2, <2>3, GotoMoves DEF DecisionStep, Quiet
<1>29. ASSUME NEW p \in Procs, WorkUnsigned(p) PROVE DecisionStep
  <2>1. Leave(p) /\ commits' = commits /\ claims' = claims
    BY <1>29 DEF WorkUnsigned, database
  <2>2. \/ PendingKept \/ goal'.pending = NoPending
        \/ goal'.pending = goal.pending /\ p \in Cyclers
    BY <1>0, <1>29, PatchPending DEF WorkUnsigned, Goal, Grading, PendingKept
  <2> QED
    BY <1>0, <2>1, <2>2, LeaveMoves DEF DecisionStep, Quiet, Loose
<1>30. ASSUME NEW p \in Procs, ReadAfter(p) PROVE DecisionStep
  <2>1. \E s : /\ Goto(p, s) /\ snap' = snap
               /\ \A q \in Procs : q # p => local'[q] = local[q]
    BY <1>0, <1>30 DEF ReadAfter, TypeOK
  <2>2. pc'[p] \in Loose \/ Forward(p)
    BY <1>0, <1>30 DEF ReadAfter, Goto, TypeOK, Forward, Loose, Reviewing
  <2>3. /\ commits' = commits /\ claims' = claims
        /\ PendingKept \/ goal'.pending = NoPending
    BY <1>0, <1>30 DEF ReadAfter, database, PendingKept, Goal
  <2> QED
    BY <1>0, <2>1, <2>2, <2>3, GotoMoves DEF DecisionStep, Quiet
<1>31. ASSUME NEW p \in Procs, ClearPid(p) PROVE DecisionStep
  <2>1. Leave(p) /\ commits' = commits /\ claims' = claims
    BY <1>31 DEF ClearPid, database
  <2>2. \/ PendingKept \/ goal'.pending = NoPending
        \/ goal'.pending = goal.pending /\ p \in Cyclers
    BY <1>0, <1>31, PatchPending DEF ClearPid, Goal, Grading, PendingKept
  <2> QED
    BY <1>0, <2>1, <2>2, LeaveMoves DEF DecisionStep, Quiet, Loose
<1>32. ASSUME NEW p \in Procs, ClaimCompletion(p) PROVE DecisionStep
  BY <1>32 DEF Decisive, DecisionStep
<1>33. ASSUME NEW p \in Procs, WorkReported(p) PROVE DecisionStep
  <2>1. Leave(p) /\ commits' = commits /\ claims' = claims
    BY <1>33 DEF WorkReported, database
  <2>2. \/ PendingKept \/ goal'.pending = NoPending
        \/ goal'.pending = goal.pending /\ p \in Cyclers
    BY <1>0, <1>33, PatchPending DEF WorkReported, Goal, Grading, PendingKept
  <2> QED
    BY <1>0, <2>1, <2>2, LeaveMoves DEF DecisionStep, Quiet, Loose
<1>34. ASSUME NEW p \in Procs, CliGrade(p) PROVE DecisionStep
  <2>1. \E s : /\ Goto(p, s) /\ snap' = snap
               /\ \A q \in Procs : q # p => local'[q] = local[q]
    BY <1>0, <1>34 DEF CliGrade, TypeOK
  <2>2. pc'[p] \in Loose \/ Forward(p)
    BY <1>0, <1>34 DEF CliGrade, Goto, TypeOK, Forward, Loose, Reviewing
  <2>3. /\ commits' = commits /\ claims' = claims
        /\ PendingKept \/ goal'.pending = NoPending
    BY <1>0, <1>34 DEF CliGrade, database, PendingKept, Goal
  <2> QED
    BY <1>0, <2>1, <2>2, <2>3, GotoMoves DEF DecisionStep, Quiet
<1>35. ASSUME NEW p \in Procs, CliRefused(p) PROVE DecisionStep
  BY <1>0, <1>35 DEF CliRefused, database, Goal, DecisionStep, Silent, PendingKept,
     Stays
<1>36. ASSUME NEW p \in Procs, Crash(p) PROVE DecisionStep
  <2>1. commits' = commits /\ claims' = claims /\ PendingKept
    BY <1>0, <1>36, PatchPending DEF Crash, database, PendingKept
  <2>2. Seen(FirstGoal).pending = NoPending
    BY DEF Seen, FirstGoal
  <2>3. pc'[p] = "idle" /\ snap'[p].pending = NoPending /\ OneMoves(p)
    BY <1>0, <1>36, <2>2 DEF Crash, Goto, TypeOK, OneMoves, Stays
  <2> QED
    BY <2>1, <2>3 DEF DecisionStep, Quiet, Loose
<1>37. CASE RedefineGoal
  BY <1>0, <1>37 DEF RedefineGoal, database, Goal, DecisionStep, Silent, PendingKept,
     Stays
<1>38. CASE ReportGoal
  BY <1>0, <1>38 DEF ReportGoal, database, Goal, DecisionStep, Silent, PendingKept,
     Stays
<1>39. CASE EditSource
  BY <1>0, <1>39 DEF EditSource, database, Goal, DecisionStep, Silent, PendingKept,
     Stays
<1>40. CASE MoveTask
  BY <1>0, <1>40 DEF MoveTask, Goal, DecisionStep, Silent, PendingKept, Stays
<1> QED
  BY <1>1, <1>2, <1>3, <1>4, <1>5, <1>6, <1>7, <1>8, <1>9, <1>10, <1>11, <1>12, <1>13,
     <1>14, <1>15, <1>16, <1>17, <1>18, <1>19, <1>20, <1>21, <1>22, <1>23, <1>24, <1>25,
     <1>26, <1>27, <1>28, <1>29, <1>30, <1>31, <1>32, <1>33, <1>34, <1>35, <1>36, <1>37,
     <1>38, <1>39, <1>40 DEF Next, Run, Enter, Review, Grade, Work

(* A decided claim is one that was given; no pending claim is none of them. *)
LEMMA DecidedFacts ==
  ASSUME GoalInv, OnceInv
  PROVE  /\ NoPending.claim = 0 /\ NoPending.claim \notin DecidedClaims
         /\ \A i \in 1..Len(commits) : commits[i].claim \in DecidedClaims
         /\ \A c \in DecidedClaims : c \in 1..MaxClaims /\ c <= claims
         /\ Len(commits) \in Nat /\ claims \in Nat /\ MaxClaims \in Nat
         /\ DecidedClaims # {} => Len(commits) > 0
<1>1. Len(commits) \in Nat /\ claims \in Nat /\ MaxClaims \in Nat
  BY GoalAssumption DEF GoalInv, TypeOK
<1>2. \A i \in 1..Len(commits) : /\ commits[i].claim \in 1..MaxClaims
                                 /\ commits[i].claim <= claims
  <2>1. \A i \in 1..Len(commits) : commits[i] \in Commit
    BY <1>1 DEF GoalInv, TypeOK
  <2>2. \A i \in 1..Len(commits) : commits[i].claim \in 1..MaxClaims
    BY <2>1 DEF Commit
  <2> QED
    BY <2>2 DEF OnceInv, Decisions, ClaimsMade
<1>3. \A c \in DecidedClaims : c \in 1..MaxClaims /\ c <= claims
  BY <1>2 DEF DecidedClaims
<1>4. \A i \in 1..Len(commits) : commits[i].claim \in DecidedClaims
  BY DEF DecidedClaims
<1>5. NoPending.claim = 0
  BY DEF NoPending
<1>6. DecidedClaims # {} => Len(commits) > 0
  BY <1>1 DEF DecidedClaims
<1> QED
  BY <1>1, <1>3, <1>4, <1>5, <1>6

(* What is decided depends on the commits alone. *)
LEMMA SameDecisions ==
  ASSUME commits' = commits
  PROVE  /\ DecidedClaims' = DecidedClaims /\ LastCommit' = LastCommit
         /\ ClaimDecidedOnce => ClaimDecidedOnce'
  BY DEF DecidedClaims, LastCommit, ClaimDecidedOnce

(* A transaction that no step opens keeps its claim. *)
LEMMA UndecidedKept ==
  ASSUME GoalInv, OnceInv, Next, commits' = commits,
         \A q \in Procs : pc'[q] = "commit" => pc[q] = "commit"
  PROVE  Undecided'
<1>1. SUFFICES ASSUME NEW q \in Procs, pc'[q] = "commit"
      PROVE  /\ goal'.pending.dispatch = local'[q].dispatch
             /\ goal'.pending.claim \notin DecidedClaims'
  BY DEF Undecided
<1>2. local'[q].dispatch = local[q].dispatch /\ goal'.pending = goal.pending
  BY <1>1, TransactionFrame DEF InTransaction
<1>3. goal.pending.dispatch = local[q].dispatch /\ goal.pending.claim \notin DecidedClaims
  BY <1>1 DEF OnceInv, Decisions, Undecided
<1> QED
  BY <1>2, <1>3, SameDecisions

(* A step that is silent about the goal disturbs no decision. *)
LEMMA SilentDecides ==
  ASSUME GoalInv, OnceInv, Next, Silent
  PROVE  Decisions'
<1>0. /\ commits' = commits /\ claims' = claims
      /\ PendingKept \/ goal'.pending = NoPending
      /\ \A q \in Procs : pc'[q] = pc[q] /\ snap'[q] = snap[q] /\ local'[q] = local[q]
  BY DEF Silent, Stays
<1>1. /\ DecidedClaims' = DecidedClaims /\ LastCommit' = LastCommit /\ ClaimDecidedOnce'
      /\ Undecided'
  BY <1>0, SameDecisions, UndecidedKept DEF OnceInv, Decisions
<1>2. goal'.pending \in {goal.pending, NoPending}
  BY <1>0 DEF PendingKept
<1>3. ClaimsMade'
  BY <1>0, <1>2, DecidedFacts DEF OnceInv, Decisions, ClaimsMade
<1>4. Lingering'
  BY <1>1, <1>2, DecidedFacts DEF OnceInv, Decisions, Lingering
<1>5. RecoverFinds'
  BY <1>0, <1>1, DecidedFacts DEF OnceInv, Decisions, RecoverFinds, Redo, PendingKept, Procs,
     Cyclers
<1>6. ReviewFinds'
  BY <1>0, <1>1, <1>2 DEF OnceInv, Decisions, ReviewFinds, Procs, Cyclers
<1> QED
  BY <1>1, <1>3, <1>4, <1>5, <1>6 DEF Decisions

(* A quiet step disturbs no decision, with one process that cycles. *)
LEMMA QuietDecides ==
  ASSUME OneCycle, GoalInv, OnceInv, Next, NEW p \in Procs, Quiet(p)
  PROVE  Decisions'
<1>0. /\ commits' = commits /\ claims' = claims
      /\ goal'.pending \in {goal.pending, NoPending}
      /\ \A q \in Procs : q # p =>
           pc'[q] = pc[q] /\ snap'[q] = snap[q] /\ local'[q] = local[q]
      /\ snap'[p].pending \in {snap[p].pending, NoPending}
  BY DEF Quiet, OneMoves, Stays, PendingKept
<1>1. pc'[p] \in Loose \/ Forward(p)
  BY DEF Quiet
<1>2. pc'[p] \notin {"commit", "recover", "read", "fence"}
  BY <1>1 DEF Loose, Forward
<1>3. /\ DecidedClaims' = DecidedClaims /\ LastCommit' = LastCommit /\ ClaimDecidedOnce'
      /\ Undecided'
  <2>1. \A q \in Procs : pc'[q] = "commit" => pc[q] = "commit"
    BY <1>0, <1>2
  <2> QED
    BY <1>0, <2>1, SameDecisions, UndecidedKept DEF OnceInv, Decisions
<1>4. ClaimsMade'
  <2>1. \A q \in Procs : snap'[q].pending.claim <= claims
    BY <1>0, DecidedFacts DEF OnceInv, Decisions, ClaimsMade
  <2> QED
    BY <1>0, <2>1, DecidedFacts DEF OnceInv, Decisions, ClaimsMade
<1>5. Lingering'
  BY <1>0, <1>3, DecidedFacts DEF OnceInv, Decisions, Lingering
<1>6. RecoverFinds'
  <2>1. SUFFICES ASSUME NEW q \in Cyclers, Redo', pc'[q] \in {"recover", "read"}
        PROVE  /\ pc'[q] = "recover" => local'[q].commit = Len(commits')
               /\ pc'[q] = "read" => goal'.status = "done"
    BY DEF RecoverFinds
  <2>2. q \in Procs /\ q # p
    BY <1>2, <2>1 DEF Procs, Cyclers
  <2>3. goal'.pending # NoPending /\ goal'.pending = goal.pending /\ Redo
    BY <1>0, <1>3, <2>1, DecidedFacts DEF Redo
  <2>4. PendingKept
    BY <2>2, <2>3, <1>0 DEF Quiet, OneCycle
  <2> QED
    BY <1>0, <2>2, <2>3, <2>4 DEF OnceInv, Decisions, RecoverFinds, PendingKept
<1>7. ReviewFinds'
  <2>1. SUFFICES ASSUME NEW q \in Cyclers
        PROVE  /\ pc'[q] = "fence" => goal'.pending \in {snap'[q].pending, NoPending}
               /\ pc'[q] \in {"fence", "review"} /\ snap'[q].pending.claim \in DecidedClaims =>
                    /\ snap'[q].pending.dispatch # 0
                    /\ LastCommit.claim = snap'[q].pending.claim
               /\ pc'[q] \in Reviewing \cup {"grade"} =>
                    snap'[q].pending.claim \notin DecidedClaims
    BY <1>3 DEF ReviewFinds
  <2>2. q \in Procs /\ q \notin Graders
    BY GoalAssumption DEF Procs, Cyclers
  <2>3. CASE q # p
    BY <1>0, <2>2, <2>3 DEF OnceInv, Decisions, ReviewFinds
  <2>4. CASE q = p /\ pc'[p] \in Loose
    BY <2>4 DEF Loose, Reviewing
  <2>5. CASE q = p /\ Forward(p)
    BY <2>2, <2>5 DEF Forward, OnceInv, Decisions, ReviewFinds, Reviewing
  <2> QED
    BY <1>1, <2>3, <2>4, <2>5
<1> QED
  BY <1>3, <1>4, <1>5, <1>6, <1>7 DEF Decisions


(* A cycle puts back an undecided claim, or the newest decision's without its     *)
(* dispatch, which its next cycle then finds decided. *)
LEMMA PutBackDecides ==
  ASSUME OneCycle, GoalInv, OnceInv, Next, NEW p \in Procs, PutsBack(p)
  PROVE  Decisions'
<1>0. /\ commits' = commits /\ claims' = claims /\ p \in Cyclers
      /\ goal'.pending.claim = snap[p].pending.claim
      /\ snap'[p].pending \in {snap[p].pending, NoPending}
      /\ \A q \in Procs : q # p =>
           pc'[q] = pc[q] /\ snap'[q] = snap[q] /\ local'[q] = local[q]
  BY DEF PutsBack, OneMoves, Stays
<1>1. \/ pc'[p] = "idle"
      \/ pc[p] = "dispatch" /\ pc'[p] = "reviewing" /\ snap'[p] = snap[p]
  BY DEF PutsBack
<1>2. \A q \in Cyclers : q = p
  BY <1>0 DEF OneCycle
<1>3. /\ DecidedClaims' = DecidedClaims /\ LastCommit' = LastCommit /\ ClaimDecidedOnce'
      /\ Undecided'
  <2>1. \A q \in Procs : pc'[q] = "commit" => pc[q] = "commit"
    BY <1>0, <1>1
  <2> QED
    BY <1>0, <2>1, SameDecisions, UndecidedKept DEF OnceInv, Decisions
<1>4. ClaimsMade'
  <2>1. \A q \in Procs : snap'[q].pending.claim <= claims
    BY <1>0, DecidedFacts DEF OnceInv, Decisions, ClaimsMade
  <2>2. goal'.pending.claim <= claims
    BY <1>0 DEF OnceInv, Decisions, ClaimsMade
  <2> QED
    BY <1>0, <2>1, <2>2 DEF OnceInv, Decisions, ClaimsMade
<1>5. Lingering'
  <2>1. snap[p].pending.claim \in DecidedClaims =>
          /\ goal'.pending.dispatch = 0
          /\ LastCommit.claim = snap[p].pending.claim
    BY <1>0 DEF PutsBack, OnceInv, Decisions, ReviewFinds
  <2> QED
    BY <1>0, <1>3, <2>1 DEF Lingering
<1>6. RecoverFinds'
  BY <1>1, <1>2 DEF RecoverFinds
<1>7. ReviewFinds'
  BY <1>0, <1>1, <1>2, <1>3 DEF OnceInv, Decisions, ReviewFinds, Reviewing
<1> QED
  BY <1>3, <1>4, <1>5, <1>6, <1>7 DEF Decisions

(* A cycle starts with the newest commit in hand. *)
LEMMA StartDecides ==
  ASSUME GoalInv, OnceInv, Next, NEW p \in Procs, StartCycle(p)
  PROVE  Decisions'
<1>0. /\ commits' = commits /\ claims' = claims /\ goal' = goal /\ snap' = snap
      /\ pc'[p] = "recover" /\ local'[p].commit = Len(commits)
      /\ \A q \in Procs : q # p => pc'[q] = pc[q] /\ local'[q] = local[q]
  <2>1. local \in [Procs -> Local] /\ pc \in [Procs -> PCs]
    BY DEF GoalInv, TypeOK
  <2>2. local[p] \in Local
    BY <2>1
  <2> QED
    BY <2>1, <2>2 DEF StartCycle, database, Goto, Local
<1>1. /\ DecidedClaims' = DecidedClaims /\ LastCommit' = LastCommit /\ ClaimDecidedOnce'
      /\ Undecided'
  <2>1. \A q \in Procs : pc'[q] = "commit" => pc[q] = "commit"
    BY <1>0
  <2> QED
    BY <1>0, <2>1, SameDecisions, UndecidedKept DEF OnceInv, Decisions
<1>2. ClaimsMade' /\ Lingering'
  BY <1>0, <1>1 DEF OnceInv, Decisions, ClaimsMade, Lingering
<1>3. RecoverFinds'
  BY <1>0, <1>1 DEF OnceInv, Decisions, RecoverFinds, Redo, Procs, Cyclers
<1>4. ReviewFinds'
  BY <1>0, <1>1 DEF OnceInv, Decisions, ReviewFinds, Reviewing, Procs, Cyclers
<1> QED
  BY <1>1, <1>2, <1>3, <1>4 DEF Decisions

(* Recovery leaves a decided claim without its dispatch only on a done goal. *)
LEMMA RecoverDecides ==
  ASSUME GoalInv, OnceInv, Next, NEW p \in Procs, recoverSupervisorCompletion(p)
  PROVE  Decisions'
<1>0. /\ commits' = commits /\ claims' = claims /\ snap' = snap
      /\ pc[p] = "recover" /\ pc'[p] = "read"
      /\ \A q \in Procs : q # p => pc'[q] = pc[q] /\ local'[q] = local[q]
  <2>1. local \in [Procs -> Local] /\ pc \in [Procs -> PCs]
    BY DEF GoalInv, TypeOK
  <2> QED
    BY <2>1 DEF recoverSupervisorCompletion, database, Goto
<1>1. /\ local[p].commit > 0 /\ goal.status # "done"
           /\ goal.pending.claim = commits[local[p].commit].claim
        => goal'.pending = NoPending
      /\ goal' = goal \/ goal'.pending = NoPending
  <2>1. local[p].commit \in Nat /\ local[p].commit <= Len(commits)
    BY DEF GoalInv, TypeOK, Local, RecoverInRange
  <2>2. local[p].commit > 0 => commits[local[p].commit].final.pending = NoPending
    BY <2>1, DecidedFacts DEF OnceInv, Decisions, ClaimsMade
  <2> QED
    BY <2>2 DEF recoverSupervisorCompletion
<1>2. /\ DecidedClaims' = DecidedClaims /\ LastCommit' = LastCommit /\ ClaimDecidedOnce'
      /\ Undecided'
  <2>1. \A q \in Procs : pc'[q] = "commit" => pc[q] = "commit"
    BY <1>0
  <2> QED
    BY <1>0, <2>1, SameDecisions, UndecidedKept DEF OnceInv, Decisions
<1>3. ClaimsMade' /\ Lingering'
  BY <1>0, <1>1, <1>2, DecidedFacts DEF OnceInv, Decisions, ClaimsMade, Lingering
<1>4. ReviewFinds'
  BY <1>0, <1>1, <1>2 DEF OnceInv, Decisions, ReviewFinds, Reviewing, Procs, Cyclers
<1>5. RecoverFinds'
  <2>1. SUFFICES ASSUME NEW q \in Cyclers, Redo'
        PROVE  /\ pc'[q] = "recover" => local'[q].commit = Len(commits)
               /\ pc'[q] = "read" => goal'.status = "done"
    BY <1>0 DEF RecoverFinds
  <2>2. q \in Procs
    BY DEF Procs, Cyclers
  <2>3. goal' = goal /\ Redo
    BY <1>1, <1>2, <2>1, DecidedFacts DEF Redo
  <2>4. CASE q # p
    BY <1>0, <2>2, <2>3, <2>4 DEF OnceInv, Decisions, RecoverFinds
  <2>5. CASE q = p
    <3>1. local[p].commit = Len(commits)
      BY <1>0, <2>3, <2>5 DEF OnceInv, Decisions, RecoverFinds
    <3>2. Len(commits) > 0 /\ LastCommit.claim = goal.pending.claim
      BY <2>3, DecidedFacts DEF Redo, OnceInv, Decisions, Lingering
    <3>3. goal.pending # NoPending
      BY <2>3, DecidedFacts DEF Redo
    <3>4. goal.status = "done"
      BY <1>1, <2>3, <3>1, <3>2, <3>3 DEF LastCommit
    <3> QED
      BY <1>0, <2>3, <2>5, <3>4
  <2> QED
    BY <2>4, <2>5
<1> QED
  BY <1>2, <1>3, <1>4, <1>5 DEF Decisions


(* What a cycle reads of a goal that is not done needs no second decision. *)
LEMMA ReadDecides ==
  ASSUME OneCycle, GoalInv, OnceInv, Next, NEW p \in Procs, ReadGoal(p)
  PROVE  Decisions'
<1>0. commits' = commits /\ claims' = claims /\ goal' = goal /\ pc[p] = "read"
  BY DEF ReadGoal, database
<1>1. CASE goal.status \in {"done", "paused"}
  <2>1. TypeOK /\ Leave(p)
    BY <1>1 DEF ReadGoal, GoalInv
  <2>2. Quiet(p)
    BY <1>0, <2>1, LeaveMoves DEF Quiet, PendingKept, Loose
  <2> QED
    BY <2>2, QuietDecides
<1>2. CASE goal.status \notin {"done", "paused"}
  <2>0. /\ pc'[p] = "fence" /\ snap'[p].pending = goal.pending /\ local' = local
        /\ \A q \in Procs : q # p => pc'[q] = pc[q] /\ snap'[q] = snap[q]
    <3>1. /\ snap \in [Procs -> [epoch : 0..MaxEpoch, pending : Pending]]
          /\ pc \in [Procs -> PCs]
      BY DEF GoalInv, TypeOK
    <3> QED
      BY <1>2, <3>1 DEF ReadGoal, Goto, Seen
  <2>1. /\ DecidedClaims' = DecidedClaims /\ LastCommit' = LastCommit /\ ClaimDecidedOnce'
        /\ Undecided'
    <3>1. \A q \in Procs : pc'[q] = "commit" => pc[q] = "commit"
      BY <2>0
    <3> QED
      BY <1>0, <3>1, SameDecisions, UndecidedKept DEF OnceInv, Decisions
  <2>2. ClaimsMade'
    <3>1. \A q \in Procs : snap'[q].pending.claim <= claims
      BY <2>0 DEF OnceInv, Decisions, ClaimsMade
    <3> QED
      BY <1>0, <3>1 DEF OnceInv, Decisions, ClaimsMade
  <2>3. Lingering'
    BY <1>0, <2>1 DEF OnceInv, Decisions, Lingering
  <2>4. RecoverFinds'
    BY <1>0, <2>0, <2>1 DEF OnceInv, Decisions, RecoverFinds, Redo, Procs, Cyclers
  <2>5. p \in Cyclers
    BY <1>0 DEF OnceInv, FenceInv, GradersGrade, Grading, Procs, Cyclers
  <2>6. goal.pending.claim \in DecidedClaims =>
          goal.pending.dispatch # 0 /\ LastCommit.claim = goal.pending.claim
    BY <1>0, <1>2, <2>5 DEF OnceInv, Decisions, RecoverFinds, Redo, Lingering
  <2>7. ReviewFinds'
    BY <1>0, <2>0, <2>1, <2>6 DEF OnceInv, Decisions, ReviewFinds, Reviewing, Procs, Cyclers
  <2> QED
    BY <2>1, <2>2, <2>3, <2>4, <2>7 DEF Decisions
<1> QED
  BY <1>1, <1>2

(* A transaction begins on a receipt nobody has used, so on an undecided claim. *)
LEMMA BeginDecides ==
  ASSUME GoalInv, OnceInv, NEW p \in Procs, GradeBegin(p)
  PROVE  Decisions'
<1>0. /\ commits' = commits /\ claims' = claims /\ goal' = goal /\ snap' = snap
      /\ local' = local /\ pc[p] = "grade" /\ pc'[p] = "commit"
      /\ \A q \in Procs : q # p => pc'[q] = pc[q]
  <2>1. pc \in [Procs -> PCs]
    BY DEF GoalInv, TypeOK
  <2> QED
    BY <2>1 DEF GradeBegin, database, Goto
<1>1. DecidedClaims' = DecidedClaims /\ LastCommit' = LastCommit /\ ClaimDecidedOnce'
  BY <1>0, SameDecisions DEF OnceInv, Decisions
<1>2. \A q \in Procs : pc[q] # "commit"
  BY DEF GradeBegin, DbFree
<1>3. goal.pending.dispatch = local[p].dispatch /\ local[p].dispatch # 0
  BY <1>0, DecidedFacts DEF GradeBegin, ReceiptStands, GoalInv, GradeReceipt, Grading
<1>4. goal.pending.claim \notin DecidedClaims
  <2>1. SUFFICES ASSUME goal.pending.claim \in DecidedClaims PROVE FALSE
    OBVIOUS
  <2>2. LastCommit.dispatch = local[p].dispatch
    BY <1>3, <2>1 DEF OnceInv, Decisions, Lingering
  <2>3. Len(commits) \in 1..Len(commits)
    BY <2>1, DecidedFacts
  <2> QED
    BY <2>2, <2>3 DEF LastCommit, GradeBegin, Decided
<1>5. Undecided'
  BY <1>0, <1>1, <1>2, <1>3, <1>4 DEF Undecided
<1>6. ClaimsMade' /\ Lingering'
  BY <1>0, <1>1 DEF OnceInv, Decisions, ClaimsMade, Lingering
<1>7. RecoverFinds'
  BY <1>0, <1>1 DEF OnceInv, Decisions, RecoverFinds, Redo, Procs, Cyclers
<1>8. ReviewFinds'
  BY <1>0, <1>1 DEF OnceInv, Decisions, ReviewFinds, Reviewing, Procs, Cyclers
<1> QED
  BY <1>1, <1>5, <1>6, <1>7, <1>8 DEF Decisions

(* A commit decides an undecided claim, and no cycle is past the fence then. *)
LEMMA CommitDecides ==
  ASSUME GoalInv, OnceInv, NEW p \in Procs, CommitGrade(p)
  PROVE  Decisions'
<1>0. /\ claims' = claims /\ goal' = goal /\ snap' = snap /\ local' = local
      /\ pc[p] = "commit" /\ pc'[p] = "write"
      /\ \A q \in Procs : q # p => pc'[q] = pc[q]
  <2>1. pc \in [Procs -> PCs]
    BY DEF GoalInv, TypeOK
  <2> QED
    BY <2>1 DEF CommitGrade, Goto
<1>1. PICK c : /\ commits' = Append(commits, c)
               /\ c.dispatch = local[p].dispatch /\ c.claim = goal.pending.claim
               /\ c.final.pending = NoPending
  <2> DEFINE v == dispatches[local[p].dispatch].verdict
             c == [dispatch |-> local[p].dispatch, claim |-> goal.pending.claim,
                   task |-> goal.pending.task, verdict |-> v, final |-> Graded(goal, v)]
  <2>1. goal \in Goal /\ commits' = Append(commits, c)
    BY DEF CommitGrade, GoalInv, TypeOK
  <2>2. c.dispatch = local[p].dispatch /\ c.claim = goal.pending.claim
    OBVIOUS
  <2>3. c.final.pending = NoPending
    BY <2>1, PatchPending
  <2> HIDE DEF c
  <2> QED
    BY <2>1, <2>2, <2>3
<1>2. /\ goal.pending.dispatch = local[p].dispatch /\ goal.pending.dispatch # 0
      /\ goal.pending.claim \notin DecidedClaims /\ goal.pending.claim <= claims
  <2>1. local[p].dispatch # 0
    BY <1>0 DEF GoalInv, GradeReceipt, Grading
  <2> QED
    BY <1>0, <2>1 DEF OnceInv, Decisions, Undecided, ClaimsMade
<1>3. /\ commits \in Seq(Commit) /\ Len(commits) \in Nat
      /\ Len(commits') = Len(commits) + 1
      /\ \A i \in 1..Len(commits) : commits'[i] = commits[i]
      /\ commits'[Len(commits')] = c
  <2>1. commits \in Seq(Commit)
    BY DEF GoalInv, TypeOK
  <2> QED
    BY <1>1, <2>1
<1>4. \A i \in 1..Len(commits') :
        i \in 1..Len(commits) \/ (i = Len(commits') /\ commits'[i] = c)
  BY <1>3
<1>5. LastCommit' = c /\ DecidedClaims' = DecidedClaims \cup {goal.pending.claim}
  <2>1. \A i \in 1..Len(commits') : commits'[i].claim \in DecidedClaims \cup {goal.pending.claim}
    BY <1>1, <1>3, <1>4, DecidedFacts
  <2>2. \A i \in 1..Len(commits) : i \in 1..Len(commits') /\ commits'[i].claim = commits[i].claim
    BY <1>3
  <2>3. Len(commits') \in 1..Len(commits') /\ commits'[Len(commits')].claim = goal.pending.claim
    BY <1>1, <1>3
  <2> QED
    BY <1>3, <2>1, <2>2, <2>3 DEF LastCommit, DecidedClaims
<1>6. ClaimDecidedOnce'
  <2>1. \A i \in 1..Len(commits) : commits[i].claim # goal.pending.claim
    BY <1>2 DEF DecidedClaims
  <2>2. \A i, j \in 1..Len(commits) : commits[i].claim = commits[j].claim => i = j
    BY DEF OnceInv, Decisions, ClaimDecidedOnce
  <2>3. SUFFICES ASSUME NEW i \in 1..Len(commits'), NEW j \in 1..Len(commits'),
                        commits'[i].claim = commits'[j].claim
        PROVE  i = j
    BY DEF ClaimDecidedOnce
  <2> QED
    BY <1>1, <1>3, <1>4, <2>1, <2>2, <2>3
<1>7. ClaimsMade'
  <2>1. \A i \in 1..Len(commits') : /\ commits'[i].claim <= claims
                                    /\ commits'[i].final.pending = NoPending
    BY <1>1, <1>2, <1>3, <1>4 DEF OnceInv, Decisions, ClaimsMade
  <2> QED
    BY <1>0, <2>1 DEF OnceInv, Decisions, ClaimsMade
<1>8. Lingering'
  BY <1>0, <1>1, <1>2, <1>5 DEF Lingering
<1>9. Undecided'
  BY <1>0 DEF Undecided, GoalInv, LockHeld
<1>10. RecoverFinds'
  BY <1>0, <1>2 DEF RecoverFinds, Redo
<1>11. ReviewFinds'
  <2>1. SUFFICES ASSUME NEW q \in Cyclers, q # p
        PROVE  /\ pc[q] = "fence" => goal.pending \in {snap[q].pending, NoPending}
               /\ pc[q] \in {"fence", "review"} /\ snap[q].pending.claim \in DecidedClaims' =>
                    /\ snap[q].pending.dispatch # 0
                    /\ LastCommit'.claim = snap[q].pending.claim
               /\ pc[q] \in Reviewing \cup {"grade"} =>
                    snap[q].pending.claim \notin DecidedClaims'
    BY <1>0 DEF ReviewFinds, Reviewing, Procs, Cyclers
  <2>2. pc[q] \notin Fenced
    BY <1>0, <2>1 DEF OnceInv, FenceInv, FenceHeld, Fenced, Grading, Procs, Cyclers
  <2>3. CASE pc[q] = "fence"
    <3>1. goal.pending = snap[q].pending
      BY <1>2, <2>3 DEF OnceInv, Decisions, ReviewFinds, NoPending
    <3> QED
      BY <1>1, <1>2, <1>5, <2>3, <3>1 DEF Reviewing
  <2>4. CASE pc[q] # "fence"
    BY <2>2, <2>4 DEF Fenced, Reviewing, Grading
  <2> QED
    BY <2>3, <2>4
<1> QED
  BY <1>6, <1>7, <1>8, <1>9, <1>10, <1>11 DEF Decisions

(* A new claim has a number no decision has. *)
LEMMA ClaimDecides ==
  ASSUME OneCycle, GoalInv, OnceInv, Next, NEW p \in Procs, ClaimCompletion(p)
  PROVE  Decisions'
<1>0. /\ commits' = commits /\ claims' = claims + 1 /\ claims \in Nat
      /\ pc[p] = "report" /\ TypeOK /\ Leave(p)
  BY DecidedFacts DEF ClaimCompletion, GoalInv
<1>1. /\ pc'[p] = "idle" /\ snap'[p].pending = NoPending
      /\ \A q \in Procs : q # p =>
           pc'[q] = pc[q] /\ snap'[q] = snap[q] /\ local'[q] = local[q]
  BY <1>0, LeaveMoves DEF OneMoves, Stays
<1>2. goal'.pending.claim = claims + 1
  <2>1. goal \in Goal
    BY <1>0 DEF TypeOK
  <2> QED
    BY <2>1 DEF ClaimCompletion, Goal
<1>3. claims + 1 \notin DecidedClaims /\ claims <= claims + 1
  BY DecidedFacts
<1>4. /\ DecidedClaims' = DecidedClaims /\ LastCommit' = LastCommit /\ ClaimDecidedOnce'
      /\ Undecided'
  <2>1. \A q \in Procs : pc'[q] = "commit" => pc[q] = "commit"
    BY <1>1
  <2> QED
    BY <1>0, <2>1, SameDecisions, UndecidedKept DEF OnceInv, Decisions
<1>5. ClaimsMade'
  <2>1. \A q \in Procs : snap[q].pending \in Pending
    BY <1>0 DEF TypeOK
  <2>2. \A k \in Pending : k.claim \in Nat
    BY GoalAssumption DEF Pending, Claim, NoPending
  <2>3. \A q \in Procs : snap'[q].pending.claim <= claims + 1
    <3>1. \A q \in Procs : snap[q].pending.claim <= claims + 1
      BY <1>0, <2>1, <2>2 DEF OnceInv, Decisions, ClaimsMade
    <3> QED
      BY <1>0, <1>1, <3>1, DecidedFacts
  <2>4. \A i \in 1..Len(commits) : commits[i].claim <= claims + 1
    BY <1>0, DecidedFacts
  <2> QED
    BY <1>0, <1>2, <2>3, <2>4 DEF OnceInv, Decisions, ClaimsMade
<1>6. Lingering' /\ RecoverFinds'
  BY <1>2, <1>3, <1>4 DEF Lingering, RecoverFinds, Redo
<1>7. ReviewFinds'
  <2>1. p \in Cyclers
    BY <1>0 DEF OnceInv, FenceInv, GradersGrade, Grading, Procs, Cyclers
  <2>2. \A q \in Cyclers : q = p
    BY <2>1 DEF OneCycle
  <2> QED
    BY <1>1, <2>2 DEF ReviewFinds, Reviewing
<1> QED
  BY <1>4, <1>5, <1>6, <1>7 DEF Decisions


(* At the start nothing is claimed or committed. *)
LEMMA OnceInit ==
  ASSUME Init
  PROVE  OnceInv
<1>1. commits = << >> /\ claims = 0 /\ DecidedClaims = {}
  BY DEF Init, DecidedClaims
<1>2. \A p \in Procs : pc[p] = "idle"
  BY DEF Init
<1>3. goal.pending = NoPending /\ \A p \in Procs : snap[p].pending = NoPending
  BY DEF Init, FirstGoal, Seen
<1>4. FenceInv
  BY <1>2 DEF FenceInv, FenceHeld, GradersGrade, Fenced, Grading, Procs
<1>5. ClaimsMade /\ ClaimDecidedOnce
  BY <1>1, <1>3 DEF ClaimsMade, ClaimDecidedOnce, NoPending
<1>6. Lingering /\ Undecided /\ RecoverFinds
  BY <1>1, <1>2 DEF Lingering, Undecided, RecoverFinds, Redo
<1>7. ReviewFinds
  BY <1>2 DEF ReviewFinds, Reviewing, Procs, Cyclers
<1> QED
  BY <1>4, <1>5, <1>6, <1>7 DEF OnceInv, Decisions

(* Every step keeps it, with one process that cycles. *)
LEMMA OnceNext ==
  ASSUME OneCycle, GoalInv, OnceInv, [Next]_vars
  PROVE  OnceInv'
<1>1. CASE Next
  <2>1. FenceInv'
    BY <1>1, FenceStep DEF OnceInv
  <2>2. CASE Silent
    BY <1>1, <2>1, <2>2, SilentDecides DEF OnceInv
  <2>3. ASSUME NEW p \in Procs, Quiet(p) \/ PutsBack(p) \/ Decisive(p)
        PROVE  Decisions'
    BY <1>1, <2>3, QuietDecides, PutBackDecides, StartDecides, RecoverDecides, ReadDecides,
       BeginDecides, CommitDecides, ClaimDecides DEF Decisive
  <2> QED
    BY <1>1, <2>1, <2>2, <2>3, DecisionFrame DEF OnceInv, DecisionStep
<1>2. CASE UNCHANGED vars
  <2>1. FenceInv' /\ ClaimsMade' /\ ClaimDecidedOnce'
    BY <1>2 DEF vars, OnceInv, Decisions, FenceInv, FenceHeld, GradersGrade, ClaimsMade,
                ClaimDecidedOnce
  <2>2. DecidedClaims' = DecidedClaims /\ LastCommit' = LastCommit
    BY <1>2 DEF vars, DecidedClaims, LastCommit
  <2>3. Lingering' /\ Undecided' /\ RecoverFinds' /\ ReviewFinds'
    BY <1>2, <2>2 DEF vars, OnceInv, Decisions, Lingering, Undecided, RecoverFinds, Redo,
                      ReviewFinds
  <2> QED
    BY <2>1, <2>3 DEF OnceInv, Decisions
<1> QED
  BY <1>1, <1>2

(* A completion claim is decided at most once, whatever crashes between the commit *)
(* and the write of supervisor.json and however often a receipt is graded again    *)
(* (applyIndependentCompletionGrade, recoverSupervisorCompletion), provided one    *)
(* process runs the cycles: with two, one can put back a claim the other has read  *)
(* before it was decided.                                                          *)
THEOREM DecidedOnce ==
  ASSUME OneCycle
  PROVE  Spec => []ClaimDecidedOnce
<1>1. Init => OnceInv
  BY OnceInit
<1>2. GoalInv /\ OnceInv /\ [Next]_vars => OnceInv'
  BY OnceNext
<1>3. OnceInv => ClaimDecidedOnce
  BY DEF OnceInv, Decisions
<1> QED
  BY <1>1, <1>2, <1>3, Invariance, PTL DEF Spec
=============================================================================
