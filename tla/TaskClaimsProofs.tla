-------------------------- MODULE TaskClaimsProofs --------------------------
(* Proofs about TaskClaims, for any set of tasks and any number of attempts. *)
EXTENDS TaskClaims, TLAPS

USE TaskClaimsAssumption

-----------------------------------------------------------------------------
(* What a transaction does to one task's claims *)

\* Before any claim the invariant holds.
LEMMA InitInv == DbInit => ClaimInv
BY DEF DbInit, ClaimInv, DbTypeOK, Consecutive, ClaimOwnsTask, Active, Closed,
       Attempts, Status, ClaimStatus

\* A closed claim is a row of the claims table, whatever closed it.
LEMMA ClosedTyped ==
  \A s \in ClaimStatus : Closed(s) \in [status : ClaimStatus, left : -1..Lease]
BY DEF Closed

\* One claim of one task replaced by another row.
LEMMA ClaimReplaced ==
  ASSUME NEW Row, NEW c \in [Tasks -> [Attempts -> Row]], NEW t \in Tasks,
         NEW a \in Attempts, NEW r \in Row
  PROVE  [c EXCEPT ![t][a] = r] \in [Tasks -> [Attempts -> Row]]
OBVIOUS

\* The next attempt is claimed only when the one before it is closed.
LEMMA ClaimStep ==
  ASSUME ClaimInv, NEW t \in Tasks, NEW a \in Attempts, claimNextTask(t, a)
  PROVE  ClaimInv'
<1> USE DEF claimNextTask, claimable, applyTransition, Active, Attempts
<1>1. DbTypeOK'
  BY DEF ClaimInv, DbTypeOK, Status, ClaimStatus
<1>2. Consecutive'
  BY DEF ClaimInv, DbTypeOK, Consecutive
<1>3. ClaimOwnsTask'
  BY SMTT(30) DEF ClaimInv, DbTypeOK, Consecutive, ClaimOwnsTask
<1> QED  BY <1>1, <1>2, <1>3 DEF ClaimInv

\* Renewing a live claim closes nothing.
LEMMA HeartbeatStep ==
  ASSUME ClaimInv, NEW t \in Tasks, NEW a \in Attempts, heartbeatClaim(t, a)
  PROVE  ClaimInv'
<1> USE DEF heartbeatClaim, MayRenew, Live, Active, Attempts
<1>1. DbTypeOK'
  BY SMTT(30) DEF ClaimInv, DbTypeOK, ClaimStatus
<1>2. Consecutive'
  BY DEF ClaimInv, DbTypeOK, Consecutive
<1>3. ClaimOwnsTask'
  BY SMTT(30) DEF ClaimInv, DbTypeOK, ClaimOwnsTask
<1> QED  BY <1>1, <1>2, <1>3 DEF ClaimInv

\* Completing a claim closes that claim and no other.
LEMMA CompleteClaimStep ==
  ASSUME ClaimInv, NEW t \in Tasks, NEW a \in Attempts, completeClaim(t, a)
  PROVE  ClaimInv'
<1>1. DbTypeOK'
  <2>1. Closed("completed") \in [status : ClaimStatus, left : -1..Lease]
    BY ClosedTyped DEF ClaimStatus
  <2> QED
    BY <2>1, ClaimReplaced DEF completeClaim, ClaimInv, DbTypeOK
<1> USE DEF completeClaim, MayClose, Live, Closed, Active, Attempts
<1>2. Consecutive'
  BY DEF ClaimInv, DbTypeOK, Consecutive
<1>3. ClaimOwnsTask'
  BY SMTT(30) DEF ClaimInv, DbTypeOK, ClaimOwnsTask
<1> QED  BY <1>1, <1>2, <1>3 DEF ClaimInv

\* Releasing a claim gives its task back.
LEMMA ReleaseStep ==
  ASSUME ClaimInv, NEW t \in Tasks, NEW a \in Attempts, NEW to \in Status,
         releaseClaim(t, a, to)
  PROVE  ClaimInv'
<1> USE DEF releaseClaim, MayClose, Live, Active, Attempts, Closed, applyTransition
<1>1. DbTypeOK'
  BY DEF ClaimInv, DbTypeOK, ClaimStatus
<1>2. Consecutive'
  BY SMTT(30) DEF ClaimInv, DbTypeOK, Consecutive
<1>3. ClaimOwnsTask'
  BY DEF ClaimInv, DbTypeOK, ClaimOwnsTask
<1> QED  BY <1>1, <1>2, <1>3 DEF ClaimInv

\* Recovery closes the lapsed claims and requeues their tasks together.
LEMMA RecoverStep ==
  ASSUME ClaimInv, recoverExpiredClaims
  PROVE  ClaimInv'
<1> USE DEF recoverExpiredClaims, LapsedTasks, Lapsed, Active, Attempts, Closed
<1>1. DbTypeOK'
  BY DEF ClaimInv, DbTypeOK, ClaimStatus, Status
<1>2. Consecutive'
  BY DEF ClaimInv, DbTypeOK, Consecutive
<1>3. ClaimOwnsTask'
  BY DEF ClaimInv, DbTypeOK, ClaimOwnsTask
<1> QED  BY <1>1, <1>2, <1>3 DEF ClaimInv

\* Time only shortens leases.
LEMMA TickStep ==
  ASSUME ClaimInv, Tick
  PROVE  ClaimInv'
<1> USE DEF Tick, Active
<1>1. DbTypeOK'
  <2> DEFINE Row == [status : ClaimStatus, left : -1..Lease]
  <2>1. \A r \in Row : r.status = "active" /\ r.left >= 0
                         => [status |-> "active", left |-> r.left - 1] \in Row
    BY DEF ClaimStatus
  <2>2. \A t \in Tasks : \A a \in Attempts : claim[t][a] \in Row
    BY DEF ClaimInv, DbTypeOK
  <2>3. claim' \in [Tasks -> [Attempts -> Row]]
    <3> HIDE DEF Row
    <3> QED  BY <2>1, <2>2
  <2> QED
    BY <2>3 DEF ClaimInv, DbTypeOK
<1> USE DEF Attempts
<1>2. Consecutive'
  BY DEF ClaimInv, DbTypeOK, Consecutive
<1>3. ClaimOwnsTask'
  BY DEF ClaimInv, DbTypeOK, ClaimOwnsTask
<1> QED  BY <1>1, <1>2, <1>3 DEF ClaimInv

\* An owner's transition needs a task without an active claim.
LEMMA OwnerStep ==
  ASSUME ClaimInv, NEW t \in Tasks, NEW to \in Status, ownerTransition(t, to)
  PROVE  ClaimInv'
<1> USE DEF ownerTransition, applyTransition, Attempts
<1>1. \A a \in Attempts : ~Active(t, a)
  BY DEF MayTransition, tasks_status_requires_current_fence, Active
<1>2. DbTypeOK'
  BY DEF ClaimInv, DbTypeOK
<1>3. Consecutive'
  BY DEF ClaimInv, Consecutive
<1>4. ClaimOwnsTask'
  BY <1>1 DEF ClaimInv, DbTypeOK, ClaimOwnsTask, Active
<1> QED  BY <1>2, <1>3, <1>4 DEF ClaimInv

\* A fenced transition is made by the one active claim.
LEMMA FencedStep ==
  ASSUME ClaimInv, NEW t \in Tasks, NEW a \in Attempts, NEW to,
         to \in {"verifying", "needs_decision"},
         UNCHANGED claim, applyTransition(t, to, a),
         recorded' \subseteq Tasks \X Attempts
  PROVE  ClaimInv'
<1> USE DEF applyTransition, Attempts
<1>1. Active(t, a)
  BY DEF MayTransition, tasks_status_requires_current_fence, Active
<1>2. DbTypeOK'
  <2>1. to \in Status
    BY DEF Status
  <2> QED  BY <2>1 DEF ClaimInv, DbTypeOK
<1>3. Consecutive'
  BY DEF ClaimInv, Consecutive
<1>4. ClaimOwnsTask'
  BY <1>1, SMTT(30) DEF ClaimInv, DbTypeOK, ClaimOwnsTask, Active
<1> QED  BY <1>2, <1>3, <1>4 DEF ClaimInv

\* Promotion touches a task without an active claim.
LEMMA PromoteStep ==
  ASSUME ClaimInv, NEW t \in Tasks, promoteNextLandedTask(t)
  PROVE  ClaimInv'
<1> USE DEF promoteNextLandedTask, Attempts
<1>1. \A a \in Attempts : ~Active(t, a)
  BY DEF tasks_status_requires_current_fence, Active
<1>2. DbTypeOK'
  BY DEF ClaimInv, DbTypeOK, Status
<1>3. Consecutive'
  BY DEF ClaimInv, Consecutive
<1>4. ClaimOwnsTask'
  BY <1>1 DEF ClaimInv, DbTypeOK, ClaimOwnsTask, Active
<1> QED  BY <1>2, <1>3, <1>4 DEF ClaimInv

\* Completion touches a task without an active claim.
LEMMA CompleteTaskStep ==
  ASSUME ClaimInv, NEW t \in Tasks, completeTask(t)
  PROVE  ClaimInv'
<1>1. status[t] = "ready_to_merge"
  BY DEF completeTask
<1>2. \A a \in Attempts : ~Active(t, a)
  BY <1>1 DEF ClaimInv, ClaimOwnsTask
<1> QED
  BY <1>2 DEF completeTask, ClaimInv, DbTypeOK, Status, Consecutive, ClaimOwnsTask, Active

\* Every transaction on tasks and claims keeps the invariant.
LEMMA NextInv == ClaimInv /\ [ClaimsNext]_dbvars => ClaimInv'
<1> SUFFICES ASSUME ClaimInv, [ClaimsNext]_dbvars PROVE ClaimInv'
  OBVIOUS
<1>1. CASE UNCHANGED dbvars
  BY <1>1 DEF dbvars, ClaimInv, DbTypeOK, Consecutive, ClaimOwnsTask, Active
<1>2. CASE \E t \in Tasks : \E a \in Attempts : parkTask(t, a) \/ recordLanding(t, a)
  <2>1. PICK t \in Tasks, a \in Attempts : parkTask(t, a) \/ recordLanding(t, a)
    BY <1>2
  <2>2. recorded' \subseteq Tasks \X Attempts
    BY <2>1 DEF parkTask, recordLanding, ClaimInv, DbTypeOK
  <2>3. CASE parkTask(t, a)
    BY <2>2, <2>3, FencedStep DEF parkTask
  <2>4. CASE recordLanding(t, a)
    BY <2>2, <2>4, FencedStep DEF recordLanding
  <2> QED  BY <2>1, <2>3, <2>4
<1> QED
  BY <1>1, <1>2, ClaimStep, HeartbeatStep, CompleteClaimStep, ReleaseStep, RecoverStep,
     TickStep, OwnerStep, PromoteStep, CompleteTaskStep DEF ClaimsNext

-----------------------------------------------------------------------------
(* The theorems *)

\* The task and claim tables keep their types, and an active claim is the only
\* one of its task, its latest, and the one that last moved it, whatever
\* workers, owners, recovery and promotion do (claim-service, task-service).
THEOREM ClaimsOwnTasks == ClaimsSpec => [](DbTypeOK /\ ClaimOwnsTask)
<1>1. ClaimInv => DbTypeOK /\ ClaimOwnsTask
  BY DEF ClaimInv
<1> QED  BY <1>1, InitInv, NextInv, PTL DEF ClaimsSpec

\* While a claim is active its task changes status only under its live lease
\* or in the transaction that closes it: an owner, a promotion or a grade that
\* races a worker changes nothing (tasks_status_requires_current_fence).
THEOREM StatusIsFenced == ClaimsSpec => FencedStatus
<1> DEFINE Step == \A t \in Tasks : \A a \in Attempts :
             Active(t, a) /\ status'[t] # status[t] =>
               \/ Live(t, a) /\ taskFence'[t] = a
               \/ claim'[t][a].status \in {"released", "expired"}
<1>1. ASSUME ClaimInv, ClaimsNext PROVE Step
  <2> SUFFICES ASSUME NEW t \in Tasks, NEW a \in Attempts,
                      Active(t, a), status'[t] # status[t]
               PROVE  \/ Live(t, a) /\ taskFence'[t] = a
                      \/ claim'[t][a].status \in {"released", "expired"}
    OBVIOUS
  <2> USE DEF Active, Attempts
  <2>0. /\ \A b \in Attempts : Active(t, b) => b = a
        /\ taskFence[t] = a
        /\ status[t] \in {"running", "verifying", "needs_decision"}
    BY <1>1 DEF ClaimInv, ClaimOwnsTask
  <2>1. CASE recoverExpiredClaims
    BY <1>1, <2>1 DEF recoverExpiredClaims, LapsedTasks, Lapsed, ClaimInv, ClaimOwnsTask,
                      DbTypeOK, Closed
  <2>2. CASE Tick
    BY <2>2 DEF Tick
  <2>3. CASE \E u \in Tasks : promoteNextLandedTask(u)
    BY <1>1, <2>3 DEF promoteNextLandedTask, tasks_status_requires_current_fence, ClaimInv,
                      DbTypeOK
  <2>4. CASE \E u \in Tasks : completeTask(u)
    BY <1>1, <2>0, <2>4 DEF completeTask, ClaimInv, DbTypeOK
  <2>5. CASE \E u \in Tasks : \E to \in Status : ownerTransition(u, to)
    BY <1>1, <2>5 DEF ownerTransition, applyTransition, MayTransition,
                      tasks_status_requires_current_fence, ClaimInv, DbTypeOK
  <2>6. CASE \E u \in Tasks : \E b \in Attempts :
               claimNextTask(u, b) \/ heartbeatClaim(u, b) \/ completeClaim(u, b)
    BY <1>1, <2>6 DEF claimNextTask, claimable, applyTransition, heartbeatClaim,
                      completeClaim, ClaimInv, DbTypeOK
  <2>7. CASE \E u \in Tasks : \E b \in Attempts : \E to \in Status : releaseClaim(u, b, to)
    BY <1>1, <2>0, <2>7 DEF releaseClaim, MayClose, Live, applyTransition, ClaimInv,
                            DbTypeOK, Closed
  <2>8. CASE \E u \in Tasks : \E b \in Attempts : parkTask(u, b) \/ recordLanding(u, b)
    <3>1. PICK u \in Tasks, b \in Attempts : parkTask(u, b) \/ recordLanding(u, b)
      BY <2>8
    <3>2. u = t
      BY <1>1, <3>1 DEF parkTask, recordLanding, applyTransition, ClaimInv, DbTypeOK
    <3>3. Live(t, b)
      BY <3>1, <3>2 DEF parkTask, recordLanding, applyTransition, MayTransition,
                        tasks_status_requires_current_fence, Live
    <3>4. b = a /\ taskFence'[t] = b
      BY <1>1, <2>0, <3>1, <3>2, <3>3 DEF parkTask, recordLanding, applyTransition, Live,
                                          ClaimInv, DbTypeOK
    <3> QED  BY <3>3, <3>4
  <2> QED
    BY <1>1, <2>1, <2>2, <2>3, <2>4, <2>5, <2>6, <2>7, <2>8 DEF ClaimsNext
<1>2. ASSUME ClaimInv, UNCHANGED dbvars PROVE Step
  BY <1>2 DEF dbvars
<1>3. ClaimInv /\ [ClaimsNext]_dbvars => [Step]_dbvars
  BY <1>1, <1>2
<1> QED  BY <1>3, InitInv, NextInv, PTL DEF ClaimsSpec, FencedStatus

\* Nothing starts before what it depends on is completed: a task outside
\* draft, ready and cancelled has completed dependencies, though only
\* ready -> queued checks them, because every other way into the queue starts
\* behind that check and completed is terminal (validateTransition).
THEOREM DependenciesCompleted == ClaimsSpec => []DependenciesFirst
<1> DEFINE Early == {"draft", "ready", "cancelled"}
<1>1. DbInit => DependenciesFirst
  BY DEF DbInit, DependenciesFirst
<1>2. ASSUME ClaimInv, DependenciesFirst, [ClaimsNext]_dbvars
      PROVE  \A t \in Tasks :
               /\ status[t] = "completed" => status'[t] = "completed"
               /\ status[t] \in Early /\ status'[t] \notin Early
                    => \A d \in DependsOn[t] : status[d] = "completed"
  <2> SUFFICES ASSUME NEW t \in Tasks, status'[t] # status[t]
               PROVE  /\ status[t] # "completed"
                      /\ status[t] \in Early /\ status'[t] \notin Early
                           => \A d \in DependsOn[t] : status[d] = "completed"
    OBVIOUS
  <2> DEFINE Moved == validateTransition(t, status'[t])
  <2>1. CASE Moved
    <3>1. status[t] # "completed" /\ (status[t] = "draft" => status'[t] \in Early)
          /\ status[t] # "cancelled"
          /\ (status[t] = "ready" => status'[t] \in Early \cup {"queued"})
      BY <1>2, <2>1 DEF validateTransition, TRANSITIONS, ClaimInv, DbTypeOK
    <3>2. status[t] = "ready" /\ status'[t] = "queued"
            => \A d \in DependsOn[t] : status[d] = "completed"
      BY <2>1 DEF validateTransition, incompleteDependencyCount
    <3> QED  BY <3>1, <3>2
  <2>2. CASE status[t] \in {"running", "verifying", "ready_to_merge"}
    BY <2>2
  <2>3. CASE recoverExpiredClaims
    BY <1>2, <2>2, <2>3 DEF recoverExpiredClaims, ClaimInv, DbTypeOK
  <2>4. CASE \E u \in Tasks : promoteNextLandedTask(u) \/ completeTask(u)
    BY <1>2, <2>2, <2>4 DEF promoteNextLandedTask, mayPromote, Landed, completeTask,
                            ClaimInv, DbTypeOK
  <2>5. CASE \E u \in Tasks : \E b \in Attempts :
               \/ claimNextTask(u, b) \/ parkTask(u, b) \/ recordLanding(u, b)
               \/ \E to \in Status : releaseClaim(u, b, to)
    BY <1>2, <2>1, <2>5 DEF claimNextTask, parkTask, recordLanding, releaseClaim,
                            applyTransition, MayTransition, ClaimInv, DbTypeOK
  <2>6. CASE \E u \in Tasks : \E to \in Status : ownerTransition(u, to)
    BY <1>2, <2>1, <2>6 DEF ownerTransition, applyTransition, MayTransition, ClaimInv, DbTypeOK
  <2>7. CASE Tick \/ UNCHANGED dbvars
             \/ \E u \in Tasks, b \in Attempts : heartbeatClaim(u, b) \/ completeClaim(u, b)
    BY <2>7 DEF Tick, dbvars, heartbeatClaim, completeClaim
  <2> QED
    BY <1>2, <2>3, <2>4, <2>5, <2>6, <2>7 DEF ClaimsNext
<1>3. ClaimInv /\ DependenciesFirst /\ [ClaimsNext]_dbvars => DependenciesFirst'
  BY <1>2 DEF DependenciesFirst
<1> QED  BY <1>1, <1>3, InitInv, NextInv, PTL DEF ClaimsSpec

\* What one transaction does to the status of a task it completes, or moves into
\* the completion gate.
LEMMA StatusEntry ==
  ASSUME ClaimInv, ClaimsNext, NEW t \in Tasks, status'[t] # status[t]
  PROVE  /\ status'[t] = "completed" => Proof(t)
         /\ \/ status'[t] \in OwnerMoves
            \/ status'[t] \in {"running", "queued", "cancelled", "needs_decision",
                               "verifying", "completed"}
            \/ promoteNextLandedTask(t)
<1> USE DEF ClaimInv, DbTypeOK
<1>1. CASE recoverExpiredClaims
  BY <1>1 DEF recoverExpiredClaims
<1>2. CASE Tick
  BY <1>2 DEF Tick
<1>3. CASE \E u \in Tasks : promoteNextLandedTask(u)
  BY <1>3 DEF promoteNextLandedTask
<1>4. CASE \E u \in Tasks : completeTask(u)
  BY <1>4 DEF completeTask
<1>5. CASE \E u \in Tasks : \E to \in Status : ownerTransition(u, to)
  BY <1>5 DEF ownerTransition, applyTransition, MayTransition, validateTransition
<1>6. CASE \E u \in Tasks : \E a \in Attempts :
             \/ claimNextTask(u, a) \/ heartbeatClaim(u, a) \/ completeClaim(u, a)
             \/ parkTask(u, a) \/ recordLanding(u, a)
  BY <1>6 DEF claimNextTask, heartbeatClaim, completeClaim, parkTask, recordLanding,
              applyTransition
<1>7. CASE \E u \in Tasks : \E a \in Attempts : \E to \in Status : releaseClaim(u, a, to)
  BY <1>7 DEF releaseClaim, applyTransition
<1> QED  BY <1>1, <1>2, <1>3, <1>4, <1>5, <1>6, <1>7 DEF ClaimsNext

\* No row of a run, a check or an evidence is taken back.
LEMMA RecordedGrows == [ClaimsNext]_dbvars => recorded \subseteq recorded'
BY DEF ClaimsNext, dbvars, recoverExpiredClaims, Tick, promoteNextLandedTask, completeTask,
       ownerTransition, claimNextTask, heartbeatClaim, completeClaim, releaseClaim, parkTask,
       recordLanding

\* A task is completed on the evidence of a landing and on nothing else, whoever
\* asks for the transition, and the evidence stays (evaluateCompletionProof).
THEOREM CompletedOnProof == ClaimsSpec => []CompletedIsProved
<1>1. DbInit => CompletedIsProved
  BY DEF DbInit, CompletedIsProved
<1>2. ASSUME ClaimInv, CompletedIsProved, [ClaimsNext]_dbvars PROVE CompletedIsProved'
  <2> SUFFICES ASSUME NEW t \in Tasks, status'[t] = "completed" PROVE Proof(t)'
    BY DEF CompletedIsProved
  <2>1. Proof(t)
    <3>1. CASE status'[t] = status[t]
      BY <1>2, <3>1 DEF CompletedIsProved
    <3>2. CASE status'[t] # status[t]
      BY <1>2, <3>2, StatusEntry DEF dbvars
    <3> QED  BY <3>1, <3>2
  <2>2. recorded \subseteq recorded'
    BY <1>2, RecordedGrows
  <2> QED  BY <2>1, <2>2 DEF Proof
<1>3. ClaimInv /\ CompletedIsProved /\ [ClaimsNext]_dbvars => CompletedIsProved'
  BY <1>2
<1> QED  BY <1>1, <1>3, InitInv, NextInv, PTL DEF ClaimsSpec

\* When no owner moves a task there by hand, a promotion finds the gate empty and
\* puts one task in.
LEMMA GateStep ==
  ASSUME ClaimInv, GateHoldsOne, [ClaimsNext]_dbvars,
         OwnerMoves \cap {"reviewing", "ready_to_merge"} = {}
  PROVE  GateHoldsOne'
<1> USE DEF ClaimInv, DbTypeOK, Gate
<1>1. CASE \E u \in Tasks : promoteNextLandedTask(u)
  <2>1. PICK u \in Tasks : promoteNextLandedTask(u)
    BY <1>1
  <2>2. \A t \in Tasks : t # u => status'[t] = status[t] /\ status[t] \notin {"reviewing", "ready_to_merge"}
    BY <2>1 DEF promoteNextLandedTask, mayPromote
  <2> QED  BY <2>2 DEF GateHoldsOne
<1>2. CASE ~\E u \in Tasks : promoteNextLandedTask(u)
  <2>1. ASSUME NEW t \in Tasks, status'[t] # status[t]
        PROVE  status'[t] \notin {"reviewing", "ready_to_merge"}
    BY <1>2, <2>1, StatusEntry DEF dbvars
  <2>2. Gate' \subseteq Gate
    BY <2>1
  <2> QED  BY <2>2 DEF GateHoldsOne
<1> QED  BY <1>1, <1>2
=============================================================================
