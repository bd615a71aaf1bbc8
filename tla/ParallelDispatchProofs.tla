----------------------- MODULE ParallelDispatchProofs -----------------------
(* Proofs about ParallelDispatch: its drivers, and that its transactions are *)
(* the ones TaskClaims allows.                                               *)
EXTENDS ParallelDispatch, TaskClaimsProofs, WellFoundedInduction

USE DispatchAssumption

\* The drivers start with no fence and an empty merge queue.
LEMMA DispatchInitInv == Init => DispatchInv
BY DEF Init, DispatchInv, DispatchTypes, DriversHaveFences, QueueWaits, OneLanding,
       DriversInBatch, Stage, InFlight, Landing, Waiting

\* A step of one driver, past the claim, that leaves the merge queue alone and
\* enters no waiting stage, and a landing stage only from one.
LEMMA DriverMoves ==
  ASSUME DispatchInv, NEW t \in Tasks, NEW s \in Stage \ Waiting,
         pc[t] \in InFlight \ Waiting, Goto(t, s), UNCHANGED <<mode, mergeq>>,
         s \in Landing => pc[t] \in Landing,
         UNCHANGED mine \/ (s = "idle" /\ mine' = [mine EXCEPT ![t] = 0])
  PROVE  DispatchInv'
<1> USE DEF DispatchInv, DispatchTypes, Goto
<1>1. DispatchTypes'
  OBVIOUS
<1>2. DriversHaveFences'
  BY DEF DriversHaveFences, InFlight, Landing, Waiting
<1>3. QueueWaits'
  BY DEF QueueWaits
<1>4. OneLanding'
  BY DEF OneLanding
<1>5. DriversInBatch'
  BY DEF DriversInBatch, InFlight, Landing, Waiting
<1> QED  BY <1>1, <1>2, <1>3, <1>4, <1>5

\* Steps that touch neither the drivers nor their queue.
LEMMA DriversUnchanged ==
  ASSUME DispatchInv, UNCHANGED <<pc, mine, mergeq>>,
         mode' = mode \/ \A t \in Tasks : pc[t] = "idle"
  PROVE  DispatchInv'
BY DEF DispatchInv, DispatchTypes, DriversHaveFences, QueueWaits, OneLanding, DriversInBatch

\* A batch starts from settled drivers.
LEMMA SelectStage ==
  ASSUME DispatchInv, Select
  PROVE  DispatchInv'
<1> USE DEF DispatchInv, DispatchTypes, Select
<1>1. \A t \in Tasks : pc[t] = "idle"
  BY DEF DriversInBatch
<1>2. /\ \A t \in Tasks : pc'[t] \in {"claim", "idle"}
      /\ mode' = "batch" \/ pc' = pc
  <2>1. CASE UNCHANGED pc
    BY <1>1, <2>1
  <2>2. CASE \E B : mode' = "batch" /\ pc' = [t \in Tasks |-> IF t \in B THEN "claim" ELSE "idle"]
    BY <2>2
  <2> QED  BY <2>1, <2>2
<1>3. \A i \in 1..Len(mergeq) : FALSE
  BY <1>1 DEF QueueWaits, Waiting
<1>4. pc' \in [Tasks -> Stage]
  BY DEF Stage
<1>5. DriversHaveFences' /\ OneLanding'
  BY <1>2 DEF DriversHaveFences, OneLanding, InFlight, Landing, Waiting
<1>6. QueueWaits'
  BY <1>3 DEF QueueWaits
<1>7. DriversInBatch'
  BY <1>1, <1>2 DEF DriversInBatch
<1> QED  BY <1>4, <1>5, <1>6, <1>7

\* A driver takes its fence from the claim it inserts, or settles.
LEMMA ClaimStage ==
  ASSUME DispatchInv, NEW t \in Tasks, Claim(t)
  PROVE  DispatchInv'
<1> USE DEF DispatchInv, DispatchTypes, Claim, Goto
<1>1. DispatchTypes'
  BY DEF Stage, InFlight
<1>2. DriversHaveFences'
  BY DEF DriversHaveFences, InFlight, Landing, Waiting
<1>3. QueueWaits'
  BY DEF QueueWaits, Waiting
<1>4. OneLanding'
  BY DEF OneLanding, Landing
<1>5. DriversInBatch'
  BY DEF DriversInBatch
<1> QED  BY <1>1, <1>2, <1>3, <1>4, <1>5

\* A finished worker joins the end of the merge queue, once.
LEMMA WorkerStage ==
  ASSUME DispatchInv, NEW t \in Tasks, WorkerEnds(t)
  PROVE  DispatchInv'
<1> USE DEF DispatchInv, DispatchTypes
<1>1. CASE Goto(t, "error") /\ UNCHANGED mergeq
  BY <1>1, DriverMoves DEF WorkerEnds, Stage, InFlight, Landing, Waiting
<1>2. CASE (\E o \in Waiting : Goto(t, o)) /\ mergeq' = Append(mergeq, t)
  <2>1. PICK o \in Waiting : Goto(t, o)
    BY <1>2
  <2> USE DEF WorkerEnds, Goto
  <2>2. \A i \in 1..Len(mergeq) : mergeq[i] # t
    BY DEF QueueWaits, Waiting
  <2>3. DispatchTypes'
    BY <1>2, <2>1 DEF Stage, InFlight
  <2>4. QueueWaits'
    <3>1. /\ Len(mergeq') = Len(mergeq) + 1
          /\ \A i \in 1..Len(mergeq) : mergeq'[i] = mergeq[i] /\ mergeq[i] \in Tasks
          /\ mergeq'[Len(mergeq) + 1] = t
      BY <1>2
    <3>2. pc'[t] \in Waiting /\ \A u \in Tasks \ {t} : pc'[u] = pc[u]
      BY <2>1
    <3>3. \A i \in 1..Len(mergeq') : i \in 1..Len(mergeq) \/ i = Len(mergeq) + 1
      <4>1. Len(mergeq) \in Nat
        OBVIOUS
      <4> QED  BY <3>1, <4>1
    <3>4. \A i \in 1..Len(mergeq) : pc[mergeq[i]] \in Waiting
      BY DEF QueueWaits
    <3>5. \A i \in 1..Len(mergeq') : pc'[mergeq'[i]] \in Waiting
      BY <2>2, <3>1, <3>2, <3>3, <3>4
    <3>6. \A i, j \in 1..Len(mergeq') : mergeq'[i] = mergeq'[j] => i = j
      BY <2>2, <3>1, <3>3 DEF QueueWaits
    <3> QED  BY <3>5, <3>6 DEF QueueWaits
  <2>5. DriversHaveFences' /\ OneLanding' /\ DriversInBatch'
    BY <1>2, <2>1 DEF DriversHaveFences, OneLanding, DriversInBatch, InFlight, Landing, Waiting
  <2> QED  BY <2>3, <2>4, <2>5
<1> QED  BY <1>1, <1>2 DEF WorkerEnds

\* The first of the queue starts to land when no other landing is under way.
LEMMA LandStage ==
  ASSUME DispatchInv, NEW t \in Tasks, Land(t)
  PROVE  DispatchInv'
<1> USE DEF DispatchInv, DispatchTypes
<1>1. PICK s \in {"try", "release", "park", "error"} : Goto(t, s)
  BY DEF Land, Renew
<1> USE <1>1 DEF Land, Goto
<1>2. pc[t] \in Waiting /\ \A i \in 2..Len(mergeq) : mergeq[i] # t
  <2>1. Len(mergeq) >= 1 /\ mergeq[1] = t /\ Len(mergeq) \in Nat
    OBVIOUS
  <2>2. /\ \A i \in 1..Len(mergeq) : pc[mergeq[i]] \in Waiting
        /\ \A i, j \in 1..Len(mergeq) : mergeq[i] = mergeq[j] => i = j
    BY DEF QueueWaits
  <2>3. 1 \in 1..Len(mergeq) /\ \A i \in 2..Len(mergeq) : i \in 1..Len(mergeq) /\ i # 1
    BY <2>1
  <2> HIDE DEF DispatchInv, DispatchTypes, Land, Goto
  <2> HIDE <1>1
  <2>4. pc[t] \in Waiting
    BY <2>1, <2>2, <2>3
  <2>5. \A i \in 2..Len(mergeq) : mergeq[i] # t
    BY <2>1, <2>2, <2>3
  <2> QED  BY <2>4, <2>5
<1>3. DispatchTypes'
  BY DEF Stage, InFlight, Landing
<1>4. QueueWaits'
  <2>1. /\ Len(mergeq') = Len(mergeq) - 1
        /\ \A i \in 1..Len(mergeq') : mergeq'[i] = mergeq[i + 1] /\ mergeq[i + 1] \in Tasks
    OBVIOUS
  <2> QED  BY <1>2, <2>1 DEF QueueWaits
<1>5. DriversHaveFences' /\ OneLanding' /\ DriversInBatch'
  BY <1>2 DEF DriversHaveFences, OneLanding, DriversInBatch, InFlight, Landing, Waiting
<1> QED  BY <1>3, <1>4, <1>5

\* The stages of a landing, and the ways out of it.
LEMMA LandingStages ==
  ASSUME DispatchInv, NEW t \in Tasks,
         \/ Setup(t) \/ Release(t) \/ TryLand(t) \/ RenewToLand(t) \/ FastForward(t)
         \/ IntegratorEnds(t) \/ RenewLanded(t) \/ Record(t) \/ Close(t)
         \/ Park(t) \/ ParkClose(t)
  PROVE  DispatchInv'
<1> USE DEF Stage, InFlight, Landing, Waiting
<1>1. CASE Setup(t)
  BY <1>1, DriverMoves DEF Setup
<1>2. CASE Release(t)
  BY <1>2, DriverMoves DEF Release, Settle
<1>3. CASE TryLand(t)
  BY <1>3, DriverMoves DEF TryLand, Failed
<1>4. CASE RenewToLand(t)
  BY <1>4, DriverMoves DEF RenewToLand, Renew
<1>5. CASE FastForward(t)
  BY <1>5, DriverMoves DEF FastForward, Failed
<1>6. CASE IntegratorEnds(t)
  BY <1>6, DriverMoves DEF IntegratorEnds, Renew
<1>7. CASE RenewLanded(t)
  BY <1>7, DriverMoves DEF RenewLanded, Renew
<1>8. CASE Record(t)
  BY <1>8, DriverMoves DEF Record
<1>9. CASE Close(t)
  BY <1>9, DriverMoves DEF Close, Settle
<1>10. CASE Park(t)
  BY <1>10, DriverMoves DEF Park, Settle
<1>11. CASE ParkClose(t)
  BY <1>11, DriverMoves DEF ParkClose, Settle
<1> QED
  BY <1>1, <1>2, <1>3, <1>4, <1>5, <1>6, <1>7, <1>8, <1>9, <1>10, <1>11

\* The death of the dispatcher takes every driver with it.
LEMMA CrashStage ==
  ASSUME DispatchInv, Crash
  PROVE  DispatchInv'
BY DEF Crash, DispatchInv, DispatchTypes, DriversHaveFences, QueueWaits, OneLanding,
       DriversInBatch, Stage, InFlight, Landing, Waiting

\* Every step keeps the invariant of the drivers.
LEMMA DispatchNextInv == DispatchInv /\ [Next]_vars => DispatchInv'
<1> SUFFICES ASSUME DispatchInv, [Next]_vars PROVE DispatchInv'
  OBVIOUS
<1>1. CASE StartCycle \/ Promote \/ PromoteThrows \/ EndBatch
  BY <1>1, DriversUnchanged DEF StartCycle, Promote, PromoteThrows, EndBatch, DispatchInv,
                                DriversInBatch
<1>2. CASE OwnerCommits \/ Others \/ TimePasses \/ UNCHANGED vars
           \/ \E t \in Tasks : Heartbeat(t)
  BY <1>2, DriversUnchanged DEF OwnerCommits, Others, TimePasses, vars, Heartbeat
<1> QED
  BY <1>1, <1>2, SelectStage, ClaimStage, WorkerStage, LandStage, LandingStages, CrashStage
     DEF Next, Cycle, Driver

-----------------------------------------------------------------------------
(* The theorems *)

\* Landings on the goal checkout are serialised: the promise chain of
\* runParallelBatch lets one result at a time be rebased, verified and merged.
THEOREM LandingsSerialised == Spec => []OneLanding
<1>1. DispatchInv => OneLanding
  BY DEF DispatchInv
<1> QED  BY <1>1, DispatchInitInv, DispatchNextInv, PTL DEF Spec

\* Each transaction of a cycle is one that TaskClaims allows, or none at all.
LEMMA DispatchStep ==
  ASSUME DispatchInv, [Next]_vars
  PROVE  [ClaimsNext]_dbvars
<1> USE DEF ClaimsNext
<1>1. CASE Cycle
  BY <1>1 DEF Cycle, StartCycle, Promote, PromoteThrows, Select, EndBatch
<1>2. CASE OwnerCommits \/ Others \/ Crash \/ TimePasses \/ UNCHANGED vars
  BY <1>2 DEF OwnerCommits, Others, Crash, TimePasses, vars
<1>3. ASSUME NEW t \in Tasks, Heartbeat(t) \/ Driver(t)
      PROVE  [ClaimsNext]_dbvars
  <2>1. pc[t] \in InFlight => mine[t] \in Attempts
    BY DEF DispatchInv, DriversHaveFences
  <2>2. CASE Heartbeat(t)
    BY <2>1, <2>2 DEF Heartbeat
  <2>3. CASE Claim(t)
    BY <2>3 DEF Claim
  <2>4. CASE Setup(t) \/ WorkerEnds(t) \/ TryLand(t) \/ FastForward(t)
    BY <2>4 DEF Setup, WorkerEnds, TryLand, FastForward
  <2>5. CASE Land(t)
    <3>1. pc[t] \in InFlight
      BY <2>5 DEF Land, DispatchInv, DispatchTypes, QueueWaits, InFlight
    <3> QED  BY <2>1, <2>5, <3>1 DEF Land, Renew
  <2>6. CASE Release(t)
    <3>1. mine[t] \in Attempts
      BY <2>1, <2>6 DEF Release, InFlight, Landing
    <3>2. CASE releaseClaim(t, mine[t], "queued")
      BY <3>1, <3>2 DEF Status
    <3> QED  BY <2>6, <3>2 DEF Release
  <2>7. CASE RenewToLand(t) \/ IntegratorEnds(t) \/ RenewLanded(t)
    <3>1. mine[t] \in Attempts
      BY <2>1, <2>7 DEF RenewToLand, IntegratorEnds, RenewLanded, InFlight, Landing
    <3> QED  BY <2>7, <3>1 DEF RenewToLand, IntegratorEnds, RenewLanded, Renew
  <2>8. CASE Record(t) \/ Close(t) \/ Park(t) \/ ParkClose(t)
    <3>1. mine[t] \in Attempts
      BY <2>1, <2>8 DEF Record, Close, Park, ParkClose, InFlight, Landing
    <3> QED  BY <2>8, <3>1 DEF Record, Close, Park, ParkClose
  <2> QED
    BY <1>3, <2>2, <2>3, <2>4, <2>5, <2>6, <2>7, <2>8 DEF Driver
<1> QED  BY <1>1, <1>2, <1>3 DEF Next

\* The parallel cycle, with its crashes, lost leases and races with the owner,
\* implements the claim protocol: what is proved of TaskClaims holds of it.
THEOREM DispatchImplementsClaims == Spec => ClaimsSpec
<1>1. Init => DbInit
  BY DEF Init
<1>2. DispatchInv /\ [Next]_vars => [ClaimsNext]_dbvars
  BY DispatchStep
<1> QED  BY <1>1, <1>2, DispatchInitInv, DispatchNextInv, PTL DEF Spec, ClaimsSpec

\* A transaction of another driver leaves the claims of t alone.
LEMMA OtherClaims ==
  ASSUME DbTypeOK, NEW t \in Tasks, NEW u \in Tasks, u # t, Driver(u) \/ Heartbeat(u)
  PROVE  claim'[t] = claim[t]
<1> USE DEF DbTypeOK
<1>1. CASE Heartbeat(u) \/ Claim(u)
  BY <1>1 DEF Heartbeat, Claim, heartbeatClaim, claimNextTask, dbvars
<1>2. CASE Setup(u) \/ WorkerEnds(u) \/ TryLand(u) \/ FastForward(u)
  BY <1>2 DEF Setup, WorkerEnds, TryLand, FastForward, dbvars
<1>3. CASE Land(u) \/ RenewToLand(u) \/ IntegratorEnds(u) \/ RenewLanded(u)
  BY <1>3 DEF Land, RenewToLand, IntegratorEnds, RenewLanded, Renew, heartbeatClaim, dbvars
<1>4. CASE Release(u) \/ Close(u) \/ ParkClose(u)
  BY <1>4 DEF Release, Close, ParkClose, releaseClaim, completeClaim, dbvars
<1>5. CASE Record(u) \/ Park(u)
  BY <1>5 DEF Record, Park, recordLanding, parkTask, dbvars
<1> QED  BY <1>1, <1>2, <1>3, <1>4, <1>5 DEF Driver

\* A driver moves only itself.
LEMMA OtherDrivers ==
  ASSUME DispatchInv, NEW t \in Tasks, NEW u \in Tasks, u # t, Driver(u) \/ Heartbeat(u)
  PROVE  pc'[t] = pc[t] /\ mine'[t] = mine[t]
<1> USE DEF DispatchInv, DispatchTypes, Goto
<1>1. CASE Heartbeat(u) \/ Claim(u) \/ Setup(u) \/ WorkerEnds(u) \/ TryLand(u) \/ FastForward(u)
  BY <1>1 DEF Heartbeat, Claim, Setup, WorkerEnds, TryLand, FastForward, Failed
<1>2. CASE Land(u) \/ RenewToLand(u) \/ IntegratorEnds(u) \/ RenewLanded(u)
  BY <1>2 DEF Land, RenewToLand, IntegratorEnds, RenewLanded, Renew
<1>3. CASE Release(u) \/ Close(u) \/ ParkClose(u) \/ Record(u) \/ Park(u)
  BY <1>3 DEF Release, Close, ParkClose, Record, Park, Settle
<1> QED  BY <1>1, <1>2, <1>3 DEF Driver

\* Between the renewal and the merge nothing but time ends a lease, and a prompt
\* driver leaves it too little of that.
LEMMA LiveStep ==
  ASSUME Prompt, ClaimInv, DispatchInv, LostClaimNeverLands, [Next]_vars
  PROVE  LostClaimNeverLands'
<1> SUFFICES ASSUME NEW t \in Tasks, pc'[t] = "ff"
             PROVE  Live(t, mine[t])'
  BY DEF LostClaimNeverLands
<1> USE DEF Live, Active
<1>1. ASSUME NEW u \in Tasks, Driver(u) \/ Heartbeat(u), u # t
      PROVE  Live(t, mine[t])'
  BY <1>1, OtherClaims, OtherDrivers DEF ClaimInv, LostClaimNeverLands
<1>2. CASE Driver(t) \/ Heartbeat(t)
  <2>1. CASE RenewToLand(t)
    <3>1. mine[t] \in Attempts /\ heartbeatClaim(t, mine[t]) /\ mine' = mine
      BY <2>1 DEF RenewToLand, Renew, Goto, DispatchInv, DispatchTypes,
                        DriversHaveFences, InFlight, Landing
    <3>2. claim'[t][mine[t]] = [status |-> "active", left |-> Lease]
      BY <3>1 DEF heartbeatClaim, ClaimInv, DbTypeOK
    <3> QED  BY <3>1, <3>2, TaskClaimsAssumption
  <2>2. CASE Heartbeat(t)
    <3>1. mine[t] \in Attempts /\ heartbeatClaim(t, mine[t]) /\ mine' = mine
      BY <2>2 DEF Heartbeat, DispatchInv, DriversHaveFences
    <3>2. claim'[t][mine[t]] = [status |-> "active", left |-> Lease]
      BY <3>1 DEF heartbeatClaim, ClaimInv, DbTypeOK
    <3> QED  BY <3>1, <3>2, TaskClaimsAssumption
  <2>3. ~RenewToLand(t) /\ ~Heartbeat(t) => FALSE
    <3> SUFFICES ASSUME ~RenewToLand(t), ~Heartbeat(t) PROVE FALSE
      OBVIOUS
    <3> USE DEF DispatchInv, DispatchTypes, Goto
    <3>1. ~(Claim(t) \/ Setup(t) \/ WorkerEnds(t) \/ TryLand(t) \/ FastForward(t))
      BY DEF Claim, Setup, WorkerEnds, TryLand, FastForward, Failed, Waiting
    <3>2. ~(Land(t) \/ IntegratorEnds(t) \/ RenewLanded(t))
      BY DEF Land, IntegratorEnds, RenewLanded, Renew
    <3>3. ~(Release(t) \/ Close(t) \/ ParkClose(t) \/ Record(t) \/ Park(t))
      BY DEF Release, Close, ParkClose, Record, Park, Settle
    <3> QED  BY <1>2, <3>1, <3>2, <3>3 DEF Driver
  <2> QED  BY <2>1, <2>2, <2>3
<1>3. ASSUME UNCHANGED <<pc, mine>>, claim' = claim
      PROVE  Live(t, mine[t])'
  BY <1>3 DEF LostClaimNeverLands
<1>4. ASSUME UNCHANGED <<pc, mine>>, recoverExpiredClaims
      PROVE  Live(t, mine[t])'
  <2>1. mine[t] \in Attempts /\ Live(t, mine[t])
    BY <1>4 DEF DispatchInv, DriversHaveFences, InFlight, Landing, LostClaimNeverLands
  <2> QED
    BY <1>4, <2>1 DEF recoverExpiredClaims, Lapsed, ClaimInv, DbTypeOK
<1>5. CASE TimePasses
  <2>1. mine[t] \in Attempts /\ Live(t, mine[t]) /\ claim[t][mine[t]].left > 1
    BY <1>5 DEF TimePasses, Guarded, DispatchInv, DriversHaveFences, InFlight,
                      Landing, LostClaimNeverLands
  <2> QED
    BY <1>5, <2>1 DEF TimePasses, Tick, ClaimInv, DbTypeOK
<1>6. CASE Crash
  BY <1>6 DEF Crash
<1>7. CASE Select
  <2>1. CASE UNCHANGED pc
    BY <1>4, <1>7, <2>1 DEF Select
  <2>2. CASE ~UNCHANGED pc
    BY <1>7, <2>2 DEF Select
  <2> QED  BY <2>1, <2>2
<1>8. CASE StartCycle \/ Promote \/ PromoteThrows \/ EndBatch \/ OwnerCommits \/ UNCHANGED vars
  BY <1>3, <1>8 DEF StartCycle, Promote, PromoteThrows, EndBatch, OwnerCommits, vars,
                    promoteNextLandedTask, dbvars
<1>9. CASE Others
  BY <1>3, <1>4, <1>9 DEF Others, completeTask, ownerTransition
<1> QED
  BY <1>1, <1>2, <1>5, <1>6, <1>7, <1>8, <1>9 DEF Next, Cycle

\* "A lost claim must not land": when a renewed lease outlives the merge it
\* guards, every driver that is about to fast-forward the goal checkout holds
\* the live claim of its task, whatever expired or was recovered before.
THEOREM OnlyLiveClaimsLand == Prompt /\ Spec => []LostClaimNeverLands
<1> SUFFICES ASSUME Prompt PROVE Spec => []LostClaimNeverLands
  OBVIOUS
<1>1. Init => LostClaimNeverLands
  BY DEF Init, LostClaimNeverLands
<1>2. ClaimInv /\ DispatchInv /\ LostClaimNeverLands /\ [Next]_vars => LostClaimNeverLands'
  BY LiveStep
<1>3. Init => ClaimInv
  BY InitInv DEF Init
<1>4. ClaimInv /\ DispatchInv /\ [Next]_vars => ClaimInv'
  BY DispatchStep, NextInv
<1> QED
  BY <1>1, <1>2, <1>3, <1>4, DispatchInitInv, DispatchNextInv, PTL DEF Spec

-----------------------------------------------------------------------------
(* The batch *)

\* A set of numbers that is not empty has a smallest one.
LEMMA Smallest ==
  ASSUME NEW S \in SUBSET Nat, S # {}
  PROVE  \E m \in S : \A n \in S : m <= n
<1>1. PICK m \in S : \A n \in S : ~ (<<n, m>> \in OpToRel(<, Nat))
  BY NatLessThanWellFounded, WFMin
<1>2. \A n \in S : ~ (n < m)
  BY <1>1 DEF OpToRel
<1> QED  BY <1>2

\* The members of B older than t.
Older(B, t) == {u \in B : u < t}

\* t has a place beside the older members of B.
Fits(B, t) == Cardinality(Older(B, t)) < Limit /\ \A u \in Older(B, t) : ~Clash(u, t)

\* B is the greedy choice among the queued tasks older than n.
GreedyTo(B, Q, n) ==
  /\ B \subseteq {t \in Q : t < n}
  /\ \A t \in Q : t < n => (t \in B <=> Fits(B, t))

\* Greedy choices agree on what both have decided.
LEMMA GreedyAgree ==
  ASSUME NEW Q \in SUBSET Nat, NEW m \in Nat, NEW n \in Nat, m <= n,
         NEW B, NEW C, GreedyTo(B, Q, m), GreedyTo(C, Q, n)
  PROVE  \A t \in Q : t < m => (t \in B <=> t \in C)
<1> DEFINE Differ == {t \in Q : t < m /\ ~(t \in B <=> t \in C)}
<1> SUFFICES ASSUME Differ # {} PROVE FALSE
  OBVIOUS
<1>1. PICK d \in Differ : \A t \in Differ : d <= t
  BY Smallest
<1>2. d \in Q /\ d < m /\ d < n /\ d \in Nat /\ ~(d \in B <=> d \in C)
  BY <1>1
<1>3. Older(B, d) = Older(C, d)
  <2>1. \A u \in Q : u < d => u \notin Differ
    BY <1>1, <1>2
  <2>2. \A u \in Q : u < d => u < m
    BY <1>2
  <2>3. \A u \in Q : u < d => (u \in B <=> u \in C)
    BY <2>1, <2>2
  <2> QED  BY <2>3 DEF Older, GreedyTo
<1>4. Fits(B, d) <=> Fits(C, d)
  BY <1>3 DEF Fits
<1> QED  BY <1>2, <1>4 DEF GreedyTo

\* The greedy choice can always be extended by one more task.
LEMMA GreedyExists ==
  ASSUME NEW Q \in SUBSET Nat
  PROVE  \A n \in Nat : \E B : GreedyTo(B, Q, n)
<1> DEFINE Without == {n \in Nat : ~\E B : GreedyTo(B, Q, n)}
<1> SUFFICES ASSUME Without # {} PROVE FALSE
  OBVIOUS
<1>1. PICK n \in Without : \A k \in Without : n <= k
  BY Smallest
<1>2. n \in Nat /\ ~\E B : GreedyTo(B, Q, n)
  BY <1>1
<1>3. n # 0
  <2>1. GreedyTo({}, Q, 0)
    BY DEF GreedyTo
  <2> QED  BY <1>2, <2>1
<1>4. n - 1 \in Nat /\ n - 1 \notin Without
  BY <1>1, <1>2, <1>3
<1>5. PICK B : GreedyTo(B, Q, n - 1)
  BY <1>4
<1> DEFINE C == IF n - 1 \in Q /\ Fits(B, n - 1) THEN B \cup {n - 1} ELSE B
<1>6. \A t \in Q : t < n => Older(C, t) = Older(B, t)
  BY <1>2 DEF Older
<1>7. \A t \in Q : t < n => (Fits(C, t) <=> Fits(B, t))
  BY <1>6 DEF Fits
<1>8. C \subseteq {t \in Q : t < n}
  BY <1>2, <1>5 DEF GreedyTo
<1>9. ASSUME NEW t \in Q, t < n PROVE t \in C <=> Fits(C, t)
  <2>1. CASE t < n - 1
    BY <1>2, <1>5, <1>7, <1>9, <2>1 DEF GreedyTo
  <2>2. CASE t = n - 1
    BY <1>2, <1>5, <1>7, <1>9, <2>2 DEF GreedyTo
  <2> QED  BY <1>2, <1>9, <2>1, <2>2
<1>10. GreedyTo(C, Q, n)
  BY <1>8, <1>9 DEF GreedyTo
<1> QED  BY <1>2, <1>10

\* selectParallelBatch chooses what it describes, however many tasks are queued.
LEMMA BatchIsGreedy ==
  ASSUME NEW Q \in SUBSET Tasks
  PROVE  LET B == selectParallelBatch(Q)
         IN  B \subseteq Q /\ \A t \in Q : t \in B <=> Fits(B, t)
<1> DEFINE G == {t \in Q : \E C : GreedyTo(C, Q, t + 1) /\ t \in C}
<1>0. Q \in SUBSET Nat
  BY TaskClaimsAssumption
<1>1. ASSUME NEW t \in Q PROVE t \in G <=> Fits(G, t)
  <2>1. PICK C : GreedyTo(C, Q, t + 1)
    BY <1>0, GreedyExists
  <2>2. ASSUME NEW u \in Q, u <= t PROVE u \in G <=> u \in C
    <3>1. u \in Nat /\ u + 1 \in Nat /\ t + 1 \in Nat /\ u + 1 <= t + 1 /\ u < u + 1
      BY <1>0, <2>2
    <3>2. PICK D : GreedyTo(D, Q, u + 1)
      BY <1>0, <3>1, GreedyExists
    <3>3. u \in D <=> u \in C
      BY <1>0, <2>1, <3>1, <3>2, GreedyAgree
    <3>4. ASSUME NEW E, GreedyTo(E, Q, u + 1) PROVE u \in E <=> u \in C
      BY <1>0, <2>1, <3>1, <3>4, GreedyAgree
    <3> QED  BY <3>2, <3>3, <3>4
  <2>3. t \in Nat /\ t < t + 1
    BY <1>0
  <2>4. Older(G, t) = Older(C, t)
    <3>1. \A u \in Q : u < t => (u \in G <=> u \in C)
      BY <1>0, <2>2
    <3>2. C \subseteq Q /\ G \subseteq Q
      BY <2>1 DEF GreedyTo
    <3> HIDE DEF G
    <3> QED  BY <3>1, <3>2 DEF Older
  <2>5. t \in G <=> t \in C
    BY <1>0, <2>2
  <2>6. t \in C <=> Fits(C, t)
    BY <2>1, <2>3 DEF GreedyTo
  <2> HIDE DEF G
  <2> QED  BY <2>4, <2>5, <2>6 DEF Fits
<1>2. G \in SUBSET Q
  OBVIOUS
<1> HIDE DEF G
<1>3. \E B \in SUBSET Q : \A t \in Q : t \in B <=> Fits(B, t)
  BY <1>1, <1>2
<1>4. selectParallelBatch(Q) = CHOOSE B \in SUBSET Q : \A t \in Q : t \in B <=> Fits(B, t)
  BY DEF selectParallelBatch, Fits, Older
<1> QED  BY <1>3, <1>4

\* The tasks of a batch are pairwise disjoint.
LEMMA BatchApart ==
  ASSUME NEW Q \in SUBSET Tasks, NEW t \in selectParallelBatch(Q),
         NEW u \in selectParallelBatch(Q), t # u
  PROVE  ~Clash(t, u)
<1>1. t \in Nat /\ u \in Nat /\ t \in Q /\ u \in Q
  BY BatchIsGreedy, TaskClaimsAssumption
<1>2. Fits(selectParallelBatch(Q), t) /\ Fits(selectParallelBatch(Q), u)
  BY <1>1, BatchIsGreedy
<1>3. CASE t < u
  BY <1>2, <1>3 DEF Fits, Older
<1>4. CASE u < t
  BY <1>2, <1>4 DEF Fits, Older, Clash
<1> QED  BY <1>1, <1>3, <1>4

\* Outside a selection no settled driver starts.
LEMMA SettledStays ==
  ASSUME DispatchInv, [Next]_vars, ~Select, NEW t \in Tasks, pc[t] = "idle"
  PROVE  pc'[t] = "idle"
<1>1. CASE StartCycle \/ Promote \/ PromoteThrows \/ EndBatch \/ OwnerCommits \/ Others \/ Crash
           \/ TimePasses \/ UNCHANGED vars
  BY <1>1 DEF StartCycle, Promote, PromoteThrows, EndBatch, OwnerCommits, Others, Crash,
              TimePasses, vars
<1>2. ASSUME NEW u \in Tasks, Driver(u) \/ Heartbeat(u) PROVE pc'[t] = "idle"
  <2>1. CASE u # t
    BY <1>2, <2>1, OtherDrivers
  <2>2. CASE u = t
    <3>1. ~Driver(t)
      BY DEF Driver, Claim, Setup, WorkerEnds, Land, Release, TryLand, RenewToLand, FastForward,
             IntegratorEnds, RenewLanded, Record, Close, Park, ParkClose, DispatchInv,
             DispatchTypes, QueueWaits, Waiting
    <3>2. ~Heartbeat(t)
      BY DEF Heartbeat, InFlight, Landing, Waiting
    <3> QED  BY <1>2, <2>2, <3>1, <3>2
  <2> QED  BY <2>1, <2>2
<1> QED  BY <1>1, <1>2 DEF Next, Cycle

\* A selection starts one greedy batch, from settled drivers.
LEMMA SelectedApart ==
  ASSUME ClaimInv, DispatchInv, Select
  PROVE  DriversApart'
<1> DEFINE Q == {t \in Tasks : status'[t] = "queued"}
           B == selectParallelBatch(Q)
<1>1. \A t \in Tasks : pc[t] = "idle"
  BY DEF Select, DispatchInv, DriversInBatch
<1>2. \/ pc' = [t \in Tasks |-> IF t \in B THEN "claim" ELSE "idle"]
      \/ pc' = pc
  BY DEF Select
<1> HIDE DEF B
<1>3. ASSUME NEW t \in Tasks, NEW u \in Tasks, t # u, pc'[t] # "idle", pc'[u] # "idle"
      PROVE  ~Clash(t, u)
  <2>1. t \in B /\ u \in B
    BY <1>1, <1>2, <1>3
  <2> QED  BY <1>3, <2>1, BatchApart DEF B
<1> QED  BY <1>3 DEF DriversApart, Clash

\* Unsettled drivers are of one batch.
LEMMA ApartStep ==
  ASSUME ClaimInv, DispatchInv, DriversApart, [Next]_vars
  PROVE  DriversApart'
<1>1. CASE Select
  BY <1>1, SelectedApart
<1>2. CASE ~Select
  BY <1>2, SettledStays DEF DriversApart, Clash
<1> QED  BY <1>1, <1>2

\* The variables that only the cycle writes keep their types.
LEMMA CycleTypesStep ==
  ASSUME DispatchInv, CycleTypes, [Next]_vars
  PROVE  CycleTypes'
<1> USE DEF CycleTypes
<1>0. CASE Crash
  <2>1. /\ mode' = "idle" /\ crashes' = crashes + 1 /\ landings' = landings
        /\ repaired' = [u \in Tasks |-> FALSE] /\ fresh' = [u \in Tasks |-> FALSE]
    BY <1>0 DEF Crash
  <2> QED  BY <2>1
<1>1. CASE StartCycle \/ Promote \/ PromoteThrows \/ EndBatch \/ OwnerCommits \/ Others
           \/ TimePasses \/ UNCHANGED vars
  BY <1>1 DEF StartCycle, Promote, PromoteThrows, EndBatch, OwnerCommits, Others,
              TimePasses, vars
<1>2. CASE Select
  BY <1>2 DEF Select
<1>3. ASSUME NEW t \in Tasks, Heartbeat(t) \/ Claim(t) \/ Setup(t) \/ WorkerEnds(t) \/ Land(t)
                               \/ RenewToLand(t) \/ RenewLanded(t) \/ Record(t)
      PROVE  CycleTypes'
  BY <1>3 DEF Heartbeat, Claim, Setup, WorkerEnds, Land, RenewToLand, RenewLanded, Record
<1>4. ASSUME NEW t \in Tasks, TryLand(t) \/ FastForward(t) \/ IntegratorEnds(t)
      PROVE  CycleTypes'
  <2>1. pc[t] = "ff" => mine[t] \in Attempts
    BY DEF DispatchInv, DriversHaveFences, InFlight, Landing
  <2>2. CASE TryLand(t)
    BY <2>2 DEF TryLand
  <2>3. CASE FastForward(t)
    <3>1. /\ UNCHANGED <<mode, repaired, crashes>>
          /\ mine[t] \in Attempts
          /\ landings' \in {landings, landings \cup {<<t, mine[t]>>}}
          /\ fresh' \in {fresh, [u \in Tasks |-> FALSE]}
      BY <2>1, <2>3 DEF FastForward
    <3>2. [u \in Tasks |-> FALSE] \in [Tasks -> BOOLEAN]
      OBVIOUS
    <3>3. landings' \subseteq Tasks \X Attempts
      BY <3>1
    <3>4. fresh' \in [Tasks -> BOOLEAN]
      BY <3>1, <3>2
    <3> QED  BY <3>1, <3>3, <3>4
  <2>4. CASE IntegratorEnds(t)
    BY <2>4 DEF IntegratorEnds
  <2> QED  BY <1>4, <2>2, <2>3, <2>4
<1>5. ASSUME NEW t \in Tasks, Release(t) \/ Close(t) \/ Park(t) \/ ParkClose(t)
      PROVE  CycleTypes'
  BY <1>5 DEF Release, Close, Park, ParkClose, Settle
<1> QED  BY <1>0, <1>1, <1>2, <1>3, <1>4, <1>5 DEF Next, Cycle, Driver

\* A transaction that starts no task leaves every running task one that was
\* running, and its claim open unless it is the one that closes it.
LEMMA StartsNoTask ==
  ASSUME ClaimInv, ClaimsNext, NEW t \in Tasks, status'[t] = "running", status[t] # "running",
         "running" \notin OwnerMoves
  PROVE  \E a \in Attempts : claimNextTask(t, a)
<1> USE DEF ClaimInv, DbTypeOK
<1>1. CASE recoverExpiredClaims \/ Tick \/ \E u \in Tasks : promoteNextLandedTask(u) \/ completeTask(u)
  BY <1>1 DEF recoverExpiredClaims, Tick, promoteNextLandedTask, completeTask
<1>2. CASE \E u \in Tasks : \E to \in Status : ownerTransition(u, to)
  BY <1>2 DEF ownerTransition, applyTransition
<1>3. CASE \E u \in Tasks : \E a \in Attempts :
             \/ claimNextTask(u, a) \/ heartbeatClaim(u, a) \/ completeClaim(u, a)
             \/ parkTask(u, a) \/ recordLanding(u, a)
  BY <1>3 DEF claimNextTask, heartbeatClaim, completeClaim, parkTask, recordLanding,
              applyTransition
<1>4. CASE \E u \in Tasks : \E a \in Attempts : \E to \in Status : releaseClaim(u, a, to)
  BY <1>4 DEF releaseClaim, applyTransition
<1> QED  BY <1>1, <1>2, <1>3, <1>4 DEF ClaimsNext

\* A step of the driver of t renews a claim of t, leaves the claims alone, takes
\* the task out of running, or is one of the two that close.
LEMMA OwnSteps ==
  ASSUME ClaimInv, DispatchInv, NEW t \in Tasks, Driver(t) \/ Heartbeat(t)
  PROVE  \/ claim' = claim
         \/ \E b \in Attempts :
              claim' = [claim EXCEPT ![t][b] = [status |-> "active", left |-> Lease]]
         \/ status'[t] = "queued"
         \/ Close(t) /\ completeClaim(t, mine[t])
         \/ ParkClose(t) /\ completeClaim(t, mine[t])
<1>1. pc[t] \in InFlight => mine[t] \in Attempts
  BY DEF DispatchInv, DriversHaveFences
<1>2. CASE Heartbeat(t) \/ Claim(t)
  BY <1>1, <1>2 DEF Heartbeat, Claim, heartbeatClaim, claimNextTask, dbvars
<1>3. CASE Setup(t) \/ WorkerEnds(t) \/ TryLand(t) \/ FastForward(t) \/ Record(t) \/ Park(t)
  BY <1>3 DEF Setup, WorkerEnds, TryLand, FastForward, Record, Park, recordLanding, parkTask,
              dbvars
<1>4. CASE Land(t) \/ RenewToLand(t) \/ IntegratorEnds(t) \/ RenewLanded(t)
  <2>1. pc[t] \in InFlight
    BY <1>4 DEF Land, RenewToLand, IntegratorEnds, RenewLanded, DispatchInv, DispatchTypes,
                QueueWaits, InFlight, Landing
  <2>2. heartbeatClaim(t, mine[t]) \/ UNCHANGED dbvars
    BY <1>4 DEF Land, RenewToLand, IntegratorEnds, RenewLanded, Renew
  <2> QED  BY <1>1, <2>1, <2>2 DEF heartbeatClaim, dbvars
<1>5. CASE Release(t)
  BY <1>5 DEF Release, releaseClaim, applyTransition, dbvars, ClaimInv, DbTypeOK
<1>6. CASE Close(t) \/ ParkClose(t)
  BY <1>6 DEF Close, ParkClose, dbvars
<1> QED  BY <1>2, <1>3, <1>4, <1>5, <1>6 DEF Driver

\* Steps of the cycle and of its environment: they open no claim, and close one
\* only when they take its task out of running.
LEMMA OtherSteps ==
  ASSUME ClaimInv, [Next]_vars, ~\E u \in Tasks : Driver(u) \/ Heartbeat(u),
         NEW t \in Tasks, NEW a \in Attempts
  PROVE  /\ Active(t, a)' => Active(t, a)
         /\ Active(t, a) /\ ~Active(t, a)' => status'[t] # "running"
<1> USE DEF ClaimInv, DbTypeOK, Active
<1>1. CASE recoverExpiredClaims
  <2>1. /\ claim' = [u \in Tasks |-> [b \in Attempts |->
                        IF Lapsed(u, b) THEN Closed("expired") ELSE claim[u][b]]]
        /\ status' = [u \in Tasks |-> IF u \in LapsedTasks /\ status[u] = "running"
                                      THEN "queued" ELSE status[u]]
    BY <1>1 DEF recoverExpiredClaims
  <2>2. claim'[t][a] = IF Lapsed(t, a) THEN Closed("expired") ELSE claim[t][a]
    BY <2>1
  <2>3. Lapsed(t, a) => t \in LapsedTasks
    BY DEF LapsedTasks
  <2>4. Closed("expired").status # "active"
    BY DEF Closed
  <2> QED  BY <2>1, <2>2, <2>3, <2>4
<1>2. CASE Tick
  BY <1>2 DEF Tick
<1>3. CASE \E u \in Tasks : \/ promoteNextLandedTask(u) \/ completeTask(u)
                            \/ \E to \in Status : ownerTransition(u, to)
  BY <1>3 DEF promoteNextLandedTask, completeTask, ownerTransition
<1>4. CASE UNCHANGED dbvars
  BY <1>4 DEF dbvars
<1> QED
  BY <1>1, <1>2, <1>3, <1>4 DEF Next, Cycle, StartCycle, Promote, PromoteThrows, Select, EndBatch,
     OwnerCommits, Others, Crash, TimePasses, vars, dbvars

\* When a driver comes to close its claim, its task is no longer running.
LEMMA ClosingStep ==
  ASSUME ClaimInv, DispatchInv, ClosingMoved, [Next]_vars, "running" \notin OwnerMoves
  PROVE  ClosingMoved'
<1> SUFFICES ASSUME NEW t \in Tasks, pc'[t] \in {"close", "parkclose", "errorclose"},
                    mine'[t] \in Attempts, Active(t, mine[t])', status'[t] = "running"
             PROVE  FALSE
  BY DEF ClosingMoved, Active
<1>1. [ClaimsNext]_dbvars
  BY DispatchStep
<1>2. ASSUME pc'[t] = pc[t], mine'[t] = mine[t], Active(t, mine[t]) PROVE FALSE
  <2>1. status[t] # "running"
    BY <1>2 DEF ClosingMoved
  <2>2. PICK a \in Attempts : claimNextTask(t, a)
    BY <1>1, <2>1, StartsNoTask DEF dbvars
  <2> QED  BY <1>2, <2>2 DEF claimNextTask, claimable
<1>3. ASSUME NEW u \in Tasks, u # t, Driver(u) \/ Heartbeat(u) PROVE FALSE
  <2>1. claim'[t] = claim[t] /\ pc'[t] = pc[t] /\ mine'[t] = mine[t]
    BY <1>3, OtherClaims, OtherDrivers DEF ClaimInv
  <2>2. Active(t, mine[t])
    BY <2>1 DEF Active
  <2> QED  BY <1>2, <2>1, <2>2
<1>4. ASSUME Heartbeat(t) PROVE FALSE
  <2>1. pc' = pc /\ mine' = mine /\ Active(t, mine[t])
    BY <1>4 DEF Heartbeat, heartbeatClaim, MayRenew, Live
  <2> QED  BY <1>2, <2>1
<1>5. ASSUME Driver(t) PROVE FALSE
  <2> USE DEF DispatchInv, DispatchTypes, Goto
  <2>1. ~(Claim(t) \/ Setup(t) \/ WorkerEnds(t) \/ TryLand(t) \/ FastForward(t))
    BY DEF Claim, Setup, WorkerEnds, TryLand, FastForward, Failed, Waiting
  <2>2. ~(Land(t) \/ RenewToLand(t) \/ IntegratorEnds(t) \/ RenewLanded(t))
    BY DEF Land, RenewToLand, IntegratorEnds, RenewLanded, Renew
  <2>3. ~(Release(t) \/ Close(t) \/ ParkClose(t))
    BY DEF Release, Close, ParkClose, Settle
  <2>4. ~Record(t)
    <3>1. recordLanding(t, mine[t]) => status'[t] = "verifying"
      BY DEF recordLanding, applyTransition, ClaimInv, DbTypeOK
    <3> QED  BY <3>1 DEF Record
  <2>5. ~Park(t)
    <3>1. parkTask(t, mine[t]) => status'[t] = "needs_decision"
      BY DEF parkTask, applyTransition, ClaimInv, DbTypeOK
    <3> QED  BY <3>1 DEF Park, Settle
  <2> QED  BY <1>5, <2>1, <2>2, <2>3, <2>4, <2>5 DEF Driver
<1>6. ASSUME ~\E u \in Tasks : Driver(u) \/ Heartbeat(u) PROVE FALSE
  <2>1. CASE Crash
    BY <2>1 DEF Crash
  <2>2. CASE Select /\ pc' # pc
    BY <2>2 DEF Select
  <2>3. CASE ~Crash /\ ~(Select /\ pc' # pc)
    <3>1. pc' = pc /\ mine' = mine
      BY <1>6, <2>3 DEF Next, Cycle, StartCycle, Promote, PromoteThrows, Select, EndBatch,
                        OwnerCommits, Others, TimePasses, vars
    <3>2. mine[t] \in Attempts /\ Active(t, mine[t])
      BY <1>6, <3>1, OtherSteps DEF Active
    <3> QED  BY <1>2, <3>1, <3>2
  <2> QED  BY <2>1, <2>2, <2>3
<1> QED  BY <1>3, <1>4, <1>5, <1>6

\* A running task keeps a claim until it stops running.
LEMMA RunningStep ==
  ASSUME ClaimInv, DispatchInv, ClosingMoved, RunningIsClaimed, [Next]_vars,
         "running" \notin OwnerMoves
  PROVE  RunningIsClaimed'
<1> SUFFICES ASSUME NEW t \in Tasks, status'[t] = "running"
             PROVE  \E a \in Attempts : Active(t, a)'
  BY DEF RunningIsClaimed, Active
<1>1. [ClaimsNext]_dbvars
  BY DispatchStep
<1>2. CASE status[t] # "running"
  <2>1. PICK a \in Attempts : claimNextTask(t, a)
    BY <1>1, <1>2, StartsNoTask DEF dbvars
  <2>2. Active(t, a)'
    BY <2>1 DEF claimNextTask, Active, ClaimInv, DbTypeOK
  <2> QED  BY <2>2
<1>3. CASE status[t] = "running"
  <2>1. PICK a \in Attempts : Active(t, a)
    BY <1>3 DEF RunningIsClaimed
  <2>2. CASE \E u \in Tasks : u # t /\ (Driver(u) \/ Heartbeat(u))
    BY <2>1, <2>2, OtherClaims DEF ClaimInv, Active
  <2>3. CASE Driver(t) \/ Heartbeat(t)
    <3>1. CASE completeClaim(t, mine[t]) /\ (Close(t) \/ ParkClose(t))
      <4>1. Active(t, mine[t]) /\ pc[t] \in {"close", "parkclose", "errorclose"}
        BY <3>1 DEF completeClaim, MayClose, Live, Close, ParkClose
      <4>2. mine[t] \in Attempts
        BY <4>1 DEF DispatchInv, DriversHaveFences, InFlight, Landing
      <4> QED  BY <1>3, <4>1, <4>2 DEF ClosingMoved
    <3>2. CASE claim' = claim
      BY <2>1, <3>2 DEF Active
    <3>3. CASE \E b \in Attempts :
                 claim' = [claim EXCEPT ![t][b] = [status |-> "active", left |-> Lease]]
      BY <2>1, <3>3 DEF Active, ClaimInv, DbTypeOK
    <3> QED  BY <2>3, <3>1, <3>2, <3>3, OwnSteps
  <2>4. CASE ~\E u \in Tasks : Driver(u) \/ Heartbeat(u)
    BY <2>1, <2>4, OtherSteps
  <2> QED  BY <2>2, <2>3, <2>4
<1> QED  BY <1>2, <1>3

\* When no owner starts a task or moves one into the gate by hand: the tables and
\* the cycle keep their types, workers that run at once are on tasks whose paths
\* do not overlap, one task is in the completion gate, and a running task has a
\* claim that recovery will find, wherever the dispatcher dies, for any number of
\* tasks and attempts (runParallelGoalCycle, selectParallelBatch).
THEOREM DispatchIsSafe ==
  OwnerMoves \cap {"running", "reviewing", "ready_to_merge"} = {} /\ Spec => []DispatchSafe
<1> SUFFICES ASSUME OwnerMoves \cap {"running", "reviewing", "ready_to_merge"} = {}
             PROVE  Spec => []DispatchSafe
  OBVIOUS
<1> DEFINE I == /\ ClaimInv /\ DispatchInv /\ CycleTypes /\ DriversApart /\ ClosingMoved
                /\ GateHoldsOne /\ RunningIsClaimed
<1>1. Init => I
  <2> SUFFICES ASSUME Init PROVE I
    OBVIOUS
  <2>1. ClaimInv /\ DispatchInv
    BY InitInv, DispatchInitInv DEF Init
  <2>2. CycleTypes
    BY DEF Init, CycleTypes
  <2>3. DriversApart /\ ClosingMoved
    BY DEF Init, DriversApart, ClosingMoved
  <2>4. GateHoldsOne /\ RunningIsClaimed
    BY DEF Init, DbInit, GateHoldsOne, Gate, RunningIsClaimed
  <2> QED  BY <2>1, <2>2, <2>3, <2>4
<1>2. I /\ [Next]_vars => I'
  <2> SUFFICES ASSUME I, [Next]_vars PROVE I'
    OBVIOUS
  <2>1. [ClaimsNext]_dbvars
    BY DispatchStep
  <2>2. ClaimInv' /\ DispatchInv'
    BY <2>1, NextInv, DispatchNextInv
  <2>3. CycleTypes' /\ DriversApart'
    BY CycleTypesStep, ApartStep
  <2>4. ClosingMoved' /\ RunningIsClaimed'
    BY ClosingStep, RunningStep
  <2>5. GateHoldsOne'
    BY <2>1, GateStep
  <2> QED  BY <2>2, <2>3, <2>4, <2>5
<1>3. I => DispatchSafe
  <2> SUFFICES ASSUME I PROVE DispatchSafe
    OBVIOUS
  <2>1. TypeOK
    BY DEF TypeOK, CycleTypes, ClaimInv, DispatchInv, DispatchTypes
  <2>2. BatchDisjoint
    BY DEF BatchDisjoint, DriversApart, InFlight, Waiting, Landing
  <2> QED  BY <2>1, <2>2 DEF DispatchSafe
<1> QED  BY <1>1, <1>2, <1>3, PTL DEF Spec

-----------------------------------------------------------------------------
(* Landed work *)

\* What recovery and time make of one claim.
LEMMA RecoveredClaim ==
  ASSUME recoverExpiredClaims, NEW t \in Tasks, NEW a \in Attempts
  PROVE  claim'[t][a] = IF Lapsed(t, a) THEN Closed("expired") ELSE claim[t][a]
<1>1. claim' = [u \in Tasks |-> [b \in Attempts |->
                  IF Lapsed(u, b) THEN Closed("expired") ELSE claim[u][b]]]
  BY DEF recoverExpiredClaims
<1> QED  BY <1>1

\* A claim of which time has passed.
LEMMA TickedClaim ==
  ASSUME Tick, NEW t \in Tasks, NEW a \in Attempts
  PROVE  claim'[t][a] = IF Active(t, a) /\ claim[t][a].left >= 0
                        THEN [status |-> "active", left |-> claim[t][a].left - 1]
                        ELSE claim[t][a]
<1>1. claim' = [u \in Tasks |-> [b \in Attempts |->
                  IF Active(u, b) /\ claim[u][b].left >= 0
                  THEN [status |-> "active", left |-> claim[u][b].left - 1]
                  ELSE claim[u][b]]]
  BY DEF Tick
<1> QED  BY <1>1

\* A claim that was made stays in the table.
LEMMA ClaimStays ==
  ASSUME ClaimInv, [ClaimsNext]_dbvars, NEW t \in Tasks, NEW a \in Attempts,
         claim[t][a].status # "none"
  PROVE  claim'[t][a].status # "none"
<1> USE DEF ClaimInv, DbTypeOK
<1>1. CASE recoverExpiredClaims \/ Tick
  <2>1. CASE recoverExpiredClaims
    <3>1. claim'[t][a] = IF Lapsed(t, a) THEN Closed("expired") ELSE claim[t][a]
      BY <2>1, RecoveredClaim
    <3> QED  BY <3>1 DEF Closed
  <2>2. CASE Tick
    <3>1. claim'[t][a] = IF Active(t, a) /\ claim[t][a].left >= 0
                         THEN [status |-> "active", left |-> claim[t][a].left - 1]
                         ELSE claim[t][a]
      BY <2>2, TickedClaim
    <3> QED  BY <3>1
  <2> QED  BY <1>1, <2>1, <2>2
<1>2. ASSUME NEW u \in Tasks, NEW b \in Attempts, NEW s \in ClaimStatus \ {"none"}, NEW n,
             claim' = [claim EXCEPT ![u][b] = [status |-> s, left |-> n]]
      PROVE  claim'[t][a].status # "none"
  <2>1. CASE u = t /\ b = a
    BY <1>2, <2>1
  <2>2. CASE ~(u = t /\ b = a)
    BY <1>2, <2>2
  <2> QED  BY <2>1, <2>2
<1>3. CASE claim' = claim
  BY <1>3
<1>4. ASSUME NEW u \in Tasks, NEW b \in Attempts,
             \/ claimNextTask(u, b) \/ heartbeatClaim(u, b) \/ completeClaim(u, b)
             \/ \E to \in Status : releaseClaim(u, b, to)
      PROVE  claim'[t][a].status # "none"
  <2>1. CASE claimNextTask(u, b) \/ heartbeatClaim(u, b)
    <3>1. claim' = [claim EXCEPT ![u][b] = [status |-> "active", left |-> Lease]]
      BY <2>1 DEF claimNextTask, heartbeatClaim
    <3> QED  BY <1>2, <3>1 DEF ClaimStatus
  <2>2. CASE completeClaim(u, b)
    <3>1. claim' = [claim EXCEPT ![u][b] = [status |-> "completed", left |-> 0]]
      BY <2>2 DEF completeClaim, Closed
    <3> QED  BY <1>2, <3>1 DEF ClaimStatus
  <2>3. CASE \E to \in Status : releaseClaim(u, b, to)
    <3>1. claim' = [claim EXCEPT ![u][b] = [status |-> "released", left |-> 0]]
      BY <2>3 DEF releaseClaim, Closed
    <3> QED  BY <1>2, <3>1 DEF ClaimStatus
  <2> QED  BY <1>4, <2>1, <2>2, <2>3
<1>5. CASE \E u \in Tasks : \/ promoteNextLandedTask(u) \/ completeTask(u)
                            \/ \E to \in Status : ownerTransition(u, to)
                            \/ \E b \in Attempts : parkTask(u, b) \/ recordLanding(u, b)
  BY <1>3, <1>5 DEF promoteNextLandedTask, completeTask, ownerTransition, parkTask, recordLanding
<1>6. CASE UNCHANGED dbvars
  BY <1>3, <1>6 DEF dbvars
<1> QED  BY <1>1, <1>4, <1>5, <1>6 DEF ClaimsNext

\* A task comes to run under an attempt only by the claim of that attempt.
LEMMA RunsByClaim ==
  ASSUME ClaimInv, [ClaimsNext]_dbvars, NEW t \in Tasks, NEW a \in Attempts,
         status'[t] = "running", taskFence'[t] = a, ~(status[t] = "running" /\ taskFence[t] = a)
  PROVE  claimNextTask(t, a)
<1> USE DEF ClaimInv, DbTypeOK
<1>0. a # 0
  BY DEF Attempts
<1>1. ~(recoverExpiredClaims \/ Tick \/ \E u \in Tasks : promoteNextLandedTask(u) \/ completeTask(u))
  <2>1. ~recoverExpiredClaims
    <3> SUFFICES ASSUME recoverExpiredClaims PROVE FALSE
      OBVIOUS
    <3> DEFINE again == t \in LapsedTasks /\ status[t] = "running"
    <3>1. /\ status'[t] = IF again THEN "queued" ELSE status[t]
          /\ taskFence'[t] = IF again THEN 0 ELSE taskFence[t]
      BY DEF recoverExpiredClaims
    <3> QED  BY <1>0, <3>1
  <2>2. ~Tick
    BY DEF Tick
  <2>3. ~\E u \in Tasks : promoteNextLandedTask(u) \/ completeTask(u)
    BY <1>0 DEF promoteNextLandedTask, completeTask
  <2> QED  BY <2>1, <2>2, <2>3
<1>2. ~\E u \in Tasks : \E to \in Status : ownerTransition(u, to)
  BY <1>0 DEF ownerTransition, applyTransition
<1>3. ~\E u \in Tasks : \E b \in Attempts :
             \/ heartbeatClaim(u, b) \/ completeClaim(u, b) \/ parkTask(u, b) \/ recordLanding(u, b)
  BY DEF heartbeatClaim, completeClaim, parkTask, recordLanding, applyTransition
<1>4. ~\E u \in Tasks : \E b \in Attempts : \E to \in Status : releaseClaim(u, b, to)
  BY DEF releaseClaim, applyTransition
<1>5. \A u \in Tasks, b \in Attempts : claimNextTask(u, b) => u = t /\ b = a
  BY DEF claimNextTask, applyTransition
<1> QED  BY <1>1, <1>2, <1>3, <1>4, <1>5 DEF ClaimsNext, dbvars

\* While its task runs, landed work stays under its live claim: neither time,
\* recovery nor another driver takes it, and its own driver only moves it on.
LEMMA HeldStep ==
  ASSUME Prompt, MaxCrashes = 0, ClaimInv, DispatchInv, CycleTypes, LandedHeld, [Next]_vars,
         NEW t \in Tasks, NEW a \in Attempts, <<t, a>> \in landings,
         status[t] = "running", taskFence[t] = a
  PROVE  /\ Live(t, a)'
         /\ status'[t] = "running" =>
              mine'[t] = a /\ pc'[t] \in {"landed", "record", "error"}
<1> DEFINE Kept == /\ Live(t, a)'
                   /\ status'[t] = "running" =>
                        mine'[t] = a /\ pc'[t] \in {"landed", "record", "error"}
<1>1. mine[t] = a /\ pc[t] \in {"landed", "record", "error"} /\ Live(t, a)
  BY DEF LandedHeld
<1>2. claim[t][a].status = "active" /\ claim[t][a].left > 0
  BY <1>1 DEF Live, Active
<1>3. ASSUME claim'[t] = claim[t], pc'[t] = pc[t], mine'[t] = mine[t] PROVE Kept
  BY <1>1, <1>2, <1>3 DEF Live, Active
<1>4. ASSUME heartbeatClaim(t, a), mine'[t] = mine[t],
             pc'[t] \in {"landed", "record", "error"}
      PROVE  Kept
  <2>1. claim'[t][a] = [status |-> "active", left |-> Lease]
    BY <1>4 DEF heartbeatClaim, ClaimInv, DbTypeOK
  <2>2. Lease > 0
    BY TaskClaimsAssumption
  <2> QED  BY <1>1, <1>4, <2>1, <2>2 DEF Live, Active
<1>5. ASSUME NEW u \in Tasks, u # t, Driver(u) \/ Heartbeat(u) PROVE Kept
  BY <1>3, <1>5, OtherClaims, OtherDrivers DEF ClaimInv
<1>6. CASE Heartbeat(t)
  BY <1>1, <1>4, <1>6 DEF Heartbeat
<1>7. CASE RenewLanded(t)
  <2>1. CASE heartbeatClaim(t, a)
    BY <1>1, <1>4, <1>7, <2>1 DEF RenewLanded, Renew, Goto, DispatchInv, DispatchTypes
  <2>2. CASE UNCHANGED dbvars
    <3>1. pc'[t] \in {"record", "error"} /\ mine' = mine /\ claim' = claim
      BY <1>7, <2>2 DEF RenewLanded, Renew, Goto, DispatchInv, DispatchTypes, dbvars
    <3> QED  BY <1>1, <1>2, <3>1 DEF Live, Active
  <2> QED  BY <1>1, <1>7, <2>1, <2>2 DEF RenewLanded, Renew
<1>8. CASE Record(t)
  <2>1. claim' = claim /\ mine' = mine
    BY <1>8 DEF Record, recordLanding, dbvars
  <2>2. status'[t] = "running" => pc'[t] = "error"
    <3>1. recordLanding(t, mine[t]) => status'[t] = "verifying"
      BY DEF recordLanding, applyTransition, ClaimInv, DbTypeOK
    <3> QED  BY <1>8, <3>1 DEF Record, Goto, DispatchInv, DispatchTypes
  <2> QED  BY <1>1, <1>2, <2>1, <2>2 DEF Live, Active
<1>9. CASE Park(t)
  <2>1. MayTransition(claim, t, "needs_decision", a)
    <3>1. validateTransition(t, "needs_decision")
      BY DEF validateTransition, TRANSITIONS
    <3>2. a # 0
      BY DEF Attempts
    <3>3. tasks_status_requires_current_fence(claim, t, a)
      BY <1>2, <3>2 DEF tasks_status_requires_current_fence
    <3> QED  BY <3>1, <3>3 DEF MayTransition
  <2>2. parkTask(t, a)
    BY <1>1, <1>9, <2>1 DEF Park
  <2>3. claim' = claim /\ status'[t] = "needs_decision"
    BY <2>2 DEF parkTask, applyTransition, ClaimInv, DbTypeOK
  <2> QED  BY <1>2, <2>3 DEF Live, Active
<1>10. ASSUME Driver(t) PROVE RenewLanded(t) \/ Record(t) \/ Park(t)
  BY <1>1, <1>10 DEF Driver, Claim, Setup, WorkerEnds, Land, Release, TryLand, RenewToLand,
     FastForward, IntegratorEnds, Close, ParkClose, DispatchInv, DispatchTypes, QueueWaits, Waiting
<1>11. ~Crash /\ ~Select
  <2>1. ~Crash
    BY DEF Crash, CycleTypes
  <2>2. ~Select
    BY <1>1 DEF Select, DispatchInv, DriversInBatch
  <2> QED  BY <2>1, <2>2
<1>12. CASE recoverExpiredClaims /\ UNCHANGED <<pc, mine>>
  <2>1. claim'[t][a] = claim[t][a]
    <3>1. claim'[t][a] = IF Lapsed(t, a) THEN Closed("expired") ELSE claim[t][a]
      BY <1>12, RecoveredClaim
    <3>2. claim[t][a].left \in Int
      BY DEF ClaimInv, DbTypeOK
    <3> QED  BY <1>2, <3>1, <3>2 DEF Lapsed
  <2> QED  BY <1>1, <1>2, <1>12, <2>1 DEF Live, Active
<1>13. CASE TimePasses
  <2>1. claim[t][a].left > 1
    BY <1>1, <1>13 DEF TimePasses, Guarded
  <2>2. claim[t][a].left \in Int
    BY DEF ClaimInv, DbTypeOK
  <2>3. claim'[t][a] = [status |-> "active", left |-> claim[t][a].left - 1]
    <3>1. Active(t, a) /\ claim[t][a].left >= 0
      BY <1>2, <2>1, <2>2 DEF Active
    <3>2. Tick
      BY <1>13 DEF TimePasses
    <3> HIDE DEF Kept
    <3> QED  BY <3>1, <3>2, TickedClaim
  <2>4. claim'[t][a].status = "active" /\ claim'[t][a].left > 0
    BY <2>1, <2>3, <2>2
  <2>5. UNCHANGED <<pc, mine>>
    BY <1>13 DEF TimePasses
  <2> QED  BY <1>1, <2>4, <2>5 DEF Live, Active
<1>14. CASE StartCycle \/ Promote \/ PromoteThrows \/ EndBatch \/ OwnerCommits \/ UNCHANGED vars
  BY <1>3, <1>14 DEF StartCycle, Promote, PromoteThrows, EndBatch, OwnerCommits, vars,
                     promoteNextLandedTask, dbvars
<1>15. CASE Others
  BY <1>3, <1>12, <1>15 DEF Others, completeTask, ownerTransition
<1> QED
  BY <1>5, <1>6, <1>7, <1>8, <1>9, <1>10, <1>11, <1>13, <1>14, <1>15 DEF Next, Cycle

\* Nothing but a fast-forward lands work, and it lands what the driver claimed.
LEMMA LandsByMerge ==
  ASSUME [Next]_vars, NEW x \in landings', x \notin landings
  PROVE  \E t \in Tasks : FastForward(t) /\ pc[t] = "ff" /\ x = <<t, mine[t]>>
<1>1. ASSUME NEW t \in Tasks, FastForward(t)
      PROVE  pc[t] = "ff" /\ x = <<t, mine[t]>>
  BY <1>1 DEF FastForward
<1>2. ASSUME NEW t \in Tasks, Driver(t) \/ Heartbeat(t), ~FastForward(t) PROVE FALSE
  BY <1>2 DEF Driver, Heartbeat, Claim, Setup, WorkerEnds, Land, Release, TryLand, RenewToLand,
     IntegratorEnds, RenewLanded, Record, Close, Park, ParkClose
<1> QED
  BY <1>1, <1>2 DEF Next, Cycle, StartCycle, Promote, PromoteThrows, Select, EndBatch, OwnerCommits,
     Others, Crash, TimePasses, vars

\* What the driver holds when its work lands it holds on to.
LEMMA LandedStep ==
  ASSUME Prompt, MaxCrashes = 0, ClaimInv, DispatchInv, CycleTypes, LostClaimNeverLands,
         LandedHeld, [Next]_vars
  PROVE  LandedHeld'
<1> SUFFICES ASSUME NEW t \in Tasks, NEW a \in Attempts, <<t, a>> \in landings'
             PROVE  /\ claim'[t][a].status # "none"
                    /\ status'[t] = "running" /\ taskFence'[t] = a =>
                         /\ mine'[t] = a /\ pc'[t] \in {"landed", "record", "error"}
                         /\ Live(t, a)'
  BY DEF LandedHeld, Live, Active
<1>1. [ClaimsNext]_dbvars
  BY DispatchStep
<1>2. CASE <<t, a>> \in landings
  <2>1. claim[t][a].status # "none"
    BY <1>2 DEF LandedHeld
  <2>2. claim'[t][a].status # "none"
    BY <1>1, <2>1, ClaimStays
  <2>3. ~claimNextTask(t, a)
    BY <2>1 DEF claimNextTask, claimable
  <2>4. ASSUME status'[t] = "running", taskFence'[t] = a
        PROVE  /\ mine'[t] = a /\ pc'[t] \in {"landed", "record", "error"}
               /\ Live(t, a)'
    <3>1. status[t] = "running" /\ taskFence[t] = a
      BY <1>1, <2>3, <2>4, RunsByClaim
    <3> QED  BY <1>2, <2>4, <3>1, HeldStep
  <2> QED  BY <2>2, <2>4
<1>3. CASE <<t, a>> \notin landings
  <2>1. FastForward(t) /\ pc[t] = "ff" /\ mine[t] = a
    BY <1>3, LandsByMerge
  <2>2. Live(t, a)
    BY <2>1 DEF LostClaimNeverLands
  <2>3. claim' = claim /\ mine' = mine
    BY <2>1 DEF FastForward, dbvars
  <2>4. pc'[t] = "landed"
    BY <1>3, <2>1 DEF FastForward, Goto, DispatchInv, DispatchTypes
  <2> QED  BY <2>1, <2>2, <2>3, <2>4 DEF Live, Active
<1> QED  BY <1>2, <1>3

\* Work that is on the goal checkout is not done again: as long as the dispatcher
\* does not die and a renewed lease outlives the step it guards, a task whose
\* running attempt landed is recorded or parked, and neither a neighbour's
\* recovery, its own release nor the owner puts it back into the queue
\* (tryLand, recordLanding and the outer catch of the driver).
THEOREM LandedIsNotRequeued ==
  Prompt /\ MaxCrashes = 0 /\ Spec => NoRequeueAfterLanding
<1> SUFFICES ASSUME Prompt, MaxCrashes = 0 PROVE Spec => NoRequeueAfterLanding
  OBVIOUS
<1> DEFINE I == ClaimInv /\ DispatchInv /\ CycleTypes /\ LostClaimNeverLands /\ LandedHeld
           Step == \A t \in Tasks : status[t] = "running" /\ status'[t] = "queued"
                                    => <<t, taskFence[t]>> \notin landings
<1>1. Init => I
  <2> SUFFICES ASSUME Init PROVE I
    OBVIOUS
  <2>1. ClaimInv /\ DispatchInv
    BY InitInv, DispatchInitInv DEF Init
  <2>2. CycleTypes /\ LostClaimNeverLands /\ LandedHeld
    BY DEF Init, CycleTypes, LostClaimNeverLands, LandedHeld
  <2> QED  BY <2>1, <2>2
<1>2. I /\ [Next]_vars => I'
  <2> SUFFICES ASSUME I, [Next]_vars PROVE I'
    OBVIOUS
  <2>1. ClaimInv' /\ DispatchInv'
    BY DispatchStep, NextInv, DispatchNextInv
  <2>2. CycleTypes' /\ LostClaimNeverLands'
    BY CycleTypesStep, LiveStep
  <2>3. LandedHeld'
    BY LandedStep
  <2> QED  BY <2>1, <2>2, <2>3
<1>3. I /\ [Next]_vars => Step
  <2> SUFFICES ASSUME I, [Next]_vars, NEW t \in Tasks, status[t] = "running",
                      status'[t] = "queued", <<t, taskFence[t]>> \in landings
               PROVE  FALSE
    OBVIOUS
  <2>1. PICK a \in Attempts : taskFence[t] = a
    BY DEF CycleTypes
  <2>2. Active(t, a)'
    BY <2>1, HeldStep DEF Live
  <2>3. ClaimInv'
    BY DispatchStep, NextInv
  <2> QED  BY <2>2, <2>3 DEF ClaimInv, ClaimOwnsTask, Active
<1> QED  BY <1>1, <1>2, <1>3, PTL DEF Spec, NoRequeueAfterLanding
=============================================================================
