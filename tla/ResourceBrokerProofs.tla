------------------------ MODULE ResourceBrokerProofs ------------------------
(* Theorems about ResourceBroker for every set of owners and every limit. *)
EXTENDS ResourceBroker, FiniteSetTheorems, WellFoundedInduction, TLAPS

\* currentResourceLimits yields a limit per kind whatever the memory reading.
LEMMA LimitsType == \A m \in MemoryLevels : currentResourceLimits(m) \in Limits
<1> SUFFICES ASSUME NEW m \in MemoryLevels PROVE currentResourceLimits(m) \in Limits
  OBVIOUS
<1> m \in Nat BY BrokerAssumption
<1> DEFINE headroom == (IF m > SoftFloor THEN m - SoftFloor ELSE 0) * Headroom
           half == IF Cores < 2 THEN 1 ELSE Cores \div 2
<1>1. headroom \in Nat /\ half \in Nat
  BY BrokerAssumption
<1>2. \A k \in Kinds : Fit(headroom, k) \in Nat
  <2> HIDE DEF headroom, half
  <2> TAKE k \in Kinds
  <2>1. Estimate[k] \in Nat \ {0} BY BrokerAssumption
  <2>2. headroom \div Estimate[k] \in Int BY <1>1, <2>1
  <2> QED BY <2>2 DEF Fit
<1>3. "worker" \in Kinds /\ "browser" \in Kinds /\ "build" \in Kinds BY DEF Kinds
<1> DEFINE builds == IF Fit(headroom, "build") < half THEN Fit(headroom, "build")
                                                       ELSE half
           kind == [k \in Kinds |->
                     IF k = "build" THEN builds
                     ELSE IF k = "worker" /\ WorkerLimit > 0 THEN WorkerLimit
                     ELSE Fit(headroom, k)]
<1>4. currentResourceLimits(m) = [mem |-> m >= SoftFloor, kind |-> kind,
        total |-> kind["worker"] + kind["browser"] + kind["build"]]
  BY DEF currentResourceLimits
<1> HIDE DEF headroom, half
<1>5. builds \in Nat BY <1>1, <1>2, <1>3
<1> HIDE DEF builds
<1>6. kind \in [Kinds -> Nat]
  BY <1>2, <1>5, BrokerAssumption DEF Kinds
<1> HIDE DEF kind
<1>7. (m >= SoftFloor) \in BOOLEAN BY BrokerAssumption
<1> QED BY <1>3, <1>4, <1>6, <1>7 DEF Limits

\* A lease made from a well-typed request is well typed.
LEMMA LeaseFromType ==
  \A r \in Request, id \in Nat : leaseFrom(r, id) \in BrokerLease
BY BrokerAssumption DEF Request, BrokerLease, leaseFrom

\* Pruning and the passage of time keep a store a store.
LEMMA StoreOpsType ==
  ASSUME NEW s \in Store
  PROVE  /\ prune(s) \in Store
         /\ prune(s).leases \subseteq s.leases
         /\ prune(s).queue = s.queue
         /\ Older(s) \in Store
<1>1. \A l \in BrokerLease : Aged(l) \in BrokerLease
  BY DEF BrokerLease, Aged, Less
<1> QED BY <1>1 DEF prune, Older, Store

\* The empty store and the idle processes have their types.
LEMMA InitType == ASSUME BrokerInit PROVE BrokerTypeOK
BY BrokerAssumption DEF BrokerInit, BrokerTypeOK, EmptyStore, NoOp, NoHandle, NoLease, Store

\* Taking the lock and giving it back keep the types.
LEMMA EnterType ==
  ASSUME BrokerTypeOK, NEW o \in BrokerOp, NEW s \in Store, Enter(o, s) PROVE BrokerTypeOK'
BY DEF BrokerTypeOK, Enter

\* A call that ends leaves well-typed state behind.
LEMMA LeaveType ==
  ASSUME NEW s \in Store, Leave(s)
  PROVE  disk' \in Store /\ work' \in Store /\ op' \in {NoOp} \cup BrokerOp /\ cursor' \in Nat
BY DEF Leave, EmptyStore, Store

\* Every step keeps the types.
LEMMA NextType == ASSUME BrokerTypeOK, [BrokerNext]_brokerVars PROVE BrokerTypeOK'
<1> USE BrokerAssumption
<1>0. CASE UNCHANGED brokerVars BY <1>0 DEF BrokerTypeOK, brokerVars
<1>a. prune(disk) \in Store BY StoreOpsType DEF BrokerTypeOK
<1>b. \A r \in work.queue : r \in Request /\ r.tok \in Nat
  BY DEF BrokerTypeOK, Store, Request
<1>1. ASSUME NEW r \in work.queue, PromoteDrop(r) PROVE BrokerTypeOK'
  BY <1>1 DEF BrokerTypeOK, PromoteDrop, Store
<1>2. ASSUME NEW r \in work.queue, PromoteSkip(r) PROVE BrokerTypeOK'
  BY <1>2, <1>b DEF BrokerTypeOK, PromoteSkip
<1>3. ASSUME NEW r \in work.queue, PromoteGrant(r) PROVE BrokerTypeOK'
  <2>1. leaseFrom(r, minted + 1) \in BrokerLease BY <1>b, LeaseFromType DEF BrokerTypeOK
  <2>2. work' \in Store BY <1>3, <2>1 DEF PromoteGrant, BrokerTypeOK, Store
  <2> QED BY <1>3, <2>2 DEF BrokerTypeOK, PromoteGrant
<1>4. ASSUME NEW o \in Owners, RequestEnter(o) PROVE BrokerTypeOK'
  <2> PICK u \in Uses, ttl \in Ttls, m \in MemoryLevels,
           parent \in {NoLease} \cup {handle[p].lease : p \in Owners \ {o}} :
       Enter([type |-> "request", owner |-> o, kind |-> u.kind,
              parent |-> parent, pid |-> IF u.fenced THEN o ELSE NoPid,
              ttl |-> ttl, lim |-> currentResourceLimits(m)],
             prune(disk))
    BY <1>4 DEF RequestEnter
  <2>1. parent \in Nat BY DEF BrokerTypeOK, NoLease
  <2>2. u.kind \in Kinds /\ ttl \in Nat OBVIOUS
  <2>3. currentResourceLimits(m) \in Limits BY LimitsType
  <2> HIDE DEF currentResourceLimits
  <2>4. [type |-> "request", owner |-> o, kind |-> u.kind,
         parent |-> parent, pid |-> IF u.fenced THEN o ELSE NoPid,
         ttl |-> ttl, lim |-> currentResourceLimits(m)] \in BrokerOp
    BY <2>1, <2>2, <2>3 DEF BrokerOp
  <2> QED BY <1>a, <2>4, EnterType
<1>5. CASE SnapshotEnter
  <2> PICK m \in MemoryLevels :
       Enter([type |-> "snapshot", owner |-> NoPid, lim |-> currentResourceLimits(m)],
             prune(disk))
    BY <1>5 DEF SnapshotEnter
  <2>1. [type |-> "snapshot", owner |-> NoPid, lim |-> currentResourceLimits(m)] \in BrokerOp
    BY LimitsType DEF BrokerOp
  <2> QED BY <1>a, <2>1, EnterType
<1>6. ASSUME NEW o \in Owners, PollEnter(o) PROVE BrokerTypeOK'
  <2> PICK m \in MemoryLevels :
       Enter([type |-> "poll", owner |-> o, lim |-> currentResourceLimits(m)],
             prune(disk))
    BY <1>6 DEF PollEnter
  <2>1. [type |-> "poll", owner |-> o, lim |-> currentResourceLimits(m)] \in BrokerOp
    BY LimitsType DEF BrokerOp
  <2> QED BY <1>a, <2>1, EnterType
<1>7. ASSUME NEW o \in Owners, CancelEnter(o) PROVE BrokerTypeOK'
  <2> DEFINE s == [leases |-> prune(disk).leases,
                   queue |-> {r \in disk.queue : r.tok # handle[o].tok}]
  <2> PICK m \in MemoryLevels :
       Enter([type |-> "cancel", owner |-> o, lim |-> currentResourceLimits(m)], s)
    BY <1>7 DEF CancelEnter
  <2>1. [type |-> "cancel", owner |-> o, lim |-> currentResourceLimits(m)] \in BrokerOp
    BY LimitsType DEF BrokerOp
  <2>2. s \in Store BY <1>a DEF Store, BrokerTypeOK
  <2> QED BY <2>1, <2>2, EnterType
<1>8. ASSUME NEW o \in Owners, ReleaseEnter(o) PROVE BrokerTypeOK'
  <2> DEFINE s == [leases |-> {l \in prune(disk).leases : l.id # handle[o].lease},
                   queue |-> disk.queue]
  <2> PICK m \in MemoryLevels :
       Enter([type |-> "release", owner |-> o, lim |-> currentResourceLimits(m)], s)
    BY <1>8 DEF ReleaseEnter
  <2>1. [type |-> "release", owner |-> o, lim |-> currentResourceLimits(m)] \in BrokerOp
    BY LimitsType DEF BrokerOp
  <2>2. s \in Store BY <1>a DEF Store, BrokerTypeOK
  <2> QED BY <2>1, <2>2, EnterType
<1>c. ASSUME NEW d \in Nat, Finishing("request") PROVE NewRequest(d) \in Request
  <2>1. op \in [type: {"request"}, owner: Owners, lim: Limits, kind: Kinds,
                parent: Nat, pid: Owners \cup {NoPid}, ttl: Nat]
    BY <1>c DEF Finishing, Busy, BrokerTypeOK, BrokerOp, NoOp
  <2> QED BY <2>1 DEF NewRequest, Request, BrokerTypeOK
<1>d. ParentDepth \subseteq Nat BY DEF ParentDepth, BrokerTypeOK, Store, BrokerLease
<1>9. CASE RequestExisting
  <2>1. PICK l \in work.leases : Becomes(op.owner, "hold", [tok |-> l.tok, lease |-> l.id])
    BY <1>9 DEF RequestExisting
  <2>2. l.tok \in Nat /\ l.id \in Nat BY DEF BrokerTypeOK, Store, BrokerLease
  <2> QED BY <1>9, <2>1, <2>2, LeaveType DEF RequestExisting, Becomes, BrokerTypeOK
<1>10. CASE RequestAlreadyQueued
  <2>1. PICK r \in work.queue : Becomes(op.owner, "wait", [tok |-> r.tok, lease |-> NoLease])
    BY <1>10 DEF RequestAlreadyQueued
  <2> QED BY <1>10, <1>b, <2>1, LeaveType
          DEF RequestAlreadyQueued, Becomes, BrokerTypeOK, NoLease
<1>11. CASE RequestRejected
  BY <1>11, LeaveType DEF RequestRejected, Becomes, BrokerTypeOK, NoHandle, NoLease
<1>12. CASE RequestQueued
  <2>1. PICK d \in RequestDepth :
          Leave([leases |-> work.leases, queue |-> work.queue \cup {NewRequest(d)}])
    BY <1>12 DEF RequestQueued
  <2>2. d \in Nat BY <1>d DEF RequestDepth
  <2>3. NewRequest(d) \in Request
    BY <1>12, <1>c, <2>2 DEF RequestQueued, RequestIsNew
  <2>4. [leases |-> work.leases, queue |-> work.queue \cup {NewRequest(d)}] \in Store
    BY <2>3 DEF BrokerTypeOK, Store
  <2>5. /\ disk' \in Store /\ work' \in Store
        /\ op' \in {NoOp} \cup BrokerOp /\ cursor' \in Nat
    BY <2>1, <2>4, LeaveType
  <2>6. st' \in [Owners -> {"idle", "wait", "cancel", "gaveup", "hold", "failed", "dead"}]
    BY <1>12 DEF RequestQueued, Becomes, BrokerTypeOK
  <2>7. [tok |-> minted + 1, lease |-> NoLease] \in [tok: Nat, lease: Nat]
    BY DEF BrokerTypeOK, NoLease
  <2>8. handle' \in [Owners -> [tok: Nat, lease: Nat]]
    BY <1>12, <2>7 DEF RequestQueued, Becomes, BrokerTypeOK
  <2>9. brokerPatience' \in [Owners -> Nat] BY <1>12 DEF RequestQueued, BrokerTypeOK
  <2>10. minted' \in Nat /\ alive' = alive BY <1>12 DEF RequestQueued, BrokerTypeOK
  <2> QED BY <2>5, <2>6, <2>8, <2>9, <2>10 DEF BrokerTypeOK
<1>13. CASE RequestGranted
  <2>1. PICK d \in RequestDepth :
          Leave([leases |-> work.leases \cup {leaseFrom(NewRequest(d), minted + 2)},
                 queue |-> work.queue])
    BY <1>13 DEF RequestGranted
  <2>2. d \in Nat BY <1>d DEF RequestDepth
  <2>3. NewRequest(d) \in Request
    BY <1>13, <1>c, <2>2 DEF RequestGranted, RequestIsNew
  <2>4. leaseFrom(NewRequest(d), minted + 2) \in BrokerLease
    BY <2>3, LeaseFromType DEF BrokerTypeOK
  <2>5. [leases |-> work.leases \cup {leaseFrom(NewRequest(d), minted + 2)},
         queue |-> work.queue] \in Store
    BY <2>4 DEF BrokerTypeOK, Store
  <2>6. /\ disk' \in Store /\ work' \in Store
        /\ op' \in {NoOp} \cup BrokerOp /\ cursor' \in Nat
    BY <2>1, <2>5, LeaveType
  <2>7. [tok |-> minted + 1, lease |-> minted + 2] \in [tok: Nat, lease: Nat]
    BY DEF BrokerTypeOK
  <2>8. handle' \in [Owners -> [tok: Nat, lease: Nat]]
    BY <1>13, <2>7 DEF RequestGranted, Becomes, BrokerTypeOK
  <2>9. st' \in [Owners -> {"idle", "wait", "cancel", "gaveup", "hold", "failed", "dead"}]
    BY <1>13 DEF RequestGranted, Becomes, BrokerTypeOK
  <2>10. minted' \in Nat /\ alive' = alive /\ brokerPatience' = brokerPatience
    BY <1>13 DEF RequestGranted, BrokerTypeOK
  <2> QED BY <2>6, <2>8, <2>9, <2>10 DEF BrokerTypeOK
<1>14. CASE SnapshotFinish BY <1>14, LeaveType DEF SnapshotFinish, BrokerTypeOK
<1>15. CASE PollFinish
  <2> DEFINE h == handle[op.owner]
             got == {l.id : l \in {x \in work.leases : x.tok = h.tok}}
  <2>1. PICK id \in IF got = {} THEN {NoLease} ELSE got :
          Becomes(op.owner, Verdict(op.owner, h), [tok |-> h.tok, lease |-> id])
    BY <1>15 DEF PollFinish
  <2>2. op.owner \in Owners BY <1>15 DEF PollFinish, Finishing, Busy, BrokerTypeOK, BrokerOp, NoOp
  <2>3. id \in Nat
    <3>1. \A l \in work.leases : l.id \in Nat BY DEF BrokerTypeOK, Store, BrokerLease
    <3> QED BY <3>1 DEF NoLease
  <2>4. h \in [tok: Nat, lease: Nat] BY <2>2 DEF BrokerTypeOK
  <2> QED BY <1>15, <2>1, <2>3, <2>4, LeaveType DEF PollFinish, Becomes, Verdict, BrokerTypeOK
<1>16. CASE CancelFinish BY <1>16, LeaveType DEF CancelFinish, BrokerTypeOK
<1>17. CASE ReleaseFinish
  BY <1>17, LeaveType DEF ReleaseFinish, Becomes, BrokerTypeOK, NoHandle, NoLease
<1>18. ASSUME NEW o \in Owners, HeartbeatRenews(o) PROVE BrokerTypeOK'
  <2>1. PICK l \in Mine(o), ttl \in Ttls :
          disk' = [leases |-> (prune(disk).leases \ {l}) \cup {Renewed(l, ttl)},
                   queue |-> disk.queue]
    BY <1>18 DEF HeartbeatRenews
  <2>2. Renewed(l, ttl) \in BrokerLease
    <3>1. l \in BrokerLease BY <1>a DEF Mine, Store
    <3>2. ttl \in Nat /\ ttl + Grace \in Nat OBVIOUS
    <3> QED BY <3>1, <3>2 DEF BrokerLease, Renewed
  <2>3. disk' \in Store BY <1>a, <2>1, <2>2 DEF Store, BrokerTypeOK
  <2> QED BY <1>18, <2>3 DEF HeartbeatRenews, Atomic, BrokerTypeOK
<1>19. ASSUME NEW o \in Owners, HeartbeatRefused(o) PROVE BrokerTypeOK'
  BY <1>19 DEF HeartbeatRefused, Atomic, BrokerTypeOK
<1>20. ASSUME NEW o \in Owners, AssertActive(o) PROVE BrokerTypeOK'
  BY <1>20, <1>a DEF AssertActive, Atomic, BrokerTypeOK
<1>21. ASSUME NEW o \in Owners, ReleaseRefused(o) PROVE BrokerTypeOK'
  BY <1>21 DEF ReleaseRefused, Atomic, BrokerTypeOK
<1>22. ASSUME NEW o \in Owners, LockTimeout(o) PROVE BrokerTypeOK'
  BY <1>22 DEF LockTimeout, BrokerTypeOK
<1>23. ASSUME NEW o \in Owners, BrokerCrash(o) PROVE BrokerTypeOK'
  BY <1>23 DEF BrokerCrash, BrokerTypeOK, EmptyStore, Store
<1>24. CASE BrokerTick
  <2>1. disk' \in Store /\ work' \in Store
    BY <1>24, StoreOpsType DEF BrokerTick, BrokerTypeOK
  <2> QED BY <1>24, <2>1 DEF BrokerTick, BrokerTypeOK, Less
<1> QED
  BY <1>0, <1>1, <1>2, <1>3, <1>4, <1>5, <1>6, <1>7, <1>8, <1>9, <1>10, <1>11,
     <1>12, <1>13, <1>14, <1>15, <1>16, <1>17, <1>18, <1>19, <1>20, <1>21,
     <1>22, <1>23, <1>24
  DEF BrokerNext, Holder, BrokerPromote, RequestFinish

\* The store file, the working copy and the clients keep their types.
THEOREM BrokerTyped == BrokerSpec => []BrokerTypeOK
BY InitType, NextType, PTL DEF BrokerSpec

-----------------------------------------------------------------------------
(* What the groups of actions do to the store *)

EnterStep == \/ SnapshotEnter
             \/ \E o \in Owners : \/ RequestEnter(o) \/ PollEnter(o)
                                  \/ CancelEnter(o) \/ ReleaseEnter(o)
PlainFinish == \/ RequestExisting \/ RequestAlreadyQueued \/ RequestRejected
               \/ SnapshotFinish \/ PollFinish \/ CancelFinish \/ ReleaseFinish
QuietStep == \E o \in Owners : \/ HeartbeatRefused(o) \/ ReleaseRefused(o) \/ LockTimeout(o)

\* BrokerNext, split by what happens to the two copies of the store.
LEMMA NextSplit ==
  ASSUME BrokerNext
  PROVE  \/ \E r \in work.queue : PromoteDrop(r) \/ PromoteSkip(r) \/ PromoteGrant(r)
         \/ EnterStep \/ PlainFinish \/ QuietStep
         \/ RequestQueued \/ RequestGranted
         \/ \E o \in Owners : HeartbeatRenews(o) \/ AssertActive(o) \/ BrokerCrash(o)
         \/ BrokerTick
BY DEF BrokerNext, Holder, BrokerPromote, RequestFinish, EnterStep, PlainFinish, QuietStep

\* prune takes exactly the stale leases for inactive.
LEMMA StaleIff == ASSUME NEW l \in BrokerLease PROVE Stale(l) <=> ~leaseIsActive(l)
BY DEF Stale, leaseIsActive, BrokerLease

\* An operation starts from a part of the file, and leaves out only leases
\* that may go.
LEMMA EnterFacts ==
  ASSUME BrokerTypeOK, FreshIds(disk), EnterStep
  PROVE  /\ UNCHANGED <<disk, minted, handle, alive>>
         /\ work'.leases \subseteq disk.leases /\ work'.queue \subseteq disk.queue
         /\ \A l \in disk.leases :
              \/ ~leaseIsActive(l) \/ l \in work'.leases
              \/ op'.type = "release" /\ Fenced(l, handle[op'.owner])
<1>1. CASE SnapshotEnter BY <1>1 DEF SnapshotEnter, Enter, prune
<1>2. ASSUME NEW o \in Owners, RequestEnter(o) \/ PollEnter(o)
      PROVE  /\ UNCHANGED <<disk, minted, handle, alive>>
             /\ work' = prune(disk)
  BY <1>2 DEF RequestEnter, PollEnter, Enter
<1>3. ASSUME NEW o \in Owners, CancelEnter(o)
      PROVE  /\ UNCHANGED <<disk, minted, handle, alive>>
             /\ work' = [leases |-> prune(disk).leases,
                         queue |-> {r \in disk.queue : r.tok # handle[o].tok}]
  BY <1>3 DEF CancelEnter, Enter
<1>4. ASSUME NEW o \in Owners, ReleaseEnter(o)
      PROVE  /\ UNCHANGED <<disk, minted, handle, alive>>
             /\ work' = [leases |-> {l \in prune(disk).leases : l.id # handle[o].lease},
                         queue |-> disk.queue]
             /\ \A l \in disk.leases : ~leaseIsActive(l) \/ l \in work'.leases
                                       \/ Fenced(l, handle[o])
             /\ op'.type = "release" /\ op'.owner = o
  <2>1. PICK m \in Mine(o) : TRUE BY <1>4 DEF ReleaseEnter
  <2>2. m \in disk.leases /\ Fenced(m, handle[o]) BY DEF Mine, prune
  <2>3. \A l \in disk.leases : l.id = handle[o].lease => Fenced(l, handle[o])
    BY <2>2 DEF FreshIds, Fenced
  <2>4. /\ UNCHANGED <<disk, minted, handle, alive>>
        /\ work' = [leases |-> {l \in prune(disk).leases : l.id # handle[o].lease},
                    queue |-> disk.queue]
    BY <1>4 DEF ReleaseEnter, Enter
  <2>5. op'.type = "release" /\ op'.owner = o BY <1>4 DEF ReleaseEnter, Enter
  <2> QED BY <2>3, <2>4, <2>5 DEF prune
<1> QED BY <1>1, <1>2, <1>3, <1>4 DEF EnterStep, prune

\* An operation that adds nothing of its own writes its copy.
LEMMA PlainFinishFacts ==
  ASSUME PlainFinish
  PROVE  disk' = work /\ work' = EmptyStore /\ op' = NoOp /\ minted' = minted /\ Busy
BY DEF PlainFinish, RequestExisting, RequestAlreadyQueued, RequestRejected,
       RequestIsNew, SnapshotFinish, PollFinish, CancelFinish, ReleaseFinish,
       Finishing, Leave

\* Refused and timed-out calls leave the store alone.
LEMMA QuietFacts ==
  ASSUME QuietStep PROVE UNCHANGED <<disk, work, op, minted, handle, alive>>
BY DEF QuietStep, HeartbeatRefused, ReleaseRefused, LockTimeout, Atomic

\* The fields of the new request are those the caller asked for.
LEMMA NewRequestFacts ==
  \A d : /\ NewRequest(d).kind = op.kind /\ NewRequest(d).owner = op.owner
        /\ leaseFrom(NewRequest(d), minted + 2).kind = op.kind
        /\ leaseFrom(NewRequest(d), minted + 2).owner = op.owner
        /\ leaseFrom(NewRequest(d), minted + 2).id = minted + 2
BY DEF NewRequest, leaseFrom

-----------------------------------------------------------------------------
(* One entry per use *)

\* Removing entries from a store cannot give a use a second one.
LEMMA SubStoreOneEntry ==
  ASSUME NEW s, NEW t, OneEntry(t),
         s.leases \subseteq t.leases, s.queue \subseteq t.queue
  PROVE  OneEntry(s)
BY DEF OneEntry

\* The empty store has no duplicates.
LEMMA EmptyOneEntry == OneEntry(EmptyStore)
BY DEF OneEntry, EmptyStore

\* No step gives one use two entries.
LEMMA OneEntryNext ==
  ASSUME BrokerTypeOK, FreshIds(disk), OneEntry(disk), OneEntry(work), [BrokerNext]_brokerVars
  PROVE  OneEntry(disk)' /\ OneEntry(work)'
<1>0. CASE UNCHANGED brokerVars BY <1>0 DEF OneEntry, brokerVars
<1>1. ASSUME NEW r \in work.queue, PromoteDrop(r)
      PROVE  OneEntry(disk)' /\ OneEntry(work)'
  BY <1>1, SubStoreOneEntry DEF PromoteDrop, OneEntry
<1>2. ASSUME NEW r \in work.queue, PromoteSkip(r)
      PROVE  OneEntry(disk)' /\ OneEntry(work)'
  BY <1>2 DEF PromoteSkip, OneEntry
<1>3. ASSUME NEW r \in work.queue, PromoteGrant(r)
      PROVE  OneEntry(disk)' /\ OneEntry(work)'
  <2> DEFINE n == leaseFrom(r, minted + 1)
  <2>1. n.kind = r.kind /\ n.owner = r.owner BY DEF leaseFrom
  <2>2. /\ work'.leases = work.leases \cup {n} /\ work'.queue = work.queue \ {r}
        /\ disk' = disk
    BY <1>3 DEF PromoteGrant
  <2> HIDE DEF n
  <2> QED BY <2>1, <2>2 DEF OneEntry
<1>4. CASE EnterStep
  <2>1. disk' = disk /\ work'.leases \subseteq disk.leases /\ work'.queue \subseteq disk.queue
    BY <1>4, EnterFacts
  <2> QED BY <2>1 DEF OneEntry
<1>5. CASE PlainFinish
  BY <1>5, PlainFinishFacts, EmptyOneEntry DEF OneEntry
<1>6. CASE QuietStep BY <1>6, QuietFacts DEF OneEntry
<1>7. CASE RequestQueued
  <2>1. PICK d \in RequestDepth :
          Leave([leases |-> work.leases, queue |-> work.queue \cup {NewRequest(d)}])
    BY <1>7 DEF RequestQueued
  <2>2. /\ disk'.leases = work.leases /\ disk'.queue = work.queue \cup {NewRequest(d)}
        /\ work' = EmptyStore
    BY <2>1 DEF Leave
  <2>3. \A x \in work.leases \cup work.queue : ~(x.kind = op.kind /\ x.owner = op.owner)
    BY <1>7 DEF RequestQueued, RequestIsNew, SameUse
  <2> QED BY <2>2, <2>3, NewRequestFacts, EmptyOneEntry DEF OneEntry
<1>8. CASE RequestGranted
  <2>1. PICK d \in RequestDepth :
          Leave([leases |-> work.leases \cup {leaseFrom(NewRequest(d), minted + 2)},
                 queue |-> work.queue])
    BY <1>8 DEF RequestGranted
  <2>2. /\ disk'.leases = work.leases \cup {leaseFrom(NewRequest(d), minted + 2)}
        /\ disk'.queue = work.queue /\ work' = EmptyStore
    BY <2>1 DEF Leave
  <2>3. \A x \in work.leases \cup work.queue : ~(x.kind = op.kind /\ x.owner = op.owner)
    BY <1>8 DEF RequestGranted, RequestIsNew, SameUse
  <2> QED BY <2>2, <2>3, NewRequestFacts, EmptyOneEntry DEF OneEntry
<1>9. ASSUME NEW o \in Owners, HeartbeatRenews(o)
      PROVE  OneEntry(disk)' /\ OneEntry(work)'
  <2>1. PICK l \in Mine(o), ttl \in Ttls :
          disk' = [leases |-> (prune(disk).leases \ {l}) \cup {Renewed(l, ttl)},
                   queue |-> disk.queue]
    BY <1>9 DEF HeartbeatRenews
  <2>2. l \in disk.leases /\ prune(disk).leases \subseteq disk.leases BY DEF Mine, prune
  <2>3. Renewed(l, ttl).kind = l.kind /\ Renewed(l, ttl).owner = l.owner
    BY <2>2 DEF Renewed, BrokerTypeOK, Store, BrokerLease
  <2>4. work' = work BY <1>9 DEF HeartbeatRenews, Atomic
  <2> QED BY <2>1, <2>2, <2>3, <2>4 DEF OneEntry
<1>10. ASSUME NEW o \in Owners, AssertActive(o)
      PROVE  OneEntry(disk)' /\ OneEntry(work)'
  BY <1>10 DEF AssertActive, Atomic, OneEntry, prune
<1>11. ASSUME NEW o \in Owners, BrokerCrash(o)
      PROVE  OneEntry(disk)' /\ OneEntry(work)'
  <2>1. disk' = disk /\ (work' = work \/ work' = EmptyStore) BY <1>11 DEF BrokerCrash
  <2> QED BY <2>1, EmptyOneEntry DEF OneEntry
<1>12. CASE BrokerTick
  <2>1. ASSUME NEW s \in Store, OneEntry(s) PROVE OneEntry(Older(s))
    <3>1. \A l \in BrokerLease : Aged(l).kind = l.kind /\ Aged(l).owner = l.owner
      BY DEF Aged, BrokerLease
    <3>2. s.leases \subseteq BrokerLease BY DEF Store
    <3> QED BY <2>1, <3>1, <3>2 DEF OneEntry, Older
  <2> QED BY <1>12, <2>1 DEF BrokerTick, BrokerTypeOK, OneEntry
<1> QED
  BY <1>0, <1>1, <1>2, <1>3, <1>4, <1>5, <1>6, <1>7, <1>8, <1>9, <1>10, <1>11,
     <1>12, NextSplit

-----------------------------------------------------------------------------
(* BrokerLease identities are fresh *)

\* No step reuses the identity of a lease or request.
LEMMA FreshNext ==
  ASSUME BrokerTypeOK, FreshIds(disk), FreshIds(work), [BrokerNext]_brokerVars
  PROVE  FreshIds(disk)' /\ FreshIds(work)'
<1>a. minted \in Nat BY DEF BrokerTypeOK
<1>b. \A l \in disk.leases \cup work.leases : l \in BrokerLease /\ l.id \in Nat
  BY DEF BrokerTypeOK, Store, BrokerLease
<1>0. CASE UNCHANGED brokerVars BY <1>0 DEF FreshIds, brokerVars
<1>1. ASSUME NEW r \in work.queue, PromoteDrop(r) \/ PromoteSkip(r)
      PROVE  FreshIds(disk)' /\ FreshIds(work)'
  BY <1>1 DEF PromoteDrop, PromoteSkip, FreshIds
<1>3. ASSUME NEW r \in work.queue, PromoteGrant(r)
      PROVE  FreshIds(disk)' /\ FreshIds(work)'
  <2> DEFINE n == leaseFrom(r, minted + 1)
  <2>1. n.id = minted + 1 BY DEF leaseFrom
  <2>2. /\ work'.leases = work.leases \cup {n} /\ minted' = minted + 1 /\ disk' = disk
    BY <1>3 DEF PromoteGrant
  <2> HIDE DEF n
  <2> QED BY <1>a, <1>b, <2>1, <2>2 DEF FreshIds
<1>4. CASE EnterStep
  <2>1. disk' = disk /\ work'.leases \subseteq disk.leases /\ minted' = minted
    BY <1>4, EnterFacts
  <2> QED BY <2>1 DEF FreshIds
<1>5. CASE PlainFinish
  BY <1>5, PlainFinishFacts DEF FreshIds, EmptyStore
<1>6. CASE QuietStep BY <1>6, QuietFacts DEF FreshIds
<1>7. CASE RequestQueued
  <2>1. disk'.leases = work.leases /\ work' = EmptyStore /\ minted' = minted + 1
    BY <1>7 DEF RequestQueued, Leave
  <2> QED BY <1>a, <1>b, <2>1 DEF FreshIds, EmptyStore
<1>8. CASE RequestGranted
  <2>1. PICK d \in RequestDepth :
          Leave([leases |-> work.leases \cup {leaseFrom(NewRequest(d), minted + 2)},
                 queue |-> work.queue])
    BY <1>8 DEF RequestGranted
  <2>2. /\ disk'.leases = work.leases \cup {leaseFrom(NewRequest(d), minted + 2)}
        /\ work' = EmptyStore
    BY <2>1 DEF Leave
  <2>3. minted' = minted + 2 BY <1>8 DEF RequestGranted
  <2> QED BY <1>a, <1>b, <2>2, <2>3, NewRequestFacts DEF FreshIds, EmptyStore
<1>9. ASSUME NEW o \in Owners, HeartbeatRenews(o)
      PROVE  FreshIds(disk)' /\ FreshIds(work)'
  <2>1. PICK l \in Mine(o), ttl \in Ttls :
          disk' = [leases |-> (prune(disk).leases \ {l}) \cup {Renewed(l, ttl)},
                   queue |-> disk.queue]
    BY <1>9 DEF HeartbeatRenews
  <2>2. l \in disk.leases /\ prune(disk).leases \subseteq disk.leases BY DEF Mine, prune
  <2>3. Renewed(l, ttl).id = l.id
    BY <2>2 DEF Renewed, BrokerTypeOK, Store, BrokerLease
  <2>4. work' = work /\ minted' = minted BY <1>9 DEF HeartbeatRenews, Atomic
  <2> QED BY <2>1, <2>2, <2>3, <2>4 DEF FreshIds
<1>10. ASSUME NEW o \in Owners, AssertActive(o)
      PROVE  FreshIds(disk)' /\ FreshIds(work)'
  BY <1>10 DEF AssertActive, Atomic, FreshIds, prune
<1>11. ASSUME NEW o \in Owners, BrokerCrash(o)
      PROVE  FreshIds(disk)' /\ FreshIds(work)'
  <2>1. disk' = disk /\ (work' = work \/ work' = EmptyStore) /\ minted' = minted
    BY <1>11 DEF BrokerCrash
  <2> QED BY <2>1 DEF FreshIds, EmptyStore
<1>12. CASE BrokerTick
  <2>1. \A l \in BrokerLease : Aged(l).id = l.id BY DEF Aged, BrokerLease
  <2>2. /\ disk'.leases = {Aged(l) : l \in disk.leases}
        /\ work'.leases = {Aged(l) : l \in work.leases} /\ minted' = minted
    BY <1>12 DEF BrokerTick, Older
  <2> QED BY <1>b, <2>1, <2>2 DEF FreshIds
<1> QED
  BY <1>0, <1>1, <1>3, <1>4, <1>5, <1>6, <1>7, <1>8, <1>9, <1>10, <1>11,
     <1>12, NextSplit

-----------------------------------------------------------------------------
(* Leases leave the store only when they may *)

\* Every lease in the store keeps a reason to be there.
LEMMA ClassifiedNext ==
  ASSUME BrokerTypeOK, FreshIds(disk), Classified, [BrokerNext]_brokerVars
  PROVE  Classified'
<1>b. \A l \in disk.leases \cup work.leases :
        l \in BrokerLease /\ l.id \in Nat /\ l.left \in Nat /\ l.pid \in Owners \cup {NoPid}
  BY DEF BrokerTypeOK, Store, BrokerLease
<1>0. CASE UNCHANGED brokerVars
  BY <1>0 DEF Classified, brokerVars, Busy, MayGo, Stale
<1>1. ASSUME NEW r \in work.queue, PromoteDrop(r) \/ PromoteSkip(r) \/ PromoteGrant(r)
      PROVE  Classified'
  <2>1. UNCHANGED <<disk, op, handle, alive>> /\ work.leases \subseteq work'.leases
    BY <1>1 DEF PromoteDrop, PromoteSkip, PromoteGrant
  <2> QED BY <2>1 DEF Classified, Busy, MayGo, Stale
<1>4. CASE EnterStep
  BY <1>4, <1>b, EnterFacts, StaleIff DEF Classified, MayGo, Stale
<1>5. ASSUME op' = NoOp PROVE Classified' BY <1>5 DEF Classified, Busy, NoOp
<1>6. CASE QuietStep
  BY <1>6, QuietFacts DEF Classified, Busy, MayGo, Stale
<1>7. CASE PlainFinish \/ RequestQueued \/ RequestGranted
  BY <1>5, <1>7, PlainFinishFacts DEF RequestQueued, RequestGranted, Leave
<1>8. ASSUME NEW o \in Owners, HeartbeatRenews(o) \/ AssertActive(o) PROVE Classified'
  BY <1>8 DEF HeartbeatRenews, AssertActive, Atomic, Classified, Busy
<1>9. ASSUME NEW o \in Owners, BrokerCrash(o) PROVE Classified'
  <2>1. CASE op' = NoOp BY <1>5, <2>1
  <2>2. CASE op' = op /\ work' = work
    <3>1. disk' = disk /\ handle' = handle /\ alive' = [alive EXCEPT ![o] = FALSE]
      BY <1>9 DEF BrokerCrash
    <3>2. \A l \in disk.leases : Stale(l) => Stale(l)'
      BY <1>b, <3>1 DEF Stale, BrokerTypeOK
    <3> QED BY <2>2, <3>1, <3>2 DEF Classified, Busy, MayGo
  <2> QED BY <1>9, <2>1, <2>2 DEF BrokerCrash
<1>10. CASE BrokerTick
  <2>1. /\ disk'.leases = {Aged(l) : l \in disk.leases}
        /\ work'.leases = {Aged(l) : l \in work.leases}
        /\ UNCHANGED <<op, handle, alive>>
    BY <1>10 DEF BrokerTick, Older
  <2>2. \A l \in BrokerLease : /\ Aged(l).id = l.id /\ Aged(l).tok = l.tok /\ Aged(l).pid = l.pid
                        /\ Aged(l).left = Less(l.left)
    BY DEF Aged, BrokerLease
  <2>3. \A l \in disk.leases : MayGo(l) => MayGo(Aged(l))'
    BY <1>b, <2>1, <2>2 DEF MayGo, Stale, Fenced, Less
  <2>4. ASSUME Busy', NEW a \in disk'.leases
        PROVE  MayGo(a)' \/ \E x \in work'.leases : x.id = a.id
    <3>1. PICK l \in disk.leases : a = Aged(l) BY <2>1
    <3>2. Busy BY <2>1, <2>4 DEF Busy
    <3>3. CASE MayGo(l)
      <4>1. MayGo(Aged(l))' BY <2>3, <3>3
      <4>2. a.id = l.id /\ a.tok = l.tok /\ a.pid = l.pid /\ a.left = Less(l.left)
        BY <1>b, <2>2, <3>1
      <4> QED BY <1>b, <2>1, <3>3, <4>2 DEF MayGo, Stale, Fenced, Less
    <3>4. CASE \E x \in work.leases : x.id = l.id
      BY <1>b, <2>1, <2>2, <3>1, <3>4
    <3> QED BY <3>2, <3>3, <3>4 DEF Classified
  <2> QED BY <2>4 DEF Classified
<1> QED
  BY <1>0, <1>1, <1>4, <1>6, <1>7, <1>8, <1>9, <1>10, NextSplit

\* The inductive invariant holds.
THEOREM BrokerInvariant == BrokerSpec => []BrokerInv
<1>1. BrokerInit => BrokerInv
  BY InitType DEF BrokerInit, BrokerInv, OneEntry, FreshIds, Classified, Busy, NoOp, EmptyStore
<1>2. BrokerInv /\ [BrokerNext]_brokerVars => BrokerInv'
  BY NextType, OneEntryNext, FreshNext, ClassifiedNext DEF BrokerInv
<1> QED BY <1>1, <1>2, PTL DEF BrokerSpec

\* requestResource keeps one entry per kind and owner, whatever the number of
\* owners, the limits and the interleaving.
THEOREM BrokerOneEntry == BrokerSpec => []OneEntryPerUse
<1>1. BrokerInv => OneEntryPerUse BY DEF BrokerInv, OneEntryPerUse
<1> QED BY <1>1, BrokerInvariant, PTL

\* No step takes a lease of a live process, or one within its time, away from
\* anyone but the holder that releases it.
THEOREM BrokerLiveLease == BrokerSpec => LiveLeaseSurvives
<1>1. ASSUME BrokerInv, [BrokerNext]_brokerVars
      PROVE  [\A l \in disk.leases : MayGo(l) \/ \E x \in disk'.leases : x.id = l.id]_brokerVars
  <2> SUFFICES ASSUME NEW l \in disk.leases, BrokerNext
               PROVE  MayGo(l) \/ \E x \in disk'.leases : x.id = l.id
    BY <1>1
  <2>b. l \in BrokerLease BY <1>1 DEF BrokerInv, BrokerTypeOK, Store
  <2>1. CASE disk' = disk BY <2>1
  <2>2. CASE Busy /\ work.leases \subseteq disk'.leases
    BY <1>1, <2>2 DEF BrokerInv, Classified
  <2>3. CASE EnterStep BY <1>1, <2>1, <2>3, EnterFacts DEF BrokerInv
  <2>4. CASE PlainFinish BY <2>2, <2>4, PlainFinishFacts
  <2>5. CASE RequestQueued \/ RequestGranted
    BY <2>2, <2>5 DEF RequestQueued, RequestGranted, RequestIsNew, Finishing, Leave
  <2>6. ASSUME NEW o \in Owners, HeartbeatRenews(o)
        PROVE  MayGo(l) \/ \E x \in disk'.leases : x.id = l.id
    <3>1. PICK m \in Mine(o), ttl \in Ttls :
            disk' = [leases |-> (prune(disk).leases \ {m}) \cup {Renewed(m, ttl)},
                     queue |-> disk.queue]
      BY <2>6 DEF HeartbeatRenews
    <3>2. m \in disk.leases BY DEF Mine, prune
    <3>3. Renewed(m, ttl).id = m.id
      BY <1>1, <3>2 DEF Renewed, BrokerInv, BrokerTypeOK, Store, BrokerLease
    <3> QED BY <2>b, <3>1, <3>2, <3>3, StaleIff DEF prune, MayGo
  <2>7. ASSUME NEW o \in Owners, AssertActive(o)
        PROVE  MayGo(l) \/ \E x \in disk'.leases : x.id = l.id
    BY <2>b, <2>7, StaleIff DEF AssertActive, prune, MayGo
  <2>8. CASE BrokerTick
    <3>1. disk'.leases = {Aged(x) : x \in disk.leases} BY <2>8 DEF BrokerTick, Older
    <3>2. Aged(l).id = l.id BY <2>b DEF Aged, BrokerLease
    <3> QED BY <3>1, <3>2
  <2>9. ASSUME NEW r \in work.queue, PromoteDrop(r) \/ PromoteSkip(r) \/ PromoteGrant(r)
        PROVE  disk' = disk
    BY <2>9 DEF PromoteDrop, PromoteSkip, PromoteGrant
  <2>10. ASSUME NEW o \in Owners, BrokerCrash(o) PROVE disk' = disk BY <2>10 DEF BrokerCrash
  <2>11. CASE QuietStep BY <2>1, <2>11, QuietFacts
  <2> QED BY <2>1, <2>3, <2>4, <2>5, <2>6, <2>7, <2>8, <2>9, <2>10, <2>11, NextSplit
<1> QED BY <1>1, BrokerInvariant, PTL DEF BrokerSpec, LiveLeaseSurvives
-----------------------------------------------------------------------------
(* Admission: the depths of nested workers *)

\* Leaving entries out of a store keeps its depths a chain.
LEMMA ChainSub ==
  ASSUME NEW s, NEW t, Chain(t), s.leases \subseteq t.leases, s.queue \subseteq t.queue
  PROVE  Chain(s)
BY DEF Chain

\* An entry that fits under its parent, when there is one.
FitsUnder(x, s) ==
  /\ x.parent = NoLease => x.depth = 0
  /\ x.depth <= MaxSubagentDepth \/ x.parent = NoLease
  /\ \A p \in s.leases :
       p.id = x.parent => /\ x.kind = "worker" /\ p.kind = "worker"
                          /\ x.depth = p.depth + 1

\* A request that fits can be queued.
LEMMA ChainQueue ==
  ASSUME NEW s, NEW x, NEW t, Chain(s), FitsUnder(x, s),
         t.leases = s.leases, t.queue = s.queue \cup {x}
  PROVE  Chain(t)
BY DEF Chain, FitsUnder

\* A lease that fits can be added when nobody calls it a parent yet.
LEMMA ChainLease ==
  ASSUME NEW s, NEW x, NEW t, Chain(s), FitsUnder(x, s), x.parent # x.id,
         \A y \in s.leases \cup s.queue : y.parent # x.id,
         t.leases = s.leases \cup {x}, t.queue \subseteq s.queue
  PROVE  Chain(t)
<1>1. \A y \in t.leases \cup t.queue : y = x \/ y \in s.leases \cup s.queue
  OBVIOUS
<1>2. \A y \in t.leases \cup t.queue : FitsUnder(y, s)
  BY <1>1 DEF Chain, FitsUnder
<1>3. ASSUME NEW y \in t.leases \cup t.queue, NEW p \in t.leases, p.id = y.parent
      PROVE  p \in s.leases
  BY <1>1, <1>3
<1> QED BY <1>2, <1>3 DEF Chain, FitsUnder

\* A new request that is not rejected fits under the parent its caller named.
LEMMA NewRequestFits ==
  ASSUME BrokerTypeOK, FreshIds(work), Numbered(work), ~Rejected,
         NEW d \in RequestDepth
  PROVE  FitsUnder(NewRequest(d), work)
<1>1. NewRequest(d).parent = op.parent /\ NewRequest(d).depth = d /\ NewRequest(d).kind = op.kind
  BY DEF NewRequest
<1>2. CASE op.parent = NoLease
  BY <1>1, <1>2 DEF RequestDepth, FitsUnder, Numbered, NoLease
<1>3. CASE op.parent # NoLease
  <2>1. op.kind = "worker" /\ \E e \in ParentDepth : ~(e + 1 > MaxSubagentDepth)
    BY <1>3 DEF Rejected
  <2>2. PICK l \in work.leases : l.id = op.parent /\ l.kind = "worker" /\ d = l.depth + 1
    BY <1>3 DEF RequestDepth, ParentDepth
  <2>3. \A p \in work.leases : p.id = op.parent => p = l
    BY <2>2 DEF FreshIds
  <2>4. l.depth \in Nat /\ MaxSubagentDepth \in Nat
    BY BrokerAssumption DEF BrokerTypeOK, Store, BrokerLease
  <2>5. \A e \in ParentDepth : e = l.depth
    BY <2>3 DEF ParentDepth
  <2>6. d <= MaxSubagentDepth
    BY <2>1, <2>2, <2>4, <2>5
  <2> QED BY <1>1, <1>3, <2>1, <2>2, <2>3, <2>6 DEF FitsUnder
<1> QED BY <1>2, <1>3

\* A renewal changes the time of a lease and nothing else.
LEMMA RenewedFields ==
  ASSUME NEW l \in BrokerLease, NEW ttl
  PROVE  /\ Renewed(l, ttl).id = l.id /\ Renewed(l, ttl).tok = l.tok
         /\ Renewed(l, ttl).kind = l.kind /\ Renewed(l, ttl).owner = l.owner
         /\ Renewed(l, ttl).parent = l.parent /\ Renewed(l, ttl).depth = l.depth
BY DEF Renewed, BrokerLease

\* The passage of time changes the time of a lease and nothing else.
LEMMA AgedFields ==
  ASSUME NEW l \in BrokerLease
  PROVE  /\ Aged(l).id = l.id /\ Aged(l).tok = l.tok
         /\ Aged(l).kind = l.kind /\ Aged(l).owner = l.owner
         /\ Aged(l).parent = l.parent /\ Aged(l).depth = l.depth
BY DEF Aged, BrokerLease

\* No step breaks the chain of depths, in the file or in the working copy.
LEMMA ChainNext ==
  ASSUME BrokerInv, AdmissionInv, [BrokerNext]_brokerVars
  PROVE  Chain(disk)' /\ Chain(work)'
<1> USE DEF AdmissionInv
<1>a. minted \in Nat /\ BrokerTypeOK /\ FreshIds(work) /\ FreshIds(disk)
  BY DEF BrokerInv, BrokerTypeOK
<1>b. \A x \in work.leases \cup work.queue : x.parent \in Nat /\ x.parent <= minted
  BY <1>a DEF BrokerTypeOK, Store, BrokerLease, Request, Numbered
<1>c. Chain(EmptyStore) BY DEF Chain, EmptyStore
<1>0. CASE UNCHANGED brokerVars BY <1>0 DEF Chain, brokerVars
<1>1. ASSUME NEW r \in work.queue, PromoteDrop(r) \/ PromoteSkip(r)
      PROVE  Chain(disk)' /\ Chain(work)'
  BY <1>1 DEF PromoteDrop, PromoteSkip, Chain
<1>3. ASSUME NEW r \in work.queue, PromoteGrant(r)
      PROVE  Chain(disk)' /\ Chain(work)'
  <2> DEFINE n == leaseFrom(r, minted + 1)
  <2>1. n.id = minted + 1 /\ n.parent = r.parent /\ n.depth = r.depth /\ n.kind = r.kind
    BY DEF leaseFrom
  <2>2. /\ work'.leases = work.leases \cup {n} /\ work'.queue \subseteq work.queue
        /\ disk' = disk
    BY <1>3 DEF PromoteGrant
  <2> HIDE DEF n
  <2>3. FitsUnder(n, work) BY <2>1 DEF FitsUnder, Chain
  <2>4. n.parent # n.id /\ \A y \in work.leases \cup work.queue : y.parent # n.id
    BY <1>a, <1>b, <2>1
  <2>5. Chain(work') BY <2>2, <2>3, <2>4, ChainLease
  <2> QED BY <2>2, <2>5 DEF Chain
<1>4. CASE EnterStep
  <2>1. disk' = disk /\ work'.leases \subseteq disk.leases /\ work'.queue \subseteq disk.queue
    BY <1>4, <1>a, EnterFacts
  <2> QED BY <2>1 DEF Chain
<1>5. CASE PlainFinish
  <2>1. disk' = work /\ work' = EmptyStore BY <1>5, PlainFinishFacts
  <2> QED BY <2>1, <1>c DEF Chain
<1>6. CASE QuietStep
  <2>1. disk' = disk /\ work' = work BY <1>6, QuietFacts
  <2> QED BY <2>1 DEF Chain
<1>7. CASE RequestQueued
  <2>1. PICK d \in RequestDepth :
          Leave([leases |-> work.leases, queue |-> work.queue \cup {NewRequest(d)}])
    BY <1>7 DEF RequestQueued
  <2>2. /\ disk'.leases = work.leases /\ disk'.queue = work.queue \cup {NewRequest(d)}
        /\ work' = EmptyStore
    BY <2>1 DEF Leave
  <2>3. FitsUnder(NewRequest(d), work) BY <1>7, <1>a, NewRequestFits DEF RequestQueued
  <2>4. Chain(disk') BY <2>2, <2>3, ChainQueue
  <2> QED BY <2>2, <2>4, <1>c DEF Chain
<1>8. CASE RequestGranted
  <2>1. PICK d \in RequestDepth :
          Leave([leases |-> work.leases \cup {leaseFrom(NewRequest(d), minted + 2)},
                 queue |-> work.queue])
    BY <1>8 DEF RequestGranted
  <2> DEFINE n == leaseFrom(NewRequest(d), minted + 2)
  <2>2. /\ disk'.leases = work.leases \cup {n} /\ disk'.queue = work.queue
        /\ work' = EmptyStore
    BY <2>1 DEF Leave
  <2>3. FitsUnder(NewRequest(d), work) BY <1>8, <1>a, NewRequestFits DEF RequestGranted
  <2>4. /\ n.id = minted + 2 /\ n.parent = op.parent
        /\ n.parent = NewRequest(d).parent /\ n.depth = NewRequest(d).depth
        /\ n.kind = NewRequest(d).kind
    BY DEF leaseFrom, NewRequest
  <2> HIDE DEF n
  <2>5. FitsUnder(n, work) BY <2>3, <2>4 DEF FitsUnder
  <2>6. op \in [type: {"request"}, owner: Owners, lim: Limits, kind: Kinds,
                parent: Nat, pid: Owners \cup {NoPid}, ttl: Nat]
    BY <1>8, <1>a DEF RequestGranted, RequestIsNew, Finishing, Busy, BrokerTypeOK, BrokerOp, NoOp
  <2>7. op.parent \in Nat /\ op.parent <= minted
    BY <2>6
  <2>8. n.parent # n.id /\ \A y \in work.leases \cup work.queue : y.parent # n.id
    BY <1>a, <1>b, <2>4, <2>7
  <2>9. Chain(disk') BY <2>2, <2>5, <2>8, ChainLease
  <2> QED BY <2>2, <2>9, <1>c DEF Chain
<1>9. ASSUME NEW o \in Owners, HeartbeatRenews(o)
      PROVE  Chain(disk)' /\ Chain(work)'
  <2>1. PICK l \in Mine(o), ttl \in Ttls :
          disk' = [leases |-> (prune(disk).leases \ {l}) \cup {Renewed(l, ttl)},
                   queue |-> disk.queue]
    BY <1>9 DEF HeartbeatRenews
  <2>2. l \in disk.leases /\ prune(disk).leases \subseteq disk.leases BY DEF Mine, prune
  <2>3. /\ Renewed(l, ttl).id = l.id /\ Renewed(l, ttl).kind = l.kind
        /\ Renewed(l, ttl).parent = l.parent /\ Renewed(l, ttl).depth = l.depth
    BY <2>2, <1>a, RenewedFields DEF BrokerTypeOK, Store
  <2>4. work' = work BY <1>9 DEF HeartbeatRenews, Atomic
  <2>5. /\ disk'.leases \subseteq disk.leases \cup {Renewed(l, ttl)}
        /\ disk'.queue = disk.queue
    BY <2>1, <2>2
  <2> QED BY <2>2, <2>3, <2>4, <2>5 DEF Chain
<1>10. ASSUME NEW o \in Owners, AssertActive(o)
      PROVE  Chain(disk)' /\ Chain(work)'
  BY <1>10 DEF AssertActive, Atomic, Chain, prune
<1>11. ASSUME NEW o \in Owners, BrokerCrash(o)
      PROVE  Chain(disk)' /\ Chain(work)'
  <2>1. disk' = disk /\ (work' = work \/ work' = EmptyStore) BY <1>11 DEF BrokerCrash
  <2> QED BY <2>1, <1>c DEF Chain
<1>12. CASE BrokerTick
  <2>1. ASSUME NEW s \in Store, Chain(s) PROVE Chain(Older(s))
    <3>1. s.leases \subseteq BrokerLease BY DEF Store
    <3>2. Older(s).leases = {Aged(l) : l \in s.leases} /\ Older(s).queue = s.queue
      BY DEF Older
    <3>3. \A x \in Older(s).leases \cup Older(s).queue : \E y \in s.leases \cup s.queue :
            x.parent = y.parent /\ x.depth = y.depth /\ x.kind = y.kind
      BY <3>1, <3>2, AgedFields
    <3>4. \A x \in Older(s).leases : \E y \in s.leases :
            x.id = y.id /\ x.depth = y.depth /\ x.kind = y.kind
      BY <3>1, <3>2, AgedFields
    <3> QED BY <2>1, <3>3, <3>4 DEF Chain
  <2>2. Chain(Older(disk)) /\ Chain(Older(work)) BY <1>a, <2>1 DEF BrokerTypeOK
  <2>3. disk' = Older(disk) /\ work' = Older(work) BY <1>12 DEF BrokerTick
  <2> QED BY <2>2, <2>3 DEF Chain
<1> QED
  BY <1>0, <1>1, <1>3, <1>4, <1>5, <1>6, <1>7, <1>8, <1>9, <1>10, <1>11,
     <1>12, NextSplit

-----------------------------------------------------------------------------
(* Admission: numbers are drawn before they are used *)

\* Numbered, with the counter as a parameter.
NumberedTo(s, m) ==
  /\ \A x \in s.leases : x.id > 0
  /\ \A x \in s.leases \cup s.queue : x.tok \in 1..m /\ x.parent <= m
  /\ \A x, y \in s.queue : x.tok = y.tok => x = y

\* Removing entries and drawing more numbers keeps a store numbered.
LEMMA NumberedSub ==
  ASSUME NEW s, NEW t \in Store, NEW m \in Nat, NEW n \in Nat, NumberedTo(t, m), m <= n,
         s.leases \subseteq t.leases, s.queue \subseteq t.queue
  PROVE  NumberedTo(s, n)
<1>1. \A x \in t.leases \cup t.queue : x.tok \in Nat /\ x.parent \in Nat
  BY DEF Store, BrokerLease, Request
<1> QED BY <1>1 DEF NumberedTo

\* A handle never names a lease that was not drawn.
Handed == \A o \in Owners : handle[o].lease <= minted

\* The parent that a running request names was drawn.
ParentDrawn == op.type = "request" => op.parent <= minted

\* A handle that changes is given a lease of the working copy, a new one or none.
LEMMA BecomesHanded ==
  ASSUME BrokerTypeOK, Handed, minted' \in Nat, minted <= minted',
         NEW o, NEW state, NEW h, Becomes(o, state, h), h.lease <= minted'
  PROVE  Handed'
<1>1. \A p \in Owners : handle'[p] = handle[p] \/ handle'[p] = h
  BY DEF Becomes, BrokerTypeOK
<1>2. \A p \in Owners : handle[p].lease \in Nat /\ handle[p].lease <= minted
  BY DEF BrokerTypeOK, Handed
<1>3. minted \in Nat BY DEF BrokerTypeOK
<1> QED BY <1>1, <1>2, <1>3 DEF Handed

\* The request that holds the lock has the fields of a request.
LEMMA RequestOp ==
  ASSUME BrokerTypeOK, Busy, op.type = "request"
  PROVE  /\ op \in [type: {"request"}, owner: Owners, lim: Limits, kind: Kinds,
                    parent: Nat, pid: Owners \cup {NoPid}, ttl: Nat]
         /\ op.parent \in Nat
BY DEF Busy, BrokerTypeOK, BrokerOp, NoOp

\* No step hands out a number that was not drawn.
LEMMA HandedNext ==
  ASSUME BrokerInv, AdmissionInv, [BrokerNext]_brokerVars
  PROVE  Handed' /\ ParentDrawn'
<1>a. minted \in Nat /\ BrokerTypeOK /\ FreshIds(work) /\ FreshIds(disk) /\ Handed /\ ParentDrawn
  BY DEF BrokerInv, BrokerTypeOK, AdmissionInv, Handed, ParentDrawn
<1>b. \A l \in work.leases : l.id \in Nat /\ l.id <= minted
  BY <1>a DEF BrokerTypeOK, Store, BrokerLease, FreshIds
<1>c. op' = NoOp => ParentDrawn' BY DEF ParentDrawn, NoOp
<1>0. CASE UNCHANGED brokerVars BY <1>0, <1>a DEF Handed, ParentDrawn, brokerVars
<1>1. ASSUME NEW r \in work.queue, PromoteDrop(r) \/ PromoteSkip(r)
      PROVE  Handed' /\ ParentDrawn'
  BY <1>1, <1>a DEF PromoteDrop, PromoteSkip, Handed, ParentDrawn
<1>3. ASSUME NEW r \in work.queue, PromoteGrant(r)
      PROVE  Handed' /\ ParentDrawn'
  <2>1. handle' = handle /\ minted' = minted + 1 /\ op' = op BY <1>3 DEF PromoteGrant
  <2>2. Busy /\ (op.type = "request" => op.parent \in Nat)
    BY <1>3, <1>a, RequestOp DEF PromoteGrant
  <2>3. \A p \in Owners : handle[p].lease \in Nat BY <1>a DEF BrokerTypeOK
  <2>4. Handed' BY <1>a, <2>1, <2>3 DEF Handed
  <2>5. ParentDrawn' BY <1>a, <2>1, <2>2 DEF ParentDrawn
  <2> QED BY <2>4, <2>5
<1>4. ASSUME NEW o \in Owners, RequestEnter(o) PROVE Handed' /\ ParentDrawn'
  <2>1. PICK u \in Uses, ttl \in Ttls, m \in MemoryLevels,
           parent \in {NoLease} \cup {handle[p].lease : p \in Owners \ {o}} :
       Enter([type |-> "request", owner |-> o, kind |-> u.kind,
              parent |-> parent, pid |-> IF u.fenced THEN o ELSE NoPid,
              ttl |-> ttl, lim |-> currentResourceLimits(m)],
             prune(disk))
    BY <1>4 DEF RequestEnter
  <2>2. op'.parent = parent /\ handle' = handle /\ minted' = minted
    BY <2>1 DEF Enter
  <2>3. parent <= minted BY <1>a DEF Handed, NoLease
  <2> QED BY <1>a, <2>2, <2>3 DEF Handed, ParentDrawn
<1>5. ASSUME EnterStep, \A o \in Owners : ~RequestEnter(o) PROVE Handed' /\ ParentDrawn'
  <2>1. handle' = handle /\ minted' = minted BY <1>5, <1>a, EnterFacts
  <2>2. op'.type # "request"
    <3>1. CASE SnapshotEnter BY <3>1 DEF SnapshotEnter, Enter
    <3>2. ASSUME NEW o \in Owners, PollEnter(o) PROVE op'.type # "request"
      BY <3>2 DEF PollEnter, Enter
    <3>3. ASSUME NEW o \in Owners, CancelEnter(o) PROVE op'.type # "request"
      BY <3>3 DEF CancelEnter, Enter
    <3>4. ASSUME NEW o \in Owners, ReleaseEnter(o) PROVE op'.type # "request"
      BY <3>4 DEF ReleaseEnter, Enter
    <3> QED BY <1>5, <3>1, <3>2, <3>3, <3>4 DEF EnterStep
  <2> QED BY <1>a, <2>1, <2>2 DEF Handed, ParentDrawn
<1>6. CASE PlainFinish
  <2>1. op' = NoOp /\ minted' = minted BY <1>6, PlainFinishFacts
  <2>2. CASE handle' = handle BY <1>a, <1>c, <2>1, <2>2 DEF Handed
  <2>3. ASSUME NEW o, NEW state, NEW h, Becomes(o, state, h), h.lease <= minted
        PROVE  Handed'
    BY <1>a, <2>1, <2>3, BecomesHanded
  <2>4. CASE RequestExisting
    <3>1. PICK l \in work.leases : Becomes(op.owner, "hold", [tok |-> l.tok, lease |-> l.id])
      BY <2>4 DEF RequestExisting
    <3> QED BY <1>b, <1>c, <2>1, <2>3, <3>1
  <2>5. CASE RequestAlreadyQueued
    <3>1. PICK r \in work.queue : Becomes(op.owner, "wait", [tok |-> r.tok, lease |-> NoLease])
      BY <2>5 DEF RequestAlreadyQueued
    <3>2. NoLease <= minted BY <1>a DEF NoLease
    <3> QED BY <1>c, <2>1, <2>3, <3>1, <3>2
  <2>6. CASE RequestRejected \/ ReleaseFinish
    <3>1. NoHandle.lease <= minted BY <1>a DEF NoHandle, NoLease
    <3> QED BY <1>c, <2>1, <2>3, <2>6, <3>1 DEF RequestRejected, ReleaseFinish
  <2>7. CASE PollFinish
    <3> DEFINE h == handle[op.owner]
               got == {l.id : l \in {x \in work.leases : x.tok = h.tok}}
    <3>1. PICK id \in IF got = {} THEN {NoLease} ELSE got :
            Becomes(op.owner, Verdict(op.owner, h), [tok |-> h.tok, lease |-> id])
      BY <2>7 DEF PollFinish
    <3>2. id <= minted BY <1>a, <1>b DEF NoLease
    <3> QED BY <1>c, <2>1, <2>3, <3>1, <3>2
  <2>8. CASE SnapshotFinish \/ CancelFinish
    BY <2>2, <2>8 DEF SnapshotFinish, CancelFinish
  <2> QED BY <1>6, <2>4, <2>5, <2>6, <2>7, <2>8 DEF PlainFinish
<1>7. CASE QuietStep
  <2>1. handle' = handle /\ minted' = minted /\ op' = op BY <1>7, QuietFacts
  <2> QED BY <1>a, <2>1 DEF Handed, ParentDrawn
<1>8. CASE RequestQueued
  <2>1. Becomes(op.owner, "wait", [tok |-> minted + 1, lease |-> NoLease])
    BY <1>8 DEF RequestQueued
  <2>2. minted' = minted + 1 /\ op' = NoOp BY <1>8 DEF RequestQueued, Leave
  <2>3. NoLease <= minted' BY <1>a, <2>2 DEF NoLease
  <2> QED BY <1>a, <1>c, <2>1, <2>2, <2>3, BecomesHanded
<1>9. CASE RequestGranted
  <2>1. Becomes(op.owner, "hold", [tok |-> minted + 1, lease |-> minted + 2])
    BY <1>9 DEF RequestGranted
  <2>2. minted' = minted + 2 /\ op' = NoOp BY <1>9 DEF RequestGranted, Leave
  <2> QED BY <1>a, <1>c, <2>1, <2>2, BecomesHanded
<1>10. ASSUME NEW o \in Owners, HeartbeatRenews(o) \/ AssertActive(o)
      PROVE  Handed' /\ ParentDrawn'
  BY <1>10, <1>a DEF HeartbeatRenews, AssertActive, Atomic, Handed, ParentDrawn
<1>11. ASSUME NEW o \in Owners, BrokerCrash(o) PROVE Handed' /\ ParentDrawn'
  <2>1. handle' = handle /\ minted' = minted /\ (op' = op \/ op' = NoOp)
    BY <1>11 DEF BrokerCrash
  <2> QED BY <1>a, <1>c, <2>1 DEF Handed, ParentDrawn
<1>12. CASE BrokerTick
  BY <1>12, <1>a DEF BrokerTick, Handed, ParentDrawn
<1> QED
  BY <1>0, <1>1, <1>3, <1>4, <1>5, <1>6, <1>7, <1>8, <1>9, <1>10, <1>11,
     <1>12, NextSplit

\* No step numbers two requests alike, or uses a number before it is drawn.
LEMMA NumberedNext ==
  ASSUME BrokerInv, AdmissionInv, [BrokerNext]_brokerVars
  PROVE  Numbered(disk)' /\ Numbered(work)'
<1>a. minted \in Nat /\ BrokerTypeOK /\ FreshIds(work) /\ FreshIds(disk)
      /\ disk \in Store /\ work \in Store
  BY DEF BrokerInv, BrokerTypeOK
<1>b. NumberedTo(disk, minted) /\ NumberedTo(work, minted)
  BY DEF AdmissionInv, Numbered, NumberedTo
<1>c. \A m : NumberedTo(EmptyStore, m) BY DEF NumberedTo, EmptyStore
<1>d. \A x \in work.leases \cup work.queue : x.tok \in Nat /\ x.parent \in Nat
  BY <1>a DEF Store, BrokerLease, Request
<1> SUFFICES NumberedTo(disk', minted') /\ NumberedTo(work', minted')
  BY DEF Numbered, NumberedTo
<1>e. ASSUME disk' = disk, minted' \in Nat, minted <= minted'
      PROVE  NumberedTo(disk', minted')
  BY <1>a, <1>b, <1>e, NumberedSub
<1>0. CASE UNCHANGED brokerVars BY <1>0, <1>b DEF brokerVars
<1>1. ASSUME NEW r \in work.queue, PromoteDrop(r) \/ PromoteSkip(r)
      PROVE  NumberedTo(disk', minted') /\ NumberedTo(work', minted')
  <2>1. /\ disk' = disk /\ minted' = minted
        /\ work'.leases \subseteq work.leases /\ work'.queue \subseteq work.queue
    BY <1>1 DEF PromoteDrop, PromoteSkip
  <2> QED BY <1>a, <1>b, <2>1, NumberedSub
<1>3. ASSUME NEW r \in work.queue, PromoteGrant(r)
      PROVE  NumberedTo(disk', minted') /\ NumberedTo(work', minted')
  <2> DEFINE n == leaseFrom(r, minted + 1)
  <2>1. n.id = minted + 1 /\ n.parent = r.parent /\ n.tok = r.tok
    BY DEF leaseFrom
  <2>2. /\ work'.leases = work.leases \cup {n} /\ work'.queue \subseteq work.queue
        /\ disk' = disk /\ minted' = minted + 1
    BY <1>3 DEF PromoteGrant
  <2> HIDE DEF n
  <2>3. NumberedTo(disk', minted') BY <1>a, <1>e, <2>2
  <2>4. NumberedTo(work, minted') BY <1>a, <1>b, <2>2, NumberedSub
  <2>5. r.tok \in 1..minted' /\ r.parent <= minted' BY <2>4 DEF NumberedTo
  <2>6. NumberedTo(work', minted')
    BY <1>a, <2>1, <2>2, <2>4, <2>5 DEF NumberedTo
  <2> QED BY <2>3, <2>6
<1>4. CASE EnterStep
  <2>1. /\ disk' = disk /\ work'.leases \subseteq disk.leases
        /\ work'.queue \subseteq disk.queue /\ minted' = minted
    BY <1>4, <1>a, EnterFacts
  <2> QED BY <1>a, <1>b, <2>1, NumberedSub
<1>5. CASE PlainFinish
  <2>1. disk' = work /\ work' = EmptyStore /\ minted' = minted BY <1>5, PlainFinishFacts
  <2> QED BY <2>1, <1>b, <1>c
<1>6. CASE QuietStep
  <2>1. disk' = disk /\ work' = work /\ minted' = minted BY <1>6, QuietFacts
  <2> QED BY <2>1, <1>b
<1>r. ASSUME Finishing("request") PROVE op.parent \in Nat /\ op.parent <= minted
  BY <1>r, <1>a, RequestOp DEF Finishing, AdmissionInv
<1>7. CASE RequestQueued
  <2>1. PICK d \in RequestDepth :
          Leave([leases |-> work.leases, queue |-> work.queue \cup {NewRequest(d)}])
    BY <1>7 DEF RequestQueued
  <2>2. /\ disk'.leases = work.leases /\ disk'.queue = work.queue \cup {NewRequest(d)}
        /\ work' = EmptyStore /\ minted' = minted + 1
    BY <1>7, <2>1 DEF Leave, RequestQueued
  <2>3. NewRequest(d).tok = minted + 1 /\ NewRequest(d).parent = op.parent
    BY DEF NewRequest
  <2>4. op.parent \in Nat /\ op.parent <= minted
    BY <1>7, <1>r DEF RequestQueued, RequestIsNew
  <2>5. NumberedTo(work, minted') BY <1>a, <1>b, <2>2, NumberedSub
  <2>6. \A x \in work.queue : x.tok # minted + 1
    BY <1>a, <1>b, <1>d DEF NumberedTo
  <2>7. \A x \in disk'.leases \cup disk'.queue : x.tok \in 1..minted' /\ x.parent <= minted'
    BY <1>a, <2>2, <2>3, <2>4, <2>5 DEF NumberedTo
  <2>8. \A x, y \in disk'.queue : x.tok = y.tok => x = y
    BY <2>2, <2>3, <2>5, <2>6 DEF NumberedTo
  <2>9. NumberedTo(disk', minted') BY <2>2, <2>5, <2>7, <2>8 DEF NumberedTo
  <2> QED BY <1>c, <2>2, <2>9
<1>8. CASE RequestGranted
  <2>1. PICK d \in RequestDepth :
          Leave([leases |-> work.leases \cup {leaseFrom(NewRequest(d), minted + 2)},
                 queue |-> work.queue])
    BY <1>8 DEF RequestGranted
  <2> DEFINE n == leaseFrom(NewRequest(d), minted + 2)
  <2>2. /\ disk'.leases = work.leases \cup {n} /\ disk'.queue = work.queue
        /\ work' = EmptyStore /\ minted' = minted + 2
    BY <1>8, <2>1 DEF Leave, RequestGranted
  <2>3. n.id = minted + 2 /\ n.parent = op.parent /\ n.tok = minted + 1
    BY DEF leaseFrom, NewRequest
  <2> HIDE DEF n
  <2>4. op.parent \in Nat /\ op.parent <= minted
    BY <1>8, <1>r DEF RequestGranted, RequestIsNew
  <2>5. NumberedTo(work, minted') BY <1>a, <1>b, <2>2, NumberedSub
  <2>6. NumberedTo(disk', minted')
    BY <1>a, <2>2, <2>3, <2>4, <2>5 DEF NumberedTo
  <2> QED BY <1>c, <2>2, <2>6
<1>9. ASSUME NEW o \in Owners, HeartbeatRenews(o)
      PROVE  NumberedTo(disk', minted') /\ NumberedTo(work', minted')
  <2>1. PICK l \in Mine(o), ttl \in Ttls :
          disk' = [leases |-> (prune(disk).leases \ {l}) \cup {Renewed(l, ttl)},
                   queue |-> disk.queue]
    BY <1>9 DEF HeartbeatRenews
  <2>2. l \in disk.leases /\ prune(disk).leases \subseteq disk.leases BY DEF Mine, prune
  <2>3. /\ Renewed(l, ttl).id = l.id /\ Renewed(l, ttl).tok = l.tok
        /\ Renewed(l, ttl).parent = l.parent
    BY <2>2, <1>a, RenewedFields DEF Store
  <2>4. work' = work /\ minted' = minted BY <1>9 DEF HeartbeatRenews, Atomic
  <2>5. /\ disk'.leases \subseteq disk.leases \cup {Renewed(l, ttl)}
        /\ disk'.queue = disk.queue
    BY <2>1, <2>2
  <2> QED BY <1>b, <2>2, <2>3, <2>4, <2>5 DEF NumberedTo
<1>10. ASSUME NEW o \in Owners, AssertActive(o)
      PROVE  NumberedTo(disk', minted') /\ NumberedTo(work', minted')
  <2>1. /\ disk'.leases \subseteq disk.leases /\ disk'.queue = disk.queue
        /\ work' = work /\ minted' = minted
    BY <1>10 DEF AssertActive, Atomic, prune
  <2> QED BY <1>a, <1>b, <2>1, NumberedSub
<1>11. ASSUME NEW o \in Owners, BrokerCrash(o)
      PROVE  NumberedTo(disk', minted') /\ NumberedTo(work', minted')
  <2>1. disk' = disk /\ (work' = work \/ work' = EmptyStore) /\ minted' = minted
    BY <1>11 DEF BrokerCrash
  <2> QED BY <2>1, <1>b, <1>c
<1>12. CASE BrokerTick
  <2>1. ASSUME NEW s \in Store, NumberedTo(s, minted) PROVE NumberedTo(Older(s), minted)
    <3>1. s.leases \subseteq BrokerLease BY DEF Store
    <3>2. Older(s).leases = {Aged(l) : l \in s.leases} /\ Older(s).queue = s.queue
      BY DEF Older
    <3>3. \A x \in Older(s).leases : \E y \in s.leases :
            x.id = y.id /\ x.tok = y.tok /\ x.parent = y.parent
      BY <3>1, <3>2, AgedFields
    <3> QED BY <2>1, <3>2, <3>3 DEF NumberedTo
  <2>2. disk' = Older(disk) /\ work' = Older(work) /\ minted' = minted
    BY <1>12 DEF BrokerTick
  <2> QED BY <1>a, <1>b, <2>1, <2>2
<1> QED
  BY <1>0, <1>1, <1>3, <1>4, <1>5, <1>6, <1>7, <1>8, <1>9, <1>10, <1>11,
     <1>12, NextSplit

-----------------------------------------------------------------------------
(* Admission: counting leases *)

\* Nobody gets older into somebody else: as many leases after a tick as before.
LEMMA AgedCount ==
  ASSUME NEW L \in SUBSET BrokerLease, IsFiniteSet(L),
         \A x, y \in L : x.id = y.id => x = y
  PROVE  /\ IsFiniteSet({Aged(l) : l \in L})
         /\ Cardinality({Aged(l) : l \in L}) = Cardinality(L)
<1> DEFINE T == {Aged(l) : l \in L}
           f == [l \in L |-> Aged(l)]
<1>1. \A l \in L : Aged(l).id = l.id BY AgedFields
<1>2. \A x, y \in L : Aged(x) = Aged(y) => x = y BY <1>1
<1>3. f \in Bijection(L, T)
  <2>1. f \in [L -> T] OBVIOUS
  <2>2. f \in Injection(L, T)
    BY <1>2, <2>1 DEF Injection, IsInjective
  <2>3. f \in Surjection(L, T)
    BY <2>1 DEF Surjection
  <2> QED BY <2>2, <2>3 DEF Bijection
<1>4. ExistsBijection(L, T) BY <1>3 DEF ExistsBijection
<1> QED BY <1>4, FS_Bijection

\* ... and as many of each kind.
LEMMA AgedKinds ==
  ASSUME NEW L \in SUBSET BrokerLease, IsFiniteSet(L),
         \A x, y \in L : x.id = y.id => x = y, NEW k
  PROVE  Cardinality(OfKind({Aged(l) : l \in L}, k)) = Cardinality(OfKind(L, k))
<1> DEFINE K == OfKind(L, k)
<1>1. K \in SUBSET L /\ K \in SUBSET BrokerLease BY DEF OfKind
<1>2. IsFiniteSet(K) BY <1>1, FS_Subset
<1>3. Cardinality({Aged(l) : l \in K}) = Cardinality(K)
  <2> HIDE DEF K
  <2> QED BY <1>1, <1>2, AgedCount
<1>4. OfKind({Aged(l) : l \in L}, k) = {Aged(l) : l \in K}
  <2>1. \A l \in L : Aged(l).kind = l.kind BY AgedFields
  <2> QED BY <2>1 DEF OfKind
<1> QED BY <1>3, <1>4

\* More leases of a kind leave no less of its limit used.
LEMMA CapGrows ==
  ASSUME NEW S, NEW T, IsFiniteSet(T), S \subseteq T, NEW k \in Kinds,
         NEW lim \in Limits, kindCapReached(S, k, lim)
  PROVE  kindCapReached(T, k, lim)
<1>1. IsFiniteSet(OfKind(T, k))
  <2>1. OfKind(T, k) \in SUBSET T BY DEF OfKind
  <2> QED BY <2>1, FS_Subset
<1>2. OfKind(S, k) \in SUBSET OfKind(T, k) BY DEF OfKind
<1>3. IsFiniteSet(OfKind(S, k)) /\ Cardinality(OfKind(S, k)) <= Cardinality(OfKind(T, k))
  BY <1>1, <1>2, FS_Subset
<1>4. Cardinality(OfKind(S, k)) \in Nat /\ Cardinality(OfKind(T, k)) \in Nat
  BY <1>1, <1>3, FS_CardinalityType
<1>5. lim.kind[k] \in Nat BY DEF Limits
<1> QED BY <1>3, <1>4, <1>5 DEF kindCapReached

\* One element more counts for at most one.
LEMMA AddOne ==
  ASSUME NEW S, IsFiniteSet(S), NEW x
  PROVE  /\ IsFiniteSet(S \cup {x})
         /\ Cardinality(S) \in Nat /\ Cardinality(S \cup {x}) \in Nat
         /\ Cardinality(S \cup {x}) <= Cardinality(S) + 1
<1>1. IsFiniteSet(S \cup {x}) BY FS_AddElement
<1>2. Cardinality(S) \in Nat /\ Cardinality(S \cup {x}) \in Nat
  BY <1>1, FS_CardinalityType
<1>3. Cardinality(S \cup {x}) = IF x \in S THEN Cardinality(S) ELSE Cardinality(S) + 1
  BY FS_AddElement
<1> QED BY <1>1, <1>2, <1>3

\* One lease more than what had room is within the limits.
LEMMA RoomForOne ==
  ASSUME NEW L \in SUBSET BrokerLease, IsFiniteSet(L), NEW n \in BrokerLease,
         NEW lim \in Limits, ~NoCapacity(L, n.kind, lim)
  PROVE  /\ lim.mem /\ IsFiniteSet(L \cup {n})
         /\ Cardinality(L \cup {n}) <= lim.total
         /\ Cardinality(OfKind(L \cup {n}, n.kind)) <= lim.kind[n.kind]
         /\ \A k : k # n.kind => OfKind(L \cup {n}, k) = OfKind(L, k)
<1> DEFINE K == OfKind(L, n.kind)
<1>1. lim.mem /\ ~(Cardinality(L) >= lim.total) /\ ~(Cardinality(K) >= lim.kind[n.kind])
  BY DEF NoCapacity, kindCapReached
<1>2. lim.total \in Nat /\ lim.kind[n.kind] \in Nat
  <2>1. n.kind \in Kinds BY DEF BrokerLease
  <2> QED BY <2>1 DEF Limits
<1>3. IsFiniteSet(K)
  <2>1. K \in SUBSET L BY DEF OfKind
  <2> QED BY <2>1, FS_Subset
<1>4. /\ IsFiniteSet(L \cup {n})
      /\ Cardinality(L) \in Nat /\ Cardinality(L \cup {n}) \in Nat
      /\ Cardinality(L \cup {n}) <= Cardinality(L) + 1
  BY AddOne
<1>5. OfKind(L \cup {n}, n.kind) = K \cup {n} BY DEF OfKind
<1>6. /\ Cardinality(K) \in Nat /\ Cardinality(K \cup {n}) \in Nat
      /\ Cardinality(K \cup {n}) <= Cardinality(K) + 1
  <2> HIDE DEF K
  <2> QED BY <1>3, AddOne
<1>7. Cardinality(L \cup {n}) <= lim.total
  BY <1>1, <1>2, <1>4
<1>8. Cardinality(K \cup {n}) <= lim.kind[n.kind]
  <2> HIDE DEF K
  <2> QED BY <1>1, <1>2, <1>6
<1>9. \A k : k # n.kind => OfKind(L \cup {n}, k) = OfKind(L, k) BY DEF OfKind
<1> QED BY <1>1, <1>4, <1>5, <1>7, <1>8, <1>9

\* The operation that holds the lock has read limits.
LEMMA LimType == ASSUME BrokerTypeOK, Busy PROVE op.lim \in Limits
<1>1. op \in BrokerOp BY DEF BrokerTypeOK, Busy, NoOp
<1> QED BY <1>1 DEF BrokerOp

\* No step gives the store infinitely many leases.
LEMMA FiniteNext ==
  ASSUME BrokerInv, AdmissionInv, [BrokerNext]_brokerVars
  PROVE  IsFiniteSet(disk.leases)' /\ IsFiniteSet(work.leases)'
<1>a. /\ BrokerTypeOK /\ FreshIds(work) /\ FreshIds(disk)
      /\ disk.leases \in SUBSET BrokerLease /\ work.leases \in SUBSET BrokerLease
  BY DEF BrokerInv, BrokerTypeOK, Store
<1>b. IsFiniteSet(disk.leases) /\ IsFiniteSet(work.leases) BY DEF AdmissionInv
<1>c. IsFiniteSet(EmptyStore.leases) BY FS_EmptySet DEF EmptyStore
<1>0. CASE UNCHANGED brokerVars BY <1>0, <1>b DEF brokerVars
<1>1. ASSUME NEW r \in work.queue, PromoteDrop(r) \/ PromoteSkip(r)
      PROVE  IsFiniteSet(disk'.leases) /\ IsFiniteSet(work'.leases)
  BY <1>1, <1>b DEF PromoteDrop, PromoteSkip
<1>3. ASSUME NEW r \in work.queue, PromoteGrant(r)
      PROVE  IsFiniteSet(disk'.leases) /\ IsFiniteSet(work'.leases)
  <2>1. disk' = disk /\ work'.leases = work.leases \cup {leaseFrom(r, minted + 1)}
    BY <1>3 DEF PromoteGrant
  <2> QED BY <1>b, <2>1, FS_AddElement
<1>4. CASE EnterStep
  <2>1. disk' = disk /\ work'.leases \in SUBSET disk.leases
    BY <1>4, <1>a, EnterFacts
  <2> QED BY <2>1, <1>b, FS_Subset
<1>5. CASE PlainFinish
  <2>1. disk' = work /\ work' = EmptyStore BY <1>5, PlainFinishFacts
  <2> QED BY <2>1, <1>b, <1>c
<1>6. CASE QuietStep
  <2>1. disk' = disk /\ work' = work BY <1>6, QuietFacts
  <2> QED BY <2>1, <1>b
<1>7. CASE RequestQueued
  <2>1. disk'.leases = work.leases /\ work' = EmptyStore
    BY <1>7 DEF RequestQueued, Leave
  <2> QED BY <1>b, <1>c, <2>1
<1>8. CASE RequestGranted
  <2>1. PICK d \in RequestDepth :
          Leave([leases |-> work.leases \cup {leaseFrom(NewRequest(d), minted + 2)},
                 queue |-> work.queue])
    BY <1>8 DEF RequestGranted
  <2>2. /\ disk'.leases = work.leases \cup {leaseFrom(NewRequest(d), minted + 2)}
        /\ work' = EmptyStore
    BY <2>1 DEF Leave
  <2> QED BY <1>b, <1>c, <2>2, FS_AddElement
<1>9. ASSUME NEW o \in Owners, HeartbeatRenews(o)
      PROVE  IsFiniteSet(disk'.leases) /\ IsFiniteSet(work'.leases)
  <2>1. PICK l \in Mine(o), ttl \in Ttls :
          disk' = [leases |-> (prune(disk).leases \ {l}) \cup {Renewed(l, ttl)},
                   queue |-> disk.queue]
    BY <1>9 DEF HeartbeatRenews
  <2>2. prune(disk).leases \ {l} \in SUBSET disk.leases BY DEF prune
  <2>3. IsFiniteSet(prune(disk).leases \ {l}) BY <1>b, <2>2, FS_Subset
  <2>4. work' = work BY <1>9 DEF HeartbeatRenews, Atomic
  <2> QED BY <1>b, <2>1, <2>3, <2>4, FS_AddElement
<1>10. ASSUME NEW o \in Owners, AssertActive(o)
      PROVE  IsFiniteSet(disk'.leases) /\ IsFiniteSet(work'.leases)
  <2>1. disk'.leases \in SUBSET disk.leases /\ work' = work
    BY <1>10 DEF AssertActive, Atomic, prune
  <2> QED BY <1>b, <2>1, FS_Subset
<1>11. ASSUME NEW o \in Owners, BrokerCrash(o)
      PROVE  IsFiniteSet(disk'.leases) /\ IsFiniteSet(work'.leases)
  <2>1. disk' = disk /\ (work' = work \/ work' = EmptyStore) BY <1>11 DEF BrokerCrash
  <2> QED BY <2>1, <1>b, <1>c
<1>12. CASE BrokerTick
  <2>1. /\ disk'.leases = {Aged(l) : l \in disk.leases}
        /\ work'.leases = {Aged(l) : l \in work.leases}
    BY <1>12 DEF BrokerTick, Older
  <2> QED BY <1>a, <1>b, <2>1, AgedCount DEF FreshIds
<1> QED
  BY <1>0, <1>1, <1>3, <1>4, <1>5, <1>6, <1>7, <1>8, <1>9, <1>10, <1>11,
     <1>12, NextSplit

-----------------------------------------------------------------------------
(* Admission: one pass of promoteQueued *)

\* PassInOrder for the leases D of the file and a working copy of leases W and
\* queue Q, with the limits and the cursor as parameters.
AddedIn(D, W) == {l \in W : \A x \in D : x.id # l.id}
InOrder(D, W, Q, lim, c) ==
  /\ AddedIn(D, W) # {} => lim.mem /\ Cardinality(W) <= lim.total
  /\ \A l \in AddedIn(D, W) :
       /\ Cardinality(OfKind(W, l.kind)) <= lim.kind[l.kind]
       /\ \A r \in Q : r.kind = l.kind => l.tok < r.tok
       /\ l.parent # NoLease => \E p \in W : p.id = l.parent
  /\ \A r \in Q : r.tok <= c => kindCapReached(W, r.kind, lim)

\* The two are the same.
LEMMA PassIsInOrder ==
  PassInOrder <=> InOrder(disk.leases, work.leases, work.queue, op.lim, cursor)
BY DEF PassInOrder, InOrder, AddedIn, Added

\* A request that has room, and whose parent is there, can be granted in order.
LEMMA GrantInOrder ==
  ASSUME NEW D, NEW W \in SUBSET BrokerLease, IsFiniteSet(W), NEW Q \in SUBSET Request,
         NEW lim \in Limits, NEW c \in Nat, InOrder(D, W, Q, lim, c),
         NEW r \in Q, r.tok > c, \A q \in Q : q.tok > c => r.tok <= q.tok,
         \A x, y \in Q : x.tok = y.tok => x = y,
         NEW n \in BrokerLease, n.tok = r.tok, n.kind = r.kind, n.parent = r.parent,
         ~NoCapacity(W, n.kind, lim),
         n.parent # NoLease => \E p \in W : p.id = n.parent
  PROVE  InOrder(D, W \cup {n}, Q \ {r}, lim, c)
<1>1. /\ lim.mem /\ IsFiniteSet(W \cup {n})
      /\ Cardinality(W \cup {n}) <= lim.total
      /\ Cardinality(OfKind(W \cup {n}, n.kind)) <= lim.kind[n.kind]
      /\ \A k : k # n.kind => OfKind(W \cup {n}, k) = OfKind(W, k)
  BY RoomForOne
<1>2. AddedIn(D, W \cup {n}) \subseteq AddedIn(D, W) \cup {n} BY DEF AddedIn
<1>3. ASSUME NEW l \in AddedIn(D, W \cup {n})
      PROVE  Cardinality(OfKind(W \cup {n}, l.kind)) <= lim.kind[l.kind]
  <2>1. CASE l.kind = n.kind BY <1>1, <2>1
  <2>2. CASE l.kind # n.kind
    <3>1. l \in AddedIn(D, W) BY <1>2, <2>2
    <3> QED BY <1>1, <2>2, <3>1 DEF InOrder
  <2> QED BY <2>1, <2>2
<1>4. \A q \in Q : q.tok \in Nat /\ q.kind \in Kinds BY DEF Request
<1>5. ASSUME NEW q \in Q \ {r}, q.kind = n.kind PROVE n.tok < q.tok
  <2>1. ~kindCapReached(W, n.kind, lim) BY DEF NoCapacity
  <2>2. q.tok > c BY <1>4, <1>5, <2>1 DEF InOrder
  <2>3. r.tok <= q.tok /\ r.tok # q.tok BY <1>5, <2>2
  <2> QED BY <1>4, <2>3
<1>6. ASSUME NEW l \in AddedIn(D, W \cup {n}), NEW q \in Q \ {r}, q.kind = l.kind
      PROVE  l.tok < q.tok
  <2>1. CASE l = n BY <1>5, <1>6, <2>1
  <2>2. CASE l \in AddedIn(D, W) BY <1>6, <2>2 DEF InOrder
  <2> QED BY <1>2, <2>1, <2>2
<1>7. ASSUME NEW l \in AddedIn(D, W \cup {n}), l.parent # NoLease
      PROVE  \E p \in W \cup {n} : p.id = l.parent
  <2>1. CASE l = n BY <1>7, <2>1
  <2>2. CASE l \in AddedIn(D, W) BY <1>7, <2>2 DEF InOrder
  <2> QED BY <1>2, <2>1, <2>2
<1>8. ASSUME NEW q \in Q \ {r}, q.tok <= c PROVE kindCapReached(W \cup {n}, q.kind, lim)
  <2>1. kindCapReached(W, q.kind, lim) BY <1>8 DEF InOrder
  <2>2. q.kind \in Kinds BY <1>4
  <2> QED BY <1>1, <2>1, <2>2, CapGrows
<1> QED BY <1>1, <1>3, <1>6, <1>7, <1>8 DEF InOrder

\* Time does not disturb the order of a pass.
LEMMA AgedInOrder ==
  ASSUME NEW D \in SUBSET BrokerLease, NEW W \in SUBSET BrokerLease, IsFiniteSet(W),
         \A x, y \in W : x.id = y.id => x = y,
         NEW Q, NEW lim, NEW c, InOrder(D, W, Q, lim, c)
  PROVE  InOrder({Aged(l) : l \in D}, {Aged(l) : l \in W}, Q, lim, c)
<1> DEFINE A == {Aged(l) : l \in D}
           B == {Aged(l) : l \in W}
<1>1. Cardinality(B) = Cardinality(W) BY AgedCount
<1>2. \A k : Cardinality(OfKind(B, k)) = Cardinality(OfKind(W, k)) BY AgedKinds
<1>3. \A a \in AddedIn(A, B) : \E l \in AddedIn(D, W) :
        a.kind = l.kind /\ a.tok = l.tok /\ a.parent = l.parent
  <2> TAKE a \in AddedIn(A, B)
  <2>1. PICK l \in W : a = Aged(l) BY DEF AddedIn
  <2>2. a.id = l.id /\ a.kind = l.kind /\ a.tok = l.tok /\ a.parent = l.parent
    BY <2>1, AgedFields
  <2>3. \A x \in D : x.id # l.id
    <3> TAKE x \in D
    <3>1. Aged(x) \in A /\ Aged(x).id = x.id BY AgedFields
    <3> QED BY <2>2, <3>1 DEF AddedIn
  <2>4. l \in AddedIn(D, W) BY <2>3 DEF AddedIn
  <2> WITNESS l \in AddedIn(D, W)
  <2> QED BY <2>2
<1>4. \A p \in W : \E b \in B : b.id = p.id BY AgedFields
<1> HIDE DEF A, B
<1>5. AddedIn(A, B) # {} => lim.mem /\ Cardinality(B) <= lim.total
  BY <1>1, <1>3 DEF InOrder
<1>6. ASSUME NEW a \in AddedIn(A, B)
      PROVE  /\ Cardinality(OfKind(B, a.kind)) <= lim.kind[a.kind]
             /\ \A r \in Q : r.kind = a.kind => a.tok < r.tok
             /\ a.parent # NoLease => \E p \in B : p.id = a.parent
  <2>1. PICK l \in AddedIn(D, W) : a.kind = l.kind /\ a.tok = l.tok /\ a.parent = l.parent
    BY <1>3
  <2>2. /\ Cardinality(OfKind(W, l.kind)) <= lim.kind[l.kind]
        /\ \A r \in Q : r.kind = l.kind => l.tok < r.tok
        /\ l.parent # NoLease => \E p \in W : p.id = l.parent
    BY DEF InOrder
  <2> QED BY <1>2, <1>4, <2>1, <2>2
<1>7. \A r \in Q : r.tok <= c => kindCapReached(B, r.kind, lim)
  BY <1>2 DEF InOrder, kindCapReached
<1> QED BY <1>5, <1>6, <1>7 DEF InOrder, A, B

\* Every step of a pass, and everything that happens beside it, keeps it in order.
LEMMA PassNext ==
  ASSUME BrokerInv, AdmissionInv, [BrokerNext]_brokerVars, Busy'
  PROVE  PassInOrder'
<1>a. /\ BrokerTypeOK /\ FreshIds(work) /\ FreshIds(disk) /\ cursor \in Nat /\ minted \in Nat
      /\ disk.leases \in SUBSET BrokerLease /\ work.leases \in SUBSET BrokerLease
      /\ work.queue \in SUBSET Request /\ disk.queue \in SUBSET Request
  BY DEF BrokerInv, BrokerTypeOK, Store
<1>b. IsFiniteSet(work.leases) /\ Numbered(disk) /\ Numbered(work) BY DEF AdmissionInv
<1>c. Busy => InOrder(disk.leases, work.leases, work.queue, op.lim, cursor)
  BY PassIsInOrder DEF AdmissionInv
<1> SUFFICES InOrder(disk'.leases, work'.leases, work'.queue, op'.lim, cursor')
  BY DEF PassInOrder, InOrder, AddedIn, Added
<1>d. ASSUME op' = NoOp PROVE FALSE BY <1>d DEF Busy, NoOp
<1>e. ASSUME op' = op PROVE Busy BY <1>e DEF Busy
<1>0. CASE UNCHANGED brokerVars BY <1>0, <1>c, <1>e DEF brokerVars
<1>1. ASSUME NEW r \in work.queue, PromoteDrop(r)
      PROVE  InOrder(disk'.leases, work'.leases, work'.queue, op'.lim, cursor')
  <2>1. /\ disk' = disk /\ op' = op /\ cursor' = cursor
        /\ work'.leases = work.leases /\ work'.queue \subseteq work.queue
    BY <1>1 DEF PromoteDrop
  <2>2. InOrder(disk.leases, work.leases, work.queue, op.lim, cursor) BY <1>c, <1>e, <2>1
  <2> QED BY <2>1, <2>2 DEF InOrder
<1>2. ASSUME NEW r \in work.queue, PromoteSkip(r)
      PROVE  InOrder(disk'.leases, work'.leases, work'.queue, op'.lim, cursor')
  <2>1. /\ disk' = disk /\ op' = op /\ cursor' = r.tok /\ work' = work /\ NextQueued(r)
        /\ kindCapReached(work.leases, r.kind, op.lim)
    BY <1>2 DEF PromoteSkip
  <2>2. InOrder(disk.leases, work.leases, work.queue, op.lim, cursor) BY <1>c, <1>e, <2>1
  <2>3. ASSUME NEW q \in work.queue, q.tok <= r.tok
        PROVE  kindCapReached(work.leases, q.kind, op.lim)
    <3>1. q.tok \in Nat /\ r.tok \in Nat BY <1>a DEF Request
    <3>2. CASE q.tok <= cursor BY <2>2, <3>2 DEF InOrder
    <3>3. CASE q.tok > cursor
      <4>1. q.tok = r.tok BY <2>1, <2>3, <3>1, <3>3 DEF NextQueued
      <4>2. q = r BY <1>b, <4>1 DEF Numbered
      <4> QED BY <2>1, <4>2
    <3> QED BY <1>a, <3>1, <3>2, <3>3
  <2> QED BY <2>1, <2>2, <2>3 DEF InOrder
<1>3. ASSUME NEW r \in work.queue, PromoteGrant(r)
      PROVE  InOrder(disk'.leases, work'.leases, work'.queue, op'.lim, cursor')
  <2> DEFINE n == leaseFrom(r, minted + 1)
  <2>1. /\ disk' = disk /\ op' = op /\ cursor' = cursor
        /\ work'.leases = work.leases \cup {n} /\ work'.queue = work.queue \ {r}
        /\ NextQueued(r) /\ ~ParentGone(r) /\ ~NoCapacity(work.leases, r.kind, op.lim)
    BY <1>3 DEF PromoteGrant
  <2>2. n.tok = r.tok /\ n.kind = r.kind /\ n.parent = r.parent BY DEF leaseFrom
  <2>3. n \in BrokerLease
    <3>1. r \in Request /\ minted + 1 \in Nat BY <1>a
    <3> QED BY <3>1, LeaseFromType
  <2> HIDE DEF n
  <2>4. InOrder(disk.leases, work.leases, work.queue, op.lim, cursor) BY <1>c, <1>e, <2>1
  <2>5. op.lim \in Limits BY <1>a, <1>e, <2>1, LimType
  <2>6. \A x, y \in work.queue : x.tok = y.tok => x = y BY <1>b DEF Numbered
  <2>7. r.tok > cursor /\ \A q \in work.queue : q.tok > cursor => r.tok <= q.tok
    BY <2>1 DEF NextQueued
  <2>8. n.parent # NoLease => \E p \in work.leases : p.id = n.parent
    BY <2>1, <2>2 DEF ParentGone
  <2>9. ~NoCapacity(work.leases, n.kind, op.lim) BY <2>1, <2>2
  <2>10. InOrder(disk.leases, work.leases \cup {n}, work.queue \ {r}, op.lim, cursor)
    BY <1>a, <1>b, <2>2, <2>3, <2>4, <2>5, <2>6, <2>7, <2>8, <2>9, GrantInOrder
  <2> QED BY <2>1, <2>10
<1>4. CASE EnterStep
  <2>1. disk' = disk /\ work'.leases \subseteq disk.leases /\ work'.queue \subseteq disk.queue
    BY <1>4, <1>a, EnterFacts
  <2>2. cursor' = 0
    BY <1>4 DEF EnterStep, SnapshotEnter, RequestEnter, PollEnter, CancelEnter,
                ReleaseEnter, Enter
  <2>3. AddedIn(disk'.leases, work'.leases) = {} BY <2>1 DEF AddedIn
  <2>4. \A r \in work'.queue : r.tok \in 1..minted BY <1>b, <2>1 DEF Numbered
  <2>5. \A r \in work'.queue : ~(r.tok <= cursor') BY <1>a, <2>2, <2>4
  <2> QED BY <2>3, <2>5 DEF InOrder
<1>5. CASE PlainFinish BY <1>5, <1>d, PlainFinishFacts
<1>6. CASE QuietStep
  <2>1. disk' = disk /\ work' = work /\ op' = op BY <1>6, QuietFacts
  <2>2. cursor' = cursor
    BY <1>6 DEF QuietStep, HeartbeatRefused, ReleaseRefused, LockTimeout, Atomic
  <2> QED BY <1>c, <1>e, <2>1, <2>2
<1>7. CASE RequestQueued \/ RequestGranted
  BY <1>7, <1>d DEF RequestQueued, RequestGranted, Leave
<1>9. ASSUME NEW o \in Owners, HeartbeatRenews(o) \/ AssertActive(o) PROVE FALSE
  BY <1>9, <1>e DEF HeartbeatRenews, AssertActive, Atomic
<1>11. ASSUME NEW o \in Owners, BrokerCrash(o)
      PROVE  InOrder(disk'.leases, work'.leases, work'.queue, op'.lim, cursor')
  <2>1. disk' = disk /\ UNCHANGED <<op, work, cursor>>
    BY <1>11, <1>d DEF BrokerCrash
  <2> QED BY <1>c, <1>e, <2>1
<1>12. CASE BrokerTick
  <2>1. /\ disk'.leases = {Aged(l) : l \in disk.leases}
        /\ work'.leases = {Aged(l) : l \in work.leases}
        /\ work'.queue = work.queue /\ op' = op /\ cursor' = cursor
    BY <1>12 DEF BrokerTick, Older
  <2>2. InOrder(disk.leases, work.leases, work.queue, op.lim, cursor) BY <1>c, <1>e, <2>1
  <2>3. \A x, y \in work.leases : x.id = y.id => x = y BY <1>a DEF FreshIds
  <2>4. InOrder({Aged(l) : l \in disk.leases}, {Aged(l) : l \in work.leases},
                work.queue, op.lim, cursor)
    BY <1>a, <1>b, <2>2, <2>3, AgedInOrder
  <2> QED BY <2>1, <2>4
<1> QED
  BY <1>0, <1>1, <1>2, <1>3, <1>4, <1>5, <1>6, <1>7, <1>9, <1>11,
     <1>12, NextSplit

\* The invariant of admission holds.
THEOREM AdmissionInvariant == BrokerSpec => []AdmissionInv
<1>1. BrokerInit => AdmissionInv
  BY FS_EmptySet DEF BrokerInit, AdmissionInv, Chain, Numbered, Busy, NoOp, EmptyStore, NoHandle, NoLease
<1>2. BrokerInv /\ AdmissionInv /\ [BrokerNext]_brokerVars => AdmissionInv'
  <2> SUFFICES ASSUME BrokerInv, AdmissionInv, [BrokerNext]_brokerVars PROVE AdmissionInv'
    OBVIOUS
  <2>1. Chain(disk)' /\ Chain(work)' BY ChainNext
  <2>2. Numbered(disk)' /\ Numbered(work)' BY NumberedNext
  <2>3. Handed' /\ ParentDrawn' BY HandedNext
  <2>4. IsFiniteSet(disk.leases)' /\ IsFiniteSet(work.leases)' BY FiniteNext
  <2>5. Busy' => PassInOrder' BY PassNext
  <2> QED BY <2>1, <2>2, <2>3, <2>4, <2>5 DEF AdmissionInv, Handed, ParentDrawn
<1> QED BY <1>1, <1>2, BrokerInvariant, PTL DEF BrokerSpec

\* A non-empty set of numbers has a smallest one.
LEMMA Smallest ==
  ASSUME NEW S \in SUBSET Nat, S # {}
  PROVE  \E m \in S : \A n \in S : m <= n
<1>1. PICK m \in S : \A n \in S : ~ (<<n, m>> \in OpToRel(<, Nat))
  BY NatLessThanWellFounded, WFMin
<1>2. \A n \in S : ~ (n < m)
  BY <1>1 DEF OpToRel
<1> QED BY <1>2

\* When the loop is done and a kind still has room, nothing of that kind is queued.
LEMMA NobodyPassedOver ==
  ASSUME BrokerInv, AdmissionInv, Busy, LoopDone, NEW k,
         ~NoCapacity(work.leases, k, op.lim), NEW r \in work.queue, r.kind = k
  PROVE  FALSE
<1>1. \A q \in work.queue : q.tok \in Nat
  BY DEF BrokerInv, BrokerTypeOK, Store, Request
<1>2. ~kindCapReached(work.leases, k, op.lim) BY DEF NoCapacity
<1>3. ~(r.tok <= cursor) BY <1>2 DEF AdmissionInv, PassInOrder
<1>4. cursor \in Nat BY DEF BrokerInv, BrokerTypeOK
<1> DEFINE Rest == {q.tok : q \in {x \in work.queue : x.tok > cursor}}
<1>5. Rest \in SUBSET Nat /\ r.tok \in Rest BY <1>1, <1>3, <1>4
<1>6. PICK m \in Rest : \A n \in Rest : m <= n BY <1>5, Smallest
<1>7. PICK q \in work.queue : q.tok > cursor /\ q.tok = m BY <1>6
<1>8. NextQueued(q) BY <1>6, <1>7 DEF NextQueued
<1>9. LoopStops(q) BY <1>8 DEF LoopDone
<1>10. ~op.lim.mem \/ Cardinality(work.leases) >= op.lim.total
  BY <1>9 DEF LoopStops, NoCapacity
<1> QED BY <1>10 DEF NoCapacity

\* What a step that adds leases promises: the three action properties.
AdmitsInOrder ==
  /\ NewLeases # {} =>
       /\ op.lim.mem
       /\ Cardinality(disk'.leases) <= op.lim.total
       /\ \A l \in NewLeases :
            Cardinality(OfKind(disk'.leases, l.kind)) <= op.lim.kind[l.kind]
  /\ \A l \in NewLeases, r \in disk'.queue : r.kind = l.kind => l.tok < r.tok
  /\ \A l \in NewLeases :
       l.parent # NoLease => \E p \in disk'.leases : p.id = l.parent

\* The end of an operation writes what its pass has granted, and at most one
\* lease of its own.
LEMMA WritesInOrder ==
  ASSUME BrokerInv, AdmissionInv, [BrokerNext]_brokerVars
  PROVE  AdmitsInOrder
<1>a. /\ BrokerTypeOK /\ FreshIds(work) /\ FreshIds(disk) /\ minted \in Nat
      /\ disk.leases \in SUBSET BrokerLease /\ work.leases \in SUBSET BrokerLease
      /\ work.queue \in SUBSET Request
  BY DEF BrokerInv, BrokerTypeOK, Store
<1>b. IsFiniteSet(work.leases) /\ Numbered(work) BY DEF AdmissionInv
<1>c. Busy => PassInOrder BY DEF AdmissionInv
<1>d. ASSUME \A l \in disk'.leases : \E x \in disk.leases : x.id = l.id PROVE AdmitsInOrder
  <2>1. NewLeases = {} BY <1>d DEF NewLeases
  <2> QED BY <2>1 DEF AdmitsInOrder
<1>e. ASSUME disk' = disk PROVE AdmitsInOrder BY <1>d, <1>e
<1>1. CASE PlainFinish
  <2>1. disk' = work /\ Busy BY <1>1, PlainFinishFacts
  <2>2. NewLeases = Added BY <2>1 DEF NewLeases, Added
  <2> QED BY <1>c, <2>1, <2>2 DEF AdmitsInOrder, PassInOrder
<1>2. CASE RequestQueued
  <2>1. PICK d \in RequestDepth :
          Leave([leases |-> work.leases, queue |-> work.queue \cup {NewRequest(d)}])
    BY <1>2 DEF RequestQueued
  <2>2. disk'.leases = work.leases /\ disk'.queue = work.queue \cup {NewRequest(d)} /\ Busy
    BY <1>2, <2>1 DEF Leave, RequestQueued, RequestIsNew, Finishing
  <2>3. NewLeases = Added BY <2>2 DEF NewLeases, Added
  <2>4. NewRequest(d).tok = minted + 1 BY DEF NewRequest
  <2>5. \A l \in Added : l.tok < NewRequest(d).tok
    <3>1. \A l \in work.leases : l.tok \in 1..minted BY <1>b DEF Numbered
    <3> QED BY <1>a, <2>4, <3>1 DEF Added
  <2>6. \A l \in NewLeases, r \in disk'.queue : r.kind = l.kind => l.tok < r.tok
    BY <1>c, <2>2, <2>3, <2>5 DEF PassInOrder
  <2> QED BY <1>c, <2>2, <2>3, <2>6 DEF AdmitsInOrder, PassInOrder
<1>3. CASE RequestGranted
  <2>1. PICK d \in RequestDepth :
          Leave([leases |-> work.leases \cup {leaseFrom(NewRequest(d), minted + 2)},
                 queue |-> work.queue])
    BY <1>3 DEF RequestGranted
  <2> DEFINE n == leaseFrom(NewRequest(d), minted + 2)
  <2>2. disk'.leases = work.leases \cup {n} /\ disk'.queue = work.queue
    BY <2>1 DEF Leave
  <2>3. n.kind = op.kind /\ n.parent = op.parent BY DEF leaseFrom, NewRequest
  <2>4. /\ Busy /\ op.type = "request" /\ LoopDone /\ ~Rejected
        /\ ~NoCapacity(work.leases, op.kind, op.lim)
    BY <1>3 DEF RequestGranted, RequestIsNew, Finishing
  <2>5. n \in BrokerLease
    <3>1. disk' \in Store BY <1>a, NextType DEF BrokerTypeOK
    <3> QED BY <2>2, <3>1 DEF Store
  <2> HIDE DEF n
  <2>6. op.lim \in Limits BY <1>a, <2>4, LimType
  <2>7. /\ op.lim.mem
        /\ Cardinality(disk'.leases) <= op.lim.total
        /\ Cardinality(OfKind(disk'.leases, n.kind)) <= op.lim.kind[n.kind]
        /\ \A k : k # n.kind => OfKind(disk'.leases, k) = OfKind(work.leases, k)
    BY <1>a, <1>b, <2>2, <2>3, <2>4, <2>5, <2>6, RoomForOne
  <2>8. NewLeases \subseteq Added \cup {n} BY <2>2 DEF NewLeases, Added
  <2>9. PassInOrder BY <1>c, <2>4
  <2>10. ASSUME NEW l \in NewLeases
         PROVE  Cardinality(OfKind(disk'.leases, l.kind)) <= op.lim.kind[l.kind]
    <3>1. CASE l.kind = n.kind BY <2>7, <3>1
    <3>2. CASE l.kind # n.kind
      <4>1. l \in Added BY <2>8, <3>2
      <4> QED BY <2>7, <2>9, <3>2, <4>1 DEF PassInOrder
    <3> QED BY <3>1, <3>2
  <2>11. ASSUME NEW l \in NewLeases, NEW r \in disk'.queue, r.kind = l.kind
         PROVE  l.tok < r.tok
    <3>1. CASE l = n
      BY <2>2, <2>3, <2>4, <2>11, <3>1, NobodyPassedOver
    <3>2. CASE l \in Added BY <2>2, <2>9, <2>11, <3>2 DEF PassInOrder
    <3> QED BY <2>8, <3>1, <3>2
  <2>12. ASSUME NEW l \in NewLeases, l.parent # NoLease
         PROVE  \E p \in disk'.leases : p.id = l.parent
    <3>1. CASE l = n
      <4>1. \E e \in ParentDepth : TRUE BY <2>3, <2>4, <2>12, <3>1 DEF Rejected
      <4>2. \E p \in work.leases : p.id = op.parent BY <4>1 DEF ParentDepth
      <4> QED BY <2>2, <2>3, <3>1, <4>2
    <3>2. CASE l \in Added BY <2>2, <2>9, <2>12, <3>2 DEF PassInOrder
    <3> QED BY <2>8, <3>1, <3>2
  <2> QED BY <2>7, <2>10, <2>11, <2>12 DEF AdmitsInOrder
<1>4. ASSUME NEW o \in Owners, HeartbeatRenews(o) PROVE AdmitsInOrder
  <2>1. PICK l \in Mine(o), ttl \in Ttls :
          disk' = [leases |-> (prune(disk).leases \ {l}) \cup {Renewed(l, ttl)},
                   queue |-> disk.queue]
    BY <1>4 DEF HeartbeatRenews
  <2>2. l \in disk.leases /\ prune(disk).leases \subseteq disk.leases BY DEF Mine, prune
  <2>3. Renewed(l, ttl).id = l.id BY <1>a, <2>2, RenewedFields
  <2> QED BY <1>d, <2>1, <2>2, <2>3
<1>5. ASSUME NEW o \in Owners, AssertActive(o) PROVE AdmitsInOrder
  <2>1. disk'.leases \subseteq disk.leases BY <1>5 DEF AssertActive, prune
  <2> QED BY <1>d, <2>1
<1>6. CASE BrokerTick
  <2>1. disk'.leases = {Aged(x) : x \in disk.leases} BY <1>6 DEF BrokerTick, Older
  <2>2. \A x \in disk.leases : Aged(x).id = x.id BY <1>a, AgedFields
  <2> QED BY <1>d, <2>1, <2>2
<1>7. ASSUME NEW r \in work.queue, PromoteDrop(r) \/ PromoteSkip(r) \/ PromoteGrant(r)
      PROVE  disk' = disk
  BY <1>7 DEF PromoteDrop, PromoteSkip, PromoteGrant
<1>8. ASSUME NEW o \in Owners, BrokerCrash(o) PROVE disk' = disk BY <1>8 DEF BrokerCrash
<1>9. CASE QuietStep BY <1>e, <1>9, QuietFacts
<1>10. CASE EnterStep BY <1>a, <1>e, <1>10, EnterFacts
<1>11. CASE UNCHANGED brokerVars BY <1>e, <1>11 DEF brokerVars
<1> QED BY <1>1, <1>2, <1>3, <1>4, <1>5, <1>6, <1>7, <1>8, <1>9, <1>10, <1>11,
           <1>e, NextSplit

\* Whoever asks, in whatever order, under limits that move and parents that go
\* (promoteQueued, requestResource): one entry per use, nesting a chain, and no
\* lease beyond the limits read, before an earlier request of its kind, or under
\* a parent that is gone.
THEOREM AdmissionIsInOrder == BrokerSpec => AdmissionInOrder
<1>1. BrokerInv /\ AdmissionInv => OneEntryPerUse /\ NestingIsAChain
  BY DEF BrokerInv, AdmissionInv, OneEntryPerUse, NestingIsAChain, Chain
<1>2. BrokerInv /\ AdmissionInv /\ [BrokerNext]_brokerVars => [AdmitsInOrder]_brokerVars
  BY WritesInOrder
<1>3. BrokerSpec => [](OneEntryPerUse /\ NestingIsAChain)
  BY <1>1, BrokerInvariant, AdmissionInvariant, PTL
<1>4. BrokerSpec => [][AdmitsInOrder]_brokerVars
  BY <1>2, BrokerInvariant, AdmissionInvariant, PTL DEF BrokerSpec
<1>5. [AdmitsInOrder]_brokerVars =>
        [NewLeases # {} =>
           /\ op.lim.mem
           /\ Cardinality(disk'.leases) <= op.lim.total
           /\ \A l \in NewLeases :
                Cardinality(OfKind(disk'.leases, l.kind)) <= op.lim.kind[l.kind]]_brokerVars
  BY DEF AdmitsInOrder
<1>6. [AdmitsInOrder]_brokerVars =>
        [\A l \in NewLeases, r \in disk'.queue : r.kind = l.kind => l.tok < r.tok]_brokerVars
  BY DEF AdmitsInOrder
<1>7. [AdmitsInOrder]_brokerVars =>
        [\A l \in NewLeases :
           l.parent # NoLease => \E p \in disk'.leases : p.id = l.parent]_brokerVars
  BY DEF AdmitsInOrder
<1>8. BrokerSpec => NoOverAdmission BY <1>4, <1>5, PTL DEF NoOverAdmission
<1>9. BrokerSpec => NoOvertaking BY <1>4, <1>6, PTL DEF NoOvertaking
<1>10. BrokerSpec => NoOrphanGrant BY <1>4, <1>7, PTL DEF NoOrphanGrant
<1> QED BY <1>3, <1>8, <1>9, <1>10 DEF AdmissionInOrder
=============================================================================
