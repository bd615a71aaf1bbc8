--------------------------- MODULE ResourceBroker ---------------------------
(***************************************************************************)
(* The cross-process resource guard of src/supervisor/resources.ts: leases *)
(* of three kinds, granted under limits derived from the host's memory, a  *)
(* queue for what does not fit, reclamation of stale leases, and the       *)
(* client loop of waitForResource as runWorker drives it.                  *)
(*                                                                         *)
(* Every operation of the code runs inside withStoreLock: it reads the     *)
(* store file, works on the copy and writes it back.  `disk' is the file,  *)
(* `work' the copy of the operation `op' that holds the lock, `cursor' the *)
(* position of the loop of promoteQueued.  The lock is taken to exclude    *)
(* (StoreLock studies the lock file itself); a holder may die under it.    *)
(*                                                                         *)
(* Abstractions.  Identities that the code draws from randomUUID are       *)
(* numbered in the order they are drawn, so the array order of the queue   *)
(* is the order of its tokens and the queue is a set.  A request's id and  *)
(* its fencing token are drawn together and are one number.  Instants are  *)
(* replaced by the time left: `left' is reclaimAfter - now, never below 0. *)
(***************************************************************************)
EXTENDS Integers, FiniteSets

CONSTANTS
  Owners,        \* requesters; an owner's process carries the owner's name
  NoPid,         \* a lease registered without a process id
  MemoryLevels,  \* the values availableMemoryPercent may return
  SoftFloor,     \* softMemoryAvailablePercent
  Headroom,      \* bytes of headroom per percent above the floor
  Estimate,      \* planning estimate per kind, in the same unit
  WorkerLimit,   \* MAJOR_WORKER_LIMIT, 0 when unset
  Cores,         \* availableParallelism()
  MaxSubagentDepth, \* MAJOR_MAX_SUBAGENT_DEPTH
  Ttls,          \* lease lifetimes the callers ask for
  Grace,         \* RESOURCE_RECLAIM_GRACE_MS
  WaitTimeout,   \* timeoutMs of waitForResource
  Uses,          \* the (kind, pid?) pairs the callers ask for
  MaxId          \* bound: identities drawn in a behaviour

Kinds == {"worker", "browser", "build"}
NoLease == 0

ASSUME BrokerAssumption ==
  /\ NoPid \notin Owners
  /\ MemoryLevels \subseteq Nat /\ MemoryLevels # {}
  /\ SoftFloor \in Nat /\ Headroom \in Nat
  /\ Estimate \in [Kinds -> Nat \ {0}]
  /\ WorkerLimit \in Nat /\ Cores \in Nat
  /\ MaxSubagentDepth \in Nat
  /\ Ttls \subseteq Nat \ {0}
  /\ Grace \in Nat /\ WaitTimeout \in Nat
  /\ Uses \subseteq [kind: Kinds, fenced: BOOLEAN]
  /\ MaxId \in Nat

VARIABLES
  disk,     \* the store file: leases and queue
  work,     \* the operation's copy of it
  op,       \* the operation that holds the store lock
  cursor,   \* token of the last queued request promoteQueued looked at
  minted,   \* identities drawn so far
  st,       \* where each owner is in its use of the broker
  handle,   \* the token and the lease each owner was handed
  brokerPatience, \* time left before waitForResource gives up
  alive     \* whether each owner's process runs

brokerVars == <<disk, work, op, cursor, minted, st, handle, brokerPatience, alive>>

Request == [tok: Nat, kind: Kinds, owner: Owners, parent: Nat, depth: Nat,
            pid: Owners \cup {NoPid}, ttl: Nat]
BrokerLease == [id: Nat, tok: Nat, kind: Kinds, owner: Owners, parent: Nat,
          depth: Nat, pid: Owners \cup {NoPid}, ttl: Nat, left: Nat]
Store == [leases: SUBSET BrokerLease, queue: SUBSET Request]
Limits == [mem: BOOLEAN, kind: [Kinds -> Nat], total: Nat]

NoOp == [type |-> "free"]
BrokerOp == [type: {"snapshot"}, owner: {NoPid}, lim: Limits]
      \cup [type: {"poll", "release", "cancel"}, owner: Owners, lim: Limits]
      \cup [type: {"request"}, owner: Owners, lim: Limits, kind: Kinds,
            parent: Nat, pid: Owners \cup {NoPid}, ttl: Nat]
NoHandle == [tok |-> 0, lease |-> NoLease]
EmptyStore == [leases |-> {}, queue |-> {}]

-----------------------------------------------------------------------------
(* Limits, capacity and staleness *)

Fit(headroom, kind) ==
  LET slots == headroom \div Estimate[kind] IN IF slots < 1 THEN 1 ELSE slots

\* Live limits for m percent of available memory, and whether m is above the
\* soft floor (capacityReason asks both of one reading).
currentResourceLimits(m) ==
  LET headroom == (IF m > SoftFloor THEN m - SoftFloor ELSE 0) * Headroom
      half     == IF Cores < 2 THEN 1 ELSE Cores \div 2
      builds   == IF Fit(headroom, "build") < half THEN Fit(headroom, "build")
                                                   ELSE half
      kind     == [k \in Kinds |->
                     IF k = "build" THEN builds
                     ELSE IF k = "worker" /\ WorkerLimit > 0 THEN WorkerLimit
                     ELSE Fit(headroom, k)]
  IN [mem   |-> m >= SoftFloor,
      kind  |-> kind,
      total |-> kind["worker"] + kind["browser"] + kind["build"]]

OfKind(leases, k) == {l \in leases : l.kind = k}
kindCapReached(leases, k, lim) == Cardinality(OfKind(leases, k)) >= lim.kind[k]
\* capacityReason: something keeps a request of kind k out.
NoCapacity(leases, k, lim) ==
  \/ ~lim.mem
  \/ Cardinality(leases) >= lim.total
  \/ kindCapReached(leases, k, lim)

\* Slip: reclaims by time alone.
leaseIsActive_TimeOnly(l) == l.left > 0
leaseIsActive(l) == l.left > 0 \/ (l.pid # NoPid /\ alive[l.pid])
prune(s) == [leases |-> {l \in s.leases : leaseIsActive(l)}, queue |-> s.queue]

leaseFrom(r, id) ==
  [id |-> id, tok |-> r.tok, kind |-> r.kind, owner |-> r.owner,
   parent |-> r.parent, depth |-> r.depth, pid |-> r.pid,
   ttl |-> r.ttl, left |-> r.ttl + Grace]

-----------------------------------------------------------------------------
(* The queue loop.  `work', `cursor' and op.lim belong to the lock holder. *)

Busy == op.type # "free"
NextQueued(r) ==
  /\ r \in work.queue
  /\ r.tok > cursor
  /\ \A q \in work.queue : q.tok > cursor => r.tok <= q.tok
\* Slip: the parent is not looked up again at promotion.
ParentGone_NotChecked(r) == FALSE
ParentGone(r) ==
  r.parent # NoLease /\ \A l \in work.leases : l.id # r.parent

\* The loop stops at the end of the queue, or at a request that memory or the
\* total keeps out although its own kind has room.
LoopStops(r) ==
  /\ ~ParentGone(r)
  /\ NoCapacity(work.leases, r.kind, op.lim)
  /\ ~kindCapReached(work.leases, r.kind, op.lim)
LoopDone == \A r \in work.queue : NextQueued(r) => LoopStops(r)

PromoteDrop(r) ==
  /\ Busy /\ NextQueued(r)
  /\ ParentGone(r)
  /\ work' = [leases |-> work.leases, queue |-> work.queue \ {r}]
  /\ UNCHANGED <<disk, op, cursor, minted, st, handle, brokerPatience, alive>>

PromoteSkip(r) ==
  /\ Busy /\ NextQueued(r)
  /\ ~ParentGone(r)
  /\ NoCapacity(work.leases, r.kind, op.lim)
  /\ kindCapReached(work.leases, r.kind, op.lim)
  /\ cursor' = r.tok
  /\ UNCHANGED <<disk, work, op, minted, st, handle, brokerPatience, alive>>

PromoteGrant(r) ==
  /\ Busy /\ NextQueued(r)
  /\ ~ParentGone(r)
  /\ ~NoCapacity(work.leases, r.kind, op.lim)
  /\ work' = [leases |-> work.leases \cup {leaseFrom(r, minted + 1)},
              queue  |-> work.queue \ {r}]
  /\ minted' = minted + 1
  /\ UNCHANGED <<disk, op, cursor, st, handle, brokerPatience, alive>>

\* The lock is taken for operation o on the store s.
Enter(o, s) ==
  /\ ~Busy
  /\ op' = o
  /\ work' = s
  /\ cursor' = 0
  /\ UNCHANGED <<disk, minted, st, handle, brokerPatience, alive>>

\* writeStore, and the lock is given back.
Leave(s) ==
  /\ disk' = s
  /\ op' = NoOp
  /\ work' = EmptyStore
  /\ cursor' = 0

Becomes(o, state, h) ==
  /\ st' = [st EXCEPT ![o] = state]
  /\ handle' = [handle EXCEPT ![o] = h]

-----------------------------------------------------------------------------
(* requestResource *)

\* The parent is the caller's MAJOR_RESOURCE_LEASE_ID: none, or a lease that
\* some owner was handed, active or not.
RequestEnter(o) ==
  /\ alive[o] /\ st[o] \in {"idle", "failed", "gaveup"}
  /\ minted + Cardinality(disk.queue) + 2 <= MaxId
  /\ \E u \in Uses, ttl \in Ttls, m \in MemoryLevels,
        parent \in {NoLease} \cup {handle[p].lease : p \in Owners \ {o}} :
       Enter([type |-> "request", owner |-> o, kind |-> u.kind,
              parent |-> parent, pid |-> IF u.fenced THEN o ELSE NoPid,
              ttl |-> ttl, lim |-> currentResourceLimits(m)],
             prune(disk))

SameUse(x) == x.kind = op.kind /\ x.owner = op.owner
ParentDepth == {l.depth : l \in {p \in work.leases : p.id = op.parent /\ p.kind = "worker"}}

\* requestDepth refuses: only workers nest, under an active worker, to a depth.
Rejected ==
  /\ op.parent # NoLease
  /\ \/ op.kind # "worker"
     \/ \A d \in ParentDepth : d + 1 > MaxSubagentDepth

\* The new request, of depth d.
NewRequest(d) ==
  [tok |-> minted + 1, kind |-> op.kind, owner |-> op.owner,
   parent |-> op.parent, depth |-> d, pid |-> op.pid, ttl |-> op.ttl]

Finishing(type) == Busy /\ op.type = type /\ LoopDone

RequestExisting ==
  /\ Finishing("request")
  /\ \E l \in work.leases :
       /\ SameUse(l)
       /\ Becomes(op.owner, "hold", [tok |-> l.tok, lease |-> l.id])
  /\ Leave(work)
  /\ UNCHANGED <<minted, brokerPatience, alive>>

RequestAlreadyQueued ==
  /\ Finishing("request")
  /\ \A l \in work.leases : ~SameUse(l)
  /\ \E r \in work.queue :
       /\ SameUse(r)
       /\ Becomes(op.owner, "wait", [tok |-> r.tok, lease |-> NoLease])
  /\ brokerPatience' = [brokerPatience EXCEPT ![op.owner] = WaitTimeout]
  /\ Leave(work)
  /\ UNCHANGED <<minted, alive>>

RequestIsNew ==
  /\ Finishing("request")
  /\ \A x \in work.leases \cup work.queue : ~SameUse(x)

RequestRejected ==
  /\ RequestIsNew /\ Rejected
  /\ Becomes(op.owner, "failed", NoHandle)
  /\ Leave(work)
  /\ UNCHANGED <<minted, brokerPatience, alive>>

RequestDepth == IF op.parent = NoLease THEN {0} ELSE {d + 1 : d \in ParentDepth}

RequestQueued ==
  /\ RequestIsNew /\ ~Rejected
  /\ NoCapacity(work.leases, op.kind, op.lim)
  /\ \E d \in RequestDepth :
       Leave([leases |-> work.leases, queue |-> work.queue \cup {NewRequest(d)}])
  /\ Becomes(op.owner, "wait", [tok |-> minted + 1, lease |-> NoLease])
  /\ brokerPatience' = [brokerPatience EXCEPT ![op.owner] = WaitTimeout]
  /\ minted' = minted + 1
  /\ UNCHANGED alive

RequestGranted ==
  /\ RequestIsNew /\ ~Rejected
  /\ ~NoCapacity(work.leases, op.kind, op.lim)
  /\ \E d \in RequestDepth :
       Leave([leases |-> work.leases \cup {leaseFrom(NewRequest(d), minted + 2)},
              queue |-> work.queue])
  /\ Becomes(op.owner, "hold", [tok |-> minted + 1, lease |-> minted + 2])
  /\ minted' = minted + 2
  /\ UNCHANGED <<brokerPatience, alive>>

-----------------------------------------------------------------------------
(* resourceSnapshot, reclaimStaleResources, and waitForResource's polling *)

\* Any process may ask, `major resources' for one.
SnapshotEnter ==
  /\ \E m \in MemoryLevels :
       Enter([type |-> "snapshot", owner |-> NoPid, lim |-> currentResourceLimits(m)],
             prune(disk))
SnapshotFinish ==
  /\ Finishing("snapshot")
  /\ Leave(work)
  /\ UNCHANGED <<minted, st, handle, brokerPatience, alive>>

PollEnter(o) ==
  /\ st[o] = "wait"
  /\ \E m \in MemoryLevels :
       Enter([type |-> "poll", owner |-> o, lim |-> currentResourceLimits(m)],
             prune(disk))

\* What the waiter makes of its snapshot.  The deadline is looked at only when
\* the request is still queued, and the cancellation is a later transaction.
\* Slip: the deadline is never looked at.
Verdict_NoDeadline(o, h) ==
  IF \E l \in work.leases : l.tok = h.tok THEN "hold"
  ELSE IF \A r \in work.queue : r.tok # h.tok THEN "failed"
  ELSE "wait"
Verdict(o, h) ==
  IF \E l \in work.leases : l.tok = h.tok THEN "hold"
  ELSE IF \A r \in work.queue : r.tok # h.tok THEN "failed"
  ELSE IF brokerPatience[o] = 0 THEN "cancel"
  ELSE "wait"
PollFinish ==
  /\ Finishing("poll")
  /\ LET o == op.owner
         h == handle[o]
         got == {l.id : l \in {x \in work.leases : x.tok = h.tok}}
     IN \E id \in IF got = {} THEN {NoLease} ELSE got :
          Becomes(o, Verdict(o, h), [tok |-> h.tok, lease |-> id])
  /\ Leave(work)
  /\ UNCHANGED <<minted, brokerPatience, alive>>

-----------------------------------------------------------------------------
(* cancelResourceRequest, by the waiter that gives up or from the CLI *)

CancelEnter(o) ==
  /\ \/ st[o] = "cancel"
     \/ st[o] = "wait" /\ \E r \in disk.queue : r.tok = handle[o].tok
  /\ \E m \in MemoryLevels :
       Enter([type |-> "cancel", owner |-> o, lim |-> currentResourceLimits(m)],
             [leases |-> prune(disk).leases,
              queue |-> {r \in disk.queue : r.tok # handle[o].tok}])
CancelFinish ==
  /\ Finishing("cancel")
  /\ st' = [st EXCEPT ![op.owner] = IF @ = "cancel" THEN "gaveup" ELSE @]
  /\ Leave(work)
  /\ UNCHANGED <<minted, handle, brokerPatience, alive>>

-----------------------------------------------------------------------------
(* heartbeatResource, assertActiveResourceLease and releaseResource.  One   *)
(* that throws leaves the file as it was, pruning included.                 *)

Fenced(l, h) == l.id = h.lease /\ l.tok = h.tok
Mine(o) == {l \in prune(disk).leases : Fenced(l, handle[o])}
Atomic == ~Busy /\ UNCHANGED <<work, op, cursor, minted, brokerPatience, alive>>

Renewed(l, ttl) == [l EXCEPT !.ttl = ttl, !.left = ttl + Grace]
HeartbeatRenews(o) ==
  /\ Atomic /\ st[o] = "hold"
  /\ \E l \in Mine(o), ttl \in Ttls :
       disk' = [leases |-> (prune(disk).leases \ {l}) \cup {Renewed(l, ttl)},
                queue |-> disk.queue]
  /\ UNCHANGED <<st, handle>>

\* The refused heartbeat cancels the provider run; its release then throws too.
HeartbeatRefused(o) ==
  /\ Atomic /\ st[o] = "hold"
  /\ Mine(o) = {}
  /\ st' = [st EXCEPT ![o] = "failed"]
  /\ UNCHANGED <<disk, handle>>

AssertActive(o) ==
  /\ Atomic /\ st[o] = "hold"
  /\ \E l \in Mine(o) : l.pid = o
  /\ disk' = prune(disk)
  /\ UNCHANGED <<st, handle>>

HasChild(o) == \E c \in prune(disk).leases : c.parent = handle[o].lease

ReleaseEnter(o) ==
  /\ st[o] = "hold"
  /\ Mine(o) # {} /\ ~HasChild(o)
  /\ \E m \in MemoryLevels :
       Enter([type |-> "release", owner |-> o, lim |-> currentResourceLimits(m)],
             [leases |-> {l \in prune(disk).leases : l.id # handle[o].lease},
              queue |-> disk.queue])
ReleaseFinish ==
  /\ Finishing("release")
  /\ Becomes(op.owner, "idle", NoHandle)
  /\ Leave(work)
  /\ UNCHANGED <<minted, brokerPatience, alive>>

\* The CLI may try again; runWorker's finally block does not.
ReleaseRefused(o) ==
  /\ Atomic /\ st[o] = "hold"
  /\ Mine(o) = {} \/ HasChild(o)
  /\ st' = [st EXCEPT ![o] = "failed"]
  /\ UNCHANGED <<disk, handle>>

-----------------------------------------------------------------------------
(* The environment *)

\* withStoreLock gives up after LOCK_TIMEOUT_MS and its caller with it.
LockTimeout(o) ==
  /\ Busy /\ op.owner # o
  /\ st[o] \in {"wait", "cancel", "hold"}
  /\ st' = [st EXCEPT ![o] = "failed"]
  /\ UNCHANGED <<disk, work, op, cursor, minted, handle, brokerPatience, alive>>

\* The owner's process dies; under the lock, the file keeps its old content.
BrokerCrash(o) ==
  /\ alive[o]
  /\ alive' = [alive EXCEPT ![o] = FALSE]
  /\ st' = [st EXCEPT ![o] = "dead"]
  /\ IF Busy /\ op.owner = o
     THEN op' = NoOp /\ work' = EmptyStore /\ cursor' = 0
     ELSE UNCHANGED <<op, work, cursor>>
  /\ UNCHANGED <<disk, minted, handle, brokerPatience>>

Less(n) == IF n = 0 THEN 0 ELSE n - 1
Aged(l) == [l EXCEPT !.left = Less(@)]
Older(s) == [leases |-> {Aged(l) : l \in s.leases}, queue |-> s.queue]
BrokerTick ==
  /\ \/ \E l \in disk.leases \cup work.leases : l.left > 0
     \/ \E o \in Owners : brokerPatience[o] > 0
  /\ disk' = Older(disk)
  /\ work' = Older(work)
  /\ brokerPatience' = [o \in Owners |-> Less(brokerPatience[o])]
  /\ UNCHANGED <<op, cursor, minted, st, handle, alive>>

BrokerInit ==
  /\ disk = EmptyStore
  /\ work = EmptyStore
  /\ op = NoOp
  /\ cursor = 0
  /\ minted = 0
  /\ st = [o \in Owners |-> "idle"]
  /\ handle = [o \in Owners |-> NoHandle]
  /\ brokerPatience = [o \in Owners |-> 0]
  /\ alive = [o \in Owners |-> TRUE]

BrokerPromote == \E r \in work.queue : PromoteDrop(r) \/ PromoteSkip(r) \/ PromoteGrant(r)
RequestFinish == \/ RequestExisting \/ RequestAlreadyQueued \/ RequestRejected
                 \/ RequestQueued \/ RequestGranted
Holder == \/ BrokerPromote \/ RequestFinish \/ SnapshotFinish \/ PollFinish
          \/ CancelFinish \/ ReleaseFinish

BrokerNext ==
  \/ Holder
  \/ \E o \in Owners :
       \/ RequestEnter(o) \/ PollEnter(o) \/ CancelEnter(o)
       \/ HeartbeatRenews(o) \/ HeartbeatRefused(o) \/ AssertActive(o)
       \/ ReleaseEnter(o) \/ ReleaseRefused(o)
       \/ LockTimeout(o) \/ BrokerCrash(o)
  \/ SnapshotEnter
  \/ BrokerTick

BrokerSpec == BrokerInit /\ [][BrokerNext]_brokerVars

\* The lock holder runs synchronously, a waiter polls every 250 ms or fails on
\* the lock's own timeout, and time passes.  Nothing else is promised.
WaiterStep(o) == PollEnter(o) \/ (st[o] = "cancel" /\ CancelEnter(o)) \/ LockTimeout(o)
BrokerFairSpec ==
  /\ BrokerSpec
  /\ WF_brokerVars(Holder)
  /\ WF_brokerVars(BrokerTick)
  /\ \A o \in Owners : WF_brokerVars(WaiterStep(o))

-----------------------------------------------------------------------------
(* Properties *)

\* Types of every variable: the persisted store, the working copy, the clients.
BrokerTypeOK ==
  /\ disk \in Store /\ work \in Store
  /\ op \in {NoOp} \cup BrokerOp
  /\ cursor \in Nat /\ minted \in Nat
  /\ st \in [Owners -> {"idle", "wait", "cancel", "gaveup", "hold", "failed", "dead"}]
  /\ handle \in [Owners -> [tok: Nat, lease: Nat]]
  /\ brokerPatience \in [Owners -> Nat]
  /\ alive \in [Owners -> BOOLEAN]

OneEntry(s) ==
  /\ \A x, y \in s.leases : x.kind = y.kind /\ x.owner = y.owner => x = y
  /\ \A x, y \in s.queue : x.kind = y.kind /\ x.owner = y.owner => x = y
  /\ \A x \in s.leases, y \in s.queue : ~(x.kind = y.kind /\ x.owner = y.owner)

\* requestResource is idempotent per (kind, owner): however requests, retries
\* after a timeout, cancellations and promotions interleave, the store never
\* holds two entries for one use, nor a lease beside a queued request for it.
OneEntryPerUse == OneEntry(disk)

\* Worker nesting stays a chain: an entry whose parent lease is active is a
\* worker exactly one level below a worker, and no level exceeds the owner cap,
\* although parents expire, die and are released while children are queued.
NestingIsAChain ==
  \A x \in disk.leases \cup disk.queue :
    /\ x.parent = NoLease => x.depth = 0
    /\ x.depth <= MaxSubagentDepth \/ x.parent = NoLease
    /\ \A p \in disk.leases :
         p.id = x.parent => /\ x.kind = "worker" /\ p.kind = "worker"
                            /\ x.depth = p.depth + 1

NewLeases == {l \in disk'.leases : \A x \in disk.leases : x.id # l.id}

\* Admission control: an operation that adds leases saw memory above the soft
\* floor and leaves every kind it granted within that kind's limit and the
\* total within the total, for the limits it read, however many it promoted.
NoOverAdmission ==
  [][NewLeases # {} =>
       /\ op.lim.mem
       /\ Cardinality(disk'.leases) <= op.lim.total
       /\ \A l \in NewLeases :
            Cardinality(OfKind(disk'.leases, l.kind)) <= op.lim.kind[l.kind]]_brokerVars

\* First come, first served within a kind: a lease is never granted past a
\* queued request of its kind that was made earlier, neither by the queue loop
\* (which skips capped kinds) nor by a new request granted at once.
NoOvertaking ==
  [][\A l \in NewLeases, r \in disk'.queue : r.kind = l.kind => l.tok < r.tok]_brokerVars

\* A lease that may go: stale, or released by its holder in this operation.
Stale(l) == l.left = 0 /\ (l.pid = NoPid \/ ~alive[l.pid])
MayGo(l) == \/ Stale(l)
            \/ op.type = "release" /\ Fenced(l, handle[op.owner])

\* A lease leaves the store only when its time and grace are over and its
\* process is dead or unknown, or when its own holder releases it with its
\* token: a live process wins over staleness, and a heartbeat is never lost to
\* a reclaim that classified the lease earlier.
LiveLeaseSurvives ==
  [][\A l \in disk.leases :
       MayGo(l) \/ \E x \in disk'.leases : x.id = l.id]_brokerVars

\* A child is only ever granted under a parent that is still active when the
\* grant is written; a queued child whose parent vanished is never promoted.
NoOrphanGrant ==
  [][\A l \in NewLeases :
       l.parent # NoLease => \E p \in disk'.leases : p.id = l.parent]_brokerVars

\* waitForResource never waits for ever: a waiter gets its lease, fails, or
\* gives up, even when its parent holds the slot that it waits for.
WaiterResolved ==
  \A o \in Owners : st[o] \in {"wait", "cancel"} ~> st[o] \notin {"wait", "cancel"}

-----------------------------------------------------------------------------
(* The inductive invariant of the proofs *)

FreshIds(s) == /\ \A x \in s.leases : x.id <= minted
               /\ \A x, y \in s.leases : x.id = y.id => x = y

\* While an operation runs, a lease of the file that its copy dropped is one
\* that may go.
Classified ==
  Busy => \A l \in disk.leases : MayGo(l) \/ \E x \in work.leases : x.id = l.id

BrokerInv == /\ BrokerTypeOK
             /\ OneEntry(disk) /\ OneEntry(work)
             /\ FreshIds(disk) /\ FreshIds(work)
             /\ Classified

\* NestingIsAChain, of a copy of the store.
Chain(s) ==
  \A x \in s.leases \cup s.queue :
    /\ x.parent = NoLease => x.depth = 0
    /\ x.depth <= MaxSubagentDepth \/ x.parent = NoLease
    /\ \A p \in s.leases :
         p.id = x.parent => /\ x.kind = "worker" /\ p.kind = "worker"
                            /\ x.depth = p.depth + 1

\* The numbers in a store were drawn, and no two requests share one.
Numbered(s) ==
  /\ \A x \in s.leases : x.id > 0
  /\ \A x \in s.leases \cup s.queue : x.tok \in 1..minted /\ x.parent <= minted
  /\ \A x, y \in s.queue : x.tok = y.tok => x = y

\* What the present pass of promoteQueued has granted.
Added == {l \in work.leases : \A x \in disk.leases : x.id # l.id}

\* A pass keeps to the limits it read and to the order within a kind: what it
\* has skipped stays kept out by its kind's limit.
PassInOrder ==
  /\ Added # {} => op.lim.mem /\ Cardinality(work.leases) <= op.lim.total
  /\ \A l \in Added :
       /\ Cardinality(OfKind(work.leases, l.kind)) <= op.lim.kind[l.kind]
       /\ \A r \in work.queue : r.kind = l.kind => l.tok < r.tok
       /\ l.parent # NoLease => \E p \in work.leases : p.id = l.parent
  /\ \A r \in work.queue :
       r.tok <= cursor => kindCapReached(work.leases, r.kind, op.lim)

AdmissionInv ==
  /\ IsFiniteSet(disk.leases) /\ IsFiniteSet(work.leases)
  /\ Chain(disk) /\ Chain(work)
  /\ Numbered(disk) /\ Numbered(work)
  /\ \A o \in Owners : handle[o].lease <= minted
  /\ op.type = "request" => op.parent <= minted
  /\ Busy => PassInOrder

\* One pass of promoteQueued after another, under limits and parents that come
\* and go: one entry per use, depths that are a chain, no grant beyond the
\* limits, before an earlier request of its kind or under a parent that is gone.
AdmissionInOrder ==
  /\ [](OneEntryPerUse /\ NestingIsAChain)
  /\ NoOverAdmission
  /\ NoOvertaking
  /\ NoOrphanGrant
=============================================================================
