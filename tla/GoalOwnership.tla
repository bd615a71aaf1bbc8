--------------------------- MODULE GoalOwnership ---------------------------
(***************************************************************************)
(* Who works on a goal, and where: interactive sessions that admit a goal   *)
(* and claim its live work (`major goal admit`, `goal heartbeat`), the      *)
(* rebinding of a goal whose worktree is gone, delegated workers with their *)
(* resource leases, and the registry garbage collection. Each mutation of   *)
(* the state file (src/src/supervisor/state.ts) is one step; `goal admit`   *)
(* makes three, with a look at the lease store between the first two.       *)
(***************************************************************************)
EXTENDS Naturals

CONSTANTS GoGoals,      \* goal identifiers, never used twice
          GoRepos,      \* worktrees
          GoIdentity,   \* worktree -> canonical project identity
          GoBase,       \* worktree -> its base name
          GoSessions,   \* interactive sessions
          GoStale,      \* LIVE_WORKER_STALE_MS, in ticks
          GoNone

ASSUME GoAssumption == GoStale \in Nat /\ GoNone \notin GoGoals \cup GoRepos \cup GoSessions

VARIABLES
  goGoal,     \* the goals of the state file
  goPaths,    \* worktrees that exist on disk
  goLeases,   \* worktrees in which a worker runs under a resource lease
  goSess,     \* per session: where its admission is, and what it believes
  goPlan      \* the collector's plan: goal -> the path it had, or GoNone

goVars == <<goGoal, goPaths, goLeases, goSess, goPlan>>

GoAges == 0..(GoStale + 1)
\* open: active, running or blocked; closed: done, failed or paused.
GoGoalRec == [status : {"none", "open", "closed", "removed"}, repo : GoRepos \cup {GoNone},
              pid : BOOLEAN, live : GoSessions \cup {GoNone}, age : GoAges]
GoBlank == [status |-> "none", repo |-> GoNone, pid |-> FALSE, live |-> GoNone, age |-> 0]
GoSessRec == [pc : {"idle", "leases", "reconcile", "claim"}, goal : GoGoals \cup {GoNone},
              repo : GoRepos \cup {GoNone}, leased : BOOLEAN,
              owns : GoGoals \cup {GoNone}, age : GoAges]
GoIdle == [pc |-> "idle", goal |-> GoNone, repo |-> GoNone, leased |-> FALSE,
           owns |-> GoNone, age |-> 0]

GoExists(g) == goGoal[g].status \in {"open", "closed"}
GoMatches(g, r) == GoIdentity[goGoal[g].repo] = GoIdentity[r]
GoFresh(g) == goGoal[g].live # GoNone /\ goGoal[g].age <= GoStale

GoInit == /\ goGoal = [g \in GoGoals |-> GoBlank]
          /\ goPaths = GoRepos
          /\ goLeases = {}
          /\ goSess = [s \in GoSessions |-> GoIdle]
          /\ goPlan = [g \in GoGoals |-> GoNone]

\* admitGoal: the open goal of the project is resumed, or one is created.
GoAdmit(s, r) ==
  LET Mine == {g \in GoGoals : goGoal[g].status = "open" /\ GoMatches(g, r)}
      Goes(g) == goSess' = [goSess EXCEPT ![s] = [@ EXCEPT !.pc = "leases", !.goal = g, !.repo = r]]
  IN
  /\ goSess[s].pc = "idle" /\ r \in goPaths
  /\ \/ /\ \E g \in Mine : Goes(g)
        /\ UNCHANGED goGoal
     \/ /\ Mine = {}
        /\ \E g \in GoGoals :
             /\ goGoal[g].status = "none"
             /\ goGoal' = [goGoal EXCEPT ![g] = [@ EXCEPT !.status = "open", !.repo = r]]
             /\ Goes(g)
  /\ UNCHANGED <<goPaths, goLeases, goPlan>>

\* The command filters the worker leases by the project identity; a worker
\* records the base name of its directory as the project of its lease.
GoSeeLeases(s) ==
  /\ goSess[s].pc = "leases"
  /\ goSess' = [goSess EXCEPT ![s] =
        [@ EXCEPT !.pc = "reconcile",
                  !.leased = \E r \in goLeases : GoBase[r] = GoIdentity[goSess[s].repo]]]
  /\ UNCHANGED <<goGoal, goPaths, goLeases, goPlan>>

\* reconcileStaleGoalOwnership's conditions for moving the goal.
GoMayMove(g, s) ==
  /\ GoExists(g)
  /\ GoMatches(g, goSess[s].repo) /\ goGoal[g].repo # goSess[s].repo
  /\ goGoal[g].repo \notin goPaths
  /\ ~goGoal[g].pid
  /\ ~goSess[s].leased
  /\ goGoal[g].live = s \/ ~GoFresh(g)

\* reconcileStaleGoalOwnership: the goal of a vanished worktree is rebound to
\* the session's, and an abandoned claim is dropped. It throws for a goal that
\* has been removed, and the admission ends.
GoReconcile(s) ==
  LET g == goSess[s].goal IN
  /\ goSess[s].pc = "reconcile"
  /\ goSess' = [goSess EXCEPT ![s] =
        [@ EXCEPT !.pc = IF GoExists(g) THEN "claim" ELSE "idle",
                  !.goal = IF GoExists(g) THEN g ELSE GoNone,
                  !.repo = GoNone, !.leased = FALSE]]
  /\ goGoal' = IF GoMayMove(g, s)
               THEN [goGoal EXCEPT ![g] =
                       [@ EXCEPT !.repo = goSess[s].repo, !.pid = FALSE,
                                 !.live = IF goGoal[g].live = s THEN s ELSE GoNone,
                                 !.age = IF goGoal[g].live = s THEN goGoal[g].age ELSE 0]]
               ELSE goGoal
  /\ UNCHANGED <<goPaths, goLeases, goPlan>>

\* Slip: any heartbeat but the newest counts as stale.
GoClaimable_AnyAge(g, s) == goGoal[g].live \in {GoNone, s} \/ goGoal[g].age > 0

\* claimLiveWorker: the claim is taken or refreshed, or another's is reported.
GoClaimable(g, s) == goGoal[g].live \in {GoNone, s} \/ ~GoFresh(g)
GoClaimLive(s) ==
  LET g == goSess[s].goal
      won == GoExists(g) /\ GoClaimable(g, s)
  IN
  /\ goSess[s].pc = "claim"
  /\ goGoal' = IF won THEN [goGoal EXCEPT ![g] = [@ EXCEPT !.live = s, !.age = 0]] ELSE goGoal
  /\ goSess' = [goSess EXCEPT ![s] = [GoIdle EXCEPT !.owns = IF won THEN g ELSE GoNone]]
  /\ UNCHANGED <<goPaths, goLeases, goPlan>>

\* heartbeatLiveWorker: FALSE tells the session to stop seeing itself as owner.
GoHeartbeat(s) ==
  LET g == goSess[s].owns
      mine == GoExists(g) /\ goGoal[g].live = s
  IN
  /\ g # GoNone /\ goSess[s].pc = "idle"
  /\ goGoal' = IF mine THEN [goGoal EXCEPT ![g].age = 0] ELSE goGoal
  /\ goSess' = [goSess EXCEPT ![s] = [GoIdle EXCEPT !.owns = IF mine THEN g ELSE GoNone]]
  /\ UNCHANGED <<goPaths, goLeases, goPlan>>

\* Heartbeats grow old.
GoOlder(a) == IF a > GoStale THEN a ELSE a + 1
GoTick ==
  /\ goGoal' = [g \in GoGoals |->
        [goGoal[g] EXCEPT !.age = IF goGoal[g].live = GoNone THEN 0 ELSE GoOlder(@)]]
  /\ goSess' = [s \in GoSessions |->
        [goSess[s] EXCEPT !.age = IF goSess[s].owns = GoNone THEN 0 ELSE GoOlder(@)]]
  /\ goGoal' # goGoal \/ goSess' # goSess
  /\ UNCHANGED <<goPaths, goLeases, goPlan>>

\* A cycle starts in the goal's worktree and writes its pid, or is over; a
\* cycle or an owner closes a goal (GoalCycles, GoalCompletion).
GoCycle(g) ==
  /\ goGoal[g].status = "open"
  /\ goGoal[g].pid \/ goGoal[g].repo \in goPaths
  /\ goGoal' = [goGoal EXCEPT ![g].pid = ~@]
  /\ UNCHANGED <<goPaths, goLeases, goSess, goPlan>>
GoClose(g) ==
  /\ goGoal[g].status = "open" /\ ~goGoal[g].pid
  /\ goGoal' = [goGoal EXCEPT ![g].status = "closed"]
  /\ UNCHANGED <<goPaths, goLeases, goSess, goPlan>>

\* bindGoalToProject: `run --goal-id` or a grade from another worktree.
GoBind(g, r) ==
  /\ GoExists(g) /\ r \in goPaths /\ GoMatches(g, r) /\ goGoal[g].repo # r
  /\ goGoal' = [goGoal EXCEPT ![g].repo = r]
  /\ UNCHANGED <<goPaths, goLeases, goSess, goPlan>>

\* `major delegate`: a worker under a lease works in a directory, and is done.
GoDelegate(r) ==
  /\ r \in goPaths \cup goLeases
  /\ goLeases' = IF r \in goLeases THEN goLeases \ {r} ELSE goLeases \cup {r}
  /\ UNCHANGED <<goGoal, goPaths, goSess, goPlan>>

\* Somebody removes a worktree, or puts it back.
GoWorktree(r) ==
  /\ goPaths' = IF r \in goPaths THEN goPaths \ {r} ELSE goPaths \cup {r}
  /\ UNCHANGED <<goGoal, goLeases, goSess, goPlan>>

\* planRegistryGc: goals at missing paths that nobody is known to work on and
\* that are closed or whose project has no other path left.
GoGone(g) ==
  /\ GoExists(g) /\ goGoal[g].repo \notin goPaths
  /\ ~goGoal[g].pid /\ ~GoFresh(g)
  /\ \/ goGoal[g].status = "closed"
     \/ \A h \in GoGoals : GoExists(h) /\ GoMatches(h, goGoal[g].repo)
                              => goGoal[h].repo \notin goPaths
GoGcPlan ==
  /\ \A g \in GoGoals : goPlan[g] = GoNone
  /\ \E g \in GoGoals : GoGone(g)
  /\ goPlan' = [g \in GoGoals |-> IF GoGone(g) THEN goGoal[g].repo ELSE GoNone]
  /\ UNCHANGED <<goGoal, goPaths, goLeases, goSess>>

\* applyRegistryGc: planned goals go, except where the planned path is back.
GoGcRemoves(g) == goPlan[g] # GoNone /\ goPlan[g] \notin goPaths
GoGcApply ==
  /\ \E g \in GoGoals : goPlan[g] # GoNone
  /\ goGoal' = [g \in GoGoals |-> IF GoGcRemoves(g) THEN [GoBlank EXCEPT !.status = "removed"]
                                  ELSE goGoal[g]]
  /\ goPlan' = [g \in GoGoals |-> GoNone]
  /\ UNCHANGED <<goPaths, goLeases, goSess>>

GoSession(s) == \/ \E r \in GoRepos : GoAdmit(s, r)
                \/ GoSeeLeases(s) \/ GoReconcile(s) \/ GoClaimLive(s) \/ GoHeartbeat(s)

GoNext == \/ \E s \in GoSessions : GoSession(s)
          \/ \E g \in GoGoals : GoCycle(g) \/ GoClose(g) \/ \E r \in GoRepos : GoBind(g, r)
          \/ \E r \in GoRepos : GoDelegate(r) \/ GoWorktree(r)
          \/ GoTick \/ GoGcPlan \/ GoGcApply

GoSpec == GoInit /\ [][GoNext]_goVars
-----------------------------------------------------------------------------
\* Goals, sessions and the plan have their types.
GoTypeOK == /\ goGoal \in [GoGoals -> GoGoalRec] /\ goSess \in [GoSessions -> GoSessRec]
            /\ goPaths \subseteq GoRepos /\ goLeases \subseteq GoRepos
            /\ goPlan \in [GoGoals -> GoRepos \cup {GoNone}]

\* claimLiveWorker and heartbeatLiveWorker: two sessions never both believe,
\* each within the staleness window of its own last answer, that they do the
\* live work of one goal; rebinding and collecting goals do not break this.
GoBeliefsAgree ==
  \A s, u \in GoSessions :
    /\ s # u /\ goSess[s].owns = goSess[u].owns /\ goSess[s].owns # GoNone
    => goSess[s].age > GoStale \/ goSess[u].age > GoStale

\* registry-gc.ts:104, "never GC a path that (re)appeared": a goal whose
\* worktree exists, or that a cycle works on, is removed only when it was
\* rebound after the plan was made.
GoGcSparesLive ==
  [][\A g \in GoGoals : goGoal'[g].status = "removed" /\ GoExists(g)
        => \/ goGoal[g].repo \notin goPaths
           \/ goGoal[g].repo # goPlan[g]]_goVars

\* "a recovery only happens after the caller has proved that no cycle or worker
\* lease is still live" (state.ts:56): a goal is not moved away from a worktree
\* in which a worker still holds its lease.
GoLeaseRespected ==
  [][\A s \in GoSessions : GoReconcile(s) /\ GoMayMove(goSess[s].goal, s)
        => goGoal[goSess[s].goal].repo \notin goLeases]_goVars

\* Ownership of a goal, whoever attaches, is delegated to, dies or collects
\* garbage: its parts above.
GoSafe == [](GoTypeOK /\ GoBeliefsAgree) /\ GoGcSparesLive

\* The inductive invariant behind GoSafe. An admission under way has its goal
\* and its worktree.
GoUnderWay ==
  \A s \in GoSessions :
    /\ goSess[s].pc # "idle" => goSess[s].goal \in GoGoals
    /\ goSess[s].pc \in {"leases", "reconcile"} => goSess[s].repo \in GoRepos

\* A session that believes in its work within the window is the one the goal
\* names, with a heartbeat no older than its answer, as long as the goal exists.
GoBeliefHolds ==
  \A s \in GoSessions, g \in GoGoals :
    goSess[s].owns = g =>
      /\ goGoal[g].status # "none"
      /\ goSess[s].age <= GoStale /\ GoExists(g)
           => goGoal[g].live = s /\ goGoal[g].age <= goSess[s].age

GoInv == GoTypeOK /\ GoUnderWay /\ GoBeliefHolds /\ GoBeliefsAgree
=============================================================================
