----------------------------- MODULE RouteLadder -----------------------------
(***************************************************************************)
(* Which account a goal's work goes to: the quality ladder                  *)
(* (src/routing/router.ts), the pool of subscription accounts beneath it    *)
(* (src/routing/subscription-accounts.ts) and the owner's pin               *)
(* (src/supervisor/runtime.ts, selectCoordinatorForRequest).  A pure        *)
(* function of the request, the goal and the persisted accounts, evaluated  *)
(* for every input over a small set of accounts with one model each.        *)
(***************************************************************************)
EXTENDS Naturals, Sequences, FiniteSets

CONSTANTS RtAccounts,    \* capacity keys
          RtProvider,    \* the provider of each
          RtModelClass,  \* the routing class of its model
          RtName,        \* its place in the order of names
          RtDefault,     \* the default account of each provider
          RtNone         \* no account, no provider

ASSUME RtAssumption ==
  /\ RtNone \notin RtAccounts /\ "unasked" \notin RtAccounts \cup {RtNone}
  /\ RtName \in [RtAccounts -> Nat]
  /\ \A a, b \in RtAccounts : RtName[a] = RtName[b] => a = b
  /\ \A a \in RtAccounts : /\ RtModelClass[a] \in {"fable", "opus", "sonnet", "codex"}
                           /\ RtProvider[RtDefault[RtProvider[a]]] = RtProvider[a]

RtProviders == {RtProvider[a] : a \in RtAccounts}

\* What the store says of an account: free capacity, free capacity whose backoff
\* has expired, paid capacity, or nothing that can be used.
RtStates == {"available", "retry", "paid", "out"}

VARIABLES rtIn,   \* the request and the goal
          rtOut   \* the account selected; RtNone is a checkpoint

rtVars == <<rtIn, rtOut>>

RtInputs == [state : [RtAccounts -> RtStates], last : RtAccounts \cup {RtNone},
             failures : {0, 2, 4}, pin : RtProviders \cup {RtNone}, preferred : RtProviders,
             review : BOOLEAN, class : {"fable", "opus", "sonnet"}]

RtInit == rtIn \in RtInputs /\ rtOut = "unasked"

\* usable() and usableSubscriptionModel(): paid capacity counts as usable.
RtUsable(a) == rtIn.state[a] # "out"
RtFree(a) == rtIn.state[a] \in {"available", "retry"}

\* targetClass: every second failed repair raises the class, twice at most.
RtTargets == <<"sonnet", "opus", "fable">>
RtTarget == LET start == CHOOSE i \in 1..3 : RtTargets[i] = rtIn.class
                raised == start + rtIn.failures \div 2
            IN RtTargets[IF raised > 3 THEN 3 ELSE raised]

RtLadders == [fable |-> <<"fable", "opus", "codex", "sonnet">>,
              opus |-> <<"opus", "fable", "codex", "sonnet">>,
              sonnet |-> <<"sonnet", "codex", "opus", "fable">>]
RtReviewLadder == <<"codex", "opus", "fable", "sonnet">>
RtLadder == IF rtIn.review THEN RtReviewLadder ELSE RtLadders[RtTarget]

\* The rung of an account on the ladder.
RtRung(a) == CHOOSE i \in 1..4 : RtLadder[i] = RtModelClass[a]

\* compareSubscriptionAccounts: the preferred provider, then accounts that need
\* no retry, then the name.
RtQuota(a) == IF rtIn.state[a] \in {"available", "paid"} THEN 0
              ELSE IF rtIn.state[a] = "retry" THEN 1 ELSE 2
RtBefore(preferred, a, b) ==
  LET liked(x) == IF RtProvider[x] = preferred THEN 0 ELSE 1 IN
  \/ liked(a) < liked(b)
  \/ liked(a) = liked(b) /\ RtQuota(a) < RtQuota(b)
  \/ liked(a) = liked(b) /\ RtQuota(a) = RtQuota(b) /\ RtName[a] < RtName[b]

\* route: pickFromLadder takes the first free account of the first class of the
\* ladder that has one; paid capacity is never taken in this build. A review
\* prefers providers other than the one that did the work.
RtPick(pool, preferred) ==
  LET free == {a \in pool : RtFree(a)} IN
  IF free = {} THEN RtNone
  ELSE CHOOSE a \in free : \A b \in free \ {a} :
         \/ RtRung(a) < RtRung(b)
         \/ RtRung(a) = RtRung(b) /\ RtBefore(preferred, a, b)

RtRoute(pool, preferred) ==
  LET other == IF rtIn.review /\ rtIn.last # RtNone
                 THEN {a \in pool : RtProvider[a] # RtProvider[rtIn.last]} ELSE {}
      first == RtPick(other, preferred)
  IN IF first # RtNone THEN first ELSE RtPick(pool, preferred)

\* subscriptionAccountPool: an account that ran dry leaves the goal with its
\* siblings; two failures of the work exclude that one account.
RtSiblings(pool, key) == {a \in pool : a # key /\ RtProvider[a] = RtProvider[key]}
RtRotates(pool, key) == (key \notin pool \/ ~RtUsable(key)) /\ RtSiblings(pool, key) # {}
RtPool(pool, key) ==
  LET siblings == RtSiblings(pool, key)
      usable == {a \in siblings : RtUsable(a)}
  IN IF RtRotates(pool, key) THEN (IF usable # {} THEN usable ELSE siblings)
     ELSE IF rtIn.failures >= 2 THEN pool \ {key}
     ELSE pool

\* lastCapacityKey: the last account, or the default one of the provider to
\* stick to; inside a pin that is the pinned provider.
RtSticky(pin) ==
  LET stick == IF pin # RtNone THEN pin
               ELSE IF rtIn.last # RtNone THEN RtProvider[rtIn.last] ELSE rtIn.preferred
  IN IF rtIn.last # RtNone /\ RtProvider[rtIn.last] = stick THEN rtIn.last ELSE RtDefault[stick]

\* Slip: an account that ran dry falls back to all, too.
RtAcross_AlwaysFallsBack(pool, pin) ==
  LET preferred == IF pin # RtNone THEN pin ELSE rtIn.preferred
      key == RtSticky(pin)
      chosen == RtRoute(RtPool(pool, key), preferred)
  IN IF chosen = RtNone THEN RtRoute(pool, preferred) ELSE chosen

\* routeAcrossProviders: only an exclusion after failures falls back to all.
RtAcross(pool, pin) ==
  LET preferred == IF pin # RtNone THEN pin ELSE rtIn.preferred
      key == RtSticky(pin)
      chosen == RtRoute(RtPool(pool, key), preferred)
  IN IF chosen = RtNone /\ ~RtRotates(pool, key) THEN RtRoute(pool, preferred) ELSE chosen

\* selectCoordinatorForRequest: inside the pin first, then the whole ladder. A
\* review is never pinned.
RtSelection ==
  LET pin == IF rtIn.review THEN RtNone ELSE rtIn.pin
      pinned == IF pin = RtNone THEN RtNone
                ELSE RtAcross({a \in RtAccounts : RtProvider[a] = pin}, pin)
  IN IF pinned # RtNone THEN pinned ELSE RtAcross(RtAccounts, RtNone)

RtSelect == rtOut = "unasked" /\ rtOut' = RtSelection /\ UNCHANGED rtIn

RtSpec == RtInit /\ [][RtSelect]_rtVars

-----------------------------------------------------------------------------
\* "Quota rotation must not fall back to the full list" (runtime.ts:419): work
\* without a pin whose account ran dry stays on that provider's accounts.
RtStaysOnProvider ==
  /\ rtOut \in RtAccounts
  /\ rtIn.pin = RtNone /\ rtIn.last # RtNone /\ ~RtUsable(rtIn.last)
  /\ RtSiblings(RtAccounts, rtIn.last) # {}
  => RtProvider[rtOut] = RtProvider[rtIn.last]

\* While some account has free capacity the goal waits only when its own account
\* ran dry and its siblings have none: neither the pin nor the exclusion after
\* failures may strand it (runtime.ts:371-393, 421-427).
RtNotStranded ==
  rtOut = RtNone /\ (\E a \in RtAccounts : RtFree(a))
  => LET key == RtSticky(RtNone) IN
     RtRotates(RtAccounts, key) /\ \A a \in RtSiblings(RtAccounts, key) : ~RtFree(a)

\* The owner's pin is left only when no account of that provider has free
\* capacity (runtime.ts:371-393).
RtPinHonoured ==
  /\ rtOut \in RtAccounts
  /\ ~rtIn.review /\ rtIn.pin # RtNone /\ RtProvider[rtOut] # rtIn.pin
  => \A a \in RtAccounts : RtProvider[a] = rtIn.pin => ~RtFree(a)

\* Where work goes when accounts run dry: the parts above.
RtSafe == RtStaysOnProvider /\ RtNotStranded /\ RtPinHonoured
=============================================================================
