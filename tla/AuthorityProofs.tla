--------------------------- MODULE AuthorityProofs ---------------------------
(* Theorems about what is granted and on which grounds: the trust of a       *)
(* project (TrustPolicy), the authority of an execution (ExecutionGateway),  *)
(* the use of a capability (CapabilityRegistry), the availability of an      *)
(* account (ProviderStore), the account work goes to (RouteLadder), the      *)
(* fields a staged validation has passed (StagedFields), what the processes  *)
(* at the isolated backend do to guest and workspace (LimaBackend) and the   *)
(* actions of a session of the Cursor agent (CursorSession).                 *)
EXTENDS TrustPolicy, ExecutionGateway, CapabilityRegistry, ProviderStore, RouteLadder,
        StagedFields, LimaBackend, CursorSession, FiniteSetTheorems, WellFoundedInduction, TLAPS

USE TpAssumption

-----------------------------------------------------------------------------
(* Trust of a project *)

\* The default entry and every entry of the store are entries.
LEMMA TpReadEntry ==
  ASSUME TpTypes
  PROVE  /\ TpDefault \in TpEntry
         /\ (IF tpStore = TpNone THEN TpDefault ELSE tpStore) \in TpEntry
BY DEF TpTypes, TpDefault, TpEntry, TpTrusts

\* A history that has grown still carries what rests on it.
LEMMA TpRestsOnMore ==
  ASSUME NEW e \in TpEntry, NEW m \in Nat, NEW n \in Nat, m <= n,
         NEW V, NEW W, V \subseteq W, TpRestsOn(e, m, V)
  PROVE  TpRestsOn(e, n, W)
BY DEF TpRestsOn, TpEntry

\* No entry, no command and no history at the start.
LEMMA TpInitInv == TpInit => TpInv
<1> SUFFICES ASSUME TpInit PROVE TpInv
  OBVIOUS
<1>1. tpStore = TpNone /\ tpSaid = "observe" /\ tpStreak = 0
  BY DEF TpInit
<1>2. TpTypes
  <2>1. tpProc \in [TpProcs -> TpPending \cup {TpIdle}]
    BY DEF TpInit
  <2>2. 0 \in 0..TpMaxWrites
    OBVIOUS
  <2>3. /\ tpStore = TpNone /\ tpSerial = 0 /\ tpSaid = "observe" /\ tpRaced = FALSE
        /\ tpPasses = 0 /\ tpStreak = 0 /\ tpProved = {}
    BY DEF TpInit
  <2>4. "observe" \in TpTrusts
    BY DEF TpTrusts
  <2> QED  BY <2>1, <2>2, <2>3, <2>4 DEF TpTypes
<1>3. ASSUME NEW p \in TpProcs PROVE tpProc[p] = TpIdle
  BY DEF TpInit
<1>4. TpWillRest(TpIdle) /\ TpWillFollow(TpIdle)
  BY DEF TpIdle, TpWillRest, TpWillFollow
<1>5. \A p \in TpProcs : TpWillRest(tpProc[p]) /\ TpWillFollow(tpProc[p])
  BY <1>3, <1>4
<1> QED  BY <1>1, <1>2, <1>5 DEF TpInv, TpFollows

\* A command that has read the store holds what it will write.
LEMMA TpReadsInv ==
  ASSUME TpInv, NEW p \in TpProcs, NEW kind \in {"configure", "grade", "remove"},
         NEW next \in TpEntry \cup {TpNone}, NEW grade \in TpGradeRec \cup {TpNone},
         TpReads(p, next, grade, kind),
         TpWillRest([pc |-> kind, read |-> tpSerial, next |-> next, grade |-> grade]),
         ~tpRaced => TpWillFollow([pc |-> kind, read |-> tpSerial, next |-> next,
                                   grade |-> grade])
  PROVE  TpInv'
<1> DEFINE c == [pc |-> kind, read |-> tpSerial, next |-> next, grade |-> grade]
<1>1. c \in TpPending
  BY DEF TpPending, TpInv, TpTypes
<1>2. /\ tpProc' = [tpProc EXCEPT ![p] = c]
      /\ UNCHANGED <<tpStore, tpSerial, tpSaid, tpRaced, tpPasses, tpStreak, tpProved>>
  BY DEF TpReads
<1>3. TpWillRest(c) /\ (~tpRaced => TpWillFollow(c))
  OBVIOUS
<1> HIDE DEF c
<1>4. TpTypes'
  BY <1>1, <1>2 DEF TpInv, TpTypes
<1>5. \A q \in TpProcs : tpProc'[q] = IF q = p THEN c ELSE tpProc[q]
  BY <1>2 DEF TpInv, TpTypes
<1>6. \A q \in TpProcs : TpWillRest(tpProc[q])'
  BY <1>2, <1>3, <1>5 DEF TpInv, TpWillRest
<1>7. ~tpRaced => \A q \in TpProcs : TpWillFollow(tpProc[q])'
  BY <1>2, <1>3, <1>5 DEF TpInv, TpWillFollow
<1> QED  BY <1>2, <1>4, <1>6, <1>7 DEF TpInv, TpFollows

\* configureProjectPolicy asks for the grounds of the trust it will write.
LEMMA TpConfigureInv ==
  ASSUME TpInv, NEW p \in TpProcs, NEW trust \in TpTrusts, NEW approved \in BOOLEAN,
         TpConfigure(p, trust, approved)
  PROVE  TpInv'
<1> DEFINE e == IF tpStore = TpNone THEN TpDefault ELSE tpStore
           n == [e EXCEPT !.trust = trust]
<1>1. e \in TpEntry
  BY TpReadEntry DEF TpInv
<1>2. n \in TpEntry
  BY <1>1 DEF TpEntry
<1>3. n.trust = trust /\ n.passes = e.passes /\ n.last = e.last
  BY <1>1 DEF TpEntry
<1>4. n # TpNone
  BY <1>2
<1>5. TpRestsOn(n, tpPasses, tpProved)
  <2>1. CASE tpStore = TpNone
    <3>1. e.passes = 0 /\ e.last = TpNone
      BY <2>1 DEF TpDefault
    <3>2. trust \notin {"assist", "unattended"}
      BY <2>1 DEF TpConfigure, TpMayBe, TpToAssist, TpToUnattended
    <3>3. tpPasses \in Nat
      BY DEF TpInv, TpTypes
    <3> QED  BY <1>3, <3>1, <3>2, <3>3 DEF TpRestsOn
  <2>2. CASE tpStore # TpNone
    <3>1. TpRestsOn(tpStore, tpPasses, tpProved) /\ e = tpStore
      BY <2>2 DEF TpInv
    <3>2. trust = "assist" => tpStore.passes >= TpNeeded
      BY DEF TpConfigure, TpMayBe, TpToAssist
    <3>3. trust = "unattended" =>
            /\ tpStore.last # TpNone
            /\ tpStore.last = [kind |-> "execution", result |-> "pass", at |-> "build"]
      BY DEF TpConfigure, TpMayBe, TpToUnattended, TpLast
    <3>4. tpPasses \in Nat /\ e.passes \in Nat
      BY <1>1 DEF TpInv, TpTypes, TpEntry
    <3>5. trust = "unattended" => "build" \in tpProved
      BY <3>1, <3>3 DEF TpRestsOn
    <3>6. trust = "assist" => tpPasses >= TpNeeded
      BY <3>1, <3>2, <3>4 DEF TpRestsOn
    <3> QED  BY <1>3, <3>1, <3>5, <3>6 DEF TpRestsOn
  <2> QED  BY <2>1, <2>2
<1>6. ~tpRaced => n.passes = tpStreak
  <2> SUFFICES ASSUME ~tpRaced PROVE e.passes = tpStreak
    BY <1>3
  <2> QED  BY DEF TpInv, TpFollows, TpDefault
<1>7. TpReads(p, n, TpNone, "configure")
  BY DEF TpConfigure
<1>8. tpSerial \in Nat
  BY DEF TpInv, TpTypes
<1> HIDE DEF n
<1> QED  BY <1>2, <1>4, <1>5, <1>6, <1>7, <1>8, TpReadsInv DEF TpWillRest, TpWillFollow

\* A grade is kept with the trust it was read at, and counted once.
LEMMA TpGradeInv ==
  ASSUME TpInv, NEW p \in TpProcs, NEW kind \in {"shadow", "execution"},
         NEW result \in {"pass", "fail"}, TpGrade(p, kind, result)
  PROVE  TpInv'
<1> DEFINE e == IF tpStore = TpNone THEN TpDefault ELSE tpStore
           g == [kind |-> kind, result |-> result, at |-> e.trust]
           n == TpGraded(e, kind, result)
           c == [pc |-> "grade", read |-> tpSerial, next |-> n, grade |-> g]
<1>1. e \in TpEntry /\ e.trust \in TpTrusts /\ e.passes \in 0..TpMaxRuns
  <2>1. e \in TpEntry
    BY TpReadEntry DEF TpInv
  <2> QED  BY <2>1 DEF TpEntry
<1>2. g \in TpGradeRec /\ g # TpNone
  BY <1>1 DEF TpGradeRec
<1>3. TpCounted(e, kind, result) \in 0..TpMaxRuns
  BY <1>1 DEF TpCounted, TpGrade
<1>4. /\ n \in TpEntry /\ n # TpNone
      /\ n.trust = e.trust /\ n.last = g /\ n.passes = TpCounted(e, kind, result)
  <2> HIDE DEF g
  <2>1. g = [kind |-> kind, result |-> result, at |-> e.trust]
    BY DEF g
  <2>2. n = [e EXCEPT !.passes = TpCounted(e, kind, result), !.last = g]
    BY <2>1 DEF TpGraded
  <2>3. n \in TpEntry
    BY <1>1, <1>2, <1>3, <2>2 DEF TpEntry
  <2> QED  BY <1>1, <2>2, <2>3 DEF TpEntry
<1>5. c.pc = "grade" /\ c.next = n /\ c.grade = g /\ c.read = tpSerial
  OBVIOUS
<1>6. g.kind = kind /\ g.result = result /\ g.at = e.trust
  OBVIOUS
<1>7. /\ e.passes <= tpPasses
      /\ e.trust = "unattended" => "build" \in tpProved
      /\ e.trust = "assist" => tpPasses >= TpNeeded
      /\ tpPasses \in Nat
  BY DEF TpInv, TpTypes, TpRestsOn, TpDefault
<1>8. ~tpRaced => e.trust = tpSaid /\ e.passes = tpStreak
  BY DEF TpInv, TpFollows, TpDefault
<1>9. TpReads(p, n, g, "grade")
  BY DEF TpGrade
<1>10. tpSerial \in Nat
  BY DEF TpInv, TpTypes
<1> HIDE DEF e, g, n
<1>11. TpWillRest(c)
  <2>1. TpRestsOn(n, IF TpShadowPass(c) THEN tpPasses + 1 ELSE tpPasses,
                  IF TpExecutionPass(c) THEN tpProved \cup {g.at} ELSE tpProved)
    BY <1>1, <1>4, <1>5, <1>6, <1>7 DEF TpRestsOn, TpShadowPass, TpExecutionPass, TpCounted
  <2> QED  BY <1>2, <1>4, <1>5, <2>1 DEF TpWillRest
<1>12. ~tpRaced => TpWillFollow(c)
  BY <1>4, <1>5, <1>6, <1>8, <1>10 DEF TpWillFollow, TpCounted
<1> QED  BY <1>2, <1>4, <1>9, <1>11, <1>12, TpReadsInv

\* What is written is what rested on the history with this write.
LEMMA TpWriteInv ==
  ASSUME TpInv, NEW p \in TpProcs, TpWrite(p)
  PROVE  TpInv'
<1> DEFINE c == tpProc[p]
<1>1. c \in TpPending /\ c.pc \in {"configure", "grade", "remove"} /\ c.read \in Nat
      /\ c.next \in TpEntry \cup {TpNone}
  BY DEF TpInv, TpTypes, TpWrite, TpIdle, TpPending
<1>2. /\ tpStore' = c.next /\ tpSerial' = tpSerial + 1
      /\ tpRaced' = (tpRaced \/ c.read # tpSerial)
      /\ tpProc' = [tpProc EXCEPT ![p] = TpIdle]
      /\ tpSaid' = CASE c.pc = "configure" -> c.next.trust
                     [] c.pc = "remove" -> "observe"
                     [] OTHER -> tpSaid
      /\ tpPasses' = IF c.pc = "grade" /\ TpShadowPass(c) THEN tpPasses + 1 ELSE tpPasses
      /\ tpProved' = IF c.pc = "grade" /\ TpExecutionPass(c)
                     THEN tpProved \cup {c.grade.at} ELSE tpProved
      /\ tpStreak' = CASE c.pc = "remove" -> 0
                       [] c.pc = "grade" /\ c.grade.kind = "shadow" ->
                            IF c.grade.result = "pass" THEN tpStreak + 1 ELSE 0
                       [] OTHER -> tpStreak
  BY DEF TpWrite, TpShadowPass, TpExecutionPass
<1>3. TpWillRest(c) /\ (~tpRaced => TpWillFollow(c))
  BY DEF TpInv
<1>4. /\ tpSerial \in Nat /\ tpPasses \in Nat /\ tpStreak \in Nat /\ tpProved \subseteq TpTrusts
      /\ tpSerial < TpMaxWrites /\ tpSaid \in TpTrusts /\ tpRaced \in BOOLEAN
  BY DEF TpInv, TpTypes, TpWrite
<1>5. \A q \in TpProcs : tpProc'[q] = IF q = p THEN TpIdle ELSE tpProc[q]
  BY <1>2 DEF TpInv, TpTypes
<1>6. \A q \in TpProcs : tpProc[q] \in TpPending \cup {TpIdle}
  BY DEF TpInv, TpTypes
<1> HIDE DEF c
<1>7. tpSaid' \in TpTrusts
  BY <1>1, <1>2, <1>3, <1>4 DEF TpWillRest, TpEntry, TpTrusts
<1>8. tpProved' \subseteq TpTrusts
  BY <1>1, <1>2, <1>3, <1>4 DEF TpWillRest, TpPending, TpGradeRec
<1>9. TpTypes'
  <2>1. tpProc' \in [TpProcs -> TpPending \cup {TpIdle}]
    BY <1>2 DEF TpInv, TpTypes
  <2>2. tpStreak' \in Nat /\ tpPasses' \in Nat
    BY <1>1, <1>2, <1>4
  <2>3. tpSerial' \in 0..TpMaxWrites /\ tpRaced' \in BOOLEAN /\ tpStore' \in TpEntry \cup {TpNone}
    BY <1>1, <1>2, <1>4
  <2> QED  BY <1>7, <1>8, <2>1, <2>2, <2>3 DEF TpTypes
<1>10. tpPasses <= tpPasses' /\ tpProved \subseteq tpProved' /\ tpPasses' \in Nat
  BY <1>2, <1>4
<1>11. tpStore' # TpNone => TpRestsOn(tpStore', tpPasses', tpProved')
  BY <1>1, <1>2, <1>3 DEF TpWillRest
<1>12. ASSUME NEW q \in TpProcs PROVE TpWillRest(tpProc[q])'
  <2>1. CASE q = p
    BY <1>5, <2>1 DEF TpWillRest, TpIdle
  <2>2. CASE q # p
    <3> DEFINE d == tpProc[q]
    <3>1. tpProc'[q] = d /\ TpWillRest(d)
      BY <1>5, <2>2 DEF TpInv
    <3>2. d.next \in TpEntry \cup {TpNone}
      BY <1>6 DEF TpPending, TpIdle
    <3> HIDE DEF d
    <3>3. CASE d.pc = "grade"
      <4> DEFINE m == IF TpShadowPass(d) THEN tpPasses + 1 ELSE tpPasses
                 n == IF TpShadowPass(d) THEN tpPasses' + 1 ELSE tpPasses'
                 V == IF TpExecutionPass(d) THEN tpProved \cup {d.grade.at} ELSE tpProved
                 W == IF TpExecutionPass(d) THEN tpProved' \cup {d.grade.at} ELSE tpProved'
      <4>1. m \in Nat /\ n \in Nat /\ m <= n
        <5>1. tpPasses \in Nat /\ tpPasses' \in Nat /\ tpPasses <= tpPasses'
          BY <1>4, <1>10
        <5>2. \A a, b \in Nat : a <= b => /\ a + 1 \in Nat /\ b + 1 \in Nat
                                         /\ a + 1 <= b + 1
          OBVIOUS
        <5>3. tpPasses + 1 \in Nat /\ tpPasses' + 1 \in Nat /\ tpPasses + 1 <= tpPasses' + 1
          BY <5>1, <5>2
        <5> QED  BY <5>1, <5>3, Zenon
      <4>2. V \subseteq W
        BY <1>10
      <4>3. d.next # TpNone /\ d.grade # TpNone /\ TpRestsOn(d.next, m, V)
        BY <3>1, <3>3 DEF TpWillRest
      <4> HIDE DEF m, n, V, W
      <4>4. TpRestsOn(d.next, n, W)
        BY <3>2, <4>1, <4>2, <4>3, TpRestsOnMore
      <4> QED  BY <3>1, <3>3, <4>3, <4>4 DEF TpWillRest, TpShadowPass, TpExecutionPass, n, W
    <3>4. CASE d.pc # "grade"
      BY <1>4, <1>10, <3>1, <3>2, <3>4, TpRestsOnMore DEF TpWillRest
    <3> QED  BY <3>3, <3>4
  <2> QED  BY <2>1, <2>2
<1>13. ~tpRaced' => TpFollows'
  <2> SUFFICES ASSUME ~tpRaced' PROVE TpFollows'
    OBVIOUS
  <2>1. ~tpRaced /\ c.read = tpSerial /\ TpWillFollow(c)
    BY <1>2, <1>3
  <2>2. CASE c.pc = "configure"
    BY <1>2, <1>3, <2>1, <2>2 DEF TpFollows, TpWillRest, TpWillFollow
  <2>3. CASE c.pc = "grade"
    BY <1>2, <1>3, <2>1, <2>3 DEF TpFollows, TpWillRest, TpWillFollow
  <2>4. CASE c.pc = "remove"
    BY <1>2, <1>3, <2>1, <2>4 DEF TpFollows, TpWillRest
  <2> QED  BY <1>1, <2>2, <2>3, <2>4
<1>14. ASSUME ~tpRaced', NEW q \in TpProcs PROVE TpWillFollow(tpProc[q])'
  <2>1. CASE q = p
    BY <1>2, <1>4, <1>5, <2>1 DEF TpWillFollow, TpIdle
  <2>2. CASE q # p
    <3>1. tpProc'[q] = tpProc[q] /\ TpWillFollow(tpProc[q])
      BY <1>2, <1>5, <1>14, <2>2 DEF TpInv
    <3>2. tpProc[q].read \in Nat /\ tpProc[q].pc \in {"idle", "configure", "grade", "remove"}
      BY <1>6 DEF TpPending, TpIdle
    <3>3. tpProc[q].pc # "idle" => tpProc[q].read < tpSerial'
      BY <1>2, <1>4, <3>1, <3>2 DEF TpWillFollow
    <3> QED  BY <1>2, <1>4, <3>1, <3>2, <3>3 DEF TpWillFollow
  <2> QED  BY <2>1, <2>2
<1> QED  BY <1>9, <1>11, <1>12, <1>13, <1>14 DEF TpInv

\* Every step of every command keeps the invariant.
LEMMA TpNextInv == TpInv /\ [TpNext]_tpVars => TpInv'
<1> SUFFICES ASSUME TpInv, [TpNext]_tpVars PROVE TpInv'
  OBVIOUS
<1>1. CASE UNCHANGED tpVars
  BY <1>1 DEF tpVars, TpInv, TpTypes, TpWillRest, TpWillFollow, TpFollows
<1>2. ASSUME NEW p \in TpProcs, TpRemove(p) PROVE TpInv'
  <2>1. tpSerial \in Nat /\ TpReads(p, TpNone, TpNone, "remove")
    BY <1>2 DEF TpRemove, TpInv, TpTypes
  <2> QED  BY <2>1, TpReadsInv DEF TpWillRest, TpWillFollow
<1> QED  BY <1>1, <1>2, TpConfigureInv, TpGradeInv, TpWriteInv DEF TpNext

\* A project is unattended only on a passed execution grade at build, and at
\* assist only after its shadow passes, however commands overwrite each other;
\* and as long as no write passed over an unread one, its counted passes are the
\* consecutive ones and its trust is the owner's last word (policy.ts).
THEOREM TrustIsSafe == TpSpec => []TpSafe
<1>1. TpInv => TpSafe
  <2> SUFFICES ASSUME TpInv PROVE TpSafe
    OBVIOUS
  <2>1. TpTypeOK
    BY DEF TpInv, TpTypes, TpTypeOK, TpPending, TpIdle
  <2>2. TpTrustIsEarned
    BY DEF TpInv, TpTrustIsEarned, TpRestsOn
  <2>3. TpFailsCount /\ TpOwnerDecides
    BY DEF TpInv, TpFollows, TpFailsCount, TpOwnerDecides
  <2> QED  BY <2>1, <2>2, <2>3 DEF TpSafe
<1> QED  BY <1>1, TpInitInv, TpNextInv, PTL DEF TpSpec

-----------------------------------------------------------------------------
(* Authority to execute *)

\* What a step may not do to a lease that is closed.
GwKeepsClosed ==
  \A l \in GwLeases : gwLease[l] \in {"succeeded", "failed", "cancelled", "expired"}
                        => gwLease'[l] = gwLease[l]

\* One execution moves; what it becomes is an execution that has its lease.
LEMMA GwExecMoves ==
  ASSUME GwExecOK, NEW e \in GwExecs, NEW x \in GwExecution, GwHasItsLease(x),
         gwExec' = [gwExec EXCEPT ![e] = x]
  PROVE  GwExecOK'
<1>1. gwExec' \in [GwExecs -> GwExecution]
  BY DEF GwExecOK
<1>2. \A f \in GwExecs : gwExec'[f] = IF f = e THEN x ELSE gwExec[f]
  BY DEF GwExecOK
<1>3. \A f \in GwExecs : GwHasItsLease(gwExec'[f])
  BY <1>2 DEF GwExecOK
<1> QED  BY <1>1, <1>3 DEF GwExecOK

\* Leases change their status; no lease comes back to where a start may be made of it.
LEMMA GwLeasesMove ==
  ASSUME GwLeaseOK, gwLease' \in [GwLeases -> GwLeaseStates], UNCHANGED gwStarted,
         gwWitness' \subseteq GwLeases, gwWitness \subseteq gwWitness',
         \A l \in GwLeases :
           /\ gwLease'[l] \in {"none", "issued", "admitted"}
                => gwLease[l] \in {"none", "issued", "admitted"}
           /\ gwLease'[l] \in {"validating", "succeeded"}
                => gwLease[l] \in {"validating", "succeeded"} \/ l \in gwWitness'
  PROVE  GwLeaseOK'
<1>1. \A l \in GwLeases : gwLease'[l] \in {"none", "issued", "admitted"} => gwStarted'[l] = {}
  BY DEF GwLeaseOK
<1>2. \A l \in GwLeases : GwAtMostOne(gwStarted[l])'
  BY DEF GwLeaseOK, GwAtMostOne
<1>3. \A l \in GwLeases : gwLease'[l] \in {"validating", "succeeded"} => l \in gwWitness'
  BY DEF GwLeaseOK
<1>4. gwStarted' \in [GwLeases -> SUBSET GwExecs]
  BY DEF GwLeaseOK
<1> QED  BY <1>1, <1>2, <1>3, <1>4 DEF GwLeaseOK

\* Recovery takes live leases only.
LEMMA GwRecovers ==
  ASSUME GwLeaseOK
  PROVE  /\ GwRecovered(gwLease) \in [GwLeases -> GwLeaseStates]
         /\ \A l \in GwLeases : \/ GwRecovered(gwLease)[l] = gwLease[l]
                                \/ /\ GwRecovered(gwLease)[l] = "expired"
                                   /\ gwLease[l] \in GwLive
BY DEF GwLeaseOK, GwRecovered, GwLeaseStates

\* One lease takes another status, not one a start may be made from, and is not validated.
LEMMA GwLeaseCloses ==
  ASSUME GwLeaseOK, NEW f \in [GwLeases -> GwLeaseStates], NEW k \in GwLeases,
         \A l \in GwLeases : \/ f[l] = gwLease[l]
                             \/ f[l] = "expired" /\ gwLease[l] \in GwLive,
         gwLease[k] \in GwLive, gwLease' = [f EXCEPT ![k] = "cancelled"],
         UNCHANGED <<gwStarted, gwWitness>>
  PROVE  GwLeaseOK' /\ GwKeepsClosed
<1>1. gwLease' \in [GwLeases -> GwLeaseStates]
  BY DEF GwLeaseStates
<1>2. \A l \in GwLeases : gwLease'[l] = IF l = k THEN "cancelled" ELSE f[l]
  OBVIOUS
<1>3. GwKeepsClosed
  BY <1>2 DEF GwKeepsClosed, GwLive
<1>4. \A l \in GwLeases :
           /\ gwLease'[l] \in {"none", "issued", "admitted"}
                => gwLease[l] \in {"none", "issued", "admitted"}
           /\ gwLease'[l] \in {"validating", "succeeded"}
                => gwLease[l] \in {"validating", "succeeded"}
  BY <1>2
<1>5. gwWitness' \subseteq GwLeases /\ gwWitness \subseteq gwWitness'
  BY DEF GwLeaseOK
<1> QED  BY <1>1, <1>3, <1>4, <1>5, GwLeasesMove

\* Nothing has been granted at the start.
LEMMA GwInitInv == GwInit => GwInv
<1> SUFFICES ASSUME GwInit PROVE GwInv
  OBVIOUS
<1>1. GwWorldOK
  <2>1. gwActivated \in BOOLEAN
    BY GwAssumption DEF GwInit
  <2>2. gwNow = 0 /\ gwStop = FALSE /\ gwSession = 0 /\ gwOpened = 0
    BY DEF GwInit
  <2>3. 0 \in 0 .. GwMaxTime
    BY GwAssumption
  <2>4. gwExpect \in [GwLeases -> GwExpects \cup {"none"}]
    BY DEF GwInit
  <2> QED  BY <2>1, <2>2, <2>3, <2>4 DEF GwWorldOK
<1>2. GwIdleExec \in GwExecution /\ GwHasItsLease(GwIdleExec)
  BY DEF GwIdleExec, GwExecution, GwHasItsLease
<1>3. GwExecOK
  BY <1>2 DEF GwInit, GwExecOK
<1>4. GwLeaseOK
  BY DEF GwInit, GwLeaseOK, GwAtMostOne, GwLeaseStates
<1>5. GwDecisionOK
  BY DEF GwInit, GwDecisionOK, GwAtMostOne
<1> QED  BY <1>1, <1>3, <1>4, <1>5 DEF GwInv

\* The leases' own operations and the owner's.
LEMMA GwOwnInv ==
  ASSUME GwInv,
         \/ \E l \in GwLeases : GwIssue(l) \/ GwRevoke(l) \/ GwTerminalize(l)
         \/ GwRecover
  PROVE  GwInv' /\ GwKeepsClosed
<1>0. GwLeaseOK
  BY DEF GwInv
<1>1. CASE GwRecover
  <2>1. gwLease' = GwRecovered(gwLease) /\ UNCHANGED <<gwWorld, gwExpect, gwDecision, gwExec, gwHistory>>
    BY <1>1 DEF GwRecover
  <2>2. GwLeaseOK' /\ GwKeepsClosed
    <3>1. GwKeepsClosed
      BY <1>0, <2>1, GwRecovers DEF GwKeepsClosed, GwLive
    <3>2. gwWitness' \subseteq GwLeases /\ gwWitness \subseteq gwWitness' /\ UNCHANGED gwStarted
      BY <1>0, <2>1 DEF GwLeaseOK, gwHistory
    <3>3. GwLeaseOK'
      BY <1>0, <2>1, <3>2, GwRecovers, GwLeasesMove
    <3> QED  BY <3>1, <3>3
  <2> QED  BY <2>1, <2>2 DEF GwInv, GwWorldOK, GwExecOK, GwDecisionOK, GwAtMostOne, gwWorld, gwHistory
<1>2. ASSUME NEW l \in GwLeases, GwIssue(l) PROVE GwInv' /\ GwKeepsClosed
  <2>1. /\ gwLease' = [GwRecovered(gwLease) EXCEPT ![l] = "issued"] /\ gwLease[l] = "none"
        /\ UNCHANGED <<gwWorld, gwDecision, gwExec, gwHistory>>
    BY <1>2 DEF GwIssue
  <2>2. gwLease' \in [GwLeases -> GwLeaseStates]
    BY <1>0, <2>1, GwRecovers DEF GwLeaseStates, GwLive
  <2>3. \A k \in GwLeases : gwLease'[k] = IF k = l THEN "issued" ELSE GwRecovered(gwLease)[k]
    BY <1>0, <2>1, GwRecovers
  <2>4. GwKeepsClosed
    BY <1>0, <2>1, <2>3, GwRecovers DEF GwKeepsClosed, GwLive
  <2>5. gwWitness' \subseteq GwLeases /\ gwWitness \subseteq gwWitness' /\ UNCHANGED gwStarted
    BY <1>0, <2>1 DEF GwLeaseOK, gwHistory
  <2>6. GwLeaseOK'
    <3>1. \A k \in GwLeases :
           /\ gwLease'[k] \in {"none", "issued", "admitted"}
                => gwLease[k] \in {"none", "issued", "admitted"}
           /\ gwLease'[k] \in {"validating", "succeeded"}
                => gwLease[k] \in {"validating", "succeeded"}
      BY <1>0, <2>1, <2>3, GwRecovers
    <3> QED  BY <1>0, <2>2, <2>5, <3>1, GwLeasesMove
  <2>7. gwExpect' \in [GwLeases -> GwExpects \cup {"none"}]
    <3>1. PICK status \in GwExpects : gwExpect' = [gwExpect EXCEPT ![l] = status]
      BY <1>2 DEF GwIssue
    <3> QED  BY <3>1 DEF GwInv, GwWorldOK
  <2> QED  BY <2>1, <2>4, <2>6, <2>7 DEF GwInv, GwWorldOK, GwExecOK, GwDecisionOK, GwAtMostOne, gwWorld, gwHistory
<1>3. ASSUME NEW l \in GwLeases, GwRevoke(l) PROVE GwInv' /\ GwKeepsClosed
  <2>1. /\ gwLease' = [gwLease EXCEPT ![l] = "cancelled"] /\ gwLease[l] \in GwLive
        /\ UNCHANGED <<gwWorld, gwExpect, gwDecision, gwExec, gwHistory>>
    BY <1>3 DEF GwRevoke
  <2>2. GwLeaseOK' /\ GwKeepsClosed
    <3>1. gwLease \in [GwLeases -> GwLeaseStates] /\ UNCHANGED <<gwStarted, gwWitness>>
      BY <1>0, <2>1 DEF GwLeaseOK, gwHistory
    <3> QED  BY <1>0, <2>1, <3>1, GwLeaseCloses
  <2> QED  BY <2>1, <2>2 DEF GwInv, GwWorldOK, GwExecOK, GwDecisionOK, GwAtMostOne, gwWorld, gwHistory
<1>4. ASSUME NEW l \in GwLeases, GwTerminalize(l) PROVE GwInv' /\ GwKeepsClosed
  <2>1. /\ gwLease' = [gwLease EXCEPT ![l] = "succeeded"] /\ gwLease[l] = "validating"
        /\ UNCHANGED <<gwWorld, gwExpect, gwDecision, gwExec, gwHistory>>
    BY <1>4 DEF GwTerminalize
  <2>2. gwLease' \in [GwLeases -> GwLeaseStates] /\ UNCHANGED gwStarted
    BY <1>0, <2>1 DEF GwLeaseOK, GwLeaseStates, gwHistory
  <2>3. \A k \in GwLeases : gwLease'[k] = IF k = l THEN "succeeded" ELSE gwLease[k]
    BY <1>0, <2>1 DEF GwLeaseOK
  <2>4. GwKeepsClosed
    BY <2>1, <2>3 DEF GwKeepsClosed
  <2>5. gwWitness' \subseteq GwLeases /\ gwWitness \subseteq gwWitness'
    BY <1>0, <2>1 DEF GwLeaseOK, gwHistory
  <2>6. \A k \in GwLeases :
           /\ gwLease'[k] \in {"none", "issued", "admitted"}
                => gwLease[k] \in {"none", "issued", "admitted"}
           /\ gwLease'[k] \in {"validating", "succeeded"}
                => gwLease[k] \in {"validating", "succeeded"}
    BY <2>1, <2>3
  <2>7. GwLeaseOK'
    BY <1>0, <2>2, <2>5, <2>6, GwLeasesMove
  <2> QED  BY <2>1, <2>4, <2>7 DEF GwInv, GwWorldOK, GwExecOK, GwDecisionOK, GwAtMostOne, gwWorld, gwHistory
<1> QED  BY <1>1, <1>2, <1>3, <1>4

\* Approvals, sessions, the kill switch and the clock.
LEMMA GwWorldInv ==
  ASSUME GwInv,
         \/ \E d \in GwDecisions : \/ \E status \in {"approved", "rejected"} : GwResolveDecision(d, status)
                                   \/ GwExpireDecision(d)
         \/ GwOpenSession \/ GwEndSession \/ GwToggleStop \/ GwTick
  PROVE  GwInv' /\ GwKeepsClosed
<1>1. ASSUME NEW d \in GwDecisions, NEW status \in {"approved", "rejected", "expired"},
             gwDecision[d] = "open", gwDecision' = [gwDecision EXCEPT ![d] = status],
             UNCHANGED <<gwWorld, gwExpect, gwLease, gwExec, gwHistory>>
      PROVE  GwInv' /\ GwKeepsClosed
  <2>1. gwDecision' \in [GwDecisions -> {"open", "approved", "rejected", "expired", "consumed"}]
    BY <1>1 DEF GwInv, GwDecisionOK
  <2>2. \A c \in GwDecisions : gwDecision'[c] = IF c = d THEN status ELSE gwDecision[c]
    BY <1>1 DEF GwInv, GwDecisionOK
  <2>3. \A c \in GwDecisions : gwDecision'[c] # "consumed" => gwUses'[c] = {}
    BY <1>1, <2>2 DEF GwInv, GwDecisionOK, gwHistory
  <2>4. GwDecisionOK'
    BY <1>1, <2>1, <2>3 DEF GwInv, GwDecisionOK, GwAtMostOne, gwHistory
  <2> QED  BY <1>1, <2>4 DEF GwInv, GwWorldOK, GwExecOK, GwLeaseOK, GwAtMostOne, GwKeepsClosed, gwWorld, gwHistory
<1>2. CASE GwOpenSession \/ GwEndSession \/ GwToggleStop \/ GwTick
  <2>1. UNCHANGED <<gwActivated, gwExpect, gwLease, gwDecision, gwExec, gwHistory>>
    BY <1>2 DEF GwOpenSession, GwEndSession, GwToggleStop, GwTick
  <2>2. /\ gwStop' \in BOOLEAN
        /\ gwSession' \in GwSessions \cup {0} /\ gwOpened' \in GwSessions \cup {0}
    BY <1>2 DEF GwInv, GwWorldOK, GwOpenSession, GwEndSession, GwToggleStop, GwTick
  <2>3. gwNow' \in 0 .. GwMaxTime
    BY <1>2, GwAssumption DEF GwInv, GwWorldOK, GwOpenSession, GwEndSession, GwToggleStop, GwTick
  <2> QED  BY <2>1, <2>2, <2>3 DEF GwInv, GwWorldOK, GwExecOK, GwLeaseOK, GwDecisionOK, GwAtMostOne, GwKeepsClosed, gwHistory
<1>3. ASSUME NEW d \in GwDecisions, NEW status \in {"approved", "rejected"}, GwResolveDecision(d, status)
      PROVE  GwInv' /\ GwKeepsClosed
  BY <1>1, <1>3 DEF GwResolveDecision
<1>4. ASSUME NEW d \in GwDecisions, GwExpireDecision(d) PROVE GwInv' /\ GwKeepsClosed
  BY <1>1, <1>4 DEF GwExpireDecision
<1> QED  BY <1>2, <1>3, <1>4

\* The steps of one execution that touch nothing else.
LEMMA GwCallInv ==
  ASSUME GwInv, NEW e \in GwExecs,
         \/ \E host \in BOOLEAN, needs \in GwDecisions \cup {GwNone} : GwAsk(e, host, needs)
         \/ GwResolve(e) \/ GwPassHost(e) \/ GwWatch(e) \/ GwExit(e) \/ GwLoseFence(e)
         \/ GwCrash(e)
  PROVE  GwInv' /\ GwKeepsClosed
<1> DEFINE Moves == \E x \in GwExecution : GwHasItsLease(x) /\ gwExec' = [gwExec EXCEPT ![e] = x]
<1>0. GwExecOK /\ gwExec[e] \in GwExecution /\ GwHasItsLease(gwExec[e])
  BY DEF GwInv, GwExecOK
<1>1. UNCHANGED <<gwWorld, gwExpect, gwLease, gwDecision, gwHistory>>
  BY DEF GwAsk, GwResolve, GwPassHost, GwWatch, GwExit, GwLoseFence, GwCrash
<1>2. ASSUME NEW host \in BOOLEAN, NEW needs \in GwDecisions \cup {GwNone}, GwAsk(e, host, needs)
      PROVE  Moves
  <2>1. [GwIdleExec EXCEPT !.pc = "asked", !.host = host, !.needs = needs, !.fenced = TRUE]
          \in GwExecution
    BY DEF GwIdleExec, GwExecution
  <2>2. GwHasItsLease([GwIdleExec EXCEPT !.pc = "asked", !.host = host, !.needs = needs,
                                         !.fenced = TRUE])
    BY DEF GwIdleExec, GwHasItsLease
  <2> QED  BY <1>2, <2>1, <2>2 DEF GwAsk
<1>3. ASSUME GwEnd(e) PROVE Moves
  <2>1. [GwIdleExec EXCEPT !.pc = "done"] \in GwExecution
    BY DEF GwIdleExec, GwExecution
  <2>2. GwHasItsLease([GwIdleExec EXCEPT !.pc = "done"])
    BY DEF GwIdleExec, GwHasItsLease
  <2> QED  BY <1>3, <2>1, <2>2 DEF GwEnd
<1>4. ASSUME GwResolve(e) PROVE Moves
  <2>1. CASE gwExec[e].fenced /\ (GwSessionValid \/ gwActivated)
    <3> DEFINE kind == IF GwSessionValid THEN "workshop" ELSE "plain"
               session == IF GwSessionValid THEN gwSession ELSE 0
               x == [gwExec[e] EXCEPT !.pc = "checked", !.kind = kind, !.session = session]
    <3>1. gwExec' = [gwExec EXCEPT ![e].pc = "checked", ![e].kind = kind, ![e].session = session]
      BY <1>4, <2>1 DEF GwResolve
    <3>2. kind \in {"plain", "workshop"} /\ session \in GwSessions \cup {0}
      BY DEF GwInv, GwWorldOK
    <3>3. gwExec[e].pc = "asked"
      BY <1>4 DEF GwResolve, GwAt
    <3> HIDE DEF kind, session
    <3>4. gwExec' = [gwExec EXCEPT ![e] = x]
      BY <3>1 DEF GwInv, GwExecOK
    <3>5. x \in GwExecution
      BY <1>0, <3>2 DEF GwExecution
    <3>6. x.kind = kind /\ x.lease = gwExec[e].lease /\ x.pc = "checked"
      BY <1>0 DEF GwExecution
    <3>7. GwHasItsLease(x)
      BY <1>0, <3>2, <3>3, <3>6 DEF GwHasItsLease
    <3> QED  BY <3>4, <3>5, <3>7
  <2> QED  BY <1>3, <1>4, <2>1 DEF GwResolve
<1>5. ASSUME GwPassHost(e) PROVE Moves
  <2> DEFINE x == [gwExec[e] EXCEPT !.pc = "passed"]
  <2>1. gwExec' = [gwExec EXCEPT ![e] = x]
    BY <1>5 DEF GwPassHost, GwGoto, GwInv, GwExecOK
  <2>2. /\ x \in GwExecution /\ x.kind = gwExec[e].kind /\ x.lease = gwExec[e].lease
        /\ x.pc = "passed" /\ x.host = gwExec[e].host
    BY <1>0 DEF GwExecution
  <2> QED  BY <1>0, <2>1, <2>2 DEF GwHasItsLease
<1>6. ASSUME GwWatch(e) PROVE Moves
  <2> DEFINE x == [gwExec[e] EXCEPT !.cancelled = TRUE]
  <2>1. gwExec' = [gwExec EXCEPT ![e] = x]
    BY <1>6 DEF GwWatch, GwInv, GwExecOK
  <2>2. /\ x \in GwExecution /\ x.kind = gwExec[e].kind /\ x.lease = gwExec[e].lease
        /\ x.pc = gwExec[e].pc /\ x.host = gwExec[e].host
    BY <1>0 DEF GwExecution
  <2> QED  BY <1>0, <2>1, <2>2 DEF GwHasItsLease
<1>7. ASSUME GwLoseFence(e) PROVE Moves
  <2> DEFINE x == [gwExec[e] EXCEPT !.fenced = FALSE]
  <2>1. gwExec' = [gwExec EXCEPT ![e] = x]
    BY <1>7 DEF GwLoseFence, GwInv, GwExecOK
  <2>2. /\ x \in GwExecution /\ x.kind = gwExec[e].kind /\ x.lease = gwExec[e].lease
        /\ x.pc = gwExec[e].pc /\ x.host = gwExec[e].host
    BY <1>0 DEF GwExecution
  <2> QED  BY <1>0, <2>1, <2>2 DEF GwHasItsLease
<1>8. ASSUME GwExit(e) PROVE Moves
  <2>1. PICK outcome \in {"none", "succeeded", "failed", "cancelled", "timed_out"} :
          gwExec' = [gwExec EXCEPT ![e] = [GwIdleExec EXCEPT !.pc = "ended", !.kind = gwExec[e].kind,
                                             !.lease = gwExec[e].lease, !.outcome = outcome]]
    BY <1>8 DEF GwExit
  <2> DEFINE x == [GwIdleExec EXCEPT !.pc = "ended", !.kind = gwExec[e].kind,
                                     !.lease = gwExec[e].lease, !.outcome = outcome]
  <2>2. /\ x \in GwExecution /\ x.kind = gwExec[e].kind /\ x.lease = gwExec[e].lease
        /\ x.pc = "ended" /\ ~x.host
    BY <1>0 DEF GwExecution, GwIdleExec
  <2> QED  BY <1>0, <2>1, <2>2 DEF GwHasItsLease
<1>9. ASSUME GwCrash(e) PROVE Moves
  BY <1>3, <1>9 DEF GwCrash
<1>10. Moves
  BY <1>2, <1>4, <1>5, <1>6, <1>7, <1>8, <1>9
<1>11. GwExecOK'
  BY <1>0, <1>10, GwExecMoves
<1> QED  BY <1>1, <1>11 DEF GwInv, GwWorldOK, GwLeaseOK, GwDecisionOK, GwAtMostOne, GwKeepsClosed,
                            gwWorld, gwHistory

\* A refused or ended call is idle again.
LEMMA GwEnds ==
  ASSUME GwExecOK, NEW e \in GwExecs, GwEnd(e)
  PROVE  GwExecOK'
<1>1. [GwIdleExec EXCEPT !.pc = "done"] \in GwExecution
  BY DEF GwIdleExec, GwExecution
<1>2. GwHasItsLease([GwIdleExec EXCEPT !.pc = "done"])
  BY DEF GwIdleExec, GwHasItsLease
<1> QED  BY <1>1, <1>2, GwExecMoves DEF GwEnd

\* The revocation of an admitted lease closes it, whatever its status was.
LEMMA GwRevokes ==
  ASSUME GwLeaseOK, GwExecOK, NEW e \in GwExecs, GwRevokeAdmitted(e),
         UNCHANGED <<gwStarted, gwWitness>>
  PROVE  GwLeaseOK' /\ GwKeepsClosed
<1> DEFINE k == gwExec[e].lease
<1>1. k \in GwLeases \cup {GwNone}
  BY DEF GwExecOK, GwExecution
<1>2. CASE k # GwNone /\ gwLease[k] \in GwLive
  <2>1. gwLease' = [gwLease EXCEPT ![k] = "cancelled"] /\ k \in GwLeases
    BY <1>1, <1>2 DEF GwRevokeAdmitted
  <2>2. gwLease \in [GwLeases -> GwLeaseStates]
    BY DEF GwLeaseOK
  <2> QED  BY <1>2, <2>1, <2>2, GwLeaseCloses
<1>3. CASE ~(k # GwNone /\ gwLease[k] \in GwLive)
  <2>1. UNCHANGED gwLease
    BY <1>3 DEF GwRevokeAdmitted
  <2> QED  BY <2>1 DEF GwLeaseOK, GwAtMostOne, GwKeepsClosed
<1> QED  BY <1>2, <1>3

\* Admission takes an issued lease.
LEMMA GwAdmitInv ==
  ASSUME GwInv, NEW e \in GwExecs, NEW l \in GwLeases, GwAdmit(e, l)
  PROVE  GwInv' /\ GwKeepsClosed
<1>0. GwExecOK /\ GwLeaseOK /\ gwExec[e] \in GwExecution
  BY DEF GwInv, GwExecOK
<1>1. UNCHANGED <<gwWorld, gwExpect, gwDecision, gwHistory>>
  BY DEF GwAdmit
<1>2. CASE ~gwStop /\ gwExec[e].fenced /\ GwAdmissible(l)
  <2> DEFINE x == [gwExec[e] EXCEPT !.pc = "checked", !.kind = "staged", !.lease = l]
  <2>1. gwExec' = [gwExec EXCEPT ![e].pc = "checked", ![e].kind = "staged", ![e].lease = l]
    BY <1>2 DEF GwAdmit
  <2>2. gwExec' = [gwExec EXCEPT ![e] = x]
    BY <1>0, <2>1 DEF GwExecOK
  <2>3. /\ x \in GwExecution /\ x.kind = "staged" /\ x.lease = l /\ x.pc = "checked"
        /\ x.host = gwExec[e].host
    BY <1>0 DEF GwExecution
  <2>4. GwHasItsLease(x)
    <3>1. ~gwExec[e].host
      BY DEF GwAdmit
    <3> QED  BY <2>3, <3>1, GwAssumption DEF GwHasItsLease
  <2>5. GwExecOK'
    BY <1>0, <2>2, <2>3, <2>4, GwExecMoves
  <2>6. gwLease' = [gwLease EXCEPT ![l] = "admitted"] /\ gwLease[l] = "issued"
    BY <1>2 DEF GwAdmit, GwAdmissible
  <2>7. gwLease' \in [GwLeases -> GwLeaseStates]
    BY <1>0, <2>6 DEF GwLeaseOK, GwLeaseStates, GwLive
  <2>8. \A k \in GwLeases : gwLease'[k] = IF k = l THEN "admitted" ELSE gwLease[k]
    BY <1>0, <2>6 DEF GwLeaseOK
  <2>9. GwKeepsClosed
    BY <2>6, <2>8 DEF GwKeepsClosed
  <2>10. gwWitness' \subseteq GwLeases /\ gwWitness \subseteq gwWitness' /\ UNCHANGED gwStarted
    BY <1>0, <1>1 DEF GwLeaseOK, gwHistory
  <2>11. \A k \in GwLeases :
           /\ gwLease'[k] \in {"none", "issued", "admitted"}
                => gwLease[k] \in {"none", "issued", "admitted"}
           /\ gwLease'[k] \in {"validating", "succeeded"}
                => gwLease[k] \in {"validating", "succeeded"}
    BY <2>6, <2>8
  <2>12. GwLeaseOK'
    BY <1>0, <2>7, <2>10, <2>11, GwLeasesMove
  <2> QED  BY <1>1, <2>5, <2>9, <2>12 DEF GwInv, GwWorldOK, GwDecisionOK, GwAtMostOne, gwWorld, gwHistory
<1>3. CASE ~(~gwStop /\ gwExec[e].fenced /\ GwAdmissible(l))
  <2>1. GwEnd(e) /\ UNCHANGED gwLease
    BY <1>3 DEF GwAdmit
  <2>2. GwExecOK'
    BY <1>0, <2>1, GwEnds
  <2> QED  BY <1>1, <2>1, <2>2 DEF GwInv, GwWorldOK, GwLeaseOK, GwDecisionOK, GwAtMostOne,
                                   GwKeepsClosed, gwWorld, gwHistory
<1> QED  BY <1>2, <1>3

\* The backend's gateway consumes the approval the call needs.
LEMMA GwPassBackendInv ==
  ASSUME GwInv, NEW e \in GwExecs, GwPassBackend(e)
  PROVE  GwInv' /\ GwKeepsClosed
<1> DEFINE x == [gwExec[e] EXCEPT !.pc = "passed", !.needs = GwNone]
           d == gwExec[e].needs
<1>0. GwExecOK /\ GwDecisionOK /\ gwExec[e] \in GwExecution /\ GwHasItsLease(gwExec[e])
  BY DEF GwInv, GwExecOK
<1>1. UNCHANGED <<gwWorld, gwExpect, gwLease, gwStarted, gwWitness>>
  BY DEF GwPassBackend
<1>2. GwExecOK'
  <2>1. gwExec' = [gwExec EXCEPT ![e].pc = "passed", ![e].needs = GwNone]
    BY DEF GwPassBackend
  <2>2. gwExec' = [gwExec EXCEPT ![e] = x]
    BY <1>0, <2>1 DEF GwExecOK
  <2>3. /\ x \in GwExecution /\ x.kind = gwExec[e].kind /\ x.lease = gwExec[e].lease
        /\ x.pc = "passed" /\ x.host = gwExec[e].host
    BY <1>0 DEF GwExecution
  <2>4. GwHasItsLease(x)
    BY <1>0, <2>3 DEF GwHasItsLease
  <2> QED  BY <1>0, <2>2, <2>3, <2>4, GwExecMoves
<1>3. GwDecisionOK'
  <2>1. CASE d = GwNone
    <3>1. UNCHANGED <<gwDecision, gwUses>>
      BY <2>1 DEF GwPassBackend
    <3> QED  BY <1>0, <3>1 DEF GwDecisionOK, GwAtMostOne
  <2>2. CASE d # GwNone
    <3>1. d \in GwDecisions
      BY <1>0, <2>2 DEF GwExecution
    <3>2. gwDecision[d] = "approved"
      BY <2>2 DEF GwPassBackend, GwUsable
    <3>3. gwDecision' = [gwDecision EXCEPT ![d] = "consumed"]
      BY <2>2 DEF GwPassBackend
    <3>4. gwUses' = [gwUses EXCEPT ![d] = @ \cup {e}]
      BY <2>2 DEF GwPassBackend
    <3>5. gwUses[d] = {}
      BY <1>0, <3>1, <3>2 DEF GwDecisionOK
    <3> HIDE DEF d
    <3>6. \A c \in GwDecisions : /\ gwDecision'[c] = IF c = d THEN "consumed" ELSE gwDecision[c]
                                 /\ gwUses'[c] = IF c = d THEN {e} ELSE gwUses[c]
      BY <1>0, <3>1, <3>3, <3>4, <3>5 DEF GwDecisionOK
    <3>7. gwDecision' \in [GwDecisions -> {"open", "approved", "rejected", "expired", "consumed"}]
      BY <1>0, <3>1, <3>3 DEF GwDecisionOK
    <3>8. gwUses' \in [GwDecisions -> SUBSET GwExecs]
      BY <1>0, <3>1, <3>4 DEF GwDecisionOK
    <3>9. \A c \in GwDecisions : gwDecision'[c] # "consumed" => gwUses'[c] = {}
      BY <1>0, <3>6 DEF GwDecisionOK
    <3>10. \A c \in GwDecisions : GwAtMostOne(gwUses'[c])
      BY <1>0, <3>6 DEF GwDecisionOK, GwAtMostOne
    <3> QED  BY <3>7, <3>8, <3>9, <3>10 DEF GwDecisionOK, GwAtMostOne
  <2> QED  BY <2>1, <2>2
<1> QED  BY <1>1, <1>2, <1>3 DEF GwInv, GwWorldOK, GwLeaseOK, GwAtMostOne, GwKeepsClosed, gwWorld

\* A static check refuses.
LEMMA GwRefuseInv ==
  ASSUME GwInv, NEW e \in GwExecs, GwRefuse(e)
  PROVE  GwInv' /\ GwKeepsClosed
<1>1. /\ GwRevokeAdmitted(e) /\ GwEnd(e)
      /\ UNCHANGED <<gwWorld, gwExpect, gwDecision, gwHistory>>
  BY DEF GwRefuse
<1>2. GwExecOK'
  BY <1>1, GwEnds DEF GwInv
<1>3. GwLeaseOK' /\ GwKeepsClosed
  <2>1. UNCHANGED <<gwStarted, gwWitness>>
    BY <1>1 DEF gwHistory
  <2> QED  BY <1>1, <2>1, GwRevokes DEF GwInv
<1> QED  BY <1>1, <1>2, <1>3 DEF GwInv, GwWorldOK, GwDecisionOK, GwAtMostOne, gwWorld, gwHistory

\* The start of a staged execution consumes the lease it was admitted under.
LEMMA GwStartInv ==
  ASSUME GwInv, NEW e \in GwExecs, GwStart(e)
  PROVE  GwInv' /\ GwKeepsClosed
<1> DEFINE l == gwExec[e].lease
           Starts == GwStartable(e) /\ (gwExec[e].kind = "staged" => gwExec[e].fenced)
<1>0. GwExecOK /\ GwLeaseOK /\ gwExec[e] \in GwExecution /\ GwHasItsLease(gwExec[e])
  BY DEF GwInv, GwExecOK
<1>1. UNCHANGED <<gwWorld, gwExpect, gwDecision, gwWitness, gwUses>>
  BY DEF GwStart
<1>2. CASE Starts
  <2> DEFINE x == [gwExec[e] EXCEPT !.pc = "running"]
  <2>1. gwExec' = [gwExec EXCEPT ![e] = x]
    BY <1>0, <1>2 DEF GwStart, GwGoto, GwExecOK
  <2>2. /\ x \in GwExecution /\ x.kind = gwExec[e].kind /\ x.lease = gwExec[e].lease
        /\ x.pc = "running" /\ x.host = gwExec[e].host
    BY <1>0 DEF GwExecution
  <2>3. GwExecOK'
    BY <1>0, <2>1, <2>2, GwExecMoves DEF GwHasItsLease
  <2>4. GwLeaseOK' /\ GwKeepsClosed
    <3>1. CASE gwExec[e].kind = "staged"
      <4>1. l \in GwLeases
        BY <1>0, <3>1 DEF GwHasItsLease, GwExecution
      <4>2. gwLease[l] = "admitted"
        <5>1. ~gwExec[e].host
          BY <1>0, <3>1 DEF GwHasItsLease
        <5>2. GwConsumable(l)
          BY <1>2, <3>1, <5>1 DEF GwStartable
        <5> QED  BY <5>2 DEF GwConsumable
      <4> QED
        <5>1. gwLease' = [gwLease EXCEPT ![l] = "running"]
          BY <1>2, <3>1 DEF GwStart
        <5>2. gwStarted' = [gwStarted EXCEPT ![l] = @ \cup {e}]
          BY <1>2, <3>1 DEF GwStart
        <5>3. gwStarted[l] = {}
          BY <1>0, <4>1, <4>2 DEF GwLeaseOK
        <5> HIDE DEF l
        <5>4. \A k \in GwLeases : /\ gwLease'[k] = IF k = l THEN "running" ELSE gwLease[k]
                                  /\ gwStarted'[k] = IF k = l THEN {e} ELSE gwStarted[k]
          BY <1>0, <4>1, <5>1, <5>2, <5>3 DEF GwLeaseOK
        <5>5. gwLease' \in [GwLeases -> GwLeaseStates]
          BY <1>0, <4>1, <5>1 DEF GwLeaseOK, GwLeaseStates, GwLive
        <5>6. gwStarted' \in [GwLeases -> SUBSET GwExecs]
          BY <1>0, <4>1, <5>2 DEF GwLeaseOK
        <5>7. \A k \in GwLeases : gwLease'[k] \in {"none", "issued", "admitted"} => gwStarted'[k] = {}
          BY <1>0, <5>4 DEF GwLeaseOK
        <5>8. \A k \in GwLeases : GwAtMostOne(gwStarted'[k])
          BY <1>0, <5>4 DEF GwLeaseOK, GwAtMostOne
        <5>9. \A k \in GwLeases : gwLease'[k] \in {"validating", "succeeded"} => k \in gwWitness'
          BY <1>0, <1>1, <5>4 DEF GwLeaseOK
        <5>10. GwKeepsClosed
          BY <4>2, <5>4 DEF GwKeepsClosed
        <5>11. gwWitness' \subseteq GwLeases
          BY <1>0, <1>1 DEF GwLeaseOK
        <5> QED  BY <5>5, <5>6, <5>7, <5>8, <5>9, <5>10, <5>11 DEF GwLeaseOK, GwAtMostOne
    <3>2. CASE gwExec[e].kind # "staged"
      <4>1. UNCHANGED <<gwLease, gwStarted>>
        BY <1>2, <3>2 DEF GwStart
      <4> QED  BY <1>0, <1>1, <4>1 DEF GwLeaseOK, GwAtMostOne, GwKeepsClosed
    <3> QED  BY <3>1, <3>2
  <2> QED  BY <1>1, <2>3, <2>4 DEF GwInv, GwWorldOK, GwDecisionOK, GwAtMostOne, gwWorld
<1>3. CASE ~Starts
  <2>1. GwEnd(e) /\ GwRevokeAdmitted(e) /\ UNCHANGED gwStarted
    BY <1>3 DEF GwStart
  <2>2. GwExecOK'
    BY <1>0, <2>1, GwEnds
  <2>3. UNCHANGED gwWitness
    BY <1>1
  <2>4. GwLeaseOK' /\ GwKeepsClosed
    BY <1>0, <2>1, <2>3, GwRevokes
  <2> QED  BY <1>1, <2>2, <2>4 DEF GwInv, GwWorldOK, GwDecisionOK, GwAtMostOne, gwWorld
<1> QED  BY <1>2, <1>3

\* Settlement closes a running lease or lets it be validated, and never one that expired.
LEMMA GwSettleInv ==
  ASSUME GwInv, NEW e \in GwExecs, NEW clean \in BOOLEAN, GwSettle(e, clean)
  PROVE  GwInv' /\ GwKeepsClosed
<1> DEFINE l == gwExec[e].lease
           status == GwSettled(l, gwExec[e].outcome, clean)
<1>0. GwExecOK /\ GwLeaseOK /\ gwExec[e] \in GwExecution /\ GwHasItsLease(gwExec[e])
  BY DEF GwInv, GwExecOK
<1>1. /\ GwEnd(e)
      /\ UNCHANGED <<gwWorld, gwExpect, gwDecision, gwStarted, gwUses>>
  BY DEF GwSettle
<1>2. GwExecOK'
  BY <1>0, <1>1, GwEnds
<1>3. status \in {"validating", "cancelled", "failed"}
  BY DEF GwSettled
<1>4. GwLeaseOK' /\ GwKeepsClosed
  <2>1. CASE gwExec[e].kind # "staged"
    <3>1. UNCHANGED <<gwLease, gwWitness>>
      BY <2>1 DEF GwSettle
    <3> QED  BY <1>0, <1>1, <3>1 DEF GwLeaseOK, GwAtMostOne, GwKeepsClosed
  <2>2. CASE gwExec[e].kind = "staged" /\ GwSettleable(l, status)
    <3>1. /\ gwLease' = [gwLease EXCEPT ![l] = status]
          /\ gwWitness' = IF gwExec[e].outcome = gwExpect[l] /\ clean /\ gwNow < GwExpiry
                            THEN gwWitness \cup {l} ELSE gwWitness
      BY <2>2 DEF GwSettle
    <3>2. l \in GwLeases /\ gwLease[l] = "running"
      BY <1>0, <2>2 DEF GwHasItsLease, GwExecution, GwSettleable
    <3>3. status = "validating" => l \in gwWitness'
      BY <2>2, <3>1 DEF GwSettleable, GwSettled
    <3> HIDE DEF l, status
    <3>4. \A k \in GwLeases : gwLease'[k] = IF k = l THEN status ELSE gwLease[k]
      BY <1>0, <3>1, <3>2 DEF GwLeaseOK
    <3>5. gwLease' \in [GwLeases -> GwLeaseStates]
      BY <1>0, <1>3, <3>1, <3>2 DEF GwLeaseOK, GwLeaseStates, GwLive
    <3>6. gwWitness' \subseteq GwLeases /\ gwWitness \subseteq gwWitness'
      BY <1>0, <3>1, <3>2 DEF GwLeaseOK
    <3>7. GwKeepsClosed
      BY <3>2, <3>4 DEF GwKeepsClosed
    <3>8. \A k \in GwLeases :
           /\ gwLease'[k] \in {"none", "issued", "admitted"}
                => gwLease[k] \in {"none", "issued", "admitted"}
           /\ gwLease'[k] \in {"validating", "succeeded"}
                => gwLease[k] \in {"validating", "succeeded"} \/ k \in gwWitness'
      BY <1>3, <3>3, <3>4
    <3>9. UNCHANGED gwStarted
      BY <1>1
    <3>10. GwLeaseOK'
      BY <1>0, <3>5, <3>6, <3>8, <3>9, GwLeasesMove
    <3> QED  BY <3>7, <3>10
  <2>3. CASE gwExec[e].kind = "staged" /\ ~GwSettleable(l, status)
    <3> DEFINE f == GwRecovered(gwLease)
    <3>1. /\ gwLease' = [f EXCEPT ![l] = IF @ \in GwLive THEN "cancelled" ELSE @]
          /\ UNCHANGED gwWitness
      BY <2>3 DEF GwSettle
    <3>2. l \in GwLeases
      BY <1>0, <2>3 DEF GwHasItsLease, GwExecution
    <3>3. /\ f \in [GwLeases -> GwLeaseStates]
          /\ \A k \in GwLeases : \/ f[k] = gwLease[k]
                                 \/ f[k] = "expired" /\ gwLease[k] \in GwLive
      BY <1>0, GwRecovers
    <3> HIDE DEF l, f
    <3>4. CASE f[l] \in GwLive
      <4>1. gwLease' = [f EXCEPT ![l] = "cancelled"]
        BY <3>1, <3>4
      <4>2. gwLease[l] \in GwLive
        BY <3>2, <3>3, <3>4
      <4>3. UNCHANGED <<gwStarted, gwWitness>>
        BY <1>1, <3>1
      <4> QED  BY <1>0, <3>2, <3>3, <4>1, <4>2, <4>3, GwLeaseCloses
    <3>5. CASE f[l] \notin GwLive
      <4>1. gwLease' = f
        BY <3>1, <3>2, <3>3, <3>5
      <4>2. GwKeepsClosed
        BY <3>3, <4>1 DEF GwKeepsClosed, GwLive
      <4>3. gwWitness' \subseteq GwLeases /\ gwWitness \subseteq gwWitness' /\ UNCHANGED gwStarted
        BY <1>0, <1>1, <3>1 DEF GwLeaseOK
      <4>4. \A k \in GwLeases :
           /\ gwLease'[k] \in {"none", "issued", "admitted"}
                => gwLease[k] \in {"none", "issued", "admitted"}
           /\ gwLease'[k] \in {"validating", "succeeded"}
                => gwLease[k] \in {"validating", "succeeded"}
        BY <3>3, <4>1
      <4>5. GwLeaseOK'
        BY <1>0, <3>3, <4>1, <4>3, <4>4, GwLeasesMove
      <4> QED  BY <4>2, <4>5
    <3> QED  BY <3>4, <3>5
  <2> QED  BY <2>1, <2>2, <2>3
<1> QED  BY <1>1, <1>2, <1>4 DEF GwInv, GwWorldOK, GwDecisionOK, GwAtMostOne, gwWorld

\* Every step keeps the invariant and what is closed.
LEMMA GwNextInv ==
  ASSUME GwInv, [GwNext]_gwVars
  PROVE  GwInv' /\ GwKeepsClosed
<1>1. CASE UNCHANGED gwVars
  <2>1. GwWorldOK' /\ GwExecOK'
    BY <1>1 DEF GwInv, GwWorldOK, GwExecOK, gwVars
  <2>2. GwLeaseOK' /\ GwDecisionOK' /\ GwKeepsClosed
    BY <1>1 DEF GwInv, GwLeaseOK, GwDecisionOK, GwAtMostOne, GwKeepsClosed, gwVars
  <2> QED  BY <2>1, <2>2 DEF GwInv
<1>2. CASE \/ \E l \in GwLeases : GwIssue(l) \/ GwRevoke(l) \/ GwTerminalize(l)
           \/ GwRecover
  BY <1>2, GwOwnInv
<1>3. CASE \/ \E d \in GwDecisions : \/ \E status \in {"approved", "rejected"} : GwResolveDecision(d, status)
                                     \/ GwExpireDecision(d)
           \/ GwOpenSession \/ GwEndSession \/ GwToggleStop \/ GwTick
  BY <1>3, GwWorldInv
<1>4. ASSUME NEW e \in GwExecs,
             \/ \E host \in BOOLEAN, needs \in GwDecisions \cup {GwNone} : GwAsk(e, host, needs)
             \/ GwResolve(e) \/ GwPassHost(e) \/ GwWatch(e) \/ GwExit(e) \/ GwLoseFence(e)
             \/ GwCrash(e)
      PROVE  GwInv' /\ GwKeepsClosed
  BY <1>4, GwCallInv
<1>5. ASSUME NEW e \in GwExecs,
             \/ \E l \in GwLeases : GwAdmit(e, l)
             \/ GwPassBackend(e) \/ GwRefuse(e) \/ GwStart(e)
             \/ \E clean \in BOOLEAN : GwSettle(e, clean)
      PROVE  GwInv' /\ GwKeepsClosed
  BY <1>5, GwAdmitInv, GwPassBackendInv, GwRefuseInv, GwStartInv, GwSettleInv
<1> QED  BY <1>1, <1>2, <1>3, <1>4, <1>5 DEF GwNext

\* The invariant states the properties.
LEMMA GwInvSafe ==
  ASSUME GwInv
  PROVE  GwTypeOK /\ GwLeaseRunsOnce /\ GwValidatedIsWitnessed /\ GwApprovalOnce
<1>1. GwTypeOK
  <2>1. ASSUME NEW e \in GwExecs
        PROVE  /\ gwExec[e].pc \in {"idle", "asked", "checked", "passed", "running", "ended", "done"}
               /\ gwExec[e].kind \in {"plain", "workshop", "staged"}
               /\ gwExec[e].lease \in IF gwExec[e].kind = "staged" THEN GwLeases ELSE {GwNone}
               /\ gwExec[e].needs \in GwDecisions \cup {GwNone}
               /\ gwExec[e].outcome \in {"none", "succeeded", "failed", "cancelled", "timed_out"}
    BY <2>1 DEF GwInv, GwExecOK, GwExecution, GwHasItsLease
  <2> QED  BY <2>1 DEF GwInv, GwWorldOK, GwLeaseOK, GwDecisionOK, GwTypeOK
<1>2. \A S : GwAtMostOne(S) => Cardinality(S) <= 1
  <2> SUFFICES ASSUME NEW S, GwAtMostOne(S) PROVE Cardinality(S) <= 1
    OBVIOUS
  <2>1. CASE S = {}
    BY <2>1, FS_EmptySet
  <2>2. ASSUME NEW e \in GwExecs, S = {e} PROVE Cardinality(S) <= 1
    BY <2>2, FS_Singleton
  <2> QED  BY <2>1, <2>2 DEF GwAtMostOne
<1>3. GwLeaseRunsOnce /\ GwApprovalOnce
  BY <1>2 DEF GwInv, GwLeaseOK, GwDecisionOK, GwLeaseRunsOnce, GwApprovalOnce
<1>4. GwValidatedIsWitnessed
  BY DEF GwInv, GwLeaseOK, GwValidatedIsWitnessed
<1> QED  BY <1>1, <1>3, <1>4

(* Whatever number of executions, leases, approvals and sessions, whatever the
   expiry: one execution per lease and per approval, a validated lease was
   witnessed before it expired, and a closed lease stays closed. *)
THEOREM GatewayIsSafe == GwSpec => GwSafe
<1>1. GwInit => GwInv
  BY GwInitInv
<1>2. GwInv /\ [GwNext]_gwVars => GwInv'
  BY GwNextInv
<1>3. GwInv => GwTypeOK /\ GwLeaseRunsOnce /\ GwValidatedIsWitnessed /\ GwApprovalOnce
  BY GwInvSafe
<1>4. GwInv /\ [GwNext]_gwVars
        => [\A l \in GwLeases : gwLease[l] \in {"succeeded", "failed", "cancelled", "expired"}
                                  => gwLease'[l] = gwLease[l]]_gwVars
  BY GwNextInv DEF GwKeepsClosed
<1> QED  BY <1>1, <1>2, <1>3, <1>4, PTL DEF GwSpec, GwSafe, GwClosedStaysClosed

-----------------------------------------------------------------------------
(* Capabilities *)

\* The bounds of the registry are numbers.
LEMMA CpNumbers ==
  /\ CpMaxRevision \in Nat /\ CpMaxRevision >= 1 /\ CpMaxUses \in Nat /\ CpMaxCrashes \in Nat
  /\ 0 \in 0..CpMaxRevision /\ 1 \in 1..CpMaxRevision /\ 0 \in 0..CpMaxUses
  /\ 0 \in 0..CpMaxCrashes /\ 1..CpMaxRevision \subseteq 0..CpMaxRevision
BY CpAssumption

\* No row, no artifact and nobody at work.
LEMMA CpInitInv == CpInit => CpInv
<1> SUFFICES ASSUME CpInit PROVE CpInv
  OBVIOUS
<1> USE CpNumbers DEF CpInit
<1>1. CpTypeOK
  BY DEF CpTypeOK, CpStatuses, CpNoProof
<1>2. CpUsableIsProved
  BY DEF CpUsableIsProved, CpUsable
<1>3. CpHandedIsCurrent
  BY DEF CpHandedIsCurrent
<1>4. CpBegan /\ CpPlanned
  BY DEF CpBegan, CpPlanned, CpUse, CpNoUse
<1> QED  BY <1>1, <1>2, <1>3, <1>4 DEF CpInv, CpSafe

\* A resolver that moves on, its beginning unchanged.
LEMMA CpGoes ==
  ASSUME CpBegan, NEW p \in CpProcs, NEW pc \in {"idle", "plan", "provision", "verify"}, CpGo(p, pc)
  PROVE  /\ cpProc' \in [CpProcs -> CpUse] /\ cpProc'[p].pc = pc
         /\ \A q \in CpProcs : /\ q # p => cpProc'[q] = cpProc[q]
                               /\ cpProc'[q].began = cpProc[q].began
                               /\ cpProc'[q].raced = cpProc[q].raced
<1>1. cpProc \in [CpProcs -> CpUse] /\ cpProc' = [cpProc EXCEPT ![p].pc = pc]
  BY DEF CpBegan, CpGo
<1>2. cpProc[p] \in CpUse
  BY <1>1
<1>3. cpProc'[p] = [cpProc[p] EXCEPT !.pc = pc] /\ \A q \in CpProcs \ {p} : cpProc'[q] = cpProc[q]
  BY <1>1
<1>4. cpProc'[p] \in CpUse /\ cpProc'[p].pc = pc /\ cpProc'[p].began = cpProc[p].began
      /\ cpProc'[p].raced = cpProc[p].raced
  BY <1>2, <1>3 DEF CpUse
<1> QED  BY <1>1, <1>3, <1>4

\* What the row and the artifact have to satisfy.
CpRowOK(rec, proof) ==
  /\ rec \in [st : CpStatuses, source : 0..CpMaxRevision, good : 0..CpMaxUses, bad : 0..CpMaxUses]
  /\ (rec.st = "none") = (rec.source = 0)
  /\ proof \in [source : 0..CpMaxRevision, passed : BOOLEAN]
  /\ rec.st \in CpUsable => proof = [source |-> rec.source, passed |-> TRUE]

\* The revision, the bound and the row, and that the row is in order.
LEMMA CpRowFacts ==
  ASSUME CpInv
  PROVE  /\ CpRowOK(cpRec, cpProof) /\ cpRevision \in 1..CpMaxRevision
         /\ cpCrashes \in 0..CpMaxCrashes /\ cpHanded \in [CpProcs -> 0..CpMaxRevision]
BY DEF CpInv, CpSafe, CpTypeOK, CpUsableIsProved, CpRowOK

\* A step of one resolver: what it hands out is not older than its beginning,
\* and it does not make an older source usable.
LEMMA CpResolverMoves ==
  ASSUME CpInv, NEW p \in CpProcs, NEW pc \in {"idle", "provision", "verify"}, CpGo(p, pc),
         CpRowOK(cpRec, cpProof)', cpRevision' = cpRevision, cpCrashes' \in 0..CpMaxCrashes,
         NEW h \in 0..CpMaxRevision, cpHanded' = [cpHanded EXCEPT ![p] = h],
         h = cpHanded[p] \/ cpProc[p].raced \/ h >= cpProc[p].began,
         cpRec'.st \in CpUsable =>
           (cpRec.st \in CpUsable /\ cpRec'.source = cpRec.source) \/ cpRec'.source = cpRevision
  PROVE  CpInv'
<1>1. /\ cpProc' \in [CpProcs -> CpUse] /\ cpProc'[p].pc = pc
      /\ \A q \in CpProcs : /\ q # p => cpProc'[q] = cpProc[q]
                            /\ cpProc'[q].began = cpProc[q].began
                            /\ cpProc'[q].raced = cpProc[q].raced
  BY CpGoes DEF CpInv
<1>2. cpHanded \in [CpProcs -> 0..CpMaxRevision]
  BY CpRowFacts
<1>3. cpHanded' \in [CpProcs -> 0..CpMaxRevision] /\ cpHanded'[p] = h
      /\ \A q \in CpProcs \ {p} : cpHanded'[q] = cpHanded[q]
  BY <1>2
<1>4. CpTypeOK' /\ CpUsableIsProved'
  BY <1>3, CpRowFacts DEF CpTypeOK, CpUsableIsProved, CpRowOK
<1>5. CpHandedIsCurrent'
  BY <1>1, <1>3 DEF CpInv, CpSafe, CpHandedIsCurrent
<1>6. \A q \in CpProcs : cpProc[q].began <= cpRevision
  BY DEF CpInv, CpBegan
<1>7. CpBegan'
  BY <1>1, <1>6 DEF CpBegan
<1>8. CpPlanned'
  BY <1>1, <1>6 DEF CpInv, CpPlanned
<1> QED  BY <1>4, <1>5, <1>7, <1>8 DEF CpInv, CpSafe

\* A step of the registry outside a resolution, which makes nothing usable.
LEMMA CpRowMoves ==
  ASSUME CpInv, CpRowOK(cpRec, cpProof)', UNCHANGED <<cpProc, cpHanded, cpCrashes>>,
         cpRevision' \in 1..CpMaxRevision, cpRevision <= cpRevision',
         cpRec'.st \in CpUsable => cpRec.st \in CpUsable /\ cpRec'.source = cpRec.source
  PROVE  CpInv'
<1>1. CpTypeOK' /\ CpUsableIsProved'
  BY CpRowFacts DEF CpTypeOK, CpUsableIsProved, CpRowOK
<1>2. CpHandedIsCurrent' /\ CpPlanned'
  BY DEF CpInv, CpSafe, CpHandedIsCurrent, CpPlanned
<1>3. CpBegan'
  <2>1. \A q \in CpProcs : cpProc[q].began <= cpRevision /\ cpProc[q].began \in Int
    BY DEF CpInv, CpBegan, CpUse
  <2>2. cpRevision \in Int /\ cpRevision' \in Int
    BY CpRowFacts
  <2> QED  BY <2>1, <2>2 DEF CpInv, CpBegan
<1> QED  BY <1>1, <1>2, <1>3 DEF CpInv, CpSafe

\* A resolver starts with the installed revision, and withdraws any other.
LEMMA CpWithdrawStep ==
  ASSUME CpInv, NEW p \in CpProcs, CpWithdraw(p)
  PROVE  CpInv'
<1> DEFINE new == [pc |-> "plan", began |-> cpRevision, raced |-> FALSE]
<1>1. cpRevision \in 1..CpMaxRevision /\ CpRowOK(cpRec, cpProof)
  BY CpRowFacts
<1>2. new \in CpUse
  BY <1>1, CpNumbers DEF CpUse
<1>3. /\ cpProc' = [cpProc EXCEPT ![p] = new] /\ cpHanded' = [cpHanded EXCEPT ![p] = 0]
      /\ UNCHANGED <<cpRevision, cpCrashes>>
  BY DEF CpWithdraw
<1>4. CpRowOK(cpRec, cpProof)' /\ (cpRec'.st \in CpUsable => cpRec'.source = cpRevision /\ cpRec' = cpRec)
  <2>1. CASE cpRec.st \in CpUsable /\ cpRec.source # cpRevision
    <3>1. cpRec' = [cpRec EXCEPT !.st = "degraded"] /\ cpProof' = CpNoProof
      BY <2>1 DEF CpWithdraw
    <3> QED  BY <1>1, <2>1, <3>1, CpNumbers DEF CpRowOK, CpNoProof, CpUsable, CpStatuses
  <2>2. CASE ~(cpRec.st \in CpUsable /\ cpRec.source # cpRevision)
    <3>1. cpRec' = cpRec /\ cpProof' = cpProof
      BY <2>2 DEF CpWithdraw
    <3> QED  BY <1>1, <2>2, <3>1
  <2> QED  BY <2>1, <2>2
<1>5. cpProc \in [CpProcs -> CpUse] /\ \A q \in CpProcs : cpProc[q].began <= cpRevision
  BY DEF CpInv, CpBegan
<1>6. /\ cpProc' \in [CpProcs -> CpUse] /\ cpProc'[p] = new
      /\ \A q \in CpProcs \ {p} : cpProc'[q] = cpProc[q]
  BY <1>2, <1>3, <1>5
<1>7. /\ cpHanded' \in [CpProcs -> 0..CpMaxRevision] /\ cpHanded'[p] = 0
      /\ \A q \in CpProcs \ {p} : cpHanded'[q] = cpHanded[q]
  BY <1>3, CpRowFacts, CpNumbers
<1>8. CpTypeOK' /\ CpUsableIsProved'
  BY <1>3, <1>4, <1>7, CpRowFacts DEF CpTypeOK, CpUsableIsProved, CpRowOK
<1>9. CpHandedIsCurrent'
  BY <1>6, <1>7 DEF CpInv, CpSafe, CpHandedIsCurrent
<1>10. CpBegan'
  BY <1>1, <1>3, <1>5, <1>6 DEF CpBegan
<1>11. CpPlanned'
  BY <1>1, <1>4, <1>6 DEF CpInv, CpPlanned
<1> QED  BY <1>8, <1>9, <1>10, <1>11 DEF CpInv, CpSafe

\* A reviewer's validation marks the resolutions it comes into.
LEMMA CpValidateStep ==
  ASSUME CpInv, CpValidate
  PROVE  CpInv'
<1>1. CpRowOK(cpRec, cpProof) /\ cpRec.st = "provisional"
  BY CpRowFacts DEF CpValidate
<1>2. CpRowOK(cpRec, cpProof)' /\ UNCHANGED <<cpRevision, cpHanded, cpCrashes>>
  <2>1. PICK passed \in BOOLEAN :
          /\ cpProof' = [source |-> cpRec.source, passed |-> passed]
          /\ cpRec' = [cpRec EXCEPT !.st = IF passed THEN "validated" ELSE "blocked"]
    BY DEF CpValidate
  <2> QED  BY <1>1, <2>1 DEF CpRowOK, CpUsable, CpStatuses, CpValidate
<1>3. \A q \in CpProcs : cpProc[q] \in CpUse /\ cpProc[q].began <= cpRevision
  BY DEF CpInv, CpBegan
<1>4. cpProc' = [q \in CpProcs |-> [cpProc[q] EXCEPT !.raced = @ \/ cpProc[q].pc # "idle"]]
  BY DEF CpValidate
<1>5. ASSUME NEW q \in CpProcs
      PROVE  /\ cpProc'[q] \in CpUse /\ cpProc'[q].began = cpProc[q].began
             /\ ~cpProc'[q].raced => ~cpProc[q].raced
             /\ cpProc'[q].pc = "plan" => cpProc'[q].raced
  <2>1. cpProc'[q] = [cpProc[q] EXCEPT !.raced = cpProc[q].raced \/ cpProc[q].pc # "idle"]
    BY <1>4
  <2>2. (cpProc[q].raced \/ cpProc[q].pc # "idle") \in BOOLEAN
    BY <1>3 DEF CpUse
  <2>3. /\ cpProc'[q] \in CpUse /\ cpProc'[q].began = cpProc[q].began /\ cpProc'[q].pc = cpProc[q].pc
        /\ cpProc'[q].raced = (cpProc[q].raced \/ cpProc[q].pc # "idle")
    BY <1>3, <2>1, <2>2 DEF CpUse
  <2> QED  BY <2>3
<1>6. CpTypeOK' /\ CpUsableIsProved'
  BY <1>2, CpRowFacts DEF CpTypeOK, CpUsableIsProved, CpRowOK
<1>7. CpHandedIsCurrent'
  BY <1>2, <1>5 DEF CpInv, CpSafe, CpHandedIsCurrent
<1>8. CpBegan'
  <2>1. cpProc' \in [CpProcs -> CpUse]
    BY <1>4, <1>5
  <2> QED  BY <1>2, <1>3, <1>5, <2>1 DEF CpBegan
<1>9. CpPlanned'
  BY <1>5 DEF CpPlanned
<1> QED  BY <1>6, <1>7, <1>8, <1>9 DEF CpInv, CpSafe

\* A step of a resolver that hands out nothing.
LEMMA CpHandsNothing ==
  ASSUME CpInv, NEW p \in CpProcs, NEW pc \in {"idle", "provision", "verify"}, CpGo(p, pc),
         CpRowOK(cpRec, cpProof)', cpRevision' = cpRevision, cpCrashes' \in 0..CpMaxCrashes,
         cpHanded' = cpHanded,
         cpRec'.st \in CpUsable =>
           (cpRec.st \in CpUsable /\ cpRec'.source = cpRec.source) \/ cpRec'.source = cpRevision
  PROVE  CpInv'
<1>1. cpHanded[p] \in 0..CpMaxRevision /\ cpHanded' = [cpHanded EXCEPT ![p] = cpHanded[p]]
  BY CpRowFacts
<1> QED  BY <1>1, CpResolverMoves

\* What is reused has been proved, for a source not older than the beginning.
LEMMA CpPlanStep ==
  ASSUME CpInv, NEW p \in CpProcs, CpPlan(p)
  PROVE  CpInv'
<1>1. /\ CpRowOK(cpRec, cpProof)' /\ cpRec' = cpRec /\ cpRevision' = cpRevision
      /\ cpCrashes' \in 0..CpMaxCrashes /\ cpRec.source \in 0..CpMaxRevision
  BY CpRowFacts DEF CpPlan, CpRowOK
<1>2. CASE CpReusable /\ cpHanded' = [cpHanded EXCEPT ![p] = cpRec.source] /\ CpGo(p, "idle")
  <2>1. cpProc[p].raced \/ cpRec.source >= cpProc[p].began
    BY <1>2 DEF CpInv, CpPlanned, CpPlan, CpReusable
  <2> QED  BY <1>1, <1>2, <2>1, CpResolverMoves
<1>3. CASE (CpGo(p, "provision") \/ CpGo(p, "idle")) /\ cpHanded' = cpHanded
  BY <1>1, <1>3, CpHandsNothing
<1> QED  BY <1>2, <1>3 DEF CpPlan

\* A new source starts provisional.
LEMMA CpProvisionStep ==
  ASSUME CpInv, NEW p \in CpProcs, CpProvision(p)
  PROVE  CpInv'
<1>1. /\ CpRowOK(cpRec, cpProof) /\ cpRevision \in 1..CpMaxRevision
      /\ cpRevision' = cpRevision /\ cpHanded' = cpHanded /\ cpCrashes' \in 0..CpMaxCrashes
  BY CpRowFacts DEF CpProvision
<1>2. CASE /\ cpRec' = [cpRec EXCEPT !.st = "provisional", !.source = cpRevision]
           /\ cpProof' = CpNoProof /\ CpGo(p, "verify")
  <2>1. CpRowOK(cpRec, cpProof)' /\ cpRec'.st \notin CpUsable
    <3>1. cpRec \in [st : CpStatuses, source : 0..CpMaxRevision, good : 0..CpMaxUses, bad : 0..CpMaxUses]
      BY <1>1 DEF CpRowOK
    <3>2. cpRec' = [cpRec EXCEPT !.st = "provisional", !.source = cpRevision]
      BY <1>2
    <3>3. "provisional" \in CpStatuses /\ cpRevision \in 0..CpMaxRevision /\ cpRevision # 0
      BY <1>1, CpNumbers DEF CpStatuses
    <3>4. /\ cpRec' \in [st : CpStatuses, source : 0..CpMaxRevision, good : 0..CpMaxUses, bad : 0..CpMaxUses]
          /\ cpRec'.st = "provisional" /\ cpRec'.source = cpRevision
      BY <3>1, <3>2, <3>3
    <3>5. cpProof' \in [source : 0..CpMaxRevision, passed : BOOLEAN]
      BY <1>2, CpNumbers DEF CpNoProof
    <3> QED  BY <3>3, <3>4, <3>5 DEF CpRowOK, CpUsable
  <2> QED  BY <1>1, <1>2, <2>1, CpHandsNothing
<1>3. CASE UNCHANGED <<cpRec, cpProof>> /\ CpGo(p, "idle")
  BY <1>1, <1>3, CpHandsNothing
<1> QED  BY <1>2, <1>3 DEF CpProvision

\* A verification is of the installed source; one that errs blocks the row.
LEMMA CpVerifyStep ==
  ASSUME CpInv, NEW p \in CpProcs, CpVerify(p) \/ CpVerifyFails(p) \/ CpCrash(p)
  PROVE  CpInv'
<1>1. /\ CpRowOK(cpRec, cpProof) /\ cpRevision \in 1..CpMaxRevision
      /\ cpRevision' = cpRevision /\ cpCrashes \in 0..CpMaxCrashes
      /\ CpGo(p, "idle")
  BY CpRowFacts DEF CpVerify, CpVerifyFails, CpCrash
<1>2. CASE CpVerify(p)
  <2>1. PICK passed \in BOOLEAN :
          /\ cpProof' = [source |-> cpRec.source, passed |-> passed]
          /\ cpRec' = [cpRec EXCEPT !.st = IF passed THEN "validated" ELSE "blocked"]
          /\ cpHanded' = IF passed THEN [cpHanded EXCEPT ![p] = cpRec.source] ELSE cpHanded
    BY <1>2 DEF CpVerify
  <2>2. cpRec.st = "provisional" /\ cpRec.source = cpRevision /\ cpCrashes' = cpCrashes
    BY <1>2 DEF CpVerify
  <2>3. CpRowOK(cpRec, cpProof)' /\ cpRec'.source = cpRevision
    BY <1>1, <2>1, <2>2 DEF CpRowOK, CpUsable, CpStatuses
  <2>4. cpRec.source >= cpProc[p].began /\ cpRec.source \in 0..CpMaxRevision
    BY <1>1, <2>2, CpNumbers DEF CpInv, CpBegan, CpUse
  <2>5. CASE passed
    BY <1>1, <2>1, <2>2, <2>3, <2>4, <2>5, CpResolverMoves
  <2>6. CASE ~passed
    BY <1>1, <2>1, <2>2, <2>3, <2>6, CpHandsNothing
  <2> QED  BY <2>5, <2>6
<1>3. CASE CpVerifyFails(p)
  <2>1. CpRowOK(cpRec, cpProof)' /\ (cpRec'.st \in CpUsable => cpRec' = cpRec)
    BY <1>1, <1>3 DEF CpVerifyFails, CpRowOK, CpUsable, CpStatuses
  <2> QED  BY <1>1, <1>3, <2>1, CpHandsNothing DEF CpVerifyFails
<1>4. CASE CpCrash(p)
  <2>1. cpCrashes' \in 0..CpMaxCrashes
    <3>1. cpCrashes' = cpCrashes + 1 /\ cpCrashes < CpMaxCrashes
      BY <1>4 DEF CpCrash
    <3> QED  BY <1>1, <3>1, CpNumbers
  <2>2. UNCHANGED <<cpRec, cpProof, cpHanded>>
    BY <1>4 DEF CpCrash
  <2> QED  BY <1>1, <2>1, <2>2, CpHandsNothing
<1> QED  BY <1>2, <1>3, <1>4

\* Outcomes, a preference, a deprecation and a new release of the adapter.
LEMMA CpRowStep ==
  ASSUME CpInv, CpNewRevision \/ CpPrefer \/ CpDeprecate \/ \E good \in BOOLEAN : CpOutcome(good)
  PROVE  CpInv'
<1>1. CpRowOK(cpRec, cpProof) /\ cpRevision \in 1..CpMaxRevision
  BY CpRowFacts
<1>2. CASE CpNewRevision
  <2>1. cpRevision' = cpRevision + 1 /\ cpRevision < CpMaxRevision
    BY <1>2 DEF CpNewRevision
  <2>2. cpRevision' \in 1..CpMaxRevision /\ cpRevision <= cpRevision'
    BY <1>1, <2>1, CpNumbers
  <2> QED  BY <1>1, <1>2, <2>2, CpRowMoves DEF CpNewRevision
<1>3. CASE CpPrefer \/ CpDeprecate
  <2>1. CpRowOK(cpRec, cpProof)' /\ (cpRec'.st \in CpUsable => cpRec.st \in CpUsable)
        /\ cpRec'.source = cpRec.source
    <3>1. CASE CpPrefer
      BY <1>1, <3>1 DEF CpPrefer, CpRowOK, CpUsable, CpStatuses
    <3>2. CASE CpDeprecate
      BY <1>1, <3>2 DEF CpDeprecate, CpRowOK, CpUsable, CpStatuses
    <3> QED  BY <1>3, <3>1, <3>2
  <2>2. cpRevision' = cpRevision /\ UNCHANGED <<cpProc, cpHanded, cpCrashes>>
    BY <1>3 DEF CpPrefer, CpDeprecate
  <2> QED  BY <1>1, <2>1, <2>2, CpRowMoves
<1>4. CASE \E good \in BOOLEAN : CpOutcome(good)
  <2>1. cpRec.st \in CpUsable \cup {"degraded"} /\ UNCHANGED <<cpRevision, cpProof, cpProc, cpHanded, cpCrashes>>
    BY <1>4 DEF CpOutcome
  <2>2. CASE CpOutcome(TRUE)
    <3>1. cpRec' = [cpRec EXCEPT !.good = cpRec.good + 1] /\ cpRec.good < CpMaxUses
      BY <2>2 DEF CpOutcome
    <3>2. cpRec.good + 1 \in 0..CpMaxUses
      BY <1>1, <3>1, CpNumbers DEF CpRowOK
    <3>3. CpRowOK(cpRec, cpProof)' /\ cpRec'.st = cpRec.st /\ cpRec'.source = cpRec.source
      BY <1>1, <2>1, <3>1, <3>2 DEF CpRowOK
    <3> QED  BY <1>1, <2>1, <3>3, CpRowMoves
  <2>3. CASE CpOutcome(FALSE)
    <3> DEFINE st == IF cpRec.bad + 1 >= 2 THEN "degraded" ELSE cpRec.st
    <3>1. cpRec' = [cpRec EXCEPT !.bad = cpRec.bad + 1, !.st = st] /\ cpRec.bad < CpMaxUses
      BY <2>3 DEF CpOutcome
    <3>2. cpRec.bad + 1 \in 0..CpMaxUses
      BY <1>1, <3>1, CpNumbers DEF CpRowOK
    <3>3. st \in {"degraded", cpRec.st}
      OBVIOUS
    <3> HIDE DEF st
    <3>4. /\ CpRowOK(cpRec, cpProof)' /\ cpRec'.source = cpRec.source
          /\ cpRec'.st \in CpUsable => cpRec.st \in CpUsable
      BY <1>1, <2>1, <3>1, <3>2, <3>3 DEF CpRowOK, CpUsable, CpStatuses
    <3> QED  BY <1>1, <2>1, <3>4, CpRowMoves
  <2> QED  BY <1>4, <2>2, <2>3
<1> QED  BY <1>2, <1>3, <1>4

\* A capability is used on a proof that passed for its present source, and a
\* resolver hands out nothing older than what was installed when it began, for
\* any number of resolvers and revisions (capabilities/registry.ts).
THEOREM CapabilitiesAreSafe == CpSpec => []CpSafe
<1>1. CpInv /\ [CpNext]_cpVars => CpInv'
  <2>1. ASSUME CpInv, UNCHANGED cpVars PROVE CpInv'
    <3>1. CpRowOK(cpRec, cpProof)' /\ cpRevision' \in 1..CpMaxRevision /\ cpRevision <= cpRevision'
      BY <2>1, CpRowFacts, CpNumbers DEF cpVars
    <3> QED  BY <2>1, <3>1, CpRowMoves DEF cpVars
  <2> QED
    BY <2>1, CpWithdrawStep, CpValidateStep, CpPlanStep, CpProvisionStep, CpVerifyStep, CpRowStep
       DEF CpNext
<1>2. CpInv => CpSafe
  BY DEF CpInv
<1> QED  BY <1>1, <1>2, CpInitInv, PTL DEF CpSpec

-----------------------------------------------------------------------------
(* Provider accounts *)

\* Fresh, revoked and recorded rows are rows, and the first two are not waiting.
LEMMA PvRowFacts ==
  /\ PvFresh \in PvRow /\ PvFresh.nextProbe = "none"
  /\ \A row \in PvRow : /\ PvRevoked(row) \in PvRow /\ PvRevoked(row).nextProbe = "none"
                        /\ PvRevoked(row).prohibited
BY DEF PvFresh, PvRow, PvRevoked

\* The default account is not one of the named ones, and nobody is an account.
LEMMA PvNames ==
  /\ PvNamed \subseteq PvAccounts /\ PvDefault \in PvAccounts /\ PvDefault \notin PvNamed
  /\ PvNone \notin PvAccounts
BY PvAssumption DEF PvAccounts

\* Nothing is known at the start and nothing was done.
LEMMA PvInitInv == PvInit => PvInv
<1> SUFFICES ASSUME PvInit PROVE PvInv
  OBVIOUS
<1>1. PvTypeOK
  BY PvRowFacts DEF PvInit, PvTypeOK, PvResting, PvNoSync
<1>2. PvOneRetry /\ PvRevokedStays
  BY DEF PvInit, PvOneRetry, PvRevokedStays
<1>3. PvDispOK /\ PvAtWork /\ PvSyncOK
  BY DEF PvInit, PvDispOK, PvAtWork, PvSyncOK, PvResting, PvNoSync
<1>4. PvUnspent /\ PvKeptOut
  BY PvRowFacts DEF PvInit, PvUnspent, PvKeptOut
<1> QED  BY <1>1, <1>2, <1>3, <1>4 DEF PvInv, PvSafe

\* One row is written: a backoff that is to be spent was not spent before, and
\* what a sync revoked stays prohibited.
LEMMA PvRowMoves ==
  ASSUME PvInv, NEW a \in PvAccounts, NEW row \in PvRow, NEW n \in {0, 1},
         pvRow' = [pvRow EXCEPT ![a] = row], pvRetries' = [pvRetries EXCEPT ![a] = n],
         row.nextProbe # "none" => n = 0,
         a \in pvGone => row.prohibited,
         UNCHANGED <<pvPolicy, pvGone>>, PvDispOK', PvAtWork', PvSyncOK',
         pvSync'.read \subseteq pvSync.read, pvSync'.imported \subseteq pvSync'.read
  PROVE  PvInv'
<1>1. pvRow \in [PvAccounts -> PvRow] /\ pvRetries \in [PvAccounts -> Nat]
  BY DEF PvInv, PvSafe, PvTypeOK
<1>2. /\ pvRow' \in [PvAccounts -> PvRow] /\ pvRow'[a] = row
      /\ \A b \in PvAccounts \ {a} : pvRow'[b] = pvRow[b]
  BY <1>1
<1>3. /\ pvRetries' \in [PvAccounts -> Nat] /\ pvRetries'[a] = n
      /\ \A b \in PvAccounts \ {a} : pvRetries'[b] = pvRetries[b]
  BY <1>1
<1>4. pvPolicy \subseteq PvNamed /\ pvGone \subseteq PvNamed /\ pvSync.read \subseteq PvNamed
  BY DEF PvInv, PvSafe, PvTypeOK
<1>5. \A d \in PvDispatchers : /\ pvDisp'[d].pc \in {"idle", "routed", "running"}
                               /\ pvDisp'[d].account \in PvAccounts \cup {PvNone}
  BY DEF PvDispOK
<1>6. PvTypeOK'
  BY <1>2, <1>3, <1>4, <1>5 DEF PvTypeOK
<1>7. PvOneRetry'
  BY <1>3 DEF PvInv, PvSafe, PvOneRetry
<1>8. PvUnspent'
  BY <1>2, <1>3 DEF PvInv, PvUnspent
<1>9. PvKeptOut'
  BY <1>2, <1>4, PvNames DEF PvInv, PvKeptOut
<1>10. PvRevokedStays'
  BY <1>9 DEF PvKeptOut, PvRevokedStays, PvUsable
<1> QED  BY <1>6, <1>7, <1>8, <1>9, <1>10 DEF PvInv, PvSafe

\* The rows stay; the policy may change, and then forgives whom it lists again.
LEMMA PvRowsStay ==
  ASSUME PvInv, UNCHANGED <<pvRow, pvRetries>>, pvPolicy' \subseteq PvNamed,
         pvGone' \subseteq pvGone, PvDispOK', PvAtWork', PvSyncOK',
         pvSync'.read \subseteq pvSync.read, pvSync'.imported \subseteq pvSync'.read
  PROVE  PvInv'
<1>1. pvGone \subseteq PvNamed /\ pvSync.read \subseteq PvNamed
  BY DEF PvInv, PvSafe, PvTypeOK
<1>2. \A d \in PvDispatchers : /\ pvDisp'[d].pc \in {"idle", "routed", "running"}
                               /\ pvDisp'[d].account \in PvAccounts \cup {PvNone}
  BY DEF PvDispOK
<1>3. PvTypeOK'
  BY <1>1, <1>2 DEF PvInv, PvSafe, PvTypeOK
<1>4. PvOneRetry' /\ PvUnspent'
  BY DEF PvInv, PvSafe, PvOneRetry, PvUnspent
<1>5. PvKeptOut'
  BY DEF PvInv, PvKeptOut
<1>6. PvRevokedStays'
  BY <1>5, <1>1, PvNames DEF PvKeptOut, PvRevokedStays, PvUsable
<1> QED  BY <1>3, <1>4, <1>5, <1>6 DEF PvInv, PvSafe

\* One dispatcher moves.
LEMMA PvDispMoves ==
  ASSUME PvDispOK, PvAtWork, NEW d \in PvDispatchers,
         NEW x \in [pc : {"idle", "routed", "running"}, account : PvAccounts \cup {PvNone},
                    retry : BOOLEAN],
         x.pc # "idle" => x.account \in PvAccounts, pvDisp' = [pvDisp EXCEPT ![d] = x]
  PROVE  PvDispOK' /\ PvAtWork'
<1>1. /\ pvDisp'[d] = x /\ \A e \in PvDispatchers \ {d} : pvDisp'[e] = pvDisp[e]
      /\ PvDispOK'
  BY DEF PvDispOK
<1> QED  BY <1>1 DEF PvAtWork

\* The dispatcher's next state, where only its place changes or it rests.
LEMMA PvDispFacts ==
  ASSUME PvInv, NEW d \in PvDispatchers
  PROVE  /\ pvDisp[d] \in [pc : {"idle", "routed", "running"}, account : PvAccounts \cup {PvNone},
                           retry : BOOLEAN]
         /\ pvDisp[d].pc # "idle" => pvDisp[d].account \in PvAccounts
         /\ pvDisp' = [pvDisp EXCEPT ![d] = PvResting] => PvDispOK' /\ PvAtWork'
         /\ pvDisp' = [pvDisp EXCEPT ![d].pc = "running"] /\ pvDisp[d].pc # "idle"
              => PvDispOK' /\ PvAtWork'
<1>1. PvDispOK /\ PvAtWork
  BY DEF PvInv
<1>2. pvDisp[d] \in [pc : {"idle", "routed", "running"}, account : PvAccounts \cup {PvNone},
                     retry : BOOLEAN]
  BY <1>1 DEF PvDispOK
<1>3. pvDisp[d].pc # "idle" => pvDisp[d].account \in PvAccounts
  BY <1>1 DEF PvAtWork
<1>4. pvDisp' = [pvDisp EXCEPT ![d] = PvResting] => PvDispOK' /\ PvAtWork'
  <2>1. PvResting \in [pc : {"idle", "routed", "running"}, account : PvAccounts \cup {PvNone},
                       retry : BOOLEAN] /\ PvResting.pc = "idle"
    BY DEF PvResting
  <2> QED  BY <1>1, <2>1, PvDispMoves
<1>5. ASSUME pvDisp' = [pvDisp EXCEPT ![d].pc = "running"], pvDisp[d].pc # "idle"
      PROVE  PvDispOK' /\ PvAtWork'
  <2> DEFINE x == [pvDisp[d] EXCEPT !.pc = "running"]
  <2>1. pvDisp' = [pvDisp EXCEPT ![d] = x]
    BY <1>5
  <2>2. /\ x \in [pc : {"idle", "routed", "running"}, account : PvAccounts \cup {PvNone},
                  retry : BOOLEAN]
        /\ x.account \in PvAccounts
    BY <1>2, <1>3, <1>5
  <2> HIDE DEF x
  <2> QED  BY <1>1, <2>1, <2>2, PvDispMoves
<1> QED  BY <1>2, <1>3, <1>4, <1>5

\* Dispatches route, spend a backoff that is still due, and report.
LEMMA PvDispatchStep ==
  ASSUME PvInv, NEW d \in PvDispatchers, PvRoute(d) \/ PvConsume(d) \/ PvStart(d) \/ PvOutcome(d)
  PROVE  PvInv'
<1> DEFINE a == pvDisp[d].account
<1>1. pvRow \in [PvAccounts -> PvRow] /\ pvRetries \in [PvAccounts -> Nat] /\ PvOneRetry
      /\ PvUnspent /\ PvKeptOut /\ PvSyncOK /\ PvDispOK /\ PvAtWork
      /\ pvSync.imported \subseteq pvSync.read /\ pvPolicy \subseteq PvNamed
  BY DEF PvInv, PvSafe, PvTypeOK
<1>2. UNCHANGED <<pvPolicy, pvGone, pvSync>>
  BY DEF PvRoute, PvConsume, PvStart, PvOutcome
<1>3. PvSyncOK' /\ pvSync'.read \subseteq pvSync.read /\ pvSync'.imported \subseteq pvSync'.read
  BY <1>1, <1>2 DEF PvSyncOK
<1>4. CASE PvRoute(d)
  <2>1. PICK b \in PvAccounts :
          pvDisp' = [pvDisp EXCEPT ![d] = [pc |-> "routed", account |-> b,
                                           retry |-> PvRetryEligible(b)]]
    BY <1>4 DEF PvRoute
  <2>2. [pc |-> "routed", account |-> b, retry |-> PvRetryEligible(b)]
          \in [pc : {"idle", "routed", "running"}, account : PvAccounts \cup {PvNone},
               retry : BOOLEAN]
    BY DEF PvRetryEligible
  <2>3. PvDispOK' /\ PvAtWork'
    BY <1>1, <2>1, <2>2, PvDispMoves
  <2> QED  BY <1>1, <1>2, <1>3, <1>4, <2>3, PvRowsStay DEF PvRoute
<1>5. CASE PvStart(d)
  BY <1>1, <1>2, <1>3, <1>5, PvDispFacts, PvRowsStay DEF PvStart
<1>6. CASE PvConsume(d)
  <2>1. a \in PvAccounts
    BY <1>6, PvDispFacts DEF PvConsume
  <2>2. CASE pvDisp' = [pvDisp EXCEPT ![d] = PvResting] /\ UNCHANGED <<pvRow, pvRetries>>
    BY <1>1, <1>2, <1>3, <2>2, PvDispFacts, PvRowsStay
  <2>3. CASE /\ PvConsumable(a)
             /\ pvRow' = [pvRow EXCEPT ![a].availability = "unknown", ![a].nextProbe = "none"]
             /\ pvRetries' = [pvRetries EXCEPT ![a] = @ + 1]
             /\ pvDisp' = [pvDisp EXCEPT ![d].pc = "running"]
    <3> DEFINE row == [pvRow[a] EXCEPT !.availability = "unknown", !.nextProbe = "none"]
    <3>1. pvRow[a] \in PvRow
      BY <1>1, <2>1
    <3>2. row \in PvRow /\ row.nextProbe = "none" /\ row.prohibited = pvRow[a].prohibited
      BY <3>1 DEF PvRow
    <3>3. pvRow' = [pvRow EXCEPT ![a] = row]
      BY <1>1, <2>1, <2>3
    <3>4. pvRetries[a] = 0
      BY <1>1, <2>1, <2>3 DEF PvConsumable, PvRetryEligible, PvUnspent
    <3>5. pvRetries' = [pvRetries EXCEPT ![a] = 1]
      BY <2>3, <3>4
    <3>6. a \in pvGone => row.prohibited
      BY <1>1, <3>2 DEF PvKeptOut
    <3>7. PvDispOK' /\ PvAtWork'
      BY <1>6, <2>3, PvDispFacts DEF PvConsume
    <3> HIDE DEF row, a
    <3> QED  BY <1>2, <1>3, <2>1, <3>2, <3>3, <3>5, <3>6, <3>7, PvRowMoves
  <2> QED  BY <1>6, <2>2, <2>3 DEF PvConsume
<1>7. CASE PvOutcome(d)
  <2>1. a \in PvAccounts /\ PvDispOK' /\ PvAtWork'
    BY <1>7, PvDispFacts DEF PvOutcome
  <2>2. CASE UNCHANGED <<pvRow, pvRetries>>
    BY <1>1, <1>2, <1>3, <2>1, <2>2, PvRowsStay
  <2>3. ASSUME NEW outcome \in {"available", "limited", "unknown"}, PvRecorded(a, outcome)
        PROVE  PvInv'
    <3> DEFINE due == IF outcome = "limited" THEN "wait" ELSE "none"
               row == [pvRow[a] EXCEPT !.availability = outcome, !.nextProbe = due]
    <3>1. pvRow[a] \in PvRow /\ due \in {"none", "wait", "due"}
      BY <1>1, <2>1
    <3>2. row \in PvRow /\ row.prohibited = pvRow[a].prohibited
      <4> HIDE DEF due
      <4> QED  BY <3>1 DEF PvRow
    <3>3. pvRow' = [pvRow EXCEPT ![a] = row] /\ pvRetries' = [pvRetries EXCEPT ![a] = 0]
      BY <1>1, <2>1, <2>3 DEF PvRecorded
    <3>4. a \in pvGone => row.prohibited
      BY <1>1, <3>2 DEF PvKeptOut
    <3> HIDE DEF row, a
    <3> QED  BY <1>2, <1>3, <2>1, <3>2, <3>3, <3>4, PvRowMoves
  <2> QED  BY <1>7, <2>2, <2>3 DEF PvOutcome
<1> QED  BY <1>4, <1>5, <1>6, <1>7

\* What a discovery persists is a row, and it keeps the time of a backoff or none.
LEMMA PvPersistRow ==
  ASSUME NEW a \in PvAccounts, pvRow[a] \in PvRow, NEW seen \in PvRow, NEW bypass \in BOOLEAN
  PROVE  LET row == PvPersist(a, seen, bypass) IN
         row \in PvRow /\ row.nextProbe \in {"none", pvRow[a].nextProbe}
<1> DEFINE keep == ~bypass /\ PvBackingOff(a)
           av == IF keep THEN pvRow[a].availability ELSE seen.availability
           due == IF keep THEN pvRow[a].nextProbe ELSE "none"
<1>1. /\ av \in {"available", "limited", "unknown"} /\ due \in {"none", "wait", "due"}
      /\ due \in {"none", pvRow[a].nextProbe}
      /\ pvRow[a].billing \in {"unknown", "included", "paid"}
  BY DEF PvRow
<1>2. PvPersist(a, seen, bypass) = [seen EXCEPT !.availability = av, !.nextProbe = due,
                                                !.billing = pvRow[a].billing]
  BY DEF PvPersist
<1> HIDE DEF keep, av, due
<1>3. PvPersist(a, seen, bypass) \in PvRow /\ PvPersist(a, seen, bypass).nextProbe = due
  BY <1>1, <1>2 DEF PvRow
<1> QED  BY <1>1, <1>3

\* What a step outside the dispatches leaves alone.
LEMMA PvDispStays ==
  ASSUME PvInv, pvDisp' = pvDisp
  PROVE  PvDispOK' /\ PvAtWork'
BY DEF PvInv, PvDispOK, PvAtWork

\* A sync that does not move.
LEMMA PvSyncStays ==
  ASSUME PvInv, pvSync' = pvSync
  PROVE  /\ PvSyncOK' /\ pvSync'.read \subseteq pvSync.read
         /\ pvSync'.imported \subseteq pvSync'.read
BY DEF PvInv, PvSafe, PvTypeOK, PvSyncOK

\* The owner's probe, attestations and a discovery write the default account.
LEMMA PvDefaultWritten ==
  ASSUME PvInv, NEW row \in PvRow, pvRow' = [pvRow EXCEPT ![PvDefault] = row],
         UNCHANGED <<pvPolicy, pvDisp, pvSync, pvGone>>,
         NEW n \in {0, pvRetries[PvDefault]},
         pvRetries' = [pvRetries EXCEPT ![PvDefault] = n],
         row.nextProbe \in {"none", pvRow[PvDefault].nextProbe}
  PROVE  PvInv'
<1>1. pvRetries[PvDefault] \in {0, 1} /\ PvDefault \notin pvGone /\ PvDefault \in PvAccounts
  <2>1. pvRetries[PvDefault] \in Nat /\ pvRetries[PvDefault] <= 1
    BY PvNames DEF PvInv, PvSafe, PvTypeOK, PvOneRetry
  <2> QED  BY <2>1, PvNames DEF PvInv, PvSafe, PvTypeOK
<1>2. row.nextProbe # "none" => n = 0
  BY <1>1 DEF PvInv, PvUnspent
<1> QED  BY <1>1, <1>2, PvDispStays, PvSyncStays, PvRowMoves

\* The owner's commands and routine discovery.
LEMMA PvDefaultStep ==
  ASSUME PvInv,
         \/ PvDiscover \/ PvAttest \/ \E authenticated \in BOOLEAN : PvProbe(authenticated)
         \/ \E mode \in {"included", "paid"} : PvBill(mode)
  PROVE  PvInv'
<1> DEFINE old == pvRow[PvDefault]
<1>1. /\ old \in PvRow /\ pvRetries \in [PvAccounts -> Nat] /\ pvRow \in [PvAccounts -> PvRow]
      /\ PvDefault \in PvAccounts
  BY PvNames DEF PvInv, PvSafe, PvTypeOK
<1>2. pvRetries = [pvRetries EXCEPT ![PvDefault] = pvRetries[PvDefault]]
  BY <1>1
<1>3. CASE PvDiscover
  <2> DEFINE seen == [PvFresh EXCEPT !.visible = TRUE]
  <2>1. seen \in PvRow
    BY DEF PvFresh, PvRow
  <2>2. /\ pvRow' = [pvRow EXCEPT ![PvDefault] = PvPersist(PvDefault, seen, FALSE)]
        /\ UNCHANGED <<pvPolicy, pvDisp, pvSync, pvRetries, pvGone>>
    BY <1>3 DEF PvDiscover
  <2> HIDE DEF seen
  <2> QED  BY <1>1, <1>2, <2>1, <2>2, PvPersistRow, PvDefaultWritten
<1>4. CASE PvAttest
  <2> DEFINE seen == [PvFresh EXCEPT !.visible = TRUE, !.authenticated = TRUE,
                                     !.availability = "available"]
  <2>1. seen \in PvRow
    BY DEF PvFresh, PvRow
  <2>2. /\ pvRow' = [pvRow EXCEPT ![PvDefault] = PvPersist(PvDefault, seen, FALSE)]
        /\ UNCHANGED <<pvPolicy, pvDisp, pvSync, pvRetries, pvGone>>
    BY <1>4 DEF PvAttest
  <2> HIDE DEF seen
  <2> QED  BY <1>1, <1>2, <2>1, <2>2, PvPersistRow, PvDefaultWritten
<1>5. ASSUME NEW authenticated \in BOOLEAN, PvProbe(authenticated) PROVE PvInv'
  <2> DEFINE av == IF authenticated THEN "available" ELSE old.availability
             seen == [old EXCEPT !.visible = TRUE, !.authenticated = authenticated,
                                 !.availability = av]
  <2>1. seen \in PvRow
    <3>1. av \in {"available", "limited", "unknown"}
      BY <1>1 DEF PvRow
    <3> HIDE DEF av
    <3> QED  BY <1>1, <3>1 DEF PvRow
  <2>2. /\ pvRow' = [pvRow EXCEPT ![PvDefault] = PvPersist(PvDefault, seen, authenticated)]
        /\ pvRetries' = [pvRetries EXCEPT ![PvDefault] = 0]
        /\ UNCHANGED <<pvPolicy, pvDisp, pvSync, pvGone>>
    BY <1>5 DEF PvProbe
  <2> HIDE DEF seen
  <2> QED  BY <1>1, <2>1, <2>2, PvPersistRow, PvDefaultWritten
<1>6. ASSUME NEW mode \in {"included", "paid"}, PvBill(mode) PROVE PvInv'
  <2> DEFINE row == [old EXCEPT !.billing = mode]
  <2>1. row \in PvRow /\ row.nextProbe = old.nextProbe
    BY <1>1 DEF PvRow
  <2>2. /\ pvRow' = [pvRow EXCEPT ![PvDefault] = row]
        /\ UNCHANGED <<pvPolicy, pvDisp, pvSync, pvRetries, pvGone>>
    BY <1>6 DEF PvBill
  <2> HIDE DEF row
  <2> QED  BY <1>1, <1>2, <2>1, <2>2, PvDefaultWritten
<1> QED  BY <1>3, <1>4, <1>5, <1>6

\* The window of a backoff ends, and the owner edits the policy.
LEMMA PvTimeAndPolicyStep ==
  ASSUME PvInv, (\E a \in PvAccounts : PvDue(a)) \/ \E a \in PvNamed : PvEditPolicy(a)
  PROVE  PvInv'
<1>1. ASSUME NEW a \in PvAccounts, PvDue(a) PROVE PvInv'
  <2> DEFINE row == [pvRow[a] EXCEPT !.nextProbe = "due"]
  <2>1. /\ pvRow \in [PvAccounts -> PvRow] /\ pvRow[a] \in PvRow
        /\ pvRetries \in [PvAccounts -> Nat]
    BY DEF PvInv, PvSafe, PvTypeOK
  <2>2. row \in PvRow /\ row.prohibited = pvRow[a].prohibited
    BY <2>1 DEF PvRow
  <2>3. pvRow' = [pvRow EXCEPT ![a] = row] /\ UNCHANGED <<pvPolicy, pvDisp, pvSync, pvRetries, pvGone>>
    BY <1>1, <2>1 DEF PvDue
  <2>4. pvRetries[a] = 0
    BY <1>1 DEF PvDue, PvInv, PvUnspent
  <2>5. pvRetries' = [pvRetries EXCEPT ![a] = 0]
    BY <2>1, <2>3, <2>4
  <2>6. a \in pvGone => row.prohibited
    BY <2>2 DEF PvInv, PvKeptOut
  <2> HIDE DEF row
  <2> QED  BY <2>2, <2>3, <2>5, <2>6, PvDispStays, PvSyncStays, PvRowMoves
<1>2. ASSUME NEW a \in PvNamed, PvEditPolicy(a) PROVE PvInv'
  <2>1. pvPolicy' \subseteq PvNamed /\ pvGone' \subseteq pvGone
    BY <1>2 DEF PvEditPolicy, PvInv, PvSafe, PvTypeOK
  <2> QED  BY <1>2, <2>1, PvDispStays, PvSyncStays, PvRowsStay DEF PvEditPolicy
<1> QED  BY <1>1, <1>2

\* A sync revokes what the policy it read does not list.
LEMMA PvSyncStartsStep ==
  ASSUME PvInv, PvSyncStarts
  PROVE  PvInv'
<1>1. /\ pvRow \in [PvAccounts -> PvRow] /\ pvPolicy \subseteq PvNamed
      /\ pvRetries \in [PvAccounts -> Nat]
  BY DEF PvInv, PvSafe, PvTypeOK
<1>2. /\ pvGone' = PvNamed \ pvPolicy
      /\ pvSync' = [pc |-> "import", read |-> pvPolicy, imported |-> {}]
      /\ UNCHANGED <<pvPolicy, pvDisp, pvRetries>>
      /\ pvRow' = [a \in PvAccounts |-> IF a \in PvNamed \ pvPolicy THEN PvRevoked(pvRow[a])
                                        ELSE pvRow[a]]
  BY DEF PvSyncStarts
<1>3. ASSUME NEW a \in PvAccounts
      PROVE  /\ pvRow'[a] \in PvRow /\ pvRow'[a].nextProbe \in {"none", pvRow[a].nextProbe}
             /\ a \in pvGone' => pvRow'[a].prohibited
  BY <1>1, <1>2, PvRowFacts
<1>4. PvDispOK' /\ PvAtWork'
  BY <1>2, PvDispStays
<1>5. PvSyncOK' /\ pvSync'.imported \subseteq pvSync'.read /\ pvSync'.read = pvPolicy
  BY <1>1, <1>2 DEF PvSyncOK
<1>6. pvRow' \in [PvAccounts -> PvRow]
  BY <1>2, <1>3
<1>7. PvTypeOK'
  <2>1. \A d \in PvDispatchers : /\ pvDisp'[d].pc \in {"idle", "routed", "running"}
                                 /\ pvDisp'[d].account \in PvAccounts \cup {PvNone}
    BY <1>4 DEF PvDispOK
  <2> QED  BY <1>1, <1>2, <1>5, <1>6, <2>1 DEF PvTypeOK
<1>8. PvOneRetry' /\ PvUnspent'
  BY <1>2, <1>3 DEF PvInv, PvSafe, PvOneRetry, PvUnspent
<1>9. PvKeptOut'
  <2>1. pvGone' \cap pvSync'.read = {}
    BY <1>2, <1>5
  <2>2. pvGone' \subseteq PvAccounts
    BY <1>2, PvNames
  <2> QED  BY <1>3, <2>1, <2>2 DEF PvKeptOut
<1>10. PvRevokedStays'
  BY <1>9 DEF PvKeptOut, PvRevokedStays, PvUsable
<1> QED  BY <1>4, <1>5, <1>7, <1>8, <1>9, <1>10 DEF PvInv, PvSafe

\* The rest of a sync: profiles are imported, their usage persisted, or revoked.
LEMMA PvSyncStep ==
  ASSUME PvInv, PvSyncImport \/ PvSyncPersist \/ PvSyncEnds
  PROVE  PvInv'
<1>1. /\ pvRow \in [PvAccounts -> PvRow] /\ pvRetries \in [PvAccounts -> Nat]
      /\ pvPolicy \subseteq PvNamed
      /\ pvSync \in [pc : {"idle", "import"}, read : SUBSET PvNamed, imported : SUBSET PvNamed]
      /\ pvSync.imported \subseteq pvSync.read /\ pvGone \cap pvSync.read = {}
  BY DEF PvInv, PvSafe, PvTypeOK, PvSyncOK, PvKeptOut
<1>2. PvDispOK' /\ PvAtWork' /\ UNCHANGED <<pvPolicy, pvGone>>
  BY PvDispStays DEF PvSyncImport, PvSyncPersist, PvSyncEnds
<1>3. CASE PvSyncEnds
  <2>1. PvSyncOK' /\ pvSync'.read = {} /\ pvSync'.imported = {}
    BY <1>3 DEF PvSyncEnds, PvNoSync, PvSyncOK
  <2> QED  BY <1>1, <1>2, <1>3, <2>1, PvRowsStay DEF PvSyncEnds
<1>4. CASE PvSyncImport
  <2>1. PICK a \in pvSync.read \ pvSync.imported :
          \/ pvSync' = [pvSync EXCEPT !.imported = @ \cup {a}] /\ UNCHANGED pvRow
          \/ pvSync' = [pvSync EXCEPT !.read = @ \ {a}] /\ pvRow' = [pvRow EXCEPT ![a] = PvRevoked(@)]
    BY <1>4 DEF PvSyncImport
  <2>2. a \in PvNamed /\ a \in PvAccounts /\ a \notin pvGone
    BY <1>1, <2>1, PvNames
  <2>3. CASE pvSync' = [pvSync EXCEPT !.imported = @ \cup {a}] /\ UNCHANGED pvRow
    <3>1. PvSyncOK' /\ pvSync'.read = pvSync.read /\ pvSync'.imported \subseteq pvSync'.read
      BY <1>1, <2>1, <2>2, <2>3 DEF PvSyncOK
    <3> QED  BY <1>1, <1>2, <1>4, <2>3, <3>1, PvRowsStay DEF PvSyncImport
  <2>4. CASE pvSync' = [pvSync EXCEPT !.read = @ \ {a}] /\ pvRow' = [pvRow EXCEPT ![a] = PvRevoked(@)]
    <3>1. /\ PvSyncOK' /\ pvSync'.read \subseteq pvSync.read
          /\ pvSync'.imported \subseteq pvSync'.read
      BY <1>1, <2>1, <2>4 DEF PvSyncOK
    <3>2. pvRetries[a] \in {0, 1} /\ pvRetries' = [pvRetries EXCEPT ![a] = pvRetries[a]]
      <4>1. pvRetries[a] \in Nat /\ pvRetries[a] <= 1
        BY <1>1, <2>2 DEF PvInv, PvSafe, PvOneRetry
      <4>2. pvRetries' = pvRetries
        BY <1>4 DEF PvSyncImport
      <4> QED  BY <1>1, <4>1, <4>2
    <3>3. PvRevoked(pvRow[a]) \in PvRow /\ PvRevoked(pvRow[a]).nextProbe = "none"
      BY <1>1, <2>2, PvRowFacts
    <3> QED  BY <1>2, <2>2, <2>4, <3>1, <3>2, <3>3, PvRowMoves
  <2> QED  BY <2>1, <2>3, <2>4
<1>5. CASE PvSyncPersist
  <2>1. PICK a \in pvSync.read, usage \in {"available", "limited", "unknown"} :
          LET login == usage # "unknown"
              row == PvPersist(a, [PvFresh EXCEPT !.visible = login, !.authenticated = login,
                                                  !.availability = usage], TRUE)
          IN /\ pvRow' = [pvRow EXCEPT ![a] = IF login THEN [row EXCEPT !.billing = "included"]
                                              ELSE row]
             /\ pvRetries' = [pvRetries EXCEPT ![a] = 0]
             /\ pvSync' = [pvSync EXCEPT !.read = @ \ {a}, !.imported = @ \ {a}]
    BY <1>5 DEF PvSyncPersist
  <2> DEFINE login == usage # "unknown"
             seen == [PvFresh EXCEPT !.visible = login, !.authenticated = login,
                                     !.availability = usage]
             row == PvPersist(a, seen, TRUE)
             new == IF login THEN [row EXCEPT !.billing = "included"] ELSE row
  <2>2. a \in PvNamed /\ a \in PvAccounts /\ a \notin pvGone
    BY <1>1, <2>1, PvNames
  <2>3. seen \in PvRow
    <3>1. login \in BOOLEAN
      OBVIOUS
    <3> HIDE DEF login
    <3> QED  BY <3>1 DEF PvFresh, PvRow
  <2>4. row \in PvRow
    <3> HIDE DEF seen
    <3> QED  BY <1>1, <2>2, <2>3, PvPersistRow
  <2>5. new \in PvRow
    <3> HIDE DEF row, login
    <3> QED  BY <2>4 DEF PvRow
  <2>6. /\ PvSyncOK' /\ pvSync'.read \subseteq pvSync.read
        /\ pvSync'.imported \subseteq pvSync'.read
    <3>1. pvSync' = [pvSync EXCEPT !.read = pvSync.read \ {a}, !.imported = pvSync.imported \ {a}]
      BY <2>1
    <3>2. /\ pvSync'.read = pvSync.read \ {a} /\ pvSync'.imported = pvSync.imported \ {a}
          /\ pvSync' \in [pc : {"idle", "import"}, read : SUBSET PvNamed, imported : SUBSET PvNamed]
      BY <1>1, <3>1
    <3> QED  BY <1>1, <3>2 DEF PvSyncOK
  <2>7. pvRow' = [pvRow EXCEPT ![a] = new] /\ pvRetries' = [pvRetries EXCEPT ![a] = 0]
    BY <2>1
  <2> HIDE DEF new
  <2> QED  BY <1>2, <2>2, <2>5, <2>6, <2>7, PvRowMoves
<1> QED  BY <1>3, <1>4, <1>5

\* One expired backoff lets one dispatch through, and an account that the owner's
\* policy dropped stays out of routing until it is listed again, whatever
\* dispatches, probes and syncs interleave, for any number of accounts and
\* dispatchers (consumeModelRetry, syncApprovedCodexProfiles).
THEOREM ProvidersAreSafe == PvSpec => []PvSafe
<1>1. PvInv /\ [PvNext]_pvVars => PvInv'
  <2>1. ASSUME PvInv, UNCHANGED pvVars PROVE PvInv'
    BY <2>1, PvDispStays, PvSyncStays, PvRowsStay DEF pvVars, PvInv, PvSafe, PvTypeOK
  <2> QED
    BY <2>1, PvDispatchStep, PvDefaultStep, PvTimeAndPolicyStep, PvSyncStartsStep, PvSyncStep
       DEF PvNext
<1>2. PvInv => PvSafe
  BY DEF PvInv
<1> QED  BY <1>1, <1>2, PvInitInv, PTL DEF PvSpec

-----------------------------------------------------------------------------
(* Where work goes *)

\* A number is smallest somewhere in a set that is not empty.
LEMMA RtSmallest ==
  ASSUME NEW S, S # {}, NEW f \in [S -> Nat]
  PROVE  \E m \in S : \A n \in S : f[m] <= f[n]
<1> DEFINE V == {f[x] : x \in S}
<1>1. V \in SUBSET Nat /\ V # {}
  OBVIOUS
<1>2. PICK v \in V : \A w \in V : ~ (<<w, v>> \in OpToRel(<, Nat))
  <2> HIDE DEF V
  <2> QED  BY <1>1, NatLessThanWellFounded, WFMin
<1>3. \A w \in V : w \in Nat /\ v \in Nat /\ ~ (w < v)
  BY <1>1, <1>2 DEF OpToRel
<1>4. PICK m \in S : f[m] = v
  OBVIOUS
<1>5. \A n \in S : f[n] \in V
  OBVIOUS
<1> HIDE DEF V
<1>6. \A n \in S : f[m] <= f[n]
  BY <1>3, <1>4, <1>5
<1> QED  BY <1>6

\* The three lists that a ladder can be name every class.
LEMMA RtLadders4 ==
  ASSUME rtIn \in RtInputs, NEW a \in RtAccounts
  PROVE  RtRung(a) \in 1..4
<1>1. rtIn.review \in BOOLEAN /\ rtIn.class \in {"fable", "opus", "sonnet"} /\ rtIn.failures \in {0, 2, 4}
  BY DEF RtInputs
<1>2. RtTarget \in {"fable", "opus", "sonnet"}
  <2> DEFINE start == CHOOSE i \in 1..3 : RtTargets[i] = rtIn.class
             raised == start + rtIn.failures \div 2
             last == IF raised > 3 THEN 3 ELSE raised
  <2>1. \E i \in 1..3 : RtTargets[i] = rtIn.class
    <3>1. RtTargets[1] = "sonnet" /\ RtTargets[2] = "opus" /\ RtTargets[3] = "fable"
      BY DEF RtTargets
    <3> QED  BY <1>1, <3>1
  <2>2. start \in 1..3
    BY <2>1
  <2>3. rtIn.failures \div 2 \in {0, 1, 2}
    BY <1>1
  <2> HIDE DEF start
  <2>4. last \in 1..3
    BY <2>2, <2>3
  <2>5. RtTarget = RtTargets[last]
    BY DEF RtTarget, start
  <2> HIDE DEF last
  <2> QED  BY <2>4, <2>5 DEF RtTargets
<1>3. RtLadder \in {<<"fable", "opus", "codex", "sonnet">>, <<"opus", "fable", "codex", "sonnet">>,
                    <<"sonnet", "codex", "opus", "fable">>, <<"codex", "opus", "fable", "sonnet">>}
  BY <1>1, <1>2 DEF RtLadder, RtLadders, RtReviewLadder
<1>4. \E i \in 1..4 : RtLadder[i] = RtModelClass[a]
  <2>1. RtModelClass[a] \in {"fable", "opus", "sonnet", "codex"}
    BY RtAssumption
  <2>2. 1 \in 1..4 /\ 2 \in 1..4 /\ 3 \in 1..4 /\ 4 \in 1..4
    OBVIOUS
  <2>3. CASE RtLadder = <<"fable", "opus", "codex", "sonnet">>
    BY <2>1, <2>2, <2>3
  <2>4. CASE RtLadder = <<"opus", "fable", "codex", "sonnet">>
    BY <2>1, <2>2, <2>4
  <2>5. CASE RtLadder = <<"sonnet", "codex", "opus", "fable">>
    BY <2>1, <2>2, <2>5
  <2>6. CASE RtLadder = <<"codex", "opus", "fable", "sonnet">>
    BY <2>1, <2>2, <2>6
  <2> QED  BY <1>3, <2>3, <2>4, <2>5, <2>6
<1> QED  BY <1>4 DEF RtRung

\* 0 for an account of the preferred provider, else 1.
RtLiked(preferred, a) == IF RtProvider[a] = preferred THEN 0 ELSE 1

\* Among free accounts one comes before all others, by rung, preference, quota and name.
LEMMA RtFirst ==
  ASSUME rtIn \in RtInputs, NEW S \in SUBSET RtAccounts, S # {}, NEW preferred
  PROVE  \E a \in S : \A b \in S \ {a} :
           \/ RtRung(a) < RtRung(b)
           \/ RtRung(a) = RtRung(b) /\ RtBefore(preferred, a, b)
<1> DEFINE f1 == [a \in S |-> RtRung(a)]
<1>1. PICK m1 \in S : \A n \in S : f1[m1] <= f1[n]
  <2>1. f1 \in [S -> Nat]
    BY RtLadders4
  <2> HIDE DEF f1
  <2> QED  BY <2>1, RtSmallest
<1> DEFINE S1 == {a \in S : RtRung(a) = RtRung(m1)}
           f2 == [a \in S1 |-> RtLiked(preferred, a)]
<1>2. PICK m2 \in S1 : \A n \in S1 : f2[m2] <= f2[n]
  <2>1. f2 \in [S1 -> Nat] /\ S1 # {}
    BY DEF RtLiked
  <2> HIDE DEF f2, S1
  <2> QED  BY <2>1, RtSmallest
<1> DEFINE S2 == {a \in S1 : RtLiked(preferred, a) = RtLiked(preferred, m2)}
           f3 == [a \in S2 |-> RtQuota(a)]
<1>3. PICK m3 \in S2 : \A n \in S2 : f3[m3] <= f3[n]
  <2>1. f3 \in [S2 -> Nat] /\ S2 # {}
    BY DEF RtQuota
  <2> HIDE DEF f3, S2
  <2> QED  BY <2>1, RtSmallest
<1> DEFINE S3 == {a \in S2 : RtQuota(a) = RtQuota(m3)}
           f4 == [a \in S3 |-> RtName[a]]
<1>4. PICK m4 \in S3 : \A n \in S3 : f4[m4] <= f4[n]
  <2>1. f4 \in [S3 -> Nat] /\ S3 # {}
    BY RtAssumption
  <2> HIDE DEF f4, S3
  <2> QED  BY <2>1, RtSmallest
<1>5. m4 \in S /\ RtRung(m4) = RtRung(m1) /\ RtLiked(preferred, m4) = RtLiked(preferred, m2)
      /\ RtQuota(m4) = RtQuota(m3)
  BY <1>4
<1>6. ASSUME NEW b \in S, b # m4
      PROVE  \/ RtRung(m4) < RtRung(b)
             \/ RtRung(m4) = RtRung(b) /\ RtBefore(preferred, m4, b)
  <2>1. /\ RtRung(m1) <= RtRung(b)
        /\ RtRung(b) = RtRung(m1) => RtLiked(preferred, m2) <= RtLiked(preferred, b)
    BY <1>1, <1>2
  <2>2. /\ b \in S2 => RtQuota(m3) <= RtQuota(b)
        /\ b \in S3 => RtName[m4] <= RtName[b]
    BY <1>3, <1>4
  <2>3. /\ b \in S2 <=> RtRung(b) = RtRung(m1) /\ RtLiked(preferred, b) = RtLiked(preferred, m2)
        /\ b \in S3 <=> b \in S2 /\ RtQuota(b) = RtQuota(m3)
    OBVIOUS
  <2>4. /\ RtRung(m1) \in Nat /\ RtRung(b) \in Nat
        /\ RtLiked(preferred, m2) \in Nat /\ RtLiked(preferred, b) \in Nat
        /\ RtQuota(m3) \in Nat /\ RtQuota(b) \in Nat
        /\ RtName[m4] \in Nat /\ RtName[b] \in Nat /\ RtName[m4] # RtName[b]
    BY <1>5, <1>6, RtLadders4, RtAssumption DEF RtLiked, RtQuota
  <2>5. RtBefore(preferred, m4, b) <=>
          \/ RtLiked(preferred, m4) < RtLiked(preferred, b)
          \/ RtLiked(preferred, m4) = RtLiked(preferred, b) /\ RtQuota(m4) < RtQuota(b)
          \/ RtLiked(preferred, m4) = RtLiked(preferred, b) /\ RtQuota(m4) = RtQuota(b)
             /\ RtName[m4] < RtName[b]
    BY DEF RtBefore, RtLiked
  <2> HIDE DEF S1, S2, S3, f1, f2, f3, f4
  <2> QED  BY <1>5, <2>1, <2>2, <2>3, <2>4, <2>5
<1> QED  BY <1>5, <1>6

\* pickFromLadder takes a free account of the pool, or finds none.
LEMMA RtPicked ==
  ASSUME rtIn \in RtInputs, NEW pool \in SUBSET RtAccounts, NEW preferred
  PROVE  /\ RtPick(pool, preferred) = RtNone => \A a \in pool : ~RtFree(a)
         /\ RtPick(pool, preferred) # RtNone => RtPick(pool, preferred) \in pool
<1> DEFINE free == {a \in pool : RtFree(a)}
<1>1. CASE free = {}
  BY <1>1 DEF RtPick
<1>2. CASE free # {}
  <2>1. RtPick(pool, preferred) \in free
    <3>1. free \in SUBSET RtAccounts
      OBVIOUS
    <3>2. RtPick(pool, preferred) =
            CHOOSE a \in free : \A b \in free \ {a} :
              \/ RtRung(a) < RtRung(b)
              \/ RtRung(a) = RtRung(b) /\ RtBefore(preferred, a, b)
      BY <1>2 DEF RtPick
    <3>3. \E a \in free : \A b \in free \ {a} :
              \/ RtRung(a) < RtRung(b)
              \/ RtRung(a) = RtRung(b) /\ RtBefore(preferred, a, b)
      <4> HIDE DEF free
      <4> QED  BY <1>2, <3>1, RtFirst
    <3> HIDE DEF free
    <3> QED  BY <3>2, <3>3
  <2> QED  BY <2>1, RtAssumption
<1> QED  BY <1>1, <1>2

\* The preference of a review for other providers strands nothing.
LEMMA RtRouted ==
  ASSUME rtIn \in RtInputs, NEW pool \in SUBSET RtAccounts, NEW preferred
  PROVE  /\ RtRoute(pool, preferred) = RtNone => \A a \in pool : ~RtFree(a)
         /\ RtRoute(pool, preferred) # RtNone => RtRoute(pool, preferred) \in pool
<1> DEFINE other == IF rtIn.review /\ rtIn.last # RtNone
                    THEN {a \in pool : RtProvider[a] # RtProvider[rtIn.last]} ELSE {}
           first == RtPick(other, preferred)
<1>1. other \subseteq pool /\ other \in SUBSET RtAccounts
  OBVIOUS
<1>2. RtRoute(pool, preferred) = IF first # RtNone THEN first ELSE RtPick(pool, preferred)
  BY DEF RtRoute
<1> HIDE DEF other
<1> QED  BY <1>1, <1>2, RtPicked

\* The pool that is asked first is part of the pool; after an account ran dry it
\* holds its siblings only, and every free one of them.
LEMMA RtPooled ==
  ASSUME NEW pool \in SUBSET RtAccounts, NEW key
  PROVE  /\ RtPool(pool, key) \subseteq pool
         /\ RtRotates(pool, key) =>
              /\ RtPool(pool, key) \subseteq RtSiblings(pool, key)
              /\ \A a \in RtSiblings(pool, key) : RtFree(a) => a \in RtPool(pool, key)
BY DEF RtPool, RtSiblings, RtUsable, RtFree

\* What is found is of the pool; nothing is found only if nothing is free in it,
\* or an account ran dry and none of its siblings is free.
LEMMA RtAcrossPool ==
  ASSUME rtIn \in RtInputs, NEW pool \in SUBSET RtAccounts, NEW pin
  PROVE  LET key == RtSticky(pin) IN
         /\ RtAcross(pool, pin) = RtNone =>
              \/ \A a \in pool : ~RtFree(a)
              \/ RtRotates(pool, key) /\ \A a \in RtSiblings(pool, key) : ~RtFree(a)
         /\ RtAcross(pool, pin) # RtNone =>
              /\ RtAcross(pool, pin) \in pool
              /\ RtRotates(pool, key) => RtAcross(pool, pin) \in RtSiblings(pool, key)
<1> DEFINE preferred == IF pin # RtNone THEN pin ELSE rtIn.preferred
           key == RtSticky(pin)
           chosen == RtRoute(RtPool(pool, key), preferred)
<1>1. RtAcross(pool, pin) = IF chosen = RtNone /\ ~RtRotates(pool, key)
                            THEN RtRoute(pool, preferred) ELSE chosen
  BY DEF RtAcross
<1>2. RtPool(pool, key) \subseteq pool /\ RtPool(pool, key) \in SUBSET RtAccounts
  BY RtPooled
<1>3. /\ chosen = RtNone => \A a \in RtPool(pool, key) : ~RtFree(a)
      /\ chosen # RtNone => chosen \in RtPool(pool, key)
  <2> HIDE DEF preferred, key
  <2> QED  BY <1>2, RtRouted
<1>4. /\ RtRoute(pool, preferred) = RtNone => \A a \in pool : ~RtFree(a)
      /\ RtRoute(pool, preferred) # RtNone => RtRoute(pool, preferred) \in pool
  BY RtRouted
<1>5. RtRotates(pool, key) =>
        /\ RtPool(pool, key) \subseteq RtSiblings(pool, key)
        /\ \A a \in RtSiblings(pool, key) : RtFree(a) => a \in RtPool(pool, key)
  BY RtPooled
<1> HIDE DEF preferred, chosen, key
<1> QED  BY <1>1, <1>2, <1>3, <1>4, <1>5 DEF key

\* The account that is stuck to is of the provider that is stuck to.
LEMMA RtStickyProvider ==
  ASSUME rtIn \in RtInputs
  PROVE  /\ rtIn.last # RtNone => RtSticky(RtNone) = rtIn.last
         /\ \A pin \in RtProviders : pin # RtNone => RtProvider[RtSticky(pin)] = pin
<1>1. \A q \in RtProviders : RtProvider[RtDefault[q]] = q
  BY RtAssumption DEF RtProviders
<1>2. rtIn.last # RtNone => RtSticky(RtNone) = rtIn.last
  BY DEF RtSticky
<1>3. \A pin \in RtProviders : pin # RtNone => RtProvider[RtSticky(pin)] = pin
  BY <1>1 DEF RtSticky
<1> QED  BY <1>2, <1>3

\* The selection keeps to the provider, strands nothing that is free and leaves
\* the pin only when it has nothing free.
LEMMA RtSelectionSafe ==
  ASSUME rtIn \in RtInputs, NEW out, out = RtSelection
  PROVE  /\ /\ out \in RtAccounts
            /\ rtIn.pin = RtNone /\ rtIn.last # RtNone /\ ~RtUsable(rtIn.last)
            /\ RtSiblings(RtAccounts, rtIn.last) # {}
            => RtProvider[out] = RtProvider[rtIn.last]
         /\ out = RtNone /\ (\E a \in RtAccounts : RtFree(a))
            => /\ RtRotates(RtAccounts, RtSticky(RtNone))
               /\ \A a \in RtSiblings(RtAccounts, RtSticky(RtNone)) : ~RtFree(a)
         /\ /\ out \in RtAccounts
            /\ ~rtIn.review /\ rtIn.pin # RtNone /\ RtProvider[out] # rtIn.pin
            => \A a \in RtAccounts : RtProvider[a] = rtIn.pin => ~RtFree(a)
<1>1. rtIn.pin \in RtProviders \cup {RtNone} /\ rtIn.last \in RtAccounts \cup {RtNone}
  BY DEF RtInputs
<1> DEFINE pin == IF rtIn.review THEN RtNone ELSE rtIn.pin
           P == {a \in RtAccounts : RtProvider[a] = pin}
           pinned == IF pin = RtNone THEN RtNone ELSE RtAcross(P, pin)
           all == RtAcross(RtAccounts, RtNone)
<1>2. out = IF pinned # RtNone THEN pinned ELSE all
  BY DEF RtSelection
<1>3. /\ all = RtNone =>
           \/ \A a \in RtAccounts : ~RtFree(a)
           \/ /\ RtRotates(RtAccounts, RtSticky(RtNone))
              /\ \A a \in RtSiblings(RtAccounts, RtSticky(RtNone)) : ~RtFree(a)
      /\ all # RtNone =>
           /\ all \in RtAccounts
           /\ RtRotates(RtAccounts, RtSticky(RtNone))
                => all \in RtSiblings(RtAccounts, RtSticky(RtNone))
  BY RtAcrossPool
<1>4. /\ pinned = RtNone /\ pin # RtNone =>
           \/ \A a \in P : ~RtFree(a)
           \/ RtRotates(P, RtSticky(pin)) /\ \A a \in RtSiblings(P, RtSticky(pin)) : ~RtFree(a)
      /\ pinned # RtNone => pinned \in P
  <2>1. P \in SUBSET RtAccounts
    OBVIOUS
  <2> HIDE DEF P
  <2> QED  BY <2>1, RtAcrossPool
<1>5. ASSUME out \in RtAccounts, rtIn.pin = RtNone, rtIn.last # RtNone,
             ~RtUsable(rtIn.last), RtSiblings(RtAccounts, rtIn.last) # {}
      PROVE  RtProvider[out] = RtProvider[rtIn.last]
  <2>1. out = all /\ RtSticky(RtNone) = rtIn.last
    BY <1>2, <1>5, RtStickyProvider
  <2>2. all # RtNone /\ RtRotates(RtAccounts, rtIn.last)
    BY <1>5, <2>1, RtAssumption DEF RtRotates
  <2> QED  BY <1>3, <2>1, <2>2 DEF RtSiblings
<1>6. out = RtNone /\ (\E a \in RtAccounts : RtFree(a))
      => /\ RtRotates(RtAccounts, RtSticky(RtNone))
         /\ \A a \in RtSiblings(RtAccounts, RtSticky(RtNone)) : ~RtFree(a)
  BY <1>2, <1>3
<1>7. ASSUME out \in RtAccounts, ~rtIn.review, rtIn.pin # RtNone, RtProvider[out] # rtIn.pin,
             NEW a \in RtAccounts, RtProvider[a] = rtIn.pin
      PROVE  ~RtFree(a)
  <2>1. pin = rtIn.pin /\ pin \in RtProviders /\ a \in P
    BY <1>1, <1>7
  <2>2. pinned = RtNone
    BY <1>2, <1>4, <1>7
  <2>3. CASE \A b \in P : ~RtFree(b)
    BY <2>1, <2>3
  <2>4. CASE RtRotates(P, RtSticky(pin)) /\ \A b \in RtSiblings(P, RtSticky(pin)) : ~RtFree(b)
    <3>1. RtProvider[RtSticky(pin)] = pin
      BY <1>7, <2>1, RtStickyProvider
    <3>2. CASE a = RtSticky(pin)
      BY <2>1, <2>4, <3>2 DEF RtRotates, RtUsable, RtFree
    <3>3. CASE a # RtSticky(pin)
      BY <2>1, <2>4, <3>1, <3>3 DEF RtSiblings
    <3> QED  BY <3>2, <3>3
  <2> QED  BY <1>4, <1>7, <2>1, <2>2, <2>3, <2>4
<1> QED  BY <1>5, <1>6, <1>7

\* For any accounts, providers, classes and defaults: work whose account ran dry
\* stays with its provider, waits only when nothing it may use is free, and a pin
\* is left only when its provider has nothing free (selectCoordinatorForRequest,
\* routeAcrossProviders, pickFromLadder).
THEOREM RoutesAreSafe == RtSpec => []RtSafe
<1> DEFINE I == rtIn \in RtInputs /\ RtSafe
<1>1. RtInit => I
  BY RtAssumption DEF RtInit, RtSafe, RtStaysOnProvider, RtNotStranded, RtPinHonoured
<1>2. I /\ [RtSelect]_rtVars => I'
  <2> SUFFICES ASSUME I, [RtSelect]_rtVars PROVE I'
    OBVIOUS
  <2> USE DEF RtStaysOnProvider, RtNotStranded, RtPinHonoured, RtSiblings, RtRotates, RtUsable,
              RtFree, RtSticky
  <2>1. CASE UNCHANGED rtVars
    BY <2>1 DEF rtVars, RtSafe
  <2>2. CASE RtSelect
    <3>1. PICK out : out = RtSelection
      OBVIOUS
    <3>2. rtOut' = out /\ rtIn' = rtIn
      BY <2>2, <3>1 DEF RtSelect
    <3>3. RtStaysOnProvider' /\ RtNotStranded' /\ RtPinHonoured'
      BY <3>1, <3>2, RtSelectionSafe
    <3> QED  BY <3>2, <3>3 DEF RtSafe
  <2> QED  BY <2>1, <2>2
<1>3. I => RtSafe
  OBVIOUS
<1> QED  BY <1>1, <1>2, <1>3, PTL DEF RtSpec

-----------------------------------------------------------------------------
(* The fields of staged validation *)

\* Nothing is issued, and the workspaces are empty.
LEMMA SfInitInv == SfInit => SfInv
<1> SUFFICES ASSUME SfInit PROVE SfInv
  OBVIOUS
<1>1. /\ SfAbsent \in SfRecord /\ SfAbsent.status = "none" /\ SfAbsent.reason = "none"
  BY DEF SfAbsent, SfRecord
<1>2. SfWorldOK
  BY <1>1 DEF SfInit, SfWorldOK
<1>3. \A l \in SfLeases : sfLease[l] = SfAbsent
  BY DEF SfInit
<1> QED  BY <1>1, <1>2, <1>3 DEF SfInv, SfBuilt, SfRested

\* One lease that is not over moves to x; what is over stays.
LEMMA SfMoves ==
  ASSUME SfInv, NEW l \in SfLeases, NEW x \in SfRecord,
         sfLease' = [sfLease EXCEPT ![l] = x],
         sfLease[l].status \in {"none", "issued", "running", "validating"},
         sfFiles' \in [{SfSpace(c) : c \in SfCases} -> SUBSET SfFiles],
         NEW seen \in SUBSET SfFiles, sfSeen' = [sfSeen EXCEPT ![l] = seen],
         SfBuilt(x),
         x.status \in {"validating", "succeeded"} => x.ran = SfExpected(x.case) /\ x.clean,
         x.status = "succeeded" => /\ seen = x.files
                                   /\ x.case = "resume" => sfLease[x.pred].session = x.session
  PROVE  SfInv'
<1>1. /\ sfLease \in [SfLeases -> SfRecord] /\ sfSeen \in [SfLeases -> SUBSET SfFiles]
      /\ \A k \in SfLeases : SfBuilt(sfLease[k]) /\ SfRested(sfLease[k], sfSeen[k])
  BY DEF SfInv, SfWorldOK
<1>2. /\ sfLease' \in [SfLeases -> SfRecord] /\ sfLease'[l] = x
      /\ sfSeen' \in [SfLeases -> SUBSET SfFiles] /\ sfSeen'[l] = seen
      /\ \A k \in SfLeases \ {l} : sfLease'[k] = sfLease[k] /\ sfSeen'[k] = sfSeen[k]
  BY <1>1
<1>3. SfWorldOK'
  BY <1>2 DEF SfWorldOK
<1>4. ASSUME NEW q \in SfLeases, sfLease[q].status \in {"failed", "cancelled", "succeeded"}
      PROVE  sfLease'[q] = sfLease[q]
  BY <1>2, <1>4
<1>5. ASSUME NEW y \in SfRecord, SfBuilt(y) PROVE SfBuilt(y)'
  <2>1. CASE y.status # "none" /\ y.case \in {"recovery", "resume"}
    <3>1. /\ y.pred \in SfLeases
          /\ sfLease[y.pred].status \in {"failed", "cancelled", "succeeded"}
      BY <1>5, <2>1 DEF SfBuilt, SfRecord, SfPredecessor, SfContained, SfResumable
    <3>2. sfLease'[y.pred] = sfLease[y.pred]
      BY <1>4, <3>1
    <3> QED
      BY <1>5, <2>1, <3>2 DEF SfBuilt, SfPredecessor, SfContained, SfResumable, SfSpaceOf
  <2>2. CASE y.status = "none" \/ y.case \notin {"recovery", "resume"}
    BY <1>5, <2>2 DEF SfBuilt, SfPredecessor
  <2> QED  BY <2>1, <2>2
<1>6. ASSUME NEW y \in SfRecord, SfBuilt(y), y.status = "succeeded", y.case = "resume"
      PROVE  sfLease'[y.pred] = sfLease[y.pred]
  <2>1. y.pred \in SfLeases /\ sfLease[y.pred].status = "succeeded"
    BY <1>6 DEF SfBuilt, SfRecord, SfPredecessor, SfResumable
  <2> QED  BY <1>4, <2>1
<1>7. ASSUME NEW k \in SfLeases PROVE SfBuilt(sfLease[k])'
  <2> DEFINE y == sfLease'[k]
  <2>1. y \in SfRecord /\ SfBuilt(y)
    BY <1>1, <1>2
  <2>2. PICK z \in SfRecord : z = sfLease'[k] /\ SfBuilt(z)
    BY <2>1
  <2>3. SfBuilt(z)'
    BY <1>5, <2>2
  <2> QED  BY <2>2, <2>3
<1>8. ASSUME NEW k \in SfLeases PROVE SfRested(sfLease[k], sfSeen[k])'
  <2>1. CASE k = l
    BY <1>2, <1>6, <2>1 DEF SfRested
  <2>2. CASE k # l
    BY <1>1, <1>2, <1>6, <2>2 DEF SfRested
  <2> QED  BY <2>1, <2>2
<1> QED  BY <1>3, <1>7, <1>8 DEF SfInv

\* What a step of one lease finds.
LEMMA SfFacts ==
  ASSUME SfInv, NEW l \in SfLeases
  PROVE  /\ sfLease[l] \in SfRecord /\ SfBuilt(sfLease[l])
         /\ sfLease \in [SfLeases -> SfRecord] /\ sfSeen \in [SfLeases -> SUBSET SfFiles]
         /\ sfFiles \in [{SfSpace(c) : c \in SfCases} -> SUBSET SfFiles]
         /\ sfLease[l].status \in {"validating", "succeeded"} =>
              sfLease[l].ran = SfExpected(sfLease[l].case) /\ sfLease[l].clean
         /\ sfSeen = [sfSeen EXCEPT ![l] = sfSeen[l]] /\ sfSeen[l] \in SUBSET SfFiles
BY DEF SfInv, SfWorldOK, SfRested

\* A lease is issued on a predecessor that is over.
LEMMA SfIssued ==
  ASSUME SfInv, NEW l \in SfLeases, NEW c \in SfCases, NEW q \in SfLeases \cup {0},
         SfIssue(l, c, q)
  PROVE  SfInv'
<1> DEFINE x == [SfAbsent EXCEPT !.status = "issued", !.case = c, !.pred = q]
<1>1. x \in SfRecord /\ x.status = "issued" /\ x.case = c /\ x.pred = q /\ x.reason = "none"
  BY DEF SfAbsent, SfRecord
<1>2. sfLease' = [sfLease EXCEPT ![l] = x] /\ UNCHANGED <<sfFiles, sfSeen>>
      /\ sfLease[l].status = "none" /\ SfPredecessor(c, q)
  BY DEF SfIssue
<1> HIDE DEF x
<1>3. SfBuilt(x)
  BY <1>1, <1>2 DEF SfBuilt
<1>4. /\ sfFiles' \in [{SfSpace(d) : d \in SfCases} -> SUBSET SfFiles]
      /\ sfSeen' = [sfSeen EXCEPT ![l] = sfSeen[l]] /\ sfSeen[l] \in SUBSET SfFiles
  BY <1>2, SfFacts
<1> QED  BY <1>1, <1>2, <1>3, <1>4, SfMoves

\* A lease goes on or is closed and keeps what it is a lease of.
LEMMA SfGoesOn ==
  ASSUME SfInv, NEW l \in SfLeases, sfLease[l].status \in SfLive,
         NEW st \in {"running", "succeeded", "cancelled", "expired"},
         NEW reason \in {sfLease[l].reason, "closed"},
         sfLease' = [sfLease EXCEPT ![l].status = st, ![l].reason = reason],
         sfFiles' \in [{SfSpace(c) : c \in SfCases} -> SUBSET SfFiles],
         NEW seen \in SUBSET SfFiles, sfSeen' = [sfSeen EXCEPT ![l] = seen],
         st = "succeeded" => /\ sfLease[l].status = "validating" /\ seen = sfLease[l].files
                             /\ sfLease[l].case = "resume" =>
                                  sfLease[sfLease[l].pred].session = sfLease[l].session
  PROVE  SfInv'
<1> DEFINE x == [sfLease[l] EXCEPT !.status = st, !.reason = reason]
<1>1. sfLease[l] \in SfRecord /\ sfLease \in [SfLeases -> SfRecord]
  BY SfFacts
<1>2. /\ x \in SfRecord /\ x.status = st /\ x.reason = reason /\ x.case = sfLease[l].case
      /\ x.pred = sfLease[l].pred /\ x.ran = sfLease[l].ran /\ x.clean = sfLease[l].clean
      /\ x.session = sfLease[l].session /\ x.files = sfLease[l].files
  BY <1>1 DEF SfRecord
<1>3. sfLease' = [sfLease EXCEPT ![l] = x]
  BY <1>1
<1> HIDE DEF x
<1>4. SfBuilt(x)
  BY <1>2, SfFacts DEF SfBuilt, SfLive
<1>5. /\ x.status \in {"validating", "succeeded"} => x.ran = SfExpected(x.case) /\ x.clean
      /\ sfLease[l].status \in {"none", "issued", "running", "validating"}
  BY <1>2, SfFacts DEF SfLive
<1> QED  BY <1>2, <1>3, <1>4, <1>5, SfMoves

\* The run of a lease ends.
LEMMA SfEnds ==
  ASSUME SfInv, NEW l \in SfLeases, NEW outcome \in {"succeeded", "failed", "cancelled"},
         NEW clean \in BOOLEAN, NEW files \in SUBSET SfFiles,
         SfSettle(l, outcome, clean, files)
  PROVE  SfInv'
<1> DEFINE case == sfLease[l].case
           sessions == IF case = "create" THEN {0, l}
                       ELSE IF case = "resume" THEN {l, sfLease[sfLease[l].pred].session} ELSE {0}
<1>1. /\ sfLease[l] \in SfRecord /\ sfLease \in [SfLeases -> SfRecord]
      /\ SfBuilt(sfLease[l]) /\ sfLease[l].status = "running"
  BY SfFacts DEF SfSettle
<1>2. sessions \subseteq Nat
  <2>1. l \in Nat
    BY SfAssumption
  <2>2. case = "resume" => sfLease[sfLease[l].pred] \in SfRecord
    BY <1>1 DEF SfBuilt, SfPredecessor, SfRecord
  <2> QED  BY <2>1, <2>2 DEF SfRecord
<1>3. PICK session \in sessions :
         sfLease' = [sfLease EXCEPT ![l] =
                     [@ EXCEPT !.status = SfSettled(outcome, case, clean), !.ran = outcome,
                               !.reason = IF outcome = "succeeded" THEN "none" ELSE "interrupted",
                               !.clean = clean, !.session = session, !.files = files]]
  BY DEF SfSettle
<1> DEFINE x == [sfLease[l] EXCEPT !.status = SfSettled(outcome, case, clean), !.ran = outcome,
                               !.reason = IF outcome = "succeeded" THEN "none" ELSE "interrupted",
                               !.clean = clean, !.session = session, !.files = files]
<1>4. SfSettled(outcome, case, clean) \in {"validating", "cancelled", "failed"}
  BY DEF SfSettled
<1>5. session \in Nat
  BY <1>2
<1> HIDE DEF case, sessions
<1>6. /\ x \in SfRecord /\ x.status = SfSettled(outcome, case, clean) /\ x.ran = outcome
      /\ x.reason = (IF outcome = "succeeded" THEN "none" ELSE "interrupted")
      /\ x.clean = clean /\ x.case = sfLease[l].case /\ x.pred = sfLease[l].pred
  BY <1>1, <1>4, <1>5 DEF SfRecord
<1>7. sfLease' = [sfLease EXCEPT ![l] = x]
  BY <1>1, <1>3
<1> HIDE DEF x
<1>8. SfBuilt(x)
  BY <1>1, <1>6 DEF SfBuilt
<1>9. x.status \in {"validating", "succeeded"} => x.ran = SfExpected(x.case) /\ x.clean
  BY <1>4, <1>6 DEF SfSettled, case
<1>10. x.status # "succeeded"
  BY <1>4, <1>6
<1>11. /\ sfFiles' \in [{SfSpace(c) : c \in SfCases} -> SUBSET SfFiles]
       /\ sfSeen' = [sfSeen EXCEPT ![l] = sfSeen[l]] /\ sfSeen[l] \in SUBSET SfFiles
  <2>1. sfFiles' = [sfFiles EXCEPT ![SfSpaceOf(l)] = files] /\ UNCHANGED sfSeen
    BY DEF SfSettle
  <2> QED  BY <2>1, SfFacts
<1> QED  BY <1>1, <1>6, <1>7, <1>8, <1>9, <1>10, <1>11, SfMoves

\* A lease whose status alone changes keeps its reason.
LEMMA SfStatusOnly ==
  ASSUME SfInv, NEW l \in SfLeases, NEW st
  PROVE  [sfLease EXCEPT ![l].status = st]
           = [sfLease EXCEPT ![l].status = st, ![l].reason = sfLease[l].reason]
<1>1. sfLease[l] \in SfRecord /\ sfLease \in [SfLeases -> SfRecord]
  BY SfFacts
<1>2. [sfLease[l] EXCEPT !.status = st]
        = [sfLease[l] EXCEPT !.status = st, !.reason = sfLease[l].reason]
  BY <1>1 DEF SfRecord
<1> QED  BY <1>1, <1>2

\* A start, and a lease that is revoked or lapses.
LEMMA SfStartsOrCloses ==
  ASSUME SfInv, NEW l \in SfLeases, SfStart(l) \/ SfRevoke(l) \/ SfExpire(l)
  PROVE  SfInv'
<1>1. /\ sfFiles' \in [{SfSpace(c) : c \in SfCases} -> SUBSET SfFiles]
      /\ sfSeen' = [sfSeen EXCEPT ![l] = sfSeen[l]] /\ sfSeen[l] \in SUBSET SfFiles
  BY SfFacts DEF SfStart, SfRevoke, SfExpire, SfClose
<1>2. sfLease[l].status \in SfLive
  BY DEF SfStart, SfRevoke, SfExpire, SfClose, SfLive
<1>3. CASE SfStart(l)
  <2>1. sfLease' = [sfLease EXCEPT ![l].status = "running", ![l].reason = sfLease[l].reason]
    BY <1>3, SfStatusOnly DEF SfStart
  <2> QED  BY <1>1, <1>2, <2>1, SfGoesOn
<1>4. ASSUME NEW st \in {"cancelled", "expired"}, SfClose(l, st) PROVE SfInv'
  BY <1>1, <1>2, <1>4, SfGoesOn DEF SfClose
<1> QED  BY <1>3, <1>4 DEF SfRevoke, SfExpire

\* A field is completed from the workspace as its run left it.
LEMMA SfCompletes ==
  ASSUME SfInv, NEW l \in SfLeases,
         SfCompleteRelease(l) \/ SfCompleteCli(l) \/ SfCompleteCursor(l)
  PROVE  SfInv'
<1>1. /\ SfTerminal(l) /\ sfLease[l].status = "validating"
      /\ sfFiles[SfSpaceOf(l)] = sfLease[l].files
  BY DEF SfCompleteRelease, SfCompleteCli, SfCompleteCursor, SfIdentity
<1>2. sfLease[l].case = "resume" => sfLease[sfLease[l].pred].session = sfLease[l].session
  BY DEF SfCompleteRelease, SfCompleteCli, SfCompleteCursor, SfProviderCases, SfCursor
<1>3. sfLease[l].files \in SUBSET SfFiles
      /\ sfFiles' \in [{SfSpace(c) : c \in SfCases} -> SUBSET SfFiles]
  BY <1>1, SfFacts DEF SfTerminal, SfRecord
<1>4. /\ sfLease' = [sfLease EXCEPT ![l].status = "succeeded", ![l].reason = sfLease[l].reason]
      /\ sfSeen' = [sfSeen EXCEPT ![l] = sfLease[l].files]
  BY <1>1, SfStatusOnly DEF SfTerminal
<1>5. sfLease[l].status \in SfLive
  BY <1>1 DEF SfLive
<1> QED  BY <1>1, <1>2, <1>3, <1>4, <1>5, SfGoesOn

\* A step that leaves the leases alone.
LEMMA SfUntouched ==
  ASSUME SfInv, UNCHANGED <<sfLease, sfSeen>>,
         sfFiles' \in [{SfSpace(c) : c \in SfCases} -> SUBSET SfFiles]
  PROVE  SfInv'
<1>1. SfWorldOK'
  BY DEF SfInv, SfWorldOK
<1>2. \A l \in SfLeases : SfBuilt(sfLease[l])' /\ SfRested(sfLease[l], sfSeen[l])'
  BY DEF SfInv, SfBuilt, SfRested, SfPredecessor, SfContained, SfResumable, SfSpaceOf
<1> QED  BY <1>1, <1>2 DEF SfInv

\* Every step keeps the invariant.
LEMMA SfStepInv == SfInv /\ [SfNext]_sfVars => SfInv'
<1> SUFFICES ASSUME SfInv, [SfNext]_sfVars PROVE SfInv'
  OBVIOUS
<1>1. sfFiles \in [{SfSpace(c) : c \in SfCases} -> SUBSET SfFiles]
  BY DEF SfInv, SfWorldOK
<1>2. CASE UNCHANGED sfVars
  BY <1>1, <1>2, SfUntouched DEF sfVars
<1>3. ASSUME NEW w \in DOMAIN sfFiles, NEW files \in SUBSET SfFiles, SfEdit(w, files)
      PROVE  SfInv'
  BY <1>1, <1>3, SfUntouched DEF SfEdit
<1>4. ASSUME NEW l \in SfLeases, NEW case \in SfCases, NEW pred \in SfLeases \cup {0},
             SfIssue(l, case, pred)
      PROVE  SfInv'
  BY <1>4, SfIssued
<1>5. ASSUME NEW l \in SfLeases, NEW outcome \in {"succeeded", "failed", "cancelled"},
             NEW clean \in BOOLEAN, NEW files \in SUBSET SfFiles, SfSettle(l, outcome, clean, files)
      PROVE  SfInv'
  BY <1>5, SfEnds
<1>6. ASSUME NEW l \in SfLeases, SfStart(l) \/ SfRevoke(l) \/ SfExpire(l) PROVE SfInv'
  BY <1>6, SfStartsOrCloses
<1>7. ASSUME NEW l \in SfLeases, SfCompleteRelease(l) \/ SfCompleteCli(l) \/ SfCompleteCursor(l)
      PROVE  SfInv'
  BY <1>7, SfCompletes
<1> QED  BY <1>2, <1>3, <1>4, <1>5, <1>6, <1>7 DEF SfNext

\* What a passed lease builds on is over and of the right kind.
LEMMA SfInvSafe == SfInv => SfSafe
<1> SUFFICES ASSUME SfInv, NEW l \in SfLeases
             PROVE  /\ SfTypeOK
                    /\ sfLease[l].status = "succeeded" =>
                         /\ sfLease[l].ran = SfExpected(sfLease[l].case) /\ sfLease[l].clean
                         /\ sfSeen[l] = sfLease[l].files
                         /\ LET pred == sfLease[l].pred IN
                            /\ sfLease[l].case = "recovery" =>
                                 /\ sfLease[pred].ran \in {"failed", "cancelled"}
                                 /\ sfLease[pred].clean
                            /\ sfLease[l].case = "resume" =>
                                 /\ sfLease[pred].status = "succeeded"
                                 /\ sfLease[pred].session = sfLease[l].session
  BY DEF SfSafe, SfTypeOK, SfPassIsOfItsRun, SfChainHolds
<1>1. SfTypeOK
  BY DEF SfInv, SfWorldOK, SfRecord, SfTypeOK
<1>2. ASSUME sfLease[l].status = "succeeded"
      PROVE  /\ sfLease[l].ran = SfExpected(sfLease[l].case) /\ sfLease[l].clean
             /\ sfSeen[l] = sfLease[l].files
             /\ sfLease[l].case = "resume" =>
                  /\ sfLease[sfLease[l].pred].status = "succeeded"
                  /\ sfLease[sfLease[l].pred].session = sfLease[l].session
  BY <1>2 DEF SfInv, SfBuilt, SfRested, SfPredecessor, SfResumable
<1>3. ASSUME sfLease[l].status = "succeeded", sfLease[l].case = "recovery"
      PROVE  sfLease[sfLease[l].pred].ran \in {"failed", "cancelled"}
             /\ sfLease[sfLease[l].pred].clean
  <2>1. /\ sfLease[l].pred \in SfLeases /\ sfLease[sfLease[l].pred].reason = "interrupted"
        /\ sfLease[sfLease[l].pred].clean
    BY <1>3 DEF SfInv, SfWorldOK, SfRecord, SfBuilt, SfPredecessor, SfContained
  <2> QED  BY <2>1 DEF SfInv, SfBuilt
<1> QED  BY <1>1, <1>2, <1>3

\* For any leases, cases and writers in the workspaces: a field that passed
\* rests on its own run and on the workspace that run left, a recovery on a run
\* that was interrupted and cleaned up after, a resume on the session of a field
\* that passed (security/staged-validation.ts).
THEOREM StagedFieldsAreSafe == SfSpec => []SfSafe
<1>1. SfSpec => []SfInv
  BY SfInitInv, SfStepInv, PTL DEF SfSpec
<1> QED  BY <1>1, SfInvSafe, PTL

-----------------------------------------------------------------------------
(* The isolated backend *)

\* What a process holds in each step: a run from its directory to the end of the call, a
\* manifest from the step that writes it, guest directories only with a manifest.
LiWorking == {"prepare", "provider", "copyback", "check", "apply", "jss", "tests"}
LiEnding == {"clean", "record", "stop"}

LiVersions == [LimaFiles -> 0 .. LimaMaxEdits \cup LimaRuns]

LiHolds ==
  [pc : LimaSteps, req : LimaRequests \cup {LimaNone}, run : LimaRuns \cup {LimaNone},
   stale : SUBSET LimaStale, prepared : BOOLEAN, written : BOOLEAN,
   result : {"none", "succeeded", "failed"}, cancelled : BOOLEAN,
   base : LiVersions \cup {LimaNone},
   delta : SUBSET LimaFiles]

LiProc ==
  {x \in LiHolds :
     /\ x.pc \in {"manifest"} \cup LiWorking => x.run # LimaNone
     /\ x.run # LimaNone => x.pc \in {"manifest", "dead"} \cup LiWorking \cup LiEnding
     /\ x.pc \in LiWorking => x.written
     /\ x.written => x.run # LimaNone /\ x.pc \in LiWorking \cup LiEnding
     /\ x.prepared => x.written /\ x.pc # "prepare"}

LiStore ==
  /\ limaLock \in {"absent", "unowned"} \cup LimaProcs
  /\ limaVm \in {"stopped", "running"}
  /\ limaWs \in LiVersions
  /\ limaDir \in [LimaRuns -> LimaManifest]
  /\ \A r \in LimaRuns : (limaDir[r].state = "terminal") = (limaDir[r].result # "none")
  /\ limaGuest \subseteq LimaRuns /\ limaTransfer \subseteq LimaRuns
  /\ limaStaged \in LimaProcs \cup {LimaNone}
  /\ limaStolen \in BOOLEAN
  /\ limaApplied \subseteq LimaRuns
  /\ limaEdits \in 0 .. LimaMaxEdits /\ limaCrashes \in 0 .. LimaMaxCrashes

LiTypes == LiStore /\ limaProc \in [LimaProcs -> LiProc]

LiOthersStay(p) == \A q \in LimaProcs : q # p => limaProc'[q] = limaProc[q]

\* An idle process holds nothing.
LEMMA LiIdle == LimaIdleProc \in LiProc
BY LimaAssumption DEF LimaIdleProc, LiProc, LiHolds, LimaSteps, LiWorking, LiEnding

\* One process moves: the others stay, and it holds what it is to hold.
LEMMA LiOneMoves ==
  ASSUME limaProc \in [LimaProcs -> LiProc], NEW p \in LimaProcs, NEW x,
         limaProc' = [limaProc EXCEPT ![p] = x]
  PROVE  /\ LiOthersStay(p) /\ limaProc'[p] = x
         /\ x \in LiProc => limaProc' \in [LimaProcs -> LiProc]
BY DEF LiOthersStay

\* A process that goes to another step keeps what it holds, save baseline and delta.
LEMMA LiGotoMoves ==
  ASSUME limaProc \in [LimaProcs -> LiProc], NEW p \in LimaProcs, NEW s \in LimaSteps,
         LimaGoto(p, s)
  PROVE  /\ LiOthersStay(p) /\ limaProc'[p] \in LiHolds
         /\ limaProc'[p].pc = s /\ limaProc'[p].run = limaProc[p].run
         /\ limaProc'[p].req = limaProc[p].req
         /\ limaProc'[p].written = limaProc[p].written
         /\ limaProc'[p].prepared = limaProc[p].prepared
         /\ limaProc'[p].result = limaProc[p].result
         /\ limaProc'[p] \in LiProc => limaProc' \in [LimaProcs -> LiProc]
<1> DEFINE x == limaProc[p]
           b == IF s = "clean" THEN LimaNone ELSE x.base
           d == IF s = "clean" THEN {} ELSE x.delta
           y == [x EXCEPT !.pc = s, !.result = x.result, !.base = b, !.delta = d]
<1>1. x \in LiHolds
  BY DEF LiProc
<1>2. /\ b \in LiVersions \cup {LimaNone} /\ d \in SUBSET LimaFiles
      /\ x.result \in {"none", "succeeded", "failed"}
  BY <1>1 DEF LiHolds
<1>3. limaProc' = [limaProc EXCEPT ![p] = y]
  <2>1. limaProc' = [limaProc EXCEPT ![p] = [x EXCEPT !.pc = s, !.base = b, !.delta = d]]
    BY DEF LimaGoto
  <2>2. y = [x EXCEPT !.pc = s, !.base = b, !.delta = d]
    BY <1>1 DEF LiHolds
  <2> QED
    BY <2>1, <2>2
<1>4. LiOthersStay(p) /\ limaProc'[p] = y /\ (y \in LiProc => limaProc' \in [LimaProcs -> LiProc])
  <2> HIDE DEF y
  <2> QED
    BY <1>3, LiOneMoves
<1>5. /\ y \in LiHolds
      /\ y.pc = s /\ y.run = x.run /\ y.req = x.req /\ y.written = x.written
      /\ y.prepared = x.prepared /\ y.result = x.result
  <2>1. y = [x EXCEPT !.pc = s, !.result = x.result, !.base = b, !.delta = d]
    OBVIOUS
  <2> HIDE DEF b, d, x, y
  <2>2. /\ y.pc = s /\ y.run = x.run /\ y.req = x.req /\ y.written = x.written
        /\ y.prepared = x.prepared /\ y.result = x.result
    BY <1>1, <2>1 DEF LiHolds
  <2>3. y \in LiHolds
    BY <1>1, <1>2, <2>1 DEF LiHolds
  <2> QED
    BY <2>2, <2>3
<1> HIDE DEF y
<1> QED
  BY <1>4, <1>5

\* A run whose outcome is known goes to its finally block with it.
LEMMA LiFinishMoves ==
  ASSUME limaProc \in [LimaProcs -> LiProc], NEW p \in LimaProcs,
         NEW v \in {"none", "succeeded", "failed"}, LimaFinish(p, v)
  PROVE  /\ LiOthersStay(p) /\ limaProc'[p] \in LiHolds
         /\ limaProc'[p].pc = "clean" /\ limaProc'[p].run = limaProc[p].run
         /\ limaProc'[p].req = limaProc[p].req
         /\ limaProc'[p].written = limaProc[p].written
         /\ limaProc'[p].prepared = limaProc[p].prepared
         /\ limaProc'[p].result = v
         /\ limaProc'[p] \in LiProc => limaProc' \in [LimaProcs -> LiProc]
<1> DEFINE x == limaProc[p]
           y == [x EXCEPT !.pc = "clean", !.result = v, !.base = LimaNone, !.delta = {}]
<1>1. x \in LiHolds /\ "clean" \in LimaSteps
  BY DEF LiProc, LimaSteps
<1>2. limaProc' = [limaProc EXCEPT ![p] = y]
  BY DEF LimaFinish
<1>3. LiOthersStay(p) /\ limaProc'[p] = y /\ (y \in LiProc => limaProc' \in [LimaProcs -> LiProc])
  <2> HIDE DEF y
  <2> QED
    BY <1>2, LiOneMoves
<1>4. /\ y \in LiHolds
      /\ y.pc = "clean" /\ y.run = x.run /\ y.req = x.req /\ y.written = x.written
      /\ y.prepared = x.prepared /\ y.result = v
  <2>1. y = [x EXCEPT !.pc = "clean", !.result = v, !.base = LimaNone, !.delta = {}]
    OBVIOUS
  <2> HIDE DEF x, y
  <2>2. /\ y.pc = "clean" /\ y.run = x.run /\ y.req = x.req /\ y.written = x.written
        /\ y.prepared = x.prepared /\ y.result = v
    BY <1>1, <2>1 DEF LiHolds
  <2>3. y \in LiHolds
    BY <1>1, <2>1 DEF LiHolds
  <2> QED
    BY <2>2, <2>3
<1> HIDE DEF y
<1> QED
  BY <1>3, <1>4

\* A call that is over leaves an idle process.
LEMMA LiReturnMoves ==
  ASSUME limaProc \in [LimaProcs -> LiProc], NEW p \in LimaProcs, LimaReturn(p)
  PROVE  /\ LiOthersStay(p) /\ limaProc'[p] = LimaIdleProc
         /\ limaProc' \in [LimaProcs -> LiProc]
BY LiIdle DEF LimaReturn, LiOthersStay

\* What a process holds after each step is what it may hold in the next.
LEMMA LiProcStep ==
  ASSUME LiTypes, LimaNext
  PROVE  limaProc' \in [LimaProcs -> LiProc]
<1>0. limaProc \in [LimaProcs -> LiProc] /\ limaWs \in LiVersions
  BY DEF LiTypes, LiStore
<1>1. ASSUME NEW p \in LimaProcs PROVE limaProc[p] \in LiProc /\ limaProc[p] \in LiHolds
  BY <1>0 DEF LiProc
<1>2. ASSUME NEW p \in LimaProcs, NEW s \in LimaSteps, LimaGoto(p, s),
             \/ s \in {"clean", "stop", "record"} /\ limaProc[p].pc \notin {"idle", "dead", "lock"}
             \/ s \notin {"manifest"} \cup LiWorking /\ limaProc[p].run = LimaNone
             \/ s \in LiWorking \ {"prepare"} /\ limaProc[p].pc \in LiWorking
      PROVE limaProc' \in [LimaProcs -> LiProc]
  <2>1. limaProc'[p] \in LiProc
    BY <1>0, <1>1, <1>2, LiGotoMoves DEF LiProc, LiWorking, LiEnding
  <2> QED
    BY <1>0, <1>2, <2>1, LiGotoMoves
<1>3. ASSUME NEW p \in LimaProcs, NEW v \in {"none", "succeeded", "failed"}, LimaFinish(p, v),
             limaProc[p].pc \in LiWorking
      PROVE limaProc' \in [LimaProcs -> LiProc]
  <2>1. limaProc'[p] \in LiProc
    BY <1>0, <1>1, <1>3, LiFinishMoves DEF LiProc, LiWorking, LiEnding
  <2> QED
    BY <1>0, <1>3, <2>1, LiFinishMoves
<1>4. ASSUME NEW p \in LimaProcs, LimaReturn(p) PROVE limaProc' \in [LimaProcs -> LiProc]
  BY <1>0, <1>4, LiReturnMoves
<1>5. ASSUME NEW p \in LimaProcs, NEW y \in LiProc, limaProc' = [limaProc EXCEPT ![p] = y]
      PROVE limaProc' \in [LimaProcs -> LiProc]
  BY <1>0, <1>5
<1>6. ASSUME NEW p \in LimaProcs, LimaCall(p) PROVE limaProc' \in [LimaProcs -> LiProc]
  BY <1>1, <1>2, <1>6 DEF LimaCall, LimaAt, LimaSteps, LiProc, LiWorking, LiEnding
<1>7. ASSUME NEW p \in LimaProcs, LimaTryLock(p) PROVE limaProc' \in [LimaProcs -> LiProc]
  BY <1>1, <1>2, <1>4, <1>7 DEF LimaTryLock, LimaAt, LimaSteps, LiProc, LiWorking, LiEnding
<1>8. ASSUME NEW p \in LimaProcs, LimaReclaim(p) PROVE limaProc' \in [LimaProcs -> LiProc]
  BY <1>1, <1>2, <1>4, <1>8 DEF LimaReclaim, LimaAt, LimaSteps, LiProc, LiWorking, LiEnding
<1>9. ASSUME NEW p \in LimaProcs, LimaRemake(p) PROVE limaProc' \in [LimaProcs -> LiProc]
  BY <1>1, <1>2, <1>4, <1>9 DEF LimaRemake, LimaAt, LimaSteps, LiProc, LiWorking, LiEnding
<1>10. ASSUME NEW p \in LimaProcs, NEW req \in LimaRequests, LimaWriteOwner(p, req) PROVE limaProc' \in [LimaProcs -> LiProc]
  <2>1. CASE LimaReturn(p)
    BY <1>4, <2>1
  <2>2. CASE ~LimaReturn(p)
    <3> DEFINE x == limaProc[p]
    <3>1. PICK s \in {"list", "stage"} :
            limaProc' = [limaProc EXCEPT ![p] = [x EXCEPT !.pc = s, !.req = req]]
      BY <1>10, <2>2 DEF LimaWriteOwner
    <3>2. x.pc = "own" /\ x \in LiProc /\ x \in LiHolds
      BY <1>1, <1>10 DEF LimaWriteOwner, LimaAt
    <3> HIDE DEF x
    <3>3. [x EXCEPT !.pc = s, !.req = req] \in LiHolds
      BY <3>1, <3>2 DEF LiHolds, LimaSteps
    <3>4. [x EXCEPT !.pc = s, !.req = req] \in LiProc
      BY <3>1, <3>2, <3>3 DEF LiProc, LiHolds, LiWorking, LiEnding
    <3> QED
      BY <1>5, <3>1, <3>4
  <2> QED
    BY <2>1, <2>2
<1>11. ASSUME NEW p \in LimaProcs, LimaListPending(p) PROVE limaProc' \in [LimaProcs -> LiProc]
  <2>1. CASE LimaGoto(p, "clean")
    BY <1>2, <1>11, <2>1 DEF LimaListPending, LimaAt, LimaSteps
  <2>2. CASE ~LimaGoto(p, "clean")
    <3> DEFINE x == limaProc[p]
               d == {m \in LimaStale : m.run \in LimaPending /\ m.result = limaDir[m.run].result}
    <3>1. limaProc' = [limaProc EXCEPT ![p] = [x EXCEPT !.pc = "reconcile", !.stale = d]]
      BY <1>11, <2>2 DEF LimaListPending
    <3>2. x.pc = "list" /\ x \in LiProc /\ x \in LiHolds /\ d \in SUBSET LimaStale
      BY <1>1, <1>11 DEF LimaListPending, LimaAt
    <3> HIDE DEF x, d
    <3>3. [x EXCEPT !.pc = "reconcile", !.stale = d] \in LiHolds
      BY <3>2 DEF LiHolds, LimaSteps
    <3>4. [x EXCEPT !.pc = "reconcile", !.stale = d] \in LiProc
      BY <3>2, <3>3 DEF LiProc, LiHolds, LiWorking, LiEnding
    <3> QED
      BY <1>5, <3>1, <3>4
  <2> QED
    BY <2>1, <2>2
<1>12. ASSUME NEW p \in LimaProcs, NEW m, LimaReconcileOne(p, m)
       PROVE  limaProc' \in [LimaProcs -> LiProc]
  <2> DEFINE x == limaProc[p]
             d == x.stale \ {m}
  <2>1. limaProc' = [limaProc EXCEPT ![p] = [x EXCEPT !.stale = d]]
    BY <1>12 DEF LimaReconcileOne
  <2>2. x.pc = "reconcile" /\ x \in LiProc /\ x \in LiHolds
    BY <1>1, <1>12 DEF LimaReconcileOne, LimaAt
  <2>3. d \in SUBSET LimaStale
    BY <2>2 DEF LiHolds
  <2> HIDE DEF x, d
  <2>4. [x EXCEPT !.stale = d] \in LiHolds
    BY <2>2, <2>3 DEF LiHolds
  <2>5. [x EXCEPT !.stale = d] \in LiProc
    BY <2>2, <2>4 DEF LiProc, LiHolds
  <2> QED
    BY <1>5, <2>1, <2>5
<1>13. ASSUME NEW p \in LimaProcs, LimaMakeRunRoot(p) PROVE limaProc' \in [LimaProcs -> LiProc]
  <2> DEFINE x == limaProc[p]
  <2>0. PICK r \in LimaRuns :
          limaProc' = [limaProc EXCEPT ![p].pc = "manifest", ![p].run = r]
    BY <1>13 DEF LimaMakeRunRoot
  <2>1. limaProc' = [limaProc EXCEPT ![p] = [x EXCEPT !.pc = "manifest", !.run = r]]
    BY <2>0
  <2>2. x.pc = "reconcile" /\ x \in LiProc /\ x \in LiHolds /\ r # LimaNone
    BY <1>1, <1>13, LimaAssumption DEF LimaMakeRunRoot, LimaAt
  <2> HIDE DEF x
  <2>3. [x EXCEPT !.pc = "manifest", !.run = r] \in LiHolds
    BY <2>2 DEF LiHolds, LimaSteps
  <2>4. [x EXCEPT !.pc = "manifest", !.run = r] \in LiProc
    BY <2>2, <2>3 DEF LiProc, LiHolds, LiWorking, LiEnding
  <2> QED
    BY <1>5, <2>1, <2>4
<1>14. ASSUME NEW p \in LimaProcs, LimaWriteManifest(p) PROVE limaProc' \in [LimaProcs -> LiProc]
  <2>1. CASE LimaGoto(p, "clean")
    BY <1>2, <1>14, <2>1 DEF LimaWriteManifest, LimaAt, LimaSteps
  <2>2. CASE ~LimaGoto(p, "clean")
    <3> DEFINE x == limaProc[p]
    <3>1. limaProc' = [limaProc EXCEPT ![p] =
                         [x EXCEPT !.pc = "prepare", !.written = TRUE, !.base = limaWs]]
      BY <1>14, <2>2 DEF LimaWriteManifest
    <3>2. x.pc = "manifest" /\ x \in LiProc /\ x \in LiHolds
      BY <1>1, <1>14 DEF LimaWriteManifest, LimaAt
    <3> HIDE DEF x
    <3>3. [x EXCEPT !.pc = "prepare", !.written = TRUE, !.base = limaWs] \in LiHolds
      BY <1>0, <3>2 DEF LiHolds, LimaSteps
    <3>4. [x EXCEPT !.pc = "prepare", !.written = TRUE, !.base = limaWs] \in LiProc
      BY <3>2, <3>3 DEF LiProc, LiHolds, LiWorking, LiEnding
    <3> QED
      BY <1>5, <3>1, <3>4
  <2> QED
    BY <2>1, <2>2
<1>15. ASSUME NEW p \in LimaProcs, LimaPrepare(p) \/ LimaPrepareNative(p) PROVE limaProc' \in [LimaProcs -> LiProc]
  <2> DEFINE x == limaProc[p]
  <2>1. limaProc' = [limaProc EXCEPT ![p] = [x EXCEPT !.pc = "provider", !.prepared = TRUE]]
    BY <1>15 DEF LimaPrepare, LimaPrepareNative, LimaPrepared
  <2>2. x.pc = "prepare" /\ x \in LiProc /\ x \in LiHolds
    BY <1>1, <1>15 DEF LimaPrepare, LimaPrepareNative, LimaPrepared, LimaAt
  <2> HIDE DEF x
  <2>3. [x EXCEPT !.pc = "provider", !.prepared = TRUE] \in LiHolds
    BY <2>2 DEF LiHolds, LimaSteps
  <2>4. [x EXCEPT !.pc = "provider", !.prepared = TRUE] \in LiProc
    BY <2>2, <2>3 DEF LiProc, LiHolds, LiWorking, LiEnding
  <2> QED
    BY <1>5, <2>1, <2>4
<1>16. ASSUME NEW p \in LimaProcs, LimaPrepareFails(p) PROVE limaProc' \in [LimaProcs -> LiProc]
  <2> DEFINE x == limaProc[p]
  <2>0. PICK made \in BOOLEAN :
          limaProc' = [limaProc EXCEPT ![p].pc = "clean", ![p].prepared = made,
                                       ![p].base = LimaNone]
    BY <1>16, Zenon DEF LimaPrepareFails
  <2>1. limaProc' = [limaProc EXCEPT ![p] =
                       [x EXCEPT !.pc = "clean", !.prepared = made, !.base = LimaNone]]
    BY <2>0
  <2>2. x.pc = "prepare" /\ x \in LiProc /\ x \in LiHolds
    BY <1>1, <1>16 DEF LimaPrepareFails, LimaAt
  <2> HIDE DEF x
  <2>3. [x EXCEPT !.pc = "clean", !.prepared = made, !.base = LimaNone] \in LiHolds
    BY <2>2 DEF LiHolds, LimaSteps
  <2>4. [x EXCEPT !.pc = "clean", !.prepared = made, !.base = LimaNone] \in LiProc
    BY <2>2, <2>3 DEF LiProc, LiHolds, LiWorking, LiEnding
  <2> QED
    BY <1>5, <2>1, <2>4
<1>17. ASSUME NEW p \in LimaProcs, NEW files \in SUBSET LimaFiles,
              LimaProviderDone(p, files) \/ LimaNativeDone(p, files)
       PROVE limaProc' \in [LimaProcs -> LiProc]
  <2> DEFINE x == limaProc[p]
  <2>1. limaProc' = [limaProc EXCEPT ![p] = [x EXCEPT !.pc = "copyback", !.delta = files]]
    BY <1>17 DEF LimaProviderDone, LimaNativeDone, LimaLeft
  <2>2. x.pc = "provider" /\ x \in LiProc /\ x \in LiHolds
    BY <1>1, <1>17 DEF LimaProviderDone, LimaNativeDone, LimaLeft, LimaAt
  <2> HIDE DEF x
  <2>3. [x EXCEPT !.pc = "copyback", !.delta = files] \in LiHolds
    BY <2>2 DEF LiHolds, LimaSteps
  <2>4. [x EXCEPT !.pc = "copyback", !.delta = files] \in LiProc
    BY <2>2, <2>3 DEF LiProc, LiHolds, LiWorking, LiEnding
  <2> QED
    BY <1>5, <2>1, <2>4
<1>18. ASSUME NEW p \in LimaProcs, LimaProviderFails(p) \/ LimaNativeFails(p) PROVE limaProc' \in [LimaProcs -> LiProc]
  <2>1. PICK v \in {"none", "failed"} : LimaFinish(p, v) /\ LimaAt(p, "provider")
    BY <1>18 DEF LimaProviderFails, LimaNativeFails
  <2> QED
    BY <1>3, <2>1 DEF LimaAt, LiWorking
<1>19. ASSUME NEW p \in LimaProcs, LimaCopyBack(p) PROVE limaProc' \in [LimaProcs -> LiProc]
  BY <1>2, <1>19 DEF LimaCopyBack, LimaAt, LimaSteps, LiWorking
<1>20. ASSUME NEW p \in LimaProcs, LimaCheckDelta(p) \/ LimaCheckNative(p) PROVE limaProc' \in [LimaProcs -> LiProc]
  <2>1. /\ limaProc[p].pc = "check"
        /\ LimaFinish(p, "succeeded") \/ LimaFinish(p, "failed") \/ LimaGoto(p, "clean")
             \/ LimaGoto(p, "apply")
    BY <1>20 DEF LimaCheckDelta, LimaCheckNative, LimaAt
  <2> QED
    BY <1>2, <1>3, <2>1 DEF LimaSteps, LiWorking
<1>21. ASSUME NEW p \in LimaProcs, LimaApply(p) PROVE limaProc' \in [LimaProcs -> LiProc]
  BY <1>2, <1>3, <1>21 DEF LimaApply, LimaApplyAnyway, LimaAt, LimaSteps, LiWorking
<1>22. ASSUME NEW p \in LimaProcs, LimaJssField(p) \/ LimaJssTests(p) PROVE limaProc' \in [LimaProcs -> LiProc]
  <2>1. /\ limaProc[p].pc \in {"jss", "tests"}
        /\ LimaGoto(p, "tests") \/ LimaGoto(p, "clean") \/ LimaFinish(p, "succeeded")
    BY <1>22 DEF LimaJssField, LimaJssTests, LimaJssLook, LimaAt
  <2> QED
    BY <1>2, <1>3, <2>1 DEF LimaSteps, LiWorking
<1>23. ASSUME NEW p \in LimaProcs, LimaCommandFails(p) PROVE limaProc' \in [LimaProcs -> LiProc]
  BY <1>2, <1>23 DEF LimaCommandFails, LimaSteps
<1>24. ASSUME NEW p \in LimaProcs,
              \/ LimaImportHost(p) \/ LimaImportProfile(p) \/ LimaLogin(p)
              \/ LimaProbe(p) \/ LimaReadUsage(p) \/ LimaPlace(p)
       PROVE limaProc' \in [LimaProcs -> LiProc]
  <2>1. limaProc[p].pc \in {"stage", "place"} /\ (LimaGoto(p, "place") \/ LimaGoto(p, "clean"))
    BY <1>24 DEF LimaImportHost, LimaImportProfile, LimaLogin, LimaProbe, LimaReadUsage,
                 LimaPlace, LimaStage, LimaInquire, LimaAt
  <2>2. limaProc[p].run = LimaNone
    BY <1>1, <2>1 DEF LiProc, LiWorking, LiEnding
  <2> QED
    BY <1>2, <2>1, <2>2 DEF LimaSteps, LiWorking
<1>25. ASSUME NEW p \in LimaProcs, LimaClean(p) \/ LimaCleanFails(p) \/ LimaRecord(p) PROVE limaProc' \in [LimaProcs -> LiProc]
  <2>1. limaProc[p].pc \in {"clean", "record"} /\ (LimaGoto(p, "record") \/ LimaGoto(p, "stop"))
    BY <1>25 DEF LimaClean, LimaCleanFails, LimaRecord, LimaAt
  <2> QED
    BY <1>2, <2>1 DEF LimaSteps
<1>26. ASSUME NEW p \in LimaProcs, LimaRelease(p) PROVE limaProc' \in [LimaProcs -> LiProc]
  BY <1>4, <1>26 DEF LimaRelease
<1>27. ASSUME NEW p \in LimaProcs, LimaCancel(p) PROVE limaProc' \in [LimaProcs -> LiProc]
  <2> DEFINE x == limaProc[p]
  <2>1. limaProc' = [limaProc EXCEPT ![p] = [x EXCEPT !.cancelled = TRUE]]
    BY <1>27 DEF LimaCancel
  <2>2. x \in LiProc /\ x \in LiHolds
    BY <1>1
  <2> HIDE DEF x
  <2>3. [x EXCEPT !.cancelled = TRUE] \in LiHolds
    BY <2>2 DEF LiHolds
  <2>4. [x EXCEPT !.cancelled = TRUE] \in LiProc
    BY <2>2, <2>3 DEF LiProc, LiHolds
  <2> QED
    BY <1>5, <2>1, <2>4
<1>28. ASSUME NEW p \in LimaProcs, LimaCrash(p) PROVE limaProc' \in [LimaProcs -> LiProc]
  <2> DEFINE y == [LimaIdleProc EXCEPT !.pc = "dead", !.run = limaProc[p].run]
  <2>1. limaProc' = [limaProc EXCEPT ![p] = y]
    BY <1>28 DEF LimaCrash
  <2>2. limaProc[p].run \in LimaRuns \cup {LimaNone}
    BY <1>1 DEF LiHolds
  <2>3. y \in LiProc
    BY <2>2 DEF LimaIdleProc, LiProc, LiHolds, LimaSteps, LiWorking, LiEnding
  <2> QED
    BY <1>5, <2>1, <2>3
<1>29. ASSUME NEW f \in LimaFiles, LimaOwnerEdits(f) PROVE limaProc' \in [LimaProcs -> LiProc]
  BY <1>0, <1>29 DEF LimaOwnerEdits
<1> QED
  <2>1. ASSUME NEW p \in LimaProcs, LimaOwnStep(p) PROVE limaProc' \in [LimaProcs -> LiProc]
    BY <2>1, <1>7, <1>8, <1>9, <1>10, <1>11, <1>12, <1>13, <1>14, <1>15, <1>16, <1>19, <1>20,
       <1>21, <1>22, <1>23, <1>24, <1>25, <1>26 DEF LimaOwnStep
  <2>2. ASSUME NEW p \in LimaProcs, LimaProviderEnds(p) PROVE limaProc' \in [LimaProcs -> LiProc]
    BY <2>2, <1>17, <1>18 DEF LimaProviderEnds
  <2>3. CASE LimaEnvironment
    <3>1. CASE \E p \in LimaProcs : LimaCall(p) \/ LimaCancel(p) \/ LimaCrash(p)
      BY <3>1, <1>6, <1>27, <1>28
    <3>2. CASE \E f \in LimaFiles : LimaOwnerEdits(f)
      BY <3>2, <1>29
    <3> QED
      BY <2>3, <3>1, <3>2 DEF LimaEnvironment
  <2>4. (\E p \in LimaProcs : LimaOwnStep(p) \/ LimaProviderEnds(p)) \/ LimaEnvironment
    BY DEF LimaNext
  <2>5. limaProc' \in [LimaProcs -> LiProc]
    BY <2>1, <2>2, <2>3, <2>4
  <2> QED
    BY <2>5


\* A step that leaves a run's manifest another one, terminal exactly with a result.
LEMMA LiDirMoves ==
  ASSUME limaDir \in [LimaRuns -> LimaManifest],
         \A r \in LimaRuns : (limaDir[r].state = "terminal") = (limaDir[r].result # "none"),
         NEW s \in LimaRuns, NEW m \in LimaManifest, (m.state = "terminal") = (m.result # "none"),
         limaDir' = [limaDir EXCEPT ![s] = m]
  PROVE  /\ limaDir' \in [LimaRuns -> LimaManifest]
         /\ \A r \in LimaRuns : (limaDir'[r].state = "terminal") = (limaDir'[r].result # "none")
         /\ limaDir'[s] = m
         /\ \A r \in LimaRuns : r # s => limaDir'[r] = limaDir[r]
OBVIOUS

\* Lock, workspace, manifests and guest keep their types.
LEMMA LiStoreStep ==
  ASSUME LiTypes, LimaNext
  PROVE  LiStore'
<1>0. LiStore /\ limaProc \in [LimaProcs -> LiProc]
  BY DEF LiTypes
<1>1. ASSUME NEW p \in LimaProcs
      PROVE  /\ limaProc[p] \in LiProc /\ limaProc[p] \in LiHolds
             /\ limaProc[p].run \in LimaRuns \cup {LimaNone}
             /\ limaProc[p].pc \in {"manifest"} \cup LiWorking \/ limaProc[p].written \/ limaProc[p].prepared
                  => limaProc[p].run \in LimaRuns
  <2>1. limaProc[p] \in LiProc /\ limaProc[p] \in LiHolds
    BY <1>0 DEF LiProc
  <2>2. limaProc[p].run \in LimaRuns \cup {LimaNone}
    BY <2>1 DEF LiHolds
  <2> QED
    BY <2>1, <2>2 DEF LiProc
<1>2. ASSUME UNCHANGED <<limaLock, limaWs, limaDir, limaGuestSide, limaOutside>> PROVE LiStore'
  BY <1>0, <1>2 DEF LiStore, limaGuestSide, limaOutside, LiVersions, LimaManifest
<1>3. ASSUME limaLock' \in {"absent", "unowned"} \cup LimaProcs,
             UNCHANGED <<limaWs, limaDir, limaGuestSide, limaOutside>>
      PROVE  LiStore'
  BY <1>0, <1>3 DEF LiStore, limaGuestSide, limaOutside, LiVersions, LimaManifest
<1>4. ASSUME limaVm' \in {"running", "stopped"}, limaGuest' \subseteq LimaRuns,
             limaTransfer' \subseteq LimaRuns, limaStaged' \in LimaProcs \cup {LimaNone},
             UNCHANGED <<limaLock, limaWs, limaDir, limaOutside>>
      PROVE  LiStore'
  BY <1>0, <1>4 DEF LiStore, limaOutside, LiVersions, LimaManifest
<1>5. ASSUME limaVm' \in {"running", "stopped"}, limaGuest' \subseteq LimaRuns,
             limaTransfer' \subseteq LimaRuns, limaStaged' = limaStaged,
             NEW s \in LimaRuns, NEW m \in LimaManifest, (m.state = "terminal") = (m.result # "none"),
             limaDir' = [limaDir EXCEPT ![s] = m],
             UNCHANGED <<limaLock, limaWs, limaOutside>>
      PROVE  LiStore'
  <2>1. /\ limaDir' \in [LimaRuns -> LimaManifest]
        /\ \A r \in LimaRuns : (limaDir'[r].state = "terminal") = (limaDir'[r].result # "none")
    BY <1>0, <1>5, LiDirMoves DEF LiStore
  <2> QED
    BY <1>0, <1>5, <2>1 DEF LiStore, limaOutside, LiVersions
<1>6. limaLock \in {"absent", "unowned"} \cup LimaProcs /\ limaVm \in {"running", "stopped"}
      /\ limaDir \in [LimaRuns -> LimaManifest] /\ limaGuest \subseteq LimaRuns
      /\ limaTransfer \subseteq LimaRuns /\ limaStaged \in LimaProcs \cup {LimaNone}
  BY <1>0 DEF LiStore

<1>7. ASSUME NEW p \in LimaProcs,
             \/ LimaCall(p) \/ LimaListPending(p) \/ LimaNativeFails(p) \/ LimaCheckDelta(p)
             \/ LimaCheckNative(p) \/ LimaCancel(p) \/ LimaCommandFails(p)
      PROVE  LiStore'
  BY <1>2, <1>7 DEF LimaCall, LimaListPending, LimaNativeFails, LimaCheckDelta, LimaCheckNative,
                    LimaCancel, LimaCommandFails
<1>8. ASSUME NEW p \in LimaProcs, NEW files \in SUBSET LimaFiles,
             LimaProviderDone(p, files) \/ LimaNativeDone(p, files)
      PROVE  LiStore'
  BY <1>2, <1>8 DEF LimaProviderDone, LimaNativeDone, LimaLeft
<1>9. ASSUME NEW p \in LimaProcs, LimaTryLock(p) \/ LimaRemake(p) PROVE LiStore'
  BY <1>3, <1>6, <1>9 DEF LimaTryLock, LimaRemake
<1>10. ASSUME NEW p \in LimaProcs, NEW req \in LimaRequests, LimaWriteOwner(p, req) PROVE LiStore'
  BY <1>3, <1>6, <1>10 DEF LimaWriteOwner
<1>11. ASSUME NEW p \in LimaProcs, LimaReclaim(p) PROVE LiStore'
  BY <1>0, <1>11 DEF LimaReclaim, LiStore, LiVersions, LimaManifest
<1>12. ASSUME NEW p \in LimaProcs, LimaRelease(p) PROVE LiStore'
  BY <1>0, <1>12 DEF LimaRelease, LiStore, limaOutside, LiVersions, LimaManifest
<1>13. ASSUME NEW p \in LimaProcs, NEW m \in limaProc[p].stale, LimaReconcileOne(p, m) PROVE LiStore'
  <2> DEFINE x == [state |-> "terminal", cleanup |-> "complete",
                   result |-> IF m.result = "none" THEN "failed" ELSE m.result]
  <2>1. limaDir' = [limaDir EXCEPT ![m.run] = x]
    BY <1>13 DEF LimaReconcileOne
  <2>2. m \in LimaStale /\ m.run \in LimaRuns
    BY <1>1 DEF LiHolds, LimaStale
  <2>3. x \in LimaManifest /\ x.state = "terminal" /\ x.result # "none"
    BY <2>2 DEF LimaManifest, LimaStale
  <2>4. /\ limaVm' = "running" /\ limaGuest' \subseteq LimaRuns /\ limaTransfer' \subseteq LimaRuns
        /\ UNCHANGED <<limaLock, limaWs, limaStaged, limaOutside>>
    BY <1>6, <1>13 DEF LimaReconcileOne
  <2> HIDE DEF x
  <2> QED
    BY <1>5, <1>6, <2>1, <2>2, <2>3, <2>4
<1>14. ASSUME NEW p \in LimaProcs, LimaMakeRunRoot(p) PROVE LiStore'
  <2>1. PICK r \in LimaRuns : limaDir[r].state = "none" /\ limaDir' = [limaDir EXCEPT ![r].state = "bare"]
    BY <1>14 DEF LimaMakeRunRoot
  <2> DEFINE m == [limaDir[r] EXCEPT !.state = "bare"]
  <2>2. limaDir' = [limaDir EXCEPT ![r] = m]
    BY <2>1
  <2>3. limaDir[r].result = "none"
    BY <1>0, <2>1 DEF LiStore, LimaManifest
  <2>4. m \in LimaManifest /\ m.state = "bare" /\ m.result = "none"
    BY <1>6, <2>3 DEF LimaManifest
  <2> HIDE DEF m
  <2> QED
    BY <1>5, <1>6, <1>14, <2>2, <2>4 DEF LimaMakeRunRoot, limaGuestSide
<1>15. ASSUME NEW p \in LimaProcs, LimaWriteManifest(p) PROVE LiStore'
  <2>1. CASE UNCHANGED limaDir
    BY <1>2, <1>15, <2>1 DEF LimaWriteManifest
  <2>2. CASE limaDir' # limaDir
    <3> DEFINE m == [state |-> "preparing", cleanup |-> "pending", result |-> "none"]
    <3>1. limaDir' = [limaDir EXCEPT ![limaProc[p].run] = m] /\ limaProc[p].pc = "manifest"
      BY <1>15, <2>2 DEF LimaWriteManifest, LimaAt
    <3>2. m \in LimaManifest /\ m.state # "terminal" /\ m.result = "none"
      BY DEF LimaManifest
    <3> HIDE DEF m
    <3> QED
      BY <1>1, <1>5, <1>6, <1>15, <3>1, <3>2 DEF LimaWriteManifest, limaGuestSide
  <2> QED
    BY <2>1, <2>2
<1>16. ASSUME NEW p \in LimaProcs, LimaPrepare(p) \/ LimaPrepareNative(p) PROVE LiStore'
  <2> DEFINE m == [state |-> "running", cleanup |-> "pending", result |-> "none"]
  <2>1. PICK k \in {"execute", "native"} : LimaPrepared(p, k)
    BY <1>16 DEF LimaPrepare, LimaPrepareNative
  <2>2. limaDir' = [limaDir EXCEPT ![limaProc[p].run] = m] /\ limaProc[p].run \in LimaRuns
    BY <1>1, <2>1 DEF LimaPrepared, LimaAt, LiWorking
  <2>3. m \in LimaManifest /\ m.state # "terminal" /\ m.result = "none"
    BY DEF LimaManifest
  <2>4. limaGuest' \subseteq LimaRuns /\ limaTransfer' \subseteq LimaRuns
    BY <1>6, <2>1, <2>2 DEF LimaPrepared
  <2> HIDE DEF m
  <2> QED
    BY <1>5, <1>6, <2>1, <2>2, <2>3, <2>4 DEF LimaPrepared
<1>17. ASSUME NEW p \in LimaProcs, LimaPrepareFails(p) PROVE LiStore'
  <2>1. limaProc[p].run \in LimaRuns
    BY <1>1, <1>17 DEF LimaPrepareFails, LimaAt, LiWorking
  <2> QED
    BY <1>4, <1>6, <1>17, <2>1 DEF LimaPrepareFails
<1>18. ASSUME NEW p \in LimaProcs, LimaProviderFails(p) PROVE LiStore'
  BY <1>4, <1>6, <1>18 DEF LimaProviderFails
<1>19. ASSUME NEW p \in LimaProcs, LimaCopyBack(p) PROVE LiStore'
  <2>1. PICK s \in {"applying", "copying_back"} :
          limaDir' = [limaDir EXCEPT ![limaProc[p].run] =
                        [state |-> s, cleanup |-> "pending", result |-> "none"]]
    BY <1>19 DEF LimaCopyBack
  <2> DEFINE m == [state |-> s, cleanup |-> "pending", result |-> "none"]
  <2>2. m \in LimaManifest /\ m.state # "terminal" /\ m.result = "none"
    BY DEF LimaManifest
  <2>3. limaProc[p].run \in LimaRuns /\ limaDir' = [limaDir EXCEPT ![limaProc[p].run] = m]
    BY <1>1, <1>19, <2>1 DEF LimaCopyBack, LimaAt, LiWorking
  <2> HIDE DEF m
  <2> QED
    BY <1>5, <1>6, <1>19, <2>2, <2>3 DEF LimaCopyBack, limaGuestSide
<1>20. ASSUME NEW p \in LimaProcs, LimaApply(p) PROVE LiStore'
  <2>1. limaProc[p].run \in LimaRuns /\ limaWs \in LiVersions
    BY <1>0, <1>1, <1>20 DEF LimaApply, LimaApplyAnyway, LimaAt, LiWorking, LiStore
  <2>2. limaWs' \in LiVersions
    BY <1>20, <2>1 DEF LimaApply, LimaApplyAnyway, LiVersions
  <2> QED
    BY <1>0, <1>20, <2>1, <2>2 DEF LimaApply, LimaApplyAnyway, LiStore, limaGuestSide, LimaManifest
<1>21. ASSUME NEW p \in LimaProcs, LimaJssField(p) \/ LimaJssTests(p) PROVE LiStore'
  <2>1. /\ limaApplied' \in {limaApplied, limaApplied \ {limaProc[p].run}}
        /\ UNCHANGED <<limaLock, limaWs, limaDir, limaGuestSide, limaStolen, limaEdits, limaCrashes>>
    BY <1>21 DEF LimaJssField, LimaJssTests, LimaJssLook
  <2> QED
    BY <1>0, <2>1 DEF LiStore, limaGuestSide, LiVersions, LimaManifest
<1>22. ASSUME NEW p \in LimaProcs,
              \/ LimaImportHost(p) \/ LimaImportProfile(p) \/ LimaLogin(p)
              \/ LimaProbe(p) \/ LimaReadUsage(p) \/ LimaPlace(p)
       PROVE  LiStore'
  BY <1>4, <1>6, <1>22 DEF LimaImportHost, LimaImportProfile, LimaLogin, LimaProbe, LimaReadUsage,
                           LimaPlace, LimaStage, LimaInquire
<1>23. ASSUME NEW p \in LimaProcs, LimaClean(p) PROVE LiStore'
  BY <1>4, <1>6, <1>23 DEF LimaClean
<1>24. ASSUME NEW p \in LimaProcs, NEW c \in {"failed", "complete"}
       PROVE  LET m == LimaTerminal(p, c)
              IN  m \in LimaManifest /\ m.state = "terminal" /\ m.result # "none"
  BY <1>1 DEF LimaTerminal, LimaManifest, LiHolds
<1>25. ASSUME NEW p \in LimaProcs, LimaCleanFails(p) PROVE LiStore'
  <2>1. limaProc[p].run \in LimaRuns
    BY <1>1, <1>25 DEF LimaCleanFails
  <2>2. limaGuest' \subseteq LimaRuns /\ limaVm' \in {"running", "stopped"}
    BY <1>6, <1>25 DEF LimaCleanFails
  <2> QED
    BY <1>5, <1>6, <1>24, <1>25, <2>1, <2>2 DEF LimaCleanFails
<1>26. ASSUME NEW p \in LimaProcs, LimaRecord(p) PROVE LiStore'
  <2>1. CASE limaProc[p].written
    BY <1>1, <1>5, <1>6, <1>24, <1>26, <2>1 DEF LimaRecord, limaGuestSide
  <2>2. CASE ~limaProc[p].written
    BY <1>2, <1>26, <2>2 DEF LimaRecord
  <2> QED
    BY <2>1, <2>2
<1>27. ASSUME NEW p \in LimaProcs, LimaCrash(p) PROVE LiStore'
  <2>1. limaCrashes' \in 0 .. LimaMaxCrashes
    BY <1>0, <1>27, LimaAssumption DEF LimaCrash, LiStore
  <2> QED
    BY <1>0, <1>27, <2>1 DEF LimaCrash, LiStore, limaGuestSide, LiVersions, LimaManifest
<1>28. ASSUME NEW f \in LimaFiles, LimaOwnerEdits(f) PROVE LiStore'
  <2>1. limaEdits' \in 0 .. LimaMaxEdits /\ limaEdits + 1 \in 0 .. LimaMaxEdits
    BY <1>0, <1>28, LimaAssumption DEF LimaOwnerEdits, LiStore
  <2>2. limaWs' \in LiVersions
    BY <1>0, <1>28, <2>1 DEF LimaOwnerEdits, LiStore, LiVersions
  <2> QED
    BY <1>0, <1>28, <2>1, <2>2 DEF LimaOwnerEdits, LiStore, limaGuestSide, LimaManifest
<1> QED
  <2>1. ASSUME NEW p \in LimaProcs, LimaOwnStep(p) PROVE LiStore'
    BY <2>1, <1>7, <1>9, <1>10, <1>11, <1>12, <1>13, <1>14, <1>15, <1>16, <1>17, <1>19,
       <1>20, <1>21, <1>22, <1>23, <1>25, <1>26 DEF LimaOwnStep
  <2>2. ASSUME NEW p \in LimaProcs, LimaProviderEnds(p) PROVE LiStore'
    BY <2>2, <1>7, <1>8, <1>18 DEF LimaProviderEnds
  <2>3. CASE LimaEnvironment
    BY <2>3, <1>7, <1>27, <1>28 DEF LimaEnvironment
  <2> QED
    BY <2>1, <2>2, <2>3 DEF LimaNext

\* The lock names the one process inside; nobody is inside while another makes it.
LiLock ==
  /\ \A p \in LimaProcs : LimaInside(p) => limaLock = p
  /\ \A p \in LimaProcs : LimaAt(p, "own") => limaLock = "unowned"
  /\ \A p, q \in LimaProcs : LimaAt(p, "own") /\ LimaAt(q, "own") => p = q

\* The run's manifest is written and neither recorded as over nor cleaned up.
LiUnderway(r) ==
  /\ limaDir[r].state \in {"preparing", "running", "copying_back", "applying"}
  /\ limaDir[r].cleanup = "pending" /\ limaDir[r].result = "none"

\* What the process inside finds on disk and in the guest of its own run.
LiGood(p) ==
  /\ LimaAt(p, "manifest") => limaDir[limaProc[p].run].state = "bare"
  /\ limaProc[p].pc \in LiWorking => LiUnderway(limaProc[p].run)
  /\ limaProc[p].pc \in {"clean", "record"} /\ limaProc[p].written => LiUnderway(limaProc[p].run)
  /\ LimaInside(p) /\ ~limaProc[p].prepared => limaProc[p].run \notin limaGuest \cup limaTransfer
  /\ LimaAt(p, "record") => limaProc[p].run \notin limaGuest \cup limaTransfer
  /\ LimaAt(p, "place") => limaStaged = p
  /\ LimaAt(p, "reconcile") => \A m \in limaProc[p].stale : m.result = limaDir[m.run].result

\* A process holds the success of this run and has still to record it.
LiAwaits(p, r) ==
  /\ limaProc[p].run = r /\ limaDir[r].result = "none"
  /\ \/ limaProc[p].pc \in {"jss", "tests"}
     \/ limaProc[p].pc \in {"clean", "record"} /\ limaProc[p].result = "succeeded" /\ limaProc[p].written

\* A delta that reached the workspace is recorded, or about to be, or its process died.
LiSettled(r) ==
  \/ \E p \in LimaProcs : LimaAt(p, "dead") /\ limaProc[p].run = r
  \/ limaDir[r].result = "succeeded"
  \/ \E p \in LimaProcs : LiAwaits(p, r)

LiGuest == limaGuest \cup limaTransfer \subseteq LimaPending

LiKept == LiLock /\ (\A p \in LimaProcs : LiGood(p)) /\ LiGuest /\ (\A r \in limaApplied : LiSettled(r))

\* The inductive invariant of the isolated backend.
LiInv == LiTypes /\ (~limaStolen => LiKept)

\* While the lock is what it should be, a process inside is alone.
LEMMA LiAlone ==
  ASSUME LiLock, NEW p \in LimaProcs, LimaInside(p), NEW q \in LimaProcs, q # p
  PROVE  ~LimaInside(q) /\ ~LimaAt(q, "own")
BY LimaAssumption DEF LiLock

\* The process inside takes a step and stays inside, or leaves.
LEMMA LiLockInside ==
  ASSUME LiLock, NEW p \in LimaProcs, LimaInside(p), LiOthersStay(p), ~LimaAt(p, "own")',
         LimaInside(p)' => limaLock' = limaLock
  PROVE  LiLock'
<1>1. \A q \in LimaProcs : q # p => ~LimaInside(q)' /\ ~LimaAt(q, "own")'
  BY LiAlone DEF LiOthersStay, LimaInside, LimaAt
<1> QED
  BY <1>1 DEF LiLock

\* A process outside has nothing to find there.
LEMMA LiGoodOutside ==
  ASSUME NEW p \in LimaProcs, ~LimaInside(p)
  PROVE  LiGood(p)
BY DEF LiGood, LimaInside, LimaAt, LiWorking

\* The process inside moves: only what it finds matters.
LEMMA LiGoodInside ==
  ASSUME LiLock, NEW p \in LimaProcs, LimaInside(p), LiOthersStay(p), LiGood(p)'
  PROVE  \A q \in LimaProcs : LiGood(q)'
<1> SUFFICES ASSUME NEW q \in LimaProcs, q # p PROVE LiGood(q)'
  OBVIOUS
<1>1. ~LimaInside(q) /\ limaProc'[q] = limaProc[q]
  BY LiAlone DEF LiOthersStay
<1> QED
  BY <1>1 DEF LiGood, LimaInside, LimaAt, LiWorking

\* Only the process inside awaits the record of a run.
LEMMA LiAwaitsInside ==
  ASSUME NEW p \in LimaProcs, NEW r, LiAwaits(p, r)
  PROVE  LimaInside(p)
BY DEF LiAwaits, LimaInside

\* A dead process and a recorded success settle a run for good; the process inside may only
\* settle or keep what it awaits.
LEMMA LiSettledKept ==
  ASSUME LiLock, NEW p \in LimaProcs, LimaInside(p), LiOthersStay(p), NEW r, LiSettled(r),
         limaDir[r].result = "succeeded" => LiSettled(r)',
         LiAwaits(p, r) => LiSettled(r)'
  PROVE  LiSettled(r)'
<1>1. CASE \E q \in LimaProcs : LimaAt(q, "dead") /\ limaProc[q].run = r
  <2>1. PICK q \in LimaProcs : LimaAt(q, "dead") /\ limaProc[q].run = r
    BY <1>1
  <2>2. q # p /\ limaProc'[q] = limaProc[q]
    BY <2>1 DEF LiOthersStay, LimaAt, LimaInside
  <2> QED
    BY <2>1, <2>2 DEF LiSettled, LimaAt
<1>2. CASE \E q \in LimaProcs : LiAwaits(q, r)
  BY <1>2, LiAwaitsInside, LiAlone
<1> QED
  BY <1>1, <1>2 DEF LiSettled

\* A process outside moves and touches neither manifests, guest nor workspace.
LEMMA LiRestOutside ==
  ASSUME LiTypes, NEW p \in LimaProcs, ~LimaInside(p), ~LimaAt(p, "dead"), LiOthersStay(p), LiKept,
         limaDir' = limaDir, limaGuest' = limaGuest, limaTransfer' = limaTransfer,
         limaStaged' = limaStaged, limaApplied' = limaApplied, LiGood(p)'
  PROVE  (\A q \in LimaProcs : LiGood(q)') /\ LiGuest' /\ (\A r \in limaApplied' : LiSettled(r)')
<1>1. LiGuest'
  BY DEF LiKept, LiGuest, LimaPending
<1>2. ASSUME NEW q \in LimaProcs PROVE LiGood(q)'
  <2>1. CASE q # p
    BY <2>1 DEF LiKept, LiGood, LiOthersStay, LimaInside, LimaAt, LiUnderway
  <2> QED
    BY <2>1
<1>3. ASSUME NEW r \in limaApplied' PROVE LiSettled(r)'
  <2>1. LiSettled(r)
    BY <1>3 DEF LiKept
  <2>2. CASE \E q \in LimaProcs : LimaAt(q, "dead") /\ limaProc[q].run = r
    BY <2>2 DEF LiSettled, LiOthersStay, LimaAt
  <2>3. CASE limaDir[r].result = "succeeded"
    BY <2>3 DEF LiSettled
  <2>4. CASE \E q \in LimaProcs : LiAwaits(q, r)
    <3>1. PICK q \in LimaProcs : LiAwaits(q, r)
      BY <2>4
    <3>2. LiAwaits(q, r)'
      BY <3>1, LiAwaitsInside DEF LiAwaits, LiOthersStay
    <3> QED
      BY <3>2 DEF LiSettled
  <2> QED
    BY <2>1, <2>2, <2>3, <2>4 DEF LiSettled
<1> QED
  BY <1>1, <1>2, <1>3

\* The process inside takes a step: what remains to be shown of it.
LEMMA LiInsideKept ==
  ASSUME LiKept, NEW p \in LimaProcs, LimaInside(p), LiOthersStay(p), ~LimaAt(p, "own")',
         LimaInside(p)' => limaLock' = limaLock, LiGood(p)', LiGuest',
         \A r \in limaApplied' : r \notin limaApplied => LiSettled(r)',
         \A r \in limaApplied' \cap limaApplied :
           /\ limaDir[r].result = "succeeded" => LiSettled(r)'
           /\ LiAwaits(p, r) => LiSettled(r)'
  PROVE  LiKept'
<1>1. LiLock'
  BY LiLockInside DEF LiKept
<1>2. \A q \in LimaProcs : LiGood(q)'
  BY LiGoodInside DEF LiKept
<1>3. ASSUME NEW r \in limaApplied' PROVE LiSettled(r)'
  BY LiSettledKept DEF LiKept
<1> QED
  BY <1>1, <1>2, <1>3 DEF LiKept

\* The process inside goes on, or to its finally block, and leaves disk and guest alone.
LEMMA LiMemoryKept ==
  ASSUME LiTypes, LiKept, NEW p \in LimaProcs, LiOthersStay(p),
         LimaInside(p), limaProc[p].pc \notin {"record", "stop"},
         limaProc'[p].pc \in LiWorking \cup {"clean"},
         limaProc'[p].pc \in LiWorking => limaProc[p].pc \in LiWorking,
         limaProc'[p].run = limaProc[p].run, limaProc'[p].written = limaProc[p].written,
         limaProc'[p].prepared = limaProc[p].prepared,
         limaLock' = limaLock, limaDir' = limaDir, limaGuest' = limaGuest,
         limaTransfer' = limaTransfer, limaApplied' \subseteq limaApplied,
         \A r \in limaApplied' : LiAwaits(p, r) => LiAwaits(p, r)'
  PROVE  LiKept'
<1> USE DEF LimaAt
<1>1. limaProc[p] \in LiProc /\ LiGood(p)
  BY DEF LiTypes, LiKept
<1>2. LiGood(p)'
  <2>1. limaProc[p].written => limaProc[p].pc \in LiWorking \cup LiEnding
    BY <1>1 DEF LiProc
  <2>2. limaProc[p].written => LiUnderway(limaProc[p].run)
    BY <1>1, <2>1 DEF LiGood, LiEnding
  <2>3. limaProc'[p].pc \in LiWorking => LiUnderway(limaProc[p].run)
    BY <1>1 DEF LiGood
  <2>4. ~limaProc[p].prepared => limaProc[p].run \notin limaGuest \cup limaTransfer
    BY <1>1 DEF LiGood
  <2>5. limaProc'[p].pc \notin {"manifest", "place", "record", "reconcile"}
    BY DEF LiWorking
  <2>6. LiUnderway(limaProc[p].run) => LiUnderway(limaProc[p].run)'
    BY DEF LiUnderway
  <2> QED
    BY <2>2, <2>3, <2>4, <2>5, <2>6 DEF LiGood, LiUnderway
<1>3. LiGuest' /\ ~LimaAt(p, "own")'
  BY DEF LiKept, LiGuest, LimaPending, LiWorking
<1>4. ASSUME NEW r \in limaApplied' \cap limaApplied
      PROVE  /\ limaDir[r].result = "succeeded" => LiSettled(r)'
             /\ LiAwaits(p, r) => LiSettled(r)'
  BY <1>4 DEF LiSettled
<1> QED
  BY <1>2, <1>3, <1>4, LiInsideKept

\* A process outside moves, and finds nothing wrong when it comes inside.
LEMMA LiOutsideKept ==
  ASSUME LiTypes, NEW p \in LimaProcs, ~LimaInside(p), ~LimaAt(p, "dead"), LiOthersStay(p), LiKept,
         limaDir' = limaDir, limaGuest' = limaGuest, limaTransfer' = limaTransfer,
         limaStaged' = limaStaged, limaApplied' = limaApplied, LiGood(p)', LiLock'
  PROVE  LiKept'
BY LiRestOutside DEF LiKept

\* The calls' ways to the lock, and a death on the way.
LEMMA LiOutsideStep ==
  ASSUME LiTypes, LiKept, ~limaStolen', NEW p \in LimaProcs,
         \/ LimaCall(p) \/ LimaTryLock(p) \/ LimaReclaim(p) \/ LimaRemake(p)
         \/ (\E req \in LimaRequests : LimaWriteOwner(p, req))
         \/ LimaCrash(p) /\ ~LimaInside(p)
  PROVE  LiKept'
<1> USE DEF LimaAt
<1>0. /\ limaProc \in [LimaProcs -> LiProc] /\ limaProc[p] \in LiProc /\ LiLock /\ LiGuest
      /\ limaLock \in {"absent", "unowned"} \cup LimaProcs /\ limaDir \in [LimaRuns -> LimaManifest]
      /\ LimaPending \subseteq LimaRuns /\ \A q \in LimaProcs : limaProc[q].pc \in LimaSteps
  BY DEF LiTypes, LiStore, LiKept, LimaPending, LiProc, LiHolds
<1>1. CASE LimaCall(p)
  <2>1. LiOthersStay(p) /\ limaProc'[p].pc = "lock" /\ limaProc[p].pc = "idle"
    BY <1>0, <1>1, LiGotoMoves DEF LimaCall, LimaSteps
  <2>2. LiLock'
    BY <1>0, <1>1, <2>1 DEF LiLock, LimaInside, LimaCall, LiOthersStay
  <2>3. LiGood(p)'
    BY <2>1 DEF LiGood, LimaInside, LiWorking
  <2> QED
    BY <1>1, <2>1, <2>2, <2>3, LiOutsideKept DEF LimaCall, LimaInside, limaGuestSide, limaOutside
<1>2. ASSUME limaLock = "absent", limaLock' = "unowned", LimaGoto(p, "own"),
             limaProc[p].pc \in {"lock", "remake"},
             UNCHANGED <<limaDir, limaGuestSide, limaOutside>>
      PROVE  LiKept'
  <2>1. LiOthersStay(p) /\ limaProc'[p].pc = "own"
    BY <1>0, <1>2, LiGotoMoves DEF LimaSteps
  <2>2. \A q \in LimaProcs : ~LimaInside(q) /\ ~LimaAt(q, "own")
    BY <1>0, <1>2, LimaAssumption DEF LiLock
  <2>3. LiLock'
    BY <1>2, <2>1, <2>2 DEF LiLock, LimaInside, LiOthersStay
  <2>4. LiGood(p)'
    BY <2>1 DEF LiGood, LimaInside, LiWorking
  <2> QED
    BY <1>2, <2>1, <2>3, <2>4, LiOutsideKept DEF LimaInside, limaGuestSide, limaOutside
<1>3. ASSUME limaLock' = limaLock, LimaReturn(p) \/ LimaGoto(p, "reclaim"),
             limaProc[p].pc \in {"lock", "reclaim", "remake"},
             UNCHANGED <<limaDir, limaGuest, limaTransfer, limaStaged, limaApplied>>
      PROVE  LiKept'
  <2>1. LiOthersStay(p) /\ limaProc'[p].pc \in {"idle", "reclaim"}
    BY <1>0, <1>3, LiGotoMoves, LiReturnMoves DEF LimaSteps, LimaIdleProc
  <2>2. LiLock'
    BY <1>0, <1>3, <2>1 DEF LiLock, LimaInside, LiOthersStay
  <2>3. LiGood(p)'
    BY <2>1 DEF LiGood, LimaInside, LiWorking
  <2> QED
    BY <1>3, <2>1, <2>2, <2>3, LiOutsideKept DEF LimaInside
<1>4. CASE LimaTryLock(p)
  BY <1>2, <1>3, <1>4 DEF LimaTryLock, limaGuestSide, limaOutside
<1>5. CASE LimaReclaim(p)
  <2>1. CASE limaLock' = limaLock /\ LimaReturn(p)
    BY <1>3, <1>5, <2>1 DEF LimaReclaim
  <2>2. CASE limaLock' = "absent" /\ LimaGoto(p, "remake") /\ LimaOthersInside(p) = {}
    <3>1. LiOthersStay(p) /\ limaProc'[p].pc = "remake" /\ limaProc[p].pc = "reclaim"
      BY <1>0, <1>5, <2>2, LiGotoMoves DEF LimaSteps, LimaReclaim
    <3>2. \A q \in LimaProcs : q # p => ~LimaInside(q) /\ ~LimaAt(q, "own")
      BY <2>2 DEF LimaOthersInside, LimaInside
    <3>3. LiLock'
      BY <3>1, <3>2 DEF LiLock, LimaInside, LiOthersStay
    <3>4. LiGood(p)'
      BY <3>1 DEF LiGood, LimaInside, LiWorking
    <3> QED
      BY <1>5, <3>1, <3>3, <3>4, LiOutsideKept DEF LimaReclaim, LimaInside
  <2> QED
    BY <1>5, <2>1, <2>2 DEF LimaReclaim
<1>6. CASE LimaRemake(p)
  BY <1>2, <1>3, <1>6 DEF LimaRemake, limaGuestSide, limaOutside
<1>7. CASE \E req \in LimaRequests : LimaWriteOwner(p, req)
  <2>1. PICK req \in LimaRequests : LimaWriteOwner(p, req)
    BY <1>7
  <2>2. limaLock = "unowned" /\ limaProc[p].pc = "own"
    BY <1>0, <2>1 DEF LiLock, LimaWriteOwner
  <2>3. PICK s \in {"list", "stage"} :
          limaLock' = p /\ limaProc' = [limaProc EXCEPT ![p].pc = s, ![p].req = req]
    BY <2>1, <2>2 DEF LimaWriteOwner
  <2>4. /\ LiOthersStay(p) /\ limaProc'[p].pc = s /\ limaProc'[p].run = limaProc[p].run
        /\ limaProc'[p].written = limaProc[p].written
    BY <1>0, <2>3 DEF LiOthersStay, LiProc, LiHolds
  <2>5. limaProc[p].run = LimaNone /\ ~limaProc[p].written
    BY <1>0, <2>2 DEF LiProc, LiWorking, LiEnding
  <2>6. \A q \in LimaProcs : q # p => ~LimaInside(q) /\ ~LimaAt(q, "own")
    BY <1>0, <2>2, LimaAssumption DEF LiLock
  <2>7. LiLock'
    BY <2>3, <2>4, <2>6 DEF LiLock, LimaInside, LiOthersStay
  <2>8. LimaNone \notin limaGuest \cup limaTransfer
    BY <1>0, LimaAssumption DEF LiGuest
  <2>9. LiGood(p)'
    BY <2>1, <2>4, <2>5, <2>8 DEF LiGood, LimaInside, LiWorking, LimaWriteOwner, limaGuestSide
  <2> QED
    BY <2>1, <2>2, <2>4, <2>7, <2>9, LiOutsideKept DEF LimaWriteOwner, LimaInside, limaGuestSide, limaOutside
<1>8. CASE LimaCrash(p) /\ ~LimaInside(p)
  <2>1. LiOthersStay(p) /\ limaProc'[p].pc = "dead" /\ limaProc[p].pc # "dead"
    BY <1>0, <1>8 DEF LiOthersStay, LimaCrash, LimaIdleProc
  <2>2. LiLock'
    BY <1>0, <1>8, <2>1 DEF LiLock, LimaInside, LimaCrash, LiOthersStay
  <2>3. LiGood(p)'
    BY <2>1 DEF LiGood, LimaInside, LiWorking
  <2> QED
    BY <1>8, <2>1, <2>2, <2>3, LiOutsideKept DEF LimaCrash, limaGuestSide
<1> QED
  BY <1>1, <1>4, <1>5, <1>6, <1>7, <1>8

\* The steps of the call that change only what its process holds, or take back a delta.
LEMMA LiMemoryStep ==
  ASSUME LiTypes, LiKept, NEW p \in LimaProcs,
         \/ LimaProviderFails(p) \/ LimaNativeFails(p) \/ LimaCheckDelta(p) \/ LimaCheckNative(p)
         \/ LimaJssField(p) \/ LimaJssTests(p) \/ LimaCommandFails(p) \/ LimaPlace(p)
         \/ LimaProbe(p) \/ LimaReadUsage(p) \/ LimaCancel(p)
         \/ (\E files \in SUBSET LimaFiles : LimaProviderDone(p, files) \/ LimaNativeDone(p, files))
         \/ LimaLogin(p) /\ LimaGoto(p, "clean")
         \/ (LimaListPending(p) \/ LimaWriteManifest(p)) /\ LimaGoto(p, "clean") /\ UNCHANGED limaDir
  PROVE  LiKept'
<1> USE DEF LimaAt
<1>0. limaProc \in [LimaProcs -> LiProc] /\ limaProc[p] \in LiProc /\ limaProc[p] \in LiHolds
  BY DEF LiTypes, LiProc
<1>1. ASSUME NEW s \in {"clean", "apply", "tests"}, LimaGoto(p, s),
             LimaInside(p), limaProc[p].pc \notin {"record", "stop", "clean"},
             s # "clean" => limaProc[p].pc \in LiWorking,
             \/ limaApplied' = limaApplied /\ (limaProc[p].pc \in {"jss", "tests"} => s = "tests")
             \/ limaApplied' = limaApplied \ {limaProc[p].run},
             UNCHANGED <<limaLock, limaDir, limaGuest, limaTransfer>>
      PROVE  LiKept'
  <2>1. /\ LiOthersStay(p) /\ limaProc'[p].pc = s /\ limaProc'[p].run = limaProc[p].run
        /\ limaProc'[p].written = limaProc[p].written
        /\ limaProc'[p].prepared = limaProc[p].prepared
    BY <1>0, <1>1, LiGotoMoves DEF LimaSteps
  <2>2. ASSUME NEW r \in limaApplied', LiAwaits(p, r) PROVE LiAwaits(p, r)'
    BY <1>1, <2>1, <2>2 DEF LiAwaits
  <2> QED
    BY <1>1, <2>1, <2>2, LiMemoryKept DEF LiWorking
<1>2. ASSUME NEW v \in {"none", "succeeded", "failed"}, LimaFinish(p, v),
             limaProc[p].pc \in LiWorking, limaProc[p].pc \in {"jss", "tests"} => v = "succeeded",
             limaApplied' = limaApplied,
             UNCHANGED <<limaLock, limaDir, limaGuest, limaTransfer>>
      PROVE  LiKept'
  <2>1. /\ LiOthersStay(p) /\ limaProc'[p].pc = "clean" /\ limaProc'[p].run = limaProc[p].run
        /\ limaProc'[p].written = limaProc[p].written /\ limaProc'[p].result = v
        /\ limaProc'[p].prepared = limaProc[p].prepared
    BY <1>0, <1>2, LiFinishMoves
  <2>2. limaProc[p].written
    BY <1>0, <1>2 DEF LiProc
  <2>3. ASSUME NEW r \in limaApplied', LiAwaits(p, r) PROVE LiAwaits(p, r)'
    BY <1>2, <2>1, <2>2, <2>3 DEF LiAwaits, LiWorking
  <2> QED
    BY <1>2, <2>1, <2>3, LiMemoryKept DEF LiWorking, LimaInside
<1>3. ASSUME NEW x, limaProc' = [limaProc EXCEPT ![p] = x],
             x.pc \in LiWorking, x.run = limaProc[p].run, x.written = limaProc[p].written,
             x.prepared = limaProc[p].prepared, limaProc[p].pc \in LiWorking,
             limaProc[p].pc \in {"jss", "tests"} => x.pc = limaProc[p].pc,
             UNCHANGED <<limaLock, limaDir, limaGuest, limaTransfer, limaApplied>>
      PROVE  LiKept'
  <2>1. LiOthersStay(p) /\ limaProc'[p] = x
    BY <1>0, <1>3, LiOneMoves
  <2>2. ASSUME NEW r \in limaApplied', LiAwaits(p, r) PROVE LiAwaits(p, r)'
    BY <1>3, <2>1, <2>2 DEF LiAwaits, LiWorking
  <2> QED
    BY <1>3, <2>1, <2>2, LiMemoryKept DEF LiWorking, LimaInside
<1>4. CASE LimaProviderFails(p) \/ LimaNativeFails(p)
  <2>1. PICK v \in {"none", "failed"} :
          LimaFinish(p, v) /\ limaProc[p].pc = "provider"
            /\ UNCHANGED <<limaLock, limaDir, limaGuest, limaTransfer, limaApplied>>
    BY <1>4 DEF LimaProviderFails, LimaNativeFails, limaGuestSide, limaOutside
  <2> QED
    BY <1>2, <2>1 DEF LiWorking
<1>5. CASE LimaCheckDelta(p) \/ LimaCheckNative(p)
  <2>1. /\ limaProc[p].pc = "check"
        /\ LimaFinish(p, "succeeded") \/ LimaFinish(p, "failed") \/ LimaGoto(p, "clean")
             \/ LimaGoto(p, "apply")
        /\ UNCHANGED <<limaLock, limaDir, limaGuest, limaTransfer, limaApplied>>
    BY <1>5 DEF LimaCheckDelta, LimaCheckNative, limaGuestSide, limaOutside
  <2> QED
    BY <1>1, <1>2, <2>1 DEF LiWorking, LimaInside
<1>6. CASE LimaJssField(p) \/ LimaJssTests(p)
  <2>1. /\ limaProc[p].pc \in {"jss", "tests"}
        /\ \/ (LimaGoto(p, "tests") \/ LimaFinish(p, "succeeded")) /\ UNCHANGED limaApplied
           \/ LimaGoto(p, "clean") /\ limaApplied' = limaApplied \ {limaProc[p].run}
        /\ UNCHANGED <<limaLock, limaDir, limaGuest, limaTransfer>>
    BY <1>6 DEF LimaJssField, LimaJssTests, LimaJssLook, limaGuestSide
  <2> QED
    BY <1>1, <1>2, <2>1 DEF LiWorking, LimaInside
<1>7. CASE \/ LimaCommandFails(p) \/ LimaPlace(p) \/ LimaProbe(p) \/ LimaReadUsage(p)
           \/ LimaLogin(p) /\ LimaGoto(p, "clean")
           \/ (LimaListPending(p) \/ LimaWriteManifest(p)) /\ LimaGoto(p, "clean") /\ UNCHANGED limaDir
  <2>1. /\ limaProc[p].pc \in {"reconcile", "copyback", "check", "apply", "stage", "place",
                               "list", "manifest"}
        /\ LimaGoto(p, "clean")
    BY <1>7 DEF LimaCommandFails, LimaPlace, LimaProbe, LimaReadUsage, LimaInquire, LimaLogin,
                LimaListPending, LimaWriteManifest
  <2>2. UNCHANGED <<limaLock, limaDir, limaGuest, limaTransfer, limaApplied>>
    BY <1>7 DEF LimaCommandFails, LimaPlace, LimaProbe, LimaReadUsage, LimaInquire, LimaLogin,
                LimaListPending, LimaWriteManifest, LimaStage, limaGuestSide, limaOutside
  <2> QED
    BY <1>1, <2>1, <2>2 DEF LimaInside
<1>8. CASE LimaCancel(p)
  <2> DEFINE x == [limaProc[p] EXCEPT !.cancelled = TRUE]
  <2>1. limaProc' = [limaProc EXCEPT ![p] = x] /\ limaProc[p].pc \in LiWorking
        /\ UNCHANGED <<limaLock, limaDir, limaGuest, limaTransfer, limaApplied>>
    BY <1>8 DEF LimaCancel, LiWorking, limaGuestSide, limaOutside
  <2>2. /\ x.pc = limaProc[p].pc /\ x.run = limaProc[p].run /\ x.written = limaProc[p].written
        /\ x.prepared = limaProc[p].prepared
    BY <1>0 DEF LiHolds
  <2> HIDE DEF x
  <2> QED
    BY <1>3, <2>1, <2>2
<1>9. CASE \E files \in SUBSET LimaFiles : LimaProviderDone(p, files) \/ LimaNativeDone(p, files)
  <2>1. PICK files \in SUBSET LimaFiles : LimaProviderDone(p, files) \/ LimaNativeDone(p, files)
    BY <1>9
  <2> DEFINE x == [limaProc[p] EXCEPT !.pc = "copyback", !.delta = files]
  <2>2. limaProc' = [limaProc EXCEPT ![p] = x] /\ limaProc[p].pc = "provider"
        /\ UNCHANGED <<limaLock, limaDir, limaGuest, limaTransfer, limaApplied>>
    BY <2>1 DEF LimaProviderDone, LimaNativeDone, LimaLeft, limaGuestSide, limaOutside
  <2>3. /\ x.pc = "copyback" /\ x.run = limaProc[p].run /\ x.written = limaProc[p].written
        /\ x.prepared = limaProc[p].prepared
    BY <1>0 DEF LiHolds
  <2> HIDE DEF x
  <2> QED
    BY <1>3, <2>2, <2>3 DEF LiWorking
<1> QED
  BY <1>4, <1>5, <1>6, <1>7, <1>8, <1>9

\* A manifest an earlier call left is closed, and what it names is gone from the guest.
LEMMA LiReconcileStep ==
  ASSUME LiTypes, LiKept, NEW p \in LimaProcs, NEW m, LimaReconcileOne(p, m)
  PROVE  LiKept'
<1> USE DEF LimaAt
<1>0. /\ limaProc \in [LimaProcs -> LiProc] /\ limaProc[p] \in LiProc /\ limaProc[p] \in LiHolds
      /\ limaDir \in [LimaRuns -> LimaManifest] /\ LiGood(p) /\ LiGuest
      /\ \A r \in LimaRuns : (limaDir[r].state = "terminal") = (limaDir[r].result # "none")
      /\ limaApplied \subseteq LimaRuns /\ limaGuest \subseteq LimaRuns
      /\ limaTransfer \subseteq LimaRuns
  BY DEF LiTypes, LiStore, LiProc, LiKept
<1>a. limaProc[p].pc \in {"list", "reconcile", "stage"} =>
        limaProc[p].run = LimaNone /\ ~limaProc[p].written /\ ~limaProc[p].prepared
  BY <1>0 DEF LiProc, LiWorking, LiEnding
<1>b. LimaNone \notin limaGuest \cup limaTransfer
  BY <1>0, LimaAssumption
<1>c. \A r \in LimaRuns : limaProc[p].pc \in {"list", "reconcile", "stage", "manifest"} => ~LiAwaits(p, r)
  BY DEF LiAwaits
<1>s. PICK s : s = m.run
  OBVIOUS
<1> DEFINE d == limaProc[p].stale \ {m}
           x == [limaProc[p] EXCEPT !.stale = d]
           n == [state |-> "terminal", cleanup |-> "complete",
                 result |-> IF m.result = "none" THEN "failed" ELSE m.result]
<1>1. limaProc' = [limaProc EXCEPT ![p] = x] /\ limaProc[p].pc = "reconcile" /\ m \in limaProc[p].stale
  BY DEF LimaReconcileOne
<1>2. limaDir' = [limaDir EXCEPT ![s] = n]
  BY <1>s DEF LimaReconcileOne
<1>3. /\ limaGuest' = limaGuest \ {s} /\ limaTransfer' = limaTransfer \ {s}
      /\ UNCHANGED <<limaLock, limaStaged, limaApplied>>
  BY <1>s DEF LimaReconcileOne, limaOutside
<1>4. /\ x.pc = limaProc[p].pc /\ x.run = limaProc[p].run /\ x.written = limaProc[p].written
      /\ x.stale = d
  BY <1>0 DEF LiHolds
<1>5. /\ s \in LimaRuns /\ m.result = limaDir[s].result
      /\ \A k \in d : k.run # s /\ k.run \in LimaRuns /\ k.result = limaDir[k.run].result
  <2>1. limaProc[p].stale \subseteq LimaStale
    BY <1>0 DEF LiHolds
  <2>2. \A k \in limaProc[p].stale : k.result = limaDir[k.run].result
    BY <1>0, <1>1 DEF LiGood
  <2>3. \A k \in LimaStale : k.run = m.run /\ k.result = m.result => k = m
    BY <1>1, <2>1 DEF LimaStale
  <2>4. \A k \in LimaStale : k.run \in LimaRuns
    BY DEF LimaStale
  <2> QED
    BY <1>s, <1>1, <2>1, <2>2, <2>3, <2>4
<1>6. n.result = IF limaDir[s].result = "none" THEN "failed" ELSE limaDir[s].result
  BY <1>5
<1> HIDE DEF x, n, d
<1>7. LiOthersStay(p) /\ limaProc'[p] = x
  BY <1>0, <1>1, LiOneMoves
<1>8. (\A r \in LimaRuns : r # s => limaDir'[r] = limaDir[r]) /\ limaDir'[s] = n
  BY <1>0, <1>2, <1>5
<1>9. LiGood(p)'
  <2>1. \A k \in limaProc'[p].stale : k.result = limaDir'[k.run].result
    BY <1>4, <1>5, <1>7, <1>8
  <2> QED
    BY <1>a, <1>b, <1>1, <1>3, <1>4, <1>7, <2>1 DEF LiGood, LiWorking
<1>10. LiGuest'
  BY <1>0, <1>3, <1>8 DEF LiGuest, LimaPending
<1>11. \A r \in LimaRuns : limaDir[r].result = "succeeded" => LiSettled(r)'
  BY <1>6, <1>8 DEF LiSettled
<1> QED
  BY <1>0, <1>c, <1>1, <1>3, <1>4, <1>7, <1>9, <1>10, <1>11, LiInsideKept DEF LimaInside

\* The steps that take up what earlier calls left, and begin a run or an import.
LEMMA LiBeginStep ==
  ASSUME LiTypes, LiKept, NEW p \in LimaProcs,
         \/ LimaListPending(p) \/ LimaMakeRunRoot(p) \/ LimaWriteManifest(p)
         \/ (\E m \in limaProc[p].stale : LimaReconcileOne(p, m))
         \/ LimaImportHost(p) \/ LimaImportProfile(p) \/ LimaLogin(p)
  PROVE  LiKept'
<1> USE DEF LimaAt
<1>0. /\ limaProc \in [LimaProcs -> LiProc] /\ limaProc[p] \in LiProc /\ limaProc[p] \in LiHolds
      /\ limaDir \in [LimaRuns -> LimaManifest] /\ LiGood(p) /\ LiGuest
      /\ \A r \in LimaRuns : (limaDir[r].state = "terminal") = (limaDir[r].result # "none")
      /\ limaApplied \subseteq LimaRuns /\ limaGuest \subseteq LimaRuns
      /\ limaTransfer \subseteq LimaRuns
  BY DEF LiTypes, LiStore, LiProc, LiKept
<1>a. limaProc[p].pc \in {"list", "reconcile", "stage"} =>
        limaProc[p].run = LimaNone /\ ~limaProc[p].written /\ ~limaProc[p].prepared
  BY <1>0 DEF LiProc, LiWorking, LiEnding
<1>b. LimaNone \notin limaGuest \cup limaTransfer
  BY <1>0, LimaAssumption
<1>c. \A r \in LimaRuns : limaProc[p].pc \in {"list", "reconcile", "stage", "manifest"} => ~LiAwaits(p, r)
  BY DEF LiAwaits
<1>1. CASE LimaListPending(p)
  <2>1. CASE LimaGoto(p, "clean")
    BY <1>1, <2>1, LiMemoryStep DEF LimaListPending
  <2> DEFINE d == {m \in LimaStale : m.run \in LimaPending /\ m.result = limaDir[m.run].result}
  <2>2. CASE limaProc' = [limaProc EXCEPT ![p].pc = "reconcile", ![p].stale = d]
    <3>0. (\A k \in d : k.result = limaDir[k.run].result) /\ UNCHANGED limaDir
      BY <1>1 DEF LimaListPending
    <3> HIDE DEF d
    <3>1. /\ LiOthersStay(p) /\ limaProc'[p].pc = "reconcile" /\ limaProc'[p].run = limaProc[p].run
          /\ limaProc'[p].written = limaProc[p].written /\ limaProc[p].pc = "list"
          /\ limaProc'[p].stale = d
      BY <1>0, <1>1, <2>2 DEF LiOthersStay, LiHolds, LimaListPending
    <3>2. LiGood(p)'
      BY <1>1, <1>a, <1>b, <3>0, <3>1 DEF LiGood, LiWorking, LimaListPending, limaGuestSide
    <3>3. LiGuest' /\ UNCHANGED <<limaLock, limaDir, limaApplied>>
      BY <1>0, <1>1 DEF LiGuest, LimaPending, LimaListPending, limaGuestSide, limaOutside
    <3>4. \A r \in LimaRuns : limaDir[r].result = "succeeded" => LiSettled(r)'
      BY <3>3 DEF LiSettled
    <3> QED
      BY <1>0, <1>c, <3>1, <3>2, <3>3, <3>4, LiInsideKept DEF LimaInside
  <2> QED
    BY <1>1, <2>1, <2>2 DEF LimaListPending
<1>2. ASSUME NEW m \in limaProc[p].stale, LimaReconcileOne(p, m) PROVE LiKept'
  BY <1>2, LiReconcileStep
<1>3. CASE LimaMakeRunRoot(p)
  <2>0. PICK s \in LimaRuns :
          /\ limaDir[s].state = "none" /\ limaDir' = [limaDir EXCEPT ![s].state = "bare"]
          /\ limaProc' = [limaProc EXCEPT ![p].pc = "manifest", ![p].run = s]
    BY <1>3 DEF LimaMakeRunRoot
  <2> DEFINE x == [limaProc[p] EXCEPT !.pc = "manifest", !.run = s]
  <2>a. limaProc' = [limaProc EXCEPT ![p] = x] /\ limaProc[p].pc = "reconcile"
    BY <1>3, <2>0 DEF LimaMakeRunRoot
  <2>b. x.pc = "manifest" /\ x.run = s /\ x.written = limaProc[p].written
    BY <1>0 DEF LiHolds
  <2> HIDE DEF x
  <2>1. /\ LiOthersStay(p) /\ limaProc'[p].pc = "manifest" /\ limaProc'[p].run = s
        /\ limaProc'[p].written = limaProc[p].written /\ limaProc[p].pc = "reconcile"
    BY <1>0, <2>a, <2>b, LiOneMoves
  <2>c. UNCHANGED <<limaLock, limaGuest, limaTransfer, limaStaged, limaApplied>>
    BY <1>3 DEF LimaMakeRunRoot, limaGuestSide, limaOutside
  <2>2. /\ \A r \in LimaRuns : r # s => limaDir'[r] = limaDir[r]
        /\ limaDir'[s].result = limaDir[s].result /\ limaDir'[s].state = "bare"
    BY <1>0, <2>0 DEF LimaManifest
  <2>3. s \notin limaGuest \cup limaTransfer
    BY <1>0, <2>0 DEF LiGuest, LimaPending
  <2>4. LiGood(p)'
    BY <1>a, <2>c, <2>1, <2>2, <2>3 DEF LiGood, LiWorking
  <2>5. LiGuest'
    BY <1>0, <2>0, <2>c, <2>2, <2>3 DEF LiGuest, LimaPending
  <2>6. \A r \in LimaRuns : limaDir[r].result = "succeeded" => LiSettled(r)'
    BY <2>2 DEF LiSettled
  <2> QED
    BY <1>0, <1>c, <2>c, <2>1, <2>4, <2>5, <2>6, LiInsideKept DEF LimaInside
<1>4. CASE LimaWriteManifest(p)
  <2> DEFINE s == limaProc[p].run
  <2>1. CASE LimaGoto(p, "clean") /\ UNCHANGED limaDir
    BY <1>4, <2>1, LiMemoryStep
  <2>2. CASE /\ limaDir' = [limaDir EXCEPT ![s] =
                   [state |-> "preparing", cleanup |-> "pending", result |-> "none"]]
             /\ limaProc' = [limaProc EXCEPT ![p].pc = "prepare", ![p].written = TRUE,
                                             ![p].base = limaWs]
    <3>1. /\ LiOthersStay(p) /\ limaProc'[p].pc = "prepare" /\ limaProc'[p].run = s
          /\ limaProc'[p].prepared = limaProc[p].prepared /\ limaProc[p].pc = "manifest"
      BY <1>0, <1>4, <2>2 DEF LiOthersStay, LiHolds, LimaWriteManifest
    <3>2. s \in LimaRuns /\ ~limaProc[p].prepared
      BY <1>0, <3>1 DEF LiProc, LiHolds, LiWorking, LiEnding
    <3>3. /\ \A r \in LimaRuns : r # s => limaDir'[r] = limaDir[r]
          /\ LiUnderway(s)' /\ limaDir[s].state = "bare" /\ limaDir[s].result = "none"
      BY <1>0, <2>2, <3>1, <3>2 DEF LimaManifest, LiUnderway, LiGood
    <3>4. s \notin limaGuest \cup limaTransfer
      BY <1>0, <3>1, <3>2 DEF LiGood, LimaInside
    <3>5. LiGood(p)'
      BY <1>4, <3>1, <3>3, <3>4 DEF LiGood, LimaWriteManifest, limaGuestSide, LiUnderway
    <3>6. LiGuest'
      BY <1>0, <1>4, <3>3, <3>4 DEF LiGuest, LimaPending, LimaWriteManifest, limaGuestSide
    <3>7. \A r \in LimaRuns : limaDir[r].result = "succeeded" => LiSettled(r)'
      BY <3>3 DEF LiSettled
    <3> QED
      BY <1>0, <1>4, <1>c, <3>1, <3>5, <3>6, <3>7, LiInsideKept
      DEF LimaInside, LimaWriteManifest, limaOutside
  <2> QED
    BY <1>4, <2>1, <2>2 DEF LimaWriteManifest
<1>5. CASE LimaImportHost(p) \/ LimaImportProfile(p) \/ LimaLogin(p)
  <2>1. CASE LimaLogin(p) /\ LimaGoto(p, "clean")
    BY <2>1, LiMemoryStep
  <2>2. CASE LimaStage(p)
    <3>1. /\ LiOthersStay(p) /\ limaProc'[p].pc = "place" /\ limaProc'[p].run = limaProc[p].run
          /\ limaProc'[p].written = limaProc[p].written /\ limaProc[p].pc = "stage"
      BY <1>0, <2>2, LiGotoMoves DEF LimaStage, LimaSteps
    <3>2. LiGood(p)'
      BY <2>2, <1>a, <1>b, <3>1 DEF LiGood, LiWorking, LimaStage
    <3>3. LiGuest' /\ UNCHANGED <<limaLock, limaDir, limaApplied>>
      BY <1>0, <2>2 DEF LiGuest, LimaPending, LimaStage, limaOutside
    <3>4. \A r \in LimaRuns : limaDir[r].result = "succeeded" => LiSettled(r)'
      BY <3>3 DEF LiSettled
    <3> QED
      BY <1>0, <1>c, <3>1, <3>2, <3>3, <3>4, LiInsideKept DEF LimaInside
  <2> QED
    BY <1>5, <2>1, <2>2 DEF LimaImportHost, LimaImportProfile, LimaLogin
<1> QED
  BY <1>1, <1>2, <1>3, <1>4, <1>5

\* What the process inside knows of its own run while it works on it.
LEMMA LiRunning ==
  ASSUME LiTypes, LiKept, NEW p \in LimaProcs, limaProc[p].pc \in LiWorking
  PROVE  /\ limaProc \in [LimaProcs -> LiProc] /\ limaProc[p] \in LiProc /\ limaProc[p] \in LiHolds
         /\ limaDir \in [LimaRuns -> LimaManifest] /\ LiGood(p) /\ LiGuest
         /\ limaApplied \subseteq LimaRuns /\ limaGuest \subseteq LimaRuns
         /\ limaTransfer \subseteq LimaRuns
         /\ limaProc[p].run \in LimaRuns /\ limaProc[p].written /\ LiUnderway(limaProc[p].run)
         /\ LimaInside(p) /\ limaProc[p].run \in LimaPending
         /\ ~limaProc[p].prepared => limaProc[p].run \notin limaGuest \cup limaTransfer
<1>0. /\ limaProc \in [LimaProcs -> LiProc] /\ limaProc[p] \in LiProc /\ limaProc[p] \in LiHolds
      /\ limaDir \in [LimaRuns -> LimaManifest] /\ LiGood(p) /\ LiGuest
      /\ limaApplied \subseteq LimaRuns /\ limaGuest \subseteq LimaRuns
      /\ limaTransfer \subseteq LimaRuns
  BY DEF LiTypes, LiStore, LiProc, LiKept
<1>1. /\ limaProc[p].run \in LimaRuns /\ limaProc[p].written /\ LimaInside(p)
      /\ LiUnderway(limaProc[p].run)
  BY <1>0 DEF LiProc, LiHolds, LiWorking, LiGood, LimaInside
<1>2. /\ limaProc[p].run \in LimaPending
      /\ ~limaProc[p].prepared => limaProc[p].run \notin limaGuest \cup limaTransfer
  BY <1>0, <1>1 DEF LimaPending, LiUnderway, LiGood
<1> QED
  BY <1>0, <1>1, <1>2

\* The guest directories a preparation makes are named by its manifest.
LEMMA LiPrepareStep ==
  ASSUME LiTypes, LiKept, NEW p \in LimaProcs, NEW k, LimaPrepared(p, k)
  PROVE  LiKept'
<1> DEFINE s == limaProc[p].run
           x == [limaProc[p] EXCEPT !.pc = "provider", !.prepared = TRUE]
           m == [state |-> "running", cleanup |-> "pending", result |-> "none"]
<1>1. /\ limaProc' = [limaProc EXCEPT ![p] = x] /\ limaProc[p].pc = "prepare"
      /\ limaDir' = [limaDir EXCEPT ![s] = m]
      /\ limaGuest' = limaGuest \cup {s} /\ limaTransfer' = limaTransfer \cup {s}
      /\ UNCHANGED <<limaLock, limaApplied>>
  BY DEF LimaPrepared, limaOutside, LimaAt
<1>2. /\ limaProc \in [LimaProcs -> LiProc] /\ limaProc[p] \in LiHolds
      /\ limaDir \in [LimaRuns -> LimaManifest] /\ LiGuest
      /\ limaApplied \subseteq LimaRuns /\ s \in LimaRuns /\ limaProc[p].written
      /\ LiUnderway(s) /\ LimaInside(p)
  BY <1>1, LiRunning DEF LiWorking
<1>3. x.pc = "provider" /\ x.run = s /\ x.written = limaProc[p].written /\ x.prepared = TRUE
  BY <1>2 DEF LiHolds
<1>4. m.state = "running" /\ m.cleanup = "pending" /\ m.result = "none"
  OBVIOUS
<1> HIDE DEF x, s, m
<1>5. LiOthersStay(p) /\ limaProc'[p] = x
  BY <1>1, <1>2, LiOneMoves
<1>6. (\A r \in LimaRuns : r # s => limaDir'[r] = limaDir[r]) /\ limaDir'[s] = m
  BY <1>1, <1>2
<1>7. LiGood(p)'
  BY <1>3, <1>4, <1>5, <1>6 DEF LiGood, LiUnderway, LimaAt
<1>8. LiGuest'
  BY <1>1, <1>2, <1>4, <1>6 DEF LiGuest, LimaPending
<1>9. \A r \in LimaRuns : (limaDir[r].result = "succeeded" => LiSettled(r)') /\ ~LiAwaits(p, r)
  BY <1>1, <1>2, <1>6 DEF LiSettled, LiUnderway, LiAwaits
<1>10. ~LimaAt(p, "own")'
  BY <1>3, <1>5 DEF LimaAt
<1> QED
  BY <1>1, <1>2, <1>5, <1>7, <1>8, <1>9, <1>10, LiInsideKept

\* One that fails half way, too.
LEMMA LiPrepareFailsStep ==
  ASSUME LiTypes, LiKept, NEW p \in LimaProcs, LimaPrepareFails(p)
  PROVE  LiKept'
<1>s. PICK s : s = limaProc[p].run
  OBVIOUS
<1>0. PICK made \in BOOLEAN :
        /\ limaProc' = [limaProc EXCEPT ![p].pc = "clean", ![p].prepared = made,
                                        ![p].base = LimaNone]
        /\ limaGuest' = IF made THEN limaGuest \cup {s} ELSE limaGuest
  BY <1>s, Zenon DEF LimaPrepareFails
<1> DEFINE x == [limaProc[p] EXCEPT !.pc = "clean", !.prepared = made, !.base = LimaNone]
<1>1. limaProc' = [limaProc EXCEPT ![p] = x]
  BY <1>s, <1>0
<1>a. limaProc[p].pc = "prepare" /\ UNCHANGED <<limaLock, limaDir, limaTransfer, limaApplied>>
  BY Zenon DEF LimaPrepareFails, limaOutside, LimaAt
<1>2. /\ limaProc \in [LimaProcs -> LiProc] /\ limaProc[p] \in LiProc /\ limaProc[p] \in LiHolds
      /\ limaDir \in [LimaRuns -> LimaManifest] /\ LiGuest
      /\ limaApplied \subseteq LimaRuns /\ s \in LimaRuns
      /\ LiUnderway(s) /\ LimaInside(p) /\ s \in LimaPending
      /\ ~limaProc[p].prepared => s \notin limaGuest \cup limaTransfer
  BY <1>s, <1>a, LiRunning DEF LiWorking
<1>b. s \notin limaGuest \cup limaTransfer
  BY <1>s, <1>2, <1>a DEF LiProc
<1>3. x.pc = "clean" /\ x.run = s /\ x.written = limaProc[p].written /\ x.prepared = made
  BY <1>s, <1>2 DEF LiHolds
<1> HIDE DEF x
<1>5. LiOthersStay(p) /\ limaProc'[p] = x
  BY <1>s, <1>1, <1>2, LiOneMoves
<1>c. ~made => s \notin limaGuest' \cup limaTransfer'
  BY <1>s, <1>0, <1>a, <1>b
<1>7. LiGood(p)'
  <2>1. LiUnderway(s)'
    BY <1>s, <1>2, <1>a DEF LiUnderway
  <2> QED
    BY <1>s, <1>3, <1>5, <1>c, <2>1 DEF LiGood, LimaAt, LiWorking, LiUnderway
<1>8. LiGuest'
  BY <1>s, <1>0, <1>a, <1>2 DEF LiGuest, LimaPending
<1>9. \A r \in LimaRuns : (limaDir[r].result = "succeeded" => LiSettled(r)') /\ ~LiAwaits(p, r)
  BY <1>s, <1>a DEF LiSettled, LiAwaits
<1>10. ~LimaAt(p, "own")'
  BY <1>s, <1>3, <1>5 DEF LimaAt
<1> QED
  BY <1>s, <1>a, <1>2, <1>5, <1>7, <1>8, <1>9, <1>10, LiInsideKept

\* The manifest of a run that copies back stays one of a run under way.
LEMMA LiCopyBackStep ==
  ASSUME LiTypes, LiKept, NEW p \in LimaProcs, LimaCopyBack(p)
  PROVE  LiKept'
<1>s. PICK s : s = limaProc[p].run
  OBVIOUS
<1>0. PICK st \in {"applying", "copying_back"}, c \in {"check", "clean"} :
        /\ limaDir' = [limaDir EXCEPT ![s] = [state |-> st, cleanup |-> "pending", result |-> "none"]]
        /\ LimaGoto(p, c)
  BY <1>s DEF LimaCopyBack
<1> DEFINE m == [state |-> st, cleanup |-> "pending", result |-> "none"]
<1>1. /\ limaDir' = [limaDir EXCEPT ![s] = m] /\ limaProc[p].pc = "copyback"
      /\ UNCHANGED <<limaLock, limaGuest, limaTransfer, limaApplied>>
  BY <1>s, <1>0 DEF LimaCopyBack, limaOutside, limaGuestSide, LimaAt
<1>2. /\ limaProc \in [LimaProcs -> LiProc]
      /\ limaDir \in [LimaRuns -> LimaManifest] /\ LiGuest
      /\ limaApplied \subseteq LimaRuns /\ s \in LimaRuns
      /\ LiUnderway(s) /\ LimaInside(p)
      /\ ~limaProc[p].prepared => s \notin limaGuest \cup limaTransfer
  BY <1>s, <1>1, LiRunning DEF LiWorking
<1>3. m.state = st /\ m.cleanup = "pending" /\ m.result = "none"
  OBVIOUS
<1> HIDE DEF m
<1>5. /\ LiOthersStay(p) /\ limaProc'[p].pc = c /\ limaProc'[p].run = s
      /\ limaProc'[p].prepared = limaProc[p].prepared
  BY <1>s, <1>0, <1>2, LiGotoMoves DEF LimaSteps
<1>6. (\A r \in LimaRuns : r # s => limaDir'[r] = limaDir[r]) /\ limaDir'[s] = m
  BY <1>s, <1>1, <1>2
<1>7. LiGood(p)'
  <2>1. LiUnderway(s)'
    BY <1>s, <1>3, <1>6 DEF LiUnderway
  <2> QED
    BY <1>s, <1>1, <1>2, <1>5, <2>1 DEF LiGood, LimaAt, LiUnderway
<1>8. LiGuest'
  BY <1>s, <1>1, <1>2, <1>3, <1>6 DEF LiGuest, LimaPending
<1>9. \A r \in LimaRuns : (limaDir[r].result = "succeeded" => LiSettled(r)') /\ ~LiAwaits(p, r)
  BY <1>s, <1>1, <1>2, <1>6 DEF LiSettled, LiUnderway, LiAwaits
<1>10. ~LimaAt(p, "own")'
  BY <1>s, <1>5 DEF LimaAt
<1> QED
  BY <1>s, <1>1, <1>2, <1>5, <1>7, <1>8, <1>9, <1>10, LiInsideKept

\* A delta is applied by a process that goes on to record it, or to look at it.
LEMMA LiApplyStep ==
  ASSUME LiTypes, LiKept, NEW p \in LimaProcs, LimaApply(p)
  PROVE  LiKept'
<1>s. PICK s : s = limaProc[p].run
  OBVIOUS
<1>1. /\ limaProc[p].pc = "apply" /\ limaApplied' = limaApplied \cup {s}
      /\ LimaGoto(p, "jss") \/ LimaFinish(p, "succeeded")
      /\ UNCHANGED <<limaLock, limaDir, limaGuest, limaTransfer>>
  BY <1>s DEF LimaApply, LimaApplyAnyway, limaGuestSide, LimaAt
<1>2. /\ limaProc \in [LimaProcs -> LiProc] /\ LiGuest
      /\ limaApplied \subseteq LimaRuns /\ s \in LimaRuns /\ limaProc[p].written
      /\ LiUnderway(s) /\ LimaInside(p)
      /\ ~limaProc[p].prepared => s \notin limaGuest \cup limaTransfer
  BY <1>s, <1>1, LiRunning DEF LiWorking
<1>3. /\ LiOthersStay(p) /\ limaProc'[p].run = s /\ limaProc'[p].written = limaProc[p].written
      /\ limaProc'[p].prepared = limaProc[p].prepared
      /\ \/ limaProc'[p].pc = "jss"
         \/ limaProc'[p].pc = "clean" /\ limaProc'[p].result = "succeeded"
  <2>1. CASE LimaGoto(p, "jss")
    BY <1>s, <1>2, <2>1, LiGotoMoves DEF LimaSteps
  <2>2. CASE LimaFinish(p, "succeeded")
    BY <1>s, <1>2, <2>2, LiFinishMoves
  <2> QED
    BY <1>s, <1>1, <2>1, <2>2
<1>4. LiUnderway(s)'
  BY <1>s, <1>1, <1>2 DEF LiUnderway
<1>5. LiGood(p)'
  BY <1>s, <1>1, <1>2, <1>3, <1>4 DEF LiGood, LimaAt, LiUnderway
<1>6. LiGuest'
  BY <1>s, <1>1, <1>2 DEF LiGuest, LimaPending
<1>7. LiSettled(s)'
  <2>1. LiAwaits(p, s)'
    BY <1>s, <1>2, <1>3, <1>4 DEF LiAwaits, LiUnderway
  <2> QED
    BY <1>s, <2>1 DEF LiSettled
<1>8. \A r \in LimaRuns : (limaDir[r].result = "succeeded" => LiSettled(r)') /\ ~LiAwaits(p, r)
  BY <1>s, <1>1 DEF LiSettled, LiAwaits
<1>9. ~LimaAt(p, "own")'
  BY <1>s, <1>3 DEF LimaAt
<1> QED
  BY <1>s, <1>1, <1>2, <1>3, <1>5, <1>6, <1>7, <1>8, <1>9, LiInsideKept

\* What the process inside knows of its own run in its finally block.
LEMMA LiEnds ==
  ASSUME LiTypes, LiKept, NEW p \in LimaProcs, limaProc[p].pc \in {"clean", "record"}
  PROVE  /\ limaProc \in [LimaProcs -> LiProc]
         /\ limaDir \in [LimaRuns -> LimaManifest] /\ LiGuest
         /\ limaApplied \subseteq LimaRuns /\ LimaInside(p)
         /\ limaProc[p].written => limaProc[p].run \in LimaRuns /\ LiUnderway(limaProc[p].run)
         /\ limaProc[p].prepared => limaProc[p].written
         /\ ~limaProc[p].prepared \/ limaProc[p].pc = "record"
              => limaProc[p].run \notin limaGuest \cup limaTransfer
         /\ limaProc[p].result \in {"none", "succeeded", "failed"}
<1>1. /\ limaProc \in [LimaProcs -> LiProc] /\ limaProc[p] \in LiProc /\ limaProc[p] \in LiHolds
      /\ limaDir \in [LimaRuns -> LimaManifest] /\ LiGood(p) /\ LiGuest
      /\ limaApplied \subseteq LimaRuns /\ LimaInside(p)
  BY DEF LiTypes, LiStore, LiProc, LiKept, LimaInside
<1>2. limaProc[p].written => limaProc[p].run \in LimaRuns /\ LiUnderway(limaProc[p].run)
  BY <1>1 DEF LiProc, LiHolds, LiGood
<1>3. /\ limaProc[p].prepared => limaProc[p].written
      /\ limaProc[p].result \in {"none", "succeeded", "failed"}
  BY <1>1 DEF LiProc, LiHolds
<1>4. ~limaProc[p].prepared \/ limaProc[p].pc = "record"
        => limaProc[p].run \notin limaGuest \cup limaTransfer
  BY <1>1 DEF LiGood, LimaAt
<1> QED
  BY <1>1, <1>2, <1>3, <1>4

\* The removals of the finally block leave nothing of the run in the guest.
LEMMA LiCleanStep ==
  ASSUME LiTypes, LiKept, NEW p \in LimaProcs, LimaClean(p)
  PROVE  LiKept'
<1>s. PICK s : s = limaProc[p].run
  OBVIOUS
<1>1. /\ limaProc[p].pc = "clean" /\ LimaGoto(p, "record")
      /\ limaGuest' = IF limaProc[p].prepared THEN limaGuest \ {s} ELSE limaGuest
      /\ limaTransfer' = IF limaProc[p].prepared THEN limaTransfer \ {s} ELSE limaTransfer
      /\ UNCHANGED <<limaLock, limaDir, limaApplied>>
  BY <1>s DEF LimaClean, limaOutside, LimaAt
<1>2. /\ limaProc \in [LimaProcs -> LiProc] /\ LiGuest /\ limaApplied \subseteq LimaRuns
      /\ LimaInside(p) /\ (limaProc[p].written => LiUnderway(s))
      /\ ~limaProc[p].prepared => s \notin limaGuest \cup limaTransfer
  BY <1>s, <1>1, LiEnds
<1>3. /\ LiOthersStay(p) /\ limaProc'[p].run = s /\ limaProc'[p].written = limaProc[p].written
      /\ limaProc'[p].pc = "record" /\ limaProc'[p].result = limaProc[p].result
  BY <1>s, <1>1, <1>2, LiGotoMoves DEF LimaSteps
<1>4. s \notin limaGuest' \cup limaTransfer'
  BY <1>1, <1>2
<1>5. LiGood(p)'
  <2>1. limaProc[p].written => LiUnderway(s)'
    BY <1>1, <1>2 DEF LiUnderway
  <2> QED
    BY <1>3, <1>4, <2>1 DEF LiGood, LimaAt, LiUnderway, LiWorking
<1>6. LiGuest'
  BY <1>1, <1>2 DEF LiGuest, LimaPending
<1>7. \A r \in LimaRuns : (limaDir[r].result = "succeeded" => LiSettled(r)')
  BY <1>1 DEF LiSettled
<1>8. \A r \in LimaRuns : LiAwaits(p, r) => LiSettled(r)'
  <2>1. ASSUME NEW r \in LimaRuns, LiAwaits(p, r) PROVE LiAwaits(p, r)'
    BY <1>s, <1>1, <1>3, <2>1 DEF LiAwaits
  <2> QED
    BY <2>1 DEF LiSettled
<1>9. ~LimaAt(p, "own")'
  BY <1>3 DEF LimaAt
<1> QED
  BY <1>1, <1>2, <1>3, <1>5, <1>6, <1>7, <1>8, <1>9, LiInsideKept

\* The record of a run: a success is recorded as one, and what was not removed stays pending.
LEMMA LiRecorded ==
  ASSUME LiTypes, LiKept, NEW p \in LimaProcs, limaProc[p].pc \in {"clean", "record"},
         limaProc[p].written, NEW c \in {"failed", "complete"},
         limaDir' = [limaDir EXCEPT ![limaProc[p].run] = LimaTerminal(p, c)],
         LimaGoto(p, "stop"), limaGuest' \subseteq limaGuest, limaTransfer' \subseteq limaTransfer,
         c = "complete" => limaProc[p].run \notin limaGuest \cup limaTransfer,
         UNCHANGED <<limaLock, limaApplied>>
  PROVE  LiKept'
<1>s. PICK s : s = limaProc[p].run
  OBVIOUS
<1>m. PICK m : m = LimaTerminal(p, c)
  OBVIOUS
<1>2. /\ limaProc \in [LimaProcs -> LiProc] /\ LiGuest /\ limaApplied \subseteq LimaRuns
      /\ limaDir \in [LimaRuns -> LimaManifest]
      /\ LimaInside(p) /\ LiUnderway(s) /\ s \in LimaRuns
      /\ ~limaProc[p].prepared => s \notin limaGuest \cup limaTransfer
      /\ limaProc[p].result \in {"none", "succeeded", "failed"}
  BY <1>s, LiEnds
<1>3. /\ LiOthersStay(p) /\ limaProc'[p].run = s
      /\ limaProc'[p].prepared = limaProc[p].prepared /\ limaProc'[p].pc = "stop"
  BY <1>s, <1>2, LiGotoMoves DEF LimaSteps
<1>4. /\ m.state = "terminal" /\ m.cleanup = c
      /\ limaProc[p].result = "succeeded" => m.result = "succeeded"
  BY <1>m DEF LimaTerminal
<1>6. (\A r \in LimaRuns : r # s => limaDir'[r] = limaDir[r]) /\ limaDir'[s] = m
  BY <1>s, <1>m, <1>2
<1>7. LiGood(p)'
  BY <1>2, <1>3 DEF LiGood, LimaAt, LiWorking
<1>8. LiGuest'
  <2>1. SUFFICES ASSUME NEW r \in limaGuest' \cup limaTransfer' PROVE r \in LimaPending'
    BY DEF LiGuest
  <2>2. r \in limaGuest \cup limaTransfer /\ r \in LimaPending
    BY <1>2, <2>1 DEF LiGuest
  <2>3. CASE r = s
    BY <1>s, <1>2, <1>4, <1>6, <2>2, <2>3 DEF LimaPending
  <2>4. CASE r # s
    BY <1>6, <2>2, <2>4 DEF LimaPending
  <2> QED
    BY <2>3, <2>4
<1>9. \A r \in LimaRuns : limaDir[r].result = "succeeded" => LiSettled(r)'
  BY <1>2, <1>6 DEF LiSettled, LiUnderway
<1>10. \A r \in LimaRuns : LiAwaits(p, r) => LiSettled(r)'
  BY <1>s, <1>4, <1>6 DEF LiAwaits, LiSettled
<1>11. ~LimaAt(p, "own")'
  BY <1>3 DEF LimaAt
<1> QED
  BY <1>2, <1>3, <1>7, <1>8, <1>9, <1>10, <1>11, LiInsideKept

\* A removal that fails leaves a manifest to clean up.
LEMMA LiCleanFailsStep ==
  ASSUME LiTypes, LiKept, NEW p \in LimaProcs, LimaCleanFails(p)
  PROVE  LiKept'
<1>1. /\ limaProc[p].pc = "clean" /\ limaProc[p].prepared
      /\ limaDir' = [limaDir EXCEPT ![limaProc[p].run] = LimaTerminal(p, "failed")]
      /\ LimaGoto(p, "stop") /\ limaGuest' \subseteq limaGuest /\ limaTransfer' \subseteq limaTransfer
      /\ UNCHANGED <<limaLock, limaApplied>>
  BY DEF LimaCleanFails, limaOutside, LimaAt
<1>2. limaProc[p].written
  BY <1>1, LiEnds
<1> QED
  BY <1>1, <1>2, LiRecorded

\* The run is recorded, when it has a manifest.
LEMMA LiRecordStep ==
  ASSUME LiTypes, LiKept, NEW p \in LimaProcs, LimaRecord(p)
  PROVE  LiKept'
<1>1. /\ limaProc[p].pc = "record" /\ LimaGoto(p, "stop")
      /\ UNCHANGED <<limaLock, limaGuest, limaTransfer, limaApplied>>
  BY DEF LimaRecord, limaOutside, limaGuestSide, LimaAt
<1>2. CASE limaProc[p].written
  <2>1. limaDir' = [limaDir EXCEPT ![limaProc[p].run] = LimaTerminal(p, "complete")]
    BY <1>2 DEF LimaRecord
  <2>2. limaProc[p].run \notin limaGuest \cup limaTransfer
    BY <1>1, LiEnds
  <2> QED
    BY <1>1, <1>2, <2>1, <2>2, LiRecorded
<1>3. CASE ~limaProc[p].written
  <2>1. limaDir' = limaDir
    BY <1>3 DEF LimaRecord
  <2>2. /\ limaProc \in [LimaProcs -> LiProc] /\ LiGuest /\ limaApplied \subseteq LimaRuns
        /\ LimaInside(p) /\ limaProc[p].run \notin limaGuest \cup limaTransfer
    BY <1>1, LiEnds
  <2>3. LiOthersStay(p) /\ limaProc'[p].run = limaProc[p].run /\ limaProc'[p].pc = "stop"
    BY <1>1, <2>2, LiGotoMoves DEF LimaSteps
  <2>4. LiGood(p)' /\ LiGuest' /\ ~LimaAt(p, "own")'
    BY <1>1, <2>1, <2>2, <2>3 DEF LiGood, LimaAt, LiWorking, LiGuest, LimaPending
  <2>5. \A r \in LimaRuns : (limaDir[r].result = "succeeded" => LiSettled(r)') /\ ~LiAwaits(p, r)
    BY <1>1, <1>3, <2>1 DEF LiSettled, LiAwaits
  <2> QED
    BY <1>1, <2>2, <2>3, <2>4, <2>5, LiInsideKept
<1> QED
  BY <1>2, <1>3

\* The process inside leaves: it removes the lock, or dies with its run in hand.
LEMMA LiLeaveStep ==
  ASSUME LiTypes, LiKept, NEW p \in LimaProcs,
         LimaRelease(p) \/ (LimaCrash(p) /\ LimaInside(p))
  PROVE  LiKept'
<1>0. limaProc \in [LimaProcs -> LiProc] /\ LiGuest /\ limaApplied \subseteq LimaRuns
  BY DEF LiTypes, LiStore, LiKept
<1>1. /\ LimaInside(p) /\ (limaProc[p].pc = "stop" \/ LimaCrash(p))
      /\ UNCHANGED <<limaDir, limaGuest, limaTransfer, limaApplied>>
  BY DEF LimaRelease, LimaCrash, limaOutside, limaGuestSide, LimaAt, LimaInside
<1>2. /\ LiOthersStay(p) /\ limaProc'[p].pc \in {"idle", "dead"}
      /\ LimaCrash(p) => limaProc'[p].pc = "dead" /\ limaProc'[p].run = limaProc[p].run
  <2>1. CASE LimaCrash(p)
    BY <1>0, <2>1 DEF LimaCrash, LimaIdleProc, LiOthersStay
  <2>2. CASE LimaRelease(p) /\ ~LimaCrash(p)
    BY <1>0, <2>2, LiReturnMoves DEF LimaRelease, LimaIdleProc
  <2> QED
    BY <2>1, <2>2
<1>3. LiGood(p)' /\ LiGuest' /\ ~LimaAt(p, "own")' /\ ~LimaInside(p)'
  BY <1>0, <1>1, <1>2 DEF LiGood, LimaAt, LiWorking, LimaInside, LiGuest, LimaPending
<1>4. \A r \in LimaRuns : limaDir[r].result = "succeeded" => LiSettled(r)'
  BY <1>1 DEF LiSettled
<1>5. \A r \in LimaRuns : LiAwaits(p, r) => LiSettled(r)'
  BY <1>1, <1>2 DEF LiAwaits, LiSettled, LimaAt
<1> QED
  BY <1>0, <1>1, <1>2, <1>3, <1>4, <1>5, LiInsideKept

\* Only a reclaim takes a lock away, and only these steps touch what reached the workspace.
LEMMA LiHistoryStep ==
  ASSUME limaStolen \in BOOLEAN, LimaNext
  PROVE  /\ limaStolen => limaStolen'
         /\ limaApplied' # limaApplied =>
              \E p \in LimaProcs : LimaApply(p) \/ LimaJssField(p) \/ LimaJssTests(p)
<1> DEFINE Good(p) == /\ limaStolen => limaStolen'
                      /\ limaApplied' # limaApplied => LimaApply(p) \/ LimaJssField(p) \/ LimaJssTests(p)
<1>1. ASSUME NEW p \in LimaProcs, LimaTryLock(p) \/ LimaRemake(p) \/ LimaListPending(p)
                                    \/ LimaWriteManifest(p)
      PROVE  Good(p)
  BY <1>1 DEF LimaTryLock, LimaRemake, LimaListPending, LimaWriteManifest, limaOutside
<1>a. ASSUME NEW p \in LimaProcs, LimaReclaim(p) PROVE Good(p)
  <2>1. limaApplied' = limaApplied
    BY <1>a DEF LimaReclaim
  <2>2. limaStolen' = (limaStolen \/ LimaOthersInside(p) # {}) \/ limaStolen' = limaStolen
    BY <1>a DEF LimaReclaim
  <2>3. limaStolen = TRUE => limaStolen' = TRUE
    BY <2>2
  <2> QED
    BY <2>1, <2>3
<1>b. ASSUME NEW p \in LimaProcs, NEW req \in LimaRequests, LimaWriteOwner(p, req) PROVE Good(p)
  BY <1>b DEF LimaWriteOwner, limaOutside
<1>c. ASSUME NEW p \in LimaProcs, LimaMakeRunRoot(p) PROVE Good(p)
  BY <1>c DEF LimaMakeRunRoot, limaOutside
<1>2. ASSUME NEW p \in LimaProcs, LimaPrepare(p) \/ LimaPrepareNative(p) \/ LimaCopyBack(p)
      PROVE  Good(p)
  BY <1>2 DEF LimaPrepare, LimaPrepareNative, LimaPrepared, LimaCopyBack, limaOutside
<1>d. ASSUME NEW p \in LimaProcs, NEW m, LimaReconcileOne(p, m) PROVE Good(p)
  BY <1>d DEF LimaReconcileOne, limaOutside
<1>3. ASSUME NEW p \in LimaProcs, LimaPrepareFails(p) PROVE Good(p)
  <2>1. UNCHANGED <<limaStolen, limaApplied>>
    BY <1>3, Zenon DEF LimaPrepareFails, limaOutside
  <2> QED
    BY <2>1
<1>4. ASSUME NEW p \in LimaProcs, LimaCheckDelta(p) \/ LimaCheckNative(p) \/ LimaCommandFails(p)
      PROVE  Good(p)
  BY <1>4 DEF LimaCheckDelta, LimaCheckNative, LimaCommandFails, limaOutside
<1>5. ASSUME NEW p \in LimaProcs, LimaApply(p) \/ LimaJssField(p) \/ LimaJssTests(p)
      PROVE  Good(p)
  BY <1>5 DEF LimaApply, LimaApplyAnyway, LimaJssField, LimaJssTests, LimaJssLook
<1>6. ASSUME NEW p \in LimaProcs,
             \/ LimaImportHost(p) \/ LimaImportProfile(p) \/ LimaLogin(p)
             \/ LimaProbe(p) \/ LimaReadUsage(p) \/ LimaPlace(p)
      PROVE  Good(p)
  BY <1>6 DEF LimaImportHost, LimaImportProfile, LimaLogin, LimaProbe, LimaReadUsage,
              LimaPlace, LimaStage, LimaInquire, limaOutside
<1>7. ASSUME NEW p \in LimaProcs,
             LimaClean(p) \/ LimaCleanFails(p) \/ LimaRecord(p) \/ LimaRelease(p)
      PROVE  Good(p)
  BY <1>7 DEF LimaClean, LimaCleanFails, LimaRecord, LimaRelease, limaOutside
<1>8. ASSUME NEW p \in LimaProcs, LimaProviderEnds(p) PROVE Good(p)
  BY <1>8 DEF LimaProviderEnds, LimaProviderDone, LimaNativeDone, LimaLeft, LimaProviderFails,
              LimaNativeFails, limaOutside
<1>9. CASE LimaEnvironment
  <2>1. ASSUME NEW p \in LimaProcs, LimaCall(p) \/ LimaCancel(p) PROVE UNCHANGED <<limaStolen, limaApplied>>
    BY <2>1 DEF LimaCall, LimaCancel, limaOutside
  <2>2. ASSUME NEW p \in LimaProcs, LimaCrash(p) PROVE UNCHANGED <<limaStolen, limaApplied>>
    BY <2>2 DEF LimaCrash
  <2>3. ASSUME NEW f \in LimaFiles, LimaOwnerEdits(f) PROVE UNCHANGED <<limaStolen, limaApplied>>
    BY <2>3 DEF LimaOwnerEdits
  <2> QED
    BY <1>9, <2>1, <2>2, <2>3 DEF LimaEnvironment
<1> HIDE DEF Good
<1>10. ASSUME NEW p \in LimaProcs, LimaOwnStep(p) PROVE Good(p)
  BY <1>1, <1>2, <1>3, <1>4, <1>5, <1>6, <1>7, <1>a, <1>b, <1>c, <1>d, <1>10 DEF LimaOwnStep
<1>11. CASE \E p \in LimaProcs : LimaOwnStep(p) \/ LimaProviderEnds(p)
  <2>1. PICK p \in LimaProcs : Good(p)
    BY <1>8, <1>10, <1>11
  <2> QED
    BY <2>1 DEF Good
<1> QED
  BY <1>9, <1>11 DEF LimaNext

\* Every step keeps the invariant as long as it takes nobody's lock.
LEMMA LiKeptStep ==
  ASSUME LiTypes, LiKept, LimaNext, ~limaStolen'
  PROVE  LiKept'
<1>1. ASSUME NEW p \in LimaProcs, LimaOwnStep(p) PROVE LiKept'
  <2>1. CASE \/ LimaTryLock(p) \/ LimaReclaim(p) \/ LimaRemake(p)
             \/ (\E req \in LimaRequests : LimaWriteOwner(p, req))
    BY <2>1, LiOutsideStep
  <2>2. CASE \/ LimaListPending(p) \/ LimaMakeRunRoot(p) \/ LimaWriteManifest(p)
             \/ (\E m \in limaProc[p].stale : LimaReconcileOne(p, m))
             \/ LimaImportHost(p) \/ LimaImportProfile(p) \/ LimaLogin(p)
    BY <2>2, LiBeginStep
  <2>3. CASE LimaPrepare(p) \/ LimaPrepareNative(p)
    BY <2>3, LiPrepareStep DEF LimaPrepare, LimaPrepareNative
  <2>4. CASE LimaPrepareFails(p) \/ LimaCopyBack(p) \/ LimaApply(p)
    BY <2>4, LiPrepareFailsStep, LiCopyBackStep, LiApplyStep
  <2>5. CASE \/ LimaCheckDelta(p) \/ LimaCheckNative(p) \/ LimaJssField(p) \/ LimaJssTests(p)
             \/ LimaCommandFails(p) \/ LimaPlace(p) \/ LimaProbe(p) \/ LimaReadUsage(p)
    BY <2>5, LiMemoryStep
  <2>6. CASE LimaClean(p) \/ LimaCleanFails(p) \/ LimaRecord(p) \/ LimaRelease(p)
    BY <2>6, LiCleanStep, LiCleanFailsStep, LiRecordStep, LiLeaveStep
  <2> QED
    BY <1>1, <2>1, <2>2, <2>3, <2>4, <2>5, <2>6 DEF LimaOwnStep
<1>2. ASSUME NEW p \in LimaProcs, LimaProviderEnds(p) PROVE LiKept'
  BY <1>2, LiMemoryStep DEF LimaProviderEnds
<1>3. ASSUME NEW p \in LimaProcs, LimaCall(p) \/ LimaCancel(p) \/ LimaCrash(p) PROVE LiKept'
  <2>1. CASE LimaCall(p)
    BY <2>1, LiOutsideStep
  <2>2. CASE LimaCancel(p)
    BY <2>2, LiMemoryStep
  <2>3. CASE LimaCrash(p)
    BY <2>3, LiOutsideStep, LiLeaveStep
  <2> QED
    BY <1>3, <2>1, <2>2, <2>3
<1>4. ASSUME NEW f \in LimaFiles, LimaOwnerEdits(f) PROVE LiKept'
  <2>1. UNCHANGED <<limaLock, limaDir, limaProc, limaGuest, limaTransfer, limaStaged, limaApplied>>
    BY <1>4 DEF LimaOwnerEdits, limaGuestSide
  <2> QED
    BY <2>1 DEF LiKept, LiLock, LiGood, LiGuest, LiSettled, LiAwaits, LiUnderway, LimaPending,
                LimaInside, LimaAt
<1> QED
  BY <1>1, <1>2, <1>3, <1>4 DEF LimaNext, LimaEnvironment

\* The invariant is inductive.
LEMMA LiInvStep ==
  ASSUME LiInv, [LimaNext]_limaVars
  PROVE  LiInv'
<1>1. CASE LimaNext
  <2>1. LiTypes'
    BY <1>1, LiProcStep, LiStoreStep DEF LiInv, LiTypes
  <2>2. ~limaStolen' => LiKept'
    BY <1>1, LiHistoryStep, LiKeptStep DEF LiInv, LiTypes, LiStore
  <2> QED
    BY <2>1, <2>2 DEF LiInv
<1>2. CASE UNCHANGED limaVars
  <2>1. UNCHANGED <<limaLock, limaVm, limaWs, limaDir, limaGuest, limaTransfer, limaStaged,
                    limaProc, limaApplied, limaStolen, limaEdits, limaCrashes>>
    BY <1>2 DEF limaVars
  <2>2. LiTypes'
    BY <2>1 DEF LiInv, LiTypes, LiStore
  <2>3. LiKept => LiKept'
    BY <2>1 DEF LiKept, LiLock, LiGood, LiGuest, LiSettled, LiAwaits, LiUnderway, LimaPending,
                LimaInside, LimaAt
  <2> QED
    BY <2>1, <2>2, <2>3 DEF LiInv
<1> QED
  BY <1>1, <1>2

\* It holds at the start.
LEMMA LiInvInit == LimaInit => LiInv
<1> SUFFICES ASSUME LimaInit PROVE LiInv
  OBVIOUS
<1>1. LiTypes
  <2>1. limaProc \in [LimaProcs -> LiProc]
    BY LiIdle DEF LimaInit
  <2>2. limaWs \in LiVersions
    BY LimaAssumption DEF LimaInit, LiVersions
  <2>3. /\ limaDir \in [LimaRuns -> LimaManifest]
        /\ \A r \in LimaRuns : (limaDir[r].state = "terminal") = (limaDir[r].result # "none")
    BY DEF LimaInit, LimaNoDir, LimaManifest
  <2>4. 0 \in 0 .. LimaMaxEdits /\ 0 \in 0 .. LimaMaxCrashes
    BY LimaAssumption
  <2>5. limaStolen \in BOOLEAN /\ limaEdits \in 0 .. LimaMaxEdits /\ limaCrashes \in 0 .. LimaMaxCrashes
    BY <2>4 DEF LimaInit
  <2> QED
    BY <2>1, <2>2, <2>3, <2>5 DEF LimaInit, LiTypes, LiStore
<1>2. \A p \in LimaProcs : limaProc[p] = LimaIdleProc /\ limaProc[p].pc = "idle"
  BY DEF LimaInit, LimaIdleProc
<1>3. LiKept
  BY <1>2 DEF LimaInit, LiKept, LiLock, LiGood, LiGuest, LimaInside, LimaAt, LiWorking
<1> QED
  BY <1>1, <1>3 DEF LiInv

\* The parts of the property about states.
LEMMA LiInvSafe ==
  ASSUME LiInv
  PROVE  /\ LimaTypeOK /\ LimaExclusive /\ LimaGuestRunsRecorded
         /\ LimaFailedIsUntouched /\ LimaStagedIsOwn
<1>1. LimaTypeOK
  <2>1. ASSUME NEW p \in LimaProcs PROVE limaProc[p] \in LiHolds
    BY DEF LiInv, LiTypes, LiProc
  <2> QED
    BY <2>1 DEF LiInv, LiTypes, LiStore, LimaTypeOK, LiHolds, LiVersions
<1>2. LimaExclusive
  <2> SUFFICES ASSUME ~limaStolen PROVE Cardinality({p \in LimaProcs : LimaInside(p)}) <= 1
    BY DEF LimaExclusive
  <2>1. {p \in LimaProcs : LimaInside(p)} \in {{}, {limaLock}}
    BY DEF LiInv, LiKept, LiLock
  <2>2. Cardinality({}) = 0 /\ Cardinality({limaLock}) = 1
    BY FS_EmptySet, FS_Singleton
  <2> QED
    BY <2>1, <2>2
<1>3. LimaGuestRunsRecorded
  BY DEF LiInv, LiKept, LiGuest, LimaGuestRunsRecorded
<1>4. LimaFailedIsUntouched
  BY DEF LiInv, LiKept, LiSettled, LiAwaits, LimaFailedIsUntouched
<1>5. LimaStagedIsOwn
  BY DEF LiInv, LiKept, LiGood, LimaStagedIsOwn
<1> QED
  BY <1>1, <1>2, <1>3, <1>4, <1>5

\* A delta that reaches the workspace changes no file that is not what it was made from.
LEMMA LiEditsStep ==
  ASSUME LiInv, LimaNext, limaApplied' # limaApplied, NEW p \in LimaProcs,
         LimaAt(p, "apply"), ~LimaAt(p, "apply")', NEW f \in LimaFiles, limaWs'[f] # limaWs[f]
  PROVE  limaWs[f] = limaProc[p].base[f]
<1>1. PICK q \in LimaProcs : LimaApply(q) \/ LimaJssField(q) \/ LimaJssTests(q)
  BY LiHistoryStep DEF LiInv, LiTypes, LiStore
<1>2. limaProc \in [LimaProcs -> LiProc]
  BY DEF LiInv, LiTypes
<1>3. LiOthersStay(q)
  <2>1. \/ LimaGoto(q, "jss") \/ LimaGoto(q, "tests") \/ LimaGoto(q, "clean")
        \/ LimaFinish(q, "succeeded")
    BY <1>1 DEF LimaApply, LimaApplyAnyway, LimaJssField, LimaJssTests, LimaJssLook
  <2> QED
    BY <1>2, <2>1, LiGotoMoves, LiFinishMoves DEF LimaSteps
<1>4. p = q
  BY <1>3 DEF LiOthersStay, LimaAt
<1>5. LimaApply(p)
  BY <1>1, <1>4 DEF LimaJssField, LimaJssTests, LimaJssLook, LimaAt
<1> QED
  BY <1>5 DEF LimaApply, LimaApplyAnyway, LimaDeltaFits

(* LimaSafe: processes that share the instance behind the lock, and die in it, keep to it one
   at a time as long as no living process lost its lock, leave nothing unrecorded in the guest,
   report no failure of a delta the owner's workspace holds, place only the credential of their
   own call, and never overwrite what the owner wrote meanwhile. *)
THEOREM LimaIsSafe == LimaSpec => LimaSafe
<1>1. LimaSpec => []LiInv
  BY LiInvInit, LiInvStep, PTL DEF LimaSpec
<1>2. LiInv => LimaTypeOK /\ LimaExclusive /\ LimaGuestRunsRecorded
  BY LiInvSafe
<1>3. LiInv => LimaFailedIsUntouched /\ LimaStagedIsOwn
  BY LiInvSafe
<1>4. ASSUME LiInv, [LimaNext]_limaVars
      PROVE  [\A p \in LimaProcs : limaApplied' # limaApplied /\ LimaAt(p, "apply") /\ ~LimaAt(p, "apply")' =>
                \A f \in LimaFiles : limaWs'[f] # limaWs[f] => limaWs[f] = limaProc[p].base[f]]_limaVars
  BY <1>4, LiEditsStep
<1>5. LimaSpec => LimaOwnerEditsSurvive
  BY <1>1, <1>4, PTL DEF LimaSpec, LimaOwnerEditsSurvive
<1> QED
  BY <1>1, <1>2, <1>3, <1>5, PTL DEF LimaSafe

-----------------------------------------------------------------------------
(* A session of the Cursor agent *)

\* An action that is allowed because of an approval.
CsNeeds(a) ==
  CsCategory(CsClassify(a)) # CsNone /\ ~(csReq.workshop /\ CsIsolated(CsClassify(a)))

\* An approval that was used is used up: nothing that is left is of the same digest.
CsSpent == \A a \in CsActions : csGranted[a] > 0 => \A d \in csLeft : d.digest # CsDigest(a)

\* The inductive invariant of a session.
CsInv == CsSafe /\ CsSpent

\* Actions that are approved by the same digest are classified alike.
LEMMA CsDigestKind ==
  ASSUME NEW a, NEW b, CsDigest(a) = CsDigest(b)
  PROVE  CsClassify(a) = CsClassify(b) /\ CsDecision(a) = CsDecision(b)
BY DEF CsDigest, CsDecision

\* What the policy allows is not destructive, and rests on an approval where one is needed.
LEMMA CsDecideFacts ==
  ASSUME NEW a \in CsActions, NEW left, CsDecide(a, left)
  PROVE  /\ a.text # "destructive" /\ (a.text = "plain" /\ a.label = "delete" => csReq.workshop)
         /\ CsNeeds(a) => CsDecision(a) \in left
<1>3. \A k \in {"delete", "destructive", "unknown"} : CsCategory(k) = CsNone
  BY DEF CsCategory
<1>1. CsClassify(a) \notin {"destructive", "unknown"}
  BY <1>3 DEF CsDecide
<1>2. CsClassify(a) = "delete" => csReq.workshop
  BY <1>3 DEF CsDecide
<1>4. CsNeeds(a) => CsDecision(a) \in left
  BY <1>1, <1>3 DEF CsDecide, CsNeeds
<1> QED
  BY <1>1, <1>2, <1>4 DEF CsClassify

\* A session begins with nothing granted and every approval left.
LEMMA CsInitInv == CsInit => CsInv
<1> SUFFICES ASSUME CsInit PROVE CsInv
  OBVIOUS
<1>1. \A a \in CsActions : csGranted[a] = 0
  BY DEF CsInit
<1>2. CsTypeOK
  <2>1. csReq.allow \in BOOLEAN /\ csReq.workshop \in BOOLEAN /\ csReq.model \in CsModels \cup {CsNone}
    BY DEF CsInit
  <2>2. csGranted \in [CsActions -> 0..CsAsks]
    BY CsAssumption DEF CsInit
  <2>3. csPc = "initialize" /\ csLeft = csReq.approved /\ csModel = CsNone /\ csChild = "up" /\ csAborted = FALSE
    BY DEF CsInit
  <2> QED
    BY <2>1, <2>2, <2>3 DEF CsTypeOK
<1>3. CsApprovedOnce /\ CsNeverGranted /\ CsSpent
  BY <1>1 DEF CsApprovedOnce, CsNeverGranted, CsSpent
<1>4. CsModelHeld /\ CsNoneLeft
  BY DEF CsInit, CsModelHeld, CsNoneLeft
<1> QED
  BY <1>2, <1>3, <1>4 DEF CsInv, CsSafe

\* A permission uses up what it was given for.
LEMMA CsAskStep ==
  ASSUME CsInv, NEW a \in CsActions, CsAsk(a)
  PROVE  CsInv'
<1>0. /\ CsTypeOK /\ csGranted \in [CsActions -> 0..CsAsks] /\ csGranted[a] < CsAsks
      /\ csReq.allow /\ CsDecide(a, csLeft) /\ csLeft' = {d \in csLeft : d.digest # CsDigest(a)}
      /\ UNCHANGED <<csReq, csPc, csModel, csChild, csAborted>>
  BY DEF CsInv, CsSafe, CsTypeOK, CsAsk, CsSpend
<1>1. PICK n : n = csGranted[a] + 1
  OBVIOUS
<1>2. csGranted' = csGranted \/ csGranted' = [csGranted EXCEPT ![a] = n]
  <2>1. PICK once \in BOOLEAN : csGranted' = [csGranted EXCEPT ![a] = IF once THEN @ + 1 ELSE @]
    BY Zenon DEF CsAsk
  <2>2. CASE once
    BY <1>1, <2>1, <2>2
  <2>3. CASE ~once
    BY <1>0, <2>1, <2>3
  <2> QED
    BY <2>2, <2>3
<1>3. n \in 1..CsAsks /\ csGranted[a] \in 0..CsAsks
  BY <1>0, <1>1, CsAssumption
<1>4. /\ csGranted' \in [CsActions -> 0..CsAsks]
      /\ \A b \in CsActions : b # a => csGranted'[b] = csGranted[b]
      /\ csGranted'[a] \in {csGranted[a], n}
  BY <1>0, <1>2, <1>3
<1>5. CsTypeOK'
  BY <1>0, <1>4 DEF CsTypeOK
<1>6. CsNeverGranted'
  <2>1. ASSUME NEW b \in CsActions, csGranted'[b] > 0
        PROVE  csReq.allow /\ b.text # "destructive"
               /\ (b.text = "plain" /\ b.label = "delete" => csReq.workshop)
    <3>1. CASE b = a
      BY <1>0, <3>1, CsDecideFacts
    <3>2. CASE b # a
      BY <1>4, <2>1, <3>2 DEF CsInv, CsSafe, CsNeverGranted
    <3> QED
      BY <3>1, <3>2
  <2> QED
    BY <1>0, <2>1 DEF CsNeverGranted
<1>7. CsSpent'
  <2>1. ASSUME NEW b \in CsActions, csGranted'[b] > 0, NEW d \in csLeft' PROVE d.digest # CsDigest(b)
    <3>1. CASE b = a
      BY <1>0, <3>1
    <3>2. CASE b # a
      BY <1>0, <1>4, <2>1, <3>2 DEF CsInv, CsSpent
    <3> QED
      BY <3>1, <3>2
  <2> QED
    BY <2>1 DEF CsSpent
<1>8. \* who needed an approval that is still there has none of its kind granted
      CsNeeds(a) => \A b \in CsActions : CsDigest(b) = CsDigest(a) => csGranted[b] = 0
  <2>1. ASSUME CsNeeds(a), NEW b \in CsActions, CsDigest(b) = CsDigest(a), csGranted[b] > 0
        PROVE  FALSE
    <3>1. CsDecision(a) \in csLeft /\ CsDecision(a).digest = CsDigest(a)
      BY <1>0, <2>1, CsDecideFacts DEF CsDecision
    <3> QED
      BY <2>1, <3>1 DEF CsInv, CsSpent
  <2>2. \A b \in CsActions : csGranted[b] \in 0..CsAsks
    BY <1>0
  <2> QED
    BY <2>1, <2>2, CsAssumption
<1>9. CsApprovedOnce'
  <2>1. ASSUME NEW b \in CsActions, csGranted'[b] > 0, CsNeeds(b)
        PROVE  /\ CsDecision(b) \in csReq.approved /\ csGranted'[b] = 1
               /\ \A c \in CsActions : csGranted'[c] > 0 /\ CsDigest(c) = CsDigest(b) => c = b
    <3>0. \A c \in CsActions : CsDigest(c) = CsDigest(b) => CsNeeds(c)
      BY <2>1, CsDigestKind DEF CsNeeds
    <3>1. CASE b = a
      <4>1. CsDecision(a) \in csReq.approved
        BY <1>0, <2>1, <3>1, CsDecideFacts DEF CsTypeOK
      <4>2. csGranted[a] = 0 /\ \A c \in CsActions : c # a /\ CsDigest(c) = CsDigest(a) => csGranted'[c] = 0
        BY <1>4, <1>8, <2>1, <3>1
      <4> QED
        BY <1>1, <1>4, <2>1, <3>1, <4>1, <4>2
    <3>2. CASE b # a
      <4>1. csGranted[b] > 0 /\ csGranted'[b] = csGranted[b]
        BY <1>4, <2>1, <3>2
      <4>2. /\ CsDecision(b) \in csReq.approved /\ csGranted[b] = 1
            /\ \A c \in CsActions : csGranted[c] > 0 /\ CsDigest(c) = CsDigest(b) => c = b
        BY <2>1, <4>1 DEF CsInv, CsSafe, CsApprovedOnce, CsNeeds
      <4>3. CsDigest(a) # CsDigest(b)
        BY <1>8, <3>0, <4>1
      <4> QED
        BY <1>4, <4>1, <4>2, <4>3
    <3> QED
      BY <3>1, <3>2
  <2>2. CsNeeds(a) = CsNeeds(a)' /\ \A b : CsNeeds(b)' = CsNeeds(b)
    BY <1>0 DEF CsNeeds
  <2> QED
    BY <1>0, <2>1 DEF CsApprovedOnce, CsNeeds
<1>10. CsModelHeld' /\ CsNoneLeft'
  BY <1>0 DEF CsInv, CsSafe, CsModelHeld, CsNoneLeft
<1> QED
  BY <1>5, <1>6, <1>7, <1>9, <1>10 DEF CsInv, CsSafe

\* What is granted does not change with the other steps.
LEMMA CsKeeps ==
  ASSUME CsInv, UNCHANGED <<csReq, csLeft, csGranted>>, CsTypeOK', CsModelHeld', CsNoneLeft'
  PROVE  CsInv'
<1>1. CsApprovedOnce'
  BY DEF CsInv, CsSafe, CsApprovedOnce
<1>2. CsNeverGranted' /\ CsSpent'
  BY DEF CsInv, CsSafe, CsNeverGranted, CsSpent
<1> QED
  BY <1>1, <1>2 DEF CsInv, CsSafe

\* The requests to the agent, in their order, and whatever fails.
LEMMA CsProtocolStep ==
  ASSUME CsInv, CsInitialize \/ CsOpen \/ CsSelect \/ CsPrompted \/ CsFails
  PROVE  CsInv'
<1>0. CsTypeOK /\ CsModelHeld /\ CsNoneLeft
  BY DEF CsInv, CsSafe
<1>1. CASE CsInitialize
  BY <1>0, <1>1, CsKeeps DEF CsInitialize, CsAnswered, CsTypeOK, CsModelHeld, CsNoneLeft
<1>2. CASE CsOpen
  BY <1>0, <1>2, CsKeeps DEF CsOpen, CsAnswered, CsTypeOK, CsModelHeld, CsNoneLeft
<1>3. CASE CsSelect
  <2>1. csReq.model # CsNone => csModel' = csReq.model
    BY <1>3 DEF CsSelect, CsConfirmed
  <2>2. csModel' \in CsModels \cup {CsNone}
    BY <1>0, <1>3 DEF CsSelect, CsTypeOK
  <2> QED
    BY <1>0, <1>3, <2>1, <2>2, CsKeeps DEF CsSelect, CsAnswered, CsTypeOK, CsModelHeld, CsNoneLeft
<1>4. CASE CsPrompted
  BY <1>0, <1>4, CsKeeps DEF CsPrompted, CsAnswered, CsTypeOK, CsModelHeld, CsNoneLeft
<1>5. CASE CsFails
  BY <1>0, <1>5, CsKeeps DEF CsFails, CsTypeOK, CsModelHeld, CsNoneLeft
<1> QED
  BY <1>1, <1>2, <1>3, <1>4, <1>5

\* The end of the agent, by itself, by an abort or by the closing.
LEMMA CsEndStep ==
  ASSUME CsInv, CsDies \/ CsAbort \/ CsClose \/ CsFinally
  PROVE  CsInv'
<1>0. CsTypeOK /\ CsModelHeld /\ CsNoneLeft
  BY DEF CsInv, CsSafe
<1>1. CASE CsDies
  BY <1>0, <1>1, CsKeeps DEF CsDies, CsTypeOK, CsModelHeld, CsNoneLeft
<1>2. CASE CsAbort
  BY <1>0, <1>2, CsKeeps DEF CsAbort, CsTypeOK, CsModelHeld, CsNoneLeft
<1>3. CASE CsClose
  BY <1>0, <1>3, CsKeeps DEF CsClose, CsTypeOK, CsModelHeld, CsNoneLeft
<1>4. CASE CsFinally
  BY <1>0, <1>4, CsKeeps DEF CsFinally, CsTypeOK, CsModelHeld, CsNoneLeft
<1> QED
  BY <1>1, <1>2, <1>3, <1>4

\* Whatever an agent asks and answers, however often and in whatever order, an approval is used
\* once, nothing destructive is granted, the model is the one asked for and no process is left
\* behind (CursorAcpRuntime.execute, decideCursorPermission).
THEOREM SessionIsSafe == CsSpec => []CsSafe
<1>1. CsInv /\ [CsNext]_csVars => CsInv'
  <2>1. ASSUME CsInv, CsNext PROVE CsInv'
    BY <2>1, CsAskStep, CsProtocolStep, CsEndStep DEF CsNext
  <2>2. ASSUME CsInv, UNCHANGED csVars PROVE CsInv'
    BY <2>2, CsKeeps DEF csVars, CsInv, CsSafe, CsTypeOK, CsModelHeld, CsNoneLeft
  <2> QED
    BY <2>1, <2>2
<1>2. CsInv => CsSafe
  BY DEF CsInv
<1> QED
  BY <1>1, <1>2, CsInitInv, PTL DEF CsSpec
=============================================================================
