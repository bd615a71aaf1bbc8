---------------------------- MODULE SkillLifecycle ----------------------------
(***************************************************************************)
(* Skills generated from successful work (skills/lifecycle.ts): observation,*)
(* independent validation, promotion to a file that sessions load, outcomes,*)
(* deprecation and restoration. Every operation is one turn under the       *)
(* store's lock, except promotion, which writes the file and then the store,*)
(* and loading, which takes no lock and reads the store and then the file.  *)
(*                                                                          *)
(* A skill's text is told apart by what the template puts in it: the        *)
(* candidate, its version and its number of observations. All tasks here    *)
(* are similar enough to match each other's candidates.                     *)
(***************************************************************************)
EXTENDS Naturals, FiniteSets, FiniteSetsExt, Sequences

CONSTANTS SlTasks,         \* the tasks that are observed, by their fingerprint
          SlOverlapping,   \* those for which an existing skill had been resolved
          SlGoals,         \* goals, numbered in the order they first report an observation
          SlProcs,         \* processes that validate, promote or load
          SlTrial,         \* uses before a skill is judged (3 in the code)
          SlMaxCandidates, SlMaxUses,   \* bounds
          SlNone

ASSUME SlAssumption == SlOverlapping \subseteq SlTasks /\ SlTrial \in Nat /\ SlGoals \subseteq Nat
                       /\ SlMaxCandidates \in Nat /\ SlMaxUses \in Nat
                       /\ SlNone \notin SlProcs

VARIABLES
  slStore,     \* the candidate file: a sequence of candidates
  slFile,      \* per skill id: the text of its SKILL.md
  slLock,      \* the process that is between the two writes of a promotion
  slProc,      \* per process: where it is and what it read of a candidate
  slGraded,    \* history: texts an independent passing grade covered
  slUngraded   \* history: a text no grade covered was handed to a session

slVars == <<slStore, slFile, slLock, slProc, slGraded, slUngraded>>

SlText(c, cand) == <<c, cand.version, cand.seen>>

\* A candidate's skill id is built from the task that was observed first.
SlCandidate(task, goal) ==
  [skill |-> task, status |-> "candidate", version |-> 1, seen |-> 1, tasks |-> {task},
   goals |-> {goal}, overlaps |-> task \in SlOverlapping, validated |-> FALSE, approved |-> SlNone,
   path |-> FALSE, text |-> SlNone, uses |-> 0, successes |-> 0]

SlIdle == [pc |-> "idle", c |-> 0, goal |-> SlNone, skill |-> SlNone, text |-> SlNone]

SlInit ==
  /\ slStore = <<>>
  /\ slFile = [t \in SlTasks |-> SlNone]
  /\ slLock = SlNone
  /\ slProc = [p \in SlProcs |-> SlIdle]
  /\ slGraded = {} /\ slUngraded = FALSE

SlIds == DOMAIN slStore
SlGoto(p, rec) == slProc' = [slProc EXCEPT ![p] = rec]

(***************************************************************************)
(* Observation: the first live candidate that matches takes it              *)
(***************************************************************************)
SlLeast(ids) == IF ids = {} THEN 0 ELSE Min(ids)
SlMatch == SlLeast({c \in SlIds : slStore[c].status # "deprecated"})

\* Only a goal's first observation counts; a skill in use goes back to review as a new version.
SlMerged(cand, task, goal) ==
  [cand EXCEPT !.status = IF @ = "active" THEN "review" ELSE @,
               !.version = IF cand.status = "active" THEN @ + 1 ELSE @,
               !.seen = @ + 1, !.tasks = @ \cup {task}, !.goals = @ \cup {goal}]

SlObserve(task, goal) ==
  /\ slLock = SlNone
  /\ \A g \in SlGoals : g < goal => \E c \in SlIds : g \in slStore[c].goals
  /\ IF SlMatch = 0
     THEN /\ Len(slStore) < SlMaxCandidates
          /\ slStore' = Append(slStore, SlCandidate(task, goal))
     ELSE /\ goal \notin slStore[SlMatch].goals
          /\ slStore' = [slStore EXCEPT ![SlMatch] = SlMerged(@, task, goal)]
  /\ UNCHANGED <<slFile, slLock, slProc, slGraded, slUngraded>>

(***************************************************************************)
(* Validation and promotion                                                 *)
(***************************************************************************)

\* Recurrence, diversity and a validation; every match scores at least one half,
\* which is enough similarity for a confidence of 0.8.
SlConfident(cand) == cand.seen >= 2 /\ Cardinality(cand.tasks) >= 2 /\ cand.validated

SlEligible(cand, goal) == cand.status \in {"candidate", "review"} /\ goal \in cand.goals

\* A goal's passing grade covers the text of each of its candidates as it is now.
SlValidate(p, goal) ==
  LET covered == {c \in SlIds : SlEligible(slStore[c], goal)} IN
  /\ slProc[p].pc = "idle" /\ slLock = SlNone /\ covered # {}
  /\ slStore' = [c \in SlIds |->
                   IF c \in covered
                   THEN [slStore[c] EXCEPT !.validated = TRUE,
                                           !.approved = SlText(c, slStore[c])]
                   ELSE slStore[c]]
  /\ slGraded' = slGraded \cup {SlText(c, slStore[c]) : c \in covered}
  /\ SlGoto(p, [SlIdle EXCEPT !.pc = "validated", !.goal = goal])
  /\ UNCHANGED <<slFile, slLock, slUngraded>>

\* A candidate that overlaps an existing skill is sent to review and no further.
SlHeld(cand) == cand.status \in {"candidate", "review"} /\ cand.overlaps

\* The grade's own promotions bring no optimizer evidence and are refused, but
\* for what a refused promotion writes.
SlPromoteAfterGrade(p) ==
  /\ slProc[p].pc = "validated" /\ slLock = SlNone
  /\ slStore' = [c \in SlIds |->
                   IF /\ slProc[p].goal \in slStore[c].goals
                      /\ SlConfident(slStore[c]) /\ SlHeld(slStore[c])
                   THEN [slStore[c] EXCEPT !.status = "review"] ELSE slStore[c]]
  /\ SlGoto(p, SlIdle)
  /\ UNCHANGED <<slFile, slLock, slGraded, slUngraded>>

SlHold(c) ==
  /\ slLock = SlNone /\ SlHeld(slStore[c]) /\ slStore[c].status = "candidate"
  /\ slStore' = [slStore EXCEPT ![c].status = "review"]
  /\ UNCHANGED <<slFile, slLock, slProc, slGraded, slUngraded>>

\* Slip: the text is not compared with the one that was validated.
SlPromotable_AnyText(c) ==
  LET cand == slStore[c] IN
  /\ cand.status \in {"candidate", "review"} /\ ~cand.overlaps
  /\ SlConfident(cand)

SlPromotable(c) ==
  LET cand == slStore[c] IN
  /\ cand.status \in {"candidate", "review"} /\ ~cand.overlaps
  /\ SlConfident(cand)
  /\ cand.approved = SlText(c, cand)

\* The owner promotes with optimizer evidence. The copy that is made of a file
\* already there is one nothing reads again.
SlWriteSkill(p, c) ==
  LET cand == slStore[c] IN
  /\ slProc[p].pc = "idle" /\ slLock = SlNone /\ SlPromotable(c)
  /\ slFile' = [slFile EXCEPT ![cand.skill] = SlText(c, cand)]
  /\ slLock' = p
  /\ SlGoto(p, [SlIdle EXCEPT !.pc = "written", !.c = c])
  /\ UNCHANGED <<slStore, slGraded, slUngraded>>

SlPromote(p) ==
  LET c == slProc[p].c IN
  /\ slProc[p].pc = "written"
  /\ slStore' = [slStore EXCEPT ![c].status = "active", ![c].path = TRUE,
                                ![c].text = SlText(c, slStore[c])]
  /\ slLock' = SlNone
  /\ SlGoto(p, SlIdle)
  /\ UNCHANGED <<slFile, slGraded, slUngraded>>

\* A process that dies between the two writes leaves the lock, which nobody breaks.
SlDies(p) ==
  /\ slProc[p].pc # "idle"
  /\ SlGoto(p, SlIdle)
  /\ UNCHANGED <<slStore, slFile, slLock, slGraded, slUngraded>>

(***************************************************************************)
(* Use: loading, outcomes, deprecation, restoration                         *)
(***************************************************************************)
SlReadStore(p, c) ==
  /\ slProc[p].pc = "idle" /\ slStore[c].status = "active"
  /\ SlGoto(p, [SlIdle EXCEPT !.pc = "load", !.skill = slStore[c].skill,
                              !.text = slStore[c].text])
  /\ UNCHANGED <<slStore, slFile, slLock, slGraded, slUngraded>>

\* A file that is not the promoted text is passed over.
SlLoad(p) ==
  LET text == slProc[p].text IN
  /\ slProc[p].pc = "load"
  /\ slUngraded' = (slUngraded \/ (slFile[slProc[p].skill] = text /\ text \notin slGraded))
  /\ SlGoto(p, SlIdle)
  /\ UNCHANGED <<slStore, slFile, slLock, slGraded>>

\* From the end of its trial on, fewer than half successes retire the skill.
SlScored(cand, success) ==
  LET uses == cand.uses + 1
      successes == cand.successes + IF success THEN 1 ELSE 0
  IN [cand EXCEPT !.uses = uses, !.successes = successes,
                  !.status = IF uses >= SlTrial /\ 2 * successes < uses THEN "deprecated" ELSE @]

\* Every active candidate of the skill id is scored.
SlOutcome(skill, success) ==
  LET scored == {c \in SlIds : slStore[c].skill = skill /\ slStore[c].status = "active"} IN
  /\ slLock = SlNone /\ scored # {}
  /\ \A c \in SlIds : slStore[c].uses < SlMaxUses
  /\ slStore' = [c \in SlIds |-> IF c \in scored THEN SlScored(slStore[c], success)
                                 ELSE slStore[c]]
  /\ UNCHANGED <<slFile, slLock, slProc, slGraded, slUngraded>>

SlFirst(skill, status) ==
  SlLeast({c \in SlIds : slStore[c].skill = skill /\ slStore[c].status = status})

SlDeprecate(skill) ==
  /\ slLock = SlNone /\ SlFirst(skill, "active") # 0
  /\ slStore' = [slStore EXCEPT ![SlFirst(skill, "active")].status = "deprecated"]
  /\ UNCHANGED <<slFile, slLock, slProc, slGraded, slUngraded>>

SlRestore(skill) ==
  LET c == SlFirst(skill, "deprecated") IN
  /\ slLock = SlNone /\ c # 0
  /\ slStore[c].path /\ slFile[skill] = slStore[c].text
  /\ slStore' = [slStore EXCEPT ![c].status = "active"]
  /\ UNCHANGED <<slFile, slLock, slProc, slGraded, slUngraded>>

SlNext ==
  \/ \E task \in SlTasks, goal \in SlGoals : SlObserve(task, goal)
  \/ \E skill \in SlTasks : \/ SlDeprecate(skill)
                            \/ SlRestore(skill)
                            \/ \E success \in BOOLEAN : SlOutcome(skill, success)
  \/ \E c \in SlIds : SlHold(c)
  \/ \E p \in SlProcs : \/ SlPromoteAfterGrade(p)
                        \/ SlPromote(p)
                        \/ SlDies(p)
                        \/ SlLoad(p)
                        \/ \E goal \in SlGoals : SlValidate(p, goal)
                        \/ \E c \in SlIds : SlWriteSkill(p, c) \/ SlReadStore(p, c)

SlSpec == SlInit /\ [][SlNext]_slVars

(***************************************************************************)
(* Properties                                                               *)
(***************************************************************************)

\* The store and the process records have the shapes the code gives them.
SlTypeOK ==
  /\ \A c \in SlIds : /\ slStore[c].status \in {"candidate", "active", "review", "deprecated"}
                      /\ slStore[c].skill \in SlTasks /\ slStore[c].goals \subseteq SlGoals
                      /\ slStore[c].successes <= slStore[c].uses
  /\ slLock \in SlProcs \cup {SlNone}
  /\ \A p \in SlProcs : slProc[p].pc \in {"idle", "validated", "written", "load"}

\* Every text a session was given is one that an independent passing grade
\* covered word for word: new observations between the grade and the promotion,
\* a promotion under way while a session loads, a second candidate that takes
\* over a retired skill's file and a restoration change nothing about it.
SlLoadedIsGraded == ~slUngraded

\* Sessions are given graded texts only: the parts above.
SlSafe == SlTypeOK /\ SlLoadedIsGraded

-----------------------------------------------------------------------------
(* The inductive invariant of the proofs *)

SlWords == (Nat \X Nat \X Nat) \cup {SlNone}
SlCand == [skill : SlTasks, status : {"candidate", "active", "review", "deprecated"},
           version : Nat, seen : Nat, tasks : SUBSET SlTasks, goals : SUBSET SlGoals,
           overlaps : BOOLEAN, validated : BOOLEAN, approved : SlWords, path : BOOLEAN,
           text : SlWords, uses : Nat, successes : Nat]
SlUse == [pc : {"idle", "validated", "written", "load"}, c : Nat, goal : SlGoals \cup {SlNone},
          skill : SlTasks \cup {SlNone}, text : SlWords]

\* What a candidate was approved for and what was promoted of it are graded; one
\* in use was promoted.
SlSound(cand, graded) ==
  /\ cand \in SlCand /\ cand.successes <= cand.uses
  /\ cand.validated => cand.approved \in graded
  /\ cand.path => cand.text \in graded
  /\ cand.status = "active" => cand.path

\* A process between the two writes of a promotion has the lock and a candidate
\* whose text is still the graded one; one that loads brings a graded text.
SlWorks(p) ==
  /\ slProc[p].pc = "written" => /\ slLock = p /\ slProc[p].c \in SlIds
                                 /\ SlText(slProc[p].c, slStore[slProc[p].c]) \in slGraded
  /\ slProc[p].pc = "load" => slProc[p].text \in slGraded

SlInv ==
  /\ slStore \in Seq(SlCand) /\ slProc \in [SlProcs -> SlUse]
  /\ slLock \in SlProcs \cup {SlNone}
  /\ \A c \in SlIds : SlSound(slStore[c], slGraded)
  /\ \A p \in SlProcs : SlWorks(p)
  /\ ~slUngraded
=============================================================================
