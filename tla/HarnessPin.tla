------------------------------ MODULE HarnessPin ------------------------------
(***************************************************************************)
(* The installer of the pinned DeepSeek Harness                             *)
(* (scripts/install-deepseek-harness-pin.sh): it sets the installed state   *)
(* aside path by path, stages the new one in place, verifies it, and either *)
(* commits or puts the old state back from an EXIT trap. It takes no lock;  *)
(* installs follow one another here. A path holds the number of the install *)
(* that made it.                                                            *)
(***************************************************************************)
EXTENDS Naturals, Sequences

CONSTANTS PnMaxInstalls,   \* bound: installs started
          PnNone, PnForeign   \* nothing; an app that is not ours

ASSUME PnAssumption == PnMaxInstalls \in Nat /\ PnNone \notin Nat /\ PnForeign \notin Nat

VARIABLES
  pnPath,     \* per managed path under DSH_HOME: the install it comes from
  pnApp,      \* Major.app: an install, nothing, or an app that is not ours
  pnPc,       \* the step the installer is at
  pnAt,       \* the next managed path to set aside, remove or put back
  pnBackup,   \* per managed path: what the transaction set aside
  pnExisting, \* the paths listed in the transaction's `existing` file
  pnAppAside, \* the app that was set aside (APP_BACKED_UP), or nothing
  pnAppOn,    \* APP_ACTIVATED
  pnCount,    \* installs started
  pnPrior,    \* history: paths and app when the install began
  pnFate,     \* history: how the last install ended
  pnKilled    \* history: an install was killed outright

pnVars == <<pnPath, pnApp, pnPc, pnAt, pnBackup, pnExisting, pnAppAside, pnAppOn, pnCount,
            pnPrior, pnFate, pnKilled>>

\* Slip: the record is the first path to be set aside and put back.
PnManaged_RecordFirst == <<"record", "runtime", "web", "headless", "kernel", "control", "codex", "launcher">>

PnManaged == <<"runtime", "web", "headless", "kernel", "control", "codex", "launcher", "record">>
PnPaths == {PnManaged[i] : i \in DOMAIN PnManaged}
PnNothing == [m \in PnPaths |-> PnNone]

PnInit ==
  /\ \/ pnPath = PnNothing /\ pnApp \in {PnNone, PnForeign}
     \/ pnPath = [m \in PnPaths |-> 0] /\ pnApp = 0
  /\ pnPc = "rest" /\ pnAt = 1 /\ pnBackup = PnNothing /\ pnExisting = {}
  /\ pnAppAside = PnNone /\ pnAppOn = FALSE /\ pnCount = 0
  /\ pnPrior = [path |-> pnPath, app |-> pnApp] /\ pnFate = "none"
  /\ pnKilled = FALSE

PnOther == <<pnAt, pnBackup, pnExisting, pnAppAside, pnAppOn, pnCount, pnPrior, pnFate, pnKilled>>

(***************************************************************************)
(* The transaction is opened                                                *)
(***************************************************************************)

\* The pin, the disk and the app are looked at before anything is touched.
PnStart ==
  /\ pnPc = "rest" /\ pnCount < PnMaxInstalls
  /\ pnApp # PnForeign
  /\ pnPc' = "aside" /\ pnAt' = 1 /\ pnCount' = pnCount + 1
  /\ pnBackup' = PnNothing /\ pnExisting' = {} /\ pnAppAside' = PnNone /\ pnAppOn' = FALSE
  /\ pnPrior' = [path |-> pnPath, app |-> pnApp] /\ pnFate' = "none"
  /\ UNCHANGED <<pnPath, pnApp, pnKilled>>

\* A path that is there is listed, then moved into the transaction directory.
PnSetAside ==
  LET m == PnManaged[pnAt] IN
  /\ pnPc = "aside" /\ pnAt <= Len(PnManaged)
  /\ pnAt' = pnAt + 1
  /\ IF pnPath[m] # PnNone
     THEN /\ pnExisting' = pnExisting \cup {m}
          /\ pnBackup' = [pnBackup EXCEPT ![m] = pnPath[m]]
          /\ pnPath' = [pnPath EXCEPT ![m] = PnNone]
     ELSE UNCHANGED <<pnExisting, pnBackup, pnPath>>
  /\ UNCHANGED <<pnApp, pnPc, pnAppAside, pnAppOn, pnCount, pnPrior, pnFate, pnKilled>>

PnSetAppAside ==
  /\ pnPc = "aside" /\ pnAt > Len(PnManaged)
  /\ pnAppAside' = pnApp /\ pnApp' = PnNone
  /\ pnPc' = "profiles"
  /\ UNCHANGED <<pnPath, pnAt, pnBackup, pnExisting, pnAppOn, pnCount, pnPrior, pnFate, pnKilled>>

(***************************************************************************)
(* The new state is staged in place, in this order                          *)
(***************************************************************************)
PnStage(pc, paths, next) ==
  /\ pnPc = pc /\ pnPc' = next
  /\ pnPath' = [m \in PnPaths |-> IF m \in paths THEN pnCount ELSE pnPath[m]]
  /\ UNCHANGED <<pnApp, PnOther>>

PnStageProfiles == PnStage("profiles", {"web", "headless"}, "kernel")
PnStageKernel == PnStage("kernel", {"kernel"}, "codex")
PnStageCodexHome == PnStage("codex", {"codex"}, "named")

\* Named homes, and their adapters appended to the kernel's patch.
PnStageNamedHomes == PnStage("named", {"codex", "kernel"}, "packages")
PnInstallPackages == PnStage("packages", {"runtime"}, "preset")
PnStagePreset == PnStage("preset", {"runtime"}, "link")

\* The kernel is linked to the runtime, the runtime to the kernel, the profiles to both.
PnLinkKernelRuntime == PnStage("link", {"kernel"}, "bundle")
PnLinkKernelBundle == PnStage("bundle", {"runtime"}, "shared")
PnLinkShared == PnStage("shared", {"web", "headless"}, "control")
PnStageControlPlane == PnStage("control", {"control"}, "verify")

\* A profile composes only from parts of one install.
PnVerify ==
  /\ pnPc = "verify"
  /\ \A m \in {"runtime", "kernel", "web", "headless"} : pnPath[m] = pnCount
  /\ pnPc' = "app"
  /\ UNCHANGED <<pnPath, pnApp, PnOther>>

\* The launcher and the app; the app counts as activated before it is staged.
PnStageApp ==
  /\ pnPc = "app"
  /\ pnAppOn' = TRUE /\ pnApp' = pnCount
  /\ pnPath' = [pnPath EXCEPT !["launcher"] = pnCount]
  /\ pnPc' = "record"
  /\ UNCHANGED <<pnAt, pnBackup, pnExisting, pnAppAside, pnCount, pnPrior, pnFate, pnKilled>>

PnRecord == PnStage("record", {"record"}, "commit")

\* The transaction is over before what it had set aside is removed.
PnCommit ==
  /\ pnPc = "commit"
  /\ pnPc' = "rest" /\ pnFate' = "installed"
  /\ pnBackup' = PnNothing /\ pnAppAside' = PnNone
  /\ UNCHANGED <<pnPath, pnApp, pnAt, pnExisting, pnAppOn, pnCount, pnPrior, pnKilled>>

(***************************************************************************)
(* The EXIT trap                                                            *)
(***************************************************************************)
PnInTransaction == pnPc \notin {"rest", "remove", "restore"}

\* Any command fails or a signal arrives: the trap runs from wherever it was.
PnFails ==
  /\ PnInTransaction
  /\ pnPc' = "remove" /\ pnAt' = 1
  /\ pnFate' = IF pnPc = "aside" /\ pnAt <= Len(PnManaged) THEN "cut short" ELSE "rolled back"
  /\ UNCHANGED <<pnPath, pnApp, pnBackup, pnExisting, pnAppAside, pnAppOn, pnCount, pnPrior, pnKilled>>

\* Every managed path is removed, also one that was never set aside.
PnRemove ==
  /\ pnPc = "remove" /\ pnAt <= Len(PnManaged)
  /\ pnPath' = [pnPath EXCEPT ![PnManaged[pnAt]] = PnNone]
  /\ pnAt' = pnAt + 1
  /\ UNCHANGED <<pnApp, pnPc, pnBackup, pnExisting, pnAppAside, pnAppOn, pnCount, pnPrior, pnFate, pnKilled>>

\* The app that was set aside returns; one that replaced none goes.
PnRestoreApp ==
  /\ pnPc = "remove" /\ pnAt > Len(PnManaged)
  /\ pnApp' = IF pnAppAside # PnNone THEN pnAppAside
              ELSE IF pnAppOn THEN PnNone ELSE pnApp
  /\ pnAppAside' = PnNone
  /\ pnPc' = "restore" /\ pnAt' = 1
  /\ UNCHANGED <<pnPath, pnBackup, pnExisting, pnAppOn, pnCount, pnPrior, pnFate, pnKilled>>

PnRestore ==
  LET m == PnManaged[pnAt] IN
  /\ pnPc = "restore" /\ pnAt <= Len(PnManaged)
  /\ pnAt' = pnAt + 1
  /\ IF m \in pnExisting
     THEN pnPath' = [pnPath EXCEPT ![m] = pnBackup[m]] /\ pnBackup' = [pnBackup EXCEPT ![m] = PnNone]
     ELSE UNCHANGED <<pnPath, pnBackup>>
  /\ UNCHANGED <<pnApp, pnPc, pnExisting, pnAppAside, pnAppOn, pnCount, pnPrior, pnFate, pnKilled>>

PnRestored ==
  /\ pnPc = "restore" /\ pnAt > Len(PnManaged)
  /\ pnPc' = "rest"
  /\ UNCHANGED <<pnPath, pnApp, PnOther>>

\* The process is killed outright, also inside the trap; nothing looks for the
\* transaction directory it leaves.
PnKilled ==
  /\ pnPc # "rest"
  /\ pnPc' = "rest" /\ pnFate' = "killed" /\ pnKilled' = TRUE
  /\ UNCHANGED <<pnPath, pnApp, pnAt, pnBackup, pnExisting, pnAppAside, pnAppOn, pnCount, pnPrior>>

PnNext ==
  \/ PnStart \/ PnSetAside \/ PnSetAppAside
  \/ PnStageProfiles \/ PnStageKernel \/ PnStageCodexHome \/ PnStageNamedHomes
  \/ PnInstallPackages \/ PnStagePreset \/ PnLinkKernelRuntime \/ PnLinkKernelBundle \/ PnLinkShared
  \/ PnStageControlPlane
  \/ PnVerify \/ PnStageApp \/ PnRecord \/ PnCommit
  \/ PnFails \/ PnRemove \/ PnRestoreApp \/ PnRestore \/ PnRestored \/ PnKilled

PnSpec == PnInit /\ [][PnNext]_pnVars

(***************************************************************************)
(* Properties                                                               *)
(***************************************************************************)

\* Every path holds nothing or an install's files.
PnTypeOK ==
  /\ pnPath \in [PnPaths -> 0..PnMaxInstalls \cup {PnNone}]
  /\ pnBackup \in [PnPaths -> 0..PnMaxInstalls \cup {PnNone}]
  /\ pnExisting \subseteq PnPaths /\ pnAt \in 1..Len(PnManaged) + 1

\* An install that ends by itself ends with everything its own, or with exactly
\* what was there before: paths that existed, paths that did not, and the app.
\* Excepted is the one that is cut short while it sets the old state aside, for
\* which the trap also removes what it had not reached.
PnAllOrNothing ==
  pnPc = "rest" =>
    /\ pnFate = "installed" => pnApp = pnCount /\ \A m \in PnPaths : pnPath[m] = pnCount
    /\ pnFate = "rolled back" => [path |-> pnPath, app |-> pnApp] = pnPrior

\* Unless an install was killed outright, an install record never stands beside
\* a harness that is not whole, not even after an install that was cut short: the
\* record is the last path to be written and the last to be put back.
PnRecordIsWhole ==
  pnPc = "rest" /\ ~pnKilled /\ pnPath["record"] # PnNone
    => /\ pnApp = pnPath["record"]
       /\ \A m \in PnPaths : pnPath[m] = pnPath["record"]

\* An install of the pin is whole, undone, or not recorded: the parts above.
PnSafe == PnTypeOK /\ PnAllOrNothing /\ PnRecordIsWhole
-----------------------------------------------------------------------------
(* The inductive invariant of the proofs *)

PnFiles == 0..PnMaxInstalls \cup {PnNone}

PnWorldOK ==
  /\ pnPath \in [PnPaths -> PnFiles] /\ pnBackup \in [PnPaths -> PnFiles]
  /\ pnApp \in PnFiles \cup {PnForeign} /\ pnAppAside \in PnFiles \cup {PnForeign}
  /\ pnExisting \subseteq PnPaths /\ pnAt \in 1..9 /\ pnCount \in 0..PnMaxInstalls
  /\ pnPrior \in [path : [PnPaths -> PnFiles], app : PnFiles \cup {PnForeign}]
  /\ pnPc # "rest" => pnCount # 0

\* A record stands beside a whole harness.
PnWhole(path, app) == path["record"] # PnNone =>
  app = path["record"] /\ \A m \in PnPaths : path[m] = path["record"]

\* What the transaction directory holds of a path is what was there before.
PnAside(m) == /\ pnBackup[m] = pnPrior.path[m]
              /\ m \in pnExisting <=> pnPrior.path[m] # PnNone
PnAllAside == \A m \in PnPaths : PnAside(m)

\* The paths already set aside are; the others are as they were.
PnSetting == pnPc = "aside" =>
  /\ \A i \in 1..8 : LET m == PnManaged[i] IN
       IF i < pnAt THEN PnAside(m) /\ pnPath[m] = PnNone
       ELSE m \notin pnExisting /\ pnBackup[m] = PnNone /\ pnPath[m] = pnPrior.path[m]
  /\ pnApp = pnPrior.app /\ pnAppAside = PnNone /\ ~pnAppOn

\* What each step of the staging finds in place.
PnSteps == {"profiles", "kernel", "codex", "named", "packages", "preset", "link", "bundle",
            "shared", "control", "verify", "app", "record", "commit"}
PnStaged == [pc \in PnSteps |->
  CASE pc = "profiles" -> {}
    [] pc = "kernel" -> {"web", "headless"}
    [] pc = "codex" -> {"web", "headless", "kernel"}
    [] pc \in {"named", "packages"} -> {"web", "headless", "kernel", "codex"}
    [] pc \in {"preset", "link", "bundle", "shared", "control"} ->
         {"web", "headless", "kernel", "codex", "runtime"}
    [] pc \in {"verify", "app"} -> {"web", "headless", "kernel", "codex", "runtime", "control"}
    [] pc = "record" -> PnPaths \ {"record"}
    [] pc = "commit" -> PnPaths]

PnStaging == pnPc \in PnSteps =>
  /\ PnAllAside /\ pnAppAside = pnPrior.app
  /\ \A m \in PnStaged[pnPc] : pnPath[m] = pnCount
  /\ pnPc # "commit" => pnPath["record"] = PnNone
  /\ IF pnPc \in {"record", "commit"} THEN pnAppOn /\ pnApp = pnCount ELSE ~pnAppOn /\ pnApp = PnNone

\* The trap undoes the whole transaction, or one that had not reached the record.
PnBroken == /\ pnFate \in {"rolled back", "cut short"}
            /\ pnFate = "rolled back" => PnAllAside
            /\ pnFate = "cut short" => "record" \notin pnExisting
PnRemoving == pnPc = "remove" =>
  /\ PnBroken
  /\ \A i \in 1..8 : i < pnAt => pnPath[PnManaged[i]] = PnNone
  /\ pnFate = "rolled back" =>
       IF pnAppAside # PnNone THEN pnAppAside = pnPrior.app
       ELSE pnPrior.app = IF pnAppOn THEN PnNone ELSE pnApp

PnRestoring == pnPc = "restore" =>
  /\ pnFate \in {"rolled back", "cut short"}
  /\ pnFate = "rolled back" => pnApp = pnPrior.app
  /\ \A i \in 1..8 : LET m == PnManaged[i] IN
       IF i < pnAt THEN pnFate = "rolled back" => pnPath[m] = pnPrior.path[m]
       ELSE pnPath[m] = PnNone /\ (pnFate = "rolled back" => PnAside(m))
  /\ pnFate = "cut short" => "record" \notin pnExisting /\ pnPath["record"] = PnNone

PnInv == /\ PnWorldOK /\ PnSetting /\ PnStaging /\ PnRemoving /\ PnRestoring /\ PnAllOrNothing
         /\ pnPc \in {"rest", "aside", "remove", "restore"} \cup PnSteps
         /\ ~pnKilled => /\ PnWhole(pnPrior.path, pnPrior.app)
                         /\ pnPc = "rest" => PnWhole(pnPath, pnApp)
=============================================================================
