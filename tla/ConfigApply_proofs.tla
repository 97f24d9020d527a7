------------------------- MODULE ConfigApply_proofs -------------------------
(***************************************************************************)
(* Safety of the apply pipeline for any number of releases, applications   *)
(* and configurations, and under every fault ConfigApply models; and, as   *)
(* long as HAProxy and the backend stay up, how names come and go.         *)
(***************************************************************************)
EXTENDS ConfigApply, TLAPS

-----------------------------------------------------------------------------
\* The inductive invariant.  What makes it inductive is where `current` is in
\* each phase of an apply, and that a new correlation id names no directory.

BeforeSwap == {"validate", "bridge", "swap"}
Switched == {"await_reload", "await_apps", "reload", "leave_bridge"}
OnCandidate == {"remove_bridge", "await_drop", "rollback"}
BackOnPrev == {"rollback_reload", "cleanup"}

FreshIds ==
    /\ \A r \in dirs : HaproxyPart(r) <= used
    /\ \A r \in validated : r <= used
WrittenContent == \A r \in 1 .. used : content[r] \in Config

\* The two releases of the apply in progress exist, differ, and are validated.
ReleasesKept ==
    /\ used >= 1
    /\ cand \in dirs
    /\ pc # "validate" => cand \in validated
    /\ prev \in dirs \cup {Missing}
    /\ prev # cand /\ prev # BridgeOf(cand)
    /\ HaproxyPart(prev) \in validated \cup {Seed, Missing}
    /\ pc = "swap" /\ NeedsBridge => BridgeOf(cand) \in dirs

LinkInPhase ==
    /\ pc \in BeforeSwap \cup BackOnPrev => CurrentIsPrev
    /\ pc \in Switched => current = Swapped
    /\ pc \in OnCandidate => current = cand
    /\ pc = "rollback_reload" => prev # Missing

HaproxyInPhase ==
    /\ pc \in {"leave_bridge", "remove_bridge"} /\ reloadOk => hap = cand
    /\ pc = "await_drop" => hap = cand

AnswerInPhase ==
    /\ pc \in {"restore", "cleanup"} => outcome \in {"reload_failed", "coraza_reload_failed"}
    /\ pc \in {"down", "seeding", "seed_reload"} => outcome = "none"
    /\ pc = "idle" /\ outcome = "reload_failed_rolled_back" => prev # Missing

IInv ==
    /\ TypeOK
    /\ FreshIds
    /\ WrittenContent
    /\ CurrentResolves
    /\ ActivatedIsValidated
    /\ pc \in ApplyStep => ReleasesKept /\ LinkInPhase /\ HaproxyInPhase
    /\ AnswerInPhase
    /\ OutcomeIsTrue

-----------------------------------------------------------------------------
\* Arithmetic of the release names

LEMMA Names ==
    /\ MaxReleases \in Nat /\ MaxReleases >= 1
    /\ Missing = -1 /\ Seed = 0
    /\ Missing \notin Release
    /\ \A r \in Written : /\ r \in Release
                          /\ HaproxyPart(r) = r
                          /\ BridgeOf(r) \in Release \ Written
                          /\ HaproxyPart(BridgeOf(r)) = r
                          /\ BridgeOf(r) # Seed /\ BridgeOf(r) # Missing
    /\ HaproxyPart(Seed) = Seed
    /\ HaproxyPart(Missing) = Missing
    /\ \A r \in Link : HaproxyPart(r) \in {Seed, Missing} \cup Written
BY StoreAssumption
   DEF StoreAssumption, Written, Release, Link, HaproxyPart, BridgeOf, Seed, Missing

-----------------------------------------------------------------------------
\* The initial state

LEMMA SpecialNames ==
    /\ Seed \in Release /\ Seed \in Link /\ Missing \in Link
    /\ Written \subseteq Release
    /\ 0 \in 0 .. MaxReleases
BY Names DEF Link, Release, Written, Seed

LEMMA InitIInv == Init => IInv
<1>. SUFFICES ASSUME Init PROVE IInv
  OBVIOUS
<1>. USE DEF Init, StoreInit, SupInit
<1>1. StoreTypeOK
  BY SpecialNames DEF StoreTypeOK
<1>2. SupTypeOK
  <2>1. status \in [release : Link, result : {"none", "ok", "error"}]
    BY SpecialNames
  <2>. QED
    BY <2>1, SpecialNames DEF SupTypeOK, ConfigFile
<1>3. TypeOK
  BY <1>1, <1>2, SpecialNames DEF TypeOK
<1>4. FreshIds /\ WrittenContent
  BY DEF FreshIds, WrittenContent
<1>5. CurrentResolves
  BY DEF CurrentResolves
<1>6. ActivatedIsValidated
  BY Names DEF ActivatedIsValidated
<1>7. pc \notin ApplyStep /\ AnswerInPhase /\ OutcomeIsTrue
  BY DEF ApplyStep, ApplyStatus, AnswerInPhase, OutcomeIsTrue
<1>. QED
  BY <1>3, <1>4, <1>5, <1>6, <1>7 DEF IInv

-----------------------------------------------------------------------------
\* The supervisor and coraza-spoa write only their own state, so a step of
\* theirs keeps everything but their part of the type invariant.

LEMMA SupStep ==
    ASSUME SupTypeOK, StoreTypeOK, SupNext
    PROVE  SupTypeOK' /\ UNCHANGED storeVars
<1>. USE DEF SupTypeOK, SupNext, SupLoop, Spoa
<1>1. CASE SupervisorStart
  BY <1>1 DEF SupervisorStart, SelectedConfig, ConfigFile, StoreTypeOK
<1>2. CASE Poll
  BY <1>2 DEF Poll, StoreTypeOK
<1>3. CASE Validate
  BY <1>3 DEF Validate, SelectedConfig, ConfigFile
<1>4. CASE Reload
  BY <1>4 DEF Reload, SelectedConfig, ConfigFile
<1>5. CASE Report
  BY <1>5 DEF Report
<1>6. LoadResult(spoaConfig) = Missing \/ LoadResult(spoaConfig) \in Release
  <2>1. Seed \in Release
    BY Names DEF Release, Seed
  <2>. QED
    BY <2>1 DEF LoadResult, HasGeneratedYaml, StoreTypeOK, ConfigFile
<1>7. CASE SpoaUp
  BY <1>6, <1>7 DEF SpoaUp
<1>8. CASE SpoaReload
  BY <1>6, <1>8 DEF SpoaReload
<1>9. CASE SpoaCrash
  BY <1>9 DEF SpoaCrash
<1>. QED
  BY <1>1, <1>2, <1>3, <1>4, <1>5, <1>7, <1>8, <1>9

-----------------------------------------------------------------------------
\* What the steps below need to know of the two releases of an apply

LEMMA InApply ==
    ASSUME IInv, pc \in ApplyStep
    PROVE  /\ cand \in Written /\ cand \in Release /\ BridgeOf(cand) \in Release
           /\ HaproxyPart(cand) = cand /\ HaproxyPart(BridgeOf(cand)) = cand
           /\ BridgeOf(cand) # cand
           /\ {cand, BridgeOf(cand)} \cap {Seed, Missing} = {}
           /\ Swapped = IF NeedsBridge THEN BridgeOf(cand) ELSE cand
           /\ HaproxyPart(Swapped) = cand
           /\ ReleasesKept /\ LinkInPhase /\ HaproxyInPhase
<1>1. cand \in Written
  BY Names DEF IInv, TypeOK, ReleasesKept, Written, cand
<1>2. cand # Seed /\ cand # Missing
  BY <1>1, Names DEF Written
<1>. QED
  BY <1>1, <1>2, Names DEF IInv, Swapped

\* The bridge decision depends on the names in the two releases only.
LEMMA SamePair ==
    ASSUME UNCHANGED <<used, prev>>,
           content'[cand] = content[cand],
           prev # Missing => content'[prev] = content[prev]
    PROVE  (NeedsBridge <=> NeedsBridge') /\ Swapped' = Swapped
BY DEF NeedsBridge, Swapped, Added, Retired, AppNames, cand

\* A step that leaves the directories and the numbering alone.
LEMMA SameStore ==
    ASSUME IInv, UNCHANGED <<content, dirs, used, validated>>
    PROVE  FreshIds' /\ WrittenContent'
BY DEF IInv, FreshIds, WrittenContent

LEMMA FewerDirs ==
    ASSUME IInv, UNCHANGED <<content, used>>,
           dirs' \subseteq dirs \cup {Seed}, validated' \subseteq validated \cup {used}
    PROVE  FreshIds' /\ WrittenContent' /\ dirs' \subseteq Release
BY SpecialNames, Names
   DEF IInv, TypeOK, StoreTypeOK, FreshIds, WrittenContent, Seed

\* A reload leaves HAProxy alone or on the release `current` names.
LEMMA AfterHaproxyReload ==
    ASSUME IInv, NEW result \in CanReload, HaproxyReload(result)
    PROVE  /\ hap' \in Release \cup {Missing}
           /\ hap' \in {hap, HaproxyPart(current)}
           /\ hap' = hap \/ (current # Missing /\ hap' = HaproxyPart(current))
           /\ result \in {"ok", "lost"} => hap # Missing /\ hap' = HaproxyPart(current)
           /\ result \in {"ok", "refused", "lost"}
           /\ result = "refused" => hap' = hap
BY Names, SpecialNames, ApplyAssumption
   DEF IInv, TypeOK, StoreTypeOK, CanReload, HaproxyReload, ApplyAssumption

-----------------------------------------------------------------------------
\* One lemma per step

LEMMA ApplyValidateKeeps == ASSUME IInv, ApplyValidate PROVE IInv'
<1>. USE DEF ApplyValidate, GoTo, Return, Conclude
<1>0. pc = "validate" /\ pc \in ApplyStep /\ pc' \in {"idle", "bridge", "swap"}
  BY DEF ApplyStep
<1>1. TypeOK'
  BY <1>0, InApply DEF IInv, TypeOK, StoreTypeOK, SupTypeOK, ApplyStep, ApplyStatus,
         storeVars, supVars
<1>2. FreshIds' /\ WrittenContent'
  BY FewerDirs DEF cand
<1>3. CurrentResolves' /\ ActivatedIsValidated'
  BY <1>0, InApply
     DEF IInv, CurrentResolves, ActivatedIsValidated, ReleasesKept, LinkInPhase, BeforeSwap,
         Switched, OnCandidate, BackOnPrev, CurrentIsPrev, cand, storeVars
<1>4. (NeedsBridge <=> NeedsBridge') /\ Swapped' = Swapped
  BY SamePair DEF storeVars
<1>5. pc' \in ApplyStep => ReleasesKept' /\ LinkInPhase' /\ HaproxyInPhase'
  BY <1>0, <1>4, InApply
     DEF ApplyStep, ReleasesKept, LinkInPhase, HaproxyInPhase, BeforeSwap, Switched, OnCandidate,
         BackOnPrev, CurrentIsPrev, cand, storeVars
<1>6. AnswerInPhase' /\ OutcomeIsTrue'
  BY <1>0, InApply
     DEF IInv, AnswerInPhase, OutcomeIsTrue, LinkInPhase, HaproxyInPhase, BeforeSwap, Switched,
         OnCandidate, BackOnPrev, CurrentIsPrev, ApplyStatus, cand, storeVars
<1>. QED
  BY <1>1, <1>2, <1>3, <1>5, <1>6 DEF IInv

LEMMA WriteBridgeKeeps == ASSUME IInv, WriteBridge PROVE IInv'
<1>. USE DEF WriteBridge, GoTo, Return, Conclude
<1>0. pc = "bridge" /\ pc \in ApplyStep /\ pc' \in {"idle", "swap"}
  BY DEF ApplyStep
<1>1. \A r \in Release : r # BridgeOf(cand) => content'[r] = content[r]
  BY DEF IInv, TypeOK, StoreTypeOK
<1>2. content' \in [Release -> Config \cup {SeedConfig}]
  <2>1. content[cand] \in Config
    BY <1>0, InApply DEF IInv, WrittenContent, ReleasesKept, TypeOK, cand
  <2>2. AppNames(cand) \cup Retired \subseteq App
    <3>1. AppNames(prev) \subseteq App
      BY DEF IInv, TypeOK, StoreTypeOK, Link, AppNames, Config, SeedConfig
    <3>2. AppNames(cand) \subseteq App
      BY <1>0, <2>1, InApply DEF AppNames, Config, IInv
    <3>. QED
      BY <3>1, <3>2 DEF Retired
  <2>3. BridgeRules \subseteq Rules
    BY <2>1, StoreAssumption DEF BridgeRules, Compiles, Config, StoreAssumption
  <2>4. ASSUME NEW text \in BridgeRules
        PROVE  [apps  |-> AppNames(cand) \cup Retired,
                rules |-> text,
                site  |-> content[cand].site] \in Config
    BY <2>1, <2>2, <2>3 DEF Config
  <2>. QED
    BY <2>4 DEF IInv, TypeOK, StoreTypeOK
<1>3. TypeOK'
  BY <1>0, <1>2, InApply DEF IInv, TypeOK, StoreTypeOK, SupTypeOK, ApplyStep, ApplyStatus, supVars
<1>4. FreshIds' /\ WrittenContent'
  <2>1. \A r \in 1 .. used : r \in Release /\ r # BridgeOf(cand)
    BY InApply, Names, <1>0 DEF IInv, TypeOK, Written
  <2>2. UNCHANGED used /\ dirs' \subseteq dirs \cup {BridgeOf(cand)}
    OBVIOUS
  <2>3. FreshIds'
    BY <1>0, <2>2, InApply DEF IInv, FreshIds, TypeOK, cand
  <2>4. WrittenContent'
    BY <1>1, <2>1, <2>2 DEF IInv, WrittenContent
  <2>. QED
    BY <2>3, <2>4
<1>5. CurrentResolves' /\ ActivatedIsValidated'
  BY <1>0, InApply
     DEF IInv, CurrentResolves, ActivatedIsValidated, ReleasesKept, LinkInPhase, BeforeSwap,
         CurrentIsPrev, cand
<1>6. (NeedsBridge <=> NeedsBridge') /\ Swapped' = Swapped
  BY <1>0, <1>1, InApply, SamePair DEF IInv, TypeOK, Link, ReleasesKept
<1>7. pc' \in ApplyStep => ReleasesKept' /\ LinkInPhase' /\ HaproxyInPhase'
  BY <1>0, <1>6, InApply
     DEF ApplyStep, ReleasesKept, LinkInPhase, HaproxyInPhase, BeforeSwap, Switched, OnCandidate,
         BackOnPrev, CurrentIsPrev, cand
<1>8. AnswerInPhase' /\ OutcomeIsTrue'
  BY <1>0, InApply
     DEF IInv, AnswerInPhase, OutcomeIsTrue, LinkInPhase, BeforeSwap, CurrentIsPrev, ApplyStatus,
         cand
<1>. QED
  BY <1>3, <1>4, <1>5, <1>7, <1>8 DEF IInv

LEMMA ApplySwapKeeps == ASSUME IInv, ApplySwap PROVE IInv'
<1>. USE DEF ApplySwap, GoTo, Return, Conclude, AfterPreload
<1>0. pc = "swap" /\ pc \in ApplyStep /\ pc' \in {"await_reload", "await_apps", "reload"}
  BY DEF ApplyStep
<1>1. TypeOK'
  BY <1>0, InApply DEF IInv, TypeOK, StoreTypeOK, SupTypeOK, ApplyStep, ApplyStatus,
         Link, storeVars, supVars
<1>2. FreshIds' /\ WrittenContent'
  BY FewerDirs DEF storeVars
<1>3. CurrentResolves' /\ ActivatedIsValidated'
  BY <1>0, InApply
     DEF IInv, CurrentResolves, ActivatedIsValidated, ReleasesKept, LinkInPhase, BeforeSwap,
         Switched, OnCandidate, BackOnPrev, CurrentIsPrev, cand, storeVars
<1>4. (NeedsBridge <=> NeedsBridge') /\ Swapped' = Swapped
  BY SamePair DEF storeVars
<1>5. pc' \in ApplyStep => ReleasesKept' /\ LinkInPhase' /\ HaproxyInPhase'
  BY <1>0, <1>4, InApply
     DEF ApplyStep, ReleasesKept, LinkInPhase, HaproxyInPhase, BeforeSwap, Switched, OnCandidate,
         BackOnPrev, CurrentIsPrev, cand, storeVars
<1>6. AnswerInPhase' /\ OutcomeIsTrue'
  BY <1>0, InApply
     DEF IInv, AnswerInPhase, OutcomeIsTrue, LinkInPhase, HaproxyInPhase, BeforeSwap, Switched,
         OnCandidate, BackOnPrev, CurrentIsPrev, ApplyStatus, cand, storeVars
<1>. QED
  BY <1>1, <1>2, <1>3, <1>5, <1>6 DEF IInv

LEMMA AwaitReloadKeeps == ASSUME IInv, AwaitReload PROVE IInv'
<1>. USE DEF AwaitReload, GoTo, Return, Conclude, AfterPreload
<1>0. pc = "await_reload" /\ pc \in ApplyStep /\ pc' \in {"await_apps", "reload", "restore"}
  BY DEF ApplyStep
<1>1. TypeOK'
  BY <1>0, InApply DEF IInv, TypeOK, StoreTypeOK, SupTypeOK, ApplyStep, ApplyStatus,
         storeVars, supVars
<1>2. FreshIds' /\ WrittenContent'
  BY FewerDirs DEF storeVars
<1>3. CurrentResolves' /\ ActivatedIsValidated'
  BY <1>0, InApply
     DEF IInv, CurrentResolves, ActivatedIsValidated, ReleasesKept, LinkInPhase, BeforeSwap,
         Switched, OnCandidate, BackOnPrev, CurrentIsPrev, cand, storeVars
<1>4. (NeedsBridge <=> NeedsBridge') /\ Swapped' = Swapped
  BY SamePair DEF storeVars
<1>5. pc' \in ApplyStep => ReleasesKept' /\ LinkInPhase' /\ HaproxyInPhase'
  BY <1>0, <1>4, InApply
     DEF ApplyStep, ReleasesKept, LinkInPhase, HaproxyInPhase, BeforeSwap, Switched, OnCandidate,
         BackOnPrev, CurrentIsPrev, cand, storeVars
<1>6. AnswerInPhase' /\ OutcomeIsTrue'
  BY <1>0, InApply
     DEF IInv, AnswerInPhase, OutcomeIsTrue, LinkInPhase, HaproxyInPhase, BeforeSwap, Switched,
         OnCandidate, BackOnPrev, CurrentIsPrev, ApplyStatus, cand, storeVars
<1>. QED
  BY <1>1, <1>2, <1>3, <1>5, <1>6 DEF IInv

LEMMA AwaitAppsKeeps == ASSUME IInv, AwaitApps PROVE IInv'
<1>. USE DEF AwaitApps, GoTo, Return, Conclude
<1>0. pc = "await_apps" /\ pc \in ApplyStep /\ pc' \in {"reload", "restore"}
  BY DEF ApplyStep
<1>1. TypeOK'
  BY <1>0, InApply DEF IInv, TypeOK, StoreTypeOK, SupTypeOK, ApplyStep, ApplyStatus,
         storeVars, supVars
<1>2. FreshIds' /\ WrittenContent'
  BY FewerDirs DEF storeVars
<1>3. CurrentResolves' /\ ActivatedIsValidated'
  BY <1>0, InApply
     DEF IInv, CurrentResolves, ActivatedIsValidated, ReleasesKept, LinkInPhase, BeforeSwap,
         Switched, OnCandidate, BackOnPrev, CurrentIsPrev, cand, storeVars
<1>4. (NeedsBridge <=> NeedsBridge') /\ Swapped' = Swapped
  BY SamePair DEF storeVars
<1>5. pc' \in ApplyStep => ReleasesKept' /\ LinkInPhase' /\ HaproxyInPhase'
  BY <1>0, <1>4, InApply
     DEF ApplyStep, ReleasesKept, LinkInPhase, HaproxyInPhase, BeforeSwap, Switched, OnCandidate,
         BackOnPrev, CurrentIsPrev, cand, storeVars
<1>6. AnswerInPhase' /\ OutcomeIsTrue'
  BY <1>0, InApply
     DEF IInv, AnswerInPhase, OutcomeIsTrue, LinkInPhase, HaproxyInPhase, BeforeSwap, Switched,
         OnCandidate, BackOnPrev, CurrentIsPrev, ApplyStatus, cand, storeVars
<1>. QED
  BY <1>1, <1>2, <1>3, <1>5, <1>6 DEF IInv

LEMMA ApplyReloadKeeps == ASSUME IInv, ApplyReload PROVE IInv'
<1>. USE DEF ApplyReload, GoTo, Return, Conclude, AfterReload
<1>0. /\ pc = "reload" /\ pc \in ApplyStep
      /\ pc' \in {"idle", "leave_bridge", "await_drop", "rollback"}
  BY DEF ApplyStep
<1>reload. PICK result \in CanReload : HaproxyReload(result) /\ reloadOk' = (result = "ok")
  OBVIOUS
<1>hap. /\ hap' \in Release \cup {Missing}
        /\ hap' \in {hap, HaproxyPart(current)}
        /\ result \in {"ok", "lost"} => hap # Missing /\ hap' = HaproxyPart(current)
  BY <1>reload, AfterHaproxyReload
<1>1. TypeOK'
  BY <1>0, <1>reload, <1>hap, InApply

     DEF IInv, TypeOK, StoreTypeOK, SupTypeOK, ApplyStep, ApplyStatus,
         storeVars, supVars
<1>2. FreshIds' /\ WrittenContent'
  BY FewerDirs DEF storeVars
<1>3. CurrentResolves' /\ ActivatedIsValidated'
  BY <1>0, <1>reload, <1>hap, InApply
     DEF IInv, CurrentResolves, ActivatedIsValidated, ReleasesKept, LinkInPhase, BeforeSwap,
         Switched, OnCandidate, BackOnPrev, CurrentIsPrev, cand, storeVars
<1>4. (NeedsBridge <=> NeedsBridge') /\ Swapped' = Swapped
  BY SamePair DEF storeVars
<1>5. pc' \in ApplyStep => ReleasesKept' /\ LinkInPhase' /\ HaproxyInPhase'
  BY <1>0, <1>reload, <1>hap, <1>4, InApply
     DEF ApplyStep, ReleasesKept, LinkInPhase, HaproxyInPhase, BeforeSwap, Switched, OnCandidate,
         BackOnPrev, CurrentIsPrev, cand, storeVars
<1>6. AnswerInPhase' /\ OutcomeIsTrue'
  BY <1>0, <1>reload, <1>hap, InApply
     DEF IInv, AnswerInPhase, OutcomeIsTrue, LinkInPhase, HaproxyInPhase, BeforeSwap, Switched,
         OnCandidate, BackOnPrev, CurrentIsPrev, ApplyStatus, cand, storeVars
<1>. QED
  BY <1>1, <1>2, <1>3, <1>5, <1>6 DEF IInv

LEMMA LeaveBridgeKeeps == ASSUME IInv, LeaveBridge PROVE IInv'
<1>. USE DEF LeaveBridge, GoTo, Return, Conclude
<1>0. pc = "leave_bridge" /\ pc \in ApplyStep /\ pc' \in {"remove_bridge"}
  BY DEF ApplyStep
<1>1. TypeOK'
  BY <1>0, InApply DEF IInv, TypeOK, StoreTypeOK, SupTypeOK, ApplyStep, ApplyStatus,
         Link, storeVars, supVars
<1>2. FreshIds' /\ WrittenContent'
  BY FewerDirs DEF storeVars
<1>3. CurrentResolves' /\ ActivatedIsValidated'
  BY <1>0, InApply
     DEF IInv, CurrentResolves, ActivatedIsValidated, ReleasesKept, LinkInPhase, BeforeSwap,
         Switched, OnCandidate, BackOnPrev, CurrentIsPrev, cand, storeVars
<1>4. (NeedsBridge <=> NeedsBridge') /\ Swapped' = Swapped
  BY SamePair DEF storeVars
<1>5. pc' \in ApplyStep => ReleasesKept' /\ LinkInPhase' /\ HaproxyInPhase'
  BY <1>0, <1>4, InApply
     DEF ApplyStep, ReleasesKept, LinkInPhase, HaproxyInPhase, BeforeSwap, Switched, OnCandidate,
         BackOnPrev, CurrentIsPrev, cand, storeVars
<1>6. AnswerInPhase' /\ OutcomeIsTrue'
  BY <1>0, InApply
     DEF IInv, AnswerInPhase, OutcomeIsTrue, LinkInPhase, HaproxyInPhase, BeforeSwap, Switched,
         OnCandidate, BackOnPrev, CurrentIsPrev, ApplyStatus, cand, storeVars
<1>. QED
  BY <1>1, <1>2, <1>3, <1>5, <1>6 DEF IInv

LEMMA RemoveBridgeKeeps == ASSUME IInv, RemoveBridge PROVE IInv'
<1>. USE DEF RemoveBridge, GoTo, Return, Conclude, AfterReload
<1>0. pc = "remove_bridge" /\ pc \in ApplyStep /\ pc' \in {"idle", "await_drop", "rollback"}
  BY DEF ApplyStep
<1>1. TypeOK'
  BY <1>0, InApply DEF IInv, TypeOK, StoreTypeOK, SupTypeOK, ApplyStep, ApplyStatus,
         storeVars, supVars
<1>2. FreshIds' /\ WrittenContent'
  BY FewerDirs DEF storeVars
<1>3. CurrentResolves' /\ ActivatedIsValidated'
  BY <1>0, InApply
     DEF IInv, CurrentResolves, ActivatedIsValidated, ReleasesKept, LinkInPhase, BeforeSwap,
         Switched, OnCandidate, BackOnPrev, CurrentIsPrev, cand, storeVars
<1>4. (NeedsBridge <=> NeedsBridge') /\ Swapped' = Swapped
  BY SamePair DEF storeVars
<1>5. pc' \in ApplyStep => ReleasesKept' /\ LinkInPhase' /\ HaproxyInPhase'
  BY <1>0, <1>4, InApply
     DEF ApplyStep, ReleasesKept, LinkInPhase, HaproxyInPhase, BeforeSwap, Switched, OnCandidate,
         BackOnPrev, CurrentIsPrev, cand, storeVars
<1>6. AnswerInPhase' /\ OutcomeIsTrue'
  BY <1>0, InApply
     DEF IInv, AnswerInPhase, OutcomeIsTrue, LinkInPhase, HaproxyInPhase, BeforeSwap, Switched,
         OnCandidate, BackOnPrev, CurrentIsPrev, ApplyStatus, cand, storeVars
<1>. QED
  BY <1>1, <1>2, <1>3, <1>5, <1>6 DEF IInv

LEMMA AwaitDropKeeps == ASSUME IInv, AwaitDrop PROVE IInv'
<1>. USE DEF AwaitDrop, GoTo, Return, Conclude
<1>0. pc = "await_drop" /\ pc \in ApplyStep /\ pc' \in {"idle", "rollback"}
  BY DEF ApplyStep
<1>1. TypeOK'
  <2>1. corazaLate' \in BOOLEAN
    BY DEF IInv, TypeOK
  <2>2. outcome' \in ApplyStatus \cup {"none"} /\ pc' \in ApplyStep \cup {"idle"}
    BY DEF IInv, TypeOK, ApplyStatus, ApplyStep
  <2>. QED
    BY <2>1, <2>2 DEF IInv, TypeOK, StoreTypeOK, SupTypeOK, storeVars, supVars
<1>2. FreshIds' /\ WrittenContent'
  BY FewerDirs DEF storeVars
<1>3. CurrentResolves' /\ ActivatedIsValidated'
  BY <1>0, InApply
     DEF IInv, CurrentResolves, ActivatedIsValidated, ReleasesKept, LinkInPhase, BeforeSwap,
         Switched, OnCandidate, BackOnPrev, CurrentIsPrev, cand, storeVars
<1>4. (NeedsBridge <=> NeedsBridge') /\ Swapped' = Swapped
  BY SamePair DEF storeVars
<1>5. pc' \in ApplyStep => ReleasesKept' /\ LinkInPhase' /\ HaproxyInPhase'
  BY <1>0, <1>4, InApply
     DEF ApplyStep, ReleasesKept, LinkInPhase, HaproxyInPhase, BeforeSwap, Switched, OnCandidate,
         BackOnPrev, CurrentIsPrev, cand, storeVars
<1>6. AnswerInPhase' /\ OutcomeIsTrue'
  BY <1>0, InApply
     DEF IInv, AnswerInPhase, OutcomeIsTrue, LinkInPhase, HaproxyInPhase, BeforeSwap, Switched,
         OnCandidate, BackOnPrev, CurrentIsPrev, ApplyStatus, cand, storeVars
<1>. QED
  BY <1>1, <1>2, <1>3, <1>5, <1>6 DEF IInv

LEMMA RollbackKeeps == ASSUME IInv, Rollback PROVE IInv'
<1>. USE DEF Rollback, GoTo, Return, Conclude
<1>0. pc = "rollback" /\ pc \in ApplyStep /\ pc' \in {"idle", "restore", "rollback_reload"}
  BY DEF ApplyStep
<1>1. TypeOK'
  BY <1>0, InApply DEF IInv, TypeOK, StoreTypeOK, SupTypeOK, ApplyStep, ApplyStatus,
         storeVars, supVars
<1>2. FreshIds' /\ WrittenContent'
  BY FewerDirs DEF storeVars
<1>3. CurrentResolves' /\ ActivatedIsValidated'
  BY <1>0, InApply
     DEF IInv, CurrentResolves, ActivatedIsValidated, ReleasesKept, LinkInPhase, BeforeSwap,
         Switched, OnCandidate, BackOnPrev, CurrentIsPrev, cand, storeVars
<1>4. (NeedsBridge <=> NeedsBridge') /\ Swapped' = Swapped
  BY SamePair DEF storeVars
<1>5. pc' \in ApplyStep => ReleasesKept' /\ LinkInPhase' /\ HaproxyInPhase'
  BY <1>0, <1>4, InApply
     DEF ApplyStep, ReleasesKept, LinkInPhase, HaproxyInPhase, BeforeSwap, Switched, OnCandidate,
         BackOnPrev, CurrentIsPrev, cand, storeVars
<1>6. AnswerInPhase' /\ OutcomeIsTrue'
  BY <1>0, InApply
     DEF IInv, AnswerInPhase, OutcomeIsTrue, LinkInPhase, HaproxyInPhase, BeforeSwap, Switched,
         OnCandidate, BackOnPrev, CurrentIsPrev, ApplyStatus, cand, storeVars
<1>. QED
  BY <1>1, <1>2, <1>3, <1>5, <1>6 DEF IInv

LEMMA RollbackReloadKeeps == ASSUME IInv, RollbackReload PROVE IInv'
<1>. USE DEF RollbackReload, GoTo, Return, Conclude
<1>0. pc = "rollback_reload" /\ pc \in ApplyStep /\ pc' \in {"idle", "cleanup"}
  BY DEF ApplyStep
<1>reload. PICK result \in CanReload :
             /\ HaproxyReload(result)
             /\ CASE result # "ok" -> Return("rollback_failed")
                  [] result = "ok" /\ corazaLate -> Conclude("cleanup", "coraza_reload_failed")
                  [] OTHER -> Return("reload_failed_rolled_back")
  BY DEF RollbackReload
<1>hap. /\ hap' \in Release \cup {Missing}
        /\ hap' \in {hap, HaproxyPart(current)}
        /\ result \in {"ok", "lost"} => hap # Missing /\ hap' = HaproxyPart(current)
  BY <1>reload, AfterHaproxyReload
<1>1. TypeOK'
  BY <1>0, <1>reload, <1>hap, InApply

     DEF IInv, TypeOK, StoreTypeOK, SupTypeOK, ApplyStep, ApplyStatus,
         storeVars, supVars
<1>2. FreshIds' /\ WrittenContent'
  BY FewerDirs DEF storeVars
<1>3. CurrentResolves' /\ ActivatedIsValidated'
  BY <1>0, <1>reload, <1>hap, InApply
     DEF IInv, CurrentResolves, ActivatedIsValidated, ReleasesKept, LinkInPhase, BeforeSwap,
         Switched, OnCandidate, BackOnPrev, CurrentIsPrev, cand, storeVars
<1>4. (NeedsBridge <=> NeedsBridge') /\ Swapped' = Swapped
  BY SamePair DEF storeVars
<1>5. pc' \in ApplyStep => ReleasesKept' /\ LinkInPhase' /\ HaproxyInPhase'
  BY <1>0, <1>reload, <1>hap, <1>4, InApply
     DEF ApplyStep, ReleasesKept, LinkInPhase, HaproxyInPhase, BeforeSwap, Switched, OnCandidate,
         BackOnPrev, CurrentIsPrev, cand, storeVars
<1>6. AnswerInPhase' /\ OutcomeIsTrue'
  BY <1>0, <1>reload, <1>hap, InApply
     DEF IInv, AnswerInPhase, OutcomeIsTrue, LinkInPhase, HaproxyInPhase, BeforeSwap, Switched,
         OnCandidate, BackOnPrev, CurrentIsPrev, ApplyStatus, cand, storeVars
<1>. QED
  BY <1>1, <1>2, <1>3, <1>5, <1>6 DEF IInv

LEMMA RestoreKeeps == ASSUME IInv, Restore PROVE IInv'
<1>. USE DEF Restore, GoTo, Return, Conclude
<1>0. pc = "restore" /\ pc \in ApplyStep /\ pc' \in {"cleanup"}
  BY DEF ApplyStep
<1>1. TypeOK'
  BY <1>0, InApply DEF IInv, TypeOK, StoreTypeOK, SupTypeOK, ApplyStep, ApplyStatus,
         storeVars, supVars
<1>2. FreshIds' /\ WrittenContent'
  BY FewerDirs DEF storeVars
<1>3. CurrentResolves' /\ ActivatedIsValidated'
  BY <1>0, InApply
     DEF IInv, CurrentResolves, ActivatedIsValidated, ReleasesKept, LinkInPhase, BeforeSwap,
         Switched, OnCandidate, BackOnPrev, CurrentIsPrev, cand, storeVars
<1>4. (NeedsBridge <=> NeedsBridge') /\ Swapped' = Swapped
  BY SamePair DEF storeVars
<1>5. pc' \in ApplyStep => ReleasesKept' /\ LinkInPhase' /\ HaproxyInPhase'
  BY <1>0, <1>4, InApply
     DEF ApplyStep, ReleasesKept, LinkInPhase, HaproxyInPhase, BeforeSwap, Switched, OnCandidate,
         BackOnPrev, CurrentIsPrev, cand, storeVars
<1>6. AnswerInPhase' /\ OutcomeIsTrue'
  BY <1>0, InApply
     DEF IInv, AnswerInPhase, OutcomeIsTrue, LinkInPhase, HaproxyInPhase, BeforeSwap, Switched,
         OnCandidate, BackOnPrev, CurrentIsPrev, ApplyStatus, cand, storeVars
<1>. QED
  BY <1>1, <1>2, <1>3, <1>5, <1>6 DEF IInv

LEMMA CleanupKeeps == ASSUME IInv, Cleanup PROVE IInv'
<1>. USE DEF Cleanup, GoTo, Return, Conclude
<1>0. pc = "cleanup" /\ pc \in ApplyStep /\ pc' \in {"idle"}
  BY DEF ApplyStep
<1>1. TypeOK'
  BY <1>0, InApply DEF IInv, TypeOK, StoreTypeOK, SupTypeOK, ApplyStep, ApplyStatus,
         storeVars, supVars
<1>2. FreshIds' /\ WrittenContent'
  BY FewerDirs DEF storeVars
<1>3. CurrentResolves' /\ ActivatedIsValidated'
  BY <1>0, InApply
     DEF IInv, CurrentResolves, ActivatedIsValidated, ReleasesKept, LinkInPhase, BeforeSwap,
         Switched, OnCandidate, BackOnPrev, CurrentIsPrev, cand, storeVars
<1>4. (NeedsBridge <=> NeedsBridge') /\ Swapped' = Swapped
  BY SamePair DEF storeVars
<1>5. pc' \in ApplyStep => ReleasesKept' /\ LinkInPhase' /\ HaproxyInPhase'
  BY <1>0, <1>4, InApply
     DEF ApplyStep, ReleasesKept, LinkInPhase, HaproxyInPhase, BeforeSwap, Switched, OnCandidate,
         BackOnPrev, CurrentIsPrev, cand, storeVars
<1>6. AnswerInPhase' /\ OutcomeIsTrue'
  BY <1>0, InApply
     DEF IInv, AnswerInPhase, OutcomeIsTrue, LinkInPhase, HaproxyInPhase, BeforeSwap, Switched,
         OnCandidate, BackOnPrev, CurrentIsPrev, ApplyStatus, cand, storeVars
<1>. QED
  BY <1>1, <1>2, <1>3, <1>5, <1>6 DEF IInv

LEMMA ApplyBeginKeeps ==
    ASSUME IInv, NEW config \in Offered, ApplyBegin(config) PROVE IInv'
<1>. USE DEF ApplyBegin, GoTo, Return, Conclude
<1>0. pc = "idle" /\ pc' \in {"validate", "idle"} /\ used' = used + 1 /\ used' \in Written
  BY Names DEF IInv, TypeOK, Written
<1>1. used' \in Release /\ config \in Config
  BY <1>0, SpecialNames, ApplyAssumption DEF ApplyAssumption
<1>2. prev' = current
  BY DEF IInv, CurrentResolves
<1>3. HaproxyPart(current) <= used \/ current = Missing
  BY DEF IInv, FreshIds, CurrentResolves
<1>4. current # used' /\ current # BridgeOf(used')
  BY <1>0, <1>3, Names DEF IInv, TypeOK
<1>5. TypeOK'
  <2>1. StoreTypeOK'
    BY <1>1 DEF IInv, TypeOK, StoreTypeOK
  <2>2. SupTypeOK'
    BY DEF IInv, TypeOK, SupTypeOK, supVars
  <2>3. pc' \in {"idle"} \cup ApplyStep /\ outcome' \in ApplyStatus \cup {"none"}
    BY <1>0 DEF IInv, TypeOK, ApplyStep, ApplyStatus
  <2>4. reloadOk' \in BOOLEAN /\ corazaLate' \in BOOLEAN
    OBVIOUS
  <2>. QED
    BY <1>0, <1>2, <2>1, <2>2, <2>3, <2>4 DEF IInv, TypeOK, StoreTypeOK, Written
<1>6. FreshIds'
  BY <1>0, <1>1, Names DEF IInv, FreshIds, TypeOK, StoreTypeOK, Release, HaproxyPart, Written
<1>7. WrittenContent'
  BY <1>0, <1>1 DEF IInv, WrittenContent, TypeOK, StoreTypeOK, Written, Release
<1>8. CurrentResolves' /\ ActivatedIsValidated'
  BY DEF IInv, CurrentResolves, ActivatedIsValidated
<1>9. pc' \in ApplyStep => ReleasesKept' /\ LinkInPhase' /\ HaproxyInPhase'
  <2>1. HaproxyPart(prev') \in validated' \cup {Seed, Missing}
    BY <1>2 DEF IInv, ActivatedIsValidated
  <2>2. prev' \in dirs' \cup {Missing}
    BY <1>2 DEF IInv, CurrentResolves
  <2>. QED
    BY <1>0, <1>2, <1>4, <2>1, <2>2
       DEF ReleasesKept, LinkInPhase, HaproxyInPhase, BeforeSwap, Switched, OnCandidate, BackOnPrev,
           ApplyStep, CurrentIsPrev, cand, Written
<1>10. AnswerInPhase' /\ OutcomeIsTrue'
  BY <1>0, <1>2 DEF AnswerInPhase, OutcomeIsTrue, CurrentIsPrev
<1>. QED
  BY <1>5, <1>6, <1>7, <1>8, <1>9, <1>10 DEF IInv

\* Nothing but the program counter and the answer changes.
LEMMA BackendCrashKeeps == ASSUME IInv, BackendCrash PROVE IInv'
<1>. USE DEF BackendCrash, Conclude
<1>1. TypeOK'
  BY DEF IInv, TypeOK, StoreTypeOK, SupTypeOK, storeVars, supVars
<1>2. FreshIds' /\ WrittenContent'
  BY SameStore DEF storeVars
<1>3. CurrentResolves' /\ ActivatedIsValidated'
  BY DEF IInv, CurrentResolves, ActivatedIsValidated, storeVars
<1>4. pc' \notin ApplyStep /\ AnswerInPhase' /\ OutcomeIsTrue'
  BY DEF ApplyStep, ApplyStatus, AnswerInPhase, OutcomeIsTrue
<1>. QED
  BY <1>1, <1>2, <1>3, <1>4 DEF IInv

LEMMA BackendStartKeeps == ASSUME IInv, BackendStart PROVE IInv'
<1>. USE DEF BackendStart, GoTo
<1>1. dirs' \subseteq dirs \cup {Seed} /\ dirs \subseteq dirs' /\ UNCHANGED <<content, used>>
  OBVIOUS
<1>2. FreshIds' /\ WrittenContent' /\ dirs' \subseteq Release
  BY <1>1, FewerDirs
<1>3. TypeOK'
  BY <1>2, SpecialNames DEF IInv, TypeOK, StoreTypeOK, SupTypeOK, supVars
<1>4. CurrentResolves' /\ ActivatedIsValidated'
  BY Names DEF IInv, CurrentResolves, ActivatedIsValidated
<1>5. pc' \notin ApplyStep /\ AnswerInPhase' /\ OutcomeIsTrue'
  BY DEF IInv, ApplyStep, AnswerInPhase, OutcomeIsTrue
<1>. QED
  BY <1>2, <1>3, <1>4, <1>5 DEF IInv

LEMMA SeedKeepKeeps == ASSUME IInv, SeedKeep PROVE IInv'
<1>. USE DEF SeedKeep, GoTo
<1>1. TypeOK'
  BY DEF IInv, TypeOK, StoreTypeOK, SupTypeOK, storeVars, supVars
<1>2. FreshIds' /\ WrittenContent'
  BY SameStore DEF storeVars
<1>3. CurrentResolves' /\ ActivatedIsValidated'
  BY DEF IInv, CurrentResolves, ActivatedIsValidated, storeVars
<1>4. pc' \notin ApplyStep /\ AnswerInPhase' /\ OutcomeIsTrue'
  BY DEF IInv, ApplyStep, ApplyStatus, AnswerInPhase, OutcomeIsTrue
<1>. QED
  BY <1>1, <1>2, <1>3, <1>4 DEF IInv

LEMMA SeedWriteKeeps ==
    ASSUME IInv, NEW config \in Offered, SeedWrite(config) PROVE IInv'
<1>. USE DEF SeedWrite, GoTo
<1>0. pc = "seeding" /\ pc' \in {"seed_reload", "idle"} /\ used' = used + 1 /\ used' \in Written
  BY Names DEF IInv, TypeOK, Written
<1>1. used' \in Release /\ config \in Config
  BY <1>0, SpecialNames, ApplyAssumption DEF ApplyAssumption
<1>2. TypeOK'
  BY <1>0, <1>1 DEF IInv, TypeOK, StoreTypeOK, SupTypeOK, Link, Written, supVars
<1>3. FreshIds'
  BY <1>0, <1>1, Names DEF IInv, FreshIds, TypeOK, StoreTypeOK, Release, HaproxyPart, Written
<1>4. WrittenContent'
  BY <1>0, <1>1 DEF IInv, WrittenContent, TypeOK, StoreTypeOK, Written, Release
<1>5. CurrentResolves' /\ ActivatedIsValidated'
  BY <1>0, Names DEF IInv, CurrentResolves, ActivatedIsValidated
<1>6. pc' \notin ApplyStep /\ AnswerInPhase' /\ OutcomeIsTrue'
  BY <1>0 DEF IInv, ApplyStep, ApplyStatus, AnswerInPhase, OutcomeIsTrue
<1>. QED
  BY <1>2, <1>3, <1>4, <1>5, <1>6 DEF IInv

LEMMA SeedReloadKeeps == ASSUME IInv, SeedReload PROVE IInv'
<1>. USE DEF SeedReload, GoTo
<1>0. hap' \in Release \cup {Missing} /\ hap' \in {hap, HaproxyPart(current)}
  BY AfterHaproxyReload
<1>1. TypeOK'
  BY <1>0 DEF IInv, TypeOK, StoreTypeOK, SupTypeOK, storeVars, supVars
<1>2. FreshIds' /\ WrittenContent'
  BY SameStore DEF storeVars
<1>3. CurrentResolves' /\ ActivatedIsValidated'
  BY <1>0 DEF IInv, CurrentResolves, ActivatedIsValidated, storeVars
<1>4. pc' \notin ApplyStep /\ AnswerInPhase' /\ OutcomeIsTrue'
  BY DEF IInv, ApplyStep, ApplyStatus, AnswerInPhase, OutcomeIsTrue
<1>. QED
  BY <1>1, <1>2, <1>3, <1>4 DEF IInv

\* A reload that is not part of an apply leaves HAProxy on the release that
\* the last answer speaks of.
LEMMA GeoipReloadKeeps == ASSUME IInv, GeoipReload PROVE IInv'
<1>. USE DEF GeoipReload
<1>0. /\ hap' \in Release \cup {Missing} /\ hap' \in {hap, HaproxyPart(current)}
  BY AfterHaproxyReload
<1>1. TypeOK'
  BY <1>0 DEF IInv, TypeOK, StoreTypeOK, SupTypeOK, storeVars, supVars
<1>2. FreshIds' /\ WrittenContent'
  BY SameStore DEF storeVars
<1>3. CurrentResolves' /\ ActivatedIsValidated'
  BY <1>0 DEF IInv, CurrentResolves, ActivatedIsValidated, storeVars
<1>4. HaproxyPart(used) = used
  BY Names DEF IInv, TypeOK, Written, Seed
<1>5. pc' \notin ApplyStep /\ AnswerInPhase' /\ OutcomeIsTrue'
  BY <1>0, <1>4 DEF IInv, ApplyStep, ApplyStatus, AnswerInPhase, OutcomeIsTrue, CurrentIsPrev,
                    storeVars, cand
<1>. QED
  BY <1>1, <1>2, <1>3, <1>5 DEF IInv

LEMMA HaproxyStartKeeps == ASSUME IInv, HaproxyStart PROVE IInv'
<1>. USE DEF HaproxyStart
<1>0. dirs' \subseteq dirs \cup {Seed} /\ dirs \subseteq dirs' /\ UNCHANGED <<content, used>>
  OBVIOUS
<1>1. FreshIds' /\ WrittenContent' /\ dirs' \subseteq Release
  BY <1>0, FewerDirs
<1>2. current = Missing => current' = Seed /\ hap' = Seed
  BY Names DEF IInv, TypeOK, StoreTypeOK
<1>3. current # Missing => hap' = HaproxyPart(current) /\ UNCHANGED <<dirs, current>>
  BY DEF IInv, CurrentResolves
<1>4. HaproxyPart(current) \in Release \cup {Missing}
  BY Names, SpecialNames DEF IInv, TypeOK, StoreTypeOK
<1>5. TypeOK'
  BY <1>1, <1>2, <1>3, <1>4, SpecialNames DEF IInv, TypeOK, StoreTypeOK, SupTypeOK, supVars
<1>6. CurrentResolves' /\ ActivatedIsValidated'
  BY <1>2, <1>3, Names DEF IInv, CurrentResolves, ActivatedIsValidated
<1>7. (NeedsBridge <=> NeedsBridge') /\ Swapped' = Swapped
  BY SamePair
<1>8. pc' \in ApplyStep => ReleasesKept' /\ LinkInPhase' /\ HaproxyInPhase'
  <2>. SUFFICES ASSUME pc' \in ApplyStep PROVE ReleasesKept' /\ LinkInPhase' /\ HaproxyInPhase'
    OBVIOUS
  <2>1. pc \in ApplyStep
    OBVIOUS
  <2>2. ReleasesKept'
    BY <1>0, <1>7, <2>1, InApply DEF ReleasesKept, cand
  <2>3. LinkInPhase'
    BY <1>2, <1>3, <1>7, <2>1, InApply
       DEF LinkInPhase, CurrentIsPrev, cand, Switched, OnCandidate, BeforeSwap, BackOnPrev
  <2>4. HaproxyInPhase'
    BY <1>2, <1>3, <2>1, InApply DEF HaproxyInPhase, LinkInPhase, cand, Switched, OnCandidate
  <2>. QED
    BY <2>2, <2>3, <2>4
<1>9. HaproxyPart(used) = used /\ used # Missing
  BY Names DEF IInv, TypeOK, Written, Seed
<1>10. AnswerInPhase' /\ OutcomeIsTrue'
  BY <1>2, <1>3, <1>9 DEF IInv, AnswerInPhase, OutcomeIsTrue, CurrentIsPrev, ApplyStatus, cand
<1>. QED
  BY <1>1, <1>5, <1>6, <1>8, <1>10 DEF IInv

LEMMA SupNextKeeps == ASSUME IInv, SupNext, UNCHANGED applyVars PROVE IInv'
<1>1. SupTypeOK' /\ UNCHANGED storeVars
  BY SupStep DEF IInv, TypeOK
<1>. QED
  BY <1>1 DEF IInv, TypeOK, StoreTypeOK, FreshIds, WrittenContent, CurrentResolves,
              ActivatedIsValidated, ReleasesKept, LinkInPhase, HaproxyInPhase, AnswerInPhase,
              OutcomeIsTrue, CurrentIsPrev, NeedsBridge, Swapped, Added, Retired, AppNames, cand,
              storeVars, applyVars

-----------------------------------------------------------------------------
\* The theorems

LEMMA NextKeepsIInv == IInv /\ [Next]_vars => IInv'
<1>. SUFFICES ASSUME IInv, [Next]_vars PROVE IInv'
  OBVIOUS
<1>1. CASE \E config \in Offered : ApplyBegin(config)
  BY <1>1, ApplyBeginKeeps
<1>2. CASE ApplyContinue
  BY <1>2, ApplyValidateKeeps, WriteBridgeKeeps, ApplySwapKeeps, AwaitReloadKeeps, AwaitAppsKeeps,
     ApplyReloadKeeps, LeaveBridgeKeeps, RemoveBridgeKeeps, AwaitDropKeeps, RollbackKeeps,
     RollbackReloadKeeps, RestoreKeeps, CleanupKeeps
     DEF ApplyContinue
<1>3. CASE Startup
  BY <1>3, BackendStartKeeps, SeedKeepKeeps, SeedReloadKeeps, SeedWriteKeeps DEF Startup
<1>4. CASE BackendCrash
  BY <1>4, BackendCrashKeeps
<1>5. CASE GeoipReload
  BY <1>5, GeoipReloadKeeps
<1>6. CASE HaproxyStart
  BY <1>6, HaproxyStartKeeps
<1>7. CASE SupNext /\ CorazaMayRun /\ UNCHANGED applyVars
  BY <1>7, SupNextKeeps
<1>8. CASE UNCHANGED vars
  BY <1>8
     DEF IInv, TypeOK, SupTypeOK, StoreTypeOK, FreshIds, WrittenContent, CurrentResolves,
         ActivatedIsValidated, ReleasesKept, LinkInPhase, HaproxyInPhase, AnswerInPhase,
         OutcomeIsTrue, CurrentIsPrev, NeedsBridge, Swapped, Added, Retired, AppNames, cand,
         vars, storeVars, supVars, applyVars
<1>. QED
  BY <1>1, <1>2, <1>3, <1>4, <1>5, <1>6, <1>7, <1>8 DEF Next

\* The inductive invariant holds in every reachable state of the pipeline,
\* for every number of releases and under every fault of the model.
THEOREM Inductive == Spec => []IInv
<1>. QED
  BY InitIInv, NextKeepsIInv, PTL DEF Spec

\* Type correctness.
THEOREM TypeCorrect == Spec => []TypeOK
<1>1. IInv => TypeOK
  BY DEF IInv
<1>. QED
  BY <1>1, Inductive, PTL

\* The `current` link never dangles: apply, rollback, cleanup and startup
\* remove a directory only after the link has left it.
THEOREM LinkResolves == Spec => []CurrentResolves
<1>1. IInv => CurrentResolves
  BY DEF IInv
<1>. QED
  BY <1>1, Inductive, PTL

\* HAProxy never runs, and would never start with, a configuration that
\* `haproxy -c` has not accepted.
THEOREM OnlyValidatedRuns == Spec => []ActivatedIsValidated
<1>1. IInv => ActivatedIsValidated
  BY DEF IInv
<1>. QED
  BY <1>1, Inductive, PTL

\* The status apply returns describes what `current` and HAProxy are on.
THEOREM AnswerIsTrue == Spec => []OutcomeIsTrue
<1>1. IInv => OutcomeIsTrue
  BY DEF IInv
<1>. QED
  BY <1>1, Inductive, PTL

-----------------------------------------------------------------------------
\* The pipeline implements the abstract switch

LEMMA InitSwitch == Init => Promise!SSInit
BY Names DEF Init, StoreInit, SupInit, Promise!SSInit, ApplyStep, Answered, cand, Seed

\* A step that ends an apply, by the answer it gives.
LEMMA EndSwitch ==
    ASSUME IInv, IInv', pc \in ApplyStep, pc' = "idle", outcome' # "none",
           UNCHANGED <<current, used, prev>>,
           hap' \in {hap, HaproxyPart(current)}
    PROVE  Promise!End
<1>1. pc' \notin ApplyStep
  BY DEF ApplyStep
<1>2. outcome' = "success" => HaproxyPart(current) = cand /\ hap' = cand
  BY InApply DEF IInv, OutcomeIsTrue, cand
<1>3. outcome' \in ApplyStatus \ {"success", "rollback_failed"} =>
         /\ HaproxyPart(current) \in {HaproxyPart(prev), Seed}
         /\ HaproxyPart(current) # HaproxyPart(prev) => HaproxyPart(prev) = Missing
  BY Names DEF IInv, OutcomeIsTrue, CurrentIsPrev
<1>4. outcome' \in ApplyStatus
  BY DEF IInv, TypeOK
<1>. QED
  BY <1>1, <1>2, <1>3, <1>4 DEF Promise!End, Answered, cand

\* A step within an apply that leaves HAProxy and the active release alone.
LEMMA SilentSwitch ==
    ASSUME pc \in ApplyStep, pc' \in ApplyStep, UNCHANGED <<used, prev, hap>>,
           HaproxyPart(current') = HaproxyPart(current)
    PROVE  UNCHANGED Promise!ssVars
BY DEF Promise!ssVars, Answered, cand

\* A step within an apply that moves the link to its target or back.
LEMMA ActivateSwitch ==
    ASSUME pc \in ApplyStep, pc' \in ApplyStep, UNCHANGED <<used, prev, hap>>,
           HaproxyPart(current') \in {cand, HaproxyPart(prev)}
    PROVE  Promise!Activate
BY DEF Promise!Activate, Answered, cand

\* A step that reloads HAProxy, without ending an apply.
LEMMA LoadSwitch ==
    ASSUME IInv, pc \in ApplyStep <=> pc' \in ApplyStep, Answered' = Answered,
           UNCHANGED <<current, used, prev>>,
           hap' = hap \/ (current # Missing /\ hap' = HaproxyPart(current))
    PROVE  Promise!Load \/ UNCHANGED Promise!ssVars
<1>1. current # Missing => HaproxyPart(current) # Missing
  BY Names DEF IInv, TypeOK, StoreTypeOK, Link, Release, HaproxyPart
<1>. QED
  BY <1>1 DEF Promise!Load, Promise!ssVars, cand

LEMMA ContinueSwitch ==
    ASSUME IInv, IInv', ApplyContinue PROVE Promise!SSNext \/ UNCHANGED Promise!ssVars
<1>. USE DEF GoTo, Return, Conclude, ApplyStep, storeVars
<1>1. CASE ApplyValidate
  BY <1>1, EndSwitch, SilentSwitch DEF ApplyValidate, Promise!SSNext
<1>2. CASE WriteBridge
  BY <1>2, EndSwitch, SilentSwitch DEF WriteBridge, Promise!SSNext
<1>3. CASE ApplySwap
  BY <1>3, InApply, ActivateSwitch DEF ApplySwap, AfterPreload, Promise!SSNext
<1>4. CASE AwaitReload
  BY <1>4, SilentSwitch DEF AwaitReload, AfterPreload
<1>5. CASE AwaitApps
  BY <1>5, SilentSwitch DEF AwaitApps
<1>6. CASE ApplyReload
  <2>1. PICK result \in CanReload : HaproxyReload(result) /\ reloadOk' = (result = "ok")
    BY <1>6 DEF ApplyReload
  <2>2. hap' = hap \/ (current # Missing /\ hap' = HaproxyPart(current))
    BY <2>1, AfterHaproxyReload
  <2>3. CASE pc' = "idle"
    BY <1>6, <2>2, <2>3, EndSwitch DEF ApplyReload, AfterReload, Promise!SSNext
  <2>4. CASE pc' # "idle"
    <3>1. pc \in ApplyStep /\ pc' \in ApplyStep /\ UNCHANGED <<current, used, prev>>
      BY <1>6, <2>4 DEF ApplyReload, AfterReload
    <3>. QED
      BY <2>2, <3>1, LoadSwitch DEF Answered, Promise!SSNext
  <2>. QED
    BY <2>3, <2>4
<1>7. CASE LeaveBridge
  BY <1>7, InApply, SilentSwitch DEF LeaveBridge, LinkInPhase, Switched
<1>8. CASE RemoveBridge
  BY <1>8, EndSwitch, SilentSwitch DEF RemoveBridge, AfterReload, Promise!SSNext
<1>9. CASE AwaitDrop
  BY <1>9, EndSwitch, SilentSwitch DEF AwaitDrop, Promise!SSNext
<1>10. CASE Rollback
  BY <1>10, EndSwitch, SilentSwitch, ActivateSwitch DEF Rollback, Promise!SSNext
<1>11. CASE RollbackReload
  <2>1. PICK result \in CanReload : HaproxyReload(result)
    BY <1>11 DEF RollbackReload
  <2>2. hap' = hap \/ (current # Missing /\ hap' = HaproxyPart(current))
    BY <2>1, AfterHaproxyReload
  <2>3. CASE pc' = "idle"
    <3>1. outcome' # "none" /\ pc \in ApplyStep /\ UNCHANGED <<current, used, prev>>
      BY <1>11, <2>3 DEF RollbackReload
    <3>. QED
      BY <2>2, <2>3, <3>1, EndSwitch DEF Promise!SSNext
  <2>4. CASE pc' # "idle"
    <3>1. pc \in ApplyStep /\ pc' \in ApplyStep /\ UNCHANGED <<current, used, prev>>
      BY <1>11, <2>4 DEF RollbackReload
    <3>. QED
      BY <2>2, <3>1, LoadSwitch DEF Answered, Promise!SSNext
  <2>. QED
    BY <2>3, <2>4
<1>12. CASE Restore
  BY <1>12, ActivateSwitch DEF Restore, Promise!SSNext
<1>13. CASE Cleanup
  BY <1>13, EndSwitch DEF Cleanup, Promise!SSNext, IInv, AnswerInPhase
<1>. QED
  BY <1>1, <1>2, <1>3, <1>4, <1>5, <1>6, <1>7, <1>8, <1>9, <1>10, <1>11, <1>12, <1>13
     DEF ApplyContinue

\* A new correlation id is none of the releases in use.
LEMMA FreshSwitch ==
    ASSUME IInv, used < MaxReleases
    PROVE  used + 1 \in Written \ {HaproxyPart(current), hap, used}
<1>1. used + 1 \in Written
  BY Names DEF IInv, TypeOK, Written
<1>2. HaproxyPart(current) <= used
  BY Names DEF IInv, FreshIds, CurrentResolves, TypeOK, Missing
<1>3. hap <= used
  BY Names DEF IInv, FreshIds, ActivatedIsValidated, TypeOK, Missing, Seed
<1>. QED
  BY <1>1, <1>2, <1>3 DEF IInv, TypeOK

LEMMA StartupSwitch ==
    ASSUME IInv, IInv', Startup PROVE Promise!SSNext \/ UNCHANGED Promise!ssVars
<1>. USE DEF GoTo
<1>0. pc \notin ApplyStep /\ pc' \notin ApplyStep /\ outcome = "none" /\ outcome' = "none"
  BY DEF Startup, BackendStart, SeedKeep, SeedWrite, SeedReload, ApplyStep, IInv, AnswerInPhase
<1>1. Answered = "none" /\ Answered' = "none"
  BY <1>0 DEF Answered
<1>2. CASE BackendStart
  BY <1>0, <1>1, <1>2, Names
     DEF BackendStart, Promise!SSNext, Promise!Replace, Promise!ssVars, IInv, CurrentResolves, cand
<1>3. CASE SeedKeep
  BY <1>0, <1>1, <1>3 DEF SeedKeep, Promise!ssVars, storeVars, cand
<1>4. CASE \E config \in Offered : SeedWrite(config)
  <2>1. HaproxyPart(current) \in {Missing, Seed}
    BY <1>4, Names DEF SeedWrite, IInv, CurrentResolves
  <2>2. used' = used + 1 /\ HaproxyPart(current') = used + 1
    BY <1>4, FreshSwitch, Names DEF SeedWrite
  <2>. QED
    BY <1>0, <1>1, <1>4, <2>1, <2>2, FreshSwitch
       DEF SeedWrite, Promise!SSNext, Promise!Replace, cand
<1>5. CASE SeedReload
  <2>1. hap' = hap \/ (current # Missing /\ hap' = HaproxyPart(current))
    BY <1>5, AfterHaproxyReload DEF SeedReload
  <2>. QED
    BY <1>0, <1>1, <1>5, <2>1, LoadSwitch DEF SeedReload, Promise!SSNext, storeVars
<1>. QED
  BY <1>2, <1>3, <1>4, <1>5 DEF Startup

LEMMA StepSwitch == IInv /\ IInv' /\ [Next]_vars => [Promise!SSNext]_Promise!ssVars
<1>. SUFFICES ASSUME IInv, IInv', [Next]_vars
              PROVE  Promise!SSNext \/ UNCHANGED Promise!ssVars
  OBVIOUS
<1>1. CASE \E config \in Offered : ApplyBegin(config)
  <2>1. pc \notin ApplyStep /\ used < MaxReleases /\ used' = used + 1 /\ prev' = current
    BY <1>1 DEF ApplyBegin, ApplyStep, IInv, CurrentResolves
  <2>2. \/ pc' \in ApplyStep /\ Answered' = "none"
        \/ pc' \notin ApplyStep /\ Answered' = "kept"
    BY <1>1 DEF ApplyBegin, GoTo, Return, Conclude, ApplyStep, Answered
  <2>. QED
    BY <1>1, <2>1, <2>2, FreshSwitch DEF ApplyBegin, Promise!Begin, Promise!SSNext, cand
<1>2. CASE ApplyContinue
  BY <1>2, ContinueSwitch
<1>3. CASE Startup
  BY <1>3, StartupSwitch
<1>4. CASE BackendCrash
  BY <1>4
     DEF BackendCrash, Conclude, Promise!Interrupt, Promise!SSNext, ApplyStep, Answered, storeVars,
         cand
<1>5. CASE GeoipReload
  <2>1. hap' = hap \/ (current # Missing /\ hap' = HaproxyPart(current))
    BY <1>5, AfterHaproxyReload DEF GeoipReload
  <2>2. UNCHANGED <<pc, outcome, current, used, prev>>
    BY <1>5 DEF GeoipReload, storeVars
  <2>. QED
    BY <2>1, <2>2, LoadSwitch DEF Answered, Promise!SSNext
<1>6. CASE HaproxyStart
  <2>1. Answered' = Answered /\ UNCHANGED <<pc, used, prev>>
    BY <1>6 DEF HaproxyStart, Answered
  <2>2. CASE current = Missing
    BY <1>6, <2>1, <2>2, Names
       DEF HaproxyStart, Promise!Load, Promise!SSNext, IInv, TypeOK, StoreTypeOK, cand
  <2>3. CASE current # Missing
    <3>1. UNCHANGED current /\ hap' = HaproxyPart(current)
      BY <1>6, <2>3 DEF HaproxyStart, IInv, CurrentResolves
    <3>. QED
      BY <2>1, <2>3, <3>1, LoadSwitch DEF Promise!SSNext
  <2>. QED
    BY <2>2, <2>3
<1>7. CASE SupNext /\ CorazaMayRun /\ UNCHANGED applyVars
  <2>1. UNCHANGED storeVars
    BY <1>7, SupStep DEF IInv, TypeOK
  <2>. QED
    BY <1>7, <2>1 DEF Promise!ssVars, Answered, storeVars, applyVars, cand
<1>8. CASE UNCHANGED vars
  BY <1>8 DEF Promise!ssVars, Answered, vars, storeVars, applyVars, cand
<1>. QED
  BY <1>1, <1>2, <1>3, <1>4, <1>5, <1>6, <1>7, <1>8 DEF Next

\* POST /config/apply keeps its promise (SafeSwitch) in every behaviour of the
\* pipeline: only the requested or the previous release is ever active, HAProxy
\* takes up nothing but the active release, and the answer is true.
THEOREM PipelineImplementsSwitch == Spec => ImplementsSwitch
<1>1. Spec => []IInv
  BY Inductive
<1>. QED
  BY <1>1, InitSwitch, StepSwitch, PTL DEF Spec, ImplementsSwitch, Promise!SSSpec

-----------------------------------------------------------------------------
\* HAProxy after a failure of Coraza.  It needs an invariant of its own, and a
\* HAProxy that is up before the first apply and is not restarted during one: a
\* start between the swap and the restore runs the release that is taken back.

NotYetReloaded == BeforeSwap \cup {"await_reload", "await_apps", "reload"}

HaproxyKept ==
    /\ pc \in ApplyStep => hap # Missing
    /\ pc \in NotYetReloaded => hap # cand
    /\ pc = "await_drop" => prev # Missing
    /\ pc \in ApplyStep /\ corazaLate => prev # Missing
    /\ pc \in {"restore", "cleanup", "idle"} /\ outcome = "coraza_reload_failed" =>
          hap # cand /\ HaproxyPart(prev) # cand /\ cand # Seed

\* The previous release is not the candidate, not even through its bridge.
LEMMA PrevIsNotCand ==
    ASSUME IInv, pc \in ApplyStep PROVE HaproxyPart(prev) # cand /\ cand # Seed
<1>1. prev \in Int /\ cand \in Int /\ MaxReleases \in Int
  BY InApply, Names DEF IInv, TypeOK, Link, Release, Written
<1>2. prev # cand /\ prev # BridgeOf(cand) /\ cand # Seed
  BY InApply DEF ReleasesKept
<1>. QED
  BY <1>1, <1>2 DEF HaproxyPart, BridgeOf

LEMMA ContinueKeepsHaproxy ==
    ASSUME IInv, HaproxyKept, ApplyContinue PROVE HaproxyKept'
<1>. USE PrevIsNotCand, InApply
     DEF GoTo, Return, Conclude, ApplyStep, NotYetReloaded, BeforeSwap, HaproxyKept, cand, storeVars
<1>0. Retired # {} => prev # Missing
  BY DEF Retired, AppNames
<1>1. CASE ApplyValidate
  BY <1>1 DEF ApplyValidate
<1>2. CASE WriteBridge
  BY <1>2 DEF WriteBridge
<1>3. CASE ApplySwap
  BY <1>3 DEF ApplySwap, AfterPreload
<1>4. CASE AwaitReload
  BY <1>4 DEF AwaitReload, AfterPreload
<1>5. CASE AwaitApps
  BY <1>5 DEF AwaitApps
<1>6. CASE ApplyReload
  <2>1. PICK result \in CanReload : HaproxyReload(result)
    BY <1>6 DEF ApplyReload
  <2>2. hap' \in {hap, HaproxyPart(current)} /\ hap' # Missing
    BY <1>6, <2>1, AfterHaproxyReload, Names
       DEF ApplyReload, IInv, TypeOK, StoreTypeOK, Link, Release, HaproxyPart
  <2>. QED
    BY <1>0, <1>6, <2>2 DEF ApplyReload, AfterReload, DropsAppsOnly
<1>7. CASE LeaveBridge
  BY <1>7 DEF LeaveBridge
<1>8. CASE RemoveBridge
  BY <1>0, <1>8 DEF RemoveBridge, AfterReload, DropsAppsOnly
<1>9. CASE AwaitDrop
  BY <1>9 DEF AwaitDrop
<1>10. CASE Rollback
  BY <1>10 DEF Rollback
<1>11. CASE RollbackReload
  <2>1. PICK result \in CanReload :
           /\ HaproxyReload(result)
           /\ CASE result # "ok" -> Return("rollback_failed")
                [] result = "ok" /\ corazaLate -> Conclude("cleanup", "coraza_reload_failed")
                [] OTHER -> Return("reload_failed_rolled_back")
    BY <1>11 DEF RollbackReload
  <2>2. hap # Missing /\ hap' \in {hap, HaproxyPart(current)} /\ hap' # Missing
    BY <1>11, <2>1, AfterHaproxyReload, Names
       DEF RollbackReload, IInv, TypeOK, StoreTypeOK, Link, Release, HaproxyPart
  <2>3. result = "ok" => hap' = HaproxyPart(prev)
    BY <1>11, <2>1, AfterHaproxyReload DEF RollbackReload, LinkInPhase, BackOnPrev, CurrentIsPrev
  <2>. QED
    BY <1>11, <2>1, <2>2, <2>3 DEF RollbackReload
<1>12. CASE Restore
  BY <1>12 DEF Restore
<1>13. CASE Cleanup
  BY <1>13 DEF Cleanup
<1>. QED
  BY <1>1, <1>2, <1>3, <1>4, <1>5, <1>6, <1>7, <1>8, <1>9, <1>10, <1>11, <1>12, <1>13
     DEF ApplyContinue

LEMMA NextKeepsHaproxy ==
    ASSUME StartsInOrder, ~HaproxyMayRestart, IInv, HaproxyKept, [Next]_vars
    PROVE  HaproxyKept'
<1>1. CASE \E config \in Offered : ApplyBegin(config)
  <2>1. UNCHANGED hap /\ used' = used + 1 /\ used < MaxReleases /\ hap # Missing
    BY <1>1 DEF ApplyBegin, StackIsUp
  <2>2. pc' \in {"validate", "idle"} /\ (pc' = "idle" => outcome' = "write_failed") /\ ~corazaLate'
    BY <1>1 DEF ApplyBegin, GoTo, Return, Conclude
  <2>. QED
    BY <2>1, <2>2, FreshSwitch DEF HaproxyKept, NotYetReloaded, BeforeSwap, ApplyStep, cand
<1>2. CASE ApplyContinue
  BY <1>2, ContinueKeepsHaproxy
<1>3. CASE Startup
  BY <1>3
     DEF Startup, BackendStart, SeedKeep, SeedWrite, SeedReload, GoTo, IInv, AnswerInPhase,
         HaproxyKept, NotYetReloaded, BeforeSwap, ApplyStep
<1>4. CASE BackendCrash
  BY <1>4 DEF BackendCrash, Conclude, HaproxyKept, NotYetReloaded, BeforeSwap, ApplyStep
<1>5. CASE GeoipReload
  <2>1. hap' \in {hap, HaproxyPart(current)}
    BY <1>5, AfterHaproxyReload DEF GeoipReload
  <2>2. outcome = "coraza_reload_failed" => HaproxyPart(current) \in {HaproxyPart(prev), Seed}
    BY <1>5, Names DEF GeoipReload, IInv, OutcomeIsTrue, CurrentIsPrev, ApplyStatus
  <2>. QED
    BY <1>5, <2>1, <2>2
       DEF GeoipReload, HaproxyKept, NotYetReloaded, BeforeSwap, ApplyStep, cand, storeVars
<1>6. CASE HaproxyStart
  <2>1. hap = Missing /\ hap' \in {Seed, HaproxyPart(current)}
    BY <1>6 DEF HaproxyStart
  <2>2. pc = "idle" /\ outcome = "coraza_reload_failed" =>
           HaproxyPart(current) \in {HaproxyPart(prev), Seed}
    BY Names DEF IInv, OutcomeIsTrue, CurrentIsPrev, ApplyStatus
  <2>. QED
    BY <1>6, <2>1, <2>2
       DEF HaproxyStart, HaproxyKept, NotYetReloaded, BeforeSwap, ApplyStep, cand
<1>7. CASE SupNext /\ CorazaMayRun /\ UNCHANGED applyVars
  BY <1>7 DEF applyVars, HaproxyKept, cand
<1>8. CASE UNCHANGED vars
  BY <1>8 DEF vars, applyVars, HaproxyKept, cand
<1>. QED
  BY <1>1, <1>2, <1>3, <1>4, <1>5, <1>6, <1>7, <1>8 DEF Next

\* When Coraza rejects a release or stays silent, HAProxy is not left running
\* it: it was not reloaded yet, or it was reloaded back onto the previous one.
THEOREM RejectedReleaseIsLeft ==
    ASSUME StartsInOrder, ~HaproxyMayRestart
    PROVE  Spec => []CorazaFailureKeepsHaproxy
<1>1. Init => HaproxyKept
  BY DEF Init, HaproxyKept, NotYetReloaded, BeforeSwap, ApplyStep
<1>2. IInv /\ HaproxyKept /\ [Next]_vars => HaproxyKept'
  BY NextKeepsHaproxy
<1>3. HaproxyKept => CorazaFailureKeepsHaproxy
  BY DEF HaproxyKept, CorazaFailureKeepsHaproxy
<1>. QED
  BY <1>1, <1>2, <1>3, Inductive, PTL DEF Spec

-----------------------------------------------------------------------------
\* The names HAProxy sends.  As long as the containers stay up and a reload
\* switches HAProxy, whether or not its answer arrives, HAProxy is known to be on
\* the previous release or on the candidate at each step, so that the names
\* Coraza must serve are known, too.

OnPrevious ==
    {"validate", "bridge", "swap", "await_reload", "await_apps", "reload", "restore", "cleanup"}
DropReloaded == {"await_drop", "rollback", "rollback_reload"}
BridgeInUse == {"swap", "await_reload", "await_apps", "reload", "leave_bridge", "restore"}
Placed == {Seed} \cup Written

HaproxyInOrder ==
    /\ pc \in {"down", "seeding"} => hap = Missing /\ spoa = "dead"
    /\ pc # "seed_reload"
    /\ pc \notin ApplyStep => current \in Placed \cup {Missing} /\ hap \in {Missing, current}
    /\ pc \in ApplyStep =>
          /\ prev \in Placed
          /\ hap = IF pc \in OnPrevious THEN prev ELSE cand

\* No answer of a reload is lost.
AllAnswered == ReloadOutcomes = {"ok"}

\* Which kind of an apply comes to which step.
StepsInOrder ==
    /\ pc = "await_drop" => DropsAppsOnly
    /\ pc \in {"leave_bridge", "remove_bridge"} => NeedsBridge
    /\ AllAnswered =>
          /\ pc \in DropReloaded => DropsAppsOnly
          /\ pc \in {"leave_bridge", "remove_bridge"} => reloadOk
    /\ pc \in {"await_reload", "await_apps", "restore"} => ~DropsAppsOnly
    /\ pc = "restore" => current = Swapped

\* A bridge serves the names of both releases, and what Coraza has loaded is
\* not written again.
ContentInOrder ==
    /\ content[Seed] = SeedConfig
    /\ pc \in BridgeInUse /\ NeedsBridge =>
          /\ AppNames(BridgeOf(cand)) = AppNames(cand) \cup Retired
          /\ content[BridgeOf(cand)].rules \in Rules
    /\ HaproxyPart(loaded) <= used
    /\ pc \in BeforeSwap => HaproxyPart(loaded) # cand

\* While HAProxy sends names, or is about to, coraza-spoa runs on the generated
\* config file; the names an apply adds are loaded when it comes to the reload.
\* Before the reload of a rollback, what counts is what will be sent after it.
NamesInUse ==
    \/ SentNames(hap) # {} /\ pc # "rollback_reload"
    \/ AppNames(prev) # {} /\ pc \in DropReloaded
    \/ Added # {} /\ pc = "reload"

CorazaInOrder ==
    /\ spoa = "listening" /\ spoaConfig = "fallback" => loaded = Seed
    /\ spoa # "dead" /\ NamesInUse => spoaConfig = "generated"
    /\ hap = Missing /\ spoa # "dead" => spoaConfig = SelectedConfig
    /\ hap = Missing /\ spoa = "listening" => AppNames(current) \subseteq AppNames(loaded)
    /\ pc = "reload" /\ spoa = "listening" => Added \subseteq AppNames(loaded)

SInv == HaproxyInOrder /\ StepsInOrder /\ ContentInOrder /\ CorazaInOrder

\* HAProxy and the backend stay up, and HAProxy loads what it is told to.
\* Whether its answer arrives is open, and Coraza may crash.
Reliable ==
    /\ StartsInOrder /\ ~BackendMayCrash /\ ~HaproxyMayRestart
    /\ "refused" \notin ReloadOutcomes

LEMMA InitSInv == Init => SInv
BY Names
   DEF Init, StoreInit, SupInit, SInv, HaproxyInOrder, StepsInOrder, ContentInOrder,
       CorazaInOrder, NamesInUse, DropReloaded, BridgeInUse, BeforeSwap, ApplyStep, Seed, Missing,
       SentNames, AppNames, Release, Placed

\* A release that is placed is no bridge.
LEMMA PlacedReleases ==
    /\ Missing \notin Placed /\ Placed \subseteq Release
    /\ \A r \in Placed \cup {Missing} : HaproxyPart(r) = r
    /\ \A r \in Placed : r <= MaxReleases
BY Names, SpecialNames DEF Placed, Written, HaproxyPart, Seed, Missing

\* What is known of the two releases of an apply and of HAProxy's.
LEMMA PairInOrder ==
    ASSUME IInv, SInv, pc \in ApplyStep
    PROVE  /\ prev \in Placed /\ prev \in dirs /\ prev # Missing /\ prev # cand
           /\ cand \in Written /\ content[cand] \in Config /\ content[cand].rules # NoRules
           /\ hap \in {prev, cand} /\ HaproxyPart(hap) = hap /\ hap # Missing
           /\ SentNames(hap) = AppNames(hap)
           /\ AppNames(prev) # {} => content[prev].rules # NoRules
<1>1. /\ prev \in Placed /\ prev \in dirs /\ prev # Missing /\ prev # cand
      /\ cand \in Written /\ cand \in 1 .. used
  BY InApply, PlacedReleases DEF SInv, HaproxyInOrder, ReleasesKept, Written, cand
<1>2. hap \in {prev, cand} /\ HaproxyPart(hap) = hap /\ hap # Missing
  BY <1>1, InApply, PlacedReleases DEF SInv, HaproxyInOrder
<1>3. content[cand] \in Config /\ content[cand].rules # NoRules
  BY <1>1, StoreAssumption DEF IInv, WrittenContent, Config, StoreAssumption
<1>4. content[prev] \in Config \cup {SeedConfig}
  BY <1>1, PlacedReleases DEF IInv, TypeOK, StoreTypeOK
<1>5. AppNames(prev) # {} => content[prev].rules # NoRules
  BY <1>1, <1>4, StoreAssumption DEF AppNames, Config, SeedConfig, StoreAssumption
<1>. QED
  BY <1>1, <1>2, <1>3, <1>5 DEF SentNames

\* The release `current` is switched to serves the candidate's names and, unless
\* the apply only drops names, those of the previous release.
LEMMA SwappedServes ==
    ASSUME IInv, SInv, pc \in BridgeInUse
    PROVE  /\ AppNames(cand) \subseteq AppNames(Swapped)
           /\ ~DropsAppsOnly => AppNames(prev) \subseteq AppNames(Swapped)
           /\ content[Swapped].rules # NoRules /\ Swapped \in Release
<1>1. pc \in ApplyStep
  BY DEF BridgeInUse, ApplyStep
<1>2. CASE NeedsBridge
  <2>1. Swapped = BridgeOf(cand) /\ Swapped \in Release /\ content[Swapped].rules # NoRules
        /\ AppNames(Swapped) = AppNames(cand) \cup Retired
    BY <1>1, <1>2, InApply, StoreAssumption DEF SInv, ContentInOrder, StoreAssumption
  <2>. QED
    BY <2>1 DEF Retired
<1>3. CASE ~NeedsBridge
  BY <1>1, <1>3, InApply, PairInOrder DEF DropsAppsOnly, Retired
<1>. QED
  BY <1>2, <1>3

\* `current` serves the names HAProxy sends, except between the switch of
\* `current` and the reload of an apply that only drops names, or of the rollback
\* of one that adds some.
OnItsWay ==
    \/ DropsAppsOnly /\ pc = "reload"
    \/ ~DropsAppsOnly /\ pc = "rollback_reload"

LEMMA CurrentServes ==
    ASSUME IInv, SInv, hap # Missing, ~OnItsWay
    PROVE  /\ current \in dirs /\ current \in Release
           /\ SentNames(hap) \subseteq AppNames(current)
<1>0. current # Missing => current \in dirs /\ current \in Release
  BY DEF IInv, CurrentResolves, TypeOK, StoreTypeOK, Link
<1>1. CASE pc \notin ApplyStep
  BY <1>0, <1>1, PlacedReleases DEF SInv, HaproxyInOrder, SentNames
<1>2. CASE pc \in BeforeSwap \cup {"cleanup"}
  <2>1. pc \in ApplyStep /\ hap = prev /\ current = prev
    BY <1>2, InApply, PairInOrder
       DEF ApplyStep, BeforeSwap, BackOnPrev, LinkInPhase, CurrentIsPrev, SInv, HaproxyInOrder,
           OnPrevious
  <2>. QED
    BY <1>0, <2>1, PairInOrder
<1>3. CASE pc \in {"await_reload", "await_apps", "reload", "restore", "leave_bridge"}
  <2>1. pc \in ApplyStep /\ pc \in BridgeInUse
    BY <1>3 DEF ApplyStep, BridgeInUse
  <2>2. current = Swapped /\ current # Missing
    BY <1>3, <2>1, InApply DEF LinkInPhase, Switched, SInv, StepsInOrder
  <2>3. (pc = "leave_bridge" /\ hap = cand) \/ (~DropsAppsOnly /\ hap = prev)
    BY <1>3, <2>1 DEF SInv, HaproxyInOrder, StepsInOrder, OnPrevious, OnItsWay
  <2>. QED
    BY <1>0, <2>1, <2>2, <2>3, SwappedServes, PairInOrder
<1>4. CASE pc \in {"remove_bridge", "await_drop", "rollback"}
  <2>1. pc \in ApplyStep /\ current = cand /\ hap = cand
    BY <1>4, InApply
       DEF ApplyStep, LinkInPhase, OnCandidate, SInv, HaproxyInOrder, OnPrevious
  <2>. QED
    BY <1>0, <2>1, InApply, PairInOrder
<1>5. CASE pc = "rollback_reload"
  <2>1. pc \in ApplyStep
    BY <1>5 DEF ApplyStep
  <2>2. current = prev /\ hap = cand /\ Added = {}
    BY <1>5, <2>1, InApply, PairInOrder
       DEF LinkInPhase, BackOnPrev, CurrentIsPrev, SInv, HaproxyInOrder, OnPrevious,
           OnItsWay, DropsAppsOnly, NeedsBridge
  <2>. QED
    BY <1>0, <2>1, <2>2, PairInOrder DEF Added
<1>. QED
  BY <1>1, <1>2, <1>3, <1>4, <1>5 DEF ApplyStep, BeforeSwap

\* ... and it has the config file for them.
LEMMA CurrentIsGenerated ==
    ASSUME IInv, SInv, NamesInUse
    PROVE  SelectedConfig = "generated"
<1>1. hap # Missing
  BY PairInOrder, Names DEF NamesInUse, DropReloaded, ApplyStep, SentNames, AppNames
<1>2. CASE pc = "reload"
  <2>1. current = Swapped /\ current # Missing
    BY <1>2, InApply DEF LinkInPhase, Switched, ApplyStep
  <2>2. current \in dirs /\ content[current].rules # NoRules
    BY <1>2, <2>1, SwappedServes DEF IInv, CurrentResolves, BridgeInUse
  <2>. QED
    BY <2>2 DEF SelectedConfig, HasGeneratedYaml
<1>3. CASE SentNames(hap) # {} /\ pc \notin {"reload", "rollback_reload"}
  <2>1. current \in dirs /\ current \in Release /\ AppNames(current) # {}
    BY <1>1, <1>3, CurrentServes DEF OnItsWay
  <2>2. content[current] \in Config \cup {SeedConfig} /\ current # Missing
    BY <2>1, Names DEF IInv, TypeOK, StoreTypeOK
  <2>3. content[current].rules # NoRules
    BY <2>1, <2>2, StoreAssumption DEF AppNames, Config, SeedConfig, StoreAssumption
  <2>. QED
    BY <2>1, <2>3 DEF SelectedConfig, HasGeneratedYaml
<1>4. CASE AppNames(prev) # {} /\ pc \in DropReloaded
  <2>1. pc \in ApplyStep
    BY <1>4 DEF DropReloaded, ApplyStep
  <2>2. current \in {prev, cand}
    BY <1>4, <2>1, InApply, PairInOrder
       DEF DropReloaded, LinkInPhase, OnCandidate, BackOnPrev, CurrentIsPrev
  <2>3. current # Missing /\ content[current].rules # NoRules
    BY <1>4, <2>1, <2>2, PairInOrder, Names
  <2>. QED
    BY <2>3 DEF SelectedConfig, HasGeneratedYaml, IInv, CurrentResolves
<1>. QED
  BY <1>2, <1>3, <1>4 DEF NamesInUse

-----------------------------------------------------------------------------
\* Steps of the supervisor and of coraza-spoa

\* Whatever coraza-spoa loads serves what is sent to it, or is about to be.
LEMMA LoadServes ==
    ASSUME IInv, SInv, spoa # "dead", NEW r, r = LoadResult(spoaConfig), r # Missing
    PROVE  /\ spoaConfig = "fallback" => r = Seed
           /\ HaproxyPart(r) <= used
           /\ pc \in BeforeSwap => HaproxyPart(r) # cand
           /\ hap = Missing => AppNames(current) \subseteq AppNames(r)
           /\ pc = "reload" => Added \subseteq AppNames(r)
           /\ SentNames(hap) \subseteq AppNames(r) \/ OnItsWay
<1>0. used \in Nat /\ spoaConfig \in ConfigFile
  BY Names DEF IInv, TypeOK, SupTypeOK
<1>1. CASE spoaConfig = "fallback"
  <2>1. r = Seed /\ HaproxyPart(r) = 0
    BY <1>1, Names DEF LoadResult, Seed
  <2>2. pc \in BeforeSwap => HaproxyPart(r) # cand
    BY <2>1, InApply DEF BeforeSwap, ApplyStep, Seed
  <2>3. ~NamesInUse
    BY <1>1 DEF SInv, CorazaInOrder
  <2>4. hap = Missing => AppNames(current) = {}
    <3>1. SUFFICES ASSUME hap = Missing, current # Missing PROVE AppNames(current) = {}
      BY DEF AppNames
    <3>2. current \in dirs /\ current \in Release /\ content[current].rules = NoRules
      BY <1>1, <3>1
         DEF SInv, CorazaInOrder, SelectedConfig, HasGeneratedYaml, IInv, CurrentResolves, TypeOK,
             StoreTypeOK, Link
    <3>. QED
      BY <3>1, <3>2, StoreAssumption
         DEF AppNames, IInv, TypeOK, StoreTypeOK, Config, SeedConfig, StoreAssumption
  <2>5. SentNames(hap) = {} \/ OnItsWay
    BY <2>3 DEF NamesInUse, DropReloaded, OnItsWay, DropsAppsOnly, Retired
  <2>. QED
    BY <1>0, <1>1, <2>1, <2>2, <2>3, <2>4, <2>5 DEF NamesInUse
<1>2. CASE spoaConfig = "generated"
  <2>1. r = current /\ current \in dirs
    BY <1>2 DEF LoadResult, HasGeneratedYaml
  <2>2. HaproxyPart(r) <= used
    BY <2>1 DEF IInv, FreshIds
  <2>3. pc \in BeforeSwap => HaproxyPart(r) # cand
    <3>1. SUFFICES ASSUME pc \in BeforeSwap PROVE HaproxyPart(current) # cand
      BY <2>1
    <3>2. pc \in ApplyStep /\ prev \in Placed /\ prev # Missing /\ prev # cand
      BY <3>1, PairInOrder DEF BeforeSwap, ApplyStep
    <3>3. current = prev
      BY <3>1, <3>2, InApply DEF LinkInPhase, CurrentIsPrev
    <3>. QED
      BY <3>2, <3>3, PlacedReleases
  <2>4. pc = "reload" => Added \subseteq AppNames(r)
    BY <2>1, InApply, SwappedServes
       DEF LinkInPhase, Switched, ApplyStep, BridgeInUse, Added
  <2>5. SentNames(hap) \subseteq AppNames(r) \/ OnItsWay
    BY <2>1, CurrentServes, Names DEF SentNames, AppNames
  <2>. QED
    BY <1>2, <2>1, <2>2, <2>3, <2>4, <2>5
<1>. QED
  BY <1>0, <1>1, <1>2 DEF ConfigFile

LEMMA SupNextOrder ==
    ASSUME IInv, SInv, Reliable, SupNext, CorazaMayRun, UNCHANGED applyVars PROVE SInv'
<1>1. UNCHANGED storeVars
  BY SupStep DEF IInv, TypeOK
<1>2. pc \notin {"down", "seeding"}
  BY DEF Reliable, CorazaMayRun, BackendHealthy
<1>3. HaproxyInOrder' /\ StepsInOrder'
  BY <1>1, <1>2
     DEF SInv, HaproxyInOrder, StepsInOrder, DropsAppsOnly, NeedsBridge, Added, Retired, AppNames,
         Swapped, storeVars, applyVars, cand
<1>4. /\ NamesInUse' <=> NamesInUse
      /\ SelectedConfig' = SelectedConfig
      /\ Added' = Added
  BY <1>1
     DEF NamesInUse, SentNames, SelectedConfig, HasGeneratedYaml, Added, AppNames, storeVars,
         applyVars, cand
<1>5. ASSUME loaded' = loaded \/ (HaproxyPart(loaded') <= used /\
                                  (pc \in BeforeSwap => HaproxyPart(loaded') # cand))
      PROVE  ContentInOrder'
  BY <1>1, <1>5
     DEF SInv, ContentInOrder, NeedsBridge, Added, Retired, AppNames, storeVars, applyVars, cand
<1>6. ASSUME loaded' = loaded, spoa' \in {spoa, "dead"}, spoaConfig' = spoaConfig
      PROVE  SInv'
  <2>1. CorazaInOrder'
    BY <1>1, <1>4, <1>6 DEF SInv, CorazaInOrder, AppNames, storeVars, applyVars
  <2>. QED
    BY <1>3, <1>5, <1>6, <2>1 DEF SInv
<1>7. ASSUME loaded' = loaded, spoa' = "starting", spoaConfig' = SelectedConfig
      PROVE  SInv'
  <2>1. CorazaInOrder'
    BY <1>1, <1>4, <1>7, CurrentIsGenerated DEF SInv, CorazaInOrder, applyVars
  <2>. QED
    BY <1>3, <1>5, <1>7, <2>1 DEF SInv
<1>8. ASSUME spoa # "dead", spoa' = "listening", spoaConfig' = spoaConfig,
             loaded' = LoadResult(spoaConfig), loaded' # Missing
      PROVE  SInv'
  <2> DEFINE r == loaded'
  <2>1. /\ spoaConfig = "fallback" => r = Seed
        /\ HaproxyPart(r) <= used
        /\ pc \in BeforeSwap => HaproxyPart(r) # cand
        /\ hap = Missing => AppNames(current) \subseteq AppNames(r)
        /\ pc = "reload" => Added \subseteq AppNames(r)
    BY <1>8, LoadServes
  <2>2. AppNames(loaded)' = AppNames(r) /\ AppNames(current)' = AppNames(current)
    BY <1>1 DEF AppNames, storeVars
  <2>3. CorazaInOrder'
    BY <1>1, <1>4, <1>8, <2>1, <2>2 DEF SInv, CorazaInOrder, storeVars, applyVars
  <2>. QED
    BY <1>3, <1>5, <2>1, <2>3 DEF SInv
<1>9. CASE SupervisorStart
  BY <1>7, <1>9 DEF SupervisorStart
<1>10. CASE Poll \/ Validate \/ Report \/ SpoaCrash
  BY <1>6, <1>10 DEF Poll, Validate, Report, SpoaCrash
<1>11. CASE Reload
  BY <1>6, <1>7, <1>11 DEF Reload
<1>12. CASE SpoaUp
  BY <1>6, <1>8, <1>12 DEF SpoaUp
<1>13. CASE SpoaReload
  BY <1>6, <1>8, <1>13 DEF SpoaReload
<1>. QED
  BY <1>9, <1>10, <1>11, <1>12, <1>13 DEF SupNext, SupLoop, Spoa

-----------------------------------------------------------------------------
\* Steps of an apply

LEMMA SameDecisions ==
    ASSUME UNCHANGED <<content, used, prev>>
    PROVE  /\ Added' = Added /\ Retired' = Retired
           /\ (NeedsBridge <=> NeedsBridge') /\ (DropsAppsOnly <=> DropsAppsOnly')
           /\ Swapped' = Swapped
BY DEF Added, Retired, NeedsBridge, DropsAppsOnly, Swapped, AppNames, cand

LEMMA SameContentOrder ==
    ASSUME SInv, UNCHANGED <<content, used, prev, loaded>>,
           pc' \in BridgeInUse /\ NeedsBridge => pc \in BridgeInUse,
           pc' \in BeforeSwap => pc \in BeforeSwap
    PROVE  ContentInOrder'
BY SameDecisions DEF SInv, ContentInOrder, AppNames, cand

\* A step that leaves HAProxy on what it runs.
LEMMA SameCorazaOrder ==
    ASSUME SInv, UNCHANGED <<content, used, prev, supVars, hap>>, hap # Missing,
           pc = "rollback_reload" => pc' = "rollback_reload",
           pc' \in DropReloaded => pc \in DropReloaded \/ SentNames(hap) # {},
           pc' = "reload" => pc = "reload" \/ Added = {}
    PROVE  CorazaInOrder'
<1>1. NamesInUse' => NamesInUse
  BY SameDecisions DEF NamesInUse, SentNames, AppNames
<1>. QED
  BY <1>1, SameDecisions DEF SInv, CorazaInOrder, AppNames, supVars

LEMMA QuietStepOrder ==
    ASSUME IInv, SInv,
           \/ ApplyValidate \/ ApplySwap \/ AwaitReload \/ LeaveBridge \/ RemoveBridge
           \/ AwaitDrop \/ Rollback \/ Restore \/ Cleanup
    PROVE  SInv'
<1>. USE DEF GoTo, Return, Conclude, AfterPreload, AfterReload, PreloadCoraza
<1>0. /\ pc \in ApplyStep
      /\ UNCHANGED <<content, used, prev, supVars, hap>>
      /\ hap # Missing /\ prev # Missing /\ cand \in Written
  <2>1. pc \in ApplyStep
    BY DEF ApplyValidate, ApplySwap, AwaitReload, LeaveBridge, RemoveBridge, AwaitDrop, Rollback,
           Restore, Cleanup, ApplyStep
  <2>2. UNCHANGED <<content, used, prev, supVars, hap>>
    BY DEF ApplyValidate, ApplySwap, AwaitReload, LeaveBridge, RemoveBridge, AwaitDrop, Rollback,
           Restore, Cleanup, storeVars
  <2>. QED
    BY <2>1, <2>2, PairInOrder
<1>1. DropsAppsOnly => Added = {} /\ ~NeedsBridge
  BY <1>0 DEF DropsAppsOnly, NeedsBridge
<1>2. ContentInOrder'
  <2>1. /\ pc' \in BridgeInUse /\ NeedsBridge => pc \in BridgeInUse
        /\ pc' \in BeforeSwap => pc \in BeforeSwap
    BY <1>0
       DEF ApplyValidate, ApplySwap, AwaitReload, LeaveBridge, RemoveBridge, AwaitDrop, Rollback,
           Restore, Cleanup, BridgeInUse, BeforeSwap
  <2>. QED
    BY <1>0, <2>1, SameContentOrder DEF supVars
<1>3. CorazaInOrder'
  <2>1. /\ pc' \in DropReloaded => pc \in DropReloaded \/ pc = "remove_bridge"
        /\ pc # "rollback_reload"
        /\ pc' = "reload" => pc = "reload" \/ Added = {}
    BY <1>0, <1>1
       DEF ApplyValidate, ApplySwap, AwaitReload, LeaveBridge, RemoveBridge, AwaitDrop, Rollback,
           Restore, Cleanup, DropReloaded
  <2>2. pc = "remove_bridge" => SentNames(hap) # {}
    <3>1. SUFFICES ASSUME pc = "remove_bridge" PROVE SentNames(hap) # {}
      OBVIOUS
    <3>2. hap = cand /\ Added # {}
      BY <1>0, <3>1 DEF SInv, HaproxyInOrder, OnPrevious, StepsInOrder, NeedsBridge
    <3>. QED
      BY <1>0, <3>2, PairInOrder DEF Added
  <2>. QED
    BY <1>0, <2>1, <2>2, SameCorazaOrder
<1>4. StepsInOrder'
  BY <1>0, <1>1, InApply, SameDecisions
     DEF ApplyValidate, ApplySwap, AwaitReload, LeaveBridge, RemoveBridge, AwaitDrop, Rollback,
         Restore, Cleanup, SInv, StepsInOrder, DropReloaded, LinkInPhase, Switched, storeVars
<1>5. HaproxyInOrder'
  <2>1. CASE pc' \in ApplyStep
    <3>1. pc' \notin {"down", "seeding", "seed_reload"}
      BY <2>1 DEF ApplyStep
    <3>2. pc \in OnPrevious <=> pc' \in OnPrevious
      BY <1>0, <2>1
         DEF ApplyValidate, ApplySwap, AwaitReload, LeaveBridge, RemoveBridge, AwaitDrop, Rollback,
             Restore, Cleanup, OnPrevious, ApplyStep, SInv, StepsInOrder
    <3>. QED
      BY <1>0, <2>1, <3>1, <3>2 DEF SInv, HaproxyInOrder, cand
  <2>2. CASE pc' \notin ApplyStep
    <3>1. pc' = "idle"
      BY <2>2
         DEF ApplyValidate, ApplySwap, AwaitReload, LeaveBridge, RemoveBridge, AwaitDrop, Rollback,
             Restore, Cleanup, ApplyStep
    <3>2. pc \in {"validate", "remove_bridge", "await_drop", "rollback", "cleanup"}
          /\ current' = current
      BY <3>1
         DEF ApplyValidate, ApplySwap, AwaitReload, LeaveBridge, RemoveBridge, AwaitDrop, Rollback,
             Restore, Cleanup, storeVars
    <3>3. current = hap
      BY <1>0, <3>2, InApply
         DEF LinkInPhase, BeforeSwap, OnCandidate, BackOnPrev, CurrentIsPrev, SInv,
             HaproxyInOrder, OnPrevious
    <3>4. hap \in Placed
      BY <1>0, PairInOrder DEF Placed
    <3>. QED
      BY <1>0, <3>1, <3>2, <3>3, <3>4 DEF HaproxyInOrder, ApplyStep
  <2>. QED
    BY <2>1, <2>2
<1>. QED
  BY <1>2, <1>3, <1>4, <1>5 DEF SInv

LEMMA WriteBridgeOrder == ASSUME IInv, SInv, WriteBridge PROVE SInv'
<1>. USE DEF GoTo, Return, Conclude
<1>0. /\ pc = "bridge" /\ pc \in ApplyStep /\ pc' \in {"idle", "swap"}
      /\ UNCHANGED <<current, used, prev, supVars, hap>>
      /\ prev \in Placed /\ prev # Missing /\ cand \in Written /\ hap = prev /\ hap # Missing
  <2>1. /\ pc = "bridge" /\ pc \in ApplyStep /\ pc' \in {"idle", "swap"}
        /\ UNCHANGED <<current, used, prev, supVars, hap>>
    BY DEF WriteBridge, ApplyStep
  <2>. QED
    BY <2>1, PairInOrder DEF SInv, HaproxyInOrder, OnPrevious
<1>1. \A r \in Release : r # BridgeOf(cand) => content'[r] = content[r]
  BY DEF WriteBridge, IInv, TypeOK, StoreTypeOK
<1>2. /\ prev \in Release /\ prev # BridgeOf(cand) /\ cand \in Release /\ cand # BridgeOf(cand)
      /\ Seed \in Release /\ Seed # BridgeOf(cand) /\ Missing \notin Release
  BY <1>0, InApply, PlacedReleases, SpecialNames, Names DEF ReleasesKept
<1>3. AppNames(prev)' = AppNames(prev) /\ AppNames(cand)' = AppNames(cand)
  BY <1>0, <1>1, <1>2, InApply DEF AppNames, cand
<1>4. /\ Added' = Added /\ Retired' = Retired /\ (NeedsBridge <=> NeedsBridge')
      /\ (DropsAppsOnly <=> DropsAppsOnly')
  BY <1>0, <1>3 DEF Added, Retired, NeedsBridge, DropsAppsOnly, cand
<1>5. loaded \in Release /\ loaded # BridgeOf(cand)
  BY <1>0, InApply DEF IInv, TypeOK, SupTypeOK, SInv, ContentInOrder, BeforeSwap
<1>6. SentNames(hap)' = SentNames(hap)
  <2>1. HaproxyPart(hap) = prev
    BY <1>0, PlacedReleases
  <2>. QED
    BY <1>0, <1>3, <2>1 DEF SentNames
<1>7. HaproxyInOrder'
  <2>1. CASE pc' = "swap"
    BY <1>0, <2>1 DEF SInv, HaproxyInOrder, ApplyStep, OnPrevious, cand
  <2>2. CASE pc' = "idle"
    BY <1>0, <2>2, InApply
       DEF HaproxyInOrder, ApplyStep, LinkInPhase, BeforeSwap, CurrentIsPrev
  <2>. QED
    BY <1>0, <2>1, <2>2
<1>8. StepsInOrder'
  BY <1>0 DEF StepsInOrder, DropReloaded
<1>9. ContentInOrder'
  <2>1. pc' = "swap" =>
           /\ AppNames(BridgeOf(cand))' = AppNames(cand) \cup Retired
           /\ content'[BridgeOf(cand)].rules \in Rules
    <3>1. SUFFICES ASSUME pc' = "swap"
                   PROVE  /\ AppNames(BridgeOf(cand))' = AppNames(cand) \cup Retired
                          /\ content'[BridgeOf(cand)].rules \in Rules
      OBVIOUS
    <3>2. PICK text \in BridgeRules :
             content' = [content EXCEPT ![BridgeOf(cand)] =
                            [apps  |-> AppNames(cand) \cup Retired,
                             rules |-> text,
                             site  |-> content[cand].site]]
      BY <3>1 DEF WriteBridge
    <3>3. text \in Rules
      BY <1>0, PairInOrder, StoreAssumption DEF BridgeRules, Compiles, Config, StoreAssumption
    <3>4. content'[BridgeOf(cand)] = [apps  |-> AppNames(cand) \cup Retired,
                                      rules |-> text,
                                      site  |-> content[cand].site]
      BY <1>0, <3>2, InApply DEF IInv, TypeOK, StoreTypeOK
    <3>5. BridgeOf(cand)' = BridgeOf(cand) /\ BridgeOf(cand) # Missing
      BY <1>0, InApply DEF BridgeOf, cand
    <3>6. AppNames(BridgeOf(cand))' = content'[BridgeOf(cand)].apps
      BY <3>5 DEF AppNames
    <3>. QED
      BY <3>3, <3>4, <3>6
  <2>2. content'[Seed] = SeedConfig
    BY <1>1, <1>2 DEF SInv, ContentInOrder
  <2>3. HaproxyPart(loaded) <= used /\ HaproxyPart(loaded) # cand
    BY <1>0 DEF SInv, ContentInOrder, BeforeSwap
  <2>4. loaded' = loaded /\ cand' = cand
    BY <1>0 DEF supVars, cand
  <2>. QED
    BY <1>0, <1>3, <1>4, <2>1, <2>2, <2>3, <2>4 DEF ContentInOrder, BridgeInUse, cand
<1>10. CorazaInOrder'
  <2>1. NamesInUse' => NamesInUse
    BY <1>0, <1>3, <1>6 DEF NamesInUse, DropReloaded
  <2>. QED
    BY <1>0, <2>1 DEF SInv, CorazaInOrder, supVars
<1>. QED
  BY <1>7, <1>8, <1>9, <1>10 DEF SInv

\* Coraza serves the new names when they have been probed for.
LEMMA AwaitAppsOrder == ASSUME IInv, SInv, AwaitApps PROVE SInv'
<1>. USE DEF AwaitApps, GoTo, Return, Conclude
<1>0. /\ pc = "await_apps" /\ pc \in ApplyStep /\ pc' \in {"reload", "restore"}
      /\ UNCHANGED <<content, dirs, current, used, prev, supVars, hap>>
      /\ hap # Missing /\ hap = prev
  BY PairInOrder DEF ApplyStep, SInv, HaproxyInOrder, OnPrevious, storeVars
<1>1. ContentInOrder'
  BY <1>0, SameContentOrder DEF BridgeInUse, BeforeSwap, supVars
<1>2. HaproxyInOrder' /\ StepsInOrder'
  BY <1>0, InApply, SameDecisions
     DEF SInv, HaproxyInOrder, StepsInOrder, OnPrevious, DropReloaded, ApplyStep, LinkInPhase,
         Switched, cand
<1>3. CorazaInOrder'
  <2>1. CASE pc' = "restore" \/ Added = {}
    BY <1>0, <2>1, SameCorazaOrder DEF DropReloaded
  <2>2. CASE pc' = "reload" /\ Added # {}
    <3>1. spoa = "listening" /\ Added \subseteq AppNames(loaded)
      BY <2>2 DEF ServedNames
    <3>2. AppNames(Seed) = {}
      BY Names DEF SInv, ContentInOrder, AppNames, SeedConfig
    <3>3. spoaConfig = "generated"
      BY <2>2, <3>1, <3>2 DEF SInv, CorazaInOrder, IInv, TypeOK, SupTypeOK, ConfigFile
    <3>. QED
      BY <1>0, <3>1, <3>3, SameDecisions DEF CorazaInOrder, AppNames, supVars
  <2>. QED
    BY <1>0, <2>1, <2>2
<1>. QED
  BY <1>1, <1>2, <1>3 DEF SInv

LEMMA ApplyReloadOrder ==
    ASSUME IInv, SInv, Reliable, ApplyReload
    PROVE  SInv' /\ hap' = cand /\ UNCHANGED <<storeVars, supVars, used, prev>>
<1>. USE DEF GoTo, Return, Conclude, AfterReload
<1>0. /\ pc = "reload" /\ pc \in ApplyStep /\ pc \in BridgeInUse
      /\ UNCHANGED <<content, dirs, current, used, prev, supVars>>
      /\ prev # Missing /\ hap # Missing /\ hap = prev /\ cand \in Written
      /\ SentNames(hap) = AppNames(prev) /\ HaproxyPart(cand) = cand /\ cand # Missing
      /\ current = Swapped /\ current \in dirs /\ HaproxyPart(current) = cand
  <2>1. /\ pc = "reload" /\ pc \in ApplyStep /\ pc \in BridgeInUse
        /\ UNCHANGED <<content, dirs, current, used, prev, supVars>>
    BY DEF ApplyReload, ApplyStep, BridgeInUse, storeVars, AfterReload
  <2>2. hap = prev
    BY <2>1 DEF SInv, HaproxyInOrder, OnPrevious
  <2>3. current = Swapped /\ current # Missing
    BY <2>1, InApply DEF LinkInPhase, Switched
  <2>. QED
    BY <2>1, <2>2, <2>3, PairInOrder, InApply DEF IInv, CurrentResolves
<1>1. /\ hap' = cand /\ pc' \in {"leave_bridge", "await_drop", "rollback", "idle"}
      /\ reloadOk' \in BOOLEAN /\ (AllAnswered => reloadOk')
      /\ pc' = "rollback" => ~reloadOk'
  BY <1>0 DEF ApplyReload, CanReload, HaproxyReload, Reliable, AllAnswered
<1>2. ContentInOrder'
  BY <1>0, <1>1, SameContentOrder DEF BeforeSwap, supVars
<1>3. /\ pc' = "leave_bridge" => NeedsBridge
      /\ pc' # "leave_bridge" => ~NeedsBridge
      /\ pc' = "await_drop" => DropsAppsOnly
  BY <1>0, <1>1 DEF ApplyReload
<1>4. StepsInOrder'
  BY <1>0, <1>1, <1>3, SameDecisions DEF StepsInOrder, DropReloaded
<1>5. HaproxyInOrder'
  <2>1. CASE pc' = "idle"
    BY <1>0, <1>1, <1>3, <2>1 DEF HaproxyInOrder, ApplyStep, Swapped, Placed, cand
  <2>2. CASE pc' # "idle"
    BY <1>0, <1>1, <2>2, PairInOrder DEF HaproxyInOrder, ApplyStep, OnPrevious, cand
  <2>. QED
    BY <2>1, <2>2
<1>6. NamesInUse' => NamesInUse
  <2>1. SentNames(hap)' = AppNames(cand)
    BY <1>0, <1>1 DEF SentNames, AppNames, HaproxyPart, cand
  <2>2. SentNames(hap)' # {} => NamesInUse
    BY <1>0, <2>1 DEF NamesInUse, Added
  <2>3. AppNames(prev)' # {} => NamesInUse
    BY <1>0 DEF NamesInUse, AppNames
  <2>. QED
    BY <1>1, <2>2, <2>3 DEF NamesInUse
<1>7. CorazaInOrder'
  BY <1>0, <1>1, <1>6 DEF SInv, CorazaInOrder, supVars
<1>. QED
  BY <1>0, <1>1, <1>2, <1>4, <1>5, <1>7 DEF SInv, storeVars

LEMMA RollbackReloadOrder == ASSUME IInv, SInv, Reliable, RollbackReload PROVE SInv'
<1>. USE DEF GoTo, Return, Conclude
<1>0. /\ pc = "rollback_reload" /\ pc \in ApplyStep
      /\ UNCHANGED <<content, dirs, current, used, prev, supVars>>
      /\ prev \in Placed /\ prev # Missing /\ hap # Missing
      /\ current = prev /\ current \in dirs /\ HaproxyPart(current) = prev
  <2>1. /\ pc = "rollback_reload" /\ pc \in ApplyStep
        /\ UNCHANGED <<content, dirs, current, used, prev, supVars>>
    BY DEF RollbackReload, ApplyStep, storeVars
  <2>2. prev \in Placed /\ prev # Missing /\ hap # Missing
    BY <2>1, PairInOrder
  <2>3. current = prev
    BY <2>1, <2>2, InApply DEF LinkInPhase, BackOnPrev, CurrentIsPrev
  <2>. QED
    BY <2>1, <2>2, <2>3, PlacedReleases DEF IInv, CurrentResolves
<1>1. hap' = prev /\ pc' \in {"cleanup", "idle"}
  BY <1>0 DEF RollbackReload, CanReload, HaproxyReload, Reliable
<1>2. ContentInOrder'
  BY <1>0, <1>1, SameContentOrder DEF BeforeSwap, BridgeInUse, supVars
<1>3. HaproxyInOrder' /\ StepsInOrder'
  BY <1>0, <1>1 DEF HaproxyInOrder, StepsInOrder, ApplyStep, OnPrevious, DropReloaded
<1>4. (NamesInUse' => NamesInUse) /\ hap' # Missing
  <2>1. SentNames(hap)' = AppNames(prev)
    BY <1>0, <1>1, PairInOrder DEF SentNames, AppNames, HaproxyPart
  <2>. QED
    BY <1>0, <1>1, <2>1 DEF NamesInUse, DropReloaded
<1>5. CorazaInOrder'
  BY <1>0, <1>1, <1>4 DEF SInv, CorazaInOrder, supVars
<1>. QED
  BY <1>2, <1>3, <1>5 DEF SInv

-----------------------------------------------------------------------------
\* Steps between applies

\* A release under a new id is in no use yet.
LEMMA NewContent ==
    ASSUME IInv, SInv, used < MaxReleases, NEW config,
           content' = [content EXCEPT ![used + 1] = config], used' = used + 1,
           loaded' = loaded, pc' \notin BridgeInUse
    PROVE  /\ ContentInOrder'
           /\ \A r \in Release : r <= used => content'[r] = content[r]
<1>1. used \in Nat /\ used + 1 \in Release /\ Seed \in Release /\ Seed <= used
  BY Names, SpecialNames DEF IInv, TypeOK, Written, Seed
<1>2. \A r \in Release : r <= used => content'[r] = content[r]
  BY <1>1 DEF IInv, TypeOK, StoreTypeOK, Release
<1>3. HaproxyPart(loaded) \in Int /\ HaproxyPart(loaded) <= used
  BY Names DEF SInv, ContentInOrder, IInv, TypeOK, SupTypeOK, Release, HaproxyPart
<1>. QED
  BY <1>1, <1>2, <1>3 DEF SInv, ContentInOrder, cand

LEMMA ApplyBeginOrder ==
    ASSUME IInv, SInv, Reliable, NEW config \in Offered, ApplyBegin(config) PROVE SInv'
<1>. USE DEF GoTo, Return, Conclude
<1>0. /\ pc = "idle" /\ pc' \in {"validate", "idle"} /\ hap # Missing
      /\ used < MaxReleases /\ used' = used + 1
      /\ content' = [content EXCEPT ![used + 1] = config]
      /\ UNCHANGED <<current, supVars, hap>>
  BY DEF ApplyBegin, StackIsUp, Reliable
<1>1. /\ current = hap /\ current \in Placed /\ current # Missing
      /\ current \in dirs /\ prev' = current
  BY <1>0, PlacedReleases
     DEF ApplyBegin, SInv, HaproxyInOrder, ApplyStep, IInv, CurrentResolves
<1>2. /\ ContentInOrder'
      /\ \A r \in Release : r <= used => content'[r] = content[r]
  BY <1>0, NewContent DEF supVars, BridgeInUse
<1>3. HaproxyInOrder' /\ StepsInOrder'
  BY <1>0, <1>1 DEF HaproxyInOrder, StepsInOrder, ApplyStep, OnPrevious, DropReloaded
<1>4. SentNames(hap)' = SentNames(hap)
  <2>1. hap \in Release /\ HaproxyPart(hap) = hap /\ hap <= used
    BY <1>1, PlacedReleases DEF IInv, FreshIds
  <2>. QED
    BY <1>0, <1>2, <2>1 DEF SentNames, AppNames
<1>5. NamesInUse' => NamesInUse
  BY <1>0, <1>4 DEF NamesInUse, DropReloaded
<1>6. CorazaInOrder'
  BY <1>0, <1>5 DEF SInv, CorazaInOrder, supVars
<1>. QED
  BY <1>2, <1>3, <1>6 DEF SInv

\* Before HAProxy runs, nothing is sent.
LEMMA NothingSent ==
    ASSUME hap = Missing, pc \notin DropReloaded \cup {"reload"}
    PROVE  ~NamesInUse
BY Names DEF NamesInUse, SentNames, AppNames

LEMMA StartupOrder == ASSUME IInv, SInv, Startup PROVE SInv'
<1>. USE DEF GoTo
<1>1. pc \in {"down", "seeding"} /\ hap = Missing /\ spoa = "dead" /\ current \in Placed \cup {Missing}
  BY DEF Startup, BackendStart, SeedKeep, SeedWrite, SeedReload, SInv, HaproxyInOrder, ApplyStep
<1>2. /\ UNCHANGED <<supVars, hap>>
      /\ pc' \in {"seeding", "idle"} /\ current' \in Placed \cup {Missing}
  <2>1. used \in Nat /\ used < MaxReleases => used + 1 \in Placed
    BY Names DEF Placed, Written
  <2>. QED
    BY <1>1, <2>1
       DEF Startup, BackendStart, SeedKeep, SeedWrite, SeedReload, storeVars, Placed, IInv, TypeOK
<1>3. HaproxyInOrder' /\ StepsInOrder'
  BY <1>1, <1>2 DEF HaproxyInOrder, StepsInOrder, ApplyStep, DropReloaded, supVars
<1>4. CorazaInOrder'
  BY <1>1, <1>2 DEF CorazaInOrder, supVars
<1>5. ContentInOrder'
  <2>1. CASE UNCHANGED <<content, used>>
    BY <1>2, <2>1 DEF SInv, ContentInOrder, BridgeInUse, BeforeSwap, supVars
  <2>2. ASSUME NEW config \in Offered, SeedWrite(config)
        PROVE  ContentInOrder'
    BY <1>2, <2>2, NewContent DEF SeedWrite, BridgeInUse, supVars
  <2>. QED
    BY <2>1, <2>2 DEF Startup, BackendStart, SeedKeep, SeedReload, storeVars
<1>. QED
  BY <1>3, <1>4, <1>5 DEF SInv

\* Outside an apply a reload changes nothing.
LEMMA GeoipReloadOrder == ASSUME IInv, SInv, Reliable, GeoipReload PROVE UNCHANGED vars
<1>1. PICK result \in CanReload : HaproxyReload(result)
  BY DEF GeoipReload
<1>2. hap = Missing => result = "refused"
  BY <1>1 DEF CanReload
<1>3. hap # Missing => HaproxyPart(current) = hap
  BY PlacedReleases DEF GeoipReload, SInv, HaproxyInOrder, ApplyStep
<1>4. hap' = hap
  BY <1>1, <1>2, <1>3 DEF HaproxyReload
<1>. QED
  BY <1>4 DEF GeoipReload, vars, applyVars

LEMMA HaproxyStartOrder ==
    ASSUME IInv, SInv, Reliable, HaproxyStart
    PROVE  /\ SInv'
           /\ hap = Missing /\ UNCHANGED supVars
           /\ spoa = "listening" => SentNames(hap)' \subseteq AppNames(loaded)'
<1>0. /\ hap = Missing /\ pc = "idle"
      /\ UNCHANGED <<content, supVars, pc, used, prev>>
      /\ current \in Placed \cup {Missing}
  <2>1. hap = Missing /\ BackendHealthy /\ UNCHANGED <<content, supVars, pc, used, prev>>
    BY DEF HaproxyStart, HaproxyMayStart, Reliable
  <2>2. pc = "idle"
    BY <2>1, PairInOrder DEF BackendHealthy, IInv, TypeOK, SInv, HaproxyInOrder
  <2>. QED
    BY <2>1, <2>2 DEF SInv, HaproxyInOrder, ApplyStep
<1>1. /\ current' = hap' /\ hap' \in Placed
      /\ current \in dirs => hap' = current
      /\ current \notin dirs => hap' = Seed
  <2>1. Seed \in Placed /\ HaproxyPart(current) = current
    BY <1>0, PlacedReleases DEF Placed
  <2>2. current \in dirs => current \in Placed
    BY <1>0, Names DEF IInv, TypeOK, StoreTypeOK
  <2>. QED
    BY <2>1, <2>2 DEF HaproxyStart
<1>2. HaproxyPart(hap') = hap' /\ hap' # Missing /\ hap' \in Release
  BY <1>1, PlacedReleases
<1>3. SentNames(hap)' = content[hap'].apps
  BY <1>0, <1>2 DEF SentNames, AppNames, HaproxyPart
<1>4. SentNames(hap)' # {} => current \in dirs /\ hap' = current /\ SelectedConfig = "generated"
  <2>1. SUFFICES ASSUME SentNames(hap)' # {}
                 PROVE  current \in dirs /\ hap' = current /\ SelectedConfig = "generated"
    OBVIOUS
  <2>2. hap' # Seed
    BY <1>3, <2>1 DEF SInv, ContentInOrder, SeedConfig
  <2>3. current \in dirs /\ hap' = current
    BY <1>1, <2>2
  <2>4. content[current].rules # NoRules
    BY <1>2, <1>3, <2>1, <2>3, StoreAssumption
       DEF IInv, TypeOK, StoreTypeOK, Config, SeedConfig, StoreAssumption
  <2>. QED
    BY <2>3, <2>4 DEF SelectedConfig, HasGeneratedYaml
<1>5. NamesInUse' => SentNames(hap)' # {}
  BY <1>0 DEF NamesInUse, DropReloaded
<1>6. CorazaInOrder'
  <2>1. spoa # "dead" => spoaConfig = SelectedConfig
    BY <1>0 DEF SInv, CorazaInOrder
  <2>2. spoa # "dead" /\ NamesInUse' => spoaConfig = "generated"
    BY <1>4, <1>5, <2>1
  <2>3. spoa = "listening" /\ spoaConfig = "fallback" => loaded = Seed
    BY DEF SInv, CorazaInOrder
  <2>. QED
    BY <1>0, <1>2, <2>2, <2>3 DEF CorazaInOrder, supVars
<1>7. HaproxyInOrder' /\ StepsInOrder'
  BY <1>0, <1>1 DEF HaproxyInOrder, StepsInOrder, ApplyStep, DropReloaded
<1>8. ContentInOrder'
  BY <1>0 DEF SInv, ContentInOrder, BridgeInUse, BeforeSwap, supVars
<1>9. spoa = "listening" => SentNames(hap)' \subseteq AppNames(loaded)'
  <2>1. SUFFICES ASSUME spoa = "listening", SentNames(hap)' # {}
                 PROVE  SentNames(hap)' \subseteq AppNames(loaded)'
    OBVIOUS
  <2>2. SentNames(hap)' = AppNames(current)
    BY <1>2, <1>3, <1>4, <2>1 DEF AppNames
  <2>. QED
    BY <1>0, <2>1, <2>2 DEF SInv, CorazaInOrder, AppNames, supVars
<1>. QED
  BY <1>0, <1>6, <1>7, <1>8, <1>9 DEF SInv

-----------------------------------------------------------------------------
LEMMA ContinueOrder == ASSUME IInv, SInv, Reliable, ApplyContinue PROVE SInv'
BY QuietStepOrder, WriteBridgeOrder, AwaitAppsOrder, ApplyReloadOrder, RollbackReloadOrder
   DEF ApplyContinue

LEMMA NextKeepsSInv == ASSUME Reliable PROVE IInv /\ SInv /\ [Next]_vars => SInv'
<1>. SUFFICES ASSUME IInv, SInv, [Next]_vars PROVE SInv'
  OBVIOUS
<1>1. CASE UNCHANGED vars
  BY <1>1, SameDecisions
     DEF SInv, HaproxyInOrder, StepsInOrder, ContentInOrder, CorazaInOrder, NamesInUse, SentNames,
         AppNames, SelectedConfig, HasGeneratedYaml, vars, storeVars, supVars, applyVars, cand
<1>2. CASE \E config \in Offered : ApplyBegin(config)
  BY <1>2, ApplyBeginOrder
<1>3. CASE ApplyContinue
  BY <1>3, ContinueOrder
<1>4. CASE Startup
  BY <1>4, StartupOrder
<1>5. CASE BackendCrash
  BY <1>5 DEF BackendCrash, Reliable
<1>6. CASE GeoipReload
  BY <1>1, <1>6, GeoipReloadOrder
<1>7. CASE HaproxyStart
  BY <1>7, HaproxyStartOrder
<1>8. CASE SupNext /\ CorazaMayRun /\ UNCHANGED applyVars
  BY <1>8, SupNextOrder
<1>. QED
  BY <1>1, <1>2, <1>3, <1>4, <1>5, <1>6, <1>7, <1>8 DEF Next

THEOREM NamesInductive == ASSUME Reliable PROVE Spec => [](IInv /\ SInv)
BY Inductive, InitSInv, NextKeepsSInv, PTL DEF Spec

\* A name that an apply adds has been probed for when HAProxy is reloaded, and
\* nothing Coraza loaded since could have lost it: neither a SIGHUP that was
\* still pending nor a restart.
THEOREM AddedNamesAreLoaded == ASSUME Reliable PROVE Spec => NewNamesLoadedFirst
<1>1. ASSUME IInv, SInv, Next, pc = "reload", spoa = "listening"
      PROVE  SentNames(hap)' \ SentNames(hap) \subseteq ServedNames
  <2>1. /\ pc \in ApplyStep /\ hap = prev /\ hap # Missing /\ SentNames(hap) = AppNames(prev)
        /\ HaproxyPart(cand) = cand
    BY <1>1, PairInOrder, InApply DEF SInv, HaproxyInOrder, OnPrevious, ApplyStep
  <2>2. CASE ApplyReload
    <3>1. SentNames(hap)' = AppNames(cand)
      BY <2>1, <2>2, <1>1, ApplyReloadOrder DEF SentNames, AppNames, HaproxyPart, cand, storeVars
    <3>. QED
      BY <1>1, <2>1, <3>1 DEF SInv, CorazaInOrder, Added, ServedNames
  <2>3. CASE SupNext /\ UNCHANGED applyVars
    <3>1. UNCHANGED storeVars
      BY <1>1, <2>3, SupStep DEF IInv, TypeOK
    <3>. QED
      BY <2>3, <3>1 DEF SentNames, AppNames, storeVars, applyVars
  <2>. QED
    BY <1>1, <2>1, <2>2, <2>3
       DEF Next, ApplyBegin, ApplyContinue, ApplyValidate, WriteBridge, ApplySwap, AwaitReload,
           AwaitApps, LeaveBridge, RemoveBridge, AwaitDrop, Rollback, RollbackReload, Restore,
           Cleanup, Startup, BackendStart, SeedKeep, SeedWrite, SeedReload, BackendCrash,
           GeoipReload, HaproxyStart, Reliable
<1>2. IInv /\ SInv /\ [Next]_vars =>
        [pc = "reload" /\ spoa = "listening" =>
            SentNames(hap)' \ SentNames(hap) \subseteq ServedNames]_vars
  BY <1>1
<1>. QED
  BY <1>2, NamesInductive, PTL DEF Spec, NewNamesLoadedFirst

\* Whether a name is unknown depends on HAProxy's release and on the loaded one.
LEMMA SameKnown ==
    ASSUME IInv, SInv, UNCHANGED <<hap, supVars>>,
           content'[loaded] = content[loaded],
           hap # Missing => content'[HaproxyPart(hap)] = content[HaproxyPart(hap)],
           NeverUnknownName
    PROVE  NeverUnknownName'
<1>1. loaded # Missing
  BY Names DEF IInv, TypeOK, SupTypeOK
<1>2. AppNames(loaded)' = AppNames(loaded)
  BY <1>1 DEF AppNames, supVars
<1>3. SentNames(hap)' = SentNames(hap)
  <2>1. HaproxyPart(hap)' = HaproxyPart(hap)
    BY DEF HaproxyPart
  <2>2. HaproxyPart(hap) # Missing => hap # Missing
    BY Names
  <2>. QED
    BY <2>1, <2>2 DEF SentNames, AppNames
<1>. QED
  BY <1>2, <1>3 DEF NeverUnknownName, ServedNames, supVars

LEMMA BridgeKeepsKnown ==
    ASSUME IInv, SInv, WriteBridge, NeverUnknownName PROVE NeverUnknownName'
<1>1. /\ pc \in ApplyStep /\ pc = "bridge" /\ UNCHANGED <<hap, supVars>>
  BY DEF WriteBridge, ApplyStep
<1>2. \A r \in Release : r # BridgeOf(cand) => content'[r] = content[r]
  BY DEF WriteBridge, IInv, TypeOK, StoreTypeOK
<1>3. loaded \in Release /\ loaded # BridgeOf(cand)
  BY <1>1, InApply DEF IInv, TypeOK, SupTypeOK, SInv, ContentInOrder, BeforeSwap
<1>4. HaproxyPart(hap) \in Release /\ HaproxyPart(hap) # BridgeOf(cand)
  <2>1. hap = prev /\ prev \in Placed /\ HaproxyPart(hap) = hap
    BY <1>1, PairInOrder DEF SInv, HaproxyInOrder, OnPrevious
  <2>2. prev # BridgeOf(cand)
    BY <1>1, InApply DEF ReleasesKept
  <2>. QED
    BY <2>1, <2>2, PlacedReleases
<1>. QED
  BY <1>1, <1>2, <1>3, <1>4, SameKnown

LEMMA BeginKeepsKnown ==
    ASSUME IInv, SInv, Reliable, NEW config \in Offered, ApplyBegin(config), NeverUnknownName
    PROVE  NeverUnknownName'
<1>1. /\ pc = "idle" /\ pc' \in {"validate", "idle"} /\ hap # Missing
      /\ used < MaxReleases /\ used' = used + 1
      /\ content' = [content EXCEPT ![used + 1] = config]
      /\ UNCHANGED <<current, supVars, hap>>
  BY DEF ApplyBegin, StackIsUp, Reliable, GoTo, Return, Conclude
<1>2. \A r \in Release : r <= used => content'[r] = content[r]
  BY <1>1, NewContent DEF supVars, BridgeInUse
<1>3. HaproxyPart(hap) = hap /\ hap \in Release /\ hap <= used
  BY <1>1, PlacedReleases DEF SInv, HaproxyInOrder, ApplyStep, IInv, CurrentResolves, FreshIds
<1>4. loaded \in Release /\ content'[loaded] = content[loaded]
  <2>1. loaded \in Release /\ used \in Nat /\ HaproxyPart(loaded) <= used
    BY DEF IInv, TypeOK, SupTypeOK, SInv, ContentInOrder
  <2>2. loaded # used + 1
    BY <1>1, <2>1, Names DEF HaproxyPart, IInv, TypeOK, Release
  <2>. QED
    BY <1>1, <2>1, <2>2 DEF IInv, TypeOK, StoreTypeOK
<1>. QED
  BY <1>1, <1>2, <1>3, <1>4, SameKnown

LEMMA ReloadKeepsKnown ==
    ASSUME IInv, SInv, Reliable, ApplyReload, NeverUnknownName PROVE NeverUnknownName'
<1>1. /\ hap' = cand /\ UNCHANGED <<storeVars, supVars, used, prev>>
      /\ pc = "reload" /\ pc \in ApplyStep
  BY ApplyReloadOrder DEF ApplyReload, ApplyStep
<1>2. /\ hap = prev /\ SentNames(hap) = AppNames(prev) /\ HaproxyPart(cand) = cand
  BY <1>1, PairInOrder, InApply DEF SInv, HaproxyInOrder, OnPrevious
<1>3. SentNames(hap)' = AppNames(cand) /\ ServedNames' = ServedNames
  BY <1>1, <1>2 DEF SentNames, AppNames, HaproxyPart, ServedNames, storeVars, supVars, cand
<1>4. spoa = "listening" => Added \subseteq ServedNames
  BY <1>1 DEF SInv, CorazaInOrder, ServedNames
<1>. QED
  BY <1>1, <1>2, <1>3, <1>4 DEF NeverUnknownName, Added, supVars

\* What Coraza loads is the release in `current`, whatever it is by then.
LEMMA CorazaKeepsKnown ==
    ASSUME IInv, SInv, SupNext, UNCHANGED applyVars, NeverUnknownName, ~NeverUnknownName'
    PROVE  OnItsWay
<1>1. UNCHANGED storeVars
  BY SupStep DEF IInv, TypeOK
<1>2. SentNames(hap)' = SentNames(hap) /\ \A r \in Release : content'[r] = content[r]
  BY <1>1 DEF SentNames, AppNames, HaproxyPart, storeVars, applyVars
<1>3. ASSUME loaded' = loaded, spoa' # "listening" \/ spoa = "listening"
      PROVE  FALSE
  BY <1>1, <1>2, <1>3 DEF NeverUnknownName, ServedNames, AppNames, storeVars
<1>4. ASSUME spoa # "dead", loaded' = LoadResult(spoaConfig), loaded' # Missing
      PROVE  OnItsWay
  <2> DEFINE r == loaded'
  <2>1. SentNames(hap) \subseteq AppNames(r) \/ OnItsWay
    BY <1>4, LoadServes
  <2>2. AppNames(loaded)' = AppNames(r)
    BY <1>1 DEF AppNames, storeVars
  <2>. QED
    BY <1>2, <2>1, <2>2 DEF NeverUnknownName, ServedNames
<1>5. CASE SupervisorStart \/ Poll \/ Validate \/ Reload \/ Report \/ SpoaCrash
  BY <1>3, <1>5 DEF SupervisorStart, Poll, Validate, Reload, Report, SpoaCrash
<1>6. CASE SpoaUp \/ SpoaReload
  BY <1>3, <1>4, <1>6 DEF SpoaUp, SpoaReload
<1>. QED
  BY <1>5, <1>6 DEF SupNext, SupLoop, Spoa

\* The names HAProxy sends become unknown to Coraza only while an apply that
\* drops names, and adds none, has switched the link but not reloaded HAProxy
\* yet, or when such an apply is taken back.
THEOREM OnlyDroppingLosesNames ==
    ASSUME Reliable, ReloadOutcomes = {"ok"}
    PROVE  Spec => NamesLostOnlyByDropping
<1>0. AllAnswered
  BY DEF AllAnswered
<1>1. ASSUME IInv, SInv, Next, NeverUnknownName, ~NeverUnknownName'
      PROVE  DropsAppsOnly /\ pc \in {"reload", "rollback_reload"}
  <2>1. CASE \E config \in Offered : ApplyBegin(config)
    BY <1>1, <2>1, BeginKeepsKnown
  <2>2. CASE ApplyContinue
    <3>1. CASE WriteBridge
      BY <1>1, <3>1, BridgeKeepsKnown
    <3>2. CASE ApplyReload
      BY <1>1, <3>2, ReloadKeepsKnown
    <3>3. CASE RollbackReload
      BY <1>0, <1>1, <3>3 DEF RollbackReload, SInv, StepsInOrder, DropReloaded
    <3>4. CASE ~(WriteBridge \/ ApplyReload \/ RollbackReload)
      <4>1. UNCHANGED <<content, hap, supVars>>
        BY <2>2, <3>4
           DEF ApplyContinue, ApplyValidate, ApplySwap, AwaitReload, AwaitApps, LeaveBridge,
               RemoveBridge, AwaitDrop, Rollback, Restore, Cleanup, storeVars
      <4>. QED
        BY <1>1, <4>1, SameKnown
    <3>. QED
      BY <3>1, <3>2, <3>3, <3>4
  <2>3. CASE Startup
    <3>1. spoa = "dead" /\ spoa' = spoa
      BY <1>1, <2>3
         DEF Startup, BackendStart, SeedKeep, SeedWrite, SeedReload, SInv, HaproxyInOrder, supVars
    <3>. QED
      BY <1>1, <3>1 DEF NeverUnknownName
  <2>4. CASE BackendCrash
    BY <2>4 DEF BackendCrash, Reliable
  <2>5. CASE GeoipReload
    BY <1>1, <2>5, GeoipReloadOrder, SameKnown DEF vars, storeVars, applyVars
  <2>6. CASE HaproxyStart
    BY <1>1, <2>6, HaproxyStartOrder DEF NeverUnknownName, ServedNames, supVars
  <2>7. CASE SupNext /\ UNCHANGED applyVars
    BY <1>0, <1>1, <2>7, CorazaKeepsKnown DEF OnItsWay, SInv, StepsInOrder, DropReloaded
  <2>. QED
    BY <1>1, <2>1, <2>2, <2>3, <2>4, <2>5, <2>6, <2>7 DEF Next
<1>2. IInv /\ SInv /\ [Next]_vars =>
        [NeverUnknownName /\ ~NeverUnknownName' =>
            DropsAppsOnly /\ pc \in {"reload", "rollback_reload"}]_vars
  BY <1>1
<1>. QED
  BY <1>2, NamesInductive, PTL DEF Spec, NamesLostOnlyByDropping
=============================================================================
