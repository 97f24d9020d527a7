---------------------------- MODULE ConfigApply -----------------------------
(***************************************************************************)
(* services/config_apply.py: how one generated configuration is put into   *)
(* service, together with HAProxy (external) and the Coraza supervisor.    *)
(*                                                                         *)
(* `_apply_lock` lets one thread at a time through apply() and             *)
(* reload_haproxy(), so the pipeline is one sequential process with a      *)
(* program counter; ApplyCallers models who calls it and when.  Between    *)
(* any two of its steps the supervisor, coraza-spoa, a HAProxy start or a  *)
(* backend crash may happen.                                               *)
(*                                                                         *)
(* Abstracted: the file contents (ReleaseStore), the certificates, the     *)
(* stick-table wait (a delay before each reload), and the swap through a   *)
(* temporary symlink, which is one step because os.replace is atomic.      *)
(* `haproxy -c` may accept or refuse any file: its outcome also depends on *)
(* certificates, the map file and edits made by hand.  A wait for Coraza   *)
(* may time out whenever its condition does not hold yet.                  *)
(***************************************************************************)
EXTENDS CorazaSupervisor

CONSTANTS
    Offered,          \* the generated configurations that apply is called with
    ReloadOutcomes,   \* what a reload request to a running HAProxy can lead to:
                      \*   "ok"       it switched and said Success=1
                      \*   "refused"  it did not switch
                      \*   "lost"     it switched, but the answer did not arrive
    StartsInOrder,    \* the stack comes up as docker-compose.yml's depends_on
                      \* orders it, before anybody calls apply
    EntrypointSeeds,  \* the backend container's entrypoint links `current` to
                      \* the seed stub when there is no release
    SlowSupervisor,   \* a wait for Coraza may expire although an answer is coming;
                      \* FALSE: polling, compiling and starting fit into
                      \* coraza_reload_timeout_seconds (30 s, the poll is 1 s)
    BackendMayCrash,  \* fault: the backend may stop at any step
    HaproxyMayRestart \* fault: a running HAProxy may be restarted

ASSUME ApplyAssumption ==
    /\ Offered \subseteq Config
    /\ ReloadOutcomes \subseteq {"ok", "refused", "lost"}
    /\ "ok" \in ReloadOutcomes
    /\ StartsInOrder \in BOOLEAN
    /\ EntrypointSeeds \in BOOLEAN
    /\ SlowSupervisor \in BOOLEAN
    /\ BackendMayCrash \in BOOLEAN
    /\ HaproxyMayRestart \in BOOLEAN

VARIABLES
    pc,           \* the step apply (or the startup seeding) is at
    used,         \* correlation ids given out so far
    prev,         \* previous_target
    reloadOk,     \* reload_result.ok
    corazaLate,   \* coraza_after_reload is a failure
    outcome,      \* the ApplyStatus of the last apply, "none" before the first
    validated,    \* releases `haproxy -c` has accepted
    hap           \* the release whose haproxy.cfg HAProxy runs, or Missing

applyVars == <<pc, used, prev, reloadOk, corazaLate, outcome, validated, hap>>
vars == <<storeVars, supVars, applyVars>>

cand == used   \* candidate_dir: the release of the apply in progress

ApplyStatus ==
    {"success", "write_failed", "validation_failed", "reload_failed",
     "coraza_reload_failed", "reload_failed_rolled_back", "rollback_failed"}

ApplyStep ==
    {"validate", "bridge", "swap", "await_reload", "await_apps", "reload",
     "leave_bridge", "remove_bridge", "await_drop", "rollback", "rollback_reload",
     "restore", "cleanup"}

-----------------------------------------------------------------------------
\* What the apply in progress computed from its two releases (lines 171-204)

Added == AppNames(cand) \ AppNames(prev)
Retired == AppNames(prev) \ AppNames(cand)
NeedsBridge == Added # {} /\ Retired # {} /\ prev # Missing
DropsAppsOnly == Retired # {} /\ ~NeedsBridge
\* Mutant: the bridge is written, but `current` is switched to the candidate.
SwappedPastBridge == cand

Swapped == IF NeedsBridge THEN BridgeOf(cand) ELSE cand
PreloadCoraza == CorazaTree(prev) # CorazaTree(Swapped) /\ ~DropsAppsOnly

GoTo(step) == pc' = step /\ UNCHANGED outcome
Conclude(step, result) == pc' = step /\ outcome' = result
Return(result) == Conclude("idle", result)

\* Mutant: the compile check alone is trusted, the new names are not probed.
AfterPreloadUnprobed == "reload"

\* After Coraza accepted the swapped release (line 228 on).
AfterPreload == IF Added # {} THEN "await_apps" ELSE "reload"

-----------------------------------------------------------------------------
\* HAProxy

BackendHealthy == pc \notin {"down", "seeding"}
CorazaMayRun == StartsInOrder => BackendHealthy
HaproxyMayStart == StartsInOrder => BackendHealthy /\ spoa # "dead"
StackIsUp == StartsInOrder => hap # Missing

\* The container command: without a release it copies its demo config into
\* the seed release and links `current` to it, then runs what `current` names.
HaproxyStart ==
    /\ hap = Missing \/ HaproxyMayRestart
    /\ HaproxyMayStart
    /\ IF current \in dirs
       THEN hap' = HaproxyPart(current) /\ UNCHANGED <<dirs, current>>
       ELSE hap' = Seed /\ current' = Seed /\ dirs' = dirs \cup {Seed}
    /\ UNCHANGED <<content, supVars, pc, used, prev, reloadOk, corazaLate, outcome, validated>>

\* _reload_haproxy: the master re-reads `current`.  Only Success=1 counts as
\* a success; every other answer and every socket error is a failure.
CanReload == IF hap = Missing \/ current \notin dirs THEN {"refused"} ELSE ReloadOutcomes
HaproxyReload(result) ==
    hap' = IF result = "refused" THEN hap ELSE HaproxyPart(current)

\* reload_haproxy, called by the GeoIP refresh.  It waits for the apply lock.
GeoipReload ==
    /\ pc = "idle"
    /\ \E result \in CanReload : HaproxyReload(result)
    /\ UNCHANGED <<storeVars, supVars, pc, used, prev, reloadOk, corazaLate, outcome, validated>>

-----------------------------------------------------------------------------
\* apply

\* Lines 91-140: read the link, write the candidate.  A failed write leaves
\* whatever part of the directory exists.
ApplyBegin(config) ==
    /\ pc = "idle" /\ used < MaxReleases
    /\ StackIsUp
    /\ used' = used + 1
    /\ prev' = IF current \in dirs THEN current ELSE Missing
    /\ content' = [content EXCEPT ![used + 1] = config]
    /\ dirs' = dirs \cup {used + 1}
    /\ reloadOk' = FALSE /\ corazaLate' = FALSE
    /\ GoTo("validate") \/ Return("write_failed")
    /\ UNCHANGED <<current, supVars, validated, hap>>

\* Mutant: the files of the bridge are taken for validated, too.
ApplyValidateMarksBridge ==
    /\ pc = "validate"
    /\ \/ /\ dirs' = dirs \ {cand}
          /\ Return("validation_failed")
          /\ UNCHANGED validated
       \/ /\ validated' = validated \cup {Swapped}
          /\ GoTo(IF NeedsBridge THEN "bridge" ELSE "swap")
          /\ UNCHANGED dirs
    /\ UNCHANGED <<content, current, supVars, used, prev, reloadOk, corazaLate, hap>>

\* Mutant: a refused candidate is logged and activated all the same.
ApplyValidateIgnored ==
    /\ pc = "validate"
    /\ GoTo(IF NeedsBridge THEN "bridge" ELSE "swap")
    /\ UNCHANGED <<storeVars, supVars, used, prev, reloadOk, corazaLate, validated, hap>>

\* Lines 142-158, and the choice of line 176.
ApplyValidate ==
    /\ pc = "validate"
    /\ \/ /\ dirs' = dirs \ {cand}
          /\ Return("validation_failed")
          /\ UNCHANGED validated
       \/ /\ validated' = validated \cup {cand}
          /\ GoTo(IF NeedsBridge THEN "bridge" ELSE "swap")
          /\ UNCHANGED dirs
    /\ UNCHANGED <<content, current, supVars, used, prev, reloadOk, corazaLate, hap>>

\* _write_bridge and its error path, lines 177-194.  The retired applications
\* bring the previous release's rule files with them, compiling or not.
BridgeRules ==
    {content[cand].rules} \cup
        (IF Compiles(cand) /\ ~Compiles(prev) THEN {content[prev].rules} ELSE {})

WriteBridge ==
    /\ pc = "bridge"
    /\ \/ /\ dirs' = dirs \cup {BridgeOf(cand)}
          /\ \E text \in BridgeRules :
                content' = [content EXCEPT ![BridgeOf(cand)] =
                                [apps  |-> AppNames(cand) \cup Retired,
                                 rules |-> text,
                                 site  |-> content[cand].site]]
          /\ GoTo("swap")
       \/ /\ dirs' = dirs \ {cand, BridgeOf(cand)}
          /\ Return("write_failed")
          /\ UNCHANGED content
    /\ UNCHANGED <<current, supVars, used, prev, reloadOk, corazaLate, validated, hap>>

\* Lines 196-206.
ApplySwap ==
    /\ pc = "swap"
    /\ current' = Swapped
    /\ GoTo(IF PreloadCoraza THEN "await_reload" ELSE AfterPreload)
    /\ UNCHANGED <<content, dirs, supVars, used, prev, reloadOk, corazaLate, validated, hap>>

\* _wait_for_coraza_reload, lines 207-226: the status file names this release,
\* or the wait times out.  Waiting is not taking the step.
Reported(r) == status.release = r /\ status.result # "none"
CorazaAccepted(r) == Reported(r) /\ status.result = "ok"
\* Nothing about the current release will ever be reported: the supervisor
\* started on it, or coraza-spoa cannot start with it.
CorazaSilent ==
    /\ supPc = "poll" /\ ~hup
    /\ IF spoa = "listening"
       THEN lastRelease = current
       ELSE LoadResult(SelectedConfig) = Missing
MayTimeOut == SlowSupervisor \/ CorazaSilent

\* Mutant: no deadline.
AwaitReloadForever ==
    /\ pc = "await_reload"
    /\ Reported(Swapped)
    /\ \/ CorazaAccepted(Swapped) /\ GoTo(AfterPreload)
       \/ ~CorazaAccepted(Swapped) /\ Conclude("restore", "coraza_reload_failed")
    /\ UNCHANGED <<storeVars, supVars, used, prev, reloadOk, corazaLate, validated, hap>>

AwaitReload ==
    /\ pc = "await_reload"
    /\ \/ CorazaAccepted(Swapped) /\ GoTo(AfterPreload)
       \/ /\ ~CorazaAccepted(Swapped)
          /\ Reported(Swapped) \/ MayTimeOut
          /\ Conclude("restore", "coraza_reload_failed")
    /\ UNCHANGED <<storeVars, supVars, used, prev, reloadOk, corazaLate, validated, hap>>

\* _wait_for_coraza_apps, lines 228-253.
AwaitApps ==
    /\ pc = "await_apps"
    /\ \/ Added \subseteq ServedNames /\ GoTo("reload")
       \/ /\ ~(Added \subseteq ServedNames)
          /\ MayTimeOut
          /\ Conclude("restore", "coraza_reload_failed")
    /\ UNCHANGED <<storeVars, supVars, used, prev, reloadOk, corazaLate, validated, hap>>

\* Lines 255-292: where the reload result leads, once a bridge is left.
AfterReload(ok) ==
    CASE ~ok -> GoTo("rollback")
      [] ok /\ DropsAppsOnly /\ CorazaTree(prev) # CorazaTree(cand) -> GoTo("await_drop")
      [] OTHER -> Return("success")

ApplyReload ==
    /\ pc = "reload"
    /\ \E result \in CanReload :
          /\ HaproxyReload(result)
          /\ reloadOk' = (result = "ok")
    /\ IF NeedsBridge THEN GoTo("leave_bridge") ELSE AfterReload(reloadOk')
    /\ UNCHANGED <<storeVars, supVars, used, prev, corazaLate, validated>>

\* Mutant: the bridge is removed while `current` still names it.
LeaveBridgeLinked ==
    /\ pc = "leave_bridge"
    /\ GoTo("remove_bridge")
    /\ UNCHANGED <<storeVars, supVars, used, prev, reloadOk, corazaLate, validated, hap>>

\* Line 259, also when the reload failed.
LeaveBridge ==
    /\ pc = "leave_bridge"
    /\ current' = cand
    /\ GoTo("remove_bridge")
    /\ UNCHANGED <<content, dirs, supVars, used, prev, reloadOk, corazaLate, validated, hap>>

\* Line 260.
RemoveBridge ==
    /\ pc = "remove_bridge"
    /\ dirs' = dirs \ {BridgeOf(cand)}
    /\ AfterReload(reloadOk)
    /\ UNCHANGED <<content, current, supVars, used, prev, reloadOk, corazaLate, validated, hap>>

\* Mutant: the rejection is reported, but HAProxy is not rolled back.
AwaitDropKeepsHaproxy ==
    /\ pc = "await_drop"
    /\ \/ CorazaAccepted(cand) /\ Return("success")
       \/ /\ ~CorazaAccepted(cand)
          /\ Reported(cand) \/ MayTimeOut
          /\ Conclude("restore", "coraza_reload_failed")
    /\ UNCHANGED <<storeVars, supVars, used, prev, reloadOk, corazaLate, validated, hap>>

\* Lines 262-292: HAProxy no longer sends the dropped names; now Coraza has to
\* accept the release.
AwaitDrop ==
    /\ pc = "await_drop"
    /\ \/ CorazaAccepted(cand) /\ Return("success") /\ UNCHANGED corazaLate
       \/ /\ ~CorazaAccepted(cand)
          /\ Reported(cand) \/ MayTimeOut
          /\ GoTo("rollback")
          /\ corazaLate' = TRUE
    /\ UNCHANGED <<storeVars, supVars, used, prev, reloadOk, validated, hap>>

\* Mutant: HAProxy is reloaded without switching `current` back first.
RollbackUnswapped ==
    /\ pc = "rollback"
    /\ \/ prev = Missing /\ Conclude("restore", "reload_failed")
       \/ prev # Missing /\ Return("rollback_failed")
       \/ prev # Missing /\ GoTo("rollback_reload")
    /\ UNCHANGED <<storeVars, supVars, used, prev, reloadOk, corazaLate, validated, hap>>

\* Lines 300-355: without a previous release the link is removed; otherwise
\* the previous release is put back if it still validates.
Rollback ==
    /\ pc = "rollback"
    /\ \/ prev = Missing /\ Conclude("restore", "reload_failed") /\ UNCHANGED current
       \/ prev # Missing /\ Return("rollback_failed") /\ UNCHANGED current
       \/ prev # Missing /\ GoTo("rollback_reload") /\ current' = prev
    /\ UNCHANGED <<content, dirs, supVars, used, prev, reloadOk, corazaLate, validated, hap>>

\* Lines 356-404.
RollbackReload ==
    /\ pc = "rollback_reload"
    /\ \E result \in CanReload :
          /\ HaproxyReload(result)
          /\ CASE result # "ok" -> Return("rollback_failed")
               [] result = "ok" /\ corazaLate -> Conclude("cleanup", "coraza_reload_failed")
               [] OTHER -> Return("reload_failed_rolled_back")
    /\ UNCHANGED <<storeVars, supVars, used, prev, reloadOk, corazaLate, validated>>

\* Mutant: the link is removed even when there is a previous release.
RestoreUnlinks ==
    /\ pc = "restore"
    /\ current' = Missing
    /\ GoTo("cleanup")
    /\ UNCHANGED <<content, dirs, supVars, used, prev, reloadOk, corazaLate, validated, hap>>

\* _coraza_reload_failed with restore_current (830-834), and the unlink of a
\* first release that could not be loaded (306-309).
Restore ==
    /\ pc = "restore"
    /\ current' = prev
    /\ GoTo("cleanup")
    /\ UNCHANGED <<content, dirs, supVars, used, prev, reloadOk, corazaLate, validated, hap>>

\* Lines 835-848 and 310-328: the directories go only after the link left them.
Cleanup ==
    /\ pc = "cleanup"
    /\ dirs' = dirs \ {cand, BridgeOf(cand)}
    /\ GoTo("idle")
    /\ UNCHANGED <<content, current, supVars, used, prev, reloadOk, corazaLate, validated, hap>>

-----------------------------------------------------------------------------
\* Backend start and crash

\* docker-entrypoint.sh: link the stub when `current` holds no release.
BackendStart ==
    /\ pc = "down"
    /\ IF EntrypointSeeds /\ current \notin dirs
       THEN dirs' = dirs \cup {Seed} /\ current' = Seed
       ELSE UNCHANGED <<dirs, current>>
    /\ GoTo("seeding")
    /\ UNCHANGED <<content, supVars, used, prev, reloadOk, corazaLate, validated, hap>>

\* seed_runtime_config (429-470): a release that was applied is left alone;
\* the seed is replaced by what the database generates.  Generating, writing
\* or validating may fail, which leaves everything as it was.
SeedKeep ==
    /\ pc = "seeding"
    /\ GoTo("idle")
    /\ UNCHANGED <<storeVars, supVars, used, prev, reloadOk, corazaLate, validated, hap>>

SeedWrite(config) ==
    /\ pc = "seeding" /\ used < MaxReleases
    /\ current \notin dirs \/ current = Seed
    /\ used' = used + 1
    /\ content' = [content EXCEPT ![used + 1] = config]
    /\ dirs' = dirs \cup {used + 1}
    /\ validated' = validated \cup {used + 1}
    /\ current' = used + 1
    /\ GoTo(IF current \in dirs /\ hap # Missing THEN "seed_reload" ELSE "idle")
    /\ UNCHANGED <<supVars, prev, reloadOk, corazaLate, hap>>

\* Lines 472-482: the result is only logged.
SeedReload ==
    /\ pc = "seed_reload"
    /\ \E result \in CanReload : HaproxyReload(result)
    /\ GoTo("idle")
    /\ UNCHANGED <<storeVars, supVars, used, prev, reloadOk, corazaLate, validated>>

\* The caller of an interrupted apply gets no answer.
BackendCrash ==
    /\ BackendMayCrash
    /\ pc # "down"
    /\ Conclude("down", "none")
    /\ UNCHANGED <<storeVars, supVars, used, prev, reloadOk, corazaLate, validated, hap>>

-----------------------------------------------------------------------------
Init ==
    /\ StoreInit
    /\ SupInit
    /\ pc = "down"
    /\ used = 0
    /\ prev = Missing
    /\ reloadOk = FALSE
    /\ corazaLate = FALSE
    /\ outcome = "none"
    /\ validated = {}
    /\ hap = Missing

\* The steps of an apply that has begun.
ApplyContinue ==
    \/ ApplyValidate \/ WriteBridge \/ ApplySwap \/ AwaitReload \/ AwaitApps
    \/ ApplyReload \/ LeaveBridge \/ RemoveBridge \/ AwaitDrop
    \/ Rollback \/ RollbackReload \/ Restore \/ Cleanup

Startup ==
    \/ BackendStart \/ SeedKeep \/ SeedReload
    \/ \E config \in Offered : SeedWrite(config)

Next ==
    \/ \E config \in Offered : ApplyBegin(config)
    \/ ApplyContinue
    \/ Startup
    \/ BackendCrash
    \/ GeoipReload
    \/ HaproxyStart
    \/ SupNext /\ CorazaMayRun /\ UNCHANGED applyVars

Spec == Init /\ [][Next]_vars

\* The backend comes up, an apply in progress keeps running, the supervisor keeps polling and
\* coraza-spoa finishes its loads.  Nobody has to call apply.
Fairness ==
    /\ WF_vars(Startup)
    /\ WF_vars(ApplyContinue)
    /\ WF_vars(SupLoop /\ CorazaMayRun /\ UNCHANGED applyVars)
    /\ WF_vars(Spoa /\ CorazaMayRun /\ UNCHANGED applyVars)

FairSpec == Spec /\ Fairness

-----------------------------------------------------------------------------
\* Properties

TypeOK ==
    /\ StoreTypeOK
    /\ SupTypeOK
    /\ pc \in {"down", "idle", "seeding", "seed_reload"} \cup ApplyStep
    /\ used \in 0 .. MaxReleases
    /\ prev \in Link
    /\ reloadOk \in BOOLEAN
    /\ corazaLate \in BOOLEAN
    /\ outcome \in ApplyStatus \cup {"none"}
    /\ validated \subseteq Written
    /\ hap \in Release \cup {Missing}

\* `current` never dangles, at whatever step the backend stops: a directory is
\* removed only after the link has left it (config_apply.py:259-260, 830-837).
CurrentResolves == current = Missing \/ current \in dirs

\* Whatever HAProxy runs, and whatever a start or a reload at this moment would
\* make it run, has passed `haproxy -c` or is the placeholder.
ActivatedIsValidated ==
    {hap, HaproxyPart(current)} \subseteq validated \cup {Seed, Missing}

\* The status returned to the caller describes the runtime: after "success"
\* `current` and HAProxy are on the new release; after every failure but
\* rollback_failed `current` is the previous release again (or the placeholder
\* a HAProxy start put where there was none); after reload_failed_rolled_back
\* HAProxy runs that release.
CurrentIsPrev == current = prev \/ (prev = Missing /\ current = Seed)
OutcomeIsTrue ==
    pc = "idle" =>
        /\ outcome = "success" => current = cand /\ hap = cand
        /\ outcome \in ApplyStatus \ {"success", "rollback_failed"} => CurrentIsPrev
        /\ outcome = "reload_failed_rolled_back" => hap = HaproxyPart(prev)

\* docs/architecture.md:114-116: when Coraza rejects a release or stays silent,
\* "the previous release stays active": HAProxy is not left on the new one, not
\* even when it had been reloaded onto it before Coraza was asked.
CorazaFailureKeepsHaproxy ==
    pc = "idle" /\ outcome = "coraza_reload_failed" => hap # cand

\* docs/architecture.md:101-102: "in an order where HAProxy never sends a name
\* Coraza has not loaded".  The code does not keep this.
NeverUnknownName == spoa = "listening" => SentNames(hap) \subseteq ServedNames

\* The part of it that the code keeps: the names HAProxy sends become unknown
\* to Coraza through nothing but an apply that drops names and adds none, which
\* lets Coraza load the candidate before HAProxy is reloaded (line 198), and,
\* when it is taken back, HAProxy the previous release before Coraza does.
NamesLostOnlyByDropping ==
    [][NeverUnknownName /\ ~NeverUnknownName' =>
          DropsAppsOnly /\ pc \in {"reload", "rollback_reload"}]_vars

\* The reload of an apply never makes HAProxy start sending a name that Coraza
\* does not serve at that moment (config_apply.py:163-164).
NewNamesLoadedFirst ==
    [][pc = "reload" /\ spoa = "listening" =>
          SentNames(hap)' \ SentNames(hap) \subseteq ServedNames]_vars

\* An apply always gives its caller an answer.
ApplyReturns == pc \in ApplyStep ~> pc = "idle"

\* A release left in `current` that compiles ends up being what Coraza serves:
\* "Coraza picks it up again on its next poll" (config_apply.py:237-238) and
\* "that change is still noticed" (coraza-supervisor.sh:161-162).
ServesCurrent ==
    /\ spoa = "listening"
    /\ CorazaTree(loaded) = CorazaTree(current)
CorazaConverges ==
    \A r \in Release : <>[](current = r /\ Compiles(r)) => <>[]ServesCurrent

\* The pipeline implements the abstract switch: every step is a step of it or
\* leaves what it talks about alone.
Answered ==
    IF pc \in ApplyStep \/ outcome = "none" THEN "none"
    ELSE IF outcome = "success" THEN "switched"
    ELSE IF outcome = "rollback_failed" THEN "unknown"
    ELSE "kept"

Promise == INSTANCE SafeSwitch WITH
    Id <- Written,
    Nothing <- Missing,
    Placeholder <- Seed,
    active <- HaproxyPart(current),
    running <- hap,
    busy <- pc \in ApplyStep,
    target <- cand,
    fallback <- HaproxyPart(prev),
    answer <- Answered

ImplementsSwitch == Promise!SSSpec
=============================================================================
