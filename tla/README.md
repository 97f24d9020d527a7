# Guard Proxy: a TLA+ model

Guard Proxy is a WAF panel: a FastAPI backend keeps vhosts and policies in a
database, generates configurations for HAProxy and coraza-spoa, and stores the
audit events Coraza produces. Most of what can go wrong in it lies between
programs that have no common transaction: which release HAProxy runs and which
one Coraza has compiled, what the database says is deployed, up to which line
the audit file has been stored, which rows two requests have read before either
wrote. These modules model those moments. Line numbers are those of the files
named; `PROJECT.json` maps every definition to its lines.

## 1. The system

| Component | State it keeps | Operations | Interacts through |
|---|---|---|---|
| Config apply (`services/config_apply.py`) | `releases/<id>/`, the `current` symlink, `_apply_lock` | `apply`, `seed_runtime_config`, `reload_haproxy` | runtime volume, HAProxy master socket, reload-status file, SPOP probe |
| Coraza supervisor (`docker/coraza-supervisor.sh`) | `LAST_RELEASE`, `SPOA_CONFIG`, the child process, reload-status | poll, validate, SIGHUP or restart, report, rotate the audit log | runtime volume (read only), status volume, audit volume |
| coraza-spoa, HAProxy (external) | loaded rules; running configuration, maps, certificates, stick-tables | load, reload, crash | `current`, SPOE, sockets |
| Container start (`docker-entrypoint.sh`, `docker-compose.yml`) | seed stub, demo config | link `current` when there is no release | runtime volume, `depends_on` |
| `POST /config/apply` (`routers/config.py`), startup (`main.py`) | router lock, `RuntimeOperation` rows | read tables, generate, apply, record; seed, reconcile | database, `apply()` |
| Certificates (`certbot_service.py`, `scheduler.py`) | `ssl_*` columns, certbot's files, one directory of PEM files | upload, issue, renew daily, write | certbot, database, `apply()` |
| Runtime status (`runtime_status_service.py`, `ApplyConfigButton.tsx`) | | compare checksums | operation log |
| Vhosts, policies, bindings (`vhost_service.py`, `policy_service.py`) | tables with foreign keys | create, patch, delete | database; read by `generate()` |
| Exclusions, custom rules, rendering (`exclusion_service.py`, `config_renderer.py`) | tables | create, patch, delete, render | database; read by `generate()` |
| Tuning (`tuning_service.py`) | `tuning_suggestions` | analyse daily or on request, approve, reject | `logs`, exclusions |
| GeoIP refresh (`geoip_service.py`) | mmdb, its validators, the map file, a lock | download, swap, generate the map, reload | upstream, `reload_haproxy()`, the stub `config_apply` writes |
| Ban list (`ban_list_service.py`) | stick-tables of the HAProxy worker | list, unban | Runtime API, reloads |
| Accounts (`scripts/manage_users.py`, `auth_service.py`, `dependencies.py`) | `users`, JWTs | create, seed, update; login, refresh; `require_admin` | database |
| Log shipper (`log-shipper/app/shipper.py`, `mapping.py`) | offset, device, inode; dead letters | tail, map, post, retry, rotate | audit volume, `POST /logs/ingest` |
| Ingest, statistics, retention (`routers/logs.py`, `log_severity.py`, `stats_service.py`, `log_retention.py`) | `logs` rows, unique `producer_event_id` | look up, classify, insert; count; purge daily | database |

**Where it is hard.**

- *Order between programs.* HAProxy names a Coraza application per vhost and
  coraza-spoa answers 503 for a name it does not know. The two are switched by
  a symlink one of them polls, a status file, a probe and a reload command.
- *Failure in the middle.* Each step of an apply can fail, the rollback can
  fail, the answer of HAProxy can be lost, and the backend can stop anywhere.
  Database, map and validators of GeoIP, and PEM files, are several files.
- *Time of check.* The supervisor names a release and then loads whatever the
  link names; the shipper takes the stat of a path and then opens it; a request
  reads its tables one after the other; a PATCH validates the row it read; the
  lockout guard of the accounts counts admins it has not locked.
- *Several callers.* An admin's apply, the renewal job and the GeoIP refresh
  each reload HAProxy, and each reload hands the bans to a new worker.
- *At-least-once delivery.* Posts time out and are repeated, and positions are
  saved after the fact.
- *Two readings of one thing.* The analyzer and the renderer each have a notion
  of path scope, counters and charts each have their own interval, and the
  severity is judged by a threshold other than the one enforced.

**What makes each part correct.**

| Part | Correct means |
|---|---|
| Apply | `current` resolves, HAProxy runs only what was validated, the answer is true, new names are loaded before they are sent |
| Supervisor | it ends on the current release |
| Callers | the row called deployed is the active release, an apply undoes only itself, the lock is always released |
| Certificates | what is served for a Let's Encrypt vhost does not expire |
| Vhosts and policies | what is refused of the stored rows is what an admin can see and undo, the default binding mirrors the vhost, a policy in use stays |
| Tuning and exclusions | one suggestion per target, resolved once; an approved exclusion covers the requests it came from; no exclusion is skipped; rule numbers differ |
| GeoIP | no part of a map is published, "up to date" is true, map and HAProxy catch up with the upstream |
| Bans | a reload keeps them, an unban ends them |
| Accounts | one active admin remains, only active admins are admitted |
| Shipper and ingest | nothing skipped, nothing dropped that could be stored, everything arrives |
| Mapping and dashboard | the stored verdict is Coraza's, charts and counters agree |

`PROJECT.json` lists the hazards at their lines, each with the properties that
would catch it.

## 2. The modules

```
ReleaseStore <- CorazaSupervisor <- ConfigApply <- MCConfigApply     (TLC)
                                        |     ^--- ConfigApply_proofs (TLAPS)
                                        '-- implements --> SafeSwitch
ApplyCallers    uses SafeSwitch's promise of apply()
ScopePaths   <- RuleTuning
AuditMapping <- Dashboard
LogShipper, AdminDatabase, GeoipRefresh, BanList, Accounts, Certificates
```

Each component has an `MC` module that names its instance for TLC. Eight
`_proofs` modules hold the theorems about them; `Vhosts_proofs` is about
`AdminDatabase` and `Certificates`, `Logs_proofs` about `LogShipper` and
`Dashboard`, each other one about the module it is named after.

| Module | Code | Correspondence |
|---|---|---|
| `ReleaseStore` | release directories and `current` | A release is a number: 0 is `releases/seed`, `1..MaxReleases` the written ones, `MaxReleases + i` the bridge of `i`. Its content is the set of application names, the rule text and the rest of `haproxy.cfg`. |
| `CorazaSupervisor` | the supervisor loop and the process it owns | `Poll`, `Validate`, `Reload`, `Report` are the loop cut at every read of `current`; `SpoaUp`, `SpoaReload` are the asynchronous loads. |
| `ConfigApply` | `_apply_locked`, seeding, GeoIP reload, HAProxy, container starts | one action for each stretch between two effects another program can see; `pc` is the stretch, `prev` is `previous_target`, `cand` the candidate. |
| `SafeSwitch` | the promise of `POST /config/apply` | abstract: a switch with a fallback and a true answer. |
| `ApplyCallers` | `routers/config.py`, the renewal job, startup, `RuntimeOperation` | threads with both locks and what each has read; an apply is begin, switches, a true end. |
| `Certificates` | uploads, issuance, `renew_certificates`, PEM files, HAProxy's start and reloads | a certificate is a serial with the time it has left; `disk` is the shared directory, a file that is being written is `Bad`; an apply is what it does to PEM files. |
| `AdminDatabase` | `vhost_service.py`, `policy_service.py`, the refusals of `config_generator.py` | a PATCH is a read and a commit, with the autoflush of `_sync_default_policy_binding` between; `lock` is the row lock of an UPDATE; foreign keys cascade in the committing step. A domain or a backend's address is whether the renderer takes it, and `Refused` is what `generate()` then refuses. |
| `ScopePaths` | `common_scope_path`, `_within_scope`, `scope_matchers` | a path is the sequence of its characters; the common prefix cut at a slash, and what a control rule fires on. |
| `RuleTuning` | `tuning_service.py`, `exclusion_service.py`, custom rules, rule numbers of the renderer | `tx` is what a transaction has read; an analysis is a read and a commit over the events of one window; `ControlId` is the numbering. |
| `GeoipRefresh` | `geoip_service.py`, `ensure_map_file_exists` | `Ensure`, `Get`, `Body`, `Swap`, `Store`, `Generate`, `Write`, `PublishMap`, `Compare`, `Reload` are the refresh cut at its writes; `FindsNoMap`, `OpensStub`, `WritesStub`, `StubFails` are the look, the open that empties the file and the write of the stub, by any thread; a file is a version and whether it is whole. |
| `BanList` | `unban`, `_active_ban_tables`, the handover wait of `reload_haproxy` | `tables` are those of the running configuration, `autoban` those the database would give; `teaching` are the bans on their way to the new worker. |
| `Accounts` | `manage_users.py`, `seed_admin.py`, `auth_service.py`, `dependencies.py` | a command is its reads and its commit; a token is its subject, role and type. |
| `AuditMapping` | `mapping.py` | a text is the score it states, an `error_message` the sequence of its fields. |
| `Dashboard` | ingest's severity, `stats_service.py`, `log_retention.py` | a transaction has a score and may be denied by a rule of its own; half-second clock; `policy` is the row, `enforced` what Coraza runs; windows and buckets as operators over `logs`. |
| `LogShipper` | `run()`, `/logs/ingest`, the audit file | a file is a sequence of line parts; positions count them. |

`ConfigApply` is stated over one apply at a time because `_apply_lock` allows
one. Who gets the lock, and what the database and the operation log say
meanwhile, is `ApplyCallers`. What it assumes of `apply()` is what `SafeSwitch`
promises and `PipelineImplementsSwitch` proves. `Certificates`, `BanList` and
`GeoipRefresh` each keep of an apply or a reload what it does to their state.

**Faults are constants.** `BackendMayCrash`, `CorazaMayCrash`,
`HaproxyMayRestart`, `ReloadOutcomes` ("ok", "refused", and "lost": HAProxy
switched and the answer did not come), `StartsInOrder` (the `depends_on` order),
`EntrypointSeeds`, `SlowSupervisor` (a wait for Coraza may expire though an
answer is on its way), `TruncatesInPlace`, `RenameWhileOpening`, `SaveMayFail`,
`DeadLetterMayFail`, `MaxStops`; `Bad` versions and `MaxFaults` in
`GeoipRefresh`. A failed write, a refused validation, an outage of the Runtime
API and an expired wait for something that will not come are always possible.

**What the properties except.** Where the code itself gives up a promise in a
corner, the model contains the corner, a variable remembers that it was reached,
and the property speaks of the rest. Each of these is a finding or a hazard:

| Variable | Module | Remembers |
|---|---|---|
| `stale` | `AdminDatabase`, `RuleTuning` | the rows two transactions have overlapped on |
| `raced` | `Accounts` | two updates overlapped |
| `missed` | `ApplyCallers` | the renewal job switched, a row is dated before the one it follows, or a start could not generate |
| `missed`, `Missed` | `Certificates` | vhosts whose row is not as the last apply, or the one under way, has it |
| `mishaps` | `GeoipRefresh` | "cut": a stub whose writing stopped after the file was emptied; "torn": that, or a stop, between validators and map; "covered": a stub opened over a map; "unloaded": a failed reload or a stop before it |
| `pardoned`, `disturbed` | `BanList` | the addresses unbanned with nothing in the way (no outage, edit, handover, offence) |
| `same` | `Dashboard` | the policy row had the enforced threshold at ingest, and the event carried its flag |
| `cut` | `LogShipper` | files that were truncated in place |

## 3. The runs

| Run | Instance | Shows |
|---|---|---|
| `apply_faults` | 2 releases, 2 names, 3 configurations, all faults | types, `CurrentResolves`, `ActivatedIsValidated`, `OutcomeIsTrue`, refinement of `SafeSwitch` |
| `apply_steady` | 3 releases, 5 configurations, no faults, fairness | `NewNamesLoadedFirst`, `NamesLostOnlyByDropping`, `CorazaFailureKeepsHaproxy`, `ApplyReturns`, `CorazaConverges` |
| `callers` | 2 requests, the job, 2 contents of each of 2 tables, fairness | `DeployedRowIsActive`, `UndoesItsOwn`, `LockIsReleased` |
| `certs` | 2 vhosts, 3 certificates, 2 edits, lifetime 3 × 30 days, crashes, restarts | `RenewedInTime` |
| `refused_pem_stays` | 2 vhosts, 2 certificates, 3 edits, no faults | violation of `EndsStartable` |
| `admin` | 2 admins, 1 vhost, 2 policies, 4 backend lists, 5 requests | `MirrorHolds`, `FilterIsRendered`, `RefusalIsVisible`, `AssignedPolicyStays` |
| `tuning` | 2 workers, 3 windows of events, 4 requests or analyses | `OneRowPerTarget`, `ResolvedOnce`, `ApprovedTakesEffect`, `ScopesAgree`, `NoneIsSkipped`, `RuleIdsDiffer` |
| `geoip` | the job, a request, an apply; 3 versions, one of them garbage; 2 faults, fairness | `MapIsWhole`, `UpToDateIsTrue`, `MapCatchesUp`, `HaproxyCatchesUp` |
| `bans` | 2 vhosts, 1 address, 1 unban at a time, windows of 5 and 6 s, fairness | `UnbanHolds`, `BansSurviveReload`, `ReloadEnds` |
| `accounts` | 2 processes, 2 addresses, 4 commands | `AdminStays`, `OnlyAdminsAdmitted` |
| `shipper` | 3 events (a plain one in two parts, refused, too long), 2 files, 2 requests, 1 stop, fairness | `OnlyHopelessDropped`, `SavedIsSettled`, `ReadIsSettled`, `SavedOnlyAdvances`, `EventArrives` |
| `dashboard` | 2 transactions out of 8, 3 modes of the policy, 2 buckets of 2 s, 4 s retention | `ChartsAgree`, `VerdictIsTrue` |

**Bounds.**

- *Pipeline.* `MaxReleases = 2` gives a previous release and a candidate, after a
  crash or a seeding as well; 3 gives an apply, a failed one and a third that
  starts from what the failure left. Two names are enough for a release that
  adds, drops, or exchanges them (the bridge). Two rule texts, one of which does
  not compile, give every verdict of Coraza.
- *Shipper.* `LineLimit = 2` and lines of two and of three parts give an over-long
  line, an unfinished one that is not, and one entered in the middle; `RotateAt = 3`
  lets either be cut off by a rotation. Two request slots let a
  timed-out post race with its repetition.
- *Callers.* Two contents of each of two tables give a read torn by an edit, one
  of the four combinations being one `generate()` refuses.
- *Certificates.* Two edits give an uploaded pair, a change of provider, a
  vhost taken away or the second vhost; three certificates an issue, a renewal
  and the renewal of that; with a lifetime of three units there are two in which
  the job has nothing to do, one in which it has, and one more in which it is late.
- *Admin database.* Two admins are enough for every race of a read and a commit;
  five requests create a policy and a vhost, bind a path and leave two patches to
  overlap. The backend lists are a good one, a disabled one, one that passes the
  schemas and not the renderer (no host in the URL, a path with a character it
  refuses), and one with two paths. A patch changes one field (`VhostPatches` is a
  parameter; the proofs hold for any), policies are created as the panel does. Names and
  admins are symmetric, and no liveness is checked there.
- *Tuning.* The windows contain a group that is too small, two paths with and
  without a common prefix (`/a`, `/a/b`, `/ab`, `/a/`), a request with a query
  string, a path that is not known, and a target that did not fire alone.
  Four requests are an analysis, an approval and two more that overlap.
- *GeoIP.* Garbage between two databases, and two faults, give a failure of the
  refresh that would have repaired a failure, a stub cut short among them. A refresh
  and an apply give two writers of the stub, or a stub over a map just published.
- *Bans.* HAProxy waits 5 s for its predecessor and the backend 6 s for the
  handover; these are the code's numbers. Two vhosts give a table that is cleared
  and one that is not. Unbans by several requests are left to the proof.
- *Accounts.* Two addresses give two admins and an exchange of address; four
  commands create both and change both.
- *Dashboard.* The clock starts half a second into a bucket and runs through two
  windows, so that a purge, both windows of the counters and every edge occur. The
  transactions have scores below, at and twice the threshold, every place where the
  score may be written, echoes that state another one, and rules that deny by
  themselves at a score of zero and at a high one.

The proofs lift these bounds for the properties of section 4.

**What the violation says, and the other findings.** An uploaded pair that does
not load is written into the directory all releases share before `haproxy -c`
refuses it, and nothing takes it back: the active release cannot be started any
more (`refused_pem_stays`). The other findings in `PROJECT.json` were met while
modelling and have no run of their own. In short: a release that only drops names is
linked before HAProxy is reloaded; the supervisor does not notice a link that was
moved and put back between polls; an apply with unchanged Coraza files does not
ask Coraza; a long outage ends in a truncated audit file; a rename between stat
and open gives the new file the old file's offset (`RenameWhileOpening = TRUE`
in `shipper.cfg` shows it); the renewal job applies edits nobody applied, and
does not repeat an apply that failed; after a failed apply nothing counts as
pending; overlapping PATCHes part the default binding from its vhost, and
overlapping runs of `manage_users.py` demote both admins; a stop between
validators and map leaves an old map that is called up to date, and so does a cut
stub an empty one, although the code takes care of a stub
(`geoip_service.py:402-404`); PATCH stores a domain that POST refuses and the
renderer too (`schemas/vhost.py:160` says otherwise), and both store backend URLs
without a host; the severity is judged by the policy row and not by the enforced
threshold; what a rule alone would have denied is "allow" and "low" in
DetectionOnly, where `log_severity.py:29` says medium; the 30-day trend
compares with purged rows; an unban does not reach a table whose vhost was
edited and not applied.

**Fairness.**

- `ConfigApply`: the backend starts, an apply in progress goes on (each wait has
  a deadline), the supervisor's loop and coraza-spoa's loads go on. Nothing
  forces a caller, a HAProxy start or a fault.
- `LogShipper`: Compose restarts the shipper, it keeps running, the backend
  finishes requests; a strong condition says that attempts do succeed now and
  then (the lookup, the insert and the saving of the position), which is what
  "retries until it is accepted" needs and all it needs.
- `ApplyCallers`: the request that holds the router's lock and the job proceed,
  `apply()` returns (`ApplyReturns`), and the request gets the apply lock
  eventually, whose only other user runs once a day.
- `GeoipRefresh`: a refresh under way goes on, the job is started daily and gets
  the lock now and then, and a thread that found no map opens and writes the stub.
  Nobody has to ask for a refresh, and faults are bounded by `MaxFaults`: "catches
  up" is said of what happens once they stop.
- `BanList`: time passes, a handover that was begun ends, and a reload whose
  wait is over goes on. The wait has its deadline of 6 s in the code.
- `Certificates` states no fairness. That the job completes without an
  error at least once in 30 days is the guard of `Tick`: if certbot fails for
  longer, certificates do expire.

## 4. What is proved

Each theorem holds for all values of the constants that satisfy the assumption
named in its module (`StoreAssumption`, `SupervisorAssumption` and
`ApplyAssumption` for the pipeline, `CallersAssumption`, `AdminAssumption`,
`CertAssumption`, `TuningAssumption`, `TargetAssumption` and
`CharacterAssumption`, `GeoipAssumption`, `BanAssumption`, `AccountsAssumption`,
`ShipperAssumption`, `MappingAssumption` and `DashboardAssumption`); TLC
evaluates them in the runs. They say what the schemas and settings guarantee
(thresholds and counts are positive, a scope begins with a slash, the handover
wait is longer than the resync window) and that the special values are no data.

| Module | Theorem | Statement |
|---|---|---|
| `ConfigApply_proofs` | `Inductive` | `Spec => []IInv` |
| | `TypeCorrect` | `Spec => []TypeOK` |
| | `LinkResolves` | `Spec => []CurrentResolves` |
| | `OnlyValidatedRuns` | `Spec => []ActivatedIsValidated` |
| | `AnswerIsTrue` | `Spec => []OutcomeIsTrue` |
| | `PipelineImplementsSwitch` | `Spec => ImplementsSwitch` |
| | `RejectedReleaseIsLeft` | with `StartsInOrder` and `~HaproxyMayRestart`: `Spec => []CorazaFailureKeepsHaproxy` |
| | `AddedNamesAreLoaded` | with `Reliable`: `Spec => NewNamesLoadedFirst` |
| | `OnlyDroppingLosesNames` | with `Reliable` and `ReloadOutcomes = {"ok"}`: `Spec => NamesLostOnlyByDropping` |
| `ApplyCallers_proofs` | `OwnSwitchOnly` | `Spec => []UndoesItsOwn` |
| | `DeployedIsActive` | `Spec => []DeployedRowIsActive` |
| `Logs_proofs` | `NothingGoodDropped` | (*) `Spec => []OnlyHopelessDropped` |
| | `RestartSkipsNothing` | (*) `Spec => []SavedIsSettled` |
| | `RotationSkipsNothing` | (*) `Spec => []ReadIsSettled` |
| | `PositionOnlyAdvances` | (*) `Spec => SavedOnlyAdvances` |
| | `VerdictsAreCorazas` | `DashboardSpec => []VerdictIsTrue` |
| | `ChartsShowTheCounters` | `DashboardSpec => []ChartsAgree` |
| `Vhosts_proofs` | `Mirrors` | `Spec => []MirrorHolds` |
| | `FiltersRender` | `Spec => []FilterIsRendered` |
| | `RefusalsShow` | `Spec => []RefusalIsVisible` |
| | `DeletionClearsNothing` | `Spec => AssignedPolicyStays` |
| | `NeverServesExpired` | `CertificatesSpec => []RenewedInTime` |
| `RuleTuning_proofs` | `TargetsHaveOneRow` | `Spec => []OneRowPerTarget` |
| | `ReviewsAreFinal` | `Spec => []ResolvedOnce` |
| | `ExclusionsRender` | `Spec => []NoneIsSkipped` |
| | `RulesHaveTheirNumbers` | `Spec => []RuleIdsDiffer` |
| | `ApprovalsTakeEffect` | `Spec => []ApprovedTakesEffect` |
| | `AnalyzerAndRendererAgree` | `Spec => []ScopesAgree` |
| `GeoipRefresh_proofs` | `WholeMapsOnly` | `Spec => []MapIsWhole` |
| | `UpToDateIsTold` | `Spec => []UpToDateIsTrue` |
| `BanList_proofs` | `UndisturbedUnbanHolds` | `Spec => []UnbanHolds` |
| | `ReloadKeepsBans` | `Spec => BansSurviveReload` |
| `Accounts_proofs` | `LastAdminStays` | `Spec => AdminStays` |
| | `AdminsAdmitted` | `Spec => OnlyAdminsAdmitted` |

(*) with `~DeadLetterMayFail` and `~RenameWhileOpening`. A dead letter that
cannot be written loses its line, and a rename between stat and open gives the
position to another file.

`Reliable` is `StartsInOrder`, `~BackendMayCrash`, `~HaproxyMayRestart` and
`"refused" \notin ReloadOutcomes`: HAProxy switches when it is told to. Its answer
may be lost, and Coraza may crash and be slow as it likes.
`NamesLostOnlyByDropping` also needs every answer to arrive: a lost one makes
`apply` roll back a release HAProxy already runs. Neither
theorem needs less: TLC finds `NamesLostOnlyByDropping` violated without any one of
its five assumptions and `NewNamesLoadedFirst` without any one of its four. A
HAProxy that starts before Coraza, or a backend that comes back, runs a release no
Coraza was asked about. A refused reload leaves HAProxy on a release the rollback
has left, so that the next apply compares names with a release that is not
running; a HAProxy that restarts during the handshake does the same, which takes
four releases and a slow supervisor to matter: the third apply is taken back while
Coraza still serves the second, and the fourth has the rule files of the first, so
that no handshake is made.

None of the properties is inductive. Each proof has a strengthening, `IInv` where a module has one proof, one lemma per action that the
action preserves it (`...Keeps`), a lemma that puts these together (`NextKeepsIInv`
or `NextKeeps`) and the theorem `Inductive`.

- *ConfigApply.* `OutcomeIsTrue` speaks of an idle pipeline; to keep it one has
  to know where the link and HAProxy are at every step before the answer. `IInv`
  adds, for an apply in progress: its two releases exist, differ and are
  validated (`ReleasesKept`); the link is on the previous release before the swap
  and after a rollback, on the bridge or the candidate in between
  (`LinkInPhase`); HAProxy is on the candidate once a reload said so
  (`HaproxyInPhase`); the answer is set only where the code sets it
  (`AnswerInPhase`). `FreshIds` says that a new correlation id names no existing
  directory, without which `ApplyBegin` could overwrite the active release. The
  supervisor touches none of this (`SupStep`), so its steps cost one lemma. The
  refinement uses `IInv` in both states of a step: `StepSwitch` shows that each
  step is a step of `SafeSwitch` or leaves what it sees unchanged; a bridge maps
  to its candidate, since its `haproxy.cfg` is the candidate's.
  `RejectedReleaseIsLeft` needs its two assumptions: if HAProxy starts by itself
  during the handshake it takes up the candidate, which is in `current` by then.
- *Names of ConfigApply.* `SInv` adds to `IInv` what the handshake does to
  coraza-spoa. While HAProxy sends names, coraza-spoa is on the generated
  configuration and what it has loaded is the current or the previous release
  (`CorazaInOrder`); at the reload the added names are loaded, whatever SIGHUP
  is still pending, because every release between serves them: a bridge has the
  names of both releases (`ContentInOrder`). When a reload's answer is lost the
  rollback begins with HAProxy on the candidate; what matters until its own reload
  is the names of the previous release, which HAProxy will send then
  (`NamesInUse`).
- *ApplyCallers.* One thread is inside `apply()` and it holds the lock
  (`ApplyIsExclusive`), one request is between lock and row (`RouterIsExclusive`),
  nobody works before startup ended (`IdleUntilUp`), a result belongs to a request
  that has not recorded it (`ResultsAreAwaited`), and the last row describes
  `active` or the apply that is about to be recorded (`RowDescribes`).
- *LogShipper.* A line is written whole before the next (`LinesWhole`,
  `LineInProgress`), and `Followed` says for each `pc` what the shipper's own
  variables mean: the position in memory is settled, what `item` covers is the
  next line and is settled once `pc` is "advance", the stat is of the file at the
  path, an answer that is awaited is about `item`. For `NothingGoodDropped`,
  `DropInv` adds where lines stand: a line is begun once, in one file
  (`WrittenOnce`), its units follow each other (`LinesPlaced`), and a position that
  is saved or read from is between two lines or behind what a rotation cut short
  (`Between` in `DropsAreRight`), so that what is read from it is a line's beginning
  unless that line stands whole nowhere. The arithmetic of one read is
  `ConsumedIsRight`. `PathAhead` says that only a file the writer has left is
  drained.
- *Dashboard.* `VerdictInv`: every event on its way is one Coraza wrote of some
  transaction and policy (`Emitted`), and every row has the verdict
  (`IsVerdict`: `Verdict` of what Coraza did and `Severity` of what the event
  states). That rests on lemmas about the mapping for any message of either
  form: which field `FieldOf` and `FirstOf` find (`FieldIs`, `FirstIs`), what is
  read of a matched rule and of the evaluation rule (`RuleIsRead`,
  `EvaluationIsRead`), of any number of messages, with or without the evaluation
  (`MessagesAreRead`), and of the whole event (`PayloadOfEmitted`). The charts are
  arithmetic (`SlotHolds`): a bucket counts whole seconds from the whole second the
  window starts in, so its edge is off by less than one second, and the clamp
  catches the one bucket too many that this can give.
- *AdminDatabase.* The foreign keys hold (`References`); every vhost that is not
  stale is mirrored and has servers with one health path (`VhostsServable`); and
  `AllInformed`: a transaction on a row that is not stale has in hand the row that
  is stored. The last is what READ COMMITTED takes away and `stale` gives back. With it
  `RefusalsShow` goes through the reasons of `Refused`: a missing policy and a
  default binding of another one are ruled out by the foreign key and the mirror,
  missing servers and several paths by `AcceptableServers`; the rest is visible.
- *Certificates.* A Let's Encrypt row's certificate has time left, and after a
  run of the job it outlasts the next 30 days or is among those the job still has
  to renew (`RowsLive`). For a domain outside `Missed`, release, file and running
  HAProxy have what the row has (`InStep`); while an apply is under way its
  generated configuration is what stands in for the row, and the directory has
  the files it has already written (`Writing`).
- *RuleTuning.* The same idea for analyses, reviews and PATCHes (`AllInformed`),
  with `KeysDiffer` for ids. `RuleIdsDiffer` rests on the arithmetic of
  `ControlId` and the range of custom ids. `ScopesCover` says of suggestions,
  exclusions and approvals under way that the requests they came from lie in
  their scope: the common prefix of the paths, cut at its last slash, covers each
  of them, and the two control rules of a scope fire on exactly the paths
  `_within_scope` takes (`SuggestedCovers` and the lemmas before it).
- *GeoipRefresh.* One caller works and it holds the lock (`Exclusive`), database
  and validators are in the order they are written (`FilesInOrder`), the temporary
  files are whole from the step on that renames them (`InPhase`), and the map is
  of the stored version, a stub, or one that is being written, when nobody is at
  work (`MapMatches`, `Fits`). A refresh that writes the stub has not yet asked for
  the database (`StubFirst`); a thread in `apply()` may write it at any moment, and
  `mishaps` tells what that did.
- *BanList.* An undisturbed unban has all the tables in view, with the ones it
  has passed clear (`UndisturbedInView`), and a pardoned address is in no table and
  in no handover (`PardonedAreFree`). `WaitOutlasts`: whenever a reload waits, what is
  left of its wait is longer than what is left of the resync window.
- *Accounts.* Ids are given once (`IdsAreUnique`); an update that nothing
  overlapped knows the row, and has counted the admins that there are
  (`UpdatesAreInformed`).

**What the proofs changed.** Four statements turned out to be false or
unprovable on larger instances than the runs had, and were restated:

- that HAProxy sends an unknown name only while an apply drops names is false
  when such an apply is taken back, since Coraza may still be on its way to the
  release that was left. `NamesLostOnlyByDropping` says which steps lose a name.
- `RenewedInTime` needs `Missed`, which also speaks of the apply under way: its
  rows may have changed since it read them. On the way the model lost an error:
  the job could commit a certificate to a vhost deleted meanwhile.
- the analyzer and the renderer agree on paths of characters, not only on paths
  already split at slashes; a scope that contains "?" is the exception, see below.
- `ChartsAgree` compares the rows that are counted and not their numbers.

**Only model-checked.** Every liveness property (`ApplyReturns`,
`CorazaConverges`, `EventArrives`, `LockIsReleased`, `MapCatchesUp`,
`HaproxyCatchesUp`, `ReloadEnds`) and what depends on ENABLED: the proof system
has no rules for them that its backends can use. Every invariant and every
action property of the passing runs is a theorem.

## 5. What is not modelled

- In the pipeline: the GeoIP stub it writes (that is in `GeoipRefresh`, where
  HAProxy is taken to load an empty map, in which nothing is found), orphaned
  temporary links, a link that is not a link (`state_invalid`), an `OSError` of the
  swap itself, which ends the request with a 500 in the middle of an apply, and of the
  unlinking of `current` (a hazard with a note). The checksum leaves certificates out.
- `haproxy -c` and the layout of the templates: any file may be accepted or
  refused. The checks that schemas and renderer make alike.
- In the shipper: a missing file, blank lines, backoff times, legacy formats of
  the state file, a second rotation within one poll, and a truncated file refilled
  to the saved position, which the code declares out of scope
  (`shipper.py:14-15`); properties leave such files out.
- Certificates: renaming a vhost's domain, a patch of the key alone, certbots that
  collide on the HTTP-01 port, more than one request to `POST /config/apply` at a time.
- The validation rows of the operation log, which are only displayed.
- Rule overrides (one row with a unique constraint), the redaction of logs,
  listings and top tables, the list of banned addresses, expiry and rate counters
  of stick-tables, password hashing and rate limits of the login.
- Exclusion scopes that contain "?": the schema accepts one that is typed by hand,
  and no path lies in it. Request lines with a raw "#", where the analyzer
  cuts the path and Coraza does not.
- Copied fields of an audit event: URI, method, address, status code. Custom rules
  that switch the engine of their own transaction (`ctl:ruleEngine`).
- The frontend, which presents the API; migrations, benchmarks and static files.

## 6. What is left

1. One module in which `ApplyCallers` and HAProxy meet, for a start that
   reconciles the log with a HAProxy that runs another release.
2. A failing unlink in `ReleaseStore`, with the weaker property that holds then.

## 7. Running

```
tlc -workers 2 -config apply_faults.cfg MCConfigApply.tla
tlapm ConfigApply_proofs.tla
```

| Configurations | Module |
|---|---|
| `apply_faults`, `apply_steady` | `MCConfigApply` |
| `callers` | `MCApplyCallers` |
| `certs`, `refused_pem_stays` | `MCCertificates` |
| `admin` | `MCAdminDatabase` |
| `tuning` | `MCRuleTuning` |
| `geoip` | `MCGeoipRefresh` |
| `bans` | `MCBanList` |
| `accounts` | `MCAccounts` |
| `shipper` | `MCLogShipper` |
| `dashboard` | `MCDashboard` |

The longest runs (`apply_faults`, `admin`, `certs`, `tuning`, `shipper`, `dashboard`)
take one to three minutes.
Deadlock is checked except where a bound on requests or time ends the behaviour
(`admin`, `tuning`, `accounts`, `dashboard`). The definitions marked "Mutant:" are
plausible bugs, used to see that each property can fail.
