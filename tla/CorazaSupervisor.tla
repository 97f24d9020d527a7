-------------------------- MODULE CorazaSupervisor --------------------------
(***************************************************************************)
(* docker/coraza-supervisor.sh and the coraza-spoa process it owns.        *)
(*                                                                         *)
(* The supervisor is one sequential loop.  Each of its reads of `current`  *)
(* is a step of its own, because the backend may swap the link between     *)
(* the poll that names a release (CURRENT_RELEASE) and the validation and  *)
(* the reload, which open whatever `current` names by then.                *)
(* coraza-spoa is external: what it does is taken from how the supervisor  *)
(* and the apply pipeline use it.  It handles SIGHUP some time after the   *)
(* signal is sent, keeps its rules when the new ones do not compile, and   *)
(* exits when they do not compile at start.                                *)
(* Sleeping, the wording of the status detail and the root-to-coraza       *)
(* re-exec are left out; the audit log rotation belongs to the log         *)
(* pipeline.                                                               *)
(***************************************************************************)
EXTENDS ReleaseStore

CONSTANT CorazaMayCrash   \* fault: coraza-spoa may exit at any time

ASSUME SupervisorAssumption == CorazaMayCrash \in BOOLEAN

VARIABLES
    status,       \* the reload-status file: a release and its result
    supPc,        \* where the loop is: "poll", "validate", "reload", "report"
    seen,         \* CURRENT_RELEASE of this iteration
    lastRelease,  \* LAST_RELEASE
    chosen,       \* the config file accept_release selected
    spoa,         \* coraza-spoa: "dead", "starting", "listening"
    spoaConfig,   \* SPOA_CONFIG, the file the process was started with
    loaded,       \* the release whose rules it serves; Seed = the fallback
    hup           \* a SIGHUP was sent and is not handled yet

supVars == <<status, supPc, seen, lastRelease, chosen, spoa, spoaConfig, loaded, hup>>

ConfigFile == {"generated", "fallback"}

SelectedConfig == IF HasGeneratedYaml THEN "generated" ELSE "fallback"

\* What loading a config file gives: a release, Seed for the fallback, or
\* Missing when there is nothing that compiles.
LoadResult(config) ==
    CASE config = "fallback" -> Seed
      [] config = "generated" /\ HasGeneratedYaml /\ Compiles(current) -> current
      [] OTHER -> Missing

\* The applications coraza-spoa answers for right now.
ServedNames == IF spoa = "listening" THEN AppNames(loaded) ELSE {}

-----------------------------------------------------------------------------
\* The loop

\* Lines 131-132, when the container starts or Compose restarts it because
\* the loop found coraza-spoa gone and exited (142-146).
SupervisorStart ==
    /\ supPc = "poll" /\ spoa = "dead"
    /\ lastRelease' = current
    /\ spoaConfig' = SelectedConfig
    /\ spoa' = "starting"
    /\ hup' = FALSE
    /\ UNCHANGED <<storeVars, status, supPc, seen, chosen, loaded>>

\* Lines 148-156: a changed link is looked at only once the listener is open.
Poll ==
    /\ supPc = "poll" /\ spoa = "listening"
    /\ current # lastRelease
    /\ seen' = current
    /\ supPc' = "validate"
    /\ UNCHANGED <<storeVars, status, lastRelease, chosen, spoa, spoaConfig, loaded, hup>>

\* accept_release, lines 84-92: the release is named by the poll, but what is
\* compiled is what `current` names now.  A rejection is reported and
\* remembered like an acceptance (160-163).
Validate ==
    /\ supPc = "validate"
    /\ IF LoadResult(SelectedConfig) = Missing
       THEN /\ status' = [release |-> seen, result |-> "error"]
            /\ lastRelease' = seen
            /\ supPc' = "poll"
            /\ UNCHANGED chosen
       ELSE /\ chosen' = SelectedConfig
            /\ supPc' = "reload"
            /\ UNCHANGED <<status, lastRelease>>
    /\ UNCHANGED <<storeVars, seen, spoa, spoaConfig, loaded, hup>>

\* accept_release, lines 94-104: a SIGHUP, or a new process when the config
\* file itself changed.  start_spoa selects the file again.  A SIGHUP to a
\* process that is gone fails and is ignored: accept_release runs inside an
\* `if`, where `set -e` does not apply.
Reload ==
    /\ supPc = "reload"
    /\ IF chosen # spoaConfig
       THEN /\ spoa' = "starting"
            /\ spoaConfig' = SelectedConfig
            /\ hup' = FALSE
       ELSE /\ hup' = (spoa = "listening")
            /\ UNCHANGED <<spoa, spoaConfig>>
    /\ supPc' = "report"
    /\ UNCHANGED <<storeVars, status, seen, lastRelease, chosen, loaded>>

\* Mutant: LAST_RELEASE is read again from the link after the reload.
ReportRereads ==
    /\ supPc = "report"
    /\ status' = [release |-> seen, result |-> "ok"]
    /\ lastRelease' = current
    /\ supPc' = "poll"
    /\ UNCHANGED <<storeVars, seen, chosen, spoa, spoaConfig, loaded, hup>>

\* Lines 105 and 159: the status file is replaced by a rename, so a reader
\* sees the old or the new one.
Report ==
    /\ supPc = "report"
    /\ status' = [release |-> seen, result |-> "ok"]
    /\ lastRelease' = seen
    /\ supPc' = "poll"
    /\ UNCHANGED <<storeVars, seen, chosen, spoa, spoaConfig, loaded, hup>>

-----------------------------------------------------------------------------
\* coraza-spoa

\* The process compiles its config file, then opens the listener; it exits
\* when nothing compiles.
SpoaUp ==
    /\ spoa = "starting"
    /\ LET r == LoadResult(spoaConfig)
       IN  /\ spoa' = IF r = Missing THEN "dead" ELSE "listening"
           /\ loaded' = IF r = Missing THEN loaded ELSE r
    /\ UNCHANGED <<storeVars, status, supPc, seen, lastRelease, chosen, spoaConfig, hup>>

\* The SIGHUP handler rebuilds every application from the file the process
\* was started with and swaps them in, or keeps what it has.
SpoaReload ==
    /\ spoa = "listening" /\ hup
    /\ hup' = FALSE
    /\ LET r == LoadResult(spoaConfig)
       IN  loaded' = IF r = Missing THEN loaded ELSE r
    /\ UNCHANGED <<storeVars, status, supPc, seen, lastRelease, chosen, spoa, spoaConfig>>

SpoaCrash ==
    /\ CorazaMayCrash
    /\ spoa # "dead"
    /\ spoa' = "dead"
    /\ hup' = FALSE
    /\ UNCHANGED <<storeVars, status, supPc, seen, lastRelease, chosen, spoaConfig, loaded>>

-----------------------------------------------------------------------------
SupInit ==
    /\ status = [release |-> Missing, result |-> "none"]
    /\ supPc = "poll"
    /\ seen = Missing
    /\ lastRelease = Missing
    /\ chosen = "fallback"
    /\ spoa = "dead"
    /\ spoaConfig = "fallback"
    /\ loaded = Seed
    /\ hup = FALSE

SupLoop == SupervisorStart \/ Poll \/ Validate \/ Reload \/ Report
Spoa == SpoaUp \/ SpoaReload
SupNext == SupLoop \/ Spoa \/ SpoaCrash

SupTypeOK ==
    /\ status \in [release : Link, result : {"none", "ok", "error"}]
    /\ supPc \in {"poll", "validate", "reload", "report"}
    /\ seen \in Link
    /\ lastRelease \in Link
    /\ chosen \in ConfigFile
    /\ spoa \in {"dead", "starting", "listening"}
    /\ spoaConfig \in ConfigFile
    /\ loaded \in Release
    /\ hup \in BOOLEAN
=============================================================================
