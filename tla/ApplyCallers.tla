---------------------------- MODULE ApplyCallers ----------------------------
(***************************************************************************)
(* Who puts configurations into service, and what the panel is told:       *)
(* POST /config/apply, the certificate renewal job and the startup         *)
(* seeding, with the database they read and the log of RuntimeOperation    *)
(* rows that GET /runtime/status shows.                                    *)
(*                                                                         *)
(* The apply pipeline is reduced to what SafeSwitch says of it, which      *)
(* ConfigApply implements: it begins, may switch `current`, and ends with  *)
(* a true answer.  A release is named by the configuration it was          *)
(* generated from, so equal configurations are equal checksums.  The       *)
(* checksum leaves certificates out, and so does this module.              *)
(*                                                                         *)
(* The database is two tables, because a caller reads table after table    *)
(* and an edit may be committed in between: `vhosts`, and `rest` for the   *)
(* policies, overrides, exclusions, custom rules and bindings.             *)
(*                                                                         *)
(* Left out: the validation rows, which are only displayed, and what       *)
(* changes HAProxy but not `current`: its restarts and the reload of the   *)
(* GeoIP refresh, which ConfigApply has.                                   *)
(***************************************************************************)
EXTENDS Integers, Sequences

CONSTANTS
    Request,    \* threads that serve POST /config/apply
    Job,        \* the renewal job: none or one (apscheduler, max_instances 1)
    Vhosts,     \* contents of the vhosts table
    Rest,       \* contents of the other tables
    Broken,     \* configurations that generate() cannot render
    Nothing     \* no release, the placeholder, no thread, nothing read

Config == [vhosts : Vhosts, rest : Rest]

ASSUME CallersAssumption ==
    /\ Broken \subseteq Config
    /\ Request \cap Job = {}
    /\ Nothing \notin Config \cup Request \cup Job

VARIABLES
    db,         \* the stored configuration
    active,     \* what `current` names
    prev,       \* the release the apply in progress began from
    backend,    \* "down", "reconciling", "up"
    pc,         \* where each thread is
    snap,       \* what each thread has read so far
    routerLock, \* the request that holds the router's _apply_lock, or Nothing
    applyLock,  \* the thread that holds config_apply's _apply_lock, or Nothing
    begun,      \* requests by the start of their transaction, the oldest first
    late,       \* requests whose transaction is older than the latest row's
    row,        \* the latest reload row: a status and a configuration
    result,     \* request -> the status of the reload row it has to record
    missed      \* history: the latest row need not describe `current`

switchVars == <<active, prev>>
lockVars == <<routerLock, applyLock>>
rowVars == <<begun, late, row, result, missed>>
vars == <<switchVars, db, backend, pc, snap, lockVars, rowVars>>

Thread == Request \cup Job
NoRow == [status |-> "none", config |-> Nothing]
Unread == [vhosts |-> Nothing, rest |-> Nothing]

At(t, step, next) == pc[t] = step /\ pc' = [pc EXCEPT ![t] = next]

\* The end of a request's session; the router's lock is released on every way
\* out of the `try` (lines 98, 167-168).
Close(q) ==
    /\ pc' = [pc EXCEPT ![q] = "idle"]
    /\ snap' = [snap EXCEPT ![q] = Unread]
    /\ begun' = SelectSeq(begun, LAMBDA r : r # q)
    /\ late' = late \ {q}
    /\ routerLock' = IF routerLock = q THEN Nothing ELSE routerLock

-----------------------------------------------------------------------------
\* Edits through the API: one table per request, committed at once.
Edit ==
    /\ backend = "up"
    /\ \/ \E v \in Vhosts : db' = [db EXCEPT !.vhosts = v]
       \/ \E r \in Rest : db' = [db EXCEPT !.rest = r]
    /\ UNCHANGED <<switchVars, backend, pc, snap, lockVars, rowVars>>

-----------------------------------------------------------------------------
\* POST /config/apply

\* require_admin reads the user, which begins the transaction whose time
\* stamps every row this request writes (created_at defaults to now()).
Ask(q) ==
    /\ backend = "up"
    /\ At(q, "idle", "asked")
    /\ begun' = Append(begun, q)
    /\ UNCHANGED <<switchVars, db, backend, snap, lockVars, late, row, result, missed>>

\* Lines 93-108: 409 while another request is at it, or for a stale seed config.
TakeRouterLock(q) ==
    /\ pc[q] = "asked"
    /\ \/ Close(q)
       \/ /\ routerLock = Nothing
          /\ routerLock' = q
          /\ At(q, "asked", "vhosts")
          /\ UNCHANGED <<snap, begun, late>>
    /\ UNCHANGED <<switchVars, db, backend, applyLock, row, result, missed>>

\* Line 110, and line 24 of the scheduler.
ReadVhosts(t) ==
    /\ At(t, "vhosts", "rest")
    /\ snap' = [snap EXCEPT ![t].vhosts = db.vhosts]
    /\ UNCHANGED <<switchVars, db, backend, lockVars, rowVars>>

\* Mutant: an early return that keeps the router's lock.
GenerateKeepsLock(q) ==
    /\ pc[q] = "rest"
    /\ LET config == [snap[q] EXCEPT !.rest = db.rest]
       IN  IF config \in Broken
           THEN /\ pc' = [pc EXCEPT ![q] = "idle"]
                /\ snap' = [snap EXCEPT ![q] = Unread]
                /\ begun' = SelectSeq(begun, LAMBDA r : r # q)
                /\ late' = late \ {q}
                /\ UNCHANGED routerLock
           ELSE /\ At(q, "rest", "wait")
                /\ snap' = [snap EXCEPT ![q] = config]
                /\ UNCHANGED <<begun, late, routerLock>>
    /\ UNCHANGED <<switchVars, db, backend, applyLock, row, result, missed>>

\* Lines 111-133: read the other tables and generate, or answer 422.
Generate(q) ==
    /\ pc[q] = "rest"
    /\ LET config == [snap[q] EXCEPT !.rest = db.rest]
       IN  IF config \in Broken
           THEN Close(q)
           ELSE /\ At(q, "rest", "wait")
                /\ snap' = [snap EXCEPT ![q] = config]
                /\ UNCHANGED <<begun, late, routerLock>>
    /\ UNCHANGED <<switchVars, db, backend, applyLock, row, result, missed>>

\* Mutant: the renewal job does not wait for the apply lock.
BeginApplyUnlocked(t) ==
    /\ applyLock = Nothing \/ t \in Job
    /\ applyLock' = t
    /\ At(t, "wait", "apply")
    /\ prev' = active
    /\ UNCHANGED <<active, db, backend, snap, routerLock, rowVars>>

\* apply(): one thread at a time.
BeginApply(t) ==
    /\ applyLock = Nothing
    /\ applyLock' = t
    /\ At(t, "wait", "apply")
    /\ prev' = active
    /\ UNCHANGED <<active, db, backend, snap, routerLock, rowVars>>

\* The pipeline at work.
Switch(t) ==
    /\ pc[t] = "apply"
    /\ active' = snap[t]
    /\ UNCHANGED <<prev, db, backend, pc, snap, lockVars, rowVars>>

\* How an apply ends.  A failure leaves or puts back the previous release,
\* unless the rollback fails.
Switched(t) == active = snap[t] /\ active' = snap[t]
Kept == active' = prev
Unknown == active' \in {active, prev}

Release(t) ==
    /\ At(t, "apply", "done")
    /\ applyLock' = Nothing
    /\ prev' = Nothing

\* apply() returns to the router.  When the candidate was not even validated
\* (write_failed, validation_failed), no reload row follows.
EndApply(q) ==
    /\ Release(q)
    /\ \/ Switched(q) /\ result' = [result EXCEPT ![q] = "success"] /\ missed' = FALSE
       \/ /\ Kept \/ Unknown
          /\ result' = [result EXCEPT ![q] = "failed"] /\ missed' = FALSE
       \/ UNCHANGED <<active, result, missed>> /\ active = prev
    /\ UNCHANGED <<db, backend, snap, routerLock, begun, late, row>>

\* The requests whose transaction began before that of q.
Older(q) == {begun[i] : i \in {i \in 1 .. Len(begun) :
                                   \E j \in i + 1 .. Len(begun) : begun[j] = q}}

\* Mutant: the row gets the checksum of what is stored when it is written.
RecordRereads(q) ==
    /\ pc[q] = "done"
    /\ IF result[q] = "none" \/ q \in late
       THEN /\ Close(q)
            /\ missed' = IF result[q] = "none" THEN missed ELSE TRUE
            /\ UNCHANGED row
       ELSE /\ pc' = [pc EXCEPT ![q] = "idle"]
            /\ snap' = [snap EXCEPT ![q] = Unread]
            /\ begun' = SelectSeq(begun, LAMBDA r : r # q)
            /\ late' = Older(q)
            /\ routerLock' = Nothing
            /\ row' = [status |-> result[q], config |-> db]
            /\ UNCHANGED missed
    /\ result' = [result EXCEPT ![q] = "none"]
    /\ UNCHANGED <<switchVars, db, backend, applyLock>>

\* _record_runtime_operations.  get_latest_operation orders by created_at, so
\* a row of a transaction that began before the latest row's does not show.
Record(q) ==
    /\ pc[q] = "done"
    /\ IF result[q] = "none" \/ q \in late
       THEN /\ Close(q)
            /\ missed' = IF result[q] = "none" THEN missed ELSE TRUE
            /\ UNCHANGED row
       ELSE /\ pc' = [pc EXCEPT ![q] = "idle"]
            /\ snap' = [snap EXCEPT ![q] = Unread]
            /\ begun' = SelectSeq(begun, LAMBDA r : r # q)
            /\ late' = Older(q)
            /\ routerLock' = Nothing
            /\ row' = [status |-> result[q], config |-> snap[q]]
            /\ UNCHANGED missed
    /\ result' = [result EXCEPT ![q] = "none"]
    /\ UNCHANGED <<switchVars, db, backend, applyLock>>

-----------------------------------------------------------------------------
\* renew_certificates, for one certificate: the vhosts are read before certbot
\* runs, the other tables after it.  Certbot may fail (76-77).
RenewStart(j) ==
    /\ backend = "up"
    /\ At(j, "idle", "vhosts")
    /\ UNCHANGED <<switchVars, db, backend, snap, lockVars, rowVars>>

RenewEnd(j) ==
    /\ pc[j] \in {"rest", "done"}
    /\ pc' = [pc EXCEPT ![j] = "idle"]
    /\ snap' = [snap EXCEPT ![j] = Unread]
    /\ UNCHANGED <<switchVars, db, backend, lockVars, rowVars>>

\* Lines 60-72.  The session keeps the rows it has read (expire_on_commit is
\* off): a vhost loaded at line 24 is used as it was then, the others as they
\* are now.  A configuration that cannot be rendered is logged (74-75).
RenewGenerate(j) ==
    /\ \E v \in {snap[j].vhosts, db.vhosts} :
          LET config == [vhosts |-> v, rest |-> db.rest]
          IN  /\ config \notin Broken
              /\ snap' = [snap EXCEPT ![j] = config]
    /\ At(j, "rest", "wait")
    /\ UNCHANGED <<switchVars, db, backend, lockVars, rowVars>>

\* Line 73: the result is not looked at.
RenewApplied(j) ==
    /\ Release(j)
    /\ Switched(j) \/ Kept \/ Unknown
    /\ missed' = IF active' = prev THEN missed ELSE TRUE
    /\ UNCHANGED <<db, backend, snap, routerLock, begun, late, row, result>>

-----------------------------------------------------------------------------
\* Restarts

BackendCrash ==
    /\ backend' = "down"
    /\ pc' = [t \in Thread |-> "idle"] /\ snap' = [t \in Thread |-> Unread]
    /\ routerLock' = Nothing /\ applyLock' = Nothing
    /\ begun' = <<>> /\ late' = {} /\ result' = [q \in Request |-> "none"]
    /\ prev' = Nothing
    /\ UNCHANGED <<active, db, row, missed>>

\* _seed_runtime_config: generate; an applied release is kept, a placeholder
\* replaced.  When generating, writing or validating fails the backend starts
\* all the same, without the reconciliation.
Seed ==
    /\ backend = "down"
    /\ \/ /\ db \notin Broken
          /\ active' = IF active = Nothing THEN db ELSE active
          /\ backend' = "reconciling"
          /\ UNCHANGED missed
       \/ /\ db \in Broken \/ active = Nothing
          /\ backend' = "up"
          /\ missed' = TRUE
          /\ UNCHANGED active
    /\ UNCHANGED <<prev, db, pc, snap, lockVars, begun, late, row, result>>

\* _reconcile_runtime_operation_checksum.
Reconcile ==
    /\ backend = "reconciling"
    /\ row' = IF row.config = active
              THEN row ELSE [status |-> "success", config |-> active]
    /\ missed' = FALSE
    /\ backend' = "up"
    /\ UNCHANGED <<switchVars, db, pc, snap, lockVars, begun, late, result>>

-----------------------------------------------------------------------------
Init ==
    /\ active = Nothing /\ prev = Nothing
    /\ db \in Config
    /\ backend = "down"
    /\ pc = [t \in Thread |-> "idle"] /\ snap = [t \in Thread |-> Unread]
    /\ routerLock = Nothing /\ applyLock = Nothing
    /\ begun = <<>> /\ late = {} /\ result = [q \in Request |-> "none"]
    /\ row = NoRow /\ missed = FALSE

Serve(q) == TakeRouterLock(q) \/ ReadVhosts(q) \/ Generate(q) \/ EndApply(q) \/ Record(q)
Renew(j) == ReadVhosts(j) \/ RenewGenerate(j) \/ RenewApplied(j) \/ RenewEnd(j)
Startup == Seed \/ Reconcile

Next ==
    \/ Edit
    \/ \E q \in Request : Ask(q) \/ Serve(q)
    \/ \E j \in Job : RenewStart(j) \/ Renew(j)
    \/ \E t \in Thread : BeginApply(t) \/ Switch(t)
    \/ BackendCrash
    \/ Startup

Spec == Init /\ [][Next]_vars

\* The request that holds the router's lock keeps going, so does the job
\* (certbot ends) and apply() returns (ApplyReturns in ConfigApply).  The
\* request gets the apply lock now and then: the job that competes for it runs
\* once a day.
Fairness ==
    /\ WF_vars(\E q \in Request : routerLock = q /\ Serve(q))
    /\ SF_vars(\E q \in Request : BeginApply(q))
    /\ \A j \in Job : WF_vars(Renew(j))

FairSpec == Spec /\ Fairness

-----------------------------------------------------------------------------
\* Properties

TypeOK ==
    /\ {active, prev} \subseteq Config \cup {Nothing}
    /\ db \in Config
    /\ backend \in {"down", "reconciling", "up"}
    /\ pc \in [Thread -> {"idle", "asked", "vhosts", "rest", "wait", "apply", "done"}]
    /\ snap \in [Thread -> [vhosts : Vhosts \cup {Nothing}, rest : Rest \cup {Nothing}]]
    /\ routerLock \in Request \cup {Nothing}
    /\ applyLock \in Thread \cup {Nothing}
    /\ begun \in Seq(Request) /\ late \subseteq Request
    /\ row \in [status : {"success", "failed"}, config : Config] \cup {NoRow}
    /\ result \in [Request -> {"none", "success", "failed"}]
    /\ missed \in BOOLEAN

\* No apply is running or about to be recorded.
Quiet == backend = "up" /\ applyLock = Nothing /\ \A q \in Request : pc[q] # "done"

\* What the panel calls deployed is what `current` names, also after a crash
\* between a switch and its row and after a configuration was edited during
\* its own apply.  It is not so where `missed` is set: the renewal job records
\* nothing, a row can be dated before the one it follows, and a start that
\* cannot generate reconciles nothing.
DeployedRowIsActive ==
    Quiet /\ ~missed /\ row.status = "success" => active = row.config

\* A failed apply undoes its own switch and nobody else's: from its begin to
\* its end `current` is what it began from or its own release, whatever the
\* other callers do.
UndoesItsOwn == \A t \in Thread : pc[t] = "apply" => active \in {prev, snap[t]}

\* Whatever an apply ends in, the router's lock is free again, so that the
\* answer to the next request is not 409 for ever.
LockIsReleased == routerLock # Nothing ~> routerLock = Nothing

=============================================================================
