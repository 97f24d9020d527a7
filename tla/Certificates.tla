---------------------------- MODULE Certificates ----------------------------
(***************************************************************************)
(* The way of a certificate from a vhost's row to HAProxy: uploads and     *)
(* Let's Encrypt issuance, the daily renewal job, and the one directory of *)
(* PEM files that every release shares.  An apply is here what it does to  *)
(* certificates; ConfigApply has the rest of it.                           *)
(*                                                                         *)
(* A certificate is a serial number with the time it has left, in units of *)
(* the 30 days of the renewal's threshold.  A row holds certificate and    *)
(* key together; a pair HAProxy cannot load (not a certificate, not its    *)
(* key) is Bad, and so is a file that is only partly written.              *)
(*                                                                         *)
(* Left out: renaming a vhost's domain, a patch of the key alone, a failed *)
(* write of a file, more than one request to POST /config/apply at a time  *)
(* (ApplyCallers has those), and two certbots at once.                     *)
(***************************************************************************)
EXTENDS Integers

CONSTANTS
    Domain,
    Default,            \* the file default.pem
    Bad, NoPem,         \* a pair that does not load; no pair, no file
    NoRow,              \* the vhost does not exist
    MaxCerts,           \* bound: certificates issued
    MaxEdits,           \* bound: requests that change a vhost
    Life,               \* lifetime of a certificate, in units of 30 days
    BackendMayCrash, HaproxyMayRestart, GeoipReloads

Serial == 1 .. MaxCerts
SelfSigned == 0
File == Domain \cup {Default}

\* The SSL settings of a vhost that has a certificate.
Row == [on : BOOLEAN, provider : {"letsencrypt", "upload"}, pem : Serial \cup {Bad}]

ASSUME CertAssumption ==
    /\ MaxCerts \in Nat /\ MaxEdits \in Nat /\ Life \in Nat /\ Life >= 2
    /\ Default \notin Domain
    /\ {Bad, NoPem} \cap (Serial \cup {SelfSigned}) = {} /\ Bad # NoPem /\ NoPem \notin File
    /\ NoRow \notin Row

VARIABLES
    row,        \* the vhosts: [on, provider, pem] or NoRow
    issued, edits,
    left,       \* units each serial has left
    disk,       \* <runtime_root>/certs
    deployed,   \* `current` is a release of the panel
    release,    \* domains it serves over TLS
    haproxy,    \* [up, tls : domains it serves over TLS, served : loaded files]
    backend,    \* "down", "seeding", "up"
    pc,         \* where the request, the renewal job and the seeding are
    gen,        \* what each thread has generated: [tls, certs]
    applying,   \* the apply that holds _apply_lock: [by, todo, half] or NoApply
    job,        \* the job's session: [rows, held, gone, due, failed]
    ran,        \* a renewal without errors ran in this unit of time
    answer,     \* how the last apply ended
    missed      \* history: domains whose row has changed since it was last
                \* applied, or was applied as it had been

rows == <<row, issued, edits>>
proxy == <<deployed, release, haproxy>>
threads == <<pc, gen, job>>
certificates ==
    <<row, issued, edits, left, disk, deployed, release, haproxy, backend, pc, gen,
      applying, job, ran, answer, missed>>

Thread == {"request", "job", "startup"}
NoApply == [by |-> "none", todo |-> {}, half |-> NoPem]

At(t, from, to) == pc[t] = from /\ pc' = [pc EXCEPT ![t] = to]
Live(pem) == pem \in Serial /\ left[pem] > 0

-----------------------------------------------------------------------------
\* Generation and HAProxy

\* A vhost with SSL on is served over TLS whether or not it has a certificate
\* (default.pem is for that); its certificate is written whatever the provider.
Tls(r) == r # NoRow /\ r.on /\ r.provider # "none"
HasPem(r) == r # NoRow /\ r.on /\ r.pem # NoPem

Rendered(view) ==
    [tls   |-> {d \in Domain : Tls(view[d])},
     certs |-> [d \in {e \in Domain : HasPem(view[e])} |-> view[d].pem]]

Nothing == Rendered([d \in Domain |-> NoRow])

\* HAProxy loads every file of the directory if any frontend terminates TLS.
Loads(tls) ==
    \/ tls = {}
    \/ /\ \A f \in File : disk[f] # Bad
       /\ \E f \in File : disk[f] # NoPem

Running(tls) ==
    [up |-> TRUE, tls |-> tls,
     served |-> IF tls = {} THEN [f \in File |-> NoPem] ELSE disk]

Stopped == [up |-> FALSE, tls |-> {}, served |-> [f \in File |-> NoPem]]

\* The container starts, or Compose starts it again.
HaproxyStart ==
    /\ ~haproxy.up /\ Loads(release)
    /\ haproxy' = Running(release)
    /\ UNCHANGED <<rows, left, disk, deployed, release, backend, threads, applying, ran, answer, missed>>

HaproxyStop ==
    /\ HaproxyMayRestart /\ haproxy.up
    /\ haproxy' = Stopped
    /\ UNCHANGED <<rows, left, disk, deployed, release, backend, threads, applying, ran, answer, missed>>

\* reload_haproxy for a new country map.
GeoipReload ==
    /\ GeoipReloads /\ backend = "up" /\ applying = NoApply
    /\ haproxy.up /\ Loads(release)
    /\ haproxy' = Running(release)
    /\ UNCHANGED <<rows, left, disk, deployed, release, backend, threads, applying, ran, answer, missed>>

-----------------------------------------------------------------------------
\* Requests that change a vhost.  Issuance precedes the write of the row and a
\* failed one changes nothing; nothing looks into an uploaded pair.

Edit(d, r) ==
    /\ backend = "up" /\ edits < MaxEdits
    /\ row' = [row EXCEPT ![d] = r]
    /\ edits' = edits + 1
    /\ missed' = missed \cup {d}
    /\ UNCHANGED <<left, disk, proxy, backend, pc, gen, applying, ran, answer>>

Provision(d) ==
    /\ issued < MaxCerts
    /\ Edit(d, [on |-> TRUE, provider |-> "letsencrypt", pem |-> issued + 1])
    /\ issued' = issued + 1
    /\ UNCHANGED job

Upload(d) ==
    /\ \/ /\ issued < MaxCerts
          /\ Edit(d, [on |-> TRUE, provider |-> "upload", pem |-> issued + 1])
          /\ issued' = issued + 1
       \/ /\ Edit(d, [on |-> TRUE, provider |-> "upload", pem |-> Bad])
          /\ UNCHANGED issued
    /\ UNCHANGED job

Toggle(d) ==
    /\ row[d] # NoRow
    /\ Edit(d, [row[d] EXCEPT !.on = ~@])
    /\ UNCHANGED <<issued, job>>

Delete(d) ==
    /\ row[d] # NoRow
    /\ Edit(d, NoRow)
    /\ job' = [job EXCEPT !.held = @ \ {d}, !.gone = @ \cup {d}]
    /\ UNCHANGED issued

-----------------------------------------------------------------------------
\* The renewal job.  Its session keeps the rows it has read.

\* Mutant: renewal of what has expired.
DueExpired(pem) == ~Live(pem)

\* No expiry date could be read from a Bad pair.
Due(pem) == ~Live(pem) \/ left[pem] <= 1

JobStart ==
    /\ backend = "up" /\ At("job", "idle", "loop")
    /\ LET mine == {d \in Domain : row[d] # NoRow /\ row[d].provider = "letsencrypt"}
       IN  job' = [rows |-> row, held |-> mine, gone |-> {}, failed |-> FALSE,
                   due |-> {d \in mine : Due(row[d].pem)}]
    /\ UNCHANGED <<rows, left, disk, proxy, backend, gen, applying, ran, answer, missed>>

JobCertbotFails(d) ==
    /\ pc["job"] = "loop" /\ d \in job.due
    /\ job' = [job EXCEPT !.due = @ \ {d}, !.failed = TRUE]
    /\ UNCHANGED <<rows, left, disk, proxy, backend, pc, gen, applying, ran, answer, missed>>

\* The UPDATE of a row that is gone raises and ends the job, also if the domain
\* has a new one.
JobCommit(d) ==
    /\ pc["job"] = "loop" /\ d \in job.due /\ issued < MaxCerts
    /\ issued' = issued + 1
    /\ IF d \in job.gone
       THEN /\ pc' = [pc EXCEPT !["job"] = "idle"]
            /\ UNCHANGED <<row, job, missed>>
       ELSE /\ row' = [row EXCEPT ![d].pem = issued + 1]
            /\ job' = [job EXCEPT !.rows[d].pem = issued + 1, !.due = @ \ {d}]
            /\ pc' = [pc EXCEPT !["job"] = "generate"]
            /\ missed' = missed \cup {d}
    /\ UNCHANGED <<edits, left, disk, proxy, backend, gen, applying, ran, answer>>

\* Vhosts the session holds are used as it read them, the others are read now
\* and may be held from here on.  generate() may also refuse what it is given.
JobGenerate ==
    /\ pc["job"] = "generate"
    /\ LET view == [d \in Domain |->
                      IF d \in job.held THEN job.rows[d] ELSE row[d]]
       IN  \E more \in SUBSET {d \in Domain \ job.held : view[d] # NoRow} :
             job' = [job EXCEPT !.rows = view, !.held = @ \cup more]
    /\ \/ /\ gen' = [gen EXCEPT !["job"] = Rendered(job'.rows)]
          /\ pc' = [pc EXCEPT !["job"] = "ready"]
       \/ gen' = gen /\ pc' = [pc EXCEPT !["job"] = "loop"]
    /\ UNCHANGED <<rows, left, disk, proxy, backend, applying, ran, answer, missed>>

JobEnd ==
    /\ At("job", "loop", "idle") /\ job.due = {}
    /\ ran' = (ran \/ ~job.failed)
    /\ UNCHANGED <<rows, left, disk, proxy, backend, gen, applying, job, answer, missed>>

-----------------------------------------------------------------------------
\* The other callers of apply

\* POST /config/apply has read the vhosts.
RequestReads ==
    /\ backend = "up" /\ At("request", "idle", "ready")
    /\ gen' = [gen EXCEPT !["request"] = Rendered(row)]
    /\ UNCHANGED <<rows, left, disk, proxy, backend, applying, job, ran, answer, missed>>

\* Nothing is deployed yet: seed_runtime_config writes the first release.
BackendStart ==
    /\ backend = "down"
    /\ \/ /\ ~deployed /\ backend' = "seeding"
          /\ At("startup", "idle", "ready")
          /\ gen' = [gen EXCEPT !["startup"] = Rendered(row)]
       \/ /\ deployed /\ backend' = "up"
          /\ UNCHANGED <<pc, gen>>
    /\ UNCHANGED <<rows, left, disk, proxy, applying, job, ran, answer, missed>>

-----------------------------------------------------------------------------
\* _apply_locked, or the seeding

Begin(t) ==
    /\ applying = NoApply /\ At(t, "ready", "write")
    /\ applying' = [by |-> t, todo |-> DOMAIN gen[t].certs, half |-> NoPem]
    /\ UNCHANGED <<rows, left, disk, proxy, backend, gen, job, ran, answer, missed>>

\* write_text empties a file before it fills it.
ToWrite(t) ==
    IF applying.todo # {} THEN applying.todo
    ELSE {f \in {Default} : disk[f] = NoPem}

Content(t, f) == IF f = Default THEN SelfSigned ELSE gen[t].certs[f]

OpenPem(t) ==
    /\ pc[t] = "write" /\ applying.half = NoPem
    /\ \E f \in ToWrite(t) :
          /\ disk' = [disk EXCEPT ![f] = Bad]
          /\ applying' = [applying EXCEPT !.half = f]
    /\ UNCHANGED <<rows, left, proxy, backend, threads, ran, answer, missed>>

WritePem(t) ==
    /\ pc[t] = "write" /\ applying.half # NoPem
    /\ disk' = [disk EXCEPT ![applying.half] = Content(t, applying.half)]
    /\ applying' = [applying EXCEPT !.half = NoPem, !.todo = @ \ {applying.half}]
    /\ UNCHANGED <<rows, left, proxy, backend, threads, ran, answer, missed>>

Validate(t) ==
    /\ applying.half = NoPem /\ ToWrite(t) = {}
    /\ Loads(gen[t].tls)
    /\ At(t, "write", "switch")
    /\ UNCHANGED <<rows, left, disk, proxy, backend, gen, applying, job, ran, answer, missed>>

\* What this apply has put into the directory is not what the rows hold now.
Overtaken(t) ==
    LET now == Rendered(row)
    IN  {d \in Domain : \/ (d \in gen[t].tls) # (d \in now.tls)
                        \/ (d \in DOMAIN gen[t].certs) # (d \in DOMAIN now.certs)
                        \/ /\ d \in DOMAIN now.certs \cap DOMAIN gen[t].certs
                           /\ gen[t].certs[d] # now.certs[d]}

EndApply(t, how) ==
    /\ pc' = [pc EXCEPT ![t] = IF t = "job" THEN "loop" ELSE "idle"]
    /\ applying' = NoApply
    /\ backend' = IF t = "startup" THEN "up" ELSE backend
    /\ answer' = how
    /\ gen' = [gen EXCEPT ![t] = Nothing]
    /\ UNCHANGED <<rows, left, disk, job, ran>>

\* The reload has read the directory, or the seeding waits for HAProxy.
Switch(t) ==
    /\ pc[t] = "switch"
    /\ deployed' = TRUE /\ release' = gen[t].tls
    /\ \/ /\ haproxy.up /\ haproxy' = Running(gen[t].tls)
          /\ missed' = Overtaken(t)
       \/ /\ t = "startup" /\ haproxy' = haproxy
          /\ missed' = missed \cup Overtaken(t)
    /\ EndApply(t, "success")

\* Lines 142-158: the certificates do not load, or something else is wrong.
Refuse(t) ==
    /\ pc[t] = "write" /\ applying.half = NoPem /\ ToWrite(t) = {}
    /\ missed' = missed \cup Overtaken(t)
    /\ EndApply(t, "refused")
    /\ UNCHANGED proxy

\* Coraza or the reload failed: HAProxy was left alone, reloaded back onto the
\* previous release, or runs the candidate because both answers were lost.
RollBack(t) ==
    /\ pc[t] = "switch" /\ t # "startup"
    /\ haproxy' \in {haproxy} \cup (IF haproxy.up THEN {Running(release), Running(gen[t].tls)}
                                                  ELSE {})
    /\ missed' = missed \cup Overtaken(t)
    /\ EndApply(t, "rolled back")
    /\ UNCHANGED <<deployed, release>>

BackendCrash ==
    /\ BackendMayCrash /\ backend # "down"
    /\ backend' = "down" /\ applying' = NoApply
    /\ pc' = [t \in Thread |-> "idle"] /\ gen' = [t \in Thread |-> Nothing]
    /\ job' = [rows |-> [d \in Domain |-> NoRow], held |-> {}, gone |-> {}, due |-> {}, failed |-> FALSE]
    /\ missed' = IF applying = NoApply THEN missed ELSE missed \cup Overtaken(applying.by)
    /\ answer' = "stopped"
    /\ UNCHANGED <<rows, left, disk, proxy, ran>>

\* 30 days, in which the job has completed without an error at least once and
\* the requests under way have ended.
Tick ==
    /\ backend = "up" /\ ran /\ \A t \in Thread : pc[t] = "idle"
    /\ \E s \in 1 .. issued : left[s] > 0
    /\ left' = [s \in Serial |-> IF s <= issued /\ left[s] > 0 THEN left[s] - 1 ELSE left[s]]
    /\ ran' = FALSE
    /\ UNCHANGED <<rows, disk, proxy, backend, threads, applying, answer, missed>>

-----------------------------------------------------------------------------
CertificatesInit ==
    /\ row = [d \in Domain |-> NoRow] /\ issued = 0 /\ edits = 0
    /\ left = [s \in Serial |-> Life]
    /\ disk = [f \in File |-> NoPem]
    /\ deployed = FALSE /\ release = {} /\ haproxy = Stopped /\ backend = "down"
    /\ pc = [t \in Thread |-> "idle"] /\ gen = [t \in Thread |-> Nothing]
    /\ applying = NoApply
    /\ job = [rows |-> row, held |-> {}, gone |-> {}, due |-> {}, failed |-> FALSE]
    /\ ran = FALSE /\ answer = "never" /\ missed = {}

Apply(t) ==
    \/ Begin(t) \/ OpenPem(t) \/ WritePem(t) \/ Validate(t)
    \/ Switch(t) \/ Refuse(t) \/ RollBack(t)

CertificatesNext ==
    \/ \E d \in Domain : Provision(d) \/ Upload(d) \/ Toggle(d) \/ Delete(d)
    \/ JobStart \/ JobGenerate \/ JobEnd
    \/ \E d \in Domain : JobCertbotFails(d) \/ JobCommit(d)
    \/ RequestReads \/ BackendStart \/ BackendCrash
    \/ \E t \in Thread : Apply(t)
    \/ HaproxyStart \/ HaproxyStop \/ GeoipReload
    \/ Tick

CertificatesSpec == CertificatesInit /\ [][CertificatesNext]_certificates

-----------------------------------------------------------------------------
\* Properties

\* The domains whose row is not as it was last applied, or not as the apply
\* under way has it.
Missed == missed \cup IF applying = NoApply THEN {} ELSE Overtaken(applying.by)

\* HAProxy never serves an expired certificate for a Let's Encrypt vhost as
\* long as its row is as it was last applied: the job of every day renews soon
\* enough, from rows that are up to date, and HAProxy loads what it wrote,
\* whatever requests, uploads, GeoIP reloads and restarts fall in between.
RenewedInTime ==
    haproxy.up =>
        \A d \in haproxy.tls \ Missed :
            row[d].provider = "letsencrypt" => Live(haproxy.served[d])

\* config_apply.py:85 "Validate and atomically activate generated runtime
\* config": once an apply has ended, whatever its answer, HAProxy can start on
\* the active release.
EndsStartable ==
    applying = NoApply /\ answer \in {"success", "refused", "rolled back"} => Loads(release)
=============================================================================
