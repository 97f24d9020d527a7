-------------------------------- MODULE BanList --------------------------------
(***************************************************************************)
(* Automatic bans: the stick-tables of the running HAProxy worker, how a   *)
(* reload hands them to the next worker (config_apply.py), and the unban   *)
(* of an address over the Runtime API (ban_list_service.py).               *)
(*                                                                         *)
(* HAProxy is external: a worker can hand its tables over once its own     *)
(* resync is over, which happens when its predecessor has taught it, or    *)
(* else when the resync window has passed.  The apply lock admits one      *)
(* reload at a time.  Time passes in seconds.  Left out: the expiry of     *)
(* bans, the rate counters, and the list, which only reads.                *)
(***************************************************************************)
EXTENDS Integers, FiniteSets, FiniteSetsExt

CONSTANTS
    Vhost,          \* vhosts, in the order of their ids
    Ip,
    Client,         \* requests that unban
    ResyncWindow,   \* PEER_RESYNC_TIMEOUT of HAProxy
    HandoverTimeout,    \* STICK_TABLE_HANDOVER_TIMEOUT_SECONDS
    None

ASSUME BanAssumption ==
    /\ Vhost \subseteq Nat /\ ResyncWindow \in Nat \ {0}
    /\ HandoverTimeout \in Nat /\ HandoverTimeout > ResyncWindow

VARIABLES
    autoban,        \* active vhosts with a policy that has DDoS protection and auto-ban
    tables,         \* vhosts with a ban table in the running worker
    banned,         \* pairs of a vhost and an address over the threshold there
    resync,         \* seconds left of the worker's resync window; 0: it is over
    teaching,       \* what the previous worker still has to hand over
    reload,         \* the reload under way: [left, next], or None
    answers,        \* the admin socket answers
    unban,          \* client -> the unban under way, or None
    pardoned        \* history: addresses that an undisturbed unban has cleared
                    \* and that have not offended since

vars == <<autoban, tables, banned, resync, teaching, reload, answers, unban, pardoned>>
worker == <<tables, banned, resync, teaching>>

\* Whatever may legitimately leave an address banned after an unban: an offence,
\* an edit that is not applied, a handover, an outage.
Disturb(ips) ==
    unban' = [c \in Client |->
                 IF unban[c] # None /\ unban[c].ip \in ips
                 THEN [unban[c] EXCEPT !.disturbed = TRUE] ELSE unban[c]]

-----------------------------------------------------------------------------
\* Traffic, edits, time

\* The address passes the threshold of a vhost.
Offend(v, ip) ==
    /\ v \in tables
    /\ banned' = banned \cup {<<v, ip>>}
    /\ pardoned' = pardoned \ {ip}
    /\ Disturb({ip})
    /\ UNCHANGED <<autoban, tables, resync, teaching, reload, answers>>

\* A vhost or its policy is edited; the change waits for an apply.
Edit(v) ==
    /\ autoban' = IF v \in autoban THEN autoban \ {v} ELSE autoban \cup {v}
    /\ Disturb(Ip)
    /\ UNCHANGED <<worker, reload, answers, pardoned>>

Outage ==
    /\ answers' = ~answers /\ Disturb(Ip)
    /\ UNCHANGED <<autoban, worker, reload, pardoned>>

\* The thread that waits polls ten times per second.
Tick ==
    /\ reload # None => reload.left > 0
    /\ teaching # {} => resync > 1
    /\ resync' = IF resync > 0 THEN resync - 1 ELSE 0
    /\ reload' = IF reload = None THEN None ELSE [reload EXCEPT !.left = @ - 1]
    /\ UNCHANGED <<autoban, tables, banned, teaching, answers, unban, pardoned>>

-----------------------------------------------------------------------------
\* Reload

\* apply() with the tables of the database, reload_haproxy() with those that run.
StartReload(next) ==
    /\ reload = None
    /\ reload' = [left |-> HandoverTimeout, next |-> next]
    /\ UNCHANGED <<autoban, worker, answers, unban, pardoned>>

\* Mutant: the wait is given up within the window.
MayReloadEarly ==
    ~answers \/ tables = {} \/ resync = 0 \/ reload.left <= HandoverTimeout - ResyncWindow + 1

\* Mutant: a socket that does not answer is polled again.
MayReloadAnswered == answers /\ (tables = {} \/ resync = 0)

\* _wait_for_stick_table_handover returns.  Without tables `show peers` has no
\* section, and nothing is pending (peers_handover_pending).
MayReload == ~answers \/ tables = {} \/ resync = 0 \/ reload.left = 0

\* _reload_haproxy: the master starts a worker with the new tables.
Reload ==
    /\ reload # None /\ MayReload
    /\ tables' = reload.next
    /\ banned' = {}
    /\ teaching' = IF resync = 0 THEN {b \in banned : b[1] \in reload.next} ELSE {}
    /\ resync' = IF reload.next = {} THEN 0 ELSE ResyncWindow
    /\ reload' = None
    /\ Disturb(Ip)
    /\ UNCHANGED <<autoban, answers, pardoned>>

\* The master refuses, or cannot be reached.
ReloadFails ==
    /\ reload # None /\ MayReload
    /\ reload' = None
    /\ UNCHANGED <<autoban, worker, answers, unban, pardoned>>

\* The outgoing worker has taught its tables, and the resync is over.
Taught ==
    /\ resync > 0
    /\ banned' = banned \cup teaching /\ teaching' = {} /\ resync' = 0
    /\ UNCHANGED <<autoban, tables, reload, answers, unban, pardoned>>

-----------------------------------------------------------------------------
\* Unban

\* unban: _active_ban_tables reads the database.
StartUnban(c, ip) ==
    /\ unban[c] = None
    /\ unban' = [unban EXCEPT ![c] =
           [ip |-> ip, all |-> autoban, left |-> autoban, cleared |-> 0, failures |-> 0,
            disturbed |-> ~answers \/ autoban # tables \/ teaching # {}]]
    /\ UNCHANGED <<autoban, worker, reload, answers, pardoned>>

\* Mutant: the loop ends with the first table that had the address.
ClearNextStops(c) ==
    /\ unban[c] # None /\ unban[c].left # {}
    /\ LET v == Min(unban[c].left)
           ip == unban[c].ip
       IN  /\ banned' = IF answers /\ v \in tables THEN banned \ {<<v, ip>>} ELSE banned
           /\ unban' = [unban EXCEPT
                  ![c].left = IF <<v, ip>> \in banned THEN {} ELSE @ \ {v},
                  ![c].cleared = @ + IF answers /\ v \in tables THEN 1 ELSE 0,
                  ![c].failures = @ + IF answers THEN 0 ELSE 1]
    /\ UNCHANGED <<autoban, tables, resync, teaching, reload, answers, pardoned>>

\* `clear table`: confirmed, "no such table", or failed.
ClearNext(c) ==
    /\ unban[c] # None /\ unban[c].left # {}
    /\ LET v == Min(unban[c].left)
           ip == unban[c].ip
       IN  /\ banned' = IF answers /\ v \in tables THEN banned \ {<<v, ip>>} ELSE banned
           /\ unban' = [unban EXCEPT
                  ![c].left = @ \ {v},
                  ![c].cleared = @ + IF answers /\ v \in tables THEN 1 ELSE 0,
                  ![c].failures = @ + IF answers THEN 0 ELSE 1]
    /\ UNCHANGED <<autoban, tables, resync, teaching, reload, answers, pardoned>>

\* 502 if every table failed.
Failed(u) == u.all # {} /\ u.failures = Cardinality(u.all)

Answer(c) ==
    /\ unban[c] # None /\ unban[c].left = {}
    /\ pardoned' = IF Failed(unban[c]) \/ unban[c].disturbed THEN pardoned
                   ELSE pardoned \cup {unban[c].ip}
    /\ unban' = [unban EXCEPT ![c] = None]
    /\ UNCHANGED <<autoban, worker, reload, answers>>

-----------------------------------------------------------------------------
Init ==
    /\ autoban = Vhost /\ tables = {}
    /\ banned = {} /\ teaching = {}
    /\ resync = 0
    /\ reload = None
    /\ answers = TRUE
    /\ unban = [c \in Client |-> None]
    /\ pardoned = {}

Next ==
    \/ \E v \in Vhost : Edit(v) \/ \E ip \in Ip : Offend(v, ip)
    \/ Outage \/ Tick
    \/ \E next \in {autoban, tables} : StartReload(next)
    \/ Reload \/ ReloadFails \/ Taught
    \/ \E c \in Client : (\E ip \in Ip : StartUnban(c, ip)) \/ ClearNext(c) \/ Answer(c)

Fairness ==
    /\ WF_vars(Tick) /\ WF_vars(teaching # {} /\ Taught)
    /\ WF_vars(Reload \/ ReloadFails)

Spec == Init /\ [][Next]_vars /\ Fairness

-----------------------------------------------------------------------------
\* Properties

\* "Wait for the handover to become possible instead of racing it"
\* (config_apply.py:641): as long as the socket answers, a reload keeps every
\* ban of a table that stays.
BansSurviveReload ==
    [][Reload /\ answers => banned' \cup teaching' = {b \in banned \cup teaching : b[1] \in tables'}]_vars

\* After an unban that nothing disturbed, the address is denied by no vhost
\* until it offends again; no later reload brings the ban back.
UnbanHolds == \A b \in banned : b[2] \notin pardoned

\* The wait is bounded: every reload that begins also comes to its end.
ReloadEnds == reload # None ~> reload = None
================================================================================
