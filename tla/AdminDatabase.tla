--------------------------- MODULE AdminDatabase ---------------------------
(***************************************************************************)
(* The requests that edit vhosts, their backends, WAF policies and policy  *)
(* bindings, as transactions of PostgreSQL under READ COMMITTED, and what  *)
(* generate() refuses of the rows they leave.                              *)
(*                                                                         *)
(* A PATCH reads a row and checks the patch against it, then writes the    *)
(* columns that differ from what it read: another request may commit in    *)
(* between.  An UPDATE locks the row of the vhost to the end of the        *)
(* transaction.  The query of the default binding flushes the UPDATE of    *)
(* the vhost first, if there is one (autoflush).                           *)
(*                                                                         *)
(* Foreign keys are the database's: a write that refers to a missing       *)
(* policy fails, deleting a policy sets vhosts.policy_id to NULL and       *)
(* deletes the bindings.  Creations and the requests that only delete one  *)
(* row are one step: what they check, the constraints check again.         *)
(*                                                                         *)
(* A domain, and the address in a backend URL, is whether the renderer     *)
(* accepts it.  Left out: descriptions, certificates, thresholds, health   *)
(* check intervals, and of the path-scoped bindings all but one path per   *)
(* vhost; and what the schemas and the renderer refuse alike.              *)
(***************************************************************************)
EXTENDS Integers, FiniteSets

CONSTANTS
    Admin,      \* threads that serve a request
    Vhost, Policy,
    Lists,      \* backend lists of requests: sets of [on, path, address]
    UnsafePath, \* health check paths with characters the renderer refuses
    NewPolicies,            \* the policies requests create
    VhostPatches, PolicyPatches,    \* the PATCH requests
    MaxRequests,    \* bound: requests served
    None, Unset \* NULL or no row; a field the PATCH leaves alone

PolicyRow == [active : BOOLEAN, filter : BOOLEAN, countries : BOOLEAN]
VhostPatch == [policy : Policy \cup {None, Unset}, active : BOOLEAN \cup {Unset},
               host : BOOLEAN \cup {Unset}, servers : Lists \cup {Unset}]

\* A backend of a request: active, with a path unless its check is disabled, and
\* whether its URL has an address (the schema asks for http:// or https://).
Backend == [on : BOOLEAN, path : STRING \cup {None}, address : BOOLEAN]
PolicyPatch == [active : BOOLEAN \cup {Unset}, filter : BOOLEAN \cup {Unset},
                countries : BOOLEAN \cup {Unset}]

ASSUME AdminAssumption ==
    /\ VhostPatches \subseteq VhostPatch /\ PolicyPatches \subseteq PolicyPatch
    /\ \A l \in Lists : l # {} /\ l \subseteq Backend
    /\ UnsafePath \subseteq STRING
    /\ NewPolicies \subseteq PolicyRow
    /\ MaxRequests \in Nat /\ None # Unset
    /\ None \notin PolicyRow \cup [id : Nat, policy : Policy]
    /\ Vhost \cap Policy = {} /\ {None, Unset} \cap (Vhost \cup Policy \cup Admin) = {}

VARIABLES
    policies,   \* policy -> row or None
    vhosts,     \* vhost -> row or None
    default,    \* vhost -> the binding of "/" with priority 0, or None
    scoped,     \* vhost -> the policy of a path-scoped binding, or None
    served,     \* requests so far: their number is the key of what they insert
    tx,         \* thread -> its open transaction, or None
    lock,       \* vhost -> the thread whose UPDATE locks its row, or None
    stale       \* history: rows on which a transaction was open while
                \* another one changed them

vars == <<policies, vhosts, default, scoped, served, tx, lock, stale>>
tables == <<policies, vhosts, default, scoped>>

\* The value a column has after the patch, and whether an UPDATE writes it.
Effective(patch, row, col) == IF patch[col] = Unset THEN row[col] ELSE patch[col]
Writes(patch, row, col) == patch[col] \notin {Unset, row[col]}

OpenOn(t, x) == \E u \in Admin \ {t} : tx[u] # None /\ tx[u].on = x

\* The end of t's transaction, which changed the rows of `written`.
End(t, written) ==
    /\ tx' = [tx EXCEPT ![t] = None]
    /\ lock' = [v \in Vhost |-> IF lock[v] = t THEN None ELSE lock[v]]
    /\ stale' = stale \cup {x \in written : OpenOn(t, x)}

\* A thread takes the next request.
Serve(t) == tx[t] = None /\ served < MaxRequests /\ served' = served + 1

Abort(t) == End(t, {}) /\ UNCHANGED <<tables, served>>

Exists(p) == p \in Policy => policies[p] # None

\* A primary key is not given twice: the name of a deleted row stands for a new
\* one only when no open transaction has the deleted one in mind.
Forgotten(x) ==
    \A t \in Admin : tx[t] # None =>
        /\ tx[t].on # x
        /\ tx[t].kind = "vhost" => x \notin {tx[t].patch.policy, tx[t].row.policy}

-----------------------------------------------------------------------------
\* Backend lists (_normalize_backend_payloads): an active vhost has an active
\* backend, and the active ones share one health check path.
AnyOn(servers) == \E s \in servers : s.on
Paths(servers) == {s.path : s \in {s \in servers : s.on}} \ {None}
OnePath(servers) == Cardinality(Paths(servers)) <= 1

\* Mutant: activating a vhost does not look at its backends.
AcceptableServersUnchecked(patch, row) ==
    IF patch.servers = Unset
    THEN TRUE
    ELSE OnePath(patch.servers) /\ (Effective(patch, row, "active") => AnyOn(patch.servers))

\* _backend_payloads_from_patch
AcceptableServers(patch, row) ==
    LET active == Effective(patch, row, "active")
    IN  IF patch.servers = Unset
        THEN active => AnyOn(row.servers)
        ELSE OnePath(patch.servers) /\ (active => AnyOn(patch.servers))

Rows(n, servers) ==
    {[id |-> n, on |-> s.on, path |-> s.path, address |-> s.address] : s \in servers}

\* create_vhost, whose schema asks host_error of the domain; that of the PATCH
\* does not.
CreateVhost(t, v, row) ==
    /\ Serve(t) /\ vhosts[v] = None /\ Forgotten(v)
    /\ row.host
    /\ Exists(row.policy) /\ OnePath(row.servers)
    /\ row.active => AnyOn(row.servers)
    /\ vhosts' = [vhosts EXCEPT ![v] = [row EXCEPT !.servers = Rows(served', row.servers)]]
    /\ default' = [default EXCEPT
          ![v] = IF row.policy = None THEN None ELSE [id |-> served', policy |-> row.policy]]
    /\ stale' = stale \cup {p \in {row.policy} : OpenOn(t, p)}
    /\ UNCHANGED <<policies, scoped, tx, lock>>

\* delete_vhost, with its backends and bindings.
DeleteVhost(t, v) ==
    /\ Serve(t) /\ vhosts[v] # None /\ lock[v] = None
    /\ vhosts' = [vhosts EXCEPT ![v] = None]
    /\ default' = [default EXCEPT ![v] = None]
    /\ scoped' = [scoped EXCEPT ![v] = None]
    /\ End(t, {v})
    /\ UNCHANGED policies

\* update_vhost up to the first flush: the vhost is read and the patch checked
\* against it.
ReadVhost(t, v, patch) ==
    /\ Serve(t) /\ vhosts[v] # None
    /\ patch.policy # Unset => Exists(patch.policy)
    /\ AcceptableServers(patch, vhosts[v])
    /\ tx' = [tx EXCEPT ![t] =
          [kind |-> "vhost", id |-> served', on |-> v, patch |-> patch, row |-> vhosts[v],
           mirror |-> None, flushed |-> patch.policy = Unset]]
    /\ UNCHANGED <<tables, lock, stale>>

\* The transaction has an UPDATE of the vhost to send.
Dirty(t) ==
    \/ tx[t].patch.servers # Unset
    \/ \E col \in {"policy", "active", "host"} : Writes(tx[t].patch, tx[t].row, col)

\* Autoflush, and the query of _sync_default_policy_binding.
ReadMirror(t) ==
    /\ tx[t] # None /\ tx[t].kind = "vhost" /\ ~tx[t].flushed
    /\ LET v == tx[t].on
       IN  \/ /\ Dirty(t) /\ lock[v] = None /\ vhosts[v] = None
              /\ Abort(t)
           \/ /\ Dirty(t) => lock[v] = None /\ vhosts[v] # None
              /\ lock' = IF Dirty(t) THEN [lock EXCEPT ![v] = t] ELSE lock
              /\ tx' = [tx EXCEPT ![t].flushed = TRUE, ![t].mirror = default[v]]
              /\ UNCHANGED <<tables, served, stale>>

\* The vhost's row after the UPDATE: the columns the patch changes of what the
\* transaction read; of the backends, those it read are deleted.
UpdatedVhost(t) ==
    LET patch == tx[t].patch
        read == tx[t].row
        now == vhosts[tx[t].on]
    IN  [policy |-> IF Writes(patch, read, "policy") THEN patch.policy ELSE now.policy,
         active |-> IF Writes(patch, read, "active") THEN patch.active ELSE now.active,
         host |-> IF Writes(patch, read, "host") THEN patch.host ELSE now.host,
         servers |-> IF patch.servers = Unset THEN now.servers
                     ELSE (now.servers \ read.servers) \cup Rows(tx[t].id, patch.servers)]

\* The key of a binding.
Id(b) == IF b = None THEN 0 ELSE b.id

\* Mutant: clearing vhost.policy_id keeps the default binding.
MirroredKeepsCleared(t) ==
    LET p == tx[t].patch.policy
        seen == tx[t].mirror
    IN  CASE p \in {None, Unset} -> default[tx[t].on]
          [] seen = None /\ p \notin {None, Unset} -> [id |-> tx[t].id, policy |-> p]
          [] OTHER -> [seen EXCEPT !.policy = p]

\* The default binding after the commit.
Mirrored(t) ==
    LET p == tx[t].patch.policy
        seen == tx[t].mirror
        now == default[tx[t].on]
    IN  CASE p = Unset -> now
          [] p = None -> IF Id(now) = Id(seen) THEN None ELSE now
          [] p \in Policy /\ seen = None -> [id |-> tx[t].id, policy |-> p]
          [] p \in Policy /\ seen # None /\ seen.policy = p -> now
          [] OTHER -> [seen EXCEPT !.policy = p]

\* What fails at the commit: the vhost or the binding to update is gone, the
\* binding to insert is there, or the policy is gone.
CommitFails(t) ==
    LET v == tx[t].on
        p == tx[t].patch.policy
        seen == tx[t].mirror
    IN  \/ Dirty(t) /\ vhosts[v] = None
        \/ Writes(tx[t].patch, tx[t].row, "policy") /\ ~Exists(p)
        \/ /\ p \in Policy /\ seen = None
           /\ default[v] # None \/ vhosts[v] = None \/ ~Exists(p)
        \/ /\ p \in Policy /\ seen # None /\ seen.policy # p
           /\ Id(default[v]) # seen.id \/ ~Exists(p)

CommitVhost(t) ==
    /\ tx[t] # None /\ tx[t].kind = "vhost" /\ tx[t].flushed
    /\ LET v == tx[t].on
       IN  /\ Dirty(t) => lock[v] \in {None, t}
           /\ \/ CommitFails(t) /\ Abort(t)
              \/ /\ ~CommitFails(t)
                 /\ vhosts' = IF Dirty(t) THEN [vhosts EXCEPT ![v] = UpdatedVhost(t)] ELSE vhosts
                 /\ default' = [default EXCEPT ![v] = Mirrored(t)]
                 /\ End(t, {v} \cup ({tx[t].patch.policy} \cap Policy))
                 /\ UNCHANGED <<policies, scoped, served>>

\* create_policy_binding, of a path other than "/", and delete_policy_binding,
\* which leaves the default binding alone.
CreateBinding(t, v, p) ==
    /\ Serve(t) /\ vhosts[v] # None /\ policies[p] # None /\ scoped[v] = None
    /\ scoped' = [scoped EXCEPT ![v] = p]
    /\ stale' = stale \cup {x \in {p} : OpenOn(t, x)}
    /\ UNCHANGED <<policies, vhosts, default, tx, lock>>

DeleteBinding(t, v) ==
    /\ Serve(t) /\ scoped[v] # None
    /\ scoped' = [scoped EXCEPT ![v] = None]
    /\ UNCHANGED <<policies, vhosts, default, tx, lock, stale>>

-----------------------------------------------------------------------------
\* Mutant: the patch alone is checked, not merged with the row.
GeoipOkPatchOnly(patch, row) == patch.filter = TRUE => patch.countries # FALSE

\* _validate_geoip, on the patch merged with the row.
GeoipOk(patch, row) == Effective(patch, row, "filter") => Effective(patch, row, "countries")

\* create_policy
CreatePolicy(t, p, row) ==
    /\ Serve(t) /\ policies[p] = None /\ Forgotten(p)
    /\ row.active /\ GeoipOk(row, row)
    /\ policies' = [policies EXCEPT ![p] = row]
    /\ UNCHANGED <<vhosts, default, scoped, tx, lock, stale>>

\* update_policy
ReadPolicy(t, p, patch) ==
    /\ Serve(t) /\ policies[p] # None
    /\ GeoipOk(patch, policies[p])
    /\ tx' = [tx EXCEPT ![t] =
          [kind |-> "policy", on |-> p, patch |-> patch, row |-> policies[p]]]
    /\ UNCHANGED <<tables, lock, stale>>

CommitPolicy(t) ==
    /\ tx[t] # None /\ tx[t].kind = "policy"
    /\ LET p == tx[t].on
           patch == tx[t].patch
           read == tx[t].row
       IN  IF policies[p] = None
           THEN Abort(t)
           ELSE /\ policies' = [policies EXCEPT ![p] =
                      [col \in DOMAIN @ |-> IF Writes(patch, read, col) THEN patch[col] ELSE @[col]]]
                /\ End(t, {p})
                /\ UNCHANGED <<vhosts, default, scoped, served>>

\* Mutant: path-scoped bindings are not looked at.
AssignedVhostOnly(p) ==
    \E v \in Vhost :
        \/ vhosts[v] # None /\ vhosts[v].policy = p
        \/ default[v] # None /\ default[v].policy = p

\* _policy_is_assigned
Assigned(p) ==
    \E v \in Vhost :
        \/ vhosts[v] # None /\ vhosts[v].policy = p
        \/ default[v] # None /\ default[v].policy = p
        \/ scoped[v] = p

\* delete_policy: the check, then the deletion, which waits for the rows that
\* refer to the policy.
CheckUnassigned(t, p) ==
    /\ Serve(t) /\ policies[p] # None
    /\ ~Assigned(p)
    /\ tx' = [tx EXCEPT ![t] = [kind |-> "delete", on |-> p]]
    /\ UNCHANGED <<tables, lock, stale>>

Refers(u, p) ==
    /\ tx[u] # None /\ tx[u].kind = "vhost" /\ lock[tx[u].on] = u
    /\ p \in {tx[u].patch.policy, vhosts[tx[u].on].policy}

DeletePolicy(t) ==
    /\ tx[t] # None /\ tx[t].kind = "delete"
    /\ LET p == tx[t].on
           of == {v \in Vhost : vhosts[v] # None /\ vhosts[v].policy = p}
           mirrors == {v \in Vhost : default[v] # None /\ default[v].policy = p}
       IN  /\ \A u \in Admin : ~Refers(u, p)
           /\ policies' = [policies EXCEPT ![p] = None]
           /\ vhosts' = [v \in Vhost |->
                 IF v \in of THEN [vhosts[v] EXCEPT !.policy = None] ELSE vhosts[v]]
           /\ default' = [v \in Vhost |-> IF v \in mirrors THEN None ELSE default[v]]
           /\ scoped' = [v \in Vhost |-> IF scoped[v] = p THEN None ELSE scoped[v]]
           /\ End(t, {p} \cup of \cup mirrors)
    /\ UNCHANGED served

-----------------------------------------------------------------------------
\* generate(): what it refuses to render.

MissingOrInactive(v) ==
    LET p == vhosts[v].policy IN p # None /\ (policies[p] = None \/ ~policies[p].active)

\* _reject_path_scoped_policies
OtherPolicyBound(v) ==
    \/ default[v] # None /\ default[v].policy # vhosts[v].policy
    \/ scoped[v] # None /\ scoped[v] # vhosts[v].policy

\* _to_haproxy_servers
NoServers(v) == ~AnyOn(vhosts[v].servers) \/ ~OnePath(vhosts[v].servers)

\* _extract_backend_address, and what HaproxyServer, HaproxyBackend and
\* HaproxyRoute refuse: an address, the path to check, the domain.
Unrenderable(v) ==
    \/ \E s \in vhosts[v].servers : s.on /\ ~s.address
    \/ Paths(vhosts[v].servers) \cap UnsafePath # {}
    \/ ~vhosts[v].host

Refused(v) ==
    /\ vhosts[v] # None /\ vhosts[v].active
    /\ MissingOrInactive(v) \/ OtherPolicyBound(v) \/ NoServers(v) \/ Unrenderable(v)

\* The country filter HAProxy gets (lines 256-267).
Filters(p) == policies[p].filter /\ policies[p].countries

-----------------------------------------------------------------------------
Init ==
    /\ policies \in [Policy -> {row \in NewPolicies : GeoipOk(row, row)} \cup {None}]
    /\ vhosts = [v \in Vhost |-> None]
    /\ default = [v \in Vhost |-> None]
    /\ scoped = [v \in Vhost |-> None]
    /\ served = 0
    /\ tx = [t \in Admin |-> None]
    /\ lock = [v \in Vhost |-> None]
    /\ stale = {}

\* The requests under /vhosts, /vhosts/{id}/policy-bindings and /policies.
VhostRequests(t) ==
    \/ \E v \in Vhost :
          \/ \E p \in Policy \cup {None}, a \in BOOLEAN, h \in BOOLEAN, l \in Lists :
                CreateVhost(t, v, [policy |-> p, active |-> a, host |-> h, servers |-> l])
          \/ DeleteVhost(t, v)
          \/ \E patch \in VhostPatches : ReadVhost(t, v, patch)
    \/ ReadMirror(t) \/ CommitVhost(t)

BindingRequests(t) ==
    \E v \in Vhost : DeleteBinding(t, v) \/ \E p \in Policy : CreateBinding(t, v, p)

PolicyRequests(t) ==
    \/ \E p \in Policy :
          \/ \E row \in NewPolicies : CreatePolicy(t, p, row)
          \/ \E patch \in PolicyPatches : ReadPolicy(t, p, patch)
          \/ CheckUnassigned(t, p)
    \/ CommitPolicy(t) \/ DeletePolicy(t)

Next == \E t \in Admin : VhostRequests(t) \/ BindingRequests(t) \/ PolicyRequests(t)

Spec == Init /\ [][Next]_vars

-----------------------------------------------------------------------------
\* Properties

\* The binding of "/" is the vhost's policy (vhost_service.py:516), whatever
\* the policies undergo, as long as no two requests overlap on the vhost.
MirrorHolds ==
    \A v \in Vhost \ stale : vhosts[v] # None =>
        vhosts[v].policy = IF default[v] = None THEN None ELSE default[v].policy

\* A policy that filters by country has countries to filter by, and so HAProxy
\* filters: the request merges the patch with the row it read.
FilterIsRendered ==
    \A p \in Policy \ stale : policies[p] # None /\ policies[p].filter => Filters(p)

\* Whatever was stored, generate() refuses a vhost only for what an admin can
\* see in the vhost and undo: an inactive policy, a path bound to another policy,
\* or a domain, backend URL or health check path that was typed in (the last
\* three because the schemas let them pass).  It never fails for a policy that is
\* gone, the default binding the vhost's policy is mirrored in, or backends that
\* the requests on it left without an active one or with several paths.
RefusalIsVisible ==
    \A v \in Vhost \ stale : Refused(v) =>
        \/ vhosts[v].policy # None /\ ~policies[vhosts[v].policy].active
        \/ scoped[v] # None /\ scoped[v] # vhosts[v].policy
        \/ Unrenderable(v)

\* PolicyInUseError: the deletion of a policy takes it off a vhost or a path
\* only if it was assigned while the request that deletes it was at work.
AssignedPolicyStays ==
    [][\A p \in Policy : policies[p] # None /\ policies'[p] = None /\ p \notin stale'
          => UNCHANGED <<vhosts, default, scoped>>]_vars
=============================================================================
