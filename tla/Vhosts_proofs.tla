--------------------------- MODULE Vhosts_proofs ---------------------------
(***************************************************************************)
(* What the panel keeps of its vhosts, and what becomes of it.             *)
(*                                                                         *)
(* AdminDatabase: what overlapping requests leave in the tables, for any   *)
(* number of admins, vhosts, policies and requests: the mirrors agree, the *)
(* filters render, and what generate() refuses can be seen.                *)
(*                                                                         *)
(* Certificates: whatever uploads, renewals, applies, restarts and crashes *)
(* overlap, HAProxy serves no expired certificate for a Let's Encrypt      *)
(* vhost whose row is as it was last applied.                              *)
(***************************************************************************)
EXTENDS AdminDatabase, Certificates, TLAPS

-----------------------------------------------------------------------------
\* The inductive invariant.  A transaction on a row that is not stale still
\* sees that row as it read it, so what it checked is true of what it writes.

Binding == [id : Nat, policy : Policy]

VhostRow(entry) ==
    DOMAIN entry = {"policy", "active", "host", "servers"} /\ entry.policy \in Policy \cup {None}

TxTyped(t) ==
    tx[t] # None =>
        \/ /\ DOMAIN tx[t] = {"kind", "id", "on", "patch", "row", "mirror", "flushed"}
           /\ tx[t].kind = "vhost" /\ tx[t].on \in Vhost /\ tx[t].id \in Nat
           /\ tx[t].patch \in VhostPatches /\ tx[t].mirror \in Binding \cup {None}
        \/ tx[t].kind = "policy" /\ tx[t].on \in Policy /\ tx[t].patch \in PolicyPatches
        \/ tx[t].kind = "delete" /\ tx[t].on \in Policy

Typed ==
    /\ policies \in [Policy -> PolicyRow \cup {None}]
    /\ vhosts = [v \in Vhost |-> vhosts[v]]
    /\ \A v \in Vhost : vhosts[v] # None => VhostRow(vhosts[v])
    /\ default \in [Vhost -> Binding \cup {None}]
    /\ scoped \in [Vhost -> Policy \cup {None}]
    /\ served \in Nat
    /\ DOMAIN tx = Admin /\ \A t \in Admin : TxTyped(t)

\* The foreign key of vhosts.policy_id.
References ==
    \A v \in Vhost : vhosts[v] # None /\ vhosts[v].policy # None => policies[vhosts[v].policy] # None

\* A vhost that no requests have overlapped on can be rendered.
Servable(v) ==
    vhosts[v] # None =>
        /\ vhosts[v].policy = IF default[v] = None THEN None ELSE default[v].policy
        /\ OnePath(vhosts[v].servers)
        /\ vhosts[v].active => AnyOn(vhosts[v].servers)

VhostsServable == \A v \in Vhost \ stale : Servable(v)

\* The row is the one the transaction read, and it was checked.
VhostTx(t) ==
    LET v == tx[t].on
        patch == tx[t].patch
    IN  /\ vhosts[v] # None /\ vhosts[v] = tx[t].row
        /\ AcceptableServers(patch, tx[t].row)
        /\ tx[t].flushed /\ patch.policy # Unset => tx[t].mirror = default[v]

PolicyTx(t) ==
    /\ policies[tx[t].on] # None /\ policies[tx[t].on] = tx[t].row
    /\ GeoipOk(tx[t].patch, tx[t].row)

DeleteTx(t) == ~Assigned(tx[t].on)

TxInformed(t) ==
    tx[t] # None /\ tx[t].on \notin stale =>
        /\ tx[t].kind = "vhost" => VhostTx(t)
        /\ tx[t].kind = "policy" => PolicyTx(t)
        /\ tx[t].kind = "delete" => DeleteTx(t)

AllInformed == \A t \in Admin : TxInformed(t)

IInv ==
    /\ Typed
    /\ References
    /\ FilterIsRendered
    /\ VhostsServable
    /\ AllInformed

-----------------------------------------------------------------------------
LEMMA InitInvariant == Init => IInv
<1> SUFFICES ASSUME Init PROVE IInv
  OBVIOUS
<1>1. Typed
  <2>1. policies \in [Policy -> PolicyRow \cup {None}]
    BY AdminAssumption DEF Init, AdminAssumption
  <2>2. QED
    BY <2>1 DEF Init, Typed, TxTyped
<1>2. References /\ VhostsServable /\ AllInformed
  BY DEF Init, References, VhostsServable, Servable, AllInformed, TxInformed
<1>3. FilterIsRendered
  <2>1. \A p \in Policy : policies[p] # None => GeoipOk(policies[p], policies[p])
    BY DEF Init
  <2>2. \A p \in Policy : GeoipOk(policies[p], policies[p]) => (policies[p].filter => Filters(p))
    BY DEF GeoipOk, Effective, Filters
  <2>3. QED
    BY <2>1, <2>2 DEF FilterIsRendered
<1>4. QED
  BY <1>1, <1>2, <1>3 DEF IInv

-----------------------------------------------------------------------------
\* A transaction stays informed while its row, or what is assigned to its
\* policy, changes only where it becomes stale.
LEMMA StaysInformed ==
    ASSUME Typed, NEW u \in Admin, TxInformed(u), tx'[u] = tx[u], stale \subseteq stale',
           \A v \in Vhost : tx[u] # None /\ tx[u].on = v /\ v \notin stale' =>
               vhosts'[v] = vhosts[v] /\ default'[v] = default[v],
           \A p \in Policy : tx[u] # None /\ tx[u].on = p /\ p \notin stale' =>
               /\ policies'[p] = policies[p]
               /\ Assigned(p)' => Assigned(p)
    PROVE  TxInformed(u)'
<1> SUFFICES ASSUME tx[u] # None, tx[u].on \notin stale'
             PROVE  /\ tx[u].kind = "vhost" => VhostTx(u)'
                    /\ tx[u].kind = "policy" => PolicyTx(u)'
                    /\ tx[u].kind = "delete" => DeleteTx(u)'
  BY DEF TxInformed
<1>1. TxTyped(u)
  BY DEF Typed
<1>2. ASSUME tx[u].kind = "vhost" PROVE VhostTx(u)'
  <2>1. VhostTx(u) /\ tx[u].on \in Vhost
    BY <1>1, <1>2 DEF TxInformed, TxTyped
  <2>2. QED
    BY <2>1 DEF VhostTx
<1>3. ASSUME tx[u].kind = "policy" PROVE PolicyTx(u)'
  <2>1. PolicyTx(u) /\ tx[u].on \in Policy
    BY <1>1, <1>3 DEF TxInformed, TxTyped
  <2>2. QED
    BY <2>1 DEF PolicyTx
<1>4. ASSUME tx[u].kind = "delete" PROVE DeleteTx(u)'
  <2>1. DeleteTx(u) /\ tx[u].on \in Policy
    BY <1>1, <1>4 DEF TxInformed, TxTyped
  <2>2. QED
    BY <2>1 DEF DeleteTx, Assigned
<1>5. QED
  BY <1>2, <1>3, <1>4

\* The rows a transaction wrote are stale where another one is open on them.
LEMMA EndIs ==
    ASSUME Typed, NEW t \in Admin, NEW written, End(t, written)
    PROVE  /\ tx'[t] = None /\ DOMAIN tx' = Admin
           /\ \A u \in Admin \ {t} : tx'[u] = tx[u]
           /\ stale \subseteq stale'
           /\ \A u \in Admin \ {t} : tx[u] # None /\ tx[u].on \in written => tx[u].on \in stale'
BY DEF Typed, End, OpenOn

-----------------------------------------------------------------------------
\* Servers

LEMMA SameServers ==
    ASSUME NEW n, NEW l
    PROVE  (AnyOn(Rows(n, l)) <=> AnyOn(l)) /\ (OnePath(Rows(n, l)) <=> OnePath(l))
<1> DEFINE given == Rows(n, l)
<1>1. \A s \in l : \E r \in given : r.on = s.on /\ r.path = s.path
  <2> SUFFICES ASSUME NEW s \in l PROVE \E r \in given : r.on = s.on /\ r.path = s.path
    OBVIOUS
  <2>1. [id |-> n, on |-> s.on, path |-> s.path, address |-> s.address] \in given
    BY DEF Rows
  <2>2. QED
    BY <2>1
<1>2. \A r \in given : \E s \in l : r.on = s.on /\ r.path = s.path
  BY DEF Rows
<1> HIDE DEF given
<1>3. AnyOn(given) <=> AnyOn(l)
  BY <1>1, <1>2 DEF AnyOn
<1>4. {s.path : s \in {s \in given : s.on}} = {s.path : s \in {s \in l : s.on}}
  BY <1>1, <1>2
<1>5. QED
  BY <1>3, <1>4 DEF OnePath, Paths, given

-----------------------------------------------------------------------------
\* Vhosts

LEMMA CreateVhostKeeps ==
    ASSUME IInv, NEW t \in Admin, NEW v \in Vhost, NEW p \in Policy \cup {None}, NEW a \in BOOLEAN,
           NEW h \in BOOLEAN, NEW l \in Lists,
           CreateVhost(t, v, [policy |-> p, active |-> a, host |-> h, servers |-> l])
    PROVE  IInv'
<1> DEFINE new == [policy |-> p, active |-> a, host |-> h, servers |-> Rows(served', l)]
           binding == IF p = None THEN None ELSE [id |-> served', policy |-> p]
<1>1. /\ tx[t] = None /\ served' = served + 1 /\ vhosts[v] = None /\ Forgotten(v)
      /\ Exists(p) /\ OnePath(l) /\ (a => AnyOn(l))
      /\ vhosts' = [vhosts EXCEPT ![v] = new]
      /\ default' = [default EXCEPT ![v] = binding]
      /\ stale' = stale \cup {x \in {p} : OpenOn(t, x)}
      /\ UNCHANGED <<policies, scoped, tx>>
  <2> DEFINE entry == [policy |-> p, active |-> a, host |-> h, servers |-> l]
  <2>1. entry.policy = p /\ entry.active = a /\ entry.servers = l
    OBVIOUS
  <2>2. [entry EXCEPT !.servers = Rows(served', entry.servers)] = new
    OBVIOUS
  <2> HIDE DEF entry, new
  <2>3. CreateVhost(t, v, entry)
    BY DEF entry
  <2>4. QED
    BY <2>1, <2>2, <2>3 DEF CreateVhost, Serve
<1>2. Typed
  BY DEF IInv
<1>3. binding \in Binding \cup {None} /\ served' \in Nat
  BY <1>1, <1>2 DEF Typed, Binding
<1>4. VhostRow(new)
  BY DEF VhostRow
<1>5. Servable(v)'
  <2>1. OnePath(new.servers) /\ (new.active => AnyOn(new.servers))
    BY <1>1, SameServers
  <2>2. new.policy = IF binding = None THEN None ELSE binding.policy
    BY <1>3, AdminAssumption DEF AdminAssumption, Binding
  <2>3. vhosts'[v] = new /\ default'[v] = binding
    BY <1>1, <1>2 DEF Typed
  <2> HIDE DEF new, binding
  <2>4. QED
    BY <2>1, <2>2, <2>3 DEF Servable
<1> HIDE DEF new, binding
<1>6. Typed'
  BY <1>1, <1>2, <1>3, <1>4 DEF Typed, TxTyped
<1>7. References'
  <2>1. new.policy # None => policies[new.policy] # None
    BY <1>1, AdminAssumption DEF new, Exists, AdminAssumption
  <2>2. QED
    BY <1>1, <1>2, <2>1 DEF IInv, Typed, References
<1>8. FilterIsRendered'
  BY <1>1 DEF IInv, FilterIsRendered, Filters
<1>9. VhostsServable'
  BY <1>1, <1>2, <1>5 DEF IInv, Typed, VhostsServable, Servable
<1>10. AllInformed'
  <2> SUFFICES ASSUME NEW u \in Admin, tx[u] # None PROVE TxInformed(u)'
    BY <1>1 DEF AllInformed, TxInformed
  <2>1. u # t /\ tx[u].on # v
    BY <1>1 DEF Forgotten
  <2>2. \A w \in Vhost : tx[u].on = w => vhosts'[w] = vhosts[w] /\ default'[w] = default[w]
    BY <1>1, <1>2, <2>1 DEF Typed
  <2>3. ASSUME NEW q \in Policy, tx[u].on = q, q \notin stale', Assigned(q)' PROVE Assigned(q)
    <3>1. q # p
      BY <1>1, <2>1, <2>3 DEF OpenOn
    <3>2. q # new.policy /\ (binding # None => q # binding.policy)
      BY <3>1 DEF new, binding
    <3>3. vhosts'[v] = new /\ default'[v] = binding
          /\ \A w \in Vhost \ {v} : vhosts'[w] = vhosts[w] /\ default'[w] = default[w]
      BY <1>1, <1>2 DEF Typed
    <3>4. QED
      BY <1>1, <2>3, <3>2, <3>3 DEF Assigned
  <2>4. QED
    BY <1>1, <1>2, <2>2, <2>3, StaysInformed DEF IInv, AllInformed
<1>11. QED
  BY <1>6, <1>7, <1>8, <1>9, <1>10 DEF IInv

LEMMA DeleteVhostKeeps ==
    ASSUME IInv, NEW t \in Admin, NEW v \in Vhost, DeleteVhost(t, v)
    PROVE  IInv'
<1>1. /\ tx[t] = None /\ served' = served + 1 /\ End(t, {v}) /\ UNCHANGED policies
      /\ vhosts' = [vhosts EXCEPT ![v] = None]
      /\ default' = [default EXCEPT ![v] = None]
      /\ scoped' = [scoped EXCEPT ![v] = None]
  BY DEF DeleteVhost, Serve
<1>2. Typed
  BY DEF IInv
<1>3. /\ tx'[t] = None /\ DOMAIN tx' = Admin
      /\ \A u \in Admin \ {t} : tx'[u] = tx[u]
      /\ stale \subseteq stale'
      /\ \A u \in Admin \ {t} : tx[u] # None /\ tx[u].on \in {v} => tx[u].on \in stale'
  BY <1>1, <1>2, EndIs
<1>4. \A w \in Vhost \ {v} :
         vhosts'[w] = vhosts[w] /\ default'[w] = default[w] /\ scoped'[w] = scoped[w]
  BY <1>1, <1>2 DEF Typed
<1>5. vhosts'[v] = None /\ default'[v] = None /\ scoped'[v] = None
  BY <1>1, <1>2 DEF Typed
<1>6. Typed'
  BY <1>1, <1>2, <1>3, <1>4, <1>5 DEF Typed, TxTyped
<1>7. References' /\ VhostsServable' /\ FilterIsRendered'
  BY <1>1, <1>3, <1>4, <1>5
     DEF IInv, References, VhostsServable, Servable, FilterIsRendered, Filters
<1>8. AllInformed'
  <2> SUFFICES ASSUME NEW u \in Admin \ {t}, tx[u] # None PROVE TxInformed(u)'
    BY <1>3 DEF AllInformed, TxInformed
  <2>1. ASSUME NEW q \in Policy, Assigned(q)' PROVE Assigned(q)
    <3>1. q # None
      BY AdminAssumption DEF AdminAssumption
    <3>2. QED
      BY <1>4, <1>5, <2>1, <3>1 DEF Assigned
  <2>2. QED
    BY <1>1, <1>2, <1>3, <1>4, <2>1, StaysInformed DEF IInv, AllInformed
<1>9. QED
  BY <1>6, <1>7, <1>8 DEF IInv

\* A request that reads: nobody's row changes.
LEMMA ReadingKeeps ==
    ASSUME IInv, NEW t \in Admin, UNCHANGED <<tables, stale>>, served' \in Nat,
           DOMAIN tx' = Admin, \A u \in Admin \ {t} : tx'[u] = tx[u],
           TxTyped(t)', TxInformed(t)'
    PROVE  IInv'
<1>1. UNCHANGED <<policies, vhosts, default, scoped, stale>>
  BY DEF tables
<1>2. Typed'
  BY <1>1 DEF IInv, Typed, TxTyped
<1>3. References' /\ VhostsServable' /\ FilterIsRendered'
  BY <1>1 DEF IInv, References, VhostsServable, Servable, FilterIsRendered, Filters
<1>4. AllInformed'
  <2> SUFFICES ASSUME NEW u \in Admin \ {t} PROVE TxInformed(u)'
    BY DEF AllInformed
  <2>1. \A q \in Policy : Assigned(q)' => Assigned(q)
    BY <1>1 DEF Assigned
  <2>2. QED
    BY <1>1, <2>1, StaysInformed DEF IInv, AllInformed
<1>5. QED
  BY <1>2, <1>3, <1>4 DEF IInv

LEMMA AbortKeeps ==
    ASSUME IInv, NEW t \in Admin, Abort(t)
    PROVE  IInv'
<1>1. UNCHANGED tables /\ served' = served /\ stale' = stale
  BY DEF Abort, End
<1>2. tx'[t] = None /\ DOMAIN tx' = Admin /\ \A u \in Admin \ {t} : tx'[u] = tx[u]
  BY EndIs DEF Abort, IInv
<1>3. TxTyped(t)' /\ TxInformed(t)'
  BY <1>2 DEF TxTyped, TxInformed
<1>4. QED
  BY <1>1, <1>2, <1>3, ReadingKeeps DEF IInv, Typed

LEMMA ReadVhostKeeps ==
    ASSUME IInv, NEW t \in Admin, NEW v \in Vhost, NEW patch \in VhostPatches,
           ReadVhost(t, v, patch)
    PROVE  IInv'
<1> DEFINE txn == [kind |-> "vhost", id |-> served', on |-> v, patch |-> patch, row |-> vhosts[v],
                   mirror |-> None, flushed |-> patch.policy = Unset]
<1>1. /\ served' = served + 1 /\ vhosts[v] # None /\ AcceptableServers(patch, vhosts[v])
      /\ tx' = [tx EXCEPT ![t] = txn] /\ UNCHANGED <<tables, stale>>
  BY DEF ReadVhost, Serve
<1>2. served' \in Nat
  BY <1>1 DEF IInv, Typed
<1>3. tx'[t] = txn /\ DOMAIN tx' = Admin /\ \A u \in Admin \ {t} : tx'[u] = tx[u]
  BY <1>1 DEF IInv, Typed
<1>4. TxTyped(t)'
  BY <1>2, <1>3 DEF TxTyped
<1>5. TxInformed(t)'
  <2>1. /\ tx'[t].kind = "vhost" /\ tx'[t].on = v /\ tx'[t].patch = patch
        /\ tx'[t].row = vhosts[v]
    BY <1>3
  <2>2. vhosts' = vhosts
    BY <1>1 DEF tables
  <2>3. VhostTx(t)'
    <3>1. tx'[t].flushed = (patch.policy = Unset)
      BY <1>3
    <3>2. QED
      BY <1>1, <2>1, <2>2, <3>1 DEF VhostTx
  <2>4. QED
    BY <2>1, <2>3 DEF TxInformed
<1>6. QED
  BY <1>1, <1>2, <1>3, <1>4, <1>5, ReadingKeeps

LEMMA ReadMirrorKeeps ==
    ASSUME IInv, NEW t \in Admin, ReadMirror(t)
    PROVE  IInv'
<1> DEFINE v == tx[t].on
<1>1. CASE Abort(t)
  BY <1>1, AbortKeeps
<1>2. CASE /\ tx' = [tx EXCEPT ![t].flushed = TRUE, ![t].mirror = default[v]]
           /\ UNCHANGED <<tables, served, stale>>
  <2>1. /\ tx[t] # None /\ tx[t].kind = "vhost" /\ v \in Vhost /\ tx[t].id \in Nat
        /\ DOMAIN tx[t] = {"kind", "id", "on", "patch", "row", "mirror", "flushed"}
        /\ tx[t].patch \in VhostPatches
    BY DEF ReadMirror, IInv, Typed, TxTyped
  <2>2. /\ DOMAIN tx' = Admin /\ \A u \in Admin \ {t} : tx'[u] = tx[u]
        /\ tx'[t] = [tx[t] EXCEPT !.flushed = TRUE, !.mirror = default[v]]
    BY <1>2 DEF IInv, Typed
  <2>3. /\ DOMAIN tx'[t] = DOMAIN tx[t] /\ tx'[t].kind = "vhost" /\ tx'[t].on = v
        /\ tx'[t].id = tx[t].id /\ tx'[t].patch = tx[t].patch /\ tx'[t].row = tx[t].row
        /\ tx'[t].mirror = default[v]
    BY <2>1, <2>2
  <2>4. TxTyped(t)'
    BY <2>1, <2>3 DEF TxTyped, IInv, Typed
  <2>5. TxInformed(t)'
    <3>1. UNCHANGED <<vhosts, default, stale>>
      BY <1>2 DEF tables
    <3>2. v \notin stale => VhostTx(t)
      BY <2>1 DEF IInv, AllInformed, TxInformed
    <3>3. v \notin stale => VhostTx(t)'
      BY <2>3, <3>1, <3>2 DEF VhostTx
    <3>4. QED
      BY <2>3, <3>1, <3>3 DEF TxInformed
  <2>6. QED
    BY <1>2, <2>2, <2>4, <2>5, ReadingKeeps DEF IInv, Typed
<1>3. QED
  BY <1>1, <1>2 DEF ReadMirror

\* The row and the default binding a commit leaves.
LEMMA CommittedRow ==
    ASSUME IInv, NEW t \in Admin, tx[t] # None, tx[t].kind = "vhost", ~CommitFails(t)
    PROVE  /\ Dirty(t) =>
                /\ VhostRow(UpdatedVhost(t))
                /\ UpdatedVhost(t).policy \in {tx[t].patch.policy, vhosts[tx[t].on].policy}
                /\ UpdatedVhost(t).policy # None => policies[UpdatedVhost(t).policy] # None
           /\ Mirrored(t) \in Binding \cup {None}
           /\ Mirrored(t) \in {None, default[tx[t].on]} \/ Mirrored(t).policy = tx[t].patch.policy
<1> DEFINE v == tx[t].on
           patch == tx[t].patch
           p == patch.policy
           seen == tx[t].mirror
           now == default[v]
<1>1. /\ v \in Vhost /\ patch \in VhostPatch /\ seen \in Binding \cup {None} /\ tx[t].id \in Nat
      /\ p \in Policy \cup {None, Unset} /\ now \in Binding \cup {None}
  BY AdminAssumption DEF AdminAssumption, IInv, Typed, TxTyped, VhostPatch
<1>2. ASSUME Dirty(t)
      PROVE  /\ VhostRow(UpdatedVhost(t))
             /\ UpdatedVhost(t).policy \in {p, vhosts[v].policy}
             /\ UpdatedVhost(t).policy # None => policies[UpdatedVhost(t).policy] # None
  <2>1. vhosts[v] # None /\ VhostRow(vhosts[v])
    BY <1>1, <1>2 DEF CommitFails, IInv, Typed
  <2>2. vhosts[v].policy \in Policy \cup {None}
        /\ (vhosts[v].policy # None => policies[vhosts[v].policy] # None)
    BY <1>1, <2>1 DEF VhostRow, IInv, References
  <2>3. CASE Writes(patch, tx[t].row, "policy")
    <3>1. UpdatedVhost(t).policy = p /\ DOMAIN UpdatedVhost(t) = {"policy", "active", "host", "servers"}
      BY <2>3 DEF UpdatedVhost
    <3>2. p # Unset /\ Exists(p)
      BY <2>3 DEF Writes, CommitFails
    <3>3. QED
      BY <1>1, <3>1, <3>2 DEF Exists, VhostRow
  <2>4. CASE ~Writes(patch, tx[t].row, "policy")
    <3>1. /\ UpdatedVhost(t).policy = vhosts[v].policy
          /\ DOMAIN UpdatedVhost(t) = {"policy", "active", "host", "servers"}
      BY <2>4 DEF UpdatedVhost
    <3>2. QED
      BY <2>2, <3>1 DEF VhostRow
  <2>5. QED
    BY <2>3, <2>4
<1>3. Mirrored(t) \in Binding \cup {None} /\ (Mirrored(t) \in {None, now} \/ Mirrored(t).policy = p)
  <2>1. CASE p \in {None, Unset}
    BY <1>1, <2>1, AdminAssumption DEF Mirrored, AdminAssumption
  <2>2. CASE p \in Policy /\ seen = None
    <3>1. Mirrored(t) = [id |-> tx[t].id, policy |-> p]
      BY <2>2, AdminAssumption DEF Mirrored, AdminAssumption
    <3>2. QED
      BY <1>1, <2>2, <3>1 DEF Binding
  <2>3. CASE p \in Policy /\ seen # None /\ seen.policy = p
    BY <1>1, <2>3, AdminAssumption DEF Mirrored, AdminAssumption
  <2>4. CASE p \in Policy /\ seen # None /\ seen.policy # p
    <3>1. Mirrored(t) = [seen EXCEPT !.policy = p]
      BY <2>4, AdminAssumption DEF Mirrored, AdminAssumption
    <3>2. QED
      BY <1>1, <2>4, <3>1 DEF Binding
  <2>5. QED
    BY <1>1, <2>1, <2>2, <2>3, <2>4
<1>4. QED
  BY <1>2, <1>3

\* Where no request has overlapped, the vhost's policy, its mirror and its
\* servers are those of the patch merged with the row that was read.
LEMMA CommittedIsServable ==
    ASSUME IInv, NEW t \in Admin, tx[t] # None, tx[t].kind = "vhost", tx[t].flushed,
           ~CommitFails(t), NEW v \in Vhost \ stale, tx[t].on = v,
           vhosts'[v] = IF Dirty(t) THEN UpdatedVhost(t) ELSE vhosts[v],
           default'[v] = Mirrored(t)
    PROVE  Servable(v)'
<1> DEFINE patch == tx[t].patch
           p == patch.policy
           read == tx[t].row
           new == vhosts'[v]
<1>1. /\ tx[t].mirror \in Binding \cup {None} /\ tx[t].id \in Nat
      /\ p \in Policy \cup {None, Unset} /\ patch \in VhostPatches
  BY AdminAssumption DEF AdminAssumption, IInv, Typed, TxTyped, VhostPatch
<1>2. /\ vhosts[v] # None /\ vhosts[v] = read /\ AcceptableServers(patch, read)
      /\ p # Unset => tx[t].mirror = default[v]
  <2>1. VhostTx(t)
    BY DEF IInv, AllInformed, TxInformed
  <2>2. QED
    BY <2>1 DEF VhostTx
<1>3. /\ read.policy = IF default[v] = None THEN None ELSE default[v].policy
      /\ OnePath(read.servers) /\ (read.active => AnyOn(read.servers))
  BY <1>1, <1>2 DEF IInv, VhostsServable, Servable
<1>4. new.policy = IF p = Unset THEN read.policy ELSE p
  <2>1. CASE Dirty(t)
    BY <1>2, <2>1 DEF UpdatedVhost, Writes
  <2>2. CASE ~Dirty(t)
    BY <1>2, <2>2 DEF Dirty, Writes
  <2>3. QED
    BY <2>1, <2>2
<1>5. default'[v] = Mirrored(t) /\ default[v] \in Binding \cup {None}
  BY <1>1 DEF IInv, Typed
<1>6. new.policy = IF default'[v] = None THEN None ELSE default'[v].policy
  <2>1. CASE p = Unset
    <3>1. Mirrored(t) = default[v]
      BY <2>1, AdminAssumption DEF Mirrored, AdminAssumption
    <3>2. QED
      BY <1>3, <1>4, <1>5, <2>1, <3>1
  <2>2. CASE p = None
    <3>1. p # Unset
      BY <2>2, AdminAssumption DEF AdminAssumption
    <3>2. Mirrored(t) = None
      BY <1>2, <2>2, <3>1, AdminAssumption DEF Mirrored, AdminAssumption
    <3>3. QED
      BY <1>4, <1>5, <2>2, <3>1, <3>2
  <2>3. CASE p \in Policy
    <3>1. p # None /\ p # Unset /\ None \notin Binding
      BY <2>3, AdminAssumption DEF AdminAssumption, Binding
    <3>2. CASE tx[t].mirror = None
      <4>1. Mirrored(t) = [id |-> tx[t].id, policy |-> p]
        BY <2>3, <3>1, <3>2 DEF Mirrored
      <4>2. Mirrored(t) \in Binding /\ Mirrored(t).policy = p
        BY <1>1, <2>3, <4>1 DEF Binding
      <4>3. QED
        BY <1>4, <1>5, <3>1, <4>2
    <3>3. CASE tx[t].mirror # None /\ tx[t].mirror.policy = p
      <4>1. Mirrored(t) = default[v]
        BY <2>3, <3>1, <3>3 DEF Mirrored
      <4>2. QED
        BY <1>2, <1>4, <1>5, <3>1, <3>3, <4>1
    <3>4. CASE tx[t].mirror # None /\ tx[t].mirror.policy # p
      <4>1. Mirrored(t) = [tx[t].mirror EXCEPT !.policy = p]
        BY <2>3, <3>1, <3>4 DEF Mirrored
      <4>2. Mirrored(t) \in Binding /\ Mirrored(t).policy = p
        BY <1>1, <2>3, <3>4, <4>1 DEF Binding
      <4>3. QED
        BY <1>4, <1>5, <3>1, <4>2
    <3>5. QED
      BY <3>2, <3>3, <3>4
  <2>4. QED
    BY <1>1, <2>1, <2>2, <2>3
<1>7. new.active = Effective(patch, read, "active")
  <2>1. CASE Dirty(t)
    BY <1>2, <2>1 DEF UpdatedVhost, Writes, Effective
  <2>2. CASE ~Dirty(t)
    BY <1>2, <2>2 DEF Dirty, Writes, Effective
  <2>3. QED
    BY <2>1, <2>2
<1>8. OnePath(new.servers) /\ (Effective(patch, read, "active") => AnyOn(new.servers))
  <2>1. CASE patch.servers = Unset
    <3>1. new.servers = read.servers
      BY <1>2, <2>1 DEF UpdatedVhost
    <3>2. QED
      BY <1>2, <1>3, <2>1, <3>1 DEF AcceptableServers
  <2>2. CASE patch.servers # Unset
    <3>1. new.servers = (read.servers \ read.servers) \cup Rows(tx[t].id, patch.servers)
      BY <1>2, <2>2 DEF UpdatedVhost, Dirty
    <3>2. new.servers = Rows(tx[t].id, patch.servers)
      BY <3>1
    <3>3. QED
      BY <1>2, <2>2, <3>2, SameServers DEF AcceptableServers
  <2>3. QED
    BY <2>1, <2>2
<1> HIDE DEF new
<1>9. QED
  <2>1. OnePath(new.servers) /\ (new.active => AnyOn(new.servers))
    BY <1>7, <1>8
  <2>2. QED
    BY <1>6, <2>1 DEF Servable, new

LEMMA CommitVhostKeeps ==
    ASSUME IInv, NEW t \in Admin, CommitVhost(t)
    PROVE  IInv'
<1>1. CASE Abort(t)
  BY <1>1, AbortKeeps
<1>2. CASE ~Abort(t)
  <2>0. PICK v \in Vhost : v = tx[t].on
    BY DEF CommitVhost, IInv, Typed, TxTyped
  <2> PICK p : p = tx[t].patch.policy
    OBVIOUS
  <2>1. v = tx[t].on /\ p = tx[t].patch.policy
    BY <2>0
  <2>2. /\ tx[t] # None /\ tx[t].kind = "vhost" /\ tx[t].flushed /\ ~CommitFails(t)
        /\ vhosts' = IF Dirty(t) THEN [vhosts EXCEPT ![v] = UpdatedVhost(t)] ELSE vhosts
        /\ default' = [default EXCEPT ![v] = Mirrored(t)]
        /\ End(t, {v} \cup ({p} \cap Policy))
        /\ UNCHANGED <<policies, scoped, served>>
    BY <1>2, <2>1 DEF CommitVhost
  <2>3. Typed
    BY DEF IInv
  <2>4. /\ Dirty(t) =>
             /\ VhostRow(UpdatedVhost(t))
             /\ UpdatedVhost(t).policy \in {p, vhosts[v].policy}
             /\ UpdatedVhost(t).policy # None => policies[UpdatedVhost(t).policy] # None
        /\ Mirrored(t) \in Binding \cup {None}
        /\ Mirrored(t) \in {None, default[v]} \/ Mirrored(t).policy = p
    BY <2>1, <2>2, CommittedRow
  <2>5. /\ vhosts'[v] = IF Dirty(t) THEN UpdatedVhost(t) ELSE vhosts[v]
        /\ default'[v] = Mirrored(t)
        /\ \A w \in Vhost \ {v} : vhosts'[w] = vhosts[w] /\ default'[w] = default[w]
        /\ DOMAIN vhosts' = Vhost
    BY <2>2, <2>3 DEF Typed
  <2>6. /\ tx'[t] = None /\ DOMAIN tx' = Admin
        /\ \A u \in Admin \ {t} : tx'[u] = tx[u]
        /\ stale \subseteq stale'
        /\ \A u \in Admin \ {t} :
              tx[u] # None /\ tx[u].on \in {v} \cup ({p} \cap Policy) => tx[u].on \in stale'
    BY <2>2, <2>3, EndIs
  <2>7. Typed'
    BY <2>2, <2>3, <2>4, <2>5, <2>6 DEF Typed, TxTyped
  <2>8. References'
    BY <2>2, <2>4, <2>5 DEF IInv, References
  <2>9. FilterIsRendered'
    BY <2>2, <2>6 DEF IInv, FilterIsRendered, Filters
  <2>10. v \notin stale => Servable(v)'
    BY <2>1, <2>2, <2>5, CommittedIsServable
  <2>11. VhostsServable'
    BY <2>5, <2>6, <2>10 DEF IInv, VhostsServable, Servable
  <2>12. AllInformed'
    <3> SUFFICES ASSUME NEW u \in Admin \ {t}, tx[u] # None PROVE TxInformed(u)'
      BY <2>6 DEF AllInformed, TxInformed
    <3>1. ASSUME NEW w \in Vhost, tx[u].on = w, w \notin stale'
          PROVE  vhosts'[w] = vhosts[w] /\ default'[w] = default[w]
      BY <2>5, <2>6, <3>1
    <3>2. ASSUME NEW q \in Policy, tx[u].on = q, q \notin stale', Assigned(q)' PROVE Assigned(q)
      <4>1. q # p
        BY <2>6, <3>2
      <4>2. vhosts'[v] # None /\ vhosts'[v].policy = q => vhosts[v] # None /\ vhosts[v].policy = q
        <5>1. Dirty(t) => vhosts[v] # None
          BY <2>1, <2>2 DEF CommitFails
        <5>2. QED
          BY <2>4, <2>5, <4>1, <5>1
      <4>3. default'[v] # None /\ default'[v].policy = q => default[v] # None /\ default[v].policy = q
        BY <2>4, <2>5, <4>1
      <4>4. QED
        BY <2>2, <2>5, <3>2, <4>2, <4>3 DEF Assigned
    <3>3. QED
      BY <2>2, <2>3, <2>6, <3>1, <3>2, StaysInformed DEF IInv, AllInformed
  <2>13. QED
    BY <2>7, <2>8, <2>9, <2>11, <2>12 DEF IInv
<1>3. QED
  BY <1>1, <1>2

\* The path-scoped bindings are only looked at by delete_policy.
LEMMA BindingKeeps ==
    ASSUME IInv, NEW t \in Admin, tx[t] = None, NEW v \in Vhost, NEW p \in Policy \cup {None},
           scoped' = [scoped EXCEPT ![v] = p],
           stale \subseteq stale', OpenOn(t, p) => p \in stale', served' \in Nat,
           UNCHANGED <<policies, vhosts, default, tx>>
    PROVE  IInv'
<1>1. Typed'
  BY DEF IInv, Typed, TxTyped
<1>2. References' /\ VhostsServable' /\ FilterIsRendered'
  BY DEF IInv, References, VhostsServable, Servable, FilterIsRendered, Filters
<1>3. AllInformed'
  <2> SUFFICES ASSUME NEW u \in Admin, tx[u] # None PROVE TxInformed(u)'
    BY DEF AllInformed, TxInformed
  <2>1. ASSUME NEW q \in Policy, tx[u].on = q, q \notin stale', Assigned(q)' PROVE Assigned(q)
    <3>1. q # p
      BY <2>1 DEF OpenOn
    <3>2. \A w \in Vhost : scoped'[w] = q => scoped[w] = q
      BY <3>1 DEF IInv, Typed
    <3>3. QED
      BY <2>1, <3>2 DEF Assigned
  <2>2. QED
    BY <2>1, StaysInformed DEF IInv, AllInformed
<1>4. QED
  BY <1>1, <1>2, <1>3 DEF IInv

LEMMA BindingRequestsKeep == ASSUME IInv, NEW t \in Admin, BindingRequests(t) PROVE IInv'
<1>1. ASSUME NEW v \in Vhost, DeleteBinding(t, v) PROVE IInv'
  <2>1. ~OpenOn(t, None)
    BY AdminAssumption DEF OpenOn, IInv, Typed, TxTyped, AdminAssumption
  <2>2. /\ tx[t] = None /\ scoped' = [scoped EXCEPT ![v] = None] /\ served' \in Nat
        /\ stale \subseteq stale' /\ UNCHANGED <<policies, vhosts, default, tx>>
    BY <1>1 DEF DeleteBinding, Serve, IInv, Typed
  <2>3. QED
    BY <2>1, <2>2, BindingKeeps
<1>2. ASSUME NEW v \in Vhost, NEW p \in Policy, CreateBinding(t, v, p) PROVE IInv'
  <2>1. /\ tx[t] = None /\ scoped' = [scoped EXCEPT ![v] = p] /\ served' \in Nat
        /\ UNCHANGED <<policies, vhosts, default, tx>>
    BY <1>2 DEF CreateBinding, Serve, IInv, Typed
  <2>2. stale \subseteq stale' /\ (OpenOn(t, p) => p \in stale')
    BY <1>2 DEF CreateBinding
  <2>3. QED
    BY <2>1, <2>2, BindingKeeps
<1>3. QED
  BY <1>1, <1>2 DEF BindingRequests

-----------------------------------------------------------------------------
\* Policies

\* A change of one policy's row, to one that passes the check or is stale.
LEMMA PolicyRowKeeps ==
    ASSUME IInv, NEW t \in Admin, NEW p \in Policy, NEW entry \in PolicyRow,
           policies' = [policies EXCEPT ![p] = entry],
           p \notin stale' => (entry.filter => entry.countries),
           DOMAIN tx' = Admin, tx'[t] = None, \A u \in Admin \ {t} : tx'[u] = tx[u],
           stale \subseteq stale',
           \A u \in Admin \ {t} : tx[u] # None /\ tx[u].on = p => p \in stale',
           served' \in Nat, UNCHANGED <<vhosts, default, scoped>>
    PROVE  IInv'
<1>1. entry # None
  BY AdminAssumption DEF AdminAssumption
<1>2. policies'[p] = entry /\ \A q \in Policy \ {p} : policies'[q] = policies[q]
  BY DEF IInv, Typed
<1>3. Typed'
  BY DEF IInv, Typed, TxTyped
<1>4. References'
  <2>1. \A v \in Vhost : vhosts[v] # None /\ vhosts[v].policy # None => vhosts[v].policy \in Policy
    BY DEF IInv, Typed, VhostRow
  <2>2. QED
    BY <1>1, <1>2, <2>1 DEF IInv, References
<1>5. VhostsServable'
  BY DEF IInv, VhostsServable, Servable
<1>6. FilterIsRendered'
  BY <1>2 DEF IInv, FilterIsRendered, Filters
<1>7. AllInformed'
  <2> SUFFICES ASSUME NEW u \in Admin \ {t}, tx[u] # None PROVE TxInformed(u)'
    BY DEF AllInformed, TxInformed
  <2>1. \A q \in Policy : Assigned(q)' => Assigned(q)
    BY DEF Assigned
  <2>2. \A q \in Policy : tx[u].on = q /\ q \notin stale' => policies'[q] = policies[q]
    BY <1>2
  <2>3. QED
    BY <2>1, <2>2, StaysInformed DEF IInv, AllInformed
<1>8. QED
  BY <1>3, <1>4, <1>5, <1>6, <1>7 DEF IInv

LEMMA CreatePolicyKeeps ==
    ASSUME IInv, NEW t \in Admin, NEW p \in Policy, NEW entry \in NewPolicies,
           CreatePolicy(t, p, entry)
    PROVE  IInv'
<1>1. entry \in PolicyRow
  BY AdminAssumption DEF AdminAssumption
<1>2. /\ tx[t] = None /\ served' \in Nat /\ Forgotten(p) /\ GeoipOk(entry, entry)
      /\ policies' = [policies EXCEPT ![p] = entry]
      /\ UNCHANGED <<vhosts, default, scoped, tx, stale>>
  BY DEF CreatePolicy, Serve, IInv, Typed
<1>3. entry.filter => entry.countries
  BY <1>2 DEF GeoipOk, Effective
<1>4. \A u \in Admin : tx[u] # None => tx[u].on # p
  BY <1>2 DEF Forgotten
<1>5. QED
  BY <1>1, <1>2, <1>3, <1>4, PolicyRowKeeps DEF IInv, Typed

LEMMA ReadPolicyKeeps ==
    ASSUME IInv, NEW t \in Admin, NEW p \in Policy, NEW patch \in PolicyPatches,
           ReadPolicy(t, p, patch)
    PROVE  IInv'
<1> DEFINE txn == [kind |-> "policy", on |-> p, patch |-> patch, row |-> policies[p]]
<1>1. /\ served' \in Nat /\ policies[p] # None /\ GeoipOk(patch, policies[p])
      /\ tx' = [tx EXCEPT ![t] = txn] /\ UNCHANGED <<tables, stale>>
  BY DEF ReadPolicy, Serve, IInv, Typed
<1>2. tx'[t] = txn /\ DOMAIN tx' = Admin /\ \A u \in Admin \ {t} : tx'[u] = tx[u]
  BY <1>1 DEF IInv, Typed
<1>3. /\ tx'[t].kind = "policy" /\ tx'[t].on = p /\ tx'[t].patch = patch
      /\ tx'[t].row = policies[p]
  BY <1>2
<1>4. TxTyped(t)'
  BY <1>3 DEF TxTyped
<1>5. TxInformed(t)'
  <2>1. policies' = policies
    BY <1>1 DEF tables
  <2>2. PolicyTx(t)'
    BY <1>1, <1>3, <2>1 DEF PolicyTx
  <2>3. QED
    BY <1>3, <2>2 DEF TxInformed
<1>6. QED
  BY <1>1, <1>2, <1>4, <1>5, ReadingKeeps

\* The row the commit of a PATCH leaves: it passes the check, unless stale.
LEMMA CommittedPolicy ==
    ASSUME IInv, NEW t \in Admin, CommitPolicy(t), policies[tx[t].on] # None
    PROVE  \E p \in Policy, entry \in PolicyRow :
             /\ tx[t] # None /\ p = tx[t].on
             /\ policies' = [policies EXCEPT ![p] = entry] /\ End(t, {p})
             /\ UNCHANGED <<vhosts, default, scoped, served>>
             /\ p \notin stale => (entry.filter => entry.countries)
<1>1. /\ tx[t] # None /\ tx[t].kind = "policy" /\ TxTyped(t) /\ Typed
  BY DEF CommitPolicy, IInv, Typed
<1> PICK read : read = tx[t].row
  OBVIOUS
<1>2. PICK p \in Policy, patch \in PolicyPatch :
        p = tx[t].on /\ patch = tx[t].patch /\ read = tx[t].row
  BY <1>1, AdminAssumption DEF TxTyped, AdminAssumption
<1> DEFINE now == policies[p]
           new == [col \in DOMAIN now |-> IF Writes(patch, read, col) THEN patch[col] ELSE now[col]]
<1>3. now \in PolicyRow /\ policies' = [policies EXCEPT ![p] = new] /\ End(t, {p})
      /\ UNCHANGED <<vhosts, default, scoped, served>>
  BY <1>1, <1>2 DEF CommitPolicy, Typed
<1>4. DOMAIN now = {"active", "filter", "countries"}
  BY <1>3 DEF PolicyRow
<1>5. new \in PolicyRow
  <2>1. \A col \in {"active", "filter", "countries"} :
          now[col] \in BOOLEAN /\ (Writes(patch, read, col) => patch[col] \in BOOLEAN)
    BY <1>2, <1>3 DEF PolicyRow, PolicyPatch, Writes
  <2>2. \A col \in {"active", "filter", "countries"} : new[col] \in BOOLEAN
    BY <1>4, <2>1
  <2>3. new = [active |-> new.active, filter |-> new.filter, countries |-> new.countries]
    BY <1>4
  <2> HIDE DEF new
  <2>4. QED
    BY <2>2, <2>3 DEF PolicyRow
<1>6. ASSUME p \notin stale PROVE new.filter => new.countries
  <2>1. now = read /\ GeoipOk(patch, read)
    BY <1>1, <1>2, <1>6 DEF IInv, AllInformed, TxInformed, PolicyTx
  <2>2. /\ new["filter"] = Effective(patch, read, "filter")
        /\ new["countries"] = Effective(patch, read, "countries")
    BY <1>4, <2>1 DEF Writes, Effective
  <2> HIDE DEF new
  <2>3. QED
    BY <2>1, <2>2 DEF GeoipOk
<1> HIDE DEF new
<1>7. QED
  BY <1>1, <1>2, <1>3, <1>5, <1>6

LEMMA CommitPolicyKeeps == ASSUME IInv, NEW t \in Admin, CommitPolicy(t) PROVE IInv'
<1>1. CASE policies[tx[t].on] = None
  BY <1>1, AbortKeeps DEF CommitPolicy
<1>2. CASE policies[tx[t].on] # None
  <2>1. PICK p \in Policy, entry \in PolicyRow :
          /\ tx[t] # None /\ p = tx[t].on
          /\ policies' = [policies EXCEPT ![p] = entry] /\ End(t, {p})
          /\ UNCHANGED <<vhosts, default, scoped, served>>
          /\ p \notin stale => (entry.filter => entry.countries)
    BY <1>2, CommittedPolicy
  <2>2. /\ tx'[t] = None /\ DOMAIN tx' = Admin
        /\ \A u \in Admin \ {t} : tx'[u] = tx[u]
        /\ stale \subseteq stale'
        /\ \A u \in Admin \ {t} : tx[u] # None /\ tx[u].on \in {p} => tx[u].on \in stale'
    BY <2>1, EndIs DEF IInv
  <2>3. /\ p \notin stale' => (entry.filter => entry.countries)
        /\ \A u \in Admin \ {t} : tx[u] # None /\ tx[u].on = p => p \in stale'
        /\ served' \in Nat
    BY <2>1, <2>2 DEF IInv, Typed
  <2>4. QED
    BY <2>1, <2>2, <2>3, PolicyRowKeeps
<1>3. QED
  BY <1>1, <1>2

LEMMA CheckUnassignedKeeps ==
    ASSUME IInv, NEW t \in Admin, NEW p \in Policy, CheckUnassigned(t, p)
    PROVE  IInv'
<1>1. /\ served' \in Nat /\ ~Assigned(p) /\ UNCHANGED <<tables, stale>>
      /\ tx' = [tx EXCEPT ![t] = [kind |-> "delete", on |-> p]]
  BY DEF CheckUnassigned, Serve, IInv, Typed
<1>2. /\ DOMAIN tx' = Admin /\ \A u \in Admin \ {t} : tx'[u] = tx[u]
      /\ tx'[t] = [kind |-> "delete", on |-> p]
  BY <1>1 DEF IInv, Typed
<1>3. TxTyped(t)'
  BY <1>2 DEF TxTyped
<1>4. TxInformed(t)'
  <2>1. tx'[t].kind = "delete" /\ tx'[t].on = p
    BY <1>2
  <2>2. DeleteTx(t)'
    BY <1>1, <2>1 DEF DeleteTx, Assigned, tables
  <2>3. QED
    BY <2>1, <2>2 DEF TxInformed
<1>5. QED
  BY <1>1, <1>2, <1>3, <1>4, ReadingKeeps

\* The deletion of a policy clears it from every row that names it.
LEMMA DeletePolicyIs ==
    ASSUME IInv, NEW t \in Admin, DeletePolicy(t)
    PROVE  \E p \in Policy :
             /\ tx[t] # None /\ tx[t].kind = "delete" /\ p = tx[t].on
             /\ policies' = [policies EXCEPT ![p] = None]
             /\ vhosts' = [v \in Vhost |->
                   IF vhosts[v] # None /\ vhosts[v].policy = p
                   THEN [vhosts[v] EXCEPT !.policy = None] ELSE vhosts[v]]
             /\ default' = [v \in Vhost |->
                   IF default[v] # None /\ default[v].policy = p THEN None ELSE default[v]]
             /\ scoped' = [v \in Vhost |-> IF scoped[v] = p THEN None ELSE scoped[v]]
             /\ tx'[t] = None /\ DOMAIN tx' = Admin
             /\ \A u \in Admin \ {t} : tx'[u] = tx[u]
             /\ stale \subseteq stale'
             /\ \A u \in Admin \ {t} : tx[u] # None /\ tx[u].on = p => p \in stale'
             /\ \A u \in Admin \ {t}, v \in Vhost :
                   /\ tx[u] # None /\ tx[u].on = v
                   /\ \/ vhosts[v] # None /\ vhosts[v].policy = p
                      \/ default[v] # None /\ default[v].policy = p
                   => v \in stale'
             /\ UNCHANGED served
<1>1. TxTyped(t) /\ tx[t] # None /\ tx[t].kind = "delete"
  BY DEF DeletePolicy, IInv, Typed
<1>2. PICK p \in Policy : p = tx[t].on
  BY <1>1 DEF TxTyped
<1> DEFINE of == {v \in Vhost : vhosts[v] # None /\ vhosts[v].policy = p}
           mirrors == {v \in Vhost : default[v] # None /\ default[v].policy = p}
<1>3. /\ policies' = [policies EXCEPT ![p] = None]
      /\ vhosts' = [v \in Vhost |->
            IF v \in of THEN [vhosts[v] EXCEPT !.policy = None] ELSE vhosts[v]]
      /\ default' = [v \in Vhost |-> IF v \in mirrors THEN None ELSE default[v]]
      /\ scoped' = [v \in Vhost |-> IF scoped[v] = p THEN None ELSE scoped[v]]
      /\ End(t, {p} \cup of \cup mirrors)
      /\ UNCHANGED served
  BY <1>2 DEF DeletePolicy
<1>4. /\ tx'[t] = None /\ DOMAIN tx' = Admin
      /\ \A u \in Admin \ {t} : tx'[u] = tx[u]
      /\ stale \subseteq stale'
      /\ \A u \in Admin \ {t} :
            tx[u] # None /\ tx[u].on \in {p} \cup of \cup mirrors => tx[u].on \in stale'
  <2> HIDE DEF of, mirrors
  <2>1. QED
    BY <1>3, EndIs DEF IInv
<1>5. /\ vhosts' = [v \in Vhost |->
            IF vhosts[v] # None /\ vhosts[v].policy = p
            THEN [vhosts[v] EXCEPT !.policy = None] ELSE vhosts[v]]
      /\ default' = [v \in Vhost |->
            IF default[v] # None /\ default[v].policy = p THEN None ELSE default[v]]
  BY <1>3
<1>6. /\ \A u \in Admin \ {t} : tx[u] # None /\ tx[u].on = p => p \in stale'
      /\ \A u \in Admin \ {t}, v \in Vhost :
            /\ tx[u] # None /\ tx[u].on = v
            /\ \/ vhosts[v] # None /\ vhosts[v].policy = p
               \/ default[v] # None /\ default[v].policy = p
            => v \in stale'
  BY <1>4
<1> HIDE DEF of, mirrors
<1>7. QED
  <2>1. /\ tx[t] # None /\ tx[t].kind = "delete" /\ p = tx[t].on
        /\ policies' = [policies EXCEPT ![p] = None]
        /\ scoped' = [v \in Vhost |-> IF scoped[v] = p THEN None ELSE scoped[v]]
        /\ UNCHANGED served
    BY <1>1, <1>2, <1>3
  <2> WITNESS p \in Policy
  <2>2. QED
    BY <1>4, <1>5, <1>6, <2>1

LEMMA DeletePolicyKeeps == ASSUME IInv, NEW t \in Admin, DeletePolicy(t) PROVE IInv'
<1>1. PICK p \in Policy :
        /\ tx[t] # None /\ tx[t].kind = "delete" /\ p = tx[t].on
        /\ policies' = [policies EXCEPT ![p] = None]
        /\ vhosts' = [v \in Vhost |->
              IF vhosts[v] # None /\ vhosts[v].policy = p
              THEN [vhosts[v] EXCEPT !.policy = None] ELSE vhosts[v]]
        /\ default' = [v \in Vhost |->
              IF default[v] # None /\ default[v].policy = p THEN None ELSE default[v]]
        /\ scoped' = [v \in Vhost |-> IF scoped[v] = p THEN None ELSE scoped[v]]
        /\ tx'[t] = None /\ DOMAIN tx' = Admin
        /\ \A u \in Admin \ {t} : tx'[u] = tx[u]
        /\ stale \subseteq stale'
        /\ \A u \in Admin \ {t} : tx[u] # None /\ tx[u].on = p => p \in stale'
        /\ \A u \in Admin \ {t}, v \in Vhost :
              /\ tx[u] # None /\ tx[u].on = v
              /\ \/ vhosts[v] # None /\ vhosts[v].policy = p
                 \/ default[v] # None /\ default[v].policy = p
              => v \in stale'
        /\ UNCHANGED served
  BY DeletePolicyIs
<1>2. p # None /\ Typed
  BY AdminAssumption DEF AdminAssumption, IInv
<1>3. policies'[p] = None /\ \A q \in Policy \ {p} : policies'[q] = policies[q]
  BY <1>1, <1>2 DEF Typed
<1>4. ASSUME NEW v \in Vhost, vhosts[v] # None, vhosts[v].policy = p
      PROVE  /\ VhostRow(vhosts'[v]) /\ vhosts'[v].policy = None
             /\ vhosts'[v].active = vhosts[v].active /\ vhosts'[v].servers = vhosts[v].servers
  <2>1. VhostRow(vhosts[v]) /\ vhosts'[v] = [vhosts[v] EXCEPT !.policy = None]
    BY <1>1, <1>2, <1>4 DEF Typed
  <2>2. QED
    BY <2>1 DEF VhostRow
<1>5. \A v \in Vhost : ~(vhosts[v] # None /\ vhosts[v].policy = p) => vhosts'[v] = vhosts[v]
  BY <1>1
<1>6. \A v \in Vhost :
        default'[v] = IF default[v] # None /\ default[v].policy = p THEN None ELSE default[v]
  BY <1>1
<1>7. Typed'
  <2>1. policies' \in [Policy -> PolicyRow \cup {None}]
    BY <1>1, <1>2 DEF Typed
  <2>2. /\ vhosts' = [v \in Vhost |-> vhosts'[v]]
        /\ \A v \in Vhost : vhosts'[v] # None => VhostRow(vhosts'[v])
    BY <1>1, <1>2, <1>4, <1>5 DEF Typed
  <2>3. default' \in [Vhost -> Binding \cup {None}] /\ scoped' \in [Vhost -> Policy \cup {None}]
    BY <1>1, <1>2 DEF Typed
  <2>4. \A u \in Admin : TxTyped(u)'
    BY <1>1, <1>2 DEF Typed, TxTyped
  <2>5. QED
    BY <1>1, <1>2, <2>1, <2>2, <2>3, <2>4 DEF Typed
<1>8. References'
  <2> SUFFICES ASSUME NEW v \in Vhost, vhosts'[v] # None, vhosts'[v].policy # None
               PROVE  policies'[vhosts'[v].policy] # None
    BY DEF References
  <2>1. vhosts'[v] = vhosts[v] /\ vhosts[v].policy # p
    BY <1>4, <1>5
  <2>2. vhosts[v].policy \in Policy
    BY <1>2, <2>1 DEF Typed, VhostRow
  <2>3. QED
    BY <1>3, <2>1, <2>2 DEF IInv, References
<1>9. FilterIsRendered'
  BY <1>1, <1>3 DEF IInv, FilterIsRendered, Filters
<1>10. VhostsServable'
  <2> SUFFICES ASSUME NEW v \in Vhost, v \notin stale', vhosts'[v] # None PROVE Servable(v)'
    BY DEF VhostsServable, Servable
  <2>1. vhosts[v] # None /\ Servable(v)
    BY <1>1, <1>4, <1>5 DEF IInv, VhostsServable
  <2>2. vhosts'[v].active = vhosts[v].active /\ vhosts'[v].servers = vhosts[v].servers
    BY <1>4, <1>5
  <2>3. vhosts'[v].policy = IF vhosts[v].policy = p THEN None ELSE vhosts[v].policy
    BY <1>4, <1>5, <2>1
  <2>4. vhosts'[v].policy = IF default'[v] = None THEN None ELSE default'[v].policy
    BY <1>2, <1>6, <2>1, <2>3 DEF Servable
  <2>5. QED
    BY <2>1, <2>2, <2>4 DEF Servable
<1>11. AllInformed'
  <2> SUFFICES ASSUME NEW u \in Admin \ {t}, tx[u] # None PROVE TxInformed(u)'
    BY <1>1 DEF AllInformed, TxInformed
  <2>1. ASSUME NEW v \in Vhost, tx[u].on = v, v \notin stale'
        PROVE  vhosts'[v] = vhosts[v] /\ default'[v] = default[v]
    BY <1>1, <1>5, <1>6, <2>1
  <2>2. ASSUME NEW q \in Policy, tx[u].on = q, q \notin stale'
        PROVE  policies'[q] = policies[q] /\ (Assigned(q)' => Assigned(q))
    <3>1. q # p /\ q # None
      BY <1>1, <2>2, AdminAssumption DEF AdminAssumption
    <3>2. \A v \in Vhost : vhosts'[v] # None /\ vhosts'[v].policy = q
                             => vhosts[v] # None /\ vhosts[v].policy = q
      BY <1>4, <1>5, <3>1
    <3>3. \A v \in Vhost : default'[v] # None /\ default'[v].policy = q
                             => default[v] # None /\ default[v].policy = q
      BY <1>6
    <3>4. \A v \in Vhost : scoped'[v] = q => scoped[v] = q
      BY <1>1, <3>1
    <3>5. QED
      BY <1>3, <3>1, <3>2, <3>3, <3>4 DEF Assigned
  <2>3. QED
    BY <1>1, <1>2, <2>1, <2>2, StaysInformed DEF IInv, AllInformed
<1>12. QED
  BY <1>7, <1>8, <1>9, <1>10, <1>11 DEF IInv

-----------------------------------------------------------------------------
LEMMA NextKeepsIInv == ASSUME IInv, [Next]_vars PROVE IInv'
<1>1. CASE UNCHANGED vars
  <2>1. Typed' /\ References' /\ FilterIsRendered' /\ VhostsServable'
    BY <1>1 DEF vars, IInv, Typed, TxTyped, References, FilterIsRendered, Filters,
                VhostsServable, Servable
  <2>2. AllInformed'
    BY <1>1 DEF vars, IInv, AllInformed, TxInformed, VhostTx, PolicyTx, DeleteTx, Assigned
  <2>3. QED
    BY <2>1, <2>2 DEF IInv
<1>2. ASSUME NEW t \in Admin, VhostRequests(t) PROVE IInv'
  BY <1>2, CreateVhostKeeps, DeleteVhostKeeps, ReadVhostKeeps, ReadMirrorKeeps, CommitVhostKeeps
     DEF VhostRequests
<1>3. ASSUME NEW t \in Admin, BindingRequests(t) PROVE IInv'
  BY <1>3, BindingRequestsKeep
<1>4. ASSUME NEW t \in Admin, PolicyRequests(t) PROVE IInv'
  BY <1>4, CreatePolicyKeeps, ReadPolicyKeeps, CheckUnassignedKeeps, CommitPolicyKeeps,
     DeletePolicyKeeps DEF PolicyRequests
<1>5. QED
  BY <1>1, <1>2, <1>3, <1>4 DEF Next

-----------------------------------------------------------------------------
\* The strengthening the theorems below follow from: a transaction on a row
\* that is not stale sees the row it read.
THEOREM Inductive == Spec => []IInv
<1>1. Init => IInv
  BY InitInvariant
<1>2. IInv /\ [Next]_vars => IInv'
  BY NextKeepsIInv
<1>3. QED
  BY <1>1, <1>2, PTL DEF Spec

\* The binding of "/" is the vhost's policy (_sync_default_policy_binding), as
\* long as no two requests overlap on the vhost.
THEOREM Mirrors == Spec => []MirrorHolds
<1>1. IInv => MirrorHolds
  BY DEF IInv, VhostsServable, Servable, MirrorHolds
<1>2. QED
  BY <1>1, Inductive, PTL

\* _validate_geoip, on the merged patch: a policy that filters has countries.
THEOREM FiltersRender == Spec => []FilterIsRendered
<1>1. IInv => FilterIsRendered
  BY DEF IInv
<1>2. QED
  BY <1>1, Inductive, PTL

\* What generate() refuses of an active vhost is an inactive policy, a path bound
\* to another policy, or a text of its own that the schemas let pass.
THEOREM RefusalsShow == Spec => []RefusalIsVisible
<1>1. ASSUME IInv, NEW v \in Vhost \ stale, Refused(v)
      PROVE  \/ vhosts[v].policy # None /\ ~policies[vhosts[v].policy].active
             \/ scoped[v] # None /\ scoped[v] # vhosts[v].policy
             \/ Unrenderable(v)
  <2>1. vhosts[v] # None /\ vhosts[v].active /\ Servable(v)
    BY <1>1 DEF Refused, IInv, VhostsServable
  <2>2. ~NoServers(v)
    BY <2>1 DEF Servable, NoServers
  <2>3. CASE MissingOrInactive(v)
    BY <1>1, <2>1, <2>3 DEF MissingOrInactive, IInv, References
  <2>4. CASE OtherPolicyBound(v)
    BY <2>1, <2>4 DEF OtherPolicyBound, Servable
  <2>5. QED
    BY <1>1, <2>2, <2>3, <2>4 DEF Refused
<1>2. IInv => RefusalIsVisible
  BY <1>1 DEF RefusalIsVisible
<1>3. QED
  BY <1>2, Inductive, PTL

\* _policy_is_assigned: a policy is deleted off a vhost or a path only if it
\* was assigned while its deletion was under way.
THEOREM DeletionClearsNothing == Spec => AssignedPolicyStays
<1> DEFINE Kept == \A p \in Policy : policies[p] # None /\ policies'[p] = None /\ p \notin stale'
                       => UNCHANGED <<vhosts, default, scoped>>
<1>1. ASSUME IInv, NEW t \in Admin, DeletePolicy(t) PROVE Kept
  <2>1. PICK p \in Policy :
          /\ tx[t] # None /\ tx[t].kind = "delete" /\ p = tx[t].on
          /\ policies' = [policies EXCEPT ![p] = None]
          /\ vhosts' = [v \in Vhost |->
                IF vhosts[v] # None /\ vhosts[v].policy = p
                THEN [vhosts[v] EXCEPT !.policy = None] ELSE vhosts[v]]
          /\ default' = [v \in Vhost |->
                IF default[v] # None /\ default[v].policy = p THEN None ELSE default[v]]
          /\ scoped' = [v \in Vhost |-> IF scoped[v] = p THEN None ELSE scoped[v]]
          /\ stale \subseteq stale'
    BY <1>1, DeletePolicyIs
  <2>2. ASSUME p \notin stale' PROVE UNCHANGED <<vhosts, default, scoped>>
    <3>1. ~Assigned(p)
      BY <1>1, <2>1, <2>2 DEF IInv, AllInformed, TxInformed, DeleteTx
    <3>2. /\ vhosts' = [v \in Vhost |-> vhosts[v]]
          /\ default' = [v \in Vhost |-> default[v]]
          /\ scoped' = [v \in Vhost |-> scoped[v]]
      BY <2>1, <3>1 DEF Assigned
    <3>3. QED
      BY <1>1, <3>2 DEF IInv, Typed
  <2>3. \A q \in Policy \ {p} : policies'[q] = policies[q]
    BY <1>1, <2>1 DEF IInv, Typed
  <2>4. QED
    BY <2>2, <2>3
<1>2. ASSUME policies' = policies PROVE Kept
  BY <1>2
<1>3. ASSUME IInv, NEW t \in Admin, NEW p \in Policy, NEW entry \in NewPolicies,
             CreatePolicy(t, p, entry)
      PROVE  Kept
  <2>1. entry # None
    BY AdminAssumption DEF AdminAssumption
  <2>2. \A q \in Policy : policies'[q] \in {entry, policies[q]}
    BY <1>3 DEF CreatePolicy, IInv, Typed
  <2>3. QED
    BY <2>1, <2>2
<1>4. ASSUME IInv, NEW t \in Admin, CommitPolicy(t) PROVE Kept
  <2>1. CASE policies[tx[t].on] = None
    BY <1>2, <1>4, <2>1 DEF CommitPolicy, Abort, tables
  <2>2. CASE policies[tx[t].on] # None
    <3>1. PICK p \in Policy, entry \in PolicyRow : policies' = [policies EXCEPT ![p] = entry]
      BY <1>4, <2>2, CommittedPolicy
    <3>2. entry # None
      BY AdminAssumption DEF AdminAssumption
    <3>3. \A q \in Policy : policies'[q] \in {entry, policies[q]}
      BY <1>4, <3>1 DEF IInv, Typed
    <3>4. QED
      BY <3>2, <3>3
  <2>3. QED
    BY <2>1, <2>2
<1>5. ASSUME IInv, [Next]_vars PROVE Kept
  <2>1. CASE UNCHANGED vars
    BY <1>2, <2>1 DEF vars
  <2>2. ASSUME NEW t \in Admin, VhostRequests(t) PROVE Kept
    <3>1. policies' = policies
      <4>1. \A v \in Vhost : \A entry : CreateVhost(t, v, entry) => policies' = policies
        BY DEF CreateVhost
      <4>2. /\ \A v \in Vhost : DeleteVhost(t, v) => policies' = policies
            /\ \A v \in Vhost, patch \in VhostPatches : ReadVhost(t, v, patch) => policies' = policies
            /\ ReadMirror(t) \/ CommitVhost(t) => policies' = policies
        BY DEF DeleteVhost, ReadVhost, ReadMirror, CommitVhost, Abort, tables
      <4>3. QED
        BY <2>2, <4>1, <4>2 DEF VhostRequests
    <3>2. QED
      BY <1>2, <3>1
  <2>3. ASSUME NEW t \in Admin, BindingRequests(t) PROVE Kept
    <3>1. policies' = policies
      BY <2>3 DEF BindingRequests, CreateBinding, DeleteBinding
    <3>2. QED
      BY <1>2, <3>1
  <2>4. ASSUME NEW t \in Admin, PolicyRequests(t) PROVE Kept
    <3>1. ASSUME NEW p \in Policy, NEW patch \in PolicyPatches, ReadPolicy(t, p, patch) PROVE Kept
      BY <1>2, <3>1 DEF ReadPolicy, tables
    <3>2. ASSUME NEW p \in Policy, CheckUnassigned(t, p) PROVE Kept
      BY <1>2, <3>2 DEF CheckUnassigned, tables
    <3> HIDE DEF Kept
    <3>3. QED
      BY <1>1, <1>3, <1>4, <1>5, <2>4, <3>1, <3>2 DEF PolicyRequests
  <2> HIDE DEF Kept
  <2>5. QED
    BY <1>5, <2>1, <2>2, <2>3, <2>4 DEF Next
<1>6. IInv /\ [Next]_vars => [Kept]_vars
  BY <1>5
<1>7. QED
  BY <1>6, Inductive, PTL DEF Spec, AssignedPolicyStays

-----------------------------------------------------------------------------
\* Certificates.  The inductive invariant: a row's certificate is live, and what
\* an apply has written, switched to or loaded is what it has generated.

\* A row while n certificates have been issued.
RowTyped(r, n) ==
    r # NoRow =>
        /\ r \in Row /\ (r.pem = Bad \/ r.pem <= n)
        /\ r.provider = "letsencrypt" => r.pem # Bad

CertTyped ==
    /\ DOMAIN row = Domain /\ \A d \in Domain : RowTyped(row[d], issued)
    /\ issued \in 0 .. MaxCerts
    /\ left \in [Serial -> Nat] /\ \A s \in Serial : s > issued => left[s] = Life
    /\ DOMAIN pc = Thread /\ DOMAIN gen = Thread /\ DOMAIN disk = File
    /\ DOMAIN job = {"rows", "held", "gone", "due", "failed"}
    /\ DOMAIN job.rows = Domain /\ \A d \in Domain : RowTyped(job.rows[d], issued)
    /\ missed \subseteq Domain

\* The job knows the vhosts it still has to renew, and holds their rows.
JobHolds ==
    /\ job.held \subseteq Domain /\ job.due \subseteq Domain /\ job.gone \subseteq Domain
    /\ \A d \in job.held : row[d] # NoRow /\ job.rows[d] # NoRow
    /\ pc["job"] # "idle" => job.due \ job.gone \subseteq job.held

Renewed(d) == row[d] # NoRow /\ row[d].provider = "letsencrypt"

\* The certificate of a Let's Encrypt row is live, and after a run of the job
\* it outlasts the unit of time that follows.
RowsLive ==
    \A d \in Domain : Renewed(d) =>
        /\ left[row[d].pem] >= 1
        /\ ran => left[row[d].pem] >= 2
        /\ pc["job"] # "idle" /\ ~job.failed => left[row[d].pem] >= 2 \/ d \in job.due \ job.gone

Busy == {t \in Thread : pc[t] \in {"write", "switch"}}

GenTyped ==
    /\ release \subseteq Domain /\ haproxy.tls \subseteq Domain
    /\ \A t \in Thread : gen[t].tls \subseteq Domain /\ DOMAIN gen[t].certs \subseteq Domain

\* The apply under way has put into the directory what it does not still have to.
Writing(t) ==
    /\ Busy = {t}
    /\ DOMAIN applying = {"by", "todo", "half"} /\ applying.todo \subseteq DOMAIN gen[t].certs
    /\ applying.half \in applying.todo \cup {Default, NoPem}
    /\ \A d \in DOMAIN gen[t].certs \ applying.todo : disk[d] = gen[t].certs[d]
    /\ pc[t] = "switch" => applying.todo = {} /\ applying.half = NoPem

ApplyWrites ==
    IF applying = NoApply THEN Busy = {}
    ELSE applying.by \in Thread /\ Writing(applying.by)

\* Of a domain that is not missed, the files and HAProxy have what the row has.
InStep(d) ==
    /\ d \in release <=> Tls(row[d])
    /\ HasPem(row[d]) => disk[d] \in {row[d].pem, Bad}
    /\ haproxy.up /\ d \in haproxy.tls =>
          Tls(row[d]) /\ (HasPem(row[d]) => haproxy.served[d] = row[d].pem)

AllInStep == \A d \in Domain \ Missed : InStep(d)

CertInv == CertTyped /\ JobHolds /\ RowsLive /\ GenTyped /\ ApplyWrites /\ AllInStep

-----------------------------------------------------------------------------
\* What is generated for a domain is a matter of its row alone.

LEMMA RenderedAt ==
    ASSUME NEW view, NEW d \in Domain
    PROVE  /\ d \in Rendered(view).tls <=> Tls(view[d])
           /\ d \in DOMAIN Rendered(view).certs <=> HasPem(view[d])
           /\ HasPem(view[d]) => Rendered(view).certs[d] = view[d].pem
<1> DEFINE certs == [e \in {e \in Domain : HasPem(view[e])} |-> view[e].pem]
<1>1. Rendered(view) = [tls |-> {e \in Domain : Tls(view[e])}, certs |-> certs]
  BY DEF Rendered
<1>2. d \in DOMAIN certs <=> HasPem(view[d])
  OBVIOUS
<1>3. HasPem(view[d]) => certs[d] = view[d].pem
  OBVIOUS
<1> HIDE DEF certs
<1>4. Rendered(view).tls = {e \in Domain : Tls(view[e])} /\ Rendered(view).certs = certs
  BY <1>1
<1>5. QED
  BY <1>2, <1>3, <1>4

LEMMA RenderedDomains ==
    ASSUME NEW view
    PROVE  Rendered(view).tls \subseteq Domain /\ DOMAIN Rendered(view).certs \subseteq Domain
BY DEF Rendered

\* What t has generated for d is what the row holds.
Matches(t, d) ==
    /\ d \in gen[t].tls <=> Tls(row[d])
    /\ d \in DOMAIN gen[t].certs <=> HasPem(row[d])
    /\ HasPem(row[d]) => gen[t].certs[d] = row[d].pem

LEMMA OvertakenIs ==
    ASSUME NEW t, NEW d \in Domain
    PROVE  d \notin Overtaken(t) <=> Matches(t, d)
<1> DEFINE now == Rendered(row)
<1>1. /\ d \in now.tls <=> Tls(row[d])
      /\ d \in DOMAIN now.certs <=> HasPem(row[d])
      /\ HasPem(row[d]) => now.certs[d] = row[d].pem
  BY RenderedAt
<1> HIDE DEF now
<1>2. d \in Overtaken(t) <=>
         \/ (d \in gen[t].tls) # (d \in now.tls)
         \/ (d \in DOMAIN gen[t].certs) # (d \in DOMAIN now.certs)
         \/ /\ d \in DOMAIN now.certs \cap DOMAIN gen[t].certs
            /\ gen[t].certs[d] # now.certs[d]
  BY DEF Overtaken, now
<1>3. QED
  BY <1>1, <1>2 DEF Matches

LEMMA MissedIs ==
    ASSUME NEW d \in Domain
    PROVE  d \notin Missed <=>
               d \notin missed /\ (applying # NoApply => Matches(applying.by, d))
BY OvertakenIs DEF Missed

LEMMA CertificateValues ==
    /\ MaxCerts \in Nat /\ Life \in Nat /\ Life >= 2
    /\ Default \notin Domain /\ NoPem \notin Domain /\ NoPem # Default
    /\ Bad \notin Serial /\ NoPem \notin Serial /\ Bad # NoPem
    /\ NoRow \notin Row
BY CertAssumption DEF CertAssumption, File

LEMMA CertificatesStart == CertificatesInit => CertInv
<1> SUFFICES ASSUME CertificatesInit PROVE CertInv
  OBVIOUS
<1>1. /\ row = [d \in Domain |-> NoRow] /\ issued = 0 /\ left = [s \in Serial |-> Life]
      /\ disk = [f \in File |-> NoPem] /\ release = {} /\ haproxy.up = FALSE /\ haproxy.tls = {}
      /\ pc = [t \in Thread |-> "idle"] /\ gen = [t \in Thread |-> Nothing]
      /\ applying = NoApply /\ missed = {} /\ ran = FALSE
      /\ job = [rows |-> row, held |-> {}, gone |-> {}, due |-> {}, failed |-> FALSE]
  BY DEF CertificatesInit, Stopped
<1>2. CertTyped
  BY <1>1, CertificateValues DEF CertTyped, RowTyped, Serial
<1>3. JobHolds /\ RowsLive
  BY <1>1 DEF JobHolds, RowsLive, Renewed, Thread
<1>4. GenTyped
  BY <1>1, RenderedDomains DEF GenTyped, Nothing
<1>5. ApplyWrites
  BY <1>1 DEF ApplyWrites, Busy
<1>6. AllInStep
  BY <1>1 DEF AllInStep, InStep, Tls, HasPem
<1>7. QED
  BY <1>2, <1>3, <1>4, <1>5, <1>6 DEF CertInv

-----------------------------------------------------------------------------
\* Types

LEMMA RowStaysTyped ==
    ASSUME NEW r, NEW m \in Nat, NEW n \in Nat, m <= n, RowTyped(r, m)
    PROVE  RowTyped(r, n)
BY CertificateValues DEF RowTyped, Row, Serial

\* A step that changes no row keeps the types if it keeps those of its job.
LEMMA SameRowsTyped ==
    ASSUME CertTyped, UNCHANGED <<row, issued, left>>,
           DOMAIN pc' = Thread, DOMAIN gen' = Thread, DOMAIN disk' = File,
           DOMAIN job' = {"rows", "held", "gone", "due", "failed"},
           DOMAIN job'.rows = Domain, \A d \in Domain : RowTyped(job'.rows[d], issued),
           missed' \subseteq Domain
    PROVE  CertTyped'
BY DEF CertTyped, RowTyped

LEMMA EditTyped ==
    ASSUME CertTyped, NEW d \in Domain, NEW r, Edit(d, r),
           issued' \in {issued, issued + 1}, issued' <= MaxCerts, RowTyped(r, issued'),
           job' = job \/ job' = [job EXCEPT !.held = @ \ {d}, !.gone = @ \cup {d}]
    PROVE  CertTyped'
<1>1. issued \in Nat /\ issued' \in 0 .. MaxCerts /\ issued <= issued'
  BY CertificateValues DEF CertTyped
<1>2. row' = [row EXCEPT ![d] = r] /\ UNCHANGED <<left, disk, pc, gen>> /\ missed' = missed \cup {d}
  BY DEF Edit
<1>3. DOMAIN row' = Domain /\ \A e \in Domain : RowTyped(row'[e], issued')
  <2>1. DOMAIN row' = Domain /\ row'[d] = r /\ \A e \in Domain \ {d} : row'[e] = row[e]
    BY <1>2 DEF CertTyped
  <2>2. \A e \in Domain : RowTyped(row[e], issued')
    BY <1>1, RowStaysTyped DEF CertTyped
  <2>3. QED
    BY <2>1, <2>2
<1>4. /\ DOMAIN job' = DOMAIN job /\ job'.rows = job.rows
  BY DEF CertTyped
<1>5. \A e \in Domain : RowTyped(job.rows[e], issued')
  BY <1>1, RowStaysTyped DEF CertTyped
<1>6. \A s \in Serial : s > issued' => left[s] = Life
  BY <1>1 DEF CertTyped, Serial
<1>7. QED
  BY <1>1, <1>2, <1>3, <1>4, <1>5, <1>6 DEF CertTyped, RowTyped

LEMMA EditsTyped ==
    ASSUME CertTyped, NEW d \in Domain, Provision(d) \/ Upload(d) \/ Toggle(d) \/ Delete(d)
    PROVE  CertTyped'
<1>1. issued \in Nat /\ MaxCerts \in Nat /\ issued <= MaxCerts
  BY CertificateValues DEF CertTyped
<1>2. CASE Provision(d)
  <2> DEFINE r == [on |-> TRUE, provider |-> "letsencrypt", pem |-> issued + 1]
  <2>1. Edit(d, r) /\ issued' = issued + 1 /\ issued' <= MaxCerts /\ job' = job
    BY <1>1, <1>2 DEF Provision
  <2>2. RowTyped(r, issued')
    BY <1>1, <2>1, CertificateValues DEF RowTyped, Row, Serial
  <2> HIDE DEF r
  <2>3. QED
    BY <2>1, <2>2, EditTyped
<1>3. CASE Upload(d)
  <2> DEFINE new == [on |-> TRUE, provider |-> "upload", pem |-> issued + 1]
             bad == [on |-> TRUE, provider |-> "upload", pem |-> Bad]
  <2>1. /\ job' = job
        /\ \/ Edit(d, new) /\ issued' = issued + 1 /\ issued' <= MaxCerts
           \/ Edit(d, bad) /\ issued' = issued
    BY <1>1, <1>3 DEF Upload
  <2>2. issued' = issued + 1 /\ issued' <= MaxCerts => RowTyped(new, issued')
    BY <1>1 DEF RowTyped, Row, Serial
  <2>3. RowTyped(bad, issued')
    BY DEF RowTyped, Row
  <2> HIDE DEF new, bad
  <2>4. QED
    BY <1>1, <2>1, <2>2, <2>3, EditTyped
<1>4. CASE Toggle(d)
  <2> DEFINE r == [row[d] EXCEPT !.on = ~@]
  <2>1. Edit(d, r) /\ issued' = issued /\ job' = job /\ row[d] # NoRow /\ RowTyped(row[d], issued)
    BY <1>4 DEF Toggle, CertTyped
  <2>2. r \in Row /\ r.provider = row[d].provider /\ r.pem = row[d].pem
    BY <2>1 DEF RowTyped, Row
  <2> HIDE DEF r
  <2>3. RowTyped(r, issued')
    BY <2>1, <2>2 DEF RowTyped
  <2>4. QED
    BY <1>1, <2>1, <2>3, EditTyped
<1>5. CASE Delete(d)
  <2>1. /\ Edit(d, NoRow) /\ issued' = issued
        /\ job' = [job EXCEPT !.held = @ \ {d}, !.gone = @ \cup {d}]
    BY <1>5 DEF Delete
  <2>2. RowTyped(NoRow, issued')
    BY DEF RowTyped
  <2>3. QED
    BY <1>1, <2>1, <2>2, EditTyped
<1>6. QED
  BY <1>2, <1>3, <1>4, <1>5

\* What a commit of the job writes: the new certificate into the row it holds.
Committed(d) ==
    /\ issued < MaxCerts /\ issued' = issued + 1 /\ pc["job"] = "loop" /\ d \in job.due
    /\ UNCHANGED <<left, disk, deployed, release, haproxy, backend, gen, applying, ran, answer>>
    /\ pc'["job"] \in {"idle", "generate"} /\ DOMAIN pc' = Thread
    /\ \A t \in Thread \ {"job"} : pc'[t] = pc[t]
    /\ \/ d \in job.gone /\ pc'["job"] = "idle" /\ UNCHANGED <<row, job, missed>>
       \/ /\ d \notin job.gone /\ d \in job.held /\ row[d] # NoRow /\ job.rows[d] # NoRow
          /\ pc'["job"] = "generate" /\ missed' = missed \cup {d}
          /\ DOMAIN row' = Domain /\ \A e \in Domain \ {d} : row'[e] = row[e]
          /\ row'[d] = [row[d] EXCEPT !.pem = issued + 1]
          /\ DOMAIN job' = DOMAIN job /\ job'.due = job.due \ {d}
          /\ job'.held = job.held /\ job'.gone = job.gone /\ job'.failed = job.failed
          /\ DOMAIN job'.rows = Domain /\ \A e \in Domain \ {d} : job'.rows[e] = job.rows[e]
          /\ job'.rows[d] = [job.rows[d] EXCEPT !.pem = issued + 1]

LEMMA JobCommitIs ==
    ASSUME CertTyped, JobHolds, NEW d \in Domain, JobCommit(d)
    PROVE  Committed(d)
<1>1. /\ issued < MaxCerts /\ issued' = issued + 1 /\ pc["job"] = "loop" /\ d \in job.due
      /\ UNCHANGED <<left, disk, deployed, release, haproxy, backend, gen, applying, ran, answer>>
  BY DEF JobCommit, proxy
<1>2. CASE d \in job.gone
  <2>1. pc' = [pc EXCEPT !["job"] = "idle"] /\ UNCHANGED <<row, job, missed>>
    BY <1>2 DEF JobCommit
  <2>2. QED
    BY <1>1, <1>2, <2>1 DEF CertTyped, Thread, Committed
<1>3. CASE d \notin job.gone
  <2>1. /\ row' = [row EXCEPT ![d].pem = issued + 1]
        /\ job' = [job EXCEPT !.rows[d].pem = issued + 1, !.due = @ \ {d}]
        /\ pc' = [pc EXCEPT !["job"] = "generate"] /\ missed' = missed \cup {d}
    BY <1>3 DEF JobCommit
  <2>2. d \in job.held /\ row[d] # NoRow /\ job.rows[d] # NoRow
    BY <1>1, <1>3 DEF JobHolds
  <2>3. /\ DOMAIN row' = Domain /\ \A e \in Domain \ {d} : row'[e] = row[e]
        /\ row'[d] = [row[d] EXCEPT !.pem = issued + 1]
    BY <2>1 DEF CertTyped
  <2>4. /\ DOMAIN job' = DOMAIN job /\ job'.due = job.due \ {d}
        /\ job'.held = job.held /\ job'.gone = job.gone /\ job'.failed = job.failed
        /\ job'.rows = [job.rows EXCEPT ![d].pem = issued + 1]
    BY <2>1 DEF CertTyped
  <2>5. /\ DOMAIN job'.rows = Domain /\ \A e \in Domain \ {d} : job'.rows[e] = job.rows[e]
        /\ job'.rows[d] = [job.rows[d] EXCEPT !.pem = issued + 1]
    BY <2>4 DEF CertTyped
  <2>6. /\ pc'["job"] = "generate" /\ DOMAIN pc' = Thread
        /\ \A t \in Thread \ {"job"} : pc'[t] = pc[t]
    BY <2>1 DEF CertTyped, Thread
  <2>7. QED
    BY <1>1, <1>3, <2>1, <2>2, <2>3, <2>4, <2>5, <2>6 DEF Committed
<1>4. QED
  BY <1>2, <1>3

LEMMA JobCommitTyped ==
    ASSUME CertTyped, JobHolds, NEW d \in Domain, JobCommit(d)
    PROVE  CertTyped'
<1>0. Committed(d)
  BY JobCommitIs
<1>1. /\ issued \in Nat /\ MaxCerts \in Nat /\ issued < MaxCerts /\ issued' = issued + 1
      /\ UNCHANGED <<left, disk, gen>> /\ DOMAIN pc' = Thread
  BY <1>0, CertificateValues DEF CertTyped, Committed
<1>2. \A r : RowTyped(r, issued) => RowTyped(r, issued')
  BY <1>1, RowStaysTyped
<1>3. ASSUME NEW r, RowTyped(r, issued), r # NoRow
      PROVE  RowTyped([r EXCEPT !.pem = issued + 1], issued')
  <2> DEFINE new == [r EXCEPT !.pem = issued + 1]
  <2>1. issued + 1 \in Serial /\ issued + 1 # Bad
    BY <1>1, CertificateValues DEF Serial
  <2>2. new \in Row /\ new.pem = issued + 1
    BY <1>3, <2>1 DEF RowTyped, Row
  <2> HIDE DEF new
  <2>3. RowTyped(new, issued')
    BY <1>1, <1>3, <2>1, <2>2 DEF RowTyped
  <2>4. QED
    BY <2>3 DEF new
<1>4. DOMAIN row' = Domain /\ \A e \in Domain : RowTyped(row'[e], issued')
  BY <1>0, <1>2, <1>3 DEF CertTyped, Committed
<1>5. /\ DOMAIN job' = DOMAIN job /\ DOMAIN job'.rows = Domain
      /\ \A e \in Domain : RowTyped(job'.rows[e], issued')
  BY <1>0, <1>2, <1>3 DEF CertTyped, Committed
<1>6. missed' \subseteq Domain
  BY <1>0 DEF CertTyped, Committed
<1>7. \A s \in Serial : s > issued' => left[s] = Life
  BY <1>1 DEF CertTyped, Serial
<1>8. QED
  BY <1>1, <1>4, <1>5, <1>6, <1>7 DEF CertTyped, RowTyped

-----------------------------------------------------------------------------
\* What a step does not touch

LEMMA AtIs ==
    ASSUME CertTyped, NEW t \in Thread, NEW from, NEW to, At(t, from, to)
    PROVE  /\ pc[t] = from /\ DOMAIN pc' = Thread /\ pc'[t] = to
           /\ \A u \in Thread \ {t} : pc'[u] = pc[u]
BY DEF At, CertTyped

LEMMA SameHeld ==
    ASSUME JobHolds, UNCHANGED <<row, job>>, pc'["job"] # "idle" => pc["job"] # "idle"
    PROVE  JobHolds'
BY DEF JobHolds

LEMMA SameLive ==
    ASSUME RowsLive, UNCHANGED <<row, left, ran, job>>, pc'["job"] # "idle" => pc["job"] # "idle"
    PROVE  RowsLive'
BY DEF RowsLive, Renewed

LEMMA SameWrites ==
    ASSUME ApplyWrites, UNCHANGED <<applying, disk>>, Busy' = Busy,
           \A t \in Busy : pc'[t] = pc[t] /\ gen'[t] = gen[t]
    PROVE  ApplyWrites'
<1>1. CASE applying = NoApply
  BY <1>1 DEF ApplyWrites
<1>2. CASE applying # NoApply
  <2>1. applying.by \in Thread /\ Writing(applying.by) /\ Busy = {applying.by}
    BY <1>2 DEF ApplyWrites, Writing
  <2>2. pc'[applying.by] = pc[applying.by] /\ gen'[applying.by] = gen[applying.by]
    BY <2>1
  <2>3. Writing(applying.by)'
    BY <2>1, <2>2 DEF Writing
  <2>4. QED
    BY <1>2, <2>1, <2>3 DEF ApplyWrites
<1>3. QED
  BY <1>1, <1>2

\* The thread that applies is the one that writes or switches.
LEMMA Applying ==
    ASSUME ApplyWrites, NEW t \in Thread, pc[t] \in {"write", "switch"}
    PROVE  applying # NoApply /\ applying.by = t /\ Writing(t)
BY DEF ApplyWrites, Busy, Writing

LEMMA MissedEach ==
    \A d \in Domain : d \notin Missed <=>
        d \notin missed /\ (applying # NoApply => Matches(applying.by, d))
BY MissedIs

LEMMA MissedNext ==
    (\A d \in Domain : d \notin Missed <=>
        d \notin missed /\ (applying # NoApply => Matches(applying.by, d)))'
BY MissedEach, PTL

\* A domain whose row is the same was not missed before either.
LEMMA WasInStep ==
    ASSUME AllInStep, NEW d \in Domain, d \notin Missed', row'[d] = row[d],
           applying' = applying, d \in missed => d \in missed',
           applying # NoApply => gen'[applying.by] = gen[applying.by]
    PROVE  d \notin Missed /\ InStep(d)
<1>1. d \notin missed' /\ (applying' # NoApply => Matches(applying.by, d)')
  BY MissedNext
<1>2. d \notin missed /\ (applying # NoApply => Matches(applying.by, d))
  BY <1>1 DEF Matches, Tls, HasPem
<1>3. QED
  BY <1>2, MissedIs DEF AllInStep

LEMMA StaysInStep ==
    ASSUME NEW d, InStep(d), row'[d] = row[d], UNCHANGED <<disk, release, haproxy>>
    PROVE  InStep(d)'
BY DEF InStep, Tls, HasPem

-----------------------------------------------------------------------------
\* HAProxy

\* What HAProxy loads is the files, and none of a domain it serves is Bad.
LEMMA LoadsInStep ==
    ASSUME NEW d \in Domain, InStep(d), UNCHANGED <<row, disk, release>>,
           Loads(release), haproxy' = Running(release), DOMAIN disk = File
    PROVE  InStep(d)'
<1>1. haproxy'.tls = release /\ (d \in release => haproxy'.served = disk)
  BY DEF Running
<1>2. d \in release => disk[d] # Bad
  BY DEF Loads, File
<1>3. QED
  BY <1>1, <1>2 DEF InStep, Tls, HasPem

LEMMA StoppedInStep ==
    ASSUME NEW d, InStep(d), UNCHANGED <<row, disk, release>>, haproxy' = Stopped
    PROVE  InStep(d)'
<1>1. haproxy'.up = FALSE
  BY DEF Stopped
<1>2. QED
  BY <1>1 DEF InStep, Tls, HasPem

LEMMA HaproxyKeeps ==
    ASSUME CertInv, HaproxyStart \/ HaproxyStop \/ GeoipReload
    PROVE  CertInv'
<1>1. /\ UNCHANGED <<row, issued, left, disk, release, pc, gen, job, applying, ran, missed>>
      /\ haproxy' = Stopped \/ (Loads(release) /\ haproxy' = Running(release))
  BY DEF HaproxyStart, HaproxyStop, GeoipReload, rows, threads
<1>2. CertTyped /\ JobHolds /\ RowsLive /\ GenTyped /\ ApplyWrites /\ AllInStep
  BY DEF CertInv
<1>3. CertTyped' /\ JobHolds' /\ RowsLive'
  BY <1>1, <1>2, SameRowsTyped, SameHeld, SameLive DEF CertTyped
<1>4. GenTyped'
  BY <1>1, <1>2 DEF GenTyped, Stopped, Running
<1>5. ApplyWrites'
  BY <1>1, <1>2, SameWrites DEF Busy
<1>6. ASSUME NEW d \in Domain, d \notin Missed' PROVE InStep(d)'
  BY <1>1, <1>2, <1>6, WasInStep, LoadsInStep, StoppedInStep DEF CertTyped
<1>7. QED
  BY <1>3, <1>4, <1>5, <1>6 DEF CertInv, AllInStep

-----------------------------------------------------------------------------
\* Steps of the threads outside of an apply

LEMMA ThreadKeeps ==
    ASSUME CertInv, UNCHANGED <<row, disk, release, haproxy, applying, missed>>,
           CertTyped', JobHolds', RowsLive', GenTyped', Busy' = Busy,
           \A t \in Busy : pc'[t] = pc[t] /\ gen'[t] = gen[t]
    PROVE  CertInv'
<1>1. ApplyWrites'
  BY SameWrites DEF CertInv
<1>2. applying # NoApply => gen'[applying.by] = gen[applying.by]
  BY DEF CertInv, ApplyWrites, Writing
<1>3. ASSUME NEW d \in Domain, d \notin Missed' PROVE InStep(d)'
  BY <1>2, <1>3, WasInStep, StaysInStep DEF CertInv
<1>4. QED
  BY <1>1, <1>3 DEF CertInv, AllInStep

LEMMA JobStartKeeps ==
    ASSUME CertInv, JobStart
    PROVE  CertInv'
<1> DEFINE mine == {d \in Domain : row[d] # NoRow /\ row[d].provider = "letsencrypt"}
           due == {d \in mine : Due(row[d].pem)}
<1>1. CertTyped /\ RowsLive /\ GenTyped
  BY DEF CertInv
<1>2. /\ At("job", "idle", "loop")
      /\ job' = [rows |-> row, held |-> mine, gone |-> {}, failed |-> FALSE, due |-> due]
      /\ UNCHANGED <<row, issued, left, disk, release, haproxy, gen, applying, ran, missed>>
  BY DEF JobStart, rows, proxy
<1>3. /\ DOMAIN pc' = Thread /\ pc["job"] = "idle" /\ pc'["job"] = "loop"
      /\ \A t \in Thread \ {"job"} : pc'[t] = pc[t]
  BY <1>1, <1>2, AtIs DEF Thread
<1>4. CertTyped'
  BY <1>1, <1>2, <1>3, SameRowsTyped DEF CertTyped
<1>5. JobHolds'
  BY <1>2 DEF JobHolds
<1>6. ASSUME NEW d \in Domain, Renewed(d)' PROVE left[row[d].pem] >= 2 \/ d \in due
  <2>1. d \in mine /\ row[d].pem \in Serial
    BY <1>1, <1>2, <1>6 DEF Renewed, CertTyped, RowTyped, Row
  <2>2. left[row[d].pem] \in Nat
    BY <1>1, <2>1 DEF CertTyped
  <2>3. QED
    BY <2>1, <2>2 DEF Due
<1>7. RowsLive'
  BY <1>1, <1>2, <1>6 DEF RowsLive, Renewed
<1>8. GenTyped' /\ Busy' = Busy /\ \A t \in Busy : pc'[t] = pc[t] /\ gen'[t] = gen[t]
  BY <1>1, <1>2, <1>3 DEF GenTyped, Busy
<1>9. QED
  BY <1>2, <1>4, <1>5, <1>7, <1>8, ThreadKeeps

LEMMA JobCertbotFailsKeeps ==
    ASSUME CertInv, NEW d \in Domain, JobCertbotFails(d)
    PROVE  CertInv'
<1>1. CertTyped /\ JobHolds /\ RowsLive /\ GenTyped
  BY DEF CertInv
<1>2. /\ job' = [job EXCEPT !.due = @ \ {d}, !.failed = TRUE]
      /\ UNCHANGED <<row, issued, left, disk, release, haproxy, pc, gen, applying, ran, missed>>
  BY DEF JobCertbotFails, rows, proxy
<1>3. /\ DOMAIN job' = DOMAIN job /\ job'.rows = job.rows /\ job'.held = job.held
      /\ job'.gone = job.gone /\ job'.due = job.due \ {d} /\ job'.failed = TRUE
  BY <1>1, <1>2 DEF CertTyped
<1>4. CertTyped'
  BY <1>1, <1>2, <1>3, SameRowsTyped DEF CertTyped
<1>5. JobHolds' /\ RowsLive' /\ GenTyped' /\ Busy' = Busy
  BY <1>1, <1>2, <1>3 DEF JobHolds, RowsLive, Renewed, GenTyped, Busy
<1>6. QED
  BY <1>2, <1>4, <1>5, ThreadKeeps

LEMMA JobGenerateKeeps ==
    ASSUME CertInv, JobGenerate
    PROVE  CertInv'
<1> DEFINE view == [d \in Domain |-> IF d \in job.held THEN job.rows[d] ELSE row[d]]
<1>1. CertTyped /\ JobHolds /\ RowsLive /\ GenTyped
  BY DEF CertInv
<1>2. PICK more \in SUBSET {d \in Domain \ job.held : view[d] # NoRow} :
          job' = [job EXCEPT !.rows = view, !.held = @ \cup more]
  BY DEF JobGenerate
<1>3. /\ pc["job"] = "generate"
      /\ UNCHANGED <<row, issued, left, disk, release, haproxy, applying, ran, missed>>
      /\ \/ /\ gen' = [gen EXCEPT !["job"] = Rendered(job'.rows)]
            /\ pc' = [pc EXCEPT !["job"] = "ready"]
         \/ gen' = gen /\ pc' = [pc EXCEPT !["job"] = "loop"]
  BY DEF JobGenerate, rows, proxy
<1>4. /\ DOMAIN job' = DOMAIN job /\ job'.rows = view /\ job'.held = job.held \cup more
      /\ job'.gone = job.gone /\ job'.due = job.due /\ job'.failed = job.failed
  BY <1>1, <1>2 DEF CertTyped
<1>5. /\ DOMAIN pc' = Thread /\ DOMAIN gen' = Thread /\ pc'["job"] \in {"ready", "loop"}
      /\ \A t \in Thread \ {"job"} : pc'[t] = pc[t] /\ gen'[t] = gen[t]
      /\ gen'["job"] = gen["job"] \/ gen'["job"] = Rendered(job'.rows)
  BY <1>1, <1>3 DEF CertTyped, Thread
<1>6. CertTyped'
  <2>1. DOMAIN view = Domain /\ \A d \in Domain : RowTyped(view[d], issued)
    BY <1>1 DEF CertTyped
  <2> HIDE DEF view
  <2>2. QED
    BY <1>1, <1>3, <1>4, <1>5, <2>1, SameRowsTyped DEF CertTyped
<1>7. JobHolds'
  BY <1>1, <1>2, <1>3, <1>4 DEF JobHolds
<1>8. RowsLive'
  <2> HIDE DEF view
  <2>1. QED
    BY <1>1, <1>3, <1>4 DEF RowsLive, Renewed
<1>9. GenTyped' /\ Busy' = Busy /\ \A t \in Busy : pc'[t] = pc[t] /\ gen'[t] = gen[t]
  <2> HIDE DEF view
  <2>1. GenTyped'
    BY <1>1, <1>3, <1>5, RenderedDomains DEF GenTyped
  <2>2. QED
    BY <1>3, <1>5, <2>1 DEF Busy
<1>10. QED
  BY <1>3, <1>6, <1>7, <1>8, <1>9, ThreadKeeps

LEMMA JobEndKeeps ==
    ASSUME CertInv, JobEnd
    PROVE  CertInv'
<1>1. CertTyped /\ JobHolds /\ RowsLive /\ GenTyped
  BY DEF CertInv
<1>2. /\ At("job", "loop", "idle") /\ job.due = {} /\ (ran' => ran \/ ~job.failed)
      /\ UNCHANGED <<row, issued, left, disk, release, haproxy, gen, applying, job, missed>>
  BY DEF JobEnd, rows, proxy
<1>3. /\ DOMAIN pc' = Thread /\ pc["job"] = "loop" /\ pc'["job"] = "idle"
      /\ \A t \in Thread \ {"job"} : pc'[t] = pc[t]
  BY <1>1, <1>2, AtIs DEF Thread
<1>4. CertTyped'
  BY <1>1, <1>2, <1>3, SameRowsTyped DEF CertTyped
<1>5. JobHolds' /\ GenTyped'
  BY <1>1, <1>2, <1>3, SameHeld DEF GenTyped
<1>6. RowsLive'
  BY <1>1, <1>2, <1>3 DEF RowsLive, Renewed
<1>7. Busy' = Busy /\ \A t \in Busy : pc'[t] = pc[t] /\ gen'[t] = gen[t]
  BY <1>2, <1>3 DEF Busy
<1>8. QED
  BY <1>2, <1>4, <1>5, <1>6, <1>7, ThreadKeeps

LEMMA ReaderKeeps ==
    ASSUME CertInv, RequestReads \/ BackendStart
    PROVE  CertInv'
<1>1. CertTyped /\ JobHolds /\ RowsLive /\ GenTyped
  BY DEF CertInv
<1>2. /\ UNCHANGED <<row, issued, left, disk, release, haproxy, applying, job, ran, missed>>
      /\ \/ \E t \in {"request", "startup"} :
               At(t, "idle", "ready") /\ gen' = [gen EXCEPT ![t] = Rendered(row)]
         \/ UNCHANGED <<pc, gen>>
  BY DEF RequestReads, BackendStart, rows, proxy
<1>3. CASE UNCHANGED <<pc, gen>>
  BY <1>1, <1>2, <1>3, SameRowsTyped, SameHeld, SameLive, ThreadKeeps DEF CertTyped, GenTyped, Busy
<1>4. ASSUME NEW t \in {"request", "startup"},
             At(t, "idle", "ready"), gen' = [gen EXCEPT ![t] = Rendered(row)]
      PROVE  CertInv'
  <2>1. /\ t \in Thread /\ DOMAIN pc' = Thread /\ pc[t] = "idle" /\ pc'[t] = "ready"
        /\ \A u \in Thread \ {t} : pc'[u] = pc[u]
    BY <1>1, <1>4, AtIs DEF Thread
  <2>2. /\ DOMAIN gen' = Thread /\ gen'[t] = Rendered(row)
        /\ \A u \in Thread \ {t} : gen'[u] = gen[u]
    BY <1>1, <1>4, <2>1 DEF CertTyped
  <2>3. CertTyped'
    BY <1>1, <1>2, <2>1, <2>2, SameRowsTyped DEF CertTyped
  <2>4. pc'["job"] = pc["job"]
    BY <2>1 DEF Thread
  <2>5. JobHolds' /\ RowsLive'
    BY <1>1, <1>2, <2>4, SameHeld, SameLive
  <2>6. GenTyped'
    BY <1>1, <1>2, <2>2, RenderedDomains DEF GenTyped
  <2>7. Busy' = Busy /\ \A u \in Busy : pc'[u] = pc[u] /\ gen'[u] = gen[u]
    BY <2>1, <2>2 DEF Busy
  <2>8. QED
    BY <1>2, <2>3, <2>5, <2>6, <2>7, ThreadKeeps
<1>5. QED
  BY <1>2, <1>3, <1>4

-----------------------------------------------------------------------------
\* Requests that change a vhost, and the commit of the job

LEMMA MissedGrows == missed' \cap Domain \subseteq Missed'
BY MissedNext

LEMMA RowChanges ==
    ASSUME AllInStep, NEW d \in Domain, \A e \in Domain \ {d} : row'[e] = row[e],
           UNCHANGED <<disk, release, haproxy, applying, gen>>, missed' = missed \cup {d}
    PROVE  AllInStep'
<1>1. ASSUME NEW e \in Domain, e \notin Missed' PROVE InStep(e)'
  <2>1. e # d
    BY <1>1, MissedGrows
  <2>2. QED
    BY <1>1, <2>1, WasInStep, StaysInStep
<1>2. QED
  BY <1>1 DEF AllInStep

\* What an edit writes into its row, and what is left of the job's session.
Edited(d) ==
    /\ UNCHANGED <<left, disk, release, haproxy, pc, gen, applying, ran>>
    /\ \A e \in Domain \ {d} : row'[e] = row[e]
    /\ missed' = missed \cup {d} /\ issued \in Nat
    /\ \/ /\ job' = job /\ row'[d] # NoRow
          /\ row'[d].provider = "letsencrypt" =>
                 \/ /\ issued' = issued + 1 /\ issued' <= MaxCerts /\ row'[d].pem = issued + 1
                 \/ Renewed(d) /\ row'[d].pem = row[d].pem
       \/ /\ row'[d] = NoRow
          /\ job' = [job EXCEPT !.held = @ \ {d}, !.gone = @ \cup {d}]

LEMMA EditIs ==
    ASSUME CertTyped, NEW d \in Domain, Provision(d) \/ Upload(d) \/ Toggle(d) \/ Delete(d)
    PROVE  Edited(d)
<1>1. issued \in Nat /\ issued' \in 0 .. MaxCerts
  BY EditsTyped DEF CertTyped
<1>2. ASSUME NEW r, Edit(d, r)
      PROVE  /\ UNCHANGED <<left, disk, release, haproxy, pc, gen, applying, ran>>
             /\ \A e \in Domain \ {d} : row'[e] = row[e]
             /\ missed' = missed \cup {d} /\ row'[d] = r
  BY <1>2 DEF Edit, CertTyped, proxy
<1>3. CASE Provision(d)
  <2> DEFINE r == [on |-> TRUE, provider |-> "letsencrypt", pem |-> issued + 1]
  <2>1. Edit(d, r) /\ issued < MaxCerts /\ issued' = issued + 1 /\ job' = job
    BY <1>3 DEF Provision
  <2>2. row'[d] = r
    BY <1>2, <2>1
  <2>3. issued' <= MaxCerts /\ issued + 1 \in Serial
    BY <1>1, <2>1, CertificateValues DEF Serial
  <2>4. r \in Row /\ r.pem = issued + 1
    BY <2>3 DEF Row
  <2> HIDE DEF r
  <2>5. QED
    BY <1>1, <1>2, <2>1, <2>2, <2>3, <2>4, CertificateValues DEF Edited
<1>4. CASE Upload(d)
  <2> DEFINE new == [on |-> TRUE, provider |-> "upload", pem |-> issued + 1]
             bad == [on |-> TRUE, provider |-> "upload", pem |-> Bad]
  <2>1. job' = job /\ ((issued < MaxCerts /\ Edit(d, new)) \/ Edit(d, bad))
    BY <1>4 DEF Upload
  <2>2. issued < MaxCerts => issued + 1 \in Serial
    BY <1>1, CertificateValues DEF Serial
  <2>3. (issued < MaxCerts => new \in Row) /\ new.provider # "letsencrypt"
    BY <2>2 DEF Row
  <2>4. bad \in Row /\ bad.provider # "letsencrypt"
    BY DEF Row
  <2> HIDE DEF new, bad
  <2>5. CASE issued < MaxCerts /\ Edit(d, new)
    <3>1. row'[d] = new
      BY <1>2, <2>5
    <3>2. QED
      BY <1>1, <1>2, <2>1, <2>3, <2>5, <3>1, CertificateValues DEF Edited
  <2>6. CASE Edit(d, bad)
    <3>1. row'[d] = bad
      BY <1>2, <2>6
    <3>2. QED
      BY <1>1, <1>2, <2>1, <2>4, <2>6, <3>1, CertificateValues DEF Edited
  <2>7. QED
    BY <2>1, <2>5, <2>6
<1>5. CASE Toggle(d)
  <2> DEFINE r == [row[d] EXCEPT !.on = ~@]
  <2>1. Edit(d, r) /\ job' = job /\ row[d] # NoRow /\ row[d] \in Row
    BY <1>5 DEF Toggle, CertTyped, RowTyped
  <2>2. r \in Row /\ r.provider = row[d].provider /\ r.pem = row[d].pem
    BY <2>1 DEF Row
  <2>3. row'[d] = r
    BY <1>2, <2>1
  <2> HIDE DEF r
  <2>4. QED
    BY <1>1, <1>2, <2>1, <2>2, <2>3, CertificateValues DEF Renewed, Edited
<1>6. CASE Delete(d)
  <2>1. Edit(d, NoRow) /\ job' = [job EXCEPT !.held = @ \ {d}, !.gone = @ \cup {d}]
    BY <1>6 DEF Delete
  <2>2. QED
    BY <1>1, <1>2, <2>1 DEF Edited
<1>7. QED
  BY <1>3, <1>4, <1>5, <1>6

LEMMA EditKeeps ==
    ASSUME CertInv, NEW d \in Domain, Provision(d) \/ Upload(d) \/ Toggle(d) \/ Delete(d)
    PROVE  CertInv'
<1>1. CertTyped /\ JobHolds /\ RowsLive /\ GenTyped /\ ApplyWrites /\ AllInStep
  BY DEF CertInv
<1>2. CertTyped' /\ Edited(d)
  BY <1>1, EditsTyped, EditIs
<1>3. /\ UNCHANGED <<left, disk, release, haproxy, pc, gen, applying, ran>>
      /\ \A e \in Domain \ {d} : row'[e] = row[e]
      /\ missed' = missed \cup {d} /\ issued \in Nat
  BY <1>2 DEF Edited
<1>4. \/ /\ row'[d] # NoRow /\ job' = job
      \/ /\ row'[d] = NoRow
         /\ job'.rows = job.rows /\ job'.due = job.due /\ job'.failed = job.failed
         /\ job'.held = job.held \ {d} /\ job'.gone = job.gone \cup {d}
  BY <1>1, <1>2 DEF CertTyped, Edited
<1>5. JobHolds'
  BY <1>1, <1>3, <1>4 DEF JobHolds
<1>6. RowsLive'
  <2>1. \A e \in Domain \ {d} : Renewed(e)' => Renewed(e) /\ row'[e].pem = row[e].pem
    BY <1>3 DEF Renewed
  <2>2. /\ job'.failed = job.failed
        /\ \A e \in Domain \ {d} : e \in job.due \ job.gone => e \in job'.due \ job'.gone
    BY <1>4
  <2>3. ASSUME Renewed(d)'
        PROVE  left[row'[d].pem] >= 2 \/ (job' = job /\ Renewed(d) /\ row'[d].pem = row[d].pem)
    <3>1. row'[d] # NoRow /\ row'[d].provider = "letsencrypt"
      BY <2>3 DEF Renewed
    <3>2. \/ /\ issued' = issued + 1 /\ issued' <= MaxCerts /\ row'[d].pem = issued + 1
          \/ Renewed(d) /\ row'[d].pem = row[d].pem
      BY <1>2, <3>1 DEF Edited
    <3>3. issued + 1 <= MaxCerts => left[issued + 1] = Life
      BY <1>1, <1>3, CertificateValues DEF CertTyped, Serial
    <3>4. job' = job
      BY <1>4, <3>1
    <3>5. QED
      BY <3>2, <3>3, <3>4, CertificateValues
  <2>4. ASSUME NEW e \in Domain, Renewed(e)'
        PROVE  /\ left[row'[e].pem] >= 1
               /\ ran => left[row'[e].pem] >= 2
               /\ pc["job"] # "idle" /\ ~job'.failed =>
                      left[row'[e].pem] >= 2 \/ e \in job'.due \ job'.gone
    <3>1. CASE left[row'[e].pem] >= 2
      <4>1. row'[e].pem \in Serial
        BY <1>2, <2>4 DEF Renewed, CertTyped, RowTyped, Row
      <4>2. left[row'[e].pem] \in Nat
        BY <1>1, <4>1 DEF CertTyped
      <4>3. QED
        BY <3>1, <4>2
    <3>2. CASE ~(left[row'[e].pem] >= 2)
      <4>1. Renewed(e) /\ row'[e].pem = row[e].pem
        BY <2>1, <2>3, <2>4, <3>2
      <4>2. job'.failed = job.failed /\ (e \in job.due \ job.gone => e \in job'.due \ job'.gone)
        BY <2>2, <2>3, <2>4, <3>2
      <4>3. QED
        BY <1>1, <3>2, <4>1, <4>2 DEF RowsLive
    <3>3. QED
      BY <3>1, <3>2
  <2>5. QED
    BY <1>3, <2>4 DEF RowsLive
<1>7. GenTyped' /\ ApplyWrites'
  BY <1>1, <1>3, SameWrites DEF GenTyped, Busy
<1>8. AllInStep'
  BY <1>1, <1>3, RowChanges
<1>9. QED
  BY <1>2, <1>5, <1>6, <1>7, <1>8 DEF CertInv

LEMMA JobCommitKeeps ==
    ASSUME CertInv, NEW d \in Domain, JobCommit(d)
    PROVE  CertInv'
<1>1. CertTyped /\ JobHolds /\ RowsLive /\ GenTyped /\ ApplyWrites /\ AllInStep
  BY DEF CertInv
<1>2. CertTyped' /\ Committed(d)
  BY <1>1, JobCommitTyped, JobCommitIs
<1>3. /\ UNCHANGED <<left, disk, release, haproxy, gen, applying, ran>>
      /\ pc["job"] = "loop" /\ pc'["job"] \in {"idle", "generate"} /\ d \in job.due
      /\ \A t \in Thread \ {"job"} : pc'[t] = pc[t]
  BY <1>2 DEF Committed
<1>4. GenTyped' /\ ApplyWrites'
  <2>1. Busy' = Busy /\ \A t \in Busy : pc'[t] = pc[t]
    BY <1>3 DEF Busy
  <2>2. QED
    BY <1>1, <1>3, <2>1, SameWrites DEF GenTyped
<1>5. CASE d \in job.gone
  <2>1. UNCHANGED <<row, job, missed>> /\ pc'["job"] = "idle"
    BY <1>2, <1>5 DEF Committed
  <2>2. JobHolds' /\ RowsLive'
    BY <1>1, <1>3, <2>1, SameHeld, SameLive
  <2>3. ASSUME NEW e \in Domain, e \notin Missed' PROVE InStep(e)'
    BY <1>1, <1>3, <2>1, <2>3, WasInStep, StaysInStep
  <2>4. QED
    BY <1>2, <1>4, <2>2, <2>3 DEF CertInv, AllInStep
<1>6. CASE d \notin job.gone
  <2>1. /\ d \in job.held /\ row[d] # NoRow /\ job.rows[d] # NoRow
        /\ missed' = missed \cup {d} /\ issued' = issued + 1 /\ issued < MaxCerts
        /\ \A e \in Domain \ {d} : row'[e] = row[e] /\ job'.rows[e] = job.rows[e]
        /\ row'[d] = [row[d] EXCEPT !.pem = issued + 1]
        /\ job'.rows[d] = [job.rows[d] EXCEPT !.pem = issued + 1]
        /\ job'.due = job.due \ {d} /\ job'.held = job.held /\ job'.gone = job.gone
        /\ job'.failed = job.failed
    BY <1>2, <1>6 DEF Committed
  <2>2. issued \in Nat /\ issued + 1 \in Serial /\ issued' = issued + 1
    BY <1>1, <2>1, CertificateValues DEF CertTyped, Serial
  <2>3. row'[d] \in Row /\ job'.rows[d] \in Row /\ row'[d].pem = issued + 1
    <3>1. row[d] \in Row /\ job.rows[d] \in Row
      BY <1>1, <2>1 DEF CertTyped, RowTyped
    <3>2. QED
      BY <2>1, <2>2, <3>1 DEF Row
  <2>4. JobHolds'
    <3>1. row'[d] # NoRow /\ job'.rows[d] # NoRow
      BY <2>3, CertificateValues
    <3>2. \A e \in job.held : row'[e] # NoRow /\ job'.rows[e] # NoRow
      BY <1>1, <2>1, <3>1 DEF JobHolds
    <3>3. QED
      BY <1>1, <1>3, <2>1, <3>2 DEF JobHolds
  <2>5. left[row'[d].pem] >= 2 /\ left[row'[d].pem] >= 1
    BY <1>1, <2>2, <2>3, CertificateValues DEF CertTyped
  <2>6. ASSUME NEW e \in Domain \ {d}, Renewed(e)'
        PROVE  /\ left[row'[e].pem] >= 1
               /\ ran => left[row'[e].pem] >= 2
               /\ ~job'.failed => left[row'[e].pem] >= 2 \/ e \in job'.due \ job'.gone
    <3>1. Renewed(e) /\ row'[e].pem = row[e].pem
      BY <2>1, <2>6 DEF Renewed
    <3>2. e \in job.due \ job.gone => e \in job'.due \ job'.gone
      BY <2>1
    <3>3. QED
      BY <1>1, <1>3, <2>1, <3>1, <3>2 DEF RowsLive
  <2>7. RowsLive'
    BY <1>3, <2>5, <2>6 DEF RowsLive
  <2>8. AllInStep'
    BY <1>1, <1>3, <2>1, RowChanges
  <2>9. QED
    BY <1>2, <1>4, <2>4, <2>7, <2>8 DEF CertInv
<1>7. QED
  BY <1>5, <1>6

-----------------------------------------------------------------------------
\* An apply, up to its checks

LEMMA SameJob ==
    ASSUME CertInv, UNCHANGED <<row, issued, left, ran, job>>,
           DOMAIN pc' = Thread, DOMAIN gen' = Thread, DOMAIN disk' = File, missed' \subseteq Domain,
           pc'["job"] # "idle" => pc["job"] # "idle"
    PROVE  CertTyped' /\ JobHolds' /\ RowsLive'
<1>1. CertTyped'
  BY SameRowsTyped DEF CertInv, CertTyped
<1>2. QED
  BY <1>1, SameHeld, SameLive DEF CertInv

LEMMA ThreadApplies == ASSUME NEW a, a.by \in Thread PROVE a # NoApply
BY DEF Thread, NoApply

LEMMA BeginKeeps ==
    ASSUME CertInv, NEW t \in Thread, Begin(t)
    PROVE  CertInv'
<1>1. CertTyped /\ GenTyped /\ ApplyWrites /\ AllInStep
  BY DEF CertInv
<1>2. /\ applying = NoApply /\ At(t, "ready", "write")
      /\ applying' = [by |-> t, todo |-> DOMAIN gen[t].certs, half |-> NoPem]
      /\ UNCHANGED <<row, issued, left, disk, release, haproxy, gen, job, ran, missed>>
  BY DEF Begin, rows, proxy
<1>3. /\ DOMAIN pc' = Thread /\ pc[t] = "ready" /\ pc'[t] = "write"
      /\ \A u \in Thread \ {t} : pc'[u] = pc[u]
  BY <1>1, <1>2, AtIs
<1>4. CertTyped' /\ JobHolds' /\ RowsLive' /\ GenTyped'
  <2>1. pc'["job"] # "idle" => pc["job"] # "idle"
    BY <1>3 DEF Thread
  <2>2. QED
    BY <1>1, <1>2, <1>3, <2>1, SameJob DEF CertTyped, GenTyped
<1>5. ApplyWrites'
  <2>1. Busy' = {t}
    BY <1>1, <1>2, <1>3 DEF ApplyWrites, Busy
  <2>2. applying'.by = t /\ Writing(t)'
    BY <1>2, <1>3, <2>1 DEF Writing
  <2>3. QED
    BY <2>2, ThreadApplies DEF ApplyWrites
<1>6. ASSUME NEW d \in Domain, d \notin Missed' PROVE InStep(d)'
  <2>1. d \notin missed
    BY <1>2, <1>6, MissedGrows
  <2>2. InStep(d)
    BY <1>1, <1>2, <2>1, MissedIs DEF AllInStep
  <2>3. QED
    BY <1>2, <2>2, StaysInStep
<1>7. QED
  BY <1>4, <1>5, <1>6 DEF CertInv, AllInStep

\* What a file holds matters only to its own domain.
LEMMA FileInStep ==
    ASSUME NEW d, InStep(d), UNCHANGED <<row, release, haproxy>>,
           disk'[d] = disk[d] \/ disk'[d] = Bad \/ (HasPem(row[d]) => disk'[d] = row[d].pem)
    PROVE  InStep(d)'
BY DEF InStep, Tls, HasPem

LEMMA OpenPemKeeps ==
    ASSUME CertInv, NEW t \in Thread, OpenPem(t)
    PROVE  CertInv'
<1>1. CertTyped /\ GenTyped /\ ApplyWrites /\ AllInStep
  BY DEF CertInv
<1>2. PICK f \in ToWrite(t) :
          disk' = [disk EXCEPT ![f] = Bad] /\ applying' = [applying EXCEPT !.half = f]
  BY DEF OpenPem
<1>3. /\ pc[t] = "write" /\ applying.half = NoPem
      /\ UNCHANGED <<row, issued, left, release, haproxy, pc, gen, job, ran, missed>>
  BY DEF OpenPem, rows, proxy, threads
<1>4. applying # NoApply /\ applying.by = t /\ Writing(t)
  BY <1>1, <1>3, Applying
<1>5. /\ DOMAIN applying' = {"by", "todo", "half"} /\ applying'.by = t
      /\ applying'.todo = applying.todo /\ applying'.half = f
  BY <1>2, <1>4 DEF Writing
<1>6. f \in applying.todo \cup {Default} /\ applying.todo \subseteq Domain
  BY <1>1, <1>2, <1>4 DEF ToWrite, Writing, GenTyped
<1>7. CertTyped' /\ JobHolds' /\ RowsLive' /\ GenTyped'
  BY <1>1, <1>2, <1>3, SameJob DEF CertTyped, GenTyped
<1>8. ApplyWrites'
  <2>1. applying' # NoApply
    BY <1>5, ThreadApplies
  <2>2. \A d \in DOMAIN gen[t].certs \ applying.todo : disk'[d] = disk[d]
    BY <1>1, <1>2, <1>6, CertificateValues DEF GenTyped, CertTyped
  <2>3. Writing(t)'
    BY <1>3, <1>4, <1>5, <1>6, <2>2 DEF Writing, Busy
  <2>4. QED
    BY <1>5, <2>1, <2>3 DEF ApplyWrites
<1>9. ASSUME NEW d \in Domain, d \notin Missed' PROVE InStep(d)'
  <2>1. d \notin missed /\ Matches(t, d)
    <3>1. d \notin missed' /\ (applying' # NoApply => Matches(applying.by, d)')
      BY <1>9, MissedNext
    <3>2. applying' # NoApply
      BY <1>5, ThreadApplies
    <3>3. QED
      BY <1>3, <1>4, <1>5, <3>1, <3>2 DEF Matches, Tls, HasPem
  <2>2. InStep(d)
    BY <1>1, <1>4, <2>1, MissedIs DEF AllInStep
  <2>3. disk'[d] = disk[d] \/ disk'[d] = Bad
    BY <1>1, <1>2 DEF CertTyped
  <2>4. QED
    BY <1>3, <2>2, <2>3, FileInStep
<1>10. QED
  BY <1>7, <1>8, <1>9 DEF CertInv, AllInStep

LEMMA WritePemKeeps ==
    ASSUME CertInv, NEW t \in Thread, WritePem(t)
    PROVE  CertInv'
<1>1. CertTyped /\ GenTyped /\ ApplyWrites /\ AllInStep
  BY DEF CertInv
<1> DEFINE f == applying.half
<1>2. /\ pc[t] = "write" /\ f # NoPem
      /\ disk' = [disk EXCEPT ![f] = Content(t, f)]
      /\ applying' = [applying EXCEPT !.half = NoPem, !.todo = @ \ {f}]
      /\ UNCHANGED <<row, issued, left, release, haproxy, pc, gen, job, ran, missed>>
  BY DEF WritePem, rows, proxy, threads
<1>3. applying # NoApply /\ applying.by = t /\ Writing(t)
  BY <1>1, <1>2, Applying
<1>4. /\ DOMAIN applying' = {"by", "todo", "half"} /\ applying'.by = t
      /\ applying'.todo = applying.todo \ {f} /\ applying'.half = NoPem
  BY <1>2, <1>3 DEF Writing
<1>5. f \in applying.todo \cup {Default} /\ applying.todo \subseteq DOMAIN gen[t].certs
  BY <1>2, <1>3 DEF Writing
<1>6. DOMAIN gen[t].certs \subseteq Domain
  BY <1>1 DEF GenTyped
<1> HIDE DEF f
<1>7. CertTyped' /\ JobHolds' /\ RowsLive' /\ GenTyped'
  BY <1>1, <1>2, SameJob DEF CertTyped, GenTyped
<1>8. \A d \in Domain : \/ d # f /\ disk'[d] = disk[d]
                        \/ d = f /\ d \in DOMAIN gen[t].certs /\ disk'[d] = gen[t].certs[d]
  BY <1>1, <1>2, <1>5, CertificateValues DEF CertTyped, Content, File
<1>9. applying' # NoApply
  BY <1>4, ThreadApplies
<1>10. ApplyWrites'
  <2>1. \A d \in DOMAIN gen[t].certs \ applying'.todo : disk'[d] = gen[t].certs[d]
    BY <1>3, <1>4, <1>6, <1>8 DEF Writing
  <2>2. Writing(t)'
    BY <1>2, <1>3, <1>4, <2>1 DEF Writing, Busy
  <2>3. QED
    BY <1>4, <1>9, <2>2 DEF ApplyWrites
<1>11. ASSUME NEW d \in Domain, d \notin Missed' PROVE InStep(d)'
  <2>1. d \notin missed /\ Matches(t, d)
    <3>1. d \notin missed' /\ Matches(applying.by, d)'
      BY <1>9, <1>11, MissedNext
    <3>2. QED
      BY <1>2, <1>4, <3>1 DEF Matches, Tls, HasPem
  <2>2. InStep(d)
    BY <1>1, <1>3, <2>1, MissedIs DEF AllInStep
  <2>3. disk'[d] = disk[d] \/ (HasPem(row[d]) => disk'[d] = row[d].pem)
    BY <1>8, <2>1 DEF Matches
  <2>4. QED
    BY <1>2, <2>2, <2>3, FileInStep
<1>12. QED
  BY <1>7, <1>10, <1>11 DEF CertInv, AllInStep

LEMMA ValidateKeeps ==
    ASSUME CertInv, NEW t \in Thread, Validate(t)
    PROVE  CertInv'
<1>1. CertTyped /\ GenTyped /\ ApplyWrites /\ AllInStep
  BY DEF CertInv
<1>2. /\ applying.half = NoPem /\ ToWrite(t) = {} /\ At(t, "write", "switch")
      /\ UNCHANGED <<row, issued, left, disk, release, haproxy, gen, applying, job, ran, missed>>
  BY DEF Validate, rows, proxy
<1>3. /\ DOMAIN pc' = Thread /\ pc[t] = "write" /\ pc'[t] = "switch"
      /\ \A u \in Thread \ {t} : pc'[u] = pc[u]
  BY <1>1, <1>2, AtIs
<1>4. applying # NoApply /\ applying.by = t /\ Writing(t) /\ applying.todo = {}
  BY <1>1, <1>2, <1>3, Applying DEF ToWrite
<1>5. CertTyped' /\ JobHolds' /\ RowsLive' /\ GenTyped'
  <2>1. pc'["job"] # "idle" => pc["job"] # "idle"
    BY <1>3 DEF Thread
  <2>2. QED
    BY <1>1, <1>2, <1>3, <2>1, SameJob DEF CertTyped, GenTyped
<1>6. ApplyWrites'
  <2>1. Busy' = Busy
    BY <1>3 DEF Busy
  <2>2. Writing(t)'
    BY <1>2, <1>4, <2>1 DEF Writing
  <2>3. QED
    BY <1>2, <1>4, <2>2 DEF ApplyWrites
<1>7. ASSUME NEW d \in Domain, d \notin Missed' PROVE InStep(d)'
  BY <1>1, <1>2, <1>7, WasInStep, StaysInStep
<1>8. QED
  BY <1>5, <1>6, <1>7 DEF CertInv, AllInStep

-----------------------------------------------------------------------------
\* The ends of an apply

LEMMA OvertakenDomains == ASSUME NEW t PROVE Overtaken(t) \subseteq Domain
BY DEF Overtaken

\* However an apply ends, the next has nothing of it to go on with.
LEMMA EndKeeps ==
    ASSUME CertInv, NEW t \in Thread, pc[t] \in {"write", "switch"}, NEW how, EndApply(t, how),
           missed' \subseteq Domain, release' \subseteq Domain, haproxy'.tls \subseteq Domain,
           \A d \in Domain \ missed' : InStep(d)'
    PROVE  CertInv'
<1>1. CertTyped /\ GenTyped /\ ApplyWrites
  BY DEF CertInv
<1>2. /\ pc' = [pc EXCEPT ![t] = IF t = "job" THEN "loop" ELSE "idle"]
      /\ applying' = NoApply /\ gen' = [gen EXCEPT ![t] = Nothing]
      /\ UNCHANGED <<row, issued, left, disk, job, ran>>
  BY DEF EndApply, rows
<1>3. /\ DOMAIN pc' = Thread /\ pc'[t] \in {"idle", "loop"}
      /\ \A u \in Thread \ {t} : pc'[u] = pc[u]
      /\ DOMAIN gen' = Thread /\ gen'[t] = Nothing
      /\ \A u \in Thread \ {t} : gen'[u] = gen[u]
  BY <1>1, <1>2 DEF CertTyped
<1>4. CertTyped' /\ JobHolds' /\ RowsLive'
  <2>1. pc'["job"] # "idle" => pc["job"] # "idle"
    BY <1>3 DEF Thread
  <2>2. QED
    BY <1>1, <1>2, <1>3, <2>1, SameJob DEF CertTyped
<1>5. GenTyped'
  <2>1. Nothing.tls \subseteq Domain /\ DOMAIN Nothing.certs \subseteq Domain
    BY RenderedDomains DEF Nothing
  <2>2. QED
    BY <1>1, <1>3, <2>1 DEF GenTyped
<1>6. ApplyWrites'
  <2>1. Busy = {t}
    BY <1>1, Applying DEF Writing
  <2>2. Busy' = {}
    BY <1>3, <2>1 DEF Busy
  <2>3. QED
    BY <1>2, <2>2 DEF ApplyWrites
<1>7. AllInStep'
  BY MissedGrows DEF AllInStep
<1>8. QED
  BY <1>4, <1>5, <1>6, <1>7 DEF CertInv

\* Once all files are written, they are what was generated; unless it has been
\* overtaken, this is what the row holds.
LEMMA WrittenIs ==
    ASSUME CertInv, NEW t \in Thread, pc[t] = "switch", NEW d \in Domain, d \notin Overtaken(t)
    PROVE  /\ d \in gen[t].tls <=> Tls(row[d])
           /\ HasPem(row[d]) => disk[d] = row[d].pem
BY Applying, OvertakenIs DEF CertInv, Writing, Matches

LEMMA SwitchKeeps ==
    ASSUME CertInv, NEW t \in Thread, Switch(t)
    PROVE  CertInv'
<1>1. CertTyped /\ GenTyped /\ ApplyWrites /\ AllInStep
  BY DEF CertInv
<1>2. /\ pc[t] = "switch" /\ EndApply(t, "success") /\ release' = gen[t].tls
      /\ \/ haproxy' = Running(gen[t].tls) /\ missed' = Overtaken(t)
         \/ haproxy' = haproxy /\ missed' = missed \cup Overtaken(t)
  BY DEF Switch
<1>3. UNCHANGED <<row, disk>>
  BY <1>2 DEF EndApply, rows
<1>4. missed' \subseteq Domain
  BY <1>1, <1>2, OvertakenDomains DEF CertTyped
<1>5. release' \subseteq Domain /\ haproxy'.tls \subseteq Domain
  <2>1. gen[t].tls \subseteq Domain /\ haproxy.tls \subseteq Domain
    BY <1>1 DEF GenTyped
  <2>2. Running(gen[t].tls).tls = gen[t].tls
    BY DEF Running
  <2>3. haproxy'.tls \in {haproxy.tls, gen[t].tls}
    BY <1>2, <2>2
  <2>4. QED
    BY <1>2, <2>1, <2>3
<1>6. ASSUME NEW d \in Domain \ missed' PROVE InStep(d)'
  <2>1. d \notin Overtaken(t)
    BY <1>2, <1>6
  <2>2. /\ d \in gen[t].tls <=> Tls(row[d])
        /\ HasPem(row[d]) => disk[d] = row[d].pem
    BY <1>2, <2>1, WrittenIs
  <2>3. CASE haproxy' = Running(gen[t].tls)
    <3>1. haproxy'.tls = gen[t].tls /\ (d \in gen[t].tls => haproxy'.served = disk)
      BY <2>3 DEF Running
    <3>2. QED
      BY <1>2, <1>3, <2>2, <3>1 DEF InStep, Tls, HasPem
  <2>4. CASE haproxy' = haproxy /\ missed' = missed \cup Overtaken(t)
    <3>1. d \notin missed /\ applying.by = t
      BY <1>1, <1>2, <1>6, <2>4, Applying
    <3>2. InStep(d)
      BY <1>1, <2>1, <3>1, MissedIs, OvertakenIs DEF AllInStep
    <3>3. QED
      BY <1>2, <1>3, <2>2, <2>4, <3>2 DEF InStep, Tls, HasPem
  <2>5. QED
    BY <1>2, <2>3, <2>4
<1>7. QED
  BY <1>2, <1>4, <1>5, <1>6, EndKeeps

LEMMA RefuseKeeps ==
    ASSUME CertInv, NEW t \in Thread, Refuse(t)
    PROVE  CertInv'
<1>1. CertTyped /\ GenTyped /\ ApplyWrites /\ AllInStep
  BY DEF CertInv
<1>2. /\ pc[t] = "write" /\ EndApply(t, "refused")
      /\ missed' = missed \cup Overtaken(t) /\ UNCHANGED <<release, haproxy>>
  BY DEF Refuse, proxy
<1>3. UNCHANGED <<row, disk>>
  BY <1>2 DEF EndApply, rows
<1>4. missed' \subseteq Domain
  BY <1>1, <1>2, OvertakenDomains DEF CertTyped
<1>5. release' \subseteq Domain /\ haproxy'.tls \subseteq Domain
  BY <1>1, <1>2 DEF GenTyped
<1>6. ASSUME NEW d \in Domain \ missed' PROVE InStep(d)'
  <2>1. d \notin missed /\ d \notin Overtaken(t) /\ applying.by = t
    BY <1>1, <1>2, <1>6, Applying
  <2>2. InStep(d)
    BY <1>1, <2>1, MissedIs, OvertakenIs DEF AllInStep
  <2>3. QED
    BY <1>2, <1>3, <2>2, StaysInStep
<1>7. QED
  BY <1>2, <1>4, <1>5, <1>6, EndKeeps

LEMMA RollBackKeeps ==
    ASSUME CertInv, NEW t \in Thread, RollBack(t)
    PROVE  CertInv'
<1>1. CertTyped /\ GenTyped /\ ApplyWrites /\ AllInStep
  BY DEF CertInv
<1>2. /\ pc[t] = "switch" /\ EndApply(t, "rolled back") /\ UNCHANGED release
      /\ haproxy' \in {haproxy, Running(release), Running(gen[t].tls)}
      /\ missed' = missed \cup Overtaken(t)
  BY DEF RollBack
<1>3. UNCHANGED <<row, disk>>
  BY <1>2 DEF EndApply, rows
<1>4. missed' \subseteq Domain
  BY <1>1, <1>2, OvertakenDomains DEF CertTyped
<1>5. release' \subseteq Domain /\ haproxy'.tls \subseteq Domain
  <2>1. release \subseteq Domain /\ gen[t].tls \subseteq Domain /\ haproxy.tls \subseteq Domain
    BY <1>1 DEF GenTyped
  <2>2. Running(release).tls = release /\ Running(gen[t].tls).tls = gen[t].tls
    BY DEF Running
  <2>3. haproxy'.tls \in {haproxy.tls, release, gen[t].tls}
    BY <1>2, <2>2
  <2>4. QED
    BY <1>2, <2>1, <2>3
<1>6. ASSUME NEW d \in Domain \ missed' PROVE InStep(d)'
  <2>1. d \notin missed /\ d \notin Overtaken(t) /\ applying.by = t
    BY <1>1, <1>2, <1>6, Applying
  <2>2. InStep(d)
    BY <1>1, <2>1, MissedIs, OvertakenIs DEF AllInStep
  <2>3. /\ d \in gen[t].tls <=> Tls(row[d])
        /\ HasPem(row[d]) => disk[d] = row[d].pem
    BY <1>2, <2>1, WrittenIs
  <2>4. CASE haproxy' = haproxy
    BY <1>2, <1>3, <2>2, <2>4, StaysInStep
  <2>5. ASSUME NEW tls \in {release, gen[t].tls}, haproxy' = Running(tls)
        PROVE  InStep(d)'
    <3>1. haproxy'.tls = tls /\ (d \in tls => haproxy'.served = disk)
      BY <2>5 DEF Running
    <3>2. d \in tls <=> Tls(row[d])
      BY <2>2, <2>3 DEF InStep
    <3>3. QED
      BY <1>2, <1>3, <2>2, <2>3, <3>1, <3>2 DEF InStep, Tls, HasPem
  <2>6. QED
    BY <1>2, <2>4, <2>5
<1>7. QED
  BY <1>2, <1>4, <1>5, <1>6, EndKeeps

LEMMA CrashKeeps ==
    ASSUME CertInv, BackendCrash
    PROVE  CertInv'
<1>1. CertTyped /\ GenTyped /\ ApplyWrites /\ AllInStep
  BY DEF CertInv
<1>2. /\ applying' = NoApply /\ pc' = [t \in Thread |-> "idle"]
      /\ gen' = [t \in Thread |-> Nothing]
      /\ job' = [rows |-> [d \in Domain |-> NoRow], held |-> {}, gone |-> {},
                 due |-> {}, failed |-> FALSE]
      /\ missed' = Missed
      /\ UNCHANGED <<row, issued, left, disk, release, haproxy, ran>>
  BY DEF BackendCrash, rows, proxy, Missed
<1>3. CertTyped'
  <2>1. missed' \subseteq Domain
    BY <1>1, <1>2, OvertakenDomains DEF Missed, CertTyped
  <2>2. \A d \in Domain : RowTyped(job'.rows[d], issued)
    BY <1>2 DEF RowTyped
  <2>3. QED
    BY <1>1, <1>2, <2>1, <2>2, SameRowsTyped DEF CertTyped
<1>4. JobHolds'
  BY <1>2 DEF JobHolds, Thread
<1>5. RowsLive'
  <2>1. pc'["job"] = "idle"
    BY <1>2 DEF Thread
  <2>2. QED
    BY <1>2, <2>1 DEF CertInv, RowsLive, Renewed
<1>6. GenTyped'
  BY <1>1, <1>2, RenderedDomains DEF GenTyped, Nothing
<1>7. ApplyWrites'
  BY <1>2 DEF ApplyWrites, Busy
<1>8. ASSUME NEW d \in Domain, d \notin Missed' PROVE InStep(d)'
  <2>1. d \notin Missed
    BY <1>2, <1>8, MissedGrows
  <2>2. QED
    BY <1>1, <1>2, <2>1, StaysInStep DEF AllInStep
<1>9. QED
  BY <1>3, <1>4, <1>5, <1>6, <1>7, <1>8 DEF CertInv, AllInStep

-----------------------------------------------------------------------------
\* Time

LEMMA TickKeeps ==
    ASSUME CertInv, Tick
    PROVE  CertInv'
<1>1. CertTyped /\ JobHolds /\ RowsLive /\ GenTyped /\ ApplyWrites /\ AllInStep
  BY DEF CertInv
<1>2. /\ ran /\ ran' = FALSE /\ pc["job"] = "idle"
      /\ left' = [s \in Serial |-> IF s <= issued /\ left[s] > 0 THEN left[s] - 1 ELSE left[s]]
      /\ UNCHANGED <<row, issued, disk, release, haproxy, pc, gen, job, applying, missed>>
  BY DEF Tick, rows, proxy, threads, Thread
<1>3. CertTyped'
  <2>1. issued \in Nat /\ Serial \subseteq Nat /\ \A s \in Serial : left[s] \in Nat
    BY <1>1, CertificateValues DEF CertTyped, Serial
  <2>2. left' \in [Serial -> Nat] /\ \A s \in Serial : s > issued => left'[s] = Life
    BY <1>1, <1>2, <2>1 DEF CertTyped
  <2>3. QED
    BY <1>1, <1>2, <2>2 DEF CertTyped, RowTyped
<1>4. JobHolds' /\ GenTyped' /\ ApplyWrites'
  BY <1>1, <1>2, SameHeld, SameWrites DEF GenTyped, Busy
<1>5. RowsLive'
  <2>1. ASSUME NEW d \in Domain, Renewed(d)' PROVE left'[row'[d].pem] >= 1
    <3>1. Renewed(d) /\ row[d].pem \in Serial
      BY <1>1, <1>2, <2>1 DEF Renewed, CertTyped, RowTyped, Row
    <3>2. left[row[d].pem] >= 2 /\ left[row[d].pem] \in Nat
      BY <1>1, <1>2, <3>1 DEF RowsLive, CertTyped
    <3>3. QED
      BY <1>2, <3>1, <3>2
  <2>2. QED
    BY <1>2, <2>1 DEF RowsLive
<1>6. ASSUME NEW d \in Domain, d \notin Missed' PROVE InStep(d)'
  BY <1>1, <1>2, <1>6, WasInStep, StaysInStep
<1>7. QED
  BY <1>3, <1>4, <1>5, <1>6 DEF CertInv, AllInStep

-----------------------------------------------------------------------------

\* A stuttering step changes nothing the invariant speaks of.
LEMMA CertificatesStutter ==
    ASSUME CertInv, UNCHANGED certificates
    PROVE  CertInv'
<1>1. UNCHANGED <<row, issued, left, disk, release, haproxy, pc, gen, job, applying, ran, missed>>
  BY DEF certificates
<1>2. CertTyped' /\ JobHolds' /\ RowsLive' /\ GenTyped'
  BY <1>1, SameJob DEF CertInv, CertTyped, GenTyped
<1>3. Busy' = Busy /\ \A t \in Busy : pc'[t] = pc[t] /\ gen'[t] = gen[t]
  BY <1>1 DEF Busy
<1>4. QED
  BY <1>1, <1>2, <1>3, ThreadKeeps

\* Every certificate of a Let's Encrypt vhost is renewed before it expires, and
\* what the files and HAProxy have of a vhost that is not missed is its row's.
THEOREM CertificatesInductive == CertificatesSpec => []CertInv
<1>1. ASSUME CertInv, [CertificatesNext]_certificates PROVE CertInv'
  <2>1. CASE \E d \in Domain : Provision(d) \/ Upload(d) \/ Toggle(d) \/ Delete(d)
    BY <1>1, <2>1, EditKeeps
  <2>2. CASE JobStart
    BY <1>1, <2>2, JobStartKeeps
  <2>3. CASE JobGenerate
    BY <1>1, <2>3, JobGenerateKeeps
  <2>4. CASE JobEnd
    BY <1>1, <2>4, JobEndKeeps
  <2>5. CASE \E d \in Domain : JobCertbotFails(d) \/ JobCommit(d)
    BY <1>1, <2>5, JobCertbotFailsKeeps, JobCommitKeeps
  <2>6. CASE RequestReads \/ BackendStart
    BY <1>1, <2>6, ReaderKeeps
  <2>7. CASE BackendCrash
    BY <1>1, <2>7, CrashKeeps
  <2>8. CASE \E t \in Thread : Apply(t)
    BY <1>1, <2>8, BeginKeeps, OpenPemKeeps, WritePemKeeps, ValidateKeeps, SwitchKeeps,
       RefuseKeeps, RollBackKeeps DEF Apply
  <2>9. CASE HaproxyStart \/ HaproxyStop \/ GeoipReload
    BY <1>1, <2>9, HaproxyKeeps
  <2>10. CASE Tick
    BY <1>1, <2>10, TickKeeps
  <2>11. CASE UNCHANGED certificates
    BY <1>1, <2>11, CertificatesStutter
  <2>12. QED
    BY <1>1, <2>1, <2>2, <2>3, <2>4, <2>5, <2>6, <2>7, <2>8, <2>9, <2>10, <2>11
       DEF CertificatesNext
<1>2. QED
  BY <1>1, CertificatesStart, PTL DEF CertificatesSpec

\* HAProxy serves no expired certificate for a Let's Encrypt vhost whose row is
\* as it was last applied (scheduler.py, the renewal job).
THEOREM NeverServesExpired == CertificatesSpec => []RenewedInTime
<1>1. ASSUME CertInv PROVE RenewedInTime
  <2>1. CertTyped /\ RowsLive /\ GenTyped /\ AllInStep
    BY <1>1 DEF CertInv
  <2>2. SUFFICES ASSUME haproxy.up, NEW d \in haproxy.tls \ Missed, row[d].provider = "letsencrypt"
                 PROVE  Live(haproxy.served[d])
    BY DEF RenewedInTime
  <2>3. d \in Domain
    BY <2>1, <2>2 DEF GenTyped
  <2>4. Tls(row[d]) /\ (HasPem(row[d]) => haproxy.served[d] = row[d].pem)
    BY <2>1, <2>2, <2>3 DEF AllInStep, InStep
  <2>5. row[d] # NoRow /\ row[d].on /\ row[d].pem \in Serial
    BY <2>1, <2>2, <2>3, <2>4 DEF Tls, CertTyped, RowTyped, Row
  <2>6. HasPem(row[d])
    BY <2>5, CertificateValues DEF HasPem
  <2>7. left[row[d].pem] >= 1 /\ left[row[d].pem] \in Nat
    BY <2>1, <2>2, <2>3, <2>5 DEF RowsLive, Renewed, CertTyped
  <2>8. QED
    BY <2>4, <2>5, <2>6, <2>7 DEF Live
<1>2. QED
  BY <1>1, CertificatesInductive, PTL
=============================================================================
