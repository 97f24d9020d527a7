------------------------------- MODULE Accounts -------------------------------
(***************************************************************************)
(* The panel's accounts: the command-line programs that create and change  *)
(* them (scripts/manage_users.py, scripts/seed_admin.py), the tokens issued*)
(* at login and refresh (routers/auth.py, services/auth_service.py), and   *)
(* what a request with an access token may do (dependencies.py).           *)
(*                                                                         *)
(* The commands run in processes of their own, under READ COMMITTED and    *)
(* without row locks.  Left out: names, passwords beyond "they match" or   *)
(* not, rate limits, listing, and logout, which has the browser drop its   *)
(* cookie and changes nothing on the server.                               *)
(***************************************************************************)
EXTENDS Integers, FiniteSets

CONSTANTS
    Process,        \* command-line processes
    Email,
    MaxCommands,    \* bound: creating and updating commands
    None

ASSUME AccountsAssumption == MaxCommands \in Nat

Role == {"admin", "viewer"}
Row == [id : 1..MaxCommands, email : Email, role : Role, active : BOOLEAN]

\* What `update` may be asked to change; None leaves the field alone.
Patch == [email : Email \cup {None}, role : Role \cup {None}, active : BOOLEAN \cup {None}]

VARIABLES
    users,          \* rows
    commands,       \* ids given so far
    cli,            \* process -> the command it executes, or None
    tokens,         \* tokens that verify: signed here, not expired
    admitted,       \* the user whose admin request began last
    raced           \* history: since the last update began, another one had
                    \* changed who is an active admin

vars == <<users, commands, cli, tokens, admitted, raced>>

IsActiveAdmin(u) == u.role = "admin" /\ u.active
ActiveAdmins == {u \in users : IsActiveAdmin(u)}

-----------------------------------------------------------------------------
\* Commands

Idle(p) == cli[p] = None /\ commands < MaxCommands /\ commands' = commands + 1

\* db.add and commit; the unique constraint refuses an email that is taken.
Insert(email, role) ==
    users' = IF \E u \in users : u.email = email THEN users
             ELSE users \cup {[id |-> commands', email |-> email, role |-> role, active |-> TRUE]}

\* cmd_create
Create(p, email, role) ==
    /\ Idle(p) /\ Insert(email, role)
    /\ UNCHANGED <<cli, tokens, admitted, raced>>

\* seed_admin: only if no row has the role, active or not.
ReadSeed(p, email) ==
    /\ Idle(p)
    /\ ~\E u \in users : u.role = "admin"
    /\ cli' = [cli EXCEPT ![p] = [kind |-> "seed", id |-> commands', email |-> email]]
    /\ UNCHANGED <<users, tokens, admitted, raced>>

CommitSeed(p) ==
    /\ cli[p] # None /\ cli[p].kind = "seed"
    /\ users' = IF \E u \in users : u.email = cli[p].email THEN users
                ELSE users \cup {[id |-> cli[p].id, email |-> cli[p].email,
                                  role |-> "admin", active |-> TRUE]}
    /\ cli' = [cli EXCEPT ![p] = None]
    /\ UNCHANGED <<commands, tokens, admitted, raced>>

\* cmd_update: _resolve_user, by id or email.
Resolve(p, u, patch) ==
    /\ Idle(p)
    /\ patch # [email |-> None, role |-> None, active |-> None]
    /\ cli' = [cli EXCEPT ![p] =
           [kind |-> "update", phase |-> "resolved", row |-> u, patch |-> patch, touched |-> FALSE]]
    /\ UNCHANGED <<users, tokens, admitted, raced>>

WouldDemote(u, patch) == patch.role \notin {None, "admin"} /\ u.role = "admin"
WouldDeactivate(u, patch) == patch.active = FALSE /\ u.active /\ u.role = "admin"

\* Mutant: a deactivated admin counts as another one.
HasOtherAdmin(id) == \E u \in users : u.role = "admin" /\ u.id # id

\* _has_other_active_admin
HasOtherActiveAdmin(id) == \E u \in users : IsActiveAdmin(u) /\ u.id # id

\* The lockout guard.
Guard(p) ==
    /\ cli[p] # None /\ cli[p].kind = "update" /\ cli[p].phase = "resolved"
    /\ LET u == cli[p].row
           refused == /\ WouldDemote(u, cli[p].patch) \/ WouldDeactivate(u, cli[p].patch)
                      /\ ~HasOtherActiveAdmin(u.id)
       IN  cli' = [cli EXCEPT ![p] = IF refused THEN None ELSE [@ EXCEPT !.phase = "allowed"]]
    /\ UNCHANGED <<users, commands, tokens, admitted, raced>>

\* The UPDATE sets the columns whose value differs from the row that was read.
Column(now, read, patch) == IF patch \in {None, read} THEN now ELSE patch
Merge(now, read, patch) ==
    [id |-> now.id,
     email |-> Column(now.email, read.email, patch.email),
     role |-> Column(now.role, read.role, patch.role),
     active |-> Column(now.active, read.active, patch.active)]

CommitUpdate(p) ==
    /\ cli[p] # None /\ cli[p].kind = "update" /\ cli[p].phase = "allowed"
    /\ LET now == CHOOSE u \in users : u.id = cli[p].row.id
           new == Merge(now, cli[p].row, cli[p].patch)
           taken == \E u \in users : u.email = new.email /\ u.id # new.id
           moved == ~taken /\ IsActiveAdmin(now) # IsActiveAdmin(new)
       IN  /\ users' = IF taken THEN users ELSE (users \ {now}) \cup {new}
           /\ cli' = [q \in Process |->
                  IF q = p THEN None
                  ELSE IF moved /\ cli[q] # None /\ cli[q].kind = "update"
                  THEN [cli[q] EXCEPT !.touched = TRUE]
                  ELSE cli[q]]
           /\ raced' = (moved /\ cli[p].touched)
    /\ UNCHANGED <<commands, tokens, admitted>>

-----------------------------------------------------------------------------
\* Requests.  The rows are read in the step.

\* create_access_token, create_refresh_token
Issued(u) ==
    {[type |-> "access", sub |-> u.id, role |-> u.role], [type |-> "refresh", sub |-> u.id]}

\* login, with the password that matches.
Login(u) ==
    /\ u.active
    /\ tokens' = tokens \cup Issued(u)
    /\ UNCHANGED <<users, commands, cli, admitted, raced>>

\* refresh
Refresh(token) ==
    /\ token.type = "refresh"
    /\ \E u \in users : u.id = token.sub /\ u.active /\ tokens' = tokens \cup Issued(u)
    /\ UNCHANGED <<users, commands, cli, admitted, raced>>

Expire(token) == tokens' = tokens \ {token} /\ UNCHANGED <<users, commands, cli, admitted, raced>>

\* get_current_user: the row, not the token, says who is active.
CurrentUser(token) == {u \in users : token.type = "access" /\ u.id = token.sub /\ u.active}

\* Mutant: the role the token was issued with.
RequireAdminByToken(token) == {u \in CurrentUser(token) : token.role = "admin"}

\* require_admin
RequireAdmin(token) == {u \in CurrentUser(token) : u.role = "admin"}

\* An endpoint for admins.
AdminRequest(token) ==
    /\ RequireAdmin(token) # {}
    /\ admitted' = token.sub
    /\ UNCHANGED <<users, commands, cli, tokens, raced>>

-----------------------------------------------------------------------------
Init ==
    /\ users = {} /\ commands = 0
    /\ cli = [p \in Process |-> None]
    /\ tokens = {} /\ admitted = None
    /\ raced = FALSE

Next ==
    \/ \E p \in Process :
          \/ \E email \in Email : (\E role \in Role : Create(p, email, role)) \/ ReadSeed(p, email)
          \/ CommitSeed(p)
          \/ \E u \in users, patch \in Patch : Resolve(p, u, patch)
          \/ Guard(p) \/ CommitUpdate(p)
    \/ \E u \in users : Login(u)
    \/ \E token \in tokens : Refresh(token) \/ Expire(token) \/ AdminRequest(token)

Spec == Init /\ [][Next]_vars

-----------------------------------------------------------------------------
\* Properties

\* "Lockout guard: refuse any change that would leave zero active admins"
\* (manage_users.py:255): unless two updates overlapped, the panel never loses
\* its last active admin.
AdminStays == [][ActiveAdmins # {} => ActiveAdmins' # {} \/ raced']_vars

\* A token outlives a demotion and a deactivation, an admin's rights do not:
\* whoever begins an admin request is an active admin at that moment, and no
\* other account shares the id the token was issued for.
OnlyAdminsAdmitted ==
    [][\A token \in tokens : AdminRequest(token) =>
          \E u \in ActiveAdmins : {w \in users : w.id = token.sub} = {u}]_vars
===============================================================================
