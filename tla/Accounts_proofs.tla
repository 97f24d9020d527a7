---------------------------- MODULE Accounts_proofs ----------------------------
(***************************************************************************)
(* The lockout guard, for any number of accounts and of command-line       *)
(* processes: the panel loses its last active admin only to updates that   *)
(* overlap.                                                                *)
(***************************************************************************)
EXTENDS Accounts, TLAPS

-----------------------------------------------------------------------------
\* The inductive invariant.  An update that no other one has overlapped still
\* sees the truth in the row it read, and, once its guard has let it reduce the
\* admins, another active admin is there.

SeedCommand == [kind : {"seed"}, id : 1..MaxCommands, email : Email]
UpdateCommand == [kind : {"update"}, phase : {"resolved", "allowed"}, row : Row,
                  patch : Patch, touched : BOOLEAN]

Typed ==
    /\ users \subseteq Row
    /\ commands \in 0..MaxCommands
    /\ cli \in [Process -> {None} \cup SeedCommand \cup UpdateCommand]

Seeding(p) == cli[p] # None /\ cli[p].kind = "seed"
Updating(p) == cli[p] # None /\ cli[p].kind = "update"

\* An id names at most one row, and none of a seed that is still to commit.
RowsApart == \A u, w \in users : u.id = w.id => u = w
IdsGiven ==
    /\ \A u \in users : u.id <= commands
    /\ \A p \in Process : Seeding(p) => cli[p].id <= commands
SeedsApart ==
    \A p \in Process : Seeding(p) =>
        /\ \A u \in users : u.id # cli[p].id
        /\ \A q \in Process : Seeding(q) /\ cli[q].id = cli[p].id => q = p

IdsAreUnique == RowsApart /\ IdsGiven /\ SeedsApart

Reduces(p) ==
    WouldDemote(cli[p].row, cli[p].patch) \/ WouldDeactivate(cli[p].row, cli[p].patch)

RowIsThere(p) == \E u \in users : u.id = cli[p].row.id
RowIsTrue(p) ==
    \A u \in users : u.id = cli[p].row.id => (IsActiveAdmin(u) <=> IsActiveAdmin(cli[p].row))
OthersRemain(p) ==
    cli[p].phase = "allowed" /\ Reduces(p) => HasOtherActiveAdmin(cli[p].row.id)

UpdatesAreInformed ==
    \A p \in Process : Updating(p) =>
        /\ RowIsThere(p)
        /\ ~cli[p].touched => RowIsTrue(p) /\ OthersRemain(p)

IInv == Typed /\ IdsAreUnique /\ UpdatesAreInformed

-----------------------------------------------------------------------------
LEMMA InitInvariant == Init => IInv
<1>1. ASSUME Init
      PROVE  /\ users = {} /\ commands = 0 /\ commands \in 0..MaxCommands
             /\ cli = [p \in Process |-> None]
  BY <1>1, AccountsAssumption DEF AccountsAssumption, Init
<1>2. QED
  BY <1>1 DEF IInv, Typed, IdsAreUnique, RowsApart, IdsGiven, SeedsApart, UpdatesAreInformed,
                  Seeding, Updating

-----------------------------------------------------------------------------
\* Rows that are added

\* A new row under an id that is not in use disturbs no update.
LEMMA AddedRow ==
    ASSUME IInv, NEW new \in Row, users' = users \cup {new},
           \A u \in users : u.id # new.id,
           NEW p \in Process, Updating(p), cli'[p] = cli[p]
    PROVE  /\ RowIsThere(p)'
           /\ ~cli[p].touched => RowIsTrue(p)' /\ OthersRemain(p)'
<1>1. RowIsThere(p) /\ (~cli[p].touched => RowIsTrue(p) /\ OthersRemain(p))
  BY DEF IInv, UpdatesAreInformed
<1>2. RowIsThere(p)'
  BY <1>1 DEF RowIsThere
<1>3. cli[p].row.id # new.id
  BY <1>1 DEF RowIsThere
<1>4. RowIsTrue(p) => RowIsTrue(p)'
  BY <1>3 DEF RowIsTrue, IsActiveAdmin
<1>5. OthersRemain(p) => OthersRemain(p)'
  BY DEF OthersRemain, Reduces, HasOtherActiveAdmin
<1>6. QED
  BY <1>1, <1>2, <1>4, <1>5

LEMMA CreateKeeps ==
    ASSUME IInv, NEW p \in Process, NEW email \in Email, NEW role \in Role,
           Create(p, email, role)
    PROVE  IInv'
<1> DEFINE new == [id |-> commands + 1, email |-> email, role |-> role, active |-> TRUE]
<1>1. /\ commands' = commands + 1 /\ commands + 1 \in 1..MaxCommands
      /\ cli' = cli
      /\ users' \in {users, users \cup {new}}
  BY AccountsAssumption DEF AccountsAssumption, Create, Idle, Insert, IInv, Typed
<1>2. new \in Row /\ \A u \in users : u.id # new.id
  BY <1>1, AccountsAssumption DEF AccountsAssumption, Row, Role, IInv, Typed, IdsAreUnique, IdsGiven
<1>3. Typed'
  <2>1. commands' \in 0..MaxCommands
    BY <1>1
  <2>2. QED
    BY <1>1, <1>2, <2>1 DEF IInv, Typed
<1>4. IdsAreUnique'
  <2>1. RowsApart'
    BY <1>1, <1>2 DEF IInv, IdsAreUnique, RowsApart
  <2>2. \A q \in Process : Seeding(q) =>
           cli[q].id \in 1..MaxCommands /\ cli[q].id # new.id
    BY <1>1 DEF IInv, Typed, IdsAreUnique, IdsGiven, Seeding, SeedCommand, UpdateCommand
  <2>3. IdsGiven'
    BY <1>1, <1>2, <2>2 DEF IInv, Typed, Row, IdsAreUnique, IdsGiven, Seeding
  <2>4. SeedsApart'
    BY <1>1, <2>2 DEF IInv, IdsAreUnique, SeedsApart, Seeding
  <2>5. QED
    BY <2>1, <2>3, <2>4 DEF IdsAreUnique
<1>5. UpdatesAreInformed'
  <2>1. CASE users' = users
    BY <1>1, <2>1 DEF IInv, UpdatesAreInformed, Updating, RowIsThere, RowIsTrue, OthersRemain,
                      Reduces, HasOtherActiveAdmin
  <2>2. CASE users' = users \cup {new}
    BY <1>1, <1>2, <2>2, AddedRow DEF UpdatesAreInformed, Updating
  <2>3. QED
    BY <1>1, <2>1, <2>2
<1>6. QED
  BY <1>3, <1>4, <1>5 DEF IInv

LEMMA ReadSeedKeeps ==
    ASSUME IInv, NEW p \in Process, NEW email \in Email, ReadSeed(p, email) PROVE IInv'
<1> DEFINE seed == [kind |-> "seed", id |-> commands + 1, email |-> email]
<1>1. /\ commands' = commands + 1 /\ commands + 1 \in 1..MaxCommands
      /\ users' = users
      /\ cli' = [cli EXCEPT ![p] = seed]
      /\ cli \in [Process -> {None} \cup SeedCommand \cup UpdateCommand]
  BY AccountsAssumption DEF AccountsAssumption, ReadSeed, Idle, IInv, Typed
<1>2. seed \in SeedCommand /\ seed.id = commands + 1 /\ seed.kind # "update"
  BY <1>1 DEF SeedCommand
<1>3. Typed'
  <2>1. commands' \in 0..MaxCommands
    BY <1>1
  <2>2. QED
    BY <1>1, <1>2, <2>1 DEF IInv, Typed
<1>4. IdsAreUnique'
  <2>1. \A q \in Process : Seeding(q) => cli[q].id \in 1..commands
    BY <1>1 DEF IInv, Typed, IdsAreUnique, IdsGiven, Seeding, SeedCommand, UpdateCommand
  <2>2. \A u \in users : u.id \in 1..commands
    BY DEF IInv, Typed, Row, IdsAreUnique, IdsGiven
  <2>3. commands \in Nat
    BY DEF IInv, Typed
  <2>4. \A q \in Process : Seeding(q)' => q = p \/ (Seeding(q) /\ cli'[q] = cli[q])
    BY <1>1 DEF Seeding
  <2>5. cli'[p] = seed
    BY <1>1
  <2> HIDE DEF seed
  <2>6. RowsApart' /\ IdsGiven'
    BY <1>1, <1>2, <2>1, <2>2, <2>3, <2>4, <2>5 DEF IInv, IdsAreUnique, RowsApart, IdsGiven
  <2>7. SeedsApart'
    BY <1>1, <1>2, <2>1, <2>2, <2>3, <2>4, <2>5 DEF IInv, IdsAreUnique, SeedsApart
  <2>8. QED
    BY <2>6, <2>7 DEF IdsAreUnique
<1>5. UpdatesAreInformed'
  <2>1. \A q \in Process : Updating(q)' => Updating(q) /\ cli'[q] = cli[q]
    BY <1>1, <1>2 DEF Updating
  <2>2. QED
    BY <1>1, <2>1 DEF IInv, UpdatesAreInformed, RowIsThere, RowIsTrue, OthersRemain,
                      Reduces, HasOtherActiveAdmin
<1>6. QED
  BY <1>3, <1>4, <1>5 DEF IInv

LEMMA CommitSeedKeeps == ASSUME IInv, NEW p \in Process, CommitSeed(p) PROVE IInv'
<1> DEFINE new == [id |-> cli[p].id, email |-> cli[p].email, role |-> "admin", active |-> TRUE]
<1>1. /\ commands' = commands
      /\ users' \in {users, users \cup {new}}
      /\ cli' = [cli EXCEPT ![p] = None]
      /\ Seeding(p)
      /\ cli \in [Process -> {None} \cup SeedCommand \cup UpdateCommand]
  BY DEF CommitSeed, IInv, Typed, Seeding
<1>2. cli[p] \in SeedCommand
  BY <1>1 DEF Seeding, SeedCommand, UpdateCommand
<1>3. /\ new \in Row /\ new.id = cli[p].id /\ new.id <= commands
      /\ \A u \in users : u.id # new.id
      /\ \A q \in Process : Seeding(q) /\ cli[q].id = new.id => q = p
  BY <1>1, <1>2 DEF SeedCommand, Row, Role, IInv, IdsAreUnique, IdsGiven, SeedsApart
<1> HIDE DEF new
<1>4. \A q \in Process : (Seeding(q)' \/ Updating(q)') => q # p /\ cli'[q] = cli[q]
  BY <1>1 DEF Seeding, Updating
<1>5. Typed'
  BY <1>1, <1>3 DEF IInv, Typed
<1>6. IdsAreUnique'
  <2>1. RowsApart'
    BY <1>1, <1>3 DEF IInv, IdsAreUnique, RowsApart
  <2>2. IdsGiven' /\ SeedsApart'
    BY <1>1, <1>3, <1>4 DEF IInv, IdsAreUnique, IdsGiven, SeedsApart, Seeding
  <2>3. QED
    BY <2>1, <2>2 DEF IdsAreUnique
<1>7. UpdatesAreInformed'
  <2>1. CASE users' = users
    BY <1>1, <1>4, <2>1 DEF IInv, UpdatesAreInformed, Updating, RowIsThere, RowIsTrue,
                            OthersRemain, Reduces, HasOtherActiveAdmin
  <2>2. CASE users' = users \cup {new}
    BY <1>1, <1>3, <1>4, <2>2, AddedRow DEF UpdatesAreInformed, Updating
  <2>3. QED
    BY <1>1, <2>1, <2>2
<1>8. QED
  BY <1>5, <1>6, <1>7 DEF IInv

-----------------------------------------------------------------------------
\* An update: read, guard, commit

\* The rows stay as they are and one process moves on with its update.
LEMMA OnlyTheProcessMoves ==
    ASSUME IInv, NEW p \in Process, NEW to,
           users' = users, commands' \in 0..MaxCommands, commands' >= commands,
           cli' = [cli EXCEPT ![p] = to],
           to \in {None} \cup UpdateCommand
    PROVE  Typed' /\ IdsAreUnique'
<1>1. cli \in [Process -> {None} \cup SeedCommand \cup UpdateCommand] /\ commands \in 0..MaxCommands
  BY DEF IInv, Typed
<1>2. Typed'
  BY <1>1 DEF IInv, Typed
<1>3. \A q \in Process : Seeding(q)' => Seeding(q) /\ cli'[q] = cli[q]
  BY <1>1 DEF Seeding, UpdateCommand
<1>4. RowsApart'
  BY DEF IInv, IdsAreUnique, RowsApart
<1>5. \A u \in users : u.id \in Nat
  BY DEF IInv, Typed, Row
<1>6. \A q \in Process : Seeding(q) => cli[q].id \in Nat
  BY <1>1 DEF Seeding, SeedCommand, UpdateCommand
<1>7. IdsGiven'
  BY <1>1, <1>3, <1>5, <1>6 DEF IInv, IdsAreUnique, IdsGiven
<1>8. SeedsApart'
  BY <1>3 DEF IInv, IdsAreUnique, SeedsApart
<1>9. QED
  BY <1>2, <1>4, <1>7, <1>8 DEF IdsAreUnique

LEMMA ResolveKeeps ==
    ASSUME IInv, NEW p \in Process, NEW u \in users, NEW patch \in Patch, Resolve(p, u, patch)
    PROVE  IInv'
<1> DEFINE to == [kind |-> "update", phase |-> "resolved", row |-> u, patch |-> patch,
                  touched |-> FALSE]
<1>1. /\ commands' = commands + 1 /\ commands \in 0..MaxCommands /\ commands < MaxCommands
      /\ users' = users
      /\ cli' = [cli EXCEPT ![p] = to]
      /\ cli \in [Process -> {None} \cup SeedCommand \cup UpdateCommand]
  BY DEF Resolve, Idle, IInv, Typed
<1>2. commands' \in 0..MaxCommands /\ commands' >= commands
  BY <1>1, AccountsAssumption DEF AccountsAssumption
<1>3. to \in UpdateCommand /\ to.phase = "resolved" /\ to.row = u
  BY DEF UpdateCommand, IInv, Typed
<1> HIDE DEF to
<1>4. Typed' /\ IdsAreUnique'
  BY <1>1, <1>2, <1>3, OnlyTheProcessMoves
<1>5. UpdatesAreInformed'
  <2>1. ASSUME NEW q \in Process, q # p, Updating(q)'
        PROVE  RowIsThere(q)' /\ (~cli'[q].touched => RowIsTrue(q)' /\ OthersRemain(q)')
    <3>1. Updating(q) /\ cli'[q] = cli[q]
      BY <1>1, <2>1 DEF Updating
    <3>2. QED
      BY <1>1, <3>1 DEF IInv, UpdatesAreInformed, RowIsThere, RowIsTrue, OthersRemain,
                        Reduces, HasOtherActiveAdmin
  <2>2. cli'[p] = to
    BY <1>1
  <2>3. RowIsThere(p)' /\ RowIsTrue(p)'
    BY <1>1, <1>3, <2>2 DEF IInv, IdsAreUnique, RowsApart, RowIsThere, RowIsTrue
  <2>4. OthersRemain(p)'
    BY <1>3, <2>2 DEF OthersRemain
  <2>5. QED
    BY <2>1, <2>3, <2>4 DEF UpdatesAreInformed
<1>6. QED
  BY <1>4, <1>5 DEF IInv

\* What lets an update that reduces the admins pass is what OthersRemain says.
LEMMA GuardKeeps == ASSUME IInv, NEW p \in Process, Guard(p) PROVE IInv'
<1> DEFINE allowed == [cli[p] EXCEPT !.phase = "allowed"]
           refused == Reduces(p) /\ ~HasOtherActiveAdmin(cli[p].row.id)
<1>1. /\ users' = users /\ commands' = commands
      /\ cli' = [cli EXCEPT ![p] = IF refused THEN None ELSE allowed]
      /\ Updating(p) /\ cli[p].phase = "resolved"
      /\ cli \in [Process -> {None} \cup SeedCommand \cup UpdateCommand]
      /\ commands \in 0..MaxCommands
  BY DEF Guard, Reduces, Updating, IInv, Typed
<1>2. cli[p] \in UpdateCommand
  BY <1>1 DEF Updating, SeedCommand, UpdateCommand
<1>3. /\ allowed \in UpdateCommand
      /\ allowed.row = cli[p].row /\ allowed.patch = cli[p].patch
      /\ allowed.touched = cli[p].touched
  BY <1>2 DEF UpdateCommand
<1> HIDE DEF allowed
<1>4. Typed' /\ IdsAreUnique'
  <2> DEFINE to == IF refused THEN None ELSE allowed
  <2>1. to \in {None} \cup UpdateCommand
    BY <1>3
  <2>2. commands' \in 0..MaxCommands /\ commands' >= commands /\ cli' = [cli EXCEPT ![p] = to]
    BY <1>1
  <2> HIDE DEF to
  <2>3. QED
    BY <1>1, <2>1, <2>2, OnlyTheProcessMoves
<1>5. UpdatesAreInformed'
  <2>1. ASSUME NEW q \in Process, q # p, Updating(q)'
        PROVE  RowIsThere(q)' /\ (~cli'[q].touched => RowIsTrue(q)' /\ OthersRemain(q)')
    <3>1. Updating(q) /\ cli'[q] = cli[q]
      BY <1>1, <2>1 DEF Updating
    <3>2. QED
      BY <1>1, <3>1 DEF IInv, UpdatesAreInformed, RowIsThere, RowIsTrue, OthersRemain,
                        Reduces, HasOtherActiveAdmin
  <2>2. ASSUME Updating(p)'
        PROVE  RowIsThere(p)' /\ (~cli'[p].touched => RowIsTrue(p)' /\ OthersRemain(p)')
    <3>1. ~refused /\ cli'[p] = allowed
      BY <1>1, <2>2 DEF Updating
    <3>2. RowIsThere(p) /\ (~cli[p].touched => RowIsTrue(p))
      BY <1>1 DEF IInv, UpdatesAreInformed
    <3>3. RowIsThere(p)' /\ (~cli'[p].touched => RowIsTrue(p)')
      BY <1>1, <1>3, <3>1, <3>2 DEF RowIsThere, RowIsTrue
    <3>4. OthersRemain(p)'
      BY <1>1, <1>3, <3>1 DEF OthersRemain, Reduces, HasOtherActiveAdmin
    <3>5. QED
      BY <3>3, <3>4
  <2>3. QED
    BY <2>1, <2>2 DEF UpdatesAreInformed
<1>6. QED
  BY <1>4, <1>5 DEF IInv

\* The commit of an update replaces one row by one with its id, or fails.
Now(p) == CHOOSE u \in users : u.id = cli[p].row.id
New(p) == Merge(Now(p), cli[p].row, cli[p].patch)
Moves(p) == users' # users /\ (IsActiveAdmin(Now(p)) # IsActiveAdmin(New(p)))

LEMMA CommittedRow ==
    ASSUME IInv, NEW p \in Process, CommitUpdate(p)
    PROVE  /\ Updating(p) /\ cli[p].phase = "allowed" /\ cli[p] \in UpdateCommand
           /\ Now(p) \in users /\ Now(p).id = cli[p].row.id
           /\ New(p) \in Row /\ New(p).id = Now(p).id
<1>1. /\ Updating(p) /\ cli[p].phase = "allowed"
      /\ cli \in [Process -> {None} \cup SeedCommand \cup UpdateCommand]
  BY DEF CommitUpdate, Updating, IInv, Typed
<1>2. cli[p] \in UpdateCommand
  BY <1>1 DEF Updating, SeedCommand, UpdateCommand
<1>3. Now(p) \in users /\ Now(p).id = cli[p].row.id
  BY <1>1 DEF IInv, UpdatesAreInformed, RowIsThere, Now
<1>4. Now(p) \in Row
  BY <1>3 DEF IInv, Typed
<1>5. New(p) \in Row /\ New(p).id = Now(p).id
  BY <1>2, <1>4 DEF New, Merge, Column, Row, Role, Patch, UpdateCommand
<1>6. QED
  BY <1>1, <1>2, <1>3, <1>5

LEMMA CommitStep ==
    ASSUME IInv, NEW p \in Process, CommitUpdate(p)
    PROVE  /\ commands' = commands
           /\ users' \in {users, (users \ {Now(p)}) \cup {New(p)}}
           /\ cli'[p] = None
           /\ cli' \in [Process -> {None} \cup SeedCommand \cup UpdateCommand]
           /\ \A q \in Process : Seeding(q)' => Seeding(q) /\ cli'[q] = cli[q]
           /\ \A q \in Process : Updating(q)' =>
                 /\ Updating(q)
                 /\ cli'[q].row = cli[q].row /\ cli'[q].patch = cli[q].patch
                 /\ cli'[q].phase = cli[q].phase
                 /\ ~cli'[q].touched => ~cli[q].touched /\ ~Moves(p)
           /\ Moves(p) /\ cli[p].touched => raced'
<1> DEFINE taken == \E u \in users : u.email = New(p).email /\ u.id # New(p).id
           moved == ~taken /\ (IsActiveAdmin(Now(p)) # IsActiveAdmin(New(p)))
<1>1. /\ commands' = commands
      /\ users' = IF taken THEN users ELSE (users \ {Now(p)}) \cup {New(p)}
      /\ cli' = [q \in Process |->
                    IF q = p THEN None
                    ELSE IF moved /\ cli[q] # None /\ cli[q].kind = "update"
                    THEN [cli[q] EXCEPT !.touched = TRUE]
                    ELSE cli[q]]
      /\ raced' = (moved /\ cli[p].touched)
  BY DEF CommitUpdate, Now, New
<1>2. cli \in [Process -> {None} \cup SeedCommand \cup UpdateCommand]
  BY DEF IInv, Typed
<1>3. Moves(p) => moved
  BY <1>1 DEF Moves
<1> HIDE DEF taken, moved
<1>4. cli'[p] = None
  BY <1>1
<1>5. ASSUME NEW q \in Process, q # p, moved, Updating(q)
      PROVE  /\ cli'[q] \in UpdateCommand
             /\ cli'[q].row = cli[q].row /\ cli'[q].patch = cli[q].patch
             /\ cli'[q].phase = cli[q].phase /\ cli'[q].touched
  <2>1. cli[q] \in UpdateCommand
    BY <1>2, <1>5 DEF Updating, SeedCommand, UpdateCommand
  <2>2. cli'[q] = [cli[q] EXCEPT !.touched = TRUE]
    BY <1>1, <1>5 DEF Updating
  <2>3. QED
    BY <2>1, <2>2 DEF UpdateCommand
<1>6. ASSUME NEW q \in Process, q # p, ~(moved /\ Updating(q))
      PROVE  cli'[q] = cli[q]
  BY <1>1, <1>6 DEF Updating
<1>7. cli' \in [Process -> {None} \cup SeedCommand \cup UpdateCommand]
  <2>1. cli' = [q \in Process |-> cli'[q]]
    BY <1>1
  <2>2. QED
    BY <1>2, <1>4, <1>5, <1>6, <2>1
<1>8. ASSUME NEW q \in Process, Seeding(q)'
      PROVE  Seeding(q) /\ cli'[q] = cli[q]
  BY <1>4, <1>5, <1>6, <1>8 DEF Seeding, UpdateCommand
<1>9. ASSUME NEW q \in Process, Updating(q)'
      PROVE  /\ Updating(q)
             /\ cli'[q].row = cli[q].row /\ cli'[q].patch = cli[q].patch
             /\ cli'[q].phase = cli[q].phase
             /\ ~cli'[q].touched => ~cli[q].touched /\ ~Moves(p)
  <2>1. q # p
    BY <1>4, <1>9 DEF Updating
  <2>2. CASE moved /\ Updating(q)
    BY <1>5, <2>1, <2>2
  <2>3. CASE ~(moved /\ Updating(q))
    BY <1>3, <1>6, <1>9, <2>1, <2>3 DEF Updating
  <2>4. QED
    BY <2>2, <2>3
<1>10. Moves(p) /\ cli[p].touched => raced'
  BY <1>1, <1>3
<1>11. QED
  BY <1>1, <1>4, <1>7, <1>8, <1>9, <1>10

LEMMA CommitUpdateKeeps == ASSUME IInv, NEW p \in Process, CommitUpdate(p) PROVE IInv'
<1> DEFINE now == Now(p)
           new == New(p)
<1>1. /\ now \in users /\ new \in Row /\ new.id = now.id
      /\ users' \in {users, (users \ {now}) \cup {new}}
      /\ commands' = commands
  BY CommittedRow, CommitStep
<1>2. Typed'
  BY <1>1, CommitStep DEF IInv, Typed
<1>3. IdsAreUnique'
  <2>1. RowsApart'
    BY <1>1 DEF IInv, IdsAreUnique, RowsApart
  <2>2. \A u \in users' : \E w \in users : u.id = w.id
    BY <1>1
  <2>3. IdsGiven' /\ SeedsApart'
    BY <1>1, <2>2, CommitStep DEF IInv, IdsAreUnique, IdsGiven, SeedsApart
  <2>4. QED
    BY <2>1, <2>3 DEF IdsAreUnique
<1>4. ASSUME NEW q \in Process, Updating(q)'
      PROVE  RowIsThere(q)' /\ (~cli'[q].touched => RowIsTrue(q)' /\ OthersRemain(q)')
  <2>1. /\ Updating(q)
        /\ cli'[q].row = cli[q].row /\ cli'[q].patch = cli[q].patch
        /\ cli'[q].phase = cli[q].phase
        /\ ~cli'[q].touched => ~cli[q].touched /\ ~Moves(p)
    BY <1>4, CommitStep
  <2>2. RowIsThere(q) /\ (~cli[q].touched => RowIsTrue(q) /\ OthersRemain(q))
    BY <2>1 DEF IInv, UpdatesAreInformed
  <2>3. RowIsThere(q)'
    BY <1>1, <2>1, <2>2 DEF RowIsThere
  <2>4. ASSUME ~Moves(p), users' # users
        PROVE  IsActiveAdmin(now) <=> IsActiveAdmin(new)
    BY <2>4 DEF Moves, IsActiveAdmin
  <2> HIDE DEF now, new
  <2>5. ASSUME ~Moves(p), RowIsTrue(q)
        PROVE  RowIsTrue(q)'
    BY <1>1, <2>1, <2>4, <2>5 DEF RowIsTrue, IsActiveAdmin
  <2>6. ASSUME ~Moves(p), HasOtherActiveAdmin(cli[q].row.id)
        PROVE  HasOtherActiveAdmin(cli[q].row.id)'
    <3>1. PICK u \in users : IsActiveAdmin(u) /\ u.id # cli[q].row.id
      BY <2>6 DEF HasOtherActiveAdmin
    <3>2. CASE u \in users'
      BY <2>1, <3>1, <3>2 DEF HasOtherActiveAdmin
    <3>3. CASE u \notin users'
      <4>1. u = now /\ new \in users' /\ users' # users
        BY <1>1, <3>1, <3>3
      <4>2. QED
        BY <1>1, <2>1, <2>4, <2>6, <3>1, <4>1 DEF HasOtherActiveAdmin
    <3>4. QED
      BY <3>2, <3>3
  <2>7. ASSUME ~Moves(p), OthersRemain(q)
        PROVE  OthersRemain(q)'
    BY <2>1, <2>6, <2>7 DEF OthersRemain, Reduces, HasOtherActiveAdmin
  <2>8. QED
    BY <2>1, <2>2, <2>3, <2>5, <2>7
<1>5. UpdatesAreInformed'
  BY <1>4 DEF UpdatesAreInformed
<1>6. QED
  BY <1>2, <1>3, <1>5 DEF IInv

-----------------------------------------------------------------------------
\* Requests write no row and run no command.
LEMMA RequestsKeep == ASSUME IInv, UNCHANGED <<users, commands, cli>> PROVE IInv'
BY DEF IInv, Typed, IdsAreUnique, RowsApart, IdsGiven, SeedsApart, UpdatesAreInformed, Seeding,
       Updating, RowIsThere, RowIsTrue, OthersRemain, Reduces, HasOtherActiveAdmin

LEMMA NextKeeps == IInv /\ [Next]_vars => IInv'
<1>1. SUFFICES ASSUME IInv, [Next]_vars PROVE IInv'
  OBVIOUS
<1>2. CASE UNCHANGED vars
  BY <1>1, <1>2, RequestsKeep DEF vars
<1>3. CASE \E u \in users : Login(u)
  BY <1>1, <1>3, RequestsKeep DEF Login
<1>4. CASE \E token \in tokens : Refresh(token) \/ Expire(token) \/ AdminRequest(token)
  BY <1>1, <1>4, RequestsKeep DEF Refresh, Expire, AdminRequest
<1>5. ASSUME NEW p \in Process,
             \/ \E email \in Email : (\E role \in Role : Create(p, email, role)) \/ ReadSeed(p, email)
             \/ CommitSeed(p)
             \/ \E u \in users, patch \in Patch : Resolve(p, u, patch)
             \/ Guard(p) \/ CommitUpdate(p)
      PROVE  IInv'
  BY <1>1, <1>5, CreateKeeps, ReadSeedKeeps, CommitSeedKeeps, ResolveKeeps, GuardKeeps,
     CommitUpdateKeeps
<1>6. QED
  BY <1>1, <1>2, <1>3, <1>4, <1>5 DEF Next

\* Every reachable state satisfies the inductive invariant.
THEOREM Inductive == Spec => []IInv
BY InitInvariant, NextKeeps, PTL DEF Spec

-----------------------------------------------------------------------------
\* The step that could lose the last active admin

\* An update that was not overlapped and takes away an active admin's rights has
\* passed the guard: another active admin is there.
LEMMA UpdateLeavesAnAdmin ==
    ASSUME IInv, NEW p \in Process, CommitUpdate(p), ActiveAdmins # {}
    PROVE  ActiveAdmins' # {} \/ raced'
<1> DEFINE now == Now(p)
           new == New(p)
<1>1. /\ Updating(p) /\ cli[p].phase = "allowed" /\ cli[p] \in UpdateCommand
      /\ now \in users /\ now.id = cli[p].row.id /\ new.id = now.id
      /\ users' \in {users, (users \ {now}) \cup {new}}
      /\ Moves(p) /\ cli[p].touched => raced'
  BY CommittedRow, CommitStep
<1>2. CASE users' = users \/ ~IsActiveAdmin(now) \/ IsActiveAdmin(new)
  <2>1. PICK u \in users : IsActiveAdmin(u)
    BY DEF ActiveAdmins
  <2>2. CASE u \in users'
    BY <2>1, <2>2 DEF ActiveAdmins, IsActiveAdmin
  <2>3. CASE u \notin users'
    <3>1. u = now /\ new \in users' /\ IsActiveAdmin(new)
      BY <1>1, <1>2, <2>1, <2>3
    <3>2. QED
      BY <3>1 DEF ActiveAdmins, IsActiveAdmin
  <2>4. QED
    BY <2>2, <2>3
<1>3. CASE users' # users /\ IsActiveAdmin(now) /\ ~IsActiveAdmin(new)
  <2>1. Moves(p)
    BY <1>3 DEF Moves
  <2>2. CASE cli[p].touched
    BY <1>1, <2>1, <2>2
  <2>3. CASE ~cli[p].touched
    <3>1. RowIsTrue(p) /\ OthersRemain(p)
      BY <1>1, <2>3 DEF IInv, UpdatesAreInformed
    <3>2. IsActiveAdmin(cli[p].row)
      BY <1>1, <1>3, <3>1 DEF RowIsTrue
    <3>3. Reduces(p)
      BY <1>1, <1>3, <3>2
         DEF Reduces, WouldDemote, WouldDeactivate, IsActiveAdmin, New, Merge, Column,
             UpdateCommand, Patch, Row, IInv, Typed
    <3>4. PICK u \in users : IsActiveAdmin(u) /\ u.id # now.id
      BY <1>1, <3>1, <3>3 DEF OthersRemain, HasOtherActiveAdmin
    <3>5. u \in users'
      BY <1>1, <3>4
    <3>6. QED
      BY <3>4, <3>5 DEF ActiveAdmins, IsActiveAdmin
  <2>4. QED
    BY <2>2, <2>3
<1>4. QED
  BY <1>2, <1>3

\* The lockout guard of cmd_update holds whatever the number of accounts,
\* commands and processes: without an overlapping update, a panel that has an
\* active admin keeps one.
THEOREM LastAdminStays == Spec => AdminStays
<1>1. IInv /\ [Next]_vars => [ActiveAdmins # {} => ActiveAdmins' # {} \/ raced']_vars
  <2>1. SUFFICES ASSUME IInv, Next, ActiveAdmins # {}
                 PROVE  ActiveAdmins' # {} \/ raced'
    BY DEF vars
  <2>2. CASE users \subseteq users'
    BY <2>1, <2>2 DEF ActiveAdmins, IsActiveAdmin
  <2>3. CASE ~(users \subseteq users')
    <3>1. PICK p \in Process : CommitUpdate(p)
      BY <2>1, <2>3 DEF Next, Create, Insert, ReadSeed, CommitSeed, Resolve, Guard, Login,
                        Refresh, Expire, AdminRequest
    <3>2. QED
      BY <2>1, <3>1, UpdateLeavesAnAdmin
  <2>4. QED
    BY <2>2, <2>3
<1>2. QED
  BY Inductive, <1>1, PTL DEF Spec, AdminStays

-----------------------------------------------------------------------------
\* A request is admitted on the row, not on the token, and the row is read in
\* the step: require_admin lets nobody in who is not an active admin then,
\* however old the token is and whatever role it was issued for.  Ids are not
\* used twice, however creations and seeds interleave, so that the account is
\* the one the token was issued for.
THEOREM AdminsAdmitted == Spec => OnlyAdminsAdmitted
<1>1. ASSUME IInv, NEW token \in tokens, AdminRequest(token)
      PROVE  \E u \in ActiveAdmins : {w \in users : w.id = token.sub} = {u}
  <2>1. PICK u \in ActiveAdmins : u.id = token.sub
    BY <1>1 DEF AdminRequest, RequireAdmin, CurrentUser, ActiveAdmins, IsActiveAdmin
  <2>2. u \in users /\ \A w \in users : w.id = u.id => w = u
    BY <1>1, <2>1 DEF IInv, IdsAreUnique, RowsApart, ActiveAdmins
  <2>3. QED
    BY <2>1, <2>2
<1>2. IInv /\ [Next]_vars =>
        [\A token \in tokens : AdminRequest(token) =>
            \E u \in ActiveAdmins : {w \in users : w.id = token.sub} = {u}]_vars
  BY <1>1
<1>3. QED
  BY Inductive, <1>2, PTL DEF Spec, OnlyAdminsAdmitted
=============================================================================
