----------------------------- MODULE BanList_proofs -----------------------------
(***************************************************************************)
(* An undisturbed unban holds and a reload keeps the bans, for any number  *)
(* of vhosts, addresses and overlapping unbans, whatever the windows and   *)
(* timeouts are.                                                           *)
(***************************************************************************)
EXTENDS BanList, TLAPS

-----------------------------------------------------------------------------
\* The inductive invariant.  Entries of a worker are entries of its tables, and
\* an unban that nothing disturbed has every table in view: whatever is still
\* banned of its address is in a table it has yet to clear.

Entries == Vhost \X Ip

Unban == [ip : Ip, all : SUBSET Vhost, left : SUBSET Vhost, cleared : Int,
          failures : Int, disturbed : BOOLEAN]

Shape ==
    /\ autoban \subseteq Vhost /\ tables \subseteq Vhost
    /\ banned \subseteq tables \X Ip
    /\ teaching \subseteq tables \X Ip
    /\ unban \in [Client -> {None} \cup Unban]
    /\ reload # None => reload.next \subseteq Vhost

\* An unban that nothing disturbed: all tables of the worker are in reach.
InView(u) ==
    /\ answers
    /\ teaching = {}
    /\ \A b \in banned : b[2] = u.ip => b[1] \in u.left

UndisturbedInView ==
    \A c \in Client : unban[c] # None /\ ~unban[c].disturbed => InView(unban[c])

PardonedAreFree == \A b \in banned \cup teaching : b[2] \notin pardoned

IInv == Shape /\ UndisturbedInView /\ PardonedAreFree

-----------------------------------------------------------------------------
LEMMA InitInvariant == Init => IInv
BY DEF Init, IInv, Shape, UndisturbedInView, PardonedAreFree

\* Whatever disturbs the unbans of some addresses leaves an unban undisturbed
\* only if it is of another address and is as it was.
LEMMA DisturbMarks ==
    ASSUME NEW ips, Shape, Disturb(ips)
    PROVE  /\ unban' \in [Client -> {None} \cup Unban]
           /\ \A c \in Client : unban'[c] # None /\ ~unban'[c].disturbed
                 => /\ unban[c] # None /\ ~unban[c].disturbed
                    /\ unban'[c] = unban[c] /\ unban[c].ip \notin ips
<1>1. ASSUME NEW c \in Client, unban[c] = None
      PROVE  unban'[c] = None
  BY <1>1 DEF Disturb
<1>2. ASSUME NEW c \in Client, unban[c] # None, unban[c].ip \in ips
      PROVE  /\ unban'[c] = [unban[c] EXCEPT !.disturbed = TRUE]
             /\ unban'[c].disturbed
  BY <1>2 DEF Disturb, Shape, Unban
<1>3. ASSUME NEW c \in Client, unban[c] # None, unban[c].ip \notin ips
      PROVE  unban'[c] = unban[c]
  BY <1>3 DEF Disturb
<1>4. unban' \in [Client -> {None} \cup Unban]
  <2>1. unban' = [c \in Client |-> unban'[c]]
    BY DEF Disturb
  <2>2. ASSUME NEW u \in Unban
        PROVE  [u EXCEPT !.disturbed = TRUE] \in Unban
    BY DEF Unban
  <2>3. QED
    BY <1>1, <1>2, <1>3, <2>1, <2>2 DEF Shape
<1>5. QED
  BY <1>1, <1>2, <1>3, <1>4

-----------------------------------------------------------------------------
\* Traffic, edits, time

LEMMA OffendKeeps == ASSUME IInv, NEW v \in Vhost, NEW ip \in Ip, Offend(v, ip) PROVE IInv'
<1>1. Shape'
  BY DisturbMarks DEF IInv, Shape, Offend
<1>2. UndisturbedInView'
  <2>1. SUFFICES ASSUME NEW c \in Client, unban'[c] # None, ~unban'[c].disturbed
                 PROVE  InView(unban[c])' /\ unban'[c] = unban[c]
    BY DEF UndisturbedInView, InView
  <2>2. /\ unban[c] # None /\ ~unban[c].disturbed
        /\ unban'[c] = unban[c] /\ unban[c].ip # ip
    BY <2>1, DisturbMarks DEF IInv, Offend
  <2>3. QED
    BY <2>2 DEF IInv, UndisturbedInView, InView, Offend
<1>3. PardonedAreFree'
  BY DEF IInv, PardonedAreFree, Offend
<1>4. QED
  BY <1>1, <1>2, <1>3 DEF IInv

LEMMA EditKeeps == ASSUME IInv, NEW v \in Vhost, Edit(v) PROVE IInv'
<1>1. Shape'
  BY DisturbMarks DEF IInv, Shape, Edit, worker
<1>2. UndisturbedInView'
  BY <1>1, DisturbMarks DEF IInv, Shape, Unban, UndisturbedInView, Edit
<1>3. PardonedAreFree'
  BY DEF IInv, PardonedAreFree, Edit, worker
<1>4. QED
  BY <1>1, <1>2, <1>3 DEF IInv

LEMMA OutageKeeps == ASSUME IInv, Outage PROVE IInv'
<1>1. Shape'
  BY DisturbMarks DEF IInv, Shape, Outage, worker
<1>2. UndisturbedInView'
  BY <1>1, DisturbMarks DEF IInv, Shape, Unban, UndisturbedInView, Outage
<1>3. PardonedAreFree'
  BY DEF IInv, PardonedAreFree, Outage, worker
<1>4. QED
  BY <1>1, <1>2, <1>3 DEF IInv

LEMMA TickKeeps == ASSUME IInv, Tick PROVE IInv'
<1>1. reload' # None => reload # None /\ reload'.next = reload.next
  BY DEF Tick
<1>2. Shape'
  BY <1>1 DEF IInv, Shape, Tick
<1>3. UndisturbedInView' /\ PardonedAreFree'
  BY DEF IInv, UndisturbedInView, InView, PardonedAreFree, Tick
<1>4. QED
  BY <1>2, <1>3 DEF IInv

-----------------------------------------------------------------------------
\* Reload: every unban that is under way is disturbed; what is handed over was
\* banned before.

LEMMA StartReloadKeeps ==
    ASSUME IInv, NEW next \in {autoban, tables}, StartReload(next) PROVE IInv'
<1>1. Shape'
  BY DEF IInv, Shape, StartReload, worker
<1>2. UndisturbedInView' /\ PardonedAreFree'
  BY DEF IInv, UndisturbedInView, InView, PardonedAreFree, StartReload, worker
<1>3. QED
  BY <1>1, <1>2 DEF IInv

LEMMA ReloadKeeps == ASSUME IInv, Reload PROVE IInv'
<1>1. teaching' \subseteq banned /\ teaching' \subseteq tables' \X Ip
  BY DEF IInv, Shape, Reload
<1>2. Shape'
  BY <1>1, DisturbMarks DEF IInv, Shape, Reload
<1>3. UndisturbedInView'
  BY <1>2, DisturbMarks DEF IInv, Shape, Unban, UndisturbedInView, Reload
<1>4. PardonedAreFree'
  BY <1>1 DEF IInv, PardonedAreFree, Reload
<1>5. QED
  BY <1>2, <1>3, <1>4 DEF IInv

LEMMA ReloadFailsKeeps == ASSUME IInv, ReloadFails PROVE IInv'
<1>1. Shape'
  BY DEF IInv, Shape, ReloadFails, worker
<1>2. UndisturbedInView' /\ PardonedAreFree'
  BY DEF IInv, UndisturbedInView, InView, PardonedAreFree, ReloadFails, worker
<1>3. QED
  BY <1>1, <1>2 DEF IInv

\* An unban in view has seen no teaching: nothing comes back under it.
LEMMA TaughtKeeps == ASSUME IInv, Taught PROVE IInv'
<1>1. Shape'
  BY DEF IInv, Shape, Taught
<1>2. UndisturbedInView' /\ PardonedAreFree'
  BY DEF IInv, UndisturbedInView, InView, PardonedAreFree, Taught
<1>3. QED
  BY <1>1, <1>2 DEF IInv

-----------------------------------------------------------------------------
\* Unban

LEMMA StartUnbanKeeps ==
    ASSUME IInv, NEW c \in Client, NEW ip \in Ip, StartUnban(c, ip) PROVE IInv'
<1> DEFINE u == [ip |-> ip, all |-> autoban, left |-> autoban, cleared |-> 0, failures |-> 0,
                 disturbed |-> ~answers \/ autoban # tables \/ teaching # {}]
<1>1. /\ unban' = [unban EXCEPT ![c] = u]
      /\ UNCHANGED <<autoban, tables, banned, resync, teaching, reload, answers, pardoned>>
  BY DEF StartUnban, worker
<1>2. u \in Unban
  BY DEF IInv, Shape, Unban
<1>3. Shape'
  BY <1>1, <1>2 DEF IInv, Shape
<1>4. ~u.disturbed => InView(u)
  BY DEF IInv, Shape, InView
<1>5. UndisturbedInView'
  BY <1>1, <1>2, <1>4 DEF IInv, Shape, UndisturbedInView, InView
<1>6. PardonedAreFree'
  BY <1>1 DEF IInv, PardonedAreFree
<1>7. QED
  BY <1>3, <1>5, <1>6 DEF IInv

\* The entry of the table that is next goes; one in another table is still left.
LEMMA ClearNextKeeps == ASSUME IInv, NEW c \in Client, ClearNext(c) PROVE IInv'
<1> DEFINE v == Min(unban[c].left)
           ip == unban[c].ip
<1>1. /\ unban[c] # None
      /\ banned' = IF answers /\ v \in tables THEN banned \ {<<v, ip>>} ELSE banned
      /\ UNCHANGED <<autoban, tables, resync, teaching, reload, answers, pardoned>>
  BY DEF ClearNext
<1>2. PICK u \in Unban :
         /\ unban' = [unban EXCEPT ![c] = u]
         /\ u.ip = ip /\ u.left = unban[c].left \ {v} /\ u.disturbed = unban[c].disturbed
  <2>1. unban \in [Client -> {None} \cup Unban] /\ unban[c] \in Unban
    BY <1>1 DEF IInv, Shape
  <2>2. unban' = [unban EXCEPT
                     ![c].left = unban[c].left \ {v},
                     ![c].cleared = unban[c].cleared + IF answers /\ v \in tables THEN 1 ELSE 0,
                     ![c].failures = unban[c].failures + IF answers THEN 0 ELSE 1]
    BY DEF ClearNext
  <2> HIDE DEF v
  <2> DEFINE u == unban'[c]
  <2>3. unban' = [unban EXCEPT ![c] = u]
    BY <2>1, <2>2
  <2>4. u = [ip |-> ip, all |-> unban[c].all, left |-> unban[c].left \ {v},
             cleared |-> unban[c].cleared + IF answers /\ v \in tables THEN 1 ELSE 0,
             failures |-> unban[c].failures + IF answers THEN 0 ELSE 1,
             disturbed |-> unban[c].disturbed]
    BY <2>1, <2>2 DEF Unban
  <2>5. u \in Unban
    BY <2>1, <2>4 DEF Unban
  <2>6. QED
    BY <2>3, <2>4, <2>5
<1>3. banned' \subseteq banned
  BY <1>1
<1>4. Shape'
  BY <1>1, <1>2, <1>3 DEF IInv, Shape
<1>5. ASSUME ~u.disturbed
      PROVE  InView(u)'
  <2>1. InView(unban[c])
    BY <1>1, <1>2, <1>5 DEF IInv, UndisturbedInView
  <2>2. ASSUME NEW b \in banned', b[2] = u.ip
        PROVE  b[1] \in u.left
    <3>1. b \in banned /\ b[1] \in tables /\ b = <<b[1], b[2]>>
      BY <1>3, <2>2 DEF IInv, Shape
    <3>2. b[1] # v
      BY <1>1, <1>2, <2>1, <2>2, <3>1 DEF InView
    <3>3. QED
      BY <1>2, <2>1, <2>2, <3>1, <3>2 DEF InView
  <2>3. QED
    BY <1>1, <2>1, <2>2 DEF InView
<1>6. UndisturbedInView'
  <2>1. ASSUME NEW d \in Client, d # c, unban'[d] # None, ~unban'[d].disturbed
        PROVE  InView(unban[d])' /\ unban'[d] = unban[d]
    BY <1>1, <1>2, <1>3, <2>1 DEF IInv, Shape, UndisturbedInView, InView
  <2>2. unban'[c] = u
    BY <1>2 DEF IInv, Shape
  <2>3. QED
    BY <1>5, <2>1, <2>2 DEF UndisturbedInView, InView
<1>7. PardonedAreFree'
  BY <1>1, <1>3 DEF IInv, PardonedAreFree
<1>8. QED
  BY <1>4, <1>6, <1>7 DEF IInv

\* Nothing is left: the address is in no table and none is handed over.
LEMMA AnswerKeeps == ASSUME IInv, NEW c \in Client, Answer(c) PROVE IInv'
<1>1. /\ unban' = [unban EXCEPT ![c] = None]
      /\ UNCHANGED <<autoban, tables, banned, resync, teaching, reload, answers>>
  BY DEF Answer, worker
<1>2. Shape'
  BY <1>1 DEF IInv, Shape
<1>3. UndisturbedInView'
  BY <1>1 DEF IInv, Shape, UndisturbedInView, InView
<1>4. PardonedAreFree'
  <2>1. CASE unban[c].disturbed
    BY <1>1, <2>1 DEF Answer, IInv, PardonedAreFree
  <2>2. CASE ~unban[c].disturbed
    <3>1. InView(unban[c]) /\ unban[c].left = {}
      BY <2>2 DEF Answer, IInv, UndisturbedInView
    <3>2. pardoned' \subseteq pardoned \cup {unban[c].ip}
      BY DEF Answer
    <3>3. QED
      BY <1>1, <3>1, <3>2 DEF IInv, PardonedAreFree, InView
  <2>3. QED
    BY <2>1, <2>2
<1>5. QED
  BY <1>2, <1>3, <1>4 DEF IInv

-----------------------------------------------------------------------------
LEMMA NextKeeps == IInv /\ [Next]_vars => IInv'
<1>1. SUFFICES ASSUME IInv, [Next]_vars PROVE IInv'
  OBVIOUS
<1>2. CASE UNCHANGED vars
  BY <1>1, <1>2 DEF IInv, Shape, UndisturbedInView, InView, PardonedAreFree, vars
<1>3. CASE Next
  BY <1>1, <1>3, OffendKeeps, EditKeeps, OutageKeeps, TickKeeps, StartReloadKeeps, ReloadKeeps,
     ReloadFailsKeeps, TaughtKeeps, StartUnbanKeeps, ClearNextKeeps, AnswerKeeps DEF Next
<1>4. QED
  BY <1>1, <1>2, <1>3

\* Every reachable state satisfies the inductive invariant.
THEOREM Inductive == Spec => []IInv
BY InitInvariant, NextKeeps, PTL DEF Spec

\* After an unban that nothing disturbed (BanListService.unban), no vhost
\* denies the address until it offends again, for every number of vhosts,
\* tables, concurrent unbans and reloads.
THEOREM UndisturbedUnbanHolds == Spec => []UnbanHolds
<1>1. IInv => UnbanHolds
  BY DEF IInv, PardonedAreFree, UnbanHolds
<1>2. QED
  BY Inductive, <1>1, PTL

-----------------------------------------------------------------------------
\* Why the wait is long enough: it outlasts what is left of the resync window,
\* from its first second on.

Reloads == [left : 0..HandoverTimeout, next : SUBSET Vhost]

WaitOutlasts ==
    /\ resync \in 0..ResyncWindow
    /\ teaching # {} => resync > 0
    /\ reload \in {None} \cup Reloads
    /\ reload # None /\ resync > 0 => resync + (HandoverTimeout - ResyncWindow) <= reload.left

LEMMA InitWaitOutlasts == Init => WaitOutlasts
BY BanAssumption DEF BanAssumption, Init, WaitOutlasts

LEMMA TickOutlasts == ASSUME WaitOutlasts, Tick PROVE WaitOutlasts'
<1>1. /\ resync' = IF resync > 0 THEN resync - 1 ELSE 0
      /\ teaching' = teaching /\ (teaching # {} => resync > 1)
  BY DEF Tick
<1>2. resync' \in 0..ResyncWindow /\ (teaching' # {} => resync' > 0)
  BY <1>1, BanAssumption DEF BanAssumption, WaitOutlasts
<1>3. CASE reload = None
  <2>1. reload' = None
    BY <1>3 DEF Tick
  <2>2. QED
    BY <1>2, <2>1 DEF WaitOutlasts
<1>4. CASE reload # None
  <2>1. /\ reload \in Reloads /\ reload.left > 0
        /\ reload' = [reload EXCEPT !.left = @ - 1]
    BY <1>4 DEF Tick, WaitOutlasts
  <2>2. reload' \in Reloads /\ reload'.left = reload.left - 1
    BY <2>1, BanAssumption DEF BanAssumption, Reloads
  <2>3. resync' > 0 => resync' + (HandoverTimeout - ResyncWindow) <= reload'.left
    BY <1>1, <1>4, <2>1, <2>2, BanAssumption DEF BanAssumption, WaitOutlasts, Reloads
  <2>4. QED
    BY <1>2, <2>2, <2>3 DEF WaitOutlasts
<1>5. QED
  BY <1>3, <1>4

LEMMA StartReloadOutlasts ==
    ASSUME IInv, WaitOutlasts, NEW next \in {autoban, tables}, StartReload(next)
    PROVE  WaitOutlasts'
<1>1. /\ reload' = [left |-> HandoverTimeout, next |-> next]
      /\ resync' = resync /\ teaching' = teaching
  BY DEF StartReload, worker
<1>2. reload' \in Reloads /\ reload'.left = HandoverTimeout
  BY <1>1, BanAssumption DEF BanAssumption, Reloads, IInv, Shape
<1>3. QED
  BY <1>1, <1>2, BanAssumption DEF BanAssumption, WaitOutlasts

LEMMA WaitOutlastsKept == IInv /\ WaitOutlasts /\ [Next]_vars => WaitOutlasts'
<1>1. SUFFICES ASSUME IInv, WaitOutlasts, [Next]_vars PROVE WaitOutlasts'
  OBVIOUS
<1>2. CASE UNCHANGED <<resync, teaching, reload>>
  BY <1>1, <1>2 DEF WaitOutlasts
<1>3. CASE Tick
  BY <1>1, <1>3, TickOutlasts
<1>4. ASSUME NEW next \in {autoban, tables}, StartReload(next)
      PROVE  WaitOutlasts'
  BY <1>1, <1>4, StartReloadOutlasts
<1>5. CASE Reload
  BY <1>1, <1>5, BanAssumption DEF BanAssumption, Reload, WaitOutlasts
<1>6. CASE ReloadFails
  BY <1>1, <1>6 DEF ReloadFails, worker, WaitOutlasts
<1>7. CASE Taught
  BY <1>1, <1>7, BanAssumption DEF BanAssumption, Taught, WaitOutlasts
<1>8. CASE ~UNCHANGED <<resync, teaching, reload>>
  BY <1>1, <1>3, <1>4, <1>5, <1>6, <1>7, <1>8
     DEF Next, vars, Edit, Offend, Outage, StartUnban, ClearNext, Answer, worker
<1>9. QED
  BY <1>2, <1>8

\* A worker that reloads has tables to hand over only if its own resync is over.
LEMMA ReloadHandsOver ==
    ASSUME IInv, WaitOutlasts, Reload, answers
    PROVE  banned' \cup teaching' = {b \in banned \cup teaching : b[1] \in tables'}
<1>1. tables = {} \/ resync = 0
  BY BanAssumption DEF BanAssumption, Reload, MayReload, WaitOutlasts
<1>2. teaching = {} /\ (resync = 0 \/ banned = {})
  <2>1. CASE tables = {}
    BY <2>1 DEF IInv, Shape
  <2>2. CASE resync = 0
    BY <2>2 DEF WaitOutlasts
  <2>3. QED
    BY <1>1, <2>1, <2>2
<1>3. QED
  BY <1>2 DEF Reload

\* As long as the admin socket answers, a reload (_reload_haproxy) keeps every
\* ban of a table that stays: _wait_for_stick_table_handover waits for long
\* enough whenever it begins.
THEOREM ReloadKeepsBans == Spec => BansSurviveReload
<1>1. IInv /\ WaitOutlasts /\ [Next]_vars =>
        [Reload /\ answers =>
            banned' \cup teaching' = {b \in banned \cup teaching : b[1] \in tables'}]_vars
  BY ReloadHandsOver
<1>2. Spec => []WaitOutlasts
  BY Inductive, InitWaitOutlasts, WaitOutlastsKept, PTL DEF Spec
<1>3. QED
  BY Inductive, <1>1, <1>2, PTL DEF Spec, BansSurviveReload
=============================================================================
