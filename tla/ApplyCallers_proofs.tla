------------------------- MODULE ApplyCallers_proofs -------------------------
(***************************************************************************)
(* Two safety properties of the callers of apply(), for any number of      *)
(* requests and jobs and any contents of the tables: an apply undoes only  *)
(* its own switch, and the row called deployed is the release in service.  *)
(***************************************************************************)
EXTENDS ApplyCallers, TLAPS

-----------------------------------------------------------------------------
\* The inductive invariant.  The row describes `current` only where no apply is
\* in progress; in the middle of one it describes what that apply began from,
\* and after one that switched, what the request is about to record.

Typed ==
    /\ DOMAIN snap = Thread
    /\ pc \in [Thread -> {"idle", "asked", "vhosts", "rest", "wait", "apply", "done"}]
    /\ result \in [Request -> {"none", "success", "failed"}]
    /\ DOMAIN row = {"status", "config"}

\* The apply lock is held by the thread that applies.
ApplyIsExclusive ==
    /\ \A t \in Thread : pc[t] = "apply" <=> applyLock = t
    /\ applyLock \in Thread \cup {Nothing}

\* A request that has passed the router's lock still holds it.
Inside == {"vhosts", "rest", "wait", "apply", "done"}
RouterIsExclusive == \A q \in Request : pc[q] \in Inside => routerLock = q

\* Nothing runs in a backend that is down or starting.
IdleUntilUp == backend # "up" => \A t \in Thread : pc[t] = "idle"

ResultsAreAwaited == \A q \in Request : result[q] # "none" => pc[q] = "done"

\* What `current` named before the apply in progress, or names now.
Settled == IF applyLock = Nothing THEN active ELSE prev

NoneToRecord == \A q \in Request : result[q] = "none"

RowDescribes ==
    backend = "up" /\ ~missed =>
        /\ NoneToRecord /\ row.status = "success" => Settled = row.config
        /\ \A q \in Request : result[q] = "success" => Settled = snap[q]

IInv ==
    /\ Typed
    /\ ApplyIsExclusive
    /\ RouterIsExclusive
    /\ IdleUntilUp
    /\ ResultsAreAwaited
    /\ UndoesItsOwn
    /\ RowDescribes

-----------------------------------------------------------------------------
LEMMA InitInvariant == Init => IInv
BY CallersAssumption
   DEF CallersAssumption, Init, IInv, Typed, ApplyIsExclusive, RouterIsExclusive, Inside,
       IdleUntilUp, ResultsAreAwaited, UndoesItsOwn, RowDescribes, Thread, NoRow

-----------------------------------------------------------------------------
\* Requests

LEMMA EditKeeps == IInv /\ Edit => IInv'
<1> SUFFICES ASSUME IInv, Edit PROVE IInv'
  OBVIOUS
<1>1. UNCHANGED <<active, prev, backend, pc, snap, routerLock, applyLock, row, result, missed>>
  BY DEF Edit, switchVars, lockVars, rowVars
<1>2. QED
  BY <1>1 DEF IInv, Typed, ApplyIsExclusive, RouterIsExclusive, IdleUntilUp,
              ResultsAreAwaited, UndoesItsOwn, RowDescribes, NoneToRecord, Settled

\* A thread that moves outside the applies, to a place where it holds the
\* router's lock or needs none, and with nothing recorded.
LEMMA MovingKeeps ==
    ASSUME IInv, backend = "up", NEW t \in Thread,
           pc[t] \notin {"apply", "done"}, pc'[t] \notin {"apply", "done"},
           pc' \in [Thread -> {"idle", "asked", "vhosts", "rest", "wait", "apply", "done"}],
           DOMAIN snap' = Thread,
           \A u \in Thread \ {t} : pc'[u] = pc[u] /\ snap'[u] = snap[u],
           t \in Request /\ pc'[t] \in Inside => routerLock' = t,
           \A q \in Request \ {t} : routerLock = q => routerLock' = q,
           UNCHANGED <<active, prev, backend, applyLock, row, result, missed>>
    PROVE  IInv'
<1>1. Typed'
  BY DEF IInv, Typed
<1>2. ApplyIsExclusive'
  BY DEF IInv, ApplyIsExclusive
<1>3. RouterIsExclusive'
  BY DEF IInv, RouterIsExclusive, Thread
<1>4. IdleUntilUp'
  BY DEF IdleUntilUp
<1>5. ResultsAreAwaited'
  BY DEF IInv, ResultsAreAwaited, Thread
<1>6. UndoesItsOwn'
  BY DEF IInv, UndoesItsOwn
<1>7. RowDescribes'
  <2>1. \A q \in Request : result[q] # "none" => snap'[q] = snap[q]
    BY DEF IInv, ResultsAreAwaited, Thread
  <2>2. Settled' = Settled
    BY DEF Settled
  <2>3. QED
    BY <2>1, <2>2 DEF IInv, RowDescribes, NoneToRecord
<1>8. QED
  BY <1>1, <1>2, <1>3, <1>4, <1>5, <1>6, <1>7 DEF IInv

\* A thread is not idle only in a backend that is up.
LEMMA BusyIsUp == IInv => \A t \in Thread : pc[t] # "idle" => backend = "up"
BY DEF IInv, IdleUntilUp

LEMMA AskKeeps == ASSUME IInv, NEW q \in Request, Ask(q) PROVE IInv'
<1>1. q \in Thread
  BY DEF Thread
<1>2. QED
  BY <1>1, MovingKeeps DEF Ask, At, IInv, Typed, switchVars, lockVars, Inside

LEMMA TakeRouterLockKeeps == ASSUME IInv, NEW q \in Request, TakeRouterLock(q) PROVE IInv'
<1>1. q \in Thread
  BY DEF Thread
<1>2. backend = "up" /\ pc[q] = "asked"
  BY <1>1, BusyIsUp DEF TakeRouterLock
<1>3. UNCHANGED <<active, prev, backend, applyLock, row, result, missed>>
  BY DEF TakeRouterLock, switchVars
<1>4. CASE Close(q)
  BY <1>1, <1>2, <1>3, <1>4, MovingKeeps DEF Close, IInv, Typed, Inside
<1>5. CASE ~Close(q)
  <2>1. /\ routerLock = Nothing /\ routerLock' = q /\ At(q, "asked", "vhosts")
        /\ UNCHANGED snap
    BY <1>5 DEF TakeRouterLock
  <2>2. \A r \in Request \ {q} : routerLock = r => routerLock' = r
    BY <2>1, CallersAssumption DEF CallersAssumption
  <2>3. QED
    BY <1>1, <1>2, <1>3, <2>1, <2>2, MovingKeeps DEF At, IInv, Typed
<1>6. QED
  BY <1>4, <1>5

LEMMA ReadVhostsKeeps == ASSUME IInv, NEW t \in Thread, ReadVhosts(t) PROVE IInv'
<1>1. backend = "up" /\ pc[t] = "vhosts"
  BY BusyIsUp DEF ReadVhosts, At
<1>2. UNCHANGED <<active, prev, backend, routerLock, applyLock, row, result, missed>>
  BY DEF ReadVhosts, switchVars, lockVars, rowVars
<1>3. t \in Request => routerLock = t
  BY <1>1 DEF IInv, RouterIsExclusive, Inside
<1>4. pc' = [pc EXCEPT ![t] = "rest"] /\ DOMAIN snap' = Thread
      /\ \A u \in Thread \ {t} : snap'[u] = snap[u]
  BY DEF ReadVhosts, At, IInv, Typed
<1>5. QED
  BY <1>1, <1>2, <1>3, <1>4, MovingKeeps DEF IInv, Typed

LEMMA GenerateKeeps == ASSUME IInv, NEW q \in Request, Generate(q) PROVE IInv'
<1>1. q \in Thread
  BY DEF Thread
<1>2. backend = "up" /\ pc[q] = "rest" /\ routerLock = q
  BY <1>1, BusyIsUp DEF Generate, IInv, RouterIsExclusive, Inside
<1>3. UNCHANGED <<active, prev, backend, applyLock, row, result, missed>>
  BY DEF Generate, switchVars
<1> DEFINE config == [snap[q] EXCEPT !.rest = db.rest]
<1>4. CASE config \in Broken
  <2>1. Close(q)
    BY <1>4 DEF Generate
  <2>2. QED
    BY <1>1, <1>2, <1>3, <2>1, MovingKeeps DEF Close, IInv, Typed, Inside
<1>5. CASE config \notin Broken
  <2>1. At(q, "rest", "wait") /\ snap' = [snap EXCEPT ![q] = config] /\ UNCHANGED routerLock
    BY <1>5 DEF Generate
  <2> HIDE DEF config
  <2>2. QED
    BY <1>1, <1>2, <1>3, <2>1, MovingKeeps DEF At, IInv, Typed
<1>6. QED
  BY <1>4, <1>5

-----------------------------------------------------------------------------
\* The apply itself

LEMMA BeginApplyKeeps == ASSUME IInv, NEW t \in Thread, BeginApply(t) PROVE IInv'
<1>1. /\ applyLock = Nothing /\ applyLock' = t /\ pc[t] = "wait"
      /\ pc' = [pc EXCEPT ![t] = "apply"] /\ prev' = active
      /\ UNCHANGED <<active, backend, snap, routerLock, row, result, missed>>
  BY DEF BeginApply, At, rowVars
<1>2. t # Nothing /\ Nothing \notin Thread
  BY CallersAssumption DEF CallersAssumption, Thread
<1>3. Typed' /\ IdleUntilUp' /\ RouterIsExclusive' /\ ResultsAreAwaited'
  BY <1>1 DEF IInv, Typed, IdleUntilUp, RouterIsExclusive, Inside, ResultsAreAwaited, Thread
<1>4. ApplyIsExclusive'
  BY <1>1, <1>2 DEF IInv, Typed, ApplyIsExclusive
<1>5. UndoesItsOwn'
  BY <1>1, <1>2 DEF IInv, Typed, ApplyIsExclusive, UndoesItsOwn
<1>6. RowDescribes'
  BY <1>1, <1>2 DEF IInv, RowDescribes, NoneToRecord, Settled
<1>7. QED
  BY <1>3, <1>4, <1>5, <1>6 DEF IInv

LEMMA SwitchKeeps == ASSUME IInv, NEW t \in Thread, Switch(t) PROVE IInv'
<1>1. /\ pc[t] = "apply" /\ active' = snap[t]
      /\ UNCHANGED <<prev, backend, pc, snap, routerLock, applyLock, row, result, missed>>
  BY DEF Switch, lockVars, rowVars
<1>2. applyLock = t /\ applyLock # Nothing
  BY <1>1, CallersAssumption DEF IInv, ApplyIsExclusive, CallersAssumption, Thread
<1>3. Typed' /\ IdleUntilUp' /\ RouterIsExclusive' /\ ResultsAreAwaited' /\ ApplyIsExclusive'
  BY <1>1 DEF IInv, Typed, IdleUntilUp, RouterIsExclusive, ResultsAreAwaited, ApplyIsExclusive
<1>4. UndoesItsOwn'
  BY <1>1, <1>2 DEF IInv, ApplyIsExclusive, UndoesItsOwn
<1>5. RowDescribes'
  BY <1>1, <1>2 DEF IInv, RowDescribes, NoneToRecord, Settled
<1>6. QED
  BY <1>3, <1>4, <1>5 DEF IInv

\* What every end of an apply keeps.
LEMMA ReleaseKeeps ==
    ASSUME IInv, NEW t \in Thread, Release(t), UNCHANGED <<backend, snap, routerLock, row>>
    PROVE  /\ pc[t] = "apply" /\ applyLock = t /\ applyLock # Nothing /\ applyLock' = Nothing
           /\ pc' = [pc EXCEPT ![t] = "done"]
           /\ ApplyIsExclusive' /\ RouterIsExclusive' /\ IdleUntilUp' /\ UndoesItsOwn'
<1>1. pc[t] = "apply" /\ pc' = [pc EXCEPT ![t] = "done"] /\ applyLock' = Nothing
  BY DEF Release, At
<1>2. applyLock = t /\ Nothing \notin Thread
  BY <1>1, CallersAssumption DEF IInv, ApplyIsExclusive, CallersAssumption, Thread
<1>3. \A u \in Thread : pc'[u] # "apply"
  BY <1>1, <1>2 DEF IInv, Typed, ApplyIsExclusive
<1>4. ApplyIsExclusive' /\ UndoesItsOwn'
  BY <1>1, <1>2, <1>3 DEF ApplyIsExclusive, UndoesItsOwn
<1>5. RouterIsExclusive' /\ IdleUntilUp'
  BY <1>1 DEF IInv, Typed, RouterIsExclusive, Inside, IdleUntilUp, Thread
<1>6. QED
  BY <1>1, <1>2, <1>4, <1>5

LEMMA EndApplyKeeps == ASSUME IInv, NEW q \in Request, EndApply(q) PROVE IInv'
<1>1. /\ q \in Thread /\ Release(q)
      /\ UNCHANGED <<backend, snap, routerLock, row>>
  BY DEF EndApply, Thread
<1>2. /\ pc[q] = "apply" /\ applyLock = q /\ applyLock # Nothing /\ applyLock' = Nothing
      /\ pc' = [pc EXCEPT ![q] = "done"]
      /\ ApplyIsExclusive' /\ RouterIsExclusive' /\ IdleUntilUp' /\ UndoesItsOwn'
  BY <1>1, ReleaseKeeps
\* No other request is on its way, so no other result waits.
<1>3. \A r \in Request : result[r] = "none"
  <2>1. result[q] = "none"
    BY <1>1, <1>2 DEF IInv, Typed, ResultsAreAwaited
  <2>2. ASSUME NEW r \in Request, r # q PROVE result[r] = "none"
    BY <1>1, <1>2, <2>2 DEF IInv, Typed, ResultsAreAwaited, RouterIsExclusive, Inside
  <2>3. QED
    BY <2>1, <2>2
<1>4. \/ Switched(q) /\ result' = [result EXCEPT ![q] = "success"] /\ missed' = FALSE
      \/ result' = [result EXCEPT ![q] = "failed"] /\ missed' = FALSE
      \/ UNCHANGED <<active, result, missed>> /\ active = prev
  BY DEF EndApply
<1>5. Typed' /\ ResultsAreAwaited'
  BY <1>1, <1>2, <1>3, <1>4 DEF IInv, Typed, ResultsAreAwaited, Thread
<1>6. RowDescribes'
  <2>1. CASE Switched(q) /\ result' = [result EXCEPT ![q] = "success"] /\ missed' = FALSE
    <3>1. Settled' = snap'[q]
      BY <1>1, <1>2, <2>1 DEF Switched, Settled
    <3>2. result'[q] = "success" /\ \A r \in Request \ {q} : result'[r] = "none"
      BY <1>3, <2>1 DEF IInv, Typed
    <3>3. QED
      BY <3>1, <3>2 DEF RowDescribes, NoneToRecord
  <2>2. CASE result' = [result EXCEPT ![q] = "failed"] /\ missed' = FALSE
    <3>1. result'[q] = "failed" /\ \A r \in Request \ {q} : result'[r] = "none"
      BY <1>3, <2>2 DEF IInv, Typed
    <3>2. QED
      BY <3>1 DEF RowDescribes, NoneToRecord
  <2>3. CASE UNCHANGED <<active, result, missed>> /\ active = prev
    <3>1. Settled' = Settled
      BY <1>2, <2>3 DEF Settled
    <3>2. QED
      BY <1>1, <1>3, <2>3, <3>1 DEF IInv, RowDescribes, NoneToRecord
  <2>4. QED
    BY <1>4, <2>1, <2>2, <2>3
<1>7. QED
  BY <1>2, <1>5, <1>6 DEF IInv

\* The row takes over from the result what is true of `current`, also while
\* the job applies.
LEMMA RecordKeeps == ASSUME IInv, NEW q \in Request, Record(q) PROVE IInv'
<1>1. q \in Thread /\ pc[q] = "done"
  BY DEF Record, Thread
<1>2. UNCHANGED <<active, prev, backend, applyLock>> /\ result' = [result EXCEPT ![q] = "none"]
  BY DEF Record, switchVars
<1>3. pc' = [pc EXCEPT ![q] = "idle"] /\ snap' = [snap EXCEPT ![q] = Unread]
  BY DEF Record, Close
<1>4. \A r \in Request : r # q => pc[r] \notin Inside
  BY <1>1 DEF IInv, RouterIsExclusive, Inside
<1>5. \A r \in Request : r # q => result[r] = "none"
  BY <1>4 DEF IInv, Typed, ResultsAreAwaited, Inside
<1>6. NoneToRecord'
  BY <1>2, <1>5 DEF NoneToRecord, IInv, Typed
<1>7. IF result[q] = "none" \/ q \in late
      THEN /\ row' = row /\ missed' = IF result[q] = "none" THEN missed ELSE TRUE
      ELSE row' = [status |-> result[q], config |-> snap[q]] /\ missed' = missed
  BY DEF Record
<1>8. Typed' /\ ApplyIsExclusive' /\ IdleUntilUp' /\ UndoesItsOwn' /\ ResultsAreAwaited'
  BY <1>1, <1>2, <1>3, <1>6, <1>7
     DEF IInv, Typed, ApplyIsExclusive, IdleUntilUp, UndoesItsOwn, ResultsAreAwaited,
         NoneToRecord, Thread
<1>9. RouterIsExclusive'
  BY <1>1, <1>3, <1>4 DEF IInv, Typed, RouterIsExclusive, Inside, Thread
<1>10. Settled' = Settled
  BY <1>2 DEF Settled
<1>11. backend = "up"
  BY <1>1, BusyIsUp
<1>12. RowDescribes'
  <2>1. CASE result[q] = "none"
    <3>1. NoneToRecord /\ UNCHANGED <<row, missed>>
      BY <1>5, <1>7, <2>1 DEF NoneToRecord
    <3>2. QED
      BY <1>2, <1>6, <1>10, <3>1 DEF IInv, RowDescribes, NoneToRecord
  <2>2. CASE result[q] # "none" /\ q \in late
    <3>1. missed' = TRUE
      BY <1>7, <2>2
    <3>2. QED
      BY <3>1 DEF RowDescribes
  <2>3. CASE result[q] # "none" /\ q \notin late
    <3>1. row' = [status |-> result[q], config |-> snap[q]] /\ missed' = missed
      BY <1>7, <2>3
    <3>2. row'.status = result[q] /\ row'.config = snap[q] /\ missed' = missed
      BY <3>1
    <3>3. ~missed /\ result[q] = "success" => Settled = snap[q]
      BY <1>11 DEF IInv, RowDescribes
    <3>4. QED
      BY <1>6, <1>10, <3>2, <3>3 DEF RowDescribes, NoneToRecord
  <2>4. QED
    BY <2>1, <2>2, <2>3
<1>13. QED
  BY <1>8, <1>9, <1>12 DEF IInv

-----------------------------------------------------------------------------
\* The renewal job

LEMMA JobIsThread == \A j \in Job : j \in Thread /\ j \notin Request
BY CallersAssumption DEF CallersAssumption, Thread

LEMMA RenewStartKeeps == ASSUME IInv, NEW j \in Job, RenewStart(j) PROVE IInv'
<1>1. QED
  BY JobIsThread, MovingKeeps DEF RenewStart, At, switchVars, lockVars, rowVars, IInv, Typed

LEMMA RenewGenerateKeeps == ASSUME IInv, NEW j \in Job, RenewGenerate(j) PROVE IInv'
<1>1. pc[j] = "rest" /\ pc' = [pc EXCEPT ![j] = "wait"] /\ backend = "up"
  BY JobIsThread, BusyIsUp DEF RenewGenerate, At
<1>2. PICK config : snap' = [snap EXCEPT ![j] = config]
  BY DEF RenewGenerate
<1>3. UNCHANGED <<active, prev, backend, routerLock, applyLock, row, result, missed>>
  BY DEF RenewGenerate, switchVars, lockVars, rowVars
<1>4. QED
  BY <1>1, <1>2, <1>3, JobIsThread, MovingKeeps DEF IInv, Typed

LEMMA RenewAppliedKeeps == ASSUME IInv, NEW j \in Job, RenewApplied(j) PROVE IInv'
<1>1. /\ j \in Thread /\ j \notin Request /\ Release(j)
      /\ UNCHANGED <<backend, snap, routerLock, row, result>>
      /\ missed' = IF active' = prev THEN missed ELSE TRUE
  BY JobIsThread DEF RenewApplied
<1>2. /\ pc[j] = "apply" /\ applyLock = j /\ applyLock # Nothing /\ applyLock' = Nothing
      /\ pc' = [pc EXCEPT ![j] = "done"]
      /\ ApplyIsExclusive' /\ RouterIsExclusive' /\ IdleUntilUp' /\ UndoesItsOwn'
  BY <1>1, ReleaseKeeps
<1>3. Typed' /\ ResultsAreAwaited'
  BY <1>1, <1>2 DEF IInv, Typed, ResultsAreAwaited, Thread
<1>4. RowDescribes'
  <2>1. CASE active' = prev
    <3>1. Settled' = Settled
      BY <1>2, <2>1 DEF Settled
    <3>2. QED
      BY <1>1, <2>1, <3>1 DEF IInv, RowDescribes, NoneToRecord
  <2>2. CASE active' # prev
    BY <1>1, <2>2 DEF RowDescribes
  <2>3. QED
    BY <2>1, <2>2
<1>5. QED
  BY <1>2, <1>3, <1>4 DEF IInv

LEMMA RenewEndKeeps == ASSUME IInv, NEW j \in Job, RenewEnd(j) PROVE IInv'
<1>1. /\ pc[j] \in {"rest", "done"} /\ pc' = [pc EXCEPT ![j] = "idle"]
      /\ snap' = [snap EXCEPT ![j] = Unread]
      /\ UNCHANGED <<active, prev, backend, routerLock, applyLock, row, result, missed>>
  BY DEF RenewEnd, switchVars, lockVars, rowVars
<1>2. j \in Thread /\ j \notin Request /\ Nothing \notin Thread
  BY JobIsThread, CallersAssumption DEF CallersAssumption, Thread
<1>3. Typed' /\ ApplyIsExclusive' /\ IdleUntilUp' /\ UndoesItsOwn'
  BY <1>1, <1>2 DEF IInv, Typed, ApplyIsExclusive, IdleUntilUp, UndoesItsOwn
<1>4. RouterIsExclusive' /\ ResultsAreAwaited' /\ RowDescribes'
  BY <1>1, <1>2
     DEF IInv, Typed, RouterIsExclusive, ResultsAreAwaited, RowDescribes, NoneToRecord,
         Settled, Thread
<1>5. QED
  BY <1>3, <1>4 DEF IInv

-----------------------------------------------------------------------------
\* Restarts

LEMMA BackendCrashKeeps == IInv /\ BackendCrash => IInv'
<1> SUFFICES ASSUME IInv, BackendCrash PROVE IInv'
  OBVIOUS
<1>1. Nothing \notin Thread
  BY CallersAssumption DEF CallersAssumption, Thread
<1>2. /\ backend' = "down" /\ pc' = [t \in Thread |-> "idle"] /\ applyLock' = Nothing
      /\ snap' = [t \in Thread |-> Unread] /\ result' = [q \in Request |-> "none"]
      /\ UNCHANGED row
  BY DEF BackendCrash
<1>3. QED
  BY <1>1, <1>2
     DEF IInv, Typed, ApplyIsExclusive, RouterIsExclusive, Inside, IdleUntilUp,
         ResultsAreAwaited, UndoesItsOwn, RowDescribes, Thread

\* What the startup, during which nothing runs, has to see to.
LEMMA StartingKeeps ==
    ASSUME IInv, backend # "up", RowDescribes', DOMAIN row' = {"status", "config"},
           UNCHANGED <<prev, pc, snap, routerLock, applyLock, result>>
    PROVE  IInv'
<1>1. \A t \in Thread : pc[t] = "idle" /\ pc'[t] = "idle"
  BY DEF IInv, IdleUntilUp
<1>2. QED
  BY <1>1 DEF IInv, Typed, ApplyIsExclusive, RouterIsExclusive, IdleUntilUp,
              ResultsAreAwaited, UndoesItsOwn

LEMMA SeedKeeps == IInv /\ Seed => IInv'
<1> SUFFICES ASSUME IInv, Seed PROVE IInv'
  OBVIOUS
<1>1. /\ backend = "down" /\ (backend' # "up" \/ missed')
      /\ UNCHANGED <<prev, pc, snap, routerLock, applyLock, row, result>>
  BY DEF Seed, lockVars
<1>2. QED
  BY <1>1, StartingKeeps DEF IInv, Typed, RowDescribes

LEMMA ReconcileKeeps == IInv /\ Reconcile => IInv'
<1> SUFFICES ASSUME IInv, Reconcile PROVE IInv'
  OBVIOUS
<1>1. /\ backend = "reconciling" /\ UNCHANGED <<active, prev, pc, snap, routerLock, applyLock, result>>
      /\ row' = IF row.config = active
                THEN row ELSE [status |-> "success", config |-> active]
  BY DEF Reconcile, switchVars, lockVars
<1>2. DOMAIN row' = {"status", "config"} /\ row'.config = active
  BY <1>1 DEF IInv, Typed
<1>3. \A t \in Thread : pc[t] = "idle"
  BY <1>1 DEF IInv, IdleUntilUp
<1>4. applyLock' = Nothing /\ \A q \in Request : result'[q] = "none"
  BY <1>1, <1>3 DEF IInv, Typed, ApplyIsExclusive, ResultsAreAwaited, Thread
<1>5. RowDescribes'
  BY <1>1, <1>2, <1>4 DEF RowDescribes, NoneToRecord, Settled
<1>6. QED
  BY <1>1, <1>2, <1>5, StartingKeeps

-----------------------------------------------------------------------------
LEMMA NextKeepsIInv == IInv /\ [Next]_vars => IInv'
<1> SUFFICES ASSUME IInv, [Next]_vars PROVE IInv'
  OBVIOUS
<1>1. CASE Edit \/ BackendCrash \/ Startup
  BY <1>1, EditKeeps, BackendCrashKeeps, SeedKeeps, ReconcileKeeps DEF Startup
<1>2. CASE \E q \in Request : Ask(q) \/ Serve(q)
  BY <1>2, AskKeeps, TakeRouterLockKeeps, ReadVhostsKeeps, GenerateKeeps, EndApplyKeeps,
     RecordKeeps DEF Serve, Thread
<1>3. CASE \E j \in Job : RenewStart(j) \/ Renew(j)
  BY <1>3, RenewStartKeeps, ReadVhostsKeeps, RenewGenerateKeeps, RenewAppliedKeeps,
     RenewEndKeeps DEF Renew, Thread
<1>4. CASE \E t \in Thread : BeginApply(t) \/ Switch(t)
  BY <1>4, BeginApplyKeeps, SwitchKeeps
<1>5. CASE UNCHANGED vars
  <2>1. UNCHANGED <<active, prev, backend, pc, snap, routerLock, applyLock, row, result, missed>>
    BY <1>5 DEF vars, switchVars, lockVars, rowVars
  <2>2. QED
    BY <2>1 DEF IInv, Typed, ApplyIsExclusive, RouterIsExclusive, IdleUntilUp,
                ResultsAreAwaited, UndoesItsOwn, RowDescribes, NoneToRecord, Settled
<1>6. QED
  BY <1>1, <1>2, <1>3, <1>4, <1>5 DEF Next

\* The threads, the locks, the row and the release in service stay in step,
\* whatever the callers, the edits and the restarts of the backend do.
THEOREM Inductive == Spec => []IInv
<1>1. QED
  BY InitInvariant, NextKeepsIInv, PTL DEF Spec

\* A failed apply undoes its own switch and nobody else's (_apply_lock in
\* config_apply.py, taken by requests and by the renewal job).
THEOREM OwnSwitchOnly == Spec => []UndoesItsOwn
<1>1. IInv => UndoesItsOwn
  BY DEF IInv
<1>2. QED
  BY <1>1, Inductive, PTL

\* What the panel calls deployed is what `current` names, where the log of
\* operations is not known to have missed something (_record_runtime_operations
\* and _reconcile_runtime_operation_checksum).
THEOREM DeployedIsActive == Spec => []DeployedRowIsActive
<1>1. IInv => DeployedRowIsActive
  <2> SUFFICES ASSUME IInv, Quiet, ~missed, row.status = "success"
               PROVE  active = row.config
    BY DEF DeployedRowIsActive
  <2>1. NoneToRecord
    BY DEF Quiet, NoneToRecord, IInv, ResultsAreAwaited
  <2>2. QED
    BY <2>1 DEF Quiet, IInv, RowDescribes, Settled
<1>2. QED
  BY <1>1, Inductive, PTL

=============================================================================
