---------------------------- MODULE Logs_proofs ----------------------------
(***************************************************************************)
(* The way of an audit event to the panel.                                 *)
(*                                                                         *)
(* LogShipper: for any events, files, requests and restarts, nothing before *)
(* a position that was saved or is read from has been skipped, in files    *)
(* that were only appended to, and nothing the backend would take has been *)
(* dropped, where no rename falls between stat and open.                   *)
(*                                                                         *)
(* Dashboard: for any scores, echoed texts, thresholds and windows, the    *)
(* stored verdict is Coraza's, and the charts show what the counters count.*)
(***************************************************************************)
EXTENDS LogShipper, Dashboard, WellFoundedInduction, TLAPS

-----------------------------------------------------------------------------
\* The inductive invariant.  A position moves over the units of one event only,
\* since a line is not interrupted by another one in its file, and that event
\* is settled when the position moves.

Record == [phase : {"arrived", "looked"}, event : Event]

Typed ==
    /\ files \in [File -> Seq(Event \X Nat)]
    /\ path \in File
    /\ written \in [Event -> Nat]
    /\ cut \subseteq File
    /\ request \in [Slots -> {Free} \cup Record]
    /\ rows \in [Event -> 0 .. 1]
    /\ saved \in Position \cup {Corrupt}
    /\ mem \in Position
    /\ stat \in Position
    /\ handle \in File \cup {0}
    /\ drain \in BOOLEAN
    /\ waiting \in Slots \cup {0}

Whole == File \ cut

\* Units that no line end separates belong to one event.
LinesWhole ==
    \A f \in Whole : \A i, j \in 1 .. Len(files[f]) :
        i <= j /\ (\A k \in i .. j - 1 : ~EndsLine(files[f][k]))
        => files[f][i][1] = files[f][j][1]

\* The line that is not finished is the one being written.
LineInProgress ==
    path \in Whole =>
        LET n == Len(files[path])
        IN  n = 0 \/ EndsLine(files[path][n]) \/ writing = {files[path][n][1]}

FilesToCome == \A f \in File : f > path => files[f] = <<>>

SettledBefore(position) ==
    position.file \in Whole =>
        /\ position.offset <= Len(files[position.file])
        /\ SettledUpTo(position.file, position.offset)

SavedSettled ==
    saved # Corrupt =>
        /\ SettledBefore(saved)
        /\ saved.file = 0 => saved.offset = 0

MemIsSaved == pc # "down" => mem = Loaded

HasHandle == {"check", "read", "post", "drop", "advance", "reopen"}

\* The position is one of the open file.
HandleIsCurrent ==
    /\ handle # 0 => pc # "down" /\ mem.file = handle
    /\ pc \in {"adopt", "open"} => handle = 0 /\ stat.file = path
    /\ pc = "open" => mem.file = stat.file
    /\ pc \in HasHandle => handle # 0

\* What stat said is still of use where it is used.
StatIsFresh ==
    /\ pc \in {"adopt", "check"} =>
         /\ stat.file \in File
         /\ stat.file \in Whole /\ mem.file = stat.file => mem.offset <= stat.offset
    /\ pc \in HasHandle \ {"check"} /\ drain => stat.file \in File \ {handle}
    /\ pc = "reopen" => drain

\* The record in hand is what follows the position.
ItemIsNext ==
    pc \in {"post", "drop", "advance"} =>
        /\ item.event \in Event /\ item.next \in Nat
        /\ handle \in Whole =>
             /\ mem.offset <= item.next /\ item.next <= Len(files[handle])
             /\ \A i \in 1 .. Len(files[handle]) :
                   mem.offset < i /\ i <= item.next => files[handle][i][1] = item.event
        /\ pc = "advance" => Settled(item.event)

AnswerIsAwaited ==
    waiting # 0 =>
        /\ pc = "post"
        /\ request[waiting] # Free /\ request[waiting].event = item.event

Followed ==
    /\ SavedSettled
    /\ MemIsSaved
    /\ HandleIsCurrent
    /\ StatIsFresh
    /\ ItemIsNext
    /\ AnswerIsAwaited

IInv ==
    /\ Typed
    /\ LinesWhole
    /\ LineInProgress
    /\ FilesToCome
    /\ Followed

\* A dead-letter entry that cannot be written loses the event, and a rename
\* between stat and open gives the position to another file.
Sound == ~DeadLetterMayFail /\ ~RenameWhileOpening

-----------------------------------------------------------------------------
\* Records of different kinds

LEMMA Kinds ==
    /\ Start0 \in Position /\ Corrupt \notin Position
    /\ Free \notin Record
<1>1. Start0 \in Position
  BY DEF Start0, Position
<1>2. Corrupt \notin Position
  <2>1. \A p \in Position : DOMAIN p = {"offset", "file"}
    BY DEF Position
  <2>2. DOMAIN Corrupt = {"corrupt"}
    BY DEF Corrupt
  <2>3. QED
    BY <2>1, <2>2
<1>3. Free \notin Record
  BY DEF Free, Record
<1>4. QED
  BY <1>1, <1>2, <1>3

LEMMA InitInvariant == Init => IInv
<1> SUFFICES ASSUME Init PROVE IInv
  OBVIOUS
<1>1. Typed
  <2>1. files \in [File -> Seq(Event \X Nat)] /\ path \in File /\ written \in [Event -> Nat]
    BY ShipperAssumption DEF Init, ShipperAssumption, File
  <2>2. request \in [Slots -> {Free} \cup Record] /\ rows \in [Event -> 0 .. 1]
    BY DEF Init
  <2>3. QED
    BY <2>1, <2>2, Kinds DEF Init, Typed
<1>2. LinesWhole /\ LineInProgress /\ FilesToCome
  BY DEF Init, LinesWhole, LineInProgress, FilesToCome, Whole
<1>3. Followed
  BY <1>1 DEF Init, Followed, SavedSettled, SettledBefore, MemIsSaved, HandleIsCurrent, HasHandle,
              StatIsFresh, ItemIsNext, AnswerIsAwaited, Start0, SettledUpTo, Whole, File
<1>4. QED
  BY <1>1, <1>2, <1>3 DEF IInv

-----------------------------------------------------------------------------
\* The audit file

\* A position of a file that grows, or of one that is cut, stays what it was.
LEMMA GrownFilesAreFollowed ==
    ASSUME IInv, files' \in [File -> Seq(Event \X Nat)], Whole' \subseteq Whole,
           \A f \in Whole' :
               /\ Len(files[f]) <= Len(files'[f])
               /\ \A i \in 1 .. Len(files[f]) : files'[f][i] = files[f][i],
           \A f \in Whole' : Len(files'[f]) > Len(files[f]) => f = path,
           path' # path => pc \notin {"adopt", "open"},
           UNCHANGED <<request, rows, dead, saved, pc, handle, mem, stat, drain, item, waiting>>
    PROVE  Followed'
<1>1. Typed /\ Followed
  BY DEF IInv
<1>2. \A f \in Whole' : Len(files[f]) \in Nat /\ Len(files'[f]) \in Nat
  BY <1>1 DEF Typed, Whole
<1>3. SavedSettled'
  <2>1. CASE saved = Corrupt
    BY <2>1 DEF SavedSettled
  <2>2. CASE saved # Corrupt
    <3>1. saved \in Position /\ saved.offset \in Nat
      BY <1>1, <2>2 DEF Typed, Position
    <3>2. SettledBefore(saved) /\ (saved.file = 0 => saved.offset = 0)
      BY <1>1, <2>2 DEF Followed, SavedSettled
    <3>3. ASSUME saved.file \in Whole'
          PROVE  saved.offset <= Len(files'[saved.file]) /\ SettledUpTo(saved.file, saved.offset)'
      <4> DEFINE f == saved.file
      <4>1. saved.offset <= Len(files[f]) /\ SettledUpTo(f, saved.offset)
        BY <3>2, <3>3 DEF SettledBefore
      <4>2. saved.offset <= Len(files'[f])
        BY <1>2, <3>1, <3>3, <4>1
      <4>3. ASSUME NEW i \in 1 .. Len(files'[f]), i <= saved.offset
            PROVE  Settled(files'[f][i][1])
        <5>1. i \in 1 .. Len(files[f]) /\ files'[f][i] = files[f][i]
          BY <1>2, <3>1, <3>3, <4>1, <4>3
        <5>2. QED
          BY <4>1, <4>3, <5>1 DEF SettledUpTo
      <4>4. SettledUpTo(saved.file, saved.offset)'
        BY <4>3 DEF SettledUpTo, Settled
      <4>5. QED
        BY <4>2, <4>4
    <3>4. QED
      BY <3>2, <3>3 DEF SavedSettled, SettledBefore
  <2>3. QED
    BY <2>1, <2>2
<1>4. MemIsSaved'
  BY <1>1 DEF Followed, MemIsSaved, Loaded
<1>5. HandleIsCurrent'
  BY <1>1 DEF Followed, HandleIsCurrent
<1>6. StatIsFresh'
  BY <1>1 DEF Followed, StatIsFresh
<1>7. ItemIsNext'
  <2> SUFFICES ASSUME pc \in {"post", "drop", "advance"}
               PROVE  /\ item.event \in Event /\ item.next \in Nat
                      /\ handle \in Whole' =>
                           /\ mem.offset <= item.next /\ item.next <= Len(files'[handle])
                           /\ \A i \in 1 .. Len(files'[handle]) :
                                 mem.offset < i /\ i <= item.next
                                 => files'[handle][i][1] = item.event
                      /\ pc = "advance" => Settled(item.event)
    BY DEF ItemIsNext, Settled
  <2>1. /\ item.event \in Event /\ item.next \in Nat
        /\ handle \in Whole =>
             /\ mem.offset <= item.next /\ item.next <= Len(files[handle])
             /\ \A i \in 1 .. Len(files[handle]) :
                   mem.offset < i /\ i <= item.next => files[handle][i][1] = item.event
        /\ pc = "advance" => Settled(item.event)
    BY <1>1 DEF Followed, ItemIsNext
  <2>2. ASSUME handle \in Whole'
        PROVE  /\ mem.offset <= item.next /\ item.next <= Len(files'[handle])
               /\ \A i \in 1 .. Len(files'[handle]) :
                     mem.offset < i /\ i <= item.next => files'[handle][i][1] = item.event
    <3>1. handle \in Whole /\ mem.offset \in Nat
      BY <1>1, <2>2 DEF Typed, Position
    <3>2. QED
      BY <1>2, <2>1, <2>2, <3>1
  <2>3. QED
    BY <2>1, <2>2
<1>8. AnswerIsAwaited'
  BY <1>1 DEF Followed, AnswerIsAwaited
<1>9. QED
  BY <1>3, <1>4, <1>5, <1>6, <1>7, <1>8 DEF Followed

LEMMA WriteUnitKeeps == ASSUME IInv, NEW e \in Event, WriteUnit(e) PROVE IInv'
<1> DEFINE old == files[path]
           unit == <<e, written[e] + 1>>
<1>1. Typed
  BY DEF IInv
<1>2. /\ old \in Seq(Event \X Nat) /\ unit \in Event \X Nat /\ Len(old) \in Nat
  BY <1>1 DEF Typed
<1>3. /\ files' = [files EXCEPT ![path] = Append(old, unit)]
      /\ written' = [written EXCEPT ![e] = written[e] + 1]
      /\ UNCHANGED <<path, cut, request, rows, dead, saved, pc, handle, mem, stat, drain, item,
                     waiting>>
  BY DEF WriteUnit, backendVars, shipperVars
<1>4. Append(old, unit) \in Seq(Event \X Nat) /\ Len(Append(old, unit)) = Len(old) + 1
      /\ Append(old, unit)[Len(old) + 1] = unit
      /\ \A i \in 1 .. Len(old) : Append(old, unit)[i] = old[i]
  BY <1>2
<1> DEFINE new == Append(old, unit)
<1>5. files'[path] = new /\ \A f \in File \ {path} : files'[f] = files[f]
  BY <1>1, <1>3 DEF Typed
<1> HIDE DEF new
<1>6. files' \in [File -> Seq(Event \X Nat)]
  BY <1>1, <1>3, <1>4 DEF Typed, new
<1>7. Typed'
  BY <1>1, <1>3, <1>6 DEF Typed
<1>8. Whole' = Whole
  BY <1>3 DEF Whole
<1>9. Followed'
  BY <1>1, <1>2, <1>3, <1>4, <1>5, <1>6, <1>8, GrownFilesAreFollowed DEF Typed, Whole, new
<1>10. LinesWhole'
  <2> SUFFICES ASSUME NEW f \in Whole, NEW i \in 1 .. Len(files'[f]), NEW j \in 1 .. Len(files'[f]),
                      i <= j, \A k \in i .. j - 1 : ~EndsLine(files'[f][k])
               PROVE  files'[f][i][1] = files'[f][j][1]
    BY <1>8 DEF LinesWhole
  <2>1. CASE f # path
    BY <1>5, <2>1 DEF IInv, LinesWhole, Whole
  <2>2. CASE f = path
    <3>1. new = files'[f] /\ Len(new) = Len(old) + 1 /\ new[Len(old) + 1] = unit
          /\ \A k \in 1 .. Len(old) : new[k] = old[k]
      BY <1>4, <1>5, <2>2 DEF new
    <3>2. \A a, b \in 1 .. Len(old) :
             a <= b /\ (\A k \in a .. b - 1 : ~EndsLine(old[k])) => old[a][1] = old[b][1]
      BY <2>2 DEF IInv, LinesWhole
    <3>3. CASE j <= Len(old)
      <4>1. i \in 1 .. Len(old) /\ j \in 1 .. Len(old)
        BY <1>2, <3>1, <3>3
      <4>2. \A k \in i .. j - 1 : ~EndsLine(old[k])
        BY <1>2, <3>1, <4>1
      <4>3. QED
        BY <3>1, <3>2, <4>1, <4>2
    <3>4. CASE j = Len(old) + 1 /\ i # j
      <4>1. i \in 1 .. Len(old) /\ Len(old) \in 1 .. Len(old)
        BY <1>2, <3>1, <3>4
      <4>2. \A k \in i .. Len(old) : ~EndsLine(old[k])
        BY <1>2, <3>1, <3>4, <4>1
      <4>3. old[i][1] = old[Len(old)][1]
        <5>1. i <= Len(old) /\ \A k \in i .. Len(old) - 1 : ~EndsLine(old[k])
          BY <1>2, <4>1, <4>2
        <5> HIDE DEF old
        <5>2. QED
          BY <3>2, <4>1, <5>1
      <4>4. writing = {old[Len(old)][1]}
        BY <2>2, <4>1, <4>2 DEF IInv, LineInProgress
      <4>5. old[Len(old)][1] = e
        BY <4>4 DEF WriteUnit
      <4>6. QED
        BY <3>1, <3>4, <4>1, <4>3, <4>5
    <3>5. QED
      BY <1>2, <3>1, <3>3, <3>4
  <2>3. QED
    BY <2>1, <2>2
<1>11. LineInProgress'
  <2>1. Len(files'[path]) = Len(old) + 1 /\ files'[path][Len(old) + 1] = unit
    BY <1>4, <1>5 DEF new
  <2>2. writing' = IF EndsLine(unit) THEN {} ELSE {e}
    BY DEF WriteUnit, EndsLine
  <2>3. QED
    BY <1>3, <2>1, <2>2 DEF LineInProgress
<1>12. FilesToCome'
  BY <1>1, <1>3, <1>5 DEF IInv, Typed, FilesToCome, File
<1>13. QED
  BY <1>7, <1>9, <1>10, <1>11, <1>12 DEF IInv

LEMMA TruncateKeeps == IInv /\ Truncate => IInv'
<1> SUFFICES ASSUME IInv, Truncate PROVE IInv'
  OBVIOUS
<1>1. /\ files' = [files EXCEPT ![path] = <<>>] /\ cut' = cut \cup {path}
      /\ UNCHANGED <<path, written, writing, request, rows, dead, saved, pc, handle, mem, stat,
                     drain, item, waiting>>
  BY DEF Truncate, backendVars, shipperVars
<1>2. Typed /\ path \in File
  BY DEF IInv, Typed
<1>3. files' \in [File -> Seq(Event \X Nat)] /\ \A f \in File \ {path} : files'[f] = files[f]
  BY <1>1, <1>2 DEF Typed
<1>4. Whole' = Whole \ {path}
  BY <1>1 DEF Whole
<1>5. \A f \in Whole' : files'[f] = files[f] /\ Len(files[f]) \in Nat
  BY <1>2, <1>3, <1>4 DEF Whole, Typed
<1>6. Typed'
  BY <1>1, <1>2, <1>3 DEF Typed
<1>7. Followed'
  BY <1>1, <1>3, <1>4, <1>5, GrownFilesAreFollowed
<1>8. LinesWhole' /\ LineInProgress'
  BY <1>1, <1>4, <1>5 DEF IInv, LinesWhole, LineInProgress
<1>9. FilesToCome'
  BY <1>1, <1>2, <1>3 DEF IInv, FilesToCome, File
<1>10. QED
  BY <1>6, <1>7, <1>8, <1>9 DEF IInv

LEMMA RenameKeeps == IInv /\ Sound /\ Rename => IInv'
<1> SUFFICES ASSUME IInv, Sound, Rename PROVE IInv'
  OBVIOUS
<1>1. /\ path < MaxFiles /\ path' = path + 1 /\ pc \notin {"adopt", "open"}
      /\ UNCHANGED <<files, written, cut, request, rows, dead, saved, pc, handle, mem, stat,
                     drain, item, waiting>>
  BY DEF Rename, Sound, backendVars, shipperVars
<1>2. Typed /\ path \in File
  BY DEF IInv, Typed
<1>3. path' \in File
  BY <1>1, <1>2, ShipperAssumption DEF File, ShipperAssumption
<1>4. Typed' /\ Whole' = Whole
  BY <1>1, <1>2, <1>3 DEF Typed, Whole
<1>5. Followed'
  BY <1>1, <1>2, <1>4, GrownFilesAreFollowed DEF Typed, Whole
<1>6. FilesToCome'
  BY <1>1, <1>2 DEF IInv, FilesToCome, File
<1>7. files[path'] = <<>>
  BY <1>1, <1>2, <1>3 DEF IInv, FilesToCome, File
<1>8. LinesWhole'
  BY <1>1, <1>4 DEF IInv, LinesWhole
<1>9. LineInProgress'
  BY <1>1, <1>7 DEF LineInProgress
<1>10. QED
  BY <1>4, <1>5, <1>6, <1>8, <1>9 DEF IInv

-----------------------------------------------------------------------------
\* The backend

LEMMA LogUntouched ==
    ASSUME IInv, UNCHANGED logVars
    PROVE  LinesWhole' /\ LineInProgress' /\ FilesToCome' /\ Whole' = Whole
<1>1. UNCHANGED <<files, path, writing, cut>>
  BY DEF logVars
<1>2. Whole' = Whole
  BY <1>1 DEF Whole
<1>3. QED
  BY <1>1, <1>2 DEF IInv, LinesWhole, LineInProgress, FilesToCome

\* What is settled stays so.
LEMMA SettledIsKept ==
    ASSUME IInv, UNCHANGED logVars, \A e \in Event : Settled(e) => Settled(e)',
           NEW f \in Whole, NEW n \in Nat, SettledUpTo(f, n)
    PROVE  SettledUpTo(f, n)'
<1>1. files' = files /\ files[f] \in Seq(Event \X Nat)
  BY DEF logVars, IInv, Typed, Whole
<1>2. ASSUME NEW i \in 1 .. Len(files[f]) PROVE files[f][i][1] \in Event
  <2>1. files[f][i] \in Event \X Nat
    BY <1>1
  <2>2. QED
    BY <2>1
<1>3. QED
  BY <1>1, <1>2 DEF SettledUpTo

LEMMA SavedIsKept ==
    ASSUME IInv, UNCHANGED logVars, \A e \in Event : Settled(e) => Settled(e)', saved' = saved
    PROVE  SavedSettled'
<1>1. CASE saved = Corrupt
  BY <1>1 DEF SavedSettled
<1>2. CASE saved # Corrupt
  <2>1. saved \in Position /\ saved.offset \in Nat
    BY <1>2 DEF IInv, Typed, Position
  <2>2. SettledBefore(saved) /\ (saved.file = 0 => saved.offset = 0)
    BY <1>2 DEF IInv, Followed, SavedSettled
  <2>3. Whole' = Whole /\ files' = files
    BY LogUntouched DEF logVars
  <2>4. SettledBefore(saved)'
    BY <2>1, <2>2, <2>3, SettledIsKept DEF SettledBefore
  <2>5. QED
    BY <2>2, <2>4 DEF SavedSettled
<1>3. QED
  BY <1>1, <1>2

LEMMA AnswerKeeps ==
    ASSUME IInv, NEW k \in Slots, request[k] # Free, NEW step, Answer(k, step),
           rows' \in [Event -> 0 .. 1], \A e \in Event : Settled(e) => Settled(e)',
           step \in {"post", "drop", "advance"},
           step = "advance" => rows'[request[k].event] > 0
    PROVE  IInv'
<1>1. /\ UNCHANGED logVars
      /\ request' = [request EXCEPT ![k] = Free]
      /\ waiting' = IF waiting = k THEN 0 ELSE waiting
      /\ pc' = IF waiting = k THEN step ELSE pc
      /\ UNCHANGED <<handle, mem, stat, drain, item, saved>>
  BY DEF Answer
<1>2. Typed /\ Followed
  BY DEF IInv
<1>3. Typed'
  BY <1>1, <1>2 DEF Typed, logVars
<1>4. waiting = k => k # 0 /\ pc = "post" /\ request[k].event = item.event
  BY <1>2, ShipperAssumption DEF Followed, AnswerIsAwaited, ShipperAssumption
<1>5. MemIsSaved' /\ HandleIsCurrent' /\ StatIsFresh'
  <2>1. files' = files /\ path' = path /\ Whole' = Whole
    BY <1>1, LogUntouched DEF logVars
  <2>2. QED
    BY <1>1, <1>2, <1>4, <2>1
       DEF Followed, MemIsSaved, Loaded, HandleIsCurrent, HasHandle, StatIsFresh
<1>6. ItemIsNext'
  <2>1. files' = files /\ Whole' = Whole
    BY <1>1, LogUntouched DEF logVars
  <2>2. CASE waiting = k
    BY <1>1, <1>2, <1>4, <2>1, <2>2 DEF Followed, ItemIsNext, Settled
  <2>3. CASE waiting # k
    BY <1>1, <1>2, <2>1, <2>3 DEF Followed, ItemIsNext, Settled
  <2>4. QED
    BY <2>2, <2>3
<1>7. AnswerIsAwaited'
  <2>1. CASE waiting = k
    BY <1>1, <2>1 DEF AnswerIsAwaited
  <2>2. CASE waiting # k
    <3>1. waiting # 0 => waiting \in Slots /\ request'[waiting] = request[waiting]
      BY <1>1, <1>2, <2>2 DEF Typed
    <3>2. QED
      BY <1>1, <1>2, <2>2, <3>1 DEF Followed, AnswerIsAwaited
  <2>3. QED
    BY <2>1, <2>2
<1>8. QED
  BY <1>1, <1>3, <1>5, <1>6, <1>7, LogUntouched, SavedIsKept DEF IInv, Followed

\* A request that is being worked on.
LEMMA Arrived ==
    ASSUME IInv, NEW k \in Slots, request[k].phase \in {"arrived", "looked"}
    PROVE  request[k] # Free /\ request[k] \in Record /\ request[k].event \in Event
<1>1. request[k] \in {Free} \cup Record
  BY DEF IInv, Typed
<1>2. Free.phase = "free"
  BY DEF Free
<1>3. QED
  BY <1>1, <1>2 DEF Record

LEMMA IngestLooksKeeps == ASSUME IInv, NEW k \in Slots, IngestLooks(k) PROVE IInv'
<1>1. request[k] # Free /\ request[k] \in Record /\ request[k].event \in Event
  BY Arrived DEF IngestLooks
<1> DEFINE e == request[k].event
<1>2. CASE e \in Poison
  <2>1. Answer(k, "drop") /\ UNCHANGED <<rows, dead>>
    BY <1>2 DEF IngestLooks, Answer
  <2>2. QED
    BY <1>1, <2>1, AnswerKeeps DEF IInv, Typed, Settled
<1>3. CASE e \notin Poison /\ rows[e] > 0
  <2>1. Answer(k, "advance") /\ UNCHANGED <<rows, dead>>
    BY <1>3 DEF IngestLooks, Answer
  <2>2. QED
    BY <1>1, <1>3, <2>1, AnswerKeeps DEF IInv, Typed, Settled
<1>4. CASE e \notin Poison /\ ~(rows[e] > 0)
  <2>1. /\ request' = [request EXCEPT ![k].phase = "looked"]
        /\ UNCHANGED <<logVars, rows, pc, running, handle, mem, stat, drain, item, waiting,
                       dead, saved>>
    BY <1>4 DEF IngestLooks, shipperVars
  <2>2. request' = [request EXCEPT ![k] = [phase |-> "looked", event |-> e]]
    <3>1. [request[k] EXCEPT !.phase = "looked"] = [phase |-> "looked", event |-> e]
      BY <1>1 DEF Record
    <3>2. QED
      BY <2>1, <3>1
  <2>3. Typed'
    BY <1>1, <2>1, <2>2 DEF IInv, Typed, Record, logVars
  <2>4. \A j \in Slots : request'[j] # Free <=> request[j] # Free
    BY <1>1, <2>2, Kinds DEF IInv, Typed, Record
  <2>5. \A j \in Slots : request'[j].event = request[j].event
    BY <2>2 DEF IInv, Typed
  <2>6. AnswerIsAwaited'
    BY <2>1, <2>4, <2>5 DEF IInv, Typed, Followed, AnswerIsAwaited
  <2>7. files' = files /\ path' = path /\ Whole' = Whole
    BY <2>1, LogUntouched DEF logVars
  <2>8. MemIsSaved' /\ HandleIsCurrent' /\ StatIsFresh' /\ ItemIsNext'
    BY <2>1, <2>7 DEF IInv, Followed, MemIsSaved, Loaded, HandleIsCurrent, StatIsFresh,
                      ItemIsNext, Settled
  <2>9. SavedSettled'
    BY <2>1, SavedIsKept DEF Settled
  <2>10. QED
    BY <2>1, <2>3, <2>6, <2>8, <2>9, LogUntouched DEF IInv, Followed
<1>5. QED
  BY <1>2, <1>3, <1>4

LEMMA IngestStoresKeeps == ASSUME IInv, NEW k \in Slots, IngestStores(k) PROVE IInv'
<1>1. request[k] # Free /\ request[k].event \in Event
  BY Arrived DEF IngestStores
<1>2. Answer(k, "advance") /\ rows' = [rows EXCEPT ![request[k].event] = 1] /\ dead' = dead
  BY DEF IngestStores, Answer
<1>3. rows' \in [Event -> 0 .. 1] /\ rows'[request[k].event] = 1
  BY <1>1, <1>2 DEF IInv, Typed
<1>4. \A e \in Event : Settled(e) => Settled(e)'
  BY <1>1, <1>2 DEF IInv, Typed, Settled
<1>5. QED
  BY <1>1, <1>2, <1>3, <1>4, AnswerKeeps

LEMMA IngestFailsKeeps == ASSUME IInv, NEW k \in Slots, IngestFails(k) PROVE IInv'
<1>1. request[k] # Free /\ Answer(k, "post") /\ UNCHANGED <<rows, dead>>
  BY DEF IngestFails, Answer
<1>2. QED
  BY <1>1, AnswerKeeps DEF IInv, Typed, Settled

-----------------------------------------------------------------------------
\* Positions

LEMMA MemSettled ==
    ASSUME IInv, pc # "down"
    PROVE  SettledBefore(mem) /\ (mem.file = 0 => mem.offset = 0)
<1>1. mem = Loaded
  BY DEF IInv, Followed, MemIsSaved
<1>2. CASE saved = Corrupt
  <2>1. mem.file = 0 /\ mem.offset = 0
    BY <1>1, <1>2 DEF Loaded, Start0
  <2>2. QED
    BY <2>1 DEF SettledBefore, Whole, File
<1>3. CASE saved # Corrupt
  BY <1>1, <1>3 DEF Loaded, IInv, Followed, SavedSettled
<1>4. QED
  BY <1>2, <1>3

\* A save that fails leaves what was saved before.
LEMMA SaveIs ==
    ASSUME IInv, pc # "down", NEW position, NEW step, Save(position, step)
    PROVE  \/ saved' = position /\ mem' = position /\ pc' = step
           \/ saved' = saved /\ mem' = mem /\ pc' = "poll"
BY DEF Save, GoTo, IInv, Followed, MemIsSaved

LEMMA SavedHere ==
    ASSUME IInv, UNCHANGED <<logVars, rows, dead>>, NEW position \in Position,
           SettledBefore(position), position.file # 0, saved' = position, mem' = position
    PROVE  SavedSettled' /\ MemIsSaved' /\ saved' \in Position \cup {Corrupt} /\ mem' \in Position
<1>1. position # Corrupt
  BY Kinds
<1>2. files' = files /\ Whole' = Whole
  BY LogUntouched DEF logVars
<1>3. SavedSettled'
  BY <1>2 DEF SavedSettled, SettledBefore, SettledUpTo, Settled
<1>4. QED
  BY <1>1, <1>3 DEF MemIsSaved, Loaded

LEMMA SavedBefore ==
    ASSUME IInv, UNCHANGED <<logVars, rows, dead>>, saved' = saved, mem' = mem, pc # "down"
    PROVE  SavedSettled' /\ MemIsSaved' /\ saved' \in Position \cup {Corrupt} /\ mem' \in Position
<1>1. SavedSettled'
  BY SavedIsKept DEF Settled
<1>2. MemIsSaved'
  BY DEF IInv, Followed, MemIsSaved, Loaded
<1>3. QED
  BY <1>1, <1>2 DEF IInv, Typed

-----------------------------------------------------------------------------
\* The process starts and ends

LEMMA StartUpKeeps == IInv /\ StartUp => IInv'
<1> SUFFICES ASSUME IInv, StartUp PROVE IInv'
  OBVIOUS
<1>1. /\ pc = "down" /\ pc' = "poll" /\ mem' = Loaded
      /\ UNCHANGED <<logVars, request, rows, handle, stat, drain, item, waiting, dead, saved>>
  BY DEF StartUp, GoTo, backendVars
<1>2. handle = 0 /\ waiting = 0
  BY <1>1 DEF IInv, Followed, HandleIsCurrent, AnswerIsAwaited
<1>3. Loaded \in Position
  BY Kinds DEF IInv, Typed, Loaded
<1>4. Typed'
  BY <1>1, <1>3 DEF IInv, Typed, logVars
<1>5. SavedSettled'
  BY <1>1, SavedIsKept DEF Settled
<1>6. MemIsSaved' /\ HandleIsCurrent' /\ StatIsFresh' /\ ItemIsNext' /\ AnswerIsAwaited'
  BY <1>1, <1>2 DEF MemIsSaved, Loaded, HandleIsCurrent, HasHandle, StatIsFresh, ItemIsNext,
                    AnswerIsAwaited
<1>7. QED
  BY <1>1, <1>4, <1>5, <1>6, LogUntouched DEF IInv, Followed

LEMMA ExitKeeps ==
    ASSUME IInv, Exit, UNCHANGED <<logVars, request, rows, dead, saved>>
    PROVE  IInv'
<1>1. Typed'
  BY Kinds DEF IInv, Typed, Exit, logVars
<1>2. SavedSettled'
  BY SavedIsKept DEF Settled
<1>3. MemIsSaved' /\ HandleIsCurrent' /\ StatIsFresh' /\ ItemIsNext' /\ AnswerIsAwaited'
  BY DEF Exit, MemIsSaved, HandleIsCurrent, HasHandle, StatIsFresh, ItemIsNext, AnswerIsAwaited
<1>4. QED
  BY <1>1, <1>2, <1>3, LogUntouched DEF IInv, Followed

LEMMA FaultKeeps == IInv /\ Fault => IInv'
<1> SUFFICES ASSUME IInv, Fault PROVE IInv'
  OBVIOUS
<1>1. CASE Kill
  BY <1>1, ExitKeeps DEF Kill, backendVars
<1>2. CASE Terminate
  <2>1. UNCHANGED <<logVars, request, rows, pc, handle, mem, stat, drain, item, waiting, dead, saved>>
    BY <1>2 DEF Terminate, backendVars
  <2>2. Typed' /\ SavedSettled' /\ files' = files /\ path' = path /\ Whole' = Whole
    BY <2>1, LogUntouched, SavedIsKept DEF IInv, Typed, Settled, logVars
  <2>3. MemIsSaved' /\ HandleIsCurrent' /\ StatIsFresh' /\ ItemIsNext' /\ AnswerIsAwaited'
    BY <2>1, <2>2 DEF IInv, Followed, MemIsSaved, Loaded, HandleIsCurrent, StatIsFresh,
                      ItemIsNext, Settled, AnswerIsAwaited
  <2>4. QED
    BY <2>1, <2>2, <2>3, LogUntouched DEF IInv, Followed
<1>3. CASE LoseState
  <2>1. /\ pc = "down" /\ saved' = Corrupt
        /\ UNCHANGED <<logVars, request, rows, pc, handle, mem, stat, drain, item, waiting, dead>>
    BY <1>3 DEF LoseState, backendVars, shipperVars
  <2>2. Typed'
    BY <2>1 DEF IInv, Typed, logVars
  <2>3. SavedSettled' /\ MemIsSaved' /\ ItemIsNext' /\ StatIsFresh'
    BY <2>1 DEF SavedSettled, MemIsSaved, ItemIsNext, StatIsFresh, HasHandle
  <2>4. HandleIsCurrent' /\ AnswerIsAwaited'
    BY <2>1 DEF IInv, Followed, HandleIsCurrent, HasHandle, AnswerIsAwaited
  <2>5. QED
    BY <2>1, <2>2, <2>3, <2>4, LogUntouched DEF IInv, Followed
<1>4. QED
  BY <1>1, <1>2, <1>3 DEF Fault

-----------------------------------------------------------------------------
\* The loop

LEMMA PollKeeps == IInv /\ Poll => IInv'
<1> SUFFICES ASSUME IInv, Poll PROVE IInv'
  OBVIOUS
<1>1. pc = "poll" /\ UNCHANGED <<logVars, request, rows, dead, saved>>
  BY DEF Poll, backendVars
<1>2. CASE ~running
  BY <1>1, <1>2, ExitKeeps DEF Poll
<1>3. CASE running
  <2>1. /\ stat' = [offset |-> Len(files[path]), file |-> path]
        /\ pc' = IF handle = 0 THEN "adopt" ELSE "check"
        /\ UNCHANGED <<handle, waiting, mem, drain, item>>
    BY <1>3 DEF Poll, GoTo
  <2>2. path \in File /\ Len(files[path]) \in Nat /\ stat' \in Position
    BY <2>1 DEF IInv, Typed, Position
  <2>3. Typed'
    BY <1>1, <2>1, <2>2 DEF IInv, Typed, logVars
  <2>4. SavedSettled' /\ MemIsSaved'
    BY <1>1, <2>1, SavedBefore
  <2>5. files' = files /\ path' = path /\ Whole' = Whole
    BY <1>1, LogUntouched DEF logVars
  <2>6. waiting = 0
    BY <1>1 DEF IInv, Followed, AnswerIsAwaited
  <2>7. HandleIsCurrent' /\ ItemIsNext' /\ AnswerIsAwaited'
    BY <1>1, <2>1, <2>5, <2>6
       DEF IInv, Followed, HandleIsCurrent, HasHandle, ItemIsNext, AnswerIsAwaited
  <2>8. mem.file = path /\ path \in Whole => mem.offset <= Len(files[path])
    BY <1>1, MemSettled DEF SettledBefore
  <2>9. StatIsFresh'
    BY <2>1, <2>2, <2>5, <2>8 DEF StatIsFresh, HasHandle
  <2>10. QED
    BY <1>1, <2>3, <2>4, <2>7, <2>9, LogUntouched DEF IInv, Followed
<1>4. QED
  BY <1>2, <1>3

LEMMA AdoptKeeps == IInv /\ Adopt => IInv'
<1> SUFFICES ASSUME IInv, Adopt PROVE IInv'
  OBVIOUS
<1> DEFINE otherFile == mem.file # 0 /\ mem.file # stat.file
           position == [offset |-> IF otherFile \/ stat.offset < mem.offset THEN 0 ELSE mem.offset,
                        file   |-> stat.file]
<1>1. /\ pc = "adopt"
      /\ UNCHANGED <<logVars, request, rows, handle, stat, drain, item, waiting, dead>>
  BY DEF Adopt, backendVars
<1>2. stat.file \in File /\ stat.file = path /\ handle = 0 /\ waiting = 0
  BY <1>1 DEF IInv, Followed, HandleIsCurrent, StatIsFresh, AnswerIsAwaited
<1>3. mem \in Position /\ mem.offset \in Nat /\ stat.file # 0
  BY <1>2 DEF IInv, Typed, Position, File
<1>4. position \in Position /\ position.file = stat.file
  BY <1>2, <1>3 DEF Position
<1>5. SettledBefore(position)
  <2>1. CASE position.offset = 0
    BY <1>2, <2>1 DEF SettledBefore, SettledUpTo, IInv, Typed
  <2>2. CASE position.offset # 0
    <3>1. mem.file = stat.file /\ position.offset = mem.offset
      BY <1>1, <2>2, MemSettled
    <3>2. QED
      BY <1>1, <1>4, <3>1, MemSettled DEF SettledBefore
  <2>3. QED
    BY <2>1, <2>2
<1>6. \/ saved' = position /\ mem' = position /\ pc' = "open"
      \/ saved' = saved /\ mem' = mem /\ pc' = "poll"
      \/ saved' = saved /\ mem' = mem /\ mem = position /\ pc' = "open"
  BY <1>1, SaveIs DEF Adopt, GoTo
<1> HIDE DEF position
<1>7. SavedSettled' /\ MemIsSaved' /\ saved' \in Position \cup {Corrupt} /\ mem' \in Position
  BY <1>1, <1>2, <1>3, <1>4, <1>5, <1>6, SavedHere, SavedBefore
<1>8. Typed'
  BY <1>1, <1>7 DEF IInv, Typed, logVars
<1>9. HandleIsCurrent' /\ StatIsFresh' /\ ItemIsNext' /\ AnswerIsAwaited'
  <2>1. path' = path /\ (pc' = "open" => mem'.file = stat.file)
    BY <1>1, <1>4, <1>6 DEF logVars
  <2>2. QED
    BY <1>1, <1>2, <1>6, <2>1
       DEF HandleIsCurrent, HasHandle, StatIsFresh, ItemIsNext, AnswerIsAwaited
<1>10. QED
  BY <1>1, <1>7, <1>8, <1>9, LogUntouched DEF IInv, Followed

LEMMA OpenKeeps == IInv /\ Open => IInv'
<1> SUFFICES ASSUME IInv, Open PROVE IInv'
  OBVIOUS
<1>1. /\ pc = "open" /\ pc' = "read" /\ handle' = path /\ drain' = FALSE /\ stat' = Start0
      /\ UNCHANGED <<logVars, request, rows, mem, item, waiting, dead, saved>>
  BY DEF Open, GoTo, backendVars
<1>2. mem.file = path /\ path \in File /\ waiting = 0
  BY <1>1 DEF IInv, Typed, Followed, HandleIsCurrent, AnswerIsAwaited
<1>3. Typed'
  BY <1>1, <1>2, Kinds DEF IInv, Typed, logVars
<1>4. SavedSettled' /\ MemIsSaved'
  BY <1>1, SavedBefore
<1>5. HandleIsCurrent' /\ StatIsFresh' /\ ItemIsNext' /\ AnswerIsAwaited'
  BY <1>1, <1>2 DEF HandleIsCurrent, HasHandle, StatIsFresh, ItemIsNext, AnswerIsAwaited, File
<1>6. QED
  BY <1>1, <1>3, <1>4, <1>5, LogUntouched DEF IInv, Followed

LEMMA CheckKeeps == IInv /\ Check => IInv'
<1> SUFFICES ASSUME IInv, Check PROVE IInv'
  OBVIOUS
<1> DEFINE position == [offset |-> 0, file |-> handle]
<1>1. /\ pc = "check" /\ drain' = (stat.file # handle)
      /\ stat' = IF drain' THEN stat ELSE Start0
      /\ UNCHANGED <<logVars, request, rows, handle, item, waiting, dead>>
  BY DEF Check, backendVars
<1>2. handle # 0 /\ handle \in File /\ mem.file = handle /\ waiting = 0 /\ stat.file \in File
  BY <1>1 DEF IInv, Typed, Followed, HandleIsCurrent, HasHandle, StatIsFresh, AnswerIsAwaited
<1>3. position \in Position /\ SettledBefore(position) /\ position.file # 0
  BY <1>2 DEF Position, SettledBefore, SettledUpTo, IInv, Typed
<1>4. \/ saved' = position /\ mem' = position /\ pc' = "read"
      \/ saved' = saved /\ mem' = mem /\ pc' \in {"poll", "read"}
  BY <1>1, SaveIs DEF Check, GoTo
<1>5. SavedSettled' /\ MemIsSaved' /\ saved' \in Position \cup {Corrupt} /\ mem' \in Position
  BY <1>1, <1>3, <1>4, SavedHere, SavedBefore
<1>6. Typed'
  BY <1>1, <1>5, Kinds DEF IInv, Typed, logVars
<1>7. HandleIsCurrent' /\ StatIsFresh' /\ ItemIsNext' /\ AnswerIsAwaited'
  <2>1. mem'.file = handle
    BY <1>2, <1>4
  <2>2. QED
    BY <1>1, <1>2, <1>4, <2>1
       DEF HandleIsCurrent, HasHandle, StatIsFresh, ItemIsNext, AnswerIsAwaited
<1>8. QED
  BY <1>1, <1>5, <1>6, <1>7, LogUntouched DEF IInv, Followed

-----------------------------------------------------------------------------
\* The next record

LEMMA SmallestExists ==
    ASSUME NEW S \in SUBSET Nat, S # {}
    PROVE  \E i \in S : \A j \in S : i <= j
<1> DEFINE R == OpToRel(<, Nat)
<1>1. IsWellFoundedOn(R, Nat)
  BY NatLessThanWellFounded
<1> HIDE DEF R
<1>2. PICK i \in S : \A j \in S : <<j, i>> \notin R
  BY <1>1, WFMin
<1>3. \A j \in S : ~(j < i)
  BY <1>2 DEF R, OpToRel
<1>4. QED
  BY <1>3

\* _consume_record moves over units that no line end separates, and names the
\* event of the first or of the last of them.
LEMMA ConsumedIsOneLine ==
    ASSUME NEW units \in Seq(Event \X Nat), NEW offset \in Nat, NEW draining \in BOOLEAN,
           Consume(units, offset, draining) # NoItem
    PROVE  LET next == Consume(units, offset, draining)
           IN  /\ next.event \in Event
               /\ next.next \in offset + 1 .. Len(units)
               /\ \A k \in offset + 1 .. next.next - 1 : ~EndsLine(units[k])
               /\ next.event \in {units[offset + 1][1], units[next.next][1]}
<1> DEFINE ends == {i \in (offset + 1) .. Len(units) : EndsLine(units[i])}
           end == CHOOSE i \in ends : \A j \in ends : i <= j
           last == units[end][1]
<1>1. Len(units) \in Nat /\ \A i \in 1 .. Len(units) : units[i][1] \in Event
  <2>1. \A i \in 1 .. Len(units) : units[i] \in Event \X Nat
    OBVIOUS
  <2>2. QED
    BY <2>1
<1>2. CASE ends # {}
  <2>1. end \in ends /\ \A j \in ends : end <= j
    <3>1. ends \in SUBSET Nat
      BY <1>1
    <3>2. \E i \in ends : \A j \in ends : i <= j
      BY <1>2, <3>1, SmallestExists
    <3> HIDE DEF ends
    <3>3. QED
      BY <3>2
  <2>2. Consume(units, offset, draining) =
          [kind  |-> IF end - offset > LineLimit THEN "too_long"
                     ELSE IF units[offset + 1] = <<last, 1>> THEN "line" ELSE "fragment",
           event |-> last, next |-> end]
    BY <1>2 DEF Consume
  <2> HIDE DEF end
  <2>3. end \in offset + 1 .. Len(units) /\ \A k \in offset + 1 .. end - 1 : ~EndsLine(units[k])
    BY <1>1, <2>1
  <2>4. last \in Event
    BY <1>1, <2>3
  <2>5. QED
    BY <2>2, <2>3, <2>4
<1>3. CASE ends = {}
  <2>1. offset < Len(units)
    BY <1>3 DEF Consume
  <2>2. Consume(units, offset, draining) =
          [kind |-> "truncated", event |-> units[offset + 1][1], next |-> Len(units)]
    BY <1>3 DEF Consume
  <2>3. \A k \in offset + 1 .. Len(units) - 1 : ~EndsLine(units[k])
    <3>1. \A k \in offset + 1 .. Len(units) : ~EndsLine(units[k])
      BY <1>3
    <3>2. QED
      BY <1>1, <3>1
  <2>4. /\ offset + 1 \in 1 .. Len(units) /\ Len(units) \in offset + 1 .. Len(units)
        /\ units[offset + 1][1] \in Event
    BY <1>1, <2>1
  <2> HIDE DEF ends
  <2>5. QED
    BY <2>2, <2>3, <2>4
<1>4. QED
  BY <1>2, <1>3

LEMMA ReadKeeps == IInv /\ Read => IInv'
<1> SUFFICES ASSUME IInv, Read PROVE IInv'
  OBVIOUS
<1> DEFINE next == Consume(files[handle], mem.offset, drain)
<1>1. pc = "read" /\ UNCHANGED <<logVars, request, rows, dead, saved>>
  BY DEF Read, backendVars
<1>2. handle # 0 /\ handle \in File /\ mem.file = handle /\ waiting = 0
  BY <1>1 DEF IInv, Typed, Followed, HandleIsCurrent, HasHandle, AnswerIsAwaited
<1>3. CASE Exit
  BY <1>1, <1>3, ExitKeeps
<1>4. CASE UNCHANGED <<handle, mem, stat, drain, item, waiting>>
           /\ pc' \in {"poll", "reopen"} /\ (pc' = "reopen" => drain)
  <2>1. Typed' /\ SavedSettled' /\ MemIsSaved'
    BY <1>1, <1>4, SavedBefore DEF IInv, Typed, logVars
  <2>2. HandleIsCurrent' /\ StatIsFresh' /\ ItemIsNext' /\ AnswerIsAwaited'
    BY <1>1, <1>2, <1>4 DEF IInv, Followed, HandleIsCurrent, HasHandle, StatIsFresh, ItemIsNext,
                            AnswerIsAwaited
  <2>3. QED
    BY <1>1, <2>1, <2>2, LogUntouched DEF IInv, Followed
<1>5. CASE /\ next # NoItem /\ item' = next /\ pc' \in {"post", "drop"}
           /\ UNCHANGED <<handle, mem, stat, drain, waiting>>
  <2>1. Typed' /\ SavedSettled' /\ MemIsSaved'
    BY <1>1, <1>5, SavedBefore DEF IInv, Typed, logVars
  <2>2. HandleIsCurrent' /\ StatIsFresh' /\ AnswerIsAwaited'
    BY <1>1, <1>2, <1>5 DEF IInv, Followed, HandleIsCurrent, HasHandle, StatIsFresh,
                            AnswerIsAwaited
  <2>3. /\ mem.offset \in Nat /\ files[handle] \in Seq(Event \X Nat) /\ drain \in BOOLEAN
        /\ Len(files[handle]) \in Nat
    BY <1>2 DEF IInv, Typed, Position
  <2>4. /\ next.event \in Event
        /\ next.next \in mem.offset + 1 .. Len(files[handle])
        /\ \A k \in mem.offset + 1 .. next.next - 1 : ~EndsLine(files[handle][k])
        /\ next.event \in {files[handle][mem.offset + 1][1], files[handle][next.next][1]}
    BY <1>5, <2>3, ConsumedIsOneLine
  <2> HIDE DEF next
  <2>5. ASSUME handle \in Whole, NEW i \in 1 .. Len(files[handle]), mem.offset < i, i <= next.next
        PROVE  files[handle][i][1] = next.event
    <3> DEFINE first == mem.offset + 1
    <3>1. /\ first \in 1 .. Len(files[handle]) /\ next.next \in 1 .. Len(files[handle])
          /\ first <= i /\ first <= next.next
      BY <2>3, <2>4, <2>5
    <3>2. /\ \A k \in first .. i - 1 : ~EndsLine(files[handle][k])
          /\ \A k \in first .. next.next - 1 : ~EndsLine(files[handle][k])
      BY <2>3, <2>4, <2>5
    <3>3. next.event \in {files[handle][first][1], files[handle][next.next][1]}
      BY <2>4
    <3> HIDE DEF first
    <3>4. /\ files[handle][first][1] = files[handle][i][1]
          /\ files[handle][first][1] = files[handle][next.next][1]
      BY <2>5, <3>1, <3>2 DEF IInv, LinesWhole
    <3>5. QED
      BY <3>3, <3>4
  <2>6. ItemIsNext'
    <3>1. files' = files /\ Whole' = Whole
      BY <1>1, LogUntouched DEF logVars
    <3>2. next.next \in Nat /\ mem.offset <= next.next /\ next.next <= Len(files[handle])
      BY <2>3, <2>4
    <3>3. QED
      BY <1>5, <2>4, <2>5, <3>1, <3>2 DEF ItemIsNext
  <2>7. QED
    BY <1>1, <2>1, <2>2, <2>6, LogUntouched DEF IInv, Followed
<1>6. QED
  <2>1. \/ /\ next # NoItem /\ item' = next
           /\ pc' = IF next.kind = "line" THEN "post" ELSE "drop"
           /\ UNCHANGED <<handle, mem, stat, drain, waiting>>
        \/ /\ pc' = IF drain THEN "reopen" ELSE "poll"
           /\ UNCHANGED <<handle, mem, stat, drain, item, waiting>>
        \/ Exit
        \/ drain /\ pc' = "reopen" /\ UNCHANGED <<handle, mem, stat, drain, item, waiting>>
    BY DEF Read, GoTo
  <2>2. QED
    BY <1>3, <1>4, <1>5, <2>1

LEMMA ReopenKeeps == IInv /\ Reopen => IInv'
<1> SUFFICES ASSUME IInv, Reopen PROVE IInv'
  OBVIOUS
<1> DEFINE position == [offset |-> 0, file |-> stat.file]
<1>1. /\ pc = "reopen" /\ handle' = 0 /\ drain' = FALSE /\ stat' = Start0
      /\ Save(position, "poll")
      /\ UNCHANGED <<logVars, request, rows, item, waiting, dead>>
  BY DEF Reopen, backendVars
<1>2. stat.file \in File /\ stat.file # 0 /\ waiting = 0
  BY <1>1 DEF IInv, Followed, StatIsFresh, HasHandle, AnswerIsAwaited, File
<1>3. position \in Position /\ SettledBefore(position) /\ position.file # 0
  BY <1>2 DEF Position, SettledBefore, SettledUpTo, IInv, Typed
<1>4. /\ pc' = "poll"
      /\ \/ saved' = position /\ mem' = position
         \/ saved' = saved /\ mem' = mem
  BY <1>1, SaveIs
<1>5. SavedSettled' /\ MemIsSaved' /\ saved' \in Position \cup {Corrupt} /\ mem' \in Position
  BY <1>1, <1>3, <1>4, SavedHere, SavedBefore
<1>6. Typed'
  BY <1>1, <1>5, Kinds DEF IInv, Typed, logVars
<1>7. HandleIsCurrent' /\ StatIsFresh' /\ ItemIsNext' /\ AnswerIsAwaited'
  BY <1>1, <1>2, <1>4 DEF HandleIsCurrent, HasHandle, StatIsFresh, ItemIsNext, AnswerIsAwaited
<1>8. QED
  BY <1>1, <1>5, <1>6, <1>7, LogUntouched DEF IInv, Followed

LEMMA PostKeeps == IInv /\ Post => IInv'
<1> SUFFICES ASSUME IInv, Post PROVE IInv'
  OBVIOUS
<1>1. pc = "post" /\ UNCHANGED <<logVars, rows, dead, saved>>
  BY DEF Post
<1>2. CASE ~running
  BY <1>1, <1>2, ExitKeeps DEF Post
<1>3. CASE running
  <2>1. PICK k \in Slots :
          /\ request' = [request EXCEPT ![k] = [phase |-> "arrived", event |-> item.event]]
          /\ waiting' = k
          /\ UNCHANGED <<pc, handle, mem, stat, drain, item>>
    BY <1>3 DEF Post
  <2>2. item.event \in Event
    BY <1>1 DEF IInv, Followed, ItemIsNext
  <2>3. request'[k] = [phase |-> "arrived", event |-> item.event] /\ request'[k] \in Record
    BY <2>1, <2>2 DEF IInv, Typed, Record
  <2>4. Typed'
    BY <1>1, <2>1, <2>2 DEF IInv, Typed, Record, logVars
  <2>5. SavedSettled' /\ MemIsSaved'
    BY <1>1, <2>1, SavedBefore
  <2>6. files' = files /\ path' = path /\ Whole' = Whole
    BY <1>1, LogUntouched DEF logVars
  <2>7. HandleIsCurrent' /\ StatIsFresh' /\ ItemIsNext'
    BY <1>1, <2>1, <2>6 DEF IInv, Followed, HandleIsCurrent, StatIsFresh, ItemIsNext, Settled
  <2>8. AnswerIsAwaited'
    BY <1>1, <2>1, <2>3, Kinds DEF AnswerIsAwaited
  <2>9. QED
    BY <1>1, <2>4, <2>5, <2>7, <2>8, LogUntouched DEF IInv, Followed
<1>4. QED
  BY <1>2, <1>3

LEMMA TimeOutKeeps == IInv /\ TimeOut => IInv'
<1> SUFFICES ASSUME IInv, TimeOut PROVE IInv'
  OBVIOUS
<1>1. /\ pc = "post" /\ waiting' = 0
      /\ UNCHANGED <<logVars, request, rows, pc, handle, mem, stat, drain, item, dead, saved>>
  BY DEF TimeOut, backendVars
<1>2. Typed' /\ SavedSettled' /\ MemIsSaved' /\ files' = files /\ path' = path /\ Whole' = Whole
  BY <1>1, SavedBefore, LogUntouched DEF IInv, Typed, logVars
<1>3. HandleIsCurrent' /\ StatIsFresh' /\ ItemIsNext' /\ AnswerIsAwaited'
  BY <1>1, <1>2 DEF IInv, Followed, HandleIsCurrent, StatIsFresh, ItemIsNext, Settled,
                    AnswerIsAwaited
<1>4. QED
  BY <1>1, <1>2, <1>3, LogUntouched DEF IInv, Followed

LEMMA DropKeeps == IInv /\ Sound /\ Drop => IInv'
<1> SUFFICES ASSUME IInv, Sound, Drop PROVE IInv'
  OBVIOUS
<1>1. /\ pc = "drop" /\ pc' = "advance" /\ dead' = dead \cup {item.event}
      /\ UNCHANGED <<logVars, request, rows, handle, mem, stat, drain, item, waiting, saved>>
  BY DEF Drop, Sound, GoTo, backendVars
<1>2. Typed' /\ files' = files /\ path' = path /\ Whole' = Whole
  BY <1>1, LogUntouched DEF IInv, Typed, logVars
<1>3. SavedSettled'
  BY <1>1, SavedIsKept DEF Settled
<1>4. MemIsSaved' /\ HandleIsCurrent' /\ StatIsFresh' /\ AnswerIsAwaited'
  BY <1>1, <1>2 DEF IInv, Followed, MemIsSaved, Loaded, HandleIsCurrent, HasHandle, StatIsFresh,
                    AnswerIsAwaited
<1>5. ItemIsNext'
  BY <1>1, <1>2 DEF IInv, Followed, ItemIsNext, Settled
<1>6. QED
  BY <1>1, <1>2, <1>3, <1>4, <1>5, LogUntouched DEF IInv, Followed

LEMMA AdvanceKeeps == IInv /\ Advance => IInv'
<1> SUFFICES ASSUME IInv, Advance PROVE IInv'
  OBVIOUS
<1> DEFINE position == [mem EXCEPT !.offset = item.next]
<1>1. /\ pc = "advance" /\ Save(position, "read")
      /\ UNCHANGED <<logVars, request, rows, handle, stat, drain, waiting, dead>>
  BY DEF Advance, backendVars
<1>2. handle # 0 /\ handle \in File /\ mem.file = handle /\ waiting = 0
  BY <1>1 DEF IInv, Typed, Followed, HandleIsCurrent, HasHandle, AnswerIsAwaited
<1>3. /\ item.next \in Nat /\ Settled(item.event)
      /\ handle \in Whole =>
           /\ mem.offset <= item.next /\ item.next <= Len(files[handle])
           /\ \A i \in 1 .. Len(files[handle]) :
                 mem.offset < i /\ i <= item.next => files[handle][i][1] = item.event
  BY <1>1 DEF IInv, Followed, ItemIsNext
<1>4. /\ mem \in Position /\ mem.offset \in Nat
      /\ position \in Position /\ position.file = handle /\ position.offset = item.next
  BY <1>2, <1>3 DEF IInv, Typed, Position
<1>5. SettledBefore(position)
  <2>1. ASSUME handle \in Whole, NEW i \in 1 .. Len(files[handle]), i <= item.next
        PROVE  Settled(files[handle][i][1])
    <3>1. CASE i <= mem.offset
      BY <1>1, <1>2, <2>1, <3>1, MemSettled DEF SettledBefore, SettledUpTo
    <3>2. CASE mem.offset < i
      BY <1>3, <2>1, <3>2
    <3>3. QED
      BY <1>4, <3>1, <3>2
  <2> HIDE DEF position
  <2>2. QED
    BY <1>3, <1>4, <2>1 DEF SettledBefore, SettledUpTo
<1> HIDE DEF position
<1>6. \/ saved' = position /\ mem' = position /\ pc' = "read"
      \/ saved' = saved /\ mem' = mem /\ pc' = "poll"
  BY <1>1, SaveIs
<1>7. SavedSettled' /\ MemIsSaved' /\ saved' \in Position \cup {Corrupt} /\ mem' \in Position
  BY <1>1, <1>2, <1>4, <1>5, <1>6, SavedHere, SavedBefore
<1>8. Typed'
  BY <1>1, <1>7 DEF IInv, Typed, logVars
<1>9. HandleIsCurrent' /\ StatIsFresh' /\ ItemIsNext' /\ AnswerIsAwaited'
  <2>1. mem'.file = handle
    BY <1>2, <1>4, <1>6
  <2>2. QED
    BY <1>1, <1>2, <1>6, <2>1
       DEF IInv, Followed, HandleIsCurrent, HasHandle, StatIsFresh, ItemIsNext, AnswerIsAwaited
<1>10. QED
  BY <1>1, <1>7, <1>8, <1>9, LogUntouched DEF IInv, Followed

-----------------------------------------------------------------------------
LEMMA NextKeepsIInv == IInv /\ Sound /\ [Next]_vars => IInv'
<1> SUFFICES ASSUME IInv, Sound, [Next]_vars PROVE IInv'
  OBVIOUS
<1>1. CASE Log
  BY <1>1, WriteUnitKeeps, TruncateKeeps, RenameKeeps DEF Log
<1>2. CASE \E k \in Slots : Ingest(k) \/ IngestFails(k)
  BY <1>2, IngestLooksKeeps, IngestStoresKeeps, IngestFailsKeeps DEF Ingest
<1>3. CASE Shipper
  BY <1>3, StartUpKeeps, PollKeeps, AdoptKeeps, OpenKeeps, CheckKeeps, ReadKeeps, ReopenKeeps,
     PostKeeps, DropKeeps, AdvanceKeeps DEF Shipper
<1>4. CASE TimeOut \/ Fault
  BY <1>4, TimeOutKeeps, FaultKeeps
<1>5. CASE UNCHANGED vars
  <2>1. UNCHANGED <<logVars, request, rows, pc, handle, mem, stat, drain, item, waiting, dead, saved>>
    BY <1>5 DEF vars, backendVars, shipperVars
  <2>2. Typed' /\ files' = files /\ path' = path /\ Whole' = Whole
    BY <2>1, LogUntouched DEF IInv, Typed, logVars
  <2>3. SavedSettled'
    BY <2>1, SavedIsKept DEF Settled
  <2>4. MemIsSaved' /\ HandleIsCurrent' /\ StatIsFresh' /\ ItemIsNext' /\ AnswerIsAwaited'
    BY <2>1, <2>2 DEF IInv, Followed, MemIsSaved, Loaded, HandleIsCurrent, StatIsFresh,
                      ItemIsNext, Settled, AnswerIsAwaited
  <2>5. QED
    BY <2>1, <2>2, <2>3, <2>4, LogUntouched DEF IInv, Followed
<1>6. QED
  BY <1>1, <1>2, <1>3, <1>4, <1>5 DEF Next

-----------------------------------------------------------------------------
\* Where the dead-letter file can be written and no rename falls between stat
\* and open, the positions of the shipper stay in step with what is stored.
THEOREM Inductive ==
    ASSUME ~DeadLetterMayFail, ~RenameWhileOpening
    PROVE  Spec => []IInv
<1>1. Sound
  BY DEF Sound
<1>2. Init => IInv
  BY InitInvariant
<1>3. IInv /\ [Next]_vars => IInv'
  BY <1>1, NextKeepsIInv
<1>4. QED
  BY <1>2, <1>3, PTL DEF Spec

\* A restart skips nothing (_persist_state comes after the answer or the
\* dead-letter entry).
THEOREM RestartSkipsNothing ==
    ASSUME ~DeadLetterMayFail, ~RenameWhileOpening
    PROVE  Spec => []SavedIsSettled
<1>1. IInv => SavedIsSettled
  <2> SUFFICES ASSUME IInv, saved # Corrupt, saved.file \notin cut \cup {0}
               PROVE  SettledUpTo(saved.file, saved.offset)
    BY DEF SavedIsSettled
  <2>1. saved.file \in Whole
    BY DEF IInv, Typed, Position, Whole
  <2>2. QED
    BY <2>1 DEF IInv, Followed, SavedSettled, SettledBefore
<1>2. QED
  BY <1>1, Inductive, PTL

\* The running shipper skips nothing either, also after a rotation (the drain
\* of run(), lines 495-520).
THEOREM RotationSkipsNothing ==
    ASSUME ~DeadLetterMayFail, ~RenameWhileOpening
    PROVE  Spec => []ReadIsSettled
<1>1. IInv => ReadIsSettled
  <2> SUFFICES ASSUME IInv, pc \in {"read", "post", "drop"}, handle \notin cut
               PROVE  SettledUpTo(handle, mem.offset)
    BY DEF ReadIsSettled
  <2>1. handle # 0 /\ mem.file = handle /\ handle \in Whole
    BY DEF IInv, Typed, Followed, HandleIsCurrent, HasHandle, Whole
  <2>2. QED
    BY <2>1, MemSettled DEF SettledBefore
<1>2. QED
  BY <1>1, Inductive, PTL

-----------------------------------------------------------------------------
\* What is dropped.  A line stands in one piece between the line ends before it
\* and its own, and a position that is saved or read from is at a line end, or
\* behind the last unit of a file the writer has left.

Units(f) == 1 .. Len(files[f])

\* A line is begun once, in one file, and is where the writer is until it ends.
WrittenOnce ==
    /\ writing \subseteq Event
    /\ \A e \in Event :
          /\ written[e] <= Size[e]
          /\ e \in writing => 0 < written[e] /\ written[e] < Size[e] /\ writing = {e}
    /\ \A f \in File : \A i \in Units(f) :
          LET e == files[f][i][1]
          IN  /\ 0 < files[f][i][2] /\ files[f][i][2] <= written[e]
              /\ e \in writing => f = path
    /\ \A f, g \in File : \A i \in Units(f), j \in Units(g) : files[f][i][1] = files[g][j][1] => f = g

\* The units of a line follow each other, from the one after start.
LineAt(f, e, start) ==
    /\ start + written[e] <= Len(files[f])
    /\ \A i \in Units(f) :
          /\ files[f][i][1] = e <=> start < i /\ i <= start + written[e]
          /\ files[f][i][1] = e => files[f][i][2] = i - start

LinesPlaced ==
    /\ \A f \in Whole : \A i \in Units(f) : \E start \in Nat : LineAt(f, files[f][i][1], start)
    /\ path \in Whole => \A e \in writing : Len(files[path]) > 0 /\ files[path][Len(files[path])][1] = e

\* An event whose line no file holds to the end, nor ever will.
Lost(e) ==
    /\ written[e] > 0
    /\ e \in writing => path \in cut
    /\ \A f \in Whole : \A i \in Units(f) : files[f][i] # <<e, Size[e]>>

Hopeless(e) == e \in Poison \/ Size[e] > LineLimit \/ Lost(e)

\* A position between two lines, or behind what a rotation cut short.
Between(f, n) ==
    f \in Whole /\ n # 0 =>
        /\ n <= Len(files[f])
        /\ EndsLine(files[f][n]) \/ (f < path /\ n = Len(files[f]))

DropsAreRight ==
    /\ \A e \in dead : e \in Event /\ Hopeless(e)
    /\ pc = "drop" => Hopeless(item.event)
    /\ pc \in {"post", "drop", "advance"} => Between(handle, item.next)
    /\ saved # Corrupt => Between(saved.file, saved.offset)

\* The file at the path is never older than the open one.
PathAhead ==
    /\ handle <= path
    /\ pc = "check" => handle <= stat.file /\ stat.file <= path
    /\ pc \in HasHandle \ {"check"} /\ drain => handle < path

DropInv == WrittenOnce /\ LinesPlaced /\ DropsAreRight /\ PathAhead

LEMMA UnitIs ==
    ASSUME IInv, NEW f \in File
    PROVE  /\ files[f] \in Seq(Event \X Nat) /\ Len(files[f]) \in Nat
           /\ \A i \in Units(f) :
                 /\ files[f][i] \in Event \X Nat /\ files[f][i][1] \in Event /\ files[f][i][2] \in Nat
                 /\ files[f][i] = <<files[f][i][1], files[f][i][2]>>
<1>1. files[f] \in Seq(Event \X Nat) /\ Len(files[f]) \in Nat
  BY DEF IInv, Typed
<1>2. ASSUME NEW i \in Units(f)
      PROVE  /\ files[f][i] \in Event \X Nat /\ files[f][i][1] \in Event /\ files[f][i][2] \in Nat
             /\ files[f][i] = <<files[f][i][1], files[f][i][2]>>
  <2>1. files[f][i] \in Event \X Nat
    BY <1>1, <1>2 DEF Units
  <2>2. QED
    BY <2>1
<1>3. QED
  BY <1>1, <1>2

\* Numbers of events.
LEMMA EventNumbers ==
    ASSUME IInv, NEW e \in Event
    PROVE  written[e] \in Nat /\ Size[e] \in Nat \ {0}
BY ShipperAssumption DEF IInv, Typed, ShipperAssumption

-----------------------------------------------------------------------------
\* A unit more

LEMMA GrownUnits ==
    ASSUME IInv, NEW e \in Event, WriteUnit(e)
    PROVE  /\ written' = [written EXCEPT ![e] = written[e] + 1]
           /\ path' = path /\ cut' = cut /\ Whole' = Whole
           /\ writing' = IF written[e] + 1 = Size[e] THEN {} ELSE {e}
           /\ path \in File /\ Len(files[path]) \in Nat
           /\ Len(files'[path]) = Len(files[path]) + 1
           /\ files'[path][Len(files[path]) + 1] = <<e, written[e] + 1>>
           /\ \A i \in Units(path) : files'[path][i] = files[path][i]
           /\ \A f \in File \ {path} : files'[f] = files[f]
<1>1. path \in File /\ files[path] \in Seq(Event \X Nat) /\ written[e] \in Nat
  BY EventNumbers DEF IInv, Typed
<1>2. files' = [files EXCEPT ![path] = Append(files[path], <<e, written[e] + 1>>)]
  BY DEF WriteUnit
<1>3. /\ files'[path] = Append(files[path], <<e, written[e] + 1>>)
      /\ \A f \in File \ {path} : files'[f] = files[f]
  BY <1>1, <1>2 DEF IInv, Typed
<1>4. <<e, written[e] + 1>> \in Event \X Nat
  BY <1>1
<1>5. QED
  BY <1>1, <1>3, <1>4 DEF WriteUnit, Whole, Units

LEMMA WriteUnitOnce ==
    ASSUME IInv, WrittenOnce, NEW e \in Event, WriteUnit(e)
    PROVE  WrittenOnce'
<1> DEFINE n == Len(files[path]) + 1
<1>1. /\ written' = [written EXCEPT ![e] = written[e] + 1]
      /\ path' = path /\ path \in File
      /\ writing' = IF written[e] + 1 = Size[e] THEN {} ELSE {e}
      /\ Len(files[path]) \in Nat
      /\ Len(files'[path]) = n
      /\ files'[path][n] = <<e, written[e] + 1>>
      /\ \A i \in Units(path) : files'[path][i] = files[path][i]
      /\ \A f \in File \ {path} : files'[f] = files[f]
  BY GrownUnits
<1>2. \A a \in Event : written[a] \in Nat /\ Size[a] \in Nat
  BY EventNumbers
<1>3. written[e] < Size[e] /\ (writing = {e} \/ (writing = {} /\ written[e] = 0))
  BY DEF WriteUnit
<1>4. \A a \in Event : written'[a] = IF a = e THEN written[e] + 1 ELSE written[a]
  BY <1>1 DEF IInv, Typed
<1>5. ASSUME NEW f \in File, NEW i \in 1 .. Len(files'[f])
      PROVE  \/ f = path /\ i = n /\ files'[f][i] = <<e, written[e] + 1>>
             \/ i \in Units(f) /\ files'[f][i] = files[f][i]
  BY <1>1, <1>5 DEF Units
<1>6. ASSUME NEW f \in File, NEW i \in Units(f), files[f][i][1] = e
      PROVE  f = path
  <2>1. 0 < files[f][i][2] /\ files[f][i][2] <= written[e] /\ files[f][i][2] \in Nat
    BY <1>6, UnitIs DEF WrittenOnce
  <2>2. writing = {e}
    BY <1>2, <1>3, <2>1
  <2>3. QED
    BY <1>6, <2>2 DEF WrittenOnce
<1> HIDE DEF n
<1>7. /\ writing' \subseteq Event
      /\ \A a \in Event :
            /\ written'[a] <= Size[a]
            /\ a \in writing' => 0 < written'[a] /\ written'[a] < Size[a] /\ writing' = {a}
  BY <1>1, <1>2, <1>3, <1>4 DEF WrittenOnce
<1>8. ASSUME NEW f \in File, NEW i \in 1 .. Len(files'[f])
      PROVE  /\ 0 < files'[f][i][2] /\ files'[f][i][2] <= written'[files'[f][i][1]]
             /\ files'[f][i][1] \in writing' => f = path'
  <2>1. CASE f = path /\ i = n /\ files'[f][i] = <<e, written[e] + 1>>
    BY <1>1, <1>2, <1>4, <2>1
  <2>2. CASE i \in Units(f) /\ files'[f][i] = files[f][i]
    <3>1. /\ 0 < files[f][i][2] /\ files[f][i][2] <= written[files[f][i][1]]
          /\ files[f][i][2] \in Nat /\ files[f][i][1] \in Event
      BY <2>2, UnitIs DEF WrittenOnce
    <3>2. written[files[f][i][1]] <= written'[files[f][i][1]]
      BY <1>2, <1>4, <3>1
    <3>3. written'[files[f][i][1]] \in Nat /\ written[files[f][i][1]] \in Nat
      BY <1>2, <1>4, <3>1
    <3>4. files[f][i][1] \in writing' => f = path'
      BY <1>1, <1>6, <2>2
    <3>5. QED
      BY <2>2, <3>1, <3>2, <3>3, <3>4
  <2>3. QED
    BY <1>5, <1>8, <2>1, <2>2
<1>9. ASSUME NEW f \in File, NEW g \in File, NEW i \in 1 .. Len(files'[f]),
             NEW j \in 1 .. Len(files'[g]), files'[f][i][1] = files'[g][j][1]
      PROVE  f = g
  <2>1. CASE i \in Units(f) /\ files'[f][i] = files[f][i] /\ j \in Units(g) /\ files'[g][j] = files[g][j]
    BY <1>9, <2>1 DEF WrittenOnce
  <2>2. CASE f = path /\ files'[f][i] = <<e, written[e] + 1>>
    BY <1>5, <1>6, <1>9, <2>2
  <2>3. CASE g = path /\ files'[g][j] = <<e, written[e] + 1>>
    BY <1>5, <1>6, <1>9, <2>3
  <2>4. QED
    BY <1>5, <2>1, <2>2, <2>3
<1>10. QED
  BY <1>7, <1>8, <1>9 DEF WrittenOnce, Units

LEMMA WriteUnitPlaced ==
    ASSUME IInv, WrittenOnce, LinesPlaced, NEW e \in Event, WriteUnit(e)
    PROVE  LinesPlaced'
<1> DEFINE n == Len(files[path]) + 1
<1>1. /\ written' = [written EXCEPT ![e] = written[e] + 1]
      /\ path' = path /\ path \in File /\ Whole' = Whole
      /\ writing' = IF written[e] + 1 = Size[e] THEN {} ELSE {e}
      /\ Len(files[path]) \in Nat
      /\ Len(files'[path]) = n
      /\ files'[path][n] = <<e, written[e] + 1>>
      /\ \A i \in Units(path) : files'[path][i] = files[path][i]
      /\ \A f \in File \ {path} : files'[f] = files[f]
  BY GrownUnits
<1>2. \A a \in Event : written[a] \in Nat /\ Size[a] \in Nat
  BY EventNumbers
<1>3. written[e] < Size[e] /\ (writing = {e} \/ (writing = {} /\ written[e] = 0))
  BY DEF WriteUnit
<1>4. \A a \in Event : written'[a] = IF a = e THEN written[e] + 1 ELSE written[a]
  BY <1>1 DEF IInv, Typed
<1>5. \A f \in File : Len(files[f]) \in Nat /\ \A i \in Units(f) : files[f][i][1] \in Event
  BY UnitIs
<1>6. ASSUME NEW f \in File, NEW i \in Units(f), files[f][i][1] = e
      PROVE  f = path /\ writing = {e} /\ written[e] > 0
  <2>1. 0 < files[f][i][2] /\ files[f][i][2] <= written[e] /\ files[f][i][2] \in Nat
    BY <1>6, UnitIs DEF WrittenOnce
  <2>2. writing = {e}
    BY <1>2, <1>3, <2>1
  <2>3. QED
    BY <1>2, <1>6, <2>1, <2>2 DEF WrittenOnce
\* The line of another event stays where it is.
<1>7. ASSUME NEW f \in Whole, NEW a \in Event \ {e}, NEW start \in Nat, LineAt(f, a, start)
      PROVE  LineAt(f, a, start)'
  <2>1. written'[a] = written[a] /\ written[a] \in Nat /\ f \in File
    BY <1>2, <1>4 DEF Whole
  <2>2. CASE f # path
    BY <1>1, <1>7, <2>1, <2>2 DEF LineAt, Units
  <2>3. CASE f = path
    <3>1. start + written[a] <= Len(files'[f])
      BY <1>1, <1>2, <1>7, <2>1, <2>3 DEF LineAt
    <3>2. ASSUME NEW i \in 1 .. Len(files'[f])
          PROVE  /\ files'[f][i][1] = a <=> start < i /\ i <= start + written[a]
                 /\ files'[f][i][1] = a => files'[f][i][2] = i - start
      <4>1. CASE i = n
        BY <1>1, <1>7, <2>1, <2>3, <4>1 DEF LineAt
      <4>2. CASE i # n
        <5>1. i \in Units(f) /\ files'[f][i] = files[f][i]
          BY <1>1, <2>3, <3>2, <4>2 DEF Units
        <5>2. QED
          BY <1>7, <5>1 DEF LineAt
      <4>3. QED
        BY <4>1, <4>2
    <3>3. QED
      BY <2>1, <3>1, <3>2 DEF LineAt, Units
  <2>4. QED
    BY <2>2, <2>3
\* The line of e is begun at the end of the file, or goes on there.
<1>8. ASSUME path \in Whole
      PROVE  \E start \in Nat : LineAt(path, e, start)'
  <2>1. CASE \E i \in Units(path) : files[path][i][1] = e
    <3>1. PICK start \in Nat : LineAt(path, e, start)
      BY <1>8, <2>1 DEF LinesPlaced
    <3>2. writing = {e} /\ written[e] > 0
      BY <1>1, <1>6, <2>1
    <3>3. Len(files[path]) > 0 /\ files[path][Len(files[path])][1] = e
      BY <1>8, <3>2 DEF LinesPlaced
    <3>4. Len(files[path]) <= start + written[e]
      BY <1>1, <3>1, <3>3 DEF LineAt, Units
    <3>5. Len(files[path]) = start + written[e]
      BY <1>1, <1>2, <3>1, <3>4 DEF LineAt
    <3>6. ASSUME NEW i \in 1 .. Len(files'[path])
          PROVE  /\ files'[path][i][1] = e <=> start < i /\ i <= start + (written[e] + 1)
                 /\ files'[path][i][1] = e => files'[path][i][2] = i - start
      <4>1. CASE i = n
        BY <1>1, <1>2, <3>5, <4>1
      <4>2. CASE i # n
        <5>1. i \in Units(path) /\ files'[path][i] = files[path][i]
          BY <1>1, <3>6, <4>2 DEF Units
        <5>2. i <= start + written[e]
          BY <3>5, <5>1 DEF Units
        <5>3. QED
          BY <1>2, <3>1, <5>1, <5>2 DEF LineAt
      <4>3. QED
        BY <4>1, <4>2
    <3>7. LineAt(path, e, start)'
      BY <1>1, <1>2, <1>4, <3>5, <3>6 DEF LineAt, Units
    <3>8. QED
      BY <3>7
  <2>2. CASE \A i \in Units(path) : files[path][i][1] # e
    <3>1. written[e] = 0
      <4>1. SUFFICES ASSUME writing = {e} PROVE FALSE
        BY <1>3
      <4>2. Len(files[path]) > 0 /\ files[path][Len(files[path])][1] = e
        BY <1>8, <4>1 DEF LinesPlaced
      <4>3. QED
        BY <1>1, <2>2, <4>2 DEF Units
    <3> PICK start \in Nat : start = Len(files[path])
      BY <1>1
    <3>2. ASSUME NEW i \in 1 .. Len(files'[path])
          PROVE  /\ files'[path][i][1] = e <=> start < i /\ i <= start + 1
                 /\ files'[path][i][1] = e => files'[path][i][2] = i - start
      <4>1. CASE i = n
        BY <1>1, <3>1, <4>1
      <4>2. CASE i # n
        <5>1. i \in Units(path) /\ files'[path][i] = files[path][i]
          BY <1>1, <3>2, <4>2 DEF Units
        <5>2. QED
          BY <1>1, <2>2, <5>1 DEF Units
      <4>3. QED
        BY <4>1, <4>2
    <3>3. written'[e] = 1 /\ start + 1 <= Len(files'[path])
      BY <1>1, <1>4, <3>1
    <3>4. start \in Nat /\ LineAt(path, e, start)'
      BY <1>1, <3>2, <3>3 DEF LineAt, Units
    <3>5. QED
      BY <3>4
  <2>3. QED
    BY <2>1, <2>2
<1>9. ASSUME NEW f \in Whole, NEW i \in 1 .. Len(files'[f])
      PROVE  \E start \in Nat : LineAt(f, files[f][i][1], start)'
  <2>1. CASE files'[f][i][1] = e
    <3>1. f = path
      <4>1. SUFFICES ASSUME f # path PROVE FALSE
        OBVIOUS
      <4>2. i \in Units(f) /\ files[f][i][1] = e /\ f \in File
        BY <1>1, <1>9, <2>1, <4>1 DEF Units, Whole
      <4>3. QED
        BY <1>6, <4>1, <4>2
    <3>2. QED
      BY <1>1, <1>8, <2>1, <3>1 DEF LineAt
  <2>2. CASE files'[f][i][1] # e
    <3>1. i \in Units(f) /\ files'[f][i] = files[f][i] /\ f \in File
      BY <1>1, <1>9, <2>2 DEF Units, Whole
    <3>2. PICK start \in Nat : LineAt(f, files[f][i][1], start)
      BY <3>1 DEF LinesPlaced
    <3>3. files[f][i][1] \in Event \ {e}
      BY <1>5, <2>2, <3>1
    <3>4. QED
      BY <1>7, <3>1, <3>2, <3>3
  <2>3. QED
    BY <2>1, <2>2
<1>10. path \in Whole => \A a \in writing' : Len(files'[path]) > 0 /\ files'[path][Len(files'[path])][1] = a
  BY <1>1
<1>11. QED
  BY <1>1, <1>9, <1>10 DEF LinesPlaced, Units

-----------------------------------------------------------------------------
\* What the log's own steps leave of positions and of what is lost

LEMMA GrownFilesDropRight ==
    ASSUME IInv, DropInv, Whole' \subseteq Whole,
           \A f \in Whole' :
               /\ Len(files[f]) <= Len(files'[f])
               /\ \A i \in 1 .. Len(files[f]) : files'[f][i] = files[f][i]
               /\ Len(files'[f]) > Len(files[f]) => f = path,
           path \in File, path' \in File, path <= path',
           \A e \in Event : Lost(e) => Lost(e)',
           path' # path => pc \notin {"adopt", "open"},
           UNCHANGED <<dead, saved, pc, handle, mem, stat, drain, item>>
    PROVE  DropsAreRight' /\ PathAhead'
<1>1. \A e \in Event : Hopeless(e) => Hopeless(e)'
  BY DEF Hopeless
<1>2. \A f \in Whole' : Len(files[f]) \in Nat /\ Len(files'[f]) \in Int
  BY UnitIs DEF Whole
<1>3. ASSUME NEW f, NEW m \in Nat, Between(f, m)
      PROVE  Between(f, m)'
  <2> SUFFICES ASSUME f \in Whole', m # 0
               PROVE  /\ m <= Len(files'[f])
                      /\ EndsLine(files'[f][m]) \/ (f < path' /\ m = Len(files'[f]))
    BY DEF Between, EndsLine
  <2>1. /\ f \in Whole /\ f \in File /\ m <= Len(files[f])
        /\ EndsLine(files[f][m]) \/ (f < path /\ m = Len(files[f]))
    BY <1>3 DEF Between, Whole
  <2>2. /\ Len(files[f]) <= Len(files'[f]) /\ files'[f][m] = files[f][m]
        /\ Len(files'[f]) > Len(files[f]) => f = path
    BY <1>2, <2>1
  <2>3. f \in Nat /\ path \in Nat /\ path' \in Nat
    BY <2>1 DEF File
  <2>4. QED
    BY <1>2, <2>1, <2>2, <2>3
<1>4. pc = "drop" => item.event \in Event
  BY DEF IInv, Followed, ItemIsNext
<1>5. pc \in {"post", "drop", "advance"} => item.next \in Nat
  BY DEF IInv, Followed, ItemIsNext
<1>6. saved # Corrupt => saved.offset \in Nat
  BY DEF IInv, Typed, Position
<1>7. DropsAreRight'
  BY <1>1, <1>3, <1>4, <1>5, <1>6 DEF DropInv, DropsAreRight
<1>8. PathAhead'
  <2>1. handle \in Nat /\ stat.file \in Nat /\ path \in Nat /\ path' \in Nat
    BY DEF IInv, Typed, Position, File
  <2>2. QED
    BY <2>1 DEF DropInv, PathAhead
<1>9. QED
  BY <1>7, <1>8

LEMMA WriteUnitDropInv == ASSUME IInv, DropInv, NEW e \in Event, WriteUnit(e) PROVE DropInv'
<1>1. WrittenOnce' /\ LinesPlaced'
  BY WriteUnitOnce, WriteUnitPlaced DEF DropInv
<1>2. /\ written' = [written EXCEPT ![e] = written[e] + 1]
      /\ path' = path /\ path \in File /\ Whole' = Whole /\ cut' = cut
      /\ writing' = IF written[e] + 1 = Size[e] THEN {} ELSE {e}
      /\ Len(files[path]) \in Nat
      /\ Len(files'[path]) = Len(files[path]) + 1
      /\ files'[path][Len(files[path]) + 1] = <<e, written[e] + 1>>
      /\ \A i \in Units(path) : files'[path][i] = files[path][i]
      /\ \A f \in File \ {path} : files'[f] = files[f]
  BY GrownUnits
<1>3. \A f \in Whole' :
         /\ Len(files[f]) <= Len(files'[f])
         /\ \A i \in 1 .. Len(files[f]) : files'[f][i] = files[f][i]
         /\ Len(files'[f]) > Len(files[f]) => f = path
  <2> SUFFICES ASSUME NEW f \in Whole'
               PROVE  /\ Len(files[f]) <= Len(files'[f])
                      /\ \A i \in 1 .. Len(files[f]) : files'[f][i] = files[f][i]
                      /\ Len(files'[f]) > Len(files[f]) => f = path
    OBVIOUS
  <2>1. f \in File /\ Len(files[f]) \in Nat
    BY UnitIs DEF Whole
  <2>2. CASE f = path
    BY <1>2, <2>2 DEF Units
  <2>3. CASE f # path
    BY <1>2, <2>1, <2>3
  <2>4. QED
    BY <2>2, <2>3
<1>4. ASSUME NEW a \in Event, Lost(a)
      PROVE  Lost(a)'
  <2>1. written'[a] > 0 /\ written[a] > 0
    BY <1>2, <1>4, EventNumbers DEF IInv, Typed, Lost
  <2>2. a = e => writing = {e} /\ path \in cut
    BY <2>1, <1>4 DEF WriteUnit, Lost
  <2>3. a \in writing' => path' \in cut'
    BY <1>2, <2>2
  <2>4. ASSUME NEW f \in Whole, NEW i \in 1 .. Len(files'[f])
        PROVE  files'[f][i] # <<a, Size[a]>>
    <3>1. CASE i \in Units(f) /\ files'[f][i] = files[f][i]
      BY <1>4, <3>1 DEF Lost
    <3>2. CASE f = path /\ files'[f][i] = <<e, written[e] + 1>>
      BY <2>2, <2>4, <3>2 DEF Whole
    <3>3. QED
      BY <1>2, <2>4, <3>1, <3>2 DEF Units, Whole
  <2>5. QED
    BY <1>2, <2>1, <2>3, <2>4 DEF Lost, Units
<1>5. UNCHANGED <<dead, saved, pc, handle, mem, stat, drain, item>>
  BY DEF WriteUnit, shipperVars
<1>6. path <= path'
  BY <1>2 DEF File
<1>7. DropsAreRight' /\ PathAhead'
  BY <1>2, <1>3, <1>4, <1>5, <1>6, GrownFilesDropRight
<1>8. QED
  BY <1>1, <1>7 DEF DropInv

LEMMA TruncateDropInv == IInv /\ DropInv /\ Truncate => DropInv'
<1> SUFFICES ASSUME IInv, DropInv, Truncate PROVE DropInv'
  OBVIOUS
<1>1. /\ files' = [files EXCEPT ![path] = <<>>] /\ cut' = cut \cup {path}
      /\ UNCHANGED <<path, written, writing, dead, saved, pc, handle, mem, stat, drain, item>>
  BY DEF Truncate, shipperVars
<1>2. path \in File
  BY DEF IInv, Typed
<1>3. files'[path] = <<>> /\ \A f \in File \ {path} : files'[f] = files[f]
  BY <1>1, <1>2 DEF IInv, Typed
<1>4. Whole' = Whole \ {path} /\ path \notin Whole'
  BY <1>1 DEF Whole
<1>5. \A f \in Whole' : files'[f] = files[f] /\ Len(files[f]) \in Nat /\ f \in File
  BY <1>3, <1>4, UnitIs DEF Whole
<1>6. \A f \in File : \A i \in 1 .. Len(files'[f]) : i \in Units(f) /\ files'[f][i] = files[f][i]
  BY <1>3 DEF Units
<1>7. WrittenOnce'
  <2>1. /\ writing' \subseteq Event
        /\ \A e \in Event :
              /\ written'[e] <= Size[e]
              /\ e \in writing' => 0 < written'[e] /\ written'[e] < Size[e] /\ writing' = {e}
    BY <1>1 DEF DropInv, WrittenOnce
  <2>2. \A f \in File : \A i \in 1 .. Len(files'[f]) :
           /\ 0 < files'[f][i][2] /\ files'[f][i][2] <= written'[files'[f][i][1]]
           /\ files'[f][i][1] \in writing' => f = path'
    BY <1>1, <1>6 DEF DropInv, WrittenOnce
  <2>3. \A f, g \in File : \A i \in 1 .. Len(files'[f]), j \in 1 .. Len(files'[g]) :
           files'[f][i][1] = files'[g][j][1] => f = g
    BY <1>6 DEF DropInv, WrittenOnce
  <2>4. QED
    BY <2>1, <2>2, <2>3 DEF WrittenOnce, Units
<1>8. LinesPlaced'
  <2>1. ASSUME NEW f \in Whole', NEW i \in 1 .. Len(files'[f])
        PROVE  \E start \in Nat : LineAt(f, files[f][i][1], start)'
    <3>1. f \in Whole /\ files'[f] = files[f]
      BY <1>4, <1>5
    <3>2. PICK start \in Nat : LineAt(f, files[f][i][1], start)
      BY <2>1, <3>1 DEF DropInv, LinesPlaced, Units
    <3>3. LineAt(f, files[f][i][1], start)'
      BY <1>1, <3>1, <3>2 DEF LineAt, Units
    <3>4. QED
      BY <3>1, <3>3
  <2>2. QED
    BY <1>1, <1>4, <2>1 DEF LinesPlaced, Units
<1>9. \A e \in Event : Lost(e) => Lost(e)'
  BY <1>1, <1>4, <1>5 DEF Lost, Units
<1>10. DropsAreRight' /\ PathAhead'
  <2>1. path <= path' /\ path' \in File
    BY <1>1, <1>2 DEF File
  <2>2. Whole' \subseteq Whole
    BY <1>4
  <2>3. QED
    BY <1>1, <1>2, <1>5, <1>9, <2>1, <2>2, GrownFilesDropRight
<1>11. QED
  BY <1>7, <1>8, <1>10 DEF DropInv

LEMMA RenameDropInv == IInv /\ Sound /\ DropInv /\ Rename => DropInv'
<1> SUFFICES ASSUME IInv, Sound, DropInv, Rename PROVE DropInv'
  OBVIOUS
<1>1. /\ path < MaxFiles /\ path' = path + 1 /\ writing' = {} /\ pc \notin {"adopt", "open"}
      /\ UNCHANGED <<files, written, cut, dead, saved, pc, handle, mem, stat, drain, item>>
  BY DEF Rename, Sound, shipperVars
<1>2. path \in File /\ path' \in File /\ path <= path'
  BY <1>1, ShipperAssumption DEF IInv, Typed, File, ShipperAssumption
<1>3. Whole' = Whole
  BY <1>1 DEF Whole
<1>4. WrittenOnce'
  BY <1>1 DEF DropInv, WrittenOnce, Units
<1>5. LinesPlaced'
  <2>1. \A f, e, start : LineAt(f, e, start) => LineAt(f, e, start)'
    BY <1>1 DEF LineAt, Units
  <2>2. \A f \in Whole : \A i \in Units(f) : \E start \in Nat : LineAt(f, files[f][i][1], start)
    BY DEF DropInv, LinesPlaced
  <2>3. QED
    BY <1>1, <1>3, <2>1, <2>2 DEF LinesPlaced, Units
<1>6. \A e \in Event : Lost(e) => Lost(e)'
  BY <1>1, <1>3 DEF Lost, Units
<1>7. \A f \in Whole' : Len(files[f]) \in Nat
  BY <1>3, UnitIs DEF Whole
<1>8. DropsAreRight' /\ PathAhead'
  BY <1>1, <1>2, <1>3, <1>6, <1>7, GrownFilesDropRight
<1>9. QED
  BY <1>4, <1>5, <1>8 DEF DropInv

-----------------------------------------------------------------------------
\* The steps of the backend and of the shipper

\* A step that leaves the log alone has to answer for what it drops, for the
\* position it saves and for the item it takes.
LEMMA OffTheLog ==
    ASSUME IInv, DropInv, UNCHANGED logVars,
           \A e \in dead' : e \in dead \/ (e \in Event /\ Hopeless(e)),
           pc' = "drop" => Hopeless(item'.event),
           pc' \in {"post", "drop", "advance"} => Between(handle', item'.next),
           saved' # Corrupt => Between(saved'.file, saved'.offset),
           PathAhead'
    PROVE  DropInv'
<1>1. files' = files /\ path' = path /\ cut' = cut /\ written' = written /\ writing' = writing
      /\ Whole' = Whole
  BY DEF logVars, Whole
<1>2. \A e : Hopeless(e)' <=> Hopeless(e)
  BY <1>1 DEF Hopeless, Lost, Units
<1>3. \A f, n : Between(f, n)' <=> Between(f, n)
  BY <1>1 DEF Between, EndsLine
<1>4. WrittenOnce'
  BY <1>1 DEF DropInv, WrittenOnce, Units
<1>5. LinesPlaced'
  <2>1. \A f, e, start : LineAt(f, e, start)' <=> LineAt(f, e, start)
    BY <1>1 DEF LineAt, Units
  <2>2. QED
    BY <1>1, <2>1 DEF DropInv, LinesPlaced, Units
<1>6. \A e \in dead' : e \in Event /\ Hopeless(e)
  BY DEF DropInv, DropsAreRight
<1>7. DropsAreRight'
  <2>1. \A e \in dead' : e \in Event /\ Hopeless(e)'
    BY <1>2, <1>6
  <2>2. pc' = "drop" => Hopeless(item.event)'
    BY <1>2
  <2>3. pc' \in {"post", "drop", "advance"} => Between(handle, item.next)'
    BY <1>3
  <2>4. saved' # Corrupt => Between(saved.file, saved.offset)'
    BY <1>3
  <2>5. QED
    BY <2>1, <2>2, <2>3, <2>4 DEF DropsAreRight, Corrupt
<1>8. QED
  BY <1>4, <1>5, <1>7 DEF DropInv

\* The position the shipper works from is one that was saved.
LEMMA MemBetween ==
    ASSUME IInv, DropInv, pc # "down"
    PROVE  Between(mem.file, mem.offset)
<1>1. mem = Loaded
  BY DEF IInv, Followed, MemIsSaved
<1>2. CASE saved = Corrupt
  BY <1>1, <1>2 DEF Loaded, Start0, Between
<1>3. CASE saved # Corrupt
  BY <1>1, <1>3 DEF Loaded, DropInv, DropsAreRight
<1>4. QED
  BY <1>2, <1>3

LEMMA AnswerDropInv ==
    ASSUME IInv, DropInv, NEW k \in Slots, request[k] # Free, NEW step, Answer(k, step),
           step \in {"post", "drop", "advance"},
           step = "drop" => request[k].event \in Poison
    PROVE  DropInv'
<1>1. /\ UNCHANGED logVars
      /\ pc' = IF waiting = k THEN step ELSE pc
      /\ UNCHANGED <<handle, mem, stat, drain, item, saved, dead>>
  BY DEF Answer
<1>2. waiting = k => k # 0 /\ pc = "post" /\ request[k].event = item.event
  BY ShipperAssumption DEF IInv, Followed, AnswerIsAwaited, ShipperAssumption
<1>3. pc' = "drop" => Hopeless(item'.event)
  BY <1>1, <1>2 DEF DropInv, DropsAreRight, Hopeless
<1>4. pc' \in {"post", "drop", "advance"} => Between(handle', item'.next)
  BY <1>1, <1>2 DEF DropInv, DropsAreRight
<1>5. saved' # Corrupt => Between(saved'.file, saved'.offset)
  BY <1>1 DEF DropInv, DropsAreRight
<1>6. PathAhead'
  BY <1>1, <1>2 DEF DropInv, PathAhead, HasHandle, logVars
<1>7. QED
  BY <1>1, <1>3, <1>4, <1>5, <1>6, OffTheLog

LEMMA BackendDropInv ==
    ASSUME IInv, DropInv, NEW k \in Slots, Ingest(k) \/ IngestFails(k)
    PROVE  DropInv'
<1>1. CASE IngestLooks(k)
  <2> DEFINE e == request[k].event
  <2>1. request[k] # Free
    BY <1>1, Arrived DEF IngestLooks
  <2>2. CASE e \in Poison
    BY <1>1, <2>1, <2>2, AnswerDropInv DEF IngestLooks
  <2>3. CASE e \notin Poison /\ rows[e] > 0
    BY <1>1, <2>1, <2>3, AnswerDropInv DEF IngestLooks
  <2>4. CASE e \notin Poison /\ ~(rows[e] > 0)
    <3>1. UNCHANGED <<logVars, pc, handle, mem, stat, drain, item, dead, saved>>
      BY <1>1, <2>4 DEF IngestLooks, shipperVars
    <3>2. QED
      BY <3>1, OffTheLog DEF DropInv, DropsAreRight, PathAhead, logVars
  <2>5. QED
    BY <2>2, <2>3, <2>4
<1>2. CASE IngestStores(k)
  BY <1>2, Arrived, AnswerDropInv DEF IngestStores
<1>3. CASE IngestFails(k)
  BY <1>3, AnswerDropInv DEF IngestFails
<1>4. QED
  BY <1>1, <1>2, <1>3 DEF Ingest

\* A step of the loop outside post, drop and advance, which saves a position
\* between two lines or none.
LEMMA LoopDropInv ==
    ASSUME IInv, DropInv, UNCHANGED <<logVars, dead>>,
           pc' \notin {"post", "drop", "advance"},
           \/ saved' = saved
           \/ saved' = Corrupt
           \/ Between(saved'.file, saved'.offset),
           PathAhead'
    PROVE  DropInv'
<1>1. saved' # Corrupt => Between(saved'.file, saved'.offset)
  BY DEF DropInv, DropsAreRight
<1>2. QED
  BY <1>1, OffTheLog

LEMMA ExitDropInv ==
    ASSUME IInv, DropInv, Exit, UNCHANGED <<logVars, dead, saved>>
    PROVE  DropInv'
<1>1. pc' = "down" /\ handle' = 0 /\ path' = path /\ path \in Nat
  BY DEF Exit, logVars, IInv, Typed, File
<1>2. PathAhead'
  BY <1>1 DEF PathAhead, HasHandle
<1>3. QED
  BY <1>1, <1>2, LoopDropInv

\* What _consume_record takes from a line end on: a line, one that is too long,
\* or what nobody will ever finish.
LEMMA ConsumedIsRight ==
    ASSUME IInv, DropInv, pc = "read",
           Consume(files[handle], mem.offset, drain) # NoItem
    PROVE  LET next == Consume(files[handle], mem.offset, drain)
           IN  /\ next.kind # "line" => Hopeless(next.event)
               /\ Between(handle, next.next)
<1> DEFINE units == files[handle]
           offset == mem.offset
           next == Consume(units, offset, drain)
           ends == {i \in (offset + 1) .. Len(units) : EndsLine(units[i])}
           end == CHOOSE i \in ends : \A j \in ends : i <= j
           last == units[end][1]
<1>1. handle \in File /\ mem.file = handle /\ handle # 0 /\ offset \in Nat /\ drain \in BOOLEAN
  BY DEF IInv, Typed, Followed, HandleIsCurrent, HasHandle, Position
<1>2. /\ units \in Seq(Event \X Nat) /\ Len(units) \in Nat
      /\ \A i \in Units(handle) :
            /\ units[i] \in Event \X Nat /\ units[i][1] \in Event /\ units[i][2] \in Nat
            /\ units[i] = <<units[i][1], units[i][2]>>
  BY <1>1, UnitIs
<1>3. Between(handle, offset)
  BY <1>1, MemBetween
<1>4. \A i \in Units(handle) :
         /\ 0 < units[i][2] /\ units[i][2] <= written[units[i][1]]
         /\ written[units[i][1]] \in Nat /\ written[units[i][1]] > 0
         /\ written[units[i][1]] <= Size[units[i][1]] /\ Size[units[i][1]] \in Nat \ {0}
  BY <1>1, <1>2, EventNumbers DEF DropInv, WrittenOnce
\* In a file that was cut, nothing stands whole any more.
<1>5. ASSUME handle \in cut, NEW i \in Units(handle)
      PROVE  Lost(units[i][1])
  <2> DEFINE e == units[i][1]
  <2>1. e \in writing => path \in cut
    BY <1>1, <1>5 DEF DropInv, WrittenOnce
  <2>2. ASSUME NEW f \in Whole, NEW j \in Units(f), files[f][j] = <<e, Size[e]>>
        PROVE  FALSE
    <3>1. files[f][j][1] = e /\ f \in File /\ f # handle
      BY <1>5, <2>2 DEF Whole
    <3>2. QED
      BY <1>1, <1>5, <2>2, <3>1 DEF DropInv, WrittenOnce
  <2>3. QED
    BY <1>4, <1>5, <2>1, <2>2 DEF Lost
<1>6. CASE ends # {}
  <2>1. end \in ends /\ \A j \in ends : end <= j
    <3>1. ends \in SUBSET Nat
      BY <1>1, <1>2
    <3>2. \E i \in ends : \A j \in ends : i <= j
      BY <1>6, <3>1, SmallestExists
    <3> HIDE DEF ends
    <3>3. QED
      BY <3>2
  <2>2. next = [kind  |-> IF end - offset > LineLimit THEN "too_long"
                          ELSE IF units[offset + 1] = <<last, 1>> THEN "line" ELSE "fragment",
                event |-> last, next |-> end]
    BY <1>6 DEF Consume
  <2> HIDE DEF end
  <2>3. /\ end \in offset + 1 .. Len(units) /\ EndsLine(units[end]) /\ end \in Units(handle)
        /\ \A i \in offset + 1 .. end - 1 : ~EndsLine(units[i])
    BY <1>1, <1>2, <2>1 DEF Units
  <2>4. next.event = last /\ next.next = end
    BY <2>2
  <2>5. Between(handle, end)
    BY <1>1, <1>2, <2>3 DEF Between
  <2>6. CASE handle \in cut
    BY <1>5, <2>3, <2>4, <2>5, <2>6 DEF Hopeless
  <2>7. CASE handle \in Whole
    <3>1. PICK start \in Nat : LineAt(handle, last, start)
      BY <2>3, <2>7 DEF DropInv, LinesPlaced
    <3>2. units[end][2] = Size[last] /\ Size[last] \in Nat \ {0} /\ last \in Event
      BY <1>2, <1>4, <2>3 DEF EndsLine
    <3>3. end = start + Size[last]
      BY <1>2, <2>3, <3>1, <3>2 DEF LineAt, Units
    <3>4. start >= offset
      <4>1. SUFFICES ASSUME start < offset PROVE FALSE
        BY <1>1
      <4>2. offset \in Units(handle) /\ offset < end
        BY <1>1, <1>2, <2>3, <4>1 DEF Units
      <4>3. EndsLine(units[offset])
        BY <1>1, <1>2, <1>3, <2>3, <2>7, <4>1, <4>2 DEF Between, Units
      <4>4. units[offset][1] = last /\ units[offset][2] = offset - start
        <5>1. end <= start + written[last]
          BY <2>3, <3>1 DEF LineAt
        <5>2. offset <= start + written[last]
          BY <1>1, <1>4, <2>3, <4>2, <5>1, EventNumbers, <3>2
        <5>3. QED
          BY <3>1, <4>1, <4>2, <5>2 DEF LineAt
      <4>5. QED
        BY <1>1, <3>2, <3>3, <4>2, <4>3, <4>4 DEF EndsLine
    <3>5. start = offset
      <4>1. SUFFICES ASSUME start > offset PROVE FALSE
        BY <1>1, <3>4
      <4> DEFINE first == offset + 1
      <4>2. first \in Units(handle) /\ end \in Units(handle) /\ first <= end
            /\ first <= start
        BY <1>1, <1>2, <2>3, <4>1 DEF Units
      <4>3. \A i \in first .. end - 1 : ~EndsLine(units[i])
        BY <2>3
      <4> HIDE DEF first
      <4>4. units[first][1] = last
        BY <2>7, <4>2, <4>3 DEF IInv, LinesWhole, Units
      <4>5. QED
        BY <1>1, <3>1, <4>1, <4>2, <4>4 DEF LineAt, Units
    <3>6. units[offset + 1] = <<last, 1>>
      <4> DEFINE first == offset + 1
      <4>1. first \in Units(handle)
        BY <1>1, <1>2, <2>3 DEF Units
      <4>2. written[last] \in Nat /\ end <= start + written[last]
        BY <1>4, <2>3, <3>1 DEF LineAt
      <4>3. start < first /\ first <= start + written[last]
        BY <1>1, <2>3, <3>5, <4>2
      <4>4. first - start = 1
        BY <1>1, <3>5
      <4> HIDE DEF first
      <4>5. units[first][1] = last /\ units[first][2] = first - start
        BY <3>1, <4>1, <4>3 DEF LineAt
      <4>6. units[first] = <<last, 1>>
        BY <1>2, <4>1, <4>4, <4>5
      <4>7. QED
        BY <4>6 DEF first
    <3>7. end - offset = Size[last]
      BY <1>1, <3>2, <3>3, <3>5
    <3>8. next.kind = IF Size[last] > LineLimit THEN "too_long" ELSE "line"
      BY <2>2, <3>6, <3>7
    <3>9. QED
      BY <2>4, <2>5, <3>8 DEF Hopeless
  <2>8. QED
    BY <1>1, <2>6, <2>7 DEF Whole
<1>7. CASE ends = {}
  <2>1. drain /\ offset < Len(units)
    BY <1>7 DEF Consume
  <2>2. next = [kind |-> "truncated", event |-> units[offset + 1][1], next |-> Len(units)]
    BY <1>7, <2>1 DEF Consume
  <2> DEFINE first == offset + 1
             e == units[first][1]
  <2>3. next.event = e /\ next.next = Len(units) /\ first \in Units(handle)
    <3>1. next.event = e /\ next.next = Len(units)
      BY <2>2
    <3>2. first \in 1 .. Len(units)
      BY <1>1, <1>2, <2>1
    <3>3. QED
      BY <3>1, <3>2 DEF Units
  <2>4. handle < path
    BY <2>1 DEF DropInv, PathAhead, HasHandle
  <2>5. Between(handle, Len(units))
    BY <1>2, <2>4 DEF Between
  <2>6. CASE handle \in cut
    BY <1>5, <2>3, <2>5, <2>6 DEF Hopeless
  <2>7. CASE handle \in Whole
    <3>1. PICK start \in Nat : LineAt(handle, e, start)
      BY <2>3, <2>7 DEF DropInv, LinesPlaced
    <3>2. written[e] \in Nat /\ written[e] > 0 /\ written[e] <= Size[e] /\ Size[e] \in Nat
      BY <1>4, <2>3
    <3>3. e \notin writing
      <4>1. SUFFICES ASSUME e \in writing PROVE FALSE
        OBVIOUS
      <4>2. handle = path
        BY <1>1, <2>3, <4>1 DEF DropInv, WrittenOnce
      <4>3. QED
        BY <1>1, <2>4, <4>2 DEF File
    <3>4. start < first /\ first <= start + written[e]
      BY <2>3, <3>1 DEF LineAt
    <3>5. written[e] # Size[e]
      <4>1. SUFFICES ASSUME written[e] = Size[e] PROVE FALSE
        OBVIOUS
      <4> DEFINE p == start + written[e]
      <4>2. p \in Units(handle) /\ p \in (offset + 1) .. Len(units)
        BY <1>1, <1>2, <3>1, <3>2, <3>4 DEF LineAt, Units
      <4>3. start < p /\ p <= start + written[e] /\ p - start = written[e]
        BY <3>2
      <4> HIDE DEF p
      <4>4. units[p][1] = e /\ units[p][2] = written[e]
        BY <3>1, <4>2, <4>3 DEF LineAt
      <4>5. EndsLine(units[p])
        BY <4>1, <4>4 DEF EndsLine
      <4>6. QED
        BY <1>7, <4>2, <4>5
    <3>6. ASSUME NEW f \in Whole, NEW j \in Units(f), files[f][j] = <<e, Size[e]>>
          PROVE  FALSE
      <4>1. f \in File /\ files[f][j][1] = e /\ files[f][j][2] = Size[e]
        BY <3>6 DEF Whole
      <4>2. Size[e] <= written[e]
        BY <3>6, <4>1 DEF DropInv, WrittenOnce
      <4>3. QED
        BY <3>2, <3>5, <4>2
    <3>7. Lost(e)
      BY <3>2, <3>3, <3>6 DEF Lost
    <3>8. QED
      BY <2>3, <2>5, <3>7 DEF Hopeless
  <2>8. QED
    BY <1>1, <2>6, <2>7 DEF Whole
<1>8. QED
  BY <1>6, <1>7

LEMMA ShipperDropInv == IInv /\ Sound /\ DropInv /\ Shipper => DropInv'
<1> SUFFICES ASSUME IInv, Sound, DropInv, Shipper PROVE DropInv'
  OBVIOUS
<1>0. /\ PathAhead /\ DropsAreRight
      /\ handle \in Nat /\ path \in Nat /\ stat.file \in Nat /\ path \in File
  BY DEF DropInv, IInv, Typed, Position, File
<1>1. CASE StartUp
  <2>1. pc = "down" /\ pc' = "poll" /\ UNCHANGED <<logVars, handle, dead, saved>>
    BY <1>1 DEF StartUp, GoTo
  <2>2. PathAhead'
    BY <1>0, <2>1 DEF PathAhead, HasHandle, logVars
  <2>3. QED
    BY <2>1, <2>2, LoopDropInv
<1>2. CASE Poll
  <2>1. UNCHANGED <<logVars, dead, saved>>
    BY <1>2 DEF Poll
  <2>2. CASE ~running
    BY <1>2, <2>1, <2>2, ExitDropInv DEF Poll
  <2>3. CASE running
    <3>1. /\ pc' \in {"adopt", "check"} /\ handle' = handle /\ path' = path
          /\ stat' = [offset |-> Len(files[path]), file |-> path]
      BY <1>2, <2>1, <2>3 DEF Poll, GoTo, logVars
    <3>2. stat'.file = path
      BY <3>1
    <3>3. PathAhead'
      BY <1>0, <3>1, <3>2 DEF PathAhead, HasHandle
    <3>4. QED
      BY <2>1, <3>1, <3>3, LoopDropInv
  <2>4. QED
    BY <2>2, <2>3
<1>3. CASE Adopt
  <2> DEFINE otherFile == mem.file # 0 /\ mem.file # stat.file
             position == [offset |-> IF otherFile \/ stat.offset < mem.offset THEN 0 ELSE mem.offset,
                          file   |-> stat.file]
  <2>1. /\ pc = "adopt" /\ UNCHANGED <<logVars, handle, stat, drain, dead>>
        /\ pc' \in {"open", "poll"}
        /\ saved' = saved \/ saved' = position
    BY <1>3 DEF Adopt, Save, GoTo
  <2>2. Between(position.file, position.offset)
    <3>1. Between(mem.file, mem.offset) /\ (mem.file = 0 => mem.offset = 0)
      BY <2>1, MemBetween, MemSettled
    <3>2. position.file = stat.file /\ (position.offset = 0 \/ (position.offset = mem.offset /\ (mem.file = 0 \/ mem.file = stat.file)))
      OBVIOUS
    <3> HIDE DEF position
    <3>3. QED
      BY <3>1, <3>2 DEF Between
  <2> HIDE DEF position
  <2>3. PathAhead'
    BY <1>0, <2>1 DEF PathAhead, HasHandle, logVars
  <2>4. QED
    BY <2>1, <2>2, <2>3, LoopDropInv
<1>4. CASE Open
  <2>1. /\ pc' = "read" /\ handle' = path /\ drain' = FALSE /\ UNCHANGED <<logVars, dead, saved>>
    BY <1>4 DEF Open, GoTo
  <2>2. PathAhead'
    BY <1>0, <2>1 DEF PathAhead, logVars
  <2>3. QED
    BY <2>1, <2>2, LoopDropInv
<1>5. CASE Check
  <2>1. /\ pc = "check" /\ drain' = (stat.file # handle)
        /\ UNCHANGED <<logVars, handle, dead>>
        /\ pc' \in {"read", "poll"}
        /\ saved' = saved \/ saved' = [offset |-> 0, file |-> handle]
    BY <1>5 DEF Check, Save, GoTo
  <2>2. saved' = saved \/ Between(saved'.file, saved'.offset)
    BY <2>1 DEF Between
  <2>3. drain' => stat.file # handle
    BY <2>1
  <2>4. stat.file # handle => handle < path
    BY <1>0, <2>1 DEF PathAhead
  <2>5. PathAhead'
    BY <1>0, <2>1, <2>3, <2>4 DEF PathAhead, HasHandle, logVars
  <2>6. QED
    BY <2>1, <2>2, <2>5, LoopDropInv
<1>6. CASE Read
  <2> DEFINE next == Consume(files[handle], mem.offset, drain)
  <2>1. pc = "read" /\ UNCHANGED <<logVars, dead, saved>>
    BY <1>6 DEF Read
  <2>2. \/ /\ next # NoItem /\ item' = next
           /\ pc' = IF next.kind = "line" THEN "post" ELSE "drop"
           /\ UNCHANGED <<handle, drain>>
        \/ /\ pc' \in {"reopen", "poll"} /\ (pc' = "reopen" => drain)
           /\ UNCHANGED <<handle, drain>>
        \/ Exit
    BY <1>6 DEF Read, GoTo
  <2>3. CASE Exit
    BY <2>1, <2>3, ExitDropInv
  <2>4. CASE pc' \in {"reopen", "poll"} /\ UNCHANGED <<handle, drain>>
    <3>1. PathAhead'
      BY <1>0, <2>1, <2>4 DEF PathAhead, HasHandle, logVars
    <3>2. QED
      BY <2>1, <2>4, <3>1, LoopDropInv
  <2>5. CASE /\ next # NoItem /\ item' = next
             /\ pc' = IF next.kind = "line" THEN "post" ELSE "drop"
             /\ UNCHANGED <<handle, drain>>
    <3>1. (next.kind # "line" => Hopeless(next.event)) /\ Between(handle, next.next)
      BY <2>1, <2>5, ConsumedIsRight
    <3> HIDE DEF next
    <3>2. PathAhead'
      BY <1>0, <2>1, <2>5 DEF PathAhead, HasHandle, logVars
    <3>3. pc' = "drop" => Hopeless(item'.event)
      BY <2>5, <3>1
    <3>4. Between(handle', item'.next)
      BY <2>5, <3>1
    <3>5. saved' # Corrupt => Between(saved'.file, saved'.offset)
      BY <1>0, <2>1 DEF DropsAreRight
    <3>6. QED
      BY <2>1, <3>2, <3>3, <3>4, <3>5, OffTheLog
  <2>6. QED
    BY <2>2, <2>3, <2>4, <2>5
<1>7. CASE Reopen
  <2>1. /\ handle' = 0 /\ drain' = FALSE /\ UNCHANGED <<logVars, dead>>
        /\ pc' = "poll"
        /\ saved' = saved \/ saved' = [offset |-> 0, file |-> stat.file]
    BY <1>7 DEF Reopen, Save, GoTo
  <2>2. saved' = saved \/ Between(saved'.file, saved'.offset)
    BY <2>1 DEF Between
  <2>3. PathAhead'
    BY <1>0, <2>1 DEF PathAhead, HasHandle, logVars
  <2>4. QED
    BY <2>1, <2>2, <2>3, LoopDropInv
<1>8. CASE Post
  <2>1. pc = "post" /\ UNCHANGED <<logVars, dead, saved>>
    BY <1>8 DEF Post
  <2>2. CASE ~running
    BY <1>8, <2>1, <2>2, ExitDropInv DEF Post
  <2>3. CASE running
    <3>1. UNCHANGED <<pc, handle, mem, stat, drain, item>>
      BY <1>8, <2>3 DEF Post
    <3>2. PathAhead'
      BY <1>0, <2>1, <3>1 DEF PathAhead, logVars
    <3>3. QED
      BY <1>0, <2>1, <3>1, <3>2, OffTheLog DEF DropsAreRight
  <2>4. QED
    BY <2>2, <2>3
<1>9. CASE Drop
  <2>1. /\ pc = "drop" /\ pc' = "advance" /\ dead' = dead \cup {item.event}
        /\ UNCHANGED <<logVars, handle, stat, drain, item, saved>>
    BY <1>9 DEF Drop, Sound, GoTo
  <2>2. item.event \in Event /\ Hopeless(item.event)
    BY <1>0, <2>1 DEF IInv, Followed, ItemIsNext, DropsAreRight
  <2>3. PathAhead'
    BY <1>0, <2>1 DEF PathAhead, HasHandle, logVars
  <2>4. QED
    BY <1>0, <2>1, <2>2, <2>3, OffTheLog DEF DropsAreRight
<1>10. CASE Advance
  <2> DEFINE position == [mem EXCEPT !.offset = item.next]
  <2>1. /\ pc = "advance" /\ UNCHANGED <<logVars, handle, stat, drain, dead>>
        /\ pc' \in {"read", "poll"}
        /\ saved' = saved \/ saved' = position
    BY <1>10 DEF Advance, Save, GoTo
  <2>2. position.file = handle /\ position.offset = item.next
    BY <2>1 DEF IInv, Typed, Position, Followed, HandleIsCurrent, HasHandle
  <2> HIDE DEF position
  <2>3. saved' = saved \/ Between(saved'.file, saved'.offset)
    BY <1>0, <2>1, <2>2 DEF DropsAreRight
  <2>4. PathAhead'
    BY <1>0, <2>1 DEF PathAhead, HasHandle, logVars
  <2>5. QED
    BY <2>1, <2>3, <2>4, LoopDropInv
<1>11. QED
  BY <1>1, <1>2, <1>3, <1>4, <1>5, <1>6, <1>7, <1>8, <1>9, <1>10 DEF Shipper

LEMMA NextDropInv == IInv /\ Sound /\ DropInv /\ [Next]_vars => DropInv'
<1> SUFFICES ASSUME IInv, Sound, DropInv, [Next]_vars PROVE DropInv'
  OBVIOUS
<1>1. CASE Log
  BY <1>1, WriteUnitDropInv, TruncateDropInv, RenameDropInv DEF Log
<1>2. CASE \E k \in Slots : Ingest(k) \/ IngestFails(k)
  BY <1>2, BackendDropInv
<1>3. CASE Shipper
  BY <1>3, ShipperDropInv
<1>4. CASE TimeOut \/ Terminate \/ UNCHANGED vars
  <2>1. UNCHANGED <<logVars, pc, handle, stat, drain, item, dead, saved>>
    BY <1>4 DEF TimeOut, Terminate, vars, shipperVars
  <2>2. QED
    BY <2>1, OffTheLog DEF DropInv, DropsAreRight, PathAhead, logVars
<1>5. CASE Kill
  BY <1>5, ExitDropInv DEF Kill
<1>6. CASE LoseState
  <2>1. /\ pc = "down" /\ saved' = Corrupt
        /\ UNCHANGED <<logVars, pc, handle, stat, drain, item, dead>>
    BY <1>6 DEF LoseState, shipperVars
  <2>2. QED
    BY <2>1, OffTheLog DEF DropInv, DropsAreRight, PathAhead, logVars
<1>7. QED
  BY <1>1, <1>2, <1>3, <1>4, <1>5, <1>6 DEF Next, Fault

\* An outage, a race, a retry, a rotation or a line that is still being written
\* never has an event dropped that the backend would take (_consume_record, the
\* answers of _ship_line, the drain of run()).
THEOREM NothingGoodDropped ==
    ASSUME ~DeadLetterMayFail, ~RenameWhileOpening
    PROVE  Spec => []OnlyHopelessDropped
<1>1. Sound
  BY DEF Sound
<1>2. Init => DropInv
  <2> SUFFICES ASSUME Init PROVE DropInv
    OBVIOUS
  <2>1. \A f \in File : Len(files[f]) = 0
    BY DEF Init
  <2>2. WrittenOnce
    BY <2>1, ShipperAssumption DEF Init, WrittenOnce, Units, ShipperAssumption
  <2>3. LinesPlaced
    BY <2>1 DEF Init, LinesPlaced, Units, Whole
  <2>4. DropsAreRight /\ PathAhead
    BY DEF Init, DropsAreRight, PathAhead, Between, Start0, HasHandle
  <2>5. QED
    BY <2>2, <2>3, <2>4 DEF DropInv
<1>3. IInv /\ DropInv /\ [Next]_vars => DropInv'
  BY <1>1, NextDropInv
<1>4. DropInv => OnlyHopelessDropped
  BY DEF DropInv, DropsAreRight, Hopeless, Lost, OnlyHopelessDropped, StandsWhole, Whole, Units
<1>5. Spec => []IInv
  BY Inductive
<1>6. QED
  BY <1>2, <1>3, <1>4, <1>5, PTL DEF Spec

-----------------------------------------------------------------------------
\* The saved position

Advances ==
    saved # Corrupt /\ saved' # Corrupt /\ saved'.file = saved.file /\ saved.file \in Whole
    => saved'.offset >= saved.offset

LEMMA SavingAdvances ==
    ASSUME IInv, [Next]_vars
    PROVE  Advances
<1> SUFFICES ASSUME saved # Corrupt, saved' # Corrupt, saved' # saved,
                    saved'.file = saved.file, saved.file \in Whole
             PROVE  saved'.offset >= saved.offset
  <2>1. saved # Corrupt => saved.offset \in Nat
    BY DEF IInv, Typed, Position
  <2>2. QED
    BY <2>1 DEF Advances
<1>1. Adopt \/ Check \/ Reopen \/ Advance
  BY DEF Next, Log, WriteUnit, Truncate, Rename, Ingest, IngestLooks, IngestStores, IngestFails,
         Answer, Shipper, StartUp, Poll, Open, Read, Post, Drop, TimeOut,
         Fault, Terminate, Kill, LoseState, vars
<1>2. pc # "down" /\ mem = saved
  BY <1>1 DEF Adopt, Check, Reopen, Advance, IInv, Followed, MemIsSaved, Loaded
<1>3. mem.offset \in Nat /\ saved.file # 0
  BY DEF IInv, Typed, Position, Whole, File
<1>4. CASE Adopt
  <2>1. pc = "adopt"
    BY <1>4 DEF Adopt
  <2>2. saved' = [offset |-> IF (mem.file # 0 /\ mem.file # stat.file) \/ stat.offset < mem.offset
                             THEN 0 ELSE mem.offset,
                  file   |-> stat.file]
    BY <1>2, <1>4 DEF Adopt, Save
  <2>3. mem.file = stat.file
    BY <1>2, <2>2
  <2>4. mem.offset <= stat.offset
    BY <1>2, <2>1, <2>3 DEF IInv, Followed, StatIsFresh
  <2>5. stat.offset \in Nat
    BY DEF IInv, Typed, Position
  <2>6. QED
    BY <1>2, <1>3, <2>2, <2>3, <2>4, <2>5
<1>5. CASE Check
  <2>1. pc = "check" /\ stat.file = handle /\ stat.offset < mem.offset
    BY <1>2, <1>5 DEF Check
  <2>2. mem.file = handle
    BY <2>1 DEF IInv, Followed, HandleIsCurrent, HasHandle
  <2>3. mem.offset <= stat.offset /\ stat.offset \in Nat
    BY <1>2, <2>1, <2>2 DEF IInv, Typed, Position, Followed, StatIsFresh
  <2>4. QED
    BY <1>3, <2>1, <2>3
<1>6. CASE Reopen
  <2>1. pc = "reopen" /\ saved' = [offset |-> 0, file |-> stat.file]
    BY <1>2, <1>6 DEF Reopen, Save
  <2>2. stat.file # handle /\ mem.file = handle
    BY <2>1 DEF IInv, Followed, HandleIsCurrent, StatIsFresh, HasHandle
  <2>3. QED
    BY <1>2, <2>1, <2>2
<1>7. CASE Advance
  <2>1. pc = "advance" /\ saved' = [mem EXCEPT !.offset = item.next]
    BY <1>2, <1>7 DEF Advance, Save
  <2>2. mem.file = handle
    BY <2>1 DEF IInv, Followed, HandleIsCurrent, HasHandle
  <2>3. mem.offset <= item.next /\ item.next \in Nat
    BY <1>2, <2>1, <2>2 DEF IInv, Followed, ItemIsNext
  <2>4. saved'.offset = item.next
    BY <2>1 DEF IInv, Typed, Position
  <2>5. QED
    BY <1>2, <1>3, <2>3, <2>4
<1>8. QED
  BY <1>1, <1>4, <1>5, <1>6, <1>7

\* The saved position of a file never moves back while the file only grows
\* (_state_for_opened_file and the truncation test of run(), line 524).
THEOREM PositionOnlyAdvances ==
    ASSUME ~DeadLetterMayFail, ~RenameWhileOpening
    PROVE  Spec => SavedOnlyAdvances
<1>1. IInv /\ [Next]_vars =>
        [saved # Corrupt /\ saved' # Corrupt
           /\ saved'.file = saved.file /\ saved.file \notin cut \cup {0}
         => saved'.offset >= saved.offset]_vars
  <2> SUFFICES ASSUME IInv, [Next]_vars, saved # Corrupt, saved' # Corrupt,
                      saved'.file = saved.file, saved.file \notin cut \cup {0}
               PROVE  saved'.offset >= saved.offset
    OBVIOUS
  <2>1. saved.file \in Whole
    BY DEF IInv, Typed, Position, Whole
  <2>2. QED
    BY <2>1, SavingAdvances DEF Advances
<1>2. QED
  BY <1>1, Inductive, PTL DEF Spec, SavedOnlyAdvances

-----------------------------------------------------------------------------
\* The dashboard.  SelectInSeq finds the first element of its kind.

LEMMA FieldIs ==
    ASSUME NEW error, NEW tag, Len(error) \in Nat, NEW i \in 1 .. Len(error),
           error[i].tag = tag, \A j \in 1 .. (i - 1) : error[j].tag # tag
    PROVE  FieldOf(error, tag) = error[i].value
<1> DEFINE I == {j \in 1 .. Len(error) : error[j].tag = tag}
<1>1. i \in I /\ \A j \in I : i <= j
  OBVIOUS
<1>2. Min(I) = i
  BY <1>1 DEF Min
<1>3. QED
  BY <1>1, <1>2 DEF SelectInSeq, FieldOf

LEMMA NoField ==
    ASSUME NEW error, NEW tag, Len(error) \in Nat,
           \A j \in 1 .. Len(error) : error[j].tag # tag
    PROVE  FieldOf(error, tag) = None
BY DEF SelectInSeq, FieldOf

LEMMA FirstIs ==
    ASSUME NEW seq, Len(seq) \in Nat, NEW i \in 1 .. Len(seq),
           seq[i] # None, \A j \in 1 .. (i - 1) : seq[j] = None
    PROVE  FirstOf(seq) = seq[i]
<1> DEFINE I == {j \in 1 .. Len(seq) : seq[j] # None}
<1>1. i \in I /\ \A j \in I : i <= j
  OBVIOUS
<1>2. Min(I) = i
  BY <1>1 DEF Min
<1>3. QED
  BY <1>1, <1>2 DEF SelectInSeq, FirstOf

LEMMA NothingFirst ==
    ASSUME NEW seq, Len(seq) \in Nat, \A j \in 1 .. Len(seq) : seq[j] = None
    PROVE  FirstOf(seq) = None
BY DEF SelectInSeq, FirstOf

\* What the shipper reads in a matched rule's message: its id, and no score,
\* whatever the request echoes.
LEMMA RuleIsRead ==
    ASSUME NEW t, NEW id \in Nat \ EvaluationRules
    PROVE  /\ MessageRuleId(RuleMessage(t, id)) = id
           /\ ScoreText(RuleMessage(t, id)) = None
<1> DEFINE m == RuleMessage(t, id)
<1>1. m.data = None /\ Len(m.error) = 4 /\ m.error[1].tag = "narration"
      /\ m.error[2].tag = "id" /\ m.error[2].value = id
  BY DEF RuleMessage
<1> HIDE DEF m
<1>2. FieldOf(m.error, "id") = id
  BY <1>1, FieldIs
<1>3. MessageRuleId(m) = id
  BY <1>1, <1>2 DEF MessageRuleId
<1>4. ScoreText(m) = None
  BY <1>3 DEF ScoreText
<1>5. QED
  BY <1>3, <1>4 DEF m

\* And in the evaluation rule's: its id and the transaction's score.
LEMMA EvaluationIsRead ==
    ASSUME NEW t, t.score \in Nat, t.structured \in BOOLEAN, t.summary \in BOOLEAN
    PROVE  /\ MessageRuleId(EvaluationMessage(t)) = 949110
           /\ ScoreText(EvaluationMessage(t)) = t.score
<1> DEFINE m == EvaluationMessage(t)
<1>0. 949110 # None /\ t.score # None /\ 949110 \in EvaluationRules
  BY MappingAssumption DEF EvaluationRules
<1>1. CASE t.structured
  <2> DEFINE d == [id |-> 949110, msg |-> t.score, severity |-> "emergency"]
  <2>1. m.data = d /\ d \in [id : Nat, msg : Nat, severity : DenySeverities]
    BY <1>1 DEF EvaluationMessage, DenySeverities
  <2>2. m.data # None /\ m.data.id = 949110 /\ m.data.msg = t.score
    BY <2>1, MappingAssumption
  <2> HIDE DEF m
  <2>3. MessageRuleId(m) = 949110
    BY <1>0, <2>2 DEF MessageRuleId
  <2> DEFINE texts == <<IF m.data = None THEN None ELSE m.data.msg,
                        FieldOf(m.error, "msg"), FieldOf(m.error, "narration")>>
  <2>4. texts[1] = t.score /\ Len(texts) = 3
    BY <2>2
  <2>5. ScoreText(m) = FirstOf(texts)
    BY <1>0, <2>3 DEF ScoreText
  <2> HIDE DEF texts
  <2>6. FirstOf(texts) = texts[1]
    BY <1>0, <2>4, FirstIs
  <2>7. QED
    BY <2>3, <2>4, <2>5, <2>6 DEF m
<1>2. CASE ~t.structured
  <2>1. /\ m.data = None /\ Len(m.error) = 4
        /\ m.error[1].tag = "narration" /\ m.error[2].tag = "id"
        /\ m.error[3].tag = "msg" /\ m.error[4].tag = "uri"
        /\ m.error[1].value = IF t.summary THEN t.score ELSE None
        /\ m.error[2].value = 949110
        /\ m.error[3].value = IF t.summary THEN None ELSE t.score
    BY <1>2 DEF EvaluationMessage
  <2> HIDE DEF m
  <2>2. FieldOf(m.error, "id") = 949110
    BY <2>1, FieldIs
  <2>3. FieldOf(m.error, "narration") = m.error[1].value
    BY <2>1, FieldIs
  <2>4. FieldOf(m.error, "msg") = m.error[3].value
    <3>1. \A j \in 1 .. (3 - 1) : m.error[j].tag # "msg"
      <4>1. \A j \in 1 .. (3 - 1) : j = 1 \/ j = 2
        OBVIOUS
      <4>2. QED
        BY <2>1, <4>1
    <3>2. 3 \in 1 .. Len(m.error) /\ Len(m.error) \in Nat
      BY <2>1
    <3>3. QED
      BY <2>1, <3>1, <3>2, FieldIs
  <2>5. MessageRuleId(m) = 949110
    BY <2>1, <2>2 DEF MessageRuleId
  <2> DEFINE texts == <<IF m.data = None THEN None ELSE m.data.msg,
                        FieldOf(m.error, "msg"), FieldOf(m.error, "narration")>>
  <2>6. /\ texts[1] = None /\ Len(texts) = 3
        /\ texts[2] = IF t.summary THEN None ELSE t.score
        /\ texts[3] = IF t.summary THEN t.score ELSE None
    BY <2>1, <2>3, <2>4
  <2>7. ScoreText(m) = FirstOf(texts)
    BY <1>0, <2>5 DEF ScoreText
  <2> HIDE DEF texts
  <2>8. CASE t.summary
    <3>1. \A j \in 1 .. (3 - 1) : texts[j] = None
      <4>1. \A j \in 1 .. (3 - 1) : j = 1 \/ j = 2
        OBVIOUS
      <4>2. QED
        BY <2>6, <2>8, <4>1
    <3>2. FirstOf(texts) = texts[3]
      <4>1. 3 \in 1 .. Len(texts) /\ Len(texts) \in Nat /\ texts[3] # None
        BY <1>0, <2>6, <2>8
      <4>2. QED
        BY <3>1, <4>1, FirstIs
    <3>3. QED
      BY <2>5, <2>6, <2>7, <2>8, <3>2 DEF m
  <2>9. CASE ~t.summary
    <3>1. FirstOf(texts) = texts[2]
      BY <1>0, <2>6, <2>9, FirstIs
    <3>2. QED
      BY <2>5, <2>6, <2>7, <2>9, <3>1 DEF m
  <2>10. QED
    BY <2>8, <2>9
<1>3. QED
  BY <1>1, <1>2

\* A policy as Coraza enforces it.
Policy == [threshold : Nat \ {0}, detect : BOOLEAN]

\* The messages of an audit event tell whether the evaluation rule matched, and
\* by which score.
LEMMA MessagesAreRead ==
    ASSUME NEW t \in Transactions, NEW mode \in Policy, NEW at,
           NEW messages, messages = AuditEvent(t, mode, at).messages
    PROVE  /\ ThresholdExceeded(messages) <=> Evaluated(t, mode)
           /\ ScoreFromMessages(messages) = IF Evaluated(t, mode) THEN t.score ELSE None
<1> DEFINE matched == [i \in DOMAIN t.rules |-> RuleMessage(t, t.rules[i])]
           evaluation == EvaluationMessage(t)
           n == Len(t.rules)
<1>1. /\ t.score \in Nat /\ t.structured \in BOOLEAN /\ t.summary \in BOOLEAN
      /\ t.rules \in Seq(Nat \ EvaluationRules)
  BY DashboardAssumption
<1>2. /\ n \in Nat /\ DOMAIN t.rules = 1 .. n
      /\ \A i \in 1 .. n : t.rules[i] \in Nat \ EvaluationRules
  BY <1>1
<1>3. /\ Len(matched) = n /\ DOMAIN matched = 1 .. n
      /\ \A i \in 1 .. n : matched[i] = RuleMessage(t, t.rules[i])
  BY <1>2
<1>4. ASSUME NEW i \in 1 .. n
      PROVE  MessageRuleId(matched[i]) \notin EvaluationRules /\ ScoreText(matched[i]) = None
  BY <1>2, <1>3, RuleIsRead
<1>5. MessageRuleId(evaluation) = 949110 /\ ScoreText(evaluation) = t.score
  BY <1>1, EvaluationIsRead
<1>6. matched \in Seq({matched[i] : i \in 1 .. n} \cup {evaluation})
  BY <1>2, <1>3
<1>7. messages = IF Evaluated(t, mode) THEN Append(matched, evaluation) ELSE matched
  BY DEF AuditEvent
<1> HIDE DEF matched, evaluation, n
<1>8. CASE Evaluated(t, mode)
  <2>1. messages = Append(matched, evaluation)
    BY <1>7, <1>8
  <2>2. /\ Len(messages) = n + 1 /\ DOMAIN messages = 1 .. n + 1
        /\ \A i \in 1 .. n : messages[i] = matched[i]
        /\ messages[n + 1] = evaluation
    BY <1>2, <1>3, <1>6, <2>1
  <2>3. ThresholdExceeded(messages)
    <3>1. n + 1 \in DOMAIN messages /\ MessageRuleId(messages[n + 1]) \in EvaluationRules
      BY <1>2, <1>5, <2>2 DEF EvaluationRules
    <3>2. QED
      BY <3>1 DEF ThresholdExceeded
  <2> DEFINE texts == [i \in DOMAIN messages |-> ScoreText(messages[i])]
  <2>4. /\ Len(texts) = n + 1 /\ texts[n + 1] = t.score
        /\ \A j \in 1 .. (n + 1) - 1 : texts[j] = None
    BY <1>2, <1>4, <1>5, <2>2
  <2>5. ScoreFromMessages(messages) = FirstOf(texts)
    BY DEF ScoreFromMessages
  <2> HIDE DEF texts
  <2> DEFINE last == n + 1
  <2>6. last \in 1 .. Len(texts) /\ Len(texts) \in Nat /\ texts[last] # None
    BY <1>1, <1>2, <2>4, MappingAssumption
  <2>7. \A j \in 1 .. (last - 1) : texts[j] = None
    BY <2>4
  <2>8. texts[last] = t.score
    BY <2>4
  <2> HIDE DEF last
  <2>9. FirstOf(texts) = t.score
    BY <2>6, <2>7, <2>8, FirstIs
  <2>10. QED
    BY <1>8, <2>3, <2>5, <2>9
<1>9. CASE ~Evaluated(t, mode)
  <2>1. messages = matched
    BY <1>6, <1>7, <1>9
  <2>2. /\ Len(messages) = n /\ DOMAIN messages = 1 .. n
        /\ \A i \in 1 .. n : messages[i] = matched[i]
    BY <1>3, <2>1
  <2>3. ~ThresholdExceeded(messages)
    BY <1>4, <2>2 DEF ThresholdExceeded
  <2> DEFINE texts == [i \in DOMAIN messages |-> ScoreText(messages[i])]
  <2>4. Len(texts) = n /\ \A j \in 1 .. n : texts[j] = None
    BY <1>2, <1>4, <2>2
  <2>5. ScoreFromMessages(messages) = FirstOf(texts)
    BY DEF ScoreFromMessages
  <2> HIDE DEF texts
  <2>6. FirstOf(texts) = None
    BY <1>2, <2>4, NothingFirst
  <2>7. QED
    BY <1>9, <2>3, <2>5, <2>6
<1>10. QED
  BY <1>8, <1>9

\* e is the event Coraza wrote of some transaction it inspected by some policy.
EmittedFor(e, t, mode, at) ==
    /\ e.event = AuditEvent(t, mode, at)
    /\ e.score = t.score /\ e.threshold = mode.threshold /\ e.flagged = t.flagged
    /\ e.reached = Reached(t, mode) /\ e.blocked = Blocked(t, mode)
    /\ e.scored = (t.variable \/ Evaluated(t, mode))
Emitted(e) == \E t \in Transactions, mode \in Policy, at \in Nat : EmittedFor(e, t, mode, at)

\* The verdict of such an event.
Verdict(e) == IF e.blocked THEN "deny" ELSE IF e.reached THEN "monitor" ELSE "allow"

\* What the shipper makes of it: a time, and for one that says whether it was
\* interrupted, the verdict.
LEMMA PayloadOfEmitted ==
    ASSUME NEW e, Emitted(e), NEW at \in Nat
    PROVE  /\ Payload(e.event, at).event_at \in Int
           /\ Payload(e.event, at).action \in Action
           /\ e.score \in Nat /\ e.threshold \in Nat \ {0}
           /\ e.scored \in BOOLEAN /\ e.blocked \in BOOLEAN
           /\ e.reached <=> e.score >= e.threshold
           /\ e.reached => e.blocked \/ e.scored
           /\ e.flagged => Payload(e.event, at).action = Verdict(e)
           /\ Payload(e.event, at).anomaly_score = IF e.scored THEN e.score ELSE None
<1> PICK t \in Transactions, mode \in Policy, when \in Nat : EmittedFor(e, t, mode, when)
  BY DEF Emitted
<1> DEFINE messages == e.event.messages
<1>1. /\ t.score \in Nat /\ mode.threshold \in Nat \ {0} /\ mode.detect \in BOOLEAN
      /\ t.denied \in BOOLEAN /\ t.flagged \in BOOLEAN /\ t.timed \in BOOLEAN /\ t.variable \in BOOLEAN
  BY DashboardAssumption DEF Policy
<1>2. /\ e.event = AuditEvent(t, mode, when)
      /\ e.score = t.score /\ e.threshold = mode.threshold /\ e.flagged = t.flagged
      /\ e.reached = Reached(t, mode) /\ e.blocked = Blocked(t, mode)
      /\ e.scored = (t.variable \/ Evaluated(t, mode))
  BY DEF EmittedFor
<1>3. /\ e.event.usable = TRUE
      /\ e.event.variable = IF t.variable THEN t.score ELSE None
      /\ e.event.timestamp = IF t.timed THEN (when \div Second) * Second ELSE None
      /\ e.event.interrupted = IF t.flagged THEN Blocked(t, mode) ELSE None
  BY <1>2 DEF AuditEvent
<1>4. /\ ThresholdExceeded(messages) <=> Evaluated(t, mode)
      /\ ScoreFromMessages(messages) = IF Evaluated(t, mode) THEN t.score ELSE None
  BY <1>2, MessagesAreRead
<1> HIDE DEF messages
<1>5. ActionOf(e.event) \in Action
  BY DEF ActionOf, Action
<1>6. Blocked(t, mode) \in BOOLEAN /\ Evaluated(t, mode) \in BOOLEAN
  BY DEF Blocked, Evaluated
<1>7. ASSUME e.flagged
      PROVE  ActionOf(e.event) = Verdict(e)
  <2>1. e.event.interrupted = Blocked(t, mode)
    BY <1>2, <1>3, <1>7
  <2>2. CASE Blocked(t, mode)
    <3>1. e.event.interrupted = TRUE
      BY <1>6, <2>1, <2>2
    <3>2. QED
      BY <1>2, <2>2, <3>1 DEF ActionOf, Verdict
  <2>3. CASE ~Blocked(t, mode)
    <3>1. e.event.interrupted = FALSE
      BY <1>6, <2>1, <2>3
    <3>2. ActionOf(e.event) = IF ThresholdExceeded(messages) THEN "monitor" ELSE "allow"
      BY <3>1 DEF ActionOf, messages
    <3>3. Evaluated(t, mode) <=> Reached(t, mode)
      BY <2>3 DEF Blocked, Evaluated
    <3>4. QED
      BY <1>2, <1>4, <2>3, <3>2, <3>3 DEF Verdict
  <2>4. QED
    BY <2>2, <2>3
<1>8. AnomalyScore(e.event) = IF e.scored THEN e.score ELSE None
  <2>1. t.score # None
    BY <1>1, MappingAssumption
  <2>2. CASE t.variable
    BY <1>2, <1>3, <2>1, <2>2 DEF AnomalyScore
  <2>3. CASE ~t.variable
    <3>1. AnomalyScore(e.event) = ScoreFromMessages(messages)
      BY <1>3, <2>3 DEF AnomalyScore, messages
    <3>2. QED
      BY <1>2, <1>4, <2>3, <3>1
  <2>4. QED
    BY <1>1, <2>2, <2>3
<1>9. Payload(e.event, at) =
        [event_at |-> IF e.event.timestamp = None THEN at ELSE e.event.timestamp,
         vhost |-> VhostOf(e.event), action |-> ActionOf(e.event),
         rule_id |-> RuleId(e.event), anomaly_score |-> AnomalyScore(e.event)]
  BY <1>3 DEF Payload
<1>10. Payload(e.event, at).event_at \in Int
  <2>1. (when \div Second) * Second \in Int
    BY DEF Second
  <2>2. QED
    BY <1>3, <1>9, <2>1
<1>11. /\ Payload(e.event, at).action = ActionOf(e.event)
       /\ Payload(e.event, at).anomaly_score = AnomalyScore(e.event)
  BY <1>9
<1>12. e.score \in Nat /\ e.threshold \in Nat \ {0} /\ (e.reached <=> e.score >= e.threshold)
  BY <1>1, <1>2 DEF Reached
<1>13. e.scored \in BOOLEAN /\ e.blocked \in BOOLEAN /\ (e.reached => e.blocked \/ e.scored)
  BY <1>1, <1>2, <1>6 DEF Blocked, Evaluated
<1>14. QED
  BY <1>5, <1>7, <1>8, <1>10, <1>11, <1>12, <1>13

\* The inductive invariant of the dashboard: what is on its way was written by
\* Coraza, and a row tells its verdict.
Severity(r) ==
    IF r.scored /\ r.score >= 2 * r.threshold THEN "high"
    ELSE IF r.blocked \/ r.reached THEN "medium" ELSE "low"

IsVerdict(r) ==
    /\ r.at \in Int /\ r.action \in Action
    /\ r.same => r.action = Verdict(r) /\ r.severity = Severity(r)

VerdictInv ==
    /\ policy \in Policy \cup {None} /\ enforced \in Policy /\ now \in Nat
    /\ \A e \in transit : Emitted(e)
    /\ \A r \in logs : IsVerdict(r)

\* A vhost without a policy, or with a deleted one, has the default threshold.
Default == [threshold |-> DefaultThreshold, detect |-> FALSE]

LEMMA DefaultIsPolicy == Default \in Policy /\ Mode \subseteq Policy
BY DashboardAssumption DEF Default, Policy

LEMMA IngestedVerdict ==
    ASSUME VerdictInv, NEW e \in transit, IngestLogEvent(e)
    PROVE  \A r \in logs' : IsVerdict(r)
<1> DEFINE p == Payload(e.event, now)
           threshold == InboundThresholdFor(p.vhost)
           row == [id |-> e.id, at |-> p.event_at, action |-> p.action, score |-> e.score,
                   severity |-> ClassifySeverity(p.action, p.anomaly_score, threshold),
                   same |-> threshold = e.threshold /\ e.flagged,
                   threshold |-> e.threshold, reached |-> e.reached,
                   blocked |-> e.blocked, scored |-> e.scored]
<1>1. logs' = logs \cup {row}
  BY DEF IngestLogEvent
<1>2. /\ p.event_at \in Int /\ p.action \in Action
      /\ e.score \in Nat /\ e.threshold \in Nat \ {0}
      /\ e.scored \in BOOLEAN /\ e.blocked \in BOOLEAN
      /\ e.reached <=> e.score >= e.threshold
      /\ e.reached => e.blocked \/ e.scored
      /\ e.flagged => p.action = Verdict(e)
      /\ p.anomaly_score = IF e.scored THEN e.score ELSE None
  BY PayloadOfEmitted DEF VerdictInv
<1> HIDE DEF p, threshold
<1>3. ASSUME threshold = e.threshold, e.flagged
      PROVE  ClassifySeverity(p.action, p.anomaly_score, threshold) = Severity(e)
  <2>1. e.score # None
    BY <1>2, MappingAssumption
  <2>2. p.action # "allow" <=> e.blocked \/ e.reached
    BY <1>2, <1>3 DEF Verdict
  <2>3. CASE e.scored
    BY <1>2, <1>3, <2>1, <2>2, <2>3 DEF ClassifySeverity, Severity
  <2>4. CASE ~e.scored
    BY <1>2, <1>3, <2>2, <2>4 DEF ClassifySeverity, Severity
  <2>5. QED
    BY <2>3, <2>4
<1>4. IsVerdict(row)
  <2>1. /\ row.at = p.event_at /\ row.action = p.action /\ row.score = e.score
        /\ row.threshold = e.threshold /\ row.reached = e.reached
        /\ row.blocked = e.blocked /\ row.scored = e.scored
        /\ row.same = (threshold = e.threshold /\ e.flagged)
        /\ row.severity = ClassifySeverity(p.action, p.anomaly_score, threshold)
    OBVIOUS
  <2> HIDE DEF row
  <2>2. Verdict(row) = Verdict(e) /\ Severity(row) = Severity(e)
    BY <2>1 DEF Verdict, Severity
  <2>3. row.same => threshold = e.threshold /\ e.flagged
    BY <2>1
  <2>4. QED
    BY <1>2, <1>3, <2>1, <2>2, <2>3 DEF IsVerdict
<1>5. QED
  BY <1>1, <1>4 DEF VerdictInv

LEMMA TransactEmits ==
    ASSUME VerdictInv, NEW t \in Transactions, Transact(t)
    PROVE  \A e \in transit' : Emitted(e)
<1> DEFINE mode == IF t.host \in Vhosts THEN enforced ELSE Default
           event == [id |-> Cardinality(transit) + Cardinality(logs),
                     event |-> AuditEvent(t, mode, now),
                     score |-> t.score, threshold |-> mode.threshold, flagged |-> t.flagged,
                     reached |-> Reached(t, mode), blocked |-> Blocked(t, mode),
                     scored |-> t.variable \/ Evaluated(t, mode)]
<1>1. transit' = transit \cup {event}
  BY DEF Transact, Default
<1>2. mode \in Policy /\ now \in Nat
  BY DefaultIsPolicy DEF VerdictInv
<1>3. EmittedFor(event, t, mode, now)
  BY DEF EmittedFor
<1> HIDE DEF mode, event
<1>4. Emitted(event)
  BY <1>2, <1>3 DEF Emitted
<1>5. QED
  BY <1>1, <1>4 DEF VerdictInv

LEMMA VerdictInductive ==
    ASSUME VerdictInv, [DashboardNext]_dashboard
    PROVE  VerdictInv'
<1>1. CASE \E t \in Transactions : Transact(t)
  <2> PICK t \in Transactions : Transact(t)
    BY <1>1
  <2>1. UNCHANGED <<policy, enforced, now, logs>>
    BY DEF Transact
  <2>2. \A e \in transit' : Emitted(e)
    BY TransactEmits
  <2>3. QED
    BY <2>1, <2>2 DEF VerdictInv
<1>2. CASE \E row \in Mode \cup {None} : EditPolicy(row)
  BY <1>2, DefaultIsPolicy DEF EditPolicy, VerdictInv
<1>3. CASE Apply
  <2>1. enforced' \in Policy
    BY <1>3, DefaultIsPolicy DEF Apply, VerdictInv, Default
  <2>2. QED
    BY <1>3, <2>1 DEF Apply, VerdictInv
<1>4. CASE Purge
  BY <1>4 DEF Purge, VerdictInv
<1>5. CASE Tick
  BY <1>5 DEF Tick, VerdictInv
<1>6. CASE \E e \in transit : IngestLogEvent(e)
  <2> PICK e \in transit : IngestLogEvent(e)
    BY <1>6
  <2>1. \A r \in logs' : IsVerdict(r)
    BY IngestedVerdict
  <2>2. UNCHANGED <<policy, enforced, now>> /\ transit' \subseteq transit
    BY DEF IngestLogEvent
  <2>3. QED
    BY <2>1, <2>2 DEF VerdictInv
<1>7. CASE UNCHANGED dashboard
  BY <1>7 DEF dashboard, VerdictInv
<1>8. QED
  BY <1>1, <1>2, <1>3, <1>4, <1>5, <1>6, <1>7 DEF DashboardNext

LEMMA VerdictInvariant == DashboardSpec => []VerdictInv
<1>1. DashboardInit => VerdictInv
  BY DefaultIsPolicy, DashboardAssumption DEF DashboardInit, VerdictInv
<1>2. QED
  BY <1>1, VerdictInductive, PTL DEF DashboardSpec

\* For any scores, thresholds, rules and echoed texts, the stored action and
\* severity are the verdict of Coraza (coraza_event_to_ingest,
\* classify_severity).
THEOREM VerdictsAreCorazas == DashboardSpec => []VerdictIsTrue
<1>1. VerdictInv => VerdictIsTrue
  BY DEF VerdictInv, IsVerdict, Verdict, Severity, VerdictIsTrue
<1>2. QED
  BY <1>1, VerdictInvariant, PTL

-----------------------------------------------------------------------------
\* The charts.  Whole seconds are counted from the whole second the window
\* starts in.

LEMMA Quotient ==
    ASSUME NEW x \in Nat, NEW b \in Nat \ {0}
    PROVE  x \div b \in Nat /\ (x \div b) * b <= x /\ x < (x \div b) * b + b
OBVIOUS

LEMMA HalfSeconds ==
    ASSUME NEW x \in Int
    PROVE  x \div 2 \in Int /\ 2 * (x \div 2) <= x /\ x <= 2 * (x \div 2) + 1
OBVIOUS

LEMMA ProductGrows ==
    ASSUME NEW m \in Nat, NEW n \in Nat, m <= n, NEW b \in Nat
    PROVE  m * b \in Nat /\ m * b <= n * b /\ (m + 1) * b = m * b + b
OBVIOUS

\* The bucket of a row of the window, and its edges.
LEMMA SlotHolds ==
    ASSUME now \in Int, NEW r, r.at \in Int, Start <= r.at, r.at < now
    PROVE  /\ Slot(r) \in Bucket
           /\ Start + Slot(r) * BucketSeconds * Second < r.at + Second
           /\ r.at < Start + (Slot(r) + 1) * BucketSeconds * Second
<1> DEFINE a == r.at
           s == Start
           x == (a \div 2) - (s \div 2)
           q == x \div BucketSeconds
           width == BucketSeconds * BucketCount
<1>1. BucketSeconds \in Nat \ {0} /\ BucketCount \in Nat \ {0}
  BY DashboardAssumption
<1>2. width \in Nat /\ s \in Int /\ now = s + 2 * width
  BY <1>1 DEF Start, Span, Second
<1>3. BucketIndex(r.at) = q
  BY DEF BucketIndex, Second
<1>4. a \in Int /\ s <= a /\ a < now
  OBVIOUS
<1> HIDE DEF a, s
<1>5. /\ a \div 2 \in Int /\ 2 * (a \div 2) <= a /\ a <= 2 * (a \div 2) + 1
      /\ s \div 2 \in Int /\ 2 * (s \div 2) <= s /\ s <= 2 * (s \div 2) + 1
  BY <1>2, <1>4, HalfSeconds
<1>6. x \in Nat /\ 2 * x <= a - s + 1 /\ a - s <= 2 * x + 1
  BY <1>2, <1>4, <1>5
<1> HIDE DEF x
<1>7. q \in Nat /\ q * BucketSeconds <= x /\ x < q * BucketSeconds + BucketSeconds
  BY <1>1, <1>6, Quotient
<1> HIDE DEF q
<1> DEFINE slot == Slot(r)
<1>8. slot = IF q < BucketCount THEN q ELSE BucketCount - 1
  BY <1>3 DEF Slot
<1> HIDE DEF slot
<1>9. slot \in Nat /\ slot <= q /\ slot \in Bucket
  BY <1>1, <1>7, <1>8 DEF Bucket
<1>10. /\ slot * BucketSeconds \in Nat /\ slot * BucketSeconds <= q * BucketSeconds
       /\ (slot + 1) * BucketSeconds = slot * BucketSeconds + BucketSeconds
  BY <1>1, <1>7, <1>9, ProductGrows
<1> DEFINE below == slot * BucketSeconds
           above == (slot + 1) * BucketSeconds
           full == q * BucketSeconds
<1>11. below \in Nat /\ below <= full /\ above = below + BucketSeconds /\ full \in Nat
  BY <1>1, <1>7, <1>10
<1>12. below <= x
  BY <1>6, <1>7, <1>11
<1>13. x < above \/ above = width
  <2>1. CASE q < BucketCount
    <3>1. slot = q
      BY <1>8, <2>1
    <3>2. x < slot * BucketSeconds + BucketSeconds
      BY <1>7, <3>1
    <3>3. QED
      BY <1>10, <3>2
  <2>2. CASE ~(q < BucketCount)
    <3>1. slot + 1 = BucketCount
      BY <1>1, <1>7, <1>8, <2>2
    <3>2. above = BucketCount * BucketSeconds
      BY <3>1
    <3>3. QED
      BY <1>1, <3>2
  <2>3. QED
    BY <2>1, <2>2
<1> HIDE DEF below, above, full, width
<1>14. s + below * 2 < a + 2
  BY <1>2, <1>4, <1>6, <1>11, <1>12
<1>15. a < s + above * 2
  BY <1>1, <1>2, <1>4, <1>6, <1>11, <1>13
<1>16. QED
  BY <1>9, <1>14, <1>15 DEF a, s, below, above, slot, Second

\* Overview and timeseries of any window count the same rows, each in the bar
\* of its time (BUCKETS, resolve_window, bucket_index_expression, the clamp of
\* timeseries).
THEOREM ChartsShowTheCounters == DashboardSpec => []ChartsAgree
<1>1. VerdictInv => ChartsAgree
  <2> SUFFICES ASSUME VerdictInv PROVE ChartsAgree
    OBVIOUS
  <2>1. \A r \in InWindow(Start, now) :
            r \in logs /\ r.at \in Int /\ r.action \in Action /\ Start <= r.at /\ r.at < now
    BY DEF InWindow, VerdictInv, IsVerdict
  <2>2. \A r \in InWindow(Start, now) :
            /\ Slot(r) \in Bucket
            /\ Start + Slot(r) * BucketSeconds * Second < r.at + Second
            /\ r.at < Start + (Slot(r) + 1) * BucketSeconds * Second
    BY <2>1, SlotHolds DEF VerdictInv
  <2>3. Overview(Action).current = InWindow(Start, now)
    BY <2>1 DEF Overview
  <2>4. ASSUME NEW action \in Action
        PROVE  Overview({action}).current = UNION {Timeseries[i][action] : i \in Bucket}
    <3>1. \A i \in Bucket : Timeseries[i][action] =
              {r \in InWindow(Start, now) : Slot(r) = i /\ r.action = action}
      BY DEF Timeseries
    <3> DEFINE counted == {r \in InWindow(Start, now) : r.action = action}
    <3>2. Overview({action}).current = counted
      BY DEF Overview
    <3>3. ASSUME NEW r \in counted
          PROVE  r \in UNION {Timeseries[i][action] : i \in Bucket}
      <4>1. Slot(r) \in Bucket /\ r \in Timeseries[Slot(r)][action]
        BY <2>2, <3>1
      <4>2. QED
        BY <4>1
    <3>4. ASSUME NEW i \in Bucket, NEW r \in Timeseries[i][action]
          PROVE  r \in counted
      BY <3>1
    <3> HIDE DEF counted
    <3>5. QED
      BY <3>2, <3>3, <3>4
  <2>5. QED
    BY <2>2, <2>3, <2>4 DEF ChartsAgree
<1>2. QED
  BY <1>1, VerdictInvariant, PTL
=============================================================================
