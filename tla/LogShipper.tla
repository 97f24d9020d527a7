----------------------------- MODULE LogShipper -----------------------------
(***************************************************************************)
(* The audit log pipeline: coraza-spoa appends one line per event to the   *)
(* audit file, src/log-shipper tails the file from a saved position and    *)
(* posts each event to the backend, which stores it once.                  *)
(*                                                                         *)
(* A file is a sequence of units; unit <<r, k>> is the k-th part of the    *)
(* line of event r, and the last part ends in the newline.  So a reader    *)
(* can meet a line that is not finished, or start inside one.  Positions   *)
(* count units.  Files are named by numbers in the order they appear at    *)
(* the path, which stand for (st_dev, st_ino); 0 is "no identity".         *)
(*                                                                         *)
(* The loop of run() is one process; the steps below are separated where   *)
(* the file, the backend or a signal can come in between.  Left out: blank *)
(* lines between events (skipped without a trace), backoff times, the      *)
(* contents of events (a line is Poison when nothing accepts it: it does   *)
(* not parse, cannot be mapped or is refused with a 4xx), and errors of    *)
(* stat and read, which only retry the poll.                               *)
(***************************************************************************)
EXTENDS Integers, Sequences, FiniteSets

CONSTANTS
    Event,             \* events coraza-spoa logs
    Size,              \* event -> units of its line
    Poison,            \* events that no retry can ship
    LineLimit,         \* _MAX_LINE_BYTES
    Slots,             \* bound: ingest requests the backend works on at once
    MaxFiles,          \* bound: files that appear at the path
    MaxStops,          \* bound: kills, terminations and lost state files
    RotateAt,          \* CORAZA_AUDIT_LOG_MAX_BYTES
    TruncatesInPlace,  \* the supervisor rotates the file (copy and truncate)
    RenameWhileOpening,\* a rename may fall between stat and open
    SaveMayFail,       \* fault: writing the state file may raise OSError
    DeadLetterMayFail  \* fault: appending to the dead-letter file may raise

ASSUME ShipperAssumption ==
    /\ Size \in [Event -> Nat \ {0}]
    /\ Poison \subseteq Event
    /\ {LineLimit, MaxFiles} \subseteq Nat \ {0}
    /\ {RotateAt, MaxStops} \subseteq Nat
    /\ 0 \notin Slots
    /\ {TruncatesInPlace, RenameWhileOpening, SaveMayFail, DeadLetterMayFail} \subseteq BOOLEAN

VARIABLES
    files,      \* the files, by name
    path,       \* the file at the audit log path
    written,    \* event -> units of its line written so far
    writing,    \* the events whose line is being written: none or one
    cut,        \* history: files that were truncated in place
    request,    \* slot -> the request the backend works on
    rows,       \* event -> rows stored in the logs table
    dead,       \* events in the dead-letter file
    saved,      \* the state file
    pc,         \* where run() is; "down" when there is no process
    running,    \* _running
    handle,     \* the open file, 0 when none is
    mem,        \* `state`
    stat,       \* path_stat
    drain,      \* `drain` of _ship_available
    item,       \* the record _consume_record returned
    waiting,    \* the slot of the request the shipper waits for, 0 = none
    stops       \* kills, terminations and lost state files so far

logVars == <<files, path, written, writing, cut>>
backendVars == <<request, rows>>
shipperVars == <<pc, running, handle, mem, stat, drain, item, waiting>>
vars == <<logVars, backendVars, shipperVars, dead, saved, stops>>

File == 1 .. MaxFiles
Position == [offset : Nat, file : File \cup {0}]
Start0 == [offset |-> 0, file |-> 0]
Corrupt == [corrupt |-> TRUE]
Free == [phase |-> "free"]
NoItem == [kind |-> "none"]

\* _load_state: anything unusable is replayed from the start.
Loaded == IF saved = Corrupt THEN Start0 ELSE saved

EndsLine(unit) == unit[2] = Size[unit[1]]

\* _consume_record at a position of a file: the next line, whole, too long or
\* entered in the middle; what is left when the file will not grow; or nothing.
Consume(units, offset, draining) ==
    LET ends == {i \in (offset + 1) .. Len(units) : EndsLine(units[i])}
        end == CHOOSE i \in ends : \A j \in ends : i <= j
        last == units[end][1]
    IN  CASE ends # {} ->
               [kind  |-> IF end - offset > LineLimit THEN "too_long"
                          ELSE IF units[offset + 1] = <<last, 1>> THEN "line" ELSE "fragment",
                event |-> last, next |-> end]
          [] ends = {} /\ draining /\ offset < Len(units) ->
               [kind |-> "truncated", event |-> units[offset + 1][1], next |-> Len(units)]
          [] OTHER -> NoItem

-----------------------------------------------------------------------------
\* The audit file

\* coraza-spoa appends (external): a new line, or more of the one it writes.
WriteUnit(e) ==
    /\ written[e] < Size[e]
    /\ writing = {e} \/ (writing = {} /\ written[e] = 0)
    /\ files' = [files EXCEPT ![path] = Append(@, <<e, written[e] + 1>>)]
    /\ written' = [written EXCEPT ![e] = @ + 1]
    /\ writing' = IF written[e] + 1 = Size[e] THEN {} ELSE {e}
    /\ UNCHANGED <<path, cut, backendVars, shipperVars, dead, saved, stops>>

\* rotate_audit_log: the copy is read by nobody.
Truncate ==
    /\ TruncatesInPlace
    /\ Len(files[path]) > RotateAt
    /\ files' = [files EXCEPT ![path] = <<>>]
    /\ cut' = cut \cup {path}
    /\ UNCHANGED <<path, written, writing, backendVars, shipperVars, dead, saved, stops>>

\* A rotation from outside (logrotate, a new volume): a new file appears at
\* the path and the writer goes on there; a line it had begun stays unfinished.
Rename ==
    /\ path < MaxFiles
    /\ RenameWhileOpening \/ pc \notin {"adopt", "open"}
    /\ path' = path + 1
    /\ writing' = {}
    /\ UNCHANGED <<files, written, cut, backendVars, shipperVars, dead, saved, stops>>

-----------------------------------------------------------------------------
\* The backend: POST /logs/ingest

\* The answer reaches the shipper if it still waits for this request.
Answer(k, step) ==
    /\ request' = [request EXCEPT ![k] = Free]
    /\ IF waiting = k
       THEN waiting' = 0 /\ pc' = step
       ELSE UNCHANGED <<waiting, pc>>
    /\ UNCHANGED <<logVars, running, handle, mem, stat, drain, item, dead, saved, stops>>

\* Mutant: a value the table cannot hold is answered with a 5xx.
IngestLooksRetry(k) ==
    /\ request[k].phase = "arrived"
    /\ LET e == request[k].event
       IN  IF e \in Poison \/ rows[e] > 0
           THEN Answer(k, IF e \in Poison THEN "post" ELSE "advance") /\ UNCHANGED rows
           ELSE /\ request' = [request EXCEPT ![k].phase = "looked"]
                /\ UNCHANGED <<logVars, rows, shipperVars, dead, saved, stops>>

\* ingest_log_event, lines 119-127: an event that is stored is returned as it
\* is; line 83: one the table cannot hold is refused.
IngestLooks(k) ==
    /\ request[k].phase = "arrived"
    /\ LET e == request[k].event
       IN  IF e \in Poison
           THEN Answer(k, "drop") /\ UNCHANGED rows
           ELSE IF rows[e] > 0
           THEN Answer(k, "advance") /\ UNCHANGED rows
           ELSE /\ request' = [request EXCEPT ![k].phase = "looked"]
                /\ UNCHANGED <<logVars, rows, shipperVars, dead, saved, stops>>

\* Mutant: the one who loses the race on the insert is answered with a 409.
IngestStoresConflict(k) ==
    /\ request[k].phase = "looked"
    /\ rows' = [rows EXCEPT ![request[k].event] = 1]
    /\ Answer(k, IF rows[request[k].event] > 0 THEN "drop" ELSE "advance")

\* _persist_log_event: the unique producer_event_id decides a write race.
IngestStores(k) ==
    /\ request[k].phase = "looked"
    /\ rows' = [rows EXCEPT ![request[k].event] = 1]
    /\ Answer(k, "advance")

\* Mutant: the shipper takes a 5xx for a permanent refusal, without a trace.
IngestFailsForGood(k) ==
    /\ request[k] # Free
    /\ Answer(k, "advance")
    /\ UNCHANGED rows

\* 5xx, 429, 401, 403 or a broken connection before anything is stored.
IngestFails(k) ==
    /\ request[k] # Free
    /\ Answer(k, "post")
    /\ UNCHANGED rows

-----------------------------------------------------------------------------
\* The shipper

GoTo(step) == pc' = step
Exit ==
    /\ pc' = "down"
    /\ handle' = 0 /\ waiting' = 0 /\ mem' = Start0
    /\ stat' = Start0 /\ drain' = FALSE /\ item' = NoItem

\* _persist_state replaces the file or raises before it did; run() then takes
\* the saved position again (540) and polls.
Save(position, step) ==
    \/ saved' = position /\ mem' = position /\ GoTo(step)
    \/ SaveMayFail /\ mem' = Loaded /\ GoTo("poll") /\ UNCHANGED saved

\* main and the start of run.
StartUp ==
    /\ pc = "down"
    /\ running' = TRUE
    /\ mem' = Loaded
    /\ GoTo("poll")
    /\ UNCHANGED <<logVars, backendVars, handle, stat, drain, item, waiting, dead, saved, stops>>

\* Lines 470-472, 486-494.
Poll ==
    /\ pc = "poll"
    /\ IF running
       THEN /\ stat' = [offset |-> Len(files[path]), file |-> path]
            /\ GoTo(IF handle = 0 THEN "adopt" ELSE "check")
            /\ UNCHANGED <<handle, waiting, mem, drain, item>>
       ELSE Exit
    /\ UNCHANGED <<logVars, backendVars, running, dead, saved, stops>>

\* Mutant: the offset of another file is kept.
AdoptKeepsOffset ==
    /\ pc = "adopt"
    /\ LET position == [offset |-> IF stat.offset < mem.offset THEN 0 ELSE mem.offset,
                        file   |-> stat.file]
       IN  Save(position, "open")
    /\ UNCHANGED <<logVars, backendVars, running, handle, stat, drain, item, waiting, dead, stops>>

\* _state_for_opened_file: another file or a shorter one is read from the
\* start; an offset without an identity is taken for this file.
Adopt ==
    /\ pc = "adopt"
    /\ LET otherFile == mem.file # 0 /\ mem.file # stat.file
           position == [offset |-> IF otherFile \/ stat.offset < mem.offset THEN 0 ELSE mem.offset,
                        file   |-> stat.file]
       IN  IF position = mem
           THEN GoTo("open") /\ UNCHANGED <<mem, saved>>
           ELSE Save(position, "open")
    /\ UNCHANGED <<logVars, backendVars, running, handle, stat, drain, item, waiting, dead, stops>>

\* Line 488 opens whatever is at the path by now; path_stat is not used again.
Open ==
    /\ pc = "open"
    /\ handle' = path
    /\ drain' = FALSE
    /\ stat' = Start0
    /\ GoTo("read")
    /\ UNCHANGED <<logVars, backendVars, running, mem, item, waiting, dead, saved, stops>>

\* Mutant: a file that has not grown is taken for truncated.
CheckOffByOne ==
    /\ pc = "check"
    /\ drain' = (stat.file # handle)
    /\ stat' = IF drain' THEN stat ELSE Start0
    /\ IF ~drain' /\ stat.offset <= mem.offset
       THEN Save([offset |-> 0, file |-> handle], "read")
       ELSE GoTo("read") /\ UNCHANGED <<mem, saved>>
    /\ UNCHANGED <<logVars, backendVars, running, handle, item, waiting, dead, stops>>

\* Lines 490-530: a rotated file is drained, a truncated one read again.
Check ==
    /\ pc = "check"
    /\ drain' = (stat.file # handle)
    /\ stat' = IF drain' THEN stat ELSE Start0
    /\ IF ~drain' /\ stat.offset < mem.offset
       THEN Save([offset |-> 0, file |-> handle], "read")
       ELSE GoTo("read") /\ UNCHANGED <<mem, saved>>
    /\ UNCHANGED <<logVars, backendVars, running, handle, item, waiting, dead, stops>>

\* One round of _ship_available.  A termination ends it; in a drain that has
\* got somewhere the next file is adopted first (514-520).
Read ==
    /\ pc = "read"
    /\ LET next == Consume(files[handle], mem.offset, drain)
       IN  CASE running /\ next # NoItem ->
                  /\ item' = next
                  /\ GoTo(IF next.kind = "line" THEN "post" ELSE "drop")
                  /\ UNCHANGED <<handle, mem, stat, drain, waiting>>
             [] running /\ next = NoItem ->
                  /\ GoTo(IF drain THEN "reopen" ELSE "poll")
                  /\ UNCHANGED <<handle, mem, stat, drain, item, waiting>>
             [] ~running ->
                  \/ Exit
                  \/ /\ drain /\ GoTo("reopen")
                     /\ UNCHANGED <<handle, mem, stat, drain, item, waiting>>
    /\ UNCHANGED <<logVars, backendVars, running, dead, saved, stops>>

\* Lines 505-520: leave the drained file for the one stat saw.
Reopen ==
    /\ pc = "reopen"
    /\ handle' = 0 /\ drain' = FALSE /\ stat' = Start0
    /\ Save([offset |-> 0, file |-> stat.file], "poll")
    /\ UNCHANGED <<logVars, backendVars, running, item, waiting, dead, stops>>

\* _ship_line: send the event, until it is answered or the process stops.
Post ==
    /\ pc = "post" /\ waiting = 0
    /\ IF running
       THEN \E k \in Slots :
               /\ request[k] = Free
               /\ request' = [request EXCEPT ![k] = [phase |-> "arrived", event |-> item.event]]
               /\ waiting' = k
               /\ UNCHANGED <<pc, handle, mem, stat, drain, item>>
       ELSE Exit /\ UNCHANGED request
    /\ UNCHANGED <<logVars, rows, running, dead, saved, stops>>

\* The request is given up by the client, not by the backend.
TimeOut ==
    /\ pc = "post" /\ waiting # 0
    /\ waiting' = 0
    /\ UNCHANGED <<logVars, backendVars, pc, running, handle, mem, stat, drain, item>>
    /\ UNCHANGED <<dead, saved, stops>>

\* _note_drop; an OSError is logged and swallowed (229-232).
Drop ==
    /\ pc = "drop"
    /\ \/ dead' = dead \cup {item.event}
       \/ DeadLetterMayFail /\ UNCHANGED dead
    /\ GoTo("advance")
    /\ UNCHANGED <<logVars, backendVars, running, handle, mem, stat, drain, item, waiting>>
    /\ UNCHANGED <<saved, stops>>

\* Lines 411-412.
Advance ==
    /\ pc = "advance"
    /\ Save([mem EXCEPT !.offset = item.next], "read")
    /\ item' = NoItem
    /\ UNCHANGED <<logVars, backendVars, running, handle, stat, drain, waiting, dead, stops>>

\* SIGTERM, SIGKILL, and a state file that does not survive an outage.
Stoppable == stops < MaxStops /\ stops' = stops + 1

Terminate ==
    /\ Stoppable /\ pc # "down" /\ running
    /\ running' = FALSE
    /\ UNCHANGED <<logVars, backendVars, pc, handle, mem, stat, drain, item, waiting, dead, saved>>

Kill ==
    /\ Stoppable /\ pc # "down"
    /\ Exit
    /\ UNCHANGED <<logVars, backendVars, running, dead, saved>>

LoseState ==
    /\ Stoppable /\ pc = "down"
    /\ saved' = Corrupt
    /\ UNCHANGED <<logVars, backendVars, shipperVars, dead>>

-----------------------------------------------------------------------------
Init ==
    /\ files = [f \in File |-> <<>>]
    /\ path = 1
    /\ written = [e \in Event |-> 0]
    /\ writing = {}
    /\ cut = {}
    /\ request = [k \in Slots |-> Free]
    /\ rows = [e \in Event |-> 0]
    /\ dead = {}
    /\ saved = Start0
    /\ pc = "down"
    /\ running = TRUE
    /\ handle = 0
    /\ mem = Start0
    /\ stat = Start0
    /\ drain = FALSE
    /\ item = NoItem
    /\ waiting = 0
    /\ stops = 0

Log == (\E e \in Event : WriteUnit(e)) \/ Truncate \/ Rename
Ingest(k) == IngestLooks(k) \/ IngestStores(k)
Shipper ==
    \/ StartUp \/ Poll \/ Adopt \/ Open \/ Check \/ Read \/ Reopen
    \/ Post \/ Drop \/ Advance
Fault == Terminate \/ Kill \/ LoseState

Next ==
    \/ Log
    \/ \E k \in Slots : Ingest(k) \/ IngestFails(k)
    \/ Shipper
    \/ TimeOut
    \/ Fault

Spec == Init /\ [][Next]_vars

\* The container restarts the shipper and the shipper keeps running; the
\* backend finishes what it works on and, again and again, answers in time;
\* writing the state file succeeds again and again.
Fairness ==
    /\ WF_vars(Shipper)
    /\ \A k \in Slots :
          /\ WF_vars(Ingest(k))
          /\ SF_vars(waiting = k /\ IngestLooks(k))
          /\ SF_vars(waiting = k /\ IngestStores(k))
    /\ SF_vars(Shipper /\ saved' # saved)

FairSpec == Spec /\ Fairness

-----------------------------------------------------------------------------
\* Properties

TypeOK ==
    /\ files \in [File -> Seq(Event \X Nat)]
    /\ path \in File
    /\ written \in [Event -> Nat]
    /\ writing \subseteq Event
    /\ cut \subseteq File
    /\ request \in [Slots -> {Free} \cup [phase : {"arrived", "looked"}, event : Event]]
    /\ rows \in [Event -> Nat]
    /\ dead \subseteq Event
    /\ saved \in Position \cup {Corrupt}
    /\ pc \in {"down", "poll", "adopt", "open", "check", "read", "reopen", "post", "drop",
               "advance"}
    /\ running \in BOOLEAN
    /\ handle \in File \cup {0}
    /\ mem \in Position
    /\ stat \in Position
    /\ drain \in BOOLEAN
    /\ waiting \in Slots \cup {0}
    /\ item = NoItem \/ item.event \in Event
    /\ stops \in 0 .. MaxStops

\* The dead-letter file holds only what could never be shipped: an event whose
\* line stands whole in a file that was only appended to is dropped for being
\* refused or too long, and never for a race, a retry, a rotation or a read in
\* the middle of its line (shipper.py:17-19).
StandsWhole(e) ==
    \E f \in File \ cut : \E i \in 1 .. Len(files[f]) : files[f][i] = <<e, Size[e]>>
OnlyHopelessDropped == \A e \in dead : StandsWhole(e) => e \in Poison \/ Size[e] > LineLimit

Settled(e) == rows[e] > 0 \/ e \in dead
SettledUpTo(file, offset) ==
    \A i \in 1 .. Len(files[file]) : i <= offset => Settled(files[file][i][1])

\* A restart skips nothing: whatever lies before the saved position of a file
\* that was only appended to is stored or in the dead-letter file
\* (docs/architecture.md:135-139).
SavedIsSettled ==
    saved # Corrupt /\ saved.file \notin cut \cup {0} => SettledUpTo(saved.file, saved.offset)

\* The same for the position the running shipper reads from: the file it has
\* open is read from its start, also after a rotation.
ReadIsSettled ==
    pc \in {"read", "post", "drop"} /\ handle \notin cut => SettledUpTo(handle, mem.offset)

\* The saved position of a file never moves back while the file only grows.
SavedOnlyAdvances ==
    [][saved # Corrupt /\ saved' # Corrupt
         /\ saved'.file = saved.file /\ saved.file \notin cut \cup {0}
       => saved'.offset >= saved.offset]_vars

\* An event that stays in the file at the path is settled in the end, whatever
\* the backend refuses, loses or answers late before that.  Not so in a file
\* that was truncated and refilled up to the position (shipper.py:14-15).
Logged(e) == \E i \in 1 .. Len(files[path]) : files[path][i] = <<e, Size[e]>>
EventArrives == \A e \in Event : <>[](Logged(e) /\ path \notin cut) => <>Settled(e)

=============================================================================
