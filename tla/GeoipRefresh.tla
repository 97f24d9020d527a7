---------------------------- MODULE GeoipRefresh ----------------------------
(***************************************************************************)
(* The refresh of the GeoIP country map: a conditional download of the     *)
(* upstream database, the map generated from it and the reload that makes  *)
(* HAProxy read the map, as the daily job and POST /geoip/refresh run it,  *)
(* and the placeholder map that a refresh or config_apply writes, in       *)
(* place, where there is no map.                                           *)
(*                                                                         *)
(* A file is the upstream version its content was made from and whether    *)
(* the content is complete; version 0 is the placeholder (the "stub").     *)
(* ETag and Last-Modified are one validator, the version they came with.   *)
(*                                                                         *)
(* Left out: an OSError of _map_digest, which ends the job's run or the    *)
(* request, and answers without validators, after which every download is  *)
(* in full.                                                                *)
(***************************************************************************)
EXTENDS Integers

CONSTANTS
    Job,        \* the daily job (apscheduler runs one at a time)
    Admin,      \* threads that serve POST /geoip/refresh
    Applier,    \* threads in apply() or seed_runtime_config()
    Bad,        \* upstream versions that are not a database
    MaxVersion, \* bound: versions published
    MaxFaults,  \* bound: failed downloads, writes and reloads, and restarts
    None        \* no file, no thread

Version == 1 .. MaxVersion
Caller == Job \cup Admin
Thread == Caller \cup Applier

ASSUME GeoipAssumption ==
    /\ MaxVersion \in Nat \ {0} /\ MaxFaults \in Nat
    /\ Bad \subseteq Version
    /\ Job \cap Admin = {} /\ Caller \cap Applier = {} /\ None \notin Caller

File == [ver : 0 .. MaxVersion, whole : BOOLEAN]
Stub == [ver |-> 0, whole |-> TRUE]

\* A map that was opened for writing and not written yet: no lookup hits.
Empty == [ver |-> 0, whole |-> FALSE]

VARIABLES
    upstream,   \* the version the upstream serves
    disk,       \* [db, map, dbTmp, mapTmp : file or None, meta : validator or 0]
    lock,       \* who holds _refresh_lock, or None
    pc,         \* where each caller is
    refresh,    \* caller -> [before : map, got : version, fresh : regenerate it]
    missing,    \* threads that found no map and are about to write the stub
    opened,     \* threads that have opened country.map to write the stub
    loaded,     \* the map HAProxy has read
    faults,
    mishaps     \* history: which of Mishap has happened

vars == <<upstream, disk, lock, pc, refresh, missing, opened, loaded, faults, mishaps>>
stubs == <<missing, opened>>
rest == <<upstream, stubs, loaded, mishaps>>

\* "cut": a write of the stub stopped or failed after it had emptied the file;
\* "torn": that, or a restart, between the validators and the map;
\* "covered": the stub was opened over a map; "unloaded": a reload failed, or a
\* restart came before it.
Mishap == {"cut", "torn", "covered", "unloaded"}
Record(m, happened) == mishaps' = IF happened THEN mishaps \cup {m} ELSE mishaps

NoRefresh == [before |-> None, got |-> 0, fresh |-> FALSE]

At(c, step, next) == pc[c] = step /\ pc' = [pc EXCEPT ![c] = next]
Fault == faults < MaxFaults /\ faults' = faults + 1

\* Every way out of _refresh_locked releases the lock.
Return(c) ==
    /\ pc' = [pc EXCEPT ![c] = "idle"]
    /\ refresh' = [refresh EXCEPT ![c] = NoRefresh]
    /\ lock' = None

-----------------------------------------------------------------------------
\* The upstream is rebuilt daily.
Publish ==
    /\ upstream < MaxVersion
    /\ upstream' = upstream + 1
    /\ UNCHANGED <<disk, lock, pc, refresh, stubs, loaded, faults, mishaps>>

Ask(c) ==
    /\ At(c, "idle", "asked")
    /\ UNCHANGED <<rest, disk, lock, refresh, faults>>

\* Mutant: the lock is not taken.
EnterUnlocked(c) ==
    /\ At(c, "asked", "ensure")
    /\ UNCHANGED <<rest, disk, lock, refresh, faults>>

\* refresh() waits for the lock; try_refresh() answers 409 if it is taken.
Enter(c) ==
    /\ \/ lock = None /\ lock' = c /\ At(c, "asked", "ensure")
       \/ lock # None /\ c \in Admin /\ At(c, "asked", "idle") /\ UNCHANGED lock
    /\ UNCHANGED <<rest, disk, refresh, faults>>

\* ensure_map_file_exists: the look, the open, which empties the file, and the
\* write are three steps of a thread in a refresh or, without _refresh_lock, in
\* config_apply; an OSError ends the refresh, and config_apply goes on.
FindsNoMap(t) ==
    /\ t \in Caller => pc[t] = "ensure"
    /\ t \notin missing \cup opened /\ disk.map = None
    /\ missing' = missing \cup {t}
    /\ UNCHANGED <<upstream, disk, lock, pc, refresh, opened, loaded, faults, mishaps>>

\* HAProxy may be reading the map that is emptied.
OpensStub(t) ==
    /\ t \in missing
    /\ missing' = missing \ {t} /\ opened' = opened \cup {t}
    /\ disk' = [disk EXCEPT !.map = Empty]
    /\ \/ UNCHANGED loaded
       \/ disk.map # None /\ loaded' = [ver |-> disk.map.ver, whole |-> FALSE]
    /\ Record("covered", disk.map \notin {None, Stub, Empty})
    /\ UNCHANGED <<upstream, lock, pc, refresh, faults>>

WritesStub(t) ==
    /\ t \in opened
    /\ opened' = opened \ {t}
    /\ disk' = [disk EXCEPT !.map = Stub]
    /\ UNCHANGED <<upstream, lock, pc, refresh, missing, loaded, faults, mishaps>>

\* What a stop or a failure of the threads in `opened` leaves behind.
CutShort == {"cut"} \cup (IF disk.meta # 0 THEN {"torn"} ELSE {})

StubFails(t) ==
    /\ Fault
    /\ t \in missing \cup opened
    /\ missing' = missing \ {t} /\ opened' = opened \ {t}
    /\ mishaps' = IF t \in opened THEN mishaps \cup CutShort ELSE mishaps
    /\ IF t \in Caller THEN Return(t) ELSE UNCHANGED <<pc, refresh, lock>>
    /\ UNCHANGED <<upstream, disk, loaded>>

\* The map is there: _map_digest.
Ensure(c) ==
    /\ c \notin missing \cup opened /\ disk.map # None
    /\ At(c, "ensure", "get")
    /\ refresh' = [refresh EXCEPT ![c].before = disk.map]
    /\ UNCHANGED <<rest, disk, lock, faults>>

\* The validators are sent only if the database they came with is there.
Validator == IF disk.db = None THEN 0 ELSE disk.meta

\* An emptied file has not the stub's size.
MapIsStub == disk.map \in {None, Stub}

\* Mutant: "not modified" is taken to mean that the map is up to date too.
GetTrusts304(c) ==
    /\ pc[c] = "get"
    /\ \/ /\ Validator = upstream
          /\ At(c, "get", "compare")
          /\ refresh' = [refresh EXCEPT ![c].got = upstream]
          /\ UNCHANGED <<disk, lock, faults>>
       \/ /\ Validator # upstream
          /\ At(c, "get", "body")
          /\ disk' = [disk EXCEPT !.dbTmp = [ver |-> upstream, whole |-> FALSE]]
          /\ refresh' = [refresh EXCEPT ![c].got = upstream, ![c].fresh = TRUE]
          /\ UNCHANGED <<lock, faults>>
       \/ Fault /\ Return(c) /\ disk' = [disk EXCEPT !.dbTmp = None]
    /\ UNCHANGED rest

\* 304 and the map is regenerated only if it is the stub; 200 and the body
\* goes to a temporary file; or the request fails.
Get(c) ==
    /\ pc[c] = "get"
    /\ \/ /\ Validator = upstream
          /\ At(c, "get", IF MapIsStub THEN "generate" ELSE "compare")
          /\ refresh' = [refresh EXCEPT ![c].got = upstream, ![c].fresh = MapIsStub]
          /\ UNCHANGED <<disk, lock, faults>>
       \/ /\ Validator # upstream
          /\ At(c, "get", "body")
          /\ disk' = [disk EXCEPT !.dbTmp = [ver |-> upstream, whole |-> FALSE]]
          /\ refresh' = [refresh EXCEPT ![c].got = upstream, ![c].fresh = TRUE]
          /\ UNCHANGED <<lock, faults>>
       \/ Fault /\ Return(c) /\ disk' = [disk EXCEPT !.dbTmp = None]
    /\ UNCHANGED rest

\* The body ends, or the connection or the disk fails; the temporary file is
\* then removed.
Body(c) ==
    /\ \/ /\ At(c, "body", "swap")
          /\ disk' = [disk EXCEPT !.dbTmp = [ver |-> refresh[c].got, whole |-> TRUE]]
          /\ UNCHANGED <<lock, refresh, faults>>
       \/ /\ pc[c] = "body" /\ Fault /\ Return(c)
          /\ disk' = [disk EXCEPT !.dbTmp = None]
    /\ UNCHANGED rest

\* os.replace fails if another refresh has removed the file.
Swap(c) ==
    /\ pc[c] = "swap"
    /\ IF disk.dbTmp = None
       THEN Return(c) /\ UNCHANGED disk
       ELSE /\ At(c, "swap", "store")
            /\ disk' = [disk EXCEPT !.db = disk.dbTmp, !.dbTmp = None]
            /\ UNCHANGED <<lock, refresh>>
    /\ UNCHANGED <<rest, faults>>

\* The write fails before or after it has emptied the file.
Store(c) ==
    /\ \/ /\ At(c, "store", "generate")
          /\ disk' = [disk EXCEPT !.meta = refresh[c].got]
          /\ UNCHANGED <<lock, refresh, faults>>
       \/ /\ pc[c] = "store" /\ Fault /\ Return(c)
          /\ \E m \in {0, disk.meta} : disk' = [disk EXCEPT !.meta = m]
    /\ UNCHANGED rest

\* Lines 407-418: the validators are dropped, so that the next run fetches in
\* full.
ForgetKeepsMeta(c) == Return(c) /\ UNCHANGED disk
Forget(c) == Return(c) /\ disk' = [disk EXCEPT !.meta = 0]

IsDatabase(f) == f # None /\ f.whole /\ f.ver \notin Bad

Generate(c) ==
    /\ pc[c] = "generate"
    /\ \/ /\ IsDatabase(disk.db)
          /\ At(c, "generate", "write")
          /\ disk' = [disk EXCEPT !.mapTmp = [ver |-> disk.db.ver, whole |-> FALSE]]
          /\ UNCHANGED <<lock, refresh, faults>>
       \/ ~IsDatabase(disk.db) /\ Forget(c) /\ UNCHANGED faults
    /\ UNCHANGED rest

\* The rest of the map; an OSError leaves the temporary file.
Write(c) ==
    /\ \/ /\ At(c, "write", "publish")
          /\ disk' = [disk EXCEPT !.mapTmp = [ver |-> disk.db.ver, whole |-> TRUE]]
          /\ UNCHANGED <<lock, refresh, faults>>
       \/ pc[c] = "write" /\ Fault /\ Forget(c)
    /\ UNCHANGED rest

\* os.replace: whoever was writing the stub writes to a file that is gone.
PublishMap(c) ==
    /\ pc[c] = "publish"
    /\ IF disk.mapTmp = None
       THEN Forget(c) /\ UNCHANGED opened
       ELSE /\ At(c, "publish", "compare")
            /\ disk' = [disk EXCEPT !.map = disk.mapTmp, !.mapTmp = None]
            /\ opened' = {}
            /\ UNCHANGED <<lock, refresh>>
    /\ UNCHANGED <<upstream, missing, loaded, mishaps, faults>>

\* Mutant: a map that replaces the stub is not taken for a change.
ChangedNotFromStub(c) == refresh[c].before # disk.map /\ refresh[c].before # Stub

\* before_digest # after_digest
Changed(c) == refresh[c].before # disk.map

Compare(c) ==
    /\ pc[c] = "compare"
    /\ IF Changed(c)
       THEN At(c, "compare", "reload") /\ UNCHANGED <<lock, refresh>>
       ELSE Return(c)
    /\ UNCHANGED <<rest, disk, faults>>

\* reload_haproxy(); its failure is logged.
Reload(c) ==
    /\ pc[c] = "reload"
    /\ Return(c)
    /\ \/ loaded' = disk.map /\ UNCHANGED <<faults, mishaps>>
       \/ Fault /\ Record("unloaded", TRUE) /\ UNCHANGED loaded
    /\ UNCHANGED <<upstream, disk, stubs>>

-----------------------------------------------------------------------------
\* Every reload and start of HAProxy reads the map there is.
OtherReload ==
    /\ disk.map # None
    /\ loaded' = disk.map
    /\ UNCHANGED <<upstream, disk, lock, pc, refresh, stubs, faults, mishaps>>

\* The backend stops anywhere; the files stay.
Restart ==
    /\ Fault
    /\ mishaps' = mishaps
         \cup (IF opened # {} THEN CutShort ELSE {})
         \cup (IF \E c \in Caller : pc[c] \in {"generate", "write", "publish"}
               THEN {"torn"} ELSE {})
         \cup (IF \E c \in Caller : pc[c] \in {"compare", "reload"}
               THEN {"unloaded"} ELSE {})
    /\ pc' = [c \in Caller |-> "idle"]
    /\ refresh' = [c \in Caller |-> NoRefresh]
    /\ lock' = None /\ missing' = {} /\ opened' = {}
    /\ UNCHANGED <<upstream, disk, loaded>>

-----------------------------------------------------------------------------
Init ==
    /\ upstream = 1
    /\ disk = [db |-> None, map |-> None, dbTmp |-> None, mapTmp |-> None, meta |-> 0]
    /\ lock = None
    /\ pc = [c \in Caller |-> "idle"]
    /\ refresh = [c \in Caller |-> NoRefresh]
    /\ missing = {} /\ opened = {}
    /\ loaded = None
    /\ faults = 0 /\ mishaps = {}

Step(c) ==
    \/ Ensure(c) \/ Get(c) \/ Body(c) \/ Swap(c) \/ Store(c)
    \/ Generate(c) \/ Write(c) \/ PublishMap(c) \/ Compare(c) \/ Reload(c)

Next ==
    \/ Publish \/ OtherReload \/ Restart
    \/ \E c \in Caller : Ask(c) \/ Enter(c) \/ Step(c)
    \/ \E t \in Thread : FindsNoMap(t) \/ OpensStub(t) \/ WritesStub(t) \/ StubFails(t)

Spec == Init /\ [][Next]_vars

\* A refresh under way goes on, the job is started every day and gets the lock
\* now and then, and a thread that found no map writes the stub.  Failures need
\* not stop, but are bounded here.
Fairness ==
    /\ \A c \in Caller : WF_vars(Step(c)) /\ WF_vars(FindsNoMap(c))
    /\ \A c \in Job : WF_vars(Ask(c)) /\ SF_vars(Enter(c))
    /\ \A t \in Thread : WF_vars(OpensStub(t) \/ WritesStub(t))

FairSpec == Spec /\ Fairness

-----------------------------------------------------------------------------
\* Properties

FileOrNone == File \cup {None}

TypeOK ==
    /\ upstream \in Version
    /\ disk \in [db : FileOrNone, map : FileOrNone, dbTmp : FileOrNone,
                 mapTmp : FileOrNone, meta : 0 .. MaxVersion]
    /\ lock \in Caller \cup {None}
    /\ pc \in [Caller -> {"idle", "asked", "ensure", "get", "body", "swap", "store",
                          "generate", "write", "publish", "compare", "reload"}]
    /\ refresh \in [Caller -> [before : FileOrNone, got : 0 .. MaxVersion, fresh : BOOLEAN]]
    /\ missing \subseteq Thread /\ opened \subseteq Thread
    /\ loaded \in FileOrNone
    /\ faults \in 0 .. MaxFaults
    /\ mishaps \subseteq Mishap

Usable == [ver : Version \ Bad, whole : {TRUE}]

\* Two refreshes share their temporary files, the stub is written in place, and
\* HAProxy may read the map at any time.  A map made from a database is never
\* published in part or from something else (geoip_service.py:379-384), and an
\* empty file is there only while the stub is being written or after such a
\* write was cut short.  What HAProxy has read is such a map, the stub or, what
\* has the same lookups, the empty file; unless the stub was opened over a map
\* while HAProxy read it.
MapIsWhole ==
    /\ \/ disk.map \in {None, Stub} \cup Usable
       \/ disk.map = Empty /\ (opened # {} \/ "cut" \in mishaps)
    /\ loaded \in {None, Stub, Empty} \cup Usable \/ "covered" \in mishaps

\* "GeoIP database is already up to date" is not said of a map of an older
\* database, nor of an empty file that nobody is writing (lines 395-404),
\* whatever failed before.  A stop between the validators and the map is the
\* exception, and a stub that apply() writes over the map at that moment.
UpToDateIsTrue ==
    \A c \in Caller :
        pc[c] = "compare" /\ ~refresh[c].fresh /\ "torn" \notin mishaps
            => \/ disk.map \in {Stub, [ver |-> refresh[c].got, whole |-> TRUE]}
               \/ disk.map = Empty /\ opened # {}

\* An upstream that served something else than a database (lines 408-416), a
\* write that failed, of the stub too, do not stay: once the upstream serves a
\* database for good, the map is made from it, and HAProxy reads it.  A failed
\* reload is not repeated, and HAProxy may keep a stub that was written over the
\* map: the refresh that repairs it finds the map it began with.
MapIsCurrent == upstream \notin Bad => disk.map = [ver |-> upstream, whole |-> TRUE]
MapCatchesUp == []("torn" \notin mishaps) => <>[]MapIsCurrent
HaproxyCatchesUp ==
    [](mishaps \cap {"torn", "covered", "unloaded"} = {})
        => <>[](upstream \notin Bad => loaded = disk.map)
=============================================================================
