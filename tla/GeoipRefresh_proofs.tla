-------------------------- MODULE GeoipRefresh_proofs --------------------------
(***************************************************************************)
(* What HAProxy reads is a whole map, and "up to date" is true, for any    *)
(* number of refreshing threads, versions and failures.                    *)
(***************************************************************************)
EXTENDS GeoipRefresh, TLAPS

-----------------------------------------------------------------------------
\* The inductive invariant.  The lock keeps the files of a refresh its own; the
\* validator never runs ahead of the database, and outside the making of a map
\* the map was made from the database the validator belongs to.

Quiet == {"idle", "asked"}
Making == {"generate", "write", "publish"}

Exclusive == \A c \in Caller : pc[c] \notin Quiet => lock = c

FilesInOrder ==
    /\ disk.db = None => disk.meta = 0
    /\ disk.db # None => /\ disk.db.ver \in Version /\ disk.db.ver <= upstream
                         /\ disk.meta <= disk.db.ver

Fetched(c) ==
    /\ refresh[c].got \in Version /\ refresh[c].got <= upstream
    /\ disk.db # None => disk.db.ver <= refresh[c].got

InPhase(c) ==
    /\ pc[c] \in {"body", "swap"} => Fetched(c)
    /\ pc[c] = "swap" => disk.dbTmp = [ver |-> refresh[c].got, whole |-> TRUE]
    /\ pc[c] = "store" => /\ refresh[c].got \in Version /\ refresh[c].got <= upstream
                          /\ disk.db # None /\ disk.db.ver = refresh[c].got
    /\ pc[c] \in Making => /\ disk.db # None /\ disk.meta = disk.db.ver
                          /\ refresh[c].got = disk.meta
    /\ pc[c] \in {"write", "publish"} => IsDatabase(disk.db)
    /\ pc[c] = "publish" => disk.mapTmp = [ver |-> disk.db.ver, whole |-> TRUE]
    /\ pc[c] = "compare" => disk.meta # 0
    /\ pc[c] = "compare" /\ ~refresh[c].fresh /\ "torn" \notin mishaps
          => \/ disk.map \in {Stub, [ver |-> refresh[c].got, whole |-> TRUE]}
             \/ disk.map = Empty /\ opened # {}

Fits ==
    "torn" \notin mishaps /\ disk.meta # 0
        => \/ disk.map \in {None, Stub, [ver |-> disk.meta, whole |-> TRUE]}
           \/ disk.map = Empty /\ opened # {}

MapMatches == (\A c \in Caller : pc[c] \notin Making) => Fits

\* A refresh writes the stub before it asks for the database.
StubFirst == \A c \in Caller : c \in missing \cup opened => pc[c] = "ensure"

IInv ==
    /\ TypeOK
    /\ Exclusive
    /\ FilesInOrder
    /\ \A c \in Caller : InPhase(c)
    /\ MapMatches
    /\ StubFirst
    /\ MapIsWhole

-----------------------------------------------------------------------------
LEMMA InitInvariant == Init => IInv
<1> SUFFICES ASSUME Init PROVE IInv
  OBVIOUS
<1>1. TypeOK
  <2>1. 0 \in 0 .. MaxVersion /\ 1 \in Version /\ 0 \in 0 .. MaxFaults /\ None \in FileOrNone
    BY GeoipAssumption DEF GeoipAssumption, Version, FileOrNone
  <2>2. NoRefresh \in [before : FileOrNone, got : 0 .. MaxVersion, fresh : BOOLEAN]
    BY <2>1 DEF NoRefresh
  <2>3. QED
    BY <2>1, <2>2 DEF Init, TypeOK
<1>2. /\ \A c \in Caller : pc[c] = "idle"
      /\ disk.db = None /\ disk.map = None /\ disk.meta = 0 /\ loaded = None
  BY DEF Init
<1>3. QED
  BY <1>1, <1>2 DEF IInv, Exclusive, Quiet, Making, FilesInOrder, InPhase, MapMatches, Fits,
     StubFirst, MapIsWhole, Init

-----------------------------------------------------------------------------
\* The steps of a refresh: the lock is held, so every other thread is quiet.

LEMMA QuietInPhase == \A c \in Caller : pc[c] \in Quiet => InPhase(c)
BY DEF Quiet, Making, InPhase

LEMMA HolderStep ==
    ASSUME IInv, NEW c \in Caller, pc[c] \notin Quiet, NEW next,
           pc' = [pc EXCEPT ![c] = next],
           \/ lock' = lock
           \/ lock' = None /\ next = "idle"
    PROVE  /\ Exclusive'
           /\ \A d \in Caller : d # c => pc[d] \in Quiet /\ pc'[d] \in Quiet
           /\ pc'[c] = next
<1>1. lock = c /\ pc'[c] = next
  BY DEF IInv, TypeOK, Exclusive
<1>2. \A d \in Caller : d # c => pc[d] \in Quiet /\ pc'[d] = pc[d]
  BY <1>1 DEF IInv, TypeOK, Exclusive
<1>3. QED
  BY <1>1, <1>2 DEF IInv, Exclusive, Quiet

\* What is left to show of a step that a holder takes.
LEMMA HolderKeeps ==
    ASSUME IInv, NEW c \in Caller, pc[c] \notin Quiet, NEW next,
           pc' = [pc EXCEPT ![c] = next],
           \/ lock' = lock
           \/ (lock' = None /\ next = "idle"),
           missing' \cup opened' \subseteq missing \cup opened,
           pc[c] # "ensure" \/ c \notin missing' \cup opened',
           TypeOK', FilesInOrder', InPhase(c)', MapIsWhole',
           next \in Making \/ Fits'
    PROVE  IInv'
<1>1. /\ Exclusive'
      /\ \A d \in Caller : d # c => pc[d] \in Quiet /\ pc'[d] \in Quiet
      /\ pc'[c] = next
  BY HolderStep
<1>2. \A d \in Caller : InPhase(d)'
  BY <1>1 DEF Quiet, Making, InPhase
<1>3. MapMatches'
  BY <1>1 DEF MapMatches
<1>4. StubFirst'
  <2>1. c \notin missing' \cup opened'
    BY DEF IInv, StubFirst
  <2>2. \A d \in Caller : d # c => d \notin missing \cup opened
    BY <1>1 DEF IInv, StubFirst, Quiet
  <2>3. QED
    BY <2>1, <2>2 DEF StubFirst
<1>5. QED
  BY <1>1, <1>2, <1>3, <1>4 DEF IInv

\* Where a holder is outside the making of a map, the map matches.
LEMMA HolderSees ==
    ASSUME IInv, NEW c \in Caller, pc[c] \notin Quiet, pc[c] \notin Making
    PROVE  Fits
BY DEF IInv, Exclusive, MapMatches, Quiet, Making

\* Ways out: the files are as before, or the validators are gone.
LEMMA ReturnKeeps ==
    ASSUME IInv, NEW c \in Caller, pc[c] \notin Quiet, Return(c),
           UNCHANGED <<upstream, missing, opened>>, mishaps' \subseteq Mishap,
           mishaps \subseteq mishaps', pc[c] # "ensure",
           faults' \in 0 .. MaxFaults,
           disk'.db = disk.db, disk'.map = disk.map,
           disk' \in [db : FileOrNone, map : FileOrNone, dbTmp : FileOrNone,
                      mapTmp : FileOrNone, meta : 0 .. MaxVersion],
           disk'.meta = 0 \/ (disk'.meta = disk.meta /\ pc[c] \notin Making),
           loaded' \in {loaded, disk.map}
    PROVE  IInv'
<1>1. pc' = [pc EXCEPT ![c] = "idle"] /\ lock' = None
  BY DEF Return
<1>2. refresh' \in [Caller -> [before : FileOrNone, got : 0 .. MaxVersion, fresh : BOOLEAN]]
  BY GeoipAssumption DEF GeoipAssumption, Return, IInv, TypeOK, NoRefresh, FileOrNone
<1>3. TypeOK'
  BY <1>1, <1>2 DEF IInv, TypeOK
<1>4. FilesInOrder'
  <2>1. disk.db # None => disk.db.ver \in Nat
    BY DEF IInv, FilesInOrder, Version
  <2>2. QED
    BY <2>1 DEF IInv, FilesInOrder
<1>5. InPhase(c)'
  BY <1>1 DEF IInv, TypeOK, InPhase, Making
<1>6. MapIsWhole'
  BY DEF IInv, MapIsWhole
<1>7. Fits'
  BY HolderSees DEF Fits
<1>8. QED
  BY <1>1, <1>3, <1>4, <1>5, <1>6, <1>7, HolderKeeps

LEMMA EnsureKeeps == ASSUME IInv, NEW c \in Caller, Ensure(c) PROVE IInv'
<1>1. /\ pc[c] = "ensure" /\ pc[c] \notin Quiet /\ pc' = [pc EXCEPT ![c] = "get"]
      /\ UNCHANGED <<upstream, missing, opened, loaded, mishaps, lock, faults, disk>>
      /\ c \notin missing \cup opened
      /\ refresh' = [refresh EXCEPT ![c].before = disk.map]
  BY DEF Ensure, At, Quiet, rest, stubs
<1>2. pc'[c] = "get"
  BY <1>1 DEF IInv, TypeOK
<1>3. TypeOK'
  BY <1>1 DEF IInv, TypeOK
<1>4. FilesInOrder' /\ MapIsWhole'
  BY <1>1 DEF IInv, FilesInOrder, MapIsWhole
<1>5. InPhase(c)'
  BY <1>2 DEF InPhase, Making
<1>6. Fits'
  BY <1>1, HolderSees DEF Making, Fits
<1>7. QED
  BY <1>1, <1>3, <1>4, <1>5, <1>6, HolderKeeps

\* A validator that is still the upstream's is that of the database on the disk.
LEMMA GetKeeps == ASSUME IInv, NEW c \in Caller, Get(c) PROVE IInv'
<1>1. /\ pc[c] = "get" /\ pc[c] \notin Quiet /\ pc[c] \notin Making
      /\ UNCHANGED <<upstream, missing, opened, loaded, mishaps>>
      /\ upstream \in Version /\ upstream \in Nat /\ upstream # 0 /\ upstream \in 0 .. MaxVersion
  BY DEF Get, Quiet, Making, rest, stubs, IInv, TypeOK, Version
<1>2. CASE /\ Validator = upstream
           /\ At(c, "get", IF MapIsStub THEN "generate" ELSE "compare")
           /\ refresh' = [refresh EXCEPT ![c].got = upstream, ![c].fresh = MapIsStub]
           /\ UNCHANGED <<disk, lock, faults>>
  <2> DEFINE next == IF MapIsStub THEN "generate" ELSE "compare"
  <2>1. disk.db # None /\ disk.meta = upstream /\ disk.db.ver = upstream
    BY <1>1, <1>2 DEF Validator, IInv, FilesInOrder, Version
  <2>2. pc' = [pc EXCEPT ![c] = next] /\ pc'[c] = next /\ next \in {"generate", "compare"}
    BY <1>2 DEF At, IInv, TypeOK
  <2>3. /\ refresh' \in [Caller -> [before : FileOrNone, got : 0 .. MaxVersion, fresh : BOOLEAN]]
        /\ refresh'[c].got = upstream
    <3>1. MapIsStub \in BOOLEAN
      BY DEF MapIsStub
    <3>2. QED
      BY <1>1, <1>2, <3>1 DEF IInv, TypeOK
  <2>4. TypeOK'
    BY <1>1, <1>2, <2>2, <2>3 DEF IInv, TypeOK
  <2>5. FilesInOrder' /\ MapIsWhole'
    BY <1>1, <1>2 DEF IInv, FilesInOrder, MapIsWhole
  <2>6. "torn" \notin mishaps /\ next = "compare"
           => disk.map = [ver |-> upstream, whole |-> TRUE] \/ (disk.map = Empty /\ opened # {})
    BY <1>1, <2>1, HolderSees DEF MapIsStub, Fits
  <2>7. InPhase(c)'
    BY <1>1, <1>2, <2>1, <2>2, <2>3, <2>6 DEF InPhase, Making
  <2>8. Fits'
    BY <1>1, <1>2, HolderSees DEF Fits
  <2>9. QED
    BY <1>1, <1>2, <2>2, <2>4, <2>5, <2>7, <2>8, HolderKeeps
<1>3. CASE /\ Validator # upstream
           /\ At(c, "get", "body")
           /\ disk' = [disk EXCEPT !.dbTmp = [ver |-> upstream, whole |-> FALSE]]
           /\ refresh' = [refresh EXCEPT ![c].got = upstream, ![c].fresh = TRUE]
           /\ UNCHANGED <<lock, faults>>
  <2>1. pc' = [pc EXCEPT ![c] = "body"] /\ pc'[c] = "body"
    BY <1>3 DEF At, IInv, TypeOK
  <2>2. [ver |-> upstream, whole |-> FALSE] \in FileOrNone
    BY <1>1 DEF FileOrNone, File
  <2>3. /\ disk' \in [db : FileOrNone, map : FileOrNone, dbTmp : FileOrNone,
                      mapTmp : FileOrNone, meta : 0 .. MaxVersion]
        /\ disk'.db = disk.db /\ disk'.map = disk.map /\ disk'.meta = disk.meta
    BY <1>3, <2>2 DEF IInv, TypeOK
  <2>4. /\ refresh' \in [Caller -> [before : FileOrNone, got : 0 .. MaxVersion, fresh : BOOLEAN]]
        /\ refresh'[c].got = upstream
    BY <1>1, <1>3 DEF IInv, TypeOK
  <2>5. TypeOK'
    BY <1>1, <1>3, <2>1, <2>3, <2>4 DEF IInv, TypeOK
  <2>6. FilesInOrder' /\ MapIsWhole'
    BY <1>1, <2>3 DEF IInv, FilesInOrder, MapIsWhole
  <2>7. InPhase(c)'
    BY <1>1, <2>1, <2>3, <2>4 DEF InPhase, Making, Fetched, IInv, FilesInOrder
  <2>8. Fits'
    BY <1>1, <2>3, HolderSees DEF Fits
  <2>9. QED
    BY <1>1, <1>3, <2>1, <2>5, <2>6, <2>7, <2>8, HolderKeeps
<1>4. CASE Fault /\ Return(c) /\ disk' = [disk EXCEPT !.dbTmp = None]
  <2>1. /\ disk'.db = disk.db /\ disk'.map = disk.map /\ disk'.meta = disk.meta
        /\ disk' \in [db : FileOrNone, map : FileOrNone, dbTmp : FileOrNone,
                      mapTmp : FileOrNone, meta : 0 .. MaxVersion]
    BY <1>4 DEF IInv, TypeOK, FileOrNone
  <2>2. faults' \in 0 .. MaxFaults /\ mishaps' \subseteq Mishap
    BY <1>1, <1>4, GeoipAssumption DEF GeoipAssumption, Fault, IInv, TypeOK
  <2>3. QED
    BY <1>1, <1>4, <2>1, <2>2, ReturnKeeps
<1>5. QED
  BY <1>2, <1>3, <1>4 DEF Get

LEMMA BodyKeeps == ASSUME IInv, NEW c \in Caller, Body(c) PROVE IInv'
<1>1. /\ pc[c] = "body" /\ pc[c] \notin Quiet /\ pc[c] \notin Making
      /\ UNCHANGED <<upstream, missing, opened, loaded, mishaps>>
      /\ refresh[c].got \in Version /\ refresh[c].got \in 0 .. MaxVersion
  <2>1. pc[c] = "body" /\ UNCHANGED rest
    BY DEF Body, At
  <2>2. refresh[c].got \in Version
    BY <2>1 DEF IInv, InPhase, Fetched
  <2>3. QED
    BY <2>1, <2>2 DEF Quiet, Making, rest, stubs, Version
<1>2. CASE /\ At(c, "body", "swap")
           /\ disk' = [disk EXCEPT !.dbTmp = [ver |-> refresh[c].got, whole |-> TRUE]]
           /\ UNCHANGED <<lock, refresh, faults>>
  <2>1. pc' = [pc EXCEPT ![c] = "swap"] /\ pc'[c] = "swap"
    BY <1>2 DEF At, IInv, TypeOK
  <2>2. [ver |-> refresh[c].got, whole |-> TRUE] \in FileOrNone
    BY <1>1 DEF FileOrNone, File
  <2>3. /\ disk' \in [db : FileOrNone, map : FileOrNone, dbTmp : FileOrNone,
                      mapTmp : FileOrNone, meta : 0 .. MaxVersion]
        /\ disk'.db = disk.db /\ disk'.map = disk.map /\ disk'.meta = disk.meta
        /\ disk'.dbTmp = [ver |-> refresh[c].got, whole |-> TRUE]
    BY <1>2, <2>2 DEF IInv, TypeOK
  <2>4. TypeOK'
    BY <1>1, <1>2, <2>1, <2>3 DEF IInv, TypeOK
  <2>5. FilesInOrder' /\ MapIsWhole'
    BY <1>1, <2>3 DEF IInv, FilesInOrder, MapIsWhole
  <2>6. InPhase(c)'
    BY <1>1, <1>2, <2>1, <2>3 DEF InPhase, Making, Fetched, IInv
  <2>7. Fits'
    BY <1>1, <2>3, HolderSees DEF Fits
  <2>8. QED
    BY <1>1, <1>2, <2>1, <2>4, <2>5, <2>6, <2>7, HolderKeeps
<1>3. CASE Fault /\ Return(c) /\ disk' = [disk EXCEPT !.dbTmp = None]
  <2>1. /\ disk'.db = disk.db /\ disk'.map = disk.map /\ disk'.meta = disk.meta
        /\ disk' \in [db : FileOrNone, map : FileOrNone, dbTmp : FileOrNone,
                      mapTmp : FileOrNone, meta : 0 .. MaxVersion]
    BY <1>3 DEF IInv, TypeOK, FileOrNone
  <2>2. faults' \in 0 .. MaxFaults /\ mishaps' \subseteq Mishap
    BY <1>1, <1>3, GeoipAssumption DEF GeoipAssumption, Fault, IInv, TypeOK
  <2>3. QED
    BY <1>1, <1>3, <2>1, <2>2, ReturnKeeps
<1>4. QED
  BY <1>2, <1>3 DEF Body

LEMMA SwapKeeps == ASSUME IInv, NEW c \in Caller, Swap(c) PROVE IInv'
<1>1. /\ pc[c] = "swap" /\ pc[c] \notin Quiet /\ pc[c] \notin Making
      /\ UNCHANGED <<upstream, missing, opened, loaded, mishaps, faults>>
      /\ Fetched(c)
      /\ disk.dbTmp = [ver |-> refresh[c].got, whole |-> TRUE]
  BY DEF Swap, Quiet, Making, rest, stubs, IInv, InPhase
<1>2. CASE disk.dbTmp = None
  <2>1. Return(c) /\ disk' = disk
    BY <1>1, <1>2 DEF Swap
  <2>2. mishaps' \subseteq Mishap /\ faults' \in 0 .. MaxFaults
    BY <1>1 DEF IInv, TypeOK
  <2>3. disk \in [db : FileOrNone, map : FileOrNone, dbTmp : FileOrNone,
                  mapTmp : FileOrNone, meta : 0 .. MaxVersion]
    BY DEF IInv, TypeOK
  <2>4. QED
    BY <1>1, <2>1, <2>2, <2>3, ReturnKeeps
<1>3. CASE disk.dbTmp # None
  <2>1. /\ pc' = [pc EXCEPT ![c] = "store"] /\ pc'[c] = "store"
        /\ UNCHANGED <<lock, refresh>>
        /\ disk' = [disk EXCEPT !.db = disk.dbTmp, !.dbTmp = None]
    BY <1>3 DEF Swap, At, IInv, TypeOK
  <2>2. /\ disk' \in [db : FileOrNone, map : FileOrNone, dbTmp : FileOrNone,
                      mapTmp : FileOrNone, meta : 0 .. MaxVersion]
        /\ disk'.db = disk.dbTmp /\ disk'.map = disk.map /\ disk'.meta = disk.meta
    BY <2>1 DEF IInv, TypeOK, FileOrNone
  <2>3. disk'.db # None /\ disk'.db.ver = refresh[c].got
    BY <1>1, <1>3, <2>2
  <2>4. TypeOK'
    BY <1>1, <2>1, <2>2 DEF IInv, TypeOK
  <2>5. FilesInOrder'
    <3>1. disk.meta <= refresh[c].got
      BY <1>1 DEF IInv, FilesInOrder, Fetched, Version, TypeOK
    <3>2. QED
      BY <1>1, <2>2, <2>3, <3>1 DEF FilesInOrder, Fetched
  <2>6. MapIsWhole'
    BY <1>1, <2>2 DEF IInv, MapIsWhole
  <2>7. InPhase(c)'
    BY <1>1, <2>1, <2>3 DEF InPhase, Making, Fetched
  <2>8. Fits'
    BY <1>1, <2>2, HolderSees DEF Fits
  <2>9. QED
    BY <1>1, <2>1, <2>4, <2>5, <2>6, <2>7, <2>8, HolderKeeps
<1>4. QED
  BY <1>2, <1>3

\* From here to the new map the validator is the database's.
LEMMA StoreKeeps == ASSUME IInv, NEW c \in Caller, Store(c) PROVE IInv'
<1>1. /\ pc[c] = "store" /\ pc[c] \notin Quiet /\ pc[c] \notin Making
      /\ UNCHANGED <<upstream, missing, opened, loaded, mishaps>>
      /\ refresh[c].got \in Version /\ refresh[c].got \in 0 .. MaxVersion
      /\ disk.db # None /\ disk.db.ver = refresh[c].got
  <2>1. pc[c] = "store" /\ UNCHANGED rest
    BY DEF Store, At
  <2>2. refresh[c].got \in Version /\ disk.db # None /\ disk.db.ver = refresh[c].got
    BY <2>1 DEF IInv, InPhase
  <2>3. QED
    BY <2>1, <2>2 DEF Quiet, Making, rest, stubs, Version
<1>2. CASE /\ At(c, "store", "generate")
           /\ disk' = [disk EXCEPT !.meta = refresh[c].got]
           /\ UNCHANGED <<lock, refresh, faults>>
  <2>1. pc' = [pc EXCEPT ![c] = "generate"] /\ pc'[c] = "generate"
    BY <1>2 DEF At, IInv, TypeOK
  <2>2. /\ disk' \in [db : FileOrNone, map : FileOrNone, dbTmp : FileOrNone,
                      mapTmp : FileOrNone, meta : 0 .. MaxVersion]
        /\ disk'.db = disk.db /\ disk'.map = disk.map /\ disk'.meta = refresh[c].got
    BY <1>1, <1>2 DEF IInv, TypeOK
  <2>3. TypeOK'
    BY <1>1, <1>2, <2>1, <2>2 DEF IInv, TypeOK
  <2>4. FilesInOrder' /\ MapIsWhole'
    BY <1>1, <2>2 DEF IInv, FilesInOrder, MapIsWhole, Version
  <2>5. InPhase(c)'
    BY <1>1, <1>2, <2>1, <2>2 DEF InPhase, Making
  <2>6. QED
    BY <1>1, <1>2, <2>1, <2>3, <2>4, <2>5, HolderKeeps DEF Making
<1>3. CASE Fault /\ Return(c) /\ \E m \in {0, disk.meta} : disk' = [disk EXCEPT !.meta = m]
  <2>1. /\ disk'.db = disk.db /\ disk'.map = disk.map /\ disk'.meta \in {0, disk.meta}
        /\ disk' \in [db : FileOrNone, map : FileOrNone, dbTmp : FileOrNone,
                      mapTmp : FileOrNone, meta : 0 .. MaxVersion]
    BY <1>3, GeoipAssumption DEF GeoipAssumption, IInv, TypeOK
  <2>2. faults' \in 0 .. MaxFaults /\ mishaps' \subseteq Mishap
    BY <1>1, <1>3, GeoipAssumption DEF GeoipAssumption, Fault, IInv, TypeOK
  <2>3. QED
    BY <1>1, <1>3, <2>1, <2>2, ReturnKeeps
<1>4. QED
  BY <1>2, <1>3 DEF Store

LEMMA ForgetKeeps ==
    ASSUME IInv, NEW c \in Caller, pc[c] \notin Quiet, pc[c] # "ensure", Forget(c),
           UNCHANGED <<upstream, missing, opened, loaded, mishaps>>, faults' \in 0 .. MaxFaults
    PROVE  IInv'
<1>1. /\ disk'.db = disk.db /\ disk'.map = disk.map /\ disk'.meta = 0
      /\ disk' \in [db : FileOrNone, map : FileOrNone, dbTmp : FileOrNone,
                    mapTmp : FileOrNone, meta : 0 .. MaxVersion]
  BY GeoipAssumption DEF GeoipAssumption, Forget, IInv, TypeOK
<1>2. mishaps' \subseteq Mishap /\ loaded' = loaded /\ Return(c)
  BY DEF IInv, TypeOK, Forget
<1>3. QED
  BY <1>1, <1>2, ReturnKeeps

LEMMA GenerateKeeps == ASSUME IInv, NEW c \in Caller, Generate(c) PROVE IInv'
<1>1. /\ pc[c] = "generate" /\ pc[c] \notin Quiet
      /\ UNCHANGED <<upstream, missing, opened, loaded, mishaps>>
      /\ disk.db # None /\ disk.meta = disk.db.ver
      /\ refresh[c].got = disk.meta
      /\ faults \in 0 .. MaxFaults
  BY DEF Generate, Quiet, Making, rest, stubs, IInv, InPhase, TypeOK
<1>2. CASE /\ IsDatabase(disk.db)
           /\ At(c, "generate", "write")
           /\ disk' = [disk EXCEPT !.mapTmp = [ver |-> disk.db.ver, whole |-> FALSE]]
           /\ UNCHANGED <<lock, refresh, faults>>
  <2>1. pc' = [pc EXCEPT ![c] = "write"] /\ pc'[c] = "write"
    BY <1>2 DEF At, IInv, TypeOK
  <2>2. [ver |-> disk.db.ver, whole |-> FALSE] \in FileOrNone
    BY <1>1 DEF IInv, FilesInOrder, FileOrNone, File, Version
  <2>3. /\ disk' \in [db : FileOrNone, map : FileOrNone, dbTmp : FileOrNone,
                      mapTmp : FileOrNone, meta : 0 .. MaxVersion]
        /\ disk'.db = disk.db /\ disk'.map = disk.map /\ disk'.meta = disk.meta
    BY <1>2, <2>2 DEF IInv, TypeOK
  <2>4. TypeOK'
    BY <1>1, <1>2, <2>1, <2>3 DEF IInv, TypeOK
  <2>5. FilesInOrder' /\ MapIsWhole'
    BY <1>1, <2>3 DEF IInv, FilesInOrder, MapIsWhole
  <2>6. InPhase(c)'
    BY <1>1, <1>2, <2>1, <2>3 DEF InPhase, Making, IsDatabase
  <2>7. QED
    BY <1>1, <1>2, <2>1, <2>4, <2>5, <2>6, HolderKeeps DEF Making
<1>3. CASE ~IsDatabase(disk.db) /\ Forget(c) /\ UNCHANGED faults
  BY <1>1, <1>3, ForgetKeeps
<1>4. QED
  BY <1>2, <1>3 DEF Generate

LEMMA WriteKeeps == ASSUME IInv, NEW c \in Caller, Write(c) PROVE IInv'
<1>1. /\ pc[c] = "write" /\ pc[c] \notin Quiet
      /\ UNCHANGED <<upstream, missing, opened, loaded, mishaps>>
      /\ disk.db # None /\ disk.meta = disk.db.ver /\ IsDatabase(disk.db)
      /\ refresh[c].got = disk.meta
  <2>1. pc[c] = "write" /\ UNCHANGED rest
    BY DEF Write, At
  <2>2. QED
    BY <2>1 DEF Quiet, Making, rest, stubs, IInv, InPhase
<1>2. CASE /\ At(c, "write", "publish")
           /\ disk' = [disk EXCEPT !.mapTmp = [ver |-> disk.db.ver, whole |-> TRUE]]
           /\ UNCHANGED <<lock, refresh, faults>>
  <2>1. pc' = [pc EXCEPT ![c] = "publish"] /\ pc'[c] = "publish"
    BY <1>2 DEF At, IInv, TypeOK
  <2>2. [ver |-> disk.db.ver, whole |-> TRUE] \in FileOrNone
    BY <1>1 DEF IInv, FilesInOrder, FileOrNone, File, Version
  <2>3. /\ disk' \in [db : FileOrNone, map : FileOrNone, dbTmp : FileOrNone,
                      mapTmp : FileOrNone, meta : 0 .. MaxVersion]
        /\ disk'.db = disk.db /\ disk'.map = disk.map /\ disk'.meta = disk.meta
        /\ disk'.mapTmp = [ver |-> disk.db.ver, whole |-> TRUE]
    BY <1>2, <2>2 DEF IInv, TypeOK
  <2>4. TypeOK'
    BY <1>1, <1>2, <2>1, <2>3 DEF IInv, TypeOK
  <2>5. FilesInOrder' /\ MapIsWhole'
    BY <1>1, <2>3 DEF IInv, FilesInOrder, MapIsWhole
  <2>6. InPhase(c)'
    BY <1>1, <1>2, <2>1, <2>3 DEF InPhase, Making, IsDatabase
  <2>7. QED
    BY <1>1, <1>2, <2>1, <2>4, <2>5, <2>6, HolderKeeps DEF Making
<1>3. CASE Fault /\ Forget(c)
  <2>1. faults' \in 0 .. MaxFaults
    BY <1>3, GeoipAssumption DEF GeoipAssumption, Fault, IInv, TypeOK
  <2>2. QED
    BY <1>1, <1>3, <2>1, ForgetKeeps
<1>4. QED
  BY <1>2, <1>3 DEF Write

LEMMA PublishMapKeeps == ASSUME IInv, NEW c \in Caller, PublishMap(c) PROVE IInv'
<1>1. /\ pc[c] = "publish" /\ pc[c] \notin Quiet
      /\ UNCHANGED <<upstream, missing, loaded, mishaps, faults>>
      /\ disk.db # None /\ disk.meta = disk.db.ver /\ IsDatabase(disk.db)
      /\ refresh[c].got = disk.meta
      /\ disk.mapTmp = [ver |-> disk.db.ver, whole |-> TRUE]
      /\ disk.db.ver \in Version
      /\ faults \in 0 .. MaxFaults
  BY DEF PublishMap, Quiet, Making, rest, stubs, IInv, InPhase, FilesInOrder, TypeOK
<1>2. CASE disk.mapTmp = None
  <2>1. Forget(c) /\ UNCHANGED opened
    BY <1>2 DEF PublishMap
  <2>2. QED
    BY <1>1, <2>1, ForgetKeeps
<1>3. CASE disk.mapTmp # None
  <2>1. /\ pc' = [pc EXCEPT ![c] = "compare"] /\ pc'[c] = "compare"
        /\ UNCHANGED <<lock, refresh>>
        /\ disk' = [disk EXCEPT !.map = disk.mapTmp, !.mapTmp = None]
        /\ opened' = {}
    BY <1>3 DEF PublishMap, At, IInv, TypeOK
  <2>2. /\ disk' \in [db : FileOrNone, map : FileOrNone, dbTmp : FileOrNone,
                      mapTmp : FileOrNone, meta : 0 .. MaxVersion]
        /\ disk'.db = disk.db /\ disk'.meta = disk.meta
        /\ disk'.map = [ver |-> disk.meta, whole |-> TRUE]
    BY <1>1, <2>1 DEF IInv, TypeOK, FileOrNone
  <2>3. TypeOK'
    BY <1>1, <2>1, <2>2 DEF IInv, TypeOK
  <2>4. FilesInOrder'
    BY <1>1, <2>2 DEF IInv, FilesInOrder
  <2>5. MapIsWhole'
    <3>1. disk'.map \in Usable
      BY <1>1, <2>2 DEF IsDatabase, Usable
    <3>2. QED
      BY <1>1, <3>1 DEF IInv, MapIsWhole
  <2>6. InPhase(c)'
    <3>1. disk'.meta # 0
      BY <1>1, <2>2 DEF Version
    <3>2. QED
      BY <1>1, <2>1, <2>2, <3>1 DEF InPhase, Making
  <2>7. Fits'
    BY <2>2 DEF Fits
  <2>8. QED
    BY <1>1, <2>1, <2>3, <2>4, <2>5, <2>6, <2>7, HolderKeeps
<1>4. QED
  BY <1>2, <1>3

LEMMA CompareKeeps == ASSUME IInv, NEW c \in Caller, Compare(c) PROVE IInv'
<1>1. /\ pc[c] = "compare" /\ pc[c] \notin Quiet /\ pc[c] \notin Making
      /\ UNCHANGED <<upstream, missing, opened, loaded, mishaps, disk, faults>>
  BY DEF Compare, Quiet, Making, rest, stubs
<1>2. CASE Changed(c)
  <2>1. pc' = [pc EXCEPT ![c] = "reload"] /\ pc'[c] = "reload" /\ UNCHANGED <<lock, refresh>>
    BY <1>2 DEF Compare, At, IInv, TypeOK
  <2>2. TypeOK' /\ FilesInOrder' /\ MapIsWhole'
    BY <1>1, <2>1 DEF IInv, TypeOK, FilesInOrder, MapIsWhole
  <2>3. InPhase(c)'
    BY <2>1 DEF InPhase, Making
  <2>4. Fits'
    BY <1>1, HolderSees DEF Fits
  <2>5. QED
    BY <1>1, <2>1, <2>2, <2>3, <2>4, HolderKeeps
<1>3. CASE ~Changed(c)
  <2>1. Return(c)
    BY <1>3 DEF Compare
  <2>2. /\ mishaps' \subseteq Mishap /\ faults' \in 0 .. MaxFaults
        /\ disk \in [db : FileOrNone, map : FileOrNone, dbTmp : FileOrNone,
                     mapTmp : FileOrNone, meta : 0 .. MaxVersion]
    BY <1>1 DEF IInv, TypeOK
  <2>3. QED
    BY <1>1, <2>1, <2>2, ReturnKeeps
<1>4. QED
  BY <1>2, <1>3

LEMMA ReloadKeeps == ASSUME IInv, NEW c \in Caller, Reload(c) PROVE IInv'
<1>1. /\ pc[c] = "reload" /\ pc[c] \notin Quiet /\ pc[c] \notin Making
      /\ UNCHANGED <<upstream, disk, missing, opened>>
      /\ Return(c)
  BY DEF Reload, Quiet, Making, stubs
<1>2. /\ loaded' \in {loaded, disk.map} /\ faults' \in 0 .. MaxFaults
      /\ mishaps' \subseteq Mishap /\ mishaps \subseteq mishaps'
  <2>1. mishaps \subseteq Mishap /\ faults \in 0 .. MaxFaults
    BY DEF IInv, TypeOK
  <2>2. CASE loaded' = disk.map /\ UNCHANGED <<faults, mishaps>>
    BY <2>1, <2>2
  <2>3. CASE Fault /\ Record("unloaded", TRUE) /\ UNCHANGED loaded
    BY <2>1, <2>3, GeoipAssumption DEF GeoipAssumption, Fault, Record, Mishap
  <2>4. QED
    BY <2>2, <2>3 DEF Reload
<1>3. disk \in [db : FileOrNone, map : FileOrNone, dbTmp : FileOrNone,
                mapTmp : FileOrNone, meta : 0 .. MaxVersion]
  BY DEF IInv, TypeOK
<1>4. QED
  BY <1>1, <1>2, <1>3, ReturnKeeps

-----------------------------------------------------------------------------
\* Steps outside a refresh

LEMMA PublishKeeps == ASSUME IInv, Publish PROVE IInv'
<1>1. /\ upstream \in Nat /\ upstream' \in Version /\ upstream' \in Nat /\ upstream < upstream'
      /\ UNCHANGED <<disk, lock, pc, refresh, missing, opened, loaded, faults, mishaps>>
  BY GeoipAssumption DEF GeoipAssumption, Publish, stubs, IInv, TypeOK, Version
<1>2. TypeOK'
  BY <1>1 DEF IInv, TypeOK
<1>3. disk.db # None => disk.db.ver \in Nat
  BY DEF IInv, FilesInOrder, Version
<1>4. FilesInOrder'
  BY <1>1, <1>3 DEF IInv, FilesInOrder
<1>5. ASSUME NEW c \in Caller
      PROVE  InPhase(c)'
  <2>1. InPhase(c)
    BY DEF IInv
  <2>2. refresh[c].got \in Version => refresh[c].got \in Nat
    BY DEF Version
  <2>3. refresh[c].got \in Version /\ refresh[c].got <= upstream => refresh[c].got <= upstream'
    BY <1>1, <2>2
  <2>4. QED
    BY <1>1, <2>1, <2>3 DEF InPhase, Fetched, IsDatabase
<1>6. Exclusive' /\ MapMatches' /\ StubFirst' /\ MapIsWhole'
  BY <1>1 DEF IInv, Exclusive, MapMatches, Fits, StubFirst, MapIsWhole
<1>7. QED
  BY <1>2, <1>4, <1>5, <1>6 DEF IInv

\* The lock is taken when it is free: nobody else is under way.
LEMMA AskOrEnterKeeps == ASSUME IInv, NEW c \in Caller, Ask(c) \/ Enter(c) PROVE IInv'
<1>1. /\ UNCHANGED <<upstream, disk, refresh, missing, opened, loaded, faults, mishaps>>
      /\ pc[c] \in Quiet
  BY DEF Ask, Enter, At, rest, stubs, Quiet
<1>2. PICK next \in {"idle", "asked", "ensure"} :
         /\ pc' = [pc EXCEPT ![c] = next]
         /\ \/ next \in Quiet /\ lock' = lock
            \/ lock = None /\ lock' = c
  BY DEF Ask, Enter, At, rest, Quiet
<1>3. TypeOK'
  BY <1>1, <1>2 DEF IInv, TypeOK
<1>4. None \notin Caller
  BY GeoipAssumption DEF GeoipAssumption
<1>5. Exclusive'
  BY <1>1, <1>2, <1>4 DEF IInv, TypeOK, Exclusive, Quiet
<1>6. pc'[c] = next /\ \A d \in Caller : d # c => pc'[d] = pc[d]
  BY <1>2 DEF IInv, TypeOK
<1>7. \A d \in Caller : InPhase(d)'
  BY <1>1, <1>6 DEF IInv, InPhase, Fetched, IsDatabase, Making, Quiet
<1>8. MapMatches'
  BY <1>1, <1>6 DEF IInv, MapMatches, Fits, Making, Quiet
<1>9. FilesInOrder' /\ MapIsWhole' /\ StubFirst'
  BY <1>1, <1>6 DEF IInv, FilesInOrder, MapIsWhole, StubFirst, Quiet
<1>10. QED
  BY <1>3, <1>5, <1>7, <1>8, <1>9 DEF IInv

LEMMA Placeholders ==
    /\ Stub \in FileOrNone /\ Empty \in FileOrNone
    /\ \A f \in FileOrNone : f # None => [ver |-> f.ver, whole |-> FALSE] \in FileOrNone
    /\ Stub.ver = 0 /\ Empty.ver = 0 /\ Empty = [ver |-> 0, whole |-> FALSE]
<1>1. Stub \in FileOrNone /\ Empty \in FileOrNone
  BY GeoipAssumption DEF GeoipAssumption, Stub, Empty, File, FileOrNone
<1>2. \A f \in FileOrNone : f # None => [ver |-> f.ver, whole |-> FALSE] \in FileOrNone
  BY DEF File, FileOrNone
<1>3. QED
  BY <1>1, <1>2 DEF Stub, Empty

\* A thread writes the stub: its file is empty while it is in `opened`, and what
\* a failure leaves behind is recorded.
LEMMA StubKeeps ==
    ASSUME IInv, NEW t \in Thread, FindsNoMap(t) \/ OpensStub(t) \/ WritesStub(t)
    PROVE  IInv'
<1>1. /\ UNCHANGED <<upstream, lock, pc, refresh, faults>>
      /\ missing' \subseteq Thread /\ opened' \subseteq Thread
      /\ mishaps' \subseteq Mishap /\ mishaps \subseteq mishaps'
  BY DEF FindsNoMap, OpensStub, WritesStub, Record, Mishap, IInv, TypeOK
<1>2. /\ \/ disk' = disk /\ opened' = opened
         \/ disk' = [disk EXCEPT !.map = Empty] /\ opened' # {}
         \/ disk' = [disk EXCEPT !.map = Stub]
      /\ \/ loaded' = loaded
         \/ /\ loaded' = [ver |-> disk.map.ver, whole |-> FALSE] /\ disk.map # None
            /\ disk.map \notin {None, Stub, Empty} => "covered" \in mishaps'
  BY DEF FindsNoMap, OpensStub, WritesStub, Record
<1>3. /\ disk' \in [db : FileOrNone, map : FileOrNone, dbTmp : FileOrNone,
                    mapTmp : FileOrNone, meta : 0 .. MaxVersion]
      /\ disk'.db = disk.db /\ disk'.meta = disk.meta
      /\ disk'.dbTmp = disk.dbTmp /\ disk'.mapTmp = disk.mapTmp
      /\ \/ disk'.map = disk.map /\ opened' = opened
         \/ disk'.map = Empty /\ opened' # {}
         \/ disk'.map = Stub
  BY <1>2, Placeholders DEF IInv, TypeOK
<1>4. /\ loaded' \in FileOrNone
      /\ loaded' \in {loaded, Empty} \/ "covered" \in mishaps'
  <2>1. CASE loaded' = loaded
    BY <2>1 DEF IInv, TypeOK
  <2>2. CASE /\ loaded' = [ver |-> disk.map.ver, whole |-> FALSE] /\ disk.map # None
             /\ disk.map \notin {None, Stub, Empty} => "covered" \in mishaps'
    <3>1. disk.map \in FileOrNone
      BY DEF IInv, TypeOK
    <3>2. loaded' \in FileOrNone
      BY <2>2, <3>1, Placeholders
    <3>3. CASE disk.map \in {Stub, Empty}
      BY <2>2, <3>2, <3>3, Placeholders
    <3>4. CASE disk.map \notin {Stub, Empty}
      BY <2>2, <3>2, <3>4
    <3>5. QED
      BY <3>3, <3>4
  <2>3. QED
    BY <1>2, <2>1, <2>2
<1>5. TypeOK'
  BY <1>1, <1>3, <1>4 DEF IInv, TypeOK
<1>6. Exclusive' /\ FilesInOrder' /\ MapMatches'
  BY <1>1, <1>3 DEF IInv, Exclusive, FilesInOrder, MapMatches, Fits
<1>7. StubFirst'
  BY <1>1 DEF IInv, StubFirst, FindsNoMap, OpensStub, WritesStub
<1>8. MapIsWhole'
  BY <1>1, <1>3, <1>4 DEF IInv, MapIsWhole
<1>9. \A c \in Caller : InPhase(c)'
  BY <1>1, <1>3 DEF IInv, InPhase, Fetched, IsDatabase
<1>10. QED
  BY <1>5, <1>6, <1>7, <1>8, <1>9 DEF IInv

\* What a failure or a stop of a thread in `opened` can break, it records.
LEMMA CutIsRecorded ==
    ASSUME IInv, UNCHANGED disk, mishaps \subseteq mishaps',
           opened' = opened \/ CutShort \subseteq mishaps'
    PROVE  /\ Fits => Fits'
           /\ opened # {} /\ opened' # opened => "cut" \in mishaps'
           /\ opened' # opened /\ disk.meta # 0 => "torn" \in mishaps'
BY DEF CutShort, Fits

LEMMA StubFailsKeeps == ASSUME IInv, NEW t \in Thread, StubFails(t) PROVE IInv'
<1>1. /\ UNCHANGED <<upstream, disk, loaded>>
      /\ missing' = missing \ {t} /\ opened' = opened \ {t} /\ t \in missing \cup opened
      /\ mishaps' \subseteq Mishap /\ mishaps \subseteq mishaps'
      /\ opened' = opened \/ CutShort \subseteq mishaps'
  BY DEF StubFails, CutShort, Mishap, IInv, TypeOK
<1>2. faults' \in 0 .. MaxFaults
  BY GeoipAssumption DEF GeoipAssumption, StubFails, Fault, IInv, TypeOK
<1>3. /\ Fits => Fits'
      /\ opened # {} /\ opened' # opened => "cut" \in mishaps'
      /\ opened' # opened /\ disk.meta # 0 => "torn" \in mishaps'
  BY <1>1, CutIsRecorded
<1>4. FilesInOrder' /\ MapIsWhole'
  BY <1>1, <1>3 DEF IInv, FilesInOrder, MapIsWhole
<1>5. CASE t \in Caller
  <2>1. /\ pc[t] = "ensure" /\ pc[t] \notin Quiet /\ pc[t] \notin Making
        /\ pc' = [pc EXCEPT ![t] = "idle"] /\ lock' = None
        /\ refresh' = [refresh EXCEPT ![t] = NoRefresh]
    BY <1>1, <1>5 DEF StubFails, Return, IInv, StubFirst, Quiet, Making
  <2>2. NoRefresh \in [before : FileOrNone, got : 0 .. MaxVersion, fresh : BOOLEAN]
    BY GeoipAssumption DEF GeoipAssumption, NoRefresh, FileOrNone
  <2>3. TypeOK'
    BY <1>1, <1>2, <2>1, <2>2 DEF IInv, TypeOK
  <2>4. pc'[t] = "idle"
    BY <1>5, <2>1 DEF IInv, TypeOK
  <2>5. InPhase(t)'
    BY <2>4 DEF InPhase, Making
  <2>6. Fits'
    BY <1>3, <1>5, <2>1, HolderSees
  <2>7. missing' \cup opened' \subseteq missing \cup opened /\ t \notin missing' \cup opened'
    BY <1>1
  <2>8. QED
    BY <1>4, <1>5, <2>1, <2>3, <2>5, <2>6, <2>7, HolderKeeps
<1>6. CASE t \notin Caller
  <2>1. UNCHANGED <<pc, refresh, lock>>
    BY <1>6 DEF StubFails
  <2>2. TypeOK'
    BY <1>1, <1>2, <2>1 DEF IInv, TypeOK
  <2>3. Exclusive' /\ StubFirst' /\ MapMatches'
    BY <1>1, <1>3, <2>1 DEF IInv, Exclusive, StubFirst, MapMatches
  <2>4. ASSUME NEW c \in Caller
        PROVE  InPhase(c)'
    BY <1>1, <1>3, <2>1 DEF IInv, InPhase, Fetched, IsDatabase
  <2>5. QED
    BY <1>4, <2>2, <2>3, <2>4 DEF IInv
<1>7. QED
  BY <1>5, <1>6

LEMMA OtherReloadKeeps == ASSUME IInv, OtherReload PROVE IInv'
<1>1. UNCHANGED <<upstream, disk, lock, pc, refresh, missing, opened, faults, mishaps>>
      /\ loaded' = disk.map /\ loaded' \in FileOrNone
  BY DEF OtherReload, stubs, IInv, TypeOK
<1>2. TypeOK'
  BY <1>1 DEF IInv, TypeOK
<1>3. Exclusive' /\ FilesInOrder' /\ MapMatches' /\ StubFirst' /\ MapIsWhole'
  BY <1>1 DEF IInv, Exclusive, FilesInOrder, MapMatches, Fits, StubFirst, MapIsWhole
<1>4. \A c \in Caller : InPhase(c)'
  BY <1>1 DEF IInv, InPhase, Fetched, IsDatabase
<1>5. QED
  BY <1>2, <1>3, <1>4 DEF IInv

\* A restart in the making of a map is what "torn" remembers.
LEMMA RestartKeeps == ASSUME IInv, Restart PROVE IInv'
<1>1. /\ UNCHANGED <<upstream, disk, loaded>>
      /\ pc' = [c \in Caller |-> "idle"] /\ lock' = None
      /\ missing' = {} /\ opened' = {}
      /\ refresh' = [c \in Caller |-> NoRefresh]
      /\ mishaps \subseteq mishaps' /\ mishaps' \subseteq Mishap
      /\ (\E c \in Caller : pc[c] \in Making) => "torn" \in mishaps'
      /\ opened' = opened \/ CutShort \subseteq mishaps'
  BY DEF Restart, CutShort, Mishap, Making, IInv, TypeOK
<1>2. /\ Fits => Fits'
      /\ opened # {} /\ opened' # opened => "cut" \in mishaps'
  BY <1>1, CutIsRecorded
<1>3. faults' \in 0 .. MaxFaults
  BY GeoipAssumption DEF GeoipAssumption, Restart, Fault, IInv, TypeOK
<1>4. NoRefresh \in [before : FileOrNone, got : 0 .. MaxVersion, fresh : BOOLEAN]
  BY GeoipAssumption DEF GeoipAssumption, NoRefresh, FileOrNone
<1>5. TypeOK'
  BY <1>1, <1>3, <1>4 DEF IInv, TypeOK
<1>6. Exclusive' /\ FilesInOrder' /\ MapIsWhole' /\ StubFirst'
  BY <1>1, <1>2 DEF IInv, Exclusive, Quiet, FilesInOrder, MapIsWhole, StubFirst
<1>7. MapMatches'
  BY <1>1, <1>2 DEF IInv, MapMatches, Fits
<1>8. \A c \in Caller : InPhase(c)'
  BY <1>1 DEF InPhase, Making
<1>9. QED
  BY <1>5, <1>6, <1>7, <1>8 DEF IInv

-----------------------------------------------------------------------------
LEMMA NextKeeps == IInv /\ [Next]_vars => IInv'
<1>1. SUFFICES ASSUME IInv, [Next]_vars PROVE IInv'
  OBVIOUS
<1>2. CASE UNCHANGED vars
  BY <1>1, <1>2 DEF IInv, TypeOK, Exclusive, FilesInOrder, InPhase, Fetched, IsDatabase,
                    MapMatches, Fits, StubFirst, MapIsWhole, vars, stubs
<1>3. CASE Publish \/ OtherReload \/ Restart
  BY <1>1, <1>3, PublishKeeps, OtherReloadKeeps, RestartKeeps
<1>4. ASSUME NEW c \in Caller, Ask(c) \/ Enter(c) \/ Step(c)
      PROVE  IInv'
  BY <1>1, <1>4, AskOrEnterKeeps, EnsureKeeps, GetKeeps, BodyKeeps, SwapKeeps, StoreKeeps,
     GenerateKeeps, WriteKeeps, PublishMapKeeps, CompareKeeps, ReloadKeeps DEF Step
<1>5. ASSUME NEW t \in Thread, FindsNoMap(t) \/ OpensStub(t) \/ WritesStub(t) \/ StubFails(t)
      PROVE  IInv'
  BY <1>1, <1>5, StubKeeps, StubFailsKeeps
<1>6. QED
  BY <1>1, <1>2, <1>3, <1>4, <1>5 DEF Next

\* Every reachable state satisfies the inductive invariant, type correctness
\* included.
THEOREM Inductive == Spec => []IInv
BY InitInvariant, NextKeeps, PTL DEF Spec

\* However many threads refresh or write the stub at once, and whatever fails,
\* the published map and the map HAProxy has read are the stub or a whole map of
\* a usable database; what a write of the stub leaves empty, in between or cut
\* short, is the exception that is stated.
THEOREM WholeMapsOnly == Spec => []MapIsWhole
<1>1. IInv => MapIsWhole
  BY DEF IInv
<1>2. QED
  BY Inductive, <1>1, PTL

\* A refresh that says "already up to date" says the truth of the map, unless a
\* stop or a stub cut short fell between the validators and the map.
THEOREM UpToDateIsTold == Spec => []UpToDateIsTrue
<1>1. IInv => UpToDateIsTrue
  BY DEF IInv, InPhase, UpToDateIsTrue
<1>2. QED
  BY Inductive, <1>1, PTL
=============================================================================
