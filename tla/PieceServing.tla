---------------------------- MODULE PieceServing ----------------------------
(***************************************************************************)
(* One piece from its deal's data to its readers: the piece storages and   *)
(* their manager (piecestorage), the zero-padding reader (utils), the HTTP *)
(* piece server (rpc) and the DAG store wrapper (dagstore).  A file is its *)
(* length: position i of the piece holds a payload byte when i < Payload   *)
(* and zero up to PieceLen.  The DAG store itself, S3 and the mv command   *)
(* are external: a file system save is a rename when the temporary file is *)
(* on the same device and a copy that others see growing when it is not,   *)
(* an S3 upload appears whole, and a read from S3 may return less than it  *)
(* was asked for.                                                          *)
(***************************************************************************)
EXTENDS Naturals, FiniteSets

CONSTANTS
  Stores, FsStores,   \* names of storages; the others are S3
  ReadOnlyStores,
  FarStores,          \* file system storages on another device than /tmp
  Payload, PieceLen,  \* sizes of the file and of the padded piece
  Buffers,            \* buffer lengths readers use
  Savers,             \* deals handed off with this piece
  Loaders,            \* retrievals that load the shard
  PieceFaults,        \* what may fail: "save", "open", "crash", "remove", "register"
  MaxPieceFaults, MaxLoads

ASSUME PieceServingAssumption ==
  /\ FarStores \subseteq FsStores /\ FsStores \subseteq Stores /\ ReadOnlyStores \subseteq Stores
  /\ Payload \in Nat \ {0} /\ PieceLen \in Nat /\ Payload <= PieceLen
  /\ Buffers \subseteq Nat \ {0}

VARIABLES
  attached,      \* storages in the manager
  file,          \* Stores -> length of the file under the piece's name, 0 for none
  saver,         \* Savers -> [pc, st]
  useTransient,  \* the DAG store keeps copies and needs only a stream
  reader,        \* "dag" and "http" -> [pc, st, len, pos, bad, part, short]
  shard,         \* the DAG store's state of the piece's shard
  recovers,      \* recoveries tried on it
  loader,        \* Loaders -> where LoadShard stands
  migrate,       \* where MigrateDeals stands
  results, owed, \* results sent on its channel, and results it counts on
  marker,        \* .shard-registration-complete exists
  handedOff,     \* the deal is in a state the sealing subsystem knows
  pieceFaults, loads

pieceVars == <<attached, file, saver, useTransient, reader, shard, recovers, loader, migrate,
               results, owed, marker, handedOff, pieceFaults, loads>>

NoReader == [pc |-> "idle", st |-> CHOOSE st \in Stores : TRUE, len |-> 0, pos |-> 0,
             bad |-> FALSE, part |-> FALSE, short |-> FALSE]
NoSaver == [pc |-> "idle", st |-> CHOOSE st \in Stores : TRUE]

Consumers == {"dag", "http"}
LoaderPhases == {"idle", "register", "wait", "loaded", "failed"}

PieceTypeOK ==
  /\ attached \subseteq Stores
  /\ file \in [Stores -> 0..Payload]
  /\ saver \in [Savers -> [pc : {"idle", "save", "copy", "shard", "waiting", "done"}, st : Stores]]
  /\ reader \in [Consumers -> [pc : {"idle", "sized", "reading", "served", "failed"}, st : Stores, len : 0..Payload,
                            pos : 0..PieceLen, bad : BOOLEAN, part : BOOLEAN, short : BOOLEAN]]
  /\ shard \in {"unknown", "new", "initializing", "available", "errored"}
  /\ loader \in [Loaders -> LoaderPhases]
  /\ migrate \in {"idle", "register", "count", "done"}
  /\ results \in 0..1 /\ owed \in 0..1 /\ recovers \in 0..1
  /\ marker \in BOOLEAN /\ handedOff \in BOOLEAN /\ useTransient \in BOOLEAN

PieceInit ==
  /\ attached = Stores
  /\ file = [st \in Stores |-> 0]
  /\ saver = [s \in Savers |-> NoSaver]
  /\ useTransient \in BOOLEAN
  /\ reader = [r \in Consumers |-> NoReader]
  /\ shard = "unknown" /\ recovers = 0
  /\ loader = [l \in Loaders |-> "idle"]
  /\ migrate = "idle" /\ results = 0 /\ owed = 0 /\ marker = FALSE
  /\ handedOff \in BOOLEAN
  /\ pieceFaults = 0 /\ loads = 0

PieceFault(f) ==
  f \in PieceFaults /\ pieceFaults < MaxPieceFaults /\ pieceFaults' = pieceFaults + 1

-----------------------------------------------------------------------------
\* The manager.  Has finds a file of any length; one of the storages found,
\* or of those that may be written, is taken at random.

FindStorageForRead == {st \in attached : file[st] > 0}
FindStorageForWrite == attached \ ReadOnlyStores

RemovePieceStorage(st) ==
  /\ st \in attached /\ PieceFault("remove")
  /\ attached' = attached \ {st}
  /\ UNCHANGED <<file, saver, useTransient, reader, shard, recovers, loader, migrate, results, owed,
                 marker, handedOff, loads>>

AddPieceStorage(st) ==
  /\ st \notin attached
  /\ attached' = attached \cup {st}
  /\ UNCHANGED <<file, saver, useTransient, reader, shard, recovers, loader, migrate, results, owed,
                 marker, handedOff, pieceFaults, loads>>

-----------------------------------------------------------------------------
\* savePieceFile and the registration of the shard, when a deal is handed off.

SaveRest == <<attached, useTransient, reader, migrate, results, owed, marker, loads>>

SaveBegins(s) ==
  /\ saver[s].pc = "idle"
  /\ IF FindStorageForRead # {}
     THEN saver' = [saver EXCEPT ![s].pc = "shard"]
     ELSE \E st \in FindStorageForWrite : saver' = [saver EXCEPT ![s] = [pc |-> "save", st |-> st]]
  /\ UNCHANGED <<SaveRest, file, shard, recovers, loader, handedOff, pieceFaults>>

\* SaveTo: an S3 upload, or a temporary file that mv brings to its place.
SaveTo(s) ==
  LET st == saver[s].st
  IN /\ saver[s].pc = "save"
     /\ \/ /\ file' = [file EXCEPT ![st] = IF st \in FarStores THEN 0 ELSE Payload]
           /\ saver' = [saver EXCEPT ![s].pc = IF st \in FarStores THEN "copy" ELSE "shard"]
           /\ UNCHANGED pieceFaults
        \/ PieceFault("save") /\ UNCHANGED file /\ saver' = [saver EXCEPT ![s] = NoSaver]
     /\ UNCHANGED <<SaveRest, shard, recovers, loader, handedOff>>

\* mv across devices has removed the old file and writes the new one.
MoveCopies(s) ==
  LET st == saver[s].st
  IN /\ saver[s].pc = "copy"
     /\ \E n \in file[st] + 1..Payload :
          /\ file' = [file EXCEPT ![st] = n]
          /\ saver' = IF n = Payload THEN [saver EXCEPT ![s].pc = "shard"] ELSE saver
     /\ UNCHANGED <<SaveRest, shard, recovers, loader, handedOff, pieceFaults>>

\* RegisterShardSync with eager initialisation; an error is only logged.
HandoffRegisters(s) ==
  /\ saver[s].pc = "shard"
  /\ IF shard = "unknown"
     THEN shard' = "initializing" /\ saver' = [saver EXCEPT ![s].pc = "waiting"]
     ELSE UNCHANGED shard /\ saver' = [saver EXCEPT ![s].pc = "done"]
  /\ handedOff' = TRUE
  /\ UNCHANGED <<SaveRest, file, recovers, loader, pieceFaults>>

-----------------------------------------------------------------------------
\* Reading a piece.

ReaderRest == <<attached, file, useTransient, marker, handedOff, loads>>

\* FetchUnsealedPiece by the DAG store, which initialises the shard.
FetchUnsealedPiece ==
  /\ shard = "initializing" /\ reader["dag"].pc = "idle"
  /\ \/ \E st \in FindStorageForRead :
          /\ reader' = [reader EXCEPT !["dag"] =
               [NoReader EXCEPT !.pc = "reading", !.st = st, !.len = file[st], !.part = file[st] < Payload]]
          /\ UNCHANGED pieceFaults
     \/ FindStorageForRead = {} /\ reader' = [reader EXCEPT !["dag"].pc = "failed"] /\ UNCHANGED pieceFaults
     \/ PieceFault("open") /\ reader' = [reader EXCEPT !["dag"].pc = "failed"]
  /\ UNCHANGED <<ReaderRest, saver, shard, recovers, loader, migrate, results, owed>>

\* How much an inner read of n bytes returns: a file to its end, a stream from
\* S3 any part, and the seekable reader of S3 also nothing, when the last
\* bytes come together with the end of the object.
InnerReads(r, n) ==
  LET left == IF r.pos < r.len THEN r.len - r.pos ELSE 0
      want == IF n < left THEN n ELSE left
  IN IF r.pos >= Payload THEN {0}
     ELSE IF r.st \in FsStores \/ want = 0 THEN {want}
     ELSE IF useTransient THEN 1..want
     ELSE 0..want

MinOf(a, b) == IF a < b THEN a ELSE b

\* AlgnZeroMountReader.Read: what the inner read did not return is zero.  A
\* stream (NewInflator) returns what the inner read returned.
ReadAligned(r, n, got) ==
  LET end == MinOf(r.pos + n, PieceLen)
  IN [r EXCEPT !.pos = end,
               !.bad = @ \/ r.pos + got < MinOf(end, Payload),
               !.short = @ \/ got < MinOf(n, r.len - r.pos),
               !.pc = IF end = PieceLen THEN "served" ELSE "reading"]

ReadStream(r, n, got) ==
  LET end == IF r.pos < r.len THEN r.pos + got ELSE MinOf(r.pos + n, PieceLen)
  IN [r EXCEPT !.pos = end,
               !.bad = @ \/ (r.pos >= r.len /\ r.pos < Payload),
               !.pc = IF end = PieceLen THEN "served" ELSE "reading"]

\* Mutant: the zeros are copied to the front of the buffer.
MutantReadPiece(r, n, got) ==
  LET end == MinOf(r.pos + n, PieceLen)
  IN [r EXCEPT !.pos = end,
               !.bad = @ \/ (got < end - r.pos /\ r.pos < Payload),
               !.pc = IF end = PieceLen THEN "served" ELSE "reading"]

ReadPiece(r, n, got) ==
  IF useTransient THEN ReadStream(r, n, got) ELSE ReadAligned(r, n, got)

\* The DAG store reads the piece to its end.
DagReads ==
  /\ reader["dag"].pc = "reading"
  /\ \E n \in Buffers : \E got \in InnerReads(reader["dag"], n) :
       reader' = [reader EXCEPT !["dag"] = ReadPiece(@, n, got)]
  /\ UNCHANGED <<ReaderRest, saver, shard, recovers, loader, migrate, results, owed, pieceFaults>>

\* ServeHTTP: an S3 object is a redirect; a file is announced with its length
\* and then copied as it is.
ServeHTTP ==
  /\ reader["http"].pc \in {"idle", "served", "failed"} /\ loads < MaxLoads
  /\ loads' = loads + 1
  /\ \/ FindStorageForRead = {} /\ reader' = [reader EXCEPT !["http"] = [NoReader EXCEPT !.pc = "failed"]]
     \/ \E st \in FindStorageForRead :
          reader' = [reader EXCEPT !["http"] =
            IF st \in FsStores
            THEN [NoReader EXCEPT !.pc = "sized", !.st = st, !.len = file[st], !.part = file[st] < Payload]
            ELSE [NoReader EXCEPT !.pc = "served"]]
  /\ UNCHANGED <<attached, file, saver, useTransient, shard, recovers, loader, migrate, results, owed,
                 marker, handedOff, pieceFaults>>

HTTPCopies ==
  LET r == reader["http"]
  IN /\ r.pc = "sized"
     /\ reader' = [reader EXCEPT !["http"] =
          IF file[r.st] = 0 THEN [NoReader EXCEPT !.pc = "failed"]
          ELSE [NoReader EXCEPT !.pc = "served", !.bad = MinOf(r.len, file[r.st]) < Payload,
                                !.part = r.part \/ file[r.st] < Payload]]
     /\ UNCHANGED <<ReaderRest, saver, shard, recovers, loader, migrate, results, owed, pieceFaults>>

-----------------------------------------------------------------------------
\* The DAG store (external) answers whoever waits for the shard.

Answered(ok) ==
  /\ loader' = [l \in Loaders |->
       IF loader[l] # "wait" THEN loader[l] ELSE IF ok THEN "loaded" ELSE "failed"]
  /\ saver' = [s \in Savers |-> IF saver[s].pc = "waiting" THEN [saver[s] EXCEPT !.pc = "done"] ELSE saver[s]]

\* Initialisation ends; a CAR that was read with zeros in it may pass or not.
ShardInitialized ==
  /\ shard = "initializing" /\ reader["dag"].pc \in {"served", "failed"}
  /\ \E ok \in BOOLEAN :
       /\ reader["dag"].pc = "failed" => ~ok
       /\ ~ok => reader["dag"].pc = "failed" \/ reader["dag"].bad
       /\ shard' = IF ok THEN "available" ELSE "errored"
       /\ Answered(ok)
  /\ reader' = [reader EXCEPT !["dag"] = NoReader]
  /\ UNCHANGED <<ReaderRest, recovers, migrate, results, owed, pieceFaults>>

\* RecoverImmediately tries maxRecoverAttempts times.
RecoverImmediately ==
  /\ shard = "errored" /\ recovers < 1
  /\ shard' = "initializing" /\ recovers' = recovers + 1
  /\ UNCHANGED <<ReaderRest, saver, reader, loader, migrate, results, owed, pieceFaults>>

\* AcquireShard (external): unknown and errored shards are refused.
AcquireShard(l) ==
  CASE shard = "unknown" -> loader' = [loader EXCEPT ![l] = "register"] /\ UNCHANGED shard
    [] shard = "errored" -> loader' = [loader EXCEPT ![l] = "failed"] /\ UNCHANGED shard
    [] shard = "available" -> loader' = [loader EXCEPT ![l] = "loaded"] /\ UNCHANGED shard
    [] shard \in {"new", "initializing"} ->
         loader' = [loader EXCEPT ![l] = "wait"] /\ shard' = "initializing"

LoadShard(l) ==
  /\ loader[l] \in {"idle", "loaded", "failed"} /\ loads < MaxLoads
  /\ loads' = loads + 1
  /\ AcquireShard(l)
  /\ UNCHANGED <<attached, file, saver, useTransient, reader, recovers, migrate, results, owed, marker,
                 handedOff, pieceFaults>>

\* The shard is not known: register it lazily, wait, acquire it again.  A
\* second load doing the same is told that the shard exists, and fails.
LoadReRegisters(l) ==
  /\ loader[l] = "register"
  /\ IF shard = "unknown"
     THEN shard' = "initializing" /\ loader' = [loader EXCEPT ![l] = "wait"]
     ELSE UNCHANGED shard /\ loader' = [loader EXCEPT ![l] = "failed"]
  /\ UNCHANGED <<ReaderRest, saver, reader, recovers, migrate, results, owed, pieceFaults>>

\* The caller's context ends while LoadShard waits.
LoadCancelled(l) ==
  /\ loader[l] = "wait"
  /\ loader' = [loader EXCEPT ![l] = "failed"]
  /\ UNCHANGED <<ReaderRest, saver, reader, shard, recovers, migrate, results, owed, pieceFaults>>

-----------------------------------------------------------------------------
\* MigrateDeals: register the piece of each deal handed off, count what was
\* registered, take that many results, and leave the marker.

MigrateRest == <<attached, file, saver, useTransient, reader, recovers, loader, handedOff, loads>>

MigrateBegins ==
  /\ migrate = "idle"
  /\ migrate' = IF marker THEN "done" ELSE IF handedOff THEN "register" ELSE "count"
  /\ UNCHANGED <<MigrateRest, shard, results, owed, marker, pieceFaults>>

\* Mutant: a registration that failed is counted too.
MutantRegistered(ok) == 1

Registered(ok) == IF ok THEN 1 ELSE 0

MigrateRegisters ==
  /\ migrate = "register" /\ migrate' = "count"
  /\ \E ok \in BOOLEAN :
       /\ \/ ok = (shard = "unknown") /\ UNCHANGED pieceFaults
          \/ ~ok /\ shard = "unknown" /\ PieceFault("register")
       /\ shard' = IF ok THEN "new" ELSE shard
       /\ results' = IF ok THEN 1 ELSE 0
       /\ owed' = Registered(ok)
  /\ UNCHANGED <<MigrateRest, marker>>

MigrateEnds ==
  /\ migrate = "count" /\ results >= owed
  /\ migrate' = "done" /\ marker' = TRUE
  /\ UNCHANGED <<MigrateRest, shard, results, owed, pieceFaults>>

-----------------------------------------------------------------------------
\* A crash: the marker, the files and the shards' states stay; a copy that
\* mv had begun stays as long as it was.
PieceCrash ==
  /\ PieceFault("crash")
  /\ saver' = [s \in Savers |-> IF saver[s].pc \in {"done", "waiting"} THEN saver[s] ELSE NoSaver]
  /\ reader' = [r \in Consumers |-> NoReader]
  /\ shard' = CASE shard = "initializing" -> "new" [] shard = "errored" -> "initializing" [] OTHER -> shard
  /\ loader' = [l \in Loaders |-> "idle"]
  /\ migrate' = "idle" /\ results' = 0 /\ owed' = 0 /\ recovers' = 0
  /\ UNCHANGED <<attached, file, useTransient, marker, handedOff, loads>>

PieceProgress ==
  \/ \E s \in Savers : SaveTo(s) \/ MoveCopies(s) \/ HandoffRegisters(s)
  \/ FetchUnsealedPiece \/ DagReads \/ HTTPCopies \/ ShardInitialized \/ RecoverImmediately
  \/ \E l \in Loaders : LoadReRegisters(l)
  \/ MigrateBegins \/ MigrateRegisters \/ MigrateEnds

PieceNext ==
  \/ PieceProgress
  \/ \E s \in Savers : SaveBegins(s)
  \/ \E l \in Loaders : LoadShard(l) \/ LoadCancelled(l)
  \/ \E st \in Stores : RemovePieceStorage(st) \/ AddPieceStorage(st)
  \/ ServeHTTP \/ PieceCrash

PieceSpec == PieceInit /\ [][PieceNext]_pieceVars

-----------------------------------------------------------------------------
\* Whoever reads the piece to its end, the DAG store through the padding
\* reader or a client of the piece server, gets the payload and then zeros;
\* only a file that mv was still copying, or a short read from S3, breaks it.
PieceServed ==
  \A r \in Consumers :
    reader[r].pc = "served" /\ reader[r].bad => reader[r].part \/ reader[r].short

\* Every LoadShard answers and MigrateDeals ends, so that the provider goes
\* on with its start, whatever registrations fail or are made twice: no call
\* is left waiting once the callers stop.
DagCallsEnd ==
  []<>(migrate \in {"idle", "done"} /\ \A l \in Loaders : loader[l] \notin {"register", "wait"})
=============================================================================
