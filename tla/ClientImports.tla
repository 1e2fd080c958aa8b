--------------------------- MODULE ClientImports ---------------------------
(***************************************************************************)
(* The imports of a market client: the import manager (imports/manager.go) *)
(* with its records and CAR files, the calls that import, remove and read  *)
(* data (client/client.go), and the accessor that opens the CAR of an      *)
(* import for a deal (storageprovider/client_blockstore.go).  Calls        *)
(* interleave at every access to the datastore or to a file; a crash loses *)
(* them and keeps records and files.                                       *)
(***************************************************************************)
EXTENDS Integers, FiniteSets, Sequences, SequencesExt

CONSTANTS
  Missing,      \* no record, no file, no label
  Roots,        \* root cids: the content of the files to import
  Importers,    \* concurrent import calls
  DealMakers,   \* concurrent calls that read imported data
  ImportKinds,  \* "car": ClientImport of a CAR of the user, "file": of another
                \* file, "local": ClientImportLocal, "gencar": ClientGenCar
  MaxImports, MaxReads, MaxImportFaults

ASSUME ClientImportsAssumption ==
  /\ ImportKinds \subseteq {"car", "file", "local", "gencar"}
  /\ MaxImports \in Nat /\ MaxReads \in Nat /\ MaxImportFaults \in Nat
  /\ Missing \notin Roots

VARIABLES
  meta,     \* the records of the imports: ids -> Missing or [root, path, owner]
  cars,     \* the CAR files of the manager, by id: Missing or [root, complete]
  imp,      \* Importers -> [pc, kind, id, root, copy, label]
  removing, \* ids whose CAR ClientRemoveImport has deleted
  stores,   \* the blockstores opened so far: [root, complete, closed]
  opened,   \* the accessor's map: Roots -> Missing or [st, refs]
  reader,   \* DealMakers -> [pc, root, st]
  proposed, \* roots for which a deal was proposed
  imports, reads, importFaults

importVars == <<meta, cars, imp, removing, stores, opened, reader, proposed, imports, reads, importFaults>>

ImportIds == 1..MaxImports
UserCar == [root : Roots, complete : BOOLEAN]

\* A path: the manager's CAR of an import (own), or the user's CAR itself.
NoPath == [own |-> 0, car |-> Missing]
NoMeta == [root |-> Missing, path |-> NoPath, owner |-> "user"]
NoImport == [pc |-> "idle", kind |-> "file", id |-> 0, root |-> Missing, car |-> Missing,
             copy |-> Missing, label |-> "path"]
NoReader == [pc |-> "idle", call |-> "size", root |-> Missing, st |-> 0]

ImportsTypeOK ==
  /\ DOMAIN meta = ImportIds /\ DOMAIN cars = ImportIds
  /\ \A i \in Importers : imp[i].pc \in {"idle", "allocate", "build", "read", "put", "failed", "done"}
  /\ \A r \in Roots : opened[r] # Missing => opened[r].st \in 1..Len(stores)
  /\ \A u \in DealMakers : reader[u].pc \in {"idle", "got", "propose"} /\ reader[u].st \in 0..Len(stores)
  /\ imports \in 0..MaxImports /\ reads \in 0..MaxReads /\ importFaults \in 0..MaxImportFaults

ImportsInit ==
  /\ meta = [i \in ImportIds |-> Missing] /\ cars = [i \in ImportIds |-> Missing]
  /\ imp = [i \in Importers |-> NoImport]
  /\ removing = {} /\ stores = <<>> /\ opened = [r \in Roots |-> Missing]
  /\ reader = [u \in DealMakers |-> NoReader]
  /\ proposed = {} /\ imports = 0 /\ reads = 0 /\ importFaults = 0

ImportFault == importFaults < MaxImportFaults /\ importFaults' = importFaults + 1

-----------------------------------------------------------------------------
\* Importing.

\* CreateImport.  A CAR of the user is opened and its header read; that its
\* blocks are there is not checked.
CreateImport(i) ==
  /\ imp[i].pc = "idle" /\ imports < MaxImports
  /\ imports' = imports + 1
  /\ meta' = [meta EXCEPT ![imports + 1] = NoMeta]
  /\ \E kind \in ImportKinds, car \in UserCar :
       /\ kind # "car" => car.complete
       /\ imp' = [imp EXCEPT ![i] =
            [NoImport EXCEPT !.pc = IF kind = "car" THEN "read" ELSE "allocate",
                             !.kind = kind, !.id = imports + 1, !.root = car.root, !.car = car]]
  /\ UNCHANGED <<cars, removing, stores, opened, reader, proposed, reads, importFaults>>

\* The header of the user's CAR is not readable: the record stays.
CarRejected(i) ==
  /\ imp[i].pc = "read" /\ imp[i].kind = "car" /\ imp[i].label = "path"
  /\ ImportFault
  /\ imp' = [imp EXCEPT ![i] = NoImport]
  /\ UNCHANGED <<meta, cars, removing, stores, opened, reader, proposed, imports, reads>>

\* AllocateCAR: an empty file, then its path and owner in the record.
AllocateCAR(i) ==
  /\ imp[i].pc = "allocate"
  /\ LET id == imp[i].id IN
     \/ /\ meta[id] # Missing
        /\ cars' = [cars EXCEPT ![id] = [root |-> Missing, complete |-> FALSE]]
        /\ \/ /\ meta' = [meta EXCEPT ![id].path.own = id, ![id].owner = "importmgr"]
              /\ imp' = [imp EXCEPT ![i].pc = "build"] /\ UNCHANGED importFaults
           \/ ImportFault /\ imp' = [imp EXCEPT ![i].pc = "done"] /\ UNCHANGED meta
     \/ /\ meta[id] = Missing
        /\ imp' = [imp EXCEPT ![i].pc = "done"] /\ UNCHANGED <<meta, cars, importFaults>>
  /\ UNCHANGED <<removing, stores, opened, reader, proposed, imports, reads>>

\* createUnixFSFilestore, or buildUnixFS and Finalize: the CAR is written.  A
\* file removed before it is opened is made anew, one removed after that stays
\* gone.  ClientGenCar is through when the dense CAR is written from it.
Build(i) ==
  /\ imp[i].pc = "build"
  /\ LET id == imp[i].id
         Written(ok) == cars' \in {[cars EXCEPT ![id] = [root |-> imp[i].root, complete |-> ok]]}
                                 \cup (IF cars[id] = Missing THEN {cars} ELSE {})
     IN \/ /\ Written(TRUE)
           /\ imp' = [imp EXCEPT ![i].pc = IF imp[i].kind = "gencar" THEN "failed" ELSE "read",
                                 ![i].label = IF imp[i].kind = "local" THEN "root" ELSE "path"]
           /\ UNCHANGED importFaults
        \/ ImportFault /\ Written(FALSE) /\ imp' = [imp EXCEPT ![i].pc = "failed"]
  /\ UNCHANGED <<meta, removing, stores, opened, reader, proposed, imports, reads>>

\* AddLabel reads the whole record and puts it back with the label: the path
\* first, the root last (ClientImport), or the root alone (ClientImportLocal).
AddLabelReads(i) ==
  /\ imp[i].pc = "read"
  /\ IF meta[imp[i].id] = Missing
     THEN imp' = [imp EXCEPT ![i].pc = "failed"]
     ELSE imp' = [imp EXCEPT ![i].pc = "put", ![i].copy = meta[imp[i].id]]
  /\ UNCHANGED <<meta, cars, removing, stores, opened, reader, proposed, imports, reads, importFaults>>

Labelled(m, x) ==
  IF x.label = "root" THEN [m EXCEPT !.root = x.root]
  ELSE [m EXCEPT !.path = IF x.kind = "car" THEN [own |-> 0, car |-> x.car] ELSE [own |-> x.id, car |-> Missing]]

AddLabelPuts(i) ==
  /\ imp[i].pc = "put"
  /\ \/ /\ meta' = [meta EXCEPT ![imp[i].id] = Labelled(imp[i].copy, imp[i])]
        /\ imp' = IF imp[i].label = "root" THEN [imp EXCEPT ![i] = NoImport]
                  ELSE [imp EXCEPT ![i].pc = "read", ![i].label = "root"]
        /\ UNCHANGED importFaults
     \/ /\ ImportFault
        /\ imp' = [imp EXCEPT ![i].pc = "failed"] /\ UNCHANGED meta
  /\ UNCHANGED <<cars, removing, stores, opened, reader, proposed, imports, reads>>

\* The deferred functions: ClientImport of a file cleans up after an error,
\* ClientGenCar always; the CAR of the user and ClientImportLocal do not.  When
\* AllocateCAR fails ("done") the file is not removed, and only ClientGenCar
\* drops the record.
Cleanup(i) ==
  /\ imp[i].pc \in {"failed", "done"}
  /\ LET cleans == imp[i].kind \in {"file", "gencar"} /\ imp[i].pc = "failed"
         id == imp[i].id
     IN /\ cars' = IF cleans THEN [cars EXCEPT ![id] = Missing] ELSE cars
        /\ meta' = IF cleans \/ imp[i].kind = "gencar" THEN [meta EXCEPT ![id] = Missing] ELSE meta
  /\ imp' = [imp EXCEPT ![i] = NoImport]
  /\ UNCHANGED <<removing, stores, opened, reader, proposed, imports, reads, importFaults>>

\* ClientRemoveImport: the CAR, if it is the manager's, then the record.
RemoveCar(id) ==
  /\ meta[id] # Missing /\ id \notin removing
  /\ removing' = removing \cup {id}
  /\ cars' = IF meta[id].owner = "importmgr" /\ meta[id].path.own = id
             THEN [cars EXCEPT ![id] = Missing] ELSE cars
  /\ UNCHANGED <<meta, imp, stores, opened, reader, proposed, imports, reads, importFaults>>

RemoveRecord(id) ==
  /\ id \in removing
  /\ removing' = removing \ {id}
  /\ meta' = [meta EXCEPT ![id] = Missing]
  /\ UNCHANGED <<cars, imp, stores, opened, reader, proposed, imports, reads, importFaults>>

-----------------------------------------------------------------------------
\* Reading.

\* CARPathFor: the path of the first record with the root.
CARPathFor(r) ==
  LET ids == {id \in ImportIds : meta[id] # Missing /\ meta[id].root = r} IN
  IF ids = {} THEN NoPath ELSE meta[CHOOSE id \in ids : \A o \in ids : id <= o].path

\* The CAR at a path: Missing if there is no file.
CarAt(path) == IF path.own # 0 THEN cars[path.own] ELSE path.car

\* Mutant: the count is written back to the map, and the first user, who
\* does not count, loses the store to the second.
MutantEntry(e, refs) == [e EXCEPT !.refs = refs]

\* e is a copy of the map's entry: what Get and Done count is lost.
Entry(e, refs) == e

\* dealBlockstore and Get of the accessor.
GetStore(u) ==
  /\ reader[u].pc = "idle" /\ reads < MaxReads
  /\ reads' = reads + 1
  /\ \E r \in Roots, call \in {"size", "deal"} :
       \/ /\ opened[r] # Missing
          /\ opened' = [opened EXCEPT ![r] = Entry(@, @.refs + 1)]
          /\ reader' = [reader EXCEPT ![u] = [pc |-> "got", call |-> call, root |-> r, st |-> opened[r].st]]
          /\ UNCHANGED stores
       \/ /\ opened[r] = Missing
          /\ LET path == CARPathFor(r) IN
             IF CarAt(path) = Missing
             THEN UNCHANGED <<stores, opened, reader>>
             ELSE /\ stores' = Append(stores, [path |-> path, root |-> CarAt(path).root,
                                               complete |-> CarAt(path).complete, closed |-> FALSE])
                  /\ opened' = [opened EXCEPT ![r] = [st |-> Len(stores) + 1, refs |-> 0]]
                  /\ reader' = [reader EXCEPT ![u] =
                       [pc |-> "got", call |-> call, root |-> r, st |-> Len(stores) + 1]]
  /\ UNCHANGED <<meta, cars, imp, removing, proposed, imports, importFaults>>

\* Done of the accessor closes a store whose count reaches zero.
DoneStore(r) ==
  LET refs == opened[r].refs - 1 IN
  IF opened[r] = Missing THEN UNCHANGED <<opened, stores>>
  ELSE IF refs = 0
  THEN /\ stores' = [stores EXCEPT ![opened[r].st].closed = TRUE]
       /\ opened' = [opened EXCEPT ![r] = Missing]
  ELSE opened' = [opened EXCEPT ![r] = Entry(@, refs)] /\ UNCHANGED stores

\* ClientDealSize, ClientDealPieceCID: the DAG is read, then the store given
\* back.
ReadDag(u) ==
  /\ reader[u].pc = "got" /\ reader[u].call = "size"
  /\ DoneStore(reader[u].root)
  /\ reader' = [reader EXCEPT ![u] = NoReader]
  /\ UNCHANGED <<meta, cars, imp, removing, proposed, imports, reads, importFaults>>

\* dealStarter looks for the root block, which a CAR of the user may lack;
\* without it the store is not given back.
CheckRoot(u) ==
  /\ reader[u].pc = "got" /\ reader[u].call = "deal"
  /\ LET st == stores[reader[u].st] IN
     \/ /\ st.root = reader[u].root /\ ~st.closed
        /\ DoneStore(reader[u].root)
        /\ reader' = [reader EXCEPT ![u].pc = "propose", ![u].st = 0]
     \/ /\ ~st.complete \/ st.closed
        /\ reader' = [reader EXCEPT ![u] = NoReader] /\ UNCHANGED <<opened, stores>>
  /\ UNCHANGED <<meta, cars, imp, removing, proposed, imports, reads, importFaults>>

\* The deal is proposed, unless wallet, miner, sector size or epochs do not
\* allow it.
ProposeDeal(u) ==
  /\ reader[u].pc = "propose"
  /\ reader' = [reader EXCEPT ![u] = NoReader]
  /\ proposed' \in {proposed, proposed \cup {reader[u].root}}
  /\ UNCHANGED <<meta, cars, imp, removing, stores, opened, imports, reads, importFaults>>

\* The process stops: calls and opened stores are gone.  NewManager finds
\* broken imports and only reports them.
RestartClient ==
  /\ ImportFault
  /\ imp' = [i \in Importers |-> NoImport] /\ removing' = {}
  /\ stores' = <<>> /\ opened' = [r \in Roots |-> Missing]
  /\ reader' = [u \in DealMakers |-> NoReader]
  /\ UNCHANGED <<meta, cars, proposed, imports, reads>>

ImportsNext ==
  \/ \E i \in Importers : \/ CreateImport(i) \/ CarRejected(i) \/ AllocateCAR(i) \/ Build(i)
                          \/ AddLabelReads(i) \/ AddLabelPuts(i) \/ Cleanup(i)
  \/ \E id \in ImportIds : RemoveCar(id) \/ RemoveRecord(id)
  \/ \E u \in DealMakers : GetStore(u) \/ ReadDag(u) \/ CheckRoot(u) \/ ProposeDeal(u)
  \/ RestartClient

ImportsSpec == ImportsInit /\ [][ImportsNext]_importVars

-----------------------------------------------------------------------------
\* A call that reads the data of a root (dealBlockstore, ImportsBlockstoreAccessor)
\* has an open store of that root, with all of its blocks when the import
\* manager wrote the CAR.  Imports that fail halfway, are removed or made again while the
\* store is in use, calls that share it, and restarts do not change that.
ImportServed ==
  \A u \in DealMakers : reader[u].pc = "got" =>
    LET st == stores[reader[u].st] IN
    /\ ~st.closed /\ st.root = reader[u].root
    /\ st.path.own # 0 => st.complete
=============================================================================
