---------------------------- MODULE ClientProofs ----------------------------
(***************************************************************************)
(* ImportServed of ClientImports for every set of roots, importers and     *)
(* readers, and any number of imports and faults; StoresAgree of           *)
(* DealStores for every set of deals, pieces, payloads and addresses;      *)
(* MessageSent of Messaging for every list of addresses, set of callers    *)
(* and number of messages; SectorReported of SectorEvents for every        *)
(* height, confidence and number of messages.                              *)
(*                                                                         *)
(* A reader finds a CAR through a record that carries the root's label.    *)
(* The label is the last thing an import writes, an import is the only     *)
(* writer of its CAR, and imports never share an id: so when the label is  *)
(* there the CAR is whole, or removed.  Once a store is open it stays open *)
(* because the accessor's count never comes down to zero.                  *)
(*                                                                         *)
(* The two repositories answer alike because each row of MySQL is the      *)
(* conversion of badger's record, a conversion that keeps the fields       *)
(* queries select by and can be undone, nil pointers included.             *)
(*                                                                         *)
(* A message is sent from the best address because the loop of pickAddress *)
(* keeps the best of the addresses it has tried (AfterTries), and it is    *)
(* refused for a cause because the list of users is complete, unless       *)
(* something has made it stale (ListInv, SendInv).                         *)
(*                                                                         *)
(* A client is told of a sector what the chain says because a watcher      *)
(* looks at tipsets that are deep enough, or at a head that no             *)
(* reorganisation has undone since (SectorInv: ChainMade, WatchersOK,      *)
(* Reports, Untouched).                                                    *)
(***************************************************************************)
EXTENDS ClientImports, DealStores, Messaging, SectorEvents, SumLemmas, SequenceTheorems

Paths == [own : 0 .. MaxImports, car : UserCar \cup {Missing}]
Metas == [root : Roots \cup {Missing}, path : Paths, owner : {"user", "importmgr"}]
Cars == [root : Roots \cup {Missing}, complete : BOOLEAN]
Calls == [pc : {"idle", "allocate", "build", "read", "put", "failed", "done"},
          kind : {"car", "file", "local", "gencar"}, id : 0 .. MaxImports,
          root : Roots \cup {Missing}, car : UserCar \cup {Missing},
          copy : Metas \cup {Missing}, label : {"path", "root"}]
OpenStores == [path : Paths, root : Roots \cup {Missing}, complete : BOOLEAN, closed : BOOLEAN]
Entries == [st : Nat, refs : Int]
ReadCalls == [pc : {"idle", "got", "propose"}, call : {"size", "deal"},
              root : Roots \cup {Missing}, st : Nat]

WriterShape ==
  /\ meta \in [ImportIds -> Metas \cup {Missing}]
  /\ cars \in [ImportIds -> Cars \cup {Missing}]
  /\ imp \in [Importers -> Calls]
  /\ imports \in 0 .. MaxImports

ReaderShape ==
  /\ stores \in Seq(OpenStores)
  /\ opened \in [Roots -> Entries \cup {Missing}]
  /\ reader \in [DealMakers -> ReadCalls]

\* The CAR c, if it is there, holds all of root r.
Whole(c, r) == c # Missing => c.root = r /\ c.complete

\* A record under id with a root's label leads to a CAR with that root.
RecordOK(id, m, c) ==
  /\ m.path.own \in {0, id}
  /\ m.root # Missing =>
       /\ m.path.own = id => Whole(c, m.root)
       /\ m.path.own = 0 /\ m.path.car # Missing => m.path.car.root = m.root

\* A record that the import x has not labelled with the root yet.
Unlabelled(x, m) ==
  /\ m.root = Missing /\ m.path.own \in {0, x.id}
  /\ x.kind = "car" => m.path.own = 0
  /\ m.path.own = 0 /\ m.path.car # Missing => m.path.car.root = x.root

\* An import at work, with its record m and its CAR c.
Working(x, m, c) ==
  x.pc \in {"allocate", "build", "read", "put"} =>
    /\ x.root \in Roots
    /\ x.kind = "car" => x.car \in UserCar /\ x.car.root = x.root /\ x.pc \in {"read", "put"}
    /\ m # Missing => Unlabelled(x, m)
    /\ x.pc = "put" => x.copy \in Metas /\ Unlabelled(x, x.copy)
    /\ x.pc \in {"read", "put"} /\ x.kind # "car" => Whole(c, x.root)

RecordsLead == \A id \in ImportIds : meta[id] # Missing => RecordOK(id, meta[id], cars[id])

ImportsApart ==
  /\ \A i \in Importers : imp[i].pc # "idle" => imp[i].id \in 1 .. imports
  /\ \A i, j \in Importers : i # j /\ imp[i].pc # "idle" /\ imp[j].pc # "idle" => imp[i].id # imp[j].id

ImportsWork ==
  \A i \in Importers : imp[i].pc # "idle" => Working(imp[i], meta[imp[i].id], cars[imp[i].id])

\* The k-th store serves root r.
Serves(k, r) ==
  /\ k \in 1 .. Len(stores)
  /\ ~stores[k].closed /\ stores[k].root = r
  /\ stores[k].path.own # 0 => stores[k].complete

\* An entry of the accessor is never counted, so that it is never closed.
EntriesServe == \A r \in Roots : opened[r] # Missing => opened[r].refs = 0 /\ Serves(opened[r].st, r)

ReadersServed ==
  \A u \in DealMakers : reader[u].pc = "got" => reader[u].root \in Roots /\ Serves(reader[u].st, reader[u].root)

WriterInv == WriterShape /\ RecordsLead /\ ImportsApart /\ ImportsWork
ReaderInv == ReaderShape /\ EntriesServe /\ ReadersServed
ImportsInv == WriterInv /\ ReaderInv

-----------------------------------------------------------------------------
(* Writers.                                                                  *)

\* The initial values of calls and records have their types.
LEMMA StartingValues ==
  /\ NoPath \in Paths /\ NoMeta \in Metas /\ NoImport \in Calls /\ NoReader \in ReadCalls
  /\ NoImport.pc = "idle" /\ NoReader.pc = "idle"
<1>1. 0 \in 0 .. MaxImports
  BY ClientImportsAssumption
<1>2. NoPath \in Paths
  BY <1>1 DEF NoPath, Paths
<1>3. NoMeta \in Metas
  BY <1>2 DEF NoMeta, Metas
<1>4. NoImport \in Calls /\ NoImport.pc = "idle"
  BY <1>1 DEF NoImport, Calls
<1>5. NoReader \in ReadCalls /\ NoReader.pc = "idle"
  BY DEF NoReader, ReadCalls
<1>. QED
  BY <1>2, <1>3, <1>4, <1>5

\* Nothing changes for the importers, their records and CARs.
LEMMA WriterStill == ASSUME WriterInv, UNCHANGED <<meta, cars, imp, imports>> PROVE WriterInv'
  BY DEF WriterInv, WriterShape, RecordsLead, ImportsApart, ImportsWork

\* One importer moves on and writes only its own record and its own CAR: the
\* record must lead where it says, and the importer be ready for its next step.
LEMMA ImporterStep ==
  ASSUME WriterInv, NEW i \in Importers, imp[i].pc # "idle",
         NEW m \in Metas \cup {Missing}, NEW c \in Cars \cup {Missing}, NEW y \in Calls,
         meta' = [meta EXCEPT ![imp[i].id] = m], cars' = [cars EXCEPT ![imp[i].id] = c],
         imp' = [imp EXCEPT ![i] = y], y.pc = "idle" \/ y.id = imp[i].id,
         m # Missing => RecordOK(imp[i].id, m, c), Working(y, m, c), UNCHANGED imports
  PROVE  WriterInv'
<1>1. PICK id : id = imp[i].id
  OBVIOUS
<1>2. id \in ImportIds
  BY <1>1, ClientImportsAssumption DEF WriterInv, WriterShape, ImportsApart, ImportIds
<1>3. WriterShape'
  BY DEF WriterInv, WriterShape
<1>4. \A n \in ImportIds : /\ meta'[n] = IF n = id THEN m ELSE meta[n]
                           /\ cars'[n] = IF n = id THEN c ELSE cars[n]
  BY <1>1 DEF WriterInv, WriterShape
<1>5. \A j \in Importers : imp'[j] = IF j = i THEN y ELSE imp[j]
  BY DEF WriterInv, WriterShape
<1>6. RecordsLead'
  BY <1>1, <1>4 DEF WriterInv, RecordsLead
<1>7. ImportsApart'
  BY <1>5 DEF WriterInv, ImportsApart
<1>8. ImportsWork'
  <2> SUFFICES ASSUME NEW j \in Importers, imp'[j].pc # "idle"
               PROVE  Working(imp'[j], meta'[imp'[j].id], cars'[imp'[j].id])
    BY DEF ImportsWork
  <2>1. CASE j = i
    <3>1. imp'[j] = y /\ y.id = id
      BY <1>1, <1>5, <2>1
    <3>2. meta'[id] = m /\ cars'[id] = c
      BY <1>2, <1>4
    <3>. QED
      BY <3>1, <3>2
  <2>2. CASE j # i
    <3>1. imp'[j] = imp[j] /\ imp[j].id # id /\ imp[j].id \in 1 .. imports
      BY <1>1, <1>5, <2>2 DEF WriterInv, ImportsApart
    <3>2. imp[j].id \in ImportIds
      BY <3>1, ClientImportsAssumption DEF WriterInv, WriterShape, ImportIds
    <3>3. meta'[imp[j].id] = meta[imp[j].id] /\ cars'[imp[j].id] = cars[imp[j].id]
      BY <1>4, <3>1, <3>2
    <3>. QED
      BY <3>1, <3>3 DEF WriterInv, ImportsWork
  <2>. QED
    BY <2>1, <2>2
<1>. QED
  BY <1>3, <1>6, <1>7, <1>8 DEF WriterInv

\* A record or a CAR goes away, whoever works on it.
LEMMA RemovalStep ==
  ASSUME WriterInv, NEW id \in ImportIds, UNCHANGED <<imp, imports>>,
         \/ cars' = [cars EXCEPT ![id] = Missing] /\ UNCHANGED meta
         \/ meta' = [meta EXCEPT ![id] = Missing] /\ UNCHANGED cars
  PROVE  WriterInv'
<1>1. WriterShape'
  BY DEF WriterInv, WriterShape
<1>2. \A n \in ImportIds : /\ meta'[n] = meta[n] \/ meta'[n] = Missing
                           /\ cars'[n] = cars[n] \/ cars'[n] = Missing
  BY DEF WriterInv, WriterShape
<1>3. RecordsLead'
  BY <1>2 DEF WriterInv, RecordsLead, RecordOK, Whole
<1>4. ImportsApart'
  BY DEF WriterInv, ImportsApart
<1>5. ImportsWork'
  <2> SUFFICES ASSUME NEW j \in Importers, imp[j].pc # "idle"
               PROVE  Working(imp[j], meta'[imp[j].id], cars'[imp[j].id])
    BY DEF ImportsWork
  <2>1. imp[j].id \in ImportIds
    BY ClientImportsAssumption DEF WriterInv, WriterShape, ImportsApart, ImportIds
  <2>2. Working(imp[j], meta[imp[j].id], cars[imp[j].id])
    BY DEF WriterInv, ImportsWork
  <2>. QED
    BY <1>2, <2>1, <2>2 DEF Working, Whole
<1>. QED
  BY <1>1, <1>3, <1>4, <1>5 DEF WriterInv

\* What is known of an importer at work.
LEMMA ImporterFacts ==
  ASSUME WriterInv, NEW i \in Importers, imp[i].pc # "idle"
  PROVE  /\ imp[i] \in Calls /\ imp[i].id \in ImportIds
         /\ meta[imp[i].id] \in Metas \cup {Missing} /\ cars[imp[i].id] \in Cars \cup {Missing}
         /\ meta[imp[i].id] # Missing => RecordOK(imp[i].id, meta[imp[i].id], cars[imp[i].id])
         /\ Working(imp[i], meta[imp[i].id], cars[imp[i].id])
         /\ [meta EXCEPT ![imp[i].id] = meta[imp[i].id]] = meta
         /\ [cars EXCEPT ![imp[i].id] = cars[imp[i].id]] = cars
<1>1. imp[i] \in Calls /\ imp[i].id \in ImportIds
  BY ClientImportsAssumption DEF WriterInv, WriterShape, ImportsApart, ImportIds
<1>2. meta[imp[i].id] \in Metas \cup {Missing} /\ cars[imp[i].id] \in Cars \cup {Missing}
  BY <1>1 DEF WriterInv, WriterShape
<1>3. meta[imp[i].id] # Missing => RecordOK(imp[i].id, meta[imp[i].id], cars[imp[i].id])
  BY <1>1 DEF WriterInv, RecordsLead
<1>4. Working(imp[i], meta[imp[i].id], cars[imp[i].id])
  BY DEF WriterInv, ImportsWork
<1>5. [meta EXCEPT ![imp[i].id] = meta[imp[i].id]] = meta /\ [cars EXCEPT ![imp[i].id] = cars[imp[i].id]] = cars
  BY <1>1 DEF WriterInv, WriterShape
<1>. QED
  BY <1>1, <1>2, <1>3, <1>4, <1>5

\* An import begins under an id that nobody has had.
LEMMA CreateImportInv == ASSUME WriterInv, NEW i \in Importers, CreateImport(i) PROVE WriterInv'
<1>1. PICK n : n = imports + 1
  OBVIOUS
<1>2. n \in ImportIds /\ n \in 0 .. MaxImports /\ n \in 1 .. n /\ n \notin 1 .. imports /\ imports' = n /\ n \in Nat
  BY <1>1, ClientImportsAssumption DEF CreateImport, WriterInv, WriterShape, ImportIds
<1>3. PICK kind \in ImportKinds, car \in UserCar :
        imp' = [imp EXCEPT ![i] =
            [NoImport EXCEPT !.pc = IF kind = "car" THEN "read" ELSE "allocate",
                             !.kind = kind, !.id = n, !.root = car.root, !.car = car]]
  BY <1>1 DEF CreateImport
<1>4. PICK p, r : p = (IF kind = "car" THEN "read" ELSE "allocate") /\ r = car.root
  OBVIOUS
<1>5. PICK y : y = [NoImport EXCEPT !.pc = p, !.kind = kind, !.id = n, !.root = r, !.car = car]
  OBVIOUS
<1>6. /\ kind \in {"car", "file", "local", "gencar"} /\ r \in Roots /\ car.root = r
      /\ p \in {"read", "allocate"} /\ (kind = "car" => p = "read")
  BY <1>4, ClientImportsAssumption DEF UserCar
<1>7. y \in Calls /\ y.id = n /\ y.pc = p /\ y.kind = kind /\ y.root = r /\ y.car = car
  BY <1>2, <1>5, <1>6, StartingValues DEF Calls
<1>a. imp' = [imp EXCEPT ![i] = y]
  BY <1>3, <1>4, <1>5
<1>8. meta' = [meta EXCEPT ![n] = NoMeta] /\ UNCHANGED cars /\ imp[i].pc = "idle"
  BY <1>1 DEF CreateImport
<1>9. WriterShape'
  BY <1>2, <1>7, <1>8, <1>a, StartingValues DEF WriterInv, WriterShape
<1>10. \A k \in ImportIds : meta'[k] = IF k = n THEN NoMeta ELSE meta[k]
  BY <1>2, <1>8 DEF WriterInv, WriterShape
<1>11. \A j \in Importers : imp'[j] = IF j = i THEN y ELSE imp[j]
  BY <1>a DEF WriterInv, WriterShape
<1>12. NoMeta.root = Missing /\ NoMeta.path.own = 0 /\ NoMeta.path.car = Missing
  BY DEF NoMeta, NoPath
<1>13. RecordsLead'
  BY <1>8, <1>10, <1>12 DEF WriterInv, RecordsLead, RecordOK
<1>14. \A j \in Importers : j # i /\ imp[j].pc # "idle" => imp[j].id \in 1 .. imports /\ imp[j].id # n /\ imp[j].id \in 1 .. n
  BY <1>1, <1>2 DEF WriterInv, WriterShape, ImportsApart
<1>15. ImportsApart'
  BY <1>2, <1>7, <1>11, <1>14 DEF WriterInv, ImportsApart
<1>16. ImportsWork'
  <2> SUFFICES ASSUME NEW j \in Importers, imp'[j].pc # "idle"
               PROVE  Working(imp'[j], meta'[imp'[j].id], cars'[imp'[j].id])
    BY DEF ImportsWork
  <2>1. CASE j = i
    <3>1. imp'[j] = y /\ meta'[n] = NoMeta
      BY <1>2, <1>10, <1>11, <2>1
    <3>2. Unlabelled(y, NoMeta)
      BY <1>12 DEF Unlabelled
    <3>3. Working(y, NoMeta, cars'[n])
      <4>1. y.kind = "car" => y.car \in UserCar /\ y.car.root = y.root /\ y.pc \in {"read", "put"}
        BY <1>3, <1>6, <1>7
      <4>2. y.root \in Roots /\ y.pc # "put" /\ (y.pc = "read" => y.kind = "car")
        BY <1>4, <1>6, <1>7
      <4>. QED
        BY <3>2, <4>1, <4>2 DEF Working
    <3>. QED
      BY <1>7, <3>1, <3>3
  <2>2. CASE j # i
    <3>1. imp'[j] = imp[j] /\ imp[j].id # n /\ imp[j].id \in ImportIds
      BY <1>11, <1>14, <2>2, ClientImportsAssumption DEF WriterInv, WriterShape, ImportIds
    <3>2. meta'[imp[j].id] = meta[imp[j].id]
      BY <1>10, <3>1
    <3>. QED
      BY <1>8, <3>1, <3>2 DEF WriterInv, ImportsWork
  <2>. QED
    BY <2>1, <2>2
<1>. QED
  BY <1>9, <1>13, <1>15, <1>16 DEF WriterInv

\* An import ends, without changing anything or with its cleanup.
LEMMA EndInv ==
  ASSUME WriterInv, NEW i \in Importers, imp[i].pc # "idle", UNCHANGED imports,
         imp' = [imp EXCEPT ![i] = NoImport],
         cars' = cars \/ cars' = [cars EXCEPT ![imp[i].id] = Missing],
         \/ meta' = meta /\ cars' = cars
         \/ meta' = [meta EXCEPT ![imp[i].id] = Missing]
  PROVE  WriterInv'
<1>1. PICK m \in Metas \cup {Missing}, c \in Cars \cup {Missing} :
        /\ meta' = [meta EXCEPT ![imp[i].id] = m] /\ cars' = [cars EXCEPT ![imp[i].id] = c]
        /\ m = Missing \/ (m = meta[imp[i].id] /\ c = cars[imp[i].id])
  <2>1. CASE meta' = meta /\ cars' = cars
    <3>1. PICK m, c : m = meta[imp[i].id] /\ c = cars[imp[i].id]
      OBVIOUS
    <3>2. m \in Metas \cup {Missing} /\ c \in Cars \cup {Missing}
      BY <3>1, ImporterFacts
    <3>3. meta' = [meta EXCEPT ![imp[i].id] = m] /\ cars' = [cars EXCEPT ![imp[i].id] = c]
      BY <2>1, <3>1, ImporterFacts
    <3>. QED
      BY <3>1, <3>2, <3>3
  <2>2. CASE meta' = [meta EXCEPT ![imp[i].id] = Missing] /\ cars' = cars
    BY <2>2, ImporterFacts
  <2>3. CASE meta' = [meta EXCEPT ![imp[i].id] = Missing] /\ cars' = [cars EXCEPT ![imp[i].id] = Missing]
    <3>1. PICK m, c : m = Missing /\ c = Missing
      OBVIOUS
    <3>2. m \in Metas \cup {Missing} /\ c \in Cars \cup {Missing}
      BY <3>1
    <3>3. meta' = [meta EXCEPT ![imp[i].id] = m] /\ cars' = [cars EXCEPT ![imp[i].id] = c]
      BY <2>3, <3>1
    <3>. QED
      BY <3>1, <3>2, <3>3
  <2>. QED
    BY <2>1, <2>2, <2>3
<1>2. Working(NoImport, m, c)
  BY StartingValues DEF Working
<1>3. m # Missing => RecordOK(imp[i].id, m, c)
  BY <1>1, ImporterFacts
<1>. QED
  BY <1>1, <1>2, <1>3, ImporterStep, StartingValues

\* The importer moves to a step where nothing is expected of it.
LEMMA GiveUpInv ==
  ASSUME WriterInv, NEW i \in Importers, imp[i].pc # "idle", UNCHANGED <<meta, cars, imports>>,
         NEW pc \in {"failed", "done"}, imp' = [imp EXCEPT ![i].pc = pc]
  PROVE  WriterInv'
<1>1. PICK y : y = [imp[i] EXCEPT !.pc = pc]
  OBVIOUS
<1>2. y \in Calls /\ y.id = imp[i].id /\ y.pc = pc
  BY <1>1, ImporterFacts DEF Calls
<1>3. imp' = [imp EXCEPT ![i] = y]
  BY <1>1
<1>4. Working(y, meta[imp[i].id], cars[imp[i].id])
  BY <1>2 DEF Working
<1>5. /\ meta[imp[i].id] \in Metas \cup {Missing} /\ cars[imp[i].id] \in Cars \cup {Missing}
      /\ meta[imp[i].id] # Missing => RecordOK(imp[i].id, meta[imp[i].id], cars[imp[i].id])
      /\ meta' = [meta EXCEPT ![imp[i].id] = meta[imp[i].id]]
      /\ cars' = [cars EXCEPT ![imp[i].id] = cars[imp[i].id]]
  BY ImporterFacts
<1>. QED
  BY <1>2, <1>3, <1>4, <1>5, ImporterStep

\* The file is made, and then, unless that fails, the record says where it is.
LEMMA AllocateCARInv == ASSUME WriterInv, NEW i \in Importers, AllocateCAR(i) PROVE WriterInv'
<1>1. PICK x, id, m0 : x = imp[i] /\ id = x.id /\ m0 = meta[id]
  OBVIOUS
<1>2. /\ x \in Calls /\ id \in ImportIds /\ m0 \in Metas \cup {Missing} /\ x.pc = "allocate"
      /\ Working(x, m0, cars[id]) /\ [meta EXCEPT ![id] = m0] = meta
  BY <1>1, ImporterFacts DEF AllocateCAR
<1>3. id \in 0 .. MaxImports /\ id # 0
  BY <1>2, ClientImportsAssumption DEF ImportIds
<1>4. UNCHANGED imports
  BY DEF AllocateCAR
<1>5. CASE m0 = Missing
  BY <1>1, <1>2, <1>4, <1>5, GiveUpInv DEF AllocateCAR
<1>6. CASE m0 # Missing
  <2>1. PICK c : c = [root |-> Missing, complete |-> FALSE]
    OBVIOUS
  <2>2. c \in Cars \cup {Missing} /\ cars' = [cars EXCEPT ![id] = c]
    BY <1>1, <1>6, <2>1 DEF AllocateCAR, Cars
  <2>3. m0 \in Metas /\ Unlabelled(x, m0) /\ x.kind # "car"
    BY <1>2, <1>6 DEF Working
  <2>4. CASE meta' = meta /\ imp' = [imp EXCEPT ![i].pc = "done"]
    <3>1. PICK y : y = [x EXCEPT !.pc = "done"]
      OBVIOUS
    <3>2. y \in Calls /\ y.id = id /\ y.pc = "done" /\ imp' = [imp EXCEPT ![i] = y]
      BY <1>1, <1>2, <2>4, <3>1 DEF Calls
    <3>3. Working(y, m0, c)
      BY <3>2 DEF Working
    <3>4. RecordOK(id, m0, c)
      BY <1>1, <2>3 DEF RecordOK, Unlabelled
    <3>. QED
      BY <1>1, <1>2, <1>4, <2>2, <2>4, <3>2, <3>3, <3>4, ImporterStep
  <2>5. CASE /\ meta' = [meta EXCEPT ![id].path.own = id, ![id].owner = "importmgr"]
             /\ imp' = [imp EXCEPT ![i].pc = "build"]
    <3>1. PICK pa : pa = [m0.path EXCEPT !.own = id]
      OBVIOUS
    <3>2. pa \in Paths /\ pa.own = id
      BY <1>3, <2>3, <3>1 DEF Metas, Paths
    <3>3. PICK m : m = [m0 EXCEPT !.path = pa, !.owner = "importmgr"]
      OBVIOUS
    <3>4. m \in Metas /\ m.path = pa /\ m.root = m0.root
      BY <2>3, <3>2, <3>3 DEF Metas
    <3>5. meta' = [meta EXCEPT ![id] = m]
      <4>1. PICK f : f = [meta EXCEPT ![id] = [m0 EXCEPT !.path = pa]]
        OBVIOUS
      <4>2. f[id] = [m0 EXCEPT !.path = pa]
        BY <1>2, <4>1 DEF WriterInv, WriterShape
      <4>3. meta' = [f EXCEPT ![id] = [f[id] EXCEPT !.owner = "importmgr"]]
        BY <1>1, <2>5, <3>1, <4>1
      <4>4. [[m0 EXCEPT !.path = pa] EXCEPT !.owner = "importmgr"] = m
        BY <2>3, <3>3 DEF Metas
      <4>5. meta' = [f EXCEPT ![id] = m]
        BY <4>2, <4>3, <4>4
      <4>. QED
        BY <1>2, <4>1, <4>5 DEF WriterInv, WriterShape
    <3>6. PICK y : y = [x EXCEPT !.pc = "build"]
      OBVIOUS
    <3>7. y \in Calls /\ y.id = id /\ y.pc = "build" /\ y.kind = x.kind /\ y.root = x.root /\ imp' = [imp EXCEPT ![i] = y]
      BY <1>1, <1>2, <2>5, <3>6 DEF Calls
    <3>8. Unlabelled(y, m)
      BY <1>3, <2>3, <3>2, <3>4, <3>7 DEF Unlabelled
    <3>9. Working(y, m, c)
      BY <1>2, <2>3, <3>7, <3>8 DEF Working
    <3>10. RecordOK(id, m, c)
      BY <2>3, <3>2, <3>4 DEF RecordOK, Unlabelled
    <3>. QED
      BY <1>1, <1>2, <1>4, <2>2, <3>4, <3>5, <3>7, <3>9, <3>10, ImporterStep
  <2>. QED
    BY <1>1, <1>6, <2>4, <2>5 DEF AllocateCAR
<1>. QED
  BY <1>5, <1>6

\* The CAR is written whole, or broken off, or the file had been removed.
LEMMA BuildInv == ASSUME WriterInv, NEW i \in Importers, Build(i) PROVE WriterInv'
<1>1. PICK x, id, m0 : x = imp[i] /\ id = x.id /\ m0 = meta[id]
  OBVIOUS
<1>2. /\ x \in Calls /\ id \in ImportIds /\ m0 \in Metas \cup {Missing} /\ x.pc = "build"
      /\ Working(x, m0, cars[id]) /\ [meta EXCEPT ![id] = m0] = meta
      /\ [cars EXCEPT ![id] = cars[id]] = cars
  BY <1>1, ImporterFacts DEF Build
<1>3. x.kind # "car" /\ x.root \in Roots /\ (m0 # Missing => Unlabelled(x, m0))
  BY <1>2 DEF Working
<1>4. UNCHANGED <<imports, meta>>
  BY DEF Build
<1>5. PICK ok \in BOOLEAN, p \in {"failed", "read"}, l \in {"path", "root"} :
        /\ \/ cars' = [cars EXCEPT ![id] = [root |-> x.root, complete |-> ok]]
           \/ cars' = cars /\ cars[id] = Missing
        /\ p = "read" => ok
        /\ imp' = [imp EXCEPT ![i].pc = p, ![i].label = l] \/ (p = "failed" /\ imp' = [imp EXCEPT ![i].pc = p])
  <2>1. PICK p, l : /\ p = (IF x.kind = "gencar" THEN "failed" ELSE "read")
                    /\ l = (IF x.kind = "local" THEN "root" ELSE "path")
    OBVIOUS
  <2>2. p \in {"failed", "read"} /\ l \in {"path", "root"}
    BY <2>1
  <2>3. CASE /\ cars' = [cars EXCEPT ![id] = [root |-> x.root, complete |-> TRUE]] \/ (cars' = cars /\ cars[id] = Missing)
             /\ imp' = [imp EXCEPT ![i].pc = p, ![i].label = l]
    BY <2>2, <2>3
  <2>4. CASE /\ cars' = [cars EXCEPT ![id] = [root |-> x.root, complete |-> FALSE]] \/ (cars' = cars /\ cars[id] = Missing)
             /\ imp' = [imp EXCEPT ![i].pc = "failed"]
    BY <2>4
  <2>. QED
    BY <1>1, <2>1, <2>3, <2>4 DEF Build
<1>6. PICK c \in Cars \cup {Missing} :
        cars' = [cars EXCEPT ![id] = c] /\ (p = "read" => Whole(c, x.root))
  <2>1. CASE cars' = cars /\ cars[id] = Missing
    <3>1. PICK c : c = cars[id]
      OBVIOUS
    <3>2. c \in Cars \cup {Missing} /\ cars' = [cars EXCEPT ![id] = c] /\ Whole(c, x.root)
      BY <1>2, <2>1, <3>1 DEF Whole
    <3>. QED
      BY <3>2
  <2>2. CASE cars' = [cars EXCEPT ![id] = [root |-> x.root, complete |-> ok]]
    <3>1. PICK c : c = [root |-> x.root, complete |-> ok]
      OBVIOUS
    <3>2. c \in Cars /\ c.root = x.root /\ c.complete = ok
      BY <1>3, <3>1 DEF Cars
    <3>3. p = "read" => Whole(c, x.root)
      BY <1>5, <3>2 DEF Whole
    <3>. QED
      BY <2>2, <3>1, <3>2, <3>3
  <2>. QED
    BY <1>5, <2>1, <2>2
<1>7. PICK y \in Calls : /\ imp' = [imp EXCEPT ![i] = y] /\ y.id = id /\ y.pc = p
                         /\ y.kind = x.kind /\ y.root = x.root
  <2>1. CASE imp' = [imp EXCEPT ![i].pc = p, ![i].label = l]
    <3>1. PICK y : y = [x EXCEPT !.pc = p, !.label = l]
      OBVIOUS
    <3>2. y \in Calls /\ y.id = id /\ y.pc = p /\ y.kind = x.kind /\ y.root = x.root
      BY <1>1, <1>2, <3>1 DEF Calls
    <3>3. imp' = [imp EXCEPT ![i] = y]
      <4>1. PICK f : f = [imp EXCEPT ![i] = [x EXCEPT !.pc = p]]
        OBVIOUS
      <4>2. f[i] = [x EXCEPT !.pc = p]
        BY <4>1 DEF WriterInv, WriterShape
      <4>3. imp' = [f EXCEPT ![i] = [f[i] EXCEPT !.label = l]]
        BY <1>1, <2>1, <4>1
      <4>4. [[x EXCEPT !.pc = p] EXCEPT !.label = l] = y
        BY <1>2, <3>1 DEF Calls
      <4>5. imp' = [f EXCEPT ![i] = y]
        BY <4>2, <4>3, <4>4
      <4>. QED
        BY <4>1, <4>5 DEF WriterInv, WriterShape
    <3>. QED
      BY <3>2, <3>3
  <2>2. CASE imp' = [imp EXCEPT ![i].pc = p]
    <3>1. PICK y : y = [x EXCEPT !.pc = p]
      OBVIOUS
    <3>2. y \in Calls /\ y.id = id /\ y.pc = p /\ y.kind = x.kind /\ y.root = x.root
      BY <1>1, <1>2, <3>1 DEF Calls
    <3>3. imp' = [imp EXCEPT ![i] = y]
      BY <1>1, <2>2, <3>1
    <3>. QED
      BY <3>2, <3>3
  <2>. QED
    BY <1>5, <2>1, <2>2
<1>8. m0 # Missing => Unlabelled(y, m0) /\ RecordOK(id, m0, c)
  BY <1>1, <1>3, <1>7 DEF Unlabelled, RecordOK
<1>9. Working(y, m0, c)
  BY <1>3, <1>5, <1>6, <1>7, <1>8 DEF Working
<1>. QED
  BY <1>1, <1>2, <1>4, <1>6, <1>7, <1>8, <1>9, ImporterStep

\* AddLabel copies the record as it is.
LEMMA AddLabelReadsInv == ASSUME WriterInv, NEW i \in Importers, AddLabelReads(i) PROVE WriterInv'
<1>1. PICK x, id, m0, c0 : x = imp[i] /\ id = x.id /\ m0 = meta[id] /\ c0 = cars[id]
  OBVIOUS
<1>2. /\ x \in Calls /\ id \in ImportIds /\ m0 \in Metas \cup {Missing} /\ c0 \in Cars \cup {Missing}
      /\ x.pc = "read" /\ Working(x, m0, c0) /\ [meta EXCEPT ![id] = m0] = meta
      /\ [cars EXCEPT ![id] = c0] = cars /\ (m0 # Missing => RecordOK(id, m0, c0))
  BY <1>1, ImporterFacts DEF AddLabelReads
<1>3. UNCHANGED <<imports, meta, cars>>
  BY DEF AddLabelReads
<1>4. CASE m0 = Missing
  BY <1>1, <1>2, <1>3, <1>4, GiveUpInv DEF AddLabelReads
<1>5. CASE m0 # Missing
  <2>1. imp' = [imp EXCEPT ![i].pc = "put", ![i].copy = m0]
    BY <1>1, <1>5 DEF AddLabelReads
  <2>2. PICK y : y = [x EXCEPT !.pc = "put", !.copy = m0]
    OBVIOUS
  <2>3. /\ y \in Calls /\ y.id = id /\ y.pc = "put" /\ y.copy = m0 /\ y.kind = x.kind
        /\ y.root = x.root /\ y.car = x.car
    BY <1>1, <1>2, <2>2 DEF Calls
  <2>4. imp' = [imp EXCEPT ![i] = y]
    <3>1. PICK f : f = [imp EXCEPT ![i] = [x EXCEPT !.pc = "put"]]
      OBVIOUS
    <3>2. f[i] = [x EXCEPT !.pc = "put"]
      BY <3>1 DEF WriterInv, WriterShape
    <3>3. imp' = [f EXCEPT ![i] = [f[i] EXCEPT !.copy = m0]]
      BY <1>1, <2>1, <3>1
    <3>4. [[x EXCEPT !.pc = "put"] EXCEPT !.copy = m0] = y
      BY <1>2, <2>2 DEF Calls
    <3>5. imp' = [f EXCEPT ![i] = y]
      BY <3>2, <3>3, <3>4
    <3>. QED
      BY <3>1, <3>5 DEF WriterInv, WriterShape
  <2>5. Unlabelled(x, m0)
    BY <1>2, <1>5 DEF Working
  <2>6. Unlabelled(y, m0)
    BY <1>1, <2>3, <2>5 DEF Unlabelled
  <2>7. Working(y, m0, c0)
    BY <1>2, <1>5, <2>3, <2>6 DEF Working
  <2>. QED
    BY <1>1, <1>2, <1>3, <2>3, <2>4, <2>7, ImporterStep
<1>. QED
  BY <1>4, <1>5

\* AddLabel puts the copy back with a label: the path, after which the root
\* follows, or the root, with which the import ends.
LEMMA AddLabelPutsInv == ASSUME WriterInv, NEW i \in Importers, AddLabelPuts(i) PROVE WriterInv'
<1>1. PICK x, id, c0, k : x = imp[i] /\ id = x.id /\ c0 = cars[id] /\ k = x.copy
  OBVIOUS
<1>2. /\ x \in Calls /\ id \in ImportIds /\ c0 \in Cars \cup {Missing}
      /\ x.pc = "put" /\ Working(x, meta[id], c0) /\ [cars EXCEPT ![id] = c0] = cars
  BY <1>1, ImporterFacts DEF AddLabelPuts
<1>3. UNCHANGED <<imports, cars>>
  BY DEF AddLabelPuts
<1>4. k \in Metas /\ Unlabelled(x, k) /\ x.root \in Roots /\ (x.kind # "car" => Whole(c0, x.root))
  BY <1>1, <1>2 DEF Working
<1>5. x.kind = "car" => x.car \in UserCar /\ x.car.root = x.root
  BY <1>2 DEF Working
<1>6. id \in 0 .. MaxImports /\ id # 0 /\ 0 \in 0 .. MaxImports
  BY <1>2, ClientImportsAssumption DEF ImportIds
<1>7. CASE imp' = [imp EXCEPT ![i].pc = "failed"] /\ meta' = meta
  BY <1>1, <1>2, <1>3, <1>7, GiveUpInv
<1>8. CASE /\ meta' = [meta EXCEPT ![id] = Labelled(k, x)] /\ x.label = "root"
           /\ imp' = [imp EXCEPT ![i] = NoImport]
  <2>1. PICK m : m = [k EXCEPT !.root = x.root]
    OBVIOUS
  <2>2. m \in Metas /\ m.root = x.root /\ m.path = k.path /\ meta' = [meta EXCEPT ![id] = m]
    BY <1>4, <1>8, <2>1 DEF Metas, Labelled
  <2>3. RecordOK(id, m, c0)
    BY <1>1, <1>4, <1>6, <2>2 DEF RecordOK, Unlabelled
  <2>4. Working(NoImport, m, c0)
    BY StartingValues DEF Working
  <2>. QED
    BY <1>1, <1>2, <1>3, <1>8, <2>2, <2>3, <2>4, ImporterStep, StartingValues
<1>9. CASE /\ meta' = [meta EXCEPT ![id] = Labelled(k, x)] /\ x.label # "root"
           /\ imp' = [imp EXCEPT ![i].pc = "read", ![i].label = "root"]
  <2>1. PICK pa : pa = IF x.kind = "car" THEN [own |-> 0, car |-> x.car] ELSE [own |-> id, car |-> Missing]
    OBVIOUS
  <2>2. /\ pa \in Paths /\ pa.own \in {0, id} /\ (x.kind = "car" => pa.own = 0)
        /\ (pa.own = 0 /\ pa.car # Missing => pa.car.root = x.root)
    BY <1>5, <1>6, <2>1 DEF Paths
  <2>3. PICK m : m = [k EXCEPT !.path = pa]
    OBVIOUS
  <2>4. m \in Metas /\ m.root = Missing /\ m.path = pa
    BY <1>4, <2>2, <2>3 DEF Metas, Unlabelled
  <2>5. meta' = [meta EXCEPT ![id] = m]
    BY <1>1, <1>9, <2>1, <2>3 DEF Labelled
  <2>6. PICK y : y = [x EXCEPT !.pc = "read", !.label = "root"]
    OBVIOUS
  <2>7. /\ y \in Calls /\ y.id = id /\ y.pc = "read" /\ y.kind = x.kind
        /\ y.root = x.root /\ y.car = x.car
    BY <1>1, <1>2, <2>6 DEF Calls
  <2>8. imp' = [imp EXCEPT ![i] = y]
    <3>1. PICK f : f = [imp EXCEPT ![i] = [x EXCEPT !.pc = "read"]]
      OBVIOUS
    <3>2. f[i] = [x EXCEPT !.pc = "read"]
      BY <3>1 DEF WriterInv, WriterShape
    <3>3. imp' = [f EXCEPT ![i] = [f[i] EXCEPT !.label = "root"]]
      BY <1>1, <1>9, <3>1
    <3>4. [[x EXCEPT !.pc = "read"] EXCEPT !.label = "root"] = y
      BY <1>2, <2>6 DEF Calls
    <3>5. imp' = [f EXCEPT ![i] = y]
      BY <3>2, <3>3, <3>4
    <3>. QED
      BY <3>1, <3>5 DEF WriterInv, WriterShape
  <2>9. Unlabelled(y, m) /\ RecordOK(id, m, c0)
    BY <2>2, <2>4, <2>7 DEF Unlabelled, RecordOK
  <2>10. Working(y, m, c0)
    BY <1>4, <1>5, <2>7, <2>9 DEF Working
  <2>. QED
    BY <1>1, <1>2, <1>3, <2>4, <2>5, <2>7, <2>8, <2>9, <2>10, ImporterStep
<1>. QED
  BY <1>1, <1>7, <1>8, <1>9 DEF AddLabelPuts

\* Every step of an import.
LEMMA ImporterInv ==
  ASSUME WriterInv, NEW i \in Importers,
         \/ CreateImport(i) \/ CarRejected(i) \/ AllocateCAR(i) \/ Build(i)
         \/ AddLabelReads(i) \/ AddLabelPuts(i) \/ Cleanup(i)
  PROVE  WriterInv'
<1>1. CASE CarRejected(i)
  BY <1>1, EndInv DEF CarRejected
<1>2. CASE Cleanup(i)
  <2>1. imp[i].pc # "idle" /\ imp' = [imp EXCEPT ![i] = NoImport] /\ UNCHANGED imports
    BY <1>2 DEF Cleanup
  <2>2. \/ cars' = cars /\ meta' = meta
        \/ cars' = cars /\ meta' = [meta EXCEPT ![imp[i].id] = Missing]
        \/ cars' = [cars EXCEPT ![imp[i].id] = Missing] /\ meta' = [meta EXCEPT ![imp[i].id] = Missing]
    BY <1>2 DEF Cleanup
  <2>. QED
    BY <2>1, <2>2, EndInv
<1>. QED
  BY <1>1, <1>2, CreateImportInv, AllocateCARInv, BuildInv, AddLabelReadsInv, AddLabelPutsInv

-----------------------------------------------------------------------------
(* Readers.                                                                  *)

\* A set of ids that is not empty has a smallest one.
LEMMA SmallestId ==
  ASSUME NEW T, T \subseteq ImportIds, T # {}
  PROVE  \E x \in T : \A y \in T : x <= y
<1>1. T \subseteq Nat
  BY ClientImportsAssumption DEF ImportIds
<1> DEFINE R == OpToRel(<, Nat)
<1>2. IsWellFoundedOn(R, Nat)
  BY NatLessThanWellFounded
<1> HIDE DEF R
<1>3. PICK x \in T : \A y \in T : ~ (<<y, x>> \in R)
  BY <1>1, <1>2, WFMin
<1>4. \A y \in T : ~ (y < x)
  <2> SUFFICES ASSUME NEW y \in T, y < x PROVE FALSE
    OBVIOUS
  <2>1. <<y, x>> \in Nat \X Nat /\ <<y, x>>[1] < <<y, x>>[2]
    BY <1>1
  <2>2. <<y, x>> \in R
    BY <2>1 DEF R, OpToRel
  <2>. QED
    BY <1>3, <2>2
<1>. QED
  BY <1>1, <1>3, <1>4

\* CARPathFor leads to a CAR of the root it was asked for, to a whole one when
\* the CAR is the manager's, or to no CAR.
LEMMA PathLeads ==
  ASSUME WriterInv, NEW r \in Roots
  PROVE  /\ CARPathFor(r) \in Paths
         /\ CarAt(CARPathFor(r)) # Missing =>
              /\ CarAt(CARPathFor(r)) \in Cars /\ CarAt(CARPathFor(r)).root = r
              /\ CARPathFor(r).own # 0 => CarAt(CARPathFor(r)).complete
<1> DEFINE ids == {id \in ImportIds : meta[id] # Missing /\ meta[id].root = r}
<1>1. CASE ids = {}
  <2>1. CARPathFor(r) = NoPath /\ NoPath.own = 0 /\ NoPath.car = Missing
    BY <1>1 DEF CARPathFor, NoPath
  <2>. QED
    BY <2>1, StartingValues DEF CarAt
<1>2. CASE ids # {}
  <2>1. \E x \in ids : \A y \in ids : x <= y
    BY <1>2, SmallestId
  <2>2. PICK id : id = CHOOSE x \in ids : \A o \in ids : x <= o
    OBVIOUS
  <2>3. id \in ids
    <3> HIDE DEF ids
    <3>. QED BY <2>1, <2>2, Zenon
  <2>4. CARPathFor(r) = meta[id].path
    BY <1>2, <2>2 DEF CARPathFor
  <2>5. id \in ImportIds /\ meta[id] \in Metas /\ meta[id].root = r /\ meta[id] # Missing
    BY <2>3 DEF WriterInv, WriterShape
  <2>6. RecordOK(id, meta[id], cars[id]) /\ r # Missing
    BY <2>5, ClientImportsAssumption DEF WriterInv, RecordsLead
  <2>7. PICK pa : pa = meta[id].path
    OBVIOUS
  <2>8. pa \in Paths /\ pa.own \in {0, id} /\ (pa.own = id => Whole(cars[id], r))
        /\ (pa.own = 0 /\ pa.car # Missing => pa.car.root = r)
    BY <2>5, <2>6, <2>7 DEF RecordOK, Metas
  <2>9. id # 0
    BY <2>5, ClientImportsAssumption DEF ImportIds
  <2>10. cars[id] \in Cars \cup {Missing}
    BY <2>5 DEF WriterInv, WriterShape
  <2>11. CASE pa.own = 0
    <3>1. CarAt(pa) = pa.car /\ pa.car \in UserCar \cup {Missing}
      BY <2>8, <2>11 DEF CarAt, Paths
    <3>2. UserCar \subseteq Cars
      BY DEF UserCar, Cars
    <3>. QED
      BY <2>4, <2>7, <2>8, <2>11, <3>1, <3>2
  <2>12. CASE pa.own = id
    <3>1. CarAt(pa) = cars[id]
      BY <2>9, <2>12 DEF CarAt
    <3>. QED
      BY <2>4, <2>7, <2>8, <2>10, <2>12, <3>1 DEF Whole
  <2>. QED
    BY <2>8, <2>11, <2>12
<1>. QED
  BY <1>1, <1>2

\* Giving a store back never closes it.
LEMMA DoneKeeps ==
  ASSUME ReaderInv, NEW r \in Roots, DoneStore(r)
  PROVE  UNCHANGED <<opened, stores>>
<1>1. CASE opened[r] = Missing
  BY <1>1 DEF DoneStore
<1>2. CASE opened[r] # Missing
  <2>1. opened[r].refs - 1 # 0
    BY <1>2 DEF ReaderInv, EntriesServe
  <2>2. opened' = [opened EXCEPT ![r] = opened[r]] /\ UNCHANGED stores
    BY <1>2, <2>1 DEF DoneStore, Entry
  <2>. QED
    BY <2>2 DEF ReaderInv, ReaderShape
<1>. QED
  BY <1>1, <1>2

\* Readers, entries and stores stay as they are.
LEMMA ReaderStill == ASSUME ReaderInv, UNCHANGED <<stores, opened, reader>> PROVE ReaderInv'
  BY DEF ReaderInv, ReaderShape, EntriesServe, ReadersServed, Serves

\* A reader moves on and holds no store, or one that serves it.
LEMMA ReaderStep ==
  ASSUME ReaderInv, NEW u \in DealMakers, NEW y \in ReadCalls, reader' = [reader EXCEPT ![u] = y],
         UNCHANGED <<opened, stores>>, y.pc = "got" => y.root \in Roots /\ Serves(y.st, y.root)
  PROVE  ReaderInv'
<1>1. ReaderShape' /\ EntriesServe'
  BY DEF ReaderInv, ReaderShape, EntriesServe, Serves
<1>2. \A v \in DealMakers : reader'[v] = IF v = u THEN y ELSE reader[v]
  BY DEF ReaderInv, ReaderShape
<1>3. \A k, r : Serves(k, r) => Serves(k, r)'
  BY DEF Serves
<1>4. ReadersServed'
  <2> SUFFICES ASSUME NEW v \in DealMakers, reader'[v].pc = "got"
               PROVE  reader'[v].root \in Roots /\ Serves(reader[v].st, reader[v].root)'
    BY DEF ReadersServed
  <2>1. CASE v = u
    BY <1>2, <2>1 DEF Serves
  <2>2. CASE v # u
    BY <1>2, <2>2 DEF ReaderInv, ReadersServed, Serves
  <2>. QED
    BY <2>1, <2>2
<1>. QED
  BY <1>1, <1>4 DEF ReaderInv

\* A store is shared, or the CAR that the record leads to is opened.
LEMMA GetStoreInv == ASSUME ImportsInv, NEW u \in DealMakers, GetStore(u) PROVE ReaderInv'
<1>1. WriterInv /\ ReaderInv
  BY DEF ImportsInv
<1>2. PICK r \in Roots, call \in {"size", "deal"} :
       \/ /\ opened[r] # Missing
          /\ opened' = [opened EXCEPT ![r] = opened[r]]
          /\ reader' = [reader EXCEPT ![u] = [pc |-> "got", call |-> call, root |-> r, st |-> opened[r].st]]
          /\ UNCHANGED stores
       \/ CarAt(CARPathFor(r)) = Missing /\ UNCHANGED <<stores, opened, reader>>
       \/ /\ CarAt(CARPathFor(r)) # Missing
          /\ stores' = Append(stores, [path |-> CARPathFor(r), root |-> CarAt(CARPathFor(r)).root,
                                       complete |-> CarAt(CARPathFor(r)).complete, closed |-> FALSE])
          /\ opened' = [opened EXCEPT ![r] = [st |-> Len(stores) + 1, refs |-> 0]]
          /\ reader' = [reader EXCEPT ![u] =
               [pc |-> "got", call |-> call, root |-> r, st |-> Len(stores) + 1]]
  BY DEF GetStore, Entry
<1>3. CASE UNCHANGED <<stores, opened, reader>>
  BY <1>1, <1>3, ReaderStill
<1>4. CASE /\ opened[r] # Missing
           /\ opened' = [opened EXCEPT ![r] = opened[r]] /\ UNCHANGED stores
           /\ reader' = [reader EXCEPT ![u] = [pc |-> "got", call |-> call, root |-> r, st |-> opened[r].st]]
  <2>1. opened[r] \in Entries /\ Serves(opened[r].st, r) /\ UNCHANGED opened
    BY <1>1, <1>4 DEF ReaderInv, ReaderShape, EntriesServe
  <2>2. PICK y : y = [pc |-> "got", call |-> call, root |-> r, st |-> opened[r].st]
    OBVIOUS
  <2>3. y \in ReadCalls /\ y.root = r /\ y.st = opened[r].st
    BY <2>1, <2>2 DEF ReadCalls, Entries
  <2>. QED
    BY <1>1, <1>4, <2>1, <2>2, <2>3, ReaderStep
<1>5. ASSUME CarAt(CARPathFor(r)) # Missing,
             stores' = Append(stores, [path |-> CARPathFor(r), root |-> CarAt(CARPathFor(r)).root,
                                       complete |-> CarAt(CARPathFor(r)).complete, closed |-> FALSE]),
             opened' = [opened EXCEPT ![r] = [st |-> Len(stores) + 1, refs |-> 0]],
             reader' = [reader EXCEPT ![u] =
               [pc |-> "got", call |-> call, root |-> r, st |-> Len(stores) + 1]]
      PROVE  ReaderInv'
  <2>1. PICK pa, c, n : pa = CARPathFor(r) /\ c = CarAt(CARPathFor(r)) /\ n = Len(stores) + 1
    OBVIOUS
  <2>2. pa \in Paths /\ c \in Cars /\ c.root = r /\ (pa.own # 0 => c.complete)
    BY <1>1, <1>5, <2>1, PathLeads
  <2>3. PICK new : new = [path |-> pa, root |-> r, complete |-> c.complete, closed |-> FALSE]
    OBVIOUS
  <2>4. new \in OpenStores /\ new.root = r /\ ~new.closed /\ (new.path.own # 0 => new.complete)
    BY <2>2, <2>3 DEF OpenStores, Cars
  <2>5. stores' = Append(stores, new)
    BY <1>5, <2>1, <2>2, <2>3
  <2>6. stores \in Seq(OpenStores) /\ Len(stores) \in Nat
    BY <1>1 DEF ReaderInv, ReaderShape
  <2>7. /\ stores' \in Seq(OpenStores) /\ n \in Nat /\ Len(stores') = n /\ n \in 1 .. n
        /\ \A k \in 1 .. Len(stores) : stores'[k] = stores[k] /\ k \in 1 .. n
        /\ stores'[n] = new
    BY <2>1, <2>4, <2>5, <2>6
  <2>8. \A k, q : Serves(k, q) => Serves(k, q)'
    BY <2>7 DEF Serves
  <2>9. Serves(n, r)'
    BY <2>4, <2>7 DEF Serves
  <2>10. PICK e : e = [st |-> n, refs |-> 0]
    OBVIOUS
  <2>11. e \in Entries /\ e.st = n /\ e.refs = 0 /\ opened' = [opened EXCEPT ![r] = e]
    BY <1>5, <2>1, <2>7, <2>10 DEF Entries
  <2>12. PICK y : y = [pc |-> "got", call |-> call, root |-> r, st |-> n]
    OBVIOUS
  <2>13. y \in ReadCalls /\ y.root = r /\ y.st = n /\ y.pc = "got" /\ reader' = [reader EXCEPT ![u] = y]
    BY <1>5, <2>1, <2>7, <2>12 DEF ReadCalls
  <2>14. ReaderShape'
    BY <1>1, <2>7, <2>11, <2>13 DEF ReaderInv, ReaderShape
  <2>15. \A q \in Roots : opened'[q] = IF q = r THEN e ELSE opened[q]
    BY <1>1, <2>11 DEF ReaderInv, ReaderShape
  <2>16. \A v \in DealMakers : reader'[v] = IF v = u THEN y ELSE reader[v]
    BY <1>1, <2>13 DEF ReaderInv, ReaderShape
  <2>17. EntriesServe'
    <3> SUFFICES ASSUME NEW q \in Roots, opened'[q] # Missing
                 PROVE  opened'[q].refs = 0 /\ Serves(opened[q].st, q)'
      BY DEF EntriesServe
    <3>1. CASE q = r
      <4>1. opened'[q] = e
        BY <2>15, <3>1
      <4>2. Serves(opened[q].st, q)'
        BY <2>9, <2>11, <3>1, <4>1 DEF Serves
      <4>. QED
        BY <2>11, <4>1, <4>2
    <3>2. CASE q # r
      <4>1. opened'[q] = opened[q] /\ opened[q].refs = 0 /\ Serves(opened[q].st, q)
        BY <1>1, <2>15, <3>2 DEF ReaderInv, EntriesServe
      <4>2. PICK k : k = opened[q].st
        OBVIOUS
      <4>3. Serves(k, q)'
        BY <2>8, <4>1, <4>2
      <4>. QED
        BY <4>1, <4>2, <4>3 DEF Serves
    <3>. QED
      BY <3>1, <3>2
  <2>18. ReadersServed'
    <3> SUFFICES ASSUME NEW v \in DealMakers, reader'[v].pc = "got"
                 PROVE  reader'[v].root \in Roots /\ Serves(reader[v].st, reader[v].root)'
      BY DEF ReadersServed
    <3>1. CASE v = u
      <4>1. reader'[v] = y
        BY <2>16, <3>1
      <4>. QED
        BY <2>9, <2>13, <4>1 DEF Serves
    <3>2. CASE v # u
      <4>1. reader'[v] = reader[v] /\ reader[v].root \in Roots /\ Serves(reader[v].st, reader[v].root)
        BY <1>1, <2>16, <3>2 DEF ReaderInv, ReadersServed
      <4>2. PICK k, q : k = reader[v].st /\ q = reader[v].root
        OBVIOUS
      <4>3. Serves(k, q)'
        BY <2>8, <4>1, <4>2
      <4>. QED
        BY <4>1, <4>2, <4>3 DEF Serves
    <3>. QED
      BY <3>1, <3>2
  <2>. QED
    BY <2>14, <2>17, <2>18 DEF ReaderInv
<1>. QED
  BY <1>2, <1>3, <1>4, <1>5

\* The other steps of a reader: the data is read, the store given back, the
\* deal proposed.
LEMMA ReadInv ==
  ASSUME ReaderInv, NEW u \in DealMakers, ReadDag(u) \/ CheckRoot(u) \/ ProposeDeal(u)
  PROVE  ReaderInv'
<1>1. reader[u] \in ReadCalls
  BY DEF ReaderInv, ReaderShape
<1>2. CASE ReadDag(u)
  <2>1. reader[u].root \in Roots /\ DoneStore(reader[u].root) /\ reader' = [reader EXCEPT ![u] = NoReader]
    BY <1>2 DEF ReadDag, ReaderInv, ReadersServed
  <2>2. UNCHANGED <<opened, stores>>
    BY <2>1, DoneKeeps
  <2>. QED
    BY <2>1, <2>2, StartingValues, ReaderStep
<1>3. CASE CheckRoot(u)
  <2>1. reader[u].root \in Roots
    BY <1>3 DEF CheckRoot, ReaderInv, ReadersServed
  <2>2. CASE DoneStore(reader[u].root) /\ reader' = [reader EXCEPT ![u].pc = "propose", ![u].st = 0]
    <3>1. UNCHANGED <<opened, stores>>
      BY <2>1, <2>2, DoneKeeps
    <3>2. PICK x, y : x = reader[u] /\ y = [x EXCEPT !.pc = "propose", !.st = 0]
      OBVIOUS
    <3>3. y \in ReadCalls /\ y.pc = "propose"
      BY <1>1, <3>2 DEF ReadCalls
    <3>4. reader' = [reader EXCEPT ![u] = y]
      <4>1. PICK f : f = [reader EXCEPT ![u] = [x EXCEPT !.pc = "propose"]]
        OBVIOUS
      <4>2. f[u] = [x EXCEPT !.pc = "propose"]
        BY <4>1 DEF ReaderInv, ReaderShape
      <4>3. reader' = [f EXCEPT ![u] = [f[u] EXCEPT !.st = 0]]
        BY <2>2, <3>2, <4>1
      <4>4. [[x EXCEPT !.pc = "propose"] EXCEPT !.st = 0] = y
        BY <1>1, <3>2 DEF ReadCalls
      <4>5. reader' = [f EXCEPT ![u] = y]
        BY <4>2, <4>3, <4>4
      <4>. QED
        BY <4>1, <4>5 DEF ReaderInv, ReaderShape
    <3>. QED
      BY <3>1, <3>3, <3>4, ReaderStep
  <2>3. CASE reader' = [reader EXCEPT ![u] = NoReader] /\ UNCHANGED <<opened, stores>>
    BY <2>3, StartingValues, ReaderStep
  <2>. QED
    BY <1>3, <2>2, <2>3 DEF CheckRoot
<1>4. CASE ProposeDeal(u)
  BY <1>4, StartingValues, ReaderStep DEF ProposeDeal
<1>. QED
  BY <1>2, <1>3, <1>4

-----------------------------------------------------------------------------
(* The theorem.                                                              *)

\* There are no records, no files and no stores at first.
LEMMA ImportsInitInv == ImportsInit => ImportsInv
<1> SUFFICES ASSUME ImportsInit PROVE ImportsInv
  OBVIOUS
<1> USE DEF ImportsInit
<1>1. 0 \in 0 .. MaxImports /\ << >> \in Seq(OpenStores)
  BY ClientImportsAssumption
<1>2. WriterShape /\ ReaderShape
  BY <1>1, StartingValues DEF WriterShape, ReaderShape
<1>3. RecordsLead /\ ImportsApart /\ ImportsWork
  BY StartingValues DEF RecordsLead, ImportsApart, ImportsWork
<1>4. EntriesServe /\ ReadersServed
  BY StartingValues DEF EntriesServe, ReadersServed
<1>. QED
  BY <1>2, <1>3, <1>4 DEF ImportsInv, WriterInv, ReaderInv

\* A restart ends all calls and closes all stores; records and files stay.
LEMMA RestartInv == ASSUME ImportsInv, RestartClient PROVE ImportsInv'
<1>1. /\ imp' = [i \in Importers |-> NoImport] /\ stores' = << >>
      /\ opened' = [r \in Roots |-> Missing] /\ reader' = [u \in DealMakers |-> NoReader]
      /\ UNCHANGED <<meta, cars, imports>>
  BY DEF RestartClient
<1>2. << >> \in Seq(OpenStores)
  OBVIOUS
<1>3. WriterShape' /\ ReaderShape'
  BY <1>1, <1>2, StartingValues DEF ImportsInv, WriterInv, WriterShape, ReaderShape
<1>4. RecordsLead' /\ ImportsApart' /\ ImportsWork'
  BY <1>1, StartingValues DEF ImportsInv, WriterInv, RecordsLead, ImportsApart, ImportsWork
<1>5. EntriesServe' /\ ReadersServed'
  BY <1>1, StartingValues DEF EntriesServe, ReadersServed
<1>. QED
  BY <1>3, <1>4, <1>5 DEF ImportsInv, WriterInv, ReaderInv

\* Every step keeps the invariant.
LEMMA ImportsNextInv == ImportsInv /\ [ImportsNext]_importVars => ImportsInv'
<1> SUFFICES ASSUME ImportsInv, [ImportsNext]_importVars PROVE ImportsInv'
  OBVIOUS
<1>1. WriterInv /\ ReaderInv
  BY DEF ImportsInv
<1>2. CASE UNCHANGED importVars
  BY <1>1, <1>2, WriterStill, ReaderStill DEF importVars, ImportsInv
<1>3. ASSUME NEW i \in Importers,
             \/ CreateImport(i) \/ CarRejected(i) \/ AllocateCAR(i) \/ Build(i)
             \/ AddLabelReads(i) \/ AddLabelPuts(i) \/ Cleanup(i)
      PROVE  ImportsInv'
  <2>1. UNCHANGED <<stores, opened, reader>>
    BY <1>3 DEF CreateImport, CarRejected, AllocateCAR, Build, AddLabelReads, AddLabelPuts, Cleanup
  <2>. QED
    BY <1>1, <1>3, <2>1, ImporterInv, ReaderStill DEF ImportsInv
<1>4. ASSUME NEW id \in ImportIds, RemoveCar(id) \/ RemoveRecord(id) PROVE ImportsInv'
  <2>1. UNCHANGED <<stores, opened, reader, imp, imports>>
    BY <1>4 DEF RemoveCar, RemoveRecord
  <2>2. CASE UNCHANGED <<meta, cars>>
    BY <1>1, <2>1, <2>2, WriterStill, ReaderStill DEF ImportsInv
  <2>3. CASE \/ cars' = [cars EXCEPT ![id] = Missing] /\ UNCHANGED meta
             \/ meta' = [meta EXCEPT ![id] = Missing] /\ UNCHANGED cars
    BY <1>1, <2>1, <2>3, RemovalStep, ReaderStill DEF ImportsInv
  <2>. QED
    BY <1>4, <2>2, <2>3 DEF RemoveCar, RemoveRecord
<1>5. ASSUME NEW u \in DealMakers, GetStore(u) \/ ReadDag(u) \/ CheckRoot(u) \/ ProposeDeal(u)
      PROVE  ImportsInv'
  <2>1. UNCHANGED <<meta, cars, imp, imports>>
    BY <1>5 DEF GetStore, ReadDag, CheckRoot, ProposeDeal
  <2>2. ReaderInv'
    BY <1>1, <1>5, GetStoreInv, ReadInv
  <2>. QED
    BY <1>1, <2>1, <2>2, WriterStill DEF ImportsInv
<1>. QED
  BY <1>2, <1>3, <1>4, <1>5, RestartInv DEF ImportsNext

\* ImportServed: a call that reads imported data has an open store of the root it
\* asked for, with all of its blocks when the manager wrote the CAR, whatever
\* imports fail halfway, are removed, made again or cut off by a restart.
THEOREM ImportsAreServed == ImportsSpec => []ImportServed
<1>1. ImportsInit => ImportsInv
  BY ImportsInitInv
<1>2. ImportsInv /\ [ImportsNext]_importVars => ImportsInv'
  BY ImportsNextInv
<1>3. ImportsInv => ImportServed
  BY DEF ImportsInv, ReaderInv, ReadersServed, Serves, ImportServed
<1>. QED
  BY <1>1, <1>2, <1>3, PTL DEF ImportsSpec

-----------------------------------------------------------------------------
(* The repositories in badger and in MySQL.                                  *)

Tables == {"deals", "cids", "asks", "retrievalAsks", "funds", "retrievals", "channels", "msgs"}

DealFields == {"ProposalCid", "Provider", "PieceCID", "Label", "Root", "RefPieceCid", "Client",
               "State", "PieceStatus", "DealID", "PublishCid", "TransferChannelID"}

\* A storage deal as the provider saves it.
IsStoredDeal(d) ==
  /\ d = [f \in DealFields |-> d[f]]
  /\ d.Label \in {"string", "bytes", "utf8 bytes"}
  /\ d.RefPieceCid # "" /\ d.PublishCid # ""
  /\ d.TransferChannelID \in {None} \cup [Initiator : {"peer"}, ID : Nat]

\* The tables of badger and of MySQL: for every record the row it was converted to.
DealPairs(b, m) ==
  /\ DOMAIN b \subseteq StoredDeals /\ DOMAIN m = DOMAIN b
  /\ \A k \in DOMAIN b : IsStoredDeal(b[k]) /\ b[k].ProposalCid = k /\ m[k] = fromStorageDeal(b[k])

\* MySQL keeps a row for some of the locations in badger, one at least for each
\* payload.
CidPairs(b, m) ==
  /\ DOMAIN b = {k[2] : k \in DOMAIN m}
  /\ \A k \in DOMAIN m : [PieceCID |-> k[1], loc |-> m[k]] \in b[k[2]]

AskPairs(b, m) == DOMAIN m = DOMAIN b /\ \A k \in DOMAIN b : toStorageAsk(m[k]) = b[k]

FundPairs(b, m) == DOMAIN m = DOMAIN b /\ \A k \in DOMAIN b : toFundedAddressState(m[k]) = b[k]

RetrievalPairs(b, m) ==
  /\ DOMAIN m = DOMAIN b
  /\ \A k \in DOMAIN b : b[k] \in RetrievalDeals /\ b[k].ID = k /\ m[k] = fromProviderDealState(b[k])

\* Badger has the channels whose rows are not marked as deleted.
ChannelPairs(b, m) ==
  /\ DOMAIN b = {k \in DOMAIN m : ~m[k].is_deleted}
  /\ \A k \in DOMAIN m : m[k] = [info |-> m[k].info, is_deleted |-> m[k].is_deleted]
  /\ \A k \in DOMAIN m : m[k].is_deleted \in BOOLEAN
  /\ \A k \in DOMAIN b : \E ci \in ChannelInfos(k) :
       b[k] = marshallChannelInfo(ci) /\ m[k].info = fromChannelInfo(ci).info

StoresInv ==
  /\ DOMAIN badger = Tables /\ DOMAIN mysql = Tables
  /\ DealPairs(badger.deals, mysql.deals)
  /\ CidPairs(badger.cids, mysql.cids)
  /\ AskPairs(badger.asks, mysql.asks)
  /\ badger.retrievalAsks = mysql.retrievalAsks
  /\ FundPairs(badger.funds, mysql.funds)
  /\ RetrievalPairs(badger.retrievals, mysql.retrievals)
  /\ ChannelPairs(badger.channels, mysql.channels)
  /\ badger.msgs = mysql.msgs

-----------------------------------------------------------------------------
\* Writing one table leaves the others alone.
LEMMA TableSet ==
  ASSUME NEW s, DOMAIN s = Tables, NEW t \in Tables, NEW v
  PROVE  /\ DOMAIN [s EXCEPT ![t] = v] = Tables
         /\ [s EXCEPT ![t] = v][t] = v
         /\ \A u \in Tables : u # t => [s EXCEPT ![t] = v][u] = s[u]
  OBVIOUS

\* A record that is put under a key.
LEMMA PutKeyGives ==
  ASSUME NEW f, NEW k, NEW v
  PROVE  /\ DOMAIN PutKey(f, k, v) = DOMAIN f \cup {k}
         /\ PutKey(f, k, v)[k] = v
         /\ \A x \in DOMAIN f : x # k => PutKey(f, k, v)[x] = f[x]
  BY DEF PutKey

\* The stand-ins for nil differ from what they stand in for.
LEMMA NilDiffers ==
  /\ None # "" /\ None # "create" /\ None # "add" /\ None # "sig" /\ None # EmptyAddr
  /\ \A x \in Cids \cup Addrs : x # None /\ x # "" /\ x # EmptyAddr
  BY DealStoresAssumption

\* A transfer channel is read back as it was, no channel as none.
LEMMA ChannelBack ==
  ASSUME NEW ch \in {None} \cup [Initiator : {"peer"}, ID : Nat]
  PROVE  ChannelPointer(ChannelColumns(ch)) = ch
<1>1. CASE ch = None
  BY <1>1 DEF ChannelPointer, ChannelColumns
<1>2. CASE ch \in [Initiator : {"peer"}, ID : Nat]
  <2>1. ch # None
    BY <1>2, DealStoresAssumption
  <2>. QED
    BY <1>2, <2>1 DEF ChannelPointer, ChannelColumns
<1>. QED
  BY <1>1, <1>2

\* The row of a deal.
LEMMA DealRow ==
  ASSUME NEW d, IsStoredDeal(d)
  PROVE  /\ DOMAIN fromStorageDeal(d) = DealFields
         /\ fromStorageDeal(d) =
              [f \in DealFields |-> CASE f = "Label" -> LabelColumn(d.Label)
                                      [] f = "PublishCid" -> Column(d.PublishCid)
                                      [] f = "RefPieceCid" -> Column(d.RefPieceCid)
                                      [] f = "TransferChannelID" -> ChannelColumns(d.TransferChannelID)
                                      [] OTHER -> d[f]]
<1>1. DOMAIN d = DealFields
  BY DEF IsStoredDeal
<1>. QED
  BY <1>1 DEF fromStorageDeal, DealFields

\* The fields that a row takes over, and the deal that it gives back.
LEMMA DealRowGives ==
  ASSUME NEW d, IsStoredDeal(d)
  PROVE  LET r == fromStorageDeal(d)
         IN  /\ r.ProposalCid = d.ProposalCid /\ r.Provider = d.Provider /\ r.PieceCID = d.PieceCID
             /\ r.Root = d.Root /\ r.Client = d.Client /\ r.State = d.State
             /\ r.PieceStatus = d.PieceStatus /\ r.DealID = d.DealID
             /\ toStorageDeal(r) = AsString(d)
<1>1. PICK r : r = fromStorageDeal(d)
  OBVIOUS
<1>2. /\ r.ProposalCid = d.ProposalCid /\ r.Provider = d.Provider /\ r.PieceCID = d.PieceCID
      /\ r.Root = d.Root /\ r.Client = d.Client /\ r.State = d.State
      /\ r.PieceStatus = d.PieceStatus /\ r.DealID = d.DealID
  BY <1>1, DealRow DEF DealFields
<1>3. /\ r.Label = LabelColumn(d.Label) /\ r.PublishCid = Column(d.PublishCid)
      /\ r.RefPieceCid = Column(d.RefPieceCid)
      /\ r.TransferChannelID = ChannelColumns(d.TransferChannelID)
  BY <1>1, DealRow DEF DealFields
<1>4. LabelOf(r.Label) = (IF d.Label = "utf8 bytes" THEN "string" ELSE d.Label)
  BY <1>3 DEF LabelOf, LabelColumn, IsStoredDeal
<1>5. Pointer(r.PublishCid) = d.PublishCid /\ Pointer(r.RefPieceCid) = d.RefPieceCid
  BY <1>3, DealStoresAssumption DEF Pointer, Column, IsStoredDeal
<1>6. ChannelPointer(r.TransferChannelID) = d.TransferChannelID
  BY <1>3, ChannelBack DEF IsStoredDeal
<1>7. DOMAIN r = DealFields /\ DOMAIN d = DealFields
  BY <1>1, DealRow DEF IsStoredDeal
<1>8. toStorageDeal(r) =
        [f \in DealFields |-> CASE f = "Label" -> LabelOf(r.Label)
                                [] f = "PublishCid" -> Pointer(r.PublishCid)
                                [] f = "RefPieceCid" -> Pointer(r.RefPieceCid)
                                [] f = "TransferChannelID" -> ChannelPointer(r.TransferChannelID)
                                [] OTHER -> r[f]]
  BY <1>7 DEF toStorageDeal, DealFields
<1>9. AsString(d) = [f \in DealFields |-> IF f = "Label" THEN LabelOf(r.Label) ELSE d[f]]
  BY <1>4, <1>7 DEF AsString, DealFields
<1>10. \A f \in DealFields : toStorageDeal(r)[f] = AsString(d)[f]
  BY <1>2, <1>5, <1>6, <1>8, <1>9 DEF DealFields
<1>11. toStorageDeal(r) = AsString(d)
  BY <1>8, <1>9, <1>10
<1>. QED
  BY <1>1, <1>2, <1>11

\* The deals of a provider are as they are saved.
LEMMA MinerDealsStored ==
  ASSUME NEW k \in StoredDeals, NEW d \in MinerDeals(k)
  PROVE  IsStoredDeal(d) /\ d.ProposalCid = k
<1>1. PICK st \in DealStates, ps \in PieceStatuses, pub \in BOOLEAN : d = MinerDeal(k, st, ps, pub)
  BY DEF MinerDeals
<1>2. SomeCid \in Cids
  BY DealStoresAssumption DEF SomeCid
<1>3. PieceCID[k] # "" /\ Label[k] \in {"string", "bytes", "utf8 bytes"} /\ None # "" /\ SomeCid # ""
  BY <1>2, DealStoresAssumption
<1>4. PICK q : q = IF k \in Peerless THEN PieceCID[k] ELSE None
  OBVIOUS
<1>5. PICK c : c = IF pub THEN SomeCid ELSE None
  OBVIOUS
<1>6. PICK ch : ch = IF k \in Peerless THEN None ELSE [Initiator |-> "peer", ID |-> 1]
  OBVIOUS
<1>7. PICK cl, id : cl = (IF k \in Peerless THEN "" ELSE "peer") /\ id = IF pub THEN 1 ELSE 0
  OBVIOUS
<1>8. d = [ProposalCid |-> k, Provider |-> Provider[k], PieceCID |-> PieceCID[k], Label |-> Label[k],
           Root |-> Root[k], RefPieceCid |-> q, Client |-> cl, State |-> st, PieceStatus |-> ps,
           DealID |-> id, PublishCid |-> c, TransferChannelID |-> ch]
  BY <1>1, <1>4, <1>5, <1>6, <1>7, Zenon DEF MinerDeal
<1>9. q # "" /\ c # "" /\ ch \in {None} \cup [Initiator : {"peer"}, ID : Nat]
  BY <1>3, <1>4, <1>5, <1>6
<1>. QED
  BY <1>3, <1>8, <1>9 DEF IsStoredDeal, DealFields

\* A change of the status goes through the conversion.
LEMMA UpdatedRow ==
  ASSUME NEW d, IsStoredDeal(d), NEW st, NEW ps
  PROVE  /\ IsStoredDeal(Updated(d, st, ps)) /\ Updated(d, st, ps).ProposalCid = d.ProposalCid
         /\ fromStorageDeal(Updated(d, st, ps)) = Updated(fromStorageDeal(d), st, ps)
<1>1. PICK s : s = IF st = "Unknown" THEN d.State ELSE st
  OBVIOUS
<1>2. PICK p : p = IF ps = "" THEN d.PieceStatus ELSE ps
  OBVIOUS
<1>3. Updated(d, st, ps) = [d EXCEPT !.State = s, !.PieceStatus = p]
  BY <1>1, <1>2 DEF Updated, IsStoredDeal, DealFields
<1>4. Updated(fromStorageDeal(d), st, ps) = [fromStorageDeal(d) EXCEPT !.State = s, !.PieceStatus = p]
  BY <1>1, <1>2, DealRow, DealRowGives DEF Updated, DealFields
<1>5. IsStoredDeal([d EXCEPT !.State = s, !.PieceStatus = p])
  BY DEF IsStoredDeal, DealFields
<1>6. [d EXCEPT !.State = s, !.PieceStatus = p].ProposalCid = d.ProposalCid
  BY DEF IsStoredDeal, DealFields
<1>7. fromStorageDeal([d EXCEPT !.State = s, !.PieceStatus = p])
        = [fromStorageDeal(d) EXCEPT !.State = s, !.PieceStatus = p]
  <2>1. PICK e : e = [d EXCEPT !.State = s, !.PieceStatus = p]
    OBVIOUS
  <2>2. IsStoredDeal(e) /\ \A f \in DealFields : e[f] = CASE f = "State" -> s [] f = "PieceStatus" -> p [] OTHER -> d[f]
    BY <1>5, <2>1 DEF IsStoredDeal, DealFields
  <2>3. PICK r : r = fromStorageDeal(d)
    OBVIOUS
  <2>4. DOMAIN r = DealFields
    BY <2>3, DealRow
  <2>5. [r EXCEPT !.State = s, !.PieceStatus = p] =
          [f \in DealFields |-> CASE f = "State" -> s [] f = "PieceStatus" -> p [] OTHER -> r[f]]
    BY <2>4 DEF DealFields
  <2>6. \A f \in DealFields :
          fromStorageDeal(e)[f] = CASE f = "State" -> s [] f = "PieceStatus" -> p [] OTHER -> r[f]
    BY <2>2, <2>3, DealRow DEF DealFields
  <2>7. fromStorageDeal(e) = [f \in DealFields |-> fromStorageDeal(e)[f]]
    BY <2>2, DealRow
  <2>8. fromStorageDeal(e) = [r EXCEPT !.State = s, !.PieceStatus = p]
    BY <2>5, <2>6, <2>7
  <2>. QED
    BY <2>1, <2>3, <2>8
<1>. QED
  BY <1>3, <1>4, <1>5, <1>6, <1>7

\* An ask comes back as badger encodes it.
LEMMA AskBack ==
  ASSUME NEW a, a = [f \in {"Miner", "Price", "SeqNo", "Signature"} |-> a[f]], a.Signature \in {None, "sig"}
  PROVE  toStorageAsk(fromStorageAsk(a)) = Encoded(a)
<1>1. DOMAIN a = {"Miner", "Price", "SeqNo", "Signature"}
  OBVIOUS
<1>2. Pointer(Column(a.Signature)) = a.Signature
  BY DealStoresAssumption DEF Pointer, Column
<1>3. PICK r : r = fromStorageAsk(a)
  OBVIOUS
<1>4. PICK p : p = BigColumn(a.Price)
  OBVIOUS
<1>5. PICK g : g = Column(a.Signature)
  OBVIOUS
<1>6. r = [f \in {"Miner", "Price", "SeqNo", "Signature"} |->
             CASE f = "Price" -> p [] f = "Signature" -> g [] OTHER -> a[f]]
  BY <1>1, <1>3, <1>4, <1>5 DEF fromStorageAsk
<1>7. toStorageAsk(r) = [f \in {"Miner", "Price", "SeqNo", "Signature"} |->
                           CASE f = "Price" -> p [] f = "Signature" -> a.Signature [] OTHER -> a[f]]
  BY <1>2, <1>5, <1>6 DEF toStorageAsk
<1>8. Encoded(a) = [f \in {"Miner", "Price", "SeqNo", "Signature"} |-> IF f = "Price" THEN p ELSE a[f]]
  BY <1>1, <1>4 DEF Encoded
<1>. QED
  BY <1>3, <1>7, <1>8

\* A funded address comes back as it was.
LEMMA FundBack ==
  ASSUME NEW a, NEW s \in FundedAddressStates(a)
  PROVE  toFundedAddressState(fromFundedAddressState(s)) = s
<1>1. s = [f \in {"Addr", "AmtReserved", "MsgCid"} |-> s[f]]
  BY DEF FundedAddressStates
<1>2. Pointer(Column(s.MsgCid)) = s.MsgCid
  BY DealStoresAssumption DEF Pointer, Column, FundedAddressStates
<1>3. PICK c : c = Column(s.MsgCid)
  OBVIOUS
<1>4. fromFundedAddressState(s) =
        [f \in {"Addr", "AmtReserved", "MsgCid"} |-> IF f = "MsgCid" THEN c ELSE s[f]]
  BY <1>1, <1>3 DEF fromFundedAddressState
<1>. QED
  BY <1>1, <1>2, <1>3, <1>4 DEF toFundedAddressState

\* A retrieval deal comes back as it was, and is found by its id and channel.
LEMMA RetrievalBack ==
  ASSUME NEW d \in RetrievalDeals
  PROVE  /\ toProviderDealState(fromProviderDealState(d)) = d
         /\ fromProviderDealState(d).ID = d.ID
         /\ fromProviderDealState(d).ChannelID = ChannelColumns(d.ChannelID)
<1>1. d = [f \in {"Receiver", "ID", "PieceCID", "Status", "ChannelID"} |-> d[f]]
  BY DEF RetrievalDeals
<1>2. Pointer(Column(d.PieceCID)) = d.PieceCID
  BY DealStoresAssumption DEF Pointer, Column, RetrievalDeals
<1>3. d.ChannelID \in {None} \cup [Initiator : {"peer"}, ID : Nat]
  BY DEF RetrievalDeals
<1>4. ChannelPointer(ChannelColumns(d.ChannelID)) = d.ChannelID
  BY <1>3, ChannelBack
<1>5. PICK c : c = Column(d.PieceCID)
  OBVIOUS
<1>6. PICK ch : ch = ChannelColumns(d.ChannelID)
  OBVIOUS
<1>7. fromProviderDealState(d) =
        [f \in {"Receiver", "ID", "PieceCID", "Status", "ChannelID"} |->
           CASE f = "PieceCID" -> c [] f = "ChannelID" -> ch [] OTHER -> d[f]]
  BY <1>1, <1>5, <1>6 DEF fromProviderDealState
<1>8. toProviderDealState(fromProviderDealState(d)) =
        [f \in {"Receiver", "ID", "PieceCID", "Status", "ChannelID"} |->
           CASE f = "PieceCID" -> Pointer(c) [] f = "ChannelID" -> ChannelPointer(ch) [] OTHER -> d[f]]
  BY <1>7 DEF toProviderDealState
<1>9. toProviderDealState(fromProviderDealState(d)) = d
  BY <1>1, <1>2, <1>4, <1>5, <1>6, <1>8
<1>. QED
  BY <1>6, <1>7, <1>9

ChannelFields == {"ChannelID", "Direction", "Target", "Channel", "CreateMsg", "AddFundsMsg", "Settling"}

\* The fields of a payment channel that may be nil.
LEMMA ChannelInfoFields ==
  ASSUME NEW id, NEW ci \in ChannelInfos(id)
  PROVE  /\ ci = [f \in ChannelFields |-> ci[f]] /\ ci.ChannelID = id
         /\ ci.Channel \in {None} \cup Addrs /\ ci.CreateMsg \in {None, "create"}
         /\ ci.AddFundsMsg \in {None, "add"} /\ ci.Settling \in BOOLEAN
  BY DEF ChannelInfos, ChannelFields

\* A payment channel comes back from both encodings as it was.
LEMMA ChannelInfoBack ==
  ASSUME NEW id, NEW ci \in ChannelInfos(id), NEW del
  PROVE  /\ unmarshallChannelInfo(marshallChannelInfo(ci)) = ci
         /\ toChannelInfo([info |-> fromChannelInfo(ci).info, is_deleted |-> del]) = ci
         /\ fromChannelInfo(ci).is_deleted = FALSE
         /\ fromChannelInfo(ci) = [info |-> fromChannelInfo(ci).info, is_deleted |-> FALSE]
         /\ LET r == fromChannelInfo(ci).info
            IN  /\ r.Channel = Column(ci.Channel) /\ r.CreateMsg = Column(ci.CreateMsg)
                /\ r.AddFundsMsg = Column(ci.AddFundsMsg) /\ r.ChannelID = ci.ChannelID
                /\ r.Direction = ci.Direction /\ r.Target = ci.Target /\ r.Settling = ci.Settling
<1> USE ChannelInfoFields
<1>1. DOMAIN ci = ChannelFields
  OBVIOUS
<1>2. /\ Pointer(Column(ci.Channel)) = ci.Channel /\ Pointer(Column(ci.CreateMsg)) = ci.CreateMsg
      /\ Pointer(Column(ci.AddFundsMsg)) = ci.AddFundsMsg
  BY NilDiffers DEF Pointer, Column
<1>3. PICK a : a = Column(ci.Channel)
  OBVIOUS
<1>4. PICK c : c = Column(ci.CreateMsg)
  OBVIOUS
<1>5. PICK g : g = Column(ci.AddFundsMsg)
  OBVIOUS
<1>6. PICK r : r = fromChannelInfo(ci).info
  OBVIOUS
<1>7. r = [f \in ChannelFields |-> CASE f = "Channel" -> a [] f = "CreateMsg" -> c
                                    [] f = "AddFundsMsg" -> g [] OTHER -> ci[f]]
  BY <1>1, <1>3, <1>4, <1>5, <1>6 DEF fromChannelInfo, ChannelFields
<1>8. [r EXCEPT !.Channel = Pointer(@), !.CreateMsg = Pointer(@), !.AddFundsMsg = Pointer(@)]
        = [f \in ChannelFields |-> CASE f = "Channel" -> Pointer(a) [] f = "CreateMsg" -> Pointer(c)
                                    [] f = "AddFundsMsg" -> Pointer(g) [] OTHER -> ci[f]]
  BY <1>7 DEF ChannelFields
<1>9. [r EXCEPT !.Channel = Pointer(@), !.CreateMsg = Pointer(@), !.AddFundsMsg = Pointer(@)] = ci
  BY <1>2, <1>3, <1>4, <1>5, <1>8 DEF ChannelFields
<1>10. toChannelInfo([info |-> r, is_deleted |-> del]) = ci
  BY <1>9 DEF toChannelInfo
<1>11. fromChannelInfo(ci) = [info |-> r, is_deleted |-> FALSE]
  BY <1>6 DEF fromChannelInfo
<1>12. /\ r.Channel = a /\ r.CreateMsg = c /\ r.AddFundsMsg = g /\ r.ChannelID = ci.ChannelID
       /\ r.Direction = ci.Direction /\ r.Target = ci.Target /\ r.Settling = ci.Settling
  BY <1>7 DEF ChannelFields
<1>13. unmarshallChannelInfo(marshallChannelInfo(ci)) = ci
  <2>1. PICK e : e = IF ci.Channel = None THEN EmptyAddr ELSE ci.Channel
    OBVIOUS
  <2>2. (IF e = EmptyAddr THEN None ELSE e) = ci.Channel
    BY <2>1, NilDiffers
  <2>3. marshallChannelInfo(ci) = [f \in ChannelFields |-> IF f = "Channel" THEN e ELSE ci[f]]
    BY <1>1, <2>1 DEF marshallChannelInfo, ChannelFields
  <2>. QED
    BY <2>2, <2>3 DEF unmarshallChannelInfo, ChannelFields
<1>. QED
  BY <1>3, <1>4, <1>5, <1>6, <1>10, <1>11, <1>12, <1>13

-----------------------------------------------------------------------------
\* One table of each store is written.
LEMMA TableStep ==
  ASSUME StoresInv, NEW t \in Tables, NEW B, NEW M,
         badger' = [badger EXCEPT ![t] = B], mysql' = [mysql EXCEPT ![t] = M]
  PROVE  /\ DOMAIN badger' = Tables /\ DOMAIN mysql' = Tables
         /\ badger'[t] = B /\ mysql'[t] = M
         /\ \A u \in Tables : u # t => badger'[u] = badger[u] /\ mysql'[u] = mysql[u]
<1>1. DOMAIN badger = Tables /\ DOMAIN mysql = Tables
  BY DEF StoresInv
<1>. QED
  BY <1>1, TableSet

\* The stores are empty at first.
LEMMA StoresInitInv == StoresInit => StoresInv
  BY DEF StoresInit, StoresInv, EmptyStore, NoFn, Tables, DealPairs, CidPairs, AskPairs, FundPairs,
         RetrievalPairs, ChannelPairs

\* Storage deals.
LEMMA DealsStep ==
  ASSUME StoresInv, SaveStorageDeal \/ UpdateStorageDealStatus
  PROVE  StoresInv'
<1> DEFINE b == badger.deals
           m == mysql.deals
<1>0. /\ DealPairs(b, m) /\ DOMAIN badger = Tables /\ DOMAIN mysql = Tables
  BY DEF StoresInv
<1>1. SUFFICES ASSUME NEW B, NEW M, DealPairs(B, M),
                      badger' = [badger EXCEPT !["deals"] = B], mysql' = [mysql EXCEPT !["deals"] = M]
               PROVE  StoresInv'
  <2>1. CASE SaveStorageDeal
    <3>0. PICK k \in StoredDeals : \E d \in MinerDeals(k) : badger' = BadgerSaveDeal(d) /\ mysql' = MysqlSaveDeal(d)
      BY <2>1 DEF SaveStorageDeal
    <3>1. PICK d \in MinerDeals(k) : badger' = BadgerSaveDeal(d) /\ mysql' = MysqlSaveDeal(d)
      BY <3>0
    <3>2. IsStoredDeal(d) /\ d.ProposalCid = k
      BY MinerDealsStored
    <3>3. DealPairs(PutKey(b, k, d), PutKey(m, k, fromStorageDeal(d)))
      <4> HIDE DEF b, m
      <4>. QED
        BY <1>0, <3>2 DEF DealPairs, PutKey
    <3>. QED
      BY <1>1, <3>1, <3>2, <3>3 DEF BadgerSaveDeal, MysqlSaveDeal
  <2>2. CASE UpdateStorageDealStatus
    <3>1. PICK k \in StoredDeals, st \in DealStates \cup {"Unknown"}, ps \in PieceStatuses \cup {""} :
            badger' = BadgerUpdateDealStatus(k, st, ps) /\ mysql' = MysqlUpdateDealStatus(k, st, ps)
      BY <2>2, Zenon DEF UpdateStorageDealStatus
    <3>2. CASE k \in DOMAIN b
      <4>1. PICK d : d = Updated(b[k], st, ps)
        OBVIOUS
      <4>2. IsStoredDeal(d) /\ d.ProposalCid = k /\ fromStorageDeal(d) = Updated(m[k], st, ps)
        <5>1. IsStoredDeal(b[k]) /\ b[k].ProposalCid = k /\ m[k] = fromStorageDeal(b[k])
          BY <1>0, <3>2 DEF DealPairs
        <5>2. /\ IsStoredDeal(Updated(b[k], st, ps)) /\ Updated(b[k], st, ps).ProposalCid = b[k].ProposalCid
              /\ fromStorageDeal(Updated(b[k], st, ps)) = Updated(fromStorageDeal(b[k]), st, ps)
          <6> HIDE DEF b
          <6>. QED
            BY <5>1, UpdatedRow
        <5>. QED
          BY <4>1, <5>1, <5>2, Zenon
      <4>3. badger' = [badger EXCEPT !["deals"] = PutKey(b, k, d)]
        BY <3>1, <3>2, <4>1, <4>2 DEF BadgerUpdateDealStatus, BadgerSaveDeal
      <4>4. mysql' = [mysql EXCEPT !["deals"] = [m EXCEPT ![k] = fromStorageDeal(d)]]
        <5>1. k \in DOMAIN m
          BY <1>0, <3>2 DEF DealPairs
        <5>. QED
          BY <1>0, <3>1, <4>2, <5>1 DEF MysqlUpdateDealStatus, Tables
      <4>5. DealPairs(PutKey(b, k, d), [m EXCEPT ![k] = fromStorageDeal(d)])
        <5> HIDE DEF b, m
        <5>. QED
          BY <1>0, <3>2, <4>2 DEF DealPairs, PutKey
      <4>. QED
        BY <1>1, <4>3, <4>4, <4>5
    <3>3. CASE k \notin DOMAIN b
      <4>1. badger' = badger /\ mysql' = mysql
        BY <1>0, <3>1, <3>3 DEF BadgerUpdateDealStatus, MysqlUpdateDealStatus, DealPairs
      <4>. QED
        BY <4>1 DEF StoresInv
    <3>. QED
      BY <3>2, <3>3
  <2>. QED
    BY <2>1, <2>2
<1>2. "deals" \in Tables
  BY DEF Tables
<1>. QED
  BY <1>1, <1>2, TableStep DEF StoresInv, Tables

\* CID infos.
LEMMA CidsStep ==
  ASSUME StoresInv, AddPieceBlockLocations
  PROVE  StoresInv'
<1> DEFINE b == badger.cids
           m == mysql.cids
<1>0. CidPairs(b, m)
  BY DEF StoresInv
<1>1. PICK piece \in Pieces, some \in (SUBSET Payloads) \ {{}} : \E locs \in [some -> Locations] :
        badger' = BadgerAddPieceBlockLocations(piece, locs) /\ mysql' = MysqlAddPieceBlockLocations(piece, locs)
  BY Zenon DEF AddPieceBlockLocations
<1>2. PICK locs \in [some -> Locations] :
        badger' = BadgerAddPieceBlockLocations(piece, locs) /\ mysql' = MysqlAddPieceBlockLocations(piece, locs)
  BY <1>1
<1>3. PICK B : B = [c \in DOMAIN b \cup DOMAIN locs |->
                      (IF c \in DOMAIN b THEN b[c] ELSE {})
                      \cup (IF c \in DOMAIN locs THEN {[PieceCID |-> piece, loc |-> locs[c]]} ELSE {})]
  OBVIOUS
<1>4. PICK M : M = [k \in DOMAIN m \cup {<<piece, c>> : c \in DOMAIN locs} |->
                      IF k[1] = piece /\ k[2] \in DOMAIN locs THEN locs[k[2]] ELSE m[k]]
  OBVIOUS
<1>5. badger' = [badger EXCEPT !["cids"] = B] /\ mysql' = [mysql EXCEPT !["cids"] = M]
  BY <1>2, <1>3, <1>4 DEF BadgerAddPieceBlockLocations, MysqlAddPieceBlockLocations
<1>6. CidPairs(B, M)
  <2> HIDE DEF b, m
  <2>1. DOMAIN B = DOMAIN b \cup DOMAIN locs /\ DOMAIN M = DOMAIN m \cup {<<piece, c>> : c \in DOMAIN locs}
    BY <1>3, <1>4
  <2>2. DOMAIN B = {k[2] : k \in DOMAIN M}
    <3>1. \A c \in DOMAIN b : \E k \in DOMAIN M : k[2] = c
      BY <1>0, <2>1 DEF CidPairs
    <3>2. \A c \in DOMAIN locs : \E k \in DOMAIN M : k[2] = c
      <4>1. TAKE c \in DOMAIN locs
      <4>2. <<piece, c>> \in DOMAIN M /\ <<piece, c>>[2] = c
        BY <2>1
      <4>. QED
        BY <4>2
    <3>3. \A k \in DOMAIN M : k[2] \in DOMAIN B
      <4>1. TAKE k \in DOMAIN M
      <4>2. CASE k \in DOMAIN m
        BY <1>0, <2>1, <4>2 DEF CidPairs
      <4>3. ASSUME NEW c \in DOMAIN locs, k = <<piece, c>>
            PROVE  k[2] \in DOMAIN B
        BY <2>1, <4>3
      <4>. QED
        BY <2>1, <4>2, <4>3
    <3>. QED
      BY <2>1, <3>1, <3>2, <3>3
  <2>3. ASSUME NEW k \in DOMAIN M
        PROVE  [PieceCID |-> k[1], loc |-> M[k]] \in B[k[2]]
    <3>1. k[2] \in DOMAIN B
      BY <2>2
    <3>2. CASE k[1] = piece /\ k[2] \in DOMAIN locs
      BY <1>3, <1>4, <3>1, <3>2
    <3>3. CASE ~(k[1] = piece /\ k[2] \in DOMAIN locs)
      <4>1. k \in DOMAIN m
        BY <2>1, <3>3
      <4>2. M[k] = m[k]
        BY <1>4, <3>3
      <4>3. k[2] \in DOMAIN b /\ [PieceCID |-> k[1], loc |-> m[k]] \in b[k[2]]
        BY <1>0, <4>1 DEF CidPairs
      <4>. QED
        BY <1>3, <3>1, <4>2, <4>3
    <3>. QED
      BY <3>2, <3>3
  <2>. QED
    BY <2>2, <2>3 DEF CidPairs
<1>7. "cids" \in Tables
  BY DEF Tables
<1>. QED
  BY <1>5, <1>6, <1>7, TableStep DEF StoresInv, Tables

\* Asks of both kinds.
LEMMA AsksStep ==
  ASSUME StoresInv, SetAsk \/ StorageAskSetAsk \/ SetRetrievalAsk
  PROVE  StoresInv'
<1> DEFINE b == badger.asks
           m == mysql.asks
<1>0. AskPairs(b, m) /\ DOMAIN m = DOMAIN b
  BY DEF StoresInv, AskPairs
<1>1. ASSUME NEW a, a = [f \in {"Miner", "Price", "SeqNo", "Signature"} |-> a[f]], a.Signature \in {None, "sig"},
             badger' = BadgerSetAsk(a), mysql' = MysqlSetAsk(a)
      PROVE  StoresInv'
  <2>1. toStorageAsk(fromStorageAsk(a)) = Encoded(a)
    BY <1>1, AskBack
  <2>2. AskPairs(PutKey(b, a.Miner, Encoded(a)), PutKey(m, a.Miner, fromStorageAsk(a)))
    <3> HIDE DEF b, m
    <3>. QED
      BY <1>0, <2>1 DEF AskPairs, PutKey
  <2>3. /\ badger' = [badger EXCEPT !["asks"] = PutKey(b, a.Miner, Encoded(a))]
        /\ mysql' = [mysql EXCEPT !["asks"] = PutKey(m, a.Miner, fromStorageAsk(a))]
    BY <1>1 DEF BadgerSetAsk, MysqlSetAsk
  <2>4. "asks" \in Tables
    BY DEF Tables
  <2>. QED
    BY <2>2, <2>3, <2>4, TableStep DEF StoresInv, Tables
<1>2. CASE SetAsk
  <2>0. PICK x \in Miners : \E a \in SignedAsks(x) : badger' = BadgerSetAsk(a) /\ mysql' = MysqlSetAsk(a)
    BY <1>2 DEF SetAsk
  <2>1. PICK a \in SignedAsks(x) : badger' = BadgerSetAsk(a) /\ mysql' = MysqlSetAsk(a)
    BY <2>0
  <2>2. a = [f \in {"Miner", "Price", "SeqNo", "Signature"} |-> a[f]] /\ a.Signature \in {None, "sig"}
    BY DEF SignedAsks
  <2>. QED
    BY <1>1, <2>1, <2>2
<1>3. CASE StorageAskSetAsk
  <2>1. PICK x \in Miners, price \in 0..1 :
          /\ badger' = BadgerSetAsk(NewAsk(x, price, BadgerGetAsk(x)))
          /\ mysql' = MysqlSetAsk(NewAsk(x, price, MysqlGetAsk(x)))
    BY <1>3 DEF StorageAskSetAsk
  <2>2. BadgerGetAsk(x) = MysqlGetAsk(x)
    BY <1>0 DEF BadgerGetAsk, MysqlGetAsk, AskPairs, Taken
  <2>3. PICK a : a = NewAsk(x, price, BadgerGetAsk(x))
    OBVIOUS
  <2>4. a = [f \in {"Miner", "Price", "SeqNo", "Signature"} |-> a[f]] /\ a.Signature \in {None, "sig"}
    BY <2>3 DEF NewAsk
  <2>. QED
    BY <1>1, <2>1, <2>2, <2>3, <2>4
<1>4. CASE SetRetrievalAsk
  <2>1. PICK a : badger' = BadgerSetRetrievalAsk(a) /\ mysql' = MysqlSetRetrievalAsk(a)
    BY <1>4 DEF SetRetrievalAsk
  <2>2. PICK B : B = PutKey(badger.retrievalAsks, a.Miner, [a EXCEPT !.PricePerByte = BigColumn(@)])
    OBVIOUS
  <2>3. badger.retrievalAsks = mysql.retrievalAsks
    BY DEF StoresInv
  <2>4. badger' = [badger EXCEPT !["retrievalAsks"] = B] /\ mysql' = [mysql EXCEPT !["retrievalAsks"] = B]
    BY <2>1, <2>2, <2>3 DEF BadgerSetRetrievalAsk, MysqlSetRetrievalAsk
  <2>5. "retrievalAsks" \in Tables
    BY DEF Tables
  <2>. QED
    BY <2>4, <2>5, TableStep DEF StoresInv, Tables
<1>. QED
  BY <1>2, <1>3, <1>4

\* Funded addresses.
LEMMA FundsStep ==
  ASSUME StoresInv, SaveFundedAddressState
  PROVE  StoresInv'
<1> DEFINE b == badger.funds
           m == mysql.funds
<1>0. FundPairs(b, m)
  BY DEF StoresInv
<1>a. PICK a \in Addrs : \E s \in FundedAddressStates(a) :
        badger' = BadgerSaveFundedAddressState(s) /\ mysql' = MysqlSaveFundedAddressState(s)
  BY DEF SaveFundedAddressState
<1>1. PICK s \in FundedAddressStates(a) :
        badger' = BadgerSaveFundedAddressState(s) /\ mysql' = MysqlSaveFundedAddressState(s)
  BY <1>a
<1>2. toFundedAddressState(fromFundedAddressState(s)) = s
  BY FundBack
<1>3. FundPairs(PutKey(b, s.Addr, s), PutKey(m, s.Addr, fromFundedAddressState(s)))
  <2> HIDE DEF b, m
  <2>. QED
    BY <1>0, <1>2 DEF FundPairs, PutKey
<1>4. /\ badger' = [badger EXCEPT !["funds"] = PutKey(b, s.Addr, s)]
      /\ mysql' = [mysql EXCEPT !["funds"] = PutKey(m, s.Addr, fromFundedAddressState(s))]
  BY <1>1 DEF BadgerSaveFundedAddressState, MysqlSaveFundedAddressState
<1>5. "funds" \in Tables
  BY DEF Tables
<1>. QED
  BY <1>3, <1>4, <1>5, TableStep DEF StoresInv, Tables

\* Retrieval deals.
LEMMA RetrievalsStep ==
  ASSUME StoresInv, SaveRetrievalDeal
  PROVE  StoresInv'
<1> DEFINE b == badger.retrievals
           m == mysql.retrievals
<1>0. RetrievalPairs(b, m)
  BY DEF StoresInv
<1>1. PICK d \in RetrievalDeals : badger' = BadgerSaveRetrievalDeal(d) /\ mysql' = MysqlSaveRetrievalDeal(d)
  BY DEF SaveRetrievalDeal
<1>2. RetrievalPairs(PutKey(b, d.ID, d), PutKey(m, d.ID, fromProviderDealState(d)))
  <2> HIDE DEF b, m
  <2>. QED
    BY <1>0 DEF RetrievalPairs, PutKey
<1>3. /\ badger' = [badger EXCEPT !["retrievals"] = PutKey(b, d.ID, d)]
      /\ mysql' = [mysql EXCEPT !["retrievals"] = PutKey(m, d.ID, fromProviderDealState(d))]
  BY <1>1 DEF BadgerSaveRetrievalDeal, MysqlSaveRetrievalDeal
<1>4. "retrievals" \in Tables
  BY DEF Tables
<1>. QED
  BY <1>2, <1>3, <1>4, TableStep DEF StoresInv, Tables

\* A channel that is saved.
LEMMA ChannelPut ==
  ASSUME NEW b, NEW m, ChannelPairs(b, m), NEW id, NEW ci \in ChannelInfos(id)
  PROVE  ChannelPairs(PutKey(b, id, marshallChannelInfo(ci)), PutKey(m, id, fromChannelInfo(ci)))
<1>1. PICK B : B = PutKey(b, id, marshallChannelInfo(ci))
  OBVIOUS
<1>2. PICK M : M = PutKey(m, id, fromChannelInfo(ci))
  OBVIOUS
<1>3. PICK x : x = fromChannelInfo(ci)
  OBVIOUS
<1>4. x.is_deleted = FALSE /\ x = [info |-> x.info, is_deleted |-> x.is_deleted]
  BY <1>3, ChannelInfoBack, Zenon
<1>5. /\ DOMAIN B = DOMAIN b \cup {id} /\ B[id] = marshallChannelInfo(ci)
      /\ \A k \in DOMAIN b : k # id => B[k] = b[k]
  BY <1>1 DEF PutKey
<1>6. /\ DOMAIN M = DOMAIN m \cup {id} /\ M[id] = x
      /\ \A k \in DOMAIN m : k # id => M[k] = m[k]
  BY <1>2, <1>3 DEF PutKey
<1>7. DOMAIN B = {k \in DOMAIN M : ~M[k].is_deleted}
  BY <1>4, <1>5, <1>6 DEF ChannelPairs
<1>8. \A k \in DOMAIN M : M[k] = [info |-> M[k].info, is_deleted |-> M[k].is_deleted]
  BY <1>4, <1>6, Zenon DEF ChannelPairs
<1>9. ASSUME NEW k \in DOMAIN B
      PROVE  \E c \in ChannelInfos(k) : B[k] = marshallChannelInfo(c) /\ M[k].info = fromChannelInfo(c).info
  <2>1. CASE k = id
    BY <1>3, <1>5, <1>6, <2>1, Zenon
  <2>2. CASE k # id
    <3>1. k \in DOMAIN b /\ k \in DOMAIN m
      BY <1>5, <2>2 DEF ChannelPairs
    <3>2. B[k] = b[k] /\ M[k] = m[k]
      BY <1>5, <1>6, <2>2, <3>1
    <3>. QED
      BY <3>1, <3>2, Zenon DEF ChannelPairs
  <2>. QED
    BY <2>1, <2>2
<1>10. ChannelPairs(B, M)
  <2>1. \A k \in DOMAIN M : M[k].is_deleted \in BOOLEAN
    BY <1>4, <1>6 DEF ChannelPairs
  <2>. QED
    BY <1>7, <1>8, <1>9, <2>1, Zenon DEF ChannelPairs
<1>. QED
  BY <1>1, <1>2, <1>10

\* A removed channel: badger forgets it, MySQL marks its row.
LEMMA ChannelDrop ==
  ASSUME NEW b, NEW m, ChannelPairs(b, m), NEW id \in DOMAIN m
  PROVE  ChannelPairs(DropKey(b, id), [m EXCEPT ![id].is_deleted = TRUE])
<1>1. PICK B : B = DropKey(b, id)
  OBVIOUS
<1>2. PICK M : M = [m EXCEPT ![id].is_deleted = TRUE]
  OBVIOUS
<1>3. DOMAIN B = DOMAIN b \ {id} /\ \A k \in DOMAIN B : B[k] = b[k]
  BY <1>1 DEF DropKey
<1>4. /\ DOMAIN M = DOMAIN m /\ M[id] = [m[id] EXCEPT !.is_deleted = TRUE]
      /\ \A k \in DOMAIN m : k # id => M[k] = m[k]
  BY <1>2
<1>5. M[id].is_deleted = TRUE /\ M[id] = [info |-> M[id].info, is_deleted |-> M[id].is_deleted]
  <2>1. m[id] = [info |-> m[id].info, is_deleted |-> m[id].is_deleted]
    BY DEF ChannelPairs
  <2>. QED
    BY <1>4, <2>1
<1>6. DOMAIN B = {k \in DOMAIN M : ~M[k].is_deleted}
  BY <1>3, <1>4, <1>5 DEF ChannelPairs
<1>7. \A k \in DOMAIN M : M[k] = [info |-> M[k].info, is_deleted |-> M[k].is_deleted]
  BY <1>4, <1>5, Zenon DEF ChannelPairs
<1>8. ASSUME NEW k \in DOMAIN B
      PROVE  \E c \in ChannelInfos(k) : B[k] = marshallChannelInfo(c) /\ M[k].info = fromChannelInfo(c).info
  <2>1. k # id /\ k \in DOMAIN b /\ k \in DOMAIN m
    BY <1>3 DEF ChannelPairs
  <2>2. B[k] = b[k] /\ M[k] = m[k]
    BY <1>3, <1>4, <2>1
  <2>. QED
    BY <2>1, <2>2, Zenon DEF ChannelPairs
<1>9. ChannelPairs(B, M)
  <2>1. \A k \in DOMAIN M : M[k].is_deleted \in BOOLEAN
    BY <1>4, <1>5 DEF ChannelPairs
  <2>. QED
    BY <1>6, <1>7, <1>8, <2>1, Zenon DEF ChannelPairs
<1>. QED
  BY <1>1, <1>2, <1>9

\* Writing the messages of both stores alike.
LEMMA MessagesStep ==
  ASSUME StoresInv, NEW X, badger' = [badger EXCEPT !["msgs"] = X], mysql' = [mysql EXCEPT !["msgs"] = X]
  PROVE  StoresInv'
<1>1. "msgs" \in Tables
  BY DEF Tables
<1>. QED
  BY <1>1, TableStep DEF StoresInv, Tables

\* Channels and their messages.
LEMMA ChannelsStep ==
  ASSUME StoresInv, \/ SaveChannel \/ CreateChannel \/ SaveMessage \/ SaveMessageResult \/ RemoveChannel
  PROVE  StoresInv'
<1> DEFINE b == badger.channels
           m == mysql.channels
<1>0. ChannelPairs(b, m) /\ badger.msgs = mysql.msgs /\ DOMAIN badger = Tables /\ DOMAIN mysql = Tables
  BY DEF StoresInv
<1>a. "channels" \in Tables /\ "msgs" \in Tables
  BY DEF Tables
<1>1. ASSUME NEW B, NEW M, ChannelPairs(B, M),
             badger' = [badger EXCEPT !["channels"] = B], mysql' = [mysql EXCEPT !["channels"] = M]
      PROVE  StoresInv'
  BY <1>1, <1>a, TableStep DEF StoresInv, Tables
<1>2. CASE SaveChannel
  <2>1. PICK id : \E ci \in ChannelInfos(id) : badger' = BadgerSaveChannel(ci) /\ mysql' = MysqlSaveChannel(ci)
    BY <1>2, Zenon DEF SaveChannel
  <2>2. PICK ci \in ChannelInfos(id) : badger' = BadgerSaveChannel(ci) /\ mysql' = MysqlSaveChannel(ci)
    BY <2>1
  <2>3. ci.ChannelID = id
    BY ChannelInfoFields
  <2>4. ChannelPairs(PutKey(b, id, marshallChannelInfo(ci)), PutKey(m, id, fromChannelInfo(ci)))
    <3> HIDE DEF b, m
    <3>. QED
      BY <1>0, ChannelPut
  <2>. QED
    BY <1>1, <2>2, <2>3, <2>4 DEF BadgerSaveChannel, MysqlSaveChannel
<1>3. CASE CreateChannel
  <2>1. PICK to \in Addrs :
          LET id == Cardinality(Known) + 1
              ci == [ChannelID |-> id, Direction |-> "out", Target |-> to, Channel |-> None,
                     CreateMsg |-> "create", AddFundsMsg |-> None, Settling |-> FALSE]
              msg == [MsgCid |-> "create", ChannelID |-> id, Received |-> FALSE, Err |-> ""]
          IN badger' = BadgerCreateChannel(ci, msg) /\ mysql' = MysqlCreateChannel(ci, msg)
    BY <1>3, Zenon DEF CreateChannel
  <2>2. PICK id : id = Cardinality(Known) + 1
    OBVIOUS
  <2>3. PICK ci : ci = [ChannelID |-> id, Direction |-> "out", Target |-> to, Channel |-> None,
                        CreateMsg |-> "create", AddFundsMsg |-> None, Settling |-> FALSE]
    OBVIOUS
  <2>4. PICK msg : msg = [MsgCid |-> "create", ChannelID |-> id, Received |-> FALSE, Err |-> ""]
    OBVIOUS
  <2>5. badger' = BadgerCreateChannel(ci, msg) /\ mysql' = MysqlCreateChannel(ci, msg)
    BY <2>1, <2>2, <2>3, <2>4, Zenon
  <2>6. ci \in ChannelInfos(id) /\ ci.ChannelID = id
    BY <2>3 DEF ChannelInfos
  <2>7. PICK B : B = PutKey(b, id, marshallChannelInfo(ci))
    OBVIOUS
  <2>8. PICK M : M = PutKey(m, id, fromChannelInfo(ci))
    OBVIOUS
  <2>9. ChannelPairs(B, M)
    <3> HIDE DEF b, m
    <3>. QED
      BY <1>0, <2>6, <2>7, <2>8, ChannelPut
  <2>10. PICK bs : bs = [badger EXCEPT !["channels"] = B]
    OBVIOUS
  <2>11. PICK ms : ms = [mysql EXCEPT !["channels"] = M]
    OBVIOUS
  <2>12. badger' = [bs EXCEPT !["msgs"] = PutKey(bs["msgs"], msg.MsgCid, msg)]
    BY <2>5, <2>6, <2>7, <2>10 DEF BadgerCreateChannel, BadgerSaveChannel, SavedMessage
  <2>13. mysql' = [ms EXCEPT !["msgs"] = PutKey(ms["msgs"], msg.MsgCid, msg)]
    BY <2>5, <2>6, <2>8, <2>11 DEF MysqlCreateChannel, MysqlSaveChannel, SavedMessage
  <2>14. /\ DOMAIN bs = Tables /\ bs["channels"] = B
         /\ \A u \in Tables : u # "channels" => bs[u] = badger[u]
    BY <1>0, <1>a, <2>10, TableSet
  <2>15. /\ DOMAIN ms = Tables /\ ms["channels"] = M
         /\ \A u \in Tables : u # "channels" => ms[u] = mysql[u]
    BY <1>0, <1>a, <2>11, TableSet
  <2>16. /\ DOMAIN badger' = Tables /\ badger'["msgs"] = PutKey(bs["msgs"], msg.MsgCid, msg)
         /\ \A u \in Tables : u # "msgs" => badger'[u] = bs[u]
    BY <1>a, <2>12, <2>14, TableSet
  <2>17. /\ DOMAIN mysql' = Tables /\ mysql'["msgs"] = PutKey(ms["msgs"], msg.MsgCid, msg)
         /\ \A u \in Tables : u # "msgs" => mysql'[u] = ms[u]
    BY <1>a, <2>13, <2>15, TableSet
  <2>18. badger'.msgs = mysql'.msgs
    BY <1>0, <1>a, <2>14, <2>15, <2>16, <2>17
  <2>19. /\ badger'.channels = B /\ mysql'.channels = M
         /\ \A u \in Tables \ {"msgs", "channels"} : badger'[u] = badger[u] /\ mysql'[u] = mysql[u]
    BY <1>a, <2>14, <2>15, <2>16, <2>17
  <2>. QED
    BY <2>9, <2>16, <2>17, <2>18, <2>19 DEF StoresInv, Tables
<1>4. CASE SaveMessage
  <2>1. PICK id : LET msg == [MsgCid |-> "add", ChannelID |-> id, Received |-> FALSE, Err |-> ""]
                  IN  badger' = SavedMessage(badger, msg) /\ mysql' = SavedMessage(mysql, msg)
    BY <1>4, Zenon DEF SaveMessage
  <2>2. PICK msg : msg = [MsgCid |-> "add", ChannelID |-> id, Received |-> FALSE, Err |-> ""]
    OBVIOUS
  <2>3. PICK X : X = PutKey(badger.msgs, msg.MsgCid, msg)
    OBVIOUS
  <2>4. badger' = [badger EXCEPT !["msgs"] = X] /\ mysql' = [mysql EXCEPT !["msgs"] = X]
    BY <1>0, <2>1, <2>2, <2>3 DEF SavedMessage
  <2>. QED
    BY <2>4, MessagesStep
<1>5. CASE SaveMessageResult
  <2>1. PICK c \in {"create", "add"}, err \in {"", "failed"} :
          badger' = SavedMessageResult(badger, c, err) /\ mysql' = SavedMessageResult(mysql, c, err)
    BY <1>5 DEF SaveMessageResult
  <2>2. CASE c \notin DOMAIN badger.msgs
    <3>1. badger' = badger /\ mysql' = mysql
      BY <1>0, <2>1, <2>2 DEF SavedMessageResult
    <3>. QED
      BY <3>1 DEF StoresInv
  <2>3. CASE c \in DOMAIN badger.msgs
    <3>1. PICK X : X = [badger.msgs EXCEPT ![c].Received = TRUE, ![c].Err = IF err = "" THEN @ ELSE err]
      OBVIOUS
    <3>2. badger' = [badger EXCEPT !["msgs"] = X] /\ mysql' = [mysql EXCEPT !["msgs"] = X]
      BY <1>0, <1>a, <2>1, <2>3, <3>1 DEF SavedMessageResult
    <3>. QED
      BY <3>2, MessagesStep
  <2>. QED
    BY <2>2, <2>3
<1>6. CASE RemoveChannel
  <2>1. PICK id \in Known : badger' = BadgerRemoveChannel(id) /\ mysql' = MysqlRemoveChannel(id)
    BY <1>6 DEF RemoveChannel
  <2>2. id \in DOMAIN m
    BY DEF Known
  <2>3. CASE m[id].is_deleted
    <3>1. mysql' = mysql
      BY <2>1, <2>3 DEF MysqlRemoveChannel
    <3>2. badger' = [badger EXCEPT !["channels"] = DropKey(b, id)]
      BY <2>1 DEF BadgerRemoveChannel
    <3>3. ChannelPairs(DropKey(b, id), m)
      <4> HIDE DEF b, m
      <4>. QED
        BY <1>0, <2>3 DEF ChannelPairs, DropKey
    <3>4. /\ DOMAIN badger' = Tables /\ badger'["channels"] = DropKey(b, id)
          /\ \A u \in Tables : u # "channels" => badger'[u] = badger[u]
      BY <1>0, <1>a, <3>2, TableSet
    <3>. QED
      BY <3>1, <3>3, <3>4 DEF StoresInv, Tables
  <2>4. CASE ~m[id].is_deleted
    <3>1. mysql' = [mysql EXCEPT !["channels"] = [m EXCEPT ![id].is_deleted = TRUE]]
      BY <1>0, <1>a, <2>1, <2>4 DEF MysqlRemoveChannel
    <3>2. badger' = [badger EXCEPT !["channels"] = DropKey(b, id)]
      BY <2>1 DEF BadgerRemoveChannel
    <3>3. ChannelPairs(DropKey(b, id), [m EXCEPT ![id].is_deleted = TRUE])
      <4> HIDE DEF b, m
      <4>. QED
        BY <1>0, <2>2, ChannelDrop
    <3>. QED
      BY <1>1, <3>1, <3>2, <3>3
  <2>. QED
    BY <2>3, <2>4
<1>. QED
  BY <1>2, <1>3, <1>4, <1>5, <1>6

\* Every operation keeps record and row together.
LEMMA StoresNextInv == StoresInv /\ [StoresNext]_storeVars => StoresInv'
<1>1. SUFFICES ASSUME StoresInv, [StoresNext]_storeVars PROVE StoresInv'
  OBVIOUS
<1>2. CASE StoresNext
  BY <1>1, <1>2, DealsStep, CidsStep, AsksStep, FundsStep, RetrievalsStep, ChannelsStep, Zenon DEF StoresNext
<1>3. CASE UNCHANGED storeVars
  BY <1>1, <1>3 DEF storeVars, StoresInv
<1>. QED
  BY <1>1, <1>2, <1>3

-----------------------------------------------------------------------------
(* The answers.                                                              *)

\* MySQL's rows are those of badger's deals, and a row has the fields by which
\* deals are found.
LEMMA DealAnswers ==
  ASSUME StoresInv
  PROVE  /\ DealRows = {fromStorageDeal(d) : d \in travelDeals}
         /\ \A d \in travelDeals :
              LET r == fromStorageDeal(d)
              IN  /\ r.ProposalCid = d.ProposalCid /\ r.Provider = d.Provider /\ r.PieceCID = d.PieceCID
                  /\ r.Root = d.Root /\ r.Client = d.Client /\ r.State = d.State
                  /\ r.PieceStatus = d.PieceStatus /\ r.DealID = d.DealID
                  /\ toStorageDeal(r) = AsString(d)
<1>1. DealPairs(badger.deals, mysql.deals)
  BY DEF StoresInv
<1>2. \A d \in travelDeals : IsStoredDeal(d)
  BY <1>1 DEF DealPairs, travelDeals, Range
<1>3. DealRows = {fromStorageDeal(d) : d \in travelDeals}
  BY <1>1 DEF DealPairs, travelDeals, DealRows, Range
<1>. QED
  BY <1>2, <1>3, DealRowGives, Zenon

\* So the rows of some deals give back these deals.
LEMMA RowsSame ==
  ASSUME StoresInv, NEW A \in SUBSET travelDeals, NEW R, R = {fromStorageDeal(d) : d \in A}
  PROVE  SameDeals(A, R)
<1>1. \A d \in A : toStorageDeal(fromStorageDeal(d)) = AsString(d)
  BY DealAnswers
<1>2. FromDbDeals(R) = {AsString(d) : d \in A}
  BY <1>1 DEF FromDbDeals
<1>. QED
  BY <1>2 DEF SameDeals

\* Every deal of a miner is on one of the pages.
LEMMA PagesCover ==
  ASSUME StoresInv, NEW x, NEW size \in 1..2
  PROVE  UNION {BadgerGetDeals(x, i, size) : i \in 0..Cardinality(StoredDeals)} = {d \in travelDeals : d.Provider = x}
<1>1. PICK all : all = {d \in travelDeals : d.Provider = x}
  OBVIOUS
<1>2. Cardinality(StoredDeals) \in Nat
  BY DealStoresAssumption, FS_CardinalityType
<1>3. ASSUME NEW d \in all
      PROVE  LET before == Cardinality({e \in all : e.ProposalCid < d.ProposalCid})
             IN  before \in 0..Cardinality(StoredDeals)
  <2>1. PICK T : T = {e \in all : e.ProposalCid < d.ProposalCid}
    OBVIOUS
  <2>2. PICK f : f = [e \in T |-> e.ProposalCid]
    OBVIOUS
  <2>3. DealPairs(badger.deals, mysql.deals)
    BY DEF StoresInv
  <2>4. \A e \in T : \E k \in StoredDeals : e.ProposalCid = k /\ e = badger.deals[k]
    BY <1>1, <2>1, <2>3 DEF DealPairs, travelDeals, Range
  <2>5. f \in Injection(T, StoredDeals)
    BY <2>2, <2>4 DEF Injection, IsInjective
  <2>6. IsFiniteSet(T) /\ Cardinality(T) <= Cardinality(StoredDeals)
    BY <2>5, DealStoresAssumption, FS_Injection
  <2>7. Cardinality(T) \in Nat
    BY <2>6, FS_CardinalityType
  <2>. QED
    BY <1>2, <2>1, <2>6, <2>7
<1>4. \A i : BadgerGetDeals(x, i, size) =
               {d \in all : LET before == Cardinality({e \in all : e.ProposalCid < d.ProposalCid})
                            IN  i * size <= before /\ before < i * size + size}
  BY <1>1 DEF BadgerGetDeals, PageOf
<1>5. ASSUME NEW d \in all
      PROVE  \E i \in 0..Cardinality(StoredDeals) : d \in BadgerGetDeals(x, i, size)
  <2>1. PICK n : n = Cardinality({e \in all : e.ProposalCid < d.ProposalCid})
    OBVIOUS
  <2>2. n \in 0..Cardinality(StoredDeals)
    BY <1>3, <2>1
  <2>3. PICK i \in 0..Cardinality(StoredDeals) : i * size <= n /\ n < i * size + size
    <3>1. CASE size = 1
      BY <1>2, <2>2, <3>1
    <3>2. CASE size = 2
      <4>1. PICK h : h = n \div 2
        OBVIOUS
      <4>2. h \in 0..Cardinality(StoredDeals) /\ h * 2 <= n /\ n < h * 2 + 2
        BY <1>2, <2>2, <4>1
      <4>. QED
        BY <3>2, <4>2
    <3>. QED
      BY <3>1, <3>2
  <2>. QED
    BY <1>4, <2>1, <2>3
<1>6. \A i : BadgerGetDeals(x, i, size) \subseteq all
  BY <1>4
<1>7. UNION {BadgerGetDeals(x, i, size) : i \in 0..Cardinality(StoredDeals)} = all
  BY <1>5, <1>6
<1>. QED
  BY <1>1, <1>7

\* Both stores find the same deals.
LEMMA DealsAlike == StoresInv => DealsAgree
<1> SUFFICES ASSUME StoresInv PROVE DealsAgree
  OBVIOUS
<1>a. DealRows = {fromStorageDeal(d) : d \in travelDeals}
  BY DealAnswers
<1>1. ASSUME NEW k
      PROVE  SameDeals(BadgerGetDeal(k), MysqlGetDeal(k))
  <2>1. PICK A : A = BadgerGetDeal(k)
    OBVIOUS
  <2>2. A \in SUBSET travelDeals
    BY <2>1 DEF BadgerGetDeal
  <2>3. MysqlGetDeal(k) = {fromStorageDeal(d) : d \in A}
    BY <1>a, <2>1, DealAnswers DEF BadgerGetDeal, MysqlGetDeal
  <2>. QED
    BY <2>1, <2>2, <2>3, RowsSame
<1>2. ASSUME NEW x, NEW size \in 1..2
      PROVE  SameDeals(UNION {BadgerGetDeals(x, i, size) : i \in 0..Cardinality(StoredDeals)},
                       MysqlGetDeals(x, 0, size))
  <2>1. PICK A : A = {d \in travelDeals : d.Provider = x}
    OBVIOUS
  <2>2. UNION {BadgerGetDeals(x, i, size) : i \in 0..Cardinality(StoredDeals)} = A
    BY <2>1, PagesCover
  <2>3. MysqlGetDeals(x, 0, size) = {fromStorageDeal(d) : d \in A}
    BY <1>a, <2>1, DealAnswers DEF MysqlGetDeals
  <2>4. A \in SUBSET travelDeals
    BY <2>1
  <2>. QED
    BY <2>2, <2>3, <2>4, RowsSame
<1>3. ASSUME NEW p, NEW sts
      PROVE  SameDeals(BadgerGetDealsByPieceCidAndStatus(p, sts), MysqlGetDealsByPieceCidAndStatus(p, sts))
  <2>1. PICK A : A = BadgerGetDealsByPieceCidAndStatus(p, sts)
    OBVIOUS
  <2>2. A \in SUBSET travelDeals
    BY <2>1 DEF BadgerGetDealsByPieceCidAndStatus
  <2>3. MysqlGetDealsByPieceCidAndStatus(p, sts) = {fromStorageDeal(d) : d \in A}
    BY <1>a, <2>1, DealAnswers DEF BadgerGetDealsByPieceCidAndStatus, MysqlGetDealsByPieceCidAndStatus
  <2>. QED
    BY <2>1, <2>2, <2>3, RowsSame
<1>4. ASSUME NEW x, NEW c, NEW pss, pss # {}
      PROVE  SameDeals(BadgerGetDealsByDataCidAndDealStatus(x, c, pss), MysqlGetDealsByDataCidAndDealStatus(x, c, pss))
  <2>1. PICK A : A = BadgerGetDealsByDataCidAndDealStatus(x, c, pss)
    OBVIOUS
  <2>2. A \in SUBSET travelDeals
    BY <2>1 DEF BadgerGetDealsByDataCidAndDealStatus
  <2>3. MysqlGetDealsByDataCidAndDealStatus(x, c, pss) = {fromStorageDeal(d) : d \in A}
    BY <1>a, <1>4, <2>1, DealAnswers DEF BadgerGetDealsByDataCidAndDealStatus, MysqlGetDealsByDataCidAndDealStatus
  <2>. QED
    BY <2>1, <2>2, <2>3, RowsSame
<1>5. ASSUME NEW x, NEW sts, sts # {}
      PROVE  SameDeals(BadgerGetDealByAddrAndStatus(x, sts), MysqlGetDealByAddrAndStatus(x, sts))
  <2>1. PICK A : A = BadgerGetDealByAddrAndStatus(x, sts)
    OBVIOUS
  <2>2. A \in SUBSET travelDeals
    BY <2>1 DEF BadgerGetDealByAddrAndStatus
  <2>3. MysqlGetDealByAddrAndStatus(x, sts) = {fromStorageDeal(d) : d \in A}
    BY <1>a, <1>5, <2>1, DealAnswers DEF BadgerGetDealByAddrAndStatus, MysqlGetDealByAddrAndStatus
  <2>. QED
    BY <2>1, <2>2, <2>3, RowsSame
<1>6. ASSUME NEW x
      PROVE  SameDeals(BadgerListDealByAddr(x), MysqlListDealByAddr(x))
  <2>1. PICK A : A = BadgerListDealByAddr(x)
    OBVIOUS
  <2>2. A \in SUBSET travelDeals
    BY <2>1 DEF BadgerListDealByAddr
  <2>3. MysqlListDealByAddr(x) = {fromStorageDeal(d) : d \in A}
    BY <1>a, <2>1, DealAnswers DEF BadgerListDealByAddr, MysqlListDealByAddr
  <2>. QED
    BY <2>1, <2>2, <2>3, RowsSame
<1>7. SameDeals(BadgerListDeal, Range(mysql.deals))
  <2>1. travelDeals \in SUBSET travelDeals
    OBVIOUS
  <2>. QED
    BY <1>a, <2>1, RowsSame DEF BadgerListDeal, DealRows
<1>8. ASSUME NEW p
      PROVE  /\ {PieceDeal(d) : d \in FromDbDeals(MysqlGetPieceInfo(p))} = BadgerGetPieceInfo(p)
             /\ BadgerGetPieceSize(p) = MysqlGetPieceSize(p)
  <2>1. PICK A : A = {e \in travelDeals : e.PieceCID = p}
    OBVIOUS
  <2>2. MysqlGetPieceInfo(p) = {fromStorageDeal(d) : d \in A}
    BY <1>a, <2>1, DealAnswers DEF MysqlGetPieceInfo
  <2>3. FromDbDeals(MysqlGetPieceInfo(p)) = {AsString(d) : d \in A}
    BY <2>1, <2>2, DealAnswers DEF FromDbDeals
  <2>4. \A d \in A : AsString(d).DealID = d.DealID
    <3>1. TAKE d \in A
    <3>2. IsStoredDeal(d)
      BY <2>1 DEF StoresInv, DealPairs, travelDeals, Range
    <3>. QED
      BY <3>2 DEF AsString, IsStoredDeal, DealFields
  <2>5. {PieceDeal(d) : d \in FromDbDeals(MysqlGetPieceInfo(p))} = BadgerGetPieceInfo(p)
    BY <2>1, <2>3, <2>4 DEF PieceDeal, BadgerGetPieceInfo
  <2>6. BadgerGetPieceSize(p) = MysqlGetPieceSize(p)
    BY <1>a, DealAnswers DEF BadgerGetPieceSize, MysqlGetPieceSize
  <2>. QED
    BY <2>5, <2>6
<1>9. BadgerListPieceInfoKeys = MysqlListPieceInfoKeys
  BY <1>a, DealAnswers DEF BadgerListPieceInfoKeys, MysqlListPieceInfoKeys
<1>10. ASSUME NEW x, NEW id
      PROVE  SameDeals(BadgerGetDealByDealID(x, id), MysqlGetDealByDealID(x, id))
  <2>1. PICK A : A = BadgerGetDealByDealID(x, id)
    OBVIOUS
  <2>2. A \in SUBSET travelDeals
    BY <2>1 DEF BadgerGetDealByDealID
  <2>3. MysqlGetDealByDealID(x, id) = {fromStorageDeal(d) : d \in A}
    BY <1>a, <2>1, DealAnswers DEF BadgerGetDealByDealID, MysqlGetDealByDealID
  <2>. QED
    BY <2>1, <2>2, <2>3, RowsSame
<1>11. ASSUME NEW x, NEW ps
      PROVE  SameDeals(BadgerGetDealsByPieceStatus(x, ps), MysqlGetDealsByPieceStatus(x, ps))
  <2>1. PICK A : A = BadgerGetDealsByPieceStatus(x, ps)
    OBVIOUS
  <2>2. A \in SUBSET travelDeals
    BY <2>1 DEF BadgerGetDealsByPieceStatus
  <2>3. MysqlGetDealsByPieceStatus(x, ps) = {fromStorageDeal(d) : d \in A}
    BY <1>a, <2>1, DealAnswers DEF BadgerGetDealsByPieceStatus, MysqlGetDealsByPieceStatus
  <2>. QED
    BY <2>1, <2>2, <2>3, RowsSame
<1>12. \A x \in SomeMiner, c \in Payloads, pss \in (SUBSET PieceStatuses) \ {{}} :
          SameDeals(BadgerGetDealsByDataCidAndDealStatus(x, c, pss),
                    MysqlGetDealsByDataCidAndDealStatus(x, c, pss))
  BY <1>4
<1>13. \A x \in SomeMiner, sts \in (SUBSET DealStates) \ {{}} :
          SameDeals(BadgerGetDealByAddrAndStatus(x, sts), MysqlGetDealByAddrAndStatus(x, sts))
  BY <1>5
<1>. QED
  BY <1>1, <1>2, <1>3, <1>6, <1>7, <1>8, <1>9, <1>10, <1>11, <1>12, <1>13, Zenon DEF DealsAgree

\* Both stores find the payloads, and MySQL a location that badger has.
LEMMA CidInfosAlike == StoresInv => CidInfosAgree
<1> SUFFICES ASSUME StoresInv PROVE CidInfosAgree
  OBVIOUS
<1>1. CidPairs(badger.cids, mysql.cids)
  BY DEF StoresInv
<1>2. BadgerListCidInfoKeys = MysqlListCidInfoKeys
  BY <1>1 DEF CidPairs, BadgerListCidInfoKeys, MysqlListCidInfoKeys
<1>3. ASSUME NEW c \in DOMAIN badger.cids
      PROVE  MysqlGetCIDInfo(c) \subseteq badger.cids[c]
  <2>1. PICK rows : rows = {k \in DOMAIN mysql.cids : k[2] = c}
    OBVIOUS
  <2>2. rows # {}
    BY <1>1, <2>1 DEF CidPairs
  <2>3. MysqlGetCIDInfo(c) = {[PieceCID |-> k[1], loc |-> mysql.cids[k]] : k \in rows}
    BY <2>1, <2>2 DEF MysqlGetCIDInfo
  <2>. QED
    BY <1>1, <2>1, <2>3 DEF CidPairs
<1>. QED
  BY <1>2, <1>3 DEF CidInfosAgree, BadgerListCidInfoKeys, BadgerGetCIDInfo

\* Both stores give the same asks and funded addresses.
LEMMA AsksAlike == StoresInv => AsksAndFundsAgree
<1> SUFFICES ASSUME StoresInv PROVE AsksAndFundsAgree
  OBVIOUS
<1>1. /\ AskPairs(badger.asks, mysql.asks) /\ FundPairs(badger.funds, mysql.funds)
      /\ badger.retrievalAsks = mysql.retrievalAsks
  BY DEF StoresInv
<1>2. BadgerListAsk = MysqlListAsk
  BY <1>1 DEF AskPairs, BadgerListAsk, MysqlListAsk, Range
<1>3. BadgerListRetrievalAsk = MysqlListRetrievalAsk
  BY <1>1 DEF BadgerListRetrievalAsk, MysqlListRetrievalAsk
<1>4. BadgerListFundedAddressState = MysqlListFundedAddressState
  BY <1>1 DEF FundPairs, BadgerListFundedAddressState, MysqlListFundedAddressState, Range
<1>5. \A x \in Miners : BadgerGetAsk(x) = MysqlGetAsk(x)
  BY <1>1 DEF AskPairs, BadgerGetAsk, MysqlGetAsk, Taken
<1>6. \A x \in Miners : BadgerGetRetrievalAsk(x) = MysqlGetRetrievalAsk(x)
  BY <1>1 DEF BadgerGetRetrievalAsk, MysqlGetRetrievalAsk
<1>7. \A a \in Addrs : BadgerGetFundedAddressState(a) = MysqlGetFundedAddressState(a)
  BY <1>1 DEF FundPairs, BadgerGetFundedAddressState, MysqlGetFundedAddressState, Taken
<1>. QED
  BY <1>2, <1>3, <1>4, <1>5, <1>6, <1>7 DEF AsksAndFundsAgree

\* The channel of a retrieval is not taken for none.
LEMMA ChannelIdDiffers ==
  ASSUME NEW ch \in [Initiator : {"peer"}, ID : 1..2]
  PROVE  ch # None /\ ch # [Initiator |-> "", ID |-> 0]
<1>1. ch.Initiator = "peer" /\ ch.ID \in Nat /\ ch = [Initiator |-> ch.Initiator, ID |-> ch.ID]
  OBVIOUS
<1>2. ch \in [Initiator : {"", "peer"}, ID : Nat]
  BY <1>1
<1>3. ch # None
  BY <1>2, DealStoresAssumption
<1>4. [Initiator |-> "", ID |-> 0].Initiator = ""
  OBVIOUS
<1>. QED
  BY <1>1, <1>3, <1>4

\* Both stores give the same retrieval deals.
LEMMA RetrievalsAlike == StoresInv => RetrievalDealsAgree
<1> SUFFICES ASSUME StoresInv PROVE RetrievalDealsAgree
  OBVIOUS
<1> DEFINE b == badger.retrievals
           m == mysql.retrievals
<1>1. RetrievalPairs(b, m)
  BY DEF StoresInv
<1>2. ASSUME NEW k \in DOMAIN b
      PROVE  /\ toProviderDealState(m[k]) = b[k] /\ m[k].ID = k /\ b[k].ID = k /\ k \in 1..2
             /\ \A ch \in [Initiator : {"peer"}, ID : 1..2] : m[k].ChannelID = ch <=> b[k].ChannelID = ch
  <2>1. b[k] \in RetrievalDeals /\ b[k].ID = k /\ m[k] = fromProviderDealState(b[k])
    BY <1>1 DEF RetrievalPairs
  <2>2. /\ toProviderDealState(m[k]) = b[k] /\ m[k].ID = k
        /\ m[k].ChannelID = ChannelColumns(b[k].ChannelID)
    <3> HIDE DEF b, m
    <3>. QED
      BY <2>1, RetrievalBack
  <2>3. k \in 1..2 /\ b[k].ChannelID \in {None} \cup [Initiator : {"peer"}, ID : 1..2]
    <3> HIDE DEF b, m
    <3>. QED
      BY <2>1 DEF RetrievalDeals
  <2>4. ASSUME NEW ch \in [Initiator : {"peer"}, ID : 1..2]
        PROVE  m[k].ChannelID = ch <=> b[k].ChannelID = ch
    <3> HIDE DEF b, m
    <3>2. ch # None /\ ch # [Initiator |-> "", ID |-> 0]
      BY ChannelIdDiffers
    <3>. QED
      BY <2>2, <3>2 DEF ChannelColumns
  <2>. QED
    BY <2>1, <2>2, <2>3, <2>4
<1>3. DOMAIN m = DOMAIN b
  BY <1>1 DEF RetrievalPairs
<1>4. \A id \in 1..2 : BadgerGetRetrievalDeal(id) = MysqlGetRetrievalDeal(id)
  BY <1>2, <1>3 DEF BadgerGetRetrievalDeal, MysqlGetRetrievalDeal, Taken
<1>5. \A id \in 1..2 : BadgerHasDeal(id) <=> MysqlHasDeal(id)
  BY <1>2, <1>3 DEF BadgerHasDeal, MysqlHasDeal, Range
<1>6. \A ch \in [Initiator : {"peer"}, ID : 1..2] : BadgerGetDealByTransferId(ch) = MysqlGetDealByTransferId(ch)
  <2>1. TAKE ch \in [Initiator : {"peer"}, ID : 1..2]
  <2>2. PICK S : S = {q \in Range(m) : q.ChannelID = ch}
    OBVIOUS
  <2>3. \A q : q \in S <=> \E k \in DOMAIN b : q = m[k] /\ b[k].ChannelID = ch
    BY <1>2, <1>3, <2>2 DEF Range
  <2>4. {toProviderDealState(q) : q \in S} = {d \in Range(b) : d.ChannelID = ch}
    BY <1>2, <2>3 DEF Range
  <2>. QED
    BY <2>2, <2>4 DEF BadgerGetDealByTransferId, MysqlGetDealByTransferId
<1>7. ASSUME NEW size \in 1..2
      PROVE  UNION {MysqlListDeals(i, size) : i \in 1..2} = BadgerListDeals(0, size)
  <2>1. PICK all : all = Range(m)
    OBVIOUS
  <2>2. \A q : q \in all <=> \E k \in DOMAIN b : q = m[k]
    BY <1>3, <2>1 DEF Range
  <2>3. ASSUME NEW q \in all
        PROVE  Cardinality({e \in all : e.ID < q.ID}) \in 0..1
    <3>1. PICK k \in DOMAIN b : q = m[k]
      BY <2>2
    <3>2. q.ID = k /\ k \in 1..2
      BY <1>2, <3>1
    <3>3. PICK T : T = {e \in all : e.ID < q.ID}
      OBVIOUS
    <3>4. \A e \in T : e = m[1]
      BY <1>2, <2>2, <3>2, <3>3
    <3>5. CASE T = {}
      BY <3>3, <3>5, FS_EmptySet
    <3>6. CASE T # {}
      <4>1. T = {m[1]}
        BY <3>4, <3>6
      <4>2. Cardinality(T) = 1
        BY <4>1, FS_Singleton
      <4>. QED
        BY <3>3, <4>2
    <3>. QED
      BY <3>5, <3>6
  <2>4. \A i : MysqlListDeals(i, size) =
                 {toProviderDealState(r) :
                    r \in {d \in all : LET before == Cardinality({e \in all : e.ID < d.ID})
                                       IN  (i - 1) * size <= before /\ before < (i - 1) * size + size}}
    BY <2>1 DEF MysqlListDeals, PageOf
  <2>5. ASSUME NEW q \in all
        PROVE  \E i \in 1..2 : toProviderDealState(q) \in MysqlListDeals(i, size)
    <3>1. PICK n : n = Cardinality({e \in all : e.ID < q.ID})
      OBVIOUS
    <3>2. n \in 0..1
      BY <2>3, <3>1
    <3>3. PICK i \in 1..2 : (i - 1) * size <= n /\ n < (i - 1) * size + size
      <4>1. CASE size = 1
        BY <3>2, <4>1
      <4>2. CASE size = 2
        <5>1. 1 \in 1..2 /\ (1 - 1) * 2 <= n /\ n < (1 - 1) * 2 + 2
          BY <3>2
        <5>. QED
          BY <4>2, <5>1
      <4>. QED
        BY <4>1, <4>2
    <3>. QED
      BY <2>4, <3>1, <3>3
  <2>6. {toProviderDealState(q) : q \in all} = Range(b)
    BY <1>2, <2>2 DEF Range
  <2>7. \A i : MysqlListDeals(i, size) \subseteq {toProviderDealState(q) : q \in all}
    <3>1. TAKE i
    <3>2. \A x \in MysqlListDeals(i, size) : \E q \in all : x = toProviderDealState(q)
      BY <2>4
    <3>. QED
      BY <3>2
  <2>8. UNION {MysqlListDeals(i, size) : i \in 1..2} = {toProviderDealState(q) : q \in all}
    BY <2>5, <2>7
  <2>. QED
    BY <2>6, <2>8 DEF BadgerListDeals
<1>. QED
  BY <1>4, <1>5, <1>6, <1>7 DEF RetrievalDealsAgree

\* A row that is not deleted is that of a channel in badger.
LEMMA ChannelAnswers ==
  ASSUME StoresInv
  PROVE  /\ \A ci \in findChans : \E id : ci \in ChannelInfos(id)
         /\ ChannelRows = {fromChannelInfo(ci) : ci \in findChans}
<1> DEFINE b == badger.channels
           m == mysql.channels
<1>1. ChannelPairs(b, m)
  BY DEF StoresInv
<1>3. ASSUME NEW k \in DOMAIN b
      PROVE  /\ unmarshallChannelInfo(b[k]) \in ChannelInfos(k)
             /\ m[k] = fromChannelInfo(unmarshallChannelInfo(b[k]))
             /\ k \in DOMAIN m /\ ~m[k].is_deleted
  <2>1. PICK ci \in ChannelInfos(k) : b[k] = marshallChannelInfo(ci) /\ m[k].info = fromChannelInfo(ci).info
    BY <1>1, Zenon DEF ChannelPairs
  <2>2. unmarshallChannelInfo(b[k]) = ci
    BY <2>1, ChannelInfoBack, Zenon
  <2>3. k \in DOMAIN m /\ ~m[k].is_deleted
    BY <1>1 DEF ChannelPairs
  <2>a. m[k].is_deleted = FALSE
    BY <1>1, <2>3 DEF ChannelPairs
  <2>4. m[k] = [info |-> m[k].info, is_deleted |-> m[k].is_deleted]
    BY <1>1, <2>3, Zenon DEF ChannelPairs
  <2>5. fromChannelInfo(ci) = [info |-> fromChannelInfo(ci).info, is_deleted |-> FALSE]
    BY <2>1, ChannelInfoBack, Zenon
  <2>6. m[k] = fromChannelInfo(ci)
    BY <2>1, <2>a, <2>4, <2>5, Zenon
  <2>. QED
    BY <2>1, <2>2, <2>3, <2>6
<1>4. \A x : x \in findChans <=> \E k \in DOMAIN b : x = unmarshallChannelInfo(b[k])
  BY DEF findChans, Range
<1>5. \A x : x \in ChannelRows <=> \E k \in DOMAIN b : x = m[k]
  <2>1. DOMAIN b = {k \in DOMAIN m : ~m[k].is_deleted}
    BY <1>1 DEF ChannelPairs
  <2>. QED
    BY <2>1 DEF ChannelRows, Range
<1>6. \A ci \in findChans : \E id : ci \in ChannelInfos(id)
  BY <1>3, <1>4
<1>7. ChannelRows = {fromChannelInfo(ci) : ci \in findChans}
  BY <1>3, <1>4, <1>5
<1>. QED
  BY <1>6, <1>7

\* The row of a channel, as a query sees it and as it is converted back.
LEMMA ChannelRowGives ==
  ASSUME StoresInv, NEW ci \in findChans
  PROVE  LET r == fromChannelInfo(ci)
         IN  /\ toChannelInfo(r) = ci
             /\ \A a \in Addrs : r.info.Channel = a <=> ci.Channel = a
             /\ r.info.Channel # "" <=> ci.Channel # None
             /\ r.info.CreateMsg # "" <=> ci.CreateMsg # None
             /\ r.info.AddFundsMsg # "" <=> ci.AddFundsMsg # None
             /\ r.info.ChannelID = ci.ChannelID /\ r.info.Direction = ci.Direction
             /\ r.info.Target = ci.Target /\ r.info.Settling = ci.Settling
<1>1. PICK id : ci \in ChannelInfos(id)
  BY ChannelAnswers
<1>2. PICK r : r = fromChannelInfo(ci)
  OBVIOUS
<1>3. /\ r = [info |-> r.info, is_deleted |-> FALSE]
      /\ toChannelInfo([info |-> r.info, is_deleted |-> FALSE]) = ci
      /\ r.info.Channel = Column(ci.Channel) /\ r.info.CreateMsg = Column(ci.CreateMsg)
      /\ r.info.AddFundsMsg = Column(ci.AddFundsMsg) /\ r.info.ChannelID = ci.ChannelID
      /\ r.info.Direction = ci.Direction /\ r.info.Target = ci.Target /\ r.info.Settling = ci.Settling
  BY <1>1, <1>2, ChannelInfoBack, Zenon
<1>4. toChannelInfo(r) = ci
  BY <1>3, Zenon
<1>5. /\ ci.Channel \in {None} \cup Addrs /\ ci.CreateMsg \in {None, "create"} /\ ci.AddFundsMsg \in {None, "add"}
  BY <1>1, ChannelInfoFields
<1>6. /\ \A a \in Addrs : r.info.Channel = a <=> ci.Channel = a
      /\ r.info.Channel # "" <=> ci.Channel # None
      /\ r.info.CreateMsg # "" <=> ci.CreateMsg # None
      /\ r.info.AddFundsMsg # "" <=> ci.AddFundsMsg # None
  BY <1>3, <1>5, NilDiffers DEF Column
<1>. QED
  BY <1>2, <1>3, <1>4, <1>6, Zenon

\* So the rows of some channels give back these channels.
LEMMA ChannelRowsSame ==
  ASSUME StoresInv, NEW A \in SUBSET findChans, NEW R, R = {fromChannelInfo(ci) : ci \in A}
  PROVE  ToChannelInfos(R) = A
<1>1. \A ci \in A : toChannelInfo(fromChannelInfo(ci)) = ci
  BY ChannelRowGives
<1>. QED
  BY <1>1 DEF ToChannelInfos

\* Both stores find the same channels.
LEMMA ChannelsAlike == StoresInv => ChannelsAgree
<1> SUFFICES ASSUME StoresInv PROVE ChannelsAgree
  OBVIOUS
<1>a. ChannelRows = {fromChannelInfo(ci) : ci \in findChans}
  BY ChannelAnswers
<1>b. \A ci \in findChans :
        LET r == fromChannelInfo(ci)
        IN  /\ toChannelInfo(r) = ci
            /\ \A a \in Addrs : r.info.Channel = a <=> ci.Channel = a
            /\ r.info.Channel # "" <=> ci.Channel # None
            /\ r.info.CreateMsg # "" <=> ci.CreateMsg # None
            /\ r.info.AddFundsMsg # "" <=> ci.AddFundsMsg # None
            /\ r.info.ChannelID = ci.ChannelID /\ r.info.Direction = ci.Direction
            /\ r.info.Target = ci.Target /\ r.info.Settling = ci.Settling
  BY ChannelRowGives, Zenon
<1>c. badger.msgs = mysql.msgs
  BY DEF StoresInv
<1>1. ASSUME NEW a \in Addrs
      PROVE  BadgerGetChannelByAddress(a) = MysqlGetChannelByAddress(a)
  <2>1. PICK A : A = BadgerGetChannelByAddress(a)
    OBVIOUS
  <2>2. A \in SUBSET findChans
    BY <2>1 DEF BadgerGetChannelByAddress
  <2>3. A = {ci \in findChans : ci.Channel = a}
    BY <2>1 DEF BadgerGetChannelByAddress
  <2>4. \A ci \in findChans :
          (fromChannelInfo(ci).info.Channel = a)
            <=> (ci.Channel = a)
    BY <1>b, <1>c
  <2>5. {r \in ChannelRows : r.info.Channel = a}
          = {fromChannelInfo(ci) : ci \in A}
    BY <1>a, <2>3, <2>4
  <2>. QED
    BY <2>1, <2>2, <2>5, ChannelRowsSame DEF MysqlGetChannelByAddress
<1>2. ASSUME NEW a \in Addrs
      PROVE  BadgerOutboundActiveByFromTo(a) = MysqlOutboundActiveByFromTo(a)
  <2>1. PICK A : A = BadgerOutboundActiveByFromTo(a)
    OBVIOUS
  <2>2. A \in SUBSET findChans
    BY <2>1 DEF BadgerOutboundActiveByFromTo
  <2>3. A = {ci \in findChans : ci.Direction = "out" /\ ~ci.Settling /\ ci.Target = a}
    BY <2>1 DEF BadgerOutboundActiveByFromTo
  <2>4. \A ci \in findChans :
          (/\ fromChannelInfo(ci).info.Direction = "out" /\ ~fromChannelInfo(ci).info.Settling
           /\ fromChannelInfo(ci).info.Target = a)
            <=> (ci.Direction = "out" /\ ~ci.Settling /\ ci.Target = a)
    BY <1>b, <1>c
  <2>5. {r \in ChannelRows : r.info.Direction = "out" /\ ~r.info.Settling /\ r.info.Target = a}
          = {fromChannelInfo(ci) : ci \in A}
    BY <1>a, <2>3, <2>4
  <2>. QED
    BY <2>1, <2>2, <2>5, ChannelRowsSame DEF MysqlOutboundActiveByFromTo
<1>3. ASSUME NEW id
      PROVE  BadgerGetChannelByChannelID(id) = MysqlGetChannelByChannelID(id)
  <2>1. PICK A : A = BadgerGetChannelByChannelID(id)
    OBVIOUS
  <2>2. A \in SUBSET findChans
    BY <2>1 DEF BadgerGetChannelByChannelID
  <2>3. A = {ci \in findChans : ci.ChannelID = id}
    BY <2>1 DEF BadgerGetChannelByChannelID
  <2>4. \A ci \in findChans :
          (fromChannelInfo(ci).info.ChannelID = id)
            <=> (ci.ChannelID = id)
    BY <1>b, <1>c
  <2>5. {r \in ChannelRows : r.info.ChannelID = id}
          = {fromChannelInfo(ci) : ci \in A}
    BY <1>a, <2>3, <2>4
  <2>. QED
    BY <2>1, <2>2, <2>5, ChannelRowsSame DEF MysqlGetChannelByChannelID
<1>4. ASSUME NEW c
      PROVE  BadgerGetChannelByMessageCid(c) = MysqlGetChannelByMessageCid(c)
  <2>1. PICK A : A = BadgerGetChannelByMessageCid(c)
    OBVIOUS
  <2>2. A \in SUBSET findChans
    BY <2>1 DEF BadgerGetChannelByMessageCid
  <2>3. A = {ci \in findChans : c \in DOMAIN badger.msgs /\ ci.ChannelID = badger.msgs[c].ChannelID}
    BY <2>1 DEF BadgerGetChannelByMessageCid
  <2>4. \A ci \in findChans :
          (c \in DOMAIN mysql.msgs /\ fromChannelInfo(ci).info.ChannelID = mysql.msgs[c].ChannelID)
            <=> (c \in DOMAIN badger.msgs /\ ci.ChannelID = badger.msgs[c].ChannelID)
    BY <1>b, <1>c
  <2>5. {r \in ChannelRows : c \in DOMAIN mysql.msgs /\ r.info.ChannelID = mysql.msgs[c].ChannelID}
          = {fromChannelInfo(ci) : ci \in A}
    BY <1>a, <2>3, <2>4
  <2>. QED
    BY <2>1, <2>2, <2>5, ChannelRowsSame DEF MysqlGetChannelByMessageCid
<1>5. BadgerListChannel = MysqlListChannel
  <2>1. PICK A : A = {ci \in findChans : ci.Channel # None}
    OBVIOUS
  <2>2. A \in SUBSET findChans
    BY <2>1
  <2>3. {r \in ChannelRows : r.info.Channel # ""} = {fromChannelInfo(ci) : ci \in A}
    BY <1>a, <1>b, <2>1
  <2>4. MysqlListChannel = {ci.Channel : ci \in A}
    BY <2>2, <2>3, ChannelRowsSame DEF MysqlListChannel
  <2>. QED
    BY <2>1, <2>4 DEF BadgerListChannel
<1>6. BadgerWithPendingAddFunds = MysqlWithPendingAddFunds
  <2>1. PICK A : A = BadgerWithPendingAddFunds
    OBVIOUS
  <2>2. A \in SUBSET findChans
    BY <2>1 DEF BadgerWithPendingAddFunds
  <2>3. A = {ci \in findChans : ci.Direction = "out" /\ (ci.CreateMsg # None \/ ci.AddFundsMsg # None)}
    BY <2>1 DEF BadgerWithPendingAddFunds
  <2>4. \A ci \in findChans :
          (/\ fromChannelInfo(ci).info.Direction = "out"
           /\ (fromChannelInfo(ci).info.CreateMsg # "" \/ fromChannelInfo(ci).info.AddFundsMsg # ""))
            <=> (ci.Direction = "out" /\ (ci.CreateMsg # None \/ ci.AddFundsMsg # None))
    BY <1>b, <1>c
  <2>5. {r \in ChannelRows : r.info.Direction = "out" /\ (r.info.CreateMsg # "" \/ r.info.AddFundsMsg # "")}
          = {fromChannelInfo(ci) : ci \in A}
    BY <1>a, <2>3, <2>4
  <2>. QED
    BY <2>1, <2>2, <2>5, ChannelRowsSame DEF MysqlWithPendingAddFunds
<1>. QED
  BY <1>1, <1>2, <1>3, <1>4, <1>5, <1>6, <1>c DEF ChannelsAgree

\* After any history of operations badger and MySQL answer every query of the
\* repositories alike (StoresAgree), for any deals, pieces, payloads, addresses
\* and number of channels.
THEOREM StoresAlike == StoresSpec => []StoresAgree
<1>1. StoresInv => StoresAgree
  BY DealsAlike, CidInfosAlike, AsksAlike, RetrievalsAlike, ChannelsAlike DEF StoresAgree
<1>. QED
  BY <1>1, StoresInitInv, StoresNextInv, PTL DEF StoresSpec

-----------------------------------------------------------------------------
(* The choice of a sender: the loop of pickAddress.                          *)

Untried(w) == [least |-> w, avail |-> 0, done |-> FALSE]

\* The equation of the loop of pickAddress over the first n candidates.
TriesTo(g, n, cs, v, w, good) ==
  g = [i \in 0..n |-> IF i = 0 THEN Untried(w) ELSE TryAddress(g[i - 1], cs[i], v, w, good)]

\* The result of the loop.
LEMMA TriesResult ==
  ASSUME NEW cs, NEW v, NEW w, NEW good
  PROVE  pickAddress(cs, v, w, good) = (CHOOSE g : TriesTo(g, Len(cs), cs, v, w, good))[Len(cs)].least
BY DEF pickAddress, TriesTo, Untried

\* One more turn of the loop.
LEMMA TriesExtend ==
  ASSUME NEW cs, NEW v, NEW w, NEW good, NEW n \in Nat, NEW g, TriesTo(g, n, cs, v, w, good)
  PROVE  \E h : TriesTo(h, n + 1, cs, v, w, good)
<1>1. PICK h : h = [i \in 0..n + 1 |-> IF i = n + 1 THEN TryAddress(g[n], cs[n + 1], v, w, good) ELSE g[i]]
  OBVIOUS
<1>2. \A i \in 0..n : g[i] = IF i = 0 THEN Untried(w) ELSE TryAddress(g[i - 1], cs[i], v, w, good)
  BY DEF TriesTo
<1>3. \A i \in 0..n : h[i] = g[i]
  BY <1>1
<1>4. ASSUME NEW i \in 0..n + 1
      PROVE  h[i] = IF i = 0 THEN Untried(w) ELSE TryAddress(h[i - 1], cs[i], v, w, good)
  <2>1. CASE i = n + 1
    <3>1. i # 0 /\ i - 1 = n /\ n \in 0..n
      BY <2>1
    <3>2. h[i - 1] = g[n]
      BY <1>3, <3>1
    <3>3. h[i] = TryAddress(g[n], cs[i], v, w, good)
      BY <1>1, <2>1
    <3>. QED
      BY <3>1, <3>2, <3>3
  <2>2. CASE i \in 0..n /\ i # 0
    <3>1. i - 1 \in 0..n
      BY <2>2
    <3>2. h[i] = TryAddress(g[i - 1], cs[i], v, w, good) /\ h[i - 1] = g[i - 1]
      BY <1>2, <1>3, <2>2, <3>1
    <3>. QED
      BY <2>2, <3>2
  <2>3. CASE i = 0
    <3>1. 0 \in 0..n
      OBVIOUS
    <3>. QED
      BY <1>2, <1>3, <2>3, <3>1
  <2>. QED
    BY <2>1, <2>2, <2>3
<1>5. h = [i \in 0..n + 1 |-> h[i]]
  BY <1>1
<1>6. TriesTo(h, n + 1, cs, v, w, good)
  BY <1>4, <1>5 DEF TriesTo
<1>. QED
  BY <1>6

\* The loop over any number of candidates has a result.
LEMMA TriesExist ==
  ASSUME NEW cs, NEW v, NEW w, NEW good, NEW n \in Nat
  PROVE  \E g : TriesTo(g, n, cs, v, w, good)
<1>. DEFINE Lacking == {k \in Nat : ~\E g : TriesTo(g, k, cs, v, w, good)}
<1>1. 0 \notin Lacking
  <2>1. PICK z : z = [i \in 0..0 |-> Untried(w)]
    OBVIOUS
  <2>2. TriesTo(z, 0, cs, v, w, good)
    BY <2>1 DEF TriesTo
  <2>. QED
    BY <2>2
<1>2. Lacking = {}
  <2>. SUFFICES ASSUME Lacking # {} PROVE FALSE
    OBVIOUS
  <2>1. Lacking \subseteq Nat
    OBVIOUS
  <2>2. PICK k \in Lacking : \A m \in Lacking : ~(m < k)
    <3>. HIDE DEF Lacking
    <3>. QED
      BY <2>1, LeastNatural
  <2>3. k - 1 \in Nat /\ k - 1 \notin Lacking
    <3>. HIDE DEF Lacking
    <3>. QED
      BY <1>1, <2>1, <2>2
  <2>4. PICK g : TriesTo(g, k - 1, cs, v, w, good)
    BY <2>3
  <2>5. \E h : TriesTo(h, (k - 1) + 1, cs, v, w, good)
    BY <2>3, <2>4, TriesExtend
  <2>6. (k - 1) + 1 = k
    BY <2>1
  <2>7. \E h : TriesTo(h, k, cs, v, w, good)
    BY <2>5, <2>6
  <2>. QED
    BY <2>7
<1>. QED
  BY <1>2

\* A candidate that can pay and sign, and one that has something but too little.
Seen(a, v, w) == IsControl(a, w) /\ v[a].up
Able(a, v, w, good) == Seen(a, v, w) /\ v[a].bal >= good /\ v[a].key
Poor(a, v, w, good) == Seen(a, v, w) /\ v[a].bal \in 1..good - 1

\* What the first n candidates leave in acc.
AfterTries(acc, n, cs, v, w, good) ==
  /\ acc \in [least : Addresses(w), avail : Nat, done : BOOLEAN]
  /\ acc.done => \E i \in 1..n : /\ Able(cs[i], v, w, good) /\ acc.least = cs[i]
                                 /\ \A j \in 1..i - 1 : ~Able(cs[j], v, w, good)
  /\ ~acc.done =>
       /\ \A j \in 1..n : ~Able(cs[j], v, w, good)
       /\ \/ acc.avail = 0 /\ acc.least = w /\ \A j \in 1..n : ~Poor(cs[j], v, w, good)
          \/ \E i \in 1..n : /\ Poor(cs[i], v, w, good) /\ acc.least = cs[i] /\ acc.avail = v[cs[i]].bal
                             /\ \A j \in 1..n : Poor(cs[j], v, w, good) => v[cs[j]].bal <= acc.avail

\* The parts of an answer of the node and the wallet.
LEMMA ViewParts ==
  ASSUME NEW x \in AddrViews
  PROVE  x.up \in BOOLEAN /\ x.key \in BOOLEAN /\ x.bal \in Nat
<1>1. MaxFunds \in Nat
  BY MessagingAssumption
<1>2. CASE x \in [up : {FALSE}, bal : {0}, key : {FALSE}]
  <2>1. x.up \in {FALSE} /\ x.key \in {FALSE} /\ x.bal \in {0}
    BY <1>2, Zenon
  <2>2. x.up \in BOOLEAN /\ x.key \in BOOLEAN
    BY <2>1, Zenon
  <2>3. x.bal \in Nat
    BY <2>1
  <2>. QED
    BY <2>2, <2>3
<1>3. CASE x \in [up : {TRUE}, bal : 0..MaxFunds, key : BOOLEAN]
  <2>1. x.up \in {TRUE} /\ x.bal \in 0..MaxFunds /\ x.key \in BOOLEAN
    BY <1>3, Zenon
  <2>2. x.up \in BOOLEAN
    BY <2>1, Zenon
  <2>3. x.bal \in Nat
    BY <1>1, <2>1
  <2>. QED
    BY <2>1, <2>2, <2>3
<1>. QED
  BY <1>2, <1>3 DEF AddrViews

\* What one candidate leaves in an accumulator that is not done.
LEMMA TriedOne ==
  ASSUME NEW w \in WorkerAddrs, NEW v \in [Addresses(w) -> AddrViews], NEW good \in Nat,
         NEW a \in Addresses(w), NEW acc \in [least : Addresses(w), avail : Nat, done : BOOLEAN]
  PROVE  LET out == TryAddress(acc, a, v, w, good) IN
         /\ out \in [least : Addresses(w), avail : Nat, done : BOOLEAN]
         /\ acc.done => out = acc
         /\ ~acc.done /\ Able(a, v, w, good) => out.done /\ out.least = a
         /\ ~acc.done /\ ~Able(a, v, w, good) =>
              /\ ~out.done
              /\ \/ out = acc /\ (Poor(a, v, w, good) => v[a].bal <= acc.avail)
                 \/ /\ Poor(a, v, w, good) /\ v[a].bal > acc.avail
                    /\ out.least = a /\ out.avail = v[a].bal
<1>1. PICK x : x = v[a]
  OBVIOUS
<1>2. /\ x.up \in BOOLEAN /\ x.key \in BOOLEAN /\ x.bal \in Nat
  <2>1. x \in AddrViews
    BY <1>1
  <2>. QED
    BY <2>1, ViewParts
<1>3. PICK out : out = TryAddress(acc, a, v, w, good)
  OBVIOUS
<1>4. CASE acc.done \/ ~Seen(a, v, w)
  <2>1. out = acc
    BY <1>3, <1>4 DEF TryAddress, Seen
  <2>. QED
    BY <1>3, <1>4, <2>1 DEF Able, Poor
<1>5. CASE ~acc.done /\ Seen(a, v, w)
  <2>1. out = maybeUseAddress(acc, a, x, good)
    BY <1>1, <1>3, <1>5 DEF TryAddress, Seen
  <2>2. CASE x.bal >= good /\ x.key
    <3>1. out = [least |-> a, avail |-> x.bal, done |-> TRUE]
      BY <2>1, <2>2 DEF maybeUseAddress
    <3>2. Able(a, v, w, good)
      BY <1>1, <1>5, <2>2 DEF Able
    <3>. QED
      BY <1>2, <1>3, <1>5, <3>1, <3>2
  <2>3. CASE x.bal >= good /\ ~x.key
    <3>1. out = acc
      BY <2>1, <2>3 DEF maybeUseAddress
    <3>2. ~Able(a, v, w, good) /\ ~Poor(a, v, w, good)
      BY <1>1, <1>2, <2>3 DEF Able, Poor
    <3>. QED
      BY <1>3, <1>5, <3>1, <3>2
  <2>4. CASE ~(x.bal >= good) /\ x.bal > acc.avail
    <3>1. out = [acc EXCEPT !.least = a, !.avail = x.bal]
      BY <2>1, <2>4 DEF maybeUseAddress
    <3>2. x.bal \in 1..good - 1
      BY <1>2, <2>4
    <3>3. ~Able(a, v, w, good) /\ Poor(a, v, w, good)
      BY <1>1, <1>5, <2>4, <3>2 DEF Able, Poor
    <3>4. /\ out \in [least : Addresses(w), avail : Nat, done : BOOLEAN]
          /\ out.least = a /\ out.avail = x.bal /\ out.done = acc.done
      BY <1>2, <3>1
    <3>. QED
      BY <1>1, <1>3, <1>5, <2>4, <3>3, <3>4
  <2>5. CASE ~(x.bal >= good) /\ ~(x.bal > acc.avail)
    <3>1. out = acc
      BY <2>1, <2>5 DEF maybeUseAddress
    <3>2. ~Able(a, v, w, good) /\ x.bal <= acc.avail
      BY <1>1, <1>2, <2>5 DEF Able
    <3>. QED
      BY <1>1, <1>3, <1>5, <3>1, <3>2
  <2>. QED
    BY <2>2, <2>3, <2>4, <2>5
<1>. QED
  BY <1>4, <1>5

\* One turn of the loop keeps AfterTries.
LEMMA TryKeeps ==
  ASSUME NEW w \in WorkerAddrs, NEW v \in [Addresses(w) -> AddrViews], NEW good \in Nat,
         NEW cs \in Seq(Addresses(w)), NEW n \in 1..Len(cs), NEW acc,
         AfterTries(acc, n - 1, cs, v, w, good)
  PROVE  AfterTries(TryAddress(acc, cs[n], v, w, good), n, cs, v, w, good)
<1>1. PICK a : a = cs[n]
  OBVIOUS
<1>2. PICK out : out = TryAddress(acc, a, v, w, good)
  OBVIOUS
<1>3. a \in Addresses(w) /\ n \in Nat /\ n >= 1
  BY <1>1
<1>4. acc \in [least : Addresses(w), avail : Nat, done : BOOLEAN]
  BY DEF AfterTries
<1>5. /\ out \in [least : Addresses(w), avail : Nat, done : BOOLEAN]
      /\ acc.done => out = acc
      /\ ~acc.done /\ Able(a, v, w, good) => out.done /\ out.least = a
      /\ ~acc.done /\ ~Able(a, v, w, good) =>
           /\ ~out.done
           /\ \/ out = acc /\ (Poor(a, v, w, good) => v[a].bal <= acc.avail)
              \/ /\ Poor(a, v, w, good) /\ v[a].bal > acc.avail
                 /\ out.least = a /\ out.avail = v[a].bal
  BY <1>2, <1>3, <1>4, TriedOne
<1>6. \A j \in 1..n : j \in 1..n - 1 \/ j = n
  BY <1>3
<1>7. \A j \in 1..n - 1 : j \in 1..n
  BY <1>3
<1>8. CASE acc.done
  <2>1. PICK i \in 1..n - 1 : /\ Able(cs[i], v, w, good) /\ acc.least = cs[i]
                              /\ \A j \in 1..i - 1 : ~Able(cs[j], v, w, good)
    BY <1>8 DEF AfterTries
  <2>2. i \in 1..n /\ out = acc
    BY <1>5, <1>7, <1>8
  <2>3. AfterTries(out, n, cs, v, w, good)
    BY <1>5, <1>8, <2>1, <2>2 DEF AfterTries
  <2>. QED
    BY <1>1, <1>2, <2>3
<1>9. CASE ~acc.done /\ Able(a, v, w, good)
  <2>1. \A j \in 1..n - 1 : ~Able(cs[j], v, w, good)
    BY <1>9 DEF AfterTries
  <2>2. n \in 1..n /\ out.done /\ out.least = cs[n] /\ Able(cs[n], v, w, good)
    BY <1>1, <1>3, <1>5, <1>9
  <2>3. AfterTries(out, n, cs, v, w, good)
    BY <1>5, <2>1, <2>2 DEF AfterTries
  <2>. QED
    BY <1>1, <1>2, <2>3
<1>10. CASE ~acc.done /\ ~Able(a, v, w, good)
  <2>1. /\ \A j \in 1..n - 1 : ~Able(cs[j], v, w, good)
        /\ \/ acc.avail = 0 /\ acc.least = w /\ \A j \in 1..n - 1 : ~Poor(cs[j], v, w, good)
           \/ \E i \in 1..n - 1 : /\ Poor(cs[i], v, w, good) /\ acc.least = cs[i] /\ acc.avail = v[cs[i]].bal
                                  /\ \A j \in 1..n - 1 : Poor(cs[j], v, w, good) => v[cs[j]].bal <= acc.avail
    BY <1>10 DEF AfterTries
  <2>2. ~out.done /\ \A j \in 1..n : ~Able(cs[j], v, w, good)
    BY <1>1, <1>5, <1>6, <1>10, <2>1
  <2>3. \A j \in 1..n : v[cs[j]].bal \in Nat /\ acc.avail \in Nat
    <3>1. \A j \in 1..n : cs[j] \in Addresses(w)
      BY <1>3
    <3>2. \A b \in Addresses(w) : v[b].bal \in Nat
      <4>1. \A b \in Addresses(w) : v[b] \in AddrViews
        OBVIOUS
      <4>2. \A x \in AddrViews : x.bal \in Nat
        BY ViewParts
      <4>. QED
        BY <4>1, <4>2
    <3>. QED
      BY <1>4, <3>1, <3>2
  <2>4. CASE out = acc /\ (Poor(a, v, w, good) => v[a].bal <= acc.avail)
    <3>1. CASE acc.avail = 0 /\ acc.least = w /\ \A j \in 1..n - 1 : ~Poor(cs[j], v, w, good)
      <4>1. ~Poor(a, v, w, good)
        <5>. SUFFICES ASSUME Poor(a, v, w, good) PROVE FALSE
          OBVIOUS
        <5>1. v[a].bal \in 1..good - 1 /\ v[a].bal <= 0
          BY <2>4, <3>1 DEF Poor
        <5>. QED
          BY <5>1
      <4>2. \A j \in 1..n : ~Poor(cs[j], v, w, good)
        BY <1>1, <1>6, <3>1, <4>1
      <4>. QED
        BY <1>1, <1>2, <1>5, <2>2, <2>4, <3>1, <4>2 DEF AfterTries
    <3>2. CASE \E i \in 1..n - 1 : /\ Poor(cs[i], v, w, good) /\ acc.least = cs[i] /\ acc.avail = v[cs[i]].bal
                                   /\ \A j \in 1..n - 1 : Poor(cs[j], v, w, good) => v[cs[j]].bal <= acc.avail
      <4>1. \E i \in 1..n : /\ Poor(cs[i], v, w, good) /\ acc.least = cs[i] /\ acc.avail = v[cs[i]].bal
                            /\ \A j \in 1..n : Poor(cs[j], v, w, good) => v[cs[j]].bal <= acc.avail
        BY <1>1, <1>6, <1>7, <2>4, <3>2
      <4>. QED
        BY <1>1, <1>2, <1>5, <2>2, <2>4, <4>1 DEF AfterTries
    <3>. QED
      BY <2>1, <3>1, <3>2
  <2>5. CASE /\ Poor(a, v, w, good) /\ v[a].bal > acc.avail
             /\ out.least = a /\ out.avail = v[a].bal
    <3>1. ASSUME NEW j \in 1..n, Poor(cs[j], v, w, good) PROVE v[cs[j]].bal <= out.avail
      <4>1. CASE j = n
        BY <1>1, <2>3, <2>5, <4>1
      <4>2. CASE j \in 1..n - 1
        <5>1. v[cs[j]].bal <= acc.avail
          BY <2>1, <3>1, <4>2
        <5>. QED
          BY <1>1, <1>3, <2>3, <2>5, <5>1
      <4>. QED
        BY <1>6, <4>1, <4>2
    <3>2. n \in 1..n /\ Poor(cs[n], v, w, good) /\ out.least = cs[n] /\ out.avail = v[cs[n]].bal
      BY <1>1, <1>3, <2>5
    <3>. QED
      BY <1>1, <1>2, <1>5, <2>2, <3>1, <3>2 DEF AfterTries
  <2>. QED
    BY <1>5, <1>10, <2>4, <2>5
<1>. QED
  BY <1>4, <1>8, <1>9, <1>10
\* The loop leaves what AfterTries says of all candidates.
LEMMA AllTried ==
  ASSUME NEW w \in WorkerAddrs, NEW v \in [Addresses(w) -> AddrViews], NEW good \in Nat,
         NEW cs \in Seq(Addresses(w))
  PROVE  \E acc : /\ pickAddress(cs, v, w, good) = acc.least
                  /\ AfterTries(acc, Len(cs), cs, v, w, good)
<1>1. PICK n : n = Len(cs)
  OBVIOUS
<1>2. n \in Nat
  BY <1>1
<1>3. PICK g : g = CHOOSE k : TriesTo(k, n, cs, v, w, good)
  OBVIOUS
<1>4. TriesTo(g, n, cs, v, w, good)
  BY <1>2, <1>3, TriesExist
<1>5. \A i \in 0..n : g[i] = IF i = 0 THEN Untried(w) ELSE TryAddress(g[i - 1], cs[i], v, w, good)
  BY <1>4 DEF TriesTo
<1>. DEFINE Wrong == {i \in 0..n : ~AfterTries(g[i], i, cs, v, w, good)}
<1>6. 0 \notin Wrong
  <2>1. 0 \in 0..n
    BY <1>2
  <2>2. g[0] = Untried(w)
    BY <1>5, <2>1
  <2>3. w \in Addresses(w)
    BY DEF Addresses
  <2>4. Untried(w) \in [least : Addresses(w), avail : Nat, done : BOOLEAN]
    BY <2>3 DEF Untried
  <2>5. Untried(w).avail = 0 /\ Untried(w).least = w /\ Untried(w).done = FALSE
    BY DEF Untried
  <2>6. AfterTries(Untried(w), 0, cs, v, w, good)
    BY <2>4, <2>5 DEF AfterTries
  <2>. QED
    BY <2>2, <2>6
<1>7. Wrong = {}
  <2>. SUFFICES ASSUME Wrong # {} PROVE FALSE
    OBVIOUS
  <2>1. Wrong \subseteq Nat /\ Wrong \subseteq 0..n
    BY <1>2
  <2>2. PICK i \in Wrong : \A j \in Wrong : ~(j < i)
    <3>. HIDE DEF Wrong
    <3>. QED
      BY <2>1, LeastNatural
  <2>3. i \in 1..n /\ i - 1 \in 0..n /\ i - 1 \notin Wrong
    <3>. HIDE DEF Wrong
    <3>. QED
      BY <1>2, <1>6, <2>1, <2>2
  <2>4. AfterTries(g[i - 1], i - 1, cs, v, w, good)
    BY <2>3
  <2>5. g[i] = TryAddress(g[i - 1], cs[i], v, w, good)
    <3>1. i # 0 /\ i \in 0..n
      BY <2>3
    <3>. QED
      BY <1>5, <3>1
  <2>6. AfterTries(g[i], i, cs, v, w, good)
    BY <1>1, <2>3, <2>4, <2>5, TryKeeps
  <2>. QED
    BY <2>6
<1>8. AfterTries(g[n], n, cs, v, w, good)
  BY <1>2, <1>7
<1>9. pickAddress(cs, v, w, good) = g[n].least
  BY <1>1, <1>3, TriesResult
<1>. QED
  BY <1>1, <1>8, <1>9

\* The candidates are addresses that there is an answer for.
LEMMA CandidatesKnown ==
  ASSUME NEW w \in WorkerAddrs, NEW use, NEW cs \in Candidates(use, w)
  PROVE  cs \in Seq(Addresses(w))
<1>1. PICK own : /\ cs = IF own = << >> \/ ~DisableWorkerFallback THEN Append(own, w) ELSE own
                 /\ own \in IF use = "DealPublishAddr" THEN {Configured}
                            ELSE UNION {SetToSeqs(Controls \ ({Owner, w} \cup known)) : known \in SUBSET Range(Configured)}
  BY DEF Candidates
<1>2. own \in Seq(Addresses(w))
  <2>1. CASE use = "DealPublishAddr"
    <3>1. own = Configured
      BY <1>1, <2>1
    <3>2. Configured \in Seq(Range(Configured)) /\ Range(Configured) \subseteq Addresses(w)
      BY MessagingAssumption DEF Addresses
    <3>. QED
      BY <3>1, <3>2
  <2>2. CASE use # "DealPublishAddr"
    <3>1. PICK known \in SUBSET Range(Configured) : own \in SetToSeqs(Controls \ ({Owner, w} \cup known))
      BY <1>1, <2>2
    <3>2. PICK C : C = Controls \ ({Owner, w} \cup known)
      OBVIOUS
    <3>3. Cardinality(C) \in Nat
      <4>1. IsFiniteSet(C)
        BY <3>2, MessagingAssumption, FS_Subset
      <4>. QED
        BY <4>1, FS_CardinalityType
    <3>4. own \in [1..Cardinality(C) -> C]
      BY <3>1, <3>2 DEF SetToSeqs
    <3>5. C \subseteq Addresses(w)
      BY <3>2 DEF Addresses
    <3>. QED
      BY <3>3, <3>4, <3>5
  <2>. QED
    BY <2>1, <2>2
<1>3. w \in Addresses(w)
  BY DEF Addresses
<1>. QED
  BY <1>1, <1>2, <1>3

\* BestSender, which is about every answer of the node and the wallet.
LEMMA SenderIsBest == BestSender
<1>. SUFFICES ASSUME NEW w \in WorkerAddrs, NEW use \in {"DealPublishAddr", "other"},
                     NEW cs \in Candidates(use, w), NEW v \in Views[w], NEW good \in Goods
              PROVE  LET a == pickAddress(cs, v, w, good)
                         seen == {i \in DOMAIN cs : IsControl(cs[i], w) /\ v[cs[i]].up}
                         able == {i \in seen : v[cs[i]].bal >= good /\ v[cs[i]].key}
                         poor == {i \in seen : v[cs[i]].bal \in 1..good - 1}
                     IN IF able # {} THEN a = cs[CHOOSE i \in able : \A j \in able : i <= j]
                        ELSE IF poor # {} THEN \E i \in poor : a = cs[i] /\ \A j \in poor : v[cs[j]].bal <= v[a].bal
                        ELSE a = w
  BY DEF BestSender
<1>1. v \in [Addresses(w) -> AddrViews] /\ good \in Nat /\ cs \in Seq(Addresses(w))
  BY CandidatesKnown, MessagingAssumption DEF Views
<1>2. PICK acc : /\ pickAddress(cs, v, w, good) = acc.least
                 /\ AfterTries(acc, Len(cs), cs, v, w, good)
  BY <1>1, AllTried
<1>3. PICK n : n = Len(cs)
  OBVIOUS
<1>4. DOMAIN cs = 1..n /\ n \in Nat
  BY <1>1, <1>3
<1>5. PICK able : able = {i \in 1..n : Able(cs[i], v, w, good)}
  OBVIOUS
<1>6. PICK poor : poor = {i \in 1..n : Poor(cs[i], v, w, good)}
  OBVIOUS
<1>7. CASE acc.done
  <2>1. PICK i \in 1..n : /\ Able(cs[i], v, w, good) /\ acc.least = cs[i]
                          /\ \A j \in 1..i - 1 : ~Able(cs[j], v, w, good)
    BY <1>2, <1>3, <1>7 DEF AfterTries
  <2>2. i \in able /\ able \subseteq Nat
    BY <1>4, <1>5, <2>1
  <2>3. \A j \in able : i <= j
    <3>1. \A j \in 1..n : j \in 1..i - 1 \/ i <= j
      BY <1>4, <2>1
    <3>. QED
      BY <1>5, <2>1, <3>1
  <2>4. ASSUME NEW k \in able, \A j \in able : k <= j PROVE k = i
    <3>1. k \in Nat /\ i \in Nat /\ k <= i /\ i <= k
      BY <2>2, <2>3, <2>4
    <3>. QED
      BY <3>1
  <2>5. (CHOOSE k \in able : \A j \in able : k <= j) = i
    BY <2>2, <2>3, <2>4
  <2>6. able # {} /\ acc.least = cs[CHOOSE k \in able : \A j \in able : k <= j]
    BY <2>1, <2>2, <2>5
  <2>. QED
    BY <1>2, <1>4, <1>5, <2>6 DEF Able, Seen
<1>8. CASE ~acc.done
  <2>1. able = {}
    BY <1>2, <1>3, <1>5, <1>8 DEF AfterTries
  <2>2. CASE acc.avail = 0 /\ acc.least = w /\ \A j \in 1..n : ~Poor(cs[j], v, w, good)
    <3>1. poor = {}
      BY <1>6, <2>2
    <3>. QED
      BY <1>2, <1>4, <1>5, <1>6, <2>1, <2>2, <3>1 DEF Able, Poor, Seen
  <2>3. CASE \E i \in 1..n : /\ Poor(cs[i], v, w, good) /\ acc.least = cs[i] /\ acc.avail = v[cs[i]].bal
                             /\ \A j \in 1..n : Poor(cs[j], v, w, good) => v[cs[j]].bal <= acc.avail
    <3>1. PICK i \in poor : acc.least = cs[i] /\ \A j \in poor : v[cs[j]].bal <= v[acc.least].bal
      BY <1>6, <2>3
    <3>2. poor # {}
      BY <3>1
    <3>. QED
      BY <1>2, <1>4, <1>5, <1>6, <2>1, <3>1, <3>2 DEF Able, Poor, Seen
  <2>. QED
    BY <1>2, <1>3, <1>8, <2>2, <2>3 DEF AfterTries
<1>9. acc.done \in BOOLEAN
  BY <1>2 DEF AfterTries
<1>. QED
  BY <1>7, <1>8, <1>9

\* AddressFor gives an address of the miner that can sign.
LEMMA SenderSigns ==
  ASSUME NEW w \in WorkerAddrs, NEW a \in AddressFor[w]
  PROVE  IsControl(a, w) /\ a \notin Multisigs
<1>1. PICK cs \in Candidates("DealPublishAddr", w), v \in Views[w] : a = pickAddress(cs, v, w, 0)
  BY DEF AddressFor
<1>2. v \in [Addresses(w) -> AddrViews] /\ cs \in Seq(Addresses(w))
  BY CandidatesKnown, <1>1 DEF Views
<1>3. \A b \in Addresses(w) \cap Multisigs : ~v[b].key
  BY <1>1 DEF Views
<1>4. PICK acc : a = acc.least /\ AfterTries(acc, Len(cs), cs, v, w, 0)
  BY <1>1, <1>2, AllTried
<1>5. w \notin Multisigs /\ IsControl(w, w)
  BY MessagingAssumption DEF IsControl
<1>6. CASE acc.done
  <2>1. PICK i \in 1..Len(cs) : Able(cs[i], v, w, 0) /\ a = cs[i]
    BY <1>4, <1>6 DEF AfterTries
  <2>2. a \in Addresses(w)
    BY <1>2, <2>1
  <2>. QED
    BY <1>3, <2>1, <2>2 DEF Able, Seen
<1>7. CASE ~acc.done
  <2>1. \A b : ~Poor(b, v, w, 0)
    BY DEF Poor
  <2>. QED
    BY <1>4, <1>5, <1>7, <2>1 DEF AfterTries
<1>. QED
  BY <1>4, <1>6, <1>7 DEF AfterTries

-----------------------------------------------------------------------------
(* The list of users: the page that venus-auth answers with.                 *)

NextUser(q, n, on) == IF n <= Len(AuthUsers) /\ AuthUsers[n][2] \in on THEN Append(q, AuthUsers[n]) ELSE q

\* The equation of the loop of getMinerFromVenusAuth over the first n users.
PageTo(g, n, on) == g = [i \in 0..n |-> IF i = 0 THEN << >> ELSE NextUser(g[i - 1], i, on)]

\* The result of the loop.
LEMMA PageResult ==
  ASSUME NEW on
  PROVE  UsersWithMiners(on) = (CHOOSE g : PageTo(g, PageLimit, on))[PageLimit]
<1>1. \A g : PageTo(g, PageLimit, on) <=>
        g = [n \in 0..PageLimit |->
              IF n = 0 THEN << >>
              ELSE IF n <= Len(AuthUsers) /\ AuthUsers[n][2] \in on THEN Append(g[n - 1], AuthUsers[n])
              ELSE g[n - 1]]
  BY DEF PageTo, NextUser
<1>. QED
  BY DEF UsersWithMiners, PageTo, NextUser

\* One more turn of the loop.
LEMMA PageExtends ==
  ASSUME NEW on, NEW n \in Nat, NEW g, PageTo(g, n, on)
  PROVE  \E h : PageTo(h, n + 1, on)
<1>1. PICK h : h = [i \in 0..n + 1 |-> IF i = n + 1 THEN NextUser(g[n], n + 1, on) ELSE g[i]]
  OBVIOUS
<1>2. \A i \in 0..n : g[i] = IF i = 0 THEN << >> ELSE NextUser(g[i - 1], i, on)
  BY DEF PageTo
<1>3. \A i \in 0..n : h[i] = g[i]
  BY <1>1
<1>4. ASSUME NEW i \in 0..n + 1
      PROVE  h[i] = IF i = 0 THEN << >> ELSE NextUser(h[i - 1], i, on)
  <2>1. CASE i = n + 1
    <3>1. i # 0 /\ i - 1 = n /\ n \in 0..n
      BY <2>1
    <3>2. h[i - 1] = g[n]
      BY <1>3, <3>1
    <3>3. h[i] = NextUser(g[n], i, on)
      BY <1>1, <2>1
    <3>. QED
      BY <3>1, <3>2, <3>3
  <2>2. CASE i \in 0..n /\ i # 0
    <3>1. i - 1 \in 0..n
      BY <2>2
    <3>2. h[i] = NextUser(g[i - 1], i, on) /\ h[i - 1] = g[i - 1]
      BY <1>2, <1>3, <2>2, <3>1
    <3>. QED
      BY <2>2, <3>2
  <2>3. CASE i = 0
    <3>1. 0 \in 0..n
      OBVIOUS
    <3>. QED
      BY <1>2, <1>3, <2>3, <3>1
  <2>. QED
    BY <2>1, <2>2, <2>3
<1>5. h = [i \in 0..n + 1 |-> h[i]]
  BY <1>1
<1>6. PageTo(h, n + 1, on)
  BY <1>4, <1>5 DEF PageTo
<1>. QED
  BY <1>6

\* The loop over any number of users has a result.
LEMMA PageExists ==
  ASSUME NEW on, NEW n \in Nat
  PROVE  \E g : PageTo(g, n, on)
<1>. DEFINE Lacking == {k \in Nat : ~\E g : PageTo(g, k, on)}
<1>1. 0 \notin Lacking
  <2>1. PICK z : z = [i \in 0..0 |-> << >>]
    OBVIOUS
  <2>2. PageTo(z, 0, on)
    BY <2>1 DEF PageTo
  <2>. QED
    BY <2>2
<1>2. Lacking = {}
  <2>. SUFFICES ASSUME Lacking # {} PROVE FALSE
    OBVIOUS
  <2>1. Lacking \subseteq Nat
    OBVIOUS
  <2>2. PICK k \in Lacking : \A m \in Lacking : ~(m < k)
    <3>. HIDE DEF Lacking
    <3>. QED
      BY <2>1, LeastNatural
  <2>3. k - 1 \in Nat /\ k - 1 \notin Lacking
    <3>. HIDE DEF Lacking
    <3>. QED
      BY <1>1, <2>1, <2>2
  <2>4. PICK g : PageTo(g, k - 1, on)
    BY <2>3
  <2>5. \E h : PageTo(h, (k - 1) + 1, on)
    BY <2>3, <2>4, PageExtends
  <2>6. (k - 1) + 1 = k
    BY <2>1
  <2>7. \E h : PageTo(h, k, on)
    BY <2>5, <2>6
  <2>. QED
    BY <2>7
<1>. QED
  BY <1>2

\* The page is a sequence of users that venus-auth knows.
LEMMA PageOfUsers ==
  ASSUME NEW on
  PROVE  UsersWithMiners(on) \in Seq(Range(AuthUsers))
<1>1. PICK n : n = PageLimit
  OBVIOUS
<1>2. n \in Nat /\ AuthUsers \in Seq(Range(AuthUsers))
  BY <1>1, MessagingAssumption
<1>3. PICK g : g = CHOOSE k : PageTo(k, n, on)
  OBVIOUS
<1>4. PageTo(g, n, on)
  BY <1>2, <1>3, PageExists
<1>5. \A i \in 0..n : g[i] = IF i = 0 THEN << >> ELSE NextUser(g[i - 1], i, on)
  BY <1>4 DEF PageTo
<1>6. PICK R : R = Range(AuthUsers)
  OBVIOUS
<1>. DEFINE Wrong == {i \in 0..n : g[i] \notin Seq(R)}
<1>7. 0 \notin Wrong
  <2>1. 0 \in 0..n
    BY <1>2
  <2>2. g[0] = << >>
    BY <1>5, <2>1
  <2>3. << >> \in Seq(R)
    OBVIOUS
  <2>. QED
    BY <2>2, <2>3
<1>8. Wrong = {}
  <2>. SUFFICES ASSUME Wrong # {} PROVE FALSE
    OBVIOUS
  <2>1. Wrong \subseteq Nat /\ Wrong \subseteq 0..n
    BY <1>2
  <2>2. PICK i \in Wrong : \A j \in Wrong : ~(j < i)
    <3>. HIDE DEF Wrong
    <3>. QED
      BY <2>1, LeastNatural
  <2>3. i \in 1..n /\ i - 1 \in 0..n /\ i - 1 \notin Wrong
    <3>. HIDE DEF Wrong
    <3>. QED
      BY <1>2, <1>7, <2>1, <2>2
  <2>4. g[i - 1] \in Seq(R)
    BY <2>3
  <2>5. g[i] = NextUser(g[i - 1], i, on)
    <3>1. i # 0 /\ i \in 0..n
      BY <2>3
    <3>. QED
      BY <1>5, <3>1
  <2>6. i <= Len(AuthUsers) => AuthUsers[i] \in R
    BY <1>2, <1>6, <2>3
  <2>7. g[i] \in Seq(R)
    BY <2>4, <2>5, <2>6 DEF NextUser
  <2>. QED
    BY <2>7
<1>9. g[n] \in Seq(R)
  BY <1>2, <1>8
<1>. QED
  BY <1>1, <1>3, <1>6, <1>9, PageResult

\* A finite set as a sequence has all its members.
LEMMA SetAsSequence ==
  ASSUME NEW S, IsFiniteSet(S)
  PROVE  SetToSeq(S) \in Seq(S) /\ Range(SetToSeq(S)) = S
<1>1. PICK n : n = Cardinality(S)
  OBVIOUS
<1>2. n \in Nat /\ ExistsBijection(1..n, S)
  BY <1>1, FS_CardinalityType
<1>3. PICK b \in Bijection(1..n, S) : TRUE
  BY <1>2 DEF ExistsBijection
<1>4. b \in [1..n -> S] /\ IsInjective(b)
  BY <1>3 DEF Bijection, Injection
<1>5. PICK f : f = CHOOSE g \in [1..n -> S] : IsInjective(g)
  OBVIOUS
<1>6. f \in [1..n -> S] /\ IsInjective(f)
  BY <1>4, <1>5
<1>7. f \in Injection(1..n, S)
  BY <1>6 DEF Injection
<1>8. IsFiniteSet(1..n) /\ Cardinality(1..n) = n
  BY <1>2, FS_Interval
<1>9. f \in Surjection(1..n, S)
  BY <1>1, <1>7, <1>8, FS_Injection
<1>10. Range(f) = S
  BY <1>6, <1>9 DEF Surjection, Range
<1>11. f \in Seq(S)
  BY <1>2, <1>6
<1>12. SetToSeq(S) = f
  BY <1>1, <1>5 DEF SetToSeq
<1>. QED
  BY <1>10, <1>11, <1>12

-----------------------------------------------------------------------------
(* The inductive invariant of Messaging.                                     *)

Users == Range(ConfigUsers) \cup Range(AuthUsers)
Accounts == {u[2] : u \in Users} \cup {"none"}
Names == {u[1] : u \in Users} \cup {Owner, Miner} \cup WorkerAddrs \cup Controls

Listers == [pc : {"idle", "user", "append"}, todo : Seq(Users), addrs : Seq(Names),
            account : Accounts, refresh : BOOLEAN, old : BOOLEAN]

ListShape ==
  /\ pool \in BOOLEAN /\ worker \in WorkerAddrs /\ users \subseteq Names \X Accounts
  /\ lister \in Listers /\ started \in BOOLEAN /\ fresh \in BOOLEAN

\* The addresses that the miner can send from, and whether venus-auth lists it.
Signers(w) == (Controls \cup {Owner, w}) \ Multisigs
Shown(on) == \E u \in Range(UsersWithMiners(on)) : u[1] = Miner

\* The pass l has the miner before it, or lists the last of its addresses.
PassCovers(l, us, w) ==
  \/ \E u \in Range(l.todo) : u[1] = Miner
  \/ Signers(w) \subseteq {u[1] : u \in us} \cup {a \in Range(l.addrs) : l.pc = "append"}

\* A list that is complete has the miner's addresses, and a pass that has not been
\* overtaken by a change will have added them.
ListInv ==
  /\ fresh => started
  /\ lister.pc = "idle" => ~lister.refresh
  /\ lister.pc = "append" => lister.addrs # << >>
  /\ pool /\ Shown(enabled) =>
       /\ fresh => Signers(worker) \subseteq Listed
       /\ lister.pc # "idle" /\ ~lister.refresh /\ ~lister.old => PassCovers(lister, users, worker)

\* A sequence is its head and its tail.
LEMMA HeadAndTail ==
  ASSUME NEW T, NEW q \in Seq(T), q # << >>
  PROVE  /\ Head(q) \in T /\ Tail(q) \in Seq(T)
         /\ Range(q) = {Head(q)} \cup Range(Tail(q))
         /\ Tail(q) = << >> <=> Len(q) = 1
<1>1. Head(q) = q[1] /\ Head(q) \in T /\ Tail(q) \in Seq(T) /\ Len(q) \in Nat /\ Len(q) >= 1
  OBVIOUS
<1>2. Len(Tail(q)) = Len(q) - 1 /\ \A i \in 1..Len(q) - 1 : Tail(q)[i] = q[i + 1]
  OBVIOUS
<1>3. DOMAIN q = 1..Len(q) /\ DOMAIN Tail(q) = 1..Len(q) - 1
  BY <1>1, <1>2
<1>4. Range(q) \subseteq {Head(q)} \cup Range(Tail(q))
  <2>. SUFFICES ASSUME NEW i \in 1..Len(q) PROVE q[i] \in {Head(q)} \cup Range(Tail(q))
    BY <1>3 DEF Range
  <2>1. CASE i = 1
    BY <1>1, <2>1
  <2>2. CASE i # 1
    <3>1. i - 1 \in 1..Len(q) - 1 /\ (i - 1) + 1 = i
      BY <1>1, <2>2
    <3>2. Tail(q)[i - 1] = q[i]
      BY <1>2, <3>1
    <3>. QED
      BY <1>3, <3>1, <3>2 DEF Range
  <2>. QED
    BY <2>1, <2>2
<1>5. {Head(q)} \cup Range(Tail(q)) \subseteq Range(q)
  <2>1. Head(q) \in Range(q)
    <3>1. 1 \in DOMAIN q
      BY <1>1, <1>3
    <3>. QED
      BY <1>1, <3>1 DEF Range
  <2>2. ASSUME NEW i \in 1..Len(q) - 1 PROVE Tail(q)[i] \in Range(q)
    <3>1. i + 1 \in 1..Len(q)
      BY <1>1
    <3>. QED
      BY <1>2, <1>3, <3>1 DEF Range
  <2>. QED
    BY <1>3, <2>1, <2>2 DEF Range
<1>. QED
  BY <1>1, <1>2, <1>4, <1>5

\* The addresses that come with a user.
LEMMA UserAddrs ==
  ASSUME NEW u \in Users, NEW w \in WorkerAddrs
  PROVE  LET q == <<u[1]>> \o IF u[1] = Miner THEN <<Owner, w>> \o SetToSeq(Controls) ELSE << >>
         IN /\ q \in Seq(Names) /\ q # << >>
            /\ u[1] = Miner => Signers(w) \subseteq Range(q)
<1>1. u[1] \in Names /\ Owner \in Names /\ w \in Names /\ Controls \subseteq Names
  BY DEF Names
<1>2. PICK cs : cs = SetToSeq(Controls)
  OBVIOUS
<1>3. cs \in Seq(Controls) /\ Range(cs) = Controls
  BY <1>2, SetAsSequence, MessagingAssumption
<1>4. cs \in Seq(Names) /\ <<Owner, w>> \in Seq(Names)
  BY <1>1, <1>3
<1>5. CASE u[1] # Miner
  BY <1>1, <1>5
<1>6. CASE u[1] = Miner
  <2>1. PICK q : q = <<u[1]>> \o (<<Owner, w>> \o cs)
    OBVIOUS
  <2>2. q \in Seq(Names) /\ Len(q) = 3 + Len(cs) /\ Len(cs) \in Nat
    BY <1>1, <1>4, <2>1
  <2>3. q[2] = Owner /\ q[3] = w /\ \A i \in 1..Len(cs) : q[i + 3] = cs[i]
    BY <1>1, <1>4, <2>1
  <2>4. Owner \in Range(q) /\ w \in Range(q)
    <3>1. 2 \in DOMAIN q /\ 3 \in DOMAIN q
      BY <2>2
    <3>. QED
      BY <2>3, <3>1 DEF Range
  <2>5. Controls \subseteq Range(q)
    <3>. SUFFICES ASSUME NEW i \in 1..Len(cs) PROVE cs[i] \in Range(q)
      BY <1>3 DEF Range
    <3>1. i + 3 \in DOMAIN q
      BY <2>2
    <3>. QED
      BY <2>3, <3>1 DEF Range
  <2>6. Signers(w) \subseteq Range(q) /\ q # << >>
    BY <2>2, <2>4, <2>5 DEF Signers
  <2>. QED
    BY <1>2, <1>6, <2>1, <2>2, <2>6
<1>. QED
  BY <1>5, <1>6

\* The users that are listed at the start.
LEMMA FirstList ==
  ASSUME MessagingInit
  PROVE  ListShape /\ ListInv
<1>1. worker \in WorkerAddrs
  BY MessagingAssumption DEF MessagingInit
<1>2. NoLister \in Listers
  BY DEF NoLister, Listers, Accounts
<1>3. NoLister.pc = "idle" /\ NoLister.refresh = FALSE
  BY DEF NoLister
<1>4. ListShape
  BY <1>1, <1>2 DEF MessagingInit, ListShape
<1>. QED
  BY <1>3, <1>4 DEF MessagingInit, ListInv

\* A pass begins.
LEMMA StartKeepsList ==
  ASSUME ListShape, ListInv, StartUsers \/ RefreshOnce
  PROVE  ListShape' /\ ListInv'
<1>1. ConfigUsers \in Seq(Users) /\ getMinerFromVenusAuth \in Seq(Users)
  <2>1. ConfigUsers \in Seq(Range(ConfigUsers)) /\ getMinerFromVenusAuth \in Seq(Range(AuthUsers))
    BY MessagingAssumption, PageOfUsers DEF getMinerFromVenusAuth
  <2>. QED
    BY <2>1 DEF Users
<1>2. UNCHANGED <<users, started, fresh, pool, worker, enabled>>
  BY DEF StartUsers, RefreshOnce, chainVars
<1>3. lister \in Listers
  BY DEF ListShape
<1>4. CASE StartUsers
  <2>1. lister' = [lister EXCEPT !.pc = "user", !.todo = ConfigUsers, !.refresh = pool, !.old = FALSE]
    BY <1>4 DEF StartUsers
  <2>2. lister' \in Listers /\ lister'.pc = "user" /\ lister'.refresh = pool
    BY <1>1, <1>3, <2>1 DEF Listers, ListShape
  <2>3. ListShape'
    BY <1>2, <2>2 DEF ListShape
  <2>. QED
    BY <1>2, <2>2, <2>3 DEF ListInv, Listed
<1>5. CASE RefreshOnce
  <2>1. lister' = [lister EXCEPT !.pc = "user", !.todo = getMinerFromVenusAuth, !.old = FALSE]
    BY <1>5 DEF RefreshOnce
  <2>2. lister' \in Listers /\ lister'.pc = "user" /\ lister'.todo = getMinerFromVenusAuth
    BY <1>1, <1>3, <2>1 DEF Listers
  <2>3. ListShape'
    BY <1>2, <2>2 DEF ListShape
  <2>4. Shown(enabled) => PassCovers(lister', users', worker')
    BY <2>2 DEF Shown, PassCovers, getMinerFromVenusAuth
  <2>. QED
    BY <1>2, <2>2, <2>3, <2>4 DEF ListInv, Listed
<1>. QED
  BY <1>4, <1>5

\* addUser takes the next user, or ends.
LEMMA AddUserKeepsList ==
  ASSUME ListShape, ListInv, AddUser
  PROVE  ListShape' /\ ListInv'
<1>1. UNCHANGED <<users, pool, worker, enabled>> /\ lister.pc = "user"
  BY DEF AddUser, chainVars
<1>2. lister \in Listers
  BY DEF ListShape
<1>3. CASE /\ lister.todo = << >> /\ lister.refresh
           /\ lister' = [lister EXCEPT !.todo = getMinerFromVenusAuth, !.refresh = FALSE]
           /\ UNCHANGED <<started, fresh>>
  <2>1. getMinerFromVenusAuth \in Seq(Users)
    <3>1. getMinerFromVenusAuth \in Seq(Range(AuthUsers))
      BY PageOfUsers DEF getMinerFromVenusAuth
    <3>. QED
      BY <3>1 DEF Users
  <2>2. lister' \in Listers /\ lister'.pc = "user" /\ lister'.todo = getMinerFromVenusAuth
    BY <1>1, <1>2, <1>3, <2>1 DEF Listers
  <2>3. ListShape'
    BY <1>1, <1>3, <2>2 DEF ListShape
  <2>4. Shown(enabled) => PassCovers(lister', users', worker')
    BY <2>2 DEF Shown, PassCovers, getMinerFromVenusAuth
  <2>. QED
    BY <1>1, <1>3, <2>2, <2>3, <2>4 DEF ListInv, Listed
<1>4. CASE /\ lister.todo = << >> /\ ~lister.refresh
           /\ lister' = NoLister /\ started' = TRUE /\ fresh' = ~lister.old
  <2>1. NoLister \in Listers /\ NoLister.pc = "idle" /\ NoLister.refresh = FALSE
    BY DEF NoLister, Listers, Accounts
  <2>2. fresh' \in BOOLEAN /\ (fresh' => ~lister.old)
    BY <1>2, <1>4 DEF Listers
  <2>3. ListShape'
    BY <1>1, <1>4, <2>1, <2>2 DEF ListShape
  <2>4. ASSUME pool, Shown(enabled), fresh' PROVE Signers(worker) \subseteq Listed
    <3>1. PassCovers(lister, users, worker)
      BY <1>1, <1>4, <2>2, <2>4 DEF ListInv
    <3>2. Range(lister.todo) = {}
      BY <1>4 DEF Range
    <3>. QED
      BY <1>1, <3>1, <3>2 DEF PassCovers, Listed
  <2>. QED
    BY <1>1, <1>4, <2>1, <2>3, <2>4 DEF ListInv, Listed
<1>5. CASE lister.todo # << >> /\ UNCHANGED <<started, fresh>>
  <2>1. PICK u : u = Head(lister.todo)
    OBVIOUS
  <2>2. lister.todo \in Seq(Users)
    BY <1>2 DEF Listers
  <2>3. u \in Users /\ Tail(lister.todo) \in Seq(Users) /\ Range(lister.todo) = {u} \cup Range(Tail(lister.todo))
    BY <1>5, <2>1, <2>2, HeadAndTail
  <2>4. PICK q : q = <<u[1]>> \o IF u[1] = Miner THEN <<Owner, worker>> \o SetToSeq(Controls) ELSE << >>
    OBVIOUS
  <2>5. q \in Seq(Names) /\ q # << >> /\ (u[1] = Miner => Signers(worker) \subseteq Range(q))
    BY <2>3, <2>4, UserAddrs DEF ListShape
  <2>6. lister' = [lister EXCEPT !.pc = "append", !.todo = Tail(lister.todo), !.account = u[2], !.addrs = q]
    BY <1>5, <2>1, <2>4 DEF AddUser
  <2>7. u[2] \in Accounts
    BY <2>3 DEF Accounts
  <2>8. /\ lister' \in Listers /\ lister'.pc = "append" /\ lister'.addrs = q /\ lister'.todo = Tail(lister.todo)
        /\ lister'.refresh = lister.refresh /\ lister'.old = lister.old
    BY <1>2, <2>3, <2>5, <2>6, <2>7 DEF Listers
  <2>9. ListShape'
    BY <1>1, <1>5, <2>8 DEF ListShape
  <2>10. PassCovers(lister, users, worker) => PassCovers(lister', users', worker')
    <3>1. CASE \E x \in Range(Tail(lister.todo)) : x[1] = Miner
      BY <2>8, <3>1 DEF PassCovers
    <3>2. CASE u[1] = Miner
      BY <1>1, <2>5, <2>8, <3>2 DEF PassCovers
    <3>3. CASE Signers(worker) \subseteq {x[1] : x \in users} \cup {a \in Range(lister.addrs) : lister.pc = "append"}
      BY <1>1, <2>8, <3>3 DEF PassCovers
    <3>. QED
      BY <2>3, <3>1, <3>2, <3>3 DEF PassCovers
  <2>. QED
    BY <1>1, <1>5, <2>5, <2>8, <2>9, <2>10 DEF ListInv, Listed
<1>. QED
  BY <1>3, <1>4, <1>5 DEF AddUser

\* appendAddress adds an address, or leaves it out.
LEMMA AppendKeepsList ==
  ASSUME ListShape, ListInv, AppendAddress
  PROVE  ListShape' /\ ListInv'
<1>1. UNCHANGED <<started, fresh, pool, worker, enabled>> /\ lister.pc = "append"
  BY DEF AppendAddress, chainVars
<1>2. lister \in Listers /\ lister.addrs # << >>
  BY <1>1 DEF ListShape, ListInv
<1>3. PICK a : a = Head(lister.addrs)
  OBVIOUS
<1>4. lister.addrs \in Seq(Names) /\ lister.account \in Accounts
  BY <1>2 DEF Listers
<1>5. /\ a \in Names /\ Tail(lister.addrs) \in Seq(Names)
      /\ Range(lister.addrs) = {a} \cup Range(Tail(lister.addrs))
      /\ Tail(lister.addrs) = << >> <=> Len(lister.addrs) = 1
  BY <1>2, <1>3, <1>4, HeadAndTail
<1>6. users' = IF a \in Listed \cup Multisigs THEN users ELSE users \cup {<<a, lister.account>>}
  BY <1>3 DEF AppendAddress
<1>7. users' \subseteq Names \X Accounts /\ users \subseteq users'
  BY <1>4, <1>5, <1>6 DEF ListShape
<1>8. a \in {x[1] : x \in users'} \/ a \in Multisigs
  <2>1. CASE a \in Listed
    BY <1>7, <2>1 DEF Listed
  <2>2. CASE a \notin Listed \cup Multisigs
    <3>1. <<a, lister.account>> \in users' /\ <<a, lister.account>>[1] = a
      BY <1>6, <2>2
    <3>. QED
      BY <3>1
  <2>. QED
    BY <2>1, <2>2
<1>9. lister' = [lister EXCEPT !.addrs = Tail(lister.addrs),
                               !.pc = IF Len(lister.addrs) = 1 THEN "user" ELSE lister.pc]
  BY DEF AppendAddress
<1>10. /\ lister' \in Listers /\ lister'.addrs = Tail(lister.addrs) /\ lister'.todo = lister.todo
       /\ lister'.refresh = lister.refresh /\ lister'.old = lister.old
       /\ lister'.pc = IF Len(lister.addrs) = 1 THEN "user" ELSE "append"
  BY <1>1, <1>2, <1>5, <1>9 DEF Listers
<1>11. ListShape'
  BY <1>1, <1>7, <1>10 DEF ListShape
<1>12. PassCovers(lister, users, worker) => PassCovers(lister', users', worker')
  <2>1. CASE \E x \in Range(lister.todo) : x[1] = Miner
    BY <1>10, <2>1 DEF PassCovers
  <2>2. CASE Signers(worker) \subseteq {x[1] : x \in users} \cup {b \in Range(lister.addrs) : lister.pc = "append"}
    <3>1. ASSUME NEW b \in Signers(worker)
          PROVE  b \in {x[1] : x \in users'} \cup {c \in Range(lister'.addrs) : lister'.pc = "append"}
      <4>1. b \notin Multisigs
        BY DEF Signers
      <4>2. CASE b \in {x[1] : x \in users}
        BY <1>7, <4>2
      <4>3. CASE b = a
        BY <1>8, <4>1, <4>3
      <4>4. CASE b \in Range(Tail(lister.addrs))
        <5>1. Tail(lister.addrs) # << >>
          BY <4>4 DEF Range
        <5>. QED
          BY <1>5, <1>10, <4>4, <5>1
      <4>. QED
        BY <1>5, <2>2, <4>2, <4>3, <4>4
    <3>. QED
      BY <1>1, <3>1 DEF PassCovers
  <2>. QED
    BY <2>1, <2>2 DEF PassCovers
<1>13. Listed \subseteq Listed'
  BY <1>7 DEF Listed
<1>14. lister'.pc = "append" => lister'.addrs # << >>
  BY <1>5, <1>10
<1>. QED
  BY <1>1, <1>10, <1>11, <1>12, <1>13, <1>14 DEF ListInv

\* A pass fails, or the miner or its users change.
LEMMA BreakKeepsList ==
  ASSUME ListShape, ListInv, ListingFails \/ ChainChanges
  PROVE  ListShape' /\ ListInv'
<1>1. lister \in Listers
  BY DEF ListShape
<1>2. CASE ListingFails
  <2>1. NoLister \in Listers /\ NoLister.pc = "idle" /\ NoLister.refresh = FALSE
    BY DEF NoLister, Listers, Accounts
  <2>2. /\ lister' = NoLister /\ UNCHANGED <<started, fresh, pool, worker, enabled>>
        /\ users' = IF started THEN users ELSE {}
    BY <1>2 DEF ListingFails, chainVars
  <2>3. fresh => users' = users
    BY <2>2 DEF ListInv
  <2>4. users' \subseteq Names \X Accounts
    BY <2>2 DEF ListShape
  <2>5. ListShape'
    BY <2>1, <2>2, <2>4 DEF ListShape
  <2>. QED
    BY <2>1, <2>2, <2>3, <2>5 DEF ListInv, Listed
<1>3. CASE ChainChanges
  <2>1. /\ fresh' = FALSE /\ lister' = [lister EXCEPT !.old = TRUE] /\ worker' \in WorkerAddrs
        /\ UNCHANGED <<pool, users, started>>
    BY <1>3 DEF ChainChanges, ListShape
  <2>2. /\ lister' \in Listers /\ lister'.old = TRUE /\ lister'.pc = lister.pc
        /\ lister'.refresh = lister.refresh /\ lister'.addrs = lister.addrs
    BY <1>1, <2>1 DEF Listers
  <2>3. ListShape'
    BY <2>1, <2>2 DEF ListShape
  <2>. QED
    BY <2>1, <2>2, <2>3 DEF ListInv
<1>. QED
  BY <1>2, <1>3

\* All other steps leave the list alone.
LEMMA OthersKeepList ==
  ASSUME ListShape, ListInv, UNCHANGED <<users, lister, started, fresh, pool, worker, enabled>>
  PROVE  ListShape' /\ ListInv'
BY DEF ListShape, ListInv, Listed

-----------------------------------------------------------------------------
(* The callers and their messages.                                           *)

SendCalls ==
  [pc : {"idle", "picked", "signed", "waiting", "found", "published", "rejected", "failed"},
   from : Names, nonce : Nat, msg : Nat, why : {"none", "fault", "nonce", "stale", "unlisted"}]
Msgs == [by : Sendings, from : Names, nonce : Nat, account : Accounts,
         st : {"UnFillMsg", "FillMsg", "OnChainMsg", "FailedMsg"}, depth : 0..Deep + 1, ok : BOOLEAN]

SendShape == sending \in [Sendings -> SendCalls] /\ mpool \in Seq(Msgs)

\* Too deep for a reorganisation, with the result ok; or given up.
Final(m, ok) == m.st = "OnChainMsg" /\ m.depth > Deep /\ m.ok = ok
Settled(m) == m.st = "FailedMsg" \/ (m.st = "OnChainMsg" /\ m.depth > Deep)

\* NextNonce in the pool mp.
NonceIn(mp, a) == 1 + Cardinality({m \in DOMAIN mp : mp[m].from = a})

\* A call x of s that has been refused was refused for a cause, one that was told
\* a fate was told a final one, and one that has not pushed has no message.
CallOK(x, s, mp) ==
  /\ x.why # "unlisted" /\ (x.pc # "failed" => x.why = "none")
  /\ x.why = "nonce" =>
       \E m \in DOMAIN mp : mp[m].by # s /\ mp[m].from = x.from /\ mp[m].nonce = x.nonce
  /\ x.pc \in {"picked", "signed"} => x.from \notin Multisigs
  /\ x.pc \in {"idle", "picked", "signed"} => \A m \in DOMAIN mp : mp[m].by # s
  /\ x.pc = "signed" => x.nonce \in 1..NonceIn(mp, x.from)
  /\ x.pc \in {"waiting", "found", "published", "rejected"} => x.msg \in DOMAIN mp
  /\ x.pc \in {"found", "published"} => Final(mp[x.msg], TRUE)
  /\ x.pc = "rejected" => mp[x.msg].st = "FailedMsg" \/ Final(mp[x.msg], FALSE)

\* Every nonce below the next one of an address has its message.
NoncesFilled(mp) ==
  \A a \in Names : \A n \in 1..NonceIn(mp, a) - 1 :
    \E m \in DOMAIN mp : mp[m].from = a /\ mp[m].nonce = n

SendInv ==
  /\ ~pool => NoncesFilled(mpool)
  /\ \A s \in Sendings : CallOK(sending[s], s, mpool) /\ (sending[s].pc = "signed" => ~pool)

\* The pool mq has the messages of mp, and the settled ones unchanged.
Kept(mp, mq) ==
  \A m \in DOMAIN mp :
    /\ m \in DOMAIN mq
    /\ mq[m].by = mp[m].by /\ mq[m].from = mp[m].from /\ mq[m].nonce = mp[m].nonce
    /\ Settled(mp[m]) => mq[m] = mp[m]

\* Nonces are counted from one.
LEMMA NonceNat ==
  ASSUME NEW mp \in Seq(Msgs), NEW a
  PROVE  NonceIn(mp, a) \in Nat /\ NonceIn(mp, a) >= 1
<1>1. PICK S : S = {m \in DOMAIN mp : mp[m].from = a}
  OBVIOUS
<1>2. IsFiniteSet(DOMAIN mp)
  <2>1. DOMAIN mp = 1..Len(mp) /\ Len(mp) \in Int /\ 1 \in Int
    OBVIOUS
  <2>2. IsFiniteSet(1..Len(mp))
    BY <2>1, FS_Interval
  <2>. QED
    BY <2>1, <2>2
<1>3. S \in SUBSET DOMAIN mp
  BY <1>1
<1>4. IsFiniteSet(S)
  BY <1>2, <1>3, FS_Subset
<1>5. Cardinality(S) \in Nat
  BY <1>4, FS_CardinalityType
<1>. QED
  BY <1>1, <1>5 DEF NonceIn

\* A message takes one nonce of its sender.
LEMMA NonceTaken ==
  ASSUME NEW mp \in Seq(Msgs), NEW r \in Msgs, NEW a
  PROVE  NonceIn(Append(mp, r), a) = IF r.from = a THEN NonceIn(mp, a) + 1 ELSE NonceIn(mp, a)
<1>1. PICK S : S = {m \in DOMAIN mp : mp[m].from = a}
  OBVIOUS
<1>2. PICK mq : mq = Append(mp, r)
  OBVIOUS
<1>3. PICK n : n = Len(mp)
  OBVIOUS
<1>4. /\ n \in Nat /\ DOMAIN mp = 1..n /\ DOMAIN mq = 1..n + 1
      /\ mq[n + 1] = r /\ \A m \in 1..n : mq[m] = mp[m]
  BY <1>2, <1>3
<1>5. IsFiniteSet(S)
  <2>1. IsFiniteSet(1..n)
    BY <1>4, FS_Interval
  <2>. QED
    BY <1>1, <1>4, <2>1, FS_Subset
<1>6. n + 1 \notin S
  BY <1>1, <1>4
<1>7. \A m \in 1..n + 1 : m \in 1..n \/ m = n + 1
  BY <1>4
<1>8. \A m \in 1..n : m \in 1..n + 1
  BY <1>4
<1>9. CASE r.from = a
  <2>1. {m \in DOMAIN mq : mq[m].from = a} = S \cup {n + 1}
    BY <1>1, <1>4, <1>7, <1>8, <1>9
  <2>2. Cardinality(S \cup {n + 1}) = Cardinality(S) + 1 /\ Cardinality(S) \in Nat
    BY <1>5, <1>6, FS_AddElement, FS_CardinalityType
  <2>3. NonceIn(mq, a) = 1 + Cardinality(S \cup {n + 1}) /\ NonceIn(mp, a) = 1 + Cardinality(S)
    BY <1>1, <2>1 DEF NonceIn
  <2>. QED
    BY <1>2, <1>9, <2>2, <2>3
<1>10. CASE r.from # a
  <2>1. {m \in DOMAIN mq : mq[m].from = a} = S
    BY <1>1, <1>4, <1>7, <1>8, <1>10
  <2>2. NonceIn(mq, a) = NonceIn(mp, a)
    BY <1>1, <2>1 DEF NonceIn
  <2>. QED
    BY <1>2, <1>10, <2>2
<1>. QED
  BY <1>9, <1>10

\* A call that does not move keeps to CallOK when the pool does.
LEMMA StillCall ==
  ASSUME NEW x \in SendCalls, NEW s, NEW mp \in Seq(Msgs), NEW mq \in Seq(Msgs), CallOK(x, s, mp), Kept(mp, mq),
         \A m \in DOMAIN mq : m \in DOMAIN mp \/ mq[m].by # s,
         NonceIn(mp, x.from) <= NonceIn(mq, x.from)
  PROVE  CallOK(x, s, mq)
<1>1. x.why = "nonce" =>
        \E m \in DOMAIN mq : mq[m].by # s /\ mq[m].from = x.from /\ mq[m].nonce = x.nonce
  BY DEF CallOK, Kept
<1>2. x.pc \in {"idle", "picked", "signed"} => \A m \in DOMAIN mq : mq[m].by # s
  BY DEF CallOK, Kept
<1>3. x.pc = "signed" => x.nonce \in 1..NonceIn(mq, x.from)
  <2>1. NonceIn(mp, x.from) \in Nat /\ NonceIn(mq, x.from) \in Nat
    BY NonceNat
  <2>2. x.pc = "signed" => x.nonce \in 1..NonceIn(mp, x.from)
    BY DEF CallOK
  <2>. QED
    BY <2>1, <2>2
<1>4. x.pc \in {"waiting", "found", "published", "rejected"} => x.msg \in DOMAIN mp /\ x.msg \in DOMAIN mq
  BY DEF CallOK, Kept
<1>5. x.pc \in {"found", "published"} => Final(mq[x.msg], TRUE)
  <2>. SUFFICES ASSUME x.pc \in {"found", "published"} PROVE Final(mq[x.msg], TRUE)
    OBVIOUS
  <2>1. Final(mp[x.msg], TRUE) /\ x.msg \in DOMAIN mp
    BY <1>4 DEF CallOK
  <2>2. mq[x.msg] = mp[x.msg]
    BY <2>1 DEF Kept, Final, Settled
  <2>. QED
    BY <2>1, <2>2
<1>6. x.pc = "rejected" => mq[x.msg].st = "FailedMsg" \/ Final(mq[x.msg], FALSE)
  <2>. SUFFICES ASSUME x.pc = "rejected" PROVE mq[x.msg].st = "FailedMsg" \/ Final(mq[x.msg], FALSE)
    OBVIOUS
  <2>1. (mp[x.msg].st = "FailedMsg" \/ Final(mp[x.msg], FALSE)) /\ x.msg \in DOMAIN mp
    BY <1>4 DEF CallOK
  <2>2. mq[x.msg] = mp[x.msg]
    BY <2>1 DEF Kept, Final, Settled
  <2>. QED
    BY <2>1, <2>2
<1>. QED
  BY <1>1, <1>2, <1>3, <1>4, <1>5, <1>6 DEF CallOK

\* A step of the call s that leaves the pool alone.
LEMMA CallMoves ==
  ASSUME SendShape, SendInv, NEW s \in Sendings, NEW y \in SendCalls,
         sending' = [sending EXCEPT ![s] = y], UNCHANGED <<pool, mpool>>,
         CallOK(y, s, mpool), y.pc = "signed" => ~pool
  PROVE  SendShape' /\ SendInv'
<1>1. sending \in [Sendings -> SendCalls]
  BY DEF SendShape
<1>2. sending'[s] = y /\ \A t \in Sendings \ {s} : sending'[t] = sending[t]
  BY <1>1
<1>3. SendShape'
  BY <1>1 DEF SendShape
<1>4. ASSUME NEW t \in Sendings
      PROVE  CallOK(sending'[t], t, mpool) /\ (sending'[t].pc = "signed" => ~pool)
  <2>1. CASE t = s
    BY <1>2, <2>1
  <2>2. CASE t # s
    <3>1. sending'[t] = sending[t]
      BY <1>2, <2>2
    <3>. QED
      BY <3>1 DEF SendInv
  <2>. QED
    BY <2>1, <2>2
<1>5. ~pool => NoncesFilled(mpool)
  BY DEF SendInv
<1>6. \A t \in Sendings : CallOK(sending'[t], t, mpool') /\ (sending'[t].pc = "signed" => ~pool')
  BY <1>4
<1>. QED
  BY <1>3, <1>5, <1>6 DEF SendInv

\* The call s pushes the message r.
LEMMA CallPushes ==
  ASSUME SendShape, SendInv, NEW s \in Sendings, NEW y \in SendCalls, NEW r \in Msgs,
         sending' = [sending EXCEPT ![s] = y], mpool' = Append(mpool, r), UNCHANGED pool,
         r.by = s, y.pc = "waiting", y.msg = Len(mpool) + 1, y.why = "none",
         ~pool => r.nonce = NonceIn(mpool, r.from)
  PROVE  SendShape' /\ SendInv'
<1>1. sending \in [Sendings -> SendCalls] /\ mpool \in Seq(Msgs)
  BY DEF SendShape
<1>2. sending'[s] = y /\ \A t \in Sendings \ {s} : sending'[t] = sending[t]
  BY <1>1
<1>3. PICK mq : mq = mpool'
  OBVIOUS
<1>4. PICK k : k = Len(mpool)
  OBVIOUS
<1>5. /\ mq \in Seq(Msgs) /\ k \in Nat /\ DOMAIN mpool = 1..k /\ DOMAIN mq = 1..k + 1
      /\ mq[k + 1] = r /\ \A m \in 1..k : mq[m] = mpool[m]
  BY <1>1, <1>3, <1>4
<1>6. SendShape'
  BY <1>1, <1>3, <1>5 DEF SendShape
<1>7. \A m \in 1..k + 1 : m \in 1..k \/ m = k + 1
  BY <1>5
<1>8. \A m \in 1..k : m \in 1..k + 1
  BY <1>5
<1>9. Kept(mpool, mq)
  BY <1>5, <1>8 DEF Kept
<1>10. \A a : NonceIn(mq, a) = IF r.from = a THEN NonceIn(mpool, a) + 1 ELSE NonceIn(mpool, a)
  BY <1>1, <1>3, NonceTaken
<1>11. \A a : NonceIn(mpool, a) \in Nat /\ NonceIn(mpool, a) >= 1
  BY <1>1, NonceNat
<1>12. ASSUME NEW t \in Sendings
       PROVE  CallOK(sending'[t], t, mq) /\ (sending'[t].pc = "signed" => ~pool)
  <2>1. CASE t = s
    <3>1. k + 1 \in DOMAIN mq /\ y.msg = k + 1
      BY <1>4, <1>5
    <3>2. CallOK(y, s, mq)
      BY <3>1 DEF CallOK
    <3>. QED
      BY <1>2, <2>1, <3>2
  <2>2. CASE t # s
    <3>1. sending'[t] = sending[t] /\ sending[t] \in SendCalls
      BY <1>1, <1>2, <2>2
    <3>2. CallOK(sending[t], t, mpool) /\ (sending[t].pc = "signed" => ~pool)
      BY DEF SendInv
    <3>3. \A m \in DOMAIN mq : m \in DOMAIN mpool \/ mq[m].by # t
      BY <1>5, <1>7, <2>2
    <3>4. NonceIn(mpool, sending[t].from) <= NonceIn(mq, sending[t].from)
      BY <1>10, <1>11
    <3>5. CallOK(sending[t], t, mq)
      BY <1>1, <1>5, <1>9, <3>1, <3>2, <3>3, <3>4, StillCall
    <3>. QED
      BY <3>1, <3>2, <3>5
  <2>. QED
    BY <2>1, <2>2
<1>13. ASSUME ~pool PROVE NoncesFilled(mq)
  <2>. SUFFICES ASSUME NEW a \in Names, NEW n \in 1..NonceIn(mq, a) - 1
                PROVE  \E m \in DOMAIN mq : mq[m].from = a /\ mq[m].nonce = n
    BY DEF NoncesFilled
  <2>1. NoncesFilled(mpool)
    BY <1>13 DEF SendInv
  <2>2. CASE n \in 1..NonceIn(mpool, a) - 1
    <3>1. PICK m \in DOMAIN mpool : mpool[m].from = a /\ mpool[m].nonce = n
      BY <2>1, <2>2 DEF NoncesFilled
    <3>. QED
      BY <1>5, <1>8, <3>1
  <2>3. CASE n \notin 1..NonceIn(mpool, a) - 1
    <3>1. r.from = a /\ n = NonceIn(mpool, a)
      BY <1>10, <1>11, <2>3
    <3>2. k + 1 \in DOMAIN mq /\ mq[k + 1].from = a /\ mq[k + 1].nonce = n
      BY <1>5, <1>13, <3>1
    <3>. QED
      BY <3>2
  <2>. QED
    BY <2>2, <2>3
<1>14. /\ ~pool' => NoncesFilled(mpool')
       /\ \A t \in Sendings : CallOK(sending'[t], t, mpool') /\ (sending'[t].pc = "signed" => ~pool')
  BY <1>3, <1>12, <1>13
<1>. QED
  BY <1>6, <1>14 DEF SendInv

\* A message that is not settled moves on, or back.
LEMMA MessageMoves ==
  ASSUME SendShape, SendInv, NEW m \in DOMAIN mpool, NEW r \in Msgs, ~Settled(mpool[m]),
         mpool' = [mpool EXCEPT ![m] = r], UNCHANGED <<pool, sending>>,
         r.by = mpool[m].by, r.from = mpool[m].from, r.nonce = mpool[m].nonce
  PROVE  SendShape' /\ SendInv'
<1>1. sending \in [Sendings -> SendCalls] /\ mpool \in Seq(Msgs)
  BY DEF SendShape
<1>2. PICK mq : mq = mpool'
  OBVIOUS
<1>3. /\ mq \in Seq(Msgs) /\ DOMAIN mq = DOMAIN mpool
      /\ mq[m] = r /\ \A k \in DOMAIN mpool : k # m => mq[k] = mpool[k]
  BY <1>1, <1>2
<1>4. \A k \in DOMAIN mpool : mq[k].by = mpool[k].by /\ mq[k].from = mpool[k].from /\ mq[k].nonce = mpool[k].nonce
  BY <1>3
<1>5. Kept(mpool, mq)
  BY <1>3, <1>4 DEF Kept
<1>6. \A a : NonceIn(mq, a) = NonceIn(mpool, a)
  <2>. SUFFICES ASSUME NEW a PROVE NonceIn(mq, a) = NonceIn(mpool, a)
    OBVIOUS
  <2>1. {k \in DOMAIN mq : mq[k].from = a} = {k \in DOMAIN mpool : mpool[k].from = a}
    BY <1>3, <1>4
  <2>. QED
    BY <2>1, Zenon DEF NonceIn
<1>7. SendShape'
  BY <1>1, <1>2, <1>3 DEF SendShape
<1>8. ASSUME NEW t \in Sendings PROVE CallOK(sending[t], t, mq)
  <2>1. sending[t] \in SendCalls /\ CallOK(sending[t], t, mpool)
    BY <1>1 DEF SendInv
  <2>2. NonceIn(mpool, sending[t].from) <= NonceIn(mq, sending[t].from)
    <3>1. NonceIn(mpool, sending[t].from) \in Nat
      BY <1>1, NonceNat
    <3>. QED
      BY <1>6, <3>1
  <2>. QED
    BY <1>1, <1>3, <1>5, <2>1, <2>2, StillCall
<1>9. NoncesFilled(mpool) => NoncesFilled(mq)
  <2>. SUFFICES ASSUME NoncesFilled(mpool), NEW a \in Names, NEW n \in 1..NonceIn(mq, a) - 1
                PROVE  \E k \in DOMAIN mq : mq[k].from = a /\ mq[k].nonce = n
    BY DEF NoncesFilled
  <2>1. n \in 1..NonceIn(mpool, a) - 1
    BY <1>6
  <2>2. PICK k \in DOMAIN mpool : mpool[k].from = a /\ mpool[k].nonce = n
    BY <2>1 DEF NoncesFilled
  <2>. QED
    BY <1>3, <1>4, <2>2
<1>10. /\ ~pool' => NoncesFilled(mpool')
       /\ \A t \in Sendings : CallOK(sending'[t], t, mpool') /\ (sending'[t].pc = "signed" => ~pool')
  BY <1>2, <1>8, <1>9 DEF SendInv
<1>. QED
  BY <1>7, <1>10 DEF SendInv

\* A sender is chosen, and a call fails, is given its nonce or its answer.
LEMMA CallsKeepSend ==
  ASSUME ListShape, SendShape, SendInv, NEW s \in Sendings,
         \/ PublishDealProposals(s) \/ SendingFails(s) \/ AssignNonce(s)
         \/ WaitMsg(s) \/ WaitForPublishDeals(s) \/ WaitGivenUp(s)
  PROVE  SendShape' /\ SendInv'
<1>1. sending \in [Sendings -> SendCalls] /\ mpool \in Seq(Msgs) /\ sending[s] \in SendCalls
  BY DEF SendShape
<1>2. CallOK(sending[s], s, mpool)
  BY DEF SendInv
<1>3. PICK x : x = sending[s]
  OBVIOUS
<1>4. x \in SendCalls /\ CallOK(x, s, mpool)
  BY <1>1, <1>2, <1>3
<1>5. UNCHANGED <<pool, mpool>>
  BY DEF PublishDealProposals, SendingFails, AssignNonce, WaitMsg, WaitForPublishDeals, WaitGivenUp, chainVars
<1>6. CASE PublishDealProposals(s)
  <2>1. PICK a \in AddressFor[worker] : sending' = [sending EXCEPT ![s].pc = "picked", ![s].from = a]
    BY <1>6 DEF PublishDealProposals
  <2>2. IsControl(a, worker) /\ a \notin Multisigs /\ worker \in WorkerAddrs
    BY SenderSigns DEF ListShape
  <2>3. a \in Names
    BY <2>2 DEF IsControl, Names
  <2>4. PICK y : y = [x EXCEPT !.pc = "picked", !.from = a]
    OBVIOUS
  <2>5. y \in SendCalls /\ y.pc = "picked" /\ y.from = a /\ y.why = x.why
    BY <1>4, <2>3, <2>4 DEF SendCalls
  <2>6. x.pc = "idle"
    BY <1>3, <1>6 DEF PublishDealProposals
  <2>7. CallOK(y, s, mpool)
    BY <1>4, <2>2, <2>5, <2>6 DEF CallOK
  <2>8. sending' = [sending EXCEPT ![s] = y]
    BY <1>1, <1>3, <2>1, <2>4
  <2>. QED
    BY <1>5, <2>5, <2>7, <2>8, CallMoves
<1>7. CASE SendingFails(s) \/ WaitGivenUp(s)
  <2>1. PICK y : y = [x EXCEPT !.pc = "failed", !.why = "fault"]
    OBVIOUS
  <2>2. y \in SendCalls /\ y.pc = "failed" /\ y.why = "fault"
    BY <1>4, <2>1 DEF SendCalls
  <2>3. CallOK(y, s, mpool)
    BY <2>2 DEF CallOK
  <2>4. sending' = [sending EXCEPT ![s] = y]
    BY <1>1, <1>3, <1>7, <2>1 DEF SendingFails, WaitGivenUp
  <2>. QED
    BY <1>5, <2>2, <2>3, <2>4, CallMoves
<1>8. CASE AssignNonce(s)
  <2>1. PICK n : n = NonceIn(mpool, x.from)
    OBVIOUS
  <2>2. n \in Nat /\ n \in 1..n
    BY <1>1, <2>1, NonceNat
  <2>3. PICK y : y = [x EXCEPT !.pc = "signed", !.nonce = n]
    OBVIOUS
  <2>4. y \in SendCalls /\ y.pc = "signed" /\ y.nonce = n /\ y.from = x.from /\ y.why = x.why
    BY <1>4, <2>2, <2>3 DEF SendCalls
  <2>5. x.pc = "picked" /\ ~pool
    BY <1>3, <1>8 DEF AssignNonce
  <2>6. CallOK(y, s, mpool)
    BY <1>4, <2>1, <2>2, <2>4, <2>5 DEF CallOK
  <2>7. sending' = [sending EXCEPT ![s] = y]
    BY <1>1, <1>3, <1>8, <2>1, <2>3 DEF AssignNonce, NextNonce, NonceIn
  <2>. QED
    BY <1>5, <2>4, <2>5, <2>6, <2>7, CallMoves
<1>9. CASE WaitMsg(s)
  <2>1. PICK m : m = x.msg
    OBVIOUS
  <2>2. x.pc = "waiting" /\ m \in DOMAIN mpool /\ mpool[m] \in Msgs
    BY <1>1, <1>3, <1>4, <1>9, <2>1 DEF WaitMsg, CallOK
  <2>3. PICK p : /\ sending' = [sending EXCEPT ![s].pc = p]
                 /\ \/ p = "found" /\ Final(mpool[m], TRUE)
                    \/ p = "rejected" /\ (mpool[m].st = "FailedMsg" \/ Final(mpool[m], FALSE))
    <3>1. mpool[m].ok \in BOOLEAN
      BY <2>2 DEF Msgs
    <3>2. CASE /\ Confident(m)
               /\ sending' = [sending EXCEPT ![s].pc = IF mpool[m].ok THEN "found" ELSE "rejected"]
      <4>1. mpool[m].st = "OnChainMsg" /\ mpool[m].depth > Deep
        BY <3>2 DEF Confident, OnChain
      <4>2. CASE mpool[m].ok
        BY <3>1, <3>2, <4>1, <4>2 DEF Final
      <4>3. CASE ~mpool[m].ok
        BY <3>1, <3>2, <4>1, <4>3 DEF Final
      <4>. QED
        BY <4>2, <4>3
    <3>3. CASE mpool[m].st = "FailedMsg" /\ sending' = [sending EXCEPT ![s].pc = "rejected"]
      BY <3>3
    <3>. QED
      BY <1>3, <1>9, <2>1, <3>2, <3>3 DEF WaitMsg
  <2>4. PICK y : y = [x EXCEPT !.pc = p]
    OBVIOUS
  <2>5. y \in SendCalls /\ y.pc = p /\ y.why = x.why /\ y.msg = m
    BY <1>4, <2>1, <2>3, <2>4 DEF SendCalls
  <2>6. CallOK(y, s, mpool)
    BY <1>4, <2>2, <2>3, <2>5 DEF CallOK
  <2>7. sending' = [sending EXCEPT ![s] = y]
    BY <1>1, <1>3, <2>3, <2>4
  <2>. QED
    BY <1>5, <2>3, <2>5, <2>6, <2>7, CallMoves
<1>10. CASE WaitForPublishDeals(s)
  <2>1. PICK y : y = [x EXCEPT !.pc = "published"]
    OBVIOUS
  <2>2. y \in SendCalls /\ y.pc = "published" /\ y.why = x.why /\ y.msg = x.msg
    BY <1>4, <2>1 DEF SendCalls
  <2>3. x.pc = "found"
    BY <1>3, <1>10 DEF WaitForPublishDeals
  <2>4. CallOK(y, s, mpool)
    BY <1>4, <2>2, <2>3 DEF CallOK
  <2>5. sending' = [sending EXCEPT ![s] = y]
    BY <1>1, <1>3, <1>10, <2>1 DEF WaitForPublishDeals
  <2>. QED
    BY <1>5, <2>2, <2>4, <2>5, CallMoves
<1>. QED
  BY <1>6, <1>7, <1>8, <1>9, <1>10

\* A push through a daemon.
LEMMA MpoolPushKeepsSend ==
  ASSUME SendShape, SendInv, NEW s \in Sendings, MpoolPush(s)
  PROVE  SendShape' /\ SendInv'
<1>1. sending \in [Sendings -> SendCalls] /\ mpool \in Seq(Msgs)
  BY DEF SendShape
<1>2. PICK x : x = sending[s]
  OBVIOUS
<1>3. x \in SendCalls /\ CallOK(x, s, mpool) /\ x.pc = "signed" /\ ~pool
  BY <1>1, <1>2 DEF SendInv, MpoolPush
<1>4. PICK n : n = NonceIn(mpool, x.from)
  OBVIOUS
<1>5. n \in Nat /\ x.nonce \in 1..n /\ x.from \in Names /\ x.why = "none"
  BY <1>1, <1>3, <1>4, NonceNat DEF CallOK, SendCalls
<1>6. n = NextNonce(sending[s].from)
  BY <1>2, <1>4 DEF NextNonce, NonceIn
<1>7. UNCHANGED pool
  BY DEF MpoolPush, chainVars
<1>8. CASE x.nonce < n
  <2>1. sending' = [sending EXCEPT ![s].pc = "failed", ![s].why = "nonce"] /\ UNCHANGED mpool
    BY <1>2, <1>6, <1>8 DEF MpoolPush
  <2>2. PICK y : y = [x EXCEPT !.pc = "failed", !.why = "nonce"]
    OBVIOUS
  <2>3. y \in SendCalls /\ y.pc = "failed" /\ y.why = "nonce" /\ y.from = x.from /\ y.nonce = x.nonce
    BY <1>3, <2>2 DEF SendCalls
  <2>4. x.nonce \in 1..n - 1
    BY <1>5, <1>8
  <2>5. \E m \in DOMAIN mpool : mpool[m].from = x.from /\ mpool[m].nonce = x.nonce
    BY <1>3, <1>4, <1>5, <2>4 DEF SendInv, NoncesFilled
  <2>6. CallOK(y, s, mpool)
    BY <1>3, <2>3, <2>5 DEF CallOK
  <2>7. sending' = [sending EXCEPT ![s] = y]
    BY <1>1, <1>2, <2>1, <2>2
  <2>. QED
    BY <1>7, <2>1, <2>3, <2>6, <2>7, CallMoves
<1>9. CASE ~(x.nonce < n)
  <2>1. PICK r : r = NewMsg(s, "FillMsg", "none")
    OBVIOUS
  <2>2. r = [by |-> s, from |-> x.from, nonce |-> x.nonce, account |-> "none", st |-> "FillMsg",
             depth |-> 0, ok |-> TRUE]
    BY <1>2, <2>1 DEF NewMsg
  <2>3. r \in Msgs /\ r.by = s /\ r.from = x.from /\ r.nonce = x.nonce
    <3>1. "none" \in Accounts /\ 0 \in 0..Deep + 1 /\ x.nonce \in Nat
      BY <1>5, MessagingAssumption DEF Accounts
    <3>. QED
      BY <1>5, <2>2, <3>1 DEF Msgs
  <2>4. r.nonce = NonceIn(mpool, r.from)
    BY <1>4, <1>5, <1>9, <2>3
  <2>5. mpool' = Append(mpool, r) /\ sending' = [sending EXCEPT ![s].pc = "waiting", ![s].msg = Len(mpool) + 1]
    BY <1>2, <1>6, <1>9, <2>1 DEF MpoolPush
  <2>6. PICK y : y = [x EXCEPT !.pc = "waiting", !.msg = Len(mpool) + 1]
    OBVIOUS
  <2>7. y \in SendCalls /\ y.pc = "waiting" /\ y.msg = Len(mpool) + 1 /\ y.why = "none"
    <3>1. PICK k : k = Len(mpool) + 1
      OBVIOUS
    <3>2. k \in Nat
      BY <1>1, <3>1
    <3>3. y = [x EXCEPT !.pc = "waiting", !.msg = k]
      BY <3>1, <2>6
    <3>4. y \in SendCalls /\ y.pc = "waiting" /\ y.msg = k /\ y.why = "none"
      BY <1>3, <1>5, <3>2, <3>3 DEF SendCalls
    <3>. QED
      BY <3>1, <3>4
  <2>8. sending' = [sending EXCEPT ![s] = y]
    BY <1>1, <1>2, <2>5, <2>6
  <2>. QED
    BY <1>7, <2>3, <2>4, <2>5, <2>7, <2>8, CallPushes
<1>. QED
  BY <1>8, <1>9

\* A push through venus-messager: it is refused only if the list is behind.
LEMMA ForcePushKeepsSend ==
  ASSUME ListShape, ListInv, SendShape, SendInv, NEW s \in Sendings, ForcePushMessage(s)
  PROVE  SendShape' /\ SendInv'
<1>1. sending \in [Sendings -> SendCalls] /\ mpool \in Seq(Msgs)
  BY DEF SendShape
<1>2. PICK x : x = sending[s]
  OBVIOUS
<1>3. x \in SendCalls /\ CallOK(x, s, mpool) /\ x.pc = "picked" /\ pool
  BY <1>1, <1>2 DEF SendInv, ForcePushMessage
<1>4. x.from \in Names /\ x.nonce \in Nat /\ x.why = "none" /\ x.from \notin Multisigs
  BY <1>3 DEF CallOK, SendCalls
<1>5. UNCHANGED pool
  BY DEF ForcePushMessage, chainVars
<1>6. CASE GetAccount(x.from) = {}
  <2>1. ~Current(s)
    <3>. SUFFICES ASSUME Current(s) PROVE FALSE
      OBVIOUS
    <3>1. fresh /\ Shown(enabled) /\ x.from \in Signers(worker)
      BY <1>2, <1>4 DEF Current, Shown, getMinerFromVenusAuth, IsControl, Signers
    <3>2. x.from \in Listed
      BY <1>3, <3>1 DEF ListInv
    <3>3. PICK u \in users : u[1] = x.from
      BY <3>2 DEF Listed
    <3>4. u[2] \in GetAccount(x.from)
      BY <3>3 DEF GetAccount
    <3>. QED
      BY <1>6, <3>4
  <2>2. sending' = [sending EXCEPT ![s].pc = "failed", ![s].why = "stale"] /\ UNCHANGED mpool
    BY <1>2, <1>6, <2>1 DEF ForcePushMessage
  <2>3. PICK y : y = [x EXCEPT !.pc = "failed", !.why = "stale"]
    OBVIOUS
  <2>4. y \in SendCalls /\ y.pc = "failed" /\ y.why = "stale"
    BY <1>3, <2>3 DEF SendCalls
  <2>5. CallOK(y, s, mpool)
    BY <2>4 DEF CallOK
  <2>6. sending' = [sending EXCEPT ![s] = y]
    BY <1>1, <1>2, <2>2, <2>3
  <2>. QED
    BY <1>5, <2>2, <2>4, <2>5, <2>6, CallMoves
<1>7. CASE GetAccount(x.from) # {}
  <2>1. PICK account \in GetAccount(x.from) : mpool' = Append(mpool, NewMsg(s, "UnFillMsg", account))
    BY <1>2, <1>7 DEF ForcePushMessage
  <2>2. account \in Accounts
    <3>1. PICK u \in users : u[2] = account
      BY <2>1 DEF GetAccount
    <3>. QED
      BY <3>1 DEF ListShape
  <2>3. PICK r : r = NewMsg(s, "UnFillMsg", account)
    OBVIOUS
  <2>4. r = [by |-> s, from |-> x.from, nonce |-> x.nonce, account |-> account, st |-> "UnFillMsg",
             depth |-> 0, ok |-> TRUE]
    BY <1>2, <2>3 DEF NewMsg
  <2>5. r \in Msgs /\ r.by = s
    <3>1. 0 \in 0..Deep + 1
      BY MessagingAssumption
    <3>. QED
      BY <1>4, <2>2, <2>4, <3>1 DEF Msgs
  <2>6. sending' = [sending EXCEPT ![s].pc = "waiting", ![s].msg = Len(mpool) + 1]
    BY <1>2, <1>7 DEF ForcePushMessage
  <2>7. PICK y : y = [x EXCEPT !.pc = "waiting", !.msg = Len(mpool) + 1]
    OBVIOUS
  <2>8. y \in SendCalls /\ y.pc = "waiting" /\ y.msg = Len(mpool) + 1 /\ y.why = "none"
    <3>1. PICK k : k = Len(mpool) + 1
      OBVIOUS
    <3>2. k \in Nat
      BY <1>1, <3>1
    <3>3. y = [x EXCEPT !.pc = "waiting", !.msg = k]
      BY <3>1, <2>7
    <3>4. y \in SendCalls /\ y.pc = "waiting" /\ y.msg = k /\ y.why = "none"
      BY <1>3, <1>4, <3>2, <3>3 DEF SendCalls
    <3>. QED
      BY <3>1, <3>4
  <2>9. sending' = [sending EXCEPT ![s] = y]
    BY <1>1, <1>2, <2>6, <2>7
  <2>. QED
    BY <1>3, <1>5, <2>1, <2>3, <2>5, <2>8, <2>9, CallPushes
<1>. QED
  BY <1>6, <1>7

\* The messager and the chain.
LEMMA MessagesKeepSend ==
  ASSUME SendShape, SendInv, NEW m \in DOMAIN mpool,
         MessageProceeds(m) \/ MessageFails(m) \/ MessageReorg(m)
  PROVE  SendShape' /\ SendInv'
<1>1. sending \in [Sendings -> SendCalls] /\ mpool \in Seq(Msgs)
  BY DEF SendShape
<1>2. PICK x : x = mpool[m]
  OBVIOUS
<1>3. x \in Msgs
  BY <1>1, <1>2
<1>4. UNCHANGED <<pool, sending>>
  BY DEF MessageProceeds, MessageFails, MessageReorg, chainVars
<1>5. x.depth \in 0..Deep + 1 /\ Deep \in Nat
  BY <1>3, MessagingAssumption DEF Msgs
<1>6. PICK r : /\ r \in Msgs /\ mpool' = [mpool EXCEPT ![m] = r] /\ ~Settled(x)
               /\ r.by = x.by /\ r.from = x.from /\ r.nonce = x.nonce
  <2>1. CASE \/ x.st = "UnFillMsg" /\ mpool' = [mpool EXCEPT ![m].st = "FillMsg"]
             \/ x.st = "UnFillMsg" /\ mpool' = [mpool EXCEPT ![m].st = "FailedMsg"]
    <3>1. PICK z \in {"FillMsg", "FailedMsg"} : mpool' = [mpool EXCEPT ![m].st = z]
      BY <2>1
    <3>2. PICK r : r = [x EXCEPT !.st = z]
      OBVIOUS
    <3>3. r \in Msgs /\ r.by = x.by /\ r.from = x.from /\ r.nonce = x.nonce
      BY <1>3, <3>2 DEF Msgs
    <3>4. mpool' = [mpool EXCEPT ![m] = r]
      BY <1>1, <1>2, <3>1, <3>2
    <3>. QED
      BY <2>1, <3>3, <3>4 DEF Settled
  <2>2. CASE x.st = "FillMsg" /\ \E ok \in BOOLEAN : mpool' = [mpool EXCEPT ![m].st = "OnChainMsg", ![m].ok = ok]
    <3>1. PICK ok \in BOOLEAN : mpool' = [mpool EXCEPT ![m].st = "OnChainMsg", ![m].ok = ok]
      BY <2>2
    <3>2. PICK r : r = [x EXCEPT !.st = "OnChainMsg", !.ok = ok]
      OBVIOUS
    <3>3. r \in Msgs /\ r.by = x.by /\ r.from = x.from /\ r.nonce = x.nonce
      BY <1>3, <3>2 DEF Msgs
    <3>4. mpool' = [mpool EXCEPT ![m] = r]
      BY <1>1, <1>2, <3>1, <3>2
    <3>. QED
      BY <2>2, <3>3, <3>4 DEF Settled
  <2>3. CASE x.st = "OnChainMsg" /\ x.depth <= Deep /\ mpool' = [mpool EXCEPT ![m].depth = x.depth + 1]
    <3>1. PICK r : r = [x EXCEPT !.depth = x.depth + 1]
      OBVIOUS
    <3>2. x.depth + 1 \in 0..Deep + 1
      BY <1>5, <2>3
    <3>3. r \in Msgs /\ r.by = x.by /\ r.from = x.from /\ r.nonce = x.nonce
      BY <1>3, <3>1, <3>2 DEF Msgs
    <3>4. mpool' = [mpool EXCEPT ![m] = r]
      BY <1>1, <1>2, <2>3, <3>1
    <3>5. ~Settled(x)
      BY <1>5, <2>3 DEF Settled
    <3>. QED
      BY <3>3, <3>4, <3>5
  <2>4. CASE x.st = "OnChainMsg" /\ x.depth <= Deep /\ mpool' = [mpool EXCEPT ![m].st = "FillMsg", ![m].depth = 0]
    <3>1. PICK r : r = [x EXCEPT !.st = "FillMsg", !.depth = 0]
      OBVIOUS
    <3>2. 0 \in 0..Deep + 1
      BY <1>5
    <3>3. r \in Msgs /\ r.by = x.by /\ r.from = x.from /\ r.nonce = x.nonce
      BY <1>3, <3>1, <3>2 DEF Msgs
    <3>4. mpool' = [mpool EXCEPT ![m] = r]
      BY <1>1, <1>2, <2>4, <3>1
    <3>5. ~Settled(x)
      BY <1>5, <2>4 DEF Settled
    <3>. QED
      BY <3>3, <3>4, <3>5
  <2>5. CASE MessageProceeds(m)
    BY <1>2, <2>1, <2>2, <2>3, <2>5 DEF MessageProceeds, OnChain
  <2>6. CASE MessageFails(m)
    BY <1>2, <2>1, <2>6 DEF MessageFails
  <2>7. CASE MessageReorg(m)
    BY <1>2, <2>4, <2>7 DEF MessageReorg, OnChain
  <2>. QED
    BY <2>5, <2>6, <2>7
<1>. QED
  BY <1>2, <1>4, <1>6, MessageMoves

\* Every step of Messaging keeps the invariant.
LEMMA MessagingStep ==
  ASSUME ListShape, ListInv, SendShape, SendInv, [MessagingNext]_msgVars
  PROVE  ListShape' /\ ListInv' /\ SendShape' /\ SendInv'
<1>1. CASE \/ StartUsers \/ RefreshOnce \/ AddUser \/ AppendAddress \/ ListingFails \/ ChainChanges
  <2>1. UNCHANGED <<sending, mpool, pool>>
    BY <1>1 DEF StartUsers, RefreshOnce, AddUser, AppendAddress, ListingFails, ChainChanges, chainVars
  <2>2. SendShape' /\ SendInv'
    BY <2>1 DEF SendShape, SendInv
  <2>. QED
    BY <1>1, <2>2, StartKeepsList, AddUserKeepsList, AppendKeepsList, BreakKeepsList
<1>2. CASE \E s \in Sendings : \/ AssignNonce(s) \/ MpoolPush(s) \/ ForcePushMessage(s)
                               \/ WaitMsg(s) \/ WaitForPublishDeals(s)
                               \/ PublishDealProposals(s) \/ SendingFails(s) \/ WaitGivenUp(s)
  <2>1. UNCHANGED <<users, lister, started, fresh, pool, worker, enabled>>
    BY <1>2 DEF AssignNonce, MpoolPush, ForcePushMessage, WaitMsg, WaitForPublishDeals,
                PublishDealProposals, SendingFails, WaitGivenUp, userVars, chainVars
  <2>2. ListShape' /\ ListInv'
    BY <2>1, OthersKeepList
  <2>. QED
    BY <1>2, <2>2, CallsKeepSend, MpoolPushKeepsSend, ForcePushKeepsSend
<1>3. CASE \E m \in DOMAIN mpool : MessageProceeds(m) \/ MessageFails(m) \/ MessageReorg(m)
  <2>1. UNCHANGED <<users, lister, started, fresh, pool, worker, enabled>>
    BY <1>3 DEF MessageProceeds, MessageFails, MessageReorg, userVars, chainVars
  <2>2. ListShape' /\ ListInv'
    BY <2>1, OthersKeepList
  <2>. QED
    BY <1>3, <2>2, MessagesKeepSend
<1>4. CASE UNCHANGED msgVars
  <2>1. UNCHANGED <<users, lister, started, fresh, pool, worker, enabled>> /\ UNCHANGED <<sending, mpool, pool>>
    BY <1>4 DEF msgVars
  <2>2. SendShape' /\ SendInv'
    BY <2>1 DEF SendShape, SendInv
  <2>. QED
    BY <2>1, <2>2, OthersKeepList
<1>. QED
  BY <1>1, <1>2, <1>3, <1>4 DEF MessagingNext, MessagingProgress

\* A message is sent from the best address of its miner, a push is refused only
\* for a cause (a failed query, a list that a change has overtaken, a nonce that
\* an overlapping push took), and what WaitMsg reports of it is final, for every
\* miner, list of users, answers of node and wallet, number of callers, depth and
\* number of changes and reorganisations (AddressFor, addUser, PushMessage, WaitMsg).
THEOREM MessagesAreSent == MessagingSpec => []MessageSent
<1>1. MessagingInit => ListShape /\ ListInv /\ SendShape /\ SendInv
  <2>. SUFFICES ASSUME MessagingInit PROVE ListShape /\ ListInv /\ SendShape /\ SendInv
    OBVIOUS
  <2>1. NoSending \in SendCalls /\ NoSending.pc = "idle" /\ NoSending.why = "none"
    BY DEF NoSending, SendCalls, Names
  <2>2. mpool = << >> /\ DOMAIN mpool = {} /\ mpool \in Seq(Msgs)
    BY DEF MessagingInit
  <2>3. SendShape
    BY <2>1, <2>2 DEF MessagingInit, SendShape
  <2>4. \A s \in Sendings : sending[s] = NoSending
    BY DEF MessagingInit
  <2>5. CallOK(NoSending, NoSending, mpool) /\ \A s \in Sendings : CallOK(NoSending, s, mpool)
    BY <2>1, <2>2 DEF CallOK
  <2>6. NoncesFilled(mpool)
    <3>. SUFFICES ASSUME NEW a \in Names, NEW n \in 1..NonceIn(mpool, a) - 1 PROVE FALSE
      BY DEF NoncesFilled
    <3>1. {m \in DOMAIN mpool : mpool[m].from = a} = {}
      BY <2>2
    <3>2. NonceIn(mpool, a) = 1
      BY <3>1, FS_EmptySet DEF NonceIn
    <3>. QED
      BY <3>2
  <2>7. SendInv
    BY <2>1, <2>4, <2>5, <2>6 DEF SendInv
  <2>. QED
    BY <2>3, <2>7, FirstList
<1>2. ListShape /\ ListInv /\ SendShape /\ SendInv => MessageSent
  <2>. SUFFICES ASSUME SendInv PROVE MessageSent
    OBVIOUS
  <2>1. RefusedForCause
    BY DEF SendInv, CallOK, RefusedForCause
  <2>2. FateFinal
    BY DEF SendInv, CallOK, Final, FateFinal, OnChain
  <2>. QED
    BY <2>1, <2>2, SenderIsBest DEF MessageSent
<1>. QED
  BY <1>1, <1>2, MessagingStep, PTL DEF MessagingSpec

-----------------------------------------------------------------------------
(* What the client is told of its sector.                                    *)

\* What a chain says of the deal.
SectorSeen(c, s) == \E id \in OurIds(c) : s \in SectorsWith(c, id)
ActiveSeen(c) == \E id \in OurIds(c) : ActivatedOn(c, id) # {}
SlashSeen(c) == \E id \in OurIds(c) : SlashedOn(c, id) # {}

AChain(c) == \E T : c \in Seq(T)

\* The chain is well made: ids are small, the publish message is executed once,
\* and a slash finds a deal of ours that is active.
PublishMade(c) ==
  /\ \A h \in Published(c) : c[h].base \in {1, 2} /\ c[h].valid \subseteq {1, 2}
  /\ \A g, h \in Published(c) : g = h
SlashMade(c) ==
  \A h \in 1..Len(c) : c[h].kind = "slash" =>
    \E id \in OurIds(SubSeq(c, 1, h - 1)) : ActivatedOn(SubSeq(c, 1, h - 1), id) # {}

\* The heights that no reorganisation reaches.
Fixed == {n \in 1..Len(chain) : n + Confidence <= Len(chain)}
Upto(n) == SubSeq(chain, 1, n)

AWatcher == [on : BOOLEAN, next : Nat \ {0}, told : Told, late : BOOLEAN]

WatchersOK ==
  /\ pre \in AWatcher /\ com \in AWatcher /\ end \in AWatcher
  /\ end.told = "nothing" /\ ~end.on => end.next = 1
  /\ com.told = "active" => ~com.on
  /\ end.told = "slashed" => ~end.on

\* What a handler reported is said by a part of the chain that stays.
SectorKept(s) == \E n \in Fixed : SectorSeen(Upto(n), s)
ActiveKept == \E n \in Fixed : ActiveSeen(Upto(n))
SlashKept == \E n \in Fixed : SlashSeen(Upto(n))
Reports ==
  /\ sector # 0 => SectorKept(sector)
  /\ com.told = "active" /\ com.next > 1 => ActiveKept
  /\ end.told = "slashed" /\ end.next > 1 => SlashKept

\* As long as nothing was reorganised the checks are right too.
IsPublishedAs(c, d) == \E h \in Published(c) : c[h].ok /\ 2 \in c[h].valid /\ d = IdOf(c[h], 2)
Untouched ==
  reorgs = 0 =>
    /\ stage \in {"precommit", "commit", "active"} \/ pre.on \/ com.on => IsPublishedAs(chain, dealID)
    /\ stage = "active" \/ com.told = "active" => ActiveSeen(chain)
    /\ end.told = "slashed" => SlashSeen(chain)

ChainMade(c) == AChain(c) /\ PublishMade(c) /\ SlashMade(c)

SectorInv == ChainMade(chain) /\ reorgs \in Nat /\ WatchersOK /\ Reports /\ Untouched

\* A prefix of a chain.
LEMMA PrefixIs ==
  ASSUME NEW c, AChain(c), NEW n \in 0..Len(c)
  PROVE  LET P == SubSeq(c, 1, n) IN
         /\ AChain(P) /\ Len(P) = n /\ \A i \in 1..n : P[i] = c[i]
         /\ \A k \in 0..n : SubSeq(P, 1, k) = SubSeq(c, 1, k)
<1>1. PICK T : c \in Seq(T)
  BY DEF AChain
<1>2. Len(c) \in Nat /\ n \in Nat
  BY <1>1
<1>3. PICK P : P = SubSeq(c, 1, n)
  OBVIOUS
<1>4. P \in Seq(T) /\ Len(P) = n /\ \A i \in 1..n : P[i] = c[i]
  BY <1>1, <1>2, <1>3
<1>5. ASSUME NEW k \in 0..n PROVE SubSeq(P, 1, k) = SubSeq(c, 1, k)
  <2>1. SubSeq(P, 1, k) \in Seq(T) /\ SubSeq(c, 1, k) \in Seq(T)
    BY <1>1, <1>2, <1>4
  <2>2. Len(SubSeq(P, 1, k)) = k /\ Len(SubSeq(c, 1, k)) = k
    BY <1>1, <1>2, <1>4
  <2>3. \A i \in 1..k : SubSeq(P, 1, k)[i] = P[i] /\ SubSeq(c, 1, k)[i] = c[i] /\ i \in 1..n
    BY <1>1, <1>2, <1>4
  <2>4. \A i \in 1..k : SubSeq(P, 1, k)[i] = SubSeq(c, 1, k)[i]
    BY <1>4, <2>3
  <2>. QED
    BY <2>1, <2>2, <2>4, SeqEqual
<1>. QED
  BY <1>3, <1>4, <1>5 DEF AChain

\* Chains that agree have the same prefix.
LEMMA SamePrefix ==
  ASSUME NEW c, AChain(c), NEW d, AChain(d), NEW n \in 0..Len(c), n <= Len(d), \A i \in 1..n : c[i] = d[i]
  PROVE  SubSeq(c, 1, n) = SubSeq(d, 1, n)
<1>1. PICK T, U : c \in Seq(T) /\ d \in Seq(U)
  BY DEF AChain
<1>2. PICK V : V = T \cup U
  OBVIOUS
<1>3. c \in Seq(V) /\ d \in Seq(V) /\ Len(c) \in Nat /\ Len(d) \in Nat /\ n \in Nat
  BY <1>1, <1>2
<1>4. SubSeq(c, 1, n) \in Seq(V) /\ SubSeq(d, 1, n) \in Seq(V)
  BY <1>3
<1>5. Len(SubSeq(c, 1, n)) = n /\ Len(SubSeq(d, 1, n)) = n
  BY <1>3
<1>6. \A i \in 1..n : SubSeq(c, 1, n)[i] = c[i] /\ SubSeq(d, 1, n)[i] = d[i]
  BY <1>3
<1>. QED
  BY <1>4, <1>5, <1>6, SeqEqual

\* All of a chain.
LEMMA WholePrefix ==
  ASSUME NEW c, AChain(c)
  PROVE  SubSeq(c, 1, Len(c)) = c /\ Len(c) \in Nat
<1>1. PICK T : c \in Seq(T)
  BY DEF AChain
<1>. QED
  BY <1>1, SubSeqFull

\* What a prefix says, the chain says.
LEMMA PrefixSays ==
  ASSUME NEW c, AChain(c), NEW n \in 0..Len(c), NEW P, P = SubSeq(c, 1, n)
  PROVE  /\ \A h \in Published(P) : h \in Published(c) /\ P[h] = c[h]
         /\ OurIds(P) \subseteq OurIds(c)
         /\ \A id : /\ SectorsWith(P, id) \subseteq SectorsWith(c, id)
                    /\ ActivatedOn(P, id) \subseteq ActivatedOn(c, id)
                    /\ SlashedOn(P, id) \subseteq SlashedOn(c, id)
<1>1. /\ Len(P) = n /\ \A i \in 1..n : P[i] = c[i]
      /\ \A k \in 0..n : SubSeq(P, 1, k) = SubSeq(c, 1, k)
  BY PrefixIs
<1>2. n \in Nat /\ Len(c) \in Nat /\ \A i \in 1..n : i \in 1..Len(c) /\ i - 1 \in 0..n
  BY WholePrefix
<1>3. \A h \in Published(P) : h \in Published(c) /\ P[h] = c[h]
  BY <1>1, <1>2 DEF Published
<1>4. \A id : ProposalOn(P, id) \subseteq ProposalOn(c, id)
  BY <1>3 DEF ProposalOn
<1>5. OurIds(P) \subseteq OurIds(c)
  BY <1>4 DEF OurIds
<1>6. \A h \in PreCommitsOn(P) : h \in PreCommitsOn(c) /\ P[h] = c[h]
  BY <1>1, <1>2 DEF PreCommitsOn
<1>7. \A id : SectorsWith(P, id) \subseteq SectorsWith(c, id)
  BY <1>6 DEF SectorsWith
<1>8. \A id : ActivatedOn(P, id) \subseteq ActivatedOn(c, id)
  <2>. SUFFICES ASSUME NEW id, NEW h \in ActivatedOn(P, id) PROVE h \in ActivatedOn(c, id)
    OBVIOUS
  <2>1. /\ h \in 1..n /\ P[h].kind = "commit" /\ P[h].ok /\ P[h].active
        /\ \E s \in P[h].sectors : s \in SectorsWith(SubSeq(P, 1, h - 1), id)
    BY <1>1 DEF ActivatedOn
  <2>2. P[h] = c[h] /\ SubSeq(P, 1, h - 1) = SubSeq(c, 1, h - 1) /\ h \in 1..Len(c)
    BY <1>1, <1>2, <2>1
  <2>. QED
    BY <2>1, <2>2 DEF ActivatedOn
<1>9. \A id : SlashedOn(P, id) \subseteq SlashedOn(c, id)
  <2>. SUFFICES ASSUME NEW id, NEW h \in SlashedOn(P, id) PROVE h \in SlashedOn(c, id)
    OBVIOUS
  <2>1. h \in 1..n /\ P[h].kind = "slash" /\ ActivatedOn(SubSeq(P, 1, h - 1), id) # {}
    BY <1>1 DEF SlashedOn
  <2>2. P[h] = c[h] /\ SubSeq(P, 1, h - 1) = SubSeq(c, 1, h - 1) /\ h \in 1..Len(c)
    BY <1>1, <1>2, <2>1
  <2>. QED
    BY <2>1, <2>2 DEF SlashedOn
<1>. QED
  BY <1>3, <1>5, <1>7, <1>8, <1>9

\* The same for the three kinds of reports.
LEMMA PrefixReports ==
  ASSUME NEW c, AChain(c), NEW n \in 0..Len(c)
  PROVE  /\ \A s : SectorSeen(SubSeq(c, 1, n), s) => SectorSeen(c, s)
         /\ ActiveSeen(SubSeq(c, 1, n)) => ActiveSeen(c)
         /\ SlashSeen(SubSeq(c, 1, n)) => SlashSeen(c)
<1>1. PICK P : P = SubSeq(c, 1, n)
  OBVIOUS
<1>2. /\ OurIds(P) \subseteq OurIds(c)
      /\ \A id : /\ SectorsWith(P, id) \subseteq SectorsWith(c, id)
                 /\ ActivatedOn(P, id) \subseteq ActivatedOn(c, id)
                 /\ SlashedOn(P, id) \subseteq SlashedOn(c, id)
  BY <1>1, PrefixSays
<1>3. \A s : SectorSeen(P, s) => SectorSeen(c, s)
  BY <1>2 DEF SectorSeen
<1>4. ActiveSeen(P) => ActiveSeen(c)
  BY <1>2 DEF ActiveSeen
<1>5. SlashSeen(P) => SlashSeen(c)
  BY <1>2 DEF SlashSeen
<1>. QED
  BY <1>1, <1>3, <1>4, <1>5

\* An id of the publish message is one of DealIDs.
LEMMA IdIsSmall ==
  ASSUME NEW c, PublishMade(c), NEW h \in Published(c), NEW i \in 1..2
  PROVE  IdOf(c[h], i) \in DealIDs
<1>1. PICK S : S = {j \in c[h].valid : j < i}
  OBVIOUS
<1>2. c[h].base \in {1, 2} /\ c[h].valid \subseteq {1, 2}
  BY DEF PublishMade
<1>3. S = {} \/ S = {1}
  BY <1>1, <1>2
<1>4. Cardinality(S) \in 0..1
  <2>1. IsFiniteSet({}) /\ Cardinality({}) = 0
    BY FS_EmptySet
  <2>2. Cardinality({} \cup {1}) = 1
    BY <2>1, FS_AddElement
  <2>3. {} \cup {1} = {1}
    OBVIOUS
  <2>. QED
    BY <1>3, <2>1, <2>2, <2>3
<1>5. IdOf(c[h], i) = c[h].base + Cardinality(S)
  BY <1>1 DEF IdOf, ValidBefore
<1>. QED
  BY <1>2, <1>4, <1>5 DEF DealIDs

\* GetCurrentDealInfo tells of a deal of ours.
LEMMA InfoIsOurs ==
  ASSUME PublishMade(chain), NEW h, NEW res \in GetCurrentDealInfo(h)
  PROVE  /\ res.DealID \in OurIds(Upto(h))
         /\ res.started = HasState(Upto(h), res.DealID)
<1>1. PICK id \in {i \in dealIDFromPublishDealsMsg :
                     \E p \in ProposalOn(Upto(h), i) : CheckDealEquality(Ours, p)} :
        res = [DealID |-> id, started |-> HasState(Upto(h), id), slashed |-> SlashedOn(Upto(h), id) # {}]
  BY DEF GetCurrentDealInfo, Upto
<1>2. res.DealID = id /\ res.started = HasState(Upto(h), id)
  BY <1>1
<1>3. PICK g \in Published(chain), i \in 1..2 : id = IdOf(chain[g], i)
  BY <1>1 DEF dealIDFromPublishDealsMsg
<1>4. id \in DealIDs
  BY <1>3, IdIsSmall
<1>5. PICK p \in ProposalOn(Upto(h), id) : CheckDealEquality(Ours, p)
  BY <1>1
<1>6. p.piece = Ours.piece
  BY <1>5 DEF CheckDealEquality
<1>. QED
  BY <1>2, <1>4, <1>6 DEF OurIds

\* What may be executed next.
LEMMA ExecutableIs ==
  ASSUME NEW c, NEW m \in Executable(c)
  PROVE  /\ m.kind = "publish" => /\ Published(c) = {}
                                  /\ m.base \in {1, 2} /\ m.valid \subseteq {1, 2}
         /\ m.kind = "slash" => \E id \in OurIds(c) : ActivatedOn(c, id) # {}
<1>1. CASE m = [kind |-> "none"]
  BY <1>1
<1>2. CASE m \in PublishMessages(c)
  BY <1>2 DEF PublishMessages
<1>3. CASE m \in PreCommitMessages(c)
  <2>1. m.kind = "precommit"
    BY <1>3 DEF PreCommitMessages
  <2>. QED
    BY <2>1
<1>4. CASE m \in CommitMessages(c)
  <2>1. m.kind = "commit"
    BY <1>4 DEF CommitMessages
  <2>. QED
    BY <2>1
<1>5. CASE m \in SlashMessages(c)
  <2>1. m.kind = "slash" /\ \E id \in OurIds(c) : HasState(c, id)
    BY <1>5 DEF SlashMessages
  <2>. QED
    BY <2>1 DEF HasState
<1>. QED
  BY <1>1, <1>2, <1>3, <1>4, <1>5 DEF Executable

\* A chain that agrees with another up to a height, and then has one message
\* that may be executed, or none.
LEMMA ChainStep ==
  ASSUME NEW c, ChainMade(c), NEW d, AChain(d), NEW n \in 0..Len(c), n <= Len(d),
         \A i \in 1..n : d[i] = c[i],
         \A i \in 1..Len(d) : i > n =>
           \/ d[i].kind = "none"
           \/ n = Len(c) /\ i = n + 1 /\ d[i] \in Executable(c)
  PROVE  ChainMade(d)
<1>1. Len(c) \in Nat /\ Len(d) \in Nat /\ n \in Nat /\ AChain(c) /\ PublishMade(c) /\ SlashMade(c)
  BY WholePrefix DEF ChainMade
<1>2. ASSUME NEW k \in 0..n PROVE SubSeq(d, 1, k) = SubSeq(c, 1, k)
  <2>1. k \in 0..Len(d) /\ k <= Len(c) /\ \A i \in 1..k : d[i] = c[i]
    BY <1>1
  <2>. QED
    BY <1>1, <2>1, SamePrefix
<1>3. ASSUME NEW h \in Published(d) PROVE \/ h \in Published(c) /\ d[h] = c[h]
                                          \/ /\ h = n + 1 /\ n = Len(c) /\ Published(c) = {}
                                             /\ d[h].base \in {1, 2} /\ d[h].valid \subseteq {1, 2}
  <2>1. h \in 1..Len(d) /\ d[h].kind = "publish"
    BY DEF Published
  <2>2. CASE h \in 1..n
    BY <1>1, <2>1, <2>2 DEF Published
  <2>3. CASE h \notin 1..n
    <3>1. n = Len(c) /\ h = n + 1 /\ d[h] \in Executable(c)
      BY <1>1, <2>1, <2>3
    <3>. QED
      BY <2>1, <3>1, ExecutableIs
  <2>. QED
    BY <2>2, <2>3
<1>4. \A h \in Published(d) : d[h].base \in {1, 2} /\ d[h].valid \subseteq {1, 2}
  BY <1>1, <1>3 DEF PublishMade
<1>5. \A g, h \in Published(d) : g = h
  BY <1>1, <1>3 DEF PublishMade
<1>6. ASSUME NEW h \in 1..Len(d), d[h].kind = "slash"
      PROVE  \E id \in OurIds(SubSeq(d, 1, h - 1)) : ActivatedOn(SubSeq(d, 1, h - 1), id) # {}
  <2>1. CASE h \in 1..n
    <3>1. SubSeq(d, 1, h - 1) = SubSeq(c, 1, h - 1)
      BY <1>1, <1>2, <2>1
    <3>2. h \in 1..Len(c) /\ c[h].kind = "slash"
      BY <1>1, <1>6, <2>1
    <3>. QED
      BY <1>1, <3>1, <3>2 DEF SlashMade
  <2>2. CASE h \notin 1..n
    <3>1. n = Len(c) /\ h = n + 1 /\ d[h] \in Executable(c)
      BY <1>1, <1>6, <2>2
    <3>2. SubSeq(d, 1, n) = SubSeq(c, 1, n)
      BY <1>1, <1>2
    <3>3. SubSeq(d, 1, h - 1) = c
      BY <1>1, <3>1, <3>2, WholePrefix
    <3>. QED
      BY <1>6, <3>1, <3>3, ExecutableIs
  <2>. QED
    BY <2>1, <2>2
<1>. QED
  BY <1>4, <1>5, <1>6 DEF ChainMade, PublishMade, SlashMade

\* What was reported stays reported when the part of the chain that no
\* reorganisation reaches stays.
LEMMA ReportsStay ==
  ASSUME AChain(chain), AChain(chain)', Len(chain) <= Len(chain'),
         \A n \in Fixed : \A i \in 1..n : chain'[i] = chain[i]
  PROVE  /\ \A s : SectorKept(s) => SectorKept(s)'
         /\ ActiveKept => ActiveKept'
         /\ SlashKept => SlashKept'
<1>1. Len(chain) \in Nat /\ Len(chain') \in Nat /\ Confidence \in Nat
  BY WholePrefix, SectorEventsAssumption
<1>2. ASSUME NEW n \in Fixed PROVE n \in Fixed' /\ Upto(n)' = Upto(n)
  <2>1. n \in Fixed' /\ n \in 0..Len(chain') /\ n <= Len(chain)
    BY <1>1 DEF Fixed
  <2>2. AChain(chain')
    BY DEF AChain
  <2>3. SubSeq(chain', 1, n) = SubSeq(chain, 1, n)
    BY <2>1, <2>2, SamePrefix
  <2>. QED
    BY <2>1, <2>3 DEF Upto
<1>3. ASSUME NEW s, SectorKept(s) PROVE SectorKept(s)'
  <2>1. PICK n \in Fixed : SectorSeen(Upto(n), s)
    BY <1>3 DEF SectorKept
  <2>2. n \in Fixed' /\ SectorSeen(Upto(n)', s)
    BY <1>2, <2>1
  <2>. QED
    BY <2>2 DEF SectorKept, SectorSeen
<1>4. ASSUME ActiveKept PROVE ActiveKept'
  <2>1. PICK n \in Fixed : ActiveSeen(Upto(n))
    BY <1>4 DEF ActiveKept
  <2>2. n \in Fixed' /\ ActiveSeen(Upto(n)')
    BY <1>2, <2>1
  <2>. QED
    BY <2>2 DEF ActiveKept, ActiveSeen
<1>5. ASSUME SlashKept PROVE SlashKept'
  <2>1. PICK n \in Fixed : SlashSeen(Upto(n))
    BY <1>5 DEF SlashKept
  <2>2. n \in Fixed' /\ SlashSeen(Upto(n)')
    BY <1>2, <2>1
  <2>. QED
    BY <2>2 DEF SlashKept, SlashSeen
<1>. QED
  BY <1>3, <1>4, <1>5

\* NewTipset: the chain grows by one tipset.
LEMMA NewTipsetKeeps ==
  ASSUME SectorInv, NewTipset
  PROVE  SectorInv'
<1>1. PICK m \in Executable(chain) : chain' = Append(chain, m)
  BY DEF NewTipset
<1>2. PICK T : chain \in Seq(T)
  BY DEF SectorInv, ChainMade, AChain
<1>3. PICK U : U = T \cup {m}
  OBVIOUS
<1>4. chain \in Seq(U) /\ m \in U /\ Len(chain) \in Nat
  BY <1>2, <1>3
<1>5. /\ chain' \in Seq(U) /\ Len(chain') = Len(chain) + 1 /\ chain'[Len(chain) + 1] = m
      /\ \A i \in 1..Len(chain) : chain'[i] = chain[i]
  BY <1>1, <1>4
<1>6. AChain(chain) /\ AChain(chain') /\ ChainMade(chain)
  BY <1>5 DEF SectorInv, ChainMade, AChain
<1>7. ChainMade(chain')
  <2>1. \A i \in 1..Len(chain') : i > Len(chain) => i = Len(chain) + 1 /\ chain'[i] \in Executable(chain)
    BY <1>4, <1>5
  <2>2. Len(chain) \in 0..Len(chain) /\ Len(chain) <= Len(chain')
    BY <1>4, <1>5
  <2>3. PICK d : d = chain'
    OBVIOUS
  <2>. QED
    BY <1>5, <1>6, <2>1, <2>2, <2>3, ChainStep
<1>8. SubSeq(chain', 1, Len(chain)) = chain
  <2>1. Len(chain) \in 0..Len(chain') /\ Len(chain) <= Len(chain)
    BY <1>4, <1>5
  <2>2. SubSeq(chain', 1, Len(chain)) = SubSeq(chain, 1, Len(chain))
    BY <1>5, <1>6, <2>1, SamePrefix
  <2>. QED
    BY <1>6, <2>2, WholePrefix
<1>9. PICK d : d = chain'
  OBVIOUS
<1>10. Len(chain) \in 0..Len(d) /\ AChain(d) /\ chain = SubSeq(d, 1, Len(chain))
  BY <1>4, <1>5, <1>6, <1>8, <1>9
<1>11. /\ \A h \in Published(chain) : h \in Published(d) /\ chain[h] = d[h]
       /\ ActiveSeen(chain) => ActiveSeen(d)
       /\ SlashSeen(chain) => SlashSeen(d)
  BY <1>10, PrefixSays, PrefixReports
<1>12. IsPublishedAs(chain, dealID) => IsPublishedAs(d, dealID)
  <2>. SUFFICES ASSUME IsPublishedAs(chain, dealID) PROVE IsPublishedAs(d, dealID)
    OBVIOUS
  <2>1. PICK h \in Published(chain) : chain[h].ok /\ 2 \in chain[h].valid /\ dealID = IdOf(chain[h], 2)
    BY DEF IsPublishedAs
  <2>2. h \in Published(d) /\ chain[h] = d[h]
    BY <1>11
  <2>. QED
    BY <2>1, <2>2 DEF IsPublishedAs
<1>13. UNCHANGED <<publisher, stage, dealID, sector, pre, com, end, reorgs, stateErrors>>
  BY DEF NewTipset
<1>14. WatchersOK' /\ reorgs' \in Nat /\ ChainMade(chain)'
  BY <1>7, <1>13 DEF SectorInv, WatchersOK, AWatcher, ChainMade, AChain, PublishMade, SlashMade
<1>15. Reports'
  <2>1. AChain(chain)' /\ Len(chain) <= Len(chain') /\ \A n \in Fixed : \A i \in 1..n : chain'[i] = chain[i]
    BY <1>4, <1>5, <1>6 DEF AChain, Fixed
  <2>2. /\ \A s : SectorKept(s) => SectorKept(s)'
        /\ ActiveKept => ActiveKept'
        /\ SlashKept => SlashKept'
    BY <1>6, <2>1, ReportsStay
  <2>. QED
    BY <1>13, <2>2 DEF SectorInv, Reports
<1>16. Untouched'
  <2>1. /\ IsPublishedAs(chain, dealID) => IsPublishedAs(chain', dealID')
        /\ ActiveSeen(chain) => ActiveSeen(chain')
        /\ SlashSeen(chain) => SlashSeen(chain')
    BY <1>9, <1>11, <1>12, <1>13
  <2>. QED
    BY <1>13, <2>1 DEF SectorInv, Untouched
<1>. QED
  BY <1>14, <1>15, <1>16 DEF SectorInv

\* A rewound watcher.
LEMMA RewoundIs ==
  ASSUME NEW w \in AWatcher, NEW cut \in Nat
  PROVE  LET v == Rewound(w, cut) IN
         /\ v \in AWatcher /\ v.on = w.on /\ v.told = w.told
         /\ v.next > 1 => w.next > 1
         /\ w.next = 1 => v.next = 1
<1>1. PICK x : x = IF w.next > cut + 1 THEN cut + 1 ELSE w.next
  OBVIOUS
<1>2. w.next \in Nat \ {0} /\ x \in Nat \ {0} /\ (x > 1 => w.next > 1) /\ (w.next = 1 => x = 1)
  BY <1>1 DEF AWatcher
<1>3. PICK v : v = [w EXCEPT !.next = x]
  OBVIOUS
<1>4. v \in AWatcher /\ v.on = w.on /\ v.told = w.told /\ v.next = x
  BY <1>2, <1>3 DEF AWatcher
<1>5. Rewound(w, cut) = v
  BY <1>1, <1>3 DEF Rewound
<1>. QED
  BY <1>2, <1>4, <1>5

\* Reorg: at most Confidence tipsets at the end give way to empty ones.
LEMMA ReorgKeeps ==
  ASSUME SectorInv, Reorg
  PROVE  SectorInv'
<1>0. Confidence \in Nat \ {0}
  BY SectorEventsAssumption
<1>1. PICK x \in 1..Confidence :
        /\ x <= Len(chain)
        /\ chain' = SubSeq(chain, 1, Len(chain) - x) \o [i \in 1..x |-> [kind |-> "none"]]
        /\ pre' = Rewound(pre, Len(chain) - x) /\ com' = Rewound(com, Len(chain) - x)
        /\ end' = Rewound(end, Len(chain) - x)
  BY DEF Reorg, ChainHead
<1>2. /\ reorgs' = reorgs + 1 /\ UNCHANGED <<publisher, stage, dealID, sector, stateErrors>>
      /\ reorgs \in Nat
  BY DEF Reorg, SectorInv
<1>3. AChain(chain) /\ ChainMade(chain) /\ Len(chain) \in Nat
  BY WholePrefix DEF SectorInv, ChainMade
<1>4. PICK cut : cut = Len(chain) - x
  OBVIOUS
<1>5. cut \in Nat /\ cut \in 0..Len(chain) /\ x \in Nat /\ cut + x = Len(chain)
  BY <1>0, <1>1, <1>3, <1>4
<1>6. /\ AChain(chain') /\ Len(chain') = Len(chain)
      /\ \A i \in 1..cut : chain'[i] = chain[i]
      /\ \A i \in 1..Len(chain') : i > cut => chain'[i] = [kind |-> "none"]
  <2>1. PICK P : P = SubSeq(chain, 1, cut)
    OBVIOUS
  <2>2. AChain(P) /\ Len(P) = cut /\ \A i \in 1..cut : P[i] = chain[i]
    BY <1>3, <1>5, <2>1, PrefixIs
  <2>3. PICK Q : Q = [i \in 1..x |-> [kind |-> "none"]]
    OBVIOUS
  <2>4. PICK N : N = [kind |-> "none"]
    OBVIOUS
  <2>5. Q \in Seq({N}) /\ Len(Q) = x /\ \A i \in 1..x : Q[i] = N
    BY <1>5, <2>3, <2>4
  <2>6. PICK T : P \in Seq(T)
    BY <2>2 DEF AChain
  <2>7. PICK U : U = T \cup {N}
    OBVIOUS
  <2>8. P \in Seq(U) /\ Q \in Seq(U)
    BY <2>5, <2>6, <2>7
  <2>9. chain' = P \o Q
    BY <1>1, <1>4, <2>1, <2>3
  <2>10. /\ chain' \in Seq(U) /\ Len(chain') = Len(P) + Len(Q)
         /\ \A i \in 1..Len(P) + Len(Q) : chain'[i] = IF i <= Len(P) THEN P[i] ELSE Q[i - Len(P)]
    BY <2>8, <2>9, ConcatProperties
  <2>11. Len(chain') = Len(chain) /\ \A i \in 1..cut : chain'[i] = chain[i]
    BY <1>5, <2>2, <2>5, <2>10
  <2>12. \A i \in 1..Len(chain') : i > cut => chain'[i] = N
    <3>. SUFFICES ASSUME NEW i \in 1..Len(chain'), i > cut PROVE chain'[i] = N
      OBVIOUS
    <3>1. i \in 1..Len(P) + Len(Q) /\ ~(i <= Len(P)) /\ i - Len(P) \in 1..x
      BY <1>5, <2>2, <2>5, <2>10
    <3>. QED
      BY <2>5, <2>10, <3>1
  <2>. QED
    BY <2>4, <2>10, <2>11, <2>12 DEF AChain
<1>7. ChainMade(chain')
  <2>1. PICK d : d = chain'
    OBVIOUS
  <2>2. AChain(d) /\ cut <= Len(d) /\ \A i \in 1..cut : d[i] = chain[i]
    BY <1>5, <1>6, <2>1
  <2>3. \A i \in 1..Len(d) : i > cut => d[i].kind = "none"
    BY <1>6, <2>1
  <2>4. ChainMade(d)
    BY <1>3, <1>5, <2>2, <2>3, ChainStep
  <2>. QED
    BY <2>1, <2>4
<1>8. pre \in AWatcher /\ com \in AWatcher /\ end \in AWatcher
  BY DEF SectorInv, WatchersOK
<1>9. /\ pre' \in AWatcher /\ com' \in AWatcher /\ end' \in AWatcher
      /\ com'.on = com.on /\ com'.told = com.told /\ end'.on = end.on /\ end'.told = end.told
      /\ com'.next > 1 => com.next > 1
      /\ end'.next > 1 => end.next > 1
      /\ end.next = 1 => end'.next = 1
  BY <1>1, <1>4, <1>5, <1>8, RewoundIs
<1>10. WatchersOK'
  BY <1>9 DEF SectorInv, WatchersOK, AWatcher
<1>11. Reports'
  <2>1. ASSUME NEW n \in Fixed, NEW i \in 1..n PROVE chain'[i] = chain[i]
    <3>1. i \in 1..cut
      BY <1>0, <1>1, <1>3, <1>5 DEF Fixed
    <3>. QED
      BY <1>6, <3>1
  <2>2. AChain(chain)' /\ Len(chain) <= Len(chain')
    BY <1>3, <1>6 DEF AChain
  <2>3. /\ \A s : SectorKept(s) => SectorKept(s)'
        /\ ActiveKept => ActiveKept'
        /\ SlashKept => SlashKept'
    BY <1>3, <2>1, <2>2, ReportsStay
  <2>. QED
    BY <1>2, <1>9, <2>3 DEF SectorInv, Reports
<1>12. Untouched'
  BY <1>2 DEF Untouched
<1>13. ChainMade(chain)' /\ reorgs' \in Nat
  BY <1>2, <1>7 DEF ChainMade, AChain, PublishMade, SlashMade
<1>. QED
  BY <1>10, <1>11, <1>12, <1>13 DEF SectorInv

\* When the chain stays, so does what it says.
LEMMA ChainStays ==
  ASSUME chain' = chain
  PROVE  /\ ChainMade(chain) => ChainMade(chain)'
         /\ \A s : SectorKept(s) => SectorKept(s)'
         /\ ActiveKept => ActiveKept'
         /\ SlashKept => SlashKept'
         /\ ActiveSeen(chain) => ActiveSeen(chain')
         /\ SlashSeen(chain) => SlashSeen(chain')
BY DEF ChainMade, AChain, PublishMade, SlashMade, SectorKept, ActiveKept, SlashKept, Fixed, Upto,
       SectorSeen, ActiveSeen, SlashSeen

\* ValidatePublishedDeal: the id is that of the message on the chain.
LEMMA ValidateKeeps ==
  ASSUME SectorInv, ValidatePublishedDeal
  PROVE  SectorInv'
<1>1. UNCHANGED <<chain, publisher, sector, pre, com, end, reorgs, stateErrors>>
  BY DEF ValidatePublishedDeal
<1>2. \/ stage' = "error" /\ dealID' = dealID
      \/ stage' = "precommit" /\ IsPublishedAs(chain, dealID')
  BY DEF ValidatePublishedDeal, IsPublishedAs
<1>3. ChainMade(chain)' /\ WatchersOK' /\ reorgs' \in Nat
  BY <1>1, ChainStays DEF SectorInv, WatchersOK, AWatcher
<1>4. Reports'
  BY <1>1, ChainStays DEF SectorInv, Reports
<1>5. Untouched'
  BY <1>1, <1>2, ChainStays DEF SectorInv, Untouched
<1>. QED
  BY <1>3, <1>4, <1>5 DEF SectorInv

\* A deal that has started is active on the chain that was looked at.
LEMMA StartedIsActive ==
  ASSUME PublishMade(chain), NEW h, NEW res \in GetCurrentDealInfo(h), res.started
  PROVE  ActiveSeen(Upto(h))
<1>1. res.DealID \in OurIds(Upto(h)) /\ HasState(Upto(h), res.DealID)
  BY InfoIsOurs
<1>. QED
  BY <1>1 DEF ActiveSeen, HasState

\* The watchers the client makes.
LEMMA NewWatchers ==
  ASSUME Len(chain) \in Nat
  PROVE  /\ [NoWatcher EXCEPT !.told = "active"] \in AWatcher
         /\ [NoWatcher EXCEPT !.told = "active"].on = FALSE
         /\ [NoWatcher EXCEPT !.told = "active"].next = 1
         /\ Watching \in AWatcher /\ Watching.told = "nothing" /\ Watching.on
         /\ NoWatcher \in AWatcher
<1>1. ASSUME NEW o \in BOOLEAN, NEW n \in Nat \ {0}, NEW t \in Told, NEW l \in BOOLEAN
      PROVE  [on |-> o, next |-> n, told |-> t, late |-> l] \in AWatcher
  BY Zenon DEF AWatcher
<1>2. [NoWatcher EXCEPT !.told = "active"] = [on |-> FALSE, next |-> 1, told |-> "active", late |-> FALSE]
  <2>1. ASSUME NEW o \in BOOLEAN
        PROVE  [[on |-> o, next |-> 1, told |-> "nothing", late |-> o] EXCEPT !.told = "active"]
                 = [on |-> o, next |-> 1, told |-> "active", late |-> o]
    OBVIOUS
  <2>2. FALSE \in BOOLEAN
    OBVIOUS
  <2>. QED
    BY <2>1, <2>2, Zenon DEF NoWatcher
<1>0. (Len(chain) >= TimeoutEpoch) \in BOOLEAN
  BY SMT
<1>3. PICK l \in BOOLEAN : l = (Len(chain) >= TimeoutEpoch)
  BY <1>0, Zenon
<1>4. Watching = [on |-> TRUE, next |-> Len(chain) + 1, told |-> "nothing", late |-> l]
  BY <1>3 DEF Watching, ChainHead
<1>5. "active" \in Told /\ "nothing" \in Told /\ 1 \in Nat \ {0} /\ Len(chain) + 1 \in Nat \ {0}
  BY DEF Told
<1>6. [on |-> FALSE, next |-> 1, told |-> "active", late |-> FALSE] \in AWatcher
  BY <1>1, <1>5
<1>7. Watching \in AWatcher
  BY <1>1, <1>3, <1>4, <1>5
<1>8. Watching.told = "nothing" /\ Watching.on
  BY <1>4
<1>9. NoWatcher \in AWatcher
  BY <1>1, <1>5 DEF NoWatcher
<1>. QED
  BY <1>2, <1>6, <1>7, <1>8, <1>9

\* OnDealSectorPreCommitted: the check finds the deal active or registers.
LEMMA OnPreCommittedKeeps ==
  ASSUME SectorInv, OnDealSectorPreCommitted
  PROVE  SectorInv'
<1>1. UNCHANGED <<chain, publisher, dealID, com, end, reorgs, stateErrors>> /\ stage = "precommit"
  BY DEF OnDealSectorPreCommitted
<1>2. AChain(chain) /\ PublishMade(chain) /\ Len(chain) \in Nat /\ Upto(Len(chain)) = chain
  BY WholePrefix DEF SectorInv, ChainMade, Upto
<1>3. diffPreCommits(PublishMsgTipSet, ChainHead) = {}
  BY DEF diffPreCommits, PublishMsgTipSet
<1>4. \/ stage' = "error" /\ pre' = pre /\ sector' = sector
      \/ /\ \E res \in checkIfDealAlreadyActive : res.started
         /\ pre' = [NoWatcher EXCEPT !.told = "active"] /\ stage' = "active" /\ sector' = sector
      \/ pre' = Watching /\ stage' = stage /\ sector' = sector
  BY <1>3 DEF OnDealSectorPreCommitted
<1>5. stage' = "active" => ActiveSeen(chain)
  BY <1>1, <1>2, <1>4, StartedIsActive DEF checkIfDealAlreadyActive, ChainHead
<1>6. pre' \in AWatcher
  <2>1. [NoWatcher EXCEPT !.told = "active"] \in AWatcher
    BY <1>2, NewWatchers, Zenon
  <2>2. Watching \in AWatcher
    BY <1>2, NewWatchers, Zenon
  <2>. QED
    BY <1>4, <2>1, <2>2 DEF SectorInv, WatchersOK
<1>7. sector' = sector
  BY <1>4
<1>8. ChainMade(chain)' /\ WatchersOK' /\ reorgs' \in Nat
  BY <1>1, <1>6, ChainStays DEF SectorInv, WatchersOK, AWatcher
<1>9. Reports'
  BY <1>1, <1>7, ChainStays DEF SectorInv, Reports
<1>10. Untouched'
  BY <1>1, <1>5, ChainStays DEF SectorInv, Untouched, IsPublishedAs
<1>. QED
  BY <1>8, <1>9, <1>10 DEF SectorInv

\* PreCommitCalled: a sector it reports is in the part of the chain that stays.
LEMMA PreCommitCalledKeeps ==
  ASSUME SectorInv, PreCommitCalled
  PROVE  SectorInv'
<1>1. UNCHANGED <<chain, publisher, dealID, com, end, reorgs, stateErrors>>
  BY DEF PreCommitCalled
<1>2. AChain(chain) /\ PublishMade(chain) /\ Len(chain) \in Nat /\ pre \in AWatcher /\ Confidence \in Nat
  BY WholePrefix, SectorEventsAssumption DEF SectorInv, ChainMade, WatchersOK
<1>3. PICK h : h = pre.next
  OBVIOUS
<1>4. pre.on /\ h \in Nat \ {0} /\ h + Confidence <= Len(chain) /\ h \in Fixed /\ h \in 1..Len(chain)
  BY <1>2, <1>3 DEF PreCommitCalled, Due, ChainHead, Fixed, AWatcher
<1>5. PICK found : found = IF chain[h].kind = "precommit" /\ chain[h].ok
                            THEN UNION {dealSectorInPreCommitMsg(chain[h], id) : id \in PreCommitDealID(h)} ELSE {}
  OBVIOUS
<1>a. PICK ends : ends = (((chain[h].kind = "precommit" /\ chain[h].ok) /\ PreCommitDealID(h) = {})
                          \/ PreCommitTimesOut(h))
  OBVIOUS
<1>b. PICK told : told = Once(pre, IF found # {} THEN "sector" ELSE IF ends THEN "error" ELSE "nothing")
  OBVIOUS
<1>c. /\ pre' = [pre EXCEPT !.on = ~ends, !.next = h + 1, !.told = told]
      /\ IF pre.told = "nothing" /\ told = "sector"
         THEN \E s \in found : sector' = s /\ stage' = "commit"
         ELSE /\ sector' = sector
              /\ stage' = IF pre.told = "nothing" /\ told = "error" THEN "error" ELSE stage
  BY <1>3, <1>5, <1>a, <1>b, Zenon DEF PreCommitCalled
<1>6. told \in Told
  BY <1>2, <1>b DEF Once, Told, AWatcher
<1>d. ends \in BOOLEAN
  BY <1>a
<1>7. pre' \in AWatcher
  <2>1. PICK o \in BOOLEAN : o = ~ends
    BY <1>d
  <2>2. pre' = [pre EXCEPT !.on = o, !.next = h + 1, !.told = told]
    BY <1>c, <2>1
  <2>3. PICK n \in Nat \ {0} : n = h + 1
    BY <1>4
  <2>4. PICK v : v = pre'
    OBVIOUS
  <2>5. v = [pre EXCEPT !.on = o, !.next = n, !.told = told]
    BY <2>2, <2>3, <2>4
  <2>6. pre \in AWatcher
    BY <1>2
  <2>7. v \in AWatcher
    BY <1>6, <2>5, <2>6 DEF AWatcher
  <2>. QED
    BY <2>4, <2>7
<1>8. ASSUME NEW s \in found PROVE SectorKept(s)
  <2>1. PICK id \in PreCommitDealID(h) : s \in dealSectorInPreCommitMsg(chain[h], id)
    BY <1>5, <1>8
  <2>2. chain[h].kind = "precommit" /\ chain[h].ok
    BY <1>5, <1>8
  <2>3. s \in SectorNumbers /\ chain[h].ids[s] = id
    BY <2>1 DEF dealSectorInPreCommitMsg
  <2>4. id \in OurIds(Upto(h))
    BY <1>2, <2>1, InfoIsOurs DEF PreCommitDealID
  <2>5. PICK P : P = Upto(h)
    OBVIOUS
  <2>6. Len(P) = h /\ P[h] = chain[h]
    BY <1>2, <1>4, <2>5, PrefixIs DEF Upto
  <2>7. h \in PreCommitsOn(P)
    BY <1>4, <2>2, <2>6 DEF PreCommitsOn
  <2>8. s \in SectorsWith(P, id)
    BY <2>3, <2>6, <2>7 DEF SectorsWith
  <2>9. SectorSeen(Upto(h), s)
    BY <2>4, <2>5, <2>8 DEF SectorSeen
  <2>. QED
    BY <1>4, <2>9 DEF SectorKept
<1>9. \/ sector' = sector
      \/ SectorKept(sector')
  BY <1>8, <1>c
<1>10. stage' \in {"commit", "error", stage}
  BY <1>c
<1>11. ChainMade(chain)' /\ WatchersOK' /\ reorgs' \in Nat
  BY <1>1, <1>7, ChainStays DEF SectorInv, WatchersOK, AWatcher
<1>12. Reports'
  <2>1. sector' # 0 => SectorKept(sector')
    BY <1>9 DEF SectorInv, Reports
  <2>2. PICK s : s = sector'
    OBVIOUS
  <2>3. s # 0 => SectorKept(s)'
    BY <1>1, <2>1, <2>2, ChainStays
  <2>4. sector' # 0 => SectorKept(sector)'
    BY <2>2, <2>3 DEF SectorKept
  <2>. QED
    BY <1>1, <2>4, ChainStays DEF SectorInv, Reports
<1>13. Untouched'
  <2>1. reorgs = 0 => IsPublishedAs(chain', dealID')
    BY <1>1, <1>4 DEF SectorInv, Untouched
  <2>. QED
    BY <1>1, <1>10, <2>1, ChainStays DEF SectorInv, Untouched
<1>. QED
  BY <1>11, <1>12, <1>13 DEF SectorInv

\* OnDealSectorCommitted: the check finds the deal active or registers.
LEMMA OnCommittedKeeps ==
  ASSUME SectorInv, OnDealSectorCommitted
  PROVE  SectorInv'
<1>1. /\ UNCHANGED <<chain, publisher, dealID, sector, pre, end, reorgs, stateErrors>>
      /\ stage = "commit" /\ ~com.on
  BY DEF OnDealSectorCommitted
<1>2. AChain(chain) /\ PublishMade(chain) /\ Len(chain) \in Nat /\ Upto(Len(chain)) = chain
  BY WholePrefix DEF SectorInv, ChainMade, Upto
<1>3. \/ stage' = "error" /\ com' = com
      \/ /\ \E res \in checkIfDealAlreadyActive : res.started
         /\ com' = [NoWatcher EXCEPT !.told = "active"] /\ stage' = "active"
      \/ com' = Watching /\ stage' = stage
  BY DEF OnDealSectorCommitted
<1>4. (\E res \in checkIfDealAlreadyActive : res.started) => ActiveSeen(chain)
  BY <1>2, StartedIsActive DEF checkIfDealAlreadyActive, ChainHead
<1>5. /\ [NoWatcher EXCEPT !.told = "active"] \in AWatcher
      /\ ~[NoWatcher EXCEPT !.told = "active"].on
      /\ [NoWatcher EXCEPT !.told = "active"].next = 1
      /\ Watching \in AWatcher /\ Watching.told = "nothing"
  BY <1>2, NewWatchers, Zenon
<1>6. \/ com' = com /\ stage' = "error"
      \/ /\ com' \in AWatcher /\ ~com'.on /\ com'.next = 1
         /\ ActiveSeen(chain) /\ stage' = "active"
      \/ com' \in AWatcher /\ com'.told = "nothing" /\ stage' = stage
  BY <1>3, <1>4, <1>5
<1>7. com' \in AWatcher /\ (com'.told = "active" => ~com'.on)
  BY <1>6 DEF SectorInv, WatchersOK
<1>8. ChainMade(chain)' /\ WatchersOK' /\ reorgs' \in Nat
  BY <1>1, <1>7, ChainStays DEF SectorInv, WatchersOK, AWatcher
<1>9. Reports'
  <2>1. com'.told = "active" /\ com'.next > 1 => ActiveKept
    BY <1>6 DEF SectorInv, Reports
  <2>. QED
    BY <1>1, <2>1, ChainStays DEF SectorInv, Reports
<1>10. Untouched'
  <2>1. reorgs = 0 => IsPublishedAs(chain', dealID')
    BY <1>1 DEF SectorInv, Untouched
  <2>2. reorgs = 0 => (stage' = "active" \/ com'.told = "active" => ActiveSeen(chain'))
    BY <1>1, <1>6 DEF SectorInv, Untouched
  <2>. QED
    BY <1>1, <2>1, <2>2, ChainStays DEF SectorInv, Untouched
<1>. QED
  BY <1>8, <1>9, <1>10 DEF SectorInv

\* CommitCalled: a deal it reports active is, in the part of the chain that stays.
LEMMA CommitCalledKeeps ==
  ASSUME SectorInv, CommitCalled
  PROVE  SectorInv'
<1>1. UNCHANGED <<chain, publisher, dealID, sector, pre, end, reorgs, stateErrors>>
  BY DEF CommitCalled
<1>2. AChain(chain) /\ PublishMade(chain) /\ Len(chain) \in Nat /\ com \in AWatcher /\ Confidence \in Nat
  BY WholePrefix, SectorEventsAssumption DEF SectorInv, ChainMade, WatchersOK
<1>3. PICK h : h = com.next
  OBVIOUS
<1>4. com.on /\ h \in Nat \ {0} /\ h + Confidence <= Len(chain) /\ h \in Fixed /\ h \in 0..Len(chain)
  BY <1>2, <1>3 DEF CommitCalled, Due, ChainHead, Fixed, AWatcher
<1>5. com.told # "active"
  BY <1>4 DEF SectorInv, WatchersOK
<1>6. PICK matched : matched = (sectorInCommitMsg(chain[h]) /\ chain[h].ok)
  OBVIOUS
<1>7. PICK over : over = (h = TimeoutEpoch)
  OBVIOUS
<1>8. PICK told : told = CASE matched /\ CommitActive(h) -> "active"
                           [] matched -> "error"
                           [] ~matched /\ over -> "error"
                           [] OTHER -> "nothing"
  OBVIOUS
<1>9. /\ com' = [com EXCEPT !.on = ~(matched \/ over), !.next = h + 1, !.told = Once(com, told)]
      /\ stage' = CASE com.told # "nothing" -> stage
                    [] told = "active" -> "active"
                    [] told = "error" -> "error"
                    [] OTHER -> stage
  BY <1>3, <1>6, <1>7, <1>8, Zenon DEF CommitCalled
<1>10. told \in {"active", "error", "nothing"} /\ (told = "active" => matched /\ CommitActive(h))
  BY <1>8
<1>11. told = "active" => ActiveSeen(Upto(h))
  BY <1>2, <1>10, StartedIsActive DEF CommitActive
<1>12. Once(com, told) \in Told /\ (Once(com, told) = "active" => told = "active")
  BY <1>2, <1>5, <1>10 DEF Once, Told, AWatcher
<1>13. com' \in AWatcher /\ com'.on = ~(matched \/ over) /\ com'.told = Once(com, told)
  <2>1. (matched \/ over) \in BOOLEAN
    BY <1>6, <1>7
  <2>2. PICK o \in BOOLEAN : o = ~(matched \/ over)
    BY <2>1
  <2>3. com' = [com EXCEPT !.on = o, !.next = h + 1, !.told = Once(com, told)]
    BY <1>9, <2>2
  <2>4. h + 1 \in Nat \ {0}
    BY <1>4
  <2>5. com' \in AWatcher
    BY <1>2, <1>12, <2>3, <2>4 DEF AWatcher
  <2>6. com'.on = o /\ com'.told = Once(com, told)
    BY <1>2, <2>3 DEF AWatcher
  <2>. QED
    BY <2>2, <2>5, <2>6
<1>14. com'.told = "active" => ~com'.on /\ ActiveSeen(Upto(h))
  BY <1>10, <1>11, <1>12, <1>13
<1>15. stage' = "active" => stage = "active" \/ ActiveSeen(Upto(h))
  BY <1>9, <1>11
<1>16. ChainMade(chain)' /\ WatchersOK' /\ reorgs' \in Nat
  BY <1>1, <1>13, <1>14, ChainStays DEF SectorInv, WatchersOK, AWatcher
<1>17. Reports'
  <2>1. com'.told = "active" => ActiveKept
    BY <1>4, <1>14 DEF ActiveKept
  <2>. QED
    BY <1>1, <2>1, ChainStays DEF SectorInv, Reports
<1>18. Untouched'
  <2>1. reorgs = 0 => IsPublishedAs(chain', dealID')
    BY <1>1, <1>4 DEF SectorInv, Untouched
  <2>2. ActiveSeen(Upto(h)) => ActiveSeen(chain)
    BY <1>2, <1>4, PrefixReports DEF Upto
  <2>3. reorgs = 0 => (stage' = "active" \/ com'.told = "active" => ActiveSeen(chain'))
    BY <1>1, <1>14, <1>15, <2>2 DEF SectorInv, Untouched
  <2>. QED
    BY <1>1, <2>1, <2>3, ChainStays DEF SectorInv, Untouched
<1>. QED
  BY <1>16, <1>17, <1>18 DEF SectorInv

\* The one id of the client's deal on a chain.
LEMMA OurIdIs ==
  ASSUME NEW c, PublishMade(c), NEW d, IsPublishedAs(c, d), NEW id \in OurIds(c)
  PROVE  id = d
<1>1. PICK p \in ProposalOn(c, id) : p.piece = "ours"
  BY DEF OurIds, Ours
<1>2. PICK j \in 1..2 : /\ p = PublishedDeals[j]
                        /\ \E h \in Published(c) : c[h].ok /\ j \in c[h].valid /\ IdOf(c[h], j) = id
  BY DEF ProposalOn
<1>3. PublishedDeals[1].piece = "other"
  BY DEF PublishedDeals
<1>4. j = 2
  BY <1>1, <1>2, <1>3
<1>. QED
  BY <1>2, <1>4 DEF PublishMade, IsPublishedAs

\* OnDealExpiredOrSlashed: without reorganisations a deal without state is slashed.
LEMMA OnExpiredKeeps ==
  ASSUME SectorInv, OnDealExpiredOrSlashed
  PROVE  SectorInv'
<1>1. /\ UNCHANGED <<chain, publisher, dealID, sector, pre, com, reorgs, stateErrors>>
      /\ stage = "active" /\ ~end.on /\ end.told = "nothing"
  BY DEF OnDealExpiredOrSlashed
<1>2. AChain(chain) /\ PublishMade(chain) /\ Len(chain) \in Nat /\ end \in AWatcher /\ end.next = 1
  BY <1>1, WholePrefix DEF SectorInv, ChainMade, WatchersOK
<1>3. \/ stage' = "error" /\ end' = end
      \/ stage' = "expired" /\ end' = [end EXCEPT !.told = "expired"]
      \/ ~HasState(chain, dealID) /\ stage' = "slashed" /\ end' = [end EXCEPT !.told = "slashed"]
      \/ end' = Watching /\ stage' = stage
  BY DEF OnDealExpiredOrSlashed
<1>4. ASSUME reorgs = 0, ~HasState(chain, dealID) PROVE SlashSeen(chain)
  <2>1. ActiveSeen(chain) /\ IsPublishedAs(chain, dealID)
    BY <1>1, <1>4 DEF SectorInv, Untouched
  <2>2. PICK id \in OurIds(chain) : ActivatedOn(chain, id) # {}
    BY <2>1 DEF ActiveSeen
  <2>3. id = dealID
    BY <1>2, <2>1, OurIdIs
  <2>. QED
    BY <1>4, <2>2, <2>3 DEF HasState, SlashSeen
<1>5. /\ [end EXCEPT !.told = "expired"] \in AWatcher /\ [end EXCEPT !.told = "slashed"] \in AWatcher
      /\ [end EXCEPT !.told = "expired"].told = "expired"
      /\ [end EXCEPT !.told = "slashed"].next = 1
  BY <1>2 DEF AWatcher, Told
<1>6. [end EXCEPT !.told = "slashed"].on = end.on
  BY <1>2 DEF AWatcher
<1>7. Watching \in AWatcher /\ Watching.told = "nothing" /\ Watching.on
  BY <1>2, NewWatchers, Zenon
<1>8. \/ end' = end
      \/ end' \in AWatcher /\ end'.told = "expired"
      \/ end' \in AWatcher /\ ~end'.on /\ end'.next = 1 /\ end'.told = "slashed" /\ ~HasState(chain, dealID)
      \/ end' \in AWatcher /\ end'.told = "nothing" /\ end'.on
  <2>1. [end EXCEPT !.told = "slashed"].told = "slashed"
    BY <1>2 DEF AWatcher
  <2>. QED
    BY <1>1, <1>3, <1>5, <1>6, <1>7, <2>1
<1>9. ChainMade(chain)' /\ WatchersOK' /\ reorgs' \in Nat
  <2>1. /\ end' \in AWatcher
        /\ end'.told = "nothing" /\ ~end'.on => end'.next = 1
        /\ end'.told = "slashed" => ~end'.on
    BY <1>1, <1>2, <1>8
  <2>. QED
    BY <1>1, <2>1, ChainStays DEF SectorInv, WatchersOK, AWatcher
<1>10. Reports'
  <2>1. ~(end'.told = "slashed" /\ end'.next > 1)
    BY <1>1, <1>8
  <2>. QED
    BY <1>1, <2>1, ChainStays DEF SectorInv, Reports
<1>11. Untouched'
  <2>1. reorgs = 0 => (end'.told = "slashed" => SlashSeen(chain'))
    BY <1>1, <1>4, <1>8
  <2>2. reorgs = 0 => IsPublishedAs(chain', dealID') /\ ActiveSeen(chain')
    BY <1>1 DEF SectorInv, Untouched
  <2>. QED
    BY <1>1, <2>1, <2>2 DEF Untouched
<1>. QED
  BY <1>9, <1>10, <1>11 DEF SectorInv

\* A deal that lost its state was slashed, and so was a deal of ours.
LEMMA LostIsSlashed ==
  ASSUME ChainMade(chain), NEW h \in 1..Len(chain), NEW id,
         HasState(Upto(h - 1), id), ~HasState(Upto(h), id)
  PROVE  SlashSeen(Upto(h))
<1>0. AChain(chain) /\ SlashMade(chain) /\ Len(chain) \in Nat /\ h \in 0..Len(chain) /\ h - 1 \in 0..h
  BY WholePrefix DEF ChainMade
<1>1. PICK P : P = Upto(h)
  OBVIOUS
<1>2. /\ AChain(P) /\ Len(P) = h /\ \A i \in 1..h : P[i] = chain[i]
      /\ \A k \in 0..h : SubSeq(P, 1, k) = SubSeq(chain, 1, k)
  BY <1>0, <1>1, PrefixIs DEF Upto
<1>3. PICK Q : Q = SubSeq(P, 1, h - 1)
  OBVIOUS
<1>4. Q = Upto(h - 1) /\ h - 1 \in 0..Len(P)
  BY <1>0, <1>2, <1>3 DEF Upto
<1>5. ActivatedOn(P, id) # {}
  <2>1. ActivatedOn(Q, id) # {}
    BY <1>4 DEF HasState
  <2>2. ActivatedOn(Q, id) \subseteq ActivatedOn(P, id)
    BY <1>2, <1>3, <1>4, PrefixSays
  <2>. QED
    BY <2>1, <2>2
<1>6. PICK k \in SlashedOn(P, id) : TRUE
  BY <1>1, <1>5 DEF HasState
<1>7. k \in 1..h /\ P[k].kind = "slash"
  BY <1>2 DEF SlashedOn
<1>8. k \in 1..Len(chain) /\ chain[k].kind = "slash" /\ k - 1 \in 0..h
  BY <1>0, <1>2, <1>7
<1>9. PICK z \in OurIds(SubSeq(chain, 1, k - 1)) : ActivatedOn(SubSeq(chain, 1, k - 1), z) # {}
  BY <1>0, <1>8 DEF SlashMade
<1>10. SubSeq(P, 1, k - 1) = SubSeq(chain, 1, k - 1)
  BY <1>2, <1>8
<1>11. k \in SlashedOn(P, z)
  BY <1>2, <1>7, <1>9, <1>10 DEF SlashedOn
<1>12. PICK R : R = SubSeq(P, 1, k - 1)
  OBVIOUS
<1>13. OurIds(R) \subseteq OurIds(P)
  BY <1>2, <1>8, <1>12, PrefixSays
<1>. QED
  BY <1>1, <1>9, <1>10, <1>11, <1>12, <1>13 DEF SlashSeen

\* StateChangedCalled: a deal it reports slashed is, in the part that stays.
LEMMA StateChangedKeeps ==
  ASSUME SectorInv, StateChangedCalled
  PROVE  SectorInv'
<1>1. UNCHANGED <<chain, publisher, dealID, sector, pre, com, reorgs>>
  BY DEF StateChangedCalled
<1>2. /\ AChain(chain) /\ ChainMade(chain) /\ Len(chain) \in Nat /\ end \in AWatcher
      /\ Confidence \in Nat
  BY WholePrefix, SectorEventsAssumption DEF SectorInv, ChainMade, WatchersOK
<1>3. PICK h : h = end.next
  OBVIOUS
<1>4. end.on /\ h \in Nat \ {0} /\ h + Confidence <= Len(chain) /\ h \in Fixed /\ h \in 1..Len(chain)
  BY <1>2, <1>3 DEF StateChangedCalled, Due, ChainHead, Fixed, AWatcher
<1>5. end.told # "slashed"
  BY <1>4 DEF SectorInv, WatchersOK
<1>6. \/ end' = [end EXCEPT !.next = h + 1] /\ stage' = stage
      \/ end' = [end EXCEPT !.on = FALSE, !.next = h + 1, !.told = "expired"] /\ stage' = "expired"
      \/ /\ DealStateChanged(h) /\ ~HasState(Upto(h), dealID)
         /\ end' = [end EXCEPT !.on = FALSE, !.next = h + 1, !.told = "slashed"] /\ stage' = "slashed"
  BY <1>3 DEF StateChangedCalled, Upto
<1>7. DealStateChanged(h) /\ ~HasState(Upto(h), dealID) => SlashSeen(Upto(h))
  <2>. SUFFICES ASSUME DealStateChanged(h), ~HasState(Upto(h), dealID) PROVE SlashSeen(Upto(h))
    OBVIOUS
  <2>1. HasState(Upto(h - 1), dealID)
    BY DEF DealStateChanged, Upto, HasState
  <2>. QED
    BY <1>2, <1>4, <2>1, LostIsSlashed
<1>8. \/ end' \in AWatcher /\ end'.on /\ end'.told = end.told /\ stage' = stage
      \/ end' \in AWatcher /\ end'.told = "expired" /\ stage' = "expired"
      \/ end' \in AWatcher /\ end'.told = "slashed" /\ ~end'.on /\ stage' = "slashed" /\ SlashSeen(Upto(h))
  <2>0. h + 1 \in Nat \ {0} /\ "expired" \in Told /\ "slashed" \in Told
    BY <1>4 DEF Told
  <2>1. PICK o \in BOOLEAN : o = FALSE
    OBVIOUS
  <2>2. ASSUME NEW t \in Told, NEW v, v = [end EXCEPT !.on = o, !.next = h + 1, !.told = t]
        PROVE  v \in AWatcher /\ v.told = t /\ v.on = o
    <3>1. v \in AWatcher
      BY <1>2, <2>0, <2>2 DEF AWatcher
    <3>2. v.told = t /\ v.on = o
      BY <1>2, <2>2 DEF AWatcher
    <3>. QED
      BY <3>1, <3>2
  <2>3. ASSUME NEW v, v = [end EXCEPT !.next = h + 1]
        PROVE  v \in AWatcher /\ v.told = end.told /\ v.on = end.on
    <3>1. v \in AWatcher
      BY <1>2, <2>0, <2>3 DEF AWatcher
    <3>2. v.told = end.told /\ v.on = end.on
      BY <1>2, <2>3 DEF AWatcher
    <3>. QED
      BY <3>1, <3>2
  <2>4. CASE end' = [end EXCEPT !.next = h + 1] /\ stage' = stage
    BY <1>4, <2>3, <2>4
  <2>5. CASE end' = [end EXCEPT !.on = FALSE, !.next = h + 1, !.told = "expired"] /\ stage' = "expired"
    BY <2>0, <2>1, <2>2, <2>5
  <2>6. CASE /\ DealStateChanged(h) /\ ~HasState(Upto(h), dealID)
             /\ end' = [end EXCEPT !.on = FALSE, !.next = h + 1, !.told = "slashed"] /\ stage' = "slashed"
    <3>1. end' \in AWatcher /\ end'.told = "slashed" /\ end'.on = o
      BY <2>0, <2>1, <2>2, <2>6
    <3>. QED
      BY <1>7, <2>1, <2>6, <3>1
  <2>. QED
    BY <1>6, <2>4, <2>5, <2>6
<1>9. ChainMade(chain)' /\ WatchersOK' /\ reorgs' \in Nat
  <2>1. /\ end' \in AWatcher
        /\ end'.told = "nothing" /\ ~end'.on => end'.next = 1
        /\ end'.told = "slashed" => ~end'.on
    BY <1>5, <1>8
  <2>. QED
    BY <1>1, <2>1, ChainStays DEF SectorInv, WatchersOK, AWatcher
<1>10. Reports'
  <2>1. end'.told = "slashed" => SlashKept
    BY <1>4, <1>5, <1>8 DEF SlashKept
  <2>. QED
    BY <1>1, <2>1, ChainStays DEF SectorInv, Reports
<1>11. Untouched'
  <2>1. SlashSeen(Upto(h)) => SlashSeen(chain')
    BY <1>1, <1>2, <1>4, PrefixReports DEF Upto
  <2>2. end'.told = "slashed" => SlashSeen(chain')
    BY <1>5, <1>8, <2>1
  <2>3. stage' \in {stage, "expired", "slashed"}
    BY <1>8
  <2>. QED
    BY <1>1, <2>2, <2>3 DEF SectorInv, Untouched
<1>. QED
  BY <1>9, <1>10, <1>11 DEF SectorInv

\* StateChangedTimeout: the deal is taken for expired.
LEMMA TimeoutKeeps ==
  ASSUME SectorInv, StateChangedTimeout
  PROVE  SectorInv'
<1>1. /\ UNCHANGED <<chain, publisher, dealID, sector, pre, com, reorgs, stateErrors>>
      /\ end' = [end EXCEPT !.on = FALSE, !.told = "expired"] /\ stage' = "expired"
  BY DEF StateChangedTimeout
<1>2. end \in AWatcher
  BY DEF SectorInv, WatchersOK
<1>3. PICK o \in BOOLEAN : o = FALSE
  OBVIOUS
<1>4. end' = [end EXCEPT !.on = o, !.told = "expired"]
  BY <1>1, <1>3
<1>5. end' \in AWatcher /\ end'.told = "expired"
  BY <1>2, <1>4 DEF AWatcher, Told
<1>6. ChainMade(chain)' /\ WatchersOK' /\ reorgs' \in Nat
  BY <1>1, <1>5, ChainStays DEF SectorInv, WatchersOK, AWatcher
<1>7. Reports'
  BY <1>1, <1>5, ChainStays DEF SectorInv, Reports
<1>8. Untouched'
  BY <1>1, <1>5, ChainStays DEF SectorInv, Untouched
<1>. QED
  BY <1>6, <1>7, <1>8 DEF SectorInv

\* The publish message has just been executed.
LEMMA SectorStarts == SectorInit => SectorInv
<1>. SUFFICES ASSUME SectorInit PROVE SectorInv
  OBVIOUS
<1>1. PICK m \in PublishMessages(<<>>) : chain = <<m>>
  BY DEF SectorInit
<1>2. m.kind = "publish" /\ m.base \in {1, 2} /\ m.valid \subseteq {1, 2}
  BY DEF PublishMessages
<1>3. chain \in Seq({m}) /\ Len(chain) = 1 /\ chain[1] = m
  BY <1>1
<1>4. ChainMade(chain)
  <2>1. Published(chain) = {1}
    BY <1>2, <1>3 DEF Published
  <2>2. PublishMade(chain)
    BY <1>2, <1>3, <2>1 DEF PublishMade
  <2>3. SlashMade(chain)
    BY <1>2, <1>3 DEF SlashMade
  <2>. QED
    BY <1>3, <2>2, <2>3 DEF ChainMade, AChain
<1>5. NoWatcher \in AWatcher
  <2>1. Len(chain) \in Nat
    BY <1>3
  <2>. QED
    BY <2>1, NewWatchers, Zenon
<1>6. /\ stage = "validate" /\ sector = 0 /\ pre = NoWatcher /\ com = NoWatcher /\ end = NoWatcher
      /\ reorgs = 0
  BY DEF SectorInit
<1>7. NoWatcher.told = "nothing" /\ NoWatcher.next = 1 /\ ~NoWatcher.on
  BY DEF NoWatcher
<1>8. WatchersOK /\ Reports /\ Untouched
  BY <1>5, <1>6, <1>7 DEF WatchersOK, Reports, Untouched
<1>. QED
  BY <1>4, <1>6, <1>8 DEF SectorInv

\* What was reported is what the chain says.
LEMMA ReportsAreTrue == SectorInv => SectorReported
<1>. SUFFICES ASSUME SectorInv PROVE SectorReported
  OBVIOUS
<1>1. AChain(chain)
  BY DEF SectorInv, ChainMade
<1>2. \A n \in Fixed : n \in 0..Len(chain)
  BY DEF Fixed
<1>3. /\ \A s : SectorKept(s) => SectorSeen(chain, s)
      /\ ActiveKept => ActiveSeen(chain)
      /\ SlashKept => SlashSeen(chain)
  <2>1. ASSUME NEW n \in Fixed
        PROVE  /\ \A s : SectorSeen(Upto(n), s) => SectorSeen(chain, s)
               /\ ActiveSeen(Upto(n)) => ActiveSeen(chain)
               /\ SlashSeen(Upto(n)) => SlashSeen(chain)
    BY <1>1, <1>2, PrefixReports DEF Upto
  <2>. QED
    BY <2>1 DEF SectorKept, ActiveKept, SlashKept
<1>4. sector # 0 => SectorSeen(chain, sector)
  BY <1>3 DEF SectorInv, Reports
<1>5. com.told = "active" /\ (com.next > 1 \/ reorgs = 0) => ActiveSeen(chain)
  BY <1>3 DEF SectorInv, Reports, Untouched
<1>6. end.told = "slashed" /\ (end.next > 1 \/ reorgs = 0) => SlashSeen(chain)
  BY <1>3 DEF SectorInv, Reports, Untouched
<1>. QED
  BY <1>4, <1>5, <1>6 DEF SectorReported, SectorSeen, ActiveSeen, SlashSeen

\* What the handlers of the sector events report is what the chain says,
\* reorganisations of up to Confidence tipsets or not (SectorReported).
THEOREM SectorReportsHold == SectorSpec => []SectorReported
<1>1. SectorInit => SectorInv
  BY SectorStarts
<1>2. SectorInv /\ [SectorNext]_sectorVars => SectorInv'
  <2>. SUFFICES ASSUME SectorInv, [SectorNext]_sectorVars PROVE SectorInv'
    OBVIOUS
  <2>1. CASE UNCHANGED sectorVars
    <3>1. UNCHANGED <<chain, stage, dealID, sector, pre, com, end, reorgs>>
      BY <2>1 DEF sectorVars
    <3>2. ChainMade(chain)' /\ WatchersOK' /\ reorgs' \in Nat
      BY <3>1, ChainStays DEF SectorInv, WatchersOK, AWatcher
    <3>3. Reports'
      BY <3>1, ChainStays DEF SectorInv, Reports
    <3>4. Untouched'
      BY <3>1, ChainStays DEF SectorInv, Untouched
    <3>. QED
      BY <3>2, <3>3, <3>4 DEF SectorInv
  <2>. QED
    BY <2>1, NewTipsetKeeps, ReorgKeeps, ValidateKeeps, OnPreCommittedKeeps, PreCommitCalledKeeps,
       OnCommittedKeeps, CommitCalledKeeps, OnExpiredKeeps, StateChangedKeeps, TimeoutKeeps
       DEF SectorNext, SectorProgress
<1>3. SectorInv => SectorReported
  BY ReportsAreTrue
<1>. QED
  BY <1>1, <1>2, <1>3, PTL DEF SectorSpec
=============================================================================
