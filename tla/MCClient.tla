------------------------------ MODULE MCClient ------------------------------
(***************************************************************************)
(* Instance of the client's calls and of what the node keeps and follows   *)
(* for its deals: sector events, the two deal repositories, imports,       *)
(* retrievals and messages.  The five share no state, so each behaviour    *)
(* moves one of them, the one that part names, and the others stay where   *)
(* they begin.                                                             *)
(***************************************************************************)
EXTENDS SectorEvents, DealStores, ClientImports, ClientRetrieval, Messaging

CONSTANTS m1, m2, p1, p2, r1, r2, k1, k2, stranger, worker1, worker2

VARIABLE part

MCProvider == 1 :> m1 @@ 2 :> m1 @@ 3 :> m2
MCPieceCID == 1 :> p1 @@ 2 :> p1 @@ 3 :> p2
MCRoot == 1 :> r1 @@ 2 :> r2 @@ 3 :> r2
MCLabel == 1 :> "utf8 bytes" @@ 2 :> "bytes" @@ 3 :> "string"
MCConfigured == <<stranger, k1>>
MCConfigUsers == <<<<k1, "config">>>>
MCAuthUsers == <<<<m1, "auth">>>>

mcVars == <<sectorVars, storeVars, importVars, retrieveVars, msgVars, part>>

\* The first state of the components that do not move.
StillSector == publisher = "control" /\ chain = <<CHOOSE m \in PublishMessages(<<>>) : TRUE>>
StillStores == repository = CHOOSE r \in Repositories : TRUE

MCInit ==
  /\ part \in {"sector", "stores", "imports", "retrieve", "messages"}
  /\ SectorInit /\ StoresInit /\ ImportsInit /\ RetrieveInit /\ MessagingInit
  /\ part # "sector" => StillSector
  /\ part # "stores" => StillStores
  /\ part # "messages" => ~pool

MCNext ==
  /\ UNCHANGED part
  /\ \/ part = "sector" /\ SectorNext /\ UNCHANGED <<storeVars, importVars, retrieveVars, msgVars>>
     \/ part = "stores" /\ StoresNext /\ UNCHANGED <<sectorVars, importVars, retrieveVars, msgVars>>
     \/ part = "imports" /\ ImportsNext /\ UNCHANGED <<sectorVars, storeVars, retrieveVars, msgVars>>
     \/ part = "retrieve" /\ RetrieveNext /\ UNCHANGED <<sectorVars, storeVars, importVars, msgVars>>
     \/ part = "messages" /\ MessagingNext /\ UNCHANGED <<sectorVars, storeVars, importVars, retrieveVars>>

\* At most one part moves, so its progress is the progress of all.
MCProgress ==
  /\ UNCHANGED part
  /\ \/ part = "sector" /\ SectorProgress /\ UNCHANGED <<storeVars, importVars, retrieveVars, msgVars>>
     \/ part = "retrieve" /\ RetrieveProgress /\ UNCHANGED <<sectorVars, storeVars, importVars, msgVars>>
     \/ part = "messages" /\ MessagingProgress /\ UNCHANGED <<sectorVars, storeVars, importVars, retrieveVars>>

MCSpec == MCInit /\ [][MCNext]_mcVars /\ WF_mcVars(MCProgress)

\* Every wait ends: the client hears of the sector of its deal or of an error
\* (OnDealSectorPreCommitted, OnDealSectorCommitted), and ClientRetrieveWait
\* returns when its deal ends, without leaving the publisher blocked; and a
\* message that was pushed has its fate reported (WaitMsg).
WaitsEnd == SectorAnswered /\ RetrieveWaitsEnd /\ SendingsEnd
=============================================================================
