------------------------------ MODULE MCStores ------------------------------
(***************************************************************************)
(* Instance of the provider's storage: the badger blockstore, the          *)
(* assignment of deals to sectors, and the piece storages with the DAG     *)
(* store.  The three share no state, so each behaviour moves one of them,  *)
(* the one that part names, and the others stay where they begin.          *)
(***************************************************************************)
EXTENDS Blockstore, DealAssign, PieceServing

CONSTANTS d1, d2, d3

VARIABLE part

NoLimit == [MaxPiece |-> 10, MaxPieceSize |-> 0, MinPiece |-> 0, MinPieceSize |-> 0,
            MinUsedSpace |-> 0, StartEpoch |-> 0, EndEpoch |-> 0]
MCSpecs == {NoLimit,
            [NoLimit EXCEPT !.MaxPiece = 1, !.EndEpoch = 4, !.MinPieceSize = 2],
            [NoLimit EXCEPT !.MinPiece = 2, !.MinUsedSpace = 3, !.StartEpoch = 1, !.MaxPieceSize = 4]}
MCPieceSize == d1 :> 1 @@ d2 :> 2 @@ d3 :> 4
MCStartEpoch == d1 :> 1 @@ d2 :> 2 @@ d3 :> 2
MCEndEpoch == d1 :> 3 @@ d2 :> 3 @@ d3 :> 4
MCPrice == d1 :> 1 @@ d2 :> 2 @@ d3 :> 3

mcVars == <<bsVars, assignVars, pieceVars, part>>

\* The first state of the components that do not move.
Still == /\ backend = CHOOSE b \in Backends : TRUE
         /\ \A d \in Deals : rec[d].id
StillPiece == useTransient = FALSE /\ handedOff = FALSE

MCInit ==
  /\ part \in {"blockstore", "assign", "pieces"}
  /\ BlockstoreInit /\ AssignInit /\ PieceInit
  /\ part # "assign" => Still
  /\ part # "pieces" => StillPiece

MCNext ==
  /\ UNCHANGED part
  /\ \/ part = "blockstore" /\ BlockstoreNext /\ UNCHANGED <<assignVars, pieceVars>>
     \/ part = "assign" /\ AssignNext /\ UNCHANGED <<bsVars, pieceVars>>
     \/ part = "pieces" /\ PieceNext /\ UNCHANGED <<bsVars, assignVars>>

MCSpec ==
  /\ MCInit /\ [][MCNext]_mcVars
  /\ WF_mcVars(part = "blockstore" /\ BlockstoreProgress /\ UNCHANGED <<assignVars, pieceVars, part>>)
  /\ WF_mcVars(part = "pieces" /\ PieceProgress /\ UNCHANGED <<bsVars, assignVars, part>>)

\* No call of the blockstore or of the DAG store hangs: readers and writers come
\* back although the database is being moved, and callers of the DAG store get
\* their answer although registrations race and fail.
CallsReturn == StoreCallsReturn /\ DagCallsEnd
=============================================================================
