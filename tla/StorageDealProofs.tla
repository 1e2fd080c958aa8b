------------------------- MODULE StorageDealProofs -------------------------
(***************************************************************************)
(* The record of a storage deal is well typed whatever its handlers do to  *)
(* each other.  When no two of them overlap, the collateral held for the   *)
(* deal, its publish message, its sector and its state agree with the      *)
(* record across failures, crashes and restarts.  The invariant IInv says  *)
(* where a handler can be, what its copy of the record has to do with the  *)
(* stored one there, and which of the two the accounts agree with.         *)
(***************************************************************************)
EXTENDS StorageDeal, TLAPS

-----------------------------------------------------------------------------
(* Types.                                                                    *)

Record == MinerDeal \cup {NoDeal}

\* A handler at work has a copy of the record, and nobody reads a record that
\* is not there.
TypeInv ==
  /\ TypeOK
  /\ \A a \in Actors : pc[a] \notin Rest \cup {"create", "picked"} => mem[a] # NoDeal
  /\ \A a \in Actors : pc[a] \in {"picked", "track"} => store # NoDeal
  /\ \A c \in Channels : chan[c] # "none" => store # NoDeal

\* What remains to be shown of a step that moves one actor and leaves the rest
\* alone: the actor has a copy where it needs one.
LEMMA MoveType ==
  ASSUME TypeInv, NEW a \in Actors, NEW l \in PCs, NEW d \in Record, Goto(a, l, d),
         l \notin Rest \cup {"create", "picked"} => d # NoDeal,
         store' \in Record, store # NoDeal => store' # NoDeal,
         l \in {"picked", "track"} => store' # NoDeal
  PROVE  /\ pc' \in [Actors -> PCs] /\ mem' \in [Actors -> Record]
         /\ \A b \in Actors : pc'[b] \notin Rest \cup {"create", "picked"} => mem'[b] # NoDeal
         /\ \A b \in Actors : pc'[b] \in {"picked", "track"} => store' # NoDeal
BY DEF TypeInv, TypeOK, Goto, Record

\* The record that Return leaves with an actor, and where it leaves it.
LEMMA ReturnMove ==
  ASSUME NEW a \in Actors, Return(a)
  PROVE  \E l \in Rest : l \in PCs /\ Goto(a, l, NoDeal)
BY DEF Return, Rest, PCs

\* An event changes a channel that is open, or opens one for a deal that waits.
LEMMA EventType ==
  ASSUME NEW c \in Channels, NEW e \in Events, AfterEvent(c, e) # ""
  PROVE  /\ AfterEvent(c, e) \in {"open", "stalled", "failed", "completed", "cancelled"}
         /\ chan[c] # "none" \/ store # NoDeal
BY DEF AfterEvent, Events

\* What the states are, in so many words.
LEMMA StateNames ==
  {"Unknown", "Staged", "Sealing", "Active", "Slashed", "Rejecting", "Failing", "WaitingForData",
   "VerifyData", "ReserveProviderFunds", "ProviderFunding", "Publish", "Publishing",
   "TransferAwaitRestart", "AwaitingPreCommit"} = States
BY DEF States, Code

\* The successor of a natural number is one.
LEMMA Successor == \A n \in Nat : n + 1 \in Nat
OBVIOUS

\* Nor does subtracting one leave the integers.
LEMMA Difference == \A m \in Int, n \in Nat : m - n \in Int
OBVIOUS

\* The copies that the handlers make of a record are records.
LEMMA CopyType ==
  ASSUME NEW d \in MinerDeal, NEW st \in States, NEW ps \in {"", "Undefine", "Assigned", "Packing", "Proving"}
  PROVE  /\ [d EXCEPT !.st = st] \in MinerDeal
         /\ [d EXCEPT !.st = st, !.ps = ps] \in MinerDeal
         /\ [d EXCEPT !.ps = ps, !.st = st] \in MinerDeal
         /\ [d EXCEPT !.fr = @ + 1, !.st = st] \in MinerDeal
         /\ [d EXCEPT !.fr = 0, !.st = st] \in MinerDeal
         /\ [d EXCEPT !.fr = 0, !.id = TRUE, !.st = st] \in MinerDeal
         /\ \A p \in 1 .. MaxPubs : [d EXCEPT !.pub = p, !.st = st] \in MinerDeal
         /\ \A a \in Assigners : [d EXCEPT !.ps = ps, !.sec = a] \in MinerDeal
<1>1. /\ [d EXCEPT !.st = st] \in MinerDeal
      /\ [d EXCEPT !.st = st, !.ps = ps] \in MinerDeal
      /\ [d EXCEPT !.ps = ps, !.st = st] \in MinerDeal
  BY DEF MinerDeal
<1>2. d.fr \in Nat
  BY DEF MinerDeal
<1>3. [d EXCEPT !.fr = @ + 1, !.st = st] \in MinerDeal
  BY <1>2, Successor DEF MinerDeal
<1>4. /\ [d EXCEPT !.fr = 0, !.st = st] \in MinerDeal
      /\ [d EXCEPT !.fr = 0, !.id = TRUE, !.st = st] \in MinerDeal
  BY DEF MinerDeal
<1>5. ASSUME NEW p \in 1 .. MaxPubs PROVE [d EXCEPT !.pub = p, !.st = st] \in MinerDeal
  BY DEF MinerDeal
<1>6. ASSUME NEW a \in Assigners PROVE [d EXCEPT !.ps = ps, !.sec = a] \in MinerDeal
  BY DEF MinerDeal
<1> QED
  BY <1>1, <1>3, <1>4, <1>5, <1>6

\* The tracker writes a record with another status.
LEMMA TrackerType ==
  ASSUME UpdateDealStatus, store \in MinerDeal, mem[Tracker] \in MinerDeal
  PROVE  store' \in MinerDeal
<1>1. /\ TrackedState(mem[Tracker])[1] \in States
      /\ TrackedState(mem[Tracker])[2] \in {"", "Undefine", "Assigned", "Packing", "Proving"}
  BY StateNames DEF TrackedState, MinerDeal
<1> QED
  BY <1>1 DEF UpdateDealStatus, MinerDeal

\* Types hold initially and are kept by every step, for any number of actors
\* and any races between them.
LEMMA TypeStep == (Init => TypeInv) /\ (TypeInv /\ [Next]_vars => TypeInv')
<1> USE StorageDealAssumption, NoDealAssumption
<1>1. ASSUME Init PROVE TypeInv
  <2>1. pubs \in Seq({"pending", "ok", "failed"}) /\ Len(pubs) <= MaxPubs
    <3>1. CASE kind = "published"
      BY <1>1, <3>1 DEF Init
    <3>2. CASE kind # "published"
      BY <1>1, <3>2 DEF Init
    <3> QED
      BY <3>1, <3>2
  <2>2. /\ kind \in Kinds /\ store \in Record /\ held \in Int /\ crashes \in 0 .. MaxCrash
        /\ conn \in Streams \cup {None} /\ given \subseteq Assigners /\ faults \subseteq FaultKinds
    BY <1>1 DEF Init, Record
  <2>4. up \in BOOLEAN /\ tracked \in BOOLEAN
    BY <1>1 DEF Init
  <2>3. /\ pc \in [Actors -> PCs] /\ mem \in [Actors -> Record]
        /\ chan \in [Channels -> {"none", "open", "stalled", "failed", "completed", "cancelled"}]
        /\ sealed \in [sec : Assigners \cup {None}, st : {"none", "precommitted", "proven", "slashed"}]
    BY <1>1 DEF Init, Record, PCs, Rest
  <2> QED
    BY <1>1, <2>1, <2>2, <2>3, <2>4 DEF Init, TypeInv, TypeOK, Record, Rest
<1>2. ASSUME TypeInv, [Next]_vars PROVE TypeInv'
  <2> USE <1>2
  <2> DEFINE Others == /\ kind' \in Kinds /\ conn' \in Streams \cup {None}
                       /\ chan' \in [Channels -> {"none", "open", "stalled", "failed", "completed", "cancelled"}]
                       /\ \A c \in Channels : chan'[c] # "none" => chan[c] # "none" \/ store # NoDeal
                       /\ tracked' \in BOOLEAN /\ held' \in Int
                       /\ pubs' \in Seq({"pending", "ok", "failed"}) /\ Len(pubs') <= MaxPubs
                       /\ given' \subseteq Assigners
                       /\ sealed' \in [sec : Assigners \cup {None}, st : {"none", "precommitted", "proven", "slashed"}]
                       /\ up' \in BOOLEAN /\ crashes' \in 0 .. MaxCrash
                       /\ faults' \subseteq FaultKinds
  <2>1. ASSUME NEW a \in Actors, NEW l \in PCs, NEW d \in Record, Goto(a, l, d),
               l \notin Rest \cup {"create", "picked"} => d # NoDeal,
               store' \in Record, store # NoDeal => store' # NoDeal,
               l \in {"picked", "track"} => store' # NoDeal, Others
        PROVE  TypeInv'
    <3>1. /\ pc' \in [Actors -> PCs] /\ mem' \in [Actors -> Record]
          /\ \A b \in Actors : pc'[b] \notin Rest \cup {"create", "picked"} => mem'[b] # NoDeal
          /\ \A b \in Actors : pc'[b] \in {"picked", "track"} => store' # NoDeal
      BY <2>1, MoveType
    <3> QED
      BY <2>1, <3>1 DEF TypeInv, TypeOK, Record
  <2>2. /\ Handlers \subseteq Actors /\ Streams \subseteq Handlers /\ Channels \subseteq Handlers
        /\ Imports \subseteq Handlers /\ Assigners \subseteq Actors /\ Tracker \in Actors /\ Boot \in Actors
    BY DEF Actors, Handlers
  <2>3. /\ store \in Record /\ \A a \in Actors : mem[a] \in Record
        /\ \A a \in Actors : pc[a] \notin Rest \cup {"create", "picked"} => mem[a] \in MinerDeal
        /\ \A a \in Actors : pc[a] \in {"picked", "track"} => store \in MinerDeal
        /\ \A d \in MinerDeal : d # NoDeal
    BY DEF TypeInv, TypeOK, Record
  <2>4. /\ Rest \subseteq PCs /\ WorkPCs \subseteq PCs /\ Events \subseteq PCs
        /\ {"create", "connect", "accept", "acceptsave", "copy", "picked", "assign", "track"} \subseteq PCs
    BY DEF PCs
  <2>5. /\ kind \in Kinds /\ conn \in Streams \cup {None} /\ tracked \in BOOLEAN /\ held \in Int
        /\ chan \in [Channels -> {"none", "open", "stalled", "failed", "completed", "cancelled"}]
        /\ pubs \in Seq({"pending", "ok", "failed"}) /\ Len(pubs) <= MaxPubs
        /\ given \subseteq Assigners
        /\ sealed \in [sec : Assigners \cup {None}, st : {"none", "precommitted", "proven", "slashed"}]
        /\ up \in BOOLEAN /\ crashes \in 0 .. MaxCrash
    BY DEF TypeInv, TypeOK
  <2>6. /\ faults \subseteq FaultKinds /\ (NoFault => faults' \subseteq FaultKinds)
        /\ \A f : Fault(f) => faults' \subseteq FaultKinds
    BY DEF TypeInv, TypeOK, NoFault, Fault, FaultKinds
  <2>7. ASSUME NEW a \in Actors, NEW d \in MinerDeal, NEW l \in WorkPCs, SaveDeal(a, d, l, d),
               UNCHANGED <<kind, net, fund, seal, proc>>
        PROVE  TypeInv'
    <3>1. "fail" \in WorkPCs /\ l \notin {"picked", "track"}
      BY DEF WorkPCs
    <3>2. Others
      BY <2>5, <2>6, <2>7 DEF SaveDeal, net, fund, seal, proc
    <3> QED
      BY <2>1, <2>3, <2>4, <2>7, <3>1, <3>2 DEF SaveDeal, Record
  <2>8. ASSUME NEW a \in Actors, Return(a), store' \in Record, store # NoDeal => store' # NoDeal, Others
        PROVE  TypeInv'
    <3>1. PICK l \in Rest : l \in PCs /\ Goto(a, l, NoDeal)
      BY <2>8, ReturnMove
    <3> QED
      BY <2>1, <2>8, <3>1 DEF Rest, Record
  <2> HIDE DEF Others
  <2>9. \A a \in Actors : pc[a] \notin Rest \cup {"create", "picked"} => \A st \in States :
           /\ [mem[a] EXCEPT !.st = st] \in MinerDeal
           /\ [mem[a] EXCEPT !.fr = 0, !.st = st] \in MinerDeal
           /\ [mem[a] EXCEPT !.fr = 0, !.id = TRUE, !.st = st] \in MinerDeal
    BY <2>3, CopyType
  <2>10. ASSUME NEW s \in Streams, HandleDealStream(s) PROVE TypeInv'
    <3>1. Others
      BY <2>5, <2>6, <2>10 DEF HandleDealStream, net, fund, seal, proc, Others
    <3> QED
      BY <2>1, <2>2, <2>3, <2>4, <2>8, <2>9, StateNames, <2>10, <3>1
         DEF HandleDealStream, Record, Rest
  <2>11. ASSUME NEW s \in Streams, CreateDeal(s) PROVE TypeInv'
    <3>1. Others
      BY <2>5, <2>6, <2>11 DEF CreateDeal, net, fund, seal, proc, Others
    <3>2. [st |-> "Unknown", ps |-> "", sec |-> None, id |-> FALSE, fr |-> 0, pub |-> None] \in MinerDeal
      BY StateNames DEF MinerDeal
    <3>3. CASE store' \in MinerDeal /\ Goto(s, "connect", store')
      BY <2>1, <2>2, <2>3, <2>4, <3>1, <3>3 DEF Record
    <3>4. CASE Return(s) /\ UNCHANGED store
      BY <2>2, <2>3, <2>8, <3>1, <3>4
    <3> QED
      BY <2>11, <3>2, <3>3, <3>4 DEF CreateDeal
  <2>12. ASSUME NEW s \in Streams, AddStream(s) PROVE TypeInv'
    <3>1. Others
      BY <2>5, <2>6, <2>12 DEF AddStream, net, fund, seal, proc, Others
    <3> QED
      BY <2>1, <2>2, <2>3, <2>4, <2>8, <2>9, StateNames, <2>12, <3>1 DEF AddStream, Record, Rest
  <2>13. ASSUME NEW s \in Streams, AcceptDeal(s) PROVE TypeInv'
    <3>1. Others
      BY <2>5, <2>6, <2>13 DEF AcceptDeal, net, fund, seal, proc, Others
    <3> QED
      BY <2>1, <2>2, <2>3, <2>4, <2>8, <2>9, StateNames, <2>13, <3>1
         DEF AcceptDeal, Record, Rest, WorkPCs
  <2>14. ASSUME NEW s \in Streams, AcceptSave(s) PROVE TypeInv'
    <3>1. Others
      BY <2>5, <2>6, <2>14 DEF AcceptSave, net, fund, seal, proc, Others
    <3> QED
      BY <2>2, <2>3, <2>8, <2>14, <3>1 DEF AcceptSave, Record, Rest
  <2>15. ASSUME NEW c \in Channels, HandleTransferEvent(c) PROVE TypeInv'
    <3>1. Others
      BY <2>5, <2>6, <2>15 DEF HandleTransferEvent, net, fund, seal, proc, Others
    <3>2. [mem[c] EXCEPT !.st = "TransferAwaitRestart"] \in MinerDeal
      BY <2>2, <2>9, <2>15, StateNames DEF HandleTransferEvent, Rest
    <3> QED
      BY <2>2, <2>3, <2>8, <2>15, <3>1, <3>2 DEF HandleTransferEvent, Record
  <2>16. ASSUME NEW c \in Channels, HandleCompleteFor(c) PROVE TypeInv'
    <3>1. Others
      BY <2>5, <2>6, <2>16 DEF HandleCompleteFor, net, fund, seal, proc, Others
    <3>2. [mem[c] EXCEPT !.st = "VerifyData"] \in MinerDeal
      BY <2>2, <2>9, <2>16, StateNames DEF HandleCompleteFor, Rest
    <3>3. CASE store' \in MinerDeal /\ Goto(c, "off", store')
      BY <2>1, <2>2, <2>3, <2>4, <3>1, <3>3 DEF Record, WorkPCs
    <3>4. CASE Return(c) /\ UNCHANGED store
      BY <2>2, <2>3, <2>8, <3>1, <3>4
    <3> QED
      BY <2>16, <3>2, <3>3, <3>4 DEF HandleCompleteFor
  <2>17. ASSUME NEW c \in Channels, HandleCancelForDeal(c) PROVE TypeInv'
    <3>1. Others
      BY <2>5, <2>6, <2>17 DEF HandleCancelForDeal, net, fund, seal, proc, Others
    <3> QED
      BY <2>1, <2>2, <2>3, <2>4, <2>8, <2>9, StateNames, <2>17, <3>1
         DEF HandleCancelForDeal, Record, Rest, WorkPCs
  <2>18. ASSUME NEW i \in Imports, ImportDataForDeal(i) PROVE TypeInv'
    <3>1. Others
      BY <2>5, <2>6, <2>18 DEF ImportDataForDeal, net, fund, seal, proc, Others
    <3> QED
      BY <2>1, <2>2, <2>3, <2>4, <2>8, <2>9, StateNames, <2>18, <3>1
         DEF ImportDataForDeal, Record, Rest
  <2>19. ASSUME NEW i \in Imports, ImportSave(i) PROVE TypeInv'
    <3>1. Others
      BY <2>5, <2>6, <2>19 DEF ImportSave, net, fund, seal, proc, Others
    <3>2. pc[i] = "copy" => [mem[i] EXCEPT !.st = "ReserveProviderFunds", !.ps = "Undefine"] \in MinerDeal
      BY <2>2, <2>3, StateNames, CopyType DEF Rest
    <3>3. CASE store' \in MinerDeal /\ Goto(i, "off", store')
      BY <2>1, <2>2, <2>3, <2>4, <3>1, <3>3 DEF Record, WorkPCs
    <3>4. CASE Return(i) /\ UNCHANGED store
      BY <2>2, <2>3, <2>8, <3>1, <3>4
    <3> QED
      BY <2>19, <3>2, <3>3, <3>4 DEF ImportSave
  <2>20. ASSUME NEW i \in Imports, ImportPublishedDeal(i) PROVE TypeInv'
    <3>1. Others
      BY <2>5, <2>6, <2>20 DEF ImportPublishedDeal, net, fund, seal, proc, Others
    <3>3. 1 \in (1 .. MaxPubs) \cup {None}
      OBVIOUS
    <3>2. [st |-> "AwaitingPreCommit", ps |-> "Undefine", sec |-> None, id |-> TRUE, fr |-> 0, pub |-> 1] \in MinerDeal
      BY <3>3, StateNames DEF MinerDeal
    <3> QED
      BY <2>1, <2>2, <2>3, <2>4, <2>8, <2>9, StateNames, <2>20, <3>1, <3>2
         DEF ImportPublishedDeal, Record, Rest
  <2>21. ASSUME NEW c \in Channels, NEW e \in Events, ProviderDataTransferSubscriber(c, e) PROVE TypeInv'
    <3>1. Others
      BY <2>5, <2>6, <2>21, EventType
         DEF ProviderDataTransferSubscriber, net, fund, seal, proc, Others
    <3>2. store # NoDeal
      BY <2>21, EventType DEF ProviderDataTransferSubscriber, TypeInv
    <3> QED
      BY <2>1, <2>2, <2>3, <2>4, <2>21, <3>1, <3>2
         DEF ProviderDataTransferSubscriber, Record, Rest, Events
  <2>22. ASSUME NEW a \in Handlers, VerifyData(a) PROVE TypeInv'
    <3>1. mem[a] \in MinerDeal
      BY <2>2, <2>3, <2>22 DEF VerifyData, At, Rest
    <3>2. [mem[a] EXCEPT !.ps = "Undefine", !.st = "ReserveProviderFunds"] \in MinerDeal
      BY <3>1, StateNames, CopyType
    <3>3. Others
      BY <2>5, <2>6, <2>22 DEF VerifyData, net, fund, seal, proc, Others, SaveDeal
    <3> QED
      BY <2>1, <2>2, <2>3, <2>4, <2>8, <2>9, <2>7, StateNames, <2>22, <3>1, <3>2, <3>3
         DEF VerifyData, Record, Rest, SaveDeal, WorkPCs
  <2>23. ASSUME NEW a \in Handlers, ReserveFunds(a) PROVE TypeInv'
    <3>1. mem[a] \in MinerDeal
      BY <2>2, <2>3, <2>23 DEF ReserveFunds, At, Rest
    <3>2. \A st \in {"ProviderFunding", "Publish"} : [mem[a] EXCEPT !.fr = @ + 1, !.st = st] \in MinerDeal
      BY <3>1, StateNames, CopyType
    <3>3. Others
      BY <2>5, <2>6, <2>23 DEF ReserveFunds, net, fund, seal, proc, Others
    <3>4. CASE Goto(a, "fail", mem[a])
      BY <2>1, <2>2, <2>3, <2>4, <2>23, <3>1, <3>3, <3>4 DEF ReserveFunds, Record, WorkPCs
    <3>5. ASSUME NEW st \in {"ProviderFunding", "Publish"},
                 Goto(a, "reserved", [mem[a] EXCEPT !.fr = @ + 1, !.st = st])
          PROVE  TypeInv'
      BY <2>1, <2>2, <2>3, <2>4, <2>23, <3>2, <3>3, <3>5 DEF ReserveFunds, Record, WorkPCs
    <3> QED
      BY <2>23, <3>4, <3>5 DEF ReserveFunds
  <2>24. ASSUME NEW a \in Handlers, SaveReserved(a) PROVE TypeInv'
    <3>1. mem[a] \in MinerDeal
      BY <2>2, <2>3, <2>24 DEF SaveReserved, At, Rest
    <3>2. Others
      BY <2>5, <2>6, <2>24 DEF SaveReserved, net, fund, seal, proc, Others, SaveDeal
    <3> QED
      BY <2>1, <2>2, <2>3, <2>4, <2>8, <2>9, <2>7, StateNames, <2>24, <3>1, <3>2
         DEF SaveReserved, Record, Rest, SaveDeal, WorkPCs
  <2>25. ASSUME NEW a \in Handlers, WaitForFunding(a) PROVE TypeInv'
    <3>1. mem[a] \in MinerDeal
      BY <2>2, <2>3, <2>25 DEF WaitForFunding, At, Rest
    <3>2. [mem[a] EXCEPT !.st = "Publish"] \in MinerDeal
      BY <3>1, StateNames, CopyType
    <3>3. Others
      BY <2>5, <2>6, <2>25 DEF WaitForFunding, net, fund, seal, proc, Others, SaveDeal
    <3> QED
      BY <2>1, <2>2, <2>3, <2>4, <2>8, <2>9, <2>7, StateNames, <2>25, <3>1, <3>2, <3>3
         DEF WaitForFunding, Record, Rest, SaveDeal, WorkPCs
  <2>26. ASSUME NEW a \in Handlers, PublishDeals(a) PROVE TypeInv'
    <3>1. mem[a] \in MinerDeal
      BY <2>2, <2>3, <2>26 DEF PublishDeals, At, Rest
    <3>2. Len(pubs) < MaxPubs => Len(pubs) + 1 \in 1 .. MaxPubs
      BY <2>5
    <3>3. Len(pubs) < MaxPubs => [mem[a] EXCEPT !.pub = Len(pubs) + 1, !.st = "Publishing"] \in MinerDeal
      BY <3>1, <3>2, StateNames, CopyType
    <3>4. Others
      <4>1. pubs' \in Seq({"pending", "ok", "failed"}) /\ Len(pubs') <= MaxPubs
        <5>1. CASE Len(pubs) < MaxPubs /\ pubs' = Append(pubs, "pending")
          BY <2>5, <5>1
        <5>2. CASE pubs' = pubs
          BY <2>5, <5>2
        <5> QED
          BY <2>26, <5>1, <5>2 DEF PublishDeals
      <4>2. faults' \subseteq FaultKinds
        BY <2>5, <2>6, <2>26 DEF PublishDeals
      <4>3. UNCHANGED <<kind, store, conn, chan, tracked, held, given, sealed, up, crashes>>
        BY <2>26 DEF PublishDeals, net, seal, proc
      <4> QED
        BY <2>5, <4>1, <4>2, <4>3 DEF Others
    <3> QED
      BY <2>1, <2>2, <2>3, <2>4, <2>8, <2>9, StateNames, <2>26, <3>1, <3>2, <3>3, <3>4
         DEF PublishDeals, Record, Rest, WorkPCs
  <2>27. ASSUME NEW a \in Handlers, SavePublished(a) PROVE TypeInv'
    <3>1. mem[a] \in MinerDeal
      BY <2>2, <2>3, <2>27 DEF SavePublished, At, Rest
    <3>2. Others
      BY <2>5, <2>6, <2>27 DEF SavePublished, net, fund, seal, proc, Others, SaveDeal
    <3> QED
      BY <2>1, <2>2, <2>3, <2>4, <2>8, <2>9, <2>7, StateNames, <2>27, <3>1, <3>2
         DEF SavePublished, Record, Rest, SaveDeal, WorkPCs
  <2>28. ASSUME NEW a \in Handlers, WaitForPublish(a) PROVE TypeInv'
    <3>1. mem[a] \in MinerDeal
      BY <2>2, <2>3, <2>28 DEF WaitForPublish, At, Rest
    <3>2. mem[a].fr \in Nat
      BY <3>1 DEF MinerDeal
    <3>3. ReleaseReservedFunds(a) => held' \in Int /\ faults' \subseteq FaultKinds
      BY <2>5, <2>6, <3>2, Difference DEF ReleaseReservedFunds
    <3>4. Others
      BY <2>5, <2>6, <2>28, <3>3 DEF WaitForPublish, net, fund, seal, proc, Others
    <3>5. [mem[a] EXCEPT !.fr = 0, !.id = TRUE, !.st = "Staged"] \in MinerDeal
      BY <3>1, StateNames, CopyType
    <3> QED
      BY <2>1, <2>2, <2>3, <2>4, <2>28, <3>1, <3>4, <3>5 DEF WaitForPublish, Record, WorkPCs
  <2>29. ASSUME NEW a \in Handlers, SaveStaged(a) PROVE TypeInv'
    <3>1. mem[a] \in MinerDeal
      BY <2>2, <2>3, <2>29 DEF SaveStaged, At, Rest
    <3>2. Others
      BY <2>5, <2>6, <2>29 DEF SaveStaged, net, fund, seal, proc, Others, SaveDeal
    <3> QED
      BY <2>1, <2>2, <2>3, <2>4, <2>8, <2>9, <2>7, StateNames, <2>29, <3>1, <3>2
         DEF SaveStaged, Record, Rest, SaveDeal, WorkPCs
  <2>30. ASSUME NEW a \in Handlers, OpenData(a) PROVE TypeInv'
    <3>1. mem[a] \in MinerDeal
      BY <2>2, <2>3, <2>30 DEF OpenData, At, Rest
    <3>2. Others
      BY <2>5, <2>6, <2>30 DEF OpenData, net, fund, seal, proc, Others, SaveDeal
    <3> QED
      BY <2>1, <2>2, <2>3, <2>4, <2>8, <2>9, <2>7, StateNames, <2>30, <3>1, <3>2
         DEF OpenData, Record, Rest, SaveDeal, WorkPCs
  <2>31. ASSUME NEW a \in Handlers, HandOff(a) PROVE TypeInv'
    <3>1. mem[a] \in MinerDeal
      BY <2>2, <2>3, <2>31 DEF HandOff, At, Rest
    <3>2. [mem[a] EXCEPT !.st = "AwaitingPreCommit"] \in MinerDeal
      BY <3>1, StateNames, CopyType
    <3>3. Others
      BY <2>5, <2>6, <2>31 DEF HandOff, net, fund, seal, proc, Others, SaveDeal
    <3> QED
      BY <2>1, <2>2, <2>3, <2>4, <2>8, <2>9, <2>7, StateNames, <2>31, <3>1, <3>2, <3>3
         DEF HandOff, Record, Rest, SaveDeal, WorkPCs
  <2>32. ASSUME NEW a \in Handlers, EndHandleOff(a) PROVE TypeInv'
    <3>1. Others
      BY <2>5, <2>6, <2>32 DEF EndHandleOff, net, fund, seal, proc, Others
    <3> QED
      BY <2>1, <2>2, <2>3, <2>4, <2>8, <2>9, StateNames, <2>32, <3>1 DEF EndHandleOff, Record, Rest
  <2>33. ASSUME NEW a \in Handlers, HandleError(a) PROVE TypeInv'
    <3>1. mem[a] \in MinerDeal
      BY <2>2, <2>3, <2>33 DEF HandleError, Rest
    <3>2. mem[a].fr \in Nat
      BY <3>1 DEF MinerDeal
    <3>3. held' \in Int /\ faults' \subseteq FaultKinds
      <4>1. ReleaseReservedFunds(a)
        BY <2>33 DEF HandleError
      <4> QED
        BY <2>5, <2>6, <3>2, <4>1, Difference DEF ReleaseReservedFunds
    <3>4. Others
      BY <2>5, <2>6, <2>33, <3>3 DEF HandleError, net, fund, seal, proc, Others
    <3>5. [mem[a] EXCEPT !.fr = 0, !.st = "Failing"] \in MinerDeal
      BY <3>1, StateNames, CopyType
    <3> QED
      BY <2>1, <2>2, <2>3, <2>4, <2>33, <3>1, <3>4, <3>5 DEF HandleError, Record, WorkPCs
  <2>34. ASSUME NEW a \in Handlers, FailSave(a) PROVE TypeInv'
    <3>1. mem[a] \in MinerDeal
      BY <2>2, <2>3, <2>34 DEF FailSave, Rest
    <3>2. Others
      BY <2>5, <2>6, <2>34 DEF FailSave, net, fund, seal, proc, Others
    <3> QED
      BY <2>1, <2>2, <2>3, <2>4, <2>8, <2>9, StateNames, <2>34, <3>1, <3>2
         DEF FailSave, Record, Rest
  <2>35. ASSUME NEW a \in Assigners, PickDeal(a) PROVE TypeInv'
    <3>1. Others
      BY <2>5, <2>6, <2>35 DEF PickDeal, net, fund, seal, proc, Others
    <3> QED
      BY <2>1, <2>2, <2>3, <2>4, <2>8, <2>9, StateNames, <2>35, <3>1 DEF PickDeal, Record, Rest
  <2>36. ASSUME NEW a \in Assigners, ReadPicked(a) PROVE TypeInv'
    <3>1. store \in MinerDeal
      BY <2>2, <2>3, <2>36 DEF ReadPicked
    <3>2. Others
      BY <2>5, <2>6, <2>36 DEF ReadPicked, net, fund, seal, proc, Others
    <3> QED
      BY <2>1, <2>2, <2>3, <2>4, <2>8, <2>9, StateNames, <2>36, <3>1, <3>2
         DEF ReadPicked, Record, Rest
  <2>37. ASSUME NEW a \in Assigners, AssignDeal(a) PROVE TypeInv'
    <3>1. mem[a] \in MinerDeal
      BY <2>2, <2>3, <2>37 DEF AssignDeal, Rest
    <3>2. [mem[a] EXCEPT !.ps = "Assigned", !.sec = a] \in MinerDeal
      BY <3>1, StateNames, CopyType
    <3>3. Others
      BY <2>5, <2>6, <2>37 DEF AssignDeal, net, fund, seal, proc, Others
    <3> QED
      BY <2>2, <2>3, <2>8, <2>37, <3>2, <3>3 DEF AssignDeal, Record
  <2>38. ASSUME ScanDeal PROVE TypeInv'
    <3>1. Others
      BY <2>5, <2>6, <2>38 DEF ScanDeal, net, fund, seal, proc, Others
    <3> QED
      BY <2>1, <2>2, <2>3, <2>4, <2>8, <2>9, StateNames, <2>38, <3>1 DEF ScanDeal, Record, Rest
  <2>39. ASSUME UpdateDealStatus PROVE TypeInv'
    <3>1. store \in MinerDeal /\ mem[Tracker] \in MinerDeal
      BY <2>2, <2>3, <2>39 DEF UpdateDealStatus, Rest
    <3>3. store' \in MinerDeal
      BY <2>39, <3>1, TrackerType
    <3>4. Others
      BY <2>5, <2>6, <2>39 DEF UpdateDealStatus, net, fund, seal, proc, Others
    <3> QED
      BY <2>1, <2>2, <2>3, <2>4, <2>8, <2>9, StateNames, <2>39, <3>1, <3>3, <3>4
         DEF UpdateDealStatus, Record, Rest
  <2>40. ASSUME Crash PROVE TypeInv'
    <3>3. faults' \subseteq FaultKinds
      BY <2>6, <2>40 DEF Crash, FaultKinds
    <3>1. Others
      <4>1. UNCHANGED <<kind, chan, held, pubs, given, sealed>> /\ conn' = None
        BY <2>40 DEF Crash, fund, seal
      <4>2. up' \in BOOLEAN /\ tracked' \in BOOLEAN
        BY <2>40 DEF Crash
      <4>3. crashes < MaxCrash /\ crashes' = crashes + 1
        BY <2>40 DEF Crash
      <4>4. crashes' \in 0 .. MaxCrash
        BY <2>5, <4>3
      <4> QED
        BY <2>5, <3>3, <4>1, <4>2, <4>4 DEF Others
    <3>2. pc' \in [Actors -> PCs] /\ mem' \in [Actors -> Record] /\ \A a \in Actors : pc'[a] \in Rest
      BY <2>4, <2>40 DEF Crash, Rest, Record
    <3> QED
      BY <2>3, <2>40, <3>1, <3>2 DEF Crash, Rest, TypeInv, TypeOK, Record, Others
  <2>41. ASSUME Start PROVE TypeInv'
    <3>1. Others
      BY <2>5, <2>6, <2>41 DEF Start, net, fund, seal, Others
    <3>2. CASE store # NoDeal /\ ~IsTerminateState(store)
      BY <2>1, <2>2, <2>3, <2>4, <2>41, <3>1, <3>2 DEF Start, WorkPCs
    <3>3. CASE ~(store # NoDeal /\ ~IsTerminateState(store))
      <4>1. UNCHANGED <<pc, mem, store>>
        BY <2>41, <3>3 DEF Start
      <4> QED
        BY <3>1, <4>1 DEF TypeInv, TypeOK, Record, Others
    <3> QED
      BY <3>2, <3>3
  <2>42. ASSUME ExecPublish PROVE TypeInv'
    <3>1. pubs' \in Seq({"pending", "ok", "failed"}) /\ Len(pubs') = Len(pubs)
      BY <2>5, <2>42 DEF ExecPublish
    <3>2. Others
      BY <2>5, <2>6, <2>42, <3>1 DEF ExecPublish, net, seal, proc, Others
    <3> QED
      BY <2>42, <3>2 DEF ExecPublish, TypeInv, TypeOK, Record, Others
  <2>43. ASSUME SealDeal PROVE TypeInv'
    <3>1. sealed' \in [sec : Assigners \cup {None}, st : {"none", "precommitted", "proven", "slashed"}]
      BY <2>5, <2>43 DEF SealDeal
    <3>2. Others
      BY <2>5, <2>6, <2>43, <3>1 DEF SealDeal, net, fund, proc, Others
    <3> QED
      BY <2>43, <3>2 DEF SealDeal, TypeInv, TypeOK, Record, Others
  <2>44. ASSUME UNCHANGED vars PROVE TypeInv'
    <3>1. Others
      BY <2>5, <2>6, <2>44 DEF vars, Others
    <3> QED
      BY <2>44, <3>1 DEF vars, TypeInv, TypeOK, Record, Others
  <2> QED
    BY <1>2, <2>10, <2>11, <2>12, <2>13, <2>14, <2>15, <2>16, <2>17, <2>18, <2>19, <2>20, <2>21,
       <2>22, <2>23, <2>24, <2>25, <2>26, <2>27, <2>28, <2>29, <2>30, <2>31, <2>32, <2>33, <2>34,
       <2>35, <2>36, <2>37, <2>38, <2>39, <2>40, <2>41, <2>42, <2>43, <2>44
       DEF Next, StreamStep, ChannelStep, HandleOff
<1> QED
  BY <1>1, <1>2

\* Every variable keeps its type, with any races between the actors.
THEOREM TypeCorrect == Spec => []TypeOK
<1>1. Spec => []TypeInv
  BY TypeStep, PTL DEF Spec
<1>2. TypeInv => TypeOK
  BY DEF TypeInv
<1> QED
  BY <1>1, <1>2, PTL

-----------------------------------------------------------------------------
(* The invariant.                                                            *)

\* No two handlers of the deal overlap: at most one data transfer channel, and
\* none of the races that the guards name.
Sequential == Races = {} /\ \A c, d \in Channels : c = d

Published == {"Staged"} \cup HandedOff
Waiting == {"WaitingForData", "TransferAwaitRestart"}
Early == Waiting \cup {"Unknown", "Rejecting", "VerifyData"}
Live == {"open", "stalled", "failed"}
Clean(S) == faults \cap S = {}
Quiet(S) == \A a \in S : pc[a] \in Rest

\* What the state of a record says of its other fields.
RecordOK(d) ==
  /\ d.st \in Early \cup {"ReserveProviderFunds"} => d.fr = 0 /\ d.pub = None
  /\ d.st \in {"ProviderFunding", "Publish"} => d.fr = 1 /\ d.pub = None
  /\ d.st = "Publishing" => d.fr = 1 /\ d.pub # None
  /\ d.st \in Published => d.id /\ d.fr = 0 /\ d.pub # None
  /\ d.st = "Failing" => d.fr = 0
  /\ d.id => d.st \in Published \cup {"Failing"}

\* What a record says of the chain and of the sealer is so.
ChainOK(d) ==
  /\ d.pub # None => d.pub \in DOMAIN pubs
  /\ d.id => \E p \in DOMAIN pubs : pubs[p] = "ok"
  /\ d.st = "Sealing" => sealed.st # "none"
  /\ d.st = "Active" => sealed.st \in {"proven", "slashed"}
  /\ d.st = "Slashed" => sealed.st = "slashed"
  /\ \A s \in given : d.sec = s /\ d.id /\ d.ps # "Undefine"

Sound(d) == RecordOK(d) /\ ChainOK(d)

\* The accounts agree with record r, the copy of a handler at label l or, when
\* none is at work, the stored one: its collateral, its publish message, the
\* number of messages, and that a deal which failed is not on chain.
HeldBy(r) ==
  /\ Clean({"save", "release", "crashReserve", "crashRelease"}) => held = r.fr
  /\ Clean({"save", "crashRelease"}) => held >= r.fr
PendingBy(l, r) ==
  Clean({"wait", "save", "crashPublish"}) =>
    \A p \in DOMAIN pubs : pubs[p] = "pending" =>
      l \in Rest \cup {"off", "published"} /\ r.st = "Publishing" /\ r.pub = p
OnceBy(r) ==
  Clean({"save", "crashPublish"}) => Len(pubs) <= 1 /\ (r.pub = None => pubs = << >>)
FailedBy(l) ==
  Clean({"wait", "file", "save", "crashPublish"}) /\ (l \in {"fail", "failsave"} \/ Stored({"Failing"})) =>
    \A p \in DOMAIN pubs : pubs[p] = "failed"
Account(l, r) == HeldBy(r) /\ PendingBy(l, r) /\ OnceBy(r) /\ FailedBy(l)

StoreOK ==
  /\ store # NoDeal => Sound(store)
  /\ store = NoDeal => /\ given = {} /\ held = 0
                       /\ pubs = IF kind = "published" THEN <<"ok">> ELSE << >>
ChannelOK ==
  \A c \in Channels : chan[c] \in Live => kind = "online" /\ Stored(Waiting)

\* Where handler a is, and what its copy of the record has to do with the
\* stored one there.
Place(a) ==
  \/ pc[a] = "create" /\ a \in Streams /\ store = NoDeal /\ kind # "published"
  \/ pc[a] \in {"connect", "accept"} /\ a \in Streams /\ Stored({"Unknown"}) /\ mem[a] = store
  \/ /\ pc[a] = "acceptsave" /\ a \in Streams /\ Stored({"Unknown"})
     /\ mem[a].st \in {"WaitingForData", "Rejecting"}
  \/ /\ pc[a] \in Events /\ a \in Channels /\ Stored(Waiting) /\ mem[a] = store
     /\ pc[a] \in {"Complete", "Cancel"} => \A c \in Channels : chan[c] \notin Live
  \/ pc[a] = "copy" /\ a \in Imports /\ Stored({"WaitingForData"}) /\ mem[a] = store /\ kind = "offline"
  \/ /\ pc[a] = "off" /\ a \notin Streams /\ store # NoDeal
     /\ mem[a] = store \/ (mem[a].st \in HandedOff /\ Stored(HandedOff))
  \/ pc[a] = "reserved" /\ Stored({"ReserveProviderFunds"}) /\ mem[a].st \in {"ProviderFunding", "Publish"}
  \/ pc[a] = "published" /\ Stored({"Publish"}) /\ mem[a].st = "Publishing"
  \/ pc[a] = "released" /\ Stored({"Publishing"}) /\ mem[a].st = "Staged"
  \/ pc[a] = "handoff" /\ Stored({"Staged"}) /\ mem[a] = store
  \/ /\ pc[a] \in {"fail", "failsave"} /\ store # NoDeal /\ ~Stored(HandedOff)
     /\ pc[a] = "fail" /\ "save" \notin faults => mem[a] = store
     /\ pc[a] = "failsave" => mem[a].st = "Failing" /\ ("save" \notin faults => mem[a].pub = store.pub)
     /\ \A c \in Channels : chan[c] \notin Live

Situation(a) ==
  /\ Place(a)
  /\ pc[a] \in WorkPCs \cup Events \cup {"connect", "accept", "acceptsave", "copy"} => mem[a] # NoDeal /\ Sound(mem[a])
  /\ pc[a] \in WorkPCs => Account(pc[a], mem[a])
  /\ pc[a] \notin WorkPCs /\ store # NoDeal => Account("idle", store)
  /\ a \in Streams /\ pc[a] # "create" => Stored({"Unknown"})
  /\ a \in Imports => kind = "offline"

IInv ==
  /\ TypeInv
  /\ \A a \in Actors : pc[a] \in Rest => mem[a] = NoDeal
  /\ ~up => Quiet(Actors)
  /\ StoreOK
  /\ ChannelOK
  /\ \A a \in Handlers : pc[a] \notin Rest => Quiet((Handlers \ {a}) \cup Assigners) /\ Situation(a)
  /\ Quiet(Handlers) /\ store # NoDeal => Account("idle", store)
  /\ \A a \in Assigners : pc[a] \notin Rest =>
       /\ Quiet(Actors \ {a}) /\ pc[a] \in {"picked", "assign"} /\ store # NoDeal /\ Assignable(store)
       /\ pc[a] = "assign" => mem[a] = store
  /\ pc[Tracker] \notin Rest =>
       /\ Quiet(Assigners) /\ pc[Tracker] = "track" /\ mem[Tracker] = store
       /\ Stored({"AwaitingPreCommit", "Sealing", "Active"})

\* The actors of the different kinds are different.
LEMMA Sets ==
  /\ Handlers \subseteq Actors /\ Streams \subseteq Handlers /\ Channels \subseteq Handlers
  /\ Imports \subseteq Handlers /\ Assigners \subseteq Actors /\ Tracker \in Actors /\ Boot \in Handlers
  /\ Assigners \cap Handlers = {} /\ Tracker \notin Handlers \cup Assigners
  /\ Streams \cap (Channels \cup Imports \cup {Boot}) = {} /\ Channels \cap (Imports \cup {Boot}) = {}
  /\ Boot \notin Imports
BY StorageDealAssumption DEF Actors, Handlers

\* A handler at work is alone with the deal but for the tracker, which then has
\* a deal that has been handed off.
LEMMA BusyHandler ==
  ASSUME IInv, NEW a \in Handlers, pc[a] \notin Rest
  PROVE  /\ up /\ Quiet((Handlers \ {a}) \cup Assigners) /\ Situation(a)
         /\ a \in Actors
         /\ pc[Tracker] \in Rest \/ (pc[a] = "off" /\ mem[a].st \in HandedOff)
<1>1. up /\ Quiet((Handlers \ {a}) \cup Assigners) /\ Situation(a) /\ a \in Actors
  BY Sets DEF IInv, Quiet
<1>2. ASSUME pc[Tracker] \notin Rest PROVE pc[a] = "off" /\ mem[a].st \in HandedOff
  <2>1. Stored({"AwaitingPreCommit", "Sealing", "Active"})
    BY <1>2 DEF IInv
  <2>2. Place(a)
    BY <1>1 DEF Situation
  <2> QED
    BY <2>1, <2>2 DEF Place, Stored, HandedOff, Waiting
<1> QED
  BY <1>1, <1>2

\* A step of handler a that leaves it at work keeps the invariant if what is said
\* of the store, the channels and of a itself does.
LEMMA HandlerStep ==
  ASSUME IInv, TypeInv', NEW a \in Handlers, NEW l, NEW d, Goto(a, l, d), l \notin Rest,
         up', Quiet((Handlers \ {a}) \cup Assigners), pc[Tracker] \in Rest,
         StoreOK', ChannelOK', Situation(a)'
  PROVE  IInv'
<1>1. /\ pc' = [pc EXCEPT ![a] = l] /\ mem' = [mem EXCEPT ![a] = d]
      /\ pc \in [Actors -> PCs] /\ mem \in [Actors -> MinerDeal \cup {NoDeal}] /\ a \in Actors
  BY Sets DEF Goto, IInv, TypeInv, TypeOK
<1>2. pc'[a] = l /\ \A b \in Actors : b # a => pc'[b] = pc[b] /\ mem'[b] = mem[b]
  BY <1>1
<1>3. \A b \in Actors : pc'[b] \in Rest => mem'[b] = NoDeal
  BY <1>2 DEF IInv
<1>4. \A b \in Handlers : pc'[b] \notin Rest => Quiet((Handlers \ {b}) \cup Assigners)' /\ Situation(b)'
  BY <1>2, Sets DEF Quiet
<1>5. ~Quiet(Handlers)'
  BY <1>2, Sets DEF Quiet
<1>6. \A b \in Assigners \cup {Tracker} : pc'[b] \in Rest
  BY <1>2, Sets DEF Quiet
<1> QED
  BY <1>3, <1>4, <1>5, <1>6 DEF IInv

\* A handler that ends leaves the deal to others: the accounts agree with the
\* stored record.
LEMMA HandlerEnd ==
  ASSUME IInv, TypeInv', NEW a \in Handlers, NEW l, Goto(a, l, NoDeal), l \in Rest,
         up', Quiet((Handlers \ {a}) \cup Assigners), pc[Tracker] \in Rest \/ store' = store,
         StoreOK', ChannelOK', store' # NoDeal => Account("idle", store)'
  PROVE  IInv'
<1>1. /\ pc' = [pc EXCEPT ![a] = l] /\ mem' = [mem EXCEPT ![a] = NoDeal]
      /\ pc \in [Actors -> PCs] /\ mem \in [Actors -> MinerDeal \cup {NoDeal}] /\ a \in Actors
  BY Sets DEF Goto, IInv, TypeInv, TypeOK
<1>2. pc'[a] = l /\ mem'[a] = NoDeal /\ \A b \in Actors : b # a => pc'[b] = pc[b] /\ mem'[b] = mem[b]
  BY <1>1
<1>3. \A b \in Actors : pc'[b] \in Rest => mem'[b] = NoDeal
  BY <1>2 DEF IInv
<1>4. Quiet(Handlers)' /\ Quiet(Assigners)'
  BY <1>2, Sets DEF Quiet
<1>5. pc'[Tracker] \notin Rest =>
       /\ pc'[Tracker] = "track" /\ mem'[Tracker] = store'
       /\ Stored({"AwaitingPreCommit", "Sealing", "Active"})'
  BY <1>2, Sets DEF IInv, Stored
<1> QED
  BY <1>3, <1>4, <1>5 DEF IInv, Quiet

\* Channels are live only while the deal waits for its data.
LEMMA NoLive ==
  ASSUME ChannelOK, ~Stored(Waiting)
  PROVE  \A c \in Channels : chan[c] \notin Live
BY DEF ChannelOK

\* A save that fails leaves the handler at HandleError with its copy; nothing is
\* claimed of the accounts after it.
LEMMA SaveFails ==
  ASSUME IInv, TypeInv', NEW a \in Handlers, pc[a] \notin Rest, pc[Tracker] \in Rest,
         NEW d \in MinerDeal, Sound(d),
         Goto(a, "fail", d), Fault("save"), store # NoDeal, ~Stored(Waiting \cup HandedOff \cup {"Unknown"}),
         UNCHANGED <<kind, store, net, fund, seal, proc>>
  PROVE  IInv'
<1>1. up /\ Quiet((Handlers \ {a}) \cup Assigners) /\ Situation(a) /\ a \in Actors
  BY BusyHandler
<1>2. pc'[a] = "fail" /\ mem'[a] = d
  BY <1>1 DEF Goto, IInv, TypeInv, TypeOK
<1>3. "save" \in faults'
  BY DEF Fault
<1>4. StoreOK' /\ ChannelOK' /\ Sound(d)'
  BY DEF IInv, StoreOK, ChannelOK, Sound, RecordOK, ChainOK, Stored, net, fund, seal
<1>5. \A c \in Channels : chan'[c] \notin Live
  BY NoLive DEF IInv, net, Stored
<1>6. Place(a)'
  BY <1>2, <1>3, <1>5 DEF Place, Stored
<1>7. Account("fail", d)'
  BY <1>3 DEF Account, HeldBy, PendingBy, OnceBy, FailedBy, Clean
<1>8. (a \notin Streams /\ (a \in Imports => kind = "offline"))'
  BY <1>1 DEF Situation, Stored, Place, Rest
<1>9. Situation(a)'
  BY <1>2, <1>4, <1>6, <1>7, <1>8, NoDealAssumption DEF Situation, WorkPCs
<1> QED
  BY <1>1, <1>4, <1>9, HandlerStep DEF Rest, proc

\* A save that succeeds: the stored record is the handler's copy.
LEMMA SaveWorks ==
  ASSUME IInv, TypeInv', NEW a \in Handlers, pc[a] \notin Rest, pc[Tracker] \in Rest,
         NEW d \in MinerDeal, Sound(d), d.st # "Failing", \A c \in Channels : chan[c] \notin Live,
         NEW l \in {"off", "handoff"}, l = "handoff" => d.st = "Staged", Account(l, d),
         Goto(a, l, d), NoFault, store' = d, a \notin Streams,
         UNCHANGED <<kind, net, fund, seal, proc>>
  PROVE  IInv'
<1>1. up /\ Quiet((Handlers \ {a}) \cup Assigners) /\ Situation(a) /\ a \in Actors
  BY BusyHandler
<1>2. pc'[a] = l /\ mem'[a] = d /\ store' = d /\ store' # NoDeal
  BY <1>1, NoDealAssumption DEF Goto, IInv, TypeInv, TypeOK
<1>3. StoreOK' /\ Sound(d)'
  BY <1>2 DEF StoreOK, Sound, RecordOK, ChainOK, Stored, net, fund, seal
<1>4. ChannelOK'
  BY DEF ChannelOK, net
<1>5. Place(a)'
  BY <1>2 DEF Place, Stored
<1>6. Account(l, d)'
  <2>1. UNCHANGED <<held, pubs, faults>>
    BY DEF NoFault, fund
  <2>2. HeldBy(d)' /\ PendingBy(l, d)' /\ OnceBy(d)'
    BY <2>1 DEF Account, HeldBy, PendingBy, OnceBy, Clean
  <2>3. FailedBy(l)'
    BY <1>2 DEF FailedBy, Stored
  <2> QED
    BY <2>2, <2>3 DEF Account
<1>7. (a \in Imports => kind = "offline")'
  BY <1>1 DEF Situation
<1>8. Situation(a)'
  BY <1>2, <1>3, <1>5, <1>6, <1>7, NoDealAssumption DEF Situation, WorkPCs
<1> QED
  BY <1>1, <1>3, <1>4, <1>8, HandlerStep DEF Rest, proc

\* A call that fails sends the handler to HandleError; its copy is the stored
\* record, and what has been published has failed.
LEMMA CallFails ==
  ASSUME IInv, TypeInv', NEW a \in Handlers, pc[a] \notin Rest \cup {"create", "acceptsave", "fail"},
         pc[Tracker] \in Rest,
         Goto(a, "fail", mem[a]), mem[a] = store, store # NoDeal, ~Stored(HandedOff),
         \A c \in Channels : chan[c] \notin Live,
         UNCHANGED <<kind, store, chan, held, pubs, given, sealed, up>>, faults \subseteq faults',
         Clean({"wait", "save", "crashPublish"})' => \A p \in DOMAIN pubs : pubs[p] # "pending",
         Clean({"wait", "file", "save", "crashPublish"})' => \A p \in DOMAIN pubs : pubs[p] = "failed"
  PROVE  IInv'
<1>1. up /\ Quiet((Handlers \ {a}) \cup Assigners) /\ Situation(a) /\ a \in Actors
  BY BusyHandler
<1>2. pc'[a] = "fail" /\ mem'[a] = store /\ store' = store /\ store' # NoDeal
  BY <1>1 DEF Goto, IInv, TypeInv, TypeOK
<1>3. StoreOK' /\ Sound(store)'
  BY <1>2 DEF IInv, StoreOK, Sound, RecordOK, ChainOK, Stored
<1>4. ChannelOK' /\ \A c \in Channels : chan'[c] \notin Live
  BY DEF ChannelOK
<1>5. Place(a)'
  BY <1>2, <1>4 DEF Place, Stored
<1>6. Account("fail", store)'
  <2>1. HeldBy(store) /\ OnceBy(store)
    BY <1>1 DEF Situation, Account
  <2>2. HeldBy(store)' /\ OnceBy(store)'
    BY <1>2, <2>1 DEF HeldBy, OnceBy, Clean
  <2>3. FailedBy("fail")' /\ PendingBy("fail", store)'
    BY <1>2 DEF FailedBy, PendingBy
  <2> QED
    BY <2>2, <2>3 DEF Account
<1>7. (a \in Imports => kind = "offline")' /\ (a \in Streams => Stored({"Unknown"}))'
  BY <1>1 DEF Situation, Stored
<1>8. Situation(a)'
  BY <1>2, <1>3, <1>5, <1>6, <1>7 DEF Situation, WorkPCs
<1> QED
  BY <1>1, <1>3, <1>4, <1>8, HandlerStep DEF Rest

\* A handler that returns and has saved nothing since its accounts agreed with
\* the stored record.
LEMMA Returns ==
  ASSUME IInv, TypeInv', NEW a \in Handlers, pc[a] \notin Rest, Return(a),
         UNCHANGED <<kind, store, chan, held, pubs, given, sealed, up>>, faults \subseteq faults',
         store # NoDeal => Account("idle", store)
  PROVE  IInv'
<1>1. up /\ Quiet((Handlers \ {a}) \cup Assigners) /\ Situation(a) /\ a \in Actors
  BY BusyHandler
<1>2. StoreOK' /\ ChannelOK'
  BY DEF IInv, StoreOK, ChannelOK, Sound, RecordOK, ChainOK, Stored
<1>3. ASSUME store # NoDeal PROVE Account("idle", store)'
  <2>1. HeldBy(store) /\ PendingBy("idle", store) /\ OnceBy(store) /\ FailedBy("idle")
    BY <1>3 DEF Account
  <2>2. HeldBy(store)' /\ PendingBy("idle", store)' /\ OnceBy(store)' /\ FailedBy("idle")'
    BY <2>1 DEF HeldBy, PendingBy, OnceBy, FailedBy, Clean, Stored
  <2> QED
    BY <2>2 DEF Account
<1>4. PICK l \in Rest : Goto(a, l, NoDeal)
  BY <1>1, ReturnMove
<1> QED
  BY <1>1, <1>2, <1>3, <1>4, HandlerEnd

\* A handler that saves and returns.
LEMMA SavesAndReturns ==
  ASSUME IInv, TypeInv', NEW a \in Handlers, pc[a] \notin Rest, pc[Tracker] \in Rest, Return(a),
         NEW d \in MinerDeal, Sound(d), store' = d, NoFault,
         UNCHANGED <<kind, net, fund, seal, proc>>,
         \A c \in Channels : chan[c] \in Live => kind = "online" /\ d.st \in Waiting,
         HeldBy(d), PendingBy("idle", d), OnceBy(d),
         Clean({"wait", "file", "save", "crashPublish"}) /\ d.st = "Failing" =>
           \A p \in DOMAIN pubs : pubs[p] = "failed"
  PROVE  IInv'
<1>1. up /\ Quiet((Handlers \ {a}) \cup Assigners) /\ Situation(a) /\ a \in Actors
  BY BusyHandler
<1>2. store' # NoDeal
  BY NoDealAssumption
<1>3. StoreOK'
  BY <1>2 DEF StoreOK, Sound, RecordOK, ChainOK, Stored, net, fund, seal
<1>4. ChannelOK'
  BY <1>2 DEF ChannelOK, net, Stored
<1>5. Account("idle", store)'
  <2>1. HeldBy(store)' /\ PendingBy("idle", store)' /\ OnceBy(store)'
    BY DEF HeldBy, PendingBy, OnceBy, Clean, NoFault, fund
  <2>2. FailedBy("idle")'
    BY DEF FailedBy, Clean, NoFault, fund, Stored
  <2> QED
    BY <2>1, <2>2 DEF Account
<1>6. PICK l \in Rest : Goto(a, l, NoDeal)
  BY <1>1, ReturnMove
<1> QED
  BY <1>1, <1>3, <1>4, <1>5, <1>6, HandlerEnd DEF proc

\* HandleOff works on the record as it is stored.
LEMMA AtWork ==
  ASSUME IInv, NEW a \in Handlers, pc[a] = "off", mem[a].st \in Working
  PROVE  /\ mem[a] = store /\ store # NoDeal /\ mem[a] \in MinerDeal /\ Sound(mem[a])
         /\ pc[Tracker] \in Rest /\ Account("off", mem[a]) /\ a \notin Streams
         /\ ~Stored(Waiting \cup HandedOff \cup {"Unknown"}) /\ \A c \in Channels : chan[c] \notin Live
<1>1. /\ up /\ Situation(a) /\ a \in Actors
      /\ pc[Tracker] \in Rest \/ (pc[a] = "off" /\ mem[a].st \in HandedOff)
  BY BusyHandler DEF Rest
<1>2. mem[a].st \notin HandedOff \cup Waiting \cup {"Unknown"}
  BY DEF Working, HandedOff, Waiting
<1>3. mem[a] = store /\ store # NoDeal /\ Sound(mem[a]) /\ Account("off", mem[a]) /\ a \notin Streams
  BY <1>1, <1>2 DEF Situation, Place, Events, WorkPCs
<1>4. ~Stored(Waiting \cup HandedOff \cup {"Unknown"}) /\ ~Stored(Waiting)
  BY <1>2, <1>3 DEF Stored
<1>5. mem[a] \in MinerDeal
  BY <1>1, <1>3 DEF IInv, TypeInv, TypeOK
<1> QED
  BY <1>1, <1>2, <1>3, <1>4, <1>5, NoLive DEF IInv

\* A fault is remembered.
LEMMA FaultKept ==
  /\ \A f : Fault(f) => faults \subseteq faults' /\ f \in faults'
  /\ NoFault => faults \subseteq faults'
BY DEF Fault, NoFault

\* HandleOff fails before the deal is published.
LEMMA FailsUnpublished ==
  ASSUME IInv, TypeInv', NEW a \in Handlers, pc[a] = "off", mem[a].st \in Working, mem[a].pub = None,
         Goto(a, "fail", mem[a]), UNCHANGED <<kind, store, net, fund, seal, proc>>, faults \subseteq faults'
  PROVE  IInv'
<1>1. /\ mem[a] = store /\ store # NoDeal /\ pc[Tracker] \in Rest /\ Account("off", mem[a])
      /\ ~Stored(HandedOff) /\ \A c \in Channels : chan[c] \notin Live
  BY AtWork DEF Stored
<1>2. Clean({"save", "crashPublish"}) => DOMAIN pubs = {}
  BY <1>1 DEF Account, OnceBy
<1>3. /\ Clean({"wait", "save", "crashPublish"})' => DOMAIN pubs = {}
      /\ Clean({"wait", "file", "save", "crashPublish"})' => DOMAIN pubs = {}
  BY <1>2 DEF Clean
<1>4. UNCHANGED <<kind, store, chan, held, pubs, given, sealed, up>>
  BY DEF net, fund, seal, proc
<1>5. pc[a] \notin Rest \cup {"create", "acceptsave", "fail"}
  BY DEF Rest
<1> QED
  BY <1>1, <1>3, <1>4, <1>5, CallFails

\* SaveDeal in HandleOff, in either outcome.
LEMMA SaveStep ==
  ASSUME IInv, TypeInv', NEW a \in Handlers, pc[a] \notin Rest, pc[Tracker] \in Rest,
         NEW d \in MinerDeal, Sound(d), d.st # "Failing",
         NEW l \in {"off", "handoff"}, l = "handoff" => d.st = "Staged", Account(l, d),
         SaveDeal(a, d, l, d), store # NoDeal, ~Stored(Waiting \cup HandedOff \cup {"Unknown"}),
         UNCHANGED <<kind, net, fund, seal, proc>>
  PROVE  IInv'
<1>1. \A c \in Channels : chan[c] \notin Live
  BY NoLive DEF IInv, Stored
<1>2. a \notin Streams
  BY BusyHandler DEF Situation, Place, Stored
<1>3. CASE store' = d /\ Goto(a, l, d) /\ NoFault
  BY <1>1, <1>2, <1>3, SaveWorks
<1>4. CASE Fault("save") /\ Goto(a, "fail", d) /\ UNCHANGED store
  BY <1>4, SaveFails
<1> QED
  BY <1>3, <1>4 DEF SaveDeal

\* Account does not depend on the label where nothing has failed.
LEMMA AccountMoves ==
  ASSUME NEW l, NEW m, NEW r, Account(l, r), l \notin {"fail", "failsave"}, m \in {"off", "idle", "handoff"},
         m = "handoff" => r.st # "Publishing"
  PROVE  Account(m, r)
BY DEF Account, PendingBy, FailedBy, Rest

\* The save after Reserve: the copy with the reservation becomes the record.
LEMMA SaveReservedSafe ==
  ASSUME IInv, TypeInv', NEW a \in Handlers, SaveReserved(a)
  PROVE  IInv'
<1>1. pc[a] = "reserved" /\ pc[a] \notin Rest
  BY DEF SaveReserved, Rest
<1>2. Situation(a) /\ a \in Actors /\ pc[Tracker] \in Rest
  BY <1>1, BusyHandler
<1>3. /\ Stored({"ReserveProviderFunds"}) /\ mem[a].st \in {"ProviderFunding", "Publish"}
      /\ Sound(mem[a]) /\ mem[a] # NoDeal /\ Account("reserved", mem[a])
  BY <1>1, <1>2 DEF Situation, Place, Events, WorkPCs
<1>4. mem[a] \in MinerDeal
  BY <1>2, <1>3 DEF IInv, TypeInv, TypeOK
<1>5. Account("off", mem[a])
  BY <1>3, AccountMoves
<1>6. store # NoDeal /\ ~Stored(Waiting \cup HandedOff \cup {"Unknown"})
  BY <1>3 DEF Stored, Waiting, HandedOff
<1>7. SaveDeal(a, mem[a], "off", mem[a]) /\ UNCHANGED <<kind, net, fund, seal, proc>>
  BY DEF SaveReserved
<1> QED
  BY <1>1, <1>2, <1>3, <1>4, <1>5, <1>6, <1>7, SaveStep

\* The save after the push: the record learns its publish message.
LEMMA SavePublishedSafe ==
  ASSUME IInv, TypeInv', NEW a \in Handlers, SavePublished(a)
  PROVE  IInv'
<1>1. pc[a] = "published" /\ pc[a] \notin Rest
  BY DEF SavePublished, Rest
<1>2. Situation(a) /\ a \in Actors /\ pc[Tracker] \in Rest
  BY <1>1, BusyHandler
<1>3. /\ Stored({"Publish"}) /\ mem[a].st = "Publishing"
      /\ Sound(mem[a]) /\ mem[a] # NoDeal /\ Account("published", mem[a])
  BY <1>1, <1>2 DEF Situation, Place, Events, WorkPCs
<1>4. mem[a] \in MinerDeal
  BY <1>2, <1>3 DEF IInv, TypeInv, TypeOK
<1>5. Account("off", mem[a])
  BY <1>3, AccountMoves
<1>6. store # NoDeal /\ ~Stored(Waiting \cup HandedOff \cup {"Unknown"})
  BY <1>3 DEF Stored, Waiting, HandedOff
<1>7. SaveDeal(a, mem[a], "off", mem[a]) /\ UNCHANGED <<kind, net, fund, seal, proc>>
  BY DEF SavePublished
<1> QED
  BY <1>1, <1>2, <1>3, <1>4, <1>5, <1>6, <1>7, SaveStep

\* The save after the publication.
LEMMA SaveStagedSafe ==
  ASSUME IInv, TypeInv', NEW a \in Handlers, SaveStaged(a)
  PROVE  IInv'
<1>1. pc[a] = "released" /\ pc[a] \notin Rest
  BY DEF SaveStaged, Rest
<1>2. Situation(a) /\ a \in Actors /\ pc[Tracker] \in Rest
  BY <1>1, BusyHandler
<1>3. /\ Stored({"Publishing"}) /\ mem[a].st = "Staged"
      /\ Sound(mem[a]) /\ mem[a] # NoDeal /\ Account("released", mem[a])
  BY <1>1, <1>2 DEF Situation, Place, Events, WorkPCs
<1>4. mem[a] \in MinerDeal
  BY <1>2, <1>3 DEF IInv, TypeInv, TypeOK
<1>5. Account("off", mem[a])
  BY <1>3, AccountMoves
<1>6. store # NoDeal /\ ~Stored(Waiting \cup HandedOff \cup {"Unknown"})
  BY <1>3 DEF Stored, Waiting, HandedOff
<1>7. SaveDeal(a, mem[a], "off", mem[a]) /\ UNCHANGED <<kind, net, fund, seal, proc>>
  BY DEF SaveStaged
<1> QED
  BY <1>1, <1>2, <1>3, <1>4, <1>5, <1>6, <1>7, SaveStep

\* VerifyData saves the verified deal or fails before anything is published.
LEMMA VerifyDataSafe ==
  ASSUME IInv, TypeInv', NEW a \in Handlers, VerifyData(a)
  PROVE  IInv'
<1>1. pc[a] = "off" /\ mem[a].st = "VerifyData" /\ pc[a] \notin Rest
      /\ mem[a].st \in Working
  BY DEF VerifyData, At, Working, Rest
<1>2. /\ mem[a] = store /\ store # NoDeal /\ mem[a] \in MinerDeal /\ Sound(mem[a])
      /\ pc[Tracker] \in Rest /\ Account("off", mem[a]) /\ a \notin Streams
      /\ ~Stored(Waiting \cup HandedOff \cup {"Unknown"}) /\ \A c \in Channels : chan[c] \notin Live
  BY <1>1, AtWork
<1>3. PICK d \in MinerDeal : d = [mem[a] EXCEPT !.ps = "Undefine", !.st = "ReserveProviderFunds"]
  BY <1>2, CopyType, StateNames
<1>4. /\ d.st = "ReserveProviderFunds" /\ d.fr = mem[a].fr /\ d.pub = mem[a].pub /\ d.id = mem[a].id
      /\ d.sec = mem[a].sec
  BY <1>2, <1>3 DEF MinerDeal
<1>5. Sound(d) /\ Account("off", d)
  <2>1. Sound(d)
    BY <1>1, <1>2, <1>4 DEF Sound, RecordOK, ChainOK, Early, Waiting, Published, HandedOff
  <2>2. Account("off", d)
    BY <1>1, <1>2, <1>4 DEF Account, HeldBy, PendingBy, OnceBy, FailedBy
  <2> QED
    BY <2>1, <2>2
<1>6. mem[a].pub = None
  BY <1>1, <1>2 DEF Sound, RecordOK, Early
<1>7. CASE SaveDeal(a, d, "off", d)
  BY <1>1, <1>2, <1>4, <1>5, <1>7, SaveStep DEF VerifyData
<1>8. CASE Goto(a, "fail", mem[a]) /\ UNCHANGED store /\ faults \subseteq faults'
  BY <1>1, <1>6, <1>8, FailsUnpublished DEF VerifyData
<1> QED
  BY <1>3, <1>7, <1>8, FaultKept DEF VerifyData

\* The wait for the funding message ends in a save or a failure.
LEMMA WaitForFundingSafe ==
  ASSUME IInv, TypeInv', NEW a \in Handlers, WaitForFunding(a)
  PROVE  IInv'
<1>1. pc[a] = "off" /\ mem[a].st = "ProviderFunding" /\ pc[a] \notin Rest /\ mem[a].st \in Working
  BY DEF WaitForFunding, At, Working, Rest
<1>2. /\ mem[a] = store /\ store # NoDeal /\ mem[a] \in MinerDeal /\ Sound(mem[a])
      /\ pc[Tracker] \in Rest /\ Account("off", mem[a])
      /\ ~Stored(Waiting \cup HandedOff \cup {"Unknown"})
  BY <1>1, AtWork
<1>3. PICK d \in MinerDeal : d = [mem[a] EXCEPT !.st = "Publish"]
  BY <1>2, CopyType, StateNames
<1>4. /\ d.st = "Publish" /\ d.fr = mem[a].fr /\ d.pub = mem[a].pub /\ d.id = mem[a].id
      /\ d.sec = mem[a].sec /\ d.ps = mem[a].ps
  BY <1>2, <1>3 DEF MinerDeal
<1>5. Sound(d) /\ Account("off", d)
  <2>1. Sound(d)
    BY <1>1, <1>2, <1>4 DEF Sound, RecordOK, ChainOK, Early, Waiting, Published, HandedOff
  <2>2. Account("off", d)
    BY <1>1, <1>2, <1>4 DEF Account, HeldBy, PendingBy, OnceBy, FailedBy
  <2> QED
    BY <2>1, <2>2
<1>6. mem[a].pub = None
  BY <1>1, <1>2 DEF Sound, RecordOK
<1>7. CASE SaveDeal(a, d, "off", d)
  BY <1>1, <1>2, <1>4, <1>5, <1>7, SaveStep DEF WaitForFunding
<1>8. CASE Goto(a, "fail", mem[a]) /\ UNCHANGED store /\ faults \subseteq faults'
  BY <1>1, <1>6, <1>8, FailsUnpublished DEF WaitForFunding
<1> QED
  BY <1>3, <1>7, <1>8, FaultKept DEF WaitForFunding

\* The deal is handed off, or fails with "file" noted.
LEMMA HandOffSafe ==
  ASSUME IInv, TypeInv', NEW a \in Handlers, HandOff(a)
  PROVE  IInv'
<1>1. pc[a] = "handoff" /\ pc[a] \notin Rest
  BY DEF HandOff, Rest
<1>2. Situation(a) /\ a \in Actors /\ pc[Tracker] \in Rest
  BY <1>1, BusyHandler
<1>3. /\ Stored({"Staged"}) /\ mem[a] = store /\ store # NoDeal /\ mem[a].st = "Staged"
      /\ Sound(mem[a]) /\ Account("handoff", mem[a])
  BY <1>1, <1>2 DEF Situation, Place, Events, WorkPCs, Stored
<1>4. mem[a] \in MinerDeal /\ ~Stored(Waiting \cup HandedOff \cup {"Unknown"}) /\ ~Stored(Waiting)
  BY <1>2, <1>3 DEF IInv, TypeInv, TypeOK, Stored, Waiting, HandedOff
<1>5. PICK d \in MinerDeal : d = [mem[a] EXCEPT !.st = "AwaitingPreCommit"]
  BY <1>4, CopyType, StateNames
<1>6. /\ d.st = "AwaitingPreCommit" /\ d.fr = mem[a].fr /\ d.pub = mem[a].pub /\ d.id = mem[a].id
      /\ d.sec = mem[a].sec /\ d.ps = mem[a].ps
  BY <1>4, <1>5 DEF MinerDeal
<1>7. Sound(d)
  BY <1>3, <1>6 DEF Sound, RecordOK, ChainOK, Early, Waiting, Published, HandedOff
<1>8. Account("off", d)
  BY <1>3, <1>6 DEF Account, HeldBy, PendingBy, OnceBy, FailedBy, Rest
<1>9. CASE SaveDeal(a, d, "off", d)
  BY <1>1, <1>2, <1>3, <1>4, <1>6, <1>7, <1>8, <1>9, SaveStep DEF HandOff
<1>10. CASE Fault("file") /\ Goto(a, "fail", mem[a]) /\ UNCHANGED store
  <2>1. /\ pc[a] \notin Rest \cup {"create", "acceptsave", "fail"}
        /\ faults \subseteq faults' /\ "file" \in faults'
    BY <1>1, <1>10, FaultKept
  <2>2. UNCHANGED <<kind, store, chan, held, pubs, given, sealed, up>>
    BY <1>10 DEF HandOff, net, fund, seal, proc
  <2>3. /\ Clean({"wait", "save", "crashPublish"})' => \A p \in DOMAIN pubs : pubs[p] # "pending"
        /\ ~Clean({"wait", "file", "save", "crashPublish"})'
    BY <1>3, <2>1 DEF Account, PendingBy, Clean
  <2>4. ~Stored(HandedOff) /\ \A c \in Channels : chan[c] \notin Live
    BY <1>4, NoLive DEF IInv, Stored
  <2> QED
    BY <1>2, <1>3, <1>10, <2>1, <2>2, <2>3, <2>4, CallFails
<1> QED
  BY <1>5, <1>9, <1>10 DEF HandOff

\* The data is opened and the record saved, or the deal fails with "file" noted.
LEMMA OpenDataSafe ==
  ASSUME IInv, TypeInv', NEW a \in Handlers, OpenData(a)
  PROVE  IInv'
<1>1. pc[a] = "off" /\ mem[a].st = "Staged" /\ pc[a] \notin Rest /\ mem[a].st \in Working
  BY DEF OpenData, At, Working, Rest
<1>2. /\ mem[a] = store /\ store # NoDeal /\ mem[a] \in MinerDeal /\ Sound(mem[a])
      /\ pc[Tracker] \in Rest /\ Account("off", mem[a])
      /\ ~Stored(Waiting \cup HandedOff \cup {"Unknown"}) /\ \A c \in Channels : chan[c] \notin Live
  BY <1>1, AtWork
<1>3. CASE SaveDeal(a, mem[a], "handoff", mem[a])
  <2>1. Account("handoff", mem[a])
    BY <1>1, <1>2, AccountMoves
  <2> QED
    BY <1>1, <1>2, <1>3, <2>1, SaveStep DEF OpenData
<1>4. CASE Fault("file") /\ Goto(a, "fail", mem[a]) /\ UNCHANGED store
  <2>1. /\ pc[a] \notin Rest \cup {"create", "acceptsave", "fail"}
        /\ faults \subseteq faults' /\ "file" \in faults'
    BY <1>1, <1>4, FaultKept
  <2>2. UNCHANGED <<kind, store, chan, held, pubs, given, sealed, up>>
    BY <1>4 DEF OpenData, net, fund, seal, proc
  <2>3. /\ Clean({"wait", "save", "crashPublish"})' => \A p \in DOMAIN pubs : pubs[p] # "pending"
        /\ ~Clean({"wait", "file", "save", "crashPublish"})'
    BY <1>1, <1>2, <2>1 DEF Account, PendingBy, Clean
  <2>4. ~Stored(HandedOff)
    BY <1>2 DEF Stored
  <2> QED
    BY <1>2, <1>4, <2>1, <2>2, <2>3, <2>4, CallFails
<1> QED
  BY <1>3, <1>4 DEF OpenData

\* Reserve adds one unit to what is held and to the copy at once.
LEMMA ReserveFundsSafe ==
  ASSUME IInv, TypeInv', NEW a \in Handlers, ReserveFunds(a)
  PROVE  IInv'
<1>1. pc[a] = "off" /\ mem[a].st = "ReserveProviderFunds" /\ pc[a] \notin Rest /\ mem[a].st \in Working
  BY DEF ReserveFunds, At, Working, Rest
<1>2. /\ mem[a] = store /\ store # NoDeal /\ mem[a] \in MinerDeal /\ Sound(mem[a])
      /\ pc[Tracker] \in Rest /\ Account("off", mem[a]) /\ a \notin Streams
  BY <1>1, AtWork
<1>3. up /\ Quiet((Handlers \ {a}) \cup Assigners) /\ Situation(a) /\ a \in Actors
  BY <1>1, BusyHandler
<1>4. mem[a].pub = None /\ mem[a].fr = 0 /\ ~mem[a].id
  BY <1>1, <1>2 DEF Sound, RecordOK, Published, HandedOff
<1>5. ASSUME held' = held + 1, NoFault, NEW st \in {"ProviderFunding", "Publish"},
             Goto(a, "reserved", [mem[a] EXCEPT !.fr = @ + 1, !.st = st])
      PROVE  IInv'
  <2>1. PICK d \in MinerDeal : d = [mem[a] EXCEPT !.fr = @ + 1, !.st = st]
    BY <1>2, CopyType, StateNames
  <2>2. /\ d.st = st /\ d.fr = 1 /\ d.pub = None /\ d.id = mem[a].id
        /\ d.sec = mem[a].sec /\ d.ps = mem[a].ps
    <3>1. /\ d.st = st /\ d.fr = mem[a].fr + 1 /\ d.pub = mem[a].pub /\ d.id = mem[a].id
          /\ d.sec = mem[a].sec /\ d.ps = mem[a].ps
      BY <1>2, <2>1 DEF MinerDeal
    <3> QED
      BY <1>4, <3>1
  <2>3. pc'[a] = "reserved" /\ mem'[a] = d /\ store' = store /\ UNCHANGED <<kind, chan, pubs, given, sealed, up>>
    BY <1>3, <1>5, <2>1 DEF Goto, IInv, TypeInv, TypeOK, ReserveFunds, net, seal, proc
  <2>4. Sound(d)'
    BY <1>1, <1>2, <1>4, <2>2, <2>3
       DEF Sound, RecordOK, ChainOK, Early, Waiting, Published, HandedOff
  <2>5. StoreOK' /\ ChannelOK'
    BY <1>2, <2>3 DEF IInv, StoreOK, ChannelOK, Stored, Sound, RecordOK, ChainOK
  <2>6. Place(a)'
    BY <1>1, <1>2, <2>2, <2>3 DEF Place, Stored
  <2>7. Account("reserved", d)'
    <3>1. held \in Int /\ held' = held + 1 /\ UNCHANGED <<faults, pubs, store>>
      BY <1>5, <2>3 DEF IInv, TypeInv, TypeOK, NoFault
    <3>2. HeldBy(d)'
      BY <1>2, <1>4, <2>2, <3>1 DEF Account, HeldBy, Clean
    <3>3. PendingBy("reserved", d)' /\ OnceBy(d)' /\ FailedBy("reserved")'
      BY <1>1, <1>2, <1>4, <2>2, <3>1 DEF Account, PendingBy, OnceBy, FailedBy, Clean, Stored
    <3> QED
      BY <3>2, <3>3 DEF Account
  <2>8. Situation(a)'
    BY <1>2, <1>3, <2>3, <2>4, <2>6, <2>7, NoDealAssumption DEF Situation, WorkPCs
  <2> QED
    BY <1>2, <1>3, <1>5, <2>1, <2>3, <2>5, <2>8, HandlerStep DEF Rest
<1>6. CASE Fault("reserve") /\ Goto(a, "fail", mem[a]) /\ UNCHANGED held
  BY <1>1, <1>4, <1>6, FailsUnpublished, FaultKept DEF ReserveFunds, fund
<1> QED
  BY <1>5, <1>6 DEF ReserveFunds

\* The push adds the message that the copy names, the first one unless a
\* fault is noted.
LEMMA PublishDealsSafe ==
  ASSUME IInv, TypeInv', NEW a \in Handlers, PublishDeals(a)
  PROVE  IInv'
<1>1. pc[a] = "off" /\ mem[a].st = "Publish" /\ pc[a] \notin Rest /\ mem[a].st \in Working
  BY DEF PublishDeals, At, Working, Rest
<1>2. /\ mem[a] = store /\ store # NoDeal /\ mem[a] \in MinerDeal /\ Sound(mem[a])
      /\ pc[Tracker] \in Rest /\ Account("off", mem[a]) /\ a \notin Streams
  BY <1>1, AtWork
<1>3. up /\ Quiet((Handlers \ {a}) \cup Assigners) /\ Situation(a) /\ a \in Actors
  BY <1>1, BusyHandler
<1>4. mem[a].pub = None /\ mem[a].fr = 1 /\ ~mem[a].id /\ given = {}
  BY <1>1, <1>2 DEF Sound, RecordOK, ChainOK, Published, HandedOff
<1>5. CASE /\ Len(pubs) < MaxPubs /\ pubs' = Append(pubs, "pending") /\ NoFault
           /\ Goto(a, "published", [mem[a] EXCEPT !.pub = Len(pubs) + 1, !.st = "Publishing"])
  <2>1. /\ pubs \in Seq({"pending", "ok", "failed"}) /\ MaxPubs \in Nat /\ Len(pubs) + 1 \in 1 .. MaxPubs
        /\ Len(pubs) + 1 # None
    BY <1>5, StorageDealAssumption DEF IInv, TypeInv, TypeOK
  <2>2. PICK d \in MinerDeal : d = [mem[a] EXCEPT !.pub = Len(pubs) + 1, !.st = "Publishing"]
    BY <1>2, <2>1, CopyType, StateNames
  <2>3. /\ d.st = "Publishing" /\ d.fr = 1 /\ d.pub = Len(pubs) + 1 /\ d.id = mem[a].id
        /\ d.sec = mem[a].sec /\ d.ps = mem[a].ps
    BY <1>2, <1>4, <2>2 DEF MinerDeal
  <2>4. pc'[a] = "published" /\ mem'[a] = d /\ store' = store
        /\ UNCHANGED <<kind, chan, held, given, sealed, up, faults>>
    BY <1>3, <1>5, <2>2 DEF Goto, IInv, TypeInv, TypeOK, PublishDeals, net, seal, proc, NoFault
  <2>5. /\ DOMAIN pubs' = 1 .. Len(pubs) + 1 /\ DOMAIN pubs = 1 .. Len(pubs) /\ Len(pubs') = Len(pubs) + 1
        /\ \A p \in DOMAIN pubs : p \in DOMAIN pubs' /\ pubs'[p] = pubs[p]
        /\ Len(pubs) + 1 \in DOMAIN pubs'
    BY <1>5, <2>1
  <2>6. Sound(d)'
    BY <1>1, <1>2, <1>4, <2>1, <2>3, <2>4, <2>5
       DEF Sound, RecordOK, ChainOK, Early, Waiting, Published, HandedOff
  <2>7. StoreOK'
    BY <1>1, <1>2, <1>4, <2>4, <2>5 DEF StoreOK, Sound, RecordOK, ChainOK
  <2>8. ChannelOK'
    BY <2>4 DEF IInv, ChannelOK, Stored
  <2>9. Place(a)'
    BY <1>1, <1>2, <2>3, <2>4 DEF Place, Stored
  <2>10. Account("published", d)'
    <3>1. HeldBy(d)'
      BY <1>2, <1>4, <2>3, <2>4 DEF Account, HeldBy, Clean
    <3>2. ASSUME Clean({"save", "crashPublish"}) PROVE Len(pubs) = 0 /\ Len(pubs') = 1 /\ DOMAIN pubs' = {1}
      BY <1>2, <1>4, <2>1, <2>5, <3>2 DEF Account, OnceBy
    <3>3. OnceBy(d)'
      <4>1. d.pub # None
        BY <2>1, <2>3
      <4>2. Clean({"save", "crashPublish"})' => Clean({"save", "crashPublish"})
        BY <2>4 DEF Clean
      <4>3. Clean({"save", "crashPublish"})' => Len(pubs') = 1
        BY <3>2, <4>2
      <4> QED
        <5>1. Len(pubs') = 1 => Len(pubs') <= 1
          OBVIOUS
        <5> QED
          BY <4>1, <4>3, <5>1 DEF OnceBy
    <3>4. PendingBy("published", d)'
      BY <2>3, <2>4, <3>2 DEF PendingBy, Clean
    <3>5. FailedBy("published")'
      BY <1>1, <1>2, <2>4 DEF FailedBy, Stored
    <3> QED
      BY <3>1, <3>3, <3>4, <3>5 DEF Account
  <2>11. Situation(a)'
    BY <1>2, <1>3, <2>4, <2>6, <2>9, <2>10, NoDealAssumption DEF Situation, WorkPCs
  <2> QED
    BY <1>2, <1>3, <1>5, <2>2, <2>4, <2>7, <2>8, <2>11, HandlerStep DEF Rest
<1>6. CASE Fault("publish") /\ Goto(a, "fail", mem[a]) /\ UNCHANGED pubs
  BY <1>1, <1>4, <1>6, FailsUnpublished, FaultKept DEF PublishDeals, fund
<1> QED
  BY <1>5, <1>6 DEF PublishDeals

\* Releasing the reserved funds settles the account, unless Release fails.
LEMMA Released ==
  ASSUME NEW a \in Actors, NEW d, d.fr = 0, HeldBy(mem[a]), ReleaseReservedFunds(a), held \in Int, mem[a].fr \in Nat
  PROVE  HeldBy(d)' /\ faults \subseteq faults'
<1>1. PICK n \in Nat : n = mem[a].fr
  OBVIOUS
<1>2. CASE held' = held - mem[a].fr /\ NoFault
  <2>1. faults' = faults /\ held' = held - n
    BY <1>1, <1>2 DEF NoFault
  <2>2. held = n => held' = 0
    BY <2>1
  <2>3. held >= n => held' >= 0
    BY <2>1
  <2> QED
    BY <1>1, <2>1, <2>2, <2>3 DEF HeldBy, Clean
<1>3. CASE Fault("release") /\ UNCHANGED held
  <2>1. "release" \in faults' /\ faults \subseteq faults'
    BY <1>3 DEF Fault
  <2>2. held >= n => held' >= 0
    BY <1>3
  <2>3. Clean({"save", "crashRelease"})' => held' >= 0
    BY <1>1, <2>1, <2>2 DEF HeldBy, Clean
  <2>4. ~Clean({"save", "release", "crashReserve", "crashRelease"})'
    BY <2>1 DEF Clean
  <2> QED
    BY <2>1, <2>3, <2>4 DEF HeldBy
<1> QED
  BY <1>2, <1>3 DEF ReleaseReservedFunds

\* The wait ends when the message named by the record has executed: in a release
\* of the funds, or in a failure of a deal whose message failed.
LEMMA WaitForPublishSafe ==
  ASSUME IInv, TypeInv', NEW a \in Handlers, WaitForPublish(a)
  PROVE  IInv'
<1>1. pc[a] = "off" /\ mem[a].st = "Publishing" /\ mem[a].pub # None /\ pc[a] \notin Rest /\ mem[a].st \in Working
  BY DEF WaitForPublish, At, Working, Rest
<1>2. /\ mem[a] = store /\ store # NoDeal /\ mem[a] \in MinerDeal /\ Sound(mem[a])
      /\ pc[Tracker] \in Rest /\ Account("off", mem[a]) /\ a \notin Streams
      /\ ~Stored(Waiting \cup HandedOff \cup {"Unknown"}) /\ \A c \in Channels : chan[c] \notin Live
  BY <1>1, AtWork
<1>3. up /\ Quiet((Handlers \ {a}) \cup Assigners) /\ Situation(a) /\ a \in Actors
  BY <1>1, BusyHandler
<1>4. mem[a].pub \in DOMAIN pubs /\ mem[a].fr = 1 /\ ~mem[a].id /\ given = {}
  BY <1>1, <1>2 DEF Sound, RecordOK, ChainOK, Published, HandedOff
<1>5. pubs \in Seq({"pending", "ok", "failed"}) /\ held \in Int
  BY DEF IInv, TypeInv, TypeOK
<1>6. UNCHANGED <<kind, store, chan, pubs, given, sealed, up>>
  BY DEF WaitForPublish, net, seal, proc
<1>7. CASE /\ pubs[mem[a].pub] = "ok" /\ ReleaseReservedFunds(a)
           /\ Goto(a, "released", [mem[a] EXCEPT !.fr = 0, !.id = TRUE, !.st = "Staged"])
  <2>1. PICK d \in MinerDeal : d = [mem[a] EXCEPT !.fr = 0, !.id = TRUE, !.st = "Staged"]
    BY <1>2, CopyType, StateNames
  <2>2. /\ d.st = "Staged" /\ d.fr = 0 /\ d.pub = mem[a].pub /\ d.id
        /\ d.sec = mem[a].sec /\ d.ps = mem[a].ps
    BY <1>2, <2>1 DEF MinerDeal
  <2>3. pc'[a] = "released" /\ mem'[a] = d
    BY <1>3, <1>7, <2>1 DEF Goto, IInv, TypeInv, TypeOK
  <2>4. Sound(d)'
    BY <1>1, <1>4, <1>6, <1>7, <2>2
       DEF Sound, RecordOK, ChainOK, Early, Waiting, Published, HandedOff
  <2>5. StoreOK' /\ ChannelOK'
    BY <1>2, <1>6 DEF IInv, StoreOK, ChannelOK, Stored, Sound, RecordOK, ChainOK
  <2>6. Place(a)'
    BY <1>1, <1>2, <1>6, <2>2, <2>3 DEF Place, Stored
  <2>7. Account("released", d)'
    <3>1. HeldBy(d)' /\ faults \subseteq faults'
      BY <1>2, <1>3, <1>4, <1>5, <1>7, <2>2, Released DEF Account
    <3>2. PendingBy("released", d)'
      BY <1>2, <1>6, <1>7, <3>1 DEF Account, PendingBy, Clean
    <3>3. OnceBy(d)'
      BY <1>1, <1>2, <1>6, <2>2, <3>1 DEF Account, OnceBy, Clean
    <3>4. FailedBy("released")'
      BY <1>1, <1>2, <1>6 DEF FailedBy, Stored
    <3> QED
      BY <3>1, <3>2, <3>3, <3>4 DEF Account
  <2>8. Situation(a)'
    BY <1>2, <1>3, <1>6, <2>3, <2>4, <2>6, <2>7, NoDealAssumption DEF Situation, WorkPCs
  <2> QED
    BY <1>2, <1>3, <1>6, <1>7, <2>1, <2>5, <2>8, HandlerStep DEF Rest
<1>8. CASE /\ Goto(a, "fail", mem[a]) /\ UNCHANGED held
           /\ (pubs[mem[a].pub] = "failed" /\ NoFault) \/ Fault("wait")
  <2>1. /\ pc[a] \notin Rest \cup {"create", "acceptsave", "fail"} /\ faults \subseteq faults'
        /\ UNCHANGED <<kind, store, chan, held, pubs, given, sealed, up>>
    BY <1>1, <1>6, <1>8, FaultKept
  <2>2. ~Stored(HandedOff)
    BY <1>2 DEF Stored
  <2>3. ASSUME Clean({"wait", "save", "crashPublish"})' PROVE \A p \in DOMAIN pubs : pubs[p] # "pending"
    <3>1. pubs[mem[a].pub] = "failed" /\ Clean({"wait", "save", "crashPublish"})
      BY <1>8, <2>1, <2>3, FaultKept DEF Clean
    <3> QED
      BY <1>2, <3>1 DEF Account, PendingBy
  <2>4. ASSUME Clean({"wait", "file", "save", "crashPublish"})' PROVE \A p \in DOMAIN pubs : pubs[p] = "failed"
    <3>1. pubs[mem[a].pub] = "failed" /\ Clean({"save", "crashPublish"})
      BY <1>8, <2>1, <2>4, FaultKept DEF Clean
    <3>2. Len(pubs) <= 1
      BY <1>2, <3>1 DEF Account, OnceBy
    <3>3. \A p, q \in DOMAIN pubs : p = q
      BY <1>5, <3>2
    <3> QED
      BY <1>4, <3>1, <3>3
  <2> QED
    BY <1>2, <1>8, <2>1, <2>2, <2>3, <2>4, CallFails
<1> QED
  BY <1>7, <1>8 DEF WaitForPublish

\* HandleOff ends for a record that it has nothing to do for; the tracker may
\* have moved the stored one on.
LEMMA EndHandleOffSafe ==
  ASSUME IInv, TypeInv', NEW a \in Handlers, EndHandleOff(a)
  PROVE  IInv'
<1>1. pc[a] = "off" /\ pc[a] \notin Rest
  BY DEF EndHandleOff, Rest
<1>2. Situation(a) /\ a \in Actors
  BY <1>1, BusyHandler
<1>3. /\ mem[a] = store \/ (mem[a].st \in HandedOff /\ Stored(HandedOff))
      /\ store # NoDeal /\ Account("off", mem[a]) /\ Sound(mem[a]) /\ Sound(store)
  BY <1>1, <1>2 DEF Situation, Place, Events, WorkPCs, IInv, StoreOK
<1>4. Account("idle", store)
  <2>1. CASE mem[a] = store
    BY <1>3, <2>1, AccountMoves
  <2>2. CASE mem[a].st \in HandedOff /\ Stored(HandedOff)
    <3>1. mem[a].fr = store.fr /\ mem[a].pub # None /\ store.pub # None /\ mem[a].st # "Publishing"
      BY <1>3, <2>2 DEF Sound, RecordOK, Published, Stored, HandedOff
    <3> QED
      BY <1>3, <3>1 DEF Account, HeldBy, PendingBy, OnceBy, FailedBy
  <2> QED
    BY <1>3, <2>1, <2>2
<1>5. Return(a) /\ UNCHANGED <<kind, store, chan, held, pubs, given, sealed, up, faults>>
  BY DEF EndHandleOff, net, fund, seal, proc
<1> QED
  BY <1>1, <1>4, <1>5, Returns

\* HandleError releases what the copy says is reserved.
LEMMA HandleErrorSafe ==
  ASSUME IInv, TypeInv', NEW a \in Handlers, HandleError(a)
  PROVE  IInv'
<1>1. pc[a] = "fail" /\ pc[a] \notin Rest
  BY DEF HandleError, Rest
<1>2. up /\ Quiet((Handlers \ {a}) \cup Assigners) /\ Situation(a) /\ a \in Actors /\ pc[Tracker] \in Rest
  BY <1>1, BusyHandler
<1>3. /\ mem[a] # NoDeal /\ Sound(mem[a]) /\ store # NoDeal /\ ~Stored(HandedOff)
      /\ "save" \notin faults => mem[a] = store
      /\ \A c \in Channels : chan[c] \notin Live
      /\ Account("fail", mem[a])
  BY <1>1, <1>2 DEF Situation, Place, Events, WorkPCs
<1>4. mem[a] \in MinerDeal /\ held \in Int
  BY <1>2, <1>3 DEF IInv, TypeInv, TypeOK
<1>5. mem[a].fr \in Nat
  BY <1>4 DEF MinerDeal
<1>6. PICK d \in MinerDeal : d = [mem[a] EXCEPT !.fr = 0, !.st = "Failing"]
  BY <1>4, CopyType, StateNames
<1>7. /\ d.st = "Failing" /\ d.fr = 0 /\ d.pub = mem[a].pub /\ d.id = mem[a].id
      /\ d.sec = mem[a].sec /\ d.ps = mem[a].ps
  BY <1>4, <1>6 DEF MinerDeal
<1>8. /\ pc'[a] = "failsave" /\ mem'[a] = d /\ ReleaseReservedFunds(a) /\ Goto(a, "failsave", d)
      /\ UNCHANGED <<kind, store, chan, pubs, given, sealed, up>>
  BY <1>2, <1>6 DEF HandleError, Goto, IInv, TypeInv, TypeOK, seal, proc
<1>9. Sound(d)'
  BY <1>3, <1>7, <1>8 DEF Sound, RecordOK, ChainOK, Early, Waiting, Published, HandedOff
<1>10. StoreOK' /\ ChannelOK'
  BY <1>3, <1>8 DEF IInv, StoreOK, ChannelOK, Stored, Sound, RecordOK, ChainOK
<1>11. Place(a)'
  <2>1. faults \subseteq faults'
    BY <1>8, FaultKept DEF ReleaseReservedFunds
  <2> QED
    BY <1>3, <1>7, <1>8, <2>1 DEF Place, Stored
<1>12. Account("failsave", d)'
  <2>1. HeldBy(d)' /\ faults \subseteq faults'
    BY <1>2, <1>3, <1>4, <1>5, <1>7, <1>8, Released DEF Account
  <2>2. PendingBy("failsave", d)'
    BY <1>3, <1>8, <2>1 DEF Account, PendingBy, Clean, Rest
  <2>3. OnceBy(d)'
    BY <1>3, <1>7, <1>8, <2>1 DEF Account, OnceBy, Clean
  <2>4. FailedBy("failsave")'
    BY <1>3, <1>8, <2>1 DEF Account, FailedBy, Clean
  <2> QED
    BY <2>1, <2>2, <2>3, <2>4 DEF Account
<1>13. Situation(a)'
  BY <1>2, <1>8, <1>9, <1>11, <1>12, <1>1, NoDealAssumption DEF Situation, WorkPCs, Stored
<1> QED
  BY <1>2, <1>8, <1>10, <1>13, HandlerStep DEF Rest

\* A handler that returns because its save failed: nothing is claimed of the
\* accounts any more.
LEMMA SaveLost ==
  ASSUME IInv, TypeInv', NEW a \in Handlers, pc[a] \notin Rest, Return(a), Fault("save"),
         UNCHANGED <<kind, store, net, fund, seal, proc>>
  PROVE  IInv'
<1>1. up /\ Quiet((Handlers \ {a}) \cup Assigners) /\ Situation(a) /\ a \in Actors
  BY BusyHandler
<1>2. StoreOK' /\ ChannelOK'
  BY DEF IInv, StoreOK, ChannelOK, Sound, RecordOK, ChainOK, Stored, net, fund, seal
<1>3. "save" \in faults'
  BY DEF Fault
<1>4. Account("idle", store)'
  BY <1>3 DEF Account, HeldBy, PendingBy, OnceBy, FailedBy, Clean
<1>5. PICK l \in Rest : Goto(a, l, NoDeal)
  BY <1>1, ReturnMove
<1> QED
  BY <1>1, <1>2, <1>4, <1>5, HandlerEnd DEF proc

\* The save that ends HandleError.
LEMMA FailSaveSafe ==
  ASSUME IInv, TypeInv', NEW a \in Handlers, FailSave(a)
  PROVE  IInv'
<1>1. pc[a] = "failsave" /\ pc[a] \notin Rest /\ Return(a) /\ UNCHANGED <<kind, net, fund, seal, proc>>
  BY DEF FailSave, Rest
<1>2. Situation(a) /\ a \in Actors /\ pc[Tracker] \in Rest
  BY <1>1, BusyHandler
<1>3. /\ mem[a] # NoDeal /\ Sound(mem[a]) /\ mem[a].st = "Failing"
      /\ \A c \in Channels : chan[c] \notin Live
      /\ Account("failsave", mem[a])
  BY <1>1, <1>2 DEF Situation, Place, Events, WorkPCs
<1>4. mem[a] \in MinerDeal
  BY <1>2, <1>3 DEF IInv, TypeInv, TypeOK
<1>5. CASE store' = mem[a] /\ NoFault
  <2>1. /\ HeldBy(mem[a]) /\ PendingBy("idle", mem[a]) /\ OnceBy(mem[a])
        /\ Clean({"wait", "file", "save", "crashPublish"}) => \A p \in DOMAIN pubs : pubs[p] = "failed"
    BY <1>3 DEF Account, PendingBy, FailedBy, Rest
  <2> QED
    BY <1>1, <1>2, <1>3, <1>4, <1>5, <2>1, SavesAndReturns
<1>6. CASE Fault("save") /\ UNCHANGED store
  BY <1>1, <1>6, SaveLost
<1> QED
  BY <1>5, <1>6 DEF FailSave

-----------------------------------------------------------------------------
(* Streams.                                                                  *)

\* A handler that has nothing to do moves between idle and done.
LEMMA RestMove ==
  ASSUME IInv, TypeInv', NEW a \in Handlers, pc[a] \in Rest, NEW l \in Rest, Goto(a, l, NoDeal),
         UNCHANGED <<kind, store, net, fund, seal, proc, faults>>
  PROVE  IInv'
<1>1. /\ pc' = [pc EXCEPT ![a] = l] /\ mem' = [mem EXCEPT ![a] = NoDeal] /\ mem[a] = NoDeal
      /\ pc \in [Actors -> PCs] /\ mem \in [Actors -> MinerDeal \cup {NoDeal}] /\ a \in Actors
  BY Sets DEF Goto, IInv, TypeInv, TypeOK
<1>2. /\ mem' = mem /\ \A b \in Actors : pc[b] \in Rest <=> pc'[b] \in Rest
      /\ \A b \in Actors : pc[b] \notin Rest => pc'[b] = pc[b]
  BY <1>1
<1>3. UNCHANGED <<kind, store, chan, held, pubs, given, sealed, up, faults>>
  BY DEF net, fund, seal, proc
<1>4. \A S \in SUBSET Actors : Quiet(S)' <=> Quiet(S)
  BY <1>2 DEF Quiet
<1>5. \A m, r : Account(m, r)' <=> Account(m, r)
  BY <1>3 DEF Account, HeldBy, PendingBy, OnceBy, FailedBy, Clean, Stored
<1>6. StoreOK' /\ ChannelOK' /\ \A r : Sound(r)' <=> Sound(r)
  BY <1>3 DEF IInv, StoreOK, ChannelOK, Sound, RecordOK, ChainOK, Stored
<1>7. ASSUME NEW b \in Handlers, pc'[b] \notin Rest
      PROVE  Quiet((Handlers \ {b}) \cup Assigners)' /\ Situation(b)'
  <2>1. pc'[b] = pc[b] /\ mem'[b] = mem[b] /\ Quiet((Handlers \ {b}) \cup Assigners) /\ Situation(b)
    BY <1>2, <1>7, Sets DEF IInv
  <2>2. Place(b)'
    BY <1>3, <2>1 DEF Situation, Place, Stored
  <2>3. Situation(b)'
    BY <1>3, <1>5, <1>6, <2>1, <2>2 DEF Situation, Stored
  <2> QED
    BY <1>4, <2>1, <2>3, Sets
<1>8. \A b \in Assigners : pc'[b] \notin Rest =>
        /\ Quiet(Actors \ {b})' /\ pc'[b] \in {"picked", "assign"} /\ store' # NoDeal /\ Assignable(store)'
        /\ pc'[b] = "assign" => mem'[b] = store'
  BY <1>2, <1>3, <1>4, Sets DEF IInv, Assignable, IsTerminateState
<1>9. pc'[Tracker] \notin Rest =>
        /\ Quiet(Assigners)' /\ pc'[Tracker] = "track" /\ mem'[Tracker] = store'
        /\ Stored({"AwaitingPreCommit", "Sealing", "Active"})'
  BY <1>2, <1>3, <1>4, Sets DEF IInv, Stored
<1>10. Quiet(Handlers)' /\ store' # NoDeal => Account("idle", store)'
  BY <1>3, <1>4, <1>5, Sets DEF IInv
<1>11. (~up)' => Quiet(Actors)'
  BY <1>3, <1>4 DEF IInv
<1> QED
  BY <1>2, <1>6, <1>7, <1>8, <1>9, <1>10, <1>11 DEF IInv

\* Without a record nobody works on the deal but a stream that creates it.
LEMMA NoRecord ==
  ASSUME IInv, store = NoDeal
  PROVE  /\ \A b \in Handlers : pc[b] \notin Rest => b \in Streams /\ pc[b] = "create" /\ kind # "published"
         /\ Quiet(Assigners) /\ pc[Tracker] \in Rest
         /\ given = {} /\ held = 0 /\ pubs = IF kind = "published" THEN <<"ok">> ELSE << >>
         /\ \A c \in Channels : chan[c] \notin Live
<1>1. ASSUME NEW b \in Handlers, pc[b] \notin Rest PROVE b \in Streams /\ pc[b] = "create" /\ kind # "published"
  <2>1. Place(b)
    BY <1>1 DEF IInv, Situation
  <2> QED
    BY <2>1 DEF Place, Stored
<1>2. Quiet(Assigners) /\ pc[Tracker] \in Rest
  BY DEF IInv, Quiet, Stored
<1> QED
  BY <1>1, <1>2 DEF IInv, StoreOK, ChannelOK, Stored

\* A proposal is created only while nobody else works on the deal.
LEMMA HandleDealStreamSafe ==
  ASSUME Sequential, IInv, TypeInv', NEW s \in Streams, HandleDealStream(s)
  PROVE  IInv'
<1>1. s \in Handlers /\ s \in Actors /\ pc[s] = "idle" /\ up
      /\ UNCHANGED <<kind, store, net, fund, seal, proc, faults>>
  BY Sets DEF HandleDealStream
<1>2. CASE store # NoDeal
  BY <1>1, <1>2, RestMove DEF HandleDealStream, AlreadyTracking, Rest
<1>3. CASE store = NoDeal
  <2>1. /\ Goto(s, "create", NoDeal) /\ kind # "published" /\ \A t \in Streams : pc[t] # "create"
    BY <1>3 DEF HandleDealStream, AlreadyTracking, Sequential
  <2>2. Quiet((Handlers \ {s}) \cup Assigners) /\ pc[Tracker] \in Rest
    BY <1>3, <2>1, NoRecord DEF Quiet
  <2>3. StoreOK' /\ ChannelOK'
    BY <1>1 DEF IInv, StoreOK, ChannelOK, Sound, RecordOK, ChainOK, Stored, net, fund, seal
  <2>4. pc'[s] = "create"
    BY <1>1, <2>1 DEF Goto, IInv, TypeInv, TypeOK
  <2>5. Place(s)'
    BY <1>1, <1>3, <2>1, <2>4 DEF Place
  <2>6. s \notin Imports /\ store' = NoDeal
    BY <1>1, <1>3, Sets
  <2>7. Situation(s)'
    BY <2>4, <2>5, <2>6 DEF Situation, WorkPCs, Events
  <2> QED
    BY <1>1, <2>1, <2>2, <2>3, <2>7, HandlerStep DEF Rest, proc
<1> QED
  BY <1>2, <1>3

\* The first save of the deal.
LEMMA CreateDealSafe ==
  ASSUME IInv, TypeInv', NEW s \in Streams, CreateDeal(s)
  PROVE  IInv'
<1>1. s \in Handlers /\ s \in Actors /\ pc[s] = "create" /\ pc[s] \notin Rest
      /\ UNCHANGED <<kind, net, fund, seal, proc>>
  BY Sets DEF CreateDeal, Rest
<1>2. up /\ Quiet((Handlers \ {s}) \cup Assigners) /\ Situation(s)
  BY <1>1, BusyHandler
<1>3. store = NoDeal /\ kind # "published"
  BY <1>1, <1>2 DEF Situation, Place, Events
<1>4. PICK d : d = [st |-> "Unknown", ps |-> "", sec |-> None, id |-> FALSE, fr |-> 0, pub |-> None]
  OBVIOUS
<1>5. d \in MinerDeal /\ d # NoDeal
  <2>1. d \in MinerDeal
    BY <1>4, StateNames DEF MinerDeal
  <2> QED
    BY <2>1, NoDealAssumption
<1>6. d.st = "Unknown" /\ d.fr = 0 /\ d.pub = None /\ ~d.id
  BY <1>4
<1>7. CASE store' = d /\ Goto(s, "connect", d) /\ NoFault
  <2>1. pc'[s] = "connect" /\ mem'[s] = d /\ store' = d /\ UNCHANGED <<kind, chan, held, pubs, given, sealed, up, faults>>
    BY <1>1, <1>7 DEF Goto, IInv, TypeInv, TypeOK, NoFault, net, fund, seal, proc
  <2>2. given = {} /\ held = 0 /\ pubs = << >> /\ pc[Tracker] \in Rest /\ \A c \in Channels : chan[c] \notin Live
    BY <1>3, NoRecord
  <2>3. Sound(d)'
    BY <1>6, <2>1, <2>2 DEF Sound, RecordOK, ChainOK, Early, Published, HandedOff
  <2>4. StoreOK' /\ ChannelOK'
    BY <1>5, <2>1, <2>2, <2>3 DEF StoreOK, ChannelOK
  <2>5. Place(s)'
    BY <1>5, <1>6, <2>1 DEF Place, Stored
  <2>6. Account("idle", d)'
    <3>1. held' = d.fr /\ held' >= d.fr /\ Len(pubs') <= 1 /\ pubs' = << >>
      BY <1>6, <2>1, <2>2
    <3> QED
      BY <3>1 DEF Account, HeldBy, PendingBy, OnceBy, FailedBy
  <2>7. Situation(s)'
    BY <1>5, <1>6, <2>1, <2>3, <2>5, <2>6, Sets DEF Situation, WorkPCs, Stored
  <2> QED
    BY <1>1, <1>2, <1>7, <2>1, <2>2, <2>4, <2>7, HandlerStep DEF Rest
<1>8. CASE Fault("save") /\ Return(s) /\ UNCHANGED store
  BY <1>1, <1>8, SaveLost
<1> QED
  BY <1>4, <1>7, <1>8 DEF CreateDeal

\* The connection is registered, or the stream ends.
LEMMA AddStreamSafe ==
  ASSUME IInv, TypeInv', NEW s \in Streams, AddStream(s)
  PROVE  IInv'
<1>1. s \in Handlers /\ s \in Actors /\ pc[s] = "connect" /\ pc[s] \notin Rest
      /\ UNCHANGED <<kind, store, chan, held, pubs, given, sealed, up, faults>>
  BY Sets DEF AddStream, Rest, fund, seal, proc
<1>2. up /\ Quiet((Handlers \ {s}) \cup Assigners) /\ Situation(s) /\ pc[Tracker] \in Rest
  BY <1>1, BusyHandler
<1>3. /\ Stored({"Unknown"}) /\ mem[s] = store /\ store # NoDeal /\ Sound(store)
      /\ Account("idle", store)
  BY <1>1, <1>2 DEF Situation, Place, Events, Stored, WorkPCs
<1>4. CASE Goto(s, "accept", mem[s])
  <2>1. pc'[s] = "accept" /\ mem'[s] = store
    BY <1>1, <1>3, <1>4 DEF Goto, IInv, TypeInv, TypeOK
  <2>2. StoreOK' /\ ChannelOK' /\ Sound(store)'
    BY <1>1, <1>3 DEF IInv, StoreOK, ChannelOK, Sound, RecordOK, ChainOK, Stored
  <2>3. Place(s)' /\ Stored({"Unknown"})'
    BY <1>1, <1>3, <2>1 DEF Place, Stored
  <2>4. Account("idle", store)'
    BY <1>1, <1>3 DEF Account, HeldBy, PendingBy, OnceBy, FailedBy, Clean, Stored
  <2>5. Situation(s)'
    BY <1>1, <1>3, <2>1, <2>2, <2>3, <2>4, Sets DEF Situation, WorkPCs
  <2> QED
    BY <1>1, <1>2, <1>4, <2>2, <2>5, HandlerStep DEF Rest
<1>5. CASE Return(s)
  BY <1>1, <1>3, <1>5, Returns
<1> QED
  BY <1>4, <1>5 DEF AddStream

\* The answer is sent, or the deal fails before anything is reserved.
LEMMA AcceptDealSafe ==
  ASSUME IInv, TypeInv', NEW s \in Streams, AcceptDeal(s)
  PROVE  IInv'
<1>1. s \in Handlers /\ s \in Actors /\ pc[s] = "accept" /\ pc[s] \notin Rest
      /\ UNCHANGED <<kind, store, chan, held, pubs, given, sealed, up>> /\ faults \subseteq faults'
  BY Sets, FaultKept DEF AcceptDeal, Rest, fund, seal, proc
<1>2. up /\ Quiet((Handlers \ {s}) \cup Assigners) /\ Situation(s) /\ pc[Tracker] \in Rest
  BY <1>1, BusyHandler
<1>3. /\ Stored({"Unknown"}) /\ mem[s] = store /\ store # NoDeal /\ Sound(store)
      /\ Account("idle", store)
  BY <1>1, <1>2 DEF Situation, Place, Events, Stored, WorkPCs
<1>4. mem[s] \in MinerDeal /\ store.fr = 0 /\ store.pub = None /\ ~store.id /\ given = {}
  BY <1>1, <1>3
     DEF IInv, TypeInv, TypeOK, Stored, Sound, RecordOK, ChainOK, Early, Published, HandedOff
<1>5. ASSUME NEW st \in {"WaitingForData", "Rejecting"}, Goto(s, "acceptsave", [mem[s] EXCEPT !.st = st])
      PROVE  IInv'
  <2>1. PICK d \in MinerDeal : d = [mem[s] EXCEPT !.st = st]
    BY <1>4, CopyType, StateNames
  <2>2. d.st = st /\ d.fr = store.fr /\ d.pub = store.pub /\ d.id = store.id
    BY <1>3, <1>4, <2>1 DEF MinerDeal
  <2>3. pc'[s] = "acceptsave" /\ mem'[s] = d
    BY <1>1, <1>5, <2>1 DEF Goto, IInv, TypeInv, TypeOK
  <2>4. StoreOK' /\ ChannelOK'
    BY <1>1, <1>3 DEF IInv, StoreOK, ChannelOK, Sound, RecordOK, ChainOK, Stored
  <2>5. Place(s)' /\ Stored({"Unknown"})'
    BY <1>1, <1>3, <2>2, <2>3 DEF Place, Stored
  <2>6. Sound(d)'
    BY <1>1, <1>4, <2>2 DEF Sound, RecordOK, ChainOK, Early, Waiting, Published, HandedOff
  <2>7. Account("idle", store)'
    BY <1>1, <1>3 DEF Account, HeldBy, PendingBy, OnceBy, FailedBy, Clean, Stored
  <2>8. Situation(s)'
    BY <1>1, <2>3, <2>5, <2>6, <2>7, NoDealAssumption, Sets DEF Situation, WorkPCs
  <2> QED
    BY <1>1, <1>2, <1>5, <2>1, <2>4, <2>8, HandlerStep DEF Rest
<1>6. CASE Goto(s, "fail", mem[s])
  <2>1. ~Stored(HandedOff) /\ ~Stored(Waiting)
    BY <1>3 DEF Stored, HandedOff, Waiting
  <2>2. \A c \in Channels : chan[c] \notin Live
    BY <2>1, NoLive DEF IInv
  <2>3. Clean({"save", "crashPublish"}) => DOMAIN pubs = {}
    BY <1>3, <1>4 DEF Account, OnceBy
  <2>4. /\ Clean({"wait", "save", "crashPublish"})' => DOMAIN pubs = {}
        /\ Clean({"wait", "file", "save", "crashPublish"})' => DOMAIN pubs = {}
    BY <1>1, <2>3 DEF Clean
  <2> QED
    BY <1>1, <1>2, <1>3, <1>6, <2>1, <2>2, <2>4, CallFails
<1> QED
  BY <1>5, <1>6 DEF AcceptDeal

\* The save after the answer.
LEMMA AcceptSaveSafe ==
  ASSUME IInv, TypeInv', NEW s \in Streams, AcceptSave(s)
  PROVE  IInv'
<1>1. s \in Handlers /\ s \in Actors /\ pc[s] = "acceptsave" /\ pc[s] \notin Rest /\ Return(s)
      /\ UNCHANGED <<kind, net, fund, seal, proc>>
  BY Sets DEF AcceptSave, Rest
<1>2. Situation(s) /\ pc[Tracker] \in Rest
  BY <1>1, BusyHandler
<1>3. /\ Stored({"Unknown"}) /\ store # NoDeal /\ Sound(store) /\ mem[s].st \in {"WaitingForData", "Rejecting"}
      /\ mem[s] # NoDeal /\ Sound(mem[s]) /\ Account("idle", store)
  BY <1>1, <1>2 DEF Situation, Place, Events, Stored, WorkPCs, IInv, StoreOK
<1>4. mem[s] \in MinerDeal /\ mem[s].fr = store.fr /\ mem[s].pub = store.pub
  BY <1>1, <1>3 DEF IInv, TypeInv, TypeOK, Stored, Sound, RecordOK, Early, Waiting
<1>5. \A c \in Channels : chan[c] \notin Live
  BY <1>3, NoLive DEF IInv, Stored, Waiting
<1>6. CASE store' = mem[s] /\ NoFault
  <2>1. HeldBy(mem[s]) /\ PendingBy("idle", mem[s]) /\ OnceBy(mem[s]) /\ mem[s].st # "Failing"
    BY <1>3, <1>4 DEF Account, HeldBy, PendingBy, OnceBy, Stored
  <2> QED
    BY <1>1, <1>2, <1>3, <1>4, <1>5, <1>6, <2>1, SavesAndReturns
<1>7. CASE Fault("save") /\ UNCHANGED store
  BY <1>1, <1>7, SaveLost
<1> QED
  BY <1>6, <1>7 DEF AcceptSave

-----------------------------------------------------------------------------
(* Data transfers and imports.                                               *)

\* While the deal waits for its data nobody packs or tracks it, and no stream
\* works on it.
LEMMA WaitingAlone ==
  ASSUME IInv, Stored(Waiting)
  PROVE  /\ Quiet(Streams \cup Assigners) /\ pc[Tracker] \in Rest
         /\ Sound(store) /\ store # NoDeal /\ store \in MinerDeal /\ given = {}
         /\ store.fr = 0 /\ store.pub = None /\ ~store.id
<1>1. /\ Sound(store) /\ store # NoDeal /\ store \in MinerDeal /\ store.st \in Waiting
  BY DEF IInv, StoreOK, TypeInv, TypeOK, Stored
<1>2. store.fr = 0 /\ store.pub = None /\ ~store.id /\ given = {}
  BY <1>1 DEF Sound, RecordOK, ChainOK, Early, Waiting, Published, HandedOff
<1>3. ASSUME NEW s \in Streams PROVE pc[s] \in Rest
  BY <1>1, Sets DEF IInv, Situation, Place, Stored, Waiting
<1>4. Quiet(Assigners)
  BY <1>2 DEF IInv, Quiet, Assignable
<1>5. pc[Tracker] \in Rest
  BY <1>1 DEF IInv, Stored, Waiting
<1> QED
  BY <1>1, <1>2, <1>3, <1>4, <1>5 DEF Quiet

\* An event that happens finds the deal waiting for its data.
LEMMA EventWaiting ==
  ASSUME ChannelOK, NEW c \in Channels, NEW e \in Events, AfterEvent(c, e) # ""
  PROVE  /\ kind = "online" /\ Stored(Waiting)
         /\ e \in {"Complete", "Cancel"} => AfterEvent(c, e) \in {"completed", "cancelled"}
BY DEF ChannelOK, AfterEvent, Events, Stored, Waiting, Live

\* An event is handled only while nobody else works on the deal.
LEMMA SubscriberSafe ==
  ASSUME Sequential, IInv, TypeInv', NEW c \in Channels, NEW e \in Events,
         ProviderDataTransferSubscriber(c, e)
  PROVE  IInv'
<1>1. /\ c \in Handlers /\ c \in Actors /\ pc[c] = "idle" /\ up /\ AfterEvent(c, e) # ""
      /\ Goto(c, e, store) /\ chan' = [chan EXCEPT ![c] = AfterEvent(c, e)]
      /\ UNCHANGED <<kind, store, held, pubs, given, sealed, up, faults>>
  BY Sets DEF ProviderDataTransferSubscriber, fund, seal, proc
<1>2. /\ kind = "online" /\ Stored(Waiting)
      /\ e \in {"Complete", "Cancel"} => AfterEvent(c, e) \in {"completed", "cancelled"}
  BY <1>1, EventWaiting DEF IInv
<1>3. /\ Quiet(Streams \cup Assigners) /\ pc[Tracker] \in Rest /\ Sound(store) /\ store # NoDeal
  BY <1>2, WaitingAlone
<1>4. Quiet(Handlers)
  <2>1. Quiet(Channels \cup {Boot})
    BY DEF ProviderDataTransferSubscriber, Sequential, Busy, Quiet
  <2>2. Quiet(Imports)
    BY <1>2, Sets DEF IInv, Situation, Quiet
  <2> QED
    BY <1>3, <2>1, <2>2 DEF Quiet, Handlers
<1>5. Quiet((Handlers \ {c}) \cup Assigners)
  BY <1>3, <1>4 DEF Quiet
<1>6. pc'[c] = e /\ mem'[c] = store
  BY <1>1 DEF Goto, IInv, TypeInv, TypeOK
<1>7. StoreOK' /\ ChannelOK' /\ Sound(store)'
  BY <1>1, <1>2, <1>3 DEF IInv, StoreOK, ChannelOK, Sound, RecordOK, ChainOK, Stored
<1>8. e \in {"Complete", "Cancel"} => \A b \in Channels : chan'[b] \notin Live
  <2>1. chan'[c] = AfterEvent(c, e)
    BY <1>1 DEF IInv, TypeInv, TypeOK
  <2>2. \A b \in Channels : b = c
    BY DEF Sequential
  <2> QED
    BY <1>2, <2>1, <2>2 DEF Live
<1>9. Place(c)'
  BY <1>1, <1>2, <1>6, <1>8 DEF Place, Stored
<1>10. Account("idle", store)'
  BY <1>1, <1>3, <1>4 DEF IInv, Account, HeldBy, PendingBy, OnceBy, FailedBy, Clean, Stored
<1>11. e \notin WorkPCs
  BY DEF WorkPCs, Events
<1>12. Situation(c)'
  BY <1>1, <1>3, <1>6, <1>7, <1>9, <1>10, <1>11, Sets DEF Situation
<1> QED
  BY <1>1, <1>3, <1>5, <1>7, <1>12, HandlerStep DEF Rest, Events

\* A handler of an event has the stored record.
LEMMA AtEvent ==
  ASSUME IInv, NEW c \in Channels, pc[c] \in Events
  PROVE  /\ c \in Handlers /\ c \in Actors /\ c \notin Streams /\ pc[c] \notin Rest /\ pc[Tracker] \in Rest
         /\ Stored(Waiting) /\ mem[c] = store /\ Account("idle", store)
         /\ pc[c] \in {"Complete", "Cancel"} => \A b \in Channels : chan[b] \notin Live
<1>1. c \in Handlers /\ c \in Actors /\ c \notin Streams /\ pc[c] \notin Rest /\ pc[c] \notin WorkPCs
  BY Sets DEF Events, Rest, WorkPCs
<1>2. Situation(c)
  BY <1>1, BusyHandler
<1>3. /\ Stored(Waiting) /\ mem[c] = store
      /\ pc[c] \in {"Complete", "Cancel"} => \A b \in Channels : chan[b] \notin Live
  BY <1>2, <1>1 DEF Situation, Place, Events, WorkPCs
<1> QED
  BY <1>1, <1>2, <1>3, WaitingAlone DEF Situation

\* The events that save the deal as awaiting a restart.
LEMMA HandleTransferEventSafe ==
  ASSUME IInv, TypeInv', NEW c \in Channels, HandleTransferEvent(c)
  PROVE  IInv'
<1>1. pc[c] \in Events /\ Return(c) /\ UNCHANGED <<kind, net, fund, seal, proc>>
  BY DEF HandleTransferEvent, Events
<1>2. /\ c \in Handlers /\ c \in Actors /\ c \notin Streams /\ pc[c] \notin Rest /\ pc[Tracker] \in Rest
      /\ Stored(Waiting) /\ mem[c] = store /\ Account("idle", store)
  BY <1>1, AtEvent
<1>3. /\ Sound(store) /\ store # NoDeal /\ store \in MinerDeal /\ given = {}
      /\ store.fr = 0 /\ store.pub = None /\ ~store.id
  BY <1>2, WaitingAlone
<1>4. PICK d \in MinerDeal : d = [mem[c] EXCEPT !.st = "TransferAwaitRestart"]
  BY <1>2, <1>3, CopyType, StateNames
<1>5. d.st = "TransferAwaitRestart" /\ d.fr = store.fr /\ d.pub = store.pub /\ d.id = store.id
  BY <1>2, <1>3, <1>4 DEF MinerDeal
<1>6. Sound(d)
  BY <1>3, <1>5 DEF Sound, RecordOK, ChainOK, Early, Waiting, Published, HandedOff
<1>7. HeldBy(d) /\ PendingBy("idle", d) /\ OnceBy(d)
  BY <1>2, <1>5 DEF Account, HeldBy, PendingBy, OnceBy, Stored, Waiting
<1>8. \A b \in Channels : chan[b] \in Live => kind = "online" /\ d.st \in Waiting
  BY <1>5 DEF IInv, ChannelOK, Waiting
<1>9. CASE store' = d /\ NoFault
  BY <1>1, <1>2, <1>5, <1>6, <1>7, <1>8, <1>9, SavesAndReturns
<1>10. CASE Fault("save") /\ UNCHANGED store
  BY <1>1, <1>2, <1>10, SaveLost
<1> QED
  BY <1>4, <1>9, <1>10 DEF HandleTransferEvent

\* The completed transfer, after which no channel is live.
LEMMA HandleCompleteForSafe ==
  ASSUME IInv, TypeInv', NEW c \in Channels, HandleCompleteFor(c)
  PROVE  IInv'
<1>1. pc[c] = "Complete" /\ pc[c] \in Events /\ UNCHANGED <<kind, net, fund, seal, proc>>
  BY DEF HandleCompleteFor, Events
<1>2. /\ c \in Handlers /\ c \in Actors /\ c \notin Streams /\ pc[c] \notin Rest /\ pc[Tracker] \in Rest
      /\ Stored(Waiting) /\ mem[c] = store /\ Account("idle", store)
      /\ \A b \in Channels : chan[b] \notin Live
  BY <1>1, AtEvent
<1>3. /\ Sound(store) /\ store # NoDeal /\ store \in MinerDeal /\ given = {}
      /\ store.fr = 0 /\ store.pub = None /\ ~store.id
  BY <1>2, WaitingAlone
<1>4. PICK d \in MinerDeal : d = [mem[c] EXCEPT !.st = "VerifyData"]
  BY <1>2, <1>3, CopyType, StateNames
<1>5. d.st = "VerifyData" /\ d.fr = store.fr /\ d.pub = store.pub /\ d.id = store.id
  BY <1>2, <1>3, <1>4 DEF MinerDeal
<1>6. Sound(d)
  BY <1>3, <1>5 DEF Sound, RecordOK, ChainOK, Early, Published, HandedOff
<1>7. Account("off", d)
  BY <1>2, <1>5 DEF Account, HeldBy, PendingBy, OnceBy, FailedBy, Stored, Waiting
<1>8. CASE store' = d /\ Goto(c, "off", d) /\ NoFault
  BY <1>1, <1>2, <1>5, <1>6, <1>7, <1>8, SaveWorks
<1>9. CASE Fault("save") /\ UNCHANGED store /\ Return(c)
  BY <1>1, <1>2, <1>9, SaveLost
<1> QED
  BY <1>4, <1>8, <1>9 DEF HandleCompleteFor

\* The cancelled transfer.
LEMMA HandleCancelForDealSafe ==
  ASSUME IInv, TypeInv', NEW c \in Channels, HandleCancelForDeal(c)
  PROVE  IInv'
<1>1. /\ pc[c] = "Cancel" /\ pc[c] \in Events /\ Goto(c, "fail", mem[c])
      /\ UNCHANGED <<kind, store, chan, held, pubs, given, sealed, up, faults>>
  BY DEF HandleCancelForDeal, Events, net, fund, seal, proc
<1>2. /\ c \in Handlers /\ c \in Actors /\ pc[c] \notin Rest /\ pc[Tracker] \in Rest
      /\ Stored(Waiting) /\ mem[c] = store /\ Account("idle", store)
      /\ \A b \in Channels : chan[b] \notin Live
  BY <1>1, AtEvent
<1>3. store # NoDeal /\ store.pub = None /\ ~Stored(HandedOff)
  BY <1>2, WaitingAlone DEF Stored, Waiting, HandedOff
<1>4. Clean({"save", "crashPublish"}) => DOMAIN pubs = {}
  BY <1>2, <1>3 DEF Account, OnceBy
<1>5. /\ Clean({"wait", "save", "crashPublish"})' => DOMAIN pubs = {}
      /\ Clean({"wait", "file", "save", "crashPublish"})' => DOMAIN pubs = {}
  BY <1>1, <1>4 DEF Clean
<1> QED
  BY <1>1, <1>2, <1>3, <1>5, CallFails

\* An import starts only for an offline deal that waits for its data.
LEMMA ImportDataForDealSafe ==
  ASSUME Sequential, IInv, TypeInv', NEW i \in Imports, ImportDataForDeal(i)
  PROVE  IInv'
<1>1. /\ i \in Handlers /\ i \in Actors /\ i \notin Streams /\ pc[i] = "idle" /\ pc[i] \in Rest /\ up
      /\ store # NoDeal /\ kind = "offline" /\ store.st = "WaitingForData" /\ Quiet(Handlers)
      /\ UNCHANGED <<kind, store, net, fund, seal, proc, faults>>
  BY Sets DEF ImportDataForDeal, Sequential, Rest, Busy, Quiet
<1>2. /\ Quiet(Assigners) /\ pc[Tracker] \in Rest /\ Sound(store)
  BY <1>1, WaitingAlone DEF Stored, Waiting, Quiet
<1>3. CASE Goto(i, "copy", store)
  <2>1. pc'[i] = "copy" /\ mem'[i] = store
    BY <1>1, <1>3 DEF Goto, IInv, TypeInv, TypeOK
  <2>2. UNCHANGED <<kind, store, chan, held, pubs, given, sealed, up, faults>>
    BY <1>1 DEF net, fund, seal, proc
  <2>3. StoreOK' /\ ChannelOK' /\ Sound(store)'
    BY <1>1, <1>2, <2>2 DEF IInv, StoreOK, ChannelOK, Sound, RecordOK, ChainOK, Stored
  <2>4. Place(i)'
    BY <1>1, <2>1, <2>2 DEF Place, Stored
  <2>5. Account("idle", store)'
    BY <1>1, <2>2 DEF IInv, Account, HeldBy, PendingBy, OnceBy, FailedBy, Clean, Stored
  <2>6. Situation(i)'
    BY <1>1, <2>1, <2>3, <2>4, <2>5 DEF Situation, WorkPCs
  <2>7. Quiet((Handlers \ {i}) \cup Assigners)
    BY <1>1, <1>2 DEF Quiet
  <2> QED
    BY <1>1, <1>2, <1>3, <2>2, <2>3, <2>6, <2>7, HandlerStep DEF Rest
<1>4. CASE Return(i)
  <2>1. PICK l \in Rest : Goto(i, l, NoDeal)
    BY <1>1, <1>4, ReturnMove
  <2> QED
    BY <1>1, <2>1, RestMove
<1> QED
  BY <1>3, <1>4 DEF ImportDataForDeal

\* The save after the copy of the data.
LEMMA ImportSaveSafe ==
  ASSUME IInv, TypeInv', NEW i \in Imports, ImportSave(i)
  PROVE  IInv'
<1>1. /\ i \in Handlers /\ i \in Actors /\ i \notin Streams /\ pc[i] = "copy" /\ pc[i] \notin Rest
      /\ UNCHANGED <<kind, net, fund, seal, proc>>
  BY Sets DEF ImportSave, Rest
<1>2. Situation(i)
  BY <1>1, BusyHandler
<1>3. Stored({"WaitingForData"}) /\ mem[i] = store /\ kind = "offline" /\ Account("idle", store)
  BY <1>1, <1>2 DEF Situation, Place, Events, WorkPCs, Stored
<1>4. /\ Sound(store) /\ store # NoDeal /\ store \in MinerDeal /\ given = {} /\ pc[Tracker] \in Rest
      /\ store.fr = 0 /\ store.pub = None /\ ~store.id
  BY <1>3, WaitingAlone DEF Stored, Waiting
<1>5. \A b \in Channels : chan[b] \notin Live
  BY <1>3 DEF IInv, ChannelOK
<1>6. PICK d \in MinerDeal : d = [mem[i] EXCEPT !.st = "ReserveProviderFunds", !.ps = "Undefine"]
  BY <1>3, <1>4, CopyType, StateNames
<1>7. d.st = "ReserveProviderFunds" /\ d.fr = store.fr /\ d.pub = store.pub /\ d.id = store.id
  BY <1>3, <1>4, <1>6 DEF MinerDeal
<1>8. Sound(d)
  BY <1>4, <1>7 DEF Sound, RecordOK, ChainOK, Early, Published, HandedOff
<1>9. Account("off", d)
  BY <1>3, <1>7 DEF Account, HeldBy, PendingBy, OnceBy, FailedBy, Stored
<1>10. CASE store' = d /\ Goto(i, "off", d) /\ NoFault
  BY <1>1, <1>4, <1>5, <1>7, <1>8, <1>9, <1>10, SaveWorks
<1>11. CASE Fault("data") /\ Return(i) /\ UNCHANGED store
  BY <1>1, <1>3, <1>11, Returns, FaultKept DEF net, fund, seal, proc
<1>12. CASE Fault("save") /\ Return(i) /\ UNCHANGED store
  BY <1>1, <1>12, SaveLost
<1> QED
  BY <1>6, <1>10, <1>11, <1>12 DEF ImportSave

\* The import of a deal that is on chain.
LEMMA ImportPublishedDealSafe ==
  ASSUME IInv, TypeInv', NEW i \in Imports, ImportPublishedDeal(i)
  PROVE  IInv'
<1>1. /\ i \in Handlers /\ i \in Actors /\ pc[i] = "idle" /\ up /\ store = NoDeal /\ kind = "published"
      /\ Return(i) /\ UNCHANGED <<kind, chan, held, pubs, given, sealed, up, faults>>
  BY Sets DEF ImportPublishedDeal, net, fund, seal, proc
<1>2. PICK d : d = [st |-> "AwaitingPreCommit", ps |-> "Undefine", sec |-> None, id |-> TRUE,
                    fr |-> 0, pub |-> 1]
  OBVIOUS
<1>3. /\ d.st = "AwaitingPreCommit" /\ d.fr = 0 /\ d.pub = 1 /\ d.id /\ store' = d
  BY <1>2 DEF ImportPublishedDeal
<1>4. d \in MinerDeal /\ d # NoDeal /\ d.pub # None
  <2>1. 1 \in (1 .. MaxPubs) \cup {None} /\ 1 # None
    BY StorageDealAssumption
  <2>2. d \in MinerDeal
    BY <1>2, <2>1, StateNames DEF MinerDeal
  <2> QED
    BY <1>3, <2>1, <2>2, NoDealAssumption
<1>5. /\ \A b \in Handlers : pc[b] \in Rest
      /\ Quiet(Assigners) /\ pc[Tracker] \in Rest /\ given = {} /\ held = 0 /\ pubs = <<"ok">>
      /\ \A c \in Channels : chan[c] \notin Live
  BY <1>1, NoRecord
<1>6. Len(pubs) = 1 /\ DOMAIN pubs = {1} /\ pubs[1] = "ok"
  BY <1>5
<1>7. Sound(d)'
  BY <1>1, <1>3, <1>4, <1>5, <1>6 DEF Sound, RecordOK, ChainOK, Early, Waiting, Published, HandedOff
<1>8. StoreOK' /\ ChannelOK'
  BY <1>1, <1>3, <1>4, <1>5, <1>7 DEF StoreOK, ChannelOK
<1>9. Account("idle", store)'
  <2>1. held' = d.fr /\ held' >= d.fr /\ Len(pubs') <= 1
    BY <1>1, <1>3, <1>5, <1>6
  <2>2. \A p \in DOMAIN pubs' : pubs'[p] # "pending"
    BY <1>1, <1>6
  <2>3. ~Stored({"Failing"})' /\ store'.fr = d.fr /\ store'.pub # None
    BY <1>3, <1>4 DEF Stored
  <2> QED
    BY <2>1, <2>2, <2>3 DEF Account, HeldBy, PendingBy, OnceBy, FailedBy
<1>10. PICK l \in Rest : Goto(i, l, NoDeal)
  BY <1>1, ReturnMove
<1>11. Quiet((Handlers \ {i}) \cup Assigners)
  BY <1>5 DEF Quiet
<1> QED
  BY <1>1, <1>5, <1>8, <1>9, <1>10, <1>11, HandlerEnd

-----------------------------------------------------------------------------
(* Crash and restart.                                                        *)

\* What a crash leaves: no handler, and the accounts agree with the stored
\* record but for what the crash is blamed for.
LEMMA CrashAccount ==
  ASSUME IInv, Crash, store # NoDeal
  PROVE  Account("idle", store)'
<1>1. UNCHANGED <<kind, store, chan, held, pubs, given, sealed>> /\ faults \subseteq faults'
  BY DEF Crash, fund, seal
<1>2. \A m, r : Account(m, r) => Account(m, r)'
  BY <1>1 DEF Account, HeldBy, PendingBy, OnceBy, FailedBy, Clean, Stored
<1>3. CASE Quiet(Handlers)
  BY <1>1, <1>2, <1>3 DEF IInv
<1>4. ASSUME NEW a \in Handlers, pc[a] \notin Rest PROVE Account("idle", store)'
  <2>1. Situation(a) /\ a \in Actors /\ Sound(store)
    BY <1>4, BusyHandler DEF IInv, StoreOK
  <2>2. CASE pc[a] \notin WorkPCs
    BY <1>1, <1>2, <2>1, <2>2 DEF Situation
  <2>3. CASE pc[a] \in WorkPCs
    <3>1. Place(a) /\ mem[a] # NoDeal /\ Sound(mem[a]) /\ Account(pc[a], mem[a])
      BY <2>1, <2>3 DEF Situation
    <3>2. mem[a] \in MinerDeal /\ store \in MinerDeal /\ held \in Int
      BY <2>1, <3>1 DEF IInv, TypeInv, TypeOK
    <3>3. CASE pc[a] = "off"
      <4>1. mem[a] = store \/ (mem[a].st \in HandedOff /\ Stored(HandedOff))
        BY <3>1, <3>3 DEF Place, Events
      <4>2. CASE mem[a] = store
        BY <1>1, <1>2, <3>1, <3>3, <4>2, AccountMoves
      <4>3. CASE mem[a].st \in HandedOff /\ Stored(HandedOff)
        <5>1. mem[a].fr = store.fr /\ mem[a].pub # None /\ store.pub # None /\ mem[a].st # "Publishing"
          BY <2>1, <3>1, <4>3 DEF Sound, RecordOK, Published, Stored, HandedOff
        <5>2. Account("idle", store)
          BY <3>1, <3>3, <5>1 DEF Account, HeldBy, PendingBy, OnceBy, FailedBy
        <5> QED
          BY <1>1, <1>2, <5>2
      <4> QED
        BY <4>1, <4>2, <4>3
    <3>4. CASE pc[a] = "reserved"
      <4>1. "crashReserve" \in faults'
        BY <3>4 DEF Crash
      <4>2. Stored({"ReserveProviderFunds"}) /\ mem[a].st \in {"ProviderFunding", "Publish"}
        BY <3>1, <3>4 DEF Place, Events
      <4>3. store.fr = 0 /\ store.pub = None /\ mem[a].fr = 1 /\ mem[a].pub = None
        BY <2>1, <3>1, <4>2 DEF Sound, RecordOK, Stored
      <4>4. HeldBy(store)'
        <5>1. ~Clean({"save", "release", "crashReserve", "crashRelease"})'
          BY <4>1 DEF Clean
        <5>2. Clean({"save", "crashRelease"})' => held >= 1
          BY <1>1, <3>1, <4>3 DEF Account, HeldBy, Clean
        <5>3. held >= 1 => held >= 0
          BY <3>2
        <5> QED
          BY <1>1, <4>3, <5>1, <5>2, <5>3 DEF HeldBy
      <4>5. PendingBy("idle", store)' /\ OnceBy(store)' /\ FailedBy("idle")'
        BY <1>1, <3>1, <3>4, <4>2, <4>3 DEF Account, PendingBy, OnceBy, FailedBy, Clean, Stored
      <4> QED
        BY <4>4, <4>5 DEF Account
    <3>5. CASE pc[a] = "published"
      <4>1. "crashPublish" \in faults'
        BY <3>5 DEF Crash
      <4>2. Stored({"Publish"}) /\ mem[a].st = "Publishing"
        BY <3>1, <3>5 DEF Place, Events
      <4>3. store.fr = 1 /\ mem[a].fr = 1
        BY <2>1, <3>1, <4>2 DEF Sound, RecordOK, Stored
      <4>4. HeldBy(store)'
        BY <1>1, <3>1, <4>3 DEF Account, HeldBy, Clean
      <4>5. PendingBy("idle", store)' /\ OnceBy(store)' /\ FailedBy("idle")'
        BY <4>1 DEF PendingBy, OnceBy, FailedBy, Clean
      <4> QED
        BY <4>4, <4>5 DEF Account
    <3>6. CASE pc[a] = "released"
      <4>1. Stored({"Publishing"}) /\ mem[a].st = "Staged"
        BY <3>1, <3>6 DEF Place, Events
      <4>2. store.fr = 1 /\ store.pub # None
        BY <2>1, <4>1 DEF Sound, RecordOK, Stored
      <4>3. store.fr > 0
        BY <4>2
      <4>4. "crashRelease" \in faults'
        BY <3>6, <4>3 DEF Crash
      <4>5. HeldBy(store)'
        BY <4>4 DEF HeldBy, Clean
      <4>6. PendingBy("idle", store)' /\ OnceBy(store)' /\ FailedBy("idle")'
        BY <1>1, <3>1, <3>6, <4>1, <4>2 DEF Account, PendingBy, OnceBy, FailedBy, Clean, Stored
      <4> QED
        BY <4>5, <4>6 DEF Account
    <3>7. CASE pc[a] = "handoff"
      <4>1. mem[a] = store
        BY <3>1, <3>7 DEF Place, Events
      <4> QED
        BY <1>1, <1>2, <3>1, <3>7, <4>1, AccountMoves
    <3>8. CASE pc[a] = "fail"
      <4>1. CASE "save" \in faults
        BY <1>1, <4>1 DEF Account, HeldBy, PendingBy, OnceBy, FailedBy, Clean
      <4>2. CASE "save" \notin faults
        <5>1. mem[a] = store
          BY <3>1, <3>8, <4>2 DEF Place, Events
        <5>2. Account("idle", store)
          BY <3>1, <3>8, <5>1 DEF Account, PendingBy, FailedBy, Rest
        <5> QED
          BY <1>1, <1>2, <5>2
      <4> QED
        BY <4>1, <4>2
    <3>9. CASE pc[a] = "failsave"
      <4>1. mem[a].st = "Failing" /\ ("save" \notin faults => mem[a].pub = store.pub)
        BY <3>1, <3>9 DEF Place, Events
      <4>2. mem[a].fr = 0
        BY <3>1, <4>1 DEF Sound, RecordOK
      <4>3. HeldBy(store)'
        <5>1. CASE store.fr > 0
          <6>1. "crashRelease" \in faults'
            BY <3>9, <5>1 DEF Crash
          <6> QED
            BY <6>1 DEF HeldBy, Clean
        <5>2. CASE ~(store.fr > 0)
          <6>1. PICK n \in Nat : n = store.fr
            BY <3>2 DEF MinerDeal
          <6>2. store.fr = 0
            BY <5>2, <6>1
          <6> QED
            BY <1>1, <3>1, <4>2, <6>2 DEF Account, HeldBy, Clean
        <5> QED
          BY <5>1, <5>2
      <4>4. PendingBy("idle", store)'
        BY <1>1, <3>1, <3>9 DEF Account, PendingBy, Clean, Rest
      <4>5. OnceBy(store)'
        BY <1>1, <3>1, <4>1 DEF Account, OnceBy, Clean
      <4>6. FailedBy("idle")'
        BY <1>1, <3>1, <3>9 DEF Account, FailedBy, Clean
      <4> QED
        BY <4>3, <4>4, <4>5, <4>6 DEF Account
    <3> QED
      BY <2>3, <3>3, <3>4, <3>5, <3>6, <3>7, <3>8, <3>9 DEF WorkPCs
  <2> QED
    BY <2>2, <2>3
<1> QED
  BY <1>3, <1>4 DEF Quiet

\* A crash leaves nobody at work.
LEMMA CrashSafe ==
  ASSUME IInv, TypeInv', Crash
  PROVE  IInv'
<1>1. UNCHANGED <<kind, store, chan, held, pubs, given, sealed>>
  BY DEF Crash, fund, seal
<1>2. \A a \in Actors : pc'[a] \in Rest /\ mem'[a] = NoDeal
  BY DEF Crash, Rest
<1>3. StoreOK' /\ ChannelOK'
  BY <1>1 DEF IInv, StoreOK, ChannelOK, Sound, RecordOK, ChainOK, Stored
<1>4. store' # NoDeal => Account("idle", store)'
  BY <1>1, CrashAccount
<1> QED
  BY <1>2, <1>3, <1>4, Sets DEF IInv, Quiet

\* The restart hands the stored record to HandleOff.
LEMMA StartSafe ==
  ASSUME IInv, TypeInv', Start
  PROVE  IInv'
<1>1. /\ ~up /\ up' /\ UNCHANGED <<kind, store, chan, held, pubs, given, sealed, faults>>
  BY DEF Start, net, fund, seal
<1>2. Quiet(Actors) /\ Quiet(Handlers) /\ Quiet((Handlers \ {Boot}) \cup Assigners) /\ pc[Tracker] \in Rest
      /\ Boot \in Actors /\ Boot \notin Streams /\ Boot \notin Imports /\ Boot \in Handlers
  BY <1>1, Sets DEF IInv, Quiet
<1>3. StoreOK' /\ ChannelOK' /\ (store # NoDeal => Sound(store)')
  BY <1>1 DEF IInv, StoreOK, ChannelOK, Sound, RecordOK, ChainOK, Stored
<1>4. store # NoDeal => Account("idle", store)' /\ Account("off", store)'
  <2>1. store # NoDeal => Account("idle", store) /\ Account("off", store)
    BY <1>2, AccountMoves DEF IInv
  <2> QED
    BY <1>1, <2>1 DEF Account, HeldBy, PendingBy, OnceBy, FailedBy, Clean, Stored
<1>5. CASE store # NoDeal /\ Goto(Boot, "off", store)
  <2>1. pc'[Boot] = "off" /\ mem'[Boot] = store
    BY <1>2, <1>5 DEF Goto, IInv, TypeInv, TypeOK
  <2>2. Place(Boot)'
    BY <1>1, <1>2, <1>5, <2>1 DEF Place
  <2>3. Situation(Boot)'
    BY <1>1, <1>2, <1>3, <1>4, <1>5, <2>1, <2>2 DEF Situation, WorkPCs
  <2> QED
    BY <1>1, <1>2, <1>3, <1>5, <2>3, HandlerStep DEF Rest
<1>6. CASE UNCHANGED <<pc, mem>>
  <2>1. \A a \in Actors : pc'[a] \in Rest /\ mem'[a] = NoDeal
    BY <1>2, <1>6 DEF IInv, Quiet
  <2> QED
    BY <1>1, <1>3, <1>4, <2>1, Sets DEF IInv, Quiet
<1> QED
  BY <1>5, <1>6 DEF Start

-----------------------------------------------------------------------------
(* The assigner, the tracker and the chain.                                  *)

\* A step of the assigner, which has the deal to itself.
LEMMA AssignerStep ==
  ASSUME IInv, TypeInv', NEW a \in Assigners, NEW l, NEW d, Goto(a, l, d), Quiet(Actors \ {a}), up',
         StoreOK', ChannelOK', Account("idle", store)', store' # NoDeal,
         \/ l \in Rest /\ d = NoDeal
         \/ l \in {"picked", "assign"} /\ Assignable(store)' /\ (l = "assign" => d = store')
  PROVE  IInv'
<1>1. /\ pc' = [pc EXCEPT ![a] = l] /\ mem' = [mem EXCEPT ![a] = d]
      /\ pc \in [Actors -> PCs] /\ mem \in [Actors -> MinerDeal \cup {NoDeal}] /\ a \in Actors
      /\ a \notin Handlers \cup {Tracker}
  BY Sets DEF Goto, IInv, TypeInv, TypeOK
<1>2. /\ pc'[a] = l /\ mem'[a] = d
      /\ \A b \in Actors : b # a => pc'[b] = pc[b] /\ mem'[b] = mem[b] /\ pc'[b] \in Rest
  BY <1>1 DEF Quiet
<1>3. \A b \in Actors : pc'[b] \in Rest => mem'[b] = NoDeal
  BY <1>2 DEF IInv, Rest
<1>4. Quiet(Actors \ {a})' /\ Quiet(Handlers)' /\ pc'[Tracker] \in Rest
  BY <1>1, <1>2, Sets DEF Quiet
<1>5. \A b \in Assigners : pc'[b] \notin Rest =>
       /\ Quiet(Actors \ {b})' /\ pc'[b] \in {"picked", "assign"} /\ Assignable(store)'
       /\ pc'[b] = "assign" => mem'[b] = store'
  BY <1>2, <1>4, Sets
<1> QED
  BY <1>3, <1>4, <1>5, Sets DEF IInv, Quiet

\* What an assigner at work knows.
LEMMA BusyAssigner ==
  ASSUME IInv, NEW a \in Assigners, pc[a] \notin Rest
  PROVE  /\ up /\ Quiet(Actors \ {a}) /\ store # NoDeal /\ Assignable(store) /\ Account("idle", store)
         /\ Sound(store) /\ store \in MinerDeal /\ given = {} /\ a \in Actors
<1>1. /\ up /\ Quiet(Actors \ {a}) /\ store # NoDeal /\ Assignable(store) /\ a \in Actors
  BY Sets DEF IInv, Quiet
<1>2. Quiet(Handlers)
  BY <1>1, Sets DEF Quiet
<1>3. Account("idle", store) /\ Sound(store) /\ store \in MinerDeal
  BY <1>1, <1>2 DEF IInv, StoreOK, TypeInv, TypeOK
<1> QED
  BY <1>1, <1>3 DEF Sound, ChainOK, Assignable

\* The assigner picks a deal while nobody works on it.
LEMMA PickDealSafe ==
  ASSUME Sequential, IInv, TypeInv', NEW a \in Assigners, PickDeal(a)
  PROVE  IInv'
<1>1. /\ up /\ store # NoDeal /\ Assignable(store) /\ Quiet(Actors) /\ Goto(a, "picked", NoDeal)
      /\ UNCHANGED <<kind, store, chan, held, pubs, given, sealed, up, faults>>
  BY DEF PickDeal, Sequential, Busy, Quiet, net, fund, seal, proc
<1>2. Quiet(Handlers) /\ Quiet(Actors \ {a})
  BY <1>1, Sets DEF Quiet
<1>3. StoreOK' /\ ChannelOK' /\ Assignable(store)'
  BY <1>1
     DEF IInv, StoreOK, ChannelOK, Sound, RecordOK, ChainOK, Stored, Assignable, IsTerminateState
<1>4. Account("idle", store)'
  BY <1>1, <1>2 DEF IInv, Account, HeldBy, PendingBy, OnceBy, FailedBy, Clean, Stored
<1> QED
  BY <1>1, <1>2, <1>3, <1>4, AssignerStep

\* The assigner reads the deal again.
LEMMA ReadPickedSafe ==
  ASSUME IInv, TypeInv', NEW a \in Assigners, ReadPicked(a)
  PROVE  IInv'
<1>1. /\ pc[a] \notin Rest /\ Goto(a, "assign", store)
      /\ UNCHANGED <<kind, store, chan, held, pubs, given, sealed, up, faults>>
  BY DEF ReadPicked, Rest, net, fund, seal, proc
<1>2. /\ up /\ Quiet(Actors \ {a}) /\ store # NoDeal /\ Assignable(store) /\ Account("idle", store)
  BY <1>1, BusyAssigner
<1>3. StoreOK' /\ ChannelOK' /\ Assignable(store)'
  BY <1>1, <1>2
     DEF IInv, StoreOK, ChannelOK, Sound, RecordOK, ChainOK, Stored, Assignable, IsTerminateState
<1>4. Account("idle", store)'
  BY <1>1, <1>2 DEF Account, HeldBy, PendingBy, OnceBy, FailedBy, Clean, Stored
<1> QED
  BY <1>1, <1>2, <1>3, <1>4, AssignerStep

\* The assigner gives the deal to a sector and records it.
LEMMA AssignDealSafe ==
  ASSUME IInv, TypeInv', NEW a \in Assigners, AssignDeal(a)
  PROVE  IInv'
<1>1. /\ pc[a] = "assign" /\ pc[a] \notin Rest /\ Return(a)
      /\ UNCHANGED <<kind, chan, held, pubs, sealed, up>>
  BY DEF AssignDeal, Rest, net, fund, proc
<1>2. /\ up /\ Quiet(Actors \ {a}) /\ store # NoDeal /\ Assignable(store) /\ Account("idle", store)
      /\ Sound(store) /\ store \in MinerDeal /\ given = {} /\ a \in Actors
  BY <1>1, BusyAssigner
<1>3. mem[a] = store
  BY <1>1 DEF IInv
<1>4. PICK l \in Rest : Goto(a, l, NoDeal)
  BY <1>1, <1>2, ReturnMove
<1>5. CASE /\ store' = [mem[a] EXCEPT !.ps = "Assigned", !.sec = a]
           /\ given' = given \cup {a} /\ NoFault
  <2>1. PICK d \in MinerDeal : d = [mem[a] EXCEPT !.ps = "Assigned", !.sec = a]
    <3>1. store.st \in States /\ "Assigned" \in {"", "Undefine", "Assigned", "Packing", "Proving"}
      BY <1>2 DEF MinerDeal
    <3> QED
      BY <1>2, <1>3, <3>1, CopyType
  <2>2. /\ d.st = store.st /\ d.fr = store.fr /\ d.pub = store.pub /\ d.id = store.id /\ d.ps = "Assigned"
        /\ d.sec = a /\ d # NoDeal /\ store' = d /\ given' = {a} /\ UNCHANGED faults
    BY <1>2, <1>3, <1>5, <2>1, NoDealAssumption DEF MinerDeal, NoFault
  <2>3. Sound(d)'
    BY <1>1, <1>2, <2>2 DEF Sound, RecordOK, ChainOK, Assignable
  <2>4. StoreOK' /\ ChannelOK'
    BY <1>1, <1>2, <2>2, <2>3 DEF IInv, StoreOK, ChannelOK, Stored
  <2>5. Account("idle", store)'
    BY <1>1, <1>2, <2>2 DEF Account, HeldBy, PendingBy, OnceBy, FailedBy, Clean, Stored
  <2> QED
    BY <1>1, <1>2, <1>4, <2>2, <2>4, <2>5, AssignerStep
<1>6. CASE Fault("save") /\ UNCHANGED <<store, given>>
  <2>1. StoreOK' /\ ChannelOK'
    BY <1>1, <1>6 DEF IInv, StoreOK, ChannelOK, Sound, RecordOK, ChainOK, Stored
  <2>2. Account("idle", store)'
    BY <1>1, <1>2, <1>6, FaultKept DEF Account, HeldBy, PendingBy, OnceBy, FailedBy, Clean, Stored
  <2> QED
    BY <1>1, <1>2, <1>4, <1>6, <2>1, <2>2, AssignerStep
<1> QED
  BY <1>5, <1>6 DEF AssignDeal

\* A step that moves no handler keeps the invariant if it keeps what is said of
\* the store, the channels, and of the handler at work.
LEMMA OutsideStep ==
  ASSUME IInv, TypeInv', up' = up,
         \A b \in Actors \ {Tracker} : pc'[b] = pc[b] /\ mem'[b] = mem[b],
         StoreOK', ChannelOK',
         \A b \in Handlers : pc[b] \notin Rest => Situation(b)',
         Quiet(Handlers) /\ store' # NoDeal => Account("idle", store)',
         store' = store \/ Quiet(Assigners),
         ~up => pc'[Tracker] \in Rest,
         pc'[Tracker] \in Rest => mem'[Tracker] = NoDeal,
         \A b \in Assigners : pc[b] \notin Rest => pc'[Tracker] \in Rest,
         pc'[Tracker] \notin Rest =>
           pc'[Tracker] = "track" /\ mem'[Tracker] = store' /\ Stored({"AwaitingPreCommit", "Sealing", "Active"})'
  PROVE  IInv'
<1>1. \A b \in Handlers \cup Assigners : b \in Actors /\ b # Tracker
  BY Sets
<1>2. \A b \in Actors : pc'[b] \in Rest => mem'[b] = NoDeal
  BY DEF IInv
<1>3. \A b \in Handlers : pc'[b] \notin Rest => Quiet((Handlers \ {b}) \cup Assigners)' /\ Situation(b)'
  BY <1>1 DEF IInv, Quiet
<1>4. Quiet(Handlers)' => Quiet(Handlers)
  BY <1>1 DEF Quiet
<1>5. ASSUME NEW b \in Assigners, pc'[b] \notin Rest
      PROVE  /\ Quiet(Actors \ {b})' /\ pc'[b] \in {"picked", "assign"} /\ store' # NoDeal /\ Assignable(store)'
             /\ pc'[b] = "assign" => mem'[b] = store'
  <2>1. pc'[b] = pc[b] /\ mem'[b] = mem[b] /\ pc[b] \notin Rest /\ store' = store
    BY <1>1, <1>5 DEF Quiet
  <2>2. Quiet(Actors \ {b})'
    BY <1>1, <1>5, <2>1 DEF IInv, Quiet
  <2> QED
    BY <2>1, <2>2 DEF IInv, Assignable, IsTerminateState
<1>6. pc'[Tracker] \notin Rest => Quiet(Assigners)'
  BY <1>1 DEF Quiet
<1>7. (~up)' => Quiet(Actors)'
  BY DEF IInv, Quiet
<1> QED
  BY <1>2, <1>3, <1>4, <1>5, <1>6, <1>7 DEF IInv

\* Sound and Account are monotone: what a record says of the chain stays so, and
\* a fault takes claims away.
LEMMA Monotone ==
  ASSUME UNCHANGED <<held, pubs, given, sealed>>, faults \subseteq faults', store' = store \/ ~Stored({"Failing"})'
  PROVE  \A l, r : (Sound(r) => Sound(r)') /\ (Account(l, r) => Account(l, r)')
BY DEF Sound, RecordOK, ChainOK, Account, HeldBy, PendingBy, OnceBy, FailedBy, Clean, Stored

\* The situation of a handler depends on the deal, the channels and itself.
LEMMA SituationKept ==
  ASSUME NEW b \in Handlers, Situation(b), UNCHANGED <<kind, store, chan, faults>>,
         pc'[b] = pc[b], mem'[b] = mem[b],
         \A l, r : (Sound(r) => Sound(r)') /\ (Account(l, r) => Account(l, r)')
  PROVE  Situation(b)'
<1>1. Place(b)'
  BY DEF Situation, Place, Stored
<1> QED
  BY <1>1 DEF Situation, Stored

\* The tracker reads the deal.
LEMMA ScanDealSafe ==
  ASSUME Sequential, IInv, TypeInv', ScanDeal
  PROVE  IInv'
<1>1. /\ up /\ Quiet(Assigners) /\ Stored({"AwaitingPreCommit", "Sealing", "Active"})
      /\ Goto(Tracker, "track", store)
      /\ UNCHANGED <<kind, store, chan, held, pubs, given, sealed, up, faults>>
  BY DEF ScanDeal, Sequential, Busy, Quiet, Stored, net, fund, seal, proc
<1>2. /\ pc'[Tracker] = "track" /\ mem'[Tracker] = store
      /\ \A b \in Actors \ {Tracker} : pc'[b] = pc[b] /\ mem'[b] = mem[b]
  BY <1>1, Sets DEF Goto, IInv, TypeInv, TypeOK
<1>3. \A l, r : (Sound(r) => Sound(r)') /\ (Account(l, r) => Account(l, r)')
  BY <1>1, Monotone
<1>4. StoreOK' /\ ChannelOK'
  BY <1>1, <1>3 DEF IInv, StoreOK, ChannelOK, Stored
<1>5. \A b \in Handlers : pc[b] \notin Rest => Situation(b)'
  BY <1>1, <1>2, <1>3, SituationKept, Sets DEF IInv
<1>6. Quiet(Handlers) /\ store' # NoDeal => Account("idle", store)'
  BY <1>1, <1>3 DEF IInv
<1>7. pc'[Tracker] \notin Rest /\ mem'[Tracker] = store' /\ Stored({"AwaitingPreCommit", "Sealing", "Active"})'
  BY <1>1, <1>2 DEF Rest, Stored
<1>8. \A b \in Assigners : pc[b] \in Rest
  BY <1>1 DEF Quiet
<1> QED
  BY <1>1, <1>2, <1>4, <1>5, <1>6, <1>7, <1>8, OutsideStep

\* The tracker writes the status that the chain shows, beside a handler that is
\* about to return.
LEMMA UpdateDealStatusSafe ==
  ASSUME IInv, TypeInv', UpdateDealStatus
  PROVE  IInv'
<1>1. /\ pc[Tracker] = "track" /\ Goto(Tracker, "idle", NoDeal)
      /\ UNCHANGED <<kind, chan, held, pubs, given, sealed, up>> /\ faults \subseteq faults'
  BY FaultKept DEF UpdateDealStatus, net, fund, seal, proc
<1>2. /\ Quiet(Assigners) /\ mem[Tracker] = store /\ Stored({"AwaitingPreCommit", "Sealing", "Active"})
  BY <1>1 DEF IInv, Rest
<1>3. /\ store # NoDeal /\ store \in MinerDeal /\ Sound(store) /\ store.st \in {"AwaitingPreCommit", "Sealing", "Active"}
  BY <1>2 DEF IInv, StoreOK, TypeInv, TypeOK, Stored
<1>4. /\ pc'[Tracker] = "idle" /\ mem'[Tracker] = NoDeal
      /\ \A b \in Actors \ {Tracker} : pc'[b] = pc[b] /\ mem'[b] = mem[b]
  BY <1>1, Sets DEF Goto, IInv, TypeInv, TypeOK
<1>5. PICK t : t = TrackedState(store)
  OBVIOUS
<1>6. \/ t = <<store.st, store.ps>>
      \/ t[1] = "Slashed" /\ sealed.st = "slashed"
      \/ t[1] = "Active" /\ t[2] = "Proving" /\ sealed.st \in {"proven", "slashed"}
      \/ t[1] = "Sealing" /\ t[2] = "Packing" /\ sealed.st = "precommitted"
  BY <1>5 DEF TrackedState
<1>7. PICK ps : ps = IF t[1] = "Slashed" THEN store.ps ELSE t[2]
  OBVIOUS
<1>8. store' = store \/ (t # <<store.st, store.ps>> /\ store' = [store EXCEPT !.st = t[1], !.ps = ps])
  BY <1>2, <1>5, <1>7 DEF UpdateDealStatus
<1>9. /\ store'.fr = store.fr /\ store'.pub = store.pub /\ store'.id = store.id /\ store'.sec = store.sec
      /\ store'.ps = store.ps \/ store'.ps \in {"Proving", "Packing"}
      /\ \/ store'.st = store.st
         \/ store'.st = "Slashed" /\ sealed.st = "slashed"
         \/ store'.st = "Active" /\ sealed.st \in {"proven", "slashed"}
         \/ store'.st = "Sealing" /\ sealed.st # "none"
  <2>1. CASE store' = store
    BY <2>1
  <2>2. CASE t # <<store.st, store.ps>> /\ store' = [store EXCEPT !.st = t[1], !.ps = ps]
    <3>1. /\ store'.fr = store.fr /\ store'.pub = store.pub /\ store'.id = store.id /\ store'.sec = store.sec
          /\ store'.st = t[1] /\ store'.ps = ps
      BY <1>3, <2>2 DEF MinerDeal
    <3> QED
      BY <1>6, <1>7, <2>2, <3>1
  <2> QED
    BY <1>8, <2>1, <2>2
<1>10. store' # NoDeal
  BY <1>2, <1>3, TrackerType, NoDealAssumption
<1>11. /\ store'.st \in HandedOff /\ Stored(HandedOff)' /\ Stored(HandedOff)
       /\ ~Stored({"Failing"})' /\ ~Stored(Waiting)
  BY <1>3, <1>9, <1>10 DEF Stored, HandedOff, Waiting
<1>12. Sound(store)'
  BY <1>1, <1>3, <1>9, <1>11 DEF Sound, RecordOK, ChainOK, HandedOff, Published, Early, Waiting
<1>13. \A l, r : (Sound(r) => Sound(r)') /\ (Account(l, r) => Account(l, r)')
  BY <1>1, <1>11, Monotone
<1>14. StoreOK' /\ ChannelOK'
  BY <1>1, <1>10, <1>11, <1>12 DEF IInv, StoreOK, ChannelOK
<1>15. ASSUME NEW b \in Handlers, pc[b] \notin Rest PROVE Situation(b)'
  <2>1. Situation(b) /\ pc[b] = "off" /\ mem[b].st \in HandedOff /\ b \in Actors \ {Tracker}
    BY <1>1, <1>15, BusyHandler, Sets DEF Rest
  <2>2. b \notin Streams
    BY <2>1 DEF Situation, Place, Events
  <2>3. Place(b)'
    BY <1>4, <1>10, <1>11, <2>1, <2>2 DEF Place
  <2> QED
    BY <1>1, <1>4, <1>13, <2>1, <2>2, <2>3 DEF Situation, WorkPCs
<1>16. ASSUME Quiet(Handlers) PROVE Account("idle", store)'
  <2>1. Account("idle", store)
    BY <1>3, <1>16 DEF IInv
  <2> QED
    BY <1>1, <1>3, <1>9, <1>11, <2>1 DEF Account, HeldBy, PendingBy, OnceBy, FailedBy, Clean
<1> QED
  BY <1>1, <1>2, <1>4, <1>14, <1>15, <1>16, OutsideStep DEF Rest

\* The messages after one of them has executed.
LEMMA ExecFacts ==
  ASSUME IInv, ExecPublish
  PROVE  /\ store # NoDeal /\ UNCHANGED <<kind, store, pc, mem, chan, held, given, sealed, up, faults>>
         /\ \A l, r : (Sound(r) => Sound(r)') /\ (Account(l, r) => Account(l, r)')
<1>1. UNCHANGED <<kind, store, pc, mem, chan, held, given, sealed, up, faults>>
  BY DEF ExecPublish, net, seal, proc
<1>2. PICK p \in DOMAIN pubs, r \in {"ok", "failed"} : pubs[p] = "pending" /\ pubs' = [pubs EXCEPT ![p] = r]
  BY DEF ExecPublish
<1>3. pubs \in Seq({"pending", "ok", "failed"})
  BY DEF IInv, TypeInv, TypeOK
<1>4. /\ DOMAIN pubs' = DOMAIN pubs /\ Len(pubs') = Len(pubs) /\ pubs # << >>
      /\ \A q \in DOMAIN pubs : q # p => pubs'[q] = pubs[q]
      /\ pubs'[p] \in {"ok", "failed"}
  BY <1>2, <1>3
<1>5. store # NoDeal
  <2>1. pubs # <<"ok">>
    BY <1>2
  <2> QED
    BY <1>4, <2>1 DEF IInv, StoreOK
<1>6. ASSUME NEW d, Sound(d) PROVE Sound(d)'
  BY <1>1, <1>2, <1>4, <1>6 DEF Sound, RecordOK, ChainOK
<1>7. ASSUME NEW l, NEW d, Account(l, d) PROVE Account(l, d)'
  <2>1. HeldBy(d)'
    BY <1>1, <1>7 DEF Account, HeldBy, Clean
  <2>2. PendingBy(l, d)'
    BY <1>1, <1>4, <1>7 DEF Account, PendingBy, Clean
  <2>3. OnceBy(d)'
    BY <1>1, <1>4, <1>7 DEF Account, OnceBy, Clean
  <2>4. FailedBy(l)'
    BY <1>1, <1>2, <1>4, <1>7 DEF Account, FailedBy, Clean, Stored
  <2> QED
    BY <2>1, <2>2, <2>3, <2>4 DEF Account
<1> QED
  BY <1>1, <1>5, <1>6, <1>7

\* A step that moves no actor and leaves the record alone.
LEMMA ChainStep ==
  ASSUME IInv, TypeInv', UNCHANGED <<kind, store, pc, mem, chan, up, faults>>, StoreOK',
         \A l, r : (Sound(r) => Sound(r)') /\ (Account(l, r) => Account(l, r)')
  PROVE  IInv'
<1>1. ChannelOK'
  BY DEF IInv, ChannelOK, Stored
<1>2. \A b \in Handlers : pc[b] \notin Rest => Situation(b)'
  BY SituationKept DEF IInv
<1>3. Quiet(Handlers) /\ store' # NoDeal => Account("idle", store)'
  BY DEF IInv
<1>4. /\ ~up => pc'[Tracker] \in Rest
      /\ pc'[Tracker] \in Rest => mem'[Tracker] = NoDeal
      /\ \A b \in Assigners : pc[b] \notin Rest => pc'[Tracker] \in Rest
      /\ pc'[Tracker] \notin Rest =>
           pc'[Tracker] = "track" /\ mem'[Tracker] = store' /\ Stored({"AwaitingPreCommit", "Sealing", "Active"})'
  BY Sets DEF IInv, Quiet, Stored
<1> QED
  BY <1>1, <1>2, <1>3, <1>4, OutsideStep

\* A publish message executes.
LEMMA ExecPublishSafe ==
  ASSUME IInv, TypeInv', ExecPublish
  PROVE  IInv'
<1>1. /\ store # NoDeal /\ UNCHANGED <<kind, store, pc, mem, chan, held, given, sealed, up, faults>>
      /\ \A l, r : (Sound(r) => Sound(r)') /\ (Account(l, r) => Account(l, r)')
  BY ExecFacts
<1>2. StoreOK'
  BY <1>1 DEF IInv, StoreOK
<1> QED
  BY <1>1, <1>2, ChainStep

\* The sealer goes on.
LEMMA SealDealSafe ==
  ASSUME IInv, TypeInv', SealDeal
  PROVE  IInv'
<1>1. /\ UNCHANGED <<kind, store, pc, mem, chan, held, pubs, given, up, faults>>
  BY DEF SealDeal, net, fund, proc
<1>2. \/ sealed.st = "none" /\ sealed'.st = "precommitted"
      \/ sealed.st = "precommitted" /\ sealed'.st = "proven"
      \/ sealed.st = "proven" /\ sealed'.st = "slashed"
  BY DEF SealDeal, IInv, TypeInv, TypeOK
<1>3. ASSUME NEW l, NEW r PROVE (Sound(r) => Sound(r)') /\ (Account(l, r) => Account(l, r)')
  <2>1. Sound(r) => Sound(r)'
    BY <1>1, <1>2 DEF Sound, RecordOK, ChainOK
  <2>2. Account(l, r) => Account(l, r)'
    BY <1>1 DEF Account, HeldBy, PendingBy, OnceBy, FailedBy, Clean, Stored
  <2> QED
    BY <2>1, <2>2
<1>4. StoreOK'
  BY <1>1, <1>3 DEF IInv, StoreOK
<1> QED
  BY <1>1, <1>3, <1>4, ChainStep

\* Nothing happens.
LEMMA StutterSafe ==
  ASSUME IInv, TypeInv', UNCHANGED vars
  PROVE  IInv'
<1>1. UNCHANGED <<kind, store, pc, mem, chan, held, pubs, given, sealed, up, faults>>
  BY DEF vars
<1>2. \A l, r : (Sound(r) => Sound(r)') /\ (Account(l, r) => Account(l, r)')
  BY <1>1, Monotone
<1>3. StoreOK'
  BY <1>1, <1>2 DEF IInv, StoreOK
<1> QED
  BY <1>1, <1>2, <1>3, ChainStep

-----------------------------------------------------------------------------
(* The invariant and the theorems.                                           *)

\* Every step keeps the invariant.
LEMMA InvStep ==
  ASSUME Sequential, IInv, [Next]_vars
  PROVE  IInv'
<1>1. TypeInv'
  BY TypeStep DEF IInv
<1>2. ASSUME NEW s \in Streams, HandleDealStream(s) \/ StreamStep(s) PROVE IInv'
  BY <1>1, <1>2, HandleDealStreamSafe, CreateDealSafe, AddStreamSafe, AcceptDealSafe, AcceptSaveSafe
     DEF StreamStep
<1>3. ASSUME NEW c \in Channels, ChannelStep(c) \/ \E e \in Events : ProviderDataTransferSubscriber(c, e) PROVE IInv'
  BY <1>1, <1>3, HandleTransferEventSafe, HandleCompleteForSafe, HandleCancelForDealSafe,
     SubscriberSafe
     DEF ChannelStep
<1>4. ASSUME NEW i \in Imports, ImportDataForDeal(i) \/ ImportSave(i) \/ ImportPublishedDeal(i) PROVE IInv'
  BY <1>1, <1>4, ImportDataForDealSafe, ImportSaveSafe, ImportPublishedDealSafe
<1>5. ASSUME NEW a \in Handlers, HandleOff(a) PROVE IInv'
  BY <1>1, <1>5, VerifyDataSafe, ReserveFundsSafe, SaveReservedSafe, WaitForFundingSafe,
     PublishDealsSafe,
     SavePublishedSafe, WaitForPublishSafe, SaveStagedSafe, OpenDataSafe, HandOffSafe, EndHandleOffSafe,
     HandleErrorSafe, FailSaveSafe DEF HandleOff
<1>6. ASSUME NEW a \in Assigners, PickDeal(a) \/ ReadPicked(a) \/ AssignDeal(a) PROVE IInv'
  BY <1>1, <1>6, PickDealSafe, ReadPickedSafe, AssignDealSafe
<1>7. CASE ScanDeal \/ UpdateDealStatus
  BY <1>1, <1>7, ScanDealSafe, UpdateDealStatusSafe
<1>8. CASE Crash \/ Start \/ ExecPublish \/ SealDeal
  BY <1>1, <1>8, CrashSafe, StartSafe, ExecPublishSafe, SealDealSafe
<1>9. CASE UNCHANGED vars
  BY <1>1, <1>9, StutterSafe
<1> QED
  BY <1>2, <1>3, <1>4, <1>5, <1>6, <1>7, <1>8, <1>9 DEF Next

\* Initially there is no record and nobody at work.
LEMMA InvInit == Init => IInv
<1> SUFFICES ASSUME Init PROVE IInv
  OBVIOUS
<1>1. TypeInv
  BY TypeStep
<1>2. \A a \in Actors : pc[a] = "idle" /\ mem[a] = NoDeal
  BY DEF Init
<1>3. Quiet(Actors) /\ \A a \in Actors : pc[a] \in Rest
  BY <1>2 DEF Quiet, Rest
<1>4. store = NoDeal /\ given = {} /\ held = 0 /\ pubs = IF kind = "published" THEN <<"ok">> ELSE << >>
  BY DEF Init
<1>5. \A c \in Channels : chan[c] \notin Live
  BY DEF Init, Live
<1> QED
  BY <1>1, <1>2, <1>3, <1>4, <1>5, Sets DEF IInv, StoreOK, ChannelOK

\* When no two handlers overlap, the invariant holds throughout.
LEMMA Invariant == ASSUME Sequential PROVE Spec => []IInv
<1>1. Init => IInv
  BY InvInit
<1>2. IInv /\ [Next]_vars => IInv'
  BY InvStep
<1> QED
  BY <1>1, <1>2, PTL DEF Spec

\* The accounts agree with the record that counts: the copy of the handler at
\* work, or else the stored one.
LEMMA AccountHolds ==
  ASSUME IInv
  PROVE  /\ \A a \in Handlers : pc[a] \in WorkPCs => Account(pc[a], mem[a])
         /\ (store # NoDeal /\ \A a \in Handlers : pc[a] \notin WorkPCs) => Account("idle", store)
<1>1. ASSUME NEW a \in Handlers, pc[a] \in WorkPCs PROVE Account(pc[a], mem[a])
  <2>1. Situation(a)
    BY <1>1, BusyHandler DEF WorkPCs, Rest
  <2> QED
    BY <1>1, <2>1 DEF Situation
<1>2. ASSUME store # NoDeal, \A a \in Handlers : pc[a] \notin WorkPCs PROVE Account("idle", store)
  <2>1. CASE Quiet(Handlers)
    BY <1>2, <2>1 DEF IInv
  <2>2. ASSUME NEW a \in Handlers, pc[a] \notin Rest PROVE Account("idle", store)
    BY <1>2, <2>2, BusyHandler DEF Situation
  <2> QED
    BY <2>1, <2>2 DEF Quiet
<1> QED
  BY <1>1, <1>2

\* The collateral that the fund manager holds for the deal is what the record
\* says: HandleOff, HandleError and restarts reserve it once and release it.
THEOREM CollateralCorrect == ASSUME Sequential PROVE Spec => []CollateralAccounted
<1>1. ASSUME IInv PROVE CollateralAccounted
  BY <1>1, AccountHolds DEF CollateralAccounted, Account, HeldBy, Clean
<1> QED
  BY <1>1, Invariant, PTL

\* While a publish message is on its way the collateral stays reserved.
THEOREM PendingBacked == ASSUME Sequential PROVE Spec => []PendingPublishBacked
<1>1. ASSUME IInv PROVE PendingPublishBacked
  <2> SUFFICES ASSUME faults \cap {"wait", "save", "crashPublish", "crashRelease"} = {},
                      NEW p \in DOMAIN pubs, pubs[p] = "pending"
               PROVE  held >= 1
    BY DEF PendingPublishBacked
  <2>1. Clean({"wait", "save", "crashPublish"}) /\ Clean({"save", "crashRelease"})
    BY DEF Clean
  <2>2. store # NoDeal
    <3>1. pubs # <<"ok">> /\ pubs # << >>
      OBVIOUS
    <3> QED
      BY <1>1, <3>1 DEF IInv, StoreOK
  <2>3. ASSUME NEW l, NEW r, Account(l, r), Sound(r) PROVE held >= 1
    <3>1. r.st = "Publishing" /\ held >= r.fr
      BY <2>1, <2>3 DEF Account, PendingBy, HeldBy
    <3>2. r.fr = 1
      BY <2>3, <3>1 DEF Sound, RecordOK
    <3> QED
      BY <3>1, <3>2
  <2>4. ASSUME NEW a \in Handlers, pc[a] \in WorkPCs PROVE held >= 1
    <3>1. Account(pc[a], mem[a]) /\ Sound(mem[a])
      BY <1>1, <2>4, AccountHolds, BusyHandler DEF Situation, WorkPCs, Rest
    <3> QED
      BY <2>3, <3>1
  <2>5. ASSUME \A a \in Handlers : pc[a] \notin WorkPCs PROVE held >= 1
    BY <1>1, <2>2, <2>3, <2>5, AccountHolds DEF IInv, StoreOK
  <2> QED
    BY <2>4, <2>5
<1> QED
  BY <1>1, Invariant, PTL

\* A deal is published again only when the record of the first message was lost.
THEOREM OnePublication == ASSUME Sequential PROVE Spec => []PublishedOnce
<1>1. ASSUME IInv PROVE PublishedOnce
  <2> SUFFICES ASSUME Clean({"save", "crashPublish"}) PROVE ~(Len(pubs) > 1)
    BY DEF PublishedOnce, Clean
  <2>1. pubs \in Seq({"pending", "ok", "failed"})
    BY <1>1 DEF IInv, TypeInv, TypeOK
  <2>2. CASE store = NoDeal
    <3>1. pubs = <<"ok">> \/ pubs = << >>
      BY <1>1, <2>2 DEF IInv, StoreOK
    <3>2. Len(<<"ok">>) = 1 /\ Len(<< >>) = 0
      OBVIOUS
    <3>3. Len(pubs) = 1 \/ Len(pubs) = 0
      BY <3>1, <3>2
    <3>4. ~(1 > 1) /\ ~(0 > 1)
      OBVIOUS
    <3> QED
      BY <3>3, <3>4
  <2>3. CASE store # NoDeal
    <3>1. Len(pubs) <= 1
      BY <1>1, <2>3, AccountHolds DEF Account, OnceBy
    <3> QED
      BY <2>1, <3>1
  <2> QED
    BY <2>2, <2>3
<1> QED
  BY <1>1, Invariant, PTL

\* A deal that is on chain is given up only for a failure after the publication.
THEOREM ChainDealKept == ASSUME Sequential PROVE Spec => []ChainDealNotFailed
<1>1. ASSUME IInv PROVE ChainDealNotFailed
  <2> SUFFICES ASSUME Clean({"wait", "file", "save", "crashPublish"}), Stored({"Failing"}),
                      NEW p \in DOMAIN pubs, pubs[p] = "ok"
               PROVE  FALSE
    BY DEF ChainDealNotFailed, Clean
  <2>1. \A l, r : ~Account(l, r)
    BY DEF Account, FailedBy
  <2> QED
    BY <1>1, <2>1, AccountHolds DEF Stored
<1> QED
  BY <1>1, Invariant, PTL

\* The record is not ahead of the chain.
THEOREM RecordFollowsChain == ASSUME Sequential PROVE Spec => []StateFollowsChain
<1>1. ASSUME IInv PROVE StateFollowsChain
  BY <1>1 DEF IInv, StoreOK, Sound, RecordOK, ChainOK, StateFollowsChain, Stored, Published
<1> QED
  BY <1>1, Invariant, PTL

\* The record names the one sector that the deal was handed to.
THEOREM SectorKept == ASSUME Sequential PROVE Spec => []SectorRecorded
<1>1. ASSUME IInv PROVE SectorRecorded
  BY <1>1 DEF IInv, StoreOK, Sound, ChainOK, SectorRecorded
<1> QED
  BY <1>1, Invariant, PTL

-----------------------------------------------------------------------------
(* The deal never goes back.                                                 *)

\* Ranks are numbers, and the rank of a deal depends on its state.
LEMMA RankType ==
  /\ \A d : Rank(d) \in 0 .. 13 /\ Rank(d) >= Rank(d)
  /\ Rank(NoDeal) = 0
  /\ \A d, e : d # NoDeal /\ e # NoDeal /\ d.st = e.st => Rank(d) >= Rank(e)
<1>1. \A d : Rank(d) \in 0 .. 13
  BY DEF Rank
<1>2. Rank(NoDeal) = 0
  BY DEF Rank
<1>3. \A d, e : d # NoDeal /\ e # NoDeal /\ d.st = e.st => Rank(d) = Rank(e)
  BY DEF Rank
<1> QED
  BY <1>1, <1>2, <1>3

\* Where each save that starts from a stored record takes it.
LEMMA Forward ==
  ASSUME NEW d, NEW e, d # NoDeal, e # NoDeal,
         \/ d.st = e.st
         \/ d.st = "Unknown" /\ e.st \in {"WaitingForData", "Rejecting"}
         \/ d.st \in Waiting /\ e.st \in {"TransferAwaitRestart", "VerifyData", "ReserveProviderFunds"}
         \/ d.st = "VerifyData" /\ e.st = "ReserveProviderFunds"
         \/ d.st = "ReserveProviderFunds" /\ e.st \in {"ProviderFunding", "Publish"}
         \/ d.st = "ProviderFunding" /\ e.st = "Publish"
         \/ d.st = "Publish" /\ e.st = "Publishing"
         \/ d.st = "Publishing" /\ e.st = "Staged"
         \/ d.st = "Staged" /\ e.st = "AwaitingPreCommit"
         \/ d.st = "AwaitingPreCommit" /\ e.st \in {"Sealing", "Active"}
         \/ d.st = "Sealing" /\ e.st = "Active"
         \/ d.st = "Active" /\ e.st = "Slashed"
         \/ e.st = "Failing"
  PROVE  Rank(e) >= Rank(d)
<1>1. CASE d.st = e.st
  BY <1>1, RankType
<1>2. CASE e.st = "Failing"
  <2>1. Rank(e) = 13
    BY <1>2 DEF Rank
  <2> QED
    BY <2>1, RankType
<1>3. CASE d.st # e.st /\ e.st # "Failing"
  BY <1>3 DEF Rank, Waiting
<1> QED
  BY <1>1, <1>2, <1>3

\* A handler that writes the record takes it forward.
LEMMA HandlerForward ==
  ASSUME IInv, TypeInv', NEW a \in Handlers, HandleOff(a)
  PROVE  Rank(store') >= Rank(store)
<1>1. CASE UNCHANGED store
  BY <1>1, RankType
<1>2. ASSUME pc[a] # "off", store' = mem[a], SaveReserved(a) \/ SavePublished(a) \/ SaveStaged(a) \/ FailSave(a)
      PROVE  Rank(store') >= Rank(store)
  <2>1. pc[a] \in {"reserved", "published", "released", "failsave"}
    BY <1>2 DEF SaveReserved, SavePublished, SaveStaged, FailSave
  <2>2. Situation(a) /\ Place(a) /\ mem[a] # NoDeal
    BY <2>1, BusyHandler DEF Rest, Situation, WorkPCs
  <2>3. /\ store # NoDeal
        /\ \/ store.st = "ReserveProviderFunds" /\ mem[a].st \in {"ProviderFunding", "Publish"}
           \/ store.st = "Publish" /\ mem[a].st = "Publishing"
           \/ store.st = "Publishing" /\ mem[a].st = "Staged"
           \/ mem[a].st = "Failing"
    BY <2>1, <2>2 DEF Place, Stored, Events
  <2> QED
    BY <1>2, <2>2, <2>3, Forward
<1>3. ASSUME pc[a] = "off", mem[a].st \in Working, VerifyData(a) \/ WaitForFunding(a) \/ OpenData(a), store' # store
      PROVE  Rank(store') >= Rank(store)
  <2>1. mem[a] = store /\ store # NoDeal /\ store \in MinerDeal
    BY <1>3, AtWork
  <2>2. \/ store.st = "VerifyData" /\ store' = [mem[a] EXCEPT !.ps = "Undefine", !.st = "ReserveProviderFunds"]
        \/ store.st = "ProviderFunding" /\ store' = [mem[a] EXCEPT !.st = "Publish"]
    BY <1>3, <2>1 DEF VerifyData, WaitForFunding, OpenData, At, SaveDeal
  <2>3. /\ store' # NoDeal
        /\ \/ store.st = "VerifyData" /\ store'.st = "ReserveProviderFunds"
           \/ store.st = "ProviderFunding" /\ store'.st = "Publish"
    <3>1. /\ [mem[a] EXCEPT !.ps = "Undefine", !.st = "ReserveProviderFunds"] \in MinerDeal
          /\ [mem[a] EXCEPT !.st = "Publish"] \in MinerDeal
      BY <2>1, CopyType, StateNames
    <3> QED
      BY <2>1, <2>2, <3>1, NoDealAssumption DEF MinerDeal
  <2> QED
    BY <2>1, <2>3, Forward
<1>4. ASSUME HandOff(a), store' # store PROVE Rank(store') >= Rank(store)
  <2>1. pc[a] = "handoff" /\ store' = [mem[a] EXCEPT !.st = "AwaitingPreCommit"]
    BY <1>4 DEF HandOff, SaveDeal
  <2>2. Situation(a) /\ a \in Actors
    BY <2>1, BusyHandler DEF Rest
  <2>3. mem[a] = store /\ store # NoDeal /\ store.st = "Staged"
    BY <2>1, <2>2 DEF Situation, Place, Stored, Events
  <2>4. store \in MinerDeal
    BY <2>3 DEF IInv, TypeInv, TypeOK
  <2>5. store' # NoDeal /\ store'.st = "AwaitingPreCommit"
    <3>1. store' \in MinerDeal
      BY <2>1, <2>3, <2>4, CopyType, StateNames
    <3> QED
      BY <2>1, <2>3, <2>4, <3>1, NoDealAssumption DEF MinerDeal
  <2> QED
    BY <2>3, <2>5, Forward
<1>5. UNCHANGED store \/ \/ SaveReserved(a) \/ SavePublished(a) \/ SaveStaged(a) \/ FailSave(a)
                         \/ VerifyData(a) \/ WaitForFunding(a) \/ OpenData(a) \/ HandOff(a)
  BY DEF HandleOff, ReserveFunds, PublishDeals, WaitForPublish, EndHandleOff, HandleError
<1>6. SaveReserved(a) \/ SavePublished(a) \/ SaveStaged(a) \/ FailSave(a) =>
        pc[a] # "off" /\ (store' = mem[a] \/ UNCHANGED store)
  BY DEF SaveReserved, SavePublished, SaveStaged, FailSave, SaveDeal
<1>7. VerifyData(a) \/ WaitForFunding(a) \/ OpenData(a) => pc[a] = "off" /\ mem[a].st \in Working
  BY DEF VerifyData, WaitForFunding, OpenData, At, Working
<1> QED
  BY <1>1, <1>2, <1>3, <1>4, <1>5, <1>6, <1>7

\* So does every other step.
LEMMA StepForward ==
  ASSUME Sequential, IInv, [Next]_vars
  PROVE  Rank(store') >= Rank(store)
<1>1. TypeInv' /\ IInv'
  BY TypeStep, InvStep DEF IInv
<1>2. CASE UNCHANGED store
  BY <1>2, RankType
<1>3. CASE store = NoDeal
  <2>1. Rank(store) = 0 /\ Rank(store') \in 0 .. 13
    BY <1>3, RankType
  <2> QED
    BY <2>1
<1>4. ASSUME NEW s \in Streams, StreamStep(s), store # NoDeal, store' # store PROVE Rank(store') >= Rank(store)
  <2>1. pc[s] # "create"
    <3>1. pc[s] = "create" => Place(s)
      BY BusyHandler, Sets DEF Rest, Situation
    <3> QED
      BY <1>4, <3>1 DEF Place, Events
  <2>2. AcceptSave(s) /\ store' = mem[s] /\ pc[s] = "acceptsave"
    BY <1>4, <2>1 DEF StreamStep, CreateDeal, AddStream, AcceptDeal, AcceptSave
  <2>3. Situation(s)
    BY <2>2, BusyHandler, Sets DEF Rest
  <2>4. store.st = "Unknown" /\ mem[s].st \in {"WaitingForData", "Rejecting"} /\ mem[s] # NoDeal
    BY <2>2, <2>3 DEF Situation, Place, Events, Stored
  <2> QED
    BY <1>4, <2>2, <2>4, Forward
<1>5. ASSUME NEW c \in Channels, ChannelStep(c), store' # store PROVE Rank(store') >= Rank(store)
  <2>1. pc[c] \in Events
    BY <1>5 DEF ChannelStep, HandleTransferEvent, HandleCompleteFor, HandleCancelForDeal, Events
  <2>2. Stored(Waiting) /\ mem[c] = store
    BY <2>1, AtEvent
  <2>3. store \in MinerDeal /\ store # NoDeal /\ store.st \in Waiting
    BY <2>2, WaitingAlone DEF Stored
  <2>4. \E st \in {"TransferAwaitRestart", "VerifyData"} : store' = [store EXCEPT !.st = st]
    BY <1>5, <2>2 DEF ChannelStep, HandleTransferEvent, HandleCompleteFor, HandleCancelForDeal
  <2>5. store' \in MinerDeal /\ store'.st \in {"TransferAwaitRestart", "VerifyData"}
    <3>1. PICK st \in {"TransferAwaitRestart", "VerifyData"} : store' = [store EXCEPT !.st = st]
      BY <2>4
    <3>2. [store EXCEPT !.st = st] \in MinerDeal
      BY <2>3, CopyType, StateNames
    <3> QED
      BY <2>3, <3>1, <3>2 DEF MinerDeal
  <2> QED
    BY <2>3, <2>5, Forward, NoDealAssumption
<1>6. ASSUME NEW i \in Imports, ImportSave(i), store' # store PROVE Rank(store') >= Rank(store)
  <2>1. pc[i] = "copy" /\ store' = [mem[i] EXCEPT !.st = "ReserveProviderFunds", !.ps = "Undefine"]
    BY <1>6 DEF ImportSave
  <2>2. Situation(i)
    BY <2>1, BusyHandler, Sets DEF Rest
  <2>3. mem[i] = store /\ Stored(Waiting)
    BY <2>1, <2>2 DEF Situation, Place, Events, Stored, Waiting
  <2>4. store \in MinerDeal /\ store # NoDeal /\ store.st \in Waiting
    BY <2>3, WaitingAlone DEF Stored
  <2>5. store' \in MinerDeal /\ store'.st = "ReserveProviderFunds"
    <3>1. store' \in MinerDeal
      BY <2>1, <2>3, <2>4, CopyType, StateNames
    <3> QED
      BY <2>1, <2>3, <2>4, <3>1 DEF MinerDeal
  <2> QED
    BY <2>4, <2>5, Forward, NoDealAssumption
<1>7. ASSUME NEW a \in Assigners, AssignDeal(a), store' # store PROVE Rank(store') >= Rank(store)
  <2>1. pc[a] = "assign" /\ store' = [mem[a] EXCEPT !.ps = "Assigned", !.sec = a]
    BY <1>7 DEF AssignDeal
  <2>2. mem[a] = store /\ store # NoDeal /\ store \in MinerDeal
    BY <2>1, BusyAssigner DEF IInv, Rest
  <2>3. store'.st = store.st
    BY <2>1, <2>2 DEF MinerDeal
  <2>4. store' # NoDeal
    <3>1. store.st \in States /\ "Assigned" \in {"", "Undefine", "Assigned", "Packing", "Proving"}
      BY <2>2 DEF MinerDeal
    <3>2. [store EXCEPT !.ps = "Assigned", !.sec = a] \in MinerDeal
      BY <2>2, <3>1, CopyType
    <3> QED
      BY <2>1, <2>2, <3>2, NoDealAssumption
  <2> QED
    BY <2>2, <2>3, <2>4, Forward
<1>8. ASSUME UpdateDealStatus, store' # store PROVE Rank(store') >= Rank(store)
  <2>1. mem[Tracker] = store /\ Stored({"AwaitingPreCommit", "Sealing", "Active"})
    BY <1>8 DEF UpdateDealStatus, IInv, Rest
  <2>2. store # NoDeal /\ store \in MinerDeal /\ store.st \in {"AwaitingPreCommit", "Sealing", "Active"}
    BY <2>1 DEF IInv, TypeInv, TypeOK, Stored
  <2>3. PICK t : t = TrackedState(store)
    OBVIOUS
  <2>4. t # <<store.st, store.ps>> /\ \E ps : store' = [store EXCEPT !.st = t[1], !.ps = ps]
    BY <1>8, <2>1, <2>3 DEF UpdateDealStatus
  <2>5. store'.st = t[1]
    BY <2>2, <2>4 DEF MinerDeal
  <2>6. \/ store.st = "Active" /\ t[1] = "Slashed"
        \/ store.st # "Active" /\ t[1] = "Active"
        \/ store.st = "AwaitingPreCommit" /\ t[1] = "Sealing"
    BY <2>3, <2>4 DEF TrackedState
  <2>7. store' # NoDeal
    BY <1>8, <2>1, <2>2, TrackerType, NoDealAssumption
  <2> QED
    BY <2>2, <2>5, <2>6, <2>7, Forward
<1>9. \/ UNCHANGED store \/ store = NoDeal
      \/ \E s \in Streams : StreamStep(s)
      \/ \E c \in Channels : ChannelStep(c)
      \/ \E i \in Imports : ImportSave(i)
      \/ \E a \in Handlers : HandleOff(a)
      \/ \E a \in Assigners : AssignDeal(a)
      \/ UpdateDealStatus
  <2>1. \A s \in Streams : HandleDealStream(s) => UNCHANGED store
    BY DEF HandleDealStream
  <2>2. \A c \in Channels, e \in Events : ProviderDataTransferSubscriber(c, e) => UNCHANGED store
    BY DEF ProviderDataTransferSubscriber
  <2>3. \A i \in Imports : (ImportDataForDeal(i) => UNCHANGED store) /\ (ImportPublishedDeal(i) => store = NoDeal)
    BY DEF ImportDataForDeal, ImportPublishedDeal
  <2>4. \A a \in Assigners : PickDeal(a) \/ ReadPicked(a) => UNCHANGED store
    BY DEF PickDeal, ReadPicked
  <2>5. ScanDeal \/ Crash \/ Start \/ ExecPublish \/ SealDeal \/ UNCHANGED vars => UNCHANGED store
    BY DEF ScanDeal, Crash, Start, ExecPublish, SealDeal, vars
  <2> QED
    BY <2>1, <2>2, <2>3, <2>4, <2>5 DEF Next
<1> QED
  BY <1>1, <1>2, <1>3, <1>4, <1>5, <1>6, <1>7, <1>8, <1>9, HandlerForward

\* The stored deal never goes back to an earlier state, whatever the order of
\* events, crashes and restarts.
THEOREM DealNeverBack == ASSUME Sequential PROVE Spec => NeverBack
<1>1. IInv /\ [Next]_vars => [Rank(store') >= Rank(store)]_vars
  BY StepForward
<1> QED
  BY <1>1, Invariant, PTL DEF Spec, NeverBack
=============================================================================
