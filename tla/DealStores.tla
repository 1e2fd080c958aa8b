----------------------------- MODULE DealStores -----------------------------
(***************************************************************************)
(* The repositories of the market node in their two implementations,       *)
(* badger (models/badger) and MySQL (models/mysql).  Every operation is    *)
(* applied to both, and every query is asked of both: a node must not      *)
(* behave differently because of its store.  Badger keeps the records as   *)
(* they are encoded; MySQL keeps rows whose columns have no nil pointers,  *)
(* so a record is converted on its way in and out.                         *)
(*                                                                         *)
(* An answer is a set of records, or the set of the records the query may  *)
(* pick from where it returns one: neither store promises an order.  A     *)
(* "not found" error is the empty answer.                                  *)
(***************************************************************************)
EXTENDS Naturals, FiniteSets, Functions

CONSTANTS
  None,          \* a nil pointer
  EmptyAddr,     \* badger's stand-in for a nil channel address
  StoredDeals,   \* proposal cids; a proposal fixes the four functions below
  Provider, PieceCID, Root, Label,
  Peerless,      \* deals imported without a client peer
  Miners, Pieces, Payloads, Cids, Addrs,
  MaxChannels

\* The stand-ins for nil are no values of the fields they stand in.
ASSUME DealStoresAssumption ==
  /\ StoredDeals \subseteq Nat /\ IsFiniteSet(StoredDeals) /\ Peerless \subseteq StoredDeals
  /\ \A d \in StoredDeals : Label[d] \in {"string", "bytes", "utf8 bytes"}
  /\ None # EmptyAddr /\ {None, ""} \cap ({Provider[d] : d \in StoredDeals} \cup {PieceCID[d] : d \in StoredDeals}) = {}
  /\ None \notin {"", "create", "add", "sig"} \cup [Initiator : {"", "peer"}, ID : Nat]
  /\ {None, "", EmptyAddr} \cap (Cids \cup Addrs) = {} /\ Cids # {}

VARIABLES
  repository,    \* the repository the operations are on
  badger, mysql  \* the stores: records of functions from keys

storeVars == <<repository, badger, mysql>>

Repositories == {"storage deals", "cid infos", "asks", "funds", "retrieval deals", "channels"}

NoFn == [x \in {} |-> None]

\* Datastore.Put of badger, and the INSERT or UPDATE of gorm's Save.
PutKey(f, k, v) == [x \in DOMAIN f \cup {k} |-> IF x = k THEN v ELSE f[x]]
DropKey(f, k) == [x \in DOMAIN f \ {k} |-> f[x]]

\* The record under a key; {} is the not-found error.
Taken(f, k) == {f[x] : x \in DOMAIN f \cap {k}}

EmptyStore == [deals |-> NoFn, cids |-> NoFn, asks |-> NoFn, retrievalAsks |-> NoFn, funds |-> NoFn,
               retrievals |-> NoFn, channels |-> NoFn, msgs |-> NoFn]

StoresInit == repository \in Repositories /\ badger = EmptyStore /\ mysql = EmptyStore

-----------------------------------------------------------------------------
\* Columns.

\* DBCid, DBAddress: a nil pointer is the empty string.
Column(p) == IF p = None THEN "" ELSE p
Pointer(c) == IF c = "" THEN None ELSE c

\* ChannelID: a nil channel id has no initiator.
ChannelColumns(ch) == IF ch = None THEN [Initiator |-> "", ID |-> 0] ELSE ch
ChannelPointer(cols) == IF cols.Initiator = "" THEN None ELSE cols

\* A label is a string or bytes; the column is a string, and bytes that are
\* valid UTF-8 come back as a string.
LabelColumn(l) == IF l = "bytes" THEN "not utf8" ELSE "utf8"
LabelOf(c) == IF c = "utf8" THEN "string" ELSE "bytes"

-----------------------------------------------------------------------------
\* Storage deals.

DealStates == {"Sealing", "Active"}
PieceStatuses == {"Undefine", "Proving"}

\* The cid of the publish message.
SomeCid == CHOOSE c \in Cids : TRUE

\* What the proposal of d says, with the fields that change.
MinerDeal(d, st, ps, pub) ==
  [ProposalCid |-> d, Provider |-> Provider[d], PieceCID |-> PieceCID[d], Label |-> Label[d],
   Root |-> Root[d], RefPieceCid |-> IF d \in Peerless THEN PieceCID[d] ELSE None,
   Client |-> IF d \in Peerless THEN "" ELSE "peer", State |-> st, PieceStatus |-> ps,
   DealID |-> IF pub THEN 1 ELSE 0, PublishCid |-> IF pub THEN SomeCid ELSE None,
   TransferChannelID |-> IF d \in Peerless THEN None ELSE [Initiator |-> "peer", ID |-> 1]]

MinerDeals(d) == {MinerDeal(d, st, ps, pub) : st \in DealStates, ps \in PieceStatuses, pub \in BOOLEAN}

fromStorageDeal(src) ==
  [src EXCEPT !.Label = LabelColumn(@), !.PublishCid = Column(@), !.RefPieceCid = Column(@),
              !.TransferChannelID = ChannelColumns(@)]

toStorageDeal(row) ==
  [row EXCEPT !.Label = LabelOf(@), !.PublishCid = Pointer(@), !.RefPieceCid = Pointer(@),
              !.TransferChannelID = ChannelPointer(@)]

\* decodePeerId takes no empty id.
Decodes(row) == row.Client # ""

BadgerSaveDeal(d) == [badger EXCEPT !.deals = PutKey(@, d.ProposalCid, d)]
MysqlSaveDeal(d) == [mysql EXCEPT !.deals = PutKey(@, d.ProposalCid, fromStorageDeal(d))]

\* A status of Unknown, or an empty piece status, is left alone.
Updated(r, st, ps) == [r EXCEPT !.State = IF st = "Unknown" THEN @ ELSE st,
                                !.PieceStatus = IF ps = "" THEN @ ELSE ps]

BadgerUpdateDealStatus(k, st, ps) ==
  IF k \in DOMAIN badger.deals
  THEN BadgerSaveDeal(Updated(badger.deals[k], st, ps)) ELSE badger

\* Mutant: the state column is always written.
MutantMysqlUpdateDealStatus(k, st, ps) ==
  IF k \in DOMAIN mysql.deals
  THEN [mysql EXCEPT !.deals[k].State = st, !.deals[k].PieceStatus = IF ps = "" THEN @ ELSE ps]
  ELSE mysql

MysqlUpdateDealStatus(k, st, ps) ==
  IF k \in DOMAIN mysql.deals
  THEN [mysql EXCEPT !.deals[k] = Updated(@, st, ps)] ELSE mysql

SaveStorageDeal ==
  \E k \in StoredDeals : \E d \in MinerDeals(k) :
    badger' = BadgerSaveDeal(d) /\ mysql' = MysqlSaveDeal(d)

UpdateStorageDealStatus ==
  \E k \in StoredDeals, st \in DealStates \cup {"Unknown"}, ps \in PieceStatuses \cup {""} :
    /\ badger' = BadgerUpdateDealStatus(k, st, ps)
    /\ mysql' = MysqlUpdateDealStatus(k, st, ps)

\* travelDeals: the records that a callback sees, one after the other.
travelDeals == Range(badger.deals)

\* The rows, and fromDbDeals: one that cannot be converted fails the query.
DealRows == Range(mysql.deals)
FromDbDeals(rows) == {toStorageDeal(r) : r \in rows}
AllDecode(rows) == \A r \in rows : Decodes(r)

BadgerGetDeal(k) == {d \in travelDeals : d.ProposalCid = k}
MysqlGetDeal(k) == {r \in DealRows : r.ProposalCid = k}

\* The records of a page, in the order of the field key: those with at least offset
\* smaller ones before them, as many as limit.
PageOf(all, key, offset, limit) ==
  {d \in all : LET before == Cardinality({e \in all : e[key] < d[key]})
               IN offset <= before /\ before < offset + limit}

\* GetDeals: badger pages through the deals of the miner in key order, MySQL
\* sets offset and limit after Find has run, and returns them all.
BadgerGetDeals(m, pageIndex, pageSize) ==
  PageOf({d \in travelDeals : d.Provider = m}, "ProposalCid", pageIndex * pageSize, pageSize)
MysqlGetDeals(m, pageIndex, pageSize) == {r \in DealRows : r.Provider = m}

BadgerGetDealsByPieceCidAndStatus(p, sts) ==
  {d \in travelDeals : d.PieceCID = p /\ d.State \in sts}
MysqlGetDealsByPieceCidAndStatus(p, sts) ==
  {r \in DealRows : r.PieceCID = p /\ r.State \in sts}

\* No miner is None.
BadgerGetDealsByDataCidAndDealStatus(m, root, pss) ==
  {d \in travelDeals : (m = None \/ d.Provider = m) /\ d.Root = root /\ d.PieceStatus \in pss}
MysqlGetDealsByDataCidAndDealStatus(m, root, pss) ==
  {r \in DealRows : (m = None \/ r.Provider = m) /\ r.Root = root /\ (pss = {} \/ r.PieceStatus \in pss)}

BadgerGetDealByAddrAndStatus(m, sts) ==
  {d \in travelDeals : (m = None \/ d.Provider = m) /\ d.State \in sts}
MysqlGetDealByAddrAndStatus(m, sts) ==
  {r \in DealRows : (m = None \/ r.Provider = m) /\ (sts = {} \/ r.State \in sts)}

BadgerListDealByAddr(m) == {d \in travelDeals : d.Provider = m}
BadgerListDeal == travelDeals
MysqlListDealByAddr(m) == {r \in DealRows : r.Provider = m}

\* The id of a deal of a piece; sector, offset and length go with it unchanged.
PieceDeal(d) == d.DealID
BadgerGetPieceInfo(p) == {PieceDeal(d) : d \in {e \in travelDeals : e.PieceCID = p}}
MysqlGetPieceInfo(p) == {r \in DealRows : r.PieceCID = p}

BadgerListPieceInfoKeys == {d.PieceCID : d \in travelDeals}
MysqlListPieceInfoKeys == {r.PieceCID : r \in DealRows}

BadgerGetDealByDealID(m, id) == {d \in travelDeals : d.Provider = m /\ d.DealID = id}
MysqlGetDealByDealID(m, id) == {r \in DealRows : r.Provider = m /\ r.DealID = id}

BadgerGetDealsByPieceStatus(m, ps) ==
  {d \in travelDeals : d.PieceStatus = ps /\ (m = None \/ d.Provider = m)}
MysqlGetDealsByPieceStatus(m, ps) ==
  {r \in DealRows : r.PieceStatus = ps /\ (m = None \/ r.Provider = m)}

BadgerGetPieceSize(p) == {d.ProposalCid : d \in {e \in travelDeals : e.PieceCID = p}}
MysqlGetPieceSize(p) == {r.ProposalCid : r \in {q \in DealRows : q.PieceCID = p}}

-----------------------------------------------------------------------------
\* CID infos: where the blocks of a payload are.

Locations == 1..2

\* AddPieceBlockLocations: badger adds a location that it does not have yet,
\* MySQL keeps one per piece and payload, the last.
BadgerAddPieceBlockLocations(piece, locs) ==
  [badger EXCEPT !.cids =
     [c \in DOMAIN @ \cup DOMAIN locs |->
        (IF c \in DOMAIN @ THEN @[c] ELSE {})
        \cup (IF c \in DOMAIN locs THEN {[PieceCID |-> piece, loc |-> locs[c]]} ELSE {})]]

MysqlAddPieceBlockLocations(piece, locs) ==
  [mysql EXCEPT !.cids =
     [k \in DOMAIN @ \cup {<<piece, c>> : c \in DOMAIN locs} |->
        IF k[1] = piece /\ k[2] \in DOMAIN locs THEN locs[k[2]] ELSE @[k]]]

AddPieceBlockLocations ==
  \E piece \in Pieces, some \in (SUBSET Payloads) \ {{}} : \E locs \in [some -> Locations] :
    /\ badger' = BadgerAddPieceBlockLocations(piece, locs)
    /\ mysql' = MysqlAddPieceBlockLocations(piece, locs)

BadgerGetCIDInfo(c) == IF c \in DOMAIN badger.cids THEN badger.cids[c] ELSE {}

\* One row, whichever comes first; without one, a location in no piece.
MysqlGetCIDInfo(c) ==
  LET rows == {k \in DOMAIN mysql.cids : k[2] = c} IN
  IF rows = {} THEN {[PieceCID |-> "", loc |-> 0]}
  ELSE {[PieceCID |-> k[1], loc |-> mysql.cids[k]] : k \in rows}

BadgerListCidInfoKeys == DOMAIN badger.cids
MysqlListCidInfoKeys == {k[2] : k \in DOMAIN mysql.cids}

-----------------------------------------------------------------------------
\* Asks and funded addresses: one record for each address.

SignedAsks(m) == [Miner : {m}, Price : {None, 1}, SeqNo : {0, 1}, Signature : {None, "sig"}]

\* convertBigInt: a nil price is 0; an ask without signature data has none.
BigColumn(v) == IF v = None THEN 0 ELSE v
fromStorageAsk(a) == [a EXCEPT !.Price = BigColumn(@), !.Signature = Column(@)]
toStorageAsk(row) == [row EXCEPT !.Signature = Pointer(@)]

\* The encoding of badger writes a nil number as 0 as well.
Encoded(a) == [a EXCEPT !.Price = BigColumn(@)]

BadgerSetAsk(a) == [badger EXCEPT !.asks = PutKey(@, a.Miner, Encoded(a))]
MysqlSetAsk(a) == [mysql EXCEPT !.asks = PutKey(@, a.Miner, fromStorageAsk(a))]

SetAsk == \E m \in Miners : \E a \in SignedAsks(m) : badger' = BadgerSetAsk(a) /\ mysql' = MysqlSetAsk(a)

BadgerListAsk == Range(badger.asks)
MysqlListAsk == {toStorageAsk(r) : r \in Range(mysql.asks)}
BadgerGetAsk(m) == Taken(badger.asks, m)
MysqlGetAsk(m) == {toStorageAsk(r) : r \in Taken(mysql.asks, m)}

\* StorageAsk.SetAsk: a new ask under the sequence number of the stored one,
\* which no ask ever raises, and signed.
NewAsk(m, price, stored) ==
  [Miner |-> m, Price |-> price, Signature |-> "sig",
   SeqNo |-> IF stored = {} THEN 0 ELSE (CHOOSE a \in stored : TRUE).SeqNo]

StorageAskSetAsk ==
  \E m \in Miners, price \in 0..1 :
    /\ badger' = BadgerSetAsk(NewAsk(m, price, BadgerGetAsk(m)))
    /\ mysql' = MysqlSetAsk(NewAsk(m, price, MysqlGetAsk(m)))

RetrievalAsks(m) == [Miner : {m}, PricePerByte : {None, 1}, PaymentInterval : 0..1]

BadgerSetRetrievalAsk(a) ==
  [badger EXCEPT !.retrievalAsks = PutKey(@, a.Miner, [a EXCEPT !.PricePerByte = BigColumn(@)])]
MysqlSetRetrievalAsk(a) ==
  [mysql EXCEPT !.retrievalAsks = PutKey(@, a.Miner, [a EXCEPT !.PricePerByte = BigColumn(@)])]

SetRetrievalAsk ==
  \E m \in Miners : \E a \in RetrievalAsks(m) :
    badger' = BadgerSetRetrievalAsk(a) /\ mysql' = MysqlSetRetrievalAsk(a)

BadgerListRetrievalAsk == Range(badger.retrievalAsks)
MysqlListRetrievalAsk == Range(mysql.retrievalAsks)
BadgerGetRetrievalAsk(m) == Taken(badger.retrievalAsks, m)
MysqlGetRetrievalAsk(m) == Taken(mysql.retrievalAsks, m)

FundedAddressStates(a) == [Addr : {a}, AmtReserved : 0..1, MsgCid : {None} \cup Cids]

fromFundedAddressState(s) == [s EXCEPT !.MsgCid = Column(@)]
toFundedAddressState(row) == [row EXCEPT !.MsgCid = Pointer(@)]

BadgerSaveFundedAddressState(s) == [badger EXCEPT !.funds = PutKey(@, s.Addr, s)]
MysqlSaveFundedAddressState(s) == [mysql EXCEPT !.funds = PutKey(@, s.Addr, fromFundedAddressState(s))]

SaveFundedAddressState ==
  \E a \in Addrs : \E s \in FundedAddressStates(a) :
    badger' = BadgerSaveFundedAddressState(s) /\ mysql' = MysqlSaveFundedAddressState(s)

BadgerListFundedAddressState == Range(badger.funds)
MysqlListFundedAddressState == {toFundedAddressState(r) : r \in Range(mysql.funds)}
BadgerGetFundedAddressState(a) == Taken(badger.funds, a)
MysqlGetFundedAddressState(a) == {toFundedAddressState(r) : r \in Taken(mysql.funds, a)}

-----------------------------------------------------------------------------
\* Retrieval deals, by receiver and id.

RetrievalDeals ==
  [Receiver : {"peer"}, ID : 1..2, PieceCID : {None} \cup Cids, Status : {"New", "Ongoing"},
   ChannelID : {None} \cup [Initiator : {"peer"}, ID : 1..2]]

fromProviderDealState(d) == [d EXCEPT !.PieceCID = Column(@), !.ChannelID = ChannelColumns(@)]
toProviderDealState(row) == [row EXCEPT !.PieceCID = Pointer(@), !.ChannelID = ChannelPointer(@)]

BadgerSaveRetrievalDeal(d) == [badger EXCEPT !.retrievals = PutKey(@, d.ID, d)]
MysqlSaveRetrievalDeal(d) == [mysql EXCEPT !.retrievals = PutKey(@, d.ID, fromProviderDealState(d))]

SaveRetrievalDeal ==
  \E d \in RetrievalDeals : badger' = BadgerSaveRetrievalDeal(d) /\ mysql' = MysqlSaveRetrievalDeal(d)

BadgerGetRetrievalDeal(id) == Taken(badger.retrievals, id)
MysqlGetRetrievalDeal(id) == {toProviderDealState(r) : r \in Taken(mysql.retrievals, id)}
BadgerHasDeal(id) == id \in DOMAIN badger.retrievals
MysqlHasDeal(id) == \E r \in Range(mysql.retrievals) : r.ID = id

BadgerGetDealByTransferId(ch) == {d \in Range(badger.retrievals) : d.ChannelID = ch}
MysqlGetDealByTransferId(ch) ==
  {toProviderDealState(r) : r \in {q \in Range(mysql.retrievals) : q.ChannelID = ch}}

\* Badger ignores the page; MySQL counts pages from 1.
BadgerListDeals(pageIndex, pageSize) == Range(badger.retrievals)
MysqlListDeals(pageIndex, pageSize) ==
  {toProviderDealState(r) :
     r \in PageOf(Range(mysql.retrievals), "ID", (pageIndex - 1) * pageSize, pageSize)}

-----------------------------------------------------------------------------
\* Payment channels and their messages.

ChannelInfos(id) ==
  [ChannelID : {id}, Direction : {"out"}, Target : Addrs, Channel : {None} \cup Addrs,
   CreateMsg : {None, "create"}, AddFundsMsg : {None, "add"}, Settling : BOOLEAN]
  \cup [ChannelID : {id}, Direction : {"in"}, Target : Addrs, Channel : Addrs,
        CreateMsg : {None}, AddFundsMsg : {None}, Settling : BOOLEAN]

fromChannelInfo(ci) ==
  [info |-> [ci EXCEPT !.Channel = Column(@), !.CreateMsg = Column(@), !.AddFundsMsg = Column(@)],
   is_deleted |-> FALSE]
toChannelInfo(row) ==
  [row.info EXCEPT !.Channel = Pointer(@), !.CreateMsg = Pointer(@), !.AddFundsMsg = Pointer(@)]

\* A nil address cannot be encoded: badger writes a stand-in for it.
marshallChannelInfo(ci) == [ci EXCEPT !.Channel = IF @ = None THEN EmptyAddr ELSE @]
unmarshallChannelInfo(ci) == [ci EXCEPT !.Channel = IF @ = EmptyAddr THEN None ELSE @]

BadgerSaveChannel(ci) == [badger EXCEPT !.channels = PutKey(@, ci.ChannelID, marshallChannelInfo(ci))]
MysqlSaveChannel(ci) == [mysql EXCEPT !.channels = PutKey(@, ci.ChannelID, fromChannelInfo(ci))]

\* MySQL keeps removed rows, so its keys are the ids given so far.
Known == DOMAIN mysql.channels

\* SaveChannel gives a new channel an id.  A caller saves what it read
\* earlier, so a removed channel may be saved again.
SaveChannel ==
  \E id \in Known \cup ({Cardinality(Known) + 1} \cap (1..MaxChannels)) : \E ci \in ChannelInfos(id) :
    badger' = BadgerSaveChannel(ci) /\ mysql' = MysqlSaveChannel(ci)

SavedMessage(st, m) == [st EXCEPT !.msgs = PutKey(@, m.MsgCid, m)]

\* CreateChannel: the channel, then a reference to its message.
BadgerCreateChannel(ci, msg) == SavedMessage(BadgerSaveChannel(ci), msg)
MysqlCreateChannel(ci, msg) == SavedMessage(MysqlSaveChannel(ci), msg)

CreateChannel ==
  /\ Cardinality(Known) < MaxChannels
  /\ \E to \in Addrs :
       LET id == Cardinality(Known) + 1
           ci == [ChannelID |-> id, Direction |-> "out", Target |-> to, Channel |-> None,
                  CreateMsg |-> "create", AddFundsMsg |-> None, Settling |-> FALSE]
           msg == [MsgCid |-> "create", ChannelID |-> id, Received |-> FALSE, Err |-> ""]
       IN badger' = BadgerCreateChannel(ci, msg) /\ mysql' = MysqlCreateChannel(ci, msg)

\* SaveMessage of an add-funds message.
SaveMessage ==
  \E id \in Known :
    LET msg == [MsgCid |-> "add", ChannelID |-> id, Received |-> FALSE, Err |-> ""] IN
    badger' = SavedMessage(badger, msg) /\ mysql' = SavedMessage(mysql, msg)

\* An unknown message is an error in badger and no row in MySQL.
SavedMessageResult(st, c, err) ==
  IF c \notin DOMAIN st.msgs THEN st
  ELSE [st EXCEPT !.msgs[c].Received = TRUE, !.msgs[c].Err = IF err = "" THEN @ ELSE err]

SaveMessageResult ==
  \E c \in {"create", "add"}, err \in {"", "failed"} :
    badger' = SavedMessageResult(badger, c, err) /\ mysql' = SavedMessageResult(mysql, c, err)

BadgerRemoveChannel(id) == [badger EXCEPT !.channels = DropKey(@, id)]
MysqlRemoveChannel(id) ==
  IF id \in Known /\ ~mysql.channels[id].is_deleted
  THEN [mysql EXCEPT !.channels[id].is_deleted = TRUE] ELSE mysql

RemoveChannel == \E id \in Known : badger' = BadgerRemoveChannel(id) /\ mysql' = MysqlRemoveChannel(id)

\* findChans: the records that a filter sees; and the rows of MySQL with
\* is_deleted = 0, converted once they are found.
findChans == {unmarshallChannelInfo(r) : r \in Range(badger.channels)}
ChannelRows == {r \in Range(mysql.channels) : ~r.is_deleted}
ToChannelInfos(rows) == {toChannelInfo(r) : r \in rows}

BadgerGetChannelByAddress(a) == {ci \in findChans : ci.Channel = a}
MysqlGetChannelByAddress(a) == ToChannelInfos({r \in ChannelRows : r.info.Channel = a})

BadgerGetChannelByChannelID(id) == {ci \in findChans : ci.ChannelID = id}
MysqlGetChannelByChannelID(id) == ToChannelInfos({r \in ChannelRows : r.info.ChannelID = id})

BadgerGetChannelByMessageCid(c) ==
  {ci \in findChans : c \in DOMAIN badger.msgs /\ ci.ChannelID = badger.msgs[c].ChannelID}
MysqlGetChannelByMessageCid(c) ==
  ToChannelInfos({r \in ChannelRows : c \in DOMAIN mysql.msgs /\ r.info.ChannelID = mysql.msgs[c].ChannelID})

BadgerOutboundActiveByFromTo(to) ==
  {ci \in findChans : ci.Direction = "out" /\ ~ci.Settling /\ ci.Target = to}
MysqlOutboundActiveByFromTo(to) ==
  ToChannelInfos({r \in ChannelRows : r.info.Direction = "out" /\ ~r.info.Settling /\ r.info.Target = to})

BadgerListChannel == {ci.Channel : ci \in findChans} \ {None}
MysqlListChannel == {ci.Channel : ci \in ToChannelInfos({r \in ChannelRows : r.info.Channel # ""})}

BadgerWithPendingAddFunds ==
  {ci \in findChans : ci.Direction = "out" /\ (ci.CreateMsg # None \/ ci.AddFundsMsg # None)}
MysqlWithPendingAddFunds ==
  ToChannelInfos({r \in ChannelRows : r.info.Direction = "out" /\ (r.info.CreateMsg # "" \/ r.info.AddFundsMsg # "")})

-----------------------------------------------------------------------------
StoresNext ==
  /\ UNCHANGED repository
  /\ \/ repository = "storage deals" /\ (SaveStorageDeal \/ UpdateStorageDealStatus)
     \/ repository = "cid infos" /\ AddPieceBlockLocations
     \/ repository = "asks" /\ (SetAsk \/ StorageAskSetAsk \/ SetRetrievalAsk)
     \/ repository = "funds" /\ SaveFundedAddressState
     \/ repository = "retrieval deals" /\ SaveRetrievalDeal
     \/ repository = "channels" /\ (\/ SaveChannel \/ CreateChannel \/ SaveMessage
                                    \/ SaveMessageResult \/ RemoveChannel)

StoresSpec == StoresInit /\ [][StoresNext]_storeVars

-----------------------------------------------------------------------------
\* A label of bytes that are valid UTF-8 is a string label after MySQL.
AsString(d) == [d EXCEPT !.Label = IF @ = "utf8 bytes" THEN "string" ELSE @]

\* MySQL's rows give badger's deals, or a row without a peer id fails them all.
SameDeals(deals, rows) == AllDecode(rows) => FromDbDeals(rows) = {AsString(d) : d \in deals}

SomeMiner == Miners \cup {None}

DealsAgree ==
  /\ \A k \in StoredDeals : SameDeals(BadgerGetDeal(k), MysqlGetDeal(k))
  /\ \A m \in Miners, size \in 1..2 :
       SameDeals(UNION {BadgerGetDeals(m, i, size) : i \in 0..Cardinality(StoredDeals)},
                 MysqlGetDeals(m, 0, size))
  /\ \A p \in Pieces, sts \in SUBSET DealStates :
       SameDeals(BadgerGetDealsByPieceCidAndStatus(p, sts), MysqlGetDealsByPieceCidAndStatus(p, sts))
  /\ \A m \in SomeMiner, c \in Payloads, pss \in (SUBSET PieceStatuses) \ {{}} :
       SameDeals(BadgerGetDealsByDataCidAndDealStatus(m, c, pss),
                 MysqlGetDealsByDataCidAndDealStatus(m, c, pss))
  /\ \A m \in SomeMiner, sts \in (SUBSET DealStates) \ {{}} :
       SameDeals(BadgerGetDealByAddrAndStatus(m, sts), MysqlGetDealByAddrAndStatus(m, sts))
  /\ \A m \in Miners : SameDeals(BadgerListDealByAddr(m), MysqlListDealByAddr(m))
  /\ SameDeals(BadgerListDeal, Range(mysql.deals))
  /\ \A p \in Pieces :
       /\ AllDecode(MysqlGetPieceInfo(p)) =>
            {PieceDeal(d) : d \in FromDbDeals(MysqlGetPieceInfo(p))} = BadgerGetPieceInfo(p)
       /\ BadgerGetPieceSize(p) = MysqlGetPieceSize(p)
  /\ BadgerListPieceInfoKeys = MysqlListPieceInfoKeys
  /\ \A m \in Miners, id \in 0..1 : SameDeals(BadgerGetDealByDealID(m, id), MysqlGetDealByDealID(m, id))
  /\ \A m \in SomeMiner, ps \in PieceStatuses :
       SameDeals(BadgerGetDealsByPieceStatus(m, ps), MysqlGetDealsByPieceStatus(m, ps))

CidInfosAgree ==
  /\ BadgerListCidInfoKeys = MysqlListCidInfoKeys
  /\ \A c \in BadgerListCidInfoKeys : MysqlGetCIDInfo(c) \subseteq BadgerGetCIDInfo(c)

AsksAndFundsAgree ==
  /\ BadgerListAsk = MysqlListAsk
  /\ BadgerListRetrievalAsk = MysqlListRetrievalAsk
  /\ BadgerListFundedAddressState = MysqlListFundedAddressState
  /\ \A m \in Miners : BadgerGetAsk(m) = MysqlGetAsk(m) /\ BadgerGetRetrievalAsk(m) = MysqlGetRetrievalAsk(m)
  /\ \A a \in Addrs : BadgerGetFundedAddressState(a) = MysqlGetFundedAddressState(a)

RetrievalDealsAgree ==
  /\ \A id \in 1..2 : /\ BadgerGetRetrievalDeal(id) = MysqlGetRetrievalDeal(id)
                      /\ BadgerHasDeal(id) <=> MysqlHasDeal(id)
  /\ \A ch \in [Initiator : {"peer"}, ID : 1..2] : BadgerGetDealByTransferId(ch) = MysqlGetDealByTransferId(ch)
  /\ \A size \in 1..2 : UNION {MysqlListDeals(i, size) : i \in 1..2} = BadgerListDeals(0, size)

ChannelsAgree ==
  /\ \A a \in Addrs : /\ BadgerGetChannelByAddress(a) = MysqlGetChannelByAddress(a)
                      /\ BadgerOutboundActiveByFromTo(a) = MysqlOutboundActiveByFromTo(a)
  /\ \A id \in 1..MaxChannels : BadgerGetChannelByChannelID(id) = MysqlGetChannelByChannelID(id)
  /\ \A c \in {"create", "add"} : BadgerGetChannelByMessageCid(c) = MysqlGetChannelByMessageCid(c)
  /\ BadgerListChannel = MysqlListChannel
  /\ BadgerWithPendingAddFunds = MysqlWithPendingAddFunds
  /\ badger.msgs = mysql.msgs

\* After any history of operations both stores answer every query alike.
\* What is known to differ is left out: a filter without statuses (nothing in
\* badger, everything in MySQL), a query for which a row without a peer id
\* fails in MySQL, byte labels that MySQL turns into strings, the other
\* pieces of a payload that is in several, which MySQL does not report, and
\* the pages of the lists, of which only the union is compared.
StoresAgree == DealsAgree /\ CidInfosAgree /\ AsksAndFundsAgree /\ RetrievalDealsAgree /\ ChannelsAgree
=============================================================================
