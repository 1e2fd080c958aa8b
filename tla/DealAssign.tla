----------------------------- MODULE DealAssign -----------------------------
(***************************************************************************)
(* The assignment of published deals to sectors (storageprovider/          *)
(* deal_assigner.go, deal_assign_util.go) over the deal store of badger or *)
(* MySQL.  Sealers call AssignUnPackedDeals, one call per sector; the call *)
(* reads the deals, lays them out, and saves each deal.  Badger's          *)
(* Transaction is no transaction: every save is visible at once and stays  *)
(* after an error.  MySQL's reads a snapshot and commits all saves at      *)
(* once.  Neither keeps other writers away, who read a record, change a    *)
(* field and save the record whole.  Sizes are in units of 128 bytes.      *)
(***************************************************************************)
EXTENDS Integers, FiniteSets, Sequences, SequencesExt

CONSTANTS
  Deals,          \* deals of the miner
  PieceSize,      \* Deals -> padded piece size, a power of two
  StartEpoch, EndEpoch, Price,
  Sectors,        \* sectors that ask for deals
  SectorSize,
  MaxBit,         \* no size is larger than 2^MaxBit units
  Specs,          \* the GetDealSpecs a sealer may send; a limit of 0 is none
  DealEditors,    \* goroutines that read, change and save a deal
  Backends,       \* "badger", "mysql"
  MaxRequests, MaxEdits, MaxSaveErrors

\* The powers of two, up to the first that no size reaches.
Pow2[j \in 0..MaxBit + 1] == IF j = 0 THEN 1 ELSE 2 * Pow2[j - 1]

Sizes == {Pow2[j] : j \in 0..MaxBit}

ASSUME DealAssignAssumption ==
  /\ IsFiniteSet(Deals) /\ MaxBit \in Nat
  /\ PieceSize \in [Deals -> Sizes] /\ SectorSize \in Sizes
  /\ \A spec \in Specs : spec.MaxPiece \in Int /\ spec.MinPiece \in Int
  /\ MaxRequests \in Nat /\ MaxEdits \in Nat /\ MaxSaveErrors \in Nat

VARIABLES
  backend,
  rec,       \* the stored deals: [id, cid, ended, status, sector, offset]
  req,       \* Sectors -> the running call: [pc, spec, snap, layout, todo]
  edit,      \* DealEditors -> [pc, deal, kind, copy]
  handed,    \* layouts returned to the sealers
  raced,     \* history: deals saved from a copy that was no longer stored
  reset,     \* history: deals a caller placed, or marked unpacked, itself
  requests, edits, saveErrors

assignVars == <<backend, rec, req, edit, handed, raced, reset, requests, edits, saveErrors>>

\* Packing stands for Proving too: nothing here tells them apart.
Statuses == {"Undefine", "Assigned", "Packing"}
NoSector == 0
EditKinds == {"publish", "fail", "mark", "place", "status", "track"}

DealRecords ==
  [id : BOOLEAN, cid : BOOLEAN, ended : BOOLEAN, status : Statuses,
   sector : Sectors \cup {NoSector}, offset : 0..SectorSize]

AssignTypeOK ==
  /\ backend \in Backends
  /\ rec \in [Deals -> DealRecords]
  /\ \A s \in Sectors : req[s].pc \in {"idle", "saving"} /\ req[s].snap \in [Deals -> DealRecords]
  /\ \A e \in DealEditors : edit[e].pc \in {"idle", "read"} /\ edit[e].copy \in DealRecords
  /\ raced \subseteq Deals /\ reset \subseteq Deals
  /\ requests \in 0..MaxRequests /\ edits \in 0..MaxEdits /\ saveErrors \in 0..MaxSaveErrors

NewDeal == [id |-> FALSE, cid |-> FALSE, ended |-> FALSE, status |-> "Undefine",
            sector |-> NoSector, offset |-> 0]

NoEdit == [pc |-> "idle", deal |-> CHOOSE d \in Deals : TRUE, kind |-> "mark",
           status |-> "Undefine", sector |-> NoSector, copy |-> NewDeal]

NoRequest == [pc |-> "idle", spec |-> CHOOSE sp \in Specs : TRUE, snap |-> [d \in Deals |-> NewDeal],
              layout |-> <<>>, todo |-> {}]

\* Deals have been published; one may have yet to be.
AssignInit ==
  /\ backend \in Backends
  /\ \E new \in SUBSET Deals :
       /\ Cardinality(new) <= 1
       /\ rec = [d \in Deals |-> [NewDeal EXCEPT !.id = d \notin new, !.cid = d \notin new]]
  /\ req = [s \in Sectors |-> NoRequest]
  /\ edit = [e \in DealEditors |-> NoEdit]
  /\ handed = {} /\ raced = {} /\ reset = {}
  /\ requests = 0 /\ edits = 0 /\ saveErrors = 0

-----------------------------------------------------------------------------
\* The layout of a sector.

\* The bits of n below limit, lowest first: nextAlignedPiece and
\* fillersFromRem take them one by one.
Fillers(n, limit) ==
  LET Bit(j) == (n \div Pow2[j]) % 2 = 1 /\ Pow2[j] < limit
      below[j \in 0..MaxBit + 1] ==
        IF j = 0 THEN <<>>
        ELSE below[j - 1] \o (IF Bit(j - 1) THEN <<Pow2[j - 1]>> ELSE <<>>)
  IN below[MaxBit + 1]

\* Sizes are padded; a deal's offset is summed unpadded and padded again.
Unpadded(size) == 127 * size
Padded(size) == size \div 127

Before(d, e) ==
  \/ PieceSize[d] < PieceSize[e]
  \/ PieceSize[d] = PieceSize[e] /\ StartEpoch[d] < StartEpoch[e]
  \/ PieceSize[d] = PieceSize[e] /\ StartEpoch[d] = StartEpoch[e] /\ Price[d] > Price[e]

\* What sort.Slice may make of a set of deals: it is not stable, so deals that
\* tie come in any order.
Sorted(ds) ==
  {order \in SetToSeqs(ds) : \A i, j \in DOMAIN order : i < j => ~Before(order[j], order[i])}

WithinSpec(d, spec) ==
  /\ spec.StartEpoch > 0 => StartEpoch[d] > spec.StartEpoch
  /\ spec.EndEpoch > 0 => EndEpoch[d] < spec.EndEpoch
  /\ spec.MinPieceSize > 0 => PieceSize[d] >= spec.MinPieceSize
  /\ spec.MaxPieceSize > 0 => PieceSize[d] <= spec.MaxPieceSize

ZeroPiece(size) == [deal |-> {}, size |-> size, offset |-> 0]

\* Mutant: a deal is put where the last one ended, aligned or not.
MutantPlaceDeal(spec, acc, d) ==
  IF \/ acc.full
     \/ spec.MaxPiece > 0 /\ acc.deals >= spec.MaxPiece
     \/ PieceSize[d] > acc.space
  THEN [acc EXCEPT !.full = TRUE]
  ELSE [full |-> FALSE, deals |-> acc.deals + 1, used |-> acc.used + PieceSize[d],
        space |-> acc.space - PieceSize[d], offset |-> acc.offset + Unpadded(PieceSize[d]),
        res |-> acc.res \o <<[deal |-> {d}, size |-> PieceSize[d], offset |-> Padded(acc.offset)]>>]

\* One turn of the loop of pickAndAlign: zero pieces until the deal is
\* aligned, then the deal; the first deal that does not fit ends the loop.
PlaceDeal(spec, acc, d) ==
  LET zeros == Fillers(acc.space, PieceSize[d])
      skipped == SumFunction(zeros)
      at == acc.offset + Unpadded(skipped)
  IN IF \/ acc.full
        \/ spec.MaxPiece > 0 /\ acc.deals >= spec.MaxPiece
        \/ PieceSize[d] > acc.space
     THEN [acc EXCEPT !.full = TRUE]
     ELSE [full |-> FALSE, deals |-> acc.deals + 1, used |-> acc.used + PieceSize[d],
           space |-> acc.space - skipped - PieceSize[d],
           offset |-> at + Unpadded(PieceSize[d]),
           res |-> acc.res \o [i \in DOMAIN zeros |-> ZeroPiece(zeros[i])]
                     \o <<[deal |-> {d}, size |-> PieceSize[d], offset |-> Padded(at)]>>]

NothingPlaced == [full |-> FALSE, deals |-> 0, used |-> 0, space |-> SectorSize, offset |-> 0, res |-> <<>>]

\* The loop of pickAndAlign over the deals of order.
PlaceDeals(order, spec) ==
  LET upTo[n \in 0..Len(order)] ==
        IF n = 0 THEN NothingPlaced ELSE PlaceDeal(spec, upTo[n - 1], order[n])
  IN upTo[Len(order)]

\* pickAndAlign, given the deals within the spec in their order.
pickAndAlign(order, spec) ==
  LET out == PlaceDeals(order, spec)
      rest == Fillers(out.space, Pow2[MaxBit + 1])
  IN IF \/ out.res = <<>>
        \/ spec.MinPiece > 0 /\ out.deals < spec.MinPiece
        \/ spec.MinUsedSpace > 0 /\ out.used < spec.MinUsedSpace
     THEN <<>>
     ELSE out.res \o [i \in DOMAIN rest |-> ZeroPiece(rest[i])]

DealsIn(layout) == UNION {layout[i].deal : i \in DOMAIN layout}
OffsetOf(layout, d) == layout[CHOOSE i \in DOMAIN layout : layout[i].deal = {d}].offset

-----------------------------------------------------------------------------
\* AssignUnPackedDeals.

\* GetDealsByPieceStatus(Undefine), without deals that have no id or are over.
UnPackedDeals ==
  {d \in Deals : rec[d].status = "Undefine" /\ rec[d].id /\ ~rec[d].ended}

\* A deal without a publish cid is dereferenced: the call panics, whatever
\* other deals there are.
AssignPicks(s, spec) ==
  /\ req[s].pc = "idle" /\ requests < MaxRequests
  /\ requests' = requests + 1
  /\ \E order \in Sorted({d \in UnPackedDeals : WithinSpec(d, spec)}) :
       LET layout == IF \A d \in UnPackedDeals : rec[d].cid THEN pickAndAlign(order, spec) ELSE <<>>
       IN req' = IF layout = <<>> THEN req
                 ELSE [req EXCEPT ![s] = [pc |-> "saving", spec |-> spec, snap |-> rec,
                                          layout |-> layout, todo |-> DealsIn(layout)]]
  /\ UNCHANGED <<backend, rec, edit, handed, raced, reset, edits, saveErrors>>

\* Mutant: the deal keeps its status.
MutantAssignedRecord(s, r, d) ==
  [r EXCEPT !.offset = OffsetOf(req[s].layout, d), !.sector = s]

AssignedRecord(s, r, d) ==
  [r EXCEPT !.status = "Assigned", !.offset = OffsetOf(req[s].layout, d), !.sector = s]

\* Badger: the record is read again and saved; deals in the order laid out.
AssignSaves(s) ==
  /\ req[s].pc = "saving" /\ backend = "badger" /\ req[s].todo # {}
  /\ \E i \in DOMAIN req[s].layout : \E d \in req[s].layout[i].deal \cap req[s].todo :
       /\ \A j \in 1..i - 1 : req[s].layout[j].deal \cap req[s].todo = {}
       /\ rec' = [rec EXCEPT ![d] = AssignedRecord(s, rec[d], d)]
       /\ raced' = IF rec[d].status = "Undefine" THEN raced ELSE raced \cup {d}
       /\ req' = [req EXCEPT ![s].todo = @ \ {d}]
  /\ UNCHANGED <<backend, edit, handed, reset, requests, edits, saveErrors>>

\* MySQL: the records of the snapshot are saved and committed together.
AssignCommits(s) ==
  /\ req[s].pc = "saving" /\ backend = "mysql" /\ req[s].todo # {}
  /\ rec' = [d \in Deals |->
               IF d \in req[s].todo THEN AssignedRecord(s, req[s].snap[d], d) ELSE rec[d]]
  /\ raced' = raced \cup {d \in req[s].todo : rec[d] # req[s].snap[d]}
  /\ req' = [req EXCEPT ![s].todo = {}]
  /\ UNCHANGED <<backend, edit, handed, reset, requests, edits, saveErrors>>

\* A save fails: the call fails, and what badger has saved stays.
AssignFails(s) ==
  /\ req[s].pc = "saving" /\ req[s].todo # {} /\ saveErrors < MaxSaveErrors
  /\ saveErrors' = saveErrors + 1
  /\ req' = [req EXCEPT ![s] = NoRequest]
  /\ UNCHANGED <<backend, rec, edit, handed, raced, reset, requests, edits>>

AssignReturns(s) ==
  /\ req[s].pc = "saving" /\ req[s].todo = {}
  /\ handed' = handed \cup {[sector |-> s, spec |-> req[s].spec, layout |-> req[s].layout,
                             from |-> {d \in Deals : req[s].snap[d].status = "Undefine"
                                                     /\ req[s].snap[d].id /\ ~req[s].snap[d].ended}]}
  /\ req' = [req EXCEPT ![s] = NoRequest]
  /\ UNCHANGED <<backend, rec, edit, raced, reset, requests, edits, saveErrors>>

-----------------------------------------------------------------------------
\* The other writers of a deal: deal processing (publish, fail), the sealer's
\* MarkDealsAsPacking, UpdateDealOnPacking and UpdateDealStatus, and the deal
\* tracker through the store's UpdateDealStatus.

EditReads(e, d, kind, st, s) ==
  /\ edit[e].pc = "idle" /\ edits < MaxEdits
  /\ kind \in {"mark", "place", "status", "track"} => rec[d].id
  /\ kind = "publish" => ~rec[d].id
  /\ edits' = edits + 1
  /\ edit' = [edit EXCEPT ![e] = [pc |-> "read", deal |-> d, kind |-> kind, status |-> st,
                                  sector |-> s, copy |-> rec[d]]]
  /\ UNCHANGED <<backend, rec, req, handed, raced, reset, requests, saveErrors>>

Edited(r, kind, st, s) ==
  CASE kind = "publish" -> [r EXCEPT !.id = TRUE, !.cid = TRUE]
    [] kind = "fail" -> [r EXCEPT !.ended = TRUE]
    [] kind = "mark" -> [r EXCEPT !.status = "Assigned"]
    [] kind = "place" -> [r EXCEPT !.status = "Assigned", !.sector = s, !.offset = 0]
    [] kind \in {"status", "track"} -> [r EXCEPT !.status = st]

\* MySQL's UpdateDealStatus sets columns; every other save is of the record.
EditSaves(e) ==
  /\ edit[e].pc = "read"
  /\ LET d == edit[e].deal
         whole == ~(backend = "mysql" /\ edit[e].kind = "track")
         base == IF whole THEN edit[e].copy ELSE rec[d]
     IN /\ rec' = [rec EXCEPT ![d] = Edited(base, edit[e].kind, edit[e].status, edit[e].sector)]
        /\ raced' = IF base = rec[d] THEN raced ELSE raced \cup {d}
        /\ reset' = IF edit[e].kind = "place" \/ (edit[e].kind = "status" /\ edit[e].status = "Undefine")
                    THEN reset \cup {d} ELSE reset
  /\ edit' = [edit EXCEPT ![e] = NoEdit]
  /\ UNCHANGED <<backend, req, handed, requests, edits, saveErrors>>

\* ImportPublishedDeal stores a deal with its id and no publish message.
ImportDeal(d) ==
  /\ ~rec[d].id /\ edits < MaxEdits
  /\ edits' = edits + 1
  /\ rec' = [rec EXCEPT ![d] = [NewDeal EXCEPT !.id = TRUE]]
  /\ raced' = raced \cup {edit[e].deal : e \in {x \in DealEditors : edit[x].pc = "read" /\ edit[x].deal = d}}
  /\ UNCHANGED <<backend, req, edit, handed, reset, requests, saveErrors>>

AssignNext ==
  \/ \E s \in Sectors :
       \/ \E spec \in Specs : AssignPicks(s, spec)
       \/ AssignSaves(s) \/ AssignCommits(s) \/ AssignFails(s) \/ AssignReturns(s)
  \/ \E e \in DealEditors :
       \/ \E d \in Deals : \E kind \in EditKinds :
            \/ /\ kind \in {"publish", "fail", "mark"}
               /\ EditReads(e, d, kind, "Undefine", NoSector)
            \/ kind = "place" /\ \E s \in Sectors : EditReads(e, d, kind, "Undefine", s)
            \/ kind = "status" /\ \E st \in Statuses : EditReads(e, d, kind, st, NoSector)
            \/ kind = "track" /\ EditReads(e, d, kind, "Packing", NoSector)
       \/ EditSaves(e)
  \/ \E d \in Deals : ImportDeal(d)

AssignSpec == AssignInit /\ [][AssignNext]_assignVars

-----------------------------------------------------------------------------
\* A deal goes to one sector, and its record names that sector and offset:
\* AssignUnPackedDeals hands a deal out twice, or forgets where it went, only
\* when a save overwrote a change its caller had not seen ("TODO: is this
\* concurrent safe?", deal_assigner.go) or a caller moved the deal itself.
PackedOnce ==
  \A h \in handed : \A d \in DealsIn(h.layout) :
    \/ d \in raced \cup reset
    \/ /\ \A g \in handed : d \in DealsIn(g.layout) => g = h
       /\ rec[d].status # "Undefine" /\ rec[d].sector = h.sector
       /\ rec[d].offset = OffsetOf(h.layout, d)

StartOf(layout, i) == SumFunctionOnSet([j \in DOMAIN layout |-> layout[j].size], 1..i - 1)

\* A layout of deals of from that is right for a sealer's spec: the pieces fill
\* the sector to the last byte, each starts at a multiple of its size, every
\* deal's offset is where it starts, the deals are within the sealer's limits,
\* and no eligible deal is left out that the space behind the last deal could
\* still hold.
FillsSector(l, spec, from) ==
  LET n == Cardinality(DealsIn(l))
      last == CHOOSE i \in DOMAIN l : l[i].deal # {} /\ \A j \in i + 1..Len(l) : l[j].deal = {}
      free == SectorSize - StartOf(l, last) - l[last].size
  IN /\ StartOf(l, Len(l) + 1) = SectorSize
     /\ \A i \in DOMAIN l :
          /\ StartOf(l, i) % l[i].size = 0
          /\ l[i].deal # {} => l[i].offset = StartOf(l, i)
          /\ \A d \in l[i].deal : WithinSpec(d, spec) /\ l[i].size = PieceSize[d]
     /\ n = Cardinality({i \in DOMAIN l : l[i].deal # {}})
     /\ spec.MaxPiece > 0 => n <= spec.MaxPiece
     /\ spec.MinPiece > 0 => n >= spec.MinPiece
     /\ \/ n = spec.MaxPiece
        \/ \A d \in from \ DealsIn(l) : WithinSpec(d, spec) => PieceSize[d] > free

\* What pickAndAlign returns is a sector, laid out from the deals that were
\* unpacked when it was called.
SectorFilled == \A h \in handed : FillsSector(h.layout, h.spec, h.from)
=============================================================================
