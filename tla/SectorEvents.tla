---------------------------- MODULE SectorEvents ----------------------------
(***************************************************************************)
(* How a storage client follows its deal on the chain: it validates the    *)
(* publish message (storageprovider/client.go), waits for the pre-commit   *)
(* and the prove-commit of a sector with the deal                          *)
(* (ondealsectorcommitted.go, currentdealinfo.go) and then for the deal to *)
(* expire or to be slashed (client.go, dealstatematcher.go).               *)
(*                                                                         *)
(* The chain is a sequence of tipsets with at most one message of interest *)
(* each.  A reorganisation replaces at most Confidence tipsets at its end. *)
(* The events service shows a handler the tipset at height h once the head *)
(* is Confidence above h, and, for tipsets applied after the handler was   *)
(* registered only: what is there already is the handler's check to see.   *)
(***************************************************************************)
EXTENDS Naturals, Sequences, FiniteSets, SequencesExt

CONSTANTS
  SectorNumbers,
  Confidence,     \* of the watchers: constants.MessageConfidence + 1
  StartEpoch,     \* of the deal proposal; the sector must be active by then
  EndEpoch,
  MaxHeight,      \* height at which the chain is no longer followed
  MaxReorgs, MaxMessages, MaxStateErrors

ASSUME SectorEventsAssumption ==
  /\ Confidence \in Nat \ {0} /\ StartEpoch \in Nat
  /\ MaxHeight \in Nat /\ MaxHeight > StartEpoch + 1 + Confidence

VARIABLES
  chain,     \* the tipsets of the canonical chain
  publisher, \* who sent the publish message: "control" or "stranger"
  stage,     \* what the client waits for
  dealID,    \* the deal id ValidatePublishedDeal returned; 0 before
  sector,    \* the sector the pre-commit callback reported; 0: none
  pre, com, end, \* the watchers: [on, next, told, late]; told is what the callback
             \* got, late that the watcher was registered after the timeout
  reorgs, stateErrors

sectorVars == <<chain, publisher, stage, dealID, sector, pre, com, end, reorgs, stateErrors>>

Stages == {"validate", "precommit", "commit", "active", "expired", "slashed", "error"}
Told == {"nothing", "sector", "active", "expired", "slashed", "error"}
Watchers == [on : BOOLEAN, next : 0..MaxHeight + 1, told : Told, late : BOOLEAN]
DealIDs == 1..3

\* The deals of the publish message, in its order.  The client's own deal
\* names the client by its key, the message may name it by its id.
Ours == [piece |-> "ours", client |-> "key"]
PublishedDeals == <<[piece |-> "other", client |-> "id"], [piece |-> "ours", client |-> "id"]>>

Tipsets ==
  [kind : {"none", "slash"}]
  \cup [kind : {"publish"}, base : {1, 2}, valid : SUBSET {1, 2}, ok : BOOLEAN]
  \cup [kind : {"precommit"}, ids : [SectorNumbers -> 0..3], ok : BOOLEAN]
  \cup [kind : {"commit"}, sectors : SUBSET SectorNumbers, ok : BOOLEAN, active : BOOLEAN]

NoWatcher == [on |-> FALSE, next |-> 1, told |-> "nothing", late |-> FALSE]

SectorTypeOK ==
  /\ chain \in Seq(Tipsets) /\ Len(chain) <= MaxHeight
  /\ stage \in Stages /\ dealID \in 0..3 /\ sector \in SectorNumbers \cup {0}
  /\ pre \in Watchers /\ com \in Watchers /\ end \in Watchers
  /\ reorgs \in 0..MaxReorgs /\ stateErrors \in 0..MaxStateErrors

-----------------------------------------------------------------------------
\* The chain.

ChainHead == Len(chain)

\* The publish message on chain c, and the id of its i-th deal: ids are
\* given to the valid deals in order.
Published(c) == {h \in 1..Len(c) : c[h].kind = "publish"}
ValidBefore(m, i) == Cardinality({j \in m.valid : j < i})
IdOf(m, i) == m.base + ValidBefore(m, i)
IdsOn(c) == UNION {{IdOf(c[h], i) : i \in c[h].valid} : h \in {g \in Published(c) : c[g].ok}}

\* The proposal the market actor keeps under an id, or {}.
ProposalOn(c, id) ==
  {PublishedDeals[i] : i \in {j \in 1..2 : \E h \in Published(c) : c[h].ok /\ j \in c[h].valid /\ IdOf(c[h], j) = id}}

PreCommitsOn(c) == {h \in 1..Len(c) : c[h].kind = "precommit" /\ c[h].ok}
SectorsWith(c, id) == {s \in SectorNumbers : \E h \in PreCommitsOn(c) : c[h].ids[s] = id}

\* The heights at which the deal became active and at which it was slashed.
ActivatedOn(c, id) ==
  {h \in 1..Len(c) : /\ c[h].kind = "commit" /\ c[h].ok /\ c[h].active
                     /\ \E s \in c[h].sectors : s \in SectorsWith(SubSeq(c, 1, h - 1), id)}
SlashedOn(c, id) ==
  {h \in 1..Len(c) : c[h].kind = "slash" /\ ActivatedOn(SubSeq(c, 1, h - 1), id) # {}}
HasState(c, id) == ActivatedOn(c, id) # {} /\ SlashedOn(c, id) = {}

OurIds(c) == {id \in DealIDs : \E p \in ProposalOn(c, id) : p.piece = Ours.piece}

Messages(c) == Cardinality({h \in 1..Len(c) : c[h].kind # "none"})

\* What may be executed after chain c.  A pre-commit names published deals,
\* each in one sector, and sectors are numbered in their order; only
\* pre-committed sectors are proven; a prove-commit may succeed and its sector
\* still not be activated.  One failed message of each kind is enough.
PreCommitted(c) == {s \in SectorNumbers : \E h \in PreCommitsOn(c) : c[h].ids[s] # 0}

PublishMessages(c) ==
  {m \in [kind : {"publish"}, base : {1, 2}, valid : {{1}, {2}, {1, 2}}, ok : BOOLEAN] :
     Published(c) = {} /\ (~m.ok \/ 2 \notin m.valid => m.base = 1 /\ m.valid = {1})}

PreCommitMessages(c) ==
  {m \in [kind : {"precommit"}, ids : [SectorNumbers -> {0} \cup IdsOn(c)], ok : BOOLEAN] :
     LET named == {s \in SectorNumbers : m.ids[s] # 0} IN
     /\ named # {} /\ named \cap PreCommitted(c) = {}
     /\ \A s \in named : \A t \in SectorNumbers : t < s => t \in named \cup PreCommitted(c)
     /\ \A s, t \in named : m.ids[s] = m.ids[t] => s = t
     /\ \A s \in named : SectorsWith(c, m.ids[s]) = {}
     /\ ~m.ok => Cardinality(named) = 1}

CommitMessages(c) ==
  {m \in [kind : {"commit"}, sectors : (SUBSET PreCommitted(c)) \ {{}}, ok : BOOLEAN, active : BOOLEAN] :
     /\ m.active => m.ok
     /\ ~m.ok => m.sectors = PreCommitted(c)
     /\ \A id \in IdsOn(c) : ActivatedOn(c, id) = {}
     /\ Len(c) < StartEpoch}

SlashMessages(c) == {m \in [kind : {"slash"}] : \E id \in OurIds(c) : HasState(c, id)}

Executable(c) ==
  {[kind |-> "none"]}
  \cup IF Messages(c) = MaxMessages THEN {}
       ELSE PublishMessages(c) \cup PreCommitMessages(c) \cup CommitMessages(c) \cup SlashMessages(c)

\* The chain is followed until the client is through.
NewTipset ==
  /\ ChainHead < MaxHeight /\ stage \notin {"expired", "slashed", "error"}
  /\ \E m \in Executable(chain) : chain' = Append(chain, m)
  /\ UNCHANGED <<publisher, stage, dealID, sector, pre, com, end, reorgs, stateErrors>>

\* The publish message has just been executed.
SectorInit ==
  /\ \E m \in PublishMessages(<<>>) : chain = <<m>>
  /\ publisher \in {"control", "stranger"}
  /\ stage = "validate" /\ dealID = 0 /\ sector = 0
  /\ pre = NoWatcher /\ com = NoWatcher /\ end = NoWatcher
  /\ reorgs = 0 /\ stateErrors = 0

\* The last d tipsets give way to as many empty ones; their messages may be
\* executed again, and the publish message may then give other ids.  The
\* events service shows the new tipsets to every handler.
Rewound(w, cut) == [w EXCEPT !.next = IF @ > cut + 1 THEN cut + 1 ELSE @]

Reorg ==
  /\ reorgs < MaxReorgs
  /\ \E d \in 1..Confidence :
       /\ d <= ChainHead
       /\ LET cut == ChainHead - d IN
            /\ chain' = SubSeq(chain, 1, cut) \o [i \in 1..d |-> [kind |-> "none"]]
            /\ pre' = Rewound(pre, cut) /\ com' = Rewound(com, cut) /\ end' = Rewound(end, cut)
  /\ chain' # chain
  /\ reorgs' = reorgs + 1
  /\ UNCHANGED <<publisher, stage, dealID, sector, stateErrors>>

-----------------------------------------------------------------------------
\* The deal on the chain.

LookupID(client) == IF client = "key" THEN "id" ELSE client

CheckDealEquality(p, q) == p.piece = q.piece /\ LookupID(p.client) = LookupID(q.client)

\* dealIDFromPublishDealsMsg: the message is looked up on the current chain.
\* {} is an error: not found, failed, not ours, or invalid when published.
dealIDFromPublishDealsMsg ==
  {IdOf(chain[p[1]], p[2]) : p \in
     {q \in Published(chain) \X (1..2) :
        /\ chain[q[1]].ok
        /\ CheckDealEquality(Ours, PublishedDeals[q[2]])
        /\ q[2] \in chain[q[1]].valid}}

\* GetCurrentDealInfo at the tipset at height h: the state of the deal there,
\* if the proposal under the id found is ours.
GetCurrentDealInfo(h) ==
  {[DealID |-> id, started |-> HasState(SubSeq(chain, 1, h), id),
    slashed |-> SlashedOn(SubSeq(chain, 1, h), id) # {}] :
     id \in {i \in dealIDFromPublishDealsMsg :
               \E p \in ProposalOn(SubSeq(chain, 1, h), i) : CheckDealEquality(Ours, p)}}

\* checkIfDealAlreadyActive at the head; {} is an error.
checkIfDealAlreadyActive == {res \in GetCurrentDealInfo(ChainHead) : ~res.slashed}

-----------------------------------------------------------------------------
\* The client.

\* ValidatePublishedDeal: the sender must be the provider's, the message
\* must hold the deal, and WaitMsg returns when it is confirmed.
ValidatePublishedDeal ==
  /\ stage = "validate"
  /\ IF publisher = "stranger"
     THEN stage' = "error" /\ UNCHANGED dealID
     ELSE \E h \in Published(chain) :
            /\ h + Confidence - 1 <= ChainHead
            /\ IF chain[h].ok /\ 2 \in chain[h].valid
               THEN stage' = "precommit" /\ dealID' = IdOf(chain[h], 2)
               ELSE stage' = "error" /\ UNCHANGED dealID
  /\ UNCHANGED <<chain, publisher, sector, pre, com, end, reorgs, stateErrors>>

\* The deal must be active by its start epoch; the chain reaching the next
\* one is the timeout.
TimeoutEpoch == StartEpoch + 1

Watching == [on |-> TRUE, next |-> ChainHead + 1, told |-> "nothing", late |-> ChainHead >= TimeoutEpoch]

\* diffPreCommits between the tipset of the publish message and the head;
\* dealIDFromPublishDealsMsg gives the empty key for the former, and the
\* empty key is the head.
diffPreCommits(fromHeight, toHeight) ==
  PreCommitsOn(SubSeq(chain, 1, toHeight)) \ PreCommitsOn(SubSeq(chain, 1, fromHeight))
PublishMsgTipSet == ChainHead

\* OnDealSectorPreCommitted: the check, then the registration.
OnDealSectorPreCommitted ==
  /\ stage = "precommit" /\ ~pre.on
  /\ LET found == checkIfDealAlreadyActive IN
     \/ /\ found = {}
        /\ stage' = "error" /\ UNCHANGED <<pre, sector>>
     \/ \E res \in found :
          /\ res.started
          /\ pre' = [NoWatcher EXCEPT !.told = "active"] /\ stage' = "active"
          /\ UNCHANGED sector
     \/ \E res \in found :
          /\ ~res.started
          /\ LET added == {s \in SectorNumbers :
                             \E h \in diffPreCommits(PublishMsgTipSet, ChainHead) : chain[h].ids[s] = res.DealID} IN
             \/ \E s \in added :
                  pre' = [NoWatcher EXCEPT !.told = "sector"] /\ sector' = s /\ stage' = "commit"
             \/ added = {} /\ pre' = Watching /\ UNCHANGED <<stage, sector>>
  /\ UNCHANGED <<chain, publisher, dealID, com, end, reorgs, stateErrors>>

\* The height a watcher is shown next.
Due(w) == w.on /\ w.next + Confidence <= ChainHead

\* Mutant: the deal id of the validation is used, though a reorganisation may
\* have changed it.
MutantPreCommitDealID(h) == {dealID}

\* called: "When there is a reorg, the deal ID may change, so get the current
\* deal ID from the publish message CID".
PreCommitDealID(h) == {res.DealID : res \in GetCurrentDealInfo(h)}

\* dealSectorInPreCommitMsg, for one sector or a batch.
dealSectorInPreCommitMsg(m, id) == {s \in SectorNumbers : m.ids[s] = id}

\* The callback runs once: the first report stays.
Once(w, what) == IF w.told = "nothing" THEN what ELSE w.told

\* The handler sees the timeout.
PreCommitTimesOut(h) == h = TimeoutEpoch

\* called, for the tipset at height pre.next.  It goes on after the sector
\* was found; only errors and the timeout end it.
PreCommitCalled ==
  /\ Due(pre)
  /\ LET h == pre.next
         m == chain[h]
         matched == m.kind = "precommit" /\ m.ok
         ids == PreCommitDealID(h)
         failed == matched /\ ids = {}
         found == IF matched THEN UNION {dealSectorInPreCommitMsg(m, id) : id \in ids} ELSE {}
         ends == failed \/ PreCommitTimesOut(h)
         told == Once(pre, IF found # {} THEN "sector" ELSE IF ends THEN "error" ELSE "nothing")
     IN /\ pre' = [pre EXCEPT !.on = ~ends, !.next = h + 1, !.told = told]
        /\ IF pre.told = "nothing" /\ told = "sector"
           THEN \E s \in found : sector' = s /\ stage' = "commit"
           ELSE /\ UNCHANGED sector
                /\ stage' = IF pre.told = "nothing" /\ told = "error" THEN "error" ELSE stage
  /\ UNCHANGED <<chain, publisher, dealID, com, end, reorgs, stateErrors>>

\* OnDealSectorCommitted, once the sector is known.
OnDealSectorCommitted ==
  /\ stage = "commit" /\ ~com.on
  /\ LET found == checkIfDealAlreadyActive IN
     \/ /\ found = {} /\ stage' = "error" /\ UNCHANGED com
     \/ /\ \E res \in found : res.started
        /\ com' = [NoWatcher EXCEPT !.told = "active"] /\ stage' = "active"
     \/ /\ \E res \in found : ~res.started
        /\ com' = Watching /\ UNCHANGED stage
  /\ UNCHANGED <<chain, publisher, dealID, sector, pre, end, reorgs, stateErrors>>

\* sectorInCommitMsg, for one sector or an aggregate.
sectorInCommitMsg(m) == m.kind = "commit" /\ sector \in m.sectors

\* "Make sure the deal is active".
CommitActive(h) == \E res \in GetCurrentDealInfo(h) : res.started

\* called, for the tipset at height com.next.
CommitCalled ==
  /\ Due(com)
  /\ LET h == com.next
         m == chain[h]
         matched == sectorInCommitMsg(m) /\ m.ok
         timeout == h = TimeoutEpoch
         told == CASE matched /\ CommitActive(h) -> "active"
                   [] matched -> "error"
                   [] ~matched /\ timeout -> "error"
                   [] OTHER -> "nothing"
     IN /\ com' = [com EXCEPT !.on = ~(matched \/ timeout), !.next = h + 1, !.told = Once(com, told)]
        /\ stage' = CASE com.told # "nothing" -> stage
                      [] told = "active" -> "active"
                      [] told = "error" -> "error"
                      [] OTHER -> stage
  /\ UNCHANGED <<chain, publisher, dealID, sector, pre, end, reorgs, stateErrors>>

\* OnDealExpiredOrSlashed: the deal as it is at the head is kept; an unknown
\* deal is an error, a deal without state is taken for slashed.
OnDealExpiredOrSlashed ==
  /\ stage = "active" /\ ~end.on /\ end.told = "nothing"
  /\ CASE ProposalOn(chain, dealID) = {} ->
            stage' = "error" /\ UNCHANGED end
       [] ProposalOn(chain, dealID) # {} /\ EndEpoch <= ChainHead ->
            stage' = "expired" /\ end' = [end EXCEPT !.told = "expired"]
       [] ProposalOn(chain, dealID) # {} /\ EndEpoch > ChainHead /\ ~HasState(chain, dealID) ->
            stage' = "slashed" /\ end' = [end EXCEPT !.told = "slashed"]
       [] OTHER -> end' = Watching /\ UNCHANGED stage
  /\ UNCHANGED <<chain, publisher, dealID, sector, pre, com, reorgs, stateErrors>>

\* matcher: has the state of the deal changed in the tipset at height h?  The
\* states of a tipset are loaded once for all deals: when loading them fails
\* for the watcher of another deal, they are kept as nil and this watcher
\* sees no change.
DealStateChanged(h) == HasState(SubSeq(chain, 1, h), dealID) # HasState(SubSeq(chain, 1, h - 1), dealID)

\* stateChanged for the tipset at height end.next.
StateChangedCalled ==
  /\ Due(end)
  /\ LET h == end.next IN
     \/ /\ ~DealStateChanged(h)
        /\ end' = [end EXCEPT !.next = h + 1] /\ UNCHANGED <<stage, stateErrors>>
     \/ /\ DealStateChanged(h) /\ stateErrors < MaxStateErrors
        /\ stateErrors' = stateErrors + 1
        /\ end' = [end EXCEPT !.next = h + 1] /\ UNCHANGED stage
     \/ /\ DealStateChanged(h) /\ EndEpoch <= h
        /\ end' = [end EXCEPT !.on = FALSE, !.next = h + 1, !.told = "expired"] /\ stage' = "expired"
        /\ UNCHANGED stateErrors
     \/ /\ DealStateChanged(h) /\ EndEpoch > h
        /\ IF HasState(SubSeq(chain, 1, h), dealID)
           THEN end' = [end EXCEPT !.next = h + 1] /\ UNCHANGED stage
           ELSE end' = [end EXCEPT !.on = FALSE, !.next = h + 1, !.told = "slashed"] /\ stage' = "slashed"
        /\ UNCHANGED stateErrors
  /\ UNCHANGED <<chain, publisher, dealID, sector, pre, com, reorgs>>

\* The timeout of StateChanged: the handler is called without a tipset, and
\* takes the deal for expired.  The timeout is a number of epochs where that
\* of Called is an epoch, so nothing is assumed of when it comes.
StateChangedTimeout ==
  /\ end.on
  /\ end' = [end EXCEPT !.on = FALSE, !.told = "expired"] /\ stage' = "expired"
  /\ UNCHANGED <<chain, publisher, dealID, sector, pre, com, reorgs, stateErrors>>

SectorProgress ==
  \/ NewTipset \/ ValidatePublishedDeal
  \/ OnDealSectorPreCommitted \/ PreCommitCalled
  \/ OnDealSectorCommitted \/ CommitCalled
  \/ OnDealExpiredOrSlashed \/ StateChangedCalled

SectorNext == SectorProgress \/ Reorg \/ StateChangedTimeout

SectorSpec == SectorInit /\ [][SectorNext]_sectorVars

-----------------------------------------------------------------------------
\* What the client is told is what the chain says, reorganisations of up to
\* Confidence tipsets or not: a sector that the pre-commit handler reported
\* holds the client's own deal, a deal that the commit handler reported is or
\* was active, and a deal reported as slashed by the state handler is.  What
\* the checks report is the state of the head, which a reorganisation may
\* still undo, so they are left out once there was one.
SectorReported ==
  /\ sector # 0 /\ (pre.next > 1 \/ reorgs = 0) =>
       \E id \in OurIds(chain) : sector \in SectorsWith(chain, id)
  /\ com.told = "active" /\ (com.next > 1 \/ reorgs = 0) =>
       \E id \in OurIds(chain) : ActivatedOn(chain, id) # {}
  /\ end.told = "slashed" /\ (end.next > 1 \/ reorgs = 0) =>
       \E id \in OurIds(chain) : SlashedOn(chain, id) # {}

\* A client that waits for a sector always gets an answer: the timeout at the
\* start epoch makes sure of it, unless it is over when the client registers.
SectorAnswered == []<>(stage \notin {"precommit", "commit"} \/ pre.late \/ com.late)
=============================================================================
