--------------------------- MODULE PaychVouchers ---------------------------
(***************************************************************************)
(* The vouchers of one payment channel: the operations of the channel      *)
(* accessor on its record (paychmgr/paych.go), how the manager picks the   *)
(* accessor and begins to track an inbound channel (manager.go,            *)
(* accessorcache.go, channellock.go, state.go), and the settler            *)
(* (settler/settler.go), which submits the best vouchers of an inbound     *)
(* channel when its settlement appears on chain.                           *)
(*                                                                         *)
(* An operation takes a lock, reads the channel record, may push a message *)
(* and writes the whole record back: reading and writing are two steps.    *)
(* The lock belongs to the accessor, and accessors are cached by the pair  *)
(* (from, to): AddVoucherInbound reaches an inbound channel as             *)
(* Target->Control and every other operation as Control->Target, so two    *)
(* locks guard the one record.                                             *)
(***************************************************************************)
EXTENDS Integers, Sequences, FiniteSets, FiniteSetsExt

CONSTANTS
  Ops,          \* calls of the manager's operations
  Settler,      \* the settler's own call
  Dirs,         \* directions explored: a subset of {"in", "out"}
  Lanes,        \* lane numbers the counterparty uses
  Nonces,       \* nonces the counterparty uses
  Amounts,      \* voucher amounts
  MinDeltas,    \* minDelta of AddVoucherInbound
  Balance,      \* funds of the payment channel actor
  MaxVCrash     \* bound: crashes of the process

ASSUME PaychVouchersAssumption ==
  /\ Settler \notin Ops /\ Dirs \subseteq {"in", "out"}
  /\ IsFiniteSet(Ops) /\ IsFiniteSet(Lanes)
  /\ Lanes \subseteq Nat /\ Nonces \subseteq Nat \ {0} /\ Amounts \subseteq Nat
  /\ MinDeltas \subseteq Nat /\ Balance \in Nat /\ MaxVCrash \in Nat

Actors == Ops \cup {Settler}
AllLanes == Lanes \cup 0 .. (Cardinality(Lanes) + Cardinality(Ops))
Voucher == [lane : AllLanes, nonce : Nat \ {0}, amt : Amounts]

VARIABLES
  dir,       \* Direction of the channel
  rec,       \* the channel record: vouchers, those marked submitted, NextLane
  op,        \* op[o]: the call, and the record it will write
  paychAct,  \* the payment channel actor: its lanes and its state
  updates,   \* vouchers in update messages that are not yet executed
  pushed,    \* history: vouchers in any update message
  accepted,  \* history: vouchers that AddVoucher or CreateVoucher took
  dropped,   \* history: accepted vouchers that a save of the other accessor undid
  allocated, \* history: the lanes AllocateLane has returned
  settler,   \* the settler's handler: vouchers still to submit
  vcrashes

voucherVars == <<dir, rec, op, paychAct, updates, pushed, accepted, dropped, allocated, settler, vcrashes>>

NoRec == [tracked |-> FALSE, vouchers |-> {}, submitted |-> {}, next |-> 0]
IdleOp == [pc |-> "idle", lock |-> "none", out |-> NoRec, adds |-> {}, lanes |-> << >>]

VoucherInit ==
  /\ dir \in Dirs
  /\ rec = [NoRec EXCEPT !.tracked = (dir = "out")]
  /\ op = [o \in Actors |-> IdleOp]
  /\ paychAct = [lanes |-> << >>, st |-> "open"]
  /\ updates = {} /\ pushed = {} /\ accepted = {} /\ dropped = {} /\ allocated = << >>
  /\ settler = [pc |-> "idle", todo |-> {}, seen |-> {}] /\ vcrashes = 0

-----------------------------------------------------------------------------
(* Lanes.                                                                    *)

OnLane(R, l) == {v \in R.vouchers : v.lane = l}
HighestNonce(S) == CHOOSE v \in S : \A w \in S : w.nonce <= v.nonce
ChainLane(l) == IF l \in DOMAIN paychAct.lanes THEN paychAct.lanes[l] ELSE [nonce |-> 0, amt |-> 0]

\* laneState: the lane on chain, under the stored voucher of the highest nonce
\* unless the chain's nonce is higher.  A lane that neither knows is all zero.
LaneState(R, l) ==
  LET newer == {v \in OnLane(R, l) : v.nonce >= ChainLane(l).nonce}
  IN  IF newer = {} THEN ChainLane(l)
      ELSE [nonce |-> HighestNonce(newer).nonce, amt |-> HighestNonce(newer).amt]

\* Mutant: the lanes other than the voucher's own are left out of the total.
MutantTotalRedeemed(R, v) == v.amt

\* totalRedeemedWithVoucher: the lanes' totals with the voucher in place of its
\* lane's.
TotalRedeemed(R, v) ==
  SumFunction([l \in AllLanes |-> IF l = v.lane THEN v.amt ELSE LaneState(R, l).amt])

\* checkVoucherValid, for a voucher of this channel that is not locked and that
\* From has signed; others are refused before any of this.
CheckVoucherValid(R, v) ==
  LET ls == LaneState(R, v.lane)
      known == v.lane \in DOMAIN paychAct.lanes \/ OnLane(R, v.lane) # {}
  IN  /\ paychAct.st # "gone"
      /\ known => v.nonce > ls.nonce /\ v.amt > ls.amt
      /\ TotalRedeemed(R, v) <= Balance

\* checkVoucherSpendable: not submitted, and the actor would accept the update.
ActorAccepts(v) ==
  /\ paychAct.st # "gone" /\ v.nonce > ChainLane(v.lane).nonce
  /\ SumFunction([l \in AllLanes |-> IF l = v.lane THEN v.amt ELSE ChainLane(l).amt]) <= Balance

CheckVoucherSpendable(R, v) == v \notin R.submitted /\ ActorAccepts(v)

-----------------------------------------------------------------------------
(* Locks.                                                                    *)

\* accessorByFromTo: the pair, and with it the lock, of an operation.
AccessorLock(kind) == IF dir = "in" /\ kind = "addInbound" THEN "Target->Control" ELSE "Control->Target"

Free(kind) == rec.tracked /\ \A o \in Actors : op[o].lock # AccessorLock(kind)

\* NextLane once a voucher for lane v.lane is stored.
NextLane(R, v) == IF R.next <= v.lane THEN v.lane + 1 ELSE R.next

\* The call has read the record and will write out, and return what it adds.
Hold(o, kind, out, adds, lanes) ==
  op' = [op EXCEPT ![o] = [pc |-> "save", lock |-> AccessorLock(kind), out |-> out,
                           adds |-> adds, lanes |-> lanes]]
Ends(o) == op' = [op EXCEPT ![o].pc = "done"]

\* trackInboundChannel: under the manager's exclusive lock the channel is read
\* from the chain's state, with the lane after the chain's last.
TrackInboundChannel ==
  /\ dir = "in" /\ ~rec.tracked /\ paychAct.st # "gone"
  /\ \A o \in Actors : op[o].lock = "none"
  /\ rec' = [NoRec EXCEPT !.tracked = TRUE,
             !.next = IF DOMAIN paychAct.lanes = {} THEN 0 ELSE Max(DOMAIN paychAct.lanes) + 1]
  /\ UNCHANGED <<dir, op, paychAct, updates, pushed, accepted, dropped, allocated, settler, vcrashes>>

\* addVoucherUnlocked: a voucher stored already is ignored; otherwise it must be
\* valid and raise its lane by minDelta at least.
AddVoucherUnlocked(o, kind, v, minDelta) ==
  /\ Free(kind) /\ op[o].pc = "idle"
  /\ IF /\ v \notin rec.vouchers
        /\ CheckVoucherValid(rec, v)
        /\ minDelta <= v.amt - LaneState(rec, v.lane).amt
     THEN Hold(o, kind, [rec EXCEPT !.vouchers = @ \cup {v}, !.next = NextLane(rec, v)], {v}, << >>)
     ELSE Ends(o)

AddVoucherInbound(o) ==
  /\ dir = "in"
  /\ \E v \in [lane : Lanes, nonce : Nonces, amt : Amounts], d \in MinDeltas :
       AddVoucherUnlocked(o, "addInbound", v, d)
  /\ UNCHANGED <<dir, rec, paychAct, updates, pushed, accepted, dropped, allocated, settler, vcrashes>>

\* nextNonceForLane.
NextNonce(l) == IF OnLane(rec, l) = {} THEN 1 ELSE HighestNonce(OnLane(rec, l)).nonce + 1

\* createVoucher of PaychNewPayment, on a lane it has allocated, and of
\* PaychVoucherCreate, on any lane.
CreateVoucher(o) ==
  /\ dir = "out"
  /\ \E l \in Lanes \cup {allocated[i] : i \in DOMAIN allocated}, a \in Amounts :
       AddVoucherUnlocked(o, "create", [lane |-> l, nonce |-> NextNonce(l), amt |-> a], 0)
  /\ UNCHANGED <<dir, rec, paychAct, updates, pushed, accepted, dropped, allocated, settler, vcrashes>>

\* MarkVoucherSubmitted: the voucher and those of its lane with lower nonces.
MarkSubmitted(R, v) ==
  [R EXCEPT !.vouchers = @ \cup {v},
            !.submitted = @ \cup {w \in OnLane(R, v.lane) \cup {v} : w.nonce <= v.nonce}]

\* submitVoucher: the update message is pushed before the record is saved.
SubmitVoucher(o, v) ==
  /\ Free("submit") /\ op[o].pc = "idle"
  /\ IF v \in rec.submitted THEN Ends(o) /\ UNCHANGED <<updates, pushed>>
     ELSE updates' = updates \cup {v} /\ pushed' = pushed \cup {v} /\ Hold(o, "submit", MarkSubmitted(rec, v), {}, << >>)

SubmitCall(o) ==
  /\ \E v \in accepted : SubmitVoucher(o, v)
  /\ UNCHANGED <<dir, rec, paychAct, accepted, dropped, allocated, settler, vcrashes>>

AllocateLane(o) ==
  /\ Free("allocate") /\ op[o].pc = "idle"
  /\ rec.next \in AllLanes
  /\ Hold(o, "allocate", [rec EXCEPT !.next = @ + 1], {}, <<rec.next>>)
  /\ UNCHANGED <<dir, rec, paychAct, updates, pushed, accepted, dropped, allocated, settler, vcrashes>>

\* settle of this side; the record is saved after the message.  (Settling is a
\* field of the fund queue's records and is left out here.)
Settle(o) ==
  /\ Free("settle") /\ op[o].pc = "idle" /\ paychAct.st = "open"
  /\ Hold(o, "settle", rec, {}, << >>)
  /\ paychAct' = [paychAct EXCEPT !.st = "settling"]
  /\ UNCHANGED <<dir, rec, updates, pushed, accepted, dropped, allocated, settler, vcrashes>>

\* Mutant: a save of AddVoucher on one lock loses what it does not know as well.
MutantSaveChannel(o) ==
  /\ op[o].pc = "save"
  /\ rec' = [op[o].out EXCEPT !.vouchers = {v \in @ : v.nonce >= HighestNonce(OnLane(op[o].out, v.lane)).nonce}]
  /\ dropped' = dropped \cup {v \in accepted : v \in rec.vouchers \ op[o].out.vouchers}
  /\ accepted' = accepted \cup op[o].adds /\ allocated' = allocated \o op[o].lanes
  /\ op' = [op EXCEPT ![o] = [IdleOp EXCEPT !.pc = IF o = Settler THEN "idle" ELSE "done"]]
  /\ UNCHANGED <<dir, paychAct, updates, pushed, settler, vcrashes>>

\* SaveChannel writes the whole record, the lock is released and the call returns.
SaveChannel(o) ==
  /\ op[o].pc = "save"
  /\ rec' = op[o].out
  /\ dropped' = dropped \cup {v \in accepted : v \in rec.vouchers \ op[o].out.vouchers}
  /\ accepted' = accepted \cup op[o].adds /\ allocated' = allocated \o op[o].lanes
  /\ op' = [op EXCEPT ![o] = [IdleOp EXCEPT !.pc = IF o = Settler THEN "idle" ELSE "done"]]
  /\ UNCHANGED <<dir, paychAct, updates, pushed, settler, vcrashes>>

-----------------------------------------------------------------------------
(* The settler.                                                              *)

\* Mutant: the first spendable voucher of a lane is taken for its best.
MutantBestSpendableByLane ==
  LET spendable == {v \in rec.vouchers : CheckVoucherSpendable(rec, v)}
  IN  {v \in spendable : \A w \in spendable : w.lane = v.lane => w.amt >= v.amt}

BestSpendableByLane ==
  LET spendable == {v \in rec.vouchers : CheckVoucherSpendable(rec, v)}
  IN  {v \in spendable : \A w \in spendable : w.lane = v.lane => w.amt <= v.amt}

\* matcher and messageHandler: the settlement of a tracked inbound channel has
\* executed.
SettlerHandles ==
  /\ settler.pc = "idle" /\ paychAct.st = "settled" /\ dir = "in" /\ rec.tracked
  /\ settler' = [pc |-> "submit", todo |-> BestSpendableByLane, seen |-> rec.vouchers]
  /\ UNCHANGED <<dir, rec, op, paychAct, updates, pushed, accepted, dropped, allocated, vcrashes>>

\* The vouchers are submitted one after the other; an error ends the handler.
SettlerSubmits ==
  /\ settler.pc = "submit" /\ op[Settler].pc = "idle"
  /\ \E v \in settler.todo :
       /\ SubmitVoucher(Settler, v)
       /\ settler' = IF v \in rec.submitted THEN [settler EXCEPT !.pc = "error"]
                     ELSE [settler EXCEPT !.todo = @ \ {v}]
  /\ UNCHANGED <<dir, rec, paychAct, accepted, dropped, allocated, vcrashes>>

SettlerEnds ==
  /\ settler.pc = "submit" /\ settler.todo = {} /\ op[Settler].pc = "idle"
  /\ settler' = [settler EXCEPT !.pc = "done"]
  /\ UNCHANGED <<dir, rec, op, paychAct, updates, pushed, accepted, dropped, allocated, vcrashes>>

-----------------------------------------------------------------------------
(* Crashes and the chain.                                                    *)

\* What runs is lost, with the vouchers the settler had still to submit.
VoucherCrash ==
  /\ vcrashes < MaxVCrash /\ vcrashes' = vcrashes + 1
  /\ op' = [o \in Actors |-> [IdleOp EXCEPT !.pc = IF op[o].pc = "idle" \/ o = Settler THEN "idle" ELSE "done"]]
  /\ settler' = IF settler.pc = "submit" THEN [settler EXCEPT !.pc = "crashed"] ELSE settler
  /\ UNCHANGED <<dir, rec, paychAct, updates, pushed, accepted, dropped, allocated>>

\* An update message executes; the actor refuses a nonce that is too low.
ExecUpdate ==
  /\ \E v \in updates :
       /\ updates' = updates \ {v}
       /\ paychAct' = IF ~ActorAccepts(v) THEN paychAct
                      ELSE [paychAct EXCEPT !.lanes =
                              [l \in DOMAIN @ \cup {v.lane} |->
                                 IF l = v.lane THEN [nonce |-> v.nonce, amt |-> v.amt] ELSE @[l]]]
  /\ UNCHANGED <<dir, rec, op, pushed, accepted, dropped, allocated, settler, vcrashes>>

\* The other side settles, a settlement executes, and Collect ends the actor.
ChainSettles ==
  /\ \E step \in {<<"open", "settling">>, <<"settling", "settled">>, <<"settled", "gone">>} :
       paychAct.st = step[1] /\ paychAct' = [paychAct EXCEPT !.st = step[2]]
  /\ UNCHANGED <<dir, rec, op, updates, pushed, accepted, dropped, allocated, settler, vcrashes>>

VoucherNext ==
  \/ TrackInboundChannel
  \/ \E o \in Ops : AddVoucherInbound(o) \/ CreateVoucher(o) \/ SubmitCall(o) \/ AllocateLane(o) \/ Settle(o)
  \/ \E o \in Actors : SaveChannel(o)
  \/ SettlerHandles \/ SettlerSubmits \/ SettlerEnds
  \/ VoucherCrash \/ ExecUpdate \/ ChainSettles

VoucherSpec == VoucherInit /\ [][VoucherNext]_voucherVars

-----------------------------------------------------------------------------
(* Properties.                                                               *)

VoucherTypeOK ==
  LET Rec == [tracked : BOOLEAN, vouchers : SUBSET Voucher, submitted : SUBSET Voucher, next : Nat] IN
  /\ dir \in Dirs /\ rec \in Rec
  /\ \A o \in Actors : /\ op[o].pc \in {"idle", "save", "done"} /\ op[o].out \in Rec
                       /\ op[o].lock \in {"none", "Target->Control", "Control->Target"}
                       /\ op[o].adds \in SUBSET Voucher
  /\ DOMAIN paychAct.lanes \subseteq AllLanes
  /\ paychAct.st \in {"open", "settling", "settled", "gone"}
  /\ updates \in SUBSET Voucher /\ accepted \in SUBSET Voucher /\ dropped \in SUBSET Voucher
  /\ settler.pc \in {"idle", "submit", "error", "done", "crashed"} /\ settler.todo \in SUBSET Voucher
  /\ vcrashes \in 0 .. MaxVCrash

\* A voucher that was accepted is worth money to the provider: it stays in the
\* channel record, unless an operation of the other accessor wrote an older copy
\* of an inbound channel back over it.  No crash, no concurrent voucher and
\* nothing on an outbound channel, where one lock guards the record, loses one.
AcceptedVoucherKept ==
  \A v \in accepted : v \in rec.vouchers \/ (dir = "in" /\ v \in dropped)

\* The vouchers stored are never worth more than the channel holds, whatever
\* lanes they are on and whatever was redeemed in between, and on each lane a
\* higher nonce is worth more; until a voucher has been dropped as above.
VouchersCovered ==
  dropped = {} =>
    /\ SumFunction([l \in AllLanes |-> LaneState(rec, l).amt]) <= Balance
    /\ \A v, w \in rec.vouchers : v.lane = w.lane /\ v.nonce < w.nonce => v.amt < w.amt

\* When the settler's handler ends well, every voucher that was stored when it
\* began has been put in a message, or its lane got a voucher worth as much:
\* submitting the best of each lane leaves no money in a settled channel; until
\* a voucher has been dropped as above, for a submission of a dropped voucher
\* marks those of lower nonces as submitted, whatever they are worth.
SettlerRedeems ==
  settler.pc = "done" /\ dropped = {} =>
    \A v \in settler.seen : \E w \in pushed : w.lane = v.lane /\ w.amt >= v.amt
=============================================================================
