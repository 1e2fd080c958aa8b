----------------------------- MODULE Retrieval -----------------------------
(***************************************************************************)
(* One retrieval deal in the retrieval provider: its record in the deal    *)
(* store and the four goroutines that read it, compute and write the whole *)
(* record back: the data transfer's request and payment validators         *)
(* (requestvalidation.go, revalidator.go), its events                      *)
(* (provider_datatransfer_sub.go, datatransfer_handler.go) and the         *)
(* unsealing of the data (retrieval_handler.go).  Reading and writing are  *)
(* two steps, so saves of stale copies happen.                             *)
(*                                                                         *)
(* A unit of data is one block.  The client pays for what it has received, *)
(* in vouchers whose amounts add up; it may pay early, in parts, and send  *)
(* the same voucher again.                                                 *)
(***************************************************************************)
EXTENDS Integers, FiniteSets

CONSTANTS
  Price,       \* PricePerByte
  UnsealPrice, \* UnsealPrice
  Interval,    \* PaymentInterval
  Increase,    \* PaymentIntervalIncrease
  Size,        \* blocks in the payload
  Queued,      \* blocks that are still sent after a pause
  MaxResend,   \* bound: vouchers sent again
  RFails       \* what may fail: a subset of {"load", "save", "transfer", "cancel"}

ASSUME RetrievalAssumption ==
  /\ Price \in Nat /\ UnsealPrice \in Nat /\ Interval \in Nat \ {0} /\ Increase \in Nat
  /\ Size \in Nat \ {0} /\ Queued \in Nat /\ MaxResend \in Nat
  /\ RFails \subseteq {"load", "save", "transfer", "cancel"}

VARIABLES
  rd,     \* the ProviderDealState in the store
  rpc,    \* rpc[a]: where goroutine a is
  rmem,   \* rmem[a]: its copy of the record
  xfer,   \* the data transfer: its state and the blocks sent
  loaded, \* the deal's blockstore is tracked
  voucher,\* sum of the vouchers that the payment channel has accepted
  pay,    \* the client: what it has paid in all, the payment on its way, resends
  rfaults \* history: failures, steps on a stale copy, payments before the Accept event

retrievalVars == <<rd, rpc, rmem, xfer, loaded, voucher, pay, rfaults>>

Goroutines == {"pull", "pay", "event", "unseal"}
NoDeal == [st |-> "none", sent |-> 0, funds |-> 0, cur |-> 0, chan |-> FALSE]
NoCopy == [base |-> NoDeal, deal |-> NoDeal]
Statuses == {"none", "New", "FundsNeededUnseal", "Unsealing", "Unsealed", "Ongoing", "FundsNeeded",
             "FundsNeededLastPayment", "BlocksComplete", "Finalizing", "Completed", "Cancelled", "Errored"}

RetrievalInit ==
  /\ rd = NoDeal /\ rpc = [a \in Goroutines |-> "idle"]
  /\ rmem = [a \in Goroutines |-> NoCopy]
  /\ xfer = [st |-> "none", sent |-> 0, queued |-> 0, accepted |-> FALSE, complete |-> FALSE]
  /\ loaded = FALSE /\ voucher = 0 /\ pay = [paid |-> 0, msg |-> 0, resends |-> 0]
  /\ rfaults = {}

-----------------------------------------------------------------------------
(* Payment intervals (methods of the deal's parameters).                     *)

IntervalBound(k) == k * Interval + Increase * ((k * (k - 1)) \div 2)
Bounds == {IntervalBound(k) : k \in 0 .. (Size + 3)}
NextInterval(c) == CHOOSE b \in Bounds : b > c /\ \A x \in Bounds : x > c => b <= x
IntervalLowerBound(c) == IF c = 0 THEN 0
                         ELSE CHOOSE b \in Bounds : b < c /\ \A x \in Bounds : x < c => x <= b

\* TotalPaidFor: the bytes that the funds pay for.
PaidFor(funds) == IF Price = 0 \/ funds < UnsealPrice THEN 0 ELSE (funds - UnsealPrice) \div Price

\* paymentOwed: the price of unsealing, then of the interval below the current.
PaymentOwed(d, total) ==
  IF total < UnsealPrice THEN UnsealPrice - total
  ELSE IntervalLowerBound(d.cur) * Price - (total - UnsealPrice)

-----------------------------------------------------------------------------
(* Reading and saving the record.                                            *)

\* Goroutine a has read the record, will write d and is at step l.
Read(a, d, l) ==
  rpc' = [rpc EXCEPT ![a] = l] /\ rmem' = [rmem EXCEPT ![a] = [base |-> rd, deal |-> d]]

\* SaveDeal of d over what is there, and on to step l; the copy is dropped at the end.
Stale(a) == IF rmem[a].base = rd THEN {} ELSE {"stale"}
Save(a, d, l) ==
  /\ rd' = d /\ rpc' = [rpc EXCEPT ![a] = l]
  /\ rmem' = [rmem EXCEPT ![a] = IF l = "idle" THEN NoCopy ELSE [base |-> d, deal |-> d]]

\* One thing fails in a behaviour, and nothing once a step has gone astray.
Fails(f) == f \in RFails /\ rfaults = {}

Resume == IF xfer.st = "paused" THEN [xfer EXCEPT !.st = "sending"] ELSE xfer
Pause(x) == IF x.st = "sending" THEN [x EXCEPT !.st = "paused", !.queued = Queued] ELSE x
Close(d) == IF d.chan /\ xfer.st # "done" THEN [xfer EXCEPT !.st = "closed"] ELSE xfer

\* CancelDeal: the blockstore is given up, the transfer closed, the deal saved.
CancelDeal(a, d) ==
  /\ loaded' = FALSE /\ xfer' = Close(d)
  /\ Save(a, [d EXCEPT !.st = "Cancelled"], "idle")

-----------------------------------------------------------------------------
(* The request: validatePull of a proposal that acceptDeal takes.            *)

ValidatePull ==
  /\ rd = NoDeal
  /\ rd' = [NoDeal EXCEPT !.st = IF UnsealPrice > 0 THEN "FundsNeededUnseal" ELSE "New", !.cur = Interval]
  /\ xfer' = [xfer EXCEPT !.st = "paused"]
  /\ UNCHANGED <<rpc, rmem, loaded, voucher, pay, rfaults>>

\* HandleAcceptFor: the channel is saved, and a deal without an unseal price
\* goes on to be unsealed.
HandleAccept ==
  /\ rd # NoDeal /\ ~xfer.accepted /\ rpc["event"] = "idle"
  /\ Read("event", [rd EXCEPT !.chan = TRUE], "accept")
  /\ xfer' = [xfer EXCEPT !.accepted = TRUE]
  /\ UNCHANGED <<rd, loaded, voucher, pay, rfaults>>

SaveAccept ==
  /\ rpc["event"] = "accept"
  /\ LET d == rmem["event"].deal IN Save("event", d, IF d.st = "New" THEN "unsealing" ELSE "idle")
  /\ rfaults' = rfaults \cup Stale("event")
  /\ UNCHANGED <<xfer, loaded, voucher, pay>>

-----------------------------------------------------------------------------
(* UnsealData, in the event's goroutine or in one that a payment starts.     *)

StartUnseal(a) ==
  /\ rpc[a] = "unsealing"
  /\ Save(a, [rmem[a].deal EXCEPT !.st = "Unsealing"], "load")
  /\ rfaults' = rfaults \cup Stale(a)
  /\ UNCHANGED <<xfer, loaded, voucher, pay>>

\* PrepareBlockstore loads the piece and tracks its blockstore.
PrepareBlockstore(a) ==
  /\ rpc[a] = "load"
  /\ \/ /\ loaded' = TRUE /\ UNCHANGED xfer
        /\ Save(a, [rmem[a].deal EXCEPT !.st = "Unsealed"], "resume")
        /\ rfaults' = rfaults \cup Stale(a)
     \/ /\ Fails("load") /\ rfaults' = {"load"} \cup Stale(a)
        /\ CancelDeal(a, rmem[a].deal)
  /\ UNCHANGED <<voucher, pay>>

ResumeDataTransfer(a) ==
  /\ rpc[a] = "resume"
  /\ LET d == rmem[a].deal IN
     /\ xfer' = IF d.chan THEN Resume ELSE xfer
     /\ rmem' = [rmem EXCEPT ![a].deal.st = IF d.chan /\ xfer.st = "closed" THEN "Errored" ELSE @]
  /\ rpc' = [rpc EXCEPT ![a] = "unsealed"]
  /\ rfaults' = rfaults \cup Stale(a)
  /\ UNCHANGED <<rd, loaded, voucher, pay>>

\* The deal is saved once more after the transfer runs.
EndUnseal(a) ==
  /\ rpc[a] = "unsealed"
  /\ Save(a, rmem[a].deal, "idle")
  /\ rfaults' = rfaults \cup Stale(a)
  /\ UNCHANGED <<xfer, loaded, voucher, pay>>

-----------------------------------------------------------------------------
(* Data: OnPullDataSent and OnComplete.                                      *)

\* Mutant: a full interval is taken for one that is not yet full.
MutantWithinInterval(sent, cur) == Price = 0 \/ sent <= cur

\* Nothing has to be paid before the next block.
WithinInterval(sent, cur) == Price = 0 \/ sent < cur

\* The record after one more block.
DataSent(d) ==
  IF WithinInterval(d.sent + 1, d.cur)
  THEN [d EXCEPT !.st = "Ongoing", !.sent = @ + 1]
  ELSE [d EXCEPT !.sent = @ + 1,
                 !.st = CASE @ \in {"Ongoing", "Unsealed"} -> "FundsNeeded"
                          [] @ = "BlocksComplete" -> "FundsNeededLastPayment"
                          [] @ = "New" -> "FundsNeededUnseal"
                          [] OTHER -> @]

\* A block is sent, also one that was queued before a pause.  A deal that the
\* store does not find by its channel is not counted.
OnPullDataSent ==
  /\ rpc["pull"] = "idle" /\ loaded /\ xfer.sent < Size
  /\ \/ xfer.st = "sending" /\ xfer' = [xfer EXCEPT !.sent = @ + 1]
     \/ xfer.st = "paused" /\ xfer.queued > 0 /\ xfer' = [xfer EXCEPT !.sent = @ + 1, !.queued = @ - 1]
  /\ IF rd.chan THEN Read("pull", DataSent(rd), "sent") ELSE UNCHANGED <<rpc, rmem>>
  /\ UNCHANGED <<rd, loaded, voucher, pay, rfaults>>

\* The save, and the pause that asks the client for payment.
SaveDataSent ==
  /\ rpc["pull"] = "sent"
  /\ LET d == rmem["pull"].deal IN
     /\ Save("pull", d, "idle")
     /\ xfer' = IF WithinInterval(d.sent, d.cur) THEN xfer ELSE Pause(xfer)
  /\ rfaults' = rfaults \cup Stale("pull")
  /\ UNCHANGED <<loaded, voucher, pay>>

OnComplete ==
  /\ rpc["pull"] = "idle" /\ xfer.st = "sending" /\ xfer.sent = Size /\ ~xfer.complete
  /\ xfer' = [xfer EXCEPT !.complete = TRUE, !.st = IF rd.chan THEN @ ELSE "done"]
  /\ IF rd.chan THEN Read("pull", [rd EXCEPT !.st = "BlocksComplete"], "blocks") ELSE UNCHANGED <<rpc, rmem>>
  /\ UNCHANGED <<rd, loaded, voucher, pay, rfaults>>

\* BlocksComplete is saved; then nothing is owed, or the last payment is asked
\* for.  What is owed may come out negative.
SaveComplete ==
  /\ rpc["pull"] = "blocks"
  /\ LET d == rmem["pull"].deal IN
     IF (d.sent - PaidFor(d.funds)) * Price = 0
     THEN Save("pull", d, "idle") /\ xfer' = [xfer EXCEPT !.st = "done"]
     ELSE Save("pull", [d EXCEPT !.st = "FundsNeededLastPayment"], "idle") /\ xfer' = Pause(xfer)
  /\ rfaults' = rfaults \cup Stale("pull")
  /\ UNCHANGED <<loaded, voucher, pay>>

-----------------------------------------------------------------------------
(* Payments: Revalidate and processPayment.                                  *)

\* Mutant: a voucher's whole amount is received, not what it adds.
MutantReceived(amt) == amt

\* PaychVoucherAdd: what the voucher adds to its lane, nothing for a repeated one.
Received(amt) == IF amt > voucher THEN amt - voucher ELSE 0

\* The record once the payment covers what is owed.
Resumed(d) ==
  [d EXCEPT !.cur = IF d.st = "FundsNeededUnseal" THEN @ ELSE NextInterval(@),
            !.st = CASE @ = "FundsNeeded" -> "Ongoing"
                     [] @ = "FundsNeededLastPayment" -> "Finalizing"
                     [] @ = "FundsNeededUnseal" -> "Unsealing"
                     [] OTHER -> @]

Revalidate ==
  /\ pay.msg # 0 /\ rpc["pay"] = "idle"
  /\ LET r == Received(pay.msg)
         d == [rd EXCEPT !.funds = @ + r]
     IN  /\ voucher' = voucher + (IF pay.msg > voucher THEN pay.msg - voucher ELSE 0)
         /\ IF PaymentOwed(rd, rd.funds + r) > 0 THEN Read("pay", d, "partial")
            ELSE Read("pay", Resumed(d), "paid")
  /\ pay' = [pay EXCEPT !.msg = 0]
  /\ rfaults' = rfaults \cup (IF rd.chan THEN {} ELSE {"early"})
  /\ UNCHANGED <<rd, xfer, loaded>>

\* Mutant: the transfer is resumed by the last payment only.
MutantTransferAfterPayment(was) ==
  IF was = "FundsNeededLastPayment" /\ xfer.complete /\ xfer.st = "paused"
  THEN [xfer EXCEPT !.st = "done"] ELSE xfer

\* ErrResume, nothing while the deal is unsealed, or the end with the last payment.
TransferAfterPayment(was) ==
  CASE was = "FundsNeededLastPayment" /\ xfer.complete /\ xfer.st = "paused" -> [xfer EXCEPT !.st = "done"]
    [] was \in {"FundsNeededUnseal", "Unsealing"} -> xfer
    [] OTHER -> Resume

\* The save, and what follows from the status before it: unsealing begins, the
\* transfer goes on, or it ends with the last payment.  A payment that is only
\* part of what is owed pauses the transfer.  The deferred call starts unsealing
\* also when the save failed and the deal was cancelled.
SavePayment ==
  /\ rpc["pay"] \in {"partial", "paid"}
  /\ LET d == rmem["pay"].deal
         was == rmem["pay"].base.st
         unseals == rpc["pay"] = "paid" /\ was = "FundsNeededUnseal"
     IN  /\ rpc' = [rpc EXCEPT !["pay"] = "idle", !["unseal"] = IF unseals THEN "unsealing" ELSE @]
         /\ \/ /\ rd' = d /\ UNCHANGED loaded
               /\ xfer' = IF rpc["pay"] = "partial" THEN Pause(xfer) ELSE TransferAfterPayment(was)
               /\ rfaults' = rfaults \cup Stale("pay")
            \/ /\ Fails("save") /\ rfaults' = {"save"} \cup Stale("pay")
               /\ rd' = [d EXCEPT !.st = "Cancelled"]
               /\ loaded' = FALSE /\ xfer' = Close(d)
         /\ rmem' = [rmem EXCEPT !["pay"] = NoCopy,
                                 !["unseal"] = IF unseals THEN [base |-> rd', deal |-> rd'] ELSE @]
  /\ UNCHANGED <<voucher, pay>>

-----------------------------------------------------------------------------
(* Events of the transfer.                                                   *)

HandleComplete ==
  /\ rpc["event"] = "idle" /\ rd # NoDeal /\ xfer.st = "done" /\ rd.st # "Completed"
  /\ Read("event", [rd EXCEPT !.st = "Completed"], "cleanup")
  /\ UNCHANGED <<rd, xfer, loaded, voucher, pay, rfaults>>

\* HandleErrorForDeal and HandleDisconnectFor, and HandleCancelForDeal, which
\* saves the record as it was.
TransferFails ==
  /\ rpc["event"] = "idle" /\ rd # NoDeal /\ xfer.st \in {"sending", "paused"}
  /\ \/ Fails("transfer") /\ rfaults' = {"transfer"} /\ Read("event", [rd EXCEPT !.st = "Errored"], "other")
     \/ Fails("cancel") /\ rfaults' = {"cancel"} /\ Read("event", rd, "other")
  /\ xfer' = [xfer EXCEPT !.st = "closed"]
  /\ UNCHANGED <<rd, loaded, voucher, pay>>

SaveEvent ==
  /\ rpc["event"] \in {"cleanup", "other"}
  /\ Save("event", rmem["event"].deal, "idle")
  /\ loaded' = (loaded /\ rpc["event"] # "cleanup")
  /\ rfaults' = rfaults \cup Stale("event")
  /\ UNCHANGED <<xfer, voucher, pay>>

-----------------------------------------------------------------------------
(* The client.                                                               *)

\* It pays for unsealing, then for blocks it has received, all or some of them.
ClientPays ==
  /\ rd # NoDeal /\ pay.msg = 0 /\ xfer.st \in {"sending", "paused"}
  /\ \E amt \in (pay.paid + 1) .. (UnsealPrice + xfer.sent * Price) :
       pay' = [pay EXCEPT !.paid = amt, !.msg = amt]
  /\ UNCHANGED <<rd, rpc, rmem, xfer, loaded, voucher, rfaults>>

ClientResends ==
  /\ pay.msg = 0 /\ pay.paid > 0 /\ pay.resends < MaxResend /\ xfer.st \in {"sending", "paused"}
  /\ pay' = [pay EXCEPT !.msg = pay.paid, !.resends = @ + 1]
  /\ UNCHANGED <<rd, rpc, rmem, xfer, loaded, voucher, rfaults>>

RetrievalProgress ==
  \/ HandleAccept \/ SaveAccept
  \/ \E a \in {"event", "unseal"} :
       StartUnseal(a) \/ PrepareBlockstore(a) \/ ResumeDataTransfer(a) \/ EndUnseal(a)
  \/ OnPullDataSent \/ SaveDataSent \/ OnComplete \/ SaveComplete
  \/ Revalidate \/ SavePayment \/ HandleComplete \/ SaveEvent \/ ClientPays

RetrievalNext == ValidatePull \/ RetrievalProgress \/ ClientResends \/ TransferFails

RetrievalSpec == RetrievalInit /\ [][RetrievalNext]_retrievalVars

-----------------------------------------------------------------------------
(* Properties.                                                               *)

RetrievalTypeOK ==
  LET Deal == [st : Statuses, sent : 0 .. Size, funds : Nat, cur : Nat, chan : BOOLEAN] IN
  /\ rd \in Deal
  /\ rpc \in [Goroutines -> {"idle", "accept", "unsealing", "load", "resume", "unsealed", "sent",
                             "blocks", "partial", "paid", "cleanup", "other"}]
  /\ rmem \in [Goroutines -> [base : Deal, deal : Deal]]
  /\ xfer \in [st : {"none", "paused", "sending", "done", "closed"}, sent : 0 .. Size,
               queued : 0 .. Queued, accepted : BOOLEAN, complete : BOOLEAN]
  /\ loaded \in BOOLEAN /\ voucher \in Nat
  /\ pay \in [paid : Nat, msg : Nat, resends : 0 .. MaxResend]
  /\ rfaults \subseteq {"load", "save", "transfer", "cancel", "stale", "early"}

\* The provider sends at most the current interval and the blocks queued at a
\* pause, when these are less than an interval, unless a goroutine saved or resumed
\* on a copy that another save had overtaken, or a payment overtook the Accept
\* event.  And an interval is only begun when the one before the last is paid,
\* however payments come early, in parts, twice, between blocks or on stale copies.
BoundedExposure ==
  Price > 0 =>
    /\ Queued < Interval /\ rfaults \cap {"stale", "early"} = {} => xfer.sent <= rd.cur + Queued
    /\ LET b == IntervalLowerBound(IntervalLowerBound(rd.cur)) IN
       b > 0 => voucher >= UnsealPrice + b * Price

\* The funds recorded are the vouchers accepted, each counted once: never more,
\* and less only while a payment is being saved, after its save failed, or after
\* a stale copy was saved over it.
FundsCounted ==
  /\ rd.funds <= voucher
  /\ rpc["pay"] = "idle" /\ rfaults \cap {"stale", "save"} = {} => rd.funds = voucher

\* A deal whose client pays is completed: whatever the order of payments, blocks
\* and pauses the transfer is resumed, unless something failed, a stale save has
\* undone a step or a payment overtook the Accept event.  A voucher sent again can
\* move the interval past the data there is, and the client cannot pay that far.
RetrievalFinishes ==
  (rd # NoDeal) ~> (rd.st = "Completed" \/ rfaults # {} \/ pay.resends > 0)
=============================================================================
