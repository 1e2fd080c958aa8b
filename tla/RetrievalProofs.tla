--------------------------- MODULE RetrievalProofs ---------------------------
(***************************************************************************)
(* FundsCounted and BoundedExposure of Retrieval for every price, size,    *)
(* interval and number of resent vouchers, and all failures.               *)
(*                                                                         *)
(* Four goroutines read the record of the deal and write the whole of it   *)
(* back, so what the record says depends on what their copies say.  Only   *)
(* the goroutine that takes payments changes the funds and the interval of *)
(* its copy, only the one that sends data the count of blocks; the others  *)
(* write back what they read, and unless the history records a stale step  *)
(* nobody wrote in between.                                                *)
(***************************************************************************)
EXTENDS Retrieval, TLAPS

\* A record of a deal.  The interval is left open: a voucher that is sent again
\* can move it past the data there is, where the model has no bound for it.
IsDeal(d) ==
  /\ d = [st |-> d.st, sent |-> d.sent, funds |-> d.funds, cur |-> d.cur, chan |-> d.chan]
  /\ d.funds \in Nat

IsCopy(c) == c = [base |-> c.base, deal |-> c.deal] /\ IsDeal(c.base) /\ IsDeal(c.deal)

Transfer == [st : {"none", "paused", "sending", "done", "closed"}, sent : Nat, queued : Nat,
             accepted : BOOLEAN, complete : BOOLEAN]

Client == [paid : Nat, msg : Nat, resends : Nat]

RecordShape ==
  /\ IsDeal(rd) /\ DOMAIN rpc = Goroutines /\ DOMAIN rmem = Goroutines
  /\ \A a \in Goroutines : IsCopy(rmem[a])

MoneyShape == xfer \in Transfer /\ voucher \in Nat /\ pay \in Client

\* No copy has more funds than the vouchers that were accepted.
CopiesCovered == rd.funds <= voucher /\ \A a \in Goroutines : rmem[a].deal.funds <= voucher

\* Only the goroutine that takes payments has funds that it did not read.
OthersKeepFunds == \A a \in Goroutines \ {"pay"} : rmem[a].deal.funds = rmem[a].base.funds

\* No save was lost, neither to a failure nor to a stale copy.
Undisturbed == rfaults \cap {"stale", "save"} = {}

\* The payment that is about to be saved makes the funds what the vouchers say.
PaymentExact == rpc["pay"] # "idle" /\ Undisturbed => rmem["pay"].deal.funds = voucher

RecordExact == rpc["pay"] = "idle" /\ Undisturbed => rd.funds = voucher

RetrievalInv ==
  /\ RecordShape /\ MoneyShape /\ CopiesCovered /\ OthersKeepFunds
  /\ PaymentExact /\ RecordExact

-----------------------------------------------------------------------------
(* Records and copies.                                                       *)

\* Assignments to the fields of a record other than its funds.
LEMMA FieldsKeepFunds ==
  ASSUME NEW d, IsDeal(d), NEW v
  PROVE  /\ IsDeal([d EXCEPT !.st = v]) /\ [d EXCEPT !.st = v].funds = d.funds
         /\ IsDeal([d EXCEPT !.sent = v]) /\ [d EXCEPT !.sent = v].funds = d.funds
         /\ IsDeal([d EXCEPT !.cur = v]) /\ [d EXCEPT !.cur = v].funds = d.funds
         /\ IsDeal([d EXCEPT !.chan = v]) /\ [d EXCEPT !.chan = v].funds = d.funds
  BY DEF IsDeal

\* The funds of a record grow by what was received.
LEMMA FundsAdded ==
  ASSUME NEW d, IsDeal(d), NEW r \in Nat
  PROVE  IsDeal([d EXCEPT !.funds = @ + r]) /\ [d EXCEPT !.funds = @ + r].funds = d.funds + r
  BY DEF IsDeal

\* The record before the request and the copy of a goroutine at rest.
LEMMA NoDealIsDeal ==
  /\ IsDeal(NoDeal) /\ NoDeal.funds = 0
  /\ IsCopy(NoCopy) /\ NoCopy.base = NoDeal /\ NoCopy.deal = NoDeal
  BY DEF IsDeal, NoDeal, IsCopy, NoCopy

\* Counting a block leaves the funds alone.
LEMMA DataSentKeepsFunds ==
  ASSUME NEW d, IsDeal(d)
  PROVE  IsDeal(DataSent(d)) /\ DataSent(d).funds = d.funds
<1>1. PICK s : s = d.sent + 1
  OBVIOUS
<1>2. PICK x : x = CASE d.st \in {"Ongoing", "Unsealed"} -> "FundsNeeded"
                     [] d.st = "BlocksComplete" -> "FundsNeededLastPayment"
                     [] d.st = "New" -> "FundsNeededUnseal"
                     [] OTHER -> d.st
  OBVIOUS
<1> DEFINE e == [d EXCEPT !.sent = s]
<1>3. IsDeal(e) /\ e.funds = d.funds
  BY FieldsKeepFunds
<1> DEFINE f == [d EXCEPT !.st = "Ongoing"]
<1>4. IsDeal(f) /\ f.funds = d.funds /\ f.sent = d.sent
  BY FieldsKeepFunds DEF IsDeal
<1>5. DataSent(d) = [f EXCEPT !.sent = s] \/ DataSent(d) = [e EXCEPT !.st = x]
  BY <1>1, <1>2 DEF DataSent, IsDeal
<1>6. IsDeal([f EXCEPT !.sent = s]) /\ [f EXCEPT !.sent = s].funds = f.funds
  <2> HIDE DEF f
  <2>. QED BY <1>4, FieldsKeepFunds
<1>7. IsDeal([e EXCEPT !.st = x]) /\ [e EXCEPT !.st = x].funds = e.funds
  <2> HIDE DEF e
  <2>. QED BY <1>3, FieldsKeepFunds
<1> HIDE DEF e, f
<1>. QED
  BY <1>3, <1>4, <1>5, <1>6, <1>7

\* So does the step to the next interval and status.
LEMMA ResumedKeepsFunds ==
  ASSUME NEW d, IsDeal(d)
  PROVE  IsDeal(Resumed(d)) /\ Resumed(d).funds = d.funds
<1>1. PICK c : c = IF d.st = "FundsNeededUnseal" THEN d.cur ELSE NextInterval(d.cur)
  OBVIOUS
<1>2. PICK x : x = CASE d.st = "FundsNeeded" -> "Ongoing"
                     [] d.st = "FundsNeededLastPayment" -> "Finalizing"
                     [] d.st = "FundsNeededUnseal" -> "Unsealing"
                     [] OTHER -> d.st
  OBVIOUS
<1> DEFINE e == [d EXCEPT !.cur = c]
<1>3. IsDeal(e) /\ e.funds = d.funds /\ e.st = d.st
  BY FieldsKeepFunds DEF IsDeal
<1>4. Resumed(d) = [e EXCEPT !.st = x]
  BY <1>1, <1>2 DEF Resumed, IsDeal
<1> HIDE DEF e
<1>5. IsDeal([e EXCEPT !.st = x]) /\ [e EXCEPT !.st = x].funds = e.funds
  BY <1>3, FieldsKeepFunds
<1>. QED
  BY <1>3, <1>4, <1>5

\* The fields of a copy that is built from two records.
LEMMA CopyFields ==
  ASSUME NEW b, NEW d, IsDeal(b), IsDeal(d)
  PROVE  IsCopy([base |-> b, deal |-> d]) /\ [base |-> b, deal |-> d].base = b
         /\ [base |-> b, deal |-> d].deal = d
  BY DEF IsCopy

-----------------------------------------------------------------------------
(* The kinds of steps.                                                       *)

\* Records and copies stay, and faults are only added.
LEMMA MoneyStep ==
  ASSUME RetrievalInv, UNCHANGED <<rd, rpc, rmem, voucher>>, rfaults \subseteq rfaults', MoneyShape'
  PROVE  RetrievalInv'
<1>1. Undisturbed' => Undisturbed
  BY DEF Undisturbed
<1>2. RecordShape' /\ CopiesCovered' /\ OthersKeepFunds'
  BY DEF RetrievalInv, RecordShape, CopiesCovered, OthersKeepFunds
<1>3. PaymentExact' /\ RecordExact'
  BY <1>1 DEF RetrievalInv, PaymentExact, RecordExact
<1>. QED
  BY <1>2, <1>3 DEF RetrievalInv

\* A goroutine other than the one that takes payments changes its copy, with the
\* funds that its base has.
LEMMA CopyStep ==
  ASSUME RetrievalInv, NEW a \in Goroutines \ {"pay"}, NEW l, NEW c, IsCopy(c),
         c.deal.funds = c.base.funds, c.deal.funds <= voucher,
         rpc' = [rpc EXCEPT ![a] = l], rmem' = [rmem EXCEPT ![a] = c],
         UNCHANGED <<rd, voucher>>, rfaults \subseteq rfaults', MoneyShape'
  PROVE  RetrievalInv'
<1>1. Undisturbed' => Undisturbed
  BY DEF Undisturbed
<1>2. RecordShape'
  BY DEF RetrievalInv, RecordShape
<1>3. "pay" \in Goroutines /\ rpc'["pay"] = rpc["pay"] /\ rmem'["pay"] = rmem["pay"]
  BY DEF RetrievalInv, RecordShape, Goroutines
<1>4. CopiesCovered' /\ OthersKeepFunds'
  BY DEF RetrievalInv, RecordShape, CopiesCovered, OthersKeepFunds
<1>5. PaymentExact' /\ RecordExact'
  BY <1>1, <1>3 DEF RetrievalInv, PaymentExact, RecordExact
<1>. QED
  BY <1>2, <1>4, <1>5 DEF RetrievalInv

\* It reads the record.
LEMMA ReadStep ==
  ASSUME RetrievalInv, NEW a \in Goroutines \ {"pay"}, NEW l, NEW d, IsDeal(d), d.funds = rd.funds,
         Read(a, d, l), UNCHANGED <<rd, voucher>>, rfaults \subseteq rfaults', MoneyShape'
  PROVE  RetrievalInv'
<1>1. PICK c : c = [base |-> rd, deal |-> d]
  OBVIOUS
<1>2. IsCopy(c) /\ c.base = rd /\ c.deal = d
  BY <1>1, CopyFields DEF RetrievalInv, RecordShape
<1>3. rpc' = [rpc EXCEPT ![a] = l] /\ rmem' = [rmem EXCEPT ![a] = c]
  BY <1>1 DEF Read
<1>4. rd.funds <= voucher
  BY DEF RetrievalInv, CopiesCovered
<1>. QED
  BY <1>2, <1>3, <1>4, CopyStep

\* It writes the record, with the funds that it read.
LEMMA SaveStep ==
  ASSUME RetrievalInv, NEW a \in Goroutines \ {"pay"}, NEW l, NEW d, IsDeal(d),
         d.funds = rmem[a].deal.funds, Save(a, d, l), UNCHANGED voucher,
         rfaults \subseteq rfaults', Stale(a) \subseteq rfaults', MoneyShape'
  PROVE  RetrievalInv'
<1>1. Undisturbed' => Undisturbed /\ rmem[a].base = rd
  BY DEF Undisturbed, Stale
<1>2. PICK c : c = IF l = "idle" THEN NoCopy ELSE [base |-> d, deal |-> d]
  OBVIOUS
<1>3. IsCopy(c) /\ c.deal.funds = c.base.funds /\ c.deal.funds <= voucher
  <2>1. d.funds <= voucher /\ 0 <= voucher
    BY DEF RetrievalInv, CopiesCovered, MoneyShape
  <2>2. CASE l = "idle"
    BY <1>2, <2>1, <2>2, NoDealIsDeal
  <2>3. CASE l # "idle"
    BY <1>2, <2>1, <2>3, CopyFields
  <2>. QED
    BY <2>2, <2>3
<1>4. rd' = d /\ rpc' = [rpc EXCEPT ![a] = l] /\ rmem' = [rmem EXCEPT ![a] = c]
  BY <1>2 DEF Save
<1>5. RecordShape'
  BY <1>3, <1>4 DEF RetrievalInv, RecordShape
<1>6. CopiesCovered'
  BY <1>3, <1>4 DEF RetrievalInv, RecordShape, CopiesCovered
<1>7. OthersKeepFunds'
  BY <1>3, <1>4 DEF RetrievalInv, RecordShape, OthersKeepFunds
<1>8. "pay" \in Goroutines /\ rpc'["pay"] = rpc["pay"] /\ rmem'["pay"] = rmem["pay"]
  BY <1>4 DEF RetrievalInv, RecordShape, Goroutines
<1>9. PaymentExact'
  BY <1>1, <1>8 DEF RetrievalInv, PaymentExact
<1>10. RecordExact'
  <2>1. rmem[a].deal.funds = rmem[a].base.funds
    BY DEF RetrievalInv, OthersKeepFunds
  <2>. QED
    BY <1>1, <1>4, <1>8, <2>1 DEF RetrievalInv, RecordExact
<1>. QED
  BY <1>5, <1>6, <1>7, <1>9, <1>10 DEF RetrievalInv

-----------------------------------------------------------------------------
(* The transfer.                                                             *)

\* Resuming, pausing, closing and ending a transfer keep its type.
LEMMA TransferMoves ==
  ASSUME xfer \in Transfer
  PROVE  /\ Resume \in Transfer /\ Pause(xfer) \in Transfer
         /\ \A d : Close(d) \in Transfer
         /\ \A was : TransferAfterPayment(was) \in Transfer
<1>1. Resume \in Transfer
  BY DEF Resume, Transfer
<1>2. Pause(xfer) \in Transfer
  BY RetrievalAssumption DEF Pause, Transfer
<1>3. \A d : Close(d) \in Transfer
  BY DEF Close, Transfer
<1>4. ASSUME NEW was PROVE TransferAfterPayment(was) \in Transfer
  <2>1. [xfer EXCEPT !.st = "done"] \in Transfer
    BY DEF Transfer
  <2>. QED
    BY <1>1, <2>1 DEF TransferAfterPayment
<1>. QED
  BY <1>1, <1>2, <1>3, <1>4

-----------------------------------------------------------------------------
(* The actions.                                                              *)

\* Nothing is recorded and nothing is paid before the request.
LEMMA RetrievalInitInv == RetrievalInit => RetrievalInv
<1> SUFFICES ASSUME RetrievalInit PROVE RetrievalInv
  OBVIOUS
<1>1. /\ rd = NoDeal /\ rpc = [a \in Goroutines |-> "idle"] /\ rmem = [a \in Goroutines |-> NoCopy]
      /\ voucher = 0
  BY DEF RetrievalInit
<1>2. RecordShape /\ CopiesCovered /\ OthersKeepFunds /\ RecordExact
  BY <1>1, NoDealIsDeal DEF RecordShape, CopiesCovered, OthersKeepFunds, RecordExact
<1>3. PaymentExact
  BY <1>1 DEF PaymentExact, Goroutines
<1>4. MoneyShape
  BY DEF RetrievalInit, MoneyShape, Transfer, Client
<1>. QED
  BY <1>2, <1>3, <1>4 DEF RetrievalInv

\* The deal begins with no funds while no voucher has been accepted.
LEMMA ValidatePullInv == ASSUME RetrievalInv, ValidatePull PROVE RetrievalInv'
<1> DEFINE s == IF UnsealPrice > 0 THEN "FundsNeededUnseal" ELSE "New"
           d == [NoDeal EXCEPT !.st = s]
<1>1. rd = NoDeal /\ rd' = [d EXCEPT !.cur = Interval] /\ UNCHANGED <<rpc, rmem, voucher, rfaults>>
  BY DEF ValidatePull, NoDeal
<1>2. IsDeal(d) /\ d.funds = 0
  <2> HIDE DEF s
  <2>. QED BY NoDealIsDeal, FieldsKeepFunds
<1> HIDE DEF d
<1>3. IsDeal(rd') /\ rd'.funds = rd.funds
  BY <1>1, <1>2, NoDealIsDeal, FieldsKeepFunds
<1>4. MoneyShape'
  BY DEF RetrievalInv, MoneyShape, ValidatePull, Transfer
<1>5. RecordShape' /\ CopiesCovered' /\ OthersKeepFunds'
  BY <1>1, <1>3 DEF RetrievalInv, RecordShape, CopiesCovered, OthersKeepFunds
<1>6. PaymentExact' /\ RecordExact'
  BY <1>1, <1>3 DEF RetrievalInv, PaymentExact, RecordExact, Undisturbed
<1>. QED
  BY <1>4, <1>5, <1>6 DEF RetrievalInv

\* The voucher adds to the channel exactly what the copy of the record adds to
\* its funds; a voucher that comes again adds nothing to either.
LEMMA RevalidateInv == ASSUME RetrievalInv, Revalidate PROVE RetrievalInv'
<1> DEFINE r == Received(pay.msg)
           d == [rd EXCEPT !.funds = @ + r]
<1>1. voucher \in Nat /\ pay \in Client /\ pay.msg \in Nat
  BY DEF RetrievalInv, MoneyShape, Client
<1>2. r \in Nat /\ voucher' = voucher + r
  BY <1>1 DEF Revalidate, Received
<1>3. rpc["pay"] = "idle" /\ UNCHANGED <<rd, xfer>> /\ rfaults \subseteq rfaults' /\ pay' = [pay EXCEPT !.msg = 0]
  BY DEF Revalidate
<1>4. \/ Read("pay", d, "partial")
      \/ Read("pay", Resumed(d), "paid")
  BY DEF Revalidate
<1>5. IsDeal(rd)
  BY DEF RetrievalInv, RecordShape
<1> HIDE DEF r
<1>6. IsDeal(d) /\ d.funds = rd.funds + r
  BY <1>2, <1>5, FundsAdded
<1> HIDE DEF d
<1>7. PICK l, e : /\ l \in {"partial", "paid"} /\ Read("pay", e, l)
                   /\ IsDeal(e) /\ e.funds = rd.funds + r
  BY <1>4, <1>6, ResumedKeepsFunds
<1>8. PICK c : c = [base |-> rd, deal |-> e]
  OBVIOUS
<1>9. IsCopy(c) /\ c.base = rd /\ c.deal = e
  BY <1>5, <1>7, <1>8, CopyFields
<1>10. rpc' = [rpc EXCEPT !["pay"] = l] /\ rmem' = [rmem EXCEPT !["pay"] = c]
  BY <1>7, <1>8 DEF Read
<1>11. "pay" \in Goroutines
  BY DEF Goroutines
<1>12. RecordShape'
  BY <1>3, <1>9, <1>10 DEF RetrievalInv, RecordShape
<1>13. /\ rmem'["pay"] = c /\ rpc'["pay"] = l
       /\ \A a \in Goroutines \ {"pay"} : rmem'[a] = rmem[a]
  BY <1>10, <1>11 DEF RetrievalInv, RecordShape
<1>14. MoneyShape'
  BY <1>1, <1>2, <1>3 DEF RetrievalInv, MoneyShape, Client
<1>15. rd.funds \in Nat /\ rd.funds <= voucher
  BY <1>5 DEF IsDeal, RetrievalInv, CopiesCovered
<1>16. \A a \in Goroutines : rmem[a].deal.funds \in Nat /\ rmem[a].deal.funds <= voucher
  BY DEF RetrievalInv, RecordShape, IsCopy, IsDeal, CopiesCovered
<1>17. CopiesCovered'
  <2>1. rd'.funds <= voucher' /\ c.deal.funds <= voucher'
    BY <1>1, <1>2, <1>3, <1>7, <1>9, <1>15
  <2>2. ASSUME NEW a \in Goroutines PROVE rmem'[a].deal.funds <= voucher'
    <3>1. rmem[a].deal.funds <= voucher'
      BY <1>1, <1>2, <1>16
    <3>. QED
      BY <1>13, <2>1, <3>1
  <2>. QED
    BY <2>1, <2>2 DEF CopiesCovered
<1>18. OthersKeepFunds'
  BY <1>13 DEF RetrievalInv, OthersKeepFunds
<1>19. RecordExact'
  BY <1>7, <1>13 DEF RecordExact
<1>20. PaymentExact'
  <2>1. Undisturbed' => rd.funds = voucher
    BY <1>3 DEF RetrievalInv, RecordExact, Undisturbed
  <2>. QED
    BY <1>2, <1>7, <1>9, <1>13, <2>1 DEF PaymentExact
<1>. QED
  BY <1>12, <1>14, <1>17, <1>18, <1>19, <1>20 DEF RetrievalInv

\* The payment's save, or the cancellation after a save that failed, and the
\* copy that the goroutine it may start for unsealing begins with.
LEMMA SavePaymentInv == ASSUME RetrievalInv, SavePayment PROVE RetrievalInv'
<1> DEFINE d == rmem["pay"].deal
           unseals == rpc["pay"] = "paid" /\ rmem["pay"].base.st = "FundsNeededUnseal"
<1>1. "pay" \in Goroutines /\ "unseal" \in Goroutines
  BY DEF Goroutines
<1>2. /\ rpc' = [rpc EXCEPT !["pay"] = "idle", !["unseal"] = IF unseals THEN "unsealing" ELSE @]
      /\ rmem' = [rmem EXCEPT !["pay"] = NoCopy,
                              !["unseal"] = IF unseals THEN [base |-> rd', deal |-> rd'] ELSE @]
      /\ UNCHANGED <<voucher, pay>> /\ rpc["pay"] # "idle"
  BY DEF SavePayment
<1>3. \/ rd' = d /\ rfaults' = rfaults \cup Stale("pay")
      \/ rd' = [d EXCEPT !.st = "Cancelled"] /\ "save" \in rfaults'
  BY DEF SavePayment
<1>4. IsDeal(d)
  BY <1>1 DEF RetrievalInv, RecordShape, IsCopy
<1>5. MoneyShape'
  BY <1>2, TransferMoves DEF RetrievalInv, MoneyShape, SavePayment
<1>6. Undisturbed' => Undisturbed
  BY <1>3 DEF SavePayment, Fails, Undisturbed
<1>7. d.funds <= voucher
  BY <1>1 DEF RetrievalInv, CopiesCovered
<1>8. Undisturbed => d.funds = voucher
  BY <1>2 DEF RetrievalInv, PaymentExact
<1> HIDE DEF d, unseals
<1>9. IsDeal(rd') /\ rd'.funds = d.funds
  <2>1. IsDeal([d EXCEPT !.st = "Cancelled"]) /\ [d EXCEPT !.st = "Cancelled"].funds = d.funds
    BY <1>4, FieldsKeepFunds
  <2>2. CASE rd' = d
    BY <1>4, <2>2
  <2>3. CASE rd' = [d EXCEPT !.st = "Cancelled"]
    BY <2>1, <2>3
  <2>. QED
    BY <1>3, <2>2, <2>3
<1>10. PICK c : c = [base |-> rd', deal |-> rd']
  OBVIOUS
<1>11. IsCopy(c) /\ c.base = rd' /\ c.deal = rd'
  BY <1>9, <1>10, CopyFields
<1>12. \A a \in Goroutines : \/ rmem'[a] = NoCopy \/ rmem'[a] = c
                             \/ a # "pay" /\ rmem'[a] = rmem[a]
  <2>1. PICK x : x = IF unseals THEN c ELSE rmem["unseal"]
    OBVIOUS
  <2>2. PICK f : f = [rmem EXCEPT !["pay"] = NoCopy]
    OBVIOUS
  <2>3. rmem' = [f EXCEPT !["unseal"] = x]
    BY <1>1, <1>2, <1>10, <2>1, <2>2 DEF RetrievalInv, RecordShape
  <2>4. DOMAIN rmem = Goroutines
    BY DEF RetrievalInv, RecordShape
  <2>5. \A a \in Goroutines : f[a] = IF a = "pay" THEN NoCopy ELSE rmem[a]
    BY <2>2, <2>4
  <2>6. \A a \in Goroutines : rmem'[a] = IF a = "unseal" THEN x ELSE f[a]
    BY <2>2, <2>3, <2>4
  <2>. QED
    BY <2>1, <2>5, <2>6
<1>13. rpc'["pay"] = "idle" /\ DOMAIN rpc' = Goroutines /\ DOMAIN rmem' = Goroutines
  BY <1>1, <1>2 DEF RetrievalInv, RecordShape
<1>14. RecordShape'
  BY <1>9, <1>11, <1>12, <1>13, NoDealIsDeal DEF RetrievalInv, RecordShape
<1>15. CopiesCovered'
  <2>1. 0 <= voucher /\ rd'.funds <= voucher /\ voucher' = voucher
    BY <1>2, <1>7, <1>9 DEF RetrievalInv, MoneyShape
  <2>. QED
    BY <1>11, <1>12, <2>1, NoDealIsDeal DEF RetrievalInv, CopiesCovered
<1>16. OthersKeepFunds'
  BY <1>11, <1>12, NoDealIsDeal DEF RetrievalInv, OthersKeepFunds
<1>17. PaymentExact' /\ RecordExact'
  BY <1>2, <1>6, <1>8, <1>9, <1>13 DEF PaymentExact, RecordExact
<1>. QED
  BY <1>5, <1>14, <1>15, <1>16, <1>17 DEF RetrievalInv

\* The steps of an unsealing, in the event's goroutine or in its own.
LEMMA UnsealInv ==
  ASSUME RetrievalInv, NEW a \in {"event", "unseal"},
         StartUnseal(a) \/ PrepareBlockstore(a) \/ ResumeDataTransfer(a) \/ EndUnseal(a)
  PROVE  RetrievalInv'
<1>1. a \in Goroutines \ {"pay"}
  BY DEF Goroutines
<1>2. PICK d : d = rmem[a].deal
  OBVIOUS
<1>3. IsDeal(d) /\ xfer \in Transfer
  BY <1>1, <1>2 DEF RetrievalInv, RecordShape, IsCopy, MoneyShape
<1>4. \A v : IsDeal([d EXCEPT !.st = v]) /\ [d EXCEPT !.st = v].funds = d.funds
  BY <1>3, FieldsKeepFunds
<1>5. UNCHANGED <<voucher, pay>>
  BY DEF StartUnseal, PrepareBlockstore, ResumeDataTransfer, EndUnseal
<1>6. CASE StartUnseal(a)
  <2>1. MoneyShape'
    BY <1>5, <1>6 DEF RetrievalInv, MoneyShape, StartUnseal
  <2>2. Save(a, [d EXCEPT !.st = "Unsealing"], "load") /\ rfaults' = rfaults \cup Stale(a)
    BY <1>2, <1>6 DEF StartUnseal
  <2>. QED
    BY <1>1, <1>2, <1>4, <1>5, <2>1, <2>2, SaveStep
<1>7. CASE PrepareBlockstore(a)
  <2>1. MoneyShape'
    BY <1>3, <1>5, <1>7, TransferMoves DEF RetrievalInv, MoneyShape, PrepareBlockstore, CancelDeal
  <2>2. rfaults \subseteq rfaults' /\ Stale(a) \subseteq rfaults'
    BY <1>7 DEF PrepareBlockstore, Fails
  <2>3. \/ Save(a, [d EXCEPT !.st = "Unsealed"], "resume")
        \/ Save(a, [d EXCEPT !.st = "Cancelled"], "idle")
    BY <1>2, <1>7 DEF PrepareBlockstore, CancelDeal
  <2>. QED
    BY <1>1, <1>2, <1>4, <1>5, <2>1, <2>2, <2>3, SaveStep
<1>8. CASE ResumeDataTransfer(a)
  <2>1. MoneyShape'
    BY <1>3, <1>5, <1>8, TransferMoves DEF RetrievalInv, MoneyShape, ResumeDataTransfer
  <2>2. PICK v : rmem' = [rmem EXCEPT ![a].deal.st = v]
    BY <1>8 DEF ResumeDataTransfer
  <2>3. rpc' = [rpc EXCEPT ![a] = "unsealed"] /\ UNCHANGED rd /\ rfaults \subseteq rfaults'
    BY <1>8 DEF ResumeDataTransfer
  <2>4. PICK c : c = [base |-> rmem[a].base, deal |-> [d EXCEPT !.st = v]]
    OBVIOUS
  <2>5. IsCopy(rmem[a]) /\ IsDeal(rmem[a].base)
    BY <1>1 DEF RetrievalInv, RecordShape, IsCopy
  <2>6. IsCopy(c) /\ c.base = rmem[a].base /\ c.deal.funds = d.funds
    BY <1>4, <2>4, <2>5, CopyFields
  <2>7. rmem' = [rmem EXCEPT ![a] = c]
    <3>1. rmem' = [rmem EXCEPT ![a] = [rmem[a] EXCEPT !.deal = [rmem[a].deal EXCEPT !.st = v]]]
      BY <2>2
    <3>2. rmem[a] = [base |-> rmem[a].base, deal |-> rmem[a].deal]
      BY <2>5 DEF IsCopy
    <3>3. PICK e : e = [d EXCEPT !.st = v]
      OBVIOUS
    <3>4. [rmem[a] EXCEPT !.deal = e] = [base |-> rmem[a].base, deal |-> e]
      BY <3>2
    <3>. QED
      BY <1>2, <2>4, <3>1, <3>3, <3>4
  <2>8. d.funds = rmem[a].base.funds /\ d.funds <= voucher
    BY <1>1, <1>2 DEF RetrievalInv, OthersKeepFunds, CopiesCovered
  <2>. QED
    BY <1>1, <1>5, <2>1, <2>3, <2>6, <2>7, <2>8, CopyStep
<1>9. CASE EndUnseal(a)
  <2>1. MoneyShape'
    BY <1>5, <1>9 DEF RetrievalInv, MoneyShape, EndUnseal
  <2>2. Save(a, d, "idle") /\ rfaults' = rfaults \cup Stale(a)
    BY <1>2, <1>9 DEF EndUnseal
  <2>. QED
    BY <1>1, <1>2, <1>3, <1>5, <2>1, <2>2, SaveStep
<1>. QED
  BY <1>6, <1>7, <1>8, <1>9

\* The data sent and the end of the data.
LEMMA PullInv ==
  ASSUME RetrievalInv, OnPullDataSent \/ SaveDataSent \/ OnComplete \/ SaveComplete
  PROVE  RetrievalInv'
<1>1. "pull" \in Goroutines \ {"pay"}
  BY DEF Goroutines
<1>2. IsDeal(rd) /\ xfer \in Transfer
  BY DEF RetrievalInv, RecordShape, MoneyShape
<1>3. PICK d : d = rmem["pull"].deal
  OBVIOUS
<1>4. IsDeal(d)
  BY <1>1, <1>3 DEF RetrievalInv, RecordShape, IsCopy
<1>5. UNCHANGED <<voucher, pay>>
  BY DEF OnPullDataSent, SaveDataSent, OnComplete, SaveComplete
<1>6. CASE OnPullDataSent
  <2>1. MoneyShape'
    <3>1. xfer' \in Transfer
      <4>1. xfer.sent \in Nat /\ xfer.queued \in Nat
        BY <1>2 DEF Transfer
      <4>2. PICK n \in Nat : n = xfer.sent + 1
        BY <4>1
      <4>3. CASE xfer' = [xfer EXCEPT !.sent = @ + 1]
        BY <1>2, <4>2, <4>3 DEF Transfer
      <4>4. CASE xfer.queued > 0 /\ xfer' = [xfer EXCEPT !.sent = @ + 1, !.queued = @ - 1]
        <5>1. PICK q \in Nat : q = xfer.queued - 1
          BY <4>1, <4>4
        <5>2. xfer' = [xfer EXCEPT !.sent = n, !.queued = q]
          BY <1>2, <4>2, <4>4, <5>1 DEF Transfer
        <5>. QED
          BY <1>2, <5>2 DEF Transfer
      <4>. QED
        BY <1>6, <4>3, <4>4 DEF OnPullDataSent
    <3>. QED
      BY <1>5, <3>1 DEF RetrievalInv, MoneyShape
  <2>2. IsDeal(DataSent(rd)) /\ DataSent(rd).funds = rd.funds
    BY <1>2, DataSentKeepsFunds
  <2>3. Read("pull", DataSent(rd), "sent") \/ UNCHANGED <<rpc, rmem>>
    BY <1>6 DEF OnPullDataSent
  <2>4. UNCHANGED <<rd, rfaults>>
    BY <1>6 DEF OnPullDataSent
  <2>. QED
    BY <1>1, <1>5, <2>1, <2>2, <2>3, <2>4, ReadStep, MoneyStep
<1>7. CASE SaveDataSent
  <2>1. MoneyShape'
    BY <1>2, <1>5, <1>7, TransferMoves DEF RetrievalInv, MoneyShape, SaveDataSent
  <2>2. Save("pull", d, "idle") /\ rfaults' = rfaults \cup Stale("pull")
    BY <1>3, <1>7 DEF SaveDataSent
  <2>. QED
    BY <1>1, <1>3, <1>4, <1>5, <2>1, <2>2, SaveStep
<1>8. CASE OnComplete
  <2>1. MoneyShape'
    <3>1. PICK st \in {"sending", "done"} : xfer' = [xfer EXCEPT !.complete = TRUE, !.st = st]
      BY <1>8 DEF OnComplete
    <3>2. xfer' \in Transfer
      BY <1>2, <3>1 DEF Transfer
    <3>. QED
      BY <1>5, <3>2 DEF RetrievalInv, MoneyShape
  <2>2. IsDeal([rd EXCEPT !.st = "BlocksComplete"]) /\ [rd EXCEPT !.st = "BlocksComplete"].funds = rd.funds
    BY <1>2, FieldsKeepFunds
  <2>3. Read("pull", [rd EXCEPT !.st = "BlocksComplete"], "blocks") \/ UNCHANGED <<rpc, rmem>>
    BY <1>8 DEF OnComplete
  <2>4. UNCHANGED <<rd, rfaults>>
    BY <1>8 DEF OnComplete
  <2>. QED
    BY <1>1, <1>5, <2>1, <2>2, <2>3, <2>4, ReadStep, MoneyStep
<1>9. CASE SaveComplete
  <2>1. MoneyShape'
    <3>1. [xfer EXCEPT !.st = "done"] \in Transfer
      BY <1>2 DEF Transfer
    <3>. QED
      BY <1>2, <1>5, <1>9, <3>1, TransferMoves DEF RetrievalInv, MoneyShape, SaveComplete
  <2>2. IsDeal([d EXCEPT !.st = "FundsNeededLastPayment"])
        /\ [d EXCEPT !.st = "FundsNeededLastPayment"].funds = d.funds
    BY <1>4, FieldsKeepFunds
  <2>3. \/ Save("pull", d, "idle")
        \/ Save("pull", [d EXCEPT !.st = "FundsNeededLastPayment"], "idle")
    BY <1>3, <1>9 DEF SaveComplete
  <2>4. rfaults' = rfaults \cup Stale("pull")
    BY <1>9 DEF SaveComplete
  <2>5. rfaults \subseteq rfaults' /\ Stale("pull") \subseteq rfaults'
    BY <2>4
  <2>6. CASE Save("pull", d, "idle")
    BY <1>1, <1>3, <1>4, <1>5, <2>1, <2>5, <2>6, SaveStep
  <2>7. CASE Save("pull", [d EXCEPT !.st = "FundsNeededLastPayment"], "idle")
    BY <1>1, <1>3, <1>5, <2>1, <2>2, <2>5, <2>7, SaveStep
  <2>. QED
    BY <2>3, <2>6, <2>7
<1>. QED
  BY <1>6, <1>7, <1>8, <1>9

\* The events of the transfer: accepted, complete, failed.
LEMMA EventInv ==
  ASSUME RetrievalInv, HandleAccept \/ SaveAccept \/ HandleComplete \/ TransferFails \/ SaveEvent
  PROVE  RetrievalInv'
<1>1. "event" \in Goroutines \ {"pay"}
  BY DEF Goroutines
<1>2. IsDeal(rd) /\ xfer \in Transfer
  BY DEF RetrievalInv, RecordShape, MoneyShape
<1>3. PICK d : d = rmem["event"].deal
  OBVIOUS
<1>4. IsDeal(d)
  BY <1>1, <1>3 DEF RetrievalInv, RecordShape, IsCopy
<1>5. UNCHANGED <<voucher, pay>>
  BY DEF HandleAccept, SaveAccept, HandleComplete, TransferFails, SaveEvent
<1>6. MoneyShape'
  <2>1. xfer' \in Transfer
    BY <1>2 DEF HandleAccept, SaveAccept, HandleComplete, TransferFails, SaveEvent, Transfer
  <2>. QED
    BY <1>5, <2>1 DEF RetrievalInv, MoneyShape
<1>7. CASE HandleAccept
  <2>1. IsDeal([rd EXCEPT !.chan = TRUE]) /\ [rd EXCEPT !.chan = TRUE].funds = rd.funds
    BY <1>2, FieldsKeepFunds
  <2>2. Read("event", [rd EXCEPT !.chan = TRUE], "accept") /\ UNCHANGED <<rd, rfaults>>
    BY <1>7 DEF HandleAccept
  <2>. QED
    BY <1>1, <1>5, <1>6, <2>1, <2>2, ReadStep
<1>8. CASE SaveAccept
  <2>1. PICK l : Save("event", d, l)
    BY <1>3, <1>8 DEF SaveAccept
  <2>2. rfaults' = rfaults \cup Stale("event")
    BY <1>8 DEF SaveAccept
  <2>. QED
    BY <1>1, <1>3, <1>4, <1>5, <1>6, <2>1, <2>2, SaveStep
<1>9. CASE HandleComplete
  <2>1. IsDeal([rd EXCEPT !.st = "Completed"]) /\ [rd EXCEPT !.st = "Completed"].funds = rd.funds
    BY <1>2, FieldsKeepFunds
  <2>2. Read("event", [rd EXCEPT !.st = "Completed"], "cleanup") /\ UNCHANGED <<rd, rfaults>>
    BY <1>9 DEF HandleComplete
  <2>. QED
    BY <1>1, <1>5, <1>6, <2>1, <2>2, ReadStep
<1>10. CASE TransferFails
  <2>1. IsDeal([rd EXCEPT !.st = "Errored"]) /\ [rd EXCEPT !.st = "Errored"].funds = rd.funds
    BY <1>2, FieldsKeepFunds
  <2>2. UNCHANGED rd /\ rfaults \subseteq rfaults'
    BY <1>10 DEF TransferFails, Fails
  <2>3. \/ Read("event", [rd EXCEPT !.st = "Errored"], "other")
        \/ Read("event", rd, "other")
    BY <1>10 DEF TransferFails
  <2>. QED
    BY <1>1, <1>2, <1>5, <1>6, <2>1, <2>2, <2>3, ReadStep
<1>11. CASE SaveEvent
  <2>1. Save("event", d, "idle") /\ rfaults' = rfaults \cup Stale("event")
    BY <1>3, <1>11 DEF SaveEvent
  <2>. QED
    BY <1>1, <1>3, <1>4, <1>5, <1>6, <2>1, SaveStep
<1>. QED
  BY <1>7, <1>8, <1>9, <1>10, <1>11

\* The client pays and pays again.
LEMMA ClientInv == ASSUME RetrievalInv, ClientPays \/ ClientResends PROVE RetrievalInv'
<1>1. pay \in Client /\ xfer \in Transfer
  BY DEF RetrievalInv, MoneyShape
<1>2. UNCHANGED <<rd, rpc, rmem, xfer, voucher, rfaults>>
  BY DEF ClientPays, ClientResends
<1>3. pay' \in Client
  <2>1. CASE ClientPays
    <3>1. PICK amt \in (pay.paid + 1) .. (UnsealPrice + xfer.sent * Price) :
            pay' = [pay EXCEPT !.paid = amt, !.msg = amt]
      BY <2>1 DEF ClientPays
    <3>2. pay.paid \in Nat /\ xfer.sent \in Nat
      BY <1>1 DEF Client, Transfer
    <3>3. PICK most : most = UnsealPrice + xfer.sent * Price
      OBVIOUS
    <3>4. most \in Int
      BY <3>2, <3>3, RetrievalAssumption
    <3>5. amt \in Nat
      BY <3>1, <3>2, <3>3, <3>4
    <3>. QED
      BY <1>1, <3>1, <3>5 DEF Client
  <2>2. CASE ClientResends
    <3>1. PICK n \in Nat : n = pay.resends + 1
      BY <1>1 DEF Client
    <3>2. PICK v \in Nat : v = pay.paid
      BY <1>1 DEF Client
    <3>3. pay' = [pay EXCEPT !.msg = v, !.resends = n]
      BY <1>1, <2>2, <3>1, <3>2 DEF ClientResends, Client
    <3>. QED
      BY <1>1, <3>3 DEF Client
  <2>. QED
    BY <2>1, <2>2
<1>4. MoneyShape'
  BY <1>2, <1>3 DEF RetrievalInv, MoneyShape
<1>. QED
  BY <1>2, <1>4, MoneyStep

\* Every step keeps the invariant.
LEMMA RetrievalNextInv == RetrievalInv /\ [RetrievalNext]_retrievalVars => RetrievalInv'
<1> SUFFICES ASSUME RetrievalInv, [RetrievalNext]_retrievalVars PROVE RetrievalInv'
  OBVIOUS
<1>1. CASE UNCHANGED retrievalVars
  <2>1. MoneyShape'
    BY <1>1 DEF RetrievalInv, MoneyShape, retrievalVars
  <2>. QED
    BY <1>1, <2>1, MoneyStep DEF retrievalVars
<1>. QED
  BY <1>1, ValidatePullInv, EventInv, UnsealInv, PullInv, RevalidateInv, SavePaymentInv, ClientInv
  DEF RetrievalNext, RetrievalProgress

\* FundsCounted: whatever the goroutines of a retrieval overwrite, however often
\* a voucher is sent, the record of the deal never claims more than the vouchers
\* accepted, and claims all of it once the payment is saved, unless that save
\* failed or a stale copy went over it.
THEOREM FundsAreCounted == RetrievalSpec => []FundsCounted
<1>1. RetrievalInit => RetrievalInv
  BY RetrievalInitInv
<1>2. RetrievalInv /\ [RetrievalNext]_retrievalVars => RetrievalInv'
  BY RetrievalNextInv
<1>3. RetrievalInv => FundsCounted
  BY DEF RetrievalInv, CopiesCovered, RecordExact, Undisturbed, FundsCounted
<1>. QED
  BY <1>1, <1>2, <1>3, PTL DEF RetrievalSpec

-----------------------------------------------------------------------------
(* How far the data runs ahead of the payments.                              *)

\* c is the bound of an interval, and v pays for the interval before the last.
InPaidInterval(c, v) ==
  \E k \in 0 .. (Size + 2) :
    /\ c = IntervalBound(k)
    /\ k >= 3 => v >= UnsealPrice + IntervalBound(k - 2) * Price

\* A record that may be in the store once v is paid, and so may all copies of it.
Sound(d, v) == d.sent \in Nat /\ d.chan \in BOOLEAN /\ (Price > 0 => InPaidInterval(d.cur, v))

RecordsSound == Sound(rd, voucher) /\ \A a \in Goroutines : Sound(rmem[a].deal, voucher)

\* The client pays for what it has received, and no more than that is accepted.
PaidForReceived ==
  /\ xfer.sent <= Size /\ pay.msg <= pay.paid /\ voucher <= pay.paid
  /\ pay.paid <= UnsealPrice + xfer.sent * Price

\* The steps of each goroutine.
Places ==
  /\ rpc["pull"] \in {"idle", "sent", "blocks"} /\ rpc["pay"] \in {"idle", "partial", "paid"}
  /\ rpc["event"] \in {"idle", "accept", "unsealing", "load", "resume", "unsealed", "cleanup", "other"}
  /\ rpc["unseal"] \in {"idle", "unsealing", "load", "resume", "unsealed"}

\* The statuses before unsealing, and the steps of unsealing up to the transfer.
Early == {"none", "New", "FundsNeededUnseal"}
UnsealingSteps == {"unsealing", "load", "resume"}

\* What the copy of a goroutine at step l changes of the record it was read from:
\* a block is counted at "sent", an interval added at "paid".
CopyFits(l, c) ==
  /\ c.base.st # "none" /\ c.base.cur >= Interval
  /\ c.deal.sent = c.base.sent + (IF l = "sent" THEN 1 ELSE 0)
  /\ IF l = "paid" /\ c.base.st # "FundsNeededUnseal"
     THEN c.deal.cur >= c.base.cur + Interval ELSE c.deal.cur = c.base.cur
  /\ c.base.chan => c.deal.chan
  /\ c.deal.st \in Early => c.deal.st = c.base.st
  /\ l \in UnsealingSteps => c.deal.cur = Interval
  /\ l \in UnsealingSteps \cup {"accept"} => c.deal.chan
  /\ l = "resume" => c.base.st = "Unsealed"
  /\ l \in {"partial", "paid"} => c.base.chan /\ c.base.st # "New"
  /\ l = "paid" => c.deal.st \notin Early

CopiesFit == \A a \in Goroutines : rpc[a] # "idle" => CopyFits(rpc[a], rmem[a])

\* The block that is sent and not yet in the record.
OnItsWay == IF rpc["pull"] = "sent" THEN 1 ELSE 0

\* A transfer that runs has not filled its interval; one that is paused ends its
\* queue within the blocks queued after it.
SentInInterval ==
  /\ xfer.sent = rd.sent + OnItsWay
  /\ xfer.sent <= rd.cur + Queued
  /\ xfer.st = "paused" => xfer.sent + xfer.queued <= rd.cur + Queued
  /\ xfer.st = "sending" => xfer.sent < rd.cur + OnItsWay

Quiet == xfer.sent = 0 /\ xfer.queued = 0 /\ xfer.st # "sending"

\* Nothing is sent before the data is unsealed.
QuietBefore ==
  /\ rd = NoDeal \/ (rd.cur >= Interval /\ rd.st # "none")
  /\ loaded => rd.chan /\ rd.st \notin Early
  /\ rd.st \in Early => Quiet /\ (rd.st # "none" => rd.cur = Interval)
  /\ rd.st = "New" => UnsealPrice = 0
  /\ rd.st = "FundsNeededUnseal" => UnsealPrice > 0

\* One goroutine unseals, and unless a payment has moved the interval meanwhile
\* nothing is sent until it resumes the transfer.
QuietWhileUnsealing ==
  \A a \in {"event", "unseal"} : rpc[a] \in UnsealingSteps =>
    /\ a = "event" <=> UnsealPrice = 0
    /\ rd.cur = Interval => Quiet

Core == CopiesFit /\ SentInInterval /\ QuietBefore /\ QuietWhileUnsealing

Orderly == Price > 0 /\ Queued < Interval /\ rfaults \cap {"stale", "early"} = {}

ExposureInv == RecordsSound /\ PaidForReceived /\ Places /\ (Orderly => Core)

-----------------------------------------------------------------------------
(* Payment intervals.                                                        *)

\* k * (k - 1) is a natural number and grows with k.
LEMMA PairsGrow ==
  ASSUME NEW i \in Nat, NEW j \in Nat, i <= j
  PROVE  i * (i - 1) \in Nat /\ j * (j - 1) \in Nat /\ i * (i - 1) <= j * (j - 1)
<1>1. \A n \in Nat : n * (n - 1) \in Nat
  OBVIOUS
<1>2. CASE i = 0
  BY <1>1, <1>2
<1>3. CASE i # 0
  <2>1. PICK a \in Nat, b \in Nat : i = a + 1 /\ j = a + 1 + b
    <3>1. i - 1 \in Nat /\ j - i \in Nat
      BY <1>3
    <3>. QED
      BY <3>1
  <2>2. i * (i - 1) = a * a + a
    BY <2>1
  <2>3. j * (j - 1) = (a * a + a) + (a * b + b + b * (a + b))
    BY <2>1
  <2>4. a * b + b + b * (a + b) \in Nat
    OBVIOUS
  <2>. QED
    BY <1>1, <2>2, <2>3, <2>4
<1>. QED
  BY <1>2, <1>3

\* Bounds are at least an interval apart, and the k-th is at least k.
LEMMA BoundsGrow ==
  ASSUME NEW i \in Nat
  PROVE  /\ IntervalBound(i) \in Nat /\ IntervalBound(i) >= i
         /\ \A j \in Nat : i < j => IntervalBound(i) + Interval <= IntervalBound(j)
<1>1. Interval \in Nat /\ Interval >= 1 /\ Increase \in Nat
  BY RetrievalAssumption
<1>2. \A n \in Nat : n * Interval \in Nat /\ n * Interval >= n
  BY <1>1
<1>3. \A n \in Nat : (n * (n - 1)) \div 2 \in Nat
  <2>1. TAKE n \in Nat
  <2>2. PICK m \in Nat : m = n * (n - 1)
    BY PairsGrow
  <2>. QED
    BY <2>2
<1>4. \A m \in Nat : Increase * m \in Nat
  BY <1>1
<1>5. IntervalBound(i) \in Nat /\ IntervalBound(i) >= i
  BY <1>2, <1>3, <1>4 DEF IntervalBound
<1>6. ASSUME NEW j \in Nat, i < j PROVE IntervalBound(i) + Interval <= IntervalBound(j)
  <2>1. PICK p \in Nat, q \in Nat : p = i * (i - 1) /\ q = j * (j - 1) /\ p <= q
    BY <1>6, PairsGrow
  <2>2. PICK x \in Nat, y \in Nat : x = p \div 2 /\ y = q \div 2 /\ x <= y
    BY <2>1
  <2>3. Increase * x \in Nat /\ Increase * y \in Nat /\ Increase * x <= Increase * y
    <3>1. PICK z \in Nat : y = x + z
      <4>1. y - x \in Nat
        BY <2>2
      <4>. QED
        BY <4>1
    <3>2. Increase * y = Increase * x + Increase * z
      BY <1>1, <3>1
    <3>. QED
      BY <1>4, <3>2
  <2>4. i * Interval + Interval <= j * Interval
    <3>1. PICK z \in Nat : j = i + 1 + z
      <4>1. j - i - 1 \in Nat
        BY <1>6
      <4>. QED
        BY <4>1
    <3>2. j * Interval = i * Interval + Interval + z * Interval
      BY <1>1, <3>1
    <3>. QED
      BY <1>2, <3>2, <1>1
  <2>5. IntervalBound(i) = i * Interval + Increase * x /\ IntervalBound(j) = j * Interval + Increase * y
    BY <2>1, <2>2 DEF IntervalBound
  <2>. QED
    BY <1>1, <1>2, <2>3, <2>4, <2>5
<1>. QED
  BY <1>5, <1>6

\* The first two bounds.
LEMMA FirstBounds == IntervalBound(0) = 0 /\ IntervalBound(1) = Interval
<1>1. Interval \in Nat /\ Increase \in Nat
  BY RetrievalAssumption
<1>2. Increase * 0 = 0 /\ 0 * Interval = 0 /\ 1 * Interval = Interval
  BY <1>1
<1>3. (0 * (0 - 1)) \div 2 = 0 /\ (1 * (1 - 1)) \div 2 = 0
  OBVIOUS
<1>. QED
  BY <1>1, <1>2, <1>3 DEF IntervalBound

\* The interval after a bound.
LEMMA NextBound ==
  ASSUME NEW k \in 0 .. (Size + 2)
  PROVE  NextInterval(IntervalBound(k)) = IntervalBound(k + 1)
<1>1. Size \in Nat /\ Interval \in Nat /\ Interval >= 1 /\ k \in Nat /\ k + 1 \in Nat /\ k + 1 \in 0 .. (Size + 3)
  BY RetrievalAssumption
<1>2. IntervalBound(k + 1) \in Bounds
  BY <1>1 DEF Bounds
<1>3. IntervalBound(k + 1) > IntervalBound(k)
  BY <1>1, BoundsGrow
<1>4. ASSUME NEW x \in Bounds, x > IntervalBound(k) PROVE x \in Nat /\ IntervalBound(k + 1) <= x
  <2>1. PICK j \in 0 .. (Size + 3) : x = IntervalBound(j)
    BY DEF Bounds
  <2>2. j \in Nat
    BY <1>1
  <2>3. ~ (j < k) /\ j # k
    BY <1>1, <1>4, <2>1, <2>2, BoundsGrow
  <2>4. j = k + 1 \/ k + 1 < j
    BY <1>1, <2>2, <2>3
  <2>. QED
    BY <1>1, <2>1, <2>2, <2>4, BoundsGrow
<1> DEFINE P(b) == b > IntervalBound(k) /\ \A x \in Bounds : x > IntervalBound(k) => b <= x
<1>5. P(IntervalBound(k + 1))
  BY <1>3, <1>4
<1>6. P(NextInterval(IntervalBound(k))) /\ NextInterval(IntervalBound(k)) \in Bounds
  BY <1>2, <1>5 DEF NextInterval
<1>7. /\ NextInterval(IntervalBound(k)) <= IntervalBound(k + 1)
      /\ IntervalBound(k + 1) <= NextInterval(IntervalBound(k))
      /\ NextInterval(IntervalBound(k)) \in Nat
  BY <1>2, <1>3, <1>4, <1>6
<1>8. IntervalBound(k + 1) \in Nat
  BY <1>1, BoundsGrow
<1>. QED
  BY <1>7, <1>8

\* The interval before a bound.
LEMMA LowerBoundOf ==
  ASSUME NEW k \in Nat, k + 1 \in 0 .. (Size + 3)
  PROVE  IntervalLowerBound(IntervalBound(k + 1)) = IntervalBound(k)
<1>1. Size \in Nat /\ Interval \in Nat /\ Interval >= 1 /\ k + 1 \in Nat /\ k \in 0 .. (Size + 3)
  BY RetrievalAssumption
<1>2. IntervalBound(k) \in Bounds /\ IntervalBound(k) \in Nat
  BY <1>1, BoundsGrow DEF Bounds
<1>3. IntervalBound(k + 1) > IntervalBound(k) /\ IntervalBound(k + 1) # 0
  BY <1>1, BoundsGrow
<1>4. ASSUME NEW x \in Bounds, x < IntervalBound(k + 1) PROVE x \in Nat /\ x <= IntervalBound(k)
  <2>1. PICK j \in 0 .. (Size + 3) : x = IntervalBound(j)
    BY DEF Bounds
  <2>2. j \in Nat
    BY <1>1
  <2>3. ~ (k + 1 < j) /\ j # k + 1
    BY <1>1, <1>4, <2>1, <2>2, BoundsGrow
  <2>4. j = k \/ j < k
    BY <1>1, <2>2, <2>3
  <2>. QED
    BY <1>1, <2>1, <2>2, <2>4, BoundsGrow
<1> DEFINE P(b) == b < IntervalBound(k + 1) /\ \A x \in Bounds : x < IntervalBound(k + 1) => x <= b
<1>5. P(IntervalBound(k))
  BY <1>3, <1>4
<1>6. PICK low : low = CHOOSE b \in Bounds : P(b)
  OBVIOUS
<1>7. P(low) /\ low \in Bounds
  BY <1>2, <1>5, <1>6
<1>8. IntervalLowerBound(IntervalBound(k + 1)) = low
  BY <1>3, <1>6 DEF IntervalLowerBound
<1>9. low <= IntervalBound(k) /\ IntervalBound(k) <= low /\ low \in Nat
  BY <1>2, <1>3, <1>4, <1>7
<1>. QED
  BY <1>2, <1>8, <1>9

\* What BoundedExposure says of the vouchers.
LEMMA IntervalBeforeLastPaid ==
  ASSUME NEW c, NEW v \in Nat, InPaidInterval(c, v)
  PROVE  /\ c \in Nat
         /\ LET b == IntervalLowerBound(IntervalLowerBound(c)) IN b > 0 => v >= UnsealPrice + b * Price
<1>1. PICK k \in 0 .. (Size + 2) :
        c = IntervalBound(k) /\ (k >= 3 => v >= UnsealPrice + IntervalBound(k - 2) * Price)
  BY DEF InPaidInterval
<1>2. k \in Nat /\ Size \in Nat /\ c \in Nat
  BY <1>1, RetrievalAssumption, BoundsGrow
<1>3. IntervalLowerBound(0) = 0 /\ ~ (0 > 0)
  BY DEF IntervalLowerBound
<1>4. CASE k = 0
  BY <1>1, <1>2, <1>3, <1>4, FirstBounds
<1>5. CASE k >= 1
  <2>1. PICK i \in Nat : i = k - 1
    BY <1>2, <1>5
  <2>2. IntervalLowerBound(c) = IntervalBound(i)
    <3>1. i + 1 = k /\ i + 1 \in 0 .. (Size + 3)
      BY <1>2, <2>1
    <3>. QED
      BY <1>1, <3>1, LowerBoundOf
  <2>3. CASE i = 0
    BY <1>2, <1>3, <2>2, <2>3, FirstBounds
  <2>4. CASE i >= 1
    <3>1. PICK j \in Nat : j = i - 1
      BY <2>4
    <3>2. j + 1 = i /\ j + 1 \in 0 .. (Size + 3) /\ j = k - 2
      BY <1>2, <2>1, <3>1
    <3>3. IntervalLowerBound(IntervalLowerBound(c)) = IntervalBound(j)
      BY <2>2, <3>2, LowerBoundOf
    <3>4. CASE j = 0
      BY <1>2, <1>3, <3>3, <3>4, FirstBounds
    <3>5. CASE j >= 1
      <4>1. k >= 3
        BY <1>2, <3>2, <3>5
      <4>. QED
        BY <1>1, <1>2, <3>2, <3>3, <4>1
    <3>. QED
      BY <3>4, <3>5
  <2>. QED
    BY <2>3, <2>4
<1>. QED
  BY <1>2, <1>4, <1>5

\* More vouchers pay for more.
LEMMA PaidMore ==
  ASSUME NEW c, NEW v \in Nat, NEW w \in Nat, v <= w, InPaidInterval(c, v)
  PROVE  InPaidInterval(c, w)
<1>1. PICK k \in 0 .. (Size + 2) :
        c = IntervalBound(k) /\ (k >= 3 => v >= UnsealPrice + IntervalBound(k - 2) * Price)
  BY DEF InPaidInterval
<1>2. ASSUME k >= 3 PROVE w >= UnsealPrice + IntervalBound(k - 2) * Price
  <2>1. Size \in Nat /\ k - 2 \in Nat /\ UnsealPrice \in Nat /\ Price \in Nat
    BY <1>2, RetrievalAssumption
  <2>2. IntervalBound(k - 2) \in Nat
    BY <2>1, BoundsGrow
  <2>3. PICK n \in Nat : n = IntervalBound(k - 2) * Price
    BY <2>1, <2>2
  <2>. QED
    BY <1>1, <1>2, <2>1, <2>3
<1>. QED
  BY <1>1, <1>2 DEF InPaidInterval

\* So a sound record stays sound.
LEMMA SoundMore ==
  ASSUME NEW d, NEW v \in Nat, NEW w \in Nat, v <= w, Sound(d, v)
  PROVE  Sound(d, w)
  BY PaidMore DEF Sound

\* A payment that covers what is owed begins the next interval: the client has
\* received the data of the interval that it pays for.
LEMMA PaymentAdvances ==
  ASSUME Price > 0, NEW d, NEW v \in Nat, InPaidInterval(d.cur, v),
         NEW total \in Nat, NEW w \in Nat, total <= w, NEW n \in Nat, n <= Size, w <= UnsealPrice + n * Price,
         ~ (PaymentOwed(d, total) > 0)
  PROVE  InPaidInterval(NextInterval(d.cur), w) /\ NextInterval(d.cur) >= d.cur + Interval
<1>1. PICK k \in 0 .. (Size + 2) : d.cur = IntervalBound(k)
  BY DEF InPaidInterval
<1>2. Price \in Nat /\ UnsealPrice \in Nat /\ Size \in Nat /\ Interval \in Nat /\ k \in Nat
  BY <1>1, RetrievalAssumption
<1>3. NextInterval(d.cur) = IntervalBound(k + 1)
  BY <1>1, NextBound
<1>4. NextInterval(d.cur) >= d.cur + Interval
  BY <1>1, <1>2, <1>3, BoundsGrow
<1>5. CASE k = 0
  BY <1>2, <1>3, <1>4, <1>5 DEF InPaidInterval
<1>6. CASE k >= 1
  <2>1. PICK i \in Nat : k = i + 1
    <3>1. k - 1 \in Nat
      BY <1>2, <1>6
    <3>. QED
      BY <1>2, <3>1
  <2>2. i + 1 \in 0 .. (Size + 3)
    BY <1>2, <2>1
  <2>3. PICK b \in Nat : b = IntervalBound(i) /\ b >= i
    BY BoundsGrow
  <2>4. IntervalLowerBound(d.cur) = b
    BY <1>1, <2>1, <2>2, <2>3, LowerBoundOf
  <2>5. PICK x \in Nat : x = b * Price
    BY <1>2
  <2>6. UnsealPrice <= total
    BY <1>2 DEF PaymentOwed
  <2>7. x <= total - UnsealPrice
    BY <1>2, <2>4, <2>5, <2>6 DEF PaymentOwed
  <2>8. PICK y \in Nat : y = n * Price
    BY <1>2
  <2>9. x <= y /\ UnsealPrice + x <= w
    BY <1>2, <2>6, <2>7, <2>8
  <2>10. b <= n
    <3>1. SUFFICES ASSUME b > n PROVE FALSE
      OBVIOUS
    <3>2. PICK z \in Nat : b = n + 1 + z
      <4>1. b - n - 1 \in Nat
        BY <3>1
      <4>. QED
        BY <4>1
    <3>3. b * Price = n * Price + Price + z * Price /\ z * Price \in Nat
      BY <1>2, <3>2
    <3>. QED
      BY <1>2, <2>5, <2>8, <2>9, <3>3
  <2>11. k + 1 \in 0 .. (Size + 2) /\ (k + 1) - 2 = i
    BY <1>2, <2>1, <2>3, <2>10
  <2>12. w >= UnsealPrice + IntervalBound((k + 1) - 2) * Price
    BY <1>2, <2>3, <2>5, <2>9, <2>11
  <2>. QED
    BY <1>3, <1>4, <2>11, <2>12 DEF InPaidInterval
<1>. QED
  BY <1>2, <1>5, <1>6

-----------------------------------------------------------------------------
(* Records and copies.                                                       *)

\* The fields after an assignment to one of them.
LEMMA FieldSet ==
  ASSUME NEW d, IsDeal(d), NEW v
  PROVE  /\ [d EXCEPT !.st = v].st = v /\ [d EXCEPT !.st = v].sent = d.sent
         /\ [d EXCEPT !.st = v].cur = d.cur /\ [d EXCEPT !.st = v].chan = d.chan
         /\ [d EXCEPT !.chan = v].st = d.st /\ [d EXCEPT !.chan = v].sent = d.sent
         /\ [d EXCEPT !.chan = v].cur = d.cur /\ [d EXCEPT !.chan = v].chan = v
         /\ [d EXCEPT !.funds = v].st = d.st /\ [d EXCEPT !.funds = v].sent = d.sent
         /\ [d EXCEPT !.funds = v].cur = d.cur /\ [d EXCEPT !.funds = v].chan = d.chan
  BY DEF IsDeal

\* A record is sound by its count of blocks, its interval and its channel.
LEMMA SoundFields ==
  ASSUME NEW d, NEW e, NEW v, Sound(d, v), e.sent = d.sent, e.cur = d.cur, e.chan = d.chan
  PROVE  Sound(e, v)
  BY DEF Sound

\* The record before the request is sound.
LEMMA NoDealSound ==
  ASSUME NEW v
  PROVE  Sound(NoDeal, v) /\ NoDeal.st = "none" /\ NoDeal.cur = 0 /\ NoDeal.chan = FALSE /\ NoDeal.sent = 0
<1>1. NoDeal.st = "none" /\ NoDeal.cur = 0 /\ NoDeal.chan = FALSE /\ NoDeal.sent = 0
  BY DEF NoDeal
<1>2. 0 \in 0 .. (Size + 2) /\ ~ (0 >= 3)
  BY RetrievalAssumption
<1>3. InPaidInterval(0, v)
  BY <1>2, FirstBounds DEF InPaidInterval
<1>4. InPaidInterval(NoDeal.cur, v)
  BY <1>1, <1>3, Zenon
<1>5. NoDeal.sent \in Nat /\ NoDeal.chan \in BOOLEAN
  BY DEF NoDeal
<1>. QED
  BY <1>1, <1>4, <1>5, Zenon DEF Sound

\* A block more.
LEMMA DataSentFields ==
  ASSUME NEW d, IsDeal(d)
  PROVE  /\ DataSent(d).sent = d.sent + 1 /\ DataSent(d).cur = d.cur /\ DataSent(d).chan = d.chan
         /\ d.st \notin Early => DataSent(d).st \notin Early
<1>1. PICK s : s = d.sent + 1
  OBVIOUS
<1>2. PICK x : x = CASE d.st \in {"Ongoing", "Unsealed"} -> "FundsNeeded"
                     [] d.st = "BlocksComplete" -> "FundsNeededLastPayment"
                     [] d.st = "New" -> "FundsNeededUnseal"
                     [] OTHER -> d.st
  OBVIOUS
<1>3. d.st \notin Early => x \notin Early
  BY <1>2 DEF Early
<1>4. \/ DataSent(d) = [d EXCEPT !.st = "Ongoing", !.sent = s]
      \/ DataSent(d) = [d EXCEPT !.sent = s, !.st = x]
  BY <1>1, <1>2 DEF DataSent, IsDeal
<1>5. CASE DataSent(d) = [d EXCEPT !.st = "Ongoing", !.sent = s]
  BY <1>1, <1>5 DEF IsDeal, Early
<1>6. CASE DataSent(d) = [d EXCEPT !.sent = s, !.st = x]
  <2>1. DataSent(d).sent = s /\ DataSent(d).cur = d.cur /\ DataSent(d).chan = d.chan /\ DataSent(d).st = x
    BY <1>6 DEF IsDeal
  <2>. QED
    BY <1>1, <1>3, <2>1
<1>. QED
  BY <1>4, <1>5, <1>6

\* The next interval and status.
LEMMA ResumedFields ==
  ASSUME NEW d, IsDeal(d)
  PROVE  /\ Resumed(d).sent = d.sent /\ Resumed(d).chan = d.chan
         /\ Resumed(d).cur = IF d.st = "FundsNeededUnseal" THEN d.cur ELSE NextInterval(d.cur)
         /\ d.st \notin {"none", "New"} => Resumed(d).st \notin Early
<1>1. PICK c : c = IF d.st = "FundsNeededUnseal" THEN d.cur ELSE NextInterval(d.cur)
  OBVIOUS
<1>2. PICK x : x = CASE d.st = "FundsNeeded" -> "Ongoing"
                     [] d.st = "FundsNeededLastPayment" -> "Finalizing"
                     [] d.st = "FundsNeededUnseal" -> "Unsealing"
                     [] OTHER -> d.st
  OBVIOUS
<1>3. d.st \notin {"none", "New"} => x \notin Early
  BY <1>2 DEF Early
<1>4. Resumed(d) = [d EXCEPT !.cur = c, !.st = x]
  BY <1>1, <1>2 DEF Resumed, IsDeal
<1>5. Resumed(d).sent = d.sent /\ Resumed(d).chan = d.chan /\ Resumed(d).cur = c /\ Resumed(d).st = x
  BY <1>4 DEF IsDeal
<1>. QED
  BY <1>1, <1>3, <1>5

\* One copy changes.
LEMMA SoundStep ==
  ASSUME RecordShape, RecordsSound, voucher \in Nat, voucher' \in Nat, voucher <= voucher',
         NEW a \in Goroutines, NEW c, rmem' = [rmem EXCEPT ![a] = c],
         Sound(rd', voucher'), Sound(c.deal, voucher')
  PROVE  RecordsSound'
<1>1. ASSUME NEW b \in Goroutines PROVE Sound(rmem'[b].deal, voucher')
  <2>1. CASE b = a
    BY <2>1 DEF RecordShape
  <2>2. CASE b # a
    <3>1. rmem'[b] = rmem[b]
      BY <2>2 DEF RecordShape
    <3>2. Sound(rmem[b].deal, voucher)
      BY DEF RecordsSound
    <3>. QED
      BY <3>1, <3>2, SoundMore
  <2>. QED
    BY <2>1, <2>2
<1>. QED
  BY <1>1 DEF RecordsSound

\* One goroutine moves on, with a copy that fits its new step.
LEMMA FitStep ==
  ASSUME RecordShape, CopiesFit, NEW a \in Goroutines, NEW l, NEW c,
         rpc' = [rpc EXCEPT ![a] = l], rmem' = [rmem EXCEPT ![a] = c],
         l # "idle" => CopyFits(l, c)
  PROVE  CopiesFit'
<1>1. ASSUME NEW b \in Goroutines, rpc'[b] # "idle" PROVE CopyFits(rpc'[b], rmem'[b])
  <2>1. CASE b = a
    <3>1. rpc'[b] = l /\ rmem'[b] = c
      BY <2>1 DEF RecordShape
    <3>. QED
      BY <1>1, <3>1
  <2>2. CASE b # a
    <3>1. rpc'[b] = rpc[b] /\ rmem'[b] = rmem[b]
      BY <2>2 DEF RecordShape
    <3>. QED
      BY <1>1, <3>1 DEF CopiesFit
  <2>. QED
    BY <2>1, <2>2
<1>. QED
  BY <1>1 DEF CopiesFit

-----------------------------------------------------------------------------
(* The transfer.                                                             *)

\* A step that neither sends a block nor resumes the transfer.
Calm ==
  /\ xfer' \in Transfer /\ xfer'.sent = xfer.sent
  /\ xfer'.st = "sending" => xfer.st = "sending"
  /\ xfer'.st = "paused" => \/ xfer.st = "paused" /\ xfer'.queued = xfer.queued
                            \/ xfer.st = "sending" /\ xfer'.queued = Queued
  /\ xfer.st # "sending" => xfer'.queued = xfer.queued

\* Leaving the transfer alone, pausing, closing and ending it.
LEMMA CalmMoves ==
  ASSUME xfer \in Transfer,
         \/ UNCHANGED xfer
         \/ xfer' = Pause(xfer)
         \/ \E d : xfer' = Close(d)
         \/ xfer' = [xfer EXCEPT !.st = "done"]
         \/ xfer' = [xfer EXCEPT !.st = "closed"]
         \/ xfer' = [xfer EXCEPT !.accepted = TRUE]
         \/ \E t \in {xfer.st, "done"} : xfer' = [xfer EXCEPT !.complete = TRUE, !.st = t]
  PROVE  Calm
<1>1. CASE UNCHANGED xfer
  BY <1>1 DEF Calm
<1>2. CASE xfer' = Pause(xfer)
  <2>1. xfer' \in Transfer
    BY <1>2, TransferMoves
  <2>. QED
    BY <1>2, <2>1 DEF Calm, Pause, Transfer
<1>3. CASE xfer' = [xfer EXCEPT !.st = "done"]
  BY <1>3 DEF Calm, Transfer
<1>4. CASE xfer' = [xfer EXCEPT !.st = "closed"]
  BY <1>4 DEF Calm, Transfer
<1>5. CASE xfer' = [xfer EXCEPT !.accepted = TRUE]
  BY <1>5 DEF Calm, Transfer
<1>6. CASE \E t \in {xfer.st, "done"} : xfer' = [xfer EXCEPT !.complete = TRUE, !.st = t]
  BY <1>6 DEF Calm, Transfer
<1>7. CASE \E d : xfer' = Close(d)
  BY <1>1, <1>4, <1>7 DEF Close
<1>. QED
  BY <1>1, <1>2, <1>3, <1>4, <1>5, <1>6, <1>7

\* Resuming.
LEMMA ResumeMove ==
  ASSUME xfer \in Transfer, xfer' = Resume
  PROVE  /\ xfer' \in Transfer /\ xfer'.sent = xfer.sent /\ xfer'.queued = xfer.queued
         /\ xfer'.st \notin {"paused"} /\ (xfer'.st # "sending" => xfer'.st = xfer.st)
  BY DEF Resume, Transfer

\* What the transfer has sent stays within the interval, as long as the record
\* counts it and the interval does not shrink.
LEMMA CalmSent ==
  ASSUME xfer \in Transfer, SentInInterval, Calm, Queued \in Nat,
         rd.cur \in Nat, rd'.cur \in Nat, rd'.cur >= rd.cur, rd.sent \in Nat, rd'.sent \in Nat,
         xfer'.sent = rd'.sent + OnItsWay',
         xfer'.st = "sending" => xfer'.sent < rd'.cur + OnItsWay'
  PROVE  SentInInterval'
<1>1. xfer.sent \in Nat /\ xfer.queued \in Nat /\ xfer'.sent \in Nat /\ xfer'.queued \in Nat
  BY DEF Calm, Transfer
<1>2. xfer'.sent <= rd'.cur + Queued
  BY <1>1 DEF Calm, SentInInterval
<1>3. ASSUME xfer'.st = "paused" PROVE xfer'.sent + xfer'.queued <= rd'.cur + Queued
  <2>1. CASE xfer.st = "paused" /\ xfer'.queued = xfer.queued
    BY <1>1, <2>1 DEF Calm, SentInInterval
  <2>2. CASE xfer.st = "sending" /\ xfer'.queued = Queued
    <3>1. xfer.sent <= rd.cur
      BY <1>1, <2>2 DEF SentInInterval, OnItsWay
    <3>. QED
      BY <1>1, <2>2, <3>1 DEF Calm
  <2>. QED
    BY <1>3, <2>1, <2>2 DEF Calm
<1>. QED
  BY <1>2, <1>3 DEF SentInInterval

\* A calm step sends nothing.
LEMMA CalmQuiet ==
  ASSUME Calm, Quiet
  PROVE  Quiet'
  BY DEF Calm, Quiet

\* The record keeps its early status or leaves it, and a blockstore is only
\* tracked for a record that has left it.
LEMMA QuietBeforeStep ==
  ASSUME QuietBefore, rd # NoDeal, rd'.cur \in Nat, rd'.cur >= Interval,
         rd'.st \in Early => rd'.st = rd.st /\ rd'.cur = rd.cur /\ (Quiet => Quiet'),
         rd.st # "none",
         loaded' => rd'.chan /\ rd'.st \notin Early
  PROVE  QuietBefore'
<1>1. rd'.st # "none"
  BY DEF Early
<1>2. rd'.st \in Early => Quiet' /\ rd'.cur = Interval
  BY DEF QuietBefore
<1>3. (rd'.st = "New" => UnsealPrice = 0) /\ (rd'.st = "FundsNeededUnseal" => UnsealPrice > 0)
  BY DEF QuietBefore, Early
<1>. QED
  BY <1>1, <1>2, <1>3 DEF QuietBefore

\* One goroutine moves on, and begins or continues an unsealing only in the quiet.
LEMMA QuietUnsealStep ==
  ASSUME RecordShape, QuietWhileUnsealing, NEW a \in Goroutines, NEW l, rpc' = [rpc EXCEPT ![a] = l],
         rd'.cur = Interval => rd.cur = Interval /\ (Quiet => Quiet'),
         a \in {"event", "unseal"} /\ l \in UnsealingSteps =>
           (a = "event" <=> UnsealPrice = 0) /\ (rd.cur = Interval => Quiet)
  PROVE  QuietWhileUnsealing'
<1>1. ASSUME NEW b \in {"event", "unseal"}, rpc'[b] \in UnsealingSteps
      PROVE  (b = "event" <=> UnsealPrice = 0) /\ (rd'.cur = Interval => Quiet')
  <2>1. b \in Goroutines
    BY DEF Goroutines
  <2>2. CASE b = a
    <3>1. rpc'[b] = l
      BY <2>1, <2>2 DEF RecordShape
    <3>. QED
      BY <1>1, <2>2, <3>1
  <2>3. CASE b # a
    <3>1. rpc'[b] = rpc[b]
      BY <2>1, <2>3 DEF RecordShape
    <3>. QED
      BY <1>1, <3>1 DEF QuietWhileUnsealing
  <2>. QED
    BY <2>2, <2>3
<1>. QED
  BY <1>1 DEF QuietWhileUnsealing

-----------------------------------------------------------------------------
(* The kinds of steps.                                                       *)

\* The history is only added to, and a step on a stale copy is in it.
LEMMA OrderlyBefore ==
  ASSUME Orderly', rfaults \subseteq rfaults'
  PROVE  Orderly /\ \A a : Stale(a) \subseteq rfaults' => rmem[a].base = rd
  BY DEF Orderly, Stale

\* The types of the fields of a sound record.
LEMMA SoundTypes ==
  ASSUME NEW d, NEW v \in Nat, Sound(d, v)
  PROVE  d.sent \in Nat /\ d.chan \in BOOLEAN /\ (Price > 0 => d.cur \in Nat)
  BY IntervalBeforeLastPaid DEF Sound

\* Nothing is paid and nothing is sent.
LEMMA PaidStep ==
  ASSUME PaidForReceived, UNCHANGED <<pay, voucher>>, xfer'.sent = xfer.sent
  PROVE  PaidForReceived'
  BY DEF PaidForReceived

\* Only the transfer moves, calmly.
LEMMA CalmCore ==
  ASSUME RetrievalInv, RecordsSound, Price > 0, Core, UNCHANGED <<rd, rpc, rmem, loaded>>, Calm
  PROVE  Core'
<1>1. xfer \in Transfer /\ voucher \in Nat /\ Queued \in Nat
  BY RetrievalAssumption DEF RetrievalInv, MoneyShape
<1>2. rd.cur \in Nat /\ rd.sent \in Nat
  BY <1>1, SoundTypes DEF RecordsSound
<1>3. OnItsWay' = OnItsWay
  BY DEF OnItsWay
<1>4. xfer'.sent = rd'.sent + OnItsWay' /\ (xfer'.st = "sending" => xfer'.sent < rd'.cur + OnItsWay')
  BY <1>3 DEF Core, SentInInterval, Calm
<1>5. SentInInterval'
  BY <1>1, <1>2, <1>4, CalmSent DEF Core
<1>6. Quiet => Quiet'
  BY CalmQuiet
<1>7. QuietBefore' /\ QuietWhileUnsealing' /\ CopiesFit'
  BY <1>6 DEF Core, QuietBefore, QuietWhileUnsealing, CopiesFit
<1>. QED
  BY <1>5, <1>7 DEF Core

\* A goroutine at rest reads the record.
LEMMA ReadCore ==
  ASSUME RetrievalInv, RecordsSound, Price > 0, Core, NEW a \in Goroutines, rpc[a] = "idle",
         NEW l, l \notin UnsealingSteps, l # "sent", NEW d, Read(a, d, l),
         CopyFits(l, [base |-> rd, deal |-> d]), UNCHANGED <<rd, loaded>>, Calm
  PROVE  Core'
<1>1. PICK c : c = [base |-> rd, deal |-> d]
  OBVIOUS
<1>2. CopyFits(l, c) /\ rpc' = [rpc EXCEPT ![a] = l] /\ rmem' = [rmem EXCEPT ![a] = c]
  BY <1>1 DEF Read
<1>3. xfer \in Transfer /\ voucher \in Nat /\ Queued \in Nat /\ RecordShape
  BY RetrievalAssumption DEF RetrievalInv, MoneyShape
<1>4. CopiesFit'
  BY <1>2, <1>3, FitStep DEF Core
<1>5. rd.cur \in Nat /\ rd.sent \in Nat
  BY <1>3, SoundTypes DEF RecordsSound
<1>6. OnItsWay' = OnItsWay
  <2>1. "pull" \in Goroutines
    BY DEF Goroutines
  <2>2. rpc'["pull"] = "sent" <=> rpc["pull"] = "sent"
    BY <1>2, <1>3, <2>1 DEF RecordShape
  <2>. QED
    BY <2>2 DEF OnItsWay
<1>7. xfer'.sent = rd'.sent + OnItsWay' /\ (xfer'.st = "sending" => xfer'.sent < rd'.cur + OnItsWay')
  BY <1>6 DEF Core, SentInInterval, Calm
<1>8. SentInInterval'
  BY <1>3, <1>5, <1>7, CalmSent DEF Core
<1>9. Quiet => Quiet'
  BY CalmQuiet
<1>10. QuietBefore'
  BY <1>9 DEF Core, QuietBefore
<1>11. QuietWhileUnsealing'
  BY <1>2, <1>3, <1>9, QuietUnsealStep DEF Core
<1>. QED
  BY <1>4, <1>8, <1>10, <1>11 DEF Core

\* The same for the whole invariant.
LEMMA ReadExposure ==
  ASSUME RetrievalInv, ExposureInv, NEW a \in Goroutines, rpc[a] = "idle",
         NEW l, l \notin UnsealingSteps, l # "sent",
         NEW d, Sound(d, voucher), Read(a, d, l),
         Orderly' /\ Core => CopyFits(l, [base |-> rd, deal |-> d]),
         UNCHANGED <<rd, loaded, voucher, pay>>, rfaults \subseteq rfaults', Calm, Places'
  PROVE  ExposureInv'
<1>1. PICK c : c = [base |-> rd, deal |-> d]
  OBVIOUS
<1>2. c.deal = d /\ rmem' = [rmem EXCEPT ![a] = c]
  BY <1>1 DEF Read
<1>3. voucher \in Nat /\ RecordShape
  BY DEF RetrievalInv, MoneyShape
<1>4. RecordsSound'
  <2>1. Sound(rd', voucher') /\ Sound(c.deal, voucher') /\ voucher' \in Nat /\ voucher <= voucher'
    BY <1>2, <1>3 DEF ExposureInv, RecordsSound
  <2>. QED
    BY <1>2, <1>3, <2>1, SoundStep DEF ExposureInv
<1>5. PaidForReceived'
  BY PaidStep DEF ExposureInv, Calm
<1>6. ASSUME Orderly' PROVE Core'
  <2>1. Core /\ Price > 0
    BY <1>6, OrderlyBefore DEF ExposureInv, Orderly
  <2>. QED
    BY <1>6, <2>1, ReadCore DEF ExposureInv
<1>. QED
  BY <1>4, <1>5, <1>6 DEF ExposureInv

\* A goroutine that takes no payments writes its copy, or the copy with another
\* status, and rests or goes on with an unsealing.
LEMMA SaveExposure ==
  ASSUME RetrievalInv, ExposureInv, NEW a \in Goroutines \ {"pay"}, rpc[a] # "idle",
         NEW l, NEW d, Save(a, d, l),
         d.sent = rmem[a].deal.sent, d.cur = rmem[a].deal.cur, d.chan = rmem[a].deal.chan,
         d.st = rmem[a].deal.st \/ d.st \notin Early,
         UNCHANGED <<voucher, pay>>, rfaults \subseteq rfaults', Stale(a) \subseteq rfaults', Calm, Places',
         Price > 0 /\ rpc[a] = "sent" /\ xfer'.st = "sending" => d.sent < d.cur,
         Orderly' /\ Core /\ rmem[a].base = rd /\ l # "idle" =>
           /\ a \in {"event", "unseal"} /\ CopyFits(l, [base |-> d, deal |-> d])
           /\ (a = "event" <=> UnsealPrice = 0) /\ (rd.cur = Interval => Quiet),
         Core /\ loaded' => loaded \/ (d.chan /\ d.st \notin Early)
  PROVE  ExposureInv'
<1>1. PICK c : c = IF l = "idle" THEN NoCopy ELSE [base |-> d, deal |-> d]
  OBVIOUS
<1>2. rd' = d /\ rpc' = [rpc EXCEPT ![a] = l] /\ rmem' = [rmem EXCEPT ![a] = c]
  BY <1>1 DEF Save
<1>3. /\ xfer \in Transfer /\ voucher \in Nat /\ Queued \in Nat /\ RecordShape /\ a \in Goroutines
      /\ Interval \in Nat
  BY RetrievalAssumption DEF RetrievalInv, MoneyShape
<1>4. Sound(d, voucher)
  BY <1>3, SoundFields DEF ExposureInv, RecordsSound
<1>5. RecordsSound'
  <2>1. Sound(c.deal, voucher)
    <3>1. CASE l = "idle"
      BY <1>1, <3>1, NoDealIsDeal, NoDealSound
    <3>2. CASE l # "idle"
      BY <1>1, <1>4, <3>2
    <3>. QED
      BY <3>1, <3>2
  <2>2. Sound(rd', voucher') /\ Sound(c.deal, voucher') /\ voucher' \in Nat /\ voucher <= voucher'
    BY <1>2, <1>3, <1>4, <2>1
  <2>. QED
    BY <1>2, <1>3, <2>2, SoundStep DEF ExposureInv
<1>6. PaidForReceived'
  BY PaidStep DEF ExposureInv, Calm
<1>7. ASSUME Orderly' PROVE Core'
  <2>1. Core /\ Price > 0 /\ rmem[a].base = rd
    BY <1>7, OrderlyBefore DEF ExposureInv, Orderly
  <2>2. CopyFits(rpc[a], rmem[a])
    BY <2>1 DEF Core, CopiesFit
  <2>3. CopiesFit'
    <3>1. l # "idle" => CopyFits(l, c)
      BY <1>1, <1>7, <2>1
    <3>. QED
      BY <1>2, <1>3, <2>1, <3>1, FitStep DEF Core
  <2>4. rd.cur \in Nat /\ rd.sent \in Nat /\ d.cur \in Nat /\ d.sent \in Nat
    BY <1>3, <1>4, <2>1, SoundTypes DEF ExposureInv, RecordsSound
  <2>5. rpc[a] # "paid" /\ (rpc[a] = "sent" => a = "pull") /\ (a = "pull" => l = "idle")
    <3>1. rpc[a] # "paid" /\ (rpc[a] = "sent" => a = "pull")
      BY DEF ExposureInv, Places, Goroutines
    <3>2. a = "pull" => l = "idle"
      BY <1>7, <2>1
    <3>. QED
      BY <3>1, <3>2
  <2>6. /\ d.sent = rd.sent + (IF rpc[a] = "sent" THEN 1 ELSE 0) /\ d.cur = rd.cur
        /\ (rd.chan => d.chan) /\ rd.st # "none" /\ rd.cur >= Interval
        /\ (d.st \in Early => d.st = rd.st)
    BY <2>1, <2>2, <2>5 DEF CopyFits
  <2>7. OnItsWay' + (IF rpc[a] = "sent" THEN 1 ELSE 0) = OnItsWay /\ OnItsWay' \in {0, 1} /\ OnItsWay \in {0, 1}
    <3>1. "pull" \in Goroutines
      BY DEF Goroutines
    <3>2. CASE a = "pull"
      <4>1. rpc'["pull"] = "idle"
        BY <1>2, <1>3, <2>5, <3>1, <3>2 DEF RecordShape
      <4>. QED
        BY <3>2, <4>1 DEF OnItsWay
    <3>3. CASE a # "pull"
      <4>1. rpc'["pull"] = rpc["pull"]
        BY <1>2, <1>3, <3>1, <3>3 DEF RecordShape
      <4>. QED
        BY <2>5, <3>3, <4>1 DEF OnItsWay
    <3>. QED
      BY <3>2, <3>3
  <2>8. PICK m \in {0, 1}, n \in {0, 1} : m = OnItsWay /\ n = OnItsWay'
    BY <2>7
  <2>9. n + (IF rpc[a] = "sent" THEN 1 ELSE 0) = m
    BY <2>7, <2>8, Zenon
  <2>10. SentInInterval'
    <3>1. xfer.sent = rd.sent + m /\ (xfer.st = "sending" => xfer.sent < rd.cur + m)
      BY <2>1, <2>8 DEF Core, SentInInterval
    <3>2. xfer'.sent = xfer.sent /\ (xfer'.st = "sending" => xfer.st = "sending")
      BY DEF Calm
    <3>3. xfer'.sent = d.sent + n
      BY <2>4, <2>6, <2>9, <3>1, <3>2
    <3>4. xfer'.st = "sending" => xfer'.sent < d.cur + n
      <4>1. CASE rpc[a] = "sent"
        BY <2>1, <2>4, <2>9, <3>3, <4>1
      <4>2. CASE rpc[a] # "sent"
        BY <2>6, <2>9, <3>1, <3>2, <4>2
      <4>. QED
        BY <4>1, <4>2
    <3>5. xfer'.sent = rd'.sent + OnItsWay' /\ (xfer'.st = "sending" => xfer'.sent < rd'.cur + OnItsWay')
      BY <1>2, <2>8, <3>3, <3>4, Zenon
    <3>6. rd'.cur \in Nat /\ rd'.sent \in Nat /\ rd'.cur >= rd.cur
      BY <1>2, <2>4, <2>6
    <3>. QED
      BY <1>3, <2>1, <2>4, <3>5, <3>6, CalmSent DEF Core
  <2>11. Quiet => Quiet'
    BY CalmQuiet
  <2>12. loaded' => rd'.chan /\ rd'.st \notin Early
    BY <1>2, <2>1, <2>6 DEF Core, QuietBefore
  <2>13. rd # NoDeal
    BY <2>6, NoDealSound
  <2>14. QuietBefore'
    BY <1>2, <2>1, <2>4, <2>6, <2>11, <2>12, <2>13, QuietBeforeStep DEF Core
  <2>15. QuietWhileUnsealing'
    <3>1. l \in UnsealingSteps => l # "idle"
      BY DEF UnsealingSteps
    <3>2. a \in {"event", "unseal"} /\ l \in UnsealingSteps =>
            (a = "event" <=> UnsealPrice = 0) /\ (rd.cur = Interval => Quiet)
      BY <1>7, <2>1, <3>1
    <3>3. rd'.cur = Interval => rd.cur = Interval /\ (Quiet => Quiet')
      BY <1>2, <2>6, <2>11
    <3>. QED
      BY <1>2, <1>3, <2>1, <3>2, <3>3, QuietUnsealStep DEF Core
  <2>. QED
    BY <2>3, <2>10, <2>14, <2>15 DEF Core
<1>. QED
  BY <1>5, <1>6, <1>7 DEF ExposureInv

-----------------------------------------------------------------------------
(* The actions.                                                              *)

\* A copy of the record with another status or with its channel.
LEMMA ReadFits ==
  ASSUME QuietBefore, rd # NoDeal, NEW l \in {"blocks", "cleanup", "other", "accept"}, NEW d,
         d.sent = rd.sent, rd.sent \in Nat, d.cur = rd.cur, rd.chan => d.chan, l = "accept" => d.chan,
         d.st = rd.st \/ d.st \notin Early
  PROVE  CopyFits(l, [base |-> rd, deal |-> d])
<1>1. rd.cur >= Interval /\ rd.st # "none"
  BY DEF QuietBefore
<1>2. PICK c : c = [base |-> rd, deal |-> d]
  OBVIOUS
<1>3. c.base = rd /\ c.deal = d
  BY <1>2
<1>4. l \notin UnsealingSteps /\ l \notin {"sent", "paid", "partial", "resume"}
  BY DEF UnsealingSteps
<1>5. CopyFits(l, c)
  BY <1>1, <1>3, <1>4 DEF CopyFits
<1>. QED
  BY <1>2, <1>5

\* Before the request.
LEMMA ExposureInit == RetrievalInit => ExposureInv
<1> SUFFICES ASSUME RetrievalInit PROVE ExposureInv
  OBVIOUS
<1>1. /\ rd = NoDeal /\ rpc = [a \in Goroutines |-> "idle"] /\ rmem = [a \in Goroutines |-> NoCopy]
      /\ voucher = 0 /\ xfer.sent = 0 /\ xfer.queued = 0 /\ xfer.st = "none" /\ loaded = FALSE
      /\ pay.paid = 0 /\ pay.msg = 0
  BY DEF RetrievalInit
<1>2. Size \in Nat /\ UnsealPrice \in Nat /\ Price \in Nat /\ Queued \in Nat /\ 0 * Price = 0
  BY RetrievalAssumption
<1>3. RecordsSound
  BY <1>1, NoDealIsDeal, NoDealSound DEF RecordsSound
<1>4. PaidForReceived
  BY <1>1, <1>2 DEF PaidForReceived
<1>5. Places
  BY <1>1 DEF Places, Goroutines
<1>6. rpc["pull"] = "idle" /\ rpc["event"] = "idle" /\ rpc["unseal"] = "idle"
  BY <1>1 DEF Goroutines
<1>7. CopiesFit
  BY <1>1 DEF CopiesFit
<1>8. SentInInterval
  <2>1. rd.sent = 0 /\ rd.cur = 0
    BY <1>1, NoDealSound
  <2>2. OnItsWay = 0
    BY <1>6 DEF OnItsWay
  <2>3. xfer.sent = 0 /\ xfer.st = "none"
    BY <1>1
  <2>. QED
    BY <1>2, <2>1, <2>2, <2>3 DEF SentInInterval
<1>9. QuietBefore
  BY <1>1, NoDealSound DEF QuietBefore, Quiet
<1>10. QuietWhileUnsealing
  BY <1>6 DEF QuietWhileUnsealing, UnsealingSteps
<1>. QED
  BY <1>3, <1>4, <1>5, <1>7, <1>8, <1>9, <1>10 DEF ExposureInv, Core

\* The deal begins with the first interval.
LEMMA ValidatePullExposure == ASSUME RetrievalInv, ExposureInv, ValidatePull PROVE ExposureInv'
<1> DEFINE s == IF UnsealPrice > 0 THEN "FundsNeededUnseal" ELSE "New"
<1>1. /\ rd = NoDeal /\ rd' = [NoDeal EXCEPT !.st = s, !.cur = Interval]
      /\ xfer' = [xfer EXCEPT !.st = "paused"]
      /\ UNCHANGED <<rpc, rmem, loaded, voucher, pay, rfaults>>
  BY DEF ValidatePull
<1>2. rd'.st = s /\ rd'.cur = Interval /\ rd'.sent = 0 /\ rd'.chan = FALSE
  <2> HIDE DEF s
  <2>. QED
    BY <1>1 DEF NoDeal
<1>3. /\ xfer \in Transfer /\ voucher \in Nat /\ Interval \in Nat /\ Size \in Nat /\ Queued \in Nat
      /\ UnsealPrice \in Nat
  BY RetrievalAssumption DEF RetrievalInv, MoneyShape
<1>4. xfer'.sent = xfer.sent /\ xfer'.queued = xfer.queued /\ xfer'.st = "paused"
  BY <1>1, <1>3 DEF Transfer
<1>5. RecordsSound'
  <2>1. InPaidInterval(Interval, voucher)
    <3>1. 1 \in 0 .. (Size + 2) /\ ~ (1 >= 3)
      BY <1>3
    <3>. QED
      BY <3>1, FirstBounds DEF InPaidInterval
  <2>2. InPaidInterval(rd'.cur, voucher')
    BY <1>1, <1>2, <2>1, Zenon
  <2>3. rd'.sent \in Nat /\ rd'.chan \in BOOLEAN
    <3>1. 0 \in Nat /\ FALSE \in BOOLEAN
      OBVIOUS
    <3>. QED
      BY <1>2, <3>1, Zenon
  <2>4. Sound(rd', voucher')
    BY <2>2, <2>3, Zenon DEF Sound
  <2>. QED
    BY <1>1, <2>4 DEF ExposureInv, RecordsSound
<1>6. PaidForReceived' /\ Places'
  BY <1>1, <1>4, PaidStep DEF ExposureInv, Places
<1>7. ASSUME Orderly' PROVE Core'
  <2>1. Core
    BY <1>1, <1>7, OrderlyBefore DEF ExposureInv
  <2>2. Quiet /\ rd.sent = 0 /\ rd.cur = 0 /\ ~ loaded
    BY <1>1, <2>1, NoDealSound DEF Core, QuietBefore, Early
  <2>3. Quiet'
    BY <1>4, <2>2 DEF Quiet
  <2>4. OnItsWay' = OnItsWay /\ OnItsWay = 0
    BY <1>1, <2>1, <2>2 DEF OnItsWay, Core, SentInInterval, Quiet
  <2>5. SentInInterval'
    BY <1>2, <1>3, <1>4, <2>3, <2>4 DEF SentInInterval, Quiet, OnItsWay
  <2>6. QuietBefore'
    <3>1. rd'.st # "none" /\ rd'.cur >= Interval
      BY <1>2, <1>3
    <3>2. (rd'.st = "New" => UnsealPrice = 0) /\ (rd'.st = "FundsNeededUnseal" => UnsealPrice > 0)
      BY <1>2, <1>3
    <3>. QED
      BY <1>1, <1>2, <2>2, <2>3, <3>1, <3>2 DEF QuietBefore
  <2>7. QuietWhileUnsealing' /\ CopiesFit'
    BY <1>1, <2>1, <2>3 DEF Core, QuietWhileUnsealing, CopiesFit
  <2>. QED
    BY <2>5, <2>6, <2>7 DEF Core
<1>. QED
  BY <1>5, <1>6, <1>7 DEF ExposureInv

\* The events of the transfer: accepted, complete, failed.
LEMMA EventExposure ==
  ASSUME RetrievalInv, ExposureInv,
         HandleAccept \/ SaveAccept \/ HandleComplete \/ TransferFails \/ SaveEvent
  PROVE  ExposureInv'
<1>1. "event" \in Goroutines \ {"pay"} /\ "event" \in Goroutines
  BY DEF Goroutines
<1>2. IsDeal(rd) /\ xfer \in Transfer /\ voucher \in Nat /\ DOMAIN rpc = Goroutines
  BY DEF RetrievalInv, RecordShape, MoneyShape
<1>3. Sound(rd, voucher) /\ rd.sent \in Nat /\ rd.chan \in BOOLEAN
  BY <1>2, SoundTypes DEF ExposureInv, RecordsSound
<1>4. PICK d : d = rmem["event"].deal
  OBVIOUS
<1>5. IsDeal(d)
  BY <1>1, <1>4 DEF RetrievalInv, RecordShape, IsCopy
<1>6. UNCHANGED <<voucher, pay>>
  BY DEF HandleAccept, SaveAccept, HandleComplete, TransferFails, SaveEvent
<1>7. Calm
  BY <1>2, CalmMoves DEF HandleAccept, SaveAccept, HandleComplete, TransferFails, SaveEvent
<1>8. ASSUME NEW l \in {"idle", "accept", "unsealing", "cleanup", "other"}, rpc' = [rpc EXCEPT !["event"] = l]
      PROVE  Places'
  BY <1>1, <1>2, <1>8 DEF ExposureInv, Places, Goroutines
<1>9. CASE HandleAccept
  <2>1. PICK e : e = [rd EXCEPT !.chan = TRUE]
    OBVIOUS
  <2>2. e.st = rd.st /\ e.sent = rd.sent /\ e.cur = rd.cur /\ e.chan = TRUE
    BY <1>2, <2>1, FieldSet
  <2>3. Sound(e, voucher)
    BY <1>3, <2>2, Zenon DEF Sound
  <2>4. Read("event", e, "accept") /\ rd # NoDeal /\ rpc["event"] = "idle" /\ UNCHANGED <<rd, loaded, rfaults>>
    BY <1>9, <2>1 DEF HandleAccept
  <2>5. Places'
    BY <1>8, <2>4 DEF Read
  <2>6. Core => CopyFits("accept", [base |-> rd, deal |-> e])
    BY <1>3, <2>2, <2>4, ReadFits DEF Core
  <2>7. "accept" \notin UnsealingSteps /\ "accept" # "sent" /\ rfaults \subseteq rfaults'
    BY <2>4 DEF UnsealingSteps
  <2>. QED
    BY <1>1, <1>6, <1>7, <2>3, <2>4, <2>5, <2>6, <2>7, ReadExposure
<1>10. CASE HandleComplete
  <2>1. PICK e : e = [rd EXCEPT !.st = "Completed"]
    OBVIOUS
  <2>2. e.st = "Completed" /\ e.sent = rd.sent /\ e.cur = rd.cur /\ e.chan = rd.chan
    BY <1>2, <2>1, FieldSet
  <2>3. Sound(e, voucher)
    BY <1>3, <2>2, SoundFields
  <2>4. Read("event", e, "cleanup") /\ rd # NoDeal /\ rpc["event"] = "idle" /\ UNCHANGED <<rd, loaded, rfaults>>
    BY <1>10, <2>1 DEF HandleComplete
  <2>5. Places'
    BY <1>8, <2>4 DEF Read
  <2>6. Core => CopyFits("cleanup", [base |-> rd, deal |-> e])
    BY <1>3, <2>2, <2>4, ReadFits DEF Core, Early
  <2>7. "cleanup" \notin UnsealingSteps /\ "cleanup" # "sent" /\ rfaults \subseteq rfaults'
    BY <2>4 DEF UnsealingSteps
  <2>. QED
    BY <1>1, <1>6, <1>7, <2>3, <2>4, <2>5, <2>6, <2>7, ReadExposure
<1>11. CASE TransferFails
  <2>1. PICK e \in {rd, [rd EXCEPT !.st = "Errored"]} : Read("event", e, "other")
    BY <1>11 DEF TransferFails
  <2>2. (e.st = rd.st \/ e.st = "Errored") /\ e.sent = rd.sent /\ e.cur = rd.cur /\ e.chan = rd.chan
    <3>1. CASE e = rd
      BY <3>1
    <3>2. CASE e = [rd EXCEPT !.st = "Errored"]
      BY <1>2, <3>2, FieldSet
    <3>. QED
      BY <2>1, <3>1, <3>2
  <2>3. Sound(e, voucher)
    BY <1>3, <2>2, SoundFields
  <2>4. rd # NoDeal /\ rpc["event"] = "idle" /\ UNCHANGED <<rd, loaded>> /\ rfaults \subseteq rfaults'
    BY <1>11 DEF TransferFails, Fails
  <2>5. Places'
    BY <1>8, <2>1 DEF Read
  <2>6. Core => CopyFits("other", [base |-> rd, deal |-> e])
    BY <1>3, <2>2, <2>4, ReadFits DEF Core, Early
  <2>7. "other" \notin UnsealingSteps /\ "other" # "sent"
    BY DEF UnsealingSteps
  <2>. QED
    BY <1>1, <1>6, <1>7, <2>1, <2>3, <2>4, <2>5, <2>6, <2>7, ReadExposure
<1>12. CASE SaveEvent
  <2>1. /\ Save("event", d, "idle") /\ rpc["event"] \in {"cleanup", "other"} /\ (loaded' => loaded)
        /\ rfaults \subseteq rfaults' /\ Stale("event") \subseteq rfaults'
    BY <1>4, <1>12 DEF SaveEvent
  <2>2. Places'
    BY <1>8, <2>1 DEF Save
  <2>. QED
    BY <1>1, <1>4, <1>6, <1>7, <2>1, <2>2, SaveExposure
<1>13. CASE SaveAccept
  <2>1. PICK l : Save("event", d, l) /\ l = IF d.st = "New" THEN "unsealing" ELSE "idle"
    BY <1>4, <1>13 DEF SaveAccept
  <2>2. /\ rpc["event"] = "accept" /\ UNCHANGED <<xfer, loaded>>
        /\ rfaults \subseteq rfaults' /\ Stale("event") \subseteq rfaults'
    BY <1>13 DEF SaveAccept
  <2>3. Places'
    BY <1>8, <2>1 DEF Save
  <2>4. ASSUME Orderly', Core, rmem["event"].base = rd, l # "idle"
        PROVE  /\ CopyFits(l, [base |-> d, deal |-> d])
               /\ UnsealPrice = 0 /\ (rd.cur = Interval => Quiet)
    <3>1. d.st = "New" /\ l = "unsealing"
      BY <2>1, <2>4
    <3>2. CopyFits("accept", rmem["event"])
      BY <1>1, <2>2, <2>4 DEF Core, CopiesFit
    <3>3. rd.st = "New" /\ d.cur = rd.cur /\ d.chan /\ d.sent = rd.sent
      BY <1>3, <1>4, <2>4, <3>1, <3>2 DEF CopyFits, Early
    <3>4. rd.cur = Interval /\ Quiet /\ UnsealPrice = 0
      BY <2>4, <3>3 DEF Core, QuietBefore, Early
    <3>5. PICK c : c = [base |-> d, deal |-> d]
      OBVIOUS
    <3>6. c.base = d /\ c.deal = d /\ Interval \in Nat
      BY <3>5, RetrievalAssumption
    <3>7. CopyFits(l, c)
      BY <1>3, <3>1, <3>3, <3>4, <3>6 DEF CopyFits, UnsealingSteps
    <3>. QED
      BY <3>4, <3>5, <3>7
  <2>. QED
    BY <1>1, <1>4, <1>6, <1>7, <2>1, <2>2, <2>3, <2>4, SaveExposure
<1>. QED
  BY <1>9, <1>10, <1>11, <1>12, <1>13

\* The steps of an unsealing.  The transfer is resumed with nothing sent, in the
\* first interval.
LEMMA UnsealExposure ==
  ASSUME RetrievalInv, ExposureInv, NEW a \in {"event", "unseal"},
         StartUnseal(a) \/ PrepareBlockstore(a) \/ ResumeDataTransfer(a) \/ EndUnseal(a)
  PROVE  ExposureInv'
<1>1. a \in Goroutines \ {"pay"} /\ a \in Goroutines
  BY DEF Goroutines
<1>2. /\ xfer \in Transfer /\ voucher \in Nat /\ DOMAIN rpc = Goroutines /\ RecordShape
      /\ Interval \in Nat /\ Interval > 0 /\ Queued \in Nat
  BY RetrievalAssumption DEF RetrievalInv, RecordShape, MoneyShape
<1>3. PICK d : d = rmem[a].deal
  OBVIOUS
<1>4. IsDeal(d) /\ Sound(d, voucher) /\ d.sent \in Nat /\ d.chan \in BOOLEAN
  BY <1>1, <1>2, <1>3, SoundTypes DEF RecordShape, IsCopy, ExposureInv, RecordsSound
<1>5. UNCHANGED <<voucher, pay>>
  BY DEF StartUnseal, PrepareBlockstore, ResumeDataTransfer, EndUnseal
<1>6. ASSUME NEW l \in {"idle", "load", "resume", "unsealed"}, rpc' = [rpc EXCEPT ![a] = l]
      PROVE  Places'
  BY <1>1, <1>2, <1>6 DEF ExposureInv, Places, Goroutines
<1>7. ASSUME NEW e, NEW l \in {"load", "resume"}, e = [d EXCEPT !.st = IF l = "load" THEN "Unsealing" ELSE "Unsealed"],
             rpc[a] \in UnsealingSteps, Core
      PROVE  /\ CopyFits(l, [base |-> e, deal |-> e]) /\ e.chan /\ (a = "event" <=> UnsealPrice = 0)
             /\ (rd.cur = Interval => Quiet)
  <2>1. CopyFits(rpc[a], rmem[a])
    BY <1>1, <1>7 DEF Core, CopiesFit, UnsealingSteps
  <2>2. d.cur = Interval /\ d.chan
    BY <1>3, <1>7, <2>1 DEF CopyFits
  <2>3. e.cur = d.cur /\ e.chan = d.chan /\ e.sent = d.sent /\ (l = "load" => e.st = "Unsealing")
        /\ (l = "resume" => e.st = "Unsealed")
    BY <1>4, <1>7, FieldSet
  <2>4. PICK c : c = [base |-> e, deal |-> e]
    OBVIOUS
  <2>5. c.base = e /\ c.deal = e
    BY <2>4
  <2>6. CopyFits(l, c)
    BY <1>2, <1>4, <1>7, <2>2, <2>3, <2>5 DEF CopyFits, UnsealingSteps, Early
  <2>7. (a = "event" <=> UnsealPrice = 0) /\ (rd.cur = Interval => Quiet)
    BY <1>7 DEF Core, QuietWhileUnsealing
  <2>. QED
    BY <2>2, <2>3, <2>4, <2>6, <2>7
<1>8. CASE StartUnseal(a)
  <2>1. PICK e : e = [d EXCEPT !.st = "Unsealing"]
    OBVIOUS
  <2>2. e.sent = d.sent /\ e.cur = d.cur /\ e.chan = d.chan /\ e.st \notin Early
    BY <1>4, <2>1, FieldSet DEF Early
  <2>3. /\ rpc[a] = "unsealing" /\ Save(a, e, "load") /\ UNCHANGED <<xfer, loaded>>
        /\ rfaults \subseteq rfaults' /\ Stale(a) \subseteq rfaults'
    BY <1>3, <1>8, <2>1 DEF StartUnseal
  <2>4. Calm
    BY <1>2, <2>3, CalmMoves
  <2>5. Places'
    BY <1>6, <2>3 DEF Save
  <2>6. Core => /\ CopyFits("load", [base |-> e, deal |-> e])
                /\ (a = "event" <=> UnsealPrice = 0) /\ (rd.cur = Interval => Quiet)
    BY <1>7, <2>1, <2>3 DEF UnsealingSteps
  <2>. QED
    BY <1>1, <1>3, <1>5, <2>2, <2>3, <2>4, <2>5, <2>6, SaveExposure
<1>9. CASE PrepareBlockstore(a)
  <2>1. rpc[a] = "load" /\ rfaults \subseteq rfaults' /\ Stale(a) \subseteq rfaults'
    BY <1>9 DEF PrepareBlockstore, Fails
  <2>2. CASE loaded' = TRUE /\ UNCHANGED xfer /\ Save(a, [d EXCEPT !.st = "Unsealed"], "resume")
    <3>1. PICK e : e = [d EXCEPT !.st = "Unsealed"]
      OBVIOUS
    <3>2. e.sent = d.sent /\ e.cur = d.cur /\ e.chan = d.chan /\ e.st \notin Early
      BY <1>4, <3>1, FieldSet DEF Early
    <3>3. Calm
      BY <1>2, <2>2, CalmMoves
    <3>4. Places'
      BY <1>6, <2>2 DEF Save
    <3>5. Core => /\ CopyFits("resume", [base |-> e, deal |-> e]) /\ e.chan
                  /\ (a = "event" <=> UnsealPrice = 0) /\ (rd.cur = Interval => Quiet)
      BY <1>7, <2>1, <3>1 DEF UnsealingSteps
    <3>6. Save(a, e, "resume")
      BY <2>2, <3>1
    <3>. QED
      BY <1>1, <1>3, <1>5, <2>1, <3>2, <3>3, <3>4, <3>5, <3>6, SaveExposure
  <2>3. CASE loaded' = FALSE /\ xfer' = Close(d) /\ Save(a, [d EXCEPT !.st = "Cancelled"], "idle")
    <3>1. PICK e : e = [d EXCEPT !.st = "Cancelled"]
      OBVIOUS
    <3>2. e.sent = d.sent /\ e.cur = d.cur /\ e.chan = d.chan /\ e.st \notin Early
      BY <1>4, <3>1, FieldSet DEF Early
    <3>3. Calm
      BY <1>2, <2>3, CalmMoves
    <3>4. Places'
      BY <1>6, <2>3 DEF Save
    <3>5. Save(a, e, "idle")
      BY <2>3, <3>1
    <3>. QED
      BY <1>1, <1>3, <1>5, <2>1, <2>3, <3>2, <3>3, <3>4, <3>5, SaveExposure
  <2>. QED
    BY <1>3, <1>9, <2>2, <2>3 DEF PrepareBlockstore, CancelDeal
<1>10. CASE EndUnseal(a)
  <2>1. /\ rpc[a] = "unsealed" /\ Save(a, d, "idle") /\ UNCHANGED <<xfer, loaded>>
        /\ rfaults \subseteq rfaults' /\ Stale(a) \subseteq rfaults'
    BY <1>3, <1>10 DEF EndUnseal
  <2>2. Calm
    BY <1>2, <2>1, CalmMoves
  <2>3. Places'
    BY <1>6, <2>1 DEF Save
  <2>. QED
    BY <1>1, <1>3, <1>5, <2>1, <2>2, <2>3, SaveExposure
<1>11. CASE ResumeDataTransfer(a)
  <2>1. PICK v \in {d.st, "Errored"} : rmem' = [rmem EXCEPT ![a].deal.st = v]
    BY <1>3, <1>11 DEF ResumeDataTransfer
  <2>2. /\ rpc[a] = "resume" /\ rpc' = [rpc EXCEPT ![a] = "unsealed"] /\ UNCHANGED <<rd, loaded>>
        /\ rfaults \subseteq rfaults' /\ Stale(a) \subseteq rfaults' /\ (UNCHANGED xfer \/ xfer' = Resume)
    BY <1>11 DEF ResumeDataTransfer
  <2>3. PICK e : e = [d EXCEPT !.st = v]
    OBVIOUS
  <2>4. e.st = v /\ e.sent = d.sent /\ e.cur = d.cur /\ e.chan = d.chan
    BY <1>4, <2>3, FieldSet
  <2>5. PICK c : c = [base |-> rmem[a].base, deal |-> e]
    OBVIOUS
  <2>6. c.base = rmem[a].base /\ c.deal = e
    BY <2>5
  <2>7. rmem' = [rmem EXCEPT ![a] = c]
    <3>1. rmem' = [rmem EXCEPT ![a] = [rmem[a] EXCEPT !.deal = [rmem[a].deal EXCEPT !.st = v]]]
      BY <2>1
    <3>2. rmem[a] = [base |-> rmem[a].base, deal |-> rmem[a].deal]
      BY <1>1, <1>2 DEF RecordShape, IsCopy
    <3>3. [rmem[a] EXCEPT !.deal = e] = [base |-> rmem[a].base, deal |-> e]
      BY <3>2
    <3>. QED
      BY <1>3, <2>3, <2>5, <3>1, <3>3
  <2>8. /\ xfer' \in Transfer /\ xfer'.sent = xfer.sent /\ xfer'.queued = xfer.queued
        /\ (xfer'.st # "sending" => xfer'.st = xfer.st)
    BY <1>2, <2>2, ResumeMove
  <2>9. RecordsSound'
    <3>1. Sound(c.deal, voucher)
      BY <1>4, <2>4, <2>6, SoundFields
    <3>2. Sound(rd', voucher') /\ Sound(c.deal, voucher') /\ voucher' \in Nat /\ voucher <= voucher'
      BY <1>2, <1>5, <2>2, <3>1 DEF ExposureInv, RecordsSound
    <3>. QED
      BY <1>1, <1>2, <2>7, <3>2, SoundStep DEF ExposureInv
  <2>10. PaidForReceived' /\ Places'
    BY <1>5, <1>6, <2>2, <2>8, PaidStep DEF ExposureInv
  <2>11. ASSUME Orderly' PROVE Core'
    <3>1. Core /\ Price > 0 /\ rmem[a].base = rd
      BY <2>2, <2>11, OrderlyBefore DEF ExposureInv, Orderly
    <3>2. CopyFits("resume", rmem[a])
      BY <1>1, <2>2, <3>1 DEF Core, CopiesFit
    <3>3. CopyFits("unsealed", c)
      BY <1>3, <2>1, <2>4, <2>6, <3>2 DEF CopyFits, UnsealingSteps, Early
    <3>4. CopiesFit'
      BY <1>1, <1>2, <2>2, <2>7, <3>1, <3>3, FitStep DEF Core
    <3>5. rd.cur = Interval /\ rd.st = "Unsealed"
      BY <1>3, <3>1, <3>2 DEF CopyFits, UnsealingSteps
    <3>6. (a = "event" <=> UnsealPrice = 0) /\ Quiet
      BY <2>2, <3>1, <3>5 DEF Core, QuietWhileUnsealing, UnsealingSteps
    <3>7. rd.sent \in Nat
      BY <1>2, SoundTypes DEF ExposureInv, RecordsSound
    <3>8. rpc["pull"] # "sent" /\ rd.sent = 0
      BY <3>1, <3>6, <3>7 DEF Core, SentInInterval, OnItsWay, Quiet
    <3>9. rpc'["pull"] = rpc["pull"]
      BY <1>1, <1>2, <2>2 DEF Goroutines
    <3>10. OnItsWay' = 0
      BY <3>8, <3>9 DEF OnItsWay
    <3>11. xfer'.sent = 0 /\ xfer'.queued = 0 /\ rd'.cur = Interval /\ rd'.sent = 0
      BY <2>2, <2>8, <3>5, <3>6, <3>8 DEF Quiet
    <3>12. SentInInterval'
      BY <1>2, <3>10, <3>11 DEF SentInInterval
    <3>13. QuietBefore'
      BY <2>2, <3>1, <3>5 DEF Core, QuietBefore, Early
    <3>14. QuietWhileUnsealing'
      <4>1. ASSUME NEW b \in {"event", "unseal"}, rpc'[b] \in UnsealingSteps PROVE FALSE
        <5>1. b # a
          BY <1>1, <1>2, <2>2, <4>1 DEF UnsealingSteps
        <5>2. rpc[b] \in UnsealingSteps
          BY <1>1, <1>2, <2>2, <4>1, <5>1 DEF Goroutines
        <5>3. b = "event" <=> UnsealPrice = 0
          BY <3>1, <5>2 DEF Core, QuietWhileUnsealing
        <5>. QED
          BY <3>6, <5>1, <5>3
      <4>. QED
        BY <4>1 DEF QuietWhileUnsealing
    <3>. QED
      BY <3>4, <3>12, <3>13, <3>14 DEF Core
  <2>. QED
    BY <2>9, <2>10, <2>11 DEF ExposureInv
<1>. QED
  BY <1>8, <1>9, <1>10, <1>11

\* The data sent and the end of the data.  A block is sent only with a blockstore
\* that is tracked, so its deal is found by its channel and counts it.
LEMMA PullExposure ==
  ASSUME RetrievalInv, ExposureInv, OnPullDataSent \/ SaveDataSent \/ OnComplete \/ SaveComplete
  PROVE  ExposureInv'
<1>1. "pull" \in Goroutines \ {"pay"} /\ "pull" \in Goroutines
  BY DEF Goroutines
<1>2. /\ IsDeal(rd) /\ xfer \in Transfer /\ voucher \in Nat /\ DOMAIN rpc = Goroutines /\ RecordShape
      /\ Queued \in Nat /\ Size \in Nat /\ Price \in Nat /\ UnsealPrice \in Nat
  BY RetrievalAssumption DEF RetrievalInv, RecordShape, MoneyShape
<1>3. Sound(rd, voucher) /\ rd.sent \in Nat /\ rd.chan \in BOOLEAN
  BY <1>2, SoundTypes DEF ExposureInv, RecordsSound
<1>4. PICK d : d = rmem["pull"].deal
  OBVIOUS
<1>5. IsDeal(d)
  BY <1>1, <1>4 DEF RetrievalInv, RecordShape, IsCopy
<1>6. UNCHANGED <<voucher, pay>>
  BY DEF OnPullDataSent, SaveDataSent, OnComplete, SaveComplete
<1>7. ASSUME NEW l \in {"idle", "sent", "blocks"}, rpc' = [rpc EXCEPT !["pull"] = l]
      PROVE  Places'
  BY <1>1, <1>2, <1>7 DEF ExposureInv, Places, Goroutines
<1>8. CASE OnPullDataSent
  <2>1. rpc["pull"] = "idle" /\ loaded /\ xfer.sent < Size /\ UNCHANGED <<rd, loaded, rfaults>>
    BY <1>8 DEF OnPullDataSent
  <2>2. xfer.sent \in Nat /\ xfer.queued \in Nat
    BY <1>2 DEF Transfer
  <2>3. /\ xfer'.sent = xfer.sent + 1 /\ xfer'.st = xfer.st
        /\ \/ xfer.st = "sending"
           \/ xfer.st = "paused" /\ xfer.queued > 0 /\ xfer'.queued = xfer.queued - 1
    BY <1>2, <1>8 DEF OnPullDataSent, Transfer
  <2>4. PICK e : e = DataSent(rd)
    OBVIOUS
  <2>5. /\ e.sent = rd.sent + 1 /\ e.cur = rd.cur /\ e.chan = rd.chan
        /\ (rd.st \notin Early => e.st \notin Early)
    BY <1>2, <2>4, DataSentFields
  <2>6. Sound(e, voucher)
    <3>1. e.sent \in Nat
      BY <1>3, <2>5
    <3>. QED
      BY <1>3, <2>5, <3>1, Zenon DEF Sound
  <2>7. PICK c : c = [base |-> rd, deal |-> e]
    OBVIOUS
  <2>8. c.base = rd /\ c.deal = e
    BY <2>7
  <2>9. IF rd.chan THEN rpc' = [rpc EXCEPT !["pull"] = "sent"] /\ rmem' = [rmem EXCEPT !["pull"] = c]
        ELSE UNCHANGED <<rpc, rmem>>
    BY <1>8, <2>4, <2>7 DEF OnPullDataSent, Read
  <2>10. Places'
    BY <1>7, <2>9 DEF ExposureInv, Places
  <2>11. RecordsSound'
    <3>1. Sound(rd', voucher') /\ Sound(c.deal, voucher') /\ voucher' \in Nat /\ voucher <= voucher'
      BY <1>2, <1>3, <1>6, <2>1, <2>6, <2>8
    <3>2. CASE rmem' = [rmem EXCEPT !["pull"] = c]
      BY <1>1, <1>2, <3>1, <3>2, SoundStep DEF ExposureInv
    <3>3. CASE UNCHANGED rmem
      BY <1>6, <2>1, <3>3 DEF ExposureInv, RecordsSound
    <3>. QED
      BY <1>3, <2>9, <3>2, <3>3
  <2>12. PaidForReceived'
    <3>1. PICK m \in Nat : m = xfer.sent * Price
      BY <1>2, <2>2
    <3>2. (xfer.sent + 1) * Price = m + Price
      BY <1>2, <2>2, <3>1
    <3>3. pay.paid \in Nat
      BY DEF RetrievalInv, MoneyShape, Client
    <3>4. pay.paid <= UnsealPrice + (xfer.sent + 1) * Price
      BY <1>2, <3>1, <3>2, <3>3 DEF ExposureInv, PaidForReceived
    <3>5. xfer'.sent <= Size
      BY <1>2, <2>1, <2>2, <2>3
    <3>. QED
      BY <1>6, <2>3, <3>4, <3>5 DEF ExposureInv, PaidForReceived
  <2>13. ASSUME Orderly' PROVE Core'
    <3>1. Core /\ Price > 0
      BY <2>1, <2>13, OrderlyBefore DEF ExposureInv, Orderly
    <3>2. rd.chan /\ rd.st \notin Early
      BY <2>1, <3>1 DEF Core, QuietBefore
    <3>3. rpc' = [rpc EXCEPT !["pull"] = "sent"] /\ rmem' = [rmem EXCEPT !["pull"] = c]
      BY <2>9, <3>2
    <3>4. rd.cur >= Interval /\ rd.cur \in Nat
      <4>1. rd # NoDeal
        BY <3>2, NoDealSound DEF Early
      <4>. QED
        BY <1>2, <1>3, <3>1, <4>1, SoundTypes DEF Core, QuietBefore
    <3>5. CopyFits("sent", c)
      BY <2>5, <2>8, <3>2, <3>4 DEF CopyFits, UnsealingSteps, Early
    <3>6. CopiesFit'
      BY <1>1, <1>2, <3>1, <3>3, <3>5, FitStep DEF Core
    <3>7. OnItsWay = 0 /\ OnItsWay' = 1
      BY <1>1, <1>2, <2>1, <3>3 DEF OnItsWay
    <3>8. SentInInterval'
      <4>1. xfer.sent = rd.sent /\ (xfer.st = "sending" => xfer.sent < rd.cur)
            /\ (xfer.st = "paused" => xfer.sent + xfer.queued <= rd.cur + Queued)
        BY <1>3, <3>1, <3>4, <3>7 DEF Core, SentInInterval
      <4>2. xfer'.sent = rd'.sent + 1 /\ rd'.cur = rd.cur
        BY <2>1, <2>3, <4>1
      <4>3. CASE xfer.st = "sending"
        BY <1>2, <2>2, <2>3, <3>4, <3>7, <4>1, <4>2, <4>3 DEF SentInInterval
      <4>4. CASE xfer.st = "paused" /\ xfer.queued > 0 /\ xfer'.queued = xfer.queued - 1
        BY <1>2, <2>2, <2>3, <3>4, <3>7, <4>1, <4>2, <4>4 DEF SentInInterval
      <4>. QED
        BY <2>3, <4>3, <4>4
    <3>9. QuietBefore'
      BY <2>1, <3>1, <3>2 DEF Core, QuietBefore, Early
    <3>10. ~ Quiet
      BY <2>3, <2>2 DEF Quiet
    <3>11. QuietWhileUnsealing'
      BY <1>1, <1>2, <2>1, <3>1, <3>3, <3>10, QuietUnsealStep DEF Core, UnsealingSteps
    <3>. QED
      BY <3>6, <3>8, <3>9, <3>11 DEF Core
  <2>. QED
    BY <2>10, <2>11, <2>12, <2>13 DEF ExposureInv
<1>9. CASE SaveDataSent
  <2>1. /\ rpc["pull"] = "sent" /\ Save("pull", d, "idle") /\ UNCHANGED loaded
        /\ rfaults \subseteq rfaults' /\ Stale("pull") \subseteq rfaults'
        /\ xfer' = IF WithinInterval(d.sent, d.cur) THEN xfer ELSE Pause(xfer)
    BY <1>4, <1>9 DEF SaveDataSent
  <2>2. Calm
    BY <1>2, <2>1, CalmMoves
  <2>3. Places'
    BY <1>7, <2>1 DEF Save
  <2>4. Price > 0 /\ xfer'.st = "sending" => d.sent < d.cur
    <3>1. CASE WithinInterval(d.sent, d.cur)
      BY <1>2, <3>1 DEF WithinInterval
    <3>2. CASE ~ WithinInterval(d.sent, d.cur)
      BY <1>2, <2>1, <3>2 DEF Pause, Transfer
    <3>. QED
      BY <3>1, <3>2
  <2>. QED
    BY <1>1, <1>4, <1>6, <2>1, <2>2, <2>3, <2>4, SaveExposure
<1>10. CASE OnComplete
  <2>1. rpc["pull"] = "idle" /\ xfer.st = "sending" /\ UNCHANGED <<rd, loaded, rfaults>>
    BY <1>10 DEF OnComplete
  <2>2. Calm
    <3>1. \E t \in {xfer.st, "done"} : xfer' = [xfer EXCEPT !.complete = TRUE, !.st = t]
      BY <1>10 DEF OnComplete
    <3>. QED
      BY <1>2, <3>1, CalmMoves
  <2>3. PICK e : e = [rd EXCEPT !.st = "BlocksComplete"]
    OBVIOUS
  <2>4. e.st = "BlocksComplete" /\ e.sent = rd.sent /\ e.cur = rd.cur /\ e.chan = rd.chan
    BY <1>2, <2>3, FieldSet
  <2>5. Sound(e, voucher)
    BY <1>3, <2>4, SoundFields
  <2>6. CASE rd.chan
    <3>1. Read("pull", e, "blocks")
      BY <1>10, <2>3, <2>6 DEF OnComplete
    <3>2. Places'
      BY <1>7, <3>1 DEF Read
    <3>3. rd # NoDeal
      BY <2>6, NoDealSound
    <3>4. Core => CopyFits("blocks", [base |-> rd, deal |-> e])
      BY <1>3, <2>4, <3>3, ReadFits DEF Core, Early
    <3>5. "blocks" \notin UnsealingSteps /\ "blocks" # "sent" /\ rfaults \subseteq rfaults'
      BY <2>1 DEF UnsealingSteps
    <3>. QED
      BY <1>1, <1>6, <2>1, <2>2, <2>5, <3>1, <3>2, <3>4, <3>5, ReadExposure
  <2>7. CASE ~ rd.chan
    <3>1. UNCHANGED <<rpc, rmem>>
      BY <1>10, <2>7 DEF OnComplete
    <3>2. RecordsSound' /\ Places'
      BY <1>6, <2>1, <3>1 DEF ExposureInv, RecordsSound, Places
    <3>3. PaidForReceived'
      BY <1>6, <2>2, PaidStep DEF ExposureInv, Calm
    <3>4. Orderly' => Core'
      BY <2>1, <2>2, <3>1, OrderlyBefore, CalmCore DEF ExposureInv, Orderly
    <3>. QED
      BY <3>2, <3>3, <3>4 DEF ExposureInv
  <2>. QED
    BY <2>6, <2>7
<1>11. CASE SaveComplete
  <2>1. /\ rpc["pull"] = "blocks" /\ UNCHANGED loaded
        /\ rfaults \subseteq rfaults' /\ Stale("pull") \subseteq rfaults'
        /\ \/ Save("pull", d, "idle") /\ xfer' = [xfer EXCEPT !.st = "done"]
           \/ Save("pull", [d EXCEPT !.st = "FundsNeededLastPayment"], "idle") /\ xfer' = Pause(xfer)
    BY <1>4, <1>11 DEF SaveComplete
  <2>2. Calm
    BY <1>2, <2>1, CalmMoves
  <2>3. PICK e : /\ Save("pull", e, "idle") /\ e.sent = d.sent /\ e.cur = d.cur /\ e.chan = d.chan
                 /\ (e.st = d.st \/ e.st \notin Early)
    <3>1. CASE Save("pull", d, "idle")
      BY <3>1
    <3>2. CASE Save("pull", [d EXCEPT !.st = "FundsNeededLastPayment"], "idle")
      <4>1. PICK f : f = [d EXCEPT !.st = "FundsNeededLastPayment"]
        OBVIOUS
      <4>2. f.sent = d.sent /\ f.cur = d.cur /\ f.chan = d.chan /\ f.st \notin Early
        BY <1>5, <4>1, FieldSet DEF Early
      <4>. QED
        BY <3>2, <4>1, <4>2
    <3>. QED
      BY <2>1, <3>1, <3>2
  <2>4. Places'
    BY <1>7, <2>3 DEF Save
  <2>. QED
    BY <1>1, <1>4, <1>6, <2>1, <2>2, <2>3, <2>4, SaveExposure
<1>. QED
  BY <1>8, <1>9, <1>10, <1>11

\* A voucher arrives.  The client has received the data it pays for, so there is
\* nothing to pay before the data of a deal without an unseal price is unsealed.
LEMMA RevalidateExposure == ASSUME RetrievalInv, ExposureInv, Revalidate PROVE ExposureInv'
<1>1. PICK r : r = Received(pay.msg)
  OBVIOUS
<1>2. PICK d : d = [rd EXCEPT !.funds = @ + r]
  OBVIOUS
<1>3. /\ voucher \in Nat /\ pay \in Client /\ pay.msg \in Nat /\ pay.paid \in Nat /\ xfer \in Transfer
      /\ xfer.sent \in Nat /\ RecordShape /\ DOMAIN rpc = Goroutines /\ IsDeal(rd) /\ rd.funds \in Nat
      /\ rd.funds <= voucher
  BY DEF RetrievalInv, MoneyShape, Client, Transfer, RecordShape, IsDeal, CopiesCovered
<1>4. Price \in Nat /\ UnsealPrice \in Nat /\ Size \in Nat /\ Interval \in Nat /\ Interval > 0
  BY RetrievalAssumption
<1>5. r \in Nat /\ voucher' = voucher + r
  BY <1>1, <1>3 DEF Revalidate, Received
<1>6. /\ pay.msg # 0 /\ rpc["pay"] = "idle" /\ UNCHANGED <<rd, xfer, loaded>> /\ rfaults \subseteq rfaults'
      /\ pay' = [pay EXCEPT !.msg = 0] /\ (~ rd.chan => "early" \in rfaults')
  BY DEF Revalidate
<1>7. "pay" \in Goroutines
  BY DEF Goroutines
<1>8. IsDeal(d) /\ d.st = rd.st /\ d.sent = rd.sent /\ d.cur = rd.cur /\ d.chan = rd.chan
  <2>1. PICK f : f = rd.funds + r
    OBVIOUS
  <2>2. d = [rd EXCEPT !.funds = f]
    BY <1>2, <1>3, <2>1 DEF IsDeal
  <2>3. d.st = rd.st /\ d.sent = rd.sent /\ d.cur = rd.cur /\ d.chan = rd.chan
    BY <1>3, <2>2, FieldSet
  <2>. QED
    BY <1>2, <1>3, <1>5, <2>3, FundsAdded
<1>9. voucher' <= pay.paid /\ voucher <= voucher' /\ voucher' \in Nat /\ rd.funds + r \in Nat /\ rd.funds + r <= voucher'
  BY <1>1, <1>3, <1>5 DEF Received, ExposureInv, PaidForReceived
<1>10. PaidForReceived'
  <2>1. pay'.paid = pay.paid /\ pay'.msg = 0
    BY <1>3, <1>6 DEF Client
  <2>. QED
    BY <1>3, <1>6, <1>9, <2>1 DEF ExposureInv, PaidForReceived
<1>11. Sound(rd, voucher) /\ Sound(rd, voucher') /\ rd.sent \in Nat /\ rd.chan \in BOOLEAN
  <2>1. Sound(rd, voucher)
    BY DEF ExposureInv, RecordsSound
  <2>2. Sound(rd, voucher')
    BY <1>3, <1>9, <2>1, SoundMore
  <2>. QED
    BY <1>3, <2>1, <2>2, SoundTypes
<1>12. \/ Read("pay", d, "partial")
       \/ Read("pay", Resumed(d), "paid") /\ ~ (PaymentOwed(rd, rd.funds + r) > 0)
  BY <1>1, <1>2 DEF Revalidate
<1>13. ASSUME NEW l \in {"partial", "paid"}, NEW e, Read("pay", e, l), Sound(e, voucher'),
              e.sent = rd.sent, e.chan = rd.chan,
              Price > 0 => IF l = "paid" /\ rd.st # "FundsNeededUnseal" THEN e.cur >= rd.cur + Interval
                           ELSE e.cur = rd.cur,
              l = "partial" => e.st = rd.st,
              l = "paid" /\ rd.st \notin {"none", "New"} => e.st \notin Early
       PROVE  ExposureInv'
  <2>1. PICK c : c = [base |-> rd, deal |-> e]
    OBVIOUS
  <2>2. c.base = rd /\ c.deal = e /\ rpc' = [rpc EXCEPT !["pay"] = l] /\ rmem' = [rmem EXCEPT !["pay"] = c]
    BY <1>13, <2>1 DEF Read
  <2>3. Places'
    BY <1>3, <1>7, <2>2 DEF ExposureInv, Places, Goroutines
  <2>4. RecordsSound'
    <3>1. Sound(rd', voucher') /\ Sound(c.deal, voucher')
      BY <1>6, <1>11, <1>13, <2>2
    <3>. QED
      BY <1>3, <1>7, <1>9, <2>2, <3>1, SoundStep DEF ExposureInv
  <2>5. ASSUME Orderly' PROVE Core'
    <3>1. Core /\ Price > 0 /\ rd.chan
      BY <1>6, <2>5, OrderlyBefore DEF ExposureInv, Orderly
    <3>2. rd.cur >= Interval /\ rd.st # "none"
      <4>1. rd # NoDeal
        BY <3>1, NoDealSound
      <4>. QED
        BY <3>1, <4>1 DEF Core, QuietBefore
    <3>3. rd.st # "New"
      <4>1. SUFFICES ASSUME rd.st = "New" PROVE FALSE
        OBVIOUS
      <4>2. UnsealPrice = 0 /\ xfer.sent = 0
        BY <3>1, <4>1 DEF Core, QuietBefore, Quiet, Early
      <4>3. 0 * Price = 0
        BY <1>4
      <4>4. pay.paid <= 0
        BY <4>2, <4>3 DEF ExposureInv, PaidForReceived
      <4>5. pay.msg <= pay.paid
        BY DEF ExposureInv, PaidForReceived
      <4>. QED
        BY <1>3, <1>6, <4>4, <4>5
    <3>4. /\ IF l = "paid" /\ rd.st # "FundsNeededUnseal" THEN e.cur >= rd.cur + Interval ELSE e.cur = rd.cur
          /\ e.st \in Early => e.st = rd.st
          /\ l = "paid" => e.st \notin Early
      BY <1>13, <3>1, <3>2, <3>3
    <3>5. l \notin UnsealingSteps /\ l # "sent" /\ l \notin UnsealingSteps \cup {"accept"}
      BY <1>13 DEF UnsealingSteps
    <3>6. CopyFits(l, c)
      <4>1. e.sent = rd.sent + (IF l = "sent" THEN 1 ELSE 0) /\ (rd.chan => e.chan)
        BY <1>11, <1>13, <3>5
      <4>2. l # "resume"
        BY <3>5 DEF UnsealingSteps
      <4>. QED
        BY <2>2, <3>1, <3>2, <3>3, <3>4, <3>5, <4>1, <4>2 DEF CopyFits
    <3>7. Calm
      BY <1>3, <1>6, CalmMoves
    <3>8. RecordsSound
      BY DEF ExposureInv
    <3>. QED
      BY <1>6, <1>7, <1>13, <2>1, <3>1, <3>5, <3>6, <3>7, <3>8, ReadCore
  <2>. QED
    BY <1>10, <2>3, <2>4, <2>5 DEF ExposureInv
<1>14. CASE Read("pay", d, "partial")
  <2>1. Sound(d, voucher')
    BY <1>8, <1>11, SoundFields
  <2>. QED
    BY <1>8, <1>13, <1>14, <2>1
<1>15. CASE Read("pay", Resumed(d), "paid") /\ ~ (PaymentOwed(rd, rd.funds + r) > 0)
  <2>1. PICK e : e = Resumed(d)
    OBVIOUS
  <2>2. /\ e.sent = rd.sent /\ e.chan = rd.chan
        /\ e.cur = IF rd.st = "FundsNeededUnseal" THEN rd.cur ELSE NextInterval(rd.cur)
        /\ (rd.st \notin {"none", "New"} => e.st \notin Early)
    BY <1>8, <2>1, ResumedFields
  <2>3. ASSUME Price > 0
        PROVE  InPaidInterval(NextInterval(rd.cur), voucher') /\ NextInterval(rd.cur) >= rd.cur + Interval
    <3>1. InPaidInterval(rd.cur, voucher) /\ xfer.sent <= Size
      BY <1>11, <2>3 DEF Sound, ExposureInv, PaidForReceived
    <3>2. voucher' <= UnsealPrice + xfer.sent * Price
      <4>1. PICK m \in Nat : m = xfer.sent * Price
        BY <1>3, <1>4
      <4>2. pay.paid <= UnsealPrice + m
        BY <4>1 DEF ExposureInv, PaidForReceived
      <4>. QED
        BY <1>3, <1>4, <1>9, <4>1, <4>2
    <3>3. PICK w \in Nat, total \in Nat : w = voucher' /\ total = rd.funds + r
      BY <1>9
    <3>4. total <= w /\ w <= UnsealPrice + xfer.sent * Price /\ ~ (PaymentOwed(rd, total) > 0)
      BY <1>9, <1>15, <3>2, <3>3, Zenon
    <3>5. InPaidInterval(NextInterval(rd.cur), w) /\ NextInterval(rd.cur) >= rd.cur + Interval
      BY <1>3, <2>3, <3>1, <3>4, PaymentAdvances
    <3>. QED
      BY <3>3, <3>5
  <2>4. Sound(e, voucher')
    <3>1. Price > 0 => InPaidInterval(e.cur, voucher')
      BY <1>11, <2>2, <2>3 DEF Sound
    <3>2. e.sent \in Nat /\ e.chan \in BOOLEAN
      BY <1>11, <2>2
    <3>. QED
      BY <3>1, <3>2 DEF Sound
  <2>. QED
    BY <1>13, <1>15, <2>1, <2>2, <2>3, <2>4
<1>. QED
  BY <1>12, <1>14, <1>15

\* The client pays for what it has received and pays again.
LEMMA ClientExposure == ASSUME RetrievalInv, ExposureInv, ClientPays \/ ClientResends PROVE ExposureInv'
<1>1. pay \in Client /\ xfer \in Transfer /\ voucher \in Nat /\ pay.paid \in Nat /\ xfer.sent \in Nat
  BY DEF RetrievalInv, MoneyShape, Client, Transfer
<1>2. UNCHANGED <<rd, rpc, rmem, xfer, loaded, voucher, rfaults>>
  BY DEF ClientPays, ClientResends
<1>3. RecordsSound' /\ Places'
  BY <1>2 DEF ExposureInv, RecordsSound, Places
<1>4. Calm
  BY <1>1, <1>2, CalmMoves
<1>5. Orderly' => Core'
  BY <1>2, <1>4, OrderlyBefore, CalmCore DEF ExposureInv, Orderly
<1>6. PaidForReceived'
  <2>1. CASE ClientPays
    <3>1. PICK amt \in (pay.paid + 1) .. (UnsealPrice + xfer.sent * Price) :
            pay' = [pay EXCEPT !.paid = amt, !.msg = amt]
      BY <2>1 DEF ClientPays
    <3>2. PICK most \in Nat : most = UnsealPrice + xfer.sent * Price
      <4>1. PICK m \in Nat : m = xfer.sent * Price
        BY <1>1, RetrievalAssumption
      <4>. QED
        BY <4>1, RetrievalAssumption
    <3>3. amt \in Int /\ pay.paid <= amt /\ amt <= most
      BY <1>1, <3>1, <3>2
    <3>4. pay'.paid = amt /\ pay'.msg = amt
      BY <1>1, <3>1 DEF Client
    <3>5. voucher <= pay.paid
      BY DEF ExposureInv, PaidForReceived
    <3>6. voucher <= amt /\ amt <= amt
      BY <1>1, <3>3, <3>5
    <3>. QED
      BY <1>2, <3>2, <3>3, <3>4, <3>6 DEF ExposureInv, PaidForReceived
  <2>2. CASE ClientResends
    <3>1. pay'.paid = pay.paid /\ pay'.msg = pay.paid
      BY <1>1, <2>2 DEF ClientResends, Client
    <3>. QED
      BY <1>1, <1>2, <3>1 DEF ExposureInv, PaidForReceived
  <2>. QED
    BY <2>1, <2>2
<1>. QED
  BY <1>3, <1>5, <1>6 DEF ExposureInv

\* What the transfer does after a payment that covers what is owed.
LEMMA AfterPayment ==
  ASSUME NEW was
  PROVE  \/ TransferAfterPayment(was) = xfer
         \/ TransferAfterPayment(was) = [xfer EXCEPT !.st = "done"]
         \/ was # "FundsNeededUnseal" /\ TransferAfterPayment(was) = Resume
<1>1. CASE was = "FundsNeededUnseal"
  BY <1>1 DEF TransferAfterPayment
<1>2. CASE was # "FundsNeededUnseal"
  BY <1>2 DEF TransferAfterPayment
<1>. QED
  BY <1>1, <1>2

\* A payment is saved: the transfer goes on in an interval that is longer than
\* what was queued when it was paused.
LEMMA SavePaymentExposure == ASSUME RetrievalInv, ExposureInv, SavePayment PROVE ExposureInv'
<1>1. "pay" \in Goroutines /\ "unseal" \in Goroutines /\ "event" \in Goroutines /\ "pull" \in Goroutines
  BY DEF Goroutines
<1>2. /\ xfer \in Transfer /\ voucher \in Nat /\ RecordShape /\ DOMAIN rpc = Goroutines /\ DOMAIN rmem = Goroutines
      /\ Queued \in Nat /\ Interval \in Nat /\ Interval > 0
  BY RetrievalAssumption DEF RetrievalInv, MoneyShape, RecordShape
<1>3. PICK d : d = rmem["pay"].deal
  OBVIOUS
<1>4. PICK was : was = rmem["pay"].base.st
  OBVIOUS
<1>5. PICK unseals \in BOOLEAN : unseals <=> (rpc["pay"] = "paid" /\ was = "FundsNeededUnseal")
  OBVIOUS
<1>6. IsDeal(d) /\ Sound(d, voucher) /\ d.sent \in Nat /\ d.chan \in BOOLEAN /\ (Price > 0 => d.cur \in Nat)
  <2>1. IsDeal(d) /\ Sound(d, voucher)
    BY <1>1, <1>2, <1>3 DEF RecordShape, IsCopy, ExposureInv, RecordsSound
  <2>. QED
    BY <1>2, <2>1, SoundTypes
<1>7. PICK e : /\ rd' = e /\ e.sent = d.sent /\ e.cur = d.cur /\ e.chan = d.chan
               /\ (e.st = d.st \/ e.st \notin Early)
  <2>1. PICK f : f = [d EXCEPT !.st = "Cancelled"]
    OBVIOUS
  <2>2. f.sent = d.sent /\ f.cur = d.cur /\ f.chan = d.chan /\ f.st \notin Early
    BY <1>6, <2>1, FieldSet DEF Early
  <2>3. rd' = d \/ rd' = f
    BY <1>3, <2>1 DEF SavePayment
  <2>. QED
    BY <2>2, <2>3
<1>8. /\ rpc["pay"] \in {"partial", "paid"} /\ rfaults \subseteq rfaults' /\ Stale("pay") \subseteq rfaults'
      /\ (loaded' => loaded) /\ UNCHANGED <<voucher, pay>>
  BY DEF SavePayment, Fails
<1>9. \/ xfer' = Pause(xfer) \/ xfer' = Close(d) \/ xfer' = xfer \/ xfer' = [xfer EXCEPT !.st = "done"]
      \/ rpc["pay"] = "paid" /\ was # "FundsNeededUnseal" /\ xfer' = Resume
  <2>1. \/ xfer' = Close(d)
        \/ rpc["pay"] = "partial" /\ xfer' = Pause(xfer)
        \/ rpc["pay"] = "paid" /\ xfer' = TransferAfterPayment(was)
    BY <1>3, <1>4 DEF SavePayment
  <2>. QED
    BY <2>1, AfterPayment
<1>10. /\ rpc' = [rpc EXCEPT !["pay"] = "idle", !["unseal"] = IF unseals THEN "unsealing" ELSE @]
       /\ rmem' = [rmem EXCEPT !["pay"] = NoCopy, !["unseal"] = IF unseals THEN [base |-> e, deal |-> e] ELSE @]
  <2>1. PICK x : x <=> (rpc["pay"] = "paid" /\ rmem["pay"].base.st = "FundsNeededUnseal")
    OBVIOUS
  <2>2. /\ rpc' = [rpc EXCEPT !["pay"] = "idle",
                              !["unseal"] = IF rpc["pay"] = "paid" /\ rmem["pay"].base.st = "FundsNeededUnseal"
                                            THEN "unsealing" ELSE @]
        /\ rmem' = [rmem EXCEPT !["pay"] = NoCopy,
                                !["unseal"] = IF rpc["pay"] = "paid" /\ rmem["pay"].base.st = "FundsNeededUnseal"
                                              THEN [base |-> rd', deal |-> rd'] ELSE @]
    BY DEF SavePayment
  <2>3. CASE unseals
    BY <1>4, <1>5, <1>7, <2>2, <2>3
  <2>4. CASE ~ unseals
    BY <1>4, <1>5, <2>2, <2>4
  <2>. QED
    BY <2>3, <2>4
<1>11. PICK c : c = [base |-> e, deal |-> e]
  OBVIOUS
<1>12. c.base = e /\ c.deal = e
  BY <1>11
<1>13. /\ rpc'["pay"] = "idle" /\ rmem'["pay"] = NoCopy
       /\ \A b \in {"event", "pull"} : rpc'[b] = rpc[b] /\ rmem'[b] = rmem[b]
       /\ unseals => rpc'["unseal"] = "unsealing" /\ rmem'["unseal"] = c
       /\ ~ unseals => rpc'["unseal"] = rpc["unseal"] /\ rmem'["unseal"] = rmem["unseal"]
  BY <1>1, <1>2, <1>10, <1>11
<1>14. Sound(e, voucher) /\ Sound(rd', voucher')
  BY <1>6, <1>7, <1>8, SoundFields
<1>15. RecordsSound'
  <2>1. ASSUME NEW b \in Goroutines PROVE Sound(rmem'[b].deal, voucher)
    <3>1. rmem'[b].deal = NoDeal \/ rmem'[b].deal = e \/ rmem'[b].deal = rmem[b].deal
      BY <1>12, <1>13, NoDealIsDeal DEF Goroutines
    <3>2. Sound(rmem[b].deal, voucher) /\ Sound(NoDeal, voucher)
      BY NoDealSound DEF ExposureInv, RecordsSound
    <3>. QED
      BY <1>14, <3>1, <3>2
  <2>. QED
    BY <1>8, <1>14, <2>1 DEF RecordsSound
<1>16. Places'
  BY <1>13 DEF ExposureInv, Places
<1>17. Calm \/ (rpc["pay"] = "paid" /\ was # "FundsNeededUnseal" /\ xfer' = Resume)
  BY <1>2, <1>9, CalmMoves
<1>18. xfer'.sent = xfer.sent /\ xfer' \in Transfer
  BY <1>2, <1>17, ResumeMove DEF Calm
<1>19. PaidForReceived'
  BY <1>8, <1>18, PaidStep DEF ExposureInv
<1>20. ASSUME Orderly' PROVE Core'
  <2>1. Core /\ Price > 0 /\ rmem["pay"].base = rd /\ Queued < Interval
    BY <1>8, <1>20, OrderlyBefore DEF ExposureInv, Orderly
  <2>2. CopyFits(rpc["pay"], rmem["pay"])
    BY <1>1, <1>8, <2>1 DEF Core, CopiesFit
  <2>3. rd.cur \in Nat /\ rd.sent \in Nat /\ e.cur \in Nat /\ e.sent \in Nat
    BY <1>2, <1>6, <1>7, <2>1, SoundTypes DEF ExposureInv, RecordsSound
  <2>4. /\ rd.st = was /\ was \notin {"none", "New"} /\ rd.cur >= Interval /\ e.sent = rd.sent /\ e.chan
        /\ (e.st \in Early => e.st = rd.st)
        /\ (rpc["pay"] = "paid" => e.st \notin Early)
        /\ IF rpc["pay"] = "paid" /\ was # "FundsNeededUnseal" THEN e.cur >= rd.cur + Interval ELSE e.cur = rd.cur
    BY <1>3, <1>4, <1>6, <1>7, <1>8, <2>1, <2>2, <2>3 DEF CopyFits
  <2>5. e.cur >= rd.cur /\ e.cur >= Interval
    BY <1>2, <2>3, <2>4
  <2>6. unseals => rd.st = "FundsNeededUnseal" /\ rd.cur = Interval /\ e.cur = Interval /\ Quiet /\ UnsealPrice > 0
    BY <1>5, <2>1, <2>4 DEF Core, QuietBefore, Early
  <2>7. CopiesFit'
    <3>1. ASSUME unseals PROVE CopyFits("unsealing", c)
      BY <1>2, <1>5, <1>12, <2>3, <2>4, <2>5, <2>6, <3>1 DEF CopyFits, UnsealingSteps, Early
    <3>2. ASSUME NEW b \in Goroutines, rpc'[b] # "idle" PROVE CopyFits(rpc'[b], rmem'[b])
      <4>1. CASE b = "unseal" /\ unseals
        BY <1>13, <3>1, <4>1
      <4>2. CASE ~ (b = "unseal" /\ unseals)
        <5>1. rpc'[b] = rpc[b] /\ rmem'[b] = rmem[b]
          BY <1>13, <3>2, <4>2 DEF Goroutines
        <5>. QED
          BY <2>1, <3>2, <5>1 DEF Core, CopiesFit
      <4>. QED
        BY <4>1, <4>2
    <3>. QED
      BY <3>2 DEF CopiesFit
  <2>8. PICK n \in {0, 1} : n = OnItsWay /\ n = OnItsWay'
    BY <1>13 DEF OnItsWay
  <2>9. /\ xfer.sent = rd.sent + n /\ xfer.sent <= rd.cur + Queued
        /\ (xfer.st = "sending" => xfer.sent < rd.cur + n)
    BY <2>1, <2>8 DEF Core, SentInInterval
  <2>10. rd'.cur \in Nat /\ rd'.sent \in Nat /\ rd'.cur >= rd.cur /\ rd'.cur = e.cur /\ rd'.sent = rd.sent
    BY <1>7, <2>3, <2>4, <2>5
  <2>11. xfer'.sent = rd'.sent + OnItsWay'
    <3>1. xfer'.sent = rd'.sent + n
      BY <1>18, <2>9, <2>10
    <3>. QED
      BY <2>8, <3>1, Zenon
  <2>12. SentInInterval'
    <3>1. CASE Calm
      <4>1. xfer'.st = "sending" => xfer'.sent < rd'.cur + n
        BY <2>3, <2>9, <2>10, <3>1, <2>4 DEF Calm
      <4>2. xfer'.st = "sending" => xfer'.sent < rd'.cur + OnItsWay'
        BY <2>8, <4>1, Zenon
      <4>. QED
        BY <1>2, <2>1, <2>3, <2>10, <2>11, <3>1, <4>2, CalmSent DEF Core
    <3>2. CASE rpc["pay"] = "paid" /\ was # "FundsNeededUnseal" /\ xfer' = Resume
      <4>1. xfer'.sent < rd'.cur /\ xfer'.st # "paused" /\ xfer'.sent <= rd'.cur + Queued
        BY <1>2, <1>18, <2>1, <2>3, <2>4, <2>9, <2>10, <3>2, ResumeMove
      <4>2. xfer'.sent < rd'.cur + n
        BY <2>3, <2>9, <2>10, <4>1, <1>18
      <4>3. xfer'.sent < rd'.cur + OnItsWay'
        BY <2>8, <4>2, Zenon
      <4>. QED
        BY <2>11, <4>1, <4>3 DEF SentInInterval
    <3>. QED
      BY <1>17, <3>1, <3>2
  <2>13. rd'.cur = rd.cur => (Quiet => Quiet')
    <3>1. CASE Calm
      BY <3>1, CalmQuiet
    <3>2. CASE rpc["pay"] = "paid" /\ was # "FundsNeededUnseal"
      BY <1>2, <2>3, <2>4, <2>10, <3>2
    <3>. QED
      BY <1>17, <3>1, <3>2
  <2>14. QuietBefore'
    <3>1. rd # NoDeal /\ rd.st # "none"
      BY <2>4, NoDealSound
    <3>2. rd'.st \in Early => rd'.st = rd.st /\ rd'.cur = rd.cur /\ (Quiet => Quiet')
      BY <1>7, <1>8, <2>4, <2>10, <2>13
    <3>3. loaded' => rd'.chan /\ rd'.st \notin Early
      BY <1>7, <1>8, <2>1, <2>4 DEF Core, QuietBefore
    <3>4. rd'.cur >= Interval
      BY <2>5, <2>10
    <3>. QED
      BY <2>1, <2>10, <3>1, <3>2, <3>3, <3>4, QuietBeforeStep DEF Core
  <2>15. QuietWhileUnsealing'
    <3>1. ASSUME NEW b \in {"event", "unseal"}, rpc'[b] \in UnsealingSteps
          PROVE  (b = "event" <=> UnsealPrice = 0) /\ (rd'.cur = Interval => Quiet')
      <4>1. rd'.cur = Interval => rd.cur = Interval /\ rd'.cur = rd.cur
        BY <1>2, <2>3, <2>4, <2>10
      <4>2. CASE b = "unseal" /\ unseals
        <5>1. UnsealPrice # 0
          BY <2>6, <4>2, RetrievalAssumption
        <5>. QED
          BY <2>6, <2>13, <4>1, <4>2, <5>1
      <4>3. CASE ~ (b = "unseal" /\ unseals)
        <5>1. rpc'[b] = rpc[b]
          BY <1>13, <4>3
        <5>2. (b = "event" <=> UnsealPrice = 0) /\ (rd.cur = Interval => Quiet)
          BY <2>1, <3>1, <5>1 DEF Core, QuietWhileUnsealing
        <5>. QED
          BY <2>13, <4>1, <5>2
      <4>. QED
        BY <4>2, <4>3
    <3>. QED
      BY <3>1 DEF QuietWhileUnsealing
  <2>. QED
    BY <2>7, <2>12, <2>14, <2>15 DEF Core
<1>. QED
  BY <1>15, <1>16, <1>19, <1>20 DEF ExposureInv

\* Every step keeps the invariant.
LEMMA ExposureNext ==
  RetrievalInv /\ ExposureInv /\ [RetrievalNext]_retrievalVars => ExposureInv'
<1> SUFFICES ASSUME RetrievalInv, ExposureInv, [RetrievalNext]_retrievalVars PROVE ExposureInv'
  OBVIOUS
<1>1. CASE UNCHANGED retrievalVars
  <2>1. UNCHANGED <<rd, rpc, rmem, xfer, loaded, voucher, pay, rfaults>>
    BY <1>1 DEF retrievalVars
  <2>2. RecordsSound' /\ Places' /\ PaidForReceived'
    BY <2>1 DEF ExposureInv, RecordsSound, Places, PaidForReceived
  <2>3. Calm
    BY <2>1, CalmMoves DEF RetrievalInv, MoneyShape
  <2>4. Orderly' => Core'
    BY <2>1, <2>3, OrderlyBefore, CalmCore DEF ExposureInv, Orderly
  <2>. QED
    BY <2>2, <2>4 DEF ExposureInv
<1>. QED
  BY <1>1, ValidatePullExposure, EventExposure, UnsealExposure, PullExposure, RevalidateExposure,
     SavePaymentExposure, ClientExposure
  DEF RetrievalNext, RetrievalProgress

\* BoundedExposure: whatever the order of blocks, payments in part, early and
\* repeated, pauses and resumes, the provider sends no further than the interval
\* begun and the blocks queued at a pause, and begins no interval before the one
\* before the last is paid.
THEOREM ExposureIsBounded == RetrievalSpec => []BoundedExposure
<1>1. RetrievalInit => RetrievalInv /\ ExposureInv
  BY RetrievalInitInv, ExposureInit
<1>2. RetrievalInv /\ ExposureInv /\ [RetrievalNext]_retrievalVars => (RetrievalInv /\ ExposureInv)'
  BY RetrievalNextInv, ExposureNext
<1>3. RetrievalInv /\ ExposureInv => BoundedExposure
  <2> SUFFICES ASSUME RetrievalInv, ExposureInv, Price > 0
               PROVE  /\ Queued < Interval /\ rfaults \cap {"stale", "early"} = {} => xfer.sent <= rd.cur + Queued
                      /\ LET b == IntervalLowerBound(IntervalLowerBound(rd.cur)) IN
                         b > 0 => voucher >= UnsealPrice + b * Price
    BY DEF BoundedExposure
  <2>1. Queued < Interval /\ rfaults \cap {"stale", "early"} = {} => xfer.sent <= rd.cur + Queued
    BY DEF ExposureInv, Orderly, Core, SentInInterval
  <2>2. InPaidInterval(rd.cur, voucher) /\ voucher \in Nat
    BY DEF ExposureInv, RecordsSound, Sound, RetrievalInv, MoneyShape
  <2>. QED
    BY <2>1, <2>2, IntervalBeforeLastPaid
<1>. QED
  BY <1>1, <1>2, <1>3, PTL DEF RetrievalSpec
=============================================================================
