------------------------- MODULE FundManagerProofs -------------------------
(***************************************************************************)
(* Proofs that the fund manager keeps its ledger, keeps one message in     *)
(* flight, keeps the reserved amount in the address and covers what its    *)
(* callers were told, for any requests, wallets, amounts and bounds.       *)
(***************************************************************************)
EXTENDS FundManager, SumLemmas, SequenceTheorems, TLAPS

Window == {"ackR", "saveR", "wsave"}

-----------------------------------------------------------------------------
(* The inductive invariant.                                                  *)

\* What a step of process knows of the message in flight and of the waiting
\* goroutine: nothing is in flight while the queues are being processed, and
\* the one waiting goroutine waits for the message of the state.
ControlInv ==
  /\ pc \in {"idle", "down"} => lv = NoLocals
  /\ pc \in SplitPCs \cup AckPCs \cup WPCs \cup {"failR", "wsave"} => state.cid = None
  /\ pc \in SplitPCs \cup {"failR", "wloop", "wpush"} => lv.cid = None
  /\ pc = "push" => lv.net > 0
  /\ pc \in SplitPCs \cup AckPCs => lv.left \in Seq(Reservations)
  /\ pc \in {"wloop", "wpush", "wsave"} => lv.left \in Seq(Withdrawals)
  /\ pc # "idle" => waits = {}
  /\ \A w \in waits : w.cid = state.cid
  /\ \A v, w \in waits : v = w
  /\ lv.cid \in DOMAIN msgs \cup {None}
  /\ state.cid \in DOMAIN msgs \cup {None}
  /\ store.cid \in DOMAIN msgs \cup {None}

\* The amounts that splitReservations has counted are in its running totals.
LedgerInv ==
  /\ "saveLost" \notin faults => store = state
  /\ pc \in SplitPCs \cup AckPCs => lv.amt - lv.relAmt = lv.count
  /\ ReservedCoversGranted

\* A pending message is the one in flight unless nobody waits for it.
MsgInv == "saveLost" \notin faults => Pending \ abandoned \subseteq {InFlight}

\* Nothing has happened that the fund manager does not account for.
Undisturbed == faults \cap {"saveLost", "addFailed", "extLock"} = {} /\ abandoned = {}
OnSettling == IF InFlight = None THEN avail ELSE Settled(InFlight)

Backed ==
  /\ pc # "saveR" => OnSettling >= state.amt
  /\ pc \in {"sum", "split"} /\ lv.batch = {} => lv.amt = 0
  /\ pc = "push" => lv.net = NewReserved - avail
  /\ pc \in AckPCs => OnSettling >= NewReserved
  /\ pc = "saveR" /\ lv.cid = None => avail >= state.amt
  /\ pc \in {"wloop", "wpush"} => lv.net = avail - state.amt /\ lv.amt <= lv.net

BackingInv == Undisturbed => Backed

IInv == TypeOK /\ ControlInv /\ LedgerInv /\ MsgInv /\ BackingInv

-----------------------------------------------------------------------------
(* Facts about the operators of the model.                                   *)

\* A request that Complete is called for ends in a legal outcome, whatever set
\* of requests is completed.
LEMMA CompleteType ==
  ASSUME TypeOK, NEW S, NEW res, \A r \in Req : res[r] \in Outcomes
  PROVE  Complete(S, res) \in [Req -> Outcomes]
  BY DEF TypeOK, Complete

\* Amount() is a natural number: the request's amount or zero.
LEMMA AmountType ==
  ASSUME NEW r \in Req
  PROVE  Amount(r) \in Nat
  BY RequestAssumption DEF Amount

\* NoLocals is a value of the locals of process.
LEMMA NoLocalsType == NoLocals \in Locals
  BY DEF NoLocals, Locals

\* What splitReservations writes when a reservation joins the batch.
LEMMA BatchType ==
  ASSUME NEW l \in Locals, NEW k \in Nat \ {0}, NEW w \in Wallets \cup {None},
         NEW a \in Nat, NEW b \in SUBSET Req, NEW n \in Int
  PROVE  [l EXCEPT !.k = k, !.wallet = w, !.amt = a, !.relAmt = 0, !.batch = b,
                   !.count = n] \in Locals
  BY DEF Locals

\* saveState leaves the state and the store in the set of funded states.
LEMMA SaveType ==
  ASSUME TypeOK, NEW c, NEW s \in FundedState, SaveState(c, s)
  PROVE  /\ state' \in FundedState
         /\ store' \in FundedState
         /\ faults' \subseteq Faults
  BY DEF TypeOK, SaveState, Faults

\* PushMessage appends one message under the next cid and changes no other.
LEMMA PushFact ==
  ASSUME TypeOK, NEW kind \in {"add", "withdraw"}, NEW a \in Nat, Push(kind, a)
  PROVE  /\ msgs' \in Seq(Message)
         /\ Len(msgs) + 1 \in Cid
         /\ DOMAIN msgs' = DOMAIN msgs \cup {Len(msgs) + 1}
         /\ Len(msgs) + 1 \notin DOMAIN msgs
         /\ \A c \in DOMAIN msgs : msgs'[c] = msgs[c]
         /\ msgs'[Len(msgs) + 1] = [kind |-> kind, amt |-> a, st |-> "pending"]
<1>1. msgs \in Seq(Message) /\ Len(msgs) \in Nat
  BY DEF TypeOK
<1>2. [kind |-> kind, amt |-> a, st |-> "pending"] \in Message
  BY DEF Message
<1>3. Len(msgs) + 1 \in Cid
  BY <1>1, BoundAssumption DEF Push, Cid
<1> QED BY <1>1, <1>2, <1>3 DEF Push

\* A message that is settled keeps its kind and amount, and no other changes.
LEMMA SettleFact ==
  ASSUME TypeOK, NEW c \in DOMAIN msgs, NEW st \in {"ok", "failed"},
         msgs' = [msgs EXCEPT ![c].st = st]
  PROVE  /\ msgs' \in Seq(Message)
         /\ DOMAIN msgs' = DOMAIN msgs
         /\ \A d \in DOMAIN msgs : d # c => msgs'[d] = msgs[d]
         /\ msgs'[c].st = st
<1>1. msgs \in Seq(Message) /\ msgs[c] \in Message
  BY DEF TypeOK
<1>2. [msgs[c] EXCEPT !.st = st] \in Message
  BY <1>1 DEF Message
<1>3. msgs' = [msgs EXCEPT ![c] = [msgs[c] EXCEPT !.st = st]]
  BY <1>1
<1>4. c \in 1 .. Len(msgs)
  BY <1>1
<1>5. msgs' \in Seq(Message) /\ Len(msgs') = Len(msgs)
  BY <1>1, <1>2, <1>3, <1>4, ExceptSeq
<1>6. \A d \in DOMAIN msgs : d # c => msgs'[d] = msgs[d]
  BY <1>1, <1>3
<1>7. DOMAIN msgs' = DOMAIN msgs
  BY <1>1, <1>5
<1>8. msgs'[c].st = st
  BY <1>1, <1>3 DEF Message
<1> QED BY <1>5, <1>6, <1>7, <1>8

-----------------------------------------------------------------------------
(* Type correctness.                                                         *)

\* Every step of the code keeps every variable in its type, given that the
\* amount to add is positive when AddFunds is called.
LEMMA TypeStep ==
  ASSUME TypeOK, ControlInv, [Next]_vars
  PROVE  TypeOK'
<1> USE RequestAssumption, BoundAssumption DEF reqVars, queues, goVars, chainVars, hist
<1>a. /\ lv \in Locals
      /\ lv.k \in Nat \ {0} /\ lv.amt \in Nat /\ lv.relAmt \in Nat
      /\ lv.cover \subseteq Req /\ lv.batch \subseteq Req /\ lv.done \subseteq Req
      /\ lv.left \in Seq(Req)
      /\ lv.count \in Int /\ lv.net \in Int
  BY DEF TypeOK, Locals
<1>1. ASSUME NEW r \in Req, RequestAndWait(r) PROVE TypeOK'
  <2>1. /\ reservations' \in Seq(Reservations)
        /\ releases' \in Seq(Releases)
        /\ withdrawals' \in Seq(Withdrawals)
    BY <1>1 DEF TypeOK, RequestAndWait
  <2>2. outcome' \in [Req -> Outcomes]
    BY <1>1 DEF TypeOK, RequestAndWait, Outcomes
  <2>3. procs' \in [Ctx -> Nat]
    BY <1>1 DEF TypeOK, RequestAndWait, Spawn, CtxOf, Ctx
  <2> HIDE RequestAssumption, BoundAssumption
  <2> QED BY <1>1, <2>1, <2>2, <2>3 DEF TypeOK, RequestAndWait
<1>2. ASSUME NEW r \in RPC, Cancel(r) PROVE TypeOK'
  BY <1>2 DEF TypeOK, Cancel, Outcomes
<1>3. ASSUME NEW r \in RPC, CallerReturn(r) PROVE TypeOK'
  BY <1>3 DEF TypeOK, CallerReturn
<1>4. ASSUME NEW c \in Ctx, Process(c) PROVE TypeOK'
  BY <1>4 DEF TypeOK, Process, FirstStep, PCs, SplitPCs, WPCs
<1>5. CASE SumReleases
  <2>1. CASE lv.k <= Len(releases)
    <3>1. releases[lv.k] \in Req
      BY <1>a, <2>1 DEF TypeOK, Req
    <3>2. PICK a \in Nat : a = Amount(releases[lv.k])
      BY <3>1, AmountType
    <3>3. lv' = [lv EXCEPT !.k = lv.k + 1, !.relAmt = lv.relAmt + a, !.count = lv.count - a]
      BY <1>5, <2>1, <3>2 DEF SumReleases
    <3> HIDE RequestAssumption, BoundAssumption
    <3>4. lv.k + 1 \in Nat \ {0} /\ lv.relAmt + a \in Nat /\ lv.count - a \in Int
      BY <1>a
    <3>5. lv' \in Locals
      BY <1>a, <3>3, <3>4 DEF Locals
    <3> QED BY <1>5, <2>1, <3>5 DEF SumReleases, TypeOK
  <2>2. CASE ~(lv.k <= Len(releases))
    <3>0. lv' = [lv EXCEPT !.k = 1]
      BY <1>5, <2>2 DEF SumReleases
    <3>1. lv' \in Locals
      <4> HIDE RequestAssumption, BoundAssumption
      <4>1. 1 \in Nat \ {0}
        OBVIOUS
      <4> QED BY <1>a, <3>0, <4>1, SMTT(30) DEF Locals
    <3>2. pc' \in PCs
      BY <1>5, <2>2 DEF SumReleases, PCs, SplitPCs
    <3> QED BY <1>5, <3>1, <3>2 DEF SumReleases, TypeOK
  <2> QED BY <2>1, <2>2
<1>6. CASE SplitReservations
  <2>1. CASE lv.k <= Len(reservations)
    <3>1. PICK r \in Reservations : r = reservations[lv.k]
      BY <1>a, <2>1 DEF TypeOK
    <3>2. PICK a \in Nat : a = Amount(r)
      BY <3>1, AmountType DEF Req
    <3>3. lv' = SplitReservation(r, a)
      BY <1>6, <2>1, <3>1, <3>2 DEF SplitReservations
    <3>4. r \in Req /\ Wallet[r] \in Wallets
      BY DEF Req
    <3>5. lv' \in Locals
      <4>1. CASE a <= lv.relAmt
        <5>1. lv' = [lv EXCEPT !.k = lv.k + 1, !.relAmt = lv.relAmt - a,
                               !.cover = lv.cover \cup {r}, !.count = lv.count + a]
          BY <3>3, <4>1 DEF SplitReservation
        <5>2. /\ lv.k + 1 \in Nat \ {0} /\ lv.relAmt - a \in Nat
              /\ lv.cover \cup {r} \in SUBSET Req /\ lv.count + a \in Int
          BY <1>a, <3>4, <4>1
        <5> QED BY <1>a, <5>1, <5>2 DEF Locals
      <4>2. CASE ~(a <= lv.relAmt) /\ lv.wallet \in {None, Wallet[r]}
        <5>1. lv' = [lv EXCEPT !.k = lv.k + 1, !.wallet = Wallet[r],
                               !.amt = lv.amt + (a - lv.relAmt), !.relAmt = 0,
                               !.batch = lv.batch \cup {r}, !.count = lv.count + a]
          BY <3>3, <4>2 DEF SplitReservation
        <5> HIDE RequestAssumption, BoundAssumption
        <5>2. lv.k + 1 \in Nat \ {0} /\ lv.count + a \in Int
          BY <1>a
        <5>3. lv.amt + (a - lv.relAmt) \in Nat
          BY <1>a, <4>2
        <5>4. lv.batch \cup {r} \in SUBSET Req /\ Wallet[r] \in Wallets \cup {None}
          BY <1>a, <3>4
        <5> QED BY <1>a, <5>1, <5>2, <5>3, <5>4, BatchType, Zenon
      <4>3. CASE ~(a <= lv.relAmt) /\ lv.wallet \notin {None, Wallet[r]}
        <5>1. lv' = [lv EXCEPT !.k = lv.k + 1, !.left = Append(lv.left, r)]
          BY <3>3, <4>3 DEF SplitReservation
        <5>2. lv.k + 1 \in Nat \ {0} /\ Append(lv.left, r) \in Seq(Req)
          BY <1>a, <3>4
        <5> QED BY <1>a, <5>1, <5>2 DEF Locals
      <4> QED BY <4>1, <4>2, <4>3
    <3> QED BY <1>6, <2>1, <3>5 DEF SplitReservations, TypeOK
  <2>2. CASE ~(lv.k <= Len(reservations))
    <3>1. pc' \in PCs
      BY <1>6, <2>2 DEF SplitReservations, PCs, SplitPCs, AckPCs
    <3> QED BY <1>6, <2>2, <3>1 DEF SplitReservations, TypeOK
  <2> QED BY <2>1, <2>2
<1>b. NewReserved \in Nat
  BY <1>a DEF NewReserved, MaxOf, TypeOK, FundedState
<1>7. CASE AvailableFunds
  <2>1. lv' \in Locals
    <3>1. NewReserved - avail \in Int
      BY <1>b DEF TypeOK
    <3>2. lv.cover \cup lv.batch \in SUBSET Req
      BY <1>a
    <3>3. \/ lv' = lv
          \/ lv' = [lv EXCEPT !.cover = lv.cover \cup lv.batch, !.batch = {}]
          \/ lv' = [lv EXCEPT !.net = NewReserved - avail]
      BY <1>7 DEF AvailableFunds
    <3> QED BY <1>a, <3>1, <3>2, <3>3 DEF Locals
  <2>2. pc' \in PCs
    BY <1>7 DEF AvailableFunds, PCs, SplitPCs, AckPCs
  <2> QED BY <1>7, <2>1, <2>2 DEF AvailableFunds, TypeOK
<1>8. CASE AddFunds
  <2>0. lv.net \in Nat
    BY <1>a, <1>8 DEF ControlInv, AddFunds
  <2>1. lv' \in Locals
    <3>1. lv' = lv \/ (Push("add", lv.net) /\ lv' = [lv EXCEPT !.cid = Len(msgs) + 1])
      BY <1>8 DEF AddFunds
    <3>2. CASE Push("add", lv.net) /\ lv' = [lv EXCEPT !.cid = Len(msgs) + 1]
      <4>1. Len(msgs) + 1 \in Cid
        BY <2>0, <3>2, PushFact
      <4> HIDE RequestAssumption, BoundAssumption
      <4> QED BY <1>a, <3>2, <4>1 DEF Locals
    <3> QED BY <1>a, <3>1, <3>2
  <2>2. msgs' \in Seq(Message)
    BY <1>8, <2>0, PushFact DEF AddFunds, TypeOK
  <2>3. pc' \in PCs
    BY <1>8 DEF AddFunds, PCs, AckPCs
  <2> QED BY <1>8, <2>1, <2>2, <2>3 DEF AddFunds, TypeOK
<1>9. CASE CompleteReservations
  <2>1. outcome' \in [Req -> Outcomes]
    BY <1>9, CompleteType DEF CompleteReservations, Outcomes
  <2>2. pc' \in PCs
    BY <1>9 DEF CompleteReservations, PCs, AckPCs
  <2>3. owed' \in Int
    BY <1>a, <1>9 DEF CompleteReservations, TypeOK
  <2> HIDE RequestAssumption, BoundAssumption
  <2> QED BY <1>9, <2>1, <2>2, <2>3 DEF TypeOK, CompleteReservations
<1>10. CASE ApplyReservations
  <2>1. [amt |-> NewReserved, cid |-> lv.cid] \in FundedState
    BY <1>b DEF TypeOK, Locals, FundedState
  <2>2. state' \in FundedState /\ store' \in FundedState /\ faults' \subseteq Faults
    BY <1>10, <2>1, SaveType DEF ApplyReservations
  <2>3. pc' \in PCs
    BY <1>10 DEF ApplyReservations, AfterReservations, PCs, WPCs
  <2>4. reservations' \in Seq(Reservations)
    BY <1>10 DEF ControlInv, AckPCs, ApplyReservations
  <2> QED BY <1>10, <2>2, <2>3, <2>4 DEF TypeOK, ApplyReservations
<1>11. CASE FailReservations
  <2>1. outcome' \in [Req -> Outcomes]
    BY <1>11, CompleteType DEF FailReservations, Outcomes
  <2>2. pc' \in PCs
    BY <1>11 DEF FailReservations, AfterReservations, PCs, WPCs
  <2>3. reservations' \in Seq(Reservations) /\ releases' \in Seq(Releases)
    BY <1>11 DEF FailReservations
  <2> QED BY <1>11, <2>1, <2>2, <2>3 DEF TypeOK, FailReservations
<1>c. ASSUME FailWithdrawals
      PROVE  outcome' \in [Req -> Outcomes] /\ pc' \in PCs /\ withdrawals' \in Seq(Withdrawals)
  BY <1>c, CompleteType DEF FailWithdrawals, Outcomes, PCs
<1>12. CASE NetAvailable
  <2>1. CASE FailWithdrawals /\ UNCHANGED lv
    BY <1>12, <1>c, <2>1 DEF NetAvailable, TypeOK
  <2>2. CASE ~(FailWithdrawals /\ UNCHANGED lv)
    <3>1. NetAvail \in Int
      BY DEF NetAvail, TypeOK, FundedState
    <3>2. lv' = [NoLocals EXCEPT !.net = NetAvail] /\ pc' = "wloop" /\ UNCHANGED <<outcome, withdrawals>>
      BY <1>12, <2>2 DEF NetAvailable
    <3>3. lv' \in Locals
      BY <3>1, <3>2, NoLocalsType DEF Locals
    <3>4. pc' \in PCs
      BY <3>2 DEF PCs, WPCs
    <3> QED BY <1>12, <3>2, <3>3, <3>4 DEF NetAvailable, TypeOK
  <2> QED BY <2>1, <2>2
<1>13. CASE ProcessWithdrawals
  <2>1. CASE lv.k <= Len(withdrawals)
    <3>1. PICK r \in Withdrawals : r = withdrawals[lv.k]
      BY <1>a, <2>1 DEF TypeOK
    <3>2. PICK a \in Nat : a = Amount(r)
      BY <3>1, AmountType DEF Req
    <3>3. FitWithdrawal(r, a) /\ UNCHANGED <<withdrawals, pc>>
      BY <1>a, <1>13, <2>1, <3>1, <3>2 DEF ProcessWithdrawals, TypeOK
    <3>4. r \in Req /\ Wallet[r] \in Wallets
      BY DEF Req
    <3>5. outcome' \in [Req -> Outcomes]
      BY <3>3, CompleteType DEF FitWithdrawal, Outcomes, TypeOK
    <3>6. lv' \in Locals
      <4>1. /\ lv.k + 1 \in Nat \ {0} /\ lv.done \cup {r} \in SUBSET Req
            /\ lv.amt + a \in Nat /\ lv.batch \cup {r} \in SUBSET Req
            /\ Wallet[r] \in Wallets \cup {None} /\ Append(lv.left, r) \in Seq(Req)
        BY <1>a, <3>4
      <4>2. \/ lv' = [lv EXCEPT !.k = lv.k + 1, !.done = lv.done \cup {r}]
            \/ lv' = [lv EXCEPT !.k = lv.k + 1, !.wallet = Wallet[r], !.amt = lv.amt + a,
                                !.batch = lv.batch \cup {r}]
            \/ lv' = [lv EXCEPT !.k = lv.k + 1, !.left = Append(lv.left, r)]
        BY <3>3 DEF FitWithdrawal
      <4>3. CASE lv' = [lv EXCEPT !.k = lv.k + 1, !.done = lv.done \cup {r}]
        BY <1>a, <4>1, <4>3 DEF Locals
      <4>4. CASE lv' = [lv EXCEPT !.k = lv.k + 1, !.wallet = Wallet[r], !.amt = lv.amt + a,
                                !.batch = lv.batch \cup {r}]
        BY <1>a, <4>1, <4>4 DEF Locals
      <4>5. CASE lv' = [lv EXCEPT !.k = lv.k + 1, !.left = Append(lv.left, r)]
        BY <1>a, <4>1, <4>5 DEF Locals
      <4> QED BY <4>2, <4>3, <4>4, <4>5
    <3> QED BY <1>13, <3>3, <3>5, <3>6 DEF ProcessWithdrawals, TypeOK
  <2>2. CASE ~(lv.k <= Len(withdrawals))
    <3>1. pc' \in PCs
      BY <1>13, <2>2 DEF ProcessWithdrawals, PCs, WPCs
    <3>2. withdrawals' \in Seq(Withdrawals)
      BY <1>13, <2>2 DEF ProcessWithdrawals, ControlInv, TypeOK
    <3> QED BY <1>13, <2>2, <3>1, <3>2 DEF ProcessWithdrawals, TypeOK
  <2> QED BY <2>1, <2>2
<1>d. ASSUME Die
      PROVE  /\ outcome' \in [Req -> Outcomes] /\ pc' \in PCs
             /\ reservations' \in Seq(Reservations) /\ releases' \in Seq(Releases)
             /\ withdrawals' \in Seq(Withdrawals) /\ state' \in FundedState
             /\ procs' \in [Ctx -> Nat] /\ waits' \subseteq [cid : Cid, ctx : Ctx]
             /\ pctx' \in Ctx /\ lv' \in Locals
  BY <1>d, NoLocalsType DEF Die, TypeOK, Outcomes, PCs, Ctx
<1>14. CASE WithdrawFunds
  <2>1. CASE Die /\ UNCHANGED msgs /\ faults' = faults \cup {"panic"}
    BY <1>14, <1>d, <2>1 DEF WithdrawFunds, TypeOK, Faults
  <2>2. CASE FailWithdrawals /\ UNCHANGED <<reservations, releases, state, goVars, pctx, lv, msgs, faults>>
    BY <1>14, <1>c, <2>2 DEF WithdrawFunds, TypeOK
  <2>3. CASE /\ Push("withdraw", lv.amt)
             /\ lv' = [lv EXCEPT !.cid = Len(msgs) + 1]
             /\ outcome' = Complete(lv.batch, [r \in Req |-> "msg"])
             /\ pc' = "wsave"
             /\ UNCHANGED <<queues, state, goVars, pctx, faults>>
    <3>1. lv' \in Locals
      BY <1>a, <2>3, PushFact DEF Locals
    <3>2. msgs' \in Seq(Message)
      BY <1>a, <2>3, PushFact
    <3>3. outcome' \in [Req -> Outcomes]
      BY <2>3, CompleteType DEF Outcomes
    <3>4. pc' \in PCs
      BY <2>3 DEF PCs
    <3> QED BY <1>14, <2>3, <3>1, <3>2, <3>3, <3>4 DEF WithdrawFunds, TypeOK
  <2> QED BY <1>14, <2>1, <2>2, <2>3 DEF WithdrawFunds
<1>15. CASE ApplyWithdrawals
  <2>1. [state EXCEPT !.cid = lv.cid] \in FundedState
    BY DEF TypeOK, Locals, FundedState
  <2>2. state' \in FundedState /\ store' \in FundedState /\ faults' \subseteq Faults
    BY <1>15, <2>1, SaveType DEF ApplyWithdrawals
  <2>3. pc' \in PCs
    BY <1>15 DEF ApplyWithdrawals, PCs
  <2>4. withdrawals' \in Seq(Withdrawals)
    BY <1>15 DEF ControlInv, ApplyWithdrawals
  <2> QED BY <1>15, <2>2, <2>3, <2>4 DEF TypeOK, ApplyWithdrawals
<1>16. CASE EndProcess
  <2>1. pc' \in PCs /\ pctx' \in Ctx
    BY <1>16 DEF EndProcess, PCs, Ctx
  <2>2. waits' \subseteq [cid : Cid, ctx : Ctx]
    BY <1>16 DEF EndProcess, StartWaitForResults, TypeOK, FundedState
  <2>3. procs' \in [Ctx -> Nat]
    BY <1>16 DEF EndProcess, Spawn, TypeOK
  <2> QED BY <1>16, <2>1, <2>2, <2>3, NoLocalsType DEF EndProcess, TypeOK
<1>17. ASSUME NEW w \in waits, WaitReturns(w) PROVE TypeOK'
  <2>1. w.cid \in Cid /\ w.ctx \in Ctx
    BY DEF TypeOK
  <2>2. [state EXCEPT !.cid = None] \in FundedState
    BY DEF TypeOK, FundedState
  <2>3. state' \in FundedState /\ store' \in FundedState /\ faults' \subseteq Faults
    BY <1>17, <2>2, SaveType DEF WaitReturns
  <2>4. procs' \in [Ctx -> Nat]
    BY <1>17, <2>1 DEF WaitReturns, Spawn, TypeOK
  <2> QED BY <1>17, <2>1, <2>3, <2>4 DEF WaitReturns, TypeOK
<1>18. ASSUME NEW c \in Cid, ChainExec(c) PROVE TypeOK'
  <2>1. c \in DOMAIN msgs /\ msgs[c] \in Message
    BY <1>18 DEF ChainExec, Pending, TypeOK
  <2>2. msgs' \in Seq(Message)
    BY <1>18, <2>1, SettleFact DEF ChainExec
  <2>3. avail' \in Nat
    <3>1. avail \in Nat /\ msgs[c].amt \in Nat
      BY <2>1 DEF TypeOK, Message
    <3>2. avail' = avail + msgs[c].amt \/ avail' = avail - MinOf(avail, msgs[c].amt)
      BY <1>18 DEF ChainExec
    <3> QED BY <3>1, <3>2 DEF MinOf
  <2> HIDE RequestAssumption, BoundAssumption
  <2> QED BY <1>18, <2>2, <2>3 DEF ChainExec, TypeOK
<1>19. ASSUME NEW c \in Cid, ChainFail(c) PROVE TypeOK'
  <2>1. c \in DOMAIN msgs /\ msgs[c] \in Message
    BY <1>19 DEF ChainFail, Pending, TypeOK
  <2>2. msgs' \in Seq(Message)
    BY <1>19, <2>1, SettleFact DEF ChainFail
  <2>3. faults' \subseteq Faults
    BY <1>19 DEF ChainFail, Faults, TypeOK
  <2> QED BY <1>19, <2>2, <2>3 DEF ChainFail, TypeOK
<1>20. ASSUME NEW x \in ExtLocks, ExtLock(x) PROVE TypeOK'
  BY <1>20 DEF TypeOK, ExtLock, Faults
<1>21. CASE Stop
  BY <1>21 DEF TypeOK, Stop
<1>22. CASE Crash
  <2>1. abandoned' \subseteq Cid /\ faults' \subseteq Faults
    BY <1>22 DEF Crash, TypeOK, Locals, Faults
  <2> QED BY <1>22, <1>d, <2>1 DEF Crash, TypeOK
<1>23. CASE Start
  <2>1. pc' \in PCs
    BY <1>23 DEF Start, PCs
  <2>2. waits' \subseteq [cid : Cid, ctx : Ctx]
    BY <1>23 DEF Start, StartWaitForResults, TypeOK, FundedState, Ctx
  <2> QED BY <1>23, <2>1, <2>2 DEF Start, TypeOK
<1>24. CASE UNCHANGED vars
  BY <1>24 DEF TypeOK, vars
<1> QED
  BY <1>1, <1>2, <1>3, <1>4, <1>5, <1>6, <1>7, <1>8, <1>9, <1>10, <1>11, <1>12, <1>13,
     <1>14, <1>15, <1>16, <1>17, <1>18, <1>19, <1>20, <1>21, <1>22, <1>23, <1>24
     DEF Next, Locked

-----------------------------------------------------------------------------
(* Control.                                                                  *)

\* One step of the code keeps what process and the waiting goroutine know of
\* the message in flight.
LEMMA ControlStep ==
  ASSUME TypeOK, ControlInv, [Next]_vars
  PROVE  ControlInv'
<1> USE RequestAssumption, BoundAssumption
    DEF reqVars, queues, goVars, chainVars, hist, SplitPCs, AckPCs, WPCs
<1>a. /\ lv \in Locals /\ lv.k \in Nat \ {0} /\ lv.net \in Int
      /\ lv.cid \in Cid \cup {None}
  BY DEF TypeOK, Locals
<1>1. ASSUME NEW r \in Req, RequestAndWait(r) PROVE ControlInv'
  BY <1>1 DEF ControlInv, RequestAndWait
<1>2. ASSUME NEW r \in RPC, Cancel(r) \/ CallerReturn(r) PROVE ControlInv'
  BY <1>2 DEF ControlInv, Cancel, CallerReturn
<1>4. ASSUME NEW c \in Ctx, Process(c) PROVE ControlInv'
  <2>1. lv = NoLocals
    BY <1>4 DEF ControlInv, Process
  <2>2. CASE pc' = "idle"
    BY <1>4, <2>2 DEF ControlInv, Process
  <2>3. CASE pc' # "idle"
    <3>1. state.cid = None /\ pc' \in {"sum", "wavail"}
      BY <1>4, <2>3 DEF Process, FirstStep
    <3>2. waits = {}
      <4> SUFFICES ASSUME NEW w \in waits PROVE FALSE
        OBVIOUS
      <4>1. w.cid = None /\ w.cid \in Cid
        BY <3>1 DEF ControlInv, TypeOK
      <4> QED BY <4>1 DEF Cid
    <3>3. lv.left = << >> /\ lv.cid = None
      BY <2>1 DEF NoLocals
    <3> QED BY <1>4, <3>1, <3>2, <3>3 DEF ControlInv, Process
  <2> QED BY <2>2, <2>3
<1>5. CASE SumReleases
  <2>1. lv'.left = lv.left /\ lv'.cid = lv.cid /\ pc' \in {"sum", "split"}
    BY <1>a, <1>5 DEF SumReleases, Locals
  <2> QED BY <1>5, <2>1 DEF ControlInv, SumReleases
<1>6. CASE SplitReservations
  <2>1. CASE lv.k <= Len(reservations)
    <3>1. reservations[lv.k] \in Reservations
      BY <1>a, <2>1 DEF TypeOK
    <3>2. lv'.cid = lv.cid /\ (lv'.left = lv.left \/ lv'.left = Append(lv.left, reservations[lv.k]))
      BY <1>a, <1>6, <2>1 DEF SplitReservations, SplitReservation, Locals
    <3>3. lv'.left \in Seq(Reservations)
      <4>1. lv.left \in Seq(Reservations)
        BY <1>6 DEF ControlInv, SplitReservations
      <4>2. Append(lv.left, reservations[lv.k]) \in Seq(Reservations)
        BY <3>1, <4>1, AppendProperties
      <4> QED BY <3>2, <4>1, <4>2
    <3> QED BY <1>6, <2>1, <3>2, <3>3 DEF ControlInv, SplitReservations
  <2>2. CASE ~(lv.k <= Len(reservations))
    BY <1>6, <2>2 DEF ControlInv, SplitReservations
  <2> QED BY <2>1, <2>2
<1>7. CASE AvailableFunds
  <2>1. lv'.left = lv.left /\ lv'.cid = lv.cid
    BY <1>a, <1>7 DEF AvailableFunds, Locals
  <2>2. pc' = "push" => lv'.net > 0
    <3>1. NewReserved - avail \in Int
      <4>1. lv.amt \in Nat /\ lv.relAmt \in Nat /\ state.amt \in Nat /\ avail \in Nat
        BY DEF TypeOK, Locals, FundedState
      <4> QED BY <4>1 DEF NewReserved, MaxOf
    <3>2. ASSUME pc' = "push"
          PROVE  ~(NewReserved - avail <= 0) /\ lv' = [lv EXCEPT !.net = NewReserved - avail]
      BY <1>7, <3>2 DEF AvailableFunds
    <3>3. ASSUME pc' = "push" PROVE lv'.net = NewReserved - avail
      BY <1>a, <3>2, <3>3 DEF Locals
    <3> QED BY <3>1, <3>2, <3>3
  <2>3. pc' \in {"ackR", "push", "failR"} /\ pc = "avail"
    BY <1>7 DEF AvailableFunds
  <2> QED BY <1>7, <2>1, <2>2, <2>3 DEF ControlInv, AvailableFunds
<1>8. CASE AddFunds
  <2>0. lv.net \in Nat
    BY <1>a, <1>8 DEF ControlInv, AddFunds
  <2>1. CASE pc' = "failR"
    BY <1>8, <2>1 DEF ControlInv, AddFunds
  <2>2. CASE pc' # "failR"
    <3>1. /\ Push("add", lv.net) /\ pc' = "ackR"
          /\ lv' = [lv EXCEPT !.cid = Len(msgs) + 1]
      BY <1>8, <2>2 DEF AddFunds
    <3>2. lv'.cid = Len(msgs) + 1 /\ lv'.left = lv.left
      BY <1>a, <3>1 DEF Locals
    <3>3. DOMAIN msgs' = DOMAIN msgs \cup {Len(msgs) + 1}
      BY <2>0, <3>1, PushFact
    <3> QED BY <1>8, <3>1, <3>2, <3>3 DEF ControlInv, AddFunds
  <2> QED BY <2>1, <2>2
<1>9. CASE CompleteReservations
  BY <1>9 DEF ControlInv, CompleteReservations
<1>10. CASE ApplyReservations
  <2>1. state'.cid = lv.cid /\ (store' = store \/ store'.cid = lv.cid)
    BY <1>10 DEF ApplyReservations, SaveState
  <2>2. pc' = "end" \/ (pc' = "wavail" /\ lv.cid = None)
    BY <1>10 DEF ApplyReservations, AfterReservations
  <2> QED BY <1>10, <2>1, <2>2 DEF ControlInv, ApplyReservations
<1>11. CASE FailReservations
  BY <1>11 DEF ControlInv, FailReservations, AfterReservations
<1>12. CASE NetAvailable
  <2>1. CASE pc' = "end"
    BY <1>12, <2>1 DEF ControlInv, NetAvailable
  <2>2. CASE pc' # "end"
    <3>1. pc' = "wloop" /\ lv' = [NoLocals EXCEPT !.net = NetAvail]
      BY <1>12, <2>2 DEF NetAvailable, FailWithdrawals
    <3>2. lv'.cid = None /\ lv'.left = << >>
      BY <3>1 DEF NoLocals
    <3>3. lv'.left \in Seq(Withdrawals) /\ UNCHANGED <<state, store, waits, msgs>> /\ waits = {}
      BY <1>12, <3>2 DEF ControlInv, NetAvailable
    <3> QED BY <1>12, <3>1, <3>2, <3>3 DEF ControlInv, NetAvailable
  <2> QED BY <2>1, <2>2
<1>13. CASE ProcessWithdrawals
  <2>1. CASE lv.k <= Len(withdrawals)
    <3>0. Len(withdrawals) \in Nat
      BY DEF TypeOK
    <3>1. withdrawals[lv.k] \in Withdrawals
      BY <1>a, <2>1 DEF TypeOK
    <3>2. FitWithdrawal(withdrawals[lv.k], Amount(withdrawals[lv.k])) /\ UNCHANGED <<withdrawals, pc>>
      BY <1>a, <1>13, <2>1, <3>0 DEF ProcessWithdrawals
    <3>3. lv'.cid = lv.cid /\ (lv'.left = lv.left \/ lv'.left = Append(lv.left, withdrawals[lv.k]))
      BY <1>a, <3>2 DEF FitWithdrawal, Locals
    <3>4. lv'.left \in Seq(Withdrawals)
      <4>1. lv.left \in Seq(Withdrawals)
        BY <1>13 DEF ControlInv, ProcessWithdrawals
      <4>2. Append(lv.left, withdrawals[lv.k]) \in Seq(Withdrawals)
        BY <3>1, <4>1, AppendProperties
      <4> QED BY <3>3, <4>1, <4>2
    <3> QED BY <1>13, <3>2, <3>3, <3>4 DEF ControlInv, ProcessWithdrawals
  <2>2. CASE ~(lv.k <= Len(withdrawals))
    BY <1>13, <2>2 DEF ControlInv, ProcessWithdrawals
  <2> QED BY <2>1, <2>2
<1>14. CASE WithdrawFunds
  <2>1. CASE Die /\ UNCHANGED msgs
    BY <1>14, <2>1 DEF ControlInv, WithdrawFunds, Die, NoLocals
  <2>2. CASE FailWithdrawals /\ UNCHANGED <<reservations, releases, state, goVars, pctx, lv, msgs, faults>>
    BY <1>14, <2>2 DEF ControlInv, WithdrawFunds, FailWithdrawals
  <2>3. CASE /\ Push("withdraw", lv.amt)
             /\ lv' = [lv EXCEPT !.cid = Len(msgs) + 1]
             /\ pc' = "wsave"
             /\ UNCHANGED <<queues, state, goVars, pctx, faults>>
    <3>0. lv.amt \in Nat
      BY DEF TypeOK, Locals
    <3>2. lv'.cid = Len(msgs) + 1 /\ lv'.left = lv.left
      BY <1>a, <2>3 DEF Locals
    <3>3. DOMAIN msgs' = DOMAIN msgs \cup {Len(msgs) + 1}
      BY <2>3, <3>0, PushFact
    <3> QED BY <1>14, <2>3, <3>2, <3>3 DEF ControlInv, WithdrawFunds
  <2> QED BY <1>14, <2>1, <2>2, <2>3 DEF WithdrawFunds
<1>15. CASE ApplyWithdrawals
  <2>1. state'.cid = lv.cid /\ (store' = store \/ store'.cid = lv.cid)
    BY <1>15 DEF ApplyWithdrawals, SaveState, TypeOK, FundedState
  <2> QED BY <1>15, <2>1 DEF ControlInv, ApplyWithdrawals
<1>16. CASE EndProcess
  <2>1. waits = {}
    BY <1>16 DEF ControlInv, EndProcess
  <2>2. \A w \in waits' : w = [cid |-> state.cid, ctx |-> pctx] /\ w.cid = state.cid
    BY <1>16, <2>1 DEF EndProcess, StartWaitForResults
  <2>3. lv'.cid = None
    BY <1>16 DEF EndProcess, NoLocals
  <2> QED BY <1>16, <2>2, <2>3 DEF ControlInv, EndProcess
<1>17. ASSUME NEW w \in waits, WaitReturns(w) PROVE ControlInv'
  <2>1. waits' = {}
    BY <1>17 DEF ControlInv, WaitReturns
  <2>2. state'.cid = None /\ (store' = store \/ store'.cid = None)
    BY <1>17 DEF WaitReturns, SaveState, TypeOK, FundedState
  <2> QED BY <1>17, <2>1, <2>2 DEF ControlInv, WaitReturns
<1>18. ASSUME NEW c \in Cid, ChainExec(c) \/ ChainFail(c) PROVE ControlInv'
  <2>1. DOMAIN msgs' = DOMAIN msgs
    BY <1>18, SettleFact DEF ChainExec, ChainFail, Pending
  <2> QED BY <1>18, <2>1 DEF ControlInv, ChainExec, ChainFail
<1>20. ASSUME NEW x \in ExtLocks, ExtLock(x) PROVE ControlInv'
  BY <1>20 DEF ControlInv, ExtLock
<1>21. CASE Stop
  BY <1>21 DEF ControlInv, Stop
<1>22. CASE Crash
  BY <1>22 DEF ControlInv, Crash, Die, NoLocals
<1>23. CASE Start
  <2>1. waits = {}
    BY <1>23 DEF ControlInv, Start
  <2>2. \A w \in waits' : w = [cid |-> store.cid, ctx |-> Bg] /\ w.cid = store.cid
    BY <1>23, <2>1 DEF Start, StartWaitForResults
  <2> QED BY <1>23, <2>2 DEF ControlInv, Start
<1>24. CASE UNCHANGED vars
  BY <1>24 DEF ControlInv, vars
<1> QED
  BY <1>1, <1>2, <1>4, <1>5, <1>6, <1>7, <1>8, <1>9, <1>10, <1>11, <1>12, <1>13,
     <1>14, <1>15, <1>16, <1>17, <1>18, <1>20, <1>21, <1>22, <1>23, <1>24
     DEF Next, Locked

-----------------------------------------------------------------------------
(* The ledger.                                                               *)

\* A step of the code books what it counts: the running totals of
\* splitReservations hold the amounts counted so far, and the reserved amount
\* holds everything owed.
LEMMA LedgerStep ==
  ASSUME TypeOK, ControlInv, LedgerInv, [Next]_vars
  PROVE  LedgerInv'
<1> USE RequestAssumption, BoundAssumption
    DEF reqVars, queues, goVars, chainVars, hist, SplitPCs, AckPCs, WPCs
<1>a. /\ lv \in Locals /\ lv.k \in Nat \ {0} /\ lv.amt \in Nat /\ lv.relAmt \in Nat
      /\ lv.count \in Int /\ state.amt \in Nat /\ owed \in Int
  BY DEF TypeOK, Locals, FundedState
<1>b. NewReserved \in Nat /\ NewReserved >= state.amt + (lv.amt - lv.relAmt)
  BY <1>a DEF NewReserved, MaxOf
<1>c. ASSUME UNCHANGED <<state, store, pc, lv, owed, faults>> PROVE LedgerInv'
  BY <1>c DEF LedgerInv, ReservedCoversGranted, Booked, NewReserved
<1>d. ASSUME UNCHANGED <<state, store, owed, faults>>, pc # "saveR",
             pc' \notin SplitPCs \cup AckPCs
      PROVE  LedgerInv'
  BY <1>d DEF LedgerInv, ReservedCoversGranted, Booked
<1>e. ASSUME UNCHANGED <<state, store, owed, faults>>,
             pc # "saveR", pc' # "saveR", lv'.amt - lv'.relAmt = lv'.count
      PROVE  LedgerInv'
  BY <1>e DEF LedgerInv, ReservedCoversGranted, Booked
<1>1. ASSUME NEW r \in Req, RequestAndWait(r) PROVE LedgerInv'
  BY <1>1, <1>c DEF RequestAndWait
<1>2. ASSUME NEW r \in RPC, Cancel(r) \/ CallerReturn(r) PROVE LedgerInv'
  BY <1>2, <1>c DEF Cancel, CallerReturn
<1>4. ASSUME NEW c \in Ctx, Process(c) PROVE LedgerInv'
  <2>1. lv'.amt = 0 /\ lv'.relAmt = 0 /\ lv'.count = 0
    BY <1>4 DEF ControlInv, Process, NoLocals
  <2>2. pc = "idle" /\ pc' # "saveR"
    BY <1>4 DEF Process, FirstStep
  <2> QED BY <1>4, <1>e, <2>1, <2>2 DEF Process
<1>5. CASE SumReleases
  <2>1. CASE lv.k <= Len(releases)
    <3>1. releases[lv.k] \in Req
      BY <1>a, <2>1 DEF TypeOK, Req
    <3>2. PICK a \in Nat : a = Amount(releases[lv.k])
      BY <3>1, AmountType
    <3>3. lv' = [lv EXCEPT !.k = lv.k + 1, !.relAmt = lv.relAmt + a, !.count = lv.count - a]
      BY <1>5, <2>1, <3>2 DEF SumReleases
    <3>4. lv'.amt = lv.amt /\ lv'.relAmt = lv.relAmt + a /\ lv'.count = lv.count - a
      BY <1>a, <3>3 DEF Locals
    <3>5. lv.amt - lv.relAmt = lv.count
      BY <1>5 DEF SumReleases, LedgerInv
    <3>6. lv'.amt - lv'.relAmt = lv'.count
      BY <1>a, <3>4, <3>5
    <3> QED BY <1>5, <1>e, <2>1, <3>6 DEF SumReleases
  <2>2. CASE ~(lv.k <= Len(releases))
    <3>1. lv'.amt = lv.amt /\ lv'.relAmt = lv.relAmt /\ lv'.count = lv.count
      BY <1>a, <1>5, <2>2 DEF SumReleases, Locals
    <3>2. lv.amt - lv.relAmt = lv.count
      BY <1>5 DEF SumReleases, LedgerInv
    <3> QED BY <1>5, <1>e, <2>2, <3>1, <3>2 DEF SumReleases
  <2> QED BY <2>1, <2>2
<1>6. CASE SplitReservations
  <2>0. lv.amt - lv.relAmt = lv.count
    BY <1>6 DEF SplitReservations, LedgerInv
  <2>1. CASE lv.k <= Len(reservations)
    <3>1. PICK r \in Reservations : r = reservations[lv.k]
      BY <1>a, <2>1 DEF TypeOK
    <3>2. PICK a \in Nat : a = Amount(r)
      BY <3>1, AmountType DEF Req
    <3>3. lv' = SplitReservation(r, a)
      BY <1>6, <2>1, <3>1, <3>2 DEF SplitReservations
    <3>4. \/ lv'.amt = lv.amt /\ lv'.relAmt = lv.relAmt - a /\ lv'.count = lv.count + a
          \/ lv'.amt = lv.amt + (a - lv.relAmt) /\ lv'.relAmt = 0 /\ lv'.count = lv.count + a
          \/ lv'.amt = lv.amt /\ lv'.relAmt = lv.relAmt /\ lv'.count = lv.count
      BY <1>a, <3>3 DEF SplitReservation, Locals
    <3>5. lv'.amt - lv'.relAmt = lv'.count
      BY <1>a, <2>0, <3>4
    <3> QED BY <1>6, <1>e, <2>1, <3>5 DEF SplitReservations
  <2>2. CASE ~(lv.k <= Len(reservations))
    BY <1>6, <1>e, <2>0, <2>2 DEF SplitReservations
  <2> QED BY <2>1, <2>2
<1>7. CASE AvailableFunds
  <2>1. lv'.amt = lv.amt /\ lv'.relAmt = lv.relAmt /\ lv'.count = lv.count
    BY <1>a, <1>7 DEF AvailableFunds, Locals
  <2>2. lv.amt - lv.relAmt = lv.count
    BY <1>7 DEF AvailableFunds, LedgerInv
  <2> QED BY <1>7, <1>e, <2>1, <2>2 DEF AvailableFunds
<1>8. CASE AddFunds
  <2>1. lv'.amt = lv.amt /\ lv'.relAmt = lv.relAmt /\ lv'.count = lv.count
    BY <1>a, <1>8 DEF AddFunds, Locals
  <2>2. lv.amt - lv.relAmt = lv.count
    BY <1>8 DEF AddFunds, LedgerInv
  <2> QED BY <1>8, <1>e, <2>1, <2>2 DEF AddFunds
<1>9. CASE CompleteReservations
  <2>1. lv.amt - lv.relAmt = lv.count
    BY <1>9 DEF CompleteReservations, LedgerInv
  <2>2. faults \cap {"saveLost", "ackLost"} = {} => state.amt >= owed
    BY <1>9 DEF CompleteReservations, LedgerInv, ReservedCoversGranted, Booked
  <2>3. owed' = owed + lv.count /\ pc' = "saveR" /\ UNCHANGED <<state, store, lv, faults>>
    BY <1>9 DEF CompleteReservations
  <2>4. NewReserved' = NewReserved
    BY <2>3 DEF NewReserved
  <2>5. faults' \cap {"saveLost", "ackLost"} = {} => NewReserved' >= owed'
    BY <1>a, <1>b, <2>1, <2>2, <2>3, <2>4
  <2> QED BY <2>1, <2>3, <2>5 DEF LedgerInv, ReservedCoversGranted, Booked
<1>10. CASE ApplyReservations
  <2>1. SaveState(pctx, [amt |-> NewReserved, cid |-> lv.cid]) /\ pc = "saveR"
    BY <1>10 DEF ApplyReservations
  <2>2. state'.amt = NewReserved /\ faults \subseteq faults'
    BY <2>1 DEF SaveState
  <2>3. "saveLost" \notin faults' => store' = state'
    BY <2>1 DEF SaveState
  <2>4. faults' \cap {"saveLost", "ackLost"} = {} => state'.amt >= owed'
    BY <1>10, <2>1, <2>2 DEF ApplyReservations, LedgerInv, ReservedCoversGranted, Booked
  <2>5. pc' \in {"wavail", "end"}
    BY <1>10 DEF ApplyReservations, AfterReservations
  <2> QED BY <2>3, <2>4, <2>5 DEF LedgerInv, ReservedCoversGranted, Booked
<1>11. CASE FailReservations
  BY <1>11, <1>d DEF FailReservations, AfterReservations
<1>12. CASE NetAvailable
  BY <1>12, <1>d DEF NetAvailable, FailWithdrawals
<1>13. CASE ProcessWithdrawals
  BY <1>13, <1>d DEF ProcessWithdrawals
<1>f. ASSUME Die, UNCHANGED <<store, owed>>, faults \subseteq faults',
             pc = "saveR" => "ackLost" \in faults'
      PROVE  LedgerInv'
  BY <1>f DEF Die, LedgerInv, ReservedCoversGranted, Booked
<1>14. CASE WithdrawFunds
  <2>1. CASE Die /\ faults' = faults \cup {"panic"}
    BY <1>14, <1>f, <2>1 DEF WithdrawFunds
  <2>2. CASE UNCHANGED <<state, faults>> /\ pc' \in {"end", "wsave"}
    BY <1>14, <1>d, <2>2 DEF WithdrawFunds
  <2> QED BY <1>14, <2>1, <2>2 DEF WithdrawFunds, FailWithdrawals
<1>15. CASE ApplyWithdrawals
  <2>1. state' = [state EXCEPT !.cid = lv.cid] /\ faults \subseteq faults'
    BY <1>15 DEF ApplyWithdrawals, SaveState
  <2>2. state'.amt = state.amt
    BY <2>1 DEF TypeOK, FundedState
  <2>3. "saveLost" \notin faults' => store' = state'
    BY <1>15 DEF ApplyWithdrawals, SaveState
  <2> QED BY <1>15, <2>1, <2>2, <2>3
          DEF ApplyWithdrawals, LedgerInv, ReservedCoversGranted, Booked
<1>16. CASE EndProcess
  BY <1>16, <1>d DEF EndProcess
<1>17. ASSUME NEW w \in waits, WaitReturns(w) PROVE LedgerInv'
  <2>1. state' = [state EXCEPT !.cid = None] /\ faults \subseteq faults'
    BY <1>17 DEF WaitReturns, SaveState
  <2>2. state'.amt = state.amt
    BY <2>1 DEF TypeOK, FundedState
  <2>3. "saveLost" \notin faults' => store' = state'
    BY <1>17 DEF WaitReturns, SaveState
  <2> QED BY <1>17, <2>1, <2>2, <2>3
          DEF WaitReturns, LedgerInv, ReservedCoversGranted, Booked
<1>18. ASSUME NEW c \in Cid, ChainExec(c) \/ ChainFail(c) PROVE LedgerInv'
  BY <1>18 DEF ChainExec, ChainFail, LedgerInv, ReservedCoversGranted, Booked, NewReserved
<1>20. ASSUME NEW x \in ExtLocks, ExtLock(x) PROVE LedgerInv'
  BY <1>20 DEF ExtLock, LedgerInv, ReservedCoversGranted, Booked, NewReserved
<1>21. CASE Stop
  BY <1>21, <1>c DEF Stop
<1>22. CASE Crash
  BY <1>22, <1>f DEF Crash
<1>23. CASE Start
  <2>1. "saveLost" \notin faults => state' = state
    BY <1>23 DEF Start, LedgerInv
  <2> QED BY <1>23, <2>1 DEF Start, LedgerInv, ReservedCoversGranted, Booked
<1>24. CASE UNCHANGED vars
  BY <1>24, <1>c DEF vars
<1> QED
  BY <1>1, <1>2, <1>4, <1>5, <1>6, <1>7, <1>8, <1>9, <1>10, <1>11, <1>12, <1>13,
     <1>14, <1>15, <1>16, <1>17, <1>18, <1>20, <1>21, <1>22, <1>23, <1>24
     DEF Next, Locked

-----------------------------------------------------------------------------
(* One message in flight.                                                    *)

\* A message index is never the absent message.
LEMMA NoneNotPending == TypeOK => None \notin Pending
  BY RequestAssumption DEF TypeOK, Pending

\* One step of the code pushes a message only when none is pending, and stops
\* waiting for one only when it is settled or counted as abandoned.
LEMMA MsgStep ==
  ASSUME TypeOK, ControlInv, LedgerInv, MsgInv, [Next]_vars
  PROVE  MsgInv'
<1> USE RequestAssumption, BoundAssumption
    DEF reqVars, queues, goVars, chainVars, hist, SplitPCs, AckPCs, WPCs
<1>a. /\ lv \in Locals /\ lv.net \in Int /\ lv.amt \in Nat
      /\ lv.cid \in Cid \cup {None} /\ state \in FundedState
  BY DEF TypeOK, Locals
<1>c. ASSUME UNCHANGED <<msgs, abandoned>>, faults \subseteq faults', InFlight' = InFlight
      PROVE  MsgInv'
  BY <1>c DEF MsgInv, Pending
<1>d. ASSUME NEW kind \in {"add", "withdraw"}, NEW a \in Nat, Push(kind, a),
             UNCHANGED <<abandoned, faults>>, InFlight = None, InFlight' = Len(msgs) + 1
      PROVE  MsgInv'
  <2> SUFFICES ASSUME "saveLost" \notin faults, NEW c \in Pending', c \notin abandoned'
               PROVE  c = Len(msgs) + 1
    BY <1>d DEF MsgInv
  <2>1. Pending \subseteq abandoned
    BY <1>d, NoneNotPending DEF MsgInv
  <2>2. c \in Pending \cup {Len(msgs) + 1}
    BY <1>d, PushFact DEF Pending
  <2> QED BY <1>d, <2>1, <2>2
<1>1. ASSUME NEW r \in Req, RequestAndWait(r) PROVE MsgInv'
  BY <1>1, <1>c DEF RequestAndWait, InFlight
<1>2. ASSUME NEW r \in RPC, Cancel(r) \/ CallerReturn(r) PROVE MsgInv'
  BY <1>2, <1>c DEF Cancel, CallerReturn, InFlight
<1>4. ASSUME NEW c \in Ctx, Process(c) PROVE MsgInv'
  BY <1>4, <1>c DEF Process, FirstStep, InFlight
<1>5. CASE SumReleases
  BY <1>5, <1>c DEF SumReleases, InFlight
<1>6. CASE SplitReservations
  BY <1>6, <1>c DEF SplitReservations, InFlight, ControlInv
<1>7. CASE AvailableFunds
  <2>1. lv'.cid = lv.cid
    BY <1>a, <1>7 DEF AvailableFunds, Locals
  <2> QED BY <1>7, <1>c, <2>1 DEF AvailableFunds, InFlight, ControlInv
<1>8. CASE AddFunds
  <2>0. lv.net \in Nat /\ lv.cid = None /\ state.cid = None /\ pc = "push"
    BY <1>a, <1>8 DEF ControlInv, AddFunds
  <2>1. CASE pc' = "failR"
    BY <1>8, <1>c, <2>0, <2>1 DEF AddFunds, InFlight
  <2>2. CASE pc' # "failR"
    <3>1. /\ Push("add", lv.net) /\ pc' = "ackR"
          /\ lv' = [lv EXCEPT !.cid = Len(msgs) + 1]
          /\ UNCHANGED <<abandoned, faults>>
      BY <1>8, <2>2 DEF AddFunds
    <3>2. lv'.cid = Len(msgs) + 1 /\ Len(msgs) + 1 # None
      BY <1>a, <2>0, <3>1, PushFact DEF Locals, Cid
    <3>3. InFlight = None /\ InFlight' = Len(msgs) + 1
      BY <2>0, <3>1, <3>2 DEF InFlight
    <3> QED BY <1>d, <2>0, <3>1, <3>3
  <2> QED BY <2>1, <2>2
<1>9. CASE CompleteReservations
  BY <1>9, <1>c DEF CompleteReservations, InFlight
<1>10. CASE ApplyReservations
  <2>1. InFlight = lv.cid
    BY <1>10 DEF ApplyReservations, InFlight, ControlInv
  <2>2. InFlight' = lv.cid /\ faults \subseteq faults'
    BY <1>10 DEF ApplyReservations, AfterReservations, SaveState, InFlight
  <2> QED BY <1>10, <1>c, <2>1, <2>2 DEF ApplyReservations
<1>11. CASE FailReservations
  BY <1>11, <1>c DEF FailReservations, AfterReservations, InFlight
<1>12. CASE NetAvailable
  BY <1>12, <1>c DEF NetAvailable, FailWithdrawals, InFlight
<1>13. CASE ProcessWithdrawals
  BY <1>13, <1>c DEF ProcessWithdrawals, InFlight
<1>14. CASE WithdrawFunds
  <2>0. lv.cid = None /\ state.cid = None /\ pc = "wpush"
    BY <1>14 DEF ControlInv, WithdrawFunds
  <2>1. CASE Die /\ UNCHANGED msgs /\ faults' = faults \cup {"panic"}
    <3>1. "saveLost" \notin faults => InFlight' = InFlight
      BY <1>14, <2>0, <2>1 DEF Die, LedgerInv, InFlight
    <3> QED BY <1>14, <2>1, <3>1 DEF WithdrawFunds, MsgInv, Pending
  <2>2. CASE FailWithdrawals /\ UNCHANGED <<reservations, releases, state, goVars, pctx, lv, msgs, faults>>
    BY <1>14, <1>c, <2>0, <2>2 DEF WithdrawFunds, FailWithdrawals, InFlight
  <2>3. CASE /\ Push("withdraw", lv.amt)
             /\ lv' = [lv EXCEPT !.cid = Len(msgs) + 1]
             /\ pc' = "wsave"
             /\ UNCHANGED <<queues, state, goVars, pctx, faults>>
    <3>2. lv'.cid = Len(msgs) + 1 /\ Len(msgs) + 1 # None
      BY <1>a, <2>3, PushFact DEF Locals, Cid
    <3>3. InFlight = None /\ InFlight' = Len(msgs) + 1
      BY <2>0, <2>3, <3>2 DEF InFlight
    <3> QED BY <1>a, <1>14, <1>d, <2>3, <3>3 DEF WithdrawFunds
  <2> QED BY <1>14, <2>1, <2>2, <2>3 DEF WithdrawFunds
<1>15. CASE ApplyWithdrawals
  <2>1. InFlight = lv.cid
    BY <1>15 DEF ApplyWithdrawals, InFlight, ControlInv
  <2>2. InFlight' = lv.cid /\ faults \subseteq faults'
    BY <1>a, <1>15 DEF ApplyWithdrawals, SaveState, InFlight, FundedState
  <2> QED BY <1>15, <1>c, <2>1, <2>2 DEF ApplyWithdrawals
<1>16. CASE EndProcess
  BY <1>16, <1>c DEF EndProcess, InFlight
<1>17. ASSUME NEW w \in waits, WaitReturns(w) PROVE MsgInv'
  <2>1. InFlight = w.cid
    BY <1>17 DEF WaitReturns, InFlight, ControlInv
  <2>2. faults \subseteq faults' /\ Pending' = Pending
    BY <1>17 DEF WaitReturns, SaveState, Pending
  <2>3. "saveLost" \notin faults' => Pending' \ abandoned' = {}
    BY <1>17, <2>1, <2>2 DEF WaitReturns, MsgInv
  <2> QED BY <2>3 DEF MsgInv
<1>18. ASSUME NEW c \in Cid, ChainExec(c) \/ ChainFail(c) PROVE MsgInv'
  <2>1. c \in DOMAIN msgs
    BY <1>18 DEF ChainExec, ChainFail, Pending
  <2>2. Pending' \subseteq Pending
    BY <1>18, <2>1, SettleFact DEF ChainExec, ChainFail, Pending
  <2>3. InFlight' = InFlight /\ faults \subseteq faults' /\ abandoned' = abandoned
    BY <1>18 DEF ChainExec, ChainFail, InFlight
  <2> QED BY <2>2, <2>3 DEF MsgInv
<1>20. ASSUME NEW x \in ExtLocks, ExtLock(x) PROVE MsgInv'
  BY <1>20, <1>c DEF ExtLock, InFlight
<1>21. CASE Stop
  BY <1>21, <1>c DEF Stop, InFlight
<1>22. CASE Crash
  <2>1. faults \subseteq faults' /\ Pending' = Pending /\ state' = store /\ pc' = "down"
    BY <1>22 DEF Crash, Die, Pending
  <2>2. CASE pc \in Window /\ lv.cid # None
    <3>1. InFlight = lv.cid /\ abandoned' = abandoned \cup {lv.cid}
      BY <1>22, <2>2 DEF InFlight, Window, Crash
    <3> QED BY <2>1, <3>1 DEF MsgInv
  <2>3. CASE ~(pc \in Window /\ lv.cid # None)
    <3>1. InFlight = state.cid /\ InFlight' = store.cid /\ abandoned' = abandoned
      BY <1>22, <2>1, <2>3 DEF InFlight, Window, Crash
    <3> QED BY <2>1, <3>1 DEF MsgInv, LedgerInv
  <2> QED BY <2>2, <2>3
<1>23. CASE Start
  <2>1. InFlight = state.cid /\ InFlight' = store.cid /\ Pending' = Pending
    BY <1>23 DEF Start, InFlight, Pending
  <2> QED BY <1>23, <2>1 DEF Start, MsgInv, LedgerInv
<1>24. CASE UNCHANGED vars
  BY <1>24, <1>c DEF vars, InFlight
<1> QED
  BY <1>1, <1>2, <1>4, <1>5, <1>6, <1>7, <1>8, <1>9, <1>10, <1>11, <1>12, <1>13,
     <1>14, <1>15, <1>16, <1>17, <1>18, <1>20, <1>21, <1>22, <1>23, <1>24
     DEF Next, Locked

-----------------------------------------------------------------------------
(* The reserved amount stays in the address.                                 *)

\* No step forgets a fault or an abandoned message.
LEMMA HistoryMonotone ==
  ASSUME [Next]_vars
  PROVE  faults \subseteq faults' /\ abandoned \subseteq abandoned'
<1> USE DEF hist
<1>1. ASSUME NEW r \in Req, RequestAndWait(r) PROVE UNCHANGED <<faults, abandoned>>
  BY <1>1 DEF RequestAndWait
<1>2. ASSUME NEW r \in RPC, Cancel(r) \/ CallerReturn(r) PROVE UNCHANGED <<faults, abandoned>>
  BY <1>2 DEF Cancel, CallerReturn
<1>3. ASSUME NEW c \in Ctx, Process(c) PROVE UNCHANGED <<faults, abandoned>>
  BY <1>3 DEF Process
<1>4. ASSUME \/ SumReleases \/ SplitReservations \/ AvailableFunds \/ AddFunds
             \/ CompleteReservations \/ FailReservations \/ NetAvailable
             \/ ProcessWithdrawals \/ EndProcess
      PROVE  UNCHANGED <<faults, abandoned>>
  BY <1>4 DEF SumReleases, SplitReservations, AvailableFunds, AddFunds, CompleteReservations,
              FailReservations, NetAvailable, ProcessWithdrawals, EndProcess
<1>5. ASSUME ApplyReservations \/ ApplyWithdrawals \/ WithdrawFunds
      PROVE  faults \subseteq faults' /\ abandoned' = abandoned
  BY <1>5 DEF ApplyReservations, ApplyWithdrawals, WithdrawFunds, SaveState
<1>6. ASSUME NEW w \in waits, WaitReturns(w)
      PROVE  faults \subseteq faults' /\ abandoned \subseteq abandoned'
  BY <1>6 DEF WaitReturns, SaveState
<1>7. ASSUME NEW c \in Cid, ChainExec(c) \/ ChainFail(c)
      PROVE  faults \subseteq faults' /\ abandoned' = abandoned
  BY <1>7 DEF ChainExec, ChainFail
<1>8. ASSUME NEW x \in ExtLocks, ExtLock(x)
      PROVE  faults \subseteq faults' /\ abandoned' = abandoned
  BY <1>8 DEF ExtLock
<1>9. ASSUME Stop \/ Crash \/ Start
      PROVE  faults \subseteq faults' /\ abandoned \subseteq abandoned'
  BY <1>9 DEF Stop, Crash, Start
<1>10. ASSUME UNCHANGED vars PROVE UNCHANGED <<faults, abandoned>>
  BY <1>10 DEF vars
<1> QED BY <1>1, <1>2, <1>3, <1>4, <1>5, <1>6, <1>7, <1>8, <1>9, <1>10 DEF Next, Locked

\* One step of the code keeps the reserved amount backed: AddFunds brings the
\* balance up to the new reserved amount, a release can only lower it, and a
\* withdrawal fits into what is not reserved, because the balance that was
\* read cannot change while no message is pending.
LEMMA BackingStep ==
  ASSUME TypeOK, ControlInv, LedgerInv, MsgInv, BackingInv, [Next]_vars
  PROVE  BackingInv'
<1> USE RequestAssumption, BoundAssumption
    DEF reqVars, queues, goVars, chainVars, hist, SplitPCs, AckPCs, WPCs
<1>a. /\ lv \in Locals /\ lv.k \in Nat \ {0} /\ lv.amt \in Nat /\ lv.relAmt \in Nat
      /\ lv.cid \in Cid \cup {None} /\ lv.net \in Int
      /\ state \in FundedState /\ state.amt \in Nat /\ avail \in Nat
      /\ msgs \in Seq(Message)
  BY DEF TypeOK, Locals, FundedState
<1>b. NewReserved \in Nat
  BY <1>a DEF NewReserved, MaxOf
<1>m. faults \subseteq faults' /\ abandoned \subseteq abandoned'
  BY HistoryMonotone
<1> SUFFICES ASSUME Undisturbed' PROVE Backed'
  BY DEF BackingInv
<1>u. /\ Undisturbed /\ Backed /\ "saveLost" \notin faults /\ abandoned = {}
      /\ abandoned' = {} /\ store = state /\ Pending \subseteq {InFlight}
  BY <1>m DEF Undisturbed, BackingInv, LedgerInv, MsgInv
<1>c. ASSUME UNCHANGED <<state, pc, lv, avail, msgs>> PROVE Backed'
  BY <1>c, <1>u DEF Backed, OnSettling, Settled, InFlight, NewReserved
\* Steps that leave the message in flight and the chain alone.
<1>d. ASSUME UNCHANGED <<avail, msgs>>, InFlight' = InFlight PROVE OnSettling' = OnSettling
  BY <1>d DEF OnSettling, Settled
<1>e. ASSUME UNCHANGED <<avail, msgs, state>>, InFlight' = InFlight, pc # "saveR",
             pc' \in {"idle", "down", "failR", "end", "wavail", "avail", "wsave"}
      PROVE  Backed'
  BY <1>d, <1>e, <1>u DEF Backed
<1>1. ASSUME NEW r \in Req, RequestAndWait(r) PROVE Backed'
  BY <1>1, <1>c DEF RequestAndWait
<1>2. ASSUME NEW r \in RPC, Cancel(r) \/ CallerReturn(r) PROVE Backed'
  BY <1>2, <1>c DEF Cancel, CallerReturn
<1>4. ASSUME NEW c \in Ctx, Process(c) PROVE Backed'
  <2>1. lv = NoLocals /\ lv' = lv /\ pc = "idle" /\ UNCHANGED <<avail, msgs, state>>
    BY <1>4 DEF ControlInv, Process
  <2>2. pc' \in {"idle", "sum", "wavail"}
    BY <1>4 DEF Process, FirstStep
  <2>3. InFlight' = InFlight
    BY <2>1, <2>2 DEF InFlight
  <2>4. OnSettling' = OnSettling
    BY <1>d, <2>1, <2>3
  <2>5. lv'.amt = 0
    BY <2>1 DEF NoLocals
  <2> QED BY <1>u, <2>1, <2>2, <2>4, <2>5 DEF Backed
<1>5. CASE SumReleases
  <2>1. lv'.amt = lv.amt /\ lv'.batch = lv.batch
    BY <1>a, <1>5 DEF SumReleases, Locals
  <2>2. UNCHANGED <<avail, msgs, state>> /\ pc = "sum" /\ pc' \in {"sum", "split"}
    BY <1>5 DEF SumReleases
  <2>3. InFlight' = InFlight
    BY <2>2 DEF InFlight
  <2>4. OnSettling' = OnSettling
    BY <1>d, <2>2, <2>3
  <2> QED BY <1>u, <2>1, <2>2, <2>4 DEF Backed
<1>6. CASE SplitReservations
  <2>0. /\ pc = "split" /\ UNCHANGED <<avail, msgs, state>> /\ state.cid = None /\ lv.cid = None
        /\ InFlight = None /\ OnSettling = avail /\ avail >= state.amt
    BY <1>6, <1>u DEF SplitReservations, ControlInv, InFlight, OnSettling, Backed
  <2>1. CASE lv.k <= Len(reservations)
    <3>1. lv' = SplitReservation(reservations[lv.k], Amount(reservations[lv.k])) /\ pc' = "split"
      BY <1>6, <2>1 DEF SplitReservations
    <3>2. lv'.batch = {} => lv.batch = {} /\ lv'.amt = lv.amt
      BY <1>a, <3>1 DEF SplitReservation, Locals
    <3>3. InFlight' = None
      BY <2>0, <3>1 DEF InFlight
    <3>4. OnSettling' = avail'
      BY <3>3 DEF OnSettling
    <3> QED BY <1>u, <2>0, <3>1, <3>2, <3>4 DEF Backed
  <2>2. CASE ~(lv.k <= Len(reservations))
    <3>1. lv' = lv /\ pc' \in {"avail", "ackR"}
      BY <1>6, <2>2 DEF SplitReservations
    <3>2. InFlight' = None
      BY <2>0, <3>1 DEF InFlight
    <3>3. OnSettling' = avail'
      BY <3>2 DEF OnSettling
    <3>4. NewReserved' = NewReserved
      BY <2>0, <3>1 DEF NewReserved
    <3>5. pc' = "ackR" => avail >= NewReserved
      <4>1. ASSUME lv.batch = {} PROVE avail >= NewReserved
        <5>1. lv.amt = 0
          BY <1>u, <2>0, <4>1 DEF Backed
        <5> QED BY <1>a, <2>0, <5>1 DEF NewReserved, MaxOf
      <4>2. pc' = "ackR" => lv.batch = {} \/ NewReserved <= 0
        BY <1>b, <1>6, <2>2 DEF SplitReservations
      <4> QED BY <1>a, <1>b, <4>1, <4>2
    <3> QED BY <2>0, <3>1, <3>3, <3>4, <3>5 DEF Backed
  <2> QED BY <2>1, <2>2
<1>7. CASE AvailableFunds
  <2>0. /\ pc = "avail" /\ UNCHANGED <<avail, msgs, state>> /\ state.cid = None /\ lv.cid = None
        /\ avail >= state.amt
    BY <1>7, <1>u DEF AvailableFunds, ControlInv, InFlight, OnSettling, Backed
  <2>1. lv'.amt = lv.amt /\ lv'.relAmt = lv.relAmt /\ lv'.cid = None
    BY <1>a, <1>7, <2>0 DEF AvailableFunds, Locals
  <2>2. NewReserved' = NewReserved
    BY <2>0, <2>1 DEF NewReserved
  <2>3. OnSettling' = avail
    BY <2>0, <2>1 DEF OnSettling, InFlight
  <2>4. pc' \in {"ackR", "push", "failR"}
    BY <1>7 DEF AvailableFunds
  <2>5. pc' = "ackR" => avail >= NewReserved
    BY <1>a, <1>b, <1>7 DEF AvailableFunds
  <2>6. pc' = "push" => lv'.net = NewReserved - avail
    BY <1>a, <1>7 DEF AvailableFunds, Locals
  <2> QED BY <2>0, <2>2, <2>3, <2>4, <2>5, <2>6 DEF Backed
<1>8. CASE AddFunds
  <2>0. /\ lv.net \in Nat /\ lv.cid = None /\ state.cid = None /\ pc = "push"
        /\ InFlight = None /\ avail >= state.amt /\ lv.net = NewReserved - avail
        /\ UNCHANGED <<avail, state>>
    BY <1>a, <1>8, <1>u DEF ControlInv, AddFunds, InFlight, OnSettling, Backed
  <2>1. CASE pc' = "failR"
    BY <1>8, <1>e, <2>0, <2>1 DEF AddFunds, InFlight
  <2>2. CASE pc' # "failR"
    <3>1. /\ Push("add", lv.net) /\ pc' = "ackR"
          /\ lv' = [lv EXCEPT !.cid = Len(msgs) + 1]
      BY <1>8, <2>2 DEF AddFunds
    <3>2. /\ lv'.cid = Len(msgs) + 1 /\ Len(msgs) + 1 # None
          /\ lv'.amt = lv.amt /\ lv'.relAmt = lv.relAmt
      BY <1>a, <2>0, <3>1, PushFact DEF Locals, Cid
    <3>3. InFlight' = Len(msgs) + 1
      BY <3>1, <3>2 DEF InFlight
    <3>4. msgs'[Len(msgs) + 1] = [kind |-> "add", amt |-> lv.net, st |-> "pending"]
      BY <2>0, <3>1, PushFact
    <3>5. OnSettling' = avail + lv.net
      BY <2>0, <3>2, <3>3, <3>4 DEF OnSettling, Settled
    <3>6. NewReserved' = NewReserved
      BY <2>0, <3>2 DEF NewReserved
    <3>7. OnSettling' >= NewReserved' /\ OnSettling' >= state'.amt
      BY <1>a, <1>b, <2>0, <3>5, <3>6
    <3> QED BY <3>1, <3>7 DEF Backed
  <2> QED BY <2>1, <2>2
<1>9. CASE CompleteReservations
  <2>1. pc = "ackR" /\ pc' = "saveR" /\ UNCHANGED <<state, lv, avail, msgs>> /\ state.cid = None
    BY <1>9 DEF CompleteReservations, ControlInv
  <2>2. InFlight' = InFlight /\ NewReserved' = NewReserved
    BY <2>1 DEF InFlight, NewReserved
  <2>3. OnSettling' = OnSettling
    BY <1>d, <2>1, <2>2
  <2>4. lv.cid = None => OnSettling = avail
    BY <2>1 DEF InFlight, OnSettling
  <2> QED BY <1>u, <2>1, <2>2, <2>3, <2>4 DEF Backed
<1>10. CASE ApplyReservations
  <2>1. InFlight = lv.cid
    BY <1>10 DEF ApplyReservations, InFlight, ControlInv
  <2>2. /\ state' = [amt |-> NewReserved, cid |-> lv.cid] /\ pc' \in {"wavail", "end"}
        /\ UNCHANGED <<avail, msgs>> /\ pc = "saveR"
    BY <1>10 DEF ApplyReservations, AfterReservations, SaveState
  <2>3. InFlight' = InFlight
    BY <2>1, <2>2 DEF InFlight
  <2>4. OnSettling' = OnSettling
    BY <1>d, <2>2, <2>3
  <2> QED BY <1>u, <2>2, <2>4 DEF Backed
<1>11. CASE FailReservations
  <2>1. InFlight' = InFlight
    BY <1>11 DEF FailReservations, AfterReservations, InFlight
  <2> QED BY <1>11, <1>e, <2>1 DEF FailReservations, AfterReservations
<1>12. CASE NetAvailable
  <2>0. /\ pc = "wavail" /\ UNCHANGED <<avail, msgs, state>> /\ state.cid = None
        /\ InFlight = None /\ avail >= state.amt
    BY <1>12, <1>u DEF NetAvailable, ControlInv, InFlight, OnSettling, Backed
  <2>1. CASE pc' = "end"
    BY <1>e, <2>0, <2>1 DEF InFlight
  <2>2. CASE pc' # "end"
    <3>1. pc' = "wloop" /\ lv' = [NoLocals EXCEPT !.net = NetAvail]
      BY <1>12, <2>2 DEF NetAvailable, FailWithdrawals
    <3>2. lv'.net = avail - state.amt /\ lv'.amt = 0 /\ lv'.cid = None
      BY <3>1 DEF NoLocals, NetAvail
    <3>3. OnSettling' = avail
      BY <2>0, <3>1 DEF OnSettling, InFlight
    <3> QED BY <1>a, <2>0, <3>1, <3>2, <3>3 DEF Backed
  <2> QED BY <2>1, <2>2
<1>13. CASE ProcessWithdrawals
  <2>0. /\ pc = "wloop" /\ UNCHANGED <<avail, msgs, state>> /\ state.cid = None
        /\ avail >= state.amt /\ lv.net = avail - state.amt /\ lv.amt <= lv.net
    BY <1>13, <1>u DEF ProcessWithdrawals, ControlInv, InFlight, OnSettling, Backed
  <2>1. OnSettling' = avail
    BY <1>13, <2>0 DEF OnSettling, InFlight, ProcessWithdrawals
  <2>2. CASE lv.k <= Len(withdrawals)
    <3>0. Len(withdrawals) \in Nat
      BY DEF TypeOK
    <3>1. PICK r \in Withdrawals : r = withdrawals[lv.k]
      BY <1>a, <2>2 DEF TypeOK
    <3>2. PICK a \in Nat : a = Amount(r)
      BY <3>1, AmountType DEF Req
    <3>3. FitWithdrawal(r, a) /\ pc' = pc
      BY <1>a, <1>13, <2>2, <3>0, <3>1, <3>2 DEF ProcessWithdrawals
    <3>4. lv'.net = lv.net /\ (lv'.amt = lv.amt \/ (lv'.amt = lv.amt + a /\ lv.amt + a <= lv.net))
      BY <1>a, <3>3 DEF FitWithdrawal, Locals
    <3> QED BY <1>a, <2>0, <2>1, <3>3, <3>4 DEF Backed
  <2>3. CASE ~(lv.k <= Len(withdrawals))
    <3>1. lv' = lv /\ pc' \in {"end", "wpush"}
      BY <1>13, <2>3 DEF ProcessWithdrawals
    <3> QED BY <2>0, <2>1, <3>1 DEF Backed
  <2> QED BY <2>2, <2>3
<1>14. CASE WithdrawFunds
  <2>0. /\ lv.cid = None /\ state.cid = None /\ pc = "wpush" /\ InFlight = None
        /\ lv.net = avail - state.amt /\ lv.amt <= lv.net /\ avail' = avail
    BY <1>14, <1>u DEF ControlInv, WithdrawFunds, InFlight, Backed
  <2>1. CASE Die /\ UNCHANGED msgs
    BY <1>e, <1>u, <2>0, <2>1 DEF Die, InFlight
  <2>2. CASE FailWithdrawals /\ UNCHANGED <<reservations, releases, state, goVars, pctx, lv, msgs, faults>>
    BY <1>e, <2>0, <2>2 DEF FailWithdrawals, InFlight
  <2>3. CASE /\ Push("withdraw", lv.amt)
             /\ lv' = [lv EXCEPT !.cid = Len(msgs) + 1]
             /\ pc' = "wsave"
             /\ UNCHANGED <<queues, state, goVars, pctx, faults>>
    <3>2. lv'.cid = Len(msgs) + 1 /\ Len(msgs) + 1 # None
      BY <1>a, <2>3, PushFact DEF Locals, Cid
    <3>3. InFlight' = Len(msgs) + 1
      BY <2>3, <3>2 DEF InFlight
    <3>4. msgs'[Len(msgs) + 1] = [kind |-> "withdraw", amt |-> lv.amt, st |-> "pending"]
      BY <1>a, <2>3, PushFact
    <3>5. OnSettling' = avail - lv.amt
      BY <2>0, <3>2, <3>3, <3>4 DEF OnSettling, Settled
    <3>6. OnSettling' >= state'.amt
      BY <1>a, <2>0, <2>3, <3>5
    <3> QED BY <2>3, <3>6 DEF Backed
  <2> QED BY <1>14, <2>1, <2>2, <2>3 DEF WithdrawFunds
<1>15. CASE ApplyWithdrawals
  <2>1. InFlight = lv.cid
    BY <1>15 DEF ApplyWithdrawals, InFlight, ControlInv
  <2>2. /\ state'.cid = lv.cid /\ state'.amt = state.amt /\ pc' = "end"
        /\ UNCHANGED <<avail, msgs>> /\ pc = "wsave"
    BY <1>a, <1>15 DEF ApplyWithdrawals, SaveState, FundedState
  <2>3. InFlight' = InFlight
    BY <2>1, <2>2 DEF InFlight
  <2>4. OnSettling' = OnSettling
    BY <1>d, <2>2, <2>3
  <2> QED BY <1>u, <2>2, <2>4 DEF Backed
<1>16. CASE EndProcess
  BY <1>16, <1>e DEF EndProcess, InFlight
<1>17. ASSUME NEW w \in waits, WaitReturns(w) PROVE Backed'
  <2>1. pc = "idle" /\ pc' = "idle" /\ UNCHANGED <<avail, msgs>> /\ w.cid \notin Pending
    BY <1>17, <1>u DEF WaitReturns
  <2>2. w.cid = state.cid /\ w.cid \in Cid /\ w.cid # None
    BY DEF ControlInv, TypeOK, Cid
  <2>3. w.cid \in DOMAIN msgs /\ msgs[w.cid].st # "pending"
    BY <2>1, <2>2 DEF ControlInv, Pending
  <2>4. OnSettling = avail
    BY <2>1, <2>2, <2>3 DEF OnSettling, Settled, InFlight
  <2>5. state'.cid = None /\ state'.amt = state.amt
    BY <1>a, <1>17 DEF WaitReturns, SaveState, FundedState
  <2>6. OnSettling' = avail
    BY <2>1, <2>5 DEF OnSettling, InFlight
  <2> QED BY <1>u, <2>1, <2>4, <2>5, <2>6 DEF Backed
<1>18. ASSUME NEW c \in Cid, ChainExec(c) \/ ChainFail(c) PROVE Backed'
  <2>0. UNCHANGED <<state, pc, lv>>
    BY <1>18 DEF ChainExec, ChainFail
  <2>1. c \in DOMAIN msgs /\ c \in Pending /\ msgs[c] \in Message
    BY <1>a, <1>18 DEF ChainExec, ChainFail, Pending
  <2>2. c = InFlight /\ InFlight' = InFlight /\ c # None
    BY <1>u, <2>0, <2>1 DEF InFlight, Cid
  <2>3. /\ pc \notin {"sum", "split", "push", "wloop", "wpush"}
        /\ ~(pc = "saveR" /\ lv.cid = None)
    BY <2>2 DEF InFlight, ControlInv
  <2>4. OnSettling = IF msgs[c].kind = "add" THEN avail + msgs[c].amt ELSE avail - msgs[c].amt
    BY <2>1, <2>2 DEF OnSettling, Settled, Pending
  <2>5. msgs'[c].st # "pending"
    BY <1>18, <2>1, SettleFact DEF ChainExec, ChainFail
  <2>6. OnSettling' = avail'
    BY <2>2, <2>5 DEF OnSettling, Settled
  <2>7. avail' >= OnSettling
    <3>1. msgs[c].amt \in Nat
      BY <2>1 DEF Message
    <3>2. CASE ChainExec(c)
      BY <1>a, <2>4, <3>1, <3>2 DEF ChainExec, MinOf
    <3>3. CASE ChainFail(c)
      <4>1. msgs[c].kind # "add" /\ avail' = avail
        BY <3>3 DEF ChainFail, Undisturbed
      <4> QED BY <1>a, <2>4, <3>1, <4>1
    <3> QED BY <1>18, <3>2, <3>3
  <2>8. NewReserved' = NewReserved
    BY <2>0 DEF NewReserved
  <2>9. avail' \in Nat /\ OnSettling \in Int
    <3>1. msgs[c].amt \in Nat
      BY <2>1 DEF Message
    <3>2. avail' \in Nat
      BY <1>a, <1>18, <3>1 DEF ChainExec, ChainFail, MinOf
    <3> QED BY <1>a, <2>4, <3>1, <3>2
  <2> QED BY <1>a, <1>b, <1>u, <2>0, <2>3, <2>6, <2>7, <2>8, <2>9 DEF Backed
<1>20. ASSUME NEW x \in ExtLocks, ExtLock(x) PROVE Backed'
  BY <1>20 DEF ExtLock, Undisturbed
<1>21. CASE Stop
  BY <1>21, <1>c DEF Stop
<1>22. CASE Crash
  <2>1. /\ state' = state /\ pc' = "down" /\ UNCHANGED <<avail, msgs>>
        /\ ~(pc \in Window /\ lv.cid # None)
    BY <1>22, <1>u DEF Crash, Die, Window
  <2>2. InFlight = state.cid /\ InFlight' = state.cid
    BY <2>1 DEF InFlight, Window
  <2>3. CASE pc = "saveR"
    <3>1. state.cid = None /\ lv.cid = None
      BY <2>1, <2>3 DEF ControlInv, Window
    <3>2. OnSettling' = avail
      BY <2>1, <2>2, <3>1 DEF OnSettling
    <3> QED BY <1>u, <2>1, <2>3, <3>1, <3>2 DEF Backed
  <2>4. CASE pc # "saveR"
    BY <1>e, <2>1, <2>2, <2>4
  <2> QED BY <2>3, <2>4
<1>23. CASE Start
  <2>1. state' = state /\ pc = "down" /\ pc' = "idle" /\ UNCHANGED <<avail, msgs>>
    BY <1>23, <1>u DEF Start
  <2>2. InFlight' = InFlight
    BY <2>1 DEF InFlight
  <2> QED BY <1>e, <2>1, <2>2
<1>24. CASE UNCHANGED vars
  BY <1>24, <1>c DEF vars
<1> QED
  BY <1>1, <1>2, <1>4, <1>5, <1>6, <1>7, <1>8, <1>9, <1>10, <1>11, <1>12, <1>13,
     <1>14, <1>15, <1>16, <1>17, <1>18, <1>20, <1>21, <1>22, <1>23, <1>24
     DEF Next, Locked

-----------------------------------------------------------------------------
(* Theorems.                                                                 *)

\* The initial state, an address nobody has used, satisfies the invariant.
LEMMA InitInv == Init => IInv
<1> SUFFICES ASSUME Init PROVE IInv
  OBVIOUS
<1> USE RequestAssumption, BoundAssumption
<1>1. TypeOK
  <2>1. reservations \in Seq(Reservations) /\ releases \in Seq(Releases)
    BY DEF Init
  <2>2. withdrawals \in Seq(Withdrawals) /\ msgs \in Seq(Message)
    BY DEF Init
  <2>3. state \in FundedState /\ store \in FundedState
    BY DEF Init, FundedState
  <2>4. outcome \in [Req -> Outcomes] /\ procs \in [Ctx -> Nat]
    BY DEF Init, Outcomes
  <2>5. pc \in PCs /\ pctx \in Ctx /\ lv \in Locals
    BY NoLocalsType DEF Init, PCs, Ctx
  <2>6. /\ ctxDone \subseteq RPC /\ waits \subseteq [cid : Cid, ctx : Ctx]
        /\ abandoned \subseteq Cid /\ faults \subseteq Faults
    BY DEF Init
  <2>7. avail \in Nat /\ crashes \in Nat /\ owed \in Int
    BY DEF Init
  <2>8. stopped \in BOOLEAN
    BY DEF Init
  <2> QED BY <2>1, <2>2, <2>3, <2>4, <2>5, <2>6, <2>7, <2>8 DEF TypeOK
<1>2. lv.cid = None /\ lv.left = << >>
  BY DEF Init, NoLocals
<1>3. ControlInv
  BY <1>2 DEF Init, ControlInv, SplitPCs, AckPCs, WPCs
<1>4. LedgerInv
  BY DEF Init, LedgerInv, ReservedCoversGranted, Booked, SplitPCs, AckPCs
<1>5. MsgInv
  BY DEF Init, MsgInv, Pending
<1>6. BackingInv
  BY DEF Init, BackingInv, Backed, OnSettling, InFlight, AckPCs
<1> QED BY <1>1, <1>3, <1>4, <1>5, <1>6 DEF IInv

\* Every reachable state of the fund manager satisfies the invariant.
THEOREM Invariance == Spec => []IInv
<1>1. IInv /\ [Next]_vars => IInv'
  BY TypeStep, ControlStep, LedgerStep, MsgStep, BackingStep DEF IInv
<1> QED BY InitInv, <1>1, PTL DEF Spec

\* Type correctness.
THEOREM TypeCorrect == Spec => []TypeOK
<1>1. IInv => TypeOK
  BY DEF IInv
<1> QED BY Invariance, <1>1, PTL

\* AmtReserved always covers what the callers of Reserve were granted and have
\* not released, through batching, cancellation, failed pushes and restarts.
THEOREM LedgerCorrect == Spec => []ReservedCoversGranted
<1>1. IInv => ReservedCoversGranted
  BY DEF IInv, LedgerInv
<1> QED BY Invariance, <1>1, PTL

\* At most one message is in flight, except for messages whose WaitMsg failed
\* or that were pushed just before a crash.
THEOREM OneMessage == Spec => []OneMessageInFlight
<1>1. IInv => OneMessageInFlight
  BY DEF IInv, MsgInv, OneMessageInFlight
<1> QED BY Invariance, <1>1, PTL

\* The reserved amount is in the address once the message in flight has been
\* executed: withdrawals never take reserved funds.
THEOREM ReservedStays == Spec => []ReservedIsBacked
<1>1. IInv => ReservedIsBacked
  <2> SUFFICES ASSUME IInv, Undisturbed PROVE OnSettling >= Booked
    BY DEF ReservedIsBacked, Undisturbed, OnSettling
  <2>1. Backed
    BY DEF IInv, BackingInv
  <2> QED BY <2>1 DEF Backed, Booked, AckPCs
<1> QED BY Invariance, <1>1, PTL

-----------------------------------------------------------------------------
(* CallersAreCovered.  The count that splitReservations keeps is compared    *)
(* with the amounts of the requests whose callers still wait: a reservation  *)
(* whose caller gave up may be counted without being told, a release may     *)
(* not.                                                                      *)

\* The first n releases of the queue.
ReleasesBefore(n) == {releases[j] : j \in {i \in DOMAIN releases : i < n}}

\* The reservations that splitReservations has counted and whose callers wait.
Granted == {r \in lv.cover \cup lv.batch : outcome[r] = "queued"}

\* A caller that has not asked, or waits, has a live context.
CallersLive == \A r \in RPC : outcome[r] \in {"new", "queued"} => r \notin ctxDone

\* A release is queued once, and its caller waits until it is told.
ReleasesQueued ==
  /\ \A i, j \in DOMAIN releases : releases[i] = releases[j] => i = j
  /\ \A r \in RangeOf(releases) : outcome[r] # "new" /\ (pc # "saveR" => outcome[r] = "queued")

\* What is batched are reservations, or withdrawals.
BatchOfKind ==
  /\ pc \in SplitPCs \cup {"ackR"} => lv.cover \cup lv.batch \subseteq Reservations
  /\ pc \in {"wloop", "wpush"} => lv.batch \subseteq Withdrawals

\* The count is at least what the callers that wait will be told.
CountCovers ==
  /\ pc = "sum" => lv.count >= Total(Granted) - Total(ReleasesBefore(lv.k))
  /\ pc \in {"split", "avail", "push", "ackR"} => lv.count >= Total(Granted) - Total(RangeOf(releases))

TellInv ==
  /\ CallersLive /\ ReleasesQueued /\ BatchOfKind /\ CountCovers
  /\ owed >= Total(Told(Reservations)) - Total(Told(Releases))

-----------------------------------------------------------------------------

\* The amounts of a set of requests can be summed.
LEMMA TotalOn == ASSUME NEW S \in SUBSET Req PROVE NatOn(Amt, S) /\ IntOn(Amt, S)
<1>1. NatOn(Amt, S)
  BY RequestAssumption, FS_Subset DEF NatOn
<1>. QED
  BY <1>1, NatOnIsIntOn

\* The total of requests is a natural number.
LEMMA TotalNat == ASSUME NEW S \in SUBSET Req PROVE Total(S) \in Nat
BY TotalOn, SumNat DEF Total

\* Fewer requests ask for less.
LEMMA TotalSubset == ASSUME NEW S \in SUBSET Req, NEW T \in SUBSET S PROVE Total(T) <= Total(S)
BY TotalOn, SumSubset DEF Total

\* One more request adds its amount.
LEMMA TotalOneMore ==
  ASSUME NEW S \in SUBSET Req, NEW r \in Req, r \notin S
  PROVE  Total(S \cup {r}) = Total(S) + Amt[r]
<1>1. Amt[r] \in Int
  BY RequestAssumption
<1>. QED
  BY <1>1, TotalOn, SumAddOne DEF Total

\* The totals of disjoint sets of requests add up.
LEMMA TotalUnion ==
  ASSUME NEW S \in SUBSET Req, NEW T \in SUBSET Req, S \cap T = {}
  PROVE  Total(S \cup T) = Total(S) + Total(T)
<1>1. PICK U : U = S \cup T
  OBVIOUS
<1>2. U \in SUBSET Req
  BY <1>1
<1>3. SumFunctionOnSet(Amt, U) = SumFunctionOnSet(Amt, U \cap S) + SumFunctionOnSet(Amt, U \ S)
  BY <1>2, TotalOn, SumSplit
<1>4. U \cap S = S /\ U \ S = T
  BY <1>1
<1>5. SumFunctionOnSet(Amt, U \cap S) = SumFunctionOnSet(Amt, S) /\ SumFunctionOnSet(Amt, U \ S) = SumFunctionOnSet(Amt, T)
  BY <1>4, Zenon
<1>6. SumFunctionOnSet(Amt, S \cup T) = SumFunctionOnSet(Amt, U)
  BY <1>1, Zenon
<1>. QED
  BY <1>3, <1>5, <1>6 DEF Total

\* The requests of the queues are requests.
LEMMA QueueSets ==
  ASSUME TypeOK
  PROVE  /\ RangeOf(releases) \in SUBSET Req /\ RangeOf(releases) \subseteq Releases
         /\ RangeOf(withdrawals) \subseteq Withdrawals /\ RangeOf(reservations) \subseteq Reservations
         /\ Granted \in SUBSET Req /\ \A n : ReleasesBefore(n) \in SUBSET Req
         /\ Told(Reservations) \in SUBSET Req /\ Told(Releases) \in SUBSET Req
         /\ lv.cover \in SUBSET Req /\ lv.batch \in SUBSET Req /\ lv.count \in Int /\ lv.k \in Nat \ {0}
<1>1. /\ releases \in Seq(Releases) /\ withdrawals \in Seq(Withdrawals) /\ reservations \in Seq(Reservations)
      /\ lv \in Locals
  BY DEF TypeOK
<1>2. lv.cover \in SUBSET Req /\ lv.batch \in SUBSET Req /\ lv.count \in Int /\ lv.k \in Nat \ {0}
  BY <1>1 DEF Locals
<1>3. \A j \in DOMAIN releases : releases[j] \in Releases
  BY <1>1
<1>4. /\ RangeOf(withdrawals) \subseteq Withdrawals /\ RangeOf(reservations) \subseteq Reservations
      /\ RangeOf(releases) \subseteq Releases
  BY <1>1 DEF RangeOf
<1>5. \A n : ReleasesBefore(n) \in SUBSET Req
  BY <1>3 DEF ReleasesBefore, Req
<1>. QED
  BY <1>2, <1>4, <1>5 DEF Granted, Told, Req

\* Told is unchanged when no caller of a reservation or a release is told.
LEMMA ToldKept ==
  ASSUME TypeOK, TypeOK', TellInv, owed' = owed,
         \A r \in Reservations \cup Releases : outcome'[r] \in {"undef", "msg"} <=> outcome[r] \in {"undef", "msg"}
  PROVE  (owed >= Total(Told(Reservations)) - Total(Told(Releases)))'
<1>1. Told(Reservations)' = Told(Reservations) /\ Told(Releases)' = Told(Releases)
  BY DEF Told
<1>2. Total(Told(Reservations)') = Total(Told(Reservations)) /\ Total(Told(Releases)') = Total(Told(Releases))
  BY <1>1, Zenon
<1>3. Total(Told(Reservations))' = Total(Told(Reservations)') /\ Total(Told(Releases))' = Total(Told(Releases)')
  BY DEF Total
<1>. QED
  BY <1>2, <1>3 DEF TellInv

\* A step outside splitReservations that tells no caller of a reservation or a
\* release that it is done.
LEMMA TellOutside ==
  ASSUME TypeOK, TypeOK', TellInv, owed' = owed,
         \A r \in Reservations \cup Releases : outcome'[r] \in {"undef", "msg"} <=> outcome[r] \in {"undef", "msg"},
         pc' \notin SplitPCs \cup {"ackR"}, BatchOfKind', ReleasesQueued', CallersLive'
  PROVE  TellInv'
<1>1. CountCovers'
  BY DEF CountCovers, SplitPCs
<1>2. (owed >= Total(Told(Reservations)) - Total(Told(Releases)))'
  BY ToldKept
<1>. QED
  BY <1>1, <1>2 DEF TellInv

\* A step that leaves the goroutine that holds the lock where it is, and after
\* which no more callers wait.
LEMMA TellBeside ==
  ASSUME TypeOK, TypeOK', TellInv, UNCHANGED <<owed, pc, lv, releases>>,
         \A r \in Reservations \cup Releases : outcome'[r] \in {"undef", "msg"} <=> outcome[r] \in {"undef", "msg"},
         \A r \in Req : outcome'[r] = "queued" => outcome[r] = "queued",
         \A r \in Releases : outcome'[r] = outcome[r],
         CallersLive'
  PROVE  TellInv'
<1>1. BatchOfKind' /\ ReleasesQueued'
  BY QueueSets DEF TellInv, BatchOfKind, ReleasesQueued, RangeOf
<1>2. Granted' \subseteq Granted
  BY QueueSets DEF Granted
<1>3. PICK G : G = Granted'
  OBVIOUS
<1>4. G \in SUBSET Granted /\ Granted \in SUBSET Req
  BY <1>2, <1>3, QueueSets
<1>5. Total(G) <= Total(Granted) /\ Total(G) \in Nat /\ Total(Granted) \in Nat
  BY <1>4, TotalSubset, TotalNat
<1>6. Total(Granted)' = Total(G)
  BY <1>3 DEF Total
<1>7. /\ Total(RangeOf(releases))' = Total(RangeOf(releases)) /\ Total(RangeOf(releases)) \in Nat
      /\ Total(ReleasesBefore(lv.k))' = Total(ReleasesBefore(lv.k)) /\ Total(ReleasesBefore(lv.k)) \in Nat
  BY QueueSets, TotalNat DEF Total, RangeOf, ReleasesBefore
<1>8. CountCovers'
  BY <1>5, <1>6, <1>7, QueueSets DEF TellInv, CountCovers
<1>9. (owed >= Total(Told(Reservations)) - Total(Told(Releases)))'
  BY ToldKept
<1>. QED
  BY <1>1, <1>8, <1>9 DEF TellInv

\* A caller queues a request.
LEMMA TellRequest ==
  ASSUME TypeOK, TypeOK', TellInv, NEW r \in Req, RequestAndWait(r)
  PROVE  TellInv'
<1>1. /\ pc = "idle" /\ pc' = "idle" /\ outcome[r] = "new" /\ outcome' = [outcome EXCEPT ![r] = "queued"]
      /\ releases' = (IF r \in Releases THEN Append(releases, r) ELSE releases)
      /\ UNCHANGED <<ctxDone, owed>>
  BY DEF RequestAndWait, hist
<1>2. outcome \in [Req -> Outcomes] /\ releases \in Seq(Releases)
  BY DEF TypeOK
<1>3. outcome'[r] = "queued" /\ \A q \in Req \ {r} : outcome'[q] = outcome[q]
  BY <1>1, <1>2
<1>4. CallersLive'
  BY <1>1, <1>3, RequestAssumption DEF TellInv, CallersLive, Req
<1>5. BatchOfKind'
  BY <1>1 DEF BatchOfKind, SplitPCs
<1>6. \A q \in RangeOf(releases) : q \in Req /\ q # r /\ outcome'[q] = "queued"
  BY <1>1, <1>3, QueueSets DEF TellInv, ReleasesQueued
<1>7. ReleasesQueued'
  <2>1. CASE r \in Releases
    <3>1. releases' = Append(releases, r)
      BY <1>1, <2>1
    <3>2. /\ DOMAIN releases' = 1 .. Len(releases) + 1 /\ DOMAIN releases = 1 .. Len(releases) /\ Len(releases) \in Nat
          /\ \A j \in DOMAIN releases : releases'[j] = releases[j]
          /\ releases'[Len(releases) + 1] = r
      BY <1>2, <3>1
    <3>3. \A j \in DOMAIN releases' : j \in DOMAIN releases \/ j = Len(releases) + 1
      BY <3>2
    <3>4. \A j \in DOMAIN releases : releases[j] \in RangeOf(releases)
      BY DEF RangeOf
    <3>5. \A i, j \in DOMAIN releases' : releases'[i] = releases'[j] => i = j
      BY <1>6, <3>2, <3>3, <3>4 DEF TellInv, ReleasesQueued
    <3>6. \A q \in RangeOf(releases)' : q \in RangeOf(releases) \/ q = r
      BY <3>2, <3>3 DEF RangeOf
    <3>. QED
      BY <1>1, <1>3, <1>6, <3>5, <3>6 DEF ReleasesQueued
  <2>2. CASE r \notin Releases
    BY <1>1, <1>6, <2>2 DEF TellInv, ReleasesQueued, RangeOf
  <2>. QED
    BY <2>1, <2>2
<1>8. \A q \in Reservations \cup Releases : outcome'[q] \in {"undef", "msg"} <=> outcome[q] \in {"undef", "msg"}
  BY <1>1, <1>3 DEF Req
<1>9. pc' \notin SplitPCs \cup {"ackR"}
  BY <1>1 DEF SplitPCs
<1>. QED
  BY <1>1, <1>4, <1>5, <1>7, <1>8, <1>9, TellOutside

\* A caller gives up, or returns to its client.
LEMMA TellCaller ==
  ASSUME TypeOK, TypeOK', TellInv, NEW r \in RPC, Cancel(r) \/ CallerReturn(r)
  PROVE  TellInv'
<1>1. /\ UNCHANGED <<owed, pc, lv, releases>> /\ ctxDone' = ctxDone \cup {r}
      /\ \/ outcome[r] = "queued" /\ outcome' = [outcome EXCEPT ![r] = "cancelled"]
         \/ outcome[r] \in {"undef", "msg", "err"} /\ outcome' = outcome
  BY DEF Cancel, CallerReturn, queues, hist
<1>2. outcome \in [Req -> Outcomes] /\ r \in Req /\ r \notin Releases
  BY RequestAssumption DEF TypeOK, Req
<1>3. /\ \/ outcome[r] = "queued" /\ outcome'[r] = "cancelled"
         \/ outcome[r] \in {"undef", "msg", "err"} /\ outcome'[r] = outcome[r]
      /\ \A q \in Req \ {r} : outcome'[q] = outcome[q]
  BY <1>1, <1>2
<1>4. CallersLive'
  BY <1>1, <1>3, RequestAssumption DEF TellInv, CallersLive, Req
<1>. QED
  BY <1>1, <1>2, <1>3, <1>4, TellBeside DEF Req

\* process begins with nothing counted.
LEMMA TellProcess ==
  ASSUME TypeOK, TypeOK', ControlInv, TellInv, NEW c \in Ctx, Process(c)
  PROVE  TellInv'
<1>1. /\ UNCHANGED <<owed, lv, releases, outcome, ctxDone>> /\ lv = NoLocals /\ pc = "idle"
      /\ pc' \in {"idle", "sum", "wavail"}
  BY DEF Process, FirstStep, reqVars, queues, hist, ControlInv
<1>2. lv.cover = {} /\ lv.batch = {} /\ lv.count = 0 /\ lv.k = 1
  BY <1>1 DEF NoLocals
<1>3. CallersLive' /\ BatchOfKind' /\ ReleasesQueued'
  BY <1>1, <1>2 DEF TellInv, CallersLive, BatchOfKind, ReleasesQueued, RangeOf
<1>4. CASE pc' # "sum"
  BY <1>1, <1>3, <1>4, TellOutside DEF SplitPCs
<1>5. CASE pc' = "sum"
  <2>1. Granted' = {} /\ ReleasesBefore(lv.k)' = {}
    <3>1. releases \in Seq(Releases)
      BY DEF TypeOK
    <3>2. Granted' = {}
      BY <1>1, <1>2 DEF Granted
    <3>3. DOMAIN releases = 1 .. Len(releases)
      BY <3>1
    <3>4. \A i \in DOMAIN releases : ~(i < 1)
      BY <3>3
    <3>5. ReleasesBefore(lv.k)' = {}
      BY <1>1, <1>2, <3>4 DEF ReleasesBefore
    <3>. QED
      BY <3>2, <3>5
  <2>2. Total({}) = 0
    BY SumEmpty DEF Total
  <2>3. Total(Granted)' = Total(Granted') /\ Total(ReleasesBefore(lv.k))' = Total(ReleasesBefore(lv.k)')
    BY DEF Total
  <2>4. Total(Granted') = Total({}) /\ Total(ReleasesBefore(lv.k)') = Total({})
    BY <2>1, Zenon
  <2>5. CountCovers'
    BY <1>1, <1>2, <1>5, <2>2, <2>3, <2>4 DEF CountCovers
  <2>6. (owed >= Total(Told(Reservations)) - Total(Told(Releases)))'
    BY <1>1, ToldKept
  <2>. QED
    BY <1>3, <2>5, <2>6 DEF TellInv
<1>. QED
  BY <1>4, <1>5

\* A release is always for its full amount.
LEMMA ReleaseAmount == ASSUME TypeOK, NEW r \in Releases PROVE Amount(r) = Amt[r] /\ Amt[r] \in Nat
BY RequestAssumption DEF TypeOK, Amount, CtxOf, Req

\* So is a reservation whose caller waits.
LEMMA WaitingAmount ==
  ASSUME TypeOK, CallersLive, NEW r \in Reservations, outcome[r] = "queued"
  PROVE  Amount(r) = Amt[r]
BY RequestAssumption DEF TypeOK, CallersLive, Amount, CtxOf

\* The sum of the releases: each is counted once.
LEMMA TellSum ==
  ASSUME TypeOK, TypeOK', TellInv, SumReleases
  PROVE  TellInv'
<1>1. UNCHANGED <<owed, releases, outcome, ctxDone>> /\ pc = "sum"
  BY DEF SumReleases, reqVars, queues, hist
<1>2. lv \in Locals /\ releases \in Seq(Releases) /\ lv.k \in Nat \ {0} /\ lv.count \in Int
  BY QueueSets DEF TypeOK
<1>3. DOMAIN releases = 1 .. Len(releases) /\ Len(releases) \in Nat
  BY <1>2
<1>4. CallersLive' /\ (owed >= Total(Told(Reservations)) - Total(Told(Releases)))'
  BY <1>1, ToldKept DEF TellInv, CallersLive
<1>5. CASE lv.k <= Len(releases)
  <2>1. PICK a : a = Amount(releases[lv.k])
    OBVIOUS
  <2>2. releases[lv.k] \in Releases /\ lv.k \in DOMAIN releases
    BY <1>2, <1>3, <1>5
  <2>3. a = Amt[releases[lv.k]] /\ a \in Nat
    BY <2>1, <2>2, ReleaseAmount
  <2>4. pc' = "sum" /\ lv' = [lv EXCEPT !.k = lv.k + 1, !.relAmt = lv.relAmt + a, !.count = lv.count - a]
    BY <1>1, <1>5, <2>1 DEF SumReleases
  <2>5. lv'.k = lv.k + 1 /\ lv'.count = lv.count - a /\ lv'.cover = lv.cover /\ lv'.batch = lv.batch
    BY <1>2, <2>4 DEF Locals
  <2>6. BatchOfKind' /\ ReleasesQueued'
    BY <1>1, <2>4, <2>5 DEF TellInv, BatchOfKind, ReleasesQueued, RangeOf, SplitPCs
  <2>7. PICK B : B = ReleasesBefore(lv.k)
    OBVIOUS
  <2>8. PICK C : C = ReleasesBefore(lv.k)'
    OBVIOUS
  <2>9. C = B \cup {releases[lv.k]}
    BY <1>1, <1>2, <1>3, <2>2, <2>5, <2>7, <2>8 DEF ReleasesBefore
  <2>10. releases[lv.k] \notin B
    BY <1>2, <1>3, <2>2, <2>7 DEF ReleasesBefore, TellInv, ReleasesQueued
  <2>11. B \in SUBSET Req /\ releases[lv.k] \in Req
    BY <2>2, <2>7, QueueSets DEF Req
  <2>12. Total(B \cup {releases[lv.k]}) = Total(B) + a
    BY <2>3, <2>10, <2>11, TotalOneMore
  <2>13. Total(C) = Total(B \cup {releases[lv.k]})
    BY <2>9, Zenon
  <2>14. Granted' = Granted
    BY <1>1, <2>5 DEF Granted
  <2>15. Total(Granted)' = Total(Granted') /\ Total(ReleasesBefore(lv.k))' = Total(C) /\ Total(ReleasesBefore(lv.k)) = Total(B)
    BY <2>7, <2>8 DEF Total
  <2>16. Total(Granted') = Total(Granted)
    BY <2>14, Zenon
  <2>17. Total(Granted) \in Nat /\ Total(B) \in Nat
    BY <2>11, QueueSets, TotalNat
  <2>18. CountCovers'
    BY <1>1, <1>2, <2>3, <2>4, <2>5, <2>12, <2>13, <2>15, <2>16, <2>17 DEF TellInv, CountCovers
  <2>. QED
    BY <1>4, <2>6, <2>18 DEF TellInv
<1>6. CASE ~(lv.k <= Len(releases))
  <2>1. pc' = "split" /\ lv' = [lv EXCEPT !.k = 1]
    BY <1>6 DEF SumReleases
  <2>2. lv'.count = lv.count /\ lv'.cover = lv.cover /\ lv'.batch = lv.batch
    BY <1>2, <2>1 DEF Locals
  <2>3. BatchOfKind' /\ ReleasesQueued'
    BY <1>1, <2>1, <2>2 DEF TellInv, BatchOfKind, ReleasesQueued, RangeOf, SplitPCs
  <2>4. RangeOf(releases) = ReleasesBefore(lv.k)
    BY <1>2, <1>3, <1>6 DEF RangeOf, ReleasesBefore
  <2>5. Total(RangeOf(releases)) = Total(ReleasesBefore(lv.k))
    BY <2>4, Zenon
  <2>6. Granted' = Granted
    BY <1>1, <2>2 DEF Granted
  <2>7. Total(Granted') = Total(Granted)
    BY <2>6, Zenon
  <2>8. Total(Granted)' = Total(Granted') /\ Total(RangeOf(releases))' = Total(RangeOf(releases))
    BY <1>1 DEF Total, RangeOf
  <2>9. CountCovers'
    BY <1>1, <2>1, <2>2, <2>5, <2>7, <2>8 DEF TellInv, CountCovers
  <2>. QED
    BY <1>4, <2>3, <2>9 DEF TellInv
<1>. QED
  BY <1>5, <1>6

\* A step of splitReservations after the releases are summed, or behind it, that
\* counts what it adds to the requests that wait.
LEMMA TellCount ==
  ASSUME TypeOK, TypeOK', TellInv, UNCHANGED <<owed, releases, outcome, ctxDone>>,
         pc \in {"split", "avail", "push"}, pc' \in {"split", "avail", "push", "ackR"},
         lv'.cover \cup lv'.batch = lv.cover \cup lv.batch, lv'.count = lv.count
  PROVE  TellInv'
<1>1. CallersLive' /\ (owed >= Total(Told(Reservations)) - Total(Told(Releases)))'
  BY ToldKept DEF TellInv, CallersLive
<1>2. BatchOfKind' /\ ReleasesQueued'
  BY DEF TellInv, BatchOfKind, ReleasesQueued, RangeOf, SplitPCs
<1>3. Granted' = Granted
  BY DEF Granted
<1>4. Total(Granted') = Total(Granted)
  BY <1>3, Zenon
<1>5. Total(Granted)' = Total(Granted') /\ Total(RangeOf(releases))' = Total(RangeOf(releases))
  BY DEF Total, RangeOf
<1>6. CountCovers'
  BY <1>4, <1>5 DEF TellInv, CountCovers
<1>. QED
  BY <1>1, <1>2, <1>6 DEF TellInv

\* splitReservations: what is counted for a reservation covers what its caller
\* will be told if it still waits.
LEMMA TellSplit ==
  ASSUME TypeOK, TypeOK', TellInv, SplitReservations
  PROVE  TellInv'
<1>1. UNCHANGED <<owed, releases, outcome, ctxDone>> /\ pc = "split"
  BY DEF SplitReservations, reqVars, queues, hist
<1>2. /\ lv \in Locals /\ reservations \in Seq(Reservations) /\ lv.k \in Nat \ {0} /\ lv.count \in Int
      /\ lv.cover \in SUBSET Req /\ lv.batch \in SUBSET Req
  BY QueueSets DEF TypeOK
<1>3. CallersLive' /\ (owed >= Total(Told(Reservations)) - Total(Told(Releases)))'
  BY <1>1, ToldKept DEF TellInv, CallersLive
<1>4. CASE ~(lv.k <= Len(reservations))
  <2>1. pc' \in {"avail", "ackR"} /\ lv' = lv
    BY <1>4 DEF SplitReservations
  <2>. QED
    BY <1>1, <2>1, TellCount
<1>5. CASE lv.k <= Len(reservations)
  <2>1. PICK r \in Reservations : r = reservations[lv.k]
    BY <1>2, <1>5
  <2>2. PICK a \in Nat : a = Amount(r)
    BY AmountType DEF Req
  <2>3. pc' = "split" /\ lv' = SplitReservation(r, a)
    BY <1>1, <1>5, <2>1, <2>2 DEF SplitReservations
  <2>4. \/ lv'.cover \cup lv'.batch = lv.cover \cup lv.batch /\ lv'.count = lv.count
        \/ lv'.cover \cup lv'.batch = (lv.cover \cup lv.batch) \cup {r} /\ lv'.count = lv.count + a
    <3>1. CASE a <= lv.relAmt
      <4>1. lv' = [lv EXCEPT !.k = lv.k + 1, !.relAmt = lv.relAmt - a,
                             !.cover = lv.cover \cup {r}, !.count = lv.count + a]
        BY <2>3, <3>1 DEF SplitReservation
      <4>2. lv'.cover = lv.cover \cup {r} /\ lv'.batch = lv.batch /\ lv'.count = lv.count + a
        BY <1>2, <4>1 DEF Locals
      <4>. QED
        BY <4>2
    <3>2. CASE ~(a <= lv.relAmt) /\ lv.wallet \in {None, Wallet[r]}
      <4>1. lv' = [lv EXCEPT !.k = lv.k + 1, !.wallet = Wallet[r],
                             !.amt = lv.amt + (a - lv.relAmt), !.relAmt = 0,
                             !.batch = lv.batch \cup {r}, !.count = lv.count + a]
        BY <2>3, <3>2 DEF SplitReservation
      <4>2. lv'.cover = lv.cover /\ lv'.batch = lv.batch \cup {r} /\ lv'.count = lv.count + a
        BY <1>2, <4>1 DEF Locals
      <4>. QED
        BY <4>2
    <3>3. CASE ~(a <= lv.relAmt) /\ lv.wallet \notin {None, Wallet[r]}
      <4>1. lv' = [lv EXCEPT !.k = lv.k + 1, !.left = Append(lv.left, r)]
        BY <2>3, <3>3 DEF SplitReservation
      <4>2. lv'.cover = lv.cover /\ lv'.batch = lv.batch /\ lv'.count = lv.count
        BY <1>2, <4>1 DEF Locals
      <4>. QED
        BY <4>2
    <3>. QED
      BY <3>1, <3>2, <3>3
  <2>5. CASE lv'.cover \cup lv'.batch = lv.cover \cup lv.batch /\ lv'.count = lv.count
    BY <1>1, <2>3, <2>5, TellCount
  <2>6. CASE lv'.cover \cup lv'.batch = (lv.cover \cup lv.batch) \cup {r} /\ lv'.count = lv.count + a
    <3>1. BatchOfKind' /\ ReleasesQueued'
      BY <1>1, <2>3, <2>6 DEF TellInv, BatchOfKind, ReleasesQueued, RangeOf, SplitPCs
    <3>2. PICK G : G = Granted
      OBVIOUS
    <3>3. PICK H : H = Granted'
      OBVIOUS
    <3>4. G \in SUBSET Req /\ r \in Req /\ Amt[r] \in Nat
      BY <3>2, QueueSets, RequestAssumption DEF Req
    <3>5. H = G \/ (H = G \cup {r} /\ r \notin G /\ outcome[r] = "queued")
      BY <1>1, <2>6, <3>2, <3>3 DEF Granted
    <3>6. Total(G) \in Nat /\ Total(H) <= Total(G) + a /\ Total(H) \in Nat
      <4>1. Total(G) \in Nat
        BY <3>4, TotalNat
      <4>2. CASE H = G
        BY <4>1, <4>2
      <4>3. CASE H = G \cup {r} /\ r \notin G /\ outcome[r] = "queued"
        <5>1. a = Amt[r]
          BY <2>2, <4>3, WaitingAmount DEF TellInv
        <5>2. Total(G \cup {r}) = Total(G) + a
          BY <3>4, <4>3, <5>1, TotalOneMore
        <5>3. Total(H) = Total(G \cup {r})
          BY <4>3, Zenon
        <5>. QED
          BY <4>1, <5>2, <5>3
      <4>. QED
        BY <3>5, <4>2, <4>3
    <3>7. Total(Granted)' = Total(H) /\ Total(Granted) = Total(G) /\ Total(RangeOf(releases))' = Total(RangeOf(releases))
      BY <1>1, <3>2, <3>3 DEF Total, RangeOf
    <3>8. Total(RangeOf(releases)) \in Nat
      BY QueueSets, TotalNat
    <3>9. CountCovers'
      BY <1>1, <1>2, <2>3, <2>6, <3>6, <3>7, <3>8 DEF TellInv, CountCovers
    <3>. QED
      BY <1>3, <3>1, <3>9 DEF TellInv
  <2>. QED
    BY <2>4, <2>5, <2>6
<1>. QED
  BY <1>4, <1>5

\* The funds are asked for, or the message is pushed: nothing is counted.
LEMMA TellFunds ==
  ASSUME TypeOK, TypeOK', TellInv, AvailableFunds \/ AddFunds
  PROVE  TellInv'
<1>1. UNCHANGED <<owed, releases, outcome, ctxDone>> /\ pc \in {"avail", "push"}
  BY DEF AvailableFunds, AddFunds, reqVars, queues, hist
<1>2. lv \in Locals
  BY DEF TypeOK
<1>3. \/ pc' = "failR"
      \/ pc' \in {"push", "ackR"} /\ lv'.cover \cup lv'.batch = lv.cover \cup lv.batch /\ lv'.count = lv.count
  <2>1. CASE AvailableFunds
    <3>1. \/ pc' = "failR"
          \/ lv' = [lv EXCEPT !.cover = lv.cover \cup lv.batch, !.batch = {}] /\ pc' = "ackR"
          \/ lv' = [lv EXCEPT !.net = NewReserved - avail] /\ pc' = "push"
      BY <2>1 DEF AvailableFunds
    <3>. QED
      BY <1>2, <3>1 DEF Locals
  <2>2. CASE AddFunds
    BY <1>2, <2>2 DEF AddFunds, Locals
  <2>. QED
    BY <2>1, <2>2
<1>4. CASE pc' = "failR"
  <2>1. BatchOfKind' /\ ReleasesQueued' /\ CallersLive'
    BY <1>1, <1>4 DEF TellInv, BatchOfKind, ReleasesQueued, CallersLive, RangeOf, SplitPCs
  <2>. QED
    BY <1>1, <1>4, <2>1, TellOutside DEF SplitPCs
<1>5. CASE pc' \in {"push", "ackR"} /\ lv'.cover \cup lv'.batch = lv.cover \cup lv.batch /\ lv'.count = lv.count
  BY <1>1, <1>5, TellCount
<1>. QED
  BY <1>3, <1>4, <1>5

\* The deferred function of processReservations: all releases of the queue are
\* told, and of the counted reservations those whose callers wait.
LEMMA TellComplete ==
  ASSUME TypeOK, TypeOK', TellInv, CompleteReservations
  PROVE  TellInv'
<1>1. /\ pc = "ackR" /\ pc' = "saveR" /\ UNCHANGED <<ctxDone, releases, lv>> /\ owed' = owed + lv.count
      /\ outcome' = Complete(ToComplete, [r \in Req |-> IF r \in lv.batch THEN "msg" ELSE "undef"])
  BY DEF CompleteReservations, queues
<1>2. \A r \in Req : outcome'[r] = IF r \in ToComplete /\ outcome[r] = "queued"
                                   THEN IF r \in lv.batch THEN "msg" ELSE "undef" ELSE outcome[r]
  BY <1>1 DEF Complete
<1>3. /\ lv.cover \cup lv.batch \subseteq Reservations /\ RangeOf(releases) \subseteq Releases
      /\ \A r \in RangeOf(releases) : outcome[r] = "queued"
      /\ lv.count >= Total(Granted) - Total(RangeOf(releases)) /\ lv.count \in Int
  BY <1>1, QueueSets DEF TellInv, BatchOfKind, ReleasesQueued, CountCovers
<1>4. PICK G : G = Granted
  OBVIOUS
<1>5. PICK L : L = RangeOf(releases)
  OBVIOUS
<1>6. PICK R : R = Told(Reservations)
  OBVIOUS
<1>7. PICK D : D = Told(Releases)
  OBVIOUS
<1>8. /\ G \in SUBSET Req /\ L \in SUBSET Req /\ R \in SUBSET Req /\ D \in SUBSET Req
      /\ G \cap R = {} /\ L \cap D = {}
  <2>1. G \in SUBSET Req /\ L \in SUBSET Req /\ R \in SUBSET Req /\ D \in SUBSET Req
    BY <1>4, <1>5, <1>6, <1>7, QueueSets
  <2>2. \A r \in G : outcome[r] = "queued"
    BY <1>4 DEF Granted
  <2>3. \A r \in R \cup D : outcome[r] \in {"undef", "msg"}
    BY <1>6, <1>7 DEF Told
  <2>. QED
    BY <1>3, <1>5, <2>1, <2>2, <2>3
<1>9. Told(Reservations)' = R \cup G
  BY <1>2, <1>3, <1>4, <1>6, RequestAssumption DEF Told, Granted, ToComplete, Req
<1>10. Told(Releases)' = D \cup L
  BY <1>2, <1>3, <1>5, <1>7, RequestAssumption DEF Told, ToComplete, Req
<1>11. Total(R \cup G) = Total(R) + Total(G) /\ Total(D \cup L) = Total(D) + Total(L)
  BY <1>8, TotalUnion
<1>12. Total(Told(Reservations)') = Total(R \cup G) /\ Total(Told(Releases)') = Total(D \cup L)
  BY <1>9, <1>10, Zenon
<1>13. Total(Told(Reservations))' = Total(Told(Reservations)') /\ Total(Told(Releases))' = Total(Told(Releases)')
  BY DEF Total
<1>14. Total(R) \in Nat /\ Total(G) \in Nat /\ Total(D) \in Nat /\ Total(L) \in Nat /\ owed \in Int
  BY <1>8, TotalNat DEF TypeOK
<1>15. owed >= Total(R) - Total(D) /\ lv.count >= Total(G) - Total(L)
  BY <1>3, <1>4, <1>5, <1>6, <1>7 DEF TellInv
<1>16. (owed >= Total(Told(Reservations)) - Total(Told(Releases)))'
  BY <1>1, <1>3, <1>11, <1>12, <1>13, <1>14, <1>15
<1>17. CallersLive'
  BY <1>1, <1>2, RequestAssumption DEF TellInv, CallersLive, Req
<1>18. BatchOfKind' /\ CountCovers'
  BY <1>1 DEF BatchOfKind, CountCovers, SplitPCs
<1>19. ReleasesQueued'
  <2>1. RangeOf(releases)' = RangeOf(releases)
    BY <1>1 DEF RangeOf
  <2>2. \A r \in RangeOf(releases) : outcome'[r] # "new"
    BY <1>2, <1>3, QueueSets DEF ToComplete
  <2>. QED
    BY <1>1, <2>1, <2>2 DEF TellInv, ReleasesQueued
<1>. QED
  BY <1>16, <1>17, <1>18, <1>19 DEF TellInv

\* The state is applied, or the batch fails: the queue of releases is empty.
LEMMA TellEmptied ==
  ASSUME TypeOK, TypeOK', TellInv, owed' = owed, ctxDone' = ctxDone, releases' = << >>,
         pc' \in {"wavail", "end", "down"},
         \A r \in Req : outcome'[r] = outcome[r] \/ (outcome[r] = "queued" /\ outcome'[r] \in {"err", "lost"})
  PROVE  TellInv'
<1>1. ReleasesQueued'
  BY DEF ReleasesQueued, RangeOf
<1>2. BatchOfKind' /\ pc' \notin SplitPCs \cup {"ackR"}
  BY DEF BatchOfKind, SplitPCs
<1>3. CallersLive'
  BY RequestAssumption DEF TellInv, CallersLive, Req
<1>4. \A r \in Reservations \cup Releases : outcome'[r] \in {"undef", "msg"} <=> outcome[r] \in {"undef", "msg"}
  BY DEF Req
<1>. QED
  BY <1>1, <1>2, <1>3, <1>4, TellOutside

\* The end of a batch of reservations.
LEMMA TellApply ==
  ASSUME TypeOK, TypeOK', TellInv, ApplyReservations \/ FailReservations
  PROVE  TellInv'
<1>1. /\ owed' = owed /\ ctxDone' = ctxDone /\ releases' = << >> /\ pc' \in {"wavail", "end"}
      /\ \/ outcome' = outcome
         \/ outcome' = Complete(RangeOf(reservations) \cup RangeOf(releases), [r \in Req |-> "err"])
  BY DEF ApplyReservations, FailReservations, AfterReservations, reqVars, hist
<1>2. \A r \in Req : outcome'[r] = outcome[r] \/ (outcome[r] = "queued" /\ outcome'[r] \in {"err", "lost"})
  BY <1>1 DEF Complete
<1>. QED
  BY <1>1, <1>2, TellEmptied

\* A step of processWithdrawals that tells callers of withdrawals only.
LEMMA TellWithdraw ==
  ASSUME TypeOK, TypeOK', TellInv, UNCHANGED <<owed, ctxDone, releases>>, pc # "saveR",
         pc' \in {"idle", "wavail", "wloop", "wpush", "wsave", "end"}, BatchOfKind',
         NEW S \in SUBSET Withdrawals, NEW f,
         \/ outcome' = outcome
         \/ outcome' = Complete(S, f) /\ \A r \in Req : f[r] \in {"undef", "msg", "err"}
  PROVE  TellInv'
<1>1. \A r \in Req : \/ outcome'[r] = outcome[r]
                     \/ r \in Withdrawals /\ outcome'[r] \in {"undef", "msg", "err"}
  BY DEF Complete
<1>2. \A r \in Reservations \cup Releases : outcome'[r] = outcome[r]
  BY <1>1, RequestAssumption DEF Req
<1>3. CallersLive'
  BY <1>1, RequestAssumption DEF TellInv, CallersLive, Req
<1>4. ReleasesQueued'
  <2>1. RangeOf(releases)' = RangeOf(releases)
    BY DEF RangeOf
  <2>2. \A r \in RangeOf(releases) : outcome'[r] = "queued"
    BY <1>2, QueueSets DEF TellInv, ReleasesQueued
  <2>. QED
    BY <2>1, <2>2 DEF TellInv, ReleasesQueued
<1>5. pc' \notin SplitPCs \cup {"ackR"}
  BY DEF SplitPCs
<1>. QED
  BY <1>2, <1>3, <1>4, <1>5, TellOutside

\* Each of these steps is one.
LEMMA TellWithdrawals ==
  ASSUME TypeOK, TypeOK', TellInv, NetAvailable \/ ProcessWithdrawals \/ WithdrawFunds \/ ApplyWithdrawals
  PROVE  TellInv'
<1>. USE QueueSets
<1>1. CASE NetAvailable
  <2>1. /\ UNCHANGED <<owed, ctxDone, releases>> /\ pc = "wavail"
        /\ \/ pc' = "wloop" /\ outcome' = outcome /\ lv' = [NoLocals EXCEPT !.net = NetAvail]
           \/ pc' = "end" /\ outcome' = Complete(RangeOf(withdrawals), [r \in Req |-> "err"])
    BY <1>1 DEF NetAvailable, FailWithdrawals, hist
  <2>2. BatchOfKind'
    BY <2>1 DEF BatchOfKind, SplitPCs, NoLocals
  <2>. QED
    BY <2>1, <2>2, TellWithdraw
<1>2. CASE ProcessWithdrawals
  <2>1. UNCHANGED <<owed, ctxDone, releases>> /\ pc = "wloop" /\ lv.batch \subseteq Withdrawals
    BY <1>2 DEF ProcessWithdrawals, hist, TellInv, BatchOfKind
  <2>2. CASE lv.k <= Len(withdrawals) /\ pc' = pc /\ FitWithdrawal(withdrawals[lv.k], Amount(withdrawals[lv.k]))
    <3>1. PICK r : r = withdrawals[lv.k]
      OBVIOUS
    <3>2. r \in Withdrawals
      <4>1. withdrawals \in Seq(Withdrawals)
        BY DEF TypeOK
      <4>. QED
        BY <2>2, <3>1, <4>1
    <3>3. PICK f : /\ \A q \in Req : f[q] \in {"undef", "msg", "err"}
                   /\ outcome' = outcome \/ outcome' = Complete({r}, f)
      <4>1. \/ outcome' = outcome
            \/ outcome' = Complete({r}, [q \in Req |-> "undef"])
            \/ outcome' = Complete({r}, [q \in Req |-> "err"])
        BY <2>2, <3>1 DEF FitWithdrawal
      <4>2. /\ \A q \in Req : [p \in Req |-> "undef"][q] \in {"undef", "msg", "err"}
            /\ \A q \in Req : [p \in Req |-> "err"][q] \in {"undef", "msg", "err"}
        OBVIOUS
      <4>. QED
        BY <4>1, <4>2
    <3>4. lv'.batch = lv.batch \/ lv'.batch = lv.batch \cup {r}
      <4>1. lv \in Locals
        BY DEF TypeOK
      <4>2. \E w, a, k, d, l : \/ lv' = [lv EXCEPT !.k = k, !.done = d]
                               \/ lv' = [lv EXCEPT !.k = k, !.wallet = w, !.amt = a, !.batch = lv.batch \cup {r}]
                               \/ lv' = [lv EXCEPT !.k = k, !.left = l]
        BY <2>2, <3>1 DEF FitWithdrawal
      <4>. QED
        BY <4>1, <4>2 DEF Locals
    <3>5. BatchOfKind'
      BY <2>1, <2>2, <3>2, <3>4 DEF BatchOfKind, SplitPCs
    <3>6. {r} \in SUBSET Withdrawals
      BY <3>2
    <3>. QED
      BY <2>1, <2>2, <3>3, <3>5, <3>6, TellWithdraw
  <2>3. CASE outcome' = outcome /\ lv' = lv /\ pc' \in {"end", "wpush"}
    <3>1. BatchOfKind'
      BY <2>1, <2>3 DEF BatchOfKind, SplitPCs
    <3>. QED
      BY <2>1, <2>3, <3>1, TellWithdraw
  <2>. QED
    BY <1>2, <2>2, <2>3 DEF ProcessWithdrawals
<1>3. CASE WithdrawFunds
  <2>1. UNCHANGED <<owed, ctxDone>> /\ pc = "wpush" /\ lv.batch \subseteq Withdrawals
    BY <1>3 DEF WithdrawFunds, TellInv, BatchOfKind
  <2>2. \/ /\ releases' = releases /\ pc' \in {"wsave", "end"}
           /\ \/ outcome' = Complete(lv.batch, [r \in Req |-> "msg"])
              \/ outcome' = Complete(RangeOf(withdrawals), [r \in Req |-> "err"])
        \/ Die
    BY <1>3 DEF WithdrawFunds, FailWithdrawals, queues
  <2>3. CASE Die
    <3>1. /\ pc' = "down" /\ releases' = << >>
          /\ outcome' = [r \in Req |-> IF outcome[r] = "queued" THEN "lost" ELSE outcome[r]]
      BY <2>3 DEF Die
    <3>. QED
      BY <2>1, <3>1, TellEmptied
  <2>4. CASE ~Die
    <3>1. BatchOfKind'
      BY <2>2, <2>4 DEF BatchOfKind, SplitPCs
    <3>. QED
      BY <2>1, <2>2, <2>4, <3>1, TellWithdraw
  <2>. QED
    BY <2>3, <2>4
<1>4. CASE ApplyWithdrawals
  <2>1. UNCHANGED <<owed, ctxDone, releases, outcome>> /\ pc = "wsave" /\ pc' = "end"
    BY <1>4 DEF ApplyWithdrawals, reqVars
  <2>2. BatchOfKind'
    BY <2>1 DEF BatchOfKind, SplitPCs
  <2>. QED
    BY <2>1, <2>2, TellWithdraw
<1>. QED
  BY <1>1, <1>2, <1>3, <1>4

\* The process ends its work, waits, stops, crashes or starts again.
LEMMA TellLife ==
  ASSUME TypeOK, TypeOK', TellInv,
         EndProcess \/ (\E w \in waits : WaitReturns(w)) \/ Stop \/ Crash \/ Start
  PROVE  TellInv'
<1>1. CASE EndProcess \/ Start
  <2>1. UNCHANGED <<owed, ctxDone, releases, outcome>> /\ pc # "saveR" /\ pc' = "idle"
    BY <1>1 DEF EndProcess, Start, reqVars, queues, hist
  <2>2. BatchOfKind'
    BY <2>1 DEF BatchOfKind, SplitPCs
  <2>. QED
    BY <2>1, <2>2, TellWithdraw
<1>2. CASE (\E w \in waits : WaitReturns(w)) \/ Stop
  <2>1. UNCHANGED <<owed, pc, lv, releases, outcome, ctxDone>>
    BY <1>2 DEF WaitReturns, Stop, reqVars, queues, hist
  <2>. QED
    BY <2>1, TellBeside DEF TellInv, CallersLive
<1>3. CASE Crash
  <2>1. /\ pc' = "down" /\ releases' = << >> /\ UNCHANGED <<owed, ctxDone>>
        /\ outcome' = [r \in Req |-> IF outcome[r] = "queued" THEN "lost" ELSE outcome[r]]
    BY <1>3 DEF Crash, Die
  <2>. QED
    BY <2>1, TellEmptied
<1>. QED
  BY <1>1, <1>2, <1>3

\* Every step keeps what the callers are told within what is counted.
LEMMA TellStep ==
  ASSUME TypeOK, TypeOK', ControlInv, TellInv, [Next]_vars
  PROVE  TellInv'
<1>1. ASSUME NEW r \in Req, RequestAndWait(r) PROVE TellInv'
  BY <1>1, TellRequest
<1>2. ASSUME NEW r \in RPC, Cancel(r) \/ CallerReturn(r) PROVE TellInv'
  BY <1>2, TellCaller
<1>3. ASSUME NEW c \in Ctx, Process(c) PROVE TellInv'
  BY <1>3, TellProcess
<1>4. CASE Locked
  BY <1>4, TellSum, TellSplit, TellFunds, TellComplete, TellApply, TellWithdrawals, TellLife DEF Locked
<1>5. CASE UNCHANGED vars \/ (\E c \in Cid : ChainExec(c) \/ ChainFail(c)) \/ (\E x \in ExtLocks : ExtLock(x))
  <2>1. UNCHANGED <<owed, pc, lv, releases, outcome, ctxDone>>
    BY <1>5 DEF vars, ChainExec, ChainFail, ExtLock, reqVars, queues, hist
  <2>. QED
    BY <2>1, TellBeside DEF TellInv, CallersLive
<1>6. CASE (\E w \in waits : WaitReturns(w)) \/ Stop \/ Crash \/ Start
  BY <1>6, TellLife
<1>. QED
  BY <1>1, <1>2, <1>3, <1>4, <1>5, <1>6 DEF Next

\* At the start nobody has been told anything.
LEMMA TellInit == Init => TellInv
<1>. SUFFICES ASSUME Init PROVE TellInv
  OBVIOUS
<1>1. Told(Reservations) = {} /\ Told(Releases) = {}
  BY DEF Init, Told, Req
<1>2. Total({}) = 0
  BY SumEmpty DEF Total
<1>3. Total(Told(Reservations)) = Total({}) /\ Total(Told(Releases)) = Total({})
  BY <1>1, Zenon
<1>4. owed >= Total(Told(Reservations)) - Total(Told(Releases))
  BY <1>2, <1>3 DEF Init
<1>. QED
  BY <1>4 DEF Init, TellInv, CallersLive, ReleasesQueued, BatchOfKind, CountCovers, RangeOf, SplitPCs

\* What the callers of Reserve and Release were told is in AmtReserved, for
\* any requests, cancellations, failures and restarts.
THEOREM CallersCovered == Spec => []CallersAreCovered
<1>1. IInv /\ TellInv /\ IInv' /\ [Next]_vars => TellInv'
  BY TellStep DEF IInv
<1>2. IInv /\ TellInv => CallersAreCovered
  <2>. SUFFICES ASSUME IInv, TellInv, faults \cap {"saveLost", "ackLost"} = {}
                PROVE  Booked >= Total(Told(Reservations)) - Total(Told(Releases))
    BY DEF CallersAreCovered
  <2>1. /\ Booked >= owed /\ owed \in Int /\ owed >= Total(Told(Reservations)) - Total(Told(Releases))
        /\ TypeOK
    BY DEF IInv, LedgerInv, ReservedCoversGranted, TellInv, TypeOK
  <2>2. Total(Told(Reservations)) \in Nat /\ Total(Told(Releases)) \in Nat
    BY <2>1, QueueSets, TotalNat
  <2>3. lv \in Locals /\ state \in FundedState
    BY <2>1 DEF TypeOK
  <2>4. Booked \in Int
    BY <2>3 DEF Booked, NewReserved, MaxOf, Locals, FundedState
  <2>. QED
    BY <2>1, <2>2, <2>4
<1>. QED
  BY InitInv, TellInit, Invariance, <1>1, <1>2, PTL DEF Spec
=============================================================================
