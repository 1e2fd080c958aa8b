----------------------------- MODULE MCPayments -----------------------------
(***************************************************************************)
(* Instance of the payment side of the market: the fund queue of a payment *)
(* channel, the vouchers of a channel with its settler, and a retrieval    *)
(* deal.  The three share no state, so each behaviour moves one of them,   *)
(* the one that part names, and the others stay where they begin.          *)
(***************************************************************************)
EXTENDS PaychFunds, PaychVouchers, Retrieval

CONSTANTS r1, r2, o1, o2, o3

VARIABLE part

MCAmt == [r \in {r1, r2} |-> IF r = r1 THEN 1 ELSE 2]

mcVars == <<fundsVars, voucherVars, retrievalVars, part>>

MCInit ==
  /\ part \in {"funds", "vouchers", "retrieval"}
  /\ FundsInit /\ VoucherInit /\ RetrievalInit
  /\ part # "vouchers" => dir = CHOOSE d \in Dirs : TRUE

MCNext ==
  /\ UNCHANGED part
  /\ \/ part = "funds" /\ FundsNext /\ UNCHANGED <<voucherVars, retrievalVars>>
     \/ part = "vouchers" /\ VoucherNext /\ UNCHANGED <<fundsVars, retrievalVars>>
     \/ part = "retrieval" /\ RetrievalNext /\ UNCHANGED <<fundsVars, voucherVars>>

MCSpec ==
  /\ MCInit /\ [][MCNext]_mcVars
  /\ WF_mcVars(part = "funds" /\ FundsProgress /\ UNCHANGED <<voucherVars, retrievalVars, part>>)
  /\ WF_mcVars(part = "retrieval" /\ RetrievalProgress /\ UNCHANGED <<fundsVars, voucherVars, part>>)
=============================================================================
