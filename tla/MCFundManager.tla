--------------------------- MODULE MCFundManager ---------------------------
(***************************************************************************)
(* Instances of FundManager for TLC: two reservations and two withdrawals  *)
(* from two wallets and a release, every amount 1 or 2.                    *)
(***************************************************************************)
EXTENDS FundManager

CONSTANTS r1, r2, f1, w1, w2, A, B

MCWallet == [r \in Reservations \cup Withdrawals |-> IF r \in {r2, w2} THEN B ELSE A]
MCAmt == [r \in Req |-> IF r \in {r1, w1} THEN 1 ELSE 2]
=============================================================================
