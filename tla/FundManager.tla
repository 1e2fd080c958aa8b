---------------------------- MODULE FundManager ----------------------------
(***************************************************************************)
(* The fund manager of fundmgr/fundmanager.go, for one funded address.     *)
(*                                                                         *)
(* Callers queue requests to reserve, release or withdraw market escrow    *)
(* funds.  `go a.process(ctx)` goroutines drain the queues under the lock  *)
(* a.lk, push at most one message on chain, and hand the wait for it to    *)
(* another goroutine.  The lock is held while pc is neither "idle" nor     *)
(* "down"; everything that does not take the lock (a caller giving up, the *)
(* chain, another deal locking funds, a crash) interleaves with its steps. *)
(***************************************************************************)
EXTENDS Integers, Sequences, FiniteSets, Functions

CONSTANTS
  Reservations, Releases, Withdrawals,  \* the requests callers may make
  RPC,             \* the requests whose context ends with the caller's call
  Wallets,         \* wallets that pay for or receive the funds
  Wallet,          \* Wallet[r]: the wallet of a reservation or withdrawal
  Amt,             \* Amt[r]: the amount of request r
  InitAvail,       \* escrow - locked of the address at the start
  MaxMsgs,         \* bound: messages that can be pushed
  MaxCrash,        \* bound: crashes of the process
  StoreHonoursCtx, \* the store refuses to save under a dead context (MySQL)
  PushFails,       \* kinds of message whose push may fail: {"add", "withdraw"}
  ChainFails,      \* kinds of message that may fail on chain
  QueryFails,      \* StateMarketBalance may fail
  WaitFails,       \* WaitMsg may fail
  MayStop,         \* FundManager.Stop may be called
  ExtLocks,        \* amounts other actors may lock in the market actor
  None, Bg         \* no message / no wallet; the background context

Req == Reservations \cup Releases \cup Withdrawals
Ctx == RPC \cup {Bg}
Cid == 1 .. MaxMsgs
CtxOf(r) == IF r \in RPC THEN r ELSE Bg

ASSUME RequestAssumption ==
  /\ Reservations \cap Releases = {}
  /\ Reservations \cap Withdrawals = {}
  /\ Releases \cap Withdrawals = {}
  /\ RPC \subseteq Reservations \cup Withdrawals
  /\ Wallet \in [Reservations \cup Withdrawals -> Wallets]
  /\ IsFiniteSet(Req) /\ Amt \in [Req -> Nat]
  /\ Bg \notin RPC
  /\ None \notin Wallets \cup Int

ASSUME BoundAssumption ==
  /\ InitAvail \in Nat
  /\ MaxMsgs \in Nat
  /\ MaxCrash \in Nat
  /\ ExtLocks \subseteq Nat
  /\ StoreHonoursCtx \in BOOLEAN
  /\ QueryFails \in BOOLEAN
  /\ WaitFails \in BOOLEAN
  /\ MayStop \in BOOLEAN

VARIABLES
  outcome,       \* what the caller of each request has been told
  ctxDone,       \* contexts that have ended
  reservations, releases, withdrawals,   \* the ephemeral request queues
  state,         \* FundedAddressState in memory: [amt, cid]
  store,         \* FundedAddressState in the datastore
  procs,         \* procs[c]: process(c) goroutines not yet holding the lock
  waits,         \* goroutines inside WaitMsg: records [cid, ctx]
  pc, pctx,      \* step of the goroutine that holds the lock, its context
  lv,            \* its local variables
  avail,         \* escrow - locked on chain
  msgs,          \* messages pushed, indexed by cid
  stopped,       \* fm.ctx has been cancelled
  crashes,
  owed,          \* history: reserved less released, over completed requests
  abandoned,     \* history: messages nobody waits for any more
  faults         \* history: faults met

reqVars   == <<outcome, ctxDone>>
queues    == <<reservations, releases, withdrawals>>
goVars    == <<procs, waits>>
chainVars == <<avail, msgs>>
hist      == <<owed, abandoned, faults>>
vars == <<outcome, ctxDone, reservations, releases, withdrawals, state, store,
          procs, waits, pc, pctx, lv, avail, msgs, stopped, crashes,
          owed, abandoned, faults>>

Outcomes == {"new", "queued", "undef", "msg", "err", "cancelled", "lost"}
SplitPCs == {"sum", "split", "avail", "push"}
AckPCs   == {"ackR", "saveR"}
WPCs     == {"wavail", "wloop", "wpush"}
PCs == {"idle", "down", "failR", "wsave", "end"} \cup SplitPCs \cup AckPCs \cup WPCs
Faults == {"saveLost", "ackLost", "addFailed", "extLock", "panic"}

FundedState == [amt : Nat, cid : Cid \cup {None}]
Message == [kind : {"add", "withdraw"}, amt : Nat, st : {"pending", "ok", "failed"}]
Locals == [k : Nat \ {0},                 \* loop index
           amt : Nat, relAmt : Nat,       \* toAddAmt or allowedAmt; releaseAmt
           wallet : Wallets \cup {None},  \* batchWallet
           cover : SUBSET Req,            \* pr.covered
           batch : SUBSET Req,            \* toAdd or allowed
           done : SUBSET Req,             \* withdrawals completed in the loop
           left : Seq(Req),               \* requests that stay queued
           count : Int,                   \* history: amounts counted
           net : Int,                     \* amtToAdd or netAvail
           cid : Cid \cup {None}]         \* the message pushed

NoLocals == [k |-> 1, amt |-> 0, relAmt |-> 0, wallet |-> None, cover |-> {},
             batch |-> {}, done |-> {}, left |-> << >>, count |-> 0,
             net |-> 0, cid |-> None]

Pending == {c \in DOMAIN msgs : msgs[c].st = "pending"}
MaxOf(a, b) == IF a >= b THEN a ELSE b
MinOf(a, b) == IF a <= b THEN a ELSE b
RangeOf(s) == {s[j] : j \in DOMAIN s}

Init ==
  /\ outcome = [r \in Req |-> "new"]
  /\ ctxDone = {}
  /\ reservations = << >> /\ releases = << >> /\ withdrawals = << >>
  /\ state = [amt |-> 0, cid |-> None]
  /\ store = [amt |-> 0, cid |-> None]
  /\ procs = [c \in Ctx |-> 0]
  /\ waits = {}
  /\ pc = "idle" /\ pctx = Bg /\ lv = NoLocals
  /\ avail = InitAvail
  /\ msgs = << >>
  /\ stopped = FALSE /\ crashes = 0
  /\ owed = 0 /\ abandoned = {} /\ faults = {}

-----------------------------------------------------------------------------
(* Requests.  Amount() is zero once the request's context has ended.         *)

Amount(r) == IF CtxOf(r) \in ctxDone THEN 0 ELSE Amt[r]

\* `go a.process(c)`
Spawn(c) == procs' = [procs EXCEPT ![c] = @ + 1]

\* requestAndWait: append to the queue under the lock, then go process.
RequestAndWait(r) ==
  /\ pc = "idle"
  /\ outcome[r] = "new"
  /\ outcome' = [outcome EXCEPT ![r] = "queued"]
  /\ reservations' = IF r \in Reservations THEN Append(reservations, r) ELSE reservations
  /\ releases' = IF r \in Releases THEN Append(releases, r) ELSE releases
  /\ withdrawals' = IF r \in Withdrawals THEN Append(withdrawals, r) ELSE withdrawals
  /\ Spawn(CtxOf(r))
  /\ UNCHANGED <<ctxDone, state, store, waits, pc, pctx, lv, chainVars,
                 stopped, crashes, hist>>

\* The caller gives up: requestAndWait returns ctx.Err().
Cancel(r) ==
  /\ outcome[r] = "queued"
  /\ ctxDone' = ctxDone \cup {r}
  /\ outcome' = [outcome EXCEPT ![r] = "cancelled"]
  /\ UNCHANGED <<queues, state, store, goVars, pc, pctx, lv, chainVars,
                 stopped, crashes, hist>>

\* The RPC call that made the request returns to its client, which ends its
\* context.
CallerReturn(r) ==
  /\ outcome[r] \in {"undef", "msg", "err"}
  /\ r \notin ctxDone
  /\ ctxDone' = ctxDone \cup {r}
  /\ UNCHANGED <<outcome, queues, state, store, goVars, pc, pctx, lv, chainVars,
                 stopped, crashes, hist>>

\* Complete: the result reaches the caller unless its context has ended.
Complete(S, res) ==
  [r \in Req |-> IF r \in S /\ outcome[r] = "queued" THEN res[r] ELSE outcome[r]]

\* saveState: an error of the store is only logged.
SaveOK(c) == ~(StoreHonoursCtx /\ c \in ctxDone)
SaveState(c, s) ==
  /\ state' = s
  /\ store' = IF SaveOK(c) THEN s ELSE store
  /\ faults' = IF SaveOK(c) THEN faults ELSE faults \cup {"saveLost"}

-----------------------------------------------------------------------------
(* process: take the lock and see whether there is anything to do.           *)

\* Mutant: the message in flight is forgotten.
MutantFirstStep ==
  IF reservations # << >> \/ releases # << >> THEN "sum"
  ELSE IF withdrawals # << >> THEN "wavail"
  ELSE "idle"

\* Nothing to do while a message is in flight or the queues are empty.
FirstStep ==
  IF state.cid # None THEN "idle"
  ELSE IF reservations # << >> \/ releases # << >> THEN "sum"
  ELSE IF withdrawals # << >> THEN "wavail"
  ELSE "idle"

Process(c) ==
  /\ pc = "idle"
  /\ procs[c] > 0
  /\ procs' = [procs EXCEPT ![c] = @ - 1]
  /\ pc' = FirstStep
  /\ pctx' = IF FirstStep = "idle" THEN pctx ELSE c
  /\ UNCHANGED <<reqVars, queues, state, store, waits, lv, chainVars, stopped,
                 crashes, hist>>

\* splitReservations, first loop: sum the release amounts.
SumReleases ==
  /\ pc = "sum"
  /\ IF lv.k <= Len(releases)
     THEN /\ lv' = [lv EXCEPT !.k = @ + 1,
                              !.relAmt = @ + Amount(releases[lv.k]),
                              !.count = @ - Amount(releases[lv.k])]
          /\ pc' = pc
     ELSE /\ lv' = [lv EXCEPT !.k = 1]
          /\ pc' = "split"
  /\ UNCHANGED <<reqVars, queues, state, store, goVars, pctx, chainVars,
                 stopped, crashes, hist>>

\* Mutant: a release that reduced one reservation of a batch is not used up.
MutantSplitReservation(r, amt) ==
  IF amt <= lv.relAmt
  THEN [lv EXCEPT !.k = @ + 1, !.relAmt = @ - amt, !.cover = @ \cup {r}, !.count = @ + amt]
  ELSE [lv EXCEPT !.k = @ + 1, !.wallet = Wallet[r], !.amt = @ + (amt - lv.relAmt),
                  !.batch = @ \cup {r}, !.count = @ + amt]

\* splitReservations, body of the second loop: a reservation is covered by the
\* releases, joins the batch of the first wallet, or stays queued.
SplitReservation(r, amt) ==
  IF amt <= lv.relAmt
  THEN [lv EXCEPT !.k = @ + 1, !.relAmt = @ - amt, !.cover = @ \cup {r},
                  !.count = @ + amt]
  ELSE IF lv.wallet \in {None, Wallet[r]}
  THEN [lv EXCEPT !.k = @ + 1, !.wallet = Wallet[r], !.amt = @ + (amt - lv.relAmt),
                  !.relAmt = 0, !.batch = @ \cup {r}, !.count = @ + amt]
  ELSE [lv EXCEPT !.k = @ + 1, !.left = Append(@, r)]

\* Mutant: the clamp at zero is forgotten.
MutantNewReserved == state.amt + (lv.amt - lv.relAmt)

\* The reserved amount after the delta, never below zero.
NewReserved == MaxOf(0, state.amt + (lv.amt - lv.relAmt))

SplitReservations ==
  /\ pc = "split"
  /\ IF lv.k <= Len(reservations)
     THEN /\ lv' = SplitReservation(reservations[lv.k], Amount(reservations[lv.k]))
          /\ pc' = pc
     ELSE /\ lv' = lv
          /\ pc' = IF lv.batch # {} /\ NewReserved > 0 THEN "avail" ELSE "ackR"
  /\ UNCHANGED <<reqVars, queues, state, store, goVars, pctx, chainVars,
                 stopped, crashes, hist>>

\* processReservations: AvailableFunds, and the amount to add.
AvailableFunds ==
  /\ pc = "avail"
  /\ \/ /\ ~stopped
        /\ IF NewReserved - avail <= 0
           THEN /\ lv' = [lv EXCEPT !.cover = @ \cup lv.batch, !.batch = {}]
                /\ pc' = "ackR"
           ELSE /\ lv' = [lv EXCEPT !.net = NewReserved - avail]
                /\ pc' = "push"
     \/ /\ QueryFails \/ stopped
        /\ pc' = "failR"
        /\ UNCHANGED lv
  /\ UNCHANGED <<reqVars, queues, state, store, goVars, pctx, chainVars,
                 stopped, crashes, hist>>

\* PushMessage gives the message the next cid.
Push(kind, amt) ==
  /\ Len(msgs) < MaxMsgs
  /\ msgs' = Append(msgs, [kind |-> kind, amt |-> amt, st |-> "pending"])

\* processReservations: AddFunds.
AddFunds ==
  /\ pc = "push"
  /\ \/ /\ ~stopped
        /\ Push("add", lv.net)
        /\ lv' = [lv EXCEPT !.cid = Len(msgs) + 1]
        /\ pc' = "ackR"
     \/ /\ "add" \in PushFails \/ stopped
        /\ pc' = "failR"
        /\ UNCHANGED <<lv, msgs>>
  /\ UNCHANGED <<reqVars, queues, state, store, goVars, pctx, avail,
                 stopped, crashes, hist>>

\* Mutant: every queued reservation is completed, also those of other wallets.
MutantToComplete == RangeOf(releases) \cup RangeOf(reservations)

\* The requests that the deferred function of processReservations completes.
ToComplete == RangeOf(releases) \cup lv.cover \cup lv.batch

\* processReservations, deferred function without an error: the callers get
\* their results before the new state is applied and saved.
CompleteReservations ==
  /\ pc = "ackR"
  /\ outcome' = Complete(ToComplete, [r \in Req |-> IF r \in lv.batch THEN "msg" ELSE "undef"])
  /\ owed' = owed + lv.count
  /\ pc' = "saveR"
  /\ UNCHANGED <<ctxDone, queues, state, store, goVars, pctx, lv, chainVars,
                 stopped, crashes, abandoned, faults>>

\* process: are withdrawals next?
AfterReservations(cid, left) ==
  IF withdrawals # << >> /\ cid = None /\ left = << >> THEN "wavail" ELSE "end"

\* process: applyStateChange, then filterOutProcessedReqs.
ApplyReservations ==
  /\ pc = "saveR"
  /\ SaveState(pctx, [amt |-> NewReserved, cid |-> lv.cid])
  /\ reservations' = lv.left
  /\ releases' = << >>
  /\ pc' = AfterReservations(lv.cid, lv.left)
  /\ UNCHANGED <<reqVars, withdrawals, goVars, pctx, lv, chainVars, stopped,
                 crashes, owed, abandoned>>

\* processReservations, deferred function with an error: every queued
\* reservation and release fails and no state is applied.
FailReservations ==
  /\ pc = "failR"
  /\ outcome' = Complete(RangeOf(reservations) \cup RangeOf(releases),
                         [r \in Req |-> "err"])
  /\ reservations' = << >>
  /\ releases' = << >>
  /\ pc' = AfterReservations(None, << >>)
  /\ UNCHANGED <<ctxDone, withdrawals, state, store, goVars, pctx, lv,
                 chainVars, stopped, crashes, hist>>

\* The process dies: queues, waiting callers and goroutines are gone, and what
\* the store does not hold is lost.
Die ==
  /\ pc' = "down"
  /\ outcome' = [r \in Req |-> IF outcome[r] = "queued" THEN "lost" ELSE outcome[r]]
  /\ reservations' = << >> /\ releases' = << >> /\ withdrawals' = << >>
  /\ state' = store
  /\ procs' = [c \in Ctx |-> 0]
  /\ waits' = {}
  /\ pctx' = Bg /\ lv' = NoLocals

-----------------------------------------------------------------------------
(* processWithdrawals.                                                       *)

\* Every withdrawal in the queue fails.
FailWithdrawals ==
  /\ outcome' = Complete(RangeOf(withdrawals), [r \in Req |-> "err"])
  /\ withdrawals' = << >>
  /\ pc' = "end"

\* Mutant: reserved funds count as available.
MutantNetAvail == avail

\* The net available balance.
NetAvail == avail - state.amt

NetAvailable ==
  /\ pc = "wavail"
  /\ \/ /\ ~stopped
        /\ lv' = [NoLocals EXCEPT !.net = NetAvail]
        /\ pc' = "wloop"
        /\ UNCHANGED <<outcome, withdrawals>>
     \/ /\ QueryFails \/ stopped
        /\ FailWithdrawals
        /\ UNCHANGED lv
  /\ UNCHANGED <<ctxDone, reservations, releases, state, store, goVars, pctx,
                 chainVars, stopped, crashes, hist>>

\* Fit a withdrawal into the net available balance, or fail it, or leave it
\* to a batch of its own wallet.
FitWithdrawal(r, amt) ==
  \/ /\ amt = 0
     /\ outcome' = Complete({r}, [q \in Req |-> "undef"])
     /\ lv' = [lv EXCEPT !.k = @ + 1, !.done = @ \cup {r}]
  \/ /\ amt # 0 /\ lv.amt + amt > lv.net
     /\ outcome' = Complete({r}, [q \in Req |-> "err"])
     /\ lv' = [lv EXCEPT !.k = @ + 1, !.done = @ \cup {r}]
  \/ /\ amt # 0 /\ lv.amt + amt <= lv.net
     /\ lv' = IF lv.wallet \in {None, Wallet[r]}
              THEN [lv EXCEPT !.k = @ + 1, !.wallet = Wallet[r], !.amt = @ + amt,
                              !.batch = @ \cup {r}]
              ELSE [lv EXCEPT !.k = @ + 1, !.left = Append(@, r)]
     /\ UNCHANGED outcome

ProcessWithdrawals ==
  /\ pc = "wloop"
  /\ \/ /\ lv.k <= Len(withdrawals)
        /\ FitWithdrawal(withdrawals[lv.k], Amount(withdrawals[lv.k]))
        /\ UNCHANGED <<withdrawals, pc>>
     \/ /\ lv.k > Len(withdrawals)
        /\ pc' = IF lv.amt = 0 THEN "end" ELSE "wpush"
        /\ withdrawals' = IF lv.amt = 0 THEN lv.left ELSE withdrawals
        /\ UNCHANGED <<outcome, lv>>
  /\ UNCHANGED <<ctxDone, reservations, releases, state, store, goVars, pctx,
                 chainVars, stopped, crashes, hist>>

\* WithdrawFunds.  On an error the deferred function completes every
\* withdrawal of the queue; one that the loop had completed is completed
\* again, and closing its channel twice panics: the process dies.
WithdrawFunds ==
  /\ pc = "wpush"
  /\ \/ /\ ~stopped
        /\ Push("withdraw", lv.amt)
        /\ lv' = [lv EXCEPT !.cid = Len(msgs) + 1]
        /\ outcome' = Complete(lv.batch, [r \in Req |-> "msg"])
        /\ pc' = "wsave"
        /\ UNCHANGED <<queues, state, goVars, pctx, faults>>
     \/ /\ "withdraw" \in PushFails \/ stopped
        /\ lv.done = {}
        /\ FailWithdrawals
        /\ UNCHANGED <<reservations, releases, state, goVars, pctx, lv, msgs, faults>>
     \/ /\ "withdraw" \in PushFails \/ stopped
        /\ lv.done # {}
        /\ Die
        /\ faults' = faults \cup {"panic"}
        /\ UNCHANGED msgs
  /\ UNCHANGED <<ctxDone, store, avail, stopped, crashes, owed, abandoned>>

\* process: applyStateChange for a withdrawal, then filterOutProcessedReqs.
ApplyWithdrawals ==
  /\ pc = "wsave"
  /\ SaveState(pctx, [state EXCEPT !.cid = lv.cid])
  /\ withdrawals' = lv.left
  /\ pc' = "end"
  /\ UNCHANGED <<reqVars, reservations, releases, goVars, pctx, lv, chainVars,
                 stopped, crashes, owed, abandoned>>

-----------------------------------------------------------------------------
(* The end of process, and the goroutine that waits for a message.           *)

StartWaitForResults(cid, c) == waits' = waits \cup {[cid |-> cid, ctx |-> c]}

EndProcess ==
  /\ pc = "end"
  /\ IF state.cid # None THEN StartWaitForResults(state.cid, pctx) ELSE UNCHANGED waits
  /\ Spawn(pctx)
  /\ pc' = "idle" /\ pctx' = Bg /\ lv' = NoLocals
  /\ UNCHANGED <<reqVars, queues, state, store, chainVars, stopped, crashes, hist>>

\* Mutant: the queues are not processed again after a wait.
MutantWaitReturns(w) ==
  /\ pc = "idle"
  /\ w.cid \notin Pending
  /\ waits' = waits \ {w}
  /\ SaveState(w.ctx, [state EXCEPT !.cid = None])
  /\ UNCHANGED <<reqVars, queues, procs, pc, pctx, lv, chainVars, stopped,
                 crashes, owed, abandoned>>

\* WaitMsg returns, with the receipt or with an error that is only logged;
\* clearWaitState under the lock, then process.
WaitReturns(w) ==
  /\ pc = "idle"
  /\ \/ /\ w.cid \notin Pending
        /\ UNCHANGED abandoned
     \/ /\ WaitFails \/ stopped
        /\ abandoned' = abandoned \cup {w.cid}
  /\ waits' = waits \ {w}
  /\ SaveState(w.ctx, [state EXCEPT !.cid = None])
  /\ Spawn(w.ctx)
  /\ UNCHANGED <<reqVars, queues, pc, pctx, lv, chainVars, stopped, crashes,
                 owed>>

\* FundManager.Stop cancels fm.ctx.
Stop ==
  /\ MayStop
  /\ pc # "down" /\ ~stopped
  /\ stopped' = TRUE
  /\ UNCHANGED <<reqVars, queues, state, store, goVars, pc, pctx, lv,
                 chainVars, crashes, hist>>

\* A crash, or the exit at the end of a shutdown.
Crash ==
  /\ pc # "down"
  /\ crashes < MaxCrash
  /\ crashes' = crashes + 1
  /\ Die
  /\ abandoned' = IF pc \in {"ackR", "saveR", "wsave"} /\ lv.cid # None
                  THEN abandoned \cup {lv.cid} ELSE abandoned
  /\ faults' = IF pc = "saveR" THEN faults \cup {"ackLost"} ELSE faults
  /\ UNCHANGED <<ctxDone, store, chainVars, stopped, owed>>

\* Start: load the stored state and wait for its message, if it has one.
Start ==
  /\ pc = "down"
  /\ pc' = "idle"
  /\ state' = store
  /\ IF store.cid # None THEN StartWaitForResults(store.cid, Bg) ELSE UNCHANGED waits
  /\ stopped' = FALSE
  /\ UNCHANGED <<reqVars, queues, store, procs, pctx, lv, chainVars, crashes, hist>>

-----------------------------------------------------------------------------
(* The chain, seen through StateMarketBalance, PushMessage and WaitMsg.      *)

\* The storage market actor executes a message; a withdrawal takes at most
\* what is available.
ChainExec(c) ==
  /\ c \in Pending
  /\ msgs' = [msgs EXCEPT ![c].st = "ok"]
  /\ avail' = IF msgs[c].kind = "add" THEN avail + msgs[c].amt
              ELSE avail - MinOf(avail, msgs[c].amt)
  /\ UNCHANGED <<reqVars, queues, state, store, goVars, pc, pctx, lv, stopped,
                 crashes, hist>>

\* The message fails on chain, for want of funds in the wallet for instance.
ChainFail(c) ==
  /\ c \in Pending
  /\ msgs[c].kind \in ChainFails
  /\ msgs' = [msgs EXCEPT ![c].st = "failed"]
  /\ faults' = IF msgs[c].kind = "add" THEN faults \cup {"addFailed"} ELSE faults
  /\ UNCHANGED <<reqVars, queues, state, store, goVars, pc, pctx, lv, avail,
                 stopped, crashes, owed, abandoned>>

\* A published deal locks funds of the address.
ExtLock(x) ==
  /\ 0 < x /\ x <= avail
  /\ avail' = avail - x
  /\ faults' = faults \cup {"extLock"}
  /\ UNCHANGED <<reqVars, queues, state, store, goVars, pc, pctx, lv, msgs,
                 stopped, crashes, owed, abandoned>>

-----------------------------------------------------------------------------
Locked ==
  \/ SumReleases \/ SplitReservations \/ AvailableFunds \/ AddFunds
  \/ CompleteReservations \/ ApplyReservations \/ FailReservations
  \/ NetAvailable \/ ProcessWithdrawals \/ WithdrawFunds \/ ApplyWithdrawals
  \/ EndProcess

Next ==
  \/ \E r \in Req : RequestAndWait(r)
  \/ \E r \in RPC : Cancel(r) \/ CallerReturn(r)
  \/ \E c \in Ctx : Process(c)
  \/ Locked
  \/ \E w \in waits : WaitReturns(w)
  \/ \E c \in Cid : ChainExec(c) \/ ChainFail(c)
  \/ \E x \in ExtLocks : ExtLock(x)
  \/ Stop \/ Crash \/ Start

Spec == Init /\ [][Next]_vars

\* Goroutines that can take the lock or hold it run, and the chain settles
\* every message.
Fairness ==
  /\ \A c \in Ctx : WF_vars(Process(c))
  /\ WF_vars(Locked)
  /\ WF_vars(\E w \in waits : WaitReturns(w))
  /\ WF_vars(\E c \in Cid : ChainExec(c) \/ ChainFail(c))

FairSpec == Spec /\ Fairness

-----------------------------------------------------------------------------
(* Properties.                                                               *)

\* Every variable has its type; the locals of process are those of its step.
TypeOK ==
  /\ outcome \in [Req -> Outcomes]
  /\ ctxDone \subseteq RPC
  /\ reservations \in Seq(Reservations)
  /\ releases \in Seq(Releases)
  /\ withdrawals \in Seq(Withdrawals)
  /\ state \in FundedState
  /\ store \in FundedState
  /\ procs \in [Ctx -> Nat]
  /\ waits \subseteq [cid : Cid, ctx : Ctx]
  /\ pc \in PCs
  /\ pctx \in Ctx
  /\ lv \in Locals
  /\ avail \in Nat
  /\ msgs \in Seq(Message)
  /\ stopped \in BOOLEAN
  /\ crashes \in Nat
  /\ owed \in Int
  /\ abandoned \subseteq Cid
  /\ faults \subseteq Faults

\* The reserved amount that processReservations has decided on, or the one of
\* the state when no reservation is between its Complete and its save.
Booked == IF pc = "saveR" THEN NewReserved ELSE state.amt

\* applyStateChange books everything processReservations told its callers:
\* over any sequence of batches, cancellations, failed pushes and restarts,
\* AmtReserved is at least what was granted less what was released.  Only a
\* save that failed, or a crash between the Complete of a request and the
\* save behind it, loses a reservation a caller was promised.
ReservedCoversGranted ==
  faults \cap {"saveLost", "ackLost"} = {} => Booked >= owed

\* The requests of S whose callers were told that they are done, and what the
\* requests of a set ask for together.
Told(S) == {r \in S : outcome[r] \in {"undef", "msg"}}
Total(S) == SumFunctionOnSet(Amt, S)

\* What callers can see of ReservedCoversGranted: the reservations that
\* Reserve reported as successful, less the releases that Release reported as
\* done, are in AmtReserved, whoever was cancelled or failed in between.
CallersAreCovered ==
  faults \cap {"saveLost", "ackLost"} = {} =>
    Booked >= Total(Told(Reservations)) - Total(Told(Releases))

\* "only process one on-chain message at a time" (startWaitForResults): two
\* messages are in flight together only if nobody waits for one of them, since
\* its WaitMsg failed or the process died between its push and its save.
OneMessageInFlight ==
  "saveLost" \notin faults =>
    \A c, d \in Pending \ abandoned : c = d

\* What the chain will hold when the pending messages have been executed.
Settled(c) == IF msgs[c].st # "pending" THEN avail
              ELSE IF msgs[c].kind = "add" THEN avail + msgs[c].amt
              ELSE avail - msgs[c].amt
InFlight == IF pc \in {"ackR", "saveR", "wsave"} /\ lv.cid # None THEN lv.cid ELSE state.cid

\* AmtReserved "must be kept in the address (cannot be withdrawn)": once the
\* message in flight is executed, the address holds the reserved amount, also
\* while reservations are batched, covered by releases, or raced by
\* withdrawals; only a failed AddFunds, funds locked by others, a message
\* nobody waits for or a lost save can break it.
ReservedIsBacked ==
  (faults \cap {"saveLost", "addFailed", "extLock"} = {} /\ abandoned = {}) =>
    (IF InFlight = None THEN avail ELSE Settled(InFlight)) >= Booked

\* No request is completed twice: Complete closes the request's channel, and
\* closing it again panics.
NoPanic == "panic" \notin faults

\* AmtReserved "must be kept in the address (cannot be withdrawn)", with no
\* excuse: when nothing is in flight the address holds what is reserved.
ReservedIsKept == (pc = "idle" /\ Pending = {}) => avail >= state.amt

\* Every request gets an answer: its caller is told a result, gives up, or
\* dies with the process.
EveryRequestAnswered ==
  \A r \in Req : outcome[r] = "queued" ~> outcome[r] # "queued"
=============================================================================
