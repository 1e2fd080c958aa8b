----------------------------- MODULE Messaging -----------------------------
(***************************************************************************)
(* How the provider sends a message and learns its fate: the list of       *)
(* addresses it may sign for (minermgr/minermgr.go), the choice of a       *)
(* sender (storageprovider/address_select.go), the push through a daemon   *)
(* or through venus-messager (api/clients/mix_msgclient.go,                *)
(* nonce_assign.go) and the wait (WaitMsg, and WaitForPublishDeals in      *)
(* storageprovider/provider.go).                                           *)
(*                                                                         *)
(* There is one miner.  An address has one name here: looking up its id or *)
(* its key succeeds, or fails like any other query.  The daemon, its       *)
(* message pool, the messager, venus-auth and the chain are external: a    *)
(* reorganisation takes a message off the chain as long as it is at most   *)
(* Deep tipsets below the head.                                            *)
(***************************************************************************)
EXTENDS Integers, FiniteSets, Sequences, SequencesExt

CONSTANTS
  Owner, WorkerAddrs,  \* addresses of the miner: owner, workers it may have
  Controls,            \* its control addresses
  Multisigs,           \* addresses that cannot sign
  Miner,               \* the miner's own address
  Configured,          \* AddressConfig.DealPublishControl, in order
  DisableWorkerFallback,
  ConfigUsers,         \* users of the configuration: <<address, account>>, in order
  AuthUsers,           \* users that venus-auth may list, in order
  PageLimit,           \* CoMinersLimit
  Goods, MaxFunds,     \* goodFunds asked for, and balances
  Sendings,            \* calls that publish deals and wait
  Deep,                \* confidence of the wait
  MaxPooled,           \* bound: calls in pool mode, where they do not meet
  MaxRefreshes, MaxMsgFaults, MaxChainChanges

ASSUME MessagingAssumption ==
  /\ Goods \subseteq Nat /\ MaxFunds \in Nat /\ Deep \in Nat /\ PageLimit \in Nat
  /\ MaxPooled \in Nat /\ MaxRefreshes \in Nat /\ MaxMsgFaults \in Nat /\ MaxChainChanges \in Nat
  /\ Miner \notin WorkerAddrs \cup Controls \cup Multisigs
  /\ WorkerAddrs # {} /\ WorkerAddrs \cap Multisigs = {}   \* the chain takes a key only
  /\ IsFiniteSet(Controls) /\ Configured \in Seq(Range(Configured))
  /\ ConfigUsers \in Seq(Range(ConfigUsers)) /\ AuthUsers \in Seq(Range(AuthUsers))

VARIABLES
  pool,      \* pool mode: with venus-auth and venus-messager; else solo, a daemon
  worker,    \* the miner's worker on chain
  enabled,   \* accounts that venus-auth lists as enabled
  users,     \* UserMgrImpl.miners: pairs of address and account
  lister,    \* the goroutine in addUser: [pc, todo, addrs, account, refresh, old]
  started,   \* NeAddrMgrImpl has returned, and the node runs
  fresh,     \* history: users was listed completely, and nothing changed since
  sending,   \* Sendings -> [pc, from, nonce, msg, why]
  mpool,     \* the messages: [from, nonce, account, st, depth, ok]
  refreshes, msgFaults, chainChanges

msgVars == <<pool, worker, enabled, users, lister, started, fresh, sending, mpool,
             refreshes, msgFaults, chainChanges>>
userVars == <<users, lister, started, fresh, refreshes>>
chainVars == <<pool, worker, enabled, chainChanges>>

NoSending == [pc |-> "idle", from |-> Miner, nonce |-> 0, msg |-> 0, why |-> "none"]
NoLister == [pc |-> "idle", todo |-> << >>, addrs |-> << >>, account |-> "none",
             refresh |-> FALSE, old |-> FALSE]

MessagingTypeOK ==
  /\ pool \in BOOLEAN /\ worker \in WorkerAddrs /\ fresh \in BOOLEAN
  /\ started \in BOOLEAN /\ lister.pc \in {"idle", "user", "append"}
  /\ \A s \in Sendings : sending[s].pc \in {"idle", "picked", "signed", "waiting", "found",
                                            "published", "rejected", "failed"}
  /\ \A m \in DOMAIN mpool :
       /\ mpool[m].st \in {"UnFillMsg", "FillMsg", "OnChainMsg", "FailedMsg"}
       /\ mpool[m].depth \in 0..Deep + 1

MsgFault == msgFaults < MaxMsgFaults /\ msgFaults' = msgFaults + 1

MessagingInit ==
  /\ pool \in BOOLEAN /\ worker = CHOOSE w \in WorkerAddrs : TRUE
  /\ enabled = {u[2] : u \in {v \in Range(AuthUsers) : pool}}
  /\ users = {} /\ lister = NoLister /\ started = FALSE /\ fresh = FALSE
  /\ sending = [s \in Sendings |-> NoSending] /\ mpool = << >>
  /\ refreshes = 0 /\ msgFaults = 0 /\ chainChanges = 0

-----------------------------------------------------------------------------
(* The choice of a sender.                                                   *)

\* What the node and the wallet say of an address: no answer, or its balance and
\* whether the key is held.
AddrViews == [up : {FALSE}, bal : {0}, key : {FALSE}] \cup [up : {TRUE}, bal : 0..MaxFunds, key : BOOLEAN]

IsControl(a, w) == a \in Controls \cup {Owner, w}

\* The candidates: the configured addresses to publish deals; for any other use
\* those that are left of the others (in the order of a map, so in any) without
\* the configured ones whose id could be looked up; then the worker.
Candidates(use, w) ==
  LET own == IF use = "DealPublishAddr" THEN {Configured}
             ELSE UNION {SetToSeqs(Controls \ ({Owner, w} \cup known)) : known \in SUBSET Range(Configured)}
  IN {IF cs = << >> \/ ~DisableWorkerFallback THEN Append(cs, w) ELSE cs : cs \in own}

\* Mutant: the key is not asked for.
MutantMaybeUseAddress(acc, a, view, good) ==
  IF view.bal >= good THEN [least |-> a, avail |-> view.bal, done |-> TRUE] ELSE acc

maybeUseAddress(acc, a, view, good) ==
  IF view.bal >= good
    THEN IF view.key THEN [least |-> a, avail |-> view.bal, done |-> TRUE] ELSE acc
    ELSE IF view.bal > acc.avail THEN [acc EXCEPT !.least = a, !.avail = view.bal] ELSE acc

\* One turn of the loop of pickAddress; done is its early return.
TryAddress(acc, a, views, w, good) ==
  IF acc.done \/ ~IsControl(a, w) \/ ~views[a].up THEN acc
  ELSE maybeUseAddress(acc, a, views[a], good)

\* pickAddress, with minFunds zero.
pickAddress(cands, views, w, good) ==
  LET upTo[n \in 0..Len(cands)] ==
        IF n = 0 THEN [least |-> w, avail |-> 0, done |-> FALSE]
        ELSE TryAddress(upTo[n - 1], cands[n], views, w, good)
  IN upTo[Len(cands)].least

\* What cannot sign has no key.
Addresses(w) == Controls \cup Range(Configured) \cup {w}
Views == [w \in WorkerAddrs |->
            {v \in [Addresses(w) -> AddrViews] : \A a \in Addresses(w) \cap Multisigs : ~v[a].key}]

\* AddressFor to publish deals, for which no funds are asked, whatever the node
\* and the wallet say.
AddressFor ==
  [w \in WorkerAddrs |->
     {pickAddress(cs, views, w, 0) : cs \in Candidates("DealPublishAddr", w), views \in Views[w]}]

-----------------------------------------------------------------------------
(* The list of users.                                                        *)

Listed == {u[1] : u \in users}

\* GetAccount; an address has one account.
GetAccount(a) == {u[2] : u \in {v \in users : v[1] = a}}

\* The users of the first page whose account is one of on.
UsersWithMiners(on) ==
  LET upTo[n \in 0..PageLimit] ==
        IF n = 0 THEN << >>
        ELSE IF n <= Len(AuthUsers) /\ AuthUsers[n][2] \in on THEN Append(upTo[n - 1], AuthUsers[n])
        ELSE upTo[n - 1]
  IN upTo[PageLimit]

getMinerFromVenusAuth == UsersWithMiners(enabled)

\* NeAddrMgrImpl: the configured users, then the first refresh.  An error and
\* the node does not start.
StartUsers ==
  /\ ~started /\ lister.pc = "idle"
  /\ lister' = [lister EXCEPT !.pc = "user", !.todo = ConfigUsers, !.refresh = pool, !.old = FALSE]
  /\ UNCHANGED <<users, started, fresh, refreshes, chainVars, sending, mpool, msgFaults>>

\* refreshOnce, at a tick of refreshUsers.
RefreshOnce ==
  /\ pool /\ started /\ lister.pc = "idle" /\ refreshes < MaxRefreshes /\ refreshes' = refreshes + 1
  /\ lister' = [lister EXCEPT !.pc = "user", !.todo = getMinerFromVenusAuth, !.old = FALSE]
  /\ UNCHANGED <<users, started, fresh, chainVars, sending, mpool, msgFaults>>

\* addUser goes on to the next user; with a miner come its owner, its worker and
\* its control addresses, as the chain has them now.
AddUser ==
  /\ lister.pc = "user"
  /\ \/ /\ lister.todo = << >> /\ lister.refresh
        /\ lister' = [lister EXCEPT !.todo = getMinerFromVenusAuth, !.refresh = FALSE]
        /\ UNCHANGED <<started, fresh>>
     \/ /\ lister.todo = << >> /\ ~lister.refresh
        /\ lister' = NoLister /\ started' = TRUE /\ fresh' = ~lister.old
     \/ /\ lister.todo # << >>
        /\ LET u == Head(lister.todo) IN lister' = [lister EXCEPT !.pc = "append", !.todo = Tail(@), !.account = u[2],
             !.addrs = <<u[1]>> \o IF u[1] = Miner THEN <<Owner, worker>> \o SetToSeq(Controls) ELSE << >>]
        /\ UNCHANGED <<started, fresh>>
  /\ UNCHANGED <<users, refreshes, chainVars, sending, mpool, msgFaults>>

\* appendAddress: what cannot sign is left out, what is there keeps its account.
AppendAddress ==
  /\ lister.pc = "append"
  /\ LET a == Head(lister.addrs) IN
     /\ users' = IF a \in Listed \cup Multisigs THEN users ELSE users \cup {<<a, lister.account>>}
     /\ lister' = [lister EXCEPT !.addrs = Tail(@), !.pc = IF Len(lister.addrs) = 1 THEN "user" ELSE @]
  /\ UNCHANGED <<started, fresh, refreshes, chainVars, sending, mpool, msgFaults>>

\* A query of addUser or appendAddress fails: the rest of the users waits for
\* the next tick, or for the next start of the node.
ListingFails ==
  /\ lister.pc \in {"user", "append"} /\ MsgFault
  /\ lister.refresh \/ lister.todo \o lister.addrs # << >>
  /\ lister' = NoLister /\ users' = IF started THEN users ELSE {}
  /\ UNCHANGED <<started, fresh, refreshes, chainVars, sending, mpool>>

\* The miner changes its worker, or venus-auth enables or disables a user.
ChainChanges ==
  /\ chainChanges < MaxChainChanges /\ chainChanges' = chainChanges + 1
  /\ \/ worker' \in WorkerAddrs \ {worker} /\ UNCHANGED enabled
     \/ /\ pool /\ UNCHANGED worker
        /\ \E u \in Range(AuthUsers) :
             enabled' = IF u[2] \in enabled THEN enabled \ {u[2]} ELSE enabled \cup {u[2]}
  /\ fresh' = FALSE /\ lister' = [lister EXCEPT !.old = TRUE]
  /\ UNCHANGED <<pool, users, started, refreshes, sending, mpool, msgFaults>>

-----------------------------------------------------------------------------
(* The push.                                                                 *)

\* A query fails, or an answer is lost: the call returns an error.
SendingFails(s) ==
  /\ sending[s].pc \in {"picked", "signed"} /\ MsgFault
  /\ sending' = [sending EXCEPT ![s].pc = "failed", ![s].why = "fault"]
  /\ UNCHANGED <<userVars, chainVars, mpool>>

\* publishDealProposals: the miner's info is read and a sender is chosen.
PublishDealProposals(s) ==
  /\ started /\ sending[s].pc = "idle"
  /\ pool => Cardinality({t \in Sendings : sending[t].pc # "idle"}) < MaxPooled
  /\ \E a \in AddressFor[worker] : sending' = [sending EXCEPT ![s].pc = "picked", ![s].from = a]
  /\ UNCHANGED <<userVars, chainVars, mpool, msgFaults>>

NextNonce(a) == 1 + Cardinality({m \in DOMAIN mpool : mpool[m].from = a})
NewMsg(s, st, account) ==
  [by |-> s, from |-> sending[s].from, nonce |-> sending[s].nonce, account |-> account,
   st |-> st, depth |-> 0, ok |-> TRUE]

\* AssignNonce: the lock covers the query of the pool only, so that a nonce is
\* taken when the message is pushed, which comes later.
AssignNonce(s) ==
  /\ ~pool /\ sending[s].pc = "picked"
  /\ sending' = [sending EXCEPT ![s].pc = "signed", ![s].nonce = NextNonce(sending[s].from)]
  /\ UNCHANGED <<userVars, chainVars, mpool, msgFaults>>

\* MpoolPush: the pool refuses a nonce that a message has already.
MpoolPush(s) ==
  /\ sending[s].pc = "signed"
  /\ IF sending[s].nonce < NextNonce(sending[s].from)
     THEN sending' = [sending EXCEPT ![s].pc = "failed", ![s].why = "nonce"] /\ UNCHANGED mpool
     ELSE /\ mpool' = Append(mpool, NewMsg(s, "FillMsg", "none"))
          /\ sending' = [sending EXCEPT ![s].pc = "waiting", ![s].msg = Len(mpool) + 1]
  /\ UNCHANGED <<userVars, chainVars, msgFaults>>

\* Nothing has changed since the users were listed, the miner is one of them, and
\* the sender of s, which was chosen earlier, is still an address of the miner.
Current(s) ==
  /\ fresh /\ IsControl(sending[s].from, worker)
  /\ \E u \in Range(getMinerFromVenusAuth) : u[1] = Miner

\* ForcePushMessageWithId, under the account of the sender.
ForcePushMessage(s) ==
  /\ pool /\ sending[s].pc = "picked"
  /\ IF GetAccount(sending[s].from) = {}
     THEN /\ sending' = [sending EXCEPT ![s].pc = "failed", ![s].why = IF Current(s) THEN "unlisted" ELSE "stale"]
          /\ UNCHANGED mpool
     ELSE /\ \E account \in GetAccount(sending[s].from) :
               mpool' = Append(mpool, NewMsg(s, "UnFillMsg", account))
          /\ sending' = [sending EXCEPT ![s].pc = "waiting", ![s].msg = Len(mpool) + 1]
  /\ UNCHANGED <<userVars, chainVars, msgFaults>>

-----------------------------------------------------------------------------
(* The message, and the wait for it.                                         *)

\* OnChainMsg stands for ReplacedMsg too, which is treated alike.
OnChain(m) == mpool[m].st = "OnChainMsg"

\* The messager signs and sends a message; a block has it, and more blocks
\* follow; or the messager gives it up.
MessageProceeds(m) ==
  /\ \/ mpool[m].st = "UnFillMsg" /\ mpool' = [mpool EXCEPT ![m].st = "FillMsg"]
     \/ /\ mpool[m].st = "FillMsg"
        /\ \E ok \in BOOLEAN : mpool' = [mpool EXCEPT ![m].st = "OnChainMsg", ![m].ok = ok]
     \/ OnChain(m) /\ mpool[m].depth <= Deep /\ mpool' = [mpool EXCEPT ![m].depth = @ + 1]
  /\ UNCHANGED <<userVars, chainVars, sending, msgFaults>>

MessageFails(m) ==
  /\ pool /\ mpool[m].st = "UnFillMsg" /\ MsgFault
  /\ mpool' = [mpool EXCEPT ![m].st = "FailedMsg"]
  /\ UNCHANGED <<userVars, chainVars, sending>>

MessageReorg(m) ==
  /\ OnChain(m) /\ mpool[m].depth <= Deep
  /\ chainChanges < MaxChainChanges /\ chainChanges' = chainChanges + 1
  /\ mpool' = [mpool EXCEPT ![m].st = "FillMsg", ![m].depth = 0]
  /\ UNCHANGED <<userVars, pool, worker, enabled, sending, msgFaults>>

\* Mutant: a message that is exactly Deep below the head is taken for final.
MutantConfident(m) == OnChain(m) /\ mpool[m].depth >= Deep

Confident(m) == OnChain(m) /\ mpool[m].depth > Deep

\* WaitMsg, at a tick that finds a final state; at any other it goes on waiting,
\* and a query that fails is asked again.
WaitMsg(s) ==
  /\ sending[s].pc = "waiting"
  /\ \/ /\ Confident(sending[s].msg)
        /\ sending' = [sending EXCEPT ![s].pc = IF mpool[sending[s].msg].ok THEN "found" ELSE "rejected"]
     \/ /\ mpool[sending[s].msg].st = "FailedMsg"
        /\ sending' = [sending EXCEPT ![s].pc = "rejected"]
  /\ UNCHANGED <<userVars, chainVars, mpool, msgFaults>>

\* WaitForPublishDeals: the head and the deal's current id are asked for.
WaitForPublishDeals(s) ==
  /\ sending[s].pc = "found"
  /\ sending' = [sending EXCEPT ![s].pc = "published"]
  /\ UNCHANGED <<userVars, chainVars, mpool, msgFaults>>

\* The context ends, or one of those queries fails.
WaitGivenUp(s) ==
  /\ sending[s].pc \in {"waiting", "found"} /\ MsgFault
  /\ sending' = [sending EXCEPT ![s].pc = "failed", ![s].why = "fault"]
  /\ UNCHANGED <<userVars, chainVars, mpool>>

MessagingProgress ==
  \/ StartUsers \/ RefreshOnce \/ AddUser \/ AppendAddress
  \/ \E s \in Sendings : \/ AssignNonce(s) \/ MpoolPush(s) \/ ForcePushMessage(s)
                         \/ WaitMsg(s) \/ WaitForPublishDeals(s)
  \/ \E m \in DOMAIN mpool : MessageProceeds(m)

MessagingNext ==
  \/ MessagingProgress \/ ListingFails \/ ChainChanges
  \/ \E s \in Sendings : PublishDealProposals(s) \/ SendingFails(s) \/ WaitGivenUp(s)
  \/ \E m \in DOMAIN mpool : MessageFails(m) \/ MessageReorg(m)

MessagingSpec == MessagingInit /\ [][MessagingNext]_msgVars

-----------------------------------------------------------------------------
\* AddressFor returns the first candidate of the miner that can pay and sign;
\* if there is none, the richest one that has anything; if there is none, the worker.
BestSender ==
  \A w \in WorkerAddrs, use \in {"DealPublishAddr", "other"} :
    \A cs \in Candidates(use, w), v \in Views[w], good \in Goods :
      LET a == pickAddress(cs, v, w, good)
          seen == {i \in DOMAIN cs : IsControl(cs[i], w) /\ v[cs[i]].up}
          able == {i \in seen : v[cs[i]].bal >= good /\ v[cs[i]].key}
          poor == {i \in seen : v[cs[i]].bal \in 1..good - 1}
      IN IF able # {} THEN a = cs[CHOOSE i \in able : \A j \in able : i <= j]
         ELSE IF poor # {} THEN \E i \in poor : a = cs[i] /\ \A j \in poor : v[cs[j]].bal <= v[a].bal
         ELSE a = w

\* A list that was completed without an error has every address that the miner
\* can send from, so that a push is refused only after a failed query, when the
\* miner or its users have changed since or venus-auth does not list it, or when
\* two pushes of one sender overlapped and got the same nonce.
RefusedForCause ==
  \A s \in Sendings :
    /\ sending[s].why # "unlisted"
    /\ sending[s].why = "nonce" =>
         \E m \in DOMAIN mpool : /\ mpool[m].by # s /\ mpool[m].from = sending[s].from
                                 /\ mpool[m].nonce = sending[s].nonce

\* A fate that WaitMsg reported stays the message's fate, reorganisations or not.
FateFinal ==
  \A s \in Sendings :
    LET m == sending[s].msg IN
    /\ sending[s].pc \in {"found", "published"} => OnChain(m) /\ mpool[m].ok
    /\ sending[s].pc = "rejected" => mpool[m].st = "FailedMsg" \/ (OnChain(m) /\ ~mpool[m].ok)

\* A message is sent from the best address, under the account of its miner, is
\* refused only for a cause, and what its caller is told of it is final
\* (AddressFor, GetAccount, PushMessage, WaitMsg).
MessageSent == BestSender /\ RefusedForCause /\ FateFinal

\* No push and no wait of it hangs: once the callers stop, each has its answer.
SendingsEnd == []<>(\A s \in Sendings : sending[s].pc \in {"idle", "published", "rejected", "failed"})
=============================================================================
