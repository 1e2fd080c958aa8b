----------------------------- MODULE PaychFunds -----------------------------
(***************************************************************************)
(* Creating and funding the payment channels of one pair of addresses: the *)
(* queue of fund requests of a channel accessor (paychmgr/simple.go), the  *)
(* channel and message records it keeps (models/badger/paych.go and        *)
(* models/mysql/paych.go), the goroutines that wait for its messages, and  *)
(* the restart of those waits (Manager.Start).                             *)
(*                                                                         *)
(* The lock of the accessor is held from the moment processQueue decides   *)
(* to send a message until it has answered the merged requests; every      *)
(* other critical section is one step.  A merged request has a context of  *)
(* its own, dead once checkActive has found all of its requests cancelled, *)
(* and every save of the message's result uses that context.               *)
(***************************************************************************)
EXTENDS Integers, Sequences, FiniteSets, SequencesExt

CONSTANTS
  Reqs,             \* calls of getPaych
  Amt,              \* Amt[r]: the amount asked for
  MaxMsgs,          \* bound: messages pushed
  MaxFundsCrash,    \* bound: crashes of the process
  StoreHonoursCtx,  \* the store refuses a dead context (MySQL: yes, badger: no)
  NodeFails         \* what may fail: a subset of {"push", "wait", "exec"}

ASSUME PaychFundsAssumption ==
  /\ IsFiniteSet(Reqs) /\ Amt \in [Reqs -> Nat] /\ MaxMsgs \in Nat \ {0} /\ MaxFundsCrash \in Nat
  /\ StoreHonoursCtx \in BOOLEAN /\ NodeFails \subseteq {"push", "wait", "exec"}

VARIABLES
  call,      \* where each caller is: getPaych, then getPaychWaitReady
  live,      \* live[r]: the context of fundsReq r is not done
  got,       \* got[r]: the message whose cid the caller was given, 0 for none
  reqQueue,  \* fundsReqQueue, as the set of its requests: its order decides nothing
  spawned,   \* a goroutine is about to run processQueue
  task,      \* the processQueue that holds the lock
  chans,     \* channel records, by the number of the message that creates them
  infos,     \* message records
  msgs,      \* the messages pushed, and how each executed
  wait,      \* wait[m]: the goroutine that waits for message m
  fup, fcrashes

fundsVars == <<call, live, got, reqQueue, spawned, task, chans, infos, msgs, wait, fup, fcrashes>>
callers == <<call, live, got>>
records == <<chans, infos>>
fproc   == <<fup, fcrashes>>

MsgIds == 1 .. MaxMsgs
NoChan == [state |-> "none", channel |-> FALSE, create |-> 0, addf |-> 0, amount |-> 0,
           pending |-> 0, settling |-> FALSE]
NoInfo == [state |-> "none", chan |-> 0, err |-> FALSE]
NoTask == [at |-> "none", reqs |-> {}, amt |-> 0, dead |-> FALSE, chan |-> 0]
NoWait == [at |-> "none", res |-> "none", dead |-> FALSE]
Answered == {"ok", "err", "gone", "listening", "ready", "failed", "panic"}

FundsInit ==
  /\ call = [r \in Reqs |-> "idle"] /\ live = [r \in Reqs |-> TRUE] /\ got = [r \in Reqs |-> 0]
  /\ reqQueue = {} /\ spawned = FALSE /\ task = NoTask
  /\ chans = [m \in MsgIds |-> NoChan] /\ infos = [m \in MsgIds |-> NoInfo]
  /\ msgs = << >> /\ wait = [m \in MsgIds |-> NoWait]
  /\ fup = TRUE /\ fcrashes = 0

\* The accessor's lock is free.
Unlocked == fup /\ task = NoTask

Sum(S) == SumFunctionOnSet(Amt, S)

\* A read or write of the store with a context that may be dead.
StoreFails(dead) == dead /\ StoreHonoursCtx

-----------------------------------------------------------------------------
(* The caller of getPaych.                                                   *)

GetPaych(r) ==
  /\ Unlocked /\ call[r] = "idle"
  /\ call' = [call EXCEPT ![r] = "queued"]
  /\ reqQueue' = reqQueue \cup {r} /\ spawned' = TRUE
  /\ UNCHANGED <<live, got, task, records, msgs, wait, fproc>>

\* The context of the request ends: the caller gives up, or its call has returned.
CtxDone(r) ==
  /\ fup /\ call[r] # "idle" /\ live[r]
  /\ live' = [live EXCEPT ![r] = FALSE]
  /\ UNCHANGED <<call, got, reqQueue, spawned, task, records, msgs, wait, fproc>>

\* freq.cancel() and checkActive: the merge of the request dies when none of
\* its requests is active.
CallerCancelled(r) ==
  /\ fup /\ call[r] = "queued" /\ ~live[r]
  /\ call' = [call EXCEPT ![r] = "gone"]
  /\ LET AllDone(S) == r \in S /\ \A q \in S : ~live[q] IN
     /\ task' = [task EXCEPT !.dead = @ \/ AllDone(task.reqs)]
     /\ wait' = [m \in MsgIds |-> IF m <= Len(msgs) /\ wait[m].at # "none"
                                  THEN [wait[m] EXCEPT !.dead = @ \/ AllDone(msgs[m].reqs)]
                                  ELSE wait[m]]
  /\ UNCHANGED <<live, got, reqQueue, spawned, records, msgs, fproc>>

-----------------------------------------------------------------------------
(* processQueue.                                                             *)

\* OutboundActiveByFromTo.
ActiveChans == {c \in MsgIds : chans[c].state = "saved" /\ ~chans[c].settling}

\* filterQueue, newMergedFundsReq and processTask up to the message: nothing is
\* sent when no active request asks for funds, or when a message is on its way.
RunQueue ==
  LET q == {r \in reqQueue : live[r]}
      amt == Sum(q)
      waiting == \E c \in ActiveChans : chans[c].create # 0 \/ chans[c].addf # 0
  IN  /\ reqQueue' = q
      /\ task' = IF amt = 0 \/ waiting THEN NoTask
                 ELSE [at |-> "push", reqs |-> q, amt |-> amt, dead |-> FALSE,
                       chan |-> IF ActiveChans = {} THEN 0 ELSE CHOOSE c \in ActiveChans : TRUE]

ProcessQueue ==
  /\ Unlocked /\ spawned /\ spawned' = FALSE
  /\ RunQueue
  /\ UNCHANGED <<callers, records, msgs, wait, fproc>>

\* PaychAvailableFunds runs the queue as well.
AvailableFundsCall ==
  /\ Unlocked /\ \E c \in MsgIds : chans[c].channel
  /\ RunQueue
  /\ UNCHANGED <<callers, spawned, records, msgs, wait, fproc>>

\* Mutant: the queue keeps the requests that have been served.
MutantMergedOnComplete(res, m) ==
  /\ reqQueue' = reqQueue /\ task' = NoTask
  /\ LET served == {r \in task.reqs : live[r] /\ call[r] = "queued"} IN
     /\ call' = [r \in Reqs |-> IF r \in served THEN res ELSE call[r]]
     /\ got' = [r \in Reqs |-> IF r \in served THEN m ELSE got[r]]
  /\ UNCHANGED live

\* The queue is cleared and the active requests of the merge get the result.
MergedOnComplete(res, m) ==
  /\ reqQueue' = {} /\ task' = NoTask
  /\ LET served == {r \in task.reqs : live[r] /\ call[r] = "queued"} IN
     /\ call' = [r \in Reqs |-> IF r \in served THEN res ELSE call[r]]
     /\ got' = [r \in Reqs |-> IF r \in served THEN m ELSE got[r]]
  /\ UNCHANGED live

PushMessage ==
  /\ fup /\ task.at = "push"
  /\ \/ /\ Len(msgs) < MaxMsgs
        /\ msgs' = Append(msgs, [kind |-> IF task.chan = 0 THEN "create" ELSE "add",
                                 chan |-> IF task.chan = 0 THEN Len(msgs) + 1 ELSE task.chan,
                                 reqs |-> task.reqs, val |-> task.amt, st |-> "pool"])
        /\ task' = [task EXCEPT !.at = "save"]
        /\ UNCHANGED <<callers, reqQueue>>
     \/ /\ "push" \in NodeFails \/ task.dead \/ Len(msgs) = MaxMsgs
        /\ MergedOnComplete("err", 0) /\ UNCHANGED msgs
  /\ UNCHANGED <<spawned, records, wait, fproc>>

\* CreateChannel saves the channel, then the message; with an error the requests
\* fail and nothing waits for the message.
CreateChannel ==
  /\ fup /\ task.at = "save" /\ task.chan = 0
  /\ LET m == Len(msgs)
         saved == [chans EXCEPT ![m] = [NoChan EXCEPT !.state = "saved", !.create = m, !.pending = task.amt]]
     IN  IF StoreFails(task.dead)
         THEN chans' \in {chans, saved} /\ MergedOnComplete("err", 0) /\ UNCHANGED <<infos, wait>>
         ELSE /\ chans' = saved
              /\ infos' = [infos EXCEPT ![m] = [state |-> "sent", chan |-> m, err |-> FALSE]]
              /\ wait' = [wait EXCEPT ![m] = [at |-> "wait", res |-> "none", dead |-> task.dead]]
              /\ MergedOnComplete("ok", m)
  /\ UNCHANGED <<spawned, msgs, fproc>>

\* addFunds after the message: errors of the two saves are only logged.
SaveAddFunds ==
  /\ fup /\ task.at = "save" /\ task.chan # 0
  /\ LET m == Len(msgs)
         c == task.chan
         saved == [chans EXCEPT ![c].pending = task.amt, ![c].addf = m]
     IN  /\ IF StoreFails(task.dead) THEN chans' \in {chans, saved} /\ UNCHANGED infos
            ELSE /\ chans' = saved
                 /\ infos' = [infos EXCEPT ![m] = [state |-> "sent", chan |-> c, err |-> FALSE]]
         /\ wait' = [wait EXCEPT ![m] = [at |-> "wait", res |-> "none", dead |-> task.dead]]
         /\ MergedOnComplete("ok", m)
  /\ UNCHANGED <<spawned, msgs, fproc>>

-----------------------------------------------------------------------------
(* The goroutine that waits for a message: waitPaychCreateMsg or             *)
(* waitAddFundsMsg, and then msgWaitComplete.                                *)

\* Mutant: a failed add-funds message is added like one that succeeded.
MutantMessageResult(c, m) ==
  IF msgs[m].kind = "create"
  THEN IF msgs[m].st = "fail" THEN NoChan
       ELSE [c EXCEPT !.channel = TRUE, !.amount = c.pending, !.pending = 0, !.create = 0]
  ELSE [c EXCEPT !.amount = @ + c.pending, !.pending = 0, !.addf = 0]

\* The channel record after the message has executed: RemoveChannel when the
\* creation failed.
MessageResult(c, m) ==
  IF msgs[m].kind = "create"
  THEN IF msgs[m].st = "fail" THEN NoChan
       ELSE [c EXCEPT !.channel = TRUE, !.amount = c.pending, !.pending = 0, !.create = 0]
  ELSE [c EXCEPT !.amount = IF msgs[m].st = "ok" THEN @ + c.pending ELSE @,
                 !.pending = 0, !.addf = 0]

WaitReturns(m) ==
  /\ Unlocked /\ wait[m].at = "wait" /\ msgs[m].st # "pool"
  /\ wait' = [wait EXCEPT ![m].at = "complete", ![m].res = msgs[m].st]
  /\ LET c == msgs[m].chan IN
     chans' = IF StoreFails(wait[m].dead) \/ chans[c].state = "none" THEN chans
              ELSE [chans EXCEPT ![c] = MessageResult(@, m)]
  /\ UNCHANGED <<callers, reqQueue, spawned, task, infos, msgs, fproc>>

\* WaitMsg fails in the node: the channel record stays as it is.
WaitFails(m) ==
  /\ fup /\ wait[m].at = "wait" /\ "wait" \in NodeFails
  /\ wait' = [wait EXCEPT ![m].at = "complete", ![m].res = "node"]
  /\ UNCHANGED <<callers, reqQueue, spawned, task, records, msgs, fproc>>

\* Err is only ever set: a later good result does not clear it.
SaveMessageResult(i, res) == [i EXCEPT !.state = "received", !.err = @ \/ res # "ok"]

\* What a listener finds: the error, or the channel of the message.
ListenerResult(m, res) ==
  LET c == infos[m].chan IN
  CASE res # "ok" \/ infos[m].state = "none" \/ chans[c].state = "none" -> "failed"
    [] chans[c].channel -> "ready"
    [] OTHER -> "panic"

\* Mutant: the requests that came in the meantime are not looked at again.
MutantQueueAgain == spawned

\* processQueue runs again when requests wait.
QueueAgain == spawned \/ reqQueue # {}

MsgWaitComplete(m) ==
  /\ Unlocked /\ wait[m].at = "complete"
  /\ wait' = [wait EXCEPT ![m].at = "done"]
  /\ infos' = IF StoreFails(wait[m].dead) \/ infos[m].state = "none" THEN infos
              ELSE [infos EXCEPT ![m] = SaveMessageResult(@, wait[m].res)]
  /\ call' = [r \in Reqs |-> IF call[r] = "listening" /\ got[r] = m
                             THEN ListenerResult(m, wait[m].res) ELSE call[r]]
  /\ spawned' = QueueAgain
  /\ UNCHANGED <<live, got, reqQueue, task, chans, msgs, fproc>>

-----------------------------------------------------------------------------
(* getPaychWaitReady, settling, crashes and the chain.                       *)

GetPaychWaitReady(r) ==
  /\ Unlocked /\ call[r] = "ok"
  /\ LET i == infos[got[r]] IN
     call' = [call EXCEPT ![r] =
       CASE i.state = "none" \/ chans[i.chan].state = "none" \/ i.err -> "failed"
         [] i.state = "received" -> IF chans[i.chan].channel THEN "ready" ELSE "panic"
         [] OTHER -> "listening"]
  /\ UNCHANGED <<live, got, reqQueue, spawned, task, records, msgs, wait, fproc>>

\* settle marks the channel: the next request creates another one.
SettleChannel(c) ==
  /\ Unlocked /\ chans[c].channel /\ ~chans[c].settling
  /\ chans' = [chans EXCEPT ![c].settling = TRUE]
  /\ UNCHANGED <<callers, reqQueue, spawned, task, infos, msgs, wait, fproc>>

\* The process dies, or Stop ends the contexts of all that waits and it exits.
FundsCrash ==
  /\ fup /\ fcrashes < MaxFundsCrash
  /\ fup' = FALSE /\ fcrashes' = fcrashes + 1
  /\ call' = [r \in Reqs |-> IF call[r] \in {"queued", "listening"} THEN "gone" ELSE call[r]]
  /\ reqQueue' = {} /\ spawned' = FALSE /\ task' = NoTask
  /\ wait' = [m \in MsgIds |-> NoWait]
  /\ UNCHANGED <<live, got, records, msgs>>

\* WithPendingAddFunds.
Pending(c) == IF chans[c].state = "none" THEN 0
              ELSE IF chans[c].create # 0 THEN chans[c].create ELSE chans[c].addf

\* Start: restartPending.
FundsStart ==
  /\ ~fup /\ fup' = TRUE
  /\ wait' = [m \in MsgIds |-> IF \E c \in MsgIds : Pending(c) = m
                               THEN [NoWait EXCEPT !.at = "wait"] ELSE NoWait]
  /\ UNCHANGED <<callers, reqQueue, spawned, task, records, msgs, fcrashes>>

\* The chain executes a message.
FundsExec(m) ==
  /\ m <= Len(msgs) /\ msgs[m].st = "pool"
  /\ \E st \in {"ok"} \cup (IF "exec" \in NodeFails THEN {"fail"} ELSE {}) :
       msgs' = [msgs EXCEPT ![m].st = st]
  /\ UNCHANGED <<callers, reqQueue, spawned, task, records, wait, fproc>>

FundsNext ==
  \/ \E r \in Reqs : GetPaych(r) \/ CtxDone(r) \/ CallerCancelled(r) \/ GetPaychWaitReady(r)
  \/ ProcessQueue \/ AvailableFundsCall \/ PushMessage \/ CreateChannel \/ SaveAddFunds
  \/ \E m \in MsgIds : WaitReturns(m) \/ WaitFails(m) \/ MsgWaitComplete(m) \/ FundsExec(m)
                       \/ SettleChannel(m)
  \/ FundsCrash \/ FundsStart

\* Goroutines run and the chain executes messages.
FundsProgress ==
  \/ \E r \in Reqs : CallerCancelled(r)
  \/ ProcessQueue \/ PushMessage \/ CreateChannel \/ SaveAddFunds \/ FundsStart
  \/ \E m \in MsgIds : WaitReturns(m) \/ MsgWaitComplete(m) \/ FundsExec(m)

FundsSpec == FundsInit /\ [][FundsNext]_fundsVars

-----------------------------------------------------------------------------
(* Properties.                                                               *)

FundsTypeOK ==
  /\ call \in [Reqs -> {"idle", "queued"} \cup Answered]
  /\ live \in [Reqs -> BOOLEAN] /\ got \in [Reqs -> 0 .. MaxMsgs]
  /\ reqQueue \subseteq Reqs /\ spawned \in BOOLEAN
  /\ task \in [at : {"none", "push", "save"}, reqs : SUBSET Reqs, amt : Nat, dead : BOOLEAN,
               chan : 0 .. MaxMsgs]
  /\ chans \in [MsgIds -> [state : {"none", "saved"}, channel : BOOLEAN, create : 0 .. MaxMsgs,
                           addf : 0 .. MaxMsgs, amount : Nat, pending : Nat, settling : BOOLEAN]]
  /\ infos \in [MsgIds -> [state : {"none", "sent", "received"}, chan : 0 .. MaxMsgs, err : BOOLEAN]]
  /\ Len(msgs) <= MaxMsgs
  /\ msgs \in Seq([kind : {"create", "add"}, chan : MsgIds, reqs : SUBSET Reqs, val : Nat,
                   st : {"pool", "ok", "fail"}])
  /\ wait \in [MsgIds -> [at : {"none", "wait", "complete", "done"},
                          res : {"none", "ok", "fail", "node"}, dead : BOOLEAN]]
  /\ fup \in BOOLEAN /\ fcrashes \in 0 .. MaxFundsCrash

\* However often the queue is run, restarted after a message, or merged anew, no
\* request is paid for by two messages, a message carries what its requests ask
\* for, and a caller that was given a cid is one of that message's requests.
ChargedOnce ==
  /\ \A m, n \in DOMAIN msgs : m # n => msgs[m].reqs \cap msgs[n].reqs = {}
  /\ \A m \in DOMAIN msgs : msgs[m].val = Sum(msgs[m].reqs)
  /\ \A r \in Reqs : got[r] # 0 => r \in msgs[got[r]].reqs

\* What the messages of S bring to their channels.
Deposited(S) == SumFunctionOnSet([m \in DOMAIN msgs |-> msgs[m].val], S)

\* The confirmed amount of a channel counts every deposit whose message is
\* recorded as received without error, and none that has not executed or is still
\* waited for: with every restart, retry and failure no deposit is counted twice.
ConfirmedIsOnChain ==
  \A c \in MsgIds : chans[c].channel =>
    LET brought == {m \in DOMAIN msgs : msgs[m].chan = c /\ msgs[m].st = "ok" /\ Pending(c) # m}
        received == {m \in brought : infos[m].state = "received" /\ ~infos[m].err}
    IN  chans[c].amount \in Deposited(received) .. Deposited(brought)

\* The wait for a message has ended without clearing it from the channel: the
\* node failed, or the merged request's context was dead.
Stuck == \E c \in MsgIds : LET m == Pending(c) IN
           m # 0 /\ (wait[m].res = "node" \/ wait[m].dead \/ wait[m].at = "none")

\* A request waits in the queue no longer than the message before it, unless that
\* message's wait ended without clearing it: then only a restart helps.
RequestsAnswered ==
  \A r \in Reqs : (call[r] = "queued" /\ Amt[r] > 0) ~> (call[r] \in Answered \/ Stuck)
=============================================================================
