---------------------------- MODULE PaychProofs ----------------------------
(***************************************************************************)
(* Proofs about payment channels: the funds (PaychFunds) and the vouchers  *)
(* (PaychVouchers), for every set of requests and calls, every number of   *)
(* messages and crashes, all lanes, nonces and amounts, both kinds of      *)
(* store and all failures of the node.                                     *)
(*                                                                         *)
(* ChargedOnce follows a request: it enters the queue once, from there it  *)
(* is taken into the merged request that holds the accessor's lock, and    *)
(* the queue is emptied in the step that ends this merged request, before  *)
(* anybody else can see the queue.  Only between the push and that step    *)
(* does the queue hold requests that a message already pays for.           *)
(*                                                                         *)
(* ConfirmedIsOnChain keeps, for every channel, the set of messages that   *)
(* its recorded amount has been raised by: executed deposits into this     *)
(* channel, each of which was the pending one of the record and is so only *)
(* once.                                                                   *)
(*                                                                         *)
(* AcceptedVoucherKept alone is not inductive: what a call will write      *)
(* matters as much as what is stored.  The strengthening says how the      *)
(* locks guard the record.  A call holds a lock exactly while it is about  *)
(* to save, no two calls hold the same one, and on an outbound channel all *)
(* calls use one lock, so the copy that is about to be written holds all   *)
(* that is stored.  On an inbound channel two locks guard the record and   *)
(* only a save of the other accessor can undo a voucher.                   *)
(*                                                                         *)
(* VouchersCovered and SettlerRedeems compare the stored vouchers of a     *)
(* lane with the one of the highest nonce: on a lane a higher nonce is     *)
(* worth more, so the sum of the best vouchers is what the channel owes.   *)
(***************************************************************************)
EXTENDS PaychFunds, PaychVouchers, SumLemmas, TLAPS
-----------------------------------------------------------------------------
(* The funds of a channel: ChargedOnce.                                      *)

\* What a sum of amounts can be; that it is a natural number plays no part here.
AskedAmounts == {Sum(S) : S \in SUBSET Reqs} \cup {0}

Message == [kind : {"create", "add"}, chan : MsgIds, reqs : SUBSET Reqs, val : AskedAmounts,
            st : {"pool", "ok", "fail"}]

Task == [at : {"none", "push", "save"}, reqs : SUBSET Reqs, amt : AskedAmounts, dead : BOOLEAN,
         chan : 0 .. MaxMsgs]

FundsShape ==
  /\ call \in [Reqs -> {"idle", "queued"} \cup Answered]
  /\ got \in [Reqs -> Nat]
  /\ reqQueue \in SUBSET Reqs /\ task \in Task
  /\ msgs \in Seq(Message) /\ Len(msgs) <= MaxMsgs

\* The requests of all messages.
Charged == UNION {msgs[m].reqs : m \in 1 .. Len(msgs)}

\* A caller that has not asked is nowhere.
IdleNowhere == \A r \in Reqs : call[r] = "idle" => r \notin reqQueue \cup Charged

\* The merged request is taken from the queue, and its amount is what it asks for.
TaskFromQueue ==
  /\ task.reqs \subseteq reqQueue
  /\ task.at # "none" => task.amt = Sum(task.reqs)

\* The queue holds nothing that is paid for, but for the merged request whose
\* message has just been pushed: it is the last one.
QueueUncharged == task.at # "save" => reqQueue \cap Charged = {}

PushedIsLast == task.at = "save" => Len(msgs) > 0 /\ msgs[Len(msgs)].reqs = task.reqs

MessagesDisjoint ==
  \A m, n \in 1 .. Len(msgs) : m # n => msgs[m].reqs \cap msgs[n].reqs = {}

MessagesExact == \A m \in 1 .. Len(msgs) : msgs[m].val = Sum(msgs[m].reqs)

GotIsCharged == \A r \in Reqs : got[r] # 0 => got[r] \in 1 .. Len(msgs) /\ r \in msgs[got[r]].reqs

FundsInv ==
  /\ FundsShape /\ IdleNowhere /\ TaskFromQueue /\ QueueUncharged /\ PushedIsLast
  /\ MessagesDisjoint /\ MessagesExact /\ GotIsCharged

-----------------------------------------------------------------------------

\* No caller has asked and nothing is pushed when the process first starts.
LEMMA FundsInitInv == FundsInit => FundsInv
<1> SUFFICES ASSUME FundsInit PROVE FundsInv
  OBVIOUS
<1> USE PaychFundsAssumption
<1>1. FundsShape
  BY DEF FundsInit, FundsShape, Task, NoTask, AskedAmounts
<1>2. Len(msgs) = 0
  BY DEF FundsInit
<1>3. Charged = {}
  BY <1>2 DEF Charged
<1>4. IdleNowhere /\ TaskFromQueue /\ QueueUncharged /\ PushedIsLast
  BY <1>3 DEF FundsInit, IdleNowhere, TaskFromQueue, QueueUncharged, PushedIsLast, NoTask
<1>5. MessagesDisjoint /\ MessagesExact /\ GotIsCharged
  BY <1>2 DEF FundsInit, MessagesDisjoint, MessagesExact, GotIsCharged
<1>. QED
  BY <1>1, <1>4, <1>5 DEF FundsInv

\* A step that leaves the queue, the merged request but for its context, the
\* cids that were handed out and the content of the messages alone, and takes
\* no caller back to where it has not asked, keeps the invariant.
LEMMA QuietStep ==
  ASSUME FundsInv, UNCHANGED <<got, reqQueue>>,
         call' \in [Reqs -> {"idle", "queued"} \cup Answered],
         \A r \in Reqs : call'[r] = "idle" => call[r] = "idle",
         task' \in Task, task'.at = task.at, task'.reqs = task.reqs, task'.amt = task.amt,
         msgs' \in Seq(Message), Len(msgs') = Len(msgs),
         \A m \in 1 .. Len(msgs) : msgs'[m].reqs = msgs[m].reqs /\ msgs'[m].val = msgs[m].val
  PROVE  FundsInv'
<1>1. Charged' = Charged
  BY DEF Charged
<1>2. FundsShape'
  BY DEF FundsInv, FundsShape
<1>3. IdleNowhere'
  BY <1>1 DEF FundsInv, IdleNowhere
<1>4. TaskFromQueue' /\ QueueUncharged'
  BY <1>1 DEF FundsInv, TaskFromQueue, QueueUncharged
<1>5. PushedIsLast'
  BY DEF FundsInv, FundsShape, PushedIsLast
<1>6. MessagesDisjoint'
  BY DEF FundsInv, MessagesDisjoint
<1>7. MessagesExact'
  BY DEF FundsInv, MessagesExact
<1>8. GotIsCharged'
  BY DEF FundsInv, GotIsCharged
<1>. QED
  BY <1>2, <1>3, <1>4, <1>5, <1>6, <1>7, <1>8 DEF FundsInv

\* Nobody's call moves, no message is pushed: most steps of the waiting
\* goroutines and of the chain are of this kind.
LEMMA StillStep ==
  ASSUME FundsInv, UNCHANGED <<call, got, reqQueue, task, msgs>>
  PROVE  FundsInv'
<1>1. call' \in [Reqs -> {"idle", "queued"} \cup Answered] /\ task' \in Task /\ msgs' \in Seq(Message)
  BY DEF FundsInv, FundsShape
<1>. QED
  BY <1>1, QuietStep

\* A new request joins the queue while nobody holds the lock.
LEMMA GetPaychInv == ASSUME FundsInv, NEW r \in Reqs, GetPaych(r) PROVE FundsInv'
<1> USE DEF GetPaych, Unlocked
<1>1. /\ call' = [call EXCEPT ![r] = "queued"] /\ reqQueue' = reqQueue \cup {r}
      /\ UNCHANGED <<got, task, msgs>> /\ task = NoTask /\ call[r] = "idle"
  OBVIOUS
<1>2. Charged' = Charged
  BY <1>1 DEF Charged
<1>3. FundsShape'
  BY <1>1 DEF FundsInv, FundsShape
<1>4. IdleNowhere'
  BY <1>1, <1>2 DEF FundsInv, FundsShape, IdleNowhere
<1>5. r \notin Charged
  BY <1>1 DEF FundsInv, IdleNowhere
<1>6. TaskFromQueue' /\ QueueUncharged' /\ PushedIsLast'
  BY <1>1, <1>2, <1>5 DEF FundsInv, TaskFromQueue, QueueUncharged, PushedIsLast, NoTask
<1>7. MessagesDisjoint' /\ MessagesExact' /\ GotIsCharged'
  BY <1>1 DEF FundsInv, MessagesDisjoint, MessagesExact, GotIsCharged
<1>. QED
  BY <1>3, <1>4, <1>6, <1>7 DEF FundsInv

\* A caller that gives up changes only the contexts.
LEMMA CallerCancelledInv == ASSUME FundsInv, NEW r \in Reqs, CallerCancelled(r) PROVE FundsInv'
<1>1. /\ call' = [call EXCEPT ![r] = "gone"] /\ UNCHANGED <<got, reqQueue, msgs>>
      /\ task' = [task EXCEPT !.dead = @ \/ (r \in task.reqs /\ \A q \in task.reqs : ~live[q])]
  BY DEF CallerCancelled
<1>2. call' \in [Reqs -> {"idle", "queued"} \cup Answered] /\ \A q \in Reqs : call'[q] = "idle" => call[q] = "idle"
  BY <1>1 DEF FundsInv, FundsShape, Answered
<1>3. task \in Task /\ msgs \in Seq(Message)
  BY DEF FundsInv, FundsShape
<1> DEFINE d == task.dead \/ (r \in task.reqs /\ \A q \in task.reqs : ~live[q])
<1>4. task' = [task EXCEPT !.dead = d] /\ d \in BOOLEAN
  BY <1>1, <1>3 DEF Task
<1> HIDE DEF d
<1>5. task' \in Task /\ task'.at = task.at /\ task'.reqs = task.reqs /\ task'.amt = task.amt
  BY <1>3, <1>4 DEF Task
<1>. QED
  BY <1>1, <1>2, <1>3, <1>5, QuietStep

\* Cancelled requests leave the queue, and what remains is merged or waits.
LEMMA RunQueueInv ==
  ASSUME FundsInv, task = NoTask, RunQueue, UNCHANGED <<call, got, msgs>>
  PROVE  FundsInv'
<1> DEFINE q == {r \in reqQueue : live[r]}
           ch == IF ActiveChans = {} THEN 0 ELSE CHOOSE c \in ActiveChans : TRUE
<1>1. /\ reqQueue' = q
      /\ \/ task' = NoTask
         \/ task' = [at |-> "push", reqs |-> q, amt |-> Sum(q), dead |-> FALSE, chan |-> ch]
  BY DEF RunQueue
<1>2. ch \in 0 .. MaxMsgs
  <2>1. ActiveChans \subseteq 1 .. MaxMsgs
    BY DEF ActiveChans, MsgIds
  <2>2. CASE ActiveChans = {}
    BY <2>2, PaychFundsAssumption
  <2>3. CASE ActiveChans # {}
    <3>1. ch = CHOOSE c \in ActiveChans : TRUE
      BY <2>3
    <3>2. PICK c : c \in ActiveChans
      BY <2>3
    <3>3. (CHOOSE c1 \in ActiveChans : TRUE) \in ActiveChans
      BY <3>2, Zenon
    <3>4. ch \in ActiveChans
      BY <3>1, <3>3
    <3> HIDE DEF ch
    <3>. QED
      BY <2>1, <3>4
  <2>. QED
    BY <2>2, <2>3
<1>3. q \subseteq reqQueue /\ reqQueue \subseteq Reqs
  BY DEF FundsInv, FundsShape
<1>4. Charged' = Charged
  BY DEF Charged
<1> HIDE DEF ch, q
<1>5. /\ task'.at \in {"none", "push"} /\ task'.reqs \subseteq q
      /\ task'.at # "none" => task'.amt = Sum(task'.reqs)
  BY <1>1 DEF NoTask
<1>6. task' \in Task
  <2>1. Sum(q) \in AskedAmounts /\ 0 \in AskedAmounts
    BY <1>3 DEF AskedAmounts
  <2>2. NoTask \in Task
    BY <2>1, PaychFundsAssumption DEF Task, NoTask
  <2>3. [at |-> "push", reqs |-> q, amt |-> Sum(q), dead |-> FALSE, chan |-> ch] \in Task
    BY <1>2, <1>3, <2>1 DEF Task
  <2>. QED
    BY <1>1, <2>2, <2>3
<1>7. FundsShape'
  BY <1>1, <1>3, <1>6 DEF FundsInv, FundsShape
<1>8. IdleNowhere' /\ TaskFromQueue'
  BY <1>1, <1>3, <1>4, <1>5 DEF FundsInv, IdleNowhere, TaskFromQueue
<1>9. QueueUncharged' /\ PushedIsLast'
  BY <1>1, <1>3, <1>4, <1>5 DEF FundsInv, QueueUncharged, PushedIsLast, NoTask
<1>10. MessagesDisjoint' /\ MessagesExact' /\ GotIsCharged'
  BY DEF FundsInv, MessagesDisjoint, MessagesExact, GotIsCharged
<1>. QED
  BY <1>7, <1>8, <1>9, <1>10 DEF FundsInv

\* The end of the merged request empties the queue; a caller gets the cid of a
\* message only if its request is one of those the message pays for.
LEMMA CompleteInv ==
  ASSUME FundsInv, NEW res \in {"ok", "err"}, NEW m \in Nat, MergedOnComplete(res, m), UNCHANGED msgs,
         m # 0 => task.at = "save" /\ m = Len(msgs)
  PROVE  FundsInv'
<1> DEFINE served == {r \in task.reqs : live[r] /\ call[r] = "queued"}
<1>1. /\ reqQueue' = {} /\ task' = NoTask /\ UNCHANGED msgs
      /\ call' = [r \in Reqs |-> IF r \in served THEN res ELSE call[r]]
      /\ got' = [r \in Reqs |-> IF r \in served THEN m ELSE got[r]]
  BY DEF MergedOnComplete
<1>2. served \subseteq task.reqs
  OBVIOUS
<1> HIDE DEF served
<1>3. Charged' = Charged
  BY <1>1 DEF Charged
<1>4. FundsShape'
  <2>1. NoTask \in Task
    BY PaychFundsAssumption DEF NoTask, Task, AskedAmounts
  <2>. QED
    BY <1>1, <2>1 DEF FundsInv, FundsShape, Answered
<1>5. IdleNowhere'
  BY <1>1, <1>3 DEF FundsInv, IdleNowhere
<1>6. TaskFromQueue' /\ QueueUncharged' /\ PushedIsLast'
  BY <1>1 DEF TaskFromQueue, QueueUncharged, PushedIsLast, NoTask
<1>7. MessagesDisjoint' /\ MessagesExact'
  BY <1>1 DEF FundsInv, MessagesDisjoint, MessagesExact
<1>8. GotIsCharged'
  <2> SUFFICES ASSUME NEW r \in Reqs, got'[r] # 0
               PROVE  got'[r] \in 1 .. Len(msgs) /\ r \in msgs[got'[r]].reqs
    BY <1>1 DEF GotIsCharged
  <2>1. CASE r \in served
    <3>1. got'[r] = m /\ m # 0 /\ task.at = "save" /\ m = Len(msgs)
      BY <1>1, <2>1
    <3>2. Len(msgs) > 0 /\ msgs[Len(msgs)].reqs = task.reqs
      BY <3>1 DEF FundsInv, PushedIsLast
    <3>. QED
      BY <1>2, <2>1, <3>1, <3>2
  <2>2. CASE r \notin served
    BY <1>1, <2>2 DEF FundsInv, GotIsCharged
  <2>. QED
    BY <2>1, <2>2
<1>. QED
  BY <1>4, <1>5, <1>6, <1>7, <1>8 DEF FundsInv

\* The push is the one step that charges requests, and it charges those of the
\* merged request: no earlier message has one of them.
LEMMA PushInv ==
  ASSUME FundsInv, task.at = "push", Len(msgs) < MaxMsgs, UNCHANGED <<call, got, reqQueue>>,
         msgs' = Append(msgs, [kind |-> IF task.chan = 0 THEN "create" ELSE "add",
                               chan |-> IF task.chan = 0 THEN Len(msgs) + 1 ELSE task.chan,
                               reqs |-> task.reqs, val |-> task.amt, st |-> "pool"]),
         task' = [task EXCEPT !.at = "save"]
  PROVE  FundsInv'
<1> DEFINE new == [kind |-> IF task.chan = 0 THEN "create" ELSE "add",
                   chan |-> IF task.chan = 0 THEN Len(msgs) + 1 ELSE task.chan,
                   reqs |-> task.reqs, val |-> task.amt, st |-> "pool"]
<1>1. task \in Task /\ msgs \in Seq(Message) /\ reqQueue \subseteq Reqs /\ Len(msgs) \in Nat
  BY DEF FundsInv, FundsShape
<1>2. new \in Message /\ new.reqs = task.reqs /\ new.val = task.amt
  BY <1>1, PaychFundsAssumption DEF Message, Task, MsgIds
<1>3. msgs' = Append(msgs, new)
  OBVIOUS
<1> HIDE DEF new
<1>4. /\ msgs' \in Seq(Message) /\ Len(msgs') = Len(msgs) + 1
      /\ \A m \in 1 .. Len(msgs) : msgs'[m] = msgs[m]
      /\ msgs'[Len(msgs) + 1] = new
  BY <1>1, <1>2, <1>3
<1>5. task' \in Task /\ task'.at = "save" /\ task'.reqs = task.reqs /\ task'.amt = task.amt
  BY <1>1 DEF Task
<1>6. task.reqs \subseteq reqQueue /\ task.amt = Sum(task.reqs) /\ reqQueue \cap Charged = {}
  BY DEF FundsInv, TaskFromQueue, QueueUncharged
<1>7. Charged' \subseteq Charged \cup task.reqs
  <2> SUFFICES ASSUME NEW r \in Charged', r \notin task.reqs PROVE r \in Charged
    OBVIOUS
  <2>1. PICK m \in 1 .. Len(msgs') : r \in msgs'[m].reqs
    BY DEF Charged
  <2>2. m \in 1 .. Len(msgs)
    BY <1>1, <1>2, <1>4, <2>1
  <2>. QED
    BY <1>4, <2>1, <2>2 DEF Charged
<1>8. FundsShape'
  <2>1. Len(msgs') <= MaxMsgs
    BY <1>1, <1>4, PaychFundsAssumption
  <2>. QED
    BY <1>4, <1>5, <2>1 DEF FundsInv, FundsShape
<1>9. IdleNowhere'
  BY <1>6, <1>7 DEF FundsInv, IdleNowhere
<1>10. TaskFromQueue' /\ QueueUncharged'
  BY <1>5, <1>6 DEF TaskFromQueue, QueueUncharged
<1>11. PushedIsLast'
  BY <1>1, <1>2, <1>4, <1>5 DEF PushedIsLast
<1>12. \A m \in 1 .. Len(msgs) : msgs[m].reqs \cap task.reqs = {}
  BY <1>6 DEF Charged
<1>13. MessagesDisjoint'
  <2> SUFFICES ASSUME NEW m \in 1 .. Len(msgs'), NEW n \in 1 .. Len(msgs'), m # n
               PROVE  msgs'[m].reqs \cap msgs'[n].reqs = {}
    BY DEF MessagesDisjoint
  <2>1. \A k \in 1 .. Len(msgs') : k \in 1 .. Len(msgs) \/ k = Len(msgs) + 1
    BY <1>1, <1>4
  <2>2. CASE m \in 1 .. Len(msgs) /\ n \in 1 .. Len(msgs)
    BY <1>4, <2>2 DEF FundsInv, MessagesDisjoint
  <2>3. CASE m \in 1 .. Len(msgs) /\ n = Len(msgs) + 1
    BY <1>2, <1>4, <1>12, <2>3
  <2>4. CASE m = Len(msgs) + 1 /\ n \in 1 .. Len(msgs)
    BY <1>2, <1>4, <1>12, <2>4
  <2>. QED
    BY <2>1, <2>2, <2>3, <2>4
<1>14. MessagesExact'
  <2> SUFFICES ASSUME NEW m \in 1 .. Len(msgs') PROVE msgs'[m].val = Sum(msgs'[m].reqs)
    BY DEF MessagesExact
  <2>1. CASE m \in 1 .. Len(msgs)
    BY <1>4, <2>1 DEF FundsInv, MessagesExact
  <2>2. CASE m = Len(msgs) + 1
    BY <1>2, <1>4, <1>6, <2>2
  <2>. QED
    BY <1>1, <1>4, <2>1, <2>2
<1>15. GotIsCharged'
  BY <1>1, <1>4 DEF FundsInv, GotIsCharged
<1>. QED
  BY <1>8, <1>9, <1>10, <1>11, <1>13, <1>14, <1>15 DEF FundsInv

\* A crash loses the queue and the merged request, never what was pushed.
LEMMA FundsCrashInv == ASSUME FundsInv, FundsCrash PROVE FundsInv'
<1>1. /\ call' = [r \in Reqs |-> IF call[r] \in {"queued", "listening"} THEN "gone" ELSE call[r]]
      /\ reqQueue' = {} /\ task' = NoTask /\ UNCHANGED <<got, msgs>>
  BY DEF FundsCrash
<1>2. Charged' = Charged
  BY <1>1 DEF Charged
<1>3. NoTask \in Task
  BY PaychFundsAssumption DEF NoTask, Task, AskedAmounts
<1>4. FundsShape'
  BY <1>1, <1>3 DEF FundsInv, FundsShape, Answered
<1>5. IdleNowhere' /\ TaskFromQueue' /\ QueueUncharged' /\ PushedIsLast'
  BY <1>1, <1>2 DEF FundsInv, IdleNowhere, TaskFromQueue, QueueUncharged, PushedIsLast, NoTask
<1>6. MessagesDisjoint' /\ MessagesExact' /\ GotIsCharged'
  BY <1>1 DEF FundsInv, MessagesDisjoint, MessagesExact, GotIsCharged
<1>. QED
  BY <1>4, <1>5, <1>6 DEF FundsInv

\* What a listener or a caller that asks for the channel is told.
LEMMA CallersMoveInv ==
  ASSUME FundsInv, UNCHANGED <<got, reqQueue, task, msgs>>,
         call' \in [Reqs -> {"idle", "queued"} \cup Answered],
         \A r \in Reqs : call'[r] = "idle" => call[r] = "idle"
  PROVE  FundsInv'
<1>1. task' \in Task /\ msgs' \in Seq(Message)
  BY DEF FundsInv, FundsShape
<1>. QED
  BY <1>1, QuietStep

\* The execution of a message changes only its status.
LEMMA FundsExecInv == ASSUME FundsInv, NEW m \in MsgIds, FundsExec(m) PROVE FundsInv'
<1>1. PICK st \in {"ok", "fail"} : msgs' = [msgs EXCEPT ![m].st = st]
  BY DEF FundsExec
<1>2. /\ msgs \in Seq(Message) /\ m \in 1 .. Len(msgs) /\ task \in Task
      /\ call \in [Reqs -> {"idle", "queued"} \cup Answered]
  BY DEF FundsInv, FundsShape, FundsExec, MsgIds
<1>3. PICK new : new = [msgs[m] EXCEPT !.st = st]
  OBVIOUS
<1>4. msgs[m] \in Message
  BY <1>2
<1>5. new \in Message /\ new.reqs = msgs[m].reqs /\ new.val = msgs[m].val
  BY <1>3, <1>4 DEF Message
<1>6. msgs' = [msgs EXCEPT ![m] = new]
  BY <1>1, <1>3
<1>7. /\ msgs' \in Seq(Message) /\ Len(msgs') = Len(msgs)
      /\ \A n \in 1 .. Len(msgs) : msgs'[n] = IF n = m THEN new ELSE msgs[n]
  BY <1>2, <1>5, <1>6
<1>8. \A n \in 1 .. Len(msgs) : msgs'[n].reqs = msgs[n].reqs /\ msgs'[n].val = msgs[n].val
  BY <1>5, <1>7
<1>9. UNCHANGED <<got, reqQueue, call, task>>
  BY DEF FundsExec, callers
<1>. QED
  BY <1>2, <1>7, <1>8, <1>9, QuietStep

\* Every step keeps the invariant.
LEMMA FundsNextInv == FundsInv /\ [FundsNext]_fundsVars => FundsInv'
<1> SUFFICES ASSUME FundsInv, [FundsNext]_fundsVars PROVE FundsInv'
  OBVIOUS
<1>1. CASE UNCHANGED fundsVars
  BY <1>1, StillStep DEF fundsVars
<1>2. ASSUME NEW r \in Reqs, GetPaych(r) PROVE FundsInv'
  BY <1>2, GetPaychInv
<1>3. ASSUME NEW r \in Reqs, CtxDone(r) PROVE FundsInv'
  BY <1>3, StillStep DEF CtxDone
<1>4. ASSUME NEW r \in Reqs, CallerCancelled(r) PROVE FundsInv'
  BY <1>4, CallerCancelledInv
<1>5. ASSUME NEW r \in Reqs, GetPaychWaitReady(r) PROVE FundsInv'
  <2> DEFINE i == infos[got[r]]
             gone == i.state = "none" \/ chans[i.chan].state = "none" \/ i.err
             told == CASE gone -> "failed"
                       [] i.state = "received" -> IF chans[i.chan].channel THEN "ready" ELSE "panic"
                       [] OTHER -> "listening"
  <2>0. told \in {"failed", "ready", "panic", "listening"}
    OBVIOUS
  <2>a. call' = [call EXCEPT ![r] = told]
    BY <1>5 DEF GetPaychWaitReady
  <2>1. PICK x \in {"failed", "ready", "panic", "listening"} : call' = [call EXCEPT ![r] = x]
    BY <2>0, <2>a
  <2>2. UNCHANGED <<got, reqQueue, task, msgs>>
    BY <1>5 DEF GetPaychWaitReady
  <2>3. call' \in [Reqs -> {"idle", "queued"} \cup Answered] /\ \A q \in Reqs : call'[q] = "idle" => call[q] = "idle"
    BY <2>1 DEF FundsInv, FundsShape, Answered
  <2>. QED
    BY <2>2, <2>3, CallersMoveInv
<1>6. CASE ProcessQueue
  BY <1>6, RunQueueInv DEF ProcessQueue, Unlocked, callers
<1>7. CASE AvailableFundsCall
  BY <1>7, RunQueueInv DEF AvailableFundsCall, Unlocked, callers
<1>8. CASE PushMessage
  <2>1. ASSUME MergedOnComplete("err", 0), UNCHANGED msgs PROVE FundsInv'
    BY <2>1, CompleteInv
  <2>. QED
    BY <1>8, <2>1, PushInv DEF PushMessage, callers
<1>9. CASE CreateChannel
  <2>1. Len(msgs) \in Nat /\ UNCHANGED msgs /\ task.at = "save"
    BY <1>9 DEF CreateChannel, FundsInv, FundsShape
  <2>2. MergedOnComplete("err", 0) \/ MergedOnComplete("ok", Len(msgs))
    BY <1>9 DEF CreateChannel
  <2>. QED
    BY <2>1, <2>2, CompleteInv
<1>10. CASE SaveAddFunds
  <2>1. Len(msgs) \in Nat /\ UNCHANGED msgs /\ task.at = "save"
    BY <1>10 DEF SaveAddFunds, FundsInv, FundsShape
  <2>2. MergedOnComplete("ok", Len(msgs))
    BY <1>10 DEF SaveAddFunds
  <2>. QED
    BY <2>1, <2>2, CompleteInv
<1>11. ASSUME NEW m \in MsgIds, WaitReturns(m) \/ WaitFails(m) \/ SettleChannel(m) PROVE FundsInv'
  BY <1>11, StillStep DEF WaitReturns, WaitFails, SettleChannel, callers
<1>12. ASSUME NEW m \in MsgIds, MsgWaitComplete(m) PROVE FundsInv'
  <2>1. ListenerResult(m, wait[m].res) \in {"failed", "ready", "panic"}
    BY DEF ListenerResult
  <2>2. PICK x : x = ListenerResult(m, wait[m].res)
    OBVIOUS
  <2>3. call' = [r \in Reqs |-> IF call[r] = "listening" /\ got[r] = m THEN x ELSE call[r]]
    BY <1>12, <2>2 DEF MsgWaitComplete
  <2>4. UNCHANGED <<got, reqQueue, task, msgs>>
    BY <1>12 DEF MsgWaitComplete
  <2>5. call' \in [Reqs -> {"idle", "queued"} \cup Answered] /\ \A q \in Reqs : call'[q] = "idle" => call[q] = "idle"
    BY <2>1, <2>2, <2>3 DEF FundsInv, FundsShape, Answered
  <2>. QED
    BY <2>4, <2>5, CallersMoveInv
<1>13. ASSUME NEW m \in MsgIds, FundsExec(m) PROVE FundsInv'
  BY <1>13, FundsExecInv
<1>14. CASE FundsCrash
  BY <1>14, FundsCrashInv
<1>15. CASE FundsStart
  BY <1>15, StillStep DEF FundsStart, callers
<1>. QED
  BY <1>1, <1>2, <1>3, <1>4, <1>5, <1>6, <1>7, <1>8, <1>9, <1>10, <1>11, <1>12, <1>13, <1>14, <1>15
  DEF FundsNext

\* ChargedOnce: no request of getPaych is paid for by two messages, a message
\* carries the sum its requests ask for, and a cid is handed only to a request of
\* its message, whatever is cancelled, fails, crashes or waits.
THEOREM FundsChargedOnce == FundsSpec => []ChargedOnce
<1>1. FundsInit => FundsInv
  BY FundsInitInv
<1>2. FundsInv /\ [FundsNext]_fundsVars => FundsInv'
  BY FundsNextInv
<1>3. FundsInv => ChargedOnce
  <2> SUFFICES ASSUME FundsInv PROVE ChargedOnce
    OBVIOUS
  <2>1. DOMAIN msgs = 1 .. Len(msgs)
    BY DEF FundsInv, FundsShape
  <2>. QED
    BY <2>1 DEF FundsInv, ChargedOnce, MessagesDisjoint, MessagesExact, GotIsCharged
<1>. QED
  BY <1>1, <1>2, <1>3, PTL DEF FundsSpec

-----------------------------------------------------------------------------
(* ConfirmedIsOnChain: the argument keeps, for every channel, the set of the *)
(* messages its amount has been raised by.                                   *)

Channel == [state : {"none", "saved"}, channel : BOOLEAN, create : Nat, addf : Nat,
            amount : Nat, pending : Nat, settling : BOOLEAN]
Info == [state : {"none", "sent", "received"}, chan : Nat, err : BOOLEAN]
Wait == [at : {"none", "wait", "complete", "done"}, res : {"none", "ok", "fail", "node"}, dead : BOOLEAN]

RecordsShape ==
  chans \in [MsgIds -> Channel] /\ infos \in [MsgIds -> Info] /\ wait \in [MsgIds -> Wait]

\* A channel record waits for the message that creates it until it has an
\* address, and only then for messages that add to it.
ChanShape(c) ==
  /\ chans[c].state = "none" => chans[c] = NoChan
  /\ chans[c].state # "none" => c <= Len(msgs)
  /\ chans[c].create \in {0, c}
  /\ chans[c].create = c <=> chans[c].state # "none" /\ ~chans[c].channel
  /\ chans[c].create = c => chans[c].addf = 0

\* The message a channel waits for was pushed for it, and the pending amount is
\* what it carries.
PendingKnown(c) ==
  Pending(c) # 0 =>
    /\ Pending(c) \in 1 .. Len(msgs) /\ msgs[Pending(c)].chan = c
    /\ chans[c].pending = msgs[Pending(c)].val
    /\ msgs[Pending(c)].kind = "create" <=> chans[c].create # 0

\* A message creates the channel of its own number, or adds to one that has an
\* address.
MessageKind(m) ==
  /\ msgs[m].kind = "create" => msgs[m].chan = m
  /\ msgs[m].kind = "add" => msgs[m].chan # m /\ chans[msgs[m].chan].channel

\* A wait whose saves the store will take, and one that has ended well.
Working(m) == wait[m].at = "wait" /\ ~StoreFails(wait[m].dead)
Found(m) == wait[m].at = "complete" /\ wait[m].res = "ok" /\ ~StoreFails(wait[m].dead)

\* A message that is recorded as received without error.
Good(m) == infos[m].state = "received" /\ ~infos[m].err

\* A wait whose saves the store takes is for the message its channel waits for.
WaitPending(m) ==
  /\ wait[m].at # "none" => m <= Len(msgs)
  /\ Working(m) => Pending(msgs[m].chan) = m

InfoPushed(m) == infos[m].state # "none" => m <= Len(msgs)

\* While the lock is held the channel to add to waits for nothing, and nothing
\* is known of the message just pushed.
TaskFree ==
  /\ ~fup => task.at = "none"
  /\ task.at # "none" /\ task.chan # 0 => chans[task.chan].channel /\ Pending(task.chan) = 0
  /\ task.at = "save" =>
       /\ Len(msgs) > 0 /\ msgs[Len(msgs)].val = task.amt
       /\ infos[Len(msgs)].state = "none" /\ wait[Len(msgs)].at = "none"
       /\ chans[Len(msgs)].state = "none"
       /\ task.chan = 0 => msgs[Len(msgs)].kind = "create"
       /\ task.chan # 0 => msgs[Len(msgs)].kind = "add" /\ msgs[Len(msgs)].chan = task.chan

\* S is the set of the messages that channel c counts: it has executed them all,
\* and it misses none that a wait has found, or a record says, to be good.
Counts(c, S) ==
  /\ \A m \in S : msgs[m].chan = c /\ msgs[m].st = "ok" /\ Pending(c) # m
  /\ \A m \in 1 .. Len(msgs) : msgs[m].chan = c /\ (Good(m) \/ Found(m)) => m \in S
  /\ task.at = "save" => Len(msgs) \notin S
  /\ chans[c].amount = Deposited(S)

Confirmed(c) == chans[c].channel => \E S \in SUBSET (1 .. Len(msgs)) : Counts(c, S)

ChannelsKnown == \A c \in MsgIds : ChanShape(c) /\ PendingKnown(c) /\ InfoPushed(c) /\ WaitPending(c)

ConfirmInv ==
  /\ RecordsShape /\ ChannelsKnown /\ TaskFree
  /\ \A m \in 1 .. Len(msgs) : MessageKind(m)
  /\ \A c \in MsgIds : Confirmed(c)

-----------------------------------------------------------------------------

\* What every step leaves alone in the messages that are already pushed.
MessagesKept ==
  /\ Len(msgs') >= Len(msgs)
  /\ \A m \in 1 .. Len(msgs) :
       /\ msgs'[m].chan = msgs[m].chan /\ msgs'[m].val = msgs[m].val /\ msgs'[m].kind = msgs[m].kind
       /\ msgs[m].st = "ok" => msgs'[m].st = "ok"

\* What is asked for is a natural number.
LEMMA AskedIsNat == AskedAmounts \subseteq Nat
<1>1. ASSUME NEW S \in SUBSET Reqs PROVE Sum(S) \in Nat
  <2>1. NatOn(Amt, S)
    BY PaychFundsAssumption, FS_Subset DEF NatOn
  <2>. QED
    BY <2>1, SumNat DEF Sum
<1>. QED
  BY <1>1 DEF AskedAmounts

\* The messages, field by field.
LEMMA MessageFields ==
  ASSUME FundsShape
  PROVE  /\ Len(msgs) \in Nat /\ DOMAIN msgs = 1 .. Len(msgs) /\ 1 .. Len(msgs) \subseteq MsgIds
         /\ \A m \in 1 .. Len(msgs) :
              /\ msgs[m].kind \in {"create", "add"} /\ msgs[m].chan \in MsgIds /\ msgs[m].val \in Nat
              /\ msgs[m].st \in {"pool", "ok", "fail"}
<1>1. msgs \in Seq(Message) /\ Len(msgs) <= MaxMsgs
  BY DEF FundsShape
<1>2. Len(msgs) \in Nat /\ DOMAIN msgs = 1 .. Len(msgs) /\ \A m \in 1 .. Len(msgs) : msgs[m] \in Message
  BY <1>1
<1>3. 1 .. Len(msgs) \subseteq MsgIds
  BY <1>1, <1>2, PaychFundsAssumption DEF MsgIds
<1>. QED
  BY <1>2, <1>3, AskedIsNat DEF Message

\* The values of pushed messages can be summed.
LEMMA DepositsSum ==
  ASSUME FundsShape, NEW S \in SUBSET (1 .. Len(msgs))
  PROVE  NatOn([m \in DOMAIN msgs |-> msgs[m].val], S)
<1>1. IsFiniteSet(S)
  <2>1. Len(msgs) \in Int
    BY MessageFields
  <2>2. IsFiniteSet(1 .. Len(msgs))
    BY <2>1, FS_Interval
  <2>. QED
    BY <2>2, FS_Subset
<1>. QED
  BY <1>1, MessageFields DEF NatOn

\* A sum of deposits does not change while messages are kept.
LEMMA DepositedKept ==
  ASSUME FundsShape, FundsShape', MessagesKept, NEW S \in SUBSET (1 .. Len(msgs))
  PROVE  Deposited(S)' = Deposited(S)
<1>1. IsFiniteSet(S)
  <2>1. Len(msgs) \in Int
    BY MessageFields
  <2>2. IsFiniteSet(1 .. Len(msgs))
    BY <2>1, FS_Interval
  <2>. QED
    BY <2>2, FS_Subset
<1>2. DOMAIN msgs = 1 .. Len(msgs) /\ DOMAIN msgs' = 1 .. Len(msgs') /\ Len(msgs) \in Nat /\ Len(msgs') \in Nat
  BY MessageFields DEF FundsShape
<1>3. PICK f : f = [m \in DOMAIN msgs |-> msgs[m].val]
  OBVIOUS
<1>4. PICK g : g = [m \in DOMAIN msgs' |-> msgs'[m].val]
  OBVIOUS
<1>5. \A x \in S : g[x] = f[x]
  BY <1>2, <1>3, <1>4 DEF MessagesKept
<1>6. SumFunctionOnSet(g, S) = SumFunctionOnSet(f, S)
  BY <1>1, <1>5, SumSame
<1>. QED
  BY <1>3, <1>4, <1>6 DEF Deposited

\* The execution of a message, a new message, or none.
LEMMA KeptByExec ==
  ASSUME FundsShape, NEW m \in MsgIds, FundsExec(m)
  PROVE  MessagesKept /\ Len(msgs') = Len(msgs)
<1>1. PICK st : msgs' = [msgs EXCEPT ![m].st = st]
  BY DEF FundsExec
<1>2. msgs \in Seq(Message) /\ m \in 1 .. Len(msgs) /\ msgs[m].st = "pool" /\ msgs[m] \in Message
  BY DEF FundsShape, FundsExec, MsgIds
<1>3. PICK new : new = [msgs[m] EXCEPT !.st = st]
  OBVIOUS
<1>4. new.chan = msgs[m].chan /\ new.val = msgs[m].val /\ new.kind = msgs[m].kind
  BY <1>2, <1>3 DEF Message
<1>5. msgs' = [msgs EXCEPT ![m] = new]
  BY <1>1, <1>3
<1>6. Len(msgs') = Len(msgs) /\ \A n \in 1 .. Len(msgs) : msgs'[n] = IF n = m THEN new ELSE msgs[n]
  BY <1>2, <1>5
<1>. QED
  BY <1>2, <1>4, <1>6, MessageFields DEF MessagesKept

\* No message is touched.
LEMMA KeptByStill == ASSUME FundsShape, UNCHANGED msgs PROVE MessagesKept /\ Len(msgs') = Len(msgs)
BY MessageFields DEF MessagesKept

\* What a channel counts stays counted when its record, the record of its
\* messages and the waits for them say no more than before.
LEMMA CountsKept ==
  ASSUME FundsShape, FundsShape', MessagesKept, ChannelsKnown,
         NEW c \in MsgIds, NEW S \in SUBSET (1 .. Len(msgs)), Counts(c, S),
         chans'[c].amount = chans[c].amount,
         \A m \in S : Pending(c)' # m,
         \A m \in 1 .. Len(msgs') : msgs'[m].chan = c /\ (Good(m)' \/ Found(m)') =>
           m \in 1 .. Len(msgs) /\ (Good(m) \/ Found(m) \/ m \in S),
         task'.at = "save" => (task.at = "save" /\ Len(msgs') = Len(msgs)) \/ Len(msgs') = Len(msgs) + 1
  PROVE  S \in SUBSET (1 .. Len(msgs')) /\ Counts(c, S)'
<1>1. Len(msgs) \in Nat /\ Len(msgs') \in Nat
  BY MessageFields DEF FundsShape
<1>2. S \in SUBSET (1 .. Len(msgs'))
  BY <1>1 DEF MessagesKept
<1>3. \A m \in S : msgs'[m].chan = c /\ msgs'[m].st = "ok" /\ Pending(c)' # m
  BY DEF Counts, MessagesKept
<1>4. \A m \in 1 .. Len(msgs') : msgs'[m].chan = c /\ (Good(m)' \/ Found(m)') => m \in S
  BY DEF Counts, MessagesKept
<1>6. task'.at = "save" => Len(msgs') \notin S
  BY <1>1 DEF Counts
<1>7. chans'[c].amount = Deposited(S)'
  BY DepositedKept DEF Counts
<1>. QED
  BY <1>2, <1>3, <1>4, <1>6, <1>7 DEF Counts

\* A step that leaves the records and the waits alone.
LEMMA RecordsSame ==
  ASSUME FundsShape, FundsShape', ConfirmInv, UNCHANGED <<chans, infos, wait>>, MessagesKept, TaskFree',
         \A m \in 1 .. Len(msgs') : m \notin 1 .. Len(msgs) => MessageKind(m)',
         task'.at = "save" => (task.at = "save" /\ Len(msgs') = Len(msgs)) \/ Len(msgs') = Len(msgs) + 1
  PROVE  ConfirmInv'
<1>1. RecordsShape'
  BY DEF ConfirmInv, RecordsShape
<1>2. /\ Len(msgs) \in Nat /\ Len(msgs') \in Nat /\ 1 .. Len(msgs') \subseteq MsgIds
      /\ \A c \in MsgIds : Pending(c)' = Pending(c)
  BY PaychFundsAssumption DEF FundsShape, Pending, MsgIds
<1>3. ChannelsKnown'
  <2> SUFFICES ASSUME NEW c \in MsgIds
               PROVE  ChanShape(c)' /\ PendingKnown(c)' /\ InfoPushed(c)' /\ WaitPending(c)'
    BY DEF ChannelsKnown
  <2>1. ChanShape(c) /\ PendingKnown(c) /\ InfoPushed(c) /\ WaitPending(c) /\ c \in Nat /\ c > 0
    BY DEF ConfirmInv, ChannelsKnown, MsgIds
  <2>2. ChanShape(c)'
    BY <1>2, <2>1 DEF ChanShape, MessagesKept
  <2>3. PendingKnown(c)'
    BY <1>2, <2>1 DEF PendingKnown, MessagesKept
  <2>4. InfoPushed(c)'
    BY <1>2, <2>1 DEF InfoPushed, MessagesKept
  <2>5. WaitPending(c)'
    <3>1. wait[c].at # "none" => c \in 1 .. Len(msgs)
      BY <1>2, <2>1 DEF WaitPending
    <3>2. wait[c].at # "none" => msgs'[c].chan = msgs[c].chan /\ msgs[c].chan \in MsgIds
      BY <3>1, MessageFields DEF MessagesKept
    <3>3. wait[c].at # "none" => Pending(msgs[c].chan)' = Pending(msgs[c].chan)
      BY <1>2, <3>2 DEF Pending
    <3>. QED
      BY <1>2, <2>1, <3>1, <3>2, <3>3 DEF WaitPending, MessagesKept, StoreFails, Working
  <2>. QED
    BY <2>2, <2>3, <2>4, <2>5
<1>4. \A m \in 1 .. Len(msgs') : MessageKind(m)'
  BY DEF ConfirmInv, MessageKind, MessagesKept
<1>5. ASSUME NEW c \in MsgIds PROVE Confirmed(c)'
  <2> SUFFICES ASSUME chans[c].channel PROVE \E S \in SUBSET (1 .. Len(msgs')) : Counts(c, S)'
    BY DEF Confirmed
  <2>1. PICK S \in SUBSET (1 .. Len(msgs)) : Counts(c, S)
    BY DEF ConfirmInv, Confirmed
  <2>2. \A m \in 1 .. Len(msgs') : infos[m].state # "none" \/ wait[m].at # "none" => m \in 1 .. Len(msgs)
    BY <1>2 DEF ConfirmInv, ChannelsKnown, InfoPushed, WaitPending, MsgIds
  <2>3. ChannelsKnown /\ \A m \in S : Pending(c)' # m
    BY <1>2, <2>1 DEF ConfirmInv, Counts
  <2>4. \A m \in 1 .. Len(msgs') : msgs'[m].chan = c /\ (Good(m)' \/ Found(m)') =>
           m \in 1 .. Len(msgs) /\ (Good(m) \/ Found(m) \/ m \in S)
    BY <2>2 DEF Good, Found, StoreFails
  <2>6. chans'[c].amount = chans[c].amount
    OBVIOUS
  <2>7. S \in SUBSET (1 .. Len(msgs')) /\ Counts(c, S)'
    BY <2>1, <2>3, <2>4, <2>6, CountsKept
  <2>. QED
    BY <2>7
<1>. QED
  BY <1>1, <1>3, <1>4, <1>5 DEF ConfirmInv

\* A step that touches neither the records nor the messages nor the merged request.
LEMMA QuietConfirm ==
  ASSUME FundsShape, FundsShape', ConfirmInv, UNCHANGED <<chans, infos, wait, msgs, task, fup>>
  PROVE  ConfirmInv'
<1>1. TaskFree'
  BY DEF ConfirmInv, TaskFree, Pending
<1>2. MessagesKept /\ Len(msgs') = Len(msgs)
  BY KeptByStill
<1>. QED
  BY <1>1, <1>2, RecordsSame

\* The end of the merged request.
LEMMA TaskEndsConfirm ==
  ASSUME FundsShape, FundsShape', ConfirmInv, UNCHANGED <<chans, infos, wait, msgs>>, task' = NoTask
  PROVE  ConfirmInv'
<1>1. TaskFree' /\ task'.at = "none"
  BY DEF TaskFree, NoTask
<1>2. MessagesKept /\ Len(msgs') = Len(msgs)
  BY KeptByStill
<1>. QED
  BY <1>1, <1>2, RecordsSame

\* A merged request is made only when no active channel waits for a message.
LEMMA RunQueueConfirm ==
  ASSUME FundsShape, FundsShape', ConfirmInv, RunQueue, UNCHANGED <<chans, infos, wait, msgs, fup>>, fup
  PROVE  ConfirmInv'
<1> DEFINE q == {r \in reqQueue : live[r]}
           ch == IF ActiveChans = {} THEN 0 ELSE CHOOSE c \in ActiveChans : TRUE
           waiting == \E c \in ActiveChans : chans[c].create # 0 \/ chans[c].addf # 0
<1>1. \/ task' = NoTask
      \/ ~waiting /\ task' = [at |-> "push", reqs |-> q, amt |-> Sum(q), dead |-> FALSE, chan |-> ch]
  BY DEF RunQueue
<1>2. CASE task' = NoTask
  BY <1>2, TaskEndsConfirm
<1>3. CASE ~waiting /\ task' = [at |-> "push", reqs |-> q, amt |-> Sum(q), dead |-> FALSE, chan |-> ch]
  <2>1. ch # 0 => ch \in ActiveChans
    <3>1. ASSUME NEW c \in ActiveChans PROVE (CHOOSE d \in ActiveChans : TRUE) \in ActiveChans
      BY Zenon
    <3>. QED
      BY <3>1
  <2>2. ch # 0 => ch \in MsgIds /\ chans[ch].state = "saved" /\ chans[ch].create = 0 /\ chans[ch].addf = 0
    BY <1>3, <2>1 DEF ActiveChans
  <2>3. task'.at = "push" /\ task'.chan = ch
    BY <1>3
  <2> HIDE DEF ch, waiting, q
  <2>4. ch # 0 => chans[ch].channel /\ Pending(ch) = 0
    BY <2>2 DEF ConfirmInv, ChannelsKnown, ChanShape, Pending, MsgIds, RecordsShape, Channel
  <2>5. TaskFree'
    BY <2>3, <2>4 DEF TaskFree, Pending
  <2>6. MessagesKept /\ Len(msgs') = Len(msgs)
    BY KeptByStill
  <2>. QED
    BY <2>3, <2>5, <2>6, RecordsSame
<1>. QED
  BY <1>1, <1>2, <1>3

\* The chain executes a message.
LEMMA ExecConfirm ==
  ASSUME FundsShape, FundsShape', ConfirmInv, NEW m \in MsgIds, FundsExec(m)
  PROVE  ConfirmInv'
<1>1. UNCHANGED <<chans, infos, wait, task, fup>>
  BY DEF FundsExec, records, fproc
<1>2. MessagesKept /\ Len(msgs') = Len(msgs)
  BY KeptByExec
<1>3. TaskFree'
  BY <1>1, <1>2, MessageFields DEF ConfirmInv, TaskFree, MessagesKept, Pending
<1>. QED
  BY <1>1, <1>2, <1>3, RecordsSame

\* A message is pushed: the channel to add to is free, and the number of the
\* message is new.
LEMMA PushConfirm ==
  ASSUME FundsShape, FundsShape', ConfirmInv, task.at = "push", Len(msgs) < MaxMsgs, fup,
         UNCHANGED <<chans, infos, wait, fup>>,
         msgs' = Append(msgs, [kind |-> IF task.chan = 0 THEN "create" ELSE "add",
                               chan |-> IF task.chan = 0 THEN Len(msgs) + 1 ELSE task.chan,
                               reqs |-> task.reqs, val |-> task.amt, st |-> "pool"]),
         task' = [task EXCEPT !.at = "save"]
  PROVE  ConfirmInv'
<1> DEFINE new == [kind |-> IF task.chan = 0 THEN "create" ELSE "add",
                   chan |-> IF task.chan = 0 THEN Len(msgs) + 1 ELSE task.chan,
                   reqs |-> task.reqs, val |-> task.amt, st |-> "pool"]
<1>1. task \in Task /\ msgs \in Seq(Message) /\ Len(msgs) \in Nat
  BY DEF FundsShape
<1>2. /\ new.kind = (IF task.chan = 0 THEN "create" ELSE "add") /\ new.val = task.amt
      /\ new.chan = (IF task.chan = 0 THEN Len(msgs) + 1 ELSE task.chan)
  OBVIOUS
<1>3. msgs' = Append(msgs, new)
  OBVIOUS
<1> HIDE DEF new
<1>4. /\ Len(msgs') = Len(msgs) + 1
      /\ \A m \in 1 .. Len(msgs) : msgs'[m] = msgs[m]
      /\ msgs'[Len(msgs) + 1] = new
  BY <1>1, <1>3
<1>5. task'.at = "save" /\ task'.chan = task.chan /\ task'.amt = task.amt
  BY <1>1 DEF Task
<1>6. MessagesKept
  BY <1>1, <1>4 DEF MessagesKept
<1>7. PICK k : k = Len(msgs) + 1
  OBVIOUS
<1>8. k \in MsgIds /\ ~(k <= Len(msgs)) /\ k > 0
  BY <1>1, <1>7, PaychFundsAssumption DEF MsgIds
<1>9. chans[k].state = "none" /\ infos[k].state = "none" /\ wait[k].at = "none"
  BY <1>8 DEF ConfirmInv, ChannelsKnown, ChanShape, InfoPushed, WaitPending
<1>10. task.chan # 0 => chans[task.chan].channel /\ Pending(task.chan) = 0
  BY DEF ConfirmInv, TaskFree
<1>11. chans[k] = NoChan
  BY <1>8, <1>9 DEF ConfirmInv, ChannelsKnown, ChanShape
<1>12. TaskFree'
  BY <1>2, <1>4, <1>5, <1>7, <1>8, <1>9, <1>10 DEF TaskFree, Pending
<1>13. task.chan # k
  BY <1>8, <1>10, <1>11 DEF NoChan
<1>14. MessageKind(k)'
  BY <1>2, <1>4, <1>7, <1>10, <1>13 DEF MessageKind
<1>15. \A m \in 1 .. Len(msgs') : m \notin 1 .. Len(msgs) => MessageKind(m)'
  BY <1>1, <1>4, <1>7, <1>14
<1>. QED
  BY <1>4, <1>6, <1>12, <1>15, RecordsSame

\* A wait ends, dies or is recorded: it claims no more than it did before.
LEMMA WaitsConfirm ==
  ASSUME FundsShape, FundsShape', ConfirmInv, UNCHANGED <<chans, msgs>>, RecordsShape',
         \/ task'.at = "none"
         \/ task'.at = task.at /\ task'.chan = task.chan /\ task'.amt = task.amt /\ UNCHANGED fup,
         \A m \in MsgIds : wait'[m].at # "none" => wait[m].at # "none",
         \A m \in MsgIds : Working(m)' => Working(m),
         \A m \in MsgIds : Found(m)' => Found(m),
         \A m \in MsgIds : Good(m)' => Good(m) \/ Found(m),
         \A m \in MsgIds : infos'[m].state # "none" => infos[m].state # "none"
  PROVE  ConfirmInv'
<1>1. /\ Len(msgs) \in Nat /\ 1 .. Len(msgs) \subseteq MsgIds
      /\ \A c \in MsgIds : Pending(c)' = Pending(c)
  BY MessageFields DEF Pending
<1>2. MessagesKept /\ Len(msgs') = Len(msgs)
  BY KeptByStill
<1>3. ChannelsKnown'
  <2> SUFFICES ASSUME NEW c \in MsgIds
               PROVE  ChanShape(c)' /\ PendingKnown(c)' /\ InfoPushed(c)' /\ WaitPending(c)'
    BY DEF ChannelsKnown
  <2>1. ChanShape(c) /\ PendingKnown(c) /\ InfoPushed(c) /\ WaitPending(c) /\ c \in Nat /\ c > 0
    BY DEF ConfirmInv, ChannelsKnown, MsgIds
  <2>2. ChanShape(c)' /\ PendingKnown(c)'
    BY <1>1, <2>1 DEF ChanShape, PendingKnown
  <2>3. InfoPushed(c)'
    BY <2>1 DEF InfoPushed
  <2>4. wait[c].at # "none" => Pending(msgs[c].chan)' = Pending(msgs[c].chan)
    BY DEF Pending
  <2>5. Working(c) => wait[c].at # "none"
    BY DEF Working
  <2>6. WaitPending(c)'
    BY <2>1, <2>4, <2>5 DEF WaitPending
  <2>. QED
    BY <2>2, <2>3, <2>6
<1>4. TaskFree'
  <2>1. CASE task'.at = "none"
    BY <2>1 DEF TaskFree
  <2>2. CASE task'.at = task.at /\ task'.chan = task.chan /\ task'.amt = task.amt /\ UNCHANGED fup
    <3>1. task.at = "save" => Len(msgs) \in MsgIds
      BY <1>1 DEF ConfirmInv, TaskFree
    <3>2. task.at = "save" => infos'[Len(msgs)].state = "none" /\ wait'[Len(msgs)].at = "none"
      BY <3>1 DEF ConfirmInv, TaskFree
    <3>. QED
      BY <2>2, <3>2 DEF ConfirmInv, TaskFree, Pending
  <2>. QED
    BY <2>1, <2>2
<1>5. \A m \in 1 .. Len(msgs') : MessageKind(m)'
  BY DEF ConfirmInv, MessageKind
<1>6. ASSUME NEW c \in MsgIds PROVE Confirmed(c)'
  <2> SUFFICES ASSUME chans[c].channel PROVE \E S \in SUBSET (1 .. Len(msgs')) : Counts(c, S)'
    BY DEF Confirmed
  <2>1. PICK S \in SUBSET (1 .. Len(msgs)) : Counts(c, S)
    BY DEF ConfirmInv, Confirmed
  <2>2. ChannelsKnown /\ \A m \in S : Pending(c)' # m
    BY <1>1, <2>1 DEF ConfirmInv, Counts
  <2>3. \A m \in 1 .. Len(msgs') : msgs'[m].chan = c /\ (Good(m)' \/ Found(m)') =>
           m \in 1 .. Len(msgs) /\ (Good(m) \/ Found(m) \/ m \in S)
    BY <1>1
  <2>4. chans'[c].amount = chans[c].amount
    OBVIOUS
  <2>5. S \in SUBSET (1 .. Len(msgs')) /\ Counts(c, S)'
    BY <1>2, <2>1, <2>2, <2>3, <2>4, CountsKept
  <2>. QED
    BY <2>5
<1>. QED
  BY <1>3, <1>4, <1>5, <1>6 DEF ConfirmInv

\* A caller gives up: contexts die.
LEMMA CancelConfirm ==
  ASSUME FundsShape, FundsShape', ConfirmInv, NEW r \in Reqs, CallerCancelled(r)
  PROVE  ConfirmInv'
<1> DEFINE AllDone(S) == r \in S /\ \A q \in S : ~live[q]
<1>1. /\ UNCHANGED <<chans, infos, msgs, fup>>
      /\ task' = [task EXCEPT !.dead = @ \/ AllDone(task.reqs)]
      /\ wait' = [m \in MsgIds |-> IF m <= Len(msgs) /\ wait[m].at # "none"
                                   THEN [wait[m] EXCEPT !.dead = @ \/ AllDone(msgs[m].reqs)]
                                   ELSE wait[m]]
  BY DEF CallerCancelled, records, fproc
<1>2. task'.at = task.at /\ task'.chan = task.chan /\ task'.amt = task.amt
  BY <1>1 DEF FundsShape, Task
<1>3. ASSUME NEW m \in MsgIds
      PROVE  /\ wait'[m] \in Wait /\ wait'[m].at = wait[m].at /\ wait'[m].res = wait[m].res
             /\ wait[m].dead => wait'[m].dead
  <2>1. wait[m] \in Wait
    BY DEF ConfirmInv, RecordsShape
  <2>2. PICK d : d = (wait[m].dead \/ AllDone(msgs[m].reqs))
    OBVIOUS
  <2>3. wait'[m] = [wait[m] EXCEPT !.dead = d] \/ wait'[m] = wait[m]
    BY <1>1, <2>2
  <2>4. d \in BOOLEAN /\ (wait[m].dead => d)
    BY <2>1, <2>2 DEF Wait
  <2>. QED
    BY <2>1, <2>3, <2>4 DEF Wait
<1>4. RecordsShape'
  BY <1>1, <1>3 DEF ConfirmInv, RecordsShape
<1>5. /\ \A m \in MsgIds : Working(m)' => Working(m)
      /\ \A m \in MsgIds : Found(m)' => Found(m)
  BY <1>3 DEF Working, Found, StoreFails
<1>6. \A m \in MsgIds : Good(m)' => Good(m) \/ Found(m)
  BY <1>1 DEF Good
<1>. QED
  BY <1>1, <1>2, <1>3, <1>4, <1>5, <1>6, WaitsConfirm

\* The node fails while a message is waited for.
LEMMA WaitFailsConfirm ==
  ASSUME FundsShape, FundsShape', ConfirmInv, NEW n \in MsgIds, WaitFails(n)
  PROVE  ConfirmInv'
<1>1. /\ UNCHANGED <<chans, infos, msgs, fup, task>> /\ wait[n].at = "wait"
      /\ wait' = [wait EXCEPT ![n].at = "complete", ![n].res = "node"]
  BY DEF WaitFails, records, fproc
<1>2. wait[n] \in Wait /\ wait \in [MsgIds -> Wait]
  BY DEF ConfirmInv, RecordsShape
<1>3. PICK new : new = [[wait[n] EXCEPT !.at = "complete"] EXCEPT !.res = "node"]
  OBVIOUS
<1>4. new \in Wait /\ new.at = "complete" /\ new.res = "node"
  BY <1>2, <1>3 DEF Wait
<1>5. wait' = [wait EXCEPT ![n] = new]
  BY <1>1, <1>2, <1>3
<1>6. RecordsShape' /\ \A m \in MsgIds : wait'[m] = IF m = n THEN new ELSE wait[m]
  BY <1>1, <1>2, <1>4, <1>5 DEF ConfirmInv, RecordsShape
<1>7. /\ \A m \in MsgIds : wait'[m].at # "none" => wait[m].at # "none"
      /\ \A m \in MsgIds : Working(m)' => Working(m)
      /\ \A m \in MsgIds : Found(m)' => Found(m)
  BY <1>1, <1>4, <1>6 DEF Working, Found, StoreFails
<1>8. \A m \in MsgIds : Good(m)' => Good(m) \/ Found(m)
  BY <1>1 DEF Good
<1>. QED
  BY <1>1, <1>6, <1>7, <1>8, WaitsConfirm

\* The result of a message is recorded: a good one only when the wait was good.
LEMMA WaitCompleteConfirm ==
  ASSUME FundsShape, FundsShape', ConfirmInv, NEW n \in MsgIds, MsgWaitComplete(n)
  PROVE  ConfirmInv'
<1>1. /\ UNCHANGED <<chans, msgs, fup, task>> /\ wait[n].at = "complete"
      /\ wait' = [wait EXCEPT ![n].at = "done"]
      /\ infos' = IF StoreFails(wait[n].dead) \/ infos[n].state = "none" THEN infos
                  ELSE [infos EXCEPT ![n] = SaveMessageResult(@, wait[n].res)]
  BY DEF MsgWaitComplete, fproc
<1>2. wait[n] \in Wait /\ wait \in [MsgIds -> Wait] /\ infos[n] \in Info /\ infos \in [MsgIds -> Info]
  BY DEF ConfirmInv, RecordsShape
<1>3. PICK new : new = [wait[n] EXCEPT !.at = "done"]
  OBVIOUS
<1>4. new \in Wait /\ new.at = "done"
  BY <1>2, <1>3 DEF Wait
<1>5. wait' = [wait EXCEPT ![n] = new]
  BY <1>1, <1>2, <1>3
<1>6. wait' \in [MsgIds -> Wait] /\ \A m \in MsgIds : wait'[m] = IF m = n THEN new ELSE wait[m]
  BY <1>2, <1>4, <1>5
<1>7. /\ \A m \in MsgIds : wait'[m].at # "none" => wait[m].at # "none"
      /\ \A m \in MsgIds : Working(m)' => Working(m)
      /\ \A m \in MsgIds : Found(m)' => Found(m)
  BY <1>1, <1>4, <1>6 DEF Working, Found, StoreFails
<1>8. /\ infos' \in [MsgIds -> Info]
      /\ \A m \in MsgIds : Good(m)' => Good(m) \/ Found(m)
      /\ \A m \in MsgIds : infos'[m].state # "none" => infos[m].state # "none"
  <2>1. CASE infos' = infos
    BY <1>2, <2>1 DEF Good
  <2>2. CASE ~StoreFails(wait[n].dead) /\ infos[n].state # "none"
    <3>1. PICK e : e = (infos[n].err \/ wait[n].res # "ok")
      OBVIOUS
    <3>2. PICK i : i = [[infos[n] EXCEPT !.state = "received"] EXCEPT !.err = e]
      OBVIOUS
    <3>3. infos' = [infos EXCEPT ![n] = i]
      BY <1>1, <1>2, <2>2, <3>1, <3>2 DEF SaveMessageResult, Info
    <3>4. i \in Info /\ (i.err = e)
      BY <1>2, <3>1, <3>2 DEF Info
    <3>5. infos' \in [MsgIds -> Info] /\ \A m \in MsgIds : infos'[m] = IF m = n THEN i ELSE infos[m]
      BY <1>2, <3>3, <3>4
    <3>6. ~i.err => Found(n)
      BY <1>1, <2>2, <3>1, <3>4 DEF Found
    <3>. QED
      BY <2>2, <3>5, <3>6 DEF Good
  <2>. QED
    BY <1>1, <2>1, <2>2
<1>9. RecordsShape'
  BY <1>1, <1>6, <1>8 DEF ConfirmInv, RecordsShape
<1>. QED
  BY <1>1, <1>7, <1>8, <1>9, WaitsConfirm

\* The process dies: the waits are lost, the records are not.
LEMMA CrashConfirm ==
  ASSUME FundsShape, FundsShape', ConfirmInv, FundsCrash
  PROVE  ConfirmInv'
<1>1. /\ UNCHANGED <<chans, infos, msgs>> /\ task' = NoTask
      /\ wait' = [m \in MsgIds |-> NoWait]
  BY DEF FundsCrash, records
<1>2. \A m \in MsgIds : wait'[m] \in Wait /\ wait'[m].at = "none"
  BY <1>1 DEF Wait, NoWait
<1>3. RecordsShape' /\ task'.at = "none"
  BY <1>1, <1>2 DEF ConfirmInv, RecordsShape, NoTask
<1>4. /\ \A m \in MsgIds : Working(m)' => Working(m)
      /\ \A m \in MsgIds : Found(m)' => Found(m)
  BY <1>2 DEF Working, Found
<1>5. \A m \in MsgIds : Good(m)' => Good(m) \/ Found(m)
  BY <1>1 DEF Good
<1>. QED
  BY <1>1, <1>2, <1>3, <1>4, <1>5, WaitsConfirm

\* A restart waits for the messages that the channels wait for.
LEMMA StartConfirm ==
  ASSUME FundsShape, FundsShape', ConfirmInv, FundsStart
  PROVE  ConfirmInv'
<1>1. /\ UNCHANGED <<chans, infos, msgs, task>> /\ task.at = "none"
      /\ wait' = [m \in MsgIds |-> IF \E c \in MsgIds : Pending(c) = m
                                   THEN [NoWait EXCEPT !.at = "wait"] ELSE NoWait]
  BY DEF FundsStart, records, ConfirmInv, TaskFree
<1>2. ASSUME NEW m \in MsgIds
      PROVE  /\ wait'[m] \in Wait /\ wait'[m].at \in {"none", "wait"}
             /\ wait'[m].at # "none" => m \in 1 .. Len(msgs) /\ Pending(msgs[m].chan) = m
  <2>1. wait'[m] = NoWait \/ wait'[m] = [NoWait EXCEPT !.at = "wait"]
    BY <1>1
  <2>2. NoWait \in Wait /\ NoWait.at = "none" /\ [NoWait EXCEPT !.at = "wait"] \in Wait
        /\ [NoWait EXCEPT !.at = "wait"].at = "wait"
    BY DEF NoWait, Wait
  <2>3. ASSUME wait'[m].at # "none" PROVE m \in 1 .. Len(msgs) /\ Pending(msgs[m].chan) = m
    <3>1. PICK c \in MsgIds : Pending(c) = m
      BY <1>1, <2>2, <2>3
    <3>2. PendingKnown(c) /\ Pending(c) # 0
      BY <3>1 DEF ConfirmInv, ChannelsKnown, MsgIds
    <3>. QED
      BY <3>1, <3>2 DEF PendingKnown
  <2>. QED
    BY <2>1, <2>2, <2>3
<1>3. RecordsShape' /\ TaskFree'
  BY <1>1, <1>2 DEF ConfirmInv, RecordsShape, TaskFree
<1>4. MessagesKept /\ Len(msgs') = Len(msgs) /\ Len(msgs) \in Nat /\ 1 .. Len(msgs) \subseteq MsgIds
  BY <1>1, KeptByStill, MessageFields
<1>5. \A c \in MsgIds : Pending(c)' = Pending(c)
  BY <1>1 DEF Pending
<1>6. ChannelsKnown'
  <2> SUFFICES ASSUME NEW c \in MsgIds
               PROVE  ChanShape(c)' /\ PendingKnown(c)' /\ InfoPushed(c)' /\ WaitPending(c)'
    BY DEF ChannelsKnown
  <2>1. ChanShape(c) /\ PendingKnown(c) /\ InfoPushed(c)
    BY DEF ConfirmInv, ChannelsKnown
  <2>2. ChanShape(c)' /\ PendingKnown(c)' /\ InfoPushed(c)'
    BY <1>1, <1>5, <2>1 DEF ChanShape, PendingKnown, InfoPushed
  <2>3. Pending(msgs[c].chan)' = Pending(msgs[c].chan)
    BY <1>1 DEF Pending
  <2>4. WaitPending(c)'
    BY <1>1, <1>2, <1>4, <2>3 DEF WaitPending, Working
  <2>. QED
    BY <2>2, <2>4
<1>7. \A m \in 1 .. Len(msgs') : MessageKind(m)'
  BY <1>1 DEF ConfirmInv, MessageKind
<1>8. ASSUME NEW c \in MsgIds PROVE Confirmed(c)'
  <2> SUFFICES ASSUME chans[c].channel PROVE \E S \in SUBSET (1 .. Len(msgs')) : Counts(c, S)'
    BY <1>1 DEF Confirmed
  <2>1. PICK S \in SUBSET (1 .. Len(msgs)) : Counts(c, S)
    BY DEF ConfirmInv, Confirmed
  <2>2. ChannelsKnown /\ \A m \in S : Pending(c)' # m
    BY <1>5, <2>1 DEF ConfirmInv, Counts
  <2>3. \A m \in 1 .. Len(msgs') : msgs'[m].chan = c /\ (Good(m)' \/ Found(m)') =>
           m \in 1 .. Len(msgs) /\ (Good(m) \/ Found(m) \/ m \in S)
    BY <1>1, <1>2, <1>4 DEF Good, Found
  <2>4. chans'[c].amount = chans[c].amount /\ task'.at # "save"
    BY <1>1
  <2>5. S \in SUBSET (1 .. Len(msgs')) /\ Counts(c, S)'
    BY <1>4, <2>1, <2>2, <2>3, <2>4, CountsKept
  <2>. QED
    BY <2>5
<1>. QED
  BY <1>3, <1>6, <1>7, <1>8 DEF ConfirmInv

\* A step that writes one channel record, and records or waits for messages of
\* that channel only.
LEMMA ChannelConfirm ==
  ASSUME FundsShape, FundsShape', ConfirmInv, UNCHANGED msgs, RecordsShape', TaskFree',
         NEW c \in MsgIds, \A d \in MsgIds \ {c} : chans'[d] = chans[d],
         ChanShape(c)', PendingKnown(c)', Confirmed(c)', chans[c].channel => chans'[c].channel,
         \A m \in MsgIds : InfoPushed(m)' /\ WaitPending(m)',
         \A m \in 1 .. Len(msgs) : Good(m)' \/ Found(m)' => Good(m) \/ Found(m) \/ msgs[m].chan = c,
         task'.at # "save"
  PROVE  ConfirmInv'
<1>1. MessagesKept /\ Len(msgs') = Len(msgs) /\ Len(msgs) \in Nat /\ 1 .. Len(msgs) \subseteq MsgIds
  BY KeptByStill, MessageFields
<1>2. \A d \in MsgIds \ {c} : Pending(d)' = Pending(d)
  BY DEF Pending
<1>3. ASSUME NEW d \in MsgIds \ {c} PROVE ChanShape(d)' /\ PendingKnown(d)' /\ Confirmed(d)'
  <2>1. ChanShape(d) /\ PendingKnown(d) /\ chans'[d] = chans[d] /\ Pending(d)' = Pending(d)
    BY <1>2 DEF ConfirmInv, ChannelsKnown
  <2>2. ChanShape(d)' /\ PendingKnown(d)'
    BY <2>1 DEF ChanShape, PendingKnown
  <2>3. ASSUME chans[d].channel PROVE \E S \in SUBSET (1 .. Len(msgs')) : Counts(d, S)'
    <3>1. PICK S \in SUBSET (1 .. Len(msgs)) : Counts(d, S)
      BY <2>3 DEF ConfirmInv, Confirmed
    <3>2. ChannelsKnown /\ \A m \in S : Pending(d)' # m
      BY <2>1, <3>1 DEF ConfirmInv, Counts
    <3>3. \A m \in 1 .. Len(msgs') : msgs'[m].chan = d /\ (Good(m)' \/ Found(m)') =>
             m \in 1 .. Len(msgs) /\ (Good(m) \/ Found(m) \/ m \in S)
      BY <1>1
    <3>4. S \in SUBSET (1 .. Len(msgs')) /\ Counts(d, S)'
      BY <1>1, <2>1, <3>1, <3>2, <3>3, CountsKept
    <3>. QED
      BY <3>4
  <2>. QED
    BY <2>1, <2>2, <2>3 DEF Confirmed
<1>4. \A m \in 1 .. Len(msgs') : MessageKind(m)'
  <2> SUFFICES ASSUME NEW m \in 1 .. Len(msgs) PROVE MessageKind(m)'
    BY <1>1
  <2>1. MessageKind(m) /\ msgs[m].chan \in MsgIds
    BY MessageFields DEF ConfirmInv
  <2>2. chans[msgs[m].chan].channel => chans'[msgs[m].chan].channel
    BY <2>1
  <2>. QED
    BY <2>1, <2>2 DEF MessageKind
<1>5. ChannelsKnown'
  BY <1>3 DEF ChannelsKnown
<1>6. \A d \in MsgIds : Confirmed(d)'
  BY <1>3
<1>. QED
  BY <1>4, <1>5, <1>6 DEF ConfirmInv

\* A channel is marked as settling: it still waits for the same message.
LEMMA SettleConfirm ==
  ASSUME FundsShape, FundsShape', ConfirmInv, NEW c \in MsgIds, SettleChannel(c)
  PROVE  ConfirmInv'
<1>1. /\ UNCHANGED <<infos, msgs, wait, task, fup>> /\ task = NoTask /\ chans[c].channel /\ fup
      /\ chans' = [chans EXCEPT ![c].settling = TRUE]
  BY DEF SettleChannel, Unlocked, fproc
<1>2. chans[c] \in Channel /\ chans \in [MsgIds -> Channel]
  BY DEF ConfirmInv, RecordsShape
<1>3. PICK x : x = [chans[c] EXCEPT !.settling = TRUE]
  OBVIOUS
<1>4. /\ x \in Channel /\ x.state = chans[c].state /\ x.channel = chans[c].channel
      /\ x.create = chans[c].create /\ x.addf = chans[c].addf /\ x.amount = chans[c].amount
      /\ x.pending = chans[c].pending
  BY <1>2, <1>3 DEF Channel
<1>5. chans' = [chans EXCEPT ![c] = x]
  BY <1>1, <1>2, <1>3
<1>6. chans'[c] = x /\ \A d \in MsgIds \ {c} : chans'[d] = chans[d]
  BY <1>2, <1>5
<1>7. RecordsShape'
  BY <1>1, <1>2, <1>4, <1>5 DEF ConfirmInv, RecordsShape
<1>8. task'.at = "none" /\ TaskFree'
  BY <1>1 DEF TaskFree, NoTask
<1>9. \A d \in MsgIds : Pending(d)' = Pending(d)
  BY <1>4, <1>6 DEF Pending
<1>10. ChanShape(c)' /\ PendingKnown(c)'
  <2>1. ChanShape(c) /\ PendingKnown(c)
    BY DEF ConfirmInv, ChannelsKnown
  <2>2. chans[c].state # "none"
    BY <1>1, <2>1 DEF ChanShape, NoChan
  <2>. QED
    BY <1>1, <1>4, <1>6, <1>9, <2>1, <2>2 DEF ChanShape, PendingKnown
<1>11. ASSUME NEW m \in MsgIds PROVE InfoPushed(m)' /\ WaitPending(m)'
  <2>1. InfoPushed(m) /\ WaitPending(m)
    BY DEF ConfirmInv, ChannelsKnown
  <2>2. wait[m].at # "none" => msgs[m].chan \in MsgIds
    BY <2>1, MessageFields DEF WaitPending, MsgIds
  <2>3. wait[m].at # "none" => Pending(msgs[m].chan)' = Pending(msgs[m].chan)
    BY <1>1, <1>4, <1>6, <2>2 DEF Pending
  <2>. QED
    BY <1>1, <2>1, <2>3 DEF InfoPushed, WaitPending, Working
<1>12. \A m \in MsgIds : (Good(m)' => Good(m)) /\ (Found(m)' => Found(m))
  BY <1>1 DEF Good, Found, StoreFails
<1>13. Confirmed(c)'
  <2>1. PICK S \in SUBSET (1 .. Len(msgs)) : Counts(c, S)
    BY <1>1 DEF ConfirmInv, Confirmed
  <2>2. MessagesKept /\ Len(msgs') = Len(msgs) /\ 1 .. Len(msgs) \subseteq MsgIds
    BY <1>1, KeptByStill, MessageFields
  <2>3. ChannelsKnown /\ \A m \in S : Pending(c)' # m
    BY <1>9, <2>1 DEF ConfirmInv, Counts
  <2>4. \A m \in 1 .. Len(msgs') : msgs'[m].chan = c /\ (Good(m)' \/ Found(m)') =>
           m \in 1 .. Len(msgs) /\ (Good(m) \/ Found(m) \/ m \in S)
    BY <1>12, <2>2
  <2>5. S \in SUBSET (1 .. Len(msgs')) /\ Counts(c, S)'
    BY <1>4, <1>6, <1>8, <2>1, <2>2, <2>3, <2>4, CountsKept
  <2>. QED
    BY <2>5 DEF Confirmed
<1>14. \A m \in 1 .. Len(msgs) : Good(m)' \/ Found(m)' => Good(m) \/ Found(m) \/ msgs[m].chan = c
  BY <1>12, MessageFields
<1>. QED
  BY <1>1, <1>4, <1>6, <1>7, <1>8, <1>10, <1>11, <1>13, <1>14, ChannelConfirm

\* A channel that is created waits for its message; when the store fails nobody
\* waits for it.
LEMMA CreateConfirm ==
  ASSUME FundsShape, FundsShape', ConfirmInv, CreateChannel
  PROVE  ConfirmInv'
<1>1. PICK m : m = Len(msgs)
  OBVIOUS
<1>2. /\ m \in 1 .. Len(msgs) /\ m \in MsgIds /\ m \in Nat /\ msgs[m].val = task.amt
      /\ infos[m].state = "none" /\ wait[m].at = "none" /\ chans[m].state = "none" /\ msgs[m].kind = "create"
  BY <1>1, MessageFields DEF CreateChannel, ConfirmInv, TaskFree
<1>3. chans[m] = NoChan /\ msgs[m].chan = m /\ task.amt \in Nat /\ task.dead \in BOOLEAN
  BY <1>2, AskedIsNat DEF ConfirmInv, ChannelsKnown, ChanShape, MessageKind, FundsShape, Task
<1>4. chans \in [MsgIds -> Channel] /\ infos \in [MsgIds -> Info] /\ wait \in [MsgIds -> Wait]
  BY DEF ConfirmInv, RecordsShape
<1>5. PICK x : x = [NoChan EXCEPT !.state = "saved", !.create = m, !.pending = task.amt]
  OBVIOUS
<1>6. /\ x \in Channel /\ x.state = "saved" /\ x.channel = FALSE /\ x.create = m /\ x.addf = 0
      /\ x.pending = task.amt
  BY <1>2, <1>3, <1>5 DEF Channel, NoChan
<1>7. PICK i : i = [state |-> "sent", chan |-> m, err |-> FALSE]
  OBVIOUS
<1>8. PICK w : w = [at |-> "wait", res |-> "none", dead |-> task.dead]
  OBVIOUS
<1>9. /\ UNCHANGED <<msgs, fup>> /\ task' = NoTask
      /\ \/ chans' = chans /\ UNCHANGED <<infos, wait>>
         \/ chans' = [chans EXCEPT ![m] = x] /\ UNCHANGED <<infos, wait>>
         \/ /\ chans' = [chans EXCEPT ![m] = x]
            /\ infos' = [infos EXCEPT ![m] = i] /\ wait' = [wait EXCEPT ![m] = w]
  BY <1>1, <1>5, <1>7, <1>8 DEF CreateChannel, MergedOnComplete, fproc
<1>10. CASE chans' = chans /\ UNCHANGED <<infos, wait>>
  BY <1>9, <1>10, TaskEndsConfirm
<1>11. CASE /\ chans' = [chans EXCEPT ![m] = x]
            /\ infos' = infos \/ infos' = [infos EXCEPT ![m] = i]
            /\ wait' = wait \/ wait' = [wait EXCEPT ![m] = w]
  <2>1. /\ x \in Channel /\ x.state = "saved" /\ x.channel = FALSE /\ x.create = m /\ x.addf = 0
        /\ x.pending = task.amt
    BY <1>6
  <2>2. i \in Info /\ i.state = "sent" /\ w \in Wait /\ w.at = "wait"
    BY <1>2, <1>3, <1>7, <1>8 DEF Info, Wait
  <2>3. /\ chans'[m] = x /\ \A d \in MsgIds \ {m} : chans'[d] = chans[d]
        /\ infos'[m].state \in {"none", "sent"} /\ \A n \in MsgIds \ {m} : infos'[n] = infos[n]
        /\ wait'[m].at \in {"none", "wait"} /\ \A n \in MsgIds \ {m} : wait'[n] = wait[n]
    BY <1>2, <1>4, <1>11, <2>2
  <2>4. RecordsShape'
    BY <1>4, <1>11, <2>1, <2>2 DEF RecordsShape
  <2>5. task'.at = "none" /\ TaskFree'
    BY <1>9 DEF TaskFree, NoTask
  <2>6. Pending(m)' = m
    BY <1>2, <2>1, <2>3 DEF Pending
  <2>7. ChanShape(m)' /\ PendingKnown(m)' /\ Confirmed(m)' /\ (chans[m].channel => chans'[m].channel)
    <3>1. ChanShape(m)'
      BY <1>2, <1>9, <2>1, <2>3 DEF ChanShape
    <3>2. PendingKnown(m)'
      BY <1>2, <1>3, <1>9, <2>1, <2>3, <2>6 DEF PendingKnown
    <3>3. Confirmed(m)' /\ ~chans[m].channel
      BY <1>3, <2>1, <2>3 DEF Confirmed, NoChan
    <3>. QED
      BY <3>1, <3>2, <3>3
  <2>8. ASSUME NEW n \in MsgIds PROVE InfoPushed(n)' /\ WaitPending(n)'
    <3>1. InfoPushed(n) /\ WaitPending(n) /\ n # 0
      BY DEF ConfirmInv, ChannelsKnown, MsgIds
    <3>2. CASE n = m
      BY <1>2, <1>3, <1>9, <2>6, <3>2 DEF InfoPushed, WaitPending
    <3>3. CASE n # m
      <4>1. InfoPushed(n)' /\ wait'[n] = wait[n]
        BY <1>9, <2>3, <3>1, <3>3 DEF InfoPushed
      <4>2. ASSUME Working(n) PROVE Pending(msgs[n].chan)' = Pending(msgs[n].chan)
        <5>1. Pending(msgs[n].chan) = n /\ n \in 1 .. Len(msgs)
          BY <3>1, <4>2 DEF WaitPending, Working, MsgIds
        <5>2. msgs[n].chan # m
          BY <1>2, <3>1, <5>1 DEF Pending
        <5>3. chans'[msgs[n].chan] = chans[msgs[n].chan]
          BY <2>3, <5>1, <5>2, MessageFields
        <5>. QED
          BY <1>9, <5>3 DEF Pending
      <4>3. Working(n)' => Working(n)
        BY <4>1 DEF Working, StoreFails
      <4>. QED
        BY <1>9, <3>1, <4>1, <4>2, <4>3 DEF WaitPending
    <3>. QED
      BY <3>2, <3>3
  <2>9. ASSUME NEW n \in 1 .. Len(msgs), Good(n)' \/ Found(n)' PROVE Good(n) \/ Found(n) \/ msgs[n].chan = m
    BY <1>3, <2>3, <2>9, MessageFields DEF Good, Found, StoreFails
  <2>. QED
    BY <1>2, <1>9, <2>3, <2>4, <2>5, <2>7, <2>8, <2>9, ChannelConfirm
<1>. QED
  BY <1>9, <1>10, <1>11

\* The channel that funds are added to waits for their message, unless the store
\* fails: then the wait that begins will write nothing either.
LEMMA AddConfirm ==
  ASSUME FundsShape, FundsShape', ConfirmInv, SaveAddFunds
  PROVE  ConfirmInv'
<1>1. PICK m : m = Len(msgs)
  OBVIOUS
<1>2. PICK c : c = task.chan
  OBVIOUS
<1>3. /\ m \in 1 .. Len(msgs) /\ m \in MsgIds /\ m \in Nat /\ m # 0 /\ msgs[m].val = task.amt
      /\ infos[m].state = "none" /\ wait[m].at = "none" /\ msgs[m].kind = "add" /\ msgs[m].chan = c
      /\ c # 0 /\ chans[c].channel /\ Pending(c) = 0 /\ task.at = "save"
  BY <1>1, <1>2, MessageFields DEF SaveAddFunds, ConfirmInv, TaskFree
<1>4. c \in MsgIds /\ task.amt \in Nat /\ task.dead \in BOOLEAN
  BY <1>3, AskedIsNat, MessageFields DEF FundsShape, Task
<1>5. /\ chans \in [MsgIds -> Channel] /\ infos \in [MsgIds -> Info] /\ wait \in [MsgIds -> Wait]
      /\ chans[c] \in Channel
  BY <1>4 DEF ConfirmInv, RecordsShape
<1>6. PICK x : x = [[chans[c] EXCEPT !.pending = task.amt] EXCEPT !.addf = m]
  OBVIOUS
<1>7. /\ x \in Channel /\ x.state = chans[c].state /\ x.channel = chans[c].channel
      /\ x.create = chans[c].create /\ x.addf = m /\ x.amount = chans[c].amount /\ x.pending = task.amt
  BY <1>3, <1>4, <1>5, <1>6 DEF Channel
<1>8. PICK i : i = [state |-> "sent", chan |-> c, err |-> FALSE]
  OBVIOUS
<1>9. PICK w : w = [at |-> "wait", res |-> "none", dead |-> task.dead]
  OBVIOUS
<1> DEFINE saved == [chans EXCEPT ![c].pending = task.amt, ![c].addf = m]
<1>10. ASSUME chans' = saved
       PROVE  chans' = [chans EXCEPT ![c] = x]
  BY <1>4, <1>5, <1>6, <1>10
<1>11. /\ UNCHANGED <<msgs, fup>> /\ task' = NoTask /\ wait' = [wait EXCEPT ![m] = w]
       /\ chans' = [chans EXCEPT ![c] = x] \/ (chans' = chans /\ StoreFails(task.dead))
       /\ infos' = infos \/ infos' = [infos EXCEPT ![m] = i]
  <2>1. UNCHANGED <<msgs, fup>> /\ task' = NoTask
    BY DEF SaveAddFunds, MergedOnComplete, fproc
  <2>2. wait' = [wait EXCEPT ![m] = w]
    BY <1>1, <1>9 DEF SaveAddFunds
  <2>3. \/ StoreFails(task.dead) /\ chans' \in {chans, saved}
           /\ infos' = infos
        \/ /\ chans' = saved
           /\ infos' = [infos EXCEPT ![m] = i]
    BY <1>1, <1>2, <1>8 DEF SaveAddFunds
  <2> HIDE DEF saved
  <2>4. chans' = [chans EXCEPT ![c] = x] \/ (chans' = chans /\ StoreFails(task.dead))
    BY <1>10, <2>3, Zenon
  <2>5. infos' = infos \/ infos' = [infos EXCEPT ![m] = i]
    BY <2>3, Zenon
  <2>. QED
    BY <2>1, <2>2, <2>4, <2>5, Zenon
<1>12. i \in Info /\ i.state = "sent" /\ w \in Wait /\ w.at = "wait" /\ w.dead = task.dead
  BY <1>4, <1>8, <1>9 DEF Info, Wait, MsgIds
<1>13. /\ chans'[c] = x \/ (chans'[c] = chans[c] /\ StoreFails(task.dead))
       /\ \A d \in MsgIds \ {c} : chans'[d] = chans[d]
       /\ infos'[m].state \in {"none", "sent"} /\ \A n \in MsgIds \ {m} : infos'[n] = infos[n]
       /\ wait'[m] = w /\ \A n \in MsgIds \ {m} : wait'[n] = wait[n]
  BY <1>3, <1>4, <1>5, <1>11, <1>12
<1>14. RecordsShape'
  BY <1>5, <1>7, <1>11, <1>12 DEF RecordsShape
<1>15. task'.at = "none" /\ TaskFree'
  BY <1>11 DEF TaskFree, NoTask
<1>16. /\ ChanShape(c) /\ chans[c].state # "none" /\ chans[c].create = 0 /\ chans[c].addf = 0
  BY <1>3, <1>4 DEF ConfirmInv, ChannelsKnown, ChanShape, NoChan, Pending
<1>17. (Pending(c)' = m /\ chans'[c] = x) \/ (Pending(c)' = 0 /\ chans'[c] = chans[c] /\ StoreFails(task.dead))
  BY <1>7, <1>13, <1>16 DEF Pending
<1>18. ChanShape(c)' /\ PendingKnown(c)' /\ chans'[c].channel /\ chans'[c].amount = chans[c].amount
  <2>1. ChanShape(c)'
    <3>1. /\ chans'[c].state # "none" /\ chans'[c].channel /\ chans'[c].create = 0 /\ c # 0
          /\ c <= Len(msgs')
      <4>1. c <= Len(msgs') /\ c # 0
        BY <1>3, <1>11, <1>16 DEF ChanShape
      <4>2. CASE chans'[c] = x
        BY <1>3, <1>7, <1>16, <4>1, <4>2
      <4>3. CASE chans'[c] = chans[c]
        BY <1>3, <1>16, <4>1, <4>3
      <4>. QED
        BY <1>13, <4>2, <4>3
    <3>. QED
      BY <3>1 DEF ChanShape
  <2>2. PendingKnown(c)'
    BY <1>3, <1>7, <1>11, <1>16, <1>17 DEF PendingKnown
  <2>. QED
    BY <1>3, <1>7, <1>13, <2>1, <2>2
<1>19. ASSUME NEW n \in MsgIds PROVE InfoPushed(n)' /\ WaitPending(n)'
  <2>1. InfoPushed(n) /\ WaitPending(n) /\ n # 0
    BY DEF ConfirmInv, ChannelsKnown, MsgIds
  <2>2. CASE n = m
    <3>1. InfoPushed(n)' /\ (wait'[n].at # "none" => n <= Len(msgs'))
      BY <1>3, <1>11, <2>2 DEF InfoPushed
    <3>2. ASSUME Working(n)' PROVE Pending(c)' = n
      BY <1>12, <1>13, <1>17, <2>2, <3>2 DEF Working, StoreFails
    <3>. QED
      BY <1>3, <1>11, <2>2, <3>1, <3>2 DEF WaitPending
  <2>3. CASE n # m
    <3>1. InfoPushed(n)' /\ wait'[n] = wait[n]
      BY <1>11, <1>13, <2>1, <2>3 DEF InfoPushed
    <3>2. ASSUME Working(n) PROVE Pending(msgs[n].chan)' = Pending(msgs[n].chan)
      <4>1. Pending(msgs[n].chan) = n /\ n \in 1 .. Len(msgs)
        BY <2>1, <3>2 DEF WaitPending, Working, MsgIds
      <4>2. msgs[n].chan # c
        BY <1>3, <2>1, <4>1
      <4>3. chans'[msgs[n].chan] = chans[msgs[n].chan]
        BY <1>13, <4>1, <4>2, MessageFields
      <4>. QED
        BY <1>11, <4>3 DEF Pending
    <3>3. Working(n)' => Working(n)
      BY <3>1 DEF Working, StoreFails
    <3>. QED
      BY <1>11, <2>1, <3>1, <3>2, <3>3 DEF WaitPending
  <2>. QED
    BY <2>2, <2>3
<1>20. ASSUME NEW n \in 1 .. Len(msgs), Good(n)' \/ Found(n)' PROVE Good(n) \/ Found(n)
  BY <1>12, <1>13, <1>20, MessageFields DEF Good, Found, StoreFails
<1>21. Confirmed(c)'
  <2>1. PICK S \in SUBSET (1 .. Len(msgs)) : Counts(c, S)
    BY <1>3, <1>4 DEF ConfirmInv, Confirmed
  <2>2. MessagesKept /\ Len(msgs') = Len(msgs)
    BY <1>11, KeptByStill
  <2>3. m \notin S /\ 0 \notin S
    BY <1>1, <1>3, <2>1 DEF Counts
  <2>4. ChannelsKnown /\ \A n \in S : Pending(c)' # n
    BY <1>17, <2>3 DEF ConfirmInv
  <2>5. \A n \in 1 .. Len(msgs') : msgs'[n].chan = c /\ (Good(n)' \/ Found(n)') =>
           n \in 1 .. Len(msgs) /\ (Good(n) \/ Found(n) \/ n \in S)
    BY <1>20, <2>2
  <2>6. S \in SUBSET (1 .. Len(msgs')) /\ Counts(c, S)'
    BY <1>4, <1>15, <1>18, <2>1, <2>2, <2>4, <2>5, CountsKept
  <2>. QED
    BY <2>6 DEF Confirmed
<1>. QED
  BY <1>4, <1>11, <1>13, <1>14, <1>15, <1>18, <1>19, <1>20, <1>21, ChannelConfirm

\* What a set of messages brings when one more is counted.
LEMMA DepositedOneMore ==
  ASSUME FundsShape, NEW S \in SUBSET (1 .. Len(msgs)), NEW m \in 1 .. Len(msgs), m \notin S
  PROVE  Deposited(S \cup {m}) = Deposited(S) + msgs[m].val
<1>1. PICK f : f = [k \in DOMAIN msgs |-> msgs[k].val]
  OBVIOUS
<1>2. NatOn(f, S) /\ f[m] = msgs[m].val /\ f[m] \in Int
  BY <1>1, DepositsSum, MessageFields
<1>3. SumFunctionOnSet(f, S \cup {m}) = SumFunctionOnSet(f, S) + f[m]
  BY <1>2, NatOnIsIntOn, SumAddOne
<1>. QED
  BY <1>1, <1>2, <1>3 DEF Deposited

\* One more message deposits its value.
LEMMA DepositedOne ==
  ASSUME FundsShape, NEW m \in 1 .. Len(msgs)
  PROVE  Deposited({m}) = msgs[m].val
<1>1. Deposited({}) = 0
  BY SumEmpty DEF Deposited
<1>2. Deposited({} \cup {m}) = Deposited({}) + msgs[m].val
  BY DepositedOneMore
<1>3. {} \cup {m} = {m}
  OBVIOUS
<1>4. Deposited({m}) = Deposited({} \cup {m})
  BY <1>3
<1>. QED
  BY <1>1, <1>2, <1>4, MessageFields

\* The channel's record after the message m it waits for has executed.
LEMMA ResultFields ==
  ASSUME FundsShape, ConfirmInv, NEW c \in MsgIds, NEW m \in 1 .. Len(msgs), Pending(c) = m, msgs[m].st # "pool",
         NEW x, x = MessageResult(chans[c], m)
  PROVE  /\ x \in Channel /\ x.create = 0 /\ x.addf = 0
         /\ \/ x = NoChan /\ msgs[m].kind = "create" /\ msgs[m].st = "fail"
            \/ /\ x.state = "saved" /\ x.channel
               /\ msgs[m].st = "ok" => x.amount = chans[c].amount + msgs[m].val \/ msgs[m].kind = "create"
               /\ msgs[m].kind = "create" => x.amount = msgs[m].val /\ msgs[m].st = "ok"
               /\ msgs[m].st = "fail" => x.amount = chans[c].amount
         /\ chans[c].state = "saved" /\ (chans[c].channel <=> msgs[m].kind = "add")
<1>1. /\ chans[c] \in Channel /\ chans[c].state = "saved" /\ ChanShape(c) /\ PendingKnown(c) /\ m # 0 /\ c # 0
      /\ msgs[m].kind \in {"create", "add"} /\ msgs[m].val \in Nat /\ msgs[m].st \in {"ok", "fail"}
  BY MessageFields DEF ConfirmInv, ChannelsKnown, RecordsShape, Channel, Pending, MsgIds
<1>2. /\ chans[c].pending = msgs[m].val /\ (msgs[m].kind = "create" <=> chans[c].create # 0)
      /\ chans[c].create = c => chans[c].addf = 0
      /\ chans[c].channel <=> chans[c].create = 0
  BY <1>1 DEF PendingKnown, ChanShape
<1>3. CASE msgs[m].kind = "create" /\ msgs[m].st = "fail"
  BY <1>1, <1>2, <1>3 DEF MessageResult, NoChan, Channel
<1>4. CASE msgs[m].kind = "create" /\ msgs[m].st = "ok"
  <2>1. x = [chans[c] EXCEPT !.channel = TRUE, !.amount = msgs[m].val, !.pending = 0, !.create = 0]
    BY <1>1, <1>2, <1>4 DEF MessageResult
  <2>a. PICK y : y = [chans[c] EXCEPT !.channel = TRUE, !.amount = msgs[m].val]
    OBVIOUS
  <2>b. /\ y \in Channel /\ y.create = chans[c].create /\ y.addf = chans[c].addf /\ y.state = "saved"
        /\ y.channel = TRUE /\ y.amount = msgs[m].val
    BY <1>1, <2>a DEF Channel
  <2>c. PICK z : z = [y EXCEPT !.pending = 0]
    OBVIOUS
  <2>d. /\ z \in Channel /\ z.addf = chans[c].addf /\ z.state = "saved" /\ z.channel = TRUE
        /\ z.amount = msgs[m].val
    BY <2>b, <2>c DEF Channel
  <2>e. x = [z EXCEPT !.create = 0]
    BY <2>1, <2>a, <2>c
  <2>2. /\ x \in Channel /\ x.create = 0 /\ x.addf = chans[c].addf /\ x.state = "saved" /\ x.channel = TRUE
        /\ x.amount = msgs[m].val
    BY <2>d, <2>e DEF Channel
  <2>3. chans[c].create = c
    BY <1>1, <1>2, <1>4 DEF ChanShape
  <2>. QED
    BY <1>1, <1>2, <1>4, <2>2, <2>3
<1>5. CASE msgs[m].kind = "add"
  <2>1. PICK a : a = IF msgs[m].st = "ok" THEN chans[c].amount + msgs[m].val ELSE chans[c].amount
    OBVIOUS
  <2>2. x = [chans[c] EXCEPT !.amount = a, !.pending = 0, !.addf = 0]
    BY <1>1, <1>2, <1>5, <2>1 DEF MessageResult
  <2>3. chans[c].amount \in Nat
    BY <1>1 DEF Channel
  <2>4. a \in Nat
    BY <1>1, <2>1, <2>3
  <2>a. PICK y : y = [chans[c] EXCEPT !.amount = a, !.pending = 0]
    OBVIOUS
  <2>b. /\ y \in Channel /\ y.create = chans[c].create /\ y.state = "saved"
        /\ y.channel = chans[c].channel /\ y.amount = a
    BY <1>1, <2>4, <2>a DEF Channel
  <2>c. x = [y EXCEPT !.addf = 0]
    BY <2>2, <2>a
  <2>5. /\ x \in Channel /\ x.create = chans[c].create /\ x.addf = 0 /\ x.state = "saved"
        /\ x.channel = chans[c].channel /\ x.amount = a
    BY <2>b, <2>c DEF Channel
  <2>. QED
    BY <1>1, <1>2, <1>5, <2>1, <2>5
<1>. QED
  BY <1>1, <1>3, <1>4, <1>5

\* The wait for a message has its result: when the store takes it, the channel
\* that waits for the message counts it or forgets it.
LEMMA WaitReturnsConfirm ==
  ASSUME FundsShape, FundsShape', ConfirmInv, NEW m \in MsgIds, WaitReturns(m)
  PROVE  ConfirmInv'
<1>1. PICK c : c = msgs[m].chan
  OBVIOUS
<1>2. /\ UNCHANGED <<infos, msgs, task, fup>> /\ task = NoTask /\ wait[m].at = "wait" /\ msgs[m].st # "pool"
      /\ wait' = [wait EXCEPT ![m].at = "complete", ![m].res = msgs[m].st]
      /\ chans' = IF StoreFails(wait[m].dead) \/ chans[c].state = "none" THEN chans
                  ELSE [chans EXCEPT ![c] = MessageResult(@, m)]
  BY <1>1 DEF WaitReturns, Unlocked, fproc
<1>3. WaitPending(m) /\ m \in 1 .. Len(msgs) /\ MessageKind(m)
  BY <1>2 DEF ConfirmInv, ChannelsKnown, WaitPending, MsgIds
<1>4. c \in MsgIds /\ msgs[m].st \in {"ok", "fail"}
  BY <1>1, <1>2, <1>3, MessageFields
<1>5. chans \in [MsgIds -> Channel] /\ wait \in [MsgIds -> Wait] /\ wait[m] \in Wait
  BY DEF ConfirmInv, RecordsShape
<1>6. PICK w : w = [[wait[m] EXCEPT !.at = "complete"] EXCEPT !.res = msgs[m].st]
  OBVIOUS
<1>7. w \in Wait /\ w.at = "complete" /\ w.res = msgs[m].st /\ w.dead = wait[m].dead
  BY <1>4, <1>5, <1>6 DEF Wait
<1>8. wait' = [wait EXCEPT ![m] = w]
  BY <1>2, <1>5, <1>6
<1>9. /\ wait' \in [MsgIds -> Wait] /\ wait'[m] = w
      /\ \A n \in MsgIds \ {m} : wait'[n] = wait[n]
  BY <1>5, <1>7, <1>8
<1>10. task'.at = "none" /\ TaskFree'
  BY <1>2 DEF TaskFree, NoTask, ConfirmInv
<1>11. \A n \in MsgIds : (Working(n)' => Working(n) /\ n # m) /\ (Good(n)' => Good(n))
                           /\ (Found(n)' /\ n # m => Found(n))
  BY <1>2, <1>7, <1>9 DEF Working, Good, Found, StoreFails
<1>12. \A n \in 1 .. Len(msgs) : Good(n)' \/ Found(n)' => Good(n) \/ Found(n) \/ msgs[n].chan = c
  BY <1>1, <1>11, MessageFields
<1>13. MessagesKept /\ Len(msgs') = Len(msgs) /\ 1 .. Len(msgs) \subseteq MsgIds
  BY <1>2, KeptByStill, MessageFields
<1>14. ASSUME NEW n \in MsgIds, \A d \in MsgIds \ {c} : chans'[d] = chans[d],
              chans' = chans \/ Pending(c) = m
       PROVE  InfoPushed(n)' /\ WaitPending(n)'
  <2>1. InfoPushed(n) /\ WaitPending(n)
    BY DEF ConfirmInv, ChannelsKnown
  <2>2. wait'[n].at # "none" => wait[n].at # "none"
    BY <1>2, <1>9
  <2>3. ASSUME Working(n)' PROVE Pending(msgs[n].chan)' = Pending(msgs[n].chan)
    <3>1. Working(n) /\ n # m
      BY <1>11, <2>3
    <3>2. Pending(msgs[n].chan) = n /\ n \in 1 .. Len(msgs)
      BY <2>1, <3>1 DEF WaitPending, Working, MsgIds
    <3>3. CASE chans' = chans
      BY <1>2, <3>3 DEF Pending
    <3>4. CASE Pending(c) = m
      <4>1. msgs[n].chan # c
        BY <3>1, <3>2, <3>4
      <4>2. chans'[msgs[n].chan] = chans[msgs[n].chan]
        BY <1>14, <3>2, <4>1, MessageFields
      <4>. QED
        BY <1>2, <4>2 DEF Pending
    <3>. QED
      BY <1>14, <3>3, <3>4
  <2>4. Working(n)' => Working(n)
    BY <1>11
  <2>. QED
    BY <1>2, <2>1, <2>2, <2>3, <2>4 DEF InfoPushed, WaitPending
<1>15. CASE StoreFails(wait[m].dead) \/ chans[c].state = "none"
  <2>1. chans' = chans
    BY <1>2, <1>15
  <2>2. ChanShape(c) /\ PendingKnown(c) /\ Confirmed(c) /\ Pending(c)' = Pending(c)
    BY <1>4, <2>1 DEF ConfirmInv, ChannelsKnown, Pending
  <2>3. ChanShape(c)' /\ PendingKnown(c)'
    BY <1>2, <2>1, <2>2 DEF ChanShape, PendingKnown
  <2>4. ASSUME chans[c].channel PROVE \E S \in SUBSET (1 .. Len(msgs')) : Counts(c, S)'
    <3>1. PICK S \in SUBSET (1 .. Len(msgs)) : Counts(c, S)
      BY <2>2, <2>4 DEF Confirmed
    <3>2. chans[c].state # "none"
      BY <2>2, <2>4 DEF ChanShape, NoChan
    <3>3. ~Found(m)'
      BY <1>7, <1>9, <1>15, <3>2 DEF Found, StoreFails
    <3>4. ChannelsKnown /\ \A n \in S : Pending(c)' # n
      BY <2>2, <3>1 DEF ConfirmInv, Counts
    <3>5. \A n \in 1 .. Len(msgs') : msgs'[n].chan = c /\ (Good(n)' \/ Found(n)') =>
             n \in 1 .. Len(msgs) /\ (Good(n) \/ Found(n) \/ n \in S)
      BY <1>11, <1>13, <3>3
    <3>6. S \in SUBSET (1 .. Len(msgs')) /\ Counts(c, S)'
      BY <1>4, <1>10, <1>13, <2>1, <3>1, <3>4, <3>5, CountsKept
    <3>. QED
      BY <3>6
  <2>5. Confirmed(c)'
    BY <2>1, <2>4 DEF Confirmed
  <2>6. RecordsShape'
    BY <1>2, <1>9, <2>1 DEF ConfirmInv, RecordsShape
  <2>7. \A n \in MsgIds : InfoPushed(n)' /\ WaitPending(n)'
    BY <1>14, <2>1
  <2>. QED
    BY <1>2, <1>4, <1>10, <1>12, <2>1, <2>3, <2>5, <2>6, <2>7, ChannelConfirm
<1>16. CASE ~StoreFails(wait[m].dead) /\ chans[c].state # "none"
  <2>1. Pending(c) = m
    BY <1>1, <1>2, <1>3, <1>16 DEF WaitPending, Working
  <2>2. PICK x : x = MessageResult(chans[c], m)
    OBVIOUS
  <2>3. chans' = [chans EXCEPT ![c] = x]
    BY <1>2, <1>16, <2>2
  <2>4. /\ x \in Channel /\ x.create = 0 /\ x.addf = 0
        /\ \/ x = NoChan /\ msgs[m].kind = "create" /\ msgs[m].st = "fail"
           \/ /\ x.state = "saved" /\ x.channel
              /\ msgs[m].st = "ok" => x.amount = chans[c].amount + msgs[m].val \/ msgs[m].kind = "create"
              /\ msgs[m].kind = "create" => x.amount = msgs[m].val /\ msgs[m].st = "ok"
              /\ msgs[m].st = "fail" => x.amount = chans[c].amount
        /\ chans[c].state = "saved" /\ (chans[c].channel <=> msgs[m].kind = "add")
    BY <1>2, <1>3, <1>4, <2>1, <2>2, ResultFields
  <2>5. chans'[c] = x /\ \A d \in MsgIds \ {c} : chans'[d] = chans[d]
    BY <1>4, <1>5, <2>3
  <2>6. RecordsShape'
    BY <1>2, <1>5, <1>9, <2>3, <2>4 DEF ConfirmInv, RecordsShape
  <2>7. Pending(c)' = 0
    BY <2>4, <2>5 DEF Pending
  <2>8. ChanShape(c) /\ c # 0 /\ Confirmed(c)
    BY <1>4 DEF ConfirmInv, ChannelsKnown, MsgIds
  <2>9. ChanShape(c)' /\ PendingKnown(c)'
    <3>1. c <= Len(msgs')
      BY <1>2, <1>16, <2>8 DEF ChanShape
    <3>2. CASE x = NoChan
      BY <2>5, <2>7, <2>8, <3>2 DEF ChanShape, NoChan, PendingKnown
    <3>3. CASE x.state = "saved" /\ x.channel
      BY <2>4, <2>5, <2>7, <2>8, <3>1, <3>3 DEF ChanShape, PendingKnown
    <3>. QED
      BY <2>4, <3>2, <3>3
  <2>10. chans[c].channel => chans'[c].channel
    BY <2>4, <2>5
  <2>11. Confirmed(c)'
    <3> SUFFICES ASSUME x.channel PROVE \E S \in SUBSET (1 .. Len(msgs')) : Counts(c, S)'
      BY <2>5 DEF Confirmed
    <3>1. x # NoChan
      BY DEF NoChan
    <3>2. CASE msgs[m].kind = "create"
      <4>1. \A n \in 1 .. Len(msgs) : msgs[n].chan = c => n = m
        BY <1>1, <1>3, <2>4, <3>2, MessageFields DEF ConfirmInv, MessageKind
      <4>2. x.amount = msgs[m].val /\ msgs[m].st = "ok" /\ m # 0
        BY <1>3, <2>4, <3>1, <3>2
      <4>3. Deposited({m})' = Deposited({m}) /\ Deposited({m}) = msgs[m].val
        BY <1>3, <1>13, DepositedKept, DepositedOne
      <4>4. Counts(c, {m})'
        BY <1>1, <1>2, <1>10, <2>5, <2>7, <4>1, <4>2, <4>3 DEF Counts
      <4>. QED
        BY <1>3, <1>13, <4>4
    <3>3. CASE msgs[m].kind = "add"
      <4>1. PICK S \in SUBSET (1 .. Len(msgs)) : Counts(c, S)
        BY <2>4, <2>8, <3>3 DEF Confirmed
      <4>2. m \notin S /\ 0 \notin S /\ ChannelsKnown
        BY <2>1, <4>1 DEF Counts, ConfirmInv
      <4>3. CASE msgs[m].st = "fail"
        <5>1. ~Found(m)' /\ chans'[c].amount = chans[c].amount
          BY <1>7, <1>9, <2>4, <2>5, <3>1, <4>3 DEF Found
        <5>2. \A n \in 1 .. Len(msgs') : msgs'[n].chan = c /\ (Good(n)' \/ Found(n)') =>
                 n \in 1 .. Len(msgs) /\ (Good(n) \/ Found(n) \/ n \in S)
          BY <1>11, <1>13, <5>1
        <5>3. \A n \in S : Pending(c)' # n
          BY <2>7, <4>2
        <5>4. S \in SUBSET (1 .. Len(msgs')) /\ Counts(c, S)'
          BY <1>4, <1>10, <1>13, <4>1, <4>2, <5>1, <5>2, <5>3, CountsKept
        <5>. QED
          BY <5>4
      <4>4. CASE msgs[m].st = "ok"
        <5>1. PICK T : T = S \cup {m}
          OBVIOUS
        <5>2. T \in SUBSET (1 .. Len(msgs)) /\ 0 \notin T
          BY <1>3, <4>1, <4>2, <5>1
        <5>3. Deposited(S \cup {m}) = Deposited(S) + msgs[m].val
          BY <1>3, <4>1, <4>2, DepositedOneMore
        <5>4. Deposited(T) = Deposited(S \cup {m})
          BY <5>1
        <5>5. Deposited(T)' = Deposited(T)
          BY <1>13, <5>2, DepositedKept
        <5>6. x.amount = Deposited(T)'
          BY <2>4, <3>1, <3>3, <4>1, <4>4, <5>3, <5>4, <5>5 DEF Counts
        <5>7. \A n \in T : msgs'[n].chan = c /\ msgs'[n].st = "ok" /\ Pending(c)' # n
          BY <1>1, <1>2, <2>7, <4>1, <4>4, <5>1, <5>2 DEF Counts
        <5>8. \A n \in 1 .. Len(msgs') : msgs'[n].chan = c /\ (Good(n)' \/ Found(n)') => n \in T
          BY <1>2, <1>11, <1>13, <4>1, <5>1 DEF Counts
        <5>9. Counts(c, T)'
          BY <1>10, <2>5, <5>6, <5>7, <5>8 DEF Counts
        <5>. QED
          BY <1>13, <5>2, <5>9
      <4>. QED
        BY <1>4, <4>3, <4>4
    <3>. QED
      BY <1>3, <3>2, <3>3, MessageFields
  <2>12. \A n \in MsgIds : InfoPushed(n)' /\ WaitPending(n)'
    BY <1>14, <2>1, <2>5
  <2>. QED
    BY <1>2, <1>4, <1>10, <1>12, <2>5, <2>6, <2>9, <2>10, <2>11, <2>12, ChannelConfirm
<1>. QED
  BY <1>15, <1>16

\* No channel is recorded when the process first starts.
LEMMA ConfirmInitInv == FundsInit => ConfirmInv
<1> SUFFICES ASSUME FundsInit PROVE ConfirmInv
  OBVIOUS
<1>1. /\ chans = [m \in MsgIds |-> NoChan] /\ infos = [m \in MsgIds |-> NoInfo]
      /\ wait = [m \in MsgIds |-> NoWait] /\ Len(msgs) = 0 /\ task.at = "none"
  BY DEF FundsInit, NoTask
<1>2. NoChan \in Channel /\ NoInfo \in Info /\ NoWait \in Wait
  BY DEF NoChan, NoInfo, NoWait, Channel, Info, Wait
<1>3. RecordsShape /\ TaskFree
  BY <1>1, <1>2 DEF RecordsShape, TaskFree
<1>4. ChannelsKnown
  <2> SUFFICES ASSUME NEW c \in MsgIds
               PROVE  ChanShape(c) /\ PendingKnown(c) /\ InfoPushed(c) /\ WaitPending(c)
    BY DEF ChannelsKnown
  <2>1. chans[c] = NoChan /\ infos[c] = NoInfo /\ wait[c] = NoWait /\ c # 0
    BY <1>1 DEF MsgIds
  <2>. QED
    BY <2>1 DEF ChanShape, PendingKnown, Pending, InfoPushed, WaitPending, Working, NoChan, NoInfo, NoWait
<1>5. \A m \in 1 .. Len(msgs) : MessageKind(m)
  BY <1>1
<1>6. \A c \in MsgIds : Confirmed(c)
  BY <1>1 DEF Confirmed, NoChan
<1>. QED
  BY <1>3, <1>4, <1>5, <1>6 DEF ConfirmInv

\* Every step keeps what the channels count.
LEMMA ConfirmNextInv ==
  ASSUME FundsShape, FundsShape', ConfirmInv, [FundsNext]_fundsVars
  PROVE  ConfirmInv'
<1>1. CASE UNCHANGED fundsVars
  BY <1>1, QuietConfirm DEF fundsVars
<1>2. ASSUME NEW r \in Reqs, GetPaych(r) \/ CtxDone(r) \/ GetPaychWaitReady(r) PROVE ConfirmInv'
  BY <1>2, QuietConfirm DEF GetPaych, CtxDone, GetPaychWaitReady, records, fproc
<1>3. ASSUME NEW r \in Reqs, CallerCancelled(r) PROVE ConfirmInv'
  BY <1>3, CancelConfirm
<1>4. CASE ProcessQueue \/ AvailableFundsCall
  BY <1>4, RunQueueConfirm DEF ProcessQueue, AvailableFundsCall, Unlocked, records, fproc
<1>5. CASE PushMessage
  <2>1. ASSUME MergedOnComplete("err", 0), UNCHANGED msgs PROVE ConfirmInv'
    BY <1>5, <2>1, TaskEndsConfirm DEF PushMessage, MergedOnComplete, records
  <2>. QED
    BY <1>5, <2>1, PushConfirm DEF PushMessage, records, fproc
<1>6. CASE CreateChannel
  BY <1>6, CreateConfirm
<1>7. CASE SaveAddFunds
  BY <1>7, AddConfirm
<1>8. ASSUME NEW m \in MsgIds, WaitReturns(m) PROVE ConfirmInv'
  BY <1>8, WaitReturnsConfirm
<1>9. ASSUME NEW m \in MsgIds, WaitFails(m) PROVE ConfirmInv'
  BY <1>9, WaitFailsConfirm
<1>10. ASSUME NEW m \in MsgIds, MsgWaitComplete(m) PROVE ConfirmInv'
  BY <1>10, WaitCompleteConfirm
<1>11. ASSUME NEW m \in MsgIds, FundsExec(m) PROVE ConfirmInv'
  BY <1>11, ExecConfirm
<1>12. ASSUME NEW m \in MsgIds, SettleChannel(m) PROVE ConfirmInv'
  BY <1>12, SettleConfirm
<1>13. CASE FundsCrash
  BY <1>13, CrashConfirm
<1>14. CASE FundsStart
  BY <1>14, StartConfirm
<1>. QED
  BY <1>1, <1>2, <1>3, <1>4, <1>5, <1>6, <1>7, <1>8, <1>9, <1>10, <1>11, <1>12, <1>13, <1>14
  DEF FundsNext

\* The set of counted messages lies between what is received and what has executed.
LEMMA CountedIsConfirmed == ASSUME FundsShape, ConfirmInv PROVE ConfirmedIsOnChain
<1> SUFFICES ASSUME NEW c \in MsgIds, chans[c].channel,
                    NEW brought, brought = {m \in DOMAIN msgs : msgs[m].chan = c /\ msgs[m].st = "ok" /\ Pending(c) # m},
                    NEW received, received = {m \in brought : infos[m].state = "received" /\ ~infos[m].err}
             PROVE  chans[c].amount \in Deposited(received) .. Deposited(brought)
  BY DEF ConfirmedIsOnChain
<1>1. PICK S \in SUBSET (1 .. Len(msgs)) : Counts(c, S)
  BY DEF ConfirmInv, Confirmed
<1>2. DOMAIN msgs = 1 .. Len(msgs)
  BY MessageFields
<1>3. S \subseteq brought /\ brought \subseteq 1 .. Len(msgs)
  BY <1>1, <1>2 DEF Counts
<1>4. received \subseteq S
  BY <1>1, <1>2 DEF Counts, Good
<1>5. PICK f : f = [m \in DOMAIN msgs |-> msgs[m].val]
  OBVIOUS
<1>6. NatOn(f, S) /\ NatOn(f, brought) /\ NatOn(f, received)
  BY <1>3, <1>4, <1>5, DepositsSum
<1>7. /\ SumFunctionOnSet(f, received) <= SumFunctionOnSet(f, S)
      /\ SumFunctionOnSet(f, S) <= SumFunctionOnSet(f, brought)
  BY <1>3, <1>4, <1>6, SumSubset
<1>8. /\ SumFunctionOnSet(f, received) \in Nat /\ SumFunctionOnSet(f, S) \in Nat
      /\ SumFunctionOnSet(f, brought) \in Nat
  BY <1>6, SumNat
<1>9. chans[c].amount = Deposited(S)
  BY <1>1 DEF Counts
<1>. QED
  BY <1>5, <1>7, <1>8, <1>9 DEF Deposited

\* ConfirmedIsOnChain: the confirmed amount of a channel (ChannelInfo.Amount)
\* counts every deposit recorded as received without error, and only deposits
\* that have executed and are no longer waited for, each of them once, whatever is
\* cancelled, fails, crashes or is waited for anew.
THEOREM FundsConfirmed == FundsSpec => []ConfirmedIsOnChain
<1>1. FundsInit => FundsInv /\ ConfirmInv
  BY FundsInitInv, ConfirmInitInv
<1>2. FundsInv /\ ConfirmInv /\ [FundsNext]_fundsVars => FundsInv' /\ ConfirmInv'
  <2> SUFFICES ASSUME FundsInv, ConfirmInv, [FundsNext]_fundsVars PROVE FundsInv' /\ ConfirmInv'
    OBVIOUS
  <2>1. FundsInv'
    BY FundsNextInv
  <2>2. FundsShape /\ FundsShape'
    BY <2>1 DEF FundsInv
  <2>. QED
    BY <2>1, <2>2, ConfirmNextInv
<1>3. FundsInv /\ ConfirmInv => ConfirmedIsOnChain
  BY CountedIsConfirmed DEF FundsInv
<1>. QED
  BY <1>1, <1>2, <1>3, PTL DEF FundsSpec

-----------------------------------------------------------------------------
(* The vouchers of a channel: AcceptedVoucherKept.                           *)

LockNames == {"Target->Control", "Control->Target"}

\* A call holds a lock exactly while it is about to save.
LocksHeld ==
  \A o \in Actors : /\ op[o].pc = "save" => op[o].lock \in LockNames
                    /\ op[o].pc # "save" => op[o].lock = "none"

\* Two calls never hold the same lock.
LocksExclusive ==
  \A o, p \in Actors : op[o].lock = op[p].lock /\ op[o].lock # "none" => o = p

\* A call that is about to save works on a tracked channel, and returns only
\* vouchers that are in what it writes.
CopiesTracked ==
  \A o \in Actors : op[o].pc = "save" => /\ rec.tracked /\ op[o].out.tracked
                                         /\ op[o].adds \subseteq op[o].out.vouchers

\* On an outbound channel there is one lock, and its holder writes all that is
\* stored.
OneLockOutbound ==
  dir = "out" => \A o \in Actors : op[o].pc = "save" => /\ op[o].lock = "Control->Target"
                                                        /\ rec.vouchers \subseteq op[o].out.vouchers

\* Vouchers are accepted on tracked channels only.
AcceptedTracked == accepted # {} => rec.tracked

IsRecord(r) ==
  r = [tracked |-> r.tracked, vouchers |-> r.vouchers, submitted |-> r.submitted, next |-> r.next]

IsCall(c) ==
  /\ c = [pc |-> c.pc, lock |-> c.lock, out |-> c.out, adds |-> c.adds, lanes |-> c.lanes]
  /\ IsRecord(c.out)

\* The fields that the stored record and the calls have.
Shape ==
  /\ dir \in {"in", "out"} /\ IsRecord(rec)
  /\ op = [o \in Actors |-> op[o]] /\ \A o \in Actors : IsCall(op[o])

VoucherInv ==
  /\ Shape /\ LocksHeld /\ LocksExclusive /\ CopiesTracked /\ OneLockOutbound /\ AcceptedTracked
  /\ AcceptedVoucherKept

-----------------------------------------------------------------------------

\* The invariant holds when the channel has no voucher and no call runs.
LEMMA InitHolds == VoucherInit => VoucherInv
<1> SUFFICES ASSUME VoucherInit
             PROVE  VoucherInv
  OBVIOUS
<1>1. dir \in {"in", "out"} /\ accepted = {} /\ IsRecord(rec)
  BY PaychVouchersAssumption DEF VoucherInit, NoRec, IsRecord
<1>2. IsRecord(NoRec)
  BY DEF NoRec, IsRecord
<1>3. IsCall(IdleOp) /\ IdleOp.pc = "idle" /\ IdleOp.lock = "none"
  BY <1>2 DEF IdleOp, IsCall
<1>4. op = [o \in Actors |-> op[o]] /\ \A o \in Actors : op[o] = IdleOp
  BY DEF VoucherInit
<1> QED
  BY <1>1, <1>3, <1>4
  DEF VoucherInv, Shape, LocksHeld, LocksExclusive, CopiesTracked, OneLockOutbound,
      AcceptedTracked, AcceptedVoucherKept

\* Setting fields of a record leaves a record with the other fields as they were.
LEMMA RecordFields ==
  ASSUME NEW r, IsRecord(r), NEW vs, NEW x
  PROVE  /\ [r EXCEPT !.vouchers = vs, !.next = x]
              = [tracked |-> r.tracked, vouchers |-> vs, submitted |-> r.submitted, next |-> x]
         /\ [r EXCEPT !.vouchers = vs, !.submitted = x]
              = [tracked |-> r.tracked, vouchers |-> vs, submitted |-> x, next |-> r.next]
<1>1. PICK t, v, s, n : r = [tracked |-> t, vouchers |-> v, submitted |-> s, next |-> n]
  BY DEF IsRecord
<1>2. r.tracked = t /\ r.submitted = s /\ r.next = n
  BY <1>1
<1> DEFINE q == [r EXCEPT !.vouchers = vs]
<1>3. q = [tracked |-> t, vouchers |-> vs, submitted |-> s, next |-> n]
  BY <1>1
<1>4. /\ [r EXCEPT !.vouchers = vs, !.next = x] = [q EXCEPT !.next = x]
      /\ [r EXCEPT !.vouchers = vs, !.submitted = x] = [q EXCEPT !.submitted = x]
  OBVIOUS
<1> HIDE DEF q
<1>5. [q EXCEPT !.next = x] = [tracked |-> t, vouchers |-> vs, submitted |-> s, next |-> x]
  BY <1>3
<1>6. [q EXCEPT !.submitted = x] = [tracked |-> t, vouchers |-> vs, submitted |-> x, next |-> n]
  BY <1>3
<1> QED BY <1>2, <1>4, <1>5, <1>6

\* A call that takes a free lock after it has read the record, and will write a
\* copy that keeps what is stored, keeps the invariant.
LEMMA HoldKeeps ==
  ASSUME VoucherInv, NEW o \in Actors, NEW kind, NEW out, NEW adds, NEW lanes,
         Free(kind), Hold(o, kind, out, adds, lanes), kind # "addInbound" \/ dir = "in",
         IsRecord(out), out.tracked = rec.tracked, rec.vouchers \subseteq out.vouchers,
         adds \subseteq out.vouchers, UNCHANGED <<dir, rec, accepted, dropped>>
  PROVE  VoucherInv'
<1> DEFINE new == [pc |-> "save", lock |-> AccessorLock(kind), out |-> out, adds |-> adds, lanes |-> lanes]
<1>1. op' = [op EXCEPT ![o] = new]
  BY DEF Hold
<1>2. /\ op' = [p \in Actors |-> IF p = o THEN new ELSE op[p]]
      /\ op'[o] = new
      /\ \A p \in Actors \ {o} : op'[p] = op[p]
  BY <1>1 DEF VoucherInv, Shape
<1>3. /\ op'[o].pc = "save" /\ op'[o].lock = AccessorLock(kind)
      /\ op'[o].out = out /\ op'[o].adds = adds /\ IsCall(op'[o])
  BY <1>2 DEF IsCall
<1> HIDE DEF new
<1>4. AccessorLock(kind) \in LockNames
  BY DEF AccessorLock, LockNames
<1>5. Shape'
  BY <1>2, <1>3 DEF VoucherInv, Shape
<1>6. LocksHeld'
  BY <1>2, <1>3, <1>4 DEF VoucherInv, LocksHeld
<1>7. LocksExclusive'
  BY <1>2, <1>3, <1>4 DEF VoucherInv, LocksExclusive, Free, LockNames
<1>8. CopiesTracked'
  BY <1>2, <1>3 DEF VoucherInv, CopiesTracked, Free
<1>9. OneLockOutbound'
  <2> SUFFICES ASSUME dir = "out", NEW p \in Actors, op'[p].pc = "save"
               PROVE  op'[p].lock = "Control->Target" /\ rec.vouchers \subseteq op'[p].out.vouchers
    BY DEF OneLockOutbound
  <2>1. CASE p = o
    BY <2>1, <1>3 DEF AccessorLock
  <2>2. CASE p # o
    BY <2>2, <1>2 DEF VoucherInv, OneLockOutbound
  <2> QED BY <2>1, <2>2
<1>10. AcceptedTracked' /\ AcceptedVoucherKept'
  BY DEF VoucherInv, AcceptedTracked, AcceptedVoucherKept
<1> QED BY <1>5, <1>6, <1>7, <1>8, <1>9, <1>10 DEF VoucherInv

\* A call that ends without a change, and a step that moves neither a call nor
\* the record, keep the invariant.
LEMMA EndsKeeps ==
  ASSUME VoucherInv, NEW o \in Actors, Ends(o), op[o].pc = "idle",
         UNCHANGED <<dir, rec, accepted, dropped>>
  PROVE  VoucherInv'
<1> DEFINE new == [op[o] EXCEPT !.pc = "done"]
<1>1. /\ op' = [p \in Actors |-> IF p = o THEN new ELSE op[p]]
      /\ op'[o] = new
      /\ \A p \in Actors \ {o} : op'[p] = op[p]
  BY DEF VoucherInv, Shape, Ends
<1>2. op'[o].pc # "save" /\ op'[o].lock = op[o].lock /\ IsCall(op'[o])
  BY <1>1 DEF VoucherInv, Shape, IsCall
<1>3. op'[o].lock = "none"
  BY <1>2 DEF VoucherInv, LocksHeld
<1> HIDE DEF new
<1>4. Shape'
  BY <1>1, <1>2 DEF VoucherInv, Shape
<1>5. LocksHeld' /\ LocksExclusive' /\ CopiesTracked' /\ OneLockOutbound'
  BY <1>1, <1>2, <1>3 DEF VoucherInv, LocksHeld, LocksExclusive, CopiesTracked, OneLockOutbound
<1> QED
  BY <1>4, <1>5 DEF VoucherInv, AcceptedTracked, AcceptedVoucherKept

\* Adding a voucher, by the counterparty or by this side, keeps the invariant.
LEMMA AddKeeps ==
  ASSUME VoucherInv, NEW o \in Actors, NEW kind, NEW v, NEW d, AddVoucherUnlocked(o, kind, v, d),
         kind # "addInbound" \/ dir = "in", UNCHANGED <<dir, rec, accepted, dropped>>
  PROVE  VoucherInv'
<1> DEFINE out == [rec EXCEPT !.vouchers = @ \cup {v}, !.next = NextLane(rec, v)]
<1>1. out.tracked = rec.tracked /\ out.vouchers = rec.vouchers \cup {v} /\ IsRecord(out)
  <2>1. PICK n : n = NextLane(rec, v)
    OBVIOUS
  <2>2. out = [tracked |-> rec.tracked, vouchers |-> rec.vouchers \cup {v}, submitted |-> rec.submitted,
               next |-> n]
    BY <2>1, RecordFields DEF VoucherInv, Shape
  <2> QED BY <2>2 DEF IsRecord
<1>2. Free(kind) /\ op[o].pc = "idle" /\ (Hold(o, kind, out, {v}, << >>) \/ Ends(o))
  BY DEF AddVoucherUnlocked
<1>3. rec.vouchers \subseteq out.vouchers /\ {v} \subseteq out.vouchers
  BY <1>1
<1> HIDE DEF out
<1>4. CASE Hold(o, kind, out, {v}, << >>)
  BY <1>1, <1>2, <1>3, <1>4, HoldKeeps
<1>5. CASE Ends(o)
  BY <1>2, <1>5, EndsKeeps
<1> QED BY <1>2, <1>4, <1>5

\* A submission, by a caller or by the settler, keeps the invariant.
LEMMA SubmitKeeps ==
  ASSUME VoucherInv, NEW o \in Actors, NEW v, SubmitVoucher(o, v),
         UNCHANGED <<dir, rec, accepted, dropped>>
  PROVE  VoucherInv'
<1> DEFINE out == MarkSubmitted(rec, v)
<1>1. out.tracked = rec.tracked /\ out.vouchers = rec.vouchers \cup {v} /\ IsRecord(out)
  <2>1. PICK s : s = rec.submitted \cup {w \in OnLane(rec, v.lane) \cup {v} : w.nonce <= v.nonce}
    OBVIOUS
  <2>2. out = [tracked |-> rec.tracked, vouchers |-> rec.vouchers \cup {v}, submitted |-> s,
               next |-> rec.next]
    BY <2>1, RecordFields DEF VoucherInv, Shape, MarkSubmitted
  <2> QED BY <2>2 DEF IsRecord
<1>2. Free("submit") /\ op[o].pc = "idle" /\ (Hold(o, "submit", out, {}, << >>) \/ Ends(o))
  BY DEF SubmitVoucher
<1> HIDE DEF out
<1>3. CASE Hold(o, "submit", out, {}, << >>)
  BY <1>1, <1>2, <1>3, HoldKeeps
<1>4. CASE Ends(o)
  BY <1>2, <1>4, EndsKeeps
<1> QED BY <1>2, <1>3, <1>4

\* A save keeps the invariant: on an outbound channel it writes all that is
\* stored, and on an inbound one what it undoes is recorded as dropped.
LEMMA SaveKeeps ==
  ASSUME VoucherInv, NEW o \in Actors, SaveChannel(o)
  PROVE  VoucherInv'
<1> DEFINE new == [IdleOp EXCEPT !.pc = IF o = Settler THEN "idle" ELSE "done"]
<1>1. /\ op' = [p \in Actors |-> IF p = o THEN new ELSE op[p]]
      /\ op'[o] = new
      /\ \A p \in Actors \ {o} : op'[p] = op[p]
  BY DEF VoucherInv, Shape, SaveChannel
<1>2. op'[o].pc # "save" /\ op'[o].lock = "none" /\ IsCall(op'[o])
  BY <1>1 DEF IdleOp, IsCall, IsRecord, NoRec
<1> HIDE DEF new
<1>3. /\ op[o].pc = "save" /\ rec' = op[o].out /\ UNCHANGED dir
      /\ dropped' = dropped \cup {v \in accepted : v \in rec.vouchers \ op[o].out.vouchers}
      /\ accepted' = accepted \cup op[o].adds
  BY DEF SaveChannel
<1>4. LocksHeld' /\ LocksExclusive'
  BY <1>1, <1>2 DEF VoucherInv, LocksHeld, LocksExclusive
<1>5. rec'.tracked /\ op[o].adds \subseteq rec'.vouchers
  BY <1>3 DEF VoucherInv, CopiesTracked
<1>6. CopiesTracked'
  BY <1>1, <1>2, <1>5 DEF VoucherInv, CopiesTracked
<1>7. OneLockOutbound'
  BY <1>1, <1>2, <1>3 DEF VoucherInv, OneLockOutbound, LocksExclusive
<1>8. AcceptedTracked'
  BY <1>5 DEF AcceptedTracked
<1>9. AcceptedVoucherKept'
  <2> SUFFICES ASSUME NEW v \in accepted'
               PROVE  v \in rec'.vouchers \/ (dir' = "in" /\ v \in dropped')
    BY DEF AcceptedVoucherKept
  <2>1. CASE v \in op[o].adds
    BY <2>1, <1>5
  <2>2. CASE v \in accepted /\ dir = "out"
    BY <2>2, <1>3 DEF VoucherInv, AcceptedVoucherKept, OneLockOutbound
  <2>3. CASE v \in accepted /\ dir = "in"
    BY <2>3, <1>3 DEF VoucherInv, AcceptedVoucherKept
  <2> QED BY <2>1, <2>2, <2>3, <1>3 DEF VoucherInv, Shape
<1>10. Shape'
  BY <1>1, <1>2, <1>3 DEF VoucherInv, Shape, IsCall
<1> QED BY <1>4, <1>6, <1>7, <1>8, <1>9, <1>10 DEF VoucherInv

\* Every step of the channel's operations, of the settler, of the chain and of a
\* crash keeps the invariant.
LEMMA NextKeeps ==
  ASSUME VoucherInv, [VoucherNext]_voucherVars
  PROVE  VoucherInv'
<1>1. ASSUME UNCHANGED <<dir, rec, op, accepted, dropped>>
      PROVE  VoucherInv'
  BY <1>1 DEF VoucherInv, Shape, LocksHeld, LocksExclusive, CopiesTracked, OneLockOutbound,
              AcceptedTracked, AcceptedVoucherKept
<1>2. CASE TrackInboundChannel
  <2>1. /\ dir = "in" /\ ~rec.tracked /\ UNCHANGED <<dir, op, accepted, dropped>>
        /\ rec'.tracked /\ accepted = {}
    BY <1>2 DEF TrackInboundChannel, NoRec, VoucherInv, AcceptedTracked
  <2>2. \A o \in Actors : op[o].pc # "save"
    BY <2>1 DEF VoucherInv, CopiesTracked
  <2>3. IsRecord(rec')
    BY <1>2 DEF TrackInboundChannel, NoRec, IsRecord
  <2> QED
    BY <2>1, <2>2, <2>3
       DEF VoucherInv, Shape, LocksHeld, LocksExclusive, CopiesTracked, OneLockOutbound,
                  AcceptedTracked, AcceptedVoucherKept
<1>3. ASSUME NEW o \in Ops, AddVoucherInbound(o)
      PROVE  VoucherInv'
  BY <1>3, AddKeeps DEF AddVoucherInbound, Actors
<1>4. ASSUME NEW o \in Ops, CreateVoucher(o)
      PROVE  VoucherInv'
  BY <1>4, AddKeeps DEF CreateVoucher, Actors
<1>5. ASSUME NEW o \in Ops, SubmitCall(o)
      PROVE  VoucherInv'
  BY <1>5, SubmitKeeps DEF SubmitCall, Actors
<1>6. ASSUME NEW o \in Ops, AllocateLane(o)
      PROVE  VoucherInv'
  <2> DEFINE out == [rec EXCEPT !.next = @ + 1]
  <2>1. out.tracked = rec.tracked /\ out.vouchers = rec.vouchers /\ IsRecord(out)
    BY DEF VoucherInv, Shape, IsRecord
  <2>2. /\ Free("allocate") /\ Hold(o, "allocate", out, {}, <<rec.next>>)
        /\ UNCHANGED <<dir, rec, accepted, dropped>>
    BY <1>6 DEF AllocateLane
  <2> HIDE DEF out
  <2> QED BY <2>1, <2>2, HoldKeeps DEF Actors
<1>7. ASSUME NEW o \in Ops, Settle(o)
      PROVE  VoucherInv'
  <2>1. /\ Free("settle") /\ Hold(o, "settle", rec, {}, << >>)
        /\ UNCHANGED <<dir, rec, accepted, dropped>>
    BY <1>7 DEF Settle
  <2> QED BY <2>1, HoldKeeps DEF Actors, VoucherInv, Shape
<1>8. ASSUME NEW o \in Actors, SaveChannel(o)
      PROVE  VoucherInv'
  BY <1>8, SaveKeeps
<1>9. CASE SettlerHandles
  BY <1>1, <1>9 DEF SettlerHandles
<1>10. CASE SettlerSubmits
  BY <1>10, SubmitKeeps DEF SettlerSubmits, Actors
<1>11. CASE SettlerEnds
  BY <1>1, <1>11 DEF SettlerEnds
<1>12. CASE VoucherCrash
  <2>1. UNCHANGED <<dir, rec, accepted, dropped>>
    BY <1>12 DEF VoucherCrash
  <2>2. \A o \in Actors : op'[o].pc # "save" /\ op'[o].lock = "none" /\ IsCall(op'[o])
    BY <1>12 DEF VoucherCrash, IdleOp, IsCall, IsRecord, NoRec
  <2>3. op' = [o \in Actors |-> op'[o]]
    BY <1>12 DEF VoucherCrash
  <2> QED
    BY <2>1, <2>2, <2>3 DEF VoucherInv, Shape, LocksHeld, LocksExclusive, CopiesTracked,
                            OneLockOutbound, AcceptedTracked, AcceptedVoucherKept
<1>13. CASE ExecUpdate
  BY <1>1, <1>13 DEF ExecUpdate
<1>14. CASE ChainSettles
  BY <1>1, <1>14 DEF ChainSettles
<1>15. CASE UNCHANGED voucherVars
  BY <1>1, <1>15 DEF voucherVars
<1> QED
  BY <1>2, <1>3, <1>4, <1>5, <1>6, <1>7, <1>8, <1>9, <1>10, <1>11, <1>12, <1>13, <1>14, <1>15
  DEF VoucherNext

\* An accepted voucher stays in the channel record, whatever calls run
\* concurrently and wherever the process crashes, unless it is an inbound
\* channel and a save of the other accessor undid it: on an outbound channel
\* the accessor's lock loses nothing.
THEOREM VoucherKept == VoucherSpec => []AcceptedVoucherKept
<1>1. VoucherInv => AcceptedVoucherKept
  BY DEF VoucherInv
<1>2. VoucherInv /\ [VoucherNext]_voucherVars => VoucherInv'
  BY NextKeeps
<1> QED BY InitHolds, <1>1, <1>2, PTL DEF VoucherSpec

-----------------------------------------------------------------------------
(* What the stored vouchers are worth.                                       *)

LaneVouchers(V, l) == {v \in V : v.lane = l}

\* The amount of the voucher with the highest nonce of a lane.
LaneTop(V, l) == IF LaneVouchers(V, l) = {} THEN 0 ELSE HighestNonce(LaneVouchers(V, l)).amt

\* On a lane nonces are distinct, and a higher one is worth more.
Ordered(V) ==
  \A v, w \in V : v.lane = w.lane => /\ v.nonce < w.nonce => v.amt < w.amt
                                     /\ v.nonce = w.nonce => v = w

\* The best vouchers of all lanes together are worth no more than the channel.
Covered(V) == Ordered(V) /\ SumFunction([l \in AllLanes |-> LaneTop(V, l)]) <= Balance

\* A message has redeemed as much as the voucher on its lane.
RedeemedBy(S, v) == \E w \in S : w.lane = v.lane /\ w.amt >= v.amt

Saving(o) == op[o].pc = "save"

\* Every voucher in a record, a message or the settler's list was accepted, and
\* what a call will write was, or is what it adds.
Sourced ==
  /\ rec.vouchers \subseteq accepted /\ pushed \subseteq accepted /\ updates \subseteq pushed
  /\ settler.todo \subseteq accepted

CallsSourced ==
  \A o \in Actors : Saving(o) => op[o].out.vouchers \subseteq accepted \cup op[o].adds

\* Finitely many vouchers, on lanes that are known.
Typed ==
  /\ accepted \subseteq Voucher /\ IsFiniteSet(accepted)
  /\ allocated \in Seq(AllLanes)
  /\ \A o \in Actors : Saving(o) => /\ op[o].adds \subseteq Voucher /\ IsFiniteSet(op[o].adds)
                                    /\ op[o].lanes \in Seq(AllLanes)

IsLane(x, w) == x = [nonce |-> w.nonce, amt |-> w.amt]

\* A lane of the actor is as a voucher in some message left it.
ChainSourced ==
  \A l \in DOMAIN paychAct.lanes : \E w \in pushed : w.lane = l /\ IsLane(paychAct.lanes[l], w)

\* Only calls under the lock of AddVoucherInbound add vouchers to an inbound channel.
AddsUnderOneLock ==
  dir = "in" => \A o \in Actors : Saving(o) /\ op[o].adds # {} => op[o].lock = "Target->Control"

\* What is stored, and what will be, is covered: a call that adds a voucher
\* writes what is stored and that voucher, another no more than is stored.
CopiesCovered ==
  /\ Covered(rec.vouchers)
  /\ \A o \in Actors : Saving(o) =>
       /\ op[o].adds # {} => /\ op[o].out.vouchers = rec.vouchers \cup op[o].adds
                             /\ Covered(op[o].out.vouchers)
       /\ op[o].adds = {} => op[o].out.vouchers \subseteq rec.vouchers

\* What a record marks as submitted is redeemed.
SubmittedRedeemed ==
  /\ \A v \in rec.submitted : RedeemedBy(pushed, v)
  /\ \A o \in Actors : Saving(o) => \A v \in op[o].out.submitted : RedeemedBy(pushed, v)

\* The settler redeems what it has seen with what is in messages and what it has
\* still to submit.
SettlerWorks ==
  settler.pc \in {"submit", "done"} =>
    \A v \in settler.seen : RedeemedBy(IF settler.pc = "done" THEN pushed ELSE pushed \cup settler.todo, v)

CoverShape ==
  /\ paychAct = [lanes |-> paychAct.lanes, st |-> paychAct.st]
  /\ settler = [pc |-> settler.pc, todo |-> settler.todo, seen |-> settler.seen]

\* What calls write, and what messages and the settler have done with it.
CallsInv ==
  /\ CallsSourced /\ Typed /\ AddsUnderOneLock
  /\ dropped = {} => CopiesCovered /\ SubmittedRedeemed

MessagesInv ==
  /\ CoverShape /\ Sourced /\ ChainSourced
  /\ dropped = {} => SettlerWorks

CoverInv == CallsInv /\ MessagesInv

-----------------------------------------------------------------------------

\* The lanes are finitely many.
LEMMA LanesFinite == IsFiniteSet(AllLanes) /\ Lanes \subseteq AllLanes /\ AllLanes \subseteq Nat
<1>1. Cardinality(Lanes) + Cardinality(Ops) \in Nat
  BY PaychVouchersAssumption, FS_CardinalityType
<1>2. PICK n \in Nat : n = Cardinality(Lanes) + Cardinality(Ops)
  BY <1>1
<1>3. IsFiniteSet(0 .. n)
  BY FS_Interval
<1>4. IsFiniteSet(Lanes \cup 0 .. n)
  BY <1>3, PaychVouchersAssumption, FS_Union
<1>5. AllLanes = Lanes \cup 0 .. n
  BY <1>2 DEF AllLanes
<1>6. Lanes \subseteq Nat /\ 0 .. n \subseteq Nat
  BY PaychVouchersAssumption
<1> QED BY <1>4, <1>5, <1>6

\* The voucher of the highest nonce exists.
LEMMA HighestExists ==
  ASSUME NEW S, S \subseteq Voucher, IsFiniteSet(S), S # {}
  PROVE  HighestNonce(S) \in S /\ \A w \in S : w.nonce <= HighestNonce(S).nonce
<1> DEFINE f == [v \in S |-> v.nonce]
<1>1. IntOn(f, S)
  BY DEF IntOn, Voucher
<1>2. PICK x \in S : \A y \in S : f[y] <= f[x]
  <2> HIDE DEF f
  <2> QED BY <1>1, GreatestValue
<1>3. \E v \in S : \A w \in S : w.nonce <= v.nonce
  BY <1>2
<1> QED BY <1>3 DEF HighestNonce

\* On a lane that has vouchers the highest nonce is worth most.
LEMMA TopOfLane ==
  ASSUME NEW V, V \subseteq Voucher, IsFiniteSet(V), Ordered(V), NEW l, LaneVouchers(V, l) # {}
  PROVE  \E t \in LaneVouchers(V, l) :
           /\ t = HighestNonce(LaneVouchers(V, l)) /\ LaneTop(V, l) = t.amt
           /\ \A w \in LaneVouchers(V, l) : w.nonce <= t.nonce /\ w.amt <= t.amt
<1>1. PICK S : S = LaneVouchers(V, l)
  OBVIOUS
<1>2. S \subseteq V /\ S \subseteq Voucher /\ IsFiniteSet(S) /\ S # {} /\ \A w \in S : w.lane = l
  BY <1>1, FS_Subset DEF LaneVouchers
<1>3. PICK t : t = HighestNonce(S)
  OBVIOUS
<1>4. t \in S /\ \A w \in S : w.nonce <= t.nonce
  BY <1>2, <1>3, HighestExists
<1>5. ASSUME NEW w \in S
      PROVE  w.amt <= t.amt
  <2>1. w.nonce \in Nat /\ t.nonce \in Nat /\ w.amt \in Nat /\ t.amt \in Nat
    BY <1>2, <1>4, PaychVouchersAssumption DEF Voucher
  <2>2. w.nonce < t.nonce \/ w.nonce = t.nonce
    BY <1>4, <2>1
  <2>3. w \in V /\ t \in V /\ w.lane = t.lane
    BY <1>2, <1>4
  <2>4. w.amt < t.amt \/ w = t
    BY <2>2, <2>3 DEF Ordered
  <2> QED BY <2>1, <2>4
<1>6. LaneTop(V, l) = t.amt
  BY <1>1, <1>2, <1>3 DEF LaneTop
<1> QED BY <1>1, <1>3, <1>4, <1>5, <1>6
\* With the chain's lanes among the stored vouchers, laneState is the stored
\* voucher of the highest nonce.
LEMMA LaneStateIsTop ==
  ASSUME rec.vouchers \subseteq Voucher, IsFiniteSet(rec.vouchers), Ordered(rec.vouchers),
         ChainSourced, pushed \subseteq rec.vouchers, NEW l
  PROVE  /\ LaneState(rec, l).amt = LaneTop(rec.vouchers, l)
         /\ LaneVouchers(rec.vouchers, l) # {} =>
              LaneState(rec, l).nonce = HighestNonce(LaneVouchers(rec.vouchers, l)).nonce
         /\ l \in DOMAIN paychAct.lanes => LaneVouchers(rec.vouchers, l) # {}
         /\ ChainLane(l).amt <= LaneTop(rec.vouchers, l)
         /\ l \notin DOMAIN paychAct.lanes => ChainLane(l) = [nonce |-> 0, amt |-> 0]
<1> DEFINE V == rec.vouchers
           S == LaneVouchers(V, l)
           newer == {v \in OnLane(rec, l) : v.nonce >= ChainLane(l).nonce}
<1>1. OnLane(rec, l) = S
  BY DEF OnLane, LaneVouchers
<1>2. CASE S = {}
  <2>1. l \notin DOMAIN paychAct.lanes
    BY <1>2 DEF ChainSourced, LaneVouchers
  <2>2. newer = {}
    BY <1>1, <1>2
  <2>3. ChainLane(l) = [nonce |-> 0, amt |-> 0]
    BY <2>1 DEF ChainLane
  <2>4. LaneState(rec, l) = ChainLane(l)
    BY <2>2 DEF LaneState
  <2>5. LaneTop(V, l) = 0
    BY <1>2 DEF LaneTop
  <2> QED BY <1>2, <2>1, <2>3, <2>4, <2>5
<1>3. CASE S # {}
  <2>1. PICK t \in S : /\ t = HighestNonce(S) /\ LaneTop(V, l) = t.amt
                       /\ \A w \in S : w.nonce <= t.nonce /\ w.amt <= t.amt
    BY <1>3, TopOfLane
  <2>2. S \subseteq V /\ S \subseteq Voucher /\ IsFiniteSet(S) /\ \A w \in S : w.lane = l
    BY FS_Subset DEF LaneVouchers
  <2>3. \A w \in S : w.nonce \in Nat /\ w.amt \in Nat
    BY <2>2, PaychVouchersAssumption DEF Voucher
  <2>4. /\ ChainLane(l).nonce <= t.nonce /\ ChainLane(l).amt <= t.amt
        /\ ChainLane(l).nonce \in Nat
        /\ l \notin DOMAIN paychAct.lanes => ChainLane(l) = [nonce |-> 0, amt |-> 0]
    <3>1. CASE l \in DOMAIN paychAct.lanes
      <4>1. PICK w \in pushed : w.lane = l /\ IsLane(paychAct.lanes[l], w)
        BY <3>1 DEF ChainSourced
      <4>2. w \in S /\ ChainLane(l).nonce = w.nonce /\ ChainLane(l).amt = w.amt
        BY <3>1, <4>1 DEF LaneVouchers, ChainLane, IsLane
      <4> QED BY <2>1, <2>3, <3>1, <4>2
    <3>2. CASE l \notin DOMAIN paychAct.lanes
      <4>1. ChainLane(l) = [nonce |-> 0, amt |-> 0]
        BY <3>2 DEF ChainLane
      <4> QED BY <2>1, <2>3, <4>1
    <3> QED BY <3>1, <3>2
  <2>5. t \in newer /\ newer \subseteq S
    BY <1>1, <2>1, <2>3, <2>4
  <2>6. PICK N : N = newer
    OBVIOUS
  <2>7. N \subseteq Voucher /\ IsFiniteSet(N) /\ N # {}
    BY <2>2, <2>5, <2>6, FS_Subset
  <2>8. PICK h : h = HighestNonce(N)
    OBVIOUS
  <2>9. h \in N /\ \A w \in N : w.nonce <= h.nonce
    BY <2>7, <2>8, HighestExists
  <2>10. h = t
    <3>1. h \in S /\ t.nonce <= h.nonce /\ h.nonce <= t.nonce
      BY <2>1, <2>5, <2>6, <2>9
    <3>2. h.nonce = t.nonce
      BY <2>3, <3>1
    <3> QED BY <2>2, <3>1, <3>2 DEF Ordered
  <2>11. LaneState(rec, l) = [nonce |-> t.nonce, amt |-> t.amt]
    BY <2>6, <2>7, <2>8, <2>10 DEF LaneState
  <2> QED BY <1>3, <2>1, <2>4, <2>11
<1> QED BY <1>2, <1>3

\* A voucher that is higher than all of its lane keeps the order and is the best
\* of its lane.
LEMMA AddedIsTop ==
  ASSUME NEW V, V \subseteq Voucher, IsFiniteSet(V), Ordered(V), NEW v \in Voucher,
         LaneVouchers(V, v.lane) # {} => /\ v.nonce > HighestNonce(LaneVouchers(V, v.lane)).nonce
                                         /\ v.amt > LaneTop(V, v.lane)
  PROVE  /\ Ordered(V \cup {v})
         /\ \A l : LaneTop(V \cup {v}, l) = IF l = v.lane THEN v.amt ELSE LaneTop(V, l)
<1>1. \A w \in V \cup {v} : w.nonce \in Nat /\ w.amt \in Nat
  BY PaychVouchersAssumption DEF Voucher
<1>2. ASSUME NEW w \in V, w.lane = v.lane
      PROVE  w.nonce < v.nonce /\ w.amt < v.amt
  <2>1. w \in LaneVouchers(V, v.lane)
    BY <1>2 DEF LaneVouchers
  <2>2. PICK t \in LaneVouchers(V, v.lane) :
          /\ t = HighestNonce(LaneVouchers(V, v.lane)) /\ LaneTop(V, v.lane) = t.amt
          /\ \A u \in LaneVouchers(V, v.lane) : u.nonce <= t.nonce /\ u.amt <= t.amt
    BY <2>1, TopOfLane
  <2>3. t \in V /\ w.nonce <= t.nonce /\ w.amt <= t.amt /\ v.nonce > t.nonce /\ v.amt > t.amt
    BY <2>1, <2>2 DEF LaneVouchers
  <2> QED BY <1>1, <2>3
<1>3. Ordered(V \cup {v})
  BY <1>1, <1>2 DEF Ordered
<1>4. ASSUME NEW l, l # v.lane
      PROVE  LaneTop(V \cup {v}, l) = LaneTop(V, l)
  <2>1. LaneVouchers(V \cup {v}, l) = LaneVouchers(V, l)
    BY <1>4 DEF LaneVouchers
  <2> QED BY <2>1 DEF LaneTop
<1>5. LaneTop(V \cup {v}, v.lane) = v.amt
  <2>1. PICK U : U = V \cup {v}
    OBVIOUS
  <2>2. U \subseteq Voucher /\ IsFiniteSet(U) /\ v \in LaneVouchers(U, v.lane)
    BY <2>1, FS_AddElement DEF LaneVouchers
  <2>3. PICK t \in LaneVouchers(U, v.lane) :
          /\ t = HighestNonce(LaneVouchers(U, v.lane)) /\ LaneTop(U, v.lane) = t.amt
          /\ \A u \in LaneVouchers(U, v.lane) : u.nonce <= t.nonce /\ u.amt <= t.amt
    BY <1>3, <2>1, <2>2, TopOfLane
  <2>4. v.nonce <= t.nonce /\ t \in U /\ t.lane = v.lane
    BY <2>2, <2>3 DEF LaneVouchers
  <2>5. t = v
    BY <1>1, <1>2, <2>1, <2>4
  <2> QED BY <2>1, <2>3, <2>5
<1> QED BY <1>3, <1>4, <1>5
\* A channel without vouchers is covered.
LEMMA EmptyCovered == Covered({})
<1> DEFINE f == [l \in AllLanes |-> LaneTop({}, l)]
<1>1. \A l \in AllLanes : f[l] = 0
  BY DEF LaneTop, LaneVouchers
<1>2. SumFunction(f) = SumFunctionOnSet(f, AllLanes)
  BY DEF SumFunction
<1>3. SumFunctionOnSet(f, AllLanes) = 0
  <2> HIDE DEF f
  <2> QED BY <1>1, LanesFinite, SumZero
<1> QED BY <1>2, <1>3, PaychVouchersAssumption DEF Covered, Ordered

\* The stored vouchers hold what the chain has redeemed.
StoreKnowsChain ==
  /\ rec.vouchers \subseteq Voucher /\ IsFiniteSet(rec.vouchers) /\ Covered(rec.vouchers)
  /\ ChainSourced /\ pushed \subseteq rec.vouchers

\* checkVoucherValid takes a voucher only when the channel covers it together
\* with those stored.
LEMMA ValidIsCovered ==
  ASSUME StoreKnowsChain, NEW v \in Voucher, CheckVoucherValid(rec, v)
  PROVE  Covered(rec.vouchers \cup {v})
<1> DEFINE V == rec.vouchers
<1>0. /\ V \subseteq Voucher /\ IsFiniteSet(V) /\ Ordered(V) /\ ChainSourced /\ pushed \subseteq V
  BY DEF StoreKnowsChain, Covered
<1>1. \A l : LaneState(rec, l).amt = LaneTop(V, l)
  BY <1>0, LaneStateIsTop
<1>2. LaneVouchers(V, v.lane) # {} => /\ v.nonce > HighestNonce(LaneVouchers(V, v.lane)).nonce
                                      /\ v.amt > LaneTop(V, v.lane)
  <2> SUFFICES ASSUME LaneVouchers(V, v.lane) # {}
               PROVE  /\ v.nonce > HighestNonce(LaneVouchers(V, v.lane)).nonce
                      /\ v.amt > LaneTop(V, v.lane)
    OBVIOUS
  <2>1. OnLane(rec, v.lane) # {}
    BY DEF OnLane, LaneVouchers
  <2>2. v.nonce > LaneState(rec, v.lane).nonce /\ v.amt > LaneState(rec, v.lane).amt
    BY <2>1 DEF CheckVoucherValid
  <2> QED BY <1>0, <2>2, LaneStateIsTop
<1>3. /\ Ordered(V \cup {v})
      /\ \A l : LaneTop(V \cup {v}, l) = IF l = v.lane THEN v.amt ELSE LaneTop(V, l)
  BY <1>0, <1>2, AddedIsTop
<1>4. [l \in AllLanes |-> IF l = v.lane THEN v.amt ELSE LaneState(rec, l).amt]
        = [l \in AllLanes |-> LaneTop(V \cup {v}, l)]
  BY <1>1, <1>3
<1>5. SumFunction([l \in AllLanes |-> LaneTop(V \cup {v}, l)]) <= Balance
  BY <1>4 DEF CheckVoucherValid, TotalRedeemed
<1> QED BY <1>3, <1>5 DEF Covered

\* A stored voucher that the actor would refuse has been redeemed.
LEMMA RefusedIsRedeemed ==
  ASSUME StoreKnowsChain, paychAct.st # "gone", NEW v \in rec.vouchers, ~ActorAccepts(v)
  PROVE  RedeemedBy(pushed, v)
<1> DEFINE V == rec.vouchers
           chain == [l \in AllLanes |-> IF l = v.lane THEN v.amt ELSE ChainLane(l).amt]
           tops == [l \in AllLanes |-> LaneTop(V, l)]
<1>0. /\ V \subseteq Voucher /\ IsFiniteSet(V) /\ Ordered(V) /\ ChainSourced /\ pushed \subseteq V
      /\ SumFunction(tops) <= Balance
  BY DEF StoreKnowsChain, Covered
<1>1. \A w \in V : w.nonce \in Nat /\ w.amt \in Nat /\ w.lane \in AllLanes
  BY <1>0, PaychVouchersAssumption DEF Voucher
<1>2. ASSUME NEW l \in AllLanes
      PROVE  /\ LaneTop(V, l) \in Nat /\ ChainLane(l).amt \in Nat
             /\ (IF l = v.lane THEN v.amt ELSE ChainLane(l).amt) <= LaneTop(V, l)
  <2>1. LaneTop(V, l) \in Nat /\ (l = v.lane => v.amt <= LaneTop(V, l))
    <3>1. CASE LaneVouchers(V, l) = {}
      BY <3>1 DEF LaneTop, LaneVouchers
    <3>2. CASE LaneVouchers(V, l) # {}
      <4>1. PICK t \in LaneVouchers(V, l) :
              /\ t = HighestNonce(LaneVouchers(V, l)) /\ LaneTop(V, l) = t.amt
              /\ \A w \in LaneVouchers(V, l) : w.nonce <= t.nonce /\ w.amt <= t.amt
        BY <1>0, <3>2, TopOfLane
      <4> QED BY <1>1, <4>1 DEF LaneVouchers
    <3> QED BY <3>1, <3>2
  <2>2. ChainLane(l).amt \in Nat
    <3>1. CASE l \in DOMAIN paychAct.lanes
      <4>1. PICK w \in pushed : w.lane = l /\ IsLane(paychAct.lanes[l], w)
        BY <1>0, <3>1 DEF ChainSourced
      <4>2. ChainLane(l).amt = w.amt
        BY <3>1, <4>1 DEF ChainLane, IsLane
      <4> QED BY <1>0, <1>1, <4>2
    <3>2. CASE l \notin DOMAIN paychAct.lanes
      BY <3>2 DEF ChainLane
    <3> QED BY <3>1, <3>2
  <2>3. ChainLane(l).amt <= LaneTop(V, l)
    BY <1>0, LaneStateIsTop
  <2> QED BY <2>1, <2>2, <2>3
<1>3. SumFunction(chain) <= Balance
  <2>1. SumFunction(chain) = SumFunctionOnSet(chain, AllLanes)
    BY DEF SumFunction
  <2>2. SumFunction(tops) = SumFunctionOnSet(tops, AllLanes)
    BY DEF SumFunction
  <2>3. IntOn(chain, AllLanes) /\ IntOn(tops, AllLanes) /\ \A l \in AllLanes : chain[l] <= tops[l]
    BY <1>1, <1>2, LanesFinite DEF IntOn
  <2> HIDE DEF chain, tops
  <2>4. SumFunctionOnSet(chain, AllLanes) <= SumFunctionOnSet(tops, AllLanes)
    BY <2>3, SumLeq
  <2>5. SumFunctionOnSet(chain, AllLanes) \in Int /\ SumFunctionOnSet(tops, AllLanes) \in Int
    BY <2>3, SumType
  <2> QED BY <1>0, <2>1, <2>2, <2>4, <2>5, PaychVouchersAssumption
<1>4. ~(v.nonce > ChainLane(v.lane).nonce)
  BY <1>3 DEF ActorAccepts
<1>5. v.lane \in DOMAIN paychAct.lanes
  <2>1. v.nonce > 0
    BY <1>0 DEF Voucher
  <2> QED BY <1>1, <1>4, <2>1 DEF ChainLane
<1>6. PICK w \in pushed : w.lane = v.lane /\ IsLane(paychAct.lanes[v.lane], w)
  BY <1>5, <1>0 DEF ChainSourced
<1>7. w \in V /\ ChainLane(v.lane).nonce = w.nonce
  BY <1>0, <1>5, <1>6 DEF ChainLane, IsLane
<1>8. v.nonce < w.nonce \/ v.nonce = w.nonce
  BY <1>1, <1>4, <1>7
<1>9. v.amt < w.amt \/ v = w
  BY <1>0, <1>6, <1>7, <1>8 DEF Ordered
<1>10. w.amt >= v.amt
  BY <1>1, <1>7, <1>9
<1> QED BY <1>6, <1>10 DEF RedeemedBy

\* Redeemed stays redeemed when there are more messages.
LEMMA RedeemedGrows ==
  ASSUME NEW S, NEW T, S \subseteq T, NEW v, RedeemedBy(S, v)
  PROVE  RedeemedBy(T, v)
BY DEF RedeemedBy

\* Of the spendable vouchers the settler takes one that is worth as much on
\* every lane.
LEMMA BestIsTaken ==
  ASSUME rec.vouchers \subseteq Voucher, IsFiniteSet(rec.vouchers),
         NEW v \in rec.vouchers, CheckVoucherSpendable(rec, v)
  PROVE  RedeemedBy(BestSpendableByLane, v)
<1> DEFINE spendable == {w \in rec.vouchers : CheckVoucherSpendable(rec, w)}
           S == {w \in spendable : w.lane = v.lane}
           f == [w \in S |-> w.amt]
<1>1. v \in S /\ S \subseteq rec.vouchers /\ IsFiniteSet(S)
  BY FS_Subset
<1>2. IntOn(f, S)
  <2>1. \A w \in S : w.amt \in Nat
    BY <1>1, PaychVouchersAssumption DEF Voucher
  <2> QED BY <1>1, <2>1 DEF IntOn
<1>3. PICK b \in S : \A w \in S : f[w] <= f[b]
  <2> HIDE DEF f, S
  <2> QED BY <1>1, <1>2, GreatestValue
<1>4. \A w \in spendable : w.lane = b.lane => w.amt <= b.amt
  BY <1>3
<1>5. b \in BestSpendableByLane
  BY <1>3, <1>4 DEF BestSpendableByLane
<1>6. b.lane = v.lane /\ v.amt <= b.amt
  BY <1>1, <1>3
<1>7. v.amt \in Nat /\ b.amt \in Nat
  BY <1>1, PaychVouchersAssumption DEF Voucher
<1> QED BY <1>5, <1>6, <1>7 DEF RedeemedBy
-----------------------------------------------------------------------------

\* A channel without vouchers satisfies the invariant.
LEMMA CoverInit == VoucherInit => CoverInv
<1> SUFFICES ASSUME VoucherInit
             PROVE  CoverInv
  OBVIOUS
<1>1. \A o \in Actors : op[o].pc = "idle"
  BY DEF VoucherInit, IdleOp
<1>2. rec.vouchers = {} /\ rec.submitted = {}
  BY DEF VoucherInit, NoRec
<1>3. CallsInv
  <2>1. accepted = {} /\ allocated = << >>
    BY DEF VoucherInit
  <2>2. Typed
    BY <1>1, <2>1, FS_EmptySet DEF Typed, Saving
  <2> QED
    BY <1>1, <1>2, <2>2, EmptyCovered
    DEF CallsInv, CallsSourced, AddsUnderOneLock, CopiesCovered, SubmittedRedeemed, Saving
<1>4. MessagesInv
  <2>1. /\ paychAct = [lanes |-> << >>, st |-> "open"]
        /\ settler = [pc |-> "idle", todo |-> {}, seen |-> {}]
        /\ pushed = {} /\ updates = {} /\ accepted = {}
    BY DEF VoucherInit
  <2>2. DOMAIN paychAct.lanes = {}
    BY <2>1
  <2> QED BY <1>2, <2>1, <2>2 DEF MessagesInv, CoverShape, Sourced, ChainSourced, SettlerWorks
<1> QED BY <1>3, <1>4 DEF CoverInv

\* As long as nothing was dropped the record holds all that was accepted.
LEMMA NothingDropped ==
  ASSUME VoucherInv, CoverInv, dropped = {}
  PROVE  StoreKnowsChain /\ rec.vouchers = accepted
<1>1. rec.vouchers = accepted
  BY DEF VoucherInv, AcceptedVoucherKept, CoverInv, MessagesInv, Sourced
<1> QED
  BY <1>1
  DEF CoverInv, CallsInv, MessagesInv, Sourced, Typed, CopiesCovered, StoreKnowsChain

\* The messages that there are grow, and stay among what was accepted.
MessagesGrow ==
  /\ UNCHANGED <<dir, rec, accepted, dropped, allocated>>
  /\ pushed \subseteq pushed'

\* What a call may write, when the messages are those in P.
MayWrite(out, adds, lanes, P) ==
  /\ out.vouchers \subseteq accepted \cup adds /\ adds \subseteq Voucher /\ IsFiniteSet(adds)
  /\ lanes \in Seq(AllLanes)
  /\ dropped = {} => /\ adds # {} => out.vouchers = rec.vouchers \cup adds /\ Covered(out.vouchers)
                     /\ adds = {} => out.vouchers \subseteq rec.vouchers
                     /\ \A v \in out.submitted : RedeemedBy(P, v)

AddsOnItsLock(adds, kind) == adds # {} => kind = "addInbound" \/ dir # "in"

\* No call begins to save.
NoNewSave == \A p \in Actors : Saving(p)' => Saving(p) /\ op'[p] = op[p]

\* A call that has read the record and will write out keeps what holds of calls.
LEMMA HoldCovers ==
  ASSUME VoucherInv, CallsInv, NEW o \in Actors, NEW kind, NEW out, NEW adds, NEW lanes,
         Hold(o, kind, out, adds, lanes), MessagesGrow, AddsOnItsLock(adds, kind),
         MayWrite(out, adds, lanes, pushed')
  PROVE  CallsInv'
<1> DEFINE new == [pc |-> "save", lock |-> AccessorLock(kind), out |-> out, adds |-> adds, lanes |-> lanes]
<1>1. op'[o] = new /\ \A p \in Actors \ {o} : op'[p] = op[p]
  BY DEF VoucherInv, Shape, Hold
<1>2. /\ op'[o].lock = AccessorLock(kind) /\ op'[o].out = out /\ op'[o].adds = adds
      /\ op'[o].lanes = lanes
  BY <1>1
<1> HIDE DEF new
<1>3. UNCHANGED <<dir, rec, accepted, dropped, allocated>> /\ pushed \subseteq pushed'
  BY DEF MessagesGrow
<1>4. CallsSourced'
  BY <1>1, <1>2, <1>3 DEF CallsInv, CallsSourced, Saving, MayWrite
<1>5. Typed'
  BY <1>1, <1>2, <1>3 DEF CallsInv, Typed, Saving, MayWrite
<1>6. AddsUnderOneLock'
  BY <1>1, <1>2, <1>3 DEF CallsInv, AddsUnderOneLock, Saving, AccessorLock, AddsOnItsLock
<1>7. dropped' = {} => CopiesCovered'
  BY <1>1, <1>2, <1>3 DEF CallsInv, CopiesCovered, Saving, MayWrite
<1>8. dropped' = {} => SubmittedRedeemed'
  BY <1>1, <1>2, <1>3, RedeemedGrows DEF CallsInv, SubmittedRedeemed, Saving, MayWrite
<1> QED BY <1>4, <1>5, <1>6, <1>7, <1>8 DEF CallsInv

\* So does a step in which no call begins to save.
LEMMA NoCallCovers ==
  ASSUME CallsInv, MessagesGrow, NoNewSave
  PROVE  CallsInv'
<1>1. UNCHANGED <<dir, rec, accepted, dropped, allocated>> /\ pushed \subseteq pushed'
  BY DEF MessagesGrow
<1>2. CallsSourced'
  BY <1>1 DEF CallsInv, CallsSourced, NoNewSave
<1>3. Typed'
  BY <1>1 DEF CallsInv, Typed, NoNewSave
<1>4. AddsUnderOneLock'
  BY <1>1 DEF CallsInv, AddsUnderOneLock, NoNewSave
<1>5. dropped' = {} => CopiesCovered'
  BY <1>1 DEF CallsInv, CopiesCovered, NoNewSave
<1>6. dropped' = {} => SubmittedRedeemed'
  BY <1>1, RedeemedGrows DEF CallsInv, SubmittedRedeemed, NoNewSave
<1> QED BY <1>2, <1>3, <1>4, <1>5, <1>6 DEF CallsInv

\* A call that ends without a change does not begin to save.
LEMMA EndsSavesNothing ==
  ASSUME VoucherInv, NEW o \in Actors, Ends(o)
  PROVE  NoNewSave
<1>1. op'[o].pc = "done" /\ \A p \in Actors \ {o} : op'[p] = op[p]
  BY DEF VoucherInv, Shape, Ends, IsCall
<1> QED BY <1>1 DEF Saving, NoNewSave
\* More messages about accepted vouchers keep what holds of messages.
LEMMA MessagesKeep ==
  ASSUME MessagesInv, UNCHANGED <<rec, accepted, dropped, settler>>,
         paychAct' = [lanes |-> paychAct.lanes, st |-> paychAct'.st],
         pushed \subseteq pushed', pushed' \subseteq accepted, updates' \subseteq pushed'
  PROVE  MessagesInv'
<1>1. paychAct'.lanes = paychAct.lanes
  OBVIOUS
<1>2. CoverShape'
  BY <1>1 DEF MessagesInv, CoverShape
<1>3. Sourced' /\ ChainSourced'
  BY <1>1 DEF MessagesInv, Sourced, ChainSourced
<1>4. dropped' = {} => SettlerWorks'
  <2> SUFFICES ASSUME dropped = {}, settler.pc \in {"submit", "done"}, NEW v \in settler.seen
               PROVE  RedeemedBy(IF settler.pc = "done" THEN pushed' ELSE pushed' \cup settler.todo, v)
    BY DEF SettlerWorks
  <2>1. RedeemedBy(IF settler.pc = "done" THEN pushed ELSE pushed \cup settler.todo, v)
    BY DEF MessagesInv, SettlerWorks
  <2>2. CASE settler.pc = "done"
    BY <2>1, <2>2, RedeemedGrows
  <2>3. CASE settler.pc # "done"
    <3>1. pushed \cup settler.todo \subseteq pushed' \cup settler.todo
      OBVIOUS
    <3> QED BY <2>1, <2>3, <3>1, RedeemedGrows
  <2> QED BY <2>2, <2>3
<1> QED BY <1>2, <1>3, <1>4 DEF MessagesInv

\* Adding a voucher: the call has checked that the channel covers it.
LEMMA AddCovers ==
  ASSUME VoucherInv, CoverInv, NEW o \in Actors, NEW kind, NEW v \in Voucher, NEW d,
         AddVoucherUnlocked(o, kind, v, d), kind = "addInbound" \/ dir # "in",
         UNCHANGED <<dir, rec, paychAct, updates, pushed, accepted, dropped, allocated, settler>>
  PROVE  CoverInv'
<1> DEFINE out == [rec EXCEPT !.vouchers = @ \cup {v}, !.next = NextLane(rec, v)]
<1>1. out.vouchers = rec.vouchers \cup {v} /\ out.submitted = rec.submitted
  <2>1. PICK n : n = NextLane(rec, v)
    OBVIOUS
  <2>2. out = [tracked |-> rec.tracked, vouchers |-> rec.vouchers \cup {v}, submitted |-> rec.submitted,
               next |-> n]
    BY <2>1, RecordFields DEF VoucherInv, Shape
  <2> QED BY <2>2
<1>2. (CheckVoucherValid(rec, v) /\ Hold(o, kind, out, {v}, << >>)) \/ Ends(o)
  BY DEF AddVoucherUnlocked
<1> HIDE DEF out
<1>3. CallsInv /\ MessagesInv /\ MessagesGrow
  BY DEF CoverInv, MessagesGrow
<1>4. ASSUME CheckVoucherValid(rec, v), Hold(o, kind, out, {v}, << >>)
      PROVE  CallsInv'
  <2>1. dropped = {} => Covered(out.vouchers)
    BY <1>1, <1>4, NothingDropped, ValidIsCovered
  <2>2. dropped = {} => \A w \in out.submitted : RedeemedBy(pushed', w)
    BY <1>1, <1>3 DEF CallsInv, SubmittedRedeemed
  <2>3. out.vouchers \subseteq accepted \cup {v}
    BY <1>1, <1>3 DEF MessagesInv, Sourced
  <2>4. {v} \subseteq Voucher /\ IsFiniteSet({v})
    BY FS_Singleton
  <2>5. MayWrite(out, {v}, << >>, pushed')
    BY <1>1, <2>1, <2>2, <2>3, <2>4 DEF MayWrite
  <2>6. AddsOnItsLock({v}, kind)
    BY DEF AddsOnItsLock
  <2> QED BY <1>3, <1>4, <2>5, <2>6, HoldCovers
<1>5. ASSUME Ends(o)
      PROVE  CallsInv'
  BY <1>3, <1>5, EndsSavesNothing, NoCallCovers
<1>6. MessagesInv'
  <2>1. paychAct' = [lanes |-> paychAct.lanes, st |-> paychAct'.st]
    BY <1>3 DEF MessagesInv, CoverShape
  <2> QED BY <1>3, <2>1, MessagesKeep DEF MessagesInv, Sourced
<1> QED BY <1>2, <1>4, <1>5, <1>6 DEF CoverInv

\* Submitting a voucher that was accepted: those marked with it are worth no more.
LEMMA SubmitCovers ==
  ASSUME VoucherInv, CoverInv, NEW o \in Actors, NEW v \in accepted, SubmitVoucher(o, v),
         UNCHANGED <<dir, rec, paychAct, accepted, dropped, allocated>>
  PROVE  /\ CallsInv' /\ pushed \subseteq pushed' /\ pushed' \subseteq accepted /\ updates' \subseteq pushed'
         /\ v \in rec.submitted \/ v \in pushed'
<1> DEFINE marked == {w \in OnLane(rec, v.lane) \cup {v} : w.nonce <= v.nonce}
           out == MarkSubmitted(rec, v)
<1>1. out.vouchers = rec.vouchers \cup {v} /\ out.submitted = rec.submitted \cup marked
  <2>1. PICK m : m = rec.submitted \cup marked
    OBVIOUS
  <2>2. out = [tracked |-> rec.tracked, vouchers |-> rec.vouchers \cup {v}, submitted |-> m,
               next |-> rec.next]
    BY <2>1, RecordFields DEF VoucherInv, Shape, MarkSubmitted
  <2> QED BY <2>1, <2>2
<1>2. \/ Ends(o) /\ UNCHANGED <<updates, pushed>> /\ v \in rec.submitted
      \/ /\ updates' = updates \cup {v} /\ pushed' = pushed \cup {v}
         /\ Hold(o, "submit", out, {}, << >>)
  BY DEF SubmitVoucher
<1> HIDE DEF out
<1>3. /\ pushed \subseteq pushed' /\ pushed' \subseteq accepted /\ updates' \subseteq pushed'
      /\ v \in rec.submitted \/ v \in pushed'
  BY <1>2 DEF CoverInv, MessagesInv, Sourced
<1>4. CallsInv /\ MessagesGrow
  BY <1>3 DEF CoverInv, MessagesGrow
<1>5. CASE Ends(o)
  BY <1>3, <1>4, <1>5, EndsSavesNothing, NoCallCovers
<1>6. CASE pushed' = pushed \cup {v} /\ Hold(o, "submit", out, {}, << >>)
  <2>1. dropped = {} => out.vouchers \subseteq rec.vouchers
    BY <1>1, NothingDropped
  <2>2. dropped = {} => \A w \in out.submitted : RedeemedBy(pushed', w)
    <3> SUFFICES ASSUME dropped = {}, NEW w \in out.submitted
                 PROVE  RedeemedBy(pushed', w)
      OBVIOUS
    <3>1. CASE w \in rec.submitted
      BY <1>3, <1>4, <3>1, RedeemedGrows DEF CallsInv, SubmittedRedeemed
    <3>2. CASE w \in marked
      <4>1. /\ w \in rec.vouchers /\ v \in rec.vouchers /\ w.lane = v.lane /\ w.nonce <= v.nonce
            /\ Ordered(rec.vouchers) /\ rec.vouchers \subseteq Voucher
        BY <3>2, NothingDropped DEF OnLane, StoreKnowsChain, Covered
      <4>2. w.nonce \in Nat /\ v.nonce \in Nat /\ w.amt \in Nat /\ v.amt \in Nat
        BY <4>1, PaychVouchersAssumption DEF Voucher
      <4>3. w.nonce < v.nonce \/ w.nonce = v.nonce
        BY <4>1, <4>2
      <4>4. w.amt < v.amt \/ w = v
        BY <4>1, <4>3 DEF Ordered
      <4>5. v \in pushed' /\ v.lane = w.lane /\ v.amt >= w.amt
        BY <1>6, <4>1, <4>2, <4>4
      <4> QED BY <4>5 DEF RedeemedBy
    <3> QED BY <1>1, <3>1, <3>2
  <2>3. out.vouchers \subseteq accepted
    BY <1>1 DEF CoverInv, MessagesInv, Sourced
  <2>4. MayWrite(out, {}, << >>, pushed') /\ AddsOnItsLock({}, "submit")
    BY <2>1, <2>2, <2>3, FS_EmptySet DEF MayWrite, AddsOnItsLock
  <2> QED BY <1>3, <1>4, <1>6, <2>4, HoldCovers
<1> QED BY <1>2, <1>3, <1>5, <1>6
\* A save: as long as it drops nothing it writes what is stored, and what it adds.
LEMMA SaveCovers ==
  ASSUME VoucherInv, CoverInv, NEW o \in Actors, SaveChannel(o)
  PROVE  CoverInv'
<1>1. /\ Saving(o) /\ rec' = op[o].out /\ accepted' = accepted \cup op[o].adds
      /\ dropped' = dropped \cup {v \in accepted : v \in rec.vouchers \ op[o].out.vouchers}
      /\ allocated' = allocated \o op[o].lanes
      /\ UNCHANGED <<dir, paychAct, updates, pushed, settler>>
  BY DEF SaveChannel, Saving
<1>2. op'[o].pc # "save" /\ \A p \in Actors \ {o} : op'[p] = op[p]
  BY DEF VoucherInv, Shape, SaveChannel, IdleOp
<1>3. \A p \in Actors : Saving(p)' => Saving(p) /\ op'[p] = op[p] /\ p # o
  BY <1>2 DEF Saving
<1>4. CallsSourced'
  BY <1>1, <1>3 DEF CoverInv, CallsInv, CallsSourced
<1>5. Typed'
  <2>1. /\ op[o].adds \subseteq Voucher /\ IsFiniteSet(op[o].adds) /\ op[o].lanes \in Seq(AllLanes)
        /\ accepted \subseteq Voucher /\ IsFiniteSet(accepted) /\ allocated \in Seq(AllLanes)
    BY <1>1 DEF CoverInv, CallsInv, Typed
  <2>2. accepted' \subseteq Voucher /\ IsFiniteSet(accepted') /\ allocated' \in Seq(AllLanes)
    <3>1. IsFiniteSet(accepted \cup op[o].adds)
      BY <2>1, FS_Union
    <3>2. \A x \in Seq(AllLanes), y \in Seq(AllLanes) : x \o y \in Seq(AllLanes)
      OBVIOUS
    <3> QED BY <1>1, <2>1, <3>1, <3>2
  <2> QED BY <1>3, <2>2 DEF CoverInv, CallsInv, Typed
<1>6. AddsUnderOneLock'
  BY <1>1, <1>3 DEF CoverInv, CallsInv, AddsUnderOneLock
<1>7. ASSUME dropped' = {}
      PROVE  CopiesCovered'
  <2>1. dropped = {} /\ rec.vouchers \subseteq op[o].out.vouchers
    BY <1>1, <1>7 DEF CoverInv, MessagesInv, Sourced
  <2>2. CopiesCovered
    BY <2>1 DEF CoverInv, CallsInv
  <2>3. CASE op[o].adds = {}
    <3>1. rec'.vouchers = rec.vouchers
      BY <1>1, <2>1, <2>2, <2>3 DEF CopiesCovered
    <3> QED BY <1>3, <2>2, <3>1 DEF CopiesCovered
  <2>4. CASE op[o].adds # {}
    <3>1. rec'.vouchers = rec.vouchers \cup op[o].adds /\ Covered(rec'.vouchers)
      BY <1>1, <2>2, <2>4 DEF CopiesCovered
    <3>2. \A p \in Actors : Saving(p) /\ p # o => op[p].adds = {}
      <4> SUFFICES ASSUME NEW p \in Actors, Saving(p), op[p].adds # {}
                   PROVE  p = o
        OBVIOUS
      <4>1. op[p].lock = op[o].lock
        <5>1. CASE dir = "in"
          BY <1>1, <2>4, <5>1 DEF CoverInv, CallsInv, AddsUnderOneLock
        <5>2. CASE dir = "out"
          BY <1>1, <5>2 DEF VoucherInv, OneLockOutbound, Saving
        <5> QED BY <5>1, <5>2 DEF VoucherInv, Shape
      <4>2. op[o].lock # "none"
        BY <1>1 DEF VoucherInv, LocksHeld, LockNames, Saving
      <4> QED BY <4>1, <4>2 DEF VoucherInv, LocksExclusive
    <3> QED BY <1>3, <2>2, <3>1, <3>2 DEF CopiesCovered
  <2> QED BY <2>3, <2>4
<1>8. dropped' = {} => SubmittedRedeemed'
  BY <1>1, <1>3 DEF CoverInv, CallsInv, SubmittedRedeemed
<1>9. CallsInv'
  BY <1>4, <1>5, <1>6, <1>7, <1>8 DEF CallsInv
<1>10. MessagesInv'
  <2>1. Sourced'
    BY <1>1 DEF CoverInv, CallsInv, CallsSourced, MessagesInv, Sourced
  <2>2. CoverShape' /\ ChainSourced' /\ (dropped' = {} => SettlerWorks')
    BY <1>1 DEF CoverInv, MessagesInv, CoverShape, ChainSourced, SettlerWorks
  <2> QED BY <2>1, <2>2 DEF MessagesInv
<1> QED BY <1>9, <1>10 DEF CoverInv

\* An update message executes: the actor's lane is as the voucher says.
LEMMA ExecCovers ==
  ASSUME VoucherInv, CoverInv, ExecUpdate
  PROVE  CoverInv'
<1>1. PICK v \in updates :
        /\ updates' = updates \ {v}
        /\ paychAct' = IF ~ActorAccepts(v) THEN paychAct
                       ELSE [paychAct EXCEPT !.lanes =
                              [l \in DOMAIN @ \cup {v.lane} |->
                                 IF l = v.lane THEN [nonce |-> v.nonce, amt |-> v.amt] ELSE @[l]]]
  BY DEF ExecUpdate
<1>2. UNCHANGED <<dir, rec, op, pushed, accepted, dropped, allocated, settler>>
  BY DEF ExecUpdate
<1>3. v \in pushed /\ updates' \subseteq pushed
  BY <1>1 DEF CoverInv, MessagesInv, Sourced
<1>4. CASE ~ActorAccepts(v)
  BY <1>1, <1>2, <1>3, <1>4, NoCallCovers, MessagesKeep
     DEF CoverInv, MessagesInv, CoverShape, Sourced, MessagesGrow, NoNewSave, Saving
<1>5. CASE ActorAccepts(v)
  <2> DEFINE lanes == [l \in DOMAIN paychAct.lanes \cup {v.lane} |->
                         IF l = v.lane THEN [nonce |-> v.nonce, amt |-> v.amt] ELSE paychAct.lanes[l]]
  <2>1. paychAct' = [paychAct EXCEPT !.lanes = lanes]
    BY <1>1, <1>5
  <2>2. paychAct' = [lanes |-> lanes, st |-> paychAct.st]
    <3> HIDE DEF lanes
    <3> QED BY <2>1 DEF CoverInv, MessagesInv, CoverShape
  <2>3. \A l \in DOMAIN lanes : \E w \in pushed : w.lane = l /\ IsLane(lanes[l], w)
    <3> SUFFICES ASSUME NEW l \in DOMAIN lanes
                 PROVE  \E w \in pushed : w.lane = l /\ IsLane(lanes[l], w)
      OBVIOUS
    <3>1. CASE l = v.lane
      BY <1>3, <3>1 DEF IsLane
    <3>2. CASE l # v.lane
      BY <3>2 DEF CoverInv, MessagesInv, ChainSourced
    <3> QED BY <3>1, <3>2
  <2>4. CoverShape' /\ ChainSourced'
    <3> HIDE DEF lanes
    <3> QED BY <1>2, <2>2, <2>3 DEF CoverInv, MessagesInv, CoverShape, ChainSourced
  <2>5. CallsInv'
    BY <1>2, NoCallCovers DEF CoverInv, MessagesGrow, NoNewSave, Saving
  <2>6. Sourced' /\ (dropped' = {} => SettlerWorks')
    BY <1>2, <1>3 DEF CoverInv, MessagesInv, Sourced, SettlerWorks
  <2> QED BY <2>4, <2>5, <2>6 DEF CoverInv, MessagesInv
<1> QED BY <1>4, <1>5
\* The settler begins: it takes the best of what is spendable, and what is not
\* spendable is redeemed.
LEMMA SettlerHandlesCovers ==
  ASSUME VoucherInv, CoverInv, SettlerHandles
  PROVE  CoverInv'
<1>1. /\ settler' = [pc |-> "submit", todo |-> BestSpendableByLane, seen |-> rec.vouchers]
      /\ paychAct.st = "settled"
      /\ UNCHANGED <<dir, rec, op, paychAct, updates, pushed, accepted, dropped, allocated>>
  BY DEF SettlerHandles
<1>2. CallsInv'
  BY <1>1, NoCallCovers DEF CoverInv, MessagesGrow, NoNewSave, Saving
<1>3. BestSpendableByLane \subseteq rec.vouchers
  BY DEF BestSpendableByLane
<1>4. PICK best : best = BestSpendableByLane
  OBVIOUS
<1>5. settler'.pc = "submit" /\ settler'.todo = best /\ settler'.seen = rec.vouchers
  BY <1>1, <1>4
<1>6. CoverShape'
  BY <1>1, <1>5 DEF CoverInv, MessagesInv, CoverShape
<1>7. Sourced' /\ ChainSourced'
  BY <1>1, <1>3, <1>4, <1>5 DEF CoverInv, MessagesInv, Sourced, ChainSourced
<1>8. dropped' = {} => SettlerWorks'
  <2> SUFFICES ASSUME dropped = {}, NEW v \in rec.vouchers
               PROVE  RedeemedBy(pushed \cup best, v)
    BY <1>1, <1>5 DEF SettlerWorks
  <2>1. StoreKnowsChain /\ rec.vouchers \subseteq Voucher /\ IsFiniteSet(rec.vouchers)
    BY NothingDropped DEF StoreKnowsChain
  <2>2. CASE CheckVoucherSpendable(rec, v)
    <3>1. RedeemedBy(best, v)
      BY <1>4, <2>1, <2>2, BestIsTaken
    <3> QED BY <3>1, RedeemedGrows
  <2>3. CASE v \in rec.submitted
    <3>1. RedeemedBy(pushed, v)
      BY <2>3 DEF CoverInv, CallsInv, SubmittedRedeemed
    <3> QED BY <3>1, RedeemedGrows
  <2>4. CASE ~ActorAccepts(v)
    <3>1. RedeemedBy(pushed, v)
      BY <1>1, <2>1, <2>4, RefusedIsRedeemed
    <3> QED BY <3>1, RedeemedGrows
  <2> QED BY <2>2, <2>3, <2>4 DEF CheckVoucherSpendable
<1> QED BY <1>2, <1>6, <1>7, <1>8 DEF CoverInv, MessagesInv

\* The settler submits a voucher: it leaves the list when it is in a message.
LEMMA SettlerSubmitsCovers ==
  ASSUME VoucherInv, CoverInv, SettlerSubmits
  PROVE  CoverInv'
<1>1. PICK v \in settler.todo :
        /\ SubmitVoucher(Settler, v)
        /\ settler' = IF v \in rec.submitted THEN [settler EXCEPT !.pc = "error"]
                      ELSE [settler EXCEPT !.todo = @ \ {v}]
  BY DEF SettlerSubmits
<1>2. /\ UNCHANGED <<dir, rec, paychAct, accepted, dropped, allocated>>
      /\ settler.pc = "submit" /\ v \in accepted /\ Settler \in Actors
  BY DEF SettlerSubmits, CoverInv, MessagesInv, Sourced, Actors
<1>3. /\ CallsInv' /\ pushed \subseteq pushed' /\ pushed' \subseteq accepted /\ updates' \subseteq pushed'
      /\ v \in rec.submitted \/ v \in pushed'
  BY <1>1, <1>2, SubmitCovers
<1>4. settler = [pc |-> "submit", todo |-> settler.todo, seen |-> settler.seen]
  BY <1>2 DEF CoverInv, MessagesInv, CoverShape
<1>5. \/ /\ settler' = [pc |-> "error", todo |-> settler.todo, seen |-> settler.seen]
      \/ /\ settler' = [pc |-> "submit", todo |-> settler.todo \ {v}, seen |-> settler.seen]
         /\ v \in pushed'
  BY <1>1, <1>3, <1>4
<1>6. CoverShape'
  BY <1>2, <1>5 DEF CoverInv, MessagesInv, CoverShape
<1>7. Sourced' /\ ChainSourced'
  BY <1>2, <1>3, <1>5 DEF CoverInv, MessagesInv, Sourced, ChainSourced
<1>8. dropped' = {} => SettlerWorks'
  <2>1. CASE settler'.pc = "error"
    BY <2>1 DEF SettlerWorks
  <2>2. CASE settler'.pc # "error"
    <3>1. /\ settler'.pc = "submit" /\ settler'.todo = settler.todo \ {v} /\ settler'.seen = settler.seen
          /\ v \in pushed'
      BY <1>5, <2>2
    <3>2. pushed \cup settler.todo \subseteq pushed' \cup settler'.todo
      BY <1>3, <3>1
    <3> SUFFICES ASSUME dropped = {}, NEW w \in settler.seen
                 PROVE  RedeemedBy(pushed' \cup settler'.todo, w)
      BY <1>2, <3>1 DEF SettlerWorks
    <3>3. RedeemedBy(pushed \cup settler.todo, w)
      BY <1>2 DEF CoverInv, MessagesInv, SettlerWorks
    <3> QED BY <3>2, <3>3, RedeemedGrows
  <2> QED BY <2>1, <2>2
<1> QED BY <1>3, <1>6, <1>7, <1>8 DEF CoverInv, MessagesInv

\* The settler ends, or is lost in a crash.
LEMMA SettlerStopsCovers ==
  ASSUME VoucherInv, CoverInv, NoNewSave, NEW pc, settler' = [settler EXCEPT !.pc = pc],
         pc = "done" => settler.pc = "submit" /\ settler.todo = {}, pc # "submit",
         UNCHANGED <<dir, rec, paychAct, updates, pushed, accepted, dropped, allocated>>
  PROVE  CoverInv'
<1>1. settler' = [pc |-> pc, todo |-> settler.todo, seen |-> settler.seen]
  BY DEF CoverInv, MessagesInv, CoverShape
<1>2. CallsInv'
  BY NoCallCovers DEF CoverInv, MessagesGrow
<1>3. CoverShape' /\ Sourced' /\ ChainSourced'
  BY <1>1 DEF CoverInv, MessagesInv, CoverShape, Sourced, ChainSourced
<1>4. dropped' = {} => SettlerWorks'
  <2> SUFFICES ASSUME dropped = {}, pc = "done", NEW w \in settler.seen
               PROVE  RedeemedBy(pushed, w)
    BY <1>1 DEF SettlerWorks
  <2>1. RedeemedBy(pushed \cup settler.todo, w)
    BY DEF CoverInv, MessagesInv, SettlerWorks
  <2>2. pushed \cup settler.todo = pushed
    OBVIOUS
  <2> QED BY <2>1, <2>2
<1> QED BY <1>2, <1>3, <1>4 DEF CoverInv, MessagesInv
\* An inbound channel is tracked: it has no voucher yet.
LEMMA TrackCovers ==
  ASSUME VoucherInv, CoverInv, TrackInboundChannel
  PROVE  CoverInv'
<1>1. /\ rec'.vouchers = {} /\ rec'.submitted = {} /\ ~rec.tracked
      /\ UNCHANGED <<dir, op, paychAct, updates, pushed, accepted, dropped, allocated, settler>>
  BY DEF TrackInboundChannel, NoRec
<1>2. \A o \in Actors : ~Saving(o) /\ ~Saving(o)'
  BY <1>1 DEF VoucherInv, CopiesTracked, Saving
<1>3. Typed'
  BY <1>1, <1>2 DEF CoverInv, CallsInv, Typed
<1>4. CallsInv'
  BY <1>1, <1>2, <1>3, EmptyCovered
  DEF CallsInv, CallsSourced, AddsUnderOneLock, CopiesCovered, SubmittedRedeemed
<1>5. MessagesInv'
  BY <1>1 DEF CoverInv, MessagesInv, CoverShape, Sourced, ChainSourced, SettlerWorks
<1> QED BY <1>4, <1>5 DEF CoverInv

\* The voucher that createVoucher makes is one of the channel's.
LEMMA NextNonceIsPositive ==
  ASSUME CoverInv, NEW l
  PROVE  NextNonce(l) \in Nat \ {0}
<1>1. CASE OnLane(rec, l) = {}
  BY <1>1 DEF NextNonce
<1>2. CASE OnLane(rec, l) # {}
  <2>1. PICK S : S = OnLane(rec, l)
    OBVIOUS
  <2>2. S \subseteq accepted /\ accepted \subseteq Voucher /\ IsFiniteSet(accepted)
    BY <2>1 DEF OnLane, CoverInv, CallsInv, Typed, MessagesInv, Sourced
  <2>3. S \subseteq Voucher /\ IsFiniteSet(S) /\ S # {}
    BY <1>2, <2>1, <2>2, FS_Subset
  <2>4. HighestNonce(S) \in Voucher
    BY <2>3, HighestExists
  <2>5. HighestNonce(S).nonce \in Nat
    BY <2>4 DEF Voucher
  <2> QED BY <1>2, <2>1, <2>5 DEF NextNonce
<1> QED BY <1>1, <1>2

\* A call that writes no voucher that is not stored keeps the invariant: the lane
\* that AllocateLane takes, the settlement that Settle asks for.
LEMMA PlainHoldCovers ==
  ASSUME VoucherInv, CoverInv, NEW o \in Actors, NEW kind, NEW out, NEW lanes,
         Hold(o, kind, out, {}, lanes), lanes \in Seq(AllLanes),
         out.vouchers = rec.vouchers, out.submitted = rec.submitted,
         paychAct' = [lanes |-> paychAct.lanes, st |-> paychAct'.st],
         UNCHANGED <<dir, rec, updates, pushed, accepted, dropped, allocated, settler>>
  PROVE  CoverInv'
<1>1. CallsInv /\ MessagesInv /\ MessagesGrow
  BY DEF CoverInv, MessagesGrow
<1>2. MayWrite(out, {}, lanes, pushed')
  BY <1>1, FS_EmptySet DEF MayWrite, MessagesInv, Sourced, CallsInv, SubmittedRedeemed
<1>3. AddsOnItsLock({}, kind)
  BY DEF AddsOnItsLock
<1>4. CallsInv'
  BY <1>1, <1>2, <1>3, HoldCovers
<1>5. MessagesInv'
  BY <1>1, MessagesKeep DEF MessagesInv, Sourced
<1> QED BY <1>4, <1>5 DEF CoverInv

\* Every step keeps the invariant.
LEMMA NextCovers ==
  ASSUME VoucherInv, CoverInv, [VoucherNext]_voucherVars
  PROVE  CoverInv'
<1>0. paychAct = [lanes |-> paychAct.lanes, st |-> paychAct.st]
  BY DEF CoverInv, MessagesInv, CoverShape
<1>1. CASE TrackInboundChannel
  BY <1>1, TrackCovers
<1>2. ASSUME NEW o \in Ops, AddVoucherInbound(o)
      PROVE  CoverInv'
  <2>1. PICK v \in [lane : Lanes, nonce : Nonces, amt : Amounts], d \in MinDeltas :
          AddVoucherUnlocked(o, "addInbound", v, d)
    BY <1>2 DEF AddVoucherInbound
  <2>2. v \in Voucher
    BY LanesFinite, PaychVouchersAssumption DEF Voucher
  <2> QED BY <1>2, <2>1, <2>2, AddCovers DEF AddVoucherInbound, Actors
<1>3. ASSUME NEW o \in Ops, CreateVoucher(o)
      PROVE  CoverInv'
  <2>1. PICK l \in Lanes \cup {allocated[i] : i \in DOMAIN allocated}, a \in Amounts :
          AddVoucherUnlocked(o, "create", [lane |-> l, nonce |-> NextNonce(l), amt |-> a], 0)
    BY <1>3 DEF CreateVoucher
  <2>2. l \in AllLanes
    BY LanesFinite DEF CoverInv, CallsInv, Typed
  <2>3. PICK v : v = [lane |-> l, nonce |-> NextNonce(l), amt |-> a]
    OBVIOUS
  <2>4. v \in Voucher
    BY <2>2, <2>3, NextNonceIsPositive DEF Voucher
  <2>5. AddVoucherUnlocked(o, "create", v, 0)
    BY <2>1, <2>3
  <2>6. /\ dir # "in"
        /\ UNCHANGED <<dir, rec, paychAct, updates, pushed, accepted, dropped, allocated, settler>>
    BY <1>3 DEF CreateVoucher
  <2> QED BY <2>4, <2>5, <2>6, AddCovers DEF Actors
<1>4. ASSUME NEW o \in Ops, SubmitCall(o)
      PROVE  CoverInv'
  <2>1. PICK v \in accepted : SubmitVoucher(o, v)
    BY <1>4 DEF SubmitCall
  <2>2. UNCHANGED <<dir, rec, paychAct, accepted, dropped, allocated, settler>> /\ o \in Actors
    BY <1>4 DEF SubmitCall, Actors
  <2>3. CallsInv' /\ pushed \subseteq pushed' /\ pushed' \subseteq accepted /\ updates' \subseteq pushed'
    BY <2>1, <2>2, SubmitCovers
  <2>4. paychAct' = [lanes |-> paychAct.lanes, st |-> paychAct'.st]
    BY <1>0, <2>2
  <2>5. MessagesInv'
    BY <2>2, <2>3, <2>4, MessagesKeep DEF CoverInv
  <2> QED BY <2>3, <2>5 DEF CoverInv
<1>5. ASSUME NEW o \in Ops, AllocateLane(o)
      PROVE  CoverInv'
  <2> DEFINE out == [rec EXCEPT !.next = @ + 1]
  <2>1. out.vouchers = rec.vouchers /\ out.submitted = rec.submitted
    BY DEF VoucherInv, Shape, IsRecord
  <2>2. /\ Hold(o, "allocate", out, {}, <<rec.next>>) /\ <<rec.next>> \in Seq(AllLanes)
        /\ UNCHANGED <<dir, rec, paychAct, updates, pushed, accepted, dropped, allocated, settler>>
    BY <1>5 DEF AllocateLane
  <2> HIDE DEF out
  <2>3. paychAct' = [lanes |-> paychAct.lanes, st |-> paychAct'.st]
    BY <1>0, <2>2
  <2> QED BY <2>1, <2>2, <2>3, PlainHoldCovers DEF Actors
<1>6. ASSUME NEW o \in Ops, Settle(o)
      PROVE  CoverInv'
  <2>1. /\ Hold(o, "settle", rec, {}, << >>) /\ paychAct' = [paychAct EXCEPT !.st = "settling"]
        /\ UNCHANGED <<dir, rec, updates, pushed, accepted, dropped, allocated, settler>>
    BY <1>6 DEF Settle
  <2>2. paychAct' = [lanes |-> paychAct.lanes, st |-> paychAct'.st]
    BY <1>0, <2>1
  <2>3. << >> \in Seq(AllLanes)
    OBVIOUS
  <2> QED BY <2>1, <2>2, <2>3, PlainHoldCovers DEF Actors
<1>7. ASSUME NEW o \in Actors, SaveChannel(o)
      PROVE  CoverInv'
  BY <1>7, SaveCovers
<1>8. CASE SettlerHandles
  BY <1>8, SettlerHandlesCovers
<1>9. CASE SettlerSubmits
  BY <1>9, SettlerSubmitsCovers
<1>10. CASE SettlerEnds
  <2>1. NoNewSave /\ settler' = [settler EXCEPT !.pc = "done"]
    BY <1>10 DEF SettlerEnds, NoNewSave, Saving
  <2> QED BY <1>10, <2>1, SettlerStopsCovers DEF SettlerEnds
<1>11. ASSUME UNCHANGED <<dir, rec, updates, pushed, accepted, dropped, allocated, settler>>, NoNewSave,
              paychAct' = [lanes |-> paychAct.lanes, st |-> paychAct'.st]
       PROVE  CoverInv'
  BY <1>11, NoCallCovers, MessagesKeep DEF CoverInv, MessagesInv, Sourced, MessagesGrow
<1>12. CASE VoucherCrash
  <2>1. NoNewSave
    BY <1>12 DEF VoucherCrash, NoNewSave, Saving, IdleOp
  <2>2. UNCHANGED <<dir, rec, paychAct, updates, pushed, accepted, dropped, allocated>>
    BY <1>12 DEF VoucherCrash
  <2>3. CASE settler' = [settler EXCEPT !.pc = "crashed"]
    BY <2>1, <2>2, <2>3, SettlerStopsCovers
  <2>4. CASE settler' = settler
    BY <1>0, <1>11, <2>1, <2>2, <2>4
  <2> QED BY <1>12, <2>3, <2>4 DEF VoucherCrash
<1>13. CASE ExecUpdate
  BY <1>13, ExecCovers
<1>14. CASE ChainSettles
  <2>1. /\ UNCHANGED <<dir, rec, op, updates, pushed, accepted, dropped, allocated, settler>>
        /\ \E st : paychAct' = [paychAct EXCEPT !.st = st]
    BY <1>14 DEF ChainSettles
  <2>2. paychAct' = [lanes |-> paychAct.lanes, st |-> paychAct'.st]
    BY <1>0, <2>1
  <2>3. NoNewSave
    BY <2>1 DEF NoNewSave, Saving
  <2> QED BY <1>11, <2>1, <2>2, <2>3
<1>15. CASE UNCHANGED voucherVars
  <2>1. /\ UNCHANGED <<dir, rec, op, paychAct, updates, pushed, accepted, dropped, allocated, settler>>
        /\ NoNewSave
    BY <1>15 DEF voucherVars, NoNewSave, Saving
  <2> QED BY <1>0, <1>11, <2>1
<1> QED
  BY <1>1, <1>2, <1>3, <1>4, <1>5, <1>6, <1>7, <1>8, <1>9, <1>10, <1>12, <1>13, <1>14, <1>15
  DEF VoucherNext

\* Both invariants together.
LEMMA VoucherInvariants == VoucherSpec => [](VoucherInv /\ CoverInv)
<1>1. VoucherInit => VoucherInv /\ CoverInv
  BY InitHolds, CoverInit
<1>2. VoucherInv /\ CoverInv /\ [VoucherNext]_voucherVars => VoucherInv' /\ CoverInv'
  BY NextKeeps, NextCovers
<1> QED BY <1>1, <1>2, PTL DEF VoucherSpec

\* The vouchers stored are never worth more than the channel holds, and on each
\* lane a higher nonce is worth more, whatever was redeemed in between and
\* wherever the process crashed, until a save of the other accessor drops one.
THEOREM StoredVouchersCovered == VoucherSpec => []VouchersCovered
<1>1. ASSUME VoucherInv, CoverInv
      PROVE  VouchersCovered
  <2> SUFFICES ASSUME dropped = {}
               PROVE  /\ SumFunction([l \in AllLanes |-> LaneState(rec, l).amt]) <= Balance
                      /\ \A v, w \in rec.vouchers : v.lane = w.lane /\ v.nonce < w.nonce => v.amt < w.amt
    BY DEF VouchersCovered
  <2>1. StoreKnowsChain
    BY <1>1, NothingDropped
  <2>2. /\ rec.vouchers \subseteq Voucher /\ IsFiniteSet(rec.vouchers) /\ Ordered(rec.vouchers)
        /\ ChainSourced /\ pushed \subseteq rec.vouchers
    BY <2>1 DEF StoreKnowsChain, Covered
  <2>3. \A l : LaneState(rec, l).amt = LaneTop(rec.vouchers, l)
    BY <2>2, LaneStateIsTop
  <2>4. [l \in AllLanes |-> LaneState(rec, l).amt] = [l \in AllLanes |-> LaneTop(rec.vouchers, l)]
    BY <2>3
  <2>5. SumFunction([l \in AllLanes |-> LaneTop(rec.vouchers, l)]) <= Balance
    BY <2>1 DEF StoreKnowsChain, Covered
  <2> QED BY <2>2, <2>4, <2>5 DEF Ordered
<1> QED BY VoucherInvariants, <1>1, PTL

\* When the settler's handler ends well, a message redeems as much as every
\* voucher that it saw, for any number of lanes, vouchers and concurrent calls.
THEOREM SettlerRedeemsAll == VoucherSpec => []SettlerRedeems
<1>1. CoverInv => SettlerRedeems
  BY DEF CoverInv, MessagesInv, SettlerWorks, SettlerRedeems, RedeemedBy
<1> QED BY VoucherInvariants, <1>1, PTL
=============================================================================
