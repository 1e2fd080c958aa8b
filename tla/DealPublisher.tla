--------------------------- MODULE DealPublisher ---------------------------
(***************************************************************************)
(* The deal publisher of storageprovider/dealpublisher.go for one storage  *)
(* provider: deals wait in a queue for a period or until the queue holds   *)
(* the maximum for one message, then a goroutine validates the batch and   *)
(* sends one PublishStorageDeals message.                                  *)
(*                                                                         *)
(* The queue and the batches are sets: the order of deals in a message is  *)
(* of no consequence to their callers.                                     *)
(***************************************************************************)
EXTENDS Integers, Sequences, FiniteSets

CONSTANTS
  Deals,            \* the deals whose handlers call Publish, once each
  MaxDealsPerMsg,   \* maxDealsPerPublishMsg
  Batching,         \* publishPeriod # 0
  MaxForce,         \* bound: calls of ForcePublishPendingDeals
  MayCancel,        \* deals whose context may end while they wait
  MayExpire,        \* deals whose start epoch may pass
  NodeFails,        \* calls of the node, the address selector or PushMessage may fail
  NoTimer           \* cancelWaitForMoreDeals = nil

ASSUME PublisherAssumption ==
  /\ IsFiniteSet(Deals)
  /\ MaxDealsPerMsg \in Nat \ {0}
  /\ Batching \in BOOLEAN
  /\ MaxForce \in Nat
  /\ MayCancel \subseteq Deals
  /\ MayExpire \subseteq Deals
  /\ NodeFails \in BOOLEAN
  /\ NoTimer \notin Deals

VARIABLES
  told,         \* what the handler of each deal has been told by Publish
  ctxDone,      \* deals whose context has ended
  expired,      \* deals whose start epoch the chain head has passed
  pending,      \* the queue
  cancelWait,   \* the timer that cancelWaitForMoreDeals cancels
  periodStart,  \* publishPeriodStart is set
  timers,       \* timers[d]: the timer goroutine that the Publish of d started
  batches,      \* publishReady goroutines: deals to validate and validated
  result,       \* the result onComplete holds for each deal
  msgs,         \* the deals of each message pushed
  forces,
  stopped       \* p.ctx has been cancelled by Shutdown

vars == <<told, ctxDone, expired, pending, cancelWait, periodStart, timers,
          batches, result, msgs, forces, stopped>>

TimerStates == {"unused", "armed", "fired", "done"}
Batch == {b \in [todo : SUBSET Deals, valid : SUBSET Deals] : b.todo \cap b.valid = {}}

Init ==
  /\ told = [d \in Deals |-> "new"]
  /\ ctxDone = {} /\ expired = {}
  /\ pending = {}
  /\ cancelWait = NoTimer /\ periodStart = FALSE
  /\ timers = [t \in Deals |-> "unused"]
  /\ batches = {}
  /\ result = [d \in Deals |-> "none"]
  /\ msgs = << >>
  /\ forces = 0 /\ stopped = FALSE

-----------------------------------------------------------------------------
(* The queue and its timer.                                                  *)

\* Mutant: the cancel function is dropped without being called.
MutantCancelled(t) == timers

\* cancelWaitForMoreDeals(): the goroutine of an armed timer ends; one whose
\* timer has fired already is past its select.
Cancelled(t) ==
  IF t # NoTimer /\ timers[t] = "armed" THEN [timers EXCEPT ![t] = "done"] ELSE timers

\* Mutant: `validated` is made with a length instead of a capacity.
MutantReady(deals) == IF deals = {} THEN {} ELSE {[todo |-> deals, valid |-> deals]}

\* `go p.publishReady(deals)`, which returns at once for no deals.
Ready(deals) == IF deals = {} THEN {} ELSE {[todo |-> deals, valid |-> {}]}

\* Mutant: the queue is not emptied.
MutantKeepQueue(queue, wait, tmrs) ==
  /\ timers' = tmrs
  /\ cancelWait' = NoTimer
  /\ periodStart' = IF wait # NoTimer THEN FALSE ELSE periodStart
  /\ pending' = queue \ ctxDone
  /\ batches' = batches \cup Ready(queue \ ctxDone)

\* Mutant: the queue is emptied before it is read.
MutantLoseQueue(queue, wait, tmrs) ==
  /\ timers' = tmrs
  /\ cancelWait' = NoTimer
  /\ periodStart' = IF wait # NoTimer THEN FALSE ELSE periodStart
  /\ pending' = {}
  /\ UNCHANGED batches

\* publishAllDeals, on a queue: cancel the timer, filter, empty the queue.
\* The period is only reset together with a timer.
PublishAllDeals(queue, wait, tmrs) ==
  /\ timers' = tmrs
  /\ cancelWait' = NoTimer
  /\ periodStart' = IF wait # NoTimer THEN FALSE ELSE periodStart
  /\ pending' = {}
  /\ batches' = batches \cup Ready(queue \ ctxDone)

\* waitForMoreDeals: start a timer unless a period has been started.
WaitForMoreDeals(d, wait, tmrs) ==
  /\ timers' = IF periodStart THEN tmrs
               ELSE [tmrs EXCEPT ![d] = IF stopped THEN "done" ELSE "armed"]
  /\ cancelWait' = IF periodStart THEN wait ELSE d
  /\ periodStart' = TRUE

\* Mutant: the queue is published only beyond the maximum.
MutantPublishNow(queue) == Cardinality(queue) > MaxDealsPerMsg \/ ~Batching

\* The queue has reached its maximum, or deals are not batched.
PublishNow(queue) == Cardinality(queue) >= MaxDealsPerMsg \/ ~Batching

\* Publish and processNewDeal.
Publish(d) ==
  /\ told[d] = "new"
  /\ LET left == pending \ ctxDone
         drop == left = {} /\ cancelWait # NoTimer
         wait == IF drop THEN NoTimer ELSE cancelWait
         tmrs == IF drop THEN Cancelled(cancelWait) ELSE timers
         queue == left \cup {d}
     IN \/ /\ d \in ctxDone
           /\ told' = [told EXCEPT ![d] = "cancelled"]
           /\ pending' = left
           /\ cancelWait' = wait
           /\ timers' = tmrs
           /\ UNCHANGED <<periodStart, batches>>
        \/ /\ d \notin ctxDone
           /\ told' = [told EXCEPT ![d] = "waiting"]
           /\ \/ /\ PublishNow(queue)
                 /\ PublishAllDeals(queue, wait, IF drop THEN tmrs ELSE Cancelled(cancelWait))
              \/ /\ ~PublishNow(queue)
                 /\ pending' = queue
                 /\ WaitForMoreDeals(d, wait, tmrs)
                 /\ UNCHANGED batches
  /\ UNCHANGED <<ctxDone, expired, result, msgs, forces, stopped>>

\* ForcePublishPendingDeals.
ForcePublishPendingDeals ==
  /\ forces < MaxForce
  /\ forces' = forces + 1
  /\ PublishAllDeals(pending, cancelWait, Cancelled(cancelWait))
  /\ UNCHANGED <<told, ctxDone, expired, result, msgs, stopped>>

\* The timer of a waiting goroutine fires; it still has to take the lock.
TimerFires(t) ==
  /\ timers[t] = "armed"
  /\ timers' = [timers EXCEPT ![t] = "fired"]
  /\ UNCHANGED <<told, ctxDone, expired, pending, cancelWait, periodStart,
                 batches, result, msgs, forces, stopped>>

\* The goroutine has the lock: publish whatever is in the queue by now.
TimerPublishes(t) ==
  /\ timers[t] = "fired"
  /\ PublishAllDeals(pending, cancelWait, [Cancelled(cancelWait) EXCEPT ![t] = "done"])
  /\ UNCHANGED <<told, ctxDone, expired, result, msgs, forces, stopped>>

-----------------------------------------------------------------------------
(* publishReady.                                                             *)

\* validateDeal: the head must not have passed the start epoch.  A deal that
\* fails is completed with the error; so is every deal once p.ctx is done.
ValidateDeal(b, d) ==
  /\ d \in b.todo
  /\ \/ /\ d \notin expired /\ ~stopped
        /\ batches' = (batches \ {b}) \cup {[todo |-> b.todo \ {d}, valid |-> b.valid \cup {d}]}
        /\ UNCHANGED result
     \/ /\ d \in expired \/ NodeFails \/ stopped
        /\ batches' = (batches \ {b}) \cup {[b EXCEPT !.todo = @ \ {d}]}
        /\ result' = [result EXCEPT ![d] = "failed"]
  /\ UNCHANGED <<told, ctxDone, expired, pending, cancelWait, periodStart, timers,
                 msgs, forces, stopped>>

\* Mutant: deals that failed validation are reported like the message.
MutantCompleted(b, res) == [d \in Deals |-> IF d \in b.valid \/ result[d] = "failed"
                                            THEN res ELSE result[d]]

\* onComplete of every validated deal, with the outcome of the message.
Completed(b, res) == [d \in Deals |-> IF d \in b.valid THEN res ELSE result[d]]

\* publishDealProposals, then onComplete for every validated deal.
PublishDealProposals(b) ==
  /\ b.todo = {}
  /\ batches' = batches \ {b}
  /\ \/ /\ b.valid = {}
        /\ UNCHANGED <<result, msgs>>
     \/ /\ b.valid # {} /\ ~stopped
        /\ msgs' = Append(msgs, b.valid)
        /\ result' = Completed(b, "published")
     \/ /\ b.valid # {} /\ (NodeFails \/ stopped)
        /\ result' = Completed(b, "failed")
        /\ UNCHANGED msgs
  /\ UNCHANGED <<told, ctxDone, expired, pending, cancelWait, periodStart, timers,
                 forces, stopped>>

\* onComplete hands the result to the handler that waits in Publish.
OnComplete(d) ==
  /\ result[d] \notin {"none", "dropped"} /\ told[d] = "waiting"
  /\ told' = [told EXCEPT ![d] = result[d]]
  /\ UNCHANGED <<ctxDone, expired, pending, cancelWait, periodStart, timers, batches,
                 result, msgs, forces, stopped>>

\* After Shutdown onComplete may drop the result instead.
DropResult(d) ==
  /\ stopped
  /\ result[d] \notin {"none", "dropped"} /\ told[d] = "waiting"
  /\ result' = [result EXCEPT ![d] = "dropped"]
  /\ UNCHANGED <<told, ctxDone, expired, pending, cancelWait, periodStart, timers,
                 batches, msgs, forces, stopped>>

-----------------------------------------------------------------------------
(* The surroundings.                                                         *)

\* The context of a deal ends; Publish returns ctx.Err() if it was waiting.
CancelDeal(d) ==
  /\ d \notin ctxDone /\ told[d] \in {"new", "waiting"}
  /\ ctxDone' = ctxDone \cup {d}
  /\ told' = IF told[d] = "waiting" THEN [told EXCEPT ![d] = "cancelled"] ELSE told
  /\ UNCHANGED <<expired, pending, cancelWait, periodStart, timers, batches, result,
                 msgs, forces, stopped>>

\* The chain head passes the start epoch of a deal.
Expire(d) ==
  /\ d \notin expired
  /\ expired' = expired \cup {d}
  /\ UNCHANGED <<told, ctxDone, pending, cancelWait, periodStart, timers, batches,
                 result, msgs, forces, stopped>>

\* Shutdown cancels p.ctx, and with it the context of an armed timer.
Shutdown ==
  /\ ~stopped
  /\ stopped' = TRUE
  /\ timers' = [t \in Deals |-> IF timers[t] = "armed" THEN "done" ELSE timers[t]]
  /\ UNCHANGED <<told, ctxDone, expired, pending, cancelWait, periodStart, batches,
                 result, msgs, forces>>

Step ==
  \/ \E t \in Deals : TimerFires(t) \/ TimerPublishes(t)
  \/ \E b \in batches : PublishDealProposals(b) \/ \E d \in Deals : ValidateDeal(b, d)
  \/ \E d \in Deals : OnComplete(d) \/ DropResult(d)

Next ==
  \/ \E d \in Deals : Publish(d)
  \/ ForcePublishPendingDeals
  \/ Step
  \/ \E d \in MayCancel : CancelDeal(d)
  \/ \E d \in MayExpire : Expire(d)
  \/ Shutdown

Spec == Init /\ [][Next]_vars

\* Timers fire and goroutines run.
FairSpec ==
  /\ Spec
  /\ \A t \in Deals : WF_vars(TimerFires(t)) /\ WF_vars(TimerPublishes(t))
  /\ WF_vars(\E b \in batches : PublishDealProposals(b) \/ \E d \in Deals : ValidateDeal(b, d))
  /\ \A d \in Deals : WF_vars(OnComplete(d) \/ DropResult(d))

-----------------------------------------------------------------------------
(* Properties.                                                               *)

\* Every variable has its type.
TypeOK ==
  /\ told \in [Deals -> {"new", "waiting", "published", "failed", "cancelled"}]
  /\ ctxDone \subseteq Deals /\ expired \subseteq Deals
  /\ pending \subseteq Deals
  /\ cancelWait \in Deals \cup {NoTimer}
  /\ periodStart \in BOOLEAN
  /\ timers \in [Deals -> TimerStates]
  /\ batches \subseteq Batch
  /\ result \in [Deals -> {"none", "published", "failed", "dropped"}]
  /\ msgs \in Seq(SUBSET Deals)
  /\ forces \in Nat /\ stopped \in BOOLEAN

\* "There is a configurable maximum number of deals that can be included in
\* one message": deals that arrive while a batch is on its way never swell it
\* beyond the maximum, whoever published the queue.
MessageWithinLimit ==
  \A i \in DOMAIN msgs : Cardinality(msgs[i]) <= MaxDealsPerMsg

\* A deal goes into one message at most, although the timer, a full queue and
\* a forced publish may all take the queue at about the same time.
PublishedOnce ==
  \A i, j \in DOMAIN msgs : i # j => msgs[i] \cap msgs[j] = {}

\* What Publish returns matches the chain: a cid means that the deal is in a
\* message, an error that it is in none and the deal may be given up.
ResultMatchesMessage ==
  \A d \in Deals :
    /\ told[d] = "published" => \E i \in DOMAIN msgs : d \in msgs[i]
    /\ told[d] = "failed" => \A i \in DOMAIN msgs : d \notin msgs[i]

\* At most one timer is running, the one that can be cancelled: no timer of
\* an earlier period is left to cut a later period short.
OneTimerArmed == \A t \in Deals : timers[t] = "armed" => cancelWait = t

\* While a period is running, a deal in the queue is published, fails or is
\* given up in the end, unless the publisher is shut down.
TimerServesQueue ==
  \A d \in Deals :
    (d \in pending /\ cancelWait # NoTimer /\ ~stopped)
      ~> (told[d] # "waiting" \/ stopped)

\* "Otherwise wait for more deals to arrive or the timeout to be reached": a
\* deal in the queue is published, fails or is given up in the end, also when
\* no other deal arrives.
EveryDealPublished ==
  \A d \in Deals : (told[d] = "waiting" /\ ~stopped) ~> (told[d] # "waiting" \/ stopped)
=============================================================================
