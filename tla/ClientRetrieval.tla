-------------------------- MODULE ClientRetrieval --------------------------
(***************************************************************************)
(* Retrievals of a market client (client/client.go): orders that start a   *)
(* deal, callers of ClientRetrieveWait, which follow a deal through a      *)
(* subscription and a channel that holds one state, a caller of            *)
(* ClientCancelRetrievalDeal and a consumer of ClientGetRetrievalUpdates.  *)
(* The deals' state machine and its publisher are library code: events are *)
(* published one after the other, each to the subscribers in turn.         *)
(***************************************************************************)
EXTENDS Integers, Sequences, SequencesExt

CONSTANTS
  RetrievalIds,  \* ids of retrieval deals; 0 is an id of no deal
  UnsubscribeWaits, \* whether unsubscribing waits for the event being published
  Finals,        \* the statuses that end ClientRetrieveWait
  Waiting,       \* callers of ClientRetrieveWait
  Listener,      \* the consumer of ClientGetRetrievalUpdates
  MaxEvents,     \* bound: events of one deal
  MaxWaits       \* bound: calls that wait, cancel or listen

ASSUME ClientRetrievalAssumption ==
  /\ {"Completed", "Cancelled"} \subseteq Finals
  /\ Finals \subseteq {"Completed", "Rejected", "Cancelled", "DealNotFound", "Errored"}
  /\ 0 \notin RetrievalIds /\ UnsubscribeWaits \in BOOLEAN
  /\ MaxEvents \in Nat /\ MaxWaits \in Nat

VARIABLES
  status,      \* RetrievalIds -> the deal's status, "none" before it starts
  happened,    \* RetrievalIds -> number of its events
  queue,       \* events not yet published: [deal, status]
  subscribers, \* the subscriptions, in order
  publishing,  \* <<>>, or <<event, subscribers still to call>>
  waiter,      \* Waiting -> [pc, deal, buf, done]
  listener,    \* "off", "reading", "busy", "left", "gone"
  canceller,   \* [caller, worker] of ClientCancelRetrievalDeal
  waits

retrieveVars == <<status, happened, queue, subscribers, publishing, waiter, listener, canceller, waits>>

NoWaiter == [pc |-> "idle", step |-> 1, deal |-> 0, buf |-> <<>>, done |-> FALSE]

RetrieveTypeOK ==
  /\ \A d \in RetrievalIds : status[d] \in Finals \cup {"none", "Ongoing"} /\ happened[d] \in 0..MaxEvents
  /\ \A w \in Waiting : waiter[w].pc \in {"idle", "open", "loop", "leave", "cancel", "returned"} /\ Len(waiter[w].buf) <= 1
  /\ listener \in {"off", "reading", "busy", "left", "gone"}
  /\ canceller \in [caller : {"idle", "waiting"}, worker : {"idle", "calling", "sending"}]

RetrieveInit ==
  /\ status = [d \in RetrievalIds |-> "none"] /\ happened = [d \in RetrievalIds |-> 0]
  /\ queue = <<>> /\ subscribers = <<>> /\ publishing = <<>>
  /\ waiter = [w \in Waiting |-> NoWaiter]
  /\ listener = "off" /\ canceller = [caller |-> "idle", worker |-> "idle"] /\ waits = 0

-----------------------------------------------------------------------------
\* Deals.

\* An order: whether the peer of the miner is found, a total is given and the
\* size is not zero.
Orders == [peer : BOOLEAN, total : BOOLEAN, size : 0..1]
Accepted(order) == order.peer /\ order.total /\ order.size # 0

\* ClientRetrieve: only an accepted order becomes a deal.
ClientRetrieve(d) ==
  /\ status[d] = "none"
  /\ \E order \in Orders : Accepted(order)
  /\ status' = [status EXCEPT ![d] = "Ongoing"]
  /\ UNCHANGED <<happened, queue, subscribers, publishing, waiter, listener, canceller, waits>>

\* The state machine of a deal takes an event and queues it for publication.
Event(d, s) ==
  /\ status[d] = "Ongoing" /\ happened[d] < MaxEvents
  /\ status' = [status EXCEPT ![d] = s] /\ happened' = [happened EXCEPT ![d] = @ + 1]
  /\ queue' = Append(queue, [deal |-> d, status |-> s])

DealEvent(d) ==
  /\ \E s \in Finals \cup {"Ongoing"} : Event(d, s)
  /\ UNCHANGED <<subscribers, publishing, waiter, listener, canceller, waits>>

\* ClientCancelRetrievalDeal: a goroutine cancels the deal and offers the
\* result, the caller takes it or gives up with its context.
CancelRetrieval ==
  /\ canceller = [caller |-> "idle", worker |-> "idle"] /\ waits < MaxWaits
  /\ canceller' = [caller |-> "waiting", worker |-> "calling"] /\ waits' = waits + 1
  /\ UNCHANGED <<status, happened, queue, subscribers, publishing, waiter, listener>>

CancelDeal ==
  /\ canceller.worker = "calling"
  /\ canceller' = [canceller EXCEPT !.worker = "sending"]
  /\ \/ \E d \in RetrievalIds : Event(d, "Cancelled")
     \/ UNCHANGED <<status, happened, queue>>
  /\ UNCHANGED <<subscribers, publishing, waiter, listener, waits>>

CancelAnswered ==
  /\ canceller.worker = "sending"
  /\ canceller' = [caller |-> "idle", worker |-> "idle"]
  /\ UNCHANGED <<status, happened, queue, subscribers, publishing, waiter, listener, waits>>

CancelTimesOut ==
  /\ canceller.caller = "waiting"
  /\ canceller' = [canceller EXCEPT !.caller = "idle"]
  /\ UNCHANGED <<status, happened, queue, subscribers, publishing, waiter, listener, waits>>

-----------------------------------------------------------------------------
\* The publisher.

Publish ==
  /\ publishing = <<>> /\ queue # <<>>
  /\ publishing' = <<Head(queue), subscribers>> /\ queue' = Tail(queue)
  /\ UNCHANGED <<status, happened, subscribers, waiter, listener, canceller, waits>>

\* The subscriber that is called next.
Called(s) == publishing # <<>> /\ publishing[2] # <<>> /\ Head(publishing[2]) = s
Returned == publishing' = <<publishing[1], Tail(publishing[2])>>

\* The callback of ClientRetrieveWait: another deal's event is dropped; a
\* state waits for room in the channel or for the end of the context.
WaitCallback(w) ==
  /\ Called(w)
  /\ LET ev == publishing[1] IN
     \/ (ev.deal # waiter[w].deal \/ waiter[w].done) /\ UNCHANGED waiter
     \/ /\ ev.deal = waiter[w].deal /\ waiter[w].buf = <<>>
        /\ waiter' = [waiter EXCEPT ![w].buf = <<ev.status>>]
  /\ Returned
  /\ UNCHANGED <<status, happened, queue, subscribers, listener, canceller, waits>>

\* The callback of ClientGetRetrievalUpdates.
UpdateCallback ==
  /\ Called(Listener)
  /\ listener \in {"reading", "left", "gone"}
  /\ listener' = IF listener = "reading" THEN "busy" ELSE listener
  /\ Returned
  /\ UNCHANGED <<status, happened, queue, subscribers, waiter, canceller, waits>>

PublishEnds ==
  /\ publishing # <<>> /\ publishing[2] = <<>>
  /\ publishing' = <<>>
  /\ UNCHANGED <<status, happened, queue, subscribers, waiter, listener, canceller, waits>>

-----------------------------------------------------------------------------
\* ClientRetrieveWait.

\* The caller has the id from ClientRetrieve, or gives one of no deal.  Another
\* wait is another caller's.
RetrieveWait(w) ==
  /\ waiter[w].pc = "idle" /\ waits < MaxWaits
  /\ waits' = waits + 1
  /\ \E d \in {0} \cup {r \in RetrievalIds : status[r] # "none"} :
       waiter' = [waiter EXCEPT ![w] = [NoWaiter EXCEPT !.pc = "open", !.deal = d]]
  /\ UNCHANGED <<status, happened, queue, subscribers, publishing, listener, canceller>>

\* Mutant: the state is read before the subscription.
MutantOpening == <<"get", "subscribe">>

\* What a wait does first, in order.
Opening == <<"subscribe", "get">>

Opened(w) == IF waiter[w].step = 2 THEN [waiter[w] EXCEPT !.pc = "loop", !.step = 1]
             ELSE [waiter[w] EXCEPT !.step = 2]

Subscribe(w) ==
  /\ waiter[w].pc = "open" /\ Opening[waiter[w].step] = "subscribe"
  /\ subscribers' = Append(subscribers, w)
  /\ waiter' = [waiter EXCEPT ![w] = Opened(w)]
  /\ UNCHANGED <<status, happened, queue, publishing, listener, canceller, waits>>

\* GetDeal: an unknown deal ends the wait; a state is queued unless the
\* subscription already queued one.
GetDealState(w) ==
  /\ waiter[w].pc = "open" /\ Opening[waiter[w].step] = "get"
  /\ waiter' = [waiter EXCEPT ![w] =
       IF waiter[w].deal = 0 THEN [@ EXCEPT !.pc = "leave"]
       ELSE [Opened(w) EXCEPT !.buf = IF @ = <<>> THEN <<status[waiter[w].deal]>> ELSE @]]
  /\ UNCHANGED <<status, happened, queue, subscribers, publishing, listener, canceller, waits>>

ReceiveState(w) ==
  /\ waiter[w].pc = "loop" /\ waiter[w].buf # <<>>
  /\ waiter' = [waiter EXCEPT ![w].buf = <<>>,
                              ![w].pc = IF Head(waiter[w].buf) \in Finals THEN "leave" ELSE "loop"]
  /\ UNCHANGED <<status, happened, queue, subscribers, publishing, listener, canceller, waits>>

\* The context of the caller ends; the loop sees it.
ContextDone(w) ==
  /\ waiter[w].pc \in {"open", "loop"} /\ ~waiter[w].done
  /\ waiter' = [waiter EXCEPT ![w].done = TRUE]
  /\ UNCHANGED <<status, happened, queue, subscribers, publishing, listener, canceller, waits>>

WaitTimesOut(w) ==
  /\ waiter[w].pc = "loop" /\ waiter[w].done
  /\ waiter' = [waiter EXCEPT ![w].pc = "leave"]
  /\ UNCHANGED <<status, happened, queue, subscribers, publishing, listener, canceller, waits>>

\* The deferred calls: unsubscribe, then cancel.
Unsubscribe(w) ==
  /\ waiter[w].pc = "leave" /\ (UnsubscribeWaits => publishing = <<>>)
  /\ subscribers' = Remove(subscribers, w)
  /\ waiter' = [waiter EXCEPT ![w].pc = "cancel"]
  /\ UNCHANGED <<status, happened, queue, publishing, listener, canceller, waits>>

CancelContext(w) ==
  /\ waiter[w].pc = "cancel"
  /\ waiter' = [waiter EXCEPT ![w].pc = "returned", ![w].done = TRUE]
  /\ UNCHANGED <<status, happened, queue, subscribers, publishing, listener, canceller, waits>>

-----------------------------------------------------------------------------
\* ClientGetRetrievalUpdates: one consumer, which reads until it goes away.

GetUpdates ==
  /\ listener = "off" /\ waits < MaxWaits
  /\ waits' = waits + 1
  /\ listener' = "reading" /\ subscribers' = Append(subscribers, Listener)
  /\ UNCHANGED <<status, happened, queue, publishing, waiter, canceller>>

NextUpdate ==
  /\ listener = "busy" /\ listener' = "reading"
  /\ UNCHANGED <<status, happened, queue, subscribers, publishing, waiter, canceller, waits>>

LeaveUpdates ==
  /\ listener \in {"reading", "busy"} /\ listener' = "left"
  /\ UNCHANGED <<status, happened, queue, subscribers, publishing, waiter, canceller, waits>>

StopUpdates ==
  /\ listener = "left" /\ (UnsubscribeWaits => publishing = <<>>)
  /\ listener' = "gone" /\ subscribers' = Remove(subscribers, Listener)
  /\ UNCHANGED <<status, happened, queue, publishing, waiter, canceller, waits>>

-----------------------------------------------------------------------------
\* What the code does by itself; the consumer of the updates keeps reading.
RetrieveProgress ==
  \/ CancelDeal \/ CancelAnswered
  \/ Publish \/ UpdateCallback \/ PublishEnds \/ NextUpdate \/ StopUpdates
  \/ \E w \in Waiting : \/ WaitCallback(w) \/ Subscribe(w) \/ GetDealState(w) \/ ReceiveState(w)
                        \/ WaitTimesOut(w) \/ Unsubscribe(w) \/ CancelContext(w)

RetrieveNext ==
  \/ RetrieveProgress
  \/ \E d \in RetrievalIds : ClientRetrieve(d) \/ DealEvent(d)
  \/ CancelRetrieval \/ CancelTimesOut \/ GetUpdates \/ LeaveUpdates
  \/ \E w \in Waiting : RetrieveWait(w) \/ ContextDone(w)

-----------------------------------------------------------------------------
\* ClientRetrieveWait returns once its deal has ended or its context has, even
\* if the deal ended while the wait was being set up; and a wait that returns,
\* or a consumer that leaves, never leaves the publisher blocked in its
\* callback.
RetrieveWaitsEnd ==
  []<>(/\ publishing = <<>> /\ queue = <<>> /\ canceller.worker = "idle"
       /\ \A w \in Waiting : waiter[w].pc \notin {"idle", "returned"} =>
            waiter[w].pc = "loop" /\ status[waiter[w].deal] \notin Finals /\ ~waiter[w].done)
=============================================================================
