------------------------ MODULE DealPublisherProofs ------------------------
(***************************************************************************)
(* The deal publisher puts every deal into one message at most, keeps each *)
(* message within its limit, tells handlers what the messages say and runs *)
(* one timer at a time, for any set of deals and any limit.                *)
(***************************************************************************)
EXTENDS DealPublisher, FiniteSetTheorems, TLAPS

USE DEF TimerStates, Batch

-----------------------------------------------------------------------------
(* Types.                                                                    *)

\* Types hold initially and are kept by every step.
LEMMA TypeStep == (Init => TypeOK) /\ (TypeOK /\ [Next]_vars => TypeOK')
<1>1. ASSUME Init PROVE TypeOK
  <2>1. msgs \in Seq(SUBSET Deals)
    BY <1>1 DEF Init
  <2>2. /\ told \in [Deals -> {"new", "waiting", "published", "failed", "cancelled"}]
        /\ timers \in [Deals -> TimerStates]
        /\ result \in [Deals -> {"none", "published", "failed", "dropped"}]
    BY <1>1 DEF Init
  <2>3. /\ ctxDone \subseteq Deals /\ expired \subseteq Deals /\ pending \subseteq Deals
        /\ batches \subseteq Batch
    BY <1>1, Zenon DEF Init
  <2>4. /\ cancelWait \in Deals \cup {NoTimer} /\ periodStart \in BOOLEAN
        /\ forces \in Nat /\ stopped \in BOOLEAN
    BY <1>1 DEF Init
  <2> QED
    BY <2>1, <2>2, <2>3, <2>4 DEF TypeOK
<1>2. ASSUME TypeOK, [Next]_vars PROVE TypeOK'
  <2> USE <1>2, PublisherAssumption DEF TypeOK
  <2>1. ASSUME NEW t PROVE Cancelled(t) \in [Deals -> TimerStates]
    BY DEF Cancelled
  <2>2. ASSUME NEW S \in SUBSET Deals, NEW wait, NEW tmrs \in [Deals -> TimerStates],
               PublishAllDeals(S, wait, tmrs)
        PROVE  /\ timers' \in [Deals -> TimerStates]
               /\ cancelWait' \in Deals \cup {NoTimer}
               /\ periodStart' \in BOOLEAN
               /\ pending' \in SUBSET Deals
               /\ batches' \subseteq Batch
    <3>1. Ready(S \ ctxDone) \subseteq Batch
      BY DEF Ready
    <3> QED
      BY <2>2, <3>1 DEF PublishAllDeals
  <2>3. ASSUME NEW d \in Deals, Publish(d) PROVE TypeOK'
    <3> DEFINE left == pending \ ctxDone
               drop == left = {} /\ cancelWait # NoTimer
               wait == IF drop THEN NoTimer ELSE cancelWait
               tmrs == IF drop THEN Cancelled(cancelWait) ELSE timers
               queue == left \cup {d}
               all == IF drop THEN tmrs ELSE Cancelled(cancelWait)
    <3>1. /\ left \in SUBSET Deals /\ queue \in SUBSET Deals
          /\ wait \in Deals \cup {NoTimer}
          /\ tmrs \in [Deals -> TimerStates] /\ all \in [Deals -> TimerStates]
      BY <2>1
    <3>2. told' \in [Deals -> {"new", "waiting", "published", "failed", "cancelled"}]
      BY <2>3 DEF Publish
    <3>3. UNCHANGED <<ctxDone, expired, result, msgs, forces, stopped>>
      BY <2>3 DEF Publish
    <3> HIDE DEF left, drop, wait, tmrs, queue, all
    <3>4. CASE /\ pending' = left /\ cancelWait' = wait /\ timers' = tmrs
               /\ UNCHANGED <<periodStart, batches>>
      BY <3>1, <3>2, <3>3, <3>4
    <3>5. CASE PublishAllDeals(queue, wait, all)
      BY <3>1, <3>2, <3>3, <3>5, <2>2
    <3>6. CASE pending' = queue /\ WaitForMoreDeals(d, wait, tmrs) /\ UNCHANGED batches
      BY <3>1, <3>2, <3>3, <3>6 DEF WaitForMoreDeals
    <3> QED
      BY <2>3, <3>4, <3>5, <3>6 DEF Publish, left, drop, wait, tmrs, queue, all
  <2>4. CASE ForcePublishPendingDeals
    <3>1. /\ PublishAllDeals(pending, cancelWait, Cancelled(cancelWait))
          /\ forces' \in Nat
          /\ UNCHANGED <<told, ctxDone, expired, result, msgs, stopped>>
      BY <2>4 DEF ForcePublishPendingDeals
    <3> QED
      BY <3>1, <2>1, <2>2
  <2>5. ASSUME NEW t \in Deals, TimerFires(t) PROVE TypeOK'
    BY <2>5 DEF TimerFires
  <2>6. ASSUME NEW t \in Deals, TimerPublishes(t) PROVE TypeOK'
    BY <2>1, <2>2, <2>6 DEF TimerPublishes
  <2>7. ASSUME NEW b \in batches, NEW d \in Deals, ValidateDeal(b, d) PROVE TypeOK'
    BY <2>7 DEF ValidateDeal
  <2>8. ASSUME NEW b \in batches, PublishDealProposals(b) PROVE TypeOK'
    BY <2>8 DEF PublishDealProposals, Completed
  <2>9. ASSUME NEW d \in Deals, OnComplete(d) PROVE TypeOK'
    BY <2>9 DEF OnComplete
  <2>10. ASSUME NEW d \in Deals, DropResult(d) PROVE TypeOK'
    BY <2>10 DEF DropResult
  <2>11. ASSUME NEW d \in MayCancel, CancelDeal(d) PROVE TypeOK'
    BY <2>11 DEF CancelDeal
  <2>12. ASSUME NEW d \in MayExpire, Expire(d) PROVE TypeOK'
    BY <2>12 DEF Expire
  <2>13. CASE Shutdown
    BY <2>13 DEF Shutdown
  <2>14. CASE UNCHANGED vars
    BY <2>14 DEF vars
  <2> QED
    BY <2>3, <2>4, <2>5, <2>6, <2>7, <2>8, <2>9, <2>10, <2>11, <2>12, <2>13, <2>14
    DEF Next, Step
<1> QED
  BY <1>1, <1>2

-----------------------------------------------------------------------------
(* Timers.                                                                   *)

\* A timer that can be cancelled belongs to a period that has been started.
TimerInv == OneTimerArmed /\ (cancelWait # NoTimer => periodStart)

\* The timer invariant is kept by every step.
LEMMA TimerStep == TypeOK /\ TimerInv /\ [Next]_vars => TimerInv'
<1> SUFFICES ASSUME TypeOK, TimerInv, [Next]_vars PROVE TimerInv'
  OBVIOUS
<1> USE PublisherAssumption DEF TypeOK, TimerInv, OneTimerArmed
<1>1. \A t \in Deals : Cancelled(cancelWait)[t] # "armed"
  BY DEF Cancelled
<1>2. ASSUME NEW d \in Deals, Publish(d) PROVE TimerInv'
  <2> DEFINE left == pending \ ctxDone
             drop == left = {} /\ cancelWait # NoTimer
             wait == IF drop THEN NoTimer ELSE cancelWait
             tmrs == IF drop THEN Cancelled(cancelWait) ELSE timers
             queue == left \cup {d}
             all == IF drop THEN tmrs ELSE Cancelled(cancelWait)
  <2>1. /\ wait # NoTimer => wait = cancelWait
        /\ ~periodStart => tmrs = timers /\ wait = NoTimer
        /\ \A t \in Deals : tmrs[t] = "armed" => wait = t
        /\ \A t \in Deals : all[t] # "armed"
        /\ tmrs \in [Deals -> TimerStates]
    BY <1>1 DEF Cancelled
  <2> HIDE DEF left, drop, wait, tmrs, queue, all
  <2>2. CASE cancelWait' = wait /\ timers' = tmrs /\ UNCHANGED periodStart
    BY <2>1, <2>2
  <2>3. CASE PublishAllDeals(queue, wait, all)
    BY <2>1, <2>3 DEF PublishAllDeals
  <2>4. CASE WaitForMoreDeals(d, wait, tmrs)
    BY <2>1, <2>4 DEF WaitForMoreDeals
  <2> QED
    BY <1>2, <2>2, <2>3, <2>4 DEF Publish, left, drop, wait, tmrs, queue, all
<1>3. CASE ForcePublishPendingDeals
  BY <1>1, <1>3 DEF ForcePublishPendingDeals, PublishAllDeals
<1>4. ASSUME NEW t \in Deals, TimerFires(t) PROVE TimerInv'
  BY <1>4 DEF TimerFires
<1>5. ASSUME NEW t \in Deals, TimerPublishes(t) PROVE TimerInv'
  <2>1. Cancelled(cancelWait) \in [Deals -> TimerStates]
    BY DEF Cancelled
  <2> QED
    BY <1>1, <1>5, <2>1 DEF TimerPublishes, PublishAllDeals
<1>6. ASSUME NEW b \in batches, NEW d \in Deals, ValidateDeal(b, d) PROVE TimerInv'
  BY <1>6 DEF ValidateDeal
<1>7. ASSUME NEW b \in batches, PublishDealProposals(b) PROVE TimerInv'
  BY <1>7 DEF PublishDealProposals
<1>8. ASSUME NEW d \in Deals, OnComplete(d) \/ DropResult(d) PROVE TimerInv'
  BY <1>8 DEF OnComplete, DropResult
<1>9. ASSUME NEW d \in Deals, CancelDeal(d) \/ Expire(d) PROVE TimerInv'
  BY <1>9 DEF CancelDeal, Expire
<1>10. CASE Shutdown
  BY <1>10 DEF Shutdown
<1>11. CASE UNCHANGED vars
  BY <1>11 DEF vars
<1> QED
  BY <1>2, <1>3, <1>4, <1>5, <1>6, <1>7, <1>8, <1>9, <1>10, <1>11 DEF Next, Step

-----------------------------------------------------------------------------
(* Where a deal is: not published yet, in the queue, in a batch or in a       *)
(* message, and in one of these places only.                                 *)

InBatch(b) == b.todo \cup b.valid

NewDealsNowhere ==
  \A d \in Deals : told[d] = "new" =>
    /\ d \notin pending
    /\ \A b \in batches : d \notin InBatch(b)
    /\ \A i \in DOMAIN msgs : d \notin msgs[i]
    /\ result[d] = "none"

PlacesDisjoint ==
  /\ \A b \in batches : InBatch(b) \cap pending = {}
  /\ \A i \in DOMAIN msgs : msgs[i] \cap pending = {}
  /\ \A b \in batches : \A i \in DOMAIN msgs : InBatch(b) \cap msgs[i] = {}
  /\ \A b, c \in batches : b # c => InBatch(b) \cap InBatch(c) = {}

PlaceInv == NewDealsNowhere /\ PlacesDisjoint /\ PublishedOnce

\* What the queue, batches and messages hold after a deal is added to the queue
\* and the queue is published or left to wait.
LEMMA QueuePlaces ==
  ASSUME TypeOK, PlaceInv, NEW S \in SUBSET Deals,
         \A b \in batches : InBatch(b) \cap S = {},
         \A i \in DOMAIN msgs : msgs[i] \cap S = {},
         UNCHANGED msgs,
         \/ pending' = S /\ UNCHANGED batches
         \/ pending' = {} /\ batches' = batches \cup Ready(S \ ctxDone)
  PROVE  /\ PlacesDisjoint' /\ PublishedOnce'
         /\ \A b \in batches' : InBatch(b) \subseteq S \/ b \in batches
         /\ pending' \subseteq S
  <1>1. \A b \in Ready(S \ ctxDone) : InBatch(b) = S \ ctxDone
    BY DEF Ready, InBatch
  <1>2. \A b, c \in Ready(S \ ctxDone) : b = c
    BY DEF Ready
  <1> HIDE DEF Batch
  <1>3. PublishedOnce'
    BY DEF PlaceInv, PublishedOnce
  <1>4. CASE pending' = S /\ UNCHANGED batches
    BY <1>3, <1>4 DEF PlaceInv, PlacesDisjoint
  <1>5. CASE pending' = {} /\ batches' = batches \cup Ready(S \ ctxDone)
    <2>1. \A b \in batches' : b \in batches \/ (b \in Ready(S \ ctxDone) /\ InBatch(b) = S \ ctxDone)
      BY <1>1, <1>5
    <2>2. \A b, c \in batches' : b # c => InBatch(b) \cap InBatch(c) = {}
      <3> SUFFICES ASSUME NEW b \in batches', NEW c \in batches', b # c
                   PROVE  InBatch(b) \cap InBatch(c) = {}
        OBVIOUS
      <3>1. CASE b \in batches /\ c \in batches
        BY <3>1 DEF PlaceInv, PlacesDisjoint
      <3>2. CASE b \in batches /\ InBatch(c) = S \ ctxDone
        BY <3>2
      <3>3. CASE c \in batches /\ InBatch(b) = S \ ctxDone
        BY <3>3
      <3> QED
        BY <1>2, <2>1, <3>1, <3>2, <3>3
    <2>3. \A b \in batches' : \A i \in DOMAIN msgs' : InBatch(b) \cap msgs'[i] = {}
      <3> SUFFICES ASSUME NEW b \in batches', NEW i \in DOMAIN msgs
                   PROVE  InBatch(b) \cap msgs[i] = {}
        OBVIOUS
      <3>1. CASE b \in batches
        BY <3>1 DEF PlaceInv, PlacesDisjoint
      <3>2. CASE InBatch(b) = S \ ctxDone
        BY <3>2
      <3> QED
        BY <2>1, <3>1, <3>2
    <2>4. PlacesDisjoint'
      BY <1>5, <2>2, <2>3 DEF PlacesDisjoint
    <2>5. \A b \in batches' : InBatch(b) \subseteq S \/ b \in batches
      BY <2>1
    <2> QED
      BY <1>3, <1>5, <2>4, <2>5
  <1> QED
    BY <1>4, <1>5

\* The places stay disjoint in every step.
LEMMA PlaceStep == TypeOK /\ PlaceInv /\ [Next]_vars => PlaceInv'
<1> SUFFICES ASSUME TypeOK, PlaceInv, [Next]_vars PROVE PlaceInv'
  OBVIOUS
<1> USE PublisherAssumption
<1>1. ASSUME NEW d \in Deals, Publish(d) PROVE PlaceInv'
  <2> DEFINE left == pending \ ctxDone
             queue == left \cup {d}
  <2>1. /\ told[d] = "new"
        /\ \A e \in Deals : told'[e] = "new" => told[e] = "new" /\ e # d
        /\ UNCHANGED <<msgs, result>>
    BY <1>1 DEF Publish, TypeOK
  <2>2. /\ left \in SUBSET Deals /\ queue \in SUBSET Deals
        /\ \A b \in batches : InBatch(b) \cap left = {} /\ InBatch(b) \cap queue = {}
        /\ \A i \in DOMAIN msgs : msgs[i] \cap left = {} /\ msgs[i] \cap queue = {}
    BY <2>1 DEF PlaceInv, PlacesDisjoint, NewDealsNowhere, TypeOK
  <2>3. \E S \in SUBSET Deals :
          /\ S \in {left, queue}
          /\ \/ pending' = S /\ UNCHANGED batches
             \/ pending' = {} /\ batches' = batches \cup Ready(S \ ctxDone)
    BY <1>1, <2>2 DEF Publish, PublishAllDeals, WaitForMoreDeals
  <2>4. PICK S \in SUBSET Deals :
          /\ S \in {left, queue}
          /\ \/ pending' = S /\ UNCHANGED batches
             \/ pending' = {} /\ batches' = batches \cup Ready(S \ ctxDone)
    BY <2>3
  <2>5. /\ PlacesDisjoint' /\ PublishedOnce'
        /\ \A b \in batches' : InBatch(b) \subseteq S \/ b \in batches
        /\ pending' \subseteq S
    BY <2>1, <2>2, <2>4, QueuePlaces
  <2>6. NewDealsNowhere'
    BY <2>1, <2>4, <2>5 DEF PlaceInv, NewDealsNowhere
  <2> QED
    BY <2>5, <2>6 DEF PlaceInv
<1>2. ASSUME pending' = {}, batches' = batches \cup Ready(pending \ ctxDone),
             UNCHANGED <<told, result, msgs>>
      PROVE  PlaceInv'
  <2>1. /\ PlacesDisjoint' /\ PublishedOnce'
        /\ \A b \in batches' : InBatch(b) \subseteq pending \/ b \in batches
    <3>1. /\ pending \in SUBSET Deals
          /\ \A b \in batches : InBatch(b) \cap pending = {}
          /\ \A i \in DOMAIN msgs : msgs[i] \cap pending = {}
      BY DEF PlaceInv, PlacesDisjoint, TypeOK
    <3> QED
      BY <1>2, <3>1, QueuePlaces
  <2>2. NewDealsNowhere'
    BY <1>2, <2>1 DEF PlaceInv, NewDealsNowhere
  <2> QED
    BY <2>1, <2>2 DEF PlaceInv
<1>3. ForcePublishPendingDeals => PlaceInv'
  BY <1>2 DEF ForcePublishPendingDeals, PublishAllDeals
<1>4. ASSUME NEW t \in Deals PROVE TimerPublishes(t) => PlaceInv'
  BY <1>2 DEF TimerPublishes, PublishAllDeals
<1>5. ASSUME NEW b \in batches, NEW d \in Deals, ValidateDeal(b, d) PROVE PlaceInv'
  <2>1. PICK c : /\ InBatch(c) \subseteq InBatch(b)
                 /\ batches' = (batches \ {b}) \cup {c}
                 /\ d \in InBatch(b)
    <3> DEFINE moved == [todo |-> b.todo \ {d}, valid |-> b.valid \cup {d}]
               cut == [b EXCEPT !.todo = @ \ {d}]
    <3>1. d \in b.todo /\ b \in Batch
      BY <1>5 DEF ValidateDeal, TypeOK
    <3>2. InBatch(moved) \subseteq InBatch(b) /\ InBatch(cut) \subseteq InBatch(b)
      BY <3>1 DEF InBatch
    <3>3. d \in InBatch(b)
      BY <3>1 DEF InBatch
    <3>4. \/ batches' = (batches \ {b}) \cup {moved}
          \/ batches' = (batches \ {b}) \cup {cut}
      BY <1>5 DEF ValidateDeal
    <3> QED
      BY <3>2, <3>3, <3>4
  <2>2. /\ \A e \in Deals : e # d => result'[e] = result[e]
        /\ UNCHANGED <<told, pending, msgs>>
    BY <1>5 DEF ValidateDeal, TypeOK
  <2>3. \A x \in batches' : x \in batches \/ InBatch(x) \subseteq InBatch(b)
    BY <2>1
  <2>4. PlacesDisjoint'
    <3> HIDE DEF Batch
    <3> QED
      BY <2>1, <2>2 DEF PlaceInv, PlacesDisjoint
  <2>5. NewDealsNowhere'
    BY <2>1, <2>2, <2>3 DEF PlaceInv, NewDealsNowhere
  <2> QED
    BY <2>2, <2>4, <2>5 DEF PlaceInv, PublishedOnce
<1>6. ASSUME NEW b \in batches, PublishDealProposals(b) PROVE PlaceInv'
  <2>1. /\ batches' = batches \ {b} /\ b.todo = {}
        /\ UNCHANGED <<told, pending>>
        /\ \A e \in Deals : e \notin b.valid => result'[e] = result[e]
    BY <1>6 DEF PublishDealProposals, Completed, TypeOK
  <2>2. CASE UNCHANGED msgs
    <3>1. NewDealsNowhere'
      BY <2>1, <2>2 DEF PlaceInv, NewDealsNowhere, InBatch
    <3> QED
      BY <2>1, <2>2, <3>1 DEF PlaceInv, PlacesDisjoint, PublishedOnce
  <2>3. CASE msgs' = Append(msgs, b.valid)
    <3>1. /\ DOMAIN msgs' = 1 .. Len(msgs) + 1
          /\ DOMAIN msgs = 1 .. Len(msgs)
          /\ \A i \in DOMAIN msgs : msgs'[i] = msgs[i]
          /\ msgs'[Len(msgs) + 1] = InBatch(b)
          /\ Len(msgs) \in Nat
      BY <2>1, <2>3 DEF TypeOK, InBatch
    <3>2. \A i \in DOMAIN msgs' : i \in DOMAIN msgs \/ i = Len(msgs) + 1
      BY <3>1
    <3>3. NewDealsNowhere'
      BY <2>1, <3>1, <3>2 DEF PlaceInv, NewDealsNowhere, InBatch
    <3>4. PlacesDisjoint'
      <4>1. \A c \in batches' : c \in batches /\ c # b
        BY <2>1
      <4> QED
        BY <2>1, <3>1, <3>2, <4>1 DEF PlaceInv, PlacesDisjoint
    <3>5. PublishedOnce'
      <4>1. \A i \in DOMAIN msgs : InBatch(b) \cap msgs[i] = {}
        BY DEF PlaceInv, PlacesDisjoint
      <4> QED
        BY <3>1, <3>2, <4>1 DEF PlaceInv, PublishedOnce
    <3> QED
      BY <3>3, <3>4, <3>5 DEF PlaceInv
  <2> QED
    BY <1>6, <2>2, <2>3 DEF PublishDealProposals
<1>7. ASSUME UNCHANGED <<pending, batches, msgs>>,
             \A e \in Deals : told'[e] = "new" => told[e] = "new" /\ result'[e] = result[e]
      PROVE  PlaceInv'
  BY <1>7 DEF PlaceInv, NewDealsNowhere, PlacesDisjoint, PublishedOnce
<1>8. ASSUME NEW d \in Deals,
             TimerFires(d) \/ OnComplete(d) \/ DropResult(d) \/ CancelDeal(d) \/ Expire(d)
      PROVE  PlaceInv'
  BY <1>7, <1>8
  DEF TimerFires, OnComplete, DropResult, CancelDeal, Expire, TypeOK
<1>9. Shutdown \/ UNCHANGED vars => PlaceInv'
  BY <1>7 DEF Shutdown, vars
<1> QED
  BY <1>1, <1>3, <1>4, <1>5, <1>6, <1>8, <1>9 DEF Next, Step

-----------------------------------------------------------------------------
(* Sizes.                                                                    *)

SizeInv ==
  /\ Cardinality(pending) < MaxDealsPerMsg
  /\ \A b \in batches : Cardinality(InBatch(b)) <= MaxDealsPerMsg
  /\ MessageWithinLimit

\* A set of deals is finite, and no larger than a set that contains it.
LEMMA DealSets ==
  ASSUME NEW T \in SUBSET Deals, NEW S \in SUBSET T
  PROVE  /\ IsFiniteSet(S) /\ IsFiniteSet(T)
         /\ Cardinality(S) \in Nat /\ Cardinality(T) \in Nat
         /\ Cardinality(S) <= Cardinality(T)
<1>1. IsFiniteSet(T)
  BY PublisherAssumption, FS_Subset
<1> QED
  BY <1>1, FS_Subset, FS_CardinalityType

\* A queue of at most the maximum goes into one batch within the limit.
LEMMA QueueSize ==
  ASSUME TypeOK, SizeInv, NEW S \in SUBSET Deals,
         Cardinality(S) <= MaxDealsPerMsg,
         pending' = {}, batches' = batches \cup Ready(S \ ctxDone), UNCHANGED msgs
  PROVE  SizeInv'
<1>1. \A b \in Ready(S \ ctxDone) : InBatch(b) = S \ ctxDone
  BY DEF Ready, InBatch
<1>2. /\ Cardinality(S \ ctxDone) <= Cardinality(S)
      /\ Cardinality(S \ ctxDone) \in Nat /\ Cardinality(S) \in Nat
  BY DealSets
<1>3. Cardinality({}) = 0
  BY FS_EmptySet
<1>4. \A b \in batches' : Cardinality(InBatch(b)) <= MaxDealsPerMsg
  <2> SUFFICES ASSUME NEW b \in batches' PROVE Cardinality(InBatch(b)) <= MaxDealsPerMsg
    OBVIOUS
  <2>1. CASE b \in batches
    BY <2>1 DEF SizeInv
  <2>2. CASE b \in Ready(S \ ctxDone)
    <3>1. Cardinality(InBatch(b)) = Cardinality(S \ ctxDone)
      BY <1>1, <2>2
    <3> QED
      BY <1>2, <3>1, PublisherAssumption
  <2> QED
    BY <2>1, <2>2
<1>5. Cardinality(pending') < MaxDealsPerMsg
  BY <1>3, PublisherAssumption
<1> QED
  BY <1>4, <1>5 DEF SizeInv, MessageWithinLimit

\* The queue stays below the maximum, batches and messages within it.
LEMMA SizeStep == TypeOK /\ SizeInv /\ [Next]_vars => SizeInv'
<1> SUFFICES ASSUME TypeOK, SizeInv, [Next]_vars PROVE SizeInv'
  OBVIOUS
<1> USE PublisherAssumption
<1>1. ASSUME UNCHANGED <<pending, batches, msgs>> PROVE SizeInv'
  BY <1>1 DEF SizeInv, MessageWithinLimit
<1>2. ASSUME NEW d \in Deals, Publish(d) PROVE SizeInv'
  <2> DEFINE left == pending \ ctxDone
             queue == left \cup {d}
  <2>1. left \in SUBSET Deals /\ queue \in SUBSET Deals /\ UNCHANGED msgs
    BY <1>2 DEF Publish, TypeOK
  <2>2. /\ Cardinality(left) < MaxDealsPerMsg
        /\ Cardinality(left) \in Nat /\ Cardinality(queue) \in Nat
    <3>1. left \in SUBSET pending /\ pending \in SUBSET Deals
      BY DEF TypeOK
    <3> HIDE DEF left
    <3>2. Cardinality(left) <= Cardinality(pending) /\ Cardinality(left) \in Nat
          /\ Cardinality(pending) \in Nat
      BY <3>1, DealSets
    <3>3. Cardinality(queue) \in Nat
      BY <2>1, DealSets
    <3> QED
      BY <3>2, <3>3 DEF SizeInv
  <2>3. Cardinality(queue) <= MaxDealsPerMsg
    <3>1. IsFiniteSet(left)
      BY <2>1, DealSets
    <3>2. Cardinality(queue) <= Cardinality(left) + 1
      <4> HIDE DEF left
      <4>1. Cardinality(queue) = IF d \in left THEN Cardinality(left) ELSE Cardinality(left) + 1
        BY <3>1, FS_AddElement
      <4> QED
        BY <2>2, <4>1
    <3> QED
      BY <2>2, <3>2
  <2> HIDE DEF left, queue
  <2>4. CASE pending' = left /\ UNCHANGED batches
    BY <2>1, <2>2, <2>4 DEF SizeInv, MessageWithinLimit
  <2>5. CASE pending' = {} /\ batches' = batches \cup Ready(queue \ ctxDone)
    BY <2>1, <2>3, <2>5, QueueSize
  <2>6. CASE ~PublishNow(queue) /\ pending' = queue /\ UNCHANGED batches
    BY <2>1, <2>2, <2>6 DEF PublishNow, SizeInv, MessageWithinLimit
  <2> QED
    BY <1>2, <2>4, <2>5, <2>6 DEF Publish, PublishAllDeals, left, queue
<1>3. ASSUME pending' = {}, batches' = batches \cup Ready(pending \ ctxDone), UNCHANGED msgs
      PROVE  SizeInv'
  <2>1. pending \in SUBSET Deals /\ Cardinality(pending) \in Nat
    BY DealSets DEF TypeOK
  <2> QED
    BY <1>3, <2>1, QueueSize DEF SizeInv
<1>4. ForcePublishPendingDeals => SizeInv'
  BY <1>3 DEF ForcePublishPendingDeals, PublishAllDeals
<1>5. ASSUME NEW t \in Deals PROVE TimerPublishes(t) => SizeInv'
  BY <1>3 DEF TimerPublishes, PublishAllDeals
<1>6. ASSUME NEW b \in batches, NEW d \in Deals, ValidateDeal(b, d) PROVE SizeInv'
  <2>1. PICK c : /\ InBatch(c) \in SUBSET InBatch(b)
                 /\ batches' = (batches \ {b}) \cup {c}
    <3> DEFINE moved == [todo |-> b.todo \ {d}, valid |-> b.valid \cup {d}]
               cut == [b EXCEPT !.todo = @ \ {d}]
    <3>1. d \in b.todo /\ b \in Batch
      BY <1>6 DEF ValidateDeal, TypeOK
    <3>2. InBatch(moved) \subseteq InBatch(b) /\ InBatch(cut) \subseteq InBatch(b)
      BY <3>1 DEF InBatch
    <3>3. \/ batches' = (batches \ {b}) \cup {moved}
          \/ batches' = (batches \ {b}) \cup {cut}
      BY <1>6 DEF ValidateDeal
    <3> QED
      BY <3>2, <3>3
  <2>2. InBatch(b) \in SUBSET Deals
    BY DEF InBatch, TypeOK
  <2>3. /\ Cardinality(InBatch(c)) <= Cardinality(InBatch(b))
        /\ Cardinality(InBatch(c)) \in Nat /\ Cardinality(InBatch(b)) \in Nat
    BY <2>1, <2>2, DealSets
  <2>4. UNCHANGED <<pending, msgs>>
    BY <1>6 DEF ValidateDeal
  <2> QED
    BY <2>1, <2>3, <2>4 DEF SizeInv, MessageWithinLimit
<1>7. ASSUME NEW b \in batches, PublishDealProposals(b) PROVE SizeInv'
  <2>1. batches' = batches \ {b} /\ UNCHANGED pending /\ InBatch(b) = b.valid
    BY <1>7 DEF PublishDealProposals, InBatch
  <2>2. CASE UNCHANGED msgs
    BY <2>1, <2>2 DEF SizeInv, MessageWithinLimit
  <2>3. CASE msgs' = Append(msgs, b.valid)
    <3>1. \A i \in DOMAIN msgs' : (i \in DOMAIN msgs /\ msgs'[i] = msgs[i]) \/ msgs'[i] = b.valid
      BY <2>3 DEF TypeOK
    <3> QED
      BY <2>1, <3>1 DEF SizeInv, MessageWithinLimit
  <2> QED
    BY <1>7, <2>2, <2>3 DEF PublishDealProposals
<1>8. ASSUME NEW d \in Deals,
             TimerFires(d) \/ OnComplete(d) \/ DropResult(d) \/ CancelDeal(d) \/ Expire(d)
      PROVE  SizeInv'
  BY <1>1, <1>8 DEF TimerFires, OnComplete, DropResult, CancelDeal, Expire
<1>9. Shutdown \/ UNCHANGED vars => SizeInv'
  BY <1>1 DEF Shutdown, vars
<1> QED
  BY <1>2, <1>4, <1>5, <1>6, <1>7, <1>8, <1>9 DEF Next, Step

-----------------------------------------------------------------------------
(* Results.                                                                  *)

\* A deal has a result once it has left the queue and its batch; the result
\* says whether a message holds the deal, and handlers are told that result.
ResultInv ==
  \A d \in Deals :
    /\ d \in pending => result[d] = "none"
    /\ \A b \in batches : d \in InBatch(b) => result[d] = "none"
    /\ result[d] = "published" => \E i \in DOMAIN msgs : d \in msgs[i]
    /\ result[d] = "failed" => \A i \in DOMAIN msgs : d \notin msgs[i]
    /\ told[d] = "published" => result[d] = "published"
    /\ told[d] = "failed" => result[d] = "failed"

\* Results stay true to the messages in every step.
LEMMA ResultStep == TypeOK /\ PlaceInv /\ ResultInv /\ [Next]_vars => ResultInv'
<1> SUFFICES ASSUME TypeOK, PlaceInv, ResultInv, [Next]_vars PROVE ResultInv'
  OBVIOUS
<1> USE PublisherAssumption
<1>1. ASSUME UNCHANGED <<result, msgs>>,
             \A d \in Deals : told'[d] \in {"published", "failed"} => told'[d] = told[d],
             \A d \in pending' : d \in pending \/ (d \in Deals /\ told[d] = "new"),
             \A b \in batches' : b \in batches \/
               \A d \in InBatch(b) : d \in pending \/ (d \in Deals /\ told[d] = "new")
      PROVE  ResultInv'
  <2>1. \A d \in Deals : told[d] = "new" => result[d] = "none"
    BY DEF PlaceInv, NewDealsNowhere
  <2> QED
    BY <1>1, <2>1 DEF ResultInv
<1>2. ASSUME NEW S \in SUBSET Deals, \A d \in S : d \in pending \/ told[d] = "new",
             batches' = batches \cup Ready(S \ ctxDone)
      PROVE  \A b \in batches' : b \in batches \/
               \A d \in InBatch(b) : d \in pending \/ (d \in Deals /\ told[d] = "new")
  BY <1>2 DEF Ready, InBatch
<1>3. ASSUME NEW d \in Deals, Publish(d) PROVE ResultInv'
  <2> DEFINE left == pending \ ctxDone
             queue == left \cup {d}
  <2>1. /\ queue \in SUBSET Deals /\ left \in SUBSET queue
        /\ \A e \in queue : e \in pending \/ told[e] = "new"
        /\ UNCHANGED <<result, msgs>>
        /\ \A e \in Deals : told'[e] \in {"published", "failed"} => told'[e] = told[e]
    BY <1>3 DEF Publish, TypeOK
  <2> HIDE DEF left, queue
  <2>2. CASE pending' \in {left, queue} /\ UNCHANGED batches
    BY <1>1, <2>1, <2>2
  <2>3. CASE pending' = {} /\ batches' = batches \cup Ready(queue \ ctxDone)
    BY <1>1, <1>2, <2>1, <2>3
  <2> QED
    BY <1>3, <2>2, <2>3 DEF Publish, PublishAllDeals, left, queue
<1>4. ASSUME pending' = {}, batches' = batches \cup Ready(pending \ ctxDone),
             UNCHANGED <<told, result, msgs>>
      PROVE  ResultInv'
  BY <1>1, <1>2, <1>4 DEF TypeOK
<1>5. ForcePublishPendingDeals => ResultInv'
  BY <1>4 DEF ForcePublishPendingDeals, PublishAllDeals
<1>6. ASSUME NEW t \in Deals PROVE TimerPublishes(t) => ResultInv'
  BY <1>4 DEF TimerPublishes, PublishAllDeals
<1>7. ASSUME NEW b \in batches, NEW d \in Deals, ValidateDeal(b, d) PROVE ResultInv'
  <2> DEFINE moved == [todo |-> b.todo \ {d}, valid |-> b.valid \cup {d}]
             cut == [b EXCEPT !.todo = @ \ {d}]
  <2>1. /\ d \in b.todo /\ b \in Batch /\ d \in InBatch(b)
        /\ UNCHANGED <<told, pending, msgs>>
    BY <1>7 DEF ValidateDeal, TypeOK, InBatch
  <2>2. InBatch(moved) = InBatch(b) /\ InBatch(cut) = InBatch(b) \ {d}
    BY <2>1 DEF InBatch
  <2> HIDE DEF moved, cut
  <2>3. CASE batches' = (batches \ {b}) \cup {moved} /\ UNCHANGED result
    <3>1. \A x \in batches' : x \in batches \/ InBatch(x) = InBatch(b)
      BY <2>2, <2>3
    <3> QED
      BY <2>1, <2>3, <3>1 DEF ResultInv
  <2>4. CASE /\ batches' = (batches \ {b}) \cup {cut}
             /\ result' = [result EXCEPT ![d] = "failed"]
    <3>1. /\ d \notin pending /\ \A i \in DOMAIN msgs : d \notin msgs[i]
          /\ \A x \in batches : x # b => d \notin InBatch(x)
      BY <2>1 DEF PlaceInv, PlacesDisjoint
    <3>2. \A x \in batches' : d \notin InBatch(x) /\ (x \in batches \/ InBatch(x) \subseteq InBatch(b))
      BY <2>2, <2>4, <3>1
    <3>3. result'[d] = "failed" /\ \A e \in Deals : e # d => result'[e] = result[e]
      BY <2>4 DEF TypeOK
    <3>4. told[d] # "published"
      BY <2>1 DEF ResultInv
    <3> QED
      BY <2>1, <2>4, <3>1, <3>2, <3>3, <3>4 DEF ResultInv
  <2> QED
    BY <1>7, <2>3, <2>4 DEF ValidateDeal, moved, cut
<1>8. ASSUME NEW b \in batches, PublishDealProposals(b) PROVE ResultInv'
  <2>1. /\ batches' = batches \ {b} /\ UNCHANGED <<told, pending>>
        /\ InBatch(b) = b.valid /\ b.valid \in SUBSET Deals
    BY <1>8 DEF PublishDealProposals, InBatch, TypeOK
  <2>2. CASE UNCHANGED <<result, msgs>>
    BY <2>1, <2>2 DEF ResultInv
  <2>3. /\ \A d \in InBatch(b) : /\ d \notin pending
                                 /\ \A i \in DOMAIN msgs : d \notin msgs[i]
                                 /\ told[d] \notin {"published", "failed"}
        /\ \A x \in batches' : x \in batches /\ InBatch(x) \cap InBatch(b) = {}
    BY <2>1 DEF PlaceInv, PlacesDisjoint, ResultInv
  <2>4. CASE msgs' = Append(msgs, b.valid) /\ result' = Completed(b, "published")
    <3>1. /\ \A i \in DOMAIN msgs' : (i \in DOMAIN msgs /\ msgs'[i] = msgs[i]) \/ msgs'[i] = b.valid
          /\ \A i \in DOMAIN msgs : i \in DOMAIN msgs' /\ msgs'[i] = msgs[i]
          /\ Len(msgs) + 1 \in DOMAIN msgs' /\ msgs'[Len(msgs) + 1] = b.valid
      BY <2>4 DEF TypeOK
    <3>2. \A d \in Deals : result'[d] = IF d \in b.valid THEN "published" ELSE result[d]
      BY <2>4 DEF Completed
    <3> QED
      BY <2>1, <2>3, <3>1, <3>2 DEF ResultInv
  <2>5. CASE UNCHANGED msgs /\ result' = Completed(b, "failed")
    <3>1. \A d \in Deals : result'[d] = IF d \in b.valid THEN "failed" ELSE result[d]
      BY <2>5 DEF Completed
    <3> QED
      BY <2>1, <2>3, <2>5, <3>1 DEF ResultInv
  <2> QED
    BY <1>8, <2>2, <2>4, <2>5 DEF PublishDealProposals
<1>9. ASSUME NEW d \in Deals, OnComplete(d) PROVE ResultInv'
  BY <1>9 DEF OnComplete, ResultInv, TypeOK
<1>10. ASSUME NEW d \in Deals, DropResult(d) PROVE ResultInv'
  BY <1>10 DEF DropResult, ResultInv, TypeOK
<1>11. ASSUME NEW d \in Deals, TimerFires(d) \/ CancelDeal(d) \/ Expire(d) PROVE ResultInv'
  BY <1>1, <1>11 DEF TimerFires, CancelDeal, Expire, TypeOK
<1>12. Shutdown \/ UNCHANGED vars => ResultInv'
  BY <1>1 DEF Shutdown, vars
<1> QED
  BY <1>3, <1>5, <1>6, <1>7, <1>8, <1>9, <1>10, <1>11, <1>12 DEF Next, Step

-----------------------------------------------------------------------------
(* The theorems.                                                             *)

IInv == TypeOK /\ TimerInv /\ PlaceInv /\ SizeInv /\ ResultInv

\* The inductive invariant holds initially.
LEMMA InitInv == Init => IInv
<1> SUFFICES ASSUME Init PROVE IInv
  OBVIOUS
<1>1. TypeOK
  BY TypeStep
<1>2. TimerInv /\ PlaceInv /\ ResultInv
  BY DEF Init, TimerInv, OneTimerArmed, PlaceInv, NewDealsNowhere, PlacesDisjoint,
         PublishedOnce, ResultInv
<1>3. SizeInv
  BY FS_EmptySet, PublisherAssumption DEF Init, SizeInv, MessageWithinLimit
<1> QED
  BY <1>1, <1>2, <1>3 DEF IInv

\* The inductive invariant of the deal publisher.
THEOREM Invariance == Spec => []IInv
<1>1. IInv /\ [Next]_vars => IInv'
  BY TypeStep, TimerStep, PlaceStep, SizeStep, ResultStep DEF IInv
<1> QED
  BY <1>1, InitInv, PTL DEF Spec

\* Every variable keeps its type.
THEOREM TypeCorrect == Spec => []TypeOK
<1>1. IInv => TypeOK
  BY DEF IInv
<1> QED
  BY <1>1, Invariance, PTL

\* No message exceeds maxDealsPerPublishMsg, for any limit and any deals.
THEOREM LimitRespected == Spec => []MessageWithinLimit
<1>1. IInv => MessageWithinLimit
  BY DEF IInv, SizeInv
<1> QED
  BY <1>1, Invariance, PTL

\* No deal goes into two messages.
THEOREM NeverPublishedTwice == Spec => []PublishedOnce
<1>1. IInv => PublishedOnce
  BY DEF IInv, PlaceInv
<1> QED
  BY <1>1, Invariance, PTL

\* Publish returns a cid for deals in a message and an error for others only.
THEOREM ResultsTrue == Spec => []ResultMatchesMessage
<1>1. IInv => ResultMatchesMessage
  BY DEF IInv, ResultInv, ResultMatchesMessage
<1> QED
  BY <1>1, Invariance, PTL

\* At most one timer runs, and it can be cancelled.
THEOREM OneTimer == Spec => []OneTimerArmed
<1>1. IInv => OneTimerArmed
  BY DEF IInv, TimerInv
<1> QED
  BY <1>1, Invariance, PTL
=============================================================================
