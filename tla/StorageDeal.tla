---------------------------- MODULE StorageDeal ----------------------------
(***************************************************************************)
(* The life of one storage deal in the storage provider: its record in the *)
(* deal store and everything that reads a copy of that record, works on it *)
(* and writes the whole copy back: proposal streams (stream.go), data      *)
(* transfer events (datatransfer_handler.go), data imports and the restart *)
(* of deals (storageprovider.go), HandleOff (deal_handler.go), the deal    *)
(* assigner (deal_assigner.go) and the deal tracker (deal_tracker.go).     *)
(*                                                                         *)
(* A step ends where the code saves the deal or has an effect outside it   *)
(* (funds reserved or released, a message pushed, a response sent), so a   *)
(* crash can fall between any two of these.                                *)
(***************************************************************************)
EXTENDS Integers, Sequences, FiniteSets

CONSTANTS
  Streams,    \* HandleDealStream goroutines: the proposal and its repetitions
  Channels,   \* data transfer channels
  Imports,    \* calls of ImportDataForDeal
  Assigners,  \* calls of AssignUnPackedDeals, each for a sector of its own
  Boot,       \* the goroutine of Start that restarts the deal
  Tracker,    \* the deal tracker
  Kinds,      \* transfer types of the proposal: "online", "offline", or "published"
              \* for a deal that another provider node proposed and published
  Races,      \* subset of {"overlap", "import"}, see the guards that name them
  Fails,      \* what may fail: a subset of FailKinds
  MaxCrash,   \* bound: crashes of the process
  MaxPubs,    \* bound: publish messages
  NoDeal,     \* no record
  None        \* no message, no connection, no sector

FailKinds == {"reject", "send", "data", "reserve", "addmsg", "publish", "wait", "file",
              "release", "save"}
Handlers == Streams \cup Channels \cup Imports \cup {Boot}
Actors == Handlers \cup Assigners \cup {Tracker}

ASSUME StorageDealAssumption ==
  /\ Kinds \subseteq {"online", "offline", "published"} /\ Races \subseteq {"overlap", "import"}
  /\ Fails \subseteq FailKinds
  /\ MaxCrash \in Nat /\ MaxPubs \in Nat \ {0}
  /\ Boot # Tracker /\ {Boot, Tracker} \cap (Streams \cup Channels \cup Imports \cup Assigners) = {}
  /\ Streams \cap (Channels \cup Imports \cup Assigners) = {}
  /\ Channels \cap (Imports \cup Assigners) = {} /\ Imports \cap Assigners = {}
  /\ None \notin Streams \cup Assigners \cup Nat

\* storagemarket.StorageDealStatus: the constants of the enumeration, which
\* ImportDataForDeal compares as numbers.
Code == [Unknown |-> 0, Staged |-> 4, Sealing |-> 5, Active |-> 7, Slashed |-> 9,
         Rejecting |-> 10, Failing |-> 11, WaitingForData |-> 18, VerifyData |-> 19,
         ReserveProviderFunds |-> 20, ProviderFunding |-> 22, Publish |-> 24,
         Publishing |-> 25, TransferAwaitRestart |-> 27, AwaitingPreCommit |-> 29]
States == DOMAIN Code

\* types.MinerDeal: the fields that the steps below read.
MinerDeal == [st : States, ps : {"", "Undefine", "Assigned", "Packing", "Proving"},
              sec : Assigners \cup {None}, id : BOOLEAN, fr : Nat,
              pub : (1 .. MaxPubs) \cup {None}]

ASSUME NoDealAssumption == NoDeal \notin MinerDeal

VARIABLES
  kind,     \* the transfer type of the proposal
  store,    \* the deal record in the deal store
  pc, mem,  \* where each actor is, and its copy of the record
  conn,     \* the stream that conns holds for the proposal
  chan,     \* chan[c]: the transfer of channel c
  tracked,  \* the in-memory blockstore map has the deal's CAR file
  held,     \* collateral the fund manager holds for the deal, in units of it
  pubs,     \* publish messages pushed, and how each executed
  given,    \* sectors the deal has been handed to
  sealed,   \* the sector that holds the deal on chain and its stage
  up, crashes,
  faults    \* history: the failures that have happened

vars == <<kind, store, pc, mem, conn, chan, tracked, held, pubs, given, sealed,
          up, crashes, faults>>
net  == <<conn, chan, tracked>>
fund == <<held, pubs>>
seal == <<given, sealed>>
proc == <<up, crashes>>

Rest == {"idle", "done"}
Busy(S) == \E a \in S : pc[a] \notin Rest

\* The deal once it is in progress of being published, and once it is on chain.
Working == {"VerifyData", "ReserveProviderFunds", "ProviderFunding", "Publish", "Publishing", "Staged"}
HandedOff == {"AwaitingPreCommit", "Sealing", "Active", "Slashed"}

Init ==
  /\ kind \in Kinds
  /\ store = NoDeal
  /\ pc = [a \in Actors |-> "idle"] /\ mem = [a \in Actors |-> NoDeal]
  /\ conn = None /\ chan = [c \in Channels |-> "none"] /\ tracked = FALSE
  /\ held = 0 /\ pubs = IF kind = "published" THEN <<"ok">> ELSE << >>
  /\ given = {} /\ sealed = [sec |-> None, st |-> "none"]
  /\ up = TRUE /\ crashes = 0 /\ faults = {}

-----------------------------------------------------------------------------
(* Moving an actor.                                                          *)

Goto(a, l, d) == pc' = [pc EXCEPT ![a] = l] /\ mem' = [mem EXCEPT ![a] = d]
Return(a) == Goto(a, IF a \in Channels THEN "idle" ELSE "done", NoDeal)

\* A call that may fail does so when its kind is in Fails; the failure is noted.
Fault(f) == f \in Fails /\ faults' = faults \cup {f}
NoFault == UNCHANGED faults

\* deals.SaveDeal(ctx, d) writes the whole record; on an error HandleError
\* follows.
SaveDeal(a, d, l, d1) ==
  \/ store' = d /\ Goto(a, l, d1) /\ NoFault
  \/ Fault("save") /\ Goto(a, "fail", d) /\ UNCHANGED store

-----------------------------------------------------------------------------
(* HandleDealStream and AcceptDeal.                                          *)

\* Mutant: a proposal that is tracked already is taken for a new one.
MutantAlreadyTracking == FALSE

\* GetDeal finds the proposal: the answer repeats the stored state.
AlreadyTracking == store # NoDeal

HandleDealStream(s) ==
  /\ up /\ pc[s] = "idle" /\ kind # "published"
  /\ "overlap" \in Races \/ \A t \in Streams : pc[t] # "create"
  /\ Goto(s, IF AlreadyTracking THEN "done" ELSE "create", NoDeal)
  /\ UNCHANGED <<kind, store, net, fund, seal, proc, faults>>

\* The new MinerDeal, saved in state Unknown; an error of SaveDeal ends the
\* stream.
CreateDeal(s) ==
  /\ pc[s] = "create"
  /\ LET d == [st |-> "Unknown", ps |-> "", sec |-> None, id |-> FALSE, fr |-> 0, pub |-> None]
     IN  \/ store' = d /\ Goto(s, "connect", d) /\ NoFault
         \/ Fault("save") /\ Return(s) /\ UNCHANGED store
  /\ UNCHANGED <<kind, net, fund, seal, proc>>

\* conns.AddStream fails when the proposal has a stream.
AddStream(s) ==
  /\ pc[s] = "connect"
  /\ \/ conn = None /\ conn' = s /\ Goto(s, "accept", mem[s])
     \/ conn # None /\ UNCHANGED conn /\ Return(s)
  /\ UNCHANGED <<kind, store, chan, tracked, fund, seal, proc, faults>>

\* The checks of AcceptDeal and the answer to the client: HandleReject and
\* AcceptDeal drop the connection, and both save the deal after that; when the
\* answer cannot be signed (the connection stays) or written, or another stream
\* has dropped the connection, AcceptDeal calls HandleError.
AcceptDeal(s) ==
  /\ pc[s] = "accept"
  /\ \/ /\ conn # None /\ conn' = None /\ NoFault
        /\ Goto(s, "acceptsave", [mem[s] EXCEPT !.st = "WaitingForData"])
     \/ /\ Fault("reject") /\ conn' = None
        /\ Goto(s, "acceptsave", [mem[s] EXCEPT !.st = "Rejecting"])
     \/ Fault("send") /\ conn' \in {None, conn} /\ Goto(s, "fail", mem[s])
     \/ conn = None /\ UNCHANGED conn /\ NoFault /\ Goto(s, "fail", mem[s])
  /\ UNCHANGED <<kind, store, chan, tracked, fund, seal, proc>>

\* SaveState, or the SaveDeal that ends HandleReject: an error is returned.
AcceptSave(s) ==
  /\ pc[s] = "acceptsave"
  /\ \/ store' = mem[s] /\ NoFault
     \/ Fault("save") /\ UNCHANGED store
  /\ Return(s)
  /\ UNCHANGED <<kind, net, fund, seal, proc>>

-----------------------------------------------------------------------------
(* Data transfer events.                                                     *)

\* What an event makes of a channel's transfer, "" when it does not happen
\* there.  The request validator of the data transfer module admits a push
\* only for a deal that waits for its data.
AfterEvent(c, e) ==
  CASE e = "Open" /\ chan[c] \in {"none", "failed"} /\ kind = "online"
         /\ store # NoDeal /\ store.st \in {"WaitingForData", "TransferAwaitRestart"} -> "open"
    [] e = "Disconnected" /\ chan[c] = "open" -> "stalled"
    [] e = "Restart" /\ chan[c] \in {"open", "stalled"} -> "open"
    [] e = "Error" /\ chan[c] = "open" -> "failed"
    [] e = "Complete" /\ chan[c] = "open" -> "completed"
    [] e = "Cancel" /\ chan[c] \in {"open", "stalled"} -> "cancelled"
    [] OTHER -> ""
Events == {"Open", "Disconnected", "Restart", "Error", "Complete", "Cancel"}

\* The subscriber receives an event and the handler reads the deal.  The
\* transport opens the CAR file through providerStoreGetter before the transfer
\* opens or restarts.  A transfer is open only in a process that opened it.
ProviderDataTransferSubscriber(c, e) ==
  /\ up /\ pc[c] = "idle" /\ AfterEvent(c, e) # ""
  /\ e = "Complete" => tracked
  /\ "overlap" \in Races \/ ~Busy(Channels \cup {Boot})
  /\ chan' = [chan EXCEPT ![c] = AfterEvent(c, e)]
  /\ tracked' = (tracked \/ e \in {"Open", "Restart"})
  /\ Goto(c, e, store)
  /\ UNCHANGED <<kind, store, conn, fund, seal, proc, faults>>

\* HandleInitForDeal, HandleRestartForDeal, HandleStalledForDeal and
\* HandleFailedForDeal save the deal in state ProviderTransferAwaitRestart.
HandleTransferEvent(c) ==
  /\ pc[c] \in {"Open", "Disconnected", "Restart", "Error"}
  /\ \/ store' = [mem[c] EXCEPT !.st = "TransferAwaitRestart"] /\ NoFault
     \/ Fault("save") /\ UNCHANGED store
  /\ Return(c)
  /\ UNCHANGED <<kind, net, fund, seal, proc>>

\* The deal is saved in state VerifyData and HandleOff started on the copy.
HandleCompleteFor(c) ==
  /\ pc[c] = "Complete"
  /\ LET d == [mem[c] EXCEPT !.st = "VerifyData"]
     IN  \/ store' = d /\ Goto(c, "off", d) /\ NoFault
         \/ Fault("save") /\ UNCHANGED store /\ Return(c)
  /\ UNCHANGED <<kind, net, fund, seal, proc>>

HandleCancelForDeal(c) ==
  /\ pc[c] = "Cancel"
  /\ Goto(c, "fail", mem[c])
  /\ UNCHANGED <<kind, store, net, fund, seal, proc, faults>>

-----------------------------------------------------------------------------
(* HandleOff: the states of the actor's copy one after the other.            *)

At(a, st) == pc[a] = "off" /\ mem[a].st = st

\* FinalizeBlockstore fails when the map of blockstores lacks the deal, which
\* it does after a restart; the commitment may not match.
VerifyData(a) ==
  /\ At(a, "VerifyData")
  /\ \/ /\ tracked
        /\ LET d == [mem[a] EXCEPT !.ps = "Undefine", !.st = "ReserveProviderFunds"]
           IN  SaveDeal(a, d, "off", d)
     \/ Fault("data") /\ Goto(a, "fail", mem[a]) /\ UNCHANGED store
     \/ ~tracked /\ NoFault /\ Goto(a, "fail", mem[a]) /\ UNCHANGED store
  /\ UNCHANGED <<kind, net, fund, seal, proc>>

\* FundManager.Reserve succeeds, with or without a message to wait for.
ReserveFunds(a) ==
  /\ At(a, "ReserveProviderFunds")
  /\ \/ /\ held' = held + 1 /\ NoFault
        /\ \E st \in {"ProviderFunding", "Publish"} :
             Goto(a, "reserved", [mem[a] EXCEPT !.fr = @ + 1, !.st = st])
     \/ Fault("reserve") /\ Goto(a, "fail", mem[a]) /\ UNCHANGED held
  /\ UNCHANGED <<kind, store, net, pubs, seal, proc>>

SaveReserved(a) ==
  /\ pc[a] = "reserved"
  /\ SaveDeal(a, mem[a], "off", mem[a])
  /\ UNCHANGED <<kind, net, fund, seal, proc>>

\* WaitForMessage for the AddFunds message, and its callback.
WaitForFunding(a) ==
  /\ At(a, "ProviderFunding")
  /\ \/ LET d == [mem[a] EXCEPT !.st = "Publish"] IN SaveDeal(a, d, "off", d)
     \/ Fault("addmsg") /\ Goto(a, "fail", mem[a]) /\ UNCHANGED store
  /\ UNCHANGED <<kind, net, fund, seal, proc>>

\* Mutant: the state is left as it was.
MutantPublishDeals(a) ==
  /\ At(a, "Publish")
  /\ Len(pubs) < MaxPubs /\ pubs' = Append(pubs, "pending") /\ NoFault
  /\ Goto(a, "published", [mem[a] EXCEPT !.pub = Len(pubs) + 1])
  /\ UNCHANGED <<kind, store, net, held, seal, proc>>

\* PublishDeals: a message that carries the deal is pushed, or an error comes
\* back and none is.
PublishDeals(a) ==
  /\ At(a, "Publish")
  /\ \/ /\ Len(pubs) < MaxPubs /\ pubs' = Append(pubs, "pending") /\ NoFault
        /\ Goto(a, "published", [mem[a] EXCEPT !.pub = Len(pubs) + 1, !.st = "Publishing"])
     \/ Fault("publish") /\ Goto(a, "fail", mem[a]) /\ UNCHANGED pubs
  /\ UNCHANGED <<kind, store, net, held, seal, proc>>

SavePublished(a) ==
  /\ pc[a] = "published"
  /\ SaveDeal(a, mem[a], "off", mem[a])
  /\ UNCHANGED <<kind, net, fund, seal, proc>>

\* Mutant: the amount is set to zero and nothing is released.
MutantReleaseReservedFunds(a) == UNCHANGED held /\ NoFault

\* releaseReservedFunds: an error of Release is logged and the amount set to
\* zero all the same.
ReleaseReservedFunds(a) ==
  \/ held' = held - mem[a].fr /\ NoFault
  \/ mem[a].fr > 0 /\ Fault("release") /\ UNCHANGED held

\* Mutant: the funds are released before the wait, not after it.
MutantWaitForPublish(a) ==
  /\ At(a, "Publishing") /\ mem[a].pub # None
  /\ ReleaseReservedFunds(a)
  /\ Goto(a, "released", [mem[a] EXCEPT !.fr = 0, !.id = TRUE, !.st = "Staged"])
  /\ UNCHANGED <<kind, store, net, pubs, seal, proc>>

\* Mutant: the wait gives up on a message that has not executed yet.
MutantImpatientWait(a) ==
  /\ At(a, "Publishing") /\ mem[a].pub # None
  /\ Goto(a, "fail", mem[a]) /\ NoFault
  /\ UNCHANGED <<kind, store, net, fund, seal, proc>>

\* WaitForPublishDeals returns when the message has executed: the deal's ID, or
\* an error for a failed message; a call of the node may fail at any time.
\* After it the reserved funds are released.
WaitForPublish(a) ==
  /\ At(a, "Publishing") /\ mem[a].pub # None
  /\ \/ /\ pubs[mem[a].pub] = "ok"
        /\ ReleaseReservedFunds(a)
        /\ Goto(a, "released", [mem[a] EXCEPT !.fr = 0, !.id = TRUE, !.st = "Staged"])
     \/ /\ pubs[mem[a].pub] = "failed" /\ NoFault
        /\ Goto(a, "fail", mem[a]) /\ UNCHANGED held
     \/ Fault("wait") /\ Goto(a, "fail", mem[a]) /\ UNCHANGED held
  /\ UNCHANGED <<kind, store, net, pubs, seal, proc>>

SaveStaged(a) ==
  /\ pc[a] = "released"
  /\ SaveDeal(a, mem[a], "off", mem[a])
  /\ UNCHANGED <<kind, net, fund, seal, proc>>

\* The data is opened and the payload size saved ...
OpenData(a) ==
  /\ At(a, "Staged")
  /\ \/ SaveDeal(a, mem[a], "handoff", mem[a])
     \/ Fault("file") /\ Goto(a, "fail", mem[a]) /\ UNCHANGED store
  /\ UNCHANGED <<kind, net, fund, seal, proc>>

\* ... savePieceFile writes the piece, once, and the deal awaits its sector.
HandOff(a) ==
  /\ pc[a] = "handoff"
  /\ \/ LET d == [mem[a] EXCEPT !.st = "AwaitingPreCommit"] IN SaveDeal(a, d, "off", d)
     \/ Fault("file") /\ Goto(a, "fail", mem[a]) /\ UNCHANGED store
  /\ UNCHANGED <<kind, net, fund, seal, proc>>

\* The states that HandleOff does nothing for.
EndHandleOff(a) ==
  /\ pc[a] = "off"
  /\ mem[a].st \notin Working
  /\ Return(a)
  /\ UNCHANGED <<kind, store, net, fund, seal, proc, faults>>

\* Mutant: the amount released is subtracted from the zero already set.
MutantHandleError(a) ==
  /\ pc[a] = "fail"
  /\ ReleaseReservedFunds(a)
  /\ tracked' = FALSE
  /\ Goto(a, "failsave", [mem[a] EXCEPT !.fr = 0 - @, !.st = "Failing"])
  /\ UNCHANGED <<kind, store, conn, chan, pubs, seal, proc>>

\* HandleError up to the release of the funds: the files are deleted and the
\* blockstore is no longer tracked.
HandleError(a) ==
  /\ pc[a] = "fail"
  /\ ReleaseReservedFunds(a)
  /\ tracked' = FALSE
  /\ Goto(a, "failsave", [mem[a] EXCEPT !.fr = 0, !.st = "Failing"])
  /\ UNCHANGED <<kind, store, conn, chan, pubs, seal, proc>>

FailSave(a) ==
  /\ pc[a] = "failsave"
  /\ \/ store' = mem[a] /\ NoFault
     \/ Fault("save") /\ UNCHANGED store
  /\ Return(a)
  /\ UNCHANGED <<kind, net, fund, seal, proc>>

HandleOff(a) ==
  \/ VerifyData(a) \/ ReserveFunds(a) \/ SaveReserved(a) \/ WaitForFunding(a)
  \/ PublishDeals(a) \/ SavePublished(a) \/ WaitForPublish(a) \/ SaveStaged(a)
  \/ OpenData(a) \/ HandOff(a) \/ EndHandleOff(a) \/ HandleError(a) \/ FailSave(a)

-----------------------------------------------------------------------------
(* Imports, crashes and restarts.                                            *)

\* Mutant: a staged deal counts as finished.
MutantIsTerminateState(d) == d.st \in {"Slashed", "Failing", "Staged"}

\* isTerminateState; no step of the provider sets Expired or Error.
IsTerminateState(d) == d.st \in {"Slashed", "Failing"}

\* The guard of ImportDataForDeal compares the numbers of the enumeration.
ImportAllowed(d) == ~IsTerminateState(d) /\ ~(Code[d.st] > Code["WaitingForData"])

\* Unless "import" is a race of the run, data is imported for offline deals
\* that wait for it.
ImportDataForDeal(i) ==
  /\ up /\ pc[i] = "idle" /\ store # NoDeal
  /\ "import" \in Races \/ (kind = "offline" /\ store.st = "WaitingForData")
  /\ "overlap" \in Races \/ ~Busy(Handlers)
  /\ IF ImportAllowed(store) THEN Goto(i, "copy", store) ELSE Return(i)
  /\ UNCHANGED <<kind, store, net, fund, seal, proc, faults>>

\* The data has been copied and its commitment computed; the copy of the
\* record read before that is saved.
ImportSave(i) ==
  /\ pc[i] = "copy"
  /\ \/ LET d == [mem[i] EXCEPT !.st = "ReserveProviderFunds", !.ps = "Undefine"]
        IN  store' = d /\ Goto(i, "off", d) /\ NoFault
     \/ Fault("data") /\ Return(i) /\ UNCHANGED store
     \/ Fault("save") /\ Return(i) /\ UNCHANGED store
  /\ UNCHANGED <<kind, net, fund, seal, proc>>

\* ImportPublishedDeal: a deal found on chain, with its publish message, that
\* has no record.
ImportPublishedDeal(i) ==
  /\ up /\ pc[i] = "idle" /\ store = NoDeal /\ kind = "published"
  /\ store' = [st |-> "AwaitingPreCommit", ps |-> "Undefine", sec |-> None, id |-> TRUE,
               fr |-> 0, pub |-> 1]
  /\ Return(i)
  /\ UNCHANGED <<kind, net, fund, seal, proc, faults>>

\* The process dies: goroutines, connections and the blockstore map are gone,
\* the deal store, the transfers' own state and the fund manager's are not.
\* History: what had been done and not yet recorded.
Crash ==
  /\ up /\ crashes < MaxCrash
  /\ up' = FALSE /\ crashes' = crashes + 1
  /\ faults' = faults
       \cup {"crashReserve" : a \in {x \in Handlers : pc[x] = "reserved"}}
       \cup {"crashPublish" : a \in {x \in Handlers : pc[x] = "published"}}
       \cup {"crashRelease" : a \in {x \in Handlers : /\ pc[x] \in {"released", "failsave"}
                                                      /\ store # NoDeal /\ store.fr > 0}}
  /\ pc' = [a \in Actors |-> IF pc[a] \in Rest \/ a \notin Streams \cup Imports \cup Assigners
                             THEN (IF pc[a] = "done" /\ a # Boot THEN "done" ELSE "idle")
                             ELSE "done"]
  /\ mem' = [a \in Actors |-> NoDeal]
  /\ conn' = None /\ tracked' = FALSE
  /\ UNCHANGED <<kind, store, chan, fund, seal>>

\* Start and restartDeals.
Start ==
  /\ ~up /\ up' = TRUE
  /\ IF store # NoDeal /\ ~IsTerminateState(store)
     THEN Goto(Boot, "off", store) ELSE UNCHANGED <<pc, mem>>
  /\ UNCHANGED <<kind, store, net, fund, seal, crashes, faults>>

-----------------------------------------------------------------------------
(* Deal assigner, deal tracker and chain.                                    *)

\* Mutant: the piece status of the deal is not looked at.
MutantAssignable(d) == d.id /\ ~IsTerminateState(d)

\* GetDealsByPieceStatus, and the loop's filter.
Assignable(d) == d.ps = "Undefine" /\ d.id /\ ~IsTerminateState(d)

PickDeal(a) ==
  /\ up /\ pc[a] = "idle" /\ store # NoDeal /\ Assignable(store)
  /\ "overlap" \in Races \/ ~Busy(Actors)
  /\ Goto(a, "picked", NoDeal)
  /\ UNCHANGED <<kind, store, net, fund, seal, proc, faults>>

\* The deal that pickAndAlign chose is read again ...
ReadPicked(a) ==
  /\ pc[a] = "picked"
  /\ Goto(a, "assign", store)
  /\ UNCHANGED <<kind, store, net, fund, seal, proc, faults>>

\* ... and saved with its sector, which the caller then fills.
AssignDeal(a) ==
  /\ pc[a] = "assign"
  /\ \/ /\ store' = [mem[a] EXCEPT !.ps = "Assigned", !.sec = a]
        /\ given' = given \cup {a} /\ NoFault
     \/ Fault("save") /\ UNCHANGED <<store, given>>
  /\ Return(a)
  /\ UNCHANGED <<kind, net, fund, sealed, proc>>

\* checkSlash or checkPreCommitAndCommit reads the deal ...
ScanDeal ==
  /\ up /\ pc[Tracker] = "idle" /\ store # NoDeal
  /\ store.st \in {"AwaitingPreCommit", "Sealing", "Active"}
  /\ "overlap" \in Races \/ ~Busy(Assigners)
  /\ Goto(Tracker, "track", store)
  /\ UNCHANGED <<kind, store, net, fund, seal, proc, faults>>

\* Mutant: a precommitted sector counts as one that includes the deal.
MutantTrackedState(d) ==
  CASE d.st = "Active" /\ sealed.st = "slashed" -> <<"Slashed", d.ps>>
    [] d.st # "Active" /\ sealed.st # "none" -> <<"Active", "Proving">>
    [] OTHER -> <<d.st, d.ps>>

\* The status that the chain's view of the deal and of its sector gives it.
TrackedState(d) ==
  CASE d.st = "Active" /\ sealed.st = "slashed" -> <<"Slashed", d.ps>>
    [] d.st # "Active" /\ sealed.st \in {"proven", "slashed"} -> <<"Active", "Proving">>
    [] d.st = "AwaitingPreCommit" /\ sealed.st = "precommitted" /\ sealed.sec = d.sec ->
         <<"Sealing", "Packing">>
    [] OTHER -> <<d.st, d.ps>>

\* ... looks the deal up on chain and updates the columns that change.
UpdateDealStatus ==
  /\ pc[Tracker] = "track"
  /\ LET d == mem[Tracker]
         t == TrackedState(d)
     IN  \/ /\ NoFault
            /\ store' = IF t = <<d.st, d.ps>> THEN store
                        ELSE [store EXCEPT !.st = t[1], !.ps = IF t[1] = "Slashed" THEN @ ELSE t[2]]
         \/ Fault("save") /\ UNCHANGED store
  /\ Goto(Tracker, "idle", NoDeal)
  /\ UNCHANGED <<kind, net, fund, seal, proc>>

\* The market actor accepts one publication of a deal; messages of one sender
\* execute in the order they were pushed.
ExecPublish ==
  /\ \E p \in DOMAIN pubs :
       /\ pubs[p] = "pending" /\ \A q \in 1 .. p - 1 : pubs[q] # "pending"
       /\ \E r \in {"ok", "failed"} :
            /\ r = "ok" => \A q \in DOMAIN pubs : pubs[q] # "ok"
            /\ pubs' = [pubs EXCEPT ![p] = r]
  /\ UNCHANGED <<kind, store, pc, mem, net, held, seal, proc, faults>>

\* The sealer takes a deal it was given through precommit and commit.
SealDeal ==
  /\ \/ /\ sealed.st = "none"
        /\ \E s \in given : sealed' = [sec |-> s, st |-> "precommitted"]
     \/ sealed.st = "precommitted" /\ sealed' = [sealed EXCEPT !.st = "proven"]
     \/ sealed.st = "proven" /\ sealed' = [sealed EXCEPT !.st = "slashed"]
  /\ UNCHANGED <<kind, store, pc, mem, net, fund, given, proc, faults>>

-----------------------------------------------------------------------------
StreamStep(s) == CreateDeal(s) \/ AddStream(s) \/ AcceptDeal(s) \/ AcceptSave(s)
ChannelStep(c) == HandleTransferEvent(c) \/ HandleCompleteFor(c) \/ HandleCancelForDeal(c)

Next ==
  \/ \E s \in Streams : HandleDealStream(s) \/ StreamStep(s)
  \/ \E c \in Channels : ChannelStep(c) \/ \E e \in Events : ProviderDataTransferSubscriber(c, e)
  \/ \E i \in Imports : ImportDataForDeal(i) \/ ImportSave(i) \/ ImportPublishedDeal(i)
  \/ \E a \in Handlers : HandleOff(a)
  \/ \E a \in Assigners : PickDeal(a) \/ ReadPicked(a) \/ AssignDeal(a)
  \/ ScanDeal \/ UpdateDealStatus
  \/ Crash \/ Start \/ ExecPublish \/ SealDeal

Spec == Init /\ [][Next]_vars

\* Goroutines that have started go on, the process is started again and the
\* chain executes messages.  Nobody has to propose, transfer, import or assign.
Fairness ==
  /\ \A a \in Handlers : WF_vars(HandleOff(a))
  /\ WF_vars(Start)
  /\ WF_vars(ExecPublish)
  /\ WF_vars(ScanDeal) /\ WF_vars(UpdateDealStatus)

FairSpec == Spec /\ Fairness

-----------------------------------------------------------------------------
(* Properties.                                                               *)

FaultKinds == FailKinds \cup {"crashReserve", "crashPublish", "crashRelease"}
WorkPCs == {"off", "reserved", "published", "released", "handoff", "fail", "failsave"}
PCs == Rest \cup WorkPCs \cup {"create", "connect", "accept", "acceptsave", "copy", "picked",
        "assign", "track"} \cup Events

\* The stored deal is in one of the states S.
Stored(S) == store # NoDeal /\ store.st \in S

\* Every variable has its type.
TypeOK ==
  /\ kind \in Kinds
  /\ store \in MinerDeal \cup {NoDeal}
  /\ pc \in [Actors -> PCs] /\ mem \in [Actors -> MinerDeal \cup {NoDeal}]
  /\ conn \in Streams \cup {None}
  /\ chan \in [Channels -> {"none", "open", "stalled", "failed", "completed", "cancelled"}]
  /\ tracked \in BOOLEAN
  /\ held \in Int
  /\ pubs \in Seq({"pending", "ok", "failed"}) /\ Len(pubs) <= MaxPubs
  /\ given \subseteq Assigners
  /\ sealed \in [sec : Assigners \cup {None}, st : {"none", "precommitted", "proven", "slashed"}]
  /\ up \in BOOLEAN /\ crashes \in 0 .. MaxCrash
  /\ faults \subseteq FaultKinds

\* The collateral that the fund manager holds for the deal is what FundsReserved
\* of the record says, of the copy of the handler at work if there is one: no
\* path through HandleOff, HandleError and a restart reserves twice or keeps a
\* reservation of a deal that has ended.  A save or a release that fails, or a
\* crash between Reserve or Release and the save, breaks it.
CollateralAccounted ==
  faults \cap {"save", "release", "crashReserve", "crashRelease"} = {} =>
    /\ \A a \in Handlers : pc[a] \in WorkPCs => held = mem[a].fr
    /\ (store # NoDeal /\ \A a \in Handlers : pc[a] \notin WorkPCs) => held = store.fr

\* While a publish message is on its way the deal's collateral stays reserved,
\* or a withdrawal could make the message fail.  HandleError releases it early
\* when the wait for the message or the save after the push failed, or a crash
\* lost the message; after a crash between the release and the save the restarted
\* deal is published without it.
PendingPublishBacked ==
  faults \cap {"wait", "save", "crashPublish", "crashRelease"} = {} =>
    \A p \in DOMAIN pubs : pubs[p] = "pending" => held >= 1

\* A deal is published again only when the record of the first message was lost.
PublishedOnce ==
  Len(pubs) > 1 => faults \cap {"save", "crashPublish"} # {}

\* A deal that is on chain is given up (its data deleted, its collateral lost)
\* only for a failure after the publication.
ChainDealNotFailed ==
  Stored({"Failing"}) /\ (\E p \in DOMAIN pubs : pubs[p] = "ok") =>
    faults \cap {"wait", "file", "save", "crashPublish"} # {}

\* The record is not ahead of the chain: from Staged on the deal has been
\* published, Sealing, Active and Slashed follow its sector.
StateFollowsChain ==
  /\ Stored({"Staged"} \cup HandedOff) => \E p \in DOMAIN pubs : pubs[p] = "ok"
  /\ Stored({"Sealing"}) => sealed.st # "none"
  /\ Stored({"Active"}) => sealed.st \in {"proven", "slashed"}
  /\ Stored({"Slashed"}) => sealed.st = "slashed"

\* The record names the sector that the deal was handed to: no save loses an
\* assignment, and no deal is handed to two sectors.
SectorRecorded == \A s \in given : store.sec = s

\* How far a deal has come.
Rank(d) ==
  IF d = NoDeal THEN 0 ELSE
  CASE d.st = "Unknown" -> 1
    [] d.st \in {"WaitingForData", "Rejecting"} -> 2
    [] d.st = "TransferAwaitRestart" -> 3
    [] d.st = "VerifyData" -> 4
    [] d.st = "ReserveProviderFunds" -> 5
    [] d.st = "ProviderFunding" -> 6
    [] d.st = "Publish" -> 7
    [] d.st = "Publishing" -> 8
    [] d.st = "Staged" -> 9
    [] d.st = "AwaitingPreCommit" -> 10
    [] d.st = "Sealing" -> 11
    [] d.st = "Active" -> 12
    [] OTHER -> 13

\* The stored deal never goes back to an earlier state, whatever the order of
\* events, crashes and restarts.
NeverBack == [][Rank(store') >= Rank(store)]_vars

\* A proposal for a deal that is tracked already leaves its record alone.
ProposalKeepsDeal == [][store # NoDeal => store'.st # "Unknown" \/ store.st = "Unknown"]_vars

\* Importing data does not take a published deal back.
ImportKeepsPublished ==
  [][Stored({"Staged"} \cup HandedOff) => Rank(store') >= Rank(store)]_vars

\* A deal whose data has arrived is handed off for sealing or fails, across
\* crashes and restarts, unless the deal store stops taking writes.
DealResolved ==
  Stored(Working) ~> (Stored(HandedOff \cup {"Failing"}) \/ "save" \in faults)
=============================================================================
