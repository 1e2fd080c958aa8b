# A verification project for venus-market

venus-market is the storage and retrieval market node of a Filecoin storage
provider. Clients propose storage deals; the node checks them, receives the data,
reserves collateral, publishes the deals on chain, hands the data to the sealer
and follows the deal's sector. It also serves retrievals for payment through
payment channels. This directory holds TLA+ models of the parts whose
correctness depends on interleavings, crashes and failures, the TLC runs that
check them on small instances, and TLAPS proofs of their main invariants.

## 1. Inventory

| part | state | operations | talks to |
|---|---|---|---|
| fund manager (`fundmgr`) | per address: reserved amount, cid of the message in flight (both stored), three request queues (memory) | Reserve, Release, Withdraw, `process`, wait for a message, Start, Stop | market actor through the node; called by the deal handler and the API |
| deal publisher (`storageprovider/dealpublisher.go`) | queue, period start, timer, per provider (memory) | Publish, ForcePublishPendingDeals, timer, publishReady, PendingDeals | node; called by the deal handler |
| deal processing (`deal_handler.go`, `provider.go`) | the deal record (stored), blockstore map (memory) | AcceptDeal, HandleOff, HandleReject, HandleError | fund manager, publisher, piece storage, DAG store |
| proposal streams (`stream.go`) | connection map (memory) | HandleDealStream, ask and status streams | deal processing |
| transfer handler (`datatransfer_handler.go`, subscriber) | deal record | open, restart, stall, fail, cancel, complete | data transfer module; starts HandleOff |
| storage provider (`storageprovider.go`) | deal record | Start (restartDeals), ImportDataForDeal, ImportPublishedDeal | deal processing |
| deal assigner (`deal_assigner.go`, `deal_assign_util.go`) | piece status, sector, offset in the record | AssignUnPackedDeals, MarkDealsAsPacking, UpdateDealOnPacking, GetUnPackedDeals, pickAndAlign | called by the sealer over RPC |
| deal tracker (`deal_tracker.go`) | state and piece status in the record | checkPreCommitAndCommit, checkSlash | chain |
| payment channel manager (`paychmgr`) | channel and message records (stored); per channel a queue of fund requests, a lock and waiting goroutines (memory) | getPaych, processQueue, msgWaitComplete, AvailableFunds, Start; AddVoucher, CreateVoucher, SubmitVoucher, AllocateLane, Settle, Collect, TrackInboundChannel | chain; called by the retrieval provider and the API |
| payment channel settler (`paychmgr/settler`) | none of its own | a matched Settle message starts the submission of the best vouchers | channel manager, events service |
| retrieval provider (`retrievalprovider`) | retrieval deal record (stored), blockstore map (memory) | request validation, revalidation with payments, unsealing, transfer events, cancellation | data transfer, payment channels, DAG store |
| sector events and client node adapter (`storageprovider/client.go`, `ondealsectorcommitted.go`, `currentdealinfo.go`) | watchers in the events service (memory) | ValidatePublishedDeal, OnDealSectorPreCommitted, OnDealSectorCommitted, OnDealExpiredOrSlashed | chain events; called by the client's deal machine |
| repositories (`models/badger`, `models/mysql`) | storage deals, cid infos, asks, funded addresses, retrieval deals, payment channels | one method per write and query | everything above |
| piece storage (`piecestorage`, `rpc/piece.go`, `utils`) | the list of storages (memory), files or S3 objects | choose, save, read, serve over HTTP, add and remove a storage | deal processing, DAG store |
| DAG store wrapper (`dagstore`) | registration marker file; shards are the library's | RegisterShard, LoadShard, MigrateDeals, failure loop | piece storage, retrieval provider, deal processing |
| blockstores (`blockstore`) | badger databases, their directory and symlink | Put, Get, Has, View, Delete, AllKeysChan, CollectGarbage (moving), Close | imports, DAG store |
| client imports (`imports`, `client_blockstore.go`) | import records (stored), CAR files, open blockstores with user counts (memory) | create, label, import, remove, open, close | client API |
| client API (`client`) | subscriptions and waits (memory) | ClientImport, ClientStartDeal, ClientRetrieve, ClientRetrieveWait, ClientGetRetrievalUpdates, ClientCancelRetrievalDeal | go-fil-markets client, imports |
| miner manager (`minermgr`) | the list of addresses that may sign, with their accounts (memory) | start, refresh every minute, GetAccount | venus-auth, node; called by the message client |
| address selection (`address_select.go`) | none | AddressFor | node, wallet; called by the publisher |
| message client (`api/clients`) | none but a lock | PushMessage (daemon or venus-messager), AssignNonce, WaitMsg | called by all that send messages |
| storage ask (`storage_ask.go`) | ask record (stored) | SetAsk, GetAsk, ListAsk | called by the API and the streams |
| API, RPC, CLI, configuration | none | forwarding and I/O | |

What is hard here:

- Nothing locks a deal. Streams, transfer events, imports, `HandleOff`, the
  assigner and the tracker each read a copy of the record, work on it for
  seconds or hours and (all but the tracker) write the whole record back.
- Effects and their records are separate steps. Funds are reserved, then the
  deal is saved; a message is pushed, then its cid is saved; a caller is
  answered, then the new amount is saved. A crash may fall between any two.
- Batching. The fund manager nets several requests into one message; the
  publisher lets a timer, a full queue and a forced publication race for one
  queue while callers give up.
- Waiting. Requests that arrive while a message is in flight depend on the
  goroutine that waits for it to start `process` again. The same holds for the
  fund requests of a payment channel; and a caller that gives up cancels the
  context with which the result of its message is saved.
- Two implementations. Every repository exists for badger and for MySQL, which
  differ in atomicity, in cancelled contexts, in nil pointers and in what
  "not found" means.
- Data that moves while it is read: the blockstore's database during a full
  garbage collection, a piece while `mv` copies it, the CAR of an import while
  the import is removed, the chain during a reorganisation.

The properties that make each part correct: the reserved amount covers what
callers were granted and stays in the address; one message is in flight; every
request is answered; a deal is in one message, of limited size, and its caller
learns the truth; the collateral of a deal is reserved once and released once; a
deal is published once, is not given up while it is on chain, never goes back,
is in one sector, and once its data has arrived it is handed off or fails. A
payment channel asks for each amount once and counts it when the chain has it; a
voucher that was accepted is kept and redeemed; a retrieval never runs further
ahead of its payments than its intervals allow and ends; a sector is filled
exactly; a block that was put is found during and after a collection; a piece is
served as its payload followed by zeros; a client is told of a sector only what
the chain says; every wait ends; both kinds of store give the same answers.
`PROJECT.json` lists the hazards line by line with the properties that cover each.

## 2. Modules

### FundManager: `fundmgr/fundmanager.go`, one address

`state` and `store` are `FundedAddressState` in memory and in the datastore,
`reservations`, `releases`, `withdrawals` the queues. `procs` counts the
`go a.process(ctx)` goroutines that wait for the lock, per context, and `waits`
the goroutines inside `WaitMsg`. One goroutine holds the lock: `pc`, `pctx`, `lv`
are its step, its context and its local variables. `process` is cut where another
actor can come in between although the lock is held: a context may end between
two reads of `Amount()`, the chain and other deals change the balance between
its query and the push, callers are answered before the save, the process may
die. Loops over the queues take one step per request for that reason.

Addresses share no state except the map they are in, so one is enough. Messages
on chain, the balance and `WaitMsg` are external: a message is pending until the
chain executes it or fails it, and a withdrawal takes at most what is there.
`owed` sums, when requests are completed, what was reserved less what was
released; `abandoned` are messages that nobody waits for; `faults` records what
went wrong so far.

### DealPublisher: `storageprovider/dealpublisher.go`, one provider

`pending`, `cancelWait`, `periodStart` are the fields of `singleDealPublisher`.
Every timer goroutine is named after the deal whose Publish started it
(`timers`), each `publishReady` goroutine is a record in `batches`, and `result`
holds what an `onComplete` goroutine is about to deliver. A timer that has fired
still has to take the lock, and what it publishes then is whatever is queued by
then.

### StorageDeal: one deal from proposal to sector

`store` is the record in the deal store. Every actor (stream, transfer channel,
import, the goroutine of Start, assigner, tracker) has a step `pc` and its own
copy `mem` of the record, and writes the whole copy back. A step ends at each save
and at each outside effect. `held` is the collateral the fund manager holds for
the deal in units of it; `pubs` the publish messages and how each executed;
`given` the sectors the assigner handed the deal to; `sealed` what the miner
actor says of it. `conn` and `tracked` live in memory and are lost in a crash.

The checks of AcceptDeal are one choice between acceptance, rejection and
failure: no property depends on which check fails. The fund manager and the
publisher appear by what they promise and the modules above establish: Reserve
holds the amount or fails, PublishDeals pushes one message with the deal or
fails. ProviderFunding's wait is one step with its callback; when the save in
the callback fails the code runs HandleError twice, of which the second run only
saves again.

`Races` names overlaps of the environment. Without `"overlap"`, a repeated
proposal, an import, a transfer event or a call of the assigner comes when no
operation of that kind is at work on the deal (repetitions of the proposal after
its record exists, the tracker, crashes and the chain interleave freely).
Without `"import"`, data is imported only for offline deals that wait for it.
The passing run shows that the design is right when callers keep to this; each
violation run lifts one restriction and shows what the code then does.

### PaychFunds: `paychmgr/simple.go`, `manager.go`, the channels of one pair

`reqQueue` is fundsReqQueue as a set (a merged request takes and answers
all of it, so its order decides nothing), `task` the processQueue that holds the accessor's
lock with its merged request, `chans` and `infos` the channel and message
records, `wait` the goroutines of waitForPaychCreateMsg and waitForAddFundsMsg.
A merged request carries a context that checkActive cancels when all of its
requests have given up; `dead` remembers it, because every later save of the
message's result uses it and MySQL refuses it (`StoreHonoursCtx`). `Stuck` is the
state that follows, and also an error of WaitMsg: the record keeps its pending
message, and every request queues behind it until Manager.Start waits again.
RequestsAnswered says that this is the only way to wait for ever.

### PaychVouchers: `paychmgr/paych.go`, `settler/settler.go`, one channel

`rec` is the channel record with its vouchers, `op` the running calls: each takes
a lock, reads, may push a message and writes the record back. Accessors are
cached by the pair (from, to), and an inbound channel is reached as
Target->Control by AddVoucherInbound and as Control->Target by all others: two
locks for one record. `dropped` collects the vouchers that a save under the
other lock has undone; the properties say that nothing else loses one. SettlerRedeems,
too, is claimed only while nothing was dropped: the submission of a
voucher that was dropped in between marks all stored ones of lower nonces as
submitted, whatever they are worth, and the settler then skips them.

### Retrieval: `retrievalprovider`, one retrieval

`rd` is the deal record; four goroutines (`pull`, `pay`, `event`, `unseal`) hold a
copy each in `rmem`, which they save whole. `xfer` is the data transfer: up to
`Queued` blocks follow a pause. A client pays early, late, in parts or twice.
A save over a record that has changed since it was read, and a transfer resumed
on such a copy, is recorded as `stale`, a payment that is processed before the
Accept event as `early`. BoundedExposure bounds the blocks sent by the interval and
the `Queued` blocks, if these are less than an interval: with more, the blocks
queued at one pause already fill the next interval, and the provider
has sent two of them by the time it looks at the record.

### Blockstore and AbstractBlockstore: `blockstore/badger`, `idstore.go`

Blockstore follows lockDB, unlockDB, the calls of several goroutines (a Put
writes `db` and then `dbNext`), movingGC step by step (wait for moveState, open
dbNext, wait for readers, stream a snapshot, swap, rename, symlink, clean up),
Close and a reopening after a crash at any step. AbstractBlockstore is a plain
set of blocks on which a call takes effect once between its start and its
return. `ImplementsAbstractStore` is the refinement: `blocks` is `db`, `moving`
is `dbNext # None`, a caller that waits for the lock has been `called` and one
between its two writes has `applied`. Two allowances were needed to make it true:
blocks deleted (or put with an error) during a move are in `limbo` and may
reappear, since the stream can write them after the delete; and a crash between
the swap and the symlink opens the old database (`backup`), without the writes
made since, or an empty one.

### DealAssign: `deal_assigner.go`, `deal_assign_util.go`

`rec` are the stored deals, `req` the running AssignUnPackedDeals per sector with
the deals it read, the layout and the saves still to do, `edit` a goroutine that
reads a deal, changes it and saves it (publication, failure, MarkDealsAsPacking,
UpdateDealOnPacking, UpdateDealStatus, tracker). With badger every save is seen at once and stays
after an error; with MySQL they commit together over a snapshot.

`pickAndAlign` is an operator. `Sorted` are the orders that sort.Slice may produce (it
is not stable, so deals that tie come in any order), `PlaceDeals` is the loop over one
of them, and `Fillers` the bits that nextAlignedPiece and fillersFromRem take, from the
lowest to bit `MaxBit`. Sizes are powers of two in units of 128 bytes, and
a deal's offset is summed unpadded and padded again. `FillsSector` is what pickAndAlign
must compute, independent of how: the pieces fill the sector exactly, each is aligned
to its size, each deal is there once at the offset recorded for it, the limits of
the request are kept, and no deal is left out that would have fitted behind the last.
SectorFilled says this of every layout that a sealer gets.

### PieceServing: `piecestorage`, `dagstore`, `rpc/piece.go`, `utils`

One piece. A file is its length, so a read of a copy in progress, the padding of
AlgnZeroMountReader and a short read from S3 can be told from a good one by
positions. `shard`, `results` and `recovers` are the library's DAG store as the
wrapper uses it; LoadShard, MigrateDeals and the failure loop wait for it.

### SectorEvents: `ondealsectorcommitted.go`, `currentdealinfo.go`, `client.go`

`chain` is a sequence of tipsets that a reorganisation may replace at its end
(the publish message included, so that the deal id changes). `pre`, `com`, `end`
are the registered watchers with their next height; checks at registration look
at the head, handlers at a tipset that is `Confidence` deep.

### DealStores: `models/badger`, `models/mysql`

Every operation is applied to both stores; `Badger...` and `Mysql...` operators are
the two versions of each query. A MySQL row has columns for pointers, so a record
passes its `from...` and `to...` conversions. `repository` picks the repository a
behaviour works on. A page is a set of records by rank in the order of keys
(`PageOf`), and two lists agree when their pages together do. StorageAskSetAsk is
the provider's SetAsk on top of the ask repository: it signs a new ask under the
sequence number of the stored one, which never grows.

### ClientImports and ClientRetrieval: `imports`, `client`, `client_blockstore.go`

ClientImports has the import records and CAR files, imports of four kinds cut at
every access to the datastore or a file, removal, and the accessor with its map
of open stores and their users. ClientRetrieval has the deals, the library's
publisher, which calls its subscribers in turn, and the callers that wait, cancel
and listen. `UnsubscribeWaits` is a choice about the library: whether
unsubscribing waits for the event that is being published. With TRUE,
RetrieveWaitsEnd fails: the wait at `client.go:842` unsubscribes while its callback is
blocked on the channel that only the wait reads. With FALSE, the library's behaviour, it holds.

### Messaging: `minermgr`, `address_select.go`, `api/clients`, `provider.go`

How a publish message finds its sender and its fate. `users` is the list of the
miner manager and `lister` the goroutine that extends it address by address: the
configured users, then the first page of venus-auth's enabled users, at the start
and at every tick; one failing query ends the pass. `pool` says whether messages go
through venus-messager, under the account of the sender, or to a daemon, with a
nonce that AssignNonce asks for. Its lock covers the query only: two pushes from one
sender that overlap get one nonce, and the pool refuses the second, although the
comment there says that "when only connect one daemon, MpoolGetNonce works well".
`sending` are the callers, `mpool` the messages: a message moves from the messager
to the chain, gets deeper, and may leave the chain again while it is at most `Deep`
below the head. `pickAddress` and `maybeUseAddress` are operators; BestSender states
what they must return for every answer of node and wallet (`Views`; a multisig has
no key of its own). RefusedForCause excuses a sender without an account only when
the list of users is not `Current`: something has changed since it was read, the
sender has stopped being an address of the miner, or venus-auth does not show the
miner.

### Conventions

- MCPayments, MCStores and MCClient each extend several components that share no
  state. Their variable `part` says which one a behaviour moves; the others stay
  in one initial state. So a run explores the sum of the components, not their
  product.

- A history variable `faults` collects the failures that a property has to
  excuse (`dropped`, `raced`, `reset`, `rfaults`, `limbo` in the later modules).
  Each property lists the failures that break it, so that it also
  documents which failures the code does not survive; all others may happen.
- Operators `Mutant...` precede a definition and change it the way a plausible
  bug would. No specification uses them. `PROJECT.json` pairs each with the
  property that must catch it.
- `CHECK_DEADLOCK FALSE` is set in every cfg: when every request has been
  answered and the process is up the system rests, and the bounds end the runs.

## 3. Runs

| run | instance | properties |
|---|---|---|
| `fund_manager` | two reservations, a release, a withdrawal, two wallets, amounts 1 and 2, one crash; cancelled callers, failing queries, AddFunds pushes, waits and messages | TypeOK, ReservedCoversGranted, CallersAreCovered, OneMessageInFlight, ReservedIsBacked |
| `fund_manager_live` | a reservation, a release, two withdrawals; a store that honours dead contexts, failing pushes of withdrawals, Stop, funds locked by others | EveryRequestAnswered |
| `fund_manager_panic` | failing push of a batch of withdrawals | NoPanic **is violated** |
| `fund_manager_kept` | WaitMsg fails | ReservedIsKept **is violated** |
| `deal_publisher` | three deals, two per message, one forced publication; cancelled callers, an expired deal, node failures, shutdown | TypeOK, MessageWithinLimit, PublishedOnce, ResultMatchesMessage, OneTimerArmed, TimerServesQueue |
| `deal_publisher_timer` | all queued deals cancelled before the next | EveryDealPublished **is violated** |
| `storage_deal` | an online, offline or imported deal, a repeated proposal, one channel, one import, two assigner calls, every call may fail, two crashes, three publish messages | TypeOK, CollateralAccounted, PendingPublishBacked, PublishedOnce, ChainDealNotFailed, StateFollowsChain, SectorRecorded, NeverBack, DealResolved |
| `storage_deal_propose` | two overlapping streams | ProposalKeepsDeal **is violated** |
| `storage_deal_import` | an import for a deal that is past its data | ImportKeepsPublished **is violated** |
| `payments_retrieval` | funds: two requests of 1 and 2, three messages, a crash, cancelled callers, failing waits and messages. Vouchers: inbound and outbound, three calls and the settler, two lanes, nonces and amounts, a balance of 3, a crash. Retrieval: four blocks, interval 2, unsealing price 1, one block after a pause, one resent voucher, failing loads, saves, transfers and cancellations | ChargedOnce, ConfirmedIsOnChain, AcceptedVoucherKept, VouchersCovered, SettlerRedeems, BoundedExposure, FundsCounted, RequestsAnswered, RetrievalFinishes |
| `provider_stores` | blockstore: one stored and one inline block, two callers, three calls, one move, one fault or crash. Assigner: three deals of sizes 1, 2, 4, two sectors of size 8 (`MaxBit = 3`), three request specifications, one concurrent editor, one failing save, both stores. Pieces: a file system storage on another device and S3, one save, two loads, one fault | ImplementsAbstractStore, PackedOnce, SectorFilled, PieceServed, CallsReturn (StoreCallsReturn and DagCallsEnd) |
| `client_and_repositories` | sector: two sectors, confidence 2, height 8, three messages, one reorganisation, one failing query. Stores: three deals of two miners, pieces and payloads, one without a peer, all six repositories. Imports: one root, two imports of four kinds, two readers, one fault or restart. Retrieval: one deal, two waits, a listener, a cancellation. Messages: one miner with two workers, two control addresses and a multisig owner, one configured and one listed user, two callers on a daemon or one on venus-messager, depth 1, one refresh, one fault, one change of worker, users or chain | SectorReported, StoresAgree, ImportServed, MessageSent (BestSender, RefusedForCause, FateFinal), WaitsEnd (SectorAnswered, RetrieveWaitsEnd, SendingsEnd) |

Why the bounds are enough. Netting and batching in the fund manager distinguish a
covered reservation, one of the batch's wallet and one of another wallet: two
reservations, two wallets and a release give all of them, and amounts 1 and 2
both a covering and a partial release. With up to four messages a message of
each request, and one after an abandoned message, fits. In the publisher three
deals with two per message fill the queue and leave one for a second period, and
a timer of the first period can meet a queue of the second. A deal's record is
independent of other deals, so one deal is enough; two crashes allow a crash
while the restart of the first is at work; three messages allow a lost message
after each.

For the later runs: two requests with three messages give a message with both, a
message each, and one after a failed creation. Two accessors are in conflict as soon
as two calls overlap, and the third lets the settler meet both. Four blocks with an
interval of two fill two intervals, a payment can cover none, some or all of one,
and the block after a pause is less than an interval. The blockstore treats every
key alike, so one key and one move reach every position of a call in a move; a crash
ends it. Deals of three sizes leave gaps before and after each and do not fill the
sector, and two sectors compete for them. A reorganisation as deep as the confidence
can replace every message that a handler must not have acted on, and the height
leaves room for the timeout and its confidence. Two imports of one root are what can
share an open store. Two callers are what can share a nonce; under venus-messager
callers do not meet, so one is enough (`MaxPooled`).

What the passing runs do not claim. The code has overlaps and failures that its
own authors leave open, and a property excuses exactly these: a voucher saved
under the other accessor's lock; a retrieval record saved over a newer one, or a
voucher sent twice, which moves the payment interval past the data; a deal that
another writer saved while it was being assigned (the comment "TODO: is this
concurrent safe?", `deal_assigner.go:198`); a piece read while `mv` copies it; a
short read from S3 that AlgnZeroMountReader fills with zeros; a check of the head
that a reorganisation undoes; a watcher registered after its timeout; a push that
is refused because its nonce was taken by an overlapping one, or because the list
of users is older than the miner's worker, was cut short by a failing query, or
has the miner beyond the first page of venus-auth's answer (200 users). StoresAgree
leaves out a filter with an empty list of statuses (nothing in badger, everything
in MySQL), rows without a peer (MySQL cannot read them), byte labels that are
UTF-8 (MySQL returns strings), the further pieces of a payload in MySQL's
GetCIDInfo, and page boundaries. In StoresAgree an empty list and ErrNotFound
are the same answer, though callers such as `piecestore.go:57` treat them
differently.

Findings. The violation runs are disagreements of the code with its own comments:
a withdrawal may be completed twice and panic (`fundmanager.go:498`); an error of
WaitMsg lets a second withdrawal take reserved funds (`fundmanager.go:590`); a
deal that arrives after all queued deals were cancelled gets no timer
(`dealpublisher.go:242`); two streams with one proposal overwrite an accepted deal
(`stream.go:162`); ImportDataForDeal compares enumeration numbers that do not
follow the deal's progress (`storageprovider.go:253`). Each is described in
`PROJECT.json`.

Fairness. Weak fairness of a goroutine's steps is what the Go scheduler and a
fair mutex give. The chain is fair: a pushed message is executed or fails in the
end, which is what WaitMsg relies on. Timers fire. `Start` is fair in StorageDeal:
DealResolved is about a provider that is restarted. In the later modules weak
fairness is on one action per component, `...Progress`: the steps of goroutines
that are under way, answers of the chain, the library's publisher and its shard
results. The bounds make every behaviour finite, so this one condition is as
strong as one for each step. Of callers only two things are assumed: the client
of RetrievalFinishes pays for what it has received, and the consumer of
retrieval updates keeps reading until it leaves. Nobody has to propose,
transfer, import, assign or withdraw. DealResolved is given up once a save has
failed, since the next state then exists only in memory.

## 4. Proofs

TLAPS proves the following for every value of the constants that satisfies the
named assumptions of its module. These say that bounds, prices and amounts are
natural numbers (limits and sizes positive), that the names of different kinds of
actors and requests are different, that sets of deals or callers which are
counted or summed over are finite (requests, calls, lanes, deals, control
addresses), that piece and sector sizes are powers of two, that a worker is a key and no
multisig, that a deadline is before the end of the modelled chain, and that the
values standing for "none" (`None`, `NoDeal`, `Missing`, nil pointers and empty
columns) are not also a deal, a stream, a set of keys, an address or a root. The
bounds are parameters, so they do not weaken the theorems. Each strengthened invariant was
checked by TLC on a small instance before it was proved.

`FundManagerProofs`: `TypeCorrect`, `LedgerCorrect` (ReservedCoversGranted),
`OneMessage` (OneMessageInFlight), `ReservedStays` (ReservedIsBacked),
`CallersCovered` (CallersAreCovered). None is inductive alone. `IInv` adds

- `ControlInv`: while the lock is held for the queues nothing is in flight, the
  only waiting goroutine waits for the message of the state, and locals are fresh
  when nobody holds the lock;
- `LedgerInv`: the running totals of splitReservations equal the amounts counted
  so far, and store and memory agree unless a save was lost;
- `MsgInv`: a pending message that is not abandoned is the one in flight;
- `BackingInv`: what the balance covers at every step of `process`, such as that
  the amount about to be added is exactly what the new reserved amount lacks.

Of these ReservedCoversGranted needs LedgerInv because the new amount is decided
several steps before it is saved, and ReservedIsBacked needs ControlInv and
BackingInv because a withdrawal's allowance is computed from a balance read
earlier. CallersAreCovered is about what callers have heard, which differs from what
was granted while they wait: `TellInv` adds that requests that wait or are batched have
not been answered, that the count kept by sumReleases and splitReservations is at
least what the callers in line will be told, and that `owed` is at least what
callers were told.

`DealPublisherProofs`: `TypeCorrect`, `LimitRespected` (MessageWithinLimit),
`NeverPublishedTwice` (PublishedOnce), `ResultsTrue` (ResultMatchesMessage),
`OneTimer` (OneTimerArmed). `IInv` adds `TimerInv` (an armed timer is the one that
can be cancelled, and a period has been started whenever there is one to cancel),
`PlaceInv` (the queue, the batches and the messages are disjoint, and a deal that
has not called Publish is in none of them), `SizeInv` (the queue is shorter than the
limit between calls, so a batch never exceeds it) and `ResultInv` (a result says
what the messages say). PublishedOnce rests on PlaceInv: that a deal leaves one
place when it enters the next is the whole argument.

`StorageDealProofs`: `TypeCorrect` (TypeOK) for every set of actors, channels and
overlaps. The others hold under `Sequential`, no overlaps (`Races = {}`) and at
most one transfer channel, and everything else the environment does stays free:
repeated proposals, failures of every call, crashes, restarts, the tracker and the
chain. `CollateralCorrect` (CollateralAccounted), `PendingBacked`
(PendingPublishBacked), `OnePublication` (PublishedOnce), `ChainDealKept`
(ChainDealNotFailed), `RecordFollowsChain` (StateFollowsChain), `SectorKept`
(SectorRecorded) and `DealNeverBack` (NeverBack, an action property). The
hypothesis is needed: nothing locks a deal, and the runs `storage_deal_propose` and
`storage_deal_import` show what overlaps do to it. The properties compare the
stored record with the outside world, but between two saves it is a handler's copy
that is right. So `IInv` says

- where a handler can be and what its copy then has to do with the stored record
  (`Place`), and that a handler at work is alone but for the tracker, which only
  follows deals that have been handed off;
- what the state of a record says of its other fields and of the chain (`Sound`),
  for the stored record and for every copy that will be saved;
- that the collateral, the pending message, the number of messages and the fate of
  a failed deal agree with the copy of the handler at work, or with the stored
  record when there is none (`Account`), each for the faults its property excuses.

`PaychProofs`: `FundsChargedOnce` (ChargedOnce), `FundsConfirmed` (ConfirmedIsOnChain),
`VoucherKept` (AcceptedVoucherKept), `StoredVouchersCovered` (VouchersCovered),
`SettlerRedeemsAll` (SettlerRedeems).

- `FundsInv` follows a request from the queue into the merged request and into a
  message. The queue holds nothing that is paid for, except between the push and the
  save of the merged request, when what is paid for is the last message; the step that
  gives its callers the cid also empties the queue.
- `ConfirmInv` keeps for every channel the set of messages that its amount was raised
  by: executed deposits into this channel. Each was the pending message of the record,
  and is no longer once it is counted, so the sum over them is what is on chain.
- `VoucherInv` says what the locks give: a call holds one exactly while it is about to
  save, never two calls the same one, and on an outbound channel the copy about to be
  saved has all stored vouchers. That is where one lock per record is used; inbound
  channels have two.
- `CoverInv` says that on a lane a higher nonce is worth more, in the record and in
  every copy, so that the best vouchers are those of the highest nonces and their sum is
  what the channel owes; and that what is marked as submitted has a message worth as much
  on its lane.

`RetrievalProofs`: `FundsAreCounted` (FundsCounted), `ExposureIsBounded`
(BoundedExposure). In `RetrievalInv` only the goroutine that takes payments holds funds
it did not read (`OthersKeepFunds`), so a whole-record save by another goroutine changes
them only if it is stale; and a payment about to be saved makes the funds what the
vouchers say (`PaymentExact`). `ExposureInv` has two halves. `PaidForReceived` holds
whatever happens: an interval moves only for funds, and funds come from vouchers.
`Core` holds in orderly histories: a transfer that runs has not filled its interval, one
that is paused ends within the blocks queued behind it, and nothing is sent before the
data is unsealed.

`StoresProofs`: `StoreTypeCorrect`, and `StoreRefines`: BlockstoreSpec implements
AbstractBlockstore, with one lemma per action on the step it maps to. `AbsPhase`,
`absCall` and `absBackup` are the refinement mapping. The step that needs an
argument is the swap of the databases. `StoreInv` says that the copy holds nothing
but what is stored or in limbo (`CopyHoldsOnly`), and that from the snapshot on all
that is stored is in limbo, in the copy, still in the snapshot, or about to be added
by a writer between its two databases (`CopyMisses`). The swap has the lock to
itself, so there is no such writer.

`PieceIsServed` (PieceServed): `ServingInv` explains every byte of a reader by the length
that the reader found when it opened the file and by inner reads that came back short.

`DealsPackedOnce` (PackedOnce): `PackInv` says that a layout has only deals that were free
when its call read them, that a deal which did not race is the same in a call's copy
and in the store, and that no two calls or sealers share one.

`SectorsAreFilled` (SectorFilled): the bits of the space below a size make up its
remainder by that size (`FillersFill`), so zero pieces bring the layout to the next
multiple. `LoopAt` holds after each turn of pickAndAlign: what is laid out continues
without a gap and aligned (`LaidOut`), has exactly the first deals of the order (`Holds`),
and the loop has stopped only for a limit or a deal that does not fit (`Stopped`);
since the order is by size, no later deal fits either. `CallsFill` keeps this from the
layout to the sealer, whatever is saved in between.

`ClientProofs`: `ImportsAreServed` (ImportServed). `ImportsInv` has a writer's
half, that imports never share an id and that a record carries its root's label only
when the CAR it leads to is whole or removed; and a reader's half, that an entry of
the accessor's map is never counted up or down, because `client_blockstore.go`
counts on a copy of it, so that a store once opened is never closed.

`StoresAlike` (StoresAgree): `StoresInv` pairs the records of each table, each row of MySQL
the conversion of badger's record. Each conversion keeps the fields that queries select
by and can be undone, and the pages of a list together are the list.

`MessagesAreSent` (MessageSent): `AfterTries` says what the loop of pickAddress keeps, the
first candidate that can pay and sign or else the richest of the others; `ListInv` that a
complete list has all addresses of the miner, and a pass that nothing has overtaken will
have; `SendInv` that the nonces of a sender leave no gap, so that a refused one belongs to
another push, and that a reported fate is final.

`SectorReportsHold` (SectorReported): in `SectorInv` every report is said by the part of the
chain that no reorganisation reaches (`Reports`), or, for checks of the head, by the chain
while nothing has been reorganised (`Untouched`); both need that ids of the deal stay the
same along a chain (`ChainMade`).

`SumLemmas` has the laws of SumFunctionOnSet that the proofs about amounts and layouts
cite. Sums are folds, and pickAddress, pickAndAlign, Fillers, Pow2 and
getMinerFromVenusAuth are loops; what they compute is shown by the least counterexample:
the set of counts or subsets for which the claim fails has a least element
(`LeastNatural`), and the equation of the fold or loop leads from one below it to a
contradiction. So no induction theorem with an operator as parameter is needed.

All invariants that the passing runs check are proved. Only model-checked, and why:

- The StorageDeal invariants with overlaps or with several channels, where they fail.
- The type predicates of the modules whose invariants are proved without them
  (PaychFunds, Retrieval, DealAssign and others): no run checks these either. In Retrieval
  a voucher that is sent again moves the interval past the data.
- All liveness (EveryRequestAnswered, TimerServesQueue, DealResolved,
  RequestsAnswered, RetrievalFinishes, CallsReturn, WaitsEnd), which is out of the
  prover's reach. ClientRetrieval has only such a property (RetrieveWaitsEnd), and so
  no theorem.

Two statements changed because their proofs failed for a good reason. SettlerRedeems
was false with four calls, one more than the run has (a voucher dropped between
its submission and the save), and BoundedExposure when the blocks queued at a pause are
not less than an interval, or when a transfer is resumed on a stale copy.

No module uses a RECURSIVE operator.

## 5. Not modelled, and the plan

Not modelled because nothing interleaves or it is I/O: API, RPC, CLI and
configuration, which forward. Of the message client: the client's push under its own
token, SearchMsg and the getters, each of which forwards one query. Of the client:
exports, queries, listings and stateless deals. Of the provider: ask and status
streams, retrieval queries and the lookup of the piece with the best deal,
AddStorageCollateral. Of the assigner GetDeals and GetUnPackedDeals, which only read
(the latter returns one piece fewer than MaxPiece, `deal_assigner.go:164`). Of the
storages: multipart uploads to S3. Addresses, deals, channels and pieces that share
nothing are represented by one or a few.

Known hazards without a property are listed in `PROJECT.json` with the reason:
that the code makes no promise there (a crash after the client was told that its
deal is accepted, `deal_handler.go:229`), or that the effect depends on a library (a
crash while the completion of a transfer is handled, `datatransfer_handler.go:38`).

What could come next: the StorageDeal invariants for several transfer channels under
the condition that their events do not overlap, and an abstract specification of a deal's
life that StorageDeal implements under `Sequential`.
