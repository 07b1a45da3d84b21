# Taquito: a TLA+ verification project

TLA+ models of the core logic of the Taquito SDK (`src/packages`), their TLC
configurations, and theorems about them that TLAPS checks. Taquito is a
TypeScript library: it runs in one event loop, so nothing is preempted, but
every `await`, every timer and every RxJS subscription is a point at which
something else runs. What is hard in it is what happens between those points:
the chain moves, other operations use the same streams, timers fire, requests
fail or answer late.

Paths below are relative to `src/`; `taquito/` stands for
`packages/taquito/src/`.

## 1. The system

### Components, their state and their operations

| Component | Source | State | Operations |
| --- | --- | --- | --- |
| RPC client | `packages/taquito-rpc/src/taquito-rpc.ts` | none | one request per method |
| RPC cache | `packages/taquito-rpc/src/rpc-client-modules/rpc-cache.ts` | `_cache`: key to promise and timer handle | every getter (has / get / put), timers, `deleteAllCachedData` |
| Head stream | `taquito/subscribe/polling-subcribe-provider.ts` | `newBlock$`: timer, request, last hash, subscriber count, one Subject per toolkit | `subscribeBlock` and its siblings |
| Subscriptions | `taquito/subscribe/observable-subscription.ts` | three lists of listeners | `on`, `off`, `close`, dispatch |
| Wallet operations | `taquito/wallet/operation.ts`, `operation-factory.ts` | replay subjects, `lastHead`, `_includedInBlock` | `confirmationObservable`, `confirmation`, `getCurrentConfirmation`, `isInCurrentBranch`, `receipt` |
| Contract operations | `taquito/operations/operations.ts` | `_pollingConfig$`, `lastHead`, `_foundAt`, two `shareReplay` streams | `confirmation` |
| Sending | `taquito/contract/rpc-contract-provider.ts`, `taquito/batch/rpc-batch-provider.ts`, `taquito/estimate/rpc-estimate-provider.ts`, `taquito/operations/operation-emitter.ts` | none of its own; the local state of each call between its awaits | `transfer`, `send` of a batch, estimates, the other operations |
| Prepare | `taquito/prepare/prepare-provider.ts` | `#counters` | one prepare per kind of operation, `batch`, `toPreapply`, `toForge` |
| Wallet API | `taquito/wallet/wallet.ts` | cached public key hash | commands, `batch`, `pkh` |
| Context, toolkit | `taquito/context.ts`, `taquito/taquito.ts` | the providers | `set*Provider`, `clone` |
| Contract abstraction | `taquito/contract/` | the script and entrypoints | methods, views, big maps |
| Read provider, forgers, injector, parser, packers | `taquito/read-provider`, `forger`, `injector`, `parser`, `packer` | none | one call each |
| Signers | `packages/taquito-signer`, `taquito-remote-signer`, `taquito-ledger-signer` | keys; the ledger caches its public key | `sign`, `publicKey`, ... |
| Beacon wallet | `packages/taquito-beacon-wallet` | the client of the Beacon SDK | permissions, `sendOperations` |
| Sapling | `packages/taquito-sapling` | keys, cached viewer, chain id | `prepare*Transaction`, balance, incoming and outgoing |
| Contracts library | `packages/taquito-contracts-library` | address to script and entrypoints | `addContract`, read wrapper |
| HTTP backend | `packages/taquito-http-utils` | none | `createRequest` |
| Codecs | `packages/taquito-local-forging`, `taquito-michel-codec`, `taquito-michelson-encoder`, `taquito-utils` | none (`MichelsonMap` is a container) | encode, decode, parse, check |
| Metadata | `packages/taquito-tzip12`, `taquito-tzip16` | a lazily created metadata object | `getMetadata`, views |

### How they interact

A user calls the toolkit. A send reads the account through the read provider
(one RPC request per read, which the RPC cache may answer), estimates, prepares,
forges, signs, preapplies and injects, and returns an operation object. That
object subscribes to the head stream, which is one per toolkit and shared by all
operations and subscriptions through `publish()` and `refCount()`, and answers
`confirmation(n)` from it. The wallet API leaves the send to a wallet (Beacon)
and follows the operation by its hash in the same way.

### What is hard, and the properties that matter

* **Confirmation tracking.** Polls skip levels, newer heads interrupt the filling
  of a gap, streams are disconnected and connected again, replays hand over old
  heads, requests fail, timeouts expire, the chain is reorganised. Correct means:
  no block between the first one scanned and the last head is left unscanned; a
  call resolves only when the operation is as deep as asked; events count
  confirmations one by one; what waits is subscribed and what is subscribed waits;
  nobody waits for ever; a deep operation is answered.
* **Branch queries.** Each reads the node twice. Correct means: the answer is the
  truth at the second read, and without reorganisations never a denial.
* **RPC cache.** A promise is shared before it settles, and timers are not tied to
  the entry they were armed for. Correct means: no entry stays for ever, nobody is
  served anything older than the ttl, failures are forgotten, a key is requested
  at most once per ttl, everybody is answered.
* **Sending.** The revealed status is read twice, the counter up to three times,
  each at whatever the head is. Correct means: a send left alone goes through,
  concurrent sends cannot all fail each other, every operation gets the limits
  estimated for it.
* **Prepare.** One field of the provider is cleared, an await later it is used, and
  other prepares run in between. Correct means: what is prepared alone is accepted,
  and what is prepared together leaves no counter unused.
* **Subscriptions.** Listeners register, remove and close while they are called.
  Correct means: whoever is registered throughout a dispatch is called as often as it
  is registered, and the end of a subscription is final.
* **Ledger.** A message goes to a device in chunks, with an await in between and no
  lock. Correct means: a signature is that of the message that was given.
* **Sapling.** A transaction is made from three reads of a pool that grows; its
  proofs come from a tree of which only the left part exists. Correct means: no
  token appears or is lost, only a change of the pool makes a transaction invalid,
  and every witness leads to the root.
* **Toolkit.** Providers are bound to nodes or to contexts, setters run in an order,
  and operations keep copies. Correct means: what was given stays, and what was not
  given agrees on one node.
* **Wallet accounts, metadata, big maps.** A value is kept (the public key hash, the
  code of a view, the level of a read) and used after what it was made from has
  changed. Correct means: it is used for what it was made for, or the change is
  what explains the difference.
* **Arithmetic and codecs.** Fees and limits of many operations add up from rounded
  shares; numbers, lengths and lists of annotations must be parsed the way they were
  forged; fields without names are numbered. Correct means: the node's minimum is
  met, blocks are not exceeded, and everything is read back as it was.

## 2. Modules

| Module | Models |
| --- | --- |
| `BlockChain` | the node (external): a branch that grows at its head and is reorganised, one operation that may be included |
| `HeadPoller` | `newBlock$` of `PollingSubscribeProvider`, extends `BlockChain` |
| `WalletOperation` | one `WalletOperation` with its factory, extends `HeadPoller` |
| `WalletBranch` | `getCurrentConfirmation` and `isInCurrentBranch`, extends `WalletOperation` |
| `ContractOperation` | one `Operation` of the contract API, extends `HeadPoller` |
| `ConfirmationPromise` | abstract: what `confirmation(n)` promises |
| `WalletOperationPromise` | the refinement of `ConfirmationPromise` by `WalletOperation` |
| `RpcClientCache` | the cache decorator |
| `ManagerAccount` | the account and the mempool of the node (external) |
| `SendOperation` | the sends of the contract API, extends `ManagerAccount` |
| `PrepareProvider` | the prepares of one toolkit, extends `ManagerAccount` |
| `ObservableSubscription` | the listeners of a subscription, their dispatches, `close` and `retry` |
| `LedgerSigner` | `sign` and `publicKey` of the Ledger signer, with the device (external) |
| `SaplingTransaction` | the three kinds of sapling transactions over a pool that grows |
| `SaplingTree` | the Merkle tree of the sapling state and the witnesses that `getWitness` makes from it |
| `MetadataViews` | the metadata of a contract and the off-chain views of TZIP-16 |
| `ToolkitContext` | `TezosToolkit` and `Context`: setters, default providers, copies |
| `WalletAccount` | the cached public key hash, the commands and the Beacon wallet |
| `BigMapReads` | the reads of one or many keys of a big map |
| `Estimates` | fees and gas limits of an operation or a batch |
| `Sums` | sums over a set, of the notes and of the fees, and powers of two |
| `ForgedNumbers` | the bytes of amounts and of signed integers, both ways |
| `MichelineForging` | forging and parsing of values and parameters, with those numbers |
| `MichelsonFields` | the names of fields and branches in the Michelson encoder |
| `MC_Components` | composes the modules from `SendOperation` on that share no state |
| `MC_Confirmations`, `MC_Promises` | an operation of the wallet API or one of the contract API: the safety properties, and the refinements |
| `MC_Answers` | the cache, or an operation of the wallet API without faults: the liveness properties |
| `*_proofs` | theorems about the module of that name; those of `Components_proofs` are about the modules that `MC_Components` composes |
| the other `MC_*` | the constants of a run |

Definitions named `X_Something` beside a definition `X`, with a comment that
begins with "Mutated", are plausible mistakes in the code; no specification uses
them. They show that a property can be violated.

### Head stream

`timer$ -> switchMap(getLastBlock) -> distinctUntilKeyChanged('hash') ->
publish() -> refCount()`. `poller.state` tells where the request is: nobody
subscribed, between two ticks, request on its way, answer on its way. `Tick` is
the timer (it gives a request up, as `switchMap` does, but only one that was
served; giving up an unserved one changes nothing that could be seen), `Serve` is
the node's reading of its head, `Delivered` the arrival. `Shared` is `refCount`:
connecting forgets the last hash. `Killed` is an error: the Subject inside
`publish()` is then dead for the whole toolkit. `OtherSubscriber` stands for all
other operations of the toolkit, which may keep the stream connected.

### Wallet operations

`op` is the operation: `source` is where `newHead$` is connected to, `replay` and
`lastHead` are what the two `publishReplay(1)` subjects hold, `fill` and `target`
the gap under way, `watching` the subscription of `confirmed$`, `found` the
inclusion, `calls` the callers. RxJS passes a value to all subscribers in one
synchronous cascade, so an asynchronous event is one action, and the cascade is a
composition of functions on the record `op`:

| Definition | Code |
| --- | --- |
| `Receive`, `Emit`, `Include`, `Notify` | the gap filling, `newHead$`, `confirmed$` and the `combineLatest` of a call, in the order of subscription |
| `Connect`, `ConnectHeads`, `Settle`, `Broken` | `refCount` of `newHead$`, the head stream of the factory, an error of the source |
| `CreateOperation` | `OperationFactory.createOperation` and the constructor |
| `PollTick`, `PollServed`, `PollDelivered`, `PollFails` | the shared stream and what the operation does with a head or an error |
| `PastServed`, `PastFails` | `createPastBlockWalker`, when a start block is configured |
| `GapServed`, `GapFails` | `getBlock(level)` of the gap |
| `TimeoutExpires` | `timeoutAfter` |
| `Confirmation`, `ConfirmationInvalid` | `confirmationObservable(n)` |

One point deserves a comment. If the shared stream is already dead when an
operation connects to it, the error is emitted synchronously, while
`subscribeBlock` constructs the subscription and before
`createObservableFromSubscription` has registered its listener. The error is
lost and the operation follows a stream that never says anything. Only the
timeout ends its calls; the model has exactly this (`ConnectHeads` does not look
at `poller.dead`, `Shared` does not poll).

`WalletBranch` adds the one query under way: `AskBranch` reads the tip,
`AnswerAtOrBelow` and `AnswerFromLiveBlocks` answer later, `CurrentConfirmation`
reads the head. Between the two the chain and the streams go on.

### Contract operations

The same head stream, but two `shareReplay({refCount: true})` streams, nothing
polled before the first call, and a restart of timer and stream by every call
(`Restarted`). A call waits for `confirmed$` and then follows `currentHead$`,
which replays all the heads it holds (`heads`).

### The promise

`ConfirmationPromise` says what a caller of either API may rely on: a call
resolves only when the operation is deep enough, an answer is final, a failure
of the stream leaves nobody waiting, and in the end everybody has an answer. Both detailed modules are checked to
implement it on a chain that is not reorganised: `height` is `top`, `included` is
the level that includes the operation, `promise` the state of each call.

### RPC cache

A put has one identity for its request, its promise and its timer. `cache` maps a
key to the put it holds, `armed` is the set of timers not fired. `Call` is any of
the getters (they are the same up to the request): `Hit` or `Miss`. `TimerFires`
removes whatever its key holds at that moment, as `remove` does. `DeleteAll`
leaves the timers armed, as the code does. Time is discrete; `Slack` bounds how
late the event loop runs a timer. The value of an answer is the instant the node
computed it.

### Sending

`send[s]` is what one call of `transfer()` or of `send()` of a batch knows, and
`pc` what it awaits. A read and its use are different actions:

| Action | Code |
| --- | --- |
| `Begin` | the call; a transfer with fee, gas and storage limit is not estimated |
| `ReadRevealed` | `isRevealOpNeeded` of the estimator |
| `ReadCounter` | `prepareOperation`: of the estimate, of the reveal's estimate, of the operation |
| `Simulate` | `prepareEstimate` at the head |
| `ReadRevealedAgain` | `addRevealOperationIfNeeded` of a transfer, the second `isRevealOpNeeded` of a batch |
| `SimulateReveal` | the estimate of the reveal by itself |
| `Preapply`, `Inject` | `signAndInject` |
| `RequestFails` | a failing request or signer |
| `AccountStep` | a block that includes an operation of the account, the toolkit's or another client's |

An estimate is known by the operation it was made for (0 for the reveal), and
limits by the estimate they come from: the numbers are abstracted. Estimates of
another operation may or may not suffice, so `Preapply` may go either way. The
batch is one whose operations have no limits of their own.

### Prepare

`counters` is the field `#counters`, `prepare[p]` what one call knows. The methods
of the provider are told apart by what they await (`Kinds`): eleven of them estimate
one operation, `batch` several, `reveal` refuses an account that is revealed,
`contractCall` asks for its estimate last and adds no reveal, votes and a drained
delegate have no counter or no estimate. `RevealAdded` and `RevealLeads` are the two ways in which
a reveal comes in front, `ClearCounters` is the reset, an await later `ConstructContents`
takes the counters.

### Subscriptions

`listening` holds the three arrays, `dispatches` the calls of `call()` under way, the
innermost last: a listener may call `on`, `off` or `close` while it is called, and
`close` dispatches at once. The iterator of a live array goes by the index, so that
`Off` shifts what is behind the removed listener.

### Ledger

`device` is what the device holds of a message, `transport` the request under way. A
busy transport makes a call wait or throws. The first request of a signature has the
path and begins a session; nothing tells the device which call a chunk belongs to.
The property therefore speaks of signatures that no other request interrupted
(`alone`); two at once do get mixed up, and the code has no lock against it.

### Sapling

`SaplingTransaction` has one step per read (`ReadRoot`, `ReadNotes`, `ReadTree`), the
selection of notes, the outputs with the change, and what the contract accepts
(external). `SaplingTree` takes hashes as terms: two are equal exactly if they are
made from the same, so that a wrong padding or sibling shows. The recursion of
`constructMerkleTree` is a function of the height (`Row`), that of
`getNeighbouringHashes` one of its depth (`Descent`). `GetWitness` turns the hashes
around, since sapling reads a witness from the root down; their serialisation is left
out. TLC takes a height of 4; the theorem
is for every height.

### Metadata

`user[u]` asks a contract abstraction for its metadata or executes one of its views.
Views are made from an envelope that is fetched once; two fetches may be under way,
and whoever comes last sets it. A code is known by the context that was written into
it (`top`, the block whose balance and time it pushes) and by how many `CDR` stand in
front of it.

### Toolkit

A context has an rpc, a read provider, a protocol and services (all other providers,
of which the stream and the signer stand for those that are bound to the context and
those that are not). `WithRpc`, `WithRead`, `WithServices` are the setters by what
they make of a context; `SetProvider` calls all of them in the order of the code.
`SendOperation(o)` is `clone()`.

### Wallet accounts

`WalletAccount` has the account that is active in the wallet, the hash the toolkit
keeps, and commands with an await at every question. `sendOperations` asks for the active
account (`AccountChecked`) and then for the operation (`OperationRequested`), and the
account may be another one by then, or none. The screen is the one of `showPrepare`.
`fresh` is history: the active account is the one it was when the hash that a command uses
was read.

### Big maps

A call reads its level (or is given one), then round by round; the answers of a round
come in any order. `rewraps` says whether the backend is the `HttpBackend`, whose 404
arrives as an `HttpRequestFailed`. `unanswered` is history: a request got no answer, which
is the only reason a documented read has to fail.

### Pure algorithms

`Estimates`, `SaplingTree`, `MichelineForging` and `MichelsonFields` have a state only
to build their inputs step by step: a batch, a number of leaves, a value, a type. In
every state the properties compare the algorithm with a definition of its own: the
node's minimum fee, the recursive definition of a Merkle root, the value that was
forged, the value that was decoded.

A value of `MichelineForging` is on `stack` with the bytes that `valueEncoder` makes of
it, which are those of its parts with a frame around them; a step puts a leaf there or
makes the last values the parts of one. `Reader[depth]` is `valueDecoder` for values that
are nested to a depth: the code's recursion, which ends because each call has fewer bytes
left. Two bounds are not those of a run. `MaxLength`: a value has less than 2^31 bytes, half
of what the eight hexadecimal digits of a length have room for. And the annotations in
`AnnotLists` have no control characters (bytes below 16), which `decodeAnnots` could take
for the second half of a space, since it splits the hexadecimal text.

## 3. Runs

Deadlock checking is off in all of them: the system really stops, when all calls
are settled and the bounds on the chain, on the requests or on the inputs are
reached.

| Run | Bounds | Shows |
| --- | --- | --- |
| `confirmations` | 2 callers, 5 levels (contract API: 4), 5 blocks, 1 reorganisation of depth up to 2, confirmations up to 2, window of 1 ancestor, faults, other operations | `ConfirmationsTypeOK`; wallet API: `FoundOnBranch`, `DoneMeansDepth`, `WaitingIsConnected`, `NoInclusionMissed`, `BranchAnswersTruly`, `ConfirmationsCountUp`; contract API: `ResultMeansDepth`, `PendingIsSubscribed`, `NoLevelMissed` |
| `promises` | 2 callers, 4 levels, start block at level 2 (wallet API), faults, other operations | `WalletKeepsPromise`, `KeepsPromise` (contract API) |
| `answers` | cache: 2 callers, 1 key, ttl 1, lateness 1, 2 requests, instants up to 3; wallet API: 1 caller, 5 levels, confirmations up to 3, no faults | cache: `TypeOK`, `EntryHasOwnTimer`, `BoundedStaleness`, `CachedForTtlUnlessCleared`, `RejectionForgotten`, `EveryCallReturns`; wallet API: `EveryCallResolves` |
| `contract_late` | 1 caller, 4 levels, no faults | `LateCallResolves` is violated |
| `cache_ttl` | 1 caller, 1 key, ttl 2, no lateness, 3 requests | `CachedForTtl` is violated |
| `components` | see below | `ComponentsTypeOK` and the properties of the table below |
| `send_limits` | 2 sends, batches of up to 2, nobody else, no faults | `LimitsFit` is violated |
| `metadata_context` | 2 users, 3 blocks | `ViewSeesCurrentContext` is violated |
| `forging_annots` | values of up to 4 nodes | `ValuesReadBack` is violated |
| `missing_key` | 2 keys, up to 3 of them per call, 2 blocks | `MissingKeysAreUndefined` is violated |
| `minimal_fee` | gas and sizes at their boundaries | `MinimalFeeSuffices` is violated |
| `field_names` | types of up to 4 leaves | `FieldsReadBack` is violated |

The passing runs hold several components that share no state. A behaviour is one of
the component that `part` (`api`, `component`) names, which never changes; the variables
of the others keep their initial values. So the states of a run are the sum of the
components' states, not the product, and each property is checked over all behaviours of
its component. In `confirmations`, `promises` and `answers` a component that a module is
not built on is an instance of its module with variables of its own, and the fairness is
that of the component that is chosen. `components` has these:

| Component | Bounds | Properties |
| --- | --- | --- |
| `SendOperation` | 2 sends, batches of up to 2, 1 foreign operation, faults | `UndisturbedSendSucceeds`, `SomebodyGetsIn`, `LimitsFitUnlessRevealed` |
| `PrepareProvider` | 2 prepares, batches of up to 2, 1 foreign operation | `PreparedContentsFit` |
| `ObservableSubscription` | 2 listeners, 3 changes, 1 block | `CalledAsRegistered`, `EndIsFinal` |
| `LedgerSigner` | 2 signatures of up to 5 bytes in chunks of 2, 1 request for the key | `SignatureIsOfMessage` |
| `SaplingTransaction` | 2 transactions, amounts up to 2, 1 note of others | `ConservesValue`, `UndisturbedIsAccepted` |
| `SaplingTree` | height 4 | `WitnessesLeadToRoot` |
| `MetadataViews` | 2 users, 3 blocks | `FirstExecutionIsCurrent` |
| `ToolkitContext` | 2 nodes, 2 services, 3 settings, 1 operation | `ProvidersAgree` |
| `WalletAccount` | 2 accounts, 2 commands, 3 switches | `RegistersItself`, `ScreenCloses` |
| `BigMapReads` | 2 keys, up to 3 of them per call in rounds of 2, 3 blocks | `ValuesOfOneBlock` |
| `Estimates` | batches of up to 3, gas and sizes at their boundaries | `FeesCoverMinimum`, `DefaultGasFitsBlock` |
| `MichelineForging` | values of up to 5 nodes, with no annotations, an empty list or two of them, numbers up to 8200 | `PlainValuesReadBack` |
| `MichelsonFields` | types of up to 4 leaves, 2 annotations or none | `FieldNamesAgree` |

Why these bounds are enough for the interesting cases:

* Four or five levels let a poll skip two levels, so that a gap has two blocks to
  fetch and a newer head can interrupt it in the middle; the inclusion may be
  before, in or after the gap. One block more than levels leaves one for the
  branch a reorganisation switches to. Two callers are enough for one that keeps
  the streams connected while another comes and goes, and for one that restarts
  the stream under another. Callers are symmetric in the safety runs; no symmetry
  is used where liveness is checked.
* One key suffices for the cache, since entries of different keys share nothing
  but `deleteAllCachedData`. `MaxTime` exceeds `Ttl + Slack`, so that a second
  request for a key is made after the first has expired.
* Two sends or prepares are one that disturbs and one that is disturbed; a batch of
  two has a first operation, which may get the estimate of the reveal, and a second
  one, which may get that of the first.
* The window of live blocks is 1, so that a tip outside of it exists within 5
  levels; in the code it is `MAX_BRANCH_ANCESTORS` = 60.
* Five bytes in chunks of two are two full chunks and one that is not; four bytes
  end with a full one. Three keys in rounds of two are a full round and another.
* Numbers up to 8200 cross the bytes of an int (6 and 13 bits) and of an amount (7
  bits). Gas of 1001, 1000000 and 86666000 thousandths and sizes of 50 and 8191 lie
  where a share, a width or the default limit of a batch of two is rounded.
* Four leaves are the least in which two numbered fields get one name
  (`pair (pair (pair %x int int) int) int`).

### Fairness

`FairSpec` assumes that the node goes on baking (within the bound), that the
timer fires, that requests are answered, and that an answer which is infinitely
often on its way arrives: strong fairness, because `switchMap` gives up a request
that is slower than the polling interval, and a node that is always slower would
never be heard. That is an assumption about the node and not something the code
ensures: with a node that is slower for ever, `EveryCallResolves` does not hold, and only
the timeout ends a call. `TimedSpec` adds that the timeout of a connected stream expires,
which the event loop guarantees. Nothing is assumed of callers, of faults, and
of reorganisations. In `RpcClientCache` time passes, due timers run, settled
awaits continue, and every request is settled.

## 4. Findings

* `contract_late`: `docs/smartcontracts.md:187` says that `confirmation(3)` waits
  for three confirmations before the promise resolves. Polling starts with the
  first call of `confirmation()` and scans from the head of the first poll on: if
  the operation was included before, the promise is never resolved, whatever the
  depth, and the timeout rejects it (`taquito/operations/operations.ts:48`).
* `cache_ttl`: `docs/rpc-cache.md:10` says that answers are cached for the period
  of the ttl. `deleteAllCachedData` does not clear the timers, so the timer of a
  dropped entry evicts the next entry of the same key early.
  `CachedForTtlUnlessCleared` is what holds instead, and is proved.
* `send_limits`: a batch asks twice whether the account needs a reveal, once in
  the estimator and once to index the estimates. If an operation of the account is
  included between the two, every operation is sent with the limits of its
  predecessor, the first one with those of the reveal
  (`taquito/batch/rpc-batch-provider.ts:364`). `LimitsFitUnlessRevealed` is what
  holds instead, and is proved.
* `metadata_context`: the comment of `adaptViewCodeToContext`
  (`packages/taquito-tzip16/src/viewKind/michelson-storage-view.ts:81`) says that the
  instructions are replaced to match the current context. They are replaced in the
  array of the view itself, so that a second execution has nothing left to replace
  and runs with the balance and the time of the first one; a view without a
  parameter gets one more `CDR` each time. `FirstExecutionIsCurrent` is what holds, and is
  proved.
* `forging_annots`: `packages/taquito-local-forging/README.md:36` says that forged
  values can be parsed back. `primEncoder` ends the arguments of a `LAMBDA` or a
  `view` with an empty list of annotations and appends the annotations of the value
  behind it, so that one with annotations is not parsed back
  (`michelson/codec.ts:227`). `PlainValuesReadBack` is what holds.
* `missing_key`: `taquito/contract/rpc-contract-provider.ts:187` and
  `taquito/contract/big-map.ts:15` say that a key which is not in the big map has the value
  undefined. The `HttpResponseError` with the 404 is caught by the block that throws it and
  wrapped (`packages/taquito-http-utils/src/taquito-http-utils.ts:131`), so that the callers
  which look for it never see it, and one missing key fails the read of all.
* `minimal_fee`: `taquito/estimate/estimate.ts:97` says that `minimalFeeMutez` is what
  bakers ask for by default. For a single operation of a revealed account it never is,
  since it does not pay for the signature; that is proved (`MinimalFeeFallsShort`). The
  suggested fee suffices always, and two minimal fees do (`FeesCoverMinimum`).
* `field_names`: `docs/storage_annotations.md:178` says that fields without an annotation
  are accessed by their index. A field is numbered by the count of the names to its left
  (`tokens/pair.ts:166`), also where these are inside a pair with an annotation, which is
  one name: `pair (pair (pair %a int int) int) int` has two fields `2`, and a value is lost.
  In the same way `or (or (or %a int int) int) int` has two branches `2`.

What else the properties say by their exceptions. The first four are read otherwise in the
documents named, but have no run of their own; the others contradict no document of the
repository:

* `confirmation()` compares levels only (`taquito/wallet/operation.ts:169`): after a
  reorganisation that drops the including block, heads of the other branch complete the
  call, although `docs/wallet_API.md:369` says that it waits until the transaction is
  confirmed. The caller has to ask `isInCurrentBranch` of the value. `DoneMeansDepth` and
  `FoundOnBranch` are what holds: the depth by levels, and without a reorganisation the
  inclusion on the branch.
* The `block` of a value of `confirmation(n)` is the head that completed the call
  (`operation.ts:166`), and not the including block, as `docs/wallet_API.md:371` says.
  `docs/confirmation_event_stream.md:53` counts one event more than confirmations; a call
  made after the inclusion was seen does not get the event with confirmation 0.
* `pkh()` keeps the hash of its first call (`taquito/wallet/wallet.ts:195`), whatever account
  the wallet uses since, and `registerDelegate` registers it as the "current address" (line
  255). `RegistersItself` is what holds of a hash that is not stale.
* `ExtractSignature` counts an `or` in the left part of a pair by its branches
  (`tokens/pair.ts:104`), `Encode` counts it as one, so that a label listed for a branch
  without annotation (`docs/smartcontracts.md:279`) may not be one that is looked for.
  `FieldNamesAgree` is what holds of annotations.
* A copy of a context still asks its toolkit for the rpc of its head stream, so that
  heads and the blocks between them may come from two nodes once the rpc is changed
  (`taquito/context.ts:220`). `setProvider` without a read provider replaces a custom
  one. `setRpcProvider` alone leaves the read provider at the old node.
* `contractCall` of the prepare provider adds no reveal.
* Fees are those of the estimated gas, also when the user gives a higher limit. A limit
  is the estimate plus 100, which may be more than an operation may have.
* A listener behind one that is removed during a dispatch is not called.
* After an error of the stream the default `retry()` subscribes for ever to a dead
  Subject, and nobody's `close` listeners are called.
* The chunks of two signatures on one Ledger get mixed up.
* The screen of `showPrepare` stays when there is no account to send from, or when it
  lacks the permission.

## 5. Proofs

All theorems hold for every value of the constants that satisfies the named
assumptions (`ChainAssumption`, `PollerAssumption`, `OperationAssumption`,
`CallersAssumption`, `BranchAssumption`, `CacheAssumption`, `AccountAssumption`,
`SendAssumption`, `PrepareAssumption`, `ToolkitAssumption`, `WalletAssumption`,
`BigMapAssumption`, `ViewAssumption`, `LedgerAssumption`, `NoCallAssumption`,
`SubscriptionAssumption`, `SaplingAssumption`, `EstimateAssumption`), which only say that bounds are numbers, sets are what they are named for and switches
are Booleans, and that the start block is a level.

* `RpcClientCache_proofs`: `TypeCorrect`, `EntriesExpire`, `StalenessBounded`,
  `RequestsAtMostOncePerTtl`. An entry that has a timer is not an inductive
  statement: the timer could be late, or another timer could remove the entry
  first. `TimeInv` adds that no armed timer is overdue and that dates are in order.
  For the last theorem `IndInv` adds that an entry is the latest put of its key and
  that, while nothing of the key was cleared, the timer of the entry is the only
  one armed for the key.
* `WalletOperation_proofs`: `TypeCorrect`, `ResolvedIsDeep`, `WaitersAreConnected`.
  `SoundInv` relates the operation to the chain: blocks of the branch have their
  levels, and each resolved call has a head that is deep enough above the including
  block by their levels alone; that turns into a depth on the branch when both are
  on it. `WiredInv` is about subscriptions, one part for the operation and one for
  the poller. Both are proved operator by operator (`EmitSound`, `ReceiveSound`,
  `SettleWired`, ...), and then once per action.
  `EveryLevelIsScanned`, `InclusionIsReal`: that no inclusion is missed needs, without a
  reorganisation, that everything held anywhere (answer, replay, last head, target, start
  block) is on the branch, that the gap under way starts right above the last head, and
  that the last head is never more than one level behind what is emitted next. `PastInv`
  and `ScanInv` say so.
* `WalletOperationPromise_proofs`: `ImplementsPromise`, the safety part of the
  refinement `WalletKeepsPromise`: `Spec /\ [](reorgs = 0) => Promise!Spec`. Of the calls
  only what the promise sees is followed through the cascade: each operator either
  resolves calls that are deep enough (`Told`), fails all who wait (`Dropped`) or makes
  one call (`Asked`), and these three are steps of the promise. That a head handed over
  is as deep as the promise counts rests on `ScanInv`; that a call which connects the
  stream resolves nobody but itself rests on `WiredInv`. `PromiseInv` adds that a branch
  includes the operation once, so that the level of the inclusion is well defined, and
  that a call not made yet asks for nothing.
* `SendOperation_proofs`: `TypeCorrect`, `PipelineFits`, `LimitsAreOwn`. `Known`
  relates estimates and limits of a send to the answers it got, whatever has
  happened to the account; `Current` says that, as long as the account has not
  changed, the revealed status and the counter that the send holds are those of the
  account. The second is what makes a failing step impossible. `OneGetsIn`: `Quiet`
  says that until a send has got in, the mempool is empty, no send was turned away from
  it and nobody was disturbed, because only a send that gets in changes what another
  one has read.
* `ContractOperation_proofs`: `TypeCorrect`, `ResolvedIsDeep`, `PendingAreSubscribed`,
  `EveryLevelIsScanned`, `ImplementsPromise`. As in the wallet API the cascade of one event is proved
  function by function. `Sound` holds of what the streams keep (the inclusion, the
  heads that are replayed, the head a call resolved on), `Wired` of who waits: a call
  that waits was registered while the operation is tracked, one that follows has an
  inclusion, and the stream is connected for them. `ScanInv` is that of the wallet API
  with one difference: a restart keeps `lastHead`, so that the next head opens a gap
  right above it. The refinement is proved as for the wallet API; the promise does not
  tell waiting from following (`View`), and `Held` adds that the heads of the
  `shareReplay`, which a later call is handed, are on the branch with the inclusion.
* `WalletBranch_proofs`: `BranchTypeCorrect`, `AnswersAreTrue`, `CountsFitTogether`.
  `KnownInv` says that hashes are those of different blocks, and that every block held
  anywhere was baked, so that a block of the branch with its hash is this block. `CountInv`
  says of a node that does not reorganise that the count of a call's events is the depth
  of its last head, and that without a start block heads never go back. `QueryInv` says
  what a query has read. `AnswersAreTrue` also rests on the cap of the tip: the including
  block is in the window that the node lists exactly if it is on the branch.
* `Components_proofs`: theorems about the components that work alone, each by its own
  inductive invariant.
  * `PreparedCanBeApplied`: a call whose counters nobody else has touched finds them
    cleared when it takes them, and otherwise finds those behind some operation that was
    prepared; what it has read of the account is true until the account changes.
  * `DefaultsFollow`: each setter by what it makes of a context, then their composition
    in `SetProvider`.
  * `DelegateIsSource`, `ScreenGoesAway`: a command that has not been disturbed holds the
    hash of the active account, and every way out of a command that has an account and a
    permission closes the screen.
  * `ValuesAreOfOneBlock`: in every round, what was answered so far is of the block of
    the level that was taken, as long as this block was not replaced.
  * `FirstExecutionIsFaithful`: what a call holds that was first to execute a code comes
    from its own reads, which are in order, whoever executes the code afterwards.
  * `AloneSignsMessage`: while nobody has interrupted, the device holds the chunks sent
    so far, for every length of a message and every size of a chunk; the last one makes
    them the message.
  * `SubscriptionTypeCorrect`, `SubscriptionEnds`, `ListenersAreCalled`: after an error
    all dispatches under way are of the error. `InStep` says of each dispatch that it
    has called as many listeners as its iterator is far, and, as long as none was
    removed, those that stand there in the live array, which then still holds all who
    were registered when it began. That nobody is called more often than registered is
    a fact about the cardinality of their positions.
  * `UndisturbedTransactions`: while nobody has changed the pool, the root and the tree
    of a call are those of the pool, and its notes are not spent.
  * `SaplingTypeCorrect`, `TokensAreConserved`: `Accounted` says what is known of a call
    between its reads, that the outputs pay the amounts unless these leave the pool, and
    that the inputs chosen suffice. The change then makes up the difference
    (`TotalOfAppended`), and notes are worth what they were when the pool grows
    (`ValueStays`).
  * `EstimatesTypeCorrect`, `DefaultsFit`, `SuggestedFeeOfOne`: the default limit of n
    operations is at most the n + 1st part of the block, and what is left of the block
    is at least one such part, which is where the reveal goes. The suggested fee of
    one operation is compared with the node's minimum by the width of its numbers: the
    second base fee outweighs the 64 bytes of the signature and what the fee and the
    limit add to the simulated bytes.
  * `FeesSufficeForAll`, `MinimalFeeFallsShort`: the same for a batch of any length. `n`
    times what an operation pays beyond its base and its buffer is at least `n` times
    its gas and the bytes once (`FeeIsAbove`); added up and divided by `n` the fees pay
    for all gas and all bytes (`SharesAddUp`). An operation grows by at most four bytes
    after its simulation, because the limit it is sent with is at most a hundred above
    the one it was simulated with (`OneOperation`, `BatchSums`). What remains is linear:
    two base fees, or one and a reveal, outweigh the rest, and a single minimal fee
    lacks at least 50 mutez of the 64 bytes of the signature, which its rounding does not
    give (`CoverMinimum`). `Width` counts at most four bytes, which numbers below
    2^28 fit into.
  * `WitnessesAreValid`: for every height of the tree and any number of commitments. Each
    recursive definition is first shown to be met (`RowIs`, `DescentIs`, ...). Then, row by
    row: the nodes have the hashes of the whole tree and what is missing has that of an
    empty subtree (`RowsFit`); the tree is constructed exactly for one leaf up to half of
    them (`TreeIs`); a call of `getNeighbouringHashes` is at the subtree that the quotient
    of the position names, with the rest as its position (`DescendedFits`), so that its
    answer is the siblings (`WitnessIs`); and these lead up to the root (`UpwardsFit`).
  * `AmountsReadBack`, `SignedNumbersReadBack`: the part of `PlainValuesReadBack` that is
    about numbers, for every natural number, every integer and whatever bytes follow. The
    bytes of a number end with its only byte below 128 (`OneNumber`), so that the parser
    stops where the forger did (`ReadsOneNumber`). What the parser makes of them from each
    byte on is what the forger had left there (`ZarithMakes`, `IntMakes`): the quotient by
    128, or by a power of two, of which nothing remains behind the last group because the
    groups have room for all bits (`GroupsSuffice`).
  * `ForgingTypeCorrect`, `ForgedValuesReadBack`: for all integers, texts and annotations,
    values of any size nested to any depth, and every amount. The inductive invariant
    (`ForgingInv`) says of every value on the stack that it is `Sound`: unless it or a part
    of it has annotations that do not come back, `Reader[depth]` reads it from its bytes,
    whatever bytes follow, for every depth that is not less than their number. That is
    more than the property asks, which only looks at the last value and at what follows
    the parameters: a value within another one is followed by the next one, and is read
    with a depth that is one less. A value made of sound ones is sound (`ForgeGood`),
    because its parts have fewer bytes than it has (`BytesJoined`) and its decoder, given a
    reader of the parts, undoes its encoder (`Decodes`): for integers (`IntDecodes`),
    strings and bytes (`TextDecodes`), sequences (`SeqDecodes`) and primitives
    (`PrimDecodes`), whose preamble, code, arguments and annotations are taken apart
    (`PrimBytes`, `ReadArgsBack`, `PrimReadBack`). Below these are that a length is read
    back (`ExtractBack`), that joined parts are read one by one, whether they are counted
    or read to the end (`PartsFollow`), and that joined annotations are split where they
    were joined (`SpacedSplits`). Each recursive definition is first shown to be met
    (`JoinedIs`, `SplitIs`, `ReaderIs`).
* `Sums_proofs`: no result of its own, but the lemmas that `TokensAreConserved` and
  `FeesSufficeForAll` rest on, and the inductions of the others: the sum over a finite set
  exists, does not depend on the order in which `SumFunctionOnSet` of the community
  modules picks the elements (`AnyOrder`), grows by the value of a new element
  (`SumWithOneMore`), and is linear and monotone in the values; the powers of two
  (`PowersOfTwo`) and division by them (`DivideByHalf`).
  Induction is done without an induction rule: the set of the numbers, or of the
  subsets, for which a claim holds is a set like any other, and a least number outside of
  it exists because `<` is well-founded (`AllNaturals`, `AllNaturalsInOrder`, `AllSubsets`).

What is only model-checked: liveness (`EveryCallResolves`, `RejectionForgotten`,
`EveryCallReturns`, and that every call settles in the refinements `KeepsPromise` and
`WalletKeepsPromise`), for the prover has no rules for fairness and `ENABLED`; and what
the RECURSIVE operators of `MichelsonFields` compute, which the prover does not take:
`FieldNamesAgree`.
`ComponentsTypeOK` is the conjunction of the types of all components: each part is a
theorem of its component (`PrepareTypeCorrect`, `LedgerTypeCorrect`, ...), except that of
`MichelsonFields`.

## 6. Not modelled, and the plan

Most lines of the repository are data: sample contracts and their storage, recorded
scripts, type declarations of the RPC, tables of primitives, opcodes and protocol
constants, tests, applications, the website. There is no behaviour in them to model,
and no share of them is mapped.

Left out of the modelled components: the change of the polling interval; `receipt()`
and `status()`, which are projections of the including block; the filters of
`subscribeOperation` and `subscribeEvent`; the operations of the contract API other
than transfers and batches, which run the same pipeline; storage limits and burn
fees; the codecs of the operations other than their numbers and parameters;
`MichelsonMap`, the tokens of leaves and collections, `generateSchema`, `compare`; the
fetching of metadata by its protocols. Cryptography is abstracted everywhere.

Not modelled at all: the RPC client, the read provider, forgers, injector and packers
(one request or one call per operation; their failures are actions of the modules
that use them); in-memory and remote signers (cryptography, one request); the Michel
codec (a parser and a type checker, table-driven); utilities (base58, hashes).
`ContractsLibrary` puts a static copy of scripts in front of the read provider; its
`addContract` stops at an invalid contract and keeps those before it.

What would come next: receipts and status as functions of the including block,
`MichelsonMap` and the collections of the encoder, and the macros of the Michel codec
against their expansion.
