# TLA+ verification of the DKG node: delivery, random sampling, the publish queues and storage ACKs

This directory models parts of the OriginTrail DKG node (`src/packages/*`) in
TLA+, checks the models with TLC on small instances and proves their central
invariants with TLAPS for every instance. `PROJECT.json` maps every definition
that models code to its lines, and lists runs, mutants, findings, hazards and
theorems.

## 1. Inventory of the system

A DKG node is one Node.js process. It talks to other nodes over libp2p, to one
or more EVM chains over JSON-RPC, and to a local triple store. Everything inside
the process is single-threaded; two pieces of code interleave only where one of
them awaits. What is concurrent are the awaits of one process with each other,
the two sides of a network protocol, the chain, and restarts.

| Part | State | Operations | What is hard |
|---|---|---|---|
| Universal Messenger (`agent/src/p2p/messenger.ts`) | `firstAttemptAt`, in-flight slots, shared DHT walks and their rate limit, inbound in-flight map | `sendReliable` / `sendFramed`, `register`, `retryOutboxEntry`, `dropExpiredOutbox` | a caller and the drain on one message, crash between record and delete, duplicates during a running handler |
| Protocol outbox and drainer (`core/src/protocol-outbox.ts`, `node-store/src/protocol-outbox-store.ts`, `agent/src/p2p/outbox-drainer.ts`) | rows with attempts and due time; the running drain and its page | `enqueue`, `readDuePage`, `markDelivered`, `recordRetryFailure`, `dropExpired`, `tick`, `stop` | stale pages, budgets that could starve a row, the join of stop |
| Idempotency store (`node-store/src/message-idempotency-store.ts`) | delivered ids out, handled ids in with cached answers | `check`, `record`, prune | crash windows, prune window |
| Random-sampling contracts (`evm-module/contracts/RandomSampling.sol` and its storage) | period cursor, durations by epoch, one challenge per node, scores | `createChallenge`, `submitProof`, `setProofingPeriodDurationInBlocks`, `clearOutstandingChallenges` | a duration change inside a period, lazily advanced cursor |
| Random-sampling prover (`random-sampling/src/prover.ts`, `solved-period-skip.ts`, `chain/src/evm-adapter-random-sampling.ts`) | solved-period record, pinned material, cooldown, pending duration probe | `tick` | four reads of one tick see four chain states; late transactions; content updated mid-period |
| Prover WAL (`random-sampling/src/wal.ts`) | JSONL file and its cache | `open`, `append` | torn writes |
| Prover loop (`random-sampling/src/prover-loop.ts`) | timer, the tick in flight | `start`, `stop` | single flight, join on stop |
| `CoalescingRecurringTask` (`core/src`) | running and queued run | `start`, `trigger`, `stop` | coalescing, drain on stop |
| Async lift queue (`publisher/src/async-lift-*.ts`, `lift-job-*.ts`, `cli/src/publisher-chain-proof.ts`) | job rows, wallet locks; in memory: processing markers, detached executions, receipt hints | enqueue, claim, validate, write ahead, send, settle, reconcile, dispatch held jobs, retry, cancel, clear | a transaction that may or may not be out; wallets reserved by proof, not by time; chain answers that are stale when applied |
| Async promote queue (`publisher/src/async-promote-*.ts`, `promote-*.ts`, `cli/src/daemon/worker/async-promote-worker.ts`) | job rows with lease and commit marker; in memory: pending admissions, execution sections | enqueue, enqueueAndClaim, claim, execute, reconcile, sweep, cancel, recover, clear, retention | lost answers and late writes, lease expiry against a slow owner, crash inside a promote |
| Storage ACK, core side (`publisher/src/storage-ack-handler.ts`, `graph-scoped-ack-persistence.ts`, `storage-ack-ledger.ts`, `agent/src/storage-ack-retention.ts`, `dkg-agent-vm-promotion.ts`) | the asset's SWM graph, operation rows, head, signed-ACK ledger, write locks | answer a request, apply a share, promote, retire, clean up, audit | one unversioned graph for every version; a deadline inside a commit of several writes; retention over weeks |
| Storage ACK, publisher side (`publisher/src/ack-collector.ts`) | collected acks, peers tried | collect | late answers, quorum against timeouts |
| Chain-event lanes (`publisher/src/chain-event-lane-runner.ts`) | cursors | poll, persist | partial failure of a batch |
| Agent sync, context graphs, finalization (`agent/src`) | memberships, replicas, recovery rows | many | a subsystem of its own |
| Triple stores, query engine, other contracts, CLI, UI, adapters, plugins | | | mostly I/O and data transformation |

The Messenger carries the node-to-node protocols (chat, shared-memory, storage
ACK, access): they call `sendReliable` and register handlers. The outbox timer
in `dkg-agent-lifecycle.ts` drives the drain; `DKGAgent.stop` joins it. The
prover loop calls `tick`, which calls the chain adapter, the extractor over the
triple store, and the WAL. `components` in `PROJECT.json` lists all parts with
their status, `hazards` everything above that a unit test would hardly reach.

What makes each part correct:

* Messenger: a handler's effect is repeated only when a run of it was lost
  before it was recorded; a message recorded as delivered was handled; a
  delivered message leaves the outbox; a queued message to a reachable peer is
  delivered; nothing in memory is left without an owner.
* Outbox drain: no row starves, a retry works on an existing row inside a
  running drain, stop returns.
* Prover: no open period is skipped because of a remembered fact; only proofs of
  the pinned commitment are sent; the log is ahead of the chain; a period is
  credited once; an expired challenge never blocks the node for good.
* WAL: what was acknowledged is read back in order, up to one entry per torn line.
* Lift queue: an asset is published once; a wallet with a transaction that can
  still land serves no other job; no transaction that is out is forgotten; a
  finalized job's asset is on the chain; a job the chain has settled is resolved.
* Promote queue: an assertion has one owner; a promote whose outcome is unknown
  is not run again unless it is bound to an immutable operation; such an
  operation ends in success or in a certified rejection; every job comes to rest.
* Storage ACK: a core that returned an ACK holds the bytes while the publisher's
  transaction may be pending; once it has landed, the copy can be promoted until
  it is, however old it grows.

## 2. Modules

| Module | Models | Role |
|---|---|---|
| `OutboxDrain` | outbox rows, in-flight slots, drain, stop | component; callers and network are open actions |
| `Messenger` (extends `OutboxDrain`) | sender, network, receiver, faults of both | composition; every action of it is an action of the outbox or leaves it alone |
| `ReliableDelivery` | what the Messenger promises | abstract specification |
| `DrainProofs`, `MessengerProofs`, `DeliveryProofs` | | theorems about the outbox, the Messenger, and its two refinements |
| `SamplingChain` | the contracts, and what happens on chain without this node | component, actions without a Next |
| `SamplingProver` (extends `SamplingChain`) | `tickImpl`, `SolvedPeriodSkip`, adapter reads | composition of prover, chain and local store |
| `SamplingProofs` | | theorems about prover and chain |
| `ProverWal` | the WAL file under stops and torn writes | component |
| `WalProofs` | | theorem about the WAL |
| `PromoteQueue` | the promote queue, its admission coordinator, worker, supervisor and operator | component |
| `PromoteProofs` | | theorems about the promote queue |
| `LiftQueue` | the lift queue's named lane with its workers, passes, operator, and the chain it asks | component and its environment |
| `LiftProofs` | | theorems about the lift queue |
| `StorageAck` | a core's copy of one asset: handler, shares, chain, promotion, cleanup, audit | component and its environment |
| `StorageAckProofs` | | theorems about the storage ACKs |
| `MCOutboxDrain`, `MCMessenger`, `MCSamplingProver`, `MCProverWal`, `MCPromoteQueue`, `MCLiftQueue`, `MCStorageAck` | | instances for TLC |

### Messenger and outbox

A message is a model value; its `messageId`, protocol and peer are fixed by
constants (`PeerOf`, `RequestOwned`, `Validated`, `Notified`, `Size`). `row[m]`
is 0 without an outbox row and otherwise the row's attempts; the code's counter
has no cap and is only compared with the stall threshold, so the model does not
tell counts above `StallThreshold` apart; `due`, `ahead` and `expired` abstract the
three time columns (due now, order of `next_attempt_at`, past max age), so time is an environment
that lets rows fall due and age. `attempt[m]` is the in-flight slot with its
owner (a caller or the drain), `page` the entries the running drain has left to
take. `copy`, `late` and the receiver's `handling` are the wire: a copy can be
lost, resent by the router, delivered after its sender timed out (`late`), and
joined to a running handler. `inRec` and `outRec` are the two directions of the
idempotency table and survive crashes, as rows do; everything else is lost in
`MemoryLost`. Two history variables support the properties: `lost` counts
handler effects that were not recorded, `torn` marks messages whose sender
stopped between `record('out')` and `markDelivered`.

An action ends at an await. `sendFramed` is `SendAnswered` (a known answer) or
`Send` up to `router.send`, and `SendSucceeds`, `SendQueues`, `SendThrows` or
`RequestRecovers` after it. `retryOutboxEntry` is `RetryOutboxEntry`, then
`RetryAnswered` (the response handler is awaited), `RetrySucceeds` or
`RetryErrs`. The timer callback is `ProcessOutboxTick`, and `DropExpiredOutbox`
is its `finally`, which joins the active drain first.

### Prover

Blocks, epochs and durations are small naturals; `ActiveStart` is the contract's
own arithmetic. A knowledge asset is its version number, so "hashes to the
pinned root" is equality of versions. A tick is a program counter over the
awaits of `tickImpl`; the live read's three calls may be answered in any order
with chain steps in between. The block context of a read is full, the head only,
or absent. `pending` is a transaction that is mined after its receipt wait gave
up. The 60 s bound of the solved-period record is not a guard: a tick may always
drop the record (`TickReadsLive`), so safety does not depend on wall-clock time.

### WAL

The file is a sequence of physical lines, each the entry it parses to or
garbage, with a flag for a missing newline. `disk` is the image at the last
fsync; a stop keeps either image, a torn write leaves a line without newline.

### Promote queue

Every method of `TripleStoreAsyncPromoteQueue` holds the control graph's mutex
from its first read to its last write, so a method is one action; only the sweep
takes the mutex twice (`SweepFind`, `SweepDecide`). `row[j]` is the durable row:
its state, attempt and preparation counts, the two bits of the commit marker, the
binding, the reason, the class of the last error and the claim token. `flight` is
the admission coordinator: a request that waits for the mutex or a write whose
answer was indeterminate, kept until a durable read sees the row. `limbo` holds
admission writes the store may still apply. A worker walks through `runPromoteJob`
by `phase`: prepare (acquire the binding), record `promoteStarted`, enter the
execution section, write shared memory, record `swmInserted`, succeed or fail;
each queue call checks its lease, and a lease lost at any of them ends the attempt
with nothing written (`LeaseLost`). A job in `Whole` is shared under an agent and
executes bound to an immutable operation; the others do not. `committed` and
`open` are history: what reached shared memory, and promotes begun without a
binding whose outcome no row records. Leases, retry times and the prerequisite window are booleans: expired or not, due at any
time, open or closed.

### Lift queue

`job[j]` is the durable row of one admission: state, the claim (wallet and
token), its own transaction, an inherited hash with its accounted mark, the class
of the failure code and the retry count. `lock[w]` is the wallet-lock row with
its lease. A transition runs under the job lock, and where the code takes it
under the claim lock; it is one action. `Mode`, `Usable` and `Active` translate
the ownership modes of `async-lift-claim-session.ts`: a lease before the send,
proof from the write-ahead on. A worker's claim goes through `claimed`, `validated`,
`sign`, `send` and, where the execution cannot be detached, `await`. `WriteAhead`
is the broadcast row and its flush; sending is a later step, so a crash, an
escaping fault or an operator's clear fits in between. `SendAccepted` hands the
execution to `detached`, from where it ends by a certified result, by nothing, or
after `EarlyRelease` of its wallet. `Reconcile` is the pass over rows in
broadcast or included; `AskHeld` and `ApplyHeld` are the two halves of the
dispatcher, between which anything may happen. The chain is a set of signed
transactions with nonces and per wallet the number of consumed nonces: it may
execute, revert, forget in one pool and still execute from another, and the
wallet may send something else. Failure codes are grouped by what the registry
says of them (`Codes`); an asset is created or updated (`Updates`), which decides
whether absence can be proven. `waived` records what an operator gave up by
clearing a job whose transaction was in doubt, the one exemption the queue makes.
The local VM pointer of an asset may lag the chain: a preflight may see a landed
publish (`Noop`) or not, until a job of the asset has finished (`Advanced`).

### Storage ACK

One Knowledge Asset on one core. An operation is a record of kind (ACK or share),
version and content, which is what `storageAckOperationId` hashes; a content
stands for a quad set with its root and digest. `graph` is the asset's single SWM
assertion graph, `ops` the age of each operation's metadata rows, `head` the
operation the head row names, `ledger` the signed-ACK rows: their age, the age at
which an absence was seen, and whether the row is registered or released
(`supersededAt` or `unregisteredAt`). A request is accepted before the lock
(`Request`), decided under it (`Decide`, `Decline`, by `Accepts` and
`Supersedes`), and then makes one action per store write, as `ACKCommitSequence`
orders them: `ReplaceGraph`, `DeleteMeta`, `InsertMeta`, `DeleteHead`,
`InsertHead`, `Supersede`, `SignAndRecord`; the ACK leaves in `Reply`. `Deadline`
declines and aborts the signal, which only the steps before the first mutation
and the signature obey (`Abort`). A share is applied under the lock by one action
whose `done` says how many of its five writes (graph, rows deleted, rows inserted,
head deleted, head inserted) were made before a failure; shares stand for gossip
and for the node's own queued share, whose head a local self-ACK preserves. `Land` is the chain, `Promote` and `RetireTwin` the
finalization handler and the twin reconciliation, `SweepSelect`, `SweepTeardown`
and `SweepDelete` the TTL cleanup, `AuditRead` and `AuditMark` the promotion
audit and the pending-update lane (`PendingUpdate`), `PruneOrphans` the ledger
prune. Requests, shares and passes overlap as freely as the asset's lock lets
them: the cleanup selects and the audit reads without it. `companion` says whether
the root companion of the asset makes every ACK rewrite its bytes; it is chosen in
`Init`.

Times are ages in abstract units (`PendingWindow` < `Ttl` < `Ceiling`, as 5
minutes, days and 90 days). `Tick` ages everything; it waits until requests and
passes are over, since each is far shorter than a unit, and until the audit, which
runs every 15 minutes, has marked a landed copy it can see. `acked` is history:
the age of an ACK a publisher received, forgotten past the pending window; `due`
are those of the latest version that landed in that time. A ledger row's age stops
at `LedgerCap`, one unit past the last age a query compares it with; there "older
than the absence mark" is taken as true, as it is once the clock goes on.

The code can lose a copy it owes in five ways, listed in section 4. `lapsed` is
history: the copies one of them has hit since they were last signed with head,
rows and bytes in place. The actions that meet a gap add the copy to it
(`ReplaceGraph` without a write over a graph that changed; `StoreFails` and `Crash`
in `HalfWritten`; `PruneOrphans` of a half-written copy; the cleanup's two steps on
an operation written anew, `Refreshed`; `AuditMark` of an old verdict on a fresh
signature). The gaps are behaviours of the model, not switched off; the two
invariants say that nothing else loses a copy.

## 3. Runs

| Run | Instance | Shows |
|---|---|---|
| `outbox_drain` | 3 messages of 3, 2 and 1 bytes, page of 2 bytes and 2 entries, 1 worker | no starvation by budgets, oversized or failing rows (`FrontRowIsRead`, `DueRowIsRetried`); stop returns (`StopTerminates`) |
| `messenger_faults` | 1 durable message, 2 late copies, 1 lost effect, 2 restarts, fairness | the in-flight slot is held exactly while an attempt waits (`SlotHeldWhileWaiting`), effects accounted (`EffectsAccounted`), delivered implies handled and gone (`DeliveredWasHandled`, `DeliveredLeavesOutbox`), no resend, refinement of `ReliableDelivery`; queued messages are delivered or expire; specification `ReachableSpec` |
| `messenger_pair` | a durable and a request-owned message to one peer | SLO map ownership (`DurableSloOwned`), refinement of `OutboxDrain`; recovery returns because DHT walks are bounded (`RecoveryReturns`); specification `BoundedWalksSpec` |
| `sampling_skip` | durations {2,4}, 6 blocks, 2 epochs, 1 sweep, crashes | the skip is sound across a duration change; write-ahead; only a sweep lets a period be credited twice |
| `sampling_content` | 4 blocks, 2 versions, crashes, repair, cooldown, slow probes, late transactions, fairness | only pinned proofs; one proof per period; the period the chain rests in is proved (`LastPeriodIsProved`) |
| `prover_wal` | 5 entries, 2 torn writes | at most one acknowledged entry lost per tear, order kept (`LossIsBounded`) |
| `promote_queue` | a bound and an unbound job for one assertion, 2 workers, 2 retries, 2 faults, 1 recovery, fairness | one owner (`OneOwnerPerAssertion`), no replay of an open promote, `succeeded` means shared, a retired job had no effect, obligations are kept, every job comes to rest (`QueueDrains`) |
| `lift_queue` | a create and an update, 1 job each, 2 wallets, 2 signatures, 1 fault, 1 other transaction, 1 override | wallets reserved for open transactions (`OpenTxOwnsWallet`), evidence kept, senders fenced, removed jobs stay removed |
| `lift_resubmit` | 1 created asset, 2 jobs, 2 wallets, 2 faults, slow releases, fairness | published once over resubmissions, `FinalizedIsLanded`, the doubt about a settled transaction ends (`DoubtEnds`) |
| `lift_release` | as `lift_queue` with slow releases | `OpenTxOwnsWallet` **violated**: see findings |
| `storage_ack` | 2 contents, 2 versions, 3 ACK operations, a share of the update, 2 concurrent handlers, 2 requests, 1 fault | the bytes behind a returned ACK are kept (`OwedCopyIsKept`) and a landed copy stays promotable (`DueCopyIsPromotable`), except after one of the gaps `lapsed` records |
| `storage_ack_ttl` | 1 content, 1 version, 1 share, 1 self-ACK | `TtlSparesOwedCopy` **violated**: see findings |

### Bounds

Messages of different ids share only the drain, the page budgets and a peer's
DHT walk: two messages to one peer exercise the sharing in the Messenger, three
of unequal size the budgets (one fits no page, one fills a page, one fits beside
nothing but itself). One message with two late copies and two restarts covers
every order of a send, its retry and a straggler around a crash. For the prover,
durations 2 and 4 with a boundary anywhere in six blocks cover growth, shrinkage
and a boundary inside, at and after a period; one asset suffices because a node
has one challenge at a time. In the promote queue jobs meet only in their lane,
so two jobs of one lane with two workers cover ownership; a bound and an unbound
one cover both recovery policies, two attempts the difference between a retry and
an exhausted budget, and two faults every pair of lost answer, expiry, failed
promote and crash (427 thousand states). In the lift queue a wallet is shared by jobs
of different assets (`lift_queue`, 1.3 million states) and an asset by jobs of
different submissions (`lift_resubmit`, 172 thousand states, two faults: one to
get a job held, one to fail its repair; its operator retries, cancels and clears,
and gives no transaction up). Two signatures suffice to publish twice. With slow
releases `lift_queue`'s other properties still hold. For a core's copy two
requests are one that is ACKed and one that may disturb it, of the same version or
the next; the share is of the next version, so it meets an ACKed first version, and
its five writes may stop after any of them. One fault is a deadline, or a failed
write or a crash at any write, between a delete and its insert too (967 thousand
states, with and without the root companion). `SomethingAtStake` cuts the search
where no ACK is outstanding and no request, received or to come, can make one so
again: the two invariants hold of everything behind the cut. `Explored` also leaves
the histories in which `b` is the first root to land, which differ from the others
only in that the update has the same content; with them the instance passes as well
(1.8 million states, too long to repeat every time), and the theorems cover all. The ages are the
smallest that keep the order of the code's times. `MaxLate`, `MaxLost`, `MaxRestarts`, `MaxBlock`,
`MaxEpoch`, `MaxVersion`, `MaxSweeps`, `MaxEntries`, `MaxTears`, `MaxFaults`,
`MaxRecovers`, `MaxJobs`, `MaxSigns`, `MaxOther`, `MaxOverrides`, `MaxRequests` are the named
bounds, `MaxRetries` the code's own; `StallThreshold` is the code's stall threshold,
past which the model stops counting attempts (the code goes on counting and only
compares).

### Fairness

* Outbox and Messenger: timers fire and awaited promises settle (weak fairness
  on ticks, retries and settling); `router.send` and the DHT walk are bounded by
  their timeouts. `QueuedIsDelivered` also assumes a peer reachable now and
  again (strong fairness on receiving, handling and answering): without it the
  message expires, which the property allows only after its max age.
* `DueRowIsRetried` assumes `Undisturbed`: a caller that re-sends one message for
  ever may hold its slot at every tick, and the drain skips busy entries.
* Prover: the loop keeps ticking and awaits settle (weak); the head of an expired
  period and the challenged content are not out of reach every time (strong);
  a transaction whose receipt wait timed out is settled by the chain (weak).
  `Calm` assumes that throwing ticks, crashes and receipt timeouts stop and the
  meta graph is repaired in the end. A node whose content is never available cannot prove, by design.

* Promote queue: the supervisor's timers claim, reconcile and sweep again and
  again, attempts go on, an orphaned lease runs out, an admission gets the mutex
  or meets its deadline (weak). Reconciliation passes over a job while an
  admission of its lane is in doubt, so it is strongly fair: clients that enqueue
  without pause are refused by the coordinator's owner observations before they
  become flights, which the model leaves out.
* Lift queue: the runner's pass comes around for every job, a worker's turn and a
  detached execution end, a store delete completes (all weak). Nothing is assumed
  of the chain: `DoubtEnds` speaks of transactions it has settled.

## 4. Findings

* `storage_ack_ttl`: a local self-ACK keeps the queued share as the head and records
  its own copy beside it. When the share's operation passes the TTL, the cleanup
  looks for retained copies only among operations with the head's own
  `shareOperationId`, finds none and drops the graph and the head, although the ACK
  copy is owed and retained. The handler and the gossip gate ask the same question
  by version (`storageAckOwedCopiesByScopeQuery`) and would find it.
* `lift_release`: two recovery lanes release a wallet under the job lock only, by
  reading the lock row and deleting it by wallet id. When the delete is slow and
  the wallet claims and sends another job meanwhile, that job's lock is deleted
  and the wallet is free with a transaction in flight. Narrow; the row keeps its
  evidence, so the publish itself stays single (`PublishedOnce`).

Observed while reading, not runs:

* `enqueueAndClaim` reports an uncertain write but, unlike `enqueue`, keeps no
  pending admission (`async-promote-queue-impl.ts:168`); when the write lands later,
  a job admitted in between owns the same assertion. With `LateInline = TRUE` TLC
  finds it as a violation of `OneOwnerPerAssertion`; it needs a store that applies a
  write after its caller was told it failed.
* Five gaps of the storage ACK, which `lapsed` records and the invariants of
  `storage_ack` except. Each is needed: with any one of them not recorded TLC finds
  a violation. The theorems show that there are no others.
  1. Without a root companion a request verified against the SWM graph writes no
     bytes under the lock, so a graph replaced or retired between the two is signed
     for unseen (`storage-ack-handler.ts:1788`).
  2. Operation rows and the head are replaced by a delete and an insert
     (`graph-scoped-ack-persistence.ts:286`, `workspace-resolution.ts:751`): a store
     failure or a crash between the two of a repeated ACK leaves an owed copy
     without its rows or its head.
  3. A ledger prune that runs inside such a rewrite takes the owed copy for an
     orphan and deletes its ledger row.
  4. The cleanup selects expired operations outside the asset's lock
     (`dkg-agent-lifecycle.ts:9769`) and does not look again: an operation signed
     anew in between loses its fresh rows, and with them graph and head.
  5. The audit writes a verdict it read earlier; "absent" or "released", read for an
     old signature, lands on a fresh one.

  The windows of 3 to 5 are milliseconds wide, 4 and 5 need a request after weeks.
* The SLO entry of a request-owned message outlives its call when a second call
  arrives during the awaited DHT walk (`messenger.ts:732`, against the comment at
  1066).
* A duration probe abandoned by one tick can be joined by a later one after an
  epoch boundary (`evm-adapter-random-sampling.ts:406`), and the solved-period
  record then outlives the period until its 60 s bound; it needs a tick interval
  below the probe's 30 s age limit.
* Pinned proof material is consulted only when the builder rejects the content,
  not when the extraction itself fails (`prover.ts:702`, against 229-231).
* The WAL entry appended after a torn line runs into that line and is unreadable
  after the next restart (`wal.ts:173`); `LossIsBounded` allows exactly this.
* `async-promote-queue-types.ts:236-249` says an operator cancels or recovers a
  job parked for inspection; `cancel` accepts queued jobs only and `recover`
  refuses parked ones, so clearing it is the only exit.
* A lift job released by an absence proof loses the accounted mark of its hash at
  the next pre-send reset, and may be held for the same transaction once more; the
  proof is then repeated, so this only delays it.
* A crash between the write-ahead and the send leaves a create whose nonce nobody
  consumes while its wallet is reserved by proof: the wait ends only when
  something else is sent from that wallet or the operator clears the job.

`SendReliableOpts.maxAgeMs` is documented and
not read by `sendFramed`; `noteDeliveredForSlo` counts a second delivery although
its comment calls the second call a no-op; the WAL statuses `started` and
`confirmed` are never written. With late receipts and a duration change together
`SkipIsSound` fails (a late `createChallenge` lands between the duration read and
the challenge read, across the boundary), and with late receipts
`WalMatchesChain` can fail (a late proof is credited to a later period whose
challenge pins the same content), so those two are checked without late
receipts.

## 5. Proofs

Every safety invariant and every action property that a passing run checks is
also a theorem, for every value of the constants that the modules' own
assumptions allow (any sets of messages, jobs, assets, wallets, workers,
handlers, any budgets, durations, windows and bounds). What the theorems assume
beyond that is a switch of the model, set as in the run that checks the property.

| Hypothesis | Theorems | What it excludes |
|---|---|---|
| `LateInline = FALSE` | `OneOwner`, `OpenPromoteStaysClosed` | an inline admission that lands after `enqueueAndClaim` reported it lost: it keeps no pending admission (section 4) |
| `LateReceipts = FALSE` | `LogIsAhead`, `SkipSkipsNoPeriod` | a transaction mined after its receipt wait gave up (section 4, last paragraph) |
| `SlowProbe = FALSE` | `SkipSkipsNoPeriod` | a duration probe joined after it outlived its timeout (section 4) |
| `SlowRelease = FALSE` | `OpenTxKeepsWallet` | the finding `lift_release` |

Without the hypothesis each of these properties is false in the model, and TLC
shows how. All proofs have the same shape: an inductive invariant, one step per
action (or per class of actions) for its preservation, and `PTL`.

### Outbox and Messenger

* `OutboxSafe`: `OutboxTypeOK` and `RetryOwnsRowAndDrain` of the outbox alone. The
  strengthening is `PageHasDrain`: a page is only loaded by a running drain,
  without which taking an entry could start a retry outside a drain.
* `FrontIsRead` (`DrainProofs`): `FrontRowIsRead`. The store's order is given as a
  relation; `DueOrder` says that it comes from numbering the due rows, which
  every step keeps (rows leave, or join behind the others). Numbers give a first
  row of any set of due rows (`LeastNatural`, from the well-foundedness of `<`);
  if the first eligible row were not in the page, the page would be empty,
  although that row alone is within both budgets (`OneFits`).
* `MessengerImplementsOutbox`: every step of the Messenger is an outbox step or
  a stutter (`OutboxSimulated`), so the component's invariant carries over.
* `TypeCorrect`, `SlotIsHeld`, `EffectsAreAccounted`, `DeliveredMeansHandled`,
  `DeliveredHasLeft`, `SloBounded`. The inductive invariant `IInv` conjoins the
  properties (of which `SlotHeldWhileWaiting` also says that a message without a slot
  has no copy whose answer would still be read) with `AnswerInv`
  (an accepted answer in hand was produced by a completed, recorded handler;
  without it `DeliveredWasHandled` is not inductive at the step that records an
  answer), `FreshInv` (a caller never holds the slot of a delivered message, so
  only a retry can meet one), `HandlerInv` (a running handler's message is not yet
  recorded) and `OwnerInv` (only request-owned messages are attempted by requests,
  so a request leaves the SLO entries of durable messages alone).
* `DeliveredIsNotResent` (`NoResendAfterDelivery`): only `Send` and
  `RetryOutboxEntry` take a slot (`SlotTakers`); the first checks the record, the
  second needs a row, and by `DeliveredLeavesOutbox` the row of a delivered
  message was torn off by a crash.
* `MessengerImplementsDelivery`: the steps that change a row or a record map to
  `Owe`, `Handle`, `Confirm` and `GiveUp`, the others are not seen
  (`UnseenSteps`). `AnswerInv` gives the guard of `Confirm`, `FreshInv` that of
  `Owe`, `HandlerInv` that of `Handle`.

### Prover and WAL

* `SamplingTypes`, `OneProof`: `ChainInv`. The stored cursor is a past block, no
  later period has a credit, and the period of the cursor is credited only by a
  solved challenge or a sweep's allowance. It speaks of the contracts alone, and
  `ChainEffect` says what any step, late transactions included, may do to them.
* `PinnedRootIsSubmitted`: `PinInv`, pinned material proves the root of the
  challenge it is pinned for.
* `LogIsAhead`: `LogInv`. Until a sweep a tick works on the node's own challenge, and
  past `built` its entry is in the log.
* `SkipSkipsNoPeriod`: `SkipInv`. What a tick has read of a challenge of the current
  epoch stays true while it goes on reading: its period is the cursor's or over, and
  a duration read with it is the one in force (`ReadInv`); so the record's re-read
  block lies inside its period as long as the epoch is the same (`RecordInv`).
* `LossBounded`: `WalInv`. The file is the synced image or one line ahead of it; a torn
  last line holds no acknowledged entry; and every entry that is lost, or that a torn
  line will still cost, has a tear of its own (`LossIsPaid`).

### Promote queue

`QueueInv` is `TypeOK` with `Shape`, `Provenance` (an id is handed to persistence
once), `InDoubt` (a write in doubt is all there is of its job) and `Tokens` (no two
workers hold one lease token of a job). On it rest

* `OneOwner`: `LaneGuard`, an admission in doubt keeps every other job of its lane from
  owning the assertion, which is what the coordinator's flights are for;
* `ObligationsAreKept`, an action property: no step outside a worker's `succeed` and
  its certified rejection takes an obligation from a row (`QuietStep`);
* `SucceededWasShared`: `SharedInv`, from the commit to the row through the marker;
* `RetiredLeftNoEffect`: `SectionInv`, one executor per whole-asset job and none beside a
  certified rejection whose lease is still the row's;
* `OpenPromoteStaysClosed`: `OpenInv`, a worker past its started marker finds the row as
  it left it, parked or gone.

### Lift queue

`Steps` reduces every action to a row that moves in one of ten ways (`Moves`), a
signature, a send, or the chain; the invariants are proved for those. `QueueInv`
is `TypeOK` with `TxInv`, `RowInv` (what a row inherited did nothing and never
will), `WorkInv`, `SenderInv` (a worker that sends has the last transaction of its
job, named by the row), `DetachedInv` and `AskedInv` (a verdict the dispatcher asked
for stays true of its transaction however late it is applied), and gives
`LiftTypes`, `EvidenceIsKept`, `SendersAreFenced`, `FinalizedHasLanded` and
`RemovedIsFinal`.

* `AssetIsPublishedOnce` adds `OrderInv` (of the jobs of an asset only the last
  occupies it) and `OnceInv` (once a transaction of an asset has landed, no job of it
  gets as far as signing): a second signature needs a preflight that saw nothing
  landed, and by `EvidenceKept` what may still land is named by the one job that
  occupies the asset.
* `OpenTxKeepsWallet` adds `WalletInv`: a transaction in doubt keeps the wallet lock
  of its job; `LockMoves` and `WaitMoves` list what can take a lock and what can
  start a wait. It holds with `SlowRelease = FALSE`; the finding shows why.

### Storage ACK

`AckInv` is `TypeOK` with `LockInv` (the lock's holder is the one handler that
rewrites), `WriteInv` (what the holder has written so far), `DueInv` and
`PromiseInv`. The last is the argument: for every ACK that has left, or whose
signature is about to, and that no gap has hit since, the ledger row is owed and as
young as the publisher's clock says, and the copy is at the head or is being
rewritten with the same content. A pass may hold the copy at that moment; then it
chose it before the signature, its rows or its ledger row are younger than what the
pass looks for, and the step that acts on the choice is gap 4 or 5. Nothing is
assumed of overlaps, faults or the companion. `OwedCopyStays` and `DueCopyIsReady`
follow. `TtlSparesOwedCopy` is the property the finding `storage_ack_ttl` violates.

### Only model-checked

`QueuedIsDelivered`, `RecoveryReturns`, `DueRowIsRetried`, `StopTerminates`,
`LastPeriodIsProved`, `QueueDrains` and `DoubtEnds` are liveness properties: they
need fairness and ENABLED, which the proof system does not handle. What the
recursive library operators compute is proved only where a proof needs it
(`BytesOfOne`); for every input it would need induction over data, whose library
theorems the installed provers cannot instantiate. For this reason
`LossIsBounded` speaks of the lines of the file and not of the sequence
`Parsed` selects from them.

## 6. Not modelled

Framing, encoding, logging and metrics text; libp2p dialling and relays (the
Messenger sees loss, duplication, delay); the idempotency prune; RPC failover,
lagging endpoints and Hub rebinding; the weighted draw and the score formula;
Merkle trees and SPARQL extraction (their outcomes are inputs); the repair
operation queue (a repair succeeds or not). Of the lift queue: the raw lift lane,
pause and resume, the order in which jobs are claimed, the capabilities that
decide whether an execution can be detached, chain reorganisations (mined is
final), the append-only journal, and the sibling guard of the bulk clear, which
removes fewer jobs than the clear by id that is modelled. Of the promote queue:
rows of earlier formats, the coordinator's cache of owners and its limit of
pending admissions, and writes other than admissions that land late. Of the storage
ACKs: the publisher's collection, the gates on the signer and on the core's
promise to promote (a request that passes them is what is modelled), catalog and
entity-scoped requests, the repair of a corrupt head by sync, the grandfathering
of copies older than the ledger, and several sub-graphs of one asset. Membership,
shared-memory sync, finalization and the triple stores are subsystems of their
own, far larger than what one project of this kind can follow. `PROJECT.json` gives the reason for
each component that is left out.

## 7. Plan

1. Done: theorems for every safety and action property (section 5). Left: the
   properties of `OutboxDrain` proved in `DrainProofs` carried to `Messenger`
   through `OutboxSimulated`.
2. `AckCollector`: quorum against late answers and timeouts, composed with
   `StorageAck`.
3. `CoalescingRecurringTask` and the prover loop: one run at a time, a trigger
   during a run is not lost, stop drains.
4. `ChainEventLane`: cursor against partial failure.
5. `DedupRetention`: the prune window against the outbox's max age.
