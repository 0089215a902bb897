# A TLA+ verification of TAPIR (`src/tapir`)

The repository collects the systems of a performance study: TAPIR, Silo, Aria,
Star, Calvin, Janus, Cicada, DrTM, GAM, MICA, HERD and an H2 setup. Each is a
program of its own and none calls another. This project is about one of them,
**TAPIR**: the replicated, transactional key-value store under `src/tapir`. The
other systems are listed in `PROJECT.json` as not modelled.

## 1. Inventory of TAPIR

| part | sources (`src/tapir/`) | state | operations |
| --- | --- | --- | --- |
| lock server | `store/common/backend/lockserver.{h,cc}` | per key: state, holders, wait queue, map of waiters; counters | lockForRead, lockForWrite, releaseForRead, releaseForWrite |
| plain stores | `store/common/backend/kvstore.cc`, `versionstore.cc` | versions of each key; last reads | get, put, commitGet, getRange, getLastRead |
| two-phase-locking store | `store/strongstore/lockstore.cc` | locks, values, prepared transactions | Get, Prepare, Commit, Abort, Load |
| optimistic store | `store/strongstore/occstore.cc` | versions, prepared transactions | Get, Prepare, Commit, Abort, Load |
| TAPIR store | `store/tapirstore/store.cc` | versions, last reads, prepared transactions with timestamps | Get, Prepare, Commit, Abort, Load |
| clients | `store/{tapirstore,strongstore}/{client,shardclient}.cc`, `store/common/frontend/bufferclient.cc`, `store/common/promise.cc` | buffered transaction, promises, retry count | Begin, Get, Put, Prepare, Commit, Abort, callbacks |
| servers | `store/{tapirstore,strongstore}/server.cc` | the store of the mode | upcalls from the replication layer |
| IR (inconsistent replication) | `replication/ir/{replica,client,record}.cc` | record of operations, view, status; pending requests | propose, finalize, confirm, unlogged, view change, merge |
| VR (viewstamped replication) | `replication/vr/{replica,client}.cc`, `replication/common/log.cc` | log, view, client table, quorums | request, prepare, prepareOK, commit, state transfer, view change |
| lock service on IR | `lockserver/{server,client}.cc` | lock table, pending client calls | lock, unlock, Sync, Merge, Decide |
| weak store | `store/weakstore/*.cc` | values | get, put without transactions |
| time server | `timeserver/timeserver.cc` | last timestamp | LeaderUpcall, ReplicaUpcall |
| persistent register | `lib/persistent_register.cc` | a file and its next version | Write, Read |
| transports, configuration, latency, hashing, message logging | `lib/*.cc` | sockets, timers | I/O |
| benchmarks, tools, YCSB-T driver | `store/benchmark`, `store/tools`, `ycsb-t` | none | load generation |

**How the parts interact.** A client buffers reads and writes per shard
(`BufferClient`). `Commit` sends PREPARE to every participant, waits for the
votes, asks again on RETRY up to `COMMIT_RETRIES` times, then sends COMMIT or
ABORT. In `tapirstore` the requests go through IR: PREPARE is a consensus
operation, COMMIT and ABORT are inconsistent ones, and a Get is unlogged. In
`strongstore` they go through VR: the leader runs PREPARE before replicating it,
and a Get is unlogged. The promise behind a PREPARE, a COMMIT or an ABORT never
times out (`Promise::GetReply` waits without a limit), and IRClient and VRClient
resend those requests until they are answered. Only a Get is given up.

The build defines `NASSERT` (`Makefile:10`), so an `ASSERT` never stops the
program. The models go on where the code would. Some assertions are stated as
properties: those on `holders.size()` in `lockserver.cc` (`HoldersMatchState`),
those on `waiters.find` there (`QueueMatchesWaiters`), and the one on the queued
mode (`AdmittedInQueuedMode`, which the code violates). The others are not, among
them `lockserver.cc:27` (the clock has moved on since the waiter was queued; the
models have no clock), `store.cc:118` (a read that fails is of a version older
than the proposed timestamp) and `versionstore.cc:164` (some version of the key
is valid at the timestamp of a txn-s write).

**Where it gets hard.** Clients interleave between the Get of a key and the
PREPARE that validates it. Readers upgrade to writers against other readers.
Waiters in a lock queue time out, or never come back. A client stops waiting for
a PREPARE that is still under way, so it is executed after the ABORT. Retries
prepare the same transaction again at another timestamp. The `hazards` list of
`PROJECT.json` gives each at its line.

## 2. Modules

| module | models | kind |
| --- | --- | --- |
| `LockOps` | the entry of one lock and the functions of `lockserver.cc` on it | operators |
| `LockServer` | the table of locks and its four calls | component |
| `RWLock` | what a table of reader/writer locks promises | abstract specification |
| `LockStore` | `lockstore.cc` over the lock server, driven by `strongstore` clients | composition |
| `StoreOps` | the checks, commit and abort of `tapirstore/store.cc` over `versionstore.cc` | operators |
| `TapirStore` | a shard of one replica and the clients that commit on it | composition |
| `MC*` | the instances that TLC checks | |
| `*Proofs` | the theorems | |

### Locks

A lock is a record of its state, holders, queue and map of waiters, as in
`struct Lock`. Whether a waiter is too old depends on the clock, and
`checkTimeout` answers yes as soon as the seconds differ, so pruning may remove
any prefix of the queue: a lock function yields the *set* of its outcomes.
`LockServer` has one action per call. Any requester may make any call at any
time, which is more than the stores do and is what the class promises to cope
with. `MaxReaders` bounds the counter `readers`, which a write holder can
increment at will by asking for the read lock.

### Two-phase locking

`LockStore` runs one transaction per client. `Get` takes the read lock at the
server and returns the value. A client may give a Get up (`GetTimeout`); the
server executes it later or never, even after the transaction has ended
(`LateGet`), and the client does not know of a lock it grants. `Prepare` is one
round of `Client::Prepare`: the locks still missing are asked for key by key,
and the variable `others` says whether the other participants of the transaction
answered OK. `Commit` and `Abort` release what the client sent along, which for
`Abort` is an empty transaction.

### TAPIR

`StoreOps.Prepare` yields the possible outcomes of `Store::Prepare`. It is a
set because read and write sets are hash maps: any of several conflicts may be
the first one found. Timestamps are naturals; the code's (time, client) pairs
are totally ordered and distinct for distinct clients, which `TsOf` states by
giving the clients disjoint sets. In `TapirStore` a PREPARE is executed and
answered in one step (`ExecPrepare`), on IR's fast path or on its slow path
(`TapirDecide`). `OtherFails` is the early return of `Client::Prepare` when
another shard votes FAIL, and `ExecLatePrepare` executes the PREPARE it left
behind. `installed` is a history variable.

## 3. What TLC checks

| run | instance | result |
| --- | --- | --- |
| `lock_server` | 2 keys, 3 requesters, `MaxReaders` 3 | holders agree with the state, the queue with the map of waiters; counters never go below zero; a free lock goes to nobody who queued behind a remaining waiter, and no reader joins past a writer at the head of the queue; refines `RWLock` |
| `lock_store` | 3 transactions, 1 key, 2 attempts, 3 late Gets | prepared transactions hold their locks and do not conflict; reads stay current |
| `lock_store_ends` | 2 transactions, 2 keys, 1 late Get, fair | every transaction ends |
| `tapir_store` | 2 transactions, 2 keys, 1 attempt, txn-l | prepared reads stay valid, no conflict, no lost update, serializable |
| `tapir_retries` | 3 transactions, 1 key, 2 attempts, txn-l | reads stay valid, no lost update and serializable across re-prepares, of one transaction at a later timestamp and of the others at the same one |
| `tapir_txn_s` | 3 transactions, 1 key, 2 attempts, txn-s | prepared transactions stay valid and do not conflict |
| `tapir_ends` | 2 transactions, 2 attempts, fair | every commit ends |

**What `NoOvertaking` leaves open.** Waiters are passed in two ways: the
sole reader of a lock upgrades it without looking at the queue, and further
readers join a read lock while a reader, not a writer, heads the queue. A waiter that timed out loses its place. The property covers the other
admissions.

**Bounds.** Three requesters give a holder, a waiter and somebody who could
overtake. Two keys give crossed lock orders and write skew; three transactions
on one key give a prepared reader, a prepared writer and a committed writer at
once. Two attempts make the second PREPARE meet the entry of the first. The
timestamps are interleaved between the clients, so that each client may be early
or late. With three transactions only `t1` has a second, later timestamp: enough
for a re-prepare that moves past the other two. `MaxLate` bounds the Gets given up and still under way: one for each of
three transactions in `lock_store`, one in the runs with two keys.

**Fairness.** `LockStore` and `TapirStore` are weakly fair for the rounds of a
commit once it has started, and for the execution of COMMIT and ABORT: VRClient
and IRClient resend each request until it is answered. In `LockStore` an
application also ends what it began. Nothing is assumed about Get and Put.

`CHECK_DEADLOCK FALSE` is set where every transaction may have ended.

### Disagreements between the code and what it says

These runs end in a violation, and each is a finding in `PROJECT.json`.

| run | what happens | what the repository says |
| --- | --- | --- |
| `lock_store_queued_mode` | a requester queued for one mode is admitted for the other | `lockserver.cc:79` asserts that the modes agree |
| `lock_store_abort` | an aborted transaction keeps its locks | `lockstore.cc:125`: locks are dropped "on commit and abort" |
| `tapir_txn_s_cycle` | txn-s mode commits a cycle | `store.h:64` calls the mode serializable |
| `tapir_abstain` | a client commits although its shard abstained | `client.cc:171`: commit "if all votes YES" |
| `tapir_retry_time` | a retry is proposed before the shard's retry timestamp | `client.cc:172`: "Collect any retry timestamps" |

## 4. What is proved

TLAPS checks these for every set of keys, of requesters or transactions, and of
timestamps.

* `LockServerProofs`. The inductive invariant is `TypeOK` with `HoldersOK` and
  `QueueOK` of every lock. `LockOpsProofs` shows for one lock that each function
  preserves soundness, and what it does to the read and write holders.
  `LockServerImplementsRWLock` maps each call to a step of `RWLock`.
* `LockStoreProofs`. Sound locks, locks held by prepared transactions and by
  readers, and current reads are inductive together: a commit changes a key only
  while its writer holds the lock alone, so nobody else has read it.
* `TapirStoreProofs`. The two properties of prepared transactions are inductive
  only with where versions, entries and requests come from (`VersionsOwned`,
  `EntriesSent`, `RequestsSent`), with the existence of what was read
  (`ReadsExist`), and, for lost updates, with the fact that an accepted writer
  read something older than what it writes (`WritesFollowReads`).

The assumptions are the named `ASSUME`s of the modules: loaded keys are keys,
values are distinct from "no value", clients have disjoint timestamps.

Serializability, liveness and `CountersCoverHolds` are model-checked only:
liveness is outside what the prover handles, acyclicity and sums over the keys
need induction over data.

## 5. Plan

1. Done: lock server, two-phase-locking store, TAPIR store with its clients.
2. `OCCStore`: the optimistic store of `strongstore` and its timestamps.
3. IR: replica and client, first the normal case (proposals, fast and slow
   path, finalize, confirm), then view changes and record merging, with crashes
   and restarts from the persisted view; an abstract specification of an
   operation that survives.
4. VR: log, normal case, state transfer, view change; refinement of an abstract
   replicated log.
5. The IR lock service and its Sync, Merge and Decide; the TAPIR store on more
   than one replica.
6. Weak store, time server, persistent register.
7. Proofs: the IR and VR invariants, then the refinements.

## 6. What is not modelled

Transports, timers' durations, message encoding, configuration parsing, logging
and latency accounting are I/O or measurement. Load generators and the YCSB-T
driver only call the clients. The TrueTime commit wait of the Spanner modes
depends on real time. `tapirstore`'s `Server::Sync` and `Server::Merge` stop the
process (`Panic`), so a TAPIR shard does not survive a view change of IR.
