# A TLA+ verification project for MonoBucket

MonoBucket is a single-binary, S3-compatible object store: a C++ server (Drogon event loops, a
bounded pool of I/O threads) over RocksDB for metadata and one file per payload on a local file
system. This directory models its core and the services around it, model-checks them with TLC on
small instances, and proves their main guarantees with TLAPS for instances of every size: the storage
core, multipart uploads, quotas, buckets, the console, the request path with its bodies, reads and
power cuts, listings, and the services.

Paths below are relative to `src/backend/src/` unless they say otherwise.

## 1. The system

| part | state it keeps | operations | interacts with |
|---|---|---|---|
| **Storage engine** `storage/storage_engine.cpp` | barrier flag `checkpointing_`, upload limit | `beginWrite`/`finishWrite`, `getObject`, `deleteObject`, multipart, `recover`, `reclaim`, `checkpoint`, `fsck` | everything below; called from pool threads, several at once |
| **Blob store** `storage/blob_store.cpp` | files under `tmp/` and `objects/` | `create`, `commit` (rename), `abort`, `open`, `remove`, `sweepTemporaries`, `forEachBlob` | file system only |
| **Metadata store** `storage/rocksdb_metadata_store.cpp` | object, bucket, upload, part, user and key rows; the *reclamation log*; the audit ring | one RocksDB write batch per mutation, under a striped key lock and a bucket read/write lock | RocksDB |
| **Quota ledger** `storage/quota.cpp` | per bucket: quota, used, pending and reserved bytes, in memory | `reserve`, `extend`, `record*`, `setQuota`, `seed` | reports of the metadata store's commits |
| **Metadata cache** `s3/handlers.cpp`, `cache/` | encoded object and bucket records with a lifetime; breaker; Redis connections | fill on read, delete on write; memory, Redis or both | S3 handlers |
| **I/O executor** `core/io_executor.cpp`, `core/lifecycle.cpp` | a bounded task queue, the shutdown hooks | `post`, `stop` (drains) | handlers, console, maintenance timer |
| **Console** `server/console_api.cpp`, `server/console_session.cpp` | users, grants, keys, sessions, login throttle | sign-in, CRUD, revocation, presigned links | metadata store, engine, executor |
| **S3 request path** `s3/router.cpp`, `s3/sigv4.cpp`, `s3/operation.cpp` | none | classify, authenticate, identify, authorize, dispatch | console's rows, cache, engine |
| **Bodies** `s3/chunked.cpp`, `s3/object_handlers.cpp` | the decoder of one upload | verify and strip frames, trailers, checksums | engine's writer |
| **Policies and CORS** `s3/bucket_policy.cpp`, `s3/cors.cpp` | fields of the bucket record | parse, validate, match | request path |
| **Samples** `server/metrics_history.cpp` | a ring of deltas | `record`, `snapshot` | metrics |

### What is hard

* **Files and rows are two stores.** A write renames a file, then commits a row; a delete commits,
  then unlinks. The reclamation log joins them: a payload id enters the log before its first byte,
  leaves it in the batch that publishes a row, and re-enters it in the batch that releases it.
* **Everything runs concurrently**: requests, the periodic pass, backups; and the process may die, or
  the machine lose power, between any two steps.
* **Backups copy a running store**, metadata first and files second, held together by one flag.
* **The ledger is told after the fact**: commit and settlement are two steps.
* **Most multipart, bucket, user and key operations check first and write later** with no common lock.
* **Authority is read in pieces**: a session caches its account's role, the router reads the key, its
  owner and the bucket (through a cache) at different moments, the event loop judges what a pool
  thread runs later.
* **Two cache tiers** are filled by readers and emptied by writers who do not wait for one another.

### What makes each part correct

* Engine: the payload of every object exists; garbage is known to the log, is collected in the
  end, and is never an object; PUT, DELETE and backups look atomic; recovery leaves no residue; a
  power cut costs no more than the durability level allows.
* Ledger and buckets: charges stay within the allocation, cover what is stored, and no claim leaks;
  allocations fit the instance; no object outlives its bucket; access has a reason.
* Cache: it fits its budget, never gives an older value than the last one set, and forgets what is
  stale in the end. Reads: what a client puts together from several answers is one version.
* Multipart: an upload is consumed once; its parts belong to one object or to the log.
* Listing: pages partition the listing of a bucket, without loss or repetition.
* Executor: accepted tasks run; shutdown returns; the login throttle is overrun by no more than what
  was in flight.
* Console: an enabled administrator remains, no session outranks its account, revocation is final;
  each with the exceptions that the missing lock between two store calls makes (section 3).
* Request path: what is served was warranted while it was in service; what is published is what was
  sent.

## 2. The modules

| module | what it is |
|---|---|
| `ObjectMap` | abstract specification: keys to contents, one step per PUT and DELETE, backups as copies of the whole map at one instant |
| `StorageEngine` | the payload life cycle: engine, blob store and metadata store with workers, passes, backups and crashes |
| `StorageEngineProofs` | the theorems about `StorageEngine` |
| `Multipart` | uploads, parts, completion, abort and the expiry sweep, racing without a common lock |
| `MultipartProofs` | the theorems about `Multipart` |
| `QuotaLedger` | the charges of one bucket around the commits that cause them, and its allocation in the ledger and in the record |
| `Buckets` | bucket records and the division of the instance among them; the startup pass over policies |
| `UploadLimit` | the instance's upload limit: stored, seeded, clamped |
| `PowerLoss` | durability levels, a power cut, `fsck` and the restart |
| `Listing` | `ListObjects` and `ListMultipartUploads`, page by page while rows come and go |
| `ObjectReads` | conditional and ranged GETs against overwrites and the cache |
| `MemoryCache` | one shard of the memory cache |
| `MetadataCache` | one record over the local and the shared tier, with the breaker and the connection pool |
| `IoExecutor` | the pool, its condition variable, the login throttle and the shutdown |
| `AuditLog`, `MetricsHistory` | the two rings |
| `Identity` | roles, permissions and bucket grants; used by `Console` and `RequestPath` |
| `Console` | accounts, sessions, keys, sign-in, migration and provisioning |
| `RequestPath` | one S3 request from the socket to its handler, and the cached bucket record it is judged by |
| `BucketPolicy` | the accepted policy grammar, and a statement-by-statement evaluation as its reference |
| `ChunkedBody` | the body of an upload over a faulty path |
| `Cors` | rules, preflight and request |
| `ConsoleProofs`, `QuotaLedgerProofs`, `BucketsProofs` | the theorems about the module of that name |
| `RequestsProofs` | the theorems about `RequestPath`, `ChunkedBody`, `Cors`, `ObjectReads`, `PowerLoss` and `Listing` |
| `ServicesProofs` | the theorems about `MetadataCache`, `UploadLimit`, `IoExecutor`, `MetricsHistory`, `MemoryCache` and `AuditLog` |
| `RecursionTheorems` | what recursion computes: sums of a function over a finite set (the totals of `QuotaLedger`, `Buckets` and `MemoryCache`) and loops (`MemoryCache`, `Listing`) |
| `MCStorageEngine`, `MCMultipart` | constants and symmetry for TLC |
| `MCConsole` | the same, and the three scopes in which `Console` is explored |
| `MCBuckets`, `MCServices`, `MCRequests` | compositions for TLC of parts that share no variable: a behaviour moves one part, so the state space is a sum and not a product |

### StorageEngine and the code

State: `rows` (object rows of one bucket), `tracked` (the reclamation log), `aged` (records older
than the grace period), `tmp` and `tree` (the two directories), `mode` (process life cycle); for
each worker a program counter and the payload id it holds; for each pass its list; for each backup
its snapshot, its walk and what it has linked; `checkpointing` is the flag of the same name. A row
is its payload id: each write gets a fresh one, so the id stands for the content.

One step is one RocksDB batch (atomic under its key lock) or one file system call. Between any two
of them every other thread may run:

* `beginWrite` = `CreateBlob`, `TrackBlob`. The body and all its early refusals = `AbandonWrite`.
* `finishWrite` = `CommitBlob`, then `RefuseWrite` (quota, missing bucket, a failed directory sync
  or batch) or `PutObject`, then `reclaimNow` of the payload that was replaced.
* `deleteObject` = `DeleteObject`, then `reclaimNow`. A key with no object changes nothing.
* `getObject` = `ReadRow`, `OpenBlob`.
* `reclaimNow` = `CheckBarrier`, `RemoveBlob`, `ForgetOrphan`.
* `reclaim`/`reclaimOlderThan` = `SweepCutoff`, `SweepCheckBarrier`, `ListOrphans`,
  `SweepRemoveBlob` (one file each), `ForgetOrphans` (one batch). `GracePeriodEnds` is the clock.
* `checkpoint` = `RaiseBarrier`, `SnapshotMetadata`, `BeginWalk`, `LinkPayload` or `PassOver` for
  each entry, `FinishCheckpoint` or `FailCheckpoint`. A directory walk is only guaranteed to meet
  files that are there from its beginning; younger ones it may meet or miss.
* `Crash` at any time loses the threads and keeps files and batches. `recover` = `Restart`,
  `SweepTemporary`, `RecoverOrphans` and the pass it starts, `OpenListeners`.

Two constants name what the code does not control. `UnlinkErrors`: `BlobStore::remove` may fail; the
failure is logged and the record dropped all the same. `SlowUploads`: an upload may outlast
`reclaimGraceMs`. The documentation asks the operator to prevent that; the configuration refuses
less than 60 seconds and no upload has a deadline.

### Multipart and the code

State: `live` (upload rows), `part` (part rows), `object` (the row of the one key all uploads are
for), `tracked` and `tree` as above, `active` (uploads whose newest part is after the cutoff of the
expiry), `queue` (what the sweep has listed); for each thread its program counter, the upload and
part numbers it works on, the payload it will publish, and the payloads it has read and will append
or release.

* `finishPart` = `BeginPart` (look-up and rename), `RefusePart` (ledger), then `putPart` =
  `CheckUpload`, `ReadPart`, `WritePart` under the lock of the part row.
* `abortUpload` = `RequestAbort`, `LoadUpload`, `CollectParts`, `AbortUpload` under the lock of the
  upload id; the sweep runs the same steps.
* `completeUpload` = `ListParts`, `AppendPart` for each part, `CommitAssembled`, then
  `LoadCompleted`, `GatherReleased`, `CompleteUpload` under the lock of the object key.
* `reclaimNow` = `RemoveBlob` and `ForgetOrphans`, or `DeferRelease` when a backup is copied.
* `sweepExpiredUploads` = `BeginSweep`, `ExamineUpload`, `EndSweep`; `BecomeIdle` is the clock.

No lock is common to the three, so each step that reads and each that writes is separate. What
`StorageEngine` already takes apart is one step here: writing a payload, a reclamation pass
(`ReclaimOlder`, which spares payloads in flight, as without slow uploads) and a restart.

### QuotaLedger and the code

A worker reserves the declared length (`Reserve`, zero for a chunked body), raises its claim to the
size that arrived (`Extend`), commits (`PutObject`) and settles (`RecordObject`), or gives its claim
back (`Release`). A delete commits (`DeleteObject`) and settles (`RecordDeletion`). Every ledger call is
one step because it holds the ledger's mutex. An empty object and no object are both 0 bytes.

`setBucketQuota` is four calls: `ReadAllocation` reads the record, `SetQuota` is the ledger's decision,
`WriteQuota` writes the record or fails, and `UndoQuota` then puts the ledger back, by the call that may
refuse. The routes that change another field of the record read it and write it back whole
(`ReadRest`, `WriteRest`), so a change of the allocation in between is lost from the record. `Restart`
is `seedQuotas` at any of these moments: the allocation comes from the record (`recorded`), the charge
from the store. `reverted` is history: the last start enforced another allocation than the process
before it. Creation and deletion of the ledger's entry (`track`, `forget`) are in `Buckets`.

### Buckets, UploadLimit and the code

Every call of the store or the ledger is a step; an engine operation is a job on a thread of the pool,
with what it has read so far. `createBucket` = `Create` (admission), `InsertRecord`, `Track`;
`deleteBucket` = `DeleteBucket`, `Forget`; the routes that change a record (`handlePutBucketAcl`,
`handlePutBucketPolicy`, `handleDeleteBucketPolicy` and the console's access, quota, CORS and policy
routes) = `ReadRecord`, for quotas `SetLedgerQuota`, then `UpdateBucket`, which may fail, and then
`RestoreQuota`. A write is one byte: `ReserveByte`, `CommitByte` (the store refuses a bucket that is
gone), `Settle`; `RemoveObject`, `Uncharge` is the other way. `RestartBuckets` is `seedQuotas` and
`reconcileBucketPolicies`, with records of older releases (`Inherited`). `asked` is history: the access
last given. `UploadLimit` has `seedUploadLimit` and `setMaxUploadBytes` (store, then publish).

### PowerLoss and the code

A file has a content that may be unflushed and a name that may be unflushed; the write-ahead log is the
sequence of metadata states since the last sync. `CommitPayload` flushes what the slot's level asks
(`blob_store.cpp`), `Publish` and `Unlink` sync the log for a strict bucket only. A payload has a shard
directory (`ShardOf`); the first one in a directory creates it (`CreateShard`), and nothing flushes the
directory's own entry, at any level. `PowerCut` keeps any subset of what was not flushed, new
directories included, and any prefix of the log; `lost` is history, the payloads that went with a
directory. `RunFsck` computes the findings of the
stopped store, `Restart` is `recover`. `StorageEngine` has the interleavings; here one request at a
time works on a key, and what matters is what of it reached the disk.

### Listing, ObjectReads and the code

`NextPage` is one `listObjects` (`ObjectPage`: `resumePoint`, prefix, common prefixes, `maxKeys`) or one
`listUploads` (`UploadPage`, marker pair); `Walk` is the iterator's loop, one reported entry per round, a
group left in one jump; `ChangeRow` is any store or delete in between. Keys are
sequences of letters so that prefixes, the delimiter and byte order are the real ones. In `ObjectReads`
the GET handler is `StatObject`, `FillCache`, `Decide` (`evaluatePreconditions`, `parseRange`),
`OpenPayload`; the writer `Overwrite`, `ReclaimOld`, `InvalidateObject`; the client fetches, resumes with
a range and revalidates over connections that break.

### The caches and the code

`MemoryCache`: `list` is the shard's list in eviction order, one step per operation since each holds the
shard's lock; an expired hit is the one exception and takes two. `MetadataCache`: a thread is a look-up
(`Lookup`, local tier, `AskBreaker`, `Acquire`, the command, `CopyToLocal`, or `ReadStore` and the fill)
or a change (`Commit`, then deletions in both tiers). `AllowShared`, `RecordSuccess` and `RecordFailure`
are the breaker of `fallback_cache.cpp`; entries vanish at any time (`LoseLocal`) and expire when they
have a lifetime (`ExpireShared`).

### IoExecutor, the rings and the code

A worker is awake, asleep on the condition variable, gone, or running a task. `Pushed` queues under the
lock; `Notify` is the notification made after the lock is released. `AskThrottle` runs on an event loop,
`PostLogin` posts the password check (or answers 503 when the queue is full), `RunLogin` tells the
throttle and posts the audit entry. `Quit`, `StopExecutor`, `Join`, `Flush` are the shutdown hooks in
order. `AuditLog` keeps the batches of the log with how many are synced; a power cut keeps a prefix, what
the table then holds is `Stored`, and the sequence is found again from the highest key. `MetricsHistory` is `record` and `snapshot`.

### Console and the code

A route is judged on the event loop (`Submit...`: throttle, session, `Guard`, the self and last-admin
refusals that need no store) and posted; a pool thread then runs its store calls one by one (`CheckTaken`,
`ReadUser`, `WasLastAdmin`, `DecidePatch`, `DecideDelete`, `RevokeOwned`, `DeleteUser`, `PutUser`,
`CloseUser`, `Reopen`, `CreateKey`, `ReadKey`, `RevokeKey`, `RotateKey`, `LoginVerify`, `LoginOpen`).
`Boot` is the start: `MigrateAdministrator`, `AdoptForMigrated`, `DropLegacyRecord`,
`StartWithStoredUsers`, `RestoreAdministrator`, `AdoptForRestored`, each of which a `Restart` may interrupt.
A session holds the principal it was opened with, as in `console_session.cpp`. `raced` is history: the
accounts whose row was written while another request was between reading it and opening a session with
what it read; the account leaves the set when its sessions are closed with no such request under way.

### RequestPath, BucketPolicy, ChunkedBody, Cors and the code

`RequestPath`: `classify` of `operation.cpp` in full; a signature is the secret together with everything
the canonical request covers, so it verifies exactly when both are as signed. `Authenticate` (header,
presigned or none; clock skew and expiry; the key's row), `Preflight`, `Identify` (the owner's row),
`Authorize` (a signed request's permission) and `Dispatch` are separate steps; `ChangeKey`, `ChangeOwner`,
`PutPolicy`, `PublishObjects` run between them, and `Alter` and `Deliver` change or repeat a message. An
anonymous request is judged on what `requireBucket` returns: `HitBucket` decides on the cached entry, which
does not encode `publicList`; `MissBucket` reads the stored record and `FillBucket` caches it and decides on
it. `records` are the bucket's records in the order they were stored. A change is a `Commit` of a new one and
an `InvalidateBucket` before its answer; until then it is `pending`, and a change whose request fails in
between stays so. Other readers fetch (`ReadBucket`) and fill (`CacheBucket`), and an entry may go at any time
(`DropEntry`). `late` is history: the entry was put after a change that its reader did not see was answered.
`Observe` is history: which grounds have held since the request arrived. `ChunkedBody`: a body may be framed
because of its payload marker or, under a digest of the whole, because of its encoding; a frame carries data, size and signature; `TakeChunk` verifies the chain, `TakeTrailers`
the trailer block, `FinishWrite` the checksum and the limit. `Cors`: `matchCors`, `validateCorsRules`, the
preflight and the request that follows it. `BucketPolicy`: `understood` is the grammar that
`bucket_policy.cpp` accepts; a document outside it is refused, and `EverybodyIsGranted` is the reference.

## 3. The runs

| run | question | result |
|---|---|---|
| `engine_faults` | Do objects and backups survive two concurrent requests, a pass, a backup, failing unlinks and crashes? Does the engine implement `ObjectMap`? | holds, 779k states |
| `engine_liveness` | When unlinks work, is every stray file in the log, does recovery leave a clean tree, and is garbage collected in the end? | holds, 86k states |
| `multipart` | Do parts and objects keep their payloads when parts, completions, aborts, the sweep and restarts race? | holds, 1.0M states |
| `console` | With one job at a time, does an administrator remain? With two, which sessions outrank their account, and which revoked keys come back? | holds, 888k states |
| `services` | Does the cache keep its budget and forget what is stale, is the breaker's probe carried, are logins answered and bounded, does shutdown end, do the rings show their latest entries? | holds, 72k states |
| `buckets` | Do charges stay within the allocation and cover what is stored; does no object outlive its bucket; do ledger and records agree; does the limit survive a restart? | holds, 1.03M states |
| `requests` | Is what is served warranted and what is published as sent; are preflights honoured, listings exact, downloads one version; what does a power cut cost, and does `fsck` tell? | holds, 1.40M states |
| `engine_two_backups` | Is a backup complete when two overlap? | **violated** |
| `engine_slow_upload` | Is an object safe when its upload outlasts the grace period? | **violated** |
| `console_last_admin` | Does an administrator remain with two I/O threads? | **violated** |
| `listing_folder_marker` | Is paging exact when a key ends in the delimiter? | **violated** |
| `strict_payload_lost` | Does an acknowledged strict write survive a power cut? | **violated** |

**Bounds.**

* Engine: two keys, so that a payload could be mistaken for another key's; three payloads, so that
  an overwrite, a write in flight and a released payload coexist; two workers, the fewest that race on
  a key; one pass with a batch of 1, so that a pass leaves work behind; one backup (two in
  `engine_two_backups`). Payload ids are reused once nothing remembers them, so behaviours are
  unbounded in length although states are few. The theorems lift every one of these bounds for the
  safety properties, here and wherever section 4 has one.
* Multipart: two uploads for one key, two part numbers, three payloads (an old and a new part and an
  assembled object), two workers beside the sweep, and a sweep of two.
* Buckets: the ledger has three workers because a drift takes two and an admission must see it, and one
  may be changing the allocation; sizes 0 to 2 against allocations of 0 (none) and 2 give exact fits,
  refusals, clamping, rollbacks that are refused and starts that find a bucket over-full. Keys and workers
  are symmetric. Two buckets share an instance of 2; with two threads only one bucket is in play, since
  the races are on one record. `NotOverAllocatedAlone`, `LedgerFollowsRecords` and `AccessHasReason` speak
  of processes with one I/O thread; `ObjectsHaveBucket` of all.
* Console: two names (one of them the configured administrator), one key, two requests under way and one
  waiting, two threads. Everything beside everything is too much for one run, so a behaviour has a scope
  (`MCConsole`): *alone*, one job running at a time with several administrators and legacy stores;
  *sessions*, two jobs at once on accounts and sessions, which may be narrowed; *keys*, two jobs at once on
  accounts and keys. A machine with one core, or `MONOBUCKET_IO_THREADS=1`, is the first, and the event loop
  still interleaves with the thread. In the other two there is one administrator; `console_last_admin` is
  what becomes of two.
* Services: a budget of 2 against weights 1 to 3 (fits, evicts, can never fit); a threshold of 2, one
  connection, so that a thread may wait for it; a queue of 1 for two workers; five logins against a
  throttle of 1; rings of 2 with five or six entries, so that they wrap more than once.
* Requests: eight request forms, one for each way `classify` and `authorize` treat a request. With the
  identities in motion: two secrets, one edit and one mishap at any point. With the bucket in motion:
  anonymous requests, two changes of the record out of 42 policy documents and the toggle, and two other readers, so
  that a fill from before both changes can come after both. Bodies of up to two chunks with two faults. Up to two
  CORS rules, put twice. Keys of up to three letters with pages of 1 or 2 and a change between them. Three
  versions of an object and three GETs. A slot at each durability level and a part, two payloads in one
  shard directory and two cuts, each of which may leave any combination of what was not flushed.

Deadlock is checked wherever a request can always arrive. `services`, `requests`,
`listing_folder_marker` and `strict_payload_lost` switch it off: their counters are bounded and some parts (one upload, one
listing, one process life) really end.

**Fairness.** `engine_liveness`: weak fairness of a worker that has started a request, of each pass,
of recovery and of the clock. Pool threads run until their task ends, the maintenance timer
reposts the pass for ever (`server/server.cpp`, `scheduleMaintenance`), and time passes. No fairness
is assumed of requests, backups or crashes. `GarbageReclaimed` has a premise: from some point on the
process is up and no backup copies. It does not apply to a deployment with
`MONOBUCKET_RECLAIM_INTERVAL_SECONDS=0`, which has no periodic pass, nor to a pool so saturated
that every tick is refused. `services`: `CacheFairness` (a thread goes on, a deadline passes, a cooldown
ends; an entry with a lifetime expires) and `PoolFairness` (workers are scheduled, the event loop posts
the login it was asked for, a notification that is due is made, the main thread goes through its hooks).
Nothing obliges a request to arrive, or the process to be asked to stop. `StaleEntryLeaves` needs a
finite `MONOBUCKET_CACHE_TTL_SECONDS`.

**Mutants.** Next to a definition stand variants with a plausible bug (`PutObjectKeepsRecord`,
`SweepCutoffNow`, `RecordFailureKeepsProbe`, `resumePointInside`...). Each property is violated by one
of them.

### What the violated runs show

1. *Two backups.* `checkpointing_` is one `bool`. The first backup to end clears it under the second;
   a delete then unlinks a payload that the second snapshot names and the walk has not reached, and
   the backup ends in success without it. `README.md:280` promises otherwise.
2. *Slow upload.* A pass lists the record of a write in flight, the write renames and commits, and
   the pass unlinks the object's payload. `storage_engine.hpp:489` says it cannot, and
   `metadata_store.hpp:248` expects a leak at worst.
3. *The last administrator.* `console_api.cpp:1270` counts the enabled administrators in one store call
   and takes one away in another. Two threads each count two. `server.cpp:132` concludes from the check
   that a store without an administrator was edited from outside.
4. *A folder marker.* `resumePoint` (`rocksdb_metadata_store.cpp:1562`) takes every marker that ends in
   the delimiter for a common prefix. With prefix `a/`, the key `a/` itself can end a page, and the next page
   starts past everything below it. The test "pagination walks the whole keyspace exactly once" has no
   such key.
5. *A strict payload.* `commit` (`blob_store.cpp:191`) creates the two shard directories of a payload on first
   use and flushes the inner one, which names the file; the entries of the directories themselves are never
   flushed. A power cut may take the directory, and with it the payload of a write that was acknowledged.
   `durability.hpp:22` says that strict survives a power cut.

### Limits of what holds

Some statements in the modules are in no run: the code keeps them only under a condition, which the property
that is in a run states as an exception. Each is violated when it is added to the configuration named.

* `OpenFindsPayload` (`StorageEngine`, `EngineFaults.cfg`): `getObject` reads the row, then opens the file;
  a delete or overwrite in between unlinks it, and the read of a sound store ends in the error that
  `storage_engine.cpp:525` keeps for corruption.
* `PartsAccounted` (`Multipart`, `Multipart.cfg`): a part is checked, the upload is aborted or completed,
  and the part's batch then writes a row of an upload that is gone and drops the payload's reclamation
  record; file and row stay. A replaced part can be lost the other way round.
* `SweepSparesActive` (same): the sweep finds the parts idle and aborts; a part stored in between goes
  with the upload, "the one outcome this sweep must never produce" (`storage_engine.cpp:587`).
* `AllocationBounds` (`QuotaLedger`, `Buckets.cfg`): the ledger takes a raised allocation, a write is admitted
  against it, and the process stops before the record is written; the next one starts with more charged than
  it allows. `storage_engine.hpp:128` says that the two never disagree. What remains: `NeverOverAllocated`,
  until such a start, and `ChargeWithinAllocation`, the charge never grows past the allocation in force.
* `FailedChangeUndone` (same): the rollback of an allocation whose record could not be written
  is refused when the raise has been used; the ledger keeps what the failed request asked for, against
  `storage_engine.cpp:366`.
* `UsedIsStored` (same): a PUT commits, a DELETE of the key commits and settles
  first; its subtraction is clamped at zero and the PUT then adds its bytes. The ledger charges for an
  object that is gone, until a restart; never too little (`StoredIsCharged`).
* `NotOverAllocated` (`Buckets`, `Buckets.cfg` with `Contended = {b1, b2}`): two threads admit their
  buckets before either is tracked, although `storage_engine.cpp:265` says the allocation is checked again.
* `AccessNotWidened` (`Buckets`, `Buckets.cfg`): `setBucketPublicRead` (`storage_engine.cpp:301`) changes the
  flags and keeps the policy, from which the next start derives the flags again: a bucket made private is
  public, and is counted as narrowed.
* `SessionsFollowAccounts` (`Console`, `Console.cfg`): a sign-in that verified its password opens its session
  (`console_api.cpp:775`) after another thread changed the row and closed the account's sessions; it keeps
  the old rights until it expires. `console_session.hpp:41` says that every change closes the sessions.
  `AuthorityIsCurrent` names these accounts.
* `SessionsEnabled` (same): a password change that was accepted while its account was enabled runs after
  the account was disabled, and signs its caller in again (`console_api.cpp:1429`); one thread is enough.
* `RevokedNeverReturns` (same): a rotation that read the key (`console_api.cpp:1001`) writes the
  row back (line 1012) after a revocation in between. `RevokedStaysRevoked` leaves out such keys.
* `KeysAttributed` (same): a restart between the migration of the administrator and the
  adoption of the keys; the next start finds the account and skips the adoption.
* `ClosedForTheNext` (`RequestPath`, `Requests.cfg`): a reader fetches the record of an open bucket, the
  bucket is closed, its entry dropped and the change answered, and the reader then caches what it has
  (`handlers.cpp:189`); anonymous requests are served from the entry until its time runs out.
  `console_api.cpp:1705` drops the entry in order to prevent just that. `ServedWasWarranted` names such an entry.
* `OpenIsServed` (same): an entry leaves out `publicList`, so a listing that the policy opens to
  everybody is answered on a miss and refused on a hit.
* `ReadAfterWrite` (`MetadataCache`, `Services.cfg`): the late fill again, for any record, against
  `handlers.hpp:96`. `StaleEntryLeaves` is the promise that remains.
* `WarmAnswersAsCold` (`MetadataCache`, with `ListedVersions = {1}`): the missing field again.
* `DigestVerified` (`ChunkedBody`, `Requests.cfg`): a body framed by its encoding and signed as a whole,
  which `handlers.cpp:117` calls legal, is decoded without signatures and never compared with the digest;
  what a fault altered is stored. `PublishedAsSent` claims the bodies that are checked.

Also met while modelling, and in the models as the code has it: `key-marker` without an upload id does not
skip the uploads of that key; an audit append that fails still advances the sequence; a preflight's
headers may come from one rule and the exposed ones from another; a relaxed overwrite interrupted by a
power cut may leave a row without its payload, and an unlink that was lost leaves a file even on a strict
server, both of which `fsck` reports; the record of a part has no digest to check; `fsck` passes over
files dated after its start; the console's creation and deletion of a bucket do not invalidate the
bucket's cache entry, which its lifetime ends.

## 4. The proofs

### StorageEngine

`StorageEngineProofs` proves, for every finite or infinite choice of keys, payloads, workers, passes
and backups and every batch limit (assumption `StorageAssumption` only, plus what is named):

| theorem | statement | premises |
|---|---|---|
| `TypeCorrect` | `Spec => []TypeOK` | |
| `PayloadSafety` | `Spec => []PayloadPresent` | no slow uploads |
| `LogSafety` | `Spec => []LogIsGarbage` | no slow uploads |
| `BackupSafety` | `Spec => []BackupComplete` | no slow uploads, `OneBackup` |
| `NoPayloadLeaks` | `Spec => []TreeAccounted` | no slow uploads, no unlink errors |
| `RecoverySafety` | `Spec => RecoveryLeavesNoResidue` | no slow uploads, no unlink errors |
| `Refinement` | `Spec => ImplementsObjectMap` | no slow uploads, `OneBackup` |

The premises are necessary: the violated runs and the limits above show what fails without them.

* **`ReclaimInv`.** `PayloadPresent` is not inductive: an unlink preserves it only if no row names the
  file, which depends on who holds its id. The invariant adds that: rows never share a payload; a
  payload being written belongs to one worker, is in no pass's list and is not aged; what a worker is
  about to unlink, and all of a pass's list, no row names; while the process is not up no request
  runs. A released payload can never be named again, because only its writer could publish it.
* **`BackupInv`.** While a backup copies, the flag is up; a payload its snapshot names is in the tree
  until linked; a thread already past the flag's check holds no payload of the snapshot, since its
  release was committed before the flag was raised. This is the ordering argument of the comment on
  `checkpointing_`, and it uses `OneBackup` in one place: nobody else lowers the flag.
* **`TreeInv`** adds that a write's payload stays in the log until its row commits, and that a record
  is dropped only after its file. **`RecoveryInv`** says that until the listeners open some pass holds
  the whole log.
* **`Refinement`.** Under these invariants no content is lost, so the mapping is the rows and the
  snapshots; only the two row batches change the former and only `SnapshotMetadata`, a failure, a
  crash or a new backup the latter.

### Multipart

`MultipartProofs` proves `TypeCorrect`, `PayloadSafety` (`Spec => []PayloadsPresent`) and `LogSafety`
(`Spec => []LogIsGarbage`) for every set of uploads, part numbers, payloads and workers, from
`MultipartAssumption` alone. Neither property is inductive, since a batch logs what its thread read
some steps earlier and an unlink trusts that batch. **`OwnInv`** is about ownership: a payload is
named by one row at most (`NamedOnce`); a payload yet to be published is in the tree, in no row and
in nobody else's hands (`WritesOwn`); what a batch is about to release is named by no row except one
that the same batch deletes or overwrites (`HeldRows`); what is about to be unlinked no row names
(`ReleasedFree`). So the missing locks cost payloads that leak, never payloads that are needed. The
three batches are instances of one lemma, `BatchStep`.

### Console

For any sets of names, keys and requests, from `ConsoleAssumption`:

| theorem | statement | premises |
|---|---|---|
| `ConsoleTyped` | `Spec => []TypeOK` | |
| `AuthoritySafety` | `Spec => []AuthorityIsCurrent` | |
| `RevocationIsFinal` | `Spec => RevokedStaysRevoked` | |
| `AdministratorSafety` | `Spec => []AdminRemains` | `IoThreads = 1` |

The first three hold for pools of any size. **`SessionInv`** is for `AuthoritySafety`: a request that will open
a session with what it read still has the row as it is, or its account is in `raced` (`ReadsCurrent`);
sessions are copies of the rows but for an account in `raced` and one whose sessions are about to be closed
(`SessionsCopyRows`, stronger than the property, which compares rights and not principals); before the
console serves nothing runs and nobody is signed in (`IdleBoot`). `RevocationIsFinal` needs the types only: a
rotation insists on a row when it reads, so none that begins after the revocation comes to write.

`IoThreads = 1` is a configuration of the program, and `console_last_admin` shows that the premise is
needed. **`ConsoleInv`** says what it buys: at most one request is between two of its store calls
(`OneRunner`), so what it has read of an account and of the number of administrators is still
so when it writes (`ReadsHold`), and an administrator that had to be restored is there before the
console serves (`RestoredFirst`).

### QuotaLedger, Buckets and sums

`LedgerTyped`, `ClaimsCountedOnce` (`ReservedIsClaimed`), `ChargeSafety` (`StoredIsCharged`),
`AllocationSafety` (`NeverOverAllocated`) and `GrowthSafety` (`ChargeWithinAllocation`) hold for every finite set of keys and of workers, any sizes and
any allocations. The properties are sums, and an admission sees the total only. **`LedgerInv`** adds that
a claim covers the size it will be settled with, that only writes hold claims and only commits know
what they freed, and `LedgerNotBehind`: stored bytes with those freed and not yet taken off are at most the
ledger's count with those committed and not yet counted. The clamp of the subtraction can only push the
ledger ahead, which is why `StoredIsCharged` is provable and `UsedIsStored` (above) is false. Every way to
change the allocation within a process asks `Covers`, the rollback too, so `NeverOverAllocated` needs no
record; a restart keeps it unless the record says something else, which is what `reverted` remembers.

`ObjectsSafety` (`ObjectsHaveBucket`), `InstanceSafety` (`NotOverAllocatedAlone`), `LedgerSafety`
(`LedgerFollowsRecords`) and `AccessSafety` (`AccessHasReason`) hold for every finite set of buckets and
any number of threads; the last three speak, as properties, of processes with one I/O thread.
**`SharedInv`** is for all processes, **`AloneInv`** for those: every bucket but the one being worked on is
as a restart would make it, that one is off by exactly what its job's next step puts right (`Own`), and a
job that has been admitted still has its room (`Room`).

`RecursionTheorems` has the arithmetic: a sum of natural numbers over a finite set is one (`SumNat`), removing
an element takes off its value (`SumRemove`), sums are monotone, `SumUpdate`: changing one entry
changes the sum by the difference, and `SumInjects`: what maps one to one into something at least as heavy
weighs no more. It also has loops: a function defined by recursion on the round exists and runs as
written (`LoopRuns`), so that a fact which holds at the start and which a round keeps holds at the end
(`StepInduction`). The library's induction rules take a predicate as a parameter, which the provers cannot
instantiate; here the rules are stated for a set of sets (`SubsetInduction`) or of numbers in place of a
predicate, which they can.

### RequestPath, ChunkedBody, Cors, ObjectReads, PowerLoss and Listing

| theorem | statement | premises |
|---|---|---|
| `WarrantSafety` | `RequestSpec => []ServedWasWarranted` | |
| `BodySafety` | `BodySpec => []PublishedAsSent` | |
| `CorsSafety` | `CorsSpec => []PreflightHonoured` | |
| `DownloadSafety` | `ReadSpec => []DownloadIsOneVersion` | |
| `DurabilitySafety` | `PowerSpec => []SurvivesPowerCut` | |
| `FsckSafety` | `PowerSpec => []FsckTruthful` | |
| `ListingSafety` | `ListingSpec => []ListingExact` | `NoFolderMarker` |

The premise says that no object has the name of a prefix a client lists and that ends in the delimiter, and `listing_folder_marker` shows that
the listing is not exact without it. The bounds on edits, mishaps, faults,
versions and cuts are constants of the specifications, so the theorems hold whatever they are.

* **`RequestInv`**: for each phase of `serve`, which grounds have been established (`InService`); a ground
  once seen stays in the warrant although the row it came from changes. Every message on the wire was made
  by a client or by the console (`Genuine`), so a link's signature covers the GET of one object.
  `CacheSound`: an entry that was put in time is of a record that still stands, because every writer drops
  the entry before a record stops standing; so a hit has the ground of a miss, or is `late`.
  The assumption that a request form with an object has a bucket is how `classify` reads a path.
* **`BodyInv`**: every signature on the wire covers a beginning of what the client sent; the decoder's
  chain is the seed followed by what it has written; so a chunk is accepted only if it is the next one and
  the closing chunk only at the end. Bodies that are framed under a digest are in the induction like any
  other; the property asks nothing of them unless a checksum was claimed. The mark of the closing chunk is no chunk (`"end" \notin Chunks`).
* **`CorsInv`**: stored patterns have at most one wildcard, for which `MatchesFits` shows that the matcher
  accepts exactly the strings the pattern stands for.
* **`ReadInv`**: one ETag is one record wherever it is found (store, cache, request, client), and what was
  decided under a condition continues what the client has.
* **`PowerInv`**: a payload belongs to one slot; payloads of a slot that flushes are on the disk, unlinked
  ones included, since an unlink may be lost, or were lost with their directory; a strict slot is the same in every metadata state the log
  could come back with. A report describes the store as it is until the power is on.
* **`ListingInv`**: the marker is the last entry received and is what some row is reported as; every steady row
  is in the listing or is reported as something beyond the marker. The lemmas before it are about bytes: the order
  of keys is total (`BelowTotal`, `BelowTransitive`), rolling keys into groups keeps it (`EntryMonotone`), two
  keys are reported alike only as one group (`SameGroup`), and a scan resumes at exactly the keys whose entry is beyond the
  marker (`ResumesBeyond`, where the premise is used). `WalkDone` is about the loop: after any number of rounds
  the entries are ascending and are those of the rows passed, and what is left is beyond them. Keys are
  assumed nonempty and finitely many, which their limit of 1024 bytes makes them.

### MetadataCache, UploadLimit, IoExecutor, MetricsHistory, MemoryCache and AuditLog

`BreakerSafety` (`CacheSpec => []ProbeHasCarrier`) for any set of threads; `LimitSafety` (`LimitSpec =>
RestartKeepsLimit`); `ThrottleSafety` (`IoSpec => []ThrottleOvershootBounded`) for any finite pool, queue and
number of event loops: **`PoolInv`** maps the posted logins one to one to tasks in the queue or on a
thread, so they are no more than the two can hold; `GraphSafety` (`HistorySpec =>
[]GraphShowsLastIntervals`) for every ring size: **`HistoryInv`** says which interval each slot holds on
both sides of the write position.

`BudgetSafety` (`MemorySpec => []ShardWithinBudget`) and `FreshnessSafety` (`MemorySpec => []NoOlderValue`), for any
keys, values, weights and budget. **`MemoryInv`** joins the two with the types. Removal, the clock hand, the
eviction loop and the purge all leave a list that is *drawn* from the one before: its positions map one to one
to positions with the same key, value and weight (`Drawn`). So no operation but `Set` adds an entry or weight, and
a list drawn from a fresh one is fresh. That eviction gets below the budget (`EvictToFits`) follows from
the number of rounds: each one that is still above it takes an entry, and an empty list weighs nothing.

`AuditSafety` (`AuditSpec => []AuditListsRecent`) for every capacity. **`AuditInv`**: sequence numbers rise from batch to
batch, each batch deletes the number one capacity below its own, and the cursor is not below any of them.
A restart may lower the cursor to the highest number that is left, never below it, so no key is written twice
and the entries within a capacity of the cursor are the end of the log.

### Only model-checked

The four liveness properties: `GarbageReclaimed`, `StaleEntryLeaves`, `LoginsAnswered` and
`ShutdownCompletes`. The prover has no rule for fairness. Every invariant and every action property of a passing
run, and the refinement, has its theorem.

## 5. What is not modelled

RocksDB is taken to be atomic per batch, and its writes to succeed except where an action has a failing
alternative. Scan errors of the payload tree, the bytes charged for parts (`pendingBytes`, which an
abort racing a completion subtracts twice, clamped at zero) and the order in which the expiry scan picks
its uploads are not modelled. Passwords, digests and signatures are symbols;
canonicalisation of requests, header and date parsing, XML and JSON, record encodings and hashing are
byte-level transformations without a state to explore, and the repository's unit tests cover them.
Configuration parsing, logging, metric gauges, assets and the web frontend stay out. Request-path
addressing is path style; virtual hosts differ in where the bucket's name is read from only.

## 6. Plan

The models of the plan are written and their safety properties are proved. What is left:

1. Charges of parts in `QuotaLedger`, composed with `Multipart`.
2. The four liveness properties for instances of every size, which needs a prover with fairness.
