# A verification of the GFS-style file system

TLA+ modules that model the Python program under `src/gfs`, TLC
configurations that check them on small instances, and TLAPS proofs of their
main invariants. Line numbers refer to the sources at the commit the modules
were written from; `PROJECT.json` maps every definition to the lines it stands
for.

| Path | What it is |
| --- | --- |
| `MetadataStore.tla` | the three SQL tables and their transactions (`naming_server/metadata.py`) |
| `FileOps.tla`, `MCFileOps.tla` | clients, file handlers, chunk deletions, cleanup thread |
| `FileStore.tla`, `FileMap.tla` | what clients are promised, for names used once and for any names: the abstractions of `FileOps` |
| `FileOpsProofs.tla`, `FileOpsOnceProofs.tla`, `FileStoreProofs.tla` | proofs about `FileOps`: in general, for names used once, and that it implements `FileStore` and `FileMap` |
| `Healing.tla`, `MCHealing.tla` | repair thread, registry, failing storage servers, startup scrub |
| `HealingProofs.tla`, `HealingCopiesProofs.tla` | proofs about `Healing`: types and tables, rows and copies of a chunk |
| `StorageServer.tla`, `MCStorageServer.tla` | the threads inside one storage server |
| `ChunkDirectory.tla` | what a storage server promises: the abstraction of `StorageServer` |
| `StorageServerProofs.tla` | proofs about `StorageServer`, and that it implements `ChunkDirectory` |
| `Membership.tla`, `MCMembership.tla` | registry and heartbeat threads, with clocks |
| `MembershipProofs.tla` | proofs about `Membership` |
| `ChunkFetch.tla`, `MCChunkFetch.tla` | the fetch rounds of a client's read |
| `ChunkFetchProofs.tla` | proofs about `ChunkFetch` |
| `*.cfg` | one per run |

To check: `tlc -config FileOps_publish.cfg MCFileOps.tla`, `tlapm FileOpsProofs.tla`.

## 1. The system

A naming server keeps the metadata in SQLite, storage servers keep one file per
chunk of 1 KB, clients talk to both: metadata through the naming server, bytes
directly to the storage servers. Everything is a synchronous gRPC call handled
by a thread pool; there are no locks around a handler, only around one SQL
transaction, the registry and the counters of a storage server.

### Components

**Metadata store** (`metadata.py`).
State: tables `files(filename, size, num_chunks, created_at, status)`,
`chunks(chunk_id, filename, idx)`, `replicas(chunk_id, address)`, foreign keys
with `ON DELETE CASCADE`.
Operations: `create_pending`, `commit_file`, `delete_file`, `add_replica`,
`remove_replica` (one transaction each); `get_file` (two SELECTs),
`list_stale_pending` (a SELECT, then `get_file` per row), the queries of healing.
Correct when: the rows of the tables agree with each other at all times, and a
reader that needs several statements never puts together what does not belong
together.

**Naming server, file handlers** (`server.py:212-342`).
State: none of its own between calls.
`CreateFile` places `R` replicas of every chunk on live servers and writes a
pending row, after deleting what was there under that name; `CommitFile` makes
the row visible to reads; `GetFile` returns the placements of a committed file;
`DeleteFile` drops the metadata, then deletes the chunks on the storage servers.
Correct when: what is committed can be read, in full, until it is deleted.

**Cleanup thread** (`server.py:130-149`).
State: the list of one pass. Deletes files that have been pending for more than
`cleanup_max_age`.
Correct when: interrupted uploads disappear in the end, and nothing else does.

**Self-healing thread** (`server.py:111-119, 151-209`).
State: the local variables of one `heal_once` pass.
Copies the chunks that have fewer than `R` live replicas, records the copy,
drops the row of a dead server.
Correct when: it restores `R` live replicas, never loses one on the way and
never records one that is not there.

**Registry** (`server.py:32-65, 97-108`) and **heartbeat loop**
(`storage_server/server.py:271-295`).
State: last-heartbeat times and the placement cursor, in memory only; per
storage server a thread that registers, sends heartbeats every 5 s with a
deadline of 5 s, and after a failed call waits 5 s and registers again.
Correct when: running servers look alive, stopped ones soon do not (15 s), and
placements are spread evenly.

**Storage server** (`storage_server/server.py`).
State: the chunk directory with `<id>.chunk` and `<id>.chunk.tmp`, the counters,
the startup scrub.
Operations: `StoreChunk(s)`, `GetChunk(s)`, `DeleteChunk`, `ReplicateChunk`.
Correct when: a chunk file is there as a whole or not at all, and the counters
say what is on disk.

**Client** (`client/client.py`).
State: that of the call it runs. `create` splits, uploads to every replica in
parallel, commits; `read` fetches in rounds and falls back to other replicas;
`delete`, `size`, `list_files` are one call.
Correct when: it commits only what was stored, returns only whole files, and
fails only when it has to.

**The rest** is not modelled, see section 6.

### Interactions

| From | To | Call | Modelled as |
| --- | --- | --- | --- |
| client | naming | CreateFile, CommitFile, GetFile, DeleteFile | steps of `op[c]` in `FileOps`, one per SQL statement |
| client | storage | StoreChunks, GetChunks | `UploadTo`, `UploadFails`; rounds in `ChunkFetch` |
| naming | storage | DeleteChunk, asynchronous after CreateFile and DeleteFile | the set `deletes` and `RunDelete` |
| naming | storage | ReplicateChunk | `HealCopy`, `HealCopyFails` |
| storage | storage | GetChunk inside ReplicateChunk | part of `HealCopy` |
| storage | naming | RegisterStorage, Heartbeat | `mark_alive`, `Expire` in `Healing`; `Handle`, `HandleLate`, `Answer`, `CallFails` in `Membership` |
| storage | naming | ListExpectedChunks | `ScrubAsk` |

### What is hard here

- Two statements or two calls with nothing between them that keeps others out:
  `get_file` and whatever follows it; the list of pending files and the deletion
  by name; the length and the contents of `live_servers()`; the list of expected
  chunks and the directory listing.
- Names against uploads: `commit_file` and `delete_file` name a file, not the
  upload that the caller has in mind.
- Crashes between two transactions or between a transaction and the RPCs that
  should follow it. Only SQLite and the chunk files survive.
- Calls that take effect after their caller has given up or stopped.
- Clocks: interval, deadline and back-off against the timeout, which they use up
  exactly (5 + 2 * 5 = 15).
- Threads of one storage server on one path.

`PROJECT.json` lists these as hazards, each at its line and with its properties.

## 2. The modules

### MetadataStore

The tables as `files` (a function with a `NoFile` record for a name without a
row), `chunks` and `replicas` (sets of rows). One operator per transaction,
one per query; cascades are part of the operator. `created_at` holds the number
of the upload that wrote the row: the code uses the time, which only
`list_stale_pending` compares. The module is extended by `FileOps` and
`Healing`, which bring the processes that call it.

### FileOps

`op[c]` is the operation client `c` runs, including the handler the naming
server runs for it: `pc` names the next step, the other fields are the local
variables. A step is one SQL statement or transaction, or one RPC to a storage
server. `deletes` are the `DeleteChunk` calls not made yet (or on their way),
`late` the `CommitFile` calls whose client has given up, `gc` the cleanup pass,
`uploads` a history of the `CreateFile` calls.

| Code | Model |
| --- | --- |
| `CreateFile` | `StartCreate`, `SelectRow`, `SelectOldChunks`, `PlaceChunk` / `PlaceRejected`, `WritePending` |
| `GFSClient.create` after it | `UploadTo` / `UploadFails`, `UploadAborted`, `CommitFile` / `CommitTimesOut`, `LateCommitFile` |
| `GetFile` + `GFSClient.read` | `StartRead`, `SelectRow`, `SelectPlacements`, `FetchChunk` / `FetchFails`, `ReadReturns` |
| `DeleteFile` | `StartDelete`, `SelectRow`, `SelectPlacements`, `DropMetadata`, `RunDelete` |
| `_cleanup_loop` | `GcList`, `GcSelectRow`, `GcSelectChunks`, `GcListed`, `GcDrop`, `GcDelete`, `GcDone` |
| restart of the naming server, death of a client | `NamingCrash`, `ClientCrash` |

`ImplementsFileStore` maps this to `FileStore`: the status of a name is that of
its row, or `unused` / `planned` / `gone` from the history of uploads; the
content of a file is the upload that wrote its chunk rows; a read `holds` what its
second SELECT returned. With `Reuse = FALSE` every step is a step of `FileStore`
or none.

`ImplementsFileMap` maps the same state to `FileMap`, which promises less and of
every name, also one that is written again and again: a write replaces what the
name held at once and hides it, whoever publishes it, a read looks once at all
that the name holds. It says nothing of disks, so what it leaves out is what the
runs `two_writers` and `overwrite_lost` show.

Where the model allows more than the code does (so that what holds in the model
holds in the code):

- any set of servers may be live at each `pick`, and any RPC may fail;
- any set of pending files may be old enough when a cleanup pass lists them;
- the chunk deletions of `DeleteFile` run after the handler has answered,
  although the code waits for them up to its deadlines;
- pending deletions may still arrive after a crash of the naming server, or not.

Where it allows less: a `StoreChunks` call that arrives after its client gave
up, and power loss (`PRAGMA synchronous=NORMAL` may lose the last commits) are
not modelled, and the storage servers neither restart nor scrub: the startup scrub,
also that of a first start, is in `Healing` and `StorageServer`. No cleanup thread
is a real configuration (`CLEANUP_MAX_AGE=0` in the compose file): `Cleanup` is
the constant for it. `Reuse = FALSE` stands for clients that create each name once.
Nothing in the code sees to that, and its own load generator does not keep to it: it
writes the same name again after a create that failed or timed out
(`simulate_production.py:189-194`). What is shown with it is shown under that
condition only.

### Healing

A file has one chunk and is created once, so its name is the id of its chunk.
`heal` holds the local variables of `heal_once`, one action per call:
`HealCount` and `HealPick` (the two reads of the registry), `HealKnown` (the
short circuit), `HealSelect`, `HealChunk` (skip or choose the source),
`HealCopy` / `HealCopyFails`, `HealAdd` / `HealAddRaises`, `HealDrop`,
`HealChunkDone`, `HealDone`. `live` is what `live_servers()` would answer;
`mark_alive` adds a server, `Expire` takes it out, of running servers too when
`Starved`. Servers stop, start, lose their files, the naming server loses
registry and pass: each kind at most `MaxFaults` times. `scrub[a]` is the
startup scrub, which runs on every start. `Init` is the first start of all servers
on empty disks: they may register at once, and the scrub of a server in `Starting`
is still to come, beside everything else. For the others it is taken as done while
their disks were empty, which bounds the runs.

`raced` is history: `raced[f]` has each server whose scrub may take the chunk of
`f` for an orphan, because it had asked what is expected before the row was there and
was not done when the row or the copy was made (`Overlooks`). No guard reads it;
`DurableCopies` and `RowsStored` do, to say that a scrub harms nothing else.

More than the code does: candidates are tried in any order, and any live
location may be the source (the code takes the first of each list). A
`ReplicateChunk` that finishes after its deadline stores the chunk at once,
inside `HealCopyFails`. An `IntegrityError` of `add_replica` leaves SQLite with
an open transaction until the next commit on that connection; it has no row in
it and is left out.

### StorageServer

A step is one system call or one critical section of `_counters_lock`.
A directory entry names an inode, so that a thread that has a file open keeps it
when the name is renamed over or removed. All chunks have size 1; an inode that
was opened for writing has size 0 until it is written.
`Overlap` says whether two stores of one id may run at the same time.
A failed write leaves the `.tmp` file, a restart does too.
The first start scrubs, on an empty disk at first, and so does each restart. The
scrub lists the files in one step and adds up their sizes and assigns both counters
in a second one, where the code has a loop and two assignments. `exact` is history:
no file was removed behind the counters since they were last taken from the files,
that is, no store has replaced a file that went after it was measured, and no scrub
has removed one without counting again with nobody in between.

`ImplementsDirectory` maps this to `ChunkDirectory`, in which a store, a deletion
and a read are one step each and a chunk is there as a whole or not at all: the
rename, the unlink and the open are where they take effect. This is the server
that `FileOps` and `Healing` assume, with their variable `disk`.

### ChunkFetch

`_fetch_chunks_batched`: `Round` picks for each missing chunk the first replica
not asked for it yet and groups them per server and batch; `Answered` and
`Fails` are the results of one `GetChunks` call; `Returns` and `Unavailable`
end the read. `Reliable` are the replicas that are there and served in time;
what the others answer is open.

### Membership

`age[a]` is the time since `_last_seen[a]`, or `Unknown`; `Live` is
`live_servers()`. `loop[a]` is the heartbeat thread: the call it waits for or the
sleep it is in, and how much of it is left. `Tick` lets one unit of time pass for
everybody; it waits for threads whose sleep or deadline is over, so that what a
thread does on time is done on time. Time that the code needs between its calls
is zero.

| Code | Model |
| --- | --- |
| `mark_alive` in `RegisterStorage`, `Heartbeat` | `Handle`; `HandleLate` when the caller has given up or stopped |
| `_heartbeat_loop` | `Answer`, `CallFails` (any time up to the deadline, handled or not), `Wake` |
| `pick` | `Pick`, `Picked` (the set; its order is left out) |
| processes | `StartServer`, `StopServer`, `NamingStop`, `NamingStart` |

A request is handled before its deadline or never: gRPC does not start a handler
for a call that is over. A request may reach the naming server's next run if its
caller is still waiting, because a channel that is connecting queues its calls.
`quiet`, `fails` and `heard` are histories for the properties. Ages stop at
`Timeout + 1` and `quiet` at `MaxQuiet`, above every bound that is stated.
`Healing` and `FileOps` allow more: there, any server may look alive or dead.

## 3. The runs

Passing:

| Run | Shows | Instance |
| --- | --- | --- |
| `overwrite` | `ReadIsWholeUpload`: what a read returns is one whole upload or nothing, with overwrites and deletes in between. `MetadataConsistent`: the three tables agree. `ImplementsFileMap`: a name is replaced, published and dropped in one step each, for all that clients see | 2 clients, 1 name, 2 uploads of 0 or 2 chunks, 2 servers, R=1, 1 crash; 1.2 million states |
| `publish` | `ImplementsFileStore`; `CommittedFullyStored`: every listed replica of a committed file is on disk; `LostAsWhole`: a readable file goes as a whole, by a delete or a cleanup that listed it; `TypeOK` | 2 clients, 1 name written once, 2 chunks, 2 servers, R=2, cleanup, 1 crash |
| `cleanup` | `PendingResolved`: no file is pending for ever | 1 client, 2 uploads of 0 or 1 chunks, 1 crash |
| `healing_faults` | `ReplicaRows`: R rows, one more only during a repair or after a crash in it; `DurableCopies`: healing trades no stored copy for a row without one; `RowsStored`: until a disk is lost, no row is without its copy unless the scrub of its server was under way when the row or the copy was made; `TypeOK` | 1 chunk, 3 servers, R=2, one of them with a scrub of its first start, a stop and a restart, the other two interchangeable; each fault once, late heartbeats; 690,000 states |
| `healing_converge` | `Healed`: a chunk with too few running replicas gets them, if those it has are stored; `NoDanglingReplicas`: no row for a deleted chunk | 2 chunks, one deletable, 3 servers, R=2, one stops for good, one disk is lost, no scrub to come; 350,000 states |
| `chunk_files` | `WholeChunks`: no incomplete chunk file is visible, no read is cut short; `ImplementsDirectory`; `CountersExact`: counters off by the requests under way and nothing else, until a file goes behind them; `TypeOK` | 3 threads, 1 id, 5 requests, the scrub of the first start, 1 restart with another |
| `chunk_fetch` | `FailsOnlyIfLost`: a read fails only if a chunk has no reliable replica; `Ends`, and why: `Progress`; `BatchesFit`: no request is empty or too large; `TypeOK` | 3 chunks, batches of 2, 3 servers, up to 2 replicas, all 1000 placements |
| `membership` | `QuietBound`: a running server is quiet no longer than its lost calls explain, also after restarts; `SteadyAlive`: it does not look dead while the timeout has room for them; `StoppedNoticed`: a stopped one looks dead within timeout and deadline; `RoundRobin`: placements are balanced; `TypeOK` | 2 servers, interval 1, deadline 1, timeout 3, 1 stop, 1 crash, up to 2 lost calls in a row; 2.9 million states |

Violations, each of something the repository says (section 5; section 4 says
what holds instead):
`two_writers`, `overwrite_lost`, `scrub_race`, `shared_tmp`.

Why the bounds are enough. Two clients and two uploads give every pair of
conflicting operations on one name; names do not interact except through the
cleanup thread, whose list is per name. R=2 tells apart a chunk stored on all,
some and none of its servers; R=1 is used where the replicas are not the point.
Two chunks are needed for a partial read, none for an empty file. Three servers
with R=2 leave one candidate for repair. One fault of each kind gives every pair
of different faults; the server that restarts is also the one whose first scrub
is still to come, so that both scrubs meet creations, repairs and faults. The run
`scrub_race` needs no fault at all. `healing_converge` is without scrubs: with them
the graph of two files is too large for temporal checking. With one file, a
restart and scrubs on all servers `Healed` holds too; a scrub that takes a copy
ends what `NeedsHealing` asks for. Three threads allow a store, a delete and a read of one
chunk to overlap. Three chunks with batches of two give a full and a partial
batch at one server. The times of `membership` are in the proportion of the
configured ones; `MaxQuiet` and `MaxFails` leave room for a server that has lost
one call and is back. Two servers are enough for the cursor to go around; three
are out of reach of a run, with their clocks. What does not depend on bounds is in section 4.

`CHECK_DEADLOCK FALSE`: once the bounded number of uploads, requests or faults
is used up, or the read has ended, the system rests.

Symmetry is used in safety runs only, on clients, servers and threads, which no
definition orders.

### Fairness

- `FileOps!FairSpec`: weak fairness of the cleanup pass (its loop catches every
  exception and each RPC has a deadline) and strong fairness of listing a file
  that is pending: its age only grows, so from some pass on it is listed.
  Nothing is assumed of clients.
- `Healing!FairSpec`: weak fairness of the healing thread (`_heal_loop` catches
  exceptions, RPCs have deadlines), of heartbeats of running servers and of the
  expiry of stopped ones; strong fairness of a successful copy, that is, when copies
  between running servers are tried again and again, one of them works some time,
  to whichever candidate. `Starved` is off: a server that keeps missing its heartbeats would undo any repair.
- `ChunkFetch!FairSpec`: the client does not stop, each RPC has a deadline.

## 4. The proofs

For every value of the constants; the only assumptions are the named `ASSUME`s
(the bounds are natural numbers, switches are Booleans, servers and threads are
finitely many) and, where the table says so, that names are used once (`~Reuse`),
or that stores of one chunk do not overlap (`~Overlap`). The code enforces neither;
the runs of section 5 show what goes wrong without them.

| Theorem | Says |
| --- | --- |
| `FileOpsProofs!TypeCorrect` | `Spec => []TypeOK` |
| `FileOpsProofs!TablesAgree` | `Spec => []MetadataConsistent` |
| `FileOpsProofs!ReadsAreWhole` | `Spec => []ReadIsWholeUpload` |
| `FileOpsOnceProofs!OnceStored` | `~Reuse` implies `Spec => []CommittedFullyStored` |
| `FileOpsOnceProofs!FilesAreLostAsAWhole` | `~Reuse` implies `Spec => LostAsWhole` |
| `FileOpsOnceProofs!OnceNeverHalfReplicated` | `~Reuse` implies `Spec => NeverHalfReplicated` |
| `FileStoreProofs!FileOpsImplementsFileStore` | `~Reuse` implies `Spec => ImplementsFileStore` |
| `FileStoreProofs!FileOpsImplementsFileMap` | `Spec => ImplementsFileMap` |
| `HealingProofs!TypeCorrect` | `Spec => []TypeOK` |
| `HealingProofs!NoRowDangles` | `Spec => []NoDanglingReplicas` |
| `HealingCopiesProofs!RowsKept` | `Spec => []ReplicaRows` |
| `HealingCopiesProofs!CopiesDurable` | `Spec => []DurableCopies` |
| `HealingCopiesProofs!RowsAreStored` | `Spec => []RowsStored` |
| `StorageServerProofs!TypeCorrect` | `Spec => []TypeOK` |
| `StorageServerProofs!ChunksAreWhole` | `~Overlap` implies `Spec => []WholeChunks` |
| `StorageServerProofs!CountersAreExact` | `~Overlap` implies `Spec => []CountersExact` |
| `StorageServerProofs!ServerImplementsDirectory` | `~Overlap` implies `Spec => ImplementsDirectory` |
| `MembershipProofs!TypeCorrect` | `Spec => []TypeOK` |
| `MembershipProofs!QuietIsBounded` | `Spec => []QuietBound` |
| `MembershipProofs!StaysAlive` | `Spec => []SteadyAlive` |
| `MembershipProofs!StopsAreNoticed` | `Spec => []StoppedNoticed` |
| `MembershipProofs!PicksAreBalanced` | `Spec => []RoundRobin` |
| `ChunkFetchProofs!TypeCorrect` | `Spec => []TypeOK` |
| `ChunkFetchProofs!FailoverCorrect` | `Spec => []FailsOnlyIfLost` |
| `ChunkFetchProofs!ReadsProgress` | `Spec => Progress` |
| `ChunkFetchProofs!BatchesAlwaysFit` | `Spec => []BatchesFit` |

**FileOps.** `MetadataConsistent` is not inductive: `create_pending` must write
the rows of one upload, so `op[c].metas` has to be exactly the chunks of that
upload once `PlaceChunk` is done, each on `R` servers, and the ids of different
uploads differ. The invariant adds what each operation has placed so far, and
that every chunk row comes from an upload in the history. For
`ReadIsWholeUpload` it adds that the placements a read or delete has taken from
the second SELECT are all the chunks of one upload of that name, or none:
`get_file`'s second SELECT sees one row's chunks whatever the first one saw.

**FileOps, names used once.** `CommittedFullyStored` needs that nothing is ever
deleted from under a committed file. `OnceInv` says: a chunk in `deletes` is doomed,
its rows are gone and the call that made it writes no more (`DeletesDoomed`); what
a delete or the cleanup thread has listed is claimed, it becomes doomed in the
transaction that drops the row (`Claims`, `FoundClaimed`); while a client
uploads, each listed replica is stored, still to be sent, or has failed
(`Uploading`); and as soon as a commit is on its way, also one whose client gave
up, the file is stored (`DecidedStored`).
The action properties follow from the same invariant. A step that unmakes a
readable file cannot be one that takes a chunk from a disk, because every chunk a
deletion is on its way to is doomed and no longer in a row; what is left are the
steps that drop the rows, all at once (`DropBegun`, `CommittedKept`), which gives
`LostAsWhole`. The step that commits a file changes nothing else (`CommitOnly`) and
finds it stored (`NeverHalfReplicated`).

**FileStore.** With both invariants each step of `FileOps` is a step of
`FileStore` under the mapping, or leaves the mapped variables alone; there is one
lemma per action. A `LateCommitFile` publishes a name at most once because the
name is decided before, and a crash changes nothing that clients see.

**FileMap.** Here nothing is assumed of names, and nothing of disks is needed:
the invariants of `MetadataConsistent` and `ReadIsWholeUpload` say that the chunk
rows of a name are those of one upload, hence one of `WholeContent`, and that a
read holds one of these. Then each action is one of `FileMap` or a stutter
(`StepInMap`); `UploadsBounded`, which the cap on uploads gives, says that the
contents written are among the `Contents` of the mapping.

**StorageServer.** `WholeChunks` is not inductive: a rename makes a whole file
only if the `.tmp` it moves is the one this thread wrote, which needs that no
other thread stores that chunk (`Apart`), that `.tmp` is the inode it opened
(`OwnTmp`), and that a file opened by a reader is nobody's `.tmp` any more
(`Settled`). `TypeOK` contains that no inode has two names, which needs that
names of unused inodes are not used (`Backed` keeps the sets finite).
For `CountersExact`, `CInv` adds that every file a store or a deletion measured was
whole, hence of size 1 (`Sizes`). While `exact` holds, a store that renames finds
what it measured: no file, and it will add one, or a file, and it will add nothing.
The rest counts the threads that owe an update (`StoreOwes`, `DeleteOwes`).
`ImplementsDirectory` follows from `WInv`, step by step.

**Healing.** `TypeOK` is inductive with `RepairOK`, what the local variables of a
repair know of each other: counted locations, candidates, stale servers and the
target are disjoint, and all but the stale ones were live when the pass began.
`NoDanglingReplicas` is inductive by itself, because `add_replica` checks the
foreign key and the cascade takes the rows of a chunk with it; it needs nothing of
what `heal_once` believes, which is the point.
`ReplicaRows` needs `RowsInv`: a name is used once, what the pass has read of a
committed chunk is still what the table says (`RowsRead`, `RowsRepaired`: only the
pass itself changes these rows), hence a row goes only after another came
(`RowCount`). For `DurableCopies` and `RowsStored` a server is `Covered` for a chunk
if it has it, waits for the client's upload of it, or is in `raced`; `Missing` are the
servers without any of this that a row names or that `heal_once` is about to record.
`CopiesInv` says that there are no more of them than disks were lost (`MissingPaid`),
that a scrub which would still take the chunk from such a server is in `raced`
(`RacedKnown`), and that a committed file waits for no upload (`Uploaded`). Each
step keeps every covered server covered, but for the loss of a disk, which uncovers
one.

**Membership.** `QuietBound` becomes inductive with `Due`, the longest time until
the next call of a server is handled or has failed: `quiet` plus `Due` is within
`Patience(fails)`. A tick moves one unit from `Due` to `quiet`, a lost call adds
interval and deadline to both sides. `SteadyAlive` adds that the registry heard of
a server no longer ago than `quiet` (`AgeInv`); `StoppedNoticed` that calls on the
way were sent before the stop (`LateInv`). The configured numbers are no
assumption: with 5, 5 and 15 seconds `Patience(0)` is `Timeout`, so a server whose
every call is handled never looks dead, with nothing to spare, and
`Patience(1)` is 25 seconds.
`RoundRobin` is a fact about `Picked`, whatever the state: the rank of a server
among the live ones is one-to-one onto `0..n-1` (`RankIsOneToOne`), so is its
distance from the cursor modulo `n` (`DistinctRemainders`), and as many of `n`
different numbers below `n` are below `count` as `count` says (`CountBelow`). Turned
around, the cursor positions from which a given server is taken are counted the
same way (`PickedShare`).

**ChunkFetch.** `FailsOnlyIfLost` becomes inductive with `Pending`: a reliable
replica that was tried in vain is in an RPC that was not answered yet. That needs
`BatchesCover`: the blocks of `_chunk_id_batches` leave no chunk out and do not
overlap. That a chunk has a first untried replica is proved from the
well-foundedness of the natural numbers. `Progress` is the variant of the loop:
the pairs of a chunk and a replica not asked for it, then the answers to wait for;
a round removes the pair of each `Candidate`. With `BatchesFit`, which says that a
round that waits has something to wait for, and weak fairness this is why `Ends`
holds. For `BatchesFit`, ranks of chunks are one-to-one (`RankOrder`) and those of a
block lie in an interval of `BatchSize` numbers (`BlockBounds`).

What the documents promise, and when it holds. Two properties that a run of section 5
violates hold under a condition that excludes what the run does:
`NeverHalfReplicated` if names are used once (`OnceNeverHalfReplicated`),
`NoTornRead`, a part of `WholeChunks`, if stores of one chunk do not overlap. Instead
of `OnlyDeletedIsLost` there is `LostAsWhole`, and instead of `MetadataToDisk`
`RowsStored`, which name what the code does besides. Nothing in the code enforces
the conditions.

Only model-checked: the liveness properties (`PendingResolved`, `Healed`,
`Ends`), which the prover cannot do.

## 5. Where the code and what is said about it differ

Each of the first four has a run that shows it.

1. `two_writers`. `docs/ARCHITECTURE.md:67-69`: a file is "never
   half-replicated in the committed set". `commit_file` names the file: client 1
   uploads, client 2 replaces the row by its own pending upload, client 1's
   commit publishes it with nothing stored yet.
2. `overwrite_lost`. `docs/ARCHITECTURE.md:72-73`: a crash between `CreateFile`
   and `CommitFile` "never corrupts a readable file"; line 174, of a client crash
   in the middle of a write: "No committed data affected". `CreateFile` over an
   existing name sends the deletes of the committed version's chunks
   (`server.py:236`) before it has placed the new ones. The trace ends there: the
   row is still committed, its chunk is gone and nothing new is placed. From there
   the code may go on to reject the call (`server.py:246`), which leaves it like
   that for good, or to drop the committed row in `create_pending`, before anything
   is uploaded. This is why `CommittedFullyStored` is about names used once.
3. `scrub_race`. `docs/testing-plan.md:34`: every chunk of the metadata "has a
   file on each listed server". The startup scrub asks what is expected, then
   lists the directory: a chunk placed and stored in between is removed. It runs
   on every start (`storage_server/server.py:333-339`), so the first start of the
   cluster is enough: no server restarts in the trace and no disk is lost.
4. `shared_tmp`. `storage_server/server.py:75-77`: the rename is "safe even when
   two threads write to the same chunk_id". Both open one `.tmp` path, the second
   empties what the first is about to publish.

Known divergences that follow directly from the code and have no run of their
own; the properties are stated so that they are true beside them:

- The cleanup thread lists pending files, reads each, then deletes by name; one
  that was committed in between is deleted too, after its client was told of
  success (`server.py:138`; `CHANGELOG.md:111-114` speaks of pending files only).
  It takes an upload that lasts longer than `cleanup_max_age`.
- A `delete_file` between the two SELECTs of `get_file` makes the client return an
  empty file as a success (`docs/testing-plan.md:35` wants the original bytes).
- `GetFile` checks the status of the row of the first SELECT and takes the chunks
  of the second: a read may get the placements of a pending upload
  (`docs/ARCHITECTURE.md:72-73`). `ReadIsWholeUpload` says it still returns a
  whole upload.
- A naming server that stops between `add_replica` and `remove_replica` leaves
  R+1 rows for good (`docs/ARCHITECTURE.md:89-91`, "exactly R replicas").
  `ReplicaRows` counts them.
- `pick(len(live_servers()))` reads the registry twice; a server that registers
  in between takes the place of one that is alive, whose chunks are then copied
  and rows dropped (`server.py:155`, against the comment at 163-168).
- A server that lost its files and keeps running counts as a replica
  (`docs/ARCHITECTURE.md:173`). `DurableCopies` counts lost disks.
- The scrub assigns the counters without the lock (`storage_server/server.py:47-58,
  265`): a thread that stores or deletes between its listing and its assignment makes
  them drift until the next restart or undisturbed scrub. So does a store that
  replaces a file which was removed after the store measured it (lines 78-97): it adds
  the difference to a file that is gone. `CountersExact` excludes these two cases, and
  the time between a removal by the scrub and its count.
- `docs/testing-plan.md:37`: the live set matches the running servers "within one
  heartbeat interval". The timeout is three intervals, and a late call may add its
  deadline: `StoppedNoticed`. `docs/ARCHITECTURE.md:146`, "within a few
  heartbeats", is true of registration: `QuietBound`.
- `docs/ARCHITECTURE.md:93-95` and `CHANGELOG.md:114-115` give the order of a
  cleanup as chunks first, then metadata; the code deletes the metadata first.

## 6. Not modelled, and what is left

- The TypeScript of the repository is all in `docs/Presentation`: slides about the
  system, in a React page whose state is the number of the slide shown, the
  shadcn/ui widgets, which are vendored and which no page uses, and a script that prints
  the page. Nothing of the file system is in it, and a model of it would say
  nothing about the program. What is modelled is the Python under `src/gfs`.
- The command line, Prometheus metrics, generated stubs, the load generator,
  dashboards, the site: no state that the system depends on.
  `config.num_chunks_for_size` is called nowhere.
- A `StoreChunks` call that arrives after its client gave up; power loss; an
  `IntegrityError` that leaves SQLite with an open transaction (section 2).
- `FileOps` and `Healing` over one set of disks with files of several chunks.
  `Healing` has creations and deletions beside the repair, of one chunk each.
- Time in `Healing` and `FileOps`: the age of a pending file and the heal interval
  are choices, not clocks.
