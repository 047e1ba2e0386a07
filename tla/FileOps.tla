------------------------------- MODULE FileOps -------------------------------
(***************************************************************************)
(* The life of a file: clients that create, read and delete files through  *)
(* the naming server, the chunk files on the storage servers' disks, the   *)
(* naming server's background deletions and its cleanup thread.            *)
(*                                                                         *)
(* A client runs one operation at a time; op[c] is that operation and the  *)
(* step it is at.  A step is what happens between two points where another *)
(* thread can run: one SQL statement or transaction of the naming server,  *)
(* or one RPC to a storage server.  Which storage servers look alive when  *)
(* the naming server asks, and which RPCs reach them, is left open: any    *)
(* set may be live at each call, and any RPC may fail.                     *)
(***************************************************************************)
EXTENDS MetadataStore, Sequences

CONSTANTS
  Client,       \* the client processes
  R,            \* the replication factor
  ChunkCounts,  \* the numbers of chunks of the files clients create
  Writers,      \* [Filename -> SUBSET Client], the clients that create a name
  Reuse,        \* BOOLEAN, may a name be created more than once
  Cleanup,      \* BOOLEAN, is the cleanup thread started (cleanup_max_age > 0)
  MaxUploads,   \* bound: how many CreateFile calls are made
  MaxCrashes    \* bound: how many times the naming server crashes

ASSUME RAssumption == R \in Nat
ASSUME CountAssumption == ChunkCounts \subseteq Nat
ASSUME BoundAssumption == MaxUploads \in Nat /\ MaxCrashes \in Nat
ASSUME WriterAssumption == Writers \in [Filename -> SUBSET Client]

VARIABLES
  disk,     \* [Address -> set of chunk ids], the chunk files on each server
  op,       \* [Client -> the operation the client is running]
  deletes,  \* <<address, chunk id>> pairs the naming server is still deleting
  late,     \* names of CommitFile calls whose client gave up waiting
  gc,       \* the cleanup thread
  uploads,  \* history: the CreateFile calls, their position is their number
  crashes   \* how many times the naming server has crashed

vars == <<files, chunks, replicas, disk, op, deletes, late, gc, uploads, crashes>>

\* The ids CreateFile call u gives to its chunks: uuid4 never repeats one.
ChunkIdOf(u, i) == <<u, i>>
ContentOf(u) == {ChunkIdOf(u, i) : i \in 0..(uploads[u].num_chunks - 1)}

Idle == [pc |-> "idle", kind |-> "none", file |-> "none", upload |-> 0,
         row |-> NoFile, metas |-> {}, todo |-> {}, got |-> {},
         failed |-> FALSE]

GcIdle == [pc |-> "idle", todo |-> {}, cur |-> "none", found |-> {},
           dels |-> {}]

Ids(metas) == {m.chunk_id : m \in metas}
Deletions(metas) == UNION {m.locations \X {m.chunk_id} : m \in metas}

Init ==
  /\ files = [f \in Filename |-> NoFile]
  /\ chunks = {}
  /\ replicas = {}
  /\ disk = [a \in Address |-> {}]
  /\ op = [c \in Client |-> Idle]
  /\ deletes = {}
  /\ late = {}
  /\ gc = GcIdle
  /\ uploads = <<>>
  /\ crashes = 0

-----------------------------------------------------------------------------
(***************************************************************************)
(* CreateFile, up to create_pending.  A call that finds fewer than R live  *)
(* servers is rejected before it does anything: that is a stuttering step. *)
(***************************************************************************)

StartCreate(c, f, n) ==
  /\ op[c].pc = "idle"
  /\ c \in Writers[f]
  /\ Reuse \/ \A u \in DOMAIN uploads : uploads[u].filename # f
  /\ Len(uploads) < MaxUploads
  /\ \E live \in SUBSET Address : Cardinality(live) >= R
  /\ uploads' = Append(uploads, [filename |-> f, num_chunks |-> n])
  /\ op' = [op EXCEPT ![c] = [Idle EXCEPT !.pc = "select_row",
                                          !.kind = "create", !.file = f,
                                          !.upload = Len(uploads) + 1]]
  /\ UNCHANGED <<dbvars, disk, deletes, late, gc, crashes>>

StartRead(c, f) ==
  /\ op[c].pc = "idle"
  /\ op' = [op EXCEPT ![c] = [Idle EXCEPT !.pc = "select_row",
                                          !.kind = "read", !.file = f]]
  /\ UNCHANGED <<dbvars, disk, deletes, late, gc, uploads, crashes>>

StartDelete(c, f) ==
  /\ op[c].pc = "idle"
  /\ op' = [op EXCEPT ![c] = [Idle EXCEPT !.pc = "select_row",
                                          !.kind = "delete", !.file = f]]
  /\ UNCHANGED <<dbvars, disk, deletes, late, gc, uploads, crashes>>

(***************************************************************************)
(* get_file, called by CreateFile, GetFile and DeleteFile: a SELECT on     *)
(* files, then a SELECT on chunks and replicas.                            *)
(***************************************************************************)

\* GetFile answers "file not found" unless the row it read is committed.
Wanted(c) ==
  LET row == files[op[c].file]
  IN IF op[c].kind = "read" THEN row.status = "committed"
                            ELSE row.status # "none"

SelectRow(c) ==
  /\ op[c].pc = "select_row"
  /\ IF Wanted(c)
     THEN op' = [op EXCEPT ![c].pc = "select_chunks",
                           ![c].row = files[op[c].file]]
     ELSE IF op[c].kind = "create"
     THEN op' = [op EXCEPT ![c].pc = "place"]
     ELSE op' = [op EXCEPT ![c] = Idle]
  /\ UNCHANGED <<dbvars, disk, deletes, late, gc, uploads, crashes>>

\* CreateFile over an existing name starts deleting the old chunks at once,
\* in a thread of its own, before anything replaces their metadata.
SelectOldChunks(c) ==
  /\ op[c].pc = "select_chunks" /\ op[c].kind = "create"
  /\ deletes' = deletes \cup Deletions(get_file_chunks(op[c].file))
  /\ op' = [op EXCEPT ![c].pc = "place", ![c].row = NoFile]
  /\ UNCHANGED <<dbvars, disk, late, gc, uploads, crashes>>

SelectPlacements(c) ==
  /\ op[c].pc = "select_chunks" /\ op[c].kind # "create"
  /\ op' = [op EXCEPT ![c].pc = IF op[c].kind = "read" THEN "fetch" ELSE "drop",
                      ![c].metas = get_file_chunks(op[c].file)]
  /\ UNCHANGED <<dbvars, disk, deletes, late, gc, uploads, crashes>>

(***************************************************************************)
(* The placement loop of CreateFile: every chunk gets a new id and a pick  *)
(* of R servers out of those live at that moment.                          *)
(***************************************************************************)

Placed(c) == Cardinality(op[c].metas)
Asked(c) == uploads[op[c].upload].num_chunks

pick(locs) == Cardinality(locs) = R

Mut_Placement(c, locs) ==
  [chunk_id |-> ChunkIdOf(op[c].upload, Placed(c)), index |-> Placed(c) + 1,
   locations |-> locs]
Placement(c, locs) ==
  [chunk_id |-> ChunkIdOf(op[c].upload, Placed(c)), index |-> Placed(c),
   locations |-> locs]

PlaceChunk(c) ==
  /\ op[c].pc = "place" /\ Placed(c) < Asked(c)
  /\ \E locs \in SUBSET Address :
       /\ pick(locs)
       /\ op' = [op EXCEPT ![c].metas = @ \cup {Placement(c, locs)}]
  /\ UNCHANGED <<dbvars, disk, deletes, late, gc, uploads, crashes>>

\* A pick that finds fewer than R live servers fails the call.
PlaceRejected(c) ==
  /\ op[c].pc = "place" /\ Placed(c) < Asked(c)
  /\ op' = [op EXCEPT ![c] = Idle]
  /\ UNCHANGED <<dbvars, disk, deletes, late, gc, uploads, crashes>>

WritePending(c) ==
  /\ op[c].pc = "place" /\ Placed(c) = Asked(c)
  /\ create_pending(op[c].file, Asked(c), op[c].upload, op[c].metas)
  /\ op' = [op EXCEPT ![c].pc = "upload",
                      ![c].todo = UNION {m.locations : m \in op[c].metas}]
  /\ UNCHANGED <<disk, deletes, late, gc, uploads, crashes>>

-----------------------------------------------------------------------------
(***************************************************************************)
(* The rest of GFSClient.create: one StoreChunks stream per storage server *)
(* in parallel, then CommitFile.  The pool waits for every stream, also    *)
(* after one of them failed.                                               *)
(***************************************************************************)

Writes(c, a) == {m.chunk_id : m \in {x \in op[c].metas : a \in x.locations}}

UploadTo(c, a) ==
  /\ op[c].pc = "upload" /\ a \in op[c].todo
  /\ disk' = [disk EXCEPT ![a] = @ \cup Writes(c, a)]
  /\ op' = [op EXCEPT ![c].todo = @ \ {a}]
  /\ UNCHANGED <<dbvars, deletes, late, gc, uploads, crashes>>

\* An RPC error or a full disk: what was stored before it stays.
UploadFails(c, a) ==
  /\ op[c].pc = "upload" /\ a \in op[c].todo
  /\ \E stored \in SUBSET Writes(c, a) :
       disk' = [disk EXCEPT ![a] = @ \cup stored]
  /\ op' = [op EXCEPT ![c].todo = @ \ {a}, ![c].failed = TRUE]
  /\ UNCHANGED <<dbvars, deletes, late, gc, uploads, crashes>>

Mut_AllUploaded(c) == op[c].pc = "upload" /\ op[c].todo = {}
AllUploaded(c) == op[c].pc = "upload" /\ op[c].todo = {} /\ ~op[c].failed

UploadAborted(c) ==
  /\ op[c].pc = "upload" /\ op[c].todo = {} /\ op[c].failed
  /\ op' = [op EXCEPT ![c] = Idle]
  /\ UNCHANGED <<dbvars, disk, deletes, late, gc, uploads, crashes>>

CommitFile(c) ==
  /\ AllUploaded(c)
  /\ commit_file(op[c].file)
  /\ op' = [op EXCEPT ![c] = Idle]
  /\ UNCHANGED <<disk, deletes, late, gc, uploads, crashes>>

\* The client's deadline passes, or it dies, with the call on its way: the
\* naming server handles the call later, or never.
CommitTimesOut(c) ==
  /\ AllUploaded(c)
  /\ late' = late \cup {op[c].file}
  /\ op' = [op EXCEPT ![c] = Idle]
  /\ UNCHANGED <<dbvars, disk, deletes, gc, uploads, crashes>>

LateCommitFile(f) ==
  /\ f \in late
  /\ commit_file(f)
  /\ late' = late \ {f}
  /\ UNCHANGED <<disk, op, deletes, gc, uploads, crashes>>

\* Nothing tells the naming server that a client is gone.
ClientCrash(c) ==
  /\ op[c].pc \in {"upload", "fetch"}
  /\ op' = [op EXCEPT ![c] = Idle]
  /\ UNCHANGED <<dbvars, disk, deletes, late, gc, uploads, crashes>>

(***************************************************************************)
(* DeleteFile after its get_file: the metadata goes first, then the chunks *)
(* on the storage servers.  Its caller may give up waiting for those.      *)
(***************************************************************************)

DropMetadata(c) ==
  /\ op[c].pc = "drop"
  /\ delete_file(op[c].file)
  /\ deletes' = deletes \cup Deletions(op[c].metas)
  /\ op' = [op EXCEPT ![c] = Idle]
  /\ UNCHANGED <<disk, late, gc, uploads, crashes>>

\* One DeleteChunk RPC: done, or given up after its deadline.
delete_chunk_on(a, id) == disk' \in {[disk EXCEPT ![a] = @ \ {id}], disk}

RunDelete(a, id) ==
  /\ <<a, id>> \in deletes
  /\ delete_chunk_on(a, id)
  /\ deletes' = deletes \ {<<a, id>>}
  /\ UNCHANGED <<dbvars, op, late, gc, uploads, crashes>>

(***************************************************************************)
(* GFSClient.read after GetFile: every chunk from some replica that has    *)
(* it, or an error once every replica of a chunk was tried.                *)
(***************************************************************************)

FetchChunk(c, m) ==
  /\ op[c].pc = "fetch"
  /\ m \in op[c].metas /\ m.chunk_id \notin op[c].got
  /\ \E a \in m.locations : m.chunk_id \in disk[a]
  /\ op' = [op EXCEPT ![c].got = @ \cup {m.chunk_id}]
  /\ UNCHANGED <<dbvars, disk, deletes, late, gc, uploads, crashes>>

FetchFails(c) ==
  /\ op[c].pc = "fetch" /\ op[c].got # Ids(op[c].metas)
  /\ op' = [op EXCEPT ![c] = Idle]
  /\ UNCHANGED <<dbvars, disk, deletes, late, gc, uploads, crashes>>

\* The bytes the read is about to return are those of the chunks in got.
Mut_Returned(c) == op[c].pc = "fetch" /\ op[c].got # {}
Returned(c) == op[c].pc = "fetch" /\ op[c].got = Ids(op[c].metas)

ReadReturns(c) ==
  /\ Returned(c)
  /\ op' = [op EXCEPT ![c] = Idle]
  /\ UNCHANGED <<dbvars, disk, deletes, late, gc, uploads, crashes>>

-----------------------------------------------------------------------------
(***************************************************************************)
(* The cleanup thread: one pass lists the pending files older than         *)
(* cleanup_max_age, reads each of them with get_file, and only then        *)
(* deletes them one by one, each with its chunks.                          *)
(***************************************************************************)

Mut_Stale(f) == files[f].status = "pending" /\ RowsOf(f) # {}
Stale(f) == files[f].status = "pending"

\* Which of the pending files are old enough is left open.
GcList(S) ==
  /\ Cleanup /\ gc.pc = "idle"
  /\ S # {} /\ \A f \in S : Stale(f)
  /\ gc' = [gc EXCEPT !.pc = "rows", !.todo = S]
  /\ UNCHANGED <<dbvars, disk, op, deletes, late, uploads, crashes>>

GcSelectRow(f) ==
  /\ gc.pc = "rows" /\ f \in gc.todo
  /\ gc' = IF Exists(f)
           THEN [gc EXCEPT !.pc = "chunks", !.cur = f, !.todo = @ \ {f}]
           ELSE [gc EXCEPT !.todo = @ \ {f}]
  /\ UNCHANGED <<dbvars, disk, op, deletes, late, uploads, crashes>>

GcSelectChunks ==
  /\ gc.pc = "chunks"
  /\ gc' = [gc EXCEPT !.pc = "rows", !.cur = "none", !.found = @ \cup
              {[filename |-> gc.cur, metas |-> get_file_chunks(gc.cur)]}]
  /\ UNCHANGED <<dbvars, disk, op, deletes, late, uploads, crashes>>

GcListed ==
  /\ gc.pc = "rows" /\ gc.todo = {}
  /\ gc' = [gc EXCEPT !.pc = "drop"]
  /\ UNCHANGED <<dbvars, disk, op, deletes, late, uploads, crashes>>

\* What was listed is not looked at again before it is deleted.
GcDrop(fm) ==
  /\ gc.pc = "drop" /\ gc.dels = {} /\ fm \in gc.found
  /\ delete_file(fm.filename)
  /\ gc' = [gc EXCEPT !.found = @ \ {fm}, !.dels = Deletions(fm.metas)]
  /\ UNCHANGED <<disk, op, deletes, late, uploads, crashes>>

GcDelete(a, id) ==
  /\ <<a, id>> \in gc.dels
  /\ delete_chunk_on(a, id)
  /\ gc' = [gc EXCEPT !.dels = @ \ {<<a, id>>}]
  /\ UNCHANGED <<dbvars, op, deletes, late, uploads, crashes>>

GcDone ==
  /\ gc.pc = "drop" /\ gc.dels = {} /\ gc.found = {}
  /\ gc' = GcIdle
  /\ UNCHANGED <<dbvars, disk, op, deletes, late, uploads, crashes>>

GcStep ==
  \/ \E f \in gc.todo : GcSelectRow(f)
  \/ GcSelectChunks
  \/ GcListed
  \/ \E fm \in gc.found : GcDrop(fm)
  \/ \E d \in gc.dels : GcDelete(d[1], d[2])
  \/ GcDone

-----------------------------------------------------------------------------
(***************************************************************************)
(* The naming server stops and restarts.  The tables survive; the handlers *)
(* and the cleanup pass it was running, and the calls waiting for it, are  *)
(* lost; deletions already sent may still arrive.  Clients that talk to    *)
(* storage servers do not notice.                                          *)
(***************************************************************************)

InHandler == {"select_row", "select_chunks", "place", "drop"}

NamingCrash ==
  /\ crashes < MaxCrashes
  /\ crashes' = crashes + 1
  /\ op' = [c \in Client |-> IF op[c].pc \in InHandler THEN Idle ELSE op[c]]
  /\ \E sent \in SUBSET (deletes \cup gc.dels) : deletes' = sent
  /\ late' = {}
  /\ gc' = GcIdle
  /\ UNCHANGED <<dbvars, disk, uploads>>

ClientStep(c) ==
  \/ \E f \in Filename, n \in ChunkCounts : StartCreate(c, f, n)
  \/ \E f \in Filename : StartRead(c, f)
  \/ \E f \in Filename : StartDelete(c, f)
  \/ SelectRow(c)
  \/ SelectOldChunks(c)
  \/ SelectPlacements(c)
  \/ PlaceChunk(c)
  \/ PlaceRejected(c)
  \/ WritePending(c)
  \/ \E a \in Address : UploadTo(c, a)
  \/ \E a \in Address : UploadFails(c, a)
  \/ UploadAborted(c)
  \/ CommitFile(c)
  \/ CommitTimesOut(c)
  \/ ClientCrash(c)
  \/ DropMetadata(c)
  \/ \E m \in op[c].metas : FetchChunk(c, m)
  \/ FetchFails(c)
  \/ ReadReturns(c)

Next ==
  \/ \E c \in Client : ClientStep(c)
  \/ \E f \in Filename : LateCommitFile(f)
  \/ \E d \in deletes : RunDelete(d[1], d[2])
  \/ \E S \in SUBSET Filename : GcList(S)
  \/ GcStep
  \/ NamingCrash

Spec == Init /\ [][Next]_vars

(***************************************************************************)
(* Fairness only for the cleanup thread.  Its loop swallows exceptions and *)
(* every RPC in it has a deadline, so a pass ends; and a file that stays   *)
(* pending gets older than any cutoff, so from some pass on every listing  *)
(* holds it.  No client has to finish what it started.                     *)
(***************************************************************************)
ListsFile(f) == \E S \in SUBSET Filename : f \in S /\ GcList(S)

FairSpec ==
  Spec /\ WF_vars(GcStep) /\ \A f \in Filename : SF_vars(ListsFile(f))

-----------------------------------------------------------------------------
(***************************************************************************)
(* Properties.                                                             *)
(***************************************************************************)

Stored(f) ==
  \A ch \in RowsOf(f) :
    \A a \in Locations(ch.chunk_id) : ch.chunk_id \in disk[a]

UploadNumbers == 1..Len(uploads)
ChunkIds == UploadNumbers \X Nat
Metas == [chunk_id : ChunkIds, index : Nat, locations : SUBSET Address]
Rows == [status : {"none", "pending", "committed"}, num_chunks : Nat,
         created_at : 0..Len(uploads)]
Ops == [pc : {"idle", "select_row", "select_chunks", "place", "upload",
              "fetch", "drop"},
        kind : {"none", "create", "read", "delete"},
        file : Filename \cup {"none"}, upload : 0..Len(uploads), row : Rows,
        metas : SUBSET Metas, todo : SUBSET Address, got : SUBSET ChunkIds,
        failed : BOOLEAN]
GcPasses == [pc : {"idle", "rows", "chunks", "drop"}, todo : SUBSET Filename,
             cur : Filename \cup {"none"},
             found : SUBSET [filename : Filename, metas : SUBSET Metas],
             dels : SUBSET (Address \X ChunkIds)]

\* A running operation is one of the three kinds, on a file of the system,
\* and the placements of a CreateFile call are chunks of that call.
OpOK(o) ==
  /\ o.pc # "idle" => o.kind # "none" /\ o.file \in Filename
  /\ o.pc \in {"place", "upload"} => o.kind = "create"
  /\ o.kind = "create" =>
       /\ o.upload \in UploadNumbers
       /\ \A m \in o.metas : /\ m.chunk_id = ChunkIdOf(o.upload, m.index)
                             /\ m.index < uploads[o.upload].num_chunks

\* Every variable has its type, and the placements of a CreateFile call are
\* chunks of that call (CreateFile, create_pending, get_file).
TypeOK ==
  /\ files \in [Filename -> Rows]
  /\ chunks \subseteq [chunk_id : ChunkIds, filename : Filename, idx : Nat]
  /\ replicas \subseteq ChunkIds \X Address
  /\ disk \in [Address -> SUBSET ChunkIds]
  /\ op \in [Client -> Ops]
  /\ \A c \in Client : OpOK(op[c])
  /\ deletes \subseteq Address \X ChunkIds
  /\ late \subseteq Filename
  /\ gc \in GcPasses
  /\ gc.pc = "chunks" => gc.cur \in Filename
  /\ uploads \in Seq([filename : Filename, num_chunks : ChunkCounts])
  /\ crashes \in 0..MaxCrashes

\* The chunk rows that CreateFile call u writes.
RowsOfUpload(u) ==
  {[chunk_id |-> ChunkIdOf(u, i), filename |-> uploads[u].filename, idx |-> i]
     : i \in 0..(uploads[u].num_chunks - 1)}

WrittenBy(f, u) ==
  /\ u \in UploadNumbers
  /\ uploads[u].filename = f
  /\ files[f].num_chunks = uploads[u].num_chunks
  /\ RowsOf(f) = RowsOfUpload(u)
  /\ \A ch \in RowsOf(f) : Cardinality(Locations(ch.chunk_id)) = R

\* Rows of different tables agree, however creates, deletes, commits and the
\* cleanup thread interleave: a file row has exactly the chunk rows of the
\* CreateFile call that wrote it, each on R distinct servers, and no chunk
\* or replica row outlives its file (ON DELETE CASCADE, metadata.py:45-65).
MetadataConsistent ==
  /\ \A f \in Filename : IF Exists(f) THEN WrittenBy(f, files[f].created_at)
                                      ELSE RowsOf(f) = {}
  /\ \A r \in replicas : \E ch \in chunks : ch.chunk_id = r[1]

\* What a read is about to return is the whole content of one upload of that
\* name, or nothing at all: never a part of a file, never a mix of two
\* uploads, although GetFile reads the tables twice and the chunks are
\* fetched one after the other while other clients overwrite and delete.
ReadIsWholeUpload ==
  \A c \in Client :
    Returned(c) =>
      \/ op[c].got = {}
      \/ \E u \in DOMAIN uploads :
           uploads[u].filename = op[c].file /\ op[c].got = ContentOf(u)

\* While no name is used twice and every disk stays, every replica that the
\* metadata of a committed file lists is on its server's disk: an upload
\* that failed anywhere is not committed, a commit that arrives late
\* commits nothing else, and no pending deletion, of DeleteFile, of the
\* cleanup thread or of an earlier run of the naming server, ever names a
\* chunk of a committed file.
CommittedFullyStored ==
  \A f \in Filename : files[f].status = "committed" => Stored(f)

\* A file that can be read stays so until a DeleteFile for it, or a cleanup
\* pass that had listed it when it was pending, drops its metadata, and then
\* it is gone as a whole: nobody is left with a file that is listed but has
\* lost chunks, although the chunks are deleted later, by other threads and
\* by calls that survive a crash of the naming server.
Readable(f) == files[f].status = "committed" /\ Stored(f)
LostAsWhole ==
  [][\A f \in Filename :
       Readable(f) /\ ~Readable(f)' =>
         /\ ~Exists(f)' /\ RowsOf(f)' = {}
         /\ \/ \E c \in Client : op[c].pc = "drop" /\ op[c].file = f
            \/ \E fm \in gc.found : fm.filename = f]_vars

\* A file whose writer is gone does not stay pending for ever: it is
\* committed after all, replaced, deleted or cleaned up, whatever else runs
\* and even if the naming server restarts in the middle of a cleanup pass.
PendingResolved ==
  \A f \in Filename :
    files[f].status = "pending" ~> files[f].status # "pending"

-----------------------------------------------------------------------------
(***************************************************************************)
(* The refinement mapping to FileStore, for names that are used once: the  *)
(* status of a name is that of its row; without one, it is planned while a *)
(* CreateFile call for it runs, unused before and gone afterwards.         *)
(***************************************************************************)

Used(f) == \E u \in UploadNumbers : uploads[u].filename = f
Creating(o) ==
  o.kind = "create" /\ o.pc \in {"select_row", "select_chunks", "place"}
Planned(f) == \E c \in Client : Creating(op[c]) /\ op[c].file = f

StatusOf(f) ==
  IF Exists(f) THEN files[f].status
  ELSE IF Planned(f) THEN "planned"
  ELSE IF Used(f) THEN "gone" ELSE "unused"

ContentIn(f) == {ch.chunk_id : ch \in RowsOf(f)}

ViewOf(o) ==
  IF o.kind = "read" /\ o.pc = "select_chunks"
  THEN [at |-> "asked", file |-> o.file, data |-> {}]
  ELSE IF o.pc = "fetch"
  THEN [at |-> "holds", file |-> o.file, data |-> Ids(o.metas)]
  ELSE [at |-> "none", file |-> "none", data |-> {}]

\* Every content is a whole upload: chunks 0 to n - 1 of one CreateFile call.
WholeUploads ==
  {{ChunkIdOf(u, i) : i \in 0..(n - 1)} : u \in 1..MaxUploads, n \in ChunkCounts}

Store == INSTANCE FileStore WITH
  Contents <- WholeUploads,
  status   <- [f \in Filename |-> StatusOf(f)],
  content  <- [f \in Filename |-> ContentIn(f)],
  view     <- [c \in Client |-> ViewOf(op[c])]

\* With names that are used once, the naming server's tables, handlers,
\* background threads and crashes show clients nothing but FileStore: no
\* late commit, stale delete or cleanup pass brings a name back, publishes
\* it twice or changes it after it was published, and a read works on the
\* content of the file it asked for, or on nothing.
ImplementsFileStore == Store!Spec

Map == INSTANCE FileMap WITH
  Contents <- WholeUploads,
  status   <- [f \in Filename |-> files[f].status],
  content  <- [f \in Filename |-> ContentIn(f)],
  view     <- [c \in Client |-> ViewOf(op[c])]

\* Names that are used again: whoever creates, commits, deletes and reads
\* them meanwhile, clients see a map in which every write replaces the whole
\* content in one step, a commit publishes it as it is, and a read works on
\* what its name holds at one moment.
ImplementsFileMap == Map!Spec

-----------------------------------------------------------------------------
(***************************************************************************)
(* What the documents say and the code does not do.                        *)
(***************************************************************************)

\* docs/ARCHITECTURE.md:67-69: the client commits only when every replica
\* was written, "so a file is never half-replicated in the committed set".
\* CommitFile names the file, not the upload.
NeverHalfReplicated ==
  [][\A f \in Filename :
       files[f].status = "pending" /\ files'[f].status = "committed" =>
         Stored(f)]_vars

\* docs/ARCHITECTURE.md:72-73, 174: a create that does not get as far as
\* its commit "never corrupts a readable file", there is "no committed data
\* affected".  CreateFile over an existing name first deletes the old chunks,
\* then may still reject the call, then replaces the committed row.
OnlyDeletedIsLost ==
  [][\A f \in Filename :
       Readable(f) /\ ~Readable(f)' =>
         \E c \in Client : op[c].kind = "delete" /\ op[c].file = f]_vars

=============================================================================
