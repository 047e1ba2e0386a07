---------------------------- MODULE StorageServer ----------------------------
(***************************************************************************)
(* Inside one storage server: the threads of its gRPC pool, which store,   *)
(* read and delete chunk files without a lock, the counters they keep, and *)
(* the startup scrub, which runs beside them.                              *)
(*                                                                         *)
(* A step is one system call on the chunk directory or one critical        *)
(* section of _counters_lock.  A directory entry names an inode, so that a *)
(* thread keeps the file it opened when the entry is renamed or removed.   *)
(* Every chunk has the same size, 1; an inode that was opened for writing  *)
(* and not written yet has size 0.                                         *)
(***************************************************************************)
EXTENDS Integers, FiniteSets

CONSTANTS
  Thread,       \* the threads of the pool
  ChunkId,
  Overlap,      \* BOOLEAN, may two stores of one id run at the same time
  MaxRequests,  \* bound: how many requests arrive
  MaxRestarts   \* bound: how many times the server restarts

ASSUME ThreadAssumption == IsFiniteSet(Thread)
ASSUME OverlapAssumption == Overlap \in BOOLEAN
ASSUME RequestAssumption == MaxRequests \in Nat /\ MaxRestarts \in Nat

VARIABLES
  chunk,     \* [ChunkId -> inode of <id>.chunk, or NoInode]
  tmp,       \* [ChunkId -> inode of <id>.chunk.tmp, or NoInode]
  whole,     \* the inodes whose bytes are complete
  inodes,    \* how many inodes were made
  th,        \* [Thread -> the request it handles]
  count,     \* _chunk_count
  bytes,     \* _total_bytes
  scrub,     \* the scrub thread
  exact,     \* history, no guard reads it: no file was removed behind the
             \* counters since they were last taken from the files
  requests, restarts

vars == <<chunk, tmp, whole, inodes, th, count, bytes, scrub, exact,
          requests, restarts>>

disk == <<chunk, tmp, whole, inodes>>
counters == <<count, bytes>>

NoInode == 0
Held == {id \in ChunkId : chunk[id] # NoInode}
Size(i) == IF i \in whole THEN 1 ELSE 0
TotalSize == Cardinality({id \in Held : chunk[id] \in whole})

Free == [pc |-> "free", id |-> "none", old |-> -1, inode |-> NoInode]
ScrubAhead == [pc |-> "ask", ids |-> {}]
ScrubDone == [pc |-> "done", ids |-> {}]

\* The first start, on an empty disk; its scrub is still to come.
Init ==
  /\ chunk = [id \in ChunkId |-> NoInode]
  /\ tmp = [id \in ChunkId |-> NoInode]
  /\ whole = {}
  /\ inodes = 0
  /\ th = [t \in Thread |-> Free]
  /\ count = 0 /\ bytes = 0
  /\ scrub = ScrubAhead
  /\ exact = TRUE
  /\ requests = 0 /\ restarts = 0

At(t, pc) == th[t].pc = pc
Goto(t, pc) == th' = [th EXCEPT ![t].pc = pc]
Reply(t) == th' = [th EXCEPT ![t] = Free]

StoreSteps == {"size", "open", "write", "replace"}
Storing(id) ==
  \E t \in Thread : th[t].id = id /\ th[t].pc \in StoreSteps

Request(t, id, pc) ==
  /\ At(t, "free") /\ requests < MaxRequests
  /\ requests' = requests + 1
  /\ th' = [th EXCEPT ![t] = [Free EXCEPT !.pc = pc, !.id = id]]
  /\ UNCHANGED <<disk, counters, scrub, exact, restarts>>

-----------------------------------------------------------------------------
(***************************************************************************)
(* StoreChunk, and each turn of the loop of StoreChunks.                   *)
(***************************************************************************)

StartStore(t, id) ==
  /\ Overlap \/ ~Storing(id)
  /\ Request(t, id, "size")

\* The file size before the store, -1 when there is no file.
OldSize(id) == IF chunk[id] = NoInode THEN -1 ELSE Size(chunk[id])

StoreSize(t) ==
  /\ At(t, "size")
  /\ th' = [th EXCEPT ![t].pc = "open", ![t].old = OldSize(th[t].id)]
  /\ UNCHANGED <<disk, counters, scrub, exact, requests, restarts>>

\* open(tmp, "wb") makes the file, or empties the one that is there.
StoreOpen(t) ==
  /\ At(t, "open")
  /\ LET id == th[t].id
         new == IF tmp[id] = NoInode THEN inodes + 1 ELSE tmp[id]
     IN /\ tmp' = [tmp EXCEPT ![id] = new]
        /\ whole' = whole \ {new}
        /\ inodes' = IF tmp[id] = NoInode THEN inodes + 1 ELSE inodes
        /\ th' = [th EXCEPT ![t].pc = "write", ![t].inode = new]
  /\ UNCHANGED <<chunk, counters, scrub, exact, requests, restarts>>

StoreWrite(t) ==
  /\ At(t, "write")
  /\ whole' = whole \cup {th[t].inode}
  /\ Goto(t, "replace")
  /\ UNCHANGED <<chunk, tmp, inodes, counters, scrub, exact, requests,
                 restarts>>

\* The disk is full: the caller gets an error and the .tmp file stays.
Mut_StoreFails(t) ==
  /\ At(t, "write")
  /\ Goto(t, "replace")
  /\ UNCHANGED <<disk, counters, scrub, exact, requests, restarts>>
StoreFails(t) ==
  /\ At(t, "write")
  /\ Reply(t)
  /\ UNCHANGED <<disk, counters, scrub, exact, requests, restarts>>

\* os.replace raises when another thread has renamed the .tmp file.
Mut_StoreReplace(t) ==
  /\ At(t, "replace")
  /\ chunk' = [chunk EXCEPT ![th[t].id] = tmp[th[t].id]]
  /\ Goto(t, "counted")
  /\ UNCHANGED <<tmp, whole, inodes, counters, scrub, exact, requests,
                 restarts>>
StoreReplace(t) ==
  /\ At(t, "replace")
  /\ LET id == th[t].id
     IN IF tmp[id] = NoInode
        THEN Reply(t) /\ UNCHANGED <<chunk, tmp, exact>>
        ELSE /\ chunk' = [chunk EXCEPT ![id] = tmp[id]]
             /\ tmp' = [tmp EXCEPT ![id] = NoInode]
             /\ exact' = (exact /\ th[t].old = OldSize(id))
             /\ Goto(t, "counted")
  /\ UNCHANGED <<whole, inodes, counters, scrub, requests, restarts>>

StoreCount(t) ==
  /\ At(t, "counted")
  /\ count' = IF th[t].old = -1 THEN count + 1 ELSE count
  /\ bytes' = IF th[t].old = -1 THEN bytes + 1 ELSE bytes + 1 - th[t].old
  /\ Reply(t)
  /\ UNCHANGED <<disk, scrub, exact, requests, restarts>>

(***************************************************************************)
(* DeleteChunk.                                                            *)
(***************************************************************************)

StartDelete(t, id) == Request(t, id, "stat")

DeleteSize(t) ==
  /\ At(t, "stat")
  /\ IF chunk[th[t].id] = NoInode
     THEN Reply(t)
     ELSE th' = [th EXCEPT ![t].pc = "remove", ![t].old = OldSize(th[t].id)]
  /\ UNCHANGED <<disk, counters, scrub, exact, requests, restarts>>

\* A file that is gone by now is no error, and is not counted either.
Mut_DeleteRemove(t) ==
  /\ At(t, "remove")
  /\ chunk' = [chunk EXCEPT ![th[t].id] = NoInode]
  /\ Goto(t, "uncount")
  /\ UNCHANGED <<tmp, whole, inodes, counters, scrub, exact, requests,
                 restarts>>
DeleteRemove(t) ==
  /\ At(t, "remove")
  /\ chunk' = [chunk EXCEPT ![th[t].id] = NoInode]
  /\ IF chunk[th[t].id] = NoInode THEN Reply(t) ELSE Goto(t, "uncount")
  /\ UNCHANGED <<tmp, whole, inodes, counters, scrub, exact, requests,
                 restarts>>

DeleteCount(t) ==
  /\ At(t, "uncount")
  /\ count' = count - 1
  /\ bytes' = bytes - th[t].old
  /\ Reply(t)
  /\ UNCHANGED <<disk, scrub, exact, requests, restarts>>

(***************************************************************************)
(* GetChunk, and each turn of the loop of GetChunks.                       *)
(***************************************************************************)

StartGet(t, id) == Request(t, id, "get")

GetOpen(t) ==
  /\ At(t, "get")
  /\ IF chunk[th[t].id] = NoInode
     THEN Reply(t)
     ELSE th' = [th EXCEPT ![t].pc = "read", ![t].inode = chunk[th[t].id]]
  /\ UNCHANGED <<disk, counters, scrub, exact, requests, restarts>>

GetRead(t) ==
  /\ At(t, "read")
  /\ Reply(t)
  /\ UNCHANGED <<disk, counters, scrub, exact, requests, restarts>>

-----------------------------------------------------------------------------
(***************************************************************************)
(* Restart, and the scrub that follows it: remove the files the naming     *)
(* server does not expect, any of them as far as this server knows, then   *)
(* count again what is left.  A scrub that finds no orphan stops there.    *)
(***************************************************************************)

Restart ==
  /\ restarts < MaxRestarts
  /\ restarts' = restarts + 1
  /\ th' = [t \in Thread |-> Free]
  /\ count' = Cardinality(Held) /\ bytes' = TotalSize
  /\ scrub' = ScrubAhead
  /\ exact' = TRUE
  /\ UNCHANGED <<disk, requests>>

ScrubList(expected) ==
  /\ scrub.pc = "ask"
  /\ scrub' = IF Held \subseteq expected THEN ScrubDone
              ELSE [pc |-> "remove", ids |-> Held \ expected]
  /\ UNCHANGED <<disk, counters, th, exact, requests, restarts>>

\* The naming server cannot be reached: there is no second attempt.
ScrubSkipped ==
  /\ scrub.pc = "ask"
  /\ scrub' = ScrubDone
  /\ UNCHANGED <<disk, counters, th, exact, requests, restarts>>

ScrubRemove(id) ==
  /\ scrub.pc = "remove" /\ id \in scrub.ids
  /\ chunk' = [chunk EXCEPT ![id] = NoInode]
  /\ scrub' = [scrub EXCEPT !.ids = @ \ {id}]
  /\ exact' = FALSE
  /\ UNCHANGED <<tmp, whole, inodes, counters, th, requests, restarts>>

\* No thread is between a system call and the counter update it owes.
AllCounted == \A t \in Thread : th[t].pc \notin {"counted", "uncount"}

\* _sync_counters_from_disk: list the files, then add up their sizes.
SyncList ==
  /\ scrub.pc = "remove" /\ scrub.ids = {}
  /\ scrub' = [pc |-> "sync", ids |-> Held]
  /\ UNCHANGED <<disk, counters, th, exact, requests, restarts>>

SyncCounters ==
  /\ scrub.pc = "sync"
  /\ count' = Cardinality(scrub.ids)
  /\ bytes' = Cardinality({id \in scrub.ids : chunk[id] \in whole})
  /\ scrub' = ScrubDone
  /\ exact' = (scrub.ids = Held /\ AllCounted)
  /\ UNCHANGED <<disk, th, requests, restarts>>

ThreadStep(t) ==
  \/ \E id \in ChunkId : StartStore(t, id)
  \/ \E id \in ChunkId : StartDelete(t, id)
  \/ \E id \in ChunkId : StartGet(t, id)
  \/ StoreSize(t)
  \/ StoreOpen(t)
  \/ StoreWrite(t)
  \/ StoreFails(t)
  \/ StoreReplace(t)
  \/ StoreCount(t)
  \/ DeleteSize(t)
  \/ DeleteRemove(t)
  \/ DeleteCount(t)
  \/ GetOpen(t)
  \/ GetRead(t)

Next ==
  \/ \E t \in Thread : ThreadStep(t)
  \/ Restart
  \/ \E expected \in SUBSET ChunkId : ScrubList(expected)
  \/ ScrubSkipped
  \/ \E id \in scrub.ids : ScrubRemove(id)
  \/ SyncList
  \/ SyncCounters

Spec == Init /\ [][Next]_vars

-----------------------------------------------------------------------------
(***************************************************************************)
(* Properties.                                                             *)
(***************************************************************************)

Inodes == 1..inodes
Requests == [pc : StoreSteps \cup {"free", "counted", "stat", "remove",
                                   "uncount", "get", "read"},
             id : ChunkId \cup {"none"}, old : {-1, 0, 1},
             inode : Inodes \cup {NoInode}]

\* No inode has two names in the chunk directory.
OneName ==
  \A i, j \in ChunkId :
    /\ chunk[i] # NoInode => chunk[i] # tmp[j]
    /\ i # j /\ chunk[i] # NoInode => chunk[i] # chunk[j]
    /\ i # j /\ tmp[i] # NoInode => tmp[i] # tmp[j]

\* Every variable has its type, and no file of the chunk directory has two
\* names (StoreChunk, DeleteChunk, the scrub).
TypeOK ==
  /\ inodes \in Nat
  /\ chunk \in [ChunkId -> Inodes \cup {NoInode}]
  /\ tmp \in [ChunkId -> Inodes \cup {NoInode}]
  /\ whole \subseteq Inodes
  /\ OneName
  /\ th \in [Thread -> Requests]
  /\ \A t \in Thread : ~At(t, "free") => th[t].id \in ChunkId
  /\ count \in Int /\ bytes \in Int
  /\ scrub \in [pc : {"done", "ask", "remove", "sync"}, ids : SUBSET ChunkId]
  /\ exact \in BOOLEAN
  /\ requests \in 0..MaxRequests /\ restarts \in 0..MaxRestarts

\* While stores of one id do not overlap, a chunk file is never visible
\* under its name before it is complete, not even after a store that failed
\* or was cut off by a restart left a .tmp file behind; and a read, which
\* keeps the file it opened, is never cut short by a store or a delete.
WholeChunks ==
  /\ \A id \in Held : chunk[id] \in whole
  /\ \A t \in Thread : At(t, "read") => th[t].inode \in whole

\* The counter steps still to come: stores of a new file that are on disk and
\* not counted, deletes that are not.
Uncounted == Cardinality({t \in Thread : At(t, "counted") /\ th[t].old = -1})
Undeducted == Cardinality({t \in Thread : At(t, "uncount")})

\* While stores of one id do not overlap, the counters are off by exactly the
\* requests that are between their system call and their update, however many
\* stores and deletes of one chunk follow each other or run at the same time,
\* unless a file goes behind their back: a delete or the scrub takes it while
\* a store of the same id, which has measured it, is under way, or the scrub
\* takes it and has not counted again.  They are exact again after a restart,
\* and after a scrub that was not disturbed while it took the counters from
\* the files, without the lock.
CountersExact ==
  exact =>
    /\ count = Cardinality(Held) - Uncounted + Undeducted
    /\ bytes = TotalSize - Uncounted + Undeducted

(***************************************************************************)
(* The chunk directory as its callers see it.  A store takes effect when   *)
(* the .tmp file gets the chunk's name, a deletion when the name goes, and *)
(* a read when the file is opened.                                         *)
(***************************************************************************)
OpOf(pc) ==
  CASE pc \in StoreSteps \cup {"counted"} -> "put"
    [] pc \in {"stat", "remove", "uncount"} -> "remove"
    [] pc \in {"get", "read"} -> "get"
    [] OTHER -> "none"

AnswerOf(t) ==
  CASE At(t, "counted") -> "stored"
    [] At(t, "uncount") -> "deleted"
    [] At(t, "read") -> IF th[t].inode \in whole THEN "whole" ELSE "torn"
    [] OTHER -> "none"

RequestOf(t) ==
  [op |-> OpOf(th[t].pc), id |-> th[t].id, answer |-> AnswerOf(t)]

Directory == INSTANCE ChunkDirectory
               WITH held <- Held, req <- [t \in Thread |-> RequestOf(t)]

\* While stores of one id do not overlap, the threads without a lock, the
\* .tmp files, failed stores, restarts and the scrub beside them are one
\* chunk directory with atomic operations: two threads may delete one chunk,
\* a read may lose its file to a delete or a store (StoreChunk, GetChunk,
\* DeleteChunk, _cleanup_orphans_once).
ImplementsDirectory == Directory!Spec

-----------------------------------------------------------------------------
(***************************************************************************)
(* What the source says and does not do.                                   *)
(***************************************************************************)

\* server.py:73-77: the temporary file and the rename are "safe even when
\* two threads write to the same chunk_id".  They share one .tmp path: one
\* thread empties the file the other one is about to publish.
NoTornRead == \A t \in Thread : At(t, "read") => th[t].inode \in whole

=============================================================================
