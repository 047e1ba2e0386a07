-------------------------- MODULE FileOpsOnceProofs --------------------------
(***************************************************************************)
(* More proofs about FileOps, for names that are used once (Reuse is       *)
(* FALSE): CommittedFullyStored is an invariant, and FileOps implements    *)
(* FileStore.                                                              *)
(***************************************************************************)
EXTENDS FileOpsProofs

(***************************************************************************)
(* The inductive invariant.  The ids of a deletion that is still to be     *)
(* made are doomed: no row names them, and the CreateFile call that chose  *)
(* them writes no rows any more.  The chunks that a delete or the cleanup  *)
(* thread has listed for f are claimed: if rows name them, these go when   *)
(* the row of f is deleted, which is when they become doomed.              *)
(***************************************************************************)
InHand(u) == \E c \in Client : Creating(op[c]) /\ op[c].upload = u

Doomed(id) == id \in ChunkIds /\ ~InHand(id[1]) /\ ~ChunkExists(id)

Claimed(id, f) ==
  /\ id \in ChunkIds /\ ~InHand(id[1])
  /\ \A ch \in chunks : ch.chunk_id = id => ch.filename = f

OneName ==
  \A u, v \in UploadNumbers : uploads[u].filename = uploads[v].filename => u = v

OneCreator ==
  \A c, d \in Client :
    op[c].kind = "create" /\ op[d].kind = "create" /\ op[c].file = op[d].file => c = d

\* Until its rows are written there is no row of its name, and no commit.
Fresh(o) ==
  Creating(o) => /\ o.pc # "select_chunks"
                 /\ ~Exists(o.file) /\ o.file \notin late

Claims(o) == o.pc = "drop" => \A m \in o.metas : Claimed(m.chunk_id, o.file)

\* While a client uploads, what the rows of its file list is still to be
\* sent, was not stored because of an error, or is on the disk.
Uploading(o) ==
  o.pc = "upload" =>
    /\ files[o.file].status # "committed" /\ o.file \notin late
    /\ \A ch \in RowsOf(o.file) : \A a \in Locations(ch.chunk_id) :
         /\ \E m \in o.metas : m.chunk_id = ch.chunk_id /\ a \in m.locations
         /\ a \in o.todo \/ o.failed = TRUE \/ ch.chunk_id \in disk[a]

OnceOp(o) == Fresh(o) /\ Claims(o) /\ Uploading(o)

DeletesDoomed == \A d \in deletes \cup gc.dels : Doomed(d[2])

FoundClaimed == \A fm \in gc.found : \A m \in fm.metas : Claimed(m.chunk_id, fm.filename)

Decided(f) == f \in late \/ files[f].status = "committed"
DecidedStored == \A f \in Filename : Decided(f) => Stored(f)

OnceInv ==
  /\ Len(uploads) <= MaxUploads
  /\ OneName
  /\ OneCreator
  /\ \A c \in Client : OnceOp(op[c])
  /\ DeletesDoomed
  /\ FoundClaimed
  /\ DecidedStored
  /\ \A f \in late : Used(f)

-----------------------------------------------------------------------------
(***************************************************************************)
(* Steps that add no row: rows may go, the chunks of the rows that stay    *)
(* keep their locations and stay on disk, and no CreateFile call begins.   *)
(***************************************************************************)
KeepsRows ==
  /\ chunks' \subseteq chunks
  /\ \A ch \in chunks' : Locations(ch.chunk_id)' = Locations(ch.chunk_id)
  /\ \A ch \in chunks' : \A a \in Address :
       ch.chunk_id \in disk[a] => ch.chunk_id \in disk'[a]
  /\ \A f \in Filename : Exists(f)' => Exists(f)
  /\ UNCHANGED uploads

KeepsCalls ==
  \A d \in Client :
    /\ op'[d].kind = "create" => /\ op[d].kind = "create"
                                 /\ op'[d].file = op[d].file
                                 /\ op'[d].upload = op[d].upload
    /\ Creating(op'[d]) => Creating(op[d])

LEMMA HandKept ==
  ASSUME KeepsCalls, NEW u, InHand(u)'
  PROVE  InHand(u)
<1>1. PICK d \in Client : Creating(op'[d]) /\ op'[d].upload = u
  BY DEF InHand, Creating
<1> QED BY <1>1 DEF KeepsCalls, InHand, Creating

LEMMA StoredKept ==
  ASSUME KeepsRows, NEW f \in Filename, Stored(f)
  PROVE  Stored(f)'
<1> SUFFICES ASSUME NEW ch \in RowsOf(f)', NEW a \in Locations(ch.chunk_id)'
             PROVE  ch.chunk_id \in disk'[a]
  BY DEF Stored
<1>1. ch \in RowsOf(f) /\ ch \in chunks' /\ a \in Locations(ch.chunk_id) /\ a \in Address
  BY DEF KeepsRows, RowsOf, Locations
<1> QED BY <1>1 DEF KeepsRows, Stored

LEMMA DoomedKept ==
  ASSUME KeepsRows, KeepsCalls, NEW id, Doomed(id)
  PROVE  Doomed(id)'
<1>1. ~InHand(id[1])'
  BY HandKept DEF Doomed
<1>2. ~ChunkExists(id)'
  BY DEF Doomed, ChunkExists, KeepsRows
<1>3. id \in ChunkIds'
  BY DEF Doomed, ChunkIds, UploadNumbers, KeepsRows
<1> QED BY <1>1, <1>2, <1>3 DEF Doomed

LEMMA ClaimKept ==
  ASSUME KeepsRows, KeepsCalls, NEW id, NEW f, Claimed(id, f)
  PROVE  Claimed(id, f)'
<1>1. ~InHand(id[1])'
  BY HandKept DEF Claimed
<1>2. id \in ChunkIds' /\ \A ch \in chunks' : ch.chunk_id = id => ch.filename = f
  BY DEF Claimed, KeepsRows, ChunkIds, UploadNumbers
<1> QED BY <1>1, <1>2 DEF Claimed

\* What holds of an operation still holds, if its file was not decided.
LEMMA OpKept ==
  ASSUME KeepsRows, KeepsCalls, NEW o, o.file \in Filename, OnceOp(o),
         o.kind = "create" => (Decided(o.file)' => Decided(o.file)),
         o.pc = "upload" => o.kind = "create"
  PROVE  OnceOp(o)'
<1>1. Fresh(o)'
  BY DEF OnceOp, Fresh, KeepsRows, Decided, Creating, Exists
<1>2. Claims(o)'
  BY ClaimKept DEF OnceOp, Claims
<1>3. Uploading(o)'
  <2> SUFFICES ASSUME o.pc = "upload"
               PROVE  /\ files'[o.file].status # "committed" /\ o.file \notin late'
                      /\ \A ch \in RowsOf(o.file)' : \A a \in Locations(ch.chunk_id)' :
                           /\ \E m \in o.metas : m.chunk_id = ch.chunk_id /\ a \in m.locations
                           /\ a \in o.todo \/ o.failed = TRUE \/ ch.chunk_id \in disk'[a]
    BY DEF Uploading
  <2>1. files'[o.file].status # "committed" /\ o.file \notin late'
    BY DEF OnceOp, Uploading, Decided
  <2>2. ASSUME NEW ch \in RowsOf(o.file)', NEW a \in Locations(ch.chunk_id)'
        PROVE  /\ \E m \in o.metas : m.chunk_id = ch.chunk_id /\ a \in m.locations
               /\ a \in o.todo \/ o.failed = TRUE \/ ch.chunk_id \in disk'[a]
    <3>1. /\ ch \in RowsOf(o.file) /\ ch \in chunks'
          /\ a \in Locations(ch.chunk_id) /\ a \in Address
      BY DEF KeepsRows, RowsOf, Locations
    <3> QED BY <3>1 DEF OnceOp, Uploading, KeepsRows
  <2> QED BY <2>1, <2>2
<1> QED BY <1>1, <1>2, <1>3 DEF OnceOp

\* A step that adds no row keeps the invariant, if what it adds to the
\* deletions is doomed, to the findings of the cleanup thread is claimed,
\* and to the decided files is stored and not being created any more.
LEMMA Settle ==
  ASSUME IInv, OnceInv, KeepsRows, KeepsCalls,
         \A d \in Client : \/ op'[d] = op[d]
                           \/ OnceOp(op'[d]) /\ OpOK(op'[d])
                           \/ OnceOp(op[d])',
         \A d \in deletes' \cup gc'.dels : Doomed(d[2]) \/ Doomed(d[2])',
         \A fm \in gc'.found : fm \in gc.found \/
           \A m \in fm.metas : Claimed(m.chunk_id, fm.filename),
         \A f \in late' : f \in late \/ Used(f),
         \A f \in Filename :
           Decided(f)' => \/ Decided(f)
                          \/ Stored(f) /\ \A d \in Client : op'[d].kind = "create" =>
                                                              op'[d].file # f
  PROVE  OnceInv'
<1>1. Len(uploads') <= MaxUploads /\ OneName'
  BY DEF OnceInv, OneName, UploadNumbers, KeepsRows
<1>2. OneCreator'
  BY DEF OnceInv, OneCreator, KeepsCalls
<1>3. ASSUME NEW d \in Client PROVE OnceOp(op[d])'
  <2>1. PICK o : o = op'[d]
    OBVIOUS
  <2>2. OnceOp(o)'
    <3>1. CASE o.pc = "idle"
      BY <3>1 DEF OnceOp, Fresh, Creating, Claims, Uploading
    <3>2. CASE OnceOp(op[d])'
      BY <2>1, <3>2 DEF OnceOp, Fresh, Creating, Claims, Uploading
    <3>3. CASE o.pc # "idle" /\ (op'[d] = op[d] \/ (OnceOp(op'[d]) /\ OpOK(op'[d])))
      <4>1. o.file \in Filename /\ OnceOp(o) /\ (o.pc = "upload" => o.kind = "create")
        <5>1. CASE op'[d] = op[d]
          BY <2>1, <3>3, <5>1, Known DEF OnceInv, OpOK
        <5> QED BY <2>1, <3>3, <5>1 DEF OpOK
      <4>2. o.kind = "create" => (Decided(o.file)' => Decided(o.file))
        BY <2>1, <4>1
      <4> QED BY <4>1, <4>2, OpKept
    <3> QED BY <2>1, <3>1, <3>2, <3>3
  <2> QED BY <2>1, <2>2 DEF OnceOp, Fresh, Creating, Claims, Uploading
<1>4. DeletesDoomed'
  BY DoomedKept DEF DeletesDoomed
<1>5. FoundClaimed'
  BY ClaimKept DEF FoundClaimed, OnceInv
<1>6. DecidedStored'
  BY StoredKept DEF DecidedStored, OnceInv
<1>7. \A f \in late' : Used(f)'
  BY DEF OnceInv, Used, UploadNumbers, KeepsRows
<1> QED BY <1>1, <1>2, <1>3, <1>4, <1>5, <1>6, <1>7 DEF OnceInv

-----------------------------------------------------------------------------
(***************************************************************************)
(* Steps of one client.                                                    *)
(***************************************************************************)

LEMMA SameRows ==
  ASSUME UNCHANGED <<dbvars, uploads>>, \A a \in Address : disk[a] \subseteq disk'[a]
  PROVE  KeepsRows
BY DEF KeepsRows, dbvars, Locations, Exists

\* A step of c that decides nothing and adds nothing to delete.
LEMMA MoveOnce ==
  ASSUME IInv, OnceInv, NEW c \in Client, NEW o, op' = [op EXCEPT ![c] = o],
         UNCHANGED <<dbvars, deletes, late, gc, uploads>>,
         \A a \in Address : disk[a] \subseteq disk'[a],
         o.kind = "create" => /\ op[c].kind = "create" /\ o.file = op[c].file
                              /\ o.upload = op[c].upload,
         Creating(o) => Creating(op[c]), (OnceOp(o) /\ OpOK(o)) \/ OnceOp(o)'
  PROVE  OnceInv'
<1>0. op \in [Client -> Ops]
  BY Parts DEF OpsOK
<1>1. KeepsRows
  BY SameRows
<1>2. KeepsCalls
  BY <1>0 DEF KeepsCalls
<1>3. ASSUME NEW d \in Client
      PROVE  \/ op'[d] = op[d]
             \/ OnceOp(op'[d]) /\ OpOK(op'[d])
             \/ OnceOp(op[d])'
  <2>1. CASE d # c \/ (OnceOp(o) /\ OpOK(o))
    BY <1>0, <2>1
  <2>2. CASE d = c /\ OnceOp(o)'
    <3>1. op'[d] = o
      BY <1>0, <2>2
    <3> QED BY <2>2, <3>1 DEF OnceOp, Fresh, Creating, Claims, Uploading
  <2> QED BY <2>1, <2>2
<1>4. \A d \in deletes' \cup gc'.dels : Doomed(d[2]) \/ Doomed(d[2])'
  BY DEF OnceInv, DeletesDoomed
<1>5. \A f \in Filename : Decided(f)' => Decided(f)
  BY DEF Decided, dbvars
<1> QED BY <1>1, <1>2, <1>3, <1>4, <1>5, Settle

LEMMA IdleOnce == OpOK(Idle) /\ OnceOp(Idle) /\ ~Creating(Idle) /\ Idle.kind = "none"
BY DEF Idle, OpOK, OnceOp, Fresh, Claims, Uploading, Creating

LEMMA OnceToIdle ==
  ASSUME IInv, OnceInv, NEW c \in Client, op' = [op EXCEPT ![c] = Idle],
         UNCHANGED <<dbvars, disk, deletes, late, gc, uploads>>
  PROVE  OnceInv'
BY IdleOnce, MoveOnce

LEMMA OnceStartCall ==
  ASSUME IInv, OnceInv, NEW c \in Client, NEW f \in Filename,
         StartRead(c, f) \/ StartDelete(c, f)
  PROVE  OnceInv'
<1>1. PICK k \in {"read", "delete"} :
        op' = [op EXCEPT ![c] = [Idle EXCEPT !.pc = "select_row", !.kind = k, !.file = f]]
  BY DEF StartRead, StartDelete
<1> DEFINE o == [Idle EXCEPT !.pc = "select_row", !.kind = k, !.file = f]
<1>2. OpOK(o) /\ OnceOp(o) /\ ~Creating(o) /\ o.kind # "create"
  BY DEF Idle, OpOK, OnceOp, Fresh, Claims, Uploading, Creating
<1> HIDE DEF o
<1> QED BY <1>1, <1>2, MoveOnce DEF StartRead, StartDelete, o

\* A create finds no row of its name: it goes on to place its chunks.
LEMMA OnceSelectRow ==
  ASSUME IInv, OnceInv, NEW c \in Client, SelectRow(c)
  PROVE  OnceInv'
<1>1. /\ op[c] \in Ops /\ OpOK(op[c]) /\ OnceOp(op[c]) /\ op[c].pc = "select_row"
  BY Known DEF SelectRow, OnceInv
<1>2. CASE Wanted(c)
  <2> DEFINE o == [op[c] EXCEPT !.pc = "select_chunks", !.row = files[op[c].file]]
  <2>1. op' = [op EXCEPT ![c] = o]
    BY <1>2 DEF SelectRow
  <2>2. op[c].kind # "create"
    BY <1>1, <1>2 DEF Wanted, OnceOp, Fresh, Creating, Exists
  <2>3. OpOK(o) /\ OnceOp(o) /\ ~Creating(o) /\ o.kind # "create"
    BY <1>1, <2>2 DEF Ops, OpOK, OnceOp, Fresh, Claims, Uploading, Creating
  <2> HIDE DEF o
  <2> QED BY <2>1, <2>3, MoveOnce DEF SelectRow
<1>3. CASE ~Wanted(c) /\ op[c].kind = "create"
  <2> DEFINE o == [op[c] EXCEPT !.pc = "place"]
  <2>1. op' = [op EXCEPT ![c] = o]
    BY <1>3 DEF SelectRow
  <2>2. /\ OpOK(o) /\ OnceOp(o) /\ Creating(op[c])
        /\ op[c].kind = "create" /\ o.file = op[c].file /\ o.upload = op[c].upload
    BY <1>1, <1>3 DEF Ops, OpOK, OnceOp, Fresh, Claims, Uploading, Creating
  <2> HIDE DEF o
  <2> QED BY <2>1, <2>2, MoveOnce DEF SelectRow
<1>4. CASE ~Wanted(c) /\ op[c].kind # "create"
  BY <1>4, OnceToIdle DEF SelectRow
<1> QED BY <1>2, <1>3, <1>4

\* What get_file lists for f is claimed: it is there, so it was written.
LEMMA ListedClaimed ==
  ASSUME IInv, OnceInv, NEW f \in Filename, NEW m \in get_file_chunks(f)
  PROVE  Claimed(m.chunk_id, f)
<1>1. TablesOK /\ MetadataConsistent
  BY Parts
<1>2. PICK ch \in RowsOf(f) : m.chunk_id = ch.chunk_id
  BY DEF get_file_chunks
<1>3. ch \in chunks /\ ch.filename = f /\ ch.chunk_id \in ChunkIds
  BY <1>1 DEF RowsOf, TablesOK
<1>4. PICK u \in UploadNumbers : \E i \in Nat : /\ ch.chunk_id = ChunkIdOf(u, i)
                                             /\ uploads[u].filename = f
  BY <1>1, <1>3, RowOwner
<1>5. ~InHand(u)
  <2> SUFFICES ASSUME NEW d \in Client, Creating(op[d]), op[d].upload = u
               PROVE  FALSE
    BY DEF InHand
  <2>1. op[d].file = f /\ ~Exists(op[d].file)
    BY <1>4, Known DEF Placing, Creating, OnceInv, OnceOp, Fresh
  <2> QED BY <2>1, <1>1, <1>3, RowOwner
<1>6. \A x \in chunks : x.chunk_id = ch.chunk_id => x.filename = f
  BY <1>1, <1>3, SameFile
<1> QED BY <1>2, <1>3, <1>4, <1>5, <1>6 DEF Claimed, ChunkIdOf

LEMMA OnceSelectPlacements ==
  ASSUME IInv, OnceInv, NEW c \in Client, SelectPlacements(c)
  PROVE  OnceInv'
<1>1. /\ op[c] \in Ops /\ OpOK(op[c]) /\ op[c].kind # "create"
      /\ op[c].file \in Filename /\ op[c].pc = "select_chunks"
  BY Known DEF SelectPlacements
<1> DEFINE metas == get_file_chunks(op[c].file)
           o == [op[c] EXCEPT !.pc = IF op[c].kind = "read" THEN "fetch" ELSE "drop",
                              !.metas = metas]
<1>2. op' = [op EXCEPT ![c] = o]
  BY DEF SelectPlacements
<1>3. \A m \in metas : Claimed(m.chunk_id, op[c].file)
  BY <1>1, ListedClaimed
<1> HIDE DEF metas
<1>4. OpOK(o) /\ OnceOp(o) /\ ~Creating(o) /\ o.kind # "create"
  BY <1>1, <1>3 DEF Ops, OpOK, OnceOp, Fresh, Claims, Uploading, Creating
<1> HIDE DEF o
<1> QED BY <1>2, <1>4, MoveOnce DEF SelectPlacements

LEMMA OncePlaceChunk ==
  ASSUME IInv, OnceInv, NEW c \in Client, PlaceChunk(c)
  PROVE  OnceInv'
<1>1. /\ op[c] \in Ops /\ OpOK(op[c]) /\ OnceOp(op[c])
      /\ op[c].pc = "place" /\ op[c].kind = "create"
  BY Known DEF PlaceChunk, OpOK, OnceInv
<1>2. PICK metas : op' = [op EXCEPT ![c].metas = metas]
  BY DEF PlaceChunk
<1> DEFINE o == [op[c] EXCEPT !.metas = metas]
<1>3. op' = [op EXCEPT ![c] = o]
  BY <1>2
<1>4. /\ OnceOp(o) /\ Creating(op[c])
      /\ op[c].kind = "create" /\ o.file = op[c].file /\ o.upload = op[c].upload
  BY <1>1 DEF Ops, OnceOp, Fresh, Claims, Uploading, Creating
<1>5. OpOK(o)
  <2>1. IInv'
    BY StepPlaceChunk
  <2>2. OpOK(op[c])'
    BY <2>1 DEF IInv, TypeOK
  <2>3. op'[c] = o
    BY <1>3, Known, Parts DEF OpsOK
  <2>4. UNCHANGED uploads
    BY DEF PlaceChunk
  <2> QED BY <2>2, <2>3, <2>4 DEF OpOK, UploadNumbers, ChunkIdOf
<1> HIDE DEF o
<1> QED BY <1>3, <1>4, <1>5, MoveOnce DEF PlaceChunk

LEMMA OnceFetchChunk ==
  ASSUME IInv, OnceInv, NEW c \in Client, NEW m \in op[c].metas, FetchChunk(c, m)
  PROVE  OnceInv'
<1>1. op[c] \in Ops /\ OpOK(op[c]) /\ OnceOp(op[c]) /\ op[c].pc = "fetch"
  BY Known DEF FetchChunk, OnceInv
<1>fetched. PICK o : o = [op[c] EXCEPT !.got = @ \cup {m.chunk_id}]
  OBVIOUS
<1>2. op' = [op EXCEPT ![c] = o]
  BY <1>fetched DEF FetchChunk
<1>3. /\ OpOK(o) /\ OnceOp(o) /\ ~Creating(o)
      /\ o.kind = op[c].kind /\ o.file = op[c].file /\ o.upload = op[c].upload
  BY <1>1, <1>fetched DEF Ops, OpOK, OnceOp, Fresh, Claims, Uploading, Creating
<1>4. UNCHANGED <<dbvars, deletes, late, gc, uploads>> /\ disk' = disk
  BY DEF FetchChunk
<1>5. \A a \in Address : disk[a] \subseteq disk'[a]
  BY <1>4
<1> HIDE DEF FetchChunk
<1> QED BY <1>2, <1>3, <1>4, <1>5, MoveOnce

\* One storage server stored all that was sent to it, or failed.
LEMMA OnceUpload ==
  ASSUME IInv, OnceInv, NEW c \in Client, NEW a \in Address,
         UploadTo(c, a) \/ UploadFails(c, a)
  PROVE  OnceInv'
<1>1. /\ op[c] \in Ops /\ OpOK(op[c]) /\ OnceOp(op[c]) /\ op[c].pc = "upload"
      /\ disk \in [Address -> SUBSET ChunkIds] /\ op[c].kind = "create"
  BY Known DEF UploadTo, UploadFails, OnceInv, RestOK, OpOK
<1>2. PICK b \in BOOLEAN, stored \in SUBSET Writes(c, a) :
        /\ op' = [op EXCEPT ![c] = [op[c] EXCEPT !.todo = @ \ {a}, !.failed = b]]
        /\ disk' = [disk EXCEPT ![a] = @ \cup stored]
        /\ op[c].failed = TRUE => b = TRUE
        /\ b = TRUE \/ stored = Writes(c, a)
  <2>1. CASE UploadTo(c, a)
    <3>1. [op[c] EXCEPT !.todo = @ \ {a}]
            = [op[c] EXCEPT !.todo = @ \ {a}, !.failed = op[c].failed]
      BY <1>1 DEF Ops
    <3>2. op[c].failed \in BOOLEAN
      BY <1>1 DEF Ops
    <3> QED BY <2>1, <3>1, <3>2 DEF UploadTo
  <2>2. CASE UploadFails(c, a)
    BY <2>2 DEF UploadFails
  <2> QED BY <2>1, <2>2
<1>sent. PICK o : o = [op[c] EXCEPT !.todo = @ \ {a}, !.failed = b]
  OBVIOUS
<1>3. \A x \in Address : disk[x] \subseteq disk'[x]
  BY <1>1, <1>2
<1>4. /\ OpOK(o) /\ ~Creating(o) /\ o.pc = op[c].pc /\ o.metas = op[c].metas
      /\ o.kind = op[c].kind /\ o.file = op[c].file /\ o.upload = op[c].upload
      /\ o.todo = op[c].todo \ {a} /\ o.failed = b
  BY <1>1, <1>sent DEF Ops, OpOK, Creating
<1>5. op' = [op EXCEPT ![c] = o]
  BY <1>2, <1>sent
<1>6. UNCHANGED <<dbvars, deletes, late, gc, uploads>>
  BY DEF UploadTo, UploadFails
<1>7. Uploading(o)'
  <2> SUFFICES ASSUME NEW ch \in RowsOf(o.file)', NEW x \in Locations(ch.chunk_id)'
               PROVE  /\ \E m \in o.metas : m.chunk_id = ch.chunk_id /\ x \in m.locations
                      /\ x \in o.todo \/ o.failed = TRUE \/ ch.chunk_id \in disk'[x]
    BY <1>1, <1>4, <1>6 DEF Uploading, OnceOp, dbvars
  <2>1. ch \in RowsOf(op[c].file) /\ x \in Locations(ch.chunk_id) /\ x \in Address
    BY <1>4, <1>6 DEF dbvars, RowsOf, Locations
  <2>2. PICK m \in op[c].metas : m.chunk_id = ch.chunk_id /\ x \in m.locations
    BY <1>1, <2>1 DEF OnceOp, Uploading
  <2>3. x \in op[c].todo \/ op[c].failed = TRUE \/ ch.chunk_id \in disk[x]
    BY <1>1, <2>1 DEF OnceOp, Uploading
  <2>4. CASE x = a /\ stored = Writes(c, a)
    <3>1. ch.chunk_id \in Writes(c, a)
      BY <2>2, <2>4 DEF Writes
    <3> QED BY <1>1, <1>2, <1>4, <2>2, <2>4, <3>1
  <2> QED BY <1>2, <1>3, <1>4, <2>1, <2>2, <2>3, <2>4
<1>8. OnceOp(o)'
  BY <1>1, <1>4, <1>7 DEF OnceOp, Fresh, Claims, Creating
<1> QED BY <1>3, <1>4, <1>5, <1>6, <1>8, MoveOnce

-----------------------------------------------------------------------------
(***************************************************************************)
(* Commits.  A commit that names f while the only CreateFile call for f is *)
(* uploading, all of it done, decides a file whose rows are all stored.    *)
(***************************************************************************)

LEMMA AllStored ==
  ASSUME IInv, OnceInv, NEW c \in Client, AllUploaded(c)
  PROVE  /\ Stored(op[c].file) /\ op[c].file \in Filename /\ Used(op[c].file)
         /\ op[c].kind = "create"
         /\ \A d \in Client : d # c /\ op[d].kind = "create" => op[d].file # op[c].file
<1>1. /\ OnceOp(op[c]) /\ op[c] \in Ops /\ op[c].kind = "create"
      /\ op[c].file \in Filename /\ op[c].failed = FALSE /\ op[c].upload \in UploadNumbers
      /\ uploads[op[c].upload].filename = op[c].file /\ op[c].pc = "upload"
      /\ op[c].todo = {}
  BY Known DEF OnceInv, AllUploaded, OpOK, Ops, Placing
<1>2. Stored(op[c].file)
  BY <1>1 DEF OnceOp, Uploading, Stored
<1>3. \A d \in Client : d # c /\ op[d].kind = "create" => op[d].file # op[c].file
  BY <1>1 DEF OnceInv, OneCreator
<1> QED BY <1>1, <1>2, <1>3 DEF Used

LEMMA CommitKeepsRows ==
  ASSUME TablesOK, NEW f \in Filename, commit_file(f), UNCHANGED <<disk, uploads>>
  PROVE  /\ KeepsRows
         /\ \A g \in Filename : g # f => files'[g] = files[g]
BY DEF TablesOK, commit_file, KeepsRows, Exists, Locations

LEMMA OnceCommitFile ==
  ASSUME IInv, OnceInv, NEW c \in Client, CommitFile(c) \/ CommitTimesOut(c)
  PROVE  OnceInv'
<1>1. TablesOK /\ op \in [Client -> Ops] /\ AllUploaded(c)
  BY Parts DEF OpsOK, CommitFile, CommitTimesOut
<1>2. /\ op' = [op EXCEPT ![c] = Idle] /\ gc' = gc /\ deletes' = deletes
      /\ late' \subseteq late \cup {op[c].file}
  BY DEF CommitFile, CommitTimesOut
<1>3. KeepsRows /\ \A g \in Filename : g # op[c].file => files'[g] = files[g]
  <2>1. CASE CommitFile(c)
    BY <2>1, <1>1, AllStored, CommitKeepsRows DEF CommitFile
  <2>2. CASE CommitTimesOut(c)
    BY <2>2, SameRows DEF CommitTimesOut, dbvars
  <2> QED BY <2>1, <2>2
<1>4. KeepsCalls
  BY <1>1, <1>2, IdleOnce DEF KeepsCalls
<1>5. \A d \in Client : op'[d] = op[d] \/ (OnceOp(op'[d]) /\ OpOK(op'[d]))
  BY <1>1, <1>2, IdleOnce
<1>6. \A d \in deletes' \cup gc'.dels : Doomed(d[2])
  BY <1>2 DEF OnceInv, DeletesDoomed
<1>7. \A f \in Filename :
        Decided(f)' => \/ Decided(f)
                       \/ Stored(f) /\ \A d \in Client : op'[d].kind = "create" =>
                                                           op'[d].file # f
  <2> SUFFICES ASSUME NEW f \in Filename, Decided(f)', ~Decided(f)
               PROVE  Stored(f) /\ \A d \in Client : op'[d].kind = "create" =>
                                                     op'[d].file # f
    OBVIOUS
  <2>1. f = op[c].file
    BY <1>2, <1>3 DEF Decided
  <2>2. \A d \in Client : op'[d].kind = "create" => d # c /\ op'[d] = op[d]
    BY <1>1, <1>2, IdleOnce
  <2> QED BY <1>1, <2>1, <2>2, AllStored
<1>8. \A f \in late' : f \in late \/ Used(f)
  BY <1>1, <1>2, AllStored
<1> QED BY <1>2, <1>3, <1>4, <1>5, <1>6, <1>7, <1>8, Settle

LEMMA OnceLateCommitFile ==
  ASSUME IInv, OnceInv, NEW f \in Filename, LateCommitFile(f)
  PROVE  OnceInv'
<1>1. TablesOK
  BY Parts
<1>2. /\ op' = op /\ gc' = gc /\ deletes' = deletes /\ late' \subseteq late
      /\ f \in late
  BY DEF LateCommitFile
<1>3. KeepsRows /\ \A g \in Filename : g # f => files'[g] = files[g]
  BY <1>1, CommitKeepsRows DEF LateCommitFile
<1>4. KeepsCalls
  BY <1>2 DEF KeepsCalls
<1>5. \A d \in deletes' \cup gc'.dels : Doomed(d[2])
  BY <1>2 DEF OnceInv, DeletesDoomed
<1>6. \A g \in Filename : Decided(g)' => Decided(g)
  BY <1>2, <1>3 DEF Decided
<1> QED BY <1>2, <1>3, <1>4, <1>5, <1>6, Settle

-----------------------------------------------------------------------------
(***************************************************************************)
(* Deletes.  What was claimed for f is doomed once the row of f is gone.   *)
(***************************************************************************)

LEMMA DeleteKeepsRows ==
  ASSUME TablesOK, MetadataConsistent, NEW f \in Filename, delete_file(f),
         UNCHANGED <<disk, uploads>>
  PROVE  /\ KeepsRows
         /\ \A g \in Filename : Decided(g)' /\ late' \subseteq late => Decided(g)
<1>1. \A ch \in chunks' : Locations(ch.chunk_id)' = Locations(ch.chunk_id)
  <2> SUFFICES ASSUME NEW ch \in chunks'
               PROVE  Locations(ch.chunk_id)' = Locations(ch.chunk_id)
    OBVIOUS
  <2>1. ch \in chunks /\ ch.filename # f
    BY DEF delete_file, RowsOf
  <2>2. ch.chunk_id \notin {x.chunk_id : x \in RowsOf(f)}
    BY <2>1, SameFile DEF RowsOf
  <2> QED BY <2>2 DEF Locations, delete_file, ReplicasWithout
<1> QED BY <1>1 DEF TablesOK, delete_file, KeepsRows, Exists, NoFile, Decided

LEMMA ClaimDoomed ==
  ASSUME KeepsRows, KeepsCalls, NEW f \in Filename, delete_file(f),
         NEW id, Claimed(id, f)
  PROVE  Doomed(id)'
<1>1. Claimed(id, f)'
  BY ClaimKept
<1>2. ~ChunkExists(id)'
  BY <1>1 DEF Claimed, ChunkExists, delete_file, RowsOf
<1> QED BY <1>1, <1>2 DEF Claimed, Doomed

LEMMA OnceDropMetadata ==
  ASSUME IInv, OnceInv, NEW c \in Client, DropMetadata(c)
  PROVE  OnceInv'
<1>1. /\ TablesOK /\ MetadataConsistent /\ op \in [Client -> Ops]
      /\ op[c].file \in Filename /\ op[c].pc = "drop" /\ Claims(op[c])
  BY Known, Parts DEF OpsOK, DropMetadata, OnceInv, OnceOp
<1>2. /\ op' = [op EXCEPT ![c] = Idle] /\ gc' = gc /\ late' = late
      /\ deletes' = deletes \cup Deletions(op[c].metas)
      /\ delete_file(op[c].file) /\ UNCHANGED <<disk, uploads>>
  BY DEF DropMetadata
<1>3. KeepsRows /\ \A g \in Filename : Decided(g)' => Decided(g)
  BY <1>1, <1>2, DeleteKeepsRows
<1>4. KeepsCalls /\ \A d \in Client : op'[d] = op[d] \/ (OnceOp(op'[d]) /\ OpOK(op'[d]))
  BY <1>1, <1>2, IdleOnce DEF KeepsCalls
<1>5. \A d \in deletes' \cup gc'.dels : Doomed(d[2]) \/ Doomed(d[2])'
  <2> SUFFICES ASSUME NEW d \in Deletions(op[c].metas)
               PROVE  Doomed(d[2])'
    BY <1>2 DEF OnceInv, DeletesDoomed
  <2>1. PICK m \in op[c].metas : d[2] = m.chunk_id
    BY DEF Deletions
  <2> QED BY <1>1, <1>2, <1>3, <1>4, <2>1, ClaimDoomed DEF Claims
<1> QED BY <1>2, <1>3, <1>4, <1>5, Settle

\* A step of the cleanup thread: no operation changes.
LEMMA GcOnce ==
  ASSUME IInv, OnceInv, KeepsRows, UNCHANGED <<op, deletes, late>>,
         \A d \in gc'.dels : d \in gc.dels \/ Doomed(d[2])',
         \A fm \in gc'.found : fm \in gc.found \/
           \A m \in fm.metas : Claimed(m.chunk_id, fm.filename),
         \A f \in Filename : Decided(f)' => Decided(f)
  PROVE  OnceInv'
<1>1. KeepsCalls
  BY DEF KeepsCalls
<1>2. \A d \in deletes' \cup gc'.dels : Doomed(d[2]) \/ Doomed(d[2])'
  BY DEF OnceInv, DeletesDoomed
<1> QED BY <1>1, <1>2, Settle

LEMMA OnceGcReads ==
  ASSUME IInv, OnceInv,
         \/ \E S \in SUBSET Filename : GcList(S)
         \/ \E f \in gc.todo : GcSelectRow(f)
         \/ GcSelectChunks
         \/ GcListed
         \/ GcDone
  PROVE  OnceInv'
<1>0. gc \in GcPasses /\ (gc.pc = "chunks" => gc.cur \in Filename)
  BY Parts DEF RestOK
<1>1. UNCHANGED <<dbvars, disk, op, deletes, late, uploads>>
  BY DEF GcList, GcSelectRow, GcSelectChunks, GcListed, GcDone
<1>2. KeepsRows /\ \A f \in Filename : Decided(f)' => Decided(f)
  BY <1>1, SameRows DEF Decided, dbvars
<1>3. CASE ~GcSelectChunks
  <2>1. gc'.found \subseteq gc.found /\ gc'.dels \subseteq gc.dels
    <3>1. CASE \E S \in SUBSET Filename : GcList(S)
      BY <1>0, <3>1 DEF GcList, GcPasses
    <3>2. CASE \E f \in gc.todo : GcSelectRow(f)
      BY <1>0, <3>2 DEF GcSelectRow, GcPasses
    <3>3. CASE GcListed
      BY <1>0, <3>3 DEF GcListed, GcPasses
    <3>4. CASE GcDone
      BY <3>4 DEF GcDone, GcIdle
    <3> QED BY <1>3, <3>1, <3>2, <3>3, <3>4
  <2> QED BY <1>1, <1>2, <2>1, GcOnce
<1>4. CASE GcSelectChunks
  <2>1. /\ gc'.found = gc.found \cup {[filename |-> gc.cur, metas |-> get_file_chunks(gc.cur)]}
        /\ gc'.dels = gc.dels
    BY <1>0, <1>4 DEF GcSelectChunks, GcPasses
  <2>2. gc.cur \in Filename
    BY <1>0, <1>4 DEF GcSelectChunks
  <2>3. \A m \in get_file_chunks(gc.cur) : Claimed(m.chunk_id, gc.cur)
    BY <2>2, ListedClaimed
  <2>4. \A fm \in gc'.found : fm \in gc.found \/
          \A m \in fm.metas : Claimed(m.chunk_id, fm.filename)
    BY <2>1, <2>3
  <2>5. UNCHANGED <<op, deletes, late>> /\ \A d \in gc'.dels : d \in gc.dels
    BY <1>1, <2>1
  <2> HIDE DEF GcSelectChunks
  <2> QED BY <1>2, <2>4, <2>5, GcOnce
<1> QED BY <1>3, <1>4

LEMMA OnceGcDrop ==
  ASSUME IInv, OnceInv, NEW fm \in gc.found, GcDrop(fm)
  PROVE  OnceInv'
<1>1. /\ TablesOK /\ MetadataConsistent /\ gc \in GcPasses /\ fm.filename \in Filename
  BY Parts DEF RestOK, GcPasses
<1>2. /\ UNCHANGED <<disk, op, deletes, late, uploads>> /\ delete_file(fm.filename)
      /\ gc'.found \subseteq gc.found /\ gc'.dels = Deletions(fm.metas)
  BY <1>1 DEF GcDrop, GcPasses
<1>3. KeepsRows /\ \A g \in Filename : Decided(g)' => Decided(g)
  BY <1>1, <1>2, DeleteKeepsRows
<1>4. KeepsCalls
  BY <1>2 DEF KeepsCalls
<1>5. \A d \in gc'.dels : Doomed(d[2])'
  <2> SUFFICES ASSUME NEW d \in Deletions(fm.metas)
               PROVE  Doomed(d[2])'
    BY <1>2
  <2>1. PICK m \in fm.metas : d[2] = m.chunk_id
    BY DEF Deletions
  <2> QED BY <1>1, <1>2, <1>3, <1>4, <2>1, ClaimDoomed DEF OnceInv, FoundClaimed
<1> QED BY <1>2, <1>3, <1>5, GcOnce

\* A deletion that is made takes nothing that a row names off a disk.
LEMMA DoomedOffDisk ==
  ASSUME UNCHANGED <<dbvars, uploads>>, disk \in [Address -> SUBSET ChunkIds],
         NEW a, NEW id, Doomed(id), delete_chunk_on(a, id)
  PROVE  KeepsRows
<1>1. \A ch \in chunks : ch.chunk_id # id
  BY DEF Doomed, ChunkExists
<1>2. \A ch \in chunks' : \A b \in Address :
        ch.chunk_id \in disk[b] => ch.chunk_id \in disk'[b]
  BY <1>1 DEF delete_chunk_on, dbvars
<1> QED BY <1>2 DEF KeepsRows, dbvars, Locations, Exists

LEMMA OnceRunDelete ==
  ASSUME IInv, OnceInv, NEW d \in deletes, RunDelete(d[1], d[2])
  PROVE  OnceInv'
<1>1. KeepsRows
  BY DoomedOffDisk, Parts DEF RunDelete, RestOK, OnceInv, DeletesDoomed
<1>2. KeepsCalls /\ op' = op /\ gc' = gc /\ late' = late /\ deletes' \subseteq deletes
  BY DEF RunDelete, KeepsCalls
<1>3. \A x \in deletes' \cup gc'.dels : Doomed(x[2])
  BY <1>2 DEF OnceInv, DeletesDoomed
<1>4. \A f \in Filename : Decided(f)' => Decided(f)
  BY DEF RunDelete, Decided, dbvars
<1> QED BY <1>1, <1>2, <1>3, <1>4, Settle

LEMMA OnceGcDelete ==
  ASSUME IInv, OnceInv, NEW d \in gc.dels, GcDelete(d[1], d[2])
  PROVE  OnceInv'
<1>1. KeepsRows
  BY DoomedOffDisk, Parts DEF GcDelete, RestOK, OnceInv, DeletesDoomed
<1>2. /\ UNCHANGED <<op, deletes, late>> /\ gc'.dels \subseteq gc.dels
      /\ gc'.found = gc.found
  BY Parts DEF GcDelete, RestOK, GcPasses
<1>3. \A f \in Filename : Decided(f)' => Decided(f)
  BY DEF GcDelete, Decided, dbvars
<1> QED BY <1>1, <1>2, <1>3, GcOnce

LEMMA OnceNamingCrash ==
  ASSUME IInv, OnceInv, NamingCrash
  PROVE  OnceInv'
<1>1. KeepsRows
  BY SameRows DEF NamingCrash
<1>2. \A d \in Client : op'[d] = op[d] \/ op'[d] = Idle
  BY DEF NamingCrash
<1>3. KeepsCalls /\ \A d \in Client : op'[d] = op[d] \/ (OnceOp(op'[d]) /\ OpOK(op'[d]))
  BY <1>2, IdleOnce DEF KeepsCalls
<1>4. gc'.found = {} /\ gc'.dels = {} /\ deletes' \subseteq deletes \cup gc.dels /\ late' = {}
  BY DEF NamingCrash, GcIdle
<1>5. \A d \in deletes' \cup gc'.dels : Doomed(d[2])
  BY <1>4 DEF OnceInv, DeletesDoomed
<1>6. \A f \in Filename : Decided(f)' => Decided(f)
  BY <1>4 DEF NamingCrash, Decided, dbvars
<1> QED BY <1>1, <1>3, <1>4, <1>5, <1>6, Settle

-----------------------------------------------------------------------------
(***************************************************************************)
(* The steps that add rows, and a new CreateFile call.                     *)
(***************************************************************************)

\* The rows of a new file: none had its name, none has its ids.
LEMMA NewRows ==
  ASSUME IInv, OnceInv, NEW c \in Client, WritePending(c),
         NEW f, NEW u, NEW metas,
         f = op[c].file, u = op[c].upload, metas = op[c].metas
  PROVE  /\ RowsOf(f)' = {[chunk_id |-> m.chunk_id, filename |-> f, idx |-> m.index]
                            : m \in metas}
         /\ chunks' = chunks \cup RowsOf(f)'
         /\ \A m \in metas : m.chunk_id[1] = u
         /\ \A m \in metas : Locations(m.chunk_id)' = m.locations
         /\ \A ch \in chunks : Locations(ch.chunk_id)' = Locations(ch.chunk_id)
         /\ \A g \in Filename \ {f} : RowsOf(g)' = RowsOf(g) /\ files'[g] = files[g]
<1> DEFINE new == {[chunk_id |-> m.chunk_id, filename |-> f, idx |-> m.index] : m \in metas}
<1>1. /\ TablesOK /\ MetadataConsistent /\ f \in Filename /\ metas \in SUBSET Metas
      /\ u \in UploadNumbers /\ uploads[u].filename = f /\ ~Exists(f)
      /\ \A m \in metas : m.chunk_id = ChunkIdOf(u, m.index)
      /\ \A m, n \in metas : m.index = n.index => m = n
  BY Known DEF WritePending, OpOK, Ops, Placing, OnceInv, OnceOp, Fresh, Creating
<1>2. create_pending(f, Asked(c), u, metas)
  BY DEF WritePending
<1>3. RowsOf(f) = {} /\ ReplicasWithout(f) = replicas
  BY <1>1 DEF MetadataConsistent, ReplicasWithout
<1>4. chunks' = chunks \cup new
  BY <1>2, <1>3 DEF create_pending
<1>5. RowsOf(f)' = new /\ \A g \in Filename \ {f} : RowsOf(g)' = RowsOf(g)
  <2>1. \A ch \in new : ch.filename = f
    OBVIOUS
  <2>2. \A ch \in chunks : ch.filename # f
    BY <1>3 DEF RowsOf
  <2>3. RowsOf(f)' = {ch \in chunks' : ch.filename = f}
    BY DEF RowsOf
  <2> HIDE DEF new
  <2>4. RowsOf(f)' = new
    BY <2>1, <2>2, <2>3, <1>4
  <2>5. \A g \in Filename \ {f} : RowsOf(g)' = RowsOf(g)
    BY <2>1, <1>4 DEF RowsOf
  <2> QED BY <2>4, <2>5
<1>6. \A g \in Filename \ {f} : files'[g] = files[g]
  BY <1>1, <1>2 DEF create_pending, TablesOK
<1>7. \A m \in metas : m.chunk_id[1] = u
  BY <1>1 DEF ChunkIdOf
<1>8. \A ch \in chunks : ch.chunk_id[1] # u
  <2> SUFFICES ASSUME NEW ch \in chunks, ch.chunk_id[1] = u
               PROVE  FALSE
    OBVIOUS
  <2>1. ch.filename = f /\ Exists(ch.filename)
    BY <1>1, RowOwner DEF ChunkIdOf
  <2> QED BY <1>1, <2>1
<1>9. \A r \in replicas : r[1][1] # u
  <2> SUFFICES ASSUME NEW r \in replicas, r[1][1] = u
               PROVE  FALSE
    OBVIOUS
  <2>1. PICK ch \in chunks : ch.chunk_id = r[1]
    BY <1>1 DEF MetadataConsistent
  <2> QED BY <2>1, <1>8
<1>10. \A ch \in chunks : Locations(ch.chunk_id)' = Locations(ch.chunk_id)
  <2> SUFFICES ASSUME NEW ch \in chunks, NEW a \in Address
               PROVE  <<ch.chunk_id, a>> \in replicas' <=> <<ch.chunk_id, a>> \in replicas
    BY DEF Locations
  <2>1. \A m \in metas : ch.chunk_id # m.chunk_id
    BY <1>7, <1>8
  <2> QED BY <2>1, <1>2, <1>3 DEF create_pending
<1>11. ASSUME NEW m \in metas PROVE Locations(m.chunk_id)' = m.locations
  <2>1. ASSUME NEW a \in Address
        PROVE  <<m.chunk_id, a>> \in replicas' <=> a \in m.locations
    <3>1. <<m.chunk_id, a>> \notin replicas
      BY <1>7, <1>9
    <3>2. \A n \in metas : n.chunk_id = m.chunk_id => n = m
      BY <1>1 DEF ChunkIdOf
    <3> QED BY <3>1, <3>2, <1>2, <1>3 DEF create_pending
  <2>2. m.locations \subseteq Address
    BY <1>1 DEF Metas
  <2> QED BY <2>1, <2>2 DEF Locations
<1> QED BY <1>4, <1>5, <1>6, <1>7, <1>10, <1>11

LEMMA OnceWritePending ==
  ASSUME IInv, OnceInv, NEW c \in Client, WritePending(c)
  PROVE  OnceInv'
<1>named. PICK f, u, metas : f = op[c].file /\ u = op[c].upload /\ metas = op[c].metas
  OBVIOUS
<1>1. /\ op[c] \in Ops /\ OpOK(op[c]) /\ Creating(op[c]) /\ op \in [Client -> Ops]
      /\ f \in Filename /\ f \notin late /\ op[c].kind = "create" /\ op[c].pc = "place"
      /\ \A m \in op[c].metas : m.locations \subseteq Address
  BY <1>named, Known, Parts DEF WritePending, OpOK, Ops, Metas, OnceInv, OnceOp, Fresh, Creating, OpsOK
<1>written. PICK o : o = [op[c] EXCEPT !.pc = "upload",
                                       !.todo = UNION {m.locations : m \in op[c].metas}]
  OBVIOUS
<1>2. /\ op' = [op EXCEPT ![c] = o] /\ o.pc = "upload" /\ o.kind = "create"
      /\ o.file = f /\ o.upload = u /\ o.metas = metas
      /\ o.todo = UNION {m.locations : m \in metas}
  BY <1>named, <1>1, <1>written DEF WritePending, Ops
<1>3. UNCHANGED <<disk, deletes, late, gc, uploads>>
  BY DEF WritePending
<1>4. KeepsCalls
  BY <1>named, <1>1, <1>2 DEF KeepsCalls, Creating
<1>5. /\ \A ch \in chunks' : ch \in chunks \/ (ch.filename = f /\ ch.chunk_id[1] = u)
      /\ chunks \subseteq chunks'
  <2>1. \A ch \in RowsOf(f)' : ch.filename = f /\ ch.chunk_id[1] = u
    BY <1>named, NewRows
  <2> QED BY <1>named, <2>1, NewRows
<1>6. ASSUME NEW id, ~InHand(id[1]), ~ChunkExists(id)
      PROVE  ~InHand(id[1])' /\ ~ChunkExists(id)'
  <2>1. id[1] # u
    BY <1>named, <1>6, <1>1 DEF InHand
  <2> QED BY <2>1, <1>6, <1>4, <1>5, HandKept DEF ChunkExists
<1>7. DeletesDoomed'
  BY <1>3, <1>6 DEF OnceInv, DeletesDoomed, Doomed, ChunkIds, UploadNumbers
<1>8. ASSUME NEW id, NEW g, Claimed(id, g)
      PROVE  Claimed(id, g)'
  <2>1. id[1] # u /\ ~InHand(id[1])'
    BY <1>named, <1>8, <1>1, <1>4, HandKept DEF InHand, Claimed
  <2> QED BY <2>1, <1>3, <1>5, <1>8 DEF Claimed, ChunkIds, UploadNumbers
<1>9. FoundClaimed'
  BY <1>3, <1>8 DEF OnceInv, FoundClaimed
<1>10. \A g \in Filename \ {f} :
         /\ files'[g] = files[g] /\ RowsOf(g)' = RowsOf(g)
         /\ \A ch \in RowsOf(g) : Locations(ch.chunk_id)' = Locations(ch.chunk_id)
  BY <1>named, NewRows DEF RowsOf
<1>11. files'[f].status = "pending"
  BY <1>named, <1>1, Known DEF WritePending, create_pending, TablesOK
<1>12. DecidedStored'
  <2> SUFFICES ASSUME NEW g \in Filename, Decided(g)'
               PROVE  Stored(g)'
    BY DEF DecidedStored
  <2>1. g # f
    BY <1>1, <1>3, <1>11 DEF Decided
  <2>2. Stored(g)
    BY <2>1, <1>3, <1>10 DEF OnceInv, DecidedStored, Decided
  <2> QED BY <2>1, <2>2, <1>3, <1>10 DEF Stored
<1>13. Uploading(o)'
  <2> SUFFICES ASSUME NEW ch \in RowsOf(f)', NEW a \in Locations(ch.chunk_id)'
               PROVE  /\ \E m \in o.metas : m.chunk_id = ch.chunk_id /\ a \in m.locations
                      /\ a \in o.todo
    BY <1>1, <1>2, <1>3, <1>11 DEF Uploading
  <2>1. PICK m \in metas : ch.chunk_id = m.chunk_id
    BY <1>named, NewRows
  <2>2. a \in m.locations
    BY <1>named, <2>1, NewRows
  <2> QED BY <2>1, <2>2, <1>2
<1>14. ASSUME NEW x \in Ops, OnceOp(x), OpOK(x), x.kind = "create" => x.file # f
       PROVE  OnceOp(x)'
  <2>1. Fresh(x)'
    BY <1>3, <1>10, <1>14 DEF OnceOp, Fresh, Creating, Exists, OpOK
  <2>2. Claims(x)'
    BY <1>8, <1>14 DEF OnceOp, Claims
  <2>3. Uploading(x)'
    BY <1>3, <1>10, <1>14 DEF OnceOp, Uploading, OpOK
  <2> QED BY <2>1, <2>2, <2>3 DEF OnceOp
<1>15. ASSUME NEW d \in Client PROVE OnceOp(op[d])'
  <2>1. PICK x : x = op'[d]
    OBVIOUS
  <2>2. CASE d = c
    <3>1. x = o
      BY <1>1, <1>2, <2>1, <2>2
    <3>2. OnceOp(o)'
      BY <1>2, <1>13 DEF OnceOp, Fresh, Creating, Claims
    <3> QED BY <2>1, <3>1, <3>2 DEF OnceOp, Fresh, Creating, Claims, Uploading
  <2>3. CASE d # c
    <3>1. x = op[d]
      BY <1>1, <1>2, <2>1, <2>3
    <3>2. x \in Ops /\ OnceOp(x) /\ OpOK(x) /\ (x.kind = "create" => x.file # f)
      BY <1>named, <3>1, <2>3, <1>1, Known DEF OnceInv, OneCreator
    <3>3. OnceOp(x)'
      BY <3>2, <1>14
    <3> QED BY <2>1, <3>3 DEF OnceOp, Fresh, Creating, Claims, Uploading
  <2> QED BY <2>2, <2>3
<1>16. Len(uploads') <= MaxUploads /\ OneName' /\ \A g \in late' : Used(g)'
  BY <1>3 DEF OnceInv, OneName, UploadNumbers, Used
<1>17. OneCreator'
  BY <1>4 DEF OnceInv, OneCreator, KeepsCalls
<1> QED BY <1>7, <1>9, <1>12, <1>15, <1>16, <1>17 DEF OnceInv

\* A new call: its name is new (Reuse is FALSE), and so are the ids it will
\* give to its chunks.
LEMMA OnceStartCreate ==
  ASSUME ~Reuse, IInv, OnceInv, NEW c \in Client, NEW f \in Filename, NEW n \in ChunkCounts,
         StartCreate(c, f, n)
  PROVE  OnceInv'
<1>named. PICK e, u : e = [filename |-> f, num_chunks |-> n] /\ u = Len(uploads) + 1
  OBVIOUS
<1>started. PICK o : o = [Idle EXCEPT !.pc = "select_row", !.kind = "create", !.file = f,
                                !.upload = u]
  OBVIOUS
<1>1. /\ RestOK /\ TablesOK /\ MetadataConsistent /\ op \in [Client -> Ops]
      /\ e \in [filename : Filename, num_chunks : ChunkCounts]
      /\ uploads' = Append(uploads, e) /\ op' = [op EXCEPT ![c] = o]
      /\ UNCHANGED <<dbvars, disk, deletes, late, gc>>
  BY <1>named, <1>started, Parts DEF StartCreate, OpsOK
<1>2. /\ UploadNumbers \subseteq UploadNumbers' /\ u \in UploadNumbers' /\ u \notin UploadNumbers
      /\ \A v \in UploadNumbers' : v \in UploadNumbers \/ v = u
      /\ \A v \in UploadNumbers : uploads'[v] = uploads[v]
      /\ uploads'[u] = e /\ ChunkIds \subseteq ChunkIds' /\ Len(uploads') <= MaxUploads
  <2>1. Len(uploads) \in Nat /\ Len(uploads') = Len(uploads) + 1
    BY <1>1, Grow, LenNat
  <2>2. Len(uploads) < MaxUploads
    BY DEF StartCreate
  <2> QED BY <1>1, <1>named, <2>1, <2>2, BoundAssumption, Grow DEF UploadNumbers, ChunkIds
<1>3. ~Used(f)
  <2>1. DOMAIN uploads = UploadNumbers
    BY <1>1, LenProperties DEF RestOK, UploadNumbers
  <2> QED BY <2>1 DEF StartCreate, Used
<1>4. /\ o.kind = "create" /\ o.file = f /\ o.upload = u /\ o.pc = "select_row"
  BY <1>started DEF Idle
<1>5. \A v : v \in UploadNumbers /\ InHand(v)' => InHand(v)
  <2> SUFFICES ASSUME NEW v \in UploadNumbers, NEW d \in Client, Creating(op'[d]),
                      op'[d].upload = v
               PROVE  InHand(v)
    BY DEF InHand, Creating
  <2>1. d # c
    BY <1>1, <1>2, <1>4
  <2> QED BY <1>1, <2>1 DEF InHand
<1>6. ASSUME NEW id, id \in ChunkIds, ~InHand(id[1]) PROVE ~InHand(id[1])'
  BY <1>5, <1>6 DEF ChunkIds
<1>7. DeletesDoomed'
  BY <1>1, <1>2, <1>6 DEF OnceInv, DeletesDoomed, Doomed, ChunkExists, dbvars
<1>8. ASSUME NEW id, NEW g, Claimed(id, g) PROVE Claimed(id, g)'
  BY <1>1, <1>2, <1>6, <1>8 DEF Claimed, dbvars
<1>9. FoundClaimed'
  BY <1>1, <1>8 DEF OnceInv, FoundClaimed
<1>10. OneName'
  BY <1>2, <1>3, <1>named DEF OnceInv, OneName, Used
<1>11. OneCreator'
  <2>1. \A d \in Client : op[d].kind = "create" => op[d].file # f
    BY <1>3, Known DEF Used, Placing, OpOK
  <2> QED BY <1>1, <1>4, <2>1 DEF OnceInv, OneCreator
<1>12. ASSUME NEW x, OnceOp(x) PROVE OnceOp(x)'
  <2>1. Fresh(x)' /\ Uploading(x)'
    BY <1>1, <1>12 DEF OnceOp, Fresh, Uploading, Creating, Exists, RowsOf, Locations, dbvars
  <2>2. Claims(x)'
    BY <1>8, <1>12 DEF OnceOp, Claims
  <2> QED BY <2>1, <2>2 DEF OnceOp
<1>13. OnceOp(o)
  <2>1. ~Exists(f)
    BY <1>1, <1>3 DEF MetadataConsistent, WrittenBy, Used
  <2>2. f \notin late
    BY <1>3 DEF OnceInv
  <2> QED BY <1>4, <2>1, <2>2 DEF OnceOp, Fresh, Claims, Uploading
<1>14. ASSUME NEW d \in Client PROVE OnceOp(op[d])'
  <2>1. PICK x : x = op'[d]
    OBVIOUS
  <2>2. OnceOp(x)
    BY <1>1, <1>13, <2>1 DEF OnceInv
  <2> QED BY <2>1, <2>2, <1>12 DEF OnceOp, Fresh, Creating, Claims, Uploading
<1>15. DecidedStored'
  BY <1>1 DEF OnceInv, DecidedStored, Decided, Stored, RowsOf, Locations, dbvars
<1>16. \A g \in late' : Used(g)'
  BY <1>1, <1>2 DEF OnceInv, Used
<1> QED BY <1>2, <1>7, <1>9, <1>10, <1>11, <1>14, <1>15, <1>16 DEF OnceInv

-----------------------------------------------------------------------------
(***************************************************************************)
(* The invariant, and what it implies.                                     *)
(***************************************************************************)

LEMMA InitOnceInv ==
  ASSUME Init
  PROVE  OnceInv
<1>1. Len(uploads) = 0 /\ UploadNumbers = {}
  BY LenProperties DEF Init, UploadNumbers
<1>2. \A c \in Client : op[c] = Idle
  BY DEF Init
<1>3. \A c \in Client : OnceOp(op[c])
  BY <1>2, IdleOnce
<1>4. OneCreator
  BY <1>2, IdleOnce DEF OneCreator
<1>5. DecidedStored /\ DeletesDoomed /\ FoundClaimed
  BY DEF Init, DecidedStored, Decided, NoFile, DeletesDoomed, FoundClaimed, GcIdle
<1> QED BY <1>1, <1>3, <1>4, <1>5, BoundAssumption DEF OnceInv, OneName, Init

LEMMA StepOnceInv ==
  ASSUME ~Reuse, IInv, OnceInv, [Next]_vars
  PROVE  OnceInv'
<1>1. ASSUME NEW c \in Client, ClientStep(c)
      PROVE  OnceInv'
  <2>1. CASE \E f \in Filename, n \in ChunkCounts : StartCreate(c, f, n)
    BY <2>1, OnceStartCreate
  <2>2. CASE \E f \in Filename : StartRead(c, f) \/ StartDelete(c, f)
    BY <2>2, OnceStartCall
  <2>3. CASE SelectRow(c)
    BY <2>3, OnceSelectRow
  <2>4. CASE SelectOldChunks(c)
    BY <2>4 DEF SelectOldChunks, OnceInv, OnceOp, Fresh, Creating
  <2>5. CASE SelectPlacements(c)
    BY <2>5, OnceSelectPlacements
  <2>6. CASE PlaceChunk(c)
    BY <2>6, OncePlaceChunk
  <2>7. CASE PlaceRejected(c) \/ UploadAborted(c) \/ ClientCrash(c) \/ FetchFails(c) \/ ReadReturns(c)
    BY <2>7, OnceToIdle
       DEF PlaceRejected, UploadAborted, ClientCrash, FetchFails, ReadReturns
  <2>8. CASE WritePending(c)
    BY <2>8, OnceWritePending
  <2>9. CASE \E a \in Address : UploadTo(c, a) \/ UploadFails(c, a)
    BY <2>9, OnceUpload
  <2>10. CASE CommitFile(c) \/ CommitTimesOut(c)
    BY <2>10, OnceCommitFile
  <2>11. CASE DropMetadata(c)
    BY <2>11, OnceDropMetadata
  <2>12. CASE \E m \in op[c].metas : FetchChunk(c, m)
    BY <2>12, OnceFetchChunk
  <2> QED BY <1>1, <2>1, <2>2, <2>3, <2>4, <2>5, <2>6, <2>7, <2>8, <2>9, <2>10, <2>11,
             <2>12 DEF ClientStep
<1>2. ASSUME GcStep PROVE OnceInv'
  BY <1>2, OnceGcReads, OnceGcDrop, OnceGcDelete DEF GcStep
<1>3. ASSUME UNCHANGED vars PROVE OnceInv'
  <2>1. UNCHANGED <<op, deletes, late, gc>> /\ KeepsRows
    BY <1>3, SameRows DEF vars, dbvars
  <2>2. \A f \in Filename : Decided(f)' => Decided(f)
    BY <1>3 DEF vars, dbvars, Decided
  <2> QED BY <2>1, <2>2, GcOnce
<1>4. ASSUME NEW f \in Filename, LateCommitFile(f) PROVE OnceInv'
  BY <1>4, OnceLateCommitFile
<1> QED BY <1>1, <1>2, <1>3, <1>4, OnceRunDelete, OnceGcReads, OnceNamingCrash DEF Next

LEMMA OnceInvariance ==
  ASSUME ~Reuse
  PROVE  Spec => [](IInv /\ OnceInv)
<1>1. Init => IInv /\ OnceInv
  BY InitIInv, InitOnceInv
<1>2. IInv /\ OnceInv /\ [Next]_vars => IInv' /\ OnceInv'
  BY StepIInv, StepOnceInv
<1> QED BY <1>1, <1>2, PTL DEF Spec

\* With names that are used once, every replica that the metadata of a
\* committed file lists is on its server's disk, for any number of clients,
\* servers, names and crashes (create, CommitFile, DeleteFile, the cleanup
\* thread and the deletions in the background).
THEOREM OnceStored ==
  ASSUME ~Reuse
  PROVE  Spec => []CommittedFullyStored
<1>1. IInv /\ OnceInv => CommittedFullyStored
  BY DEF OnceInv, DecidedStored, Decided, CommittedFullyStored
<1> QED BY <1>1, OnceInvariance, PTL

-----------------------------------------------------------------------------
(***************************************************************************)
(* A committed file and its chunks stay, or go together.                   *)
(***************************************************************************)

DropBegun(f) ==
  /\ delete_file(f)
  /\ \/ \E c \in Client : op[c].pc = "drop" /\ op[c].file = f
     \/ \E fm \in gc.found : fm.filename = f

\* create_pending meets no committed row: the name was not used before.
LEMMA CommittedKept ==
  ASSUME IInv, OnceInv, [Next]_vars, NEW f \in Filename, files[f].status = "committed"
  PROVE  files'[f].status = "committed" \/ DropBegun(f)
<1>1. files \in [Filename -> Rows]
  BY Parts DEF TablesOK
<1>2. CASE files' = files
  BY <1>2
<1>3. ASSUME NEW g \in Filename, commit_file(g)
      PROVE  files'[f].status = "committed"
  BY <1>1, <1>3 DEF commit_file, Rows
<1>4. ASSUME NEW g \in Filename, delete_file(g), g # f
      PROVE  files'[f].status = "committed"
  BY <1>1, <1>4 DEF delete_file
<1>5. ASSUME NEW c \in Client, ClientStep(c), files' # files
      PROVE  files'[f].status = "committed" \/ DropBegun(f)
  <2>1. CASE WritePending(c)
    <3>1. Creating(op[c]) /\ op[c].file # f
      BY <2>1, Known DEF WritePending, OpOK, Creating, OnceInv, OnceOp, Fresh, Exists
    <3>2. files'[f] = files[f]
      BY <1>1, <2>1, <3>1 DEF WritePending, create_pending
    <3> QED BY <3>2
  <2>2. CASE CommitFile(c)
    <3>1. op[c].file \in Filename
      BY <2>2, AllStored DEF CommitFile
    <3> QED BY <1>3, <2>2, <3>1 DEF CommitFile
  <2>3. CASE DropMetadata(c)
    <3>1. op[c].file \in Filename /\ op[c].pc = "drop"
      BY <2>3, Known DEF DropMetadata
    <3> QED BY <1>4, <2>3, <3>1 DEF DropMetadata, DropBegun
  <2> QED BY <1>5, <2>1, <2>2, <2>3
          DEF ClientStep, StartCreate, StartRead, StartDelete, SelectRow, SelectOldChunks,
              SelectPlacements, PlaceChunk, PlaceRejected, UploadTo, UploadFails,
              UploadAborted, CommitTimesOut, ClientCrash, FetchChunk, FetchFails,
              ReadReturns, dbvars
<1>6. ASSUME NEW fm \in gc.found, GcDrop(fm)
      PROVE  files'[f].status = "committed" \/ DropBegun(f)
  <2>1. fm.filename \in Filename
    BY Parts DEF RestOK, GcPasses
  <2> QED BY <1>4, <1>6, <2>1 DEF GcDrop, DropBegun
<1>7. CASE GcStep
  BY <1>2, <1>6, <1>7
     DEF GcStep, GcSelectRow, GcSelectChunks, GcListed, GcDelete, GcDone, dbvars
<1>8. ASSUME NEW g \in Filename, LateCommitFile(g)
      PROVE  files'[f].status = "committed"
  BY <1>3, <1>8 DEF LateCommitFile
<1> QED BY <1>2, <1>5, <1>7, <1>8
        DEF Next, RunDelete, GcList, NamingCrash, dbvars, vars

\* A readable file is lost as a whole, by a DeleteFile or by the cleanup
\* thread, for any number of clients, servers, names, failures and crashes.
THEOREM FilesAreLostAsAWhole ==
  ASSUME ~Reuse
  PROVE  Spec => LostAsWhole
<1>1. ASSUME IInv, OnceInv, IInv', OnceInv', [Next]_vars, NEW f \in Filename,
             Readable(f), ~Readable(f)'
      PROVE  /\ ~Exists(f)' /\ RowsOf(f)' = {}
             /\ \/ \E c \in Client : op[c].pc = "drop" /\ op[c].file = f
                \/ \E fm \in gc.found : fm.filename = f
  <2>1. files'[f].status # "committed"
    BY <1>1 DEF Readable, OnceInv, DecidedStored, Decided
  <2>2. DropBegun(f)
    BY <1>1, <2>1, CommittedKept DEF Readable
  <2>3. files \in [Filename -> Rows] /\ delete_file(f)
    BY <1>1, <2>2, Parts DEF DropBegun, TablesOK
  <2>4. ~Exists(f)'
    BY <2>3 DEF delete_file, Exists, NoFile
  <2>5. RowsOf(f)' = {}
    BY <2>3 DEF delete_file, RowsOf
  <2> QED BY <2>2, <2>4, <2>5 DEF DropBegun
<1>2. IInv /\ OnceInv /\ IInv' /\ OnceInv' /\ [Next]_vars =>
        [\A f \in Filename :
           Readable(f) /\ ~Readable(f)' =>
             /\ ~Exists(f)' /\ RowsOf(f)' = {}
             /\ \/ \E c \in Client : op[c].pc = "drop" /\ op[c].file = f
                \/ \E fm \in gc.found : fm.filename = f]_vars
  BY <1>1
<1> QED BY <1>2, OnceInvariance, PTL DEF Spec, LostAsWhole

-----------------------------------------------------------------------------
(***************************************************************************)
(* What docs/ARCHITECTURE.md promises, and when it holds.                  *)
(***************************************************************************)

\* Only a commit makes a file committed, and it changes nothing else.
LEMMA CommitOnly ==
  ASSUME IInv, OnceInv, [Next]_vars, NEW f \in Filename,
         files[f].status # "committed", files'[f].status = "committed"
  PROVE  UNCHANGED <<chunks, replicas, disk>>
<1>1. files \in [Filename -> Rows] /\ files' # files
  BY Parts DEF TablesOK
<1>2. ASSUME NEW g \in Filename, delete_file(g) PROVE FALSE
  BY <1>1, <1>2 DEF delete_file, NoFile
<1>3. ASSUME NEW c \in Client, ClientStep(c) PROVE UNCHANGED <<chunks, replicas, disk>>
  <2>1. CASE WritePending(c)
    BY <1>1, <2>1 DEF WritePending, create_pending
  <2>2. CASE CommitFile(c)
    BY <2>2 DEF CommitFile, commit_file
  <2>3. CASE DropMetadata(c)
    BY <1>2, <2>3, Known DEF DropMetadata
  <2> QED BY <1>1, <1>3, <2>1, <2>2, <2>3
          DEF ClientStep, StartCreate, StartRead, StartDelete, SelectRow, SelectOldChunks,
              SelectPlacements, PlaceChunk, PlaceRejected, UploadTo, UploadFails,
              UploadAborted, CommitTimesOut, ClientCrash, FetchChunk, FetchFails,
              ReadReturns, dbvars
<1>4. ASSUME NEW fm \in gc.found, GcDrop(fm) PROVE FALSE
  BY <1>2, <1>4, Parts DEF GcDrop, RestOK, GcPasses
<1>5. CASE GcStep
  BY <1>1, <1>4, <1>5
     DEF GcStep, GcSelectRow, GcSelectChunks, GcListed, GcDelete, GcDone, dbvars
<1>6. ASSUME NEW g \in Filename, LateCommitFile(g)
      PROVE  UNCHANGED <<chunks, replicas, disk>>
  BY <1>6 DEF LateCommitFile, commit_file
<1> QED BY <1>1, <1>3, <1>5, <1>6
        DEF Next, RunDelete, GcList, NamingCrash, dbvars, vars

\* If no name is used twice, no file is half-replicated when it becomes
\* committed, as docs/ARCHITECTURE.md:67-69 says (create, CommitFile).
THEOREM OnceNeverHalfReplicated ==
  ASSUME ~Reuse
  PROVE  Spec => NeverHalfReplicated
<1>1. ASSUME IInv, OnceInv, OnceInv', [Next]_vars, NEW f \in Filename,
             files[f].status = "pending", files'[f].status = "committed"
      PROVE  Stored(f)
  <2>1. UNCHANGED <<chunks, replicas, disk>>
    BY <1>1, CommitOnly
  <2>2. Stored(f)'
    BY <1>1 DEF OnceInv, DecidedStored, Decided
  <2> QED BY <2>1, <2>2 DEF Stored, RowsOf, Locations
<1>2. IInv /\ OnceInv /\ OnceInv' /\ [Next]_vars =>
        [\A f \in Filename :
           files[f].status = "pending" /\ files'[f].status = "committed" =>
             Stored(f)]_vars
  BY <1>1
<1> QED BY <1>2, OnceInvariance, PTL DEF Spec, NeverHalfReplicated

=============================================================================
