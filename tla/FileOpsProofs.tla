---------------------------- MODULE FileOpsProofs ----------------------------
(***************************************************************************)
(* Proofs about FileOps, for any number of clients, servers, names and     *)
(* uploads and any replication factor: TypeOK, MetadataConsistent and      *)
(* ReadIsWholeUpload are invariants.                                       *)
(***************************************************************************)
EXTENDS FileOps, FiniteSetTheorems, SequenceTheorems, TLAPS

(***************************************************************************)
(* The inductive invariant.  While CreateFile call o runs, its placements  *)
(* are those of the chunks 0, 1, ... of that call, one each, so what       *)
(* WritePending hands to create_pending is exactly the rows of one upload. *)
(***************************************************************************)
Placing(o) ==
  o.kind = "create" =>
    /\ uploads[o.upload].filename = o.file
    /\ o.pc \in {"select_row", "select_chunks", "place", "upload"}
    /\ o.pc \in {"select_row", "select_chunks"} => o.metas = {}
    /\ IsFiniteSet(o.metas)
    /\ {m.index : m \in o.metas} = 0..(Cardinality(o.metas) - 1)
    /\ \A m, n \in o.metas : m.index = n.index => m = n
    /\ \A m \in o.metas : Cardinality(m.locations) = R

\* A read works on the chunks of one upload of its file, or on none.
Fetching(o) ==
  o.pc = "fetch" =>
    \/ o.metas = {}
    \/ \E u \in UploadNumbers :
         uploads[u].filename = o.file /\ Ids(o.metas) = ContentOf(u)

IInv ==
  /\ TypeOK
  /\ MetadataConsistent
  /\ \A c \in Client : Placing(op[c]) /\ Fetching(op[c])

TablesOK ==
  /\ files \in [Filename -> Rows]
  /\ chunks \subseteq [chunk_id : ChunkIds, filename : Filename, idx : Nat]
  /\ replicas \subseteq ChunkIds \X Address

-----------------------------------------------------------------------------
(***************************************************************************)
(* The store's write methods keep the tables consistent.                   *)
(***************************************************************************)

\* The row of a chunk belongs to the file of the upload in its id, so the
\* rows of different files have different ids.
LEMMA RowOwner ==
  ASSUME TablesOK, MetadataConsistent, NEW ch \in chunks
  PROVE  /\ Exists(ch.filename)
         /\ \E i \in Nat : ch.chunk_id = ChunkIdOf(files[ch.filename].created_at, i)
         /\ files[ch.filename].created_at \in UploadNumbers
         /\ uploads[files[ch.filename].created_at].filename = ch.filename
<1>1. ch.filename \in Filename /\ ch \in RowsOf(ch.filename)
  BY DEF TablesOK, RowsOf
<1>2. Exists(ch.filename)
  BY <1>1 DEF MetadataConsistent
<1>3. WrittenBy(ch.filename, files[ch.filename].created_at)
  BY <1>1, <1>2 DEF MetadataConsistent
<1>4. ch \in RowsOfUpload(files[ch.filename].created_at)
  BY <1>1, <1>3 DEF WrittenBy
<1>5. \E i \in Nat : ch.chunk_id = ChunkIdOf(files[ch.filename].created_at, i)
  <2>1. PICK i \in 0..(uploads[files[ch.filename].created_at].num_chunks - 1) :
          ch = [chunk_id |-> ChunkIdOf(files[ch.filename].created_at, i),
                filename |-> uploads[files[ch.filename].created_at].filename,
                idx |-> i]
    BY <1>4 DEF RowsOfUpload
  <2>2. i \in Nat /\ ch.chunk_id = ChunkIdOf(files[ch.filename].created_at, i)
    BY <2>1
  <2> QED BY <2>2
<1> QED BY <1>2, <1>3, <1>5 DEF WrittenBy

LEMMA SameFile ==
  ASSUME TablesOK, MetadataConsistent, NEW c1 \in chunks, NEW c2 \in chunks,
         c1.chunk_id = c2.chunk_id
  PROVE  c1.filename = c2.filename
BY RowOwner DEF ChunkIdOf

\* Deleting the row of f leaves what the other files have.
LEMMA DeleteFile ==
  ASSUME TablesOK, MetadataConsistent, NEW f \in Filename,
         delete_file(f), UNCHANGED uploads
  PROVE  TablesOK' /\ MetadataConsistent'
<1>1. TablesOK'
  BY DEF TablesOK, delete_file, ReplicasWithout, Rows, ChunkIds, UploadNumbers, NoFile
<1>2. \A g \in Filename : g # f => RowsOf(g)' = RowsOf(g) /\ files'[g] = files[g]
  BY DEF TablesOK, delete_file, RowsOf
<1>3. RowsOf(f)' = {} /\ ~Exists(f)'
  BY DEF TablesOK, delete_file, RowsOf, Exists, NoFile
<1>4. \A ch \in chunks : ch.filename # f =>
        Locations(ch.chunk_id)' = Locations(ch.chunk_id)
  <2> SUFFICES ASSUME NEW ch \in chunks, ch.filename # f
               PROVE  Locations(ch.chunk_id)' = Locations(ch.chunk_id)
    OBVIOUS
  <2>1. ch.chunk_id \notin {x.chunk_id : x \in RowsOf(f)}
    BY SameFile DEF RowsOf
  <2> QED BY <2>1 DEF Locations, delete_file, ReplicasWithout
<1>5. ASSUME NEW g \in Filename
      PROVE  IF Exists(g)' THEN WrittenBy(g, files[g].created_at)' ELSE RowsOf(g)' = {}
  <2>1. CASE g = f
    BY <2>1, <1>3
  <2>2. CASE g # f
    <3>1. Exists(g)' <=> Exists(g)
      BY <1>2, <2>2 DEF Exists
    <3>2. ASSUME WrittenBy(g, files[g].created_at)
          PROVE  WrittenBy(g, files[g].created_at)'
      BY <1>2, <1>4, <2>2, <3>2
         DEF WrittenBy, RowsOf, RowsOfUpload, UploadNumbers, ChunkIdOf
    <3> QED BY <1>2, <2>2, <3>1, <3>2 DEF MetadataConsistent
  <2> QED BY <2>1, <2>2
<1>6. \A r \in replicas' : \E ch \in chunks' : ch.chunk_id = r[1]
  <2> SUFFICES ASSUME NEW r \in replicas'
               PROVE  \E ch \in chunks' : ch.chunk_id = r[1]
    OBVIOUS
  <2>1. r \in replicas /\ r[1] \notin {x.chunk_id : x \in RowsOf(f)}
    BY DEF delete_file, ReplicasWithout
  <2>2. PICK ch \in chunks : ch.chunk_id = r[1]
    BY <2>1 DEF MetadataConsistent
  <2> QED BY <2>1, <2>2 DEF delete_file
<1> QED BY <1>1, <1>5, <1>6 DEF MetadataConsistent

LEMMA CommitTables ==
  ASSUME TablesOK, MetadataConsistent, NEW f \in Filename,
         commit_file(f), UNCHANGED uploads
  PROVE  TablesOK' /\ MetadataConsistent'
<1>1. TablesOK'
  BY DEF TablesOK, commit_file, Rows, ChunkIds, UploadNumbers
<1>2. \A g \in Filename : /\ Exists(g)' <=> Exists(g)
                         /\ files'[g].created_at = files[g].created_at
                         /\ files'[g].num_chunks = files[g].num_chunks
  BY DEF TablesOK, commit_file, Exists, Rows
<1>3. \A g \in Filename : RowsOf(g)' = RowsOf(g)
  BY DEF commit_file, RowsOf
<1>4. \A g \in Filename : WrittenBy(g, files[g].created_at) =>
                           WrittenBy(g, files[g].created_at)'
  BY <1>2, <1>3 DEF WrittenBy, RowsOf, RowsOfUpload, UploadNumbers, ChunkIdOf,
                    commit_file, Locations
<1> QED BY <1>1, <1>2, <1>3, <1>4 DEF MetadataConsistent, commit_file

\* The rows create_pending writes are those of one upload: whatever was
\* known of f goes, and the new chunk ids are in no row that stays.
LEMMA CreateTables ==
  ASSUME TablesOK, MetadataConsistent, UNCHANGED uploads,
         uploads \in Seq([filename : Filename, num_chunks : ChunkCounts]),
         NEW f \in Filename, NEW u \in UploadNumbers, NEW metas \in SUBSET Metas,
         uploads[u].filename = f,
         \A m \in metas : m.chunk_id = ChunkIdOf(u, m.index),
         {m.index : m \in metas} = 0..(uploads[u].num_chunks - 1),
         \A m, n \in metas : m.index = n.index => m = n,
         \A m \in metas : Cardinality(m.locations) = R,
         create_pending(f, uploads[u].num_chunks, u, metas)
  PROVE  TablesOK' /\ MetadataConsistent'
<1> DEFINE row(m) == [chunk_id |-> m.chunk_id, filename |-> f, idx |-> m.index]
           new == {row(m) : m \in metas}
<1>0. uploads[u].num_chunks \in Nat /\ u \in 0..Len(uploads)
  <2>1. uploads[u] \in [filename : Filename, num_chunks : ChunkCounts]
    BY ElementOfSeq DEF UploadNumbers
  <2>2. u \in 1..Len(uploads) /\ Len(uploads) \in Nat
    BY LenProperties DEF UploadNumbers
  <2>3. u \in 0..Len(uploads)
    BY <2>2
  <2> QED BY <2>1, <2>3, CountAssumption
<1>rows. new \subseteq [chunk_id : ChunkIds, filename : Filename, idx : Nat]
  BY DEF Metas
<1>insert. chunks' = (chunks \ RowsOf(f)) \cup new
  BY DEF create_pending
<1>1. TablesOK'
  <2>1. files' \in [Filename -> Rows]
    BY <1>0 DEF TablesOK, create_pending, Rows
  <2>2. chunks' \subseteq [chunk_id : ChunkIds, filename : Filename, idx : Nat]
    BY <1>rows, <1>insert DEF TablesOK
  <2>3. ASSUME NEW m \in metas
        PROVE  {m.chunk_id} \X m.locations \subseteq ChunkIds \X Address
    <3>1. m.chunk_id \in ChunkIds /\ m.locations \subseteq Address
      BY DEF Metas
    <3> QED BY <3>1
  <2>4. replicas' \subseteq ChunkIds \X Address
    BY <2>3 DEF TablesOK, create_pending, ReplicasWithout
  <2> QED BY <2>1, <2>2, <2>4 DEF TablesOK, Rows, ChunkIds, UploadNumbers
<1>2. \A g \in Filename : g # f => RowsOf(g)' = RowsOf(g) /\ files'[g] = files[g]
  BY <1>insert DEF TablesOK, create_pending, RowsOf
<1>3. RowsOf(f)' = new
  BY <1>insert DEF RowsOf
<1>4. files'[f] = [status |-> "pending", num_chunks |-> uploads[u].num_chunks,
                   created_at |-> u]
  BY DEF TablesOK, create_pending
<1>5. \A ch \in chunks : (\E m \in metas : ch.chunk_id = m.chunk_id) => ch.filename = f
  BY RowOwner DEF ChunkIdOf
<1>6. \A r \in ReplicasWithout(f) : \A m \in metas : r[1] # m.chunk_id
  <2> SUFFICES ASSUME NEW r \in ReplicasWithout(f), NEW m \in metas, r[1] = m.chunk_id
               PROVE  FALSE
    OBVIOUS
  <2>1. PICK ch \in chunks : ch.chunk_id = r[1]
    BY DEF MetadataConsistent, ReplicasWithout
  <2>2. ch \in RowsOf(f)
    BY <2>1, <1>5 DEF RowsOf
  <2> QED BY <2>1, <2>2 DEF ReplicasWithout
<1>7. ASSUME NEW m \in metas
      PROVE  Locations(m.chunk_id)' = m.locations
  <2>1. \A a \in Address : <<m.chunk_id, a>> \in replicas' <=> a \in m.locations
    <3> SUFFICES ASSUME NEW a \in Address
                 PROVE  <<m.chunk_id, a>> \in replicas' <=> a \in m.locations
      OBVIOUS
    <3>1. a \in m.locations => <<m.chunk_id, a>> \in replicas'
      BY DEF create_pending
    <3>2. ASSUME <<m.chunk_id, a>> \in replicas'
          PROVE  a \in m.locations
      <4>1. <<m.chunk_id, a>> \notin ReplicasWithout(f)
        BY <1>6
      <4>2. PICK n \in metas : <<m.chunk_id, a>> \in {n.chunk_id} \X n.locations
        BY <3>2, <4>1 DEF create_pending
      <4>3. m.chunk_id = n.chunk_id /\ a \in n.locations
        BY <4>2
      <4>4. m.index = n.index
        BY <4>3 DEF ChunkIdOf
      <4> QED BY <4>3, <4>4
    <3> QED BY <3>1, <3>2
  <2> QED BY <2>1 DEF Locations, Metas
<1>8. \A ch \in chunks : ch.filename # f =>
        Locations(ch.chunk_id)' = Locations(ch.chunk_id)
  <2> SUFFICES ASSUME NEW ch \in chunks, ch.filename # f
               PROVE  Locations(ch.chunk_id)' = Locations(ch.chunk_id)
    OBVIOUS
  <2>1. ch.chunk_id \notin {x.chunk_id : x \in RowsOf(f)}
    BY SameFile DEF RowsOf
  <2>2. \A m \in metas : ch.chunk_id # m.chunk_id
    BY <1>5
  <2> QED BY <2>1, <2>2 DEF Locations, create_pending, ReplicasWithout
<1>9. WrittenBy(f, u)'
  <2>1. new = RowsOfUpload(u)
    <3>1. \A m \in metas : row(m) \in RowsOfUpload(u)
      BY DEF RowsOfUpload
    <3>2. \A i \in 0..(uploads[u].num_chunks - 1) : \E m \in metas :
            row(m) = [chunk_id |-> ChunkIdOf(u, i), filename |-> uploads[u].filename,
                      idx |-> i]
      <4> SUFFICES ASSUME NEW i \in 0..(uploads[u].num_chunks - 1)
                   PROVE  \E m \in metas : m.index = i
        OBVIOUS
      <4> QED OBVIOUS
    <3>3. RowsOfUpload(u) \subseteq new
      BY <3>2 DEF RowsOfUpload
    <3> QED BY <3>1, <3>3
  <2>2. \A ch \in RowsOf(f)' : Cardinality(Locations(ch.chunk_id)') = R
    BY <1>3, <1>7
  <2>3. RowsOfUpload(u)' = RowsOfUpload(u)
    BY DEF RowsOfUpload, ChunkIdOf
  <2> QED BY <2>1, <2>2, <2>3, <1>3, <1>4 DEF WrittenBy, UploadNumbers
<1>10. ASSUME NEW g \in Filename
       PROVE  IF Exists(g)' THEN WrittenBy(g, files[g].created_at)' ELSE RowsOf(g)' = {}
  <2>1. CASE g = f
    BY <2>1, <1>4, <1>9 DEF Exists
  <2>2. CASE g # f
    <3>1. Exists(g)' <=> Exists(g)
      BY <1>2, <2>2 DEF Exists
    <3>2. ASSUME WrittenBy(g, files[g].created_at)
          PROVE  WrittenBy(g, files[g].created_at)'
      BY <1>2, <1>8, <2>2, <3>2
         DEF WrittenBy, RowsOf, RowsOfUpload, UploadNumbers, ChunkIdOf
    <3> QED BY <1>2, <2>2, <3>1, <3>2 DEF MetadataConsistent
  <2> QED BY <2>1, <2>2
<1>11. \A r \in replicas' : \E ch \in chunks' : ch.chunk_id = r[1]
  <2> SUFFICES ASSUME NEW r \in replicas'
               PROVE  \E ch \in chunks' : ch.chunk_id = r[1]
    OBVIOUS
  <2>1. CASE r \in ReplicasWithout(f)
    <3>1. PICK ch \in chunks : ch.chunk_id = r[1]
      BY <2>1 DEF MetadataConsistent, ReplicasWithout
    <3> QED BY <2>1, <3>1, <1>insert DEF ReplicasWithout
  <2>2. CASE \E m \in metas : r \in {m.chunk_id} \X m.locations
    <3>1. PICK m \in metas : r[1] = m.chunk_id
      BY <2>2
    <3>2. row(m) \in chunks' /\ row(m).chunk_id = r[1]
      BY <3>1, <1>insert
    <3> QED BY <3>2
  <2> QED BY <2>1, <2>2 DEF create_pending
<1> QED BY <1>1, <1>10, <1>11 DEF MetadataConsistent

-----------------------------------------------------------------------------
(***************************************************************************)
(* The operations.  OpInv says of one operation record what IInv says of   *)
(* every op[c]; it depends on no variable but uploads.                     *)
(***************************************************************************)

OpInv(o) == o \in Ops /\ OpOK(o) /\ Placing(o) /\ Fetching(o)

OpsOK == op \in [Client -> Ops] /\ \A c \in Client : OpInv(op[c])

RestOK ==
  /\ disk \in [Address -> SUBSET ChunkIds]
  /\ deletes \subseteq Address \X ChunkIds
  /\ late \subseteq Filename
  /\ gc \in GcPasses
  /\ gc.pc = "chunks" => gc.cur \in Filename
  /\ uploads \in Seq([filename : Filename, num_chunks : ChunkCounts])
  /\ crashes \in 0..MaxCrashes

LEMMA Parts == IInv <=> TablesOK /\ MetadataConsistent /\ OpsOK /\ RestOK
BY DEF IInv, TypeOK, TablesOK, OpsOK, OpInv, RestOK

LEMMA PartsNext ==
  ASSUME TablesOK', MetadataConsistent', OpsOK', RestOK'
  PROVE  IInv'
BY DEF IInv, TypeOK, TablesOK, OpsOK, OpInv, RestOK

LEMMA LenNat ==
  ASSUME RestOK
  PROVE  Len(uploads) \in Nat
BY LenProperties DEF RestOK

LEMMA UploadType ==
  ASSUME RestOK, NEW u \in UploadNumbers
  PROVE  /\ uploads[u] \in [filename : Filename, num_chunks : ChunkCounts]
         /\ uploads[u].filename \in Filename
         /\ uploads[u].num_chunks \in Nat
         /\ u \in 0..Len(uploads)
<1>1. uploads[u] \in [filename : Filename, num_chunks : ChunkCounts]
  BY ElementOfSeq DEF RestOK, UploadNumbers
<1>2. u \in 1..Len(uploads)
  BY DEF UploadNumbers
<1>3. u \in 0..Len(uploads)
  BY <1>2, LenNat
<1> QED BY <1>1, <1>3, CountAssumption

LEMMA OpInvStable ==
  ASSUME NEW o, UNCHANGED uploads
  PROVE  OpInv(o)' <=> OpInv(o)
BY DEF OpInv, Ops, OpOK, Placing, Fetching, Rows, Metas, ChunkIds, UploadNumbers,
       ContentOf, Ids, ChunkIdOf

LEMMA IdleInv ==
  ASSUME RestOK
  PROVE  OpInv(Idle)
<1>1. Idle \in Ops
  BY LenNat DEF Idle, NoFile, Ops, Rows
<1> QED BY <1>1 DEF OpInv, OpOK, Placing, Fetching, Idle

LEMMA OneOp ==
  ASSUME OpsOK, NEW c \in Client, NEW o, OpInv(o), UNCHANGED uploads,
         op' = [op EXCEPT ![c] = o]
  PROVE  OpsOK'
<1>1. \A d \in Client : OpInv(op'[d])
  BY DEF OpsOK
<1>2. ASSUME NEW d \in Client PROVE OpInv(op[d])'
  <2>1. PICK x : x = op'[d]
    OBVIOUS
  <2>2. OpInv(x)'
    BY <1>1, <2>1, OpInvStable
  <2> QED BY <2>1, <2>2 DEF OpInv, OpOK, Placing, Fetching
<1>3. op' \in [Client -> Ops']
  BY <1>2 DEF OpsOK, OpInv
<1> QED BY <1>2, <1>3 DEF OpsOK

LEMMA SameOps ==
  ASSUME OpsOK, UNCHANGED <<op, uploads>>
  PROVE  OpsOK'
<1>1. ASSUME NEW d \in Client PROVE OpInv(op[d])'
  <2>1. PICK x : x = op[d]
    OBVIOUS
  <2>2. OpInv(x)'
    BY <2>1, OpInvStable DEF OpsOK
  <2> QED BY <2>1, <2>2 DEF OpInv, OpOK, Placing, Fetching
<1>2. op' \in [Client -> Ops']
  BY <1>1 DEF OpsOK, OpInv
<1> QED BY <1>1, <1>2 DEF OpsOK

LEMMA SameTables ==
  ASSUME TablesOK, MetadataConsistent, UNCHANGED <<dbvars, uploads>>
  PROVE  TablesOK' /\ MetadataConsistent'
BY DEF TablesOK, MetadataConsistent, Rows, ChunkIds, UploadNumbers, Exists,
       WrittenBy, RowsOf, RowsOfUpload, Locations, ChunkIdOf, dbvars

LEMMA SameRest ==
  ASSUME RestOK, UNCHANGED <<disk, deletes, late, gc, uploads, crashes>>
  PROVE  RestOK'
BY DEF RestOK, GcPasses, Metas, ChunkIds, UploadNumbers

\* What get_file's second SELECT finds is made of known chunks and servers.
LEMMA FileChunksType ==
  ASSUME TablesOK, NEW f \in Filename
  PROVE  /\ get_file_chunks(f) \subseteq Metas
         /\ Deletions(get_file_chunks(f)) \subseteq Address \X ChunkIds
<1>1. ASSUME NEW ch \in RowsOf(f)
      PROVE  [chunk_id |-> ch.chunk_id, index |-> ch.idx,
              locations |-> Locations(ch.chunk_id)] \in Metas
  BY DEF TablesOK, RowsOf, Locations, Metas
<1>2. get_file_chunks(f) \subseteq Metas
  BY <1>1 DEF get_file_chunks
<1> QED BY <1>2 DEF Deletions, Metas

LEMMA DeletionsType ==
  ASSUME NEW metas \in SUBSET Metas
  PROVE  Deletions(metas) \subseteq Address \X ChunkIds
BY DEF Deletions, Metas

\* What it finds for a name is nothing or the content of one upload.
LEMMA FileChunksWhole ==
  ASSUME RestOK, TablesOK, MetadataConsistent, NEW f \in Filename
  PROVE  \/ get_file_chunks(f) = {}
         \/ \E u \in UploadNumbers : /\ uploads[u].filename = f
                                     /\ Ids(get_file_chunks(f)) = ContentOf(u)
<1>1. CASE ~Exists(f)
  BY <1>1 DEF MetadataConsistent, get_file_chunks
<1>2. CASE Exists(f)
  <2> DEFINE u == files[f].created_at
  <2>1. WrittenBy(f, u)
    BY <1>2 DEF MetadataConsistent
  <2> HIDE DEF u
  <2>2. Ids(get_file_chunks(f)) = {ch.chunk_id : ch \in RowsOf(f)}
    <3>1. \A id \in Ids(get_file_chunks(f)) : \E ch \in RowsOf(f) : id = ch.chunk_id
      BY DEF Ids, get_file_chunks
    <3>2. ASSUME NEW ch \in RowsOf(f)
          PROVE  ch.chunk_id \in Ids(get_file_chunks(f))
      <4> DEFINE m == [chunk_id |-> ch.chunk_id, index |-> ch.idx,
                       locations |-> Locations(ch.chunk_id)]
      <4>1. m \in get_file_chunks(f) /\ m.chunk_id = ch.chunk_id
        BY DEF get_file_chunks
      <4> QED BY <4>1 DEF Ids
    <3> QED BY <3>1, <3>2
  <2>3. {ch.chunk_id : ch \in RowsOfUpload(u)} = ContentOf(u)
    <3>1. \A ch \in RowsOfUpload(u) : ch.chunk_id \in ContentOf(u)
      BY DEF RowsOfUpload, ContentOf
    <3>2. ASSUME NEW i \in 0..(uploads[u].num_chunks - 1)
          PROVE  \E ch \in RowsOfUpload(u) : ch.chunk_id = ChunkIdOf(u, i)
      <4> DEFINE x == [chunk_id |-> ChunkIdOf(u, i),
                       filename |-> uploads[u].filename, idx |-> i]
      <4>1. x \in RowsOfUpload(u) /\ x.chunk_id = ChunkIdOf(u, i)
        BY DEF RowsOfUpload
      <4> QED BY <4>1
    <3> QED BY <3>1, <3>2 DEF ContentOf
  <2> QED BY <2>1, <2>2, <2>3 DEF WrittenBy
<1> QED BY <1>1, <1>2

-----------------------------------------------------------------------------
(***************************************************************************)
(* Steps of one client that leave the tables alone.                        *)
(***************************************************************************)

LEMMA Known ==
  ASSUME IInv, NEW c \in Client
  PROVE  /\ op[c] \in Ops /\ OpOK(op[c]) /\ Placing(op[c]) /\ Fetching(op[c])
         /\ op[c].pc # "idle" => op[c].file \in Filename
         /\ TablesOK /\ MetadataConsistent /\ OpsOK /\ RestOK
BY Parts DEF OpsOK, OpInv, OpOK

\* A step of c that touches no table: its new record and the disks, the
\* deletions and the cleanup thread are to be looked at.
LEMMA MoveOp ==
  ASSUME IInv, NEW c \in Client, NEW o, op' = [op EXCEPT ![c] = o],
         o \in Ops, OpOK(o), Placing(o), Fetching(o),
         UNCHANGED <<dbvars, uploads>>, RestOK'
  PROVE  IInv'
<1>1. TablesOK' /\ MetadataConsistent'
  BY Parts, SameTables
<1>2. OpInv(o)
  BY DEF OpInv
<1>3. OpsOK'
  BY <1>2, Parts, OneOp
<1> QED BY <1>1, <1>3, PartsNext

\* Every step that ends an operation.
LEMMA StepToIdle ==
  ASSUME IInv, NEW c \in Client, op' = [op EXCEPT ![c] = Idle],
         UNCHANGED <<dbvars, disk, deletes, gc, uploads, crashes>>,
         late' \subseteq Filename
  PROVE  IInv'
<1>1. RestOK /\ OpInv(Idle)
  BY Parts, IdleInv
<1>2. RestOK'
  BY <1>1 DEF RestOK, GcPasses, Metas, ChunkIds, UploadNumbers
<1> QED BY <1>1, <1>2, MoveOp DEF OpInv

LEMMA StepStartCall ==
  ASSUME IInv, NEW c \in Client, NEW f \in Filename, StartRead(c, f) \/ StartDelete(c, f)
  PROVE  IInv'
<1>1. RestOK /\ OpInv(Idle)
  BY Parts, IdleInv
<1>2. PICK k \in {"read", "delete"} :
        op' = [op EXCEPT ![c] = [Idle EXCEPT !.pc = "select_row", !.kind = k, !.file = f]]
  BY DEF StartRead, StartDelete
<1> DEFINE o == [Idle EXCEPT !.pc = "select_row", !.kind = k, !.file = f]
<1>3. o \in Ops /\ OpOK(o) /\ Placing(o) /\ Fetching(o)
  BY <1>1 DEF OpInv, Ops, OpOK, Placing, Fetching, Idle
<1>4. RestOK' /\ UNCHANGED <<dbvars, uploads>>
  BY <1>1, SameRest DEF StartRead, StartDelete
<1> HIDE DEF o
<1> QED BY <1>2, <1>3, <1>4, MoveOp DEF o

LEMMA StepSelectRow ==
  ASSUME IInv, NEW c \in Client, SelectRow(c)
  PROVE  IInv'
<1>1. RestOK' /\ UNCHANGED <<dbvars, uploads>>
  BY Parts, SameRest DEF SelectRow
<1>2. /\ op[c] \in Ops /\ OpOK(op[c]) /\ Placing(op[c]) /\ op[c].pc = "select_row"
      /\ op[c].file \in Filename /\ TablesOK
  BY Known DEF SelectRow
<1>3. CASE Wanted(c)
  <2> DEFINE o == [op[c] EXCEPT !.pc = "select_chunks", !.row = files[op[c].file]]
  <2>1. op' = [op EXCEPT ![c] = o]
    BY <1>3 DEF SelectRow
  <2>2. o \in Ops
    BY <1>2 DEF Ops, TablesOK
  <2>3. OpOK(o) /\ Placing(o) /\ Fetching(o)
    BY <1>2 DEF OpOK, Placing, Fetching, Ops
  <2> HIDE DEF o
  <2> QED BY <1>1, <2>1, <2>2, <2>3, MoveOp
<1>4. CASE ~Wanted(c) /\ op[c].kind = "create"
  <2> DEFINE o == [op[c] EXCEPT !.pc = "place"]
  <2>1. op' = [op EXCEPT ![c] = o]
    BY <1>4 DEF SelectRow
  <2>2. o \in Ops
    BY <1>2 DEF Ops
  <2>3. OpOK(o) /\ Placing(o) /\ Fetching(o)
    BY <1>2, <1>4 DEF OpOK, Placing, Fetching, Ops
  <2> HIDE DEF o
  <2> QED BY <1>1, <2>1, <2>2, <2>3, MoveOp
<1>5. CASE ~Wanted(c) /\ op[c].kind # "create"
  <2>1. op' = [op EXCEPT ![c] = Idle] /\ late' \subseteq Filename
    BY <1>5, Parts DEF SelectRow, RestOK
  <2> QED BY <2>1, StepToIdle DEF SelectRow
<1> QED BY <1>3, <1>4, <1>5

LEMMA StepSelectOldChunks ==
  ASSUME IInv, NEW c \in Client, SelectOldChunks(c)
  PROVE  IInv'
<1>1. /\ op[c] \in Ops /\ OpOK(op[c]) /\ Placing(op[c]) /\ op[c].kind = "create"
      /\ op[c].file \in Filename /\ op[c].pc = "select_chunks"
      /\ TablesOK /\ RestOK
  BY Known DEF SelectOldChunks
<1>2. RestOK'
  <2>1. deletes' \subseteq Address \X ChunkIds
    BY <1>1, FileChunksType DEF SelectOldChunks, RestOK
  <2> QED BY <1>1, <2>1 DEF RestOK, GcPasses, Metas, ChunkIds, UploadNumbers, SelectOldChunks
<1>3. NoFile \in Rows
  BY <1>1, LenNat DEF NoFile, Rows
<1> DEFINE o == [op[c] EXCEPT !.pc = "place", !.row = NoFile]
<1>4. op' = [op EXCEPT ![c] = o]
  BY DEF SelectOldChunks
<1>5. o \in Ops
  BY <1>1, <1>3 DEF Ops
<1>6. OpOK(o) /\ Placing(o) /\ Fetching(o)
  BY <1>1 DEF OpOK, Placing, Fetching, Ops
<1> HIDE DEF o
<1> QED BY <1>2, <1>4, <1>5, <1>6, MoveOp DEF SelectOldChunks

LEMMA StepSelectPlacements ==
  ASSUME IInv, NEW c \in Client, SelectPlacements(c)
  PROVE  IInv'
<1>1. /\ op[c] \in Ops /\ OpOK(op[c]) /\ op[c].kind # "create"
      /\ op[c].file \in Filename /\ op[c].pc = "select_chunks"
      /\ TablesOK /\ MetadataConsistent /\ RestOK
  BY Known DEF SelectPlacements
<1>2. RestOK' /\ UNCHANGED <<dbvars, uploads>>
  BY <1>1, SameRest DEF SelectPlacements
<1> DEFINE metas == get_file_chunks(op[c].file)
           o == [op[c] EXCEPT !.pc = IF op[c].kind = "read" THEN "fetch" ELSE "drop",
                              !.metas = metas]
<1>3. op' = [op EXCEPT ![c] = o]
  BY DEF SelectPlacements
<1>4. metas \subseteq Metas
  BY <1>1, FileChunksType
<1>5. \/ metas = {}
      \/ \E u \in UploadNumbers : uploads[u].filename = op[c].file /\ Ids(metas) = ContentOf(u)
  BY <1>1, FileChunksWhole
<1> HIDE DEF metas
<1>6. o \in Ops
  BY <1>1, <1>4 DEF Ops
<1>7. OpOK(o) /\ Placing(o)
  BY <1>1 DEF OpOK, Placing, Ops
<1>8. Fetching(o)
  BY <1>1, <1>5 DEF Fetching, Ops
<1> HIDE DEF o
<1> QED BY <1>2, <1>3, <1>6, <1>7, <1>8, MoveOp

\* One more chunk placed: the indices stay 0, 1, ... without a gap.
LEMMA StepPlaceChunk ==
  ASSUME IInv, NEW c \in Client, PlaceChunk(c)
  PROVE  IInv'
<1>1. /\ op[c] \in Ops /\ OpOK(op[c]) /\ Placing(op[c])
      /\ op[c].pc = "place" /\ op[c].kind = "create" /\ op[c].upload \in UploadNumbers
  BY Known DEF PlaceChunk, OpOK
<1>2. RestOK' /\ UNCHANGED <<dbvars, uploads>>
  BY Known, SameRest DEF PlaceChunk
<1>3. PICK locs \in SUBSET Address :
        pick(locs) /\ op' = [op EXCEPT ![c].metas = @ \cup {Placement(c, locs)}]
  BY DEF PlaceChunk
<1> DEFINE n == Placed(c)
           p == Placement(c, locs)
           o == [op[c] EXCEPT !.metas = @ \cup {p}]
<1>4. op' = [op EXCEPT ![c] = o]
  BY <1>3
<1>5. n \in Nat /\ IsFiniteSet(op[c].metas)
  BY <1>1, FS_CardinalityType DEF Placing, Placed
<1>6. /\ p.index = n /\ p.locations = locs
      /\ p.chunk_id = ChunkIdOf(op[c].upload, n) /\ p \in Metas
  BY <1>1, <1>5 DEF Placement, Metas, ChunkIds, ChunkIdOf
<1>7. o \in Ops
  BY <1>1, <1>6 DEF Ops
<1>8. OpOK(o)
  BY <1>1, <1>6 DEF OpOK, Ops, PlaceChunk, Asked
<1>9. Fetching(o)
  BY <1>1 DEF Fetching, Ops
<1>10. {m.index : m \in op[c].metas} = 0..(n - 1)
  BY <1>1 DEF Placing, Placed
<1>11. p \notin op[c].metas
  BY <1>5, <1>6, <1>10
<1>12. /\ IsFiniteSet(op[c].metas \cup {p})
       /\ Cardinality(op[c].metas \cup {p}) = n + 1
  BY <1>5, <1>11, FS_AddElement DEF Placed
<1>13. Placing(o)
  <2>1. o.metas = op[c].metas \cup {p} /\ o.kind = op[c].kind /\ o.pc = op[c].pc
        /\ o.file = op[c].file /\ o.upload = op[c].upload
    BY <1>1 DEF Ops
  <2> HIDE DEF n, p, o
  <2>2. {m.index : m \in o.metas} = 0..(Cardinality(o.metas) - 1)
    <3>1. {m.index : m \in o.metas} = 0..(n - 1) \cup {n}
      BY <2>1, <1>6, <1>10
    <3>2. 0..(n - 1) \cup {n} = 0..(n + 1 - 1)
      BY <1>5
    <3> QED BY <2>1, <3>1, <3>2, <1>12
  <2>3. \A m1, m2 \in o.metas : m1.index = m2.index => m1 = m2
    <3>1. \A m \in op[c].metas : m.index # n
      BY <1>5, <1>10
    <3> QED BY <2>1, <3>1, <1>1, <1>6 DEF Placing
  <2>4. \A m \in o.metas : Cardinality(m.locations) = R
    BY <2>1, <1>1, <1>3, <1>6 DEF Placing, pick
  <2> QED BY <2>1, <2>2, <2>3, <2>4, <1>1, <1>12 DEF Placing
<1> HIDE DEF o
<1> QED BY <1>2, <1>4, <1>7, <1>8, <1>9, <1>13, MoveOp

-----------------------------------------------------------------------------
(***************************************************************************)
(* Steps that write the tables.                                            *)
(***************************************************************************)

LEMMA MoveOpAndTables ==
  ASSUME IInv, NEW c \in Client, NEW o, op' = [op EXCEPT ![c] = o],
         o \in Ops, OpOK(o), Placing(o), Fetching(o), UNCHANGED uploads,
         TablesOK', MetadataConsistent', RestOK'
  PROVE  IInv'
<1>1. OpInv(o)
  BY DEF OpInv
<1>2. OpsOK'
  BY <1>1, Parts, OneOp
<1> QED BY <1>2, PartsNext

LEMMA StepWritePending ==
  ASSUME IInv, NEW c \in Client, WritePending(c)
  PROVE  IInv'
<1>1. /\ op[c] \in Ops /\ OpOK(op[c]) /\ Placing(op[c])
      /\ op[c].pc = "place" /\ op[c].kind = "create" /\ op[c].upload \in UploadNumbers
      /\ op[c].file \in Filename
      /\ TablesOK /\ MetadataConsistent /\ RestOK
  BY Known DEF WritePending, OpOK
<1>2. RestOK'
  BY <1>1, SameRest DEF WritePending
<1>3. TablesOK' /\ MetadataConsistent'
  <2> DEFINE u == op[c].upload
             metas == op[c].metas
  <2>1. metas \in SUBSET Metas /\ uploads[u].filename = op[c].file
    BY <1>1 DEF Ops, Placing
  <2>2. \A m \in metas : m.chunk_id = ChunkIdOf(u, m.index)
    BY <1>1 DEF OpOK
  <2>3. {m.index : m \in metas} = 0..(uploads[u].num_chunks - 1)
    BY <1>1 DEF Placing, WritePending, Placed, Asked
  <2>4. /\ \A m, n \in metas : m.index = n.index => m = n
        /\ \A m \in metas : Cardinality(m.locations) = R
    BY <1>1 DEF Placing
  <2>5. create_pending(op[c].file, uploads[u].num_chunks, u, metas)
    BY DEF WritePending, Asked
  <2> HIDE DEF u, metas
  <2>6. UNCHANGED uploads /\ u \in UploadNumbers
    BY <1>1 DEF WritePending, u
  <2> QED BY <1>1, <2>1, <2>2, <2>3, <2>4, <2>5, <2>6, CreateTables DEF RestOK
<1> DEFINE o == [op[c] EXCEPT !.pc = "upload", !.todo = UNION {m.locations : m \in op[c].metas}]
<1>4. op' = [op EXCEPT ![c] = o]
  BY DEF WritePending
<1>5. o \in Ops
  <2>1. UNION {m.locations : m \in op[c].metas} \subseteq Address
    BY <1>1 DEF Ops, Metas
  <2> QED BY <1>1, <2>1 DEF Ops
<1>6. OpOK(o) /\ Placing(o) /\ Fetching(o)
  BY <1>1 DEF OpOK, Placing, Fetching, Ops
<1> HIDE DEF o
<1> QED BY <1>2, <1>3, <1>4, <1>5, <1>6, MoveOpAndTables DEF WritePending

LEMMA StepCommitFile ==
  ASSUME IInv, NEW c \in Client, CommitFile(c)
  PROVE  IInv'
<1>1. RestOK' /\ OpInv(Idle) /\ UNCHANGED uploads /\ op' = [op EXCEPT ![c] = Idle]
  BY Parts, IdleInv, SameRest DEF CommitFile
<1>2. op[c].file \in Filename /\ TablesOK /\ MetadataConsistent
  BY Known DEF CommitFile, AllUploaded
<1>3. TablesOK' /\ MetadataConsistent'
  BY <1>2, CommitTables DEF CommitFile
<1> QED BY <1>1, <1>3, MoveOpAndTables DEF OpInv

LEMMA StepLateCommitFile ==
  ASSUME IInv, NEW f \in Filename, LateCommitFile(f)
  PROVE  IInv'
<1>1. TablesOK /\ MetadataConsistent /\ OpsOK /\ RestOK
  BY Parts
<1>2. TablesOK' /\ MetadataConsistent'
  BY <1>1, CommitTables DEF LateCommitFile
<1>3. OpsOK'
  BY <1>1, SameOps DEF LateCommitFile
<1>4. RestOK'
  BY <1>1 DEF RestOK, GcPasses, Metas, ChunkIds, UploadNumbers, LateCommitFile
<1> QED BY <1>2, <1>3, <1>4, PartsNext

LEMMA StepDropMetadata ==
  ASSUME IInv, NEW c \in Client, DropMetadata(c)
  PROVE  IInv'
<1>1. /\ op[c] \in Ops /\ op[c].file \in Filename
      /\ TablesOK /\ MetadataConsistent /\ RestOK /\ OpInv(Idle)
  BY Known, IdleInv DEF DropMetadata
<1>2. TablesOK' /\ MetadataConsistent'
  BY <1>1, DeleteFile DEF DropMetadata
<1>3. Deletions(op[c].metas) \subseteq Address \X ChunkIds
  BY <1>1, DeletionsType DEF Ops
<1>4. RestOK'
  BY <1>1, <1>3 DEF RestOK, GcPasses, Metas, ChunkIds, UploadNumbers, DropMetadata
<1> QED BY <1>1, <1>2, <1>4, MoveOpAndTables DEF OpInv, DropMetadata

-----------------------------------------------------------------------------
(***************************************************************************)
(* Steps on the storage servers' disks, and reads.                         *)
(***************************************************************************)

\* What a create uploads to one server is chunks of known uploads.
LEMMA WritesType ==
  ASSUME IInv, NEW c \in Client, NEW a \in Address
  PROVE  Writes(c, a) \subseteq ChunkIds
BY Known DEF Writes, Ops, Metas

LEMMA StepUpload ==
  ASSUME IInv, NEW c \in Client, NEW a \in Address, UploadTo(c, a) \/ UploadFails(c, a)
  PROVE  IInv'
<1>1. op[c] \in Ops /\ OpOK(op[c]) /\ Placing(op[c]) /\ op[c].pc = "upload" /\ RestOK
  BY Known DEF UploadTo, UploadFails
<1>2. PICK stored \in SUBSET Writes(c, a) : disk' = [disk EXCEPT ![a] = @ \cup stored]
  BY DEF UploadTo, UploadFails
<1>3. RestOK'
  <2>1. disk' \in [Address -> SUBSET ChunkIds]
    BY <1>1, <1>2, WritesType DEF RestOK
  <2> QED BY <1>1, <2>1
          DEF RestOK, GcPasses, Metas, ChunkIds, UploadNumbers, UploadTo, UploadFails
<1>4. PICK b \in BOOLEAN :
        op' = [op EXCEPT ![c] = [op[c] EXCEPT !.todo = @ \ {a}, !.failed = b]]
  <2>1. CASE UploadTo(c, a)
    <3>1. [op[c] EXCEPT !.todo = @ \ {a}]
            = [op[c] EXCEPT !.todo = @ \ {a}, !.failed = op[c].failed]
      BY <1>1 DEF Ops
    <3>2. op[c].failed \in BOOLEAN
      BY <1>1 DEF Ops
    <3> QED BY <2>1, <3>1, <3>2 DEF UploadTo
  <2>2. CASE UploadFails(c, a)
    BY <2>2 DEF UploadFails
  <2> QED BY <2>1, <2>2
<1> DEFINE o == [op[c] EXCEPT !.todo = @ \ {a}, !.failed = b]
<1>5. o \in Ops
  BY <1>1 DEF Ops
<1>6. OpOK(o) /\ Placing(o) /\ Fetching(o)
  BY <1>1 DEF OpOK, Placing, Fetching, Ops
<1>7. UNCHANGED <<dbvars, uploads>>
  BY DEF UploadTo, UploadFails
<1>8. op' = [op EXCEPT ![c] = o]
  BY <1>4
<1> HIDE DEF o
<1> QED BY <1>3, <1>5, <1>6, <1>7, <1>8, MoveOp

LEMMA StepFetchChunk ==
  ASSUME IInv, NEW c \in Client, NEW m \in op[c].metas, FetchChunk(c, m)
  PROVE  IInv'
<1>1. op[c] \in Ops /\ OpOK(op[c]) /\ Placing(op[c]) /\ Fetching(op[c])
  BY Known
<1>2. RestOK' /\ UNCHANGED <<dbvars, uploads>>
  BY Known, SameRest DEF FetchChunk
<1> DEFINE o == [op[c] EXCEPT !.got = @ \cup {m.chunk_id}]
<1>3. o \in Ops
  BY <1>1 DEF Ops, Metas
<1>4. OpOK(o) /\ Placing(o) /\ Fetching(o)
  BY <1>1 DEF OpOK, Placing, Fetching, Ops
<1>5. op' = [op EXCEPT ![c] = o]
  BY DEF FetchChunk
<1> HIDE DEF o
<1> QED BY <1>2, <1>3, <1>4, <1>5, MoveOp

LEMMA DeleteChunkType ==
  ASSUME disk \in [Address -> SUBSET ChunkIds], NEW a, NEW id, delete_chunk_on(a, id)
  PROVE  disk' \in [Address -> SUBSET ChunkIds]
BY DEF delete_chunk_on

LEMMA StepRunDelete ==
  ASSUME IInv, NEW d \in deletes, RunDelete(d[1], d[2])
  PROVE  IInv'
<1>1. TablesOK /\ MetadataConsistent /\ OpsOK /\ RestOK
  BY Parts
<1>2. TablesOK' /\ MetadataConsistent' /\ OpsOK'
  BY <1>1, SameTables, SameOps DEF RunDelete
<1>3. disk' \in [Address -> SUBSET ChunkIds] /\ deletes' \subseteq deletes
  BY <1>1, DeleteChunkType DEF RunDelete, RestOK
<1>4. RestOK'
  BY <1>1, <1>3 DEF RestOK, GcPasses, Metas, ChunkIds, UploadNumbers, RunDelete
<1> QED BY <1>2, <1>4, PartsNext

-----------------------------------------------------------------------------
(***************************************************************************)
(* The cleanup thread.                                                     *)
(***************************************************************************)

\* A step of the cleanup thread that writes nothing but its own state.
LEMMA MoveGc ==
  ASSUME IInv, gc' \in GcPasses, gc'.pc = "chunks" => gc'.cur \in Filename,
         UNCHANGED <<dbvars, disk, op, deletes, late, uploads, crashes>>
  PROVE  IInv'
<1>1. TablesOK /\ MetadataConsistent /\ OpsOK /\ RestOK
  BY Parts
<1>2. TablesOK' /\ MetadataConsistent' /\ OpsOK'
  BY <1>1, SameTables, SameOps
<1>3. RestOK'
  BY <1>1 DEF RestOK, GcPasses, Metas, ChunkIds, UploadNumbers
<1> QED BY <1>2, <1>3, PartsNext

LEMMA StepGcList ==
  ASSUME IInv, NEW S \in SUBSET Filename, GcList(S)
  PROVE  IInv'
<1>1. gc' \in GcPasses /\ gc'.pc # "chunks"
  BY Parts DEF GcList, RestOK, GcPasses
<1> QED BY <1>1, MoveGc DEF GcList

LEMMA StepGcReads ==
  ASSUME IInv,
         \/ \E f \in gc.todo : GcSelectRow(f)
         \/ GcSelectChunks
         \/ GcListed
         \/ GcDone
  PROVE  IInv'
<1>1. gc \in GcPasses /\ (gc.pc = "chunks" => gc.cur \in Filename) /\ TablesOK
  BY Parts DEF RestOK
<1>2. CASE \E f \in gc.todo : GcSelectRow(f)
  <2>1. PICK f \in gc.todo : GcSelectRow(f)
    BY <1>2
  <2>2. f \in Filename
    BY <1>1 DEF GcPasses
  <2>3. gc' \in GcPasses /\ (gc'.pc = "chunks" => gc'.cur \in Filename)
    BY <1>1, <2>1, <2>2 DEF GcSelectRow, GcPasses
  <2> QED BY <2>1, <2>3, MoveGc DEF GcSelectRow
<1>3. CASE GcSelectChunks
  <2>1. get_file_chunks(gc.cur) \in SUBSET Metas /\ gc.cur \in Filename
    BY <1>1, <1>3, FileChunksType DEF GcSelectChunks
  <2> DEFINE fm == [filename |-> gc.cur, metas |-> get_file_chunks(gc.cur)]
  <2>found. fm \in [filename : Filename, metas : SUBSET Metas]
    BY <2>1
  <2>pass. gc' = [gc EXCEPT !.pc = "rows", !.cur = "none", !.found = @ \cup {fm}]
    BY <1>3 DEF GcSelectChunks
  <2> HIDE DEF fm
  <2>2. gc' \in GcPasses /\ gc'.pc # "chunks"
    BY <1>1, <2>found, <2>pass DEF GcPasses
  <2> QED BY <1>3, <2>2, MoveGc DEF GcSelectChunks
<1>4. CASE GcListed
  <2>1. gc' \in GcPasses /\ gc'.pc # "chunks"
    BY <1>1, <1>4 DEF GcListed, GcPasses
  <2> QED BY <1>4, <2>1, MoveGc DEF GcListed
<1>5. CASE GcDone
  <2>1. gc' \in GcPasses /\ gc'.pc # "chunks"
    BY <1>5 DEF GcDone, GcIdle, GcPasses
  <2> QED BY <1>5, <2>1, MoveGc DEF GcDone
<1> QED BY <1>2, <1>3, <1>4, <1>5

LEMMA StepGcDrop ==
  ASSUME IInv, NEW fm \in gc.found, GcDrop(fm)
  PROVE  IInv'
<1>1. /\ TablesOK /\ MetadataConsistent /\ OpsOK /\ RestOK /\ gc \in GcPasses
      /\ gc.pc = "drop" /\ fm.filename \in Filename /\ fm.metas \in SUBSET Metas
  BY Parts DEF RestOK, GcPasses, GcDrop
<1>2. TablesOK' /\ MetadataConsistent'
  BY <1>1, DeleteFile DEF GcDrop
<1>3. OpsOK'
  BY <1>1, SameOps DEF GcDrop
<1>4. Deletions(fm.metas) \in SUBSET (Address \X ChunkIds)
  BY <1>1, DeletionsType
<1>5. gc' \in GcPasses /\ gc'.pc # "chunks"
  BY <1>1, <1>4 DEF GcPasses, GcDrop
<1>6. RestOK'
  BY <1>1, <1>5 DEF RestOK, GcPasses, Metas, ChunkIds, UploadNumbers, GcDrop
<1> QED BY <1>2, <1>3, <1>6, PartsNext

LEMMA StepGcDelete ==
  ASSUME IInv, NEW d \in gc.dels, GcDelete(d[1], d[2])
  PROVE  IInv'
<1>1. TablesOK /\ MetadataConsistent /\ OpsOK /\ RestOK /\ gc \in GcPasses
  BY Parts DEF RestOK
<1>2. TablesOK' /\ MetadataConsistent' /\ OpsOK'
  BY <1>1, SameTables, SameOps DEF GcDelete
<1>3. disk' \in [Address -> SUBSET ChunkIds]
  BY <1>1, DeleteChunkType DEF GcDelete, RestOK
<1>4. gc' \in GcPasses /\ gc'.pc = gc.pc /\ gc'.cur = gc.cur
  BY <1>1 DEF GcDelete, GcPasses
<1>5. RestOK'
  BY <1>1, <1>3, <1>4 DEF RestOK, GcPasses, Metas, ChunkIds, UploadNumbers, GcDelete
<1> QED BY <1>2, <1>5, PartsNext

-----------------------------------------------------------------------------
(***************************************************************************)
(* The naming server's crash, and a new CreateFile call.                   *)
(***************************************************************************)

LEMMA StepNamingCrash ==
  ASSUME IInv, NamingCrash
  PROVE  IInv'
<1>1. TablesOK /\ MetadataConsistent /\ OpsOK /\ RestOK
  BY Parts
<1>2. TablesOK' /\ MetadataConsistent'
  BY <1>1, SameTables DEF NamingCrash
<1>3. ASSUME NEW d \in Client PROVE OpInv(op[d])'
  <2>1. PICK x : x = op'[d]
    OBVIOUS
  <2>2. OpInv(x)
    <3>1. OpInv(op[d]) /\ OpInv(Idle)
      BY <1>1, IdleInv DEF OpsOK
    <3>2. op'[d] = op[d] \/ op'[d] = Idle
      BY DEF NamingCrash
    <3> QED BY <2>1, <3>1, <3>2
  <2>3. OpInv(x)'
    BY <2>2, OpInvStable DEF NamingCrash
  <2> QED BY <2>1, <2>3 DEF OpInv, OpOK, Placing, Fetching
<1>4. OpsOK'
  <2>1. op' \in [Client -> Ops']
    BY <1>3 DEF OpInv, NamingCrash
  <2> QED BY <2>1, <1>3 DEF OpsOK
<1>5. RestOK'
  <2>1. gc' \in GcPasses /\ gc'.pc # "chunks"
    BY DEF NamingCrash, GcIdle, GcPasses
  <2>2. gc.dels \subseteq Address \X ChunkIds
    BY <1>1 DEF RestOK, GcPasses
  <2>3. deletes' \subseteq Address \X ChunkIds
    BY <1>1, <2>2 DEF NamingCrash, RestOK
  <2>4. crashes' \in 0..MaxCrashes
    BY <1>1, BoundAssumption DEF NamingCrash, RestOK
  <2> QED BY <1>1, <2>1, <2>3, <2>4
          DEF RestOK, GcPasses, Metas, ChunkIds, UploadNumbers, NamingCrash
<1> QED BY <1>2, <1>4, <1>5, PartsNext

\* A new call adds its number and changes nothing of the calls before it.
LEMMA Grow ==
  ASSUME RestOK, NEW e \in [filename : Filename, num_chunks : ChunkCounts],
         uploads' = Append(uploads, e)
  PROVE  /\ uploads' \in Seq([filename : Filename, num_chunks : ChunkCounts])
         /\ Len(uploads)' = Len(uploads) + 1 /\ Len(uploads) \in Nat
         /\ uploads'[Len(uploads) + 1] = e
         /\ UploadNumbers \subseteq UploadNumbers'
         /\ Len(uploads) + 1 \in UploadNumbers'
         /\ 0..Len(uploads) \subseteq 0..Len(uploads')
         /\ \A u \in UploadNumbers : uploads'[u] = uploads[u]
<1>1. uploads \in Seq([filename : Filename, num_chunks : ChunkCounts])
  BY DEF RestOK
<1>2. /\ uploads' \in Seq([filename : Filename, num_chunks : ChunkCounts])
      /\ Len(uploads') = Len(uploads) + 1
      /\ \A i \in 1..Len(uploads) : uploads'[i] = uploads[i]
      /\ uploads'[Len(uploads) + 1] = e
  BY <1>1, AppendProperties
<1>3. Len(uploads) \in Nat
  BY LenNat
<1> QED BY <1>2, <1>3 DEF UploadNumbers

LEMMA GrowTypes ==
  ASSUME UploadNumbers \subseteq UploadNumbers', 0..Len(uploads) \subseteq 0..Len(uploads')
  PROVE  /\ ChunkIds \subseteq ChunkIds' /\ Metas \subseteq Metas'
         /\ Rows \subseteq Rows' /\ Ops \subseteq Ops' /\ GcPasses \subseteq GcPasses'
<1>1. ChunkIds \subseteq ChunkIds'
  BY DEF ChunkIds
<1>2. Metas \subseteq Metas'
  BY <1>1 DEF Metas
<1>3. Rows \subseteq Rows'
  BY DEF Rows
<1>4. Ops \subseteq Ops'
  <2> SUFFICES ASSUME NEW o \in Ops PROVE o \in Ops'
    OBVIOUS
  <2>1. /\ o.row \in Rows' /\ o.metas \in SUBSET Metas' /\ o.got \in SUBSET ChunkIds'
        /\ o.upload \in 0..Len(uploads')
    BY <1>1, <1>2, <1>3 DEF Ops
  <2> QED BY <2>1 DEF Ops
<1>5. GcPasses \subseteq GcPasses'
  <2>1. [filename : Filename, metas : SUBSET Metas]
          \subseteq [filename : Filename, metas : SUBSET Metas']
    BY <1>2
  <2> SUFFICES ASSUME NEW g \in GcPasses PROVE g \in GcPasses'
    OBVIOUS
  <2>2. /\ g.found \in SUBSET [filename : Filename, metas : SUBSET Metas']
        /\ g.dels \in SUBSET (Address \X ChunkIds')
    BY <1>1, <2>1 DEF GcPasses
  <2> QED BY <2>2 DEF GcPasses
<1> QED BY <1>1, <1>2, <1>3, <1>4, <1>5

LEMMA GrowOp ==
  ASSUME RestOK, NEW e \in [filename : Filename, num_chunks : ChunkCounts],
         uploads' = Append(uploads, e), NEW o, OpInv(o)
  PROVE  OpInv(o)'
<1>1. /\ UploadNumbers \subseteq UploadNumbers'
      /\ \A u \in UploadNumbers : uploads'[u] = uploads[u]
      /\ o \in Ops'
  BY Grow, GrowTypes DEF OpInv
<1>2. OpOK(o)' /\ Placing(o)'
  BY <1>1 DEF OpInv, OpOK, Placing, ChunkIdOf
<1>3. Fetching(o)'
  <2>1. \A u \in UploadNumbers : ContentOf(u)' = ContentOf(u)
    BY <1>1 DEF ContentOf, ChunkIdOf
  <2> QED BY <1>1, <2>1 DEF OpInv, Fetching, Ids
<1> QED BY <1>1, <1>2, <1>3 DEF OpInv

LEMMA StepStartCreate ==
  ASSUME IInv, NEW c \in Client, NEW f \in Filename, NEW n \in ChunkCounts,
         StartCreate(c, f, n)
  PROVE  IInv'
<1> DEFINE e == [filename |-> f, num_chunks |-> n]
<1>number. PICK u : u = Len(uploads) + 1
  OBVIOUS
<1>started. PICK o : o = [Idle EXCEPT !.pc = "select_row", !.kind = "create", !.file = f,
                                !.upload = u]
  OBVIOUS
<1>1. TablesOK /\ MetadataConsistent /\ OpsOK /\ RestOK
  BY Parts
<1>2. /\ e \in [filename : Filename, num_chunks : ChunkCounts]
      /\ uploads' = Append(uploads, e) /\ op' = [op EXCEPT ![c] = o]
  BY <1>number, <1>started DEF StartCreate
<1>3. /\ uploads' \in Seq([filename : Filename, num_chunks : ChunkCounts])
      /\ u \in UploadNumbers' /\ uploads'[u] = e
      /\ UploadNumbers \subseteq UploadNumbers' /\ 0..Len(uploads) \subseteq 0..Len(uploads')
      /\ \A v \in UploadNumbers : uploads'[v] = uploads[v]
      /\ Len(uploads') = Len(uploads) + 1 /\ Len(uploads) \in Nat
  BY <1>1, <1>2, <1>number, Grow
<1>4. /\ ChunkIds \subseteq ChunkIds' /\ Metas \subseteq Metas'
      /\ Rows \subseteq Rows' /\ Ops \subseteq Ops' /\ GcPasses \subseteq GcPasses'
  BY <1>3, GrowTypes
<1>5. TablesOK'
  BY <1>1, <1>4 DEF TablesOK, StartCreate, dbvars
<1>6. MetadataConsistent'
  <2>1. ASSUME NEW g \in Filename, WrittenBy(g, files[g].created_at)
        PROVE  WrittenBy(g, files[g].created_at)'
    <3>1. PICK v : v = files[g].created_at
      OBVIOUS
    <3>2. v \in UploadNumbers /\ uploads'[v] = uploads[v]
      BY <2>1, <3>1, <1>3 DEF WrittenBy
    <3>3. RowsOfUpload(v)' = RowsOfUpload(v)
      BY <3>2 DEF RowsOfUpload, ChunkIdOf
    <3>4. UNCHANGED <<files, chunks, replicas>>
      BY DEF StartCreate, dbvars
    <3>5. WrittenBy(g, v)'
      BY <2>1, <3>1, <3>2, <3>3, <3>4, <1>3 DEF WrittenBy, RowsOf, Locations
    <3> QED BY <3>1, <3>4, <3>5 DEF WrittenBy
  <2> QED BY <1>1, <2>1 DEF MetadataConsistent, Exists, RowsOf, StartCreate, dbvars
<1>7. OpsOK'
  <2>1. OpInv(o)'
    <3>1. OpInv(Idle)'
      BY <1>1, <1>2, IdleInv, GrowOp
    <3>2. o \in Ops'
      <4>1. u \in 0..Len(uploads')
        BY <1>number, <1>3
      <4> QED BY <1>started, <3>1, <4>1 DEF OpInv, Ops, Idle
    <3>3. IsFiniteSet({}) /\ Cardinality({}) = 0
      BY FS_EmptySet
    <3>4. OpOK(o)' /\ Fetching(o)'
      BY <1>3, <1>started DEF OpOK, Fetching, Idle
    <3>5. Placing(o)'
      BY <1>3, <1>started, <3>3 DEF Placing, Idle
    <3> QED BY <3>2, <3>4, <3>5 DEF OpInv
  <2>2. ASSUME NEW d \in Client PROVE OpInv(op[d])'
    <3>1. PICK x : x = op'[d]
      OBVIOUS
    <3>2. OpInv(x)'
      <4>1. CASE d = c
        BY <4>1, <3>1, <2>1, <1>1, <1>2 DEF OpsOK
      <4>2. CASE d # c
        <5>1. OpInv(x)
          BY <4>2, <3>1, <1>1, <1>2 DEF OpsOK
        <5> QED BY <5>1, <1>1, <1>2, GrowOp
      <4> QED BY <4>1, <4>2
    <3> QED BY <3>1, <3>2 DEF OpInv, OpOK, Placing, Fetching
  <2>3. op' \in [Client -> Ops']
    BY <1>1, <1>2, <2>2 DEF OpsOK, OpInv
  <2> QED BY <2>2, <2>3 DEF OpsOK
<1>8. RestOK'
  BY <1>1, <1>3, <1>4 DEF RestOK, StartCreate
<1> QED BY <1>5, <1>6, <1>7, <1>8, PartsNext

-----------------------------------------------------------------------------
(***************************************************************************)
(* The invariant, and what it implies.                                     *)
(***************************************************************************)

LEMMA InitIInv ==
  ASSUME Init
  PROVE  IInv
<1>1. uploads = <<>> /\ uploads \in Seq([filename : Filename, num_chunks : ChunkCounts])
  BY DEF Init
<1>2. Len(uploads) \in Nat /\ crashes \in 0..MaxCrashes
  BY <1>1, LenProperties, BoundAssumption DEF Init
<1>3. TablesOK
  BY <1>2 DEF Init, TablesOK, Rows, NoFile
<1>4. MetadataConsistent
  BY DEF Init, MetadataConsistent, Exists, RowsOf, NoFile
<1>5. RestOK
  BY <1>1, <1>2 DEF Init, RestOK, GcPasses, GcIdle
<1>6. OpsOK
  <2>1. OpInv(Idle)
    BY <1>5, IdleInv
  <2> QED BY <2>1 DEF Init, OpsOK, OpInv
<1> QED BY <1>3, <1>4, <1>5, <1>6, Parts

LEMMA StepIInv ==
  ASSUME IInv, [Next]_vars
  PROVE  IInv'
<1>1. ASSUME NEW c \in Client, ClientStep(c)
      PROVE  IInv'
  <2>1. late \subseteq Filename
    BY Parts DEF RestOK
  <2>2. CASE \E f \in Filename, n \in ChunkCounts : StartCreate(c, f, n)
    BY <2>2, StepStartCreate
  <2>3. CASE \E f \in Filename : StartRead(c, f) \/ StartDelete(c, f)
    BY <2>3, StepStartCall
  <2>4. CASE SelectRow(c)
    BY <2>4, StepSelectRow
  <2>5. CASE SelectOldChunks(c)
    BY <2>5, StepSelectOldChunks
  <2>6. CASE SelectPlacements(c)
    BY <2>6, StepSelectPlacements
  <2>7. CASE PlaceChunk(c)
    BY <2>7, StepPlaceChunk
  <2>8. CASE PlaceRejected(c) \/ UploadAborted(c) \/ ClientCrash(c) \/ FetchFails(c) \/ ReadReturns(c)
    BY <2>1, <2>8, StepToIdle
       DEF PlaceRejected, UploadAborted, ClientCrash, FetchFails, ReadReturns
  <2>9. CASE CommitTimesOut(c)
    <3>1. op[c].file \in Filename
      BY <2>9, Known DEF CommitTimesOut, AllUploaded
    <3> QED BY <2>1, <2>9, <3>1, StepToIdle DEF CommitTimesOut
  <2>10. CASE WritePending(c)
    BY <2>10, StepWritePending
  <2>11. CASE \E a \in Address : UploadTo(c, a) \/ UploadFails(c, a)
    BY <2>11, StepUpload
  <2>12. CASE CommitFile(c)
    BY <2>12, StepCommitFile
  <2>13. CASE DropMetadata(c)
    BY <2>13, StepDropMetadata
  <2>14. CASE \E m \in op[c].metas : FetchChunk(c, m)
    BY <2>14, StepFetchChunk
  <2> QED BY <1>1, <2>2, <2>3, <2>4, <2>5, <2>6, <2>7, <2>8, <2>9, <2>10, <2>11,
             <2>12, <2>13, <2>14 DEF ClientStep
<1>2. ASSUME GcStep PROVE IInv'
  BY <1>2, StepGcReads, StepGcDrop, StepGcDelete DEF GcStep
<1>3. ASSUME UNCHANGED vars PROVE IInv'
  <2>1. TablesOK' /\ MetadataConsistent' /\ OpsOK' /\ RestOK'
    BY <1>3, Parts, SameTables, SameOps, SameRest DEF vars, dbvars
  <2> QED BY <2>1, PartsNext
<1> QED BY <1>1, <1>2, <1>3, StepLateCommitFile, StepRunDelete, StepGcList,
           StepNamingCrash DEF Next

LEMMA Invariance == Spec => []IInv
BY InitIInv, StepIInv, PTL DEF Spec

\* Type correctness, for every number of clients, servers, names, uploads
\* and crashes: whatever interleaves with it, a CreateFile call only ever
\* plans chunks of its own, with indices below the number it was asked for.
THEOREM TypeCorrect == Spec => []TypeOK
<1>1. IInv => TypeOK
  BY DEF IInv
<1> QED BY <1>1, Invariance, PTL

\* The three tables agree in every reachable state: a file row has exactly
\* the chunk rows of the call that wrote it, each with R replica rows, and
\* nothing outlives its file (create_pending, commit_file, delete_file).
THEOREM TablesAgree == Spec => []MetadataConsistent
<1>1. IInv => MetadataConsistent
  BY DEF IInv
<1> QED BY <1>1, Invariance, PTL

\* A read returns the whole content of one upload of its file, or nothing,
\* although GetFile's two SELECTs see two different states of the tables.
THEOREM ReadsAreWhole == Spec => []ReadIsWholeUpload
<1>1. ASSUME IInv PROVE ReadIsWholeUpload
  <2> SUFFICES ASSUME NEW c \in Client, Returned(c)
               PROVE  \/ op[c].got = {}
                      \/ \E u \in DOMAIN uploads : /\ uploads[u].filename = op[c].file
                                                   /\ op[c].got = ContentOf(u)
    BY DEF ReadIsWholeUpload
  <2>1. Fetching(op[c]) /\ op[c].pc = "fetch" /\ op[c].got = Ids(op[c].metas)
    BY <1>1, Known DEF Returned
  <2>2. DOMAIN uploads = UploadNumbers
    BY <1>1, Parts, LenProperties DEF RestOK, UploadNumbers
  <2>3. op[c].metas = {} => op[c].got = {}
    BY <2>1 DEF Ids
  <2> QED BY <2>1, <2>2, <2>3 DEF Fetching
<1> QED BY <1>1, Invariance, PTL

=============================================================================
