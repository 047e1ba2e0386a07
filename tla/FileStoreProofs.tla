--------------------------- MODULE FileStoreProofs ---------------------------
(***************************************************************************)
(* FileOps implements FileStore when names are used once, and FileMap      *)
(* always: the initial states map to initial states, and every step to a   *)
(* step or a stutter.                                                      *)
(***************************************************************************)
EXTENDS FileOpsOnceProofs

SameStatus == \A f \in Filename : StatusOf(f)' = StatusOf(f)
SameContent == \A f \in Filename : ContentIn(f)' = ContentIn(f)
SameViews == \A c \in Client : ViewOf(op[c])' = ViewOf(op[c])

LEMMA Stutter ==
  ASSUME SameStatus, SameContent, SameViews
  PROVE  UNCHANGED Store!vars
BY DEF SameStatus, SameContent, SameViews, Store!vars

-----------------------------------------------------------------------------
(***************************************************************************)
(* How a step on one file or of one client maps.                           *)
(***************************************************************************)

\* The status and content of f alone change.
LEMMA MapPlan ==
  ASSUME NEW f \in Filename, StatusOf(f) = "unused", StatusOf(f)' = "planned",
         \A g \in Filename \ {f} : StatusOf(g)' = StatusOf(g), SameContent, SameViews
  PROVE  Store!Next
<1>1. Store!Plan(f)
  BY DEF Store!Plan, SameContent, SameViews
<1> QED BY <1>1 DEF Store!Next

LEMMA MapPublish ==
  ASSUME NEW f \in Filename, StatusOf(f) = "pending", StatusOf(f)' = "committed",
         \A g \in Filename \ {f} : StatusOf(g)' = StatusOf(g), SameContent, SameViews
  PROVE  Store!Next
<1>1. Store!Publish(f)
  BY DEF Store!Publish, SameContent, SameViews
<1> QED BY <1>1 DEF Store!Next

LEMMA MapWrite ==
  ASSUME NEW f \in Filename, StatusOf(f) = "planned", StatusOf(f)' = "pending",
         ContentIn(f)' \in WholeUploads, SameViews,
         \A g \in Filename \ {f} : /\ StatusOf(g)' = StatusOf(g)
                                   /\ ContentIn(g)' = ContentIn(g)
  PROVE  Store!Next
<1>1. PICK d : d = ContentIn(f)'
  OBVIOUS
<1>2. Store!Write(f, d)
  BY <1>1 DEF Store!Write, SameViews
<1> QED BY <1>1, <1>2 DEF Store!Next

LEMMA MapDrop ==
  ASSUME NEW f \in Filename, StatusOf(f) \in {"planned", "pending", "committed"},
         StatusOf(f)' = "gone", ContentIn(f)' = {}, SameViews,
         \A g \in Filename \ {f} : /\ StatusOf(g)' = StatusOf(g)
                                   /\ ContentIn(g)' = ContentIn(g)
  PROVE  Store!Next
<1>1. Store!Drop(f)
  BY DEF Store!Drop, SameViews
<1> QED BY <1>1 DEF Store!Next

\* The view of c alone changes.
LEMMA MapView ==
  ASSUME NEW c \in Client, NEW o, op \in [Client -> Ops], op' = [op EXCEPT ![c] = o],
         SameStatus, SameContent,
         \/ ViewOf(o) = ViewOf(op[c])
         \/ \E f \in Filename : /\ ViewOf(op[c]).at = "none" /\ StatusOf(f) = "committed"
                                /\ ViewOf(o) = [at |-> "asked", file |-> f, data |-> {}]
         \/ \E f \in Filename : /\ ViewOf(op[c]).at = "asked" /\ ViewOf(op[c]).file = f
                                /\ ViewOf(o) = [at |-> "holds", file |-> f,
                                                data |-> ContentIn(f)]
         \/ /\ ViewOf(op[c]).at = "holds"
            /\ ViewOf(o) = [at |-> "none", file |-> "none", data |-> {}]
  PROVE  [Store!Next]_Store!vars
<1>1. \A d \in Client : ViewOf(op[d])' = IF d = c THEN ViewOf(o) ELSE ViewOf(op[d])
  BY DEF ViewOf, Ids
<1>2. CASE ViewOf(o) = ViewOf(op[c])
  <2>1. SameViews
    BY <1>1, <1>2 DEF SameViews
  <2> QED BY <2>1, Stutter
<1>3. UNCHANGED Store!filevars
  BY DEF SameStatus, SameContent, Store!filevars
<1>4. ASSUME NEW f \in Filename, ViewOf(op[c]).at = "none", StatusOf(f) = "committed",
             ViewOf(o) = [at |-> "asked", file |-> f, data |-> {}]
      PROVE  Store!Next
  <2>1. Store!Ask(c, f)
    BY <1>1, <1>3, <1>4 DEF Store!Ask, Store!Asked
  <2> QED BY <2>1 DEF Store!Next
<1>5. ASSUME NEW f \in Filename, ViewOf(op[c]).at = "asked", ViewOf(op[c]).file = f,
             ViewOf(o) = [at |-> "holds", file |-> f, data |-> ContentIn(f)]
      PROVE  Store!Next
  <2>1. Store!Look(c)
    BY <1>1, <1>3, <1>5 DEF Store!Look, Store!Holds
  <2> QED BY <2>1 DEF Store!Next
<1>6. ASSUME ViewOf(op[c]).at = "holds",
             ViewOf(o) = [at |-> "none", file |-> "none", data |-> {}]
      PROVE  Store!Next
  <2>1. Store!Finish(c)
    BY <1>1, <1>3, <1>6 DEF Store!Finish, Store!NoView
  <2> QED BY <2>1 DEF Store!Next
<1> QED BY <1>2, <1>4, <1>5, <1>6

\* The tables stay, and so does what is planned.
LEMMA KeepTables ==
  ASSUME UNCHANGED <<dbvars, uploads>>, \A f \in Filename : Planned(f)' <=> Planned(f)
  PROVE  SameStatus /\ SameContent
BY DEF SameStatus, SameContent, StatusOf, Exists, Used, UploadNumbers, ContentIn, RowsOf,
       dbvars

LEMMA KeepPlans ==
  ASSUME NEW c \in Client, NEW o, op \in [Client -> Ops], op' = [op EXCEPT ![c] = o],
         Creating(o) <=> Creating(op[c]), Creating(o) => o.file = op[c].file
  PROVE  \A f \in Filename : Planned(f)' <=> Planned(f)
BY DEF Planned, Creating

\* A step of c that touches no table and begins or ends no planning.
LEMMA MapOp ==
  ASSUME NEW c \in Client, NEW o, op \in [Client -> Ops], op' = [op EXCEPT ![c] = o],
         UNCHANGED <<dbvars, uploads>>,
         Creating(o) <=> Creating(op[c]), Creating(o) => o.file = op[c].file,
         ViewOf(o) = ViewOf(op[c])
  PROVE  [Store!Next]_Store!vars
BY KeepPlans, KeepTables, MapView

-----------------------------------------------------------------------------
(***************************************************************************)
(* The steps of one client.                                                *)
(***************************************************************************)

\* What the invariant says of a name.
LEMMA NameFacts ==
  ASSUME IInv, OnceInv, NEW f \in Filename
  PROVE  /\ Exists(f) => /\ files[f].status \in {"pending", "committed"}
                         /\ Used(f) /\ ~Planned(f)
         /\ ~Exists(f) => RowsOf(f) = {}
         /\ Planned(f) => Used(f)
<1>1. /\ files[f] \in Rows
      /\ IF Exists(f) THEN WrittenBy(f, files[f].created_at) ELSE RowsOf(f) = {}
  BY Parts DEF TablesOK, MetadataConsistent
<1>2. Exists(f) => files[f].status \in {"pending", "committed"} /\ Used(f)
  BY <1>1 DEF Exists, Rows, WrittenBy, Used
<1>3. ASSUME NEW c \in Client, Creating(op[c]), op[c].file = f
      PROVE  Used(f) /\ ~Exists(f)
  BY <1>3, Known DEF Creating, OpOK, Placing, Used, OnceInv, OnceOp, Fresh
<1> QED BY <1>1, <1>2, <1>3 DEF Planned

LEMMA MapStartCreate ==
  ASSUME ~Reuse, IInv, OnceInv, NEW c \in Client, NEW f \in Filename, NEW n \in ChunkCounts,
         StartCreate(c, f, n)
  PROVE  Store!Next
<1>named. PICK e, u : e = [filename |-> f, num_chunks |-> n] /\ u = Len(uploads) + 1
  OBVIOUS
<1>started. PICK o : o = [Idle EXCEPT !.pc = "select_row", !.kind = "create", !.file = f,
                                !.upload = u]
  OBVIOUS
<1>1. /\ RestOK /\ op \in [Client -> Ops] /\ op[c].pc = "idle"
      /\ e \in [filename : Filename, num_chunks : ChunkCounts]
      /\ uploads' = Append(uploads, e) /\ op' = [op EXCEPT ![c] = o]
      /\ UNCHANGED dbvars
  BY <1>named, <1>started, Parts DEF StartCreate, OpsOK
<1>2. /\ o.kind = "create" /\ o.file = f /\ o.pc = "select_row"
  BY <1>started DEF Idle
<1>3. \A g \in Filename : Used(g)' <=> Used(g) \/ g = f
  <2>1. Len(uploads) \in Nat /\ Len(uploads') = Len(uploads) + 1
    BY <1>1, Grow, LenNat
  <2>2. /\ \A v \in UploadNumbers : v \in UploadNumbers' /\ uploads'[v] = uploads[v]
        /\ u \in UploadNumbers' /\ uploads'[u] = e
        /\ \A v \in UploadNumbers' : v \in UploadNumbers \/ v = u
    BY <1>1, <1>named, <2>1, Grow DEF UploadNumbers
  <2>3. \A g : (\E v \in UploadNumbers' : uploads'[v].filename = g) <=>
              ((\E v \in UploadNumbers : uploads[v].filename = g) \/ g = f)
    <3>1. \A g, v : v \in UploadNumbers /\ uploads[v].filename = g =>
                     v \in UploadNumbers' /\ uploads'[v].filename = g
      BY <2>2
    <3>2. u \in UploadNumbers' /\ uploads'[u].filename = f
      BY <2>2, <1>named
    <3>3. \A g, v : v \in UploadNumbers' /\ uploads'[v].filename = g =>
                     (v \in UploadNumbers /\ uploads[v].filename = g) \/ g = f
      BY <2>2, <3>2
    <3> QED BY <3>1, <3>2, <3>3
  <2> QED BY <2>3 DEF Used
<1>4. ~Used(f)
  <2>1. DOMAIN uploads = UploadNumbers
    BY <1>1, LenProperties DEF RestOK, UploadNumbers
  <2> QED BY <2>1 DEF StartCreate, Used
<1>5. \A g \in Filename : Planned(g)' <=> Planned(g) \/ g = f
  BY <1>1, <1>2 DEF Planned, Creating
<1>6. StatusOf(f) = "unused" /\ StatusOf(f)' = "planned"
  BY <1>1, <1>4, <1>5, NameFacts DEF StatusOf, Exists, dbvars
<1>7. \A g \in Filename \ {f} : StatusOf(g)' = StatusOf(g)
  BY <1>1, <1>3, <1>5 DEF StatusOf, Exists, dbvars
<1>8. SameContent
  BY <1>1 DEF SameContent, ContentIn, RowsOf, dbvars
<1>9. SameViews
  BY <1>1, <1>2 DEF SameViews, ViewOf, Ids
<1> QED BY <1>6, <1>7, <1>8, <1>9, MapPlan

LEMMA MapStartCall ==
  ASSUME IInv, NEW c \in Client, NEW f \in Filename, StartRead(c, f) \/ StartDelete(c, f)
  PROVE  [Store!Next]_Store!vars
<1>1. PICK k \in {"read", "delete"} :
        op' = [op EXCEPT ![c] = [Idle EXCEPT !.pc = "select_row", !.kind = k, !.file = f]]
  BY DEF StartRead, StartDelete
<1>2. PICK o : o = [Idle EXCEPT !.pc = "select_row", !.kind = k, !.file = f]
  OBVIOUS
<1>3. o.pc = "select_row" /\ o.kind = k
  BY <1>2 DEF Idle
<1>4. op[c].pc = "idle" /\ UNCHANGED <<dbvars, uploads>> /\ op \in [Client -> Ops]
  BY Parts DEF StartRead, StartDelete, OpsOK
<1> QED BY <1>1, <1>2, <1>3, <1>4, MapOp DEF Creating, ViewOf

LEMMA MapSelectRow ==
  ASSUME IInv, OnceInv, NEW c \in Client, SelectRow(c)
  PROVE  [Store!Next]_Store!vars
<1>1. /\ op[c] \in Ops /\ OpOK(op[c]) /\ OnceOp(op[c]) /\ op[c].pc = "select_row"
      /\ op \in [Client -> Ops] /\ UNCHANGED <<dbvars, uploads>> /\ op[c].file \in Filename
  BY Known, Parts DEF SelectRow, OnceInv, OpsOK
<1>2. CASE Wanted(c)
  <2>1. PICK o : o = [op[c] EXCEPT !.pc = "select_chunks", !.row = files[op[c].file]]
    OBVIOUS
  <2>2. op' = [op EXCEPT ![c] = o]
    BY <1>2, <2>1 DEF SelectRow
  <2>3. op[c].kind # "create"
    BY <1>1, <1>2 DEF Wanted, OnceOp, Fresh, Creating, Exists
  <2>4. o.pc = "select_chunks" /\ o.kind = op[c].kind /\ o.file = op[c].file
    BY <1>1, <2>1 DEF Ops
  <2>5. SameStatus /\ SameContent
    BY <1>1, <2>2, <2>3, <2>4, KeepPlans, KeepTables DEF Creating
  <2>6. CASE op[c].kind = "read"
    <3>1. StatusOf(op[c].file) = "committed"
      BY <1>1, <1>2, <2>6 DEF Wanted, StatusOf, Exists
    <3>2. ViewOf(op[c]).at = "none"
      BY <1>1 DEF ViewOf
    <3>3. ViewOf(o) = [at |-> "asked", file |-> op[c].file, data |-> {}]
      BY <2>4, <2>6 DEF ViewOf
    <3> QED BY <1>1, <2>2, <2>5, <3>1, <3>2, <3>3, MapView
  <2>7. CASE op[c].kind # "read"
    <3>1. ViewOf(o) = ViewOf(op[c])
      BY <1>1, <2>4, <2>7 DEF ViewOf
    <3> QED BY <1>1, <2>2, <2>5, <3>1, MapView
  <2> QED BY <2>6, <2>7
<1>3. CASE ~Wanted(c) /\ op[c].kind = "create"
  <2>1. PICK o : o = [op[c] EXCEPT !.pc = "place"]
    OBVIOUS
  <2>2. op' = [op EXCEPT ![c] = o]
    BY <1>3, <2>1 DEF SelectRow
  <2>3. o.pc = "place" /\ o.kind = op[c].kind /\ o.file = op[c].file
    BY <1>1, <2>1 DEF Ops
  <2> QED BY <1>1, <1>3, <2>2, <2>3, MapOp DEF Creating, ViewOf
<1>4. CASE ~Wanted(c) /\ op[c].kind # "create"
  <2>1. op' = [op EXCEPT ![c] = Idle]
    BY <1>4 DEF SelectRow
  <2> QED BY <1>1, <1>4, <2>1, MapOp DEF Creating, ViewOf, Idle
<1> QED BY <1>2, <1>3, <1>4

LEMMA ListedContent ==
  ASSUME NEW f
  PROVE  Ids(get_file_chunks(f)) = ContentIn(f)
<1>1. \A id \in Ids(get_file_chunks(f)) : \E ch \in RowsOf(f) : id = ch.chunk_id
  BY DEF Ids, get_file_chunks
<1>2. ASSUME NEW ch \in RowsOf(f)
      PROVE  ch.chunk_id \in Ids(get_file_chunks(f))
  <2>1. PICK m : m = [chunk_id |-> ch.chunk_id, index |-> ch.idx,
                      locations |-> Locations(ch.chunk_id)]
    OBVIOUS
  <2>2. m \in get_file_chunks(f) /\ m.chunk_id = ch.chunk_id
    BY <2>1 DEF get_file_chunks
  <2> QED BY <2>2 DEF Ids
<1> QED BY <1>1, <1>2 DEF ContentIn

LEMMA MapSelectPlacements ==
  ASSUME IInv, NEW c \in Client, SelectPlacements(c)
  PROVE  [Store!Next]_Store!vars
<1>1. /\ op[c] \in Ops /\ op[c].pc = "select_chunks" /\ op[c].kind # "create"
      /\ op \in [Client -> Ops] /\ UNCHANGED <<dbvars, uploads>> /\ op[c].file \in Filename
  BY Known, Parts DEF SelectPlacements, OpsOK
<1>named. PICK metas : metas = get_file_chunks(op[c].file)
  OBVIOUS
<1>2. PICK o : o = [op[c] EXCEPT !.pc = IF op[c].kind = "read" THEN "fetch" ELSE "drop",
                                 !.metas = metas]
  OBVIOUS
<1>3. op' = [op EXCEPT ![c] = o]
  BY <1>2, <1>named DEF SelectPlacements
<1>4. /\ o.pc = IF op[c].kind = "read" THEN "fetch" ELSE "drop"
      /\ o.kind = op[c].kind /\ o.file = op[c].file /\ o.metas = metas
  BY <1>1, <1>2 DEF Ops
<1>5. SameStatus /\ SameContent
  BY <1>1, <1>3, <1>4, KeepPlans, KeepTables DEF Creating
<1>6. CASE op[c].kind = "read"
  <2>1. Ids(metas) = ContentIn(op[c].file)
    BY <1>named, ListedContent
  <2>2. ViewOf(o) = [at |-> "holds", file |-> op[c].file, data |-> ContentIn(op[c].file)]
    BY <1>4, <1>6, <2>1 DEF ViewOf
  <2>3. ViewOf(op[c]).at = "asked" /\ ViewOf(op[c]).file = op[c].file
    BY <1>1, <1>6 DEF ViewOf
  <2> QED BY <1>1, <1>3, <1>5, <2>2, <2>3, MapView
<1>7. CASE op[c].kind # "read"
  <2>1. ViewOf(o) = ViewOf(op[c])
    BY <1>1, <1>4, <1>7 DEF ViewOf
  <2> QED BY <1>1, <1>3, <1>5, <2>1, MapView
<1> QED BY <1>6, <1>7

\* A create that is rejected drops the name it had planned.
LEMMA MapPlaceRejected ==
  ASSUME IInv, OnceInv, NEW c \in Client, PlaceRejected(c)
  PROVE  Store!Next
<1>1. /\ op[c] \in Ops /\ op[c].pc = "place" /\ op[c].kind = "create" /\ Creating(op[c])
      /\ op \in [Client -> Ops] /\ UNCHANGED <<dbvars, uploads>> /\ op[c].file \in Filename
      /\ op' = [op EXCEPT ![c] = Idle]
  BY Known, Parts DEF PlaceRejected, OpsOK, OpOK, Creating
<1>named. PICK f : f = op[c].file
  OBVIOUS
<1>2. f \in Filename /\ Planned(f) /\ ~Exists(f) /\ Used(f) /\ RowsOf(f) = {}
  BY <1>1, <1>named, NameFacts DEF Planned
<1>3. \A g \in Filename : Planned(g)' <=> Planned(g) /\ g # f
  <2>1. ~Creating(op'[c]) /\ \A d \in Client \ {c} : op'[d] = op[d]
    BY <1>1, IdleOnce
  <2>2. \A d \in Client : Creating(op[d]) /\ op[d].file = f => d = c
    BY <1>1, <1>named DEF OnceInv, OneCreator, Creating
  <2> QED BY <2>1, <2>2, <1>1, <1>named DEF Planned, Creating
<1>4. StatusOf(f) = "planned" /\ StatusOf(f)' = "gone"
  BY <1>1, <1>2, <1>3 DEF StatusOf, Exists, Used, UploadNumbers, dbvars
<1>5. /\ ContentIn(f)' = {}
      /\ \A g \in Filename \ {f} : /\ StatusOf(g)' = StatusOf(g)
                                    /\ ContentIn(g)' = ContentIn(g)
  BY <1>1, <1>2, <1>3 DEF StatusOf, Exists, Used, UploadNumbers, ContentIn, RowsOf, dbvars
<1>6. SameViews
  BY <1>1 DEF SameViews, ViewOf, Ids, Idle
<1> QED BY <1>2, <1>4, <1>5, <1>6, MapDrop

\* What CreateFile call u has written is the whole content of one upload.
LEMMA WholeContent ==
  ASSUME RestOK, Len(uploads) <= MaxUploads, UNCHANGED uploads,
         NEW f, NEW u \in UploadNumbers, WrittenBy(f, u)'
  PROVE  ContentIn(f)' \in WholeUploads
<1>named. PICK n : n = uploads[u].num_chunks
  OBVIOUS
<1>1. RowsOf(f)' = RowsOfUpload(u)
  BY DEF WrittenBy, RowsOfUpload, ChunkIdOf
<1>2. ContentIn(f)' = {ChunkIdOf(u, i) : i \in 0..(n - 1)}
  <2>1. \A ch \in RowsOfUpload(u) : \E i \in 0..(n - 1) : ch.chunk_id = ChunkIdOf(u, i)
    BY <1>named DEF RowsOfUpload
  <2>2. ASSUME NEW i \in 0..(n - 1)
        PROVE  \E ch \in RowsOfUpload(u) : ch.chunk_id = ChunkIdOf(u, i)
    <3>1. PICK x : x = [chunk_id |-> ChunkIdOf(u, i), filename |-> uploads[u].filename,
                        idx |-> i]
      OBVIOUS
    <3>2. x \in RowsOfUpload(u) /\ x.chunk_id = ChunkIdOf(u, i)
      BY <3>1, <1>named DEF RowsOfUpload
    <3> QED BY <3>2
  <2> QED BY <1>1, <2>1, <2>2 DEF ContentIn
<1>3. u \in 1..MaxUploads /\ n \in ChunkCounts
  <2>1. Len(uploads) \in Nat /\ u \in 1..Len(uploads)
    BY LenNat DEF UploadNumbers
  <2>2. uploads[u] \in [filename : Filename, num_chunks : ChunkCounts]
    BY ElementOfSeq DEF RestOK, UploadNumbers
  <2> QED BY <2>1, <2>2, <1>named, BoundAssumption
<1> QED BY <1>2, <1>3 DEF WholeUploads

LEMMA MapWritePending ==
  ASSUME IInv, OnceInv, NEW c \in Client, WritePending(c)
  PROVE  Store!Next
<1>named. PICK f, u, metas, n : /\ f = op[c].file /\ u = op[c].upload /\ metas = op[c].metas
                                /\ n = uploads[u].num_chunks
  OBVIOUS
<1>1. /\ op[c] \in Ops /\ op[c].pc = "place" /\ op[c].kind = "create" /\ Creating(op[c])
      /\ op \in [Client -> Ops] /\ UNCHANGED uploads /\ f \in Filename
      /\ u \in UploadNumbers /\ uploads[u].filename = f /\ RestOK
  BY <1>named, Known, Parts DEF WritePending, OpsOK, OpOK, Creating, Placing
<1>2. PICK o : o = [op[c] EXCEPT !.pc = "upload", !.todo = UNION {m.locations : m \in metas}]
  OBVIOUS
<1>3. op' = [op EXCEPT ![c] = o] /\ o.pc = "upload"
  BY <1>1, <1>2, <1>named DEF WritePending, Ops
<1>4. f \in Filename /\ Planned(f) /\ ~Exists(f)
  BY <1>1, <1>named, NameFacts DEF Planned
<1>5. \A g \in Filename \ {f} : Planned(g)' <=> Planned(g)
  <2>1. ~Creating(op'[c]) /\ \A d \in Client \ {c} : op'[d] = op[d]
    BY <1>1, <1>3 DEF Creating
  <2> QED BY <2>1, <1>1, <1>named DEF Planned, Creating
<1>6. /\ \A g \in Filename \ {f} : RowsOf(g)' = RowsOf(g) /\ files'[g] = files[g]
      /\ files'[f].status = "pending" /\ files'[f].created_at = u
  <2>1. create_pending(f, n, u, metas)
    BY <1>named DEF WritePending, Asked
  <2>2. files' = [files EXCEPT ![f] = [status |-> "pending", num_chunks |-> n,
                                       created_at |-> u]]
    BY <2>1 DEF create_pending
  <2>3. files'[f] = [status |-> "pending", num_chunks |-> n, created_at |-> u]
    BY <1>1, <2>2, Parts DEF TablesOK
  <2> QED BY <1>named, <2>3, NewRows
<1>7. StatusOf(f) = "planned" /\ StatusOf(f)' = "pending"
  BY <1>4, <1>6 DEF StatusOf, Exists
<1>8. \A g \in Filename \ {f} : /\ StatusOf(g)' = StatusOf(g)
                                /\ ContentIn(g)' = ContentIn(g)
  BY <1>1, <1>5, <1>6 DEF StatusOf, Exists, Used, UploadNumbers, ContentIn
<1>9. ContentIn(f)' \in WholeUploads
  <2>1. MetadataConsistent'
    BY StepWritePending DEF IInv
  <2>2. WrittenBy(f, u)'
    BY <1>1, <1>6, <2>1 DEF MetadataConsistent, Exists
  <2> QED BY <1>1, <2>2, WholeContent DEF OnceInv
<1>10. SameViews
  BY <1>1, <1>3 DEF SameViews, ViewOf, Ids
<1> QED BY <1>4, <1>7, <1>8, <1>9, <1>10, MapWrite

-----------------------------------------------------------------------------
(***************************************************************************)
(* Commits, deletes, the cleanup thread and crashes.                       *)
(***************************************************************************)

\* Only the row of f changes, and what is planned stays.
LEMMA OneRow ==
  ASSUME NEW f \in Filename, \A g \in Filename \ {f} : files'[g] = files[g],
         \A g \in Filename : Planned(g)' <=> Planned(g), UNCHANGED uploads
  PROVE  \A g \in Filename \ {f} : StatusOf(g)' = StatusOf(g)
BY DEF StatusOf, Exists, Used, UploadNumbers

LEMMA MapCommit ==
  ASSUME IInv, OnceInv, NEW f \in Filename, commit_file(f), UNCHANGED uploads,
         \A g \in Filename : Planned(g)' <=> Planned(g), SameViews
  PROVE  [Store!Next]_Store!vars
<1>1. TablesOK /\ \A g \in Filename \ {f} : files'[g] = files[g]
  BY Parts DEF commit_file, TablesOK
<1>2. \A g \in Filename \ {f} : StatusOf(g)' = StatusOf(g)
  BY <1>1, OneRow
<1>3. SameContent
  BY DEF SameContent, ContentIn, RowsOf, commit_file
<1>4. CASE Exists(f)
  <2>1. StatusOf(f) \in {"pending", "committed"} /\ StatusOf(f)' = "committed"
    <3>1. files'[f].status = "committed"
      BY <1>1, <1>4 DEF commit_file, TablesOK, Rows
    <3> QED BY <1>4, <3>1, NameFacts DEF StatusOf, Exists
  <2>2. CASE StatusOf(f) = "pending"
    BY <2>1, <2>2, <1>2, <1>3, MapPublish
  <2>3. CASE StatusOf(f) = "committed"
    <3>1. SameStatus
      BY <2>1, <2>3, <1>2 DEF SameStatus
    <3> QED BY <3>1, <1>3, Stutter
  <2> QED BY <2>1, <2>2, <2>3
<1>5. CASE ~Exists(f)
  <2>1. UNCHANGED <<dbvars, uploads>>
    BY <1>5 DEF commit_file, dbvars
  <2> QED BY <2>1, KeepTables, Stutter
<1> QED BY <1>4, <1>5

LEMMA MapCommitFile ==
  ASSUME IInv, OnceInv, NEW c \in Client, CommitFile(c)
  PROVE  [Store!Next]_Store!vars
<1>1. /\ op \in [Client -> Ops] /\ op' = [op EXCEPT ![c] = Idle] /\ UNCHANGED uploads
      /\ op[c].pc = "upload" /\ op[c].file \in Filename /\ commit_file(op[c].file)
  BY Known, Parts DEF CommitFile, AllUploaded, OpsOK
<1>2. \A g \in Filename : Planned(g)' <=> Planned(g)
  BY <1>1, KeepPlans, IdleOnce DEF Creating
<1>3. SameViews
  BY <1>1 DEF SameViews, ViewOf, Ids, Idle
<1> QED BY <1>1, <1>2, <1>3, MapCommit

LEMMA MapDelete ==
  ASSUME IInv, OnceInv, NEW f \in Filename, delete_file(f), UNCHANGED uploads,
         \A g \in Filename : Planned(g)' <=> Planned(g), SameViews
  PROVE  [Store!Next]_Store!vars
<1>1. /\ TablesOK /\ \A g \in Filename \ {f} : files'[g] = files[g]
      /\ ~Exists(f)' /\ RowsOf(f)' = {}
      /\ \A g \in Filename \ {f} : RowsOf(g)' = RowsOf(g)
  BY Parts DEF delete_file, TablesOK, Exists, NoFile, RowsOf
<1>2. \A g \in Filename \ {f} : /\ StatusOf(g)' = StatusOf(g)
                                /\ ContentIn(g)' = ContentIn(g)
  BY <1>1, OneRow DEF ContentIn
<1>3. ContentIn(f)' = {}
  BY <1>1 DEF ContentIn
<1>4. CASE Exists(f)
  <2>1. StatusOf(f) \in {"pending", "committed"} /\ StatusOf(f)' = "gone"
    BY <1>1, <1>4, NameFacts DEF StatusOf, Used, UploadNumbers
  <2> QED BY <2>1, <1>2, <1>3, MapDrop
<1>5. CASE ~Exists(f)
  <2>1. SameStatus
    BY <1>1, <1>2, <1>5 DEF SameStatus, StatusOf, Used, UploadNumbers
  <2>2. SameContent
    BY <1>2, <1>3, <1>5, NameFacts DEF SameContent, ContentIn
  <2> QED BY <2>1, <2>2, Stutter
<1> QED BY <1>4, <1>5

LEMMA MapDropMetadata ==
  ASSUME IInv, OnceInv, NEW c \in Client, DropMetadata(c)
  PROVE  [Store!Next]_Store!vars
<1>1. /\ op \in [Client -> Ops] /\ op' = [op EXCEPT ![c] = Idle] /\ UNCHANGED uploads
      /\ op[c].pc = "drop" /\ op[c].file \in Filename /\ delete_file(op[c].file)
  BY Known, Parts DEF DropMetadata, OpsOK
<1>2. \A g \in Filename : Planned(g)' <=> Planned(g)
  BY <1>1, KeepPlans, IdleOnce DEF Creating
<1>3. SameViews
  BY <1>1 DEF SameViews, ViewOf, Ids, Idle
<1> QED BY <1>1, <1>2, <1>3, MapDelete

\* No operation and no row changes: nothing a client sees.
LEMMA MapBackground ==
  ASSUME UNCHANGED <<dbvars, op, uploads>>
  PROVE  [Store!Next]_Store!vars
<1>1. \A f \in Filename : Planned(f)' <=> Planned(f)
  BY DEF Planned, Creating
<1>2. SameViews
  BY DEF SameViews, ViewOf, Ids
<1> QED BY <1>1, <1>2, KeepTables, Stutter

LEMMA MapGcDrop ==
  ASSUME IInv, OnceInv, NEW fm \in gc.found, GcDrop(fm)
  PROVE  [Store!Next]_Store!vars
<1>1. /\ fm.filename \in Filename /\ delete_file(fm.filename) /\ UNCHANGED <<op, uploads>>
  BY Parts DEF RestOK, GcPasses, GcDrop
<1>2. \A f \in Filename : Planned(f)' <=> Planned(f)
  BY <1>1 DEF Planned, Creating
<1>3. SameViews
  BY <1>1 DEF SameViews, ViewOf, Ids
<1> QED BY <1>1, <1>2, <1>3, MapDelete

\* A crash drops what was planned and forgets what was asked.
LEMMA MapNamingCrash ==
  ASSUME IInv, OnceInv, NamingCrash
  PROVE  Store!Next
<1>1. /\ op' = [c \in Client |-> IF op[c].pc \in InHandler THEN Idle ELSE op[c]]
      /\ UNCHANGED <<dbvars, uploads>> /\ op \in [Client -> Ops]
  BY Parts DEF NamingCrash, OpsOK
<1>2. \A f \in Filename : ~Planned(f)'
  BY <1>1 DEF Planned, Creating, InHandler, Idle
<1>3. \A f \in Filename :
        StatusOf(f)' = IF StatusOf(f) = "planned" THEN "gone" ELSE StatusOf(f)
  <2> SUFFICES ASSUME NEW f \in Filename
               PROVE  StatusOf(f)' = IF StatusOf(f) = "planned" THEN "gone" ELSE StatusOf(f)
    OBVIOUS
  <2>1. /\ Exists(f)' <=> Exists(f)
        /\ files'[f] = files[f]
        /\ Used(f)' <=> Used(f)
    BY <1>1 DEF Exists, Used, UploadNumbers, dbvars
  <2> QED BY <2>1, <1>2, NameFacts DEF StatusOf
<1>4. \A c \in Client : ViewOf(op[c])' = IF ViewOf(op[c]).at = "asked" THEN Store!NoView
                                         ELSE ViewOf(op[c])
  <2> SUFFICES ASSUME NEW c \in Client
               PROVE  ViewOf(op[c])' = IF ViewOf(op[c]).at = "asked" THEN Store!NoView
                                       ELSE ViewOf(op[c])
    OBVIOUS
  <2>1. CASE op[c].pc \in InHandler
    <3>1. op'[c] = Idle
      BY <1>1, <2>1
    <3> QED BY <2>1, <3>1 DEF ViewOf, Ids, InHandler, Idle, Store!NoView
  <2>2. CASE op[c].pc \notin InHandler
    <3>1. op'[c] = op[c]
      BY <1>1, <2>2
    <3> QED BY <2>2, <3>1 DEF ViewOf, Ids, InHandler
  <2> QED BY <2>1, <2>2
<1>5. SameContent
  BY <1>1 DEF SameContent, ContentIn, RowsOf, dbvars
<1>6. Store!Restart
  BY <1>3, <1>4, <1>5 DEF Store!Restart, SameContent
<1> QED BY <1>6 DEF Store!Next

\* Steps of a client that uploads or fetches.
LEMMA MapTransfer ==
  ASSUME IInv, NEW c \in Client,
         \/ PlaceChunk(c) \/ UploadAborted(c) \/ CommitTimesOut(c) \/ ClientCrash(c)
         \/ FetchFails(c) \/ ReadReturns(c)
         \/ \E a \in Address : UploadTo(c, a) \/ UploadFails(c, a)
         \/ \E m \in op[c].metas : FetchChunk(c, m)
  PROVE  [Store!Next]_Store!vars
<1>1. op[c] \in Ops /\ op \in [Client -> Ops] /\ UNCHANGED <<dbvars, uploads>>
  BY Known, Parts DEF OpsOK, PlaceChunk, UploadAborted, CommitTimesOut, ClientCrash,
     FetchFails, ReadReturns, UploadTo, UploadFails, FetchChunk
<1>2. CASE op' = [op EXCEPT ![c] = Idle] /\ op[c].pc \in {"upload", "fetch"}
  <2>1. SameStatus /\ SameContent
    BY <1>1, <1>2, IdleOnce, KeepPlans, KeepTables DEF Creating
  <2>2. \/ ViewOf(Idle) = ViewOf(op[c])
        \/ /\ ViewOf(op[c]).at = "holds"
           /\ ViewOf(Idle) = [at |-> "none", file |-> "none", data |-> {}]
    BY <1>2 DEF ViewOf, Idle
  <2> QED BY <1>1, <1>2, <2>1, <2>2, MapView
<1>3. CASE PlaceChunk(c)
  <2>1. PICK metas : op' = [op EXCEPT ![c] = [op[c] EXCEPT !.metas = metas]]
    BY <1>3 DEF PlaceChunk
  <2>2. PICK o : o = [op[c] EXCEPT !.metas = metas]
    OBVIOUS
  <2>3. o.pc = "place" /\ o.kind = op[c].kind /\ o.file = op[c].file /\ op[c].pc = "place"
    BY <1>1, <1>3, <2>2 DEF PlaceChunk, Ops
  <2> QED BY <1>1, <2>1, <2>2, <2>3, MapOp DEF Creating, ViewOf
<1>4. CASE \E a \in Address : UploadTo(c, a) \/ UploadFails(c, a)
  <2>1. PICK o : op' = [op EXCEPT ![c] = o] /\ o.pc = "upload" /\ op[c].pc = "upload"
    BY <1>1, <1>4 DEF UploadTo, UploadFails, Ops
  <2> QED BY <1>1, <2>1, MapOp DEF Creating, ViewOf
<1>5. CASE \E m \in op[c].metas : FetchChunk(c, m)
  <2>1. PICK m \in op[c].metas : FetchChunk(c, m)
    BY <1>5
  <2>2. PICK o : o = [op[c] EXCEPT !.got = @ \cup {m.chunk_id}]
    OBVIOUS
  <2>3. op' = [op EXCEPT ![c] = o] /\ op[c].pc = "fetch"
    BY <2>1, <2>2 DEF FetchChunk
  <2>4. o.pc = "fetch" /\ o.kind = op[c].kind /\ o.file = op[c].file /\ o.metas = op[c].metas
    BY <1>1, <2>2, <2>3 DEF Ops
  <2> QED BY <1>1, <2>3, <2>4, MapOp DEF Creating, ViewOf
<1> QED BY <1>2, <1>3, <1>4, <1>5
        DEF UploadAborted, CommitTimesOut, AllUploaded, ClientCrash, FetchFails, ReadReturns,
            Returned

-----------------------------------------------------------------------------
(***************************************************************************)
(* The refinement.                                                         *)
(***************************************************************************)

LEMMA MapInit ==
  ASSUME Init
  PROVE  Store!Init
<1>1. UploadNumbers = {} /\ \A c \in Client : op[c] = Idle
  BY LenProperties DEF Init, UploadNumbers
<1>2. \A f \in Filename : StatusOf(f) = "unused" /\ ContentIn(f) = {}
  BY <1>1 DEF Init, StatusOf, Exists, NoFile, Planned, Creating, Idle, Used, ContentIn, RowsOf
<1>3. \A c \in Client : ViewOf(op[c]) = Store!NoView
  BY <1>1 DEF ViewOf, Idle, Store!NoView
<1> QED BY <1>2, <1>3 DEF Store!Init

LEMMA MapStep ==
  ASSUME ~Reuse, IInv, OnceInv, [Next]_vars
  PROVE  [Store!Next]_Store!vars
<1>1. ASSUME NEW c \in Client, ClientStep(c)
      PROVE  [Store!Next]_Store!vars
  <2>1. ~SelectOldChunks(c)
    BY <1>1 DEF SelectOldChunks, OnceInv, OnceOp, Fresh, Creating
  <2>2. CASE \E f \in Filename, n \in ChunkCounts : StartCreate(c, f, n)
    BY <2>2, MapStartCreate
  <2>3. CASE \E f \in Filename : StartRead(c, f) \/ StartDelete(c, f)
    BY <2>3, MapStartCall
  <2> QED BY <1>1, <2>1, <2>2, <2>3, MapSelectRow, MapSelectPlacements, MapPlaceRejected,
             MapWritePending, MapCommitFile, MapDropMetadata, MapTransfer DEF ClientStep
<1>2. ASSUME GcStep PROVE [Store!Next]_Store!vars
  <2>1. CASE \E fm \in gc.found : GcDrop(fm)
    BY <2>1, MapGcDrop
  <2>2. CASE ~\E fm \in gc.found : GcDrop(fm)
    <3>1. UNCHANGED <<dbvars, op, uploads>>
      BY <1>2, <2>2 DEF GcStep, GcSelectRow, GcSelectChunks, GcListed, GcDelete, GcDone
    <3> QED BY <3>1, MapBackground
  <2> QED BY <2>1, <2>2
<1>3. ASSUME NEW f \in Filename, LateCommitFile(f) PROVE [Store!Next]_Store!vars
  <2>1. commit_file(f) /\ UNCHANGED <<op, uploads>>
    BY <1>3 DEF LateCommitFile
  <2>2. SameViews /\ \A g \in Filename : Planned(g)' <=> Planned(g)
    BY <2>1 DEF SameViews, ViewOf, Ids, Planned, Creating
  <2> QED BY <2>1, <2>2, MapCommit
<1>4. ASSUME \/ \E d \in deletes : RunDelete(d[1], d[2])
             \/ \E S \in SUBSET Filename : GcList(S)
             \/ UNCHANGED vars
      PROVE  [Store!Next]_Store!vars
  <2>1. UNCHANGED <<dbvars, op, uploads>>
    BY <1>4 DEF RunDelete, GcList, vars, dbvars
  <2> QED BY <2>1, MapBackground
<1> QED BY <1>1, <1>2, <1>3, <1>4, MapNamingCrash DEF Next

\* With names that are used once, the naming server, its tables, background
\* threads and crashes implement FileStore, for any number of clients,
\* names, servers, chunks and crashes (CreateFile, CommitFile, GetFile,
\* DeleteFile, the cleanup thread).
THEOREM FileOpsImplementsFileStore ==
  ASSUME ~Reuse
  PROVE  Spec => ImplementsFileStore
<1>1. Init => Store!Init
  BY MapInit
<1>2. IInv /\ OnceInv /\ [Next]_vars => [Store!Next]_Store!vars
  BY MapStep
<1> QED BY <1>1, <1>2, OnceInvariance, PTL DEF Spec, Store!Spec, ImplementsFileStore

-----------------------------------------------------------------------------
(***************************************************************************)
(* Names that are used again: FileMap.  Only the rows count, so the type   *)
(* and table invariants are all it takes.                                  *)
(***************************************************************************)

SameMap == \A f \in Filename : files'[f].status = files[f].status /\ ContentIn(f)' = ContentIn(f)

LEMMA SameTablesSameMap ==
  ASSUME UNCHANGED dbvars
  PROVE  SameMap
BY DEF SameMap, ContentIn, RowsOf, dbvars

LEMMA StutterInMap ==
  ASSUME SameMap, SameViews
  PROVE  UNCHANGED Map!vars
BY DEF SameMap, SameViews, Map!vars

\* The view of c alone changes.
LEMMA ViewInMap ==
  ASSUME NEW c \in Client, NEW o, op \in [Client -> Ops], op' = [op EXCEPT ![c] = o],
         UNCHANGED dbvars,
         \/ ViewOf(o) = ViewOf(op[c])
         \/ \E f \in Filename : /\ ViewOf(op[c]).at = "none" /\ files[f].status = "committed"
                                /\ ViewOf(o) = [at |-> "asked", file |-> f, data |-> {}]
         \/ \E f \in Filename : /\ ViewOf(op[c]).at = "asked" /\ ViewOf(op[c]).file = f
                                /\ ViewOf(o) = [at |-> "holds", file |-> f,
                                                data |-> ContentIn(f)]
         \/ /\ ViewOf(op[c]).at = "holds"
            /\ ViewOf(o) = [at |-> "none", file |-> "none", data |-> {}]
  PROVE  [Map!Next]_Map!vars
<1>1. \A d \in Client : ViewOf(op[d])' = IF d = c THEN ViewOf(o) ELSE ViewOf(op[d])
  BY DEF ViewOf, Ids
<1>2. SameMap /\ UNCHANGED Map!filevars
  BY SameTablesSameMap DEF SameMap, Map!filevars
<1>3. CASE ViewOf(o) = ViewOf(op[c])
  <2>1. SameViews
    BY <1>1, <1>3 DEF SameViews
  <2> QED BY <1>2, <2>1, StutterInMap
<1>4. ASSUME NEW f \in Filename, ViewOf(op[c]).at = "none", files[f].status = "committed",
             ViewOf(o) = [at |-> "asked", file |-> f, data |-> {}]
      PROVE  Map!Next
  <2>1. Map!Ask(c, f)
    BY <1>1, <1>2, <1>4 DEF Map!Ask, Map!Asked
  <2> QED BY <2>1 DEF Map!Next
<1>5. ASSUME NEW f \in Filename, ViewOf(op[c]).at = "asked", ViewOf(op[c]).file = f,
             ViewOf(o) = [at |-> "holds", file |-> f, data |-> ContentIn(f)]
      PROVE  Map!Next
  <2>1. Map!Look(c)
    BY <1>1, <1>2, <1>5 DEF Map!Look, Map!Holds
  <2> QED BY <2>1 DEF Map!Next
<1>6. ASSUME ViewOf(op[c]).at = "holds",
             ViewOf(o) = [at |-> "none", file |-> "none", data |-> {}]
      PROVE  Map!Next
  <2>1. Map!Finish(c)
    BY <1>1, <1>2, <1>6 DEF Map!Finish, Map!NoView
  <2> QED BY <2>1 DEF Map!Next
<1> QED BY <1>3, <1>4, <1>5, <1>6

\* Calls begin, place and upload: no row and no view changes.
LEMMA CallInMap ==
  ASSUME IInv, NEW c \in Client,
         \/ \E f \in Filename, n \in ChunkCounts : StartCreate(c, f, n)
         \/ \E f \in Filename : StartRead(c, f) \/ StartDelete(c, f)
         \/ SelectOldChunks(c) \/ PlaceChunk(c) \/ PlaceRejected(c)
         \/ \E a \in Address : UploadTo(c, a) \/ UploadFails(c, a)
         \/ UploadAborted(c) \/ CommitTimesOut(c)
  PROVE  [Map!Next]_Map!vars
<1>1. op[c] \in Ops /\ op \in [Client -> Ops]
  BY Known, Parts DEF OpsOK
<1>2. CASE \/ \E f \in Filename, n \in ChunkCounts : StartCreate(c, f, n)
           \/ \E f \in Filename : StartRead(c, f) \/ StartDelete(c, f)
  <2>1. PICK o : /\ op' = [op EXCEPT ![c] = o] /\ o.pc = "select_row"
                 /\ op[c].pc = "idle" /\ UNCHANGED dbvars
    BY <1>2 DEF StartCreate, StartRead, StartDelete, Idle
  <2> QED BY <1>1, <2>1, ViewInMap DEF ViewOf
<1>3. CASE SelectOldChunks(c)
  <2>1. PICK o : o = [op[c] EXCEPT !.pc = "place", !.row = NoFile]
    OBVIOUS
  <2>2. /\ op' = [op EXCEPT ![c] = o] /\ o.pc = "place" /\ op[c].pc = "select_chunks"
        /\ op[c].kind = "create" /\ UNCHANGED dbvars
    BY <1>1, <1>3, <2>1 DEF SelectOldChunks, Ops
  <2> QED BY <1>1, <2>2, ViewInMap DEF ViewOf
<1>4. CASE PlaceChunk(c)
  <2>1. PICK metas : op' = [op EXCEPT ![c] = [op[c] EXCEPT !.metas = metas]]
    BY <1>4 DEF PlaceChunk
  <2>2. PICK o : o = [op[c] EXCEPT !.metas = metas]
    OBVIOUS
  <2>3. o.pc = "place" /\ op[c].pc = "place" /\ UNCHANGED dbvars
    BY <1>1, <1>4, <2>2 DEF PlaceChunk, Ops
  <2> QED BY <1>1, <2>1, <2>2, <2>3, ViewInMap DEF ViewOf
<1>5. CASE \E a \in Address : UploadTo(c, a) \/ UploadFails(c, a)
  <2>1. PICK o : /\ op' = [op EXCEPT ![c] = o] /\ o.pc = "upload" /\ op[c].pc = "upload"
                 /\ UNCHANGED dbvars
    BY <1>1, <1>5 DEF UploadTo, UploadFails, Ops
  <2> QED BY <1>1, <2>1, ViewInMap DEF ViewOf
<1>6. CASE PlaceRejected(c) \/ UploadAborted(c) \/ CommitTimesOut(c)
  <2>1. /\ op' = [op EXCEPT ![c] = Idle] /\ op[c].pc \in {"place", "upload"}
        /\ UNCHANGED dbvars
    BY <1>6 DEF PlaceRejected, UploadAborted, CommitTimesOut, AllUploaded
  <2> QED BY <1>1, <2>1, ViewInMap DEF ViewOf, Idle
<1> QED BY <1>2, <1>3, <1>4, <1>5, <1>6

\* The steps of get_file and of a read.
LEMMA ReadInMap ==
  ASSUME IInv, NEW c \in Client,
         \/ SelectRow(c) \/ SelectPlacements(c) \/ ClientCrash(c)
         \/ \E m \in op[c].metas : FetchChunk(c, m)
         \/ FetchFails(c) \/ ReadReturns(c)
  PROVE  [Map!Next]_Map!vars
<1>1. op[c] \in Ops /\ op \in [Client -> Ops] /\ UNCHANGED dbvars
  BY Known, Parts DEF OpsOK, SelectRow, SelectPlacements, ClientCrash, FetchChunk, FetchFails,
     ReadReturns
<1>2. CASE SelectRow(c) /\ Wanted(c)
  <2>1. PICK o : o = [op[c] EXCEPT !.pc = "select_chunks", !.row = files[op[c].file]]
    OBVIOUS
  <2>2. op' = [op EXCEPT ![c] = o]
    BY <1>2, <2>1 DEF SelectRow
  <2>3. /\ o.pc = "select_chunks" /\ o.kind = op[c].kind /\ o.file = op[c].file
        /\ op[c].pc = "select_row" /\ op[c].file \in Filename
    BY <1>1, <1>2, <2>1, Known DEF SelectRow, Ops
  <2>4. ViewOf(op[c]).at = "none"
    BY <2>3 DEF ViewOf
  <2>5. CASE op[c].kind = "read"
    <3>1. files[op[c].file].status = "committed"
      BY <1>2, <2>5 DEF Wanted
    <3>2. ViewOf(o) = [at |-> "asked", file |-> op[c].file, data |-> {}]
      BY <2>3, <2>5 DEF ViewOf
    <3> QED BY <1>1, <2>2, <2>3, <2>4, <3>1, <3>2, ViewInMap
  <2>6. CASE op[c].kind # "read"
    <3>1. ViewOf(o) = ViewOf(op[c])
      BY <2>3, <2>6 DEF ViewOf
    <3> QED BY <1>1, <2>2, <3>1, ViewInMap
  <2> QED BY <2>5, <2>6
<1>3. CASE SelectRow(c) /\ ~Wanted(c)
  <2>1. PICK o : op' = [op EXCEPT ![c] = o] /\ o.pc \in {"idle", "place"} /\ op[c].pc = "select_row"
    BY <1>1, <1>3 DEF SelectRow, Ops, Idle
  <2> QED BY <1>1, <2>1, ViewInMap DEF ViewOf
<1>4. CASE SelectPlacements(c)
  <2>named. PICK metas : metas = get_file_chunks(op[c].file)
    OBVIOUS
  <2>1. PICK o : o = [op[c] EXCEPT !.pc = IF op[c].kind = "read" THEN "fetch" ELSE "drop",
                                   !.metas = metas]
    OBVIOUS
  <2>2. op' = [op EXCEPT ![c] = o]
    BY <1>4, <2>1, <2>named DEF SelectPlacements
  <2>3. /\ o.pc = IF op[c].kind = "read" THEN "fetch" ELSE "drop"
        /\ o.kind = op[c].kind /\ o.file = op[c].file /\ o.metas = metas
        /\ op[c].pc = "select_chunks" /\ op[c].file \in Filename
    BY <1>1, <1>4, <2>1, Known DEF Ops, SelectPlacements
  <2>4. CASE op[c].kind = "read"
    <3>1. ViewOf(o) = [at |-> "holds", file |-> op[c].file, data |-> ContentIn(op[c].file)]
      BY <2>named, <2>3, <2>4, ListedContent DEF ViewOf
    <3>2. ViewOf(op[c]).at = "asked" /\ ViewOf(op[c]).file = op[c].file
      BY <2>3, <2>4 DEF ViewOf
    <3> QED BY <1>1, <2>2, <2>3, <3>1, <3>2, ViewInMap
  <2>5. CASE op[c].kind # "read"
    <3>1. ViewOf(o) = ViewOf(op[c])
      BY <2>3, <2>5 DEF ViewOf
    <3> QED BY <1>1, <2>2, <3>1, ViewInMap
  <2> QED BY <2>4, <2>5
<1>5. CASE \E m \in op[c].metas : FetchChunk(c, m)
  <2>1. PICK m \in op[c].metas : FetchChunk(c, m)
    BY <1>5
  <2>2. PICK o : o = [op[c] EXCEPT !.got = @ \cup {m.chunk_id}]
    OBVIOUS
  <2>3. op' = [op EXCEPT ![c] = o] /\ op[c].pc = "fetch"
    BY <2>1, <2>2 DEF FetchChunk
  <2>4. o.pc = "fetch" /\ o.file = op[c].file /\ o.metas = op[c].metas
    BY <1>1, <2>2, <2>3 DEF Ops
  <2> QED BY <1>1, <2>3, <2>4, ViewInMap DEF ViewOf
<1>6. CASE ClientCrash(c) \/ FetchFails(c) \/ ReadReturns(c)
  <2>1. op' = [op EXCEPT ![c] = Idle] /\ op[c].pc \in {"upload", "fetch"}
    BY <1>6 DEF ClientCrash, FetchFails, ReadReturns, Returned
  <2>2. \/ ViewOf(Idle) = ViewOf(op[c])
        \/ /\ ViewOf(op[c]).at = "holds"
           /\ ViewOf(Idle) = [at |-> "none", file |-> "none", data |-> {}]
    BY <2>1 DEF ViewOf, Idle
  <2> QED BY <1>1, <2>1, <2>2, ViewInMap
<1> QED BY <1>2, <1>3, <1>4, <1>5, <1>6

\* The rows that a call writes replace what its name held.
LEMMA WriteInMap ==
  ASSUME IInv, Len(uploads) <= MaxUploads, NEW c \in Client, WritePending(c)
  PROVE  Map!Next
<1>named. PICK f, u, metas : f = op[c].file /\ u = op[c].upload /\ metas = op[c].metas
  OBVIOUS
<1>1. /\ op[c] \in Ops /\ op[c].pc = "place" /\ op \in [Client -> Ops] /\ UNCHANGED uploads
      /\ f \in Filename /\ u \in UploadNumbers /\ RestOK /\ TablesOK /\ MetadataConsistent
      /\ create_pending(f, Asked(c), u, metas)
  BY <1>named, Known, Parts DEF WritePending, OpsOK, OpOK
<1>2. PICK o : o = [op[c] EXCEPT !.pc = "upload", !.todo = UNION {m.locations : m \in metas}]
  OBVIOUS
<1>3. op' = [op EXCEPT ![c] = o] /\ o.pc = "upload"
  BY <1>1, <1>2, <1>named DEF WritePending, Ops
<1>4. /\ \A g \in Filename \ {f} : RowsOf(g)' = RowsOf(g) /\ files'[g] = files[g]
      /\ files'[f].status = "pending" /\ files'[f].created_at = u
  BY <1>1 DEF create_pending, TablesOK, RowsOf
<1>5. PICK d : d = ContentIn(f)'
  OBVIOUS
<1>6. d \in WholeUploads
  <2>1. MetadataConsistent'
    BY StepWritePending DEF IInv
  <2>2. WrittenBy(f, u)'
    BY <1>1, <1>4, <2>1 DEF MetadataConsistent, Exists
  <2> QED BY <1>1, <1>5, <2>2, WholeContent
<1>7. SameViews
  BY <1>1, <1>3 DEF SameViews, ViewOf, Ids
<1>8. Map!Write(f, d)
  BY <1>1, <1>4, <1>5, <1>7 DEF Map!Write, SameViews, ContentIn
<1> QED BY <1>1, <1>6, <1>8 DEF Map!Next

LEMMA CommitInMap ==
  ASSUME IInv, NEW f \in Filename, commit_file(f), SameViews
  PROVE  [Map!Next]_Map!vars
<1>1. /\ files \in [Filename -> Rows] /\ \A g \in Filename : ContentIn(g)' = ContentIn(g)
      /\ \A g \in Filename \ {f} : files'[g] = files[g]
  BY Parts DEF commit_file, TablesOK, ContentIn, RowsOf
<1>2. CASE files[f].status = "pending"
  <2>1. files'[f].status = "committed"
    BY <1>1, <1>2 DEF commit_file, Exists, Rows
  <2>2. Map!Publish(f)
    BY <1>1, <1>2, <2>1 DEF Map!Publish, SameViews
  <2> QED BY <2>2 DEF Map!Next
<1>3. CASE files[f].status # "pending"
  <2>1. files'[f].status = files[f].status
    BY <1>1, <1>3 DEF commit_file, Exists, Rows
  <2>2. SameMap
    BY <1>1, <2>1 DEF SameMap
  <2> QED BY <2>2, StutterInMap
<1> QED BY <1>2, <1>3

LEMMA DeleteInMap ==
  ASSUME IInv, NEW f \in Filename, delete_file(f), SameViews
  PROVE  [Map!Next]_Map!vars
<1>1. /\ files \in [Filename -> Rows] /\ files'[f].status = "none" /\ ContentIn(f)' = {}
      /\ \A g \in Filename \ {f} : files'[g] = files[g] /\ ContentIn(g)' = ContentIn(g)
  <2>1. files \in [Filename -> Rows]
    BY Parts DEF TablesOK
  <2>2. RowsOf(f)' = {} /\ \A g \in Filename \ {f} : RowsOf(g)' = RowsOf(g)
    BY DEF delete_file, RowsOf
  <2> QED BY <2>1, <2>2 DEF delete_file, NoFile, ContentIn
<1>2. CASE Exists(f)
  <2>1. Map!Drop(f)
    BY <1>1, <1>2 DEF Map!Drop, SameViews, Exists
  <2> QED BY <2>1 DEF Map!Next
<1>3. CASE ~Exists(f)
  <2>1. RowsOf(f) = {}
    BY <1>3, Parts DEF MetadataConsistent
  <2>2. SameMap
    BY <1>1, <1>3, <2>1 DEF SameMap, Exists, ContentIn
  <2> QED BY <2>2, StutterInMap
<1> QED BY <1>2, <1>3

LEMMA CrashInMap ==
  ASSUME IInv, NamingCrash
  PROVE  Map!Next
<1>1. /\ op' = [c \in Client |-> IF op[c].pc \in InHandler THEN Idle ELSE op[c]]
      /\ UNCHANGED dbvars
  BY DEF NamingCrash
<1>2. ASSUME NEW c \in Client
      PROVE  ViewOf(op[c])' = IF ViewOf(op[c]).at = "asked" THEN Map!NoView ELSE ViewOf(op[c])
  <2>1. CASE op[c].pc \in InHandler
    <3>1. op'[c] = Idle
      BY <1>1, <2>1
    <3> QED BY <2>1, <3>1 DEF ViewOf, Ids, InHandler, Idle, Map!NoView
  <2>2. CASE op[c].pc \notin InHandler
    <3>1. op'[c] = op[c]
      BY <1>1, <2>2
    <3> QED BY <2>2, <3>1 DEF ViewOf, Ids, InHandler
  <2> QED BY <2>1, <2>2
<1>3. Map!Restart
  BY <1>1, <1>2, SameTablesSameMap DEF Map!Restart, Map!filevars, SameMap
<1> QED BY <1>3 DEF Map!Next

LEMMA StepInMap ==
  ASSUME IInv, Len(uploads) <= MaxUploads, [Next]_vars
  PROVE  [Map!Next]_Map!vars
<1>1. ASSUME UNCHANGED <<dbvars, op>> PROVE [Map!Next]_Map!vars
  BY <1>1, SameTablesSameMap, StutterInMap DEF SameViews, ViewOf, Ids
<1>2. ASSUME NEW c \in Client, ClientStep(c) PROVE [Map!Next]_Map!vars
  <2>1. op \in [Client -> Ops]
    BY Parts DEF OpsOK
  <2>2. CASE CommitFile(c) \/ DropMetadata(c)
    <3>1. /\ op' = [op EXCEPT ![c] = Idle] /\ op[c].pc \in {"upload", "drop"}
          /\ op[c].file \in Filename
      BY <2>2, Known DEF CommitFile, AllUploaded, DropMetadata
    <3>2. SameViews
      BY <2>1, <3>1 DEF SameViews, ViewOf, Ids, Idle
    <3> QED BY <2>2, <3>1, <3>2, CommitInMap, DeleteInMap DEF CommitFile, DropMetadata
  <2> QED BY <1>2, <2>2, CallInMap, ReadInMap, WriteInMap DEF ClientStep
<1>3. ASSUME GcStep PROVE [Map!Next]_Map!vars
  <2>1. ASSUME NEW fm \in gc.found, GcDrop(fm) PROVE [Map!Next]_Map!vars
    <3>1. fm.filename \in Filename /\ delete_file(fm.filename) /\ op' = op
      BY <2>1, Parts DEF GcDrop, RestOK, GcPasses
    <3> QED BY <3>1, DeleteInMap DEF SameViews, ViewOf, Ids
  <2> QED BY <1>1, <1>3, <2>1
          DEF GcStep, GcSelectRow, GcSelectChunks, GcListed, GcDelete, GcDone
<1>4. ASSUME NEW f \in Filename, LateCommitFile(f) PROVE [Map!Next]_Map!vars
  BY <1>4, CommitInMap DEF LateCommitFile, SameViews, ViewOf, Ids
<1>5. CASE \/ \E d \in deletes : RunDelete(d[1], d[2])
           \/ \E S \in SUBSET Filename : GcList(S)
           \/ UNCHANGED vars
  BY <1>1, <1>5 DEF RunDelete, GcList, vars, dbvars
<1> QED BY <1>2, <1>3, <1>4, <1>5, CrashInMap DEF Next

UploadsBounded == Len(uploads) <= MaxUploads

\* For any clients, names, servers, numbers of chunks, uploads and crashes,
\* and with names written again while others read and delete them, FileOps
\* implements FileMap (CreateFile, CommitFile, GetFile, DeleteFile, the
\* cleanup thread).
THEOREM FileOpsImplementsFileMap == Spec => ImplementsFileMap
<1>1. Init => Map!Init /\ UploadsBounded
  <2> SUFFICES ASSUME Init PROVE Map!Init /\ UploadsBounded
    OBVIOUS
  <2>1. UploadsBounded
    BY BoundAssumption, LenProperties DEF Init, UploadsBounded
  <2>2. \A f \in Filename : files[f].status = "none" /\ ContentIn(f) = {}
    BY DEF Init, NoFile, ContentIn, RowsOf
  <2>3. \A c \in Client : ViewOf(op[c]) = Map!NoView
    BY DEF Init, ViewOf, Idle, Map!NoView
  <2> QED BY <2>1, <2>2, <2>3 DEF Map!Init
<1>2. IInv /\ UploadsBounded /\ [Next]_vars => UploadsBounded'
  <2> SUFFICES ASSUME IInv, Len(uploads) <= MaxUploads, [Next]_vars
               PROVE  Len(uploads') <= MaxUploads
    BY DEF UploadsBounded
  <2>1. ASSUME NEW c \in Client, NEW f \in Filename, NEW n \in ChunkCounts, StartCreate(c, f, n)
        PROVE  Len(uploads') <= MaxUploads
    <3>1. PICK e : e = [filename |-> f, num_chunks |-> n]
      OBVIOUS
    <3>2. /\ Len(uploads) \in Nat /\ Len(uploads') = Len(uploads) + 1
          /\ Len(uploads) < MaxUploads
      BY <2>1, <3>1, Grow, Parts DEF StartCreate
    <3> QED BY <3>2, BoundAssumption
  <2>2. CASE uploads' = uploads
    BY <2>2
  <2> QED BY <2>1, <2>2
          DEF Next, ClientStep, StartRead, StartDelete, SelectRow, SelectOldChunks,
              SelectPlacements, PlaceChunk, PlaceRejected, WritePending, UploadTo,
              UploadFails, UploadAborted, CommitFile, CommitTimesOut, ClientCrash,
              DropMetadata, FetchChunk, FetchFails, ReadReturns, LateCommitFile, RunDelete,
              GcList, GcStep, GcSelectRow, GcSelectChunks, GcListed, GcDrop, GcDelete,
              GcDone, NamingCrash, vars
<1>3. IInv /\ UploadsBounded /\ [Next]_vars => [Map!Next]_Map!vars
  BY StepInMap DEF UploadsBounded
<1> QED BY <1>1, <1>2, <1>3, Invariance, PTL DEF Spec, Map!Spec, ImplementsFileMap

=============================================================================
