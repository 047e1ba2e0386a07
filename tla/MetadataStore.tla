---------------------------- MODULE MetadataStore ----------------------------
(***************************************************************************)
(* The naming server's durable metadata, gfs/naming_server/metadata.py:    *)
(* three SQLite tables,                                                    *)
(*                                                                         *)
(*   files     filename -> [status, num_chunks, created_at]                *)
(*   chunks    rows [chunk_id, filename, idx]                              *)
(*   replicas  rows <<chunk_id, address>>                                  *)
(*                                                                         *)
(* Every write method is one transaction under _write_lock, hence one      *)
(* atomic action here.  A read takes no lock: each SELECT statement sees   *)
(* one snapshot, and get_file runs two of them, so the modules that extend *)
(* this one give its two SELECTs a step each.  The byte size of a file is  *)
(* abstracted to its number of chunks, and a creation time to the number   *)
(* of the CreateFile call that wrote the row.                              *)
(***************************************************************************)
EXTENDS Naturals, FiniteSets

CONSTANTS Filename,   \* the file names clients use
          Address     \* the addresses storage servers advertise

VARIABLES files, chunks, replicas

dbvars == <<files, chunks, replicas>>

\* What get_file's first SELECT finds when there is no row for the name.
NoFile == [status |-> "none", num_chunks |-> 0, created_at |-> 0]

Exists(f) == files[f].status # "none"

RowsOf(f) == {c \in chunks : c.filename = f}

Locations(id) == {a \in Address : <<id, a>> \in replicas}

\* get_file's second SELECT: the chunks of f joined with their replicas.
get_file_chunks(f) ==
  {[chunk_id |-> c.chunk_id, index |-> c.idx,
    locations |-> Locations(c.chunk_id)] : c \in RowsOf(f)}

\* The replica rows ON DELETE CASCADE keeps when the row of f is deleted.
Mut_KeepAllReplicas(f) == replicas
ReplicasWithout(f) ==
  {r \in replicas : r[1] \notin {c.chunk_id : c \in RowsOf(f)}}

-----------------------------------------------------------------------------
(***************************************************************************)
(* The write methods.                                                      *)
(***************************************************************************)

\* Replace whatever is known of f by a pending file made of the chunks
\* metas, a set of [chunk_id, index, locations] (the class ChunkMeta).
Mut_create_pending(f, n, t, metas) ==
  /\ files' = [files EXCEPT ![f] = [status |-> IF Exists(f) THEN @.status ELSE "pending",
                                    num_chunks |-> n, created_at |-> t]]
  /\ chunks' = (chunks \ RowsOf(f)) \cup
               {[chunk_id |-> m.chunk_id, filename |-> f, idx |-> m.index]
                  : m \in metas}
  /\ replicas' = ReplicasWithout(f) \cup
                 UNION {{m.chunk_id} \X m.locations : m \in metas}
create_pending(f, n, t, metas) ==
  /\ files' = [files EXCEPT ![f] = [status |-> "pending", num_chunks |-> n,
                                    created_at |-> t]]
  /\ chunks' = (chunks \ RowsOf(f)) \cup
               {[chunk_id |-> m.chunk_id, filename |-> f, idx |-> m.index]
                  : m \in metas}
  /\ replicas' = ReplicasWithout(f) \cup
                 UNION {{m.chunk_id} \X m.locations : m \in metas}

\* UPDATE ... WHERE filename = f: no effect when there is no such row, and
\* no regard for which CreateFile call wrote the row.
Mut_commit_file(f) ==
  /\ files' = [files EXCEPT ![f].status = "committed"]
  /\ UNCHANGED <<chunks, replicas>>
commit_file(f) ==
  /\ files' = IF Exists(f) THEN [files EXCEPT ![f].status = "committed"]
                           ELSE files
  /\ UNCHANGED <<chunks, replicas>>

Mut_delete_file(f) ==
  /\ files' = [files EXCEPT ![f] = NoFile]
  /\ UNCHANGED <<chunks, replicas>>
delete_file(f) ==
  /\ files' = [files EXCEPT ![f] = NoFile]
  /\ chunks' = chunks \ RowsOf(f)
  /\ replicas' = ReplicasWithout(f)

\* INSERT OR IGNORE.  The foreign key is checked all the same: the row of a
\* chunk that is gone raises IntegrityError, which the caller has to handle.
ChunkExists(id) == \E c \in chunks : c.chunk_id = id

Mut_add_replica(id, a) ==
  /\ replicas' = replicas \cup {<<id, a>>}
  /\ UNCHANGED <<files, chunks>>
add_replica(id, a) ==
  /\ ChunkExists(id)
  /\ replicas' = replicas \cup {<<id, a>>}
  /\ UNCHANGED <<files, chunks>>

remove_replica(id, a) ==
  /\ replicas' = replicas \ {<<id, a>>}
  /\ UNCHANGED <<files, chunks>>

-----------------------------------------------------------------------------
(***************************************************************************)
(* The aggregate reads of self-healing and of the startup scrub.           *)
(***************************************************************************)

CommittedChunks == {c \in chunks : files[c.filename].status = "committed"}

\* Each chunk comes with all its known replicas, live or not.
under_replicated_chunks(live, R) ==
  {[chunk_id |-> c.chunk_id, index |-> c.idx,
    locations |-> Locations(c.chunk_id)]
     : c \in {d \in CommittedChunks :
                Cardinality(Locations(d.chunk_id) \cap live) < R}}

known_replica_addresses == UNION {Locations(c.chunk_id) : c \in CommittedChunks}

\* Of every replica row, whatever the status of its file.
list_chunk_ids_for(a) == {id \in {c.chunk_id : c \in chunks} : <<id, a>> \in replicas}

=============================================================================
