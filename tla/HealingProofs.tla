---------------------------- MODULE HealingProofs ----------------------------
(***************************************************************************)
(* Proofs about Healing, for any number of servers, files and faults: no   *)
(* replica row without a chunk, and the types, with what the local         *)
(* variables of heal_once know of each other.                              *)
(***************************************************************************)
EXTENDS Healing, FiniteSetTheorems, TLAPS

-----------------------------------------------------------------------------
(***************************************************************************)
(* No dangling replica rows.                                               *)
(***************************************************************************)

LEMMA CreateDangling ==
  ASSUME NoDanglingReplicas, NEW f, NEW n, NEW t, NEW metas,
         create_pending(f, n, t, metas)
  PROVE  NoDanglingReplicas'
<1> SUFFICES ASSUME NEW r \in replicas' PROVE ChunkExists(r[1])'
  BY DEF NoDanglingReplicas
<1>1. CASE r \in ReplicasWithout(f)
  <2>1. PICK c \in chunks : c.chunk_id = r[1]
    BY <1>1 DEF ReplicasWithout, NoDanglingReplicas, ChunkExists
  <2>2. c \notin RowsOf(f)
    BY <1>1, <2>1 DEF ReplicasWithout
  <2> QED
    BY <2>1, <2>2 DEF create_pending, ChunkExists
<1>2. ASSUME NEW m \in metas, r \in {m.chunk_id} \X m.locations
      PROVE  ChunkExists(r[1])'
  <2> DEFINE c == [chunk_id |-> m.chunk_id, filename |-> f, idx |-> m.index]
  <2>1. c \in chunks' /\ c.chunk_id = r[1]
    BY <1>2 DEF create_pending
  <2> QED
    BY <2>1 DEF ChunkExists
<1> QED
  BY <1>1, <1>2 DEF create_pending

LEMMA DeleteDangling ==
  ASSUME NoDanglingReplicas, NEW f, delete_file(f)
  PROVE  NoDanglingReplicas'
<1> SUFFICES ASSUME NEW r \in replicas' PROVE ChunkExists(r[1])'
  BY DEF NoDanglingReplicas
<1>1. r \in ReplicasWithout(f)
  BY DEF delete_file
<1>2. PICK c \in chunks : c.chunk_id = r[1]
  BY <1>1 DEF ReplicasWithout, NoDanglingReplicas, ChunkExists
<1>3. c \notin RowsOf(f)
  BY <1>1, <1>2 DEF ReplicasWithout
<1> QED
  BY <1>2, <1>3 DEF delete_file, ChunkExists

LEMMA HealDangling == NoDanglingReplicas /\ HealStep => NoDanglingReplicas'
<1> SUFFICES ASSUME NoDanglingReplicas, HealStep PROVE NoDanglingReplicas'
  OBVIOUS
<1>1. CASE HealAdd
  BY <1>1 DEF HealAdd, add_replica, NoDanglingReplicas, ChunkExists
<1>2. ASSUME NEW a \in heal.stale, HealDrop(a) PROVE NoDanglingReplicas'
  BY <1>2 DEF HealDrop, remove_replica, NoDanglingReplicas, ChunkExists
<1>3. CASE UNCHANGED dbvars
  BY <1>3 DEF dbvars, NoDanglingReplicas, ChunkExists
<1>4. HealAdd \/ (\E a \in heal.stale : HealDrop(a)) \/ UNCHANGED dbvars
  BY DEF HealStep, HealCount, HealPick, HealKnown, HealSelect, HealChunk,
         HealCopy, HealCopyFails, HealAddRaises, HealChunkDone, HealDone
<1> QED
  BY <1>1, <1>2, <1>3, <1>4

LEMMA NextDangling ==
  NoDanglingReplicas /\ [Next]_vars => NoDanglingReplicas'
<1> SUFFICES ASSUME NoDanglingReplicas, [Next]_vars PROVE NoDanglingReplicas'
  OBVIOUS
<1>1. CASE UNCHANGED dbvars
  BY <1>1 DEF dbvars, NoDanglingReplicas, ChunkExists
<1>2. ASSUME NEW f \in Filename, NEW locs \in SUBSET live, CreateFile(f, locs)
      PROVE  NoDanglingReplicas'
  BY <1>2, CreateDangling DEF CreateFile
<1>3. ASSUME NEW f \in Filename, CommitFile(f) PROVE NoDanglingReplicas'
  BY <1>3 DEF CommitFile, commit_file, NoDanglingReplicas, ChunkExists
<1>4. ASSUME NEW f \in Filename, DeleteFile(f) PROVE NoDanglingReplicas'
  BY <1>4, DeleteDangling DEF DeleteFile
<1>5. CASE \/ \E f \in Filename : \E a \in todo[f] : StoreChunks(f, a)
           \/ \E d \in deletes : DeleteChunk(d[1], d[2])
           \/ \E a \in Address : ServerStep(a)
           \/ NamingCrash
           \/ UNCHANGED vars
  <2>1. UNCHANGED dbvars
    BY <1>5 DEF dbvars, vars, StoreChunks, DeleteChunk, ServerStep, mark_alive,
       Expire, ServerStops, DiskLost, ServerStarts, ScrubAsk, ScrubSkipped,
       ScrubList, ScrubRemove, NamingCrash
  <2> QED
    BY <1>1, <2>1
<1> QED
  BY <1>2, <1>3, <1>4, <1>5, HealDangling DEF Next, FileStep

\* The table of replicas never has a row for a chunk that is not there,
\* whatever is deleted while healing copies it (heal_once, add_replica,
\* delete_file).
THEOREM NoRowDangles == Spec => []NoDanglingReplicas
<1>1. Init => NoDanglingReplicas
  BY DEF Init, NoDanglingReplicas
<1> QED
  BY <1>1, NextDangling, PTL DEF Spec

-----------------------------------------------------------------------------
(***************************************************************************)
(* Types.  TypeOK in four parts, none of which needs the others to be      *)
(* preserved, except that heal_once reads the tables.                      *)
(***************************************************************************)
TablesOK ==
  /\ files \in [Filename -> [status : {"none", "pending", "committed"},
                             num_chunks : {0, 1}, created_at : {0}]]
  /\ chunks \subseteq [chunk_id : Filename, filename : Filename, idx : {0}]
  /\ replicas \subseteq Filename \X Address

RepairTyped == heal \in Heals /\ RepairOK

ServersOK ==
  /\ disk \in [Address -> SUBSET Filename]
  /\ up \subseteq Address /\ live \subseteq Address
  /\ scrub \in [Address -> [pc : {"idle", "ask", "list", "remove"},
                            ids : SUBSET Filename]]
  /\ faults \in [FaultKinds -> Nat]
  /\ \A k \in FaultKinds : faults[k] <= MaxFaults[k]
  /\ raced \in [Filename -> SUBSET Address]

ClientsOK ==
  /\ todo \in [Filename -> SUBSET Address]
  /\ created \subseteq Filename
  /\ deletes \subseteq Address \X Filename

LEMMA Parts ==
  /\ TypeOK <=> TablesOK /\ RepairTyped /\ ServersOK /\ ClientsOK
  /\ TypeOK' <=> TablesOK' /\ RepairTyped' /\ ServersOK' /\ ClientsOK'
BY DEF TypeOK, TablesOK, RepairTyped, ServersOK, ClientsOK

LEMMA RepairIdle == HealIdle \in Heals /\ HealIdle.pc = "idle"
BY DEF HealIdle, Heals

LEMMA TypeInit == Init => TypeOK
<1> SUFFICES ASSUME Init PROVE TypeOK
  OBVIOUS
<1>1. TablesOK
  BY DEF Init, TablesOK, NoFile
<1>2. RepairTyped
  BY RepairIdle DEF Init, RepairTyped, RepairOK
<1>3. ServersOK
  BY FaultsAssumption DEF Init, ServersOK
<1>4. ClientsOK
  BY DEF Init, ClientsOK
<1> QED
  BY <1>1, <1>2, <1>3, <1>4, Parts

LEMMA FileTyped == TypeOK /\ FileStep => TypeOK'
<1> SUFFICES ASSUME TypeOK, FileStep PROVE TypeOK'
  OBVIOUS
<1> USE Parts
<1>1. ASSUME NEW f \in Filename, NEW locs \in SUBSET live, CreateFile(f, locs)
      PROVE  TypeOK'
  <2>1. TablesOK'
    <3>1. files' = [files EXCEPT ![f] = [status |-> "pending", num_chunks |-> 1,
                                         created_at |-> 0]]
      BY <1>1 DEF CreateFile, create_pending
    <3>2. chunks' \subseteq chunks \cup
                    {[chunk_id |-> f, filename |-> f, idx |-> 0]}
      BY <1>1 DEF CreateFile, create_pending
    <3>3. replicas' \subseteq replicas \cup ({f} \X locs)
      BY <1>1 DEF CreateFile, create_pending, ReplicasWithout
    <3>4. locs \subseteq Address
      BY DEF ServersOK
    <3> QED
      BY <3>1, <3>2, <3>3, <3>4 DEF TablesOK
  <2>2. RepairTyped'
    BY <1>1 DEF CreateFile, RepairTyped, Heals, RepairOK
  <2>3. ServersOK'
    <3>1. raced' \in [Filename -> SUBSET Address]
      BY <1>1 DEF CreateFile, ServersOK
    <3> QED
      BY <1>1, <3>1 DEF CreateFile, ServersOK
  <2>4. ClientsOK'
    BY <1>1 DEF CreateFile, ClientsOK, ServersOK
  <2> QED
    BY <2>1, <2>2, <2>3, <2>4
<1>2. ASSUME NEW f \in Filename, NEW a \in todo[f], StoreChunks(f, a)
      PROVE  TypeOK'
  <2>1. TablesOK'
    BY <1>2 DEF StoreChunks, dbvars, TablesOK
  <2>2. RepairTyped'
    BY <1>2 DEF StoreChunks, RepairTyped, RepairOK
  <2>3. ServersOK'
    BY <1>2 DEF StoreChunks, ServersOK
  <2>4. ClientsOK'
    BY <1>2 DEF StoreChunks, ClientsOK
  <2> QED
    BY <2>1, <2>2, <2>3, <2>4
<1>3. ASSUME NEW f \in Filename, CommitFile(f) PROVE TypeOK'
  <2>1. TablesOK'
    BY <1>3 DEF CommitFile, commit_file, TablesOK
  <2>2. RepairTyped'
    BY <1>3 DEF CommitFile, RepairTyped, RepairOK
  <2>3. ServersOK' /\ ClientsOK'
    BY <1>3 DEF CommitFile, ServersOK, ClientsOK
  <2> QED
    BY <2>1, <2>2, <2>3
<1>4. ASSUME NEW f \in Filename, DeleteFile(f) PROVE TypeOK'
  <2>1. TablesOK'
    BY <1>4 DEF DeleteFile, delete_file, TablesOK, ReplicasWithout, NoFile
  <2>2. RepairTyped'
    BY <1>4 DEF DeleteFile, RepairTyped, RepairOK
  <2>3. ServersOK' /\ ClientsOK'
    BY <1>4 DEF DeleteFile, ServersOK, ClientsOK, Locations
  <2> QED
    BY <2>1, <2>2, <2>3
<1>5. ASSUME NEW d \in deletes, DeleteChunk(d[1], d[2]) PROVE TypeOK'
  <2>1. TablesOK'
    BY <1>5 DEF DeleteChunk, dbvars, TablesOK
  <2>2. RepairTyped'
    BY <1>5 DEF DeleteChunk, RepairTyped, RepairOK
  <2>3. ServersOK' /\ ClientsOK'
    BY <1>5 DEF DeleteChunk, ServersOK, ClientsOK
  <2> QED
    BY <2>1, <2>2, <2>3
<1> QED
  BY <1>1, <1>2, <1>3, <1>4, <1>5 DEF FileStep

LEMMA FaultTyped ==
  ASSUME ServersOK, NEW k \in FaultKinds, Fault(k)
  PROVE  /\ faults' \in [FaultKinds -> Nat]
         /\ \A j \in FaultKinds : faults'[j] <= MaxFaults[j]
<1>1. \A j \in FaultKinds : faults[j] \in Nat /\ MaxFaults[j] \in Nat
  BY FaultsAssumption DEF ServersOK
<1>2. faults' = [faults EXCEPT ![k] = faults[k] + 1] /\ faults[k] < MaxFaults[k]
  BY DEF Fault
<1>3. /\ \A j \in FaultKinds : j # k => faults'[j] = faults[j]
      /\ faults'[k] = faults[k] + 1
  BY <1>2 DEF ServersOK
<1>4. faults' \in [FaultKinds -> Nat]
  BY <1>1, <1>2 DEF ServersOK
<1> QED
  BY <1>1, <1>2, <1>3, <1>4 DEF ServersOK

LEMMA ServerTyped ==
  ASSUME TypeOK, NEW a \in Address, ServerStep(a)
  PROVE  TypeOK'
<1> USE Parts
<1>1. TablesOK'
  BY DEF ServerStep, mark_alive, Expire, ServerStops, DiskLost, ServerStarts,
         ScrubAsk, ScrubSkipped, ScrubList, ScrubRemove, TablesOK, dbvars
<1>2. RepairTyped'
  BY DEF ServerStep, mark_alive, Expire, ServerStops, DiskLost, ServerStarts,
         ScrubAsk, ScrubSkipped, ScrubList, ScrubRemove, RepairTyped, RepairOK
<1>3. ClientsOK'
  BY DEF ServerStep, mark_alive, Expire, ServerStops, DiskLost, ServerStarts,
         ScrubAsk, ScrubSkipped, ScrubList, ScrubRemove, ClientsOK
<1>4. ServersOK'
  <2>1. CASE mark_alive(a) \/ Expire(a)
    BY <2>1 DEF mark_alive, Expire, ServersOK
  <2>2. CASE ServerStops(a)
    BY <2>2, FaultTyped DEF ServerStops, ServersOK, ScrubIdle, FaultKinds
  <2>3. CASE DiskLost(a)
    BY <2>3, FaultTyped DEF DiskLost, ServersOK, FaultKinds
  <2>4. CASE ServerStarts(a)
    BY <2>4, FaultTyped DEF ServerStarts, ServersOK, FaultKinds
  <2>5. CASE ScrubAsk(a)
    <3>1. list_chunk_ids_for(a) \subseteq Filename
      BY DEF list_chunk_ids_for, TablesOK
    <3>2. raced' \in [Filename -> SUBSET Address]
      BY <2>5 DEF ScrubAsk, ServersOK
    <3> QED
      BY <2>5, <3>1, <3>2 DEF ScrubAsk, ServersOK
  <2>6. CASE ScrubSkipped(a)
    BY <2>6 DEF ScrubSkipped, ServersOK, ScrubIdle
  <2>7. CASE ScrubList(a)
    BY <2>7 DEF ScrubList, ServersOK, ScrubIdle, Orphans
  <2>8. ASSUME NEW id \in scrub[a].ids, ScrubRemove(a, id) PROVE ServersOK'
    <3> DEFINE rest == IF scrub[a].ids = {id} THEN ScrubIdle
                       ELSE [pc |-> "remove", ids |-> scrub[a].ids \ {id}]
    <3>1. rest \in [pc : {"idle", "ask", "list", "remove"}, ids : SUBSET Filename]
      BY DEF ServersOK, ScrubIdle
    <3>2. scrub' = [scrub EXCEPT ![a] = rest]
      BY <2>8 DEF ScrubRemove
    <3> HIDE DEF rest
    <3>3. disk' \in [Address -> SUBSET Filename]
      BY <2>8 DEF ScrubRemove, ServersOK
    <3> QED
      BY <2>8, <3>1, <3>2, <3>3 DEF ScrubRemove, ServersOK
  <2> QED
    BY <2>1, <2>2, <2>3, <2>4, <2>5, <2>6, <2>7, <2>8 DEF ServerStep
<1> QED
  BY <1>1, <1>2, <1>3, <1>4

LEMMA CrashTyped == TypeOK /\ NamingCrash => TypeOK'
<1> SUFFICES ASSUME TypeOK, NamingCrash PROVE TypeOK'
  OBVIOUS
<1> USE Parts
<1>1. TablesOK'
  BY DEF NamingCrash, TablesOK, dbvars
<1>2. RepairTyped'
  BY RepairIdle DEF NamingCrash, RepairTyped, RepairOK
<1>3. ServersOK'
  BY FaultTyped DEF NamingCrash, ServersOK, FaultKinds
<1>4. ClientsOK'
  BY DEF NamingCrash, ClientsOK
<1> QED
  BY <1>1, <1>2, <1>3, <1>4

\* What heal_once reads from the tables is made of the system's files and
\* servers.
LEMMA QueryTyped ==
  ASSUME TablesOK
  PROVE  under_replicated_chunks(heal.live, R) \subseteq Metas
<1> SUFFICES ASSUME NEW meta \in under_replicated_chunks(heal.live, R)
             PROVE  meta \in Metas
  OBVIOUS
<1>1. PICK c \in chunks :
        meta = [chunk_id |-> c.chunk_id, index |-> c.idx,
                locations |-> Locations(c.chunk_id)]
  BY DEF under_replicated_chunks, CommittedChunks
<1>2. c.chunk_id \in Filename /\ c.idx = 0 /\ Locations(c.chunk_id) \subseteq Address
  BY DEF TablesOK, Locations
<1> QED
  BY <1>1, <1>2 DEF Metas

\* A step of heal_once changes heal, disk, replicas, the history of the
\* scrubs and nothing else.
LEMMA HealRest ==
  ASSUME TypeOK, HealStep
  PROVE  TablesOK' /\ ServersOK' /\ ClientsOK'
<1> USE Parts
<1> DEFINE Quiet == \/ HealCount \/ HealKnown \/ HealSelect \/ HealAddRaises
                    \/ HealChunkDone \/ HealDone
                    \/ \E set \in SUBSET live : HealPick(set)
                    \/ \E meta \in heal.chunks : HealChunk(meta)
<1>1. CASE Quiet
  <2>1. UNCHANGED <<dbvars, disk, raced>> /\ HealUnchanged
    BY <1>1 DEF HealCount, HealKnown, HealSelect, HealAddRaises, HealChunkDone,
                HealDone, HealPick, HealChunk
  <2> QED
    BY <2>1 DEF HealUnchanged, dbvars, TablesOK, ServersOK, ClientsOK
<1>2. ASSUME NEW a \in heal.cand, HealCopy(a) \/ HealCopyFails(a)
      PROVE  TablesOK' /\ ServersOK' /\ ClientsOK'
  <2>1. UNCHANGED dbvars /\ HealUnchanged
    BY <1>2 DEF HealCopy, HealCopyFails
  <2>2. heal.cur.chunk_id \in Filename
    BY <1>2 DEF HealCopy, HealCopyFails, NeedsCopy, RepairTyped, RepairOK, Metas
  <2>3. disk' = disk \/ disk' = [disk EXCEPT ![a] = @ \cup {heal.cur.chunk_id}]
    BY <1>2 DEF HealCopy, HealCopyFails
  <2>4. disk' \in [Address -> SUBSET Filename]
    BY <2>2, <2>3 DEF ServersOK
  <2>5. \/ raced' = raced
        \/ raced' = [raced EXCEPT ![heal.cur.chunk_id] = @ \cup {a}]
    BY <1>2 DEF HealCopy, HealCopyFails
  <2>6. a \in Address
    BY DEF RepairTyped, Heals
  <2>7. raced' \in [Filename -> SUBSET Address]
    BY <2>2, <2>5, <2>6 DEF ServersOK
  <2> QED
    BY <2>1, <2>4, <2>7 DEF HealUnchanged, dbvars, TablesOK, ServersOK, ClientsOK
<1>3. CASE HealAdd
  <2>1. heal.cur.chunk_id \in Filename /\ heal.target \in Address
    BY <1>3 DEF HealAdd, RepairTyped, RepairOK, Metas, Heals
  <2>2. TablesOK'
    BY <1>3, <2>1 DEF HealAdd, add_replica, TablesOK
  <2> QED
    BY <1>3, <2>2 DEF HealAdd, HealUnchanged, ServersOK, ClientsOK
<1>4. ASSUME NEW a \in heal.stale, HealDrop(a)
      PROVE  TablesOK' /\ ServersOK' /\ ClientsOK'
  <2>1. TablesOK'
    BY <1>4 DEF HealDrop, remove_replica, TablesOK
  <2> QED
    BY <1>4, <2>1 DEF HealDrop, HealUnchanged, ServersOK, ClientsOK
<1> QED
  BY <1>1, <1>2, <1>3, <1>4 DEF HealStep

LEMMA HealTyped == TypeOK /\ HealStep => TypeOK'
<1> SUFFICES ASSUME TypeOK, HealStep PROVE RepairTyped'
  BY HealRest, Parts
<1>1. TablesOK /\ RepairTyped /\ live \subseteq Address
  BY Parts DEF ServersOK
<1>2. CASE HealCount
  <2>1. Cardinality(live) \in Nat
    BY <1>1, AddressAssumption, FS_Subset, FS_CardinalityType
  <2>2. heal' = [HealIdle EXCEPT !.pc = "pick", !.count = Cardinality(live)]
    BY <1>2 DEF HealCount
  <2> QED
    BY <2>1, <2>2 DEF RepairTyped, RepairOK, Heals, HealIdle
<1>3. ASSUME NEW set \in SUBSET live, HealPick(set) PROVE RepairTyped'
  BY <1>1, <1>3 DEF HealPick, RepairTyped, RepairOK, Heals, HealIdle
<1>4. CASE HealKnown
  BY <1>1, <1>4 DEF HealKnown, RepairTyped, RepairOK, Heals, HealIdle
<1>5. CASE HealSelect
  BY <1>1, <1>5, QueryTyped DEF HealSelect, RepairTyped, RepairOK, Heals
<1>6. ASSUME NEW meta \in heal.chunks, HealChunk(meta) PROVE RepairTyped'
  <2>1. meta \in Metas /\ heal \in Heals
    BY <1>1 DEF RepairTyped, Heals
  <2>2. CASE heal' = [heal EXCEPT !.chunks = @ \ {meta}]
    BY <1>6, <2>1, <2>2 DEF HealChunk, RepairTyped, RepairOK, Heals
  <2>3. ASSUME NEW source \in meta.locations \cap heal.live,
               heal' = Repairing(meta, source)
        PROVE  RepairTyped'
    <3>1. meta.locations \subseteq Address
      BY <2>1 DEF Metas
    <3>2. heal' \in Heals
      BY <2>1, <2>3, <3>1 DEF Repairing, Candidates, Heals
    <3>3. RepairOK'
      BY <2>1, <2>3 DEF Repairing, Candidates, RepairOK, Heals
    <3> QED
      BY <3>2, <3>3 DEF RepairTyped
  <2> QED
    BY <1>6, <2>2, <2>3 DEF HealChunk
<1>7. ASSUME NEW a \in heal.cand, HealCopy(a) PROVE RepairTyped'
  BY <1>1, <1>7 DEF HealCopy, NeedsCopy, RepairTyped, RepairOK, Heals
<1>8. ASSUME NEW a \in heal.cand, HealCopyFails(a) PROVE RepairTyped'
  BY <1>1, <1>8 DEF HealCopyFails, NeedsCopy, RepairTyped, RepairOK, Heals
<1>9. CASE HealAdd
  <2>1. heal.pc = "add" /\ heal' = Recorded
    BY <1>9 DEF HealAdd
  <2>2. /\ heal'.pc = (IF heal.stale = {} THEN "copy" ELSE "drop")
        /\ heal'.locs = heal.locs \cup {heal.target} /\ heal'.target = "none"
        /\ heal'.cur = heal.cur /\ heal'.source = heal.source
        /\ heal'.cand = heal.cand /\ heal'.stale = heal.stale
        /\ heal'.live = heal.live
    BY <1>1, <2>1 DEF Recorded, RepairTyped, Heals
  <2>3. heal.target \in heal.live \ (heal.locs \cup heal.cand)
    BY <1>1, <2>1 DEF RepairTyped, RepairOK
  <2>4. RepairOK'
    BY <1>1, <2>1, <2>2, <2>3 DEF RepairTyped, RepairOK
  <2>5. heal.target \in Address
    BY <1>1, <2>3 DEF RepairTyped, Heals
  <2>6. heal' \in Heals
    BY <1>1, <2>1, <2>5 DEF Recorded, RepairTyped, Heals
  <2> QED
    BY <2>4, <2>6 DEF RepairTyped
<1>10. CASE HealAddRaises
  BY <1>10, RepairIdle DEF HealAddRaises, RepairTyped, RepairOK
<1>11. ASSUME NEW a \in heal.stale, HealDrop(a) PROVE RepairTyped'
  BY <1>1, <1>11 DEF HealDrop, RepairTyped, RepairOK, Heals
<1>12. CASE HealChunkDone
  BY <1>1, <1>12 DEF HealChunkDone, HealIdle, RepairTyped, RepairOK, Heals
<1>13. CASE HealDone
  BY <1>13, RepairIdle DEF HealDone, RepairTyped, RepairOK
<1> QED
  BY <1>2, <1>3, <1>4, <1>5, <1>6, <1>7, <1>8, <1>9, <1>10, <1>11, <1>12, <1>13
  DEF HealStep

LEMMA TypeNext == TypeOK /\ [Next]_vars => TypeOK'
<1> SUFFICES ASSUME TypeOK, [Next]_vars PROVE TypeOK'
  OBVIOUS
<1>1. CASE UNCHANGED vars
  BY <1>1 DEF vars, TypeOK, RepairOK
<1> QED
  BY <1>1, FileTyped, ServerTyped, CrashTyped, HealTyped DEF Next

\* Every variable keeps its type, and the local variables of heal_once agree:
\* the locations it counts are live, the source is one of them, and a server
\* is a location, a candidate, stale or the target, never two of these
\* (heal_once).
THEOREM TypeCorrect == Spec => []TypeOK
BY TypeInit, TypeNext, PTL DEF Spec

=============================================================================
