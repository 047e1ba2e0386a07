------------------------------- MODULE Healing -------------------------------
(***************************************************************************)
(* Self-healing: the naming server's repair thread (heal_once), the        *)
(* registry of live storage servers it relies on, and the storage servers  *)
(* it repairs, which stop, restart, lose their disk and scrub it.          *)
(*                                                                         *)
(* A file has one chunk and is created once, so a file name also is the id *)
(* of its chunk; FileOps has the details of creating and deleting files.   *)
(* As there, one SQL statement or one RPC is one step.                     *)
(***************************************************************************)
EXTENDS MetadataStore

CONSTANTS
  R,         \* the replication factor
  Starting,  \* bound: the servers whose first scrub is still to come at the
             \* start, those of the others have found empty disks
  Starved,   \* BOOLEAN, may the heartbeats of a running server be late
  Unstable,  \* the servers that may stop
  Deletable, \* the files that clients delete
  MaxFaults  \* bound: how many times each kind of fault happens

FaultKinds == {"stop", "start", "lose_disk", "naming_crash"}

ASSUME FactorAssumption == R \in Nat \ {0}
ASSUME AddressAssumption == IsFiniteSet(Address)
ASSUME StartingAssumption == Starting \subseteq Address
ASSUME StarvedAssumption == Starved \in BOOLEAN
ASSUME UnstableAssumption == Unstable \subseteq Address
ASSUME DeletableAssumption == Deletable \subseteq Filename
ASSUME FaultsAssumption == MaxFaults \in [FaultKinds -> Nat]

VARIABLES
  disk,     \* [Address -> set of chunk ids], the chunk files on each server
  up,       \* the storage servers that are running
  live,     \* what live_servers() would answer now
  heal,     \* the repair thread
  scrub,    \* [Address -> the startup scrub of that server]
  todo,     \* [Filename -> servers its client has still to upload to]
  created,  \* the names that were used
  deletes,  \* <<address, chunk id>> pairs the naming server is still deleting
  faults,   \* [FaultKinds -> how many times it happened]
  raced     \* [Filename -> servers whose scrub may have taken its chunk for
            \* an orphan]: history, no guard reads it

vars == <<files, chunks, replicas, disk, up, live, heal, scrub, todo, created,
          deletes, faults, raced>>

NoMeta == [chunk_id |-> "none", index |-> 0, locations |-> {}]

HealIdle == [pc |-> "idle", count |-> 0, live |-> {}, chunks |-> {},
             cur |-> NoMeta, locs |-> {}, stale |-> {}, cand |-> {},
             source |-> "none", target |-> "none"]

ScrubIdle == [pc |-> "idle", ids |-> {}]

\* Every server has just started on an empty disk.  It may register at once,
\* and its scrub runs some time later, on this first start as on any other.
Init ==
  /\ files = [f \in Filename |-> NoFile]
  /\ chunks = {}
  /\ replicas = {}
  /\ disk = [a \in Address |-> {}]
  /\ up = Address
  /\ live = {}
  /\ heal = HealIdle
  /\ scrub = [a \in Address |->
                [pc |-> IF a \in Starting THEN "ask" ELSE "idle", ids |-> {}]]
  /\ todo = [f \in Filename |-> {}]
  /\ created = {}
  /\ deletes = {}
  /\ faults = [k \in FaultKinds |-> 0]
  /\ raced = [f \in Filename |-> {}]

Fault(k) ==
  /\ faults[k] < MaxFaults[k]
  /\ faults' = [faults EXCEPT ![k] = @ + 1]

\* The scrub of a asked before it could be told of the chunk, or has already
\* listed it as an orphan.
Overlooks(a, id) ==
  \/ scrub[a].pc = "list" /\ id \notin scrub[a].ids
  \/ scrub[a].pc = "remove" /\ id \in scrub[a].ids

\* heal_once has a copy of the chunk on a, and no row for it yet.
InWork(id, a) == heal.pc = "add" /\ heal.cur.chunk_id = id /\ heal.target = a

-----------------------------------------------------------------------------
(***************************************************************************)
(* Files come and go meanwhile.                                            *)
(***************************************************************************)

CreateFile(f, locs) ==
  /\ f \notin created
  /\ locs \subseteq live /\ Cardinality(locs) = R
  /\ create_pending(f, 1, 0,
                    {[chunk_id |-> f, index |-> 0, locations |-> locs]})
  /\ created' = created \cup {f}
  /\ todo' = [todo EXCEPT ![f] = locs]
  /\ raced' = [raced EXCEPT ![f] = {a \in locs : Overlooks(a, f)}]
  /\ UNCHANGED <<disk, up, live, heal, scrub, deletes, faults>>

StoreChunks(f, a) ==
  /\ a \in todo[f] /\ a \in up
  /\ disk' = [disk EXCEPT ![a] = @ \cup {f}]
  /\ todo' = [todo EXCEPT ![f] = @ \ {a}]
  /\ UNCHANGED <<dbvars, up, live, heal, scrub, created, deletes,
                 faults, raced>>

CommitFile(f) ==
  /\ files[f].status = "pending" /\ todo[f] = {}
  /\ commit_file(f)
  /\ UNCHANGED <<disk, up, live, heal, scrub, todo, created, deletes,
                 faults, raced>>

\* Of a committed file.
DeleteFile(f) ==
  /\ f \in Deletable /\ files[f].status = "committed"
  /\ delete_file(f)
  /\ deletes' = deletes \cup (Locations(f) \X {f})
  /\ UNCHANGED <<disk, up, live, heal, scrub, todo, created, faults, raced>>

DeleteChunk(a, id) ==
  /\ <<a, id>> \in deletes
  /\ \/ a \in up /\ disk' = [disk EXCEPT ![a] = @ \ {id}]
     \/ UNCHANGED disk
  /\ deletes' = deletes \ {<<a, id>>}
  /\ UNCHANGED <<dbvars, up, live, heal, scrub, todo, created, faults, raced>>

-----------------------------------------------------------------------------
(***************************************************************************)
(* Membership and faults.                                                  *)
(***************************************************************************)

\* RegisterStorage and Heartbeat do the same to the registry.
mark_alive(a) ==
  /\ a \in up /\ a \notin live
  /\ live' = live \cup {a}
  /\ UNCHANGED <<dbvars, disk, up, heal, scrub, todo, created, deletes,
                 faults, raced>>

\* More than HEARTBEAT_TIMEOUT since the last heartbeat.
Expire(a) ==
  /\ a \in live
  /\ Starved \/ a \notin up
  /\ live' = live \ {a}
  /\ UNCHANGED <<dbvars, disk, up, heal, scrub, todo, created, deletes,
                 faults, raced>>

ServerStops(a) ==
  /\ a \in up \cap Unstable
  /\ Fault("stop")
  /\ up' = up \ {a}
  /\ scrub' = [scrub EXCEPT ![a] = ScrubIdle]
  /\ UNCHANGED <<dbvars, disk, live, heal, todo, created, deletes, raced>>

\* The files are gone, whether the server runs or not.
DiskLost(a) ==
  /\ disk[a] # {}
  /\ Fault("lose_disk")
  /\ disk' = [disk EXCEPT ![a] = {}]
  /\ UNCHANGED <<dbvars, up, live, heal, scrub, todo, created, deletes, raced>>

ServerStarts(a) ==
  /\ a \notin up
  /\ Fault("start")
  /\ up' = up \cup {a}
  /\ scrub' = [scrub EXCEPT ![a].pc = "ask"]
  /\ UNCHANGED <<dbvars, disk, live, heal, todo, created, deletes, raced>>

\* The registry is in memory; deletions already sent may still arrive.
NamingCrash ==
  /\ Fault("naming_crash")
  /\ live' = {}
  /\ heal' = HealIdle
  /\ \E sent \in SUBSET deletes : deletes' = sent
  /\ UNCHANGED <<dbvars, disk, up, scrub, todo, created, raced>>

(***************************************************************************)
(* The startup scrub of a storage server, _cleanup_orphans_once: what the  *)
(* naming server expects, then what is on disk, then one file at a time.   *)
(***************************************************************************)

Orphans(a) == disk[a] \ scrub[a].ids

ScrubAsk(a) ==
  /\ scrub[a].pc = "ask"
  /\ LET known == list_chunk_ids_for(a)
     IN /\ scrub' = [scrub EXCEPT ![a] = [pc |-> "list", ids |-> known]]
        /\ raced' = [id \in Filename |->
                      IF InWork(id, a) /\ id \notin known
                      THEN raced[id] \cup {a} ELSE raced[id]]
  /\ UNCHANGED <<dbvars, disk, up, live, heal, todo, created, deletes, faults>>

\* The naming server cannot be reached: there is no second attempt.
Mut_ScrubSkipped(a) ==
  /\ scrub[a].pc = "ask"
  /\ scrub' = [scrub EXCEPT ![a].pc = "list"]
  /\ UNCHANGED <<dbvars, disk, up, live, heal, todo, created, deletes, faults,
                 raced>>
ScrubSkipped(a) ==
  /\ scrub[a].pc = "ask"
  /\ scrub' = [scrub EXCEPT ![a] = ScrubIdle]
  /\ UNCHANGED <<dbvars, disk, up, live, heal, todo, created, deletes,
                 faults, raced>>

ScrubList(a) ==
  /\ scrub[a].pc = "list"
  /\ scrub' = [scrub EXCEPT ![a] = IF Orphans(a) = {} THEN ScrubIdle
                                   ELSE [pc |-> "remove", ids |-> Orphans(a)]]
  /\ UNCHANGED <<dbvars, disk, up, live, heal, todo, created, deletes,
                 faults, raced>>

ScrubRemove(a, id) ==
  /\ scrub[a].pc = "remove" /\ id \in scrub[a].ids
  /\ disk' = [disk EXCEPT ![a] = @ \ {id}]
  /\ scrub' = [scrub EXCEPT ![a] = IF @.ids = {id} THEN ScrubIdle
                                   ELSE [pc |-> "remove", ids |-> @.ids \ {id}]]
  /\ UNCHANGED <<dbvars, up, live, heal, todo, created, deletes,
                 faults, raced>>

-----------------------------------------------------------------------------
(***************************************************************************)
(* heal_once.                                                              *)
(***************************************************************************)

HealUnchanged == UNCHANGED <<up, live, scrub, todo, created, deletes, faults>>

\* live_servers() is asked twice: here for its length, and by pick.
HealCount ==
  /\ heal.pc = "idle"
  /\ heal' = [HealIdle EXCEPT !.pc = "pick", !.count = Cardinality(live)]
  /\ UNCHANGED <<dbvars, disk, raced>> /\ HealUnchanged

Mut_Enough(set) == Cardinality(set) > R
Enough(set) == Cardinality(set) >= R

pick(n, set) ==
  /\ set \subseteq live
  /\ Cardinality(set) = (IF n < Cardinality(live) THEN n ELSE Cardinality(live))

HealPick(set) ==
  /\ heal.pc = "pick"
  /\ pick(heal.count, set)
  /\ heal' = IF Enough(set)
             THEN [HealIdle EXCEPT !.pc = "known", !.live = set]
             ELSE HealIdle
  /\ UNCHANGED <<dbvars, disk, raced>> /\ HealUnchanged

\* The short-circuit: no repair when every server of a row is live.
HealKnown ==
  /\ heal.pc = "known"
  /\ heal' = IF known_replica_addresses \subseteq heal.live
             THEN HealIdle
             ELSE [heal EXCEPT !.pc = "select"]
  /\ UNCHANGED <<dbvars, disk, raced>> /\ HealUnchanged

HealSelect ==
  /\ heal.pc = "select"
  /\ heal' = [heal EXCEPT !.pc = "chunk",
                !.chunks = under_replicated_chunks(heal.live, R)]
  /\ UNCHANGED <<dbvars, disk, raced>> /\ HealUnchanged

\* A chunk without a live replica is skipped.  The source is the first of
\* the live locations, and stays the same for the whole chunk.
Mut_Candidates(meta) == heal.live
Candidates(meta) == heal.live \ meta.locations

Repairing(meta, source) ==
  [heal EXCEPT !.pc = "copy", !.chunks = @ \ {meta}, !.cur = meta,
               !.locs = meta.locations \cap heal.live,
               !.stale = meta.locations \ heal.live,
               !.cand = Candidates(meta), !.source = source]

HealChunk(meta) ==
  /\ heal.pc = "chunk" /\ meta \in heal.chunks
  /\ LET locs == meta.locations \cap heal.live
     IN IF locs = {} THEN heal' = [heal EXCEPT !.chunks = @ \ {meta}]
        ELSE \E source \in locs : heal' = Repairing(meta, source)
  /\ UNCHANGED <<dbvars, disk, raced>> /\ HealUnchanged

NeedsCopy == heal.pc = "copy" /\ ~Enough(heal.locs) /\ heal.cand # {}

\* ReplicateChunk on a candidate: it gets the bytes from the source and
\* stores them.
HealCopy(target) ==
  /\ NeedsCopy /\ target \in heal.cand
  /\ target \in up /\ heal.source \in up
  /\ heal.cur.chunk_id \in disk[heal.source]
  /\ disk' = [disk EXCEPT ![target] = @ \cup {heal.cur.chunk_id}]
  /\ heal' = [heal EXCEPT !.pc = "add", !.cand = @ \ {target},
                          !.target = target]
  /\ raced' = IF Overlooks(target, heal.cur.chunk_id)
              THEN [raced EXCEPT ![heal.cur.chunk_id] = @ \cup {target}]
              ELSE raced
  /\ UNCHANGED dbvars /\ HealUnchanged

\* A server does not answer, the source has no such chunk, or the deadline
\* passes although the target has stored it.
Mut_HealCopyFails(target) ==
  /\ NeedsCopy /\ target \in heal.cand
  /\ heal' = [heal EXCEPT !.pc = "add", !.cand = @ \ {target},
                          !.target = target]
  /\ UNCHANGED <<dbvars, disk, raced>> /\ HealUnchanged
HealCopyFails(target) ==
  /\ NeedsCopy /\ target \in heal.cand
  /\ \/ UNCHANGED disk
     \/ /\ target \in up /\ heal.source \in up
        /\ heal.cur.chunk_id \in disk[heal.source]
        /\ disk' = [disk EXCEPT ![target] = @ \cup {heal.cur.chunk_id}]
  /\ heal' = [heal EXCEPT !.cand = @ \ {target}]
  /\ UNCHANGED <<dbvars, raced>> /\ HealUnchanged

Mut_Recorded == [heal EXCEPT !.pc = "copy", !.locs = @ \cup {heal.target},
                             !.target = "none"]
Recorded ==
  [heal EXCEPT !.pc = IF heal.stale = {} THEN "copy" ELSE "drop",
               !.locs = @ \cup {heal.target}, !.target = "none"]

HealAdd ==
  /\ heal.pc = "add"
  /\ add_replica(heal.cur.chunk_id, heal.target)
  /\ heal' = Recorded
  /\ UNCHANGED <<disk, raced>> /\ HealUnchanged

\* IntegrityError: the chunk was deleted.  It ends the whole pass.
HealAddRaises ==
  /\ heal.pc = "add" /\ ~ChunkExists(heal.cur.chunk_id)
  /\ heal' = HealIdle
  /\ UNCHANGED <<dbvars, disk, raced>> /\ HealUnchanged

HealDrop(a) ==
  /\ heal.pc = "drop" /\ a \in heal.stale
  /\ remove_replica(heal.cur.chunk_id, a)
  /\ heal' = [heal EXCEPT !.pc = "copy", !.stale = @ \ {a}]
  /\ UNCHANGED <<disk, raced>> /\ HealUnchanged

HealChunkDone ==
  /\ heal.pc = "copy" /\ ~NeedsCopy
  /\ heal' = [HealIdle EXCEPT !.pc = "chunk", !.live = heal.live,
                              !.chunks = heal.chunks]
  /\ UNCHANGED <<dbvars, disk, raced>> /\ HealUnchanged

HealDone ==
  /\ heal.pc = "chunk" /\ heal.chunks = {}
  /\ heal' = HealIdle
  /\ UNCHANGED <<dbvars, disk, raced>> /\ HealUnchanged

HealStep ==
  \/ HealCount
  \/ \E set \in SUBSET live : HealPick(set)
  \/ HealKnown
  \/ HealSelect
  \/ \E meta \in heal.chunks : HealChunk(meta)
  \/ \E a \in heal.cand : HealCopy(a)
  \/ \E a \in heal.cand : HealCopyFails(a)
  \/ HealAdd
  \/ HealAddRaises
  \/ \E a \in heal.stale : HealDrop(a)
  \/ HealChunkDone
  \/ HealDone

FileStep ==
  \/ \E f \in Filename, locs \in SUBSET live : CreateFile(f, locs)
  \/ \E f \in Filename : \E a \in todo[f] : StoreChunks(f, a)
  \/ \E f \in Filename : CommitFile(f)
  \/ \E f \in Filename : DeleteFile(f)
  \/ \E d \in deletes : DeleteChunk(d[1], d[2])

ServerStep(a) ==
  \/ mark_alive(a)
  \/ Expire(a)
  \/ ServerStops(a)
  \/ DiskLost(a)
  \/ ServerStarts(a)
  \/ ScrubAsk(a)
  \/ ScrubSkipped(a)
  \/ ScrubList(a)
  \/ \E id \in scrub[a].ids : ScrubRemove(a, id)

Next ==
  \/ FileStep
  \/ \E a \in Address : ServerStep(a)
  \/ NamingCrash
  \/ HealStep

Spec == Init /\ [][Next]_vars

(***************************************************************************)
(* The repair thread loops for ever and survives exceptions, every RPC in  *)
(* it has a deadline; a running server sends heartbeats for ever, and one  *)
(* that stopped runs out of them.  When copies between running servers are *)
(* tried again and again, one of them succeeds.                            *)
(***************************************************************************)
FairSpec ==
  /\ Spec
  /\ WF_vars(HealStep)
  /\ SF_vars(\E a \in heal.cand : HealCopy(a))
  /\ \A a \in Address : /\ WF_vars(mark_alive(a))
                        /\ WF_vars(a \notin up /\ Expire(a))

-----------------------------------------------------------------------------
(***************************************************************************)
(* Properties.                                                             *)
(***************************************************************************)

Metas == [chunk_id : Filename, index : {0}, locations : SUBSET Address]
Heals == [pc : {"idle", "pick", "known", "select", "chunk", "copy", "add",
                "drop"},
          count : Nat, live : SUBSET Address, chunks : SUBSET Metas,
          cur : Metas \cup {NoMeta}, locs : SUBSET Address,
          stale : SUBSET Address, cand : SUBSET Address,
          source : Address \cup {"none"}, target : Address \cup {"none"}]

\* While a chunk is repaired: the locations counted as live are known to be,
\* and a server takes one part only, of those that are live, those that are
\* gone, those that may get a copy and the one that just got it.
RepairOK ==
  heal.pc \in {"copy", "add", "drop"} =>
    /\ heal.cur \in Metas /\ heal.source \in heal.locs
    /\ heal.cand \cap (heal.locs \cup heal.stale) = {}
    /\ heal.stale \cap heal.live = {}
    /\ heal.locs \cup heal.cand \subseteq heal.live
    /\ heal.pc = "add" =>
         heal.target \in heal.live \ (heal.locs \cup heal.cand)
    /\ heal.pc = "drop" => heal.stale # {}

\* Every variable has its type, and the local variables of heal_once agree
\* with each other.
TypeOK ==
  /\ files \in [Filename -> [status : {"none", "pending", "committed"},
                             num_chunks : {0, 1}, created_at : {0}]]
  /\ chunks \subseteq [chunk_id : Filename, filename : Filename, idx : {0}]
  /\ replicas \subseteq Filename \X Address
  /\ disk \in [Address -> SUBSET Filename]
  /\ up \subseteq Address /\ live \subseteq Address
  /\ heal \in Heals /\ RepairOK
  /\ scrub \in [Address -> [pc : {"idle", "ask", "list", "remove"},
                            ids : SUBSET Filename]]
  /\ todo \in [Filename -> SUBSET Address]
  /\ created \subseteq Filename
  /\ deletes \subseteq Address \X Filename
  /\ faults \in [FaultKinds -> Nat]
  /\ \A k \in FaultKinds : faults[k] <= MaxFaults[k]
  /\ raced \in [Filename -> SUBSET Address]

Committed(f) == files[f].status = "committed"
Copies(f) == {a \in Locations(f) : f \in disk[a]}

\* Healing keeps the number of replica rows of a committed chunk: it adds a
\* row before it removes one, whatever fails in between, so there never are
\* fewer than R, and only a crash of the naming server between the two
\* leaves one more for good (heal_once, add_replica, remove_replica).
Extra(f) == IF heal.pc = "drop" /\ heal.cur.chunk_id = f THEN 1 ELSE 0

ReplicaRows ==
  \A f \in Filename :
    Committed(f) => Cardinality(Locations(f)) \in
                      R..(R + faults["naming_crash"] + Extra(f))

\* The durability healing promises: a committed chunk has a copy on R of the
\* disks its rows name, less one for each disk that was lost and each server
\* whose scrub overlooked it.  Repair, which replaces rows of servers that
\* only look dead, never trades a stored copy for a row without one.
DurableCopies ==
  \A f \in Filename :
    Committed(f) =>
      Cardinality(Copies(f) \cup (Locations(f) \cap raced[f]))
        + faults["lose_disk"] >= R

\* Until a disk is lost, every row of a committed chunk names a server that
\* has it, also the rows healing adds, or one whose scrub was under way, on
\* its first start or a later one, when the row or the copy was made.  A copy
\* that fails or arrives after its deadline, a file that is deleted while it
\* is copied, a crash of the naming server and a scrub that asked after the
\* row was there leave no row without a copy (heal_once, add_replica,
\* ReplicateChunk, _cleanup_orphans_once).
RowsStored ==
  faults["lose_disk"] = 0 =>
    \A f \in Filename :
      Committed(f) => \A a \in Locations(f) : f \in disk[a] \/ a \in raced[f]

\* The table of replicas never gets a row for a chunk that is not there,
\* although a file may be deleted while its chunk is being copied: no
\* deleted chunk is brought back.
NoDanglingReplicas == \A r \in replicas : ChunkExists(r[1])

NeedsHealing(f) ==
  /\ Committed(f) /\ Cardinality(up) >= R
  /\ Cardinality(Locations(f) \cap up) \in 1..(R - 1)
  /\ Locations(f) \cap up \subseteq Copies(f)

\* A committed chunk with too few running replicas gets enough of them, as
\* long as those that are left have it and R servers run: whatever failed
\* copies, changes of the live set and deleted files, which abort a pass, it
\* meets.
Healed ==
  \A f \in Filename : NeedsHealing(f) ~> ~NeedsHealing(f)

-----------------------------------------------------------------------------
(***************************************************************************)
(* What the documents say and the code does not do.                        *)
(***************************************************************************)

Expected(f) == {a \in Locations(f) : scrub[a].pc = "idle" /\ a \in up}

\* docs/testing-plan.md:34: every chunk the metadata knows "has a file on
\* each listed server".  The startup scrub compares what the naming server
\* expected some time ago with the files that are there now.
MetadataToDisk ==
  \A f \in Filename : Committed(f) => \A a \in Expected(f) : f \in disk[a]

=============================================================================
