------------------------- MODULE HealingCopiesProofs -------------------------
(***************************************************************************)
(* Proofs about Healing, for any number of servers, files and faults: the  *)
(* number of replica rows of a chunk, and the servers that have it.        *)
(***************************************************************************)
EXTENDS HealingProofs

-----------------------------------------------------------------------------
(***************************************************************************)
(* Finite sets.                                                            *)
(***************************************************************************)

LEMMA Finite ==
  ASSUME NEW S \in SUBSET Address
  PROVE  IsFiniteSet(S) /\ Cardinality(S) \in Nat
BY AddressAssumption, FS_Subset, FS_CardinalityType

LEMMA NoFewer ==
  ASSUME NEW T \in SUBSET Address, NEW S \in SUBSET T
  PROVE  Cardinality(S) <= Cardinality(T)
BY Finite, FS_Subset

LEMMA OneMore ==
  ASSUME NEW S \in SUBSET Address, NEW a \in Address \ S
  PROVE  Cardinality(S \cup {a}) = Cardinality(S) + 1
BY Finite, FS_AddElement

LEMMA OneLess ==
  ASSUME NEW S \in SUBSET Address, NEW a \in S
  PROVE  Cardinality(S \ {a}) = Cardinality(S) - 1
BY Finite, FS_RemoveElement

LEMMA AtMostOneLess ==
  ASSUME NEW S \in SUBSET Address, NEW T \in SUBSET Address, NEW a,
         S \ {a} \subseteq T
  PROVE  Cardinality(T) >= Cardinality(S) - 1
<1>1. Cardinality(S \ {a}) <= Cardinality(T)
  BY NoFewer
<1>2. Cardinality(S \ {a}) \in Nat /\ Cardinality(T) \in Nat /\ Cardinality(S) \in Nat
  BY Finite
<1>3. Cardinality(S \ {a}) >= Cardinality(S) - 1
  <2>1. CASE a \in S
    BY <2>1, <1>2, OneLess
  <2>2. CASE a \notin S
    <3>1. S \ {a} = S
      BY <2>2
    <3>2. Cardinality(S \ {a}) = Cardinality(S)
      BY <3>1
    <3> QED
      BY <3>2, <1>2
  <2> QED
    BY <2>1, <2>2
<1> QED
  BY <1>1, <1>2, <1>3

-----------------------------------------------------------------------------
(***************************************************************************)
(* Names.  A name is used once, so the rows of a name are of one file, and *)
(* a chunk that is gone does not come back.                                *)
(***************************************************************************)

NamesOnce ==
  /\ \A f \in Filename : Exists(f) => f \in created /\ ChunkExists(f)
  /\ \A c \in chunks : c.chunk_id = c.filename /\ Exists(c.filename)
  /\ \A d \in deletes : d[2] \in created /\ ~Exists(d[2])
  /\ \A m \in heal.chunks : m.chunk_id \in created
  /\ heal.pc \in {"copy", "add", "drop"} => heal.cur.chunk_id \in created

(***************************************************************************)
(* Rows.  What heal_once read of a chunk stays true until it changes it:   *)
(* nobody else adds or removes replica rows of a committed chunk, except   *)
(* by deleting it.                                                         *)
(***************************************************************************)

RowsRead ==
  \A m \in heal.chunks : Exists(m.chunk_id) =>
    Committed(m.chunk_id) /\ Locations(m.chunk_id) = m.locations

RowsRepaired ==
  heal.pc \in {"copy", "add", "drop"} =>
    /\ heal.pc = "add" => ~Enough(heal.locs)
    /\ Exists(heal.cur.chunk_id) =>
         /\ Committed(heal.cur.chunk_id)
         /\ Locations(heal.cur.chunk_id) = heal.locs \cup heal.stale
         /\ \A m \in heal.chunks : m.chunk_id # heal.cur.chunk_id

RowCount ==
  \A f \in Filename : Exists(f) =>
    Cardinality(Locations(f)) \in
      (R + Extra(f))..(R + faults["naming_crash"] + Extra(f))

RowsInv == /\ TypeOK /\ NoDanglingReplicas
           /\ NamesOnce /\ RowsRead /\ RowsRepaired /\ RowCount

\* A file is created once.
LEMMA Created ==
  ASSUME TypeOK, NoDanglingReplicas, NamesOnce, NEW f \in Filename,
         NEW locs \in SUBSET Address, f \notin created,
         create_pending(f, 1, 0, {[chunk_id |-> f, index |-> 0, locations |-> locs]})
  PROVE  /\ chunks' = chunks \cup {[chunk_id |-> f, filename |-> f, idx |-> 0]}
         /\ replicas' = replicas \cup ({f} \X locs)
         /\ \A g \in Filename :
              /\ Locations(g)' = IF g = f THEN locs ELSE Locations(g)
              /\ Exists(g)' <=> (g = f \/ Exists(g))
              /\ ChunkExists(g)' <=> (g = f \/ ChunkExists(g))
              /\ Committed(g)' <=> Committed(g)
<1>1. ~Exists(f)
  BY DEF NamesOnce
<1>2. RowsOf(f) = {}
  BY <1>1 DEF RowsOf, NamesOnce
<1>3. chunks' = chunks \cup {[chunk_id |-> f, filename |-> f, idx |-> 0]}
  BY <1>2 DEF create_pending
<1>4. replicas' = replicas \cup ({f} \X locs)
  BY <1>2 DEF create_pending, ReplicasWithout
<1>5. \A a \in Address : <<f, a>> \notin replicas
  BY <1>1 DEF NoDanglingReplicas, ChunkExists, NamesOnce
<1>6. files' = [files EXCEPT ![f] = [status |-> "pending", num_chunks |-> 1,
                                     created_at |-> 0]]
  BY DEF create_pending
<1>7. \A g \in Filename : Locations(g)' = IF g = f THEN locs ELSE Locations(g)
  BY <1>4, <1>5 DEF Locations
<1>8. \A g \in Filename : /\ Exists(g)' <=> (g = f \/ Exists(g))
                          /\ Committed(g)' <=> Committed(g)
  BY <1>1, <1>6 DEF Exists, Committed, TypeOK
<1>9. ASSUME NEW g \in Filename
      PROVE  ChunkExists(g)' <=> (g = f \/ ChunkExists(g))
  <2>1. PICK row : row = [chunk_id |-> f, filename |-> f, idx |-> 0]
    OBVIOUS
  <2>2. chunks' = chunks \cup {row} /\ row.chunk_id = f
    BY <1>3, <2>1
  <2> QED
    BY <2>2 DEF ChunkExists
<1> QED
  BY <1>3, <1>4, <1>7, <1>8, <1>9

LEMMA Deleted ==
  ASSUME TypeOK, NamesOnce, NEW f \in Filename, delete_file(f)
  PROVE  /\ chunks' = {c \in chunks : c.chunk_id # f}
         /\ \A g \in Filename :
              /\ g # f => Locations(g)' = Locations(g)
              /\ Exists(g)' <=> (g # f /\ Exists(g))
              /\ g # f => (ChunkExists(g)' <=> ChunkExists(g))
              /\ Committed(g)' <=> (g # f /\ Committed(g))
<1>1. RowsOf(f) = {c \in chunks : c.chunk_id = f}
  BY DEF RowsOf, NamesOnce
<1>2. chunks' = {c \in chunks : c.chunk_id # f}
  BY <1>1 DEF delete_file
<1>3. \A g \in Filename : g # f => Locations(g)' = Locations(g)
  BY <1>1 DEF delete_file, ReplicasWithout, Locations
<1>4. files' = [files EXCEPT ![f] = NoFile]
  BY DEF delete_file
<1>5. \A g \in Filename : /\ Exists(g)' <=> (g # f /\ Exists(g))
                          /\ Committed(g)' <=> (g # f /\ Committed(g))
  BY <1>4 DEF Exists, Committed, TypeOK, NoFile
<1>6. \A g \in Filename : g # f => (ChunkExists(g)' <=> ChunkExists(g))
  BY <1>2 DEF ChunkExists
<1> QED
  BY <1>2, <1>3, <1>5, <1>6

LEMMA RowsInit == Init => RowsInv
<1> SUFFICES ASSUME Init PROVE RowsInv
  OBVIOUS
<1>1. TypeOK /\ NoDanglingReplicas
  BY TypeInit DEF Init, NoDanglingReplicas
<1>2. \A f \in Filename : ~Exists(f)
  BY DEF Init, Exists, NoFile
<1>3. NamesOnce /\ RowsRead /\ RowsRepaired
  BY <1>2 DEF Init, NamesOnce, RowsRead, RowsRepaired, HealIdle
<1>4. RowCount
  BY <1>2 DEF RowCount
<1> QED
  BY <1>1, <1>3, <1>4 DEF RowsInv

\* Steps that change neither the tables nor heal_once.
LEMMA RowsQuiet ==
  ASSUME RowsInv, TypeOK', NoDanglingReplicas', UNCHANGED dbvars,
         UNCHANGED <<heal, created>>, deletes' \subseteq deletes,
         faults'["naming_crash"] = faults["naming_crash"]
  PROVE  RowsInv'
<1>1. NamesOnce'
  BY DEF RowsInv, dbvars, NamesOnce, Exists, ChunkExists
<1>2. RowsRead' /\ RowsRepaired'
  BY DEF RowsInv, dbvars, RowsRead, RowsRepaired, Exists, Committed, Locations
<1>3. RowCount'
  BY DEF RowsInv, dbvars, RowCount, Exists, Locations, Extra
<1> QED
  BY <1>1, <1>2, <1>3 DEF RowsInv

LEMMA CrashBound == FactorAssumption /\ TypeOK =>
  /\ R \in Nat /\ \A k \in FaultKinds : faults[k] \in Nat
  /\ \A f : Extra(f) \in {0, 1}
  /\ \A f : Cardinality(Locations(f)) \in Nat
<1> SUFFICES ASSUME TypeOK, NEW f PROVE Cardinality(Locations(f)) \in Nat
  BY FactorAssumption DEF TypeOK, Extra, FactorAssumption
<1> QED
  BY Finite DEF Locations

LEMMA RowsCreate ==
  ASSUME RowsInv, TypeOK', NoDanglingReplicas', NEW f \in Filename,
         NEW locs \in SUBSET live, CreateFile(f, locs)
  PROVE  RowsInv'
<1> USE DEF RowsInv
<1>1. /\ f \notin created /\ created' = created \cup {f}
      /\ UNCHANGED <<heal, deletes, faults>>
      /\ Cardinality(locs) = R
  BY DEF CreateFile
<1>2. /\ chunks' = chunks \cup {[chunk_id |-> f, filename |-> f, idx |-> 0]}
      /\ \A g \in Filename :
              /\ Locations(g)' = IF g = f THEN locs ELSE Locations(g)
              /\ Exists(g)' <=> (g = f \/ Exists(g))
              /\ ChunkExists(g)' <=> (g = f \/ ChunkExists(g))
              /\ Committed(g)' <=> Committed(g)
  <2>1. locs \subseteq Address
    BY DEF TypeOK
  <2> QED
    BY <1>1, <2>1, Created DEF CreateFile
<1>3. /\ \A m \in heal.chunks : m.chunk_id \in Filename /\ m.chunk_id # f
      /\ heal.pc \in {"copy", "add", "drop"} =>
           heal.cur.chunk_id \in Filename /\ heal.cur.chunk_id # f
  BY <1>1 DEF NamesOnce, TypeOK, Heals, Metas, RepairOK
<1>4. NamesOnce'
  <2>1. \A c \in chunks' : c.chunk_id = c.filename /\ Exists(c.filename)'
    BY <1>2 DEF NamesOnce, TypeOK
  <2>2. \A d \in deletes' : d[2] \in created' /\ ~Exists(d[2])'
    BY <1>1, <1>2 DEF NamesOnce, TypeOK
  <2> QED
    BY <1>1, <1>2, <2>1, <2>2 DEF NamesOnce
<1>5. RowsRead'
  BY <1>1, <1>2, <1>3 DEF RowsRead
<1>6. RowsRepaired'
  BY <1>1, <1>2, <1>3 DEF RowsRepaired
<1>7. RowCount'
  <2> SUFFICES ASSUME NEW g \in Filename, Exists(g)'
               PROVE  Cardinality(Locations(g)') \in
                 (R + Extra(g)')..(R + faults'["naming_crash"] + Extra(g)')
    BY DEF RowCount
  <2>1. Extra(g)' = Extra(g) /\ Extra(f) = 0
    BY <1>1, <1>3 DEF Extra
  <2>2. CASE g = f
    BY <1>1, <1>2, <2>1, <2>2, CrashBound, FactorAssumption DEF FaultKinds
  <2>3. CASE g # f
    BY <1>1, <1>2, <2>1, <2>3 DEF RowCount
  <2> QED
    BY <2>2, <2>3
<1> QED
  BY <1>4, <1>5, <1>6, <1>7

LEMMA RowsCommit ==
  ASSUME RowsInv, TypeOK', NoDanglingReplicas', NEW f \in Filename,
         CommitFile(f)
  PROVE  RowsInv'
<1> USE DEF RowsInv
<1>1. UNCHANGED <<chunks, replicas, heal, created, deletes, faults>>
  BY DEF CommitFile, commit_file
<1>2. \A g \in Filename : /\ Exists(g)' <=> Exists(g)
                          /\ Committed(g) => Committed(g)'
  BY DEF CommitFile, commit_file, Exists, Committed, TypeOK
<1>3. \A g \in Filename : /\ Locations(g)' = Locations(g)
                          /\ ChunkExists(g)' <=> ChunkExists(g)
  BY <1>1 DEF Locations, ChunkExists
<1>4. /\ \A m \in heal.chunks : m.chunk_id \in Filename
      /\ heal.pc \in {"copy", "add", "drop"} => heal.cur.chunk_id \in Filename
  BY DEF TypeOK, Heals, Metas, RepairOK
<1>5. NamesOnce'
  <2>1. \A d \in deletes' : d[2] \in created' /\ ~Exists(d[2])'
    BY <1>1, <1>2 DEF NamesOnce, TypeOK
  <2>2. \A c \in chunks' : c.chunk_id = c.filename /\ Exists(c.filename)'
    BY <1>1, <1>2 DEF NamesOnce, TypeOK
  <2> QED
    BY <1>1, <1>2, <1>3, <2>1, <2>2 DEF NamesOnce
<1>6. RowsRead' /\ RowsRepaired'
  BY <1>1, <1>2, <1>3, <1>4 DEF RowsRead, RowsRepaired
<1>7. RowCount'
  BY <1>1, <1>2, <1>3 DEF RowCount, Extra
<1> QED
  BY <1>5, <1>6, <1>7

LEMMA RowsDelete ==
  ASSUME RowsInv, TypeOK', NoDanglingReplicas', NEW f \in Filename,
         DeleteFile(f)
  PROVE  RowsInv'
<1> USE DEF RowsInv
<1>1. /\ UNCHANGED <<heal, created, faults>>
      /\ deletes' = deletes \cup (Locations(f) \X {f})
      /\ Committed(f)
  BY DEF DeleteFile, Committed
<1>2. /\ chunks' = {c \in chunks : c.chunk_id # f}
      /\ \A g \in Filename :
           /\ g # f => Locations(g)' = Locations(g)
           /\ Exists(g)' <=> (g # f /\ Exists(g))
           /\ g # f => (ChunkExists(g)' <=> ChunkExists(g))
           /\ Committed(g)' <=> (g # f /\ Committed(g))
  BY Deleted DEF DeleteFile
<1>3. /\ \A m \in heal.chunks : m.chunk_id \in Filename
      /\ heal.pc \in {"copy", "add", "drop"} => heal.cur.chunk_id \in Filename
  BY DEF TypeOK, Heals, Metas, RepairOK
<1>4. NamesOnce'
  <2>1. f \in created
    BY <1>1 DEF NamesOnce, Committed, Exists
  <2>2. \A d \in deletes' : d[2] \in created' /\ ~Exists(d[2])'
    BY <1>1, <1>2, <2>1 DEF NamesOnce, TypeOK
  <2>3. \A c \in chunks' : c.chunk_id = c.filename /\ Exists(c.filename)'
    BY <1>2 DEF NamesOnce, TypeOK
  <2> QED
    BY <1>1, <1>2, <2>2, <2>3 DEF NamesOnce
<1>5. RowsRead' /\ RowsRepaired'
  BY <1>1, <1>2, <1>3 DEF RowsRead, RowsRepaired
<1>6. RowCount'
  BY <1>1, <1>2 DEF RowCount, Extra
<1> QED
  BY <1>4, <1>5, <1>6

LEMMA RowsCrash ==
  ASSUME RowsInv, TypeOK', NoDanglingReplicas', NamingCrash
  PROVE  RowsInv'
<1> USE DEF RowsInv
<1>1. /\ UNCHANGED <<dbvars, created>> /\ deletes' \subseteq deletes
      /\ heal' = HealIdle
      /\ faults'["naming_crash"] = faults["naming_crash"] + 1
  BY DEF NamingCrash, Fault, TypeOK, FaultKinds
<1>2. NamesOnce' /\ RowsRead' /\ RowsRepaired'
  BY <1>1 DEF HealIdle, dbvars, NamesOnce, RowsRead, RowsRepaired, Exists,
              ChunkExists
<1>3. RowCount'
  <2> SUFFICES ASSUME NEW g \in Filename, Exists(g)'
               PROVE  Cardinality(Locations(g)') \in
                 (R + Extra(g)')..(R + faults'["naming_crash"] + Extra(g)')
    BY DEF RowCount
  <2>1. Exists(g) /\ Locations(g)' = Locations(g) /\ Extra(g)' = 0
    BY <1>1 DEF dbvars, Exists, Locations, Extra, HealIdle
  <2>2. Cardinality(Locations(g)) \in
                 (R + Extra(g))..(R + faults["naming_crash"] + Extra(g))
    BY <2>1 DEF RowCount
  <2>3. /\ Extra(g) \in {0, 1} /\ R \in Nat /\ faults["naming_crash"] \in Nat
        /\ Cardinality(Locations(g)) \in Nat
    BY CrashBound, FactorAssumption DEF FaultKinds
  <2> QED
    BY <1>1, <2>1, <2>2, <2>3
<1> QED
  BY <1>2, <1>3

\* The steps of heal_once that leave the tables alone.
LEMMA RowsHealReads ==
  ASSUME RowsInv, TypeOK', NoDanglingReplicas', HealStep, UNCHANGED dbvars
  PROVE  RowsInv'
<1> USE DEF RowsInv
<1>1. UNCHANGED <<created, deletes, faults>>
  BY DEF HealStep, HealUnchanged, HealCount, HealPick, HealKnown, HealSelect,
         HealChunk, HealCopy, HealCopyFails, HealAdd, HealAddRaises, HealDrop,
         HealChunkDone, HealDone
<1>2. \A g : /\ Exists(g)' <=> Exists(g)
             /\ Committed(g)' <=> Committed(g)
             /\ Locations(g)' = Locations(g)
             /\ ChunkExists(g)' <=> ChunkExists(g)
  BY DEF dbvars, Exists, Committed, Locations, ChunkExists
<1>3. heal \in Heals /\ HealIdle.chunks = {} /\ HealIdle.pc = "idle"
  BY DEF TypeOK, HealIdle
\* What is enough: the chunks still to do and the one in work come from
\* where they were, and the chunk in work is not about to lose a row.
<1> DEFINE Busy == heal.pc \in {"copy", "add", "drop"}
           Works(h) == h.pc \in {"copy", "add", "drop"}
<1>4. ASSUME heal'.chunks \subseteq heal.chunks, heal'.pc # "drop",
             heal.pc # "drop",
             Works(heal') => /\ Busy /\ heal'.cur = heal.cur
                             /\ heal'.locs = heal.locs
                             /\ heal'.stale = heal.stale
                             /\ heal'.pc = "add" => ~Enough(heal.locs)
      PROVE  RowsInv'
  <2>1. NamesOnce'
    BY <1>1, <1>2, <1>4 DEF NamesOnce, dbvars
  <2>2. RowsRead'
    BY <1>2, <1>4 DEF RowsRead
  <2>3. RowsRepaired'
    BY <1>2, <1>4 DEF RowsRepaired
  <2>4. RowCount'
    BY <1>1, <1>2, <1>4 DEF RowCount, Extra
  <2> QED
    BY <2>1, <2>2, <2>3, <2>4
<1>5. CASE \/ HealCount
           \/ \E set \in SUBSET live : HealPick(set)
           \/ HealDone
  <2>1. heal'.chunks = {} /\ heal'.pc \in {"idle", "pick", "known"}
    <3>1. CASE HealCount
      BY <3>1 DEF HealCount, HealIdle
    <3>0. CASE HealDone
      BY <1>3, <3>0 DEF HealDone
    <3>2. ASSUME NEW set \in SUBSET live, HealPick(set)
          PROVE  heal'.chunks = {} /\ heal'.pc \in {"idle", "pick", "known"}
      BY <3>2 DEF HealPick, HealIdle
    <3> QED
      BY <1>5, <3>0, <3>1, <3>2
  <2>2. heal.pc # "drop"
    BY <1>5 DEF HealCount, HealPick, HealDone
  <2> QED
    BY <2>1, <2>2, <1>4
<1>6. CASE HealKnown
  <2>1. heal.pc = "known" /\ heal'.pc \in {"idle", "select"}
    BY <1>3, <1>6 DEF HealKnown, Heals
  <2>2. heal'.chunks \subseteq heal.chunks
    BY <1>3, <1>6 DEF HealKnown, Heals
  <2> QED
    BY <2>1, <2>2, <1>4
<1>7. CASE HealSelect
  <2>1. /\ heal'.pc = "chunk" /\ heal.pc = "select"
        /\ heal'.chunks = under_replicated_chunks(heal.live, R)
    BY <1>3, <1>7 DEF HealSelect, Heals
  <2>2. ASSUME NEW m \in heal'.chunks
        PROVE  /\ m.chunk_id \in Filename /\ Exists(m.chunk_id)
               /\ Committed(m.chunk_id)
               /\ Locations(m.chunk_id) = m.locations
    <3>1. PICK c \in chunks : /\ files[c.filename].status = "committed"
                              /\ m = [chunk_id |-> c.chunk_id, index |-> c.idx,
                                      locations |-> Locations(c.chunk_id)]
      BY <2>1, <2>2 DEF under_replicated_chunks, CommittedChunks
    <3>2. m.chunk_id = c.chunk_id /\ m.locations = Locations(c.chunk_id)
      BY <3>1
    <3>3. c.filename = c.chunk_id /\ c.chunk_id \in Filename
      BY <3>1 DEF NamesOnce, TypeOK
    <3> QED
      BY <3>1, <3>2, <3>3 DEF Exists, Committed
  <2>3. NamesOnce'
    BY <1>1, <1>2, <2>1, <2>2 DEF NamesOnce, dbvars
  <2>4. RowsRead' /\ RowsRepaired'
    BY <1>2, <2>1, <2>2 DEF RowsRead, RowsRepaired
  <2>5. RowCount'
    BY <1>1, <1>2, <2>1 DEF RowCount, Extra
  <2> QED
    BY <2>3, <2>4, <2>5
<1>8. ASSUME NEW meta \in heal.chunks, HealChunk(meta) PROVE RowsInv'
  <2>1. CASE heal' = [heal EXCEPT !.chunks = @ \ {meta}]
    <3>1. heal.pc = "chunk" /\ heal'.pc = heal.pc /\ heal'.chunks \subseteq heal.chunks
      BY <1>3, <1>8, <2>1 DEF HealChunk, Heals
    <3> QED
      BY <3>1, <1>4
  <2>2. ASSUME NEW source, heal' = Repairing(meta, source) PROVE RowsInv'
    <3>1. /\ heal.pc = "chunk" /\ heal'.pc = "copy"
          /\ heal'.chunks = heal.chunks \ {meta} /\ heal'.cur = meta
          /\ heal'.locs = meta.locations \cap heal.live
          /\ heal'.stale = meta.locations \ heal.live
      BY <1>3, <1>8, <2>2 DEF HealChunk, Heals, Repairing
    <3>2. NamesOnce'
      BY <1>1, <1>2, <3>1 DEF NamesOnce, dbvars
    <3>3. RowsRead'
      BY <1>2, <3>1 DEF RowsRead
    <3>4. \A m \in heal.chunks \ {meta} :
            Exists(meta.chunk_id) => m.chunk_id # meta.chunk_id
      <4> SUFFICES ASSUME NEW m \in heal.chunks, m.chunk_id = meta.chunk_id,
                          Exists(meta.chunk_id)
                   PROVE  m = meta
        OBVIOUS
      <4>1. m.locations = meta.locations
        BY DEF RowsRead
      <4>2. m \in Metas /\ meta \in Metas
        BY <1>3 DEF Heals
      <4> QED
        BY <4>1, <4>2 DEF Metas
    <3>5. heal'.locs \cup heal'.stale = meta.locations
      BY <3>1
    <3>6. RowsRepaired'
      BY <1>2, <3>1, <3>4, <3>5 DEF RowsRepaired, RowsRead
    <3>7. RowCount'
      BY <1>1, <1>2, <3>1 DEF RowCount, Extra
    <3> QED
      BY <3>2, <3>3, <3>6, <3>7
  <2> QED
    BY <1>8, <2>1, <2>2 DEF HealChunk
<1>9. ASSUME NEW a \in heal.cand, HealCopy(a) \/ HealCopyFails(a)
      PROVE  RowsInv'
  <2>1. /\ heal.pc = "copy" /\ heal'.pc \in {"copy", "add"}
        /\ ~Enough(heal.locs)
        /\ heal'.chunks = heal.chunks /\ heal'.cur = heal.cur
        /\ heal'.locs = heal.locs /\ heal'.stale = heal.stale
    BY <1>3, <1>9 DEF HealCopy, HealCopyFails, NeedsCopy, Heals
  <2> QED
    BY <2>1, <1>4
<1>10. CASE HealAddRaises
  BY <1>3, <1>4, <1>10 DEF HealAddRaises
<1>11. CASE HealChunkDone
  <2>1. heal.pc = "copy" /\ heal'.pc = "chunk" /\ heal'.chunks = heal.chunks
    BY <1>11 DEF HealChunkDone, HealIdle
  <2> QED
    BY <2>1, <1>4
<1>12. CASE HealAdd \/ \E a \in heal.stale : HealDrop(a)
  <2>1. CASE HealAdd
    <3>1. /\ heal'.pc \in {"copy", "drop"} /\ heal.pc = "add"
          /\ ~Enough(heal.locs)
          /\ Exists(heal.cur.chunk_id)
      BY <1>3, <2>1 DEF HealAdd, Recorded, Heals, add_replica, ChunkExists,
         NamesOnce, RowsRepaired
    <3>2. heal.target \notin heal.locs \cup heal.stale
      BY <3>1 DEF TypeOK, RepairOK
    <3>3. <<heal.cur.chunk_id, heal.target>> \in replicas'
      BY <2>1 DEF HealAdd, add_replica
    <3>4. heal.target \in Address
      BY <3>1, <1>3 DEF TypeOK, RepairOK, Heals
    <3>5. heal.target \in Locations(heal.cur.chunk_id)
      BY <3>3, <3>4 DEF dbvars, Locations
    <3> QED
      BY <3>1, <3>2, <3>5 DEF RowsRepaired
  <2>2. ASSUME NEW a \in heal.stale, HealDrop(a) PROVE RowsInv'
    <3>1. heal.pc = "drop" /\ heal'.pc = "copy"
          /\ heal'.chunks = heal.chunks /\ heal'.cur = heal.cur
          /\ heal'.locs = heal.locs /\ heal'.stale = heal.stale \ {a}
      BY <1>3, <2>2 DEF HealDrop, Heals
    <3>2. <<heal.cur.chunk_id, a>> \notin replicas
      BY <2>2 DEF HealDrop, remove_replica, dbvars
    <3>3. a \notin Locations(heal.cur.chunk_id)
      BY <3>2 DEF Locations
    <3>4. ~Exists(heal.cur.chunk_id)
      BY <3>1, <3>3 DEF RowsRepaired
    <3>5. NamesOnce'
      BY <1>1, <1>2, <3>1 DEF NamesOnce, dbvars
    <3>6. RowsRead' /\ RowsRepaired'
      BY <1>2, <3>1, <3>4 DEF RowsRead, RowsRepaired
    <3>7. RowCount'
      BY <1>1, <1>2, <3>1, <3>4 DEF RowCount, Extra
    <3> QED
      BY <3>5, <3>6, <3>7
  <2> QED
    BY <1>12, <2>1, <2>2
<1> HIDE DEF Busy, Works
<1> QED
  BY <1>5, <1>6, <1>7, <1>8, <1>9, <1>10, <1>11, <1>12 DEF HealStep

\* A row is added before one is removed, and there is one to remove.
LEMMA RowsAdd ==
  ASSUME RowsInv, TypeOK', NoDanglingReplicas', HealAdd
  PROVE  RowsInv'
<1> USE DEF RowsInv
<1>1. PICK id : id = heal.cur.chunk_id
  OBVIOUS
<1>2. PICK t : t = heal.target
  OBVIOUS
<1>3. /\ UNCHANGED <<files, chunks, created, deletes, faults>>
      /\ replicas' = replicas \cup {<<id, t>>}
      /\ heal.pc = "add" /\ ChunkExists(id)
      /\ heal'.locs = heal.locs \cup {t} /\ heal'.stale = heal.stale
      /\ heal'.cur = heal.cur /\ heal'.chunks = heal.chunks
      /\ heal'.pc = IF heal.stale = {} THEN "copy" ELSE "drop"
  BY <1>1, <1>2 DEF HealAdd, HealUnchanged, add_replica, Recorded, TypeOK, Heals
<1>4. /\ id \in Filename /\ t \in Address
      /\ t \notin heal.locs \cup heal.stale
      /\ heal.locs \subseteq Address /\ heal.stale \subseteq Address
  BY <1>1, <1>2, <1>3 DEF TypeOK, RepairOK, Heals, Metas
<1>5. \A g : /\ Exists(g)' <=> Exists(g)
             /\ Committed(g)' <=> Committed(g)
             /\ ChunkExists(g)' <=> ChunkExists(g)
  BY <1>3 DEF Exists, Committed, ChunkExists
<1>6. /\ Exists(id) /\ Committed(id)
      /\ Locations(id) = heal.locs \cup heal.stale
      /\ \A m \in heal.chunks : m.chunk_id # id
      /\ ~Enough(heal.locs)
  BY <1>1, <1>3 DEF ChunkExists, NamesOnce, RowsRepaired
<1>7. /\ Locations(id)' = Locations(id) \cup {t}
      /\ \A g : g # id => Locations(g)' = Locations(g)
  BY <1>3, <1>4 DEF Locations
<1>8. /\ Cardinality(Locations(id)) \in R..(R + faults["naming_crash"])
      /\ R \in Nat /\ faults["naming_crash"] \in Nat
  <2>1. Extra(id) = 0
    BY <1>3 DEF Extra
  <2>2. R \in Nat /\ faults["naming_crash"] \in Nat
    BY CrashBound, FactorAssumption DEF FaultKinds
  <2>3. Cardinality(Locations(id)) \in (R + 0)..(R + faults["naming_crash"] + 0)
    BY <1>4, <1>6, <2>1 DEF RowCount
  <2> QED
    BY <2>2, <2>3
<1>9. heal.stale # {}
  <2> SUFFICES ASSUME heal.stale = {} PROVE FALSE
    OBVIOUS
  <2>1. Cardinality(Locations(id)) = Cardinality(heal.locs)
    BY <1>6
  <2>2. ~(Cardinality(heal.locs) >= R)
    BY <1>6 DEF Enough
  <2> QED
    BY <1>8, <2>1, <2>2
<1>10. NamesOnce'
  BY <1>1, <1>3, <1>5 DEF NamesOnce
<1>11. RowsRead'
  BY <1>3, <1>5, <1>6, <1>7 DEF RowsRead
<1>12. RowsRepaired'
  BY <1>1, <1>3, <1>5, <1>6, <1>7, <1>9 DEF RowsRepaired
<1>13. RowCount'
  <2> SUFFICES ASSUME NEW g \in Filename, Exists(g)'
               PROVE  Cardinality(Locations(g)') \in
                 (R + Extra(g)')..(R + faults'["naming_crash"] + Extra(g)')
    BY DEF RowCount
  <2>1. CASE g = id
    <3>1. Extra(g)' = 1
      BY <1>1, <1>3, <1>9, <2>1 DEF Extra
    <3>2. Locations(id) \in SUBSET Address /\ t \in Address \ Locations(id)
      BY <1>4, <1>6
    <3>3. Cardinality(Locations(id)') = Cardinality(Locations(id)) + 1
      BY <1>7, <3>2, OneMore
    <3>4. /\ R \in Nat /\ faults["naming_crash"] \in Nat
          /\ Cardinality(Locations(id)) \in Nat
      BY <1>8, CrashBound, FactorAssumption
    <3> QED
      BY <1>3, <1>8, <2>1, <3>1, <3>3, <3>4
  <2>2. CASE g # id
    <3>1. Extra(g)' = Extra(g) /\ Locations(g)' = Locations(g) /\ Exists(g)
      BY <1>1, <1>3, <1>5, <1>7, <2>2 DEF Extra
    <3> QED
      BY <1>3, <3>1 DEF RowCount
  <2> QED
    BY <2>1, <2>2
<1> QED
  BY <1>10, <1>11, <1>12, <1>13

LEMMA RowsDrop ==
  ASSUME RowsInv, TypeOK', NoDanglingReplicas', NEW a \in heal.stale,
         HealDrop(a)
  PROVE  RowsInv'
<1> USE DEF RowsInv
<1>1. PICK id : id = heal.cur.chunk_id
  OBVIOUS
<1>3. /\ UNCHANGED <<files, chunks, created, deletes, faults>>
      /\ replicas' = replicas \ {<<id, a>>}
      /\ heal.pc = "drop" /\ heal'.pc = "copy"
      /\ heal'.locs = heal.locs /\ heal'.stale = heal.stale \ {a}
      /\ heal'.cur = heal.cur /\ heal'.chunks = heal.chunks
  BY <1>1 DEF HealDrop, HealUnchanged, remove_replica, TypeOK, Heals
<1>4. /\ id \in Filename /\ a \in Address
      /\ heal.stale \cap heal.locs = {}
  BY <1>1, <1>3 DEF TypeOK, RepairOK, Heals, Metas
<1>5. \A g : /\ Exists(g)' <=> Exists(g)
             /\ Committed(g)' <=> Committed(g)
             /\ ChunkExists(g)' <=> ChunkExists(g)
  BY <1>3 DEF Exists, Committed, ChunkExists
<1>6. Exists(id) =>
        /\ Committed(id)
        /\ Locations(id) = heal.locs \cup heal.stale
        /\ \A m \in heal.chunks : m.chunk_id # id
  BY <1>1, <1>3 DEF RowsRepaired
<1>7. /\ Locations(id)' = Locations(id) \ {a}
      /\ \A g : g # id => Locations(g)' = Locations(g)
  BY <1>3, <1>4 DEF Locations
<1>10. NamesOnce'
  BY <1>1, <1>3, <1>5 DEF NamesOnce
<1>11. RowsRead'
  BY <1>3, <1>5, <1>6, <1>7 DEF RowsRead
<1>12. RowsRepaired'
  <2>1. Exists(id) => Locations(id)' = heal.locs \cup (heal.stale \ {a})
    BY <1>4, <1>6, <1>7
  <2> QED
    BY <1>1, <1>3, <1>5, <1>6, <2>1 DEF RowsRepaired
<1>13. RowCount'
  <2> SUFFICES ASSUME NEW g \in Filename, Exists(g)'
               PROVE  Cardinality(Locations(g)') \in
                 (R + Extra(g)')..(R + faults'["naming_crash"] + Extra(g)')
    BY DEF RowCount
  <2>0. Extra(g)' = 0 /\ Exists(g)
    BY <1>3, <1>5 DEF Extra
  <2>1. CASE g = id
    <3>1. Extra(g) = 1
      BY <1>1, <1>3, <2>1 DEF Extra
    <3>2. Locations(id) \in SUBSET Address /\ a \in Locations(id)
      BY <1>6, <2>0, <2>1 DEF Locations
    <3>3. Cardinality(Locations(id)') = Cardinality(Locations(id)) - 1
      BY <1>7, <3>2, OneLess
    <3>4. /\ R \in Nat /\ faults["naming_crash"] \in Nat
          /\ Cardinality(Locations(id)) \in Nat
      BY CrashBound, FactorAssumption DEF FaultKinds
    <3>5. Cardinality(Locations(id)) \in
            (R + 1)..(R + faults["naming_crash"] + 1)
      BY <2>0, <2>1, <3>1 DEF RowCount
    <3> QED
      BY <1>3, <2>0, <2>1, <3>3, <3>4, <3>5
  <2>2. CASE g # id
    <3>1. Extra(g)' = Extra(g) /\ Locations(g)' = Locations(g)
      BY <1>1, <1>3, <1>7, <2>2 DEF Extra
    <3> QED
      BY <1>3, <2>0, <3>1 DEF RowCount
  <2> QED
    BY <2>1, <2>2
<1> QED
  BY <1>10, <1>11, <1>12, <1>13

LEMMA RowsNext == RowsInv /\ [Next]_vars => RowsInv'
<1> SUFFICES ASSUME RowsInv, [Next]_vars PROVE RowsInv'
  OBVIOUS
<1>1. TypeOK' /\ NoDanglingReplicas'
  BY TypeNext, NextDangling DEF RowsInv
<1>2. CASE HealStep
  <2>1. \/ HealAdd \/ (\E a \in heal.stale : HealDrop(a))
        \/ UNCHANGED dbvars
    BY <1>2 DEF HealStep, HealCount, HealPick, HealKnown, HealSelect,
       HealChunk, HealCopy, HealCopyFails, HealAddRaises, HealChunkDone,
       HealDone
  <2> QED
    BY <1>1, <1>2, <2>1, RowsAdd, RowsDrop, RowsHealReads
<1>3. CASE \/ \E f \in Filename : \E a \in todo[f] : StoreChunks(f, a)
           \/ \E d \in deletes : DeleteChunk(d[1], d[2])
           \/ \E a \in Address : ServerStep(a)
           \/ UNCHANGED vars
  <2>1. /\ UNCHANGED dbvars /\ UNCHANGED <<heal, created>>
        /\ deletes' \subseteq deletes
    BY <1>3 DEF dbvars, vars, StoreChunks, DeleteChunk, ServerStep, mark_alive,
       Expire, ServerStops, DiskLost, ServerStarts, ScrubAsk, ScrubSkipped,
       ScrubList, ScrubRemove
  <2>2. \/ UNCHANGED faults
        \/ \E k \in FaultKinds \ {"naming_crash"} : Fault(k)
    BY <1>3 DEF vars, StoreChunks, DeleteChunk, ServerStep, mark_alive,
       Expire, ServerStops, DiskLost, ServerStarts, ScrubAsk, ScrubSkipped,
       ScrubList, ScrubRemove, FaultKinds
  <2>3. faults'["naming_crash"] = faults["naming_crash"]
    BY <2>2 DEF Fault, RowsInv, TypeOK, FaultKinds
  <2> QED
    BY <1>1, <2>1, <2>3, RowsQuiet
<1> QED
  BY <1>1, <1>2, <1>3, RowsCreate, RowsCommit, RowsDelete, RowsCrash
  DEF Next, FileStep

LEMMA RowsImply == RowsInv => ReplicaRows
<1> SUFFICES ASSUME RowsInv, NEW f \in Filename, Committed(f)
             PROVE  Cardinality(Locations(f)) \in
                      R..(R + faults["naming_crash"] + Extra(f))
  BY DEF ReplicaRows
<1>1. Cardinality(Locations(f)) \in
        (R + Extra(f))..(R + faults["naming_crash"] + Extra(f))
  BY DEF RowsInv, RowCount, Exists, Committed
<1>2. /\ R \in Nat /\ faults["naming_crash"] \in Nat /\ Extra(f) \in {0, 1}
      /\ Cardinality(Locations(f)) \in Nat
  BY CrashBound, FactorAssumption DEF RowsInv, FaultKinds
<1> QED
  BY <1>1, <1>2

\* A committed chunk never has fewer than R replica rows, and only a crash of
\* the naming server leaves more (heal_once, add_replica, remove_replica).
THEOREM RowsKept == Spec => []ReplicaRows
<1>1. Spec => []RowsInv
  BY RowsInit, RowsNext, PTL DEF Spec
<1> QED
  BY <1>1, RowsImply, PTL

-----------------------------------------------------------------------------
(***************************************************************************)
(* Copies.  A server that a row names, or is about to name, has the chunk, *)
(* waits for the client's upload, or ran a scrub that overlooked it.  The  *)
(* servers of which nothing of this is true have lost their disk.          *)
(***************************************************************************)

Named(f, a) == a \in Locations(f) \/ InWork(f, a)

Covered(f, a) == f \in disk[a] \/ a \in todo[f] \/ a \in raced[f]

Missing(f) == {a \in Address : Named(f, a) /\ ~Covered(f, a)}

Uploaded == \A f \in Filename : Committed(f) => todo[f] = {}

RacedKnown ==
  \A f \in Filename, a \in Address :
    Exists(f) /\ Named(f, a) /\ Overlooks(a, f) => a \in raced[f]

MissingPaid ==
  \A f \in Filename :
    Exists(f) => Cardinality(Missing(f)) <= faults["lose_disk"]

CopiesInv == RowsInv /\ Uploaded /\ RacedKnown /\ MissingPaid

\* What a step does to a server that a row names, or is about to name, after
\* it: a scrub that overlooks the chunk is known, and the server is covered or
\* was not covered before.
Kept(f, a) ==
  /\ Overlooks(a, f)' => (a \in raced[f])'
  /\ Covered(f, a)' \/ (Exists(f) /\ Named(f, a) /\ ~Covered(f, a))

\* The copy of a server that was covered is still there, and nobody else
\* began to overlook it.
LEMMA KeptIfSame ==
  ASSUME CopiesInv, NEW f \in Filename, NEW a \in Address, Exists(f),
         Named(f, a), raced'[f] = raced[f],
         Overlooks(a, f)' => Overlooks(a, f),
         f \in disk[a] => f \in disk'[a] \/ a \in raced[f],
         a \in todo[f] => f \in disk'[a] \/ a \in todo'[f]
  PROVE  Kept(f, a)
BY DEF CopiesInv, RacedKnown, Kept, Covered

LEMMA CopiesInit == Init => CopiesInv
<1> SUFFICES ASSUME Init PROVE CopiesInv
  OBVIOUS
<1>1. \A f \in Filename : ~Exists(f) /\ ~Committed(f)
  BY DEF Init, Exists, NoFile, Committed
<1> QED
  BY <1>1, RowsInit DEF CopiesInv, Uploaded, RacedKnown, MissingPaid

LEMMA CopiesFile ==
  ASSUME CopiesInv, RowsInv', FileStep
  PROVE  /\ Uploaded'
         /\ \A f \in Filename, a \in Address :
              Exists(f)' /\ Named(f, a)' => Kept(f, a)
<1> USE DEF CopiesInv, RowsInv
<1>1. UNCHANGED <<heal, scrub>>
  BY DEF FileStep, CreateFile, StoreChunks, CommitFile, DeleteFile, DeleteChunk
<1>2. \A f, a : /\ InWork(f, a)' <=> InWork(f, a)
                /\ Overlooks(a, f)' <=> Overlooks(a, f)
  BY <1>1 DEF InWork, Overlooks
<1>3. ASSUME NEW g \in Filename, NEW locs \in SUBSET live, CreateFile(g, locs)
      PROVE  /\ Uploaded'
             /\ \A f \in Filename, a \in Address :
                  Exists(f)' /\ Named(f, a)' => Kept(f, a)
  <2>1. /\ disk' = disk /\ todo' = [todo EXCEPT ![g] = locs]
        /\ raced' = [raced EXCEPT ![g] = {a \in locs : Overlooks(a, g)}]
        /\ \A f \in Filename :
             /\ Locations(f)' = IF f = g THEN locs ELSE Locations(f)
             /\ Exists(f)' <=> (f = g \/ Exists(f))
             /\ Committed(f)' <=> Committed(f)
    <3>1. locs \subseteq Address
      BY DEF TypeOK
    <3> QED
      BY <1>3, <3>1, Created DEF CreateFile
  <2>2. g \notin created /\ ~Committed(g)
    BY <1>3 DEF CreateFile, NamesOnce, Exists, Committed
  <2>3. Uploaded'
    BY <2>1, <2>2 DEF Uploaded, TypeOK
  <2>4. ASSUME NEW f \in Filename, NEW a \in Address, Exists(f)', Named(f, a)'
        PROVE  Kept(f, a)
    <3>1. CASE f = g
      <4>1. ~InWork(g, a)
        BY <2>2 DEF InWork, NamesOnce
      <4>2. a \in locs
        BY <1>2, <2>1, <2>4, <3>1, <4>1 DEF Named
      <4>3. raced'[g] = {b \in locs : Overlooks(b, g)} /\ todo'[g] = locs
        BY <2>1 DEF TypeOK
      <4> QED
        BY <1>2, <3>1, <4>2, <4>3 DEF Kept, Covered
    <3>2. CASE f # g
      <4>1. raced'[f] = raced[f] /\ todo'[f] = todo[f]
        BY <2>1, <3>2 DEF TypeOK
      <4>2. Exists(f) /\ Named(f, a)
        BY <1>2, <2>1, <2>4, <3>2 DEF Named
      <4> QED
        BY <1>2, <2>1, <4>1, <4>2, KeptIfSame
    <3> QED
      BY <3>1, <3>2
  <2> QED
    BY <2>3, <2>4
<1>4. ASSUME NEW g \in Filename, NEW b \in todo[g], StoreChunks(g, b)
      PROVE  /\ Uploaded'
             /\ \A f \in Filename, a \in Address :
                  Exists(f)' /\ Named(f, a)' => Kept(f, a)
  <2>1. /\ \A f : /\ Locations(f)' = Locations(f)
                  /\ Exists(f)' <=> Exists(f)
                  /\ Committed(f)' <=> Committed(f)
        /\ disk' = [disk EXCEPT ![b] = @ \cup {g}]
        /\ todo' = [todo EXCEPT ![g] = @ \ {b}]
        /\ b \in Address /\ raced' = raced
    BY <1>4 DEF StoreChunks, dbvars, Locations, Exists, Committed, TypeOK
  <2>2. Uploaded'
    BY <2>1 DEF Uploaded, TypeOK
  <2>3. ASSUME NEW f \in Filename, NEW a \in Address, Exists(f)', Named(f, a)'
        PROVE  Kept(f, a)
    <3>1. Exists(f) /\ Named(f, a)
      BY <1>2, <2>1, <2>3 DEF Named
    <3>2. /\ f \in disk[a] => f \in disk'[a]
          /\ a \in todo[f] => f \in disk'[a] \/ a \in todo'[f]
      BY <2>1 DEF TypeOK
    <3> QED
      BY <1>2, <2>1, <3>1, <3>2, KeptIfSame
  <2> QED
    BY <2>2, <2>3
<1>5. ASSUME NEW g \in Filename, CommitFile(g) \/ DeleteFile(g)
      PROVE  /\ Uploaded'
             /\ \A f \in Filename, a \in Address :
                  Exists(f)' /\ Named(f, a)' => Kept(f, a)
  <2>1. UNCHANGED <<disk, todo, raced>>
    BY <1>5 DEF CommitFile, DeleteFile
  <2>2. \A f \in Filename :
          /\ Exists(f)' => Exists(f) /\ Locations(f)' = Locations(f)
          /\ Committed(f)' => Committed(f) \/ todo[f] = {}
    <3>1. CASE CommitFile(g)
      BY <3>1 DEF CommitFile, commit_file, Locations, Exists, Committed, TypeOK
    <3>2. CASE DeleteFile(g)
      BY <3>2, Deleted DEF DeleteFile
    <3> QED
      BY <1>5, <3>1, <3>2
  <2>3. Uploaded'
    BY <2>1, <2>2 DEF Uploaded
  <2>4. ASSUME NEW f \in Filename, NEW a \in Address, Exists(f)', Named(f, a)'
        PROVE  Kept(f, a)
    <3>1. Exists(f) /\ Named(f, a)
      BY <1>2, <2>2, <2>4 DEF Named
    <3> QED
      BY <1>2, <2>1, <3>1, KeptIfSame
  <2> QED
    BY <2>3, <2>4
<1>6. ASSUME NEW d \in deletes, DeleteChunk(d[1], d[2])
      PROVE  /\ Uploaded'
             /\ \A f \in Filename, a \in Address :
                  Exists(f)' /\ Named(f, a)' => Kept(f, a)
  <2>0. PICK b, id : b = d[1] /\ id = d[2]
    OBVIOUS
  <2>1. /\ \A f : /\ Locations(f)' = Locations(f)
                  /\ Exists(f)' <=> Exists(f)
                  /\ Committed(f)' <=> Committed(f)
        /\ disk' = disk \/ disk' = [disk EXCEPT ![b] = @ \ {id}]
        /\ UNCHANGED <<todo, raced>>
    BY <1>6, <2>0 DEF DeleteChunk, dbvars, Locations, Exists, Committed
  <2>2. Uploaded'
    BY <2>1 DEF Uploaded
  <2>3. ASSUME NEW f \in Filename, NEW a \in Address, Exists(f)', Named(f, a)'
        PROVE  Kept(f, a)
    <3>1. Exists(f) /\ Named(f, a) /\ f # id
      BY <1>2, <2>0, <2>1, <2>3 DEF Named, NamesOnce
    <3>2. f \in disk[a] => f \in disk'[a]
      <4>1. disk' = disk \/ disk' = [disk EXCEPT ![b] = @ \ {id}]
        BY <2>1
      <4>2. disk \in [Address -> SUBSET Filename]
        BY DEF TypeOK
      <4> QED
        BY <3>1, <4>1, <4>2
    <3> QED
      BY <1>2, <2>1, <3>1, <3>2, KeptIfSame
  <2> QED
    BY <2>2, <2>3
<1> QED
  BY <1>3, <1>4, <1>5, <1>6 DEF FileStep

\* A scrub removes the chunks it overlooks and no others, and of those that a
\* row names this is known since the row or the copy was made.
LEMMA CopiesServer ==
  ASSUME CopiesInv, RowsInv', NEW b \in Address, ServerStep(b)
  PROVE  /\ Uploaded'
         /\ \A f \in Filename, a \in Address :
              Exists(f)' /\ Named(f, a)' =>
                Kept(f, a) \/ (DiskLost(b) /\ a = b)
         /\ DiskLost(b) => \A f, a : /\ Overlooks(a, f)' <=> Overlooks(a, f)
                                     /\ raced' = raced
<1> USE DEF CopiesInv, RowsInv
<1>1. UNCHANGED <<dbvars, heal, todo>>
  BY DEF ServerStep, mark_alive, Expire, ServerStops, DiskLost, ServerStarts,
         ScrubAsk, ScrubSkipped, ScrubList, ScrubRemove
<1>2. /\ \A f : /\ Locations(f)' = Locations(f)
                /\ Exists(f)' <=> Exists(f)
                /\ Committed(f)' <=> Committed(f)
      /\ \A f, a : /\ InWork(f, a)' <=> InWork(f, a)
                   /\ Named(f, a)' <=> Named(f, a)
  BY <1>1 DEF dbvars, Locations, Exists, Committed, InWork, Named
<1>3. Uploaded'
  BY <1>1, <1>2 DEF Uploaded
<1>4. DiskLost(b) => \A f, a : /\ Overlooks(a, f)' <=> Overlooks(a, f)
                               /\ raced' = raced
  BY DEF DiskLost, Overlooks
<1>5. SUFFICES ASSUME NEW f \in Filename, NEW a \in Address,
                      Exists(f), Named(f, a)
               PROVE  Kept(f, a) \/ (DiskLost(b) /\ a = b)
  BY <1>2, <1>3, <1>4
\* Steps that touch no disk.
<1>6. ASSUME UNCHANGED <<disk, raced>>, Overlooks(a, f)' => Overlooks(a, f)
      PROVE  Kept(f, a)
  BY <1>1, <1>5, <1>6, KeptIfSame
<1>7. CASE mark_alive(b) \/ Expire(b)
  BY <1>6, <1>7 DEF mark_alive, Expire, Overlooks
<1>8. CASE ServerStops(b) \/ ScrubSkipped(b) \/ ServerStarts(b)
  <2>1. /\ UNCHANGED <<disk, raced>>
        /\ \A c \in Address \ {b} : scrub'[c] = scrub[c]
        /\ scrub'[b].pc \in {"idle", "ask"}
    BY <1>8 DEF ServerStops, ScrubSkipped, ServerStarts, ScrubIdle, TypeOK
  <2>2. Overlooks(a, f)' => Overlooks(a, f)
    BY <2>1 DEF Overlooks
  <2> QED
    BY <1>6, <2>1, <2>2
<1>9. CASE ScrubAsk(b)
  <2>1. /\ disk' = disk
        /\ scrub' = [scrub EXCEPT ![b] = [pc |-> "list",
                                          ids |-> list_chunk_ids_for(b)]]
        /\ raced'[f] = IF InWork(f, b) /\ f \notin list_chunk_ids_for(b)
                       THEN raced[f] \cup {b} ELSE raced[f]
    BY <1>9 DEF ScrubAsk
  <2>2. CASE a = b
    <3>1. Overlooks(a, f)' => f \notin list_chunk_ids_for(a)
      BY <2>1, <2>2 DEF Overlooks, TypeOK
    <3>2. a \in Locations(f) => f \in list_chunk_ids_for(a)
      <4> SUFFICES ASSUME a \in Locations(f) PROVE f \in list_chunk_ids_for(a)
        OBVIOUS
      <4>1. <<f, a>> \in replicas /\ ChunkExists(f)
        BY <1>5 DEF Locations, NamesOnce
      <4> QED
        BY <4>1 DEF ChunkExists, list_chunk_ids_for
    <3>3. Overlooks(a, f)' => a \in raced'[f]
      BY <1>5, <2>1, <2>2, <3>1, <3>2 DEF Named
    <3>4. Covered(f, a) => Covered(f, a)'
      BY <1>1, <2>1 DEF Covered
    <3> QED
      BY <1>5, <3>3, <3>4 DEF Kept
  <2>3. CASE a # b
    <3>1. Overlooks(a, f)' => Overlooks(a, f)
      BY <2>1, <2>3 DEF Overlooks, TypeOK
    <3>2. Overlooks(a, f) => a \in raced[f]
      BY <1>5 DEF RacedKnown
    <3>3. raced[f] \subseteq raced'[f]
      BY <2>1
    <3>4. Covered(f, a) => Covered(f, a)'
      BY <1>1, <2>1, <3>3 DEF Covered
    <3> QED
      BY <1>5, <3>1, <3>2, <3>3, <3>4 DEF Kept
  <2> QED
    BY <2>2, <2>3
<1>10. CASE ScrubList(b)
  <2>1. /\ UNCHANGED <<disk, raced>> /\ scrub[b].pc = "list"
        /\ \A c \in Address \ {b} : scrub'[c] = scrub[c]
        /\ \/ scrub'[b].pc = "idle"
           \/ scrub'[b] = [pc |-> "remove", ids |-> Orphans(b)]
    BY <1>10 DEF ScrubList, ScrubIdle, TypeOK
  <2>2. Overlooks(a, f)' => Overlooks(a, f)
    BY <2>1 DEF Overlooks, Orphans
  <2> QED
    BY <1>6, <2>1, <2>2
<1>11. CASE DiskLost(b)
  <2>1. /\ disk' = [disk EXCEPT ![b] = {}] /\ raced' = raced
        /\ Overlooks(a, f)' <=> Overlooks(a, f)
    BY <1>11 DEF DiskLost, Overlooks
  <2>2. a # b => (f \in disk[a] => f \in disk'[a])
    BY <2>1 DEF TypeOK
  <2> QED
    BY <1>1, <1>5, <1>11, <2>1, <2>2, KeptIfSame
<1>12. ASSUME NEW id \in scrub[b].ids, ScrubRemove(b, id) PROVE Kept(f, a)
  <2>1. /\ scrub[b].pc = "remove" /\ raced' = raced
        /\ disk' = [disk EXCEPT ![b] = @ \ {id}]
        /\ \A c \in Address \ {b} : scrub'[c] = scrub[c]
    BY <1>12 DEF ScrubRemove, TypeOK
  <2>2. \/ scrub'[b].pc = "idle"
        \/ scrub'[b].pc = "remove" /\ scrub'[b].ids = scrub[b].ids \ {id}
    BY <1>12 DEF ScrubRemove, TypeOK, ScrubIdle
  <2>3. Overlooks(a, f)' => Overlooks(a, f)
    BY <2>1, <2>2 DEF Overlooks
  <2>4. f \in disk[a] => f \in disk'[a] \/ a \in raced[f]
    <3>1. CASE a = b /\ f = id
      BY <1>5, <1>12, <2>1, <3>1 DEF Overlooks, RacedKnown
    <3>2. CASE ~(a = b /\ f = id)
      BY <2>1, <3>2 DEF TypeOK
    <3> QED
      BY <3>1, <3>2
  <2> QED
    BY <1>1, <1>5, <2>1, <2>3, <2>4, KeptIfSame
<1> QED
  BY <1>7, <1>8, <1>9, <1>10, <1>11, <1>12 DEF ServerStep

LEMMA CopiesCrash ==
  ASSUME CopiesInv, RowsInv', NamingCrash
  PROVE  /\ Uploaded'
         /\ \A f \in Filename, a \in Address :
              Exists(f)' /\ Named(f, a)' => Kept(f, a)
<1> USE DEF CopiesInv, RowsInv
<1>1. UNCHANGED <<dbvars, disk, scrub, todo, raced>> /\ heal' = HealIdle
  BY DEF NamingCrash
<1>2. /\ \A f : /\ Locations(f)' = Locations(f)
                /\ Exists(f)' <=> Exists(f)
                /\ Committed(f)' <=> Committed(f)
      /\ \A f, a : /\ ~InWork(f, a)'
                   /\ Overlooks(a, f)' <=> Overlooks(a, f)
  BY <1>1 DEF HealIdle, dbvars, Locations, Exists, Committed, InWork, Overlooks
<1>3. Uploaded'
  BY <1>1, <1>2 DEF Uploaded
<1>4. ASSUME NEW f \in Filename, NEW a \in Address, Exists(f)', Named(f, a)'
      PROVE  Kept(f, a)
  <2>1. Exists(f) /\ Named(f, a)
    BY <1>2, <1>4 DEF Named
  <2> QED
    BY <1>1, <1>2, <2>1, KeptIfSame
<1> QED
  BY <1>3, <1>4

\* A server is about to be named after it stored the copy.
LEMMA CopiesHeal ==
  ASSUME CopiesInv, RowsInv', HealStep
  PROVE  /\ Uploaded'
         /\ \A f \in Filename, a \in Address :
              Exists(f)' /\ Named(f, a)' => Kept(f, a)
<1> USE DEF CopiesInv, RowsInv
<1>1. UNCHANGED <<scrub, todo, files, chunks>>
  BY DEF HealStep, HealUnchanged, HealCount, HealPick, HealKnown, HealSelect,
         HealChunk, HealCopy, HealCopyFails, HealAdd, HealAddRaises, HealDrop,
         HealChunkDone, HealDone, dbvars, add_replica, remove_replica
<1>2. \A f : /\ Exists(f)' <=> Exists(f)
             /\ Committed(f)' <=> Committed(f)
             /\ \A a : Overlooks(a, f)' <=> Overlooks(a, f)
  BY <1>1 DEF Exists, Committed, Overlooks
<1>3. Uploaded'
  BY <1>1, <1>2 DEF Uploaded
<1>4. heal \in Heals
  BY DEF TypeOK
<1>5. SUFFICES ASSUME NEW f \in Filename, NEW a \in Address,
                      Exists(f), Named(f, a)'
               PROVE  Kept(f, a)
  BY <1>2, <1>3
<1>6. PICK id : id = heal.cur.chunk_id
  OBVIOUS
\* Steps after which no other server is named.
<1>7. ASSUME Named(f, a), raced' = raced, f \in disk[a] => f \in disk'[a]
      PROVE  Kept(f, a)
  BY <1>1, <1>2, <1>5, <1>7, KeptIfSame
<1>8. CASE ~((\E t \in heal.cand : HealCopy(t)) \/ HealAdd)
  <2>1. raced' = raced /\ (f \in disk[a] => f \in disk'[a])
    <3>1. CASE UNCHANGED <<disk, raced>>
      BY <3>1
    <3>2. ASSUME NEW t \in heal.cand, disk' = [disk EXCEPT ![t] = @ \cup {id}]
          PROVE  f \in disk[a] => f \in disk'[a]
      BY <3>2 DEF TypeOK
    <3> QED
      BY <1>6, <1>8, <3>1, <3>2 DEF HealStep, HealUnchanged, HealCount,
         HealPick, HealKnown, HealSelect, HealChunk, HealCopyFails,
         HealAddRaises, HealDrop, HealChunkDone, HealDone
  <2>2. heal'.pc # "add"
    <3>1. CASE HealCount
      BY <3>1 DEF HealCount, HealIdle
    <3>9. CASE HealDone
      BY <3>9 DEF HealDone, HealIdle
    <3>7. CASE HealKnown
      BY <1>4, <3>7 DEF HealKnown, HealIdle, Heals
    <3>8. CASE HealSelect
      BY <1>4, <3>8 DEF HealSelect, Heals
    <3>2. CASE HealAddRaises
      BY <3>2 DEF HealAddRaises, HealIdle
    <3>10. CASE HealChunkDone
      BY <3>10 DEF HealChunkDone, HealIdle
    <3>3. ASSUME NEW set \in SUBSET live, HealPick(set) PROVE heal'.pc # "add"
      BY <3>3 DEF HealPick, HealIdle
    <3>4. ASSUME NEW meta \in heal.chunks, HealChunk(meta)
          PROVE  heal'.pc # "add"
      <4>1. heal.pc = "chunk"
        BY <3>4 DEF HealChunk
      <4>2. \/ heal' = [heal EXCEPT !.chunks = @ \ {meta}]
            \/ \E source : heal' = Repairing(meta, source)
        BY <3>4 DEF HealChunk
      <4> QED
        BY <1>4, <4>1, <4>2 DEF Repairing, Heals
    <3>5. ASSUME NEW t \in heal.cand, HealCopyFails(t) PROVE heal'.pc # "add"
      BY <1>4, <3>5 DEF HealCopyFails, NeedsCopy, Heals
    <3>6. ASSUME NEW b \in heal.stale, HealDrop(b) PROVE heal'.pc # "add"
      BY <1>4, <3>6 DEF HealDrop, Heals
    <3> QED
      BY <1>8, <3>1, <3>2, <3>3, <3>4, <3>5, <3>6, <3>7, <3>8, <3>9,
         <3>10 DEF HealStep
  <2>3. Locations(f)' \subseteq Locations(f)
    <3>1. replicas' \subseteq replicas
      BY <1>8 DEF HealStep, HealCount, HealPick, HealKnown, HealSelect,
         HealChunk, HealCopyFails, HealAddRaises, HealDrop, HealChunkDone,
         HealDone, dbvars, remove_replica
    <3> QED
      BY <3>1 DEF Locations
  <2>4. Named(f, a)
    BY <1>5, <2>2, <2>3 DEF Named, InWork
  <2> QED
    BY <1>7, <2>1, <2>4
<1>9. ASSUME NEW t \in heal.cand, HealCopy(t) PROVE Kept(f, a)
  <2>1. /\ replicas' = replicas /\ disk' = [disk EXCEPT ![t] = @ \cup {id}]
        /\ heal.pc = "copy" /\ heal'.target = t /\ heal'.cur = heal.cur
        /\ id \in Filename
        /\ raced' = IF Overlooks(t, id)
                    THEN [raced EXCEPT ![id] = @ \cup {t}] ELSE raced
    BY <1>4, <1>6, <1>9
    DEF HealCopy, NeedsCopy, Heals, dbvars, TypeOK, RepairOK, Metas
  <2>2. /\ f \in disk[a] => f \in disk'[a]
        /\ raced[f] \subseteq raced'[f]
        /\ f = id /\ Overlooks(t, id) => t \in raced'[f]
        /\ f = id /\ a = t => f \in disk'[a]
    BY <2>1 DEF TypeOK
  <2>3. Locations(f)' = Locations(f)
    BY <2>1 DEF Locations
  <2>4. CASE a \in Locations(f)
    <3>1. Named(f, a)
      BY <2>4 DEF Named
    <3>2. Overlooks(a, f)' => a \in raced'[f]
      BY <1>2, <1>5, <2>2, <3>1 DEF RacedKnown
    <3>3. Covered(f, a) => Covered(f, a)'
      BY <1>1, <2>2 DEF Covered
    <3> QED
      BY <1>5, <3>1, <3>2, <3>3 DEF Kept
  <2>5. CASE a \notin Locations(f)
    <3>1. f = id /\ a = t
      BY <1>5, <1>6, <2>1, <2>3, <2>5 DEF Named, InWork
    <3> QED
      BY <1>2, <2>2, <3>1 DEF Kept, Covered
  <2> QED
    BY <2>4, <2>5
<1>10. CASE HealAdd
  <2>1. /\ UNCHANGED <<disk, raced>>
        /\ replicas' = replicas \cup {<<id, heal.target>>}
        /\ heal.pc = "add" /\ heal'.pc \in {"copy", "drop"}
    BY <1>4, <1>6, <1>10 DEF HealAdd, add_replica, Recorded, Heals
  <2>2. a \in Locations(f)' => Named(f, a)
    BY <1>6, <2>1 DEF Locations, InWork, Named
  <2>3. Named(f, a)
    BY <1>5, <2>1, <2>2 DEF Named, InWork
  <2> QED
    BY <1>7, <2>1, <2>3
<1> QED
  BY <1>8, <1>9, <1>10

\* Only a lost disk adds to the servers without the chunk, one of them.
LEMMA MissingCounted ==
  ASSUME TypeOK, TypeOK', NEW f \in Filename, NEW b,
         Exists(f) => Cardinality(Missing(f)) <= faults["lose_disk"],
         \/ Missing(f)' = {}
         \/ Exists(f) /\ Missing(f)' \subseteq Missing(f)
         \/ /\ Exists(f) /\ Missing(f)' \subseteq Missing(f) \cup {b}
            /\ faults'["lose_disk"] = faults["lose_disk"] + 1,
         faults'["lose_disk"] >= faults["lose_disk"]
  PROVE  Cardinality(Missing(f)') <= faults'["lose_disk"]
<1>1. faults["lose_disk"] \in Nat /\ faults'["lose_disk"] \in Nat
  BY DEF TypeOK, FaultKinds
<1>2. Missing(f) \in SUBSET Address /\ Missing(f)' \in SUBSET Address
  BY DEF Missing
<1>3. PICK m, n : m = Cardinality(Missing(f)) /\ n = Cardinality(Missing(f)')
  OBVIOUS
<1>4. m \in Nat /\ n \in Nat
  BY <1>2, <1>3, Finite
<1>5. CASE Missing(f)' = {}
  BY <1>1, <1>5, FS_EmptySet
<1>6. CASE Exists(f) /\ Missing(f)' \subseteq Missing(f)
  <2>1. n <= m
    BY <1>2, <1>3, <1>6, NoFewer
  <2> QED
    BY <1>1, <1>3, <1>4, <1>6, <2>1
<1>7. CASE /\ Exists(f) /\ Missing(f)' \subseteq Missing(f) \cup {b}
           /\ faults'["lose_disk"] = faults["lose_disk"] + 1
  <2>1. Missing(f)' \ {b} \subseteq Missing(f)
    BY <1>7
  <2>2. m >= n - 1
    BY <1>2, <1>3, <2>1, AtMostOneLess
  <2> QED
    BY <1>1, <1>3, <1>4, <1>7, <2>2
<1> QED
  BY <1>5, <1>6, <1>7

LEMMA CopiesNext == CopiesInv /\ [Next]_vars => CopiesInv'
<1> SUFFICES ASSUME CopiesInv, [Next]_vars PROVE CopiesInv'
  OBVIOUS
<1> USE DEF CopiesInv
<1>1. RowsInv' /\ TypeOK /\ TypeOK'
  BY RowsNext DEF RowsInv
<1>2. faults'["lose_disk"] >= faults["lose_disk"]
  <2>1. UNCHANGED faults \/ \E k \in FaultKinds : Fault(k)
    BY DEF Next, vars, FileStep, CreateFile, StoreChunks, CommitFile,
       DeleteFile, DeleteChunk, ServerStep, mark_alive, Expire, ServerStops,
       DiskLost, ServerStarts, ScrubAsk, ScrubSkipped, ScrubList, ScrubRemove,
       NamingCrash, HealStep, HealUnchanged, HealCount, HealPick, HealKnown,
       HealSelect, HealChunk, HealCopy, HealCopyFails, HealAdd, HealAddRaises,
       HealDrop, HealChunkDone, HealDone, FaultKinds
  <2>2. faults["lose_disk"] \in Nat
    BY <1>1 DEF TypeOK, FaultKinds
  <2>3. ASSUME NEW k \in FaultKinds, Fault(k)
        PROVE  faults'["lose_disk"] \in {faults["lose_disk"], faults["lose_disk"] + 1}
    BY <1>1, <2>3 DEF Fault, TypeOK, FaultKinds
  <2> QED
    BY <2>1, <2>2, <2>3
\* Steps that keep what every server has.
<1>3. ASSUME Uploaded',
             \A f \in Filename, a \in Address :
               Exists(f)' /\ Named(f, a)' => Kept(f, a)
      PROVE  CopiesInv'
  <2>1. RacedKnown'
    BY <1>3 DEF RacedKnown, Kept
  <2>2. ASSUME NEW f \in Filename, Exists(f)'
        PROVE  Cardinality(Missing(f)') <= faults'["lose_disk"]
    <3>1. \A a \in Missing(f)' : Exists(f) /\ a \in Missing(f)
      BY <1>3, <2>2 DEF Missing, Kept
    <3>2. Missing(f)' = {} \/ (Exists(f) /\ Missing(f)' \subseteq Missing(f))
      BY <3>1
    <3>3. Exists(f) => Cardinality(Missing(f)) <= faults["lose_disk"]
      BY DEF MissingPaid
    <3> QED
      BY <1>1, <1>2, <3>2, <3>3, MissingCounted
  <2> QED
    BY <1>1, <1>3, <2>1, <2>2 DEF MissingPaid
<1>4. CASE UNCHANGED vars
  <2>1. /\ UNCHANGED <<dbvars, disk, heal, scrub, todo, faults, raced>>
    BY <1>4 DEF vars, dbvars
  <2>2. /\ \A f : /\ Exists(f)' <=> Exists(f)
                  /\ Committed(f)' <=> Committed(f)
        /\ \A f, a : /\ Named(f, a)' <=> Named(f, a)
                     /\ Overlooks(a, f)' <=> Overlooks(a, f)
    BY <2>1 DEF dbvars, Exists, Committed, Named, Locations, InWork, Overlooks
  <2>3. Uploaded'
    BY <2>1, <2>2 DEF Uploaded
  <2>4. \A f \in Filename, a \in Address :
          Exists(f)' /\ Named(f, a)' => Kept(f, a)
    BY <2>1, <2>2, KeptIfSame
  <2> QED
    BY <1>3, <2>3, <2>4
<1>5. ASSUME NEW b \in Address, ServerStep(b) PROVE CopiesInv'
  <2>1. CASE ~DiskLost(b)
    BY <1>1, <1>3, <1>5, <2>1, CopiesServer
  <2>2. CASE DiskLost(b)
    <3>1. faults'["lose_disk"] = faults["lose_disk"] + 1
      BY <1>1, <2>2 DEF DiskLost, Fault, TypeOK, FaultKinds
    <3>2. /\ \A f : /\ Exists(f)' <=> Exists(f)
                    /\ \A a : Named(f, a)' <=> Named(f, a)
      BY <2>2 DEF DiskLost, dbvars, Exists, Named, Locations, InWork
    <3>3. /\ Uploaded' /\ raced' = raced
          /\ \A f, a : Overlooks(a, f)' <=> Overlooks(a, f)
      <4>1. DiskLost(b) => \A f, a : /\ Overlooks(a, f)' <=> Overlooks(a, f)
                                     /\ raced' = raced
        BY <1>1, <1>5, CopiesServer
      <4> QED
        BY <1>1, <1>5, <2>2, <4>1, CopiesServer
    <3>4. RacedKnown'
      BY <3>2, <3>3 DEF RacedKnown
    <3>5. ASSUME NEW f \in Filename, Exists(f)'
          PROVE  Cardinality(Missing(f)') <= faults'["lose_disk"]
      <4>1. \A a \in Missing(f)' : a \in Missing(f) \cup {b}
        BY <1>1, <1>5, <3>5, CopiesServer DEF Missing, Kept
      <4>2. Exists(f) /\ Cardinality(Missing(f)) <= faults["lose_disk"]
        BY <3>2, <3>5 DEF MissingPaid
      <4> QED
        BY <1>1, <1>2, <3>1, <4>1, <4>2, MissingCounted
    <3> QED
      BY <1>1, <3>3, <3>4, <3>5 DEF MissingPaid
  <2> QED
    BY <2>1, <2>2
<1>6. CASE FileStep
  BY <1>1, <1>3, <1>6, CopiesFile
<1>7. CASE NamingCrash
  BY <1>1, <1>3, <1>7, CopiesCrash
<1>8. CASE HealStep
  BY <1>1, <1>3, <1>8, CopiesHeal
<1> QED
  BY <1>4, <1>5, <1>6, <1>7, <1>8 DEF Next

LEMMA CopiesDurableIf == CopiesInv => DurableCopies
<1> SUFFICES ASSUME CopiesInv, NEW f \in Filename, Committed(f)
             PROVE  Cardinality(Copies(f) \cup (Locations(f) \cap raced[f]))
                      + faults["lose_disk"] >= R
  BY DEF DurableCopies
<1> USE DEF CopiesInv, RowsInv
<1> DEFINE kept == Copies(f) \cup (Locations(f) \cap raced[f])
<1>1. Exists(f) /\ todo[f] = {}
  BY DEF Uploaded, Exists, Committed
<1>2. /\ kept \in SUBSET Address /\ Missing(f) \in SUBSET Address
      /\ Locations(f) \in SUBSET Address
  BY DEF Copies, Locations, Missing
<1>3. Locations(f) \subseteq kept \cup Missing(f)
  BY <1>1 DEF Copies, Locations, Missing, Named, Covered
<1> HIDE DEF kept
<1>4. PICK l, k, m, i, u : /\ l = Cardinality(Locations(f))
                           /\ k = Cardinality(kept)
                           /\ m = Cardinality(Missing(f))
                           /\ i = Cardinality(kept \cap Missing(f))
                           /\ u = Cardinality(kept \cup Missing(f))
  OBVIOUS
<1>5. l \in Nat /\ k \in Nat /\ m \in Nat /\ i \in Nat /\ u \in Nat
  BY <1>2, <1>4, Finite
<1>6. l <= u
  BY <1>2, <1>3, <1>4, NoFewer
<1>7. u = k + m - i
  BY <1>2, <1>4, Finite, FS_Union
<1>8. l >= R /\ m <= faults["lose_disk"]
  <2>1. ReplicaRows
    BY RowsImply
  <2> QED
    BY <1>1, <1>4, <1>5, <2>1, CrashBound, FactorAssumption
    DEF ReplicaRows, MissingPaid, FaultKinds
<1>9. R \in Nat /\ faults["lose_disk"] \in Nat
  BY FactorAssumption DEF TypeOK, FaultKinds
<1>10. k + faults["lose_disk"] >= R
  BY <1>5, <1>6, <1>7, <1>8, <1>9
<1> QED
  BY <1>4, <1>10 DEF kept

\* A committed chunk has a copy on R of the disks its rows name, less one for
\* each disk that was lost and each server whose scrub was under way, on its
\* first start or a later one, when the row or the copy was made: repair never
\* trades a stored copy for a row without one, and a scrub removes nothing
\* else that a row names (heal_once, _cleanup_orphans_once, ReplicateChunk).
THEOREM CopiesDurable == Spec => []DurableCopies
<1>1. Spec => []CopiesInv
  BY CopiesInit, CopiesNext, PTL DEF Spec
<1> QED
  BY <1>1, CopiesDurableIf, PTL

LEMMA RowsStoredIf == CopiesInv => RowsStored
<1> SUFFICES ASSUME CopiesInv, faults["lose_disk"] = 0, NEW f \in Filename,
                    Committed(f), NEW a \in Locations(f)
             PROVE  f \in disk[a] \/ a \in raced[f]
  BY DEF RowsStored
<1>1. Exists(f) /\ a \in Address /\ todo[f] = {}
  BY DEF Exists, Committed, Locations, CopiesInv, Uploaded
<1>2. Cardinality(Missing(f)) <= 0
  BY <1>1 DEF CopiesInv, MissingPaid
<1>3. IsFiniteSet(Missing(f)) /\ Cardinality(Missing(f)) \in Nat
  BY Finite DEF Missing
<1>4. Missing(f) = {}
  <2>1. Cardinality(Missing(f)) = 0
    BY <1>2, <1>3
  <2> QED
    BY <1>3, <2>1, FS_EmptySet
<1> QED
  BY <1>1, <1>4 DEF Missing, Named, Covered

\* Until a disk is lost, every replica row of a committed chunk names a server
\* that stores it or one whose scrub was under way when the row or the copy
\* was made, whatever servers restart and scrub, copies fail, files are
\* deleted and naming servers crash (heal_once, add_replica, ReplicateChunk,
\* StoreChunks, _cleanup_orphans_once).
THEOREM RowsAreStored == Spec => []RowsStored
<1>1. Spec => []CopiesInv
  BY CopiesInit, CopiesNext, PTL DEF Spec
<1> QED
  BY <1>1, RowsStoredIf, PTL

=============================================================================
