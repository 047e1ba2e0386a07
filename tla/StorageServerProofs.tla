------------------------- MODULE StorageServerProofs -------------------------
(***************************************************************************)
(* Proofs about StorageServer, for any number of threads, chunks, requests *)
(* and restarts: TypeOK is an invariant, and so is WholeChunks as long as  *)
(* stores of one chunk do not overlap.                                     *)
(***************************************************************************)
EXTENDS StorageServer, FiniteSetTheorems, TLAPS

-----------------------------------------------------------------------------
(***************************************************************************)
(* Types.  The counters are integers because the files are finitely many,  *)
(* which is to be shown: ChunkId need not be finite.                       *)
(***************************************************************************)
Named == {id \in ChunkId : chunk[id] # NoInode \/ tmp[id] # NoInode}

Backed ==
  /\ IsFiniteSet(Named)
  /\ IsFiniteSet(scrub.ids)
  /\ \A t \in Thread : At(t, "write") => th[t].inode \in Inodes

TInv == TypeOK /\ Backed

Scrubs == [pc : {"done", "ask", "remove", "sync"}, ids : SUBSET ChunkId]

\* What TypeOK says of the threads.
ThreadsOK(h) ==
  /\ h \in [Thread -> Requests]
  /\ \A t \in Thread : h[t].pc # "free" => h[t].id \in ChunkId

LEMMA FinitelyMany ==
  ASSUME TInv, NEW S, S \subseteq Named \/ S \subseteq scrub.ids
  PROVE  IsFiniteSet(S) /\ Cardinality(S) \in Int
<1>1. IsFiniteSet(S)
  BY FS_Subset DEF TInv, Backed
<1> QED
  BY <1>1, FS_CardinalityType

\* They stay so when no name is made.
LEMMA StillBacked ==
  ASSUME TInv, Named' \subseteq Named,
         scrub'.ids \subseteq Named \/ scrub'.ids \subseteq scrub.ids,
         \A t \in Thread : th'[t].pc = "write" => th'[t].inode \in Inodes'
  PROVE  Backed'
<1>1. IsFiniteSet(Named') /\ IsFiniteSet(scrub'.ids)
  BY FS_Subset DEF TInv, Backed
<1> QED
  BY <1>1 DEF Backed, At

\* Answering a request keeps the types.
LEMMA ReplyTyped ==
  ASSUME TInv, NEW t \in Thread, Reply(t)
  PROVE  /\ ThreadsOK(th')
         /\ \A u \in Thread : u # t => th'[u] = th[u]
         /\ th'[t] = Free
<1>1. Free \in Requests
  BY DEF Free, Requests, NoInode
<1> QED
  BY <1>1 DEF TInv, TypeOK, Reply, ThreadsOK, At, Free

\* So does going on to the next step of one.
LEMMA GotoTyped ==
  ASSUME TInv, NEW t \in Thread, ~At(t, "free"),
         NEW pc \in {"replace", "counted", "uncount"}, Goto(t, pc)
  PROVE  /\ ThreadsOK(th')
         /\ \A u \in Thread : u # t => th'[u] = th[u]
         /\ th'[t] = [th[t] EXCEPT !.pc = pc]
BY DEF TInv, TypeOK, Goto, ThreadsOK, At, Requests, StoreSteps

LEMMA TypeInit == Init => TInv
<1> SUFFICES ASSUME Init PROVE TInv
  OBVIOUS
<1>1. TypeOK
  BY OverlapAssumption, RequestAssumption
  DEF Init, TypeOK, Inodes, NoInode, OneName, Requests, Free, At, ScrubAhead, StoreSteps
<1>2. Backed
  BY FS_EmptySet DEF Init, Backed, Named, NoInode, ScrubAhead, Free, StoreSteps, At
<1> QED
  BY <1>1, <1>2 DEF TInv

LEMMA RequestTyped ==
  ASSUME TInv, NEW t \in Thread, NEW id \in ChunkId,
         NEW pc \in {"size", "stat", "get"}, Request(t, id, pc)
  PROVE  TInv'
<1> USE DEF TInv, Request, disk, counters
<1>1. [Free EXCEPT !.pc = pc, !.id = id] \in Requests
  BY DEF Free, Requests, NoInode, StoreSteps
<1>2. /\ th' \in [Thread -> Requests]
      /\ \A u \in Thread : u # t => th'[u] = th[u]
      /\ th'[t] = [Free EXCEPT !.pc = pc, !.id = id]
  BY <1>1 DEF TypeOK, At
<1>3. requests' \in 0..MaxRequests
  BY RequestAssumption DEF TypeOK
<1>4. TypeOK'
  BY <1>2, <1>3 DEF TypeOK, OneName, Inodes, Requests, Free, At
<1>5. Backed'
  BY <1>2, StillBacked DEF Backed, Named, Free, At, Inodes
<1> QED
  BY <1>4, <1>5

\* A step of a thread that leaves the directory and the counters alone.
LEMMA QuietTyped ==
  ASSUME TInv, NEW t \in Thread,
         UNCHANGED <<disk, counters, scrub, exact, requests, restarts>>,
         ThreadsOK(th'), \A u \in Thread : u # t => th'[u] = th[u],
         th'[t].pc = "write" => th'[t].inode \in Inodes
  PROVE  TInv'
<1> USE DEF TInv, disk, counters
<1>1. TypeOK'
  BY DEF TypeOK, ThreadsOK, OneName, Inodes, Requests, At
<1>2. Backed'
  BY StillBacked DEF Backed, Named, At, Inodes
<1> QED
  BY <1>1, <1>2

LEMMA StoreTyped ==
  ASSUME TInv, NEW t \in Thread,
         \/ StoreSize(t) \/ StoreOpen(t) \/ StoreWrite(t) \/ StoreFails(t)
         \/ StoreReplace(t) \/ StoreCount(t)
  PROVE  TInv'
<1> USE DEF TInv, disk, counters
<1>1. CASE StoreSize(t)
  <2>1. OldSize(th[t].id) \in {-1, 0, 1}
    BY DEF OldSize, Size
  <2>2. th \in [Thread -> Requests] /\ th[t].id \in ChunkId
    BY <1>1 DEF StoreSize, TypeOK, At
  <2>3. th' = [th EXCEPT ![t].pc = "open", ![t].old = OldSize(th[t].id)]
    BY <1>1 DEF StoreSize
  <2> HIDE DEF TInv
  <2>4. /\ \A u \in Thread : u # t => th'[u] = th[u]
        /\ th'[t] = [th[t] EXCEPT !.pc = "open", !.old = OldSize(th[t].id)]
    BY <2>2, <2>3
  <2>5. th'[t] \in Requests /\ th'[t].pc = "open" /\ th'[t].id = th[t].id
    <3>1. /\ th[t].inode \in Inodes \cup {NoInode}
          /\ th[t] = [pc |-> th[t].pc, id |-> th[t].id, old |-> th[t].old,
                      inode |-> th[t].inode]
      BY <2>2 DEF Requests
    <3>2. th'[t] = [pc |-> "open", id |-> th[t].id, old |-> OldSize(th[t].id),
                    inode |-> th[t].inode]
      BY <2>4, <3>1
    <3> QED
      BY <2>1, <2>2, <3>1, <3>2 DEF Requests, StoreSteps
  <2>6. ThreadsOK(th')
    BY <2>2, <2>3, <2>4, <2>5 DEF ThreadsOK, TInv, TypeOK, At
  <2> QED
    BY <1>1, <2>4, <2>5, <2>6, QuietTyped DEF StoreSize, TInv, Backed, StoreSteps, At
<1>2. CASE StoreOpen(t)
  <2> DEFINE id == th[t].id
             new == IF tmp[id] = NoInode THEN inodes + 1 ELSE tmp[id]
  <2>1. id \in ChunkId
    BY <1>2 DEF StoreOpen, TypeOK, At
  <2>2. /\ tmp' = [tmp EXCEPT ![id] = new]
        /\ whole' = whole \ {new}
        /\ inodes' = IF tmp[id] = NoInode THEN inodes + 1 ELSE inodes
        /\ th' = [th EXCEPT ![t].pc = "write", ![t].inode = new]
        /\ UNCHANGED <<chunk, counters, scrub, exact, requests, restarts>>
    BY <1>2 DEF StoreOpen
  <2>3. inodes' \in Nat /\ new \in Inodes' /\ Inodes \subseteq Inodes'
    BY <2>1, <2>2 DEF TypeOK, Inodes, NoInode
  <2>4. OneName'
    BY <2>1, <2>2 DEF TypeOK, OneName, Inodes, NoInode
  <2>5. /\ th' \in [Thread -> Requests']
        /\ \A u \in Thread : u # t => th'[u] = th[u]
        /\ th'[t] = [th[t] EXCEPT !.pc = "write", !.inode = new]
    <3>1. [th[t] EXCEPT !.pc = "write", !.inode = new] \in Requests'
      <4> HIDE DEF new
      <4>1. th[t] \in Requests
        BY DEF TypeOK
      <4> QED
        BY <2>3, <4>1 DEF Requests, StoreSteps
    <3>2. Requests \subseteq Requests'
      BY <2>3 DEF Requests
    <3>3. th' = [th EXCEPT ![t] = [th[t] EXCEPT !.pc = "write", !.inode = new]]
      BY <2>2 DEF TypeOK, Requests
    <3> QED
      BY <3>1, <3>2, <3>3 DEF TypeOK
  <2>6. TypeOK'
    BY <2>1, <2>2, <2>3, <2>4, <2>5 DEF TypeOK, At
  <2>7. Backed'
    <3>1. Named' \subseteq Named \cup {id}
      BY <2>1, <2>2 DEF TypeOK, Named
    <3>2. IsFiniteSet(Named')
      BY <3>1, FS_AddElement, FS_Subset DEF Backed
    <3> QED
      BY <2>2, <2>3, <2>5, <3>2 DEF TypeOK, Backed, At, Requests
  <2> QED
    BY <2>6, <2>7
<1>3. CASE StoreWrite(t)
  <2>1. /\ ThreadsOK(th')
        /\ \A u \in Thread : u # t => th'[u] = th[u]
        /\ th'[t] = [th[t] EXCEPT !.pc = "replace"]
        /\ th[t].inode \in Inodes
    BY <1>3, GotoTyped DEF StoreWrite, At, Backed
  <2>2. TypeOK'
    BY <1>3, <2>1 DEF StoreWrite, TypeOK, ThreadsOK, OneName, Inodes, Requests, At
  <2>3. Backed'
    BY <1>3, <2>1, StillBacked DEF StoreWrite, TypeOK, Requests, Backed, Named, At, Inodes
  <2> QED
    BY <2>2, <2>3
<1>4. CASE StoreFails(t)
  BY <1>4, ReplyTyped, QuietTyped DEF StoreFails, Free, StoreSteps
<1>5. CASE StoreReplace(t)
  <2>1. CASE tmp[th[t].id] = NoInode
    BY <1>5, <2>1, ReplyTyped, QuietTyped DEF StoreReplace, Free, StoreSteps
  <2>2. CASE tmp[th[t].id] # NoInode
    <3> DEFINE id == th[t].id
    <3>1. id \in ChunkId
      BY <1>5 DEF StoreReplace, TypeOK, At
    <3>2. /\ chunk' = [chunk EXCEPT ![id] = tmp[id]]
          /\ tmp' = [tmp EXCEPT ![id] = NoInode]
          /\ exact' = (exact /\ th[t].old = OldSize(id))
          /\ UNCHANGED <<whole, inodes, counters, scrub, requests, restarts>>
      BY <1>5, <2>2 DEF StoreReplace
    <3>3. /\ ThreadsOK(th')
          /\ \A u \in Thread : u # t => th'[u] = th[u]
          /\ th'[t] = [th[t] EXCEPT !.pc = "counted"]
      BY <1>5, <2>2, GotoTyped DEF StoreReplace, At
    <3>4. OneName'
      BY <2>2, <3>1, <3>2 DEF TypeOK, OneName, NoInode
    <3>5. TypeOK'
      BY <2>2, <3>1, <3>2, <3>3, <3>4 DEF TypeOK, ThreadsOK, Inodes, Requests, At
    <3>6. Backed'
      BY <2>2, <3>1, <3>2, <3>3, StillBacked DEF TypeOK, Requests, Backed, Named, At, Inodes
    <3> QED
      BY <3>5, <3>6
  <2> QED
    BY <2>1, <2>2
<1>6. CASE StoreCount(t)
  <2>1. /\ ThreadsOK(th')
        /\ \A u \in Thread : u # t => th'[u] = th[u]
        /\ th'[t] = Free
    BY <1>6, ReplyTyped DEF StoreCount
  <2>2. count' \in Int /\ bytes' \in Int
    BY <1>6 DEF StoreCount, TypeOK, Requests
  <2>3. TypeOK'
    BY <1>6, <2>1, <2>2 DEF StoreCount, TypeOK, ThreadsOK, OneName, Inodes, Requests, At
  <2>4. Backed'
    BY <1>6, <2>1, StillBacked DEF StoreCount, Backed, Named, At, Inodes, Free
  <2> QED
    BY <2>3, <2>4
<1> QED
  BY <1>1, <1>2, <1>3, <1>4, <1>5, <1>6

LEMMA DeleteAndGetTyped ==
  ASSUME TInv, NEW t \in Thread,
         \/ DeleteSize(t) \/ DeleteRemove(t) \/ DeleteCount(t)
         \/ GetOpen(t) \/ GetRead(t)
  PROVE  TInv'
<1> USE DEF TInv, disk, counters
<1>1. CASE DeleteSize(t)
  <2>1. CASE chunk[th[t].id] = NoInode
    BY <1>1, <2>1, ReplyTyped, QuietTyped DEF DeleteSize, Free, StoreSteps
  <2>2. CASE chunk[th[t].id] # NoInode
    <3>1. OldSize(th[t].id) \in {-1, 0, 1}
      BY DEF OldSize, Size
    <3>2. /\ ThreadsOK(th')
          /\ \A u \in Thread : u # t => th'[u] = th[u]
          /\ th'[t].pc = "remove"
      BY <1>1, <2>2, <3>1 DEF DeleteSize, TypeOK, ThreadsOK, Requests, StoreSteps, At
    <3> QED
      BY <1>1, <3>2, QuietTyped DEF DeleteSize, StoreSteps
  <2> QED
    BY <2>1, <2>2
<1>2. CASE DeleteRemove(t)
  <2>1. /\ ThreadsOK(th')
        /\ \A u \in Thread : u # t => th'[u] = th[u]
        /\ th'[t].pc \in {"free", "uncount"}
    <3>1. CASE Reply(t)
      BY <3>1, ReplyTyped DEF Free
    <3>2. CASE Goto(t, "uncount")
      BY <1>2, <3>2, GotoTyped DEF DeleteRemove, At, TypeOK, Requests
    <3> QED
      BY <1>2, <3>1, <3>2 DEF DeleteRemove
  <2>2. chunk' = [chunk EXCEPT ![th[t].id] = NoInode]
    BY <1>2 DEF DeleteRemove
  <2>3. TypeOK'
    BY <1>2, <2>1, <2>2 DEF DeleteRemove, TypeOK, ThreadsOK, OneName, Inodes, Requests, At
  <2>4. Backed'
    BY <1>2, <2>1, <2>2, StillBacked DEF DeleteRemove, TypeOK, Backed, Named, At, Inodes
  <2> QED
    BY <2>3, <2>4
<1>3. CASE DeleteCount(t)
  <2>1. /\ ThreadsOK(th')
        /\ \A u \in Thread : u # t => th'[u] = th[u]
        /\ th'[t] = Free
    BY <1>3, ReplyTyped DEF DeleteCount
  <2>2. count' \in Int /\ bytes' \in Int
    BY <1>3 DEF DeleteCount, TypeOK, Requests
  <2>3. TypeOK'
    BY <1>3, <2>1, <2>2 DEF DeleteCount, TypeOK, ThreadsOK, OneName, Inodes, Requests, At
  <2>4. Backed'
    BY <1>3, <2>1, StillBacked DEF DeleteCount, Backed, Named, At, Inodes, Free
  <2> QED
    BY <2>3, <2>4
<1>4. CASE GetOpen(t)
  <2>1. CASE chunk[th[t].id] = NoInode
    BY <1>4, <2>1, ReplyTyped, QuietTyped DEF GetOpen, Free, StoreSteps
  <2>2. CASE chunk[th[t].id] # NoInode
    <3>1. /\ ThreadsOK(th')
          /\ \A u \in Thread : u # t => th'[u] = th[u]
          /\ th'[t].pc = "read"
      BY <1>4, <2>2 DEF GetOpen, TypeOK, ThreadsOK, Requests, StoreSteps, At
    <3> QED
      BY <1>4, <3>1, QuietTyped DEF GetOpen, StoreSteps
  <2> QED
    BY <2>1, <2>2
<1>5. CASE GetRead(t)
  BY <1>5, ReplyTyped, QuietTyped DEF GetRead, Free, StoreSteps
<1> QED
  BY <1>1, <1>2, <1>3, <1>4, <1>5

LEMMA ScrubTyped ==
  ASSUME TInv,
         \/ Restart \/ \E expected \in SUBSET ChunkId : ScrubList(expected)
         \/ ScrubSkipped \/ \E id \in scrub.ids : ScrubRemove(id)
         \/ SyncList \/ SyncCounters
  PROVE  TInv'
<1> USE DEF TInv, disk, counters
<1>1. Held \subseteq Named /\ Held \subseteq ChunkId
  BY DEF Held, Named
<1>2. CASE Restart
  <2>1. count' \in Int /\ bytes' \in Int
    BY <1>1, <1>2, FinitelyMany DEF Restart, TotalSize
  <2>2. th' \in [Thread -> Requests] /\ \A t \in Thread : th'[t] = Free
    BY <1>2 DEF Restart, Free, Requests, NoInode, Inodes
  <2>3. scrub' \in Scrubs /\ scrub'.ids = {}
    BY <1>2 DEF Restart, ScrubAhead, Scrubs
  <2>4. TypeOK'
    BY <1>2, <2>1, <2>2, <2>3, RequestAssumption
    DEF Restart, TypeOK, OneName, Inodes, Requests, At, Scrubs, Free
  <2>5. Backed'
    BY <1>2, <2>2, <2>3, StillBacked DEF Restart, Named, Free
  <2> QED
    BY <2>4, <2>5
<1>3. ASSUME NEW expected \in SUBSET ChunkId, ScrubList(expected)
      PROVE  TInv'
  <2>1. /\ scrub' \in Scrubs
        /\ scrub'.ids \subseteq Named
    BY <1>1, <1>3 DEF ScrubList, ScrubDone, TypeOK, Scrubs
  <2>2. TypeOK'
    BY <1>3, <2>1 DEF ScrubList, TypeOK, OneName, Inodes, Requests, At, Scrubs
  <2>3. Backed'
    BY <1>3, <2>1, StillBacked DEF ScrubList, Backed, Named, At, Inodes
  <2> QED
    BY <2>2, <2>3
<1>4. ASSUME NEW id \in scrub.ids, ScrubRemove(id)
      PROVE  TInv'
  <2>1. /\ scrub' \in Scrubs
        /\ scrub'.ids \subseteq scrub.ids
    BY <1>4 DEF ScrubRemove, TypeOK, Scrubs
  <2>2. TypeOK'
    BY <1>4, <2>1 DEF ScrubRemove, TypeOK, OneName, Inodes, Requests, At, Scrubs
  <2>3. Backed'
    BY <1>4, <2>1, StillBacked DEF ScrubRemove, TypeOK, Backed, Named, At, Inodes
  <2> QED
    BY <2>2, <2>3
<1>5. CASE SyncList
  <2>1. scrub' \in Scrubs /\ scrub'.ids \subseteq Named
    BY <1>1, <1>5 DEF SyncList, TypeOK, Scrubs
  <2>2. TypeOK'
    BY <1>5, <2>1 DEF SyncList, TypeOK, OneName, Inodes, Requests, At, Scrubs
  <2>3. Backed'
    BY <1>5, <2>1, StillBacked DEF SyncList, Backed, Named, At, Inodes
  <2> QED
    BY <2>2, <2>3
<1>6. CASE SyncCounters
  <2>1. count' \in Int /\ bytes' \in Int
    BY <1>6, FinitelyMany DEF SyncCounters
  <2>2. scrub' \in Scrubs /\ scrub'.ids = {}
    BY <1>6 DEF SyncCounters, ScrubDone, TypeOK, Scrubs
  <2>3. TypeOK'
    BY <1>6, <2>1, <2>2 DEF SyncCounters, TypeOK, OneName, Inodes, Requests, At, Scrubs
  <2>4. Backed'
    BY <1>6, <2>2, StillBacked DEF SyncCounters, Backed, Named, At, Inodes
  <2> QED
    BY <2>3, <2>4
<1>7. CASE ScrubSkipped
  <2>1. scrub' \in Scrubs /\ scrub'.ids = {}
    BY <1>7 DEF ScrubSkipped, ScrubDone, TypeOK, Scrubs
  <2>2. TypeOK'
    BY <1>7, <2>1 DEF ScrubSkipped, TypeOK, OneName, Inodes, Requests, At, Scrubs
  <2>3. Backed'
    BY <1>7, <2>1, StillBacked DEF ScrubSkipped, Backed, Named, At, Inodes
  <2> QED
    BY <2>2, <2>3
<1> QED
  BY <1>2, <1>3, <1>4, <1>5, <1>6, <1>7

LEMMA TypeNext == TInv /\ [Next]_vars => TInv'
<1> SUFFICES ASSUME TInv, [Next]_vars PROVE TInv'
  OBVIOUS
<1>1. ASSUME NEW t \in Thread, ThreadStep(t) PROVE TInv'
  <2>1. ASSUME NEW id \in ChunkId, StartStore(t, id) PROVE TInv'
    BY <2>1, RequestTyped DEF StartStore
  <2>2. ASSUME NEW id \in ChunkId, StartDelete(t, id) PROVE TInv'
    BY <2>2, RequestTyped DEF StartDelete
  <2>3. ASSUME NEW id \in ChunkId, StartGet(t, id) PROVE TInv'
    BY <2>3, RequestTyped DEF StartGet
  <2> QED
    BY <1>1, <2>1, <2>2, <2>3, StoreTyped, DeleteAndGetTyped DEF ThreadStep
<1>2. CASE UNCHANGED vars
  BY <1>2 DEF vars, disk, counters, TInv, TypeOK, Backed, OneName, Inodes,
              Requests, At, Named
<1> QED
  BY <1>1, <1>2, ScrubTyped DEF Next

\* Every variable keeps its type, and no file of the chunk directory gets a
\* second name, also when stores of one chunk overlap (StoreChunk,
\* StoreChunks, DeleteChunk, _cleanup_orphans_once).
THEOREM TypeCorrect == Spec => []TypeOK
<1>1. TInv => TypeOK
  BY DEF TInv
<1> QED
  BY <1>1, TypeInit, TypeNext, PTL DEF Spec

-----------------------------------------------------------------------------
(***************************************************************************)
(* Chunk files are whole.  WholeChunks is not inductive: a rename makes a  *)
(* whole file only if the .tmp file it moves is the one this thread wrote, *)
(* which needs that no other thread stores that chunk (Apart), and an      *)
(* opened file stays whole only if it is nobody's .tmp file any more       *)
(* (Settled).                                                              *)
(***************************************************************************)
Apart ==
  \A t, u \in Thread :
    th[t].pc \in StoreSteps /\ th[u].pc \in StoreSteps /\ th[t].id = th[u].id => t = u

OwnTmp ==
  \A t \in Thread :
    /\ th[t].pc \in {"write", "replace"} =>
         th[t].inode = tmp[th[t].id] /\ th[t].inode # NoInode
    /\ At(t, "replace") => th[t].inode \in whole

Settled ==
  \A t \in Thread :
    At(t, "read") => \A id \in ChunkId : tmp[id] # th[t].inode

WInv == TInv /\ Apart /\ OwnTmp /\ Settled /\ WholeChunks

LEMMA WholeInit == Init => WInv
BY TypeInit DEF Init, WInv, Apart, OwnTmp, Settled, WholeChunks, Held, NoInode,
                Free, StoreSteps, At

\* A thread that is at none of the steps the invariant is about.
LEMMA QuietWhole ==
  ASSUME WInv, TInv', NEW t \in Thread,
         UNCHANGED <<tmp, whole, inodes>>,
         \A id \in ChunkId : chunk'[id] \in {chunk[id], NoInode},
         \A u \in Thread : u # t => th'[u] = th[u],
         th'[t].pc \notin StoreSteps \cup {"read"}
  PROVE  WInv'
<1>1. Apart'
  BY DEF WInv, Apart
<1>2. OwnTmp'
  BY DEF WInv, OwnTmp, At, StoreSteps
<1>3. Settled'
  BY DEF WInv, Settled, At
<1>4. WholeChunks'
  BY DEF WInv, WholeChunks, Held, At
<1> QED
  BY <1>1, <1>2, <1>3, <1>4 DEF WInv

\* A step of the scrub, which only ever removes files.
LEMMA RemovedWhole ==
  ASSUME WInv, TInv', UNCHANGED <<tmp, whole, inodes, th>>,
         \A id \in ChunkId : chunk'[id] \in {chunk[id], NoInode}
  PROVE  WInv'
BY DEF WInv, Apart, OwnTmp, Settled, WholeChunks, Held, At

LEMMA StoreWhole ==
  ASSUME WInv, TInv', NEW t \in Thread,
         \/ StoreSize(t) \/ StoreOpen(t) \/ StoreWrite(t) \/ StoreFails(t)
         \/ StoreReplace(t) \/ StoreCount(t)
  PROVE  WInv'
<1> USE DEF WInv, disk, counters
<1>1. CASE StoreSize(t)
  <2>1. /\ \A u \in Thread : u # t => th'[u] = th[u]
        /\ th'[t].pc = "open" /\ th'[t].id = th[t].id /\ th[t].pc = "size"
    BY <1>1 DEF StoreSize, TInv, TypeOK, Requests, At
  <2>2. Apart'
    BY <2>1 DEF Apart, StoreSteps
  <2>3. UNCHANGED <<chunk, tmp, whole, inodes>>
    BY <1>1 DEF StoreSize
  <2>4. OwnTmp'
    BY <2>1, <2>3 DEF OwnTmp, At
  <2>5. Settled' /\ WholeChunks'
    BY <2>1, <2>3 DEF Settled, WholeChunks, Held, At
  <2> QED
    BY <2>2, <2>4, <2>5
<1>2. CASE StoreOpen(t)
  <2> DEFINE id == th[t].id
             new == IF tmp[id] = NoInode THEN inodes + 1 ELSE tmp[id]
  <2>1. id \in ChunkId /\ th[t].pc = "open"
    BY <1>2 DEF StoreOpen, TInv, TypeOK, At
  <2>2. /\ tmp' = [tmp EXCEPT ![id] = new]
        /\ whole' = whole \ {new}
        /\ chunk' = chunk
    BY <1>2 DEF StoreOpen
  <2>3. /\ \A u \in Thread : u # t => th'[u] = th[u]
        /\ th'[t].pc = "write" /\ th'[t].id = id /\ th'[t].inode = new
    BY <1>2 DEF StoreOpen, TInv, TypeOK, Requests
  <2>4. new # NoInode
    BY <2>1 DEF TInv, TypeOK, NoInode
  <2>5. \A i \in ChunkId : chunk[i] # new
    BY <2>1 DEF TInv, TypeOK, OneName, Inodes, NoInode
  <2>6. \A i \in ChunkId : i # id => tmp[i] # new
    BY <2>1 DEF TInv, TypeOK, OneName, Inodes, NoInode
  <2>7. \A u \in Thread : At(u, "read") => th[u].inode # new
    BY <2>1 DEF TInv, TypeOK, Settled, WholeChunks, Inodes, NoInode
  <2>8. Apart'
    BY <2>1, <2>3 DEF Apart, StoreSteps
  <2>9. OwnTmp'
    <3> SUFFICES ASSUME NEW u \in Thread
                 PROVE  /\ th'[u].pc \in {"write", "replace"} =>
                              th'[u].inode = tmp'[th'[u].id] /\ th'[u].inode # NoInode
                        /\ th'[u].pc = "replace" => th'[u].inode \in whole'
      BY DEF OwnTmp, At
    <3>1. CASE u = t
      BY <2>1, <2>2, <2>3, <2>4, <3>1 DEF TInv, TypeOK
    <3>2. CASE u # t
      <4>1. th[u].pc \in {"write", "replace"} => th[u].id # id /\ th[u].id \in ChunkId
        BY <2>1, <3>2 DEF Apart, StoreSteps, TInv, TypeOK, At
      <4> QED
        BY <2>2, <2>3, <2>6, <3>2, <4>1 DEF OwnTmp, At, TInv, TypeOK
    <3> QED
      BY <3>1, <3>2
  <2>10. Settled'
    BY <2>1, <2>2, <2>3, <2>7 DEF Settled, At, TInv, TypeOK
  <2>11. WholeChunks'
    BY <2>2, <2>3, <2>5, <2>7 DEF WholeChunks, Held, At
  <2> QED
    BY <2>8, <2>9, <2>10, <2>11
<1>3. CASE StoreWrite(t)
  <2>1. /\ \A u \in Thread : u # t => th'[u] = th[u]
        /\ th'[t].pc = "replace" /\ th'[t].id = th[t].id
        /\ th'[t].inode = th[t].inode /\ th[t].pc = "write"
    BY <1>3 DEF StoreWrite, Goto, TInv, TypeOK, Requests, At
  <2>2. whole' = whole \cup {th[t].inode} /\ UNCHANGED <<chunk, tmp>>
    BY <1>3 DEF StoreWrite
  <2>3. Apart'
    BY <2>1 DEF Apart, StoreSteps
  <2>4. OwnTmp' /\ Settled' /\ WholeChunks'
    BY <2>1, <2>2 DEF OwnTmp, Settled, WholeChunks, Held, At
  <2> QED
    BY <2>3, <2>4
<1>4. CASE Reply(t) /\ UNCHANGED <<chunk, tmp, whole, inodes>>
  BY <1>4, ReplyTyped, QuietWhole DEF Free, StoreSteps
<1>5. CASE StoreReplace(t) /\ tmp[th[t].id] # NoInode
  <2> DEFINE id == th[t].id
  <2>1. id \in ChunkId /\ th[t].pc = "replace"
    BY <1>5 DEF StoreReplace, TInv, TypeOK, At
  <2>2. /\ chunk' = [chunk EXCEPT ![id] = tmp[id]]
        /\ tmp' = [tmp EXCEPT ![id] = NoInode]
        /\ whole' = whole
    BY <1>5 DEF StoreReplace
  <2>3. /\ \A u \in Thread : u # t => th'[u] = th[u]
        /\ th'[t].pc = "counted"
    BY <1>5 DEF StoreReplace, Goto, TInv, TypeOK, Requests
  <2>4. tmp[id] \in whole
    BY <2>1 DEF OwnTmp, At
  <2>5. Apart'
    BY <2>3 DEF Apart, StoreSteps
  <2>6. OwnTmp'
    <3> SUFFICES ASSUME NEW u \in Thread, u # t
                 PROVE  /\ th[u].pc \in {"write", "replace"} =>
                              th[u].inode = tmp'[th[u].id] /\ th[u].inode # NoInode
                        /\ th[u].pc = "replace" => th[u].inode \in whole'
      BY <2>3 DEF OwnTmp, At
    <3>1. th[u].pc \in {"write", "replace"} => th[u].id # id /\ th[u].id \in ChunkId
      BY <2>1 DEF Apart, StoreSteps, TInv, TypeOK, At
    <3> QED
      BY <2>2, <3>1 DEF OwnTmp, At, TInv, TypeOK
  <2>7. Settled'
    <3>1. \A u \in Thread : At(u, "read") => th[u].inode # NoInode
      BY DEF WholeChunks, TInv, TypeOK, Inodes, NoInode
    <3> QED
      BY <2>1, <2>2, <2>3, <3>1 DEF Settled, At, TInv, TypeOK
  <2>8. WholeChunks'
    BY <2>1, <2>2, <2>3, <2>4 DEF WholeChunks, Held, At, TInv, TypeOK
  <2> QED
    BY <2>5, <2>6, <2>7, <2>8
<1> QED
  BY <1>1, <1>2, <1>3, <1>4, <1>5 DEF StoreFails, StoreReplace, StoreCount

LEMMA DeleteAndGetWhole ==
  ASSUME WInv, TInv', NEW t \in Thread,
         \/ DeleteSize(t) \/ DeleteRemove(t) \/ DeleteCount(t)
         \/ GetOpen(t) \/ GetRead(t)
  PROVE  WInv'
<1> USE DEF WInv, disk, counters
<1>1. CASE GetOpen(t) /\ chunk[th[t].id] # NoInode
  <2>1. /\ \A u \in Thread : u # t => th'[u] = th[u]
        /\ th'[t].pc = "read" /\ th'[t].inode = chunk[th[t].id]
        /\ th[t].id \in ChunkId
    BY <1>1 DEF GetOpen, TInv, TypeOK, Requests, At
  <2>2. UNCHANGED <<chunk, tmp, whole, inodes>>
    BY <1>1 DEF GetOpen
  <2>3. Apart' /\ OwnTmp'
    BY <2>1, <2>2 DEF Apart, OwnTmp, StoreSteps, At
  <2>4. Settled'
    BY <1>1, <2>1, <2>2 DEF Settled, At, TInv, TypeOK, OneName
  <2>5. WholeChunks'
    BY <1>1, <2>1, <2>2 DEF WholeChunks, Held, At
  <2> QED
    BY <2>3, <2>4, <2>5
<1>2. CASE DeleteSize(t) \/ DeleteRemove(t) \/ DeleteCount(t) \/ GetRead(t)
            \/ (GetOpen(t) /\ chunk[th[t].id] = NoInode)
  <2>1. /\ \A u \in Thread : u # t => th'[u] = th[u]
        /\ th'[t].pc \in {"free", "remove", "uncount"}
    BY <1>2 DEF DeleteSize, DeleteRemove, DeleteCount, GetRead, GetOpen, Reply,
                Goto, Free, TInv, TypeOK, Requests
  <2>2. /\ UNCHANGED <<tmp, whole, inodes>>
        /\ \A id \in ChunkId : chunk'[id] \in {chunk[id], NoInode}
    BY <1>2 DEF DeleteSize, DeleteRemove, DeleteCount, GetRead, GetOpen, TInv, TypeOK
  <2> QED
    BY <2>1, <2>2, QuietWhole DEF StoreSteps
<1> QED
  BY <1>1, <1>2

LEMMA RequestWhole ==
  ASSUME WInv, TInv', NEW t \in Thread, NEW id \in ChunkId,
         NEW pc \in {"size", "stat", "get"}, Request(t, id, pc),
         pc = "size" => ~Storing(id)
  PROVE  WInv'
<1> USE DEF WInv, disk, counters
<1>1. /\ \A u \in Thread : u # t => th'[u] = th[u]
      /\ th'[t].pc = pc /\ th'[t].id = id
      /\ UNCHANGED <<chunk, tmp, whole, inodes>>
  BY DEF Request, TInv, TypeOK, Free
<1>2. Apart'
  BY <1>1 DEF Apart, Storing, StoreSteps
<1>3. th'[t].pc \notin {"write", "replace", "read"}
  BY <1>1
<1>4. OwnTmp'
  BY <1>1, <1>3 DEF OwnTmp, At
<1>5. Settled'
  BY <1>1, <1>3 DEF Settled, At
<1>6. WholeChunks'
  BY <1>1, <1>3 DEF WholeChunks, Held, At
<1> QED
  BY <1>2, <1>4, <1>5, <1>6

LEMMA WholeNext == ASSUME ~Overlap PROVE WInv /\ [Next]_vars => WInv'
<1> SUFFICES ASSUME WInv, [Next]_vars PROVE WInv'
  OBVIOUS
<1>1. TInv'
  BY TypeNext DEF WInv
<1>2. ASSUME NEW t \in Thread, ThreadStep(t) PROVE WInv'
  <2>1. ASSUME NEW id \in ChunkId, StartStore(t, id) PROVE WInv'
    BY <1>1, <2>1, RequestWhole DEF StartStore
  <2>2. ASSUME NEW id \in ChunkId, StartDelete(t, id) \/ StartGet(t, id) PROVE WInv'
    BY <1>1, <2>2, RequestWhole DEF StartDelete, StartGet
  <2> QED
    BY <1>1, <1>2, <2>1, <2>2, StoreWhole, DeleteAndGetWhole DEF ThreadStep
<1>3. CASE Restart
  <2>1. UNCHANGED <<chunk, tmp, whole, inodes>> /\ \A t \in Thread : th'[t] = Free
    BY <1>3 DEF Restart, disk
  <2> QED
    BY <1>1, <2>1 DEF WInv, Apart, OwnTmp, Settled, WholeChunks, Held, At, Free, StoreSteps
<1>4. CASE \/ \E expected \in SUBSET ChunkId : ScrubList(expected)
           \/ ScrubSkipped \/ \E id \in scrub.ids : ScrubRemove(id)
           \/ SyncList \/ SyncCounters \/ UNCHANGED vars
  <2>1. /\ UNCHANGED <<tmp, whole, inodes, th>>
        /\ \A id \in ChunkId : chunk'[id] \in {chunk[id], NoInode}
    BY <1>4 DEF ScrubList, ScrubSkipped, ScrubRemove, SyncList, SyncCounters, vars, disk,
                WInv, TInv, TypeOK
  <2> QED
    BY <1>1, <2>1, RemovedWhole
<1> QED
  BY <1>2, <1>3, <1>4 DEF Next

\* If two stores of one chunk never overlap, no chunk file is visible before
\* it is complete and no read is cut short, whatever stores fail, chunks are
\* deleted or scrubbed and restarts leave .tmp files behind (StoreChunk,
\* StoreChunks, GetChunk, GetChunks).
THEOREM ChunksAreWhole == ASSUME ~Overlap PROVE Spec => []WholeChunks
<1>1. WInv => WholeChunks
  BY DEF WInv
<1> QED
  BY <1>1, WholeInit, WholeNext, PTL DEF Spec

-----------------------------------------------------------------------------
(***************************************************************************)
(* The counters.  Chunk files are whole, so every file a request measured  *)
(* has size 1 (Sizes), and a store that replaces the file it measured adds *)
(* one only if that file was new.                                          *)
(***************************************************************************)
SizesOf(r) ==
  /\ r.pc \in {"open", "write", "replace", "counted"} => r.old \in {-1, 1}
  /\ r.pc \in {"remove", "uncount"} => r.old = 1

Sizes == \A t \in Thread : SizesOf(th[t])

Files == Cardinality(Held)

Exact ==
  /\ count = Files - Uncounted + Undeducted
  /\ bytes = Files - Uncounted + Undeducted

CInv == WInv /\ Sizes /\ (exact => Exact)

LEMMA UncountedType ==
  /\ Uncounted \in Nat /\ Uncounted' \in Nat
  /\ Undeducted \in Nat /\ Undeducted' \in Nat
<1>1. ASSUME NEW S \in SUBSET Thread PROVE Cardinality(S) \in Nat
  BY ThreadAssumption, FS_Subset, FS_CardinalityType
<1> QED
  BY <1>1 DEF Uncounted, Undeducted

LEMMA FilesType ==
  /\ TInv => IsFiniteSet(Held) /\ Files \in Nat
  /\ TInv' => IsFiniteSet(Held') /\ Files' \in Nat
<1>1. TInv => IsFiniteSet(Held)
  <2>1. TInv => Held \subseteq Named /\ IsFiniteSet(Named)
    BY DEF TInv, Backed, Named, Held
  <2> QED
    BY <2>1, FS_Subset
<1>2. TInv' => IsFiniteSet(Held')
  <2>1. TInv' => Held' \subseteq Named' /\ IsFiniteSet(Named')
    BY DEF TInv, Backed, Named, Held
  <2> QED
    BY <2>1, FS_Subset
<1> QED
  BY <1>1, <1>2, FS_CardinalityType DEF Files

\* Chunk files are whole, so each has the size it is counted with.
LEMMA SizeIsFiles == WInv => TotalSize = Files
<1> SUFFICES ASSUME WInv PROVE {id \in Held : chunk[id] \in whole} = Held
  BY DEF TotalSize, Files
<1> QED
  BY DEF WInv, WholeChunks

LEMMA MeasuredSize ==
  ASSUME WInv, NEW id \in ChunkId
  PROVE  OldSize(id) = IF id \in Held THEN 1 ELSE -1
BY DEF WInv, WholeChunks, Held, OldSize, Size

\* Two sets of threads that differ in one thread at most.
LEMMA OneThread ==
  ASSUME NEW S \in SUBSET Thread, NEW T \in SUBSET Thread, NEW t \in Thread,
         \A u \in Thread : u # t => (u \in S <=> u \in T)
  PROVE  /\ (t \in S <=> t \in T) => Cardinality(T) = Cardinality(S)
         /\ t \notin S /\ t \in T => Cardinality(T) = Cardinality(S) + 1
         /\ t \in S /\ t \notin T => Cardinality(T) = Cardinality(S) - 1
<1>1. IsFiniteSet(S)
  BY ThreadAssumption, FS_Subset
<1>2. CASE t \in S <=> t \in T
  <2>1. S = T
    BY <1>2
  <2> QED
    BY <1>2, <2>1
<1>3. CASE t \notin S /\ t \in T
  <2>1. T = S \cup {t}
    BY <1>3
  <2> QED
    BY <1>1, <1>3, <2>1, FS_AddElement
<1>4. CASE t \in S /\ t \notin T
  <2>1. T = S \ {t}
    BY <1>4
  <2> QED
    BY <1>1, <1>4, <2>1, FS_RemoveElement
<1> QED
  BY <1>2, <1>3, <1>4

\* The update a thread owes after its system call.
OwesStore(r) == r.pc = "counted" /\ r.old = -1
OwesDelete(r) == r.pc = "uncount"

\* A thread that comes to or leaves the steps where it owes an update.
LEMMA StoreOwes ==
  ASSUME NEW t \in Thread, \A u \in Thread : u # t => th'[u] = th[u]
  PROVE  /\ (OwesStore(th[t]) <=> OwesStore(th'[t])) => Uncounted' = Uncounted
         /\ ~OwesStore(th[t]) /\ OwesStore(th'[t]) => Uncounted' = Uncounted + 1
         /\ OwesStore(th[t]) /\ ~OwesStore(th'[t]) => Uncounted' = Uncounted - 1
<1> DEFINE S == {u \in Thread : OwesStore(th[u])}
           T == {u \in Thread : OwesStore(th'[u])}
<1>1. Uncounted = Cardinality(S) /\ Uncounted' = Cardinality(T)
  BY DEF Uncounted, OwesStore, At
<1>2. /\ S \in SUBSET Thread /\ T \in SUBSET Thread
      /\ \A u \in Thread : u # t => (u \in S <=> u \in T)
      /\ (t \in S <=> OwesStore(th[t])) /\ (t \in T <=> OwesStore(th'[t]))
  OBVIOUS
<1> HIDE DEF S, T
<1> QED
  BY <1>1, <1>2, OneThread

LEMMA DeleteOwes ==
  ASSUME NEW t \in Thread, \A u \in Thread : u # t => th'[u] = th[u]
  PROVE  /\ (OwesDelete(th[t]) <=> OwesDelete(th'[t])) => Undeducted' = Undeducted
         /\ ~OwesDelete(th[t]) /\ OwesDelete(th'[t]) => Undeducted' = Undeducted + 1
         /\ OwesDelete(th[t]) /\ ~OwesDelete(th'[t]) => Undeducted' = Undeducted - 1
<1> DEFINE S == {u \in Thread : OwesDelete(th[u])}
           T == {u \in Thread : OwesDelete(th'[u])}
<1>1. Undeducted = Cardinality(S) /\ Undeducted' = Cardinality(T)
  BY DEF Undeducted, OwesDelete, At
<1>2. /\ S \in SUBSET Thread /\ T \in SUBSET Thread
      /\ \A u \in Thread : u # t => (u \in S <=> u \in T)
      /\ (t \in S <=> OwesDelete(th[t])) /\ (t \in T <=> OwesDelete(th'[t]))
  OBVIOUS
<1> HIDE DEF S, T
<1> QED
  BY <1>1, <1>2, OneThread

\* No thread owes anything.
LEMMA NothingOwed ==
  /\ AllCounted => Uncounted = 0 /\ Undeducted = 0
  /\ AllCounted' => Uncounted' = 0 /\ Undeducted' = 0
<1>1. AllCounted => /\ {t \in Thread : At(t, "counted") /\ th[t].old = -1} = {}
                    /\ {t \in Thread : At(t, "uncount")} = {}
  BY DEF AllCounted, At
<1>2. AllCounted' => /\ {t \in Thread : At(t, "counted") /\ th[t].old = -1}' = {}
                     /\ {t \in Thread : At(t, "uncount")}' = {}
  BY DEF AllCounted, At
<1> QED
  BY <1>1, <1>2, FS_EmptySet DEF Uncounted, Undeducted

LEMMA CountInit == Init => CInv
<1> SUFFICES ASSUME Init PROVE CInv
  OBVIOUS
<1>1. WInv
  BY WholeInit
<1>2. Sizes /\ AllCounted
  BY DEF Init, Sizes, SizesOf, AllCounted, Free
<1>3. Held = {}
  BY DEF Init, Held
<1>4. Files = 0 /\ Uncounted = 0 /\ Undeducted = 0
  BY <1>2, <1>3, FS_EmptySet, NothingOwed DEF Files
<1>5. Exact
  BY <1>4 DEF Init, Exact
<1> QED
  BY <1>1, <1>2, <1>5 DEF CInv

\* What a step of a thread has to do to the counters and the files.
LEMMA ThreadCounts ==
  ASSUME CInv, WInv', NEW t \in Thread,
         \A u \in Thread : u # t => th'[u] = th[u],
         SizesOf(th'[t]),
         exact' => exact, exact' /\ Exact => Exact'
  PROVE  CInv'
<1>1. Sizes'
  BY DEF CInv, Sizes
<1> QED
  BY <1>1 DEF CInv

\* A step that changes neither the counters nor what the directory holds, by
\* a thread that owes no update before or after it.
LEMMA QuietCounts ==
  ASSUME CInv, WInv', NEW t \in Thread,
         \A u \in Thread : u # t => th'[u] = th[u],
         th[t].pc \notin {"counted", "uncount"},
         th'[t].pc \notin {"counted", "uncount"},
         SizesOf(th'[t]), Held' = Held, UNCHANGED <<counters, exact>>
  PROVE  CInv'
<1>1. Uncounted' = Uncounted /\ Undeducted' = Undeducted
  BY StoreOwes, DeleteOwes DEF OwesStore, OwesDelete
<1>2. Exact => Exact'
  BY <1>1 DEF Exact, Files, counters
<1> QED
  BY <1>2, ThreadCounts

LEMMA StoreCounts ==
  ASSUME CInv, WInv', NEW t \in Thread,
         \/ StoreSize(t) \/ StoreOpen(t) \/ StoreWrite(t) \/ StoreFails(t)
         \/ StoreReplace(t) \/ StoreCount(t)
  PROVE  CInv'
<1>0. WInv /\ TInv /\ TypeOK /\ SizesOf(th[t])
  BY DEF CInv, WInv, TInv, Sizes
<1>1. PICK id : id = th[t].id
  OBVIOUS
<1>2. /\ \A u \in Thread : u # t => th'[u] = th[u]
      /\ th[t].pc \in StoreSteps \cup {"counted"}
      /\ id \in ChunkId
  BY <1>0, <1>1 DEF StoreSize, StoreOpen, StoreWrite, StoreFails, StoreReplace,
     StoreCount, Goto, Reply, At, StoreSteps, TypeOK
<1>4. CASE StoreSize(t)
  <2>1. /\ th[t].pc = "size" /\ UNCHANGED <<chunk, counters, exact>>
        /\ th' = [th EXCEPT ![t].pc = "open", ![t].old = OldSize(id)]
    BY <1>1, <1>4 DEF StoreSize, At, disk
  <2>2. th'[t].pc = "open" /\ th'[t].old = OldSize(id)
    BY <1>0, <2>1 DEF TypeOK, Requests
  <2>3. SizesOf(th'[t]) /\ Held' = Held
    BY <1>0, <1>2, <2>1, <2>2, MeasuredSize DEF SizesOf, Held
  <2> QED
    BY <1>2, <2>1, <2>2, <2>3, QuietCounts
<1>5. CASE StoreOpen(t) \/ StoreWrite(t)
  <2>1. /\ th[t].pc \in {"open", "write"} /\ UNCHANGED <<chunk, counters, exact>>
    BY <1>5 DEF StoreOpen, StoreWrite, At, disk
  <2>2. th'[t].pc \in {"write", "replace"} /\ th'[t].old = th[t].old
    <3>1. CASE StoreOpen(t)
      BY <1>0, <3>1 DEF StoreOpen, TypeOK, Requests
    <3>2. CASE StoreWrite(t)
      BY <1>0, <3>2 DEF StoreWrite, Goto, TypeOK, Requests
    <3> QED
      BY <1>5, <3>1, <3>2
  <2>3. SizesOf(th'[t]) /\ Held' = Held
    BY <1>0, <2>1, <2>2 DEF SizesOf, Held
  <2> QED
    BY <1>2, <2>1, <2>2, <2>3, QuietCounts
<1>6. CASE th[t].pc # "counted" /\ Reply(t) /\ UNCHANGED <<chunk, counters, exact>>
  <2>1. th'[t].pc = "free"
    BY <1>0, <1>6 DEF Reply, Free, TypeOK
  <2>2. SizesOf(th'[t]) /\ Held' = Held
    BY <1>6, <2>1 DEF SizesOf, Held
  <2> QED
    BY <1>2, <1>6, <2>1, <2>2, QuietCounts DEF StoreSteps
<1>7. CASE StoreReplace(t) /\ tmp[id] # NoInode
  <2>1. /\ chunk' = [chunk EXCEPT ![id] = tmp[id]] /\ UNCHANGED counters
        /\ exact' = (exact /\ th[t].old = OldSize(id))
        /\ th[t].pc = "replace"
        /\ th'[t].pc = "counted" /\ th'[t].old = th[t].old
    BY <1>0, <1>1, <1>7 DEF StoreReplace, Goto, At, TypeOK, Requests
  <2>2. exact' => exact /\ th[t].old = OldSize(id)
    BY <2>1
  <2>3. Held' = Held \cup {id}
    BY <1>0, <1>2, <1>7, <2>1 DEF Held, TypeOK
  <2>4. Undeducted' = Undeducted
    BY <1>2, <2>1, DeleteOwes DEF OwesDelete
  <2>5. ASSUME exact', Exact PROVE Exact'
    <3>1. CASE id \notin Held
      <4>1. th[t].old = -1
        BY <1>0, <1>2, <2>2, <2>5, <3>1, MeasuredSize
      <4>2. Files' = Files + 1
        BY <1>0, <2>3, <3>1, FilesType, FS_AddElement DEF Files
      <4>3. Uncounted' = Uncounted + 1
        BY <1>2, <2>1, <4>1, StoreOwes DEF OwesStore
      <4> QED
        BY <1>0, <2>1, <2>4, <2>5, <4>2, <4>3, FilesType, UncountedType
        DEF Exact, counters
    <3>2. CASE id \in Held
      <4>1. th[t].old = 1
        BY <1>0, <1>2, <2>2, <2>5, <3>2, MeasuredSize
      <4>2. Held' = Held
        BY <2>3, <3>2
      <4>3. Uncounted' = Uncounted
        BY <1>2, <2>1, <4>1, StoreOwes DEF OwesStore
      <4> QED
        BY <2>1, <2>4, <2>5, <4>2, <4>3 DEF Exact, counters, Files
    <3> QED
      BY <3>1, <3>2
  <2>6. SizesOf(th'[t])
    BY <1>0, <2>1 DEF SizesOf
  <2> QED
    BY <1>2, <2>2, <2>5, <2>6, ThreadCounts
<1>8. CASE StoreCount(t)
  <2>1. /\ th[t].pc = "counted" /\ th'[t].pc = "free"
        /\ UNCHANGED <<chunk, exact>>
    BY <1>0, <1>8 DEF StoreCount, Reply, Free, At, disk, TypeOK
  <2>2. Files' = Files
    BY <2>1 DEF Files, Held
  <2>3. Undeducted' = Undeducted
    BY <1>2, <2>1, DeleteOwes DEF OwesDelete
  <2>4. ASSUME Exact PROVE Exact'
    <3>1. CASE th[t].old = -1
      <4>1. count' = count + 1 /\ bytes' = bytes + 1
        BY <1>8, <3>1 DEF StoreCount
      <4>2. Uncounted' = Uncounted - 1
        BY <1>2, <2>1, <3>1, StoreOwes DEF OwesStore
      <4> QED
        BY <1>0, <2>2, <2>3, <2>4, <4>1, <4>2, FilesType, UncountedType DEF Exact
    <3>2. CASE th[t].old = 1
      <4>1. count' = count /\ bytes' = bytes
        BY <1>0, <1>8, <3>2 DEF StoreCount, TypeOK
      <4>2. Uncounted' = Uncounted
        BY <1>2, <2>1, <3>2, StoreOwes DEF OwesStore
      <4> QED
        BY <2>2, <2>3, <2>4, <4>1, <4>2 DEF Exact
    <3> QED
      BY <1>0, <2>1, <3>1, <3>2 DEF SizesOf
  <2>5. SizesOf(th'[t])
    BY <2>1 DEF SizesOf
  <2> QED
    BY <1>2, <2>1, <2>4, <2>5, ThreadCounts
<1> QED
  BY <1>1, <1>4, <1>5, <1>6, <1>7, <1>8 DEF StoreFails, StoreReplace, disk, At

LEMMA DeleteAndGetCount ==
  ASSUME CInv, WInv', NEW t \in Thread,
         \/ DeleteSize(t) \/ DeleteRemove(t) \/ DeleteCount(t)
         \/ GetOpen(t) \/ GetRead(t)
  PROVE  CInv'
<1>0. WInv /\ TInv /\ TypeOK /\ SizesOf(th[t])
  BY DEF CInv, WInv, TInv, Sizes
<1>1. PICK id : id = th[t].id
  OBVIOUS
<1>2. /\ \A u \in Thread : u # t => th'[u] = th[u]
      /\ th[t].pc \in {"stat", "remove", "uncount", "get", "read"}
      /\ id \in ChunkId /\ exact' = exact
  BY <1>0, <1>1 DEF DeleteSize, DeleteRemove, DeleteCount, GetOpen, GetRead,
     Goto, Reply, At, TypeOK
<1>3. Uncounted' = Uncounted
  <2>1. th'[t].pc # "counted"
    <3>1. CASE Reply(t)
      BY <1>0, <3>1 DEF Reply, Free, TypeOK
    <3>2. CASE Goto(t, "uncount")
      BY <1>0, <3>2 DEF Goto, TypeOK, Requests
    <3>3. CASE \E old : th' = [th EXCEPT ![t].pc = "remove", ![t].old = old]
      BY <1>0, <3>3 DEF TypeOK, Requests
    <3>4. CASE \E inode : th' = [th EXCEPT ![t].pc = "read", ![t].inode = inode]
      BY <1>0, <3>4 DEF TypeOK, Requests
    <3> QED
      BY <3>1, <3>2, <3>3, <3>4
      DEF DeleteSize, DeleteRemove, DeleteCount, GetOpen, GetRead
  <2> QED
    BY <1>2, <2>1, StoreOwes DEF OwesStore
<1>5. CASE /\ th[t].pc # "uncount" /\ th'[t].pc \in {"free", "remove", "read"}
           /\ th'[t].pc = "remove" => th'[t].old = 1
           /\ Held' = Held /\ UNCHANGED counters
  <2>1. SizesOf(th'[t])
    BY <1>5 DEF SizesOf
  <2> QED
    BY <1>2, <1>5, <2>1, QuietCounts
<1>6. ASSUME Reply(t) PROVE th'[t].pc = "free"
  BY <1>0, <1>6 DEF Reply, Free, TypeOK
<1>7. CASE DeleteSize(t)
  <2>1. Held' = Held /\ UNCHANGED counters /\ th[t].pc = "stat"
    BY <1>7 DEF DeleteSize, At, disk, Held
  <2>2. CASE chunk[id] = NoInode
    BY <1>1, <1>5, <1>6, <1>7, <2>1, <2>2 DEF DeleteSize
  <2>3. CASE chunk[id] # NoInode
    <3>1. th' = [th EXCEPT ![t].pc = "remove", ![t].old = OldSize(id)]
      BY <1>1, <1>7, <2>3 DEF DeleteSize
    <3>2. th'[t].pc = "remove" /\ th'[t].old = OldSize(id)
      BY <1>0, <3>1 DEF TypeOK, Requests
    <3>3. OldSize(id) = 1
      BY <1>0, <1>2, <2>3, MeasuredSize DEF Held
    <3> QED
      BY <1>5, <2>1, <3>2, <3>3
  <2> QED
    BY <2>2, <2>3
<1>8. CASE DeleteRemove(t)
  <2>1. /\ th[t].pc = "remove" /\ chunk' = [chunk EXCEPT ![id] = NoInode]
        /\ UNCHANGED counters
    BY <1>1, <1>8 DEF DeleteRemove, At
  <2>2. CASE chunk[id] = NoInode
    <3>1. Held' = Held
      BY <1>0, <1>2, <2>1, <2>2 DEF Held, TypeOK
    <3> QED
      BY <1>1, <1>5, <1>6, <1>8, <2>1, <2>2, <3>1 DEF DeleteRemove
  <2>3. CASE chunk[id] # NoInode
    <3>1. Held' = Held \ {id} /\ id \in Held
      BY <1>0, <1>2, <2>1, <2>3 DEF Held, TypeOK
    <3>2. th'[t].pc = "uncount" /\ th'[t].old = th[t].old
      BY <1>0, <1>1, <1>8, <2>3 DEF DeleteRemove, Goto, TypeOK, Requests
    <3>3. SizesOf(th'[t])
      BY <1>0, <2>1, <3>2 DEF SizesOf
    <3>4. Files' = Files - 1
      BY <1>0, <3>1, FilesType, FS_RemoveElement DEF Files
    <3>5. Undeducted' = Undeducted + 1
      BY <1>2, <2>1, <3>2, DeleteOwes DEF OwesDelete
    <3>6. Exact => Exact'
      BY <1>0, <1>3, <2>1, <3>4, <3>5, FilesType, UncountedType DEF Exact, counters
    <3> QED
      BY <1>2, <3>3, <3>6, ThreadCounts
  <2> QED
    BY <2>2, <2>3
<1>9. CASE DeleteCount(t)
  <2>1. /\ th[t].pc = "uncount" /\ th'[t].pc = "free" /\ Held' = Held
        /\ count' = count - 1 /\ bytes' = bytes - th[t].old
    BY <1>6, <1>9 DEF DeleteCount, At, disk, Held
  <2>2. th[t].old = 1 /\ SizesOf(th'[t])
    BY <1>0, <2>1 DEF SizesOf
  <2>3. Undeducted' = Undeducted - 1
    BY <1>2, <2>1, DeleteOwes DEF OwesDelete
  <2>4. Files' = Files
    BY <2>1 DEF Files
  <2>5. Exact => Exact'
    BY <1>0, <1>3, <2>1, <2>2, <2>3, <2>4, FilesType, UncountedType DEF Exact
  <2> QED
    BY <1>2, <2>2, <2>5, ThreadCounts
<1>10. CASE GetOpen(t)
  <2>1. Held' = Held /\ UNCHANGED counters /\ th[t].pc = "get"
    BY <1>10 DEF GetOpen, At, disk, Held
  <2>2. CASE chunk[id] = NoInode
    BY <1>1, <1>5, <1>6, <1>10, <2>1, <2>2 DEF GetOpen
  <2>3. CASE chunk[id] # NoInode
    <3>1. th' = [th EXCEPT ![t].pc = "read", ![t].inode = chunk[id]]
      BY <1>1, <1>10, <2>3 DEF GetOpen
    <3>2. th'[t].pc = "read"
      BY <1>0, <3>1 DEF TypeOK, Requests
    <3> QED
      BY <1>5, <2>1, <3>2
  <2> QED
    BY <2>2, <2>3
<1>11. CASE GetRead(t)
  <2>1. Held' = Held /\ UNCHANGED counters /\ th[t].pc = "read" /\ th'[t].pc = "free"
    BY <1>6, <1>11 DEF GetRead, At, disk, Held
  <2> QED
    BY <1>5, <2>1
<1> QED
  BY <1>7, <1>8, <1>9, <1>10, <1>11

LEMMA RequestCounts ==
  ASSUME CInv, WInv', NEW t \in Thread, NEW id \in ChunkId,
         NEW pc \in {"size", "stat", "get"}, Request(t, id, pc)
  PROVE  CInv'
<1>1. TypeOK
  BY DEF CInv, WInv, TInv
<1>2. /\ \A u \in Thread : u # t => th'[u] = th[u]
      /\ th'[t].pc = pc /\ th[t].pc = "free"
      /\ UNCHANGED <<chunk, counters, exact>>
  BY <1>1 DEF Request, TypeOK, Free, disk, At
<1>3. SizesOf(th'[t]) /\ Held' = Held
  BY <1>2 DEF SizesOf, Held
<1> QED
  BY <1>2, <1>3, QuietCounts

\* The scrub removes files behind the counters, and then takes them from what
\* is left.
LEMMA ScrubCounts ==
  ASSUME CInv, WInv',
         \/ Restart \/ \E expected \in SUBSET ChunkId : ScrubList(expected)
         \/ ScrubSkipped \/ \E id \in scrub.ids : ScrubRemove(id)
         \/ SyncList \/ SyncCounters \/ UNCHANGED vars
  PROVE  CInv'
<1>0. WInv /\ TInv /\ TypeOK
  BY DEF CInv, WInv, TInv
<1>1. CASE Restart
  <2>1. \A t \in Thread : th'[t] = Free
    BY <1>1 DEF Restart
  <2>2. Sizes' /\ AllCounted'
    BY <2>1 DEF Sizes, SizesOf, AllCounted, Free
  <2>3. Uncounted' = 0 /\ Undeducted' = 0
    BY <2>2, NothingOwed
  <2>4. count' = Files /\ bytes' = Files /\ Files' = Files
    BY <1>0, <1>1, SizeIsFiles DEF Restart, Files, disk, Held
  <2>5. Exact'
    BY <1>0, <2>3, <2>4, FilesType DEF Exact
  <2> QED
    BY <2>2, <2>5 DEF CInv
<1>2. ASSUME th' = th PROVE Sizes'
  BY <1>2 DEF CInv, Sizes
<1>3. CASE \/ \E expected \in SUBSET ChunkId : ScrubList(expected)
           \/ ScrubSkipped \/ SyncList \/ UNCHANGED vars
  <2>1. UNCHANGED <<chunk, th, counters, exact>>
    BY <1>3 DEF ScrubList, ScrubSkipped, SyncList, vars, disk, counters
  <2>2. Exact' = Exact
    BY <2>1 DEF Exact, Files, Held, Uncounted, Undeducted, At, counters
  <2> QED
    BY <1>2, <2>1, <2>2 DEF CInv
<1>4. CASE \E id \in scrub.ids : ScrubRemove(id)
  <2>1. th' = th /\ ~exact'
    BY <1>4 DEF ScrubRemove
  <2> QED
    BY <1>2, <2>1 DEF CInv
<1>5. CASE SyncCounters
  <2>1. /\ UNCHANGED <<chunk, th>>
        /\ count' = Cardinality(scrub.ids)
        /\ bytes' = Cardinality({id \in scrub.ids : chunk[id] \in whole})
        /\ exact' = (scrub.ids = Held /\ AllCounted)
    BY <1>5 DEF SyncCounters, disk
  <2>2. ASSUME scrub.ids = Held, AllCounted PROVE Exact'
    <3>1. AllCounted'
      BY <2>1, <2>2 DEF AllCounted
    <3>2. Uncounted' = 0 /\ Undeducted' = 0
      BY <3>1, NothingOwed
    <3>3. {id \in scrub.ids : chunk[id] \in whole} = Held
      BY <1>0, <2>2 DEF WInv, WholeChunks
    <3>4. count' = Files /\ bytes' = Files /\ Files' = Files
      BY <2>1, <2>2, <3>3 DEF Files, Held
    <3> QED
      BY <1>0, <3>2, <3>4, FilesType DEF Exact
  <2> QED
    BY <1>2, <2>1, <2>2 DEF CInv
<1> QED
  BY <1>1, <1>3, <1>4, <1>5

LEMMA CountNext == ASSUME ~Overlap PROVE CInv /\ [Next]_vars => CInv'
<1> SUFFICES ASSUME CInv, [Next]_vars PROVE CInv'
  OBVIOUS
<1>1. WInv'
  BY WholeNext DEF CInv
<1>2. ASSUME NEW t \in Thread, ThreadStep(t) PROVE CInv'
  <2>1. ASSUME NEW id \in ChunkId,
               StartStore(t, id) \/ StartDelete(t, id) \/ StartGet(t, id)
        PROVE  CInv'
    BY <1>1, <2>1, RequestCounts DEF StartStore, StartDelete, StartGet
  <2> QED
    BY <1>1, <1>2, <2>1, StoreCounts, DeleteAndGetCount DEF ThreadStep
<1> QED
  BY <1>1, <1>2, ScrubCounts DEF Next

\* If two stores of one chunk never overlap, the counters are off by the
\* requests that owe them an update and nothing else, however often a chunk
\* is stored and deleted, unless a file goes behind them: a delete or the
\* scrub takes the file a store of that chunk has measured and not replaced
\* yet, or the scrub takes one and has not counted again undisturbed
\* (StoreChunk, DeleteChunk, _cleanup_orphans_once, _sync_counters_from_disk).
THEOREM CountersAreExact == ASSUME ~Overlap PROVE Spec => []CountersExact
<1>1. CInv => CountersExact
  BY SizeIsFiles DEF CInv, CountersExact, Exact, Files
<1> QED
  BY <1>1, CountInit, CountNext, PTL DEF Spec

-----------------------------------------------------------------------------
(***************************************************************************)
(* StorageServer implements ChunkDirectory as long as stores of one chunk  *)
(* do not overlap.  WInv says that what a read has opened is whole, so the *)
(* step of a thread alone decides how its request looks from outside.      *)
(***************************************************************************)
Unasked == \A t \in Thread : At(t, "free") => th[t].id = "none"

AnswerAt(pc) == CASE pc = "counted" -> "stored"
                  [] pc = "uncount" -> "deleted"
                  [] pc = "read" -> "whole"
                  [] OTHER -> "none"

Seen(h) == [op |-> OpOf(h.pc), id |-> h.id, answer |-> AnswerAt(h.pc)]

Asking == [t \in Thread |-> RequestOf(t)]

LEMMA UnaskedNext == TInv /\ Unasked /\ [Next]_vars => Unasked'
<1> SUFFICES ASSUME TInv, Unasked, [Next]_vars PROVE Unasked'
  OBVIOUS
<1>1. ASSUME NEW t \in Thread, ThreadStep(t) PROVE Unasked'
  <2>1. \A u \in Thread : u # t => th'[u] = th[u]
    BY <1>1 DEF ThreadStep, StartStore, StartDelete, StartGet, Request,
       StoreSize, StoreOpen, StoreWrite, StoreFails, StoreReplace, StoreCount,
       DeleteSize, DeleteRemove, DeleteCount, GetOpen, GetRead, Goto, Reply,
       TInv, TypeOK
  <2>2. th'[t].pc = "free" => th'[t].id = "none"
    <3>1. CASE Reply(t)
      BY <3>1 DEF Reply, Free, TInv, TypeOK
    <3>2. CASE \E id \in ChunkId : StartStore(t, id) \/ StartDelete(t, id)
                                     \/ StartGet(t, id)
      <4>1. ASSUME NEW id \in ChunkId, NEW pc \in {"size", "stat", "get"},
                   Request(t, id, pc)
            PROVE  th'[t].pc = pc
        BY <4>1 DEF Request, Free, TInv, TypeOK
      <4> QED
        BY <3>2, <4>1 DEF StartStore, StartDelete, StartGet
    <3>3. CASE StoreFails(t) \/ StoreReplace(t) \/ StoreCount(t)
      BY <3>1, <3>3 DEF StoreFails, StoreReplace, StoreCount, Goto, TInv,
         TypeOK, Requests
    <3>5. CASE StoreSize(t)
      BY <3>5 DEF StoreSize, TInv, TypeOK, Requests
    <3>6. CASE StoreOpen(t)
      BY <3>6 DEF StoreOpen, TInv, TypeOK, Requests
    <3>7. CASE StoreWrite(t)
      BY <3>7 DEF StoreWrite, Goto, TInv, TypeOK, Requests
    <3>4. CASE DeleteSize(t) \/ DeleteRemove(t) \/ DeleteCount(t)
                 \/ GetOpen(t) \/ GetRead(t)
      BY <3>1, <3>4 DEF DeleteSize, DeleteRemove, DeleteCount, GetOpen,
         GetRead, Goto, TInv, TypeOK, Requests
    <3> QED
      BY <1>1, <3>2, <3>3, <3>4, <3>5, <3>6, <3>7 DEF ThreadStep
  <2> QED
    BY <2>1, <2>2 DEF Unasked, At
<1>2. CASE Restart
  BY <1>2 DEF Restart, Unasked, At, Free
<1>3. CASE \/ \E expected \in SUBSET ChunkId : ScrubList(expected)
           \/ ScrubSkipped \/ \E id \in scrub.ids : ScrubRemove(id)
           \/ SyncList \/ SyncCounters \/ UNCHANGED vars
  <2>1. th' = th
    BY <1>3 DEF ScrubList, ScrubSkipped, ScrubRemove, SyncList, SyncCounters, vars
  <2> QED
    BY <2>1 DEF Unasked, At
<1> QED
  BY <1>1, <1>2, <1>3 DEF Next

LEMMA SeenIs ==
  ASSUME WInv, NEW t \in Thread
  PROVE  RequestOf(t) = Seen(th[t])
BY DEF RequestOf, Seen, AnswerOf, AnswerAt, At, WInv, WholeChunks

LEMMA SeenNext ==
  ASSUME WInv', NEW t \in Thread
  PROVE  RequestOf(t)' = Seen(th'[t])
BY DEF RequestOf, Seen, AnswerOf, AnswerAt, At, WInv, WholeChunks, OpOf

LEMMA AskingMoves ==
  ASSUME WInv, WInv', NEW t \in Thread,
         \A u \in Thread : u # t => th'[u] = th[u]
  PROVE  /\ Asking[t] = Seen(th[t])
         /\ Asking' = [Asking EXCEPT ![t] = Seen(th'[t])]
<1>1. \A u \in Thread : u # t => RequestOf(u)' = RequestOf(u)
  BY SeenIs, SeenNext
<1>2. RequestOf(t)' = Seen(th'[t]) /\ RequestOf(t) = Seen(th[t])
  BY SeenIs, SeenNext
<1> QED
  BY <1>1, <1>2 DEF Asking

\* How a request looks at each step.
LEMMA SeenAt ==
  ASSUME NEW h, NEW op, NEW answer,
         \/ h.pc = "free" /\ op = "none" /\ answer = "none"
         \/ h.pc \in StoreSteps /\ op = "put" /\ answer = "none"
         \/ h.pc = "counted" /\ op = "put" /\ answer = "stored"
         \/ h.pc \in {"stat", "remove"} /\ op = "remove" /\ answer = "none"
         \/ h.pc = "uncount" /\ op = "remove" /\ answer = "deleted"
         \/ h.pc = "get" /\ op = "get" /\ answer = "none"
         \/ h.pc = "read" /\ op = "get" /\ answer = "whole"
  PROVE  Seen(h) = [op |-> op, id |-> h.id, answer |-> answer]
BY DEF Seen, OpOf, AnswerAt, StoreSteps

LEMMA PutSeen ==
  ASSUME NEW t \in Thread, NEW id, Held' = Held \cup {id},
         Asking[t] = [op |-> "put", id |-> id, answer |-> "none"],
         Asking' = [Asking EXCEPT ![t] =
                      [op |-> "put", id |-> id, answer |-> "stored"]]
  PROVE  Directory!Next
<1>1. [Asking[t] EXCEPT !.answer = "stored"] =
        [op |-> "put", id |-> id, answer |-> "stored"]
  OBVIOUS
<1>2. Asking' = [Asking EXCEPT ![t] = [Asking[t] EXCEPT !.answer = "stored"]]
  BY <1>1
<1>3. Asking[t].op = "put" /\ Asking[t].answer = "none" /\ Asking[t].id = id
  OBVIOUS
<1>4. Directory!Put(t)
  BY <1>2, <1>3 DEF Directory!Put, Directory!Asked, Directory!Answer, Asking
<1> QED
  BY <1>4 DEF Directory!Next

LEMMA RemoveSeen ==
  ASSUME NEW t \in Thread, NEW id, id \in Held, Held' = Held \ {id},
         Asking[t] = [op |-> "remove", id |-> id, answer |-> "none"],
         Asking' = [Asking EXCEPT ![t] =
                      [op |-> "remove", id |-> id, answer |-> "deleted"]]
  PROVE  Directory!Next
<1>1. [Asking[t] EXCEPT !.answer = "deleted"] =
        [op |-> "remove", id |-> id, answer |-> "deleted"]
  OBVIOUS
<1>2. Asking' = [Asking EXCEPT ![t] = [Asking[t] EXCEPT !.answer = "deleted"]]
  BY <1>1
<1>3. Asking[t].op = "remove" /\ Asking[t].answer = "none" /\ Asking[t].id = id
  OBVIOUS
<1>4. Directory!Remove(t)
  BY <1>2, <1>3 DEF Directory!Remove, Directory!Asked, Directory!Answer, Asking
<1> QED
  BY <1>4 DEF Directory!Next

LEMMA GetSeen ==
  ASSUME NEW t \in Thread, NEW id, id \in Held, Held' = Held,
         Asking[t] = [op |-> "get", id |-> id, answer |-> "none"],
         Asking' = [Asking EXCEPT ![t] =
                      [op |-> "get", id |-> id, answer |-> "whole"]]
  PROVE  Directory!Next
<1>1. [Asking[t] EXCEPT !.answer = "whole"] =
        [op |-> "get", id |-> id, answer |-> "whole"]
  OBVIOUS
<1>2. Asking' = [Asking EXCEPT ![t] = [Asking[t] EXCEPT !.answer = "whole"]]
  BY <1>1
<1>3. Asking[t].op = "get" /\ Asking[t].answer = "none" /\ Asking[t].id = id
  OBVIOUS
<1>4. Directory!Get(t)
  BY <1>2, <1>3 DEF Directory!Get, Directory!Asked, Directory!Answer, Asking
<1> QED
  BY <1>4 DEF Directory!Next

LEMMA StoreImplements ==
  ASSUME WInv, WInv', Unasked', NEW t \in Thread,
         \/ StoreSize(t) \/ StoreOpen(t) \/ StoreWrite(t) \/ StoreFails(t)
         \/ StoreReplace(t) \/ StoreCount(t)
  PROVE  Directory!Next \/ (Held' = Held /\ Asking' = Asking)
<1> USE DEF WInv, TInv
<1>1. PICK id : id = th[t].id
  OBVIOUS
<1>2. /\ \A u \in Thread : u # t => th'[u] = th[u]
      /\ th[t].pc \in StoreSteps \cup {"counted"}
      /\ id \in ChunkId
  BY <1>1 DEF StoreSize, StoreOpen, StoreWrite, StoreFails, StoreReplace,
     StoreCount, Goto, Reply, At, StoreSteps, TypeOK
<1>3. /\ Asking[t] = Seen(th[t])
      /\ Asking' = [Asking EXCEPT ![t] = Seen(th'[t])]
  BY <1>2, AskingMoves
<1>4. th[t].pc # "counted" =>
        Seen(th[t]) = [op |-> "put", id |-> id, answer |-> "none"]
  BY <1>1, <1>2, SeenAt
<1>5. Asking' = Asking \/ Asking' = [Asking EXCEPT ![t] = Seen(th'[t])]
  BY <1>3
<1>6. CASE StoreSize(t) \/ StoreOpen(t) \/ StoreWrite(t)
  <2>1. /\ chunk' = chunk /\ th'[t].id = id /\ th'[t].pc \in StoreSteps
        /\ th[t].pc # "counted"
    <3>1. CASE StoreSize(t)
      BY <1>1, <3>1 DEF StoreSize, At, StoreSteps, disk, TypeOK, Requests
    <3>2. CASE StoreOpen(t)
      BY <1>1, <3>2 DEF StoreOpen, At, StoreSteps, disk, TypeOK, Requests
    <3>3. CASE StoreWrite(t)
      BY <1>1, <3>3 DEF StoreWrite, Goto, At, StoreSteps, disk, TypeOK, Requests
    <3> QED
      BY <1>6, <3>1, <3>2, <3>3
  <2>2. Seen(th'[t]) = Seen(th[t])
    BY <1>4, <2>1, SeenAt
  <2>3. Asking' = Asking
    BY <1>3, <2>2 DEF Asking
  <2> QED
    BY <2>1, <2>3 DEF Held
<1>7. CASE Reply(t) /\ chunk' = chunk
  <2>1. Seen(th'[t]) = [op |-> "none", id |-> "none", answer |-> "none"]
    <3>1. th'[t].pc = "free" /\ th'[t].id = "none"
      BY <1>7 DEF Reply, Free, TypeOK
    <3> QED
      BY <3>1, SeenAt
  <2>2. Directory!Reply(t)
    <3>1. Held' = Held
      BY <1>7 DEF Held
    <3>2. Asking' = [Asking EXCEPT ![t] = Directory!None]
      BY <1>3, <2>1 DEF Directory!None
    <3>3. Asking[t].answer # "none" \/ Directory!Asked(t, "put")
      <4>1. CASE th[t].pc = "counted"
        <5>1. Seen(th[t]) = [op |-> "put", id |-> th[t].id, answer |-> "stored"]
          BY <4>1, SeenAt
        <5> QED
          BY <1>3, <5>1
      <4>2. CASE th[t].pc # "counted"
        BY <1>3, <1>4, <4>2 DEF Directory!Asked, Asking
      <4> QED
        BY <4>1, <4>2
    <3> QED
      BY <3>1, <3>2, <3>3 DEF Directory!Reply, Asking
  <2> QED
    BY <2>2 DEF Directory!Next
<1>8. CASE StoreReplace(t) /\ tmp[id] # NoInode
  <2>1. /\ chunk' = [chunk EXCEPT ![id] = tmp[id]]
        /\ th'[t].pc = "counted" /\ th'[t].id = id /\ th[t].pc = "replace"
    BY <1>1, <1>8 DEF StoreReplace, Goto, At, TypeOK, Requests
  <2>2. Held' = Held \cup {id}
    BY <1>2, <1>8, <2>1 DEF Held, TypeOK
  <2>3. Seen(th'[t]) = [op |-> "put", id |-> id, answer |-> "stored"]
    BY <2>1, SeenAt
  <2>4. Asking[t] = [op |-> "put", id |-> id, answer |-> "none"]
    BY <1>3, <1>4, <2>1
  <2>5. Asking' = [Asking EXCEPT ![t] = [op |-> "put", id |-> id,
                                              answer |-> "stored"]]
    BY <1>3, <2>2, <2>3, <2>4
  <2> QED
    BY <1>3, <2>2, <2>3, <2>4, <1>2, <2>5, PutSeen
<1> QED
  BY <1>1, <1>6, <1>7, <1>8 DEF StoreFails, StoreReplace, StoreCount, disk

LEMMA DeleteAndGetImplement ==
  ASSUME WInv, WInv', NEW t \in Thread,
         \/ DeleteSize(t) \/ DeleteRemove(t) \/ DeleteCount(t)
         \/ GetOpen(t) \/ GetRead(t)
  PROVE  Directory!Next \/ (Held' = Held /\ Asking' = Asking)
<1> USE DEF WInv, TInv
<1>1. PICK id : id = th[t].id
  OBVIOUS
<1>2. /\ \A u \in Thread : u # t => th'[u] = th[u]
      /\ th[t].pc \in {"stat", "remove", "uncount", "get", "read"}
      /\ id \in ChunkId
  BY <1>1 DEF DeleteSize, DeleteRemove, DeleteCount, GetOpen, GetRead, Goto,
     Reply, At, TypeOK
<1>3. /\ Asking[t] = Seen(th[t])
      /\ Asking' = [Asking EXCEPT ![t] = Seen(th'[t])]
  BY <1>2, AskingMoves
<1>4. /\ th[t].pc \in {"stat", "remove"} =>
           Seen(th[t]) = [op |-> "remove", id |-> id, answer |-> "none"]
      /\ th[t].pc = "uncount" =>
           Seen(th[t]) = [op |-> "remove", id |-> id, answer |-> "deleted"]
      /\ th[t].pc = "get" =>
           Seen(th[t]) = [op |-> "get", id |-> id, answer |-> "none"]
      /\ th[t].pc = "read" =>
           Seen(th[t]) = [op |-> "get", id |-> id, answer |-> "whole"]
  BY <1>1, SeenAt
<1>5. ASSUME Reply(t), Held' = Held,
             th[t].pc \in {"stat", "remove", "get"} => id \notin Held
      PROVE  Directory!Next
  <2>1. Seen(th'[t]) = [op |-> "none", id |-> "none", answer |-> "none"]
    <3>1. th'[t].pc = "free" /\ th'[t].id = "none"
      BY <1>5 DEF Reply, Free, TypeOK
    <3> QED
      BY <3>1, SeenAt
  <2>2. Asking' = [Asking EXCEPT ![t] = Directory!None]
    BY <1>3, <2>1 DEF Directory!None
  <2>3. \/ Asking[t].answer # "none"
        \/ Directory!Asked(t, "get") /\ Asking[t].id \notin Held
        \/ Directory!Asked(t, "remove") /\ Asking[t].id \notin Held
    BY <1>2, <1>3, <1>4, <1>5 DEF Directory!Asked, Asking
  <2>4. Directory!Reply(t)
    BY <1>5, <2>2, <2>3 DEF Directory!Reply, Asking
  <2> QED
    BY <2>4 DEF Directory!Next
<1>6. CASE DeleteSize(t)
  <2>1. th[t].pc = "stat" /\ Held' = Held
    BY <1>6 DEF DeleteSize, At, disk, Held
  <2>2. CASE chunk[id] = NoInode
    BY <1>1, <1>5, <1>6, <2>1, <2>2 DEF DeleteSize, Held
  <2>3. CASE chunk[id] # NoInode
    <3>1. th' = [th EXCEPT ![t].pc = "remove", ![t].old = OldSize(id)]
      BY <1>1, <1>6, <2>3 DEF DeleteSize
    <3>2. th'[t].pc = "remove" /\ th'[t].id = id
      BY <1>1, <3>1 DEF TypeOK, Requests
    <3>3. Seen(th'[t]) = Seen(th[t])
      BY <1>4, <2>1, <3>2, SeenAt
    <3> QED
      BY <1>3, <2>1, <3>3 DEF Asking
  <2> QED
    BY <2>2, <2>3
<1>7. CASE DeleteRemove(t)
  <2>1. th[t].pc = "remove" /\ chunk' = [chunk EXCEPT ![id] = NoInode]
    BY <1>1, <1>7 DEF DeleteRemove, At
  <2>2. CASE chunk[id] = NoInode
    <3>1. Held' = Held /\ id \notin Held
      BY <1>2, <2>1, <2>2 DEF Held, TypeOK
    <3> QED
      BY <1>1, <1>5, <1>7, <2>2, <3>1 DEF DeleteRemove
  <2>3. CASE chunk[id] # NoInode
    <3>1. Held' = Held \ {id} /\ id \in Held
      BY <1>2, <2>1, <2>3 DEF Held, TypeOK
    <3>2. th'[t].pc = "uncount" /\ th'[t].id = id
      BY <1>1, <1>7, <2>3 DEF DeleteRemove, Goto, TypeOK, Requests
    <3>3. Seen(th'[t]) = [op |-> "remove", id |-> id, answer |-> "deleted"]
      BY <3>2, SeenAt
    <3>4. Asking[t] = [op |-> "remove", id |-> id, answer |-> "none"]
      BY <1>3, <1>4, <2>1
    <3>5. Asking' = [Asking EXCEPT ![t] = [op |-> "remove", id |-> id,
                                                answer |-> "deleted"]]
      BY <1>3, <3>1, <3>3, <3>4
    <3> QED
      BY <1>3, <3>1, <3>3, <3>4, <1>2, <3>5, RemoveSeen
  <2> QED
    BY <2>2, <2>3
<1>8. CASE GetOpen(t)
  <2>1. th[t].pc = "get" /\ Held' = Held
    BY <1>8 DEF GetOpen, At, disk, Held
  <2>2. CASE chunk[id] = NoInode
    BY <1>1, <1>5, <1>8, <2>1, <2>2 DEF GetOpen, Held
  <2>3. CASE chunk[id] # NoInode
    <3>1. th' = [th EXCEPT ![t].pc = "read", ![t].inode = chunk[id]]
      BY <1>1, <1>8, <2>3 DEF GetOpen
    <3>2. th'[t].pc = "read" /\ th'[t].id = id /\ id \in Held
      BY <1>1, <1>2, <2>3, <3>1 DEF TypeOK, Requests, Held
    <3>3. Seen(th'[t]) = [op |-> "get", id |-> id, answer |-> "whole"]
      BY <3>2, SeenAt
    <3>4. Asking[t] = [op |-> "get", id |-> id, answer |-> "none"]
      BY <1>3, <1>4, <2>1
    <3>5. Asking' = [Asking EXCEPT ![t] = [op |-> "get", id |-> id,
                                                answer |-> "whole"]]
      BY <1>3, <2>1, <3>2, <3>3, <3>4
    <3> QED
      BY <1>3, <2>1, <3>2, <3>3, <3>4, <1>2, <3>5, GetSeen
  <2> QED
    BY <2>2, <2>3
<1>9. CASE DeleteCount(t) \/ GetRead(t)
  <2>1. th[t].pc \in {"uncount", "read"} /\ Held' = Held /\ Reply(t)
    BY <1>9 DEF DeleteCount, GetRead, At, disk, Held
  <2> QED
    BY <1>5, <2>1
<1> QED
  BY <1>6, <1>7, <1>8, <1>9

LEMMA RequestImplements ==
  ASSUME WInv, WInv', Unasked, NEW t \in Thread, NEW id \in ChunkId,
         NEW pc \in {"size", "stat", "get"}, Request(t, id, pc)
  PROVE  Directory!Next
<1> USE DEF WInv, TInv
<1>1. /\ \A u \in Thread : u # t => th'[u] = th[u]
      /\ th'[t].pc = pc /\ th'[t].id = id
      /\ Held' = Held /\ th[t].pc = "free" /\ th[t].id = "none"
  BY DEF Request, TypeOK, Free, disk, Held, Unasked, At
<1>2. /\ Asking[t] = Seen(th[t])
      /\ Asking' = [Asking EXCEPT ![t] = Seen(th'[t])]
  BY <1>1, AskingMoves
<1>3. Asking[t] = Directory!None
  BY <1>1, <1>2, SeenAt DEF Directory!None
<1>4. PICK op \in {"put", "remove", "get"} :
        Seen(th'[t]) = [op |-> op, id |-> id, answer |-> "none"]
  BY <1>1, SeenAt DEF StoreSteps
<1>5. Directory!Call(t, op, id)
  BY <1>1, <1>2, <1>3, <1>4 DEF Directory!Call, Asking
<1> QED
  BY <1>5 DEF Directory!Next

LEMMA StepImplements ==
  WInv /\ WInv' /\ Unasked /\ Unasked' /\ [Next]_vars =>
    Directory!Next \/ (Held' = Held /\ Asking' = Asking)
<1> SUFFICES ASSUME WInv, WInv', Unasked, Unasked', [Next]_vars
             PROVE  Directory!Next \/ (Held' = Held /\ Asking' = Asking)
  OBVIOUS
<1> USE DEF TInv
<1>1. ASSUME NEW t \in Thread, ThreadStep(t)
      PROVE  Directory!Next \/ (Held' = Held /\ Asking' = Asking)
  BY <1>1, StoreImplements, DeleteAndGetImplement, RequestImplements
  DEF ThreadStep, StartStore, StartDelete, StartGet
<1>2. CASE Restart
  <2>1. Held' = Held /\ \A t \in Thread : th'[t] = Free
    BY <1>2 DEF Restart, disk, Held
  <2>2. \A t \in Thread : Seen(th'[t]) = Directory!None
    BY <2>1, SeenAt DEF Free, Directory!None
  <2>3. Asking' = [t \in Thread |-> Directory!None]
    BY <2>2, SeenNext DEF Asking
  <2>4. Directory!Restart
    BY <2>1, <2>3 DEF Directory!Restart, Asking
  <2> QED
    BY <2>4 DEF Directory!Next
<1>3. ASSUME th' = th PROVE Asking' = Asking
  BY <1>3, SeenIs, SeenNext DEF Asking
<1>4. ASSUME NEW id \in scrub.ids, ScrubRemove(id)
      PROVE  Directory!Next
  <2>1. id \in ChunkId /\ Held' = Held \ {id} /\ th' = th
    BY <1>4 DEF ScrubRemove, WInv, TypeOK, Held
  <2>2. Directory!Scrub(id)
    BY <1>3, <2>1 DEF Directory!Scrub, Asking
  <2> QED
    BY <2>1, <2>2 DEF Directory!Next
<1>5. CASE \/ \E expected \in SUBSET ChunkId : ScrubList(expected)
           \/ ScrubSkipped \/ SyncList \/ SyncCounters \/ UNCHANGED vars
  <2>1. th' = th /\ chunk' = chunk
    BY <1>5 DEF ScrubList, ScrubSkipped, SyncList, SyncCounters, disk, vars
  <2> QED
    BY <1>3, <2>1 DEF Held
<1> QED
  BY <1>1, <1>2, <1>4, <1>5 DEF Next

\* If two stores of one chunk never overlap, the storage server is a chunk
\* directory with atomic operations (StoreChunk, StoreChunks, GetChunk,
\* GetChunks, DeleteChunk, _cleanup_orphans_once).
THEOREM ServerImplementsDirectory ==
  ASSUME ~Overlap PROVE Spec => ImplementsDirectory
<1>1. Init => WInv /\ Unasked /\ Directory!Init
  <2> SUFFICES ASSUME Init PROVE WInv /\ Unasked /\ Directory!Init
    OBVIOUS
  <2>1. WInv /\ Unasked
    BY WholeInit DEF Init, Unasked, At, Free
  <2>2. \A t \in Thread : RequestOf(t) = Directory!None
    BY <2>1, SeenIs, SeenAt DEF Init, Free, Directory!None
  <2>3. Held = {}
    BY DEF Init, Held
  <2> QED
    BY <2>1, <2>2, <2>3 DEF Directory!Init
<1>2. WInv /\ Unasked /\ [Next]_vars => WInv' /\ Unasked'
  BY WholeNext, UnaskedNext DEF WInv
<1>3. WInv /\ WInv' /\ Unasked /\ Unasked' /\ [Next]_vars =>
        [Directory!Next]_<<Held, [t \in Thread |-> RequestOf(t)]>>
  BY StepImplements DEF Asking
<1> QED
  BY <1>1, <1>2, <1>3, PTL DEF Spec, ImplementsDirectory, Directory!Spec

=============================================================================
