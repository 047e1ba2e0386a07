----------------------------- MODULE ChunkFetch -----------------------------
(***************************************************************************)
(* How a client fetches the chunks of a file it reads: in rounds.  A round *)
(* asks, for every chunk it still misses, the first replica that was not   *)
(* asked for it yet, with one GetChunks RPC per server and batch, all in   *)
(* parallel, and waits for all of them.  FileOps has the rest of a read.   *)
(*                                                                         *)
(* A chunk is its index in the file.  What a server still has on disk and  *)
(* whether it answers in time is left open, except for the replicas in     *)
(* Reliable.                                                               *)
(***************************************************************************)
EXTENDS Integers, Sequences, FiniteSets

CONSTANTS
  Address,
  N,          \* the number of chunks of the file
  BatchSize,  \* _BATCH_SIZE
  MaxRows,    \* bound: the most locations a chunk has
  Reliable    \* <<address, chunk>> pairs: there, and served in time

Chunk == 0..(N - 1)

ASSUME SizeAssumption == N \in Nat /\ BatchSize \in Nat \ {0} /\ MaxRows \in Nat
ASSUME ReliableAssumption == Reliable \subseteq Address \X Chunk

VARIABLES
  locations,  \* [Chunk -> sequence of addresses], from GetFile
  parts,      \* the chunks fetched so far
  tried,      \* [Chunk -> the servers asked for it]
  asked,      \* the GetChunks RPCs of this round that were not answered yet
  pc

vars == <<locations, parts, tried, asked, pc>>

\* The rows of a chunk: a replica is recorded once.
Rows ==
  {s \in UNION {[1..n -> Address] : n \in 0..MaxRows} :
     \A i, j \in DOMAIN s : s[i] = s[j] => i = j}

Init ==
  /\ locations \in [Chunk -> Rows]
  /\ parts = {}
  /\ tried = [c \in Chunk |-> {}]
  /\ asked = {}
  /\ pc = "round"

Missing == Chunk \ parts

\* The positions of the replicas of c that were not asked for it yet.
Untried(c) == {i \in DOMAIN locations[c] : locations[c][i] \notin tried[c]}

Candidate(c) ==
  locations[c][CHOOSE i \in Untried(c) : \A j \in Untried(c) : i <= j]

Mut_Askable == {c \in Chunk : Untried(c) # {}}
Askable == {c \in Missing : Untried(c) # {}}
AskedOf(a) == {c \in Askable : Candidate(c) = a}

\* _chunk_id_batches: blocks of BatchSize, the last one may be smaller.
Rank(c, ids) == Cardinality({d \in ids : d < c})
Mut_BlockOf(c, ids) ==
  {d \in ids : Rank(d, ids) \div (BatchSize + 1) = Rank(c, ids) \div (BatchSize + 1)}
BlockOf(c, ids) ==
  {d \in ids : Rank(d, ids) \div BatchSize = Rank(c, ids) \div BatchSize}

Mut_Batches(a) ==
  {b \in {[addr |-> a, ids |-> BlockOf(c, AskedOf(a))] : c \in AskedOf(a)} :
     Cardinality(b.ids) = BatchSize}
Batches(a) ==
  {[addr |-> a, ids |-> BlockOf(c, AskedOf(a))] : c \in AskedOf(a)}

Mut_Marked ==
  [c \in Chunk |-> IF c \in Askable THEN {Candidate(c)} ELSE tried[c]]
Marked ==
  [c \in Chunk |-> IF c \in Askable THEN tried[c] \cup {Candidate(c)}
                                    ELSE tried[c]]

Round ==
  /\ pc = "round" /\ Askable # {}
  /\ tried' = Marked
  /\ asked' = UNION {Batches(a) : a \in Address}
  /\ pc' = "wait"
  /\ UNCHANGED <<locations, parts>>

\* The last answer of a round starts the next one.
Done(b) ==
  /\ pc = "wait" /\ b \in asked
  /\ asked' = asked \ {b}
  /\ pc' = IF asked' = {} THEN "round" ELSE "wait"
  /\ UNCHANGED <<locations, tried>>

Expected(b) == {c \in b.ids : <<b.addr, c>> \in Reliable}

\* GetChunks leaves out the chunks it has no file of.
Answered(b, held) ==
  /\ held \subseteq b.ids /\ Expected(b) \subseteq held
  /\ parts' = parts \cup held
  /\ Done(b)

\* An RpcError counts as an empty answer.
Fails(b) ==
  /\ Expected(b) = {}
  /\ UNCHANGED parts
  /\ Done(b)

Returns ==
  /\ pc = "round" /\ Missing = {}
  /\ pc' = "returned"
  /\ UNCHANGED <<locations, parts, tried, asked>>

\* "chunks unavailable after trying every replica"
Unavailable ==
  /\ pc = "round" /\ Missing # {} /\ Askable = {}
  /\ pc' = "failed"
  /\ UNCHANGED <<locations, parts, tried, asked>>

Next ==
  \/ Round
  \/ \E b \in asked : \E held \in SUBSET b.ids : Answered(b, held)
  \/ \E b \in asked : Fails(b)
  \/ Returns
  \/ Unavailable

Spec == Init /\ [][Next]_vars

\* The client does not stop, and every RPC has a deadline.
FairSpec == Spec /\ WF_vars(Next)

-----------------------------------------------------------------------------
(***************************************************************************)
(* Properties.                                                             *)
(***************************************************************************)

\* Every variable has its type, and a chunk is asked for while it is missing
\* only, of one server at a time (_fetch_chunks_batched).
TypeOK ==
  /\ locations \in [Chunk -> Rows]
  /\ parts \subseteq Chunk
  /\ tried \in [Chunk -> SUBSET Address]
  /\ asked \subseteq [addr : Address, ids : SUBSET Chunk]
  /\ pc \in {"round", "wait", "returned", "failed"}
  /\ \A b \in asked : \A c \in b.ids :
       c \in Missing /\ b.addr \in tried[c]
  /\ \A b, d \in asked : b.ids \cap d.ids # {} => b = d

\* A read fails only if some chunk has no reliable replica among those the
\* naming server listed: a server that fails, or has lost some chunks of a
\* batch, never hides the replicas of other chunks or of other servers.
FailsOnlyIfLost ==
  pc = "failed" =>
    \E c \in Missing : \A i \in DOMAIN locations[c] :
      <<locations[c][i], c>> \notin Reliable

\* No request asks for nothing, nor for more chunks than fit into a message
\* (client.py:18-21), and no round waits for nothing: whatever is left of a
\* server's chunks makes a last batch (_chunk_id_batches).
BatchesFit ==
  /\ \A b \in asked : Cardinality(b.ids) \in 1..BatchSize
  /\ pc = "wait" => asked # {}

\* Why a read ends: each step uses up a replica that was not asked for some
\* chunk yet, or an answer the round waits for, or it is the last one.  No
\* step, a round after failures least of all, brings a replica back.
Left == {p \in Chunk \X (1..MaxRows) : p[2] \in Untried(p[1])}

Progresses ==
  \/ Left' \subseteq Left /\ Left' # Left
  \/ Left' = Left /\ asked' \subseteq asked /\ asked' # asked
  \/ /\ Left' = Left /\ asked' = asked
     /\ pc = "round" /\ pc' \in {"returned", "failed"}

Progress == [][Progresses]_vars

\* A read comes to an end, whatever servers do not answer.
Ends == <>(pc \in {"returned", "failed"})

=============================================================================
