--------------------------- MODULE ChunkFetchProofs ---------------------------
(***************************************************************************)
(* Proofs about ChunkFetch, for any number of chunks, servers and replicas *)
(* and any batch size.                                                     *)
(***************************************************************************)
EXTENDS ChunkFetch, WellFoundedInduction, FiniteSetTheorems, TLAPS

\* A non-empty set of natural numbers has a smallest element.
LEMMA SmallestOf ==
  ASSUME NEW S, S \subseteq Nat, S # {}
  PROVE  \E i \in S : \A j \in S : i <= j
<1> DEFINE Less == {p \in Nat \X Nat : p[1] < p[2]}
<1>1. IsWellFoundedOn(Less, Nat)
  BY NatLessThanWellFounded DEF OpToRel
<1>2. PICK i \in S : \A j \in S : <<j, i>> \notin Less
  BY <1>1, WFMin, Zenon
<1>3. ASSUME NEW j \in S PROVE i <= j
  <2>1. i \in Nat /\ j \in Nat /\ ~(j < i)
    BY <1>2
  <2> QED
    BY <2>1
<1> QED
  BY <1>3

\* A chunk that can be asked for is asked of one of its replicas, which was
\* not asked for it before.
LEMMA CandidateUntried ==
  ASSUME TypeOK, NEW c \in Askable
  PROVE  Candidate(c) \in Address /\ Candidate(c) \notin tried[c]
<1>1. PICK n \in 0..MaxRows : locations[c] \in [1..n -> Address]
  BY DEF TypeOK, Rows, Askable, Missing
<1>2. Untried(c) \subseteq 1..n /\ Untried(c) # {}
  BY <1>1 DEF Untried, Askable
<1>3. PICK i \in Untried(c) : \A j \in Untried(c) : i <= j
  <2>1. n \in Nat
    BY SizeAssumption
  <2> QED
    BY <1>2, <2>1, SmallestOf
<1> QED
  BY <1>1, <1>2, <1>3 DEF Candidate, Untried

\* The batches of a round hold exactly the chunks that can be asked for,
\* each in the batch of one server.
LEMMA BatchesCover ==
  ASSUME TypeOK
  PROVE  /\ \A c \in Askable : Candidate(c) \in Address =>
              \E b \in Batches(Candidate(c)) : b.addr = Candidate(c) /\ c \in b.ids
         /\ \A a \in Address : \A b \in Batches(a) :
              b.addr = a /\ b.ids \subseteq AskedOf(a)
         /\ \A a \in Address : \A b, d \in Batches(a) :
              b.ids \cap d.ids # {} => b = d
<1> DEFINE Key(c, ids) == Rank(c, ids) \div BatchSize
<1>1. \A c, ids : BlockOf(c, ids) = {d \in ids : Key(d, ids) = Key(c, ids)}
  BY DEF BlockOf
<1> HIDE DEF Key
<1>2. ASSUME NEW c \in Askable, Candidate(c) \in Address
      PROVE  \E b \in Batches(Candidate(c)) : b.addr = Candidate(c) /\ c \in b.ids
  <2>1. c \in AskedOf(Candidate(c))
    BY DEF AskedOf
  <2> DEFINE a == Candidate(c)
             b == [addr |-> a, ids |-> BlockOf(c, AskedOf(a))]
  <2>2. b \in Batches(a)
    BY <2>1 DEF Batches
  <2>3. b.addr = a /\ c \in b.ids
    BY <1>1, <2>1
  <2> QED
    BY <2>2, <2>3
<1>3. ASSUME NEW a \in Address, NEW b \in Batches(a)
      PROVE  b.addr = a /\ b.ids \subseteq AskedOf(a)
  BY <1>1 DEF Batches
<1>4. ASSUME NEW a \in Address, NEW b \in Batches(a), NEW d \in Batches(a),
             NEW x \in b.ids, x \in d.ids
      PROVE  b = d
  <2>1. PICK c \in AskedOf(a) : b = [addr |-> a, ids |-> BlockOf(c, AskedOf(a))]
    BY DEF Batches
  <2>2. PICK e \in AskedOf(a) : d = [addr |-> a, ids |-> BlockOf(e, AskedOf(a))]
    BY DEF Batches
  <2>3. Key(c, AskedOf(a)) = Key(e, AskedOf(a))
    BY <1>1, <1>4, <2>1, <2>2
  <2> QED
    BY <1>1, <2>1, <2>2, <2>3
<1> QED
  BY <1>2, <1>3, <1>4

LEMMA TypeInit == Init => TypeOK
BY DEF Init, TypeOK, Missing

LEMMA TypeRound == TypeOK /\ Round => TypeOK'
<1> SUFFICES ASSUME TypeOK, Round PROVE TypeOK'
  OBVIOUS
<1>1. Askable \subseteq Missing /\ Missing' = Missing
  BY DEF Round, Askable, Missing
<1>2. tried' \in [Chunk -> SUBSET Address]
  BY CandidateUntried DEF TypeOK, Round, Marked
<1>3. ASSUME NEW b \in asked'
      PROVE  /\ b \in [addr : Address, ids : SUBSET Chunk]
             /\ b \in Batches(b.addr)
             /\ \A c \in b.ids : c \in Askable /\ b.addr = Candidate(c)
  <2>1. PICK a \in Address : b \in Batches(a)
    BY DEF Round
  <2>2. b.addr = a /\ b.ids \subseteq AskedOf(a)
    BY <2>1, BatchesCover
  <2>3. b = [addr |-> a, ids |-> b.ids]
    BY <2>1 DEF Batches
  <2>4. b.ids \subseteq Chunk
    BY <2>2, <1>1 DEF AskedOf, Missing
  <2> QED
    BY <2>1, <2>2, <2>3, <2>4 DEF AskedOf
<1>4. \A b \in asked' : \A c \in b.ids : c \in Missing' /\ b.addr \in tried'[c]
  BY <1>1, <1>3 DEF Round, Marked, Missing
<1>5. \A b, d \in asked' : b.ids \cap d.ids # {} => b = d
  <2> SUFFICES ASSUME NEW b \in asked', NEW d \in asked', NEW c \in b.ids,
                      c \in d.ids
               PROVE  b = d
    OBVIOUS
  <2>1. b.addr = d.addr /\ b.addr \in Address
    BY <1>3
  <2> QED
    BY <2>1, <1>3, BatchesCover
<1>6. /\ locations' \in [Chunk -> Rows] /\ parts' \subseteq Chunk
      /\ pc' \in {"round", "wait", "returned", "failed"}
  BY DEF TypeOK, Round
<1> QED
  BY <1>2, <1>3, <1>4, <1>5, <1>6 DEF TypeOK

\* An answer: the chunks of one batch may arrive, those of the others are
\* still missing.
LEMMA TypeDone ==
  ASSUME TypeOK, NEW b \in asked, Done(b),
         NEW held \in SUBSET b.ids, parts' = parts \cup held
  PROVE  TypeOK'
<1>1. held \subseteq Chunk
  BY DEF TypeOK
<1>2. asked' \subseteq asked /\ b \notin asked'
  BY DEF Done
<1>3. \A d \in asked' : \A c \in d.ids : c \in Missing'
  BY <1>2 DEF TypeOK, Missing
<1> QED
  BY <1>1, <1>2, <1>3 DEF TypeOK, Done

LEMMA TypeNext == TypeOK /\ [Next]_vars => TypeOK'
<1> SUFFICES ASSUME TypeOK, [Next]_vars PROVE TypeOK'
  OBVIOUS
<1>1. CASE Round
  BY <1>1, TypeRound
<1>2. ASSUME NEW b \in asked, NEW held \in SUBSET b.ids, Answered(b, held)
      PROVE  TypeOK'
  BY <1>2, TypeDone DEF Answered
<1>3. ASSUME NEW b \in asked, Fails(b) PROVE TypeOK'
  <2>1. parts' = parts \cup {}
    BY <1>3 DEF Fails
  <2> QED
    BY <1>3, <2>1, TypeDone DEF Fails
<1>4. CASE Returns \/ Unavailable
  BY <1>4 DEF Returns, Unavailable, TypeOK, Missing
<1>5. CASE UNCHANGED vars
  BY <1>5 DEF vars, TypeOK, Missing
<1> QED
  BY <1>1, <1>2, <1>3, <1>4, <1>5 DEF Next

\* Every variable keeps its type, and no chunk is asked of two servers at a
\* time or again after it was fetched (_fetch_chunks_batched).
THEOREM TypeCorrect == Spec => []TypeOK
BY TypeInit, TypeNext, PTL DEF Spec

-----------------------------------------------------------------------------
(***************************************************************************)
(* FailsOnlyIfLost.  What makes it inductive: a reliable replica that was  *)
(* tried in vain is still being asked.                                     *)
(***************************************************************************)
Pending ==
  \A c \in Missing : \A a \in tried[c] :
    <<a, c>> \in Reliable => \E b \in asked : b.addr = a /\ c \in b.ids

FInv ==
  /\ TypeOK
  /\ Pending
  /\ pc # "wait" => asked = {}
  /\ FailsOnlyIfLost

LEMMA FailInit == Init => FInv
BY TypeInit DEF Init, FInv, Pending, FailsOnlyIfLost, Missing

LEMMA FailDone ==
  ASSUME FInv, NEW b \in asked, Done(b),
         NEW held \in SUBSET b.ids, parts' = parts \cup held,
         Expected(b) \subseteq held, TypeOK'
  PROVE  FInv'
<1>1. asked' = asked \ {b} /\ tried' = tried /\ pc' \in {"round", "wait"}
  BY DEF Done
<1>2. Pending'
  <2> SUFFICES ASSUME NEW c \in Missing', NEW a \in tried[c],
                      <<a, c>> \in Reliable
               PROVE  \E d \in asked' : d.addr = a /\ c \in d.ids
    BY <1>1 DEF Pending
  <2>1. c \in Missing /\ c \notin held
    BY DEF Missing
  <2>2. PICK d \in asked : d.addr = a /\ c \in d.ids
    BY <2>1 DEF FInv, Pending
  <2>3. d # b
    BY <2>1, <2>2 DEF Expected
  <2> QED
    BY <1>1, <2>2, <2>3
<1>3. pc' # "wait" => asked' = {}
  BY DEF Done
<1> QED
  BY <1>1, <1>2, <1>3 DEF FInv, FailsOnlyIfLost

LEMMA FailNext == FInv /\ [Next]_vars => FInv'
<1> SUFFICES ASSUME FInv, [Next]_vars PROVE FInv'
  OBVIOUS
<1>1. TypeOK'
  BY TypeNext DEF FInv
<1>2. CASE Round
  <2>1. Pending'
    <3> SUFFICES ASSUME NEW c \in Missing, NEW a \in tried'[c],
                        <<a, c>> \in Reliable
                 PROVE  \E b \in asked' : b.addr = a /\ c \in b.ids
      BY <1>2 DEF Pending, Round, Missing
    <3>1. a \in tried[c] \/ (c \in Askable /\ a = Candidate(c))
      BY <1>2 DEF Round, Marked, Missing
    <3>2. a \notin tried[c]
      BY <1>2 DEF FInv, Pending, Round
    <3>3. a \in Address
      BY ReliableAssumption
    <3>4. \E b \in Batches(a) : b.addr = a /\ c \in b.ids
      BY <3>1, <3>2, <3>3, BatchesCover DEF FInv
    <3> QED
      BY <1>2, <3>3, <3>4 DEF Round
  <2> QED
    BY <1>1, <1>2, <2>1 DEF FInv, Round, FailsOnlyIfLost
<1>3. ASSUME NEW b \in asked, NEW held \in SUBSET b.ids, Answered(b, held)
      PROVE  FInv'
  BY <1>1, <1>3, FailDone DEF Answered
<1>4. ASSUME NEW b \in asked, Fails(b) PROVE FInv'
  <2>1. parts' = parts \cup {} /\ Expected(b) \subseteq {} /\ Done(b)
    BY <1>4 DEF Fails
  <2> QED
    BY <1>1, <2>1, FailDone
<1>5. CASE Returns
  BY <1>1, <1>5 DEF Returns, FInv, Pending, Missing, FailsOnlyIfLost
<1>6. CASE Unavailable
  <2>1. PICK c \in Missing : Untried(c) = {}
    BY <1>6 DEF Unavailable, Askable
  <2>2. ASSUME NEW i \in DOMAIN locations[c]
        PROVE  <<locations[c][i], c>> \notin Reliable
    <3>1. locations[c][i] \in tried[c]
      BY <2>1 DEF Untried
    <3> QED
      BY <1>6, <3>1 DEF FInv, Pending, Unavailable
  <2> QED
    BY <1>1, <1>6, <2>2 DEF Unavailable, FInv, Pending, Missing, FailsOnlyIfLost
<1>7. CASE UNCHANGED vars
  BY <1>1, <1>7 DEF vars, FInv, Pending, Missing, FailsOnlyIfLost
<1> QED
  BY <1>2, <1>3, <1>4, <1>5, <1>6, <1>7 DEF Next

\* A read is given up only if the naming server listed no reliable replica
\* of some chunk of it: for any number of chunks, servers and replicas, any
\* batch size and any pattern of failing servers (_fetch_chunks_batched).
THEOREM FailoverCorrect == Spec => []FailsOnlyIfLost
<1>1. FInv => FailsOnlyIfLost
  BY DEF FInv
<1> QED
  BY <1>1, FailInit, FailNext, PTL DEF Spec


-----------------------------------------------------------------------------
(***************************************************************************)
(* Progress.  A round uses up the first untried replica of every chunk it  *)
(* asks for; an answer is one less to wait for.                            *)
(***************************************************************************)

LEMMA ReplicaUsed ==
  ASSUME TypeOK, Round
  PROVE  Left' \subseteq Left /\ Left' # Left
<1>1. \A c \in Chunk : Untried(c)' \subseteq Untried(c)
  BY DEF Round, Marked, Untried
<1>2. PICK c \in Askable : TRUE
  BY DEF Round
<1>3. PICK n \in 0..MaxRows : locations[c] \in [1..n -> Address]
  BY DEF TypeOK, Rows, Askable, Missing
<1>4. Untried(c) \subseteq 1..n /\ Untried(c) # {} /\ c \in Chunk
  BY <1>3 DEF Untried, Askable, Missing
<1>5. PICK i \in Untried(c) : locations[c][i] = Candidate(c)
  <2>1. n \in Nat /\ 1..n \subseteq Nat
    BY SizeAssumption
  <2>2. \E i \in Untried(c) : \A j \in Untried(c) : i <= j
    BY <1>4, <2>1, SmallestOf
  <2> QED
    BY <2>2 DEF Candidate
<1>6. Candidate(c) \in tried'[c]
  BY <1>4 DEF Round, Marked
<1>7. i \notin Untried(c)'
  BY <1>5, <1>6 DEF Untried, Round
<1>8. i \in 1..MaxRows
  BY <1>3, <1>4, SizeAssumption
<1>9. <<c, i>> \in Left /\ <<c, i>> \notin Left'
  BY <1>4, <1>5, <1>7, <1>8 DEF Left
<1>10. Left' \subseteq Left
  BY <1>1 DEF Left
<1> QED
  BY <1>9, <1>10

LEMMA NextProgresses == TypeOK /\ [Next]_vars => [Progresses]_vars
<1> SUFFICES ASSUME TypeOK, Next PROVE Progresses
  OBVIOUS
<1>1. CASE Round
  BY <1>1, ReplicaUsed DEF Progresses
<1>2. UNCHANGED <<locations, tried>> => Left' = Left
  BY DEF Left, Untried
<1>3. ASSUME NEW b \in asked, Done(b) PROVE Progresses
  <2>1. Left' = Left /\ asked' \subseteq asked /\ asked' # asked
    BY <1>2, <1>3 DEF Done
  <2> QED
    BY <2>1 DEF Progresses
<1>4. CASE Returns \/ Unavailable
  BY <1>2, <1>4 DEF Returns, Unavailable, Progresses
<1> QED
  BY <1>1, <1>3, <1>4 DEF Next, Answered, Fails

\* The safety half of "a read comes to an end": no step gives back a replica
\* that was asked before, and each uses one up, or an answer, or is the last
\* (_fetch_chunks_batched).  What is left is finite, so with the fairness of
\* FairSpec every read ends.
THEOREM ReadsProgress == Spec => Progress
BY TypeInit, TypeNext, NextProgresses, PTL DEF Spec, Progress

-----------------------------------------------------------------------------
(***************************************************************************)
(* BatchesFit.  The chunks of a batch have different ranks, all from the   *)
(* same block of BatchSize numbers.                                        *)
(***************************************************************************)

LEMMA RankOrder ==
  ASSUME NEW ids \in SUBSET Chunk, NEW c \in ids, NEW d \in ids
  PROVE  /\ IsFiniteSet(ids) /\ Rank(c, ids) \in Nat
         /\ c < d => Rank(c, ids) < Rank(d, ids)
<1> DEFINE Below(e) == {x \in ids : x < e}
<1>1. IsFiniteSet(ids) /\ ids \subseteq Int
  <2>1. IsFiniteSet(Chunk) /\ Chunk \subseteq Int
    BY SizeAssumption, FS_Interval DEF Chunk
  <2> QED
    BY <2>1, FS_Subset
<1>2. IsFiniteSet(Below(c)) /\ IsFiniteSet(Below(d))
  BY <1>1, FS_Subset
<1>3. Cardinality(Below(c)) \in Nat /\ Cardinality(Below(d)) \in Nat
  BY <1>2, FS_CardinalityType
<1>4. ASSUME c < d PROVE Cardinality(Below(c)) < Cardinality(Below(d))
  <2>1. c \in Int /\ d \in Int
    BY <1>1
  <2>2. ~(c < c)
    BY <2>1
  <2>3. ASSUME NEW x \in ids, x < c PROVE x < d
    BY <1>1, <1>4, <2>1, <2>3
  <2>4. Below(c) \cup {c} \subseteq Below(d) /\ c \notin Below(c)
    BY <1>4, <2>2, <2>3, Zenon
  <2>5. /\ IsFiniteSet(Below(c) \cup {c})
        /\ Cardinality(Below(c) \cup {c}) = Cardinality(Below(c)) + 1
    BY <1>2, <2>4, FS_AddElement
  <2>6. Cardinality(Below(c) \cup {c}) <= Cardinality(Below(d))
    BY <1>2, <2>4, FS_Subset
  <2> QED
    BY <1>3, <2>5, <2>6
<1> QED
  BY <1>1, <1>3, <1>4 DEF Rank

LEMMA BlockBounds ==
  ASSUME NEW n \in Nat \ {0}, NEW x \in Nat, NEW k, k = x \div n
  PROVE  k \in Int /\ x - n * k \in 0..(n - 1)
<1>1. x = n * (x \div n) + (x % n) /\ x % n \in 0..(n - 1) /\ x \div n \in Int
  OBVIOUS
<1>2. k \in Int /\ n * k \in Int
  BY <1>1
<1>3. x = n * k + (x % n)
  BY <1>1
<1>4. PICK r : r = x % n
  OBVIOUS
<1>5. PICK m : m = n * k
  OBVIOUS
<1>6. x = m + r /\ r \in 0..(n - 1) /\ m \in Int
  BY <1>1, <1>2, <1>3, <1>4, <1>5
<1>7. x - m = r
  BY <1>6
<1> QED
  BY <1>2, <1>5, <1>6, <1>7

LEMMA BlockFits ==
  ASSUME NEW ids \in SUBSET Chunk, NEW c \in ids
  PROVE  Cardinality(BlockOf(c, ids)) \in 1..BatchSize
<1> DEFINE B == BlockOf(c, ids)
<1>1. PICK k : k = Rank(c, ids) \div BatchSize
  OBVIOUS
<1>2. B = {d \in ids : Rank(d, ids) \div BatchSize = k}
  BY <1>1 DEF BlockOf
<1>3. c \in B /\ B \subseteq ids
  BY <1>1, <1>2
<1> DEFINE at == [d \in B |-> Rank(d, ids) - BatchSize * k]
<1> HIDE DEF B
<1>4. ASSUME NEW d \in B PROVE k \in Int /\ at[d] \in 0..(BatchSize - 1)
  <2>1. Rank(d, ids) \in Nat /\ k = Rank(d, ids) \div BatchSize
    BY <1>2, <1>3, RankOrder
  <2> QED
    BY <2>1, BlockBounds, SizeAssumption
<1>5. at \in [B -> 0..(BatchSize - 1)]
  BY <1>4
<1>6. ASSUME NEW d \in B, NEW e \in B, at[d] = at[e] PROVE d = e
  <2>1. PICK m : m = BatchSize * k
    OBVIOUS
  <2>2. m \in Int
    BY <1>4, <2>1, SizeAssumption
  <2>3. Rank(d, ids) - m = Rank(e, ids) - m
    BY <1>6, <2>1
  <2>4. Rank(d, ids) \in Nat /\ Rank(e, ids) \in Nat /\ d \in ids /\ e \in ids
    BY <1>3, RankOrder
  <2>5. Rank(d, ids) = Rank(e, ids)
    BY <2>2, <2>3, <2>4
  <2>6. ~(d < e) /\ ~(e < d)
    BY <2>4, <2>5, RankOrder
  <2>7. d \in Int /\ e \in Int
    BY <2>4, SizeAssumption DEF Chunk
  <2> QED
    BY <2>6, <2>7
<1>7. at \in Injection(B, 0..(BatchSize - 1))
  BY <1>5, <1>6 DEF Injection, IsInjective
<1>8. /\ IsFiniteSet(0..(BatchSize - 1))
      /\ Cardinality(0..(BatchSize - 1)) = BatchSize
  BY SizeAssumption, FS_Interval
<1>9. IsFiniteSet(B) /\ Cardinality(B) <= BatchSize
  BY <1>7, <1>8, FS_Injection
<1>10. Cardinality(B) \in Nat /\ Cardinality(B) # 0
  BY <1>3, <1>9, FS_CardinalityType, FS_EmptySet
<1>11. Cardinality(B) \in 1..BatchSize
  BY <1>9, <1>10, SizeAssumption
<1> QED
  BY <1>11 DEF B

LEMMA FitsRound == TypeOK /\ Round => BatchesFit'
<1> SUFFICES ASSUME TypeOK, Round PROVE BatchesFit'
  OBVIOUS
<1>1. ASSUME NEW b \in asked' PROVE Cardinality(b.ids) \in 1..BatchSize
  <2>1. PICK a \in Address : b \in Batches(a)
    BY DEF Round
  <2>2. PICK c \in AskedOf(a) : b.ids = BlockOf(c, AskedOf(a))
    BY <2>1 DEF Batches
  <2>3. AskedOf(a) \in SUBSET Chunk
    BY DEF AskedOf, Askable, Missing
  <2> QED
    BY <2>2, <2>3, BlockFits
<1>2. asked' # {}
  <2>1. PICK c \in Askable : TRUE
    BY DEF Round
  <2>2. Candidate(c) \in Address
    BY CandidateUntried
  <2>3. \E b \in Batches(Candidate(c)) : TRUE
    BY <2>2, BatchesCover
  <2> QED
    BY <2>2, <2>3 DEF Round
<1> QED
  BY <1>1, <1>2 DEF BatchesFit

LEMMA FitsNext == TypeOK /\ BatchesFit /\ [Next]_vars => BatchesFit'
<1> SUFFICES ASSUME TypeOK, BatchesFit, [Next]_vars PROVE BatchesFit'
  OBVIOUS
<1>1. ASSUME NEW b \in asked, Done(b) PROVE BatchesFit'
  BY <1>1 DEF Done, BatchesFit
<1>2. CASE Returns \/ Unavailable \/ UNCHANGED vars
  BY <1>2 DEF Returns, Unavailable, vars, BatchesFit
<1> QED
  BY <1>1, <1>2, FitsRound DEF Next, Answered, Fails

\* No request of a read is empty or asks for more than a batch of chunks, and
\* the client never waits for nothing (_chunk_id_batches, whose slices end
\* where the list ends).
THEOREM BatchesAlwaysFit == Spec => []BatchesFit
<1>1. Init => BatchesFit
  BY DEF Init, BatchesFit
<1> QED
  BY <1>1, TypeInit, TypeNext, FitsNext, PTL DEF Spec

=============================================================================
