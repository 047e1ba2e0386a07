--------------------------- MODULE MembershipProofs ---------------------------
(***************************************************************************)
(* Proofs about Membership, for every interval, deadline and timeout, any  *)
(* number of servers, lost calls, stops and starts: how long a server can  *)
(* be quiet, that it does not look dead meanwhile, that a stopped one does *)
(* soon, and that the placements are balanced.                             *)
(***************************************************************************)
EXTENDS Membership, FiniteSetTheorems, TLAPS

Loops == [pc : {"down", "register", "heartbeat", "sleep", "backoff"},
          left : Nat, answered : BOOLEAN]

LEMMA PatienceBase == Patience(0) = Interval + 2 * Deadline
BY TimeAssumption, SMT DEF Patience

LEMMA PatienceStep ==
  ASSUME NEW n \in Nat
  PROVE  /\ Patience(n) \in Nat
         /\ Patience(n + 1) = Patience(n) + Interval + Deadline
<1> DEFINE k == Interval + Deadline
<1>1. k \in Nat /\ Deadline \in Nat
  BY TimeAssumption
<1>2. (n + 1) * k \in Nat /\ (n + 2) * k = (n + 1) * k + k
  BY <1>1, SMT
<1>3. Patience(n) = (n + 1) * k + Deadline
  BY DEF Patience
<1>4. Patience(n + 1) = (n + 2) * k + Deadline
  <2>1. n + 1 + 1 = n + 2
    OBVIOUS
  <2> QED
    BY <2>1 DEF Patience
<1> HIDE DEF k
<1>5. Patience(n) \in Nat /\ Patience(n + 1) = Patience(n) + k
  BY <1>1, <1>2, <1>3, <1>4
<1> QED
  BY <1>5, TimeAssumption DEF k

-----------------------------------------------------------------------------
(***************************************************************************)
(* Types.                                                                  *)
(***************************************************************************)

LEMMA InitType == Init => TypeOK
BY TimeAssumption, BoundAssumption DEF Init, TypeOK, Down, Unknown, Running, Calling

LEMMA CallType ==
  /\ Call("register") \in Loops /\ Call("heartbeat") \in Loops
  /\ Sleep("sleep") \in Loops /\ Sleep("backoff") \in Loops
  /\ Down \in Loops
BY TimeAssumption DEF Call, Sleep, Down, Loops

\* One heartbeat thread goes to a new state.
LEMMA LoopType ==
  ASSUME TypeOK, NEW a \in Server, NEW new \in Loops,
         new.left <= IF new.pc \in {"register", "heartbeat"} THEN Deadline ELSE Interval,
         loop' = [loop EXCEPT ![a] = new]
  PROVE  /\ loop' \in [Server -> Loops]
         /\ \A b \in Server :
              loop'[b].left <= IF Calling(b)' THEN Deadline ELSE Interval
BY DEF TypeOK, Calling, Loops

LEMMA GivenUpType ==
  ASSUME TypeOK, NEW a \in Server
  PROVE  GivenUp(a) \subseteq 0..Deadline
BY TimeAssumption DEF TypeOK, GivenUp, Calling

LEMMA NextType == TypeOK /\ [Next]_vars => TypeOK'
<1> SUFFICES ASSUME TypeOK, [Next]_vars PROVE TypeOK'
  OBVIOUS
<1> USE TimeAssumption, BoundAssumption
<1>1. ASSUME NEW a \in Server, Handle(a) PROVE TypeOK'
  <2> DEFINE new == [loop[a] EXCEPT !.answered = TRUE]
  <2>1. new \in Loops /\ new.pc = loop[a].pc /\ new.left = loop[a].left
    BY DEF TypeOK, Loops
  <2>2. loop' = [loop EXCEPT ![a] = new]
    BY <1>1 DEF Handle
  <2>3. new.left <= IF new.pc \in {"register", "heartbeat"} THEN Deadline ELSE Interval
    BY <2>1 DEF TypeOK, Calling
  <2>4. /\ loop' \in [Server -> Loops]
        /\ \A b \in Server :
             loop'[b].left <= IF Calling(b)' THEN Deadline ELSE Interval
    <3> HIDE DEF new
    <3> QED
      BY <2>1, <2>2, <2>3, LoopType
  <2>5. heard' \subseteq {b \in Server : Running(b)'}
    BY <1>1 DEF Handle, TypeOK, Running, Calling
  <2> QED
    BY <1>1, <2>4, <2>5 DEF Handle, MarkAlive, TypeOK, Loops, Unknown
<1>2. ASSUME NEW a \in Server, NEW left \in late[a], HandleLate(a, left) PROVE TypeOK'
  BY <1>2 DEF HandleLate, MarkAlive, TypeOK, Unknown, Running, Calling
<1>3. ASSUME NEW a \in Server, Answer(a) PROVE TypeOK'
  <2>1. PICK new \in {Call("heartbeat"), Sleep("sleep")} : loop' = [loop EXCEPT ![a] = new]
    BY <1>3 DEF Answer
  <2>2. /\ new \in Loops /\ new.pc # "down"
        /\ new.left <= IF new.pc \in {"register", "heartbeat"} THEN Deadline ELSE Interval
    <3>1. CASE new = Call("heartbeat")
      BY <3>1, CallType DEF Call
    <3>2. CASE new = Sleep("sleep")
      BY <3>2, CallType DEF Sleep
    <3> QED
      BY <2>1, <3>1, <3>2
  <2>3. /\ loop' \in [Server -> Loops]
        /\ \A b \in Server :
             loop'[b].left <= IF Calling(b)' THEN Deadline ELSE Interval
    BY <2>1, <2>2, LoopType
  <2>4. heard' \subseteq {b \in Server : Running(b)'}
    BY <1>3, <2>1, <2>2 DEF Answer, TypeOK, Running
  <2> QED
    BY <1>3, <2>3, <2>4 DEF Answer, TypeOK, Loops
<1>4. ASSUME NEW a \in Server, CallFails(a) PROVE TypeOK'
  <2>1. loop' = [loop EXCEPT ![a] = Sleep("backoff")]
    BY <1>4 DEF CallFails
  <2>2. Sleep("backoff").left <= Interval /\ Sleep("backoff").pc = "backoff"
    BY DEF Sleep
  <2>3. /\ loop' \in [Server -> Loops]
        /\ \A b \in Server :
             loop'[b].left <= IF Calling(b)' THEN Deadline ELSE Interval
    BY <2>1, <2>2, CallType, LoopType
  <2>4. heard' \subseteq {b \in Server : Running(b)'}
    BY <1>4, <2>1, <2>2 DEF CallFails, TypeOK, Running
  <2>5. late' \in [Server -> SUBSET (0..Deadline)]
    BY <1>4, GivenUpType DEF CallFails, TypeOK
  <2>6. fails' \in [Server -> 0..MaxFails]
    BY <1>4 DEF CallFails, TypeOK, UpTo
  <2> QED
    BY <1>4, <2>3, <2>4, <2>5, <2>6 DEF CallFails, TypeOK, Loops
<1>5. ASSUME NEW a \in Server, Wake(a) PROVE TypeOK'
  <2>1. PICK new \in {Call("heartbeat"), Call("register")} : loop' = [loop EXCEPT ![a] = new]
    BY <1>5 DEF Wake
  <2>2. /\ new \in Loops /\ new.pc # "down"
        /\ new.left <= IF new.pc \in {"register", "heartbeat"} THEN Deadline ELSE Interval
    <3>1. CASE new = Call("heartbeat")
      BY <3>1, CallType DEF Call
    <3>2. CASE new = Call("register")
      BY <3>2, CallType DEF Call
    <3> QED
      BY <2>1, <3>1, <3>2
  <2>3. /\ loop' \in [Server -> Loops]
        /\ \A b \in Server :
             loop'[b].left <= IF Calling(b)' THEN Deadline ELSE Interval
    BY <2>1, <2>2, LoopType
  <2>4. heard' \subseteq {b \in Server : Running(b)'}
    BY <1>5, <2>1, <2>2 DEF Wake, TypeOK, Running
  <2> QED
    BY <1>5, <2>3, <2>4 DEF Wake, TypeOK, Loops
<1>6. ASSUME NEW a \in Server, StartServer(a) PROVE TypeOK'
  <2>1. loop' = [loop EXCEPT ![a] = Call("register")]
    BY <1>6 DEF StartServer
  <2>2. Call("register").left <= Deadline /\ Call("register").pc = "register"
    BY DEF Call
  <2>3. /\ loop' \in [Server -> Loops]
        /\ \A b \in Server :
             loop'[b].left <= IF Calling(b)' THEN Deadline ELSE Interval
    BY <2>1, <2>2, CallType, LoopType
  <2>4. heard' \subseteq {b \in Server : Running(b)'}
    BY <1>6, <2>1, <2>2 DEF StartServer, TypeOK, Running
  <2> QED
    BY <1>6, <2>3, <2>4 DEF StartServer, TypeOK, Loops
<1>7. ASSUME NEW a \in Server, StopServer(a) PROVE TypeOK'
  <2>1. loop' = [loop EXCEPT ![a] = Down]
    BY <1>7 DEF StopServer
  <2>2. Down.left <= Interval /\ Down.pc = "down"
    BY DEF Down
  <2>3. /\ loop' \in [Server -> Loops]
        /\ \A b \in Server :
             loop'[b].left <= IF Calling(b)' THEN Deadline ELSE Interval
    BY <2>1, <2>2, CallType, LoopType
  <2>4. heard' \subseteq {b \in Server : Running(b)'}
    BY <1>7, <2>1, <2>2 DEF StopServer, TypeOK, Running
  <2>5. late' \in [Server -> SUBSET (0..Deadline)]
    BY <1>7, GivenUpType DEF StopServer, TypeOK
  <2> QED
    BY <1>7, <2>3, <2>4, <2>5 DEF StopServer, TypeOK, Loops
<1>8. CASE Pick
  BY <1>8 DEF Pick, TypeOK, Running, Calling
<1>9. CASE NamingStop
  <2>1. age' \in [Server -> 0..(Timeout + 1) \cup {Unknown}]
    BY <1>9 DEF NamingStop, Unknown
  <2>2. late' \in [Server -> SUBSET (0..Deadline)]
    BY <1>9 DEF NamingStop
  <2>3. crashes' \in 0..MaxCrashes
    BY <1>9 DEF NamingStop, TypeOK
  <2>4. rr' \in 0..MaxPicks
    BY <1>9, BoundAssumption DEF NamingStop
  <2>5. heard' \subseteq {b \in Server : Running(b)'}
    BY <1>9 DEF NamingStop
  <2>6. loop' = loop /\ quiet' = quiet /\ fails' = fails /\ stops' = stops
    BY <1>9 DEF NamingStop
  <2>7. up' \in BOOLEAN
    BY <1>9 DEF NamingStop
  <2> QED
    BY <2>1, <2>2, <2>3, <2>4, <2>5, <2>6, <2>7 DEF TypeOK, Calling
<1>10. CASE NamingStart
  <2>1. quiet' \in [Server -> 0..MaxQuiet] /\ fails' \in [Server -> 0..MaxFails]
    BY <1>10 DEF NamingStart, TypeOK
  <2> QED
    BY <1>10, <2>1 DEF NamingStart, TypeOK, Running, Calling
<1>11. CASE Tick
  <2>1. ASSUME NEW b \in Server
        PROVE  /\ loop'[b] \in Loops /\ loop'[b].pc = loop[b].pc
               /\ loop'[b].left <= loop[b].left
    BY <1>11 DEF Tick, TypeOK, Loops, Running
  <2>2. loop' \in [Server -> Loops]
    BY <1>11, <2>1 DEF Tick
  <2>3. \A b \in Server : loop'[b].left <= IF Calling(b)' THEN Deadline ELSE Interval
    <3> TAKE b \in Server
    <3>1. loop'[b].left \in Nat /\ loop[b].left \in Nat
      BY <2>1 DEF TypeOK, Loops
    <3> QED
      BY <2>1, <3>1 DEF TypeOK, Calling
  <2>4. heard' \subseteq {b \in Server : Running(b)'}
    BY <1>11, <2>1 DEF Tick, TypeOK, Running
  <2>5. late' \in [Server -> SUBSET (0..Deadline)]
    <3>1. \A lefts \in SUBSET (0..Deadline) : Remaining(lefts) \subseteq 0..Deadline
      BY DEF Remaining
    <3>2. late' = [b \in Server |-> Remaining(late[b])]
      BY <1>11 DEF Tick
    <3>3. \A b \in Server : late[b] \in SUBSET (0..Deadline)
      BY DEF TypeOK
    <3> QED
      BY <3>1, <3>2, <3>3
  <2>6. age' \in [Server -> 0..(Timeout + 1) \cup {Unknown}]
    BY <1>11 DEF Tick, TypeOK, UpTo, Unknown
  <2>7. quiet' \in [Server -> 0..MaxQuiet]
    BY <1>11 DEF Tick, TypeOK, UpTo
  <2> QED
    BY <1>11, <2>2, <2>3, <2>4, <2>5, <2>6, <2>7 DEF Tick, TypeOK, Loops
<1>12. CASE UNCHANGED vars
  BY <1>12 DEF vars, TypeOK, Running, Calling
<1> QED
  BY <1>1, <1>2, <1>3, <1>4, <1>5, <1>6, <1>7, <1>8, <1>9, <1>10, <1>11, <1>12 DEF Next

\* Every variable has its type, and no sleep or deadline is longer than
\* configured.
THEOREM TypeCorrect == Spec => []TypeOK
BY InitType, NextType, PTL DEF Spec

-----------------------------------------------------------------------------
(***************************************************************************)
(* How long a server can be quiet.  Due is the time until the next call of *)
(* a server is handled, or has failed, at the latest: what is left of this *)
(* call or of this sleep; after a call that was handled, its answer may    *)
(* take what is left of the deadline, then come a sleep and a call.        *)
(***************************************************************************)

Due(a) ==
  IF Calling(a)
  THEN IF loop[a].answered THEN loop[a].left + Interval + Deadline ELSE loop[a].left
  ELSE loop[a].left + Deadline

QuietInv ==
  \A a \in Server :
    Running(a) /\ fails[a] < MaxFails => quiet[a] + Due(a) <= Patience(fails[a])

LEMMA DueType ==
  ASSUME TypeOK, NEW a \in Server
  PROVE  Due(a) \in Nat
BY TimeAssumption DEF TypeOK, Due

\* A server that was handled, or started, just now has room for one call.
LEMMA DueFresh ==
  ASSUME TypeOK, NEW a \in Server
  PROVE  Due(a) <= Patience(0)
BY TimeAssumption, PatienceBase DEF TypeOK, Due

\* A server whose quiet, fails and thread stay as they are.
LEMMA QuietSame ==
  ASSUME QuietInv, NEW a \in Server, loop'[a] = loop[a],
         quiet'[a] = quiet[a], fails'[a] = fails[a],
         Running(a)', fails'[a] < MaxFails
  PROVE  quiet'[a] + Due(a)' <= Patience(fails'[a])
BY DEF QuietInv, Running, Due, Calling

LEMMA InitQuiet == Init => QuietInv
BY DEF Init, QuietInv, Running, Down

LEMMA NextQuiet == TypeOK /\ TypeOK' /\ QuietInv /\ [Next]_vars => QuietInv'
<1> SUFFICES ASSUME TypeOK, TypeOK', QuietInv, [Next]_vars,
                    NEW b \in Server, Running(b)', fails'[b] < MaxFails
             PROVE  quiet'[b] + Due(b)' <= Patience(fails'[b])
  BY DEF QuietInv
<1>a. /\ quiet[b] \in Nat /\ quiet'[b] \in Nat
      /\ fails[b] \in Nat /\ fails'[b] \in Nat
  BY DEF TypeOK
<1>b. Due(b) \in Nat /\ Due(b)' \in Nat
  BY DueType, TimeAssumption DEF TypeOK, Due
<1>c. Due(b)' <= Patience(0)
  BY TimeAssumption, PatienceBase DEF TypeOK, Due
<1>d. Patience(fails[b]) \in Nat /\ Patience(fails'[b]) \in Nat
  BY <1>a, PatienceStep
<1>e. ASSUME NEW a \in Server, a # b, \E new : loop' = [loop EXCEPT ![a] = new],
             quiet'[b] = quiet[b], fails'[b] = fails[b]
      PROVE  quiet'[b] + Due(b)' <= Patience(fails'[b])
  <2>1. loop'[b] = loop[b]
    BY <1>e DEF TypeOK
  <2> QED
    BY <1>e, <2>1, QuietSame
<1>f. ASSUME quiet'[b] = 0, fails'[b] = 0
      PROVE  quiet'[b] + Due(b)' <= Patience(fails'[b])
  BY <1>b, <1>c, <1>f
<1>1. ASSUME NEW a \in Server, Handle(a)
      PROVE  quiet'[b] + Due(b)' <= Patience(fails'[b])
  <2>1. CASE a = b
    BY <1>1, <2>1, <1>f DEF Handle, TypeOK
  <2>2. CASE a # b
    <3>1. loop'[b] = loop[b] /\ quiet'[b] = quiet[b] /\ fails'[b] = fails[b]
      BY <1>1, <2>2 DEF Handle, TypeOK
    <3> QED
      BY <3>1, QuietSame
  <2> QED
    BY <2>1, <2>2
<1>2. ASSUME NEW a \in Server, NEW left \in late[a], HandleLate(a, left)
      PROVE  quiet'[b] + Due(b)' <= Patience(fails'[b])
  BY <1>2, QuietSame DEF HandleLate
<1>3. ASSUME NEW a \in Server, Answer(a)
      PROVE  quiet'[b] + Due(b)' <= Patience(fails'[b])
  <2>1. quiet'[b] = quiet[b] /\ fails'[b] = fails[b]
    BY <1>3 DEF Answer
  <2>2. CASE a # b
    BY <1>3, <1>e, <2>1, <2>2 DEF Answer
  <2>3. CASE a = b
    <3>1. Running(b) /\ Due(b) = loop[b].left + Interval + Deadline
      BY <1>3, <2>3 DEF Answer, Running, Calling, Due
    <3>2. loop'[b] \in {Call("heartbeat"), Sleep("sleep")}
      BY <1>3, <2>3 DEF Answer, TypeOK
    <3>3. Due(b)' <= Interval + Deadline
      <4>1. CASE loop'[b] = Call("heartbeat")
        BY <4>1, TimeAssumption DEF Due, Calling, Call
      <4>2. CASE loop'[b] = Sleep("sleep")
        BY <4>2, TimeAssumption DEF Due, Calling, Sleep
      <4> QED
        BY <3>2, <4>1, <4>2
    <3>4. loop[b].left \in Nat
      BY DEF TypeOK
    <3>5. quiet[b] + Due(b) <= Patience(fails[b])
      BY <2>1, <3>1 DEF QuietInv
    <3>6. Due(b)' <= Due(b)
      BY <1>b, <3>1, <3>3, <3>4, TimeAssumption
    <3> QED
      BY <1>a, <1>b, <1>d, <2>1, <3>5, <3>6
  <2> QED
    BY <2>2, <2>3
<1>4. ASSUME NEW a \in Server, CallFails(a)
      PROVE  quiet'[b] + Due(b)' <= Patience(fails'[b])
  <2>1. quiet'[b] = quiet[b]
    BY <1>4 DEF CallFails
  <2>2. CASE a # b
    <3>1. fails'[b] = fails[b] /\ loop'[b] = loop[b]
      BY <1>4, <2>2 DEF CallFails, TypeOK
    <3> QED
      BY <2>1, <3>1, QuietSame
  <2>3. CASE a = b
    <3>1. loop'[b] = Sleep("backoff")
      BY <1>4, <2>3 DEF CallFails, TypeOK
    <3>2. Due(b)' = Interval + Deadline
      BY <3>1 DEF Due, Calling, Sleep
    <3>3. Running(b) /\ Calling(b) /\ loop[b].left \in Nat
      BY <1>4, <2>3 DEF CallFails, Running, Calling, TypeOK
    <3>4. CASE loop[b].answered
      <4>1. fails'[b] = fails[b]
        BY <1>4, <2>3, <3>4 DEF CallFails, TypeOK
      <4>2. Due(b) = loop[b].left + Interval + Deadline
        BY <3>3, <3>4 DEF Due
      <4>3. quiet[b] + Due(b) <= Patience(fails[b])
        BY <3>3, <4>1 DEF QuietInv
      <4> QED
        BY <1>a, <1>d, <2>1, <3>2, <3>3, <4>1, <4>2, <4>3, TimeAssumption
    <3>5. CASE ~loop[b].answered
      <4>1. fails'[b] = UpTo(MaxFails, fails[b] + 1)
        BY <1>4, <2>3, <3>5 DEF CallFails, TypeOK
      <4>2. fails'[b] = fails[b] + 1
        BY <1>a, <4>1, BoundAssumption DEF UpTo
      <4>3. Due(b) = loop[b].left
        BY <3>3, <3>5 DEF Due
      <4>4. quiet[b] + Due(b) <= Patience(fails[b])
        BY <1>a, <3>3, <4>2, BoundAssumption DEF QuietInv
      <4>5. Patience(fails'[b]) = Patience(fails[b]) + Interval + Deadline
        BY <1>a, <4>2, PatienceStep
      <4> QED
        BY <1>a, <1>d, <2>1, <3>2, <3>3, <4>3, <4>4, <4>5, TimeAssumption
    <3> QED
      BY <3>4, <3>5
  <2> QED
    BY <2>2, <2>3
<1>5. ASSUME NEW a \in Server, Wake(a)
      PROVE  quiet'[b] + Due(b)' <= Patience(fails'[b])
  <2>1. quiet'[b] = quiet[b] /\ fails'[b] = fails[b]
    BY <1>5 DEF Wake
  <2>2. CASE a # b
    BY <1>5, <1>e, <2>1, <2>2 DEF Wake
  <2>3. CASE a = b
    <3>1. Running(b) /\ Due(b) = Deadline
      BY <1>5, <2>3, TimeAssumption DEF Wake, Running, Calling, Due
    <3>2. loop'[b] \in {Call("heartbeat"), Call("register")}
      BY <1>5, <2>3 DEF Wake, TypeOK
    <3>3. Due(b)' = Deadline
      <4>1. CASE loop'[b] = Call("heartbeat")
        BY <4>1 DEF Due, Calling, Call
      <4>2. CASE loop'[b] = Call("register")
        BY <4>2 DEF Due, Calling, Call
      <4> QED
        BY <3>2, <4>1, <4>2
    <3>4. quiet[b] + Due(b) <= Patience(fails[b])
      BY <2>1, <3>1 DEF QuietInv
    <3> QED
      BY <2>1, <3>1, <3>3, <3>4
  <2> QED
    BY <2>2, <2>3
<1>6. ASSUME NEW a \in Server, StartServer(a)
      PROVE  quiet'[b] + Due(b)' <= Patience(fails'[b])
  <2>1. CASE a = b
    BY <1>6, <2>1, <1>f DEF StartServer, TypeOK
  <2>2. CASE a # b
    <3>1. loop'[b] = loop[b] /\ quiet'[b] = quiet[b] /\ fails'[b] = fails[b]
      BY <1>6, <2>2 DEF StartServer, TypeOK
    <3> QED
      BY <3>1, QuietSame
  <2> QED
    BY <2>1, <2>2
<1>7. ASSUME NEW a \in Server, StopServer(a)
      PROVE  quiet'[b] + Due(b)' <= Patience(fails'[b])
  <2>1. loop' = [loop EXCEPT ![a] = Down]
    BY <1>7 DEF StopServer
  <2>2. a # b
    BY <2>1 DEF Running, Down, TypeOK
  <2>3. loop'[b] = loop[b] /\ quiet'[b] = quiet[b] /\ fails'[b] = fails[b]
    BY <1>7, <2>2 DEF StopServer, TypeOK
  <2> QED
    BY <2>3, QuietSame
<1>8. CASE Pick
  BY <1>8, QuietSame DEF Pick
<1>9. CASE NamingStop
  BY <1>9, QuietSame DEF NamingStop
<1>10. CASE NamingStart
  <2>1. Running(b)
    BY <1>10 DEF NamingStart, Running
  <2> QED
    BY <1>10, <1>f, <2>1 DEF NamingStart
<1>11. CASE Tick
  <2>1. Running(b)
    BY <1>11 DEF Tick, Running
  <2>2. /\ loop'[b] = [loop[b] EXCEPT !.left = @ - 1] /\ fails'[b] = fails[b]
        /\ quiet'[b] = UpTo(MaxQuiet, quiet[b] + 1)
    BY <1>11, <2>1 DEF Tick
  <2>3. quiet'[b] <= quiet[b] + 1
    BY <1>a, <2>2, TimeAssumption DEF UpTo
  <2>4. Due(b)' = Due(b) - 1
    <3>1. /\ loop'[b].left = loop[b].left - 1 /\ loop'[b].pc = loop[b].pc
          /\ loop'[b].answered = loop[b].answered /\ loop[b].left \in Nat
      BY <2>2 DEF TypeOK
    <3> QED
      BY <3>1, TimeAssumption DEF Due, Calling
  <2>5. quiet[b] + Due(b) <= Patience(fails[b])
    BY <2>1, <2>2 DEF QuietInv
  <2> QED
    BY <1>a, <1>b, <1>d, <2>2, <2>3, <2>4, <2>5
<1>12. CASE UNCHANGED vars
  BY <1>12, QuietSame DEF vars
<1> QED
  BY <1>1, <1>2, <1>3, <1>4, <1>5, <1>6, <1>7, <1>8, <1>9, <1>10, <1>11, <1>12 DEF Next

LEMMA QuietInvariant == Spec => [](TypeOK /\ QuietInv)
<1>1. Init => TypeOK /\ QuietInv
  BY InitType, InitQuiet
<1>2. TypeOK /\ QuietInv /\ [Next]_vars => (TypeOK /\ QuietInv)'
  BY NextType, NextQuiet
<1> QED
  BY <1>1, <1>2, PTL DEF Spec

\* However the naming server and the storage servers stop and start, and
\* however late a call is handled or answered, a running server is quiet for
\* no longer than the calls it lost since then explain.
THEOREM QuietIsBounded == Spec => []QuietBound
<1>1. TypeOK /\ QuietInv => QuietBound
  <2> SUFFICES ASSUME TypeOK, QuietInv, NEW a \in Server, Running(a), fails[a] < MaxFails
               PROVE  quiet[a] <= Patience(fails[a])
    BY DEF QuietBound
  <2>1. quiet[a] \in Nat /\ fails[a] \in Nat /\ Due(a) \in Nat
    BY DueType DEF TypeOK
  <2>2. Patience(fails[a]) \in Nat
    BY <2>1, PatienceStep
  <2>3. quiet[a] + Due(a) <= Patience(fails[a])
    BY DEF QuietInv
  <2> QED
    BY <2>1, <2>2, <2>3
<1> QED
  BY <1>1, QuietInvariant, PTL

-----------------------------------------------------------------------------
(***************************************************************************)
(* The registry against the histories.                                     *)
(***************************************************************************)

\* The registry heard of these servers no longer ago than the histories say.
AgeInv ==
  /\ ~up => heard = {}
  /\ \A a \in heard : age[a] # Unknown /\ age[a] <= quiet[a]

LEMMA InitAge == Init => AgeInv
BY DEF Init, AgeInv

LEMMA NextAge == TypeOK /\ AgeInv /\ [Next]_vars => AgeInv'
<1>a. ASSUME TypeOK, AgeInv, [Next]_vars PROVE ~up' => heard' = {}
  BY <1>a DEF Next, vars, Handle, HandleLate, Answer, CallFails, Wake, StartServer,
              StopServer, Pick, NamingStop, NamingStart, Tick, AgeInv
<1> SUFFICES ASSUME TypeOK, AgeInv, [Next]_vars, NEW b \in heard'
             PROVE  age'[b] # Unknown /\ age'[b] <= quiet'[b]
  BY <1>a DEF AgeInv
<1> USE TimeAssumption DEF Unknown
<1>1. ASSUME NEW a \in Server, Handle(a) PROVE age'[b] # Unknown /\ age'[b] <= quiet'[b]
  BY <1>1 DEF Handle, MarkAlive, TypeOK, AgeInv
<1>2. ASSUME NEW a \in Server, NEW left \in late[a], HandleLate(a, left)
      PROVE  age'[b] # Unknown /\ age'[b] <= quiet'[b]
  BY <1>2 DEF HandleLate, MarkAlive, TypeOK, AgeInv
<1>3. ASSUME NEW a \in Server, StartServer(a)
      PROVE  age'[b] # Unknown /\ age'[b] <= quiet'[b]
  BY <1>3 DEF StartServer, TypeOK, AgeInv
<1>4. ASSUME NEW a \in Server, StopServer(a)
      PROVE  age'[b] # Unknown /\ age'[b] <= quiet'[b]
  BY <1>4 DEF StopServer, TypeOK, AgeInv
<1>5. CASE NamingStop
  BY <1>5 DEF NamingStop
<1>6. CASE NamingStart
  BY <1>6 DEF NamingStart, AgeInv
<1>7. CASE Tick
  <2>1. b \in heard /\ b \in Server
    BY <1>7 DEF Tick, TypeOK
  <2>2. age[b] # Unknown /\ age[b] <= quiet[b] /\ age[b] \in Nat /\ quiet[b] \in Nat
    BY <2>1 DEF TypeOK, AgeInv
  <2>3. age'[b] = UpTo(Timeout + 1, age[b] + 1) /\ quiet'[b] = UpTo(MaxQuiet, quiet[b] + 1)
    BY <1>7, <2>1, <2>2 DEF Tick
  <2> QED
    BY <2>2, <2>3 DEF UpTo
<1>8. CASE UNCHANGED <<age, quiet, heard>>
  BY <1>8 DEF AgeInv
<1>9. \A a \in Server : Answer(a) \/ CallFails(a) \/ Wake(a) => UNCHANGED <<age, quiet, heard>>
  BY DEF Answer, CallFails, Wake
<1>10. Pick \/ UNCHANGED vars => UNCHANGED <<age, quiet, heard>>
  BY DEF Pick, vars
<1> QED
  BY <1>1, <1>2, <1>3, <1>4, <1>5, <1>6, <1>7, <1>8, <1>9, <1>10 DEF Next

LEMMA AgeInvariant == Spec => []AgeInv
<1>1. TypeOK /\ AgeInv /\ [Next]_vars => AgeInv'
  BY NextAge
<1> QED
  BY InitAge, <1>1, TypeCorrect, PTL DEF Spec

\* A server the naming server has heard of stays alive in spite of the lost
\* calls that the timeout has room for.
THEOREM StaysAlive == Spec => []SteadyAlive
<1>1. TypeOK /\ AgeInv /\ QuietBound => SteadyAlive
  <2> SUFFICES ASSUME TypeOK, AgeInv, QuietBound, NEW a \in heard,
                      fails[a] < MaxFails, Patience(fails[a]) <= Timeout
               PROVE  a \in Live
    BY DEF SteadyAlive
  <2>1. a \in Server /\ Running(a)
    BY DEF TypeOK
  <2>2. quiet[a] <= Patience(fails[a])
    BY <2>1 DEF QuietBound
  <2>3. age[a] # Unknown /\ age[a] <= quiet[a]
    BY DEF AgeInv
  <2>4. age[a] \in Nat /\ quiet[a] \in Nat /\ Patience(fails[a]) \in Nat
    BY <2>1, <2>3, PatienceStep DEF TypeOK
  <2> QED
    BY <2>1, <2>2, <2>3, <2>4, TimeAssumption DEF Live
<1> QED
  BY <1>1, AgeInvariant, QuietIsBounded, TypeCorrect, PTL

-----------------------------------------------------------------------------
(***************************************************************************)
(* Stopped servers: what is still on the way was sent before the stop, so  *)
(* that the registry heard of the server at most a deadline after it.      *)
(***************************************************************************)

LateInv ==
  \A a \in Server :
    ~Running(a) =>
      /\ \A left \in late[a] : quiet[a] + left <= Deadline
      /\ age[a] \notin {Unknown, Timeout + 1} => quiet[a] <= age[a] + Deadline

LEMMA InitLate == Init => LateInv
BY DEF Init, LateInv

LEMMA NextLate == TypeOK /\ TypeOK' /\ LateInv /\ [Next]_vars => LateInv'
<1> SUFFICES ASSUME TypeOK, TypeOK', LateInv, [Next]_vars, NEW b \in Server, ~Running(b)'
             PROVE  /\ \A left \in late'[b] : quiet'[b] + left <= Deadline
                    /\ age'[b] \notin {Unknown, Timeout + 1}
                         => quiet'[b] <= age'[b] + Deadline
  BY DEF LateInv
<1> DEFINE Goal ==
      /\ \A left \in late'[b] : quiet'[b] + left <= Deadline
      /\ age'[b] \notin {Unknown, Timeout + 1} => quiet'[b] <= age'[b] + Deadline
<1> USE TimeAssumption DEF Unknown
<1>a. ASSUME ~Running(b), late'[b] = late[b], age'[b] = age[b], quiet'[b] = quiet[b]
      PROVE  Goal
  BY <1>a DEF LateInv
<1>1. ASSUME NEW a \in Server, Handle(a) PROVE Goal
  <2>1. ~Running(b) /\ a # b
    BY <1>1 DEF Handle, Running, Calling, TypeOK
  <2> QED
    BY <1>1, <2>1, <1>a DEF Handle, MarkAlive, TypeOK
<1>2. ASSUME NEW a \in Server, NEW left \in late[a], HandleLate(a, left) PROVE Goal
  <2>1. ~Running(b)
    BY <1>2 DEF HandleLate, Running
  <2>2. CASE a # b
    BY <1>2, <2>1, <2>2, <1>a DEF HandleLate, MarkAlive, TypeOK
  <2>3. CASE a = b
    <3>1. age'[b] = 0 /\ quiet'[b] = quiet[b] /\ late'[b] \subseteq late[b]
      BY <1>2, <2>3 DEF HandleLate, MarkAlive, TypeOK
    <3>2. quiet[b] + left <= Deadline /\ left \in Nat /\ quiet[b] \in Nat
      BY <2>1, <2>3 DEF LateInv, TypeOK
    <3>3. quiet'[b] <= age'[b] + Deadline
      BY <3>1, <3>2
    <3>4. \A l \in late'[b] : quiet'[b] + l <= Deadline
      BY <2>1, <3>1 DEF LateInv
    <3> QED
      BY <3>3, <3>4
  <2> QED
    BY <2>2, <2>3
<1>3. ASSUME NEW a \in Server, Answer(a) \/ CallFails(a) \/ Wake(a) \/ StartServer(a)
      PROVE  Goal
  <2>1. PICK new \in {Call("heartbeat"), Call("register"), Sleep("sleep"), Sleep("backoff")} :
          loop' = [loop EXCEPT ![a] = new]
    BY <1>3 DEF Answer, CallFails, Wake, StartServer
  <2>2. new.pc # "down"
    BY <2>1 DEF Call, Sleep
  <2>3. a # b /\ ~Running(b)
    BY <2>1, <2>2 DEF Running, TypeOK
  <2>4. late'[b] = late[b] /\ age'[b] = age[b] /\ quiet'[b] = quiet[b]
    BY <1>3, <2>3 DEF Answer, CallFails, Wake, StartServer, TypeOK
  <2> QED
    BY <2>3, <2>4, <1>a
<1>4. ASSUME NEW a \in Server, StopServer(a) PROVE Goal
  <2>1. CASE a # b
    <3>1. ~Running(b) /\ late'[b] = late[b] /\ age'[b] = age[b] /\ quiet'[b] = quiet[b]
      BY <1>4, <2>1 DEF StopServer, Running, TypeOK
    <3> QED
      BY <3>1, <1>a
  <2>2. CASE a = b
    <3>1. quiet'[b] = 0
      BY <1>4, <2>2 DEF StopServer, TypeOK
    <3>2. late'[b] \subseteq 0..Deadline
      BY DEF TypeOK
    <3>3. age'[b] # Unknown => age'[b] \in Nat
      BY DEF TypeOK
    <3> QED
      BY <3>1, <3>2, <3>3
  <2> QED
    BY <2>1, <2>2
<1>5. CASE Pick
  BY <1>5, <1>a DEF Pick, Running
<1>6. CASE NamingStop
  BY <1>6 DEF NamingStop
<1>7. CASE NamingStart
  BY <1>7, <1>a DEF NamingStart, Running
<1>8. CASE Tick
  <2>1. ~Running(b)
    <3>1. Running(b) => loop'[b].pc = loop[b].pc
      BY <1>8 DEF Tick, TypeOK
    <3> QED
      BY <3>1 DEF Running
  <2>2. quiet[b] \in Nat /\ quiet'[b] \in Nat /\ quiet'[b] <= quiet[b] + 1
    BY <1>8 DEF Tick, TypeOK, UpTo
  <2>3. ASSUME NEW l \in late'[b] PROVE quiet'[b] + l <= Deadline
    <3>1. PICK left \in late[b] : l = left - 1
      BY <1>8, <2>3 DEF Tick, Remaining
    <3>2. quiet[b] + left <= Deadline /\ left \in Nat
      BY <2>1, <3>1 DEF LateInv, TypeOK
    <3> QED
      BY <2>2, <3>1, <3>2
  <2>4. ASSUME age'[b] \notin {Unknown, Timeout + 1}
        PROVE  quiet'[b] <= age'[b] + Deadline
    <3>1. age[b] # Unknown /\ age'[b] = UpTo(Timeout + 1, age[b] + 1)
      BY <1>8, <2>4 DEF Tick
    <3>2. age[b] \in Nat /\ age[b] # Timeout + 1 /\ age'[b] = age[b] + 1
      BY <2>4, <3>1 DEF TypeOK, UpTo
    <3>3. quiet[b] <= age[b] + Deadline
      BY <2>1, <3>1, <3>2 DEF LateInv
    <3> QED
      BY <2>2, <3>2, <3>3
  <2> QED
    BY <2>3, <2>4
<1>9. CASE UNCHANGED vars
  BY <1>9, <1>a DEF vars, Running
<1> QED
  BY <1>1, <1>2, <1>3, <1>4, <1>5, <1>6, <1>7, <1>8, <1>9 DEF Next

LEMMA LateInvariant == Spec => [](TypeOK /\ LateInv)
<1>1. Init => TypeOK /\ LateInv
  BY InitType, InitLate
<1>2. TypeOK /\ LateInv /\ [Next]_vars => (TypeOK /\ LateInv)'
  BY NextType, NextLate
<1> QED
  BY <1>1, <1>2, PTL DEF Spec

\* A stopped server does not look alive for longer than the timeout and the
\* deadline of its last call.
THEOREM StopsAreNoticed == Spec => []StoppedNoticed
<1>1. TypeOK /\ LateInv => StoppedNoticed
  <2> SUFFICES ASSUME TypeOK, LateInv, NEW a \in Server, ~Running(a),
                      quiet[a] > Timeout + Deadline, a \in Live
               PROVE  FALSE
    BY DEF StoppedNoticed
  <2>1. age[a] # Unknown /\ age[a] <= Timeout
    BY DEF Live
  <2>2. age[a] \in Nat /\ quiet[a] \in Nat
    BY <2>1 DEF TypeOK
  <2>3. quiet[a] <= age[a] + Deadline
    BY <2>1, <2>2, TimeAssumption DEF LateInv
  <2> QED
    BY <2>1, <2>2, <2>3, TimeAssumption
<1> QED
  BY <1>1, LateInvariant, PTL

-----------------------------------------------------------------------------
(***************************************************************************)
(* Placements.  Rank is one to one from the live servers to 0 .. n - 1, so *)
(* is its rotation by the cursor, for a fixed cursor over the servers and  *)
(* for a fixed server over n cursors in a row; what such a function maps   *)
(* below a bound has as many members as the bound says.                    *)
(***************************************************************************)

LEMMA Remainder ==
  ASSUME NEW n \in Nat \ {0}, NEW x \in Int
  PROVE  x % n \in 0..(n - 1)
OBVIOUS

LEMMA DistinctRemainders ==
  ASSUME NEW n \in Nat \ {0}, NEW x \in Int, NEW y \in Int,
         x - y < n, y - x < n, x % n = y % n
  PROVE  x = y
<1> DEFINE p == x \div n
           q == y \div n
<1>1. x = n * p + (x % n) /\ y = n * q + (y % n) /\ p \in Int /\ q \in Int
  OBVIOUS
<1>2. x % n \in Int
  OBVIOUS
<1> HIDE DEF p, q
<1>3. x - y = n * p - n * q
  BY <1>1, <1>2
<1>4. ASSUME NEW k \in Int, NEW l \in Int, k > l PROVE n * k - n * l >= n
  <2>1. n * k - n * l = n * (k - l) /\ k - l >= 1
    BY <1>4
  <2>2. n * (k - l) >= n
    BY <1>4, <2>1
  <2> QED
    BY <2>1, <2>2
<1>5. ~(p > q) /\ ~(q > p)
  <2>1. n * p \in Int /\ n * q \in Int
    BY <1>1
  <2>2. p > q => n * p - n * q >= n
    BY <1>1, <1>4
  <2>3. q > p => n * q - n * p >= n
    BY <1>1, <1>4
  <2> QED
    BY <1>3, <2>1, <2>2, <2>3
<1>6. p = q
  BY <1>1, <1>5
<1> QED
  BY <1>1, <1>6

\* What a one-to-one function into 0..(n - 1) maps below a bound.
LEMMA CountBelow ==
  ASSUME NEW S, NEW n \in Nat, IsFiniteSet(S), Cardinality(S) = n,
         NEW f \in Injection(S, 0..(n - 1)), NEW count \in 0..n
  PROVE  Cardinality({s \in S : f[s] < count}) = count
<1> DEFINE T == {s \in S : f[s] < count}
           g == [s \in T |-> f[s]]
<1>1. IsFiniteSet(0..(n - 1)) /\ Cardinality(0..(n - 1)) = n
  BY FS_Interval
<1>2. f \in Surjection(S, 0..(n - 1))
  BY <1>1, FS_Injection
<1>3. g \in Bijection(T, 0..(count - 1))
  <2>1. g \in [T -> 0..(count - 1)]
    BY DEF Injection
  <2>2. \A a, b \in T : g[a] = g[b] => a = b
    BY DEF Injection, IsInjective
  <2>3. \A i \in 0..(count - 1) : \E s \in T : g[s] = i
    BY <1>2 DEF Surjection
  <2> QED
    BY <2>1, <2>2, <2>3 DEF Bijection, Injection, Surjection, IsInjective
<1>4. IsFiniteSet(T)
  BY FS_Subset
<1>5. Cardinality(0..(count - 1)) = count
  BY FS_Interval
<1> QED
  BY <1>3, <1>4, <1>5, FS_Bijection DEF ExistsBijection

\* The rank of a server among the live ones: 0, 1, ... in their order.
LEMMA RankType ==
  /\ IsFiniteSet(Live) /\ Cardinality(Live) \in Nat
  /\ \A a \in Live : Rank(a) \in 0..(Cardinality(Live) - 1)
<1>1. IsFiniteSet(Live) /\ Cardinality(Live) \in Nat
  BY ServerAssumption, FS_Subset, FS_CardinalityType DEF Live
<1>2. ASSUME NEW a \in Live PROVE Rank(a) \in 0..(Cardinality(Live) - 1)
  <2> DEFINE Below == {b \in Live : b < a}
  <2>1. Below \subseteq Live \ {a}
    BY ServerAssumption DEF Live
  <2>2. IsFiniteSet(Live \ {a}) /\ Cardinality(Live \ {a}) = Cardinality(Live) - 1
    BY <1>1, FS_RemoveElement
  <2>3. IsFiniteSet(Below) /\ Cardinality(Below) <= Cardinality(Live) - 1
    BY <2>1, <2>2, FS_Subset
  <2>4. Cardinality(Below) \in Nat
    BY <2>3, FS_CardinalityType
  <2> QED
    BY <1>1, <2>3, <2>4 DEF Rank
<1> QED
  BY <1>1, <1>2

LEMMA RankIsOrder ==
  ASSUME NEW a \in Live, NEW b \in Live, a < b
  PROVE  Rank(a) < Rank(b)
<1> DEFINE Below(c) == {d \in Live : d < c}
<1>1. Live \subseteq Int
  BY ServerAssumption DEF Live
<1>2. IsFiniteSet(Below(b)) /\ IsFiniteSet(Below(a) \cup {a})
  BY RankType, FS_Subset, FS_AddElement
<1>3. Below(a) \cup {a} \subseteq Below(b) /\ a \notin Below(a)
  <2>1. a \in Int /\ b \in Int
    BY <1>1
  <2>2. ~(a < a)
    BY <2>1
  <2>3. ASSUME NEW d \in Live, d < a PROVE d < b
    BY <1>1, <2>1, <2>3
  <2> QED
    BY <2>2, <2>3, Zenon
<1>4. IsFiniteSet(Below(a)) /\ Cardinality(Below(a)) \in Nat
  BY RankType, FS_Subset, FS_CardinalityType
<1>5. Cardinality(Below(a) \cup {a}) = Cardinality(Below(a)) + 1
  BY <1>3, <1>4, FS_AddElement
<1>6. Cardinality(Below(a) \cup {a}) <= Cardinality(Below(b)) /\ Cardinality(Below(b)) \in Nat
  BY <1>2, <1>3, FS_Subset, FS_CardinalityType
<1> QED
  BY <1>4, <1>5, <1>6 DEF Rank

LEMMA RankIsOneToOne ==
  ASSUME NEW a \in Live, NEW b \in Live, Rank(a) = Rank(b)
  PROVE  a = b
<1>1. a \in Int /\ b \in Int
  BY ServerAssumption DEF Live
<1>2. Rank(a) \in Int
  BY RankType
<1> QED
  BY <1>1, <1>2, RankIsOrder

\* A placement picks as many distinct servers as it asks for.
LEMMA PickedCount ==
  ASSUME NEW cursor \in Nat, NEW count \in 1..Cardinality(Live)
  PROVE  Cardinality(Picked(cursor, count)) = count
<1> DEFINE n == Cardinality(Live)
           place == [a \in Live |-> (Rank(a) - cursor) % n]
<1>1. n \in Nat \ {0}
  BY RankType
<1>2. \A a \in Live : Rank(a) \in 0..(n - 1)
  BY RankType
<1>3. place \in [Live -> 0..(n - 1)]
  <2> SUFFICES ASSUME NEW a \in Live PROVE (Rank(a) - cursor) % n \in 0..(n - 1)
    OBVIOUS
  <2>1. Rank(a) - cursor \in Int
    BY <1>2
  <2> HIDE DEF n
  <2> QED
    BY <1>1, <2>1, Remainder
<1>4. ASSUME NEW a \in Live, NEW b \in Live, place[a] = place[b] PROVE a = b
  <2>1. Rank(a) \in 0..(n - 1) /\ Rank(b) \in 0..(n - 1)
    BY <1>2
  <2>2. (Rank(a) - cursor) % n = (Rank(b) - cursor) % n
    BY <1>4
  <2>3. Rank(a) - cursor = Rank(b) - cursor
    <3> DEFINE x == Rank(a) - cursor
               y == Rank(b) - cursor
    <3>1. x \in Int /\ y \in Int /\ x - y < n /\ y - x < n /\ x % n = y % n
      BY <1>1, <2>1, <2>2
    <3> HIDE DEF x, y, n
    <3>2. x = y
      BY <1>1, <3>1, DistinctRemainders
    <3> QED
      BY <3>2 DEF x, y
  <2>4. Rank(a) = Rank(b)
    BY <2>1, <2>3
  <2> QED
    BY <2>4, RankIsOneToOne
<1>5. place \in Injection(Live, 0..(n - 1))
  BY <1>3, <1>4 DEF Injection, IsInjective
<1>6. Cardinality({a \in Live : place[a] < count}) = count
  <2>1. count \in 0..n
    OBVIOUS
  <2> HIDE DEF place
  <2> QED
    BY <1>1, <1>5, <2>1, RankType, CountBelow
<1>7. Picked(cursor, count) = {a \in Live : place[a] < count}
  BY DEF Picked
<1> QED
  BY <1>6, <1>7

\* In as many placements as there are servers, each is picked equally often.
LEMMA PickedShare ==
  ASSUME NEW cursor \in Nat, NEW count \in 1..Cardinality(Live), NEW a \in Live
  PROVE  Cardinality({i \in 0..(Cardinality(Live) - 1) : a \in Picked(cursor + i, count)})
           = count
<1> DEFINE n == Cardinality(Live)
           turn == [i \in 0..(n - 1) |-> (Rank(a) - (cursor + i)) % n]
<1>1. n \in Nat \ {0} /\ Rank(a) \in Int
  BY RankType
<1>2. turn \in [0..(n - 1) -> 0..(n - 1)]
  <2> SUFFICES ASSUME NEW i \in 0..(n - 1)
               PROVE  (Rank(a) - (cursor + i)) % n \in 0..(n - 1)
    OBVIOUS
  <2>1. Rank(a) - (cursor + i) \in Int
    BY <1>1
  <2> HIDE DEF n
  <2> QED
    BY <1>1, <2>1, Remainder
<1>3. ASSUME NEW i \in 0..(n - 1), NEW j \in 0..(n - 1), turn[i] = turn[j] PROVE i = j
  <2> DEFINE x == Rank(a) - (cursor + i)
             y == Rank(a) - (cursor + j)
  <2>1. i \in Nat /\ j \in Nat /\ i < n /\ j < n
    BY <1>1
  <2>2. x % n = y % n
    BY <1>3
  <2>3. x \in Int /\ y \in Int /\ x - y = j - i
    BY <1>1, <2>1
  <2>4. x - y < n /\ y - x < n
    BY <1>1, <2>1, <2>3
  <2>5. x = y
    <3> HIDE DEF x, y, n
    <3> QED
      BY <1>1, <2>2, <2>3, <2>4, DistinctRemainders
  <2> QED
    BY <1>1, <2>1, <2>3, <2>5
<1>4. turn \in Injection(0..(n - 1), 0..(n - 1))
  BY <1>2, <1>3 DEF Injection, IsInjective
<1>5. IsFiniteSet(0..(n - 1)) /\ Cardinality(0..(n - 1)) = n
  <2> HIDE DEF n
  <2> QED
    BY <1>1, FS_Interval
<1>6. Cardinality({i \in 0..(n - 1) : turn[i] < count}) = count
  <2> DEFINE I == 0..(n - 1)
  <2>1. count \in 0..n /\ n \in Nat
    BY <1>1
  <2>2. turn \in Injection(I, 0..(n - 1)) /\ IsFiniteSet(I) /\ Cardinality(I) = n
    BY <1>4, <1>5
  <2> HIDE DEF turn, I, n
  <2>3. Cardinality({i \in I : turn[i] < count}) = count
    BY <2>1, <2>2, CountBelow
  <2> QED
    BY <2>3 DEF I
<1>7. {i \in 0..(n - 1) : a \in Picked(cursor + i, count)} = {i \in 0..(n - 1) : turn[i] < count}
  BY DEF Picked
<1> QED
  BY <1>6, <1>7

\* Wherever the cursor is, a placement picks distinct live servers, and as many
\* placements in a row as there are live servers use each of them equally often.
THEOREM PicksAreBalanced == Spec => []RoundRobin
<1>1. rr \in Nat => RoundRobin
  BY PickedCount, PickedShare DEF RoundRobin
<1>2. TypeOK => rr \in Nat
  BY BoundAssumption DEF TypeOK
<1> QED
  BY <1>1, <1>2, TypeCorrect, PTL

=============================================================================
