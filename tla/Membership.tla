------------------------------ MODULE Membership ------------------------------
(***************************************************************************)
(* Who is alive: the registry of the naming server, which keeps the time   *)
(* of the last heartbeat of every storage server, and the thread of each   *)
(* storage server that registers and then sends heartbeats, with the       *)
(* clocks: the pause between heartbeats, the deadline of a call, the       *)
(* pause after a failed call and the age at which a server is dead.        *)
(*                                                                         *)
(* Tick lets one unit of time pass, for everybody; it waits for a thread   *)
(* whose sleep or deadline is over.  A call can be handled at any time up  *)
(* to its deadline, and fail at any time, whether it was handled or not.   *)
(***************************************************************************)
EXTENDS Integers, FiniteSets

CONSTANTS
  Server,      \* the addresses, as numbers in the order of live.sort()
  Interval,    \* HEARTBEAT_INTERVAL
  Deadline,    \* the timeout of RegisterStorage and of Heartbeat
  Timeout,     \* HEARTBEAT_TIMEOUT
  MaxQuiet,    \* bound: no history counts more time than this
  MaxFails,    \* bound: nor more failed calls
  MaxPicks,    \* bound: how many placements a run of the naming server makes
  MaxStops,    \* bound: how many times storage servers stop
  MaxCrashes   \* bound: how many times the naming server stops

ASSUME ServerAssumption == Server \subseteq Int /\ IsFiniteSet(Server)
ASSUME TimeAssumption ==
  /\ Interval \in Nat \ {0} /\ Deadline \in Nat /\ Timeout \in Nat
  /\ MaxQuiet \in Nat /\ MaxQuiet > Timeout + Deadline
ASSUME BoundAssumption ==
  MaxFails \in Nat /\ MaxPicks \in Nat /\ MaxStops \in Nat /\ MaxCrashes \in Nat

VARIABLES
  up,      \* the naming server runs
  age,     \* [Server -> time since _last_seen, or Unknown]
  rr,      \* _rr, the cursor of the placements
  loop,    \* [Server -> its heartbeat thread]
  late,    \* [Server -> deadlines of its calls on the way that it gave up]
  quiet,   \* history: [Server -> time since a call of it was handled, or it
           \* started, or the naming server did; of a stopped one, since then]
  fails,   \* history: [Server -> calls never handled, since the same moment]
  heard,   \* history: the servers whose calls were handled since they and
           \* the naming server started
  stops, crashes

vars == <<up, age, rr, loop, late, quiet, fails, heard, stops, crashes>>

Unknown == -1
UpTo(bound, n) == IF n > bound THEN bound ELSE n

Down == [pc |-> "down", left |-> 0, answered |-> FALSE]
Call(rpc) == [pc |-> rpc, left |-> Deadline, answered |-> FALSE]
Sleep(pc) == [pc |-> pc, left |-> Interval, answered |-> FALSE]

Running(a) == loop[a].pc # "down"
Calling(a) == loop[a].pc \in {"register", "heartbeat"}

Init ==
  /\ up = TRUE
  /\ age = [a \in Server |-> Unknown]
  /\ rr = 0
  /\ loop = [a \in Server |-> Down]
  /\ late = [a \in Server |-> {}]
  /\ quiet = [a \in Server |-> 0]
  /\ fails = [a \in Server |-> 0]
  /\ heard = {}
  /\ stops = 0 /\ crashes = 0

-----------------------------------------------------------------------------
(***************************************************************************)
(* The registry.                                                           *)
(***************************************************************************)

Mut_Live == {a \in Server : age[a] # Unknown}
Live == {a \in Server : age[a] # Unknown /\ age[a] <= Timeout}

Mut_MarkAlive(a) == age' = [age EXCEPT ![a] = IF @ = Unknown THEN 0 ELSE @]
MarkAlive(a) == age' = [age EXCEPT ![a] = 0]

\* pick: the live servers in order from the cursor on, around the end.
Rank(a) == Cardinality({b \in Live : b < a})
Mut_Picked(cursor, count) ==
  {a \in Live : Rank(a) - (cursor % Cardinality(Live)) \in 0..(count - 1)}
Picked(cursor, count) ==
  {a \in Live : (Rank(a) - cursor) % Cardinality(Live) < count}

\* CreateFile for each chunk and heal_once for each pass: with nobody alive
\* the cursor stays.
Pick ==
  /\ up /\ Live # {} /\ rr < MaxPicks
  /\ rr' = rr + 1
  /\ UNCHANGED <<up, age, loop, late, quiet, fails, heard, stops, crashes>>

\* RegisterStorage or Heartbeat, whose caller waits for the answer.
Handle(a) ==
  /\ up /\ Calling(a) /\ ~loop[a].answered
  /\ MarkAlive(a)
  /\ loop' = [loop EXCEPT ![a].answered = TRUE]
  /\ quiet' = [quiet EXCEPT ![a] = 0]
  /\ fails' = [fails EXCEPT ![a] = 0]
  /\ heard' = heard \cup {a}
  /\ UNCHANGED <<up, rr, late, stops, crashes>>

\* The same, of a caller that has given up, stopped or started again.
HandleLate(a, left) ==
  /\ up /\ left \in late[a]
  /\ MarkAlive(a)
  /\ late' = [late EXCEPT ![a] = @ \ {left}]
  /\ UNCHANGED <<up, rr, loop, quiet, fails, heard, stops, crashes>>

-----------------------------------------------------------------------------
(***************************************************************************)
(* _heartbeat_loop.                                                        *)
(***************************************************************************)

\* The first Heartbeat follows the registration at once.
Answer(a) ==
  /\ Calling(a) /\ loop[a].answered
  /\ loop' = [loop EXCEPT ![a] = IF @.pc = "register" THEN Call("heartbeat")
                                 ELSE Sleep("sleep")]
  /\ UNCHANGED <<up, age, rr, late, quiet, fails, heard, stops, crashes>>

\* What is on the way when the thread or the server gives up.
GivenUp(a) == IF Calling(a) /\ ~loop[a].answered THEN {loop[a].left} ELSE {}

\* RpcError, at once or at the deadline.
CallFails(a) ==
  /\ Calling(a)
  /\ loop' = [loop EXCEPT ![a] = Sleep("backoff")]
  /\ late' = [late EXCEPT ![a] = @ \cup GivenUp(a)]
  /\ fails' = [fails EXCEPT ![a] = IF loop[a].answered THEN @ ELSE UpTo(MaxFails, @ + 1)]
  /\ UNCHANGED <<up, age, rr, quiet, heard, stops, crashes>>

Mut_Wake(a) ==
  /\ loop[a].pc \in {"sleep", "backoff"} /\ loop[a].left = 0
  /\ loop' = [loop EXCEPT ![a] = IF @.pc = "sleep" THEN Call("heartbeat")
                                 ELSE Sleep("sleep")]
  /\ UNCHANGED <<up, age, rr, late, quiet, fails, heard, stops, crashes>>
Wake(a) ==
  /\ loop[a].pc \in {"sleep", "backoff"} /\ loop[a].left = 0
  /\ loop' = [loop EXCEPT ![a] = IF @.pc = "sleep" THEN Call("heartbeat")
                                 ELSE Call("register")]
  /\ UNCHANGED <<up, age, rr, late, quiet, fails, heard, stops, crashes>>

StartServer(a) ==
  /\ ~Running(a)
  /\ loop' = [loop EXCEPT ![a] = Call("register")]
  /\ quiet' = [quiet EXCEPT ![a] = 0]
  /\ fails' = [fails EXCEPT ![a] = 0]
  /\ UNCHANGED <<up, age, rr, late, heard, stops, crashes>>

StopServer(a) ==
  /\ Running(a) /\ stops < MaxStops
  /\ stops' = stops + 1
  /\ loop' = [loop EXCEPT ![a] = Down]
  /\ late' = [late EXCEPT ![a] = @ \cup GivenUp(a)]
  /\ quiet' = [quiet EXCEPT ![a] = 0]
  /\ heard' = heard \ {a}
  /\ UNCHANGED <<up, age, rr, fails, crashes>>

-----------------------------------------------------------------------------
(***************************************************************************)
(* The registry is in memory only.  A call that is still waiting for its   *)
(* connection may reach the next run of the naming server.                 *)
(***************************************************************************)

NamingStop ==
  /\ up /\ crashes < MaxCrashes
  /\ crashes' = crashes + 1
  /\ up' = FALSE
  /\ age' = [a \in Server |-> Unknown]
  /\ rr' = 0
  /\ late' = [a \in Server |-> {}]
  /\ heard' = {}
  /\ UNCHANGED <<loop, quiet, fails, stops>>

NamingStart ==
  /\ ~up
  /\ up' = TRUE
  /\ quiet' = [a \in Server |-> IF Running(a) THEN 0 ELSE quiet[a]]
  /\ fails' = [a \in Server |-> 0]
  /\ UNCHANGED <<age, rr, loop, late, heard, stops, crashes>>

\* A request whose deadline has passed is not handled any more.
Mut_Remaining(lefts) == {left - 1 : left \in lefts}
Remaining(lefts) == {left - 1 : left \in lefts \ {0}}

Tick ==
  /\ \A a \in Server : Running(a) => loop[a].left > 0
  /\ loop' = [a \in Server |-> IF Running(a) THEN [loop[a] EXCEPT !.left = @ - 1]
                               ELSE loop[a]]
  /\ late' = [a \in Server |-> Remaining(late[a])]
  /\ age' = [a \in Server |-> IF age[a] = Unknown THEN Unknown
                              ELSE UpTo(Timeout + 1, age[a] + 1)]
  /\ quiet' = [a \in Server |-> UpTo(MaxQuiet, quiet[a] + 1)]
  /\ UNCHANGED <<up, rr, fails, heard, stops, crashes>>

Next ==
  \/ \E a \in Server :
       \/ Handle(a)
       \/ \E left \in late[a] : HandleLate(a, left)
       \/ Answer(a)
       \/ CallFails(a)
       \/ Wake(a)
       \/ StartServer(a)
       \/ StopServer(a)
  \/ Pick
  \/ NamingStop
  \/ NamingStart
  \/ Tick

Spec == Init /\ [][Next]_vars

-----------------------------------------------------------------------------
(***************************************************************************)
(* Properties.                                                             *)
(***************************************************************************)

TypeOK ==
  /\ up \in BOOLEAN
  /\ age \in [Server -> 0..(Timeout + 1) \cup {Unknown}]
  /\ rr \in 0..MaxPicks
  /\ loop \in [Server -> [pc : {"down", "register", "heartbeat", "sleep", "backoff"},
                          left : Nat, answered : BOOLEAN]]
  /\ \A a \in Server :
       loop[a].left <= IF Calling(a) THEN Deadline ELSE Interval
  /\ late \in [Server -> SUBSET (0..Deadline)]
  /\ quiet \in [Server -> 0..MaxQuiet]
  /\ fails \in [Server -> 0..MaxFails]
  /\ heard \subseteq {a \in Server : Running(a)}
  /\ stops \in 0..MaxStops /\ crashes \in 0..MaxCrashes

\* How long a server is quiet at most when so many of its calls in a row are
\* never handled: each costs a deadline and a pause.
Patience(n) == (n + 1) * (Interval + Deadline) + Deadline

\* A running server is never quiet for longer than its failed calls explain,
\* whenever it and the naming server stop and start: this bounds both the
\* gap between two heartbeats and the time until a server is back in the
\* registry of a naming server that has lost it (_heartbeat_loop).
QuietBound ==
  \A a \in Server :
    Running(a) /\ fails[a] < MaxFails => quiet[a] <= Patience(fails[a])

\* A server that was heard of stays alive in spite of as many lost calls as
\* the timeout has room for, however late the others are handled and
\* answered: with the configured 5, 5 and 15 seconds this is none at all,
\* and no second to spare.
SteadyAlive ==
  \A a \in heard :
    fails[a] < MaxFails /\ Patience(fails[a]) <= Timeout => a \in Live

\* A stopped server is not taken for alive longer than the timeout after the
\* last moment one of its calls could be handled, not even if a call it gave
\* up, or made just before it stopped, makes it look alive once more.
StoppedNoticed ==
  \A a \in Server : ~Running(a) /\ quiet[a] > Timeout + Deadline => a \notin Live

\* pick is balanced: as long as the same servers are alive, as many
\* placements in a row as there are servers use each of them equally often,
\* wherever the cursor is, and each placement uses distinct servers.
RoundRobin ==
  \A count \in 1..Cardinality(Live) :
    /\ Cardinality(Picked(rr, count)) = count
    /\ \A a \in Live :
         Cardinality({i \in 0..(Cardinality(Live) - 1) : a \in Picked(rr + i, count)})
           = count

=============================================================================
