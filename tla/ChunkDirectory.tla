---------------------------- MODULE ChunkDirectory ----------------------------
(***************************************************************************)
(* What a storage server promises about its chunk directory: a set of      *)
(* chunks, where each store, each deletion, each read and each file the    *)
(* startup scrub takes is one step, whatever number of threads work on it, *)
(* and a chunk is there whole or not at all.  This is how FileOps and      *)
(* Healing see a server: their variable disk is held, per server.          *)
(***************************************************************************)
CONSTANTS Thread, ChunkId

VARIABLES
  held,  \* the chunks on disk
  req    \* [Thread -> the request it handles, with its answer once it has one]

None == [op |-> "none", id |-> "none", answer |-> "none"]

Asked(t, op) == req[t].op = op /\ req[t].answer = "none"
Answer(t, a) == req' = [req EXCEPT ![t].answer = a]

Init ==
  /\ held = {}
  /\ req = [t \in Thread |-> None]

Call(t, op, id) ==
  /\ req[t] = None
  /\ req' = [req EXCEPT ![t] = [op |-> op, id |-> id, answer |-> "none"]]
  /\ UNCHANGED held

Put(t) ==
  /\ Asked(t, "put")
  /\ held' = held \cup {req[t].id}
  /\ Answer(t, "stored")

Remove(t) ==
  /\ Asked(t, "remove")
  /\ req[t].id \in held
  /\ held' = held \ {req[t].id}
  /\ Answer(t, "deleted")

Get(t) ==
  /\ Asked(t, "get")
  /\ req[t].id \in held
  /\ Answer(t, "whole")
  /\ UNCHANGED held

\* The answer goes out; or the chunk is not there; or there was no room.
Reply(t) ==
  /\ \/ req[t].answer # "none"
     \/ Asked(t, "get") /\ req[t].id \notin held
     \/ Asked(t, "remove") /\ req[t].id \notin held
     \/ Asked(t, "put")
  /\ req' = [req EXCEPT ![t] = None]
  /\ UNCHANGED held

Restart ==
  /\ req' = [t \in Thread |-> None]
  /\ UNCHANGED held

Scrub(id) ==
  /\ held' = held \ {id}
  /\ UNCHANGED req

Next ==
  \/ \E t \in Thread :
       \/ \E op \in {"put", "remove", "get"}, id \in ChunkId : Call(t, op, id)
       \/ Put(t) \/ Remove(t) \/ Get(t) \/ Reply(t)
  \/ Restart
  \/ \E id \in ChunkId : Scrub(id)

Spec == Init /\ [][Next]_<<held, req>>

=============================================================================
