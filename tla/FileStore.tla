------------------------------ MODULE FileStore ------------------------------
(***************************************************************************)
(* What the file service promises for names that are used once, with no    *)
(* tables, replicas, threads or servers in it.  A file is planned, written,*)
(* published and dropped, each at most once and in this order; publishing  *)
(* it is one step and changes nothing of what was written.  A read asks    *)
(* for a published file and later looks at its content once: it works on   *)
(* all of it, or on nothing when the file was dropped meanwhile.           *)
(* FileOps implements this specification (FileOps.ImplementsFileStore).    *)
(***************************************************************************)
CONSTANTS
  Filename,   \* the names of files
  Client,     \* the readers
  Contents    \* what a file can hold

VARIABLES
  status,     \* [Filename -> "unused", "planned", "pending", "committed", "gone"]
  content,    \* [Filename -> what the file holds, {} if nothing]
  view        \* [Client -> the read the client is running]

filevars == <<status, content>>
vars == <<status, content, view>>

NoView == [at |-> "none", file |-> "none", data |-> {}]
Asked(f) == [at |-> "asked", file |-> f, data |-> {}]
Holds(f, d) == [at |-> "holds", file |-> f, data |-> d]

Init ==
  /\ status = [f \in Filename |-> "unused"]
  /\ content = [f \in Filename |-> {}]
  /\ view = [c \in Client |-> NoView]

Plan(f) ==
  /\ status[f] = "unused"
  /\ status' = [status EXCEPT ![f] = "planned"]
  /\ UNCHANGED <<content, view>>

Write(f, d) ==
  /\ status[f] = "planned"
  /\ status' = [status EXCEPT ![f] = "pending"]
  /\ content' = [content EXCEPT ![f] = d]
  /\ UNCHANGED view

Publish(f) ==
  /\ status[f] = "pending"
  /\ status' = [status EXCEPT ![f] = "committed"]
  /\ UNCHANGED <<content, view>>

\* A rejected create, a delete, or the cleanup of a file never published.
Drop(f) ==
  /\ status[f] \in {"planned", "pending", "committed"}
  /\ status' = [status EXCEPT ![f] = "gone"]
  /\ content' = [content EXCEPT ![f] = {}]
  /\ UNCHANGED view

Ask(c, f) ==
  /\ view[c].at = "none" /\ status[f] = "committed"
  /\ view' = [view EXCEPT ![c] = Asked(f)]
  /\ UNCHANGED filevars

Look(c) ==
  /\ view[c].at = "asked"
  /\ view' = [view EXCEPT ![c] = Holds(view[c].file, content[view[c].file])]
  /\ UNCHANGED filevars

Finish(c) ==
  /\ view[c].at = "holds"
  /\ view' = [view EXCEPT ![c] = NoView]
  /\ UNCHANGED filevars

\* The service restarts: what was planned and asked is lost, what was
\* written or published stays.
Restart ==
  /\ status' = [f \in Filename |->
                  IF status[f] = "planned" THEN "gone" ELSE status[f]]
  /\ view' = [c \in Client |->
                IF view[c].at = "asked" THEN NoView ELSE view[c]]
  /\ UNCHANGED content

Next ==
  \/ \E f \in Filename : Plan(f) \/ Publish(f) \/ Drop(f)
  \/ \E f \in Filename, d \in Contents : Write(f, d)
  \/ \E c \in Client, f \in Filename : Ask(c, f)
  \/ \E c \in Client : Look(c) \/ Finish(c)
  \/ Restart

Spec == Init /\ [][Next]_vars

=============================================================================
