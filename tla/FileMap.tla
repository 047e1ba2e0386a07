------------------------------- MODULE FileMap -------------------------------
(***************************************************************************)
(* What the file service promises for names that are used again and again: *)
(* a map from names to contents.  Writing a name replaces all it held, in  *)
(* one step and whatever its status was, and hides it until somebody       *)
(* publishes it: CommitFile names the file, so the one who publishes need  *)
(* not be the one who wrote.  Publishing changes nothing of what was       *)
(* written.  A read asks for a published file and later looks at what the  *)
(* name holds at that moment: all of one content, the one it asked for, a  *)
(* later one, or nothing.  FileOps implements this specification for every *)
(* value of its constants (FileOps.ImplementsFileMap); FileStore promises  *)
(* more, for names that are used once.                                     *)
(***************************************************************************)
CONSTANTS
  Filename,   \* the names of files
  Client,     \* the readers
  Contents    \* what a file can hold

VARIABLES
  status,     \* [Filename -> "none", "pending", "committed"]
  content,    \* [Filename -> what the name holds, {} if nothing]
  view        \* [Client -> the read the client is running]

filevars == <<status, content>>
vars == <<status, content, view>>

NoView == [at |-> "none", file |-> "none", data |-> {}]
Asked(f) == [at |-> "asked", file |-> f, data |-> {}]
Holds(f, d) == [at |-> "holds", file |-> f, data |-> d]

Init ==
  /\ status = [f \in Filename |-> "none"]
  /\ content = [f \in Filename |-> {}]
  /\ view = [c \in Client |-> NoView]

Write(f, d) ==
  /\ status' = [status EXCEPT ![f] = "pending"]
  /\ content' = [content EXCEPT ![f] = d]
  /\ UNCHANGED view

Publish(f) ==
  /\ status[f] = "pending"
  /\ status' = [status EXCEPT ![f] = "committed"]
  /\ UNCHANGED <<content, view>>

Drop(f) ==
  /\ status[f] # "none"
  /\ status' = [status EXCEPT ![f] = "none"]
  /\ content' = [content EXCEPT ![f] = {}]
  /\ UNCHANGED view

Ask(c, f) ==
  /\ view[c].at = "none" /\ status[f] = "committed"
  /\ view' = [view EXCEPT ![c] = Asked(f)]
  /\ UNCHANGED filevars

Look(c) ==
  /\ view[c].at = "asked"
  /\ view' = [view EXCEPT ![c] = Holds(view[c].file, content[view[c].file])]
  /\ UNCHANGED filevars

Finish(c) ==
  /\ view[c].at = "holds"
  /\ view' = [view EXCEPT ![c] = NoView]
  /\ UNCHANGED filevars

\* The service restarts: what was asked is lost, what was written stays.
Restart ==
  /\ view' = [c \in Client |->
                IF view[c].at = "asked" THEN NoView ELSE view[c]]
  /\ UNCHANGED filevars

Next ==
  \/ \E f \in Filename : Publish(f) \/ Drop(f)
  \/ \E f \in Filename, d \in Contents : Write(f, d)
  \/ \E c \in Client, f \in Filename : Ask(c, f)
  \/ \E c \in Client : Look(c) \/ Finish(c)
  \/ Restart

Spec == Init /\ [][Next]_vars

=============================================================================
