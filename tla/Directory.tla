----------------------------- MODULE Directory -----------------------------
(***************************************************************************)
(* What the directory of the TecnicoFS server promises its threads         *)
(* (lookup, create and delete of server/fs.c): a map from names to         *)
(* inumbers that is read and changed in one step.  create looks the name   *)
(* up and binds it in two steps, between which others may change it.       *)
(* Module TecnicoFS is built from these steps; SearchTree implements them. *)
(***************************************************************************)
EXTENDS Integers

CONSTANTS
  Threads,
  Names,     \* file names, as the naturals strcmp orders them like
  Inumbers

\* No node of the tree has this name.
NoNode == -2

\* create binds the name to the inumber that inode_create gives, -1 if it has
\* no i-node left.
Call == [op : {"lookup", "delete"}, name : Names, inumber : {-1}]
        \cup [op : {"create"}, name : Names, inumber : Inumbers \cup {-1}]

VARIABLES
  dir,     \* name -> inumber
  status,  \* thread -> "idle", "called", "absent" (inside create), "done"
  call,    \* thread -> the call it makes
  reply    \* thread -> the result of the last one

vars == <<dir, status, call, reply>>

Init ==
  /\ dir = [n \in Names |-> NoNode]
  /\ status = [t \in Threads |-> "idle"]
  /\ call \in [Threads -> Call]
  /\ reply = [t \in Threads |-> 0]

Goto(t, from, to) == status[t] = from /\ status' = [status EXCEPT ![t] = to]

Reply(t, value) == reply' = [reply EXCEPT ![t] = value]

Begin(t) ==
  /\ Goto(t, "idle", "called")
  /\ \E c \in Call : call' = [call EXCEPT ![t] = c]
  /\ UNCHANGED <<dir, reply>>

Found(t) == IF dir[call[t].name] = NoNode THEN -1 ELSE dir[call[t].name]

Lookup(t) ==
  /\ call[t].op = "lookup"
  /\ Goto(t, "called", "done")
  /\ Reply(t, Found(t))
  /\ UNCHANGED <<dir, call>>

CreateLookup(t) ==
  /\ call[t].op = "create"
  /\ IF Found(t) = -1 THEN Goto(t, "called", "absent") /\ UNCHANGED reply
                      ELSE Goto(t, "called", "done") /\ Reply(t, -1)
  /\ UNCHANGED <<dir, call>>

CreateInsert(t) ==
  /\ Goto(t, "absent", "done")
  /\ dir' = [dir EXCEPT ![call[t].name] = call[t].inumber]
  /\ Reply(t, 0)
  /\ UNCHANGED call

Delete(t) ==
  /\ call[t].op = "delete"
  /\ Goto(t, "called", "done")
  /\ dir' = [dir EXCEPT ![call[t].name] = NoNode]
  /\ Reply(t, 0)
  /\ UNCHANGED call

End(t) == Goto(t, "done", "idle") /\ UNCHANGED <<dir, call, reply>>

\* The end of the server, when no thread is left.
Free ==
  /\ \A t \in Threads : status[t] = "idle"
  /\ dir' = [n \in Names |-> NoNode]
  /\ UNCHANGED <<status, call, reply>>

Next ==
  \/ Free
  \/ \E t \in Threads :
       \/ Begin(t) \/ End(t)
       \/ Lookup(t) \/ CreateLookup(t) \/ CreateInsert(t) \/ Delete(t)

Spec == Init /\ [][Next]_vars
=============================================================================
