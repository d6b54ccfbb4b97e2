----------------------------- MODULE SearchTree -----------------------------
(***************************************************************************)
(* The directory of TecnicoFS as it is: a binary search tree of nodes on   *)
(* the heap (server/lib/bst.c) under a read-write lock (server/sync.c),    *)
(* used by the threads through server/fs.c.  An action is one call of the  *)
(* recursive functions search, insert, remove_item and find_min, so that   *)
(* the steps of several threads alternate as the lock lets them.           *)
(* (FileServersProofs extends this module and FileServer, whence the names *)
(* of the specification.)                                                  *)
(***************************************************************************)
EXTENDS Integers, FiniteSets

CONSTANTS
  Threads,
  Names,     \* file names, as the naturals strcmp orders them like
  Inumbers,
  Cells,     \* where a node may be allocated, as naturals
  Bounds     \* which threads may call what in a behaviour, and how often

ASSUME SearchTreeAssumption ==
  /\ Names \subseteq Nat /\ Names # {} /\ IsFiniteSet(Names) /\ Inumbers \subseteq Nat
  /\ Cells \subseteq Nat \ {0} /\ IsFiniteSet(Cells)
  /\ Cardinality(Cells) >= Cardinality(Names)

NULL == 0

Node == [key : Names, inumber : Inumbers \cup {-1}, left : Cells \cup {NULL},
         right : Cells \cup {NULL}]

\* What free leaves in a cell: nothing that may be read.
Freed == [key |-> -1, inumber |-> -1, left |-> -1, right |-> -1]

NoNode == -2

\* create binds the name to the inumber that inode_create gives, -1 if it has
\* no i-node left.
Call == [op : {"lookup", "delete"}, name : Names, inumber : {-1}]
        \cup [op : {"create"}, name : Names, inumber : Inumbers \cup {-1}]

ASSUME BoundsAssumption ==
  \A b \in Bounds : b.threads \subseteq Threads /\ b.offered \subseteq Call /\ b.calls \in Nat

VARIABLES
  heap,     \* cell -> node
  bstRoot,
  bstLock,  \* the threads that hold it for reading, and for writing
  pc,
  call,     \* thread -> its call
  p,        \* thread -> the node search, insert or remove_item is called with
  above,    \* thread -> the node of the call before; NULL: the first one's
  m, low,   \* the same of find_min
  reply,
  calls,    \* calls made
  bounds    \* those of this behaviour

heapVars == <<heap, bstRoot>>
walkVars == <<above, m, low>>
callVars == <<calls, bounds>>
treeVars == <<heapVars, bstLock, pc, call, p, walkVars, reply, callVars>>

Labels == {"idle", "rdlock", "search", "answered", "absent", "wrlock", "insert",
           "remove_item", "find_min", "wrunlock", "joined"}

NoNodes == [t \in Threads |-> NULL]

TreeTypeOK ==
  /\ heap \in [Cells -> Node \cup {Freed}]
  /\ bstRoot \in Cells \cup {NULL}
  /\ bstLock \in [readers : SUBSET Threads, writers : SUBSET Threads]
  /\ pc \in [Threads -> Labels]
  /\ call \in [Threads -> Call]
  /\ {p, above, m, low} \subseteq [Threads -> Cells \cup {NULL}]
  /\ reply \in [Threads -> Inumbers \cup {-1, 0}]
  /\ bounds \in Bounds /\ calls \in 0 .. bounds.calls

TreeInit ==
  /\ heap = [c \in Cells |-> Freed]
  /\ bstRoot = NULL
  /\ bstLock = [readers |-> {}, writers |-> {}]
  /\ pc = [t \in Threads |-> "idle"]
  /\ call = [t \in Threads |-> CHOOSE c \in Call : TRUE]
  /\ p = NoNodes /\ above = NoNodes /\ m = NoNodes /\ low = NoNodes
  /\ reply = [t \in Threads |-> 0]
  /\ calls = 0 /\ bounds \in Bounds

-----------------------------------------------------------------------------
\* bst.c, on a heap h.

Allocated(h) == {c \in Cells : h[c] # Freed}

\* The cell malloc gives: which of the free ones makes no difference.
FreeCell(h) == CHOOSE c \in Cells : c \notin Allocated(h)

\* Mutation: left and right the other way round.
SideReversed(h, q, name) == IF name < h[q].key THEN "right" ELSE "left"

\* strcmp: on which side of node q the name is, if it is not that of q.
Side(h, q, name) == IF name < h[q].key THEN "left" ELSE "right"

new_node(h, name, inumber) ==
  [h EXCEPT ![FreeCell(h)] =
     [key |-> name, inumber |-> inumber, left |-> NULL, right |-> NULL]]

\* remove_min(r), which goes the way find_min went, to m by way of low: the heap
\* and the node it returns.
remove_min(h, r, min, by) ==
  IF min = r THEN [heap |-> h, root |-> h[min].right]
  ELSE [heap |-> [h EXCEPT ![by].left = h[min].right], root |-> r]

\* Mutations: the left side is forgotten; the least node stays where it was.
JoinedByRight(h, q, min, by) ==
  LET rest == remove_min(h, h[q].right, min, by)
  IN [rest.heap EXCEPT ![min].right = rest.root, ![q] = Freed]

JoinedTwice(h, q, min, by) == [h EXCEPT ![min].left = h[q].left, ![q] = Freed]

\* Node q gives way to the least node of its right side, taken out there and put
\* on top of both sides.  (The program frees q first, with its sides copied.)
Joined(h, q, min, by) ==
  LET rest == remove_min(h, h[q].right, min, by)
  IN [rest.heap EXCEPT ![min].right = rest.root, ![min].left = h[q].left,
                       ![q] = Freed]

\* The subtree at q: the nodes in every set that has q and the sides of its nodes.
Closed(h, set) == \A c \in set : {h[c].left, h[c].right} \cap Cells \subseteq set

Under(h, q) ==
  LET sets == {set \in SUBSET Cells : {q} \cap Cells \subseteq set /\ Closed(h, set)}
  IN {c \in Cells : \A set \in sets : c \in set}

-----------------------------------------------------------------------------
\* sync.c, fs.c

Goto(t, from, to) == pc[t] = from /\ pc' = [pc EXCEPT ![t] = to]

sync_rdlock(t) ==
  /\ bstLock.writers = {}
  /\ bstLock' = [bstLock EXCEPT !.readers = @ \cup {t}]

\* Mutation: the lock is taken by several at once.
wrlockShared(t) ==
  bstLock' = [bstLock EXCEPT !.writers = @ \cup {t}]

sync_wrlock(t) ==
  /\ bstLock.readers = {} /\ bstLock.writers = {}
  /\ bstLock' = [bstLock EXCEPT !.writers = {t}]

\* Mutation: a reader's lock is not given back.
unlockWriter(t) ==
  bstLock' = [bstLock EXCEPT !.writers = @ \ {t}]

sync_unlock(t) ==
  bstLock' = [readers |-> bstLock.readers \ {t}, writers |-> bstLock.writers \ {t}]

Begin(t) ==
  /\ calls < bounds.calls /\ t \in bounds.threads
  /\ \E c \in bounds.offered :
       /\ call' = [call EXCEPT ![t] = c]
       /\ Goto(t, "idle", IF c.op = "delete" THEN "wrlock" ELSE "rdlock")
  /\ calls' = calls + 1
  /\ UNCHANGED <<heapVars, bstLock, p, walkVars, reply, bounds>>

\* lookup, which create calls first.
LookupLock(t) ==
  /\ Goto(t, "rdlock", "search")
  /\ sync_rdlock(t)
  /\ p' = [p EXCEPT ![t] = bstRoot]
  /\ UNCHANGED <<heapVars, call, walkVars, reply, callVars>>

Search(t) ==
  /\ pc[t] = "search" /\ p[t] # NULL /\ heap[p[t]].key # call[t].name
  /\ p' = [p EXCEPT ![t] = heap[@][Side(heap, @, call[t].name)]]
  /\ UNCHANGED <<heapVars, bstLock, pc, call, walkVars, reply, callVars>>

\* search has returned.  create goes on if lookup gave -1, which is also the
\* inumber of a node that was made when there was no i-node left.
SearchEnd(t) ==
  LET inumber == IF p[t] = NULL THEN -1 ELSE heap[p[t]].inumber
      absent  == call[t].op = "create" /\ inumber = -1
  IN /\ p[t] # NULL => heap[p[t]].key = call[t].name
     /\ Goto(t, "search", IF absent THEN "absent" ELSE "answered")
     /\ reply' = [reply EXCEPT ![t] = IF call[t].op = "lookup" THEN inumber
                                      ELSE IF absent THEN @ ELSE -1]
     /\ p' = [p EXCEPT ![t] = NULL]
     /\ UNCHANGED <<heapVars, bstLock, call, walkVars, callVars>>

LookupUnlock(t) ==
  /\ \/ Goto(t, "answered", "idle")
     \/ Goto(t, "absent", "wrlock")
  /\ sync_unlock(t)
  /\ UNCHANGED <<heapVars, call, p, walkVars, reply, callVars>>

\* create and delete.
WriteLock(t) ==
  /\ Goto(t, "wrlock", IF call[t].op = "create" THEN "insert" ELSE "remove_item")
  /\ sync_wrlock(t)
  /\ p' = [p EXCEPT ![t] = bstRoot]
  /\ UNCHANGED <<heapVars, call, walkVars, reply, callVars>>

\* insert and remove_item call themselves for a side of their node.
Descend(t) ==
  /\ pc[t] \in {"insert", "remove_item"}
  /\ p[t] # NULL /\ heap[p[t]].key # call[t].name
  /\ p' = [p EXCEPT ![t] = heap[@][Side(heap, @, call[t].name)]]
  /\ above' = [above EXCEPT ![t] = p[t]]
  /\ UNCHANGED <<heapVars, bstLock, pc, call, m, low, reply, callVars>>

\* The last call leaves heap h and returns node q, which the call before stores in
\* the side it came from, or fs.c in the root; those before store what they had.
Return(t, h, q) ==
  /\ IF above[t] = NULL
     THEN heap' = h /\ bstRoot' = q
     ELSE /\ heap' = [h EXCEPT ![above[t]][Side(h, above[t], call[t].name)] = q]
          /\ UNCHANGED bstRoot
  /\ pc' = [pc EXCEPT ![t] = "wrunlock"]
  /\ p' = [p EXCEPT ![t] = NULL] /\ above' = [above EXCEPT ![t] = NULL]
  /\ m' = [m EXCEPT ![t] = NULL] /\ low' = [low EXCEPT ![t] = NULL]
  /\ reply' = [reply EXCEPT ![t] = 0]
  /\ UNCHANGED <<bstLock, call, callVars>>

Insert(t) ==
  /\ pc[t] = "insert"
  /\ \/ /\ p[t] = NULL
        /\ Return(t, new_node(heap, call[t].name, call[t].inumber), FreeCell(heap))
     \/ /\ p[t] # NULL /\ heap[p[t]].key = call[t].name
        /\ Return(t, [heap EXCEPT ![p[t]].inumber = call[t].inumber], p[t])

RemoveNone(t) ==
  /\ pc[t] = "remove_item" /\ p[t] = NULL
  /\ Return(t, heap, NULL)

\* The node of the name, with no right side, and with one.
RemoveItem(t) ==
  /\ pc[t] = "remove_item" /\ p[t] # NULL /\ heap[p[t]].key = call[t].name
  /\ heap[p[t]].right = NULL
  /\ Return(t, [heap EXCEPT ![p[t]] = Freed], heap[p[t]].left)

RemoveBelow(t) ==
  /\ Goto(t, "remove_item", "find_min")
  /\ p[t] # NULL /\ heap[p[t]].key = call[t].name
  /\ heap[p[t]].right # NULL
  /\ m' = [m EXCEPT ![t] = heap[p[t]].right]
  /\ low' = [low EXCEPT ![t] = p[t]]
  /\ UNCHANGED <<heapVars, bstLock, call, p, above, reply, callVars>>

FindMin(t) ==
  /\ pc[t] = "find_min" /\ heap[m[t]].left # NULL
  /\ m' = [m EXCEPT ![t] = heap[@].left]
  /\ low' = [low EXCEPT ![t] = m[t]]
  /\ UNCHANGED <<heapVars, bstLock, pc, call, p, above, reply, callVars>>

TakeMin(t) ==
  /\ pc[t] = "find_min" /\ heap[m[t]].left = NULL
  /\ Return(t, Joined(heap, p[t], m[t], low[t]), m[t])

WriteUnlock(t) ==
  /\ Goto(t, "wrunlock", "idle")
  /\ sync_unlock(t)
  /\ UNCHANGED <<heapVars, call, p, walkVars, reply, callVars>>

\* signalTreatment, when all the threads are joined: free_tecnicofs.
FreeTree ==
  /\ \A t \in Threads : pc[t] = "idle"
  /\ pc' = [t \in Threads |-> "joined"]
  /\ heap' = [c \in Cells |-> IF c \in Under(heap, bstRoot) THEN Freed ELSE heap[c]]
  /\ UNCHANGED <<bstRoot, bstLock, call, p, walkVars, reply, callVars>>

Step(t) == \/ LookupLock(t) \/ Search(t) \/ SearchEnd(t) \/ LookupUnlock(t)
           \/ WriteLock(t) \/ Descend(t) \/ Insert(t)
           \/ RemoveNone(t) \/ RemoveItem(t) \/ RemoveBelow(t)
           \/ FindMin(t) \/ TakeMin(t) \/ WriteUnlock(t)

TreeNext == FreeTree \/ \E t \in Threads : Begin(t) \/ Step(t)

\* Every thread that can run does in the end.  With the bound on calls, one that
\* waits for the lock is not passed over for ever.
TreeSpec == TreeInit /\ [][TreeNext]_treeVars /\ \A t \in Threads : WF_treeVars(Step(t))

-----------------------------------------------------------------------------
\* Properties.

Running == \A t \in Threads : pc[t] # "joined"

\* The nodes on the heap are those that can be reached from the root: the removal
\* of a node, which frees it and puts the least of its right side in its place,
\* loses none and leaves no pointer to what it freed, so free_tree, which goes the
\* same way, frees all.
TreeIntact ==
  IF Running THEN Under(heap, bstRoot) = Allocated(heap) ELSE Allocated(heap) = {}

\* What is to the left of a node is less, and what is to the right greater, as the
\* searches rely on.  So no node is to both sides of another, or below itself: each
\* is in one place, and free_tree frees it once.
Ordered ==
  Running =>
    \A q \in Allocated(heap) :
      /\ \A c \in Under(heap, heap[q].left) : heap[c].key < heap[q].key
      /\ \A c \in Under(heap, heap[q].right) : heap[q].key < heap[c].key

\* No thread stands on a node another has freed: the lock that fs.c takes around
\* search, insert and remove_item keeps them apart.
NoDangling ==
  \A t \in Threads : {p[t], above[t], m[t], low[t]} \subseteq Allocated(heap) \cup {NULL}

\* The tree is one, in order, with no thread astray in it, whatever is inserted
\* and removed.
TreeSound == TreeTypeOK /\ TreeIntact /\ Ordered /\ NoDangling

\* On heap h a name stands for what its node holds.
Contents(h) ==
  [n \in Names |->
     LET at == {q \in Allocated(h) : h[q].key = n}
     IN IF at = {} THEN NoNode ELSE h[CHOOSE q \in at : TRUE].inumber]

\* How far a call is that has come to a label, as Directory sees it.
Status(label, op) ==
  CASE label \in {"idle", "joined"} -> "idle"
    [] label \in {"rdlock", "search"} -> "called"
    [] label \in {"answered", "wrunlock"} -> "done"
    [] label = "absent" -> "absent"
    [] OTHER -> IF op = "create" THEN "absent" ELSE "called"

Map == INSTANCE Directory WITH
         dir <- Contents(heap),
         status <- [t \in Threads |-> Status(pc[t], call[t].op)]

\* The tree under its lock is the map it stands for: whatever runs at once, each
\* lookup, insertion and removal is as one step on a map from names to inumbers,
\* which is how module TecnicoFS uses it.
ImplementsDirectory == Map!Spec

\* Every call returns: the locks of sync.c are given back on every way out of
\* lookup, create and delete, and create does not ask for the one it holds.
CallsEnd == \A t \in Threads : pc[t] # "idle" ~> pc[t] \in {"idle", "joined"}
=============================================================================
