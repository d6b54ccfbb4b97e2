----------------------------- MODULE TecnicoFS -----------------------------
(***************************************************************************)
(* The TecnicoFS server (C/SO_project/projeto_final/server): one thread    *)
(* per connected client runs trataCliente, a loop of one request and one   *)
(* reply, over a shared directory (a binary search tree under a            *)
(* read-write lock), a shared i-node table (under a mutex) and a shared    *)
(* count of the openings of each i-node (under nothing at all).            *)
(*                                                                         *)
(* A step of this module is one critical section of the code, or one       *)
(* access to globalFileVector, together with the thread-local code around  *)
(* it.  A critical section is atomic because everything it touches is      *)
(* touched under its lock; the operations themselves are not, and that is  *)
(* what the module is about.  The step that decides a reply also sends it. *)
(***************************************************************************)
EXTENDS Inodes, FiniteSets

CONSTANTS
  Sessions,      \* the worker threads, one per connected client
  Uid,           \* the credentials SO_PEERCRED gives for each session
  Names,         \* file names
  VectorSize,    \* VECTOR_SIZE, open files per session
  StackGarbage,  \* what the locals hold that trataCliente never initialises
  Workload,      \* the requests each session's client may send
  MaxRequests    \* bound: requests the server receives

\* The descriptors tfsOpen gives.  One of another range, which server.c uses as an
\* index all the same, is never sent.
Slots     == 0 .. VectorSize - 1
Commands  == {"c", "d", "r", "o", "x", "l", "w"}
AnyName   == CHOOSE n \in Names : TRUE
AnyData   == CHOOSE d \in Contents : TRUE

Request ==
  [cmd : Commands \cup {"none"}, name : Names, rename : Names,
   ownerPerm : Permissions, othersPerm : Permissions, mode : Permissions,
   fd : Slots, data : Contents]

NoRequest ==
  [cmd |-> "none", name |-> AnyName, rename |-> AnyName, ownerPerm |-> NONE,
   othersPerm |-> NONE, mode |-> NONE, fd |-> 0, data |-> AnyData]

\* The locals that live across iterations because nothing resets their slot.
Stack == [iNumber : Inumbers \cup {-1}, permitido : 0 .. 2,
          ownerPerm : Permissions, othersPerm : Permissions]

ASSUME TecnicoFSAssumption ==
  /\ Names # {} /\ Contents # {}
  /\ Uid \in [Sessions -> Uids]
  /\ VectorSize \in Nat \ {0}
  /\ StackGarbage \subseteq Stack /\ StackGarbage # {}
  /\ Workload \in [Sessions -> SUBSET {r \in Request : r.cmd # "none"}]
  /\ MaxRequests \in Nat

ALREADY_EXISTS    == -4
FILE_NOT_FOUND    == -5
PERMISSION_DENIED == -6
MAXED_OPEN_FILES  == -7
FILE_NOT_OPEN     == -8
FILE_IS_OPEN      == -9
INVALID_MODE      == -10

\* No node of the tree has this name.  A node may hold inumber -1: the one
\* create inserts when the i-node table is full.
NoNode == -2

VARIABLES
  dir,              \* the directory: name -> inumber of its node
  inode_table,
  globalFileVector, \* inumber -> count of openings; the cell at -1 is the
                    \* memory before the array, which an open of -1 hits
  pc,               \* where each thread is
  req,              \* the request in each thread's buffer
  resultado,        \* the reply, sent when pc goes back to "recv"
  stack,            \* see Stack
  OpenFiles,        \* each session's table of open files
  inumber,          \* the result of the last lookup
  count,            \* register of the += and -= on globalFileVector
  served            \* requests received, for the bound

fsVars      == <<dir, inode_table, globalFileVector>>
sessionVars == <<pc, req, resultado, stack, OpenFiles, inumber, count, served>>
vars        == <<fsVars, sessionVars>>

Closed == [estado |-> 0, iNumber |-> -1, mode |-> 0]

FileInfo == [estado : {0, 1}, iNumber : Inumbers \cup {-1}, mode : Permissions]

Labels == {"accept", "recv", "c_insert", "d_check", "d_delete", "d_free",
           "r_rename", "r_find", "r_get", "r_delete", "r_probe", "r_create",
           "o_get", "o_load", "o_store", "x_load", "x_store", "w_set"}
          \cup Commands

TypeOK ==
  /\ dir \in [Names -> Inumbers \cup {-1, NoNode}]
  /\ inode_table \in InodeTable
  /\ globalFileVector \in [Inumbers \cup {-1} -> Int]
  /\ pc \in [Sessions -> Labels]
  /\ req \in [Sessions -> Request]
  /\ resultado \in [Sessions -> Slots \cup (INVALID_MODE .. ALREADY_EXISTS)]
  /\ stack \in [Sessions -> Stack]
  /\ OpenFiles \in [Sessions -> [Slots -> FileInfo]]
  /\ inumber \in [Sessions -> Inumbers \cup {-1}]
  /\ count \in [Sessions -> Int]
  /\ served \in 0 .. MaxRequests

InitStack == CHOOSE g \in StackGarbage : TRUE

Init ==
  /\ dir = [n \in Names |-> NoNode]
  /\ inode_table = inode_table_init
  /\ globalFileVector = [i \in Inumbers \cup {-1} |-> 0]
  /\ pc = [s \in Sessions |-> "accept"]
  /\ req = [s \in Sessions |-> NoRequest]
  /\ resultado = [s \in Sessions |-> 0]
  /\ stack = [s \in Sessions |-> InitStack]
  /\ OpenFiles = [s \in Sessions |-> [fd \in Slots |-> Closed]]
  /\ inumber = [s \in Sessions |-> -1]
  /\ count = [s \in Sessions |-> 0]
  /\ served = 0

-----------------------------------------------------------------------------
\* Building blocks.

\* Mutation: an absent name is not told from a bound one.
lookupUnchecked(name) == dir[name]

lookup(name) == IF dir[name] = NoNode THEN -1 ELSE dir[name]

\* How a handler's step ends: at another label of the same request, there with
\* a reply decided or a name looked up, or with the reply sent.  The request
\* and what was looked up for it are dead then.
Goto(s, label) == pc' = [pc EXCEPT ![s] = label]

Continue(s, label) == Goto(s, label) /\ UNCHANGED <<req, resultado, inumber>>

GoWith(s, label, value) ==
  /\ Goto(s, label)
  /\ resultado' = [resultado EXCEPT ![s] = value]
  /\ UNCHANGED <<req, inumber>>

LookThenGo(s, name, label) ==
  /\ Goto(s, label)
  /\ inumber' = [inumber EXCEPT ![s] = lookup(name)]
  /\ UNCHANGED <<req, resultado>>

Answer(s, value) ==
  /\ Goto(s, "recv")
  /\ resultado' = [resultado EXCEPT ![s] = value]
  /\ req' = [req EXCEPT ![s] = NoRequest]
  /\ inumber' = [inumber EXCEPT ![s] = -1]

\* Assignments to the locals that outlive the request.
SetStack(s, locals) == stack' = [stack EXCEPT ![s] = locals]

SetLocals(s, iNumber, permitido) ==
  SetStack(s, [stack[s] EXCEPT !.iNumber = iNumber, !.permitido = permitido])

OpenSlots(s) == {fd \in Slots : OpenFiles[s][fd].estado # 0}

\* create's critical section: bind the name to a given inumber, or to a new
\* i-node, whatever the tree holds by now under that name.
Bind(s, name, ownerPerm, othersPerm, existing) ==
  IF existing >= 0
  THEN /\ dir' = [dir EXCEPT ![name] = existing]
       /\ UNCHANGED inode_table
  ELSE /\ dir' = [dir EXCEPT ![name] = FreshInumber(inode_table)]
       /\ inode_table' = inode_create(inode_table, Uid[s], ownerPerm, othersPerm)

\* The permission tests of cases 'o', 'l' and 'w' on what inode_get gave.
CanOpen(s, a, mode) ==
  IF a.owner = Uid[s] THEN a.ownerPerm \in {mode, RW}
                      ELSE a.othersPerm = mode \/ a.ownerPerm = RW
CanRead(s, a) ==
  (IF a.owner = Uid[s] THEN a.ownerPerm ELSE a.othersPerm) \in {READ, RW}
CanWrite(s, a) ==
  IF a.owner = Uid[s] THEN a.ownerPerm \in {WRITE, RW}
                      ELSE a.othersPerm = WRITE \/ a.ownerPerm = RW
-----------------------------------------------------------------------------
\* Connection and request.

\* acceptClient starts a thread.  Its table of open files is empty: the loop
\* that clears it counts from an uninitialised i, and the entries it skips
\* are the zeroes of a fresh thread stack.
Accept(s) ==
  /\ pc[s] = "accept"
  /\ \E g \in StackGarbage : stack' = [stack EXCEPT ![s] = g]
  /\ Goto(s, "recv")
  /\ UNCHANGED <<fsVars, req, resultado, OpenFiles, inumber, count, served>>

Receive(s) ==
  /\ pc[s] = "recv"
  /\ served < MaxRequests
  /\ \E r \in Workload[s] : /\ req' = [req EXCEPT ![s] = r]
                            /\ Goto(s, r.cmd)
  /\ resultado' = [resultado EXCEPT ![s] = 0]
  /\ served' = served + 1
  /\ UNCHANGED <<fsVars, stack, OpenFiles, inumber, count>>

\* recv returns 0: the thread returns, and its stack, with the table of open
\* files, is gone.  globalFileVector is left as it is.
Disconnect(s) ==
  /\ pc[s] = "recv"
  /\ Goto(s, "accept")
  /\ req' = [req EXCEPT ![s] = NoRequest]
  /\ resultado' = [resultado EXCEPT ![s] = 0]
  /\ stack' = [stack EXCEPT ![s] = InitStack]
  /\ OpenFiles' = [OpenFiles EXCEPT ![s] = [fd \in Slots |-> Closed]]
  /\ inumber' = [inumber EXCEPT ![s] = -1]
  /\ count' = [count EXCEPT ![s] = 0]
  /\ UNCHANGED <<fsVars, served>>
-----------------------------------------------------------------------------
\* case 'c'

CreateLookup(s) ==
  /\ pc[s] = "c"
  /\ SetStack(s, [stack[s] EXCEPT !.ownerPerm = req[s].ownerPerm,
                                 !.othersPerm = req[s].othersPerm])
  /\ IF lookup(req[s].name) # -1 THEN Answer(s, ALREADY_EXISTS)
                                 ELSE Continue(s, "c_insert")
  /\ UNCHANGED <<fsVars, OpenFiles, count, served>>

CreateInsert(s) ==
  /\ pc[s] = "c_insert"
  /\ Bind(s, req[s].name, req[s].ownerPerm, req[s].othersPerm, -1)
  /\ Answer(s, 0)
  /\ UNCHANGED <<globalFileVector, stack, OpenFiles, count, served>>

-----------------------------------------------------------------------------
\* case 'd'

DeleteLookup(s) ==
  /\ pc[s] = "d"
  /\ IF lookup(req[s].name) = -1 THEN Answer(s, FILE_NOT_FOUND)
                                 ELSE LookThenGo(s, req[s].name, "d_check")
  /\ UNCHANGED <<fsVars, stack, OpenFiles, count, served>>

\* Mutation: neither table of open files is consulted.
DeleteCheckMissing(s) ==
  /\ pc[s] = "d_check"
  /\ Continue(s, "d_delete")
  /\ UNCHANGED <<fsVars, stack, OpenFiles, count, served>>

\* Every entry of OpenFiles has fileName = name, the one buffer each request
\* is parsed into, so any file this session has open counts as this one.
DeleteCheck(s) ==
  /\ pc[s] = "d_check"
  /\ IF globalFileVector[inumber[s]] # 0 \/ OpenSlots(s) # {}
     THEN Answer(s, FILE_IS_OPEN)
     ELSE Continue(s, "d_delete")
  /\ UNCHANGED <<fsVars, stack, OpenFiles, count, served>>

DeleteRemove(s) ==
  /\ pc[s] = "d_delete"
  /\ dir' = [dir EXCEPT ![req[s].name] = NoNode]
  /\ Continue(s, "d_free")
  /\ UNCHANGED <<inode_table, globalFileVector, stack, OpenFiles, count, served>>

DeleteFree(s) ==
  /\ pc[s] = "d_free"
  /\ inode_table' = inode_delete(inode_table, inumber[s])
  /\ Answer(s, 0)
  /\ UNCHANGED <<dir, globalFileVector, stack, OpenFiles, count, served>>

-----------------------------------------------------------------------------
\* case 'r'

RenameLookup(s) ==
  /\ pc[s] = "r"
  /\ LookThenGo(s, req[s].name, "r_rename")
  /\ UNCHANGED <<fsVars, stack, OpenFiles, count, served>>

\* The test for an existing target misses inumber 0.  On either error *owner
\* is compared all the same, as malloc left it: the reply may be
\* PERMISSION_DENIED in the error's place.
RenameLookupNew(s) ==
  LET exists  == lookup(req[s].rename) > 0
      missing == inumber[s] < 0
  IN /\ pc[s] = "r_rename"
     /\ \/ ~exists /\ ~missing /\ Continue(s, "r_find")
        \/ exists /\ Answer(s, ALREADY_EXISTS)
        \/ ~exists /\ missing /\ Answer(s, FILE_NOT_FOUND)
        \/ (exists \/ missing) /\ Answer(s, PERMISSION_DENIED)
     /\ UNCHANGED <<fsVars, stack, OpenFiles, count, served>>

RenameFind(s) ==
  /\ pc[s] = "r_find"
  /\ LookThenGo(s, req[s].name, "r_get")
  /\ UNCHANGED <<fsVars, stack, OpenFiles, count, served>>

RenameGet(s) ==
  /\ pc[s] = "r_get"
  /\ \E a \in inode_get(inode_table, inumber[s]) :
       IF a.owner # Uid[s] THEN Answer(s, PERMISSION_DENIED)
                           ELSE Continue(s, "r_delete")
  /\ UNCHANGED <<fsVars, stack, OpenFiles, count, served>>

RenameDelete(s) ==
  /\ pc[s] = "r_delete"
  /\ dir' = [dir EXCEPT ![req[s].name] = NoNode]
  /\ Continue(s, "r_probe")
  /\ UNCHANGED <<inode_table, globalFileVector, stack, OpenFiles, count, served>>

\* create(fs, rename, ...), whose result the caller drops.
RenameProbe(s) ==
  /\ pc[s] = "r_probe"
  /\ IF lookup(req[s].rename) # -1 THEN Answer(s, 0)
                                   ELSE Continue(s, "r_create")
  /\ UNCHANGED <<fsVars, stack, OpenFiles, count, served>>

\* The inumber and permissions passed are the locals of the loop body, not
\* those of the file: whatever earlier requests left there.
RenameCreate(s) ==
  /\ pc[s] = "r_create"
  /\ Bind(s, req[s].rename, stack[s].ownerPerm, stack[s].othersPerm,
          stack[s].iNumber)
  /\ Answer(s, 0)
  /\ UNCHANGED <<globalFileVector, stack, OpenFiles, count, served>>

-----------------------------------------------------------------------------
\* case 'o'

OpenLookup(s) ==
  /\ pc[s] = "o"
  /\ SetLocals(s, lookup(req[s].name), 0)
  /\ Continue(s, "o_get")
  /\ UNCHANGED <<fsVars, OpenFiles, count, served>>

FreeSlot(s) ==
  CHOOSE fd \in Slots \ OpenSlots(s) :
    \A other \in Slots \ OpenSlots(s) : fd <= other

OpenGet(s) ==
  /\ pc[s] = "o_get"
  /\ \E a \in inode_get(inode_table, stack[s].iNumber) :
       \/ /\ ~CanOpen(s, a, req[s].mode)
          /\ Answer(s, INVALID_MODE)
          /\ UNCHANGED <<stack, OpenFiles>>
       \/ /\ CanOpen(s, a, req[s].mode)
          /\ OpenSlots(s) = Slots
          /\ SetLocals(s, stack[s].iNumber, 1)
          /\ Answer(s, MAXED_OPEN_FILES)
          /\ UNCHANGED OpenFiles
       \/ /\ CanOpen(s, a, req[s].mode)
          /\ OpenSlots(s) # Slots
          /\ SetLocals(s, stack[s].iNumber, 2)
          /\ OpenFiles' = [OpenFiles EXCEPT ![s][FreeSlot(s)] =
                             [estado |-> 1, iNumber |-> stack[s].iNumber,
                              mode |-> req[s].mode]]
          /\ GoWith(s, "o_load", FreeSlot(s))
  /\ UNCHANGED <<fsVars, count, served>>

\* globalFileVector[iNumber] += 1 and -= 1: a load, then a store, no lock.
LoadCount(s) ==
  count' = [count EXCEPT ![s] = globalFileVector[stack[s].iNumber]]

StoreCount(s, delta) ==
  /\ globalFileVector' =
       [globalFileVector EXCEPT ![stack[s].iNumber] = count[s] + delta]
  /\ count' = [count EXCEPT ![s] = 0]

OpenLoad(s) ==
  /\ pc[s] = "o_load"
  /\ LoadCount(s)
  /\ Continue(s, "o_store")
  /\ UNCHANGED <<fsVars, stack, OpenFiles, served>>

OpenStore(s) ==
  /\ pc[s] = "o_store"
  /\ StoreCount(s, 1)
  /\ Answer(s, resultado[s])
  /\ UNCHANGED <<dir, inode_table, stack, OpenFiles, served>>

-----------------------------------------------------------------------------
\* case 'x'

CloseCheck(s) ==
  LET file == OpenFiles[s][req[s].fd] IN
  /\ pc[s] = "x"
  /\ IF file.estado = 0
     THEN Answer(s, FILE_NOT_OPEN) /\ UNCHANGED stack
     ELSE /\ SetLocals(s, file.iNumber, stack[s].permitido)
          /\ Continue(s, "x_load")
  /\ UNCHANGED <<fsVars, OpenFiles, count, served>>

CloseLoad(s) ==
  /\ pc[s] = "x_load"
  /\ LoadCount(s)
  /\ Continue(s, "x_store")
  /\ UNCHANGED <<fsVars, stack, OpenFiles, served>>

\* Mutation: the slot is not reset.
CloseStoreKeepsSlot(s) ==
  /\ pc[s] = "x_store"
  /\ StoreCount(s, -1)
  /\ Answer(s, 0)
  /\ UNCHANGED <<dir, inode_table, stack, OpenFiles, served>>

CloseStore(s) ==
  /\ pc[s] = "x_store"
  /\ StoreCount(s, -1)
  /\ OpenFiles' = [OpenFiles EXCEPT ![s][req[s].fd] = Closed]
  /\ Answer(s, 0)
  /\ UNCHANGED <<dir, inode_table, stack, served>>

-----------------------------------------------------------------------------
\* case 'l'

\* permitido is set when the read is allowed and never cleared: the next
\* write of the session finds it.
Read(s) ==
  LET file == OpenFiles[s][req[s].fd] IN
  /\ pc[s] = "l"
  /\ \/ /\ file.estado = 0
        /\ Answer(s, FILE_NOT_OPEN)
        /\ UNCHANGED stack
     \/ /\ file.estado # 0
        /\ file.mode \in {NONE, WRITE}
        /\ Answer(s, INVALID_MODE)
        /\ UNCHANGED stack
     \/ /\ file.estado # 0
        /\ file.mode \notin {NONE, WRITE}
        /\ \E a \in inode_get(inode_table, file.iNumber) :
             /\ SetLocals(s, file.iNumber,
                          IF CanRead(s, a) THEN 1 ELSE stack[s].permitido)
             /\ Answer(s, IF CanRead(s, a) THEN 0 ELSE INVALID_MODE)
  /\ UNCHANGED <<fsVars, OpenFiles, count, served>>

-----------------------------------------------------------------------------
\* case 'w'

\* The permissions looked at are those of the local iNumber, the file this
\* session last opened, read or closed, and permitido may be left over from
\* an earlier request: the write can happen although the reply denies it.
WriteCheck(s) ==
  LET file == OpenFiles[s][req[s].fd] IN
  /\ pc[s] = "w"
  /\ \/ /\ file.estado = 0
        /\ Answer(s, FILE_NOT_OPEN)
        /\ UNCHANGED stack
     \/ /\ file.estado # 0
        /\ file.mode \in {NONE, READ}
        /\ Answer(s, INVALID_MODE)
        /\ UNCHANGED stack
     \/ /\ file.estado # 0
        /\ file.mode \notin {NONE, READ}
        /\ \E a \in inode_get(inode_table, stack[s].iNumber) :
             LET result == IF CanWrite(s, a) THEN 0 ELSE INVALID_MODE
             IN \/ /\ CanWrite(s, a) \/ stack[s].permitido = 1
                   /\ SetLocals(s, stack[s].iNumber, 0)
                   /\ GoWith(s, "w_set", result)
                \/ /\ ~CanWrite(s, a) /\ stack[s].permitido # 1
                   /\ Answer(s, result)
                   /\ UNCHANGED stack
  /\ UNCHANGED <<fsVars, OpenFiles, count, served>>

WriteSet(s) ==
  /\ pc[s] = "w_set"
  /\ inode_table' = inode_set(inode_table, OpenFiles[s][req[s].fd].iNumber,
                              req[s].data)
  /\ Answer(s, resultado[s])
  /\ UNCHANGED <<dir, globalFileVector, stack, OpenFiles, count, served>>

-----------------------------------------------------------------------------
Command(s) ==
  \/ CreateLookup(s) \/ CreateInsert(s)
  \/ DeleteLookup(s) \/ DeleteCheck(s) \/ DeleteRemove(s) \/ DeleteFree(s)
  \/ RenameLookup(s) \/ RenameLookupNew(s) \/ RenameFind(s) \/ RenameGet(s)
  \/ RenameDelete(s) \/ RenameProbe(s) \/ RenameCreate(s)
  \/ OpenLookup(s) \/ OpenGet(s) \/ OpenLoad(s) \/ OpenStore(s)
  \/ CloseCheck(s) \/ CloseLoad(s) \/ CloseStore(s)
  \/ Read(s) \/ WriteCheck(s) \/ WriteSet(s)

Next ==
  \E s \in Sessions : Accept(s) \/ Receive(s) \/ Disconnect(s) \/ Command(s)

Spec == Init /\ [][Next]_vars
-----------------------------------------------------------------------------
\* What the clients ask for.  The server is right only under conditions on
\* the workload; these name them.

Names_of(r) == {r.name} \cup (IF r.cmd = "r" THEN {r.rename} ELSE {})

Uses(s, n) == \E r \in Workload[s] :
                 r.cmd \in {"c", "d", "r", "o"} /\ n \in Names_of(r)

Deletes(s, n) == \E r \in Workload[s] : r.cmd = "d" /\ r.name = n

Private(s, n) == Uses(s, n) /\ \A t \in Sessions \ {s} : ~Uses(t, n)

\* No client renames.
NoRename == \A s \in Sessions : \A r \in Workload[s] : r.cmd # "r"

\* No two clients delete the same name.
OneDeleter ==
  \A n \in Names : \A s, t \in Sessions : Deletes(s, n) /\ Deletes(t, n) => s = t

\* Whoever deletes a name is the only one to use it.
DeletesOwn ==
  \A s \in Sessions, n \in Names : Deletes(s, n) => Private(s, n)

-----------------------------------------------------------------------------
\* Properties.

\* The directory is sound: a name bound to an inumber is bound to an i-node in
\* use, and no two names share one.  Threads look up, check, unlink and free in
\* separate critical sections (create in fs.c, case 'd' in server.c); with
\* racing creations of one name, and one client at most deleting each name,
\* no interleaving of them leaves a name on a freed or a reused i-node.
DirSound ==
  /\ \A n \in Names : dir[n] >= 0 => InUse(inode_table, dir[n])
  /\ \A m, n \in Names : dir[m] >= 0 /\ dir[m] = dir[n] => m = n

SlotsOn(s, i) == {fd \in Slots : OpenFiles[s][fd].estado # 0
                                   /\ OpenFiles[s][fd].iNumber = i}

\* The slots whose opening case 'o' has already added to globalFileVector.
CountedSlots(s, i) ==
  SlotsOn(s, i) \ (IF pc[s] \in {"o_load", "o_store"} THEN {resultado[s]} ELSE {})

\* "se for 0 esta fechado" (server.c:47): the i-node of a name one client alone
\* uses is counted open at least as often as that client has it open, although
\* += and -= run without a lock beside those of other threads.  It may be
\* counted more often: a client that leaves without closing is never uncounted.
CountCovers ==
  \A s \in Sessions, n \in Names :
    Private(s, n) /\ dir[n] >= 0
      => globalFileVector[dir[n]] >= Cardinality(CountedSlots(s, dir[n]))

\* What globalFileVector is for: "nao apagar um ficheiro aberto" (server.c:48).
\* A step never frees an i-node that a live session has open.  Case 'd' tests
\* the count long before it frees, so this needs that whoever may delete a
\* name is the only one to use it.
OpenFileNotFreed ==
  [][\A i \in Inumbers, s \in Sessions :
       InUse(inode_table, i) /\ SlotsOn(s, i) # {} => InUse(inode_table', i)]_vars

\* Clients that keep to their own names do not meet: the i-node of a name one
\* client alone uses is open in no other session, although i-nodes are freed
\* and handed out again between the critical sections of an open (case 'o').
PrivateFilesStayPrivate ==
  \A s, t \in Sessions, n \in Names :
    s # t /\ Private(s, n) /\ dir[n] >= 0 => SlotsOn(t, dir[n]) = {}
=============================================================================
