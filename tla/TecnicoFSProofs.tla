-------------------------- MODULE TecnicoFSProofs --------------------------
(***************************************************************************)
(* Theorems about TecnicoFS, for every number of sessions, names, i-nodes  *)
(* and slots, and for every workload that meets the stated conditions.     *)
(***************************************************************************)
EXTENDS TecnicoFS, WellFoundedInduction, FiniteSetTheorems, TLAPS

USE InodeAssumption, TecnicoFSAssumption

-----------------------------------------------------------------------------
\* Lemmas about the operators.

\* A non-empty set of naturals has a least element: what makes the CHOOSE of
\* FreshInumber and FreeSlot pick the first one, as the loops of the code do.
LEMMA LeastElement ==
  ASSUME NEW S \in SUBSET Nat, S # {}
  PROVE  \E i \in S : \A j \in S : i <= j
<1>1. PICK i \in S : \A j \in S : <<j, i>> \notin OpToRel(<, Nat)
  BY NatLessThanWellFounded, WFMin, Zenon
<1>2. \A j \in S : ~(j < i)
  BY <1>1 DEF OpToRel
<1>. QED
  BY <1>2

\* inode_create returns -1 on a full table, and otherwise a free entry.
LEMMA FreshInumberFree ==
  ASSUME NEW table \in InodeTable
  PROVE  \/ FreshInumber(table) = -1
         \/ FreshInumber(table) \in FreeInumbers(table)
<1>1. FreeInumbers(table) \in SUBSET Nat
  BY DEF FreeInumbers, Inumbers
<1>2. CASE FreeInumbers(table) # {}
  BY <1>1, <1>2, LeastElement DEF FreshInumber
<1>. QED
  BY <1>2 DEF FreshInumber

\* Where inode_create puts a new i-node, and that it touches nothing else.
LEMMA CreateTable ==
  ASSUME NEW table \in InodeTable, NEW uid \in Uids,
         NEW op \in Permissions, NEW tp \in Permissions
  PROVE  /\ inode_create(table, uid, op, tp) \in InodeTable
         /\ \A i \in Inumbers :
              InUse(inode_create(table, uid, op, tp), i)
                <=> InUse(table, i) \/ i = FreshInumber(table)
<1> DEFINE new == inode_create(table, uid, op, tp)
<1>1. new \in InodeTable
  BY DEF inode_create, InodeTable, Inode
<1>2. ASSUME NEW i \in Inumbers
      PROVE  InUse(new, i) <=> InUse(table, i) \/ i = FreshInumber(table)
  BY DEF inode_create, InUse
<1>. QED
  BY <1>1, <1>2

\* inode_delete frees that entry and no other.
LEMMA DeleteTable ==
  ASSUME NEW table \in InodeTable, NEW d
  PROVE  /\ inode_delete(table, d) \in InodeTable
         /\ \A i \in Inumbers :
              InUse(inode_delete(table, d), i) <=> InUse(table, i) /\ i # d
<1>1. inode_table_init \in InodeTable
  BY DEF inode_table_init, InodeTable, Inode, Permissions, NONE, RW
<1>2. inode_delete(table, d) \in InodeTable
  BY <1>1 DEF inode_delete, InodeTable, InUse
<1>3. ASSUME NEW i \in Inumbers
      PROVE  InUse(inode_delete(table, d), i) <=> InUse(table, i) /\ i # d
  BY DEF inode_delete, InUse, InodeTable, inode_table_init
<1>. QED
  BY <1>2, <1>3

\* inode_set changes the content of an entry in use, and no entry's owner.
LEMMA SetTable ==
  ASSUME NEW table \in InodeTable, NEW w, NEW c \in Contents
  PROVE  /\ inode_set(table, w, c) \in InodeTable
         /\ \A i \in Inumbers : InUse(inode_set(table, w, c), i) <=> InUse(table, i)
<1>1. inode_set(table, w, c) \in InodeTable
  BY DEF inode_set, InodeTable, Inode, InUse
<1>2. ASSUME NEW i \in Inumbers
      PROVE  InUse(inode_set(table, w, c), i) <=> InUse(table, i)
  BY DEF inode_set, InUse, InodeTable
<1>. QED
  BY <1>1, <1>2

\* Whatever inode_get leaves in its arguments, it has their type.
LEMMA GetAttributes ==
  ASSUME NEW table \in InodeTable, NEW i, NEW a \in inode_get(table, i)
  PROVE  a \in Attributes
BY DEF inode_get, InUse, InodeTable, Inode, Attributes
-----------------------------------------------------------------------------
\* Types.

LEMMA NoRequestType == NoRequest \in Request
BY DEF NoRequest, Request, AnyName, AnyData, Permissions, NONE, RW, Slots

LEMMA InitStackType == InitStack \in Stack
BY DEF InitStack

LEMMA ClosedType == Closed \in FileInfo
BY DEF Closed, FileInfo, Permissions, NONE, RW

\* An inumber that lookup returns is one of the table, or -1.
LEMMA LookupType ==
  ASSUME TypeOK, NEW n \in Names
  PROVE  lookup(n) \in Inumbers \cup {-1}
BY DEF TypeOK, lookup, NoNode, Inumbers

\* A free slot, when there is one.
LEMMA FreeSlotType ==
  ASSUME NEW s \in Sessions, OpenSlots(s) # Slots
  PROVE  FreeSlot(s) \in Slots \ OpenSlots(s)
<1>1. Slots \ OpenSlots(s) \in SUBSET Nat /\ Slots \ OpenSlots(s) # {}
  BY DEF OpenSlots, Slots
<1>. QED
  BY <1>1, LeastElement DEF FreeSlot

\* How a step ends keeps the types of the variables it sets.
LEMMA AnswerType ==
  ASSUME TypeOK, NEW s \in Sessions,
         NEW v \in Slots \cup (INVALID_MODE .. ALREADY_EXISTS), Answer(s, v)
  PROVE  /\ pc' \in [Sessions -> Labels]
         /\ req' \in [Sessions -> Request]
         /\ resultado' \in [Sessions -> Slots \cup (INVALID_MODE .. ALREADY_EXISTS)]
         /\ inumber' \in [Sessions -> Inumbers \cup {-1}]
BY NoRequestType DEF TypeOK, Answer, Goto, Labels

LEMMA ContinueType ==
  ASSUME TypeOK, NEW s \in Sessions, NEW l \in Labels, Continue(s, l)
  PROVE  /\ pc' \in [Sessions -> Labels]
         /\ req' \in [Sessions -> Request]
         /\ resultado' \in [Sessions -> Slots \cup (INVALID_MODE .. ALREADY_EXISTS)]
         /\ inumber' \in [Sessions -> Inumbers \cup {-1}]
BY DEF TypeOK, Continue, Goto

LEMMA GoWithType ==
  ASSUME TypeOK, NEW s \in Sessions, NEW l \in Labels,
         NEW v \in Slots \cup (INVALID_MODE .. ALREADY_EXISTS), GoWith(s, l, v)
  PROVE  /\ pc' \in [Sessions -> Labels]
         /\ req' \in [Sessions -> Request]
         /\ resultado' \in [Sessions -> Slots \cup (INVALID_MODE .. ALREADY_EXISTS)]
         /\ inumber' \in [Sessions -> Inumbers \cup {-1}]
BY DEF TypeOK, GoWith, Goto

LEMMA LookThenGoType ==
  ASSUME TypeOK, NEW s \in Sessions, NEW l \in Labels, NEW n \in Names,
         LookThenGo(s, n, l)
  PROVE  /\ pc' \in [Sessions -> Labels]
         /\ req' \in [Sessions -> Request]
         /\ resultado' \in [Sessions -> Slots \cup (INVALID_MODE .. ALREADY_EXISTS)]
         /\ inumber' \in [Sessions -> Inumbers \cup {-1}]
BY LookupType DEF TypeOK, LookThenGo, Goto

\* create's critical section keeps the types of the directory and the table.
LEMMA BindType ==
  ASSUME TypeOK, NEW s \in Sessions, NEW n \in Names, NEW op \in Permissions,
         NEW tp \in Permissions, NEW e \in Inumbers \cup {-1}, Bind(s, n, op, tp, e)
  PROVE  /\ dir' \in [Names -> Inumbers \cup {-1, NoNode}]
         /\ inode_table' \in InodeTable
<1>1. Uid[s] \in Uids
  OBVIOUS
<1>2. FreshInumber(inode_table) \in Inumbers \cup {-1}
  BY FreshInumberFree DEF TypeOK, FreeInumbers
<1>3. CASE e >= 0
  BY <1>3 DEF Bind, TypeOK
<1>4. CASE ~(e >= 0)
  BY <1>1, <1>2, <1>4, CreateTable DEF Bind, TypeOK
<1>. QED
  BY <1>3, <1>4

LEMMA SetStackType ==
  ASSUME TypeOK, NEW s \in Sessions, NEW locals \in Stack, SetStack(s, locals)
  PROVE  stack' \in [Sessions -> Stack]
BY DEF TypeOK, SetStack

LEMMA SetLocalsType ==
  ASSUME TypeOK, NEW s \in Sessions, NEW i \in Inumbers \cup {-1}, NEW p \in 0 .. 2,
         SetLocals(s, i, p)
  PROVE  stack' \in [Sessions -> Stack]
<1>1. stack[s] \in Stack
  BY DEF TypeOK
<1>2. [stack[s] EXCEPT !.iNumber = i, !.permitido = p] \in Stack
  BY <1>1 DEF Stack
<1>. QED
  BY <1>2, SetStackType DEF SetLocals

LEMMA ReplyCodes ==
  {0, ALREADY_EXISTS, FILE_NOT_FOUND, PERMISSION_DENIED, MAXED_OPEN_FILES,
   FILE_NOT_OPEN, FILE_IS_OPEN, INVALID_MODE}
  \subseteq Slots \cup (INVALID_MODE .. ALREADY_EXISTS)
BY DEF Slots, ALREADY_EXISTS, FILE_NOT_FOUND, PERMISSION_DENIED,
       MAXED_OPEN_FILES, FILE_NOT_OPEN, FILE_IS_OPEN, INVALID_MODE

LEMMA InitType == Init => TypeOK
<1>1. inode_table_init \in InodeTable
  BY DEF inode_table_init, InodeTable, Inode, Permissions, NONE, RW
<1>. QED
  BY <1>1, NoRequestType, InitStackType, ClosedType, ReplyCodes
     DEF Init, TypeOK, Labels, NoNode

\* A request of the workload has the type of one, and a command for its label.
LEMMA WorkloadType ==
  ASSUME NEW s \in Sessions, NEW r \in Workload[s]
  PROVE  r \in Request /\ r.cmd \in Labels
BY DEF Request, Labels

LEMMA AttributesType ==
  ASSUME NEW a \in Attributes
  PROVE  a.owner \in Uids /\ a.ownerPerm \in Permissions /\ a.othersPerm \in Permissions
BY DEF Attributes

LEMMA CreateStackType ==
  ASSUME TypeOK, NEW s \in Sessions, CreateLookup(s)
  PROVE  stack' \in [Sessions -> Stack]
<1> DEFINE locals == [stack[s] EXCEPT !.ownerPerm = req[s].ownerPerm,
                                      !.othersPerm = req[s].othersPerm]
<1>1. stack[s] \in Stack /\ req[s].ownerPerm \in Permissions
        /\ req[s].othersPerm \in Permissions
  BY DEF TypeOK, Request
<1>2. locals \in Stack
  BY <1>1 DEF Stack
<1>. QED
  BY <1>2, SetStackType DEF CreateLookup

\* The types of a session's locals, field by field.
LEMMA SessionTypes ==
  ASSUME TypeOK, NEW s \in Sessions
  PROVE  /\ stack[s].iNumber \in Inumbers \cup {-1}
         /\ stack[s].permitido \in 0 .. 2
         /\ req[s].name \in Names /\ req[s].mode \in Permissions
         /\ req[s].fd \in Slots /\ req[s].data \in Contents
         /\ \A fd \in Slots : OpenFiles[s][fd].iNumber \in Inumbers \cup {-1}
<1>1. stack[s] \in Stack /\ req[s] \in Request
        /\ \A fd \in Slots : OpenFiles[s][fd] \in FileInfo
  BY DEF TypeOK
<1>. QED
  BY <1>1 DEF Stack, Request, FileInfo

\* What case 'o' leaves in the table of open files has the type of one.
LEMMA OpenEntryType ==
  ASSUME TypeOK, NEW s \in Sessions, NEW fd \in Slots
  PROVE  [OpenFiles EXCEPT ![s][fd] =
            [estado |-> 1, iNumber |-> stack[s].iNumber, mode |-> req[s].mode]]
           \in [Sessions -> [Slots -> FileInfo]]
<1>1. [estado |-> 1, iNumber |-> stack[s].iNumber, mode |-> req[s].mode] \in FileInfo
  BY SessionTypes DEF FileInfo
<1>. QED
  BY <1>1 DEF TypeOK

LEMMA OpenGetType ==
  ASSUME TypeOK, NEW s \in Sessions, OpenGet(s) PROVE TypeOK'
<1> USE SessionTypes, ReplyCodes
<1>1. CASE Answer(s, INVALID_MODE) /\ UNCHANGED <<stack, OpenFiles>>
  BY <1>1, AnswerType DEF OpenGet, TypeOK, fsVars
<1>2. CASE /\ SetLocals(s, stack[s].iNumber, 1)
           /\ Answer(s, MAXED_OPEN_FILES)
           /\ UNCHANGED OpenFiles
  BY <1>2, AnswerType, SetLocalsType DEF OpenGet, TypeOK, fsVars
<1>3. CASE /\ OpenSlots(s) # Slots
           /\ SetLocals(s, stack[s].iNumber, 2)
           /\ OpenFiles' = [OpenFiles EXCEPT ![s][FreeSlot(s)] =
                             [estado |-> 1, iNumber |-> stack[s].iNumber,
                              mode |-> req[s].mode]]
           /\ GoWith(s, "o_load", FreeSlot(s))
  <2>1. FreeSlot(s) \in Slots /\ "o_load" \in Labels
    BY <1>3, FreeSlotType DEF Labels
  <2>2. OpenFiles' \in [Sessions -> [Slots -> FileInfo]]
    BY <1>3, <2>1, OpenEntryType
  <2>3. stack' \in [Sessions -> Stack]
    BY <1>3, SetLocalsType
  <2>. QED
    BY <1>3, <2>1, <2>2, <2>3, GoWithType DEF OpenGet, TypeOK, fsVars
<1>. QED
  BY <1>1, <1>2, <1>3 DEF OpenGet

LEMMA CloseCheckType ==
  ASSUME TypeOK, NEW s \in Sessions, CloseCheck(s) PROVE TypeOK'
<1> USE SessionTypes, ReplyCodes
<1>1. CASE Answer(s, FILE_NOT_OPEN) /\ UNCHANGED stack
  BY <1>1, AnswerType DEF CloseCheck, TypeOK, fsVars
<1>2. CASE /\ SetLocals(s, OpenFiles[s][req[s].fd].iNumber, stack[s].permitido)
           /\ Continue(s, "x_load")
  <2>1. stack' \in [Sessions -> Stack] /\ "x_load" \in Labels
    BY <1>2, SetLocalsType DEF Labels
  <2>. QED
    BY <1>2, <2>1, ContinueType DEF CloseCheck, TypeOK, fsVars
<1>. QED
  BY <1>1, <1>2 DEF CloseCheck

LEMMA ReadType ==
  ASSUME TypeOK, NEW s \in Sessions, Read(s) PROVE TypeOK'
<1> USE SessionTypes, ReplyCodes
<1>1. CASE \E v \in {FILE_NOT_OPEN, INVALID_MODE} : Answer(s, v) /\ UNCHANGED stack
  BY <1>1, AnswerType DEF Read, TypeOK, fsVars
<1>2. CASE \E v \in {0, INVALID_MODE}, q \in {1, stack[s].permitido} :
             SetLocals(s, OpenFiles[s][req[s].fd].iNumber, q) /\ Answer(s, v)
  <2>1. stack' \in [Sessions -> Stack]
    BY <1>2, SetLocalsType
  <2>. QED
    BY <1>2, <2>1, AnswerType DEF Read, TypeOK, fsVars
<1>. QED
  BY <1>1, <1>2 DEF Read

LEMMA NextType == TypeOK /\ [Next]_vars => TypeOK'
<1> SUFFICES ASSUME TypeOK, [Next]_vars PROVE TypeOK'
  OBVIOUS
<1>1. CASE UNCHANGED vars
  BY <1>1 DEF TypeOK, vars, fsVars, sessionVars
<1>2. ASSUME NEW s \in Sessions,
             Accept(s) \/ Receive(s) \/ Disconnect(s) \/ Command(s)
      PROVE  TypeOK'
  <2> USE ReplyCodes
  <2>1. CASE Accept(s)
    BY <2>1
       DEF Accept, TypeOK, Labels, Commands, fsVars, Goto
  <2>2. CASE Receive(s)
    BY <2>2, WorkloadType
       DEF Receive, TypeOK, Labels, Commands, fsVars, Goto
  <2>3. CASE Disconnect(s)
    BY <2>3, NoRequestType, InitStackType, ClosedType
       DEF Disconnect, TypeOK, Labels, Commands, fsVars, Goto
  <2>4. CASE CreateLookup(s)
    BY <2>4, AnswerType, ContinueType, CreateStackType
       DEF CreateLookup, TypeOK, Labels, Commands, fsVars
  <2>5. CASE CreateInsert(s)
    BY <2>5, AnswerType, BindType
       DEF CreateInsert, TypeOK, Labels, Commands, fsVars, Request
  <2>6. CASE DeleteLookup(s)
    BY <2>6, AnswerType, LookThenGoType
       DEF DeleteLookup, TypeOK, Labels, Commands, fsVars, Request
  <2>7. CASE DeleteCheck(s)
    BY <2>7, AnswerType, ContinueType
       DEF DeleteCheck, TypeOK, Labels, Commands, fsVars
  <2>8. CASE DeleteRemove(s)
    BY <2>8, ContinueType
       DEF DeleteRemove, TypeOK, Labels, Commands, fsVars, Request
  <2>9. CASE DeleteFree(s)
    BY <2>9, AnswerType, DeleteTable
       DEF DeleteFree, TypeOK, Labels, Commands, fsVars
  <2>10. CASE RenameLookup(s)
    BY <2>10, LookThenGoType
       DEF RenameLookup, TypeOK, Labels, Commands, fsVars, Request
  <2>11. CASE RenameLookupNew(s)
    BY <2>11, AnswerType, ContinueType
       DEF RenameLookupNew, TypeOK, Labels, Commands, fsVars
  <2>12. CASE RenameFind(s)
    BY <2>12, LookThenGoType
       DEF RenameFind, TypeOK, Labels, Commands, fsVars, Request
  <2>13. CASE RenameGet(s)
    BY <2>13, AnswerType, ContinueType
       DEF RenameGet, TypeOK, Labels, Commands, fsVars
  <2>14. CASE RenameDelete(s)
    BY <2>14, ContinueType
       DEF RenameDelete, TypeOK, Labels, Commands, fsVars, Request
  <2>15. CASE RenameProbe(s)
    BY <2>15, AnswerType, ContinueType
       DEF RenameProbe, TypeOK, Labels, Commands, fsVars
  <2>16. CASE RenameCreate(s)
    BY <2>16, AnswerType, BindType
       DEF RenameCreate, TypeOK, Labels, Commands, fsVars, Request, Stack
  <2>17. CASE OpenLookup(s)
    BY <2>17, SetLocalsType, ContinueType, LookupType
       DEF OpenLookup, TypeOK, Labels, Commands, fsVars, Request, Stack
  <2>18. CASE OpenGet(s)
    BY <2>18, OpenGetType
  <2>19. CASE OpenLoad(s)
    BY <2>19, ContinueType
       DEF OpenLoad, TypeOK, Labels, Commands, fsVars, LoadCount, Stack
  <2>20. CASE OpenStore(s)
    BY <2>20, AnswerType
       DEF OpenStore, TypeOK, Labels, Commands, fsVars, StoreCount, Stack
  <2>21. CASE CloseCheck(s)
    BY <2>21, CloseCheckType
  <2>22. CASE CloseLoad(s)
    BY <2>22, ContinueType
       DEF CloseLoad, TypeOK, Labels, Commands, fsVars, LoadCount, Stack
  <2>23. CASE CloseStore(s)
    BY <2>23, AnswerType, ClosedType
       DEF CloseStore, TypeOK, Labels, Commands, fsVars, StoreCount, Stack, Request
  <2>24. CASE Read(s)
    BY <2>24, ReadType
  <2>25. CASE WriteCheck(s)
    BY <2>25, SetLocalsType, AnswerType, GoWithType
       DEF WriteCheck, TypeOK, Labels, Commands, fsVars, Request, Stack, FileInfo
  <2>26. CASE WriteSet(s)
    BY <2>26, AnswerType, SetTable
       DEF WriteSet, TypeOK, Labels, Commands, fsVars, Request
  <2>. QED
    BY <1>2, <2>1, <2>2, <2>3, <2>4, <2>5, <2>6, <2>7, <2>8, <2>9, <2>10, <2>11, <2>12, <2>13, <2>14, <2>15, <2>16, <2>17, <2>18, <2>19, <2>20, <2>21, <2>22, <2>23, <2>24, <2>25, <2>26 DEF Command
<1>. QED
  BY <1>1, <1>2 DEF Next

\* TypeOK holds of every reachable state, whatever the clients ask for, the
\* memory malloc returns and the locals the threads start with.
THEOREM TypeCorrect == Spec => []TypeOK
BY InitType, NextType, PTL DEF Spec
-----------------------------------------------------------------------------
\* The directory is sound.

DeleteLabels == {"d", "d_check", "d_delete", "d_free"}
RenameLabels == {"r", "r_rename", "r_find", "r_get", "r_delete", "r_probe", "r_create"}

\* While a thread works on a request, it is one its client may send, and the
\* label tells the command.
RequestInv ==
  \A s \in Sessions :
    /\ pc[s] \notin {"accept", "recv"} => req[s] \in Workload[s]
    /\ pc[s] \in DeleteLabels => req[s].cmd = "d"
    /\ pc[s] \in RenameLabels => req[s].cmd = "r"

Deleting(s) == pc[s] \in {"d_check", "d_delete", "d_free"}

\* What DirSound needs to be inductive: the i-node a thread is about to free is
\* still in use, no name but the one it deletes leads there, and no other
\* thread is about to free it.
DeleteInv ==
  /\ \A s \in Sessions : Deleting(s) =>
       /\ InUse(inode_table, inumber[s])
       /\ \A n \in Names : dir[n] = inumber[s]
                             => n = req[s].name /\ pc[s] # "d_free"
  /\ \A s, t \in Sessions :
       Deleting(s) /\ Deleting(t) /\ inumber[s] = inumber[t] => s = t

DirInv == DirSound /\ DeleteInv

\* The threads other than s are where they were.
OthersKeep(s) ==
  \A t \in Sessions \ {s} :
    pc'[t] = pc[t] /\ req'[t] = req[t] /\ inumber'[t] = inumber[t]

LEMMA AnswerEnds ==
  ASSUME TypeOK, NEW s \in Sessions, NEW v, Answer(s, v)
  PROVE  pc'[s] = "recv" /\ OthersKeep(s)
BY DEF TypeOK, Answer, Goto, OthersKeep

LEMMA ContinueEnds ==
  ASSUME TypeOK, NEW s \in Sessions, NEW l, Continue(s, l)
  PROVE  /\ pc'[s] = l /\ req'[s] = req[s] /\ inumber'[s] = inumber[s]
         /\ OthersKeep(s)
BY DEF TypeOK, Continue, Goto, OthersKeep

LEMMA GoWithEnds ==
  ASSUME TypeOK, NEW s \in Sessions, NEW l, NEW v, GoWith(s, l, v)
  PROVE  /\ pc'[s] = l /\ req'[s] = req[s] /\ inumber'[s] = inumber[s]
         /\ OthersKeep(s)
BY DEF TypeOK, GoWith, Goto, OthersKeep

LEMMA LookThenGoEnds ==
  ASSUME TypeOK, NEW s \in Sessions, NEW l, NEW n \in Names, LookThenGo(s, n, l)
  PROVE  /\ pc'[s] = l /\ req'[s] = req[s] /\ inumber'[s] = lookup(n)
         /\ OthersKeep(s)
BY DEF TypeOK, LookThenGo, Goto, OthersKeep

\* A step of one of these actions moves the thread where, and with what request.
LEMMA RequestStep ==
  ASSUME TypeOK, RequestInv, [Next]_vars
  PROVE  RequestInv'
<1>1. CASE UNCHANGED vars
  BY <1>1 DEF RequestInv, vars, sessionVars
<1>2. ASSUME NEW s \in Sessions, OthersKeep(s),
             \/ pc'[s] \in {"accept", "recv"}
             \/ /\ pc[s] \notin {"accept", "recv"}
                /\ req'[s] = req[s]
                /\ pc'[s] \in DeleteLabels => pc[s] \in DeleteLabels
                /\ pc'[s] \in RenameLabels => pc[s] \in RenameLabels
             \/ /\ req'[s] \in Workload[s]
                /\ pc'[s] = req'[s].cmd
      PROVE  RequestInv'
  <2>1. ASSUME NEW t \in Sessions \ {s}
        PROVE  /\ pc'[t] \notin {"accept", "recv"} => req'[t] \in Workload[t]
               /\ pc'[t] \in DeleteLabels => req'[t].cmd = "d"
               /\ pc'[t] \in RenameLabels => req'[t].cmd = "r"
    BY <1>2, <2>1 DEF RequestInv, OthersKeep
  <2>2. ASSUME NEW r \in Workload[s]
        PROVE  /\ r.cmd \in DeleteLabels => r.cmd = "d"
               /\ r.cmd \in RenameLabels => r.cmd = "r"
    <3>1. r.cmd \in Commands \cup {"none"}
      BY DEF Request
    <3>. QED
      BY <3>1 DEF Commands, DeleteLabels, RenameLabels
  <2>3. /\ pc'[s] \notin {"accept", "recv"} => req'[s] \in Workload[s]
        /\ pc'[s] \in DeleteLabels => req'[s].cmd = "d"
        /\ pc'[s] \in RenameLabels => req'[s].cmd = "r"
    BY <1>2, <2>2 DEF RequestInv, DeleteLabels, RenameLabels
  <2>. QED
    BY <2>1, <2>3 DEF RequestInv
<1>3. ASSUME NEW s \in Sessions,
             Accept(s) \/ Receive(s) \/ Disconnect(s) \/ Command(s)
      PROVE  /\ OthersKeep(s)
             /\ \/ pc'[s] \in {"accept", "recv"}
                \/ /\ pc[s] \notin {"accept", "recv"}
                   /\ req'[s] = req[s]
                   /\ pc'[s] \in DeleteLabels => pc[s] \in DeleteLabels
                   /\ pc'[s] \in RenameLabels => pc[s] \in RenameLabels
                \/ /\ req'[s] \in Workload[s]
                   /\ pc'[s] = req'[s].cmd
  <2> USE DEF DeleteLabels, RenameLabels
  <2>1. CASE Accept(s)
    BY <2>1 DEF Accept, Goto, TypeOK, OthersKeep
  <2>2. CASE Receive(s)
    BY <2>2 DEF Receive, Goto, TypeOK, OthersKeep
  <2>3. CASE Disconnect(s)
    BY <2>3 DEF Disconnect, Goto, TypeOK, OthersKeep
  <2>4. CASE CreateLookup(s) \/ CreateInsert(s)
    BY <2>4, AnswerEnds, ContinueEnds, GoWithEnds, LookThenGoEnds, SessionTypes
       DEF CreateLookup, CreateInsert
  <2>5. CASE DeleteLookup(s) \/ DeleteCheck(s) \/ DeleteRemove(s) \/ DeleteFree(s)
    BY <2>5, AnswerEnds, ContinueEnds, GoWithEnds, LookThenGoEnds, SessionTypes
       DEF DeleteLookup, DeleteCheck, DeleteRemove, DeleteFree
  <2>6. CASE RenameLookup(s) \/ RenameLookupNew(s) \/ RenameFind(s)
    BY <2>6, AnswerEnds, ContinueEnds, GoWithEnds, LookThenGoEnds, SessionTypes
       DEF RenameLookup, RenameLookupNew, RenameFind
  <2>7. CASE RenameGet(s) \/ RenameDelete(s) \/ RenameProbe(s) \/ RenameCreate(s)
    BY <2>7, AnswerEnds, ContinueEnds, GoWithEnds, LookThenGoEnds, SessionTypes
       DEF RenameGet, RenameDelete, RenameProbe, RenameCreate
  <2>8. CASE OpenLookup(s) \/ OpenGet(s) \/ OpenLoad(s) \/ OpenStore(s)
    BY <2>8, AnswerEnds, ContinueEnds, GoWithEnds, LookThenGoEnds, SessionTypes
       DEF OpenLookup, OpenGet, OpenLoad, OpenStore
  <2>9. CASE CloseCheck(s) \/ CloseLoad(s) \/ CloseStore(s)
    BY <2>9, AnswerEnds, ContinueEnds, GoWithEnds, LookThenGoEnds, SessionTypes
       DEF CloseCheck, CloseLoad, CloseStore
  <2>10. CASE Read(s) \/ WriteCheck(s) \/ WriteSet(s)
    BY <2>10, AnswerEnds, ContinueEnds, GoWithEnds, LookThenGoEnds, SessionTypes
       DEF Read, WriteCheck, WriteSet
  <2>. QED
    BY <1>3, <2>1, <2>2, <2>3, <2>4, <2>5, <2>6, <2>7, <2>8, <2>9, <2>10 DEF Command
<1>. QED
  BY <1>1, <1>2, <1>3 DEF Next

\* A step that leaves the directory alone, frees no i-node and does not take s
\* into a deletion.
LEMMA QuietStep ==
  ASSUME DirInv, NEW s \in Sessions, OthersKeep(s), dir' = dir,
         \A i \in Inumbers : InUse(inode_table, i) => InUse(inode_table', i),
         ~Deleting(s)'
  PROVE  DirInv'
<1>1. \A t \in Sessions : Deleting(t)' =>
        t # s /\ Deleting(t) /\ inumber'[t] = inumber[t] /\ req'[t] = req[t]
          /\ pc'[t] = pc[t]
  BY DEF OthersKeep, Deleting
<1>2. DirSound'
  BY DEF DirInv, DirSound, InUse
<1>3. DeleteInv'
  BY <1>1 DEF DirInv, DeleteInv, InUse
<1>. QED
  BY <1>2, <1>3 DEF DirInv

\* Case 'c': the name is bound to a fresh i-node, which no name leads to and no
\* thread is about to free, or to -1.
LEMMA CreateStep ==
  ASSUME TypeOK, DirInv, NEW s \in Sessions, CreateInsert(s)
  PROVE  DirInv'
<1> DEFINE name  == req[s].name
           fresh == FreshInumber(inode_table)
<1>1. /\ dir' = [dir EXCEPT ![name] = fresh]
      /\ inode_table' = inode_create(inode_table, Uid[s], req[s].ownerPerm,
                                     req[s].othersPerm)
      /\ pc'[s] = "recv" /\ OthersKeep(s)
  BY AnswerEnds DEF CreateInsert, Bind
<1>2. /\ Uid[s] \in Uids /\ name \in Names
      /\ req[s].ownerPerm \in Permissions /\ req[s].othersPerm \in Permissions
      /\ inode_table \in InodeTable
      /\ dir \in [Names -> Inumbers \cup {-1, NoNode}]
  BY DEF TypeOK, Request
<1>3. \A i \in Inumbers : InUse(inode_table', i) <=> InUse(inode_table, i) \/ i = fresh
  BY <1>1, <1>2, CreateTable
<1>4. fresh = -1 \/ (fresh \in Inumbers /\ ~InUse(inode_table, fresh))
  BY <1>2, FreshInumberFree DEF FreeInumbers, InUse
<1>5. \A n \in Names : dir[n] >= 0 => InUse(inode_table, dir[n])
  BY DEF DirInv, DirSound
<1>6. \A i : InUse(inode_table, i) => i # fresh /\ InUse(inode_table', i)
  BY <1>3, <1>4 DEF InUse, Inumbers
<1>7. \A n \in Names : dir'[n] = IF n = name THEN fresh ELSE dir[n]
  BY <1>1, <1>2
<1>8. DirSound'
  <2>1. ASSUME NEW n \in Names, dir'[n] >= 0 PROVE InUse(inode_table', dir'[n])
    BY <1>3, <1>4, <1>5, <1>6, <1>7, <2>1
  <2>2. ASSUME NEW m \in Names, NEW n \in Names, dir'[m] >= 0, dir'[m] = dir'[n]
        PROVE  m = n
    BY <1>5, <1>6, <1>7, <2>2 DEF DirInv, DirSound
  <2>. QED
    BY <2>1, <2>2 DEF DirSound
<1>9. DeleteInv'
  <2>1. \A t \in Sessions : Deleting(t)' =>
          t # s /\ Deleting(t) /\ inumber'[t] = inumber[t] /\ req'[t] = req[t]
            /\ pc'[t] = pc[t]
    BY <1>1 DEF OthersKeep, Deleting
  <2>. QED
    BY <1>6, <1>7, <2>1 DEF DirInv, DeleteInv
<1>. QED
  BY <1>8, <1>9 DEF DirInv

\* Case 'd', the lookup: the i-node found is in use, this name alone leads to
\* it, and whoever else is about to free it deletes the same name: nobody.
LEMMA DeleteLookupStep ==
  ASSUME TypeOK, RequestInv, DirInv, OneDeleter, NEW s \in Sessions, DeleteLookup(s)
  PROVE  DirInv'
<1> DEFINE name == req[s].name
<1>1. name \in Names /\ dir' = dir /\ inode_table' = inode_table
  BY SessionTypes DEF DeleteLookup, fsVars
<1>2. CASE lookup(name) = -1
  <2>1. pc'[s] = "recv" /\ OthersKeep(s)
    BY <1>2, AnswerEnds DEF DeleteLookup
  <2>. QED
    BY <1>1, <2>1, QuietStep DEF Deleting
<1>3. CASE lookup(name) # -1
  <2>1. /\ pc'[s] = "d_check" /\ req'[s] = req[s] /\ inumber'[s] = lookup(name)
        /\ OthersKeep(s)
    BY <1>1, <1>3, LookThenGoEnds DEF DeleteLookup
  <2>2. lookup(name) = dir[name] /\ dir[name] >= 0
    BY <1>1, <1>3, LookupType DEF lookup, Inumbers
  <2>3. InUse(inode_table, inumber'[s])
    BY <1>1, <2>1, <2>2 DEF DirInv, DirSound
  <2>4. \A n \in Names : dir[n] = inumber'[s] => n = name
    BY <1>1, <2>1, <2>2 DEF DirInv, DirSound
  <2>5. ASSUME NEW t \in Sessions, Deleting(t), inumber[t] = inumber'[s]
        PROVE  t = s
    <3>1. name = req[t].name
      BY <1>1, <2>1, <2>2, <2>5 DEF DirInv, DeleteInv
    <3>2. /\ req[s] \in Workload[s] /\ req[s].cmd = "d"
          /\ req[t] \in Workload[t] /\ req[t].cmd = "d"
      BY <2>5 DEF RequestInv, DeleteLookup, Deleting, DeleteLabels
    <3>. QED
      BY <1>1, <3>1, <3>2 DEF OneDeleter, Deletes
  <2>6. \A t \in Sessions \ {s} :
          /\ Deleting(t)' <=> Deleting(t)
          /\ inumber'[t] = inumber[t] /\ req'[t] = req[t] /\ pc'[t] = pc[t]
    BY <2>1 DEF OthersKeep, Deleting
  <2>7. DeleteInv'
    <3>1. ASSUME NEW t \in Sessions, Deleting(t)'
          PROVE  /\ InUse(inode_table', inumber'[t])
                 /\ \A n \in Names : dir'[n] = inumber'[t]
                                       => n = req'[t].name /\ pc'[t] # "d_free"
      BY <1>1, <2>1, <2>3, <2>4, <2>6, <3>1 DEF DirInv, DeleteInv
    <3>2. ASSUME NEW t \in Sessions, NEW r \in Sessions, Deleting(t)', Deleting(r)',
                 inumber'[t] = inumber'[r]
          PROVE  t = r
      BY <2>5, <2>6, <3>2 DEF DirInv, DeleteInv
    <3>. QED
      BY <3>1, <3>2 DEF DeleteInv
  <2>. QED
    BY <1>1, <2>7 DEF DirInv, DirSound
<1>. QED
  BY <1>2, <1>3

\* Case 'd', the check of the tables of open files.
LEMMA DeleteCheckStep ==
  ASSUME TypeOK, DirInv, NEW s \in Sessions, DeleteCheck(s)
  PROVE  DirInv'
<1>1. dir' = dir /\ inode_table' = inode_table
  BY DEF DeleteCheck, fsVars
<1>2. CASE Answer(s, FILE_IS_OPEN)
  <2>1. pc'[s] = "recv" /\ OthersKeep(s)
    BY <1>2, AnswerEnds
  <2>. QED
    BY <1>1, <2>1, QuietStep DEF Deleting
<1>3. CASE Continue(s, "d_delete")
  <2>1. \A t \in Sessions :
          /\ Deleting(t)' <=> Deleting(t)
          /\ inumber'[t] = inumber[t] /\ req'[t] = req[t]
          /\ pc'[t] = "d_free" => pc[t] = "d_free"
    BY <1>3, ContinueEnds DEF OthersKeep, Deleting, DeleteCheck
  <2>. QED
    BY <1>1, <2>1 DEF DirInv, DirSound, DeleteInv
<1>. QED
  BY <1>2, <1>3 DEF DeleteCheck

\* Case 'd', the removal from the tree: no name leads to the i-node any more.
LEMMA DeleteRemoveStep ==
  ASSUME TypeOK, DirInv, NEW s \in Sessions, DeleteRemove(s)
  PROVE  DirInv'
<1> DEFINE name == req[s].name
<1>1. /\ dir' = [dir EXCEPT ![name] = NoNode] /\ inode_table' = inode_table
      /\ name \in Names /\ dir \in [Names -> Inumbers \cup {-1, NoNode}]
  BY SessionTypes DEF DeleteRemove, TypeOK
<1>2. \A n \in Names : dir'[n] = IF n = name THEN NoNode ELSE dir[n]
  BY <1>1
<1>3. \A t \in Sessions :
        /\ Deleting(t)' <=> Deleting(t)
        /\ inumber'[t] = inumber[t] /\ req'[t] = req[t]
        /\ t # s => pc'[t] = pc[t]
  BY ContinueEnds DEF OthersKeep, Deleting, DeleteRemove
<1>4. DirSound'
  BY <1>1, <1>2 DEF DirInv, DirSound, NoNode
<1>5. ASSUME NEW t \in Sessions, Deleting(t)
      PROVE  inumber[t] # NoNode
  BY <1>5 DEF DirInv, DeleteInv, InUse, Inumbers, NoNode
<1>6. DeleteInv'
  BY <1>1, <1>2, <1>3, <1>5 DEF DirInv, DeleteInv
<1>. QED
  BY <1>4, <1>6 DEF DirInv

\* Case 'd', the i-node is freed: nothing leads to it by now.
LEMMA DeleteFreeStep ==
  ASSUME TypeOK, DirInv, NEW s \in Sessions, DeleteFree(s)
  PROVE  DirInv'
<1> DEFINE freed == inumber[s]
<1>1. /\ dir' = dir /\ inode_table' = inode_delete(inode_table, freed)
      /\ inode_table \in InodeTable /\ pc'[s] = "recv" /\ OthersKeep(s)
  BY AnswerEnds DEF DeleteFree, TypeOK
<1>2. \A i : InUse(inode_table, i) /\ i # freed => InUse(inode_table', i)
  BY <1>1, DeleteTable DEF InUse
<1>3. Deleting(s) /\ \A n \in Names : dir[n] # freed
  BY DEF DirInv, DeleteInv, DeleteFree, Deleting
<1>4. \A t \in Sessions : Deleting(t)' =>
        t # s /\ Deleting(t) /\ inumber'[t] = inumber[t] /\ req'[t] = req[t]
          /\ pc'[t] = pc[t] /\ inumber[t] # freed
  BY <1>1, <1>3 DEF OthersKeep, Deleting, DirInv, DeleteInv
<1>5. DirSound'
  BY <1>1, <1>2, <1>3 DEF DirInv, DirSound
<1>6. DeleteInv'
  BY <1>1, <1>2, <1>4 DEF DirInv, DeleteInv
<1>. QED
  BY <1>5, <1>6 DEF DirInv

\* Every other step is a quiet one.
LEMMA OtherSteps ==
  ASSUME TypeOK, DirInv, NEW s \in Sessions, pc[s] \notin RenameLabels,
         \/ Accept(s) \/ Receive(s) \/ Disconnect(s) \/ CreateLookup(s)
         \/ OpenLookup(s) \/ OpenGet(s) \/ OpenLoad(s) \/ OpenStore(s)
         \/ CloseCheck(s) \/ CloseLoad(s) \/ CloseStore(s)
         \/ Read(s) \/ WriteCheck(s) \/ WriteSet(s)
  PROVE  DirInv'
<1> SUFFICES /\ OthersKeep(s) /\ dir' = dir /\ ~Deleting(s)'
             /\ \A i \in Inumbers : InUse(inode_table, i) => InUse(inode_table', i)
  BY QuietStep
<1> USE DEF Deleting, fsVars
<1>1. CASE Accept(s) \/ Disconnect(s)
  BY <1>1 DEF Accept, Disconnect, Goto, TypeOK, OthersKeep
<1>2. CASE Receive(s)
  <2>1. \A r \in Workload[s] : r.cmd \in Commands \cup {"none"}
    BY DEF Request
  <2>. QED
    BY <1>2, <2>1 DEF Receive, Goto, TypeOK, OthersKeep, Commands
<1>3. CASE CreateLookup(s)
  BY <1>3, AnswerEnds, ContinueEnds DEF CreateLookup
<1>4. CASE OpenLookup(s) \/ OpenGet(s) \/ OpenLoad(s) \/ OpenStore(s)
  BY <1>4, AnswerEnds, ContinueEnds, GoWithEnds
     DEF OpenLookup, OpenGet, OpenLoad, OpenStore
<1>5. CASE CloseCheck(s) \/ CloseLoad(s) \/ CloseStore(s)
  BY <1>5, AnswerEnds, ContinueEnds DEF CloseCheck, CloseLoad, CloseStore
<1>6. CASE Read(s) \/ WriteCheck(s)
  <2>1. UNCHANGED fsVars
    BY <1>6 DEF Read, WriteCheck
  <2>2. \/ \E v : Answer(s, v)
        \/ \E v : GoWith(s, "w_set", v)
    BY <1>6, Zenon DEF Read, WriteCheck
  <2>. QED
    BY <2>1, <2>2, AnswerEnds, GoWithEnds
<1>7. CASE WriteSet(s)
  BY <1>7, AnswerEnds, SetTable, SessionTypes DEF WriteSet, TypeOK
<1>. QED
  BY <1>1, <1>2, <1>3, <1>4, <1>5, <1>6, <1>7, Zenon

LEMMA DirStep ==
  ASSUME NoRename, OneDeleter, TypeOK, RequestInv, DirInv, [Next]_vars
  PROVE  DirInv'
<1>1. CASE UNCHANGED vars
  BY <1>1 DEF DirInv, DirSound, DeleteInv, Deleting, vars, fsVars, sessionVars
<1>2. ASSUME NEW s \in Sessions,
             Accept(s) \/ Receive(s) \/ Disconnect(s) \/ Command(s)
      PROVE  DirInv'
  <2>1. pc[s] \notin RenameLabels
    BY DEF RequestInv, NoRename, RenameLabels
  <2>2. CASE CreateInsert(s)
    BY <2>2, CreateStep
  <2>3. CASE DeleteLookup(s) \/ DeleteCheck(s) \/ DeleteRemove(s) \/ DeleteFree(s)
    BY <2>3, DeleteLookupStep, DeleteCheckStep, DeleteRemoveStep, DeleteFreeStep
  <2>4. CASE \/ RenameLookup(s) \/ RenameLookupNew(s) \/ RenameFind(s) \/ RenameGet(s)
             \/ RenameDelete(s) \/ RenameProbe(s) \/ RenameCreate(s)
    BY <2>1, <2>4 DEF RenameLabels, RenameLookup, RenameLookupNew, RenameFind,
                      RenameGet, RenameDelete, RenameProbe, RenameCreate
  <2>. QED
    BY <1>2, <2>1, <2>2, <2>3, <2>4, OtherSteps DEF Command
<1>. QED
  BY <1>1, <1>2 DEF Next

LEMMA InitDir == Init => RequestInv /\ DirInv
BY DEF Init, RequestInv, DirInv, DirSound, DeleteInv, Deleting, NoNode,
       DeleteLabels, RenameLabels

\* With no renames, and no two clients deleting one name, every name is bound to
\* an i-node in use and no two names share one, in every interleaving of any
\* number of sessions that create, delete, open, read and write shared names.
THEOREM DirSoundness ==
  ASSUME NoRename, OneDeleter
  PROVE  Spec => []DirSound
<1>1. Init => TypeOK /\ RequestInv /\ DirInv
  BY InitType, InitDir
<1>2. TypeOK /\ RequestInv /\ DirInv /\ [Next]_vars
        => (TypeOK /\ RequestInv /\ DirInv)'
  BY NextType, RequestStep, DirStep
<1>3. DirInv => DirSound
  BY DEF DirInv
<1>. QED
  BY <1>1, <1>2, <1>3, PTL DEF Spec

-----------------------------------------------------------------------------
\* What clients that do not rename, and delete only names that they alone use,
\* may rely on.

\* The inumbers a thread may open, count or write by: those of its open files,
\* and the one that case 'o' has looked up and will open.
Holds(t, i) ==
  \/ \E fd \in OpenSlots(t) : OpenFiles[t][fd].iNumber = i
  \/ pc[t] = "o_get" /\ stack[t].iNumber = i

\* What a thread holds is in use, and if a name leads there it is one of its
\* client's.
HeldInv ==
  \A t \in Sessions, i \in Inumbers : Holds(t, i) =>
    /\ InUse(inode_table, i)
    /\ \A n \in Names : dir[n] = i => Uses(t, n)

\* What a thread deletes no other holds; and once it has looked, it has no file
\* open at all.
AloneInv ==
  \A u \in Sessions :
    /\ Deleting(u) => \A t \in Sessions \ {u} : ~Holds(t, inumber[u])
    /\ pc[u] \in {"d_delete", "d_free"} => OpenSlots(u) = {}

\* += and -= are done on the count of a file the thread has open, in the slot
\* that the request opens or closes.
CountingSlot(t) == IF pc[t] \in {"o_load", "o_store"} THEN resultado[t] ELSE req[t].fd

Counting(t) == pc[t] \in {"o_load", "o_store", "x_load", "x_store"}

TouchInv ==
  \A t \in Sessions : Counting(t) =>
    /\ CountingSlot(t) \in OpenSlots(t)
    /\ OpenFiles[t][CountingSlot(t)].iNumber = stack[t].iNumber

\* The request of case 'o' is one.
OpenInv == \A t \in Sessions : pc[t] = "o" => req[t].cmd = "o"

IsoInv == HeldInv /\ AloneInv /\ TouchInv /\ OpenInv

Storing(t) == pc[t] \in {"o_store", "x_store"}

\* Counts are not negative where nobody else may be counting: of a free i-node,
\* and of one being deleted.  That of a file of one client covers its slots, and
\* does not change between the load and the store of a += or -=.
CountInv ==
  /\ \A i \in Inumbers : ~InUse(inode_table, i) => globalFileVector[i] >= 0
  /\ \A u \in Sessions : Deleting(u) => globalFileVector[inumber[u]] >= 0
  /\ \A s \in Sessions, n \in Names : Private(s, n) /\ dir[n] >= 0 =>
       /\ globalFileVector[dir[n]] >= Cardinality(CountedSlots(s, dir[n]))
       /\ Storing(s) /\ stack[s].iNumber = dir[n] => count[s] = globalFileVector[dir[n]]

-----------------------------------------------------------------------------
\* What a step leaves alone.

\* The threads other than s are where they were, with the locals they had.
OthersStay(s) ==
  \A t \in Sessions \ {s} :
    /\ pc'[t] = pc[t] /\ req'[t] = req[t] /\ resultado'[t] = resultado[t]
    /\ stack'[t] = stack[t] /\ OpenFiles'[t] = OpenFiles[t]
    /\ inumber'[t] = inumber[t] /\ count'[t] = count[t]

\* Without renames, a step is one of these.
Step(s) ==
  \/ Accept(s) \/ Receive(s) \/ Disconnect(s)
  \/ CreateLookup(s) \/ CreateInsert(s)
  \/ DeleteLookup(s) \/ DeleteCheck(s) \/ DeleteRemove(s) \/ DeleteFree(s)
  \/ OpenLookup(s) \/ OpenGet(s) \/ OpenLoad(s) \/ OpenStore(s)
  \/ CloseCheck(s) \/ CloseLoad(s) \/ CloseStore(s)
  \/ Read(s) \/ WriteCheck(s) \/ WriteSet(s)

LEMMA StepOfNext ==
  ASSUME NoRename, RequestInv, NEW s \in Sessions,
         Accept(s) \/ Receive(s) \/ Disconnect(s) \/ Command(s)
  PROVE  Step(s)
<1>1. pc[s] \notin RenameLabels
  BY DEF RequestInv, NoRename, RenameLabels
<1>2. ~( \/ RenameLookup(s) \/ RenameLookupNew(s) \/ RenameFind(s) \/ RenameGet(s)
         \/ RenameDelete(s) \/ RenameProbe(s) \/ RenameCreate(s))
  BY <1>1 DEF RenameLabels, RenameLookup, RenameLookupNew, RenameFind,
              RenameGet, RenameDelete, RenameProbe, RenameCreate
<1>. QED
  BY <1>2, Zenon DEF Command, Step

LEMMA DeleterIsOne == DeletesOwn => OneDeleter
BY DEF DeletesOwn, OneDeleter, Private, Deletes, Uses, Names_of

LEMMA StepKeepsOthers ==
  ASSUME TypeOK, NEW s \in Sessions, Step(s)
  PROVE  OthersStay(s)
<1> USE DEF OthersStay, Answer, Continue, GoWith, LookThenGo, Goto, SetLocals, SetStack,
            LoadCount, StoreCount
<1>1. CASE Accept(s) \/ Receive(s) \/ Disconnect(s)
  BY <1>1 DEF Accept, Receive, Disconnect, TypeOK
<1>2. CASE CreateLookup(s) \/ CreateInsert(s)
  BY <1>2 DEF CreateLookup, CreateInsert, TypeOK
<1>3. CASE DeleteLookup(s) \/ DeleteCheck(s) \/ DeleteRemove(s) \/ DeleteFree(s)
  BY <1>3 DEF DeleteLookup, DeleteCheck, DeleteRemove, DeleteFree, TypeOK
<1>4. CASE OpenLookup(s) \/ OpenLoad(s) \/ OpenStore(s)
  BY <1>4 DEF OpenLookup, OpenLoad, OpenStore, TypeOK
<1>5. CASE OpenGet(s)
  BY <1>5 DEF OpenGet, TypeOK
<1>6. CASE CloseCheck(s) \/ CloseLoad(s) \/ CloseStore(s)
  BY <1>6 DEF CloseCheck, CloseLoad, CloseStore, TypeOK
<1>7. CASE Read(s)
  BY <1>7 DEF Read, TypeOK
<1>8. CASE WriteCheck(s) \/ WriteSet(s)
  BY <1>8 DEF WriteCheck, WriteSet, TypeOK
<1>. QED
  BY <1>1, <1>2, <1>3, <1>4, <1>5, <1>6, <1>7, <1>8, Zenon DEF Step

-----------------------------------------------------------------------------
\* HeldInv.

\* A thread that does not look up a file to open holds no more than it held.
LEMMA HeldShrinks ==
  ASSUME TypeOK, OpenInv, NEW s \in Sessions, Step(s), ~OpenLookup(s)
  PROVE  \A t \in Sessions, i \in Inumbers : Holds(t, i)' => Holds(t, i)
<1>1. \A t \in Sessions \ {s}, i \in Inumbers : Holds(t, i)' => Holds(t, i)
  BY StepKeepsOthers DEF OthersStay, Holds, OpenSlots
<1> SUFFICES \A i \in Inumbers : Holds(s, i)' => Holds(s, i)
  BY <1>1
<1>2. ASSUME pc'[s] # "o_get", OpenFiles'[s] = OpenFiles[s]
      PROVE  \A i \in Inumbers : Holds(s, i)' => Holds(s, i)
  BY <1>2 DEF Holds, OpenSlots
<1>3. CASE OpenGet(s)
  <2>1. CASE OpenFiles' = OpenFiles /\ \E v : Answer(s, v)
    BY <1>2, <2>1, AnswerEnds
  <2>2. CASE /\ OpenSlots(s) # Slots
             /\ SetLocals(s, stack[s].iNumber, 2)
             /\ OpenFiles' = [OpenFiles EXCEPT ![s][FreeSlot(s)] =
                               [estado |-> 1, iNumber |-> stack[s].iNumber,
                                mode |-> req[s].mode]]
             /\ GoWith(s, "o_load", FreeSlot(s))
    <3>1. FreeSlot(s) \in Slots \ OpenSlots(s)
      BY <2>2, FreeSlotType
    <3>2. \A fd \in Slots : OpenFiles'[s][fd] =
            IF fd = FreeSlot(s)
            THEN [estado |-> 1, iNumber |-> stack[s].iNumber, mode |-> req[s].mode]
            ELSE OpenFiles[s][fd]
      BY <2>2, <3>1 DEF TypeOK
    <3>3. pc'[s] = "o_load" /\ Holds(s, stack[s].iNumber)
      BY <1>3, <2>2 DEF OpenGet, GoWith, Goto, TypeOK, Holds
    <3>. QED
      BY <3>2, <3>3 DEF Holds, OpenSlots
  <2>. QED
    BY <1>3, <2>1, <2>2, Zenon DEF OpenGet
<1>4. CASE CloseStore(s)
  <2>1. \A fd \in Slots : OpenFiles'[s][fd] \in {Closed, OpenFiles[s][fd]}
    BY <1>4, SessionTypes DEF CloseStore, TypeOK
  <2>2. pc'[s] = "recv"
    BY <1>4, AnswerEnds DEF CloseStore
  <2>. QED
    BY <2>1, <2>2 DEF Holds, OpenSlots, Closed
<1>5. CASE Disconnect(s)
  BY <1>5 DEF Disconnect, TypeOK, Goto, Holds, OpenSlots, Closed
<1>6. CASE Receive(s)
  <2>1. \A r \in Workload[s] : r.cmd \in Commands \cup {"none"}
    BY DEF Request
  <2>. QED
    BY <1>2, <1>6, <2>1 DEF Receive, Goto, TypeOK, Commands
<1>7. CASE Accept(s) \/ CreateLookup(s) \/ CreateInsert(s)
  BY <1>2, <1>7, AnswerEnds, ContinueEnds
     DEF Accept, CreateLookup, CreateInsert, Goto, TypeOK
<1>8. CASE DeleteLookup(s) \/ DeleteCheck(s) \/ DeleteRemove(s) \/ DeleteFree(s)
  BY <1>2, <1>8, AnswerEnds, ContinueEnds, LookThenGoEnds, SessionTypes
     DEF DeleteLookup, DeleteCheck, DeleteRemove, DeleteFree
<1>9. CASE OpenLoad(s) \/ OpenStore(s) \/ CloseCheck(s) \/ CloseLoad(s)
  BY <1>2, <1>9, AnswerEnds, ContinueEnds
     DEF OpenLoad, OpenStore, CloseCheck, CloseLoad
<1>10. CASE Read(s) \/ WriteCheck(s) \/ WriteSet(s)
  <2>1. OpenFiles' = OpenFiles
    BY <1>10 DEF Read, WriteCheck, WriteSet
  <2>2. (\E v : Answer(s, v)) \/ (\E v : GoWith(s, "w_set", v))
    BY <1>10, Zenon DEF Read, WriteCheck, WriteSet
  <2>. QED
    BY <1>2, <2>1, <2>2, AnswerEnds, GoWithEnds
<1>. QED
  BY <1>3, <1>4, <1>5, <1>6, <1>7, <1>8, <1>9, <1>10, Zenon DEF Step

\* What a thread holds stays held, unless someone frees it or binds it.
LEMMA HeldStays ==
  ASSUME HeldInv, \A t \in Sessions, i \in Inumbers : Holds(t, i)' => Holds(t, i),
         \A t \in Sessions, i \in Inumbers : Holds(t, i)' =>
           /\ InUse(inode_table, i) => InUse(inode_table', i)
           /\ \A n \in Names : dir'[n] = i => dir[n] = i
  PROVE  HeldInv'
BY DEF HeldInv

\* Case 'o', the lookup: the file found is in use, by a name of its client's.
LEMMA OpenLookupHolds ==
  ASSUME TypeOK, RequestInv, DirInv, OpenInv, HeldInv, NEW s \in Sessions, OpenLookup(s)
  PROVE  /\ HeldInv'
         /\ \A i \in Inumbers : Holds(s, i)' =>
              Holds(s, i) \/ \E n \in Names : Uses(s, n) /\ dir[n] = i
<1> DEFINE name == req[s].name
<1>1. name \in Names /\ dir' = dir /\ inode_table' = inode_table /\ OpenFiles' = OpenFiles
  BY SessionTypes DEF OpenLookup, fsVars
<1>2. stack'[s].iNumber = lookup(name)
  <2>1. stack[s] \in Stack /\ stack' = [stack EXCEPT ![s] =
          [stack[s] EXCEPT !.iNumber = lookup(name), !.permitido = 0]]
    BY DEF OpenLookup, SetLocals, SetStack, TypeOK
  <2>. QED
    BY <2>1 DEF TypeOK, Stack
<1>3. Uses(s, name)
  <2>1. req[s] \in Workload[s] /\ req[s].cmd = "o"
    BY DEF OpenLookup, RequestInv, OpenInv
  <2>. QED
    BY <2>1 DEF Uses, Names_of
<1>4. ASSUME NEW i \in Inumbers, Holds(s, i)'
      PROVE  Holds(s, i) \/ dir[name] = i
  BY <1>1, <1>2, <1>4 DEF Holds, OpenSlots, lookup, Inumbers
<1>5. \A t \in Sessions \ {s}, i \in Inumbers : Holds(t, i)' => Holds(t, i)
  BY StepKeepsOthers DEF OthersStay, Holds, OpenSlots, Step
<1>6. ASSUME NEW i \in Inumbers, dir[name] = i
      PROVE  InUse(inode_table, i) /\ \A n \in Names : dir[n] = i => Uses(s, n)
  BY <1>1, <1>3, <1>6 DEF DirInv, DirSound, Inumbers
<1>7. HeldInv'
  BY <1>1, <1>4, <1>5, <1>6 DEF HeldInv
<1>. QED
  BY <1>1, <1>3, <1>4, <1>7

\* No other step lets a name lead to an i-node in use, and only the last step of
\* case 'd' frees one.
LEMMA StepKeepsInUse ==
  ASSUME TypeOK, NEW s \in Sessions, Step(s),
         NEW i \in Inumbers, InUse(inode_table, i)
  PROVE  /\ ~(DeleteFree(s) /\ i = inumber[s]) => InUse(inode_table', i)
         /\ \A n \in Names : dir'[n] = i => dir[n] = i
<1>1. CASE CreateInsert(s)
  <2> DEFINE fresh == FreshInumber(inode_table)
  <2>1. /\ dir' = [dir EXCEPT ![req[s].name] = fresh]
        /\ inode_table' = inode_create(inode_table, Uid[s], req[s].ownerPerm,
                                       req[s].othersPerm)
    BY <1>1 DEF CreateInsert, Bind
  <2>2. /\ Uid[s] \in Uids /\ req[s].name \in Names
        /\ req[s].ownerPerm \in Permissions /\ req[s].othersPerm \in Permissions
        /\ inode_table \in InodeTable
        /\ dir \in [Names -> Inumbers \cup {-1, NoNode}]
    BY DEF TypeOK, Request
  <2>3. fresh # i
    BY <2>2, FreshInumberFree DEF FreeInumbers, InUse, Inumbers
  <2>. QED
    BY <2>1, <2>2, <2>3, CreateTable
<1>2. CASE DeleteRemove(s)
  BY <1>2, SessionTypes DEF DeleteRemove, TypeOK, NoNode, Inumbers
<1>3. CASE DeleteFree(s)
  BY <1>3, DeleteTable DEF DeleteFree, TypeOK
<1>4. CASE WriteSet(s)
  BY <1>4, SetTable, SessionTypes DEF WriteSet, TypeOK
<1>5. CASE dir' = dir /\ inode_table' = inode_table /\ ~DeleteFree(s)
  BY <1>5
<1>6. \/ CreateInsert(s) \/ DeleteRemove(s) \/ DeleteFree(s) \/ WriteSet(s)
      \/ dir' = dir /\ inode_table' = inode_table
  BY DEF Step, fsVars, Accept, Receive, Disconnect, CreateLookup, DeleteLookup,
         DeleteCheck, OpenLookup, OpenGet, OpenLoad, OpenStore, CloseCheck,
         CloseLoad, CloseStore, Read, WriteCheck
<1>. QED
  BY <1>1, <1>2, <1>3, <1>4, <1>5, <1>6

\* Nobody holds what is freed.
LEMMA FreedNotHeld ==
  ASSUME AloneInv, NEW s \in Sessions, pc[s] = "d_free", NEW t \in Sessions
  PROVE  ~Holds(t, inumber[s])
BY DEF AloneInv, Deleting, Holds, OpenSlots

LEMMA HeldStep ==
  ASSUME TypeOK, RequestInv, DirInv, IsoInv, NEW s \in Sessions, Step(s)
  PROVE  HeldInv'
<1>1. CASE OpenLookup(s)
  BY <1>1, OpenLookupHolds DEF IsoInv
<1>2. CASE ~OpenLookup(s)
  <2>1. \A t \in Sessions, i \in Inumbers : Holds(t, i)' => Holds(t, i)
    BY <1>2, HeldShrinks DEF IsoInv
  <2>2. ASSUME NEW t \in Sessions, NEW i \in Inumbers, Holds(t, i)
        PROVE  /\ InUse(inode_table, i) => InUse(inode_table', i)
               /\ InUse(inode_table, i) => \A n \in Names : dir'[n] = i => dir[n] = i
    BY <2>2, StepKeepsInUse, FreedNotHeld DEF IsoInv, DeleteFree
  <2>. QED
    BY <2>1, <2>2 DEF HeldInv, IsoInv
<1>. QED
  BY <1>1, <1>2

-----------------------------------------------------------------------------
\* AloneInv.

\* Where a step leaves its thread.
LEMMA StepEnds ==
  ASSUME TypeOK, NEW s \in Sessions, Step(s)
  PROVE  /\ Deleting(s)' =>
              /\ DeleteLookup(s) \/ DeleteCheck(s) \/ DeleteRemove(s)
              /\ DeleteLookup(s) \/ inumber'[s] = inumber[s]
              /\ req'[s] = req[s]
         /\ pc'[s] = "o" => Receive(s)
         /\ Counting(s)' => \/ OpenGet(s) \/ OpenLoad(s)
                            \/ CloseCheck(s) \/ CloseLoad(s)
         /\ pc'[s] = "o_store" => OpenLoad(s)
         /\ pc'[s] = "x_store" => CloseLoad(s)
<1> USE DEF Deleting, Counting
<1>1. ASSUME NEW v, Answer(s, v)
      PROVE  pc'[s] = "recv"
  BY <1>1, AnswerEnds
<1>2. CASE Accept(s) \/ Disconnect(s)
  BY <1>2 DEF Accept, Disconnect, Goto, TypeOK
<1>3. CASE Receive(s)
  <2>1. \A r \in Workload[s] : r.cmd \in Commands \cup {"none"}
    BY DEF Request
  <2>. QED
    BY <1>3, <2>1 DEF Receive, Goto, TypeOK, Commands
<1>4. CASE CreateLookup(s) \/ CreateInsert(s)
  BY <1>1, <1>4, ContinueEnds DEF CreateLookup, CreateInsert
<1>5. CASE DeleteLookup(s) \/ DeleteCheck(s) \/ DeleteRemove(s) \/ DeleteFree(s)
  BY <1>1, <1>5, ContinueEnds, LookThenGoEnds, SessionTypes
     DEF DeleteLookup, DeleteCheck, DeleteRemove, DeleteFree
<1>6. CASE OpenLookup(s) \/ OpenGet(s) \/ OpenLoad(s) \/ OpenStore(s)
  BY <1>1, <1>6, ContinueEnds, GoWithEnds
     DEF OpenLookup, OpenGet, OpenLoad, OpenStore
<1>7. CASE CloseCheck(s) \/ CloseLoad(s) \/ CloseStore(s)
  BY <1>1, <1>7, ContinueEnds DEF CloseCheck, CloseLoad, CloseStore
<1>8. CASE Read(s) \/ WriteCheck(s) \/ WriteSet(s)
  <2>1. (\E v : Answer(s, v)) \/ (\E v : GoWith(s, "w_set", v))
    BY <1>8, Zenon DEF Read, WriteCheck, WriteSet
  <2>. QED
    BY <1>1, <2>1, GoWithEnds
<1>. QED
  BY <1>2, <1>3, <1>4, <1>5, <1>6, <1>7, <1>8, Zenon DEF Step

\* Who deletes, deletes a name that others do not use.
LEMMA DeleterAlone ==
  ASSUME DeletesOwn, RequestInv, NEW u \in Sessions, pc[u] \in DeleteLabels,
         req[u].name \in Names, NEW t \in Sessions \ {u}
  PROVE  ~Uses(t, req[u].name)
<1>1. req[u] \in Workload[u] /\ req[u].cmd = "d"
  BY DEF RequestInv, DeleteLabels
<1>. QED
  BY <1>1 DEF DeletesOwn, Deletes, Private

LEMMA AloneStep ==
  ASSUME DeletesOwn, TypeOK, RequestInv, DirInv, IsoInv, NEW s \in Sessions, Step(s)
  PROVE  AloneInv'
<1> USE DEF Deleting, DeleteLabels
<1>1. \A u \in Sessions : req[u].name \in Names
  BY SessionTypes
<1>2. ASSUME NEW u \in Sessions, Deleting(u)', NEW t \in Sessions \ {u},
             Holds(t, inumber[u])'
      PROVE  FALSE
  <2>1. CASE u = s /\ DeleteLookup(s)
    <3>1. lookup(req[s].name) # -1 /\ inumber'[s] = lookup(req[s].name)
      BY <1>1, <1>2, <2>1, AnswerEnds, LookThenGoEnds DEF DeleteLookup
    <3>2. dir[req[s].name] \in Inumbers /\ inumber'[s] = dir[req[s].name]
      BY <1>1, <3>1, LookupType DEF lookup
    <3>3. Holds(t, inumber'[s])
      BY <1>2, <2>1, StepKeepsOthers DEF OthersStay, Holds, OpenSlots
    <3>4. Uses(t, req[s].name)
      BY <1>1, <3>2, <3>3 DEF IsoInv, HeldInv
    <3>. QED
      BY <1>1, <1>2, <2>1, <3>4, DeleterAlone DEF DeleteLookup
  <2>2. CASE ~(u = s /\ DeleteLookup(s))
    <3>1. Deleting(u) /\ inumber'[u] = inumber[u]
      BY <1>2, <2>2, StepEnds, StepKeepsOthers
         DEF OthersStay, DeleteCheck, DeleteRemove
    <3>2. inumber[u] \in Inumbers /\ ~Holds(t, inumber[u])
      BY <1>2, <3>1 DEF DirInv, DeleteInv, IsoInv, AloneInv, InUse
    <3>3. CASE OpenLookup(s)
      <4>1. \E n \in Names : Uses(t, n) /\ dir[n] = inumber[u]
        <5>1. t # s => Holds(t, inumber[u])
          BY <1>2, <3>1, StepKeepsOthers DEF OthersStay, Holds, OpenSlots
        <5>. QED
          BY <1>2, <3>1, <3>2, <3>3, <5>1, OpenLookupHolds DEF IsoInv
      <4>2. \E n \in Names : Uses(t, n) /\ n = req[u].name
        BY <3>1, <4>1 DEF DirInv, DeleteInv
      <4>. QED
        BY <1>1, <1>2, <3>1, <4>2, DeleterAlone
    <3>4. CASE ~OpenLookup(s)
      BY <1>2, <3>1, <3>2, <3>4, HeldShrinks DEF IsoInv
    <3>. QED
      BY <3>3, <3>4
  <2>. QED
    BY <2>1, <2>2
<1>3. ASSUME NEW u \in Sessions, pc'[u] \in {"d_delete", "d_free"}
      PROVE  OpenSlots(u)' = {}
  <2>1. CASE u = s
    <3>1. DeleteLookup(s) \/ DeleteCheck(s) \/ DeleteRemove(s)
      BY <1>3, <2>1, StepEnds
    <3>2. OpenFiles' = OpenFiles
      BY <3>1 DEF DeleteLookup, DeleteCheck, DeleteRemove
    <3>3. CASE DeleteLookup(s)
      BY <1>1, <1>3, <2>1, <3>3, AnswerEnds, LookThenGoEnds DEF DeleteLookup
    <3>4. CASE DeleteCheck(s)
      BY <1>3, <2>1, <3>2, <3>4, AnswerEnds DEF DeleteCheck, OpenSlots
    <3>5. CASE DeleteRemove(s)
      BY <2>1, <3>2, <3>5 DEF DeleteRemove, OpenSlots, IsoInv, AloneInv
    <3>. QED
      BY <3>1, <3>3, <3>4, <3>5
  <2>2. CASE u # s
    BY <1>3, <2>2, StepKeepsOthers DEF OthersStay, OpenSlots, IsoInv, AloneInv
  <2>. QED
    BY <2>1, <2>2
<1>. QED
  BY <1>2, <1>3 DEF AloneInv

-----------------------------------------------------------------------------
\* TouchInv and OpenInv.

LEMMA TouchStep ==
  ASSUME TypeOK, IsoInv, NEW s \in Sessions, Step(s)
  PROVE  TouchInv'
<1> USE DEF Counting, CountingSlot
<1>1. ASSUME NEW t \in Sessions \ {s}, Counting(t)'
      PROVE  /\ CountingSlot(t)' \in OpenSlots(t)'
             /\ OpenFiles'[t][CountingSlot(t)'].iNumber = stack'[t].iNumber
  BY <1>1, StepKeepsOthers DEF OthersStay, OpenSlots, IsoInv, TouchInv
<1>2. ASSUME Counting(s)'
      PROVE  /\ CountingSlot(s)' \in OpenSlots(s)'
             /\ OpenFiles'[s][CountingSlot(s)'].iNumber = stack'[s].iNumber
  <2>1. CASE OpenGet(s)
    <3>1. /\ OpenSlots(s) # Slots
          /\ SetLocals(s, stack[s].iNumber, 2)
          /\ OpenFiles' = [OpenFiles EXCEPT ![s][FreeSlot(s)] =
                            [estado |-> 1, iNumber |-> stack[s].iNumber,
                             mode |-> req[s].mode]]
          /\ GoWith(s, "o_load", FreeSlot(s))
      BY <1>2, <2>1, AnswerEnds DEF OpenGet
    <3>2. FreeSlot(s) \in Slots
      BY <3>1, FreeSlotType
    <3>3. OpenFiles'[s][FreeSlot(s)] =
            [estado |-> 1, iNumber |-> stack[s].iNumber, mode |-> req[s].mode]
      BY <3>1, <3>2 DEF TypeOK
    <3>4. pc'[s] = "o_load" /\ resultado'[s] = FreeSlot(s)
      BY <3>1 DEF GoWith, Goto, TypeOK
    <3>5. stack'[s].iNumber = stack[s].iNumber
      <4>1. stack[s] \in Stack /\ stack' = [stack EXCEPT ![s] =
              [stack[s] EXCEPT !.iNumber = stack[s].iNumber, !.permitido = 2]]
        BY <3>1 DEF SetLocals, SetStack, TypeOK
      <4>. QED
        BY <4>1 DEF TypeOK, Stack
    <3>. QED
      BY <3>2, <3>3, <3>4, <3>5 DEF OpenSlots
  <2>2. CASE OpenLoad(s) \/ CloseLoad(s)
    BY <2>2 DEF OpenLoad, CloseLoad, Continue, Goto, TypeOK, OpenSlots, IsoInv, TouchInv
  <2>3. CASE CloseCheck(s)
    <3> DEFINE file == OpenFiles[s][req[s].fd]
    <3>1. /\ file.estado # 0 /\ SetLocals(s, file.iNumber, stack[s].permitido)
          /\ Continue(s, "x_load") /\ OpenFiles' = OpenFiles
      BY <1>2, <2>3, AnswerEnds DEF CloseCheck
    <3>2. req[s].fd \in Slots /\ pc'[s] = "x_load" /\ req'[s] = req[s]
      BY <3>1, SessionTypes, ContinueEnds
    <3>3. stack'[s].iNumber = file.iNumber
      <4>1. stack[s] \in Stack /\ stack' = [stack EXCEPT ![s] =
              [stack[s] EXCEPT !.iNumber = file.iNumber,
                               !.permitido = stack[s].permitido]]
        BY <3>1 DEF SetLocals, SetStack, TypeOK
      <4>. QED
        BY <4>1 DEF TypeOK, Stack
    <3>. QED
      BY <3>1, <3>2, <3>3 DEF OpenSlots
  <2>. QED
    BY <1>2, <2>1, <2>2, <2>3, StepEnds
<1>. QED
  BY <1>1, <1>2 DEF TouchInv

LEMMA OpenStep ==
  ASSUME TypeOK, IsoInv, NEW s \in Sessions, Step(s)
  PROVE  OpenInv'
<1>1. ASSUME pc'[s] = "o" PROVE req'[s].cmd = "o"
  BY <1>1, StepEnds DEF Receive, Goto, TypeOK
<1>. QED
  BY <1>1, StepKeepsOthers DEF OthersStay, OpenInv, IsoInv

-----------------------------------------------------------------------------
\* The first two theorems.

Inv == TypeOK /\ RequestInv /\ DirInv /\ IsoInv

LEMMA InitIso == Init => IsoInv
BY DEF Init, IsoInv, HeldInv, AloneInv, TouchInv, OpenInv, Holds, OpenSlots, Closed,
       Deleting, Counting

LEMMA InvStep ==
  ASSUME NoRename, DeletesOwn, Inv, [Next]_vars
  PROVE  Inv'
<1>1. (TypeOK /\ RequestInv /\ DirInv)'
  BY NextType, RequestStep, DirStep, DeleterIsOne DEF Inv
<1>2. CASE UNCHANGED vars
  BY <1>1, <1>2 DEF Inv, IsoInv, HeldInv, AloneInv, TouchInv, OpenInv, Holds, OpenSlots,
       Deleting, Counting, CountingSlot, vars, fsVars, sessionVars
<1>3. ASSUME NEW s \in Sessions, Step(s)
      PROVE  IsoInv'
  BY <1>3, HeldStep, AloneStep, TouchStep, OpenStep DEF Inv, IsoInv
<1>. QED
  BY <1>1, <1>2, <1>3, StepOfNext DEF Next, Inv

LEMMA InitInv == Init => Inv
BY InitType, InitDir, InitIso DEF Inv

\* Whatever the interleaving, the i-node of a name that one client alone uses is
\* open in no session but its own.
THEOREM FilesStayPrivate ==
  ASSUME NoRename, DeletesOwn
  PROVE  Spec => []PrivateFilesStayPrivate
<1>1. Inv => PrivateFilesStayPrivate
  <2> SUFFICES ASSUME Inv, NEW s \in Sessions, NEW t \in Sessions, NEW n \in Names,
                      s # t, Private(s, n), dir[n] >= 0, SlotsOn(t, dir[n]) # {}
               PROVE  FALSE
    BY DEF PrivateFilesStayPrivate
  <2>1. dir[n] \in Inumbers
    BY DEF Inv, TypeOK, NoNode
  <2>2. Holds(t, dir[n])
    BY DEF SlotsOn, Holds, OpenSlots
  <2>3. Uses(t, n)
    BY <2>1, <2>2 DEF Inv, IsoInv, HeldInv
  <2>. QED
    BY <2>3 DEF Private
<1>2. Inv /\ [Next]_vars => Inv'
  BY InvStep
<1>. QED
  BY <1>1, <1>2, InitInv, PTL DEF Spec

\* Whatever the interleaving, no step frees an i-node that a session has open.
THEOREM OpenStaysInUse ==
  ASSUME NoRename, DeletesOwn
  PROVE  Spec => OpenFileNotFreed
<1> DEFINE Freed == \A i \in Inumbers, s \in Sessions :
                      InUse(inode_table, i) /\ SlotsOn(s, i) # {} => InUse(inode_table', i)
<1>1. ASSUME Inv, [Next]_vars PROVE [Freed]_vars
  <2>1. CASE UNCHANGED vars
    BY <2>1
  <2>2. ASSUME NEW u \in Sessions, Step(u), NEW i \in Inumbers, NEW s \in Sessions,
               InUse(inode_table, i), SlotsOn(s, i) # {}
        PROVE  InUse(inode_table', i)
    <3>1. Holds(s, i)
      BY <2>2 DEF SlotsOn, Holds, OpenSlots
    <3>2. ~(DeleteFree(u) /\ i = inumber[u])
      BY <1>1, <2>2, <3>1, FreedNotHeld DEF Inv, IsoInv, DeleteFree
    <3>3. TypeOK
      BY <1>1 DEF Inv
    <3>. QED
      BY <2>2, <3>2, <3>3, StepKeepsInUse
  <2>. QED
    BY <1>1, <2>1, <2>2, StepOfNext DEF Next, Inv
<1>2. Inv /\ [Next]_vars => Inv'
  BY InvStep
<1>. QED
  BY <1>1, <1>2, InitInv, PTL DEF Spec, OpenFileNotFreed

-----------------------------------------------------------------------------
\* CountInv.

LEMMA CountedFinite ==
  ASSUME NEW s \in Sessions, NEW i
  PROVE  /\ IsFiniteSet(CountedSlots(s, i))
         /\ Cardinality(CountedSlots(s, i)) \in Nat
<1>1. IsFiniteSet(Slots)
  BY FS_Interval DEF Slots
<1>2. CountedSlots(s, i) \subseteq Slots
  BY DEF CountedSlots, SlotsOn
<1>. QED
  BY <1>1, <1>2, FS_Subset, FS_CardinalityType

\* A step that does not finish an opening counts no more slots than before.
LEMMA CountedShrinks ==
  ASSUME TypeOK, NEW s \in Sessions, Step(s), ~OpenStore(s), NEW i
  PROVE  CountedSlots(s, i)' \subseteq CountedSlots(s, i)
<1>1. ASSUME SlotsOn(s, i)' \subseteq SlotsOn(s, i), pc[s] \notin {"o_load", "o_store"}
      PROVE  CountedSlots(s, i)' \subseteq CountedSlots(s, i)
  BY <1>1 DEF CountedSlots
<1>2. ASSUME OpenFiles' = OpenFiles
      PROVE  SlotsOn(s, i)' \subseteq SlotsOn(s, i)
  BY <1>2 DEF SlotsOn
<1>3. CASE OpenGet(s)
  <2>1. CASE OpenFiles' = OpenFiles
    BY <1>1, <1>2, <1>3, <2>1 DEF OpenGet
  <2>2. CASE /\ OpenSlots(s) # Slots
             /\ OpenFiles' = [OpenFiles EXCEPT ![s][FreeSlot(s)] =
                               [estado |-> 1, iNumber |-> stack[s].iNumber,
                                mode |-> req[s].mode]]
             /\ GoWith(s, "o_load", FreeSlot(s))
    <3>1. FreeSlot(s) \in Slots
      BY <2>2, FreeSlotType
    <3>2. \A fd \in Slots \ {FreeSlot(s)} : OpenFiles'[s][fd] = OpenFiles[s][fd]
      BY <2>2, <3>1 DEF TypeOK
    <3>3. pc'[s] = "o_load" /\ resultado'[s] = FreeSlot(s)
      BY <2>2 DEF GoWith, Goto, TypeOK
    <3>. QED
      BY <1>3, <3>2, <3>3 DEF CountedSlots, SlotsOn, OpenGet
  <2>. QED
    BY <1>3, <2>1, <2>2, Zenon DEF OpenGet
<1>4. CASE OpenLoad(s)
  BY <1>4 DEF OpenLoad, Continue, Goto, TypeOK, CountedSlots, SlotsOn
<1>5. CASE CloseStore(s)
  <2>1. \A fd \in Slots : OpenFiles'[s][fd] \in {Closed, OpenFiles[s][fd]}
    BY <1>5, SessionTypes DEF CloseStore, TypeOK
  <2>. QED
    BY <1>1, <1>5, <2>1 DEF CloseStore, SlotsOn, Closed
<1>6. CASE Disconnect(s)
  BY <1>6 DEF Disconnect, TypeOK, CountedSlots, SlotsOn, Closed
<1>7. CASE pc[s] \notin {"o_load", "o_store"} /\ OpenFiles' = OpenFiles
  BY <1>1, <1>2, <1>7
<1>8. \/ OpenGet(s) \/ OpenLoad(s) \/ CloseStore(s) \/ Disconnect(s)
      \/ pc[s] \notin {"o_load", "o_store"} /\ OpenFiles' = OpenFiles
  BY DEF Step, Accept, Receive, CreateLookup, CreateInsert, DeleteLookup,
         DeleteCheck, DeleteRemove, DeleteFree, OpenLookup, CloseCheck,
         CloseLoad, Read, WriteCheck, WriteSet
<1>. QED
  BY <1>3, <1>4, <1>5, <1>6, <1>7, <1>8

\* Only += and -= write a count, of a file the thread has open.
LEMMA CountsKept ==
  ASSUME TypeOK, TouchInv, NEW s \in Sessions, Step(s), NEW i \in Inumbers,
         ~(Storing(s) /\ Holds(s, i) /\ stack[s].iNumber = i)
  PROVE  globalFileVector'[i] = globalFileVector[i]
<1>1. CASE OpenStore(s) \/ CloseStore(s)
  <2>1. Counting(s) /\ Storing(s)
    BY <1>1 DEF OpenStore, CloseStore, Counting, Storing
  <2>2. Holds(s, stack[s].iNumber)
    BY <2>1 DEF TouchInv, Holds
  <2>. QED
    BY <1>1, <2>1, <2>2 DEF OpenStore, CloseStore, StoreCount, TypeOK
<1>2. CASE globalFileVector' = globalFileVector
  BY <1>2
<1>3. OpenStore(s) \/ CloseStore(s) \/ globalFileVector' = globalFileVector
  BY DEF Step, fsVars, Accept, Receive, Disconnect, CreateLookup, CreateInsert,
         DeleteLookup, DeleteCheck, DeleteRemove, DeleteFree, OpenLookup, OpenGet,
         OpenLoad, CloseCheck, CloseLoad, Read, WriteCheck, WriteSet
<1>. QED
  BY <1>1, <1>2, <1>3

\* The count of a free i-node, or of one being deleted, nobody writes.
LEMMA FreeCounts ==
  ASSUME Inv, CountInv, NEW s \in Sessions, Step(s),
         NEW i \in Inumbers, ~InUse(inode_table', i)
  PROVE  globalFileVector'[i] >= 0
<1>1. CASE ~InUse(inode_table, i)
  <2>1. globalFileVector'[i] = globalFileVector[i]
    BY <1>1, CountsKept DEF Inv, IsoInv, HeldInv
  <2>. QED
    BY <1>1, <2>1 DEF CountInv
<1>2. CASE InUse(inode_table, i)
  <2>1. DeleteFree(s) /\ i = inumber[s]
    BY <1>2, StepKeepsInUse DEF Inv
  <2>2. globalFileVector' = globalFileVector /\ Deleting(s)
    BY <2>1 DEF DeleteFree, Deleting
  <2>. QED
    BY <2>1, <2>2 DEF CountInv
<1>. QED
  BY <1>1, <1>2

LEMMA DeletedCounts ==
  ASSUME DeletesOwn, Inv, CountInv, NEW s \in Sessions, Step(s),
         NEW u \in Sessions, Deleting(u)'
  PROVE  globalFileVector'[inumber'[u]] >= 0
<1>1. CASE u = s /\ DeleteLookup(s)
  <2> DEFINE name == req[s].name
  <2>1. name \in Names
    BY SessionTypes DEF Inv
  <2>2. lookup(name) # -1 /\ inumber'[s] = lookup(name)
    BY <1>1, <2>1, AnswerEnds, LookThenGoEnds DEF DeleteLookup, Deleting, Inv
  <2>3. dir[name] \in Inumbers /\ inumber'[s] = dir[name]
    BY <2>1, <2>2, LookupType DEF lookup, Inv
  <2>4. Private(s, name)
    <3>1. req[s] \in Workload[s] /\ req[s].cmd = "d"
      BY <1>1 DEF Inv, RequestInv, DeleteLabels, DeleteLookup
    <3>. QED
      BY <2>1, <3>1 DEF DeletesOwn, Deletes
  <2>5. globalFileVector[dir[name]] >= Cardinality(CountedSlots(s, dir[name]))
    BY <2>1, <2>3, <2>4 DEF CountInv, Inumbers
  <2>6. globalFileVector' = globalFileVector /\ globalFileVector[dir[name]] \in Int
    BY <1>1, <2>3 DEF DeleteLookup, fsVars, Inv, TypeOK
  <2>. QED
    BY <1>1, <2>3, <2>5, <2>6, CountedFinite
<1>2. CASE ~(u = s /\ DeleteLookup(s))
  <2>1. Deleting(u) /\ inumber'[u] = inumber[u]
    BY <1>2, StepEnds, StepKeepsOthers
       DEF OthersStay, DeleteCheck, DeleteRemove, Deleting, Inv
  <2>2. inumber[u] \in Inumbers /\ (s # u => ~Holds(s, inumber[u]))
    BY <2>1 DEF Inv, DirInv, DeleteInv, InUse, IsoInv, AloneInv
  <2>3. ~(Storing(s) /\ Holds(s, inumber[u]))
    BY <2>1, <2>2 DEF Storing, Deleting
  <2>4. globalFileVector'[inumber[u]] = globalFileVector[inumber[u]]
    BY <2>2, <2>3, CountsKept DEF Inv, IsoInv
  <2>. QED
    BY <2>1, <2>4 DEF CountInv
<1>. QED
  BY <1>1, <1>2

\* What CountInv says of a name of one client.
Covered(s, i) ==
  /\ globalFileVector[i] >= Cardinality(CountedSlots(s, i))
  /\ Storing(s) /\ stack[s].iNumber = i => count[s] = globalFileVector[i]

\* The count of a name just created: nobody has its i-node open.
LEMMA CreatedCounts ==
  ASSUME Inv, CountInv, NEW s \in Sessions, CreateInsert(s), Inv', NEW p \in Sessions,
         NEW i \in Inumbers, dir'[req[s].name] = i
  PROVE  Covered(p, i)'
<1>1. i = FreshInumber(inode_table)
  BY SessionTypes DEF CreateInsert, Bind, Inv, TypeOK
<1>2. ~InUse(inode_table, i)
  BY <1>1, FreshInumberFree DEF FreeInumbers, InUse, Inumbers, Inv, TypeOK
<1>3. globalFileVector'[i] >= 0
  BY <1>2 DEF CreateInsert, CountInv
<1>4. ~Holds(p, i)'
  <2>1. Step(s) /\ ~OpenLookup(s)
    BY DEF Step, CreateInsert, OpenLookup
  <2>2. Holds(p, i)' => Holds(p, i)
    BY <2>1, HeldShrinks DEF Inv, IsoInv
  <2>. QED
    BY <1>2, <2>2 DEF Inv, IsoInv, HeldInv
<1>5. Cardinality(CountedSlots(p, i)') = 0
  <2>1. CountedSlots(p, i)' = {}
    BY <1>4 DEF CountedSlots, SlotsOn, Holds, OpenSlots
  <2>. QED
    BY <2>1, FS_EmptySet
<1>6. ~(Storing(p)' /\ stack'[p].iNumber = i)
  BY <1>4 DEF Inv, IsoInv, TouchInv, Holds, Counting, Storing
<1>. QED
  BY <1>3, <1>5, <1>6 DEF Covered

\* The end of an opening counts one slot more, and one opening more.
LEMMA OpenedCounts ==
  ASSUME Inv, NEW s \in Sessions, OpenStore(s), NEW i \in Inumbers, Covered(s, i)
  PROVE  Covered(s, i)'
<1>1. pc'[s] = "recv" /\ OpenFiles' = OpenFiles /\ Step(s)
  BY AnswerEnds DEF OpenStore, Inv, Step
<1>2. CountedSlots(s, i)' = SlotsOn(s, i)
  BY <1>1 DEF CountedSlots, SlotsOn
<1>3. CountedSlots(s, i) = SlotsOn(s, i) \ {resultado[s]}
  BY DEF CountedSlots, OpenStore
<1>4. /\ resultado[s] \in OpenSlots(s)
      /\ OpenFiles[s][resultado[s]].iNumber = stack[s].iNumber
  BY DEF OpenStore, Inv, IsoInv, TouchInv, Counting, CountingSlot
<1>5. globalFileVector[i] \in Int
  BY DEF Inv, TypeOK
<1>6. CASE stack[s].iNumber = i
  <2>1. globalFileVector'[i] = globalFileVector[i] + 1
    BY <1>6 DEF OpenStore, StoreCount, Covered, Storing, Inv, TypeOK
  <2>2. Cardinality(CountedSlots(s, i)') = Cardinality(CountedSlots(s, i)) + 1
    <3>1. resultado[s] \in SlotsOn(s, i)
      BY <1>4, <1>6 DEF SlotsOn, OpenSlots
    <3>2. /\ CountedSlots(s, i)' = CountedSlots(s, i) \cup {resultado[s]}
          /\ resultado[s] \notin CountedSlots(s, i)
      BY <1>2, <1>3, <3>1
    <3>. QED
      BY <3>2, CountedFinite, FS_AddElement
  <2>3. globalFileVector'[i] >= Cardinality(CountedSlots(s, i)')
    BY <1>5, <2>1, <2>2, CountedFinite DEF Covered
  <2>. QED
    BY <1>1, <2>3 DEF Covered, Storing
<1>7. CASE stack[s].iNumber # i
  <2>1. globalFileVector'[i] = globalFileVector[i]
    BY <1>1, <1>7, CountsKept DEF Inv, IsoInv
  <2>2. CountedSlots(s, i)' = CountedSlots(s, i)
    BY <1>2, <1>3, <1>4, <1>7 DEF SlotsOn
  <2>. QED
    BY <1>1, <2>1, <2>2 DEF Covered, Storing
<1>. QED
  BY <1>6, <1>7

\* A closing counts one slot less, and one opening less.
LEMMA ClosedCounts ==
  ASSUME Inv, NEW s \in Sessions, CloseStore(s), NEW i \in Inumbers, Covered(s, i)
  PROVE  Covered(s, i)'
<1>1. pc'[s] = "recv" /\ Step(s)
  BY AnswerEnds DEF CloseStore, Inv, Step
<1>2. CountedSlots(s, i) = SlotsOn(s, i)
  BY DEF CountedSlots, CloseStore
<1>3. /\ req[s].fd \in OpenSlots(s) /\ req[s].fd \in Slots
      /\ OpenFiles[s][req[s].fd].iNumber = stack[s].iNumber
  BY SessionTypes DEF CloseStore, Inv, IsoInv, TouchInv, Counting, CountingSlot
<1>4. \A fd \in Slots : OpenFiles'[s][fd] = IF fd = req[s].fd THEN Closed
                                                             ELSE OpenFiles[s][fd]
  BY <1>3 DEF CloseStore, Inv, TypeOK
<1>5. CountedSlots(s, i)' = CountedSlots(s, i) \ {req[s].fd}
  BY <1>1, <1>2, <1>4 DEF CountedSlots, SlotsOn, Closed
<1>6. globalFileVector[i] \in Int
  BY DEF Inv, TypeOK
<1>7. CASE stack[s].iNumber = i
  <2>1. globalFileVector'[i] = globalFileVector[i] - 1
    BY <1>7 DEF CloseStore, StoreCount, Covered, Storing, Inv, TypeOK
  <2>2. Cardinality(CountedSlots(s, i)') = Cardinality(CountedSlots(s, i)) - 1
    <3>1. req[s].fd \in CountedSlots(s, i)
      BY <1>2, <1>3, <1>7 DEF SlotsOn, OpenSlots
    <3>2. Cardinality(CountedSlots(s, i) \ {req[s].fd}) = Cardinality(CountedSlots(s, i)) - 1
      <4> DEFINE S == CountedSlots(s, i)
                 x == req[s].fd
      <4>1. IsFiniteSet(S) /\ x \in S
        BY <3>1, CountedFinite
      <4> HIDE DEF S, x
      <4>2. Cardinality(S \ {x}) = IF x \in S THEN Cardinality(S) - 1 ELSE Cardinality(S)
        BY <4>1, FS_RemoveElement, Zenon
      <4>3. Cardinality(S \ {x}) = Cardinality(S) - 1
        BY <4>1, <4>2
      <4>. QED
        BY <4>3 DEF S, x
    <3>. QED
      BY <1>5, <3>2
  <2>3. globalFileVector'[i] >= Cardinality(CountedSlots(s, i)')
    BY <1>6, <2>1, <2>2, CountedFinite DEF Covered
  <2>. QED
    BY <1>1, <2>3 DEF Covered, Storing
<1>8. CASE stack[s].iNumber # i
  <2>1. globalFileVector'[i] = globalFileVector[i]
    BY <1>1, <1>8, CountsKept DEF Inv, IsoInv
  <2>2. CountedSlots(s, i)' = CountedSlots(s, i)
    BY <1>2, <1>3, <1>5, <1>8 DEF SlotsOn
  <2>. QED
    BY <1>1, <2>1, <2>2 DEF Covered, Storing
<1>. QED
  BY <1>7, <1>8

\* The thread's other steps, and the steps of other threads.
LEMMA OwnStepCounts ==
  ASSUME Inv, NEW s \in Sessions, Step(s), NEW i \in Inumbers, Covered(s, i)
  PROVE  Covered(s, i)'
<1>1. CASE OpenStore(s) \/ CloseStore(s)
  BY <1>1, OpenedCounts, ClosedCounts
<1>2. CASE ~OpenStore(s) /\ ~CloseStore(s)
  <2>1. globalFileVector' = globalFileVector /\ globalFileVector[i] \in Int
    BY <1>2 DEF Step, fsVars, Accept, Receive, Disconnect, CreateLookup, CreateInsert,
         DeleteLookup, DeleteCheck, DeleteRemove, DeleteFree, OpenLookup, OpenGet,
         OpenLoad, CloseCheck, CloseLoad, Read, WriteCheck, WriteSet, Inv, TypeOK
  <2>2. globalFileVector'[i] >= Cardinality(CountedSlots(s, i)')
    <3>1. CountedSlots(s, i)' \subseteq CountedSlots(s, i)
      BY <1>2, CountedShrinks DEF Inv
    <3>2. /\ Cardinality(CountedSlots(s, i)') <= Cardinality(CountedSlots(s, i))
          /\ Cardinality(CountedSlots(s, i)') \in Nat
      BY <3>1, CountedFinite, FS_Subset, FS_CardinalityType
    <3>. QED
      BY <2>1, <3>2, CountedFinite DEF Covered
  <2>3. Storing(s)' /\ stack'[s].iNumber = i => count'[s] = globalFileVector'[i]
    <3>1. Storing(s)' => OpenLoad(s) \/ CloseLoad(s)
      BY StepEnds DEF Storing, Inv
    <3>2. ASSUME OpenLoad(s) \/ CloseLoad(s)
          PROVE  stack' = stack /\ count'[s] = globalFileVector[stack[s].iNumber]
      BY <3>2 DEF OpenLoad, CloseLoad, LoadCount, Inv, TypeOK
    <3>. QED
      BY <2>1, <3>1, <3>2
  <2>. QED
    BY <2>2, <2>3 DEF Covered
<1>. QED
  BY <1>1, <1>2

LEMMA OthersStepCounts ==
  ASSUME Inv, NEW s \in Sessions, Step(s), NEW p \in Sessions \ {s},
         NEW i \in Inumbers, ~Holds(s, i), Covered(p, i)
  PROVE  Covered(p, i)'
<1>1. OthersStay(s)
  BY StepKeepsOthers DEF Inv
<1>2. globalFileVector'[i] = globalFileVector[i]
  BY CountsKept DEF Inv, IsoInv
<1>3. CountedSlots(p, i)' = CountedSlots(p, i)
  BY <1>1 DEF OthersStay, CountedSlots, SlotsOn
<1>4. Storing(p)' = Storing(p) /\ stack'[p] = stack[p] /\ count'[p] = count[p]
  BY <1>1 DEF OthersStay, Storing
<1>. QED
  BY <1>2, <1>3, <1>4 DEF Covered

LEMMA CountStep ==
  ASSUME NoRename, DeletesOwn, Inv, CountInv, [Next]_vars, Inv'
  PROVE  CountInv'
<1>1. CASE UNCHANGED vars
  BY <1>1 DEF CountInv, Deleting, Storing, CountedSlots, SlotsOn, vars, fsVars, sessionVars
<1>2. ASSUME NEW s \in Sessions, Step(s)
      PROVE  CountInv'
  <2>1. ASSUME NEW p \in Sessions, NEW n \in Names, Private(p, n), dir'[n] >= 0,
               NEW i \in Inumbers, i = dir'[n]
        PROVE  Covered(p, i)'
    <3>1. CASE dir[n] = i
      <4>1. Covered(p, i)
        BY <2>1, <3>1 DEF CountInv, Covered
      <4>2. ~Uses(s, n) => ~Holds(s, i)
        BY <3>1 DEF Inv, IsoInv, HeldInv
      <4>. QED
        BY <1>2, <2>1, <4>1, <4>2, OwnStepCounts, OthersStepCounts DEF Private
    <3>2. CASE dir[n] # i
      <4>1. CreateInsert(s) /\ n = req[s].name
        <5>1. dir' # dir /\ dir'[n] # NoNode
          BY <2>1, <3>2 DEF NoNode, Inumbers
        <5>2. CreateInsert(s) \/ DeleteRemove(s)
          BY <1>2, <5>1 DEF Step, fsVars, Accept, Receive, Disconnect, CreateLookup,
               DeleteLookup, DeleteCheck, DeleteFree, OpenLookup, OpenGet, OpenLoad,
               OpenStore, CloseCheck, CloseLoad, CloseStore, Read, WriteCheck, WriteSet
        <5>3. CASE DeleteRemove(s)
          BY <2>1, <3>2, <5>1, <5>3, SessionTypes DEF DeleteRemove, Inv, TypeOK
        <5>4. CASE CreateInsert(s)
          BY <2>1, <3>2, <5>4, SessionTypes DEF CreateInsert, Bind, Inv, TypeOK
        <5>. QED
          BY <5>2, <5>3, <5>4
      <4>. QED
        BY <2>1, <4>1, CreatedCounts
    <3>. QED
      BY <3>1, <3>2
  <2>2. ASSUME NEW p \in Sessions, NEW n \in Names, Private(p, n), dir'[n] >= 0
        PROVE  /\ globalFileVector'[dir'[n]] >= Cardinality(CountedSlots(p, dir[n])')
               /\ Storing(p)' /\ stack'[p].iNumber = dir'[n]
                    => count'[p] = globalFileVector'[dir'[n]]
    <3>1. PICK i \in Inumbers : i = dir'[n]
      <4>1. dir'[n] \in Inumbers \cup {-1, NoNode}
        BY DEF Inv, TypeOK
      <4>2. dir'[n] \in Inumbers
        BY <2>2, <4>1 DEF NoNode
      <4>. QED
        BY <4>2
    <3>2. Covered(p, i)'
      BY <2>1, <2>2, <3>1
    <3>3. CountedSlots(p, dir[n])' = CountedSlots(p, i)'
      BY <3>1 DEF CountedSlots, SlotsOn
    <3>. QED
      BY <3>1, <3>2, <3>3 DEF Covered
  <2>3. \A i \in Inumbers : ~InUse(inode_table', i) => globalFileVector'[i] >= 0
    BY <1>2, FreeCounts
  <2>4. \A u \in Sessions : Deleting(u)' => globalFileVector'[inumber'[u]] >= 0
    BY <1>2, DeletedCounts
  <2>. QED
    BY <2>2, <2>3, <2>4 DEF CountInv
<1>. QED
  BY <1>1, <1>2, StepOfNext DEF Next, Inv

LEMMA InitCount == Init => CountInv
BY DEF Init, CountInv, Deleting, NoNode, Inumbers

\* Whatever the interleaving of the unlocked += and -=, the i-node of a name that
\* one client alone uses is counted open at least as often as it has it open.
THEOREM CountIsEnough ==
  ASSUME NoRename, DeletesOwn
  PROVE  Spec => []CountCovers
<1>1. Inv /\ CountInv /\ [Next]_vars => (Inv /\ CountInv)'
  BY InvStep, CountStep
<1>2. CountInv => CountCovers
  BY DEF CountInv, CountCovers
<1>. QED
  BY <1>1, <1>2, InitInv, InitCount, PTL DEF Spec
=============================================================================
