------------------------------- MODULE Inodes -------------------------------
(***************************************************************************)
(* The i-node table of TecnicoFS (server/lib/inodes.c) as operators on a   *)
(* table value.  Every function of inodes.c runs under inode_table_lock    *)
(* from its first test to its last assignment, so each is one atomic step  *)
(* of whoever calls it; the modules that extend this one apply these       *)
(* operators to their table variable.                                      *)
(***************************************************************************)
EXTENDS Integers

CONSTANTS
  InodeTableSize,   \* INODE_TABLE_SIZE
  Uids,             \* user ids
  Contents,         \* what a client can write into a file
  FREE_INODE,       \* owner of a table entry that is not in use
  NoContent         \* the NULL fileContent

ASSUME InodeAssumption ==
  /\ InodeTableSize \in Nat \ {0}
  /\ FREE_INODE \notin Uids
  /\ NoContent \notin Contents

\* enum permission of tecnicofs-api-constants.h
NONE  == 0
WRITE == 1
READ  == 2
RW    == 3
Permissions == NONE .. RW

Inumbers == 0 .. InodeTableSize - 1

Attributes == [owner : Uids, ownerPerm : Permissions, othersPerm : Permissions]

Inode == [owner : Uids \cup {FREE_INODE}, ownerPerm : Permissions,
          othersPerm : Permissions, content : Contents \cup {NoContent}]

InodeTable == [Inumbers -> Inode]

inode_table_init ==
  [i \in Inumbers |-> [owner |-> FREE_INODE, ownerPerm |-> NONE,
                       othersPerm |-> NONE, content |-> NoContent]]

InUse(table, i) == i \in Inumbers /\ table[i].owner # FREE_INODE

FreeInumbers(table) == {i \in Inumbers : table[i].owner = FREE_INODE}

\* Mutation: the entry is taken without a look at whether it is free.
FirstInumber(table) == 0

\* The inumber inode_create returns: the first free entry, or -1 if none is.
FreshInumber(table) ==
  IF FreeInumbers(table) = {} THEN -1
  ELSE CHOOSE i \in FreeInumbers(table) :
         \A j \in FreeInumbers(table) : i <= j

inode_create(table, uid, ownerPerm, othersPerm) ==
  [i \in Inumbers |->
     IF i = FreshInumber(table)
     THEN [owner |-> uid, ownerPerm |-> ownerPerm,
           othersPerm |-> othersPerm, content |-> NoContent]
     ELSE table[i]]

\* A freed entry keeps its permissions and a dangling content pointer, which
\* inode_create overwrites before anyone reads them: they are normalised here.
inode_delete(table, i) ==
  IF InUse(table, i) THEN [table EXCEPT ![i] = inode_table_init[i]] ELSE table

inode_set(table, i, content) ==
  IF InUse(table, i) THEN [table EXCEPT ![i].content = content] ELSE table

\* What the caller of inode_get finds in *owner, *ownerPerm, *othersPerm.  On
\* an invalid inumber they stay as malloc left them: any value at all.
inode_get(table, i) ==
  IF InUse(table, i)
  THEN {[owner |-> table[i].owner, ownerPerm |-> table[i].ownerPerm,
         othersPerm |-> table[i].othersPerm]}
  ELSE Attributes
=============================================================================
