---------------------------- MODULE LibraryFiles ----------------------------
(***************************************************************************)
(* What becomes of a library on disk (LibraryManager.save, saveAs, load,   *)
(* importFile; DoSave, DoOpen; App.main), when saves and opens may fail    *)
(* and the program may be stopped at any moment.  A library is a number    *)
(* here: each change, whatever it is, makes a new one.  Module Library     *)
(* says what the changes are.                                              *)
(***************************************************************************)
EXTENDS Integers

CONSTANTS
  Files,      \* file names
  NoFile,     \* null: the program has no file name
  Absent,     \* there is no such file
  Unreadable, \* a file that is no library, or only the beginning of one
  MaxChanges  \* bound: libraries made

LibraryFilesAssumption ==
  /\ NoFile \notin Files
  /\ Absent \notin Nat /\ Unreadable \notin Nat
  /\ MaxChanges \in Nat

Libraries == 0 .. MaxChanges    \* 0 is the empty one

VARIABLES
  library, change, filename,    \* of the running program
  pc,       \* "down"; "menu"; "ask" and "write": in a save, before and after it opens the file
  disk,     \* file -> what it holds
  newest,   \* the last library made
  home,     \* the file the library was last read from or given for saving
  misled,   \* has an open failed since then?
  unflagged \* a library made from one with nothing to save, and change left at 0

programVars == <<library, change, filename, pc>>
historyVars == <<newest, home, misled, unflagged>>
vars == <<programVars, disk, historyVars>>

TypeOK ==
  /\ library \in Libraries /\ newest \in Libraries
  /\ change \in {0, 1}
  /\ {filename, home} \subseteq Files \cup {NoFile}
  /\ pc \in {"down", "menu", "ask", "write"}
  /\ disk \in [Files -> Libraries \cup {Absent, Unreadable}]
  /\ {misled, unflagged} \subseteq BOOLEAN
  /\ pc \in {"ask", "write"} => change = 1

Init ==
  /\ library = 0 /\ newest = 0
  /\ change = 1
  /\ filename = NoFile /\ home = NoFile
  /\ pc = "down"
  /\ disk \in [Files -> {Absent, Unreadable}]
  /\ misled = FALSE /\ unflagged = FALSE

-----------------------------------------------------------------------------
Change == newest < MaxChanges /\ newest' = newest + 1 /\ library' = newest + 1

\* App.main.  The import file may be missing, or end the program at a bad line,
\* which leaves it down; what it holds is added with change at 1 already.
Start ==
  /\ pc = "down" /\ pc' = "menu"
  /\ Change \/ (library' = 0 /\ UNCHANGED newest)
  /\ change' = 1
  /\ filename' = NoFile /\ home' = NoFile
  /\ misled' = FALSE /\ unflagged' = FALSE
  /\ UNCHANGED disk

\* A command that changes the library; requestsNotification does not say so.
Command(flags) ==
  /\ pc = "menu"
  /\ Change
  /\ change' = IF flags THEN 1 ELSE change
  /\ unflagged' = ((change = 0 /\ ~flags) \/ (unflagged /\ ~flags))
  /\ UNCHANGED <<filename, pc, disk, home, misled>>

\* FileOutputStream empties the file, or fails and leaves it.
Open(f) ==
  \/ /\ pc' = "write"
     /\ disk' = [disk EXCEPT ![f] = Unreadable]
  \/ /\ pc' = "menu"
     /\ UNCHANGED disk

\* With change at 0 a save does nothing.
Save ==
  /\ pc = "menu" /\ change = 1
  /\ \/ filename = NoFile /\ pc' = "ask" /\ UNCHANGED disk
     \/ filename # NoFile /\ Open(filename)
  /\ UNCHANGED <<library, change, filename, historyVars>>

\* DoSave asks for a name only if there was none.
SaveAs(f) ==
  /\ pc = "ask"
  /\ filename' = f /\ home' = f /\ misled' = FALSE
  /\ Open(f)
  /\ UNCHANGED <<library, change, newest, unflagged>>

\* Mutation: setChange(0) in a finally.
WriteFinally ==
  /\ pc = "write" /\ pc' = "menu"
  /\ \/ disk' = [disk EXCEPT ![filename] = library]
     \/ UNCHANGED disk
  /\ change' = 0
  /\ UNCHANGED <<library, filename, historyVars>>

\* writeObject and close; an IOException is printed, and change stays at 1.
Write ==
  /\ pc = "write" /\ pc' = "menu"
  /\ \/ disk' = [disk EXCEPT ![filename] = library] /\ change' = 0
     \/ UNCHANGED <<disk, change>>
  /\ UNCHANGED <<library, filename, historyVars>>

\* Mutation: the library read keeps the file name of the one it replaces.
LoadKeepingName(f) ==
  /\ pc = "menu" /\ disk[f] \in Libraries
  /\ library' = disk[f] /\ change' = 0
  /\ home' = f /\ misled' = FALSE /\ unflagged' = FALSE
  /\ UNCHANGED <<filename, pc, disk, newest>>

\* The name is taken before the file is opened, and kept if that fails.  A
\* success replaces the library, saved or not.  A file that is not there, cannot
\* be read or closed, or holds no library is one failure here.
Load(f) ==
  /\ pc = "menu"
  /\ filename' = f
  /\ \/ /\ disk[f] \in Libraries
        /\ library' = disk[f] /\ change' = 0
        /\ home' = f /\ misled' = FALSE /\ unflagged' = FALSE
     \/ /\ misled' = TRUE
        /\ UNCHANGED <<library, change, home, unflagged>>
  /\ UNCHANGED <<pc, disk, newest>>

\* The end of the program: nothing is saved and nothing asked.  It may come
\* between the opening of a file and the end of its writing.
Stop ==
  /\ pc # "down" /\ pc' = "down"
  /\ UNCHANGED <<library, change, filename, disk, historyVars>>

Next ==
  \/ Start \/ Stop
  \/ \E flags \in BOOLEAN : Command(flags)
  \/ Save \/ Write
  \/ \E f \in Files : SaveAs(f) \/ Load(f)

Spec == Init /\ [][Next]_vars

-----------------------------------------------------------------------------
\* Properties.

Stored == \E f \in Files : disk[f] = library

\* With the flag at 0 some file holds the library as it is, so that a save has
\* nothing to do: after saves that failed half-way, opens that failed and
\* stops.  It need not be the file whose name the program has, which may be
\* that of a failed open.  The exception is the change that is not flagged.
NothingToSave == pc # "down" /\ change = 0 => Stored \/ unflagged

\* A save writes to the file the library came from, or that was named for
\* it, and to no other; but after an open that failed it overwrites the file
\* that could not be opened.
SavesAtHome ==
  [][\A f \in Files : disk'[f] # disk[f] /\ ~misled' => f = home']_vars
=============================================================================
