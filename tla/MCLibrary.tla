----------------------------- MODULE MCLibrary -----------------------------
(***************************************************************************)
(* For TLC: what the commands do to a library (Library), here with a work  *)
(* of one copy, one of two copies and one that is not lent, and what       *)
(* becomes of a library on disk (LibraryFiles).  To the second a library   *)
(* is one value and to the first there are no files, so they share no      *)
(* state: of the two one is run.                                           *)
(***************************************************************************)
EXTENDS Library, TLC

CONSTANTS Files, NoFile, Absent, Unreadable, MaxChanges

VARIABLES
  library, flag, filename, pc, disk, newest, home, misled, unflagged,
  part    \* "files" or "commands": which is run

Disk == INSTANCE LibraryFiles WITH change <- flag

fileVars == <<library, flag, filename, pc, disk, newest, home, misled, unflagged>>

ASSUME FilesAssumption == Disk!LibraryFilesAssumption

MCInit ==
  /\ part \in {"files", "commands"} /\ Init /\ Disk!Init
  /\ part = "commands" => disk = [file \in Files |-> Absent]

MCNext ==
  \/ part = "files" /\ Disk!Next /\ UNCHANGED <<part, vars>>
  \/ part = "commands" /\ Next /\ UNCHANGED <<part, fileVars>>

MCSpec == MCInit /\ [][MCNext]_<<part, vars, fileVars>>

NothingToSave == Disk!NothingToSave
SavesAtHome   == Disk!SavesAtHome

CONSTANTS u1, u2, w1, w2, w3

Copies == (w1 :> 1) @@ (w2 :> 2) @@ (w3 :> 1)

Interchangeable == Permutations({u1, u2})
=============================================================================
