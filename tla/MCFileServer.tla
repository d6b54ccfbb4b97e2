---------------------------- MODULE MCFileServer ----------------------------
(***************************************************************************)
(* Instances of FileServer for TLC: what the users ask for.                *)
(***************************************************************************)
EXTENDS FileServer, TLC

CONSTANTS u1, u2, f

Ask(u, op, tid, file) == [user |-> u, op |-> op, tid |-> tid, file |-> file]

\* Every operation, and every way a TID may be found.
SomeRequests ==
  {Ask(u1, "UPL", "OK", f), Ask(u1, "REM", "OK", NoFile), Ask(u1, "LST", "E", NoFile),
   Ask(u2, "RTV", "OK", f), Ask(u2, "DEL", "OK", f), Ask(u2, "LST", "none", NoFile),
   Ask(u2, "BAD", "OK", NoFile)}

\* One user has a file, the other has never stored any.
OneFile == (u1 :> NoDir) @@ (u2 :> {f})
=============================================================================
