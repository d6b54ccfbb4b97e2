-------------------------- MODULE MCAuthentication --------------------------
(***************************************************************************)
(* An instance of Authentication for TLC: what may happen in a behaviour.  *)
(***************************************************************************)
EXTENDS Authentication

\* Two sessions of a user at once log in, ask and validate, undisturbed.
TwoAtWork == [sessions |-> 2, ended |-> 0, sent |-> 5, lost |-> 0, lines |-> FALSE]

\* One asks three times, and lines are typed at the device meanwhile.
LinesTyped == [sessions |-> 1, ended |-> 0, sent |-> 4, lost |-> 0, lines |-> TRUE]

\* A session ends; a datagram is lost.
Trouble == [sessions |-> 2, ended |-> 1, sent |-> 2, lost |-> 1, lines |-> TRUE]

\* A third comes to a full table.
Crowd == [sessions |-> 3, ended |-> 1, sent |-> 1, lost |-> 1, lines |-> FALSE]

AllBounds == {TwoAtWork, LinesTyped, Trouble, Crowd}
=============================================================================
