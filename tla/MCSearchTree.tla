---------------------------- MODULE MCSearchTree ----------------------------
(***************************************************************************)
(* An instance of SearchTree for TLC: which calls are made at once, and    *)
(* which histories one thread makes alone.                                 *)
(***************************************************************************)
EXTENDS SearchTree

CONSTANTS t1, t2

On(names, inumbers) == {c \in Call : c.name \in names /\ c.inumber \in inumbers}

\* Two threads, all calls on three names.
AtOnce == [threads |-> {t1, t2}, offered |-> On(1 .. 3, {-1, 0}), calls |-> 4]

\* One thread, all trees of four names and what removals make of them.
Alone == [threads |-> {t1}, calls |-> 7,
          offered |-> {c \in On(1 .. 4, {-1}) : c.op # "lookup"}]

BothBounds == {AtOnce, Alone}
=============================================================================
