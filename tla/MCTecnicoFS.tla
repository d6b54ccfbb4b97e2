---------------------------- MODULE MCTecnicoFS ----------------------------
(***************************************************************************)
(* Instances of TecnicoFS for TLC: the clients' workloads.                 *)
(***************************************************************************)
EXTENDS TecnicoFS, TLC

CONSTANTS s1, s2, u1, u2, a, b, shared, data

Ask(cmd, n) == [NoRequest EXCEPT !.cmd = cmd, !.name = n]
Create(n, ownerPerm, othersPerm) ==
  [Ask("c", n) EXCEPT !.ownerPerm = ownerPerm, !.othersPerm = othersPerm]
Delete(n)    == Ask("d", n)
Rename(m, n) == [Ask("r", m) EXCEPT !.rename = n]
Open(n, mode) == [Ask("o", n) EXCEPT !.mode = mode]
OnFd(cmd)    == {[Ask(cmd, AnyName) EXCEPT !.fd = fd] : fd \in Slots}

OneUserEach == (s1 :> u1) @@ (s2 :> u2)

\* Two clients.  Each has a name of its own, which it alone uses and deletes,
\* and both create the name they share, which one opens.
Own(n) == {Create(n, RW, READ), Delete(n), Open(n, RW)} \cup OnFd("x")

TwoClients ==
  (s1 :> (Own(a) \cup {Create(shared, RW, READ), Open(shared, READ)}))
  @@ (s2 :> (Own(b) \cup {Create(shared, RW, READ)}))

\* Two clients that open and delete one name.
Racing == (s1 :> (Own(a) \ {Create(a, RW, READ)})) @@ (s2 :> Own(a))

\* A fresh thread stack is zeroes, or what thread start-up left on it.
ZeroStack == {[iNumber |-> 0, permitido |-> 0, ownerPerm |-> 0, othersPerm |-> 0]}

\* One client with every command.
EveryCommand ==
  s1 :> ({Create(n, RW, READ) : n \in Names} \cup {Delete(n) : n \in Names}
         \cup {Rename(m, n) : m, n \in Names} \cup {Open(n, RW) : n \in Names}
         \cup OnFd("x") \cup OnFd("l") \cup OnFd("w"))

OneUser == s1 :> u1
=============================================================================
