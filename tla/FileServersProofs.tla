------------------------- MODULE FileServersProofs --------------------------
(***************************************************************************)
(* Theorems about the two file servers.  Of FileServer, for every number   *)
(* of connections, users and slots, and for everything the users may ask;  *)
(* of SearchTree, the directory of TecnicoFS, for all threads, names,      *)
(* inumbers and calls: its tree stays a search tree under the lock, and is *)
(* the map that module Directory says.                                     *)
(***************************************************************************)
EXTENDS FileServer, SearchTree, FiniteSetTheorems, WellFoundedInduction, TLAPS

USE FileServerAssumption

-----------------------------------------------------------------------------
\* Lemmas about the operators.

LEMMA AppendRange ==
  ASSUME NEW S, NEW s \in Seq(S), NEW x \in S
  PROVE  /\ Append(s, x) \in Seq(S) /\ Len(Append(s, x)) = Len(s) + 1
         /\ Range(Append(s, x)) = Range(s) \cup {x}
         /\ IsInjective(s) /\ x \notin Range(s) => IsInjective(Append(s, x))
<1>1. /\ Append(s, x) \in Seq(S) /\ Len(Append(s, x)) = Len(s) + 1
      /\ \A i \in 1 .. Len(s) : Append(s, x)[i] = s[i]
      /\ Append(s, x)[Len(s) + 1] = x
  OBVIOUS
<1>2. /\ DOMAIN s = 1 .. Len(s)
      /\ DOMAIN Append(s, x) = 1 .. Len(s) + 1
      /\ 1 .. Len(s) + 1 = (1 .. Len(s)) \cup {Len(s) + 1}
      /\ Len(s) + 1 \notin 1 .. Len(s)
  BY <1>1
<1>3. Range(Append(s, x)) = Range(s) \cup {x}
  BY <1>1, <1>2 DEF Range
<1>4. IsInjective(s) /\ x \notin Range(s) => IsInjective(Append(s, x))
  BY <1>1, <1>2 DEF Range, IsInjective
<1>. QED
  BY <1>1, <1>3, <1>4

LEMMA TailRange ==
  ASSUME NEW S, NEW s \in Seq(S), s # <<>>
  PROVE  /\ Tail(s) \in Seq(S) /\ Len(Tail(s)) = Len(s) - 1
         /\ Head(s) \in S /\ Head(s) \in Range(s)
         /\ Range(s) = Range(Tail(s)) \cup {Head(s)}
         /\ IsInjective(s) => IsInjective(Tail(s)) /\ Head(s) \notin Range(Tail(s))
<1>1. /\ Tail(s) \in Seq(S) /\ Len(Tail(s)) = Len(s) - 1 /\ Len(s) \in Nat \ {0}
      /\ Head(s) = s[1] /\ Head(s) \in S
      /\ \A i \in 1 .. Len(s) - 1 : Tail(s)[i] = s[i + 1]
  OBVIOUS
<1>2. DOMAIN s = 1 .. Len(s) /\ DOMAIN Tail(s) = 1 .. Len(s) - 1 /\ 1 \in DOMAIN s
  BY <1>1
<1>3. \A i \in 1 .. Len(s) - 1 : i + 1 \in 1 .. Len(s) /\ i + 1 # 1
  BY <1>1
<1>4. \A j \in 1 .. Len(s) : j = 1 \/ (j - 1 \in 1 .. Len(s) - 1 /\ s[j] = Tail(s)[j - 1])
  BY <1>1
<1>5. Range(s) = Range(Tail(s)) \cup {Head(s)}
  <2>1. ASSUME NEW y \in Range(s) PROVE y \in Range(Tail(s)) \cup {Head(s)}
    <3>1. PICK j \in 1 .. Len(s) : s[j] = y
      BY <1>2, <2>1 DEF Range
    <3>. QED
      BY <3>1, <1>1, <1>2, <1>4 DEF Range
  <2>2. ASSUME NEW y \in Range(Tail(s)) PROVE y \in Range(s)
    <3>1. PICK i \in 1 .. Len(s) - 1 : Tail(s)[i] = y
      BY <1>2, <2>2 DEF Range
    <3>. QED
      BY <3>1, <1>1, <1>2, <1>3 DEF Range
  <2>3. Head(s) \in Range(s)
    BY <1>1, <1>2 DEF Range
  <2>. QED
    BY <2>1, <2>2, <2>3
<1>6. ASSUME IsInjective(s)
      PROVE  IsInjective(Tail(s)) /\ Head(s) \notin Range(Tail(s))
  <2>1. \A i, j \in 1 .. Len(s) : s[i] = s[j] => i = j
    BY <1>2, <1>6 DEF IsInjective
  <2>2. \A i \in 1 .. Len(s) - 1 : Tail(s)[i] # Head(s)
    BY <2>1, <1>1, <1>3
  <2>3. \A i, j \in 1 .. Len(s) - 1 : Tail(s)[i] = Tail(s)[j] => i = j
    <3>. SUFFICES ASSUME NEW i \in 1 .. Len(s) - 1, NEW j \in 1 .. Len(s) - 1,
                         Tail(s)[i] = Tail(s)[j]
                  PROVE  i = j
      OBVIOUS
    <3>1. i + 1 = j + 1
      BY <2>1, <1>1, <1>3
    <3>. QED
      BY <3>1
  <2>. QED
    BY <2>2, <2>3, <1>2 DEF IsInjective, Range
<1>. QED
  BY <1>1, <1>2, <1>5, <1>6 DEF Range

LEMMA FiniteConns == IsFiniteSet(Conns) /\ Cardinality(Conns) = MaxConns
<1>1. MaxConns \in Nat
  OBVIOUS
<1>. QED
  BY <1>1, FS_Interval DEF Conns

-----------------------------------------------------------------------------
\* The invariant.

\* TypeOK but for the bound of n, which RoomInv gives.
Types ==
  /\ client \in [Conns -> {"new", "connected", "waiting", "more", "served", "gone"}]
  /\ request \in [Conns -> Requests \cup {NoRequest}]
  /\ written \in [Conns -> BOOLEAN]
  /\ answer \in [Conns -> {"none", "OK", "INV", "EOF", "NOK", "DUP", "FULL"}]
  /\ backlog \in Seq(Conns)
  /\ users \in [0 .. MAXUSERS - 1 -> Conns \cup {NoConn}]
  /\ n \in Nat
  /\ readfds \subseteq Conns \cup {Listen}
  /\ activity \in 0 .. MAXUSERS + 1
  /\ child \in [Conns -> {"none", "validate", "wait", "operation", "drain", "create",
                          "rmdir", "done", "failed"}]
  /\ vld \subseteq Conns
  /\ cnf \in Seq(Conns)
  /\ confirmed \in [Conns -> Conns \cup {NoConn}]
  /\ dir \in [Users -> {NoDir} \cup SUBSET Files]
  /\ shared \subseteq Conns
  /\ lost \in 0 .. MaxLost

Unconnected == {c \in Conns : client[c] = "new"}

\* No more connections are accepted in one loop than there are.
RoomInv == Cardinality(Unconnected) + Len(backlog) + n <= MaxConns

\* A connection is accepted once, and leaves its slot for a child once.
LifeInv ==
  /\ IsInjective(backlog)
  /\ \A c \in Conns :
       /\ client[c] = "new" => c \notin Range(backlog) \cup Range(users) /\ child[c] = "none"
       /\ c \in Range(backlog) \cup Range(users) => child[c] = "none"
       /\ c \in Range(backlog) => c \notin Range(users)
       /\ client[c] # "new" => request[c] \in Requests
       /\ child[c] \in {"drain", "create"} => request[c].op = "UPL"

AtWork == {"operation", "drain", "create", "rmdir"}

\* Is there a datagram for the request of connection c, a VLD or a CNF?
OnItsWay(c) == c \in vld \cup Range(cnf)

\* A request is sent for validation once, and what comes of it is in one place:
\* the VLD, the CNF, or the child that took the CNF.
TokenInv ==
  /\ IsInjective(cnf)
  /\ ConfirmedOnce
  /\ \A c \in Conns :
       /\ child[c] \in {"none", "validate"} => ~OnItsWay(c) /\ \A d \in Conns : confirmed[d] # c
       /\ child[c] \in {"none", "validate", "wait"} => confirmed[c] = NoConn
       /\ c \in vld => c \notin Range(cnf)
       /\ OnItsWay(c) => \A d \in Conns : confirmed[d] # c

\* A CNF is for a TID that has a file, and a child goes to work on a valid one.
ValidInv ==
  \A c \in Conns :
    /\ c \in Range(cnf) => request[c].tid # "none"
    /\ child[c] \in AtWork => confirmed[c] \in Conns /\ request[confirmed[c]].tid = "OK"

\* For each datagram there is a child that waits for one.
CountInv == Cardinality(vld) + Len(cnf) <= Cardinality(Waiting)

\* If a child waits alone and has waited alone, no datagram but its own is on
\* its way.
AloneInv ==
  \A c \in Waiting : c \notin shared =>
    Waiting = {c} /\ \A d \in Conns : OnItsWay(d) => d = c

-----------------------------------------------------------------------------
\* What the steps have in common.

OperationStep(c) ==
  \/ List(c) \/ Retrieve(c) \/ Delete(c) \/ LookUp(c)
  \/ Drain(c) \/ Create(c) \/ RemoveFiles(c) \/ Rmdir(c)

\* The steps of an operation move one child on, and change the directory of the
\* user its confirmation names.
LEMMA OperationEffect ==
  ASSUME Types, LifeInv, NEW c \in Conns, OperationStep(c)
  PROVE  /\ UNCHANGED <<client, request, written, backlog, users, n, readfds, activity>>
         /\ UNCHANGED <<vld, cnf, confirmed, shared, lost>>
         /\ child[c] \in AtWork
         /\ \E next \in {"drain", "create", "rmdir", "done", "failed"} :
              /\ child' = [child EXCEPT ![c] = next] /\ next # child[c]
              /\ next \in {"drain", "create"} => request[c].op = "UPL"
         /\ answer' \in [Conns -> {"none", "OK", "INV", "EOF", "NOK", "DUP", "FULL"}]
         /\ dir' \in [Users -> {NoDir} \cup SUBSET Files]
         /\ \A u \in Users : dir'[u] # dir[u] => u = Owner(c)
<1>. USE DEF Types, AtWork, OperationFrame, ChildFrame, clientVars, mainVars, cnfVars,
             Answer, GoTo, At
<1>1. CASE List(c)
  BY <1>1 DEF List
<1>2. CASE Retrieve(c)
  BY <1>2 DEF Retrieve
<1>3. CASE Delete(c)
  <2>1. /\ dir' \in [Users -> {NoDir} \cup SUBSET Files]
        /\ \A u \in Users : dir'[u] # dir[u] => u = Owner(c)
    <3>. DEFINE fewer == dir[Owner(c)] \ {File(c)}
    <3>1. CASE dir' = dir
      BY <3>1
    <3>2. CASE dir' # dir
      <4>1. dir' = [dir EXCEPT ![Owner(c)] = fewer] /\ dir[Owner(c)] # NoDir
        BY <1>3, <3>2 DEF Delete
      <4>2. Owner(c) \in Users => fewer \in SUBSET Files
        BY <4>1
      <4>. HIDE DEF fewer
      <4>. QED
        BY <4>1, <4>2
    <3>. QED
      BY <3>1, <3>2
  <2>. QED
    BY <1>3, <2>1 DEF Delete
<1>4. CASE LookUp(c)
  BY <1>4 DEF LookUp
<1>5. CASE Drain(c)
  BY <1>5 DEF Drain
<1>6. CASE Create(c)
  <2>1. request[c].file \in Files
    <3>1. child[c] = "create"
      BY <1>6 DEF Create
    <3>2. request[c] \in Requests /\ request[c].op = "UPL"
      BY <3>1 DEF LifeInv
    <3>. QED
      BY <3>2 DEF Request
  <2>2. /\ dir' \in [Users -> {NoDir} \cup SUBSET Files]
        /\ \A u \in Users : dir'[u] # dir[u] => u = Owner(c)
    <3>. DEFINE more == dir[Owner(c)] \cup {request[c].file}
    <3>1. CASE dir' = dir
      BY <3>1
    <3>2. CASE dir' # dir
      <4>1. dir' = [dir EXCEPT ![Owner(c)] = more] /\ dir[Owner(c)] # NoDir
        BY <1>6, <3>2 DEF Create
      <4>2. Owner(c) \in Users => more \in SUBSET Files
        BY <2>1, <4>1
      <4>. HIDE DEF more
      <4>. QED
        BY <4>1, <4>2
    <3>. QED
      BY <3>1, <3>2
  <2>. QED
    BY <1>6, <2>2 DEF Create
<1>7. CASE RemoveFiles(c)
  BY <1>7 DEF RemoveFiles
<1>8. CASE Rmdir(c)
  <2>1. /\ dir' \in [Users -> {NoDir} \cup SUBSET Files]
        /\ \A u \in Users : dir'[u] # dir[u] => u = Owner(c)
    <3>1. dir' = dir \/ dir' = [dir EXCEPT ![Owner(c)] = NoDir]
      BY <1>8 DEF Rmdir
    <3>. QED
      BY <3>1
  <2>. QED
    BY <1>8, <2>1 DEF Rmdir
<1>. QED
  BY <1>1, <1>2, <1>3, <1>4, <1>5, <1>6, <1>7, <1>8 DEF OperationStep

\* A turn of the loop gives a child to some connections that had none.
LEMMA TurnEffect ==
  ASSUME Types, LifeInv, AcceptTurn \/ Turn
  PROVE  /\ UNCHANGED <<client, request, written, answer, readfds, dir>>
         /\ UNCHANGED <<vld, cnf, confirmed, shared, lost>>
         /\ users' \in [0 .. MAXUSERS - 1 -> Conns \cup {NoConn}]
         /\ activity' \in 0 .. MAXUSERS + 1
         /\ \E ready \in SUBSET Conns :
              /\ child' = [c \in Conns |-> IF c \in ready THEN "validate" ELSE child[c]]
              /\ \A c \in ready : child[c] = "none" /\ c \notin Range(users')
                                    /\ c \notin Range(backlog') /\ client[c] # "new"
<1>. USE DEF Types
<1>1. CASE Turn
  <2>. DEFINE ready == {c \in readfds \ {Listen} : c \in Range(users)}
  <2>1. ready \in SUBSET Conns
    OBVIOUS
  <2>2. users' = [i \in DOMAIN users |-> IF users[i] \in ready THEN NoConn ELSE users[i]]
    BY <1>1 DEF Turn, ServeAll
  <2>3. \A c \in ready : c \notin Range(users')
    BY <2>1, <2>2 DEF Range
  <2>4. UNCHANGED backlog
    BY <1>1 DEF Turn
  <2>5. \A c \in ready : child[c] = "none" /\ c \notin Range(backlog) /\ client[c] # "new"
    BY <2>1 DEF LifeInv
  <2>6. child' = [c \in Conns |-> IF c \in ready THEN "validate" ELSE child[c]]
    BY <1>1 DEF Turn, ServeAll
  <2>7. activity' \in 0 .. MAXUSERS + 1
    BY <1>1 DEF Turn, ServeAll
  <2>8. users' \in [0 .. MAXUSERS - 1 -> Conns \cup {NoConn}]
    BY <2>2
  <2>9. \A c \in ready : c \notin Range(backlog')
    BY <2>4, <2>5
  <2>10. UNCHANGED <<client, request, written, answer, readfds, dir, vld, cnf, confirmed, shared, lost>>
    BY <1>1 DEF Turn, ServeAll, clientVars, cnfVars
  <2>. HIDE DEF ready
  <2>. QED
    BY <2>1, <2>3, <2>5, <2>6, <2>7, <2>8, <2>9, <2>10
<1>2. CASE AcceptTurn
  <2>. DEFINE slots == [users EXCEPT ![n] = Head(backlog)]
              ready == {c \in readfds \ {Listen} : c \in Range(slots)}
  <2>1. ready \in SUBSET Conns
    OBVIOUS
  <2>2. /\ Head(backlog) \in Conns /\ Head(backlog) \in Range(backlog)
        /\ Range(backlog) = Range(Tail(backlog)) \cup {Head(backlog)}
        /\ Head(backlog) \notin Range(Tail(backlog))
    BY <1>2, TailRange DEF AcceptTurn, LifeInv
  <2>3. \A c \in Range(slots) : c = Head(backlog) \/ c \in Range(users)
    BY DEF Range
  <2>4. users' = [i \in DOMAIN slots |-> IF slots[i] \in ready THEN NoConn ELSE slots[i]]
    BY <1>2 DEF AcceptTurn, ServeAll
  <2>5. \A c \in ready : c \notin Range(users')
    BY <2>1, <2>4 DEF Range
  <2>6. backlog' = Tail(backlog)
    BY <1>2 DEF AcceptTurn
  <2>7. \A c \in ready : child[c] = "none" /\ c \notin Range(backlog') /\ client[c] # "new"
    BY <2>1, <2>2, <2>3, <2>6 DEF LifeInv
  <2>8. child' = [c \in Conns |-> IF c \in ready THEN "validate" ELSE child[c]]
    BY <1>2 DEF AcceptTurn, ServeAll
  <2>9. activity' \in 0 .. MAXUSERS + 1
    BY <1>2 DEF AcceptTurn, ServeAll
  <2>10. users' \in [0 .. MAXUSERS - 1 -> Conns \cup {NoConn}]
    BY <2>2, <2>4
  <2>. QED
    BY <1>2, <2>1, <2>5, <2>7, <2>8, <2>9, <2>10 DEF AcceptTurn, ServeAll, clientVars, cnfVars
<1>. QED
  BY <1>1, <1>2

-----------------------------------------------------------------------------
\* The invariants of the connections.

LEMMA ReadableBound ==
  ASSUME Types
  PROVE  /\ Readable \subseteq Conns \cup {Listen}
         /\ Cardinality(Readable) \in 0 .. MAXUSERS
<1>1. Readable \subseteq Conns \cup {Listen}
  BY DEF Readable, Types, Range
<1>2. IsFiniteSet(Conns \cup {Listen}) /\ Cardinality(Conns \cup {Listen}) = MaxConns + 1
  BY FiniteConns, FS_AddElement
<1>3. IsFiniteSet(Readable) /\ Cardinality(Readable) <= MaxConns + 1
  BY <1>1, <1>2, FS_Subset
<1>4. Cardinality(Readable) \in Nat
  BY <1>3, FS_CardinalityType
<1>. QED
  BY <1>1, <1>3, <1>4

LEMMA TypesStep ==
  ASSUME Types, LifeInv, [Next]_vars
  PROVE  Types'
<1>. USE DEF Types
<1>1. CASE Select
  BY <1>1, ReadableBound DEF Select, clientVars, cnfVars
<1>2. CASE AcceptTurn
  <2>1. backlog' \in Seq(Conns) /\ n' \in Nat
    BY <1>2, TailRange DEF AcceptTurn
  <2>2. PICK ready \in SUBSET Conns :
          child' = [c \in Conns |-> IF c \in ready THEN "validate" ELSE child[c]]
    BY <1>2, TurnEffect
  <2>. QED
    BY <1>2, <2>1, <2>2, TurnEffect
<1>3. CASE Turn
  <2>1. backlog' \in Seq(Conns) /\ n' \in Nat
    BY <1>3 DEF Turn
  <2>2. PICK ready \in SUBSET Conns :
          child' = [c \in Conns |-> IF c \in ready THEN "validate" ELSE child[c]]
    BY <1>3, TurnEffect
  <2>. QED
    BY <1>3, <2>1, <2>2, TurnEffect
<1>4. ASSUME NEW c \in Conns, Connect(c) PROVE Types'
  <2>1. backlog' \in Seq(Conns)
    BY <1>4, AppendRange DEF Connect
  <2>. QED
    BY <1>4, <2>1 DEF Connect, mainVars, cnfVars
<1>5. ASSUME NEW c \in Conns, Write(c) PROVE Types'
  BY <1>5 DEF Write, mainVars, cnfVars
<1>6. ASSUME NEW c \in Conns, Read(c) PROVE Types'
  BY <1>6 DEF Read, mainVars, cnfVars
<1>7. ASSUME NEW c \in Conns, Interrupt(c) PROVE Types'
  BY <1>7 DEF Interrupt, mainVars, cnfVars
<1>8. ASSUME NEW c \in Conns, FsInput(c) PROVE Types'
  <2>1. Append(cnf, c) \in Seq(Conns)
    OBVIOUS
  <2>2. /\ cnf' = Append(cnf, c) \/ cnf' = cnf
        /\ lost' = lost \/ (lost < MaxLost /\ lost' = lost + 1)
        /\ vld' = vld \ {c}
    BY <1>8 DEF FsInput
  <2>4. cnf' \in Seq(Conns)
    <3>1. CASE cnf' = cnf
      BY <3>1
    <3>2. CASE cnf' = Append(cnf, c)
      BY <2>1, <3>2
    <3>. QED
      BY <2>2, <3>1, <3>2
  <2>5. lost' \in 0 .. MaxLost
    BY <2>2
  <2>6. vld' \subseteq Conns
    BY <2>2
  <2>3. UNCHANGED <<client, request, written, answer, backlog, users, n, readfds, activity,
                    child, confirmed, shared, dir>>
    BY <1>8 DEF FsInput, mainVars, clientVars
  <2>. QED
    BY <2>3, <2>4, <2>5, <2>6
<1>9. ASSUME NEW c \in Conns, SendVld(c) PROVE Types'
  <2>1. shared' \subseteq Conns
    BY <1>9 DEF SendVld, Waiting
  <2>. QED
    BY <1>9, <2>1 DEF SendVld, ChildFrame, mainVars, clientVars
<1>10. ASSUME NEW c \in Conns, ReceiveCnf(c) PROVE Types'
  <2>1. cnf' \in Seq(Conns) /\ Head(cnf) \in Conns
    BY <1>10, TailRange DEF ReceiveCnf
  <2>. QED
    BY <1>10, <2>1 DEF ReceiveCnf, Answer, GoTo, ChildFrame, mainVars, clientVars
<1>11. ASSUME NEW c \in Conns, OperationStep(c) PROVE Types'
  <2>1. PICK next \in {"drain", "create", "rmdir", "done", "failed"} :
          child' = [child EXCEPT ![c] = next]
    BY <1>11, OperationEffect
  <2>. QED
    BY <1>11, <2>1, OperationEffect
<1>12. CASE UNCHANGED vars
  BY <1>12 DEF vars, clientVars, mainVars, cnfVars
<1>. QED
  BY <1>1, <1>2, <1>3, <1>4, <1>5, <1>6, <1>7, <1>8, <1>9, <1>10, <1>11, <1>12
  DEF Next, MainStep, ChildStep, OperationStep

LEMMA LifeStep ==
  ASSUME Types, LifeInv, [Next]_vars
  PROVE  LifeInv'
<1>. USE DEF Types, LifeInv
<1>1. CASE Select
  BY <1>1 DEF Select, clientVars, cnfVars
<1>2. CASE AcceptTurn
  <2>1. PICK ready \in SUBSET Conns :
          /\ child' = [c \in Conns |-> IF c \in ready THEN "validate" ELSE child[c]]
          /\ \A c \in ready : child[c] = "none" /\ c \notin Range(users')
                                /\ c \notin Range(backlog') /\ client[c] # "new"
    BY <1>2, TurnEffect
  <2>2. /\ Range(backlog) = Range(backlog') \cup {Head(backlog)}
        /\ Head(backlog) \notin Range(backlog')
        /\ IsInjective(backlog')
    BY <1>2, TailRange DEF AcceptTurn
  <2>3. \A c \in Conns : c \in Range(users') => c = Head(backlog) \/ c \in Range(users)
    BY <1>2 DEF AcceptTurn, ServeAll, Range
  <2>4. UNCHANGED <<client, request>>
    BY <1>2, TurnEffect
  <2>. QED
    BY <2>1, <2>2, <2>3, <2>4
<1>3. CASE Turn
  <2>1. PICK ready \in SUBSET Conns :
          /\ child' = [c \in Conns |-> IF c \in ready THEN "validate" ELSE child[c]]
          /\ \A c \in ready : child[c] = "none" /\ c \notin Range(users')
                                /\ c \notin Range(backlog') /\ client[c] # "new"
    BY <1>3, TurnEffect
  <2>2. \A c \in Conns : c \in Range(users') => c \in Range(users)
    BY <1>3 DEF Turn, ServeAll, Range
  <2>3. UNCHANGED <<client, request, backlog>>
    BY <1>3, TurnEffect DEF Turn
  <2>. QED
    BY <2>1, <2>2, <2>3
<1>4. ASSUME NEW c \in Conns, Connect(c) PROVE LifeInv'
  <2>1. Range(backlog') = Range(backlog) \cup {c} /\ IsInjective(backlog')
    BY <1>4, AppendRange DEF Connect
  <2>2. PICK r \in Requests : request' = [request EXCEPT ![c] = r]
    BY <1>4 DEF Connect
  <2>3. UNCHANGED <<users, child>> /\ client[c] = "new"
        /\ client' = [client EXCEPT ![c] = "connected"]
    BY <1>4 DEF Connect, mainVars
  <2>. QED
    BY <2>1, <2>2, <2>3
<1>5. ASSUME NEW c \in Conns, Write(c) PROVE LifeInv'
  BY <1>5 DEF Write, mainVars
<1>6. ASSUME NEW c \in Conns, Read(c) PROVE LifeInv'
  BY <1>6 DEF Read, mainVars
<1>7. ASSUME NEW c \in Conns, Interrupt(c) PROVE LifeInv'
  BY <1>7 DEF Interrupt, mainVars
<1>8. ASSUME NEW c \in Conns, FsInput(c) PROVE LifeInv'
  BY <1>8 DEF FsInput, mainVars, clientVars
<1>9. ASSUME NEW c \in Conns, SendVld(c) PROVE LifeInv'
  BY <1>9 DEF SendVld, ChildFrame, mainVars, clientVars
<1>10. ASSUME NEW c \in Conns, ReceiveCnf(c) PROVE LifeInv'
  BY <1>10 DEF ReceiveCnf, Answer, GoTo, ChildFrame, mainVars, clientVars
<1>11. ASSUME NEW c \in Conns, OperationStep(c) PROVE LifeInv'
  <2>1. PICK next \in {"drain", "create", "rmdir", "done", "failed"} :
          /\ child' = [child EXCEPT ![c] = next]
          /\ next \in {"drain", "create"} => request[c].op = "UPL"
    BY <1>11, OperationEffect
  <2>2. child[c] # "none" /\ UNCHANGED <<client, request, backlog, users>>
    BY <1>11, OperationEffect DEF AtWork
  <2>. QED
    BY <2>1, <2>2
<1>12. CASE UNCHANGED vars
  BY <1>12 DEF vars, clientVars, mainVars, cnfVars
<1>. QED
  BY <1>1, <1>2, <1>3, <1>4, <1>5, <1>6, <1>7, <1>8, <1>9, <1>10, <1>11, <1>12
  DEF Next, MainStep, ChildStep, OperationStep

LEMMA RoomStep ==
  ASSUME Types, LifeInv, RoomInv, [Next]_vars
  PROVE  RoomInv'
<1>. USE DEF Types, RoomInv
<1>1. Len(backlog) \in Nat /\ IsFiniteSet(Unconnected) /\ Cardinality(Unconnected) \in Nat
  BY FiniteConns, FS_Subset, FS_CardinalityType DEF Unconnected
<1>2. ASSUME UNCHANGED <<Unconnected, backlog, n>> PROVE RoomInv'
  BY <1>2
<1>3. CASE Select
  <2>1. n' = 0 /\ Unconnected' = Unconnected /\ UNCHANGED backlog
    BY <1>3 DEF Select, clientVars, Unconnected
  <2>. QED
    BY <1>1, <2>1
<1>4. CASE AcceptTurn
  <2>1. n' = n + 1 /\ Len(backlog') = Len(backlog) - 1
    BY <1>4, TailRange DEF AcceptTurn
  <2>2. Unconnected' = Unconnected
    BY <1>4, TurnEffect DEF Unconnected
  <2>. QED
    BY <1>1, <2>1, <2>2
<1>5. CASE Turn
  BY <1>5, TurnEffect, <1>2 DEF Turn, Unconnected
<1>6. ASSUME NEW c \in Conns, Connect(c) PROVE RoomInv'
  <2>1. Unconnected' = Unconnected \ {c} /\ c \in Unconnected
    BY <1>6 DEF Connect, Unconnected
  <2>2. Cardinality(Unconnected') = Cardinality(Unconnected) - 1
    BY <1>1, <2>1, FS_RemoveElement
  <2>3. Len(backlog') = Len(backlog) + 1 /\ n' = n
    BY <1>6, AppendRange DEF Connect, mainVars
  <2>. QED
    BY <1>1, <2>2, <2>3
<1>7. ASSUME NEW c \in Conns, Write(c) PROVE RoomInv'
  BY <1>7, <1>2 DEF Write, Unconnected, mainVars
<1>8. ASSUME NEW c \in Conns, Read(c) PROVE RoomInv'
  BY <1>8, <1>2 DEF Read, Unconnected, mainVars
<1>9. ASSUME NEW c \in Conns, Interrupt(c) PROVE RoomInv'
  BY <1>9, <1>2 DEF Interrupt, Unconnected, mainVars
<1>10. ASSUME NEW c \in Conns, FsInput(c) \/ SendVld(c) \/ ReceiveCnf(c) PROVE RoomInv'
  BY <1>10, <1>2 DEF FsInput, SendVld, ReceiveCnf, ChildFrame, Unconnected, clientVars, mainVars
<1>11. ASSUME NEW c \in Conns, OperationStep(c) PROVE RoomInv'
  BY <1>11, <1>2, OperationEffect DEF Unconnected
<1>12. CASE UNCHANGED vars
  BY <1>12, <1>2 DEF vars, clientVars, mainVars, Unconnected
<1>. QED
  BY <1>3, <1>4, <1>5, <1>6, <1>7, <1>8, <1>9, <1>10, <1>11, <1>12
  DEF Next, MainStep, ChildStep, OperationStep

-----------------------------------------------------------------------------
\* The invariants of the confirmations.

LEMMA TokenStep ==
  ASSUME Types, LifeInv, TokenInv, [Next]_vars
  PROVE  TokenInv'
<1>. USE DEF Types, TokenInv, OnItsWay, ConfirmedOnce
<1>1. ASSUME UNCHANGED <<child, vld, cnf, confirmed>> PROVE TokenInv'
  BY <1>1
<1>2. CASE AcceptTurn \/ Turn
  <2>1. PICK ready \in SUBSET Conns :
          /\ child' = [c \in Conns |-> IF c \in ready THEN "validate" ELSE child[c]]
          /\ \A c \in ready : child[c] = "none"
    BY <1>2, TurnEffect
  <2>2. UNCHANGED <<vld, cnf, confirmed>>
    BY <1>2, TurnEffect
  <2>3. \A c \in Conns : child[c] # child'[c] => child[c] = "none" /\ child'[c] = "validate"
    BY <2>1
  <2>. QED
    BY <2>2, <2>3
<1>3. ASSUME NEW c \in Conns, FsInput(c) PROVE TokenInv'
  <2>1. c \in vld /\ vld' = vld \ {c} /\ UNCHANGED <<child, confirmed>>
    BY <1>3 DEF FsInput
  <2>2. CASE cnf' = cnf
    BY <2>1, <2>2
  <2>3. CASE cnf' = Append(cnf, c)
    <3>1. Range(cnf') = Range(cnf) \cup {c} /\ IsInjective(cnf')
      BY <2>1, <2>3, AppendRange
    <3>. QED
      BY <2>1, <3>1
  <2>. QED
    BY <1>3, <2>2, <2>3 DEF FsInput
<1>4. ASSUME NEW c \in Conns, SendVld(c) PROVE TokenInv'
  <2>1. /\ child[c] = "validate" /\ child' = [child EXCEPT ![c] = "wait"]
        /\ vld' = vld \/ vld' = vld \cup {c}
        /\ UNCHANGED <<cnf, confirmed>>
    BY <1>4 DEF SendVld
  <2>. QED
    BY <2>1
<1>5. ASSUME NEW c \in Conns, ReceiveCnf(c) PROVE TokenInv'
  <2>1. /\ child[c] = "wait" /\ child'[c] \in {"operation", "done"}
        /\ \A d \in Conns \ {c} : child'[d] = child[d]
        /\ confirmed' = [confirmed EXCEPT ![c] = Head(cnf)]
        /\ UNCHANGED vld
    BY <1>5 DEF ReceiveCnf, Answer, GoTo
  <2>2. /\ Head(cnf) \in Conns /\ Range(cnf) = Range(cnf') \cup {Head(cnf)}
        /\ Head(cnf) \notin Range(cnf') /\ IsInjective(cnf')
    BY <1>5, TailRange DEF ReceiveCnf
  <2>3. /\ child[Head(cnf)] \notin {"none", "validate"} /\ Head(cnf) \notin vld
        /\ \A d \in Conns : confirmed[d] # Head(cnf)
    BY <2>2
  <2>4. /\ confirmed'[c] = Head(cnf)
        /\ \A d \in Conns \ {c} : confirmed'[d] = confirmed[d]
    BY <2>1
  <2>5. ConfirmedOnce'
    BY <2>3, <2>4
  <2>6. ASSUME NEW d \in Conns
        PROVE  /\ child'[d] \in {"none", "validate"} =>
                    d \notin vld' \cup Range(cnf') /\ \A e \in Conns : confirmed'[e] # d
               /\ child'[d] \in {"none", "validate", "wait"} => confirmed'[d] = NoConn
               /\ d \in vld' => d \notin Range(cnf')
               /\ d \in vld' \cup Range(cnf') => \A e \in Conns : confirmed'[e] # d
    BY <2>1, <2>2, <2>3, <2>4
  <2>. QED
    BY <2>2, <2>5, <2>6
<1>6. ASSUME NEW c \in Conns, OperationStep(c) PROVE TokenInv'
  <2>1. PICK next \in {"drain", "create", "rmdir", "done", "failed"} :
          child' = [child EXCEPT ![c] = next]
    BY <1>6, OperationEffect
  <2>2. UNCHANGED <<vld, cnf, confirmed>>
    BY <1>6, OperationEffect
  <2>. QED
    BY <2>1, <2>2
<1>7. ASSUME NEW c \in Conns, Connect(c) \/ Write(c) \/ Read(c) \/ Interrupt(c) PROVE TokenInv'
  BY <1>1, <1>7 DEF Connect, Write, Read, Interrupt, cnfVars
<1>8. CASE Select \/ UNCHANGED vars
  BY <1>1, <1>8 DEF Select, vars, cnfVars
<1>. QED
  BY <1>2, <1>3, <1>4, <1>5, <1>6, <1>7, <1>8
  DEF Next, MainStep, ChildStep, OperationStep

LEMMA ValidStep ==
  ASSUME Types, LifeInv, TokenInv, ValidInv, [Next]_vars
  PROVE  ValidInv'
<1>. USE DEF Types, ValidInv, AtWork
<1>1. ASSUME UNCHANGED <<request, child, cnf, confirmed>> PROVE ValidInv'
  BY <1>1
<1>2. CASE AcceptTurn \/ Turn
  <2>1. PICK ready \in SUBSET Conns :
          child' = [c \in Conns |-> IF c \in ready THEN "validate" ELSE child[c]]
    BY <1>2, TurnEffect
  <2>2. UNCHANGED <<request, cnf, confirmed>>
    BY <1>2, TurnEffect
  <2>. QED
    BY <2>1, <2>2
<1>3. ASSUME NEW c \in Conns, FsInput(c) PROVE ValidInv'
  <2>1. UNCHANGED <<request, child, confirmed>>
    BY <1>3 DEF FsInput, clientVars
  <2>2. CASE cnf' = cnf
    BY <2>1, <2>2
  <2>3. CASE cnf' # cnf
    <3>1. cnf' = Append(cnf, c) /\ request[c].tid # "none"
      BY <1>3, <2>3 DEF FsInput
    <3>2. Range(cnf') = Range(cnf) \cup {c}
      BY <3>1, AppendRange
    <3>. QED
      BY <2>1, <3>1, <3>2
  <2>. QED
    BY <2>2, <2>3
<1>4. ASSUME NEW c \in Conns, SendVld(c) PROVE ValidInv'
  BY <1>4 DEF SendVld, ChildFrame, clientVars
<1>5. ASSUME NEW c \in Conns, ReceiveCnf(c) PROVE ValidInv'
  <2>1. /\ Head(cnf) \in Conns /\ Head(cnf) \in Range(cnf)
        /\ Range(cnf) = Range(cnf') \cup {Head(cnf)}
    BY <1>5, TailRange DEF ReceiveCnf
  <2>2. request[Head(cnf)].tid \in Tid
    <3>1. child[Head(cnf)] # "none"
      BY <2>1 DEF TokenInv, OnItsWay
    <3>2. request[Head(cnf)] \in Request
      BY <2>1, <3>1 DEF LifeInv
    <3>. QED
      BY <3>2 DEF Request
  <2>3. request[Head(cnf)].tid \in {"OK", "E"}
    BY <2>1, <2>2 DEF Tid
  <2>4. /\ confirmed' = [confirmed EXCEPT ![c] = Head(cnf)] /\ UNCHANGED request
        /\ child' = [child EXCEPT ![c] = IF request[Head(cnf)].tid = "E" THEN "done"
                                                                         ELSE "operation"]
    BY <1>5 DEF ReceiveCnf, Answer, GoTo, ChildFrame, clientVars
  <2>. QED
    BY <2>1, <2>3, <2>4
<1>6. ASSUME NEW c \in Conns, OperationStep(c) PROVE ValidInv'
  <2>1. PICK next \in {"drain", "create", "rmdir", "done", "failed"} :
          child' = [child EXCEPT ![c] = next]
    BY <1>6, OperationEffect
  <2>2. child[c] \in AtWork /\ UNCHANGED <<request, cnf, confirmed>>
    BY <1>6, OperationEffect
  <2>. QED
    BY <2>1, <2>2
<1>7. ASSUME NEW c \in Conns, Connect(c) PROVE ValidInv'
  <2>1. /\ \A d \in Conns \ {c} : request'[d] = request[d]
        /\ client[c] = "new" /\ UNCHANGED <<child, cnf, confirmed>>
    BY <1>7 DEF Connect, cnfVars
  <2>2. child[c] = "none"
    BY <2>1 DEF LifeInv
  <2>3. c \notin Range(cnf) /\ \A d \in Conns : confirmed[d] # c
    BY <2>2 DEF TokenInv, OnItsWay
  <2>. QED
    BY <2>1, <2>3
<1>8. ASSUME NEW c \in Conns, Write(c) \/ Read(c) \/ Interrupt(c) PROVE ValidInv'
  BY <1>1, <1>8 DEF Write, Read, Interrupt, cnfVars
<1>9. CASE Select \/ UNCHANGED vars
  BY <1>1, <1>9 DEF Select, vars, cnfVars, clientVars
<1>. QED
  BY <1>2, <1>3, <1>4, <1>5, <1>6, <1>7, <1>8, <1>9
  DEF Next, MainStep, ChildStep, OperationStep

-----------------------------------------------------------------------------
\* The invariants of the children that wait.

LEMMA WaitingType ==
  ASSUME Types
  PROVE  /\ Waiting \subseteq Conns /\ IsFiniteSet(Waiting) /\ Cardinality(Waiting) \in Nat
         /\ IsFiniteSet(vld) /\ Cardinality(vld) \in Nat /\ Len(cnf) \in Nat
<1>1. Waiting \subseteq Conns /\ vld \subseteq Conns /\ cnf \in Seq(Conns)
  BY DEF Waiting, Types
<1>. QED
  BY <1>1, FiniteConns, FS_Subset, FS_CardinalityType

\* Only the two ends of the waiting change who waits.
LEMMA WaitingEffect ==
  ASSUME Types, LifeInv, [Next]_vars
  PROVE  \/ UNCHANGED <<Waiting, vld, cnf, confirmed, shared>>
         \/ Waiting' = Waiting /\ \E c \in Conns : FsInput(c)
         \/ \E c \in Conns : /\ SendVld(c) /\ child[c] = "validate"
                             /\ Waiting' = Waiting \cup {c} /\ c \notin Waiting
         \/ \E c \in Conns : ReceiveCnf(c) /\ Waiting' = Waiting \ {c} /\ c \in Waiting
<1>. USE DEF Types, Waiting
<1>1. CASE AcceptTurn \/ Turn
  <2>1. PICK ready \in SUBSET Conns :
          /\ child' = [c \in Conns |-> IF c \in ready THEN "validate" ELSE child[c]]
          /\ \A c \in ready : child[c] = "none"
    BY <1>1, TurnEffect
  <2>2. UNCHANGED <<vld, cnf, confirmed, shared>>
    BY <1>1, TurnEffect
  <2>. QED
    BY <2>1, <2>2
<1>2. ASSUME NEW c \in Conns, FsInput(c) PROVE Waiting' = Waiting
  BY <1>2 DEF FsInput
<1>3. ASSUME NEW c \in Conns, SendVld(c)
      PROVE  child[c] = "validate" /\ Waiting' = Waiting \cup {c} /\ c \notin Waiting
  BY <1>3 DEF SendVld
<1>4. ASSUME NEW c \in Conns, ReceiveCnf(c)
      PROVE  Waiting' = Waiting \ {c} /\ c \in Waiting
  <2>1. /\ child[c] = "wait"
        /\ child' = [child EXCEPT ![c] = IF request[Head(cnf)].tid = "E" THEN "done"
                                                                         ELSE "operation"]
    BY <1>4 DEF ReceiveCnf, Answer, GoTo
  <2>. QED
    BY <2>1
<1>5. ASSUME NEW c \in Conns, OperationStep(c)
      PROVE  UNCHANGED <<Waiting, vld, cnf, confirmed, shared>>
  <2>1. PICK next \in {"drain", "create", "rmdir", "done", "failed"} :
          child' = [child EXCEPT ![c] = next]
    BY <1>5, OperationEffect
  <2>2. child[c] \in AtWork /\ UNCHANGED <<vld, cnf, confirmed, shared>>
    BY <1>5, OperationEffect
  <2>. QED
    BY <2>1, <2>2 DEF AtWork
<1>6. ASSUME NEW c \in Conns, Connect(c) \/ Write(c) \/ Read(c) \/ Interrupt(c)
      PROVE  UNCHANGED <<Waiting, vld, cnf, confirmed, shared>>
  BY <1>6 DEF Connect, Write, Read, Interrupt, cnfVars
<1>7. CASE Select \/ UNCHANGED vars
  BY <1>7 DEF Select, vars, cnfVars
<1>. QED
  BY <1>1, <1>2, <1>3, <1>4, <1>5, <1>6, <1>7
  DEF Next, MainStep, ChildStep, OperationStep

LEMMA CountStep ==
  ASSUME Types, LifeInv, TokenInv, CountInv, [Next]_vars
  PROVE  CountInv'
<1>. USE DEF CountInv
<1>1. CASE UNCHANGED <<Waiting, vld, cnf, confirmed, shared>>
  BY <1>1
<1>2. ASSUME NEW c \in Conns, FsInput(c), Waiting' = Waiting PROVE CountInv'
  <2>1. c \in vld /\ vld' = vld \ {c} /\ (cnf' = cnf \/ cnf' = Append(cnf, c))
    BY <1>2 DEF FsInput
  <2>2. Cardinality(vld') = Cardinality(vld) - 1
    BY <2>1, WaitingType, FS_RemoveElement
  <2>3. Len(cnf') = Len(cnf) \/ Len(cnf') = Len(cnf) + 1
    BY <2>1, AppendRange DEF Types
  <2>. QED
    BY <1>2, <2>2, <2>3, WaitingType
<1>3. ASSUME NEW c \in Conns, SendVld(c), Waiting' = Waiting \cup {c}, c \notin Waiting
      PROVE  CountInv'
  <2>1. (vld' = vld \/ vld' = vld \cup {c}) /\ UNCHANGED cnf
    BY <1>3 DEF SendVld
  <2>2. Cardinality(vld') \in {Cardinality(vld), Cardinality(vld) + 1}
    <3>1. CASE vld' = vld
      BY <3>1
    <3>2. CASE vld' = vld \cup {c}
      <4>1. Cardinality(vld \cup {c}) = IF c \in vld THEN Cardinality(vld)
                                                    ELSE Cardinality(vld) + 1
        BY WaitingType, FS_AddElement
      <4>. QED
        BY <3>2, <4>1
    <3>. QED
      BY <2>1, <3>1, <3>2
  <2>3. Cardinality(Waiting') = Cardinality(Waiting) + 1
    BY <1>3, WaitingType, FS_AddElement
  <2>. QED
    BY <2>1, <2>2, <2>3, WaitingType
<1>4. ASSUME NEW c \in Conns, ReceiveCnf(c), Waiting' = Waiting \ {c}, c \in Waiting
      PROVE  CountInv'
  <2>1. UNCHANGED vld /\ Len(cnf') = Len(cnf) - 1
    BY <1>4, TailRange DEF ReceiveCnf, Types
  <2>2. Cardinality(Waiting') = Cardinality(Waiting) - 1
    BY <1>4, WaitingType, FS_RemoveElement
  <2>. QED
    BY <2>1, <2>2, WaitingType
<1>. QED
  BY <1>1, <1>2, <1>3, <1>4, WaitingEffect

LEMMA AloneStep ==
  ASSUME Types, LifeInv, TokenInv, CountInv, AloneInv, ConfirmationIsOwn, [Next]_vars
  PROVE  AloneInv' /\ ConfirmationIsOwn'
<1>. USE DEF AloneInv, ConfirmationIsOwn, OnItsWay, Types
<1>1. CASE UNCHANGED <<Waiting, vld, cnf, confirmed, shared>>
  BY <1>1
<1>2. ASSUME NEW c \in Conns, FsInput(c), Waiting' = Waiting
      PROVE  AloneInv' /\ ConfirmationIsOwn'
  <2>1. /\ c \in vld /\ vld' = vld \ {c} /\ (cnf' = cnf \/ cnf' = Append(cnf, c))
        /\ UNCHANGED <<confirmed, shared>>
    BY <1>2 DEF FsInput
  <2>2. Range(cnf') \subseteq Range(cnf) \cup {c}
    <3>1. Range(Append(cnf, c)) = Range(cnf) \cup {c}
      BY AppendRange
    <3>2. CASE cnf' = cnf
      BY <3>2
    <3>3. CASE cnf' = Append(cnf, c)
      BY <3>1, <3>3
    <3>. QED
      BY <2>1, <3>2, <3>3
  <2>3. \A d \in Conns : OnItsWay(d)' => OnItsWay(d)
    BY <2>1, <2>2
  <2>. QED
    BY <1>2, <2>1, <2>3
<1>3. ASSUME NEW c \in Conns, SendVld(c), child[c] = "validate",
             Waiting' = Waiting \cup {c}, c \notin Waiting
      PROVE  AloneInv' /\ ConfirmationIsOwn'
  <2>1. /\ vld' \subseteq vld \cup {c} /\ UNCHANGED <<cnf, confirmed>>
        /\ shared' = IF Waiting = {} THEN shared ELSE shared \cup Waiting \cup {c}
    BY <1>3 DEF SendVld
  <2>2. ConfirmationIsOwn'
    BY <2>1
  <2>3. CASE Waiting = {}
    <3>1. Cardinality(vld) + Len(cnf) <= 0
      BY <2>3, FS_EmptySet DEF CountInv
    <3>2. Cardinality(vld) = 0 /\ Len(cnf) = 0
      BY <3>1, WaitingType
    <3>3. vld = {}
      BY <3>2, WaitingType, FS_EmptySet
    <3>4. Range(cnf) = {}
      BY <3>2 DEF Range
    <3>. QED
      BY <1>3, <2>1, <2>2, <2>3, <3>3, <3>4
  <2>4. CASE Waiting # {}
    BY <1>3, <2>1, <2>2, <2>4
  <2>. QED
    BY <2>3, <2>4
<1>4. ASSUME NEW c \in Conns, ReceiveCnf(c), Waiting' = Waiting \ {c}, c \in Waiting
      PROVE  AloneInv' /\ ConfirmationIsOwn'
  <2>1. UNCHANGED <<vld, shared>> /\ confirmed' = [confirmed EXCEPT ![c] = Head(cnf)]
    BY <1>4 DEF ReceiveCnf
  <2>2. Head(cnf) \in Conns /\ Range(cnf) = Range(cnf') \cup {Head(cnf)}
    BY <1>4, TailRange DEF ReceiveCnf
  <2>3. c \notin shared => Head(cnf) = c
    BY <1>4, <2>2
  <2>4. ConfirmationIsOwn'
    BY <2>1, <2>3
  <2>5. AloneInv'
    BY <1>4, <2>1
  <2>. QED
    BY <2>4, <2>5
<1>. QED
  BY <1>1, <1>2, <1>3, <1>4, WaitingEffect

-----------------------------------------------------------------------------
\* The inductive invariant.

IInv ==
  /\ Types /\ RoomInv /\ LifeInv
  /\ TokenInv /\ ValidInv
  /\ CountInv /\ AloneInv /\ ConfirmationIsOwn

LEMMA InitIInv == Init => IInv
<1>. SUFFICES ASSUME Init PROVE IInv
  OBVIOUS
<1>. USE DEF Init
<1>1. Types
  BY DEF Types
<1>2. /\ Range(backlog) = {} /\ Range(cnf) = {} /\ Range(users) \cap Conns = {}
      /\ IsInjective(backlog) /\ IsInjective(cnf) /\ Waiting = {}
  BY DEF Range, IsInjective, Waiting
<1>3. RoomInv
  <2>1. Unconnected = Conns
    BY DEF Unconnected
  <2>2. Len(backlog) = 0 /\ n = 0
    OBVIOUS
  <2>. QED
    BY <2>1, <2>2, FiniteConns DEF RoomInv
<1>4. LifeInv
  BY <1>2 DEF LifeInv
<1>5. TokenInv
  BY <1>2 DEF TokenInv, ConfirmedOnce, OnItsWay
<1>6. ValidInv
  BY <1>2 DEF ValidInv, AtWork
<1>7. CountInv
  <2>1. Cardinality(vld) = 0 /\ Len(cnf) = 0 /\ Cardinality(Waiting) = 0
    BY <1>2, FS_EmptySet
  <2>. QED
    BY <2>1 DEF CountInv
<1>8. AloneInv /\ ConfirmationIsOwn
  BY <1>2 DEF AloneInv, ConfirmationIsOwn
<1>. QED
  BY <1>1, <1>3, <1>4, <1>5, <1>6, <1>7, <1>8 DEF IInv

LEMMA StepIInv == IInv /\ [Next]_vars => IInv'
<1>. SUFFICES ASSUME IInv, [Next]_vars PROVE IInv'
  OBVIOUS
<1>1. Types' /\ RoomInv' /\ LifeInv'
  BY TypesStep, RoomStep, LifeStep DEF IInv
<1>2. TokenInv' /\ ValidInv'
  BY TokenStep, ValidStep DEF IInv
<1>3. CountInv' /\ AloneInv' /\ ConfirmationIsOwn'
  BY CountStep, AloneStep DEF IInv
<1>. QED
  BY <1>1, <1>2, <1>3 DEF IInv

LEMMA Inductive == Spec => []IInv
  BY InitIInv, StepIInv, PTL DEF Spec

-----------------------------------------------------------------------------
\* The theorems.

\* The variables keep their types, as long as there are fewer connections than
\* slots: MaxConns < MAXUSERS, which nothing in fs.c sees to, and without which n
\* passes the end of users (fs.c 634-635).
LEMMA TypeCorrect == Spec => []TypeOK
<1>1. IInv => TypeOK
  <2>. SUFFICES ASSUME IInv PROVE TypeOK
    OBVIOUS
  <2>1. Types /\ RoomInv
    BY DEF IInv
  <2>2. Len(backlog) \in Nat /\ n \in Nat
    BY <2>1 DEF Types
  <2>3. Cardinality(Unconnected) \in Nat
    BY FiniteConns, FS_Subset, FS_CardinalityType DEF Unconnected
  <2>4. n \in 0 .. MAXUSERS
    BY <2>1, <2>2, <2>3 DEF RoomInv
  <2>. QED
    BY <2>1, <2>4 DEF Types, TypeOK
<1>. QED
  BY <1>1, Inductive, PTL

\* A confirmation lets one child go on, in whatever order the children take the
\* datagrams from the socket they share (fs.c:673).
THEOREM OneConfirmationEach == Spec => []ConfirmedOnce
<1>1. IInv => ConfirmedOnce
  BY DEF IInv, TokenInv
<1>. QED
  BY <1>1, Inductive, PTL

\* A child that never waited with another goes on with its own request (fs.c
\* 667-680), whatever was lost before it.
THEOREM AloneGetsItsOwn == Spec => []ConfirmationIsOwn
<1>1. IInv => ConfirmationIsOwn
  BY DEF IInv
<1>. QED
  BY <1>1, Inductive, PTL

\* Only a child that holds a confirmation of a valid TID of a user changes that
\* user's directory (fs.c 682, 700).
THEOREM ChangesAreConfirmed == Spec => EveryChangeConfirmed
<1>1. IInv /\ [Next]_vars =>
        [\A u \in Users : dir'[u] # dir[u] =>
           \E c \in Conns :
             /\ child[c] \in {"operation", "create", "rmdir"} /\ child'[c] # child[c]
             /\ confirmed[c] # NoConn
             /\ Owner(c) = u /\ request[confirmed[c]].tid = "OK"]_vars
  <2>. SUFFICES ASSUME IInv, [Next]_vars, NEW u \in Users, dir'[u] # dir[u]
                PROVE  \E c \in Conns :
                         /\ child[c] \in {"operation", "create", "rmdir"}
                         /\ child'[c] # child[c] /\ confirmed[c] # NoConn
                         /\ Owner(c) = u /\ request[confirmed[c]].tid = "OK"
    OBVIOUS
  <2>1. Types /\ LifeInv /\ ValidInv
    BY DEF IInv
  <2>2. CASE AcceptTurn \/ Turn
    BY <2>1, <2>2, TurnEffect
  <2>3. ASSUME NEW c \in Conns, SendVld(c) \/ ReceiveCnf(c) \/ FsInput(c) PROVE FALSE
    BY <2>3 DEF SendVld, ReceiveCnf, FsInput
  <2>4. ASSUME NEW c \in Conns, Connect(c) \/ Write(c) \/ Read(c) \/ Interrupt(c) PROVE FALSE
    BY <2>4 DEF Connect, Write, Read, Interrupt
  <2>5. CASE Select \/ UNCHANGED vars
    BY <2>5 DEF Select, vars
  <2>6. ASSUME NEW c \in Conns, OperationStep(c)
        PROVE  /\ child[c] \in {"operation", "create", "rmdir"}
               /\ child'[c] # child[c] /\ confirmed[c] # NoConn
               /\ Owner(c) = u /\ request[confirmed[c]].tid = "OK"
    <3>1. ~Drain(c)
      BY DEF Drain
    <3>2. child[c] \in {"operation", "create", "rmdir"}
      BY <2>6, <3>1 DEF OperationStep, List, Retrieve, Delete, LookUp, Create,
                        RemoveFiles, Rmdir, At
    <3>3. child[c] \in AtWork /\ child'[c] # child[c] /\ Owner(c) = u
      BY <2>1, <2>6, OperationEffect DEF Types
    <3>4. confirmed[c] # NoConn /\ request[confirmed[c]].tid = "OK"
      BY <2>1, <3>3 DEF ValidInv
    <3>. QED
      BY <3>2, <3>3, <3>4
  <2>. QED
    BY <2>2, <2>3, <2>4, <2>5, <2>6 DEF Next, MainStep, ChildStep, OperationStep
<1>. QED
  BY <1>1, Inductive, PTL DEF Spec, EveryChangeConfirmed

-----------------------------------------------------------------------------
\* The search tree.  Of SearchTree, whatever the names, inumbers, threads and calls
\* are, if there is a cell for the node of every name.

HIDE FileServerAssumption
USE SearchTreeAssumption

\* Trees.  A tree is given by its nodes, their keys and sides, and its root; above
\* gives for each node those on the way to it from the root.

LEMMA LeastOf ==
  ASSUME NEW S \in SUBSET Nat, S # {}
  PROVE  \E least \in S : \A k \in S : least <= k
<1>1. PICK least \in S : \A k \in S : <<k, least>> \notin OpToRel(<, Nat)
  BY NatLessThanWellFounded, WFMin, Zenon
<1>2. \A k \in S : ~(k < least)
  BY <1>1 DEF OpToRel
<1>. QED
  BY <1>2

\* A node is not above itself, and what is above one above it is above it.
Above(A, up) ==
  /\ up \in [A -> SUBSET A]
  /\ \A q \in A : q \notin up[q]
  /\ \A q \in A : \A a \in up[q] : up[a] \subseteq up[q]

\* Where name f is looked for, node q is come to.
Visits(key, left, right, up, f, q) ==
  \A a \in up[q] :
    /\ f # key[a]
    /\ f < key[a] => left[a] \in up[q] \cup {q}
    /\ key[a] < f => right[a] \in up[q] \cup {q}

Rooted(A, root, up) ==
  IF root = NULL THEN A = {}
  ELSE /\ root \in A /\ up[root] = {}
       /\ \A q \in A : q = root \/ root \in up[q]

\* The sides of a node are below it, and less or greater.
LeftLinked(A, key, left, up) ==
  \A q \in A : left[q] # NULL =>
    left[q] \in A /\ up[left[q]] = up[q] \cup {q} /\ key[left[q]] < key[q]

RightLinked(A, key, right, up) ==
  \A q \in A : right[q] # NULL =>
    right[q] \in A /\ up[right[q]] = up[q] \cup {q} /\ key[q] < key[right[q]]

\* What is below a node is to the same side as it of all that is above.
Sided(A, key, up) ==
  \A y \in A : \A x \in up[y] : \A a \in up[x] : key[x] < key[a] <=> key[y] < key[a]

Tree(A, key, left, right, root, up) ==
  /\ IsFiniteSet(A) /\ NULL \notin A /\ key \in [A -> Nat]
  /\ Above(A, up)
  /\ Rooted(A, root, up)
  /\ LeftLinked(A, key, left, up)
  /\ RightLinked(A, key, right, up)
  /\ \A q \in A : Visits(key, left, right, up, key[q], q)
  /\ Sided(A, key, up)

IsTree(A, key, left, right, root) == \E up : Tree(A, key, left, right, root, up)

\* In every set of nodes one is above no other, and one below no other.
LEMMA Depths ==
  ASSUME NEW A, IsFiniteSet(A), NEW up, Above(A, up), NEW x \in A, NEW y \in A, x \in up[y]
  PROVE  /\ Cardinality(up[x]) \in Nat /\ Cardinality(up[y]) \in Nat
         /\ Cardinality(up[x]) < Cardinality(up[y])
<1>1. /\ up[x] \subseteq up[y] /\ up[y] \subseteq A /\ up[x] # up[y]
  BY DEF Above
<1>2. IsFiniteSet(up[y]) /\ IsFiniteSet(up[x])
  BY <1>1, FS_Subset
<1>3. Cardinality(up[x]) \in Nat /\ Cardinality(up[y]) \in Nat
  BY <1>2, FS_CardinalityType
<1>4. Cardinality(up[x]) <= Cardinality(up[y]) /\ (Cardinality(up[x]) = Cardinality(up[y]) => up[x] = up[y])
  BY <1>1, <1>2, FS_Subset
<1>. QED
  BY <1>1, <1>3, <1>4

LEMMA DepthIs ==
  ASSUME NEW A, IsFiniteSet(A), NEW up, Above(A, up), NEW x \in A
  PROVE  Cardinality(up[x]) \in Nat /\ Cardinality(up[x]) <= Cardinality(A) /\ Cardinality(A) \in Nat
<1>1. up[x] \subseteq A
  BY DEF Above
<1>2. IsFiniteSet(up[x]) /\ Cardinality(up[x]) <= Cardinality(A)
  BY <1>1, FS_Subset
<1>. QED
  BY <1>2, FS_CardinalityType

LEMMA Highest ==
  ASSUME NEW A, IsFiniteSet(A), NEW up, Above(A, up), NEW S \in SUBSET A, S # {}
  PROVE  \E a \in S : \A x \in S : x \notin up[a]
<1> DEFINE depths == {Cardinality(up[x]) : x \in S}
<1>1. depths \in SUBSET Nat /\ depths # {}
  BY DepthIs
<1>2. PICK f \in depths : \A k \in depths : f <= k
  BY <1>1, LeastOf
<1>3. PICK a \in S : f = Cardinality(up[a])
  BY <1>2
<1>4. ASSUME NEW x \in S, x \in up[a] PROVE FALSE
  <2>1. /\ Cardinality(up[x]) \in Nat /\ Cardinality(up[a]) \in Nat
        /\ Cardinality(up[x]) < Cardinality(up[a])
    BY <1>4, Depths
  <2>2. Cardinality(up[a]) <= Cardinality(up[x])
    BY <1>2, <1>3
  <2>. QED
    BY <2>1, <2>2
<1>. QED
  BY <1>4

LEMMA Deepest ==
  ASSUME NEW A, IsFiniteSet(A), NEW up, Above(A, up), NEW S \in SUBSET A, S # {}
  PROVE  \E a \in S : \A x \in S : a \notin up[x]
<1> DEFINE room(x) == Cardinality(A) - Cardinality(up[x])
           rooms   == {room(x) : x \in S}
<1>1. rooms \in SUBSET Nat /\ rooms # {}
  <2>1. ASSUME NEW x \in S PROVE room(x) \in Nat
    BY DepthIs
  <2>. QED
    BY <2>1
<1>2. PICK f \in rooms : \A k \in rooms : f <= k
  BY <1>1, LeastOf
<1>3. PICK a \in S : f = room(a)
  BY <1>2
<1>4. ASSUME NEW x \in S, a \in up[x] PROVE FALSE
  <2>1. /\ Cardinality(up[x]) \in Nat /\ Cardinality(up[a]) \in Nat /\ Cardinality(A) \in Nat
        /\ Cardinality(up[a]) < Cardinality(up[x])
    BY <1>4, Depths, DepthIs
  <2>2. room(a) <= room(x)
    BY <1>2, <1>3
  <2>. QED
    BY <2>1, <2>2
<1>. QED
  BY <1>4

-----------------------------------------------------------------------------
\* Looking a name up in a tree.

\* Two nodes that a name is looked for at are one below the other.
LEMMA Chain ==
  ASSUME NEW A, NEW key, NEW left, NEW right, NEW root, NEW up,
         Tree(A, key, left, right, root, up), NEW f \in Nat, NEW q \in A, NEW b \in A,
         Visits(key, left, right, up, f, q), Visits(key, left, right, up, f, b)
  PROVE  q = b \/ q \in up[b] \/ b \in up[q]
<1> DEFINE S == (up[q] \cup {q}) \cap (up[b] \cup {b})
<1>1. /\ IsFiniteSet(A) /\ NULL \notin A /\ Above(A, up) /\ Rooted(A, root, up)
      /\ LeftLinked(A, key, left, up) /\ RightLinked(A, key, right, up) /\ key \in [A -> Nat]
  BY DEF Tree
<1>2. S \in SUBSET A /\ root \in S
  BY <1>1 DEF Above, Rooted
<1>3. PICK a \in S : \A x \in S : a \notin up[x]
  <2> HIDE DEF S
  <2>1. S # {}
    BY <1>2
  <2>. QED
    BY <1>1, <1>2, <2>1, Deepest
<1>4. SUFFICES ASSUME a \in up[q], a \in up[b] PROVE FALSE
  BY <1>3
<1>5. a \in A /\ key[a] \in Nat /\ f # key[a]
  BY <1>1, <1>2, <1>4 DEF Visits
<1>6. CASE f < key[a]
  <2>1. left[a] \in S /\ left[a] # NULL
    BY <1>1, <1>2, <1>4, <1>6 DEF Visits
  <2>2. a \in up[left[a]]
    BY <1>1, <1>5, <2>1 DEF LeftLinked
  <2>. QED
    BY <1>3, <2>1, <2>2
<1>7. CASE key[a] < f
  <2>1. right[a] \in S /\ right[a] # NULL
    BY <1>1, <1>2, <1>4, <1>7 DEF Visits
  <2>2. a \in up[right[a]]
    BY <1>1, <1>5, <2>1 DEF RightLinked
  <2>. QED
    BY <1>3, <2>1, <2>2
<1>. QED
  BY <1>5, <1>6, <1>7

LEMMA KeysDiffer ==
  ASSUME NEW A, NEW key, NEW left, NEW right, NEW root, NEW up,
         Tree(A, key, left, right, root, up), NEW q \in A, NEW b \in A, key[q] = key[b]
  PROVE  q = b
<1>1. key[q] \in Nat /\ Visits(key, left, right, up, key[q], q) /\ Visits(key, left, right, up, key[q], b)
  BY DEF Tree
<1>2. q \notin up[b] /\ b \notin up[q]
  BY <1>1 DEF Visits
<1>. QED
  BY <1>1, <1>2, Chain

\* The node a name is looked for at next.
LEMMA VisitsNext ==
  ASSUME NEW A, NEW key, NEW left, NEW right, NEW root, NEW up,
         Tree(A, key, left, right, root, up), NEW f \in Nat, NEW q \in A,
         Visits(key, left, right, up, f, q), f # key[q],
         NEW c, c = (IF f < key[q] THEN left[q] ELSE right[q]), c # NULL
  PROVE  c \in A /\ up[c] = up[q] \cup {q} /\ Visits(key, left, right, up, f, c)
<1>1. key[q] \in Nat /\ LeftLinked(A, key, left, up) /\ RightLinked(A, key, right, up)
  BY DEF Tree
<1>2. c \in A /\ up[c] = up[q] \cup {q}
  BY <1>1 DEF LeftLinked, RightLinked
<1>3. ASSUME NEW a \in up[c]
      PROVE  /\ f # key[a]
             /\ f < key[a] => left[a] \in up[c] \cup {c}
             /\ key[a] < f => right[a] \in up[c] \cup {c}
  <2>1. CASE a = q
    BY <1>1, <2>1
  <2>2. CASE a \in up[q]
    BY <1>2, <2>2 DEF Visits
  <2>. QED
    BY <1>2, <1>3, <2>1, <2>2
<1>. QED
  BY <1>2, <1>3 DEF Visits

\* There is no node on that side: there is none of that name.
LEMMA NotThere ==
  ASSUME NEW A, NEW key, NEW left, NEW right, NEW root, NEW up,
         Tree(A, key, left, right, root, up), NEW f \in Nat, NEW q \in A,
         Visits(key, left, right, up, f, q), f # key[q],
         (IF f < key[q] THEN left[q] ELSE right[q]) = NULL
  PROVE  \A b \in A : key[b] # f
<1>1. SUFFICES ASSUME NEW b \in A, key[b] = f PROVE FALSE
  OBVIOUS
<1>2. Visits(key, left, right, up, f, b) /\ NULL \notin A /\ key[q] \in Nat /\ Above(A, up)
  BY <1>1 DEF Tree
<1>3. q = b \/ q \in up[b] \/ b \in up[q]
  BY <1>2, Chain
<1>4. b \notin up[q] /\ q # b
  BY <1>1 DEF Visits
<1>5. q \notin up[b]
  BY <1>2 DEF Visits, Above
<1>. QED
  BY <1>3, <1>4, <1>5

\* What a name is less than on its way to a node, the node is less than.
LEMMA SameSide ==
  ASSUME NEW A, NEW key, NEW left, NEW right, NEW root, NEW up,
         Tree(A, key, left, right, root, up), NEW f \in Nat, NEW q \in A,
         Visits(key, left, right, up, f, q), NEW a \in up[q]
  PROVE  key[q] < key[a] <=> f < key[a]
<1>1. /\ a \in A /\ key[a] \in Nat /\ key[q] \in Nat /\ NULL \notin A /\ up[q] \subseteq A
      /\ LeftLinked(A, key, left, up) /\ RightLinked(A, key, right, up) /\ Sided(A, key, up)
  BY DEF Tree, Above
<1>2. CASE f < key[a]
  <2>1. left[a] \in up[q] \cup {q} /\ left[a] # NULL
    BY <1>1, <1>2 DEF Visits
  <2>2. a \in up[left[a]] /\ key[left[a]] < key[a]
    BY <1>1, <2>1 DEF LeftLinked
  <2>. QED
    BY <1>1, <1>2, <2>1, <2>2 DEF Sided
<1>3. CASE key[a] < f
  <2>1. right[a] \in up[q] \cup {q} /\ right[a] # NULL
    BY <1>1, <1>3 DEF Visits
  <2>2. a \in up[right[a]] /\ key[a] < key[right[a]] /\ key[right[a]] \in Nat
    BY <1>1, <2>1 DEF RightLinked, Tree
  <2>3. ~(key[right[a]] < key[a])
    BY <1>1, <2>2
  <2>4. ~(key[q] < key[a])
    BY <1>1, <2>1, <2>2, <2>3 DEF Sided
  <2>. QED
    BY <1>1, <1>3, <2>4
<1>. QED
  BY <1>1, <1>2, <1>3 DEF Visits

LEMMA OneParent ==
  ASSUME NEW A, NEW key, NEW left, NEW right, NEW root, NEW up,
         Tree(A, key, left, right, root, up), NEW a \in A, NEW b \in A, NEW q \in A
  PROVE  /\ left[a] = q /\ left[b] = q => a = b
         /\ right[a] = q /\ right[b] = q => a = b
         /\ ~(left[a] = q /\ right[b] = q)
<1>1. /\ Above(A, up) /\ LeftLinked(A, key, left, up) /\ RightLinked(A, key, right, up)
      /\ NULL \notin A /\ key \in [A -> Nat]
  BY DEF Tree
<1>2. ASSUME up[q] = up[a] \cup {a}, up[q] = up[b] \cup {b} PROVE a = b
  <2>1. SUFFICES ASSUME a # b PROVE FALSE
    OBVIOUS
  <2>2. a \in up[b] /\ b \in up[a]
    BY <1>2, <2>1
  <2>. QED
    BY <1>1, <2>2 DEF Above
<1>3. left[a] = q => up[q] = up[a] \cup {a} /\ key[q] < key[a]
  BY <1>1 DEF LeftLinked
<1>4. left[b] = q => up[q] = up[b] \cup {b}
  BY <1>1 DEF LeftLinked
<1>5. right[a] = q => up[q] = up[a] \cup {a}
  BY <1>1 DEF RightLinked
<1>6. right[b] = q => up[q] = up[b] \cup {b} /\ key[b] < key[q]
  BY <1>1 DEF RightLinked
<1>7. ~(left[a] = q /\ right[b] = q)
  <2>1. SUFFICES ASSUME left[a] = q, right[b] = q PROVE FALSE
    OBVIOUS
  <2>2. a = b
    BY <1>2, <1>3, <1>6, <2>1
  <2>. QED
    BY <1>1, <1>3, <1>6, <2>1, <2>2
<1>. QED
  BY <1>2, <1>3, <1>4, <1>5, <1>6, <1>7

\* Every node but the root is a side of a node above it.
LEMMA HasParent ==
  ASSUME NEW A, NEW key, NEW left, NEW right, NEW root, NEW up,
         Tree(A, key, left, right, root, up), NEW b \in A, b # root
  PROVE  \E a \in up[b] : left[a] = b \/ right[a] = b
<1>1. /\ IsFiniteSet(A) /\ NULL \notin A /\ Above(A, up) /\ Rooted(A, root, up) /\ key \in [A -> Nat]
      /\ LeftLinked(A, key, left, up) /\ RightLinked(A, key, right, up)
      /\ Visits(key, left, right, up, key[b], b)
  BY DEF Tree
<1>2. up[b] \in SUBSET A /\ up[b] # {}
  BY <1>1 DEF Above, Rooted
<1>3. PICK a \in up[b] : \A x \in up[b] : a \notin up[x]
  BY <1>1, <1>2, Deepest
<1>4. key[a] \in Nat /\ key[b] \in Nat /\ key[b] # key[a] /\ a \in A
  BY <1>1, <1>2 DEF Visits
<1>5. CASE key[b] < key[a]
  <2>1. left[a] \in up[b] \cup {b} /\ left[a] # NULL
    BY <1>1, <1>2, <1>5 DEF Visits
  <2>2. a \in up[left[a]]
    BY <1>1, <1>4, <2>1 DEF LeftLinked
  <2>. QED
    BY <1>3, <2>1, <2>2
<1>6. CASE key[a] < key[b]
  <2>1. right[a] \in up[b] \cup {b} /\ right[a] # NULL
    BY <1>1, <1>2, <1>6 DEF Visits
  <2>2. a \in up[right[a]]
    BY <1>1, <1>4, <2>1 DEF RightLinked
  <2>. QED
    BY <1>3, <2>1, <2>2
<1>. QED
  BY <1>4, <1>5, <1>6

-----------------------------------------------------------------------------
\* Changing a tree.

\* A node c without sides is put where the walk of name f ended: to the side of q,
\* or, in an empty tree, as the root (q is then NULL).
LEMMA LeafAdded ==
  ASSUME NEW A, NEW key, NEW left, NEW right, NEW root, NEW up,
         Tree(A, key, left, right, root, up), NEW f \in Nat, NEW q, NEW c, c \notin A, c # NULL,
         IF q = NULL THEN root = NULL
         ELSE /\ q \in A /\ Visits(key, left, right, up, f, q) /\ f # key[q]
              /\ (IF f < key[q] THEN left[q] ELSE right[q]) = NULL,
         NEW key2, NEW left2, NEW right2, NEW root2,
         key2 \in [A \cup {c} -> Nat], key2[c] = f, \A b \in A : key2[b] = key[b],
         left2[c] = NULL, right2[c] = NULL,
         \A b \in A : left2[b] = IF b = q /\ f < key[q] THEN c ELSE left[b],
         \A b \in A : right2[b] = IF b = q /\ ~(f < key[q]) THEN c ELSE right[b],
         root2 = IF q = NULL THEN c ELSE root
  PROVE  IsTree(A \cup {c}, key2, left2, right2, root2)
<1> DEFINE A2  == A \cup {c}
           on  == IF q = NULL THEN {} ELSE up[q] \cup {q}
           up2 == [b \in A2 |-> IF b = c THEN on ELSE up[b]]
<1>1. /\ IsFiniteSet(A) /\ NULL \notin A /\ Above(A, up) /\ Rooted(A, root, up) /\ key \in [A -> Nat]
      /\ LeftLinked(A, key, left, up) /\ RightLinked(A, key, right, up) /\ Sided(A, key, up)
      /\ \A b \in A : Visits(key, left, right, up, key[b], b)
  BY DEF Tree
<1>2. /\ on \subseteq A /\ c \notin on /\ \A a \in on : up[a] \subseteq on
      /\ \A b \in A : up[b] \subseteq A
  BY <1>1 DEF Above, Rooted
<1>3. up2[c] = on /\ (\A b \in A : up2[b] = up[b]) /\ up2 \in [A2 -> SUBSET A2]
  BY <1>2
<1>4. q = NULL => A = {}
  BY <1>1 DEF Rooted
<1> HIDE DEF up2
<1>5. Above(A2, up2)
  BY <1>1, <1>2, <1>3 DEF Above
<1>6. Rooted(A2, root2, up2)
  BY <1>1, <1>3, <1>4 DEF Rooted
<1>7. LeftLinked(A2, key2, left2, up2)
  <2>1. ASSUME NEW b \in A, left2[b] # NULL
        PROVE  left2[b] \in A2 /\ up2[left2[b]] = up2[b] \cup {b} /\ key2[left2[b]] < key2[b]
    <3>1. CASE b = q /\ f < key[q]
      BY <1>1, <1>3, <3>1
    <3>2. CASE ~(b = q /\ f < key[q])
      BY <1>1, <1>3, <2>1, <3>2 DEF LeftLinked
    <3>. QED
      BY <3>1, <3>2
  <2>. QED
    BY <2>1 DEF LeftLinked
<1>8. RightLinked(A2, key2, right2, up2)
  <2>1. ASSUME NEW b \in A, right2[b] # NULL
        PROVE  right2[b] \in A2 /\ up2[right2[b]] = up2[b] \cup {b} /\ key2[b] < key2[right2[b]]
    <3>1. CASE b = q /\ ~(f < key[q])
      BY <1>1, <1>3, <3>1
    <3>2. CASE ~(b = q /\ ~(f < key[q]))
      BY <1>1, <1>3, <2>1, <3>2 DEF RightLinked
    <3>. QED
      BY <3>1, <3>2
  <2>. QED
    BY <2>1 DEF RightLinked
<1>9. ASSUME NEW b \in A2 PROVE Visits(key2, left2, right2, up2, key2[b], b)
  <2>1. CASE b \in A
    <3>1. SUFFICES ASSUME NEW a \in up[b]
                   PROVE  /\ key[b] # key[a]
                          /\ key[b] < key[a] => left2[a] \in up[b] \cup {b}
                          /\ key[a] < key[b] => right2[a] \in up[b] \cup {b}
      BY <1>2, <1>3, <2>1 DEF Visits
    <3>2. /\ key[b] # key[a] /\ a \in A /\ key[a] \in Nat /\ key[b] \in Nat
          /\ key[b] < key[a] => left[a] \in up[b] \cup {b}
          /\ key[a] < key[b] => right[a] \in up[b] \cup {b}
      BY <1>1, <1>2, <2>1 DEF Visits
    <3>3. up[b] \cup {b} \subseteq A
      BY <1>2, <2>1
    <3>4. key[b] < key[a] => left2[a] = left[a]
      BY <1>1, <3>2, <3>3
    <3>5. key[a] < key[b] => right2[a] = right[a]
      BY <1>1, <3>2, <3>3
    <3>. QED
      BY <3>2, <3>4, <3>5
  <2>2. CASE b = c
    <3>1. SUFFICES ASSUME NEW a \in on
                   PROVE  /\ f # key[a]
                          /\ f < key[a] => left2[a] \in on \cup {c}
                          /\ key[a] < f => right2[a] \in on \cup {c}
      BY <1>2, <1>3, <2>2 DEF Visits
    <3>2. CASE a = q
      BY <1>1, <3>2
    <3>3. CASE a # q
      <4>1. a \in up[q] /\ a \in A /\ q # NULL
        BY <1>2, <3>3
      <4>2. left2[a] = left[a] /\ right2[a] = right[a]
        BY <3>3, <4>1
      <4>. QED
        BY <4>1, <4>2 DEF Visits
    <3>. QED
      BY <3>2, <3>3
  <2>. QED
    BY <2>1, <2>2
<1>10. Sided(A2, key2, up2)
  <2>1. ASSUME NEW y \in A2, NEW x \in up2[y], NEW a \in up2[x]
        PROVE  key2[x] < key2[a] <=> key2[y] < key2[a]
    <3>1. CASE y \in A
      BY <1>1, <1>2, <1>3, <2>1, <3>1 DEF Sided
    <3>2. CASE y = c
      <4>1. q # NULL /\ x \in A /\ a \in up[x] /\ a \in up[q] /\ a \in A
        <5>1. q # NULL /\ x \in up[q] \cup {q} /\ x \in A
          BY <1>2, <1>3, <2>1, <3>2
        <5>2. q \in A /\ a \in up[x]
          BY <1>2, <1>3, <2>1, <5>1
        <5>3. a \in up[q]
          BY <1>1, <5>1, <5>2 DEF Above
        <5>. QED
          BY <1>2, <5>1, <5>2, <5>3
      <4>2. key[q] < key[a] <=> f < key[a]
        BY <4>1, SameSide
      <4>3. key[x] < key[a] <=> key[q] < key[a]
        BY <1>1, <1>3, <2>1, <3>2, <4>1 DEF Sided
      <4>. QED
        BY <3>2, <4>1, <4>2, <4>3
    <3>. QED
      BY <3>1, <3>2
  <2>. QED
    BY <2>1 DEF Sided
<1>11. IsFiniteSet(A2) /\ NULL \notin A2
  BY <1>1, FS_AddElement
<1>. QED
  BY <1>5, <1>6, <1>7, <1>8, <1>9, <1>10, <1>11 DEF Tree, IsTree

\* A node q without a right side gives way to its left side.
WithLeft(A, key, left, right, root, q, key2, left2, right2, root2) ==
  /\ key2 \in [A \ {q} -> Nat] /\ \A b \in A \ {q} : key2[b] = key[b]
  /\ \A b \in A \ {q} : left2[b] = IF left[b] = q THEN left[q] ELSE left[b]
  /\ \A b \in A \ {q} : right2[b] = IF right[b] = q THEN left[q] ELSE right[b]
  /\ root2 = IF root = q THEN left[q] ELSE root

LEMMA NodeReplaced ==
  ASSUME NEW A, NEW key, NEW left, NEW right, NEW root, NEW up,
         Tree(A, key, left, right, root, up), NEW q \in A, right[q] = NULL,
         NEW key2, NEW left2, NEW right2, NEW root2,
         WithLeft(A, key, left, right, root, q, key2, left2, right2, root2)
  PROVE  IsTree(A \ {q}, key2, left2, right2, root2)
<1> DEFINE A2  == A \ {q}
           up2 == [b \in A2 |-> up[b] \ {q}]
<1>1. /\ IsFiniteSet(A) /\ NULL \notin A /\ Above(A, up) /\ Rooted(A, root, up) /\ key \in [A -> Nat]
      /\ LeftLinked(A, key, left, up) /\ RightLinked(A, key, right, up) /\ Sided(A, key, up)
      /\ \A b \in A : Visits(key, left, right, up, key[b], b)
  BY DEF Tree
<1> USE DEF WithLeft
<1>2. \A b \in A : up[b] \subseteq A
  BY <1>1 DEF Above
<1>3. up2 \in [A2 -> SUBSET A2] /\ \A b \in A2 : up2[b] = up[b] \ {q}
  BY <1>2
<1> HIDE DEF up2
\* What is below q is below its left side.
<1>4. ASSUME NEW b \in A, q \in up[b]
      PROVE  left[q] \in (up[b] \cup {b}) \ {q} /\ left[q] \in A /\ left[q] # NULL
  <2>1. left[q] \in up[b] \cup {b}
    BY <1>1, <1>2, <1>4 DEF Visits
  <2>. QED
    BY <1>1, <1>2, <1>4, <2>1 DEF LeftLinked, Above
<1>5. Above(A2, up2)
  BY <1>1, <1>2, <1>3 DEF Above
<1>6. Rooted(A2, root2, up2)
  <2>1. CASE root # q
    BY <1>1, <1>3, <2>1 DEF Rooted
  <2>2. CASE root = q
    <3>1. \A b \in A2 : q \in up[b]
      BY <1>1, <2>2 DEF Rooted
    <3>2. CASE left[q] = NULL
      BY <1>4, <2>2, <3>1, <3>2 DEF Rooted
    <3>3. CASE left[q] # NULL
      <4>1. left[q] \in A /\ up[left[q]] = up[q] \cup {q} /\ up[q] = {} /\ left[q] # q
        BY <1>1, <2>2, <3>3 DEF LeftLinked, Rooted, Above
      <4>. QED
        BY <1>1, <1>3, <1>4, <2>2, <3>1, <3>3, <4>1 DEF Rooted
    <3>. QED
      BY <3>2, <3>3
  <2>. QED
    BY <2>1, <2>2
\* The left side of q, as a side of the node that had q.
<1>7. ASSUME NEW b \in A2, up[q] = up[b] \cup {b}, left[q] # NULL
      PROVE  /\ left[q] \in A2 /\ up2[left[q]] = up2[b] \cup {b}
             /\ key[left[q]] < key[b] <=> key[q] < key[b]
  <2>1. left[q] \in A /\ up[left[q]] = up[q] \cup {q} /\ q \notin up[q] /\ left[q] # q
    BY <1>1, <1>7 DEF LeftLinked, Above
  <2>2. q \notin up[b]
    BY <1>7, <2>1
  <2>3. up2[left[q]] = up2[b] \cup {b}
    BY <1>3, <1>7, <2>1, <2>2
  <2>4. key[left[q]] < key[b] <=> key[q] < key[b]
    BY <1>1, <1>7, <2>1 DEF Sided
  <2>. QED
    BY <2>1, <2>3, <2>4
<1>8. LeftLinked(A2, key2, left2, up2)
  <2>1. ASSUME NEW b \in A2, left2[b] # NULL
        PROVE  left2[b] \in A2 /\ up2[left2[b]] = up2[b] \cup {b} /\ key2[left2[b]] < key2[b]
    <3>1. CASE left[b] = q
      BY <1>1, <1>7, <2>1, <3>1 DEF LeftLinked
    <3>2. CASE left[b] # q
      BY <1>1, <1>3, <2>1, <3>2 DEF LeftLinked
    <3>. QED
      BY <3>1, <3>2
  <2>. QED
    BY <2>1 DEF LeftLinked
<1>9. RightLinked(A2, key2, right2, up2)
  <2>1. ASSUME NEW b \in A2, right2[b] # NULL
        PROVE  right2[b] \in A2 /\ up2[right2[b]] = up2[b] \cup {b} /\ key2[b] < key2[right2[b]]
    <3>1. CASE right[b] = q
      <4>1. up[q] = up[b] \cup {b} /\ key[b] < key[q] /\ left[q] # NULL /\ right2[b] = left[q]
        BY <1>1, <2>1, <3>1 DEF RightLinked
      <4>2. left[q] \in A2 /\ up2[left[q]] = up2[b] \cup {b} /\ ~(key[left[q]] < key[b])
        BY <1>1, <1>7, <2>1, <4>1
      <4>3. key[left[q]] # key[b] /\ key[left[q]] \in Nat /\ key[b] \in Nat
        <5>1. b \in up[left[q]] /\ left[q] \in A
          BY <1>1, <2>1, <4>1, <4>2 DEF LeftLinked
        <5>. QED
          BY <1>1, <5>1 DEF Visits
      <4>. QED
        BY <4>1, <4>2, <4>3
    <3>2. CASE right[b] # q
      BY <1>1, <1>3, <2>1, <3>2 DEF RightLinked
    <3>. QED
      BY <3>1, <3>2
  <2>. QED
    BY <2>1 DEF RightLinked
<1>10. ASSUME NEW b \in A2 PROVE Visits(key2, left2, right2, up2, key2[b], b)
  <2>1. SUFFICES ASSUME NEW a \in up[b] \ {q}
                 PROVE  /\ key[b] # key[a]
                        /\ key[b] < key[a] => left2[a] \in (up[b] \cup {b}) \ {q}
                        /\ key[a] < key[b] => right2[a] \in (up[b] \cup {b}) \ {q}
    BY <1>2, <1>3 DEF Visits
  <2>2. /\ key[b] # key[a] /\ a \in A2
        /\ key[b] < key[a] => left[a] \in up[b] \cup {b}
        /\ key[a] < key[b] => right[a] \in up[b] \cup {b}
    BY <1>1, <1>2 DEF Visits
  <2>3. left[a] = q /\ left[a] \in up[b] \cup {b} => q \in up[b]
    OBVIOUS
  <2>4. right[a] = q /\ right[a] \in up[b] \cup {b} => q \in up[b]
    OBVIOUS
  <2>. QED
    BY <1>4, <2>2, <2>3, <2>4
<1>11. Sided(A2, key2, up2)
  BY <1>1, <1>2, <1>3 DEF Sided
<1>12. IsFiniteSet(A2) /\ NULL \notin A2
  BY <1>1, FS_RemoveElement
<1>. QED
  BY <1>5, <1>6, <1>8, <1>9, <1>10, <1>11, <1>12 DEF Tree, IsTree

\* The least node of the right side of q, by the way find_min comes to it.
Least(key, left, right, up, q, min) ==
  /\ right[q] # NULL /\ q \in up[min] /\ right[q] \in up[min] \cup {min}
  /\ left[min] = NULL
  /\ \A a \in up[min] : q \in up[a] => key[min] < key[a]

LEMMA LeastIsLess ==
  ASSUME NEW A, NEW key, NEW left, NEW right, NEW root, NEW up,
         Tree(A, key, left, right, root, up), NEW q \in A, NEW min \in A,
         Least(key, left, right, up, q, min),
         NEW b \in A, q \in up[b], b # min
  PROVE  key[b] < key[min] <=> key[b] < key[q]
<1> DEFINE S == (up[min] \cup {min}) \cap (up[b] \cup {b}) \cap {x \in A : q \in up[x]}
<1>1. /\ IsFiniteSet(A) /\ NULL \notin A /\ Above(A, up) /\ key \in [A -> Nat]
      /\ LeftLinked(A, key, left, up) /\ RightLinked(A, key, right, up) /\ Sided(A, key, up)
      /\ \A x \in A : Visits(key, left, right, up, key[x], x)
  BY DEF Tree
<1>2. /\ up[min] \subseteq A /\ up[b] \subseteq A
      /\ key[b] \in Nat /\ key[min] \in Nat /\ key[q] \in Nat /\ key[b] # key[q]
  BY <1>1 DEF Above, Visits
<1>3. right[q] \in A /\ q \in up[right[q]] /\ key[q] < key[right[q]] /\ key[right[q]] \in Nat
  BY <1>1, <1>2 DEF Least, RightLinked
<1>4. key[q] < key[min]
  <2>1. CASE right[q] = min
    BY <1>3, <2>1
  <2>2. CASE right[q] \in up[min]
    <3>1. key[right[q]] < key[q] <=> key[min] < key[q]
      BY <1>1, <1>3, <2>2 DEF Sided
    <3>2. q \in up[min] /\ key[min] # key[q]
      BY <1>1 DEF Least, Visits
    <3>. QED
      BY <1>2, <1>3, <3>1, <3>2
  <2>. QED
    BY <2>1, <2>2 DEF Least
<1>5. SUFFICES ASSUME key[q] < key[b] PROVE key[min] < key[b]
  BY <1>2, <1>4
<1>6. S \in SUBSET A /\ right[q] \in S
  <2>1. right[q] \in up[b] \cup {b}
    BY <1>1, <1>5 DEF Visits
  <2>. QED
    BY <1>3, <2>1 DEF Least
<1>7. PICK a \in S : \A x \in S : a \notin up[x]
  <2> HIDE DEF S
  <2>1. S # {}
    BY <1>6
  <2>. QED
    BY <1>1, <1>6, <2>1, Deepest
<1>8. a \in A /\ key[a] \in Nat /\ q \in up[a]
  BY <1>1
<1>9. CASE a = min
  BY <1>1, <1>2, <1>9 DEF Visits, Least
<1>10. CASE a = b
  BY <1>10 DEF Least
<1>11. CASE a \in up[min] /\ a \in up[b]
  <2>1. key[min] < key[a] /\ key[b] # key[a]
    BY <1>1, <1>8, <1>11 DEF Least, Visits
  <2>2. CASE key[b] < key[a]
    <3>1. left[a] \in up[b] \cup {b} /\ left[a] \in up[min] \cup {min} /\ left[a] # NULL
      BY <1>1, <1>2, <1>11, <2>1, <2>2 DEF Visits
    <3>2. left[a] \in A /\ a \in up[left[a]] /\ q \in up[left[a]]
      BY <1>1, <1>8, <3>1 DEF LeftLinked
    <3>. QED
      BY <1>7, <3>1, <3>2
  <2>. QED
    BY <1>2, <1>8, <2>1, <2>2
<1>. QED
  BY <1>7, <1>9, <1>10, <1>11

\* Node q gives way to the least node of its right side.
WithLeast(A, key, left, right, root, q, min, key2, left2, right2, root2) ==
  /\ key2 \in [A \ {q} -> Nat] /\ \A b \in A \ {q} : key2[b] = key[b]
  /\ \A b \in A \ {q, min} :
       left2[b] = IF left[b] = q THEN min ELSE IF left[b] = min THEN right[min] ELSE left[b]
  /\ left2[min] = left[q]
  /\ \A b \in A \ {q, min} : right2[b] = IF right[b] = q THEN min ELSE right[b]
  /\ right2[min] = IF right[q] = min THEN right[min] ELSE right[q]
  /\ root2 = IF root = q THEN min ELSE root

LEMMA NodeMoved ==
  ASSUME NEW A, NEW key, NEW left, NEW right, NEW root, NEW up,
         Tree(A, key, left, right, root, up), NEW q \in A, NEW min \in A,
         Least(key, left, right, up, q, min),
         NEW key2, NEW left2, NEW right2, NEW root2,
         WithLeast(A, key, left, right, root, q, min, key2, left2, right2, root2)
  PROVE  IsTree(A \ {q}, key2, left2, right2, root2)
<1> DEFINE A2  == A \ {q}
           up2 == [b \in A2 |-> IF b = min THEN up[q]
                                ELSE IF q \in up[b] THEN (up[b] \ {q}) \cup {min} ELSE up[b]]
<1>1. /\ IsFiniteSet(A) /\ NULL \notin A /\ Above(A, up) /\ Rooted(A, root, up) /\ key \in [A -> Nat]
      /\ LeftLinked(A, key, left, up) /\ RightLinked(A, key, right, up) /\ Sided(A, key, up)
      /\ \A b \in A : Visits(key, left, right, up, key[b], b)
  BY DEF Tree
<1> USE DEF WithLeast
<1>2. /\ \A b \in A : up[b] \subseteq A /\ b \notin up[b]
      /\ \A b \in A : \A a \in up[b] : up[a] \subseteq up[b]
  BY <1>1 DEF Above
<1>3. /\ q \in up[min] /\ min # q /\ min \notin up[q] /\ min \in A2 /\ q \notin up[q]
      /\ \A a \in up[q] : q \notin up[a] /\ a # q /\ a # min
      /\ \A b \in A : min \in up[b] => q \in up[b]
  BY <1>1, <1>2 DEF Least
<1>4. /\ up2[min] = up[q]
      /\ \A b \in A2 : b # min /\ q \in up[b] => up2[b] = (up[b] \ {q}) \cup {min}
      /\ \A b \in A2 : b # min /\ q \notin up[b] => up2[b] = up[b]
      /\ up2 \in [A2 -> SUBSET A2]
  BY <1>2, <1>3
<1> HIDE DEF up2
<1>5. \A b \in A2 : b # min /\ q \in up[b] => (key[b] < key[min] <=> key[b] < key[q])
  BY LeastIsLess
<1>6. /\ key[q] \in Nat /\ key[min] \in Nat /\ key[q] < key[min]
      /\ right[q] \in A /\ up[right[q]] = up[q] \cup {q} /\ right[q] # NULL
  <2>1. /\ right[q] \in A /\ up[right[q]] = up[q] \cup {q} /\ key[q] < key[right[q]] /\ right[q] # NULL
        /\ right[q] \in up[min] \cup {min}
    BY <1>1 DEF Least, RightLinked
  <2>2. CASE right[q] = min
    BY <1>1, <2>1, <2>2
  <2>3. CASE right[q] \in up[min]
    <3>1. key[right[q]] < key[q] <=> key[min] < key[q]
      BY <1>1, <2>1, <2>3 DEF Sided
    <3>2. key[min] # key[q] /\ key[q] \in Nat /\ key[min] \in Nat /\ key[right[q]] \in Nat
      BY <1>1, <1>3, <2>1 DEF Visits
    <3>. QED
      BY <2>1, <3>1, <3>2
  <2>. QED
    BY <1>1, <2>1, <2>2, <2>3
<1>7. Above(A2, up2)
  <2>1. ASSUME NEW b \in A2 PROVE b \notin up2[b]
    BY <1>2, <1>3, <1>4
  <2>2. ASSUME NEW b \in A2, NEW a \in up2[b] PROVE up2[a] \subseteq up2[b]
    <3>1. CASE b = min
      BY <1>2, <1>3, <1>4, <2>2, <3>1
    <3>2. CASE b # min /\ q \in up[b] /\ a = min
      BY <1>2, <1>3, <1>4, <2>2, <3>2
    <3>3. CASE b # min /\ q \in up[b] /\ a # min
      <4>1. a \in up[b] \ {q} /\ a \in A2 /\ up[a] \subseteq up[b]
        BY <1>2, <1>4, <2>2, <3>3
      <4>2. up2[a] = (up[a] \ {q}) \cup {min} \/ (up2[a] = up[a] /\ q \notin up[a])
        BY <1>4, <3>3, <4>1
      <4>. QED
        BY <1>4, <3>3, <4>1, <4>2
    <3>4. CASE b # min /\ q \notin up[b]
      <4>1. a \in up[b] /\ a \in A2 /\ up[a] \subseteq up[b] /\ a # min /\ q \notin up[a]
        BY <1>2, <1>3, <1>4, <2>2, <3>4
      <4>. QED
        BY <1>4, <3>4, <4>1
    <3>. QED
      BY <3>1, <3>2, <3>3, <3>4
  <2>. QED
    BY <1>4, <2>1, <2>2 DEF Above
<1>8. Rooted(A2, root2, up2)
  <2>1. CASE root = q
    <3>1. root2 = min /\ up2[min] = {} /\ \A b \in A2 : q \in up[b]
      BY <1>1, <1>4, <2>1 DEF Rooted
    <3>. QED
      BY <1>1, <1>3, <1>4, <3>1 DEF Rooted
  <2>2. CASE root # q
    <3>1. /\ root \in A2 /\ up[root] = {} /\ root # min /\ root2 = root /\ root # NULL
          /\ root \in up[q] /\ \A b \in A2 : b = root \/ root \in up[b]
      BY <1>1, <1>3, <2>2 DEF Rooted
    <3>2. ASSUME NEW b \in A2, b # root PROVE root \in up2[b]
      BY <1>4, <2>2, <3>1, <3>2
    <3>. QED
      BY <1>4, <3>1, <3>2 DEF Rooted
  <2>. QED
    BY <2>1, <2>2
\* The least node where q was.
<1>9. ASSUME NEW b \in A2, up[q] = up[b] \cup {b}
      PROVE  /\ b # min /\ up2[min] = up2[b] \cup {b} /\ key[min] # key[b]
             /\ key[min] < key[b] <=> key[q] < key[b]
  <2>1. b \in up[q] /\ b # min /\ q \notin up[b] /\ b \in up[min]
    BY <1>2, <1>3, <1>9
  <2>. QED
    BY <1>1, <1>3, <1>4, <1>9, <2>1 DEF Sided, Visits
\* A node that is not moved.
<1>10. ASSUME NEW b \in A2, NEW d \in A2, b # min, d # min, up[d] = up[b] \cup {b}
       PROVE  up2[d] = up2[b] \cup {b}
  BY <1>4, <1>10
<1>11. LeftLinked(A2, key2, left2, up2)
  <2>1. ASSUME NEW b \in A2, left2[b] # NULL
        PROVE  left2[b] \in A2 /\ up2[left2[b]] = up2[b] \cup {b} /\ key2[left2[b]] < key2[b]
    <3>1. CASE b = min
      <4>1. left[q] \in A /\ up[left[q]] = up[q] \cup {q} /\ key[left[q]] < key[q] /\ left[q] # NULL
        BY <1>1, <2>1, <3>1 DEF LeftLinked
      <4>2. left[q] # min /\ left[q] # q /\ key[left[q]] \in Nat
        BY <1>1, <1>3, <1>6, <4>1
      <4>3. up2[left[q]] = up[q] \cup {min}
        BY <1>3, <1>4, <4>1, <4>2
      <4>. QED
        BY <1>1, <1>3, <1>4, <1>6, <3>1, <4>1, <4>2, <4>3
    <3>2. CASE b # min /\ left[b] = q
      <4>1. up[q] = up[b] \cup {b} /\ key[q] < key[b]
        BY <1>1, <3>2 DEF LeftLinked
      <4>. QED
        BY <1>3, <1>9, <3>2, <4>1
    <3>3. CASE b # min /\ left[b] = min
      <4>1. up[min] = up[b] \cup {b} /\ key[min] < key[b] /\ left2[b] = right[min] /\ right[min] # NULL
        BY <1>1, <1>3, <2>1, <3>3 DEF LeftLinked
      <4>2. right[min] \in A /\ up[right[min]] = up[min] \cup {min} /\ min \in up[right[min]]
        BY <1>1, <4>1 DEF RightLinked
      <4>3. q \in up[b] /\ right[min] # min /\ right[min] # q /\ q \in up[right[min]]
        BY <1>2, <1>3, <4>1, <4>2
      <4>4. up2[right[min]] = (up[right[min]] \ {q}) \cup {min} /\ up2[b] = (up[b] \ {q}) \cup {min}
        BY <1>4, <3>3, <4>2, <4>3
      <4>5. up2[right[min]] = up2[b] \cup {b}
        BY <4>1, <4>2, <4>4
      <4>6. key[right[min]] < key[b]
        BY <1>1, <4>1, <4>2 DEF Sided
      <4>. QED
        BY <4>1, <4>2, <4>3, <4>5, <4>6
    <3>4. CASE b # min /\ left[b] # q /\ left[b] # min
      <4>1. /\ left2[b] = left[b] /\ left[b] \in A2
            /\ up[left[b]] = up[b] \cup {b} /\ key[left[b]] < key[b]
        BY <1>1, <2>1, <3>4 DEF LeftLinked
      <4>. QED
        BY <1>10, <3>4, <4>1
    <3>. QED
      BY <3>1, <3>2, <3>3, <3>4
  <2>. QED
    BY <2>1 DEF LeftLinked
\* The least node is the right side of q or a left side.
<1>12. ASSUME NEW b \in A2 PROVE right[b] # min
  <2>1. SUFFICES ASSUME right[b] = min PROVE FALSE
    OBVIOUS
  <2>2. up[min] = up[b] \cup {b} /\ key[b] < key[min] /\ min # NULL
    BY <1>1, <2>1 DEF RightLinked
  <2>3. q \in up[b]
    BY <1>3, <2>2
  <2>4. key[min] < key[b] /\ key[b] \in Nat
    BY <1>1, <2>2, <2>3 DEF Least
  <2>. QED
    BY <1>6, <2>2, <2>4
<1>13. RightLinked(A2, key2, right2, up2)
  <2>1. ASSUME NEW b \in A2, right2[b] # NULL
        PROVE  right2[b] \in A2 /\ up2[right2[b]] = up2[b] \cup {b} /\ key2[b] < key2[right2[b]]
    <3>1. CASE b = min /\ right[q] = min
      <4>1. /\ right2[b] = right[min] /\ right[min] \in A /\ up[right[min]] = up[min] \cup {min}
            /\ key[min] < key[right[min]]
        BY <1>1, <2>1, <3>1 DEF RightLinked
      <4>2. right[min] # min /\ right[min] # q /\ q \in up[right[min]]
        BY <1>2, <1>3, <4>1
      <4>3. up2[right[min]] = up[q] \cup {min}
        BY <1>3, <1>4, <1>6, <3>1, <4>1, <4>2
      <4>. QED
        BY <1>3, <1>4, <3>1, <4>1, <4>2, <4>3
    <3>2. CASE b = min /\ right[q] # min
      <4>1. right2[b] = right[q] /\ right[q] \in up[min] /\ q \in up[right[q]] /\ right[q] # q
        BY <1>2, <1>6, <3>2 DEF Least
      <4>2. key[min] < key[right[q]]
        BY <4>1 DEF Least
      <4>3. up2[right[q]] = up[q] \cup {min}
        BY <1>3, <1>4, <1>6, <3>2, <4>1
      <4>. QED
        BY <1>3, <1>4, <1>6, <3>2, <4>1, <4>2, <4>3
    <3>3. CASE b # min /\ right[b] = q
      <4>1. up[q] = up[b] \cup {b} /\ key[b] < key[q] /\ right2[b] = min /\ key[b] \in Nat
        BY <1>1, <3>3 DEF RightLinked
      <4>2. up2[min] = up2[b] \cup {b} /\ key[min] # key[b] /\ ~(key[min] < key[b])
        BY <1>6, <1>9, <4>1
      <4>. QED
        BY <1>3, <1>6, <4>1, <4>2
    <3>4. CASE b # min /\ right[b] # q
      <4>1. /\ right2[b] = right[b] /\ right[b] \in A2 /\ right[b] # min
            /\ up[right[b]] = up[b] \cup {b} /\ key[b] < key[right[b]]
        BY <1>1, <1>12, <2>1, <3>4 DEF RightLinked
      <4>. QED
        BY <1>10, <3>4, <4>1
    <3>. QED
      BY <3>1, <3>2, <3>3, <3>4
  <2>. QED
    BY <2>1 DEF RightLinked
\* The sides of a node that is looked for at b, after the move.
<1>14. ASSUME NEW b \in A2, b # min, NEW a \in A2, a # min, a \in up[b], key[b] < key[a]
       PROVE  left2[a] \in up2[b] \cup {b}
  <2>1. left[a] \in up[b] \cup {b} /\ left2[a] = IF left[a] = q THEN min ELSE IF left[a] = min THEN right[min] ELSE left[a]
    BY <1>1, <1>14 DEF Visits
  <2>2. CASE left[a] = q
    <3>1. q \in up[b]
      BY <1>14, <2>1, <2>2
    <3>. QED
      BY <1>4, <1>14, <2>1, <2>2, <3>1
  <2>3. CASE left[a] # q /\ left[a] = min
    <3>1. min \in up[b] /\ q \in up[b] /\ left2[a] = right[min]
      BY <1>3, <1>14, <2>1, <2>3
    <3>2. a \in up[min] /\ key[min] < key[a]
      BY <1>1, <1>14, <2>3 DEF LeftLinked
    <3>3. key[b] # key[min] /\ key[b] \in Nat /\ ~(key[b] < key[min])
      <4>1. up[min] = up[a] \cup {a} /\ q \in up[a]
        BY <1>1, <1>3, <1>14, <2>3 DEF LeftLinked
      <4>2. b \in A /\ key[b] # key[min] /\ key[b] \in Nat
        BY <1>1, <3>1 DEF Visits
      <4>3. left[min] = NULL /\ b \notin up[b]
        BY <1>2 DEF Least
      <4>4. ~(key[b] < key[min])
        BY <1>1, <3>1, <4>2, <4>3, <1>2 DEF Visits
      <4>. QED
        BY <4>2, <4>4
    <3>4. right[min] \in up[b] \cup {b}
      BY <1>1, <1>6, <3>1, <3>3 DEF Visits
    <3>5. right[min] # q /\ right[min] # min
      <4>1. right[min] # NULL
        BY <1>1, <1>2, <3>4
      <4>2. right[min] \in A /\ up[right[min]] = up[min] \cup {min}
        BY <1>1, <4>1 DEF RightLinked
      <4>3. q \notin up[q] /\ min \notin up[min]
        BY <1>2
      <4>. QED
        BY <1>3, <4>2, <4>3
    <3>. QED
      BY <1>4, <1>14, <3>1, <3>4, <3>5
  <2>4. CASE left[a] # q /\ left[a] # min
    BY <1>4, <1>14, <2>1, <2>4
  <2>. QED
    BY <2>2, <2>3, <2>4
<1>15. ASSUME NEW b \in A2, b # min, NEW a \in A2, a # min, a \in up[b], key[a] < key[b]
       PROVE  right2[a] \in up2[b] \cup {b}
  <2>1. right[a] \in up[b] \cup {b} /\ right2[a] = IF right[a] = q THEN min ELSE right[a]
    BY <1>1, <1>15 DEF Visits
  <2>2. CASE right[a] = q
    <3>1. q \in up[b]
      BY <1>15, <2>1, <2>2
    <3>. QED
      BY <1>4, <1>15, <2>1, <2>2, <3>1
  <2>3. CASE right[a] # q
    <3>1. right[a] # min /\ right2[a] = right[a]
      BY <1>12, <2>1, <2>3
    <3>. QED
      BY <1>4, <1>15, <2>1, <2>3, <3>1
  <2>. QED
    BY <2>2, <2>3
<1>16. ASSUME NEW b \in A2 PROVE Visits(key2, left2, right2, up2, key2[b], b)
  <2>1. SUFFICES ASSUME NEW a \in up2[b]
                 PROVE  /\ key[b] # key[a]
                        /\ key[b] < key[a] => left2[a] \in up2[b] \cup {b}
                        /\ key[a] < key[b] => right2[a] \in up2[b] \cup {b}
    BY <1>4 DEF Visits
  <2>2. a \in A2 /\ key[a] \in Nat /\ key[b] \in Nat
    BY <1>1, <1>4
  <2>3. CASE b = min
    <3>1. a \in up[q] /\ a \in up[min] /\ a \in A2 /\ a # min
      BY <1>2, <1>3, <1>4, <2>3, <2>2
    <3>2. key[min] # key[a] /\ key[q] # key[a]
      BY <1>1, <3>1 DEF Visits
    <3>3. key[q] < key[a] <=> key[min] < key[a]
      BY <1>1, <1>3, <3>1 DEF Sided
    <3>4. CASE key[min] < key[a]
      <4>1. left[a] \in up[q] \cup {q}
        BY <1>1, <3>1, <3>3, <3>4 DEF Visits
      <4>2. left2[a] \in up[q] \cup {min}
        BY <1>3, <3>1, <4>1
      <4>. QED
        BY <1>4, <2>2, <2>3, <3>4, <4>2
    <3>5. CASE key[a] < key[min]
      <4>1. key[a] < key[q]
        BY <1>6, <2>2, <3>2, <3>3, <3>5
      <4>2. right[a] \in up[q] \cup {q}
        BY <1>1, <3>1, <4>1 DEF Visits
      <4>3. right2[a] \in up[q] \cup {min}
        BY <1>3, <3>1, <4>2
      <4>. QED
        BY <1>4, <2>2, <2>3, <3>5, <4>3
    <3>. QED
      BY <2>2, <2>3, <3>2, <3>4, <3>5
  <2>4. CASE b # min /\ a = min
    <3>1. q \in up[b] /\ up2[b] = (up[b] \ {q}) \cup {min}
      BY <1>3, <1>4, <2>1, <2>4
    <3>2. key[b] # key[min]
      BY <2>4, KeysDiffer
    <3>3. key[b] # key[q]
      BY <1>1, <3>1 DEF Visits
    <3>4. CASE key[b] < key[min]
      <4>1. key[b] < key[q]
        BY <1>5, <2>4, <3>1, <3>4
      <4>2. left[q] \in up[b] \cup {b}
        BY <1>1, <3>1, <4>1 DEF Visits
      <4>3. left[q] # q /\ left[q] # NULL
        BY <1>1, <1>2, <4>2 DEF LeftLinked
      <4>. QED
        BY <2>4, <2>2, <3>1, <3>4, <4>2, <4>3
    <3>5. CASE key[min] < key[b]
      <4>1. key[q] < key[b]
        BY <1>6, <2>2, <3>5
      <4>2. right[q] \in up[b] \cup {b}
        BY <1>1, <3>1, <4>1 DEF Visits
      <4>3. CASE right[q] = min
        <5>1. min \in up[b] /\ right2[min] = right[min]
          BY <2>4, <4>2, <4>3
        <5>2. right[min] \in up[b] \cup {b}
          BY <1>1, <3>5, <5>1 DEF Visits
        <5>3. right[min] # q
          <6>1. right[min] # NULL
            BY <1>1, <1>2, <5>2
          <6>. QED
            BY <1>1, <1>3, <6>1 DEF RightLinked
        <5>. QED
          BY <2>2, <2>4, <3>1, <3>5, <5>1, <5>2, <5>3
      <4>4. CASE right[q] # min
        BY <1>2, <1>6, <2>2, <2>4, <3>1, <3>5, <4>2, <4>4
      <4>. QED
        BY <4>3, <4>4
    <3>. QED
      BY <2>2, <2>4, <3>2, <3>4, <3>5
  <2>5. CASE b # min /\ a # min
    <3>1. a \in up[b]
      BY <1>4, <2>1, <2>5
    <3>2. key[b] # key[a]
      BY <1>1, <3>1 DEF Visits
    <3>. QED
      BY <1>14, <1>15, <2>2, <2>5, <3>1, <3>2
  <2>. QED
    BY <2>3, <2>4, <2>5
<1>17. Sided(A2, key2, up2)
  <2>1. SUFFICES ASSUME NEW y \in A2, NEW x \in up2[y], NEW a \in up2[x]
                 PROVE  key[x] < key[a] <=> key[y] < key[a]
    BY <1>4 DEF Sided
  <2>2. x \in A2 /\ a \in A2
    BY <1>4
  <2>3. CASE y = min
    <3>1. x \in up[q] /\ x # min /\ q \notin up[x] /\ a \in up[x] /\ a \in up[q] /\ q \in up[min]
      BY <1>2, <1>3, <1>4, <2>1, <2>2, <2>3
    <3>2. key[x] < key[a] <=> key[q] < key[a]
      BY <1>1, <3>1 DEF Sided
    <3>3. key[q] < key[a] <=> key[min] < key[a]
      BY <1>1, <3>1 DEF Sided
    <3>. QED
      BY <2>3, <3>2, <3>3
  <2>4. CASE y # min /\ q \in up[y] /\ x = min
    <3>1. a \in up[q] /\ q \in up[min]
      BY <1>3, <1>4, <2>1, <2>4
    <3>2. key[q] < key[a] <=> key[min] < key[a]
      BY <1>1, <3>1 DEF Sided
    <3>3. key[q] < key[a] <=> key[y] < key[a]
      BY <1>1, <2>4, <3>1 DEF Sided
    <3>. QED
      BY <2>4, <3>2, <3>3
  <2>5. CASE y # min /\ q \in up[y] /\ x # min /\ q \in up[x] /\ a = min
    <3>1. x \in up[y]
      BY <1>4, <2>1, <2>5
    <3>2. key[x] < key[q] <=> key[y] < key[q]
      BY <1>1, <2>5, <3>1 DEF Sided
    <3>3. key[x] < key[min] <=> key[x] < key[q]
      BY <1>5, <2>2, <2>5
    <3>4. key[y] < key[min] <=> key[y] < key[q]
      BY <1>5, <2>5
    <3>. QED
      BY <2>5, <3>2, <3>3, <3>4
  <2>6. CASE y # min /\ x # min /\ a # min
    <3>1. x \in up[y] /\ a \in up[x]
      BY <1>4, <2>1, <2>2, <2>6
    <3>. QED
      BY <1>1, <3>1 DEF Sided
  <2>7. CASE y # min /\ q \notin up[y]
    <3>1. x \in up[y] /\ x # min
      BY <1>3, <1>4, <2>1, <2>7
    <3>2. q \notin up[x]
      BY <1>2, <2>7, <3>1
    <3>3. a \in up[x]
      BY <1>4, <2>1, <2>2, <3>1, <3>2
    <3>. QED
      BY <1>1, <3>1, <3>3 DEF Sided
  <2>8. CASE y # min /\ x # min /\ q \notin up[x] /\ a = min
    BY <1>3, <1>4, <2>1, <2>2, <2>8
  <2>. QED
    BY <2>3, <2>4, <2>5, <2>6, <2>7, <2>8
<1>18. IsFiniteSet(A2) /\ NULL \notin A2
  BY <1>1, FS_RemoveElement
<1>. QED
  BY <1>7, <1>8, <1>11, <1>13, <1>16, <1>17, <1>18 DEF Tree, IsTree

-----------------------------------------------------------------------------
\* The nodes of a heap as a tree.

Heaps == [Cells -> Node \cup {Freed}]

Keys(h)   == [c \in Allocated(h) |-> h[c].key]
Lefts(h)  == [c \in Allocated(h) |-> h[c].left]
Rights(h) == [c \in Allocated(h) |-> h[c].right]

TreeOf(h, root, up)   == Tree(Allocated(h), Keys(h), Lefts(h), Rights(h), root, up)
VisitsOf(h, up, f, q) == Visits(Keys(h), Lefts(h), Rights(h), up, f, q)

\* The nodes on the heap are a tree.
TreeAt(h, root) == \E up : TreeOf(h, root, up)

LEMMA NodeIs ==
  ASSUME NEW h \in Heaps, NEW c \in Allocated(h)
  PROVE  /\ c \in Cells /\ c # NULL /\ h[c] \in Node /\ h[c].key \in Names /\ h[c].key \in Nat
         /\ h[c].left \in Cells \cup {NULL} /\ h[c].right \in Cells \cup {NULL}
         /\ Keys(h)[c] = h[c].key /\ Lefts(h)[c] = h[c].left /\ Rights(h)[c] = h[c].right
BY DEF Heaps, Allocated, Node, Keys, Lefts, Rights, NULL

\* What the root reaches is what is allocated.
LEMMA UnderIs ==
  ASSUME NEW h \in Heaps, NEW root, NEW up, TreeOf(h, root, up)
  PROVE  Under(h, root) = Allocated(h)
<1> DEFINE A == Allocated(h)
           sets == {set \in SUBSET Cells : {root} \cap Cells \subseteq set /\ Closed(h, set)}
<1>1. /\ IsFiniteSet(A) /\ NULL \notin A /\ Above(A, up) /\ Rooted(A, root, up) /\ A \in SUBSET Cells
      /\ LeftLinked(A, Keys(h), Lefts(h), up) /\ RightLinked(A, Keys(h), Rights(h), up)
  BY DEF TreeOf, Tree, Allocated
<1>2. A \in sets
  <2>1. {root} \cap Cells \subseteq A
    BY <1>1 DEF Rooted, NULL
  <2>2. ASSUME NEW c \in A, NEW d \in {h[c].left, h[c].right} \cap Cells PROVE d \in A
    <3>1. d # NULL /\ Lefts(h)[c] = h[c].left /\ Rights(h)[c] = h[c].right
      BY <2>2, NodeIs DEF NULL
    <3>. QED
      BY <1>1, <2>2, <3>1 DEF LeftLinked, RightLinked
  <2>. QED
    BY <1>1, <2>1, <2>2 DEF Closed
<1>3. ASSUME NEW set \in sets PROVE A \subseteq set
  <2> DEFINE missed == A \ set
  <2>1. SUFFICES ASSUME missed # {} PROVE FALSE
    OBVIOUS
  <2>2. missed \in SUBSET A
    OBVIOUS
  <2>3. PICK a \in missed : \A x \in missed : x \notin up[a]
    <3>1. IsFiniteSet(A) /\ Above(A, up) /\ missed # {}
      BY <1>1, <2>1
    <3> HIDE DEF missed, A
    <3>. QED
      BY <2>2, <3>1, Highest
  <2>4. a \in A /\ a # root /\ root \in Cells
    BY <1>1, <1>3, <2>1 DEF Rooted
  <2>5. PICK b \in up[a] : Lefts(h)[b] = a \/ Rights(h)[b] = a
    BY <2>4, HasParent DEF TreeOf
  <2>6. b \in A /\ b \in set /\ a \in Cells
    BY <1>1, <2>3, <2>4, <2>5 DEF Above
  <2>7. h[b].left = a \/ h[b].right = a
    BY <2>5, <2>6, NodeIs
  <2>. QED
    BY <1>3, <2>3, <2>6, <2>7 DEF Closed
<1>4. Under(h, root) = {c \in Cells : \A set \in sets : c \in set}
  BY DEF Under
<1> HIDE DEF sets, A
<1>5. Under(h, root) = A
  BY <1>1, <1>2, <1>3, <1>4
<1>. QED
  BY <1>5 DEF A

\* What a side reaches is less, or greater.
LEMMA OrderIs ==
  ASSUME NEW h \in Heaps, NEW root, NEW up, TreeOf(h, root, up), NEW q \in Allocated(h)
  PROVE  /\ \A c \in Under(h, h[q].left) : h[c].key < h[q].key
         /\ \A c \in Under(h, h[q].right) : h[q].key < h[c].key
<1> DEFINE A == Allocated(h)
           less == {b \in A : q \in up[b] /\ h[b].key < h[q].key}
           more == {b \in A : q \in up[b] /\ h[q].key < h[b].key}
<1>1. /\ NULL \notin A /\ Above(A, up) /\ A \in SUBSET Cells
      /\ LeftLinked(A, Keys(h), Lefts(h), up) /\ RightLinked(A, Keys(h), Rights(h), up)
      /\ Sided(A, Keys(h), up) /\ \A b \in A : VisitsOf(h, up, h[b].key, b)
  BY NodeIs DEF TreeOf, Tree, Allocated, VisitsOf
\* A side of a node below q is to the same side of q.
<1>2. ASSUME NEW b \in A, NEW d \in {h[b].left, h[b].right} \cap Cells
      PROVE  /\ d \in A /\ up[d] = up[b] \cup {b} /\ h[d].key \in Nat /\ h[b].key \in Nat
             /\ q \in up[b] => (h[b].key < h[q].key <=> h[d].key < h[q].key) /\ h[d].key # h[q].key
             /\ b = q /\ d = h[b].left => h[d].key < h[q].key
             /\ b = q /\ d = h[b].right => h[q].key < h[d].key
  <2>1. d # NULL /\ Lefts(h)[b] = h[b].left /\ Rights(h)[b] = h[b].right /\ Keys(h)[b] = h[b].key
    BY <1>2, NodeIs DEF NULL
  <2>2. /\ d \in A /\ up[d] = up[b] \cup {b}
        /\ d = h[b].left => Keys(h)[d] < Keys(h)[b]
        /\ d = h[b].right => Keys(h)[b] < Keys(h)[d]
    BY <1>1, <1>2, <2>1 DEF LeftLinked, RightLinked
  <2>3. Keys(h)[d] = h[d].key /\ Keys(h)[q] = h[q].key /\ h[d].key \in Nat /\ h[b].key \in Nat
    BY <2>2, NodeIs
  <2>4. ASSUME q \in up[b] PROVE (h[b].key < h[q].key <=> h[d].key < h[q].key) /\ h[d].key # h[q].key
    <3>1. b \in up[d] /\ q \in up[d]
      BY <2>2, <2>4
    <3>2. Keys(h)[b] < Keys(h)[q] <=> Keys(h)[d] < Keys(h)[q]
      BY <1>1, <2>2, <2>4, <3>1 DEF Sided
    <3>3. h[d].key # h[q].key
      BY <1>1, <2>2, <2>3, <3>1 DEF VisitsOf, Visits
    <3>. QED
      BY <2>1, <2>3, <3>2, <3>3
  <2>. QED
    BY <2>1, <2>2, <2>3, <2>4
<1>3. ASSUME NEW c \in Under(h, h[q].left) PROVE h[c].key < h[q].key
  <2>1. {h[q].left} \cap Cells \subseteq less
    BY <1>2
  <2>2. Closed(h, less)
    BY <1>2 DEF Closed
  <2>3. less \in SUBSET Cells
    BY <1>1
  <2>4. c \in less
    <3> HIDE DEF less
    <3>. QED
      BY <2>1, <2>2, <2>3 DEF Under
  <2>. QED
    BY <2>4
<1>4. ASSUME NEW c \in Under(h, h[q].right) PROVE h[q].key < h[c].key
  <2>1. {h[q].right} \cap Cells \subseteq more
    BY <1>2
  <2>2. Closed(h, more)
    <3>1. ASSUME NEW b \in more, NEW d \in {h[b].left, h[b].right} \cap Cells PROVE d \in more
      <4>1. /\ d \in A /\ q \in up[d] /\ h[d].key \in Nat /\ h[b].key \in Nat /\ h[q].key \in Nat
            /\ (h[b].key < h[q].key <=> h[d].key < h[q].key) /\ h[d].key # h[q].key
        BY <1>2, <3>1, NodeIs
      <4>2. h[q].key < h[b].key
        BY <3>1
      <4>. QED
        BY <4>1, <4>2
    <3> HIDE DEF more
    <3>. QED
      BY <3>1 DEF Closed
  <2>3. more \in SUBSET Cells
    BY <1>1
  <2>4. c \in more
    <3> HIDE DEF more
    <3>. QED
      BY <2>1, <2>2, <2>3 DEF Under
  <2>. QED
    BY <2>4
<1>. QED
  BY <1>3, <1>4

\* The walk of name f has come to q by way of a.
CameTo(h, root, up, f, a, q) ==
  IF a = NULL THEN q = root
  ELSE /\ a \in Allocated(h) /\ VisitsOf(h, up, f, a) /\ f # h[a].key
       /\ q = IF f < h[a].key THEN h[a].left ELSE h[a].right

LEMMA NoneThere ==
  ASSUME NEW h \in Heaps, NEW root, NEW up, TreeOf(h, root, up), NEW f \in Nat, NEW a,
         CameTo(h, root, up, f, a, NULL)
  PROVE  \A b \in Allocated(h) : h[b].key # f
<1>1. CASE a = NULL
  BY <1>1 DEF CameTo, TreeOf, Tree, Rooted
<1>2. CASE a # NULL
  <2>1. /\ a \in Allocated(h) /\ VisitsOf(h, up, f, a) /\ f # Keys(h)[a]
        /\ (IF f < Keys(h)[a] THEN Lefts(h)[a] ELSE Rights(h)[a]) = NULL
    BY <1>2, NodeIs DEF CameTo
  <2>2. \A b \in Allocated(h) : Keys(h)[b] # f
    BY <2>1, NotThere DEF TreeOf, VisitsOf
  <2>. QED
    BY <2>2, NodeIs
<1>. QED
  BY <1>1, <1>2

\* Node q is a side of a, if that is a node, and of no other.
SideOfOne(h, a, f, q) ==
  \A b \in Allocated(h) : /\ h[b].left = q <=> b = a /\ f < h[b].key
                          /\ h[b].right = q <=> b = a /\ ~(f < h[b].key)

LEMMA NodeThere ==
  ASSUME NEW h \in Heaps, NEW root, NEW up, TreeOf(h, root, up), NEW f \in Nat, NEW a, NEW q,
         CameTo(h, root, up, f, a, q), q # NULL
  PROVE  /\ q \in Allocated(h) /\ VisitsOf(h, up, f, q)
         /\ up[q] = IF a = NULL THEN {} ELSE up[a] \cup {a}
         /\ root = q <=> a = NULL
         /\ SideOfOne(h, a, f, q)
<1> DEFINE A == Allocated(h)
<1>1. /\ NULL \notin A /\ Above(A, up) /\ Rooted(A, root, up)
      /\ LeftLinked(A, Keys(h), Lefts(h), up) /\ RightLinked(A, Keys(h), Rights(h), up)
  BY DEF TreeOf, Tree
<1>2. CASE a = NULL
  <2>1. q \in A /\ up[q] = {} /\ root = q
    BY <1>1, <1>2 DEF CameTo, Rooted
  <2>2. ASSUME NEW b \in A PROVE h[b].left # q /\ h[b].right # q /\ b # a
    <3>1. Lefts(h)[b] = h[b].left /\ Rights(h)[b] = h[b].right
      BY NodeIs
    <3>. QED
      BY <1>1, <1>2, <2>1, <3>1 DEF LeftLinked, RightLinked
  <2>. QED
    BY <1>2, <2>1, <2>2 DEF VisitsOf, Visits, SideOfOne
<1>3. CASE a # NULL
  <2>1. /\ a \in A /\ VisitsOf(h, up, f, a) /\ f # Keys(h)[a] /\ h[a].key = Keys(h)[a]
        /\ q = (IF f < Keys(h)[a] THEN Lefts(h)[a] ELSE Rights(h)[a])
    BY <1>3, NodeIs DEF CameTo
  <2>2. q \in A /\ up[q] = up[a] \cup {a} /\ VisitsOf(h, up, f, q)
    BY <2>1, VisitsNext DEF TreeOf, VisitsOf
  <2>3. root # q
    BY <1>1, <2>1, <2>2 DEF Rooted
  <2>4. ASSUME NEW b \in A
        PROVE  /\ h[b].left = q <=> b = a /\ f < h[b].key
               /\ h[b].right = q <=> b = a /\ ~(f < h[b].key)
    <3>1. /\ Lefts(h)[b] = h[b].left /\ Rights(h)[b] = h[b].right
          /\ Lefts(h)[a] = h[a].left /\ Rights(h)[a] = h[a].right
      BY <2>1, NodeIs
    <3>2. /\ h[b].left = q /\ h[a].left = q => b = a
          /\ h[b].right = q /\ h[a].right = q => b = a
          /\ ~(h[b].left = q /\ h[a].right = q)
          /\ ~(h[a].left = q /\ h[b].right = q)
      BY <2>1, <2>2, <3>1, OneParent DEF TreeOf
    <3>3. CASE f < h[a].key
      <4>1. h[a].left = q
        BY <2>1, <3>1, <3>3
      <4>. QED
        BY <3>2, <3>3, <4>1
    <3>4. CASE ~(f < h[a].key)
      <4>1. h[a].right = q
        BY <2>1, <3>1, <3>4
      <4>. QED
        BY <3>2, <3>4, <4>1
    <3>. QED
      BY <3>3, <3>4
  <2>. QED
    BY <1>3, <2>2, <2>3, <2>4 DEF SideOfOne
<1>. QED
  BY <1>2, <1>3

-----------------------------------------------------------------------------
\* What a call leaves on the heap.

\* There is a free cell for the node of a name that has none.
LEMMA FreeCellIs ==
  ASSUME NEW h \in Heaps, NEW root, NEW up, TreeOf(h, root, up), NEW f \in Names,
         \A b \in Allocated(h) : h[b].key # f
  PROVE  FreeCell(h) \in Cells /\ FreeCell(h) \notin Allocated(h)
<1> DEFINE A == Allocated(h)
<1>1. SUFFICES ASSUME A = Cells PROVE FALSE
  BY DEF FreeCell, Allocated
<1>2. Keys(h) \in Injection(A, Names \ {f})
  <2>1. Keys(h) \in [A -> Names \ {f}]
    <3>1. \A b \in A : Keys(h)[b] \in Names \ {f}
      BY NodeIs
    <3>. QED
      BY <3>1 DEF Keys
  <2>2. ASSUME NEW b \in A, NEW c \in A, Keys(h)[b] = Keys(h)[c] PROVE b = c
    BY <2>2, KeysDiffer DEF TreeOf
  <2>. QED
    BY <2>1, <2>2, Zenon DEF Injection, IsInjective
<1>3. /\ IsFiniteSet(Names \ {f}) /\ Cardinality(Names \ {f}) = Cardinality(Names) - 1
      /\ Cardinality(Names) \in Nat
  BY FS_RemoveElement, FS_CardinalityType
<1>4. Cardinality(A) <= Cardinality(Names \ {f})
  BY <1>2, <1>3, FS_Injection
<1>5. Cardinality(Cells) \in Nat
  BY FS_CardinalityType
<1>. QED
  BY <1>1, <1>3, <1>4, <1>5

\* Node q is returned where the walk of name f came by a.
StoredIn(h, a, f, q)    == IF a = NULL THEN h ELSE [h EXCEPT ![a][Side(h, a, f)] = q]
StoredRoot(root, a, q) == IF a = NULL THEN q ELSE root

\* Heap s is heap h with q there.
StoredAt(s, h, a, f, q) ==
  \A b \in Allocated(h) :
    /\ s[b].key = h[b].key /\ s[b].inumber = h[b].inumber
    /\ s[b].left = IF b = a /\ f < h[b].key THEN q ELSE h[b].left
    /\ s[b].right = IF b = a /\ ~(f < h[b].key) THEN q ELSE h[b].right

LEMMA StoredIs ==
  ASSUME NEW h \in Heaps, NEW a, a # NULL => a \in Allocated(h), NEW f \in Nat,
         NEW q \in Cells \cup {NULL}
  PROVE  /\ StoredIn(h, a, f, q) \in Heaps /\ Allocated(StoredIn(h, a, f, q)) = Allocated(h)
         /\ StoredAt(StoredIn(h, a, f, q), h, a, f, q)
<1> DEFINE s == StoredIn(h, a, f, q)
<1>1. CASE a = NULL
  <2>1. \A b \in Allocated(h) : b # a
    BY <1>1, NodeIs
  <2>. QED
    BY <1>1, <2>1 DEF StoredIn, StoredAt
<1>2. CASE a # NULL
  <2>1. a \in Allocated(h) /\ a \in Cells /\ h[a] \in Node
    BY <1>2, NodeIs
  <2>2. CASE f < h[a].key
    <3>1. s = [h EXCEPT ![a].left = q]
      BY <1>2, <2>2 DEF StoredIn, Side
    <3>2. s[a] = [h[a] EXCEPT !.left = q] /\ \A b \in Cells \ {a} : s[b] = h[b]
      BY <2>1, <3>1 DEF Heaps
    <3> HIDE DEF s
    <3>3. s[a] \in Node
      BY <2>1, <3>2 DEF Node
    <3>4. s \in Heaps
      BY <2>1, <3>1, <3>3 DEF Heaps
    <3>5. Allocated(s) = Allocated(h)
      BY <2>1, <3>2, <3>3 DEF Allocated, Node, Freed
    <3>6. s[a].key = h[a].key /\ s[a].inumber = h[a].inumber /\ s[a].left = q /\ s[a].right = h[a].right
      BY <2>1, <3>2 DEF Node
    <3>7. \A b \in Allocated(h) \ {a} : s[b] = h[b]
      BY <3>2 DEF Allocated
    <3>8. StoredAt(s, h, a, f, q)
      BY <2>2, <3>6, <3>7 DEF StoredAt
    <3>. QED
      BY <3>4, <3>5, <3>8 DEF s
  <2>3. CASE ~(f < h[a].key)
    <3>1. s = [h EXCEPT ![a].right = q]
      BY <1>2, <2>3 DEF StoredIn, Side
    <3>2. s[a] = [h[a] EXCEPT !.right = q] /\ \A b \in Cells \ {a} : s[b] = h[b]
      BY <2>1, <3>1 DEF Heaps
    <3> HIDE DEF s
    <3>3. s[a] \in Node
      BY <2>1, <3>2 DEF Node
    <3>4. s \in Heaps
      BY <2>1, <3>1, <3>3 DEF Heaps
    <3>5. Allocated(s) = Allocated(h)
      BY <2>1, <3>2, <3>3 DEF Allocated, Node, Freed
    <3>6. s[a].key = h[a].key /\ s[a].inumber = h[a].inumber /\ s[a].left = h[a].left /\ s[a].right = q
      BY <2>1, <3>2 DEF Node
    <3>7. \A b \in Allocated(h) \ {a} : s[b] = h[b]
      BY <3>2 DEF Allocated
    <3>8. StoredAt(s, h, a, f, q)
      BY <2>3, <3>6, <3>7 DEF StoredAt
    <3>. QED
      BY <3>4, <3>5, <3>8 DEF s
  <2>. QED
    BY <2>2, <2>3
<1>. QED
  BY <1>1, <1>2

\* A heap with the same nodes is the same tree.
LEMMA SameTree ==
  ASSUME NEW h \in Heaps, NEW root, NEW up, TreeOf(h, root, up), NEW h2 \in Heaps,
         Allocated(h2) = Allocated(h),
         \A b \in Allocated(h) : /\ h2[b].key = h[b].key /\ h2[b].left = h[b].left
                                 /\ h2[b].right = h[b].right
  PROVE  TreeOf(h2, root, up)
<1>1. Keys(h2) = Keys(h) /\ Lefts(h2) = Lefts(h) /\ Rights(h2) = Rights(h)
  BY DEF Keys, Lefts, Rights
<1>. QED
  BY <1>1 DEF TreeOf

\* What was returned before is stored once more.
LEMMA StoredAgain ==
  ASSUME NEW h \in Heaps, NEW root, NEW up, TreeOf(h, root, up), NEW f \in Nat, NEW a, NEW q,
         CameTo(h, root, up, f, a, q)
  PROVE  /\ StoredIn(h, a, f, q) = h /\ StoredRoot(root, a, q) = root
         /\ a # NULL => a \in Allocated(h)
         /\ q \in Cells \cup {NULL}
<1>1. CASE a = NULL
  BY <1>1 DEF CameTo, StoredIn, StoredRoot, TreeOf, Tree, Rooted, Allocated
<1>2. CASE a # NULL
  <2>1. a \in Allocated(h) /\ q = IF f < h[a].key THEN h[a].left ELSE h[a].right
    BY <1>2 DEF CameTo
  <2>2. a \in Cells /\ h[a] \in Node /\ h[a].left \in Cells \cup {NULL} /\ h[a].right \in Cells \cup {NULL}
    BY <2>1, NodeIs
  <2>3. CASE f < h[a].key
    <3>1. StoredIn(h, a, f, q) = [h EXCEPT ![a].left = h[a].left]
      BY <1>2, <2>1, <2>3 DEF StoredIn, Side
    <3>2. [h EXCEPT ![a].left = h[a].left] = h
      BY <2>2 DEF Heaps, Node
    <3>. QED
      BY <1>2, <2>1, <2>2, <3>1, <3>2 DEF StoredRoot
  <2>4. CASE ~(f < h[a].key)
    <3>1. StoredIn(h, a, f, q) = [h EXCEPT ![a].right = h[a].right]
      BY <1>2, <2>1, <2>4 DEF StoredIn, Side
    <3>2. [h EXCEPT ![a].right = h[a].right] = h
      BY <2>2 DEF Heaps, Node
    <3>. QED
      BY <1>2, <2>1, <2>2, <3>1, <3>2 DEF StoredRoot
  <2>. QED
    BY <2>3, <2>4
<1>. QED
  BY <1>1, <1>2

\* insert, of a name that has no node: its node is added.
LEMMA Inserted ==
  ASSUME NEW h \in Heaps, NEW root, NEW up, TreeOf(h, root, up), NEW f \in Names,
         NEW i \in Inumbers \cup {-1}, NEW a, CameTo(h, root, up, f, a, NULL),
         NEW c, c = FreeCell(h), NEW s, s = StoredIn(new_node(h, f, i), a, f, c)
  PROVE  /\ c \in Cells /\ c \notin Allocated(h)
         /\ s \in Heaps /\ Allocated(s) = Allocated(h) \cup {c}
         /\ s[c].key = f /\ s[c].inumber = i
         /\ \A b \in Allocated(h) : s[b].key = h[b].key /\ s[b].inumber = h[b].inumber
         /\ TreeAt(s, StoredRoot(root, a, c))
<1> DEFINE A    == Allocated(h)
           h1   == new_node(h, f, i)
           node == [key |-> f, inumber |-> i, left |-> NULL, right |-> NULL]
<1>1. f \in Nat /\ NULL \notin A /\ \A b \in A : h[b].key # f
  BY NoneThere DEF Allocated, NULL
<1>2. c \in Cells /\ c \notin A /\ c # NULL
  BY <1>1, FreeCellIs DEF NULL
<1>3. node \in Node /\ node # Freed
  BY <1>1 DEF Node, Freed
<1>4. h1 \in Heaps /\ h1[c] = node /\ \A b \in Cells \ {c} : h1[b] = h[b]
  BY <1>2, <1>3 DEF new_node, Heaps
<1>5. Allocated(h1) = A \cup {c} /\ \A b \in A : b # c /\ h1[b] = h[b]
  BY <1>2, <1>3, <1>4 DEF Allocated
<1>6. a # NULL => a \in A
  BY DEF CameTo
<1> HIDE DEF h1, node
<1>7. s = StoredIn(h1, a, f, c) /\ (a # NULL => a \in Allocated(h1))
  BY <1>5, <1>6 DEF h1
<1>8. s \in Heaps /\ Allocated(s) = Allocated(h1) /\ StoredAt(s, h1, a, f, c)
  <2>1. c \in Cells \cup {NULL} /\ h1 \in Heaps /\ (a # NULL => a \in Allocated(h1)) /\ f \in Nat
    BY <1>1, <1>2, <1>4, <1>7
  <2>2. /\ StoredIn(h1, a, f, c) \in Heaps /\ Allocated(StoredIn(h1, a, f, c)) = Allocated(h1)
        /\ StoredAt(StoredIn(h1, a, f, c), h1, a, f, c)
    BY <2>1, StoredIs
  <2>. QED
    BY <1>7, <2>2
<1>9. s[c].key = f /\ s[c].inumber = i /\ s[c].left = NULL /\ s[c].right = NULL
  <2>1. c # a /\ h1[c].key = f /\ h1[c].inumber = i /\ h1[c].left = NULL /\ h1[c].right = NULL
    BY <1>2, <1>4, <1>6 DEF node
  <2>. QED
    BY <1>5, <1>8, <2>1 DEF StoredAt
<1>10. \A b \in A : /\ s[b].key = h[b].key /\ s[b].inumber = h[b].inumber
                    /\ s[b].left = IF b = a /\ f < h[b].key THEN c ELSE h[b].left
                    /\ s[b].right = IF b = a /\ ~(f < h[b].key) THEN c ELSE h[b].right
  BY <1>5, <1>8 DEF StoredAt
<1>11. /\ Keys(s) \in [A \cup {c} -> Nat] /\ Keys(s)[c] = f /\ Lefts(s)[c] = NULL /\ Rights(s)[c] = NULL
       /\ \A b \in A : /\ Keys(s)[b] = Keys(h)[b]
                       /\ Lefts(s)[b] = IF b = a /\ f < Keys(h)[a] THEN c ELSE Lefts(h)[b]
                       /\ Rights(s)[b] = IF b = a /\ ~(f < Keys(h)[a]) THEN c ELSE Rights(h)[b]
  <2>1. Allocated(s) = A \cup {c}
    BY <1>5, <1>8
  <2>2. Keys(s) \in [A \cup {c} -> Nat]
    <3>1. \A b \in A \cup {c} : s[b].key \in Nat
      BY <1>8, <2>1, NodeIs
    <3>. QED
      BY <2>1, <3>1 DEF Keys
  <2>. QED
    BY <1>9, <1>10, <2>1, <2>2 DEF Keys, Lefts, Rights
<1>12. IF a = NULL THEN root = NULL
       ELSE /\ a \in A /\ VisitsOf(h, up, f, a) /\ f # Keys(h)[a]
            /\ (IF f < Keys(h)[a] THEN Lefts(h)[a] ELSE Rights(h)[a]) = NULL
  BY <1>6, NodeIs DEF CameTo
<1>13. StoredRoot(root, a, c) = IF a = NULL THEN c ELSE root
  BY DEF StoredRoot
<1>14. IsTree(A \cup {c}, Keys(s), Lefts(s), Rights(s), StoredRoot(root, a, c))
  BY <1>1, <1>2, <1>11, <1>12, <1>13, LeafAdded DEF TreeOf, VisitsOf
<1>. QED
  BY <1>2, <1>5, <1>8, <1>9, <1>10, <1>14 DEF TreeOf, TreeAt, IsTree

\* insert, of a name that has one: its inumber changes.
\* Heap s is heap h but for the inumber of q; but for node q.
Renewed(s, h, q, i) ==
  /\ q \in Allocated(h) /\ Allocated(s) = Allocated(h) /\ s[q].inumber = i
  /\ \A b \in Allocated(h) : s[b].key = h[b].key /\ (b # q => s[b].inumber = h[b].inumber)

Lost(s, h, q) ==
  /\ q \in Allocated(h) /\ Allocated(s) = Allocated(h) \ {q}
  /\ \A b \in Allocated(s) : s[b].key = h[b].key /\ s[b].inumber = h[b].inumber

LEMMA Rebound ==
  ASSUME NEW h \in Heaps, NEW root, NEW up, TreeOf(h, root, up), NEW f \in Nat,
         NEW i \in Inumbers \cup {-1}, NEW a, NEW q, CameTo(h, root, up, f, a, q), q # NULL,
         NEW s, s = StoredIn([h EXCEPT ![q].inumber = i], a, f, q)
  PROVE  /\ s \in Heaps /\ Renewed(s, h, q, i)
         /\ TreeOf(s, StoredRoot(root, a, q), up)
<1> DEFINE h1 == [h EXCEPT ![q].inumber = i]
<1>1. q \in Allocated(h) /\ q \in Cells /\ h[q] \in Node
  BY NodeThere, NodeIs
<1>2. h1[q] = [h[q] EXCEPT !.inumber = i] /\ \A b \in Cells \ {q} : h1[b] = h[b]
  BY <1>1 DEF Heaps
<1>3. /\ h1[q] \in Node /\ h1[q].inumber = i /\ h1[q].key = h[q].key
      /\ h1[q].left = h[q].left /\ h1[q].right = h[q].right
  BY <1>1, <1>2 DEF Node
<1>4. h1 \in Heaps
  BY <1>1, <1>3 DEF Heaps
<1> HIDE DEF h1
<1>5. Allocated(h1) = Allocated(h)
  BY <1>1, <1>2, <1>3 DEF Allocated, Node, Freed
<1>6. \A b \in Allocated(h) : /\ h1[b].key = h[b].key /\ h1[b].left = h[b].left
                              /\ h1[b].right = h[b].right /\ (b # q => h1[b].inumber = h[b].inumber)
  BY <1>2, <1>3 DEF Allocated
<1>7. TreeOf(h1, root, up)
  BY <1>4, <1>5, <1>6, SameTree
<1>8. CameTo(h1, root, up, f, a, q)
  <2>1. Keys(h1) = Keys(h) /\ Lefts(h1) = Lefts(h) /\ Rights(h1) = Rights(h)
    BY <1>5, <1>6 DEF Keys, Lefts, Rights
  <2>. QED
    BY <1>5, <1>6, <2>1 DEF CameTo, VisitsOf
<1>9. s = h1 /\ StoredRoot(root, a, q) = root
  BY <1>4, <1>7, <1>8, StoredAgain DEF h1
<1>. QED
  BY <1>1, <1>3, <1>4, <1>5, <1>6, <1>7, <1>9 DEF Renewed

\* remove_item, of a node without a right side.
LEMMA Removed ==
  ASSUME NEW h \in Heaps, NEW root, NEW up, TreeOf(h, root, up), NEW f \in Nat,
         NEW a, NEW q, CameTo(h, root, up, f, a, q), q # NULL, h[q].right = NULL,
         NEW s, s = StoredIn([h EXCEPT ![q] = Freed], a, f, h[q].left)
  PROVE  /\ s \in Heaps /\ Lost(s, h, q)
         /\ TreeAt(s, StoredRoot(root, a, h[q].left))
<1> DEFINE A  == Allocated(h)
           h1 == [h EXCEPT ![q] = Freed]
           l  == h[q].left
<1>1. /\ q \in A /\ (root = q <=> a = NULL)
      /\ up[q] = IF a = NULL THEN {} ELSE up[a] \cup {a}
      /\ SideOfOne(h, a, f, q)
  <2>1. /\ q \in Allocated(h) /\ VisitsOf(h, up, f, q)
        /\ up[q] = IF a = NULL THEN {} ELSE up[a] \cup {a}
        /\ root = q <=> a = NULL
        /\ SideOfOne(h, a, f, q)
    BY NodeThere, Zenon
  <2>. QED
    BY <2>1
<1>2. /\ q \in Cells /\ l \in Cells \cup {NULL} /\ Lefts(h)[q] = l /\ Rights(h)[q] = NULL
  BY <1>1, NodeIs
<1>3. a # NULL => a \in A \ {q}
  BY <1>1 DEF CameTo, TreeOf, Tree, Above
<1>4. h1 \in Heaps /\ Allocated(h1) = A \ {q} /\ \A b \in A \ {q} : h1[b] = h[b]
  BY <1>2 DEF Heaps, Allocated
<1> HIDE DEF h1
<1>5. s = StoredIn(h1, a, f, l)
  BY DEF h1
<1>6. s \in Heaps /\ Allocated(s) = A \ {q} /\ StoredAt(s, h1, a, f, l)
  <2>1. a # NULL => a \in Allocated(h1)
    BY <1>3, <1>4
  <2> HIDE DEF l
  <2>2. /\ StoredIn(h1, a, f, l) \in Heaps /\ Allocated(StoredIn(h1, a, f, l)) = Allocated(h1)
        /\ StoredAt(StoredIn(h1, a, f, l), h1, a, f, l)
    <3>1. l \in Cells \cup {NULL} /\ h1 \in Heaps
      BY <1>2, <1>4
    <3>. QED
      BY <2>1, <3>1, StoredIs
  <2>. QED
    BY <1>4, <1>5, <2>2
<1>7. \A b \in A \ {q} :
           /\ s[b].key = h[b].key
           /\ s[b].inumber = h[b].inumber
           /\ s[b].left = IF h[b].left = q THEN l ELSE h[b].left
           /\ s[b].right = IF h[b].right = q THEN l ELSE h[b].right
  BY <1>1, <1>4, <1>6 DEF StoredAt, SideOfOne
<1>8. \A b \in A \ {q} :
           /\ Keys(s)[b] = Keys(h)[b] /\ Keys(h)[b] \in Nat
           /\ Lefts(s)[b] = IF Lefts(h)[b] = q THEN Lefts(h)[q] ELSE Lefts(h)[b]
           /\ Rights(s)[b] = IF Rights(h)[b] = q THEN Lefts(h)[q] ELSE Rights(h)[b]
  BY <1>2, <1>6, <1>7, NodeIs DEF Keys, Lefts, Rights
<1>9. Keys(s) \in [A \ {q} -> Nat]
  BY <1>6, <1>8 DEF Keys
<1>10. StoredRoot(root, a, l) = IF root = q THEN Lefts(h)[q] ELSE root
  BY <1>1, <1>2 DEF StoredRoot
<1> HIDE DEF l
<1>11. IsTree(A \ {q}, Keys(s), Lefts(s), Rights(s), StoredRoot(root, a, l))
  <2>1. Tree(A, Keys(h), Lefts(h), Rights(h), root, up) /\ q \in A /\ Rights(h)[q] = NULL
    BY <1>1, <1>2 DEF TreeOf
  <2>2. WithLeft(A, Keys(h), Lefts(h), Rights(h), root, q,
                 Keys(s), Lefts(s), Rights(s), StoredRoot(root, a, l))
    BY <1>8, <1>9, <1>10 DEF WithLeft
  <2> HIDE DEF A
  <2>. QED
    BY <2>1, <2>2, NodeReplaced
<1>. QED
  BY <1>1, <1>6, <1>7, <1>11 DEF TreeOf, TreeAt, IsTree, l, Lost

\* find_min has come to min, the right side of q or, by way of another node, what is
\* to the left of that.
LeastBy(h, up, q, min, by) ==
  /\ min \in Allocated(h)
  /\ h[q].right # NULL /\ q \in up[min] /\ h[q].right \in up[min] \cup {min}
  /\ \A b \in up[min] : q \in up[b] => h[min].key < h[b].key
  /\ IF min = h[q].right THEN by = q
     ELSE by \in Allocated(h) /\ h[by].left = min /\ q \in up[by]

\* Heap h1 is heap h with its node min where node q was.
JoinedAs(h1, h, q, min) ==
  /\ \A b \in Allocated(h) \ {q} : h1[b].key = h[b].key /\ h1[b].inumber = h[b].inumber
  /\ \A b \in Allocated(h) \ {q, min} :
       /\ h1[b].left = IF h[b].left = min THEN h[min].right ELSE h[b].left
       /\ h1[b].right = h[b].right
  /\ h1[min].left = h[q].left
  /\ h1[min].right = IF h[q].right = min THEN h[min].right ELSE h[q].right

LEMMA JoinedIs ==
  ASSUME NEW h \in Heaps, NEW root, NEW up, TreeOf(h, root, up), NEW q \in Allocated(h),
         NEW min, NEW by, LeastBy(h, up, q, min, by), h[min].left = NULL,
         NEW h1, h1 = Joined(h, q, min, by)
  PROVE  /\ h1 \in Heaps /\ Allocated(h1) = Allocated(h) \ {q}
         /\ JoinedAs(h1, h, q, min)
<1> DEFINE A == Allocated(h)
           r == IF h[q].right = min THEN h[min].right ELSE h[q].right
           moved == [key |-> h[min].key, inumber |-> h[min].inumber, left |-> h[q].left, right |-> r]
<1>1. /\ min \in A /\ min \in Cells /\ min # NULL /\ q \in Cells /\ h[min] \in Node /\ h[q] \in Node
      /\ h[min].left \in Cells \cup {NULL} /\ h[min].right \in Cells \cup {NULL}
      /\ h[q].left \in Cells \cup {NULL} /\ h[q].right \in Cells \cup {NULL}
      /\ Lefts(h)[q] = h[q].left /\ Rights(h)[q] = h[q].right
  BY NodeIs DEF LeastBy
<1>2. min # q /\ \A b \in A : b \notin up[b]
  BY DEF TreeOf, Tree, Above, LeastBy
<1>3. r \in Cells \cup {NULL}
  BY <1>1
<1>4. moved \in Node /\ moved # Freed
  BY <1>1, <1>3 DEF Node, Freed
\* How the heap is put together from what is left of the right side.
<1>5. ASSUME NEW g \in Heaps, Allocated(g) = A, g[min] = h[min],
             h1 = [g EXCEPT ![min].right = r, ![min].left = h[q].left, ![q] = Freed]
      PROVE  /\ h1 \in Heaps /\ Allocated(h1) = A \ {q} /\ h1[min] = moved
             /\ \A b \in A \ {q, min} : h1[b] = g[b]
  <2>1. h1[min] = [g[min] EXCEPT !.right = r, !.left = h[q].left]
    BY <1>1, <1>2, <1>5 DEF Heaps
  <2>2. h1[min] = moved
    BY <1>1, <1>5, <2>1 DEF Node
  <2>3. h1[q] = Freed /\ \A b \in Cells \ {q, min} : h1[b] = g[b]
    BY <1>1, <1>2, <1>5 DEF Heaps
  <2>4. h1 \in [Cells -> Node \cup {Freed}]
    <3>1. \A b \in Cells : h1[b] \in Node \cup {Freed}
      BY <1>4, <1>5, <2>2, <2>3 DEF Heaps
    <3>2. DOMAIN h1 = Cells /\ h1 = [b \in DOMAIN h1 |-> h1[b]]
      BY <1>5 DEF Heaps
    <3>. QED
      BY <3>1, <3>2
  <2> HIDE DEF moved, r
  <2>5. Allocated(h1) = A \ {q}
    <3>1. \A b \in Cells : h1[b] # Freed <=> b # q /\ (b = min \/ g[b] # Freed)
      BY <1>2, <1>4, <2>2, <2>3
    <3>2. \A b \in Cells : b \in A <=> g[b] # Freed
      BY <1>5 DEF Allocated
    <3>. QED
      BY <1>1, <3>1, <3>2 DEF Allocated
  <2>6. \A b \in A \ {q, min} : h1[b] = g[b]
    BY <2>3 DEF Allocated
  <2>. QED
    BY <2>2, <2>4, <2>5, <2>6 DEF Heaps
<1>6. moved.key = h[min].key /\ moved.inumber = h[min].inumber /\ moved.left = h[q].left /\ moved.right = r
  OBVIOUS
<1>7. CASE min = h[q].right
  <2>1. h1 = [h EXCEPT ![min].right = r, ![min].left = h[q].left, ![q] = Freed]
    BY <1>7 DEF Joined, remove_min
  <2>2. /\ h1 \in Heaps /\ Allocated(h1) = A \ {q} /\ h1[min] = moved
        /\ \A b \in A \ {q, min} : h1[b] = h[b]
    BY <1>5, <2>1
  <2>3. ASSUME NEW b \in A PROVE h[b].left # min
    <3>1. Lefts(h)[b] = h[b].left
      BY NodeIs
    <3>2. ~(Lefts(h)[b] = min /\ Rights(h)[q] = min)
      BY <1>1, OneParent DEF TreeOf
    <3>. QED
      BY <1>1, <1>7, <3>1, <3>2
  <2> HIDE DEF moved, r
  <2>4. \A b \in A \ {q, min} :
           h1[b].left = (IF h[b].left = min THEN h[min].right ELSE h[b].left) /\ h1[b].right = h[b].right
    BY <2>2, <2>3
  <2>5. \A b \in A \ {q} : h1[b].key = h[b].key /\ h1[b].inumber = h[b].inumber
    BY <1>6, <2>2
  <2>. QED
    BY <1>6, <2>2, <2>4, <2>5 DEF r, JoinedAs
<1>8. CASE min # h[q].right
  <2> DEFINE g == [h EXCEPT ![by].left = h[min].right]
  <2>1. /\ by \in A /\ by \in Cells /\ h[by] \in Node /\ h[by].left = min /\ by # q /\ by # min
        /\ Lefts(h)[by] = min
    <3>1. by \in A /\ h[by].left = min /\ q \in up[by]
      BY <1>8 DEF LeastBy
    <3>. QED
      BY <1>1, <1>2, <3>1, NodeIs
  <2>2. g[by] = [h[by] EXCEPT !.left = h[min].right] /\ \A b \in Cells \ {by} : g[b] = h[b]
    BY <2>1 DEF Heaps
  <2>3. /\ g[by] \in Node /\ g[by].left = h[min].right /\ g[by].right = h[by].right
        /\ g[by].key = h[by].key /\ g[by].inumber = h[by].inumber
    BY <1>1, <2>1, <2>2 DEF Node
  <2>4. g \in Heaps
    BY <2>1, <2>3 DEF Heaps
  <2>5. h1 = [g EXCEPT ![min].right = r, ![min].left = h[q].left, ![q] = Freed]
    BY <1>8 DEF Joined, remove_min
  <2> HIDE DEF g
  <2>6. Allocated(g) = A
    BY <2>1, <2>2, <2>3 DEF Allocated, Node, Freed
  <2>7. g[min] = h[min]
    BY <1>1, <2>1, <2>2
  <2>8. /\ h1 \in Heaps /\ Allocated(h1) = A \ {q} /\ h1[min] = moved
        /\ \A b \in A \ {q, min} : h1[b] = g[b]
    BY <1>5, <2>4, <2>5, <2>6, <2>7
  <2>9. ASSUME NEW b \in A PROVE h[b].left = min <=> b = by
    <3>1. Lefts(h)[b] = h[b].left
      BY NodeIs
    <3>2. Lefts(h)[b] = min /\ Lefts(h)[by] = min => b = by
      BY <1>1, <2>1, OneParent DEF TreeOf
    <3>. QED
      BY <2>1, <3>1, <3>2
  <2> HIDE DEF moved, r
  <2>10. \A b \in A \ {q, min} :
           /\ h1[b].key = h[b].key /\ h1[b].inumber = h[b].inumber
           /\ h1[b].left = IF h[b].left = min THEN h[min].right ELSE h[b].left
           /\ h1[b].right = h[b].right
    <3>1. \A b \in A \ {q, min} : b \in Cells
      BY DEF Allocated
    <3>. QED
      BY <2>2, <2>3, <2>8, <2>9, <3>1
  <2>11. \A b \in A \ {q} : h1[b].key = h[b].key /\ h1[b].inumber = h[b].inumber
    BY <1>6, <2>8, <2>10
  <2>. QED
    BY <1>6, <2>8, <2>10, <2>11 DEF r, JoinedAs
<1>. QED
  BY <1>7, <1>8

\* remove_item, of a node with a right side.
LEMMA Moved ==
  ASSUME NEW h \in Heaps, NEW root, NEW up, TreeOf(h, root, up), NEW f \in Nat,
         NEW a, NEW q, CameTo(h, root, up, f, a, q), q # NULL,
         NEW min, NEW by, LeastBy(h, up, q, min, by), h[min].left = NULL,
         NEW s, s = StoredIn(Joined(h, q, min, by), a, f, min)
  PROVE  /\ s \in Heaps /\ Lost(s, h, q)
         /\ TreeAt(s, StoredRoot(root, a, min))
<1> DEFINE A  == Allocated(h)
           h1 == Joined(h, q, min, by)
<1>1. /\ q \in Allocated(h) /\ VisitsOf(h, up, f, q)
      /\ up[q] = IF a = NULL THEN {} ELSE up[a] \cup {a}
      /\ root = q <=> a = NULL
      /\ SideOfOne(h, a, f, q)
  BY NodeThere, Zenon
<1>2. /\ min \in A /\ min \in Cells /\ q \in Cells /\ min # q /\ q \notin up[q] /\ q \in up[min]
      /\ \A b \in A : \A d \in up[b] : up[d] \subseteq up[b]
  BY <1>1, NodeIs DEF LeastBy, TreeOf, Tree, Above
<1>3. /\ h1 \in Heaps /\ Allocated(h1) = Allocated(h) \ {q}
      /\ JoinedAs(h1, h, q, min)
  <2>1. q \in Allocated(h)
    BY <1>1
  <2>. QED
    BY <2>1, JoinedIs
<1>4. a # NULL => a \in A \ {q, min}
  <2>1. SUFFICES ASSUME a # NULL PROVE a \in A /\ a # q /\ a # min
    OBVIOUS
  <2>2. a \in A /\ a \in up[q]
    BY <1>1, <2>1 DEF CameTo
  <2>. QED
    BY <1>1, <1>2, <2>2
<1> HIDE DEF h1
<1>5. s \in Heaps /\ Allocated(s) = A \ {q} /\ StoredAt(s, h1, a, f, min)
  <2>1. a # NULL => a \in Allocated(h1)
    BY <1>3, <1>4
  <2>2. min \in Cells \cup {NULL} /\ h1 \in Heaps
    BY <1>2, <1>3
  <2>3. /\ StoredIn(h1, a, f, min) \in Heaps /\ Allocated(StoredIn(h1, a, f, min)) = Allocated(h1)
        /\ StoredAt(StoredIn(h1, a, f, min), h1, a, f, min)
    BY <2>1, <2>2, StoredIs
  <2>. QED
    BY <1>3, <2>3 DEF h1
<1>6. \A b \in A \ {q} : s[b].key = h[b].key /\ s[b].inumber = h[b].inumber
  BY <1>3, <1>5 DEF StoredAt, JoinedAs
<1>7. \A b \in A \ {q, min} :
        /\ s[b].left = IF h[b].left = q THEN min
                       ELSE IF h[b].left = min THEN h[min].right ELSE h[b].left
        /\ s[b].right = IF h[b].right = q THEN min ELSE h[b].right
  BY <1>1, <1>3, <1>5 DEF StoredAt, SideOfOne, JoinedAs
<1>8. /\ s[min].left = h[q].left
      /\ s[min].right = IF h[q].right = min THEN h[min].right ELSE h[q].right
  <2>1. min \in Allocated(h1) /\ min # a
    BY <1>2, <1>3, <1>4, NodeIs
  <2>. QED
    BY <1>3, <1>5, <2>1 DEF StoredAt, JoinedAs
<1>9. \A b \in A \ {q} : Keys(s)[b] = Keys(h)[b] /\ Keys(h)[b] \in Nat
  BY <1>5, <1>6, NodeIs DEF Keys
<1>10. Keys(s) \in [A \ {q} -> Nat]
  BY <1>5, <1>9 DEF Keys
<1>11. \A b \in A : Lefts(h)[b] = h[b].left /\ Rights(h)[b] = h[b].right
  BY NodeIs
<1>12. \A b \in A \ {q} : Lefts(s)[b] = s[b].left /\ Rights(s)[b] = s[b].right
  BY <1>5 DEF Lefts, Rights
<1>13. StoredRoot(root, a, min) = IF root = q THEN min ELSE root
  BY <1>1 DEF StoredRoot
<1>14. WithLeast(A, Keys(h), Lefts(h), Rights(h), root, q, min,
                 Keys(s), Lefts(s), Rights(s), StoredRoot(root, a, min))
  <2>1. \A b \in A \ {q, min} :
       Lefts(s)[b] = IF Lefts(h)[b] = q THEN min
                     ELSE IF Lefts(h)[b] = min THEN Rights(h)[min] ELSE Lefts(h)[b]
    BY <1>2, <1>7, <1>11, <1>12
  <2>2. \A b \in A \ {q, min} : Rights(s)[b] = IF Rights(h)[b] = q THEN min ELSE Rights(h)[b]
    BY <1>7, <1>11, <1>12
  <2>3. Lefts(s)[min] = Lefts(h)[q]
    BY <1>1, <1>2, <1>8, <1>11, <1>12
  <2>4. Rights(s)[min] = IF Rights(h)[q] = min THEN Rights(h)[min] ELSE Rights(h)[q]
    BY <1>1, <1>2, <1>8, <1>11, <1>12
  <2>. QED
    BY <1>9, <1>10, <1>13, <2>1, <2>2, <2>3, <2>4 DEF WithLeast
<1>15. Least(Keys(h), Lefts(h), Rights(h), up, q, min)
  <2>1. \A b \in up[min] : b \in A
    BY <1>2 DEF TreeOf, Tree, Above
  <2>2. \A b \in A : Keys(h)[b] = h[b].key
    BY NodeIs
  <2>. QED
    BY <1>1, <1>2, <1>11, <2>1, <2>2 DEF Least, LeastBy
<1>16. Tree(A, Keys(h), Lefts(h), Rights(h), root, up)
  BY DEF TreeOf
<1> HIDE DEF A
<1>17. IsTree(A \ {q}, Keys(s), Lefts(s), Rights(s), StoredRoot(root, a, min))
  BY <1>1, <1>2, <1>14, <1>15, <1>16, NodeMoved DEF A
<1>. QED
  BY <1>1, <1>5, <1>6, <1>17 DEF TreeOf, TreeAt, IsTree, A, Lost

-----------------------------------------------------------------------------
\* The invariant.

Changing == {"insert", "remove_item", "find_min"}

\* The lock is held where it is needed, and who changes the tree is alone.
LockInv ==
  /\ \A t \in Threads :
       /\ t \in bstLock.writers <=> pc[t] \in Changing \cup {"wrunlock"}
       /\ t \in bstLock.readers <=> pc[t] \in {"search", "answered", "absent"}
  /\ \A t \in bstLock.writers : bstLock.readers = {} /\ bstLock.writers = {t}

\* Each call is where it may be.
CallInv ==
  \A t \in Threads :
    /\ pc[t] \in {"rdlock", "search"} => call[t].op \in {"lookup", "create"}
    /\ pc[t] = "wrlock" => call[t].op \in {"create", "delete"}
    /\ pc[t] \in {"absent", "insert"} => call[t].op = "create"
    /\ pc[t] \in {"remove_item", "find_min"} => call[t].op = "delete"

\* No thread keeps a node when its call has returned.
PointerInv ==
  \A t \in Threads :
    /\ pc[t] \notin Changing \cup {"search"} => p[t] = NULL
    /\ pc[t] \notin Changing => above[t] = NULL
    /\ pc[t] # "find_min" => m[t] = NULL /\ low[t] = NULL

\* A thread in the tree is where its name leads it.
WalkInv(up, t) ==
  /\ pc[t] = "search" =>
       IF p[t] = NULL THEN \A b \in Allocated(heap) : heap[b].key # call[t].name
       ELSE p[t] \in Allocated(heap) /\ VisitsOf(heap, up, call[t].name, p[t])
  /\ pc[t] \in Changing => CameTo(heap, bstRoot, up, call[t].name, above[t], p[t])
  /\ pc[t] = "find_min" => /\ p[t] # NULL /\ heap[p[t]].key = call[t].name
                           /\ LeastBy(heap, up, p[t], m[t], low[t])

InTree == \E up : TreeOf(heap, bstRoot, up) /\ \A t \in Threads : WalkInv(up, t)

TreeInv ==
  /\ Threads = {} => bstRoot = NULL
  /\ IF Running THEN InTree
     ELSE Allocated(heap) = {} /\ \A t \in Threads : pc[t] = "joined"

TreeIInv == TreeTypeOK /\ LockInv /\ CallInv /\ PointerInv /\ TreeInv

LEMMA EmptyTree ==
  ASSUME NEW h, Allocated(h) = {}
  PROVE  TreeOf(h, NULL, <<>>)
<1>1. Keys(h) \in [{} -> Nat] /\ <<>> \in [{} -> SUBSET {}]
  BY DEF Keys
<1>2. IsFiniteSet({})
  BY FS_EmptySet
<1>3. Tree({}, Keys(h), Lefts(h), Rights(h), NULL, <<>>)
  BY <1>1, <1>2 DEF Tree, Above, Rooted, LeftLinked, RightLinked, Sided
<1>. QED
  BY <1>3 DEF TreeOf

LEMMA TreeInitInv == TreeInit => TreeIInv
<1> SUFFICES ASSUME TreeInit PROVE TreeIInv
  OBVIOUS
<1> DEFINE noCall == CHOOSE c \in Call : TRUE
<1>1. noCall \in Call
  <2>1. PICK f \in Names : TRUE
    OBVIOUS
  <2>2. [op |-> "lookup", name |-> f, inumber |-> -1] \in Call
    BY DEF Call
  <2>. QED
    BY <2>2
<1> HIDE DEF noCall
<1>2. call = [t \in Threads |-> noCall]
  BY DEF TreeInit, noCall
<1>3. TreeTypeOK
  <2>1. Threads \in SUBSET Threads /\ {} \in SUBSET Threads
    OBVIOUS
  <2>2. bounds \in Bounds /\ calls \in 0 .. bounds.calls
    BY BoundsAssumption DEF TreeInit
  <2>. QED
    BY <1>1, <1>2, <2>1, <2>2 DEF TreeInit, TreeTypeOK, NoNodes, Labels
<1>4. Allocated(heap) = {}
  BY DEF TreeInit, Allocated
<1>5. Running
  BY DEF TreeInit, Running
<1>6. TreeOf(heap, bstRoot, <<>>)
  BY <1>4, EmptyTree DEF TreeInit
<1>7. \A t \in Threads : WalkInv(<<>>, t)
  BY DEF TreeInit, WalkInv, Changing
<1>8. TreeInv
  BY <1>5, <1>6, <1>7 DEF TreeInv, InTree, TreeInit
<1>9. LockInv /\ CallInv /\ PointerInv
  BY DEF TreeInit, LockInv, CallInv, PointerInv, Changing, NoNodes
<1>. QED
  BY <1>3, <1>8, <1>9 DEF TreeIInv

\* While a thread has a call to make the tree is one.
LEMMA InTreeIs ==
  ASSUME TreeIInv, NEW t \in Threads, pc[t] # "joined"
  PROVE  Running /\ InTree
BY DEF TreeIInv, TreeInv, Running

\* Nodes in use are allocated.
LEMMA Standing ==
  ASSUME TreeIInv, NEW t \in Threads
  PROVE  /\ {p[t], above[t], m[t], low[t]} \subseteq Allocated(heap) \cup {NULL}
         /\ heap \in Heaps /\ call[t].name \in Names /\ call[t].name \in Nat
         /\ call[t].inumber \in Inumbers \cup {-1}
         /\ pc[t] = "find_min" => p[t] \in Allocated(heap) /\ m[t] \in Allocated(heap)
<1>1. heap \in Heaps /\ call[t] \in Call
  BY DEF TreeIInv, TreeTypeOK, Heaps
<1>2. call[t].name \in Names /\ call[t].name \in Nat /\ call[t].inumber \in Inumbers \cup {-1}
  BY <1>1 DEF Call
<1>3. CASE pc[t] \notin Changing \cup {"search"}
  <2>1. p[t] = NULL /\ above[t] = NULL /\ m[t] = NULL /\ low[t] = NULL
    BY <1>3 DEF TreeIInv, PointerInv, Changing
  <2>. QED
    BY <1>1, <1>2, <1>3, <2>1 DEF Changing
<1>4. CASE pc[t] \in Changing \cup {"search"}
  <2>1. PICK up : TreeOf(heap, bstRoot, up) /\ WalkInv(up, t)
    BY <1>4, InTreeIs DEF InTree, Changing
  <2>2. CASE pc[t] = "search"
    <3>1. above[t] = NULL /\ m[t] = NULL /\ low[t] = NULL
      BY <2>2 DEF TreeIInv, PointerInv, Changing
    <3>2. p[t] \in Allocated(heap) \cup {NULL}
      BY <2>1, <2>2 DEF WalkInv
    <3>. QED
      BY <1>1, <1>2, <2>2, <3>1, <3>2
  <2>3. CASE pc[t] \in Changing
    <3>1. CameTo(heap, bstRoot, up, call[t].name, above[t], p[t])
      BY <2>1, <2>3 DEF WalkInv
    <3>2. above[t] \in Allocated(heap) \cup {NULL}
      BY <3>1 DEF CameTo
    <3>3. p[t] \in Allocated(heap) \cup {NULL}
      BY <1>1, <1>2, <2>1, <3>1, NodeThere
    <3>4. CASE pc[t] = "find_min"
      <4>1. p[t] # NULL /\ LeastBy(heap, up, p[t], m[t], low[t])
        BY <2>1, <3>4 DEF WalkInv
      <4>. QED
        BY <1>1, <1>2, <3>2, <3>3, <4>1 DEF LeastBy
    <3>5. CASE pc[t] # "find_min"
      <4>1. m[t] = NULL /\ low[t] = NULL
        BY <3>5 DEF TreeIInv, PointerInv
      <4>. QED
        BY <1>1, <1>2, <3>2, <3>3, <3>5, <4>1
    <3>. QED
      BY <3>4, <3>5
  <2>. QED
    BY <1>4, <2>2, <2>3
<1>. QED
  BY <1>3, <1>4

\* What TreeSound says of the tree.
LEMMA Sound == TreeIInv => TreeSound
<1> SUFFICES ASSUME TreeIInv PROVE TreeSound
  OBVIOUS
<1>1. heap \in Heaps
  BY DEF TreeIInv, TreeTypeOK, Heaps
<1>2. TreeIntact /\ Ordered
  <2>1. CASE Running
    <3>1. PICK up : TreeOf(heap, bstRoot, up)
      BY <2>1 DEF TreeIInv, TreeInv, InTree
    <3>2. Under(heap, bstRoot) = Allocated(heap)
      BY <1>1, <3>1, UnderIs
    <3>3. \A q \in Allocated(heap) :
            /\ \A c \in Under(heap, heap[q].left) : heap[c].key < heap[q].key
            /\ \A c \in Under(heap, heap[q].right) : heap[q].key < heap[c].key
      BY <1>1, <3>1, OrderIs
    <3>. QED
      BY <2>1, <3>2, <3>3 DEF TreeIntact, Ordered
  <2>2. CASE ~Running
    BY <2>2 DEF TreeIInv, TreeInv, TreeIntact, Ordered
  <2>. QED
    BY <2>1, <2>2
<1>3. NoDangling
  BY Standing DEF NoDangling
<1>. QED
  BY <1>2, <1>3 DEF TreeSound, TreeIInv

-----------------------------------------------------------------------------
\* What each call does to the heap, and to what its names stand for.

\* The nodes of names other than f are the same on heap s as on heap h.
SameBut(s, h, f) ==
  /\ \A b \in Allocated(h) : h[b].key # f => b \in Allocated(s) /\ s[b].key # f
  /\ \A b \in Allocated(s) : s[b].key # f =>
       b \in Allocated(h) /\ h[b].key = s[b].key /\ h[b].inumber = s[b].inumber

Binds(s, h, f, i) == SameBut(s, h, f) /\ \E c \in Allocated(s) : s[c].key = f /\ s[c].inumber = i

Unbinds(s, h, f) == SameBut(s, h, f) /\ \A c \in Allocated(s) : s[c].key # f

LEMMA ReturnIs ==
  ASSUME NEW t \in Threads, NEW h, NEW q, Return(t, h, q)
  PROVE  heap' = StoredIn(h, above[t], call[t].name, q) /\ bstRoot' = StoredRoot(bstRoot, above[t], q)
BY DEF Return, StoredIn, StoredRoot

LEMMA OneOfName ==
  ASSUME NEW h \in Heaps, NEW root, NEW up, TreeOf(h, root, up),
         NEW b \in Allocated(h), NEW c \in Allocated(h), h[b].key = h[c].key
  PROVE  b = c
<1>1. Keys(h)[b] = Keys(h)[c]
  BY NodeIs
<1>. QED
  BY <1>1, KeysDiffer DEF TreeOf

LEMMA InsertIs ==
  ASSUME TreeIInv, NEW t \in Threads, Insert(t)
  PROVE  heap' \in Heaps /\ TreeAt(heap', bstRoot') /\ Binds(heap', heap, call[t].name, call[t].inumber)
<1> DEFINE f == call[t].name
           i == call[t].inumber
           a == above[t]
           q == p[t]
           c == FreeCell(heap)
<1>1. heap \in Heaps /\ f \in Names /\ f \in Nat /\ i \in Inumbers \cup {-1}
  BY Standing
<1>2. PICK up : TreeOf(heap, bstRoot, up) /\ WalkInv(up, t)
  BY InTreeIs DEF Insert, InTree
<1>3. CameTo(heap, bstRoot, up, f, a, q)
  BY <1>2 DEF WalkInv, Insert, Changing
<1>4. CASE q = NULL
  <2>1. Return(t, new_node(heap, f, i), c)
    BY <1>4 DEF Insert
  <2>2. heap' = StoredIn(new_node(heap, f, i), a, f, c) /\ bstRoot' = StoredRoot(bstRoot, a, c)
    BY <2>1, ReturnIs
  <2>3. CameTo(heap, bstRoot, up, f, a, NULL)
    BY <1>3, <1>4
  <2> HIDE DEF f, i, a, q, c
  <2>4. /\ c \in Cells /\ c \notin Allocated(heap)
        /\ heap' \in Heaps /\ Allocated(heap') = Allocated(heap) \cup {c}
        /\ heap'[c].key = f /\ heap'[c].inumber = i
        /\ \A b \in Allocated(heap) : heap'[b].key = heap[b].key /\ heap'[b].inumber = heap[b].inumber
        /\ TreeAt(heap', StoredRoot(bstRoot, a, c))
    BY <1>1, <1>2, <2>2, <2>3, Inserted DEF c
  <2>5. Binds(heap', heap, f, i)
    BY <2>4 DEF Binds, SameBut
  <2>. QED
    BY <2>2, <2>4, <2>5 DEF f, i
<1>5. CASE q # NULL
  <2>1. Return(t, [heap EXCEPT ![q].inumber = i], q) /\ heap[q].key = f
    BY <1>5 DEF Insert
  <2>2. heap' = StoredIn([heap EXCEPT ![q].inumber = i], a, f, q) /\ bstRoot' = StoredRoot(bstRoot, a, q)
    BY <2>1, ReturnIs
  <2> HIDE DEF f, i, a, q, c
  <2>3. /\ heap' \in Heaps /\ Renewed(heap', heap, q, i)
        /\ TreeOf(heap', StoredRoot(bstRoot, a, q), up)
    BY <1>1, <1>2, <1>3, <1>5, <2>2, Rebound
  <2>4. Binds(heap', heap, f, i)
    <3>1. \A b \in Allocated(heap) : heap[b].key # f => heap'[b].inumber = heap[b].inumber
      BY <2>1, <2>3 DEF Renewed
    <3>. QED
      BY <2>1, <2>3, <3>1 DEF Binds, SameBut, Renewed
  <2>. QED
    BY <2>2, <2>3, <2>4 DEF f, i, TreeAt
<1>. QED
  BY <1>4, <1>5

LEMMA RemoveNoneIs ==
  ASSUME TreeIInv, NEW t \in Threads, RemoveNone(t)
  PROVE  heap' = heap /\ bstRoot' = bstRoot /\ Unbinds(heap', heap, call[t].name)
<1> DEFINE f == call[t].name
           a == above[t]
<1>1. heap \in Heaps /\ f \in Names /\ f \in Nat
  BY Standing
<1>2. PICK up : TreeOf(heap, bstRoot, up) /\ WalkInv(up, t)
  BY InTreeIs DEF RemoveNone, InTree
<1>3. CameTo(heap, bstRoot, up, f, a, NULL)
  BY <1>2 DEF WalkInv, RemoveNone, Changing
<1>4. heap' = StoredIn(heap, a, f, NULL) /\ bstRoot' = StoredRoot(bstRoot, a, NULL)
  BY ReturnIs DEF RemoveNone
<1> HIDE DEF f, a
<1>5. heap' = heap /\ bstRoot' = bstRoot
  BY <1>1, <1>2, <1>3, <1>4, StoredAgain
<1>6. \A b \in Allocated(heap) : heap[b].key # f
  BY <1>1, <1>2, <1>3, NoneThere
<1>. QED
  BY <1>5, <1>6 DEF f, Unbinds, SameBut

LEMMA RemoveItemIs ==
  ASSUME TreeIInv, NEW t \in Threads, RemoveItem(t)
  PROVE  heap' \in Heaps /\ TreeAt(heap', bstRoot') /\ Unbinds(heap', heap, call[t].name)
<1> DEFINE f == call[t].name
           a == above[t]
           q == p[t]
           l == heap[q].left
<1>1. heap \in Heaps /\ f \in Names /\ f \in Nat
  BY Standing
<1>2. PICK up : TreeOf(heap, bstRoot, up) /\ WalkInv(up, t)
  BY InTreeIs DEF RemoveItem, InTree
<1>3. CameTo(heap, bstRoot, up, f, a, q)
  BY <1>2 DEF WalkInv, RemoveItem, Changing
<1>4. q # NULL /\ heap[q].key = f /\ heap[q].right = NULL
  BY DEF RemoveItem
<1>5. heap' = StoredIn([heap EXCEPT ![q] = Freed], a, f, l) /\ bstRoot' = StoredRoot(bstRoot, a, l)
  BY ReturnIs DEF RemoveItem
<1> HIDE DEF f, a, q, l
<1>6. /\ heap' \in Heaps /\ Lost(heap', heap, q)
      /\ TreeAt(heap', StoredRoot(bstRoot, a, l))
  BY <1>1, <1>2, <1>3, <1>4, <1>5, Removed DEF l
<1>7. \A b \in Allocated(heap) : heap[b].key = f => b = q
  BY <1>1, <1>2, <1>4, <1>6, OneOfName DEF Lost
<1>8. Unbinds(heap', heap, f)
  BY <1>4, <1>6, <1>7 DEF Unbinds, SameBut, Lost
<1>. QED
  BY <1>5, <1>6, <1>8 DEF f

LEMMA TakeMinIs ==
  ASSUME TreeIInv, NEW t \in Threads, TakeMin(t)
  PROVE  heap' \in Heaps /\ TreeAt(heap', bstRoot') /\ Unbinds(heap', heap, call[t].name)
<1> DEFINE f == call[t].name
           a == above[t]
           q == p[t]
           min == m[t]
<1>1. heap \in Heaps /\ f \in Names /\ f \in Nat
  BY Standing
<1>2. PICK up : TreeOf(heap, bstRoot, up) /\ WalkInv(up, t)
  BY InTreeIs DEF TakeMin, InTree
<1>3. /\ CameTo(heap, bstRoot, up, f, a, q) /\ q # NULL /\ heap[q].key = f
      /\ LeastBy(heap, up, q, min, low[t]) /\ heap[min].left = NULL
  BY <1>2 DEF WalkInv, TakeMin, Changing
<1>4. /\ heap' = StoredIn(Joined(heap, q, min, low[t]), a, f, min)
      /\ bstRoot' = StoredRoot(bstRoot, a, min)
  BY ReturnIs DEF TakeMin
<1> HIDE DEF f, a, q, min
<1>5. /\ heap' \in Heaps /\ Lost(heap', heap, q)
      /\ TreeAt(heap', StoredRoot(bstRoot, a, min))
  BY <1>1, <1>2, <1>3, <1>4, Moved
<1>6. \A b \in Allocated(heap) : heap[b].key = f => b = q
  BY <1>1, <1>2, <1>3, <1>5, OneOfName DEF Lost
<1>7. Unbinds(heap', heap, f)
  BY <1>3, <1>5, <1>6 DEF Unbinds, SameBut, Lost
<1>. QED
  BY <1>4, <1>5, <1>7 DEF f

-----------------------------------------------------------------------------
\* The steps preserve the invariant.

\* insert and remove_item leave a tree.
LEMMA ChangeIs ==
  ASSUME TreeIInv, NEW t \in Threads, Insert(t) \/ RemoveNone(t) \/ RemoveItem(t) \/ TakeMin(t)
  PROVE  /\ \E h, q : Return(t, h, q)
         /\ pc[t] \in Changing
         /\ heap' \in Heaps /\ TreeAt(heap', bstRoot') /\ bstRoot' \in Cells \cup {NULL}
<1>1. heap' \in Heaps /\ TreeAt(heap', bstRoot')
  <2>1. CASE RemoveNone(t)
    <3>1. TreeAt(heap, bstRoot) /\ heap \in Heaps
      BY <2>1, InTreeIs, Standing DEF RemoveNone, InTree, TreeAt
    <3>. QED
      BY <2>1, <3>1, RemoveNoneIs
  <2>. QED
    BY <2>1, InsertIs, RemoveItemIs, TakeMinIs
<1>2. bstRoot' \in Cells \cup {NULL}
  BY <1>1 DEF TreeAt, TreeOf, Tree, Rooted, Allocated
<1>3. \E h, q : Return(t, h, q)
  BY DEF Insert, RemoveNone, RemoveItem, TakeMin
<1>4. pc[t] \in Changing
  BY DEF Insert, RemoveNone, RemoveItem, TakeMin, Changing
<1>. QED
  BY <1>1, <1>2, <1>3, <1>4

LEMMA SideIs ==
  ASSUME NEW h \in Heaps, NEW q \in Allocated(h), NEW f
  PROVE  /\ h[q][Side(h, q, f)] = IF f < h[q].key THEN h[q].left ELSE h[q].right
         /\ h[q][Side(h, q, f)] \in Cells \cup {NULL}
<1>1. h[q].left \in Cells \cup {NULL} /\ h[q].right \in Cells \cup {NULL}
  BY NodeIs
<1>2. CASE f < h[q].key
  BY <1>1, <1>2 DEF Side
<1>3. CASE ~(f < h[q].key)
  BY <1>1, <1>3 DEF Side
<1>. QED
  BY <1>2, <1>3

LEMMA TreeTypeStep == TreeIInv /\ [TreeNext]_treeVars => TreeTypeOK'
<1> SUFFICES ASSUME TreeIInv, [TreeNext]_treeVars PROVE TreeTypeOK'
  OBVIOUS
<1>0. TreeTypeOK
  BY DEF TreeIInv
<1> DEFINE P == [Threads -> Cells \cup {NULL}]
<1>1. /\ heap \in [Cells -> Node \cup {Freed}] /\ bstRoot \in Cells \cup {NULL}
      /\ bstLock \in [readers : SUBSET Threads, writers : SUBSET Threads]
      /\ pc \in [Threads -> Labels] /\ call \in [Threads -> Call]
      /\ p \in P /\ above \in P /\ m \in P /\ low \in P
      /\ reply \in [Threads -> Inumbers \cup {-1, 0}]
      /\ bounds \in Bounds /\ calls \in 0 .. bounds.calls
  BY <1>0 DEF TreeTypeOK
<1>2. bounds.offered \subseteq Call /\ bounds.calls \in Nat
  BY <1>1, BoundsAssumption
<1> HIDE DEF P
<1>3. SUFFICES
        /\ heap' \in [Cells -> Node \cup {Freed}] /\ bstRoot' \in Cells \cup {NULL}
        /\ bstLock' \in [readers : SUBSET Threads, writers : SUBSET Threads]
        /\ pc' \in [Threads -> Labels] /\ call' \in [Threads -> Call]
        /\ p' \in P /\ above' \in P /\ m' \in P /\ low' \in P
        /\ reply' \in [Threads -> Inumbers \cup {-1, 0}]
        /\ bounds' \in Bounds /\ calls' \in 0 .. bounds'.calls
  BY DEF TreeTypeOK, P
<1>4. CASE UNCHANGED treeVars
  BY <1>1, <1>4 DEF treeVars, heapVars, walkVars, callVars
<1>5. CASE FreeTree
  <2>1. heap' \in [Cells -> Node \cup {Freed}]
    BY <1>1, <1>5 DEF FreeTree
  <2>. QED
    BY <1>1, <1>5, <2>1 DEF FreeTree, walkVars, callVars, Labels
<1>6. ASSUME NEW t \in Threads, Begin(t)
      PROVE  TreeTypeOK'
  <2>1. /\ heap' = heap /\ bstRoot' = bstRoot /\ bstLock' = bstLock /\ p' = p /\ above' = above
        /\ m' = m /\ low' = low /\ reply' = reply /\ bounds' = bounds /\ calls' = calls + 1
        /\ calls < bounds.calls
    BY <1>6 DEF Begin, heapVars, walkVars
  <2>2. call' \in [Threads -> Call] /\ pc' \in [Threads -> Labels]
    BY <1>1, <1>2, <1>6 DEF Begin, Goto, Labels
  <2>. QED
    BY <1>1, <1>2, <2>1, <2>2 DEF TreeTypeOK, P
\* A step that does not change the heap, of which it keeps nodes for thread t.
<1>7. ASSUME NEW t \in Threads, heap' = heap, bstRoot' = bstRoot, call' = call,
             calls' = calls, bounds' = bounds, NEW l \in Labels, pc' = [pc EXCEPT ![t] = l],
             bstLock' \in [readers : SUBSET Threads, writers : SUBSET Threads],
             reply' \in [Threads -> Inumbers \cup {-1, 0}],
             p' \in P, above' \in P, m' \in P, low' \in P
      PROVE  TreeTypeOK'
  BY <1>1, <1>7 DEF TreeTypeOK, P
<1>8. ASSUME NEW t \in Threads, LookupLock(t) PROVE TreeTypeOK'
  <2>1. p' \in P /\ above' = above /\ m' = m /\ low' = low
    BY <1>1, <1>8 DEF LookupLock, walkVars, P
  <2>2. bstLock' \in [readers : SUBSET Threads, writers : SUBSET Threads]
    BY <1>1, <1>8 DEF LookupLock, sync_rdlock
  <2>3. "search" \in Labels /\ pc' = [pc EXCEPT ![t] = "search"] /\ heap' = heap /\ bstRoot' = bstRoot
        /\ call' = call /\ calls' = calls /\ bounds' = bounds /\ reply' = reply
    BY <1>8 DEF LookupLock, Goto, Labels, heapVars, callVars
  <2>. QED
    BY <1>1, <1>7, <2>1, <2>2, <2>3
<1>9. ASSUME NEW t \in Threads, Search(t) \/ Descend(t) PROVE TreeTypeOK'
  <2>1. p[t] \in Allocated(heap) /\ heap \in Heaps
    BY <1>9, Standing DEF Search, Descend
  <2>2. heap[p[t]][Side(heap, p[t], call[t].name)] \in Cells \cup {NULL}
    BY <2>1, SideIs
  <2>3. p' = [p EXCEPT ![t] = heap[p[t]][Side(heap, p[t], call[t].name)]]
    BY <1>1, <1>9 DEF Search, Descend, P
  <2>4. p' \in P /\ above' \in P /\ m' = m /\ low' = low
    BY <1>1, <1>9, <2>2, <2>3 DEF Search, Descend, walkVars, P
  <2>5. pc' = pc /\ heap' = heap /\ bstRoot' = bstRoot /\ bstLock' = bstLock
        /\ call' = call /\ calls' = calls /\ bounds' = bounds /\ reply' = reply
    BY <1>9 DEF Search, Descend, heapVars, callVars
  <2>. QED
    BY <1>1, <2>4, <2>5 DEF TreeTypeOK, P
<1>10. ASSUME NEW t \in Threads, SearchEnd(t) PROVE TreeTypeOK'
  <2> DEFINE inumber == IF p[t] = NULL THEN -1 ELSE heap[p[t]].inumber
             absent  == call[t].op = "create" /\ inumber = -1
  <2>1. inumber \in Inumbers \cup {-1}
    <3>1. p[t] # NULL => heap[p[t]] \in Node
      BY Standing, NodeIs
    <3>. QED
      BY <3>1 DEF Node
  <2>2. /\ pc' = [pc EXCEPT ![t] = IF absent THEN "absent" ELSE "answered"]
        /\ reply' = [reply EXCEPT ![t] = IF call[t].op = "lookup" THEN inumber
                                         ELSE IF absent THEN reply[t] ELSE -1]
        /\ p' = [p EXCEPT ![t] = NULL]
        /\ heap' = heap /\ bstRoot' = bstRoot /\ bstLock' = bstLock /\ above' = above /\ m' = m /\ low' = low
        /\ call' = call /\ calls' = calls /\ bounds' = bounds
    BY <1>1, <1>10 DEF SearchEnd, Goto, heapVars, walkVars, callVars
  <2> HIDE DEF inumber, absent
  <2>3. p' \in P
    BY <1>1, <2>2 DEF P
  <2>4. reply' \in [Threads -> Inumbers \cup {-1, 0}]
    BY <1>1, <2>1, <2>2
  <2>5. (IF absent THEN "absent" ELSE "answered") \in Labels
    BY DEF Labels
  <2>. QED
    BY <1>1, <1>7, <2>2, <2>3, <2>4, <2>5
<1>11. ASSUME NEW t \in Threads, LookupUnlock(t) \/ WriteUnlock(t) PROVE TreeTypeOK'
  <2>1. bstLock' \in [readers : SUBSET Threads, writers : SUBSET Threads]
    BY <1>1, <1>11 DEF LookupUnlock, WriteUnlock, sync_unlock
  <2>2. \E l \in Labels : pc' = [pc EXCEPT ![t] = l]
    BY <1>11 DEF LookupUnlock, WriteUnlock, Goto, Labels
  <2>3. heap' = heap /\ bstRoot' = bstRoot /\ p' = p /\ above' = above /\ m' = m /\ low' = low
        /\ call' = call /\ calls' = calls /\ bounds' = bounds /\ reply' = reply
    BY <1>11 DEF LookupUnlock, WriteUnlock, heapVars, walkVars, callVars
  <2>. QED
    BY <1>1, <1>7, <2>1, <2>2, <2>3
<1>12. ASSUME NEW t \in Threads, WriteLock(t) PROVE TreeTypeOK'
  <2>1. p' \in P /\ above' = above /\ m' = m /\ low' = low
    BY <1>1, <1>12 DEF WriteLock, walkVars, P
  <2>2. bstLock' \in [readers : SUBSET Threads, writers : SUBSET Threads]
    BY <1>1, <1>12 DEF WriteLock, sync_wrlock
  <2>3. \E l \in Labels : pc' = [pc EXCEPT ![t] = l]
    BY <1>12 DEF WriteLock, Goto, Labels
  <2>4. heap' = heap /\ bstRoot' = bstRoot
        /\ call' = call /\ calls' = calls /\ bounds' = bounds /\ reply' = reply
    BY <1>12 DEF WriteLock, heapVars, callVars
  <2>. QED
    BY <1>1, <1>7, <2>1, <2>2, <2>3, <2>4
<1>13. ASSUME NEW t \in Threads, RemoveBelow(t) \/ FindMin(t) PROVE TreeTypeOK'
  <2>1. m' \in P /\ low' \in P
    <3>1. CASE RemoveBelow(t)
      <4>1. heap[p[t]].right \in Cells \cup {NULL} /\ p[t] \in Cells \cup {NULL}
        BY <1>1, <3>1, Standing, NodeIs DEF RemoveBelow, P
      <4>. QED
        BY <1>1, <3>1, <4>1 DEF RemoveBelow, P
    <3>2. CASE FindMin(t)
      <4>1. heap[m[t]].left \in Cells \cup {NULL} /\ m[t] \in Cells \cup {NULL}
        BY <1>1, <3>2, Standing, NodeIs DEF FindMin, P
      <4>. QED
        BY <1>1, <3>2, <4>1 DEF FindMin, P
    <3>. QED
      BY <1>13, <3>1, <3>2
  <2>2. \E l \in Labels : pc' = [pc EXCEPT ![t] = l]
    <3>1. CASE RemoveBelow(t)
      BY <3>1 DEF RemoveBelow, Goto, Labels
    <3>2. CASE FindMin(t)
      <4>1. pc' = [pc EXCEPT ![t] = pc[t]] /\ pc[t] \in Labels
        BY <1>1, <3>2 DEF FindMin
      <4>. QED
        BY <4>1
    <3>. QED
      BY <1>13, <3>1, <3>2
  <2>3. heap' = heap /\ bstRoot' = bstRoot /\ bstLock' = bstLock /\ p' = p /\ above' = above
        /\ call' = call /\ calls' = calls /\ bounds' = bounds /\ reply' = reply
    BY <1>13 DEF RemoveBelow, FindMin, heapVars, callVars
  <2>. QED
    BY <1>1, <1>7, <2>1, <2>2, <2>3
<1>14. ASSUME NEW t \in Threads, Insert(t) \/ RemoveNone(t) \/ RemoveItem(t) \/ TakeMin(t)
       PROVE  TreeTypeOK'
  <2>1. PICK h, q : Return(t, h, q)
    BY <1>14, ChangeIs
  <2>2. heap' \in [Cells -> Node \cup {Freed}] /\ bstRoot' \in Cells \cup {NULL}
    BY <1>14, ChangeIs DEF Heaps
  <2>3. p' \in P /\ above' \in P /\ m' \in P /\ low' \in P
    BY <1>1, <2>1 DEF Return, P
  <2>4. /\ pc' \in [Threads -> Labels] /\ reply' \in [Threads -> Inumbers \cup {-1, 0}]
        /\ bstLock' = bstLock /\ call' = call /\ calls' = calls /\ bounds' = bounds
    BY <1>1, <2>1 DEF Return, Labels, callVars
  <2>. QED
    BY <1>1, <2>2, <2>3, <2>4 DEF TreeTypeOK, P
<1>. QED
  BY <1>4, <1>5, <1>6, <1>8, <1>9, <1>10, <1>11, <1>12, <1>13, <1>14 DEF TreeNext, Step, TreeTypeOK, P

LEMMA LockStep == TreeIInv /\ [TreeNext]_treeVars => LockInv'
<1> SUFFICES ASSUME TreeIInv, [TreeNext]_treeVars PROVE LockInv'
  OBVIOUS
<1>1. /\ pc \in [Threads -> Labels] /\ LockInv
      /\ bstLock \in [readers : SUBSET Threads, writers : SUBSET Threads]
  BY DEF TreeIInv, TreeTypeOK
<1>2. CASE UNCHANGED treeVars
  BY <1>1, <1>2 DEF treeVars, LockInv
<1>3. CASE FreeTree
  BY <1>1, <1>3 DEF FreeTree, LockInv, Changing
\* Thread t goes to another place where it needs as much of the lock.
<1>4. ASSUME NEW t \in Threads, NEW l, pc' = [pc EXCEPT ![t] = l], bstLock' = bstLock,
             pc[t] \in Changing \cup {"wrunlock"} <=> l \in Changing \cup {"wrunlock"},
             pc[t] \in {"search", "answered", "absent"} <=> l \in {"search", "answered", "absent"}
      PROVE  LockInv'
  <2>1. pc'[t] = l /\ \A u \in Threads \ {t} : pc'[u] = pc[u]
    BY <1>1, <1>4
  <2>. QED
    BY <1>1, <1>4, <2>1 DEF LockInv
<1>5. ASSUME NEW t \in Threads, Begin(t) PROVE LockInv'
  <2>1. \E l \in {"wrlock", "rdlock"} : pc' = [pc EXCEPT ![t] = l]
    BY <1>5 DEF Begin, Goto
  <2>2. pc[t] = "idle" /\ bstLock' = bstLock
    BY <1>5 DEF Begin, Goto
  <2>. QED
    BY <1>4, <2>1, <2>2 DEF Changing
<1>6. ASSUME NEW t \in Threads, LookupLock(t) PROVE LockInv'
  <2>1. /\ pc[t] = "rdlock" /\ pc'[t] = "search" /\ \A u \in Threads \ {t} : pc'[u] = pc[u]
        /\ bstLock.writers = {} /\ bstLock'.writers = bstLock.writers
        /\ bstLock'.readers = bstLock.readers \cup {t}
    BY <1>1, <1>6 DEF LookupLock, Goto, sync_rdlock
  <2>. QED
    BY <1>1, <2>1 DEF LockInv, Changing
<1>7. ASSUME NEW t \in Threads, Search(t) \/ Descend(t) \/ FindMin(t) PROVE LockInv'
  <2>1. pc' = [pc EXCEPT ![t] = pc[t]] /\ bstLock' = bstLock
    BY <1>1, <1>7 DEF Search, Descend, FindMin
  <2>. QED
    BY <1>4, <2>1
<1>8. ASSUME NEW t \in Threads, SearchEnd(t) PROVE LockInv'
  <2>1. \E l \in {"absent", "answered"} : pc' = [pc EXCEPT ![t] = l]
    BY <1>8 DEF SearchEnd, Goto
  <2>2. pc[t] = "search" /\ bstLock' = bstLock
    BY <1>8 DEF SearchEnd, Goto
  <2>. QED
    BY <1>4, <2>1, <2>2 DEF Changing
<1>9. ASSUME NEW t \in Threads, LookupUnlock(t) \/ WriteUnlock(t) PROVE LockInv'
  <2>1. /\ pc'[t] \in {"idle", "wrlock"} /\ \A u \in Threads \ {t} : pc'[u] = pc[u]
        /\ bstLock'.writers = bstLock.writers \ {t} /\ bstLock'.readers = bstLock.readers \ {t}
    BY <1>1, <1>9 DEF LookupUnlock, WriteUnlock, Goto, sync_unlock
  <2>. QED
    BY <1>1, <2>1 DEF LockInv, Changing
<1>10. ASSUME NEW t \in Threads, WriteLock(t) PROVE LockInv'
  <2>1. /\ pc'[t] \in {"insert", "remove_item"} /\ \A u \in Threads \ {t} : pc'[u] = pc[u]
        /\ bstLock.writers = {} /\ bstLock.readers = {}
        /\ bstLock'.writers = {t} /\ bstLock'.readers = {}
        /\ pc[t] = "wrlock"
    BY <1>1, <1>10 DEF WriteLock, Goto, sync_wrlock
  <2>. QED
    BY <1>1, <2>1 DEF LockInv, Changing
<1>11. ASSUME NEW t \in Threads, RemoveBelow(t) PROVE LockInv'
  <2>1. pc' = [pc EXCEPT ![t] = "find_min"] /\ pc[t] = "remove_item" /\ bstLock' = bstLock
    BY <1>11 DEF RemoveBelow, Goto
  <2>. QED
    BY <1>4, <2>1 DEF Changing
<1>12. ASSUME NEW t \in Threads, Insert(t) \/ RemoveNone(t) \/ RemoveItem(t) \/ TakeMin(t)
       PROVE  LockInv'
  <2>1. pc' = [pc EXCEPT ![t] = "wrunlock"] /\ pc[t] \in Changing /\ bstLock' = bstLock
    BY <1>12, ChangeIs DEF Return
  <2>. QED
    BY <1>4, <2>1 DEF Changing
<1>. QED
  BY <1>2, <1>3, <1>5, <1>6, <1>7, <1>8, <1>9, <1>10, <1>11, <1>12 DEF TreeNext, Step

LEMMA CallStep == TreeIInv /\ [TreeNext]_treeVars => CallInv'
<1> SUFFICES ASSUME TreeIInv, [TreeNext]_treeVars PROVE CallInv'
  OBVIOUS
<1>1. /\ pc \in [Threads -> Labels] /\ CallInv /\ call \in [Threads -> Call]
      /\ bounds.offered \subseteq Call
  BY BoundsAssumption DEF TreeIInv, TreeTypeOK
<1>2. CASE UNCHANGED treeVars
  BY <1>1, <1>2 DEF treeVars, CallInv
<1>3. CASE FreeTree
  BY <1>1, <1>3 DEF FreeTree, CallInv
<1>4. ASSUME NEW t \in Threads, NEW l, pc' = [pc EXCEPT ![t] = l], call' = call,
             l \in {"rdlock", "search"} => call[t].op \in {"lookup", "create"},
             l = "wrlock" => call[t].op \in {"create", "delete"},
             l \in {"absent", "insert"} => call[t].op = "create",
             l \in {"remove_item", "find_min"} => call[t].op = "delete"
      PROVE  CallInv'
  <2>1. pc'[t] = l /\ \A u \in Threads \ {t} : pc'[u] = pc[u]
    BY <1>1, <1>4
  <2>. QED
    BY <1>1, <1>4, <2>1 DEF CallInv
<1>5. ASSUME NEW t \in Threads, Begin(t) PROVE CallInv'
  <2>1. PICK c \in bounds.offered :
           /\ call' = [call EXCEPT ![t] = c]
           /\ Goto(t, "idle", IF c.op = "delete" THEN "wrlock" ELSE "rdlock")
    BY <1>5 DEF Begin
  <2>2. c.op \in {"lookup", "delete", "create"}
    BY <1>1, <2>1 DEF Call
  <2>3. call'[t] = c /\ \A u \in Threads \ {t} : pc'[u] = pc[u] /\ call'[u] = call[u]
    BY <1>1, <2>1 DEF Goto
  <2>4. pc'[t] = IF c.op = "delete" THEN "wrlock" ELSE "rdlock"
    BY <1>1, <2>1 DEF Goto
  <2>. QED
    BY <1>1, <2>2, <2>3, <2>4 DEF CallInv
<1>6. ASSUME NEW t \in Threads, Step(t) PROVE CallInv'
  <2>1. call' = call
    <3>1. CASE Insert(t) \/ RemoveNone(t) \/ RemoveItem(t) \/ TakeMin(t)
      BY <3>1, ChangeIs DEF Return
    <3>. QED
      BY <1>6, <3>1 DEF Step, LookupLock, Search, SearchEnd, LookupUnlock, WriteLock, Descend,
                        RemoveBelow, FindMin, WriteUnlock
  <2>2. CASE LookupLock(t)
    <3>1. pc[t] = "rdlock" /\ pc' = [pc EXCEPT ![t] = "search"]
      BY <2>2 DEF LookupLock, Goto
    <3>. QED
      BY <1>1, <1>4, <2>1, <3>1 DEF CallInv
  <2>3. CASE Search(t) \/ Descend(t) \/ FindMin(t)
    <3>1. pc' = [pc EXCEPT ![t] = pc[t]]
      BY <1>1, <2>3 DEF Search, Descend, FindMin
    <3>. QED
      BY <1>1, <1>4, <2>1, <3>1 DEF CallInv
  <2>4. CASE SearchEnd(t)
    <3>1. \/ pc' = [pc EXCEPT ![t] = "answered"]
          \/ pc' = [pc EXCEPT ![t] = "absent"] /\ call[t].op = "create"
      BY <2>4 DEF SearchEnd, Goto
    <3>. QED
      BY <1>4, <2>1, <3>1
  <2>5. CASE LookupUnlock(t) \/ WriteUnlock(t)
    <3>1. \/ pc' = [pc EXCEPT ![t] = "idle"]
          \/ pc' = [pc EXCEPT ![t] = "wrlock"] /\ pc[t] = "absent"
      BY <2>5 DEF LookupUnlock, WriteUnlock, Goto
    <3>. QED
      BY <1>1, <1>4, <2>1, <3>1 DEF CallInv
  <2>6. CASE WriteLock(t)
    <3>1. pc[t] = "wrlock" /\ pc' = [pc EXCEPT ![t] = IF call[t].op = "create" THEN "insert" ELSE "remove_item"]
      BY <2>6 DEF WriteLock, Goto
    <3>2. call[t].op \in {"create", "delete"}
      BY <1>1, <3>1 DEF CallInv
    <3>3. CASE call[t].op = "create"
      BY <1>4, <2>1, <3>1, <3>3
    <3>4. CASE call[t].op = "delete"
      BY <1>4, <2>1, <3>1, <3>4
    <3>. QED
      BY <3>2, <3>3, <3>4
  <2>7. CASE RemoveBelow(t)
    <3>1. pc[t] = "remove_item" /\ pc' = [pc EXCEPT ![t] = "find_min"]
      BY <2>7 DEF RemoveBelow, Goto
    <3>. QED
      BY <1>1, <1>4, <2>1, <3>1 DEF CallInv
  <2>8. CASE Insert(t) \/ RemoveNone(t) \/ RemoveItem(t) \/ TakeMin(t)
    <3>1. pc' = [pc EXCEPT ![t] = "wrunlock"]
      BY <2>8, ChangeIs DEF Return
    <3>. QED
      BY <1>4, <2>1, <3>1
  <2>. QED
    BY <1>6, <2>2, <2>3, <2>4, <2>5, <2>6, <2>7, <2>8 DEF Step
<1>. QED
  BY <1>2, <1>3, <1>5, <1>6 DEF TreeNext

LEMMA PointerStep == TreeIInv /\ [TreeNext]_treeVars => PointerInv'
<1> SUFFICES ASSUME TreeIInv, [TreeNext]_treeVars PROVE PointerInv'
  OBVIOUS
<1>1. /\ pc \in [Threads -> Labels] /\ PointerInv
      /\ {p, above, m, low} \subseteq [Threads -> Cells \cup {NULL}]
  BY DEF TreeIInv, TreeTypeOK
<1>2. CASE UNCHANGED treeVars
  BY <1>1, <1>2 DEF treeVars, walkVars, PointerInv
<1>3. CASE FreeTree
  BY <1>1, <1>3 DEF FreeTree, walkVars, PointerInv, Changing
\* Thread t keeps what it needs where it goes; the others what they had.
<1>4. ASSUME NEW t \in Threads, \A u \in Threads \ {t} : /\ pc'[u] = pc[u] /\ p'[u] = p[u]
                                                         /\ above'[u] = above[u]
                                                         /\ m'[u] = m[u] /\ low'[u] = low[u],
             pc'[t] \notin Changing \cup {"search"} => p'[t] = NULL,
             pc'[t] \notin Changing => above'[t] = NULL,
             pc'[t] # "find_min" => m'[t] = NULL /\ low'[t] = NULL
      PROVE  PointerInv'
  BY <1>1, <1>4 DEF PointerInv
<1>5. ASSUME NEW t \in Threads, Begin(t) \/ LookupUnlock(t) \/ WriteUnlock(t) PROVE PointerInv'
  <2>1. /\ pc[t] \in {"idle", "answered", "absent", "wrunlock"} /\ pc'[t] \in {"idle", "rdlock", "wrlock"}
        /\ p' = p /\ above' = above /\ m' = m /\ low' = low
        /\ \A u \in Threads \ {t} : pc'[u] = pc[u]
    BY <1>1, <1>5 DEF Begin, LookupUnlock, WriteUnlock, Goto, walkVars
  <2>. QED
    BY <1>1, <2>1 DEF PointerInv, Changing
<1>6. ASSUME NEW t \in Threads, LookupLock(t) \/ WriteLock(t) PROVE PointerInv'
  <2>1. /\ pc[t] \in {"rdlock", "wrlock"} /\ pc'[t] \in {"search", "insert", "remove_item"}
        /\ above' = above /\ m' = m /\ low' = low
        /\ \A u \in Threads \ {t} : pc'[u] = pc[u] /\ p'[u] = p[u]
    BY <1>1, <1>6 DEF LookupLock, WriteLock, Goto, walkVars
  <2>. QED
    BY <1>1, <2>1 DEF PointerInv, Changing
<1>7. ASSUME NEW t \in Threads, Search(t) \/ Descend(t) PROVE PointerInv'
  <2>1. /\ pc' = pc /\ m' = m /\ low' = low
        /\ pc[t] \in {"search", "insert", "remove_item"}
        /\ \A u \in Threads \ {t} : p'[u] = p[u] /\ above'[u] = above[u]
        /\ pc[t] = "search" => above' = above
    BY <1>1, <1>7 DEF Search, Descend, walkVars
  <2>. QED
    BY <1>1, <2>1 DEF PointerInv, Changing
<1>8. ASSUME NEW t \in Threads, SearchEnd(t) PROVE PointerInv'
  <2>1. /\ pc[t] = "search" /\ pc'[t] \in {"absent", "answered"} /\ p'[t] = NULL
        /\ above' = above /\ m' = m /\ low' = low
        /\ \A u \in Threads \ {t} : pc'[u] = pc[u] /\ p'[u] = p[u]
    BY <1>1, <1>8 DEF SearchEnd, Goto, walkVars
  <2>. QED
    BY <1>1, <2>1 DEF PointerInv, Changing
<1>9. ASSUME NEW t \in Threads, RemoveBelow(t) \/ FindMin(t) PROVE PointerInv'
  <2>1. /\ pc'[t] = "find_min" /\ p' = p /\ above' = above
        /\ \A u \in Threads \ {t} : pc'[u] = pc[u] /\ m'[u] = m[u] /\ low'[u] = low[u]
    BY <1>1, <1>9 DEF RemoveBelow, FindMin, Goto
  <2>. QED
    BY <1>1, <2>1 DEF PointerInv, Changing
<1>10. ASSUME NEW t \in Threads, Insert(t) \/ RemoveNone(t) \/ RemoveItem(t) \/ TakeMin(t)
       PROVE  PointerInv'
  <2>1. PICK h, q : Return(t, h, q)
    BY <1>10, ChangeIs
  <2>2. /\ p'[t] = NULL /\ above'[t] = NULL /\ m'[t] = NULL /\ low'[t] = NULL
        /\ \A u \in Threads \ {t} : /\ pc'[u] = pc[u] /\ p'[u] = p[u] /\ above'[u] = above[u]
                                    /\ m'[u] = m[u] /\ low'[u] = low[u]
    BY <1>1, <2>1 DEF Return
  <2>. QED
    BY <1>4, <2>2
<1>. QED
  BY <1>2, <1>3, <1>5, <1>6, <1>7, <1>8, <1>9, <1>10 DEF TreeNext, Step

\* A step of thread t that leaves the heap alone.
LEMMA WalkOn ==
  ASSUME TreeIInv, NEW t \in Threads, pc[t] # "joined", pc'[t] # "joined",
         heap' = heap, bstRoot' = bstRoot,
         \A u \in Threads \ {t} : /\ pc'[u] = pc[u] /\ call'[u] = call[u] /\ p'[u] = p[u]
                                  /\ above'[u] = above[u] /\ m'[u] = m[u] /\ low'[u] = low[u],
         \A up : TreeOf(heap, bstRoot, up) /\ WalkInv(up, t) => WalkInv(up, t)'
  PROVE  TreeInv'
<1>1. Running /\ Running'
  <2>1. Running
    BY InTreeIs
  <2>. QED
    BY <2>1 DEF Running
<1>2. PICK up : TreeOf(heap, bstRoot, up) /\ \A u \in Threads : WalkInv(up, u)
  BY InTreeIs DEF InTree
<1>3. ASSUME NEW u \in Threads \ {t} PROVE WalkInv(up, u)'
  <2>1. WalkInv(up, u)
    BY <1>2
  <2>2. /\ pc'[u] = pc[u] /\ call'[u] = call[u] /\ p'[u] = p[u]
        /\ above'[u] = above[u] /\ m'[u] = m[u] /\ low'[u] = low[u]
    OBVIOUS
  <2>. QED
    BY <2>1, <2>2 DEF WalkInv
<1>4. WalkInv(up, t)'
  BY <1>2
<1>5. InTree'
  BY <1>2, <1>3, <1>4 DEF InTree
<1>. QED
  BY <1>1, <1>5 DEF TreeInv

LEMMA TreeStep == TreeIInv /\ [TreeNext]_treeVars => TreeInv'
<1> SUFFICES ASSUME TreeIInv, [TreeNext]_treeVars PROVE TreeInv'
  OBVIOUS
<1>1. /\ pc \in [Threads -> Labels] /\ call \in [Threads -> Call] /\ LockInv /\ TreeInv /\ PointerInv
      /\ p \in [Threads -> Cells \cup {NULL}] /\ above \in [Threads -> Cells \cup {NULL}]
      /\ m \in [Threads -> Cells \cup {NULL}] /\ low \in [Threads -> Cells \cup {NULL}]
      /\ heap \in Heaps
  BY DEF TreeIInv, TreeTypeOK, Heaps
<1>2. CASE UNCHANGED treeVars
  BY <1>1, <1>2 DEF treeVars, heapVars, walkVars, TreeInv, InTree, WalkInv, Running
<1>3. CASE FreeTree
  <2>1. Running /\ InTree
    BY <1>1, <1>3 DEF FreeTree, Running, TreeInv
  <2>2. PICK up : TreeOf(heap, bstRoot, up)
    BY <2>1 DEF InTree
  <2>3. Under(heap, bstRoot) = Allocated(heap)
    BY <1>1, <2>2, UnderIs
  <2>4. Allocated(heap') = {}
    <3>1. heap' = [c \in Cells |-> IF c \in Under(heap, bstRoot) THEN Freed ELSE heap[c]]
      BY <1>3 DEF FreeTree
    <3>. QED
      BY <2>3, <3>1 DEF Allocated
  <2>5. CASE Threads = {}
    <3>1. bstRoot' = NULL
      BY <1>1, <1>3, <2>5 DEF FreeTree, TreeInv
    <3>2. TreeOf(heap', bstRoot', <<>>)
      BY <2>4, <3>1, EmptyTree
    <3>3. Running' /\ InTree'
      BY <2>5, <3>2 DEF Running, InTree
    <3>. QED
      BY <3>1, <3>3 DEF TreeInv
  <2>6. CASE Threads # {}
    <3>1. (\A t \in Threads : pc'[t] = "joined") /\ ~Running'
      BY <1>3, <2>6 DEF FreeTree, Running
    <3>. QED
      BY <2>4, <2>6, <3>1 DEF TreeInv
  <2>. QED
    BY <2>5, <2>6
<1>4. ASSUME NEW t \in Threads, Begin(t) \/ LookupUnlock(t) \/ WriteUnlock(t) PROVE TreeInv'
  <2>1. /\ pc[t] # "joined" /\ pc'[t] \in {"idle", "rdlock", "wrlock"} /\ heap' = heap /\ bstRoot' = bstRoot
        /\ p' = p /\ above' = above /\ m' = m /\ low' = low
        /\ \A u \in Threads \ {t} : pc'[u] = pc[u] /\ call'[u] = call[u]
    BY <1>1, <1>4 DEF Begin, LookupUnlock, WriteUnlock, Goto, heapVars, walkVars
  <2>2. \A up : WalkInv(up, t)'
    BY <2>1 DEF WalkInv, Changing
  <2>. QED
    BY <2>1, <2>2, WalkOn
<1>5. ASSUME NEW t \in Threads, LookupLock(t) PROVE TreeInv'
  <2>1. /\ pc[t] = "rdlock" /\ pc'[t] = "search" /\ heap' = heap /\ bstRoot' = bstRoot
        /\ call' = call /\ above' = above /\ m' = m /\ low' = low /\ p'[t] = bstRoot
        /\ \A u \in Threads \ {t} : pc'[u] = pc[u] /\ p'[u] = p[u]
    BY <1>1, <1>5 DEF LookupLock, Goto, heapVars, walkVars
  <2>2. ASSUME NEW up, TreeOf(heap, bstRoot, up) PROVE WalkInv(up, t)'
    <3>1. CASE bstRoot = NULL
      BY <2>1, <2>2, <3>1 DEF WalkInv, Changing, TreeOf, Tree, Rooted
    <3>2. CASE bstRoot # NULL
      <4>1. bstRoot \in Allocated(heap) /\ up[bstRoot] = {}
        BY <2>2, <3>2 DEF TreeOf, Tree, Rooted
      <4>2. VisitsOf(heap, up, call[t].name, bstRoot)
        BY <4>1 DEF VisitsOf, Visits
      <4>. QED
        BY <2>1, <3>2, <4>1, <4>2 DEF WalkInv, Changing
    <3>. QED
      BY <3>1, <3>2
  <2>. QED
    BY <2>1, <2>2, WalkOn
<1>6. ASSUME NEW t \in Threads, Search(t) PROVE TreeInv'
  <2> DEFINE q == p[t]
             f == call[t].name
             d == IF f < heap[q].key THEN heap[q].left ELSE heap[q].right
  <2>1. q \in Allocated(heap) /\ f \in Nat
    BY <1>6, Standing DEF Search
  <2>2. heap[q][Side(heap, q, f)] = d
    BY <1>1, <2>1, SideIs
  <2>3. /\ pc[t] = "search" /\ q # NULL /\ f # heap[q].key /\ heap' = heap /\ bstRoot' = bstRoot
        /\ pc' = pc /\ call' = call /\ above' = above /\ m' = m /\ low' = low /\ p'[t] = d
        /\ \A u \in Threads \ {t} : p'[u] = p[u]
    BY <1>1, <1>6, <2>2 DEF Search, heapVars, walkVars
  <2> HIDE DEF q, f
  <2>4. ASSUME NEW up, TreeOf(heap, bstRoot, up), WalkInv(up, t) PROVE WalkInv(up, t)'
    <3>1. VisitsOf(heap, up, f, q)
      BY <2>3, <2>4 DEF WalkInv, q, f
    <3>2. CameTo(heap, bstRoot, up, f, q, d)
      BY <2>1, <2>3, <3>1 DEF CameTo
    <3>3. CASE d = NULL
      <4>1. \A b \in Allocated(heap) : heap[b].key # f
        BY <1>1, <2>1, <2>4, <3>2, <3>3, NoneThere
      <4>. QED
        BY <2>3, <3>3, <4>1 DEF WalkInv, Changing, f
    <3>4. CASE d # NULL
      <4>1. d \in Allocated(heap) /\ VisitsOf(heap, up, f, d)
        <5> HIDE DEF d
        <5>. QED
          BY <1>1, <2>1, <2>4, <3>2, <3>4, NodeThere
      <4>. QED
        BY <2>3, <3>4, <4>1 DEF WalkInv, Changing, f
    <3>. QED
      BY <3>3, <3>4
  <2>. QED
    BY <2>3, <2>4, WalkOn
<1>7. ASSUME NEW t \in Threads, SearchEnd(t) PROVE TreeInv'
  <2>1. /\ pc[t] = "search" /\ pc'[t] \in {"absent", "answered"} /\ heap' = heap /\ bstRoot' = bstRoot
        /\ call' = call /\ above' = above /\ m' = m /\ low' = low
        /\ \A u \in Threads \ {t} : pc'[u] = pc[u] /\ p'[u] = p[u]
    BY <1>1, <1>7 DEF SearchEnd, Goto, heapVars, walkVars
  <2>2. \A up : WalkInv(up, t)'
    BY <2>1 DEF WalkInv, Changing
  <2>. QED
    BY <2>1, <2>2, WalkOn
<1>8. ASSUME NEW t \in Threads, WriteLock(t) PROVE TreeInv'
  <2>1. /\ pc[t] = "wrlock" /\ pc'[t] \in {"insert", "remove_item"} /\ heap' = heap /\ bstRoot' = bstRoot
        /\ call' = call /\ above' = above /\ m' = m /\ low' = low /\ p'[t] = bstRoot
        /\ \A u \in Threads \ {t} : pc'[u] = pc[u] /\ p'[u] = p[u]
        /\ above[t] = NULL
    BY <1>1, <1>8 DEF WriteLock, Goto, heapVars, walkVars, PointerInv, Changing
  <2>2. \A up : WalkInv(up, t)'
    BY <2>1 DEF WalkInv, CameTo
  <2>. QED
    BY <2>1, <2>2, WalkOn
<1>9. ASSUME NEW t \in Threads, Descend(t) PROVE TreeInv'
  <2> DEFINE q == p[t]
             f == call[t].name
             d == IF f < heap[q].key THEN heap[q].left ELSE heap[q].right
  <2>1. q \in Allocated(heap) /\ f \in Nat
    BY <1>9, Standing DEF Descend
  <2>2. heap[q][Side(heap, q, f)] = d
    BY <1>1, <2>1, SideIs
  <2>3. /\ pc[t] \in {"insert", "remove_item"} /\ q # NULL /\ f # heap[q].key
        /\ heap' = heap /\ bstRoot' = bstRoot
        /\ pc' = pc /\ call' = call /\ m' = m /\ low' = low /\ p'[t] = d /\ above'[t] = q
        /\ \A u \in Threads \ {t} : p'[u] = p[u] /\ above'[u] = above[u]
    BY <1>1, <1>9, <2>2 DEF Descend, heapVars
  <2> HIDE DEF q, f
  <2>4. ASSUME NEW up, TreeOf(heap, bstRoot, up), WalkInv(up, t) PROVE WalkInv(up, t)'
    <3>1. CameTo(heap, bstRoot, up, f, above[t], q)
      BY <2>3, <2>4 DEF WalkInv, q, f, Changing
    <3>2. VisitsOf(heap, up, f, q)
      BY <1>1, <2>1, <2>3, <2>4, <3>1, NodeThere
    <3>3. CameTo(heap, bstRoot, up, f, q, d)
      BY <2>1, <2>3, <3>2 DEF CameTo
    <3> HIDE DEF d
    <3>. QED
      BY <2>3, <3>3 DEF WalkInv, f
  <2>. QED
    BY <2>3, <2>4, WalkOn
<1>10. ASSUME NEW t \in Threads, RemoveBelow(t) PROVE TreeInv'
  <2> DEFINE q == p[t]
             f == call[t].name
             c == heap[q].right
  <2>1. q \in Allocated(heap) /\ f \in Nat
    BY <1>10, Standing DEF RemoveBelow
  <2>2. /\ pc[t] = "remove_item" /\ pc'[t] = "find_min" /\ q # NULL /\ f = heap[q].key /\ c # NULL
        /\ heap' = heap /\ bstRoot' = bstRoot
        /\ call' = call /\ p' = p /\ above' = above /\ m'[t] = c /\ low'[t] = q
        /\ \A u \in Threads \ {t} : pc'[u] = pc[u] /\ m'[u] = m[u] /\ low'[u] = low[u]
    BY <1>1, <1>10 DEF RemoveBelow, Goto, heapVars
  <2> HIDE DEF q, f
  <2>3. ASSUME NEW up, TreeOf(heap, bstRoot, up), WalkInv(up, t) PROVE WalkInv(up, t)'
    <3>1. CameTo(heap, bstRoot, up, f, above[t], q)
      BY <2>2, <2>3 DEF WalkInv, q, f, Changing
    <3>2. Rights(heap)[q] = c
      BY <1>1, <2>1, NodeIs
    <3>3. c \in Allocated(heap) /\ up[c] = up[q] \cup {q}
      BY <2>1, <2>2, <2>3, <3>2 DEF TreeOf, Tree, RightLinked
    <3>4. \A b \in up[c] : q \notin up[b]
      BY <2>1, <2>3, <3>3 DEF TreeOf, Tree, Above
    <3>5. LeastBy(heap, up, q, c, q)
      BY <2>2, <3>3, <3>4 DEF LeastBy
    <3> HIDE DEF c
    <3>. QED
      BY <2>2, <3>1, <3>5 DEF WalkInv, q, f, Changing
  <2>. QED
    BY <2>2, <2>3, WalkOn
<1>11. ASSUME NEW t \in Threads, FindMin(t) PROVE TreeInv'
  <2> DEFINE q == p[t]
             min == m[t]
             c == heap[min].left
  <2>1. /\ pc[t] = "find_min" /\ pc' = pc /\ c # NULL
        /\ heap' = heap /\ bstRoot' = bstRoot
        /\ call' = call /\ p' = p /\ above' = above /\ m'[t] = c /\ low'[t] = min
        /\ \A u \in Threads \ {t} : m'[u] = m[u] /\ low'[u] = low[u]
    BY <1>1, <1>11 DEF FindMin, heapVars
  <2>2. q \in Allocated(heap) /\ min \in Allocated(heap)
    BY <2>1, Standing
  <2> HIDE DEF q, min
  <2>3. ASSUME NEW up, TreeOf(heap, bstRoot, up), WalkInv(up, t) PROVE WalkInv(up, t)'
    <3>1. LeastBy(heap, up, q, min, low[t]) /\ q # NULL
      BY <2>1, <2>3 DEF WalkInv, q, min
    <3>2. Lefts(heap)[min] = c /\ Keys(heap)[min] = heap[min].key /\ min # NULL
      BY <1>1, <2>2, NodeIs
    <3>3. /\ c \in Allocated(heap) /\ up[c] = up[min] \cup {min} /\ Keys(heap)[c] < Keys(heap)[min]
          /\ \A b \in Allocated(heap) : up[b] \subseteq Allocated(heap)
          /\ Above(Allocated(heap), up)
      BY <2>1, <2>2, <2>3, <3>2 DEF TreeOf, Tree, LeftLinked, Above
    <3>4. heap[c].key < heap[min].key /\ \A b \in Allocated(heap) : heap[b].key \in Nat
      BY <1>1, <3>2, <3>3, NodeIs
    <3>5. ASSUME NEW b \in up[c], q \in up[b] PROVE heap[c].key < heap[b].key
      <4>1. CASE b = min
        BY <3>4, <4>1
      <4>2. CASE b \in up[min]
        <5>1. heap[min].key < heap[b].key /\ b \in Allocated(heap)
          BY <2>2, <3>1, <3>3, <3>5, <4>2 DEF LeastBy
        <5>. QED
          BY <2>2, <3>3, <3>4, <5>1
      <4>. QED
        BY <3>3, <3>5, <4>1, <4>2
    <3>6. q \in up[c] /\ heap[q].right \in up[c] \cup {c} /\ q \in up[min] /\ heap[q].right # NULL
      BY <3>1, <3>3 DEF LeastBy
    <3>7. c # heap[q].right
      <4>1. c \notin up[c] /\ heap[q].right \in up[min] \cup {min}
        BY <3>1, <3>3 DEF Above, LeastBy
      <4>. QED
        BY <3>3, <4>1
    <3>8. LeastBy(heap, up, q, c, min)
      BY <2>2, <3>3, <3>5, <3>6, <3>7 DEF LeastBy
    <3> HIDE DEF c
    <3>. QED
      BY <2>1, <2>3, <3>8 DEF WalkInv, q, Changing
  <2>. QED
    BY <2>1, <2>3, WalkOn
<1>12. ASSUME NEW t \in Threads, Insert(t) \/ RemoveNone(t) \/ RemoveItem(t) \/ TakeMin(t)
       PROVE  TreeInv'
  <2>1. PICK h, q : Return(t, h, q)
    BY <1>12, ChangeIs
  <2>2. pc'[t] = "wrunlock" /\ \A u \in Threads \ {t} : pc'[u] = pc[u]
    BY <1>1, <2>1 DEF Return
  <2>3. pc[t] \in Changing /\ TreeAt(heap', bstRoot')
    BY <1>12, ChangeIs
  <2>4. \A u \in Threads : pc'[u] \notin Changing \cup {"search"}
    <3>1. bstLock.readers = {} /\ bstLock.writers = {t}
      BY <1>1, <2>3 DEF LockInv
    <3>2. \A u \in Threads \ {t} : pc[u] \notin Changing \cup {"search"}
      BY <1>1, <3>1 DEF LockInv
    <3>. QED
      BY <2>2, <3>2 DEF Changing
  <2>5. \A up : \A u \in Threads : WalkInv(up, u)'
    BY <2>4 DEF WalkInv, Changing
  <2>6. InTree'
    BY <2>3, <2>5 DEF InTree, TreeAt
  <2>7. Running'
    <3>1. Running
      BY <2>3, InTreeIs DEF Changing
    <3>. QED
      BY <2>2, <3>1 DEF Running
  <2>. QED
    BY <2>6, <2>7 DEF TreeInv
<1>. QED
  BY <1>2, <1>3, <1>4, <1>5, <1>6, <1>7, <1>8, <1>9, <1>10, <1>11, <1>12 DEF TreeNext, Step

LEMMA TreeInductive == TreeSpec => []TreeIInv
<1>1. TreeIInv /\ [TreeNext]_treeVars => TreeIInv'
  BY TreeTypeStep, LockStep, CallStep, PointerStep, TreeStep DEF TreeIInv
<1>. QED
  BY <1>1, TreeInitInv, PTL DEF TreeSpec

\* However the calls of several threads alternate, and whatever they insert and
\* remove: the nodes on the heap are those of one tree in order, no thread holds a
\* node that is freed (insert, remove_item, find_min and remove_min of bst.c, under
\* the lock of fs.c), and free_tree frees all of it.
THEOREM TreeIsSound == TreeSpec => []TreeSound
BY TreeInductive, Sound, PTL

-----------------------------------------------------------------------------
\* The tree implements the map of Directory.

LEMMA ContentsAre ==
  ASSUME NEW h \in Heaps, NEW root, TreeAt(h, root)
  PROVE  /\ \A c \in Allocated(h) : Contents(h)[h[c].key] = h[c].inumber
         /\ \A f \in Names : (\A c \in Allocated(h) : h[c].key # f) => Contents(h)[f] = NoNode
<1>1. PICK up : TreeOf(h, root, up)
  BY DEF TreeAt
<1> DEFINE at(f) == {q \in Allocated(h) : h[q].key = f}
<1>2. \A f \in Names : Contents(h)[f] = IF at(f) = {} THEN NoNode ELSE h[CHOOSE q \in at(f) : TRUE].inumber
  BY DEF Contents
<1>3. ASSUME NEW c \in Allocated(h) PROVE Contents(h)[h[c].key] = h[c].inumber
  <2> DEFINE f == h[c].key
             d == CHOOSE q \in at(f) : TRUE
  <2>1. f \in Names /\ c \in at(f)
    BY NodeIs
  <2>2. d \in at(f)
    BY <2>1
  <2>3. d = c
    BY <1>1, <2>2, OneOfName
  <2>4. Contents(h)[f] = h[d].inumber
    BY <1>2, <2>1
  <2>. QED
    BY <2>3, <2>4
<1>4. ASSUME NEW f \in Names, \A c \in Allocated(h) : h[c].key # f PROVE Contents(h)[f] = NoNode
  <2>1. at(f) = {}
    BY <1>4
  <2>. QED
    BY <1>2, <2>1
<1>. QED
  BY <1>3, <1>4

\* The names that keep their nodes stand for what they did.
LEMMA ContentsKept ==
  ASSUME NEW h \in Heaps, NEW root, TreeAt(h, root), NEW s \in Heaps, NEW root2, TreeAt(s, root2),
         NEW f \in Names, SameBut(s, h, f), NEW k \in Names, k # f
  PROVE  Contents(s)[k] = Contents(h)[k]
<1>1. CASE \E c \in Allocated(s) : s[c].key = k
  <2>1. PICK c \in Allocated(s) : s[c].key = k
    BY <1>1
  <2>2. c \in Allocated(h) /\ h[c].key = k /\ h[c].inumber = s[c].inumber
    BY <2>1 DEF SameBut
  <2>3. Contents(s)[k] = s[c].inumber
    BY <2>1, ContentsAre
  <2>4. Contents(h)[k] = h[c].inumber
    BY <2>2, ContentsAre
  <2>. QED
    BY <2>2, <2>3, <2>4
<1>2. CASE \A c \in Allocated(s) : s[c].key # k
  <2>1. ASSUME NEW c \in Allocated(h), h[c].key = k PROVE FALSE
    <3>1. c \in Allocated(s) /\ s[c].key # f
      BY <2>1 DEF SameBut
    <3>. QED
      BY <1>2, <2>1, <3>1 DEF SameBut
  <2>2. Contents(s)[k] = NoNode
    BY <1>2, ContentsAre
  <2>3. Contents(h)[k] = NoNode
    BY <2>1, ContentsAre
  <2>. QED
    BY <2>2, <2>3
<1>. QED
  BY <1>1, <1>2

\* The names of heap s stand for what those of heap h do, but for name f.
Rebinds(s, h, f, v) == Contents(s) = [Contents(h) EXCEPT ![f] = v]

LEMMA ContentsChange ==
  ASSUME NEW h \in Heaps, NEW root, TreeAt(h, root), NEW s \in Heaps, NEW root2, TreeAt(s, root2),
         NEW f \in Names
  PROVE  /\ \A i : Binds(s, h, f, i) => Rebinds(s, h, f, i)
         /\ Unbinds(s, h, f) => Rebinds(s, h, f, NoNode)
<1> DEFINE to(v) == [Contents(h) EXCEPT ![f] = v]
           value(g, k) == LET at == {q \in Allocated(g) : g[q].key = k}
                          IN IF at = {} THEN NoNode ELSE g[CHOOSE q \in at : TRUE].inumber
<1>0. Contents(h) = [k \in Names |-> value(h, k)] /\ Contents(s) = [k \in Names |-> value(s, k)]
  BY DEF Contents
<1> HIDE DEF value
<1>1. DOMAIN Contents(h) = Names /\ DOMAIN Contents(s) = Names
  BY <1>0
<1>2. ASSUME NEW v, SameBut(s, h, f), Contents(s)[f] = v PROVE Contents(s) = to(v)
  <2>1. \A k \in Names : k # f => Contents(s)[k] = Contents(h)[k]
    BY <1>2, ContentsKept
  <2>2. \A k \in Names : value(s, k) = IF k = f THEN v ELSE value(h, k)
    BY <1>0, <1>2, <2>1
  <2>3. to(v) = [k \in Names |-> IF k = f THEN v ELSE value(h, k)]
    BY <1>0
  <2>. QED
    BY <1>0, <2>2, <2>3
<1>3. ASSUME NEW i, Binds(s, h, f, i) PROVE Contents(s) = to(i)
  <2>1. PICK c \in Allocated(s) : s[c].key = f /\ s[c].inumber = i
    BY <1>3 DEF Binds
  <2>2. Contents(s)[f] = i
    BY <2>1, ContentsAre
  <2>. QED
    BY <1>2, <1>3, <2>2 DEF Binds
<1>4. ASSUME Unbinds(s, h, f) PROVE Contents(s) = to(NoNode)
  <2>1. Contents(s)[f] = NoNode
    BY <1>4, ContentsAre DEF Unbinds
  <2>. QED
    BY <1>2, <1>4, <2>1 DEF Unbinds
<1>. QED
  BY <1>3, <1>4 DEF Rebinds

LEMMA StatusIs ==
  ASSUME NEW op
  PROVE  /\ Status("idle", op) = "idle" /\ Status("joined", op) = "idle"
         /\ Status("rdlock", op) = "called" /\ Status("search", op) = "called"
         /\ Status("answered", op) = "done" /\ Status("wrunlock", op) = "done"
         /\ Status("absent", op) = "absent"
         /\ \A label \in {"wrlock", "insert", "remove_item", "find_min"} :
              Status(label, op) = IF op = "create" THEN "absent" ELSE "called"
BY DEF Status

StatusMap == [t \in Threads |-> Status(pc[t], call[t].op)]

LEMMA StatusStep ==
  ASSUME NEW t \in Threads, \A u \in Threads \ {t} : pc'[u] = pc[u] /\ call'[u] = call[u]
  PROVE  StatusMap' = [StatusMap EXCEPT ![t] = Status(pc'[t], call'[t].op)]
BY DEF StatusMap

LEMMA MapInit == TreeInit => Map!Init
<1> SUFFICES ASSUME TreeInit PROVE Map!Init
  OBVIOUS
<1>1. Allocated(heap) = {}
  BY DEF TreeInit, Allocated
<1>2. Contents(heap) = [f \in Names |-> Map!NoNode]
  BY <1>1 DEF Contents, NoNode, Map!NoNode
<1>3. [t \in Threads |-> Status(pc[t], call[t].op)] = [t \in Threads |-> "idle"]
  BY StatusIs DEF TreeInit
<1>4. call \in [Threads -> Map!Call]
  BY TreeInitInv DEF TreeIInv, TreeTypeOK, Call, Map!Call
<1>. QED
  BY <1>2, <1>3, <1>4 DEF TreeInit, Map!Init

LEMMA MapStep == TreeIInv /\ TreeIInv' /\ [TreeNext]_treeVars => [Map!Next]_(Map!vars)
<1> SUFFICES ASSUME TreeIInv, TreeIInv', [TreeNext]_treeVars PROVE [Map!Next]_(Map!vars)
  OBVIOUS
<1>1. /\ pc \in [Threads -> Labels] /\ call \in [Threads -> Call] /\ CallInv /\ heap \in Heaps
      /\ reply \in [Threads -> Inumbers \cup {-1, 0}] /\ bounds.offered \subseteq Call
  BY BoundsAssumption DEF TreeIInv, TreeTypeOK, Heaps
<1>2. [t \in Threads |-> Status(pc[t], call[t].op)] = StatusMap
  BY DEF StatusMap
<1>3. \A t \in Threads : StatusMap[t] = Status(pc[t], call[t].op)
  BY DEF StatusMap
<1>4. StatusMap = [t \in Threads |-> StatusMap[t]]
  BY <1>3 DEF StatusMap
\* A step of t that the map does not see.
<1>5. ASSUME NEW t \in Threads, heap' = heap, call' = call, reply' = reply,
             \A u \in Threads \ {t} : pc'[u] = pc[u],
             Status(pc'[t], call[t].op) = Status(pc[t], call[t].op)
      PROVE  UNCHANGED Map!vars
  <2>1. StatusMap' = StatusMap
    BY <1>5 DEF StatusMap
  <2>. QED
    BY <1>2, <1>5, <2>1 DEF Map!vars
\* A step of t from one status to another.
<1>6. ASSUME NEW t \in Threads, NEW from, NEW to,
             \A u \in Threads \ {t} : pc'[u] = pc[u] /\ call'[u] = call[u],
             Status(pc[t], call[t].op) = from, Status(pc'[t], call'[t].op) = to
      PROVE  Map!Goto(t, from, to)
  BY <1>2, <1>3, <1>6, StatusStep DEF Map!Goto
<1>7. CASE UNCHANGED treeVars
  BY <1>7 DEF treeVars, heapVars, Map!vars
<1>8. CASE FreeTree
  <2>1. (\A t \in Threads : pc[t] = "idle") /\ pc' = [t \in Threads |-> "joined"] /\ call' = call /\ reply' = reply
    BY <1>8 DEF FreeTree
  <2>2. \A t \in Threads : StatusMap[t] = "idle" /\ Status(pc'[t], call'[t].op) = "idle"
    BY <1>3, <2>1, StatusIs
  <2>3. StatusMap' = StatusMap
    BY <2>1, StatusIs DEF StatusMap
  <2>4. Allocated(heap') = {}
    <3>1. CASE Threads # {}
      <4>1. ~Running'
        BY <2>1, <3>1 DEF Running
      <4>. QED
        BY <4>1 DEF TreeIInv, TreeInv
    <3>2. CASE Threads = {}
      <4>1. Running' /\ bstRoot' = NULL
        BY <3>2 DEF TreeIInv, TreeInv, Running
      <4>2. PICK up : TreeOf(heap', bstRoot', up)
        BY <4>1 DEF TreeIInv, TreeInv, InTree
      <4>. QED
        BY <4>1, <4>2 DEF TreeOf, Tree, Rooted
    <3>. QED
      BY <3>1, <3>2
  <2>5. Contents(heap') = [f \in Names |-> Map!NoNode]
    BY <2>4 DEF Contents, NoNode, Map!NoNode
  <2>6. Map!Free
    BY <1>2, <2>1, <2>2, <2>3, <2>5 DEF Map!Free
  <2>. QED
    BY <2>6 DEF Map!Next
<1>9. ASSUME NEW t \in Threads, Begin(t) PROVE Map!Next
  <2>1. PICK c \in bounds.offered :
           /\ call' = [call EXCEPT ![t] = c]
           /\ Goto(t, "idle", IF c.op = "delete" THEN "wrlock" ELSE "rdlock")
    BY <1>9 DEF Begin
  <2>2. /\ pc[t] = "idle" /\ pc'[t] = (IF c.op = "delete" THEN "wrlock" ELSE "rdlock")
        /\ call'[t] = c /\ \A u \in Threads \ {t} : pc'[u] = pc[u] /\ call'[u] = call[u]
    BY <1>1, <2>1 DEF Goto
  <2>3. Status(pc[t], call[t].op) = "idle" /\ Status(pc'[t], call'[t].op) = "called"
    BY <2>2, StatusIs
  <2>4. Map!Goto(t, "idle", "called")
    BY <1>6, <2>2, <2>3
  <2>5. c \in Map!Call
    BY <1>1, <2>1 DEF Call, Map!Call
  <2>6. heap' = heap /\ reply' = reply
    BY <1>9 DEF Begin, heapVars
  <2>7. Map!Begin(t)
    BY <2>1, <2>4, <2>5, <2>6 DEF Map!Begin
  <2>. QED
    BY <2>7 DEF Map!Next
<1>10. ASSUME NEW t \in Threads, LookupLock(t) PROVE UNCHANGED Map!vars
  <2>1. /\ pc[t] = "rdlock" /\ pc'[t] = "search" /\ \A u \in Threads \ {t} : pc'[u] = pc[u]
        /\ heap' = heap /\ call' = call /\ reply' = reply
    BY <1>1, <1>10 DEF LookupLock, Goto, heapVars
  <2>2. Status(pc'[t], call[t].op) = Status(pc[t], call[t].op)
    BY <2>1, StatusIs
  <2>. QED
    BY <1>5, <2>1, <2>2
<1>11. ASSUME NEW t \in Threads, Search(t) \/ Descend(t) \/ FindMin(t) PROVE UNCHANGED Map!vars
  <2>1. pc' = pc /\ heap' = heap /\ call' = call /\ reply' = reply
    BY <1>11 DEF Search, Descend, FindMin, heapVars
  <2>. QED
    BY <1>5, <2>1
<1>12. ASSUME NEW t \in Threads, SearchEnd(t) PROVE Map!Next
  <2> DEFINE f       == call[t].name
             inumber == IF p[t] = NULL THEN -1 ELSE heap[p[t]].inumber
             absent  == call[t].op = "create" /\ inumber = -1
  <2>1. /\ pc[t] = "search" /\ (p[t] # NULL => heap[p[t]].key = f)
        /\ pc'[t] = (IF absent THEN "absent" ELSE "answered") /\ \A u \in Threads \ {t} : pc'[u] = pc[u]
        /\ reply' = [reply EXCEPT ![t] = IF call[t].op = "lookup" THEN inumber
                                         ELSE IF absent THEN reply[t] ELSE -1]
        /\ heap' = heap /\ call' = call
    BY <1>1, <1>12 DEF SearchEnd, Goto, heapVars
  <2>2. PICK up : TreeOf(heap, bstRoot, up) /\ WalkInv(up, t)
    BY <2>1, InTreeIs DEF InTree
  <2>3. TreeAt(heap, bstRoot) /\ f \in Names
    BY <2>2, Standing DEF TreeAt
  <2>4. Map!Found(t) = inumber
    <3>1. CASE p[t] = NULL
      <4>1. \A b \in Allocated(heap) : heap[b].key # f
        BY <2>1, <2>2, <3>1 DEF WalkInv
      <4>2. Contents(heap)[f] = NoNode
        BY <1>1, <2>3, <4>1, ContentsAre
      <4>. QED
        BY <3>1, <4>2 DEF Map!Found, NoNode, Map!NoNode
    <3>2. CASE p[t] # NULL
      <4>1. p[t] \in Allocated(heap) /\ heap[p[t]].key = f
        BY <2>1, <2>2, <3>2 DEF WalkInv
      <4>2. Contents(heap)[f] = heap[p[t]].inumber
        BY <1>1, <2>3, <4>1, ContentsAre
      <4>3. heap[p[t]].inumber # NoNode
        BY <1>1, <4>1, NodeIs DEF Node, NoNode
      <4>. QED
        BY <3>2, <4>2, <4>3 DEF Map!Found, NoNode, Map!NoNode
    <3>. QED
      BY <3>1, <3>2
  <2>5. call[t].op \in {"lookup", "create"}
    BY <1>1, <2>1 DEF CallInv
  <2> HIDE DEF inumber, f
  <2>6. CASE call[t].op = "lookup"
    <3>1. pc'[t] = "answered" /\ reply' = [reply EXCEPT ![t] = inumber]
      BY <2>1, <2>6
    <3>2. Status(pc[t], call[t].op) = "called" /\ Status(pc'[t], call'[t].op) = "done"
      BY <2>1, <3>1, StatusIs
    <3>3. Map!Goto(t, "called", "done")
      BY <1>6, <2>1, <3>2
    <3>4. Map!Lookup(t)
      BY <2>1, <2>4, <2>6, <3>1, <3>3 DEF Map!Lookup, Map!Reply
    <3>. QED
      BY <3>4 DEF Map!Next
  <2>7. CASE call[t].op = "create" /\ inumber = -1
    <3>1. pc'[t] = "absent" /\ reply' = reply
      BY <1>1, <2>1, <2>7
    <3>2. Status(pc[t], call[t].op) = "called" /\ Status(pc'[t], call'[t].op) = "absent"
      BY <2>1, <3>1, StatusIs
    <3>3. Map!Goto(t, "called", "absent")
      BY <1>6, <2>1, <3>2
    <3>4. Map!CreateLookup(t)
      BY <2>1, <2>4, <2>7, <3>1, <3>3 DEF Map!CreateLookup
    <3>. QED
      BY <3>4 DEF Map!Next
  <2>8. CASE call[t].op = "create" /\ inumber # -1
    <3>1. pc'[t] = "answered" /\ reply' = [reply EXCEPT ![t] = -1]
      BY <2>1, <2>8
    <3>2. Status(pc[t], call[t].op) = "called" /\ Status(pc'[t], call'[t].op) = "done"
      BY <2>1, <3>1, StatusIs
    <3>3. Map!Goto(t, "called", "done")
      BY <1>6, <2>1, <3>2
    <3>4. Map!CreateLookup(t)
      BY <2>1, <2>4, <2>8, <3>1, <3>3 DEF Map!CreateLookup, Map!Reply
    <3>. QED
      BY <3>4 DEF Map!Next
  <2>. QED
    BY <2>5, <2>6, <2>7, <2>8
<1>13. ASSUME NEW t \in Threads, LookupUnlock(t) \/ WriteUnlock(t) PROVE [Map!Next]_(Map!vars)
  <2>1. /\ \/ pc[t] \in {"answered", "wrunlock"} /\ pc'[t] = "idle"
           \/ pc[t] = "absent" /\ pc'[t] = "wrlock"
        /\ \A u \in Threads \ {t} : pc'[u] = pc[u]
        /\ heap' = heap /\ call' = call /\ reply' = reply
    BY <1>1, <1>13 DEF LookupUnlock, WriteUnlock, Goto, heapVars
  <2>2. CASE pc[t] \in {"answered", "wrunlock"} /\ pc'[t] = "idle"
    <3>1. Status(pc[t], call[t].op) = "done" /\ Status(pc'[t], call'[t].op) = "idle"
      BY <2>2, StatusIs
    <3>2. Map!Goto(t, "done", "idle")
      BY <1>6, <2>1, <3>1
    <3>3. Map!End(t)
      BY <2>1, <3>2 DEF Map!End
    <3>. QED
      BY <3>3 DEF Map!Next
  <2>3. CASE pc[t] = "absent" /\ pc'[t] = "wrlock"
    <3>1. call[t].op = "create"
      BY <1>1, <2>3 DEF CallInv
    <3>2. Status(pc'[t], call[t].op) = Status(pc[t], call[t].op)
      BY <2>3, <3>1, StatusIs
    <3>3. UNCHANGED Map!vars
      BY <1>5, <2>1, <3>2
    <3>. QED
      BY <3>3
  <2>. QED
    BY <2>1, <2>2, <2>3
<1>14. ASSUME NEW t \in Threads, WriteLock(t) \/ RemoveBelow(t) PROVE UNCHANGED Map!vars
  <2>1. /\ pc[t] \in {"wrlock", "remove_item"} /\ pc'[t] \in {"insert", "remove_item", "find_min"}
        /\ \A u \in Threads \ {t} : pc'[u] = pc[u]
        /\ heap' = heap /\ call' = call /\ reply' = reply
    BY <1>1, <1>14 DEF WriteLock, RemoveBelow, Goto, heapVars
  <2>2. Status(pc'[t], call[t].op) = Status(pc[t], call[t].op)
    BY <2>1, StatusIs
  <2>. QED
    BY <1>5, <2>1, <2>2
<1>15. ASSUME NEW t \in Threads, Insert(t) \/ RemoveNone(t) \/ RemoveItem(t) \/ TakeMin(t)
       PROVE  Map!Next
  <2> DEFINE f == call[t].name
             i == call[t].inumber
  <2>1. PICK h, q : Return(t, h, q)
    BY <1>15, ChangeIs
  <2>2. /\ pc'[t] = "wrunlock" /\ \A u \in Threads \ {t} : pc'[u] = pc[u]
        /\ call' = call /\ reply' = [reply EXCEPT ![t] = 0]
    BY <1>1, <2>1 DEF Return
  <2>3. pc[t] \in Changing /\ heap' \in Heaps /\ TreeAt(heap', bstRoot')
    BY <1>15, ChangeIs
  <2>4. TreeAt(heap, bstRoot) /\ f \in Names
    BY <2>3, InTreeIs, Standing DEF InTree, TreeAt, Changing
  <2>5. Status(pc'[t], call'[t].op) = "done"
    BY <2>2, StatusIs
  <2>6. CASE Insert(t)
    <3>1. pc[t] = "insert" /\ call[t].op = "create"
      BY <1>1, <2>6 DEF Insert, CallInv
    <3>2. Status(pc[t], call[t].op) = "absent"
      BY <3>1, StatusIs
    <3>3. Map!Goto(t, "absent", "done")
      BY <1>6, <2>2, <2>5, <3>2
    <3>4. Binds(heap', heap, f, i)
      BY <2>6, InsertIs
    <3>5. Contents(heap') = [Contents(heap) EXCEPT ![f] = i]
      <4>1. Rebinds(heap', heap, f, i)
        BY <1>1, <2>3, <2>4, <3>4, ContentsChange
      <4>. QED
        BY <4>1 DEF Rebinds
    <3>6. Map!CreateInsert(t)
      BY <2>2, <3>3, <3>5 DEF Map!CreateInsert, Map!Reply
    <3>. QED
      BY <3>6 DEF Map!Next
  <2>7. CASE RemoveNone(t) \/ RemoveItem(t) \/ TakeMin(t)
    <3>1. pc[t] \in {"remove_item", "find_min"} /\ call[t].op = "delete"
      BY <1>1, <2>7 DEF RemoveNone, RemoveItem, TakeMin, CallInv
    <3>2. Status(pc[t], call[t].op) = "called"
      BY <3>1, StatusIs
    <3>3. Map!Goto(t, "called", "done")
      BY <1>6, <2>2, <2>5, <3>2
    <3>4. Unbinds(heap', heap, f)
      BY <2>7, RemoveNoneIs, RemoveItemIs, TakeMinIs
    <3>5. Contents(heap') = [Contents(heap) EXCEPT ![f] = NoNode]
      BY <1>1, <2>3, <2>4, <3>4, ContentsChange DEF Rebinds
    <3>6. Map!Delete(t)
      BY <2>2, <3>1, <3>3, <3>5 DEF Map!Delete, Map!Reply, NoNode, Map!NoNode
    <3>. QED
      BY <3>6 DEF Map!Next
  <2>. QED
    BY <1>15, <2>6, <2>7
<1>. QED
  BY <1>7, <1>8, <1>9, <1>10, <1>11, <1>12, <1>13, <1>14, <1>15 DEF TreeNext, Step

\* Each lookup, insertion and removal is one step of a map from names to inumbers,
\* whatever else runs: what create and delete of fs.c do to the tree under the lock
\* they do to what the names stand for, and lookup answers from that.
THEOREM TreeImplementsDirectory == TreeSpec => ImplementsDirectory
<1>1. TreeIInv /\ TreeIInv' /\ [TreeNext]_treeVars => [Map!Next]_(Map!vars)
  BY MapStep
<1>. QED
  BY <1>1, MapInit, TreeInductive, PTL DEF TreeSpec, ImplementsDirectory, Map!Spec

=============================================================================
