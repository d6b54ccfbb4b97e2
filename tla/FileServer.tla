----------------------------- MODULE FileServer -----------------------------
(***************************************************************************)
(* The file server (RC_project/Code/fs.c) with the clients' side of an     *)
(* operation (user.c) and the validation of its TID (as.c, fsInput).       *)
(*                                                                         *)
(* A client opens a connection for each operation and sends one request.   *)
(* The server's main process keeps the connections it has accepted in the  *)
(* slots of users until select finds their request, and forks a child for  *)
(* it.  All children share the main process's one UDP socket to the        *)
(* authentication server, and each takes the next confirmation that comes. *)
(***************************************************************************)
EXTENDS Naturals, Sequences, FiniteSets, Functions

CONSTANTS
  Users,         \* user numbers
  Files,         \* names of files
  MaxConns,      \* bound: connections
  Requests,      \* what the users ask for
  Stored,        \* user -> what earlier runs of the server left in its directory
  Listen,        \* the listening socket
  NoConn, NoRequest, NoFile, NoDir,
  MAXUSERS,      \* slots
  MaxGone,       \* bound: clients interrupted
  MaxLost        \* bound: datagrams lost

\* A request: who sends it, the operation, the file an upload names, whether the
\* authentication server will find the TID in its file ("E": it finds another,
\* "none": there is no file), and the file that TID was given for.  "BAD" is what the client makes of a line
\* it does not understand: it connects, and sends nothing.
Tid == {"OK", "E", "none"}

Request ==
  [user : Users, op : {"RTV", "DEL"}, tid : Tid, file : Files \cup {NoFile}]
    \cup [user : Users, op : {"UPL"}, tid : Tid, file : Files]
    \cup [user : Users, op : {"LST", "REM", "BAD"}, tid : Tid, file : {NoFile}]

\* Connections are numbered as they are made.
Conns == 1 .. MaxConns

ASSUME FileServerAssumption ==
  /\ Requests \subseteq Request /\ Stored \in [Users -> {NoDir} \cup SUBSET Files]
  /\ MaxConns \in Nat /\ MAXUSERS \in Nat /\ MaxConns < MAXUSERS
  /\ {Listen, NoConn} \cap Conns = {} /\ Listen # NoConn
  /\ NoRequest \notin Request /\ NoFile \notin Files /\ \A d \in SUBSET Files : d # NoDir
  /\ MaxGone \in Nat /\ MaxLost \in Nat

VARIABLES
  client,     \* "new", "connected", "waiting", "more" (reading a file), "served", "gone"
  request,    \* what it asks
  written,    \* is the request in the server's socket?
  answer,     \* the status of the answer, or "none"
  backlog,    \* connections to accept
  users, n,   \* the slots, and where the next connection goes
  readfds,    \* what select returned
  activity,   \* turns left of the loop over it; 0: in select
  child,      \* what the child of a connection is about to do
  vld,        \* requests whose VLD is on its way
  cnf,        \* requests whose CNF is in the children's socket
  confirmed,  \* connection -> the request whose CNF its child took
  dir,        \* user -> names in its directory, or NoDir
  shared,     \* history: children that were waiting for a CNF with another
  lost        \* datagrams lost

clientVars == <<client, request>>
mainVars   == <<users, n, readfds, activity>>
cnfVars    == <<vld, cnf, confirmed, shared, lost>>
vars == <<clientVars, written, answer, backlog, mainVars, child, cnfVars, dir>>

TypeOK ==
  /\ client \in [Conns -> {"new", "connected", "waiting", "more", "served", "gone"}]
  /\ request \in [Conns -> Requests \cup {NoRequest}]
  /\ written \in [Conns -> BOOLEAN]
  /\ answer \in [Conns -> {"none", "OK", "INV", "EOF", "NOK", "DUP", "FULL"}]
  /\ backlog \in Seq(Conns)
  /\ users \in [0 .. MAXUSERS - 1 -> Conns \cup {NoConn}]
  /\ n \in 0 .. MAXUSERS
  /\ readfds \subseteq Conns \cup {Listen}
  /\ activity \in 0 .. MAXUSERS + 1
  /\ child \in [Conns -> {"none", "validate", "wait", "operation", "drain", "create",
                          "rmdir", "done", "failed"}]
  /\ vld \subseteq Conns
  /\ cnf \in Seq(Conns)
  /\ confirmed \in [Conns -> Conns \cup {NoConn}]
  /\ dir \in [Users -> {NoDir} \cup SUBSET Files]
  /\ shared \subseteq Conns
  /\ lost \in 0 .. MaxLost

Init ==
  /\ client = [c \in Conns |-> "new"]
  /\ request = [c \in Conns |-> NoRequest]
  /\ written = [c \in Conns |-> FALSE]
  /\ answer = [c \in Conns |-> "none"]
  /\ backlog = <<>>
  /\ users = [i \in 0 .. MAXUSERS - 1 |-> NoConn]
  /\ n = 0 /\ readfds = {} /\ activity = 0
  /\ child = [c \in Conns |-> "none"]
  /\ vld = {} /\ cnf = <<>>
  /\ confirmed = [c \in Conns |-> NoConn]
  /\ dir = Stored
  /\ shared = {}
  /\ lost = 0

-----------------------------------------------------------------------------
\* The client.

Busy(u) ==
  \E c \in Conns : /\ client[c] \in {"connected", "waiting", "more"}
                   /\ request[c].user = u

Connect(c) ==
  /\ client[c] = "new" /\ \A d \in 1 .. c - 1 : client[d] # "new"
  /\ \E r \in Requests :
       /\ ~Busy(r.user)
       /\ request' = [request EXCEPT ![c] = r]
  /\ client' = [client EXCEPT ![c] = "connected"]
  /\ backlog' = Append(backlog, c)
  /\ UNCHANGED <<written, answer, mainVars, child, cnfVars, dir>>

Write(c) ==
  /\ client[c] = "connected"
  /\ client' = [client EXCEPT ![c] = "waiting"]
  /\ written' = [written EXCEPT ![c] = request[c].op # "BAD"]
  /\ UNCHANGED <<request, answer, backlog, mainVars, child, cnfVars, dir>>

\* A file comes after the status, and is read up to the end of the connection:
\* the main process keeps the connection open, and there is no end.
Read(c) ==
  /\ client[c] = "waiting" /\ answer[c] # "none"
  /\ client' = [client EXCEPT ![c] =
       IF request[c].op = "RTV" /\ answer[c] = "OK" THEN "more" ELSE "served"]
  /\ UNCHANGED <<request, written, answer, backlog, mainVars, child, cnfVars, dir>>

\* The user stops a client that waits (if it has sent a request: of the child
\* forked for an end of file alone nothing is modelled).
Interrupt(c) ==
  /\ client[c] \in {"waiting", "more"} /\ request[c].op # "BAD"
  /\ Cardinality({d \in Conns : client[d] = "gone"}) < MaxGone
  /\ client' = [client EXCEPT ![c] = "gone"]
  /\ UNCHANGED <<request, written, answer, backlog, mainVars, child, cnfVars, dir>>

-----------------------------------------------------------------------------
\* The main process of the server.

Readable ==
  {c \in Range(users) \ {NoConn} : written[c]}
    \cup (IF backlog = <<>> THEN {} ELSE {Listen})

\* The loop sets n, its own and not the global one, to 0 before each select.
Select ==
  /\ activity = 0 /\ Readable # {}
  /\ n' = 0
  /\ readfds' = Readable
  /\ activity' = Cardinality(Readable)
  /\ UNCHANGED <<clientVars, written, answer, backlog, users, child, cnfVars, dir>>

\* A connection with a request leaves its slot and gets a child.
ServeAll(slots) ==
  LET ready == {c \in readfds \ {Listen} : c \in Range(slots)}
  IN  /\ users' = [i \in DOMAIN slots |-> IF slots[i] \in ready THEN NoConn ELSE slots[i]]
      /\ child' = [c \in Conns |-> IF c \in ready THEN "validate" ELSE child[c]]
      /\ activity' = activity - 1
      /\ UNCHANGED <<clientVars, written, answer, readfds, cnfVars, dir>>

\* A turn that accepts a connection.  The next turn does so again, with nobody
\* to accept, and blocks.
AcceptTurn ==
  /\ activity > 0 /\ Listen \in readfds
  /\ backlog # <<>>
  /\ backlog' = Tail(backlog)
  /\ n' = n + 1
  /\ ServeAll([users EXCEPT ![n] = Head(backlog)])

Turn ==
  /\ activity > 0 /\ Listen \notin readfds
  /\ ServeAll(users)
  /\ UNCHANGED <<backlog, n>>

MainStep == Select \/ AcceptTurn \/ Turn

-----------------------------------------------------------------------------
\* The children, and the authentication server.

Waiting == {c \in Conns : child[c] = "wait"}

ChildFrame == UNCHANGED <<clientVars, written, backlog, mainVars>>

\* The child asks for the validation of the TID.
SendVld(c) ==
  /\ child[c] = "validate"
  /\ child' = [child EXCEPT ![c] = "wait"]
  /\ shared' = IF Waiting = {} THEN shared ELSE shared \cup Waiting \cup {c}
  /\ \/ vld' = vld \cup {c} /\ UNCHANGED lost
     \/ lost < MaxLost /\ lost' = lost + 1 /\ UNCHANGED vld
  /\ UNCHANGED <<answer, cnf, confirmed, dir>> /\ ChildFrame

\* fsInput: CNF, with the TID's operation or "E"; without a file for the TID it
\* dies on fclose(NULL).
FsInput(c) ==
  /\ c \in vld
  /\ vld' = vld \ {c}
  /\ \/ request[c].tid # "none" /\ cnf' = Append(cnf, c) /\ UNCHANGED lost
     \/ request[c].tid = "none" /\ UNCHANGED <<cnf, lost>>
     \/ lost < MaxLost /\ lost' = lost + 1 /\ UNCHANGED cnf
  /\ UNCHANGED <<clientVars, written, answer, backlog, mainVars, child, confirmed, shared, dir>>

Answer(c, status) ==
  /\ answer' = [answer EXCEPT ![c] = status]
  /\ child' = [child EXCEPT ![c] = "done"]

GoTo(c, next) ==
  /\ child' = [child EXCEPT ![c] = next]
  /\ UNCHANGED answer

\* Mutation: a TID that is not valid is treated as one that is.
ReceiveAny(c) ==
  /\ child[c] = "wait" /\ cnf # <<>>
  /\ cnf' = Tail(cnf)
  /\ confirmed' = [confirmed EXCEPT ![c] = Head(cnf)]
  /\ GoTo(c, "operation")
  /\ UNCHANGED <<vld, shared, lost, dir>> /\ ChildFrame

\* Mutation: a child that has waited too long goes on as if the TID were bad.
ReceiveOrGiveUp(c) ==
  /\ child[c] = "wait"
  /\ \/ /\ cnf # <<>> /\ cnf' = Tail(cnf)
        /\ confirmed' = [confirmed EXCEPT ![c] = Head(cnf)]
        /\ IF request[Head(cnf)].tid = "E" THEN Answer(c, "INV") ELSE GoTo(c, "operation")
     \/ Answer(c, "INV") /\ UNCHANGED <<cnf, confirmed>>
  /\ UNCHANGED <<vld, shared, lost, dir>> /\ ChildFrame

\* Mutation: the datagram stays in the socket.
ReceivePeek(c) ==
  /\ child[c] = "wait" /\ cnf # <<>>
  /\ confirmed' = [confirmed EXCEPT ![c] = Head(cnf)]
  /\ IF request[Head(cnf)].tid = "E" THEN Answer(c, "INV") ELSE GoTo(c, "operation")
  /\ UNCHANGED <<vld, cnf, shared, lost, dir>> /\ ChildFrame

\* Whoever waits on the socket takes the next datagram, and with it the user, the
\* TID and the file name it goes on with.
ReceiveCnf(c) ==
  /\ child[c] = "wait" /\ cnf # <<>>
  /\ cnf' = Tail(cnf)
  /\ confirmed' = [confirmed EXCEPT ![c] = Head(cnf)]
  /\ IF request[Head(cnf)].tid = "E" THEN Answer(c, "INV") ELSE GoTo(c, "operation")
  /\ UNCHANGED <<vld, shared, lost, dir>> /\ ChildFrame

\* Where the child works, and the file it works on but for an upload.
Owner(c) == request[confirmed[c]].user
File(c)  == request[confirmed[c]].file

OperationFrame == UNCHANGED cnfVars /\ ChildFrame

At(c, op) == child[c] = "operation" /\ request[c].op = op

\* The end of list that says there are no files follows every list.
List(c) ==
  /\ At(c, "LST")
  /\ Answer(c, IF dir[Owner(c)] = NoDir THEN "EOF" ELSE "OK")
  /\ UNCHANGED dir /\ OperationFrame

Retrieve(c) ==
  LET d == dir[Owner(c)]
  IN  /\ At(c, "RTV")
      /\ Answer(c, IF d = NoDir THEN "NOK" ELSE IF File(c) \in d THEN "OK" ELSE "EOF")
      /\ UNCHANGED dir /\ OperationFrame

\* Mutation: no answer if there is no such file.
DeleteSilent(c) ==
  LET u == Owner(c)
  IN  /\ At(c, "DEL")
      /\ IF dir[u] # NoDir /\ File(c) \in dir[u]
         THEN dir' = [dir EXCEPT ![u] = @ \ {File(c)}] /\ Answer(c, "OK")
         ELSE UNCHANGED dir /\ GoTo(c, "done")
      /\ OperationFrame

Delete(c) ==
  LET u == Owner(c)
  IN  /\ At(c, "DEL")
      /\ IF dir[u] # NoDir /\ File(c) \in dir[u]
         THEN dir' = [dir EXCEPT ![u] = @ \ {File(c)}] /\ Answer(c, "OK")
         ELSE UNCHANGED dir /\ Answer(c, IF dir[u] = NoDir THEN "NOK" ELSE "EOF")
      /\ OperationFrame

\* upload, up to the creation of the file.  count and flag are not initialised:
\* a directory may count as full at any number of names, and any name as there.
LookUp(c) ==
  LET u == Owner(c)
  IN  /\ At(c, "UPL")
      /\ \E full, flag \in BOOLEAN :
           IF dir[u] # NoDir /\ full
           THEN Answer(c, "FULL")
           ELSE GoTo(c, IF flag \/ (dir[u] # NoDir /\ request[c].file \in dir[u])
                        THEN "drain" ELSE "create")
      /\ dir' = [dir EXCEPT ![u] = IF @ = NoDir THEN {} ELSE @]
      /\ OperationFrame

\* "IF file exists clear socket and send DUP": the socket is clear when the client
\* is gone.
Drain(c) ==
  /\ child[c] = "drain" /\ client[c] = "gone"
  /\ Answer(c, "DUP")
  /\ UNCHANGED dir /\ OperationFrame

\* fopen, the text and the answer.
Create(c) ==
  LET u == Owner(c)
  IN  /\ child[c] = "create"
      /\ IF dir[u] = NoDir
         THEN GoTo(c, "failed") /\ UNCHANGED dir
         ELSE dir' = [dir EXCEPT ![u] = @ \cup {request[c].file}] /\ Answer(c, "OK")
      /\ OperationFrame

\* remove_user: the files, and the directory.
RemoveFiles(c) ==
  LET u == Owner(c)
  IN  /\ At(c, "REM")
      /\ IF dir[u] = NoDir
         THEN Answer(c, "NOK") /\ UNCHANGED dir
         ELSE GoTo(c, "rmdir") /\ dir' = [dir EXCEPT ![u] = {}]
      /\ OperationFrame

Rmdir(c) ==
  LET u == Owner(c)
  IN  /\ child[c] = "rmdir"
      /\ IF dir[u] = {}
         THEN Answer(c, "OK") /\ dir' = [dir EXCEPT ![u] = NoDir]
         ELSE GoTo(c, "failed") /\ UNCHANGED dir
      /\ OperationFrame

ChildStep(c) ==
  \/ SendVld(c) \/ ReceiveCnf(c)
  \/ List(c) \/ Retrieve(c) \/ Delete(c)
  \/ LookUp(c) \/ Drain(c) \/ Create(c)
  \/ RemoveFiles(c) \/ Rmdir(c)

-----------------------------------------------------------------------------
Next ==
  \/ MainStep
  \/ \E c \in Conns :
       \/ Connect(c) \/ Write(c) \/ Read(c) \/ Interrupt(c)
       \/ FsInput(c) \/ ChildStep(c)

\* Processes run, and a program that has connected writes its request and reads
\* the answer.  No user need ask for anything, nor interrupt.
Fairness ==
  /\ WF_vars(MainStep)
  /\ \A c \in Conns :
       WF_vars(Write(c)) /\ WF_vars(Read(c)) /\ WF_vars(FsInput(c)) /\ WF_vars(ChildStep(c))

Spec == Init /\ [][Next]_vars /\ Fairness

-----------------------------------------------------------------------------
\* Properties.

\* A confirmation lets one child go on, however the children take them from the
\* socket they share (fs.c:673).
ConfirmedOnce ==
  \A c, d \in Conns : confirmed[c] = confirmed[d] /\ confirmed[c] # NoConn => c = d

\* A child that waited alone goes on with its own request: no confirmation of
\* an earlier child is left in the socket for it (fs.c 667-680).
ConfirmationIsOwn ==
  \A c \in Conns : confirmed[c] # NoConn /\ c \notin shared => confirmed[c] = c

\* A user's directory changes only for a TID of that user which the authentication
\* server found valid, and which was sent with a request of that user (fs.c 682,
\* 700): a stray confirmation moves an operation to another user, but
\* makes none.
EveryChangeConfirmed ==
  [][\A u \in Users : dir'[u] # dir[u] =>
       \E c \in Conns :
         /\ child[c] \in {"operation", "create", "rmdir"} /\ child'[c] # child[c]
         /\ confirmed[c] # NoConn
         /\ Owner(c) = u /\ request[confirmed[c]].tid = "OK"]_vars

\* The connection was accepted, and its slot given to another before its request
\* was read.
Overwritten(c) ==
  child[c] = "none" /\ c \notin Range(users) \cup Range(backlog)

\* A client waits for ever only for one of these: the server waits in accept for
\* a connection it has already accepted (fs.c 626-635); its slot was given to
\* another (fs.c 608, 634); it sent nothing (user.c:477); it waits for the end of
\* a file after the file (user.c:554); the child waits for a confirmation that was lost or
\* that another took (fs.c:673), or for the client (fs.c:341), or has failed.
WaitsForEver(c) ==
  \/ activity > 0 /\ Listen \in readfds /\ backlog = <<>>
  \/ Overwritten(c)
  \/ request[c].op = "BAD"
  \/ client[c] = "more"
  \/ child[c] = "wait" /\ vld = {} /\ cnf = <<>>
  \/ child[c] \in {"drain", "failed"}

HangsExplained ==
  \A c \in Conns :
    <>[](client[c] \in {"connected", "waiting", "more"}) => <>[]WaitsForEver(c)
=============================================================================
