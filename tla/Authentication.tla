--------------------------- MODULE Authentication ---------------------------
(***************************************************************************)
(* The authentication server (RC_project/Code/as.c) with the users' client *)
(* (user.c) and personal device (pd.c).                                    *)
(*                                                                         *)
(* The server's main process waits in select for its UDP socket, its       *)
(* listening socket and the connections it has accepted, and forks a child *)
(* for each message it reads.  A child works on the files of the user:     *)
(* here they are functions of the user, and a step of a child is a group   *)
(* of file operations between which other children may run.                *)
(*                                                                         *)
(* Validation codes, request numbers and TIDs are drawn at random; two     *)
(* requests are taken to draw different ones, so a request, that is a      *)
(* session, its number in it and an operation, stands for its code and its *)
(* number, and a TID is the request it was given for.  The file the        *)
(* operation is on is left out.                                            *)
(***************************************************************************)
EXTENDS Naturals, Sequences, FiniteSets, Functions

CONSTANTS
  Users,           \* user numbers; each has one password and one device
  MaxSessions,     \* bound: runs of the client
  Udp, Listen,     \* the two sockets of the server
  NoFile, Zero, Empty,  \* what a file may hold but a request: it does not exist, "0\n",
                        \* no text
  MaxUsers,        \* MAXUSERS: connections accepted, ever
  MaxSent,         \* bound: messages of all sessions
  MaxStarts,       \* bound: registrations a device tries
  Bounds           \* what may happen in one behaviour: sessions that connect and that
                   \* end, messages sent, datagrams lost; may lines that are no
                   \* command be typed at a device that is registered?

\* Sessions are numbered as they connect.
Sessions == 1 .. MaxSessions

\* The letters a client may send.  "Z" is any letter but R, U, D, L, X, and "R"
\* any of those five.
Operations == {"R", "Z"}

Request == [session : Sessions, number : 1 .. MaxSent, op : Operations]

ASSUME AuthenticationAssumption ==
  /\ IsFiniteSet(Users) /\ MaxSessions \in Nat
  /\ NoFile # Zero /\ NoFile # Empty /\ Zero # Empty /\ {NoFile, Zero, Empty} \cap Request = {}
  /\ Udp # Listen /\ {Udp, Listen} \cap Sessions = {}
  /\ MaxUsers \in Nat \ {0}
  /\ MaxSent \in Nat /\ MaxStarts \in Nat
  /\ Bounds \subseteq [sessions : 0 .. MaxSessions, ended : Nat, sent : 0 .. MaxSent,
                      lost : Nat, lines : BOOLEAN]

VARIABLES
  pass, reg, login,  \* user -> does the file exist?
  vc, rid, tid,      \* user -> what the file holds
  user,              \* session -> whose client it is
  bounds,            \* what may happen in this behaviour; of messages, what may still
  client,            \* "new", "idle", "waiting" (in read), "gone"
  phase,             \* the loop it is in: 0 login, 1 request, 2 code, 3 operations
  last,              \* RID: its last request
  sent,              \* messages it has sent
  garbled,           \* is its buffer known not to end after the "RLO OK\n" it may hold?
  msg,               \* its last message
  unread,            \* is the message in the server's socket?
  reply,             \* the reply in the client's socket, or "none"
  reset,             \* has the connection been reset?
  backlog,           \* connections to accept
  users,             \* connections accepted
  main,              \* the main process: "select", "serve", "exited"
  readfds, nready,   \* what select returned
  todo,              \* descriptors of readfds left in this turn of the loop over nready
  child,             \* session -> what its child is about to do
  fop,               \* the operation it read with the request number
  rvc,               \* is there an answer of the device in the child's socket?
  pd,                \* the device: "off", "registering", or where it is in its loop
  starts,            \* registrations it tried
  shown,             \* requests whose code it displayed
  vlc,               \* datagrams in its socket
  confirmed,         \* is there an answer to the registration of the device?
  udp,               \* datagrams in the server's socket
  udpChild,          \* user -> what the child for its device is about to do
  from,              \* user -> the run of the device that child serves
  lost,              \* datagrams lost
  raced              \* history: users unregistered while another child of theirs
                     \* was between its test of the password and its last write

fileVars   == <<pass, reg, login, vc, rid, tid>>
clientVars == <<user, bounds, client, phase, last, sent, garbled>>
socketVars == <<msg, unread, reply, reset, backlog>>
mainVars   == <<users, main, readfds, nready, todo>>
pdVars     == <<pd, starts, shown, vlc, confirmed>>
udpVars    == <<udp, udpChild, from, lost>>
vars == <<fileVars, clientVars, socketVars, mainVars, child, fop, rvc, pdVars, udpVars, raced>>

\* The device in its select; in recvfrom or in fgets once more after a select
\* that returned one of its socket and the standard input; and after one that
\* returned both, with a line read and in recvfrom, and in fgets and recvfrom
\* once more.
PdLoop == {"on", "again", "typing", "both", "bothTyping", "bothAgain"}

\* It waits for a line.
Typing == {"typing", "bothTyping"}

ClientMessage ==
  [type : {"LOG"}, rightPassword : BOOLEAN]
    \cup [type : {"REQ"}, request : Request]
    \cup [type : {"AUT"}, rid : Request, code : Request \cup {Empty}]

TypeOK ==
  /\ pass \in [Users -> BOOLEAN] /\ reg \in [Users -> BOOLEAN]
  /\ login \in [Users -> BOOLEAN]
  /\ vc \in [Users -> Request \cup {NoFile, Zero}]
  /\ rid \in [Users -> Request \cup {NoFile, Zero, Empty}]
  /\ tid \in [Users -> Request \cup {NoFile, Empty}]
  /\ user \in [Sessions -> Users]
  /\ bounds \in [sessions : 0 .. MaxSessions, ended : Nat, sent : 0 .. MaxSent,
                 lost : Nat, lines : BOOLEAN]
  /\ client \in [Sessions -> {"new", "idle", "waiting", "gone"}]
  /\ phase \in [Sessions -> 0 .. 3]
  /\ last \in [Sessions -> Request \cup {Zero}]
  /\ sent \in [Sessions -> 0 .. MaxSent]
  /\ garbled \in [Sessions -> BOOLEAN]
  /\ msg \in [Sessions -> ClientMessage \cup {NoFile}]
  /\ unread \in [Sessions -> BOOLEAN]
  /\ reply \in [Sessions -> {"none", "OK", "NOK", "ERR"}]
  /\ reset \in [Sessions -> BOOLEAN]
  /\ backlog \in Seq(Sessions)
  /\ users \in Seq(Sessions) /\ Len(users) <= MaxUsers
  /\ main \in {"select", "serve", "exited"}
  /\ readfds \subseteq Sessions \cup {Udp, Listen}
  /\ nready \in 0 .. Cardinality(Sessions) + 2
  /\ todo \subseteq Sessions \cup {Udp, Listen}
  /\ child \in [Sessions -> {"none", "LOG", "login", "REQ", "valid", "vc", "rid",
                             "RVC", "AUT", "tid", "crashed"}]
  /\ fop \in [Sessions -> Request \cup {Empty}]
  /\ rvc \in [Sessions -> BOOLEAN]
  /\ pd \in [Users -> {"off", "registering"} \cup PdLoop]
  /\ starts \in [Users -> 0 .. MaxStarts]
  /\ shown \subseteq Request
  /\ vlc \in [Users -> Seq(Request)]
  /\ confirmed \in [Users -> BOOLEAN]
  /\ udp \in Seq([type : {"REG", "UNR"}, user : Users, from : 1 .. MaxStarts])
  /\ udpChild \in [Users -> {"none", "REG", "files", "UNR", "remove"}]
  /\ from \in [Users -> 0 .. MaxStarts]
  /\ lost \in 0 .. bounds.lost
  /\ raced \subseteq Users

Init ==
  /\ pass = [u \in Users |-> FALSE]
  /\ reg = [u \in Users |-> FALSE]
  /\ login = [u \in Users |-> FALSE]
  /\ vc = [u \in Users |-> NoFile]
  /\ rid = [u \in Users |-> NoFile]
  /\ tid = [u \in Users |-> NoFile]
  /\ user \in [Sessions -> Users] /\ bounds \in Bounds
  /\ client = [s \in Sessions |-> "new"]
  /\ phase = [s \in Sessions |-> 0]
  /\ last = [s \in Sessions |-> Zero]
  /\ sent = [s \in Sessions |-> 0]
  /\ garbled = [s \in Sessions |-> FALSE]
  /\ msg = [s \in Sessions |-> NoFile]
  /\ unread = [s \in Sessions |-> FALSE]
  /\ reply = [s \in Sessions |-> "none"]
  /\ reset = [s \in Sessions |-> FALSE]
  /\ backlog = <<>>
  /\ users = <<>> /\ main = "select" /\ readfds = {} /\ nready = 0 /\ todo = {}
  /\ child = [s \in Sessions |-> "none"]
  /\ fop = [s \in Sessions |-> Empty]
  /\ rvc = [s \in Sessions |-> FALSE]
  /\ pd = [u \in Users |-> "off"]
  /\ starts = [u \in Users |-> 0]
  /\ shown = {}
  /\ vlc = [u \in Users |-> <<>>]
  /\ confirmed = [u \in Users |-> FALSE]
  /\ udp = <<>>
  /\ udpChild = [u \in Users |-> "none"]
  /\ from = [u \in Users |-> 0]
  /\ lost = 0
  /\ raced = {}

-----------------------------------------------------------------------------
\* The client.

Connect(s) ==
  /\ s <= bounds.sessions
  /\ client[s] = "new" /\ \A r \in 1 .. s - 1 : client[r] # "new"
  /\ client' = [client EXCEPT ![s] = "idle"]
  /\ backlog' = Append(backlog, s)
  /\ UNCHANGED <<fileVars, user, bounds, phase, last, sent, garbled, msg, unread, reply, reset>>
  /\ UNCHANGED <<mainVars, child, fop, rvc, pdVars, udpVars, raced>>

\* The client writes a message and blocks in read.
Write(s, m) ==
  /\ client[s] = "idle" /\ bounds.sent > 0
  /\ bounds' = [bounds EXCEPT !.sent = @ - 1]
  /\ client' = [client EXCEPT ![s] = "waiting"]
  /\ sent' = [sent EXCEPT ![s] = @ + 1]
  /\ msg' = [msg EXCEPT ![s] = m]
  /\ unread' = [unread EXCEPT ![s] = TRUE]
  /\ UNCHANGED <<fileVars, user, phase, garbled, reply, reset, backlog>>
  /\ UNCHANGED <<mainVars, child, fop, rvc, pdVars, udpVars, raced>>

LogIn(s) ==
  /\ phase[s] = 0
  /\ \E right \in BOOLEAN : Write(s, [type |-> "LOG", rightPassword |-> right])
  /\ UNCHANGED last

\* "req": the loop for the code does not take it.
Req(s) ==
  /\ phase[s] \in {1, 3}
  /\ \E op \in Operations :
       LET r == [session |-> s, number |-> sent[s] + 1, op |-> op]
       IN  /\ Write(s, [type |-> "REQ", request |-> r])
           /\ last' = [last EXCEPT ![s] = r]

\* "val": the user types a code the device showed for a request of the session,
\* or one that no file holds.
Val(s) ==
  /\ phase[s] \in {2, 3}
  /\ \E code \in {r \in shown : r.session = s} \cup {Empty} :
       Write(s, [type |-> "AUT", rid |-> last[s], code |-> code])
  /\ UNCHANGED last

\* The login loop never initialises its buffer nor clears it: "RLO OK\n" is
\* recognised if a 0 happens to follow, and never after "RLO NOK\n", which leaves its
\* end there.
ReadReply(s) ==
  /\ client[s] = "waiting" /\ reply[s] # "none"
  /\ client' = [client EXCEPT ![s] = "idle"]
  /\ reply' = [reply EXCEPT ![s] = "none"]
  /\ \/ /\ phase[s] = 0 /\ reply[s] = "OK" /\ ~garbled[s]
        /\ phase' = [phase EXCEPT ![s] = 1]
        /\ UNCHANGED garbled
     \/ /\ phase[s] = 0 /\ reply[s] # "ERR"
        /\ garbled' = [garbled EXCEPT ![s] = TRUE]
        /\ UNCHANGED phase
     \/ /\ phase[s] = 0 /\ reply[s] = "ERR"
        /\ UNCHANGED <<phase, garbled>>
     \/ /\ phase[s] > 0
        /\ phase' = [phase EXCEPT ![s] = IF reply[s] = "OK" /\ @ < 3 THEN @ + 1 ELSE @]
        /\ UNCHANGED garbled
  /\ UNCHANGED <<fileVars, user, bounds, last, sent, msg, unread, reset, backlog>>
  /\ UNCHANGED <<mainVars, child, fop, rvc, pdVars, udpVars, raced>>

MayEnd == Cardinality({s \in Sessions : client[s] = "gone"}) < bounds.ended

\* "exit".
Leave(s) ==
  /\ client[s] = "idle" /\ MayEnd
  /\ client' = [client EXCEPT ![s] = "gone"]
  /\ UNCHANGED <<fileVars, user, bounds, phase, last, sent, garbled, socketVars>>
  /\ UNCHANGED <<mainVars, child, fop, rvc, pdVars, udpVars, raced>>

\* The user stops a client that waits.  A reply it has not read resets the
\* connection.
Interrupt(s) ==
  /\ client[s] = "waiting" /\ MayEnd
  /\ client' = [client EXCEPT ![s] = "gone"]
  /\ reply' = [reply EXCEPT ![s] = "none"]
  /\ reset' = [reset EXCEPT ![s] = reply[s] # "none"]
  /\ UNCHANGED <<fileVars, user, bounds, phase, last, sent, garbled, msg, unread, backlog>>
  /\ UNCHANGED <<mainVars, child, fop, rvc, pdVars, udpVars, raced>>

-----------------------------------------------------------------------------
\* The main process of the server.

\* A connection whose client is gone is at its end of file, and stays in the
\* table: select returns it every time.
Readable ==
  {s \in Range(users) : unread[s] \/ reset[s] \/ client[s] = "gone"}
    \cup (IF udp = <<>> THEN {} ELSE {Udp})
    \cup (IF backlog = <<>> THEN {} ELSE {Listen})

\* The order in which a turn of the loop tests the descriptors.
Before(d, e) ==
  \/ d = Udp
  \/ d = Listen /\ e # Udp
  \/ \E i, j \in 1 .. Len(users) : i < j /\ d = users[i] /\ e = users[j]

Select ==
  /\ main = "select" /\ Readable # {}
  /\ main' = "serve"
  /\ readfds' = Readable
  /\ nready' = Cardinality(Readable)
  /\ todo' = Readable
  /\ UNCHANGED <<fileVars, clientVars, socketVars, users, child, fop, rvc, pdVars, udpVars, raced>>

\* The loop takes nready turns, each over all of readfds, though the first turn
\* has served everything that was ready.
GoOn(rest) ==
  \/ /\ rest # {}
     /\ todo' = rest
     /\ UNCHANGED <<main, readfds, nready>>
  \/ /\ rest = {} /\ nready > 1
     /\ nready' = nready - 1
     /\ todo' = readfds
     /\ UNCHANGED <<main, readfds>>
  \/ /\ rest = {} /\ nready = 1
     /\ main' = "select" /\ readfds' = {} /\ nready' = 0 /\ todo' = {}

At(d) == main = "serve" /\ d \in todo /\ \A e \in todo \ {d} : Before(d, e)

\* recvfrom blocks on an empty socket.  The sleep(1) after the fork is taken to
\* be enough for a child of the same user to end.
ServeUdp ==
  /\ At(Udp) /\ udp # <<>>
  /\ LET m == Head(udp)
     IN  /\ udpChild[m.user] = "none"
         /\ udpChild' = [udpChild EXCEPT ![m.user] = m.type]
         /\ from' = [from EXCEPT ![m.user] = m.from]
  /\ udp' = Tail(udp)
  /\ GoOn(todo \ {Udp})
  /\ UNCHANGED <<fileVars, clientVars, socketVars, users, child, fop, rvc, pdVars, lost, raced>>

\* Mutation: without the test of j against MAXUSERS.
ServeListenUnbounded ==
  /\ At(Listen) /\ backlog # <<>>
  /\ users' = Append(users, Head(backlog))
  /\ backlog' = Tail(backlog)
  /\ GoOn(todo \ {Listen})
  /\ UNCHANGED <<fileVars, clientVars, msg, unread, reply, reset, child, fop, rvc, pdVars, udpVars>>
  /\ UNCHANGED raced

\* accept blocks with nobody to accept.
ServeListen ==
  /\ At(Listen) /\ Len(users) < MaxUsers /\ backlog # <<>>
  /\ users' = Append(users, Head(backlog))
  /\ backlog' = Tail(backlog)
  /\ GoOn(todo \ {Listen})
  /\ UNCHANGED <<fileVars, clientVars, msg, unread, reply, reset, child, fop, rvc, pdVars, udpVars>>
  /\ UNCHANGED raced

\* With the table full, "continue" leaves out the rest of the turn.
ServeListenFull ==
  /\ At(Listen) /\ Len(users) = MaxUsers
  /\ GoOn({})
  /\ UNCHANGED <<fileVars, clientVars, socketVars, users, child, fop, rvc, pdVars, udpVars, raced>>

\* read blocks on a connection that is neither readable nor at its end.
ServeMessage(s) ==
  /\ At(s) /\ unread[s]
  /\ unread' = [unread EXCEPT ![s] = FALSE]
  /\ child' = [child EXCEPT ![s] = msg[s].type]
  /\ GoOn(todo \ {s})
  /\ UNCHANGED <<fileVars, clientVars, msg, reply, reset, backlog, users, fop, rvc, pdVars, udpVars>>
  /\ UNCHANGED raced

ServeEnd(s) ==
  /\ At(s) /\ ~unread[s] /\ ~reset[s] /\ client[s] = "gone"
  /\ GoOn(todo \ {s})
  /\ UNCHANGED <<fileVars, clientVars, socketVars, users, child, fop, rvc, pdVars, udpVars, raced>>

\* A read that fails ends the server.
ServeReset(s) ==
  /\ At(s) /\ ~unread[s] /\ reset[s]
  /\ main' = "exited"
  /\ UNCHANGED <<fileVars, clientVars, socketVars, users, readfds, nready, todo, child, fop, rvc>>
  /\ UNCHANGED <<pdVars, udpVars, raced>>

MainStep ==
  \/ Select \/ ServeUdp \/ ServeListen \/ ServeListenFull
  \/ \E s \in Sessions : ServeMessage(s) \/ ServeEnd(s) \/ ServeReset(s)

-----------------------------------------------------------------------------
\* The children that serve clients.

\* A write to a connection whose client is gone resets it.
Answer(s, r) ==
  /\ child' = [child EXCEPT ![s] = "none"]
  /\ IF client[s] = "gone"
     THEN reset' = [reset EXCEPT ![s] = TRUE] /\ UNCHANGED reply
     ELSE reply' = [reply EXCEPT ![s] = r] /\ UNCHANGED reset

NoAnswer(s, next) ==
  /\ child' = [child EXCEPT ![s] = next]
  /\ UNCHANGED <<reply, reset>>

ChildFrame ==
  UNCHANGED <<pass, reg, clientVars, msg, unread, backlog, mainVars, udp, udpChild, from, raced>>

\* Mutation: a login of an unknown user is not answered.
LogSilent(s) ==
  /\ child[s] = "LOG"
  /\ IF ~pass[user[s]] THEN NoAnswer(s, "none")
     ELSE IF msg[s].rightPassword THEN NoAnswer(s, "login")
     ELSE Answer(s, "NOK")
  /\ UNCHANGED <<login, vc, rid, tid, fop, rvc, pdVars, lost>> /\ ChildFrame

\* isRegistered.
Log(s) ==
  /\ child[s] = "LOG"
  /\ IF ~pass[user[s]] THEN Answer(s, "ERR")
     ELSE IF msg[s].rightPassword THEN NoAnswer(s, "login")
     ELSE Answer(s, "NOK")
  /\ UNCHANGED <<login, vc, rid, tid, fop, rvc, pdVars, lost>> /\ ChildFrame

WriteLogin(s) ==
  /\ child[s] = "login"
  /\ login' = [login EXCEPT ![user[s]] = TRUE]
  /\ Answer(s, "OK")
  /\ UNCHANGED <<vc, rid, tid, fop, rvc, pdVars, lost>> /\ ChildFrame

\* userinput reads the address of the device from the registration, and dies on
\* fscanf(NULL) if there is none.
ReadReg(s) ==
  /\ child[s] = "REQ"
  /\ NoAnswer(s, IF reg[user[s]] THEN "valid" ELSE "crashed")
  /\ UNCHANGED <<login, vc, rid, tid, fop, rvc, pdVars, lost>> /\ ChildFrame

\* validRequest, up to the first write: EUSER and ELOG.
ValidRequest(s) ==
  /\ child[s] = "valid"
  /\ IF pass[user[s]] /\ login[user[s]] THEN NoAnswer(s, "vc") ELSE Answer(s, "ERR")
  /\ UNCHANGED <<login, vc, rid, tid, fop, rvc, pdVars, lost>> /\ ChildFrame

WriteVc(s) ==
  /\ child[s] = "vc"
  /\ vc' = [vc EXCEPT ![user[s]] = msg[s].request]
  /\ NoAnswer(s, "rid")
  /\ UNCHANGED <<login, rid, tid, fop, rvc, pdVars, lost>> /\ ChildFrame

\* The device has a socket only while it is registered.
Deliver(u, r) ==
  \/ /\ vlc' = IF pd[u] \in PdLoop THEN [vlc EXCEPT ![u] = Append(@, r)] ELSE vlc
     /\ UNCHANGED lost
  \/ /\ lost < bounds.lost
     /\ lost' = lost + 1
     /\ UNCHANGED vlc

\* The request and the datagram to the device.  EFOP leaves the file open, with
\* no text in it.
WriteRid(s) ==
  LET u == user[s]
      r == msg[s].request
  IN  /\ child[s] = "rid"
      /\ \/ /\ r.op = "R"
            /\ rid' = [rid EXCEPT ![u] = r]
            /\ Deliver(u, r)
            /\ NoAnswer(s, "RVC")
         \/ /\ r.op = "Z"
            /\ rid' = [rid EXCEPT ![u] = Empty]
            /\ Answer(s, "ERR")
            /\ UNCHANGED <<vlc, lost>>
      /\ UNCHANGED <<login, vc, tid, fop, rvc, pd, starts, shown, confirmed>> /\ ChildFrame

\* The answer of the device, for which the child waits with no limit.
ReceiveRvc(s) ==
  /\ child[s] = "RVC" /\ rvc[s]
  /\ rvc' = [rvc EXCEPT ![s] = FALSE]
  /\ Answer(s, "OK")
  /\ UNCHANGED <<login, vc, rid, tid, fop, pdVars, lost>> /\ ChildFrame

\* Mutation: any code will do.
AnyCode(s) == vc[user[s]] # NoFile

SameCode(s) == vc[user[s]] = msg[s].code

\* Outcomes of comparing the number sent with the one of the file: fscanf leaves
\* readrid as it was if the file has no text, so it may be anything.
SameNumber(s) ==
  IF rid[user[s]] = Empty THEN BOOLEAN ELSE {rid[user[s]] = msg[s].rid}

\* authenticate: the test, and the writing of the TID with the operation that
\* was read with the number.
Authenticate(s) ==
  LET u == user[s]
  IN  /\ child[s] = "AUT"
      /\ \E same \in SameNumber(s) :
           IF pass[u] /\ SameCode(s) /\ same
           THEN NoAnswer(s, "tid") /\ fop' = [fop EXCEPT ![s] = rid[u]]
           ELSE Answer(s, "NOK") /\ UNCHANGED fop
      /\ UNCHANGED <<login, vc, rid, tid, rvc, pdVars, lost>> /\ ChildFrame

WriteTid(s) ==
  /\ child[s] = "tid"
  /\ tid' = [tid EXCEPT ![user[s]] = fop[s]]
  /\ Answer(s, "OK")
  /\ UNCHANGED <<login, vc, rid, fop, rvc, pdVars, lost>> /\ ChildFrame

ChildStep(s) ==
  \/ Log(s) \/ WriteLogin(s)
  \/ ReadReg(s) \/ ValidRequest(s) \/ WriteVc(s) \/ WriteRid(s) \/ ReceiveRvc(s)
  \/ Authenticate(s) \/ WriteTid(s)

-----------------------------------------------------------------------------
\* The device, and the children that serve it.

PdFrame == UNCHANGED <<fileVars, clientVars, socketVars, mainVars, child, fop, raced>>

Post(type, u, run) ==
  \/ udp' = Append(udp, [type |-> type, user |-> u, from |-> run]) /\ UNCHANGED lost
  \/ lost < bounds.lost /\ lost' = lost + 1 /\ UNCHANGED udp

Register(u) ==
  /\ pd[u] = "off" /\ starts[u] < MaxStarts
  /\ pd' = [pd EXCEPT ![u] = "registering"]
  /\ starts' = [starts EXCEPT ![u] = @ + 1]
  /\ confirmed' = [confirmed EXCEPT ![u] = FALSE]
  /\ Post("REG", u, starts[u] + 1)
  /\ UNCHANGED <<shown, vlc, rvc, udpChild, from>> /\ PdFrame

Registered(u) ==
  /\ pd[u] = "registering" /\ confirmed[u]
  /\ pd' = [pd EXCEPT ![u] = "on"]
  /\ UNCHANGED <<starts, shown, vlc, confirmed, rvc, udpVars>> /\ PdFrame

\* select counts the descriptors of readfds and those of writefds, which is not
\* initialised, and the loop takes a turn for each of them, which reads from
\* whatever is in readfds.
AfterLine(u) ==
  CASE pd[u] = "on" -> IF vlc[u] = <<>> THEN {"on", "typing"} ELSE {"both"}
    [] pd[u] = "typing" -> {"on", "typing"}
    [] pd[u] = "bothTyping" -> {"bothAgain"}
    [] OTHER -> {}

AfterCode(u) ==
  CASE pd[u] \in {"on", "again"} -> {"on", "again"}
    [] pd[u] = "both" -> {"bothTyping"}
    [] pd[u] = "bothAgain" -> {"on", "bothTyping"}
    [] OTHER -> {}

\* A line that is not "exit" does nothing but take a turn.
Type(u) ==
  /\ bounds.lines
  /\ \E next \in AfterLine(u) : pd' = [pd EXCEPT ![u] = next]
  /\ UNCHANGED <<starts, shown, vlc, confirmed, rvc, udpVars>> /\ PdFrame

\* "VLC": the code is displayed, and answered.
Validate(u) ==
  /\ vlc[u] # <<>>
  /\ \E next \in AfterCode(u) : pd' = [pd EXCEPT ![u] = next]
  /\ LET r == Head(vlc[u])
     IN  /\ shown' = shown \cup {r}
         /\ \/ rvc' = [rvc EXCEPT ![r.session] = TRUE] /\ UNCHANGED lost
            \/ lost < bounds.lost /\ lost' = lost + 1 /\ UNCHANGED rvc
  /\ vlc' = [vlc EXCEPT ![u] = Tail(@)]
  /\ UNCHANGED <<starts, confirmed, udp, udpChild, from>> /\ PdFrame

\* A receipt that takes five seconds fails, and ends the device.
Timeout(u) ==
  /\ \/ pd[u] = "registering" /\ ~confirmed[u]
     \/ pd[u] \in {"again", "bothAgain"} /\ vlc[u] = <<>>
  /\ pd' = [pd EXCEPT ![u] = "off"]
  /\ UNCHANGED <<starts, shown, vlc, confirmed, rvc, udpVars>> /\ PdFrame

\* "exit": the device closes its socket for codes, unregisters, and ends on any
\* answer, or on none.
Exit(u) ==
  /\ pd[u] \in {"on"} \cup Typing
  /\ pd' = [pd EXCEPT ![u] = "off"]
  /\ vlc' = [vlc EXCEPT ![u] = <<>>]
  /\ Post("UNR", u, starts[u])
  /\ UNCHANGED <<starts, shown, confirmed, rvc, udpChild, from>> /\ PdFrame

PdStep(u) == Registered(u) \/ Validate(u) \/ Timeout(u)

UdpFrame ==
  UNCHANGED <<clientVars, socketVars, mainVars, child, fop, rvc, pd, starts, shown, vlc, udp, from, lost>>

\* The answer goes to the run of the device that sent the registration.
Confirm(u) ==
  confirmed' = [confirmed EXCEPT ![u] = @ \/ (pd[u] = "registering" /\ from[u] = starts[u])]

\* addUser.
WritePass(u) ==
  /\ udpChild[u] = "REG"
  /\ pass' = [pass EXCEPT ![u] = TRUE]
  /\ udpChild' = [udpChild EXCEPT ![u] = "files"]
  /\ UNCHANGED <<reg, login, vc, rid, tid, confirmed, raced>> /\ UdpFrame

WriteFiles(u) ==
  /\ udpChild[u] = "files"
  /\ reg' = [reg EXCEPT ![u] = TRUE]
  /\ vc' = [vc EXCEPT ![u] = Zero]
  /\ rid' = [rid EXCEPT ![u] = Zero]
  /\ udpChild' = [udpChild EXCEPT ![u] = "none"]
  /\ Confirm(u)
  /\ UNCHANGED <<pass, login, tid, raced>> /\ UdpFrame

\* removeUser.  The answer changes nothing for the device.
FindPass(u) ==
  /\ udpChild[u] = "UNR"
  /\ udpChild' = [udpChild EXCEPT ![u] = IF pass[u] THEN "remove" ELSE "none"]
  /\ UNCHANGED <<fileVars, confirmed, raced>> /\ UdpFrame

Writing(u) == \E s \in Sessions : user[s] = u /\ child[s] \in {"login", "vc", "rid", "tid"}

\* Mutation: the login file stays.
RemoveButLogin(u) ==
  /\ udpChild[u] = "remove"
  /\ pass' = [pass EXCEPT ![u] = FALSE]
  /\ reg' = [reg EXCEPT ![u] = FALSE]
  /\ vc' = [vc EXCEPT ![u] = NoFile]
  /\ rid' = [rid EXCEPT ![u] = NoFile]
  /\ tid' = [tid EXCEPT ![u] = NoFile]
  /\ udpChild' = [udpChild EXCEPT ![u] = "none"]
  /\ raced' = IF Writing(u) THEN raced \cup {u} ELSE raced
  /\ UNCHANGED <<login, confirmed>> /\ UdpFrame

RemoveFiles(u) ==
  /\ udpChild[u] = "remove"
  /\ pass' = [pass EXCEPT ![u] = FALSE]
  /\ reg' = [reg EXCEPT ![u] = FALSE]
  /\ login' = [login EXCEPT ![u] = FALSE]
  /\ vc' = [vc EXCEPT ![u] = NoFile]
  /\ rid' = [rid EXCEPT ![u] = NoFile]
  /\ tid' = [tid EXCEPT ![u] = NoFile]
  /\ udpChild' = [udpChild EXCEPT ![u] = "none"]
  /\ raced' = IF Writing(u) THEN raced \cup {u} ELSE raced
  /\ UNCHANGED confirmed /\ UdpFrame

UdpStep(u) == WritePass(u) \/ WriteFiles(u) \/ FindPass(u) \/ RemoveFiles(u)

-----------------------------------------------------------------------------
Next ==
  \/ MainStep
  \/ \E s \in Sessions :
       \/ Connect(s) \/ LogIn(s) \/ Req(s) \/ Val(s) \/ ReadReply(s) \/ Leave(s) \/ Interrupt(s)
       \/ ChildStep(s)
  \/ \E u \in Users : Register(u) \/ Type(u) \/ Exit(u) \/ PdStep(u) \/ UdpStep(u)

\* Every process that can run does, and programs take what has come for them.
\* Users need not type anything, nor interrupt.
Fairness ==
  /\ WF_vars(MainStep)
  /\ \A s \in Sessions : WF_vars(ChildStep(s)) /\ WF_vars(ReadReply(s))
  /\ \A u \in Users : WF_vars(PdStep(u)) /\ WF_vars(UdpStep(u))

Spec == Init /\ [][Next]_vars /\ Fairness

-----------------------------------------------------------------------------
\* Properties.

\* A TID is written only with the operation of the request the client has just
\* made, whose code the device showed, though sessions of one user may write the
\* two files of their requests in any order (as.c 179-198 and 252-282).  The
\* exception is a file emptied by an operation that does not exist (as.c:186).
TidIsForOwnRequest ==
  [][\A s \in Sessions :
       child[s] = "tid" /\ child'[s] # "tid" =>
         \/ tid'[user[s]] = Empty
         \/ /\ tid'[user[s]] = last[s] /\ last[s] = msg[s].code
            /\ last[s] \in shown]_vars

\* Without its password, a user has neither login nor TID nor registration for
\* the next owner of the number to find, unless it was unregistered under a
\* child that had already found the password (as.c 86-93, 130-136, 157-198).
\* The rest is of its type, and the table of sessions within its bounds.
NothingLeftBehind ==
  /\ TypeOK
  /\ \A u \in Users :
    ~pass[u] /\ u \notin raced
      => ~login[u] /\ ~reg[u] /\ tid[u] = NoFile /\ vc[u] = NoFile /\ rid[u] = NoFile

Blocked ==
  \/ At(Udp) /\ udp = <<>>
  \/ At(Listen) /\ backlog = <<>> /\ Len(users) < MaxUsers
  \/ \E s \in Sessions : At(s) /\ s \notin Readable

\* No answer of the device is to come: the device is not there, the code or the
\* answer was lost; or the device waits for a line, and does not look at its socket.
Unanswered(s) ==
  /\ child[s] = "RVC" /\ ~rvc[s]
  /\ msg[s].request \notin Range(vlc[user[s]]) \/ pd[user[s]] \in Typing

\* A client waits for ever only for one of these: the server has ended; it is
\* blocked on a descriptor that select returned and that was already served (as.c
\* 464-556); its table is full, and a connection it cannot accept keeps it from
\* all others (as.c:512); the child has died on a missing registration (as.c:318), or waits
\* for a device that is gone, whose datagrams were lost (as.c:203), or which
\* reads a line that select did not promise (pd.c 217-220).
WaitsForEver(s) ==
  \/ main = "exited" \/ Blocked
  \/ Len(users) = MaxUsers /\ backlog # <<>>
  \/ child[s] = "crashed"
  \/ Unanswered(s)

HangsExplained ==
  \A s \in Sessions : <>[](client[s] = "waiting") => <>[]WaitsForEver(s)
=============================================================================
