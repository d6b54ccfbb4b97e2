------------------------ MODULE AuthenticationProofs ------------------------
(***************************************************************************)
(* Theorems about Authentication, for any users, sessions, connections,    *)
(* messages and registrations.                                             *)
(***************************************************************************)
EXTENDS Authentication, FiniteSetTheorems, SequenceTheorems, TLAPS

USE AuthenticationAssumption

-----------------------------------------------------------------------------
\* The type invariant, in parts.

FilesTyped ==
  /\ pass \in [Users -> BOOLEAN] /\ reg \in [Users -> BOOLEAN] /\ login \in [Users -> BOOLEAN]
  /\ vc \in [Users -> Request \cup {NoFile, Zero}]
  /\ rid \in [Users -> Request \cup {NoFile, Zero, Empty}]
  /\ tid \in [Users -> Request \cup {NoFile, Empty}]
  /\ raced \subseteq Users

ClientsTyped ==
  /\ user \in [Sessions -> Users]
  /\ bounds \in [sessions : 0 .. MaxSessions, ended : Nat, sent : 0 .. MaxSent, lost : Nat,
                     lines : BOOLEAN]
  /\ client \in [Sessions -> {"new", "idle", "waiting", "gone"}]
  /\ phase \in [Sessions -> 0 .. 3]
  /\ last \in [Sessions -> Request \cup {Zero}]
  /\ sent \in [Sessions -> 0 .. MaxSent]
  /\ garbled \in [Sessions -> BOOLEAN]
  /\ msg \in [Sessions -> ClientMessage \cup {NoFile}]

SocketsTyped ==
  /\ unread \in [Sessions -> BOOLEAN]
  /\ reply \in [Sessions -> {"none", "OK", "NOK", "ERR"}]
  /\ reset \in [Sessions -> BOOLEAN]
  /\ backlog \in Seq(Sessions)

MainTyped ==
  /\ users \in Seq(Sessions) /\ Len(users) <= MaxUsers
  /\ main \in {"select", "serve", "exited"}
  /\ readfds \subseteq Sessions \cup {Udp, Listen}
  /\ nready \in 0 .. Cardinality(Sessions) + 2
  /\ todo \subseteq Sessions \cup {Udp, Listen}

ChildStates ==
  {"none", "LOG", "login", "REQ", "valid", "vc", "rid", "RVC", "AUT", "tid", "crashed"}

USE DEF ChildStates

ChildTyped ==
  /\ child \in [Sessions -> ChildStates]
  /\ fop \in [Sessions -> Request \cup {Empty}]

DeviceTyped ==
  /\ rvc \in [Sessions -> BOOLEAN]
  /\ pd \in [Users -> {"off", "registering"} \cup PdLoop]
  /\ starts \in [Users -> 0 .. MaxStarts]
  /\ shown \subseteq Request
  /\ vlc \in [Users -> Seq(Request)]
  /\ confirmed \in [Users -> BOOLEAN]

UdpTyped ==
  /\ udp \in Seq([type : {"REG", "UNR"}, user : Users, from : 1 .. MaxStarts])
  /\ udpChild \in [Users -> {"none", "REG", "files", "UNR", "remove"}]
  /\ from \in [Users -> 0 .. MaxStarts]
  /\ lost \in 0 .. bounds.lost

LEMMA TypeParts ==
  TypeOK <=> /\ FilesTyped /\ ClientsTyped /\ SocketsTyped /\ MainTyped /\ ChildTyped
             /\ DeviceTyped /\ UdpTyped
BY DEF TypeOK, FilesTyped, ClientsTyped, SocketsTyped, MainTyped, ChildTyped, DeviceTyped, UdpTyped

-----------------------------------------------------------------------------
\* The inductive invariant.

\* What a message says of its session: a request is the session's last one, and
\* a code was shown for a request of the session.
Sound(s) ==
  /\ msg[s] \in ClientMessage
  /\ msg[s].type = "REQ" => msg[s].request = last[s]
  /\ msg[s].type = "AUT" =>
       /\ last[s] \in Request /\ msg[s].rid = last[s]
       /\ msg[s].code = Empty \/ (msg[s].code \in shown /\ msg[s].code.session = s)

Kind(c) ==
  IF c \in {"LOG", "login"} THEN "LOG" ELSE IF c \in {"AUT", "tid"} THEN "AUT" ELSE "REQ"

\* A session has one message on its way: in the server's socket, with a child,
\* or answered.
OneMessage(s) ==
  /\ client[s] \in {"new", "idle"} => ~unread[s] /\ child[s] = "none" /\ reply[s] = "none"
  /\ unread[s] => child[s] = "none" /\ reply[s] = "none"
  /\ child[s] # "none" => reply[s] = "none"
  /\ unread[s] \/ child[s] # "none" \/ client[s] = "waiting" => Sound(s)
  /\ child[s] \notin {"none", "crashed"} => msg[s].type = Kind(child[s])

MessageInv == \A s \in Sessions : OneMessage(s)

\* A client that has come to the loop for the code has made a request.
Numbered(s) ==
  /\ sent[s] + bounds.sent <= MaxSent
  /\ last[s] = Zero \/ (last[s].session = s /\ last[s].number <= sent[s])
  /\ phase[s] >= 2 \/ (phase[s] = 1 /\ client[s] = "waiting") => last[s] \in Request

NumberInv ==
  /\ \A s \in Sessions : Numbered(s)
  /\ \A u \in Users : rid[u] \in Request => rid[u].number <= sent[rid[u].session]

\* A session's request that is in the user's vc when its last one is in rid, or
\* about to be, is its last one: the two files may be of two sessions, but not
\* of two requests of one session.
CodeInv ==
  \A s \in Sessions :
    LET u == user[s] IN
    /\ vc[u] \in Request /\ vc[u].session = s
    /\ child[s] = "rid" \/ rid[u] = last[s]
    => vc[u] = last[s]

\* What is to become the TID is the operation of the session's own request.
TidInv ==
  \A s \in Sessions :
    child[s] = "tid" =>
      \/ fop[s] = Empty
      \/ fop[s] = last[s] /\ last[s] = msg[s].code /\ last[s] \in shown

\* A child writes files of a user that has a password, or had one when it was
\* unregistered under that child.
PassInv ==
  /\ \A s \in Sessions :
       child[s] \in {"login", "vc", "rid", "tid"} => pass[user[s]] \/ user[s] \in raced
  /\ \A u \in Users : udpChild[u] = "files" => pass[u]

LeftInv ==
  \A u \in Users :
    ~pass[u] /\ u \notin raced
      => ~login[u] /\ ~reg[u] /\ tid[u] = NoFile /\ vc[u] = NoFile /\ rid[u] = NoFile

\* A device that runs has tried to register.
StartsInv == \A u \in Users : pd[u] # "off" => starts[u] >= 1

IInv == TypeOK /\ MessageInv /\ NumberInv /\ CodeInv /\ TidInv /\ PassInv /\ LeftInv /\ StartsInv

-----------------------------------------------------------------------------
\* The steps by who takes them, and what each leaves alone.

ClientStep(s) ==
  Connect(s) \/ LogIn(s) \/ Req(s) \/ Val(s) \/ ReadReply(s) \/ Leave(s) \/ Interrupt(s)

DeviceStep(u) == Register(u) \/ Type(u) \/ Exit(u) \/ PdStep(u)

LEMMA Steps ==
  ASSUME Next
  PROVE  \/ MainStep
         \/ \E s \in Sessions : ClientStep(s)
         \/ \E s \in Sessions : ChildStep(s)
         \/ \E u \in Users : DeviceStep(u)
         \/ \E u \in Users : UdpStep(u)
BY Zenon DEF Next, ClientStep, DeviceStep

LEMMA ClientLeaves ==
  ASSUME NEW s \in Sessions, ClientStep(s)
  PROVE  UNCHANGED <<fileVars, user, mainVars, child, fop, rvc, pdVars, udpVars, raced>>
<1>1. CASE Connect(s) BY <1>1 DEF Connect
<1>2. CASE LogIn(s) BY <1>2 DEF LogIn, Write
<1>3. CASE Req(s) BY <1>3 DEF Req, Write
<1>4. CASE Val(s) BY <1>4 DEF Val, Write
<1>5. CASE ReadReply(s) BY <1>5 DEF ReadReply
<1>6. CASE Leave(s) BY <1>6 DEF Leave
<1>7. CASE Interrupt(s) BY <1>7 DEF Interrupt
<1> QED BY <1>1, <1>2, <1>3, <1>4, <1>5, <1>6, <1>7 DEF ClientStep

LEMMA MainLeaves ==
  ASSUME MainStep
  PROVE  UNCHANGED <<fileVars, clientVars, msg, reply, reset, fop, rvc, pdVars, lost, raced>>
<1>1. CASE Select BY <1>1 DEF Select, socketVars, udpVars
<1>2. CASE ServeUdp BY <1>2 DEF ServeUdp, socketVars
<1>3. CASE ServeListen BY <1>3 DEF ServeListen, udpVars
<1>4. CASE ServeListenFull BY <1>4 DEF ServeListenFull, socketVars, udpVars
<1>5. ASSUME NEW s \in Sessions, ServeMessage(s) \/ ServeEnd(s) \/ ServeReset(s)
      PROVE  UNCHANGED <<fileVars, clientVars, msg, reply, reset, fop, rvc, pdVars, lost, raced>>
  BY <1>5 DEF ServeMessage, ServeEnd, ServeReset, socketVars, udpVars
<1> QED BY <1>1, <1>2, <1>3, <1>4, <1>5 DEF MainStep

LEMMA ChildLeaves ==
  ASSUME NEW s \in Sessions, ChildStep(s)
  PROVE  UNCHANGED <<pass, reg, clientVars, msg, unread, backlog, mainVars, pd, starts, shown,
                     confirmed, udp, udpChild, from, raced>>
<1>1. CASE Log(s) \/ WriteLogin(s) BY <1>1 DEF Log, WriteLogin, ChildFrame, pdVars
<1>2. CASE ReadReg(s) \/ ValidRequest(s) BY <1>2 DEF ReadReg, ValidRequest, ChildFrame, pdVars
<1>3. CASE WriteVc(s) BY <1>3 DEF WriteVc, ChildFrame, pdVars
<1>4. CASE WriteRid(s) BY <1>4 DEF WriteRid, ChildFrame
<1>5. CASE ReceiveRvc(s) BY <1>5 DEF ReceiveRvc, ChildFrame, pdVars
<1>6. CASE Authenticate(s) BY <1>6 DEF Authenticate, ChildFrame, pdVars
<1>7. CASE WriteTid(s) BY <1>7 DEF WriteTid, ChildFrame, pdVars
<1> QED BY <1>1, <1>2, <1>3, <1>4, <1>5, <1>6, <1>7 DEF ChildStep

LEMMA DeviceLeaves ==
  ASSUME NEW u \in Users, DeviceStep(u)
  PROVE  UNCHANGED <<fileVars, clientVars, socketVars, mainVars, child, fop, udpChild, from, raced>>
<1>1. CASE Register(u) BY <1>1 DEF Register, PdFrame
<1>2. CASE Exit(u) \/ Type(u) BY <1>2 DEF Exit, Type, PdFrame, udpVars
<1>3. CASE Registered(u) BY <1>3 DEF Registered, PdFrame, udpVars
<1>4. CASE Validate(u) BY <1>4 DEF Validate, PdFrame
<1>5. CASE Timeout(u) BY <1>5 DEF Timeout, PdFrame, udpVars
<1> QED BY <1>1, <1>2, <1>3, <1>4, <1>5 DEF DeviceStep, PdStep

LEMMA UdpLeaves ==
  ASSUME NEW u \in Users, UdpStep(u)
  PROVE  UNCHANGED <<clientVars, socketVars, mainVars, child, fop, rvc, pd, starts, shown, vlc,
                     udp, from, lost>>
BY DEF UdpStep, WritePass, WriteFiles, FindPass, RemoveFiles, UdpFrame

-----------------------------------------------------------------------------
\* The types, step by step.

LEMMA SendTypes ==
  ASSUME FilesTyped, ClientsTyped, SocketsTyped, NEW s \in Sessions, NEW m \in ClientMessage,
         Write(s, m)
  PROVE  /\ bounds' \in [sessions : 0 .. MaxSessions, ended : Nat, sent : 0 .. MaxSent, lost : Nat,
                     lines : BOOLEAN]
         /\ bounds'.sent = bounds.sent - 1 /\ bounds'.lost = bounds.lost
         /\ sent[s] + bounds.sent <= MaxSent => sent' \in [Sessions -> 0 .. MaxSent]
         /\ msg' \in [Sessions -> ClientMessage \cup {NoFile}]
         /\ client' \in [Sessions -> {"new", "idle", "waiting", "gone"}]
         /\ SocketsTyped'
<1>1. bounds \in [sessions : 0 .. MaxSessions, ended : Nat, sent : 0 .. MaxSent, lost : Nat,
                     lines : BOOLEAN]
  BY DEF ClientsTyped
<1>2. bounds.sent > 0 /\ bounds' = [bounds EXCEPT !.sent = @ - 1] BY DEF Write
<1>3. bounds.sent - 1 \in 0 .. MaxSent BY <1>1, <1>2
<1>4. /\ bounds' \in [sessions : 0 .. MaxSessions, ended : Nat, sent : 0 .. MaxSent, lost : Nat,
                     lines : BOOLEAN]
      /\ bounds'.sent = bounds.sent - 1 /\ bounds'.lost = bounds.lost
  BY <1>1, <1>2, <1>3
<1>5. sent[s] + bounds.sent <= MaxSent => sent' \in [Sessions -> 0 .. MaxSent]
  <2> SUFFICES ASSUME sent[s] + bounds.sent <= MaxSent PROVE sent' \in [Sessions -> 0 .. MaxSent]
    OBVIOUS
  <2>1. sent \in [Sessions -> 0 .. MaxSent] /\ sent' = [sent EXCEPT ![s] = @ + 1]
    BY DEF ClientsTyped, Write
  <2>2. bounds.sent \in Nat BY <1>1
  <2>3. sent[s] + 1 \in 0 .. MaxSent BY <1>2, <2>1, <2>2
  <2> QED BY <2>1, <2>3
<1>6. msg' \in [Sessions -> ClientMessage \cup {NoFile}]
  BY DEF ClientsTyped, Write
<1>7. client' \in [Sessions -> {"new", "idle", "waiting", "gone"}]
  BY DEF ClientsTyped, Write
<1>8. SocketsTyped' BY DEF SocketsTyped, Write
<1> QED BY <1>4, <1>5, <1>6, <1>7, <1>8

LEMMA MessageTypes ==
  /\ \A right \in BOOLEAN : [type |-> "LOG", rightPassword |-> right] \in ClientMessage
  /\ \A r \in Request : [type |-> "REQ", request |-> r] \in ClientMessage
  /\ \A r \in Request, c \in Request \cup {Empty} :
       [type |-> "AUT", rid |-> r, code |-> c] \in ClientMessage
BY DEF ClientMessage

LEMMA MessageFields ==
  ASSUME NEW m \in ClientMessage
  PROVE  /\ m.type \in {"LOG", "REQ", "AUT"}
         /\ m.type = "LOG" => m.rightPassword \in BOOLEAN
         /\ m.type = "REQ" => m.request \in Request
         /\ m.type = "AUT" => m.rid \in Request /\ m.code \in Request \cup {Empty}
BY DEF ClientMessage

LEMMA RequestFields ==
  ASSUME NEW r \in Request
  PROVE  /\ r.session \in Sessions /\ r.number \in 1 .. MaxSent /\ r.op \in Operations
         /\ r \notin {NoFile, Zero, Empty}
BY DEF Request

\* The next request of a session is one: its number is within the bound.
LEMMA NextRequest ==
  ASSUME ClientsTyped, NEW s \in Sessions, Numbered(s), bounds.sent > 0, NEW op \in Operations
  PROVE  [session |-> s, number |-> sent[s] + 1, op |-> op] \in Request
<1>1. bounds.sent \in Nat /\ sent[s] \in Nat BY DEF ClientsTyped
<1>2. sent[s] + bounds.sent <= MaxSent BY DEF Numbered
<1>3. sent[s] + 1 \in 1 .. MaxSent BY <1>1, <1>2
<1> QED BY <1>3 DEF Request

LEMMA ClientTypes ==
  ASSUME IInv, NEW s \in Sessions, ClientStep(s)
  PROVE  ClientsTyped' /\ SocketsTyped' /\ bounds'.lost = bounds.lost
<1>1. FilesTyped /\ ClientsTyped /\ SocketsTyped /\ DeviceTyped BY TypeParts DEF IInv
<1>2. Numbered(s) BY DEF IInv, NumberInv
<1>3. UNCHANGED user BY ClientLeaves
<1>4. CASE Connect(s)
  BY <1>1, <1>4 DEF Connect, ClientsTyped, SocketsTyped
<1>5. CASE LogIn(s)
  <2>1. PICK right \in BOOLEAN : Write(s, [type |-> "LOG", rightPassword |-> right])
    BY <1>5 DEF LogIn
  <2>2. [type |-> "LOG", rightPassword |-> right] \in ClientMessage BY MessageTypes
  <2>3. UNCHANGED <<phase, garbled, last>> BY <1>5 DEF LogIn, Write
  <2>4. sent[s] + bounds.sent <= MaxSent BY <1>2 DEF Numbered
  <2> QED BY <1>1, <1>3, <2>1, <2>2, <2>3, <2>4, SendTypes DEF ClientsTyped
<1>6. CASE Req(s)
  <2>1. PICK op \in Operations :
          LET r == [session |-> s, number |-> sent[s] + 1, op |-> op]
          IN  /\ Write(s, [type |-> "REQ", request |-> r])
              /\ last' = [last EXCEPT ![s] = r]
    BY <1>6 DEF Req
  <2> DEFINE r == [session |-> s, number |-> sent[s] + 1, op |-> op]
  <2>2. Write(s, [type |-> "REQ", request |-> r]) BY <2>1
  <2>3. bounds.sent > 0 BY <2>2 DEF Write
  <2>4. r \in Request BY <1>1, <1>2, <2>3, NextRequest
  <2>5. last' = [last EXCEPT ![s] = r] BY <2>1
  <2>6. UNCHANGED <<phase, garbled>> BY <2>2 DEF Write
  <2>7. sent[s] + bounds.sent <= MaxSent BY <1>2 DEF Numbered
  <2> HIDE DEF r
  <2>8. [type |-> "REQ", request |-> r] \in ClientMessage BY <2>4, MessageTypes
  <2>9. last' \in [Sessions -> Request \cup {Zero}] BY <1>1, <2>4, <2>5 DEF ClientsTyped
  <2> QED BY <1>1, <1>3, <2>2, <2>6, <2>7, <2>8, <2>9, SendTypes DEF ClientsTyped
<1>7. CASE Val(s)
  <2>1. PICK code \in {r \in shown : r.session = s} \cup {Empty} :
          Write(s, [type |-> "AUT", rid |-> last[s], code |-> code])
    BY <1>7 DEF Val
  <2>2. UNCHANGED <<phase, garbled, last>> /\ phase[s] \in {2, 3} BY <1>7 DEF Val, Write
  <2>3. last[s] \in Request
    <3>1. phase[s] \in Nat BY <1>1 DEF ClientsTyped
    <3> QED BY <1>2, <2>2, <3>1 DEF Numbered
  <2>4. code \in Request \cup {Empty} BY <1>1 DEF DeviceTyped
  <2>5. [type |-> "AUT", rid |-> last[s], code |-> code] \in ClientMessage
    BY <2>3, <2>4, MessageTypes
  <2>6. sent[s] + bounds.sent <= MaxSent BY <1>2 DEF Numbered
  <2> QED BY <1>1, <1>3, <2>1, <2>2, <2>5, <2>6, SendTypes DEF ClientsTyped
<1>8. CASE ReadReply(s)
  <2>1. phase' \in [Sessions -> 0 .. 3]
    BY <1>1, <1>8 DEF ReadReply, ClientsTyped
  <2>2. garbled' \in [Sessions -> BOOLEAN]
    BY <1>1, <1>8 DEF ReadReply, ClientsTyped
  <2>3. /\ client' = [client EXCEPT ![s] = "idle"] /\ reply' = [reply EXCEPT ![s] = "none"]
        /\ UNCHANGED <<user, bounds, last, sent, msg, unread, reset, backlog>>
    BY <1>8 DEF ReadReply
  <2> QED BY <1>1, <2>1, <2>2, <2>3 DEF ClientsTyped, SocketsTyped
<1>9. CASE Leave(s)
  BY <1>1, <1>9 DEF Leave, ClientsTyped, SocketsTyped, socketVars
<1>10. CASE Interrupt(s)
  BY <1>1, <1>10 DEF Interrupt, ClientsTyped, SocketsTyped
<1> QED BY <1>4, <1>5, <1>6, <1>7, <1>8, <1>9, <1>10 DEF ClientStep

LEMMA UsersAreSessions ==
  ASSUME MainTyped
  PROVE  Range(users) \subseteq Sessions
BY DEF MainTyped, Range

LEMMA Descriptors ==
  /\ IsFiniteSet(Sessions) /\ Cardinality(Sessions) \in Nat
  /\ IsFiniteSet(Sessions \cup {Udp, Listen})
  /\ Cardinality(Sessions \cup {Udp, Listen}) <= Cardinality(Sessions) + 2
<1>1. IsFiniteSet(Sessions) BY FS_Interval DEF Sessions
<1>2. Cardinality(Sessions) \in Nat BY <1>1, FS_CardinalityType
<1>3. /\ IsFiniteSet(Sessions \cup {Udp})
      /\ Cardinality(Sessions \cup {Udp}) \in {Cardinality(Sessions), Cardinality(Sessions) + 1}
  BY <1>1, FS_AddElement
<1>4. /\ IsFiniteSet((Sessions \cup {Udp}) \cup {Listen})
      /\ Cardinality((Sessions \cup {Udp}) \cup {Listen})
           \in {Cardinality(Sessions \cup {Udp}), Cardinality(Sessions \cup {Udp}) + 1}
  BY <1>3, FS_AddElement
<1>5. (Sessions \cup {Udp}) \cup {Listen} = Sessions \cup {Udp, Listen} OBVIOUS
<1> QED BY <1>1, <1>2, <1>3, <1>4, <1>5

LEMMA ReadableTypes ==
  ASSUME MainTyped
  PROVE  /\ Readable \subseteq Sessions \cup {Udp, Listen}
         /\ Cardinality(Readable) \in 0 .. Cardinality(Sessions) + 2
<1>1. Readable \subseteq Sessions \cup {Udp, Listen} BY UsersAreSessions DEF Readable
<1>2. /\ IsFiniteSet(Readable)
      /\ Cardinality(Readable) <= Cardinality(Sessions \cup {Udp, Listen})
  BY <1>1, Descriptors, FS_Subset
<1>3. Cardinality(Readable) \in Nat /\ Cardinality(Sessions \cup {Udp, Listen}) \in Nat
  BY <1>2, Descriptors, FS_CardinalityType
<1> QED BY <1>1, <1>2, <1>3, Descriptors

LEMMA GoOnTypes ==
  ASSUME MainTyped, NEW rest, rest \subseteq todo, GoOn(rest)
  PROVE  /\ main' \in {"select", "serve", "exited"}
         /\ readfds' \subseteq Sessions \cup {Udp, Listen}
         /\ nready' \in 0 .. Cardinality(Sessions) + 2
         /\ todo' \subseteq Sessions \cup {Udp, Listen}
<1>1. /\ main \in {"select", "serve", "exited"} /\ readfds \subseteq Sessions \cup {Udp, Listen}
      /\ nready \in 0 .. Cardinality(Sessions) + 2 /\ todo \subseteq Sessions \cup {Udp, Listen}
  BY DEF MainTyped
<1>2. Cardinality(Sessions) \in Nat BY Descriptors
<1>3. CASE rest # {} /\ todo' = rest /\ UNCHANGED <<main, readfds, nready>> BY <1>1, <1>3
<1>4. CASE /\ rest = {} /\ nready > 1
           /\ nready' = nready - 1 /\ todo' = readfds /\ UNCHANGED <<main, readfds>>
  <2>1. nready' \in 0 .. Cardinality(Sessions) + 2 BY <1>1, <1>2, <1>4
  <2> QED BY <1>1, <1>4, <2>1
<1>5. CASE main' = "select" /\ readfds' = {} /\ nready' = 0 /\ todo' = {} BY <1>2, <1>5
<1> QED BY <1>3, <1>4, <1>5 DEF GoOn

LEMMA MainTypes ==
  ASSUME IInv, MainStep
  PROVE  MainTyped' /\ SocketsTyped' /\ ChildTyped' /\ UdpTyped'
<1>1. MainTyped /\ SocketsTyped /\ ChildTyped /\ UdpTyped BY TypeParts DEF IInv
<1>2. UNCHANGED <<bounds, reply, reset, fop, lost>> BY MainLeaves DEF clientVars
<1>3. MaxUsers \in Nat OBVIOUS
<1>4. CASE Select
  <2>1. /\ main' = "serve" /\ readfds' = Readable /\ nready' = Cardinality(Readable)
        /\ todo' = Readable /\ UNCHANGED <<users, unread, backlog, child, udp, udpChild, from>>
    BY <1>4 DEF Select, socketVars, udpVars
  <2>2. MainTyped' BY <1>1, <2>1, ReadableTypes DEF MainTyped
  <2> QED BY <1>1, <1>2, <2>1, <2>2 DEF SocketsTyped, ChildTyped, UdpTyped
<1>5. CASE ServeUdp
  <2>1. /\ udp # <<>> /\ udp' = Tail(udp)
        /\ udpChild' = [udpChild EXCEPT ![Head(udp).user] = Head(udp).type]
        /\ from' = [from EXCEPT ![Head(udp).user] = Head(udp).from]
        /\ GoOn(todo \ {Udp}) /\ UNCHANGED <<users, unread, backlog, child>>
    BY <1>5 DEF ServeUdp, socketVars
  <2> DEFINE Datagrams == [type : {"REG", "UNR"}, user : Users, from : 1 .. MaxStarts]
  <2>2. udp \in Seq(Datagrams) BY <1>1 DEF UdpTyped
  <2> HIDE DEF Datagrams
  <2>3. Head(udp) \in Datagrams /\ Tail(udp) \in Seq(Datagrams)
    BY <2>1, <2>2, HeadTailProperties
  <2> USE DEF Datagrams
  <2>4. UdpTyped' BY <1>1, <1>2, <2>1, <2>2, <2>3 DEF UdpTyped
  <2>5. MainTyped' BY <1>1, <2>1, GoOnTypes DEF MainTyped
  <2> QED BY <1>1, <1>2, <2>1, <2>4, <2>5 DEF SocketsTyped, ChildTyped
<1>6. CASE ServeListen
  <2>1. /\ Len(users) < MaxUsers /\ backlog # <<>> /\ users' = Append(users, Head(backlog))
        /\ backlog' = Tail(backlog) /\ GoOn(todo \ {Listen})
        /\ UNCHANGED <<unread, child, udp, udpChild, from>>
    BY <1>6 DEF ServeListen, udpVars
  <2>2. Head(backlog) \in Sessions /\ Tail(backlog) \in Seq(Sessions)
    BY <1>1, <2>1 DEF SocketsTyped
  <2>3. users' \in Seq(Sessions) /\ Len(users') <= MaxUsers
    BY <1>1, <1>3, <2>1, <2>2 DEF MainTyped
  <2>4. MainTyped' BY <1>1, <2>1, <2>3, GoOnTypes DEF MainTyped
  <2> QED BY <1>1, <1>2, <2>1, <2>2, <2>4 DEF SocketsTyped, ChildTyped, UdpTyped
<1>7. CASE ServeListenFull
  <2>1. GoOn({}) /\ UNCHANGED <<users, unread, backlog, child, udp, udpChild, from>>
    BY <1>7 DEF ServeListenFull, socketVars, udpVars
  <2>2. MainTyped' BY <1>1, <2>1, GoOnTypes DEF MainTyped
  <2> QED BY <1>1, <1>2, <2>1, <2>2 DEF SocketsTyped, ChildTyped, UdpTyped
<1>8. ASSUME NEW s \in Sessions, ServeMessage(s)
      PROVE  MainTyped' /\ SocketsTyped' /\ ChildTyped' /\ UdpTyped'
  <2>1. /\ unread[s] /\ unread' = [unread EXCEPT ![s] = FALSE]
        /\ child' = [child EXCEPT ![s] = msg[s].type]
        /\ GoOn(todo \ {s}) /\ UNCHANGED <<users, backlog, udp, udpChild, from>>
    BY <1>8 DEF ServeMessage, udpVars
  <2>2. msg[s] \in ClientMessage BY <2>1 DEF IInv, MessageInv, OneMessage, Sound
  <2>3. msg[s].type \in {"LOG", "REQ", "AUT"} BY <2>2, MessageFields
  <2>4. ChildTyped' BY <1>1, <1>2, <2>1, <2>3 DEF ChildTyped
  <2>5. MainTyped' BY <1>1, <2>1, GoOnTypes DEF MainTyped
  <2> QED BY <1>1, <1>2, <2>1, <2>4, <2>5 DEF SocketsTyped, UdpTyped
<1>9. ASSUME NEW s \in Sessions, ServeEnd(s)
      PROVE  MainTyped' /\ SocketsTyped' /\ ChildTyped' /\ UdpTyped'
  <2>1. GoOn(todo \ {s}) /\ UNCHANGED <<users, unread, backlog, child, udp, udpChild, from>>
    BY <1>9 DEF ServeEnd, socketVars, udpVars
  <2>2. MainTyped' BY <1>1, <2>1, GoOnTypes DEF MainTyped
  <2> QED BY <1>1, <1>2, <2>1, <2>2 DEF SocketsTyped, ChildTyped, UdpTyped
<1>10. ASSUME NEW s \in Sessions, ServeReset(s)
       PROVE  MainTyped' /\ SocketsTyped' /\ ChildTyped' /\ UdpTyped'
  BY <1>1, <1>2, <1>10
     DEF ServeReset, socketVars, udpVars, MainTyped, SocketsTyped, ChildTyped, UdpTyped
<1> QED BY <1>4, <1>5, <1>6, <1>7, <1>8, <1>9, <1>10 DEF MainStep

\* What the answers of a child do to its socket.
LEMMA AnswerTypes ==
  ASSUME SocketsTyped, ChildTyped, NEW s \in Sessions, NEW r \in {"OK", "NOK", "ERR"}, Answer(s, r),
         UNCHANGED <<unread, backlog>>
  PROVE  /\ SocketsTyped'
         /\ child' = [child EXCEPT ![s] = "none"]
         /\ child' \in [Sessions -> ChildStates]
BY DEF SocketsTyped, ChildTyped, Answer

LEMMA NoAnswerTypes ==
  ASSUME SocketsTyped, ChildTyped, NEW s \in Sessions,
         NEW next \in ChildStates,
         NoAnswer(s, next), UNCHANGED <<unread, backlog>>
  PROVE  /\ SocketsTyped'
         /\ child' = [child EXCEPT ![s] = next]
         /\ child' \in [Sessions -> ChildStates]
BY DEF SocketsTyped, ChildTyped, NoAnswer

\* A child at work has a message of its kind.
LEMMA ChildMessage ==
  ASSUME IInv, NEW s \in Sessions, child[s] \notin {"none", "crashed"}
  PROVE  msg[s] \in ClientMessage /\ msg[s].type = Kind(child[s])
BY DEF IInv, MessageInv, OneMessage, Sound

LEMMA RequestOfChild ==
  ASSUME IInv, NEW s \in Sessions, child[s] \in {"REQ", "valid", "vc", "rid", "RVC"}
  PROVE  /\ msg[s].request \in Request /\ msg[s].request = last[s]
         /\ last[s].session = s
<1>1. msg[s] \in ClientMessage /\ msg[s].type = "REQ" BY ChildMessage DEF Kind
<1>2. msg[s].request \in Request BY <1>1, MessageFields
<1>3. msg[s].request = last[s] BY <1>1 DEF IInv, MessageInv, OneMessage, Sound
<1>4. last[s] = Zero \/ last[s].session = s BY DEF IInv, NumberInv, Numbered
<1> QED BY <1>2, <1>3, <1>4

LEMMA ChildTypes ==
  ASSUME IInv, NEW s \in Sessions, ChildStep(s)
  PROVE  FilesTyped' /\ SocketsTyped' /\ ChildTyped' /\ DeviceTyped' /\ UdpTyped'
<1>1. FilesTyped /\ ClientsTyped /\ SocketsTyped /\ ChildTyped /\ DeviceTyped /\ UdpTyped
  BY TypeParts DEF IInv
<1>2. UNCHANGED <<pass, reg, user, bounds, msg, unread, backlog, pd, starts, shown,
                  confirmed, udp, udpChild, from, raced>>
  BY ChildLeaves DEF clientVars
<1>3. UNCHANGED <<unread, backlog>> BY <1>2
<1>4. user[s] \in Users BY <1>1 DEF ClientsTyped
<1>5. CASE Log(s)
  <2>1. UNCHANGED <<login, vc, rid, tid, fop, rvc, vlc, lost>> BY <1>5 DEF Log, pdVars
  <2>2. \/ \E r \in {"ERR", "NOK"} : Answer(s, r)
        \/ NoAnswer(s, "login")
    BY <1>5 DEF Log
  <2>3. SocketsTyped' /\ child' \in [Sessions -> ChildStates]
    BY <1>1, <1>3, <2>2, AnswerTypes, NoAnswerTypes
  <2> QED BY <1>1, <1>2, <2>1, <2>3 DEF FilesTyped, ChildTyped, DeviceTyped, UdpTyped
<1>6. CASE WriteLogin(s)
  <2>1. /\ UNCHANGED <<vc, rid, tid, fop, rvc, vlc, lost>> /\ Answer(s, "OK")
        /\ login' = [login EXCEPT ![user[s]] = TRUE]
    BY <1>6 DEF WriteLogin, pdVars
  <2>2. SocketsTyped' /\ child' \in [Sessions -> ChildStates]
    BY <1>1, <1>3, <2>1, AnswerTypes
  <2>3. FilesTyped' BY <1>1, <1>2, <2>1 DEF FilesTyped
  <2> QED BY <1>1, <1>2, <2>1, <2>2, <2>3 DEF ChildTyped, DeviceTyped, UdpTyped
<1>7. CASE ReadReg(s) \/ ValidRequest(s)
  <2>1. UNCHANGED <<login, vc, rid, tid, fop, rvc, vlc, lost>>
    BY <1>7 DEF ReadReg, ValidRequest, pdVars
  <2>2. \/ Answer(s, "ERR")
        \/ \E next \in {"valid", "crashed", "vc"} : NoAnswer(s, next)
    BY <1>7 DEF ReadReg, ValidRequest
  <2>3. SocketsTyped' /\ child' \in [Sessions -> ChildStates]
    BY <1>1, <1>3, <2>2, AnswerTypes, NoAnswerTypes
  <2> QED BY <1>1, <1>2, <2>1, <2>3 DEF FilesTyped, ChildTyped, DeviceTyped, UdpTyped
<1>8. CASE WriteVc(s)
  <2>1. /\ UNCHANGED <<login, rid, tid, fop, rvc, vlc, lost>> /\ NoAnswer(s, "rid")
        /\ vc' = [vc EXCEPT ![user[s]] = msg[s].request] /\ child[s] = "vc"
    BY <1>8 DEF WriteVc, pdVars
  <2>2. msg[s].request \in Request BY <2>1, RequestOfChild
  <2>3. SocketsTyped' /\ child' \in [Sessions -> ChildStates]
    BY <1>1, <1>3, <2>1, NoAnswerTypes
  <2>4. FilesTyped' BY <1>1, <1>2, <2>1, <2>2 DEF FilesTyped
  <2> QED BY <1>1, <1>2, <2>1, <2>3, <2>4 DEF ChildTyped, DeviceTyped, UdpTyped
<1>9. CASE WriteRid(s)
  <2> DEFINE r == msg[s].request
  <2>1. /\ UNCHANGED <<login, vc, tid, fop, rvc>> /\ child[s] = "rid"
        /\ rid' = [rid EXCEPT ![user[s]] = r] \/ rid' = [rid EXCEPT ![user[s]] = Empty]
        /\ Deliver(user[s], r) \/ UNCHANGED <<vlc, lost>>
        /\ NoAnswer(s, "RVC") \/ Answer(s, "ERR")
    BY <1>9 DEF WriteRid
  <2>2. r \in Request BY <2>1, RequestOfChild
  <2> HIDE DEF r
  <2>3. SocketsTyped' /\ child' \in [Sessions -> ChildStates]
    BY <1>1, <1>3, <2>1, AnswerTypes, NoAnswerTypes
  <2>4. FilesTyped' BY <1>1, <1>2, <2>1, <2>2 DEF FilesTyped
  <2>5. vlc' \in [Users -> Seq(Request)]
    <3>1. vlc \in [Users -> Seq(Request)] BY <1>1 DEF DeviceTyped
    <3>2. Append(vlc[user[s]], r) \in Seq(Request) BY <1>4, <2>2, <3>1, AppendProperties
    <3> QED BY <2>1, <3>1, <3>2 DEF Deliver
  <2>6. lost' \in 0 .. bounds'.lost
    <3>1. lost \in 0 .. bounds.lost /\ bounds.lost \in Nat BY <1>1 DEF ClientsTyped, UdpTyped
    <3>2. lost' = lost \/ (lost < bounds.lost /\ lost' = lost + 1) BY <2>1 DEF Deliver
    <3> QED BY <1>2, <3>1, <3>2
  <2> QED BY <1>1, <1>2, <2>1, <2>3, <2>4, <2>5, <2>6 DEF ChildTyped, DeviceTyped, UdpTyped
<1>10. CASE ReceiveRvc(s)
  <2>1. /\ UNCHANGED <<login, vc, rid, tid, fop, vlc, lost>> /\ Answer(s, "OK")
        /\ rvc' = [rvc EXCEPT ![s] = FALSE]
    BY <1>10 DEF ReceiveRvc, pdVars
  <2>2. SocketsTyped' /\ child' \in [Sessions -> ChildStates]
    BY <1>1, <1>3, <2>1, AnswerTypes
  <2> QED BY <1>1, <1>2, <2>1, <2>2 DEF FilesTyped, ChildTyped, DeviceTyped, UdpTyped
<1>11. CASE Authenticate(s)
  <2>1. PICK same \in SameNumber(s) :
          IF pass[user[s]] /\ SameCode(s) /\ same
          THEN NoAnswer(s, "tid") /\ fop' = [fop EXCEPT ![s] = rid[user[s]]]
          ELSE Answer(s, "NOK") /\ UNCHANGED fop
    BY <1>11 DEF Authenticate
  <2>2. UNCHANGED <<login, vc, rid, tid, rvc, vlc, lost>> /\ child[s] = "AUT"
    BY <1>11 DEF Authenticate, pdVars
  <2>3. SocketsTyped' /\ child' \in [Sessions -> ChildStates]
    BY <1>1, <1>3, <2>1, AnswerTypes, NoAnswerTypes
  <2>4. same => rid[user[s]] \in Request \cup {Empty}
    <3>1. msg[s] \in ClientMessage /\ msg[s].type = "AUT" BY <2>2, ChildMessage DEF Kind
    <3> QED BY <2>1, <3>1, MessageFields DEF SameNumber
  <2>5. fop' \in [Sessions -> Request \cup {Empty}] BY <1>1, <2>1, <2>4 DEF ChildTyped
  <2> QED BY <1>1, <1>2, <2>2, <2>3, <2>5 DEF FilesTyped, ChildTyped, DeviceTyped, UdpTyped
<1>12. CASE WriteTid(s)
  <2>1. /\ UNCHANGED <<login, vc, rid, fop, rvc, vlc, lost>> /\ Answer(s, "OK")
        /\ tid' = [tid EXCEPT ![user[s]] = fop[s]]
    BY <1>12 DEF WriteTid, pdVars
  <2>2. SocketsTyped' /\ child' \in [Sessions -> ChildStates]
    BY <1>1, <1>3, <2>1, AnswerTypes
  <2>3. fop[s] \in Request \cup {Empty} BY <1>1 DEF ChildTyped
  <2>4. FilesTyped' BY <1>1, <1>2, <2>1, <2>3 DEF FilesTyped
  <2> QED BY <1>1, <1>2, <2>1, <2>2, <2>4 DEF ChildTyped, DeviceTyped, UdpTyped
<1> QED BY <1>5, <1>6, <1>7, <1>8, <1>9, <1>10, <1>11, <1>12 DEF ChildStep

LEMMA PostTypes ==
  ASSUME UdpTyped, ClientsTyped, NEW type \in {"REG", "UNR"}, NEW u \in Users,
         NEW run \in 1 .. MaxStarts, Post(type, u, run), UNCHANGED <<bounds, udpChild, from>>
  PROVE  UdpTyped'
<1> DEFINE Datagrams == [type : {"REG", "UNR"}, user : Users, from : 1 .. MaxStarts]
           d == [type |-> type, user |-> u, from |-> run]
<1>1. d \in Datagrams OBVIOUS
<1>2. udp \in Seq(Datagrams) BY DEF UdpTyped
<1>3. lost \in 0 .. bounds.lost /\ bounds.lost \in Nat BY DEF UdpTyped, ClientsTyped
<1>4. \/ udp' = Append(udp, d) /\ UNCHANGED lost
      \/ lost < bounds.lost /\ lost' = lost + 1 /\ UNCHANGED udp
  BY DEF Post
<1> HIDE DEF Datagrams, d
<1>5. Append(udp, d) \in Seq(Datagrams) BY <1>1, <1>2, AppendProperties
<1>6. udp' \in Seq(Datagrams) BY <1>2, <1>4, <1>5
<1>7. lost' \in 0 .. bounds'.lost BY <1>3, <1>4
<1> USE DEF Datagrams
<1> QED BY <1>6, <1>7 DEF UdpTyped

\* Only a device in its loop reads a line or a code, and it stays there.
LEMMA NextOfDevice ==
  ASSUME NEW u \in Users
  PROVE  /\ \A next \in AfterLine(u) : pd[u] \in PdLoop /\ next \in PdLoop
         /\ \A next \in AfterCode(u) : pd[u] \in PdLoop /\ next \in PdLoop
         /\ "off" \notin PdLoop
<1>1. AfterLine(u) \subseteq PdLoop /\ (AfterLine(u) # {} => pd[u] \in PdLoop)
  <2>1. CASE pd[u] = "on" BY <2>1 DEF AfterLine, PdLoop
  <2>2. CASE pd[u] = "typing" BY <2>2 DEF AfterLine, PdLoop
  <2>3. CASE pd[u] = "bothTyping" BY <2>3 DEF AfterLine, PdLoop
  <2>4. CASE ~(pd[u] = "on" \/ pd[u] = "typing" \/ pd[u] = "bothTyping")
    BY <2>4 DEF AfterLine
  <2> QED BY <2>1, <2>2, <2>3, <2>4
<1>2. AfterCode(u) \subseteq PdLoop /\ (AfterCode(u) # {} => pd[u] \in PdLoop)
  <2>1. CASE pd[u] \in {"on", "again"} BY <2>1 DEF AfterCode, PdLoop
  <2>2. CASE pd[u] = "both" BY <2>2 DEF AfterCode, PdLoop
  <2>3. CASE pd[u] = "bothAgain" BY <2>3 DEF AfterCode, PdLoop
  <2>4. CASE ~(pd[u] \in {"on", "again"} \/ pd[u] = "both" \/ pd[u] = "bothAgain")
    BY <2>4 DEF AfterCode
  <2> QED BY <2>1, <2>2, <2>3, <2>4
<1> QED BY <1>1, <1>2 DEF PdLoop

LEMMA DeviceTypes ==
  ASSUME IInv, NEW u \in Users, DeviceStep(u)
  PROVE  DeviceTyped' /\ UdpTyped' /\ StartsInv'
<1>1. DeviceTyped /\ UdpTyped /\ ClientsTyped /\ StartsInv BY TypeParts DEF IInv
<1>2. UNCHANGED <<bounds, udpChild, from>> BY DeviceLeaves DEF clientVars
<1>3. MaxStarts \in Nat /\ starts \in [Users -> 0 .. MaxStarts] BY <1>1 DEF DeviceTyped
<1>4. CASE Register(u)
  <2>1. /\ starts[u] < MaxStarts /\ pd' = [pd EXCEPT ![u] = "registering"]
        /\ starts' = [starts EXCEPT ![u] = @ + 1]
        /\ confirmed' = [confirmed EXCEPT ![u] = FALSE]
        /\ Post("REG", u, starts[u] + 1) /\ UNCHANGED <<shown, vlc, rvc>>
    BY <1>4 DEF Register
  <2>2. starts[u] + 1 \in 1 .. MaxStarts BY <1>3, <2>1
  <2>3. UdpTyped' BY <1>1, <1>2, <2>1, <2>2, PostTypes
  <2>4. DeviceTyped' BY <1>1, <2>1, <2>2 DEF DeviceTyped
  <2>5. StartsInv' BY <1>1, <1>3, <2>1, <2>2 DEF StartsInv, DeviceTyped
  <2> QED BY <2>3, <2>4, <2>5
<1>5. CASE Exit(u)
  <2>1. /\ pd[u] # "off" /\ pd' = [pd EXCEPT ![u] = "off"] /\ vlc' = [vlc EXCEPT ![u] = <<>>]
        /\ Post("UNR", u, starts[u]) /\ UNCHANGED <<starts, shown, confirmed, rvc>>
    BY <1>5 DEF Exit, Typing
  <2>2. starts[u] \in 1 .. MaxStarts BY <1>1, <1>3, <2>1 DEF StartsInv
  <2>3. UdpTyped' BY <1>1, <1>2, <2>1, <2>2, PostTypes
  <2>4. DeviceTyped' BY <1>1, <2>1 DEF DeviceTyped
  <2>5. StartsInv' BY <1>1, <2>1 DEF StartsInv, DeviceTyped
  <2> QED BY <2>3, <2>4, <2>5
<1>6. CASE Registered(u)
  <2>1. /\ pd[u] # "off" /\ "on" \in PdLoop /\ pd' = [pd EXCEPT ![u] = "on"]
        /\ UNCHANGED <<starts, shown, vlc, confirmed, rvc, udpVars>>
    BY <1>6 DEF Registered, PdLoop
  <2> QED BY <1>1, <1>2, <2>1 DEF DeviceTyped, UdpTyped, StartsInv, udpVars
<1>7. CASE Validate(u)
  <2>1. /\ pd[u] # "off" /\ vlc[u] # <<>> /\ shown' = shown \cup {Head(vlc[u])}
        /\ vlc' = [vlc EXCEPT ![u] = Tail(@)]
        /\ \E next \in PdLoop : pd' = [pd EXCEPT ![u] = next]
        /\ \/ rvc' = [rvc EXCEPT ![Head(vlc[u]).session] = TRUE] /\ UNCHANGED lost
           \/ lost < bounds.lost /\ lost' = lost + 1 /\ UNCHANGED rvc
        /\ UNCHANGED <<starts, confirmed, udp>>
    BY <1>7, NextOfDevice DEF Validate
  <2>2. vlc[u] \in Seq(Request) BY <1>1 DEF DeviceTyped
  <2>3. Head(vlc[u]) \in Request /\ Tail(vlc[u]) \in Seq(Request)
    BY <2>1, <2>2, HeadTailProperties
  <2>4. Head(vlc[u]).session \in Sessions BY <2>3, RequestFields
  <2>5. rvc' \in [Sessions -> BOOLEAN] BY <1>1, <2>1, <2>4 DEF DeviceTyped
  <2>6. DeviceTyped' BY <1>1, <2>1, <2>3, <2>5 DEF DeviceTyped
  <2>7. lost' \in 0 .. bounds'.lost
    <3>1. lost \in 0 .. bounds.lost /\ bounds.lost \in Nat BY <1>1 DEF ClientsTyped, UdpTyped
    <3> QED BY <1>2, <2>1, <3>1
  <2>8. UdpTyped' BY <1>1, <1>2, <2>1, <2>7 DEF UdpTyped
  <2>9. StartsInv' BY <1>1, <2>1 DEF StartsInv, DeviceTyped
  <2> QED BY <2>6, <2>8, <2>9
<1>8. CASE Timeout(u)
  BY <1>1, <1>2, <1>8 DEF Timeout, DeviceTyped, UdpTyped, StartsInv, udpVars
<1>9. CASE Type(u)
  <2>1. /\ pd[u] # "off" /\ \E next \in PdLoop : pd' = [pd EXCEPT ![u] = next]
        /\ UNCHANGED <<starts, shown, vlc, confirmed, rvc, udpVars>>
    BY <1>9, NextOfDevice DEF Type
  <2> QED BY <1>1, <1>2, <2>1 DEF DeviceTyped, UdpTyped, StartsInv, udpVars, PdLoop
<1> QED BY <1>4, <1>5, <1>6, <1>7, <1>8, <1>9 DEF DeviceStep, PdStep

LEMMA UdpTypes ==
  ASSUME IInv, NEW u \in Users, UdpStep(u)
  PROVE  FilesTyped' /\ DeviceTyped' /\ UdpTyped'
<1>1. FilesTyped /\ DeviceTyped /\ UdpTyped BY TypeParts DEF IInv
<1>2. UNCHANGED <<bounds, rvc, pd, starts, shown, vlc, udp, from, lost>>
  BY UdpLeaves DEF clientVars
<1>3. CASE WritePass(u)
  BY <1>1, <1>2, <1>3 DEF WritePass, FilesTyped, DeviceTyped, UdpTyped
<1>4. CASE WriteFiles(u)
  BY <1>1, <1>2, <1>4 DEF WriteFiles, Confirm, FilesTyped, DeviceTyped, UdpTyped
<1>5. CASE FindPass(u)
  BY <1>1, <1>2, <1>5 DEF FindPass, fileVars, FilesTyped, DeviceTyped, UdpTyped
<1>6. CASE RemoveFiles(u)
  BY <1>1, <1>2, <1>6 DEF RemoveFiles, FilesTyped, DeviceTyped, UdpTyped
<1> QED BY <1>3, <1>4, <1>5, <1>6 DEF UdpStep

LEMMA TypeStep ==
  ASSUME IInv, Next
  PROVE  TypeOK'
<1>1. /\ FilesTyped /\ ClientsTyped /\ SocketsTyped /\ MainTyped /\ ChildTyped
      /\ DeviceTyped /\ UdpTyped
  BY TypeParts DEF IInv
<1> SUFFICES /\ FilesTyped' /\ ClientsTyped' /\ SocketsTyped' /\ MainTyped' /\ ChildTyped'
             /\ DeviceTyped' /\ UdpTyped'
  BY TypeParts, PTL
<1>2. CASE MainStep
  <2>1. UNCHANGED <<fileVars, raced, clientVars, msg, rvc, pdVars>>
    BY <1>2, MainLeaves
  <2>2. FilesTyped' /\ ClientsTyped' /\ DeviceTyped'
    BY <1>1, <2>1 DEF FilesTyped, ClientsTyped, DeviceTyped, fileVars, clientVars, pdVars
  <2> QED BY <1>2, <2>2, MainTypes
<1>3. ASSUME NEW s \in Sessions, ClientStep(s)
      PROVE  /\ FilesTyped' /\ ClientsTyped' /\ SocketsTyped' /\ MainTyped' /\ ChildTyped'
             /\ DeviceTyped' /\ UdpTyped'
  <2>1. UNCHANGED <<fileVars, user, mainVars, child, fop, rvc, pdVars, udpVars, raced>>
    BY <1>3, ClientLeaves
  <2>2. ClientsTyped' /\ SocketsTyped' /\ bounds'.lost = bounds.lost BY <1>3, ClientTypes
  <2>3. FilesTyped' /\ MainTyped' /\ ChildTyped' /\ DeviceTyped'
    BY <1>1, <2>1
       DEF FilesTyped, MainTyped, ChildTyped, DeviceTyped, fileVars, mainVars, pdVars
  <2>4. UdpTyped' BY <1>1, <2>1, <2>2 DEF UdpTyped, udpVars
  <2> QED BY <2>2, <2>3, <2>4
<1>4. ASSUME NEW s \in Sessions, ChildStep(s)
      PROVE  /\ FilesTyped' /\ ClientsTyped' /\ SocketsTyped' /\ MainTyped' /\ ChildTyped'
             /\ DeviceTyped' /\ UdpTyped'
  <2>1. UNCHANGED <<clientVars, msg, mainVars>> BY <1>4, ChildLeaves
  <2>2. ClientsTyped' /\ MainTyped'
    BY <1>1, <2>1 DEF ClientsTyped, MainTyped, clientVars, mainVars
  <2> QED BY <1>4, <2>2, ChildTypes
<1>5. ASSUME NEW u \in Users, DeviceStep(u)
      PROVE  /\ FilesTyped' /\ ClientsTyped' /\ SocketsTyped' /\ MainTyped' /\ ChildTyped'
             /\ DeviceTyped' /\ UdpTyped'
  <2>1. UNCHANGED <<fileVars, clientVars, socketVars, mainVars, child, fop, raced>>
    BY <1>5, DeviceLeaves
  <2>2. FilesTyped' /\ ClientsTyped' /\ SocketsTyped' /\ MainTyped' /\ ChildTyped'
    BY <1>1, <2>1 DEF FilesTyped, ClientsTyped, SocketsTyped, MainTyped, ChildTyped,
                      fileVars, clientVars, socketVars, mainVars
  <2> QED BY <1>5, <2>2, DeviceTypes
<1>6. ASSUME NEW u \in Users, UdpStep(u)
      PROVE  /\ FilesTyped' /\ ClientsTyped' /\ SocketsTyped' /\ MainTyped' /\ ChildTyped'
             /\ DeviceTyped' /\ UdpTyped'
  <2>1. UNCHANGED <<clientVars, socketVars, mainVars, child, fop>> BY <1>6, UdpLeaves
  <2>2. ClientsTyped' /\ SocketsTyped' /\ MainTyped' /\ ChildTyped'
    BY <1>1, <2>1 DEF ClientsTyped, SocketsTyped, MainTyped, ChildTyped,
                      clientVars, socketVars, mainVars
  <2> QED BY <1>6, <2>2, UdpTypes
<1> QED BY <1>2, <1>3, <1>4, <1>5, <1>6, Steps

-----------------------------------------------------------------------------
\* One message of a session is on its way.

\* What changes nothing of the session, and at most displays another code.
LEMMA QuietMessage ==
  ASSUME NEW t \in Sessions, OneMessage(t), shown \subseteq shown',
         client'[t] = client[t], unread'[t] = unread[t], child'[t] = child[t],
         reply'[t] = reply[t], msg'[t] = msg[t], last'[t] = last[t]
  PROVE  OneMessage(t)'
BY DEF OneMessage, Sound

LEMMA SentMessage ==
  ASSUME IInv, NEW s \in Sessions, NEW m \in ClientMessage, Write(s, m), UNCHANGED shown,
         \A t \in Sessions \ {s} : last'[t] = last[t],
         m.type = "REQ" => m.request = last'[s],
         m.type = "AUT" => /\ last'[s] \in Request /\ m.rid = last'[s]
                           /\ m.code = Empty \/ (m.code \in shown /\ m.code.session = s)
  PROVE  MessageInv'
<1>1. ClientsTyped /\ SocketsTyped BY TypeParts DEF IInv
<1>2. OneMessage(s) BY DEF IInv, MessageInv
<1>3. /\ client[s] = "idle" /\ client' = [client EXCEPT ![s] = "waiting"]
      /\ msg' = [msg EXCEPT ![s] = m] /\ unread' = [unread EXCEPT ![s] = TRUE]
      /\ UNCHANGED <<reply, child>>
  BY DEF Write
<1>4. OneMessage(s)'
  <2>1. client'[s] = "waiting" /\ msg'[s] = m /\ unread'[s]
    BY <1>1, <1>3 DEF ClientsTyped, SocketsTyped
  <2>2. child'[s] = "none" /\ reply'[s] = "none" BY <1>2, <1>3 DEF OneMessage
  <2>3. Sound(s)' BY <2>1 DEF Sound
  <2> QED BY <2>1, <2>2, <2>3 DEF OneMessage
<1>5. ASSUME NEW t \in Sessions, t # s PROVE OneMessage(t)'
  <2>1. OneMessage(t) BY DEF IInv, MessageInv
  <2>2. client'[t] = client[t] /\ unread'[t] = unread[t] /\ msg'[t] = msg[t]
    BY <1>1, <1>3, <1>5 DEF ClientsTyped, SocketsTyped
  <2> QED BY <1>3, <1>5, <2>1, <2>2, QuietMessage
<1> QED BY <1>4, <1>5 DEF MessageInv

LEMMA ClientMessages ==
  ASSUME IInv, NEW s \in Sessions, ClientStep(s)
  PROVE  MessageInv'
<1>1. ClientsTyped /\ SocketsTyped /\ DeviceTyped BY TypeParts DEF IInv
<1>2. UNCHANGED <<child, shown>> BY ClientLeaves DEF pdVars
<1>3. Numbered(s) /\ OneMessage(s) BY DEF IInv, NumberInv, MessageInv
<1>4. ASSUME UNCHANGED <<msg, last, unread>>, \A t \in Sessions \ {s} : client'[t] = client[t] /\ reply'[t] = reply[t],
             OneMessage(s)'
      PROVE  MessageInv'
  <2> SUFFICES ASSUME NEW t \in Sessions, t # s PROVE OneMessage(t)' BY <1>4 DEF MessageInv
  <2>1. OneMessage(t) BY DEF IInv, MessageInv
  <2> QED BY <1>2, <1>4, <2>1, QuietMessage
<1>5. CASE Connect(s)
  <2>1. /\ client[s] = "new" /\ client' = [client EXCEPT ![s] = "idle"]
        /\ UNCHANGED <<msg, last, unread, reply>>
    BY <1>5 DEF Connect
  <2>2. client'[s] = "idle" /\ \A t \in Sessions \ {s} : client'[t] = client[t]
    BY <1>1, <2>1 DEF ClientsTyped
  <2>3. OneMessage(s)' BY <1>2, <1>3, <2>1, <2>2 DEF OneMessage, Sound
  <2> QED BY <1>4, <2>1, <2>2, <2>3
<1>6. CASE LogIn(s)
  <2>1. PICK right \in BOOLEAN : Write(s, [type |-> "LOG", rightPassword |-> right])
    BY <1>6 DEF LogIn
  <2> DEFINE m == [type |-> "LOG", rightPassword |-> right]
  <2>2. m \in ClientMessage /\ m.type = "LOG" BY MessageTypes
  <2>3. UNCHANGED last BY <1>6 DEF LogIn
  <2>4. Write(s, m) BY <2>1
  <2> HIDE DEF m
  <2> QED BY <1>2, <2>2, <2>3, <2>4, SentMessage
<1>7. CASE Req(s)
  <2>1. PICK op \in Operations :
          LET r == [session |-> s, number |-> sent[s] + 1, op |-> op]
          IN  /\ Write(s, [type |-> "REQ", request |-> r])
              /\ last' = [last EXCEPT ![s] = r]
    BY <1>7 DEF Req
  <2> DEFINE r == [session |-> s, number |-> sent[s] + 1, op |-> op]
             m == [type |-> "REQ", request |-> r]
  <2>2. Write(s, m) /\ last' = [last EXCEPT ![s] = r] BY <2>1
  <2>3. bounds.sent > 0 BY <2>2 DEF Write
  <2>4. r \in Request BY <1>1, <1>3, <2>3, NextRequest
  <2> HIDE DEF r
  <2>5. m \in ClientMessage /\ m.type = "REQ" /\ m.request = r BY <2>4, MessageTypes
  <2> HIDE DEF m
  <2>6. last'[s] = r /\ \A t \in Sessions \ {s} : last'[t] = last[t]
    BY <1>1, <2>2 DEF ClientsTyped
  <2> QED BY <1>2, <2>2, <2>5, <2>6, SentMessage
<1>8. CASE Val(s)
  <2>1. PICK code \in {r \in shown : r.session = s} \cup {Empty} :
          Write(s, [type |-> "AUT", rid |-> last[s], code |-> code])
    BY <1>8 DEF Val
  <2> DEFINE m == [type |-> "AUT", rid |-> last[s], code |-> code]
  <2>2. Write(s, m) BY <2>1
  <2>3. UNCHANGED last /\ phase[s] \in {2, 3} BY <1>8 DEF Val
  <2>4. last[s] \in Request
    <3>1. phase[s] \in Nat BY <1>1 DEF ClientsTyped
    <3> QED BY <1>3, <2>3, <3>1 DEF Numbered
  <2>5. code \in Request \cup {Empty} BY <1>1 DEF DeviceTyped
  <2>6. m \in ClientMessage /\ m.type = "AUT" /\ m.rid = last[s] /\ m.code = code
    BY <2>4, <2>5, MessageTypes
  <2> HIDE DEF m
  <2>7. code = Empty \/ (code \in shown /\ code.session = s) OBVIOUS
  <2> QED BY <1>2, <2>2, <2>3, <2>4, <2>6, <2>7, SentMessage
<1>9. CASE ReadReply(s)
  <2>1. /\ client[s] = "waiting" /\ reply[s] # "none"
        /\ client' = [client EXCEPT ![s] = "idle"] /\ reply' = [reply EXCEPT ![s] = "none"]
        /\ UNCHANGED <<msg, last, unread>>
    BY <1>9 DEF ReadReply
  <2>2. /\ client'[s] = "idle" /\ reply'[s] = "none"
        /\ \A t \in Sessions \ {s} : client'[t] = client[t] /\ reply'[t] = reply[t]
    BY <1>1, <2>1 DEF ClientsTyped, SocketsTyped
  <2>3. ~unread[s] /\ child[s] = "none" BY <1>3, <2>1 DEF OneMessage
  <2>4. OneMessage(s)' BY <1>2, <2>1, <2>2, <2>3 DEF OneMessage
  <2> QED BY <1>4, <2>1, <2>2, <2>4
<1>10. CASE Leave(s)
  <2>1. /\ client[s] = "idle" /\ client' = [client EXCEPT ![s] = "gone"]
        /\ UNCHANGED <<msg, last, unread, reply>>
    BY <1>10 DEF Leave, socketVars
  <2>2. client'[s] = "gone" /\ \A t \in Sessions \ {s} : client'[t] = client[t]
    BY <1>1, <2>1 DEF ClientsTyped
  <2>3. OneMessage(s)' BY <1>2, <1>3, <2>1, <2>2 DEF OneMessage, Sound
  <2> QED BY <1>4, <2>1, <2>2, <2>3
<1>11. CASE Interrupt(s)
  <2>1. /\ client[s] = "waiting" /\ client' = [client EXCEPT ![s] = "gone"]
        /\ reply' = [reply EXCEPT ![s] = "none"] /\ UNCHANGED <<msg, last, unread>>
    BY <1>11 DEF Interrupt
  <2>2. /\ client'[s] = "gone" /\ reply'[s] = "none"
        /\ \A t \in Sessions \ {s} : client'[t] = client[t] /\ reply'[t] = reply[t]
    BY <1>1, <2>1 DEF ClientsTyped, SocketsTyped
  <2>3. OneMessage(s)' BY <1>2, <1>3, <2>1, <2>2 DEF OneMessage, Sound
  <2> QED BY <1>4, <2>1, <2>2, <2>3
<1> QED BY <1>5, <1>6, <1>7, <1>8, <1>9, <1>10, <1>11 DEF ClientStep

LEMMA MainMessages ==
  ASSUME IInv, MainStep
  PROVE  MessageInv'
<1>1. SocketsTyped /\ ChildTyped BY TypeParts DEF IInv
<1>2. UNCHANGED <<client, last, msg, reply, shown>> BY MainLeaves DEF clientVars, pdVars
<1>3. ASSUME UNCHANGED <<unread, child>> PROVE MessageInv'
  BY <1>2, <1>3 DEF IInv, MessageInv, OneMessage, Sound
<1>4. CASE Select BY <1>3, <1>4 DEF Select, socketVars
<1>5. CASE ServeUdp BY <1>3, <1>5 DEF ServeUdp, socketVars
<1>6. CASE ServeListen BY <1>3, <1>6 DEF ServeListen
<1>7. CASE ServeListenFull BY <1>3, <1>7 DEF ServeListenFull, socketVars
<1>8. ASSUME NEW s \in Sessions, ServeMessage(s) PROVE MessageInv'
  <2>1. /\ unread[s] /\ unread' = [unread EXCEPT ![s] = FALSE]
        /\ child' = [child EXCEPT ![s] = msg[s].type]
    BY <1>8 DEF ServeMessage
  <2>2. OneMessage(s) BY DEF IInv, MessageInv
  <2>3. Sound(s) /\ reply[s] = "none" /\ client[s] \notin {"new", "idle"}
    BY <2>1, <2>2 DEF OneMessage
  <2>4. msg[s].type \in {"LOG", "REQ", "AUT"} BY <2>3, MessageFields DEF Sound
  <2>5. ~unread'[s] /\ child'[s] = msg[s].type BY <1>1, <2>1 DEF SocketsTyped, ChildTyped
  <2>6. Sound(s)' BY <1>2, <2>3 DEF Sound
  <2>7. Kind(child'[s]) = msg[s].type BY <2>4, <2>5 DEF Kind
  <2>8. OneMessage(s)' BY <1>2, <2>3, <2>5, <2>6, <2>7 DEF OneMessage
  <2>9. ASSUME NEW t \in Sessions, t # s PROVE OneMessage(t)'
    <3>1. OneMessage(t) BY DEF IInv, MessageInv
    <3>2. unread'[t] = unread[t] /\ child'[t] = child[t]
      BY <1>1, <2>1, <2>9 DEF SocketsTyped, ChildTyped
    <3> QED BY <1>2, <3>1, <3>2, QuietMessage
  <2> QED BY <2>8, <2>9 DEF MessageInv
<1>9. ASSUME NEW s \in Sessions, ServeEnd(s) \/ ServeReset(s) PROVE MessageInv'
  BY <1>3, <1>9 DEF ServeEnd, ServeReset, socketVars
<1> QED BY <1>4, <1>5, <1>6, <1>7, <1>8, <1>9 DEF MainStep

\* What a child does after what.
Follows(c, d) ==
  \/ c = "LOG" /\ d = "login"
  \/ c = "REQ" /\ d \in {"valid", "crashed"}
  \/ c = "valid" /\ d = "vc"
  \/ c = "vc" /\ d = "rid"
  \/ c = "rid" /\ d = "RVC"
  \/ c = "AUT" /\ d = "tid"

\* A step of a child ends it, with an answer or for a client that is gone, or
\* takes it to its next operation.
Moved(s) ==
  /\ child[s] \notin {"none", "crashed"}
  /\ \A t \in Sessions \ {s} : child'[t] = child[t] /\ reply'[t] = reply[t]
  /\ \/ child'[s] = "none" /\ (client[s] # "gone" \/ reply' = reply)
     \/ Follows(child[s], child'[s]) /\ reply' = reply

LEMMA ChildMoves ==
  ASSUME ChildTyped, SocketsTyped, NEW s \in Sessions, ChildStep(s)
  PROVE  Moved(s)
<1>1. ASSUME NEW r \in {"OK", "NOK", "ERR"}, Answer(s, r), child[s] \notin {"none", "crashed"}
      PROVE  Moved(s)
  BY <1>1 DEF Answer, ChildTyped, SocketsTyped, Moved
<1>2. ASSUME NEW d \in ChildStates, NoAnswer(s, d), Follows(child[s], d)
      PROVE  Moved(s)
  BY <1>2 DEF NoAnswer, Follows, ChildTyped, Moved
<1>3. CASE Log(s) BY <1>1, <1>2, <1>3 DEF Log, Follows
<1>4. CASE WriteLogin(s) BY <1>1, <1>4 DEF WriteLogin
<1>5. CASE ReadReg(s) BY <1>2, <1>5 DEF ReadReg, Follows
<1>6. CASE ValidRequest(s) BY <1>1, <1>2, <1>6 DEF ValidRequest, Follows
<1>7. CASE WriteVc(s) BY <1>2, <1>7 DEF WriteVc, Follows
<1>8. CASE WriteRid(s) BY <1>1, <1>2, <1>8 DEF WriteRid, Follows
<1>9. CASE ReceiveRvc(s) BY <1>1, <1>9 DEF ReceiveRvc
<1>10. CASE Authenticate(s) BY <1>1, <1>2, <1>10 DEF Authenticate, Follows
<1>11. CASE WriteTid(s) BY <1>1, <1>11 DEF WriteTid
<1> QED BY <1>3, <1>4, <1>5, <1>6, <1>7, <1>8, <1>9, <1>10, <1>11 DEF ChildStep

LEMMA ChildMessages ==
  ASSUME IInv, NEW s \in Sessions, ChildStep(s)
  PROVE  MessageInv'
<1>1. SocketsTyped /\ ChildTyped /\ ClientsTyped BY TypeParts DEF IInv
<1>2. UNCHANGED <<client, last, msg, unread, shown>> BY ChildLeaves DEF clientVars
<1>3. OneMessage(s) BY DEF IInv, MessageInv
<1>4. /\ child[s] \notin {"none", "crashed"}
      /\ \A t \in Sessions \ {s} : child'[t] = child[t] /\ reply'[t] = reply[t]
      /\ \/ child'[s] = "none" /\ (client[s] # "gone" \/ reply' = reply)
         \/ Follows(child[s], child'[s]) /\ reply' = reply
  BY <1>1, ChildMoves DEF Moved
<1>5. /\ Sound(s) /\ msg[s].type = Kind(child[s]) /\ ~unread[s] /\ reply[s] = "none"
      /\ client[s] \in {"waiting", "gone"}
  BY <1>1, <1>3, <1>4 DEF OneMessage, ClientsTyped
<1>6. Sound(s)' BY <1>2, <1>5 DEF Sound
<1>7. OneMessage(s)'
  <2>1. CASE child'[s] = "none" BY <1>2, <1>5, <1>6, <2>1 DEF OneMessage
  <2>2. CASE Follows(child[s], child'[s]) /\ reply' = reply
    <3>1. child'[s] # "crashed" => Kind(child'[s]) = Kind(child[s]) BY <2>2 DEF Follows, Kind
    <3>2. child'[s] # "none" BY <2>2 DEF Follows
    <3> QED BY <1>2, <1>5, <1>6, <2>2, <3>1, <3>2 DEF OneMessage
  <2> QED BY <1>4, <2>1, <2>2
<1>8. ASSUME NEW t \in Sessions, t # s PROVE OneMessage(t)'
  <2>1. OneMessage(t) BY DEF IInv, MessageInv
  <2> QED BY <1>2, <1>4, <1>8, <2>1, QuietMessage
<1> QED BY <1>7, <1>8 DEF MessageInv

LEMMA MessageStep ==
  ASSUME IInv, Next
  PROVE  MessageInv'
<1>1. ASSUME NEW u \in Users, DeviceStep(u) PROVE MessageInv'
  <2>1. UNCHANGED <<client, last, msg, unread, reply, child>>
    BY <1>1, DeviceLeaves DEF clientVars, socketVars
  <2>2. shown \subseteq shown'
    BY <1>1 DEF DeviceStep, PdStep, Register, Type, Exit, Registered, Validate, Timeout
  <2> QED BY <2>1, <2>2, QuietMessage DEF IInv, MessageInv
<1>2. ASSUME NEW u \in Users, UdpStep(u) PROVE MessageInv'
  <2>1. UNCHANGED <<client, last, msg, unread, reply, child, shown>>
    BY <1>2, UdpLeaves DEF clientVars, socketVars
  <2> QED BY <2>1, QuietMessage DEF IInv, MessageInv
<1> QED BY <1>1, <1>2, ClientMessages, MainMessages, ChildMessages, Steps

-----------------------------------------------------------------------------
\* Request numbers.

\* A message goes out: its session has sent one more, and its last request may
\* be new.
LEMMA SentNumbers ==
  ASSUME IInv, NEW s \in Sessions, NEW m \in ClientMessage, Write(s, m), UNCHANGED <<phase, rid>>,
         \A t \in Sessions \ {s} : last'[t] = last[t],
         last'[s] = last[s] \/ (last'[s] \in Request /\ last'[s].session = s /\ last'[s].number = sent[s] + 1),
         phase[s] >= 1 => last'[s] \in Request
  PROVE  NumberInv'
<1>1. FilesTyped /\ ClientsTyped /\ SocketsTyped BY TypeParts DEF IInv
<1>2. Numbered(s) BY DEF IInv, NumberInv
<1>3. bounds'.sent = bounds.sent - 1 BY <1>1, SendTypes
<1>4. bounds.sent \in Nat /\ sent \in [Sessions -> Nat] /\ phase \in [Sessions -> Nat]
  BY <1>1 DEF ClientsTyped
<1>5. /\ sent' = [sent EXCEPT ![s] = @ + 1] /\ client' = [client EXCEPT ![s] = "waiting"]
      /\ bounds.sent > 0
  BY DEF Write
<1>6. sent'[s] = sent[s] + 1 /\ \A t \in Sessions \ {s} : sent'[t] = sent[t] BY <1>4, <1>5
<1>7. Numbered(s)'
  <2>1. sent'[s] + bounds'.sent <= MaxSent BY <1>2, <1>3, <1>4, <1>6 DEF Numbered
  <2>2. last'[s] = Zero \/ (last'[s].session = s /\ last'[s].number <= sent'[s])
    <3>1. CASE last'[s] = last[s]
      <4>1. last[s] = Zero \/ (last[s].session = s /\ last[s].number <= sent[s]) BY <1>2 DEF Numbered
      <4>2. last[s] = Zero \/ last[s].number \in Nat BY <1>1, RequestFields DEF ClientsTyped
      <4> QED BY <1>4, <1>6, <3>1, <4>1, <4>2
    <3>2. CASE last'[s] \in Request /\ last'[s].session = s /\ last'[s].number = sent[s] + 1
      BY <1>4, <1>6, <3>2
    <3> QED BY <3>1, <3>2
  <2>3. phase'[s] >= 2 \/ phase'[s] = 1 => last'[s] \in Request BY <1>4
  <2> QED BY <2>1, <2>2, <2>3 DEF Numbered
<1>8. ASSUME NEW t \in Sessions, t # s PROVE Numbered(t)'
  <2>1. Numbered(t) BY DEF IInv, NumberInv
  <2>2. client'[t] = client[t] BY <1>1, <1>5, <1>8 DEF ClientsTyped
  <2>3. sent'[t] + bounds'.sent <= MaxSent
    BY <1>3, <1>4, <1>6, <1>8, <2>1 DEF Numbered
  <2>4. sent'[t] = sent[t] /\ last'[t] = last[t] BY <1>6, <1>8
  <2> QED BY <2>1, <2>2, <2>3, <2>4 DEF Numbered
<1>9. ASSUME NEW u \in Users, rid[u] \in Request PROVE rid[u].number <= sent'[rid[u].session]
  <2>1. rid[u].number <= sent[rid[u].session] BY <1>9 DEF IInv, NumberInv
  <2>2. rid[u].number \in Nat /\ rid[u].session \in Sessions BY <1>9, RequestFields
  <2>3. sent'[rid[u].session] = sent[rid[u].session] \/ sent'[rid[u].session] = sent[rid[u].session] + 1
    BY <1>6, <2>2
  <2>4. sent[rid[u].session] \in Nat BY <1>4, <2>2
  <2> QED BY <2>1, <2>2, <2>3, <2>4
<1> QED BY <1>7, <1>8, <1>9 DEF NumberInv

LEMMA ClientNumbers ==
  ASSUME IInv, NEW s \in Sessions, ClientStep(s)
  PROVE  NumberInv'
<1>1. ClientsTyped /\ SocketsTyped /\ DeviceTyped BY TypeParts DEF IInv
<1>2. UNCHANGED <<rid, shown>> BY ClientLeaves DEF fileVars, pdVars
<1>3. Numbered(s) BY DEF IInv, NumberInv
<1>4. phase \in [Sessions -> 0 .. 3] BY <1>1 DEF ClientsTyped
<1>5. ASSUME UNCHANGED <<bounds, sent, last>>, Numbered(s)',
             \A t \in Sessions \ {s} : client'[t] = client[t] /\ phase'[t] = phase[t]
      PROVE  NumberInv'
  BY <1>2, <1>5 DEF IInv, NumberInv, Numbered
<1>6. CASE Connect(s)
  <2>1. /\ client' = [client EXCEPT ![s] = "idle"] /\ UNCHANGED <<bounds, sent, last, phase>>
    BY <1>6 DEF Connect
  <2>2. client'[s] = "idle" /\ \A t \in Sessions \ {s} : client'[t] = client[t]
    BY <1>1, <2>1 DEF ClientsTyped
  <2>3. Numbered(s)' BY <1>3, <2>1, <2>2 DEF Numbered
  <2> QED BY <1>5, <2>1, <2>2, <2>3
<1>7. CASE LogIn(s)
  <2>1. PICK right \in BOOLEAN : Write(s, [type |-> "LOG", rightPassword |-> right])
    BY <1>7 DEF LogIn
  <2> DEFINE m == [type |-> "LOG", rightPassword |-> right]
  <2>2. m \in ClientMessage BY MessageTypes
  <2>3. UNCHANGED last /\ phase[s] = 0 BY <1>7 DEF LogIn
  <2>4. Write(s, m) BY <2>1
  <2> HIDE DEF m
  <2>5. UNCHANGED phase BY <2>4 DEF Write
  <2> QED BY <1>2, <2>2, <2>3, <2>4, <2>5, SentNumbers
<1>8. CASE Req(s)
  <2>1. PICK op \in Operations :
          LET r == [session |-> s, number |-> sent[s] + 1, op |-> op]
          IN  /\ Write(s, [type |-> "REQ", request |-> r])
              /\ last' = [last EXCEPT ![s] = r]
    BY <1>8 DEF Req
  <2> DEFINE r == [session |-> s, number |-> sent[s] + 1, op |-> op]
             m == [type |-> "REQ", request |-> r]
  <2>2. Write(s, m) /\ last' = [last EXCEPT ![s] = r] BY <2>1
  <2>3. bounds.sent > 0 BY <2>2 DEF Write
  <2>4. r \in Request /\ r.session = s /\ r.number = sent[s] + 1 BY <1>1, <1>3, <2>3, NextRequest
  <2> HIDE DEF r
  <2>5. m \in ClientMessage BY <2>4, MessageTypes
  <2> HIDE DEF m
  <2>6. last'[s] = r /\ \A t \in Sessions \ {s} : last'[t] = last[t]
    BY <1>1, <2>2 DEF ClientsTyped
  <2>7. UNCHANGED phase BY <2>2 DEF Write
  <2> QED BY <1>2, <2>2, <2>4, <2>5, <2>6, <2>7, SentNumbers
<1>9. CASE Val(s)
  <2>1. PICK code \in {r \in shown : r.session = s} \cup {Empty} :
          Write(s, [type |-> "AUT", rid |-> last[s], code |-> code])
    BY <1>9 DEF Val
  <2> DEFINE m == [type |-> "AUT", rid |-> last[s], code |-> code]
  <2>2. Write(s, m) BY <2>1
  <2>3. UNCHANGED last /\ phase[s] \in {2, 3} BY <1>9 DEF Val
  <2>4. last[s] \in Request BY <1>3, <1>4, <2>3 DEF Numbered
  <2>5. code \in Request \cup {Empty} BY <1>1 DEF DeviceTyped
  <2>6. m \in ClientMessage BY <2>4, <2>5, MessageTypes
  <2> HIDE DEF m
  <2>7. UNCHANGED phase BY <2>2 DEF Write
  <2> QED BY <1>2, <2>2, <2>3, <2>4, <2>6, <2>7, SentNumbers
<1>10. CASE ReadReply(s)
  <2>1. /\ client[s] = "waiting" /\ client' = [client EXCEPT ![s] = "idle"]
        /\ UNCHANGED <<bounds, sent, last>>
    BY <1>10 DEF ReadReply
  <2>2. client'[s] = "idle" /\ \A t \in Sessions \ {s} : client'[t] = client[t]
    BY <1>1, <2>1 DEF ClientsTyped
  <2>3. \A t \in Sessions \ {s} : phase'[t] = phase[t]
    BY <1>4, <1>10 DEF ReadReply
  <2>4. phase'[s] = phase[s] \/ (phase[s] = 0 /\ phase'[s] = 1) \/ (phase[s] > 0 /\ phase'[s] = phase[s] + 1)
    BY <1>4, <1>10 DEF ReadReply
  <2>5. Numbered(s)' BY <1>3, <1>4, <2>1, <2>2, <2>4 DEF Numbered
  <2> QED BY <1>5, <2>1, <2>2, <2>3, <2>5
<1>11. CASE Leave(s) \/ Interrupt(s)
  <2>1. client' = [client EXCEPT ![s] = "gone"] /\ UNCHANGED <<bounds, sent, last, phase>>
    BY <1>11 DEF Leave, Interrupt
  <2>2. client'[s] = "gone" /\ \A t \in Sessions \ {s} : client'[t] = client[t]
    BY <1>1, <2>1 DEF ClientsTyped
  <2>3. Numbered(s)' BY <1>3, <2>1, <2>2 DEF Numbered
  <2> QED BY <1>5, <2>1, <2>2, <2>3
<1> QED BY <1>6, <1>7, <1>8, <1>9, <1>10, <1>11 DEF ClientStep

\* Only a child, and the processes that register users, write the numbers.
LEMMA ChildNumbers ==
  ASSUME IInv, NEW s \in Sessions, ChildStep(s)
  PROVE  NumberInv'
<1>1. FilesTyped /\ ClientsTyped BY TypeParts DEF IInv
<1>2. UNCHANGED clientVars BY ChildLeaves
<1>3. \A t \in Sessions : Numbered(t)'
  BY <1>2 DEF IInv, NumberInv, Numbered, clientVars
<1>4. CASE UNCHANGED rid BY <1>2, <1>3, <1>4 DEF IInv, NumberInv, clientVars
<1>5. CASE WriteRid(s)
  <2> DEFINE r == msg[s].request
  <2>1. /\ child[s] = "rid"
        /\ rid' = [rid EXCEPT ![user[s]] = r] \/ rid' = [rid EXCEPT ![user[s]] = Empty]
    BY <1>5 DEF WriteRid
  <2>2. r \in Request /\ r = last[s] /\ r.session = s BY <2>1, RequestOfChild
  <2> HIDE DEF r
  <2>3. Numbered(s) BY DEF IInv, NumberInv
  <2>4. r.number <= sent[s] BY <2>2, <2>3 DEF Numbered
  <2>5. ASSUME NEW u \in Users, rid'[u] \in Request PROVE rid'[u].number <= sent'[rid'[u].session]
    <3>1. CASE rid'[u] = rid[u] BY <1>2, <2>5, <3>1 DEF IInv, NumberInv, clientVars
    <3>2. CASE rid'[u] = r BY <1>2, <2>2, <2>4, <3>2 DEF clientVars
    <3>3. rid'[u] # Empty BY <2>5, RequestFields
    <3> QED BY <1>1, <2>1, <3>1, <3>2, <3>3 DEF FilesTyped
  <2> QED BY <1>3, <2>5 DEF NumberInv
<1> QED BY <1>4, <1>5
        DEF ChildStep, Log, WriteLogin, ReadReg, ValidRequest, WriteVc, ReceiveRvc, Authenticate, WriteTid

LEMMA NumberStep ==
  ASSUME IInv, Next
  PROVE  NumberInv'
<1>1. CASE MainStep
  BY <1>1, MainLeaves DEF IInv, NumberInv, Numbered, clientVars, fileVars
<1>2. ASSUME NEW u \in Users, DeviceStep(u) PROVE NumberInv'
  BY <1>2, DeviceLeaves DEF IInv, NumberInv, Numbered, clientVars, fileVars
<1>3. ASSUME NEW u \in Users, UdpStep(u) PROVE NumberInv'
  <2>1. FilesTyped BY TypeParts DEF IInv
  <2>2. UNCHANGED clientVars BY <1>3, UdpLeaves
  <2>3. rid' = rid \/ rid' = [rid EXCEPT ![u] = Zero] \/ rid' = [rid EXCEPT ![u] = NoFile]
    BY <1>3 DEF UdpStep, WritePass, WriteFiles, FindPass, RemoveFiles, fileVars
  <2>4. \A x \in Users : rid'[x] \in Request => rid'[x] = rid[x]
    BY <2>1, <2>3, RequestFields DEF FilesTyped
  <2> QED BY <2>2, <2>4 DEF IInv, NumberInv, Numbered, clientVars
<1> QED BY <1>1, <1>2, <1>3, ClientNumbers, ChildNumbers, Steps

-----------------------------------------------------------------------------
\* Codes and TIDs.

\* Only a session without a child sends, and its new request has a new number.
LEMMA ClientAsks ==
  ASSUME IInv, NEW s \in Sessions, ClientStep(s), NEW t \in Sessions
  PROVE  /\ child[t] # "none" => last'[t] = last[t] /\ msg'[t] = msg[t]
         /\ \/ last'[t] = last[t]
            \/ /\ last'[t] \in Request /\ last'[t].session = t
               /\ last'[t].number = sent[t] + 1
<1>1. ClientsTyped BY TypeParts DEF IInv
<1>2. Numbered(s) /\ OneMessage(s) BY DEF IInv, NumberInv, MessageInv
<1>3. ASSUME NEW m, Write(s, m), last'[t] = last[t]
      PROVE  child[t] # "none" => last'[t] = last[t] /\ msg'[t] = msg[t]
  BY <1>1, <1>2, <1>3 DEF Write, OneMessage, ClientsTyped
<1>4. CASE Req(s)
  <2>1. PICK op \in Operations :
          LET r == [session |-> s, number |-> sent[s] + 1, op |-> op]
          IN  /\ Write(s, [type |-> "REQ", request |-> r])
              /\ last' = [last EXCEPT ![s] = r]
    BY <1>4 DEF Req
  <2> DEFINE r == [session |-> s, number |-> sent[s] + 1, op |-> op]
             m == [type |-> "REQ", request |-> r]
  <2>2. Write(s, m) /\ last' = [last EXCEPT ![s] = r] BY <2>1
  <2>3. bounds.sent > 0 /\ client[s] = "idle" BY <2>2 DEF Write
  <2>4. r \in Request /\ r.session = s /\ r.number = sent[s] + 1 BY <1>1, <1>2, <2>3, NextRequest
  <2>5. child[s] = "none" BY <1>2, <2>3 DEF OneMessage
  <2> HIDE DEF m, r
  <2>6. CASE t = s BY <1>1, <2>2, <2>4, <2>5, <2>6 DEF ClientsTyped
  <2>7. CASE t # s
    <3>1. last'[t] = last[t] BY <1>1, <2>2, <2>7 DEF ClientsTyped
    <3> QED BY <1>3, <2>2, <3>1
  <2> QED BY <2>6, <2>7
<1>5. CASE LogIn(s) BY <1>3, <1>5 DEF LogIn
<1>6. CASE Val(s) BY <1>3, <1>6 DEF Val
<1> QED BY <1>4, <1>5, <1>6 DEF ClientStep, Connect, ReadReply, Leave, Interrupt, socketVars

LEMMA CodeStep ==
  ASSUME IInv, Next
  PROVE  CodeInv'
<1>1. FilesTyped /\ ClientsTyped /\ ChildTyped /\ SocketsTyped BY TypeParts DEF IInv
<1> SUFFICES ASSUME NEW t \in Sessions, vc'[user'[t]] \in Request, vc'[user'[t]].session = t,
                    child'[t] = "rid" \/ rid'[user'[t]] = last'[t]
             PROVE  vc'[user'[t]] = last'[t]
  BY DEF CodeInv
<1>2. user[t] \in Users BY <1>1 DEF ClientsTyped
<1>3. ASSUME vc'[user'[t]] = vc[user[t]], last'[t] = last[t],
             child'[t] = "rid" => child[t] = "rid",
             rid'[user'[t]] = last'[t] => rid[user[t]] = last[t]
      PROVE  vc'[user'[t]] = last'[t]
  BY <1>3 DEF IInv, CodeInv
<1>4. CASE MainStep
  <2>1. UNCHANGED <<vc, rid, user, last>> BY <1>4, MainLeaves DEF fileVars, clientVars
  <2>2. child'[t] = "rid" => child[t] = "rid"
    <3>1. CASE UNCHANGED child BY <3>1
    <3>2. ASSUME NEW s \in Sessions, ServeMessage(s) PROVE child'[t] = "rid" => child[t] = "rid"
      <4>1. unread[s] /\ child' = [child EXCEPT ![s] = msg[s].type] BY <3>2 DEF ServeMessage
      <4>2. msg[s] \in ClientMessage BY <4>1 DEF IInv, MessageInv, OneMessage, Sound
      <4> QED BY <1>1, <4>1, <4>2, MessageFields DEF ChildTyped
    <3> QED BY <1>4, <3>1, <3>2
            DEF MainStep, Select, ServeUdp, ServeListen, ServeListenFull, ServeEnd, ServeReset
  <2> QED BY <1>3, <2>1, <2>2
<1>5. ASSUME NEW s \in Sessions, ClientStep(s) PROVE vc'[user'[t]] = last'[t]
  <2>1. UNCHANGED <<vc, rid, user, child>> BY <1>5, ClientLeaves DEF fileVars
  <2>2. CASE last'[t] = last[t] BY <1>3, <2>1, <2>2
  <2>3. CASE last'[t] # last[t]
    <3>1. /\ last'[t] \in Request /\ last'[t].session = t /\ last'[t].number = sent[t] + 1
          /\ child[t] = "none"
      BY <1>5, <2>3, ClientAsks
    <3>2. rid[user[t]] = last'[t] BY <2>1, <3>1
    <3>3. sent[t] + 1 <= sent[t] BY <1>2, <3>1, <3>2 DEF IInv, NumberInv
    <3>4. sent[t] \in Nat BY <1>1 DEF ClientsTyped
    <3> QED BY <3>3, <3>4
  <2> QED BY <2>2, <2>3
<1>6. ASSUME NEW s \in Sessions, ChildStep(s) PROVE vc'[user'[t]] = last'[t]
  <2>1. UNCHANGED <<user, last, msg>> BY <1>6, ChildLeaves DEF clientVars
  <2>2. user[s] \in Users BY <1>1 DEF ClientsTyped
  <2>3. Moved(s) BY <1>1, <1>6, ChildMoves
  <2>4. CASE WriteVc(s)
    <3>1. /\ child[s] = "vc" /\ vc' = [vc EXCEPT ![user[s]] = msg[s].request] /\ UNCHANGED rid
      BY <2>4 DEF WriteVc
    <3>2. msg[s].request = last[s] /\ last[s].session = s BY <3>1, RequestOfChild
    <3>3. CASE t = s BY <1>1, <2>1, <2>2, <3>1, <3>2, <3>3 DEF FilesTyped
    <3>4. CASE t # s
      <4>1. child'[t] = child[t] BY <2>3, <3>4 DEF Moved
      <4>2. user[t] # user[s]
        <5>1. user[t] = user[s] => vc'[user[t]] = last[s] BY <1>1, <2>2, <3>1, <3>2 DEF FilesTyped
        <5> QED BY <2>1, <3>2, <3>4, <5>1
      <4>3. vc'[user[t]] = vc[user[t]] BY <1>1, <1>2, <2>2, <3>1, <4>2 DEF FilesTyped
      <4> QED BY <1>3, <2>1, <3>1, <4>1, <4>3
    <3> QED BY <3>3, <3>4
  <2>5. CASE WriteRid(s)
    <3> DEFINE r == msg[s].request
    <3>1. /\ child[s] = "rid" /\ UNCHANGED vc
          /\ rid' = [rid EXCEPT ![user[s]] = r] \/ rid' = [rid EXCEPT ![user[s]] = Empty]
      BY <2>5 DEF WriteRid
    <3>2. r \in Request /\ r = last[s] /\ last[s].session = s BY <3>1, RequestOfChild
    <3> HIDE DEF r
    <3>3. CASE t = s BY <1>2, <2>1, <3>1, <3>3 DEF IInv, CodeInv
    <3>4. CASE t # s
      <4>1. child'[t] = child[t] BY <2>3, <3>4 DEF Moved
      <4>2. last[t] = Zero \/ last[t].session = t BY DEF IInv, NumberInv, Numbered
      <4>3. last[t] # r BY <3>2, <3>4, <4>2, RequestFields
      <4>4. last[t] # Empty
        <5>1. last[t] \in Request \cup {Zero} BY <1>1 DEF ClientsTyped
        <5> QED BY <5>1, RequestFields
      <4>5. rid'[user[t]] = last[t] => rid[user[t]] = last[t]
        BY <1>1, <1>2, <2>2, <3>1, <4>3, <4>4 DEF FilesTyped
      <4> QED BY <1>3, <2>1, <3>1, <4>1, <4>5
    <3> QED BY <3>3, <3>4
  <2>6. CASE ~WriteVc(s) /\ ~WriteRid(s)
    <3>1. UNCHANGED <<vc, rid>>
      BY <1>6, <2>6 DEF ChildStep, Log, WriteLogin, ReadReg, ValidRequest, ReceiveRvc, Authenticate, WriteTid
    <3>2. child'[t] = "rid" => child[t] = "rid"
      <4>1. CASE t # s BY <2>3, <4>1 DEF Moved
      <4>2. CASE t = s
        <5>1. child[s] = "vc" => WriteVc(s)
          BY <1>6 DEF ChildStep, Log, WriteLogin, ReadReg, ValidRequest, WriteVc, WriteRid,
                      ReceiveRvc, Authenticate, WriteTid
        <5> QED BY <2>3, <2>6, <4>2, <5>1 DEF Moved, Follows
      <4> QED BY <4>1, <4>2
    <3> QED BY <1>3, <2>1, <3>1, <3>2
  <2> QED BY <2>4, <2>5, <2>6
<1>7. ASSUME NEW u \in Users, DeviceStep(u) PROVE vc'[user'[t]] = last'[t]
  <2>1. UNCHANGED <<vc, rid, user, last, child>> BY <1>7, DeviceLeaves DEF fileVars, clientVars
  <2> QED BY <1>3, <2>1
<1>8. ASSUME NEW u \in Users, UdpStep(u) PROVE vc'[user'[t]] = last'[t]
  <2>1. UNCHANGED <<user, last, child>> BY <1>8, UdpLeaves DEF clientVars
  <2>2. \/ UNCHANGED <<vc, rid>>
        \/ vc' = [vc EXCEPT ![u] = Zero] /\ rid' = [rid EXCEPT ![u] = Zero]
        \/ vc' = [vc EXCEPT ![u] = NoFile] /\ rid' = [rid EXCEPT ![u] = NoFile]
    BY <1>8 DEF UdpStep, WritePass, WriteFiles, FindPass, RemoveFiles, fileVars
  <2>3. CASE UNCHANGED <<vc, rid>> BY <1>3, <2>1, <2>3
  <2>4. CASE \/ vc' = [vc EXCEPT ![u] = Zero] /\ rid' = [rid EXCEPT ![u] = Zero]
             \/ vc' = [vc EXCEPT ![u] = NoFile] /\ rid' = [rid EXCEPT ![u] = NoFile]
    <3>1. user[t] # u
      <4>1. user[t] = u => vc'[user[t]] \in {Zero, NoFile} BY <1>1, <2>4 DEF FilesTyped
      <4>2. vc'[user[t]] \in Request BY <2>1
      <4> QED BY <4>1, <4>2, RequestFields
    <3>2. vc'[user[t]] = vc[user[t]] /\ rid'[user[t]] = rid[user[t]]
      BY <1>1, <1>2, <2>4, <3>1 DEF FilesTyped
    <3> QED BY <1>3, <2>1, <3>2
  <2> QED BY <2>2, <2>3, <2>4
<1> QED BY <1>4, <1>5, <1>6, <1>7, <1>8, Steps

\* What a successful comparison of code and number shows.
LEMMA RightRequest ==
  ASSUME IInv, NEW s \in Sessions, child[s] = "AUT", SameCode(s), TRUE \in SameNumber(s)
  PROVE  \/ rid[user[s]] = Empty
         \/ rid[user[s]] = last[s] /\ last[s] = msg[s].code /\ last[s] \in shown
<1>1. FilesTyped /\ ClientsTyped /\ DeviceTyped BY TypeParts DEF IInv
<1>2. user[s] \in Users BY <1>1 DEF ClientsTyped
<1>3. msg[s] \in ClientMessage /\ msg[s].type = "AUT" BY ChildMessage DEF Kind
<1>4. /\ last[s] \in Request /\ msg[s].rid = last[s]
      /\ msg[s].code = Empty \/ (msg[s].code \in shown /\ msg[s].code.session = s)
  BY <1>3 DEF IInv, MessageInv, OneMessage, Sound
<1>5. vc[user[s]] = msg[s].code BY DEF SameCode
<1>6. msg[s].code # Empty
  <2>1. vc[user[s]] \in Request \cup {NoFile, Zero} BY <1>1, <1>2 DEF FilesTyped
  <2> QED BY <1>5, <2>1, RequestFields
<1>7. msg[s].code \in shown /\ msg[s].code.session = s /\ msg[s].code \in Request
  BY <1>1, <1>4, <1>6 DEF DeviceTyped
<1>8. CASE rid[user[s]] # Empty
  <2>1. rid[user[s]] = last[s] BY <1>4, <1>8 DEF SameNumber
  <2>2. vc[user[s]] = last[s] BY <1>5, <1>7, <2>1 DEF IInv, CodeInv
  <2> QED BY <1>5, <1>7, <2>1, <2>2
<1> QED BY <1>8

LEMMA TidStep ==
  ASSUME IInv, Next
  PROVE  TidInv'
<1>1. FilesTyped /\ ClientsTyped /\ ChildTyped /\ SocketsTyped BY TypeParts DEF IInv
<1> SUFFICES ASSUME NEW t \in Sessions, child'[t] = "tid"
             PROVE  \/ fop'[t] = Empty
                    \/ fop'[t] = last'[t] /\ last'[t] = msg'[t].code /\ last'[t] \in shown'
  BY DEF TidInv
<1>2. ASSUME child[t] = "tid", fop'[t] = fop[t], last'[t] = last[t], msg'[t] = msg[t],
             shown \subseteq shown'
      PROVE  \/ fop'[t] = Empty
             \/ fop'[t] = last'[t] /\ last'[t] = msg'[t].code /\ last'[t] \in shown'
  BY <1>2 DEF IInv, TidInv
<1>3. CASE MainStep
  <2>1. UNCHANGED <<fop, last, msg, shown>> BY <1>3, MainLeaves DEF clientVars, pdVars
  <2>2. child[t] = "tid"
    <3>1. CASE UNCHANGED child BY <3>1
    <3>2. ASSUME NEW s \in Sessions, ServeMessage(s) PROVE child[t] = "tid"
      <4>1. unread[s] /\ child' = [child EXCEPT ![s] = msg[s].type] BY <3>2 DEF ServeMessage
      <4>2. msg[s] \in ClientMessage BY <4>1 DEF IInv, MessageInv, OneMessage, Sound
      <4> QED BY <1>1, <4>1, <4>2, MessageFields DEF ChildTyped
    <3> QED BY <1>3, <3>1, <3>2
            DEF MainStep, Select, ServeUdp, ServeListen, ServeListenFull, ServeEnd, ServeReset
  <2> QED BY <1>2, <2>1, <2>2
<1>4. ASSUME NEW s \in Sessions, ClientStep(s)
      PROVE  \/ fop'[t] = Empty
             \/ fop'[t] = last'[t] /\ last'[t] = msg'[t].code /\ last'[t] \in shown'
  <2>1. UNCHANGED <<child, fop, shown>> BY <1>4, ClientLeaves DEF pdVars
  <2>2. last'[t] = last[t] /\ msg'[t] = msg[t] BY <1>4, <2>1, ClientAsks
  <2> QED BY <1>2, <2>1, <2>2
<1>5. ASSUME NEW s \in Sessions, ChildStep(s)
      PROVE  \/ fop'[t] = Empty
             \/ fop'[t] = last'[t] /\ last'[t] = msg'[t].code /\ last'[t] \in shown'
  <2>1. UNCHANGED <<last, msg, shown>> BY <1>5, ChildLeaves DEF clientVars
  <2>2. Moved(s) BY <1>1, <1>5, ChildMoves
  <2>3. UNCHANGED fop \/ Authenticate(s)
    BY <1>5 DEF ChildStep, Log, WriteLogin, ReadReg, ValidRequest, WriteVc, WriteRid, ReceiveRvc, WriteTid
  <2>4. CASE t # s
    <3>1. child[t] = "tid" BY <2>2, <2>4 DEF Moved
    <3>2. fop'[t] = fop[t] BY <1>1, <2>3, <2>4 DEF Authenticate, ChildTyped
    <3> QED BY <1>2, <2>1, <3>1, <3>2
  <2>5. CASE t = s
    <3>1. child[s] = "AUT" BY <2>2, <2>5 DEF Moved, Follows
    <3>2. Authenticate(s)
      BY <1>5, <3>1 DEF ChildStep, Log, WriteLogin, ReadReg, ValidRequest, WriteVc, WriteRid,
                        ReceiveRvc, WriteTid
    <3>3. PICK same \in SameNumber(s) :
            IF pass[user[s]] /\ SameCode(s) /\ same
            THEN NoAnswer(s, "tid") /\ fop' = [fop EXCEPT ![s] = rid[user[s]]]
            ELSE Answer(s, "NOK") /\ UNCHANGED fop
      BY <3>2 DEF Authenticate
    <3>4. ~Answer(s, "NOK") BY <1>1, <2>5 DEF Answer, ChildTyped
    <3>5. SameCode(s) /\ same /\ fop' = [fop EXCEPT ![s] = rid[user[s]]] BY <3>3, <3>4
    <3>6. same \in BOOLEAN BY <3>3 DEF SameNumber
    <3>7. TRUE \in SameNumber(s) BY <3>3, <3>5, <3>6
    <3>8. fop'[s] = rid[user[s]] BY <1>1, <3>5 DEF ChildTyped
    <3> QED BY <2>1, <2>5, <3>1, <3>5, <3>7, <3>8, RightRequest
  <2> QED BY <2>4, <2>5
<1>6. ASSUME NEW u \in Users, DeviceStep(u)
      PROVE  \/ fop'[t] = Empty
             \/ fop'[t] = last'[t] /\ last'[t] = msg'[t].code /\ last'[t] \in shown'
  <2>1. UNCHANGED <<child, fop, last, msg>> BY <1>6, DeviceLeaves DEF clientVars, socketVars
  <2>2. shown \subseteq shown'
    BY <1>6 DEF DeviceStep, PdStep, Register, Type, Exit, Registered, Validate, Timeout
  <2> QED BY <1>2, <2>1, <2>2
<1>7. ASSUME NEW u \in Users, UdpStep(u)
      PROVE  \/ fop'[t] = Empty
             \/ fop'[t] = last'[t] /\ last'[t] = msg'[t].code /\ last'[t] \in shown'
  <2>1. UNCHANGED <<child, fop, last, msg, shown>>
    BY <1>7, UdpLeaves DEF clientVars, socketVars
  <2> QED BY <1>2, <2>1
<1> QED BY <1>3, <1>4, <1>5, <1>6, <1>7, Steps

-----------------------------------------------------------------------------
\* What stays of a user.

LEMMA LeftStep ==
  ASSUME IInv, Next
  PROVE  PassInv' /\ LeftInv'
<1>1. FilesTyped /\ ClientsTyped /\ ChildTyped /\ UdpTyped BY TypeParts DEF IInv
<1>2. user \in [Sessions -> Users] BY <1>1 DEF ClientsTyped
<1>3. CASE MainStep
  <2>1. UNCHANGED <<pass, reg, login, vc, rid, tid, user, raced>>
    BY <1>3, MainLeaves DEF fileVars, clientVars
  <2>2. LeftInv' BY <2>1 DEF IInv, LeftInv
  <2>3. \A t \in Sessions : child'[t] \in {"login", "vc", "rid", "tid"} => child'[t] = child[t]
    <3>1. CASE UNCHANGED child BY <3>1
    <3>2. ASSUME NEW s \in Sessions, ServeMessage(s), NEW t \in Sessions,
                 child'[t] \in {"login", "vc", "rid", "tid"}
          PROVE  child'[t] = child[t]
      <4>1. unread[s] /\ child' = [child EXCEPT ![s] = msg[s].type] BY <3>2 DEF ServeMessage
      <4>2. msg[s] \in ClientMessage BY <4>1 DEF IInv, MessageInv, OneMessage, Sound
      <4> QED BY <1>1, <3>2, <4>1, <4>2, MessageFields DEF ChildTyped
    <3> QED BY <1>3, <3>1, <3>2
            DEF MainStep, Select, ServeUdp, ServeListen, ServeListenFull, ServeEnd, ServeReset
  <2>4. \A u \in Users : udpChild'[u] = "files" => udpChild[u] = "files"
    <3>1. CASE UNCHANGED udpChild BY <3>1
    <3>2. CASE ServeUdp
      <4>1. /\ udp # <<>>
            /\ udpChild' = [udpChild EXCEPT ![Head(udp).user] = Head(udp).type]
        BY <3>2 DEF ServeUdp
      <4> DEFINE Datagrams == [type : {"REG", "UNR"}, user : Users, from : 1 .. MaxStarts]
      <4>2. udp \in Seq(Datagrams) BY <1>1 DEF UdpTyped
      <4> HIDE DEF Datagrams
      <4>3. Head(udp) \in Datagrams BY <4>1, <4>2, HeadTailProperties
      <4>4. Head(udp).type # "files" BY <4>3 DEF Datagrams
      <4> QED BY <1>1, <4>1, <4>4 DEF UdpTyped
    <3> QED BY <1>3, <3>1, <3>2
            DEF MainStep, Select, ServeListen, ServeListenFull, ServeMessage, ServeEnd, ServeReset,
                udpVars
  <2> QED BY <2>1, <2>2, <2>3, <2>4 DEF IInv, PassInv
<1>4. ASSUME NEW s \in Sessions, ClientStep(s) PROVE PassInv' /\ LeftInv'
  BY <1>4, ClientLeaves DEF IInv, PassInv, LeftInv, fileVars, udpVars
<1>5. ASSUME NEW s \in Sessions, ChildStep(s) PROVE PassInv' /\ LeftInv'
  <2>1. UNCHANGED <<pass, reg, user, udpChild, raced>> BY <1>5, ChildLeaves DEF clientVars
  <2>2. SocketsTyped BY TypeParts DEF IInv
  <2>3. Moved(s) BY <1>1, <1>5, <2>2, ChildMoves
  <2>4. child'[s] \in {"login", "vc", "rid", "tid"} => pass[user[s]] \/ user[s] \in raced
    <3>1. CASE child[s] \in {"login", "vc", "rid", "tid"} BY <3>1 DEF IInv, PassInv
    <3>2. CASE Log(s) \/ ValidRequest(s) \/ Authenticate(s)
      <4>1. CASE Log(s)
        BY <1>1, <4>1 DEF Log, Answer, NoAnswer, ChildTyped
      <4>2. CASE ValidRequest(s)
        BY <1>1, <4>2 DEF ValidRequest, Answer, NoAnswer, ChildTyped
      <4>3. CASE Authenticate(s)
        BY <1>1, <4>3 DEF Authenticate, Answer, NoAnswer, ChildTyped
      <4> QED BY <3>2, <4>1, <4>2, <4>3
    <3>3. CASE ReadReg(s) \/ ReceiveRvc(s)
      BY <1>1, <3>3 DEF ReadReg, ReceiveRvc, Answer, NoAnswer, ChildTyped
    <3> QED BY <1>5, <3>1, <3>2, <3>3 DEF ChildStep, WriteLogin, WriteVc, WriteRid, WriteTid
  <2>5. PassInv' BY <2>1, <2>3, <2>4 DEF IInv, PassInv, Moved
  <2>6. LeftInv'
    <3>1. CASE child[s] \in {"login", "vc", "rid", "tid"}
      <4>1. pass[user[s]] \/ user[s] \in raced BY <3>1 DEF IInv, PassInv
      <4>2. \A u \in Users \ {user[s]} : login'[u] = login[u] /\ vc'[u] = vc[u] /\ rid'[u] = rid[u] /\ tid'[u] = tid[u]
        <5>1. CASE WriteLogin(s) BY <1>1, <5>1 DEF WriteLogin, FilesTyped
        <5>2. CASE WriteVc(s) BY <1>1, <5>2 DEF WriteVc, FilesTyped
        <5>3. CASE WriteRid(s) BY <1>1, <5>3 DEF WriteRid, FilesTyped
        <5>4. CASE WriteTid(s) BY <1>1, <5>4 DEF WriteTid, FilesTyped
        <5> QED BY <1>5, <5>1, <5>2, <5>3, <5>4
                DEF ChildStep, Log, ReadReg, ValidRequest, ReceiveRvc, Authenticate
      <4> QED BY <2>1, <4>1, <4>2 DEF IInv, LeftInv
    <3>2. CASE child[s] \notin {"login", "vc", "rid", "tid"}
      <4>1. UNCHANGED <<login, vc, rid, tid>>
        BY <1>5, <3>2 DEF ChildStep, Log, WriteLogin, ReadReg, ValidRequest, WriteVc, WriteRid,
                          ReceiveRvc, Authenticate, WriteTid
      <4> QED BY <2>1, <4>1 DEF IInv, LeftInv
    <3> QED BY <3>1, <3>2
  <2> QED BY <2>5, <2>6
<1>6. ASSUME NEW u \in Users, DeviceStep(u) PROVE PassInv' /\ LeftInv'
  BY <1>6, DeviceLeaves DEF IInv, PassInv, LeftInv, fileVars, clientVars
<1>7. ASSUME NEW u \in Users, UdpStep(u) PROVE PassInv' /\ LeftInv'
  <2>1. UNCHANGED <<user, child>> BY <1>7, UdpLeaves DEF clientVars
  <2>2. CASE WritePass(u)
    BY <1>1, <1>2, <2>1, <2>2 DEF WritePass, IInv, PassInv, LeftInv, FilesTyped, UdpTyped
  <2>3. CASE WriteFiles(u)
    BY <1>1, <1>2, <2>1, <2>3 DEF WriteFiles, IInv, PassInv, LeftInv, FilesTyped, UdpTyped
  <2>4. CASE FindPass(u)
    BY <1>1, <1>2, <2>1, <2>4 DEF FindPass, fileVars, IInv, PassInv, LeftInv, FilesTyped, UdpTyped
  <2>5. CASE RemoveFiles(u)
    <3>1. LeftInv' BY <1>1, <2>5 DEF RemoveFiles, IInv, LeftInv, FilesTyped
    <3>2. PassInv'
      BY <1>1, <1>2, <2>1, <2>5 DEF RemoveFiles, Writing, IInv, PassInv, FilesTyped, UdpTyped
    <3> QED BY <3>1, <3>2
  <2> QED BY <1>7, <2>2, <2>3, <2>4, <2>5 DEF UdpStep
<1> QED BY <1>3, <1>4, <1>5, <1>6, <1>7, Steps

-----------------------------------------------------------------------------
\* The invariant.

LEMMA StartsStep ==
  ASSUME IInv, Next
  PROVE  StartsInv'
<1>1. CASE UNCHANGED <<pd, starts>> BY <1>1 DEF IInv, StartsInv
<1> QED BY <1>1, Steps, MainLeaves, ClientLeaves, ChildLeaves, UdpLeaves, DeviceTypes DEF pdVars

LEMMA InitIInv == Init => IInv
<1> SUFFICES ASSUME Init PROVE IInv OBVIOUS
<1>1. bounds \in [sessions : 0 .. MaxSessions, ended : Nat, sent : 0 .. MaxSent, lost : Nat,
                     lines : BOOLEAN]
  BY DEF Init
<1>2. TypeOK
  <2>1. FilesTyped BY DEF Init, FilesTyped
  <2>2. ClientsTyped BY <1>1 DEF Init, ClientsTyped
  <2>3. SocketsTyped BY DEF Init, SocketsTyped
  <2>4. MainTyped
    <3>1. Cardinality(Sessions) \in Nat BY Descriptors
    <3> QED BY <3>1 DEF Init, MainTyped
  <2>5. ChildTyped BY DEF Init, ChildTyped
  <2>6. DeviceTyped
    <3>1. vlc = [u \in Users |-> <<>>] /\ <<>> \in Seq(Request) BY DEF Init
    <3>2. vlc \in [Users -> Seq(Request)] BY <3>1
    <3> QED BY <3>2 DEF Init, DeviceTyped
  <2>7. UdpTyped BY <1>1 DEF Init, UdpTyped
  <2> QED BY <2>1, <2>2, <2>3, <2>4, <2>5, <2>6, <2>7, TypeParts
<1>3. MessageInv BY DEF Init, MessageInv, OneMessage
<1>4. NumberInv
  <2>1. bounds.sent \in 0 .. MaxSent BY <1>1
  <2>2. ASSUME NEW s \in Sessions PROVE Numbered(s) BY <2>1 DEF Init, Numbered
  <2>3. ASSUME NEW u \in Users PROVE rid[u] \notin Request BY RequestFields DEF Init
  <2> QED BY <2>2, <2>3 DEF NumberInv
<1>5. CodeInv
  <2>1. ASSUME NEW s \in Sessions PROVE vc[user[s]] \notin Request BY RequestFields DEF Init
  <2> QED BY <2>1 DEF CodeInv
<1>6. TidInv /\ PassInv /\ LeftInv /\ StartsInv BY DEF Init, TidInv, PassInv, LeftInv, StartsInv
<1> QED BY <1>2, <1>3, <1>4, <1>5, <1>6 DEF IInv

LEMMA StutterIInv == IInv /\ UNCHANGED vars => IInv'
<1> SUFFICES ASSUME IInv, UNCHANGED vars PROVE IInv' OBVIOUS
<1>1. UNCHANGED <<fileVars, clientVars, socketVars, mainVars, child, fop, rvc, pdVars, udpVars, raced>>
  BY DEF vars
<1>2. TypeOK'
  BY <1>1 DEF IInv, TypeOK, fileVars, clientVars, socketVars, mainVars, pdVars, udpVars
<1>3. MessageInv' /\ NumberInv'
  BY <1>1 DEF IInv, MessageInv, OneMessage, Sound, NumberInv, Numbered, fileVars, clientVars,
              socketVars, pdVars
<1>4. CodeInv' /\ TidInv' /\ StartsInv'
  BY <1>1 DEF IInv, CodeInv, TidInv, StartsInv, fileVars, clientVars, socketVars, pdVars
<1>5. PassInv' /\ LeftInv'
  BY <1>1 DEF IInv, PassInv, LeftInv, fileVars, clientVars, udpVars
<1> QED BY <1>2, <1>3, <1>4, <1>5 DEF IInv

LEMMA StepIInv == IInv /\ [Next]_vars => IInv'
<1> SUFFICES ASSUME IInv, [Next]_vars PROVE IInv' OBVIOUS
<1>1. CASE Next
  BY <1>1, TypeStep, MessageStep, NumberStep, CodeStep, TidStep, LeftStep, StartsStep DEF IInv
<1>2. CASE UNCHANGED vars BY <1>2, StutterIInv
<1> QED BY <1>1, <1>2

LEMMA Invariance == Spec => []IInv
BY InitIInv, StepIInv, PTL DEF Spec

-----------------------------------------------------------------------------
\* The theorems.

\* The files, the sockets, the table of at most MaxUsers sessions, the loop over
\* nready and the processes of the server stay of their types (as.c 423-560).
THEOREM TypeCorrect == Spec => []TypeOK
<1>1. IInv => TypeOK BY DEF IInv
<1> QED BY Invariance, <1>1, PTL

\* A user that has unregistered leaves neither login nor TID nor registration to
\* the next owner of the number, except under a child that had found the password
\* before and was still to write (as.c 86-93, 130-136, 157-198): the password is
\* tested and the files are written by processes that do not wait for each other.
THEOREM NothingStays == Spec => []NothingLeftBehind
<1>1. IInv => NothingLeftBehind BY DEF IInv, LeftInv, NothingLeftBehind
<1> QED BY Invariance, <1>1, PTL

LEMMA WrittenTid ==
  ASSUME IInv, Next, NEW s \in Sessions, child[s] = "tid", child'[s] # "tid"
  PROVE  \/ tid'[user[s]] = Empty
         \/ /\ tid'[user[s]] = last[s] /\ last[s] = msg[s].code
            /\ last[s] \in shown
<1>1. FilesTyped /\ ClientsTyped /\ ChildTyped /\ SocketsTyped BY TypeParts DEF IInv
<1>2. user[s] \in Users BY <1>1 DEF ClientsTyped
<1>3. ~MainStep
  <2>1. ASSUME NEW t \in Sessions, ServeMessage(t) PROVE FALSE
    <3>1. unread[t] /\ child' = [child EXCEPT ![t] = msg[t].type] BY <2>1 DEF ServeMessage
    <3>2. child[t] = "none" BY <3>1 DEF IInv, MessageInv, OneMessage
    <3> QED BY <1>1, <3>1, <3>2 DEF ChildTyped
  <2> QED BY <2>1 DEF MainStep, Select, ServeUdp, ServeListen, ServeListenFull, ServeEnd, ServeReset
<1>4. ASSUME NEW t \in Sessions, ClientStep(t) PROVE FALSE BY <1>4, ClientLeaves
<1>5. ASSUME NEW u \in Users, DeviceStep(u) PROVE FALSE BY <1>5, DeviceLeaves
<1>6. ASSUME NEW u \in Users, UdpStep(u) PROVE FALSE BY <1>6, UdpLeaves
<1>7. ChildStep(s)
  <2>1. PICK t \in Sessions : ChildStep(t) BY <1>3, <1>4, <1>5, <1>6, Steps
  <2>2. Moved(t) BY <1>1, <2>1, ChildMoves
  <2> QED BY <2>1, <2>2 DEF Moved
<1>8. WriteTid(s)
  BY <1>7 DEF ChildStep, Log, WriteLogin, ReadReg, ValidRequest, WriteVc, WriteRid, ReceiveRvc,
              Authenticate
<1>9. tid'[user[s]] = fop[s] BY <1>1, <1>2, <1>8 DEF WriteTid, FilesTyped
<1> QED BY <1>9 DEF IInv, TidInv

\* However the sessions of a user interleave, a TID is written only for the
\* operation of the writing session's own last request, whose code was displayed
\* by the device and typed by the user: two sessions may mix the files of their
\* requests, but a mixed pair never passes the test (as.c 179-198, 252-282).
THEOREM TidsAreOwn == Spec => TidIsForOwnRequest
<1>1. IInv /\ [Next]_vars =>
        [\A s \in Sessions :
           child[s] = "tid" /\ child'[s] # "tid" =>
             \/ tid'[user[s]] = Empty
             \/ /\ tid'[user[s]] = last[s] /\ last[s] = msg[s].code
                /\ last[s] \in shown]_vars
  BY WrittenTid
<1> QED BY Invariance, <1>1, PTL DEF Spec, TidIsForOwnRequest
=============================================================================
