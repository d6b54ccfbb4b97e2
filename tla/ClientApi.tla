----------------------------- MODULE ClientApi -----------------------------
(***************************************************************************)
(* The client library of TecnicoFS (client/client.c): tfsMount, tfsUnmount *)
(* and the calls that send one request and receive one reply, in a program *)
(* that makes them in any order.  The server is the worker thread at the   *)
(* other end of each connection (case 'l' and the others of trataCliente): *)
(* it answers each request with an int, and a read that succeeds with the  *)
(* text as well.                                                           *)
(*                                                                         *)
(* A connection is a stream of bytes.  Its unit here is the int: a text is *)
(* TextInts of them, and a receive takes what is there, whatever it was    *)
(* sent for.                                                               *)
(***************************************************************************)
EXTENDS Integers, Sequences

CONSTANTS
  TextInts,   \* MAX_INPUT_SIZE in ints
  MaxMounts,  \* bound: calls of tfsMount
  MaxCalls    \* bound: other calls that reach a server

ClientApiAssumption ==
  TextInts \in Nat \ {0} /\ MaxMounts \in Nat /\ MaxCalls \in Nat

NO_OPEN_SESSION  == -2
CONNECTION_ERROR == -3
FILE_NOT_FOUND   == -5   \* stands for every error of the server
TEXT == 1                \* stands for the length of a text, or four bytes of it

Values  == {0, NO_OPEN_SESSION, CONNECTION_ERROR, FILE_NOT_FOUND, TEXT}
Sockets == 1 .. MaxMounts
Stdin   == 0              \* what client_fds is before the first tfsMount
Descriptors == Sockets \cup {Stdin}

\* Ints in a stream and results know the request they answer, 0 for none.
Answer == [of : 0 .. MaxCalls, value : Values]

VARIABLES
  client_fds,  \* the descriptor calls use
  sockets,     \* "none", "unconnected", "open" or "closed"; Stdin: "file" or "closed"
  errno,       \* "ENOTCONN" or "other"; no call that succeeds changes it
  pc,          \* "idle"; "reply" or "text", for which it waits; "exited"
  call,        \* "read" or "other": what it waits for
  result,      \* of the last call
  stream,      \* what each socket holds for the client
  request,     \* what each worker works on: "none", "read", "other", "text"
  sent,        \* requests sent
  serving,     \* does the server run?
  denied,      \* connections on which a tfsRead has returned -2 before the text
  misused      \* was a call made on a socket that failed to connect?

clientVars == <<client_fds, sockets, errno, pc, call, result, denied, misused>>
serverVars == <<stream, request, sent, serving>>
vars == <<clientVars, serverVars>>

TypeOK ==
  /\ client_fds \in Descriptors
  /\ sockets \in [Descriptors -> {"none", "file", "unconnected", "open", "closed"}]
  /\ errno \in {"ENOTCONN", "other"}
  /\ pc \in {"idle", "reply", "text", "exited"}
  /\ call \in {"read", "other"}
  /\ result \in Answer
  /\ stream \in [Sockets -> Seq(Answer)]
  /\ request \in [Sockets -> {"none", "read", "other", "text"}]
  /\ sent \in 0 .. MaxCalls
  /\ serving \in BOOLEAN
  /\ denied \subseteq Sockets
  /\ misused \in BOOLEAN

Quiet ==
  /\ client_fds = Stdin
  /\ sockets = [i \in Descriptors |-> IF i = Stdin THEN "file" ELSE "none"]
  /\ errno = "other"
  /\ call = "other"
  /\ result = [of |-> 0, value |-> 0]
  /\ stream = [i \in Sockets |-> <<>>]
  /\ request = [i \in Sockets |-> "none"]
  /\ sent = 0
  /\ serving = TRUE
  /\ denied = {}
  /\ misused = FALSE

Init == Quiet /\ pc = "idle"

-----------------------------------------------------------------------------
\* The client.

Fresh == {i \in Sockets : sockets[i] = "none"}

Session == sockets[client_fds] = "open"

Returns(of, value) == pc' = "idle" /\ result' = [of |-> of, value |-> value]

Least(S) == CHOOSE i \in S : \A j \in S : i <= j

\* A new socket each time: connect never finds it connected already (EISCONN).
tfsMount(connected) ==
  /\ connected => serving
  /\ pc = "idle" /\ Fresh # {} /\ sockets[Stdin] # "closed"
  /\ client_fds' = Least(Fresh)
  /\ sockets' = [sockets EXCEPT ![Least(Fresh)] =
                   IF connected THEN "open" ELSE "unconnected"]
  /\ errno' = IF connected THEN errno ELSE "other"
  /\ Returns(0, IF connected THEN 0 ELSE CONNECTION_ERROR)
  /\ UNCHANGED <<call, denied, misused, serverVars>>

\* Descriptor 0 is free and socket returns it, which is taken for a failure.
MountExits ==
  /\ pc = "idle" /\ sockets[Stdin] = "closed"
  /\ pc' = "exited"
  /\ UNCHANGED <<client_fds, sockets, errno, call, result, denied, misused, serverVars>>

\* close: it closes standard input if there was no mount.  Its failure on a
\* closed descriptor is not reported.
tfsUnmount ==
  /\ pc = "idle"
  /\ sockets' = [sockets EXCEPT ![client_fds] = "closed"]
  /\ errno' = IF sockets[client_fds] = "closed" THEN "other" ELSE errno
  /\ Returns(0, 0)
  /\ UNCHANGED <<client_fds, call, denied, misused, serverVars>>

\* A call with a session: send succeeds.
Send(kind) ==
  /\ pc = "idle" /\ Session /\ serving /\ sent < MaxCalls
  /\ pc' = "reply"
  /\ call' = kind
  /\ sent' = sent + 1
  /\ request' = [request EXCEPT ![client_fds] = kind]
  /\ UNCHANGED <<client_fds, sockets, errno, result, denied, misused, stream, serving>>

\* SIGPIPE: the server is gone, and nothing handles the signal here either.
SendGone ==
  /\ pc = "idle" /\ Session /\ ~serving
  /\ pc' = "exited"
  /\ UNCHANGED <<client_fds, sockets, errno, call, result, denied, misused, serverVars>>

\* A call on the socket of a mount that failed.
SendUnconnected ==
  /\ pc = "idle" /\ sockets[client_fds] = "unconnected"
  /\ errno' = "ENOTCONN"
  /\ misused' = TRUE
  /\ Returns(0, NO_OPEN_SESSION)
  /\ UNCHANGED <<client_fds, sockets, call, denied, serverVars>>

\* Mutation: the socket is shut down and not closed.
NowhereErrorShutdown == "ENOTCONN"

NowhereError == "other"

\* A call on a closed descriptor or on standard input: send and recv fail with
\* an error that is not ENOTCONN, and the call returns resposta, which nothing
\* has assigned.
SendNowhere ==
  /\ pc = "idle" /\ sockets[client_fds] \in {"closed", "file"}
  /\ errno' = NowhereError
  /\ \E garbage \in Values : Returns(0, garbage)
  /\ UNCHANGED <<client_fds, sockets, call, denied, misused, serverVars>>

\* The test after a recv that has succeeded and has left errno as it was.
NotConnected == errno = "ENOTCONN"

Take(n) == stream' = [stream EXCEPT ![client_fds] = SubSeq(@, n + 1, Len(@))]

Deny(textToCome) ==
  /\ Returns(0, NO_OPEN_SESSION)
  /\ denied' = denied \cup (IF textToCome THEN {client_fds} ELSE {})

\* Mutation: a text is waited for after an error too.
TextFollowsAlways(answer) == call = "read"

TextFollows(answer) == call = "read" /\ answer.value = 0

ReceiveReply ==
  LET answer == Head(stream[client_fds]) IN
  /\ pc = "reply" /\ stream[client_fds] # <<>>
  /\ Take(1)
  /\ \/ NotConnected /\ Deny(TextFollows(answer))
     \/ /\ ~NotConnected /\ TextFollows(answer)
        /\ pc' = "text"
        /\ UNCHANGED <<result, denied>>
     \/ /\ ~NotConnected /\ ~TextFollows(answer)
        /\ Returns(answer.of, answer.value)
        /\ UNCHANGED denied
  /\ UNCHANGED <<client_fds, sockets, errno, call, misused, request, sent, serving>>

\* Mutation: the buffer is one int short of the text.
TextRoomShort == TextInts - 1

TextRoom == TextInts

\* tfsRead's second recv takes as much as there is and the buffer holds.  The
\* test of errno that follows it cannot succeed where the first did not.
ReceiveText ==
  LET there == Len(stream[client_fds])
  IN /\ pc = "text" /\ there > 0
     /\ Take(IF there < TextRoom THEN there ELSE TextRoom)
     /\ Returns(Head(stream[client_fds]).of, TEXT)
     /\ UNCHANGED <<client_fds, sockets, errno, call, denied, misused, request, sent, serving>>

\* A receive after the server's end gives 0 and leaves errno, or fails with an
\* error that is not ENOTCONN if the server had not read the request: the call
\* returns -2 by an errno of long ago, or what nothing has assigned.
ReceiveNothing ==
  /\ pc \in {"reply", "text"} /\ stream[client_fds] = <<>> /\ ~serving
  /\ errno' \in {errno, "other"}
  /\ \E garbage \in Values :
       Returns(0, IF errno' = "ENOTCONN" THEN NO_OPEN_SESSION ELSE garbage)
  /\ UNCHANGED <<client_fds, sockets, call, denied, misused, serverVars>>

\* The program's own calls between two of the library may fail too.
ProgramSetsErrno ==
  /\ pc = "idle" /\ errno = "ENOTCONN"
  /\ errno' = "other"
  /\ UNCHANGED <<client_fds, sockets, pc, call, result, denied, misused, serverVars>>

-----------------------------------------------------------------------------
\* The worker of connection i.

Push(i, answers) == stream' = [stream EXCEPT ![i] = @ \o answers]

Reply(i) ==
  /\ request[i] \in {"read", "other"}
  /\ \E value \in {0, FILE_NOT_FOUND} :
       /\ Push(i, <<[of |-> sent, value |-> value]>>)
       /\ request' = [request EXCEPT ![i] =
                        IF @ = "read" /\ value = 0 THEN "text" ELSE "none"]
  /\ UNCHANGED <<clientVars, sent, serving>>

\* The bytes of the text are no int of the protocol; they may all be zero.
SendText(i) ==
  /\ request[i] = "text"
  /\ \E value \in {0, TEXT} :
       Push(i, [k \in 1 .. TextInts |-> [of |-> sent, value |-> value]])
  /\ request' = [request EXCEPT ![i] = "none"]
  /\ UNCHANGED <<clientVars, sent, serving>>

\* The server ends, by the death of another client or after a SIGINT (see
\* ServerLifecycle), whatever its workers are at.
ServerEnds ==
  /\ serving /\ serving' = FALSE
  /\ request' = [i \in Sockets |-> "none"]
  /\ UNCHANGED <<clientVars, stream, sent>>

Receive == ReceiveReply \/ ReceiveText \/ ReceiveNothing

Worker(i) == Reply(i) \/ SendText(i)

Next ==
  \/ \E connected \in BOOLEAN : tfsMount(connected)
  \/ MountExits
  \/ tfsUnmount
  \/ \E kind \in {"read", "other"} : Send(kind)
  \/ SendUnconnected \/ SendNowhere \/ SendGone
  \/ Receive
  \/ ProgramSetsErrno
  \/ \E i \in Sockets : Worker(i)
  \/ ServerEnds

\* A server that runs serves, and the client takes what has come.
Fairness == WF_vars(Receive) /\ \A i \in Sockets : WF_vars(Worker(i))

Spec == Init /\ [][Next]_vars /\ Fairness

-----------------------------------------------------------------------------
\* Properties.

\* A call returns what the server said to that very call, reads with their two
\* messages among them, and between two calls nothing is on its way: requests
\* and replies keep in step, and tfsUnmount leaves nothing unread, which would
\* reset the connection under a worker (see ServerLifecycle).  They do until a
\* tfsRead returns -2, "no open session", with the text still to come; and that
\* takes a call made after a tfsMount that failed, whose errno is left.
InStep ==
  /\ pc = "idle" /\ result.of # 0 => result.of = sent \/ client_fds \in denied
  /\ pc = "idle" => \A i \in Sockets \ denied :
                      sockets[i] = "open" => stream[i] = <<>> /\ request[i] = "none"
  /\ denied # {} => misused

\* Every call returns, out of step or not: there is always at least as much to
\* receive as the library waits for, or the server has ended.
CallReturns == pc \in {"reply", "text"} ~> pc = "idle"
=============================================================================
