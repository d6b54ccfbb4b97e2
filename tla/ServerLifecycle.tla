-------------------------- MODULE ServerLifecycle --------------------------
(***************************************************************************)
(* The threads of the TecnicoFS server (server/server.c): the main thread  *)
(* accepts connections and starts a worker for each; a worker serves one   *)
(* request at a time until its client closes; SIGINT runs a handler that   *)
(* joins the workers, frees the file system and exits.                     *)
(*                                                                         *)
(* What a request does to the files is module TecnicoFS; here it is one    *)
(* execution, between the receipt of the request and the sending of the    *)
(* reply.  A client is an end of a stream socket: it sends one request and *)
(* waits for its reply, and it may close at any time.                      *)
(***************************************************************************)
EXTENDS Naturals, FiniteSets

CONSTANTS
  Clients,
  numberThreads,   \* length of the workers array (100 in the code)
  Main,            \* the main thread, as a place where the handler may run
  NoThread,
  MaxSent          \* bound: requests a client sends

\* The entry of the workers array beyond the last is not modelled.
ASSUME LifecycleAssumption ==
  /\ numberThreads \in Nat /\ IsFiniteSet(Clients)
  /\ Cardinality(Clients) <= numberThreads
  /\ Main \notin Clients /\ NoThread \notin Clients \cup {Main}
  /\ MaxSent \in Nat

VARIABLES
  conn,           \* the client's side: "none", "pending", "idle", "waiting", "closed"
                  \* after tfsUnmount, "dead" if it was waiting then
  sent,           \* requests it has sent
  request,        \* is one in the worker's socket?
  reply,          \* is one in the client's socket?
  reset,          \* did it close with a reply unread?  (ECONNRESET at the worker)
  worker,         \* the worker of the client
  executed,       \* executions of requests of the client
  workers,        \* slot -> the client whose thread it holds
  numberClients,
  creating,       \* between pthread_create and numberClients++?
  handler,        \* the thread that runs signalTreatment
  joined,         \* its loop variable i
  server          \* "up", "freed", "exited", "killed"

clientVars == <<conn, sent>>
socketVars == <<request, reply, reset>>
workerVars == <<worker, executed>>
mainVars   == <<workers, numberClients, creating>>
signalVars == <<handler, joined, server>>
vars == <<clientVars, socketVars, workerVars, mainVars, signalVars>>

TypeOK ==
  /\ conn \in [Clients -> {"none", "pending", "idle", "waiting", "closed", "dead"}]
  /\ sent \in [Clients -> 0 .. MaxSent]
  /\ request \in [Clients -> BOOLEAN]
  /\ reply \in [Clients -> BOOLEAN]
  /\ reset \in [Clients -> BOOLEAN]
  /\ worker \in [Clients -> {"none", "started", "recv", "execute", "send", "done"}]
  /\ executed \in [Clients -> 0 .. MaxSent + 1]
  /\ workers \in [0 .. numberThreads - 1 -> Clients \cup {NoThread}]
  /\ numberClients \in 0 .. numberThreads
  /\ creating \in BOOLEAN
  /\ handler \in Clients \cup {Main, NoThread}
  /\ joined \in 0 .. numberThreads
  /\ server \in {"up", "freed", "exited", "killed"}

Quiet ==
  /\ conn = [c \in Clients |-> "none"]
  /\ sent = [c \in Clients |-> 0]
  /\ request = [c \in Clients |-> FALSE]
  /\ reply = [c \in Clients |-> FALSE]
  /\ reset = [c \in Clients |-> FALSE]
  /\ worker = [c \in Clients |-> "none"]
  /\ executed = [c \in Clients |-> 0]
  /\ workers = [i \in 0 .. numberThreads - 1 |-> NoThread]
  /\ numberClients = 0
  /\ creating = FALSE
  /\ handler = NoThread
  /\ joined = 0

Init == Quiet /\ server = "up"

Running == server \in {"up", "freed"}

\* Mutation: no thread runs beside the handler.
FreeOfHandler(thread) == Running /\ handler = NoThread

\* A thread that runs the signal handler does nothing else.
Free(thread) == Running /\ handler # thread

Gone(c) == conn[c] \in {"closed", "dead"}

-----------------------------------------------------------------------------
\* The clients.

Connect(c) ==
  /\ conn[c] = "none" /\ Running
  /\ conn' = [conn EXCEPT ![c] = "pending"]
  /\ UNCHANGED <<sent, socketVars, workerVars, mainVars, signalVars>>

\* The client API sends a request and blocks until the reply.
SendRequest(c) ==
  /\ conn[c] = "idle" /\ sent[c] < MaxSent /\ Running
  /\ conn' = [conn EXCEPT ![c] = "waiting"]
  /\ sent' = [sent EXCEPT ![c] = @ + 1]
  /\ request' = [request EXCEPT ![c] = TRUE]
  /\ UNCHANGED <<reply, reset, workerVars, mainVars, signalVars>>

ReadReply(c) ==
  /\ conn[c] = "waiting" /\ reply[c]
  /\ conn' = [conn EXCEPT ![c] = "idle"]
  /\ reply' = [reply EXCEPT ![c] = FALSE]
  /\ UNCHANGED <<sent, request, reset, workerVars, mainVars, signalVars>>

\* tfsUnmount, or the end of a client between two requests.
Close(c) ==
  /\ conn[c] = "idle"
  /\ conn' = [conn EXCEPT ![c] = "closed"]
  /\ UNCHANGED <<sent, socketVars, workerVars, mainVars, signalVars>>

\* The end of a client inside a call of the API: it leaves its reply unread.
Die(c) ==
  /\ conn[c] = "waiting"
  /\ conn' = [conn EXCEPT ![c] = "dead"]
  /\ reset' = [reset EXCEPT ![c] = reply[c]]
  /\ reply' = [reply EXCEPT ![c] = FALSE]
  /\ UNCHANGED <<sent, request, workerVars, mainVars, signalVars>>

-----------------------------------------------------------------------------
\* The main thread: acceptClient.

\* accept and pthread_create, into the slot of the current numberClients.
AcceptClient(c) ==
  /\ Free(Main) /\ ~creating
  /\ conn[c] = "pending"
  /\ conn' = [conn EXCEPT ![c] = "idle"]
  /\ worker' = [worker EXCEPT ![c] = "started"]
  /\ workers' = [workers EXCEPT ![numberClients] = c]
  /\ creating' = TRUE
  /\ UNCHANGED <<sent, socketVars, executed, numberClients, signalVars>>

CountClient ==
  /\ Free(Main) /\ creating
  /\ numberClients' = numberClients + 1
  /\ creating' = FALSE
  /\ UNCHANGED <<clientVars, socketVars, workerVars, workers, signalVars>>

-----------------------------------------------------------------------------
\* A worker: trataCliente.

\* pthread_sigmask: from here on SIGINT is not for this thread.
BlockSignal(c) ==
  /\ Free(c) /\ worker[c] = "started"
  /\ worker' = [worker EXCEPT ![c] = "recv"]
  /\ UNCHANGED <<clientVars, socketVars, executed, mainVars, signalVars>>

\* Mutation: the request stays in the socket.
ReceivePeek(c) ==
  /\ Free(c) /\ worker[c] = "recv" /\ request[c]
  /\ worker' = [worker EXCEPT ![c] = "execute"]
  /\ UNCHANGED <<clientVars, socketVars, executed, mainVars, signalVars>>

Receive(c) ==
  /\ Free(c) /\ worker[c] = "recv" /\ request[c]
  /\ request' = [request EXCEPT ![c] = FALSE]
  /\ worker' = [worker EXCEPT ![c] = "execute"]
  /\ UNCHANGED <<clientVars, reply, reset, executed, mainVars, signalVars>>

\* Mutation: the end of the stream does not end the loop.
ReceiveEndGoesOn(c) ==
  /\ Free(c) /\ worker[c] = "recv" /\ ~request[c] /\ Gone(c) /\ ~reset[c]
  /\ worker' = [worker EXCEPT ![c] = "execute"]
  /\ UNCHANGED <<clientVars, socketVars, executed, mainVars, signalVars>>

\* recv returns 0: the loop and the thread end.
ReceiveEnd(c) ==
  /\ Free(c) /\ worker[c] = "recv" /\ ~request[c] /\ Gone(c) /\ ~reset[c]
  /\ worker' = [worker EXCEPT ![c] = "done"]
  /\ UNCHANGED <<clientVars, socketVars, executed, mainVars, signalVars>>

\* recv returns -1, which is not 0: the loop runs again, on the request that is
\* still in the buffer.
ReceiveError(c) ==
  /\ Free(c) /\ worker[c] = "recv" /\ ~request[c] /\ Gone(c) /\ reset[c]
  /\ reset' = [reset EXCEPT ![c] = FALSE]
  /\ worker' = [worker EXCEPT ![c] = "execute"]
  /\ UNCHANGED <<clientVars, request, reply, executed, mainVars, signalVars>>

Execute(c) ==
  /\ Free(c) /\ worker[c] = "execute"
  /\ executed' = [executed EXCEPT ![c] = @ + 1]
  /\ worker' = [worker EXCEPT ![c] = "send"]
  /\ UNCHANGED <<clientVars, socketVars, mainVars, signalVars>>

\* Nothing handles SIGPIPE: a reply to a closed socket kills the process.
Send(c) ==
  /\ Free(c) /\ worker[c] = "send"
  /\ IF Gone(c)
     THEN server' = "killed" /\ UNCHANGED <<reply, worker>>
     ELSE /\ reply' = [reply EXCEPT ![c] = TRUE]
          /\ worker' = [worker EXCEPT ![c] = "recv"]
          /\ UNCHANGED server
  /\ UNCHANGED <<clientVars, request, reset, executed, mainVars, handler, joined>>

-----------------------------------------------------------------------------
\* SIGINT: signalTreatment.

\* The signal goes to any thread that does not block it: the main thread, or a
\* worker that has not come to its pthread_sigmask.  One of a behaviour: the
\* handler stays installed, and what it would do if a second signal brought
\* another thread into it meanwhile is left out.
Sigint(thread) ==
  /\ server = "up" /\ handler = NoThread
  /\ thread = Main \/ (thread \in Clients /\ worker[thread] = "started")
  /\ handler' = thread
  /\ UNCHANGED <<clientVars, socketVars, workerVars, mainVars, joined, server>>

Handling == server = "up" /\ handler # NoThread

\* Mutations: pthread_join does not wait; it waits even for its own thread.
JoinAtOnce ==
  /\ Handling /\ joined < numberClients
  /\ joined' = joined + 1
  /\ UNCHANGED <<clientVars, socketVars, workerVars, mainVars, handler, server>>

JoinItself ==
  /\ Handling /\ joined < numberClients
  /\ worker[workers[joined]] = "done"
  /\ joined' = joined + 1
  /\ UNCHANGED <<clientVars, socketVars, workerVars, mainVars, handler, server>>

\* pthread_join of a worker that is done, or of the caller itself, which fails
\* at once; the loop goes on in both cases.
Join ==
  /\ Handling /\ joined < numberClients
  /\ worker[workers[joined]] = "done" \/ workers[joined] = handler
  /\ joined' = joined + 1
  /\ UNCHANGED <<clientVars, socketVars, workerVars, mainVars, handler, server>>

FreeAll ==
  /\ Handling /\ joined >= numberClients
  /\ server' = "freed"
  /\ UNCHANGED <<clientVars, socketVars, workerVars, mainVars, handler, joined>>

Exit ==
  /\ server = "freed"
  /\ server' = "exited"
  /\ UNCHANGED <<clientVars, socketVars, workerVars, mainVars, handler, joined>>

-----------------------------------------------------------------------------
WorkerStep(c) ==
  BlockSignal(c) \/ Receive(c) \/ ReceiveEnd(c) \/ ReceiveError(c) \/ Execute(c) \/ Send(c)

MainStep == CountClient \/ \E c \in Clients : AcceptClient(c)

HandlerStep == Join \/ FreeAll \/ Exit

ClientStep(c) == Connect(c) \/ SendRequest(c) \/ ReadReply(c) \/ Close(c) \/ Die(c)

Next ==
  \/ \E c \in Clients : ClientStep(c) \/ WorkerStep(c)
  \/ MainStep
  \/ \E thread \in Clients \cup {Main} : Sigint(thread)
  \/ HandlerStep

\* The scheduler runs every thread of the server that can run.  The clients owe
\* the server nothing, but a client of the API does take its reply.
Fairness ==
  /\ WF_vars(MainStep) /\ WF_vars(HandlerStep)
  /\ \A c \in Clients : WF_vars(WorkerStep(c)) /\ WF_vars(ReadReply(c))

Spec == Init /\ [][Next]_vars /\ Fairness

-----------------------------------------------------------------------------
\* Properties.

Finished(c) == worker[c] \in {"none", "done"}

\* "join das threads escravas de cada cliente" (server.c:386): no worker runs any
\* more once the file system is freed.  It holds when the handler runs on the main
\* thread and found it outside the gap between pthread_create and numberClients++
\* (server.c 425-426), and not else: the loop joins the slots below numberClients, and
\* not its own thread.
CleanShutdown ==
  server \in {"freed", "exited"} /\ handler = Main /\ ~creating
    => \A c \in Clients : Finished(c)

\* Only a client that dies inside a call does the server harm, and one that
\* closes between two calls of the API does none.  No request is executed twice
\* but that of such a client: recv fails with -1 then, the loop tests for 0 alone
\* (server.c:81), and the old buffer passes for a new request.  And SIGPIPE
\* kills the server only if there was one: it is neither handled nor asked not to
\* come.
HarmedByTheDead ==
  /\ \A c \in Clients : executed[c] > sent[c] => conn[c] = "dead"
  /\ server = "killed" => \E c \in Clients : conn[c] = "dead"

\* Every request is answered, while the server is up and its client waits, even
\* while the handler waits for the workers.  The exception is the client whose
\* own worker was caught by the signal: that worker waits for all the others.
Answered ==
  \A c \in Clients :
    conn[c] = "waiting" ~> \/ conn[c] # "waiting"
                           \/ ~Running
                           \/ handler = c

\* After SIGINT the server ends, unless some client stays connected for ever.
ShutdownEnds ==
  handler # NoThread ~> \/ ~Running
                        \/ \E c \in Clients : conn[c] \in {"idle", "waiting"}
=============================================================================
