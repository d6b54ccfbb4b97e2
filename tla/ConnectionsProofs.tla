------------------------- MODULE ConnectionsProofs -------------------------
(***************************************************************************)
(* Theorems about ServerLifecycle, for any finite set of clients that fits *)
(* the workers array and any number of requests of each; and about         *)
(* ClientApi, the instance Api of MCConnections, for any number of mounts  *)
(* and calls and any length of a text.                                     *)
(***************************************************************************)
EXTENDS MCConnections, FiniteSetTheorems, SequenceTheorems, WellFoundedInduction, TLAPS

USE LifecycleAssumption DEF LifecycleAssumption

-----------------------------------------------------------------------------
\* TypeOK without its two bounds that are not local to an action.
TypeInv ==
  /\ conn \in [Clients -> {"none", "pending", "idle", "waiting", "closed", "dead"}]
  /\ sent \in [Clients -> 0 .. MaxSent]
  /\ request \in [Clients -> BOOLEAN]
  /\ reply \in [Clients -> BOOLEAN]
  /\ reset \in [Clients -> BOOLEAN]
  /\ worker \in [Clients -> {"none", "started", "recv", "execute", "send", "done"}]
  /\ executed \in [Clients -> Nat]
  /\ workers \in [0 .. numberThreads - 1 -> Clients \cup {NoThread}]
  /\ numberClients \in Nat
  /\ creating \in BOOLEAN
  /\ handler \in Clients \cup {Main, NoThread}
  /\ joined \in Nat
  /\ server \in {"up", "freed", "exited", "killed"}

\* Where the request of a client is, and how many were executed.
Exchange(c) ==
  /\ conn[c] \in {"none", "pending"} <=> worker[c] = "none"
  /\ conn[c] \in {"none", "pending"} =>
       executed[c] = sent[c] /\ ~request[c] /\ ~reply[c]
  /\ conn[c] \in {"idle", "closed"} =>
       /\ executed[c] = sent[c] /\ ~request[c] /\ ~reply[c]
       /\ worker[c] \in {"started", "recv", "done"}
  /\ conn[c] = "idle" => worker[c] # "done"
  /\ conn[c] = "waiting" => worker[c] # "done"
  /\ conn[c] \in {"waiting", "dead"} /\ request[c] =>
       worker[c] \in {"started", "recv"} /\ ~reply[c] /\ executed[c] + 1 = sent[c]
  /\ conn[c] = "waiting" /\ reply[c] => worker[c] = "recv" /\ executed[c] = sent[c]
  /\ conn[c] = "waiting" /\ ~request[c] /\ ~reply[c] =>
       \/ worker[c] = "execute" /\ executed[c] + 1 = sent[c]
       \/ worker[c] = "send" /\ executed[c] = sent[c]
  /\ conn[c] = "dead" =>
       /\ ~reply[c] /\ executed[c] <= sent[c] + 1
       /\ worker[c] = "execute" => executed[c] <= sent[c]
  /\ reset[c] => /\ conn[c] = "dead" /\ worker[c] = "recv"
                 /\ ~request[c] /\ executed[c] = sent[c]

ExchangeInv == \A c \in Clients : Exchange(c)

\* The server is killed by a reply to a client that died.
KilledInv == server = "killed" => \E c \in Clients : conn[c] = "dead"

Started == {c \in Clients : worker[c] # "none"}

\* The slots filled: numberClients of them, and one more in the gap.
Filled == IF creating THEN numberClients + 1 ELSE numberClients

\* The slots filled are as many as the threads started, and hold them all.
SlotInv ==
  /\ Filled = Cardinality(Started)
  /\ \A i \in 0 .. Filled - 1 : workers[i] \in Clients
  /\ \A c \in Started : \E i \in 0 .. Filled - 1 : workers[i] = c

\* What the handler has joined is done, but for its own thread; and nothing is
\* freed before all it knows of is joined, if it keeps the main thread from
\* starting more.
JoinInv ==
  /\ joined <= numberClients
  /\ \A i \in 0 .. joined - 1 : worker[workers[i]] = "done" \/ workers[i] = handler
  /\ handler = NoThread => joined = 0 /\ server \in {"up", "killed"}
  /\ handler = Main /\ server \in {"freed", "exited"} => joined = numberClients

IInv == TypeInv /\ ExchangeInv /\ KilledInv /\ SlotInv /\ JoinInv

-----------------------------------------------------------------------------
\* There is a free slot as long as a client waits for its worker.
LEMMA FreeSlot ==
  ASSUME TypeInv, SlotInv, NEW c \in Clients, worker[c] = "none", ~creating
  PROVE  numberClients + 1 <= numberThreads
<1>1. IsFiniteSet(Started) /\ Started \subseteq Clients
  BY FS_Subset DEF Started
<1>2. c \notin Started
  BY DEF Started
<1>3. Cardinality(Started \cup {c}) = Cardinality(Started) + 1
  BY <1>1, <1>2, FS_AddElement
<1>4. Cardinality(Started \cup {c}) <= Cardinality(Clients)
  BY <1>1, FS_Subset
<1>5. Cardinality(Clients) \in Nat /\ Cardinality(Started) \in Nat
  BY <1>1, FS_CardinalityType
<1>. QED
  BY <1>3, <1>4, <1>5 DEF SlotInv, Filled, TypeInv

LEMMA SlotsBound == ASSUME TypeInv, SlotInv PROVE Filled \in 0 .. numberThreads
<1>1. IsFiniteSet(Started) /\ Started \subseteq Clients
  BY FS_Subset DEF Started
<1>2. Cardinality(Started) <= Cardinality(Clients)
  BY <1>1, FS_Subset
<1>3. Cardinality(Clients) \in Nat /\ Cardinality(Started) \in Nat
  BY <1>1, FS_CardinalityType
<1>. QED
  BY <1>2, <1>3 DEF SlotInv

LEMMA IInvInit == Init => IInv
<1>. SUFFICES ASSUME Init PROVE IInv
  OBVIOUS
<1>. USE DEF Init, Quiet
<1>1. TypeInv
  <2>1. sent \in [Clients -> 0 .. MaxSent] /\ executed \in [Clients -> Nat]
    OBVIOUS
  <2>2. /\ request \in [Clients -> BOOLEAN]
        /\ reply \in [Clients -> BOOLEAN]
        /\ reset \in [Clients -> BOOLEAN]
    BY Zenon
  <2>. QED
    BY <2>1, <2>2 DEF TypeInv
<1>2. ExchangeInv
  BY DEF ExchangeInv, Exchange
<1>3. Started = {}
  BY DEF Started
<1>4. SlotInv
  BY <1>3, FS_EmptySet DEF SlotInv, Filled
<1>. QED
  BY <1>1, <1>2, <1>4 DEF IInv, KilledInv, JoinInv

-----------------------------------------------------------------------------
LEMMA TypeInvNext == ASSUME IInv, [Next]_vars PROVE TypeInv'
<1>. USE DEF IInv, TypeInv, clientVars, socketVars, workerVars, mainVars, signalVars
<1>1. ASSUME NEW c \in Clients, ClientStep(c) PROVE TypeInv'
  <2>1. CASE Connect(c) BY <2>1 DEF Connect
  <2>2. CASE SendRequest(c) BY <2>2 DEF SendRequest
  <2>3. CASE ReadReply(c) BY <2>3 DEF ReadReply
  <2>4. CASE Close(c) BY <2>4 DEF Close
  <2>5. CASE Die(c) BY <2>5 DEF Die
  <2>. QED BY <1>1, <2>1, <2>2, <2>3, <2>4, <2>5 DEF ClientStep
<1>2. ASSUME NEW c \in Clients, WorkerStep(c) PROVE TypeInv'
  <2>1. CASE BlockSignal(c) BY <2>1 DEF BlockSignal
  <2>2. CASE Receive(c) BY <2>2 DEF Receive
  <2>3. CASE ReceiveEnd(c) BY <2>3 DEF ReceiveEnd
  <2>4. CASE ReceiveError(c) BY <2>4 DEF ReceiveError
  <2>5. CASE Execute(c) BY <2>5 DEF Execute
  <2>6. CASE Send(c) BY <2>6 DEF Send
  <2>. QED BY <1>2, <2>1, <2>2, <2>3, <2>4, <2>5, <2>6 DEF WorkerStep
<1>3. ASSUME NEW c \in Clients, AcceptClient(c) PROVE TypeInv'
  BY <1>3 DEF AcceptClient
<1>4. CASE CountClient
  <2>1. numberClients' = numberClients + 1 /\ creating' = FALSE
    BY <1>4, Zenon DEF CountClient
  <2>2. UNCHANGED <<clientVars, socketVars, workerVars, workers, signalVars>>
    BY <1>4 DEF CountClient
  <2>3. numberClients' \in Nat
    BY <2>1
  <2>4. creating' \in BOOLEAN
    BY <2>1
  <2>. QED BY <2>2, <2>3, <2>4
<1>5. ASSUME NEW thread \in Clients \cup {Main}, Sigint(thread) PROVE TypeInv'
  BY <1>5 DEF Sigint
<1>6. CASE HandlerStep
  BY <1>6 DEF HandlerStep, Join, FreeAll, Exit
<1>7. CASE UNCHANGED vars
  BY <1>7 DEF vars
<1>. QED
  BY <1>1, <1>2, <1>3, <1>4, <1>5, <1>6, <1>7 DEF Next, MainStep

LEMMA ExchangeNext == ASSUME IInv, [Next]_vars PROVE ExchangeInv'
<1>. USE DEF IInv, TypeInv, ExchangeInv, Exchange,
             clientVars, socketVars, workerVars, mainVars, signalVars
<1>1. ASSUME NEW c \in Clients, ClientStep(c) PROVE ExchangeInv'
  <2>1. CASE Connect(c) BY <2>1 DEF Connect
  <2>2. CASE SendRequest(c) BY <2>2 DEF SendRequest
  <2>3. CASE ReadReply(c) BY <2>3 DEF ReadReply
  <2>4. CASE Close(c) BY <2>4 DEF Close
  <2>5. CASE Die(c) BY <2>5 DEF Die
  <2>. QED BY <1>1, <2>1, <2>2, <2>3, <2>4, <2>5 DEF ClientStep
<1>2. ASSUME NEW c \in Clients, WorkerStep(c) PROVE ExchangeInv'
  <2>1. CASE BlockSignal(c) BY <2>1 DEF BlockSignal
  <2>2. CASE Receive(c) BY <2>2 DEF Receive
  <2>3. CASE ReceiveEnd(c) BY <2>3 DEF ReceiveEnd, Gone
  <2>4. CASE ReceiveError(c) BY <2>4 DEF ReceiveError, Gone
  <2>5. CASE Execute(c) BY <2>5 DEF Execute
  <2>6. CASE Send(c) BY <2>6 DEF Send, Gone
  <2>. QED BY <1>2, <2>1, <2>2, <2>3, <2>4, <2>5, <2>6 DEF WorkerStep
<1>3. ASSUME NEW c \in Clients, AcceptClient(c) PROVE ExchangeInv'
  BY <1>3 DEF AcceptClient
<1>4. CASE CountClient
  BY <1>4 DEF CountClient
<1>5. ASSUME NEW thread \in Clients \cup {Main}, Sigint(thread) PROVE ExchangeInv'
  BY <1>5 DEF Sigint
<1>6. CASE HandlerStep
  BY <1>6 DEF HandlerStep, Join, FreeAll, Exit
<1>7. CASE UNCHANGED vars
  BY <1>7 DEF vars
<1>. QED
  BY <1>1, <1>2, <1>3, <1>4, <1>5, <1>6, <1>7 DEF Next, MainStep

LEMMA KilledNext == ASSUME IInv, [Next]_vars PROVE KilledInv'
<1>. USE DEF IInv, TypeInv, KilledInv,
             clientVars, socketVars, workerVars, mainVars, signalVars
<1>1. ASSUME NEW c \in Clients, ClientStep(c) PROVE KilledInv'
  BY <1>1 DEF ClientStep, Connect, SendRequest, ReadReply, Close, Die
<1>2. ASSUME NEW c \in Clients, Send(c) PROVE KilledInv'
  BY <1>2 DEF Send, Gone, ExchangeInv, Exchange
<1>3. ASSUME NEW c \in Clients, WorkerStep(c), ~Send(c) PROVE KilledInv'
  BY <1>3 DEF WorkerStep, BlockSignal, Receive, ReceiveEnd, ReceiveError, Execute
<1>4. ASSUME NEW c \in Clients, AcceptClient(c) PROVE KilledInv'
  BY <1>4 DEF AcceptClient
<1>5. CASE CountClient
  BY <1>5 DEF CountClient
<1>6. ASSUME NEW thread \in Clients \cup {Main}, Sigint(thread) PROVE KilledInv'
  BY <1>6 DEF Sigint
<1>7. CASE HandlerStep
  BY <1>7 DEF HandlerStep, Join, FreeAll, Exit, Handling
<1>8. CASE UNCHANGED vars
  BY <1>8 DEF vars
<1>. QED
  BY <1>1, <1>2, <1>3, <1>4, <1>5, <1>6, <1>7, <1>8 DEF Next, MainStep

\* Only the main thread fills slots and starts workers.
LEMMA SlotNext == ASSUME IInv, [Next]_vars PROVE SlotInv'
<1>. USE DEF IInv, TypeInv, clientVars, socketVars, workerVars, mainVars, signalVars
<1>1. ASSUME UNCHANGED mainVars, Started' = Started PROVE SlotInv'
  BY <1>1 DEF SlotInv, Filled
<1>2. ASSUME NEW c \in Clients, ClientStep(c) PROVE SlotInv'
  BY <1>1, <1>2 DEF ClientStep, Connect, SendRequest, ReadReply, Close, Die, Started
<1>3. ASSUME NEW c \in Clients, WorkerStep(c) PROVE SlotInv'
  <2>1. UNCHANGED mainVars
    BY <1>3 DEF WorkerStep, BlockSignal, Receive, ReceiveEnd, ReceiveError, Execute, Send
  <2>2. Started' = Started
    BY <1>3 DEF WorkerStep, BlockSignal, Receive, ReceiveEnd, ReceiveError, Execute,
                Send, Started
  <2>. QED BY <1>1, <2>1, <2>2
<1>4. ASSUME NEW c \in Clients, AcceptClient(c) PROVE SlotInv'
  <2>. USE <1>4 DEF AcceptClient
  <2>1. worker[c] = "none"
    BY DEF ExchangeInv, Exchange
  <2>2. numberClients + 1 <= numberThreads
    BY <2>1, FreeSlot
  <2>3. Started' = Started \cup {c} /\ c \notin Started
    BY <2>1 DEF Started
  <2>4. IsFiniteSet(Started)
    BY FS_Subset DEF Started
  <2>5. Cardinality(Started') = Cardinality(Started) + 1
    BY <2>3, <2>4, FS_AddElement
  <2>6. Filled = numberClients /\ Filled' = numberClients + 1
    BY DEF Filled
  <2>7. /\ workers'[numberClients] = c
        /\ \A i \in 0 .. numberClients - 1 : workers'[i] = workers[i]
    BY <2>2
  <2>8. \A i \in 0 .. Filled' - 1 : workers'[i] \in Clients
    BY <2>6, <2>7 DEF SlotInv
  <2>9. \A d \in Started' : \E i \in 0 .. Filled' - 1 : workers'[i] = d
    <3>. TAKE d \in Started'
    <3>1. CASE d = c
      BY <3>1, <2>6, <2>7
    <3>2. CASE d # c
      <4>1. PICK i \in 0 .. Filled - 1 : workers[i] = d
        BY <3>2, <2>3 DEF SlotInv
      <4>. QED
        BY <4>1, <2>6, <2>7
    <3>. QED BY <3>1, <3>2
  <2>. QED BY <2>5, <2>6, <2>8, <2>9 DEF SlotInv
<1>5. CASE CountClient
  BY <1>5 DEF CountClient, SlotInv, Filled, Started
<1>6. ASSUME NEW thread \in Clients \cup {Main}, Sigint(thread) PROVE SlotInv'
  BY <1>1, <1>6 DEF Sigint, Started
<1>7. CASE HandlerStep
  BY <1>1, <1>7 DEF HandlerStep, Join, FreeAll, Exit, Started
<1>8. CASE UNCHANGED vars
  BY <1>1, <1>8 DEF vars, Started
<1>. QED
  BY <1>2, <1>3, <1>4, <1>5, <1>6, <1>7, <1>8 DEF Next, MainStep

\* A thread that is done stays so, and no slot is filled twice.
LEMMA JoinNext == ASSUME IInv, [Next]_vars PROVE JoinInv'
<1>. USE DEF IInv, TypeInv, clientVars, socketVars, workerVars, mainVars, signalVars
<1>0. \A i \in 0 .. joined - 1 : workers[i] \in Clients
  BY DEF SlotInv, Filled, JoinInv
<1>1. ASSUME UNCHANGED <<mainVars, signalVars>>,
             \A c \in Clients : worker[c] = "done" => worker'[c] = "done"
      PROVE  JoinInv'
  BY <1>0, <1>1 DEF JoinInv
<1>2. ASSUME NEW c \in Clients, ClientStep(c) PROVE JoinInv'
  BY <1>1, <1>2 DEF ClientStep, Connect, SendRequest, ReadReply, Close, Die
<1>3. ASSUME NEW c \in Clients, WorkerStep(c) PROVE JoinInv'
  <2>1. \A d \in Clients : worker[d] = "done" => worker'[d] = "done"
    BY <1>3 DEF WorkerStep, BlockSignal, Receive, ReceiveEnd, ReceiveError, Execute, Send
  <2>2. CASE Send(c)
    BY <1>0, <2>1, <2>2 DEF Send, JoinInv
  <2>3. CASE ~Send(c)
    BY <1>1, <1>3, <2>1, <2>3
       DEF WorkerStep, BlockSignal, Receive, ReceiveEnd, ReceiveError, Execute
  <2>. QED BY <2>2, <2>3
<1>4. ASSUME NEW c \in Clients, AcceptClient(c) PROVE JoinInv'
  <2>. USE <1>4 DEF AcceptClient
  <2>1. \A i \in 0 .. joined - 1 : workers'[i] = workers[i]
    BY DEF JoinInv
  <2>2. \A d \in Clients : worker[d] = "done" => worker'[d] = "done"
    BY DEF ExchangeInv, Exchange
  <2>. QED BY <1>0, <2>1, <2>2 DEF JoinInv
<1>5. CASE CountClient
  BY <1>5 DEF CountClient, JoinInv, Free
<1>6. ASSUME NEW thread \in Clients \cup {Main}, Sigint(thread) PROVE JoinInv'
  BY <1>6 DEF Sigint, JoinInv
<1>7. CASE Join
  BY <1>0, <1>7 DEF Join, Handling, JoinInv, SlotInv, Filled
<1>8. CASE FreeAll
  BY <1>8 DEF FreeAll, Handling, JoinInv
<1>9. CASE Exit
  BY <1>9 DEF Exit, JoinInv
<1>10. CASE UNCHANGED vars
  BY <1>1, <1>10 DEF vars
<1>. QED
  BY <1>2, <1>3, <1>4, <1>5, <1>6, <1>7, <1>8, <1>9, <1>10
     DEF Next, MainStep, HandlerStep

THEOREM Invariance == Spec => []IInv
<1>1. IInv /\ [Next]_vars => IInv'
  BY TypeInvNext, ExchangeNext, KilledNext, SlotNext, JoinNext DEF IInv
<1>. QED
  BY IInvInit, <1>1, PTL DEF Spec

LEMMA AtMostOneMore ==
  ASSUME IInv, NEW c \in Clients
  PROVE  /\ executed[c] <= sent[c] + 1
         /\ executed[c] > sent[c] => conn[c] = "dead"
<1>. USE DEF IInv, TypeInv
<1>1. Exchange(c)
  BY DEF ExchangeInv
<1>2. executed[c] \in Nat /\ sent[c] \in 0 .. MaxSent
  OBVIOUS
<1>3. CASE conn[c] \in {"none", "pending", "idle", "closed"}
  BY <1>1, <1>2, <1>3 DEF Exchange
<1>4. CASE conn[c] = "waiting"
  BY <1>1, <1>2, <1>4 DEF Exchange
<1>5. CASE conn[c] = "dead"
  BY <1>1, <1>2, <1>5 DEF Exchange
<1>. QED
  BY <1>3, <1>4, <1>5

-----------------------------------------------------------------------------
\* The type invariant of the server's threads and sockets (acceptClient,
\* trataCliente, signalTreatment), as long as there are no more clients than
\* workers has entries, which server.c:425 does not see to: nothing bounds
\* numberClients and nothing lowers it.
LEMMA TypeCorrect == Spec => []TypeOK
<1>1. IInv => TypeOK
  <2>. SUFFICES ASSUME IInv PROVE TypeOK
    OBVIOUS
  <2>. USE DEF IInv, TypeInv
  <2>1. Filled \in 0 .. numberThreads
    BY SlotsBound
  <2>2. numberClients \in 0 .. numberThreads /\ joined \in 0 .. numberThreads
    BY <2>1 DEF Filled, JoinInv
  <2>3. \A c \in Clients : executed[c] \in 0 .. MaxSent + 1
    <3>. TAKE c \in Clients
    <3>1. executed[c] <= sent[c] + 1 /\ sent[c] \in 0 .. MaxSent /\ executed[c] \in Nat
      BY AtMostOneMore
    <3>. QED BY <3>1
  <2>. QED
    BY <2>2, <2>3 DEF TypeOK
<1>. QED
  BY <1>1, Invariance, PTL

\* No worker runs when the file system is freed (signalTreatment, server.c:386),
\* if the handler runs on the main thread and found it outside the gap between
\* pthread_create and numberClients++, with any number of clients.
THEOREM NobodyServed == Spec => []CleanShutdown
<1>1. IInv => CleanShutdown
  <2>. SUFFICES ASSUME IInv, server \in {"freed", "exited"}, handler = Main, ~creating,
                       NEW c \in Clients, worker[c] # "none"
                PROVE  worker[c] = "done"
    BY DEF CleanShutdown, Finished
  <2>. USE DEF IInv, TypeInv
  <2>1. PICK i \in 0 .. numberClients - 1 : workers[i] = c
    BY DEF SlotInv, Filled, Started
  <2>. QED
    BY <2>1 DEF JoinInv
<1>. QED
  BY <1>1, Invariance, PTL

\* Only a client that dies inside a call has a request executed twice (the test
\* of recv for 0 alone, server.c:81), and only one such kills the server.
THEOREM OnlyTheDeadHarm == Spec => []HarmedByTheDead
<1>1. IInv => HarmedByTheDead
  <2>. SUFFICES ASSUME IInv PROVE HarmedByTheDead
    OBVIOUS
  <2>. USE DEF IInv, TypeInv
  <2>1. ASSUME NEW c \in Clients, executed[c] > sent[c] PROVE conn[c] = "dead"
    BY <2>1, AtMostOneMore
  <2>. QED
    BY <2>1 DEF KilledInv, HarmedByTheDead
<1>. QED
  BY <1>1, Invariance, PTL

-----------------------------------------------------------------------------
\* The client library.

HIDE LifecycleAssumption DEF LifecycleAssumption
LEMMA ApiSizes == TextInts \in Nat \ {0} /\ MaxMounts \in Nat /\ MaxCalls \in Nat
BY ApiAssumption DEF Api!ClientApiAssumption

USE ApiSizes

LEMMA LeastIsFirst ==
  ASSUME NEW S \in SUBSET Nat, S # {}
  PROVE  Api!Least(S) \in S
<1>1. PICK i \in S : \A j \in S : <<j, i>> \notin OpToRel(<, Nat)
  BY NatLessThanWellFounded, WFMin, Zenon
<1>2. \A j \in S : ~(j < i)
  BY <1>1 DEF OpToRel
<1>3. \A j \in S : i <= j
  BY <1>2
<1>. QED
  BY <1>3 DEF Api!Least

LEMMA NextSocket == ASSUME Api!Fresh # {} PROVE Api!Least(Api!Fresh) \in Api!Fresh
<1>1. Api!Fresh \in SUBSET Nat
  BY DEF Api!Fresh, Api!Sockets
<1>. QED
  BY <1>1, LeastIsFirst

-----------------------------------------------------------------------------
\* While a call waits it has a session.
BusyInv ==
  pc \in {"reply", "text"} => client_fds \in Api!Sockets /\ sockets[client_fds] = "open"

\* Standard input is never a session, a socket not yet made holds nothing, and
\* a server that has ended has no worker.
SocketInv ==
  /\ ~serving => \A i \in Api!Sockets : working[i] = "none"
  /\ sockets[Api!Stdin] \in {"file", "closed"}
  /\ \A i \in Api!Sockets :
       /\ sockets[i] # "file"
       /\ sockets[i] = "none" => stream[i] = <<>> /\ working[i] = "none"

\* What the call waits for on a socket in step: its request is with the worker,
\* or some of its answer is in the stream, or both; or the server ended before it
\* answered, or with the text to come.
Awaited(i) ==
  /\ \A k \in 1 .. Len(stream[i]) : stream[i][k].of = calls
  /\ \/ pc = "reply" /\ working[i] = call /\ Len(stream[i]) = 0
     \/ /\ pc = "reply" /\ working[i] = "none" /\ Len(stream[i]) = 1
        /\ call = "read" => stream[i][1].value # 0
     \/ /\ pc = "reply" /\ call = "read" /\ stream[i][1].value = 0
        /\ \/ working[i] = "text" /\ Len(stream[i]) = 1
           \/ working[i] = "none" /\ Len(stream[i]) = TextInts + 1
     \/ pc = "text" /\ working[i] = "text" /\ Len(stream[i]) = 0
     \/ pc = "text" /\ working[i] = "none" /\ Len(stream[i]) = TextInts
     \/ ~serving /\ working[i] = "none" /\ Len(stream[i]) = 0
     \/ ~serving /\ pc = "reply" /\ working[i] = "none" /\ Len(stream[i]) = 1

Waits(i) == pc \in {"reply", "text"} /\ i = client_fds

\* Every session that was not denied is in step, in a call and between calls.
StepInv ==
  \A i \in Api!Sockets \ denied :
    sockets[i] = "open" =>
      IF Waits(i) THEN Awaited(i) ELSE Len(stream[i]) = 0 /\ working[i] = "none"

ResultInv ==
  pc = "idle" /\ result.of # 0 => result.of = calls \/ client_fds \in denied

\* errno tells "not connected" only after a call on a socket that is not.
MisuseInv == errno = "ENOTCONN" \/ denied # {} => misused

ApiInv == Api!TypeOK /\ BusyInv /\ SocketInv /\ StepInv /\ ResultInv /\ MisuseInv

-----------------------------------------------------------------------------
LEMMA ApiInvInit == ASSUME Api!Init PROVE ApiInv
<1>. USE DEF Api!Init, Api!Quiet, Api!Descriptors, Api!Sockets, Api!Stdin
<1>1. Api!TypeOK
  <2>1. <<>> \in Seq(Api!Answer) /\ [of |-> 0, value |-> 0] \in Api!Answer
    BY EmptySeq DEF Api!Answer, Api!Values
  <2>2. stream \in [Api!Sockets -> Seq(Api!Answer)]
    BY <2>1
  <2>3. /\ client_fds \in Api!Descriptors
        /\ sockets \in [Api!Descriptors -> {"none", "file", "unconnected", "open", "closed"}]
        /\ working \in [Api!Sockets -> {"none", "read", "other", "text"}]
    OBVIOUS
  <2>4. /\ errno \in {"ENOTCONN", "other"} /\ call \in {"read", "other"} /\ calls \in 0 .. MaxCalls
        /\ serving \in BOOLEAN
    OBVIOUS
  <2> HIDE DEF Api!Descriptors, Api!Sockets, Api!Stdin
  <2>. QED
    BY <2>1, <2>2, <2>3, <2>4 DEF Api!TypeOK
<1>2. \A i \in Api!Sockets : i # Api!Stdin
  OBVIOUS
<1>. QED
  BY <1>1, <1>2 DEF ApiInv, BusyInv, SocketInv, StepInv, ResultInv, MisuseInv

\* A socket made by tfsMount was not there before, and is in no call.
LEMMA MountStep ==
  ASSUME ApiInv, NEW connected \in BOOLEAN, Api!tfsMount(connected)
  PROVE  ApiInv'
<1>. USE DEF ApiInv, Api!tfsMount, Api!Returns, Api!serverVars
<1>1. Api!Least(Api!Fresh) \in Api!Sockets /\ sockets[Api!Least(Api!Fresh)] = "none"
  BY NextSocket DEF Api!Fresh
<1>2. Api!Stdin \notin Api!Sockets
  BY DEF Api!Sockets, Api!Stdin
<1>3. /\ client_fds' \in Api!Descriptors /\ errno' \in {"ENOTCONN", "other"} /\ pc' = "idle"
      /\ sockets' \in [Api!Descriptors -> {"none", "file", "unconnected", "open", "closed"}]
  BY <1>1 DEF Api!TypeOK, Api!Descriptors
<1>4. result' \in Api!Answer
  BY DEF Api!Answer, Api!Values
<1>5. Api!TypeOK'
  BY <1>3, <1>4 DEF Api!TypeOK
<1>6. SocketInv'
  BY <1>1, <1>2 DEF SocketInv, Api!TypeOK, Api!Descriptors
<1>7. StepInv'
  BY <1>1, EmptySeq DEF StepInv, SocketInv, Api!TypeOK, Api!Descriptors, Waits
<1>. QED
  BY <1>3, <1>5, <1>6, <1>7 DEF BusyInv, ResultInv, MisuseInv

LEMMA UnmountStep == ASSUME ApiInv, Api!tfsUnmount PROVE ApiInv'
<1>. USE DEF ApiInv, Api!tfsUnmount, Api!Returns, Api!serverVars
<1>1. result' \in Api!Answer
  BY DEF Api!Answer, Api!Values
<1>2. Api!TypeOK'
  BY <1>1 DEF Api!TypeOK
<1>3. SocketInv'
  BY DEF SocketInv, Api!TypeOK, Api!Descriptors
<1>4. StepInv'
  BY DEF StepInv, Api!TypeOK, Api!Descriptors, Waits
<1>. QED
  BY <1>2, <1>3, <1>4 DEF BusyInv, ResultInv, MisuseInv

\* The request of a call is the only one of its session.
LEMMA SendStep ==
  ASSUME ApiInv, NEW kind \in {"read", "other"}, Api!Send(kind)
  PROVE  ApiInv'
<1>. USE DEF ApiInv, Api!Send, Api!Session
<1>1. client_fds \in Api!Sockets
  BY DEF Api!TypeOK, Api!Descriptors, SocketInv
<1>2. Api!TypeOK'
  <2>1. calls' \in 0 .. MaxCalls
    BY DEF Api!TypeOK
  <2>2. working' \in [Api!Sockets -> {"none", "read", "other", "text"}] /\ pc' = "reply"
        /\ call' \in {"read", "other"}
    BY DEF Api!TypeOK
  <2>. QED BY <2>1, <2>2 DEF Api!TypeOK
<1>3. SocketInv'
  BY DEF SocketInv, Api!TypeOK, Api!Descriptors
<1>4. StepInv'
  <2>. SUFFICES ASSUME NEW i \in Api!Sockets \ denied, sockets[i] = "open"
                PROVE  IF Waits(i)' THEN Awaited(i)'
                       ELSE Len(stream[i]) = 0 /\ working'[i] = "none"
    BY DEF StepInv
  <2>1. Len(stream[i]) = 0 /\ working[i] = "none"
    BY DEF StepInv, Waits
  <2>2. CASE i = client_fds
    BY <2>1, <2>2 DEF Waits, Awaited, Api!TypeOK
  <2>3. CASE i # client_fds
    BY <2>1, <2>3 DEF Waits, Api!TypeOK
  <2>. QED BY <2>2, <2>3
<1>. QED
  BY <1>1, <1>2, <1>3, <1>4 DEF BusyInv, ResultInv, MisuseInv

\* Calls that fail at once, and what happens outside the library.
LEMMA OtherStep ==
  ASSUME ApiInv,
         \/ Api!MountExits \/ Api!SendUnconnected \/ Api!SendNowhere \/ Api!SendGone
         \/ Api!ProgramSetsErrno
  PROVE  ApiInv'
<1>. USE DEF ApiInv, Api!serverVars, Api!clientVars
<1>1. UNCHANGED <<client_fds, sockets, call, denied, stream, working, calls, serving>>
  BY DEF Api!MountExits, Api!SendUnconnected, Api!SendNowhere, Api!SendGone, Api!ProgramSetsErrno
<1>2. pc = "idle" /\ pc' \in {"idle", "exited"}
  BY DEF Api!MountExits, Api!SendUnconnected, Api!SendNowhere, Api!SendGone, Api!ProgramSetsErrno,
         Api!Returns
<1>3. /\ result' = result \/ result'.of = 0
      /\ result' \in Api!Answer
  <2>1. ASSUME NEW v \in Api!Values, result' = [of |-> 0, value |-> v]
        PROVE  result'.of = 0 /\ result' \in Api!Answer
    BY <2>1 DEF Api!Answer
  <2>2. Api!NO_OPEN_SESSION \in Api!Values
    BY DEF Api!Values
  <2>. QED
    BY <2>1, <2>2 DEF Api!MountExits, Api!SendUnconnected, Api!SendNowhere, Api!SendGone,
                      Api!ProgramSetsErrno, Api!Returns, Api!TypeOK
<1>4. /\ errno' \in {"ENOTCONN", "other"} /\ misused' \in BOOLEAN
      /\ errno' = "ENOTCONN" \/ denied' # {} => misused'
  BY DEF Api!MountExits, Api!SendUnconnected, Api!SendNowhere, Api!SendGone, Api!NowhereError,
         Api!ProgramSetsErrno, Api!TypeOK, MisuseInv
<1>5. Api!TypeOK'
  BY <1>1, <1>2, <1>3, <1>4 DEF Api!TypeOK
<1>6. StepInv' /\ SocketInv' /\ BusyInv'
  BY <1>1, <1>2 DEF StepInv, SocketInv, BusyInv, Waits
<1>7. ResultInv'
  BY <1>1, <1>2, <1>3 DEF ResultInv
<1>. QED
  BY <1>4, <1>5, <1>6, <1>7 DEF MisuseInv

\* A call that waits for what is not to come returns, with nothing in its stream.
LEMMA NothingStep == ASSUME ApiInv, Api!ReceiveNothing PROVE ApiInv'
<1>. USE DEF ApiInv, Api!ReceiveNothing, Api!Returns, Api!serverVars
<1>1. client_fds \in Api!Sockets /\ stream[client_fds] = <<>>
  BY DEF BusyInv
<1>2. result'.of = 0 /\ result' \in Api!Answer
  BY DEF Api!Answer, Api!Values
<1>3. errno' \in {"ENOTCONN", "other"} /\ (errno' = "ENOTCONN" => errno = "ENOTCONN")
  BY DEF Api!TypeOK
<1>4. Api!TypeOK'
  BY <1>2, <1>3 DEF Api!TypeOK
<1>5. SocketInv' /\ BusyInv' /\ ResultInv' /\ MisuseInv'
  BY <1>2, <1>3 DEF SocketInv, BusyInv, ResultInv, MisuseInv
<1>6. StepInv'
  BY <1>1, EmptySeq DEF StepInv, SocketInv, Waits
<1>. QED
  BY <1>4, <1>5, <1>6

\* The end of the server leaves of a call what had come.
LEMMA EndStep == ASSUME ApiInv, Api!ServerEnds PROVE ApiInv'
<1>. USE DEF ApiInv, Api!ServerEnds, Api!clientVars
<1>1. Api!TypeOK'
  BY DEF Api!TypeOK
<1>2. SocketInv' /\ BusyInv' /\ ResultInv' /\ MisuseInv'
  BY DEF SocketInv, BusyInv, ResultInv, MisuseInv
<1>3. StepInv'
  <2>. SUFFICES ASSUME NEW i \in Api!Sockets \ denied, sockets[i] = "open"
                PROVE  IF Waits(i)' THEN Awaited(i)' ELSE Len(stream[i]) = 0
    BY DEF StepInv
  <2>1. IF Waits(i) THEN Awaited(i) ELSE Len(stream[i]) = 0
    BY DEF StepInv
  <2>. QED
    BY <2>1 DEF Waits, Awaited
<1>. QED
  BY <1>1, <1>2, <1>3

-----------------------------------------------------------------------------
LEMMA RestArithmetic ==
  ASSUME NEW n \in Nat, NEW length \in Nat, n <= length
  PROVE  /\ (IF n + 1 <= length THEN length - (n + 1) + 1 ELSE 0) = length - n
         /\ length - (n + 1) + 1 = length - n
         /\ \A k \in 1 .. length - n : n + 1 + k - 1 = k + n
  OBVIOUS

LEMMA RestOfSequence ==
  ASSUME NEW S, NEW s \in Seq(S), NEW n \in Nat, n <= Len(s)
  PROVE  /\ SubSeq(s, n + 1, Len(s)) \in Seq(S)
         /\ Len(SubSeq(s, n + 1, Len(s))) = Len(s) - n
         /\ \A k \in 1 .. Len(s) - n : SubSeq(s, n + 1, Len(s))[k] = s[k + n]
<1>. DEFINE t == SubSeq(s, n + 1, Len(s))
<1>1. Len(s) \in Nat /\ s \in [1 .. Len(s) -> S]
  BY LenProperties
<1>2. \A k \in (n + 1) .. Len(s) : s[k] \in S
  BY <1>1
<1>3. /\ t \in Seq(S)
      /\ Len(t) = IF n + 1 <= Len(s) THEN Len(s) - (n + 1) + 1 ELSE 0
      /\ \A k \in 1 .. Len(s) - (n + 1) + 1 : t[k] = s[n + 1 + k - 1]
  BY <1>1, <1>2, SubSeqProperties
<1>4. /\ (IF n + 1 <= Len(s) THEN Len(s) - (n + 1) + 1 ELSE 0) = Len(s) - n
      /\ Len(s) - (n + 1) + 1 = Len(s) - n
      /\ \A k \in 1 .. Len(s) - n : n + 1 + k - 1 = k + n
  BY <1>1, RestArithmetic, Zenon
<1>. HIDE DEF t
<1>5. Len(t) = Len(s) - n
  BY <1>3, <1>4, Zenon
<1>6. \A k \in 1 .. Len(s) - n : t[k] = s[k + n]
  BY <1>3, <1>4, Zenon
<1>. QED
  BY <1>3, <1>5, <1>6, Zenon DEF t

\* What Take leaves.
LEMMA TakeEffect ==
  ASSUME Api!TypeOK, client_fds \in Api!Sockets,
         NEW n \in Nat, n <= Len(stream[client_fds]), Api!Take(n)
  PROVE  /\ stream' \in [Api!Sockets -> Seq(Api!Answer)]
         /\ Len(stream'[client_fds]) = Len(stream[client_fds]) - n
         /\ \A k \in 1 .. Len(stream'[client_fds]) :
              stream'[client_fds][k] = stream[client_fds][k + n]
         /\ \A i \in Api!Sockets \ {client_fds} : stream'[i] = stream[i]
<1>. DEFINE t == SubSeq(stream[client_fds], n + 1, Len(stream[client_fds]))
<1>1. stream[client_fds] \in Seq(Api!Answer)
  BY DEF Api!TypeOK
<1>2. stream' = [stream EXCEPT ![client_fds] = t]
  BY DEF Api!Take
<1>3. /\ t \in Seq(Api!Answer)
      /\ Len(t) = Len(stream[client_fds]) - n
      /\ \A k \in 1 .. Len(stream[client_fds]) - n : t[k] = stream[client_fds][k + n]
  BY <1>1, RestOfSequence, Zenon
<1>. HIDE DEF t
<1>. QED
  BY <1>2, <1>3 DEF Api!TypeOK

\* The reply taken is that of the call, unless its session was denied before; and
\* when the call returns, nothing of it is left, unless it is denied now.
LEMMA ReplyStep == ASSUME ApiInv, Api!ReceiveReply PROVE ApiInv'
<1>. USE DEF ApiInv
<1>. DEFINE s == stream[client_fds]
            answer == Head(s)
<1>1. client_fds \in Api!Sockets /\ sockets[client_fds] = "open"
  BY DEF BusyInv, Api!ReceiveReply
<1>2. s \in Seq(Api!Answer) /\ Len(s) \in Nat \ {0} /\ answer = s[1] /\ answer \in Api!Answer
  BY <1>1, LenProperties, EmptySeq, HeadTailProperties DEF Api!TypeOK, Api!ReceiveReply
<1>3. UNCHANGED <<client_fds, sockets, errno, call, misused, working, calls, serving>> /\ Api!Take(1)
      /\ pc = "reply"
  BY DEF Api!ReceiveReply
<1>4. /\ stream' \in [Api!Sockets -> Seq(Api!Answer)]
      /\ Len(stream'[client_fds]) = Len(s) - 1
      /\ \A k \in 1 .. Len(stream'[client_fds]) : stream'[client_fds][k] = s[k + 1]
      /\ \A i \in Api!Sockets \ {client_fds} : stream'[i] = stream[i]
  BY <1>1, <1>2, <1>3, TakeEffect
<1>5. \/ /\ Api!NotConnected /\ pc' = "idle" /\ result' = [of |-> 0, value |-> Api!NO_OPEN_SESSION]
         /\ denied' = denied \cup (IF Api!TextFollows(answer) THEN {client_fds} ELSE {})
      \/ /\ ~Api!NotConnected /\ Api!TextFollows(answer)
         /\ pc' = "text" /\ UNCHANGED <<result, denied>>
      \/ /\ ~Api!NotConnected /\ ~Api!TextFollows(answer)
         /\ pc' = "idle" /\ result' = [of |-> answer.of, value |-> answer.value]
         /\ UNCHANGED denied
  BY DEF Api!ReceiveReply, Api!Deny, Api!Returns
<1>. HIDE DEF s, answer
<1>6. Api!TypeOK'
  <2>1. result' \in Api!Answer
    BY <1>2, <1>5 DEF Api!Answer, Api!Values, Api!TypeOK
  <2>2. denied' \subseteq Api!Sockets /\ pc' \in {"idle", "reply", "text", "exited"}
    BY <1>1, <1>5 DEF Api!TypeOK
  <2>. QED BY <1>3, <1>4, <2>1, <2>2 DEF Api!TypeOK
<1>7. BusyInv'
  BY <1>1, <1>3 DEF BusyInv
<1>8. SocketInv'
  BY <1>1, <1>3, <1>4 DEF SocketInv
<1>9. MisuseInv'
  BY <1>3, <1>5 DEF MisuseInv, Api!NotConnected
<1>10. ASSUME client_fds \notin denied
       PROVE  /\ answer.of = calls
              /\ \A k \in 1 .. Len(stream'[client_fds]) : stream'[client_fds][k].of = calls
              /\ IF Api!TextFollows(answer)
                 THEN \/ working[client_fds] = "text" /\ Len(s) = 1
                      \/ working[client_fds] = "none" /\ Len(s) = TextInts + 1
                      \/ ~serving /\ working[client_fds] = "none" /\ Len(s) = 1
                 ELSE working[client_fds] = "none" /\ Len(s) = 1
  <2>1. Awaited(client_fds)
    BY <1>1, <1>3, <1>10 DEF StepInv, Waits
  <2>2. \A k \in 1 .. Len(s) : s[k].of = calls
    BY <2>1 DEF Awaited, s
  <2>3. /\ answer.of = calls
        /\ \A k \in 1 .. Len(stream'[client_fds]) : stream'[client_fds][k].of = calls
    <3>1. answer.of = calls
      BY <1>2, <2>2
    <3>2. \A k \in 1 .. Len(stream'[client_fds]) : stream'[client_fds][k].of = calls
      <4>. TAKE k \in 1 .. Len(stream'[client_fds])
      <4>1. Len(stream'[client_fds]) = Len(s) - 1
        BY <1>4
      <4>2. Len(s) \in Nat
        BY <1>2
      <4>3. k + 1 \in 1 .. Len(s)
        BY <4>1, <4>2
      <4>4. stream'[client_fds][k] = s[k + 1]
        BY <1>4
      <4>. QED
        BY <2>2, <4>3, <4>4
    <3>. QED
      BY <3>1, <3>2
  <2>4. \/ working[client_fds] = "none" /\ Len(s) = 1 /\ (call = "read" => s[1].value # 0)
        \/ ~serving /\ working[client_fds] = "none" /\ Len(s) = 1
        \/ /\ call = "read" /\ s[1].value = 0
           /\ \/ working[client_fds] = "text" /\ Len(s) = 1
              \/ working[client_fds] = "none" /\ Len(s) = TextInts + 1
    BY <1>2, <1>3, <2>1 DEF Awaited, s
  <2>. QED BY <1>2, <2>3, <2>4 DEF Api!TextFollows
<1>11. StepInv'
  <2>. SUFFICES ASSUME NEW i \in Api!Sockets \ denied', sockets[i] = "open"
                PROVE  IF Waits(i)' THEN Awaited(i)'
                       ELSE Len(stream'[i]) = 0 /\ working[i] = "none"
    BY <1>3 DEF StepInv
  <2>1. i \notin denied
    BY <1>5
  <2>2. CASE i # client_fds
    BY <2>1, <2>2, <1>3, <1>4 DEF StepInv, Waits
  <2>3. CASE i = client_fds /\ pc' = "text"
    <3>1. Api!TextFollows(answer)
      BY <2>3, <1>5
    <3>. QED
      BY <2>1, <2>3, <3>1, <1>2, <1>3, <1>4, <1>10 DEF Awaited, Waits
  <2>4. CASE i = client_fds /\ pc' = "idle"
    <3>1. ~Api!TextFollows(answer)
      BY <2>4, <1>5
    <3>. QED
      BY <2>1, <2>4, <3>1, <1>2, <1>3, <1>4, <1>10 DEF Waits
  <2>. QED BY <2>2, <2>3, <2>4, <1>5
<1>12. ResultInv'
  BY <1>2, <1>3, <1>5, <1>10 DEF ResultInv
<1>. QED
  BY <1>6, <1>7, <1>8, <1>9, <1>11, <1>12

LEMMA TextStep == ASSUME ApiInv, Api!ReceiveText PROVE ApiInv'
<1>. USE DEF ApiInv
<1>. DEFINE s == stream[client_fds]
            n == IF Len(s) < Api!TextRoom THEN Len(s) ELSE Api!TextRoom
<1>1. client_fds \in Api!Sockets /\ sockets[client_fds] = "open"
  BY DEF BusyInv, Api!ReceiveText
<1>2. s \in Seq(Api!Answer) /\ Len(s) \in Nat \ {0} /\ Head(s) = s[1] /\ Head(s) \in Api!Answer
  BY <1>1, LenProperties, EmptySeq, HeadTailProperties DEF Api!TypeOK, Api!ReceiveText
<1>3. /\ UNCHANGED <<client_fds, sockets, errno, call, denied, misused, working, calls, serving>>
      /\ Api!Take(n) /\ pc = "text" /\ pc' = "idle" /\ result' = [of |-> Head(s).of, value |-> Api!TEXT]
  BY DEF Api!ReceiveText, Api!Returns
<1>4. n \in Nat /\ n <= Len(s)
  BY <1>2 DEF Api!TextRoom
<1>. HIDE DEF n
<1>5. /\ stream' \in [Api!Sockets -> Seq(Api!Answer)]
      /\ Len(stream'[client_fds]) = Len(s) - n
      /\ \A i \in Api!Sockets \ {client_fds} : stream'[i] = stream[i]
  BY <1>1, <1>3, <1>4, TakeEffect
<1>. HIDE DEF s
<1>6. result' \in Api!Answer
  BY <1>2, <1>3 DEF Api!Answer, Api!Values
<1>7. Api!TypeOK'
  BY <1>3, <1>5, <1>6 DEF Api!TypeOK
<1>8. BusyInv' /\ SocketInv' /\ MisuseInv'
  BY <1>1, <1>3, <1>5 DEF BusyInv, SocketInv, MisuseInv
<1>9. ASSUME client_fds \notin denied
      PROVE  Head(s).of = calls /\ working[client_fds] = "none" /\ Len(s) = TextInts
  <2>1. Awaited(client_fds)
    BY <1>1, <1>3, <1>9 DEF StepInv, Waits
  <2>. QED BY <2>1, <1>2, <1>3 DEF Awaited, s
<1>10. StepInv'
  <2>. SUFFICES ASSUME NEW i \in Api!Sockets \ denied, sockets[i] = "open"
                PROVE  Len(stream'[i]) = 0 /\ working[i] = "none"
    BY <1>3 DEF StepInv, Waits
  <2>1. CASE i # client_fds
    BY <2>1, <1>3, <1>5 DEF StepInv, Waits
  <2>2. CASE i = client_fds
    <3>1. n = TextInts
      BY <2>2, <1>9 DEF n, Api!TextRoom, s
    <3>. QED
      BY <2>2, <3>1, <1>5, <1>9
  <2>. QED BY <2>1, <2>2
<1>11. ResultInv'
  BY <1>3, <1>9 DEF ResultInv
<1>. QED
  BY <1>7, <1>8, <1>10, <1>11

-----------------------------------------------------------------------------
\* What Push leaves.
LEMMA PushEffect ==
  ASSUME Api!TypeOK, NEW i \in Api!Sockets, NEW answers \in Seq(Api!Answer), Api!Push(i, answers)
  PROVE  /\ stream' \in [Api!Sockets -> Seq(Api!Answer)]
         /\ stream'[i] = stream[i] \o answers
         /\ Len(stream[i]) \in Nat /\ Len(answers) \in Nat
         /\ Len(stream'[i]) = Len(stream[i]) + Len(answers)
         /\ \A k \in 1 .. Len(stream'[i]) :
              stream'[i][k] = IF k <= Len(stream[i]) THEN stream[i][k]
                              ELSE answers[k - Len(stream[i])]
         /\ \A j \in Api!Sockets \ {i} : stream'[j] = stream[j]
  BY ConcatProperties, LenProperties DEF Api!Push, Api!TypeOK

\* A worker with a request on a session in step is that of the call that waits.
LEMMA WorkerAnswersCall ==
  ASSUME ApiInv, NEW i \in Api!Sockets \ denied, sockets[i] = "open", working[i] # "none"
  PROVE  Waits(i) /\ Awaited(i)
  BY DEF ApiInv, StepInv

LEMMA WorkerReply == ASSUME ApiInv, NEW i \in Api!Sockets, Api!Reply(i) PROVE ApiInv'
<1>. USE DEF ApiInv
<1>1. PICK value \in {0, Api!FILE_NOT_FOUND} :
        /\ Api!Push(i, <<[of |-> calls, value |-> value]>>)
        /\ working' = [working EXCEPT ![i] =
                         IF @ = "read" /\ value = 0 THEN "text" ELSE "none"]
  BY DEF Api!Reply
<1>. DEFINE a == [of |-> calls, value |-> value]
<1>2. UNCHANGED <<client_fds, sockets, errno, pc, call, result, denied, misused, calls, serving>>
      /\ working[i] \in {"read", "other"}
  BY DEF Api!Reply, Api!clientVars
<1>3. a \in Api!Answer /\ <<a>> \in Seq(Api!Answer) /\ Len(<<a>>) = 1 /\ <<a>>[1] = a
  BY DEF Api!Answer, Api!Values, Api!TypeOK
<1>4. /\ stream' \in [Api!Sockets -> Seq(Api!Answer)]
      /\ Len(stream[i]) \in Nat
      /\ Len(stream'[i]) = Len(stream[i]) + 1
      /\ \A k \in 1 .. Len(stream'[i]) :
           stream'[i][k] = IF k <= Len(stream[i]) THEN stream[i][k]
                           ELSE <<a>>[k - Len(stream[i])]
      /\ \A j \in Api!Sockets \ {i} : stream'[j] = stream[j]
  BY <1>1, <1>3, PushEffect
<1>5. Api!TypeOK'
  BY <1>1, <1>2, <1>4 DEF Api!TypeOK
<1>6. BusyInv' /\ ResultInv' /\ MisuseInv'
  BY <1>2 DEF BusyInv, ResultInv, MisuseInv
<1>7. SocketInv'
  BY <1>1, <1>2, <1>4 DEF SocketInv, Api!TypeOK
<1>8. StepInv'
  <2>. SUFFICES ASSUME NEW j \in Api!Sockets \ denied, sockets[j] = "open"
                PROVE  IF Waits(j)' THEN Awaited(j)'
                       ELSE Len(stream'[j]) = 0 /\ working'[j] = "none"
    BY <1>2 DEF StepInv
  <2>1. CASE j # i
    BY <2>1, <1>1, <1>2, <1>4 DEF StepInv, Waits, Awaited, Api!TypeOK
  <2>2. CASE j = i
    <3>1. Waits(i) /\ Awaited(i)
      BY <2>2, <1>2, WorkerAnswersCall
    <3>2. pc = "reply" /\ working[i] = call /\ Len(stream[i]) = 0
      BY <3>1, <1>2 DEF Awaited
    <3>3. Len(stream'[i]) = 1 /\ stream'[i][1] = a
      BY <3>2, <1>3, <1>4
    <3>4. a.of = calls /\ a.value = value
      OBVIOUS
    <3>5. working'[i] = IF call = "read" /\ value = 0 THEN "text" ELSE "none"
      BY <3>2, <1>1 DEF Api!TypeOK
    <3>. HIDE DEF a
    <3>6. Awaited(i)'
      BY <3>2, <3>3, <3>4, <3>5, <1>2 DEF Awaited
    <3>. QED BY <2>2, <3>1, <3>6, <1>2 DEF Waits
  <2>. QED BY <2>1, <2>2
<1>. QED
  BY <1>5, <1>6, <1>7, <1>8

LEMMA WorkerText == ASSUME ApiInv, NEW i \in Api!Sockets, Api!SendText(i) PROVE ApiInv'
<1>. USE DEF ApiInv
<1>1. PICK value \in {0, Api!TEXT} : Api!Push(i, [k \in 1 .. TextInts |-> [of |-> calls, value |-> value]])
  BY DEF Api!SendText
<1>. DEFINE text == [k \in 1 .. TextInts |-> [of |-> calls, value |-> value]]
<1>2. /\ UNCHANGED <<client_fds, sockets, errno, pc, call, result, denied, misused, calls, serving>>
      /\ working[i] = "text" /\ working' = [working EXCEPT ![i] = "none"]
  BY DEF Api!SendText, Api!clientVars
<1>3. /\ text \in Seq(Api!Answer) /\ Len(text) = TextInts
      /\ \A k \in 1 .. TextInts : text[k].of = calls
  <2>1. [of |-> calls, value |-> value] \in Api!Answer
    BY DEF Api!Answer, Api!Values, Api!TypeOK
  <2>2. text \in [1 .. TextInts -> Api!Answer]
    BY <2>1
  <2>. QED BY <2>2
<1>. HIDE DEF text
<1>4. /\ stream' \in [Api!Sockets -> Seq(Api!Answer)]
      /\ Len(stream[i]) \in Nat
      /\ Len(stream'[i]) = Len(stream[i]) + TextInts
      /\ \A k \in 1 .. Len(stream'[i]) :
           stream'[i][k] = IF k <= Len(stream[i]) THEN stream[i][k]
                           ELSE text[k - Len(stream[i])]
      /\ \A j \in Api!Sockets \ {i} : stream'[j] = stream[j]
  <2>1. Api!Push(i, text)
    BY <1>1 DEF text
  <2>. QED BY <2>1, <1>3, PushEffect
<1>5. Api!TypeOK'
  BY <1>2, <1>4 DEF Api!TypeOK
<1>6. BusyInv' /\ ResultInv' /\ MisuseInv'
  BY <1>2 DEF BusyInv, ResultInv, MisuseInv
<1>7. SocketInv'
  BY <1>2, <1>4 DEF SocketInv, Api!TypeOK
<1>8. StepInv'
  <2>. SUFFICES ASSUME NEW j \in Api!Sockets \ denied, sockets[j] = "open"
                PROVE  IF Waits(j)' THEN Awaited(j)'
                       ELSE Len(stream'[j]) = 0 /\ working'[j] = "none"
    BY <1>2 DEF StepInv
  <2>1. CASE j # i
    BY <2>1, <1>2, <1>4 DEF StepInv, Waits, Awaited, Api!TypeOK
  <2>2. CASE j = i
    <3>1. Waits(i) /\ Awaited(i)
      BY <2>2, <1>2, WorkerAnswersCall
    <3>2. /\ working'[i] = "none"
          /\ \/ pc = "text" /\ Len(stream[i]) = 0
             \/ pc = "reply" /\ call = "read" /\ stream[i][1].value = 0 /\ Len(stream[i]) = 1
      BY <3>1, <1>2 DEF Awaited, Api!TypeOK
    <3>3. \A k \in 1 .. Len(stream'[i]) : stream'[i][k].of = calls
      <4>. TAKE k \in 1 .. Len(stream'[i])
      <4>1. k <= Len(stream[i]) => stream'[i][k] = stream[i][k] /\ k \in 1 .. Len(stream[i])
        BY <1>4
      <4>2. k > Len(stream[i]) => stream'[i][k] = text[k - Len(stream[i])]
                                  /\ k - Len(stream[i]) \in 1 .. TextInts
        BY <1>4
      <4>3. k <= Len(stream[i]) \/ k > Len(stream[i])
        BY <1>4
      <4>. QED BY <3>1, <4>1, <4>2, <4>3, <1>3 DEF Awaited
    <3>4. Len(stream[i]) = 1 => stream'[i][1] = stream[i][1]
      BY <1>4
    <3>5. \/ pc = "text" /\ Len(stream'[i]) = TextInts
          \/ /\ pc = "reply" /\ call = "read" /\ stream'[i][1].value = 0
             /\ Len(stream'[i]) = TextInts + 1
      <4>1. Len(stream'[i]) = Len(stream[i]) + TextInts
        BY <1>4, Zenon
      <4>2. 0 + TextInts = TextInts /\ 1 + TextInts = TextInts + 1
        OBVIOUS
      <4>. QED BY <3>2, <3>4, <4>1, <4>2, Zenon
    <3>6. working'[i] = "none" /\ pc' = pc /\ call' = call /\ calls' = calls
      BY <3>2, <1>2
    <3>7. Awaited(i)'
      BY <3>3, <3>5, <3>6 DEF Awaited
    <3>. QED BY <2>2, <3>1, <3>7, <1>2 DEF Waits
  <2>. QED BY <2>1, <2>2
<1>. QED
  BY <1>5, <1>6, <1>7, <1>8

-----------------------------------------------------------------------------
LEMMA ApiInvNext == ASSUME ApiInv, [Api!Next]_Api!vars PROVE ApiInv'
<1>1. CASE UNCHANGED Api!vars
  BY <1>1 DEF Api!vars, Api!clientVars, Api!serverVars, ApiInv, Api!TypeOK, BusyInv, SocketInv, StepInv,
              ResultInv, MisuseInv, Waits, Awaited
<1>. QED
  BY <1>1, MountStep, UnmountStep, SendStep, OtherStep, NothingStep, EndStep, ReplyStep, TextStep,
     WorkerReply, WorkerText DEF Api!Next, Api!Receive, Api!Worker

\* Calls and replies keep in step (tfsRead and the others of client.c) until a
\* read is told of no session with its text still to come, whatever the length of
\* a text and however many mounts and calls a program makes.
THEOREM CallsInStep == Api!Spec => []InStep
<1>1. Api!Init => ApiInv
  BY ApiInvInit
<1>2. ApiInv /\ [Api!Next]_Api!vars => ApiInv'
  BY ApiInvNext
<1>3. ApiInv => InStep
  <2>. SUFFICES ASSUME ApiInv PROVE InStep
    OBVIOUS
  <2>1. \A i \in Api!Sockets : Len(stream[i]) = 0 => stream[i] = <<>>
    BY EmptySeq DEF ApiInv, Api!TypeOK
  <2>. QED
    BY <2>1 DEF ApiInv, InStep, Api!InStep, StepInv, ResultInv, MisuseInv, Waits
<1>. QED
  BY <1>1, <1>2, <1>3, PTL DEF Api!Spec
=============================================================================
