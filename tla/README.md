# leic-a: TLA+ models, model checks and proofs

The repository `leic-a` collects the course projects of a degree in computer engineering. They are
independent programs in C, Java, Python, JavaScript, SQL, Prolog and assembly. This directory
specifies those whose correctness depends on something hard to test: threads and processes that
share files, protocols over sockets, and data structures kept by hand in several places at once.
Source paths below are relative to `src/`.

## 1. The system and its components

### TecnicoFS, a multi-threaded file server (`C/SO_project/projeto_final`)

| Part | State | Operations |
|---|---|---|
| request handling, `server/server.c` `trataCliente`, `server/fs.c` | directory (a binary search tree, name to i-node number), `globalFileVector` (openings of each i-node), per thread `OpenFiles`, the request buffer and locals that survive from one request to the next | `c` create, `d` delete, `r` rename, `o` open, `x` close, `l` read, `w` write |
| i-node table, `server/lib/inodes.c` | array of owner, permissions, content | create, delete, get, set |
| threads and shutdown, `server/server.c` `acceptClient`, `signalTreatment` | `workers`, `numberClients`, the sockets | accept, `pthread_create`, receive, send, SIGINT, join, free, exit |
| tree, `server/lib/bst.c`, `server/sync.c` | the nodes, their read-write lock | search, insert, remove |
| client API, `client/client.c` | the socket, `errno` | mount, unmount, and calls of one request and one reply, or of a reply and a text |

The worker threads share the directory (under a read-write lock), the i-node table (under a mutex)
and `globalFileVector` (under nothing: `changeVector`, which would take a lock, is never called). A
command takes several critical sections; between them other threads run. What must be right: the
directory never names a freed or a reused i-node, a file that is open is not deleted, a client's own
files are not disturbed by others, shutdown frees nothing under a running thread, and requests are
answered, once.

### RC, two-factor file storage (`C/RC_project/Code`)

| Part | State | Operations |
|---|---|---|
| authentication server `as.c` | per user the files `pass`, `reg`, `vc`, `rid`, `login`, `tid`; the set of connections; one forked child per request | register, unregister, login, request, authenticate, validate a transaction |
| file server `fs.c` | per user a directory; the connections; one forked child per request, all on one UDP socket | list, retrieve, upload, delete, remove |
| personal device `pd.c` | registered or not | register, show a validation code, unregister |
| user application `user.c` | login, `RID`, `TID` | login, req, val, file commands |

The four talk over TCP and UDP. What must be right: answers reach who asked, on the data of who
asked; a transaction is only used for the user it was issued to; nobody waits for ever for a
datagram that cannot come.

### ASA, maximum flow (`C/ASA_project.c`)

A city of M x N crossings, supermarkets and citizens; the answer is how many citizens reach a
supermarket without two of them meeting at a crossing. Each crossing is two vertices, and
Edmonds-Karp runs on adjacency lists with capacities left implicit: an edge on a path is deleted and
its reverse inserted. What must be right: the lists stay a residual graph, each search's parent
pointers form a path, flow is conserved and the answer is maximal, and the loop ends.

### IAED, contact book (`C/IAED_project.c`)

Contacts in a doubly linked list, in a hash table of doubly linked chains, and counted by e-mail
domain. Commands: add, list, find, delete, change e-mail, count a domain, exit. What must be right:
the three structures agree after any sequence of commands.

### PO, library (`Java/PO_project`)

`m19-core` keeps users, works, loans, fines, suspension, users' behaviour records and notifications;
`m19-app` is its text interface. A loan is recorded in four places, a user's situation is a cached
value, and a save writes only if a flag says that something changed. What must be right: these
agree, debtors do not borrow, notifications are not lost.

### BD, a clinic's database and its web pages (`SQL/BD_project`)

Tables of doctors, consultations, prescriptions, analyses and sales, with keys, foreign keys and two
triggers (`schema.sql`, `RI.sql`), and the pages of `web/app.cgi`, each of which executes its
statements one by one and commits, whatever came of them. What must be right: pages that run at once
leave no half of an edit or of a sale, and the rules the triggers check hold of what is committed.

### IAC, an assembly game (`Assembly/IAC_project.as`)

Two gorillas throw bananas at each other, on a 16-bit processor. The main program and the routines of
its thirteen interrupts share registers, flags and the stack, and save nothing. A banana flies in 8.8
fixed point. What must be right: what is thrown is what was typed, the stack does not reach the
interrupt vectors, no throw hangs, and a hit is one.

### The rest

The search of the library, the Prolog puzzle solver (`Prolog`), the Python board game and
decision-tree learner (`Python`) and the Three.js scenes (`Three.js`) are not modelled (section 5).

## 2. Modules

| Module | Models | Extended or used by |
|---|---|---|
| `Inodes` | `inodes.c`, as operators on a table | `TecnicoFS` |
| `TecnicoFS` | `trataCliente`, `fs.c` | `MCTecnicoFS`, `TecnicoFSProofs` |
| `TecnicoFSProofs` | theorems about `TecnicoFS` | |
| `Directory` | abstract specification of the directory | `SearchTree` (`INSTANCE`) |
| `SearchTree` | `bst.c`, `sync.c`, and `lookup`, `create`, `delete` of `fs.c` | `MCSearchTree`, `FileServersProofs` |
| `ServerLifecycle` | `acceptClient`, `signalTreatment`, sockets | `MCConnections` |
| `ClientApi` | `client.c`, and the worker at the other end | `MCConnections` (`INSTANCE`) |
| `ConnectionsProofs` | theorems about these two, on `MCConnections` | |
| `EdmondsKarp` | the whole of `ASA_project.c` after parsing | `MCEdmondsKarp`, `ListsProofs` |
| `AddressBook` | abstract specification of the contact book | `ContactBook` (`INSTANCE`) |
| `ContactBook` | `IAED_project.c` | `MCContactBook`, `ListsProofs` |
| `ListsProofs` | theorems about `EdmondsKarp`, and about `ContactBook`, its refinement of `AddressBook` among them | |
| `Library` | `m19-core` and the commands of `m19-app` that change it | `MCLibrary` |
| `LibraryFiles` | `LibraryManager`, `DoSave`, `DoOpen`, `App.main` | `MCLibrary` (`INSTANCE`) |
| `LibraryProofs` | theorems about these two, on `MCLibrary` | |
| `Authentication` | `as.c`, `pd.c`, and `user.c` up to its TID | `MCAuthentication`, `AuthenticationProofs` |
| `AuthenticationProofs` | theorems about `Authentication` | |
| `FileServer` | `fs.c`, with `fsInput` of `as.c` and the file commands of `user.c` | `MCFileServer`, `FileServersProofs` |
| `FileServersProofs` | theorems about the two file servers: `FileServer`, and `SearchTree`, its refinement of `Directory` among them | |
| `Clinic` | the tables and the pages of `app.cgi` that change them | `MCClinic`, `ClinicProofs` |
| `ClinicProofs` | theorems about `Clinic` | |
| `Gorillas` | the main program and the interrupts of `IAC_project.as` | `MCGame`, `GorillasProofs` |
| `Banana` | `TRAJETORIA`, `cos`, `sin`, `MULTIPLICA`, and the test for a hit | `MCGame` (`INSTANCE`), `GorillasProofs` |
| `GorillasProofs` | theorems about `Gorillas` and, through `MCGame`, about `Banana` | |

A module `MC...` gives the constants of an instance for TLC. Three of them (`MCConnections`,
`MCLibrary`, `MCGame`) hold two modules that share no state, each in behaviours of its own: in the
behaviours of one the other stays at its end, or at its start, and never moves. They are no
composition; the two are in one run because each answers a part of one question. A constant named
`Bounds` is likewise a set of instances of one module: a behaviour picks one and keeps it.

### TecnicoFS

`pc[s]` is where the thread of session `s` is; `"recv"` stands for its blocking `recv`. One action
is one critical section, or one load or store of `globalFileVector`, with the thread-local code
around it: `CreateLookup`, `CreateInsert`; `DeleteLookup`, `DeleteCheck`, `DeleteRemove`,
`DeleteFree`; `RenameLookup` to `RenameCreate`; `OpenLookup`, `OpenGet`, `OpenLoad`, `OpenStore`;
`CloseCheck`, `CloseLoad`, `CloseStore`; `Read`; `WriteCheck`, `WriteSet`. A critical section is
atomic because all it touches is touched under its lock; that this is so of the tree is what
`SearchTree` shows. `+=` and `-=` on the shared array are two steps, as the compiler makes them.

The variable `stack` holds the locals of the loop body that a command may leave to the next one
(`iNumber`, `permitido`, `ownerPerm`, `othersPerm`): they are declared without an initialiser in a
block that is entered again, so they keep their slot. `StackGarbage` is what they hold at first.
Rename, read and write depend on them. An `inode_get` of an invalid number leaves its results as
`malloc` left them: any value, chosen by `\E`.

Left out: the length of a read and the text read, formatting of requests, the two-byte permissions
buffer, `malloc` failures, the number of i-nodes and slots (parameters here). The cell of
`globalFileVector` at -1 is the memory before the array, which an open of a node with inumber -1
increments. A create that finds the table full binds its name to -1 and reports success, as the code
does (`fs.c:39`). Descriptors are those `tfsOpen` gives: one outside `OpenFiles`, which `server.c:205`,
`227` and `271` use as an index unchecked, reads or writes other memory, and is never sent here.

### SearchTree and Directory

`heap` maps cells to nodes, `Freed` where there is none. A step is one call of a recursive function:
`Search` of `search`, `Descend` of `insert` or `remove_item`, `FindMin` of `find_min`, so that the
threads alternate between any two nodes as far as the lock lets them. The last call of `insert` or
`remove_item` (`Insert`, `RemoveNone`, `RemoveItem`, `TakeMin`) is one step with the returns of those
before it (`Return`): `above` is the node of the call before, the only one whose side changes, as the
others store what they had. `m` and `low` are the node of `find_min` and the one before it, where
`remove_min`, which goes the same way once more, takes the least node out (`Joined`). The node that is
removed is freed with that step; the program frees it a little earlier, having copied its sides,
under the same lock. `free_tree` is one step, which frees the nodes `Under` the root: those in every
set of cells that has the root and the sides of its nodes, which is what a recursion over the pointers
comes to, without a recursive definition.

The lock is the set of its readers and of its writers. `Directory` is a map from names to inumbers on
which each call is one step, but `create`, which looks up and binds in two, as `fs.c` locks twice.
`ImplementsDirectory` is the refinement; a name stands for what the node with it holds (`Contents`).
Names are naturals in the order of `strcmp`. `malloc` gives some free cell, as which it gives makes no
difference; there is one for every name (`SearchTreeAssumption`), as the program exits when there is
none.

### ServerLifecycle

Clients connect, send one request at a time and wait for the reply, close between two calls, or die
inside a call. The main thread's `pthread_create` and `numberClients++` are two steps. A worker
blocks SIGINT only in its first statement, so the signal may reach it before. `recv` returns 0 after
a close, and -1 (`reset`) if the client left a reply unread: the loop tests for 0 only and takes -1
for a request. A reply to a socket that is gone raises SIGPIPE and ends the process. There is one
SIGINT in a behaviour: the handler stays installed (`server.c:442`), and a second signal that brings
another thread into it, which would join and free once more, is not modelled. Failures of
`accept` and `pthread_create` are not modelled, nor more clients than `workers` has entries
(`LifecycleAssumption`).

### ClientApi

One program that mounts, unmounts and calls in any order, with the worker of each of its
connections. A connection is a stream of ints, a text `TextInts` of them; a receive takes what has
come, up to the size of its buffer. `errno` is what the library makes of it: it is read after calls
that succeed and leave it as it was. A call on a descriptor that is closed, or on standard input
before any mount, returns `resposta` without an assignment: any value. What is in a stream carries
the number of the request it answers, which no variable of the program does: the properties need it.

The server may end at any moment (`ServerEnds`; it runs no more in the behaviour). What it had sent is
still received. A call that waits for more gets nothing (`ReceiveNothing`): `recv` gives 0 and leaves
`errno`, or fails, and the call returns -2 or a value nobody assigned (`client.c:68-72`). The next call
is the end of the program, by SIGPIPE (`SendGone`).

### EdmondsKarp

`graph` is the adjacency lists as sequences, in the order the insertions leave them, `parents`,
`visited` and `queue` those of `BFS`, `from` and `node` the node it has popped and what is left of that
node's list. `Pop` is one iteration of its outer loop, `Look` one of the inner, `Augment` one edge of
the walk back from the target. `citizens` and `markets` are the input, chosen
in `Init`. `AnswerIsMaximal` is a max-flow/min-cut argument stated on the city and not on the
algorithm's graph: some set of crossings of the size of the answer, whose removal leaves no citizen
a way, and none smaller. That a set leaves no way (`Separates`) is said without walking: what is left
has a part that no street leaves, with the citizens in it and no supermarket.

### ContactBook and AddressBook

A contact is identified with its list node and its hash node, which are allocated and freed
together; `next`, `prev`, `hnext`, `hprev` are the four pointers. `AddressBook` is a sequence of
contacts and a reply. `ContactBook` implements it (`ImplementsAddressBook`): the list (`Contacts`, the
nodes a loop along `next` visits, `Walk`) is the sequence, and what the hash table finds and the domain list counts are what the sequence says.
Strings are model values; the buffers and the telephone number are left out.

### Library and LibraryFiles

In `Library` there is one action per command, with the user's answers on the way chosen by `\E`. A
user's notifications are counted, their text left out. In `LibraryFiles` a library is a number, a
new one for each change. A save first empties its file (`Open`) and then writes it (`Write`), and may
fail at either; the program may be stopped between the two (`Stop`) and started again (`Start`),
with an import that may end it at a bad line. A load takes the file name before it opens the file; that
it cannot be opened, read or closed, or holds another object, is one failure.

### Authentication

A session is one run of `user.c`; `phase` is which of its four loops it is in. The server's main
process is `Select` and then one action per descriptor it serves: `todo` is what is left of a turn,
`nready` the turns left, each over all that `select` returned (`GoOn`), whether it was served before
or not. Each message gets a forked child, whose steps (`child[s]`, `udpChild[u]`) are groups of
operations on the files `pass`, `reg`, `login`, `vc`, `rid`, `tid` of the user. The rewriting of one
file, and the removals of `removeUser`, are one step each. A datagram may be lost in each direction.

The device is `off`, `registering`, or in its loop (`PdLoop`): `on` in `select`, or in the middle of
its turns. It takes a turn for every descriptor `select` counted, of `readfds` and of `writefds`, which
is not initialised (`pd.c:205`), and each turn reads from all that is in `readfds`. So it may be in a
second receipt that `select` never promised (`again`; five seconds later it ends), or in a second `fgets`
(`typing`), where it does not look at its socket and a code may wait for as long as its user types
nothing; with a line and a code at once, in either, one after the other (`both`, `bothTyping`,
`bothAgain`). A line that is not `exit` takes a turn and does nothing more (`Type`). The end of the
standard input, after which `fgets` no longer blocks, is left out.

A validation code, a request number and a TID are drawn at random, seeded with the second, and are
taken to differ between requests: a request stands for its code and its number. A user does not type
a code that was not shown to the session, but for one no file holds. The second of sleep after a
fork (`as.c:498`) is taken to be enough for a child of the same user. `RVC NOK`, sent when the
device and the server disagree on the user, cannot happen here. What a client does after the server
has ended, and the overflow of the short buffers of `isRegistered`, are left out.

### FileServer

A connection is one file command. `users` are the slots of the server, `n` the local variable of
`connection` that hides the global one and is 0 at each `Select`; a turn of the loop is `AcceptTurn`
or `Turn`. A child sends its `VLD` (`SendVld`), waits on the socket all children share (`ReceiveCnf`
takes the head of `cnf`, whoever it is for), and does its operation on the directory of the user
that the confirmation names. `dir[u]` is the set of names or `NoDir`. `count` and `flag` of `upload`
are not initialised: `LookUp` takes either value. The looking for a directory and its creation are
one step, as are the removal of all files of one. A client whose file has come waits for an end of
file (`"more"`) that does not come: the main process keeps its descriptor. Left out: a client
stopped before it has sent anything, the test of descriptor -1 for free slots (`fs.c:640`),
descriptors running out. The loop that reads what remains of a file (`fs.c:381`) is part of one step,
and an `unlink` that fails (`fs.c:500`) of none.

The two RC modules are not composed. What `FileServer` needs of the other is whether a TID is the one
in the file of the user (`"OK"`), another (`"E"`), or there is none (`"none"`).

### Clinic

A page is a sequence of statements; `Get` begins one, `Execute` does the next statement in the page's
transaction, `Fail` is an error, which ends statements and transaction, and `Commit` the `finally`.
`mine[s]` is what the transaction has written, over `db`, what is committed. A statement sees what is
committed and what its own transaction wrote, and waits (`Blocked`) for a transaction that wrote the
same row or has to do with it by a foreign key: PostgreSQL's READ COMMITTED, which the pages run
under. Of a row another has inserted and not committed, an `INSERT` waits for it, and an `UPDATE` or
`DELETE` does not see it and goes on. A trigger reads the doctor's row without a lock, as it does there.
A row has only the columns a constraint or a trigger is about. Consultations are a constant: no page
changes them.

What the tables are loaded with is any of `Populations`, which need respect keys, foreign keys and
checks (`PopulationsAssumption`) and not the triggers' rule: `RI.sql:25` says that some lines of
`populate.sql` do not, and lines 852 to 855 load four analyses of another specialty than their doctor's. Nor
has a sale one prescription there: the key of `prescricao_venda` is the pair (`schema.sql:93`), and lines
1079 and 1086 give sale 57 two. `overtaken[s]` is a history: the doctors edited by others since session
`s` last wrote; `sold` is the sales a page has made with a prescription.

### Gorillas and Banana

Where interrupts are on, a step of `Gorillas` is one instruction, or some of which only one can tell
when an interrupt came; where they are off, all up to the next `ENI`. `stack` is the digits pushed in
this round, `left` how many words the rounds before left under them: below 0, the stack pointer is
among the interrupt vectors. `OldWord` is what `POP` finds there. The flight is left to `Banana`: in
`Gorillas` each move hits, misses or goes on. Of each round the histories say which keys were `typed`
since its flags were cleared, how many came before that, with interrupts on already (`early`,
`IAC_project.as:246-249`), how many came while the one before was being read (`hurried`), and where it
found the stack (`base`). What is dead at the start of a round, or at the end of the game, is set to 0.

`Banana` computes in words of 16 bits what the routines compute (`MULTIPLICA` keeps the middle 16 of
32 bits, positions keep a byte), and compares them by the sign of a difference, as `CMP` and the
branches do. Beside it are the same formulas in integers of any size, as what the flight should be.
Drawing, and the counters the gorillas' places are drawn from, are left out; the places are
parameters.

## 3. What the runs check

| Run | Expect | Bounds | What it shows |
|---|---|---|---|
| `fs_two` | pass | 2 sessions, 3 names, 2 i-nodes, 1 slot, 5 requests | `DirSound`, `CountCovers`, `PrivateFilesStayPrivate` under every interleaving of two clients that own a file each and race to create a third |
| `fs_client` | pass | 1 session, 2 names, 2 i-nodes, 2 slots, 6 requests, every command | one client alone never has an open file freed, renames and their stale locals included |
| `fs_delete_race` | violation | 2 sessions on one name, 5 requests | a file is freed while another client has it open |
| `search_tree` | pass | 2 threads, 3 names, 4 calls; 1 thread, 4 names, 7 insertions and removals | the tree under its lock is sound, implements `Directory`, and every call returns |
| `connections` | pass | 2 clients, 2 requests each, SIGINT at any time; 1 program, 3 mounts, 4 calls, a text of 2 ints, a server that may end | `CleanShutdown`, `HarmedByTheDead`, `Answered`, `ShutdownEnds` of the server; `InStep`, `CallReturns` of the client library |
| `max_flow` | pass | every input of grids 1x1, 1x3, 2x2, 3x2 | lists, paths and flow at every step (`FlowSound`), the answer, and the end |
| `contact_book` | pass | 4 names (3 collide), 2 domains, at most 4 contacts | `StructuresIntact` and the refinement |
| `library` | pass | 2 users, 3 works, dates 0, 8, 16, 6 returns; 2 files, 4 changes | `LoansAgree`, `SuspendedIfOwing`, `NoLostNotification`, `NoLoanToDebtors`; `NothingToSave`, `SavesAtHome` |
| `authentication` | pass | 1 user; 2 sessions, 5 messages; 1 session, 4 messages, lines typed at the device; 2 sessions, 2 messages, 1 session that ends, 1 datagram lost, lines; or 3 sessions for a table of 2, 1 message | a TID is for the request just made, with the code shown for it; unregistering leaves nothing behind, but in a race the property names; why a client may wait for ever |
| `file_server` | pass | 2 users, 3 connections, 7 kinds of request, 1 client stopped, 1 datagram lost | a confirmation serves one child, its own if it waited alone; no directory changes without one; why a client may wait for ever |
| `game` | pass | 2 keys (1 and 8), 5 of them a round, 2 rounds; flights of 5 speeds, 5 angles, 36 placings | what a round throws is what was typed and its four keys do throw, if none was hurried; how far each round moves the stack; `HitsAreTrue`, `FliesToItsEnd` |
| `clinic` | pass | 2 pages at once, 2 doctors, 2 specialties, 1 patient, 1 analysis, 2 sales; tables with doctors alone, with an analysis that mismatches, with a sale of two prescriptions | `MismatchesExplained`, `EditIsWhole`, `SaleIsWhole` |

Each module's type invariant is checked in a run, `TypeOK` by itself or as the first conjunct of an
invariant (`TreeSound`, `LoansAgree`, `NothingLeftBehind`, `ThrownAsTyped`, `HitsAreTrue`,
`SaleIsWhole`, `FlowSound`, `StructuresIntact`), but those of
`FileServer`, `ServerLifecycle`, `ClientApi` and `LibraryFiles`, which the proofs establish (section 4).

Why the bounds are enough.

* TecnicoFS: two i-nodes and three names make the table fill up and i-nodes be reused at once, which
  every stale-number hazard needs; two threads are what each race needs, and five requests allow a create,
  an open and a delete on one side with a create and an open on the other.
* The tree: four names make every tree in which the node that is removed has two sides, with its
  least node the root of the right side or further down; two threads are a search and a removal at once,
  or two removals.
* Connections: with two clients the handler joins in both orders and is caught on the main thread and on each worker.
  Three mounts are one that fails, one after it and one more; four calls are a read out of step and what
  follows it.
* The 3x2 grid is the smallest here whose inputs need flow rerouted (dropping the reverse edge
  gives a wrong answer, see the mutants). Four contacts of which three share a chain make every case
  of the deletion: first, middle, last and only.
* The library: eight days is late for every loan of a normal user of these works, and is not for
  others. Two files are the one a library came from and the one an open failed on; four changes are a
  start, two commands and one after an open or a save.
* RC: five messages let two sessions of a user both log in, and one request and validate while the
  other requests. Two requests and a connection ready at once, or two children on the socket
  with a third connection, are what the hazards of the servers need; two places in a table that a
  third session cannot enter stand for the hundred of the program. A device registers once in a run:
  that it comes back is modelled and not in these bounds. Lines are typed at it in behaviours of one
  session, of three requests in a row, and in those with a loss.
* The game: of five keys a round one is always too many, early or late; two rounds carry flags, timer and stack from one
  to the next. The speeds go from 0 to the greatest that can be typed, the angles to beyond the limit
  of 70, and the placings are the corners of where gorillas may be, and some between.
* The clinic: two pages at once are what a race takes; two doctors let an analysis move from one to
  the other, two sales let one prescription be sold twice. Of what `populate.sql` loads there is one of
  each kind that breaks a rule a page might be thought to keep. No constraint is about doctors and sales
  both, so each behaviour asks for the pages of one part.

Each property has a mutant or more in `PROJECT.json`: a plausible mistake in a mapped definition
under which the property fails, so none holds by the shape of the model alone. The mutants are the
definitions commented "Mutation".

Deadlock is checked in the TecnicoFS runs, in `library` and in `clinic`. It is not where the program
ends or its users stop asking: `connections`, `max_flow`, `contact_book`, `search_tree`, `game`, and
the RC servers when all messages are sent. There `HangsExplained`, `CallsEnd`, `CallReturns`,
`Answered` and `ThrowsGoOn` ask more than the absence of deadlock: who waits goes on in the end, or
waits for a reason the property names.

Fairness.

* `ServerLifecycle`: weak fairness of each thread that can run, which is what the
  kernel's scheduler gives, and of a client reading a reply it waits for, which is what the API's
  blocking read does. Clients need not send, close or connect.
* `ClientApi`: weak fairness of the receipts and of each worker; the program need not call, nor the
  server end.
* `SearchTree`: weak fairness of each thread inside a call; none of beginning one. The calls of a
  behaviour are bounded, so a writer is not passed over by readers for ever, which the lock of the system
  need not promise.
* `Authentication` and `FileServer`: weak fairness of each process of the servers, of the device's
  receipts and their five seconds, of a client's reading and, in `FileServer`, of its writing what it
  has connected for; users need not type, at the device either, and nobody need be interrupted.
* `EdmondsKarp`: its one thread keeps running. `Gorillas`: the processor does, and a timer that runs
  ends; nobody need press a key. `Banana`: the timer ticks for as long as it is started again, which is
  `BananaMoves` of `Gorillas`.

The other runs assume none.

### Disagreements between code and comments

* `server.c:47-48` says the count prevents the deletion of a file another client has open; test and
  deletion are not atomic (`fs_delete_race`).

Others are the exceptions that properties which hold have to name, or behaviour of the models that no
run singles out:

* `server.c:386` says the threads of every client are joined; one not yet counted, or one on which the
  handler itself runs, is not (`CleanShutdown`).
* `server.c:151` says a rename keeps the inumber; the call passes a local of the same spelling but
  for one capital, which case `r` does not set, and permissions no rename sets. The test for an
  existing target (`server.c:143`) is `> 0` and misses inumber 0.
* A write checks the permissions of the i-node of the last request that looked one up (`server.c:280`).
* The client library returns -2, "no open session", after a call that succeeded, if `errno` is left
  from one on a mount that failed (`client.c:69` and the like). A second mount without an unmount
  forgets the first descriptor; a call after an unmount returns a value nothing has assigned (`InStep`).
* `fs.c:106` says the directory is that of the user that asked; it is that of whoever's confirmation
  the child read from the shared socket (`fs.c:673`; `EveryChangeConfirmed` says what is left).
* `_change` of `Library.java` tells whether there is something to save; a request for a
  notification (`Library.java:245`) does not set it (`unflagged` in `NothingToSave`).
* An open that fails leaves its file name to the next save (`misled` in `SavesAtHome`).
* A user of record `CUMPRIDOR` becomes `NORMAL` after any return, a timely one too, because its state
  is 0 for ever (`Excelent.java:27`).
* In the game, two keys between two looks of the loop are counted twice and stored once
  (`IAC_project.as:860`), and a key while a digit is converted makes it negative and so an angle above
  the limit (`845`): the throw of such a round is wrong, or never comes as `FLAG_E` passes 4, and
  each such key may let the throw take a word too many off the stack. That is `hurried`, of that round
  alone. The timer's flag is left set after a hit (`400`), which the next round
  outlives. Where the way no longer fits a word, the banana turns back (`615`).
* An edit of a doctor's specialty does not check the analyses made under the old one (`app.cgi:106`;
  the second way of `MismatchesExplained`), and the trigger of an analysis reads its doctor's row
  before another page's edit of it commits (the first way). What was loaded mismatching may stay.

## 4. What is proved

Each module of proofs is about one module or two (the two of one `MC` module, in `ListsProofs` two
that share lemmas about lists, in `FileServersProofs` two servers of files), for every value of the
constants within the assumptions it names; TLC evaluates those in the runs. (`ConnectionsProofs`,
`LibraryProofs` and `GorillasProofs` extend an `MC` module for the names of its instances, and use
none of the values it gives.) Each proof takes an inductive invariant: the initial states have it,
every step keeps it, and it implies the property.

### TecnicoFS

`TecnicoFSProofs` holds for every number of sessions, names, i-nodes and slots
and every workload, under `InodeAssumption` and `TecnicoFSAssumption`, the types of the constants.

* `TypeCorrect`: `Spec => []TypeOK`. `TypeOK` is inductive; the proof has a step per action.
* `DirSoundness`: if no client renames and no two clients delete one name, `Spec => []DirSound`.
* `FilesStayPrivate`, `OpenStaysInUse`, `CountIsEnough`: if no client renames and whoever deletes a name is
  alone in using it (`DeletesOwn`), `Spec` implies `[]PrivateFilesStayPrivate`, `OpenFileNotFreed` and
  `[]CountCovers`. `fs_delete_race` is what happens without `DeletesOwn`.

`DirSound` is not inductive: a thread between `DeleteRemove` and `DeleteFree` holds the number of an
i-node in use without a name, and another between `DeleteLookup` and `DeleteRemove` holds one that
must still be the name's when it removes it. The strengthening `DirInv` adds `DeleteInv` (the number
a deleter holds is the name's until it is removed; then it is in use, no name has it, and no other
deleter holds it), and uses that requests come from the workload (`RequestInv`), which brings in the
two assumptions. `FreshInumber` returns a free entry or -1, a lemma that needs the least element of
a set of naturals (`WellFoundedInduction`).

The other three are about who holds a number. A thread `Holds` the i-nodes in its open slots and, on
its way through an open, the one it has looked up. `HeldInv`: what a thread holds is in use, and its
names are names the client uses. `AloneInv`: what is being deleted nobody else holds, and the deleter
has nothing of it open once it has looked at the count. That is where `DeletesOwn` comes in: no other
client could have looked the name up. `TouchInv` says which slot a `+=` or `-=` is for. `CountInv` is
about the counts themselves: not negative for an i-node that is free or being deleted, so that its
next owner starts from no less than 0, at least the owner's open slots for a private file, and equal to
what a thread has loaded from it between the two halves of its `+=`.

### The tree below the directory

The second part of `FileServersProofs` holds for any finite set of names, any inumbers, any number of
threads and any calls of theirs, if there is a cell for the node of every name
(`SearchTreeAssumption`, `BoundsAssumption`; a program whose `malloc` fails has exited):

* `TreeIsSound`: `TreeSpec => []TreeSound`.
* `TreeImplementsDirectory`: `TreeSpec => ImplementsDirectory`, the refinement.

`TreeSound` says what is under a node, the intersection of all closed sets, and says nothing of where
the threads are; neither part is inductive. The invariant, `TreeIInv`, takes a tree the other way
round. `Tree(A, key, left, right, root, up)` gives for each node of `A` the set `up` of those on its
way from the root, and all else is said of these sets: a side of a node has that node and what is
above it above itself (`LeftLinked`, `RightLinked`), every node is where a search for its key comes
(`Visits`), and what is below a node is on the same side as it of all that is above (`Sided`). So
nothing needs a recursion: induction over a tree is the choice of a node with the most, or the fewest,
nodes above it (`Deepest`, `Highest`), of a finite set. `TreeIInv` is that there is such an `up` for
the heap (`InTree`), with

* `WalkInv`: each thread stands where the search for its name comes to, by way of `above`; where it has
  come to nothing no node has the name; `m` is on the way to the least node of the right side, by way
  of `low`;
* `LockInv`: who may be between two nodes holds the lock, and who changes nodes is alone. With it a
  step of one thread moves the tree under no other;
* `CallInv` and `PointerInv`: a label belongs to its call, and no pointer outlives one.

The lemmas come in three groups. About trees: a side with no node on it ends the search (`NotThere`),
a node has one parent (`OneParent`, `HasParent`), and the least on the right is less than the
rest there (`LeastIsLess`). About changing them, with the new `up` for each: a leaf is added
(`LeafAdded`), a node replaced by its one side (`NodeReplaced`), and the least node of the right side
moved into its place (`NodeMoved`, which has to say what becomes of the sides of both). About the heap:
it is such a tree (`UnderIs`, `OrderIs`: the closed sets and the order of `TreeSound` follow), each
operation of `bst.c` is one of the changes (`Inserted`, `Rebound`, `Removed`, `Moved`), and there is a
free cell where one is taken (`FreeCellIs`: the nodes have different names).

For the refinement, a change of the tree that keeps every other node's name and inumber changes the map
at one name (`ContentsChange`), and a search that ends has the answer of the map as it is then, because
no writer is about (`MapStep`). A lookup takes its step of the map when `search` returns; an
insertion or removal, at the last call.

### The server's threads

`ConnectionsProofs`, on `ServerLifecycle`, for any finite set of clients that fits the array and any number of requests:

* `NobodyServed`: `Spec => []CleanShutdown`.
* `OnlyTheDeadHarm`: `Spec => []HarmedByTheDead`.

`ExchangeInv` says for each state of a connection where its request is, how many were executed, and
what the worker may be doing: a request is executed twice only if its client is dead. `SlotInv` says
that the slots filled are `numberClients`, or one more in the gap between `pthread_create` and
`numberClients++`, and hold every thread started. With `JoinInv` (the slots joined are of workers that
are done, or of the handler's own) it gives `CleanShutdown`; `KilledInv` gives the SIGPIPE. That the array
has an entry for every client is assumed, as nothing in the code sees to it (`server.c:425`), so that the
types are right (the lemma `TypeCorrect`) says nothing of an overflow.

And on `ClientApi`, the instance `Api`, for any size of text and any number of mounts and calls:

* `CallsInStep`: `Api!Spec => []Api!InStep`.

`StepInv` says of every open connection but those `denied` that it is empty, or, if a call waits
on it, that what is in the stream and what the worker is doing make up exactly the answer to that
call, or the part of it that had come when the server ended. `MisuseInv` is the reason for the exception: `errno` says "not connected" only after a call on a
socket that is not.

### The library

`LibraryProofs`, on `Library`, for any finite sets of users and works, and any copies and limits:

* `TypeCorrect`: `Spec => []TypeOK`.
* `AccountsAgree`: `Spec => []LoansAgree`.
* `DebtorsSuspended`: `Spec => []SuspendedIfOwing`.
* `DebtorsDoNotBorrow`: `Spec => NoLoanToDebtors`.
* `NobodyWaitsForNothing`: `Spec => []NoLostNotification`.

`AccountsInv` says that the list of requests is finite and a loan told by its user and work, so that
cardinalities add up. `SuspendedIfOwing` is a fact about each user alone (`Fair`), given the
accounts: late with a work implies a work. `NoLoanToDebtors` follows from it and rule 2.

On `LibraryFiles`, the instance `Disk`, for any files and any number of changes, saves, opens,
failures and stops: `FilesTypeCorrect`, `NothingIsLost` (`Disk!Spec => []Disk!NothingToSave`) and
`SavesGoHome` (`Disk!Spec => Disk!SavesAtHome`), from `HomeInv`: the program's file name is the
library's own but after a failed open.

### FileServer

The first part of `FileServersProofs` holds for every number of connections, slots and users, every set of requests and
everything earlier runs may have stored, under `FileServerAssumption`.

* `OneConfirmationEach`: `Spec => []ConfirmedOnce`.
* `AloneGetsItsOwn`: `Spec => []ConfirmationIsOwn`.
* `ChangesAreConfirmed`: `Spec => EveryChangeConfirmed`.

All three come from one inductive invariant, `IInv`:

* `RoomInv`: connections not yet made, those in the backlog and those accepted since the last select are no more
  than `MaxConns`. Nothing in the code bounds `n`: that there are fewer connections than slots is
  assumed (`MaxConns < MAXUSERS`), and the types (the lemma `TypeCorrect`) are right only by it; with
  more the loop writes past `users`.
* `LifeInv`: a connection is in the backlog or has a child, never both, and is there once; so no
  request is sent for validation twice.
* `TokenInv`: what comes of a request's validation is in one place, the VLD, the CNF or the child that took it.
  `ConfirmedOnce` alone does not survive `ReceiveCnf`: the CNF must not be for a
  request already confirmed, nor twice in the socket.
* `ValidInv`: a CNF in the socket is for a TID that has a file, and a child at work holds one that is valid.
  With the lemma that an operation changes only its owner's directory (`OperationEffect`) it gives
  `EveryChangeConfirmed`.
* `CountInv`: there are no more datagrams than children that wait. With `AloneInv` (a child that has always
  waited alone has only its own datagram on the way) it gives `ConfirmationIsOwn`: when a child starts
  to wait and no other does, `CountInv` says that the socket is empty.

`CountInv` is where it matters that a child waits without a timeout: one that gave up would leave
its CNF to the next (the mutant `ReceiveOrGiveUp`).

### The game

`GorillasProofs`, for any keys, any number of them and of rounds, and any word below the digits:

* `ThrowsAreTyped`: `Spec => []ThrownAsTyped`.
* `VectorsAreSafe`: `Spec => StackBelowVectors`.

`KeysInv` follows a digit: for each place of the loop it says which of R3, the top of the stack and
R1 holds it, as a character or as a number, that the digits before are on the stack, and that `FLAG_E`
counts those typed. It holds in a round while no key was `hurried`, whatever the rounds before did and
though an early key may be on the same way before the first of the round. Then `Number` makes of them what was typed, since a small number stays itself
in sixteen bits (`WordOfSmall`) and the sign of a small difference tells the lesser
(`SignOfDifference`). `StackInv` is about the stack in every round: the keys counted are no more than the
words pushed or to be pushed and the hurried ones, and the words no more than the keys, early ones
included, so a throw, which takes four when four are counted, takes from below at most one for each
hurried key and leaves at most one for each early one.

For any speeds and angles of two digits and anything the counters say when the gorillas are placed
(`BananaAssumption`):

* `HitsAreReal`: `Flight!Spec => []HitsAreTrue`, for `Flight`, the instance of `Banana` in `MCGame`.

`FlightInv` adds to the types that the banana has flown on at every tick before `R4` (`Flown`), and
that where it stopped is where `LineAt` and `ColumnAt` have it at `R4`. The rest is arithmetic. The
cosine of an angle up to 70 degrees is computed between 0 and 256 256ths, the sine between 0 and 241
(`CosineIs`, `SineIs`), so the upward product fits a word whenever the way does (`UpIs`) and only the
fall and the byte of the line can go round. No hit is lost (`NoMiss`), for on the gorilla, while the
fall fits, the line is its byte. That none is a ghost (`NoGhost`) needs where the banana has been. In a
tick it crosses four lines at most (`StepIs`), and the lines from 25 to 151, as a byte, are out of the
window; so it cannot have left the lines -104 to 24 and fly on, not before the fall no longer fits at
tick 164 (`LinesOfFlight`). From there on the fall gone round puts the banana 128 lines higher: a
flight that survives that tick is more than a hundred lines above the gorilla, and before it could
come down to it, at tick 232, the fall goes round again and the banana is out (`FallGoesRound`, `AboveIs`,
`NoneLate`).

### The maximum flow

`ListsProofs`, for any set of grids and any bound on the places (`GridsAssumption`):

* `FlowIsSound`: `Spec => []FlowSound` (here `FlowSpec`);
* `AnswerIsRight`: `Spec => []AnswerIsMaximal`.

The invariant `FlowInv` keeps the two facts about the lists, `Residual` and `Conserved`, and adds what
the program knows where it is. In a search (`SearchInv`) what is queued is visited, the cells left of
`node` are of `from`'s list, and every visited vertex is `Reached`: a list of vertices without
repetitions, each the parent of the one before and joined to it by an edge, leads from it to the source
inside `visited`. That is what makes stale `parents` harmless: those of earlier searches are of
vertices not visited yet, and a mark changes the parent of no vertex on another's path (`ReachedStays`,
`ReachedNext`). In a reversal `currentNode` is `Reached` in the lists as they are then, although the walk
changes them behind itself, because no vertex comes twice on the path (`ReachedBack`). Three groups of
lemmas carry the step:

* the lists: what taking out the first (`RemoveFirstIs`), appending and joining do to members and
  repetitions; `StreetsAre`, that the grid's arithmetic joins no vertex twice and none to itself, and
  with it `StartListed` and `StartOneWay`, that no edge of the start has its reverse;
* the edges: turning one round leaves at most one direction of each pair (`OneDirectionKept`);
* the flow: turning an edge round moves the one unit that is missing from its head to its tail
  (`BalancedKept`, from `FlowMore` and `FlowLess`).

`ReachedIsPath` takes the path to the walk that `PathToSource` follows, a recursive function, as `WalkIs`
does below.

`AnswerIsRight` needs two facts more, in `MaxInv`. `ValueInv`: the edges of the source that are reversed
are as many as the paths counted, and one more while a path whose reversal is done waits to be counted;
no edge of the start comes into the source, so the walk gives it an edge in its last step and takes
none from it in any (`ValueKept`). `ClosedInv`: in a search, a neighbour of a visited vertex is visited,
unless the vertex is still in the queue or the neighbour in what is left of `node`; so the set visited
by a search that gives up is one no edge of the lists leaves, and it is `Saturated` (`DoneSaturates`).
The rest is about any flow, and takes no flow apart into routes:

* `NetFlow` and `Across`: what leaves a set with the source and not the target is what enters it and the
  value of the flow, by one vertex more at a time (`OneMore`), from a least counterexample;
* the graph as the city's: `PlaceIs`, `SameGate`, `VertexIs` and `StreetIs` say which crossing a vertex is
  of and that an edge out of an exit is a street to the entry of a crossing next to it, `StartInto` and
  `Through` that one unit at most goes through a crossing;
* `CutOf`: the edges that leave a saturated set have each a crossing (`CutAtOne`) and no two the same
  (`CutOnce`); these crossings are as many as the value, and separate, the crossings whose exit is in the
  set being the part no street leaves;
* `CutBounds`: for a set of crossings that separates, the source, the part and the entries of the set
  make a border that flow crosses inside one of the crossings taken out only, so at most as many
  times as there are of them.

### The contact book

`ListsProofs`, for any finite sets of names, domains and nodes, with a node for every name, and
any hash function (`ContactBookAssumption`):

* `StructuresStayIntact`: `Spec => []StructuresIntact`.
* `ImplementsBook`: `Spec => ImplementsAddressBook`, the refinement, with a lemma for each command
  (`AddIsAdd` to `CountIsCount`) and one for the step (`StepMaps`).

`Linear(w, ...)` says that the sequence `w` is a list linked in both directions, without repetitions,
through a given set of nodes. The invariant says it of the list (`ListInv`) and, for each key, of its
chain (`ChainInv`), and `NULL` of the pointers of what is not allocated (`FreeInv`). `NameInv`, that no
two contacts have a name, is what leaves a node for a new name; `CountInv` is about the domains'
counts, which are of contacts while they are one each. `WalkIs` connects the two views: a loop along
the pointers of a `Linear` list visits exactly that list. It is not an induction: the positions after
0, 1, ... turns are a function that the equations of the loop determine, because the least number at
which two differ does not exist, and a list without repetitions is no longer than `Nodes`.
`AppendLinear`, `RemoveLinear` and `FrameLinear` say what linking, unlinking and leaving alone make of
a list; unlinking has the four cases of the code, first, middle, last and only.

For the refinement the book's sequence is that walk, and the lemmas say that a name looked up in the
chain of its key is where the sequence has it (`ExistsIs`, `PlaceOf`) and that what is counted for a
domain is the number of places of the sequence that have it (`CountIsCount`).

### The authentication server

`AuthenticationProofs`, for any finite set of users, any sessions, any number of messages,
registrations and lost datagrams, and any size of the table, under `AuthenticationAssumption`:

* `TypeCorrect`: `Spec => []TypeOK`.
* `NothingStays`: `Spec => []NothingLeftBehind`.
* `TidsAreOwn`: `Spec => TidIsForOwnRequest`.

`MessageInv`: a session has one message on its way, in the socket, with a child or as an answer, and
an `AUT` carries the session's last request and a code shown for one of its requests (or none).
`TidsAreOwn` rests on `CodeInv`. The test in `authenticate` compares the code with the file `vc` and
the number with the file `rid`; the children of two sessions of a user write these in any order, so
the pair may come from two sessions. Never from two requests of one session: where `rid` holds the
session's last request, or is about to, and `vc` a request of that session, `vc` holds the last one.
So a code of the session that passes is the code of the request whose number passes (`TidInv`, from
the test to the write). For `NothingStays`, `PassInv` says that a child at work on a user's files is a
child of a user that has a password, or that is `raced`, and `LeftInv` is the property.

### The clinic

`ClinicProofs`, for any sessions, doctors, patients, specialties, consultations, analyses and sales,
under `ClinicAssumption`, and any tables to begin with that keep the keys, foreign keys and checks
(`PopulationsAssumption`), mismatching analyses and sales of many prescriptions included:

* `TypeCorrect`: `Spec => []TypeOK`, with `ri_analise_aux` of every analysis.
* `MismatchesAreExplained`: `Spec => MismatchesExplained`.
* `SalesAreWhole`: `Spec => []SaleIsWhole`.
* `EditsAreWhole`: `Spec => EditIsWhole`.

`LockInv` is what the locks are for: no two transactions have written the same row. With `MineInv`
(what a transaction has written are rows of its page's statements so far) it says what another's
commit may not disturb. `TestedInv`: an analysis that a page has written, and not yet committed, has its
doctor's specialty, unless the doctor was edited since the page's last statement; it needs `DoctorInv`,
that a doctor of a consultation is never deleted. `SellingInv` says how far a page that sells with a prescription has
come. `SoldInv`: a prescription that is sold, or about to be, is there and nobody is deleting it,
from the foreign-key locks of `Blocked`. `OnceInv` is the rest of `SaleIsWhole`, for the sales that pages
made: of one that was loaded it says nothing. `EditInv` says how far an
edit has come: from some statement on, those executed are done, and those before have left the row
as it is committed.

### Only model-checked

* Liveness under fairness: `Answered`, `ShutdownEnds`, `CallReturns`, `CallsEnd`, `Terminates`,
  `HangsExplained` of both servers, `ThrowsGoOn`, `FliesToItsEnd`.
* `Advances`, the half of `FliesToItsEnd` that is no liveness: that the time never goes round to 0
  while the banana flies is an enumeration of the flights whose way has gone round before.

## 5. Not modelled

* PO, search: a linear search by substring, without state.
* LP: predicates over grids whose definition is already logic.
* FP and IA: pure functions of a board, and floating-point entropies.
* CG: rendering and floating-point animation.

Partly modelled, and what is left out of each:

* TecnicoFS: requests with a descriptor outside `OpenFiles`, on which the program reads and writes
  past the array (`server.c:205`, `227`, `271`);
* the server's threads: failures of `accept`, `getsockopt` and `pthread_create`; more clients than
  `workers` has entries, where the program writes past the array; a second SIGINT;
* the client library: a server that is started again;
* the library's files: which step of a load fails;
* the RC device: the end of its standard input;
* the RC file server: more connections than slots, where the program writes past `users`; what files contain, children forked for an end of file alone, failures of
  system calls;
* the clinic: institutions, the queries, the star schema, and consultations, which no page inserts;
* the game: drawing, and how the places of the gorillas are drawn.

## 6. Plan

The plan was TecnicoFS first (the only concurrent program with shared memory), its lifecycle, the
flow algorithm, the contact book and its abstraction, the library, the two RC servers; then the tree
below the directory, the client library, the library's files, the game and the clinic. All of that
is done, and so are the proofs of it listed above. What is worth doing next:

1. `Authentication` and `FileServer` composed over the file `tid`;
2. an abstract `FileStore`, implemented by `TecnicoFS` for clients that keep to their own names.
