---------------------------- MODULE EdmondsKarp ----------------------------
(***************************************************************************)
(* C/ASA_project.c: citizens and supermarkets stand on the crossings of a  *)
(* city of M avenues and N streets; how many citizens can each reach a     *)
(* supermarket along routes that have no crossing in common?  The program  *)
(* builds a graph with two vertices per crossing, an entry (vin) and an    *)
(* exit (vout), and a source and a target, all edges of capacity one, and  *)
(* runs Edmonds-Karp on it: a breadth-first search for a path, and then    *)
(* the reversal of every edge of the path, until no path is left.          *)
(*                                                                         *)
(* An action is one iteration of one of the program's loops, in BFS of the *)
(* inner one.  The citizens are read in the order of their crossings;      *)
(* queue and lists keep the order of the code.  ListsProofs extends this   *)
(* module and ContactBook, whence the names of the specification.          *)
(***************************************************************************)
EXTENDS Integers, Sequences, SequencesExt, FiniteSets

CONSTANTS
  Grids,      \* the <<M, N>> that are tried
  MaxPlaces   \* bound: crossings with citizens, and with supermarkets

ASSUME GridsAssumption ==
  /\ Grids \subseteq (Nat \ {0}) \X (Nat \ {0})
  /\ MaxPlaces \in Nat

VARIABLES
  M, N, citizens, markets,   \* the input
  graph,                     \* vertex -> its list of neighbours
  parents, visited,          \* marks of the search
  queue,                     \* q of BFS
  from, node,                \* its currentNode, and what is left of its list
  pc,                        \* "search", "bfs", "augment", "done"
  currentNode,               \* of EdmondsKarp's walk back from the target
  maxflow

input  == <<M, N, citizens, markets>>
search == <<parents, visited, queue, from, node>>
flowVars == <<input, graph, search, pc, currentNode, maxflow>>

Crossings == (1 .. M) \X (1 .. N)
Vertices  == 0 .. 2 * M * N + 1
Source    == 2 * M * N
Target    == 2 * M * N + 1
Inner     == 0 .. 2 * M * N - 1

vin(crossing)  == 2 * ((crossing[2] - 1) * M + (crossing[1] - 1))
vout(crossing) == vin(crossing) + 1

\* The members of a set of numbers, the greatest first.
LastFirst(set) ==
  [i \in 1 .. Cardinality(set) |->
     CHOOSE n \in set : Cardinality({m \in set : m > n}) = i - 1]

\* A neighbour that is there on a condition.
Only(condition, vertex) == IF condition THEN <<vertex>> ELSE <<>>

\* initializegraph: each list as its last insertion leaves it, the streets
\* down, up, left and right of an exit, the exit of an entry.
Streets(v) ==
  LET k == v \div 2 IN
  IF v % 2 = 0 THEN <<v + 1>>
  ELSE Only(k \div M < N - 1, v + 2 * M - 1) \o Only(k \div M > 0, v - 2 * M - 1)
       \o Only(k % M > 0, v - 3) \o Only(k % M < M - 1, v + 1)

\* addtarget and addsource insert an edge unless the list has it already, so
\* a crossing named twice counts once.
Exits   == {vout(c) : c \in markets}
Entries == {vin(c) : c \in citizens}

InitialGraph ==
  [v \in Vertices |->
     CASE v \in Inner -> Only(v \in Exits, Target) \o Streets(v)
       [] v = Source  -> LastFirst(Entries)
       [] v = Target  -> <<>>]

Places == {places \in SUBSET Crossings : Cardinality(places) <= MaxPlaces}

FlowInit ==
  /\ \E g \in Grids : M = g[1] /\ N = g[2]
  /\ citizens \in Places
  /\ markets \in Places
  /\ graph = InitialGraph
  /\ parents = [v \in Vertices |-> -1]
  /\ visited = {}
  /\ queue = <<>> /\ from = Source /\ node = <<>>
  /\ pc = "search"
  /\ currentNode = Target
  /\ maxflow = 0

FlowTypeOK ==
  /\ <<M, N>> \in Grids
  /\ citizens \in Places
  /\ markets \in Places
  /\ graph \in [Vertices -> Seq(Vertices)]
  /\ parents \in [Vertices -> Vertices \cup {-1}]
  /\ visited \subseteq Vertices
  /\ queue \in Seq(Vertices) /\ from \in Vertices /\ node \in Seq(Vertices)
  /\ pc \in {"search", "bfs", "augment", "done"}
  /\ currentNode \in Vertices
  /\ maxflow \in Nat

-----------------------------------------------------------------------------
\* BFS.

\* visited is cleared; parents is not.
Start ==
  /\ pc = "search"
  /\ visited' = {Source}
  /\ parents' = [parents EXCEPT ![Source] = -1]
  /\ queue' = <<Source>>
  /\ pc' = "bfs"
  /\ UNCHANGED <<input, graph, from, node, currentNode, maxflow>>

Pop ==
  /\ pc = "bfs" /\ node = <<>> /\ queue # <<>>
  /\ from' = Head(queue) /\ queue' = Tail(queue)
  /\ node' = graph[Head(queue)]
  /\ UNCHANGED <<input, graph, parents, visited, pc, currentNode, maxflow>>

\* Mutation: visited neighbours are taken again.
MarkAgain(to) ==
  /\ visited' = visited \cup {to}
  /\ parents' = [parents EXCEPT ![to] = from]

\* The marks of a neighbour that has none.
Mark(to) ==
  IF to \in visited THEN UNCHANGED <<visited, parents>>
  ELSE /\ visited' = visited \cup {to}
       /\ parents' = [parents EXCEPT ![to] = from]

Look ==
  /\ pc = "bfs" /\ node # <<>>
  /\ LET to == Head(node) IN
     /\ Mark(to)
     /\ \/ /\ to \in visited
           /\ node' = Tail(node)
           /\ UNCHANGED <<queue, pc, currentNode>>
        \/ /\ to \notin visited /\ to = Target
           /\ queue' = <<>> /\ node' = <<>>
           /\ pc' = "augment" /\ currentNode' = Target
        \/ /\ to \notin visited /\ to # Target
           /\ queue' = Append(queue, to) /\ node' = Tail(node)
           /\ UNCHANGED <<pc, currentNode>>
  /\ UNCHANGED <<input, graph, from, maxflow>>

\* Mutation: BFS returns 1 all the same.
GiveUpNever ==
  /\ pc = "bfs" /\ node = <<>> /\ queue = <<>>
  /\ pc' = "search"
  /\ UNCHANGED <<input, graph, search, currentNode, maxflow>>

GiveUp ==
  /\ pc = "bfs" /\ node = <<>> /\ queue = <<>>
  /\ pc' = "done"
  /\ UNCHANGED <<input, graph, search, currentNode, maxflow>>

-----------------------------------------------------------------------------
\* EdmondsKarp.

\* Mutations of the reversal: nothing is added; the path's last edge stays.
DeleteOnly(previous, current) ==
  [graph EXCEPT ![previous] = RemoveFirst(@, current)]

ReverseInside(previous, current) ==
  IF current = Target THEN graph
  ELSE [graph EXCEPT ![current] = <<previous>> \o @,
                     ![previous] = RemoveFirst(@, current)]

\* addReverseEdge(current, previous), deleteEdge(previous, current)
ReverseEdge(previous, current) ==
  [graph EXCEPT ![current] = <<previous>> \o @,
                ![previous] = RemoveFirst(@, current)]

Augment ==
  /\ pc = "augment" /\ currentNode # Source
  /\ graph' = ReverseEdge(parents[currentNode], currentNode)
  /\ currentNode' = parents[currentNode]
  /\ UNCHANGED <<input, search, pc, maxflow>>

\* The flow of a path is MIN(999, 1).
AddFlow ==
  /\ pc = "augment" /\ currentNode = Source
  /\ maxflow' = maxflow + 1
  /\ pc' = "search"
  /\ UNCHANGED <<input, graph, search, currentNode>>

FlowNext == Start \/ Pop \/ Look \/ GiveUp \/ Augment \/ AddFlow

\* The program is one thread and never waits.
FlowSpec == FlowInit /\ [][FlowNext]_flowVars /\ WF_flowVars(FlowNext)

-----------------------------------------------------------------------------
\* Properties.

Edges(g) == UNION {{<<u, v>> : v \in ToSet(g[u])} : u \in Vertices}

Reversed(edges) == {<<e[2], e[1]>> : e \in edges}

\* The lists are a residual graph at every step of a reversal: an edge is in
\* the graph exactly once, in one direction, if and only if one of its two
\* directions was in it at the start.  addReverseEdge never adds an edge twice
\* and deleteEdge never misses the one it is called for.
Residual ==
  LET start == Edges(InitialGraph)
      now   == Edges(graph)
  IN /\ now \cup Reversed(now) = start \cup Reversed(start)
     /\ now \cap Reversed(now) = {}
     /\ \A v \in Vertices : IsInjective(graph[v])

\* Where parents lead to from currentNode, in so many steps.
Climb ==
  LET climb == [parents EXCEPT ![Source] = Source]
      up[n \in Vertices] == IF n = 0 THEN currentNode ELSE climb[up[n - 1]]
  IN up

\* Walking up parents from currentNode comes to the source along edges of the
\* graph, although parents is never cleared between searches and the walk
\* changes the graph behind itself.
PathToSource ==
  pc = "augment" =>
    LET up == Climb IN
    /\ up[Target] = Source
    /\ \A n \in Vertices : up[n] # Source => Contains(graph[parents[up[n]]], up[n])

\* An edge of the start that is reversed now carries flow.  What flows into a
\* vertex flows out of it, but for the two ends and, half way through the
\* reversal of a path, the vertex the walk has come to.
Conserved ==
  LET flow == Edges(InitialGraph) \ Edges(graph)
  IN \A v \in Inner :
       Cardinality({e \in flow : e[1] = v}) =
         Cardinality({e \in flow : e[2] = v})
           + (IF pc = "augment" /\ v = currentNode THEN 1 ELSE 0)

\* At every step of every search and of every reversal, the lists are a
\* residual graph, parents a path and what is reversed a flow.
FlowSound == FlowTypeOK /\ Residual /\ PathToSource /\ Conserved

Adjacent(c, d) ==
  \/ c[1] = d[1] /\ c[2] - d[2] \in {-1, 1}
  \/ c[2] = d[2] /\ c[1] - d[1] \in {-1, 1}

\* With the crossings of the set closed taken out, the city has a part that no
\* street leaves, with all citizens left in it and no supermarket.
Separates(closed) ==
  LET open == Crossings \ closed IN
  \E part \in SUBSET open :
    /\ citizens \cap open \subseteq part
    /\ markets \cap part = {}
    /\ \A c \in part : \A d \in open : Adjacent(c, d) => d \in part

\* The answer is right.  By Menger's theorem the largest number of routes with
\* no crossing in common is the smallest number of crossings that cut every
\* citizen from every supermarket.
AnswerIsMaximal ==
  pc = "done" =>
    /\ \E closed \in SUBSET Crossings :
         Cardinality(closed) = maxflow /\ Separates(closed)
    /\ \A closed \in SUBSET Crossings :
         Separates(closed) => Cardinality(closed) >= maxflow

\* The search for paths comes to an end.
Terminates == <>(pc = "done")
=============================================================================
