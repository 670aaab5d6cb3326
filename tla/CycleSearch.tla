----------------------------- MODULE CycleSearch -----------------------------
(***************************************************************************)
(* graph.rs: find_cycles and dfs_cycle.  A depth-first search is started   *)
(* from every node with an empty `visited`; an edge to a node on the       *)
(* search's own path reports the part of the path from that node on.  The  *)
(* recursion of dfs_cycle is the path together with, per node, which of    *)
(* its neighbours is looked at next.                                       *)
(***************************************************************************)
EXTENDS Integers, Sequences, FiniteSets

CONSTANTS Node,    \* the nodes there may be
          Graphs   \* the graphs a search may be given

VARIABLES graph,    \* the GraphMap: its nodes and, per node, its neighbours
          visited,  \* the nodes this search has entered
          stack,    \* the path of this search
          cycles,   \* the paths reported so far
          done      \* the nodes a search has been started from

searchVars == <<graph, visited, stack, cycles, done>>

(* graph.nodes() names each node once, and both ends of every edge.         *)
Graph ==
  {g \in [nodes : Seq(Node), neighbors : [Node -> Seq(Node)]] :
     /\ \A i, j \in 1 .. Len(g.nodes) : g.nodes[i] = g.nodes[j] => i = j
     /\ \A u \in Node : \A k \in 1 .. Len(g.neighbors[u]) :
          {u, g.neighbors[u][k]} \subseteq {g.nodes[i] : i \in 1 .. Len(g.nodes)}}

ASSUME GraphsAssumption == Graphs \subseteq Graph

----------------------------------------------------------------------------
PathEntry == [node : Node, next : Nat \ {0}]
(* Mutant: the neighbours are counted from 0.                               *)
EnteredZero(n) == [node |-> n, next |-> 0]

Entered(n) == [node |-> n, next |-> 1]

Current == stack[Len(stack)]
OnPath == {stack[i].node : i \in 1 .. Len(stack)}

(* Mutant: the whole path is reported, not the part that closes.            *)
PathFromStart(i) == [k \in 1 .. Len(stack) |-> stack[k].node]

(* The path from its i-th node on: stack[cycle_start..]                     *)
PathFrom(i) == [k \in 1 .. Len(stack) - i + 1 |-> stack[i + k - 1].node]

(* for neighbor in graph.neighbors(node)                                    *)
Looking  == stack # << >> /\ Current.next <= Len(graph.neighbors[Current.node])
Neighbor == graph.neighbors[Current.node][Current.next]
(* Mutant: the loop over the neighbours does not advance.                   *)
PassedNot == stack

Passed == [stack EXCEPT ![Len(stack)].next = @ + 1]

(* Mutant: `visited` is kept from one search to the next.                   *)
StartSearchNoDrain ==
  /\ stack = << >>
  /\ Cardinality(done) < Len(graph.nodes)
  /\ LET n == graph.nodes[Cardinality(done) + 1]
     IN  /\ visited' = visited \cup {n}
         /\ stack' = << Entered(n) >>
         /\ done' = done \cup {n}
  /\ UNCHANGED <<graph, cycles>>

(* for node in graph.nodes(): visited.drain(), then dfs_cycle.  No node is  *)
(* in `done` when its turn comes: graph.nodes() names each node once.       *)
StartSearch ==
  /\ stack = << >>
  /\ Cardinality(done) < Len(graph.nodes)
  /\ LET n == graph.nodes[Cardinality(done) + 1]
     IN  /\ visited' = {n}
         /\ stack' = << Entered(n) >>
         /\ done' = done \cup {n}
  /\ UNCHANGED <<graph, cycles>>

(* dfs_cycle of a neighbour that has not been visited                       *)
EnterNeighbor ==
  /\ Looking
  /\ Neighbor \notin visited
  /\ visited' = visited \cup {Neighbor}
  /\ stack' = Append(Passed, Entered(Neighbor))
  /\ UNCHANGED <<graph, cycles, done>>

(* The neighbour is on the path: the path from it on is a cycle.            *)
ReportCycle ==
  /\ Looking
  /\ Neighbor \in visited
  /\ \E i \in 1 .. Len(stack) :
       /\ stack[i].node = Neighbor
       /\ cycles' = cycles \cup {PathFrom(i)}
  /\ stack' = Passed
  /\ UNCHANGED <<graph, visited, done>>

SkipNeighbor ==
  /\ Looking
  /\ Neighbor \in visited
  /\ Neighbor \notin OnPath
  /\ stack' = Passed
  /\ UNCHANGED <<graph, visited, cycles, done>>

(* stack.pop(), and the return to the caller's loop                         *)
LeaveNode ==
  /\ stack # << >>
  /\ Current.next > Len(graph.neighbors[Current.node])
  /\ stack' = SubSeq(stack, 1, Len(stack) - 1)
  /\ UNCHANGED <<graph, visited, cycles, done>>

SearchNext ==
  StartSearch \/ EnterNeighbor \/ ReportCycle \/ SkipNeighbor \/ LeaveNode

SearchInit ==
  /\ graph \in Graphs
  /\ visited = {}
  /\ stack = << >>
  /\ cycles = {}
  /\ done = {}

(* The search runs to its end in one call of find_cycles.                   *)
SearchSpec == SearchInit /\ [][SearchNext]_searchVars /\ WF_searchVars(SearchNext)

Searched == stack = << >> /\ Cardinality(done) = Len(graph.nodes)

----------------------------------------------------------------------------
(* Reference: reachability in a graph.                                      *)
Edge(u, v) == \E k \in 1 .. Len(graph.neighbors[u]) : graph.neighbors[u][k] = v

(* The nodes in every set that holds S and, of each node, its neighbours    *)
ReachableFrom(S) ==
  {n \in Node : \A T \in SUBSET Node :
     (/\ S \subseteq T
      /\ \A u \in T : \A k \in 1 .. Len(graph.neighbors[u]) : graph.neighbors[u][k] \in T)
     => n \in T}

(* A walk along edges that returns to its start and repeats no node.        *)
IsCycle(c) ==
  /\ c \in Seq(Node) /\ c # << >>
  /\ \A i \in 1 .. Len(c) - 1 : Edge(c[i], c[i + 1])
  /\ Edge(c[Len(c)], c[1])
  /\ \A i, j \in 1 .. Len(c) : c[i] = c[j] => i = j

----------------------------------------------------------------------------
SearchTypeOK ==
  /\ graph \in Graph
  /\ visited \subseteq Node
  /\ stack \in Seq(PathEntry)
  /\ done \subseteq Node /\ IsFiniteSet(done)

(* calculate_recursion reads the first, second and last node of every       *)
(* reported path as a cycle of types: each one is a cycle of the graph, and *)
(* names no node twice, although `visited` outlives the path it grew with.  *)
CyclesAreReal == \A c \in cycles : IsCycle(c)

(* "Find cycles in type tree to find which types are recursive" (graph.rs): *)
(* no edge that lies on a cycle is missed.  Each is the closing edge of     *)
(* some reported cycle, although a single search sees each node only once.  *)
EveryCyclicEdgeFound ==
  Searched =>
    \A u \in Node : \A k \in 1 .. Len(graph.neighbors[u]) :
      LET v == graph.neighbors[u][k]
      IN  u \in ReachableFrom({v}) => \E c \in cycles : c[1] = v /\ c[Len(c)] = u

(* The search ends on every graph, cyclic ones included.                    *)
SearchEnds == <>Searched
=============================================================================
