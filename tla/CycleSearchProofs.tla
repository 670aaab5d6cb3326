------------------------- MODULE CycleSearchProofs -------------------------
(***************************************************************************)
(* Proofs, for every graph, that what find_cycles reports are cycles, and   *)
(* that it reports one for every edge that lies on a cycle.                *)
(***************************************************************************)
EXTENDS CycleSearch, FiniteSetTheorems, TLAPS

(* What is left of a stack when its top is popped.                          *)
LEMMA PathPopped ==
  ASSUME NEW S, NEW s \in Seq(S), Len(s) > 0
  PROVE  /\ SubSeq(s, 1, Len(s) - 1) \in Seq(S)
         /\ Len(SubSeq(s, 1, Len(s) - 1)) = Len(s) - 1
         /\ \A i \in 1 .. Len(s) - 1 : SubSeq(s, 1, Len(s) - 1)[i] = s[i]
<1> DEFINE n == Len(s) - 1
<1>1. n \in Int /\ n >= 0 /\ \A i \in 1 .. n : s[i] \in S
  OBVIOUS
<1> HIDE DEF n
<1>2. /\ SubSeq(s, 1, n) \in Seq(S)
      /\ Len(SubSeq(s, 1, n)) = n
      /\ \A i \in 1 .. n : SubSeq(s, 1, n)[i] = s[i]
  BY <1>1
<1>3. QED
  BY <1>2, Zenon DEF n

(* Looking at one neighbour more changes no node of the path.               *)
LEMMA AdvancedPath ==
  ASSUME SearchTypeOK, Looking
  PROVE  /\ stack \in Seq(PathEntry) /\ Len(stack) \in Nat /\ Len(stack) > 0
         /\ Passed \in Seq(PathEntry)
         /\ Len(Passed) = Len(stack)
         /\ \A i \in 1 .. Len(stack) : Passed[i].node = stack[i].node
         /\ Neighbor \in Node
         /\ Edge(stack[Len(stack)].node, Neighbor)
<1>1. stack \in Seq(PathEntry) /\ Len(stack) \in Nat /\ Len(stack) > 0
  BY DEF SearchTypeOK, Looking
<1>2. Current \in PathEntry /\ Current = stack[Len(stack)]
  BY <1>1 DEF Current
<1>3. Current.node \in Node /\ Current.next \in Nat \ {0}
  BY <1>2 DEF PathEntry
<1>4. [Current EXCEPT !.next = @ + 1] \in PathEntry /\ [Current EXCEPT !.next = @ + 1].node = Current.node
  BY <1>2 DEF PathEntry
<1>5. Passed = [stack EXCEPT ![Len(stack)] = [Current EXCEPT !.next = @ + 1]]
  BY <1>1, <1>2 DEF Passed
<1>6. graph.neighbors[Current.node] \in Seq(Node)
  BY <1>3 DEF SearchTypeOK, Graph
<1>7. Current.next \in 1 .. Len(graph.neighbors[Current.node])
  BY <1>3, <1>6 DEF Looking
<1>8. Neighbor \in Node /\ Edge(Current.node, Neighbor)
  BY <1>6, <1>7 DEF Neighbor, Edge
<1>9. Passed \in Seq(PathEntry) /\ Len(Passed) = Len(stack)
  BY <1>1, <1>4, <1>5
<1>10. \A i \in 1 .. Len(stack) : Passed[i].node = stack[i].node
  BY <1>1, <1>2, <1>4, <1>5
<1>11. QED
  BY <1>1, <1>2, <1>8, <1>9, <1>10

(* The state of a search keeps its type.                                    *)
LEMMA SearchTypeStep == SearchTypeOK /\ [SearchNext]_searchVars => SearchTypeOK'
<1> SUFFICES ASSUME SearchTypeOK, [SearchNext]_searchVars PROVE SearchTypeOK'
  OBVIOUS
<1>1. CASE StartSearch
  <2>1. PICK n : /\ n = graph.nodes[Cardinality(done) + 1]
                 /\ visited' = {n} /\ stack' = << Entered(n) >> /\ done' = done \cup {n}
    BY <1>1 DEF StartSearch
  <2>2. Cardinality(done) \in Nat
    BY FS_CardinalityType DEF SearchTypeOK
  <2>3. n \in Node
    BY <1>1, <2>1, <2>2 DEF StartSearch, SearchTypeOK, Graph
  <2>4. Entered(n) \in PathEntry
    BY <2>3 DEF Entered, PathEntry
  <2>5. IsFiniteSet(done')
    BY <2>1, FS_AddElement DEF SearchTypeOK
  <2>6. QED
    BY <1>1, <2>1, <2>3, <2>4, <2>5 DEF StartSearch, SearchTypeOK
<1>2. CASE EnterNeighbor
  <2>1. Entered(Neighbor) \in PathEntry
    BY <1>2, AdvancedPath DEF EnterNeighbor, Entered, PathEntry
  <2>2. QED
    BY <1>2, <2>1, AdvancedPath DEF EnterNeighbor, SearchTypeOK
<1>3. CASE ReportCycle
  BY <1>3, AdvancedPath DEF ReportCycle, SearchTypeOK
<1>4. CASE SkipNeighbor
  BY <1>4, AdvancedPath DEF SkipNeighbor, SearchTypeOK
<1>5. CASE LeaveNode
  <2>1. stack \in Seq(PathEntry) /\ Len(stack) > 0
    BY <1>5 DEF LeaveNode, SearchTypeOK
  <2>2. stack' \in Seq(PathEntry)
    BY <1>5, <2>1, PathPopped DEF LeaveNode
  <2>3. QED
    BY <1>5, <2>2 DEF LeaveNode, SearchTypeOK
<1>6. CASE UNCHANGED searchVars
  BY <1>6 DEF searchVars, SearchTypeOK
<1>7. QED
  BY <1>1, <1>2, <1>3, <1>4, <1>5, <1>6 DEF SearchNext

(* The search starts with nothing visited and an empty path.                *)
LEMMA SearchTypeInit == SearchInit => SearchTypeOK
  BY GraphsAssumption, FS_EmptySet DEF SearchInit, SearchTypeOK

----------------------------------------------------------------------------
(* The inductive invariant: the path of the search is a path of the graph,  *)
(* through different nodes, all of them visited.  The last part is what     *)
(* keeps the nodes different, and CyclesAreReal alone does not say it.      *)
PathInv ==
  /\ \A i \in 1 .. Len(stack) - 1 : Edge(stack[i].node, stack[i + 1].node)
  /\ \A i, j \in 1 .. Len(stack) : stack[i].node = stack[j].node => i = j
  /\ \A i \in 1 .. Len(stack) : stack[i].node \in visited

SearchInv == SearchTypeOK /\ PathInv /\ CyclesAreReal

(* What is reported when a neighbour is found on the path.                  *)
LEMMA PathClosed ==
  ASSUME SearchTypeOK, PathInv, Looking,
         NEW i \in 1 .. Len(stack), stack[i].node = Neighbor
  PROVE  IsCycle(PathFrom(i))
<1> DEFINE m == Len(stack) - i + 1
           c == PathFrom(i)
<1>1. stack \in Seq(PathEntry) /\ Len(stack) \in Nat /\ Len(stack) > 0
      /\ Edge(stack[Len(stack)].node, Neighbor)
  BY AdvancedPath
<1>2. m \in Nat /\ m > 0 /\ \A k \in 1 .. m : i + k - 1 \in 1 .. Len(stack)
  BY <1>1
<1>3. \A k \in 1 .. m : stack[i + k - 1].node \in Node
  <2>1. ASSUME NEW j \in 1 .. Len(stack) PROVE stack[j].node \in Node
    <3>1. stack[j] \in PathEntry
      BY <1>1
    <3>2. QED
      BY <3>1 DEF PathEntry
  <2>2. QED
    BY <1>2, <2>1
<1>4. c \in Seq(Node) /\ Len(c) = m /\ \A k \in 1 .. m : c[k] = stack[i + k - 1].node
  BY <1>2, <1>3 DEF PathFrom
<1>5. c # << >>
  BY <1>2, <1>4
<1>6. ASSUME NEW k \in 1 .. Len(c) - 1
      PROVE  Edge(c[k], c[k + 1])
  <2>1. k \in 1 .. m /\ k + 1 \in 1 .. m /\ i + k - 1 \in 1 .. Len(stack) - 1
    BY <1>1, <1>2, <1>4
  <2>2. c[k] = stack[i + k - 1].node /\ c[k + 1] = stack[(i + k - 1) + 1].node
    BY <1>4, <2>1
  <2>3. QED
    BY <2>1, <2>2 DEF PathInv
<1>7. Edge(c[Len(c)], c[1])
  <2>1. c[m] = stack[Len(stack)].node /\ c[1] = stack[i].node
    BY <1>1, <1>2, <1>4
  <2>2. QED
    BY <1>1, <1>4, <2>1
<1>8. ASSUME NEW k \in 1 .. Len(c), NEW l \in 1 .. Len(c), c[k] = c[l]
      PROVE  k = l
  <2>1. /\ i + k - 1 \in 1 .. Len(stack) /\ i + l - 1 \in 1 .. Len(stack)
        /\ stack[i + k - 1].node = stack[i + l - 1].node
    BY <1>2, <1>4, <1>8
  <2>2. i + k - 1 = i + l - 1
    BY <2>1 DEF PathInv
  <2>3. QED
    BY <1>1, <1>2, <1>4, <2>2
<1>9. QED
  BY <1>4, <1>5, <1>6, <1>7, <1>8 DEF IsCycle

(* Every step of dfs_cycle keeps the path a walk of the graph without a     *)
(* repeated node, and what it reports from that path a cycle.               *)
LEMMA SearchInvStep == SearchInv /\ [SearchNext]_searchVars => SearchInv'
<1> SUFFICES ASSUME SearchInv, [SearchNext]_searchVars PROVE SearchInv'
  OBVIOUS
<1>1. SearchTypeOK /\ PathInv /\ CyclesAreReal /\ SearchTypeOK'
  BY SearchTypeStep DEF SearchInv
<1>2. graph' = graph
  BY DEF SearchNext, searchVars, StartSearch, EnterNeighbor, ReportCycle,
         SkipNeighbor, LeaveNode
<1>3. \A c : IsCycle(c) => IsCycle(c)'
  BY <1>2 DEF IsCycle, Edge
<1>4. ASSUME cycles' = cycles PROVE CyclesAreReal'
  BY <1>1, <1>3, <1>4 DEF CyclesAreReal
<1>5. ASSUME Looking, stack' = Passed, visited' = visited PROVE PathInv'
  <2>1. /\ Len(stack') = Len(stack) /\ Len(stack) \in Nat
        /\ \A i \in 1 .. Len(stack) : stack'[i].node = stack[i].node
    BY <1>1, <1>5, AdvancedPath
  <2>2. \A i \in 1 .. Len(stack') - 1 : Edge(stack'[i].node, stack'[i + 1].node)
    BY <1>1, <2>1 DEF PathInv
  <2>3. \A i, j \in 1 .. Len(stack') : stack'[i].node = stack'[j].node => i = j
    BY <1>1, <2>1 DEF PathInv
  <2>4. \A i \in 1 .. Len(stack') : stack'[i].node \in visited'
    BY <1>1, <1>5, <2>1 DEF PathInv
  <2>5. \A i \in 1 .. Len(stack') - 1 : Edge(stack[i].node, stack[i + 1].node)'
    BY <1>2, <2>2 DEF Edge
  <2>6. QED
    BY <2>3, <2>4, <2>5 DEF PathInv
<1>6. CASE StartSearch
  <2>1. PICK n : stack' = << Entered(n) >> /\ visited' = {n}
    BY <1>6 DEF StartSearch
  <2>2. PathInv'
    BY <2>1 DEF PathInv, Entered
  <2>3. QED
    BY <1>1, <1>4, <1>6, <2>2 DEF StartSearch, SearchInv
<1>7. CASE EnterNeighbor
  <2>1. Looking /\ Neighbor \notin visited /\ visited' = visited \cup {Neighbor}
        /\ stack' = Append(Passed, Entered(Neighbor))
    BY <1>7 DEF EnterNeighbor
  <2>2. /\ Passed \in Seq(PathEntry) /\ Len(stack) \in Nat /\ Len(stack) > 0
        /\ Len(Passed) = Len(stack)
        /\ \A i \in 1 .. Len(stack) : Passed[i].node = stack[i].node
        /\ Edge(stack[Len(stack)].node, Neighbor)
    BY <1>1, <2>1, AdvancedPath
  <2>3. /\ Len(stack') = Len(stack) + 1
        /\ \A i \in 1 .. Len(stack) : stack'[i].node = stack[i].node
        /\ stack'[Len(stack) + 1].node = Neighbor
    BY <2>1, <2>2 DEF Entered
  <2>4. \A i \in 1 .. Len(stack') - 1 : Edge(stack'[i].node, stack'[i + 1].node)
    BY <1>1, <2>2, <2>3 DEF PathInv
  <2>5. \A i, j \in 1 .. Len(stack') : stack'[i].node = stack'[j].node => i = j
    BY <1>1, <2>1, <2>2, <2>3 DEF PathInv
  <2>6. \A i \in 1 .. Len(stack') : stack'[i].node \in visited'
    BY <1>1, <2>1, <2>2, <2>3 DEF PathInv
  <2>7. PathInv'
    BY <1>2, <2>4, <2>5, <2>6 DEF PathInv, Edge
  <2>8. QED
    BY <1>1, <1>4, <1>7, <2>7 DEF EnterNeighbor, SearchInv
<1>8. CASE ReportCycle
  <2>1. PICK i \in 1 .. Len(stack) :
          stack[i].node = Neighbor /\ cycles' = cycles \cup {PathFrom(i)}
    BY <1>8 DEF ReportCycle
  <2>2. IsCycle(PathFrom(i))
    BY <1>1, <1>8, <2>1, PathClosed DEF ReportCycle
  <2>3. CyclesAreReal'
    BY <1>1, <1>3, <2>1, <2>2 DEF CyclesAreReal
  <2>4. QED
    BY <1>1, <1>5, <1>8, <2>3 DEF ReportCycle, SearchInv
<1>9. CASE SkipNeighbor
  BY <1>1, <1>4, <1>5, <1>9 DEF SkipNeighbor, SearchInv
<1>10. CASE LeaveNode
  <2>1. stack \in Seq(PathEntry) /\ Len(stack) > 0
        /\ stack' = SubSeq(stack, 1, Len(stack) - 1) /\ visited' = visited
    BY <1>1, <1>10 DEF LeaveNode, SearchTypeOK
  <2>2. /\ Len(stack') = Len(stack) - 1
        /\ \A i \in 1 .. Len(stack) - 1 : stack'[i] = stack[i]
        /\ Len(stack) \in Nat
    BY <2>1, PathPopped
  <2>3. \A i \in 1 .. Len(stack') - 1 : Edge(stack'[i].node, stack'[i + 1].node)
    BY <1>1, <2>2 DEF PathInv
  <2>4. /\ \A i, j \in 1 .. Len(stack') : stack'[i].node = stack'[j].node => i = j
        /\ \A i \in 1 .. Len(stack') : stack'[i].node \in visited'
    <3>1. /\ \A i \in 1 .. Len(stack') : i \in 1 .. Len(stack) /\ stack'[i] = stack[i]
          /\ visited' = visited
      BY <2>1, <2>2
    <3>2. QED
      BY <1>1, <3>1 DEF PathInv
  <2>5. PathInv'
    BY <1>2, <2>3, <2>4 DEF PathInv, Edge
  <2>6. QED
    BY <1>1, <1>4, <1>10, <2>5 DEF LeaveNode, SearchInv
<1>11. CASE UNCHANGED searchVars
  BY <1>1, <1>11, <1>4 DEF searchVars, SearchInv, PathInv, Edge
<1>12. QED
  BY <1>6, <1>7, <1>8, <1>9, <1>10, <1>11 DEF SearchNext

(* Whatever the graph, every path find_cycles reports is a cycle.           *)
THEOREM ReportsCycles == SearchSpec => []CyclesAreReal
<1>1. SearchInit => SearchInv
  BY SearchTypeInit DEF SearchInit, SearchInv, PathInv, CyclesAreReal
<1>2. SearchInv => CyclesAreReal
  BY DEF SearchInv
<1>3. QED
  BY <1>1, <1>2, SearchInvStep, PTL DEF SearchSpec

(* Whatever the graph, the path the search is on is one of nodes of the     *)
(* graph, each with the neighbour dfs_cycle looks at next.                  *)
THEOREM SearchTypeCorrect == SearchSpec => []SearchTypeOK
<1>1. SearchInit => SearchTypeOK
  BY SearchTypeInit
<1>2. SearchTypeOK /\ [SearchNext]_searchVars => SearchTypeOK'
  BY SearchTypeStep
<1>3. QED
  BY <1>1, <1>2, PTL DEF SearchSpec

----------------------------------------------------------------------------
(* The inductive invariant of the second result.  A search from r leaves    *)
(* no edge behind it unseen: all that follow from a node it has left have    *)
(* been visited, and those that lead back to r are reported.  So, when it    *)
(* is over, what is visited is all that can be reached from r.               *)

(* The node a search started from, and what is reported of it               *)
Root == stack[1].node
Reported(r, u) == \E c \in cycles : c[1] = r /\ c[Len(c)] = u

(* The neighbours of n before the m-th have been looked at.                 *)
Looked(n, m) ==
  \A k \in 1 .. Len(graph.neighbors[n]) : k < m =>
    /\ graph.neighbors[n][k] \in visited
    /\ graph.neighbors[n][k] = Root => Reported(Root, n)

(* The edges that close a cycle at r are reported.                          *)
Found(r) ==
  \A u \in ReachableFrom({r}) : \A k \in 1 .. Len(graph.neighbors[u]) :
    graph.neighbors[u][k] = r => Reported(r, u)

Started == Cardinality(done)

DoneInv ==
  /\ Started \in 0 .. Len(graph.nodes)
  /\ done = {graph.nodes[i] : i \in 1 .. Started}
  /\ \A i \in 1 .. Started : i < Started \/ stack = << >> => Found(graph.nodes[i])

CoverInv ==
  stack # << >> =>
    /\ Started > 0 /\ Root = graph.nodes[Started]
    /\ \A i \in 1 .. Len(stack), n \in Node, m \in Nat :
         stack[i].node = n /\ stack[i].next = m => Looked(n, m)
    /\ \A n \in visited : n \in OnPath \/ \A m \in Nat : Looked(n, m)

CompleteInv == SearchInv /\ DoneInv /\ CoverInv

LEMMA LookedKept ==
  ASSUME Root' = Root, graph' = graph, visited \subseteq visited', cycles \subseteq cycles',
         NEW n, NEW m, Looked(n, m)
  PROVE  Looked(n, m)'
BY DEF Looked, Reported

LEMMA FoundKept ==
  ASSUME graph' = graph, cycles \subseteq cycles', NEW r, Found(r)
  PROVE  Found(r)'
<1>1. ReachableFrom({r})' = ReachableFrom({r})
  BY DEF ReachableFrom
<1>2. QED
  BY <1>1 DEF Found, Reported

(* How far a step of the loop over the neighbours gets                      *)
LEMMA AdvancedNext ==
  ASSUME SearchTypeOK, Looking
  PROVE  /\ Current.node \in Node /\ Current.next \in Nat
         /\ \A i \in 1 .. Len(stack) - 1 : Passed[i] = stack[i]
         /\ Passed[Len(stack)].node = Current.node
         /\ Passed[Len(stack)].next = Current.next + 1
         /\ Current = stack[Len(stack)]
<1>1. stack \in Seq(PathEntry) /\ Len(stack) \in Nat /\ Len(stack) > 0
  BY AdvancedPath
<1>2. Current \in PathEntry /\ Current = stack[Len(stack)]
  BY <1>1 DEF Current
<1>3. Passed = [stack EXCEPT ![Len(stack)] = [Current EXCEPT !.next = @ + 1]]
  BY <1>1, <1>2 DEF Passed
<1>4. QED
  BY <1>1, <1>2, <1>3 DEF PathEntry

(* The loop looks at one neighbour more: it is visited, and reported if it  *)
(* is where the search started.                                             *)
LEMMA AdvanceCovers ==
  ASSUME CompleteInv, Looking, graph' = graph, done' = done,
         visited' = visited \cup {Neighbor}, cycles \subseteq cycles',
         \A r, u : r = Neighbor /\ r = Root /\ u = Current.node => Reported(r, u)',
         \/ stack' = Passed /\ Neighbor \in visited
         \/ stack' = Append(Passed, Entered(Neighbor))
  PROVE  DoneInv' /\ CoverInv'
<1>1. SearchTypeOK /\ PathInv /\ DoneInv /\ CoverInv
  BY DEF CompleteInv, SearchInv
<1>2. /\ stack # << >> /\ Len(stack) \in Nat /\ Len(stack) > 0
      /\ Len(Passed) = Len(stack) /\ Passed \in Seq(PathEntry)
      /\ \A i \in 1 .. Len(stack) : Passed[i].node = stack[i].node
  BY <1>1, AdvancedPath DEF Looking
<1>3. /\ Current.node \in Node /\ Current.next \in Nat
      /\ \A i \in 1 .. Len(stack) - 1 : Passed[i] = stack[i]
      /\ Passed[Len(stack)].node = Current.node
      /\ Passed[Len(stack)].next = Current.next + 1
      /\ Current = stack[Len(stack)]
  BY <1>1, AdvancedNext
<1>4. /\ stack' # << >>
      /\ Len(stack') \in {Len(stack), Len(stack) + 1}
      /\ \A i \in 1 .. Len(stack) : stack'[i] = Passed[i]
      /\ Len(stack') = Len(stack) + 1 =>
           stack'[Len(stack) + 1].node = Neighbor /\ stack'[Len(stack) + 1].next = 1
  <2>1. CASE stack' = Passed
    BY <1>2, <2>1
  <2>2. CASE stack' = Append(Passed, Entered(Neighbor))
    BY <1>2, <2>2 DEF Entered
  <2>3. QED
    BY <2>1, <2>2
<1>5. Root' = Root
  BY <1>2, <1>4 DEF Root
<1>6. \A n, m : Looked(n, m) => Looked(n, m)'
  BY <1>5, LookedKept
<1>7. DoneInv'
  <2>1. \A r : Found(r) => Found(r)'
    BY FoundKept
  <2>2. QED
    BY <1>1, <1>2, <1>4, <2>1 DEF DoneInv, Started
<1>8. Looked(Current.node, Current.next)
  <2>1. Len(stack) \in 1 .. Len(stack)
    BY <1>2
  <2>2. QED
    BY <1>1, <1>2, <1>3, <2>1 DEF CoverInv
<1>9. ASSUME NEW n, NEW m, n = Current.node, m = Current.next
      PROVE  Looked(n, m + 1)'
  <2>1. Looked(n, m)'
    BY <1>6, <1>8, <1>9
  <2>2. graph'.neighbors[n][m] = Neighbor
    BY <1>9 DEF Neighbor
  <2>3. Neighbor \in visited' /\ (Neighbor = Root' => Reported(Root, n)')
    BY <1>5, <1>9 DEF Reported
  <2>4. ASSUME NEW k \in 1 .. Len(graph'.neighbors[n]), k < m + 1
        PROVE  /\ graph'.neighbors[n][k] \in visited'
               /\ graph'.neighbors[n][k] = Root' => Reported(Root, n)'
    <3>1. k < m \/ k = m
      BY <1>3, <1>9, <2>4
    <3>2. CASE k < m
      BY <2>1, <3>2 DEF Looked
    <3>3. CASE k = m
      BY <2>2, <2>3, <3>3
    <3>4. QED
      BY <3>1, <3>2, <3>3
  <2>5. QED
    BY <2>4 DEF Looked
<1>10. CoverInv'
  <2> SUFFICES /\ Started' > 0 /\ Root' = graph'.nodes[Started']
               /\ \A i \in 1 .. Len(stack'), n \in Node, m \in Nat :
                    stack'[i].node = n /\ stack'[i].next = m => Looked(n, m)'
               /\ \A n \in visited' : n \in OnPath' \/ \A m \in Nat : Looked(n, m)'
    BY DEF CoverInv
  <2>1. Started' > 0 /\ Root' = graph'.nodes[Started']
    BY <1>1, <1>2, <1>5 DEF CoverInv, Started
  <2>2. ASSUME NEW i \in 1 .. Len(stack'), NEW n \in Node, NEW m \in Nat,
               stack'[i].node = n, stack'[i].next = m
        PROVE  Looked(n, m)'
    <3>1. CASE i \in 1 .. Len(stack) - 1
      <4>1. stack'[i] = stack[i]
        BY <1>2, <1>3, <1>4, <3>1
      <4>2. Looked(n, m)
        BY <1>1, <1>2, <2>2, <3>1, <4>1 DEF CoverInv
      <4>3. QED
        BY <1>6, <4>2
    <3>2. CASE i = Len(stack)
      <4>1. PICK k \in Nat : k = Current.next
        BY <1>3
      <4>2. n = Current.node /\ m = k + 1
        BY <1>2, <1>3, <1>4, <2>2, <3>2, <4>1
      <4>3. Looked(n, k + 1)'
        BY <1>9, <4>1, <4>2
      <4>4. QED
        BY <4>2, <4>3
    <3>3. CASE i = Len(stack) + 1
      <4>1. m = 1
        BY <1>2, <1>4, <2>2, <3>3
      <4>2. QED
        BY <4>1 DEF Looked
    <3>4. QED
      BY <1>2, <1>4, <3>1, <3>2, <3>3
  <2>3. ASSUME NEW n \in visited'
        PROVE  n \in OnPath' \/ \A m \in Nat : Looked(n, m)'
    <3>1. CASE n \in OnPath
      <4>1. PICK i \in 1 .. Len(stack) : stack[i].node = n
        BY <3>1 DEF OnPath
      <4>2. i \in 1 .. Len(stack') /\ stack'[i].node = n
        BY <1>2, <1>4, <4>1
      <4>3. QED
        BY <4>2 DEF OnPath
    <3>2. CASE n \in visited /\ n \notin OnPath
      <4>1. \A m \in Nat : Looked(n, m)
        BY <1>1, <1>2, <3>2 DEF CoverInv
      <4>2. QED
        BY <1>6, <4>1
    <3>3. CASE n = Neighbor /\ n \notin visited
      <4>1. Len(stack') = Len(stack) + 1 /\ Len(stack') \in 1 .. Len(stack')
        BY <1>2, <1>4, <3>3
      <4>2. stack'[Len(stack')].node = n
        BY <1>4, <3>3, <4>1
      <4>3. QED
        BY <4>1, <4>2 DEF OnPath
    <3>4. QED
      BY <3>1, <3>2, <3>3
  <2>4. QED
    BY <2>1, <2>2, <2>3
<1>11. QED
  BY <1>7, <1>10

(* The first node of the path is the only one where the search began.       *)
LEMMA RootOnPath ==
  ASSUME CompleteInv, stack # << >>
  PROVE  Root \in visited /\ Root \in OnPath
         /\ \A i \in 1 .. Len(stack) : stack[i].node = Root => i = 1
<1>1. Len(stack) \in Nat /\ Len(stack) > 0
  BY DEF CompleteInv, SearchInv, SearchTypeOK
<1>2. 1 \in 1 .. Len(stack)
  BY <1>1
<1>3. QED
  BY <1>2 DEF CompleteInv, SearchInv, PathInv, OnPath, Root

(* The last node is left with all its neighbours looked at; if it is the    *)
(* first one too, the search from it has found every cycle through it.      *)
LEMMA LeaveCovers ==
  ASSUME CompleteInv, LeaveNode
  PROVE  DoneInv' /\ CoverInv'
<1>1. SearchTypeOK /\ PathInv /\ DoneInv /\ CoverInv
  BY DEF CompleteInv, SearchInv
<1>2. /\ stack # << >> /\ stack \in Seq(PathEntry) /\ Len(stack) \in Nat /\ Len(stack) > 0
      /\ stack' = SubSeq(stack, 1, Len(stack) - 1)
      /\ graph' = graph /\ visited' = visited /\ cycles' = cycles /\ done' = done
  BY <1>1 DEF LeaveNode, SearchTypeOK
<1>3. /\ Len(stack') = Len(stack) - 1
      /\ \A i \in 1 .. Len(stack) - 1 : stack'[i] = stack[i]
  BY <1>2, PathPopped
<1>4. Current \in PathEntry /\ Current = stack[Len(stack)] /\ Len(stack) \in 1 .. Len(stack)
  BY <1>2 DEF Current
<1>5. PICK w, l : w = Current.node /\ l = Current.next /\ w \in Node /\ l \in Nat
  BY <1>4 DEF PathEntry
<1>6. l > Len(graph.neighbors[w]) /\ Len(graph.neighbors[w]) \in Nat
  BY <1>1, <1>5 DEF LeaveNode, SearchTypeOK, Graph
<1>7. \A m \in Nat : Looked(w, m)
  <2>1. Looked(w, l)
    BY <1>1, <1>2, <1>4, <1>5 DEF CoverInv
  <2>2. \A k \in 1 .. Len(graph.neighbors[w]) : k < l
    BY <1>5, <1>6
  <2>3. QED
    BY <2>1, <2>2 DEF Looked
<1>8. \A r : Found(r) => Found(r)'
  BY <1>2, FoundKept
<1>9. CASE Len(stack) > 1
  <2>1. stack' # << >> /\ Root' = Root
    <3>1. Len(stack') > 0 /\ 1 \in 1 .. Len(stack) - 1
      BY <1>2, <1>3, <1>9
    <3>2. stack'[1] = stack[1]
      BY <1>3, <3>1
    <3>3. stack' # << >>
      BY <3>1
    <3>4. QED
      BY <3>2, <3>3 DEF Root
  <2>2. \A n, m : Looked(n, m) => Looked(n, m)'
    BY <1>2, <2>1, LookedKept
  <2>3. DoneInv'
    BY <1>1, <1>2, <1>8, <2>1 DEF DoneInv, Started
  <2>4. Started' > 0 /\ Root' = graph'.nodes[Started']
    BY <1>1, <1>2, <2>1 DEF CoverInv, Started
  <2>5. ASSUME NEW i \in 1 .. Len(stack'), NEW n \in Node, NEW m \in Nat,
               stack'[i].node = n, stack'[i].next = m
        PROVE  Looked(n, m)'
    <3>1. i \in 1 .. Len(stack) /\ stack'[i] = stack[i]
      BY <1>2, <1>3
    <3>2. Looked(n, m)
      BY <1>1, <1>2, <2>5, <3>1 DEF CoverInv
    <3>3. QED
      BY <2>2, <3>2
  <2>6. ASSUME NEW n \in visited'
        PROVE  n \in OnPath' \/ \A m \in Nat : Looked(n, m)'
    <3>1. CASE n \in OnPath
      <4>1. PICK i \in 1 .. Len(stack) : stack[i].node = n
        BY <3>1 DEF OnPath
      <4>2. CASE i = Len(stack)
        BY <1>4, <1>5, <1>7, <2>2, <4>1, <4>2
      <4>3. CASE i # Len(stack)
        <5>1. i \in 1 .. Len(stack') /\ stack'[i].node = n
          BY <1>2, <1>3, <4>1, <4>3
        <5>2. QED
          BY <5>1 DEF OnPath
      <4>4. QED
        BY <4>2, <4>3
    <3>2. CASE n \notin OnPath
      <4>1. \A m \in Nat : Looked(n, m)
        BY <1>1, <1>2, <3>2 DEF CoverInv
      <4>2. QED
        BY <2>2, <4>1
    <3>3. QED
      BY <3>1, <3>2
  <2>7. CoverInv'
    BY <2>4, <2>5, <2>6 DEF CoverInv
  <2>8. QED
    BY <2>3, <2>7
<1>10. CASE Len(stack) = 1
  <2>1. stack' = << >>
    BY <1>2, <1>3, <1>10
  <2>2. Current = stack[1] /\ w = Root /\ OnPath = {w}
    BY <1>4, <1>5, <1>10 DEF Root, OnPath
  <2>3. \A n \in visited : \A m \in Nat : Looked(n, m)
    BY <1>1, <1>2, <1>7, <2>2 DEF CoverInv
  <2>4. \A n \in visited : \A k \in 1 .. Len(graph.neighbors[n]) :
          /\ graph.neighbors[n][k] \in visited
          /\ graph.neighbors[n][k] = Root => Reported(Root, n)
    <3>1. ASSUME NEW n \in visited, NEW k \in 1 .. Len(graph.neighbors[n])
          PROVE  /\ graph.neighbors[n][k] \in visited
                 /\ graph.neighbors[n][k] = Root => Reported(Root, n)
      <4>1. k + 1 \in Nat /\ k < k + 1
        OBVIOUS
      <4>2. QED
        BY <2>3, <4>1 DEF Looked
    <3>2. QED
      BY <3>1
  <2>5. ReachableFrom({Root}) \subseteq visited
    <3>1. {Root} \subseteq visited /\ visited \in SUBSET Node
      BY <1>1, <1>2, RootOnPath DEF SearchTypeOK
    <3>2. QED
      BY <2>4, <3>1 DEF ReachableFrom
  <2>6. Found(Root)
    BY <2>4, <2>5 DEF Found
  <2>7. DoneInv'
    <3>1. Started \in Nat /\ Started > 0 /\ Root = graph.nodes[Started]
      BY <1>1, <1>2 DEF CoverInv, DoneInv, SearchTypeOK, Graph
    <3>2. \A i \in 1 .. Started : i < Started \/ i = Started
      BY <3>1
    <3>3. \A i \in 1 .. Started : Found(graph.nodes[i])
      BY <1>1, <2>6, <3>1, <3>2 DEF DoneInv
    <3>4. QED
      BY <1>1, <1>2, <1>8, <3>3 DEF DoneInv, Started
  <2>8. QED
    BY <2>1, <2>7 DEF CoverInv
<1>11. Len(stack) > 1 \/ Len(stack) = 1
  <2>1. \A n \in Nat : n > 0 => n > 1 \/ n = 1
    OBVIOUS
  <2>2. QED
    BY <1>2, <2>1
<1>12. QED
  BY <1>9, <1>10, <1>11

(* The search from the next node starts with that node alone visited.       *)
LEMMA StartCovers ==
  ASSUME CompleteInv, StartSearch
  PROVE  DoneInv' /\ CoverInv'
<1>1. SearchTypeOK /\ DoneInv
  BY DEF CompleteInv, SearchInv
<1>2. PICK n : /\ n = graph.nodes[Started + 1]
               /\ visited' = {n} /\ stack' = << Entered(n) >> /\ done' = done \cup {n}
  BY DEF StartSearch, Started
<1>3. /\ stack = << >> /\ graph' = graph /\ cycles' = cycles
      /\ Started \in Nat /\ Started + 1 \in 1 .. Len(graph.nodes)
      /\ Len(graph.nodes) \in Nat
  BY <1>1 DEF StartSearch, DoneInv, Started, SearchTypeOK, Graph
<1>4. n \notin done
  <2>1. \A i \in 1 .. Started : i \in 1 .. Len(graph.nodes) /\ i # Started + 1
    BY <1>3
  <2>2. \A i \in 1 .. Started : graph.nodes[i] # n
    BY <1>1, <1>2, <1>3, <2>1 DEF SearchTypeOK, Graph
  <2>3. QED
    BY <1>1, <2>2 DEF DoneInv
<1>5. Started' = Started + 1
  BY <1>1, <1>2, <1>4, FS_AddElement DEF Started, SearchTypeOK
<1>6. /\ stack' # << >> /\ Len(stack') = 1 /\ Root' = n
      /\ stack'[1].node = n /\ stack'[1].next = 1 /\ OnPath' = {n}
  BY <1>2 DEF Root, Entered, OnPath
<1>7. DoneInv'
  <2>1. done' = {graph'.nodes[i] : i \in 1 .. Started'}
    <3>1. 1 .. Started' = 1 .. Started \cup {Started + 1}
      BY <1>3, <1>5
    <3>2. QED
      BY <1>1, <1>2, <1>3, <3>1 DEF DoneInv
  <2>2. ASSUME NEW i \in 1 .. Started', i < Started' \/ stack' = << >>,
               NEW r, r = graph.nodes[i]
        PROVE  Found(r)'
    <3>1. i \in 1 .. Started
      BY <1>3, <1>5, <1>6, <2>2
    <3>2. Found(r)
      BY <1>1, <1>3, <2>2, <3>1 DEF DoneInv
    <3>3. QED
      BY <1>3, <3>2, FoundKept
  <2>3. Started' \in 0 .. Len(graph'.nodes)
    BY <1>3, <1>5
  <2>4. \A i \in 1 .. Started' : i < Started' \/ stack' = << >> => Found(graph.nodes[i])'
    BY <1>3, <2>2
  <2>5. QED
    BY <2>1, <2>3, <2>4 DEF DoneInv
<1>8. CoverInv'
  <2>1. Started' > 0 /\ Root' = graph'.nodes[Started']
    BY <1>2, <1>3, <1>5, <1>6
  <2>2. ASSUME NEW i \in 1 .. Len(stack'), NEW u \in Node, NEW m \in Nat,
               stack'[i].node = u, stack'[i].next = m
        PROVE  Looked(u, m)'
    <3>1. m = 1
      BY <1>6, <2>2
    <3>2. QED
      BY <3>1 DEF Looked
  <2>3. \A u \in visited' : u \in OnPath'
    BY <1>2, <1>6
  <2>4. QED
    BY <2>1, <2>2, <2>3 DEF CoverInv
<1>9. QED
  BY <1>7, <1>8


(* Every step of find_cycles keeps the invariant.                           *)
LEMMA CompleteStep == CompleteInv /\ [SearchNext]_searchVars => CompleteInv'
<1> SUFFICES ASSUME CompleteInv, [SearchNext]_searchVars PROVE DoneInv' /\ CoverInv'
  BY SearchInvStep DEF CompleteInv
<1>1. SearchTypeOK /\ PathInv /\ DoneInv /\ CoverInv
  BY DEF CompleteInv, SearchInv
<1>2. CASE StartSearch
  BY <1>2, StartCovers
<1>3. CASE EnterNeighbor
  <2>1. Looking /\ Neighbor \notin visited /\ stack # << >>
    BY <1>3 DEF EnterNeighbor, Looking
  <2>2. Neighbor # Root
    BY <2>1, RootOnPath
  <2>3. QED
    BY <1>3, <2>1, <2>2, AdvanceCovers DEF EnterNeighbor
<1>4. CASE ReportCycle
  <2>1. /\ Looking /\ stack # << >> /\ Neighbor \in visited
        /\ graph' = graph /\ done' = done /\ visited' = visited /\ stack' = Passed
    BY <1>4 DEF ReportCycle, Looking
  <2>2. PICK i \in 1 .. Len(stack) :
          stack[i].node = Neighbor /\ cycles' = cycles \cup {PathFrom(i)}
    BY <1>4 DEF ReportCycle
  <2>3. ASSUME NEW r, NEW u, r = Neighbor, r = Root, u = Current.node
        PROVE  Reported(r, u)'
    <3>1. i = 1
      BY <2>1, <2>2, <2>3, RootOnPath
    <3>2. Len(stack) \in Nat /\ Len(stack) > 0 /\ Current = stack[Len(stack)]
      BY <1>1, <2>1, AdvancedPath DEF Current
    <3>3. PICK m \in Nat : m = Len(stack) /\ m > 0
      BY <3>2
    <3>4. PathFrom(1) = [k \in 1 .. m |-> stack[k].node]
      <4>1. m - 1 + 1 = m /\ \A k \in 1 .. m : 1 + k - 1 = k
        BY <3>3
      <4>2. QED
        BY <3>3, <4>1 DEF PathFrom
    <3>5. Len(PathFrom(1)) = m
      BY <3>3, <3>4
    <3>6. PathFrom(1)[1] = r /\ PathFrom(1)[m] = u
      BY <2>3, <3>2, <3>3, <3>4 DEF Root
    <3>7. PathFrom(1) \in cycles'
      BY <2>2, <3>1
    <3>8. QED
      BY <3>5, <3>6, <3>7 DEF Reported
  <2>4. QED
    BY <2>1, <2>2, <2>3, AdvanceCovers
<1>5. CASE SkipNeighbor
  <2>1. Looking /\ Neighbor \notin OnPath /\ stack # << >>
    BY <1>5 DEF SkipNeighbor, Looking
  <2>2. Neighbor # Root
    BY <2>1, RootOnPath
  <2>3. QED
    BY <1>5, <2>1, <2>2, AdvanceCovers DEF SkipNeighbor
<1>6. CASE LeaveNode
  BY <1>6, LeaveCovers
<1>7. CASE UNCHANGED searchVars
  <2>1. /\ graph' = graph /\ visited' = visited /\ stack' = stack
        /\ cycles' = cycles /\ done' = done
    BY <1>7 DEF searchVars
  <2>2. Root' = Root /\ OnPath' = OnPath /\ Started' = Started
    BY <2>1 DEF Root, OnPath, Started
  <2>3. /\ \A r : Found(r) => Found(r)'
        /\ \A n, m : Looked(n, m) => Looked(n, m)'
    BY <2>1, <2>2, FoundKept, LookedKept
  <2>4. DoneInv'
    BY <1>1, <2>1, <2>2, <2>3 DEF DoneInv
  <2>5. CoverInv'
    BY <1>1, <2>1, <2>2, <2>3 DEF CoverInv
  <2>6. QED
    BY <2>4, <2>5
<1>8. QED
  BY <1>2, <1>3, <1>4, <1>5, <1>6, <1>7 DEF SearchNext

(* At the start nothing has been searched.                                  *)
Fresh ==
  graph \in Graph /\ visited = {} /\ stack = << >> /\ cycles = {} /\ done = {}

LEMMA CompleteFresh == Fresh => CompleteInv
<1> SUFFICES ASSUME Fresh PROVE CompleteInv
  OBVIOUS
<1>1. SearchInv
  BY FS_EmptySet DEF Fresh, SearchInv, SearchTypeOK, PathInv, CyclesAreReal
<1>2. Started = 0
  BY FS_EmptySet DEF Fresh, Started
<1>3. Len(graph.nodes) \in Nat
  BY DEF Fresh, Graph
<1>4. DoneInv
  BY <1>2, <1>3 DEF Fresh, DoneInv
<1>5. QED
  BY <1>1, <1>4 DEF Fresh, CoverInv, CompleteInv

(* When every search is over, every cycle has been found.                   *)
LEMMA CompleteFinds == CompleteInv => EveryCyclicEdgeFound
<1> SUFFICES ASSUME CompleteInv, Searched,
                    NEW u \in Node, NEW k \in 1 .. Len(graph.neighbors[u]),
                    NEW v, v = graph.neighbors[u][k],
                    u \in ReachableFrom({v})
             PROVE  \E c \in cycles : c[1] = v /\ c[Len(c)] = u
  BY DEF EveryCyclicEdgeFound
<1>1. PICK i \in 1 .. Len(graph.nodes) : graph.nodes[i] = v
  <2>1. graph \in Graph
    BY DEF CompleteInv, SearchInv, SearchTypeOK
  <2>2. v \in {graph.nodes[i] : i \in 1 .. Len(graph.nodes)}
    BY <2>1 DEF Graph
  <2>3. QED
    BY <2>2
<1>2. Found(v)
  BY <1>1 DEF CompleteInv, DoneInv, Started, Searched
<1>3. QED
  BY <1>2 DEF Found, Reported

(* Whatever the graph, no edge that lies on a cycle is missed by find_cycles. *)
THEOREM FindsEveryCycle == SearchSpec => []EveryCyclicEdgeFound
<1>1. SearchInit => CompleteInv
  BY CompleteFresh, GraphsAssumption DEF SearchInit, Fresh
<1>2. CompleteInv => EveryCyclicEdgeFound
  BY CompleteFinds
<1>3. QED
  BY <1>1, <1>2, CompleteStep, PTL DEF SearchSpec
=============================================================================
