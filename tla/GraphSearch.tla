----------------------------- MODULE GraphSearch -----------------------------
(***************************************************************************)
(* The breadth-first search over the graph of a node's Links               *)
(* (internal/graphsearch/bfs.go) and what bringDownDependents makes of it: *)
(* which dependents of a Link are set down before the Link is changed.     *)
(*                                                                         *)
(* The search ranges over a Go map, in random order, so it is a function   *)
(* to the set of its possible outcomes.                                    *)
(***************************************************************************)
EXTENDS Naturals, SequencesExt

(* A graph: its vertices, and for two of them the data of the edge from the  *)
(* first to the second, SetDownOnDependencyChainUpdate.                      *)
EdgeData == {"none", "setDown", "leave"}

Adjacent(g, v) == {w \in g.vertices : g.edge[<<v, w>>] # "none"}

(* The search: vertices waiting with the edge that led to each, those marked *)
(* visited, and the calls of the visit function so far.                      *)
Start(v) ==
  [waiting |-> <<[vertex |-> v, via |-> "none"]>>, visited |-> {v}, visits |-> <<>>]

WrongTakeNext(g, search) ==        \* marks a vertex visited when it is taken
  LET v == Head(search.waiting).vertex
      new == {[vertex |-> w, via |-> g.edge[<<v, w>>]] :
                w \in Adjacent(g, v) \ (search.visited \cup {v})}
  IN {[waiting |-> Tail(search.waiting) \o order,
       visited |-> search.visited \cup {v},
       visits  |-> Append(search.visits, Head(search.waiting))] :
        order \in SetToSeqs(new)}

(* One turn of the loop: the first waiting vertex is visited, its adjacent   *)
(* vertices that are not marked yet are marked and wait, in any order.       *)
TakeNext(g, search) ==
  LET v == Head(search.waiting).vertex
      new == {[vertex |-> w, via |-> g.edge[<<v, w>>]] : w \in Adjacent(g, v) \ search.visited}
  IN {[waiting |-> Tail(search.waiting) \o order,
       visited |-> search.visited \cup {e.vertex : e \in new},
       visits  |-> Append(search.visits, Head(search.waiting))] :
        order \in SetToSeqs(new)}

Turn(g, search) ==
  IF search.waiting = <<>> THEN {search} ELSE TakeNext(g, search)

(* The searches from v after some number of turns; a search that marks       *)
(* vertices takes a turn for each of them.                                   *)
Searches(g, v) ==
  LET after[n \in 0..Cardinality(g.vertices)] ==
        IF n = 0 THEN {Start(v)} ELSE UNION {Turn(g, s) : s \in after[n - 1]}
  IN after

(* BFSWithEdge: every sequence of visits that the search may make.           *)
BFSWithEdge(g, v) == {s.visits : s \in Searches(g, v)[Cardinality(g.vertices)]}

WrongSetDown(visits) == {visits[i].vertex : i \in DOMAIN visits}   \* all of them

(* The visit function of bringDownDependents: the Links it sets down.        *)
SetDownBy(visits) ==
  {visits[i].vertex : i \in {j \in DOMAIN visits : visits[j].via = "setDown"}}

-----------------------------------------------------------------------------
(* Reference definitions. *)

(* What can be reached from v: what every set with v in it that is closed    *)
(* under the edges has.                                                      *)
Reachable(g, v) ==
  {w \in g.vertices :
     \A S \in SUBSET g.vertices :
       v \in S /\ (\A u \in S : Adjacent(g, u) \subseteq S) => w \in S}

(* The vertices at most so many edges away from v.                           *)
Within(g, v) ==
  LET within[n \in 0..Cardinality(g.vertices)] ==
        IF n = 0 THEN {v}
                 ELSE within[n - 1] \cup UNION {Adjacent(g, u) : u \in within[n - 1]}
  IN within

(* How many edges away from v a vertex is: in how many of these nested sets  *)
(* it is missing.                                                            *)
Distance(g, v, w) ==
  LET within == Within(g, v)
  IN Cardinality({n \in 0..Cardinality(g.vertices) : w \notin within[n]})

(* The dependents of v that some, or every, reference within reach of a      *)
(* change of v asks to be set down.                                          *)
AskedBySome(g, v) ==
  {w \in Reachable(g, v) : \E u \in Reachable(g, v) : g.edge[<<u, w>>] = "setDown"}

AskedByAll(g, v) ==
  {w \in AskedBySome(g, v) : \A u \in Reachable(g, v) : g.edge[<<u, w>>] # "leave"}

(* The search visits what can be reached, each vertex once and the nearer    *)
(* ones first.                                                               *)
BreadthFirst(g, start) ==
  \A visits \in BFSWithEdge(g, start) :
    LET v == [i \in DOMAIN visits |-> visits[i].vertex]
    IN /\ ToSet(v) = Reachable(g, start) /\ IsInjective(v)
       /\ \A i, j \in DOMAIN v :
            i < j => Distance(g, start, v[i]) <= Distance(g, start, v[j])

(* What is set down is what all references ask for, and maybe what some do.  *)
AsAsked(g, start) ==
  \A visits \in BFSWithEdge(g, start) :
    /\ AskedByAll(g, start) \subseteq SetDownBy(visits)
    /\ SetDownBy(visits) \subseteq AskedBySome(g, start)

(* Every acyclic graph of so many vertices: edges lead to larger numbers.    *)
SmallGraphs(n) ==
  {[vertices |-> 1..n,
    edge |-> [e \in (1..n) \X (1..n) |-> IF e[1] < e[2] THEN data[e] ELSE "none"]] :
      data \in [{e \in (1..n) \X (1..n) : e[1] < e[2]} -> EdgeData]}
=============================================================================
