--------------------------- MODULE NodeUpsert_proofs ---------------------------
(* Proofs about the upserts of NodeRepair, for every set of Links and every  *)
(* acyclic configuration of them, whatever others do to the links.           *)
EXTENDS NodeRepair_proofs, GraphSearch_proofs

-----------------------------------------------------------------------------
(* The links of the node.                                                    *)

(* What is not there has no attribute, and no two links have the same index. *)
KernelOK ==
  /\ kernel \in [Name -> NetlinkLink]
  /\ \A n \in Name : kernel[n].index = 0 => kernel[n] = NoLink
  /\ \A n, m \in Name :
       kernel[n].index # 0 /\ kernel[n].index = kernel[m].index => n = m

(* A new link has an index of its own.                                       *)
LEMMA NewIndexFresh ==
  ASSUME kernel \in [Name -> NetlinkLink], NEW held, IsFiniteSet(held), held \subseteq Nat
  PROVE  /\ NewIndex(held) \in Nat /\ NewIndex(held) # 0 /\ NewIndex(held) \notin held
         /\ \A n \in Name : kernel[n].index # NewIndex(held)
<1>. DEFINE indices == {kernel[n].index : n \in Name}
            used == indices \cup held
            c == Cardinality(used)
            T == {i \in Nat : i >= 1 /\ i \notin used}
            Good(i) == i \notin used /\ \A j \in 1..(i - 1) : j \in used
<1>1. IsFiniteSet(indices)
  <2>. DEFINE f == [n \in Name |-> kernel[n].index]
  <2>1. f \in Surjection(Name, indices)
    BY DEF Surjection
  <2>2. IsFiniteSet(Name)
    BY NodeRepairAssumption
  <2>. HIDE DEF f, indices
  <2>. QED
    BY <2>1, <2>2, FS_Surjection
<1>2. IsFiniteSet(used) /\ c \in Nat
  <2>. HIDE DEF indices
  <2>. QED
    BY <1>1, FS_Union, FS_CardinalityType
<1>3. \E i \in 1..(c + 1) : i \notin used
  <2>1. SUFFICES ASSUME \A i \in 1..(c + 1) : i \in used
                 PROVE  FALSE
    OBVIOUS
  <2>2. (1..(c + 1)) \in SUBSET used
    BY <2>1
  <2>. HIDE DEF used
  <2>3. Cardinality(1..(c + 1)) = c + 1
    BY <1>2, FS_Interval
  <2>4. Cardinality(1..(c + 1)) <= c
    BY <1>2, <2>2, FS_Subset
  <2>. QED
    BY <1>2, <2>3, <2>4
<1>. HIDE DEF used, c
<1>4. PICK m \in T : \A i \in T : m <= i
  <2>1. T \subseteq Nat /\ T # {}
    BY <1>2, <1>3
  <2>. HIDE DEF T
  <2>. QED
    BY <2>1, Least
<1>5. m \in 1..(c + 1) /\ Good(m)
  <2>1. PICK i \in 1..(c + 1) : i \notin used
    BY <1>3
  <2>2. i \in T
    BY <1>2, <2>1
  <2>3. m <= i
    BY <1>4, <2>2
  <2>4. \A j \in 1..(m - 1) : j \in used
    BY <1>4
  <2>. QED
    BY <1>2, <1>4, <2>3, <2>4
<1>6. NewIndex(held) = CHOOSE i \in 1..(c + 1) : Good(i)
  BY DEF NewIndex, used, c
<1>7. NewIndex(held) \in 1..(c + 1) /\ Good(NewIndex(held))
  <2>. HIDE DEF Good
  <2>. QED
    BY <1>5, <1>6
<1>. QED
  BY <1>2, <1>7 DEF used

(* An absent link is added.                                                  *)
LEMMA AddedOK ==
  ASSUME KernelOK, NEW n \in Name, NEW link \in NetlinkLink,
         NEW held, IsFiniteSet(held), held \subseteq Nat,
         kernel' = Added(n, link, held)
  PROVE  /\ KernelOK'
         /\ \A m \in Name : m # n => kernel'[m] = kernel[m]
         /\ kernel'[n] = [link EXCEPT !.index = NewIndex(held)]
         /\ kernel'[n].index # 0
<1>. DEFINE i == NewIndex(held)
            new == [link EXCEPT !.index = i]
<1>1. i \in Nat /\ i # 0 /\ \A m \in Name : kernel[m].index # i
  BY NewIndexFresh DEF KernelOK
<1>2. kernel' = [kernel EXCEPT ![n] = new]
  BY DEF Added
<1>. HIDE DEF i
<1>3. new \in NetlinkLink /\ new.index = i
  BY <1>1 DEF NetlinkLink
<1>. HIDE DEF new
<1>4. /\ kernel' \in [Name -> NetlinkLink] /\ kernel'[n] = new
      /\ \A m \in Name : m # n => kernel'[m] = kernel[m]
  BY <1>2, <1>3 DEF KernelOK
<1>5. KernelOK'
  BY <1>1, <1>3, <1>4 DEF KernelOK
<1>. QED
  BY <1>1, <1>3, <1>4, <1>5 DEF new, i

(* A link is set in place.                                                   *)
LEMMA SetOK ==
  ASSUME KernelOK, NEW n \in Name, NEW link \in NetlinkLink,
         kernel[n].index # 0, link.index = kernel[n].index,
         kernel' = [kernel EXCEPT ![n] = link]
  PROVE  /\ KernelOK' /\ kernel'[n] = link
         /\ \A m \in Name : m # n => kernel'[m] = kernel[m]
         /\ \A m \in Name : kernel'[m].index = kernel[m].index
  BY DEF KernelOK

(* A link is deleted, and others with it; the rest may lose its master.      *)
LEMMA WithoutOK ==
  ASSUME KernelOK, NEW n \in Name, kernel' = Without(n)
  PROVE  /\ KernelOK' /\ kernel'[n] = NoLink
         /\ \A m \in Name : kernel'[m].up => kernel[m].up
<1>1. n \in Deleted(n)
  BY DEF Deleted
<1>2. kernel'[n] = NoLink
  BY <1>1 DEF Without
<1>3. DOMAIN kernel' = Name /\ kernel' = [m \in Name |-> kernel'[m]]
  BY DEF Without
<1>4. ASSUME NEW m \in Name
      PROVE  \/ kernel'[m] = NoLink \/ kernel'[m] = kernel[m]
             \/ kernel'[m] = [kernel[m] EXCEPT !.master = 0]
  BY DEF Without
<1>5. NoLink \in NetlinkLink /\ NoLink.index = 0 /\ ~NoLink.up /\ NoLink.master = 0
  BY DEF NoLink, NetlinkLink
<1>6. ASSUME NEW m \in Name
      PROVE  /\ kernel'[m] \in NetlinkLink
             /\ kernel'[m].index = 0 \/ kernel'[m].index = kernel[m].index
             /\ kernel'[m].index = 0 => kernel'[m] = NoLink
             /\ kernel'[m].up => kernel[m].up
  <2>. DEFINE K == kernel[m]
  <2>1. K \in NetlinkLink /\ (K.index = 0 => K = NoLink)
    BY DEF KernelOK
  <2>2. [K EXCEPT !.master = 0] \in NetlinkLink
    BY <2>1 DEF NetlinkLink
  <2>3. [K EXCEPT !.master = 0].index = K.index /\ [K EXCEPT !.master = 0].up = K.up
    BY <2>1 DEF NetlinkLink
  <2>4. K.index = 0 => [K EXCEPT !.master = 0] = NoLink
    BY <2>1 DEF NoLink
  <2>. HIDE DEF K
  <2>5. \/ kernel'[m] = NoLink \/ kernel'[m] = K \/ kernel'[m] = [K EXCEPT !.master = 0]
    BY <1>4 DEF K
  <2>. QED
    BY <1>5, <2>1, <2>2, <2>3, <2>4, <2>5 DEF K
<1>7. kernel' \in [Name -> NetlinkLink]
  BY <1>3, <1>6
<1>8. KernelOK'
  BY <1>6, <1>7 DEF KernelOK
<1>. QED
  BY <1>2, <1>6, <1>8

(* The link with the index of a link is that link.                           *)
LEMMA NameOfIndex ==
  ASSUME KernelOK, NEW n \in Name, kernel[n].index # 0
  PROVE  NameOf(kernel[n].index) = n /\ HasIndex(kernel[n].index)
<1>1. HasIndex(kernel[n].index)
  BY DEF HasIndex, Present
<1>2. /\ NameOf(kernel[n].index) \in Name
      /\ kernel[NameOf(kernel[n].index)].index = kernel[n].index
  BY DEF NameOf
<1>. QED
  BY <1>1, <1>2 DEF KernelOK

(* An index that a link has is that of the link that LinkByIndex returns.    *)
LEMMA IndexNamed ==
  ASSUME KernelOK, NEW i, HasIndex(i)
  PROVE  NameOf(i) \in Name /\ kernel[NameOf(i)].index = i /\ i # 0
<1>1. PICK n \in Name : kernel[n].index = i /\ i # 0
  BY DEF HasIndex, Present
<1>. QED
  BY <1>1 DEF NameOf

-----------------------------------------------------------------------------
(* The graph of the Links.                                                   *)

(* An edge of the graph is a reference of a Link to its dependency.          *)
LEMMA EdgesAreReferences ==
  ASSUME NEW all, NEW u \in DOMAIN all, NEW w \in DOMAIN all
  PROVE  /\ DesiredLinkGraph(all).vertices = DOMAIN all
         /\ DesiredLinkGraph(all).edge[<<u, w>>] \in EdgeData
         /\ DesiredLinkGraph(all).edge[<<u, w>>] # "none"
              => \E r \in GetDependencies(all[w]) : r.to = u
         /\ (\E r \in GetDependencies(all[w]) : r.to = u /\ r.setDown)
              => DesiredLinkGraph(all).edge[<<u, w>>] = "setDown"
<1>. DEFINE refs == {r \in GetDependencies(all[w]) : r.to = u}
            data == IF refs = {} THEN "none"
                    ELSE IF \E r \in refs : r.setDown THEN "setDown" ELSE "leave"
<1>1. DesiredLinkGraph(all).vertices = DOMAIN all
  BY DEF DesiredLinkGraph
<1>2. DesiredLinkGraph(all).edge[<<u, w>>] = data
  BY DEF DesiredLinkGraph
<1>3. data \in EdgeData
  BY DEF EdgeData
<1>4. data # "none" => \E r \in GetDependencies(all[w]) : r.to = u
  OBVIOUS
<1>5. (\E r \in GetDependencies(all[w]) : r.to = u /\ r.setDown) => data = "setDown"
  OBVIOUS
<1>. HIDE DEF data
<1>. QED
  BY <1>1, <1>2, <1>3, <1>4, <1>5

(* The graph that buildDesiredLinkGraph builds is one that can be searched.  *)
LEMMA LinkGraph ==
  ASSUME NEW all, DOMAIN all \subseteq Link
  PROVE  IsGraph(DesiredLinkGraph(all)) /\ DesiredLinkGraph(all).vertices = DOMAIN all
<1>. DEFINE g == DesiredLinkGraph(all)
            D == DOMAIN all
<1>1. IsFiniteSet(D)
  BY NodeRepairAssumption, FS_Subset
<1>2. g.vertices = D
  BY DEF DesiredLinkGraph
<1>3. DOMAIN g.edge = D \X D /\ g.edge = [e \in D \X D |-> g.edge[e]]
  BY DEF DesiredLinkGraph
<1>4. ASSUME NEW e \in D \X D
      PROVE  g.edge[e] \in EdgeData
  <2>1. e = <<e[1], e[2]>> /\ e[1] \in D /\ e[2] \in D
    OBVIOUS
  <2>2. g.edge[<<e[1], e[2]>>] \in EdgeData
    BY <2>1, EdgesAreReferences
  <2>. QED
    BY <2>1, <2>2
<1>. HIDE DEF g, D
<1>5. g.edge \in [D \X D -> EdgeData]
  BY <1>3, <1>4
<1>6. IsGraph(g)
  BY <1>1, <1>2, <1>5 DEF IsGraph
<1>. QED
  BY <1>2, <1>6 DEF g, D

(* Links that can be sorted have no cycle: what can be reached from a Link,  *)
(* which depends on it, comes after it, so that it does not depend on that.  *)
LEMMA NoCycle ==
  ASSUME NEW all, DOMAIN all \subseteq Link, TopologicallySorted(all) # {},
         NEW l \in DOMAIN all
  PROVE  /\ \A u \in Reachable(DesiredLinkGraph(all), l) :
              DesiredLinkGraph(all).edge[<<u, l>>] = "none"
         /\ \A r \in GetDependencies(all[l]) : r.to # l
<1>. DEFINE g == DesiredLinkGraph(all)
            D == DOMAIN all
            edge(a, b) == g.edge[<<a, b>>]
            Needs(b, a) == \E r \in GetDependencies(all[b]) : r.to = a
<1>1. PICK order \in SetToSeqs(D) :
        \A i, j \in DOMAIN order : Needs(order[i], order[j]) => j < i
  BY DEF TopologicallySorted
<1>2. IsFiniteSet(D)
  BY NodeRepairAssumption, FS_Subset
<1>3. /\ order \in Seq(D)
      /\ \A x \in D : \E i \in DOMAIN order : order[i] = x
  <2>. HIDE DEF D
  <2>. QED
    BY <1>1, <1>2, Ordered
<1>4. DOMAIN order = 1..Len(order) /\ \A i \in DOMAIN order : order[i] \in D
  BY <1>3, LenProperties, ElementOfSeq
<1>5. PICK k \in DOMAIN order : order[k] = l
  BY <1>3
<1>. DEFINE S == {order[i] : i \in {j \in DOMAIN order : k <= j}}
<1>6. g.vertices = D
  BY LinkGraph
<1>7. ASSUME NEW a \in D, NEW b \in D, edge(a, b) # "none"
      PROVE  Needs(b, a)
  BY <1>7, EdgesAreReferences
<1>. HIDE DEF g, D, edge, Needs
<1>8. l \in D
  BY <1>4, <1>5
<1>9. ASSUME NEW a \in S, NEW b \in D, Needs(b, a)
      PROVE  b \in S
  <2>1. PICK i \in DOMAIN order : order[i] = a /\ k <= i
    BY <1>9
  <2>2. PICK j \in DOMAIN order : order[j] = b
    BY <1>3
  <2>3. i < j
    BY <1>1, <1>9, <2>1, <2>2
  <2>4. k <= j
    BY <1>4, <1>5, <2>1, <2>2, <2>3
  <2>. QED
    BY <2>2, <2>4
<1>10. S \in SUBSET D /\ l \in S
  BY <1>4, <1>5
<1>11. ASSUME NEW a \in S, NEW b \in Adjacent(g, a)
       PROVE  b \in S
  <2>1. b \in D /\ edge(a, b) # "none"
    BY <1>6 DEF Adjacent, edge
  <2>2. a \in D
    BY <1>10
  <2>3. Needs(b, a)
    BY <1>7, <2>1, <2>2
  <2>. HIDE DEF S
  <2>. QED
    BY <1>9, <2>1, <2>3
<1>12. Reachable(g, l) \subseteq S
  <2>. HIDE DEF S
  <2>. QED
    BY <1>6, <1>10, <1>11 DEF Reachable
<1>13. ASSUME NEW a \in S, Needs(l, a)
       PROVE  FALSE
  <2>1. PICK i \in DOMAIN order : order[i] = a /\ k <= i
    BY <1>13
  <2>2. i < k
    BY <1>1, <1>5, <1>13, <2>1
  <2>. QED
    BY <1>4, <2>1, <2>2
<1>14. ASSUME NEW u \in Reachable(g, l)
       PROVE  edge(u, l) = "none"
  <2>1. u \in S /\ u \in D
    BY <1>10, <1>12
  <2>. HIDE DEF S
  <2>. QED
    BY <1>7, <1>8, <1>13, <2>1
<1>15. ~Needs(l, l)
  BY <1>10, <1>13
<1>. QED
  BY <1>14, <1>15 DEF g, edge, Needs

-----------------------------------------------------------------------------
(* The loop of the upserts.                                                  *)

(* Each link has one Link.                                                   *)
DesiredOK ==
  /\ DesiredType
  /\ \A l, k \in Link : l # k => spec[l].name # spec[k].name

(* The loop goes through Links that could be sorted, as they were read.      *)
LoopOK ==
  /\ DOMAIN links \subseteq Link /\ \A l \in DOMAIN links : links[l] = spec[l]
  /\ lacking \subseteq DOMAIN links
  /\ todo \in Seq(DOMAIN links) /\ setDowns \in Seq(DOMAIN links)
  /\ pass = "read" => TopologicallySorted(links) # {}
  /\ failed \in BOOLEAN /\ disturbed \in BOOLEAN /\ trouble \in 0..MaxTrouble

Calls == {"retrieve", "delete", "add", "again", "mtu", "device", "group", "learning",
          "master", "up"}

(* An upsert that runs is that of a managed Link with its dependencies, and  *)
(* its dependents are set down before its first call.                        *)
CallOK ==
  /\ copy \in NetlinkLink
  /\ IF at = None THEN call \in {"ok", "error"} /\ setDowns = <<>>
     ELSE /\ at \in DOMAIN links /\ pass = "read" /\ call \in Calls
          /\ lacking = {} /\ ~Missing(at) /\ IsManaged(links[at])
          /\ call \in {"device", "group", "learning", "master"} => links[at].kind = "vxlan"
  /\ setDowns # <<>> => call = "retrieve"

(* What is read of a link that is not there.                                 *)
LEMMA NoLinkType == NoLink \in NetlinkLink /\ NoLink.index = 0 /\ ~NoLink.up
  BY DEF NoLink, NetlinkLink

(* Nobody changes what a Link asks for.                                      *)
LEMMA DesiredStep ==
  ASSUME DesiredOK, [Next]_vars
  PROVE  DesiredOK'
<1>1. UNCHANGED spec
  BY DEF vars, desired, Next, Agent, Begin, GetLinks, SetDownDependent, CallUpsert, EndPass,
         SetDownLacking, RefuseLink, LeaveLink, BeginLink, Watcher, CallFails,
         SubscriptionFails, Restart, Others, Register
<1>2. DesiredType'
  BY DesiredTypeKept DEF DesiredOK
<1>. QED
  BY <1>1, <1>2 DEF DesiredOK

(* The loop ends, or has not begun.                                          *)
LEMMA EndsOK ==
  ASSUME LoopEnds, pass' # "read", trouble' \in 0..MaxTrouble
  PROVE  LoopOK' /\ CallOK'
<1>1. DOMAIN links' = {} /\ lacking' = {} /\ todo' = <<>> /\ setDowns' = <<>> /\ at' = None
  BY DEF LoopEnds, NoLinks
<1>2. <<>> \in Seq(DOMAIN links')
  BY EmptySeq
<1>3. LoopOK'
  <2>1. (pass = "read" => TopologicallySorted(links) # {})'
    OBVIOUS
  <2>2. failed' \in BOOLEAN /\ disturbed' \in BOOLEAN
    BY DEF LoopEnds
  <2>. QED
    BY <1>1, <1>2, <2>1, <2>2 DEF LoopOK
<1>4. CallOK'
  BY <1>1, NoLinkType DEF CallOK, LoopEnds
<1>. QED
  BY <1>3, <1>4

(* The pass goes on with the same Links.                                     *)
LEMMA SameLinksOK ==
  ASSUME LoopOK, UNCHANGED <<spec, links>>, pass' = "read" => pass = "read",
         lacking' \subseteq lacking,
         todo' = todo \/ (todo # <<>> /\ todo' = Tail(todo)) \/ todo' = <<>>,
         setDowns' \in Seq(DOMAIN links),
         failed' \in BOOLEAN, disturbed' \in BOOLEAN, trouble' \in 0..MaxTrouble
  PROVE  LoopOK'
<1>1. todo' \in Seq(DOMAIN links)
  BY HeadTailProperties, EmptySeq DEF LoopOK
<1>2. (pass = "read" => TopologicallySorted(links) # {})'
  BY DEF LoopOK
<1>. QED
  BY <1>1, <1>2 DEF LoopOK

(* What is set down before the upsert of a Link are other Links, and the     *)
(* dependents that ask for it are among them.                                *)
LEMMA BeginsWith ==
  ASSUME LoopOK, NEW l \in DOMAIN links, TopologicallySorted(links) # {},
         NEW visits \in BFSWithEdge(DesiredLinkGraph(links), l),
         NEW order \in SetToSeqs(SetDownBy(visits))
  PROVE  /\ order \in Seq(DOMAIN links)
         /\ \A k \in DOMAIN links :
              (\E r \in GetDependencies(links[k]) : r.to = l /\ r.setDown)
                => \E i \in 1..Len(order) : order[i] = k
<1>. DEFINE g == DesiredLinkGraph(links)
            D == DOMAIN links
            S == SetDownBy(visits)
<1>1. IsGraph(g) /\ g.vertices = D
  BY LinkGraph DEF LoopOK
<1>2. S \subseteq D
  BY <1>1, SetDownType
<1>3. IsFiniteSet(D)
  BY NodeRepairAssumption, FS_Subset DEF LoopOK
<1>4. ASSUME NEW k \in D, \E r \in GetDependencies(links[k]) : r.to = l /\ r.setDown
      PROVE  k \in S
  <2>1. g.edge[<<l, k>>] = "setDown"
    BY <1>4, EdgesAreReferences
  <2>2. k # l
    BY <1>4, NoCycle DEF LoopOK
  <2>. QED
    BY <1>1, <2>1, <2>2, DirectSetDown
<1>. HIDE DEF g, D, S
<1>5. IsFiniteSet(S)
  BY <1>2, <1>3, FS_Subset
<1>6. order \in SetToSeqs(S)
  BY DEF S
<1>7. /\ order \in Seq(S)
      /\ \A x \in S : \E i \in DOMAIN order : order[i] = x
  BY <1>5, <1>6, Ordered
<1>8. order \in Seq(D) /\ DOMAIN order = 1..Len(order)
  BY <1>2, <1>7, SeqMonotonic, LenProperties
<1>. QED
  BY <1>4, <1>7, <1>8 DEF D

-----------------------------------------------------------------------------
(* The calls of an upsert.                                                   *)

(* An attribute that can be set, and a value for it.                         *)
Settable(a, v) ==
  \/ a \in {"mtu", "master", "device"} /\ v \in Nat
  \/ a = "group" /\ v \in {"none", "unicast", "multicast", "inet6"}
  \/ a \in {"up", "learning"} /\ v \in BOOLEAN

(* A link stays one, with its index, whatever attribute of it is set.        *)
LEMMA SettableType ==
  ASSUME NEW link \in NetlinkLink, NEW a, NEW v, Settable(a, v)
  PROVE  /\ [link EXCEPT ![a] = v] \in NetlinkLink
         /\ [link EXCEPT ![a] = v].index = link.index
<1>1. CASE a = "mtu" /\ v \in Nat
  BY <1>1 DEF NetlinkLink
<1>2. CASE a = "master" /\ v \in Nat
  BY <1>2 DEF NetlinkLink
<1>3. CASE a = "device" /\ v \in Nat
  BY <1>3 DEF NetlinkLink
<1>4. CASE a = "group" /\ v \in {"none", "unicast", "multicast", "inet6"}
  BY <1>4 DEF NetlinkLink
<1>5. CASE a = "up" /\ v \in BOOLEAN
  BY <1>5 DEF NetlinkLink
<1>6. CASE a = "learning" /\ v \in BOOLEAN
  BY <1>6 DEF NetlinkLink
<1>. QED
  BY <1>1, <1>2, <1>3, <1>4, <1>5, <1>6 DEF Settable

(* The link with the index in the copy is set in place.                      *)
InPlace(a, v) ==
  /\ ~Gone
  /\ kernel' = [kernel EXCEPT ![NameOf(copy.index)] =
                  [kernel[NameOf(copy.index)] EXCEPT ![a] = v]]

(* The link with the index in the copy is set, and no other one.             *)
LEMMA InPlaceOK ==
  ASSUME KernelOK, NEW a, NEW v, Settable(a, v), InPlace(a, v)
  PROVE  /\ KernelOK'
         /\ \A m \in Name : kernel'[m].index = kernel[m].index
         /\ \A m \in Name : kernel[m].index = copy.index => kernel'[m] = [kernel[m] EXCEPT ![a] = v]
         /\ \A m \in Name : kernel[m].index # copy.index => kernel'[m] = kernel[m]
<1>. DEFINE n == NameOf(copy.index)
            new == [kernel[n] EXCEPT ![a] = v]
<1>1. HasIndex(copy.index)
  BY DEF InPlace, Gone
<1>2. n \in Name /\ kernel[n].index = copy.index /\ kernel[n].index # 0
  BY <1>1, IndexNamed
<1>3. kernel' = [kernel EXCEPT ![n] = new]
  BY DEF InPlace
<1>4. kernel[n] \in NetlinkLink
  BY <1>2 DEF KernelOK
<1>. HIDE DEF n
<1>5. new \in NetlinkLink /\ new.index = kernel[n].index
  BY <1>4, SettableType
<1>. HIDE DEF new
<1>6. /\ KernelOK' /\ kernel'[n] = new
      /\ \A m \in Name : m # n => kernel'[m] = kernel[m]
      /\ \A m \in Name : kernel'[m].index = kernel[m].index
  BY <1>2, <1>3, <1>5, SetOK
<1>7. \A m \in Name : kernel[m].index = copy.index => m = n
  BY <1>2 DEF KernelOK
<1>. QED
  BY <1>2, <1>6, <1>7 DEF new

(* What the calls that set an attribute do unless they fail.                 *)
Sets(a, differs, v, next) ==
  /\ call' = next /\ copy' = copy
  /\ \/ ~differs /\ kernel' = kernel
     \/ differs /\ InPlace(a, v)

(* The MTU is set unless the Link leaves it open.                            *)
LEMMA SetMTUDoes ==
  ASSUME NEW s, SetMTU(s)
  PROVE  /\ call = "mtu"
         /\ \/ Fails
            \/ Sets("mtu", s.mtu # 0 /\ copy.mtu # s.mtu, s.mtu,
                    IF s.kind = "vxlan" THEN "device" ELSE "up")
  BY DEF SetMTU, SetAttribute, Sets, InPlace

(* The group is set when the copy has another one.                           *)
LEMMA SetGroupDoes ==
  ASSUME NEW s, SetGroup(s)
  PROVE  /\ call = "group"
         /\ Fails \/ Sets("group", copy.group # s.group, s.group, "learning")
  BY DEF SetGroup, SetAttribute, Sets, InPlace

(* So is the learning.                                                       *)
LEMMA SetLearningDoes ==
  ASSUME NEW s, SetLearning(s)
  PROVE  /\ call = "learning"
         /\ Fails \/ Sets("learning", copy.learning # s.learning, s.learning, "master")
  BY DEF SetLearning, SetAttribute, Sets, InPlace

(* A reference is set to what it resolves to, when that is there.            *)
LEMMA SetDeviceDoes ==
  ASSUME NEW s, SetDevice(s, links)
  PROVE  /\ call = "device"
         /\ \/ Fails
            \/ /\ LinkRefDiffers(s.device, copy.device, links) => DesiredIsThere(s.device, links)
               /\ Sets("device", LinkRefDiffers(s.device, copy.device, links),
                       DesiredIndex(s.device, links), "group")
  BY DEF SetDevice, SetReference, SetAttribute, Sets, InPlace

(* So is the master, before the link is set up.                              *)
LEMMA SetMasterDoes ==
  ASSUME NEW s, SetMaster(s, links)
  PROVE  /\ call = "master"
         /\ \/ Fails
            \/ /\ LinkRefDiffers(s.master, copy.master, links) => DesiredIsThere(s.master, links)
               /\ Sets("master", LinkRefDiffers(s.master, copy.master, links),
                       DesiredIndex(s.master, links), "up")
  BY DEF SetMaster, SetReference, SetAttribute, Sets, InPlace

(* The link is set up, which ends the upsert.                                *)
LEMMA SetUpDoes ==
  ASSUME SetUp
  PROVE  call = "up" /\ (Fails \/ (InPlace("up", TRUE) /\ call' = "ok" /\ copy' = NoLink))
  BY DEF SetUp, InPlace

(* What the references of the Link being upserted resolve to.                *)
LEMMA ResolvedOK ==
  ASSUME DesiredOK, LoopOK, NEW l \in DOMAIN links, ~Missing(l), links[l].kind = "vxlan",
         NEW ref, ref = links[l].device \/ ref = links[l].master,
         NEW wanted, wanted = Resolved(ref, links), wanted # NoRef
  PROVE  wanted = ref /\ wanted.to \in DOMAIN links /\ links[wanted.to].name \in Name
<1>1. wanted = ref /\ ref # NoRef /\ (ref.optional => ref.to \in DOMAIN links)
  BY DEF Resolved
<1>2. ref \in GetDependencies(links[l])
  BY <1>1 DEF GetDependencies
<1>3. ref.to \in DOMAIN links
  BY <1>1, <1>2 DEF Missing
<1>4. links[ref.to] \in LinkSpec
  BY <1>3 DEF DesiredOK, DesiredType, LoopOK
<1>. QED
  BY <1>1, <1>3, <1>4 DEF LinkSpec

(* The index that a reference is set to, 0 for none.                         *)
LEMMA DesiredIndexType ==
  ASSUME KernelOK, DesiredOK, LoopOK, NEW l \in DOMAIN links, ~Missing(l),
         links[l].kind = "vxlan",
         NEW ref, ref = links[l].device \/ ref = links[l].master
  PROVE  DesiredIndex(ref, links) \in Nat
<1>1. CASE Resolved(ref, links) = NoRef
  BY <1>1 DEF DesiredIndex
<1>2. CASE Resolved(ref, links) # NoRef
  <2>1. PICK wanted : wanted = Resolved(ref, links)
    OBVIOUS
  <2>2. wanted.to \in DOMAIN links /\ links[wanted.to].name \in Name
    BY <1>2, <2>1, ResolvedOK
  <2>3. kernel[links[wanted.to].name] \in NetlinkLink
    BY <2>2 DEF KernelOK
  <2>4. DesiredIndex(ref, links) = kernel[links[wanted.to].name].index
    BY <1>2, <2>1 DEF DesiredIndex
  <2>. QED
    BY <2>3, <2>4 DEF NetlinkLink
<1>. QED
  BY <1>1, <1>2

(* Every call of an upsert keeps the types, fails, or leads to the next.     *)
UpsertLeads ==
  /\ KernelOK' /\ copy' \in NetlinkLink
  /\ call' \in Calls \cup {"ok", "error"}
  /\ call' \in {"device", "group", "learning", "master"} => links[at].kind = "vxlan"

(* A call that fails ends the upsert and changes no link.                    *)
LEMMA FailsLeads ==
  ASSUME KernelOK, Fails
  PROVE  UpsertLeads
<1>1. kernel' = kernel /\ call' = "error" /\ copy' = NoLink
  BY DEF Fails
<1>2. KernelOK'
  BY <1>1 DEF KernelOK
<1>. QED
  BY <1>1, <1>2, NoLinkType DEF UpsertLeads

(* A call that sets an attribute, or need not set it.                        *)
LEMMA SetsLeads ==
  ASSUME KernelOK, copy \in NetlinkLink,
         NEW a, NEW v, Settable(a, v), kernel' = kernel \/ InPlace(a, v),
         copy' = copy \/ copy' = NoLink, call' \in Calls \cup {"ok", "error"},
         call' \in {"device", "group", "learning", "master"} => links[at].kind = "vxlan"
  PROVE  UpsertLeads
<1>1. KernelOK'
  <2>1. CASE kernel' = kernel
    BY <2>1 DEF KernelOK
  <2>2. CASE InPlace(a, v)
    BY <2>2, InPlaceOK
  <2>. QED
    BY <2>1, <2>2
<1>. QED
  BY <1>1, NoLinkType DEF UpsertLeads

(* So does every call, whichever it is.                                      *)
LEMMA UpsertTypes ==
  ASSUME KernelOK, DesiredOK, LoopOK, CallOK, at # None, Upsert(links[at], links)
  PROVE  UpsertLeads
<1>. DEFINE s == links[at]
<1>1. /\ at \in DOMAIN links /\ ~Missing(at) /\ s.kind # "unmanaged"
      /\ call \in {"device", "group", "learning", "master"} => s.kind = "vxlan"
      /\ copy \in NetlinkLink
  BY DEF CallOK, IsManaged
<1>2. s \in LinkSpec
  BY <1>1 DEF DesiredOK, DesiredType, LoopOK
<1>3. /\ s.name \in Name /\ s.mtu \in Nat /\ s.params \in Nat /\ s.learning \in BOOLEAN
      /\ s.group \in {"none", "unicast", "multicast"} /\ s.kind \in {"bridge", "vxlan"}
  BY <1>1, <1>2 DEF LinkSpec
<1>4. kernel[s.name] \in NetlinkLink
  BY <1>3 DEF KernelOK
<1>. HIDE DEF s
<1>5. CASE Retrieve(s)
  <2>1. kernel' = kernel /\ copy' = kernel[s.name] /\ call' \in {"add", "delete", "mtu"}
    BY <1>5 DEF Retrieve
  <2>2. KernelOK'
    BY <2>1 DEF KernelOK
  <2>. QED
    BY <1>4, <2>1, <2>2 DEF UpsertLeads, Calls
<1>6. CASE DeleteExisting
  <2>1. CASE Fails
    BY <2>1, FailsLeads
  <2>2. CASE ~Gone /\ kernel' = Without(NameOf(copy.index)) /\ call' = "add" /\ copy' = NoLink
    <3>1. NameOf(copy.index) \in Name
      BY <2>2, IndexNamed DEF Gone
    <3>2. KernelOK'
      BY <2>2, <3>1, WithoutOK
    <3>. QED
      BY <2>2, <3>2, NoLinkType DEF UpsertLeads, Calls
  <2>. QED
    BY <1>6, <2>1, <2>2 DEF DeleteExisting
<1>7. CASE Add(s)
  <2>1. KernelOK'
    <3>1. CASE UNCHANGED kernel
      BY <3>1 DEF KernelOK
    <3>2. CASE kernel' = Added(s.name, NewLink(s), {})
      <4>1. NewLink(s) \in NetlinkLink
        BY <1>3 DEF NewLink, NoLink, NetlinkLink
      <4>2. IsFiniteSet({})
        BY FS_EmptySet
      <4>. QED
        BY <1>3, <3>2, <4>1, <4>2, AddedOK
    <3>. QED
      BY <1>7, <3>1, <3>2 DEF Add
  <2>. QED
    BY <1>7, <2>1, NoLinkType DEF Add, UpsertLeads, Calls
<1>8. CASE RetrieveAgain(s)
  <2>1. CASE Fails
    BY <2>1, FailsLeads
  <2>2. CASE copy' = kernel[s.name] /\ call' = "mtu" /\ UNCHANGED kernel
    <3>1. KernelOK'
      BY <2>2 DEF KernelOK
    <3>. QED
      BY <1>4, <2>2, <3>1 DEF UpsertLeads, Calls
  <2>. QED
    BY <1>8, <2>1, <2>2 DEF RetrieveAgain
<1>9. CASE SetMTU(s)
  <2>1. Settable("mtu", s.mtu)
    BY <1>3 DEF Settable
  <2>2. CASE Fails
    BY <2>2, FailsLeads
  <2>3. CASE ~Fails
    <3>1. /\ copy' = copy /\ call' = IF s.kind = "vxlan" THEN "device" ELSE "up"
          /\ kernel' = kernel \/ InPlace("mtu", s.mtu)
      BY <1>9, <2>3, SetMTUDoes DEF Sets
    <3>. QED
      BY <1>1, <2>1, <3>1, SetsLeads DEF Calls, s
  <2>. QED
    BY <2>2, <2>3
<1>10. CASE SetDevice(s, links)
  <2>1. Settable("device", DesiredIndex(s.device, links))
    <3>1. call = "device"
      BY <1>10 DEF SetDevice
    <3>2. DesiredIndex(s.device, links) \in Nat
      BY <1>1, <3>1, DesiredIndexType DEF s
    <3>. QED
      BY <3>2 DEF Settable
  <2>2. CASE Fails
    BY <2>2, FailsLeads
  <2>3. CASE ~Fails
    <3>1. /\ copy' = copy /\ call' = "group" /\ call = "device"
          /\ kernel' = kernel \/ InPlace("device", DesiredIndex(s.device, links))
      BY <1>10, <2>3, SetDeviceDoes DEF Sets
    <3>. QED
      BY <1>1, <2>1, <3>1, SetsLeads DEF Calls, s
  <2>. QED
    BY <2>2, <2>3
<1>11. CASE SetGroup(s)
  <2>1. Settable("group", s.group)
    BY <1>3 DEF Settable
  <2>2. CASE Fails
    BY <2>2, FailsLeads
  <2>3. CASE ~Fails
    <3>1. /\ copy' = copy /\ call' = "learning" /\ call = "group"
          /\ kernel' = kernel \/ InPlace("group", s.group)
      BY <1>11, <2>3, SetGroupDoes DEF Sets
    <3>. QED
      BY <1>1, <2>1, <3>1, SetsLeads DEF Calls, s
  <2>. QED
    BY <2>2, <2>3
<1>12. CASE SetLearning(s)
  <2>1. Settable("learning", s.learning)
    BY <1>3 DEF Settable
  <2>2. CASE Fails
    BY <2>2, FailsLeads
  <2>3. CASE ~Fails
    <3>1. /\ copy' = copy /\ call' = "master" /\ call = "learning"
          /\ kernel' = kernel \/ InPlace("learning", s.learning)
      BY <1>12, <2>3, SetLearningDoes DEF Sets
    <3>. QED
      BY <1>1, <2>1, <3>1, SetsLeads DEF Calls, s
  <2>. QED
    BY <2>2, <2>3
<1>13. CASE SetMaster(s, links)
  <2>1. Settable("master", DesiredIndex(s.master, links))
    <3>1. call = "master"
      BY <1>13 DEF SetMaster
    <3>2. DesiredIndex(s.master, links) \in Nat
      BY <1>1, <3>1, DesiredIndexType DEF s
    <3>. QED
      BY <3>2 DEF Settable
  <2>2. CASE Fails
    BY <2>2, FailsLeads
  <2>3. CASE ~Fails
    <3>1. /\ copy' = copy /\ call' = "up"
          /\ kernel' = kernel \/ InPlace("master", DesiredIndex(s.master, links))
      BY <1>13, <2>3, SetMasterDoes DEF Sets
    <3>. QED
      BY <1>1, <2>1, <3>1, SetsLeads DEF Calls, s
  <2>. QED
    BY <2>2, <2>3
<1>14. CASE SetUp
  <2>1. Settable("up", TRUE)
    BY DEF Settable
  <2>2. CASE Fails
    BY <2>2, FailsLeads
  <2>3. CASE ~Fails
    <3>1. InPlace("up", TRUE) /\ call' = "ok" /\ copy' = NoLink
      BY <1>14, <2>3, SetUpDoes
    <3>. QED
      BY <1>1, <2>1, <3>1, SetsLeads
  <2>. QED
    BY <2>2, <2>3
<1>. QED
  BY <1>5, <1>6, <1>7, <1>8, <1>9, <1>10, <1>11, <1>12, <1>13, <1>14 DEF Upsert, s

-----------------------------------------------------------------------------
(* The steps of the loop.                                                    *)

(* A link is set down.                                                       *)
LEMMA BringDownOK ==
  ASSUME KernelOK, NEW n \in Name, BringDown(n)
  PROVE  /\ KernelOK' /\ ~kernel'[n].up
         /\ \A m \in Name : m # n => kernel'[m] = kernel[m]
         /\ UNCHANGED <<watched, request, queue, reconciler>>
<1>1. /\ kernel' = IF Present(n) THEN [kernel EXCEPT ![n].up = FALSE] ELSE kernel
      /\ UNCHANGED <<watched, request, queue, reconciler>>
  BY DEF BringDown
<1>2. CASE Present(n)
  <2>. DEFINE new == [kernel[n] EXCEPT !["up"] = FALSE]
  <2>1. Settable("up", FALSE) /\ kernel[n] \in NetlinkLink
    BY DEF Settable, KernelOK
  <2>2. new \in NetlinkLink /\ new.index = kernel[n].index
    BY <2>1, SettableType
  <2>3. ~new.up
    BY <2>1 DEF NetlinkLink
  <2>4. kernel' = [kernel EXCEPT ![n] = new]
    BY <1>1, <1>2
  <2>. HIDE DEF new
  <2>5. /\ KernelOK' /\ kernel'[n] = new
        /\ \A m \in Name : m # n => kernel'[m] = kernel[m]
    BY <1>2, <2>2, <2>4, SetOK DEF Present
  <2>. QED
    BY <1>1, <2>3, <2>5
<1>3. CASE ~Present(n)
  BY <1>1, <1>3, NoLinkType DEF KernelOK, Present
<1>. QED
  BY <1>2, <1>3

(* The name of a Link that was read.                                         *)
LEMMA LinkNamed ==
  ASSUME DesiredOK, LoopOK, NEW l \in DOMAIN links
  PROVE  l \in Link /\ links[l] \in LinkSpec /\ links[l].name \in Name
  BY DEF DesiredOK, DesiredType, LoopOK, LinkSpec

(* The upsert that runs goes on, or none runs.                               *)
LEMMA SameCallOK ==
  ASSUME CallOK, UNCHANGED <<call, copy, links, at>>, at # None => pass' = "read",
         lacking' \subseteq lacking, setDowns' = setDowns \/ call = "retrieve"
  PROVE  CallOK'
  BY DEF CallOK, Missing

(* No upsert runs.                                                           *)
LEMMA NoCallOK ==
  ASSUME CallOK, UNCHANGED <<call, copy, at, setDowns>>, at = None
  PROVE  CallOK'
  BY DEF CallOK

(* A step of the agent that does not read or change a link.                  *)
LEMMA SameLinks ==
  ASSUME KernelOK, LoopOK, CallOK,
         UNCHANGED <<kernel, call, copy, spec, links, lacking, at, setDowns>>,
         todo' = todo \/ (todo # <<>> /\ todo' = Tail(todo)),
         pass' = "read" => pass = "read", at # None => pass' = pass,
         failed' \in BOOLEAN, disturbed' \in BOOLEAN, trouble' \in 0..MaxTrouble
  PROVE  KernelOK' /\ LoopOK' /\ CallOK'
<1>1. KernelOK'
  BY DEF KernelOK
<1>2. LoopOK'
  BY SameLinksOK DEF LoopOK
<1>3. CallOK'
  BY SameCallOK DEF CallOK
<1>. QED
  BY <1>1, <1>2, <1>3

(* The upsert of a Link begins.                                              *)
LEMMA BeginLinkOK ==
  ASSUME KernelOK, DesiredOK, LoopOK, CallOK, NEW l \in Link, BeginLink(l), spec' = spec
  PROVE  /\ KernelOK' /\ LoopOK' /\ CallOK' /\ l \in DOMAIN links
         /\ \A k \in DOMAIN links :
              (\E r \in GetDependencies(links[k]) : r.to = l /\ r.setDown)
                => \E i \in 1..Len(setDowns') : setDowns'[i] = k
<1>1. /\ pass = "read" /\ at = None /\ todo # <<>> /\ l = Head(todo) /\ todo' = Tail(todo)
      /\ lacking = {}
      /\ ~Missing(l) /\ IsManaged(links[l])
      /\ pass' = "read" /\ at' = l /\ call' = "retrieve" /\ disturbed' = FALSE
      /\ UNCHANGED <<kernel, copy, spec, links, lacking, failed, trouble>>
  BY DEF BeginLink, Handles, ReadLink, IsUpsertNeeded, desired
<1>2. l \in DOMAIN links
  BY <1>1, HeadTailProperties DEF LoopOK
<1>3. l # None
  BY NodeRepairAssumption
<1>4. TopologicallySorted(links) # {}
  BY <1>1 DEF LoopOK
<1>5. PICK visits \in BFSWithEdge(DesiredLinkGraph(links), l) :
        \E order \in SetToSeqs(SetDownBy(visits)) : setDowns' = order
  BY DEF BeginLink
<1>6. setDowns' \in SetToSeqs(SetDownBy(visits))
  BY <1>5
<1>7. /\ setDowns' \in Seq(DOMAIN links)
      /\ \A k \in DOMAIN links :
           (\E r \in GetDependencies(links[k]) : r.to = l /\ r.setDown)
             => \E i \in 1..Len(setDowns') : setDowns'[i] = k
  BY <1>2, <1>4, <1>6, BeginsWith
<1>8. KernelOK'
  BY <1>1 DEF KernelOK
<1>9. LoopOK'
  <2>1. failed' \in BOOLEAN /\ disturbed' \in BOOLEAN /\ trouble' \in 0..MaxTrouble
    BY <1>1 DEF LoopOK
  <2>2. lacking' \subseteq lacking
    BY <1>1
  <2>. QED
    BY <1>1, <1>7, <2>1, <2>2, SameLinksOK
<1>10. CallOK'
  <2>1. Missing(l)' = Missing(l)
    BY <1>1 DEF Missing
  <2>2. copy' \in NetlinkLink
    BY <1>1 DEF CallOK
  <2>3. CallOK' = (/\ copy' \in NetlinkLink
                  /\ /\ l \in DOMAIN links /\ call' \in Calls /\ lacking' = {}
                     /\ ~Missing(l)' /\ IsManaged(links[l]))
    BY <1>1, <1>2, <1>3 DEF CallOK, Calls, Missing
  <2>. QED
    BY <1>1, <1>2, <2>1, <2>2, <2>3 DEF Calls
<1>. QED
  BY <1>2, <1>7, <1>8, <1>9, <1>10

(* A dependent is set down before the upsert.                                *)
LEMMA SetDownDependentOK ==
  ASSUME KernelOK, DesiredOK, LoopOK, CallOK, SetDownDependent, spec' = spec
  PROVE  KernelOK' /\ LoopOK' /\ CallOK'
<1>1. /\ setDowns # <<>> /\ setDowns' = Tail(setDowns) /\ pass' = pass
      /\ BringDown(links[Head(setDowns)].name)
      /\ UNCHANGED <<call, copy, links, lacking, todo, at, failed, disturbed, trouble>>
  BY DEF SetDownDependent, BringDown, reconciler
<1>2. setDowns' \in Seq(DOMAIN links) /\ Head(setDowns) \in DOMAIN links
  BY <1>1, HeadTailProperties DEF LoopOK
<1>3. KernelOK'
  BY <1>1, <1>2, LinkNamed, BringDownOK
<1>4. LoopOK'
  <2>1. failed' \in BOOLEAN /\ disturbed' \in BOOLEAN /\ trouble' \in 0..MaxTrouble
    BY <1>1 DEF LoopOK
  <2>. QED
    BY <1>1, <1>2, <2>1, SameLinksOK
<1>5. CallOK'
  BY <1>1, SameCallOK DEF CallOK
<1>. QED
  BY <1>3, <1>4, <1>5

(* A call of the upsert.                                                     *)
LEMMA CallUpsertOK ==
  ASSUME KernelOK, DesiredOK, LoopOK, CallOK, CallUpsert, spec' = spec
  PROVE  KernelOK' /\ LoopOK' /\ CallOK'
<1>1. /\ at # None /\ setDowns = <<>> /\ setDowns' = <<>> /\ pass' = pass
      /\ Upsert(links[at], links) /\ UpsertReturns
      /\ UNCHANGED <<links, lacking, todo, disturbed, trouble>>
  BY DEF CallUpsert, reconciler
<1>2. UpsertLeads
  BY <1>1, UpsertTypes
<1>3. failed' \in BOOLEAN
  BY <1>1 DEF UpsertReturns, LoopOK
<1>4. LoopOK'
  <2>1. disturbed' \in BOOLEAN /\ trouble' \in 0..MaxTrouble /\ setDowns' \in Seq(DOMAIN links)
    BY <1>1 DEF LoopOK
  <2>. QED
    BY <1>1, <1>3, <2>1, SameLinksOK
<1>5. CallOK'
  <2>1. CASE call' \notin {"ok", "error"} /\ at' = at
    <3>1. call' \in Calls
      BY <1>2, <2>1 DEF UpsertLeads
    <3>2. /\ at' # None /\ at' \in DOMAIN links' /\ pass' = "read"
          /\ IsManaged(links[at])' /\ ~Missing(at)'
      BY <1>1, <2>1 DEF CallOK, Missing
    <3>3. call' \in {"device", "group", "learning", "master"} => links'[at'].kind = "vxlan"
      BY <1>1, <1>2, <2>1 DEF UpsertLeads
    <3>. QED
      BY <1>1, <1>2, <3>1, <3>2, <3>3 DEF CallOK, UpsertLeads, Missing
  <2>2. CASE call' \in {"ok", "error"} /\ at' = None
    BY <1>1, <1>2, <2>2 DEF CallOK, UpsertLeads
  <2>. QED
    BY <1>1, <2>1, <2>2 DEF UpsertReturns
<1>. QED
  BY <1>2, <1>4, <1>5 DEF UpsertLeads

(* A call fails, or one that reads a link, or one to the API.                *)
LEMMA CallFailsOK ==
  ASSUME KernelOK, DesiredOK, LoopOK, CallOK, CallFails, spec' = spec
  PROVE  KernelOK' /\ LoopOK' /\ CallOK'
<1>1. trouble' \in 0..MaxTrouble
  BY NodeRepairAssumption DEF CallFails, Trouble, LoopOK
<1>2. CASE /\ at # None /\ CallError /\ UpsertReturns /\ setDowns' = <<>>
           /\ UNCHANGED <<watcherVars, links, lacking, todo, disturbed>>
  <2>1. /\ kernel' = kernel /\ at' = None /\ failed' = TRUE /\ call' = "error" /\ copy' = NoLink
        /\ pass' = pass /\ setDowns' = <<>>
        /\ UNCHANGED <<links, lacking, todo, disturbed>>
    BY <1>2 DEF CallError, Fails, UpsertReturns, watcherVars, reconciler
  <2>2. KernelOK'
    BY <2>1 DEF KernelOK
  <2>3. LoopOK'
    <3>1. <<>> \in Seq(DOMAIN links) /\ disturbed' \in BOOLEAN
      BY <2>1, EmptySeq DEF LoopOK
    <3>. QED
      BY <1>1, <2>1, <3>1, SameLinksOK
  <2>4. CallOK'
    BY <2>1, NoLinkType DEF CallOK
  <2>. QED
    BY <2>2, <2>3, <2>4
<1>3. CASE /\ \E l \in Link : Handles(l)
           /\ failed' = TRUE
           /\ UNCHANGED <<watcherVars, upsertVars, links, lacking, at, setDowns, disturbed>>
  <2>1. /\ todo # <<>> /\ todo' = Tail(todo) /\ pass' = pass
        /\ UNCHANGED <<kernel, call, copy, links, lacking, at, setDowns, disturbed>>
    BY <1>3 DEF Handles, watcherVars, reconciler, upsertVars
  <2>2. disturbed' \in BOOLEAN
    BY <2>1 DEF LoopOK
  <2>. QED
    BY <1>1, <1>3, <2>1, <2>2, SameLinks
<1>4. CASE /\ pass = "read" /\ \E l \in lacking : lacking' = lacking \ {l}
           /\ failed' = TRUE /\ todo' = <<>>
           /\ UNCHANGED <<watcherVars, upsertVars, links, at, setDowns, disturbed>>
  <2>1. /\ lacking # {} /\ lacking' \subseteq lacking /\ pass' = pass
        /\ UNCHANGED <<kernel, call, copy, links, at, setDowns, disturbed>>
    BY <1>4 DEF watcherVars, reconciler, upsertVars
  <2>2. at = None /\ setDowns \in Seq(DOMAIN links) /\ disturbed \in BOOLEAN
    BY <2>1 DEF CallOK, LoopOK
  <2>3. KernelOK'
    BY <2>1 DEF KernelOK
  <2>4. LoopOK'
    BY <1>1, <1>4, <2>1, <2>2, SameLinksOK
  <2>5. CallOK'
    BY <2>1, <2>2 DEF CallOK
  <2>. QED
    BY <2>3, <2>4, <2>5
<1>5. CASE pass # "idle" /\ at = None /\ PassFails /\ LoopEnds /\ UNCHANGED kernel
  <2>1. pass' # "read"
    BY <1>5 DEF PassFails
  <2>2. KernelOK'
    BY <1>5 DEF KernelOK
  <2>. QED
    BY <1>1, <1>5, <2>1, <2>2, EndsOK
<1>. QED
  BY <1>2, <1>3, <1>5, <1>4 DEF CallFails

(* Others change the links.                                                  *)
LEMMA OthersOK ==
  ASSUME KernelOK, DesiredOK, LoopOK, CallOK, NEW n \in Name, Others(n), spec' = spec
  PROVE  KernelOK' /\ LoopOK' /\ CallOK'
<1>1. /\ UNCHANGED <<watched, request, queue, reconciler, call, copy, links,
                     lacking, todo, at, setDowns, failed>>
      /\ disturbed' = (at # None) /\ Trouble
  BY DEF Others
<1>2. trouble' \in 0..MaxTrouble
  BY <1>1, NodeRepairAssumption DEF Trouble, LoopOK
<1>3. KernelOK'
  <2>1. CASE kernel' = Without(n)
    BY <2>1, WithoutOK
  <2>2. CASE \E link \in Foreign[n] :
               kernel' = Added(n, link, {copy.index, copy.master, copy.device})
    <3>1. PICK link \in Foreign[n] :
            kernel' = Added(n, link, {copy.index, copy.master, copy.device})
      BY <2>2
    <3>2. link \in NetlinkLink
      BY NodeRepairAssumption
    <3>. DEFINE held == {copy.index, copy.master, copy.device}
    <3>3. held \subseteq Nat
      BY DEF CallOK, NetlinkLink
    <3>4. IsFiniteSet(held)
      <4>1. held = {copy.index} \cup ({copy.master} \cup {copy.device})
        OBVIOUS
      <4>. HIDE DEF held
      <4>2. IsFiniteSet({copy.master} \cup {copy.device})
        BY FS_Singleton, FS_Union
      <4>. QED
        BY <4>1, <4>2, FS_Singleton, FS_Union
    <3>. HIDE DEF held
    <3>5. kernel' = Added(n, link, held)
      BY <3>1 DEF held
    <3>. QED
      BY <3>2, <3>3, <3>4, <3>5, AddedOK
  <2>3. CASE /\ Present(n)
             /\ \E setting \in Settings :
                  kernel' = [kernel EXCEPT ![n] = [kernel[n] EXCEPT ![setting[1]] = setting[2]]]
    <3>1. PICK setting \in Settings :
            kernel' = [kernel EXCEPT ![n] = [kernel[n] EXCEPT ![setting[1]] = setting[2]]]
      BY <2>3
    <3>2. Settable(setting[1], setting[2])
      BY NodeRepairAssumption DEF Settable
    <3>3. kernel[n] \in NetlinkLink
      BY DEF KernelOK
    <3>. DEFINE new == [kernel[n] EXCEPT ![setting[1]] = setting[2]]
    <3>4. new \in NetlinkLink /\ new.index = kernel[n].index
      BY <3>2, <3>3, SettableType
    <3>5. kernel' = [kernel EXCEPT ![n] = new]
      BY <3>1
    <3>. HIDE DEF new
    <3>. QED
      BY <2>3, <3>4, <3>5, SetOK DEF Present
  <2>. QED
    BY <2>1, <2>2, <2>3 DEF Others
<1>4. LoopOK'
  <2>1. setDowns' \in Seq(DOMAIN links) /\ failed' \in BOOLEAN /\ disturbed' \in BOOLEAN
    BY <1>1 DEF LoopOK
  <2>2. pass' = pass
    BY <1>1 DEF reconciler
  <2>. QED
    BY <1>1, <1>2, <2>1, <2>2, SameLinksOK
<1>5. CallOK'
  <2>1. pass' = pass
    BY <1>1 DEF reconciler
  <2>. QED
    BY <1>1, <2>1, SameCallOK DEF CallOK
<1>. QED
  BY <1>3, <1>4, <1>5

(* The Links are read and sorted.                                            *)
LEMMA GetLinksOK ==
  ASSUME KernelOK, DesiredOK, LoopOK, CallOK, GetLinks, spec' = spec
  PROVE  KernelOK' /\ LoopOK' /\ CallOK'
<1>1. /\ pass = "list" /\ pass' = "read"
      /\ links' = [l \in listed |-> spec[l]] /\ todo' \in TopologicallySorted(links')
      /\ lacking' \subseteq listed
      /\ UNCHANGED <<kernel, call, copy, at, setDowns, failed, disturbed, trouble>>
  BY DEF GetLinks, SetWatched, upsertVars
<1>2. at = None /\ setDowns = <<>>
  BY <1>1 DEF CallOK
<1>3. DOMAIN links' = listed /\ listed \subseteq Link /\ \A l \in listed : links'[l] = spec[l]
  BY <1>1 DEF DesiredOK, DesiredType
<1>4. todo' \in SetToSeqs(listed)
  <2>1. PICK all : all = links'
    OBVIOUS
  <2>2. todo' \in TopologicallySorted(all) /\ DOMAIN all = listed
    BY <1>1, <1>3, <2>1
  <2>. QED
    BY <2>2 DEF TopologicallySorted
<1>5. todo' \in Seq(listed)
  BY <1>3, <1>4, NodeRepairAssumption, FS_Subset, Ordered
<1>6. KernelOK'
  BY <1>1 DEF KernelOK
<1>7. LoopOK'
  <2>1. (pass = "read" => TopologicallySorted(links) # {})'
    BY <1>1
  <2>2. <<>> \in Seq(listed)
    BY EmptySeq
  <2>. QED
    BY <1>1, <1>2, <1>3, <1>5, <2>1, <2>2 DEF LoopOK
<1>8. CallOK'
  BY <1>1, <1>2, NoCallOK
<1>. QED
  BY <1>6, <1>7, <1>8

(* A Link without a required dependency is set down.                         *)
LEMMA SetDownLackingOK ==
  ASSUME KernelOK, DesiredOK, LoopOK, CallOK, NEW l \in Link, SetDownLacking(l), spec' = spec
  PROVE  KernelOK' /\ LoopOK' /\ CallOK'
<1>1. /\ l \in lacking /\ lacking' = lacking \ {l} /\ pass' = pass
      /\ BringDown(links[l].name)
      /\ UNCHANGED <<call, copy, links, todo, at, setDowns, failed, disturbed, trouble>>
  BY DEF SetDownLacking, BringDown, reconciler
<1>2. KernelOK'
  BY <1>1, LinkNamed, BringDownOK DEF LoopOK
<1>3. LoopOK'
  <2>1. /\ setDowns' \in Seq(DOMAIN links) /\ lacking' \subseteq lacking
        /\ failed' \in BOOLEAN /\ disturbed' \in BOOLEAN /\ trouble' \in 0..MaxTrouble
    BY <1>1 DEF LoopOK
  <2>. QED
    BY <1>1, <2>1, SameLinksOK
<1>4. CallOK'
  BY <1>1, SameCallOK DEF CallOK
<1>. QED
  BY <1>2, <1>3, <1>4

(* Every step keeps the links, the loop and the upsert in order.             *)
LEMMA LoopStep ==
  ASSUME KernelOK, DesiredOK, LoopOK, CallOK, [Next]_vars
  PROVE  KernelOK' /\ LoopOK' /\ CallOK'
<1>0. spec' = spec
  BY DEF vars, desired, Next, Agent, Begin, GetLinks, SetDownDependent, CallUpsert, EndPass,
         SetDownLacking, RefuseLink, LeaveLink, BeginLink, Watcher, CallFails,
         SubscriptionFails, Restart, Others, Register
<1>1. CASE UNCHANGED vars \/ Begin \/ Watcher \/ SubscriptionFails \/ \E l \in Link : Register(l)
  <2>1. UNCHANGED <<kernel, call, copy, links, lacking, todo, at, setDowns, failed, disturbed>>
    BY <1>1 DEF vars, Begin, Watcher, SubscriptionFails, Register, upsertVars, loop
  <2>2. pass' = pass \/ (pass = "idle" /\ pass' = "list")
    BY <1>1 DEF vars, watcherVars, Begin, TakeRequest, Watcher, WatcherStep, Forward, Subscribe,
                Receive, ChannelClosed, Backoff, CheckEmpty, SendRequest,
                SubscriptionFails, SubscribeFails, Register, Enqueue, reconciler
  <2>3. trouble' \in 0..MaxTrouble
    BY <1>1, NodeRepairAssumption
       DEF vars, Begin, Watcher, SubscriptionFails, Register, Trouble, LoopOK
  <2>4. failed' \in BOOLEAN /\ disturbed' \in BOOLEAN
    BY <2>1 DEF LoopOK
  <2>5. /\ pass' = "read" => pass = "read"
        /\ at # None => pass' = pass
    BY <2>2 DEF CallOK
  <2>. QED
    BY <1>0, <2>1, <2>3, <2>4, <2>5, SameLinks
<1>2. CASE GetLinks
  BY <1>0, <1>2, GetLinksOK
<1>3. CASE SetDownDependent
  BY <1>0, <1>3, SetDownDependentOK
<1>4. CASE CallUpsert
  BY <1>0, <1>4, CallUpsertOK
<1>5. CASE EndPass \/ Restart
  <2>1. LoopEnds /\ pass' # "read" /\ kernel' = kernel
    BY <1>5 DEF EndPass, PassFails, PassEnds, Restart, WatcherRestart
  <2>2. trouble' \in 0..MaxTrouble
    BY <1>5, NodeRepairAssumption DEF EndPass, Restart, Trouble, LoopOK
  <2>3. KernelOK'
    BY <2>1 DEF KernelOK
  <2>. QED
    BY <2>1, <2>2, <2>3, EndsOK
<1>6. ASSUME NEW l \in Link, SetDownLacking(l) PROVE KernelOK' /\ LoopOK' /\ CallOK'
  BY <1>0, <1>6, SetDownLackingOK
<1>7. ASSUME NEW l \in Link, RefuseLink(l) \/ LeaveLink(l)
      PROVE  KernelOK' /\ LoopOK' /\ CallOK'
  <2>1. /\ UNCHANGED <<kernel, call, copy, links, lacking, at, setDowns, disturbed, trouble>>
        /\ todo # <<>> /\ todo' = Tail(todo) /\ pass' = pass
        /\ failed' = failed \/ failed' = TRUE
    BY <1>7 DEF RefuseLink, LeaveLink, Handles, ReadLink, upsertVars, watcherVars, reconciler
  <2>2. failed' \in BOOLEAN /\ disturbed' \in BOOLEAN /\ trouble' \in 0..MaxTrouble
    BY <2>1 DEF LoopOK
  <2>. QED
    BY <1>0, <2>1, <2>2, SameLinks
<1>8. ASSUME NEW l \in Link, BeginLink(l) PROVE KernelOK' /\ LoopOK' /\ CallOK'
  BY <1>0, <1>8, BeginLinkOK
<1>9. CASE CallFails
  BY <1>0, <1>9, CallFailsOK
<1>10. ASSUME NEW n \in Name, Others(n) PROVE KernelOK' /\ LoopOK' /\ CallOK'
  BY <1>0, <1>10, OthersOK
<1>. QED
  BY <1>1, <1>2, <1>3, <1>4, <1>5, <1>6, <1>7, <1>8, <1>9, <1>10 DEF Next, Agent

(* At first no link is changed.                                              *)
LEMMA LoopInit ==
  ASSUME Init
  PROVE  KernelOK /\ DesiredOK /\ LoopOK /\ CallOK
<1>1. PICK node \in Nodes : kernel = node.kernel /\ spec = node.spec /\ listed = node.listed
  BY DEF Init
<1>2. KernelOK /\ DesiredOK
  <2>1. /\ node.spec \in [Link -> LinkSpec] /\ node.listed \subseteq Link
        /\ node.kernel \in [Name -> NetlinkLink]
    BY NodeRepairAssumption
  <2>2. \A l, k \in Link : l # k => node.spec[l].name # node.spec[k].name
    BY NodeRepairAssumption
  <2>3. \A n, m \in Name :
          IF node.kernel[n].index = 0 THEN node.kernel[n] = NoLink
          ELSE node.kernel[n].index = node.kernel[m].index => n = m
    BY NodeRepairAssumption
  <2>4. KernelOK
    BY <1>1, <2>1, <2>3 DEF KernelOK
  <2>. QED
    BY <1>1, <2>1, <2>2, <2>4 DEF DesiredOK, DesiredType
<1>3. LoopOK /\ CallOK
  <2>1. DOMAIN links = {} /\ pass = "idle" /\ <<>> \in Seq(DOMAIN links)
    BY EmptySeq DEF Init, NoLinks, WatcherInit
  <2>2. LoopOK
    <3>1. 0 \in 0..MaxTrouble
      BY NodeRepairAssumption
    <3>. QED
      BY <2>1, <3>1 DEF LoopOK, Init
  <2>3. CallOK
    BY NoLinkType DEF CallOK, Init, UpsertInit
  <2>. QED
    BY <2>2, <2>3
<1>. QED
  BY <1>2, <1>3

-----------------------------------------------------------------------------
(* What holds in every state.                                                *)

(* A call is the next one of the upsert of a Link that was read.             *)
LEMMA TypesFollow ==
  ASSUME WatcherTypeOK, KernelOK, DesiredOK, LoopOK, CallOK
  PROVE  TypeOK
<1>1. call \in {"retrieve", "delete", "add", "again", "mtu", "device", "group",
                "learning", "master", "up", "ok", "error"}
  BY DEF CallOK, Calls
<1>2. at \in Link \cup {None}
  BY DEF CallOK, LoopOK
<1>3. todo \in Seq(Link) /\ setDowns \in Seq(Link)
  BY SeqMonotonic DEF LoopOK
<1>4. lacking \subseteq Link /\ \A l \in DOMAIN links : links[l] \in LinkSpec
  BY LinkNamed DEF LoopOK
<1>. QED
  BY <1>1, <1>2, <1>3, <1>4 DEF TypeOK, KernelOK, DesiredOK, DesiredType, LoopOK, CallOK

(* What the agent keeps has the types that its code gives it, whatever fails *)
(* and whatever others do: an upsert that runs is that of a Link read in     *)
(* this pass (nodelinks_controller.go:564-652).                              *)
THEOREM NodeTypes == Spec => []TypeOK
<1>. DEFINE IInv == WatcherTypeOK /\ Covered /\ KernelOK /\ DesiredOK /\ LoopOK /\ CallOK
<1>1. Init => IInv
  <2>1. <<>> \in Seq(LinkName) /\ Len(<<>>) <= Capacity
    BY LinkEventWatcherAssumption, EmptySeq
  <2>2. Init => WatcherTypeOK /\ Covered
    BY <2>1 DEF Init, WatcherInit, WatcherTypeOK, Covered
  <2>. QED
    BY <2>2, LoopInit
<1>2. IInv /\ [Next]_vars => IInv'
  <2>. SUFFICES ASSUME IInv, [Next]_vars PROVE IInv'
    OBVIOUS
  <2>1. [WatcherNext]_watcherVars
    BY StepOfWatcher DEF DesiredOK
  <2>2. WatcherTypeOK' /\ Covered'
    BY <2>1, StepCovers
  <2>. QED
    BY <2>2, LoopStep, DesiredStep
<1>3. IInv => TypeOK
  BY TypesFollow
<1>. QED
  BY <1>1, <1>2, <1>3, PTL DEF Spec

(* The small graphs are graphs, and have no cycle.                           *)
LEMMA SmallGraph ==
  ASSUME NEW n \in Nat \ {0}, NEW g \in SmallGraphs(n)
  PROVE  /\ IsGraph(g) /\ 1 \in g.vertices
         /\ \A u \in Reachable(g, 1) : g.edge[<<u, 1>>] = "none"
<1>. DEFINE V == 1..n
            Pairs == {e \in V \X V : e[1] < e[2]}
<1>1. PICK data \in [Pairs -> EdgeData] :
        g = [vertices |-> V, edge |-> [e \in V \X V |-> IF e[1] < e[2] THEN data[e] ELSE "none"]]
  BY DEF SmallGraphs
<1>2. g.vertices = V /\ g.edge = [e \in V \X V |-> IF e[1] < e[2] THEN data[e] ELSE "none"]
  BY <1>1
<1>3. IsFiniteSet(V) /\ 1 \in V
  BY FS_Interval
<1>4. ASSUME NEW e \in V \X V
      PROVE  (IF e[1] < e[2] THEN data[e] ELSE "none") \in EdgeData
  <2>1. CASE e[1] < e[2]
    <3>1. e \in Pairs
      BY <2>1
    <3>. QED
      BY <2>1, <3>1
  <2>2. CASE ~(e[1] < e[2])
    BY <2>2 DEF EdgeData
  <2>. QED
    BY <2>1, <2>2
<1>5. g.edge \in [V \X V -> EdgeData]
  BY <1>2, <1>4
<1>6. IsGraph(g)
  BY <1>2, <1>3, <1>5 DEF IsGraph
<1>7. ASSUME NEW u \in V
      PROVE  g.edge[<<u, 1>>] = "none"
  <2>1. <<u, 1>> \in V \X V /\ <<u, 1>>[1] = u /\ <<u, 1>>[2] = 1 /\ ~(u < 1)
    BY <1>3
  <2>. QED
    BY <1>2, <2>1
<1>8. Reachable(g, 1) \subseteq V
  BY <1>2 DEF Reachable
<1>. QED
  BY <1>2, <1>3, <1>6, <1>7, <1>8

(* The search for dependents (bfs.go:39-55) visits each Link that depends on *)
(* the one to be upserted once and the nearer ones first, for every set of   *)
(* Links that a pass can read and every order in which Go ranges over a map. *)
THEOREM DependentsSearched == Spec => []SearchIsBreadthFirst
<1>. DEFINE IInv == KernelOK /\ DesiredOK /\ LoopOK /\ CallOK
<1>1. Init => IInv
  BY LoopInit
<1>2. IInv /\ [Next]_vars => IInv'
  BY LoopStep, DesiredStep
<1>3. IInv => SearchIsBreadthFirst
  <2>. SUFFICES ASSUME IInv PROVE SearchIsBreadthFirst
    OBVIOUS
  <2>1. SmallGraphsBreadthFirst
    BY SmallGraph, SearchVisitsNearestFirst DEF SmallGraphsBreadthFirst
  <2>2. ASSUME call = "retrieve" PROVE BreadthFirst(DesiredLinkGraph(links), at)
    <3>1. at \in DOMAIN links /\ DOMAIN links \subseteq Link
      BY <2>2 DEF CallOK, LoopOK
    <3>. QED
      BY <3>1, LinkGraph, SearchVisitsNearestFirst
  <2>. QED
    BY <2>1, <2>2 DEF SearchIsBreadthFirst
<1>. QED
  BY <1>1, <1>2, <1>3, PTL DEF Spec

(* What bringDownDependents sets down (nodelinks_controller.go:656-705) is   *)
(* what every reference within reach asks for, and nothing that none does,   *)
(* for every set of Links that a pass can read.                              *)
THEOREM DependentsSetDownAsAsked == Spec => []SetDownAsAsked
<1>. DEFINE IInv == KernelOK /\ DesiredOK /\ LoopOK /\ CallOK
<1>1. Init => IInv
  BY LoopInit
<1>2. IInv /\ [Next]_vars => IInv'
  BY LoopStep, DesiredStep
<1>3. IInv => SetDownAsAsked
  <2>. SUFFICES ASSUME IInv PROVE SetDownAsAsked
    OBVIOUS
  <2>1. SmallGraphsAsAsked
    BY SmallGraph, SetDownIsAsked DEF SmallGraphsAsAsked
  <2>2. ASSUME call = "retrieve" PROVE AsAsked(DesiredLinkGraph(links), at)
    <3>1. /\ at \in DOMAIN links /\ DOMAIN links \subseteq Link
          /\ TopologicallySorted(links) # {}
      BY <2>2 DEF CallOK, LoopOK
    <3>. QED
      BY <3>1, LinkGraph, NoCycle, SetDownIsAsked
  <2>. QED
    BY <2>1, <2>2 DEF SetDownAsAsked
<1>. QED
  BY <1>1, <1>2, <1>3, PTL DEF Spec

-----------------------------------------------------------------------------
(* The dependents of the Link that is being upserted.                        *)

(* The references of a Link to another ask that it be set down before that   *)
(* is changed (setDownOnDependencyChainUpdate).                              *)
Asks(k, l) == \E r \in GetDependencies(links[k]) : r.to = l /\ r.setDown

(* Those of a Link that ask for it are down, or are still to be set down.    *)
DownOrWaiting(l) ==
  \A k \in DOMAIN links :
    Asks(k, l) => ~kernel[links[k].name].up \/ \E i \in 1..Len(setDowns) : setDowns[i] = k

DependentsOK == \A l \in Link : at = l /\ ~disturbed => DownOrWaiting(l)

(* Nobody else sets one of them up.                                          *)
LEMMA StillDown ==
  ASSUME DesiredOK, LoopOK, NEW l, DownOrWaiting(l), UNCHANGED <<links, setDowns>>,
         \A k \in DOMAIN links :
           Asks(k, l) /\ kernel'[links[k].name].up => kernel[links[k].name].up
  PROVE  DownOrWaiting(l)'
<1>1. \A k \in DOMAIN links : Asks(k, l)' = Asks(k, l)
  BY DEF Asks
<1>. QED
  BY <1>1 DEF DownOrWaiting

(* The calls of an upsert but for the last one set no other link up.         *)
LEMMA UpsertSetsNoneUp ==
  ASSUME KernelOK, DesiredOK, LoopOK, CallOK, at # None, Upsert(links[at], links), call # "up",
         NEW n \in Name, n # links[at].name
  PROVE  kernel'[n].up => kernel[n].up
<1>. DEFINE s == links[at]
<1>1. at \in DOMAIN links /\ ~Missing(at) /\ copy \in NetlinkLink
  BY DEF CallOK
<1>2. s \in LinkSpec /\ s.name \in Name
  BY <1>1, LinkNamed
<1>3. /\ s.mtu \in Nat /\ s.params \in Nat /\ s.learning \in BOOLEAN
      /\ s.group \in {"none", "unicast", "multicast"}
  BY <1>2 DEF LinkSpec
<1>4. call \in {"device", "group", "learning", "master"} => s.kind = "vxlan"
  BY DEF CallOK
<1>. HIDE DEF s
<1>5. CASE kernel' = kernel
  BY <1>5
<1>6. ASSUME NEW a \in {"mtu", "device", "group", "learning", "master"}, NEW v,
             Settable(a, v), InPlace(a, v)
      PROVE  kernel'[n].up => kernel[n].up
  <2>1. kernel'[n] = [kernel[n] EXCEPT ![a] = v] \/ kernel'[n] = kernel[n]
    BY <1>6, InPlaceOK
  <2>2. kernel[n] \in NetlinkLink
    BY DEF KernelOK
  <2>3. [kernel[n] EXCEPT ![a] = v].up = kernel[n].up
    BY <2>2 DEF NetlinkLink
  <2>. QED
    BY <2>1, <2>3
<1>7. CASE DeleteExisting
  <2>1. CASE ~Gone /\ kernel' = Without(NameOf(copy.index))
    <3>1. NameOf(copy.index) \in Name
      BY <2>1, IndexNamed DEF Gone
    <3>. QED
      BY <2>1, <3>1, WithoutOK
  <2>. QED
    BY <1>5, <1>7, <2>1 DEF DeleteExisting, Fails
<1>8. CASE Add(s)
  <2>1. CASE kernel' = Added(s.name, NewLink(s), {})
    BY <2>1, <1>2 DEF Added, s, KernelOK
  <2>. QED
    BY <1>5, <1>8, <2>1 DEF Add
<1>9. CASE SetMTU(s)
  <2>1. Settable("mtu", s.mtu)
    BY <1>3 DEF Settable
  <2>2. kernel' = kernel \/ InPlace("mtu", s.mtu)
    BY <1>9, SetMTUDoes DEF Fails, Sets
  <2>. QED
    BY <1>5, <1>6, <2>1, <2>2
<1>10. CASE SetDevice(s, links)
  <2>1. Settable("device", DesiredIndex(s.device, links))
    <3>1. call = "device"
      BY <1>10 DEF SetDevice
    <3>2. DesiredIndex(s.device, links) \in Nat
      BY <1>1, <1>4, <3>1, DesiredIndexType DEF s
    <3>. QED
      BY <3>2 DEF Settable
  <2>2. kernel' = kernel \/ InPlace("device", DesiredIndex(s.device, links))
    BY <1>10, SetDeviceDoes DEF Fails, Sets
  <2>. QED
    BY <1>5, <1>6, <2>1, <2>2
<1>11. CASE SetGroup(s)
  <2>1. Settable("group", s.group)
    BY <1>3 DEF Settable
  <2>2. kernel' = kernel \/ InPlace("group", s.group)
    BY <1>11, SetGroupDoes DEF Fails, Sets
  <2>. QED
    BY <1>5, <1>6, <2>1, <2>2
<1>12. CASE SetLearning(s)
  <2>1. Settable("learning", s.learning)
    BY <1>3 DEF Settable
  <2>2. kernel' = kernel \/ InPlace("learning", s.learning)
    BY <1>12, SetLearningDoes DEF Fails, Sets
  <2>. QED
    BY <1>5, <1>6, <2>1, <2>2
<1>13. CASE SetMaster(s, links)
  <2>1. Settable("master", DesiredIndex(s.master, links))
    <3>1. call = "master"
      BY <1>13 DEF SetMaster
    <3>2. DesiredIndex(s.master, links) \in Nat
      BY <1>1, <1>4, <3>1, DesiredIndexType DEF s
    <3>. QED
      BY <3>2 DEF Settable
  <2>2. kernel' = kernel \/ InPlace("master", DesiredIndex(s.master, links))
    BY <1>13, SetMasterDoes DEF Fails, Sets
  <2>. QED
    BY <1>5, <1>6, <2>1, <2>2
<1>14. CASE Retrieve(s) \/ RetrieveAgain(s)
  BY <1>5, <1>14 DEF Retrieve, RetrieveAgain, Fails
<1>15. ~SetUp
  BY DEF SetUp
<1>. QED
  BY <1>7, <1>8, <1>9, <1>10, <1>11, <1>12, <1>13, <1>14, <1>15 DEF Upsert, s

(* A Link does not depend on itself, and no other Link has its link.         *)
LEMMA AskingIsOther ==
  ASSUME DesiredOK, LoopOK, NEW l \in DOMAIN links, NEW k \in DOMAIN links, Asks(k, l),
         TopologicallySorted(links) # {}
  PROVE  links[k].name # links[l].name
<1>1. k # l
  BY NoCycle DEF LoopOK, Asks
<1>. QED
  BY <1>1 DEF LoopOK, DesiredOK

(* A step that does not begin or end an upsert, unless others take it, calls *)
(* the next of it, sets a dependent or another Link down, or changes neither *)
(* links nor upserts.                                                        *)
LEMMA UpsertGoesOn ==
  ASSUME CallOK, [Next]_vars, NEW l \in Link, at' = l, ~disturbed'
  PROVE  \/ BeginLink(l)
         \/ /\ at = l /\ ~disturbed
            /\ \/ SetDownDependent
               \/ CallUpsert /\ call' \notin {"ok", "error"}
               \/ UNCHANGED <<kernel, call, copy, links, setDowns>>
<1>0. l # None
  BY NodeRepairAssumption
<1>1. CASE UNCHANGED vars \/ Begin \/ Watcher \/ SubscriptionFails \/ \E k \in Link : Register(k)
  BY <1>1 DEF vars, Begin, Watcher, SubscriptionFails, Register, upsertVars, loop
<1>2. CASE GetLinks
  BY <1>0, <1>2 DEF GetLinks, SetWatched, CallOK
<1>3. CASE SetDownDependent
  BY <1>3 DEF SetDownDependent
<1>4. CASE CallUpsert
  BY <1>0, <1>4 DEF CallUpsert, UpsertReturns
<1>5. CASE EndPass \/ Restart
  BY <1>0, <1>5 DEF EndPass, Restart, LoopEnds
<1>6. ASSUME NEW k \in Link, SetDownLacking(k) PROVE FALSE
  BY <1>0, <1>6 DEF SetDownLacking, CallOK
<1>7. ASSUME NEW k \in Link, RefuseLink(k) \/ LeaveLink(k) PROVE FALSE
  BY <1>0, <1>7 DEF RefuseLink, LeaveLink, Handles
<1>8. ASSUME NEW k \in Link, BeginLink(k) PROVE BeginLink(l)
  BY <1>8 DEF BeginLink
<1>9. CASE CallFails
  <2>1. CASE CallError /\ UpsertReturns
    BY <1>0, <2>1 DEF CallError, Fails, UpsertReturns
  <2>2. CASE /\ \E k \in Link : Handles(k)
             /\ UNCHANGED <<watcherVars, upsertVars, links, lacking, at, setDowns, disturbed>>
    BY <1>0, <2>2 DEF Handles
  <2>3. CASE LoopEnds
    BY <1>0, <2>3 DEF LoopEnds
  <2>4. CASE pass = "read" /\ (\E k \in lacking : lacking' = lacking \ {k})
             /\ UNCHANGED <<watcherVars, upsertVars, links, at, setDowns, disturbed>>
    BY <1>0, <2>4 DEF CallOK, watcherVars, upsertVars
  <2>. QED
    BY <1>9, <2>1, <2>2, <2>3, <2>4 DEF CallFails
<1>10. ASSUME NEW n \in Name, Others(n) PROVE FALSE
  BY <1>0, <1>10 DEF Others
<1>. QED
  BY <1>1, <1>2, <1>3, <1>4, <1>5, <1>6, <1>7, <1>8, <1>9, <1>10 DEF Next, Agent

(* Every step keeps the dependents down.                                     *)
LEMMA DependentsStep ==
  ASSUME KernelOK, DesiredOK, LoopOK, CallOK, DependentsOK, [Next]_vars
  PROVE  DependentsOK'
<1>. SUFFICES ASSUME NEW l \in Link, at' = l, ~disturbed'
              PROVE  DownOrWaiting(l)'
  BY DEF DependentsOK
<1>0. spec' = spec
  BY DEF vars, desired, Next, Agent, Begin, GetLinks, SetDownDependent, CallUpsert, EndPass,
         SetDownLacking, RefuseLink, LeaveLink, BeginLink, Watcher, CallFails,
         SubscriptionFails, Restart, Others, Register
<1>1. CASE BeginLink(l)
  <2>1. \A k \in DOMAIN links :
          Asks(k, l) => \E i \in 1..Len(setDowns') : setDowns'[i] = k
    BY <1>0, <1>1, BeginLinkOK DEF Asks
  <2>2. links' = links
    BY <1>1 DEF BeginLink
  <2>3. \A k \in DOMAIN links : Asks(k, l)' = Asks(k, l)
    BY <2>2 DEF Asks
  <2>. QED
    BY <2>1, <2>2, <2>3 DEF DownOrWaiting
<1>2. CASE at = l /\ ~disturbed
  <2>0. DownOrWaiting(l)
    BY <1>2 DEF DependentsOK
  <2>1. l \in DOMAIN links /\ TopologicallySorted(links) # {}
    BY <1>2, NodeRepairAssumption DEF CallOK, LoopOK
  <2>2. CASE SetDownDependent
    <3>1. /\ setDowns # <<>> /\ setDowns' = Tail(setDowns) /\ links' = links
          /\ BringDown(links[Head(setDowns)].name)
      BY <2>2 DEF SetDownDependent
    <3>2. /\ Head(setDowns) \in DOMAIN links /\ Head(setDowns) = setDowns[1]
          /\ Len(setDowns') = Len(setDowns) - 1 /\ Len(setDowns) \in Nat
          /\ \A i \in 1..Len(setDowns') : setDowns'[i] = setDowns[i + 1]
      BY <3>1, HeadTailProperties, LenProperties DEF LoopOK
    <3>3. links[Head(setDowns)].name \in Name
      BY <3>2, LinkNamed
    <3>4. /\ ~kernel'[links[Head(setDowns)].name].up
          /\ \A m \in Name : m # links[Head(setDowns)].name => kernel'[m] = kernel[m]
      BY <3>1, <3>3, BringDownOK
    <3>5. ASSUME NEW k \in DOMAIN links, Asks(k, l), kernel'[links[k].name].up
          PROVE  \E i \in 1..Len(setDowns') : setDowns'[i] = k
      <4>1. links[k].name \in Name
        BY LinkNamed
      <4>2. kernel[links[k].name].up /\ k # Head(setDowns)
        BY <3>4, <3>5, <4>1
      <4>3. PICK i \in 1..Len(setDowns) : setDowns[i] = k
        BY <2>0, <3>5, <4>2 DEF DownOrWaiting
      <4>4. i - 1 \in 1..Len(setDowns') /\ (i - 1) + 1 = i
        BY <3>2, <4>2, <4>3
      <4>. QED
        BY <3>2, <4>3, <4>4
    <3>6. \A k \in DOMAIN links : Asks(k, l)' = Asks(k, l)
      BY <3>1 DEF Asks
    <3>. QED
      BY <3>1, <3>5, <3>6 DEF DownOrWaiting
  <2>3. CASE CallUpsert /\ call' \notin {"ok", "error"}
    <3>1. /\ at # None /\ Upsert(links[at], links) /\ UNCHANGED <<links, setDowns>>
      BY <2>3 DEF CallUpsert
    <3>2. call # "up"
      BY <2>3, <3>1
         DEF Upsert, Retrieve, DeleteExisting, Add, RetrieveAgain, SetMTU, SetDevice,
             SetGroup, SetLearning, SetMaster, SetUp, Fails
    <3>3. ASSUME NEW k \in DOMAIN links, Asks(k, l), kernel'[links[k].name].up
          PROVE  kernel[links[k].name].up
      <4>1. links[k].name \in Name /\ links[k].name # links[at].name
        BY <1>2, <2>1, <3>3, LinkNamed, AskingIsOther
      <4>. QED
        BY <3>1, <3>2, <3>3, <4>1, UpsertSetsNoneUp
    <3>. QED
      BY <2>0, <3>1, <3>3, StillDown
  <2>4. CASE UNCHANGED <<kernel, call, copy, links, setDowns>>
    BY <2>0, <2>4, StillDown
  <2>. QED
    BY <1>2, <2>2, <2>3, <2>4, UpsertGoesOn, NodeRepairAssumption DEF BeginLink, Handles
<1>. QED
  BY <1>1, <1>2, UpsertGoesOn

(* While the agent changes a link, whatever depends on it and asks for it is *)
(* down (nodelinks_controller.go:610), for every set of Links, whatever      *)
(* fails and whatever others did before the upsert began.                    *)
THEOREM DependentsAreDown == Spec => DependentsDown
<1>. DEFINE IInv == KernelOK /\ DesiredOK /\ LoopOK /\ CallOK /\ DependentsOK
            P == CallUpsert /\ kernel' # kernel /\ ~disturbed =>
                   \A l \in DOMAIN links :
                     (\E r \in GetDependencies(links[l]) : r.to = at /\ r.setDown)
                       => ~kernel[links[l].name].up
<1>1. Init => IInv
  <2>1. Init => DependentsOK
    BY NodeRepairAssumption DEF Init, DependentsOK
  <2>. QED
    BY <2>1, LoopInit
<1>2. IInv /\ [Next]_vars => IInv'
  BY LoopStep, DesiredStep, DependentsStep
<1>3. IInv /\ [Next]_vars => [P]_vars
  <2>. SUFFICES ASSUME IInv, CallUpsert, ~disturbed, NEW k \in DOMAIN links,
                       \E r \in GetDependencies(links[k]) : r.to = at /\ r.setDown
                PROVE  ~kernel[links[k].name].up
    OBVIOUS
  <2>1. at \in Link /\ setDowns = <<>>
    BY DEF CallUpsert, CallOK, LoopOK
  <2>2. DownOrWaiting(at)
    BY <2>1 DEF DependentsOK
  <2>3. Asks(k, at)
    BY DEF Asks
  <2>. QED
    BY <2>1, <2>2, <2>3 DEF DownOrWaiting
<1>. QED
  BY <1>1, <1>2, <1>3, PTL DEF Spec, DependentsDown

-----------------------------------------------------------------------------
(* How far the upsert has come.                                              *)

Here(l) == kernel[links[l].name]

(* A reference of a Link is set to what it asks for.                         *)
RefersTo(ref, i) == DesiredIsThere(ref, links) /\ i = DesiredIndex(ref, links)

(* The calls that set an attribute of the link.                              *)
Setters == {"mtu", "device", "group", "learning", "master", "up"}

(* The link is the one that was read or added, and need not be replaced.     *)
Whole(l) ==
  LET link == Here(l)
      right == /\ link.index # 0 /\ link.type = links[l].kind
               /\ links[l].kind = "vxlan" => link.params = links[l].params
  IN /\ call = "delete" => copy.index # 0 /\ link.index = copy.index
     /\ call = "add" => link.index = 0
     /\ call = "again" => right
     /\ call \in Setters => link.index = copy.index /\ right

(* What the calls until now have set is as the Link asks, and of the rest    *)
(* the copy is still right.                                                  *)
MTUDone(l) ==
  IF call = "mtu" THEN copy.mtu = Here(l).mtu
  ELSE links[l].mtu # 0 => Here(l).mtu = links[l].mtu

DeviceDone(l) ==
  IF call \in {"mtu", "device"} THEN copy.device = Here(l).device
  ELSE RefersTo(links[l].device, Here(l).device)

GroupDone(l) ==
  IF call \in {"mtu", "device", "group"} THEN copy.group = Here(l).group
  ELSE Here(l).group = links[l].group

LearningDone(l) ==
  IF call \in {"mtu", "device", "group", "learning"} THEN copy.learning = Here(l).learning
  ELSE Here(l).learning = links[l].learning

MasterDone(l) ==
  IF call = "up" THEN RefersTo(links[l].master, Here(l).master)
  ELSE copy.master = Here(l).master

Reached(l) ==
  /\ Whole(l)
  /\ call \in Setters =>
       /\ MTUDone(l)
       /\ links[l].kind = "vxlan" =>
            DeviceDone(l) /\ GroupDone(l) /\ LearningDone(l) /\ MasterDone(l)

UpsertOK == \A l \in Link : at = l /\ ~disturbed => Reached(l)

(* A reference asks for the same while no link gets another index.           *)
LEMMA SameReference ==
  ASSUME DesiredOK, LoopOK, NEW l \in DOMAIN links, ~Missing(l), links[l].kind = "vxlan",
         NEW ref, ref = links[l].device \/ ref = links[l].master,
         links' = links, \A m \in Name : kernel'[m].index = kernel[m].index
  PROVE  /\ DesiredIndex(ref, links)' = DesiredIndex(ref, links)
         /\ DesiredIsThere(ref, links)' = DesiredIsThere(ref, links)
<1>1. Resolved(ref, links)' = Resolved(ref, links)
  BY DEF Resolved
<1>2. ASSUME Resolved(ref, links) # NoRef
      PROVE  links[Resolved(ref, links).to].name \in Name
  <2>1. PICK wanted : wanted = Resolved(ref, links)
    OBVIOUS
  <2>. QED
    BY <1>2, <2>1, ResolvedOK
<1>3. DesiredIndex(ref, links)' = DesiredIndex(ref, links)
  BY <1>1, <1>2 DEF DesiredIndex
<1>. QED
  BY <1>1, <1>3 DEF DesiredIsThere

(* A link that is set in place keeps its index and its other attributes.     *)
LEMMA SetsHere ==
  ASSUME KernelOK, DesiredOK, LoopOK, NEW l \in DOMAIN links, links' = links,
         Here(l).index = copy.index,
         NEW a, NEW v, Settable(a, v), kernel' = kernel \/ InPlace(a, v)
  PROVE  /\ \A m \in Name : kernel'[m].index = kernel[m].index
         /\ kernel' = kernel => Here(l)' = Here(l)
         /\ InPlace(a, v) => Here(l)' = [Here(l) EXCEPT ![a] = v]
<1>1. links[l].name \in Name
  BY LinkNamed
<1>2. CASE kernel' = kernel /\ ~InPlace(a, v)
  BY <1>2 DEF Here
<1>3. CASE InPlace(a, v)
  <2>1. /\ \A m \in Name : kernel'[m].index = kernel[m].index
        /\ \A m \in Name : kernel[m].index = copy.index => kernel'[m] = [kernel[m] EXCEPT ![a] = v]
    BY <1>3, InPlaceOK
  <2>. QED
    BY <1>1, <2>1 DEF Here
<1>. QED
  BY <1>2, <1>3

(* The first calls: the link is read, deleted, added and read again.         *)
LEMMA ReplacedSoFar ==
  ASSUME KernelOK, DesiredOK, LoopOK, CallOK, NEW l \in DOMAIN links, at = l, links' = links,
         NEW s, s = links[l], Reached(l), ~Fails,
         Retrieve(s) \/ DeleteExisting \/ Add(s) \/ RetrieveAgain(s)
  PROVE  Reached(l)' /\ call' # "ok"
<1>1. s \in LinkSpec /\ s.name \in Name /\ Here(l) = kernel[s.name] /\ Here(l) \in NetlinkLink
  BY LinkNamed DEF Here, KernelOK
<1>2. Here(l)' = kernel'[s.name] /\ links'[l] = s
  BY DEF Here
<1>3. CASE Retrieve(s)
  <2>1. /\ kernel' = kernel /\ copy' = Here(l)
        /\ call' = IF Here(l).index = 0 THEN "add"
                   ELSE IF ForceReplace(s, Here(l)) THEN "delete" ELSE "mtu"
    BY <1>1, <1>3 DEF Retrieve, Present
  <2>2. Here(l)' = Here(l)
    BY <1>1, <1>2, <2>1
  <2>. QED
    BY <1>2, <2>1, <2>2
       DEF Reached, Whole, Setters, ForceReplace, MTUDone, DeviceDone, GroupDone,
           LearningDone, MasterDone
<1>4. CASE DeleteExisting
  <2>1. /\ call = "delete" /\ ~Gone /\ kernel' = Without(NameOf(copy.index))
        /\ call' = "add" /\ copy' = NoLink
    BY <1>4 DEF DeleteExisting
  <2>2. copy.index # 0 /\ Here(l).index = copy.index
    BY <2>1 DEF Reached, Whole
  <2>3. NameOf(copy.index) = s.name
    BY <1>1, <2>2, NameOfIndex
  <2>4. Here(l)' = NoLink
    BY <1>1, <1>2, <2>1, <2>3, WithoutOK
  <2>. QED
    BY <2>1, <2>4, NoLinkType DEF Reached, Whole, Setters
<1>5. CASE Add(s)
  <2>1. Here(l).index = 0 /\ call' = "again"
    BY <1>5 DEF Add, Reached, Whole
  <2>2. kernel' = Added(s.name, NewLink(s), {})
    BY <1>1, <1>5, <2>1 DEF Add, Present
  <2>3. NewLink(s) \in NetlinkLink
    <3>1. s.kind # "unmanaged"
      BY NodeRepairAssumption DEF CallOK, LoopOK, IsManaged
    <3>2. s.kind \in {"bridge", "vxlan"} /\ s.params \in Nat /\ s.learning \in BOOLEAN
      BY <1>1, <3>1 DEF LinkSpec
    <3>. QED
      BY <3>2 DEF NewLink, NoLink, NetlinkLink
  <2>4. IsFiniteSet({}) /\ {} \subseteq Nat
    BY FS_EmptySet
  <2>5. kernel'[s.name] = [NewLink(s) EXCEPT !.index = NewIndex({})] /\ kernel'[s.name].index # 0
    BY <1>1, <2>2, <2>3, <2>4, AddedOK
  <2>6. NewLink(s).type = s.kind /\ (s.kind = "vxlan" => NewLink(s).params = s.params)
    BY DEF NewLink, NoLink
  <2>7. /\ Here(l)'.index # 0 /\ Here(l)'.type = s.kind
        /\ s.kind = "vxlan" => Here(l)'.params = s.params
    BY <1>2, <2>3, <2>5, <2>6 DEF NetlinkLink
  <2>. QED
    BY <1>2, <2>1, <2>7 DEF Reached, Whole, Setters
<1>6. CASE RetrieveAgain(s)
  <2>1. /\ call = "again" /\ call' = "mtu" /\ copy' = Here(l) /\ kernel' = kernel
    BY <1>1, <1>6 DEF RetrieveAgain
  <2>2. Here(l)' = Here(l)
    BY <1>1, <1>2, <2>1
  <2>. QED
    BY <1>2, <2>1, <2>2
       DEF Reached, Whole, Setters, MTUDone, DeviceDone, GroupDone, LearningDone, MasterDone
<1>. QED
  BY <1>3, <1>4, <1>5, <1>6

(* The MTU, the group and the learning are set.                              *)
LEMMA AttributesSoFar ==
  ASSUME KernelOK, DesiredOK, LoopOK, CallOK, NEW l \in DOMAIN links, at = l, links' = links,
         NEW s, s = links[l], Reached(l), ~Fails,
         SetMTU(s) \/ SetGroup(s) \/ SetLearning(s)
  PROVE  Reached(l)' /\ call' # "ok"
<1>1. /\ s \in LinkSpec /\ Here(l) \in NetlinkLink
      /\ s.mtu \in Nat /\ s.group \in {"none", "unicast", "multicast"} /\ s.learning \in BOOLEAN
  BY LinkNamed DEF Here, KernelOK, LinkSpec
<1>2. ~Missing(l) /\ (call \in {"group", "learning"} => s.kind = "vxlan")
  BY NodeRepairAssumption DEF CallOK, LoopOK
<1>3. call \in Setters /\ Here(l).index = copy.index
  BY DEF SetMTU, SetGroup, SetLearning, Setters, Reached, Whole
<1>4. ASSUME NEW a \in {"mtu", "group", "learning"}, NEW v, Settable(a, v),
             kernel' = kernel \/ InPlace(a, v),
             s.kind = "vxlan", NEW ref, ref = s.device \/ ref = s.master, NEW i, RefersTo(ref, i)
      PROVE  RefersTo(ref, i)'
  <2>1. \A m \in Name : kernel'[m].index = kernel[m].index
    BY <1>3, <1>4, SetsHere
  <2>. QED
    BY <1>2, <1>4, <2>1, SameReference DEF RefersTo
<1>5. ASSUME NEW a \in {"mtu", "group", "learning"}, NEW v, Settable(a, v),
             kernel' = kernel \/ InPlace(a, v), s.kind = "vxlan"
      PROVE  /\ RefersTo(s.device, Here(l).device) => RefersTo(s.device, Here(l).device)'
             /\ Here(l)'.device = Here(l).device
  <2>1. PICK ref, i : ref = s.device /\ i = Here(l).device
    OBVIOUS
  <2>2. Here(l)' = Here(l) \/ Here(l)' = [Here(l) EXCEPT ![a] = v]
    BY <1>3, <1>5, SetsHere
  <2>3. Here(l)'.device = Here(l).device
    BY <1>1, <2>2 DEF NetlinkLink
  <2>4. RefersTo(ref, i) => RefersTo(ref, i)'
    BY <1>4, <1>5, <2>1
  <2>. QED
    BY <2>1, <2>3, <2>4
       DEF RefersTo, DesiredIsThere, DesiredIndex, Resolved
<1>6. CASE SetMTU(s)
  <2>1. Settable("mtu", s.mtu)
    BY <1>1 DEF Settable
  <2>2. Sets("mtu", s.mtu # 0 /\ copy.mtu # s.mtu, s.mtu,
             IF s.kind = "vxlan" THEN "device" ELSE "up") /\ call = "mtu"
    BY <1>6, SetMTUDoes
  <2>3. /\ kernel' = kernel => Here(l)' = Here(l)
        /\ InPlace("mtu", s.mtu) => Here(l)' = [Here(l) EXCEPT !["mtu"] = s.mtu]
    BY <1>3, <2>1, <2>2, SetsHere DEF Sets
  <2>4. Whole(l) /\ MTUDone(l)
        /\ (s.kind = "vxlan" => DeviceDone(l) /\ GroupDone(l) /\ LearningDone(l) /\ MasterDone(l))
    BY <1>3 DEF Reached
  <2>. DEFINE h == Here(l)
              k == Here(l)'
  <2>5. /\ k.index = h.index /\ k.type = h.type /\ k.params = h.params /\ k.group = h.group
        /\ k.learning = h.learning /\ k.master = h.master /\ k.device = h.device
        /\ s.mtu # 0 => k.mtu = s.mtu
    BY <1>1, <2>2, <2>3, <2>4 DEF Sets, NetlinkLink, MTUDone
  <2>. HIDE DEF h, k
  <2>6. Whole(l)'
    BY <2>2, <2>4, <2>5, <1>3 DEF Whole, Setters, Sets, h, k
  <2>7. MTUDone(l)'
    BY <2>2, <2>5 DEF MTUDone, Sets, h, k
  <2>8. s.kind = "vxlan" => (DeviceDone(l) /\ GroupDone(l) /\ LearningDone(l) /\ MasterDone(l))'
    BY <2>2, <2>4, <2>5 DEF DeviceDone, GroupDone, LearningDone, MasterDone, Sets, h, k
  <2>. QED
    BY <2>2, <2>6, <2>7, <2>8 DEF Reached, Sets
<1>7. CASE SetGroup(s)
  <2>1. Settable("group", s.group) /\ s.kind = "vxlan"
    BY <1>1, <1>2, <1>7 DEF Settable, SetGroup
  <2>2. Sets("group", copy.group # s.group, s.group, "learning") /\ call = "group"
    BY <1>7, SetGroupDoes
  <2>3. /\ kernel' = kernel => Here(l)' = Here(l)
        /\ InPlace("group", s.group) => Here(l)' = [Here(l) EXCEPT !["group"] = s.group]
    BY <1>3, <2>1, <2>2, SetsHere DEF Sets
  <2>4. Whole(l) /\ MTUDone(l) /\ DeviceDone(l) /\ GroupDone(l) /\ LearningDone(l) /\ MasterDone(l)
    BY <1>3, <2>1 DEF Reached
  <2>. DEFINE h == Here(l)
              k == Here(l)'
  <2>5. /\ k.index = h.index /\ k.type = h.type /\ k.params = h.params /\ k.mtu = h.mtu
        /\ k.learning = h.learning /\ k.master = h.master /\ k.group = s.group
    BY <1>1, <2>2, <2>3, <2>4 DEF Sets, NetlinkLink, GroupDone
  <2>6. RefersTo(s.device, Here(l).device)'
    BY <1>5, <2>1, <2>2, <2>4 DEF Sets, DeviceDone
  <2>. HIDE DEF h, k
  <2>7. Whole(l)' /\ MTUDone(l)'
    BY <2>2, <2>4, <2>5, <1>3 DEF Whole, MTUDone, Setters, Sets, h, k
  <2>8. (GroupDone(l) /\ LearningDone(l) /\ MasterDone(l))'
    BY <2>2, <2>4, <2>5 DEF GroupDone, LearningDone, MasterDone, Sets, h, k
  <2>9. DeviceDone(l)'
    BY <2>2, <2>6 DEF DeviceDone, Sets
  <2>. QED
    BY <2>2, <2>7, <2>8, <2>9 DEF Reached, Sets
<1>8. CASE SetLearning(s)
  <2>1. Settable("learning", s.learning) /\ s.kind = "vxlan"
    BY <1>1, <1>2, <1>8 DEF Settable, SetLearning
  <2>2. Sets("learning", copy.learning # s.learning, s.learning, "master") /\ call = "learning"
    BY <1>8, SetLearningDoes
  <2>3. /\ kernel' = kernel => Here(l)' = Here(l)
        /\ InPlace("learning", s.learning) => Here(l)' = [Here(l) EXCEPT !["learning"] = s.learning]
    BY <1>3, <2>1, <2>2, SetsHere DEF Sets
  <2>4. Whole(l) /\ MTUDone(l) /\ DeviceDone(l) /\ GroupDone(l) /\ LearningDone(l) /\ MasterDone(l)
    BY <1>3, <2>1 DEF Reached
  <2>. DEFINE h == Here(l)
              k == Here(l)'
  <2>5. /\ k.index = h.index /\ k.type = h.type /\ k.params = h.params /\ k.mtu = h.mtu
        /\ k.learning = s.learning /\ k.master = h.master /\ k.group = h.group
    BY <1>1, <2>2, <2>3, <2>4 DEF Sets, NetlinkLink, LearningDone
  <2>6. RefersTo(s.device, Here(l).device)'
    BY <1>5, <2>1, <2>2, <2>4 DEF Sets, DeviceDone
  <2>. HIDE DEF h, k
  <2>7. Whole(l)' /\ MTUDone(l)'
    BY <2>2, <2>4, <2>5, <1>3 DEF Whole, MTUDone, Setters, Sets, h, k
  <2>8. (GroupDone(l) /\ LearningDone(l) /\ MasterDone(l))'
    BY <2>2, <2>4, <2>5 DEF GroupDone, LearningDone, MasterDone, Sets, h, k
  <2>9. DeviceDone(l)'
    BY <2>2, <2>6 DEF DeviceDone, Sets
  <2>. QED
    BY <2>2, <2>7, <2>8, <2>9 DEF Reached, Sets
<1>. QED
  BY <1>6, <1>7, <1>8

(* The device and the master are set.                                        *)
LEMMA ReferencesSoFar ==
  ASSUME KernelOK, DesiredOK, LoopOK, CallOK, NEW l \in DOMAIN links, at = l, links' = links,
         NEW s, s = links[l], Reached(l), ~Fails,
         SetDevice(s, links) \/ SetMaster(s, links)
  PROVE  Reached(l)' /\ call' # "ok"
<1>1. s \in LinkSpec /\ Here(l) \in NetlinkLink /\ links'[l] = s
  BY LinkNamed DEF Here, KernelOK
<1>2. ~Missing(l) /\ s.kind = "vxlan" /\ call \in Setters /\ Here(l).index = copy.index
  <2>1. call \in {"device", "master"}
    BY DEF SetDevice, SetMaster
  <2>. QED
    BY <2>1, NodeRepairAssumption DEF CallOK, LoopOK, Reached, Whole, Setters
<1>3. Whole(l) /\ MTUDone(l) /\ DeviceDone(l) /\ GroupDone(l) /\ LearningDone(l) /\ MasterDone(l)
  BY <1>2 DEF Reached
<1>. DEFINE h == Here(l)
            k == Here(l)'
<1>4. ASSUME NEW a \in {"device", "master"}, NEW ref, ref = s.device \/ ref = s.master,
             NEW next, NEW i, i = DesiredIndex(ref, links), NEW was,
             LinkRefDiffers(ref, was, links) => DesiredIsThere(ref, links),
             was = IF a = "device" THEN h.device ELSE h.master,
             Sets(a, LinkRefDiffers(ref, was, links), i, next)
      PROVE  /\ k.index = h.index /\ k.type = h.type /\ k.params = h.params
             /\ k.mtu = h.mtu /\ k.group = h.group /\ k.learning = h.learning
             /\ a # "master" => k.master = h.master
             /\ a # "device" => k.device = h.device
             /\ \A m \in Name : kernel'[m].index = kernel[m].index
             /\ IF a = "device" THEN k.device = i ELSE k.master = i
             /\ DesiredIndex(ref, links)' = i
             /\ DesiredIsThere(ref, links)'
  <2>1. Settable(a, i)
    BY <1>2, <1>4, DesiredIndexType DEF Settable
  <2>2. /\ \A m \in Name : kernel'[m].index = kernel[m].index
        /\ kernel' = kernel => k = h
        /\ InPlace(a, i) => k = [h EXCEPT ![a] = i]
    BY <1>2, <1>4, <2>1, SetsHere DEF Sets
  <2>3. \/ ~LinkRefDiffers(ref, was, links) /\ kernel' = kernel
        \/ InPlace(a, i) /\ DesiredIsThere(ref, links)
    BY <1>4 DEF Sets
  <2>4. ~LinkRefDiffers(ref, was, links) => was = i /\ DesiredIsThere(ref, links)
    BY <1>4 DEF LinkRefDiffers, DesiredIsThere, DesiredIndex
  <2>5. DesiredIndex(ref, links)' = i /\ DesiredIsThere(ref, links)'
    BY <1>2, <1>4, <2>2, <2>3, <2>4, SameReference
  <2>6. \/ k = h /\ (IF a = "device" THEN h.device = i ELSE h.master = i)
        \/ k = [h EXCEPT ![a] = i]
    BY <1>4, <2>2, <2>3, <2>4
  <2>. HIDE DEF k, h
  <2>7. h \in NetlinkLink
    BY <1>1 DEF h
  <2>8. CASE a = "device"
    BY <2>2, <2>5, <2>6, <2>7, <2>8 DEF NetlinkLink
  <2>9. CASE a = "master"
    BY <2>2, <2>5, <2>6, <2>7, <2>9 DEF NetlinkLink
  <2>. QED
    BY <2>8, <2>9
<1>5. CASE SetDevice(s, links)
  <2>1. call = "device" /\ copy.device = h.device
    BY <1>3, <1>5 DEF SetDevice, DeviceDone
  <2>2. /\ LinkRefDiffers(s.device, h.device, links) => DesiredIsThere(s.device, links)
        /\ Sets("device", LinkRefDiffers(s.device, h.device, links),
                DesiredIndex(s.device, links), "group")
    BY <1>5, <2>1, SetDeviceDoes
  <2>3. PICK ref, i, was : ref = s.device /\ i = DesiredIndex(s.device, links) /\ was = h.device
    OBVIOUS
  <2>4. /\ k.index = h.index /\ k.type = h.type /\ k.params = h.params
        /\ k.mtu = h.mtu /\ k.group = h.group /\ k.learning = h.learning
        /\ k.master = h.master /\ k.device = i
        /\ DesiredIndex(ref, links)' = i /\ DesiredIsThere(ref, links)'
    BY <1>4, <2>2, <2>3
  <2>5. RefersTo(s.device, Here(l).device)'
    BY <2>3, <2>4 DEF RefersTo, DesiredIsThere, DesiredIndex, Resolved
  <2>. HIDE DEF h, k
  <2>6. Whole(l)' /\ MTUDone(l)'
    BY <1>1, <1>2, <1>3, <2>1, <2>2, <2>4 DEF Whole, MTUDone, Setters, Sets, h, k
  <2>7. (GroupDone(l) /\ LearningDone(l) /\ MasterDone(l))'
    BY <1>3, <2>1, <2>2, <2>4 DEF GroupDone, LearningDone, MasterDone, Sets, h, k
  <2>8. DeviceDone(l)'
    BY <1>1, <2>2, <2>5 DEF DeviceDone, Sets
  <2>. QED
    BY <2>2, <2>6, <2>7, <2>8 DEF Reached, Sets
<1>6. CASE SetMaster(s, links)
  <2>1. call = "master" /\ copy.master = h.master
    BY <1>3, <1>6 DEF SetMaster, MasterDone
  <2>2. /\ LinkRefDiffers(s.master, h.master, links) => DesiredIsThere(s.master, links)
        /\ Sets("master", LinkRefDiffers(s.master, h.master, links),
                DesiredIndex(s.master, links), "up")
    BY <1>6, <2>1, SetMasterDoes
  <2>3. PICK ref, i, was : ref = s.master /\ i = DesiredIndex(s.master, links) /\ was = h.master
    OBVIOUS
  <2>4. /\ k.index = h.index /\ k.type = h.type /\ k.params = h.params
        /\ k.mtu = h.mtu /\ k.group = h.group /\ k.learning = h.learning
        /\ k.device = h.device /\ k.master = i
        /\ \A m \in Name : kernel'[m].index = kernel[m].index
        /\ DesiredIndex(ref, links)' = i /\ DesiredIsThere(ref, links)'
    BY <1>4, <2>2, <2>3
  <2>5. RefersTo(s.master, Here(l).master)'
    BY <2>3, <2>4 DEF RefersTo, DesiredIsThere, DesiredIndex, Resolved
  <2>6. RefersTo(s.device, Here(l).device)'
    <3>1. PICK dev : dev = s.device
      OBVIOUS
    <3>2. /\ DesiredIndex(dev, links)' = DesiredIndex(dev, links)
          /\ DesiredIsThere(dev, links)' = DesiredIsThere(dev, links)
      BY <1>2, <2>4, <3>1, SameReference
    <3>3. DesiredIsThere(dev, links) /\ h.device = DesiredIndex(dev, links)
      BY <1>3, <2>1, <3>1 DEF DeviceDone, RefersTo
    <3>. QED
      BY <2>4, <3>1, <3>2, <3>3 DEF RefersTo, DesiredIsThere, DesiredIndex, Resolved
  <2>. HIDE DEF h, k
  <2>7. Whole(l)' /\ MTUDone(l)'
    BY <1>1, <1>2, <1>3, <2>1, <2>2, <2>4 DEF Whole, MTUDone, Setters, Sets, h, k
  <2>8. (GroupDone(l) /\ LearningDone(l))'
    BY <1>1, <1>3, <2>1, <2>2, <2>4 DEF GroupDone, LearningDone, Sets, h, k
  <2>9. DeviceDone(l)' /\ MasterDone(l)'
    BY <1>1, <2>2, <2>5, <2>6 DEF DeviceDone, MasterDone, Sets
  <2>. QED
    BY <2>2, <2>6, <2>7, <2>8, <2>9 DEF Reached, Sets
<1>. QED
  BY <1>5, <1>6

(* The last call leaves the link as IsUpsertNeeded compares it.              *)
LEMMA SetUpSuffices ==
  ASSUME KernelOK, DesiredOK, LoopOK, CallOK, NEW l \in DOMAIN links, at = l, links' = links,
         Reached(l), ~Fails, SetUp
  PROVE  ~UpsertNeeded(l)'
<1>. DEFINE s == links[l]
            h == Here(l)
            k == Here(l)'
<1>1. s \in LinkSpec /\ h \in NetlinkLink /\ links'[l] = s
  BY LinkNamed DEF Here, KernelOK
<1>2. call = "up" /\ call \in Setters /\ InPlace("up", TRUE) /\ ~Missing(l) /\ h.index = copy.index
  BY SetUpDoes, NodeRepairAssumption DEF CallOK, LoopOK, Setters, Reached, Whole
<1>3. /\ Whole(l) /\ MTUDone(l)
      /\ s.kind = "vxlan" => DeviceDone(l) /\ GroupDone(l) /\ LearningDone(l) /\ MasterDone(l)
  BY <1>2 DEF Reached
<1>4. Settable("up", TRUE)
  BY DEF Settable
<1>5. /\ k = [h EXCEPT !["up"] = TRUE]
      /\ \A m \in Name : kernel'[m].index = kernel[m].index
  BY <1>2, <1>4, SetsHere
<1>. HIDE DEF h, k, s
<1>6. /\ k.up /\ k.type = h.type /\ k.params = h.params /\ k.mtu = h.mtu /\ k.group = h.group
      /\ k.learning = h.learning /\ k.device = h.device /\ k.master = h.master
  BY <1>1, <1>5 DEF NetlinkLink
<1>7. ASSUME s.kind = "vxlan", NEW ref, ref = s.device \/ ref = s.master,
             NEW i, RefersTo(ref, i)
      PROVE  ~LinkRefDiffers(ref, i, links)'
  <2>1. /\ DesiredIndex(ref, links)' = DesiredIndex(ref, links)
        /\ DesiredIsThere(ref, links)' = DesiredIsThere(ref, links)
    BY <1>2, <1>5, <1>7, SameReference DEF s
  <2>2. i = DesiredIndex(ref, links)' /\ DesiredIsThere(ref, links)'
    BY <1>7, <2>1 DEF RefersTo
  <2>. QED
    BY <2>2 DEF LinkRefDiffers, DesiredIsThere, DesiredIndex
<1>8. ASSUME s.kind = "vxlan"
      PROVE  /\ ~LinkRefDiffers(links[l].device, kernel[links[l].name].device, links)'
             /\ ~LinkRefDiffers(links[l].master, kernel[links[l].name].master, links)'
  <2>1. PICK dev, i : dev = s.device /\ i = h.device
    OBVIOUS
  <2>2. PICK mas, j : mas = s.master /\ j = h.master
    OBVIOUS
  <2>3. RefersTo(dev, i) /\ RefersTo(mas, j)
    BY <1>2, <1>3, <1>8, <2>1, <2>2 DEF DeviceDone, MasterDone, s, h
  <2>4. ~LinkRefDiffers(dev, i, links)' /\ ~LinkRefDiffers(mas, j, links)'
    BY <1>7, <1>8, <2>1, <2>2, <2>3
  <2>5. dev = links'[l].device /\ mas = links'[l].master
    BY <2>1, <2>2 DEF s
  <2>6. i = kernel'[links'[l].name].device /\ j = kernel'[links'[l].name].master
    BY <1>6, <2>1, <2>2 DEF k, Here
  <2>. QED
    BY <2>4, <2>5, <2>6 DEF LinkRefDiffers, Resolved
<1>9. /\ k.type = s.kind /\ (s.mtu # 0 => k.mtu = s.mtu)
      /\ s.kind = "vxlan" => k.group = s.group /\ k.params = s.params /\ k.learning = s.learning
  BY <1>2, <1>3, <1>6 DEF Whole, MTUDone, GroupDone, LearningDone, s, h
<1>. QED
  BY <1>1, <1>6, <1>8, <1>9 DEF UpsertNeeded, IsUpsertNeeded, k, s, Here

(* Every step leaves an upsert as far as its calls should have come.         *)
LEMMA UpsertStep ==
  ASSUME KernelOK, DesiredOK, LoopOK, CallOK, UpsertOK, [Next]_vars
  PROVE  /\ UpsertOK'
         /\ \A l \in Link :
              at = l /\ at' = None /\ pass' = "read" /\ call' = "ok" /\ ~disturbed
                => ~UpsertNeeded(l)'
<1>1. ASSUME NEW l \in Link, at = l, ~disturbed, CallUpsert
      PROVE  call' # "error" => IF call' = "ok" THEN ~UpsertNeeded(l)' ELSE Reached(l)'
  <2>1. /\ l \in DOMAIN links /\ links' = links /\ Upsert(links[l], links) /\ Reached(l)
    BY <1>1, NodeRepairAssumption DEF CallOK, CallUpsert, UpsertOK
  <2>2. CASE Fails
    BY <2>2 DEF Fails
  <2>3. CASE ~Fails
    <3>1. PICK s : s = links[l]
      OBVIOUS
    <3>2. CASE Retrieve(s) \/ DeleteExisting \/ Add(s) \/ RetrieveAgain(s)
      BY <1>1, <2>1, <2>3, <3>1, <3>2, ReplacedSoFar
    <3>3. CASE SetMTU(s) \/ SetGroup(s) \/ SetLearning(s)
      BY <1>1, <2>1, <2>3, <3>1, <3>3, AttributesSoFar
    <3>4. CASE SetDevice(s, links) \/ SetMaster(s, links)
      BY <1>1, <2>1, <2>3, <3>1, <3>4, ReferencesSoFar
    <3>5. CASE SetUp
      <4>1. ~UpsertNeeded(l)'
        BY <1>1, <2>1, <2>3, <3>5, SetUpSuffices
      <4>2. call' = "ok"
        BY <2>3, <3>5, SetUpDoes
      <4>. QED
        BY <4>1, <4>2
    <3>. QED
      BY <2>1, <3>1, <3>2, <3>3, <3>4, <3>5 DEF Upsert
  <2>. QED
    BY <2>2, <2>3
<1>2. ASSUME NEW l \in Link, at' = l, ~disturbed'
      PROVE  Reached(l)'
  <2>1. CASE BeginLink(l)
    <3>1. call' = "retrieve"
      BY <2>1 DEF BeginLink
    <3>. QED
      BY <3>1 DEF Reached, Whole, Setters
  <2>2. CASE at = l /\ SetDownDependent
    <3>1. call' = "retrieve"
      BY <2>2 DEF SetDownDependent, CallOK
    <3>. QED
      BY <3>1 DEF Reached, Whole, Setters
  <2>3. CASE at = l /\ ~disturbed /\ CallUpsert /\ call' \notin {"ok", "error"}
    BY <1>1, <2>3
  <2>4. CASE at = l /\ ~disturbed /\ UNCHANGED <<kernel, call, copy, links>>
    <3>1. Reached(l)
      BY <2>4 DEF UpsertOK
    <3>. QED
      BY <2>4, <3>1
         DEF Reached, Whole, MTUDone, DeviceDone, GroupDone, LearningDone, MasterDone, Here,
             RefersTo, DesiredIsThere, DesiredIndex, Resolved
  <2>. QED
    BY <1>2, <2>1, <2>2, <2>3, <2>4, UpsertGoesOn
<1>3. ASSUME NEW l \in Link, at = l, at' = None, pass' = "read", call' = "ok", ~disturbed
      PROVE  ~UpsertNeeded(l)'
  <2>1. CallUpsert
    <3>0. l # None
      BY NodeRepairAssumption
    <3>1. ~UNCHANGED at
      BY <1>3, <3>0
    <3>2. pass' # "idle" /\ call' # "error"
      BY <1>3
    <3>. QED
      BY <1>3, <3>0, <3>1, <3>2
         DEF vars, loop, Next, Agent, Begin, GetLinks, SetDownDependent, EndPass, LoopDone,
             SetDownLacking, RefuseLink, LeaveLink, BeginLink, Handles, Watcher, CallFails,
             CallError, Fails, SubscriptionFails, Restart, LoopEnds, WatcherRestart, Others,
             Register
  <2>. QED
    BY <1>1, <1>3, <2>1
<1>. QED
  BY <1>2, <1>3 DEF UpsertOK

(* An upsert that returns no error has done what IsUpsertNeeded compares     *)
(* (linkmanager.go:16-20), for every set of Links and whatever link it finds *)
(* or deletes, unless others changed links meanwhile.                        *)
THEOREM UpsertIsEnough == Spec => UpsertSuffices
<1>. DEFINE IInv == KernelOK /\ DesiredOK /\ LoopOK /\ CallOK /\ UpsertOK
            P == \A l \in Link :
                   at = l /\ at' = None /\ pass' = "read" /\ call' = "ok" /\ ~disturbed
                     => ~UpsertNeeded(l)'
<1>1. Init => IInv
  <2>1. Init => UpsertOK
    BY NodeRepairAssumption DEF Init, UpsertOK
  <2>. QED
    BY <2>1, LoopInit
<1>2. IInv /\ [Next]_vars => IInv' /\ P
  BY UpsertStep, LoopStep, DesiredStep
<1>3. IInv /\ [Next]_vars => IInv' /\ [P]_vars
  BY <1>2
<1>. QED
  BY <1>1, <1>3, PTL DEF Spec, UpsertSuffices
=============================================================================
