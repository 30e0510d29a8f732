-------------------------- MODULE GraphSearch_proofs --------------------------
(* What the search does on every finite graph.  Induction over the turns of  *)
(* the search is by the least counterexample: every nonempty set of naturals *)
(* has a least element.                                                      *)
EXTENDS GraphSearch, FiniteSetTheorems, SequenceTheorems, TLAPS

(* The least element, from the order of the initial segments by inclusion.   *)
LEMMA Least ==
  ASSUME NEW T, T \subseteq Nat, T # {}
  PROVE  \E m \in T : \A k \in T : m <= k
<1>. DEFINE Segments == {0..k : k \in T}
<1>1. Segments \subseteq FiniteSubsetsOf(Nat)
  <2>1. \A k \in T : IsFiniteSet(0..k) /\ (0..k) \in SUBSET Nat
    BY FS_Interval
  <2>. QED
    BY <2>1 DEF FiniteSubsetsOf
<1>2. Segments # {}
  OBVIOUS
<1>3. PICK S \in Segments : \A U \in Segments : ~(<<U, S>> \in StrictSubsetOrdering(Nat))
  <2>. HIDE DEF Segments
  <2>. QED
    BY <1>1, <1>2, FS_StrictSubsetOrderingWellFounded, WFMin
<1>4. PICK m \in T : S = 0..m
  BY <1>3
<1>5. ASSUME NEW k \in T, k < m
      PROVE  FALSE
  <2>1. (0..k) \in SUBSET Nat /\ (0..m) \in SUBSET Nat /\ (0..k) \subseteq 0..m
    BY <1>5
  <2>2. m \in 0..m /\ m \notin 0..k
    BY <1>5
  <2>3. <<0..k, 0..m>> \in StrictSubsetOrdering(Nat)
    BY <2>1, <2>2 DEF StrictSubsetOrdering
  <2>. QED
    BY <1>3, <1>4, <2>3
<1>. QED
  BY <1>5

(* A set that has 0, and with a number the next one, has all of 0..n.        *)
LEMMA UpTo ==
  ASSUME NEW n \in Nat, NEW P, 0 \in P, \A k \in 1..n : k - 1 \in P => k \in P
  PROVE  0..n \subseteq P
<1>. DEFINE T == (0..n) \ P
<1>1. T \subseteq Nat
  OBVIOUS
<1>2. ASSUME T # {}
      PROVE  FALSE
  <2>1. PICK m \in T : \A k \in T : m <= k
    <3>. HIDE DEF T
    <3>. QED
      BY <1>1, <1>2, Least
  <2>2. m \in 1..n /\ m - 1 \in 0..n /\ m - 1 \notin T
    BY <2>1
  <2>. QED
    BY <2>1, <2>2
<1>. QED
  BY <1>2

(* A function that takes a step from each number to the next exists.         *)
LEMMA Recursion ==
  ASSUME NEW C \in Nat, NEW X, NEW start \in X, NEW step \in [X -> X]
  PROVE  \E f \in [0..C -> X] : f = [n \in 0..C |-> IF n = 0 THEN start ELSE step[f[n - 1]]]
<1>. DEFINE Is(f, n) ==
       f \in [0..n -> X] /\ f[0] = start /\ \A k \in 1..n : f[k] = step[f[k - 1]]
<1>. DEFINE P == {n \in 0..C : \E f : Is(f, n)}
<1>1. 0 \in P
  <2>1. Is([k \in 0..0 |-> start], 0)
    OBVIOUS
  <2>2. 0 \in 0..C
    OBVIOUS
  <2>. HIDE DEF Is
  <2>. QED
    BY <2>1, <2>2
<1>2. ASSUME NEW n \in 1..C, n - 1 \in P
      PROVE  n \in P
  <2>1. PICK f : Is(f, n - 1)
    BY <1>2
  <2>. DEFINE h == [k \in 0..n |-> IF k = n THEN step[f[n - 1]] ELSE f[k]]
  <2>2. h \in [0..n -> X] /\ h[0] = start
    BY <2>1
  <2>3. ASSUME NEW k \in 1..n
        PROVE  h[k] = step[h[k - 1]]
    <3>1. CASE k = n
      BY <2>1, <3>1
    <3>2. CASE k # n
      BY <2>1, <3>2
    <3>. QED
      BY <3>1, <3>2
  <2>4. Is(h, n)
    <3>. HIDE DEF h
    <3>. QED
      BY <2>2, <2>3
  <2>. HIDE DEF Is
  <2>. QED
    BY <2>4
<1>3. C \in P
  <2>1. C \in 0..C
    OBVIOUS
  <2>. HIDE DEF P
  <2>. QED
    BY <1>1, <1>2, <2>1, UpTo
<1>4. PICK f : Is(f, C)
  BY <1>3
<1>5. f = [n \in 0..C |-> IF n = 0 THEN start ELSE step[f[n - 1]]]
  <2>1. \A n \in 0..C : f[n] = IF n = 0 THEN start ELSE step[f[n - 1]]
    BY <1>4
  <2>. QED
    BY <1>4, <2>1
<1>. QED
  BY <1>4, <1>5

-----------------------------------------------------------------------------
(* A finite graph, and the state of a search in it.                          *)
IsGraph(g) ==
  IsFiniteSet(g.vertices) /\ g.edge \in [g.vertices \X g.vertices -> EdgeData]

Visit(g) == [vertex : g.vertices, via : EdgeData]

Search(g) ==
  [waiting : Seq(Visit(g)), visited : SUBSET g.vertices, visits : Seq(Visit(g))]

(* The vertices in the order in which they are marked: those visited, then   *)
(* those that wait.                                                          *)
Marked(s) == s.visits \o s.waiting

(* What a turn puts into the queue.                                          *)
Found(g, s) ==
  LET h == Head(s.waiting).vertex
  IN {[vertex |-> w, via |-> g.edge[<<h, w>>]] : w \in Adjacent(g, h) \ s.visited}

(* Sequences that are appended can be grouped at will.                       *)
LEMMA Regroup ==
  ASSUME NEW S, NEW a \in Seq(S), NEW b \in Seq(S), NEW c \in Seq(S), NEW d \in Seq(S)
  PROVE  (a \o b) \o (c \o d) = (a \o (b \o c)) \o d
<1>1. c \o d \in Seq(S) /\ b \o c \in Seq(S)
  BY ConcatProperties
<1>2. (a \o b) \o (c \o d) = a \o (b \o (c \o d))
  BY <1>1, ConcatAssociative
<1>3. b \o (c \o d) = (b \o c) \o d
  BY ConcatAssociative
<1>4. a \o ((b \o c) \o d) = (a \o (b \o c)) \o d
  BY <1>1, ConcatAssociative
<1>. QED
  BY <1>2, <1>3, <1>4

(* An order of a finite set is a sequence with every element once.           *)
LEMMA Ordered ==
  ASSUME NEW S, IsFiniteSet(S), NEW order \in SetToSeqs(S)
  PROVE  /\ order \in Seq(S)
         /\ \A i, j \in DOMAIN order : order[i] = order[j] => i = j
         /\ \A x \in S : \E i \in DOMAIN order : order[i] = x
<1>. DEFINE D == 1..Cardinality(S)
<1>1. Cardinality(S) \in Nat
  BY FS_CardinalityType
<1>2. order \in [D -> S] /\ \A i, j \in D : i # j => order[i] # order[j]
  BY DEF SetToSeqs
<1>3. order \in Injection(D, S)
  BY <1>2 DEF Injection, IsInjective
<1>4. Cardinality(D) = Cardinality(S)
  BY <1>1, FS_Interval
<1>5. order \in Surjection(D, S)
  BY <1>3, <1>4, FS_Injection
<1>. QED
  BY <1>1, <1>2, <1>5 DEF Surjection

(* What is found is finite, and can be visited.                              *)
LEMMA FoundFinite ==
  ASSUME NEW g, IsGraph(g), NEW s \in Search(g), s.waiting # <<>>
  PROVE  Found(g, s) \subseteq Visit(g) /\ IsFiniteSet(Found(g, s))
<1>. DEFINE h == Head(s.waiting).vertex
            A == Adjacent(g, h) \ s.visited
            f == [w \in A |-> [vertex |-> w, via |-> g.edge[<<h, w>>]]]
<1>1. h \in g.vertices
  <2>1. Head(s.waiting) \in Visit(g)
    BY HeadTailProperties DEF Search
  <2>. QED
    BY <2>1 DEF Visit
<1>2. A \in SUBSET g.vertices
  BY DEF Adjacent
<1>3. ASSUME NEW w \in A
      PROVE  [vertex |-> w, via |-> g.edge[<<h, w>>]] \in Visit(g)
  <2>1. w \in g.vertices /\ g.edge[<<h, w>>] \in EdgeData
    BY <1>1, <1>2 DEF IsGraph
  <2>. QED
    BY <2>1 DEF Visit
<1>4. f \in Surjection(A, Found(g, s))
  BY DEF Surjection, Found
<1>5. IsFiniteSet(A)
  BY <1>2, FS_Subset DEF IsGraph
<1>6. Found(g, s) \subseteq Visit(g)
  BY <1>3 DEF Found
<1>. HIDE DEF A, f
<1>. QED
  BY <1>4, <1>5, <1>6, FS_Surjection

(* A turn marks what it finds, in some order, and visits one more vertex.    *)
LEMMA TurnTakes ==
  ASSUME NEW g, IsGraph(g), NEW s \in Search(g), s.waiting # <<>>, NEW t \in TakeNext(g, s)
  PROVE  /\ t \in Search(g)
         /\ \E order \in SetToSeqs(Found(g, s)) :
              /\ order \in Seq(Visit(g))
              /\ t.waiting = Tail(s.waiting) \o order
              /\ t.visits = Append(s.visits, Head(s.waiting))
              /\ t.visited = s.visited \cup {e.vertex : e \in Found(g, s)}
              /\ Marked(t) = Marked(s) \o order
<1>1. PICK order \in SetToSeqs(Found(g, s)) :
        t = [waiting |-> Tail(s.waiting) \o order,
             visited |-> s.visited \cup {e.vertex : e \in Found(g, s)},
             visits  |-> Append(s.visits, Head(s.waiting))]
  BY DEF TakeNext, Found
<1>2. order \in Seq(Visit(g))
  BY FoundFinite, Ordered, SeqMonotonic
<1>3. /\ s.waiting \in Seq(Visit(g)) /\ s.visits \in Seq(Visit(g))
      /\ s.visited \in SUBSET g.vertices
      /\ Head(s.waiting) \in Visit(g) /\ Tail(s.waiting) \in Seq(Visit(g))
  BY HeadTailProperties DEF Search
<1>4. t \in Search(g)
  <2>1. {e.vertex : e \in Found(g, s)} \in SUBSET g.vertices
    BY FoundFinite DEF Visit
  <2>. QED
    BY <1>1, <1>2, <1>3, <2>1 DEF Search
<1>5. Marked(t) = Marked(s) \o order
  <2>. DEFINE V == Visit(g)
              done == s.visits
              h == <<Head(s.waiting)>>
              rest == Tail(s.waiting)
  <2>1. /\ s.waiting = h \o rest
        /\ done \in Seq(V) /\ h \in Seq(V) /\ rest \in Seq(V) /\ order \in Seq(V)
    BY <1>2, <1>3
  <2>2. t.visits = done \o h
    <3>1. Append(done, Head(s.waiting)) = done \o h
      BY <1>3, AppendIsConcat
    <3>. QED
      BY <1>1, <3>1
  <2>3. Marked(t) = (done \o h) \o (rest \o order)
    BY <1>1, <2>2 DEF Marked
  <2>4. Marked(s) = done \o (h \o rest)
    BY <2>1 DEF Marked
  <2>. HIDE DEF V, done, h, rest
  <2>5. (done \o h) \o (rest \o order) = (done \o (h \o rest)) \o order
    BY <2>1, Regroup, SMTT(60)
  <2>. QED
    BY <2>3, <2>4, <2>5
<1>. QED
  BY <1>1, <1>2, <1>4, <1>5

(* The turns stay within the states of a search.                             *)
LEMMA TurnType ==
  ASSUME NEW g, IsGraph(g), NEW s \in Search(g)
  PROVE  Turn(g, s) \subseteq Search(g)
  BY TurnTakes DEF Turn

(* A search starts with one vertex that waits.                               *)
LEMMA StartType ==
  ASSUME NEW g, NEW v \in g.vertices
  PROVE  Start(v) \in Search(g)
  BY DEF Start, Search, Visit, EdgeData

(* So the recursive definition of the searches has a solution.               *)
LEMMA SearchesStep ==
  ASSUME NEW g, IsGraph(g), NEW v \in g.vertices
  PROVE  /\ Searches(g, v)[0] = {Start(v)}
         /\ \A n \in 1..Cardinality(g.vertices) :
              Searches(g, v)[n] = UNION {Turn(g, s) : s \in Searches(g, v)[n - 1]}
         /\ \A n \in 0..Cardinality(g.vertices) : Searches(g, v)[n] \subseteq Search(g)
<1>. DEFINE C == Cardinality(g.vertices)
            X == SUBSET Search(g)
            step == [S \in X |-> UNION {Turn(g, s) : s \in S}]
            Is(f) == f = [n \in 0..C |-> IF n = 0 THEN {Start(v)}
                                         ELSE UNION {Turn(g, s) : s \in f[n - 1]}]
<1>1. C \in Nat
  BY FS_CardinalityType DEF IsGraph
<1>2. {Start(v)} \in X
  BY StartType
<1>3. step \in [X -> X]
  BY TurnType
<1>4. PICK f \in [0..C -> X] : f = [n \in 0..C |-> IF n = 0 THEN {Start(v)} ELSE step[f[n - 1]]]
  <2>. DEFINE start == {Start(v)}
  <2>1. start \in X
    BY <1>2
  <2>. HIDE DEF X, step, C, start
  <2>2. \E f \in [0..C -> X] : f = [n \in 0..C |-> IF n = 0 THEN start ELSE step[f[n - 1]]]
    BY <1>1, <2>1, <1>3, Recursion
  <2>. QED
    BY <2>2 DEF start
<1>5. ASSUME NEW n \in 0..C
      PROVE  f[n] = IF n = 0 THEN {Start(v)} ELSE UNION {Turn(g, s) : s \in f[n - 1]}
  <2>1. CASE n = 0
    BY <1>4, <2>1
  <2>2. CASE n # 0
    <3>1. f[n] = step[f[n - 1]]
      <4>. HIDE DEF step
      <4>. QED
        BY <1>4, <2>2
    <3>2. f[n - 1] \in X
      BY <1>1, <2>2
    <3>. QED
      BY <2>2, <3>1, <3>2
  <2>. QED
    BY <2>1, <2>2
<1>6. f = [n \in 0..C |-> IF n = 0 THEN {Start(v)} ELSE UNION {Turn(g, s) : s \in f[n - 1]}]
  <2>1. f = [n \in 0..C |-> f[n]]
    OBVIOUS
  <2>. QED
    BY <1>5, <2>1
<1>7. Searches(g, v) = CHOOSE h : Is(h)
  BY DEF Searches
<1>8. Is(Searches(g, v))
  <2>1. Is(f)
    BY <1>6
  <2>. HIDE DEF Is
  <2>. QED
    BY <2>1, <1>7
<1>9. ASSUME NEW n \in 0..C
      PROVE  Searches(g, v)[n] = IF n = 0 THEN {Start(v)}
                                 ELSE UNION {Turn(g, s) : s \in Searches(g, v)[n - 1]}
  BY <1>8
<1>10. /\ Searches(g, v)[0] = {Start(v)}
       /\ \A n \in 1..C : Searches(g, v)[n] = UNION {Turn(g, s) : s \in Searches(g, v)[n - 1]}
  <2>. HIDE DEF C
  <2>1. Searches(g, v)[0] = {Start(v)}
    <3>1. 0 \in 0..C
      BY <1>1
    <3>. QED
      BY <1>9, <3>1
  <2>2. ASSUME NEW n \in 1..C
        PROVE  Searches(g, v)[n] = UNION {Turn(g, s) : s \in Searches(g, v)[n - 1]}
    <3>1. n \in 0..C /\ n # 0
      BY <1>1
    <3>. QED
      BY <1>9, <3>1
  <2>. QED
    BY <2>1, <2>2
<1>11. \A n \in 0..C : Searches(g, v)[n] \subseteq Search(g)
  <2>. DEFINE P == {n \in 0..C : Searches(g, v)[n] \subseteq Search(g)}
  <2>1. 0 \in P
    <3>1. Searches(g, v)[0] \subseteq Search(g)
      <4>. HIDE DEF C
      <4>. QED
        BY <1>2, <1>10
    <3>2. 0 \in 0..C
      BY <1>1
    <3>. HIDE DEF C
    <3>. QED
      BY <3>1, <3>2
  <2>2. ASSUME NEW n \in 1..C, n - 1 \in P
        PROVE  n \in P
    <3>1. UNION {Turn(g, s) : s \in Searches(g, v)[n - 1]} \subseteq Search(g)
      BY <2>2, TurnType
    <3>. QED
      BY <1>1, <1>10, <3>1
  <2>3. 0..C \subseteq P
    <3>. HIDE DEF P
    <3>. QED
      BY <1>1, <2>1, <2>2, UpTo
  <2>. QED
    BY <2>3
<1>. QED
  BY <1>10, <1>11

-----------------------------------------------------------------------------
(* The places in a concatenation.                                            *)
LEMMA Places ==
  ASSUME NEW S, NEW a \in Seq(S), NEW b \in Seq(S)
  PROVE  /\ (a \o b) \in Seq(S) /\ (a \o b) \in [1..Len(a \o b) -> S]
         /\ Len(a) \in Nat /\ Len(b) \in Nat /\ Len(a \o b) = Len(a) + Len(b)
         /\ \A i \in 1..Len(a) : (a \o b)[i] = a[i]
         /\ \A i \in 1..Len(b) : (a \o b)[i + Len(a)] = b[i]
         /\ \A i \in (Len(a) + 1)..Len(a \o b) :
              i - Len(a) \in 1..Len(b) /\ (a \o b)[i] = b[i - Len(a)]
<1>. DEFINE c == a \o b
<1>1. /\ c \in Seq(S) /\ Len(a) \in Nat /\ Len(b) \in Nat /\ Len(c) = Len(a) + Len(b)
  BY ConcatProperties, LenProperties
<1>2. \A i \in 1..(Len(a) + Len(b)) :
        c[i] = IF i <= Len(a) THEN a[i] ELSE b[i - Len(a)]
  BY ConcatProperties
<1>. HIDE DEF c
<1>3. c \in [1..Len(c) -> S]
  BY <1>1, ElementOfSeq, LenProperties
<1>4. \A i \in 1..Len(a) : c[i] = a[i]
  BY <1>1, <1>2
<1>5. ASSUME NEW i \in 1..Len(b)
      PROVE  c[i + Len(a)] = b[i]
  <2>1. i + Len(a) \in 1..(Len(a) + Len(b)) /\ ~(i + Len(a) <= Len(a)) /\ (i + Len(a)) - Len(a) = i
    BY <1>1
  <2>. QED
    BY <1>2, <2>1
<1>6. ASSUME NEW i \in (Len(a) + 1)..Len(c)
      PROVE  i - Len(a) \in 1..Len(b) /\ c[i] = b[i - Len(a)]
  BY <1>1, <1>2
<1>. QED
  BY <1>1, <1>3, <1>4, <1>5, <1>6 DEF c

(* A sequence Q with the elements of F, in some order, after it.             *)
LEMMA Appended ==
  ASSUME NEW V, NEW Q \in Seq(V),
         NEW F, IsFiniteSet(F), F \subseteq V, NEW order \in SetToSeqs(F)
  PROVE  /\ Len(Q) \in Nat /\ Len(Q \o order) \in Nat /\ Len(Q) <= Len(Q \o order)
         /\ Q \o order \in [1..Len(Q \o order) -> V]
         /\ \A i \in 1..Len(Q) : (Q \o order)[i] = Q[i]
         /\ \A i \in (Len(Q) + 1)..Len(Q \o order) : (Q \o order)[i] \in F
         /\ \A i, j \in (Len(Q) + 1)..Len(Q \o order) :
              (Q \o order)[i] = (Q \o order)[j] => i = j
         /\ \A e \in F : \E i \in (Len(Q) + 1)..Len(Q \o order) : (Q \o order)[i] = e
<1>. DEFINE R == Q \o order
<1>1. /\ order \in Seq(F)
      /\ \A i, j \in DOMAIN order : order[i] = order[j] => i = j
      /\ \A x \in F : \E i \in DOMAIN order : order[i] = x
  BY Ordered
<1>2. DOMAIN order = 1..Len(order) /\ Len(order) \in Nat
  BY <1>1, LenProperties
<1>3. \A i \in 1..Len(order) : order[i] \in F
  BY <1>1, <1>2, ElementOfSeq
<1>4. order \in Seq(V)
  BY <1>1, SeqMonotonic
<1>5. /\ Len(R) = Len(Q) + Len(order) /\ R \in [1..Len(R) -> V] /\ Len(Q) \in Nat
      /\ \A i \in 1..Len(Q) : R[i] = Q[i]
      /\ \A i \in 1..Len(order) : R[i + Len(Q)] = order[i]
      /\ \A i \in (Len(Q) + 1)..Len(R) :
           i - Len(Q) \in 1..Len(order) /\ R[i] = order[i - Len(Q)]
  BY <1>4, Places
<1>. HIDE DEF R
<1>6. ASSUME NEW x \in F
      PROVE  \E i \in (Len(Q) + 1)..Len(R) : R[i] = x
  <2>1. PICK i \in 1..Len(order) : order[i] = x
    BY <1>1, <1>2
  <2>2. i + Len(Q) \in (Len(Q) + 1)..Len(R) /\ R[i + Len(Q)] = x
    BY <1>2, <1>5, <2>1
  <2>. QED
    BY <2>2
<1>7. ASSUME NEW i \in (Len(Q) + 1)..Len(R), NEW j \in (Len(Q) + 1)..Len(R), R[i] = R[j]
      PROVE  i = j
  <2>1. i - Len(Q) \in 1..Len(order) /\ j - Len(Q) \in 1..Len(order)
    BY <1>5
  <2>2. order[i - Len(Q)] = order[j - Len(Q)]
    BY <1>5, <1>7
  <2>3. i - Len(Q) = j - Len(Q)
    BY <1>1, <1>2, <2>1, <2>2
  <2>. QED
    BY <1>2, <1>5, <2>3
<1>8. \A i \in (Len(Q) + 1)..Len(R) : R[i] \in F
  BY <1>3, <1>5
<1>9. Len(R) \in Nat /\ Len(Q) <= Len(R)
  BY <1>2, <1>5
<1>. QED
  BY <1>5, <1>6, <1>7, <1>8, <1>9 DEF R

(* The first that waits comes after those that are done.                     *)
LEMMA NextPlace ==
  ASSUME NEW V, NEW done \in Seq(V), NEW waiting \in Seq(V), waiting # <<>>
  PROVE  /\ done \o waiting \in Seq(V)
         /\ Len(done) \in Nat /\ Len(done) + 1 \in 1..Len(done \o waiting)
         /\ done \o waiting \in [1..Len(done \o waiting) -> V]
         /\ Head(waiting) = (done \o waiting)[Len(done) + 1]
<1>. DEFINE Q == done \o waiting
<1>1. /\ Q \in Seq(V) /\ Q \in [1..Len(Q) -> V]
      /\ Len(done) \in Nat /\ Len(waiting) \in Nat /\ Len(Q) = Len(done) + Len(waiting)
      /\ \A i \in 1..Len(waiting) : Q[i + Len(done)] = waiting[i]
  BY Places
<1>. HIDE DEF Q
<1>2. Len(waiting) >= 1 /\ Head(waiting) = waiting[1]
  BY EmptySeq
<1>3. 1 \in 1..Len(waiting) /\ 1 + Len(done) = Len(done) + 1
  BY <1>1, <1>2
<1>4. Len(done) + 1 \in 1..Len(Q) /\ Head(waiting) = Q[Len(done) + 1]
  BY <1>1, <1>2, <1>3
<1>. QED
  BY <1>1, <1>4 DEF Q

(* A turn in terms of the places of the vertices in the order of marking:    *)
(* the first that waits is visited, and what is found, which is not marked   *)
(* yet, gets the places after the last.                                      *)
LEMMA TurnPlaces ==
  ASSUME NEW g, IsGraph(g), NEW s \in Search(g), s.waiting # <<>>, NEW t \in TakeNext(g, s)
  PROVE  /\ Len(s.visits) \in Nat /\ Len(Marked(s)) \in Nat /\ Len(Marked(t)) \in Nat
         /\ Marked(s) \in [1..Len(Marked(s)) -> Visit(g)]
         /\ Marked(t) \in [1..Len(Marked(t)) -> Visit(g)]
         /\ Len(s.visits) + 1 \in 1..Len(Marked(s))
         /\ Head(s.waiting) = Marked(s)[Len(s.visits) + 1]
         /\ Len(Marked(s)) <= Len(Marked(t))
         /\ \A i \in 1..Len(Marked(s)) : Marked(t)[i] = Marked(s)[i]
         /\ \A i \in (Len(Marked(s)) + 1)..Len(Marked(t)) : Marked(t)[i] \in Found(g, s)
         /\ \A i, j \in (Len(Marked(s)) + 1)..Len(Marked(t)) :
              Marked(t)[i] = Marked(t)[j] => i = j
         /\ \A e \in Found(g, s) :
              \E i \in (Len(Marked(s)) + 1)..Len(Marked(t)) : Marked(t)[i] = e
         /\ Len(t.visits) = Len(s.visits) + 1
         /\ t.visited = s.visited \cup {e.vertex : e \in Found(g, s)}
<1>1. PICK order \in SetToSeqs(Found(g, s)) :
        /\ t.visits = Append(s.visits, Head(s.waiting))
        /\ t.visited = s.visited \cup {e.vertex : e \in Found(g, s)}
        /\ Marked(t) = Marked(s) \o order
  BY TurnTakes
<1>. DEFINE V == Visit(g)
            F == Found(g, s)
            Q == Marked(s)
            done == s.visits
            waiting == s.waiting
<1>2. waiting \in Seq(V) /\ done \in Seq(V) /\ Head(waiting) \in V
  BY HeadTailProperties DEF Search
<1>3. Len(t.visits) = Len(done) + 1
  BY <1>1, <1>2, AppendProperties
<1>4. Q = done \o waiting /\ Marked(t) = Q \o order
  BY <1>1 DEF Marked
<1>5. IsFiniteSet(F) /\ F \subseteq V /\ order \in SetToSeqs(F) /\ waiting # <<>>
  BY <1>1, FoundFinite
<1>. HIDE DEF V, F, Q, done, waiting
<1>6. /\ done \o waiting \in Seq(V)
      /\ Len(done) \in Nat /\ Len(done) + 1 \in 1..Len(done \o waiting)
      /\ done \o waiting \in [1..Len(done \o waiting) -> V]
      /\ Head(waiting) = (done \o waiting)[Len(done) + 1]
  BY <1>2, <1>5, NextPlace
<1>7. /\ Q \in Seq(V) /\ Len(done) \in Nat /\ Len(done) + 1 \in 1..Len(Q)
      /\ Q \in [1..Len(Q) -> V] /\ Head(waiting) = Q[Len(done) + 1]
  BY <1>4, <1>6
<1>8. /\ Len(Q) \in Nat /\ Len(Q \o order) \in Nat /\ Len(Q) <= Len(Q \o order)
      /\ Q \o order \in [1..Len(Q \o order) -> V]
      /\ \A i \in 1..Len(Q) : (Q \o order)[i] = Q[i]
      /\ \A i \in (Len(Q) + 1)..Len(Q \o order) : (Q \o order)[i] \in F
      /\ \A i, j \in (Len(Q) + 1)..Len(Q \o order) :
           (Q \o order)[i] = (Q \o order)[j] => i = j
      /\ \A e \in F : \E i \in (Len(Q) + 1)..Len(Q \o order) : (Q \o order)[i] = e
  BY <1>5, <1>7, Appended
<1>9. t.visited = s.visited \cup {e.vertex : e \in F}
  BY <1>1 DEF F
<1>10. /\ Len(Marked(t)) \in Nat /\ Len(Q) <= Len(Marked(t))
       /\ Marked(t) \in [1..Len(Marked(t)) -> V]
       /\ \A i \in 1..Len(Q) : Marked(t)[i] = Q[i]
       /\ \A i \in (Len(Q) + 1)..Len(Marked(t)) : Marked(t)[i] \in F
       /\ \A i, j \in (Len(Q) + 1)..Len(Marked(t)) : Marked(t)[i] = Marked(t)[j] => i = j
       /\ \A e \in F : \E i \in (Len(Q) + 1)..Len(Marked(t)) : Marked(t)[i] = e
  <2>. DEFINE R == Q \o order
  <2>1. Marked(t) = R
    BY <1>4
  <2>2. /\ Len(R) \in Nat /\ Len(Q) <= Len(R)
        /\ R \in [1..Len(R) -> V]
        /\ \A i \in 1..Len(Q) : R[i] = Q[i]
        /\ \A i \in (Len(Q) + 1)..Len(R) : R[i] \in F
        /\ \A i, j \in (Len(Q) + 1)..Len(R) : R[i] = R[j] => i = j
        /\ \A e \in F : \E i \in (Len(Q) + 1)..Len(R) : R[i] = e
    BY <1>8
  <2>. HIDE DEF R
  <2>. QED
    BY <2>1, <2>2
<1>11. Len(Q) \in Nat
  BY <1>8
<1>. USE DEF V, F, Q, done, waiting
<1>. QED
  BY <1>3, <1>7, <1>9, <1>10, <1>11, Zenon

(* What is found: an adjacent vertex that is not marked, with its edge.      *)
EdgeFrom(g, visited, h, e) ==
  /\ e.vertex \in Adjacent(g, h) /\ e.vertex \notin visited
  /\ e.via = g.edge[<<h, e.vertex>>] /\ e.via # "none"
  /\ e = [vertex |-> e.vertex, via |-> g.edge[<<h, e.vertex>>]]

(* What a turn finds is led to by edges from the vertex it takes.            *)
LEMMA FoundEdges ==
  ASSUME NEW g, NEW s
  PROVE  \A e \in Found(g, s) : EdgeFrom(g, s.visited, Head(s.waiting).vertex, e)
<1>. DEFINE h == Head(s.waiting).vertex
<1>1. SUFFICES ASSUME NEW e \in Found(g, s)
               PROVE  EdgeFrom(g, s.visited, h, e)
  OBVIOUS
<1>2. PICK w \in Adjacent(g, h) \ s.visited : e = [vertex |-> w, via |-> g.edge[<<h, w>>]]
  BY DEF Found
<1>3. e.vertex = w /\ e.via = g.edge[<<h, w>>]
  BY <1>2
<1>4. g.edge[<<h, w>>] # "none"
  BY <1>2 DEF Adjacent
<1>. QED
  BY <1>2, <1>3, <1>4 DEF EdgeFrom

-----------------------------------------------------------------------------
(* What holds of a search in g from v after every turn.                      *)

(* The vertices marked are those visited or waiting, each once.              *)
Listed(s) ==
  /\ s.visited = {Marked(s)[i].vertex : i \in 1..Len(Marked(s))}
  /\ \A i, j \in 1..Len(Marked(s)) : Marked(s)[i].vertex = Marked(s)[j].vertex => i = j

(* What is adjacent to a visited vertex is marked.                           *)
Explored(g, s) ==
  \A i \in 1..Len(s.visits) : Adjacent(g, Marked(s)[i].vertex) \subseteq s.visited

(* The first is v, and an edge from one that can be reached led to each of   *)
(* the others: the edge from v, where there is one.                          *)
Led(g, v, s) ==
  /\ Len(Marked(s)) >= 1 /\ Marked(s)[1] = [vertex |-> v, via |-> "none"]
  /\ Len(s.visits) = 0 => Len(Marked(s)) = 1
  /\ \A j \in 1..Len(Marked(s)) : Marked(s)[j].vertex \in Reachable(g, v)
  /\ \A j \in 2..Len(Marked(s)) :
       /\ Marked(s)[j].via # "none"
       /\ \E u \in Reachable(g, v) : Marked(s)[j].via = g.edge[<<u, Marked(s)[j].vertex>>]
       /\ Len(s.visits) > 0 /\ Marked(s)[j].vertex \in Adjacent(g, v)
            => Marked(s)[j].via = g.edge[<<v, Marked(s)[j].vertex>>]

(* The nearer vertices come first, and none is more than an edge further     *)
(* away than the next that is visited.                                       *)
Nearer(g, v, s) ==
  /\ \A i, j \in 1..Len(Marked(s)) : \A n \in 0..Cardinality(g.vertices) :
       i < j /\ Marked(s)[j].vertex \in Within(g, v)[n] => Marked(s)[i].vertex \in Within(g, v)[n]
  /\ \A j \in 1..Len(Marked(s)) : \A n \in 1..Cardinality(g.vertices) :
       Len(s.visits) + 1 <= Len(Marked(s))
       /\ Marked(s)[Len(s.visits) + 1].vertex \in Within(g, v)[n - 1]
         => Marked(s)[j].vertex \in Within(g, v)[n]

(* A turn marks the adjacent vertices that are not marked, after the others. *)
LEMMA ListedStep ==
  ASSUME NEW g, IsGraph(g), NEW s \in Search(g), s.waiting # <<>>, NEW t \in TakeNext(g, s),
         Listed(s)
  PROVE  Listed(t)
<1>. DEFINE Q == Marked(s)
            R == Marked(t)
            F == Found(g, s)
            m == Len(Marked(s))
            n == Len(Marked(t))
            old == s.visited
            new == t.visited
<1>1. /\ m \in Nat /\ n \in Nat /\ m <= n
      /\ \A i \in 1..m : R[i] = Q[i]
      /\ \A i \in (m + 1)..n : R[i] \in F
      /\ \A i, j \in (m + 1)..n : R[i] = R[j] => i = j
      /\ \A e \in F : \E i \in (m + 1)..n : R[i] = e
      /\ new = old \cup {e.vertex : e \in F}
  BY TurnPlaces
<1>2. /\ old = {Q[i].vertex : i \in 1..m}
      /\ \A i, j \in 1..m : Q[i].vertex = Q[j].vertex => i = j
  BY DEF Listed
<1>3. \A e \in F : e.vertex \notin old
  <2>1. \A e \in F : EdgeFrom(g, old, Head(s.waiting).vertex, e)
    BY FoundEdges
  <2>. HIDE DEF F, old
  <2>. QED
    BY <2>1 DEF EdgeFrom
<1>4. \A e, f \in F : e.vertex = f.vertex => e = f
  <2>. DEFINE h == Head(s.waiting).vertex
  <2>1. \A e \in F : EdgeFrom(g, old, h, e)
    BY FoundEdges
  <2>. HIDE DEF F, old, h
  <2>. QED
    BY <2>1 DEF EdgeFrom
<1>. HIDE DEF Q, R, F, m, n, old, new
<1>5. new = {R[i].vertex : i \in 1..n}
  <2>1. ASSUME NEW x \in new
        PROVE  \E i \in 1..n : x = R[i].vertex
    <3>1. CASE x \in old
      BY <1>1, <1>2, <3>1
    <3>2. CASE x \notin old
      <4>1. PICK e \in F : x = e.vertex
        BY <1>1, <3>2
      <4>2. PICK i \in (m + 1)..n : R[i] = e
        BY <1>1
      <4>. QED
        BY <1>1, <4>1, <4>2
    <3>. QED
      BY <3>1, <3>2
  <2>2. ASSUME NEW i \in 1..n
        PROVE  R[i].vertex \in new
    <3>1. CASE i \in 1..m
      BY <1>1, <1>2, <3>1
    <3>2. CASE i \in (m + 1)..n
      BY <1>1, <3>2
    <3>. QED
      BY <1>1, <3>1, <3>2
  <2>. QED
    BY <2>1, <2>2
<1>6. ASSUME NEW i \in 1..n, NEW j \in 1..n, R[i].vertex = R[j].vertex
      PROVE  i = j
  <2>1. CASE i \in 1..m /\ j \in 1..m
    BY <1>1, <1>2, <1>6, <2>1
  <2>2. CASE i \in (m + 1)..n /\ j \in (m + 1)..n
    BY <1>1, <1>4, <1>6, <2>2
  <2>3. ASSUME NEW a \in 1..m, NEW b \in (m + 1)..n
        PROVE  R[a].vertex # R[b].vertex
    <3>1. R[a].vertex \in old
      BY <1>1, <1>2
    <3>2. R[b].vertex \notin old
      BY <1>1, <1>3
    <3>. QED
      BY <3>1, <3>2
  <2>. QED
    BY <1>1, <1>6, <2>1, <2>2, <2>3
<1>. QED
  BY <1>5, <1>6 DEF Listed, R, n, new

(* All that is adjacent to the vertex visited is marked then.                *)
LEMMA ExploredStep ==
  ASSUME NEW g, IsGraph(g), NEW s \in Search(g), s.waiting # <<>>, NEW t \in TakeNext(g, s),
         Explored(g, s)
  PROVE  Explored(g, t)
<1>. DEFINE Q == Marked(s)
            R == Marked(t)
            k == Len(s.visits)
            m == Len(Marked(s))
            h == Head(s.waiting).vertex
<1>1. /\ k \in Nat /\ m \in Nat /\ k + 1 \in 1..m /\ Len(t.visits) = k + 1
      /\ Head(s.waiting) = Q[k + 1]
      /\ \A i \in 1..m : R[i] = Q[i]
      /\ t.visited = s.visited \cup {e.vertex : e \in Found(g, s)}
  BY TurnPlaces
<1>2. \A i \in 1..k : Adjacent(g, Q[i].vertex) \subseteq s.visited
  BY DEF Explored
<1>3. Adjacent(g, h) \subseteq t.visited
  <2>1. ASSUME NEW w \in Adjacent(g, h), w \notin s.visited
        PROVE  w \in {e.vertex : e \in Found(g, s)}
    <3>1. [vertex |-> w, via |-> g.edge[<<h, w>>]] \in Found(g, s)
      BY <2>1 DEF Found
    <3>. QED
      BY <3>1
  <2>. QED
    BY <1>1, <2>1
<1>4. h = Q[k + 1].vertex
  BY <1>1
<1>. HIDE DEF Q, R, k, m, h
<1>5. ASSUME NEW i \in 1..(k + 1)
      PROVE  Adjacent(g, R[i].vertex) \subseteq t.visited
  <2>1. CASE i = k + 1
    BY <1>1, <1>3, <1>4, <2>1
  <2>2. CASE i # k + 1
    <3>1. i \in 1..k /\ i \in 1..m
      BY <1>1, <2>2
    <3>. QED
      BY <1>1, <1>2, <3>1
  <2>. QED
    BY <2>1, <2>2
<1>. QED
  BY <1>1, <1>5 DEF Explored, R, k

(* Reachable has v, and with a vertex those adjacent to it.                  *)
LEMMA ReachableClosed ==
  ASSUME NEW g, NEW v \in g.vertices
  PROVE  /\ v \in Reachable(g, v)
         /\ \A u \in Reachable(g, v) : Adjacent(g, u) \subseteq Reachable(g, v)
         /\ Reachable(g, v) \subseteq g.vertices
<1>1. v \in Reachable(g, v) /\ Reachable(g, v) \subseteq g.vertices
  BY DEF Reachable
<1>2. ASSUME NEW u \in Reachable(g, v), NEW w \in Adjacent(g, u)
      PROVE  w \in Reachable(g, v)
  <2>1. w \in g.vertices
    BY <1>2 DEF Adjacent
  <2>2. ASSUME NEW S \in SUBSET g.vertices, v \in S, \A x \in S : Adjacent(g, x) \subseteq S
        PROVE  w \in S
    <3>1. u \in S
      BY <2>2 DEF Reachable
    <3>. QED
      BY <2>2, <3>1
  <2>. QED
    BY <2>1, <2>2 DEF Reachable
<1>. QED
  BY <1>1, <1>2

(* The edge that led to what is found is one from the vertex visited; what   *)
(* is adjacent to v is found in the first turn or was marked by it.          *)
LEMMA LedStep ==
  ASSUME NEW g, IsGraph(g), NEW v \in g.vertices,
         NEW s \in Search(g), s.waiting # <<>>, NEW t \in TakeNext(g, s),
         Explored(g, s), Led(g, v, s)
  PROVE  Led(g, v, t)
<1>. DEFINE Q == Marked(s)
            R == Marked(t)
            k == Len(s.visits)
            m == Len(Marked(s))
            n == Len(Marked(t))
            h == Head(s.waiting).vertex
            V == Reachable(g, v)
            F == Found(g, s)
<1>1. /\ k \in Nat /\ m \in Nat /\ n \in Nat /\ m <= n
      /\ k + 1 \in 1..m /\ Len(t.visits) = k + 1
      /\ Head(s.waiting) = Q[k + 1]
      /\ \A i \in 1..m : R[i] = Q[i]
      /\ \A i \in (m + 1)..n : R[i] \in F
  BY TurnPlaces
<1>2. /\ m >= 1 /\ Q[1] = [vertex |-> v, via |-> "none"]
      /\ k = 0 => m = 1
      /\ \A j \in 1..m : Q[j].vertex \in V
      /\ \A j \in 2..m :
           /\ Q[j].via # "none"
           /\ \E u \in V : Q[j].via = g.edge[<<u, Q[j].vertex>>]
           /\ k > 0 /\ Q[j].vertex \in Adjacent(g, v) => Q[j].via = g.edge[<<v, Q[j].vertex>>]
  BY DEF Led
<1>3. \A e \in F : /\ e.vertex \in Adjacent(g, h) /\ e.vertex \notin s.visited
                   /\ e.via = g.edge[<<h, e.vertex>>] /\ e.via # "none"
  <2>1. \A e \in F : EdgeFrom(g, s.visited, h, e)
    BY FoundEdges
  <2>. HIDE DEF F, h
  <2>. QED
    BY <2>1 DEF EdgeFrom
<1>4. h = Q[k + 1].vertex
  BY <1>1
<1>5. \A u \in V : Adjacent(g, u) \subseteq V
  BY ReachableClosed
<1>6. \A i \in 1..k : Adjacent(g, Q[i].vertex) \subseteq s.visited
  BY DEF Explored
<1>. HIDE DEF Q, R, k, m, n, h, V, F
<1>7. h \in V
  BY <1>1, <1>2, <1>4
<1>8. n >= 1 /\ R[1] = [vertex |-> v, via |-> "none"]
  BY <1>1, <1>2
<1>9. ASSUME NEW j \in (m + 1)..n
      PROVE  /\ R[j].vertex \in V /\ R[j].via # "none"
             /\ \E u \in V : R[j].via = g.edge[<<u, R[j].vertex>>]
             /\ R[j].vertex \in Adjacent(g, v) => R[j].via = g.edge[<<v, R[j].vertex>>]
  <2>1. /\ R[j].vertex \in Adjacent(g, h) /\ R[j].vertex \notin s.visited
        /\ R[j].via = g.edge[<<h, R[j].vertex>>] /\ R[j].via # "none"
    BY <1>1, <1>3
  <2>2. R[j].vertex \in V
    BY <1>5, <1>7, <2>1
  <2>3. \E u \in V : R[j].via = g.edge[<<u, R[j].vertex>>]
    BY <1>7, <2>1
  <2>4. ASSUME R[j].vertex \in Adjacent(g, v)
        PROVE  R[j].via = g.edge[<<v, R[j].vertex>>]
    <3>1. CASE k = 0
      <4>1. h = v
        BY <1>2, <1>4, <3>1
      <4>. QED
        BY <2>1, <4>1
    <3>2. CASE k # 0
      <4>1. 1 \in 1..k /\ Q[1].vertex = v
        BY <1>1, <1>2, <3>2
      <4>2. R[j].vertex \in s.visited
        BY <1>6, <2>4, <4>1
      <4>. QED
        BY <2>1, <4>2
    <3>. QED
      BY <3>1, <3>2
  <2>. QED
    BY <2>1, <2>2, <2>3, <2>4
<1>10. ASSUME NEW j \in 1..n
       PROVE  R[j].vertex \in V
  <2>1. CASE j \in (m + 1)..n
    BY <1>9, <2>1
  <2>2. CASE j \in 1..m
    BY <1>1, <1>2, <2>2
  <2>. QED
    BY <1>1, <2>1, <2>2
<1>11. ASSUME NEW j \in 2..n
       PROVE  /\ R[j].via # "none"
              /\ \E u \in V : R[j].via = g.edge[<<u, R[j].vertex>>]
              /\ R[j].vertex \in Adjacent(g, v) => R[j].via = g.edge[<<v, R[j].vertex>>]
  <2>1. CASE j \in (m + 1)..n
    BY <1>9, <2>1
  <2>2. CASE j \in 2..m
    <3>1. R[j] = Q[j]
      BY <1>1, <2>2
    <3>2. /\ Q[j].via # "none"
          /\ \E u \in V : Q[j].via = g.edge[<<u, Q[j].vertex>>]
          /\ k > 0 /\ Q[j].vertex \in Adjacent(g, v) => Q[j].via = g.edge[<<v, Q[j].vertex>>]
      BY <1>2, <2>2
    <3>3. k > 0
      <4>1. k = 0 => m = 1
        BY <1>2
      <4>. QED
        BY <1>1, <2>2, <4>1
    <3>. QED
      BY <3>1, <3>2, <3>3
  <2>. QED
    BY <1>1, <2>1, <2>2
<1>. QED
  <2>1. Len(t.visits) # 0
    BY <1>1
  <2>. QED
    BY <1>8, <1>10, <1>11, <2>1 DEF Led, R, n, V

(* The recursive definition of what is within so many edges has a solution.  *)
LEMMA WithinStep ==
  ASSUME NEW g, IsGraph(g), NEW v \in g.vertices
  PROVE  /\ Within(g, v)[0] = {v}
         /\ \A n \in 1..Cardinality(g.vertices) :
              Within(g, v)[n] =
                Within(g, v)[n - 1] \cup UNION {Adjacent(g, u) : u \in Within(g, v)[n - 1]}
<1>. DEFINE C == Cardinality(g.vertices)
            X == SUBSET g.vertices
            further(S) == S \cup UNION {Adjacent(g, u) : u \in S}
            step == [S \in X |-> further(S)]
            Is(f) == f = [n \in 0..C |-> IF n = 0 THEN {v} ELSE further(f[n - 1])]
<1>1. C \in Nat
  BY FS_CardinalityType DEF IsGraph
<1>2. step \in [X -> X]
  BY DEF Adjacent
<1>3. PICK f \in [0..C -> X] : f = [n \in 0..C |-> IF n = 0 THEN {v} ELSE step[f[n - 1]]]
  <2>. DEFINE start == {v}
  <2>1. start \in X
    OBVIOUS
  <2>. HIDE DEF X, step, C, start, further, Is
  <2>2. \E f \in [0..C -> X] : f = [n \in 0..C |-> IF n = 0 THEN start ELSE step[f[n - 1]]]
    BY <1>1, <2>1, <1>2, Recursion
  <2>. QED
    BY <2>2 DEF start
<1>4. ASSUME NEW n \in 0..C
      PROVE  f[n] = IF n = 0 THEN {v} ELSE further(f[n - 1])
  <2>1. CASE n = 0
    BY <1>3, <2>1
  <2>2. CASE n # 0
    <3>1. f[n] = step[f[n - 1]]
      <4>. HIDE DEF step
      <4>. QED
        BY <1>3, <2>2
    <3>2. f[n - 1] \in X
      BY <1>1, <2>2
    <3>. HIDE DEF further
    <3>. QED
      BY <2>2, <3>1, <3>2
  <2>. QED
    BY <2>1, <2>2
<1>5. f = [n \in 0..C |-> IF n = 0 THEN {v} ELSE further(f[n - 1])]
  <2>1. f = [n \in 0..C |-> f[n]]
    OBVIOUS
  <2>. QED
    BY <1>4, <2>1
<1>6. Within(g, v) = CHOOSE h : Is(h)
  BY DEF Within
<1>7. Is(Within(g, v))
  <2>1. Is(f)
    BY <1>5
  <2>. HIDE DEF Is
  <2>. QED
    BY <2>1, <1>6
<1>8. ASSUME NEW n \in 0..C
      PROVE  Within(g, v)[n] = IF n = 0 THEN {v} ELSE further(Within(g, v)[n - 1])
  BY <1>7
<1>9. Within(g, v)[0] = {v}
  <2>1. 0 \in 0..C
    BY <1>1
  <2>. HIDE DEF C
  <2>. QED
    BY <1>8, <2>1
<1>10. ASSUME NEW n \in 1..C
       PROVE  Within(g, v)[n] = further(Within(g, v)[n - 1])
  <2>. HIDE DEF C
  <2>1. n \in 0..C /\ n # 0
    BY <1>1
  <2>. HIDE DEF further
  <2>. QED
    BY <1>8, <2>1
<1>. QED
  BY <1>9, <1>10

(* What is within n edges is within any larger number of them.               *)
LEMMA WithinGrows ==
  ASSUME NEW g, IsGraph(g), NEW v \in g.vertices,
         NEW m \in 0..Cardinality(g.vertices), NEW n \in m..Cardinality(g.vertices)
  PROVE  Within(g, v)[m] \subseteq Within(g, v)[n]
<1>. DEFINE C == Cardinality(g.vertices)
            W == Within(g, v)
            d == n - m
            P == {k \in 0..d : W[m] \subseteq W[m + k]}
<1>1. C \in Nat
  BY FS_CardinalityType DEF IsGraph
<1>2. \A k \in 1..C : W[k - 1] \subseteq W[k]
  BY WithinStep
<1>. HIDE DEF C, W
<1>3. d \in Nat /\ m + d = n /\ m \in Nat /\ n \in Nat /\ n <= C
  BY <1>1 DEF C
<1>. HIDE DEF d
<1>4. 0 \in P
  BY <1>3
<1>5. ASSUME NEW k \in 1..d, k - 1 \in P
      PROVE  k \in P
  <2>1. m + k \in 1..C /\ (m + k) - 1 = m + (k - 1)
    BY <1>1, <1>3
  <2>2. W[m + (k - 1)] \subseteq W[m + k]
    BY <1>2, <2>1
  <2>3. W[m] \subseteq W[m + (k - 1)]
    BY <1>5
  <2>. QED
    BY <2>2, <2>3
<1>6. 0..d \subseteq P
  <2>. HIDE DEF P
  <2>. QED
    BY <1>3, <1>4, <1>5, UpTo
<1>7. d \in P
  BY <1>3, <1>6
<1>8. W[m] \subseteq W[m + d]
  BY <1>7
<1>. QED
  BY <1>3, <1>8 DEF W

(* A vertex that is not marked is an edge further away than the next that is *)
(* visited: a nearest such vertex is adjacent to a marked one, which waits.  *)
LEMMA Frontier ==
  ASSUME NEW g, IsGraph(g), NEW v \in g.vertices,
         NEW s \in Search(g), Len(s.visits) + 1 \in 1..Len(Marked(s)),
         Listed(s), Explored(g, s), Led(g, v, s), Nearer(g, v, s),
         NEW n \in 0..Cardinality(g.vertices), NEW w \in Within(g, v)[n], w \notin s.visited
  PROVE  n >= 1 /\ Marked(s)[Len(s.visits) + 1].vertex \in Within(g, v)[n - 1]
<1>. DEFINE C == Cardinality(g.vertices)
            W == Within(g, v)
            Q == Marked(s)
            k == Len(s.visits)
            T == {i \in 0..C : \E x \in W[i] : x \notin s.visited}
<1>1. C \in Nat /\ k \in Nat /\ Len(Q) \in Nat
  <2>1. C \in Nat
    BY FS_CardinalityType DEF IsGraph
  <2>2. s.visits \in Seq(Visit(g)) /\ s.waiting \in Seq(Visit(g))
    BY DEF Search
  <2>3. Marked(s) \in Seq(Visit(g))
    BY <2>2, ConcatProperties DEF Marked
  <2>. QED
    BY <2>1, <2>2, <2>3, LenProperties
<1>2. PICK m \in T : \A i \in T : m <= i
  <2>1. T \subseteq Nat /\ T # {}
    OBVIOUS
  <2>. HIDE DEF T
  <2>. QED
    BY <2>1, Least
<1>3. PICK x \in W[m] : x \notin s.visited
  BY <1>2
<1>4. /\ W[0] = {v}
      /\ \A i \in 1..C : W[i] = W[i - 1] \cup UNION {Adjacent(g, u) : u \in W[i - 1]}
  BY WithinStep
<1>5. /\ s.visited = {Q[i].vertex : i \in 1..Len(Q)}
      /\ \A i \in 1..k : Adjacent(g, Q[i].vertex) \subseteq s.visited
      /\ k + 1 \in 1..Len(Q) /\ Len(Q) >= 1 /\ Q[1].vertex = v
      /\ \A i, j \in 1..Len(Q) : \A a \in 0..C :
           i < j /\ Q[j].vertex \in W[a] => Q[i].vertex \in W[a]
  <2>1. s.visited = {Q[i].vertex : i \in 1..Len(Q)}
    BY DEF Listed
  <2>2. \A i \in 1..k : Adjacent(g, Q[i].vertex) \subseteq s.visited
    BY DEF Explored
  <2>3. Len(Q) >= 1 /\ Q[1].vertex = v
    BY DEF Led
  <2>4. \A i, j \in 1..Len(Q) : \A a \in 0..C :
          i < j /\ Q[j].vertex \in W[a] => Q[i].vertex \in W[a]
    BY DEF Nearer
  <2>5. k + 1 \in 1..Len(Q)
    OBVIOUS
  <2>. QED
    BY <2>1, <2>2, <2>3, <2>4, <2>5
<1>. HIDE DEF C, W, Q, k
<1>6. m \in 1..C
  <2>1. v \in s.visited
    BY <1>1, <1>5
  <2>2. m # 0
    BY <1>3, <1>4, <2>1
  <2>. QED
    BY <1>1, <2>2
<1>7. W[m - 1] \subseteq s.visited
  <2>1. m - 1 \in 0..C /\ m - 1 \notin T
    BY <1>1, <1>2, <1>6
  <2>. QED
    BY <2>1
<1>8. PICK u \in W[m - 1] : x \in Adjacent(g, u)
  BY <1>3, <1>4, <1>6, <1>7
<1>9. PICK i \in 1..Len(Q) : u = Q[i].vertex
  BY <1>5, <1>7
<1>10. i >= k + 1
  <2>1. i \notin 1..k
    BY <1>3, <1>5, <1>8, <1>9
  <2>. QED
    BY <1>1, <2>1
<1>11. Q[k + 1].vertex \in W[m - 1]
  <2>1. CASE i = k + 1
    BY <1>8, <1>9, <2>1
  <2>2. CASE i # k + 1
    <3>1. k + 1 < i /\ m - 1 \in 0..C
      BY <1>1, <1>6, <1>10, <2>2
    <3>. QED
      BY <1>5, <1>8, <1>9, <3>1
  <2>. QED
    BY <2>1, <2>2
<1>12. m <= n
  <2>1. n \in T
    BY DEF C, W
  <2>. QED
    BY <1>2, <2>1
<1>13. n >= 1 /\ m - 1 \in 0..C /\ n - 1 \in (m - 1)..C
  <2>1. n \in 0..C
    BY DEF C
  <2>. QED
    BY <1>1, <1>6, <1>12, <2>1
<1>14. W[m - 1] \subseteq W[n - 1]
  <2>. DEFINE a == m - 1
              b == n - 1
  <2>1. a \in 0..C /\ b \in a..C
    BY <1>13
  <2>. HIDE DEF a, b
  <2>2. W[a] \subseteq W[b]
    BY <2>1, WithinGrows DEF C, W
  <2>. QED
    BY <2>2 DEF a, b
<1>. QED
  BY <1>11, <1>13, <1>14 DEF Q, W, k

(* So what a turn finds is no nearer than what is marked, and all of it is   *)
(* equally far away.                                                         *)
LEMMA NearerStep ==
  ASSUME NEW g, IsGraph(g), NEW v \in g.vertices,
         NEW s \in Search(g), s.waiting # <<>>, NEW t \in TakeNext(g, s),
         Listed(s), Explored(g, s), Led(g, v, s), Nearer(g, v, s)
  PROVE  Nearer(g, v, t)
<1>. DEFINE C == Cardinality(g.vertices)
            W == Within(g, v)
            Q == Marked(s)
            R == Marked(t)
            k == Len(s.visits)
            m == Len(Marked(s))
            l == Len(Marked(t))
            h == Head(s.waiting).vertex
            F == Found(g, s)
<1>1. /\ k \in Nat /\ m \in Nat /\ l \in Nat /\ m <= l
      /\ k + 1 \in 1..m /\ Len(t.visits) = k + 1
      /\ Head(s.waiting) = Q[k + 1]
      /\ \A i \in 1..m : R[i] = Q[i]
      /\ \A i \in (m + 1)..l : R[i] \in F
  BY TurnPlaces
<1>2. \A e \in F : e.vertex \in Adjacent(g, h) /\ e.vertex \notin s.visited
  <2>1. \A e \in F : EdgeFrom(g, s.visited, h, e)
    BY FoundEdges
  <2>. HIDE DEF F, h
  <2>. QED
    BY <2>1 DEF EdgeFrom
<1>3. C \in Nat
  BY FS_CardinalityType DEF IsGraph
<1>4. \A n \in 1..C : W[n] = W[n - 1] \cup UNION {Adjacent(g, u) : u \in W[n - 1]}
  BY WithinStep
<1>5. h = Q[k + 1].vertex
  BY <1>1
<1>6. ASSUME NEW n \in 0..C, NEW w \in W[n], w \notin s.visited
      PROVE  n >= 1 /\ h \in W[n - 1]
  BY <1>1, <1>5, <1>6, Frontier
<1>7. /\ \A i, j \in 1..m : \A n \in 0..C :
           i < j /\ Q[j].vertex \in W[n] => Q[i].vertex \in W[n]
      /\ \A j \in 1..m : \A n \in 1..C :
           k + 1 <= m /\ Q[k + 1].vertex \in W[n - 1] => Q[j].vertex \in W[n]
  BY DEF Nearer
<1>. HIDE DEF C, W, Q, R, k, m, l, h, F
<1>8. ASSUME NEW n \in 1..C, h \in W[n - 1], NEW j \in 1..l
      PROVE  R[j].vertex \in W[n]
  <2>1. CASE j \in 1..m
    <3>1. k + 1 <= m /\ Q[k + 1].vertex \in W[n - 1]
      BY <1>1, <1>5, <1>8
    <3>2. Q[j].vertex \in W[n]
      BY <1>7, <2>1, <3>1
    <3>. QED
      BY <1>1, <2>1, <3>2
  <2>2. CASE j \in (m + 1)..l
    <3>1. R[j].vertex \in Adjacent(g, h)
      BY <1>1, <1>2, <2>2
    <3>. QED
      BY <1>4, <1>8, <3>1
  <2>. QED
    BY <1>1, <2>1, <2>2
<1>9. ASSUME NEW i \in 1..l, NEW j \in 1..l, NEW n \in 0..C,
             i < j, R[j].vertex \in W[n]
      PROVE  R[i].vertex \in W[n]
  <2>1. CASE j \in 1..m
    <3>1. i \in 1..m /\ R[i] = Q[i] /\ R[j] = Q[j]
      BY <1>1, <1>9, <2>1
    <3>. QED
      BY <1>7, <1>9, <2>1, <3>1
  <2>2. CASE j \in (m + 1)..l
    <3>1. R[j].vertex \notin s.visited
      BY <1>1, <1>2, <2>2
    <3>2. n >= 1 /\ h \in W[n - 1]
      BY <1>6, <1>9, <3>1
    <3>. QED
      BY <1>3, <1>8, <3>2
  <2>. QED
    BY <1>1, <2>1, <2>2
<1>10. ASSUME NEW j \in 1..l, NEW n \in 1..C,
              Len(t.visits) + 1 <= l, R[Len(t.visits) + 1].vertex \in W[n - 1]
       PROVE  R[j].vertex \in W[n]
  <2>1. k + 1 \in 1..l /\ k + 2 \in 1..l /\ k + 1 < k + 2 /\ n - 1 \in 0..C
        /\ Len(t.visits) + 1 = k + 2
    BY <1>1, <1>3, <1>10
  <2>2. R[k + 1].vertex \in W[n - 1]
    BY <1>9, <1>10, <2>1
  <2>3. h \in W[n - 1]
    BY <1>1, <1>5, <2>2
  <2>. QED
    BY <1>8, <2>3
<1>. QED
  BY <1>9, <1>10 DEF Nearer, C, W, R, l

-----------------------------------------------------------------------------
(* So all of it holds after every number of turns, and a search that still   *)
(* has vertices waiting has visited one in every turn.                       *)
SearchInv(g, v, s) == Listed(s) /\ Explored(g, s) /\ Led(g, v, s) /\ Nearer(g, v, s)

(* The search as it starts.                                                  *)
LEMMA StartInv ==
  ASSUME NEW g, IsGraph(g), NEW v \in g.vertices
  PROVE  SearchInv(g, v, Start(v)) /\ Len(Start(v).visits) = 0
<1>. DEFINE s == Start(v)
            first == [vertex |-> v, via |-> "none"]
            Q == Marked(s)
            C == Cardinality(g.vertices)
<1>1. s.visited = {v} /\ s.visits = <<>> /\ Len(s.visits) = 0 /\ Q = <<first>>
  BY DEF Start, Marked
<1>. HIDE DEF s, Q, first
<1>2. Len(Q) = 1 /\ Q[1] = first
  BY <1>1
<1>3. first.vertex = v
  BY DEF first
<1>4. Listed(s)
  BY <1>1, <1>2, <1>3 DEF Listed, Q
<1>5. Explored(g, s)
  BY <1>1 DEF Explored
<1>6. Led(g, v, s)
  BY <1>1, <1>2, <1>3, ReachableClosed DEF Led, Q, first
<1>7. Nearer(g, v, s)
  <2>1. C \in Nat
    BY FS_CardinalityType DEF IsGraph
  <2>2. ASSUME NEW n \in 1..C, v \in Within(g, v)[n - 1]
        PROVE  v \in Within(g, v)[n]
    BY <2>2, WithinStep
  <2>. QED
    BY <1>1, <1>2, <1>3, <2>1, <2>2 DEF Nearer, Q
<1>. QED
  BY <1>1, <1>4, <1>5, <1>6, <1>7 DEF SearchInv, s

(* The search after another turn.                                            *)
LEMMA TurnInv ==
  ASSUME NEW g, IsGraph(g), NEW v \in g.vertices,
         NEW s \in Search(g), SearchInv(g, v, s), NEW t \in Turn(g, s)
  PROVE  SearchInv(g, v, t)
<1>1. CASE s.waiting = <<>>
  <2>1. t = s
    BY <1>1 DEF Turn
  <2>. QED
    BY <2>1
<1>2. CASE s.waiting # <<>>
  <2>1. t \in TakeNext(g, s)
    BY <1>2 DEF Turn
  <2>2. Listed(s) /\ Explored(g, s) /\ Led(g, v, s) /\ Nearer(g, v, s)
    BY DEF SearchInv
  <2>3. Listed(t) /\ Explored(g, t) /\ Led(g, v, t) /\ Nearer(g, v, t)
    BY <1>2, <2>1, <2>2, ListedStep, ExploredStep, LedStep, NearerStep
  <2>. QED
    BY <2>3 DEF SearchInv
<1>. QED
  BY <1>1, <1>2

(* The searches after n turns; one that is not over has taken n of them.     *)
LEMMA AfterTurns ==
  ASSUME NEW g, IsGraph(g), NEW v \in g.vertices,
         NEW n \in 0..Cardinality(g.vertices), NEW s \in Searches(g, v)[n]
  PROVE  /\ s \in Search(g) /\ SearchInv(g, v, s)
         /\ s.waiting # <<>> => Len(s.visits) = n
<1>. DEFINE C == Cardinality(g.vertices)
            S == Searches(g, v)
            Holds(i, x) == SearchInv(g, v, x) /\ (x.waiting # <<>> => Len(x.visits) = i)
            P == {i \in 0..C : \A x \in S[i] : Holds(i, x)}
<1>1. C \in Nat
  BY FS_CardinalityType DEF IsGraph
<1>2. /\ S[0] = {Start(v)}
      /\ \A i \in 1..C : S[i] = UNION {Turn(g, x) : x \in S[i - 1]}
      /\ \A i \in 0..C : S[i] \subseteq Search(g)
  BY SearchesStep
<1>. HIDE DEF C, S
<1>3. 0 \in P
  BY <1>1, <1>2, StartInv
<1>4. ASSUME NEW i \in 1..C, i - 1 \in P
      PROVE  i \in P
  <2>1. ASSUME NEW y \in S[i]
        PROVE  Holds(i, y)
    <3>1. PICK x \in S[i - 1] : y \in Turn(g, x)
      BY <1>2, <2>1
    <3>2. x \in Search(g) /\ Holds(i - 1, x)
      BY <1>1, <1>2, <1>4, <3>1
    <3>3. SearchInv(g, v, y)
      BY <3>1, <3>2, TurnInv
    <3>4. ASSUME y.waiting # <<>>
          PROVE  Len(y.visits) = i
      <4>1. x.waiting # <<>>
        BY <3>1, <3>4 DEF Turn
      <4>2. y \in TakeNext(g, x)
        BY <3>1, <4>1 DEF Turn
      <4>3. Len(y.visits) = Len(x.visits) + 1
        BY <3>2, <4>1, <4>2, TurnPlaces
      <4>. QED
        BY <1>1, <3>2, <4>1, <4>3
    <3>. QED
      BY <3>3, <3>4
  <2>. HIDE DEF Holds
  <2>. QED
    BY <1>1, <2>1
<1>5. 0..C \subseteq P
  <2>. HIDE DEF P
  <2>. QED
    BY <1>1, <1>3, <1>4, UpTo
<1>6. n \in P
  BY <1>5 DEF C
<1>. QED
  BY <1>1, <1>2, <1>6 DEF C, S

(* A search that has taken a turn for every vertex has none waiting: there   *)
(* are not more vertices to mark.  It has visited all it marked.             *)
LEMMA Finished ==
  ASSUME NEW g, IsGraph(g), NEW v \in g.vertices,
         NEW s \in Searches(g, v)[Cardinality(g.vertices)]
  PROVE  /\ s \in Search(g) /\ SearchInv(g, v, s)
         /\ Marked(s) = s.visits
         /\ s.visited = Reachable(g, v)
<1>. DEFINE C == Cardinality(g.vertices)
            Q == Marked(s)
            D == 1..(C + 1)
            f == [i \in D |-> Q[i].vertex]
<1>1. C \in Nat /\ IsFiniteSet(g.vertices)
  BY FS_CardinalityType DEF IsGraph
<1>2. s \in Search(g) /\ SearchInv(g, v, s) /\ (s.waiting # <<>> => Len(s.visits) = C)
  <2>1. C \in 0..C
    BY <1>1
  <2>. QED
    BY <2>1, AfterTurns
<1>3. s.visits \in Seq(Visit(g)) /\ s.waiting \in Seq(Visit(g))
  BY <1>2 DEF Search
<1>4. ASSUME s.waiting # <<>>
      PROVE  FALSE
  <2>1. /\ Q \in [1..Len(Q) -> Visit(g)]
        /\ Len(s.visits) + 1 \in 1..Len(Q) /\ Q \in Seq(Visit(g))
    BY <1>3, <1>4, NextPlace DEF Marked
  <2>2. Len(Q) \in Nat /\ C + 1 <= Len(Q)
    <3>1. Len(Q) \in Nat
      BY <2>1, LenProperties
    <3>. HIDE DEF Q, C
    <3>. QED
      BY <1>1, <1>2, <1>4, <2>1, <3>1
  <2>3. ASSUME NEW i \in D
        PROVE  Q[i].vertex \in g.vertices
    <3>1. i \in 1..Len(Q)
      BY <1>1, <2>2
    <3>2. Q[i] \in Visit(g)
      BY <2>1, <3>1
    <3>. QED
      BY <3>2 DEF Visit
  <2>4. f \in [D -> g.vertices]
    BY <2>3
  <2>5. IsFiniteSet(D) /\ Cardinality(D) = C + 1
    BY <1>1, FS_Interval
  <2>6. \A i, j \in D : f[i] = f[j] => i = j
    <3>1. \A i, j \in 1..Len(Q) : Q[i].vertex = Q[j].vertex => i = j
      BY <1>2 DEF SearchInv, Listed
    <3>2. D \subseteq 1..Len(Q)
      BY <1>1, <2>2
    <3>. QED
      BY <3>1, <3>2
  <2>. HIDE DEF D, f, C
  <2>7. C < Cardinality(D)
    BY <1>1, <2>5
  <2>8. \E i, j \in D : i # j /\ f[i] = f[j]
    BY <1>1, <2>4, <2>5, <2>7, FS_PigeonHole DEF C
  <2>. QED
    BY <2>6, <2>8
<1>5. Q = s.visits
  BY <1>3, <1>4, ConcatEmptySeq DEF Marked
<1>6. s.visited = Reachable(g, v)
  <2>1. s.visited = {Q[i].vertex : i \in 1..Len(Q)}
    BY <1>2 DEF SearchInv, Listed
  <2>2. \A i \in 1..Len(Q) : Adjacent(g, Q[i].vertex) \subseteq s.visited
    BY <1>2, <1>5 DEF SearchInv, Explored
  <2>3. /\ Len(Q) >= 1 /\ Q[1].vertex = v
        /\ \A i \in 1..Len(Q) : Q[i].vertex \in Reachable(g, v)
    BY <1>2 DEF SearchInv, Led
  <2>4. Len(Q) \in Nat
    BY <1>3, <1>5, LenProperties
  <2>5. s.visited \in SUBSET g.vertices
    BY <1>2 DEF Search
  <2>. HIDE DEF Q
  <2>6. v \in s.visited
    BY <2>1, <2>3, <2>4
  <2>7. \A u \in s.visited : Adjacent(g, u) \subseteq s.visited
    BY <2>1, <2>2
  <2>8. Reachable(g, v) \subseteq s.visited
    BY <2>5, <2>6, <2>7 DEF Reachable
  <2>9. s.visited \subseteq Reachable(g, v)
    BY <2>1, <2>3
  <2>. QED
    BY <2>8, <2>9
<1>. QED
  BY <1>2, <1>5, <1>6

-----------------------------------------------------------------------------
(* What BFSWithEdge returns, in the terms above.                             *)
Searched(g, start, visits) ==
  /\ visits \in Seq(Visit(g)) /\ DOMAIN visits = 1..Len(visits) /\ Len(visits) \in Nat
  /\ {visits[i].vertex : i \in 1..Len(visits)} = Reachable(g, start)
  /\ \A i, j \in 1..Len(visits) : visits[i].vertex = visits[j].vertex => i = j
  /\ Len(visits) >= 1 /\ visits[1] = [vertex |-> start, via |-> "none"]
  /\ \A j \in 2..Len(visits) :
       /\ visits[j].via # "none"
       /\ \E u \in Reachable(g, start) : visits[j].via = g.edge[<<u, visits[j].vertex>>]
       /\ visits[j].vertex \in Adjacent(g, start)
            => visits[j].via = g.edge[<<start, visits[j].vertex>>]
  /\ \A i, j \in 1..Len(visits) : \A n \in 0..Cardinality(g.vertices) :
       i < j /\ visits[j].vertex \in Within(g, start)[n]
         => visits[i].vertex \in Within(g, start)[n]

(* What holds of the visits when the search is over.                         *)
LEMMA SearchEnds ==
  ASSUME NEW g, IsGraph(g), NEW start \in g.vertices, NEW visits \in BFSWithEdge(g, start)
  PROVE  Searched(g, start, visits)
<1>1. PICK s \in Searches(g, start)[Cardinality(g.vertices)] : visits = s.visits
  BY DEF BFSWithEdge
<1>2. /\ s \in Search(g) /\ SearchInv(g, start, s)
      /\ Marked(s) = visits /\ s.visited = Reachable(g, start)
  BY <1>1, Finished
<1>3. visits \in Seq(Visit(g))
  BY <1>1, <1>2 DEF Search
<1>4. DOMAIN visits = 1..Len(visits) /\ Len(visits) \in Nat
  BY <1>3, LenProperties
<1>5. /\ {visits[i].vertex : i \in 1..Len(visits)} = Reachable(g, start)
      /\ \A i, j \in 1..Len(visits) : visits[i].vertex = visits[j].vertex => i = j
  BY <1>2 DEF SearchInv, Listed
<1>6. Led(g, start, s) /\ Nearer(g, start, s)
  BY <1>2 DEF SearchInv
<1>7. Len(visits) >= 1 /\ visits[1] = [vertex |-> start, via |-> "none"]
  BY <1>2, <1>6 DEF Led
<1>8. \A j \in 2..Len(visits) :
        /\ visits[j].via # "none"
        /\ \E u \in Reachable(g, start) : visits[j].via = g.edge[<<u, visits[j].vertex>>]
        /\ visits[j].vertex \in Adjacent(g, start)
             => visits[j].via = g.edge[<<start, visits[j].vertex>>]
  <2>1. Len(s.visits) > 0
    BY <1>1, <1>4, <1>7
  <2>. QED
    BY <1>2, <1>6, <2>1 DEF Led
<1>9. \A i, j \in 1..Len(visits) : \A n \in 0..Cardinality(g.vertices) :
        i < j /\ visits[j].vertex \in Within(g, start)[n]
          => visits[i].vertex \in Within(g, start)[n]
  BY <1>2, <1>6 DEF Nearer
<1>. QED
  BY <1>3, <1>4, <1>5, <1>7, <1>8, <1>9 DEF Searched

(* In every finite graph, whatever order the ranges over Go maps take,       *)
(* BFSWithEdge visits what can be reached from the start, each vertex once   *)
(* and the nearer ones first.                                                *)
THEOREM SearchVisitsNearestFirst ==
  ASSUME NEW g, IsGraph(g), NEW start \in g.vertices
  PROVE  BreadthFirst(g, start)
<1>. SUFFICES ASSUME NEW visits \in BFSWithEdge(g, start)
              PROVE  LET v == [i \in DOMAIN visits |-> visits[i].vertex]
                     IN /\ ToSet(v) = Reachable(g, start) /\ IsInjective(v)
                        /\ \A i, j \in DOMAIN v :
                             i < j => Distance(g, start, v[i]) <= Distance(g, start, v[j])
  BY DEF BreadthFirst
<1>. DEFINE v == [i \in DOMAIN visits |-> visits[i].vertex]
            C == Cardinality(g.vertices)
            W == Within(g, start)
            Missing(w) == {n \in 0..C : w \notin W[n]}
<1>0. Searched(g, start, visits)
  BY SearchEnds
<1>1. /\ DOMAIN visits = 1..Len(visits) /\ DOMAIN v = 1..Len(visits)
      /\ \A i \in 1..Len(visits) : v[i] = visits[i].vertex
  BY <1>0 DEF Searched
<1>2. ToSet(v) = Reachable(g, start)
  <2>1. ToSet(v) = {v[i] : i \in DOMAIN v}
    BY DEF ToSet
  <2>2. {visits[i].vertex : i \in 1..Len(visits)} = Reachable(g, start)
    BY <1>0 DEF Searched
  <2>. HIDE DEF v
  <2>. QED
    BY <1>1, <2>1, <2>2
<1>3. IsInjective(v)
  <2>1. \A i, j \in 1..Len(visits) : visits[i].vertex = visits[j].vertex => i = j
    BY <1>0 DEF Searched
  <2>. HIDE DEF v
  <2>. QED
    BY <1>1, <2>1 DEF IsInjective
<1>4. ASSUME NEW i \in DOMAIN v, NEW j \in DOMAIN v, i < j
      PROVE  Distance(g, start, v[i]) <= Distance(g, start, v[j])
  <2>1. \A n \in 0..C : v[j] \in W[n] => v[i] \in W[n]
    BY <1>0, <1>1, <1>4 DEF Searched
  <2>. HIDE DEF v, C
  <2>2. Missing(v[i]) \in SUBSET Missing(v[j])
    BY <2>1
  <2>3. IsFiniteSet(Missing(v[j]))
    <3>1. IsFiniteSet(0..C)
      <4>1. C \in Nat
        BY FS_CardinalityType DEF IsGraph, C
      <4>. QED
        BY <4>1, FS_Interval
    <3>2. Missing(v[j]) \in SUBSET (0..C)
      OBVIOUS
    <3>. HIDE DEF Missing
    <3>. QED
      BY <3>1, <3>2, FS_Subset
  <2>4. Cardinality(Missing(v[i])) <= Cardinality(Missing(v[j]))
    <3>. HIDE DEF Missing
    <3>. QED
      BY <2>2, <2>3, FS_Subset
  <2>. QED
    BY <2>4 DEF Distance, C
<1>. QED
  BY <1>2, <1>3, <1>4

(* Where no reference leads back to the Link that changes, as in every       *)
(* configuration that validateLinks lets pass, bringDownDependents sets down *)
(* what all references within reach ask for, and nothing that none asks for. *)
THEOREM SetDownIsAsked ==
  ASSUME NEW g, IsGraph(g), NEW start \in g.vertices,
         \A u \in Reachable(g, start) : g.edge[<<u, start>>] = "none"
  PROVE  AsAsked(g, start)
<1>. SUFFICES ASSUME NEW visits \in BFSWithEdge(g, start)
              PROVE  /\ AskedByAll(g, start) \subseteq SetDownBy(visits)
                     /\ SetDownBy(visits) \subseteq AskedBySome(g, start)
  BY DEF AsAsked
<1>. DEFINE V == Reachable(g, start)
            L == Len(visits)
<1>1. /\ DOMAIN visits = 1..L /\ L \in Nat /\ L >= 1
      /\ {visits[i].vertex : i \in 1..L} = V
      /\ visits[1] = [vertex |-> start, via |-> "none"]
      /\ \A j \in 2..L : /\ visits[j].via # "none"
                         /\ \E u \in V : visits[j].via = g.edge[<<u, visits[j].vertex>>]
  <2>1. Searched(g, start, visits)
    BY SearchEnds
  <2>. QED
    BY <2>1 DEF Searched
<1>2. V \subseteq g.vertices
  BY ReachableClosed
<1>. HIDE DEF V, L
<1>3. ASSUME NEW w \in AskedByAll(g, start)
      PROVE  w \in SetDownBy(visits)
  <2>1. /\ w \in V /\ \E u \in V : g.edge[<<u, w>>] = "setDown"
        /\ \A u \in V : g.edge[<<u, w>>] # "leave"
    BY DEF AskedByAll, AskedBySome, V
  <2>2. PICK i \in 1..L : visits[i].vertex = w
    BY <1>1, <2>1
  <2>3. i # 1
    <3>1. w # start
      BY <2>1 DEF V
    <3>. QED
      BY <1>1, <2>2, <3>1
  <2>4. i \in 2..L
    BY <1>1, <2>3
  <2>5. PICK u \in V : visits[i].via = g.edge[<<u, w>>] /\ visits[i].via # "none"
    BY <1>1, <2>2, <2>4
  <2>6. g.edge[<<u, w>>] \in EdgeData
    BY <1>2, <2>1 DEF IsGraph
  <2>7. visits[i].via = "setDown"
    BY <2>1, <2>5, <2>6 DEF EdgeData
  <2>. QED
    BY <1>1, <2>2, <2>7 DEF SetDownBy
<1>4. ASSUME NEW w \in SetDownBy(visits)
      PROVE  w \in AskedBySome(g, start)
  <2>1. PICK i \in 1..L : visits[i].via = "setDown" /\ visits[i].vertex = w
    BY <1>1 DEF SetDownBy
  <2>2. i \in 2..L
    BY <1>1, <2>1
  <2>3. w \in V /\ \E u \in V : g.edge[<<u, w>>] = "setDown"
    BY <1>1, <2>1, <2>2
  <2>. QED
    BY <2>3 DEF AskedBySome, V
<1>. QED
  BY <1>3, <1>4

(* A Link that refers to the one that changes directly, and asks for it, is  *)
(* set down, whatever other references say.                                  *)
LEMMA DirectSetDown ==
  ASSUME NEW g, IsGraph(g), NEW start \in g.vertices, NEW visits \in BFSWithEdge(g, start),
         NEW w \in g.vertices, w # start, g.edge[<<start, w>>] = "setDown"
  PROVE  w \in SetDownBy(visits)
<1>1. Searched(g, start, visits)
  BY SearchEnds
<1>2. w \in Adjacent(g, start)
  BY DEF Adjacent
<1>3. w \in Reachable(g, start)
  BY <1>2, ReachableClosed
<1>4. PICK i \in 1..Len(visits) : visits[i].vertex = w
  BY <1>1, <1>3 DEF Searched
<1>5. i \in 2..Len(visits)
  BY <1>1, <1>4 DEF Searched
<1>6. visits[i].via = "setDown" /\ i \in DOMAIN visits
  BY <1>1, <1>2, <1>4, <1>5 DEF Searched
<1>. QED
  BY <1>4, <1>6 DEF SetDownBy

(* What is set down is among the vertices.                                   *)
LEMMA SetDownType ==
  ASSUME NEW g, IsGraph(g), NEW start \in g.vertices, NEW visits \in BFSWithEdge(g, start)
  PROVE  SetDownBy(visits) \subseteq g.vertices
<1>1. visits \in Seq(Visit(g)) /\ DOMAIN visits = 1..Len(visits)
  BY SearchEnds DEF Searched
<1>2. \A i \in DOMAIN visits : visits[i] \in Visit(g)
  BY <1>1, ElementOfSeq
<1>. QED
  BY <1>2 DEF SetDownBy, Visit
=============================================================================
