------------------------ MODULE MixedPrecisionProofs ------------------------
(***************************************************************************)
(* The invariants of MixedPrecision, for every set of graphs.              *)
(*                                                                         *)
(* The first part shows what DfsTypeTraversal computes: the smallest set   *)
(* that holds the roots and is closed under the edges into the vertices it *)
(* may enter.  It is defined by recursion, so this needs induction, which  *)
(* is stated with a set instead of a predicate.                            *)
(***************************************************************************)
EXTENDS MixedPrecision, FiniteSetTheorems, WellFoundedInduction, TLAPS

\* A set of natural numbers has a least member.
LEMMA Least ==
  ASSUME NEW T \in SUBSET Nat, T # {}
  PROVE  \E x \in T : \A y \in T : x <= y
<1> DEFINE R == OpToRel(<, Nat)
<1>1. IsWellFoundedOn(R, Nat)
  BY NatLessThanWellFounded
<1>2. \A y, x \in Nat : y < x => <<y, x>> \in R
  BY DEF OpToRel
<1> HIDE DEF R
<1>3. PICK x \in T : \A y \in T : ~ (<<y, x>> \in R)
  BY <1>1, WFMin
<1>4. ASSUME NEW y \in T PROVE x <= y
  <2>1. x \in Nat /\ y \in Nat
    OBVIOUS
  <2>2. ~(y < x)
    BY <2>1, <1>2, <1>3
  <2> QED BY <2>1, <2>2
<1> QED BY <1>4

\* Induction over the natural numbers, with a set for the predicate.
LEMMA Induct ==
  ASSUME NEW P, 0 \in P, \A n \in Nat : n \in P => n + 1 \in P
  PROVE  Nat \subseteq P
<1> SUFFICES ASSUME Nat \ P # {} PROVE FALSE
  OBVIOUS
<1>1. PICK x \in Nat \ P : \A y \in Nat \ P : x <= y
  BY Least, Nat \ P \in SUBSET Nat
<1>2. x # 0 /\ x - 1 \in Nat /\ x - 1 \in P
  BY <1>1
<1>3. (x - 1) + 1 \in P
  BY <1>2
<1> QED BY <1>1, <1>3

-----------------------------------------------------------------------------
(* DfsTypeTraversal.                                                       *)

\* f[k] is what has been visited after k rounds.
Rounds(f, roots, E, enter, n) ==
  /\ f = [k \in 0 .. n |-> f[k]]
  /\ f[0] = roots
  /\ \A k \in 1 .. n :
       f[k] = f[k - 1] \cup {v \in enter : \E u \in f[k - 1] : <<u, v>> \in E}

\* A traversal has its sequence of rounds, whatever its length.
LEMMA RoundsExist ==
  ASSUME NEW roots, NEW E, NEW enter, NEW n \in Nat
  PROVE  \E f : Rounds(f, roots, E, enter, n)
<1> DEFINE P == {m \in Nat : \E f : Rounds(f, roots, E, enter, m)}
<1>1. 0 \in P
  <2> DEFINE f == [k \in 0 .. 0 |-> roots]
  <2>1. Rounds(f, roots, E, enter, 0)
    BY DEF Rounds
  <2> QED BY <2>1
<1>2. ASSUME NEW m \in Nat, m \in P PROVE m + 1 \in P
  <2>1. PICK f : Rounds(f, roots, E, enter, m)
    BY <1>2
  <2> DEFINE last == f[m] \cup {v \in enter : \E u \in f[m] : <<u, v>> \in E}
             h == [k \in 0 .. m + 1 |-> IF k = m + 1 THEN last ELSE f[k]]
  <2>2. h[0] = roots /\ h = [k \in 0 .. m + 1 |-> h[k]]
    BY <2>1 DEF Rounds
  <2>3. ASSUME NEW k \in 1 .. m + 1
        PROVE  h[k] = h[k - 1] \cup {v \in enter : \E u \in h[k - 1] : <<u, v>> \in E}
    <3>1. CASE k = m + 1
      <4> HIDE DEF last
      <4>1. h[k] = last /\ h[k - 1] = f[m]
        BY <3>1
      <4> USE DEF last
      <4> QED BY <4>1
    <3>2. CASE k # m + 1
      <4>1. k \in 1 .. m /\ h[k] = f[k] /\ h[k - 1] = f[k - 1]
        BY <3>2
      <4> HIDE DEF h
      <4> QED BY <2>1, <4>1 DEF Rounds
    <3> QED BY <3>1, <3>2
  <2> HIDE DEF h
  <2>4. Rounds(h, roots, E, enter, m + 1)
    BY <2>2, <2>3 DEF Rounds
  <2> QED BY <2>4
<1> HIDE DEF P
<1>3. Nat \subseteq P
  BY <1>1, <1>2, Induct
<1> QED BY <1>3 DEF P

\* The traversal is the last of its rounds.
LEMMA DfsRounds ==
  ASSUME NEW roots, NEW E, NEW enter, IsFiniteSet(enter)
  PROVE  \E f : /\ Rounds(f, roots, E, enter, Cardinality(enter))
                /\ DfsTypeTraversal(roots, E, enter) = f[Cardinality(enter)]
<1> DEFINE n == Cardinality(enter)
           F(f) == [k \in 0 .. n |->
                      IF k = 0 THEN roots
                      ELSE f[k - 1] \cup {v \in enter : \E u \in f[k - 1] : <<u, v>> \in E}]
           visited == CHOOSE f : f = F(f)
<1>1. DfsTypeTraversal(roots, E, enter) = visited[n]
  BY DEF DfsTypeTraversal
<1>2. n \in Nat
  BY FS_CardinalityType
<1> HIDE DEF n
<1>3. PICK f : Rounds(f, roots, E, enter, n)
  BY <1>2, RoundsExist
<1>4. f = F(f)
  <2>1. ASSUME NEW k \in 0 .. n PROVE f[k] = F(f)[k]
    <3>1. CASE k = 0
      BY <1>2, <1>3, <3>1 DEF Rounds
    <3>2. CASE k # 0
      BY <1>2, <1>3, <3>2, k \in 1 .. n DEF Rounds
    <3> QED BY <3>1, <3>2
  <2>2. f = [k \in 0 .. n |-> f[k]]
    BY <1>3 DEF Rounds
  <2>3. F(f) = [k \in 0 .. n |-> F(f)[k]]
    OBVIOUS
  <2> HIDE DEF F
  <2>4. [k \in 0 .. n |-> F(f)[k]] = [k \in 0 .. n |-> f[k]]
    BY <2>1
  <2> QED BY <2>2, <2>3, <2>4
<1> HIDE DEF F
<1>5. visited = F(visited)
  BY <1>4
<1> HIDE DEF visited
<1>6. visited = [k \in 0 .. n |->
                   IF k = 0 THEN roots
                   ELSE visited[k - 1] \cup
                          {v \in enter : \E u \in visited[k - 1] : <<u, v>> \in E}]
  BY <1>5 DEF F
<1>7. Rounds(visited, roots, E, enter, n)
  <2>1. visited = [k \in 0 .. n |-> visited[k]]
    BY <1>6
  <2>2. visited[0] = roots
    BY <1>2, <1>6
  <2>3. ASSUME NEW k \in 1 .. n
        PROVE  visited[k] = visited[k - 1] \cup
                 {v \in enter : \E u \in visited[k - 1] : <<u, v>> \in E}
    <3>1. k \in 0 .. n /\ k # 0
      BY <1>2
    <3> QED BY <1>6, <3>1
  <2> QED BY <2>1, <2>2, <2>3 DEF Rounds
<1> QED BY <1>1, <1>7 DEF n

\* Each round keeps the roots and adds only vertices the callback enters.
LEMMA RoundsGrow ==
  ASSUME NEW roots, NEW E, NEW enter, NEW n \in Nat, NEW f, Rounds(f, roots, E, enter, n)
  PROVE  \A k \in 0 .. n : roots \subseteq f[k] /\ f[k] \subseteq roots \cup enter
<1> DEFINE P == {k \in Nat : k <= n => roots \subseteq f[k] /\ f[k] \subseteq roots \cup enter}
<1>1. 0 \in P
  BY DEF Rounds
<1>2. ASSUME NEW k \in Nat, k \in P PROVE k + 1 \in P
  <2>1. CASE k + 1 <= n
    <3>1. f[k + 1] = f[k] \cup {v \in enter : \E u \in f[k] : <<u, v>> \in E}
      <4>1. k + 1 \in 1 .. n /\ (k + 1) - 1 = k
        BY <2>1
      <4> QED BY <4>1 DEF Rounds
    <3>2. roots \subseteq f[k] /\ f[k] \subseteq roots \cup enter
      BY <1>2, <2>1
    <3> QED BY <3>1, <3>2
  <2> QED BY <2>1
<1> HIDE DEF P
<1>3. Nat \subseteq P
  BY <1>1, <1>2, Induct
<1> QED BY <1>3 DEF P

\* The traversal visits the roots, and of the rest only what it may enter.
LEMMA DfsVisits ==
  ASSUME NEW roots, NEW E, NEW enter, IsFiniteSet(enter)
  PROVE  /\ roots \subseteq DfsTypeTraversal(roots, E, enter)
         /\ DfsTypeTraversal(roots, E, enter) \subseteq roots \cup enter
<1> DEFINE n == Cardinality(enter)
<1>1. n \in Nat
  BY FS_CardinalityType
<1>2. PICK f : Rounds(f, roots, E, enter, n) /\ DfsTypeTraversal(roots, E, enter) = f[n]
  BY DfsRounds
<1>3. n \in 0 .. n
  BY <1>1
<1> HIDE DEF n
<1> QED BY <1>1, <1>2, <1>3, RoundsGrow

\* It visits nothing but what a path leads to.
LEMMA DfsLeast ==
  ASSUME NEW roots, NEW E, NEW enter, IsFiniteSet(enter), NEW S, roots \subseteq S,
         \A u \in S, v \in enter : <<u, v>> \in E => v \in S
  PROVE  DfsTypeTraversal(roots, E, enter) \subseteq S
<1> DEFINE n == Cardinality(enter)
<1>1. n \in Nat
  BY FS_CardinalityType
<1>2. PICK f : Rounds(f, roots, E, enter, n) /\ DfsTypeTraversal(roots, E, enter) = f[n]
  BY DfsRounds
<1> HIDE DEF n
<1> DEFINE P == {k \in Nat : k <= n => f[k] \subseteq S}
<1>3. 0 \in P
  BY <1>2 DEF Rounds
<1>4. ASSUME NEW k \in Nat, k \in P PROVE k + 1 \in P
  <2>1. CASE k + 1 <= n
    <3>1. f[k + 1] = f[k] \cup {v \in enter : \E u \in f[k] : <<u, v>> \in E}
      <4>1. k + 1 \in 1 .. n /\ (k + 1) - 1 = k
        BY <1>1, <2>1
      <4> QED BY <1>2, <4>1 DEF Rounds
    <3>2. f[k] \subseteq S
      BY <1>1, <1>4, <2>1
    <3>3. f[k + 1] \subseteq S
      BY <3>1, <3>2
    <3> QED BY <3>3
  <2> QED BY <1>1, <2>1
<1> HIDE DEF P
<1>5. Nat \subseteq P
  BY <1>3, <1>4, Induct
<1> QED BY <1>1, <1>2, <1>5 DEF P

\* It leaves no edge it could follow: a round that finds nothing new is the last
\* one, and each of the others uses up a vertex of enter.
LEMMA DfsClosed ==
  ASSUME NEW roots, NEW E, NEW enter, IsFiniteSet(enter)
  PROVE  \A u \in DfsTypeTraversal(roots, E, enter), v \in enter :
           <<u, v>> \in E => v \in DfsTypeTraversal(roots, E, enter)
<1> DEFINE n == Cardinality(enter)
<1>1. n \in Nat
  BY FS_CardinalityType
<1>2. PICK f : Rounds(f, roots, E, enter, n) /\ DfsTypeTraversal(roots, E, enter) = f[n]
  BY DfsRounds
<1> HIDE DEF n
<1> DEFINE Closed(k) == \A u \in f[k], v \in enter : <<u, v>> \in E => v \in f[k]
           New(k) == f[k] \ roots
           P == {k \in Nat : k <= n => Closed(k) \/ Cardinality(New(k)) >= k}
<1>3. ASSUME NEW k \in 0 .. n
      PROVE  /\ New(k) \subseteq enter /\ IsFiniteSet(New(k))
             /\ Cardinality(New(k)) \in Nat /\ Cardinality(New(k)) <= n
  <2>1. New(k) \subseteq enter
    BY <1>1, <1>2, RoundsGrow
  <2> HIDE DEF New
  <2> QED BY <2>1, FS_Subset, FS_CardinalityType DEF n
<1>4. 0 \in P
  <2>1. Cardinality(New(0)) \in Nat
    BY <1>1, <1>3
  <2> HIDE DEF New, Closed
  <2> QED BY <1>1, <2>1
<1>5. ASSUME NEW k \in Nat, k \in P PROVE k + 1 \in P
  <2>1. CASE k + 1 <= n
    <3>0. k \in 0 .. n /\ k + 1 \in 0 .. n
      BY <1>1, <2>1
    <3>1. f[k + 1] = f[k] \cup {v \in enter : \E u \in f[k] : <<u, v>> \in E}
      <4>1. k + 1 \in 1 .. n /\ (k + 1) - 1 = k
        BY <1>1, <2>1
      <4> QED BY <1>2, <4>1 DEF Rounds
    <3>2. CASE Closed(k)
      <4>1. f[k + 1] = f[k]
        BY <3>1, <3>2
      <4>2. Closed(k + 1)
        BY <3>2, <4>1
      <4> QED BY <4>2
    <3>3. CASE ~Closed(k)
      <4>1. PICK u \in f[k], v \in enter : <<u, v>> \in E /\ v \notin f[k]
        BY <3>3
      <4>2. v \in f[k + 1]
        BY <3>1, <4>1
      <4>3. roots \subseteq f[k]
        BY <1>1, <1>2, <3>0, RoundsGrow
      <4>4. New(k) \cup {v} \subseteq New(k + 1) /\ v \notin New(k)
        BY <3>1, <4>1, <4>2, <4>3
      <4>5. Cardinality(New(k)) >= k
        BY <1>1, <1>5, <2>1, <3>3
      <4> HIDE DEF New, Closed
      <4>6. IsFiniteSet(New(k)) /\ IsFiniteSet(New(k + 1)) /\ Cardinality(New(k)) \in Nat
            /\ Cardinality(New(k + 1)) \in Nat
        BY <1>3, <3>0
      <4>7. Cardinality(New(k) \cup {v}) = Cardinality(New(k)) + 1
        BY <4>4, <4>6, FS_AddElement
      <4>8. Cardinality(New(k) \cup {v}) <= Cardinality(New(k + 1))
        BY <4>4, <4>6, FS_Subset
      <4>9. Cardinality(New(k + 1)) >= k + 1
        BY <4>5, <4>6, <4>7, <4>8
      <4> QED BY <4>9
    <3> HIDE DEF P
    <3> QED BY <3>2, <3>3
  <2> HIDE DEF Closed, New
  <2> QED BY <1>1, <2>1
<1> HIDE DEF P
<1>6. Nat \subseteq P
  BY <1>4, <1>5, Induct
<1>7. Closed(n) \/ Cardinality(New(n)) >= n
  <2> HIDE DEF Closed, New
  <2> QED BY <1>1, <1>6 DEF P
<1>8. CASE Cardinality(New(n)) >= n
  <2>1. New(n) \subseteq enter /\ Cardinality(New(n)) <= n /\ Cardinality(New(n)) \in Nat
    BY <1>1, <1>3
  <2> HIDE DEF New
  <2>2. Cardinality(New(n)) = Cardinality(enter)
    BY <1>1, <1>8, <2>1 DEF n
  <2>3. New(n) = enter
    BY <2>1, <2>2, FS_Subset
  <2> USE DEF New
  <2> QED BY <1>2, <2>3
<1> QED BY <1>2, <1>7, <1>8

\* Whatever it enters, it enters along an edge from something visited.
LEMMA DfsFrom ==
  ASSUME NEW roots, NEW E, NEW enter, IsFiniteSet(enter),
         NEW v \in DfsTypeTraversal(roots, E, enter), v \notin roots
  PROVE  \E u \in DfsTypeTraversal(roots, E, enter) : <<u, v>> \in E
<1> DEFINE D == DfsTypeTraversal(roots, E, enter)
           S == roots \cup {w \in D : \E u \in D : <<u, w>> \in E}
<1>1. roots \subseteq D
  BY DfsVisits
<1>2. \A u \in D, w \in enter : <<u, w>> \in E => w \in D
  BY DfsClosed
<1> HIDE DEF D
<1>3. \A u \in S, w \in enter : <<u, w>> \in E => w \in S
  BY <1>1, <1>2
<1>4. D \subseteq S
  <2> HIDE DEF S
  <2>1. roots \subseteq S
    BY DEF S
  <2> QED BY <1>3, <2>1, DfsLeast DEF D
<1> QED BY <1>4 DEF D

-----------------------------------------------------------------------------
(* What depends on the graph only, or on the graph and the ephemeral edges.*)

\* What is computed from the graph alone stays while the graph does.
LEMMA GraphStays ==
  ASSUME graph' = graph
  PROVE  /\ Vertices' = Vertices /\ TensorLists' = TensorLists
         /\ (\A l : On(l)' = On(l)) /\ (\A k : IsOp(k)' = IsOp(k))
         /\ (\A v : Connected(v)' = Connected(v)) /\ (\A v : Cluster(v)' = Cluster(v))
         /\ ClusterRoots' = ClusterRoots /\ Clusters' = Clusters /\ Unsafe' = Unsafe
         /\ IsGraph(graph)' = IsGraph(graph)
         /\ InitialTypes(graph)' = InitialTypes(graph)
<1>1. Vertices' = Vertices
  BY DEF Vertices
<1>2. TensorLists' = TensorLists /\ (\A l : On(l)' = On(l)) /\ (\A k : IsOp(k)' = IsOp(k))
  BY <1>1 DEF TensorLists, On, IsOp
<1>3. \A v : Connected(v)' = Connected(v)
  BY <1>1 DEF Connected
<1>4. \A v : Cluster(v)' = Cluster(v)
  BY <1>2, <1>3 DEF Cluster
<1>5. ClusterRoots' = ClusterRoots
  BY <1>2 DEF ClusterRoots
<1>6. Clusters' = Clusters
  BY <1>4, <1>5 DEF Clusters
<1>7. Unsafe' = Unsafe
  BY <1>2, <1>3, <1>4, <1>5 DEF Unsafe
<1>8. IsGraph(graph)' = IsGraph(graph) /\ InitialTypes(graph)' = InitialTypes(graph)
  BY DEF IsGraph, InitialTypes
<1> QED BY <1>1, <1>2, <1>3, <1>4, <1>5, <1>6, <1>7, <1>8

\* The edges between types depend on the graph and the ephemeral edges only.
LEMMA EdgesStay ==
  ASSUME graph' = graph, ephemeral' = ephemeral
  PROVE  TypeEdges' = TypeEdges /\ Dangerous(PropagatesDeny)' = Dangerous(PropagatesDeny)
<1>1. TypeEdges' = TypeEdges
  BY DEF TypeEdges
<1>2. PropagatesDeny' = PropagatesDeny
  BY GraphStays DEF PropagatesDeny
<1>3. \A v : Ahead(v, PropagatesDeny)' = Ahead(v, PropagatesDeny)
  BY <1>1, <1>2 DEF Ahead
<1>4. \A v : Reaches(v, PropagatesDeny)' = Reaches(v, PropagatesDeny)
  BY <1>1, <1>3, GraphStays DEF Reaches
<1>5. Dangerous(PropagatesDeny)' = Dangerous(PropagatesDeny)
  BY <1>2, <1>4, GraphStays DEF Dangerous
<1> QED BY <1>1, <1>5

\* A graph has finitely many vertices, so every traversal ends.
LEMMA VerticesFinite ==
  ASSUME IsGraph(graph)
  PROVE  IsFiniteSet(Vertices) /\ \A S \in SUBSET Vertices : IsFiniteSet(S)
<1>1. 1 \in Int /\ graph.n \in Int
  BY DEF IsGraph
<1>2. IsFiniteSet(Vertices)
  BY <1>1, FS_Interval DEF Vertices
<1> QED BY <1>2, FS_Subset

\* The ops that are on no list, or on the clear list, by their kind.
LEMMA KindsOfLists ==
  ASSUME IsGraph(graph)
  PROVE  /\ TensorLists \cap (On("allow") \cup On("deny") \cup On("infer")) = {}
         /\ IsOp("NextIteration") \subseteq On("clear") \cap graph.supports
         /\ IsOp("Cast") \subseteq On("none") \cap graph.supports
         /\ TensorLists \subseteq graph.f32 \cap graph.supports
         /\ TensorLists \cap (IsOp("NextIteration") \cup IsOp("Cast") \cup IsOp("Merge")) = {}
         /\ Unsafe \subseteq TensorLists /\ UNION Clusters \subseteq TensorLists
<1>1. \A v \in Vertices :
        /\ graph.op[v] \in TensorListOps => v \in graph.f32 /\ v \in graph.supports
        /\ graph.op[v] \in {"Cast", "NextIteration"} => v \in graph.supports
        /\ graph.op[v] \in {"writer", "reader", "NextIteration"} => graph.list[v] = "clear"
        /\ graph.op[v] \in {"list", "Cast"} => graph.list[v] = "none"
  BY DEF IsGraph, Vertices
<1>2. UNION Clusters \subseteq TensorLists
  BY DEF Clusters, Cluster
<1>3. Unsafe \subseteq TensorLists
  BY DEF Unsafe, ClusterRoots
<1> QED BY <1>1, <1>2, <1>3 DEF TensorLists, TensorListOps, On, IsOp

\* Connected is an equivalence: the vertices of a cluster have the same cluster.
LEMMA ConnectedSame ==
  ASSUME IsGraph(graph), NEW r \in Vertices, NEW v \in Connected(r)
  PROVE  v \in Vertices /\ v \in Connected(v) /\ Connected(v) = Connected(r)
<1> DEFINE H == Symmetric(graph.handles)
<1>1. \A e \in H : <<e[2], e[1]>> \in H /\ e[1] \in Vertices /\ e[2] \in Vertices
  <2>1. ASSUME NEW e \in graph.handles
        PROVE  e = <<e[1], e[2]>> /\ e[1] \in Vertices /\ e[2] \in Vertices
    BY DEF IsGraph, Vertices
  <2>2. ASSUME NEW e \in H PROVE <<e[2], e[1]>> \in H /\ e[1] \in Vertices /\ e[2] \in Vertices
    <3>1. CASE e \in graph.handles
      BY <2>1, <3>1 DEF Symmetric
    <3>2. CASE \E d \in graph.handles : e = <<d[2], d[1]>>
      BY <2>1, <3>2 DEF Symmetric
    <3> QED BY <3>1, <3>2 DEF Symmetric
  <2> QED BY <2>2
<1>2. \A u, w : <<u, w>> \in H => <<w, u>> \in H /\ u \in Vertices /\ w \in Vertices
  BY <1>1
<1> HIDE DEF H
<1>3. \A x : Connected(x) = DfsTypeTraversal({x}, H, Vertices)
  BY DEF Connected, H
<1>4. IsFiniteSet(Vertices)
  BY VerticesFinite
<1>5. ASSUME NEW x \in Vertices
      PROVE  /\ x \in Connected(x) /\ Connected(x) \subseteq Vertices
             /\ \A u \in Connected(x), w \in Vertices : <<u, w>> \in H => w \in Connected(x)
  <2> DEFINE D == DfsTypeTraversal({x}, H, Vertices)
  <2>1. {x} \subseteq D /\ D \subseteq {x} \cup Vertices
    BY <1>4, DfsVisits
  <2>2. \A u \in D, w \in Vertices : <<u, w>> \in H => w \in D
    BY <1>4, DfsClosed
  <2> QED BY <1>3, <2>1, <2>2
<1>6. v \in Vertices
  BY <1>5
<1>7. Connected(v) \subseteq Connected(r)
  <2>1. {v} \subseteq Connected(r)
    OBVIOUS
  <2> QED BY <1>3, <1>4, <1>5, <2>1, DfsLeast
<1>8. r \in Connected(v)
  <2> SUFFICES ASSUME r \notin Connected(v) PROVE FALSE
    OBVIOUS
  <2> DEFINE S == Vertices \ Connected(v)
  <2>1. \A u \in S, w \in Vertices : <<u, w>> \in H => w \in S
    BY <1>2, <1>5, <1>6
  <2>2. {r} \subseteq S
    OBVIOUS
  <2> HIDE DEF S
  <2>3. Connected(r) \subseteq S
    BY <1>3, <1>4, <2>1, <2>2, DfsLeast
  <2> QED BY <1>5, <1>6, <2>3 DEF S
<1>9. Connected(r) \subseteq Connected(v)
  <2>1. {r} \subseteq Connected(v)
    BY <1>8
  <2> QED BY <1>3, <1>4, <1>5, <1>6, <2>1, DfsLeast
<1> QED BY <1>5, <1>6, <1>7, <1>9

\* Two clusters of tensor lists are the same or share no vertex.
LEMMA ClustersDisjoint ==
  ASSUME IsGraph(graph)
  PROVE  \A c, d \in Clusters : c \cap d # {} => c = d
<1> SUFFICES ASSUME NEW q \in ClusterRoots, NEW r \in ClusterRoots,
                    NEW v \in Cluster(q) \cap Cluster(r)
             PROVE  Cluster(q) = Cluster(r)
  BY DEF Clusters
<1>1. q \in Vertices /\ r \in Vertices
  BY DEF ClusterRoots, TensorLists
<1>2. v \in Connected(q) /\ v \in Connected(r)
  BY DEF Cluster
<1>3. Connected(q) = Connected(v) /\ Connected(r) = Connected(v)
  BY <1>1, <1>2, ConnectedSame
<1> QED BY <1>3 DEF Cluster

-----------------------------------------------------------------------------
(* Pass 2.                                                                 *)

\* deny_set after pass 2.
Denied == deny_set \cup
  DfsTypeTraversal(On("deny") \ deny_set, TypeEdges, UpstreamOfDenyOrInfer \ deny_set)

Coloured == On("deny") \cup On("infer") \cup On("clear")

\* Ephemeral edges lead from writers to readers.
EphemeralEdges == ephemeral \subseteq IsOp("writer") \X IsOp("reader")

\* The first traversal of the deny pass finds the vertices from which a deny
\* or infer op is reached through clear ops.
LEMMA Upstream ==
  ASSUME IsGraph(graph), EphemeralEdges
  PROVE  /\ On("deny") \cup On("infer") \subseteq UpstreamOfDenyOrInfer
         /\ UpstreamOfDenyOrInfer \subseteq Coloured
         /\ \A u \in On("clear"), w \in UpstreamOfDenyOrInfer :
              <<u, w>> \in TypeEdges => u \in UpstreamOfDenyOrInfer
         /\ \A u \in UpstreamOfDenyOrInfer \cap On("clear") :
              \E w \in UpstreamOfDenyOrInfer : <<u, w>> \in TypeEdges
<1> DEFINE R == On("deny") \cup On("infer")  B == Reversed(TypeEdges)  C == On("clear")
           U == DfsTypeTraversal(R, B, C)
<1>1. IsFiniteSet(C) /\ R \cap C = {}
  BY VerticesFinite DEF On
<1>2. \A u, w : <<w, u>> \in B <=> <<u, w>> \in TypeEdges
  <2>1. \A e \in TypeEdges : e = <<e[1], e[2]>>
    <3>1. \A e \in ephemeral : e = <<e[1], e[2]>>
      BY DEF EphemeralEdges
    <3> QED BY <3>1 DEF TypeEdges, IsGraph
  <2> QED BY <2>1 DEF Reversed
<1> HIDE DEF B, R, C
<1>3. R \subseteq U /\ U \subseteq R \cup C
  BY <1>1, DfsVisits
<1>4. \A w \in U, u \in C : <<w, u>> \in B => u \in U
  BY <1>1, DfsClosed
<1>5. \A u \in U \cap C : \E w \in U : <<w, u>> \in B
  BY <1>1, DfsFrom
<1>6. U = UpstreamOfDenyOrInfer
  BY DEF UpstreamOfDenyOrInfer, R, B, C
<1> HIDE DEF U
<1> QED BY <1>2, <1>3, <1>4, <1>5, <1>6 DEF R, C, Coloured

\* The second traversal denies what lies behind a denied vertex, as far as the
\* first one went.
LEMMA DeniedVisits ==
  ASSUME IsGraph(graph), EphemeralEdges, deny_set = Unsafe
  PROVE  /\ On("deny") \cup Unsafe \subseteq Denied
         /\ Denied \subseteq Unsafe \cup Coloured
         /\ \A u \in Denied \ Unsafe, w \in UpstreamOfDenyOrInfer :
              <<u, w>> \in TypeEdges => w \in Denied
         /\ Denied \ Unsafe \subseteq UpstreamOfDenyOrInfer
<1> DEFINE R == On("deny") \ deny_set  N == UpstreamOfDenyOrInfer \ deny_set
           D == DfsTypeTraversal(R, TypeEdges, N)
<1>1. /\ On("deny") \cup On("infer") \subseteq UpstreamOfDenyOrInfer
      /\ UpstreamOfDenyOrInfer \subseteq Coloured
  BY Upstream
<1>2. N \subseteq Vertices
  BY <1>1 DEF Coloured, On
<1>3. IsFiniteSet(N)
  <2> HIDE DEF N
  <2> QED BY <1>2, VerticesFinite
<1> HIDE DEF R, N
<1>4. R \subseteq D /\ D \subseteq R \cup N
  BY <1>3, DfsVisits
<1>5. \A u \in D, w \in N : <<u, w>> \in TypeEdges => w \in D
  BY <1>3, DfsClosed
<1>6. Denied = deny_set \cup D
  BY DEF Denied, R, N
<1> HIDE DEF D
<1> QED BY <1>1, <1>4, <1>5, <1>6 DEF R, N, Coloured

\* A vertex on a dangerous path is denied.
LEMMA DangerousDenied ==
  ASSUME IsGraph(graph), EphemeralEdges, deny_set = Unsafe
  PROVE  Dangerous(PropagatesDeny) \subseteq Denied
<1> DEFINE U == UpstreamOfDenyOrInfer
<1>1. /\ On("deny") \cup On("infer") \subseteq U
      /\ \A u \in On("clear"), w \in U : <<u, w>> \in TypeEdges => u \in U
  BY Upstream
<1>2. /\ On("deny") \cup Unsafe \subseteq Denied
      /\ \A u \in Denied \ Unsafe, w \in U : <<u, w>> \in TypeEdges => w \in Denied
  BY DeniedVisits
<1> HIDE DEF U
<1>3. IsFiniteSet(PropagatesDeny)
  <2>1. PropagatesDeny \subseteq Vertices
    BY DEF PropagatesDeny, On
  <2> QED BY <2>1, VerticesFinite
<1>4. /\ PropagatesDeny \subseteq On("clear") \cup On("infer") /\ PropagatesDeny \cap Unsafe = {}
      /\ On("infer") \cap Unsafe = {} /\ On("deny") \cap Unsafe = {}
  BY KindsOfLists DEF PropagatesDeny
<1>5. ASSUME NEW v, NEW S, {v} \subseteq S,
             \A u \in S, w \in PropagatesDeny : <<u, w>> \in TypeEdges => w \in S
      PROVE  Ahead(v, PropagatesDeny) \subseteq S
  BY <1>3, <1>5, DfsLeast DEF Ahead
<1>6. ASSUME NEW v \in On("clear"), v \notin U,
             NEW x \in Reaches(v, PropagatesDeny), x \in On("deny") \cup On("infer")
      PROVE  FALSE
  <2> DEFINE S == On("clear") \ U
  <2>1. \A u \in S, w \in PropagatesDeny : <<u, w>> \in TypeEdges => w \in S
    BY <1>1, <1>4
  <2>2. {v} \subseteq S
    BY <1>6
  <2> HIDE DEF S
  <2>3. Ahead(v, PropagatesDeny) \subseteq S
    BY <1>5, <2>1, <2>2
  <2>4. PICK w \in Ahead(v, PropagatesDeny) : <<w, x>> \in TypeEdges
    BY <1>6 DEF Reaches
  <2> QED BY <1>1, <1>6, <2>3, <2>4 DEF S
<1>7. ASSUME NEW d \in On("deny"), NEW v \in Reaches(d, PropagatesDeny), v \in U, v \notin Unsafe
      PROVE  v \in Denied
  <2> DEFINE S == (Denied \ Unsafe) \cup (On("clear") \ U)
  <2>1. \A u \in S, w \in PropagatesDeny : <<u, w>> \in TypeEdges => w \in S
    BY <1>1, <1>2, <1>4
  <2>2. {d} \subseteq S
    BY <1>2, <1>4
  <2> HIDE DEF S
  <2>3. Ahead(d, PropagatesDeny) \subseteq S
    BY <1>5, <2>1, <2>2
  <2>4. PICK w \in Ahead(d, PropagatesDeny) : <<w, v>> \in TypeEdges
    BY <1>7 DEF Reaches
  <2> QED BY <1>1, <1>2, <1>7, <2>3, <2>4 DEF S
<1>8. ASSUME NEW v \in PropagatesDeny \cup On("infer"), NEW d \in On("deny"), v \in Reaches(d, PropagatesDeny),
             v \in On("infer") \/ Reaches(v, PropagatesDeny) \cap (On("deny") \cup On("infer")) # {}
      PROVE  v \in Denied
  <2>1. v \in U /\ v \notin Unsafe
    BY <1>1, <1>4, <1>6, <1>8
  <2> QED BY <1>7, <1>8, <2>1
<1> QED BY <1>2, <1>8 DEF Dangerous

\* Behind a NextIteration that is denied there is something denied.
LEMMA NextIterationDenied ==
  ASSUME IsGraph(graph), EphemeralEdges, deny_set = Unsafe,
         NEW v \in Denied \cap IsOp("NextIteration")
  PROVE  \E w \in Denied : <<v, w>> \in graph.edges
<1>1. v \in On("clear") /\ v \notin Unsafe
  BY KindsOfLists
<1>2. v \in UpstreamOfDenyOrInfer
  BY <1>1, DeniedVisits
<1>3. PICK w \in UpstreamOfDenyOrInfer : <<v, w>> \in TypeEdges
  BY <1>1, <1>2, Upstream
<1>4. w \in Denied
  BY <1>1, <1>3, DeniedVisits
<1>5. <<v, w>> \notin ephemeral
  BY DEF EphemeralEdges, IsOp
<1> QED BY <1>3, <1>4, <1>5 DEF TypeEdges

-----------------------------------------------------------------------------
(* Pass 4.                                                                 *)

\* Whether pass 4 paints v, with before painted already.
Follows(v, before) ==
  /\ v \in Paintable \cap On("infer")
  /\ {u \in Vertices : <<u, v>> \in TypeEdges} \cap deny_set = {}
  /\ {u \in Vertices : <<u, v>> \in TypeEdges} \cap before # {}

\* a[v] is allow_set after v vertices.
Steps(a, n) ==
  /\ a = [v \in 0 .. n |-> a[v]]
  /\ a[0] = allow_set
  /\ \A v \in 1 .. n : a[v] = a[v - 1] \cup {u \in {v} : Follows(v, a[v - 1])}

\* The loop that follows allowed inputs has its sequence of turns.
LEMMA StepsExist ==
  ASSUME NEW n \in Nat
  PROVE  \E a : Steps(a, n)
<1> DEFINE P == {m \in Nat : \E a : Steps(a, m)}
<1>1. 0 \in P
  <2> DEFINE a == [v \in 0 .. 0 |-> allow_set]
  <2>1. Steps(a, 0)
    BY DEF Steps
  <2> QED BY <2>1
<1>2. ASSUME NEW m \in Nat, m \in P PROVE m + 1 \in P
  <2>1. PICK a : Steps(a, m)
    BY <1>2
  <2> DEFINE last == a[m] \cup {u \in {m + 1} : Follows(m + 1, a[m])}
             h == [v \in 0 .. m + 1 |-> IF v = m + 1 THEN last ELSE a[v]]
  <2>2. h[0] = allow_set /\ h = [v \in 0 .. m + 1 |-> h[v]]
    BY <2>1 DEF Steps
  <2>3. ASSUME NEW v \in 1 .. m + 1
        PROVE  h[v] = h[v - 1] \cup {u \in {v} : Follows(v, h[v - 1])}
    <3>1. CASE v = m + 1
      <4> HIDE DEF last
      <4>1. h[v] = last /\ h[v - 1] = a[m]
        BY <3>1
      <4> USE DEF last
      <4> QED BY <3>1, <4>1
    <3>2. CASE v # m + 1
      <4>1. v \in 1 .. m /\ h[v] = a[v] /\ h[v - 1] = a[v - 1]
        BY <3>2
      <4> HIDE DEF h
      <4> QED BY <2>1, <4>1 DEF Steps
    <3> QED BY <3>1, <3>2
  <2> HIDE DEF h
  <2>4. Steps(h, m + 1)
    BY <2>2, <2>3 DEF Steps
  <2> QED BY <2>4
<1> HIDE DEF P
<1>3. Nat \subseteq P
  BY <1>1, <1>2, Induct
<1> QED BY <1>3 DEF P

\* FollowAllow is where that loop ends.
LEMMA FollowAllowSteps ==
  ASSUME graph.n \in Nat
  PROVE  \E a : Steps(a, graph.n) /\ FollowAllow = a[graph.n]
<1> DEFINE n == graph.n
           F(a) == [v \in 0 .. n |->
                      IF v = 0 THEN allow_set
                      ELSE a[v - 1] \cup {u \in {v} : Follows(v, a[v - 1])}]
           allowed == CHOOSE a : a = F(a)
<1>1. FollowAllow = allowed[n]
  BY DEF FollowAllow, Follows
<1>2. n \in Nat
  OBVIOUS
<1> HIDE DEF n
<1>3. PICK a : Steps(a, n)
  BY <1>2, StepsExist
<1>4. a = F(a)
  <2>1. ASSUME NEW v \in 0 .. n PROVE a[v] = F(a)[v]
    <3>1. CASE v = 0
      BY <1>2, <1>3, <3>1 DEF Steps
    <3>2. CASE v # 0
      BY <1>2, <1>3, <3>2, v \in 1 .. n DEF Steps
    <3> QED BY <3>1, <3>2
  <2>2. a = [v \in 0 .. n |-> a[v]]
    BY <1>3 DEF Steps
  <2>3. F(a) = [v \in 0 .. n |-> F(a)[v]]
    OBVIOUS
  <2> HIDE DEF F
  <2>4. [v \in 0 .. n |-> F(a)[v]] = [v \in 0 .. n |-> a[v]]
    BY <2>1
  <2> QED BY <2>2, <2>3, <2>4
<1> HIDE DEF F
<1>5. allowed = F(allowed)
  BY <1>4
<1> HIDE DEF allowed
<1>6. allowed = [v \in 0 .. n |->
                   IF v = 0 THEN allow_set
                   ELSE allowed[v - 1] \cup {u \in {v} : Follows(v, allowed[v - 1])}]
  BY <1>5 DEF F
<1>7. Steps(allowed, n)
  <2>1. allowed = [v \in 0 .. n |-> allowed[v]]
    BY <1>6
  <2>2. allowed[0] = allow_set
    BY <1>2, <1>6
  <2>3. ASSUME NEW v \in 1 .. n
        PROVE  allowed[v] = allowed[v - 1] \cup {u \in {v} : Follows(v, allowed[v - 1])}
    <3>1. v \in 0 .. n /\ v # 0
      BY <1>2
    <3> QED BY <1>6, <3>1
  <2> QED BY <2>1, <2>2, <2>3 DEF Steps
<1> QED BY <1>1, <1>7 DEF n

\* It adds only vertices that may be painted.
LEMMA FollowAllowAdds ==
  ASSUME IsGraph(graph)
  PROVE  FollowAllow \subseteq allow_set \cup (Paintable \cap On("infer"))
<1> DEFINE n == graph.n  A == allow_set \cup (Paintable \cap On("infer"))
<1>1. n \in Nat
  BY DEF IsGraph
<1>2. PICK a : Steps(a, n) /\ FollowAllow = a[n]
  BY <1>1, FollowAllowSteps
<1> HIDE DEF n
<1> DEFINE P == {v \in Nat : v <= n => a[v] \subseteq A}
<1>3. 0 \in P
  BY <1>2 DEF Steps
<1>4. ASSUME NEW v \in Nat, v \in P PROVE v + 1 \in P
  <2>1. CASE v + 1 <= n
    <3>1. a[v + 1] = a[v] \cup {u \in {v + 1} : Follows(v + 1, a[v])}
      <4>1. v + 1 \in 1 .. n /\ (v + 1) - 1 = v
        BY <1>1, <2>1
      <4> QED BY <1>2, <4>1 DEF Steps
    <3>2. a[v] \subseteq A
      BY <1>1, <1>4, <2>1
    <3>3. a[v + 1] \subseteq A
      BY <3>1, <3>2 DEF Follows
    <3> QED BY <3>3
  <2> QED BY <1>1, <2>1
<1> HIDE DEF P
<1>5. Nat \subseteq P
  BY <1>3, <1>4, Induct
<1> QED BY <1>1, <1>2, <1>5 DEF P

-----------------------------------------------------------------------------
(* The inductive invariant.                                                *)

Types ==
  /\ IsGraph(graph) /\ pass \in Passes
  /\ EphemeralEdges
  /\ allow_set \subseteq Vertices /\ deny_set \subseteq Vertices
  /\ status \in {"OK", "FailedPrecondition", "Internal"}

\* What is in deny_set: no op of the allow list, no Cast, and no NextIteration
\* with nothing denied behind it.
DenyFacts ==
  /\ deny_set \cap (On("allow") \cup IsOp("Cast")) = {}
  /\ \A v \in deny_set \cap IsOp("NextIteration") :
       \E w \in deny_set : <<v, w>> \in graph.edges
  /\ pass = "clusters" => deny_set = {} /\ allow_set = {}
  /\ pass \in {"allowlist", "deny"} => deny_set = Unsafe /\ allow_set \subseteq On("allow")

\* What is in allow_set.
AllowFacts ==
  /\ allow_set \cap deny_set = {}
  /\ allow_set \subseteq On("allow") \cup graph.supports
  /\ allow_set \cap TensorLists \subseteq graph.process \cup UNION Clusters

Dangers == Unsafe \subseteq deny_set /\ Dangerous(PropagatesDeny) \subseteq deny_set

Supported == allow_set \subseteq graph.supports \ (On("allow") \cap graph.quantized)

ListsMatched == \A c \in Clusters : c \subseteq allow_set \/ c \cap allow_set = {}

LoopsMatched ==
  \A e \in graph.edges :
    e[1] \in IsOp("NextIteration") => (e[1] \in allow_set <=> e[2] \in allow_set)

Untouched == dtype = InitialTypes(graph) /\ casts = <<>> /\ status # "Internal"

NewTypes ==
  [v \in Vertices |-> IF v \in graph.f32
                      THEN IF v \in allow_set THEN "f16" ELSE "f32"
                      ELSE "other"]

Converted ==
  /\ Dangers /\ Supported /\ ListsMatched /\ LoopsMatched
  /\ dtype = NewTypes /\ casts = BoundaryCasts /\ status = "OK"

Stages ==
  /\ pass \in {"lists1", "between", "follow", "clear", "fp32", "lists2", "loops",
               "existing casts", "convert"} => Dangers
  /\ pass \in {"lists2", "loops", "existing casts", "convert"} => Supported
  /\ pass \in {"loops", "existing casts", "convert"} => ListsMatched
  /\ pass \in {"existing casts", "convert"} => LoopsMatched
  /\ pass # "done" => Untouched /\ status = "OK"
  /\ pass = "done" => Untouched \/ Converted

IInv == Types /\ DenyFacts /\ AllowFacts /\ Stages

\* Before the first pass nothing is painted.
LEMMA InitIInv == Init => IInv
<1> SUFFICES ASSUME Init PROVE IInv
  OBVIOUS
<1>1. Types /\ DenyFacts /\ AllowFacts
  BY GraphsAssumption DEF Init, Types, DenyFacts, AllowFacts, Passes, EphemeralEdges
<1>2. Stages
  BY DEF Init, Stages, Untouched
<1> QED BY <1>1, <1>2 DEF IInv

\* Clusters keeps the invariant.
LEMMA ClustersStep ==
  ASSUME IInv, FindTensorListClusters
  PROVE  IInv'
<1> USE DEF FindTensorListClusters, Continue
<1>1. graph' = graph /\ IsGraph(graph) /\ deny_set' = Unsafe /\ allow_set' = {}
  BY DEF IInv, Types, DenyFacts
<1>2. Types'
  <2>1. Unsafe \subseteq Vertices
    BY DEF Unsafe, ClusterRoots, TensorLists
  <2>2. ImplicitFloat32Edges \subseteq IsOp("writer") \X IsOp("reader")
    BY DEF ImplicitFloat32Edges
  <2> QED BY <1>1, <2>1, <2>2, GraphStays DEF IInv, Types, Passes, EphemeralEdges
<1>3. DenyFacts' /\ AllowFacts'
  BY <1>1, GraphStays, KindsOfLists DEF DenyFacts, AllowFacts
<1>4. Stages'
  BY <1>1, GraphStays DEF IInv, Stages, Untouched
<1> QED BY <1>2, <1>3, <1>4 DEF IInv

\* Allowlist keeps the invariant.
LEMMA AllowlistStep ==
  ASSUME IInv, AddAllowlistOps
  PROVE  IInv'
<1> USE DEF AddAllowlistOps, Continue
<1>1. /\ graph' = graph /\ IsGraph(graph) /\ deny_set' = deny_set /\ deny_set = Unsafe
      /\ allow_set' = On("allow") \cap graph.process /\ ephemeral' = ephemeral
      /\ pass' \in {"done", "deny"}
  BY DEF IInv, Types, DenyFacts
<1>2. Types'
  BY <1>1, GraphStays DEF IInv, Types, Passes, EphemeralEdges, On
<1>3. DenyFacts'
  BY <1>1, GraphStays DEF IInv, DenyFacts
<1>4. AllowFacts'
  BY <1>1, GraphStays, KindsOfLists DEF IInv, DenyFacts, AllowFacts
<1>5. Stages'
  BY <1>1, GraphStays DEF IInv, Stages, Untouched
<1> QED BY <1>2, <1>3, <1>4, <1>5 DEF IInv

\* Deny keeps the invariant.
LEMMA DenyStep ==
  ASSUME IInv, PropagateDenyFwdThroughClearAndInfer
  PROVE  IInv'
<1> USE DEF PropagateDenyFwdThroughClearAndInfer, Continue
<1>1. /\ graph' = graph /\ IsGraph(graph) /\ deny_set = Unsafe /\ EphemeralEdges
      /\ UNCHANGED <<allow_set, ephemeral, status, dtype, casts>>
      /\ deny_set' = Denied /\ pass' = "lists1"
  BY DEF IInv, Types, DenyFacts, Denied
<1>2. /\ Denied \subseteq Unsafe \cup Coloured /\ Unsafe \subseteq Denied
      /\ Dangerous(PropagatesDeny) \subseteq Denied
  BY <1>1, DeniedVisits, DangerousDenied
<1>3. Unsafe \subseteq Vertices
  BY DEF Unsafe, ClusterRoots, TensorLists
<1>4. Types'
  BY <1>1, <1>2, <1>3, GraphStays
     DEF IInv, Types, Passes, EphemeralEdges, Coloured, On
<1>5. DenyFacts'
  <2>1. Denied \cap (On("allow") \cup IsOp("Cast")) = {}
    <3>1. Coloured \cap (On("allow") \cup On("none")) = {}
      BY DEF Coloured, On
    <3> QED BY <1>1, <1>2, <3>1, KindsOfLists
  <2>2. \A v \in Denied \cap IsOp("NextIteration") : \E w \in Denied : <<v, w>> \in graph.edges
    BY <1>1, NextIterationDenied
  <2> QED BY <1>1, <2>1, <2>2, GraphStays DEF DenyFacts
<1>6. AllowFacts'
  <2>1. allow_set \cap Denied = {}
    <3>1. allow_set \subseteq On("allow")
      BY DEF IInv, DenyFacts
    <3> QED BY <1>1, <1>5, <3>1, GraphStays DEF DenyFacts
  <2> QED BY <1>1, <2>1, GraphStays DEF IInv, AllowFacts
<1>7. Stages'
  BY <1>1, <1>2, GraphStays, EdgesStay DEF IInv, Stages, Untouched, Dangers
<1> QED BY <1>4, <1>5, <1>6, <1>7 DEF IInv

\* ForceColorMatchBetweenTensorListOps keeps the facts and makes the clusters agree.
LEMMA ForceColorMatch ==
  ASSUME IInv, ForceColorMatchBetweenTensorListOps, graph' = graph,
         pass' \notin {"clusters", "allowlist", "deny"}
  PROVE  /\ allow_set' \subseteq Vertices /\ deny_set' \subseteq Vertices
         /\ DenyFacts' /\ AllowFacts' /\ ListsMatched'
         /\ deny_set \subseteq deny_set'
         /\ allow_set' \subseteq allow_set \cup TensorLists
<1> DEFINE denied == {c \in Clusters : c \cap deny_set # {}}
           allowed == {c \in Clusters \ denied : c \cap allow_set # {}}
<1>1. /\ allow_set' = (allow_set \ UNION denied) \cup UNION allowed
      /\ deny_set' = deny_set \cup UNION denied
  BY DEF ForceColorMatchBetweenTensorListOps
<1>2. IsGraph(graph) /\ \A c, d \in Clusters : c \cap d # {} => c = d
  BY ClustersDisjoint DEF IInv, Types
<1>3. /\ UNION denied \subseteq TensorLists /\ UNION allowed \subseteq TensorLists
      /\ UNION denied \subseteq UNION Clusters /\ UNION allowed \subseteq UNION Clusters
  BY <1>2, KindsOfLists
<1>4. (UNION allowed) \cap (UNION denied) = {} /\ (UNION allowed) \cap deny_set = {}
  BY <1>2
<1>5. TensorLists \subseteq Vertices
  BY DEF TensorLists
<1>6. ListsMatched'
  <2>1. ASSUME NEW c \in Clusters PROVE c \subseteq allow_set' \/ c \cap allow_set' = {}
    <3>1. CASE c \in denied
      BY <1>1, <1>4, <3>1
    <3>2. CASE c \in allowed
      BY <1>1, <3>2
    <3>3. CASE c \notin denied /\ c \notin allowed
      <4>1. c \cap UNION allowed = {}
        BY <1>2, <3>3
      <4>2. c \cap allow_set = {}
        BY <3>3
      <4> HIDE DEF denied, allowed
      <4> QED BY <1>1, <4>1, <4>2
    <3> QED BY <3>1, <3>2, <3>3
  <2> QED BY <2>1, GraphStays DEF ListsMatched
<1> HIDE DEF denied, allowed
<1>7. DenyFacts'
  <2>1. TensorLists \cap (On("allow") \cup IsOp("Cast") \cup IsOp("NextIteration")) = {}
    BY <1>2, KindsOfLists
  <2>2. deny_set' \cap (On("allow") \cup IsOp("Cast")) = {}
    BY <1>1, <1>3, <2>1 DEF IInv, DenyFacts
  <2>3. ASSUME NEW v \in deny_set' \cap IsOp("NextIteration")
        PROVE  \E w \in deny_set' : <<v, w>> \in graph.edges
    <3>1. v \in deny_set
      BY <1>1, <1>3, <2>1
    <3>2. PICK w \in deny_set : <<v, w>> \in graph.edges
      BY <3>1 DEF IInv, DenyFacts
    <3> QED BY <1>1, <3>2
  <2> QED BY <2>2, <2>3, GraphStays DEF DenyFacts
<1>8. AllowFacts'
  <2>1. allow_set' \cap deny_set' = {}
    BY <1>1, <1>4 DEF IInv, AllowFacts
  <2>2. TensorLists \subseteq graph.supports
    BY <1>2, KindsOfLists
  <2> QED BY <1>1, <1>3, <2>1, <2>2, GraphStays DEF IInv, AllowFacts
<1> QED BY <1>1, <1>3, <1>5, <1>6, <1>7, <1>8 DEF IInv, Types

\* MatchLists keeps the invariant.
LEMMA MatchListsStep ==
  ASSUME IInv, MatchListsFirst \/ MatchListsAgain
  PROVE  IInv'
<1> USE DEF MatchListsFirst, MatchListsAgain, Continue
<1>1. /\ graph' = graph /\ IsGraph(graph) /\ ForceColorMatchBetweenTensorListOps
      /\ UNCHANGED <<ephemeral, status, dtype, casts>>
      /\ \/ pass = "lists1" /\ pass' = "between"
         \/ pass = "lists2" /\ pass' = "loops"
  BY DEF IInv, Types
<1>2. /\ allow_set' \subseteq Vertices /\ deny_set' \subseteq Vertices
      /\ DenyFacts' /\ AllowFacts' /\ ListsMatched'
      /\ deny_set \subseteq deny_set'
      /\ allow_set' \subseteq allow_set \cup TensorLists
  BY <1>1, ForceColorMatch
<1>3. Types'
  BY <1>1, <1>2, GraphStays DEF IInv, Types, Passes, EphemeralEdges
<1>4. Stages'
  <2>1. Dangers'
    BY <1>1, <1>2, GraphStays, EdgesStay DEF IInv, Stages, Dangers
  <2>2. pass' = "loops" => Supported'
    <3>1. TensorLists \subseteq graph.supports /\ TensorLists \cap On("allow") = {}
      BY <1>1, KindsOfLists
    <3> QED BY <1>1, <1>2, <3>1, GraphStays DEF IInv, Stages, Supported
  <2> QED BY <1>1, <1>2, <2>1, <2>2, GraphStays DEF IInv, Stages, Untouched
<1> QED BY <1>2, <1>3, <1>4 DEF IInv

\* A pass that adds to allow_set only vertices that may be painted.
LEMMA PaintStep ==
  ASSUME IInv, graph' = graph, UNCHANGED <<ephemeral, deny_set, status, dtype, casts>>,
         allow_set' \subseteq allow_set \cup Paintable \cup (On("allow") \cap graph.process),
         \/ pass = "between" /\ pass' = "follow"
         \/ pass = "follow" /\ pass' = "clear"
         \/ pass = "clear" /\ pass' = "fp32"
  PROVE  IInv'
<1>1. IsGraph(graph) /\ allow_set' \subseteq Vertices
  <2>1. IsGraph(graph) /\ graph.process \subseteq Vertices
    BY DEF IInv, Types, IsGraph, Vertices
  <2> QED BY <2>1 DEF IInv, Types, Paintable
<1>2. Types'
  BY <1>1, GraphStays DEF IInv, Types, Passes, EphemeralEdges
<1>3. DenyFacts'
  BY GraphStays DEF IInv, DenyFacts
<1>4. AllowFacts'
  <2>1. TensorLists \cap On("allow") = {}
    BY <1>1, KindsOfLists
  <2> QED BY <2>1, GraphStays DEF IInv, AllowFacts, DenyFacts, Paintable
<1>5. Stages'
  BY GraphStays, EdgesStay DEF IInv, Stages, Dangers, Untouched
<1> QED BY <1>2, <1>3, <1>4, <1>5 DEF IInv

\* Between keeps the invariant.
LEMMA BetweenStep ==
  ASSUME IInv, AddClearAndInferToAllowIfBetweenAllow
  PROVE  IInv'
<1> USE DEF AddClearAndInferToAllowIfBetweenAllow, Continue
<1> DEFINE A == On("allow") \cap graph.process
           C == Paintable \cap (On("clear") \cup On("infer"))
<1>1. IsGraph(graph)
  BY DEF IInv, Types
<1>2. C \subseteq Vertices /\ A \subseteq Vertices
  BY DEF On
<1>3. IsFiniteSet(C)
  <2> HIDE DEF C
  <2> QED BY <1>1, <1>2, VerticesFinite
<1>4. DownstreamOfAllow \subseteq A \cup C
  <2>1. DownstreamOfAllow = DfsTypeTraversal(A, TypeEdges, C)
    BY DEF DownstreamOfAllow
  <2> HIDE DEF A, C
  <2> QED BY <1>3, <2>1, DfsVisits
<1>5. BetweenAllow \subseteq A \cup C
  <2>1. BetweenAllow = DfsTypeTraversal(A, Reversed(TypeEdges), DownstreamOfAllow)
    BY DEF BetweenAllow
  <2> HIDE DEF A, C
  <2>2. IsFiniteSet(DownstreamOfAllow)
    BY <1>1, <1>2, <1>4, VerticesFinite
  <2>3. BetweenAllow \subseteq A \cup DownstreamOfAllow
    BY <2>1, <2>2, DfsVisits
  <2> QED BY <1>4, <2>3
<1> QED BY <1>5, PaintStep

\* Follow keeps the invariant.
LEMMA FollowStep ==
  ASSUME IInv, AddInferToAllowIfFollowAllow
  PROVE  IInv'
<1>1. IsGraph(graph)
  BY DEF IInv, Types
<1> QED BY <1>1, FollowAllowAdds, PaintStep DEF AddInferToAllowIfFollowAllow, Continue

\* Clear keeps the invariant.
LEMMA ClearStep ==
  ASSUME IInv, PropagateAllowThroughClear
  PROVE  IInv'
<1> USE DEF PropagateAllowThroughClear, Continue
<1> DEFINE C == (Paintable \cap On("clear")) \ (allow_set \cup graph.readsVar)
           A == allow_set \cap graph.process
           D == DfsTypeTraversal(A, Symmetric(TypeEdges), C)
<1>1. IsGraph(graph) /\ C \subseteq Vertices
  BY DEF IInv, Types, On
<1>2. D \subseteq A \cup C
  <2> HIDE DEF C, A
  <2> QED BY <1>1, VerticesFinite, DfsVisits
<1>3. allow_set' = allow_set \cup D
  OBVIOUS
<1> HIDE DEF D
<1>4. allow_set' \subseteq allow_set \cup Paintable
  BY <1>2, <1>3
<1> QED BY <1>4, PaintStep

\* Fp32 keeps the invariant.
LEMMA Fp32Step ==
  ASSUME IInv, RemoveAllowsetWithFp32
  PROVE  IInv'
<1> USE DEF RemoveAllowsetWithFp32, Continue
<1>1. /\ graph' = graph /\ IsGraph(graph) /\ pass = "fp32" /\ pass' = "lists2"
      /\ UNCHANGED <<ephemeral, deny_set, status, dtype, casts>>
      /\ allow_set' \subseteq allow_set /\ allow_set \subseteq Vertices
  BY DEF IInv, Types
<1>2. Types' /\ DenyFacts' /\ AllowFacts'
  BY <1>1, GraphStays DEF IInv, Types, Passes, EphemeralEdges, DenyFacts, AllowFacts
<1>3. Supported'
  <2>1. allow_set' \subseteq graph.supports \ (On("allow") \cap graph.quantized)
    BY <1>1 DEF IInv, AllowFacts
  <2> QED BY <1>1, <2>1, GraphStays DEF Supported
<1>4. Stages'
  BY <1>1, <1>3, GraphStays, EdgesStay DEF IInv, Stages, Dangers, Untouched
<1> QED BY <1>2, <1>4 DEF IInv

\* A pair is its two components.
LEMMA Pair ==
  ASSUME NEW S, NEW p \in S \X S
  PROVE  p = <<p[1], p[2]>> /\ p[1] \in S /\ p[2] \in S
OBVIOUS

\* Loops keeps the invariant.
LEMMA LoopsStep ==
  ASSUME IInv, ForceColorMatchOnRecurrentEdges
  PROVE  IInv'
<1> USE DEF ForceColorMatchOnRecurrentEdges, Continue
<1>1. /\ graph' = graph /\ IsGraph(graph) /\ pass = "loops"
      /\ UNCHANGED <<ephemeral, deny_set, dtype, casts>>
  BY DEF IInv, Types
<1>2. CASE /\ \A v \in IsOp("NextIteration") : Fanout(v) \subseteq IsOp("Merge")
           /\ allow_set' = RecurrentEdges
           /\ pass' = "existing casts"
           /\ UNCHANGED status
  <2> DEFINE matched == {v \in IsOp("NextIteration") : Fanout(v) \subseteq allow_set}
             unmatched == IsOp("NextIteration") \ matched
             behind == UNION {Fanout(v) : v \in unmatched}
  <2>1. allow_set' = (allow_set \cup matched) \ (unmatched \cup behind)
    BY <1>2 DEF RecurrentEdges
  <2>2. behind \subseteq IsOp("Merge")
    BY <1>2
  <2>3. IsOp("Merge") \cap IsOp("NextIteration") = {} /\ IsOp("Merge") \subseteq Vertices
        /\ IsOp("NextIteration") \subseteq Vertices
    BY DEF IsOp
  <2>4. matched \cap deny_set = {}
    <3> SUFFICES ASSUME NEW v \in matched \cap deny_set PROVE FALSE
      OBVIOUS
    <3>1. PICK w \in deny_set : <<v, w>> \in graph.edges
      BY DEF IInv, DenyFacts
    <3>2. w \in Fanout(v)
      BY <3>1 DEF IInv, Types, Fanout
    <3>3. w \in allow_set \cap deny_set
      BY <3>1, <3>2
    <3> QED BY <3>3 DEF IInv, AllowFacts
  <2>5. IsOp("NextIteration") \subseteq On("clear") \cap graph.supports
        /\ TensorLists \cap (IsOp("NextIteration") \cup IsOp("Merge")) = {}
    BY <1>1, KindsOfLists
  <2>6. On("clear") \cap On("allow") = {}
    BY DEF On
  <2>7. LoopsMatched'
    <3>1. ASSUME NEW e \in graph.edges, e[1] \in IsOp("NextIteration")
          PROVE  e[1] \in allow_set' <=> e[2] \in allow_set'
      <4>1. e = <<e[1], e[2]>> /\ e[1] \in Vertices /\ e[2] \in Vertices
        <5>1. graph.edges \subseteq Vertices \X Vertices
          BY <1>1 DEF IsGraph, Vertices
        <5>2. e \in Vertices \X Vertices
          BY <5>1
        <5> QED BY <5>2, Pair
      <4>2. e[2] \in Fanout(e[1]) /\ e[2] \in IsOp("Merge")
        BY <1>2, <3>1, <4>1 DEF Fanout
      <4>3. CASE e[1] \in matched
        <5>1. e[1] \in allow_set'
          <6>1. e[1] \notin unmatched
            BY <4>3
          <6>2. e[1] \notin behind
            BY <2>2, <2>3, <3>1
          <6> HIDE DEF matched, unmatched, behind
          <6> QED BY <2>1, <4>3, <6>1, <6>2
        <5>2. e[2] \in allow_set
          BY <4>2, <4>3
        <5>3. e[2] \notin behind
          <6> SUFFICES ASSUME NEW v \in unmatched, e[2] \in Fanout(v) PROVE FALSE
            OBVIOUS
          <6>1. <<v, e[2]>> \in graph.edges
            BY DEF Fanout
          <6>2. graph.op[v] = "NextIteration" /\ graph.op[e[1]] = "NextIteration"
            BY <3>1 DEF IsOp
          <6>3. e = <<v, e[2]>>
            BY <1>1, <6>1, <6>2 DEF IsGraph
          <6>4. v = e[1]
            <7>1. <<v, e[2]>>[1] = v
              OBVIOUS
            <7> QED BY <6>3, <7>1, Zenon
          <6> QED BY <4>3, <6>4
        <5>4. e[2] \notin unmatched
          BY <2>3, <4>2
        <5> QED BY <2>1, <5>1, <5>2, <5>3, <5>4
      <4>4. CASE e[1] \in unmatched
        <5>1. e[2] \in behind
          BY <4>2, <4>4
        <5> QED BY <2>1, <4>4, <5>1
      <4> QED BY <3>1, <4>3, <4>4
    <3> QED BY <1>1, <3>1, GraphStays DEF LoopsMatched
  <2>8. matched \subseteq IsOp("NextIteration") /\ unmatched \subseteq IsOp("NextIteration")
    OBVIOUS
  <2> HIDE DEF matched, unmatched, behind
  <2>9. Types'
    BY <1>1, <1>2, <2>1, <2>3, <2>8, GraphStays DEF IInv, Types, Passes, EphemeralEdges
  <2>10. DenyFacts'
    BY <1>1, <1>2, GraphStays DEF IInv, DenyFacts
  <2>11. AllowFacts'
    <3>1. allow_set' \cap deny_set' = {}
      BY <1>1, <2>1, <2>4 DEF IInv, AllowFacts
    <3> QED BY <1>1, <2>1, <2>5, <2>8, <3>1, GraphStays DEF IInv, AllowFacts
  <2>12. ListsMatched'
    <3>1. ASSUME NEW c \in Clusters PROVE c \subseteq allow_set' \/ c \cap allow_set' = {}
      <4>1. c \subseteq TensorLists
        BY <1>1, KindsOfLists
      <4>2. c \subseteq allow_set \/ c \cap allow_set = {}
        BY <1>1 DEF IInv, Stages, ListsMatched
      <4>3. c \cap (matched \cup unmatched \cup behind) = {}
        BY <2>2, <2>5, <2>8, <4>1
      <4> QED BY <2>1, <4>2, <4>3
    <3> QED BY <1>1, <3>1, GraphStays DEF ListsMatched
  <2>13. Supported'
    BY <1>1, <2>1, <2>5, <2>6, <2>8, GraphStays DEF IInv, Stages, Supported
  <2>14. Stages'
    BY <1>1, <1>2, <2>7, <2>12, <2>13, GraphStays, EdgesStay DEF IInv, Stages, Dangers, Untouched
  <2> QED BY <2>9, <2>10, <2>11, <2>14 DEF IInv
<1>3. CASE status' = "FailedPrecondition" /\ pass' = "done" /\ UNCHANGED allow_set
  <2>1. Types' /\ DenyFacts' /\ AllowFacts'
    BY <1>1, <1>3, GraphStays DEF IInv, Types, Passes, EphemeralEdges, DenyFacts, AllowFacts
  <2>2. Stages'
    BY <1>1, <1>3, GraphStays DEF IInv, Stages, Untouched
  <2> QED BY <2>1, <2>2 DEF IInv
<1> QED BY <1>2, <1>3

\* Casts keeps the invariant.
LEMMA CastsStep ==
  ASSUME IInv, MakeCastsAllowIfAllOutputsAllow
  PROVE  IInv'
<1> USE DEF MakeCastsAllowIfAllOutputsAllow, Continue
<1>1. /\ graph' = graph /\ IsGraph(graph) /\ pass = "existing casts" /\ pass' = "convert"
      /\ UNCHANGED <<ephemeral, deny_set, status, dtype, casts>>
      /\ allow_set \subseteq allow_set' /\ allow_set' \subseteq allow_set \cup IsOp("Cast")
      /\ allow_set' \subseteq Vertices
  BY DEF IInv, Types, IsOp
<1>2. /\ IsOp("Cast") \subseteq On("none") \cap graph.supports
      /\ TensorLists \cap IsOp("Cast") = {}
  BY <1>1, KindsOfLists
<1>3. Types' /\ DenyFacts'
  BY <1>1, GraphStays DEF IInv, Types, Passes, EphemeralEdges, DenyFacts
<1>4. AllowFacts'
  BY <1>1, <1>2, GraphStays DEF IInv, AllowFacts, DenyFacts
<1>5. Supported'
  <2>1. On("none") \cap On("allow") = {}
    BY DEF On
  <2>2. allow_set \subseteq graph.supports \ (On("allow") \cap graph.quantized)
    BY <1>1 DEF IInv, Stages, Supported
  <2>3. allow_set' \subseteq graph.supports \ (On("allow") \cap graph.quantized)
    BY <1>1, <1>2, <2>1, <2>2
  <2> QED BY <1>1, <2>3, GraphStays DEF Supported
<1>6. ListsMatched'
  <2>1. ASSUME NEW c \in Clusters PROVE c \subseteq allow_set' \/ c \cap allow_set' = {}
    <3>1. c \cap IsOp("Cast") = {}
      BY <1>1, <1>2, KindsOfLists
    <3>2. c \subseteq allow_set \/ c \cap allow_set = {}
      BY <1>1 DEF IInv, Stages, ListsMatched
    <3> QED BY <1>1, <3>1, <3>2
  <2> QED BY <1>1, <2>1, GraphStays DEF ListsMatched
<1>7. LoopsMatched'
  <2>1. ASSUME NEW e \in graph.edges, e[1] \in IsOp("NextIteration")
        PROVE  e[1] \in allow_set' <=> e[2] \in allow_set'
    <3>1. e[1] \notin IsOp("Cast") /\ e[2] \notin IsOp("Cast")
      BY <1>1, <2>1 DEF IsOp, IsGraph
    <3>2. e[1] \in allow_set <=> e[2] \in allow_set
      BY <1>1, <2>1 DEF IInv, Stages, LoopsMatched
    <3> QED BY <1>1, <3>1, <3>2
  <2> QED BY <1>1, <2>1, GraphStays DEF LoopsMatched
<1>8. Stages'
  BY <1>1, <1>5, <1>6, <1>7, GraphStays, EdgesStay DEF IInv, Stages, Dangers, Untouched
<1> QED BY <1>3, <1>4, <1>8 DEF IInv

\* Convert keeps the invariant.
LEMMA ConvertStep ==
  ASSUME IInv, ChangeTypeAttrsAndAddCasts
  PROVE  IInv'
<1> USE DEF Continue
<1>1. /\ graph' = graph /\ IsGraph(graph) /\ pass = "convert" /\ pass' = "done"
      /\ UNCHANGED <<ephemeral, allow_set, deny_set>>
      /\ Dangers /\ Supported /\ ListsMatched /\ LoopsMatched /\ Untouched
  BY DEF IInv, Types, Stages, ChangeTypeAttrsAndAddCasts
<1>2. allow_set \cap graph.f32 \subseteq graph.supports
  BY <1>1 DEF Supported
<1>3. /\ dtype' = [v \in Vertices |->
                     IF v \in allow_set /\ dtype[v] = "f32" THEN "f16" ELSE dtype[v]]
      /\ casts' = BoundaryCasts /\ status' = "OK"
  BY <1>2 DEF ChangeTypeAttrsAndAddCasts
<1>4. dtype' = NewTypes
  <2>1. \A v \in Vertices : dtype[v] = IF v \in graph.f32 THEN "f32" ELSE "other"
    BY <1>1 DEF Untouched, InitialTypes, Vertices
  <2> QED BY <1>3, <2>1 DEF NewTypes
<1>5. NewTypes' = NewTypes /\ BoundaryCasts' = BoundaryCasts
  BY <1>1, GraphStays DEF NewTypes, BoundaryCasts
<1>6. /\ Dangers' /\ Supported' /\ ListsMatched' /\ LoopsMatched'
  BY <1>1, GraphStays, EdgesStay DEF Dangers, Supported, ListsMatched, LoopsMatched
<1>7. Converted'
  BY <1>3, <1>4, <1>5, <1>6 DEF Converted
<1>8. Types' /\ DenyFacts' /\ AllowFacts'
  BY <1>1, <1>3, GraphStays DEF IInv, Types, Passes, EphemeralEdges, DenyFacts, AllowFacts
<1>9. Stages'
  BY <1>1, <1>7 DEF Stages
<1> QED BY <1>8, <1>9 DEF IInv

\* Every pass keeps the invariant.
LEMMA NextIInv == IInv /\ [Next]_vars => IInv'
<1> SUFFICES ASSUME IInv, [Next]_vars PROVE IInv'
  OBVIOUS
<1>1. CASE UNCHANGED vars
  <2> USE <1>1 DEF vars
  <2>1. Types' /\ DenyFacts' /\ AllowFacts'
    BY GraphStays DEF IInv, Types, EphemeralEdges, DenyFacts, AllowFacts
  <2>2. Dangers' = Dangers /\ Supported' = Supported /\ ListsMatched' = ListsMatched
        /\ LoopsMatched' = LoopsMatched
    BY GraphStays, EdgesStay DEF Dangers, Supported, ListsMatched, LoopsMatched
  <2>3. Untouched' = Untouched
    BY GraphStays DEF Untouched
  <2>4. Converted' = Converted
    BY <2>2, GraphStays DEF Converted, NewTypes, BoundaryCasts
  <2>5. Stages'
    BY <2>2, <2>3, <2>4 DEF IInv, Stages
  <2> QED BY <2>1, <2>5 DEF IInv
<1> QED BY <1>1, ClustersStep, AllowlistStep, DenyStep, MatchListsStep, BetweenStep,
        FollowStep, ClearStep, Fp32Step, LoopsStep, CastsStep, ConvertStep DEF Next

-----------------------------------------------------------------------------
(* The theorems.                                                           *)

\* The invariant holds after every pass.
LEMMA Invariant == Spec => []IInv
BY InitIInv, NextIInv, PTL DEF Spec

\* Nothing but float32 vertices of allow_set is changed.
LEMMA ChangedIs ==
  ASSUME IInv
  PROVE  \/ Changed = {}
         \/ Changed = allow_set \cap graph.f32 /\ Converted /\ pass = "done"
<1>1. CASE Untouched
  BY <1>1 DEF Untouched, Changed
<1>2. CASE Converted /\ pass = "done"
  <2>1. \A v \in Vertices : InitialTypes(graph)[v] = IF v \in graph.f32 THEN "f32" ELSE "other"
    BY DEF InitialTypes, Vertices
  <2>2. \A v \in Vertices : dtype[v] = IF v \in graph.f32
                                       THEN IF v \in allow_set THEN "f16" ELSE "f32"
                                       ELSE "other"
    BY <1>2 DEF Converted, NewTypes
  <2>3. Changed = allow_set \cap graph.f32
    BY <2>1, <2>2 DEF Changed, IInv, Types
  <2> QED BY <1>2, <2>3
<1> QED BY <1>1, <1>2 DEF IInv, Stages

\* Every variable keeps its type (AutoMixedPrecisionImpl::Optimize).
THEOREM TypeCorrect == Spec => []TypeOK
<1>1. IInv => TypeOK
  <2> SUFFICES ASSUME IInv PROVE TypeOK
    OBVIOUS
  <2>1. ephemeral \subseteq Vertices \X Vertices
    BY DEF IInv, Types, EphemeralEdges, IsOp
  <2>2. dtype \in [Vertices -> {"f32", "f16", "other"}] /\ DOMAIN casts \subseteq graph.edges
    <3>1. CASE Untouched
      <4>1. dtype \in [Vertices -> {"f32", "f16", "other"}]
        BY <3>1 DEF Untouched, InitialTypes, Vertices
      <4>2. DOMAIN casts = {}
        BY <3>1 DEF Untouched
      <4> QED BY <4>1, <4>2
    <3>2. CASE Converted
      <4>1. dtype \in [Vertices -> {"f32", "f16", "other"}]
        BY <3>2 DEF Converted, NewTypes
      <4>2. DOMAIN casts \subseteq graph.edges
        BY <3>2 DEF Converted, BoundaryCasts
      <4> QED BY <4>1, <4>2
    <3> QED BY <3>1, <3>2 DEF IInv, Stages
  <2> QED BY <2>1, <2>2 DEF IInv, Types, TypeOK
<1> QED BY <1>1, Invariant, PTL

\* Along every edge of the output graph the types agree, or there is exactly the
\* cast between them (ChangeTypeAttrsAndAddCasts).
THEOREM OutputWellTyped == Spec => []TypesAgree
<1>1. IInv => TypesAgree
  <2> SUFFICES ASSUME IInv, NEW e \in graph.edges
               PROVE  IF e \in DOMAIN casts
                      THEN casts[e].SrcT = dtype[e[1]] /\ casts[e].DstT = dtype[e[2]]
                           /\ dtype[e[1]] # dtype[e[2]]
                      ELSE dtype[e[1]] = dtype[e[2]]
    BY DEF TypesAgree
  <2>1. graph.edges \subseteq Vertices \X Vertices
    BY DEF IInv, Types, IsGraph, Vertices
  <2>2. e[1] \in Vertices /\ e[2] \in Vertices
    BY <2>1, Pair
  <2>3. e[1] \in graph.f32 <=> e[2] \in graph.f32
    BY DEF IInv, Types, IsGraph
  <2>4. CASE Untouched
    <3>1. dtype[e[1]] = dtype[e[2]]
      BY <2>2, <2>3, <2>4 DEF Untouched, InitialTypes, Vertices
    <3>2. DOMAIN casts = {}
      BY <2>4 DEF Untouched
    <3> QED BY <3>1, <3>2
  <2>5. CASE Converted
    <3>1. \A v \in Vertices : dtype[v] = IF v \in graph.f32
                                         THEN IF v \in allow_set THEN "f16" ELSE "f32"
                                         ELSE "other"
      BY <2>5 DEF Converted, NewTypes
    <3>2. e \in DOMAIN casts <=> e[1] \in graph.f32 /\ (e[1] \in allow_set <=> e[2] \notin allow_set)
      BY <2>5 DEF Converted, BoundaryCasts
    <3>3. e \in DOMAIN casts =>
            casts[e] = IF e[2] \in allow_set THEN [SrcT |-> "f32", DstT |-> "f16"]
                                             ELSE [SrcT |-> "f16", DstT |-> "f32"]
      BY <2>5 DEF Converted, BoundaryCasts
    <3>4. CASE e \in DOMAIN casts
      <4>1. CASE e[2] \in allow_set
        BY <2>2, <2>3, <3>1, <3>2, <3>3, <3>4, <4>1
      <4>2. CASE e[2] \notin allow_set
        BY <2>2, <2>3, <3>1, <3>2, <3>3, <3>4, <4>2
      <4> QED BY <4>1, <4>2
    <3>5. CASE e \notin DOMAIN casts
      BY <2>2, <2>3, <3>1, <3>2, <3>5
    <3> QED BY <3>4, <3>5
  <2> QED BY <2>4, <2>5 DEF IInv, Stages
<1> QED BY <1>1, Invariant, PTL

\* SetDataType never fails and no node loses its kernel, although pass 1 paints
\* without looking and lists and loops are painted after pass 6
\* (RemoveAllowsetWithFp32).
THEOREM ConversionNeverFails == Spec => []ConversionSucceeds
<1>1. IInv => ConversionSucceeds
  <2> SUFFICES ASSUME IInv PROVE ConversionSucceeds
    OBVIOUS
  <2>1. status # "Internal"
    BY DEF IInv, Stages, Untouched, Converted
  <2>2. Changed \subseteq graph.supports \ (On("allow") \cap graph.quantized)
    BY ChangedIs DEF Converted, Supported
  <2> QED BY <2>1, <2>2 DEF ConversionSucceeds
<1> QED BY <1>1, Invariant, PTL

\* Denylist ops and what lies on a path from one through clear and infer nodes to a
\* deny or infer node stay in float32, on every graph, unless the path runs through
\* an op on a tensor list that was denied before
\* (PropagateDenyFwdThroughClearAndInfer).
THEOREM DangerousUnchanged == Spec => []DangerousStaysFloat32
<1>1. IInv => DangerousStaysFloat32
  BY ChangedIs DEF Converted, Dangers, IInv, AllowFacts, DangerousStaysFloat32
<1> QED BY <1>1, Invariant, PTL

\* All ops on one tensor list agree on its element type; lists that leave the graph
\* or are used on another device stay in float32
\* (ForceColorMatchBetweenTensorListOps, FindTensorListClusters).
THEOREM ListsAgree == Spec => []ListsOneType
<1>1. IInv => ListsOneType
  <2> SUFFICES ASSUME IInv PROVE ListsOneType
    OBVIOUS
  <2>1. IsGraph(graph)
    BY DEF IInv, Types
  <2>2. TensorLists \subseteq graph.f32 /\ UNION Clusters \subseteq TensorLists
    BY <2>1, KindsOfLists
  <2>3. CASE Changed = {}
    BY <2>3 DEF ListsOneType
  <2>4. CASE Changed = allow_set \cap graph.f32 /\ Converted
    <3>1. ASSUME NEW c \in Clusters PROVE c \subseteq Changed \/ c \cap Changed = {}
      BY <2>2, <2>4 DEF Converted, ListsMatched
    <3>2. ASSUME NEW v \in TensorLists, v \in Changed,
                 Connected(v) \cap IsOp("boundary") # {} \/ ~(Cluster(v) \subseteq graph.process)
          PROVE  FALSE
      <4>1. v \in allow_set /\ Unsafe \subseteq deny_set /\ allow_set \cap deny_set = {}
        BY <2>4, <3>2 DEF Converted, Dangers, IInv, AllowFacts
      <4>2. CASE v \in graph.process
        <5>1. v \in Unsafe
          BY <3>2, <4>2 DEF Unsafe, ClusterRoots
        <5> QED BY <4>1, <5>1
      <4>3. CASE v \in UNION Clusters
        <5>1. PICK r \in ClusterRoots : v \in Cluster(r)
          BY <4>3 DEF Clusters
        <5>2. r \in Vertices /\ v \in Connected(r) /\ r \in TensorLists
          BY <5>1 DEF ClusterRoots, TensorLists, Cluster
        <5>3. Connected(v) = Connected(r)
          BY <2>1, <5>2, ConnectedSame
        <5>4. r \in Unsafe
          BY <3>2, <5>3 DEF Unsafe, Cluster
        <5>5. r \in Connected(r)
          <6>1. IsFiniteSet(Vertices)
            BY <2>1, VerticesFinite
          <6>2. {r} \subseteq Connected(r)
            BY <6>1, DfsVisits DEF Connected
          <6> QED BY <6>2
        <5>6. r \in Cluster(r)
          BY <5>2, <5>5 DEF Cluster
        <5>7. Cluster(r) \in Clusters
          BY DEF Clusters
        <5>8. r \in allow_set
          BY <2>4, <4>1, <5>1, <5>6, <5>7 DEF Converted, ListsMatched
        <5> QED BY <4>1, <5>4, <5>8
      <4> QED BY <3>2, <4>1, <4>2, <4>3 DEF IInv, AllowFacts
    <3> QED BY <3>1, <3>2 DEF ListsOneType
  <2> QED BY <2>3, <2>4, ChangedIs
<1> QED BY <1>1, Invariant, PTL

\* No cast is inserted between a NextIteration and the Merges it feeds
\* (ForceColorMatchOnRecurrentEdges).
THEOREM NoCastInLoops == Spec => []LoopsWithoutCasts
<1>1. IInv => LoopsWithoutCasts
  <2> SUFFICES ASSUME IInv, NEW e \in DOMAIN casts, graph.op[e[1]] = "NextIteration"
               PROVE  FALSE
    BY DEF LoopsWithoutCasts
  <2>1. CASE Untouched
    BY <2>1 DEF Untouched
  <2>2. CASE Converted
    <3>1. e \in graph.edges /\ (e[1] \in allow_set <=> e[2] \notin allow_set)
      BY <2>2 DEF Converted, BoundaryCasts
    <3>2. graph.edges \subseteq Vertices \X Vertices
      BY DEF IInv, Types, IsGraph, Vertices
    <3>3. e[1] \in Vertices
      BY <3>1, <3>2, Pair
    <3> QED BY <2>2, <3>1, <3>3 DEF Converted, LoopsMatched, IsOp
  <2> QED BY <2>1, <2>2 DEF IInv, Stages
<1> QED BY <1>1, Invariant, PTL

\* No vertex is ever in both sets, although neither ForceColorMatchOnRecurrentEdges
\* nor MakeCastsAllowIfAllOutputsAllow looks at deny_set.
THEOREM NeverBothColours == Spec => []ColoursDisjoint
<1>1. IInv => ColoursDisjoint
  BY DEF IInv, AllowFacts, ColoursDisjoint
<1> QED BY <1>1, Invariant, PTL

=============================================================================
