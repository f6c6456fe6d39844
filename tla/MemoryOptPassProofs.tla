------------------------- MODULE MemoryOptPassProofs -------------------------
(***************************************************************************)
(* What MemoryOptPass promises, for every graph, any number of passes and  *)
(* runs, and whatever order the executor picks.                            *)
(*                                                                         *)
(* The pass decides once, from the shape of the graph; the runs happen     *)
(* later.  The inductive invariant therefore has two halves: what the      *)
(* marks mean as facts about the graph (Safe, FilterMarks, PackedMarks),   *)
(* and how far a run has come and which buffers are where (Runs).          *)
(***************************************************************************)
EXTENDS MemoryOptPass, FiniteSetTheorems, WellFoundedInduction, TLAPS

-----------------------------------------------------------------------------
(* The inductive invariant.                                                *)

\* The graphs of which BuffersIntact is proved: GetStaticRefCount counts the readers
\* of the buffer it is asked about.  That is, an op that may work in place reads
\* one output of the producer, that output is not somebody else's buffer handed on,
\* and nobody hands it on.
RefCountsExact ==
  \A n \in Nodes : \A i \in ToSet(GetCandidateForwardPort(n)) :
    LET t == g.in[n][i]
    IN  /\ \A j \in DOMAIN g.in[n] : g.in[n][j][1] = t[1] => g.in[n][j] = t
        /\ ~IsView(t[1])
        /\ \A e \in Fanout(t) : ~IsView(e[1])

Closed(S) == \A m \in S : Fanin(m) \subseteq S

\* m lies before n: a set that contains the inputs of n and with each node its
\* inputs contains m.
Before(m, n) == \A S \in SUBSET Nodes : Fanin(n) \subseteq S /\ Closed(S) => m \in S

\* Why n may overwrite its input i: it is not a constant, it is not to be preserved
\* (but for oneDNN Graph), its other readers lie before n, and nobody else uses the
\* buffer it is in.
Safe(n, i) ==
  /\ i \in DOMAIN g.in[n]
  /\ g.op[n] # "split" /\ ~IsView(n) /\ ~IsView(g.in[n][i][1])
  /\ \A e \in Fanout(g.in[n][i]) : ~IsView(e[1])
  /\ ~IsAnyConst(g.op[g.in[n][i][1]])
  /\ g.in[n][i][1] \in g.keep => g.op[n] = "llga"
  /\ \A e \in Fanout(g.in[n][i]) : e = <<n, i>> \/ Before(e[1], n)

Marks == \A n \in Nodes : \A i \in forward[n] : Safe(n, i)

\* The same for packed constants, and for filters that are marked constant.
PackedMarks ==
  \A f \in Nodes : packed[f] # 0 =>
    /\ f \notin g.keep
    /\ \E n \in meta : Fanout(<<f, 1>>) = {<<n, 2>>}

FilterMarks ==
  \A n \in is_filter_const :
    n \in Nodes /\ (Quantized(n) \/ (HasFilterAttr(n) /\ FiltersConst(n)))

\* A node whose value is the same in every run.
Unassigned(v) == \A m \in Nodes : g.op[m] = "assign" => Variable(m) # v
Stable(f) ==
  \/ IsAnyConst(g.op[f]) /\ f \notin g.keep
  \/ g.op[f] = "readvar" /\ Unassigned(Variable(f))

Values ==
  /\ \A v \in Nodes : Unassigned(v) => version[v] = 0
  /\ \A f \in Nodes : Stable(f) => val[f] = 0
  /\ \A n \in Nodes :
       n \in is_filter_const /\ (\A i \in GetConstFilterCheckList(n) : Stable(g.in[n][i][1]))
         => /\ cached[n] \in {<< >>, [i \in GetConstFilterCheckList(n) |-> 0]}
            /\ status[n] = "running" => cached[n] # << >>

\* Where a run is.  What has begun has its inputs; a tensor that is there is in the
\* buffer of one that is; it holds its value or has been taken over.
Begun(n)    == status[n] # "idle"
Took(n, t)  == took[n] # 0 /\ g.in[n][took[n]] = t
Runs ==
  /\ \A n \in Nodes : Begun(n) => \A m \in Fanin(n) : status[m] = "done"
  /\ \A n \in Nodes : Begun(n) \/ took[n] = 0
  /\ \A t \in Tensors : Begun(t[1]) => Begun(home[t][1])
  /\ \A t \in Tensors : Begun(t[1]) =>
       Holds(t) \/ \E n \in Nodes : Begun(n) /\ Took(n, t)
  /\ \A t \in Tensors : ~IsView(t[1]) =>
       (IsAnyConst(g.op[t[1]]) <=> IsAnyConst(g.op[home[t][1]]))
  /\ \A t \in Tensors : IsAnyConst(g.op[t[1]]) => home[t] = t /\ holds[t] = t

Types ==
  /\ g \in Graphs
  /\ phase \in {"inplace", "weights", "run"}
  /\ pass \in 0 .. MaxPasses /\ (phase # "run" => pass < MaxPasses)
  /\ index \in 0 .. Len(g.op)
  /\ stack \in Seq(Nodes) /\ is_visited \subseteq Nodes
  /\ forward = [n \in Nodes |-> forward[n]]
  /\ \A n \in Nodes : forward[n] \subseteq DOMAIN g.in[n]
  /\ is_filter_const \subseteq Nodes /\ meta \subseteq Nodes
  /\ packed \in [Nodes -> 0 .. 1]
  /\ runs \in 0 .. MaxRuns /\ (phase # "run" => runs = 0)
  /\ status \in [Nodes -> {"idle", "running", "done"}]
  /\ runs = 0 => \A n \in Nodes : status[n] = "idle" /\ cached[n] = << >>
  /\ runs > 0 => \A n \in Nodes : Source(n) => status[n] = "done"
  /\ took = [n \in Nodes |-> took[n]]
  /\ \A n \in Nodes : took[n] \in forward[n] \cup {0}
  /\ home \in [Tensors -> Tensors] /\ holds \in [Tensors -> Tensors]
  /\ val \in [Nodes -> Nat] /\ version \in [Nodes -> Nat]
  /\ cached = [n \in Nodes |-> cached[n]]
  /\ \A n \in Nodes : DOMAIN cached[n] \in {{}, GetConstFilterCheckList(n)}

IInv ==
  /\ Types
  /\ PackedMarks /\ FilterMarks /\ Values
  /\ RefCountsExact => Marks /\ Runs

-----------------------------------------------------------------------------
(* Natural numbers.                                                        *)

\* A set of naturals that is not empty has a least member.
LEMMA Least ==
  ASSUME NEW T \in SUBSET Nat, T # {}
  PROVE  \E x \in T : \A y \in T : x <= y
<1>. DEFINE R == OpToRel(<, Nat)
<1>1. IsWellFoundedOn(R, Nat)
  BY NatLessThanWellFounded
<1>2. \A y, x \in Nat : y < x => <<y, x>> \in R
  BY DEF OpToRel
<1>. HIDE DEF R
<1>3. PICK x \in T : \A y \in T : ~ (<<y, x>> \in R)
  BY <1>1, WFMin
<1>4. ASSUME NEW y \in T PROVE x <= y
  <2>1. x \in Nat /\ y \in Nat
    OBVIOUS
  <2>2. ~(y < x)
    BY <2>1, <1>2, <1>3
  <2>. QED  BY <2>1, <2>2
<1>. QED  BY <1>4

\* Induction over the natural numbers, with a set for the predicate.
LEMMA Induct ==
  ASSUME NEW P, 0 \in P, \A n \in Nat : n \in P => n + 1 \in P
  PROVE  Nat \subseteq P
<1>. SUFFICES ASSUME Nat \ P # {} PROVE FALSE
  OBVIOUS
<1>1. PICK x \in Nat \ P : \A y \in Nat \ P : x <= y
  BY Least, Nat \ P \in SUBSET Nat
<1>2. x # 0 /\ x - 1 \in Nat /\ x - 1 \in P
  BY <1>1
<1>3. (x - 1) + 1 \in P
  BY <1>2
<1>. QED  BY <1>1, <1>3

-----------------------------------------------------------------------------
(* Graphs.                                                                 *)

\* Nodes, tensors and their readers.
LEMMA GraphFacts ==
  ASSUME IsGraph(g)
  PROVE  /\ Len(g.op) \in Nat /\ Nodes = 1 .. Len(g.op) /\ IsFiniteSet(Nodes)
         /\ g.keep \subseteq Nodes
         /\ \A n \in Nodes : /\ g.in[n] \in Seq(Tensors)
                             /\ Len(g.in[n]) \in Nat
                             /\ DOMAIN g.in[n] = 1 .. Len(g.in[n])
                             /\ \A i \in DOMAIN g.in[n] : g.in[n][i] \in Tensors
                             /\ Fanin(n) \subseteq Nodes
         /\ \A t \in Tensors : /\ t = <<t[1], t[2]>> /\ t[1] \in Nodes
                               /\ t[2] \in Ports(g, t[1]) /\ t[2] \in 1 .. 2
         /\ \A n \in Nodes : \A p \in Ports(g, n) : <<n, p>> \in Tensors
<1>1. Len(g.op) \in Nat /\ Nodes = 1 .. Len(g.op) /\ g.keep \subseteq Nodes
  BY DEF IsGraph, Nodes, NodesOf
<1>2. IsFiniteSet(Nodes)
  BY <1>1, FS_Interval
<1>3. \A t \in Tensors : /\ t = <<t[1], t[2]>> /\ t[1] \in Nodes
                         /\ t[2] \in Ports(g, t[1]) /\ t[2] \in 1 .. 2
  BY DEF Tensors, TensorsOf, Nodes, MaxPorts
<1>4. \A n \in Nodes : \A p \in Ports(g, n) : <<n, p>> \in Tensors
  BY DEF Tensors, TensorsOf, Nodes, MaxPorts, Ports
<1>5. ASSUME NEW n \in Nodes
      PROVE  /\ g.in[n] \in Seq(Tensors)
             /\ Len(g.in[n]) \in Nat
             /\ DOMAIN g.in[n] = 1 .. Len(g.in[n])
             /\ \A i \in DOMAIN g.in[n] : g.in[n][i] \in Tensors
  <2>1. g.in[n] \in Seq(Tensors)
    BY DEF IsGraph, Nodes, Tensors
  <2>. QED  BY <2>1
<1>6. \A n \in Nodes : Fanin(n) \subseteq Nodes
  BY <1>3, <1>5 DEF Fanin
<1>. QED  BY <1>1, <1>2, <1>3, <1>4, <1>5, <1>6

\* The readers of a tensor are the inputs that name it, and finitely many.
LEMMA Readers ==
  ASSUME IsGraph(g), NEW t
  PROVE  /\ \A e : e \in Fanout(t) <=>
              \E n \in Nodes : \E i \in DOMAIN g.in[n] : g.in[n][i] = t /\ e = <<n, i>>
         /\ IsFiniteSet(Fanout(t))
<1>1. ASSUME NEW e
      PROVE  e \in Fanout(t) <=>
               \E n \in Nodes : \E i \in DOMAIN g.in[n] : g.in[n][i] = t /\ e = <<n, i>>
  BY DEF Fanout
<1>. DEFINE F(n) == {n} \X {i \in DOMAIN g.in[n] : g.in[n][i] = t}
            R == {F(n) : n \in Nodes}
<1>2. ASSUME NEW n \in Nodes PROVE IsFiniteSet(F(n))
  <2>1. IsFiniteSet(DOMAIN g.in[n])
    BY GraphFacts, FS_Interval
  <2>2. IsFiniteSet({i \in DOMAIN g.in[n] : g.in[n][i] = t})
    BY <2>1, FS_Subset
  <2>. QED  BY <2>2, FS_Singleton, FS_Product
<1>3. IsFiniteSet(R)
  <2>. DEFINE f == [n \in Nodes |-> F(n)]
  <2>. HIDE DEF F
  <2>1. f \in Surjection(Nodes, R)
    BY DEF Surjection
  <2>. HIDE DEF R, f
  <2>. QED  BY <2>1, GraphFacts, FS_Surjection
<1>4. Fanout(t) = UNION R
  BY DEF Fanout
<1>5. \A r \in R : IsFiniteSet(r)
  BY <1>2
<1>. HIDE DEF R
<1>. QED  BY <1>1, <1>3, <1>4, <1>5, FS_UNION

\* A set of one or two elements, one of which is known.
LEMMA OneOrTwo ==
  ASSUME NEW S, IsFiniteSet(S), NEW a \in S
  PROVE  /\ Cardinality(S) = 1 => S = {a}
         /\ Cardinality(S) = 2 => \E b : b # a /\ S = {a, b}
<1>1. IsFiniteSet(S \ {a}) /\ Cardinality(S \ {a}) = Cardinality(S) - 1
      /\ Cardinality(S) \in Nat
  BY FS_RemoveElement, FS_CardinalityType
<1>2. ASSUME Cardinality(S) = 1 PROVE S = {a}
  <2>1. S \ {a} = {}
    BY <1>1, <1>2, FS_EmptySet
  <2>. QED  BY <2>1
<1>3. ASSUME Cardinality(S) = 2 PROVE \E b : b # a /\ S = {a, b}
  <2>1. Cardinality(S \ {a}) = 1
    BY <1>1, <1>3
  <2>2. PICK b : S \ {a} = {b}
    BY <1>1, <2>1, FS_Singleton
  <2>. QED  BY <2>2
<1>. QED  BY <1>2, <1>3

-----------------------------------------------------------------------------
(* The search for another reader.                                          *)

\* f[k] is the search after k turns.
Turns(f, queue, ref, n) ==
  /\ f = [k \in 0 .. n |-> f[k]]
  /\ f[0] = [found |-> FALSE, queue |-> queue]
  /\ \A k \in 1 .. n : f[k] = Dequeue(f[k - 1], ref)

\* A search has its sequence of turns, whatever its length.
LEMMA TurnsExist ==
  ASSUME NEW queue, NEW ref, NEW n \in Nat
  PROVE  \E f : Turns(f, queue, ref, n)
<1>. DEFINE P == {m \in Nat : \E f : Turns(f, queue, ref, m)}
<1>1. 0 \in P
  <2>. DEFINE f == [k \in 0 .. 0 |-> [found |-> FALSE, queue |-> queue]]
  <2>1. Turns(f, queue, ref, 0)
    BY DEF Turns
  <2>. QED  BY <2>1
<1>2. ASSUME NEW m \in Nat, m \in P PROVE m + 1 \in P
  <2>1. PICK f : Turns(f, queue, ref, m)
    BY <1>2
  <2>. DEFINE h == [k \in 0 .. m + 1 |-> IF k = m + 1 THEN Dequeue(f[m], ref) ELSE f[k]]
  <2>2. h[0] = [found |-> FALSE, queue |-> queue] /\ h = [k \in 0 .. m + 1 |-> h[k]]
    <3>1. f[0] = [found |-> FALSE, queue |-> queue]
      BY <2>1 DEF Turns
    <3>2. h[0] = f[0] /\ h = [k \in 0 .. m + 1 |-> h[k]]
      OBVIOUS
    <3>. HIDE DEF h
    <3>. QED  BY <3>1, <3>2
  <2>3. ASSUME NEW k \in 1 .. m + 1 PROVE h[k] = Dequeue(h[k - 1], ref)
    <3>1. CASE k = m + 1
      <4>1. h[k] = Dequeue(f[m], ref) /\ h[k - 1] = f[m]
        BY <3>1
      <4>. HIDE DEF h
      <4>. QED  BY <4>1
    <3>2. CASE k # m + 1
      <4>1. k \in 1 .. m /\ h[k] = f[k] /\ h[k - 1] = f[k - 1]
        BY <3>2
      <4>. HIDE DEF h
      <4>. QED  BY <2>1, <4>1 DEF Turns
    <3>. QED  BY <3>1, <3>2
  <2>. HIDE DEF h
  <2>4. Turns(h, queue, ref, m + 1)
    BY <2>2, <2>3 DEF Turns
  <2>. QED  BY <2>4
<1>. HIDE DEF P
<1>3. Nat \subseteq P
  BY <1>1, <1>2, Induct
<1>. QED  BY <1>3 DEF P

\* Finds is the outcome of the last turn.
LEMMA FindsTurns ==
  ASSUME NEW queue, NEW ref
  PROVE  \E f : Turns(f, queue, ref, SearchBound) /\ Finds(queue, ref) = f[SearchBound].found
<1>. DEFINE n == SearchBound
            F(f) == [k \in 0 .. n |-> IF k = 0 THEN [found |-> FALSE, queue |-> queue]
                                      ELSE Dequeue(f[k - 1], ref)]
            search == CHOOSE f : f = F(f)
<1>1. Finds(queue, ref) = search[n].found
  BY DEF Finds
<1>2. n \in Nat
  BY GraphsAssumption
<1>. HIDE DEF n
<1>3. PICK f : Turns(f, queue, ref, n)
  BY <1>2, TurnsExist
<1>4. f = F(f)
  <2>1. ASSUME NEW k \in 0 .. n PROVE f[k] = F(f)[k]
    <3>1. CASE k = 0
      BY <1>2, <1>3, <3>1 DEF Turns
    <3>2. CASE k # 0
      BY <1>2, <1>3, <3>2, k \in 1 .. n DEF Turns
    <3>. QED  BY <3>1, <3>2
  <2>2. f = [k \in 0 .. n |-> f[k]]
    BY <1>3 DEF Turns
  <2>3. F(f) = [k \in 0 .. n |-> F(f)[k]]
    OBVIOUS
  <2>. HIDE DEF F
  <2>4. [k \in 0 .. n |-> F(f)[k]] = [k \in 0 .. n |-> f[k]]
    BY <2>1
  <2>. QED  BY <2>2, <2>3, <2>4
<1>. HIDE DEF F
<1>5. search = F(search)
  BY <1>4
<1>. HIDE DEF search
<1>6. search = [k \in 0 .. n |-> IF k = 0 THEN [found |-> FALSE, queue |-> queue]
                                ELSE Dequeue(search[k - 1], ref)]
  BY <1>5 DEF F
<1>7. Turns(search, queue, ref, n)
  <2>1. search = [k \in 0 .. n |-> search[k]]
    BY <1>6
  <2>2. search[0] = [found |-> FALSE, queue |-> queue]
    BY <1>2, <1>6
  <2>3. ASSUME NEW k \in 1 .. n PROVE search[k] = Dequeue(search[k - 1], ref)
    <3>1. k \in 0 .. n /\ k # 0
      BY <1>2
    <3>. QED  BY <1>6, <3>1
  <2>. QED  BY <2>1, <2>2, <2>3 DEF Turns
<1>. QED  BY <1>1, <1>7 DEF n

\* The nodes in the queue all belong to S, and so does ref once it is found.
Within(s, ref, S) == s.queue \in Seq(S) /\ (s.found => ref \in S)

\* A turn stays inside a set that contains with each node its inputs.
LEMMA DequeueWithin ==
  ASSUME IsGraph(g), NEW s, NEW ref, NEW S \in SUBSET Nodes, Closed(S), Within(s, ref, S)
  PROVE  Within(Dequeue(s, ref), ref, S)
<1>1. CASE s.found \/ s.queue = << >>
  BY <1>1 DEF Dequeue
<1>2. CASE ~(s.found \/ s.queue = << >>)
  <2>. DEFINE n == Head(s.queue)  more == [i \in DOMAIN g.in[n] |-> g.in[n][i][1]]
  <2>1. n \in S /\ Tail(s.queue) \in Seq(S)
    BY <1>2 DEF Within
  <2>2. more \in Seq(S)
    <3>1. n \in Nodes /\ Fanin(n) \subseteq S
      BY <2>1 DEF Closed
    <3>. HIDE DEF n
    <3>2. Len(g.in[n]) \in Nat /\ DOMAIN g.in[n] = 1 .. Len(g.in[n])
      BY <3>1, GraphFacts
    <3>3. \A i \in DOMAIN g.in[n] : g.in[n][i][1] \in S
      BY <3>1 DEF Fanin
    <3>. QED  BY <3>2, <3>3
  <2>3. Tail(s.queue) \o more \in Seq(S)
    <3>. HIDE DEF more
    <3>. QED  BY <2>1, <2>2
  <2>4. Dequeue(s, ref) = [found |-> n = ref, queue |-> Tail(s.queue) \o more]
    BY <1>2 DEF Dequeue
  <2>. DEFINE b == n = ref  q == Tail(s.queue) \o more
  <2>5. Dequeue(s, ref) = [found |-> b, queue |-> q]
    BY <2>4
  <2>6. b => ref \in S
    BY <2>1
  <2>. HIDE DEF n, more, b, q
  <2>7. Dequeue(s, ref).queue = q /\ (Dequeue(s, ref).found => b)
    BY <2>5
  <2>8. q \in Seq(S)
    BY <2>3 DEF q
  <2>. QED  BY <2>6, <2>7, <2>8 DEF Within
<1>. QED  BY <1>1, <1>2

\* What the search finds lies in every set that contains the nodes it starts from
\* and with each node its inputs.
LEMMA FoundWithin ==
  ASSUME IsGraph(g), NEW queue, NEW ref, Finds(queue, ref),
         NEW S \in SUBSET Nodes, Closed(S), queue \in Seq(S)
  PROVE  ref \in S
<1>1. PICK f : Turns(f, queue, ref, SearchBound) /\ Finds(queue, ref) = f[SearchBound].found
  BY FindsTurns
<1>. DEFINE P == {k \in Nat : k <= SearchBound => Within(f[k], ref, S)}
<1>0. SearchBound \in Nat
  BY GraphsAssumption
<1>2. 0 \in P
  BY <1>1 DEF Turns, Within
<1>3. ASSUME NEW k \in Nat, k \in P PROVE k + 1 \in P
  <2>1. CASE k + 1 <= SearchBound
    <3>1. k + 1 \in 1 .. SearchBound /\ (k + 1) - 1 = k /\ Within(f[k], ref, S)
      BY <1>0, <1>3, <2>1
    <3>2. f[k + 1] = Dequeue(f[k], ref)
      BY <1>1, <3>1 DEF Turns
    <3>3. Within(f[k + 1], ref, S)
      BY <3>1, <3>2, DequeueWithin
    <3>. QED  BY <3>3
  <2>. QED  BY <1>0, <2>1
<1>. HIDE DEF P
<1>4. Nat \subseteq P
  BY <1>2, <1>3, Induct
<1>5. Within(f[SearchBound], ref, S)
  BY <1>0, <1>4 DEF P
<1>. QED  BY <1>1, <1>5 DEF Within

-----------------------------------------------------------------------------
(* What the in-place marks mean.                                           *)

InplaceOps == RegularRule \cup AddRule \cup LlgaRule

\* A candidate is an input of an op with an in-place rule.
LEMMA CandidatePorts ==
  ASSUME IsGraph(g), NEW n \in Nodes, NEW port \in ToSet(GetCandidateForwardPort(n))
  PROVE  port \in DOMAIN g.in[n] /\ g.op[n] \in InplaceOps /\ g.op[n] # "accsum"
<1>0. /\ g.op[n] = "softmax" => Len(g.in[n]) >= 1
      /\ g.op[n] = "sum" => Len(g.in[n]) >= 3
      /\ g.op[n] = "biassum" => Len(g.in[n]) >= 4
  BY DEF IsGraph, Nodes
<1>1. Len(g.in[n]) \in Nat /\ DOMAIN g.in[n] = 1 .. Len(g.in[n])
  BY GraphFacts
<1>. USE DEF InplaceOps, RegularRule, AddRule, LlgaRule
<1>2. CASE g.op[n] = "softmax"
  <2>1. GetCandidateForwardPort(n) = <<1>>
    BY <1>2 DEF GetCandidateForwardPort
  <2>2. port = 1
    BY <2>1 DEF ToSet
  <2>. QED  BY <1>0, <1>1, <1>2, <2>2
<1>3. CASE g.op[n] = "sum"
  <2>1. GetCandidateForwardPort(n) = <<3>>
    BY <1>3 DEF GetCandidateForwardPort
  <2>2. port = 3
    BY <2>1 DEF ToSet
  <2>. QED  BY <1>0, <1>1, <1>3, <2>2
<1>4. CASE g.op[n] = "biassum"
  <2>1. GetCandidateForwardPort(n) = <<4>>
    BY <1>4 DEF GetCandidateForwardPort
  <2>2. port = 4
    BY <2>1 DEF ToSet
  <2>. QED  BY <1>0, <1>1, <1>4, <2>2
<1>5. CASE g.op[n] \in LlgaRule
  <2>1. GetCandidateForwardPort(n) = [i \in DOMAIN g.in[n] |-> i]
    BY <1>5 DEF GetCandidateForwardPort
  <2>2. port \in DOMAIN g.in[n]
    BY <2>1 DEF ToSet
  <2>. QED  BY <1>5, <2>2
<1>6. CASE g.op[n] \notin {"softmax", "sum", "biassum"} \cup LlgaRule
  <2>1. GetCandidateForwardPort(n) = << >>
    BY <1>6 DEF GetCandidateForwardPort
  <2>2. FALSE
    BY <2>1 DEF ToSet
  <2>. QED  BY <2>2
<1>. QED  BY <1>2, <1>3, <1>4, <1>5, <1>6

\* The readers that are counted are those of the input itself.
LEMMA ForwardIsInput ==
  ASSUME IsGraph(g), RefCountsExact, NEW n \in Nodes,
         NEW port \in ToSet(GetCandidateForwardPort(n))
  PROVE  ForwardTensor(n, port) = g.in[n][port]
<1>. DEFINE t == g.in[n][port]
            P == {p \in Ports(g, t[1]) : \E e \in Fanout(<<t[1], p>>) : e[1] = n}
<1>0. port \in DOMAIN g.in[n]
  BY CandidatePorts
<1>1. t \in Tensors /\ t = <<t[1], t[2]>> /\ t[2] \in Ports(g, t[1]) /\ t[2] \in 1 .. 2
  BY <1>0, GraphFacts
<1>2. <<n, port>> \in Fanout(t)
  BY <1>0, Readers
<1>3. t[2] \in P
  BY <1>1, <1>2
<1>4. ASSUME NEW p \in P PROVE p = t[2]
  <2>1. PICK e \in Fanout(<<t[1], p>>) : e[1] = n
    OBVIOUS
  <2>2. PICK i \in DOMAIN g.in[n] : g.in[n][i] = <<t[1], p>>
    BY <2>1, Readers
  <2>3. g.in[n][i] = t
    BY <2>2 DEF RefCountsExact
  <2>. QED  BY <2>2, <2>3
<1>5. P = {t[2]}
  BY <1>3, <1>4
<1>6. GetOutPort(n, t[1]) = Min(P)
  BY DEF GetOutPort
<1>7. Min(P) = t[2]
  <2>. HIDE DEF P, t
  <2>. QED  BY <1>1, <1>5 DEF Min
<1>. HIDE DEF P
<1>. QED  BY <1>1, <1>6, <1>7 DEF ForwardTensor

\* If IsSafeForwarding says so, the other readers of the input lie before n.
LEMMA ForwardingSafe ==
  ASSUME IsGraph(g), RefCountsExact, NEW n \in Nodes,
         NEW port \in ToSet(GetCandidateForwardPort(n)), IsSafeForwarding(n, port)
  PROVE  \A e \in Fanout(g.in[n][port]) : e = <<n, port>> \/ Before(e[1], n)
<1>. DEFINE t == g.in[n][port]  R == Fanout(t)
            from == IF g.op[n] \in LlgaRule
                    THEN [i \in DOMAIN g.in[n] |-> g.in[n][i][1]]
                    ELSE <<g.in[n][1][1]>>
            readers == {e[1] : e \in R}
            ref == CHOOSE m \in readers : m # n
<1>0. port \in DOMAIN g.in[n]
  BY CandidatePorts
<1>1. ForwardTensor(n, port) = t
  BY ForwardIsInput
<1>2. <<n, port>> \in R /\ IsFiniteSet(R)
  BY <1>0, Readers
<1>3. \/ Cardinality(R) = 1
      \/ Cardinality(R) = 2 /\ readers # {n} /\ Finds(from, ref)
  BY <1>1 DEF IsSafeForwarding, GetStaticRefCount
<1>4. CASE Cardinality(R) = 1
  <2>1. R = {<<n, port>>}
    <3>. HIDE DEF R
    <3>. QED  BY <1>2, <1>4, OneOrTwo
  <2>. QED  BY <2>1
<1>5. CASE Cardinality(R) = 2 /\ readers # {n} /\ Finds(from, ref)
  <2>1. PICK b : b # <<n, port>> /\ R = {<<n, port>>, b}
    <3>. HIDE DEF R
    <3>. QED  BY <1>2, <1>5, OneOrTwo
  <2>2. readers = {n, b[1]}
    <3>. HIDE DEF R
    <3>. QED  BY <2>1
  <2>3. b[1] # n
    <3>. HIDE DEF readers
    <3>. QED  BY <1>5, <2>2
  <2>4. ref = b[1]
    <3>. HIDE DEF readers
    <3>. QED  BY <2>2, <2>3
  <2>5. ASSUME NEW S \in SUBSET Nodes, Fanin(n) \subseteq S, Closed(S) PROVE b[1] \in S
    <3>1. from \in Seq(S)
      <4>1. \A i \in DOMAIN g.in[n] : g.in[n][i][1] \in S
        BY <2>5 DEF Fanin
      <4>2. Len(g.in[n]) \in Nat /\ DOMAIN g.in[n] = 1 .. Len(g.in[n])
        BY GraphFacts
      <4>3. 1 \in DOMAIN g.in[n]
        BY <1>0, <4>2
      <4>4. [i \in DOMAIN g.in[n] |-> g.in[n][i][1]] \in Seq(S)
        BY <4>1, <4>2
      <4>5. <<g.in[n][1][1]>> \in Seq(S)
        BY <4>1, <4>3
      <4>. QED  BY <4>4, <4>5
    <3>2. Finds(from, b[1])
      BY <1>5, <2>4
    <3>. HIDE DEF from
    <3>. QED  BY <2>5, <3>1, <3>2, FoundWithin
  <2>6. Before(b[1], n)
    BY <2>5 DEF Before
  <2>. QED  BY <2>1, <2>6
<1>. HIDE DEF R
<1>. QED  BY <1>3, <1>4, <1>5

\* What DetectUnvisitedNode finds is an input, and safe if the readers are counted
\* exactly.
LEMMA DetectedSafe ==
  ASSUME IsGraph(g), NEW n \in Nodes, NEW port \in DetectUnvisitedNode(n)
  PROVE  port \in DOMAIN g.in[n] /\ (RefCountsExact => Safe(n, port))
<1>. DEFINE t == g.in[n][port]
<1>1. /\ port \in ToSet(GetCandidateForwardPort(n))
      /\ t[1] \notin g.keep /\ ~IsAnyConst(g.op[t[1]]) /\ CheckDependence(n, port)
  BY DEF DetectUnvisitedNode
<1>2. port \in DOMAIN g.in[n] /\ g.op[n] \in InplaceOps
  BY <1>1, CandidatePorts
<1>3. g.op[n] # "split" /\ ~IsView(n)
  BY <1>2 DEF InplaceOps, RegularRule, AddRule, LlgaRule, IsView
<1>5. RefCountsExact => ~IsView(t[1]) /\ \A e \in Fanout(t) : ~IsView(e[1])
  BY <1>1 DEF RefCountsExact
<1>4. ASSUME RefCountsExact PROVE \A e \in Fanout(t) : e = <<n, port>> \/ Before(e[1], n)
  <2>1. CASE IsSafeForwarding(n, port)
    BY <1>1, <1>4, <2>1, ForwardingSafe
  <2>2. CASE GetStaticRefCount(n, port) = 1
    BY <1>1, <1>4, <2>2, ForwardingSafe DEF IsSafeForwarding
  <2>. QED  BY <1>1, <2>1, <2>2 DEF CheckDependence
<1>. QED  BY <1>1, <1>2, <1>3, <1>4, <1>5 DEF Safe

\* An input that the oneDNN graph pass has marked is safe: nobody else reads it.
LEMMA MarkedSafe ==
  ASSUME IsGraph(g), RefCountsExact, NEW n \in Nodes, NEW i \in MarkedByOneDnnGraph(g, n)
  PROVE  Safe(n, i)
<1>. DEFINE t == g.in[n][i]
<1>1. /\ i \in DOMAIN g.in[n] /\ g.op[n] = "llga" /\ ~IsAnyConst(g.op[t[1]])
      /\ \A m \in Nodes \ {n} : t \notin ToSet(g.in[m])
  BY DEF MarkedByOneDnnGraph, Nodes
<1>2. \A j \in DOMAIN g.in[n] : g.in[n][j] = t => j = i
  BY <1>1 DEF IsGraph, Nodes
<1>3. ASSUME NEW e \in Fanout(t) PROVE e = <<n, i>>
  <2>0. PICK m \in Nodes : \E j \in DOMAIN g.in[m] : g.in[m][j] = t /\ e = <<m, j>>
    BY Readers
  <2>1. PICK j \in DOMAIN g.in[m] : g.in[m][j] = t /\ e = <<m, j>>
    BY <2>0
  <2>2. t \in ToSet(g.in[m])
    BY <2>1 DEF ToSet
  <2>3. m = n
    BY <1>1, <2>2
  <2>. QED  BY <1>2, <2>1, <2>3
<1>4. i \in ToSet(GetCandidateForwardPort(n))
  <2>1. GetCandidateForwardPort(n) = [j \in DOMAIN g.in[n] |-> j]
    BY <1>1 DEF GetCandidateForwardPort, RegularRule, LlgaRule
  <2>. QED  BY <1>1, <2>1 DEF ToSet
<1>5. ~IsView(n) /\ ~IsView(t[1]) /\ \A e \in Fanout(t) : ~IsView(e[1])
  BY <1>1, <1>4 DEF RefCountsExact, IsView
<1>. QED  BY <1>1, <1>3, <1>5 DEF Safe

-----------------------------------------------------------------------------
(* The pass and the runs leave the graph alone.                            *)

\* What depends on the graph only.
LEMMA GraphStays ==
  ASSUME g' = g
  PROVE  /\ Nodes' = Nodes /\ Tensors' = Tensors /\ RefCountsExact' = RefCountsExact
         /\ \A n : Fanin(n)' = Fanin(n) /\ Source(n)' = Source(n)
         /\ \A t : Fanout(t)' = Fanout(t)
         /\ \A n, i : Safe(n, i)' <=> Safe(n, i)
         /\ \A n : /\ Quantized(n)' = Quantized(n) /\ HasFilterAttr(n)' = HasFilterAttr(n)
                   /\ FiltersConst(n)' = FiltersConst(n)
                   /\ GetConstFilterCheckList(n)' = GetConstFilterCheckList(n)
                   /\ Variable(n)' = Variable(n)
         /\ \A v : Unassigned(v)' = Unassigned(v) /\ Stable(v)' = Stable(v)
         /\ \A t : Origin(t)' = Origin(t)
<1>0. Nodes' = Nodes
  BY DEF Nodes
<1>1. ASSUME NEW t PROVE Fanout(t)' = Fanout(t)
  BY <1>0 DEF Fanout
<1>2. /\ Nodes' = Nodes /\ Tensors' = Tensors
      /\ \A n : Fanin(n)' = Fanin(n) /\ Source(n)' = Source(n)
  BY <1>0 DEF Tensors, Fanin, Source
<1>3. ASSUME NEW n PROVE GetCandidateForwardPort(n)' = GetCandidateForwardPort(n)
  BY DEF GetCandidateForwardPort
<1>4. RefCountsExact' = RefCountsExact
  BY <1>0, <1>1, <1>3 DEF RefCountsExact, IsView
<1>5. \A m, n : Before(m, n)' <=> Before(m, n)
  BY <1>2 DEF Before, Closed
<1>6. \A n, i : Safe(n, i)' <=> Safe(n, i)
  BY <1>1, <1>5 DEF Safe, IsView
<1>7. ASSUME NEW n
      PROVE  /\ Quantized(n)' = Quantized(n) /\ HasFilterAttr(n)' = HasFilterAttr(n)
             /\ GetConstFilterCheckList(n)' = GetConstFilterCheckList(n)
             /\ Variable(n)' = Variable(n)
  BY DEF Quantized, HasFilterAttr, GetConstFilterCheckList, Variable
<1>8. ASSUME NEW n PROVE IsUnchangingVariable(n)' = IsUnchangingVariable(n)
  BY <1>1 DEF IsUnchangingVariable
<1>9. ASSUME NEW n PROVE FiltersConst(n)' = FiltersConst(n)
  BY <1>7, <1>8 DEF FiltersConst
<1>10. ASSUME NEW v PROVE Unassigned(v)' = Unassigned(v)
  BY <1>2, <1>7 DEF Unassigned
<1>11. ASSUME NEW v PROVE Stable(v)' = Stable(v)
  BY <1>7, <1>10 DEF Stable
<1>12. ASSUME NEW t PROVE Origin(t)' = Origin(t)
  BY <1>2 DEF Origin, IsView
<1>. QED  BY <1>1, <1>2, <1>4, <1>6, <1>7, <1>9, <1>10, <1>11, <1>12

\* No step changes the graph.
LEMMA StepsKeepGraph == [Next]_vars => g' = g
  BY DEF Next, StaticInplaceOpt, InplaceInference, WeightCacheOpt, PassDone, BeginRun,
         Start, Finish, vars

PassStep == StaticInplaceOpt \/ InplaceInference \/ WeightCacheOpt \/ PassDone
RunStep  == BeginRun \/ \E n \in Nodes : Start(n) \/ Finish(n)

\* The marks of the pass change during the pass only, and what the runs change
\* changes in runs only.
LEMMA StepKinds ==
  ASSUME [Next]_vars
  PROVE  \/ PassStep /\ UNCHANGED runVars
         \/ RunStep /\ UNCHANGED passVars /\ phase = "run" /\ phase' = phase
         \/ UNCHANGED vars
  BY DEF Next, StaticInplaceOpt, InplaceInference, WeightCacheOpt, PassDone, BeginRun,
         Start, Ready, Finish, vars, passVars, runVars, PassStep, RunStep

-----------------------------------------------------------------------------
(* Types.                                                                  *)

\* The graph is one the optimizer may be given.
LEMMA TypesGraph == Types => IsGraph(g)
  BY GraphsAssumption DEF Types

\* The types hold initially.
LEMMA TypesInit == Init => Types
<1>. SUFFICES ASSUME Init PROVE Types
  OBVIOUS
<1>1. IsGraph(g)
  BY GraphsAssumption DEF Init
<1>2. Len(g.op) \in Nat
  BY <1>1, GraphFacts
<1>3. \A n \in Nodes : forward[n] \subseteq DOMAIN g.in[n]
  BY DEF Init, MarkedByOneDnnGraph
<1>4. home \in [Tensors -> Tensors] /\ holds \in [Tensors -> Tensors]
  BY DEF Init
<1>5. \A n \in Nodes : cached[n] = << >> /\ DOMAIN cached[n] = {}
  BY DEF Init
<1>6. /\ g \in Graphs /\ phase = "inplace" /\ pass = 0 /\ index = Len(g.op) /\ stack = << >>
      /\ is_visited = {} /\ meta = {} /\ runs = 0
      /\ forward = [n \in Nodes |-> forward[n]]
      /\ is_filter_const \subseteq Nodes
      /\ packed \in [Nodes -> 0 .. 1]
      /\ status \in [Nodes -> {"idle", "running", "done"}]
      /\ \A n \in Nodes : status[n] = "idle"
      /\ took = [n \in Nodes |-> took[n]] /\ \A n \in Nodes : took[n] = 0
      /\ val \in [Nodes -> Nat] /\ version \in [Nodes -> Nat]
      /\ cached = [n \in Nodes |-> cached[n]]
  BY DEF Init
<1>. QED  BY <1>2, <1>3, <1>4, <1>5, <1>6, GraphsAssumption DEF Types

\* The types of what a pass changes.
PassTypes ==
  /\ phase \in {"inplace", "weights", "run"}
  /\ pass \in 0 .. MaxPasses /\ (phase # "run" => pass < MaxPasses)
  /\ index \in 0 .. Len(g.op)
  /\ stack \in Seq(Nodes) /\ is_visited \subseteq Nodes
  /\ forward = [n \in Nodes |-> forward[n]]
  /\ \A n \in Nodes : forward[n] \subseteq DOMAIN g.in[n]
  /\ is_filter_const \subseteq Nodes /\ meta \subseteq Nodes

\* The types of what a run changes.
RunTypes ==
  /\ runs \in 0 .. MaxRuns
  /\ status \in [Nodes -> {"idle", "running", "done"}]
  /\ runs = 0 => \A n \in Nodes : status[n] = "idle" /\ cached[n] = << >>
  /\ runs > 0 => \A n \in Nodes : Source(n) => status[n] = "done"
  /\ took = [n \in Nodes |-> took[n]]
  /\ \A n \in Nodes : took[n] \in forward[n] \cup {0}
  /\ home \in [Tensors -> Tensors] /\ holds \in [Tensors -> Tensors]
  /\ val \in [Nodes -> Nat] /\ version \in [Nodes -> Nat]
  /\ cached = [n \in Nodes |-> cached[n]]
  /\ \A n \in Nodes : DOMAIN cached[n] \in {{}, GetConstFilterCheckList(n)}

\* The inputs of a node, as nodes, are a sequence of nodes.
LEMMA InputNodes ==
  ASSUME IsGraph(g), NEW n \in Nodes
  PROVE  [i \in DOMAIN g.in[n] |-> g.in[n][i][1]] \in Seq(Nodes)
<1>1. Len(g.in[n]) \in Nat /\ DOMAIN g.in[n] = 1 .. Len(g.in[n])
  BY GraphFacts
<1>2. \A i \in DOMAIN g.in[n] : g.in[n][i][1] \in Nodes
  BY GraphFacts
<1>. QED  BY <1>1, <1>2

\* The pass keeps the types, but for how often a constant is packed.
LEMMA PassTypesStep == Types /\ PassStep => PassTypes'
<1>. SUFFICES ASSUME Types, PassStep PROVE PassTypes'
  OBVIOUS
<1>0. IsGraph(g) /\ Len(g.op) \in Nat /\ Nodes = 1 .. Len(g.op)
  BY TypesGraph, GraphFacts
<1>. USE DEF Types, PassTypes
<1>1. CASE StaticInplaceOpt
  <2>1. g' = g /\ pass' = pass /\ is_visited' = is_visited /\ forward' = forward
        /\ is_filter_const' = is_filter_const /\ meta' = meta /\ phase = "inplace"
        /\ phase' \in {"inplace", "weights"}
    BY <1>1 DEF StaticInplaceOpt
  <2>2. index' \in 0 .. Len(g.op)
    BY <1>0, <1>1 DEF StaticInplaceOpt
  <2>3. stack' \in Seq(Nodes)
    <3>1. index > 0 => index \in Nodes
      BY <1>0
    <3>2. index > 0 => <<index>> \in Seq(Nodes)
      BY <3>1
    <3>3. << >> \in Seq(Nodes)
      OBVIOUS
    <3>4. stack' \in {stack, << >>} \/ (index > 0 /\ stack' = <<index>>)
      BY <1>1 DEF StaticInplaceOpt
    <3>. QED  BY <3>2, <3>3, <3>4
  <2>4. Nodes' = Nodes
    BY <2>1, GraphStays
  <2>. QED  BY <2>1, <2>2, <2>3, <2>4
<1>2. CASE InplaceInference
  <2>. DEFINE n == Head(stack)  skipped == n \in is_visited \/ \E e \in g.ctl : e[1] = n
              more == [i \in DOMAIN g.in[n] |-> g.in[n][i][1]]
  <2>1. /\ g' = g /\ pass' = pass /\ index' = index /\ phase' = phase
        /\ is_filter_const' = is_filter_const /\ meta' = meta
        /\ stack' = IF skipped THEN Tail(stack) ELSE more \o Tail(stack)
        /\ is_visited' = IF skipped THEN is_visited ELSE is_visited \cup {n}
        /\ forward' = IF skipped THEN forward
                      ELSE [forward EXCEPT ![n] = @ \cup DetectUnvisitedNode(n)]
    BY <1>2 DEF InplaceInference
  <2>2. n \in Nodes /\ Tail(stack) \in Seq(Nodes)
    BY <1>2 DEF InplaceInference
  <2>3. more \in Seq(Nodes)
    BY <1>0, <2>2, InputNodes
  <2>4. Nodes' = Nodes
    BY <2>1, GraphStays
  <2>5. DetectUnvisitedNode(n) \subseteq DOMAIN g.in[n]
    BY <1>0, <2>2, DetectedSafe
  <2>. HIDE DEF n, skipped, more
  <2>6. stack' \in Seq(Nodes)
    BY <2>1, <2>2, <2>3
  <2>7. /\ forward' = [m \in Nodes |-> forward'[m]]
        /\ \A m \in Nodes : forward'[m] \subseteq DOMAIN g.in[m]
    BY <2>1, <2>2, <2>5
  <2>. QED  BY <2>1, <2>2, <2>4, <2>6, <2>7
<1>3. CASE WeightCacheOpt
  <2>1. g' = g /\ pass' = pass /\ phase' = phase /\ stack' = stack
        /\ is_visited' = is_visited /\ forward' = forward
        /\ is_filter_const' = CheckConstFilter(index) /\ index' = index - 1 /\ index > 0
        /\ WeightPrePack(index)
    BY <1>3 DEF WeightCacheOpt
  <2>2. index \in Nodes /\ index' \in 0 .. Len(g.op)
    BY <1>0, <2>1
  <2>3. is_filter_const' \subseteq Nodes
    BY <2>1, <2>2 DEF CheckConstFilter
  <2>4. meta' \subseteq Nodes
    BY <2>1, <2>2 DEF WeightPrePack
  <2>5. Nodes' = Nodes
    BY <2>1, GraphStays
  <2>. QED  BY <2>1, <2>2, <2>3, <2>4, <2>5
<1>4. CASE PassDone
  <2>1. g' = g /\ stack' = stack /\ forward' = forward /\ phase = "weights"
        /\ is_filter_const' = is_filter_const /\ meta' = meta /\ is_visited' = {}
        /\ pass' = pass + 1 /\ index' = Len(g.op)
    BY <1>4 DEF PassDone
  <2>2. /\ pass' \in 0 .. MaxPasses /\ phase' \in {"inplace", "run"}
        /\ phase' # "run" => pass' < MaxPasses
    BY <1>4, <2>1, GraphsAssumption DEF PassDone
  <2>3. index' \in 0 .. Len(g.op)
    BY <1>0, <2>1
  <2>5. Nodes' = Nodes
    BY <2>1, GraphStays
  <2>. QED  BY <2>1, <2>2, <2>3, <2>5
<1>. QED  BY <1>1, <1>2, <1>3, <1>4 DEF PassStep

\* The pass only adds to the inputs a node may overwrite.
LEMMA ForwardGrows ==
  ASSUME Types, PassStep
  PROVE  \A n \in Nodes : forward[n] \subseteq forward'[n]
<1>1. CASE InplaceInference
  BY <1>1 DEF InplaceInference, Types
<1>2. CASE StaticInplaceOpt \/ WeightCacheOpt \/ PassDone
  BY <1>2 DEF StaticInplaceOpt, WeightCacheOpt, PassDone
<1>. QED  BY <1>1, <1>2 DEF PassStep

\* The pass comes before the runs.
LEMMA PassPhase ==
  ASSUME Types, PassStep
  PROVE  phase # "run" /\ runs = 0
  BY DEF Types, PassStep, StaticInplaceOpt, InplaceInference, WeightCacheOpt, PassDone

\* The buffers that Start chooses, and what it writes.
Where(n, from, p) ==
  IF p = 1 /\ from # 0 THEN home[g.in[n][from]]
  ELSE IF IsView(n) THEN home[g.in[n][1]] ELSE <<n, p>>
Writes(n, from, p, b) == ~IsView(n) /\ Where(n, from, p) = b
Starts(n, from) ==
  /\ took' = [took EXCEPT ![n] = from]
  /\ home' = [t \in Tensors |-> IF t[1] = n THEN Where(n, from, t[2]) ELSE home[t]]
  /\ holds' = [b \in Tensors |->
                 IF \E p \in Ports(g, n) : Writes(n, from, p, b)
                 THEN <<n, CHOOSE p \in Ports(g, n) : Writes(n, from, p, b)>>
                 ELSE holds[b]]

\* Start chooses one of the inputs it may overwrite, or none.
LEMMA StartChooses ==
  ASSUME NEW n \in Nodes, Start(n)
  PROVE  \E from \in forward[n] \cup {0} : Starts(n, from)
  BY DEF Start, Starts, Where, Writes

\* A node that can start is not a source.
LEMMA ReadyNotSource ==
  ASSUME Types, NEW n \in Nodes, Ready(n)
  PROVE  ~Source(n) /\ status[n] = "idle" /\ runs > 0 /\ phase = "run"
  BY DEF Types, Ready

\* Where a tensor goes is a buffer.
LEMMA WhereType ==
  ASSUME Types, NEW n \in Nodes, NEW from \in forward[n] \cup {0}, NEW p \in Ports(g, n)
  PROVE  Where(n, from, p) \in Tensors
<1>1. IsGraph(g)
  BY TypesGraph
<1>2. CASE p = 1 /\ from # 0
  <2>1. from \in DOMAIN g.in[n]
    BY <1>2 DEF Types
  <2>2. g.in[n][from] \in Tensors
    BY <1>1, <2>1, GraphFacts
  <2>. QED  BY <1>2, <2>2 DEF Where, Types
<1>3. CASE ~(p = 1 /\ from # 0) /\ IsView(n)
  <2>1. Len(g.in[n]) >= 1
    BY <1>1, <1>3 DEF IsView, IsGraph, Nodes
  <2>2. g.in[n][1] \in Tensors
    BY <1>1, <2>1, GraphFacts
  <2>. QED  BY <1>3, <2>2 DEF Where, Types
<1>4. CASE ~(p = 1 /\ from # 0) /\ ~IsView(n)
  BY <1>1, <1>4, GraphFacts DEF Where
<1>. QED  BY <1>2, <1>3, <1>4

\* The _Arg of a variable is a node.
LEMMA VariableNode ==
  ASSUME IsGraph(g), NEW n \in Nodes, g.op[n] \in {"readvar", "assign", "cast"}
  PROVE  /\ Variable(n) \in Nodes
         /\ g.in[n][1] \in Tensors /\ g.in[n][1][1] \in Nodes /\ 1 \in DOMAIN g.in[n]
<1>1. /\ Len(g.in[n]) >= 1
      /\ \A m \in Nodes : g.op[m] = "enter" => Len(g.in[m]) >= 1
  BY DEF IsGraph, Nodes
<1>2. \A m \in Nodes : Len(g.in[m]) >= 1 =>
        g.in[m][1] \in Tensors /\ g.in[m][1][1] \in Nodes /\ 1 \in DOMAIN g.in[m]
  BY GraphFacts
<1>. QED  BY <1>1, <1>2 DEF Variable

\* A step of a run keeps the types.
LEMMA RunTypesStart ==
  ASSUME Types, NEW n \in Nodes, Start(n)
  PROVE  RunTypes'
<1>0. IsGraph(g) /\ Ready(n) /\ g' = g /\ forward' = forward /\ runs' = runs
  BY TypesGraph DEF Start, passVars
<1>1. /\ Nodes' = Nodes /\ Tensors' = Tensors
      /\ \A m : Source(m)' = Source(m)
      /\ \A m : GetConstFilterCheckList(m)' = GetConstFilterCheckList(m)
  BY <1>0, GraphStays
<1>2. ~Source(n) /\ runs > 0 /\ runs \in 0 .. MaxRuns
  BY <1>0, ReadyNotSource DEF Types
<1>3. /\ status' \in [Nodes -> {"idle", "running", "done"}]
      /\ \A m \in Nodes : Source(m) => status'[m] = "done"
  BY <1>2 DEF Types, Start
<1>4. PICK from \in forward[n] \cup {0} : Starts(n, from)
  BY StartChooses
<1>5. took' = [m \in Nodes |-> took'[m]] /\ \A m \in Nodes : took'[m] \in forward[m] \cup {0}
  BY <1>4 DEF Starts, Types
<1>6. home' \in [Tensors -> Tensors]
  <2>1. \A t \in Tensors : t[1] = n => Where(n, from, t[2]) \in Tensors
    BY <1>0, GraphFacts, WhereType
  <2>2. home \in [Tensors -> Tensors]
    BY DEF Types
  <2>3. home' = [t \in Tensors |-> IF t[1] = n THEN Where(n, from, t[2]) ELSE home[t]]
    BY <1>4 DEF Starts
  <2>. QED  BY <2>1, <2>2, <2>3
<1>7. holds' \in [Tensors -> Tensors]
  <2>1. ASSUME NEW b \in Tensors, \E p \in Ports(g, n) : Writes(n, from, p, b)
        PROVE  <<n, CHOOSE p \in Ports(g, n) : Writes(n, from, p, b)>> \in Tensors
    BY <1>0, <2>1, GraphFacts
  <2>2. holds \in [Tensors -> Tensors]
    BY DEF Types
  <2>3. holds' = [b \in Tensors |->
                    IF \E p \in Ports(g, n) : Writes(n, from, p, b)
                    THEN <<n, CHOOSE p \in Ports(g, n) : Writes(n, from, p, b)>>
                    ELSE holds[b]]
    BY <1>4 DEF Starts
  <2>. QED  BY <2>1, <2>2, <2>3
<1>8. val' \in [Nodes -> Nat] /\ version' \in [Nodes -> Nat]
  <2>1. val \in [Nodes -> Nat] /\ version \in [Nodes -> Nat]
    BY DEF Types
  <2>2. g.op[n] \in {"readvar", "assign", "cast"}
          => Variable(n) \in Nodes /\ g.in[n][1][1] \in Nodes
    BY <1>0, VariableNode
  <2>3. val' \in [Nodes -> Nat]
    <3>. DEFINE v == CASE g.op[n] = "readvar" -> version[Variable(n)]
                       [] g.op[n] = "cast"    -> val[g.in[n][1][1]]
                       [] OTHER               -> 0
    <3>1. v \in Nat
      BY <2>1, <2>2
    <3>2. val' = [val EXCEPT ![n] = v]
      BY DEF Start
    <3>. HIDE DEF v
    <3>. QED  BY <2>1, <3>1, <3>2
  <2>4. version' \in [Nodes -> Nat]
    BY <2>1, <2>2 DEF Start
  <2>. QED  BY <2>3, <2>4
<1>9. /\ cached' = [m \in Nodes |-> cached'[m]]
      /\ \A m \in Nodes : DOMAIN cached'[m] \in {{}, GetConstFilterCheckList(m)}
  <2>1. DOMAIN FiltersNow(n) = GetConstFilterCheckList(n)
    BY DEF FiltersNow
  <2>2. \/ cached' = cached
        \/ cached' = [cached EXCEPT ![n] = FiltersNow(n)]
    BY DEF Start
  <2>. QED  BY <2>1, <2>2 DEF Types
<1>. QED  BY <1>0, <1>1, <1>2, <1>3, <1>5, <1>6, <1>7, <1>8, <1>9 DEF RunTypes

\* Beginning a run keeps the types.
LEMMA RunTypesBegin ==
  ASSUME Types, BeginRun
  PROVE  RunTypes'
<1>0. /\ g' = g /\ forward' = forward /\ runs' = runs + 1 /\ runs < MaxRuns
      /\ version' = version /\ cached' = cached
  BY DEF BeginRun, passVars
<1>1. /\ Nodes' = Nodes /\ Tensors' = Tensors
      /\ \A m : Source(m)' = Source(m)
      /\ \A m : GetConstFilterCheckList(m)' = GetConstFilterCheckList(m)
  BY <1>0, GraphStays
<1>2. runs' \in 0 .. MaxRuns /\ runs' > 0 /\ runs' # 0
  BY <1>0, GraphsAssumption DEF Types
<1>3. /\ status' \in [Nodes -> {"idle", "running", "done"}]
      /\ \A m \in Nodes : Source(m) => status'[m] = "done"
      /\ took' = [m \in Nodes |-> took'[m]] /\ \A m \in Nodes : took'[m] = 0
      /\ home' \in [Tensors -> Tensors]
  BY DEF BeginRun
<1>4. holds' \in [Tensors -> Tensors]
  BY DEF BeginRun, Types
<1>5. val' \in [Nodes -> Nat]
  <2>1. PICK fed \in [g.keep -> 0 .. 1] :
          val' = [m \in Nodes |-> IF Source(m) /\ m \in g.keep THEN fed[m] ELSE 0]
    BY DEF BeginRun
  <2>2. \A m \in g.keep : fed[m] \in Nat
    OBVIOUS
  <2>. QED  BY <2>1, <2>2
<1>. QED  BY <1>0, <1>1, <1>2, <1>3, <1>4, <1>5 DEF RunTypes, Types

\* Every step keeps the types of what runs change.
LEMMA RunTypesStep == Types /\ [Next]_vars => RunTypes' /\ (phase # "run" => runs = 0)'
<1>. SUFFICES ASSUME Types, [Next]_vars PROVE RunTypes' /\ (phase # "run" => runs = 0)'
  OBVIOUS
<1>0. g' = g
  BY StepsKeepGraph
<1>1. Nodes' = Nodes /\ Tensors' = Tensors /\ (\A m : Source(m)' = Source(m))
      /\ \A m : GetConstFilterCheckList(m)' = GetConstFilterCheckList(m)
  BY <1>0, GraphStays
<1>2. CASE PassStep /\ UNCHANGED runVars
  <2>1. \A n \in Nodes : forward[n] \subseteq forward'[n]
    BY <1>2, ForwardGrows
  <2>2. runs' = 0
    BY <1>2, PassPhase DEF runVars
  <2>. QED  BY <1>1, <1>2, <2>1, <2>2 DEF RunTypes, Types, runVars
<1>3. CASE BeginRun
  BY <1>3, RunTypesBegin DEF BeginRun
<1>4. ASSUME NEW n \in Nodes, Start(n) PROVE RunTypes' /\ (phase # "run" => runs = 0)'
  BY <1>4, RunTypesStart DEF Start, Ready
<1>5. ASSUME NEW n \in Nodes, Finish(n) PROVE RunTypes' /\ (phase # "run" => runs = 0)'
  <2>1. runs # 0
    BY <1>5 DEF Finish, Types
  <2>. QED  BY <1>0, <1>1, <1>5, <2>1 DEF Finish, passVars, RunTypes, Types
<1>6. CASE UNCHANGED vars
  BY <1>1, <1>6 DEF vars, passVars, runVars, RunTypes, Types
<1>. QED  BY <1>2, <1>3, <1>4, <1>5, <1>6, StepKinds DEF RunStep

\* Every step keeps the types, if constants are packed at most once.
LEMMA TypesStep ==
  ASSUME Types, [Next]_vars, packed' \in [Nodes -> 0 .. 1]
  PROVE  Types'
<1>0. g' = g
  BY StepsKeepGraph
<1>1. Nodes' = Nodes
  BY <1>0, GraphStays
<1>2. RunTypes' /\ (phase # "run" => runs = 0)'
  BY RunTypesStep
<1>3. PassTypes'
  <2>1. CASE PassStep
    BY <2>1, PassTypesStep
  <2>2. CASE UNCHANGED passVars /\ phase' = phase
    BY <1>0, <1>1, <2>2 DEF passVars, PassTypes, Types
  <2>. QED  BY <2>1, <2>2, StepKinds DEF vars
<1>4. g' \in Graphs
  BY <1>0 DEF Types
<1>. QED  BY <1>1, <1>2, <1>3, <1>4 DEF Types, RunTypes, PassTypes

-----------------------------------------------------------------------------
(* Filters.                                                                *)

\* A node is marked because its filters are constant.
LEMMA CheckedFilters ==
  ASSUME FilterMarks, NEW n \in Nodes, NEW m \in CheckConstFilter(n)
  PROVE  m \in Nodes /\ (Quantized(m) \/ (HasFilterAttr(m) /\ FiltersConst(m)))
  BY DEF CheckConstFilter, FilterMarks

\* Every step keeps what the constant-filter attribute means.
LEMMA FilterMarksStep == Types /\ FilterMarks /\ [Next]_vars => FilterMarks'
<1>. SUFFICES ASSUME Types, FilterMarks, [Next]_vars PROVE FilterMarks'
  OBVIOUS
<1>0. g' = g
  BY StepsKeepGraph
<1>1. /\ Nodes' = Nodes
      /\ \A n : /\ Quantized(n)' = Quantized(n) /\ HasFilterAttr(n)' = HasFilterAttr(n)
                /\ FiltersConst(n)' = FiltersConst(n)
  BY <1>0, GraphStays
<1>2. CASE WeightCacheOpt
  <2>1. index \in Nodes
    BY <1>2, TypesGraph, GraphFacts DEF WeightCacheOpt, Types
  <2>2. is_filter_const' = CheckConstFilter(index)
    BY <1>2 DEF WeightCacheOpt
  <2>. QED  BY <1>1, <2>1, <2>2, CheckedFilters DEF FilterMarks
<1>3. CASE is_filter_const' = is_filter_const
  BY <1>1, <1>3 DEF FilterMarks
<1>. QED  BY <1>2, <1>3 DEF Next, StaticInplaceOpt, InplaceInference, PassDone, BeginRun,
                            Start, Finish, vars, passVars

\* Packing happens once, to a constant that only the packing node reads.
LEMMA PackedStep ==
  ASSUME Types, FilterMarks, PackedMarks, [Next]_vars
  PROVE  packed' \in [Nodes -> 0 .. 1] /\ PackedMarks'
<1>0. g' = g /\ IsGraph(g)
  BY StepsKeepGraph, TypesGraph
<1>1. Nodes' = Nodes /\ \A t : Fanout(t)' = Fanout(t)
  BY <1>0, GraphStays
<1>2. packed \in [Nodes -> 0 .. 1]
  BY DEF Types
<1>3. CASE meta' = meta /\ packed' = packed
  BY <1>0, <1>1, <1>2, <1>3 DEF PackedMarks
<1>4. CASE WeightCacheOpt /\ ~(meta' = meta /\ packed' = packed)
  <2>. DEFINE n == index  f == g.in[n][2][1]
  <2>1. n \in Nodes
    BY <1>0, <1>4, GraphFacts DEF WeightCacheOpt, Types
  <2>2. /\ g.op[n] \in {"matmul", "matmulT"} /\ n \notin meta
        /\ IsLegalComputeNode(n) /\ IsLegalFilterNode(f) /\ g.op[f] = "const"
        /\ meta' = meta \cup {n} /\ packed' = [packed EXCEPT ![f] = @ + 1]
    BY <1>4 DEF WeightCacheOpt, WeightPrePack, SetDefaultMetaData
  <2>3. f \notin g.keep
    <3>1. n \in CheckConstFilter(n) /\ ~Quantized(n)
      BY <2>2 DEF IsLegalComputeNode, Quantized
    <3>2. FiltersConst(n)
      BY <2>1, <3>1, CheckedFilters
    <3>3. 2 \in GetConstFilterCheckList(n)
      BY <2>2 DEF GetConstFilterCheckList
    <3>. QED  BY <3>2, <3>3 DEF FiltersConst
  <2>4. 2 \in DOMAIN g.in[n] /\ f \in Nodes /\ g.in[n][2] = <<f, 1>>
    <3>1. Len(g.in[n]) >= 2
      BY <1>0, <2>1, <2>2 DEF IsGraph, Nodes
    <3>2. 2 \in DOMAIN g.in[n]
      BY <1>0, <2>1, <3>1, GraphFacts
    <3>3. g.in[n][2] \in Tensors
      BY <1>0, <2>1, <3>2, GraphFacts
    <3>4. Ports(g, f) = {1}
      BY <2>2 DEF Ports
    <3>. QED  BY <1>0, <3>2, <3>3, <3>4, GraphFacts
  <2>5. <<n, 2>> \in Fanout(<<f, 1>>) /\ IsFiniteSet(Fanout(<<f, 1>>))
    BY <1>0, <2>1, <2>4, Readers
  <2>. HIDE DEF n, f
  <2>6. Fanout(<<f, 1>>) = {<<n, 2>>}
    BY <2>2, <2>5, OneOrTwo DEF IsLegalFilterNode
  <2>7. packed[f] = 0
    <3>1. SUFFICES ASSUME packed[f] # 0 PROVE FALSE
      OBVIOUS
    <3>2. PICK m \in meta : Fanout(<<f, 1>>) = {<<m, 2>>}
      BY <2>4, <3>1 DEF PackedMarks
    <3>3. <<n, 2>> = <<m, 2>>
      BY <2>5, <3>2
    <3>4. n = m
      BY <3>3
    <3>. QED  BY <2>2, <3>2, <3>4
  <2>8. packed' \in [Nodes -> 0 .. 1]
    BY <1>2, <2>2, <2>4, <2>7
  <2>9. ASSUME NEW h \in Nodes, packed'[h] # 0
        PROVE  h \notin g.keep /\ \E m \in meta' : Fanout(<<h, 1>>) = {<<m, 2>>}
    <3>1. CASE h = f
      BY <2>2, <2>3, <2>6, <3>1
    <3>2. CASE h # f
      <4>1. packed[h] # 0
        BY <1>2, <2>2, <2>9, <3>2
      <4>. QED  BY <2>2, <4>1 DEF PackedMarks
    <3>. QED  BY <3>1, <3>2
  <2>. QED  BY <1>0, <1>1, <2>8, <2>9 DEF PackedMarks
<1>. QED  BY <1>3, <1>4 DEF Next, StaticInplaceOpt, InplaceInference, PassDone, BeginRun,
                            Start, Finish, vars, passVars

\* A variable that counts as unchanging is not assigned, unless it escapes.
LEMMA UnchangingStable ==
  ASSUME IsGraph(g), NEW f \in Nodes, IsUnchangingVariable(f), f \notin g.keep
  PROVE  Stable(f) \/ Escapes(f)
<1>. DEFINE Of(m) == g.in[m][1][1]
            arg == IF g.op[Of(f)] = "enter" THEN Of(Of(f)) ELSE Of(f)
<1>1. g.aggressive
  BY DEF IsUnchangingVariable
<1>2. CASE g.op[f] = "cast"
  BY <1>1, <1>2 DEF Escapes
<1>3. CASE g.op[f] = "readvar"
  <2>1. /\ g.op[arg] = "arg"
        /\ \/ Cardinality(Fanout(<<arg, 1>>)) = 1
           \/ \A m \in {e[1] : e \in Fanout(<<arg, 1>>)} : g.op[m] \in {"enter", "readvar"}
    BY <1>3 DEF IsUnchangingVariable
  <2>2. Variable(f) = arg
    BY DEF Variable
  <2>3. SUFFICES ASSUME ~Escapes(f), ~Unassigned(arg) PROVE FALSE
    BY <1>3, <2>2 DEF Stable
  <2>4. PICK m \in Nodes : g.op[m] = "assign" /\ Variable(m) = arg
    BY <2>3 DEF Unassigned
  <2>5. g.op[Of(m)] # "enter" /\ Of(m) = arg
    <3>1. g.op[Of(m)] # "enter"
      BY <1>1, <1>3, <2>2, <2>3, <2>4 DEF Escapes
    <3>. QED  BY <2>4, <3>1 DEF Variable
  <2>6. ASSUME NEW k \in Nodes, 1 \in DOMAIN g.in[k], Of(k) = arg
        PROVE  <<k, 1>> \in Fanout(<<arg, 1>>)
    <3>1. g.in[k][1] \in Tensors
      BY <2>6, GraphFacts
    <3>2. Ports(g, arg) = {1}
      BY <2>1 DEF Ports
    <3>3. g.in[k][1] = <<arg, 1>>
      BY <2>6, <3>1, <3>2, GraphFacts
    <3>. QED  BY <2>6, <3>3, Readers
  <2>7. <<m, 1>> \in Fanout(<<arg, 1>>)
    BY <2>4, <2>5, <2>6, VariableNode
  <2>8. PICK k \in Nodes : <<k, 1>> \in Fanout(<<arg, 1>>) /\ k # m
    <3>1. CASE g.op[Of(f)] = "enter"
      <4>1. Of(f) \in Nodes /\ Of(Of(f)) = arg /\ Of(f) # m
        BY <1>3, <2>4, <3>1, VariableNode
      <4>2. Len(g.in[Of(f)]) >= 1
        BY <3>1, <4>1 DEF IsGraph, Nodes
      <4>3. 1 \in DOMAIN g.in[Of(f)]
        BY <4>1, <4>2, GraphFacts
      <4>. QED  BY <2>6, <4>1, <4>3
    <3>2. CASE g.op[Of(f)] # "enter"
      BY <1>3, <2>4, <2>6, <3>2, VariableNode
    <3>. QED  BY <3>1, <3>2
  <2>. HIDE DEF arg
  <2>9. Cardinality(Fanout(<<arg, 1>>)) # 1
    BY <2>7, <2>8, Readers, OneOrTwo
  <2>10. m \in {e[1] : e \in Fanout(<<arg, 1>>)}
    BY <2>7
  <2>. QED  BY <2>1, <2>4, <2>9, <2>10
<1>. QED  BY <1>2, <1>3 DEF IsUnchangingVariable

\* A marked node has stable filters, or one that escapes.
LEMMA MarkedFilters ==
  ASSUME Types, FilterMarks, NEW n \in is_filter_const
  PROVE  /\ n \in Nodes
         /\ \/ \A i \in GetConstFilterCheckList(n) : Stable(g.in[n][i][1])
            \/ \E i \in GetConstFilterCheckList(n) : Escapes(g.in[n][i][1])
         /\ \A i \in GetConstFilterCheckList(n) : g.in[n][i][1] \in Nodes
<1>0. IsGraph(g) /\ n \in Nodes
  BY TypesGraph DEF Types
<1>1. CASE Quantized(n)
  <2>1. GetConstFilterCheckList(n) = {2} /\ g.op[n] = "quantized"
    BY <1>1 DEF GetConstFilterCheckList, Quantized
  <2>2. /\ Len(g.in[n]) >= 2
        /\ IsAnyConst(g.op[g.in[n][2][1]]) /\ g.in[n][2][1] \notin g.keep
    BY <1>0, <2>1 DEF IsGraph, Nodes
  <2>3. g.in[n][2][1] \in Nodes
    BY <1>0, <2>2, GraphFacts
  <2>. QED  BY <1>0, <2>1, <2>2, <2>3 DEF Stable
<1>2. CASE HasFilterAttr(n) /\ FiltersConst(n)
  <2>1. ASSUME NEW i \in GetConstFilterCheckList(n)
        PROVE  /\ g.in[n][i][1] \in Nodes
               /\ Stable(g.in[n][i][1]) \/ Escapes(g.in[n][i][1])
    <3>. DEFINE f == g.in[n][i][1]
    <3>1. /\ g.op[n] \in {"matmul", "matmulT"} => Len(g.in[n]) >= 2
          /\ g.op[n] = "gru" => Len(g.in[n]) >= 6
      BY <1>0 DEF IsGraph, Nodes
    <3>2. i \in DOMAIN g.in[n]
      BY <1>0, <1>2, <3>1, GraphFacts DEF GetConstFilterCheckList, HasFilterAttr
    <3>3. f \in Nodes
      BY <1>0, <3>2, GraphFacts
    <3>4. f \notin g.keep /\ (IsAnyConst(g.op[f]) \/ IsUnchangingVariable(f))
      BY <1>2 DEF FiltersConst, IsAnyConst
    <3>. QED  BY <1>0, <3>3, <3>4, UnchangingStable DEF Stable
  <2>. QED  BY <1>0, <2>1
<1>. QED  BY <1>1, <1>2 DEF FilterMarks

\* Beginning a run gives stable nodes their value.
LEMMA ValuesBegin ==
  ASSUME Types, Values, BeginRun
  PROVE  Values'
<1>0. g' = g /\ IsGraph(g)
  BY TypesGraph DEF BeginRun
<1>1. /\ Nodes' = Nodes /\ (\A v : Unassigned(v)' = Unassigned(v) /\ Stable(v)' = Stable(v))
      /\ \A n : GetConstFilterCheckList(n)' = GetConstFilterCheckList(n)
  BY <1>0, GraphStays
<1>2. /\ version' = version /\ cached' = cached /\ is_filter_const' = is_filter_const
      /\ \A n \in Nodes : status'[n] # "running"
  BY DEF BeginRun, passVars
<1>3. ASSUME NEW f \in Nodes, Stable(f) PROVE val'[f] = 0
  <2>1. PICK fed \in [g.keep -> 0 .. 1] :
          val' = [m \in Nodes |-> IF Source(m) /\ m \in g.keep THEN fed[m] ELSE 0]
    BY DEF BeginRun
  <2>2. ~(Source(f) /\ f \in g.keep)
    <3>1. CASE IsAnyConst(g.op[f]) /\ f \notin g.keep
      BY <3>1
    <3>2. CASE g.op[f] = "readvar"
      BY <1>0, <3>2, VariableNode DEF Source
    <3>. QED  BY <1>3, <3>1, <3>2 DEF Stable
  <2>. QED  BY <2>1, <2>2
<1>. QED  BY <1>0, <1>1, <1>2, <1>3 DEF Values

\* A constant list of filters is not empty.
LEMMA SomeFilter ==
  ASSUME NEW n, NEW x
  PROVE  [i \in GetConstFilterCheckList(n) |-> x] # << >>
<1>1. GetConstFilterCheckList(n) # {}
  BY DEF GetConstFilterCheckList
<1>2. DOMAIN << >> = {}
  OBVIOUS
<1>3. DOMAIN [i \in GetConstFilterCheckList(n) |-> x] = GetConstFilterCheckList(n)
  OBVIOUS
<1>. QED  BY <1>1, <1>2, <1>3

\* A node that starts reads a variable nobody assigns as it was, and keeps only
\* filters that stay.
LEMMA ValuesStart ==
  ASSUME Types, Values, FilterMarks, NEW n \in Nodes, Start(n)
  PROVE  Values'
<1>0. g' = g /\ IsGraph(g) /\ Ready(n) /\ is_filter_const' = is_filter_const
  BY TypesGraph DEF Start, passVars
<1>1. /\ Nodes' = Nodes /\ (\A v : Unassigned(v)' = Unassigned(v) /\ Stable(v)' = Stable(v))
      /\ \A m : GetConstFilterCheckList(m)' = GetConstFilterCheckList(m)
  BY <1>0, GraphStays
<1>2. ~Source(n)
  BY <1>0, ReadyNotSource
<1>3. ASSUME NEW v \in Nodes, Unassigned(v) PROVE version'[v] = 0
  <2>1. version[v] = 0 /\ version \in [Nodes -> Nat]
    BY <1>3 DEF Values, Types
  <2>2. g.op[n] = "assign" => Variable(n) # v
    BY <1>3 DEF Unassigned
  <2>. QED  BY <2>1, <2>2 DEF Start
<1>4. ASSUME NEW f \in Nodes, Stable(f) PROVE val'[f] = 0
  <2>1. val[f] = 0 /\ val \in [Nodes -> Nat]
    BY <1>4 DEF Values, Types
  <2>2. CASE f # n
    BY <2>1, <2>2 DEF Start
  <2>3. CASE f = n
    <3>1. ~IsAnyConst(g.op[n])
      BY <1>0, <1>2 DEF IsGraph, Nodes, Source
    <3>2. g.op[n] = "readvar" /\ Unassigned(Variable(n))
      BY <1>4, <2>3, <3>1 DEF Stable
    <3>3. Variable(n) \in Nodes
      BY <1>0, <3>2, VariableNode
    <3>4. version[Variable(n)] = 0
      BY <3>2, <3>3 DEF Values
    <3>5. val'[n] = version[Variable(n)]
      BY <2>1, <3>2 DEF Start
    <3>. QED  BY <2>3, <3>4, <3>5
  <2>. QED  BY <2>2, <2>3
<1>5. ASSUME NEW m \in Nodes, m \in is_filter_const,
             \A i \in GetConstFilterCheckList(m) : Stable(g.in[m][i][1])
      PROVE  /\ cached'[m] \in {<< >>, [i \in GetConstFilterCheckList(m) |-> 0]}
             /\ status'[m] = "running" => cached'[m] # << >>
  <2>. DEFINE zero == [i \in GetConstFilterCheckList(m) |-> 0]
  <2>0. /\ cached = [k \in Nodes |-> cached[k]]
        /\ status \in [Nodes -> {"idle", "running", "done"}]
    BY DEF Types
  <2>1. cached[m] \in {<< >>, zero} /\ (status[m] = "running" => cached[m] # << >>)
    BY <1>5 DEF Values
  <2>2. CASE m # n
    <3>1. cached'[m] = cached[m] /\ status'[m] = status[m]
      BY <2>0, <2>2 DEF Start
    <3>. QED  BY <2>1, <3>1
  <2>3. CASE m = n
    <3>1. FiltersNow(n) = zero
      <4>1. \A i \in GetConstFilterCheckList(m) : val[g.in[m][i][1]] = 0
        BY <1>5, MarkedFilters DEF Values
      <4>. QED  BY <2>3, <4>1 DEF FiltersNow
    <3>2. zero # << >>
      BY SomeFilter
    <3>3. cached'[m] = IF cached[m] = << >> THEN FiltersNow(n) ELSE cached[m]
      BY <1>5, <2>0, <2>3 DEF Start
    <3>. HIDE DEF zero
    <3>. QED  BY <2>1, <3>1, <3>2, <3>3 DEF zero
  <2>. QED  BY <2>2, <2>3
<1>. QED  BY <1>0, <1>1, <1>3, <1>4, <1>5 DEF Values

\* Every step keeps the values.
LEMMA ValuesStep == Types /\ Values /\ FilterMarks /\ [Next]_vars => Values'
<1>. SUFFICES ASSUME Types, Values, FilterMarks, [Next]_vars PROVE Values'
  OBVIOUS
<1>0. g' = g
  BY StepsKeepGraph
<1>1. /\ Nodes' = Nodes /\ (\A v : Unassigned(v)' = Unassigned(v) /\ Stable(v)' = Stable(v))
      /\ \A n : GetConstFilterCheckList(n)' = GetConstFilterCheckList(n)
  BY <1>0, GraphStays
<1>2. CASE PassStep /\ UNCHANGED runVars
  <2>1. \A n \in Nodes : cached'[n] = << >> /\ status'[n] = "idle"
    BY <1>2, PassPhase DEF runVars, Types
  <2>2. version' = version /\ val' = val
    BY <1>2 DEF runVars
  <2>. QED  BY <1>0, <1>1, <2>1, <2>2 DEF Values
<1>3. CASE BeginRun
  BY <1>3, ValuesBegin
<1>4. ASSUME NEW n \in Nodes, Start(n) PROVE Values'
  BY <1>4, ValuesStart
<1>5. ASSUME NEW n \in Nodes, Finish(n) PROVE Values'
  <2>1. /\ version' = version /\ val' = val /\ cached' = cached
        /\ is_filter_const' = is_filter_const
        /\ \A m \in Nodes : status'[m] = "running" => status[m] = "running"
    BY <1>5 DEF Finish, passVars, Types
  <2>. QED  BY <1>0, <1>1, <2>1 DEF Values
<1>6. CASE UNCHANGED vars
  BY <1>0, <1>1, <1>6 DEF vars, passVars, runVars, Values
<1>. QED  BY <1>2, <1>3, <1>4, <1>5, <1>6, StepKinds DEF RunStep

-----------------------------------------------------------------------------
(* Views.                                                                  *)

\* The equation that defines Origin, for the node n.
OriginBody(f, n) ==
  IF IsView(n) /\ IsView(g.in[n][1][1]) THEN f[g.in[n][1][1]] ELSE g.in[n][1]

\* What a view is a view of comes before it.
LEMMA ViewInput ==
  ASSUME IsGraph(g), NEW n \in Nodes, IsView(n)
  PROVE  /\ 1 \in DOMAIN g.in[n] /\ g.in[n][1] \in Tensors /\ g.in[n][1][1] \in Nodes
         /\ g.in[n][1][1] < n /\ Ports(g, n) = {1} /\ <<n, 1>> \in Tensors
<1>1. Len(g.in[n]) >= 1 /\ g.in[n][1][1] < n
  BY DEF IsGraph, IsView, Nodes
<1>2. Ports(g, n) = {1}
  BY DEF Ports, IsView
<1>. QED  BY <1>1, <1>2, GraphFacts

\* So the equations have a solution ...
LEMMA OriginExists ==
  ASSUME IsGraph(g)
  PROVE  \E f : f = [n \in Nodes |-> OriginBody(f, n)]
<1>. DEFINE Upto(f, k) == /\ f = [n \in Nodes |-> f[n]]
                          /\ \A n \in Nodes : n <= k => f[n] = OriginBody(f, n)
            P == {k \in Nat : \E f : Upto(f, k)}
<1>0. Len(g.op) \in Nat /\ Nodes = 1 .. Len(g.op)
  BY GraphFacts
<1>1. 0 \in P
  <2>1. Upto([n \in Nodes |-> 0], 0)
    BY <1>0
  <2>. QED  BY <2>1
<1>2. ASSUME NEW k \in Nat, k \in P PROVE k + 1 \in P
  <2>1. PICK f : Upto(f, k)
    BY <1>2
  <2>. DEFINE h == [n \in Nodes |-> IF n = k + 1 THEN OriginBody(f, n) ELSE f[n]]
  <2>2. \A n \in Nodes : h[n] = IF n = k + 1 THEN OriginBody(f, n) ELSE f[n]
    OBVIOUS
  <2>3. h = [n \in Nodes |-> h[n]]
    OBVIOUS
  <2>. HIDE DEF h
  <2>4. ASSUME NEW n \in Nodes, n <= k + 1 PROVE OriginBody(h, n) = OriginBody(f, n)
    <3>1. CASE IsView(n) /\ IsView(g.in[n][1][1])
      <4>1. g.in[n][1][1] \in Nodes /\ g.in[n][1][1] < n
        BY <3>1, ViewInput
      <4>2. g.in[n][1][1] # k + 1
        BY <1>0, <2>4, <4>1
      <4>. QED  BY <2>2, <4>1, <4>2 DEF OriginBody
    <3>2. CASE ~(IsView(n) /\ IsView(g.in[n][1][1]))
      BY <3>2 DEF OriginBody
    <3>. QED  BY <3>1, <3>2
  <2>5. ASSUME NEW n \in Nodes, n <= k + 1 PROVE h[n] = OriginBody(h, n)
    <3>1. CASE n = k + 1
      BY <2>2, <2>4, <2>5, <3>1
    <3>2. CASE n # k + 1
      <4>1. n <= k
        BY <1>0, <2>5, <3>2
      <4>. QED  BY <2>1, <2>2, <2>4, <2>5, <3>2, <4>1
    <3>. QED  BY <3>1, <3>2
  <2>6. Upto(h, k + 1)
    BY <2>3, <2>5
  <2>. HIDE DEF Upto
  <2>. QED  BY <2>6
<1>. HIDE DEF P
<1>3. Len(g.op) \in P
  BY <1>0, <1>1, <1>2, Induct
<1>4. PICK f : Upto(f, Len(g.op))
  BY <1>3 DEF P
<1>5. f = [n \in Nodes |-> f[n]] /\ \A n \in Nodes : f[n] = OriginBody(f, n)
  BY <1>0, <1>4
<1>. HIDE DEF Upto
<1>6. [n \in Nodes |-> f[n]] = [n \in Nodes |-> OriginBody(f, n)]
  BY <1>5
<1>7. f = [n \in Nodes |-> OriginBody(f, n)]
  BY <1>5, <1>6
<1>. QED  BY <1>7

\* ... and a view has the value of its input.
LEMMA OriginOf ==
  ASSUME IsGraph(g)
  PROVE  /\ \A t : ~IsView(t[1]) => Origin(t) = t
         /\ \A n \in Nodes : IsView(n) => Origin(<<n, 1>>) = Origin(g.in[n][1])
<1>. DEFINE F(f) == [n \in Nodes |-> IF IsView(n) /\ IsView(g.in[n][1][1])
                                     THEN f[g.in[n][1][1]] ELSE g.in[n][1]]
            of == CHOOSE f : f = F(f)
<1>1. \A t : Origin(t) = IF IsView(t[1]) THEN of[t[1]] ELSE t
  BY DEF Origin
<1>2. PICK f : f = [n \in Nodes |-> OriginBody(f, n)]
  BY OriginExists
<1>3. f = F(f)
  BY <1>2 DEF OriginBody
<1>. HIDE DEF F
<1>4. of = F(of)
  BY <1>3
<1>. HIDE DEF of
<1>5. \A n \in Nodes : of[n] = IF IsView(n) /\ IsView(g.in[n][1][1])
                               THEN of[g.in[n][1][1]] ELSE g.in[n][1]
  BY <1>4 DEF F
<1>6. ASSUME NEW n \in Nodes, IsView(n) PROVE Origin(<<n, 1>>) = Origin(g.in[n][1])
  <2>1. Origin(<<n, 1>>) = of[n]
    BY <1>1, <1>6
  <2>. QED  BY <1>1, <1>5, <1>6, <2>1
<1>. QED  BY <1>1, <1>6

\* A tensor that has another one's value is a view of it, or of a view of it.
LEMMA OriginViewed ==
  ASSUME IsGraph(g), NEW t \in Tensors, Origin(t) # t
  PROVE  \E m \in Nodes : IsView(m) /\ g.in[m][1] = Origin(t)
<1>. DEFINE Bad(k) == \E u \in Tensors :
                        /\ u[1] = k /\ Origin(u) # u
                        /\ ~\E m \in Nodes : IsView(m) /\ g.in[m][1] = Origin(u)
            T == {k \in Nat : Bad(k)}
<1>0. \A u \in Tensors : u = <<u[1], u[2]>> /\ u[1] \in Nodes /\ u[1] \in Nat
                         /\ u[2] \in Ports(g, u[1])
  BY GraphFacts
<1>1. SUFFICES ASSUME T # {} PROVE FALSE
  BY <1>0
<1>2. PICK k \in T : \A l \in T : k <= l
  BY <1>1, Least, T \in SUBSET Nat
<1>3. PICK u \in Tensors : /\ u[1] = k /\ Origin(u) # u
                           /\ ~\E m \in Nodes : IsView(m) /\ g.in[m][1] = Origin(u)
  BY <1>2
<1>4. IsView(k) /\ k \in Nodes
  BY <1>0, <1>3, OriginOf
<1>5. /\ g.in[k][1] \in Tensors /\ g.in[k][1][1] \in Nodes /\ g.in[k][1][1] < k
      /\ Ports(g, k) = {1}
  BY <1>4, ViewInput
<1>6. u = <<k, 1>>
  BY <1>0, <1>3, <1>5
<1>. DEFINE v == g.in[k][1]
<1>7. Origin(u) = Origin(v)
  BY <1>4, <1>6, OriginOf
<1>8. Origin(v) # v
  BY <1>3, <1>4, <1>7
<1>9. v[1] \in T
  BY <1>0, <1>3, <1>5, <1>7, <1>8
<1>. QED  BY <1>0, <1>2, <1>5, <1>9

-----------------------------------------------------------------------------
(* Buffers.                                                                *)

\* Every step keeps what the in-place marks mean.
LEMMA MarksStep == Types /\ RefCountsExact /\ Marks /\ [Next]_vars => Marks'
<1>. SUFFICES ASSUME Types, RefCountsExact, Marks, [Next]_vars PROVE Marks'
  OBVIOUS
<1>0. g' = g /\ IsGraph(g)
  BY StepsKeepGraph, TypesGraph
<1>1. Nodes' = Nodes /\ \A n, i : Safe(n, i)' <=> Safe(n, i)
  BY <1>0, GraphStays
<1>2. CASE InplaceInference
  <2>1. PICK n \in Nodes : \A m \in Nodes :
          forward'[m] \subseteq forward[m] \cup (IF m = n THEN DetectUnvisitedNode(n) ELSE {})
    <3>1. Head(stack) \in Nodes
      BY <1>2 DEF InplaceInference, Types
    <3>2. forward = [m \in Nodes |-> forward[m]]
      BY DEF Types
    <3>3. \/ forward' = forward
          \/ forward' = [forward EXCEPT ![Head(stack)]
                           = @ \cup DetectUnvisitedNode(Head(stack))]
      BY <1>2 DEF InplaceInference
    <3>. QED  BY <3>1, <3>2, <3>3
  <2>2. \A i \in DetectUnvisitedNode(n) : Safe(n, i)
    BY <1>0, DetectedSafe
  <2>. QED  BY <1>1, <2>1, <2>2 DEF Marks
<1>3. CASE forward' = forward
  BY <1>1, <1>3 DEF Marks
<1>. QED  BY <1>2, <1>3 DEF Next, StaticInplaceOpt, WeightCacheOpt, PassDone, BeginRun,
                            Start, Finish, vars, passVars

\* What lies before a node that has begun is done.
LEMMA BeforeIsDone ==
  ASSUME Types, Runs, NEW n \in Nodes, Begun(n), NEW m, Before(m, n)
  PROVE  status[m] = "done"
<1>. DEFINE S == {k \in Nodes : status[k] = "done"}
<1>1. \A k \in Nodes : Begun(k) => Fanin(k) \subseteq S
  BY TypesGraph, GraphFacts DEF Runs
<1>2. Closed(S)
  BY <1>1 DEF Closed, Begun
<1>3. S \in SUBSET Nodes /\ Fanin(n) \subseteq S
  BY <1>1
<1>. HIDE DEF S
<1>4. m \in S
  BY <1>2, <1>3 DEF Before
<1>. QED  BY <1>4 DEF S

\* If a tensor has been taken over, its other readers are done.
LEMMA TakenReaders ==
  ASSUME Types, Marks, Runs, NEW n \in Nodes, Begun(n), NEW t, Took(n, t),
         NEW e \in Fanout(t)
  PROVE  e = <<n, took[n]>> \/ status[e[1]] = "done"
<1>1. took[n] \in forward[n] /\ g.in[n][took[n]] = t
  BY DEF Types, Took
<1>2. Safe(n, took[n])
  BY <1>1 DEF Marks
<1>3. e = <<n, took[n]>> \/ Before(e[1], n)
  BY <1>1, <1>2 DEF Safe
<1>. QED  BY <1>3, BeforeIsDone

\* A tensor that a node reads while it has not finished holds its value, unless
\* that node has itself taken it over.
LEMMA ReadHolds ==
  ASSUME Types, Marks, Runs, NEW n \in Nodes, status[n] # "done",
         \A m \in Fanin(n) : status[m] = "done", NEW i \in DOMAIN g.in[n]
  PROVE  Holds(g.in[n][i]) \/ (Begun(n) /\ took[n] = i)
<1>. DEFINE t == g.in[n][i]
<1>1. t \in Tensors /\ t[1] \in Fanin(n) /\ <<n, i>> \in Fanout(t)
  BY TypesGraph, GraphFacts, Readers DEF Fanin
<1>2. Begun(t[1])
  BY <1>1 DEF Begun
<1>3. CASE Holds(t)
  BY <1>3
<1>4. CASE \E m \in Nodes : Begun(m) /\ Took(m, t)
  <2>1. PICK m \in Nodes : Begun(m) /\ Took(m, t)
    BY <1>4
  <2>2. <<n, i>> = <<m, took[m]>> \/ status[<<n, i>>[1]] = "done"
    BY <1>1, <2>1, TakenReaders
  <2>3. <<n, i>> = <<m, took[m]>>
    BY <2>2
  <2>4. n = m /\ took[m] = i
    BY <2>3
  <2>. QED  BY <2>1, <2>4
<1>. QED  BY <1>1, <1>2, <1>3, <1>4 DEF Runs

\* A node that starts takes over one of its marked inputs, ...
Takes(n, i) ==
  /\ took' = [took EXCEPT ![n] = i]
  /\ home' = [t \in Tensors |-> IF t[1] = n THEN home[g.in[n][i]] ELSE home[t]]
  /\ holds' = [b \in Tensors |-> IF b = home[g.in[n][i]] THEN <<n, 1>> ELSE holds[b]]

\* ... uses buffers of its own, ...
TakesNone(n) ==
  /\ took' = [took EXCEPT ![n] = 0]
  /\ home' = [t \in Tensors |-> IF t[1] = n THEN t ELSE home[t]]
  /\ holds' = [b \in Tensors |-> IF b[1] = n THEN b ELSE holds[b]]

\* ... or hands on the buffer of its input.
HandsOn(n) ==
  /\ took' = [took EXCEPT ![n] = 0]
  /\ home' = [t \in Tensors |-> IF t[1] = n THEN home[g.in[n][1]] ELSE home[t]]
  /\ holds' = holds

\* The three ways of starting.
LEMMA StartTakes ==
  ASSUME Types, Marks, NEW n \in Nodes, Start(n)
  PROVE  \/ TakesNone(n) /\ ~IsView(n)
         \/ HandsOn(n) /\ IsView(n)
         \/ \E i \in forward[n] : i # 0 /\ Takes(n, i) /\ ~IsView(n)
<1>0. IsGraph(g) /\ holds = [b \in Tensors |-> holds[b]]
  BY TypesGraph DEF Types
<1>1. PICK from \in forward[n] \cup {0} : Starts(n, from)
  BY StartChooses
<1>2. CASE IsView(n)
  <2>1. from = 0
    BY <1>2 DEF Marks, Safe
  <2>2. \A p, b : ~Writes(n, from, p, b) /\ Where(n, from, p) = home[g.in[n][1]]
    BY <1>2, <2>1 DEF Writes, Where
  <2>3. holds' = [b \in Tensors |-> holds[b]]
    BY <1>1, <2>2 DEF Starts
  <2>. QED  BY <1>0, <1>1, <1>2, <2>1, <2>2, <2>3 DEF Starts, HandsOn
<1>3. CASE from = 0 /\ ~IsView(n)
  <2>1. \A p, b : Writes(n, from, p, b) <=> b = <<n, p>>
    BY <1>0, <1>3 DEF Writes, Where
  <2>2. ASSUME NEW t \in Tensors, t[1] = n
        PROVE  /\ Where(n, from, t[2]) = t
               /\ \E p \in Ports(g, n) : Writes(n, from, p, t)
               /\ <<n, CHOOSE p \in Ports(g, n) : Writes(n, from, p, t)>> = t
    <3>1. t = <<n, t[2]>> /\ t[2] \in Ports(g, n)
      BY <1>0, <2>2, GraphFacts
    <3>2. Writes(n, from, t[2], t)
      BY <2>1, <3>1
    <3>3. \A p \in Ports(g, n) : Writes(n, from, p, t) => p = t[2]
      BY <2>1, <3>1
    <3>4. (CHOOSE p \in Ports(g, n) : Writes(n, from, p, t)) = t[2]
      BY <3>1, <3>2, <3>3
    <3>. QED  BY <1>0, <1>3, <3>1, <3>2, <3>4 DEF Where
  <2>3. ASSUME NEW t \in Tensors, t[1] # n
        PROVE  ~\E p \in Ports(g, n) : Writes(n, from, p, t)
    BY <2>1, <2>3
  <2>4. home' = [t \in Tensors |-> IF t[1] = n THEN t ELSE home[t]]
    BY <1>1, <2>2 DEF Starts
  <2>5. holds' = [b \in Tensors |-> IF b[1] = n THEN b ELSE holds[b]]
    BY <1>1, <2>2, <2>3 DEF Starts
  <2>. QED  BY <1>1, <1>3, <2>4, <2>5 DEF Starts, TakesNone
<1>4. CASE from # 0 /\ ~IsView(n)
  <2>1. from \in forward[n] /\ Ports(g, n) = {1}
    BY <1>4 DEF Marks, Safe, Ports
  <2>2. \A b : Writes(n, from, 1, b) <=> b = home[g.in[n][from]]
    BY <1>0, <1>4 DEF Writes, Where
  <2>3. \A t \in Tensors : t[1] = n => Where(n, from, t[2]) = home[g.in[n][from]]
    BY <1>0, <1>4, <2>1, GraphFacts DEF Where
  <2>4. home' = [t \in Tensors |-> IF t[1] = n THEN home[g.in[n][from]] ELSE home[t]]
    BY <1>1, <2>3 DEF Starts
  <2>5. ASSUME NEW b \in Tensors
        PROVE  (IF \E p \in Ports(g, n) : Writes(n, from, p, b)
                THEN <<n, CHOOSE p \in Ports(g, n) : Writes(n, from, p, b)>>
                ELSE holds[b])
               = IF b = home[g.in[n][from]] THEN <<n, 1>> ELSE holds[b]
    <3>1. (CHOOSE p \in Ports(g, n) : Writes(n, from, p, b)) \in Ports(g, n)
             \/ ~\E p \in Ports(g, n) : Writes(n, from, p, b)
      OBVIOUS
    <3>. QED  BY <2>1, <2>2, <3>1
  <2>6. holds' = [b \in Tensors |-> IF b = home[g.in[n][from]] THEN <<n, 1>> ELSE holds[b]]
    BY <1>1, <2>5 DEF Starts
  <2>7. Takes(n, from)
    BY <1>1, <2>4, <2>6 DEF Starts, Takes
  <2>. QED  BY <1>4, <2>1, <2>7
<1>. QED  BY <1>3, <1>4, <1>2

\* A node that starts, in each of these ways, keeps what is known of the run.
LEMMA RunsStart ==
  ASSUME Types, RefCountsExact, Marks, Runs, NEW n \in Nodes, Start(n)
  PROVE  Runs'
<1>0. g' = g /\ IsGraph(g) /\ Ready(n)
  BY TypesGraph DEF Start
<1>1. /\ Nodes' = Nodes /\ Tensors' = Tensors
      /\ \A m : Fanin(m)' = Fanin(m) /\ \A t : Origin(t)' = Origin(t)
  BY <1>0, GraphStays
<1>2. ~Source(n) /\ status[n] = "idle" /\ ~Begun(n) /\ ~IsAnyConst(g.op[n])
  BY <1>0, ReadyNotSource DEF Begun, IsGraph, Nodes, Source
<1>3. \A m \in Fanin(n) : status[m] = "done" /\ m # n
  BY <1>0, <1>2 DEF Ready
<1>4. /\ \A m \in Nodes \ {n} : status'[m] = status[m]
      /\ status'[n] = "running"
      /\ \A m \in Nodes : Begun(m)' <=> Begun(m) \/ m = n
      /\ \A m \in Nodes : Begun(m) \/ m = n => status'[m] # "idle"
  BY <1>2 DEF Start, Types, Begun
<1>5. /\ \A t \in Tensors : t = <<t[1], t[2]>> /\ t[1] \in Nodes /\ home[t] \in Tensors
      /\ \A m \in Nodes : Fanin(m) \subseteq Nodes
      /\ took = [m \in Nodes |-> took[m]]
  BY <1>0, GraphFacts DEF Types
<1>6. \A m \in Nodes : Begun(m)' => \A k \in Fanin(m) : status'[k] = "done"
  <2>1. ASSUME NEW m \in Nodes, Begun(m)', NEW k \in Fanin(m) PROVE status'[k] = "done"
    <3>1. status[k] = "done" /\ k \in Nodes
      BY <1>3, <1>4, <1>5, <2>1 DEF Runs
    <3>2. k # n
      BY <1>2, <3>1
    <3>. QED  BY <1>4, <3>1, <3>2
  <2>. QED  BY <2>1
<1>7. \A m \in Nodes : m # n => took'[m] = took[m]
  BY <1>5, StartTakes DEF Takes, TakesNone, HandsOn
<1>8. \A m \in Nodes : Begun(m)' \/ took'[m] = 0
  BY <1>4, <1>7 DEF Runs
<1>9. \A m \in Nodes : \A t : Begun(m) /\ Took(m, t) => Begun(m)' /\ Took(m, t)'
  BY <1>0, <1>2, <1>4, <1>7 DEF Took
<1>. DEFINE
       Kept ==
         /\ \A t \in Tensors : Begun(t[1])' =>
              /\ status'[home'[t][1]] # "idle"
              /\ holds'[home'[t]] = Origin(t) \/ \E m \in Nodes : Begun(m)' /\ Took(m, t)'
         /\ \A t \in Tensors :
              /\ ~IsView(t[1]) => (IsAnyConst(g.op[t[1]]) <=> IsAnyConst(g.op[home'[t][1]]))
              /\ IsAnyConst(g.op[t[1]]) => home'[t] = t /\ holds'[t] = t
<1>10. SUFFICES Kept
  BY <1>0, <1>1, <1>6, <1>8 DEF Runs, Begun, Holds, IsView
<1>11. CASE TakesNone(n) /\ ~IsView(n)
  <2>1. \A t \in Tensors : home'[t] = (IF t[1] = n THEN t ELSE home[t])
                           /\ holds'[t] = (IF t[1] = n THEN t ELSE holds[t])
    BY <1>11 DEF TakesNone
  <2>2. ASSUME NEW t \in Tensors, Begun(t[1])'
        PROVE  /\ status'[home'[t][1]] # "idle"
               /\ holds'[home'[t]] = Origin(t) \/ \E m \in Nodes : Begun(m)' /\ Took(m, t)'
    <3>1. CASE t[1] = n
      BY <1>0, <1>4, <1>11, <2>1, <3>1, <2>2, OriginOf
    <3>2. CASE t[1] # n
      <4>1. Begun(t[1]) /\ home'[t] = home[t] /\ Begun(home[t][1])
        BY <1>4, <1>5, <2>1, <2>2, <3>2 DEF Runs
      <4>2. home[t][1] # n /\ holds'[home[t]] = holds[home[t]] /\ home[t][1] \in Nodes
        BY <1>2, <1>5, <2>1, <4>1
      <4>. QED  BY <1>4, <1>9, <4>1, <4>2 DEF Runs, Holds
    <3>. QED  BY <3>1, <3>2
  <2>3. ASSUME NEW t \in Tensors
        PROVE  /\ ~IsView(t[1]) => (IsAnyConst(g.op[t[1]]) <=> IsAnyConst(g.op[home'[t][1]]))
               /\ IsAnyConst(g.op[t[1]]) => home'[t] = t /\ holds'[t] = t
    BY <1>2, <2>1 DEF Runs
  <2>. QED  BY <2>2, <2>3
<1>12. CASE HandsOn(n) /\ IsView(n)
  <2>. DEFINE u == g.in[n][1]
  <2>1. u \in Tensors /\ u[1] \in Fanin(n) /\ u[1] \in Nodes /\ 1 \in DOMAIN g.in[n]
    BY <1>0, <1>12, ViewInput DEF Fanin
  <2>2. \A t \in Tensors : home'[t] = (IF t[1] = n THEN home[u] ELSE home[t])
                           /\ holds'[t] = holds[t]
    BY <1>12 DEF HandsOn, Types
  <2>3. Begun(u[1]) /\ u[1] # n
    BY <1>3, <2>1 DEF Begun
  <2>4. Holds(u)
    BY <1>2, <1>3, <2>1, ReadHolds
  <2>5. holds[home[u]] = Origin(u) /\ Origin(<<n, 1>>) = Origin(u)
    BY <1>0, <1>12, <2>4, OriginOf DEF Holds
  <2>6. home[u] \in Tensors /\ Begun(home[u][1]) /\ home[u][1] \in Nodes
    BY <1>5, <2>1, <2>3 DEF Runs
  <2>7. \A t \in Tensors : t[1] = n => t = <<n, 1>>
    BY <1>0, <1>12, ViewInput, GraphFacts
  <2>. HIDE DEF u
  <2>8. ASSUME NEW t \in Tensors, Begun(t[1])'
        PROVE  /\ status'[home'[t][1]] # "idle"
               /\ holds'[home'[t]] = Origin(t) \/ \E m \in Nodes : Begun(m)' /\ Took(m, t)'
    <3>1. CASE t[1] = n
      BY <1>4, <2>2, <2>5, <2>6, <2>7, <3>1
    <3>2. CASE t[1] # n
      <4>1. Begun(t[1]) /\ home'[t] = home[t] /\ Begun(home[t][1]) /\ home[t] \in Tensors
        BY <1>4, <1>5, <2>2, <2>8, <3>2 DEF Runs
      <4>2. holds'[home[t]] = holds[home[t]] /\ home[t][1] \in Nodes
        BY <1>5, <2>2, <4>1
      <4>. QED  BY <1>4, <1>9, <4>1, <4>2 DEF Runs, Holds
    <3>. QED  BY <3>1, <3>2
  <2>9. ASSUME NEW t \in Tensors
        PROVE  /\ ~IsView(t[1]) => (IsAnyConst(g.op[t[1]]) <=> IsAnyConst(g.op[home'[t][1]]))
               /\ IsAnyConst(g.op[t[1]]) => home'[t] = t /\ holds'[t] = t
    BY <1>2, <1>12, <2>2 DEF Runs
  <2>. QED  BY <2>8, <2>9
<1>13. ASSUME NEW i \in forward[n], i # 0, Takes(n, i), ~IsView(n)
       PROVE  Kept
  <2>. DEFINE s == g.in[n][i]  b == home[s]
  <2>1. /\ i \in DOMAIN g.in[n] /\ g.op[n] # "split" /\ ~IsAnyConst(g.op[s[1]])
        /\ ~IsView(s[1]) /\ \A e \in Fanout(s) : ~IsView(e[1])
    BY <1>13 DEF Marks, Safe
  <2>2. s \in Tensors /\ s[1] \in Fanin(n) /\ s[1] \in Nodes
    BY <1>0, <2>1, GraphFacts DEF Fanin
  <2>3. Begun(s[1]) /\ s[1] # n /\ b \in Tensors
    BY <1>3, <1>5, <2>2 DEF Begun
  <2>4. holds[b] = s
    <3>1. Holds(s)
      BY <1>2, <1>3, <2>1, ReadHolds
    <3>. QED  BY <1>0, <2>1, <3>1, OriginOf DEF Holds
  <2>5. b[1] # n /\ Begun(b[1]) /\ ~IsAnyConst(g.op[b[1]])
    BY <1>2, <2>1, <2>2, <2>3 DEF Runs
  <2>6. \A t \in Tensors : home'[t] = (IF t[1] = n THEN b ELSE home[t])
                           /\ holds'[t] = (IF t = b THEN <<n, 1>> ELSE holds[t])
    BY <1>13 DEF Takes
  <2>7. ASSUME NEW t, t = s PROVE Begun(n)' /\ Took(n, t)'
    <3>1. took'[n] = i
      BY <1>5, <1>13 DEF Takes
    <3>. QED  BY <1>0, <1>4, <1>13, <2>7, <3>1 DEF Took
  <2>. HIDE DEF s, b
  \* Nothing else has the value of s.
  <2>8. ASSUME NEW t \in Tensors, Origin(t) = s PROVE t = s
    <3>1. SUFFICES ASSUME t # s PROVE FALSE
      OBVIOUS
    <3>2. PICK m \in Nodes : IsView(m) /\ g.in[m][1] = s
      BY <1>0, <2>8, <3>1, OriginViewed
    <3>3. <<m, 1>> \in Fanout(s)
      BY <1>0, <3>2, ViewInput, Readers
    <3>. QED  BY <2>1, <3>2, <3>3
  <2>9. ASSUME NEW t \in Tensors, Begun(t[1])'
        PROVE  /\ status'[home'[t][1]] # "idle"
               /\ holds'[home'[t]] = Origin(t) \/ \E m \in Nodes : Begun(m)' /\ Took(m, t)'
    <3>1. CASE t[1] = n
      <4>1. home'[t] = b /\ holds'[b] = <<n, 1>>
        BY <2>3, <2>6, <3>1
      <4>2. t = <<n, 1>>
        BY <1>0, <2>1, <3>1, GraphFacts DEF Ports
      <4>3. b[1] \in Nodes
        BY <1>5, <2>3
      <4>4. Origin(t) = t
        BY <1>0, <1>13, <3>1, OriginOf
      <4>. QED  BY <1>4, <2>5, <4>1, <4>2, <4>3, <4>4
    <3>2. CASE t[1] # n
      <4>1. Begun(t[1]) /\ home'[t] = home[t] /\ Begun(home[t][1]) /\ home[t] \in Tensors
        BY <1>4, <1>5, <2>6, <2>9, <3>2 DEF Runs
      <4>2. home[t][1] \in Nodes
        BY <1>5, <4>1
      <4>3. status'[home'[t][1]] # "idle"
        BY <1>4, <4>1, <4>2
      <4>4. CASE t = s
        BY <2>7, <4>3, <4>4
      <4>5. CASE t # s /\ holds[home[t]] = Origin(t)
        <5>1. home[t] # b
          BY <2>4, <2>8, <4>5
        <5>2. holds'[home[t]] = Origin(t)
          BY <2>6, <4>1, <4>5, <5>1
        <5>. QED  BY <4>1, <4>3, <5>2
      <4>6. CASE \E m \in Nodes : Begun(m) /\ Took(m, t)
        BY <1>9, <4>3, <4>6
      <4>. QED  BY <4>1, <4>4, <4>5, <4>6 DEF Runs, Holds
    <3>. QED  BY <3>1, <3>2
  <2>10. ASSUME NEW t \in Tensors
        PROVE  /\ ~IsView(t[1]) => (IsAnyConst(g.op[t[1]]) <=> IsAnyConst(g.op[home'[t][1]]))
               /\ IsAnyConst(g.op[t[1]]) => home'[t] = t /\ holds'[t] = t
    BY <1>2, <2>5, <2>6 DEF Runs
  <2>. QED  BY <2>9, <2>10
<1>. QED  BY <1>11, <1>13, <1>12, StartTakes

\* Beginning a run: only sources are there, each in its own buffer.
LEMMA RunsBegin ==
  ASSUME Types, Runs, BeginRun
  PROVE  Runs'
<1>0. g' = g /\ IsGraph(g)
  BY TypesGraph DEF BeginRun
<1>1. /\ Nodes' = Nodes /\ Tensors' = Tensors
      /\ \A m : Fanin(m)' = Fanin(m) /\ \A t : Origin(t)' = Origin(t)
  BY <1>0, GraphStays
<1>2. /\ \A n \in Nodes : status'[n] = (IF Source(n) THEN "done" ELSE "idle") /\ took'[n] = 0
      /\ \A t \in Tensors : home'[t] = t
      /\ \A t \in Tensors : holds'[t] = IF runs > 0 /\ IsAnyConst(g.op[t[1]])
                                        THEN holds[t] ELSE t
  BY DEF BeginRun
<1>3. \A t \in Tensors : holds'[t] = t
  BY <1>2 DEF Runs
<1>4. \A n \in Nodes : Source(n) => Fanin(n) = {}
  BY DEF Source, Fanin
<1>5. \A n \in Nodes : Begun(n)' => Fanin(n) = {}
  BY <1>2, <1>4 DEF Begun
<1>6. ASSUME NEW t \in Tensors, Begun(t[1])' PROVE Holds(t)'
  <2>1. t[1] \in Nodes /\ Source(t[1])
    BY <1>0, <1>2, <1>6, GraphFacts DEF Begun
  <2>2. ~IsView(t[1])
    BY <1>0, <2>1, ViewInput, DOMAIN << >> = {} DEF Source
  <2>3. Origin(t) = t
    BY <1>0, <2>2, OriginOf
  <2>. QED  BY <1>1, <1>2, <1>3, <2>3 DEF Holds
<1>7. \A t \in Tensors : Begun(t[1])' => Begun(home[t][1])'
  BY <1>2 DEF Begun
<1>. QED  BY <1>0, <1>1, <1>2, <1>3, <1>5, <1>6, <1>7 DEF Runs

\* Every step keeps what is known of the run.
LEMMA RunsStep == Types /\ RefCountsExact /\ Marks /\ Runs /\ [Next]_vars => Runs'
<1>. SUFFICES ASSUME Types, RefCountsExact, Marks, Runs, [Next]_vars PROVE Runs'
  OBVIOUS
<1>0. g' = g /\ IsGraph(g)
  BY StepsKeepGraph, TypesGraph
<1>1. /\ Nodes' = Nodes /\ Tensors' = Tensors
      /\ \A m : Fanin(m)' = Fanin(m) /\ \A t : Origin(t)' = Origin(t)
  BY <1>0, GraphStays
<1>2. CASE UNCHANGED <<status, took, home, holds>>
  BY <1>0, <1>1, <1>2 DEF Runs, Begun, Took, Holds, IsView
<1>3. CASE BeginRun
  BY <1>3, RunsBegin
<1>4. ASSUME NEW n \in Nodes, Start(n) PROVE Runs'
  BY <1>4, RunsStart
<1>5. ASSUME NEW n \in Nodes, Finish(n) PROVE Runs'
  <2>1. took' = took /\ home' = home /\ holds' = holds
    BY <1>5 DEF Finish
  <2>2. \A m \in Nodes : /\ Begun(m)' <=> Begun(m)
                         /\ status[m] = "done" => status'[m] = "done"
    BY <1>5 DEF Finish, Types, Begun
  <2>3. \A m \in Nodes : Fanin(m) \subseteq Nodes
    BY <1>0, GraphFacts
  <2>4. \A t \in Tensors : t[1] \in Nodes /\ home[t][1] \in Nodes
    BY <1>0, GraphFacts DEF Types
  <2>5. \A m \in Nodes : \A t : Took(m, t)' <=> Took(m, t)
    BY <1>0, <2>1 DEF Took
  <2>6. \A t : Holds(t)' <=> Holds(t)
    BY <1>1, <2>1 DEF Holds
  <2>. QED  BY <1>0, <1>1, <2>1, <2>2, <2>3, <2>4, <2>5, <2>6 DEF Runs, IsView
<1>. QED  BY <1>2, <1>3, <1>4, <1>5, StepKinds DEF RunStep, vars, runVars

-----------------------------------------------------------------------------
(* The invariant and what follows from it.                                 *)

\* A graph that has not been optimised satisfies the invariant.
LEMMA InitIInv == Init => IInv
<1>. SUFFICES ASSUME Init PROVE IInv
  OBVIOUS
<1>1. Types /\ IsGraph(g)
  BY TypesInit, TypesGraph
<1>2. PackedMarks /\ FilterMarks
  BY DEF Init, PackedMarks, FilterMarks
<1>3. Values
  BY DEF Init, Values
<1>4. RefCountsExact => Marks
  BY <1>1, MarkedSafe DEF Init, Marks
<1>5. Runs
  <2>1. \A n \in Nodes : ~Begun(n) /\ took[n] = 0
    BY DEF Init, Begun
  <2>2. \A t \in Tensors : t[1] \in Nodes /\ home[t] = t /\ holds[t] = t
    BY <1>1, GraphFacts DEF Init
  <2>. QED  BY <2>1, <2>2 DEF Runs
<1>. QED  BY <1>1, <1>2, <1>3, <1>4, <1>5 DEF IInv

\* Every step keeps the invariant.
LEMMA NextIInv == IInv /\ [Next]_vars => IInv'
<1>. SUFFICES ASSUME IInv, [Next]_vars PROVE IInv'
  OBVIOUS
<1>1. Types /\ PackedMarks /\ FilterMarks /\ Values /\ (RefCountsExact => Marks /\ Runs)
  BY DEF IInv
<1>2. packed' \in [Nodes -> 0 .. 1] /\ PackedMarks'
  BY <1>1, PackedStep
<1>3. Types'
  BY <1>1, <1>2, TypesStep
<1>4. FilterMarks' /\ Values'
  BY <1>1, FilterMarksStep, ValuesStep
<1>5. RefCountsExact' = RefCountsExact
  BY StepsKeepGraph, GraphStays
<1>6. RefCountsExact => Marks' /\ Runs'
  BY <1>1, MarksStep, RunsStep
<1>. QED  BY <1>2, <1>3, <1>4, <1>5, <1>6 DEF IInv

\* The invariant holds in every reachable state.
LEMMA Invariant == Spec => []IInv
<1>1. Init => IInv
  BY InitIInv
<1>2. IInv /\ [Next]_vars => IInv'
  BY NextIInv
<1>. QED  BY <1>1, <1>2, PTL DEF Spec

\* Every variable has its type, and a constant is packed at most once, whatever the
\* graph and however often RunMemoryOptPass is applied to it.
THEOREM TypeCorrect == Spec => []TypeOK
<1>1. IInv => TypeOK
  BY DEF IInv, Types, TypeOK
<1>. QED  BY <1>1, Invariant, PTL

\* In every run of every graph in which GetStaticRefCount counts the readers of a
\* buffer, no kernel overwrites a buffer that another one reads or writes, will
\* read, or that is fetched: what IsSafeForwarding finds is enough.
THEOREM BuffersStayIntact == Spec => [](RefCountsExact => BuffersIntact)
<1>1. ASSUME IInv, RefCountsExact PROVE BuffersIntact
  <2>0. Types /\ Marks /\ Runs /\ IsGraph(g)
    BY <1>1, TypesGraph DEF IInv
  <2>2. \A n \in Nodes : \A p \in Ports(g, n) : <<n, p>> \in Tensors
    BY <2>0, GraphFacts
  <2>3. ASSUME NEW n \in Nodes, NEW p \in Ports(g, n), Begun(n),
               \A m \in Nodes : Begun(m) => ~Took(m, <<n, p>>)
        PROVE  Holds(<<n, p>>)
    BY <2>0, <2>2, <2>3 DEF Runs
  <2>4. \A m \in Nodes : \A t : Took(m, t) => /\ Safe(m, took[m]) /\ g.in[m][took[m]] = t
                                          /\ took[m] \in DOMAIN g.in[m]
    BY <2>0 DEF Took, Types, Marks
  <2>5. ASSUME NEW n \in Nodes, status[n] = "running" PROVE InputsIntact(n)
    <3>1. Begun(n) /\ \A m \in Fanin(n) : status[m] = "done"
      BY <2>0, <2>5 DEF Runs, Begun
    <3>2. ASSUME NEW i \in DOMAIN g.in[n] PROVE took[n] = i \/ Holds(g.in[n][i])
      <4>1. g.in[n][i] \in Tensors
        BY <2>0, GraphFacts
      <4>. QED  BY <1>1, <2>0, <2>5, <3>1, <4>1, ReadHolds
    <3>3. ASSUME NEW p \in Ports(g, n) PROVE Holds(<<n, p>>)
      <4>1. ASSUME NEW m \in Nodes, Begun(m), Took(m, <<n, p>>) PROVE FALSE
        <5>1. n \in Fanin(m)
          BY <2>4, <4>1 DEF Fanin
        <5>2. status[n] = "done"
          BY <2>0, <4>1, <5>1 DEF Runs
        <5>. QED  BY <2>5, <5>2
      <4>. QED  BY <2>3, <3>1, <4>1
    <3>. QED  BY <3>2, <3>3 DEF InputsIntact
  <2>6. ASSUME NEW n \in g.keep, NEW p \in Ports(g, n), status[n] = "done",
               \A e \in Fanout(<<n, p>>) : g.op[e[1]] # "llga"
        PROVE  Holds(<<n, p>>)
    <3>1. n \in Nodes /\ Begun(n)
      BY <2>0, <2>6, GraphFacts DEF Begun
    <3>2. ASSUME NEW m \in Nodes, Begun(m), Took(m, <<n, p>>) PROVE FALSE
      <4>1. g.op[m] = "llga"
        BY <2>4, <3>2 DEF Safe
      <4>2. <<m, took[m]>> \in Fanout(<<n, p>>)
        BY <2>0, <2>4, <3>2, Readers
      <4>. QED  BY <2>6, <4>1, <4>2
    <3>. QED  BY <2>3, <3>1, <3>2
  <2>. QED  BY <2>5, <2>6 DEF BuffersIntact
<1>2. IInv => (RefCountsExact => BuffersIntact)
  BY <1>1
<1>. QED  BY <1>2, Invariant, PTL

\* In every graph, a filter that CheckConstFilter has marked, and that a kernel has
\* therefore kept from its first run, is the filter of every later run.
THEOREM FiltersNeverChange == Spec => []FiltersStay
<1>1. ASSUME IInv PROVE FiltersStay
  <2>0. Types /\ FilterMarks /\ Values
    BY <1>1 DEF IInv
  <2>1. ASSUME NEW n \in is_filter_const, status[n] = "running",
               ~\E i \in GetConstFilterCheckList(n) : Escapes(g.in[n][i][1])
        PROVE  cached[n] = FiltersNow(n)
    <3>1. /\ n \in Nodes
          /\ \A i \in GetConstFilterCheckList(n) :
               Stable(g.in[n][i][1]) /\ g.in[n][i][1] \in Nodes
      BY <2>0, <2>1, MarkedFilters
    <3>2. cached[n] = [i \in GetConstFilterCheckList(n) |-> 0]
      BY <2>0, <2>1, <3>1 DEF Values
    <3>3. FiltersNow(n) = [i \in GetConstFilterCheckList(n) |-> 0]
      BY <2>0, <3>1 DEF Values, FiltersNow
    <3>. QED  BY <3>2, <3>3
  <2>. QED  BY <2>1 DEF FiltersStay
<1>. QED  BY <1>1, Invariant, PTL

\* In every graph, a constant that WeightPrePack has packed is read only by the node
\* that has been told its layout, and is not fetched.
THEOREM PackedIsUnderstood == Spec => []PackedUnderstood
<1>1. ASSUME IInv PROVE PackedUnderstood
  <2>1. ASSUME NEW f \in Nodes, packed[f] > 0
        PROVE  /\ f \notin g.keep
               /\ \A e \in Fanout(<<f, 1>>) : e[1] \in meta /\ e[2] = 2
    BY <1>1, <2>1 DEF IInv, PackedMarks
  <2>. QED  BY <2>1 DEF PackedUnderstood
<1>. QED  BY <1>1, Invariant, PTL

=============================================================================
