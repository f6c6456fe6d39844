--------------------------- MODULE MixedPrecision ---------------------------
(***************************************************************************)
(* AutoMixedPrecisionImpl::Optimize,                                       *)
(* itex/core/graph/auto_mixed_precision/auto_mixed_precision.cc: which     *)
(* nodes of a graph are changed from float32 to a 16-bit type (f16 below,  *)
(* float16 or bfloat16), and where casts are inserted.                     *)
(*                                                                         *)
(* As in the code, a vertex is a type attribute of a node: for most ops    *)
(* the node itself, for Cast its DstT, for a tensor list op the type of    *)
(* the list's elements.  The vertices are 1 .. n, in the order of          *)
(* graph_type_view_.  Each pass of Optimize is one action.                 *)
(***************************************************************************)
EXTENDS Integers, FiniteSets

CONSTANT Graphs   \* the graphs considered

Lists == {"allow", "deny", "infer", "clear", "none"}

\* A vertex of a tensor list op stands for its element type; "boundary" is an
\* op at which tensor lists leave the graph (IsSourceOrSinkOp).
OpKinds ==
  {"plain", "Merge", "NextIteration", "Cast", "writer", "reader", "list", "boundary"}

TensorListOps == {"writer", "reader", "list"}

\* A graph g has
\*   g.n            vertices,
\*   g.op, g.list   the op of each vertex, and the list the op is on,
\*   g.edges        from the outputs of one vertex to the inputs of another,
\*   g.handles      between the vertices through which tensor lists pass,
\*   g.process      those with ShouldProcess: on the device, not to be preserved,
\*   g.f32          those that are float32,
\*   g.supports     those with SupportsF16,
\*   g.quantized    those with IsQuantized,
\*   g.readsVar     those with NodeImplicitlyReadsNonResourceVariable.
\* An edge connects vertices of one type.  Only a NextIteration closes a loop,
\* and a Merge has one.  A Cast converts: its DstT has no inputs.  Lists of one
\* element type only are connected, and Cast, NextIteration and the tensor list
\* ops exist for every type.  The lists are the default ones: Merge,
\* NextIteration, readers and writers are clear and Cast is on none, until
\* UpdateList (auto_mixed_precision_lists.h:118-123) moves them at the user's wish.
IsGraph(g) ==
  /\ g.n \in Nat \ {0}
  /\ g.op \in [1 .. g.n -> OpKinds]
  /\ g.list \in [1 .. g.n -> Lists]
  /\ g.edges \subseteq (1 .. g.n) \X (1 .. g.n)
  /\ g.handles \subseteq (1 .. g.n) \X (1 .. g.n)
  /\ UNION {g.process, g.f32, g.supports, g.quantized, g.readsVar} \subseteq 1 .. g.n
  /\ \A e \in g.edges : e[1] \in g.f32 <=> e[2] \in g.f32
  /\ \A e, d \in g.edges :
       (e[2] = d[2] /\ g.op[e[1]] = "NextIteration" /\ g.op[d[1]] = "NextIteration")
         => e = d
  /\ \A e \in g.edges : g.op[e[2]] # "Cast"
  /\ \A v \in 1 .. g.n :
       /\ g.op[v] \in TensorListOps => v \in g.f32
       /\ g.op[v] \in TensorListOps \cup {"Cast", "NextIteration"} => v \in g.supports
       /\ g.op[v] \in {"writer", "reader", "Merge", "NextIteration"} => g.list[v] = "clear"
       /\ g.op[v] \in {"list", "Cast", "boundary"} => g.list[v] = "none"

ASSUME GraphsAssumption == \A g \in Graphs : IsGraph(g)

VARIABLES
  graph,
  pass,        \* the pass of Optimize that comes next, or "done"
  ephemeral,   \* the edges from writers to readers of one tensor list
  allow_set,
  deny_set,
  status,
  dtype,        \* the output graph: the type of each vertex
  casts        \* and its new casts, on an edge: from and to which type

vars == <<graph, pass, ephemeral, allow_set, deny_set, status, dtype, casts>>

Vertices == 1 .. graph.n
On(list) == {v \in Vertices : graph.list[v] = list}
IsOp(kind) == {v \in Vertices : graph.op[v] = kind}
TensorLists == {v \in Vertices : graph.op[v] \in TensorListOps}

-----------------------------------------------------------------------------
(* Traversals *)

Symmetric(E) == E \cup {<<e[2], e[1]>> : e \in E}
Reversed(E) == {<<e[2], e[1]>> : e \in E}

\* What DfsTypeTraversal visits from the roots, entering only the vertices
\* of `enter` besides them: no path to a new vertex has more than these.
DfsTypeTraversal(roots, E, enter) ==
  LET visited[k \in 0 .. Cardinality(enter)] ==
        IF k = 0 THEN roots
        ELSE LET before == visited[k - 1]
             IN  before \cup {v \in enter : \E u \in before : <<u, v>> \in E}
  IN  visited[Cardinality(enter)]

\* GetFanin and GetFanout of graph_type_view_, once the ephemeral edges are in.
TypeEdges == graph.edges \cup ephemeral

-----------------------------------------------------------------------------
(* Tensor lists *)

Connected(root) ==
  DfsTypeTraversal({root}, Symmetric(graph.handles), Vertices)

Cluster(root) == Connected(root) \cap TensorLists

ClusterRoots == TensorLists \cap graph.process
Clusters == {Cluster(root) : root \in ClusterRoots}

\* Mutated form: a cluster that crosses a function boundary is not unsafe.
UnsafeWithoutBoundaries ==
  {root \in ClusterRoots : ~(Cluster(root) \subseteq graph.process)}

Unsafe ==
  {root \in ClusterRoots :
     \/ ~(Cluster(root) \subseteq graph.process)
     \/ Connected(root) \cap IsOp("boundary") # {}}

\* FindTensorListImplicitFloat32Edges, for all clusters: from each writer to
\* the readers that it reaches along handles, over nodes to be processed.
ImplicitFloat32Edges ==
  {e \in IsOp("writer") \X IsOp("reader") :
     /\ e[2] \in UNION Clusters /\ e[2] \in graph.process
     /\ e[1] \in DfsTypeTraversal({e[2]}, Reversed(graph.handles), graph.process)}

Continue(p) == pass' = p /\ UNCHANGED graph

FindTensorListClusters ==
  /\ pass = "clusters"
  /\ deny_set' = deny_set \cup Unsafe
  /\ ephemeral' = ImplicitFloat32Edges
  /\ Continue("allowlist")
  /\ UNCHANGED <<allow_set, status, dtype, casts>>

\* ForceColorMatchBetweenTensorListOps for every cluster; they are disjoint.
ForceColorMatchBetweenTensorListOps ==
  LET denied == {c \in Clusters : c \cap deny_set # {}}
      allowed == {c \in Clusters \ denied : c \cap allow_set # {}}
  IN  /\ allow_set' = (allow_set \ UNION denied) \cup UNION allowed
      /\ deny_set' = deny_set \cup UNION denied

-----------------------------------------------------------------------------
(* Painting *)

\* Pass 1; without any allowlist op there is nothing to do.
AddAllowlistOps ==
  /\ pass = "allowlist"
  /\ allow_set' = On("allow") \cap graph.process
  /\ Continue(IF allow_set' = {} THEN "done" ELSE "deny")
  /\ UNCHANGED <<ephemeral, deny_set, status, dtype, casts>>

\* Mutated form: deny is not propagated through clear nodes.
UpstreamWithoutClear == On("deny") \cup On("infer")

UpstreamOfDenyOrInfer ==
  DfsTypeTraversal(On("deny") \cup On("infer"), Reversed(TypeEdges), On("clear"))

\* Pass 2: a vertex that is in deny_set already is not entered.
PropagateDenyFwdThroughClearAndInfer ==
  /\ pass = "deny"
  /\ deny_set' = deny_set \cup
       DfsTypeTraversal(On("deny") \ deny_set, TypeEdges,
                        UpstreamOfDenyOrInfer \ deny_set)
  /\ Continue("lists1")
  /\ UNCHANGED <<ephemeral, allow_set, status, dtype, casts>>

MatchListsFirst ==
  /\ pass = "lists1"
  /\ ForceColorMatchBetweenTensorListOps
  /\ Continue("between")
  /\ UNCHANGED <<ephemeral, status, dtype, casts>>

\* Mutated form: what pass 2 denied may be painted.
PaintableDespiteDeny == graph.process \cap graph.f32 \cap graph.supports

\* Vertices that may be painted allow although no list says so.
Paintable ==
  (graph.process \cap graph.f32 \cap graph.supports) \ deny_set

DownstreamOfAllow ==
  DfsTypeTraversal(On("allow") \cap graph.process, TypeEdges,
                   Paintable \cap (On("clear") \cup On("infer")))

BetweenAllow ==
  DfsTypeTraversal(On("allow") \cap graph.process, Reversed(TypeEdges),
                   DownstreamOfAllow)

\* Pass 3.
AddClearAndInferToAllowIfBetweenAllow ==
  /\ pass = "between"
  /\ allow_set' = allow_set \cup BetweenAllow
  /\ Continue("follow")
  /\ UNCHANGED <<ephemeral, deny_set, status, dtype, casts>>

\* Mutated form: the vertex before the one that was looked at is painted.
FollowAllowOffByOne ==
  LET Fanin(v) == {u \in Vertices : <<u, v>> \in TypeEdges}
      allowed[v \in 0 .. graph.n] ==
        IF v = 0 THEN allow_set
        ELSE LET before == allowed[v - 1]
                 follows == /\ v \in Paintable \cap On("infer")
                            /\ Fanin(v) \cap deny_set = {}
                            /\ Fanin(v) \cap before # {}
             IN  before \cup {u \in {v - 1} : follows}
  IN  allowed[graph.n]

\* Pass 4, vertex by vertex: it sees what it has added before.
FollowAllow ==
  LET Fanin(v) == {u \in Vertices : <<u, v>> \in TypeEdges}
      allowed[v \in 0 .. graph.n] ==
        IF v = 0 THEN allow_set
        ELSE LET before == allowed[v - 1]
                 follows == /\ v \in Paintable \cap On("infer")
                            /\ Fanin(v) \cap deny_set = {}
                            /\ Fanin(v) \cap before # {}
             IN  before \cup {u \in {v} : follows}
  IN  allowed[graph.n]

AddInferToAllowIfFollowAllow ==
  /\ pass = "follow"
  /\ allow_set' = FollowAllow
  /\ Continue("clear")
  /\ UNCHANGED <<ephemeral, deny_set, status, dtype, casts>>

\* Pass 5.
PropagateAllowThroughClear ==
  /\ pass = "clear"
  /\ allow_set' = allow_set \cup
       DfsTypeTraversal(allow_set \cap graph.process, Symmetric(TypeEdges),
                        (Paintable \cap On("clear")) \ (allow_set \cup graph.readsVar))
  /\ Continue("fp32")
  /\ UNCHANGED <<ephemeral, deny_set, status, dtype, casts>>

\* Mutated form: only quantized ops are taken back.
RemoveAllowsetWithFp32Quantized ==
  /\ pass = "fp32"
  /\ allow_set' = allow_set \ (On("allow") \cap graph.quantized)
  /\ Continue("lists2")
  /\ UNCHANGED <<ephemeral, deny_set, status, dtype, casts>>

\* Pass 6.
RemoveAllowsetWithFp32 ==
  /\ pass = "fp32"
  /\ allow_set' =
       allow_set \ (On("allow") \cap ((Vertices \ graph.supports) \cup graph.quantized))
  /\ Continue("lists2")
  /\ UNCHANGED <<ephemeral, deny_set, status, dtype, casts>>

MatchListsAgain ==
  /\ pass = "lists2"
  /\ ForceColorMatchBetweenTensorListOps
  /\ Continue("loops")
  /\ UNCHANGED <<ephemeral, status, dtype, casts>>

Fanout(v) == {u \in Vertices : <<v, u>> \in graph.edges}

\* Mutated form: a NextIteration follows its Merges, which stay as they are.
RecurrentEdgesNextIterationOnly ==
  LET matched == {v \in IsOp("NextIteration") : Fanout(v) \subseteq allow_set}
      unmatched == IsOp("NextIteration") \ matched
  IN  (allow_set \cup matched) \ unmatched

\* Each NextIteration and the Merges it feeds.
RecurrentEdges ==
  LET matched == {v \in IsOp("NextIteration") : Fanout(v) \subseteq allow_set}
      unmatched == IsOp("NextIteration") \ matched
  IN  (allow_set \cup matched) \ (unmatched \cup UNION {Fanout(v) : v \in unmatched})

\* A NextIteration that feeds another op is an error, and leaves allow_set
\* to nobody: RunAutoMixedPrecision restores the graph.
ForceColorMatchOnRecurrentEdges ==
  /\ pass = "loops"
  /\ \/ /\ \A v \in IsOp("NextIteration") : Fanout(v) \subseteq IsOp("Merge")
        /\ allow_set' = RecurrentEdges
        /\ Continue("existing casts")
        /\ UNCHANGED status
     \/ /\ \E v \in IsOp("NextIteration") : ~(Fanout(v) \subseteq IsOp("Merge"))
        /\ status' = "FailedPrecondition"
        /\ Continue("done")
        /\ UNCHANGED allow_set
  /\ UNCHANGED <<ephemeral, deny_set, dtype, casts>>

MakeCastsAllowIfAllOutputsAllow ==
  /\ pass = "existing casts"
  /\ allow_set' = allow_set \cup
       {v \in IsOp("Cast") \cap graph.f32 :
          Fanout(v) # {} /\ Fanout(v) \subseteq allow_set}
  /\ Continue("convert")
  /\ UNCHANGED <<ephemeral, deny_set, status, dtype, casts>>

-----------------------------------------------------------------------------
(* The final pass *)

\* Mutated form: casts are inserted behind f16 nodes only.
BoundaryCastsBehindAllow ==
  [e \in {d \in graph.edges : d[1] \in graph.f32 \cap allow_set /\ d[2] \notin allow_set}
     |-> [SrcT |-> "f16", DstT |-> "f32"]]

\* The casts on the edges that leave a float32 vertex: see BuildCastNode.
BoundaryCasts ==
  [e \in {d \in graph.edges :
            d[1] \in graph.f32 /\ (d[1] \in allow_set <=> d[2] \notin allow_set)}
     |-> IF e[2] \in allow_set THEN [SrcT |-> "f32", DstT |-> "f16"]
                               ELSE [SrcT |-> "f16", DstT |-> "f32"]]

\* SetDataType fails for a type that is fixed by the op, which the op then does
\* not support in f16 either; the graph is restored.
ChangeTypeAttrsAndAddCasts ==
  LET settable == allow_set \cap graph.f32 \subseteq graph.supports
  IN  /\ pass = "convert"
      /\ dtype' = [v \in Vertices |->
                    IF settable /\ v \in allow_set /\ dtype[v] = "f32" THEN "f16" ELSE dtype[v]]
      /\ casts' = IF settable THEN BoundaryCasts ELSE casts
      /\ status' = IF settable THEN "OK" ELSE "Internal"
      /\ Continue("done")
      /\ UNCHANGED <<ephemeral, allow_set, deny_set>>

-----------------------------------------------------------------------------
InitialTypes(g) == [v \in 1 .. g.n |-> IF v \in g.f32 THEN "f32" ELSE "other"]

Init ==
  /\ graph \in Graphs
  /\ pass = "clusters"
  /\ ephemeral = {} /\ allow_set = {} /\ deny_set = {}
  /\ status = "OK"
  /\ dtype = InitialTypes(graph)
  /\ casts = <<>>

Next ==
  \/ FindTensorListClusters \/ AddAllowlistOps
  \/ PropagateDenyFwdThroughClearAndInfer \/ MatchListsFirst
  \/ AddClearAndInferToAllowIfBetweenAllow \/ AddInferToAllowIfFollowAllow
  \/ PropagateAllowThroughClear \/ RemoveAllowsetWithFp32 \/ MatchListsAgain
  \/ ForceColorMatchOnRecurrentEdges \/ MakeCastsAllowIfAllOutputsAllow
  \/ ChangeTypeAttrsAndAddCasts

Spec == Init /\ [][Next]_vars

-----------------------------------------------------------------------------
(* Properties *)

Passes ==
  {"clusters", "allowlist", "deny", "lists1", "between", "follow", "clear", "fp32",
   "lists2", "loops", "existing casts", "convert", "done"}

Changed == {v \in Vertices : dtype[v] # InitialTypes(graph)[v]}

TypeOK ==
  /\ IsGraph(graph) /\ pass \in Passes
  /\ ephemeral \subseteq Vertices \X Vertices
  /\ allow_set \subseteq Vertices /\ deny_set \subseteq Vertices
  /\ status \in {"OK", "FailedPrecondition", "Internal"}
  /\ dtype \in [Vertices -> {"f32", "f16", "other"}]
  /\ DOMAIN casts \subseteq graph.edges

\* The output graph is well typed: along every edge the two types agree, or
\* there is exactly the cast between them (ChangeTypeAttrsAndAddCasts).
TypesAgree ==
  \A e \in graph.edges :
    IF e \in DOMAIN casts
    THEN casts[e].SrcT = dtype[e[1]] /\ casts[e].DstT = dtype[e[2]] /\ dtype[e[1]] # dtype[e[2]]
    ELSE dtype[e[1]] = dtype[e[2]]

\* Whatever the passes painted for whatever reason, only attributes whose op
\* has an f16 kernel are left in allow_set in the end: SetDataType never fails
\* and no node loses its kernel.  Pass 1 paints without looking; pass 6, which
\* takes that back, runs before tensor lists and loops are painted once more.
ConversionSucceeds ==
  /\ status # "Internal"
  /\ Changed \subseteq graph.supports \ (On("allow") \cap graph.quantized)

\* What lies ahead of a vertex on paths through vertices of a set.
Ahead(v, through) == DfsTypeTraversal({v}, TypeEdges, through)
Reaches(v, through) ==
  {u \in Vertices : \E w \in Ahead(v, through) : <<w, u>> \in TypeEdges}

\* The denylist ops, and what is on a forward path from one of them, through
\* vertices of a set, to a deny or infer node.
Dangerous(through) ==
  On("deny") \cup
  {v \in through \cup On("infer") :
     /\ \E d \in On("deny") : v \in Reaches(d, through)
     /\ v \in On("infer") \/ Reaches(v, through) \cap (On("deny") \cup On("infer")) # {}}

\* auto_mixed_precision.cc:1297-1299: "Adds nodes to deny_set iff they are on the
\* denylist or they are on a forward path from a denylist node to a deny/infer
\* node (including the node at the end of the path) through clear and infer
\* nodes."  No such node is changed.
DenyPathsStayFloat32 ==
  pass = "done" => Changed \cap Dangerous(On("clear") \cup On("infer")) = {}

\* Those paths, except the ones that run through a tensor list op which is in
\* deny_set before PropagateDenyFwdThroughClearAndInfer starts, because its list
\* leaves the graph or the device: deny does not spread through it (line 1336).
PropagatesDeny == (On("clear") \cup On("infer")) \ Unsafe

\* Numerically dangerous ops and what depends on them along the paths on which
\* deny spreads stay in float32, even where they lie between, or next to, ops
\* that are changed.
DangerousStaysFloat32 ==
  pass = "done" => Changed \cap Dangerous(PropagatesDeny) = {}

\* All ops on one tensor list agree on its element type in the end, including
\* those of a list that leaves the graph or is used on another device: they
\* stay in float32 (ForceColorMatchBetweenTensorListOps).
ListsOneType ==
  pass = "done" =>
    /\ \A c \in Clusters : c \subseteq Changed \/ c \cap Changed = {}
    /\ \A v \in TensorLists :
         (Connected(v) \cap IsOp("boundary") # {} \/ ~(Cluster(v) \subseteq graph.process))
           => v \notin Changed

\* The type carried around a loop is the same in every iteration: there is no
\* cast between a NextIteration and its Merges (the runtime allows none there).
LoopsWithoutCasts ==
  \A e \in DOMAIN casts : graph.op[e[1]] # "NextIteration"

\* No vertex ends up in both sets: a NextIteration that its Merges turn allow
\* is not in deny_set, nor is an existing Cast, although neither
\* ForceColorMatchOnRecurrentEdges nor MakeCastsAllowIfAllOutputsAllow looks.
ColoursDisjoint == allow_set \cap deny_set = {}

=============================================================================
