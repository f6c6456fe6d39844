---------------------------- MODULE MemoryOptPass ----------------------------
(***************************************************************************)
(* The memory optimisation pass (core/graph/memory_opt_pass) and the runs  *)
(* of the graph it leaves behind.  The pass marks the inputs whose buffer  *)
(* a kernel may overwrite with its own output, the filters that are        *)
(* constant, so that kernels cache them, and packs some constant filters   *)
(* into the layout of their only consumer.  All of these are promises      *)
(* about every later run of the graph: the second half of the module is    *)
(* the executor, which runs an op when its inputs are there, several at a  *)
(* time.                                                                   *)
(*                                                                         *)
(* A graph is a record: op and dev give the kind and the device of each    *)
(* node, in the sequence of its input tensors, ctl the control edges, keep *)
(* the nodes to preserve (feeds and fetches); aggressive is the flag       *)
(* enable_optimize_aggressive of the process that optimises it.  Nodes are *)
(* numbered in topological order, as SortTopologically leaves them; a      *)
(* tensor is <<node, output port>>; ports and positions start at 1.        *)
(***************************************************************************)
EXTENDS Integers, Sequences, FiniteSets, SequencesExt, FiniteSetsExt

CONSTANTS
  Graphs,           \* the graphs the optimizer may be given
  DeviceName,       \* the device of this optimizer
  SearchBound,      \* nodes a search for another reader looks at
  MaxPasses,        \* how often the optimizer is run on the graph
  MaxRuns           \* how often the graph is run afterwards

NodesOf(gr)  == 1 .. Len(gr.op)
MaxPorts     == 2
Ports(gr, n) == IF gr.op[n] = "split" THEN 1 .. 2 ELSE {1}
TensorsOf(gr) == {t \in NodesOf(gr) \X (1 .. MaxPorts) : t[2] \in Ports(gr, t[1])}
IsConstant(op) == op \in {"const", "iconst"}
IsAnyConst(op) == IsConstant(op) \/ op = "hostconst"

\* What GraphDef and the registered ops guarantee.  The inputs of a node are
\* outputs of nodes, and there are as many as its rules and filters need;
\* constants and arguments have none.  A view comes after what it is a view of.  A
\* oneDNN Graph op reads a tensor once.  The filter of a quantized op is constant,
\* as WeightCacheOpt says, so it is not fed.
IsGraph(gr) ==
  /\ gr.op \in Seq(STRING)
  /\ gr.in \in [NodesOf(gr) -> Seq(TensorsOf(gr))]
  /\ gr.dev \in [NodesOf(gr) -> STRING]
  /\ gr.ctl \subseteq NodesOf(gr) \X NodesOf(gr)
  /\ gr.keep \subseteq NodesOf(gr)
  /\ gr.aggressive \in BOOLEAN
  /\ \A n \in NodesOf(gr) :
       LET op == gr.op[n]  in == gr.in[n]
       IN  /\ IsAnyConst(op) \/ op = "arg" => in = << >>
           /\ op \in {"softmax", "view", "readvar", "cast", "enter", "assign"}
                => Len(in) >= 1
           /\ op = "view" => in[1][1] < n
           /\ op \in {"matmul", "matmulT", "quantized"} => Len(in) >= 2
           /\ op = "sum" => Len(in) >= 3
           /\ op = "biassum" => Len(in) >= 4
           /\ op = "gru" => Len(in) >= 6
           /\ op = "llga" => \A i, j \in DOMAIN in : in[i] = in[j] => i = j
           /\ op = "quantized" => /\ IsAnyConst(gr.op[in[2][1]])
                                  /\ in[2][1] \notin gr.keep

ASSUME GraphsAssumption ==
  /\ \A gr \in Graphs : IsGraph(gr)
  /\ SearchBound \in Nat /\ MaxPasses \in Nat \ {0} /\ MaxRuns \in Nat

VARIABLES
  g,          \* the graph
  phase,      \* "inplace" and "weights" while the pass runs, then "run"
  pass,       \* passes completed
  index,      \* node_index of the loop under way; 0 when it is over
  stack,      \* nodes InplaceInference has still to look at, next one first
  is_visited, \* nodes whose sinfo says so
  forward,    \* the inputs each node may overwrite: is_inplace, inplace_sum and
              \* candidate_inplace_input_edge
  is_filter_const, \* nodes whose attribute says so
  meta,       \* nodes whose filter is known to be packed
  packed,     \* how often the value of each constant has been packed
  runs,       \* runs of the graph begun
  status,     \* what each node is doing in this run
  took,       \* the input whose buffer each node overwrites in this run, or 0
  home,       \* the buffer each tensor is in, named by the tensor it was for
  holds,      \* the tensor whose value each buffer holds
  val,        \* the value of each node as far as filters go
  version,    \* the value of each variable, by its _Arg
  cached      \* the filters a kernel has kept from its first run

passVars == <<pass, index, stack, is_visited, forward, is_filter_const, meta,
              packed>>
runVars  == <<runs, status, took, home, holds, val, version, cached>>
vars     == <<g, phase, passVars, runVars>>

Nodes   == NodesOf(g)
Tensors == TensorsOf(g)

\* Kinds of ops.  "softmax" stands for regular_inplace_rule, "sum" and "biassum"
\* for add_inplace_rule without and with a BiasAdd before the Add, "accsum" for
\* an _ITEXFusedAccMatMulWithSum that accumulates in another type, "llga" for a
\* OneDnnGraph op with a contraction, "eltwise" for one without; "matmul" and
\* "matmulT" for _ITEXMatMul (transpose_b); "const" is a Const, "iconst" one of
\* a type that is not packed, "hostconst" a HostConst, "view" an op
\* that hands its input's buffer on (a reshape).
RegularRule == {"softmax"}
AddRule     == {"sum", "biassum", "accsum"}
LlgaRule    == {"llga", "eltwise"}

-----------------------------------------------------------------------------
(* In-place marks.                                                         *)

Fanin(n)  == {g.in[n][i][1] : i \in DOMAIN g.in[n]}
\* The readers of a tensor, as pairs of a node and the position of the input.
Fanout(t) == UNION {{n} \X {i \in DOMAIN g.in[n] : g.in[n][i] = t} : n \in Nodes}

GetCandidateForwardPort(n) ==
  CASE g.op[n] \in RegularRule -> <<1>>
    [] g.op[n] = "sum"         -> <<3>>
    [] g.op[n] = "biassum"     -> <<4>>
    [] g.op[n] \in LlgaRule    -> [i \in DOMAIN g.in[n] |-> i]
    [] OTHER                   -> << >>

\* The first output of tgt that cur reads, whichever input is asked about.
GetOutPort(cur, tgt) ==
  Min({p \in Ports(g, tgt) : \E e \in Fanout(<<tgt, p>>) : e[1] = cur})

ForwardTensor(n, port) ==
  LET tgt == g.in[n][port][1] IN <<tgt, GetOutPort(n, tgt)>>

GetStaticRefCount(n, port) == Cardinality(Fanout(ForwardTensor(n, port)))

\* A turn of the breadth-first search backwards for ref: unless it is over, the
\* first node of the queue is looked at and replaced by its inputs at the end.
Dequeue(s, ref) ==
  IF s.found \/ s.queue = << >> THEN s
  ELSE LET n == Head(s.queue)
       IN  [found |-> n = ref,
            queue |-> Tail(s.queue) \o [i \in DOMAIN g.in[n] |-> g.in[n][i][1]]]

\* Whether the search from the nodes of queue dequeues ref among the first
\* SearchBound ones.
Finds(queue, ref) ==
  LET search[k \in 0 .. SearchBound] ==
        IF k = 0 THEN [found |-> FALSE, queue |-> queue]
        ELSE Dequeue(search[k - 1], ref)
  IN  search[SearchBound].found

IsSafeForwarding_AnyOrder(n, port) ==
  LET readers == {e[1] : e \in Fanout(ForwardTensor(n, port))}
  IN  GetStaticRefCount(n, port) \in 1 .. 2 /\ \A m \in readers : n >= m

IsSafeForwarding(n, port) ==
  LET readers == {e[1] : e \in Fanout(ForwardTensor(n, port))}
      count   == GetStaticRefCount(n, port)
      ref     == CHOOSE m \in readers : m # n
      from    == IF g.op[n] \in LlgaRule
                 THEN [i \in DOMAIN g.in[n] |-> g.in[n][i][1]]
                 ELSE <<g.in[n][1][1]>>
  IN  \/ count = 1
      \/ /\ count = 2
         /\ readers # {n}
         /\ n > ref
         /\ Finds(from, ref)

CheckDependence(n, port) ==
  CASE g.op[n] \in AddRule  -> IsSafeForwarding(n, port)
    [] g.op[n] \in LlgaRule -> g.op[n] = "llga" /\ IsSafeForwarding(n, port)
    [] OTHER                -> GetStaticRefCount(n, port) = 1

\* The inputs that DetectUnvisitedNode finds to be safe to overwrite.
DetectUnvisitedNode(n) ==
  {port \in ToSet(GetCandidateForwardPort(n)) :
     LET tgt == g.in[n][port][1]
     IN  /\ tgt \notin g.keep
         /\ ~IsAnyConst(g.op[tgt])
         /\ g.dev[n] = g.dev[tgt]
         /\ CheckDependence(n, port)}

\* The marks the oneDNN Graph pass has left: inputs that no other node reads.
MarkedByOneDnnGraph(gr, n) ==
  {i \in DOMAIN gr.in[n] :
     /\ gr.op[n] = "llga"
     /\ ~IsAnyConst(gr.op[gr.in[n][i][1]])
     /\ \A m \in NodesOf(gr) \ {n} : gr.in[n][i] \notin ToSet(gr.in[m])}

\* A recursive call of InplaceInference for the node on top of the stack.
InplaceInference ==
  /\ phase = "inplace" /\ stack # << >>
  /\ LET n == Head(stack)
         skipped == n \in is_visited \/ \E e \in g.ctl : e[1] = n
     IN  /\ stack' = IF skipped THEN Tail(stack)
                     ELSE [i \in DOMAIN g.in[n] |-> g.in[n][i][1]] \o Tail(stack)
         /\ is_visited' = IF skipped THEN is_visited ELSE is_visited \cup {n}
         /\ forward' = IF skipped THEN forward
                       ELSE [forward EXCEPT ![n] = @ \cup DetectUnvisitedNode(n)]
  /\ UNCHANGED <<g, phase, pass, index, is_filter_const, meta, packed, runVars>>

\* The loop of StaticInplaceOpt, from the last node to the first.
StaticInplaceOpt ==
  /\ phase = "inplace" /\ stack = << >>
  /\ IF index > 0
     THEN /\ stack' = IF index \notin is_visited /\ g.dev[index] = DeviceName
                      THEN <<index>> ELSE << >>
          /\ index' = index - 1
          /\ phase' = phase
     ELSE stack' = stack /\ index' = Len(g.op) /\ phase' = "weights"
  /\ UNCHANGED <<g, pass, is_visited, forward, is_filter_const, meta, packed,
                 runVars>>

-----------------------------------------------------------------------------
(* Constant and packed filters.                                            *)

GetConstFilterCheckList(n) == IF g.op[n] = "gru" THEN 3 .. 6 ELSE {2}
HasFilterAttr(n)  == g.op[n] \in {"matmul", "matmulT", "gru"}
Quantized(n)      == g.op[n] = "quantized"

\* A variable that is read and, as far as this graph shows, never assigned.
IsUnchangingVariable(n) ==
  LET Of(m)  == g.in[m][1][1]
      src    == Of(n)
      arg    == IF g.op[src] = "enter" THEN Of(src) ELSE src
      users  == {e[1] : e \in Fanout(<<arg, 1>>)}
  IN  /\ g.aggressive
      /\ \/ g.op[n] = "cast" /\ g.op[Of(n)] = "readvar"
         \/ /\ g.op[n] = "readvar"
            /\ g.op[arg] = "arg"
            /\ \/ Cardinality(Fanout(<<arg, 1>>)) = 1
               \/ \A m \in users : g.op[m] \in {"enter", "readvar"}

FiltersConst_Fed(n) ==
  \A i \in GetConstFilterCheckList(n) :
     LET f == g.in[n][i][1] IN IsConstant(g.op[f]) \/ IsUnchangingVariable(f)

\* Whether the filters of n, in the order they are looked at, are all constant.
FiltersConst(n) ==
  \A i \in GetConstFilterCheckList(n) :
     LET f == g.in[n][i][1]
     IN  /\ f \notin g.keep
         /\ IsConstant(g.op[f]) \/ IsUnchangingVariable(f)

CheckConstFilter(n) ==
  IF Quantized(n) \/ ~HasFilterAttr(n) \/ n \in is_filter_const
  THEN is_filter_const
  ELSE IF FiltersConst(n) THEN is_filter_const \cup {n}
  ELSE is_filter_const

IsLegalComputeNode(n) ==
  g.dev[n] = "cpu" /\ n \in CheckConstFilter(n) /\ g.op[n] # "matmulT"

IsLegalFilterNode_Shared(f) == IsConstant(g.op[f])

IsLegalFilterNode(f) ==
  IsConstant(g.op[f]) /\ Cardinality(Fanout(<<f, 1>>)) = 1

SetDefaultMetaData_Always(n) == TRUE

\* Pre-pack has been done if the node has a meta attribute of a packed filter.
SetDefaultMetaData(n) == n \notin meta

WeightPrePack(n) ==
  LET f == g.in[n][2][1]
  IN  IF /\ g.op[n] \in {"matmul", "matmulT"}
         /\ SetDefaultMetaData(n)
         /\ IsLegalComputeNode(n)
         /\ IsLegalFilterNode(f)
         /\ g.op[f] = "const"
      THEN meta' = meta \cup {n} /\ packed' = [packed EXCEPT ![f] = @ + 1]
      ELSE UNCHANGED <<meta, packed>>

WeightCacheOpt ==
  /\ phase = "weights" /\ index > 0
  /\ is_filter_const' = CheckConstFilter(index)
  /\ WeightPrePack(index)
  /\ index' = index - 1
  /\ UNCHANGED <<g, phase, pass, stack, is_visited, forward, runVars>>

\* TensorFlow calls the optimizer again on what it returned, or runs the graph.
PassDone ==
  /\ phase = "weights" /\ index = 0
  /\ pass' = pass + 1
  /\ phase' \in IF pass + 1 < MaxPasses THEN {"inplace", "run"} ELSE {"run"}
  /\ index' = Len(g.op)
  /\ is_visited' = {}
  /\ UNCHANGED <<g, stack, forward, is_filter_const, meta, packed, runVars>>

FiltersNow(n) == [i \in GetConstFilterCheckList(n) |-> val[g.in[n][i][1]]]

-----------------------------------------------------------------------------
(* Runs of the graph.                                                      *)

\* Nodes without inputs: their output is there when the run begins.
Source(n) == g.in[n] = << >>

\* The executor begins a run.  A constant that is fed has the value of the feed;
\* the buffers of constants are the same in every run, feeds get new ones.
BeginRun ==
  /\ phase = "run" /\ runs < MaxRuns
  /\ \A n \in Nodes : runs = 0 \/ status[n] = "done"
  /\ runs' = runs + 1
  /\ status' = [n \in Nodes |-> IF Source(n) THEN "done" ELSE "idle"]
  /\ took' = [n \in Nodes |-> 0]
  /\ home' = [t \in Tensors |-> t]
  /\ holds' = [b \in Tensors |-> IF runs > 0 /\ IsAnyConst(g.op[b[1]])
                                 THEN holds[b] ELSE b]
  /\ \E fed \in [g.keep -> 0 .. 1] :
       val' = [n \in Nodes |-> IF Source(n) /\ n \in g.keep THEN fed[n] ELSE 0]
  /\ UNCHANGED <<g, phase, passVars, version, cached>>

Ready(n) ==
  /\ phase = "run" /\ runs > 0 /\ status[n] = "idle"
  /\ \A m \in Fanin(n) \cup {c[1] : c \in {e \in g.ctl : e[2] = n}} :
       status[m] = "done"

\* The _Arg of the variable that a ReadVariableOp or an assignment names.
Variable(n) == LET src == g.in[n][1][1]
               IN  IF g.op[src] = "enter" THEN g.in[src][1][1] ELSE src

\* An op that hands its input's buffer on, as ReshapeOp does.
IsView(n) == g.op[n] = "view"

\* The kernel of n begins: it decides where its outputs go and may write to them
\* from then on.  The buffer of a marked input is taken over (set_output), unless
\* the kernel has no use for it (a reordered format, another in-place pair).
Start(n) ==
  /\ Ready(n)
  /\ status' = [status EXCEPT ![n] = "running"]
  /\ \E from \in forward[n] \cup {0} :
       LET where(p) == IF p = 1 /\ from # 0 THEN home[g.in[n][from]]
                       ELSE IF IsView(n) THEN home[g.in[n][1]]
                       ELSE <<n, p>>
           Writes(p, b) == ~IsView(n) /\ where(p) = b
       IN  /\ took' = [took EXCEPT ![n] = from]
           /\ home' = [t \in Tensors |-> IF t[1] = n THEN where(t[2]) ELSE home[t]]
           /\ holds' = [b \in Tensors |->
                          IF \E p \in Ports(g, n) : Writes(p, b)
                          THEN <<n, CHOOSE p \in Ports(g, n) : Writes(p, b)>>
                          ELSE holds[b]]
  /\ val' = [val EXCEPT ![n] = CASE g.op[n] = "readvar" -> version[Variable(n)]
                                 [] g.op[n] = "cast"    -> val[g.in[n][1][1]]
                                 [] OTHER               -> 0]
  /\ version' = IF g.op[n] = "assign"
                THEN [version EXCEPT ![Variable(n)] = @ + 1] ELSE version
  /\ cached' = IF n \in is_filter_const /\ cached[n] = << >>
               THEN [cached EXCEPT ![n] = FiltersNow(n)] ELSE cached
  /\ UNCHANGED <<g, phase, passVars, runs>>

Finish(n) ==
  /\ phase = "run" /\ status[n] = "running"
  /\ status' = [status EXCEPT ![n] = "done"]
  /\ UNCHANGED <<g, phase, passVars, runs, took, home, holds, val, version,
                 cached>>

Init ==
  /\ g \in Graphs
  /\ phase = "inplace" /\ pass = 0 /\ index = Len(g.op) /\ stack = << >>
  /\ is_visited = {}
  /\ forward = [n \in Nodes |-> MarkedByOneDnnGraph(g, n)]
  /\ is_filter_const = {n \in Nodes : Quantized(n)}
  /\ meta = {} /\ packed = [n \in Nodes |-> 0]
  /\ runs = 0
  /\ status = [n \in Nodes |-> "idle"] /\ took = [n \in Nodes |-> 0]
  /\ home = [t \in Tensors |-> t] /\ holds = [t \in Tensors |-> t]
  /\ val = [n \in Nodes |-> 0] /\ version = [n \in Nodes |-> 0]
  /\ cached = [n \in Nodes |-> << >>]

Next ==
  \/ StaticInplaceOpt
  \/ InplaceInference
  \/ WeightCacheOpt
  \/ PassDone
  \/ BeginRun
  \/ \E n \in Nodes : Start(n)
  \/ \E n \in Nodes : Finish(n)

Spec == Init /\ [][Next]_vars

-----------------------------------------------------------------------------
(* Properties.                                                             *)

\* Every variable has its type; a constant is packed at most once, however often
\* the optimizer is run.
TypeOK ==
  /\ phase \in {"inplace", "weights", "run"}
  /\ pass \in 0 .. MaxPasses /\ index \in 0 .. Len(g.op)
  /\ stack \in Seq(Nodes) /\ is_visited \subseteq Nodes
  /\ \A n \in Nodes : forward[n] \subseteq DOMAIN g.in[n]
  /\ is_filter_const \subseteq Nodes /\ meta \subseteq Nodes
  /\ packed \in [Nodes -> 0 .. 1]
  /\ runs \in 0 .. MaxRuns
  /\ status \in [Nodes -> {"idle", "running", "done"}]
  /\ \A n \in Nodes : took[n] \in forward[n] \cup {0}
  /\ home \in [Tensors -> Tensors] /\ holds \in [Tensors -> Tensors]
  /\ val \in [Nodes -> Nat] /\ version \in [Nodes -> Nat]
  /\ \A n \in Nodes : DOMAIN cached[n] \in {{}, GetConstFilterCheckList(n)}

\* The tensor whose value t has: a view has the value of what it is a view of.
Origin(t) ==
  LET of[n \in Nodes] == IF IsView(n) /\ IsView(g.in[n][1][1])
                         THEN of[g.in[n][1][1]] ELSE g.in[n][1]
  IN  IF IsView(t[1]) THEN of[t[1]] ELSE t

Holds(t) == holds[home[t]] = Origin(t)

\* While an op runs, its inputs, but for the one it takes over, hold their values,
\* and so does its own output.
InputsIntact(n) ==
  /\ \A i \in DOMAIN g.in[n] : took[n] = i \/ Holds(g.in[n][i])
  /\ \A p \in Ports(g, n) : Holds(<<n, p>>)

\* Whatever order the executor picks, no kernel overwrites a buffer that another
\* one still reads or writes, will read later, or that the client fetches
\* (IsSafeForwarding, DetectUnvisitedNode).  Left out are fetched inputs of oneDNN
\* Graph ops: the pass that creates those does not look at the nodes to preserve.
BuffersIntact ==
  /\ \A n \in Nodes : status[n] = "running" => InputsIntact(n)
  /\ \A n \in g.keep : \A p \in Ports(g, n) :
       (status[n] = "done" /\ \A e \in Fanout(<<n, p>>) : g.op[e[1]] # "llga")
         => Holds(<<n, p>>)

\* The assignments a marked filter escapes in aggressive mode: a filter read
\* through a Cast, or a variable that an Enter hands to an assignment.
Escapes(f) ==
  /\ g.aggressive
  /\ \/ g.op[f] = "cast"
     \/ \E m \in Nodes : /\ g.op[m] = "assign" /\ g.op[g.in[m][1][1]] = "enter"
                         /\ g.op[f] = "readvar" /\ Variable(m) = Variable(f)

\* A kernel whose filters are marked constant finds, in every run, the filters it
\* has kept from the first one: no feed and no assignment of the graph changes
\* them.
FiltersStay ==
  \A n \in is_filter_const : status[n] = "running" =>
    \/ cached[n] = FiltersNow(n)
    \/ \E i \in GetConstFilterCheckList(n) : Escapes(g.in[n][i][1])

\* Nobody reads a packed constant as if it were plain: its only reader is the
\* node that has been told its layout, and it is not fetched.
PackedUnderstood ==
  \A f \in Nodes : packed[f] > 0 =>
    /\ f \notin g.keep
    /\ \A e \in Fanout(<<f, 1>>) : e[1] \in meta /\ e[2] = 2

=============================================================================
