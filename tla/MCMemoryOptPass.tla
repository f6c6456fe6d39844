--------------------------- MODULE MCMemoryOptPass ---------------------------
EXTENDS MemoryOptPass

\* A graph from its nodes, each <<op, inputs>>, all on one device.
Graph(nodes, ctl, keep, aggressive) ==
  [op |-> [n \in DOMAIN nodes |-> nodes[n][1]],
   in |-> [n \in DOMAIN nodes |-> nodes[n][2]],
   dev |-> [n \in DOMAIN nodes |-> "cpu"],
   ctl |-> ctl, keep |-> keep, aggressive |-> aggressive]

One(ops, m)    == {<<op, <<<<x, 1>>>>>> : op \in ops, x \in m}
Two(op, m)     == {<<op, <<<<p[1], 1>>, <<p[2], 1>>>>>> :
                     p \in {q \in m \X m : q[1] # q[2]}}
\* A fused contraction with an addend; its filter is the constant 1.
Summed(op, m)  == {<<op, <<<<x, 1>>, <<1, 1>>, <<y, 1>>>>>> : x \in m, y \in m}

\* All graphs of three ops above a constant and a feed, in which each op reads any
\* earlier tensors, with and without a fetched node, a control edge and a node on
\* the other device.
InplaceGraphs ==
  LET third  == One({"plain", "softmax"}, {1, 2}) \cup Summed("sum", {1, 2})
      fourth == One({"plain", "softmax"}, 1 .. 3) \cup Summed("sum", 2 .. 3)
                \cup Two("llga", 2 .. 3)
      fifth  == One({"plain", "softmax"}, 2 .. 4) \cup Summed("sum", 2 .. 4)
                \cup Two("llga", 2 .. 4)
  IN  {Graph(<<<<"const", << >>>>, <<"source", << >>>>, a, b, c>>, {}, k, FALSE) :
         a \in third, b \in fourth, c \in fifth, k \in {{}, {3}, {2, 4}}}

\* Particular graphs: a BiasAdd before the Add, an accumulation in another type, a
\* oneDNN Graph op without a contraction, an op with two outputs, a control edge,
\* two devices, a reader that is farther away than the search looks, and ops that
\* hand on a buffer that no op works on in place.
OtherGraphs ==
  LET c == <<"const", << >>>>   s == <<"source", << >>>>
      P(n) == <<"plain", <<<<n, 1>>>>>>
      S(x, y) == <<"sum", <<<<x, 1>>, <<1, 1>>, <<y, 1>>>>>>
      V(n, p) == <<"view", <<<<n, p>>>>>>
      mixed == Graph(<<c, s, P(2), P(3), S(4, 3), <<"softmax", <<<<5, 1>>>>>>>>,
                     {}, {}, FALSE)
  IN  { mixed,
        [mixed EXCEPT !.ctl = {<<5, 6>>}],
        [mixed EXCEPT !.ctl = {<<3, 6>>}],
        [mixed EXCEPT !.dev[5] = "gpu"],
        [mixed EXCEPT !.dev[6] = "gpu"],
        Graph(<<c, s, P(2), <<"biassum", <<<<3, 1>>, <<1, 1>>, <<1, 1>>, <<2, 1>>>>>>,
                <<"accsum", <<<<4, 1>>, <<1, 1>>, <<3, 1>>>>>>>>, {}, {}, FALSE),
        Graph(<<c, s, P(2), <<"eltwise", <<<<2, 1>>, <<3, 1>>>>>>, P(4)>>,
              {}, {4}, FALSE),
        Graph(<<c, s, <<"split", <<<<2, 1>>>>>>, <<"plain", <<<<3, 1>>>>>>,
                <<"sum", <<<<4, 1>>, <<1, 1>>, <<3, 2>>>>>>,
                <<"softmax", <<<<3, 2>>>>>>>>, {}, {}, FALSE),
        Graph(<<c, s, P(2), P(3), P(4), P(5), S(6, 2)>>, {}, {}, FALSE),
        Graph(<<c, s, V(1, 1), V(2, 1), V(4, 1), P(5),
                <<"sum", <<<<5, 1>>, <<3, 1>>, <<6, 1>>>>>>>>, {}, {5}, FALSE),
        Graph(<<c, s, <<"split", <<<<2, 1>>>>>>, V(3, 2), P(4),
                <<"softmax", <<<<5, 1>>>>>>, <<"softmax", <<<<3, 1>>>>>>>>,
              {}, {4}, FALSE) }

\* Two ops with filters over two candidates for a filter, which may be shared, read
\* as data, fed, or neither constant nor variable.
FilterGraphs ==
  LET mm == {<<op, <<<<x, 1>>, <<f, 1>>>>>> : op \in {"matmul", "matmulT"},
                                             x \in {1, 2}, f \in {2, 3}}
      gru == {<<"gru", <<<<1, 1>>, <<1, 1>>, <<2, 1>>, <<3, 1>>, <<f, 1>>, <<3, 1>>>>>> :
                f \in {2, 3}}
      q == {<<"quantized", <<<<1, 1>>, <<3, 1>>>>>>}
  IN  {Graph(<<<<"source", << >>>>, <<w, << >>>>, <<"const", << >>>>, a, b>>,
             {}, k, FALSE) :
         w \in {"const", "iconst", "hostconst", "source"}, a \in mm, b \in mm \cup gru \cup q,
         k \in {{}, {2}}}

\* Filters that are variables: read, cast, read in a loop, assigned, in both modes.
VariableGraphs ==
  LET x == <<"source", << >>>>  arg == <<"arg", << >>>>
      R(n) == <<"readvar", <<<<n, 1>>>>>>  E(n) == <<"enter", <<<<n, 1>>>>>>
      A(n) == <<"assign", <<<<n, 1>>, <<1, 1>>>>>>
      M(f) == <<"matmul", <<<<1, 1>>, <<f, 1>>>>>>
      G(f, h) == <<"gru", <<<<1, 1>>, <<1, 1>>, <<f, 1>>, <<h, 1>>, <<f, 1>>, <<f, 1>>>>>>
      C(n) == <<"cast", <<<<n, 1>>>>>>
  IN  {Graph(ns, {}, {}, ag) : ag \in BOOLEAN, ns \in
        { <<x, arg, R(2), M(3)>>,
          <<x, arg, R(2), M(3), A(2)>>,
          <<x, arg, R(2), C(3), M(4), A(2)>>,
          <<x, arg, R(2), E(2), R(4), G(3, 5)>>,
          <<x, arg, R(2), E(2), R(4), M(5), A(2)>>,
          <<x, arg, E(2), R(3), M(4), A(3)>>,
          <<x, arg, R(2), arg, R(4), G(3, 5), A(4)>> }}

MCGraphs == UNION {InplaceGraphs, OtherGraphs, FilterGraphs, VariableGraphs}

\* An op that hands its input's buffer on, before one that works in place.
ViewGraphs ==
  { Graph(<<<<"const", << >>>>, <<"source", << >>>>, <<"plain", <<<<2, 1>>>>>>,
            <<"view", <<<<3, 1>>>>>>, <<"softmax", <<<<4, 1>>>>>>,
            <<"plain", <<<<3, 1>>>>>>>>, {}, {}, FALSE) }
=============================================================================
