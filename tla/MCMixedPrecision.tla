-------------------------- MODULE MCMixedPrecision --------------------------
(***************************************************************************)
(* Families of small graphs for checking MixedPrecision.                   *)
(***************************************************************************)
EXTENDS MixedPrecision

Plain(n, list, edges) ==
  [n |-> n, op |-> [v \in 1 .. n |-> "plain"], list |-> list, edges |-> edges,
   handles |-> {}, process |-> 1 .. n, f32 |-> 1 .. n, supports |-> 1 .. n,
   quantized |-> {}, readsVar |-> {}]

Painted == {"allow", "deny", "infer", "clear"}
Ascending(n) == {e \in (1 .. n) \X (1 .. n) : e[1] < e[2]}
Descending(n) == {e \in (1 .. n) \X (1 .. n) : e[1] > e[2]}
WithAllow(n) == {l \in [1 .. n -> Painted] : \E v \in 1 .. n : l[v] = "allow"}

\* Every graph of four ops that have no loops, with at least one on the
\* allowlist and all of them connected to something.
Acyclic ==
  {Plain(4, l, E) :
     l \in WithAllow(4),
     E \in {D \in SUBSET Ascending(4) : \A v \in 1 .. 4 : \E e \in D : v \in {e[1], e[2]}}}

\* Three ops, one of which the pass may not, or cannot, change; the index of a
\* vertex need not follow the edges, and need not have an allowlist op.
OneOdd ==
  UNION {{[Plain(3, l, E) EXCEPT !.process = @ \ {v}],
          [Plain(3, l, E) EXCEPT !.supports = @ \ {v}],
          [Plain(3, l, E) EXCEPT !.supports = @ \ {v}, !.quantized = {v}],
          [Plain(3, l, E) EXCEPT !.quantized = {v}],
          [Plain(3, l, E) EXCEPT !.readsVar = {v}]} :
     v \in 1 .. 3, l \in [1 .. 3 -> Painted \cup {"none"}],
     E \in {{<<1, 2>>, <<2, 3>>}, {<<3, 2>>, <<2, 1>>}, {<<1, 2>>, <<1, 3>>}, {<<3, 1>>, <<2, 1>>}}}

\* A type that is not float32 beside those that are.
NotFloat32 ==
  {[Plain(3, l, E) EXCEPT !.f32 = {1, 2}] :
     l \in WithAllow(3), E \in {{}, {<<1, 2>>}}}

\* A loop, 1 -> Merge 2 -> 3 -> NextIteration 4 -> 2, perhaps with a second
\* Merge 5 that the same NextIteration feeds, and with an op 6 behind a Merge.
Loops ==
  {[Plain(6, <<l[1], "clear", l[2], "clear", "clear", l[3]>>,
          {<<1, 2>>, <<2, 3>>, <<3, 4>>, <<4, 2>>} \cup E)
      EXCEPT !.op[2] = "Merge", !.op[4] = "NextIteration", !.op[5] = second,
             !.process = @ \ skipped] :
     l \in [1 .. 3 -> Painted], second \in {"Merge", "plain"},
     E \in {{<<2, 6>>}, {<<4, 5>>, <<5, 6>>}, {<<4, 5>>, <<1, 5>>, <<2, 6>>}},
     skipped \in {{}, {2}, {4}, {5}}}

\* A value 1 is written to a list by 2 and read by 3 for 4; 5 creates the list,
\* and 6 may be where the list leaves the graph.
TensorListGraphs ==
  {[Plain(6, <<l[1], "clear", "clear", l[2], "none", "none">>,
          {<<1, 2>>, <<3, 4>>} \cup E)
      EXCEPT !.op[2] = "writer", !.op[3] = "reader", !.op[5] = "list", !.op[6] = "boundary",
             !.handles = {<<5, 2>>} \cup H, !.f32 = 1 .. 5,
             !.process = @ \ skipped] :
     l \in [1 .. 2 -> Painted], E \in {{}, {<<1, 4>>}},
     H \in {{<<2, 3>>}, {<<2, 3>>, <<2, 6>>}, {<<6, 3>>}, {}},
     skipped \in {{}, {2}, {3}, {5}, {6}, {2, 3, 5}}}

\* A value 1 passes through a list, written by 2 and read by 3, to 4, which lies
\* between 5 and 6; the list may leave the graph at 7.
BehindLists ==
  {[Plain(7, <<l[1], "clear", "clear", l[2], l[3], l[4], "none">>,
          {<<1, 2>>, <<3, 4>>, <<5, 4>>, <<4, 6>>})
      EXCEPT !.op[2] = "writer", !.op[3] = "reader", !.op[7] = "boundary",
             !.handles = {<<2, 3>>} \cup H, !.f32 = 1 .. 6] :
     l \in [1 .. 4 -> Painted], H \in {{}, {<<2, 7>>}}}

\* A Cast to float32 that feeds one or two ops.
Casts ==
  {[Plain(3, <<"none", l[1], l[2]>>, E)
      EXCEPT !.op[1] = "Cast", !.process = @ \ skipped] :
     l \in [1 .. 2 -> Painted], E \in {{}, {<<1, 2>>}, {<<1, 2>>, <<1, 3>>}, {<<1, 2>>, <<2, 3>>}},
     skipped \in {{}, {1}, {2}}}

MCGraphs ==
  UNION {Acyclic, OneOdd, NotFloat32, Loops, TensorListGraphs, BehindLists, Casts}

=============================================================================
