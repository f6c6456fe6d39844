--------------------------- MODULE MCOneDnnKernel ---------------------------
EXTENDS OneDnnKernel, TLC

MCSymmetry == Permutations(Threads)

MCNode(kind, cache, const, bias, biasConst, add, nchw) ==
    [kind |-> kind, enable_cache_ |-> cache, is_filter_const_ |-> const,
     bias |-> bias, is_bias_const_ |-> biasConst, add |-> add, nchw |-> nchw]

MCMatMul ==
    {MCNode("MatMul", c, f, b, FALSE, a, FALSE) :
        c \in BOOLEAN, f \in BOOLEAN, b \in {"none", "plain"}, a \in BOOLEAN}

MCBatchMatMul ==
    {MCNode("BatchMatMul", c, f, b, FALSE, FALSE, FALSE) :
        c \in BOOLEAN, f \in BOOLEAN, b \in {"none", "plain"}}

MCConv ==
    {MCNode("Conv", c, f, "plain", FALSE, a, n) :
        c \in BOOLEAN, f \in BOOLEAN, a \in BOOLEAN, n \in BOOLEAN}

MCQuantizedConv ==
    {MCNode("Conv", c, TRUE, "scaled", b, FALSE, n) :
        c \in BOOLEAN, b \in BOOLEAN, n \in BOOLEAN}

MCLayerNorm ==
    {MCNode("LayerNorm", FALSE, f, "none", FALSE, FALSE, FALSE) : f \in BOOLEAN}

MCNodes == MCMatMul \cup MCBatchMatMul \cup MCConv \cup MCQuantizedConv \cup MCLayerNorm

\* With the object cache off.
MCUncachedNodes == {n \in MCNodes : ~n.enable_cache_}

MCShape(src, weights, class, prefer) ==
    [src |-> src, weights |-> weights, class |-> class, prefer |-> prefer]

\* Two sources and two weights that fit each other, with three layouts between
\* them, one source they do not fit, and empty tensors.
MCShapes ==
    {MCShape(1, 1, "valid", "blocked_a"), MCShape(2, 1, "valid", "blocked_b"),
     MCShape(1, 2, "valid", "plain"), MCShape(3, 1, "invalid", "plain"),
     MCShape(0, 1, "no_output", "plain"), MCShape(4, 0, "no_input", "plain")}

MCValidOrEmpty == {s \in MCShapes : s.class \in {"valid", "no_output"}}
=============================================================================
