------------------------- MODULE OneDnnKernelProofs -------------------------
(***************************************************************************)
(* The invariants of OneDnnKernel, for every number of threads, shapes and *)
(* executions and for every node.                                          *)
(*                                                                         *)
(* IInv says what a thread may rely on at each place of Compute: what the  *)
(* kernel keeps while its arguments are complete (MadeFor), what Init has  *)
(* prepared so far (InInit, WeightsReady), that an execution that is about *)
(* to run its primitive has its own data in all of it (Ready), and that    *)
(* one that runs it after a failure has at least its own buffers (OwnMem). *)
(***************************************************************************)
EXTENDS OneDnnKernel, TLAPS

Layouts == {"none", "plain", "blocked_a", "blocked_b"}
Buffers == {"none", "input", "cache", "tmp"} \X Nat

KernelType ==
    [is_init_: BOOLEAN, is_input_zero_: BOOLEAN, is_filter_zero_: BOOLEAN,
     is_format_reordered_: BOOLEAN, is_weight_reorder_: BOOLEAN,
     input_dims_: Nat, weights_dims_: Nat, dims_set: BOOLEAN,
     args: BOOLEAN, primitive: Nat \X Nat \X Layouts,
     src_mem_: Nat, dst_mem_: Nat, bias_mem_: Buffers,
     weights_mem_: Buffers, tmp_weight_: Layouts \X Nat,
     fuse_add: BOOLEAN \X Nat \X Nat]

CallType ==
    [id: Nat, shape: Shapes, forwards: BOOLEAN, ok: BOOLEAN, weights: Buffers,
     addend: Int]

CacheType == [by: Nat, layout: Layouts \cup {"scaled"}, value: Nat]

\* The variables have their types; mu_compute_ is held by whoever is in Compute.
Types ==
    /\ node \in Nodes
    /\ kernel \in KernelType
    /\ weightCache \in CacheType /\ biasCache \in CacheType
    /\ mu_compute_ \in Threads \cup {"free"}
    /\ calls \in 0..MaxCalls
    /\ pc \in [Threads -> Places]
    /\ call \in [Threads -> CallType]
    /\ outcome = [t \in Threads |-> outcome[t]]
    /\ weightCache.by \in 0..calls /\ biasCache.by \in 0..calls
    /\ \A t \in Threads : call[t].id \in 0..calls /\ (pc[t] # "idle" => call[t].id # 0)
    /\ \A t \in Threads : Locked => (mu_compute_ = t <=> pc[t] # "idle")

\* What is in the caches: weights in a layout of oneDNN's, or in none if the cache
\* is filled in half, constant if the kernel keeps them; a constant is value 0.
CachesFilled ==
    /\ ~IsEmpty(weightCache) =>
        /\ weightCache.layout \in {"none", "blocked_a", "blocked_b"}
        /\ ~Locked => weightCache.layout \in {"none", "blocked_a"}
        /\ Locked => node.is_filter_const_
        /\ node.is_filter_const_ => weightCache.value = 0
    /\ IsEmpty(weightCache) => weightCache.layout = "none"
    /\ node.is_bias_const_ => biasCache.value = 0

\* A buffer of the cache is the one that is in it.
InCache(buffer) ==
    buffer[1] = "cache" => buffer[2] = weightCache.by /\ ~IsEmpty(weightCache)

\* The objects of kernel k were made for shape s, and can be used again for it.
MadeFor(k, s) ==
    /\ k.dims_set /\ k.input_dims_ = s.src /\ k.weights_dims_ = s.weights
    /\ k.primitive = <<s.src, s.weights, Prefers(s)>>
    /\ k.is_weight_reorder_ = (Prefers(s) # "plain")
    /\ Prefers(s) # "plain" =>
        \/ /\ k.weights_mem_ = Tmp /\ k.tmp_weight_[1] = Prefers(s)
           /\ node.is_filter_const_ => k.tmp_weight_[2] = 0
        \/ /\ k.weights_mem_[1] = "cache" /\ ~IsEmpty(weightCache)
           /\ weightCache.layout = Prefers(s)

KeptUsable == Locked /\ kernel.args => \E s \in Shapes : MadeFor(kernel, s)

BiasReady(t) ==
    /\ node.bias = "plain" => kernel.bias_mem_ = Input(call[t].id)
    /\ node.bias = "scaled" => kernel.bias_mem_[1] = "cache"

\* Init of a kernel that keeps its objects, up to the weights.
InInit(t) ==
    /\ ~kernel.args /\ kernel.dims_set
    /\ kernel.input_dims_ = Shape(t).src /\ kernel.weights_dims_ = Shape(t).weights
    /\ kernel.is_weight_reorder_ = (Prefers(Shape(t)) # "plain")
    /\ BiasReady(t)
    /\ node.add => call[t].addend = call[t].id

\* The weights Init has decided for.
WeightsReady(t) ==
    \/ Prefers(Shape(t)) = "plain" /\ call[t].weights = Input(call[t].id)
    \/ /\ Locked /\ Prefers(Shape(t)) # "plain" /\ call[t].weights = Tmp
       /\ kernel.tmp_weight_ = <<Prefers(Shape(t)), WeightOf(call[t].id)>>
    \/ /\ Prefers(Shape(t)) # "plain" /\ call[t].weights[1] = "cache"
       /\ ~IsEmpty(weightCache) /\ weightCache.layout = Prefers(Shape(t))

\* Everything the primitive is executed with belongs to this execution.
Ready(t) ==
    /\ kernel.primitive = <<Shape(t).src, Shape(t).weights, Prefers(Shape(t))>>
    /\ kernel.src_mem_ = call[t].id /\ kernel.dst_mem_ = call[t].id
    /\ Contents(kernel, kernel.weights_mem_)
         = <<Prefers(Shape(t)), WeightOf(call[t].id)>>
    /\ BiasReady(t)
    /\ node.add /\ ~node.enable_cache_ => call[t].addend = call[t].id

\* The buffers the primitive is executed with, and the ones it was executed with.
OwnMem(t) ==
    /\ kernel.src_mem_ = call[t].id
    /\ kernel.dst_mem_ = call[t].id \/ (KeepsObjects(Shape(t)) /\ ~call[t].ok)

OwnMemUsed(t) ==
    /\ outcome[t].src = call[t].id
    /\ outcome[t].dst = call[t].id \/ (KeepsObjects(Shape(t)) /\ ~call[t].ok)

\* What the outcome of an execution says.
OwnData(t) ==
    LET s == Shape(t)  n == call[t].id  o == outcome[t]
    IN  /\ o.primitive = <<s.src, s.weights, Prefers(s)>>
        /\ o.src = n /\ o.dst = n
        /\ o.weights[1] = Prefers(s)
        /\ Locked \/ node.is_filter_const_ => o.weights[2] = WeightOf(n)
        /\ node.bias = "plain" => o.bias = BiasOf(n)
        /\ node.bias = "scaled" /\ node.is_bias_const_ /\ biasCache.layout = "scaled"
             => o.bias = BiasOf(n)
        /\ node.add /\ ~node.enable_cache_ => o.addend = n

Preparing == {"weights", "set_cache", "get_cache", "reorder", "finish"}

Place(t) ==
    /\ pc[t] \notin {"execute", "done", "ended"} => outcome[t] = NoOutcome
    /\ pc[t] \in Preparing /\ Locked => InInit(t)
    /\ pc[t] \in {"set_cache", "get_cache"} => UsesCache(t)
    /\ pc[t] = "get_cache" => ~IsEmpty(weightCache)
    /\ pc[t] = "reorder" => Locked /\ Prefers(Shape(t)) # "plain"
    /\ pc[t] = "finish" => WeightsReady(t)
    /\ pc[t] = "execute" /\ Locked /\ kernel.args /\ ~kernel.is_input_zero_ =>
        OwnMem(t) /\ (call[t].ok => Ready(t))
    /\ pc[t] = "execute" /\ ~Locked /\ call[t].ok /\ Shape(t).class = "valid"
         => WeightsReady(t)
    /\ outcome[t].output = "computed" => OwnMemUsed(t) /\ (call[t].ok => OwnData(t))

CachedReferences ==
    /\ \A t \in Threads : InCache(call[t].weights)
    /\ InCache(kernel.weights_mem_)

IInv ==
    /\ Types
    /\ CachesFilled
    /\ CachedReferences
    /\ KeptUsable
    /\ ~Locked => ~kernel.is_input_zero_ /\ ~kernel.is_filter_zero_
    /\ \A t \in Threads : Place(t)

-----------------------------------------------------------------------------
(* What the operators return.                                              *)

\* The values and buffers the model names are values and buffers.
LEMMA ValuesType ==
  ASSUME NEW n \in Nat
  PROVE  /\ WeightOf(n) \in Nat /\ BiasOf(n) \in Nat
         /\ Input(n) \in Buffers /\ Cached(n) \in Buffers
         /\ NoBuffer \in Buffers /\ Tmp \in Buffers
BY DEF WeightOf, BiasOf, Input, Cached, NoBuffer, Tmp, Buffers

\* oneDNN prefers one of the three layouts, for all shapes.
LEMMA PrefersType ==
  ASSUME node \in Nodes, NEW s \in Shapes
  PROVE  Prefers(s) \in {"plain", "blocked_a", "blocked_b"}
BY ConstantsAssumption DEF Prefers, NodeType, ShapeType, Kinds

\* The dimensions of a call determine the rest of its shape.
LEMMA SameShape ==
  ASSUME NEW s \in Shapes, NEW u \in Shapes, s.src = u.src, s.weights = u.weights
  PROVE  s = u
BY ConstantsAssumption

\* An execution that begins has its own number and no weights yet.
LEMMA NewCallType ==
  ASSUME NEW n \in Nat, NEW s \in Shapes, NEW forwards \in BOOLEAN
  PROVE  LET c == NewCall(n, s, forwards)
         IN  c \in CallType /\ c.id = n /\ c.weights = NoBuffer
<1>1. NoBuffer \in Buffers
  BY DEF NoBuffer, Buffers
<1> QED BY <1>1 DEF CallType, NewCall

\* A thread that executes nothing has call number 0 and no weights.
LEMMA NoCallType == NoCall \in CallType /\ NoCall.id = 0 /\ NoCall.weights = NoBuffer
<1>1. (CHOOSE s \in Shapes : TRUE) \in Shapes
  BY ConstantsAssumption
<1> QED BY <1>1, NewCallType DEF NoCall

\* What the two updates of a call change.
LEMMA RefusedCall ==
  ASSUME call \in [Threads -> CallType], NEW t \in Threads, Refused(t)
  PROVE  /\ call' \in [Threads -> CallType]
         /\ call'[t] = [call[t] EXCEPT !.ok = FALSE]
         /\ ~call'[t].ok
         /\ \A u \in Threads \ {t} : call'[u] = call[u]
         /\ \A u \in Threads : /\ call'[u].id = call[u].id
                               /\ call'[u].shape = call[u].shape
                               /\ call'[u].weights = call[u].weights
<1>1. call' = [call EXCEPT ![t] = [call[t] EXCEPT !.ok = FALSE]]
  BY DEF Refused
<1>2. call[t] \in CallType
  OBVIOUS
<1>3. [call[t] EXCEPT !.ok = FALSE] \in CallType
  BY <1>2 DEF CallType
<1>4. call'[t] = [call[t] EXCEPT !.ok = FALSE] /\ \A u \in Threads \ {t} : call'[u] = call[u]
  BY <1>1
<1>5. /\ ~call'[t].ok /\ call'[t].id = call[t].id /\ call'[t].shape = call[t].shape
      /\ call'[t].weights = call[t].weights
  BY <1>2, <1>4 DEF CallType
<1> QED BY <1>1, <1>3, <1>4, <1>5

\* Taking the weights from b changes nothing but this thread's weights.
LEMMA WeightsFromCall ==
  ASSUME call \in [Threads -> CallType], NEW t \in Threads, NEW b \in Buffers,
         WeightsFrom(t, b)
  PROVE  /\ call' \in [Threads -> CallType]
         /\ call'[t] = [call[t] EXCEPT !.weights = call'[t].weights]
         /\ call'[t].weights = b
         /\ \A u \in Threads \ {t} : call'[u] = call[u]
<1>1. call' = [call EXCEPT ![t] = [call[t] EXCEPT !.weights = b]]
  BY DEF WeightsFrom
<1>2. call[t] \in CallType
  OBVIOUS
<1>3. [call[t] EXCEPT !.weights = b] \in CallType /\ [call[t] EXCEPT !.weights = b].weights = b
  BY <1>2 DEF CallType
<1> QED BY <1>1, <1>3

\* A kernel that has just been constructed satisfies the invariant.
LEMMA InitIInv == Init => IInv
<1> SUFFICES ASSUME Init PROVE IInv  OBVIOUS
<1>1. Types
  <2>1. kernel \in KernelType
    BY DEF Init, NewKernel, KernelType, NoBuffer, Buffers, Layouts
  <2>2. weightCache \in CacheType /\ biasCache \in CacheType
    BY DEF Init, EmptyCache, CacheType, Layouts
  <2>3. call \in [Threads -> CallType] /\ \A t \in Threads : call[t].id = 0
    BY NoCallType DEF Init
  <2> QED BY <2>1, <2>2, <2>3, ConstantsAssumption
          DEF Types, Init, Places, EmptyCache
<1>2. CachesFilled
  BY DEF CachesFilled, Init, EmptyCache, IsEmpty
<1>3. CachedReferences
  BY NoCallType DEF CachedReferences, InCache, Init, NewKernel, NoBuffer
<1>4. KeptUsable /\ ~kernel.is_input_zero_ /\ ~kernel.is_filter_zero_
  BY DEF KeptUsable, Init, NewKernel
<1>5. ASSUME NEW t \in Threads PROVE Place(t)
  BY DEF Place, Init, NoOutcome, Preparing
<1> QED BY <1>1, <1>2, <1>3, <1>4, <1>5 DEF IInv

-----------------------------------------------------------------------------
(* Threads that take no step.                                              *)

\* A kernel that takes mu_compute_ has one thread in Compute.
LEMMA Alone ==
  ASSUME IInv, Locked, NEW t \in Threads, pc[t] # "idle", NEW u \in Threads \ {t}
  PROVE  pc[u] = "idle"
BY DEF IInv, Types

\* A step leaves the other threads alone.
Elsewhere(t) ==
    /\ node' = node
    /\ \A u \in Threads \ {t} :
        pc'[u] = pc[u] /\ call'[u] = call[u] /\ outcome'[u] = outcome[u]
    /\ ~Locked => /\ kernel' = kernel /\ biasCache' = biasCache
                  /\ IsEmpty(weightCache) \/ weightCache' = weightCache

\* A step of t that stays outside u's place leaves u where it was. Under
\* mu_compute_ at most one thread is inside Compute.
LEMMA OthersStay ==
  ASSUME IInv, NEW t \in Threads, pc[t] # "idle" \/ (Locked => mu_compute_ = "free"),
         Elsewhere(t), NEW u \in Threads \ {t}
  PROVE  Place(u)'
<1>1. Place(u) /\ node' = node /\ pc'[u] = pc[u] /\ call'[u] = call[u]
      /\ outcome'[u] = outcome[u] /\ Locked' = Locked
  BY DEF IInv, Elsewhere, Locked
<1>2. CASE Locked
  <2>1. pc[u] = "idle"
    BY <1>2, Alone, ConstantsAssumption DEF IInv, Types
  <2> QED BY <1>1, <2>1 DEF Place, NoOutcome, Preparing
<1>3. CASE ~Locked
  <2>1. kernel' = kernel /\ biasCache' = biasCache
        /\ (IsEmpty(weightCache) \/ weightCache' = weightCache)
    BY <1>3 DEF Elsewhere
  <2>2. Prefers(Shape(u))' = Prefers(Shape(u)) /\ WeightOf(call[u].id)' = WeightOf(call[u].id)
        /\ Shape(u)' = Shape(u) /\ UsesCache(u)' = UsesCache(u)
        /\ KeepsObjects(Shape(u))' = KeepsObjects(Shape(u))
    BY <1>1, <2>1 DEF Prefers, WeightOf, Shape, UsesCache, KeepsObjects, InputsSame
  <2>3. OwnData(u)' = OwnData(u) /\ OwnMemUsed(u)' = OwnMemUsed(u)
    BY <1>1, <2>1, <2>2 DEF OwnData, OwnMemUsed, Prefers, WeightOf, Shape, BiasOf, Locked
  <2>4. pc[u] = "get_cache" => ~IsEmpty(weightCache) /\ weightCache' = weightCache
    BY <1>1, <2>1 DEF Place
  <2>5. WeightsReady(u) => WeightsReady(u)'
    BY <1>1, <1>3, <2>1, <2>2 DEF WeightsReady, Input, IsEmpty
  <2> QED BY <1>1, <1>3, <2>1, <2>2, <2>3, <2>4, <2>5 DEF Place
<1> QED BY <1>2, <1>3

-----------------------------------------------------------------------------
(* Steps that leave the kernel and the caches alone.                       *)

\* A step that leaves the kernel and its caches alone leaves what the
\* invariant says of them.
LEMMA StateStays ==
  ASSUME IInv, UNCHANGED <<node, kernel, weightCache, biasCache>>
  PROVE  /\ CachesFilled' /\ KeptUsable' /\ InCache(kernel.weights_mem_)'
         /\ (~Locked => ~kernel.is_input_zero_ /\ ~kernel.is_filter_zero_)'
         /\ Locked' = Locked
         /\ \A s : Prefers(s)' = Prefers(s)
         /\ \A n : WeightOf(n)' = WeightOf(n)
BY DEF IInv, CachesFilled, KeptUsable, CachedReferences, InCache, MadeFor, Locked,
       Prefers, IsEmpty, Tmp, WeightOf

\* The process ends, and nothing else happens.
Ends(t) ==
    /\ pc[t] # "idle" /\ Goto(t, "ended")
    /\ UNCHANGED <<node, kernel, weightCache, biasCache, mu_compute_, calls, call, outcome>>

\* The end of the process keeps the invariant.
LEMMA EndsStep ==
  ASSUME IInv, NEW t \in Threads, Ends(t)
  PROVE  IInv'
<1> USE DEF Goto
<1>1. /\ CachesFilled' /\ KeptUsable' /\ InCache(kernel.weights_mem_)'
      /\ (~Locked => ~kernel.is_input_zero_ /\ ~kernel.is_filter_zero_)'
      /\ Locked' = Locked
  BY StateStays DEF Ends
<1>2. /\ pc \in [Threads -> Places] /\ pc[t] # "idle" /\ Place(t) /\ pc'[t] = "ended"
      /\ UNCHANGED <<node, kernel, weightCache, biasCache, mu_compute_, calls, call, outcome>>
  BY DEF IInv, Types, Ends
<1>3. Types'
  BY <1>1, <1>2 DEF IInv, Types, Ends, Places
<1>4. CachedReferences'
  BY <1>1, <1>2 DEF IInv, CachedReferences, InCache, IsEmpty
<1>5. Place(t)'
  <2>1. OwnData(t)' = OwnData(t) /\ OwnMemUsed(t)' = OwnMemUsed(t)
    BY <1>1, <1>2 DEF OwnData, OwnMemUsed, Prefers, WeightOf, BiasOf, Shape, KeepsObjects,
                      InputsSame
  <2> QED BY <1>2, <2>1 DEF Place, Preparing
<1>6. ASSUME NEW u \in Threads \ {t} PROVE Place(u)'
  <2>1. Elsewhere(t)
    BY <1>2 DEF Elsewhere, Ends
  <2> QED BY <2>1, <1>2, OthersStay
<1> QED BY <1>1, <1>3, <1>4, <1>5, <1>6 DEF IInv

\* Compute keeps the invariant.
LEMMA ComputeStep ==
  ASSUME IInv, NEW t \in Threads, NEW s \in Shapes, NEW forwards \in BOOLEAN,
         Compute(t, s, forwards)
  PROVE  IInv'
<1> USE DEF Goto
<1>1. /\ CachesFilled' /\ KeptUsable' /\ InCache(kernel.weights_mem_)'
      /\ (~Locked => ~kernel.is_input_zero_ /\ ~kernel.is_filter_zero_)'
      /\ Locked' = Locked
  BY StateStays DEF Compute
<1>2. /\ call \in [Threads -> CallType] /\ pc \in [Threads -> Places]
      /\ calls \in Nat /\ calls' = calls + 1 /\ calls' \in 0..MaxCalls
  BY ConstantsAssumption DEF IInv, Types, Compute
<1>3. /\ call' \in [Threads -> CallType]
      /\ call'[t].id = calls + 1 /\ call'[t].weights = NoBuffer
  <2>1. calls + 1 \in Nat
    BY <1>2
  <2> QED BY <1>2, <2>1, NewCallType DEF Compute
<1>4. Types'
  <2>1. \A u \in Threads : Locked' => (mu_compute_' = u <=> pc'[u] # "idle")
    BY <1>1, <1>2, ConstantsAssumption DEF IInv, Types, Compute
  <2>2. \A u \in Threads : call'[u].id \in 0..calls' /\ (pc'[u] # "idle" => call'[u].id # 0)
    BY <1>2, <1>3 DEF IInv, Types, Compute
  <2>3. weightCache'.by \in 0..calls' /\ biasCache'.by \in 0..calls'
    BY <1>2 DEF IInv, Types, Compute
  <2> QED BY <1>2, <1>3, <2>1, <2>2, <2>3 DEF IInv, Types, Compute, Places
<1>5. CachedReferences'
  BY <1>1, <1>2, <1>3 DEF IInv, CachedReferences, InCache, NoBuffer, Compute, IsEmpty
<1>6. Place(t)'
  BY <1>2 DEF IInv, Place, Compute, NoOutcome, Preparing
<1>7. ASSUME NEW u \in Threads \ {t} PROVE Place(u)'
  <2>1. Elsewhere(t)
    BY <1>2 DEF Elsewhere, Compute
  <2> QED BY <2>1, OthersStay DEF Compute
<1> QED BY <1>1, <1>4, <1>5, <1>6, <1>7 DEF IInv

\* LayerNormStart keeps the invariant.
LEMMA LayerNormStartStep ==
  ASSUME IInv, NEW t \in Threads, LayerNormStart(t)
  PROVE  IInv'
<1> USE DEF Goto
<1>1. /\ CachesFilled' /\ KeptUsable' /\ InCache(kernel.weights_mem_)'
      /\ (~Locked => ~kernel.is_input_zero_ /\ ~kernel.is_filter_zero_)'
      /\ Locked' = Locked /\ ~Locked
  BY StateStays DEF LayerNormStart
<1>2. call \in [Threads -> CallType] /\ pc \in [Threads -> Places]
  BY DEF IInv, Types
<1>3. /\ call' \in [Threads -> CallType]
      /\ \A u \in Threads : call'[u].id = call[u].id /\ call'[u].weights = call[u].weights
      /\ call'[t].ok => call' = call
  <2>1. CASE UNCHANGED call
    BY <1>2, <2>1
  <2>2. CASE Refused(t)
    BY <1>2, <2>2, RefusedCall
  <2> QED BY <2>1, <2>2 DEF LayerNormStart
<1>4. Types'
  BY <1>1, <1>2, <1>3 DEF IInv, Types, LayerNormStart, Places
<1>5. CachedReferences'
  BY <1>1, <1>3 DEF IInv, CachedReferences, InCache, LayerNormStart, IsEmpty
<1>6. Place(t)'
  <2>1. outcome'[t] = NoOutcome /\ pc'[t] \in {"execute", "weights"}
        /\ (call'[t].ok /\ pc'[t] = "execute" => Shape(t)'.class # "valid")
    BY <1>2, <1>3 DEF IInv, Place, LayerNormStart, Shape, Refused, CallType
  <2> QED BY <1>1, <2>1 DEF Place, NoOutcome, Preparing
<1>7. ASSUME NEW u \in Threads \ {t} PROVE Place(u)'
  <2>1. Elsewhere(t)
    BY <1>2 DEF Elsewhere, LayerNormStart, Refused
  <2> QED BY <2>1, OthersStay DEF LayerNormStart
<1> QED BY <1>1, <1>4, <1>5, <1>6, <1>7 DEF IInv

\* CheckWeightCache keeps the invariant.
LEMMA CheckWeightCacheStep ==
  ASSUME IInv, NEW t \in Threads, CheckWeightCache(t)
  PROVE  IInv'
<1> USE DEF Goto
<1>1. /\ CachesFilled' /\ KeptUsable' /\ InCache(kernel.weights_mem_)'
      /\ (~Locked => ~kernel.is_input_zero_ /\ ~kernel.is_filter_zero_)'
      /\ Locked' = Locked /\ \A s : Prefers(s)' = Prefers(s)
  BY StateStays DEF CheckWeightCache
<1>2. call \in [Threads -> CallType] /\ pc \in [Threads -> Places] /\ pc[t] = "weights"
      /\ call[t].id \in Nat
  BY DEF IInv, Types, CheckWeightCache, CallType
<1>3. /\ call' \in [Threads -> CallType]
      /\ call'[t] = [call[t] EXCEPT !.weights = call'[t].weights]
      /\ \A u \in Threads \ {t} : call'[u] = call[u]
      /\ call'[t].weights \in {call[t].weights, Input(call[t].id)}
  <2>1. CASE UNCHANGED call
    BY <1>2, <2>1 DEF CallType
  <2>2. CASE WeightsFrom(t, Input(call[t].id))
    BY <1>2, <2>2, WeightsFromCall, ValuesType
  <2> QED BY <2>1, <2>2 DEF CheckWeightCache
<1>4. call'[t].id = call[t].id /\ call'[t].shape = call[t].shape
      /\ call'[t].ok = call[t].ok /\ call'[t].addend = call[t].addend
  BY <1>2, <1>3 DEF CallType
<1>5. Types'
  BY <1>1, <1>2, <1>3, <1>4 DEF IInv, Types, CheckWeightCache, Places
<1>6. CachedReferences'
  BY <1>1, <1>3 DEF IInv, CachedReferences, InCache, CheckWeightCache, IsEmpty, Input
<1>7. Place(t)'
  <2>1. /\ outcome'[t] = NoOutcome
        /\ pc'[t] \in {"set_cache", "get_cache", "reorder", "finish"}
    BY <1>2 DEF IInv, Place, CheckWeightCache
  <2>2. Locked => InInit(t)'
    BY <1>2, <1>4 DEF IInv, Place, InInit, BiasReady, CheckWeightCache, Preparing, Shape,
       Prefers, Input
  <2>3. pc'[t] \in {"set_cache", "get_cache"} => UsesCache(t)'
    BY <1>2, <1>4 DEF CheckWeightCache, UsesCache, Shape, Prefers
  <2>4. pc'[t] = "get_cache" => ~IsEmpty(weightCache)'
    BY <1>2 DEF CheckWeightCache, IsEmpty
  <2>5. pc'[t] = "reorder" => Locked' /\ Prefers(Shape(t))' # "plain"
    BY <1>2, <1>4 DEF CheckWeightCache, UsesCache, Locked, Shape, Prefers
  <2>6. pc'[t] = "finish" => WeightsReady(t)'
    <3>1. ASSUME pc'[t] = "finish"
          PROVE  Prefers(Shape(t)) = "plain" /\ WeightsFrom(t, Input(call[t].id))
      BY <1>2, <3>1 DEF CheckWeightCache
    <3>2. ASSUME pc'[t] = "finish" PROVE call'[t].weights = Input(call[t].id)
      BY <1>2, <3>1, <3>2, WeightsFromCall, ValuesType
    <3> QED BY <1>1, <1>4, <3>1, <3>2 DEF WeightsReady, Shape, Input
  <2> QED BY <1>1, <2>1, <2>2, <2>3, <2>4, <2>5, <2>6 DEF Place, NoOutcome
<1>8. ASSUME NEW u \in Threads \ {t} PROVE Place(u)'
  <2>1. Elsewhere(t)
    BY <1>2, <1>3 DEF Elsewhere, CheckWeightCache
  <2> QED BY <2>1, <1>2, OthersStay
<1> QED BY <1>1, <1>5, <1>6, <1>7, <1>8 DEF IInv

\* UseCache keeps the invariant.
LEMMA UseCacheStep ==
  ASSUME IInv, NEW t \in Threads, UseCache(t)
  PROVE  IInv'
<1> USE DEF Goto
<1>ends. CASE Ends(t)
  BY <1>ends, EndsStep
<1> SUFFICES ASSUME ~Ends(t) PROVE IInv'
  BY <1>ends
<1>goes. /\ weightCache.layout # "none" /\ WeightsFrom(t, GetCache(t))
         /\ Goto(t, CASE GetCache(t) # NoBuffer -> "finish"
                      [] GetCache(t) = NoBuffer -> IF Locked THEN "reorder" ELSE "ended")
  BY DEF UseCache, Ends
<1>1. /\ CachesFilled' /\ KeptUsable' /\ InCache(kernel.weights_mem_)'
      /\ (~Locked => ~kernel.is_input_zero_ /\ ~kernel.is_filter_zero_)'
      /\ Locked' = Locked /\ (\A s : Prefers(s)' = Prefers(s))
      /\ \A n : WeightOf(n)' = WeightOf(n)
  BY StateStays DEF UseCache
<1>2. call \in [Threads -> CallType] /\ pc \in [Threads -> Places] /\ pc[t] = "get_cache"
      /\ ~IsEmpty(weightCache) /\ UsesCache(t) /\ weightCache.by \in Nat
  BY DEF IInv, Types, UseCache, Place, CacheType
<1>3. /\ call' \in [Threads -> CallType]
      /\ call'[t] = [call[t] EXCEPT !.weights = call'[t].weights]
      /\ \A u \in Threads \ {t} : call'[u] = call[u]
      /\ call'[t].weights = GetCache(t)
  <2>1. GetCache(t) \in Buffers
    BY <1>2, ValuesType DEF GetCache
  <2> QED BY <1>2, <1>goes, <2>1, WeightsFromCall
<1>4. call'[t].id = call[t].id /\ call'[t].shape = call[t].shape
      /\ call'[t].ok = call[t].ok /\ call'[t].addend = call[t].addend
  BY <1>2, <1>3 DEF CallType
<1>5. Types'
  BY <1>1, <1>2, <1>3, <1>4, <1>goes DEF IInv, Types, UseCache, Places
<1>6. CachedReferences'
  BY <1>1, <1>2, <1>3
     DEF IInv, CachedReferences, InCache, UseCache, IsEmpty, GetCache, Cached, NoBuffer
<1>7. Place(t)'
  <2>3. Prefers(Shape(t)) # "plain"
    BY <1>2 DEF UsesCache
  <2>4. GetCache(t) = NoBuffer => Locked
    <3>1. ~Locked => weightCache.layout = Prefers(Shape(t))
      BY <1>2, <1>goes DEF IInv, CachesFilled, Prefers, Locked
    <3> QED BY <3>1 DEF GetCache, Cached, NoBuffer
  <2>1. /\ outcome'[t] = NoOutcome
        /\ pc'[t] = IF GetCache(t) = NoBuffer THEN "reorder" ELSE "finish"
    BY <1>2, <1>goes, <2>4 DEF IInv, Place, UseCache
  <2>2. Locked => InInit(t)'
    BY <1>2, <1>4 DEF IInv, Place, InInit, BiasReady, UseCache, Preparing, Shape,
       Prefers, Input
  <2>5. pc'[t] = "reorder" => Locked' /\ Prefers(Shape(t))' # "plain"
    BY <1>1, <1>2, <1>4, <2>1, <2>3, <2>4 DEF Shape
  <2>6. pc'[t] = "finish" => WeightsReady(t)'
    <3>1. pc'[t] = "finish" => /\ weightCache.layout = Prefers(Shape(t))
                               /\ call'[t].weights[1] = "cache"
      BY <1>2, <1>3, <2>1 DEF GetCache, Cached
    <3>2. weightCache' = weightCache /\ Shape(t)' = Shape(t)
      BY <1>4 DEF UseCache, Shape
    <3> QED BY <1>1, <1>2, <2>3, <3>1, <3>2 DEF WeightsReady, IsEmpty
  <2> QED BY <1>1, <2>1, <2>2, <2>5, <2>6 DEF Place, NoOutcome
<1>8. ASSUME NEW u \in Threads \ {t} PROVE Place(u)'
  <2>1. Elsewhere(t)
    BY <1>2, <1>3, <1>goes DEF Elsewhere, UseCache
  <2> QED BY <2>1, <1>2, OthersStay
<1> QED BY <1>1, <1>5, <1>6, <1>7, <1>8 DEF IInv

\* InitFails keeps the invariant.
LEMMA InitFailsStep ==
  ASSUME IInv, NEW t \in Threads, InitFails(t)
  PROVE  IInv'
<1> USE DEF Goto
<1>1. /\ CachesFilled' /\ KeptUsable' /\ InCache(kernel.weights_mem_)'
      /\ (~Locked => ~kernel.is_input_zero_ /\ ~kernel.is_filter_zero_)'
      /\ Locked' = Locked
  BY StateStays DEF InitFails
<1>2. /\ call \in [Threads -> CallType] /\ pc \in [Threads -> Places]
      /\ pc[t] \in {"weights", "reorder", "finish"}
  BY DEF IInv, Types, InitFails
<1>3. /\ call' \in [Threads -> CallType] /\ ~call'[t].ok
      /\ \A u \in Threads \ {t} : call'[u] = call[u]
      /\ \A u \in Threads : call'[u].id = call[u].id /\ call'[u].weights = call[u].weights
  BY <1>2, RefusedCall DEF InitFails
<1>4. Types'
  BY <1>1, <1>2, <1>3 DEF IInv, Types, InitFails, Places
<1>5. CachedReferences'
  BY <1>1, <1>3 DEF IInv, CachedReferences, InCache, InitFails, IsEmpty
<1>6. Place(t)'
  <2>1. outcome'[t] = NoOutcome /\ pc'[t] = "execute" /\ (Locked => ~kernel'.args)
    BY <1>2 DEF IInv, Place, InitFails, Preparing, InInit
  <2> QED BY <1>1, <1>3, <2>1 DEF Place, NoOutcome, Preparing
<1>7. ASSUME NEW u \in Threads \ {t} PROVE Place(u)'
  <2>1. Elsewhere(t)
    BY <1>2, <1>3 DEF Elsewhere, InitFails
  <2> QED BY <2>1, <1>2, OthersStay
<1> QED BY <1>1, <1>4, <1>5, <1>6, <1>7 DEF IInv

\* Return keeps the invariant.
LEMMA ReturnStep ==
  ASSUME IInv, NEW t \in Threads, Return(t)
  PROVE  IInv'
<1> USE DEF Goto
<1>1. /\ CachesFilled' /\ KeptUsable' /\ InCache(kernel.weights_mem_)'
      /\ (~Locked => ~kernel.is_input_zero_ /\ ~kernel.is_filter_zero_)'
      /\ Locked' = Locked
  BY StateStays DEF Return
<1>2. /\ call \in [Threads -> CallType] /\ pc \in [Threads -> Places] /\ pc[t] = "done"
  BY DEF IInv, Types, Return
<1>3. /\ call' \in [Threads -> CallType]
      /\ \A u \in Threads \ {t} : call'[u] = call[u]
      /\ call'[t].id = 0 /\ call'[t].weights = NoBuffer
  BY <1>2, NoCallType DEF Return
<1>4. Types'
  <2>1. \A u \in Threads : Locked' => (mu_compute_' = u <=> pc'[u] # "idle")
    BY <1>1, <1>2, ConstantsAssumption DEF IInv, Types, Return
  <2>2. /\ calls' = calls /\ calls \in Nat
        /\ \A u \in Threads : call'[u].id \in 0..calls' /\ (pc'[u] # "idle" => call'[u].id # 0)
    BY <1>2, <1>3 DEF IInv, Types, Return
  <2>3. pc' \in [Threads -> Places] /\ outcome' = [u \in Threads |-> outcome'[u]]
    BY <1>2 DEF IInv, Types, Return, Places
  <2> QED BY <1>3, <2>1, <2>2, <2>3 DEF IInv, Types, Return
<1>5. CachedReferences'
  BY <1>1, <1>3 DEF IInv, CachedReferences, InCache, Return, IsEmpty, NoBuffer
<1>6. Place(t)'
  <2>1. outcome'[t] = NoOutcome /\ pc'[t] = "idle"
    BY <1>2 DEF IInv, Types, Return
  <2> QED BY <2>1 DEF Place, NoOutcome, Preparing
<1>7. ASSUME NEW u \in Threads \ {t} PROVE Place(u)'
  <2>1. Elsewhere(t)
    BY <1>2, <1>3 DEF Elsewhere, Return, IInv, Types
  <2> QED BY <2>1, <1>2, OthersStay
<1> QED BY <1>1, <1>4, <1>5, <1>6, <1>7 DEF IInv

\* What the primitive reads is what Ready says.
LEMMA ExecutedOwnData ==
  ASSUME IInv, NEW t \in Threads, Ready(t), outcome'[t] = Executed(t, kernel),
         UNCHANGED <<node, call, biasCache>>
  PROVE  OwnData(t)'
<1>1. /\ outcome'[t].primitive = kernel.primitive /\ biasCache' = biasCache
      /\ outcome'[t].src = kernel.src_mem_ /\ outcome'[t].dst = kernel.dst_mem_
      /\ outcome'[t].weights = Contents(kernel, kernel.weights_mem_)
      /\ outcome'[t].bias = BiasIn(kernel.bias_mem_)
      /\ outcome'[t].addend = call[t].addend
  BY DEF Executed
<1>2. node.bias = "plain" => BiasIn(kernel.bias_mem_) = BiasOf(call[t].id)
  BY DEF BiasIn, BiasOf, Ready, BiasReady, Input
<1>3. node.bias = "scaled" /\ node.is_bias_const_ /\ biasCache.layout = "scaled"
        => BiasIn(kernel.bias_mem_) = BiasOf(call[t].id)
  BY DEF BiasIn, BiasOf, Ready, BiasReady, IInv, CachesFilled
<1>4. Prefers(Shape(t))' = Prefers(Shape(t)) /\ WeightOf(call[t].id)' = WeightOf(call[t].id)
      /\ BiasOf(call[t].id)' = BiasOf(call[t].id) /\ Shape(t)' = Shape(t)
  BY DEF Prefers, WeightOf, BiasOf, Shape
<1> QED BY <1>1, <1>2, <1>3, <1>4 DEF OwnData, Ready

\* The layer norm makes all its objects anew, and so uses its own data.
LEMMA LayerNormOwnData ==
  ASSUME IInv, NEW t \in Threads, ~Locked, WeightsReady(t),
         outcome'[t] = LayerNormExecuted(t), UNCHANGED <<node, call>>
  PROVE  OwnData(t)'
<1>1. node.bias = "none" /\ ~node.add /\ node.kind = "LayerNorm"
  BY ConstantsAssumption DEF IInv, Types, Locked, NodeType
<1>2. Prefers(Shape(t)) = "blocked_a"
  BY <1>1 DEF Prefers
<1>3. call[t].weights[1] = "cache" /\ ~IsEmpty(weightCache)
      /\ weightCache.layout = Prefers(Shape(t)) /\ call[t].weights[2] = weightCache.by
  BY <1>2 DEF WeightsReady, IInv, CachedReferences, InCache
<1>4. Contents(kernel, call[t].weights) = <<Prefers(Shape(t)), weightCache.value>>
  BY <1>3 DEF Contents
<1>5. node.is_filter_const_ => weightCache.value = WeightOf(call[t].id)
  BY <1>3 DEF IInv, CachesFilled, WeightOf
<1>6. Prefers(Shape(t))' = Prefers(Shape(t)) /\ WeightOf(call[t].id)' = WeightOf(call[t].id)
      /\ Shape(t)' = Shape(t) /\ Locked' = Locked
  BY DEF Prefers, WeightOf, Shape, Locked
<1> QED BY <1>1, <1>4, <1>5, <1>6 DEF OwnData, LayerNormExecuted

\* Execute keeps the invariant.
LEMMA ExecuteStep ==
  ASSUME IInv, NEW t \in Threads, Execute(t)
  PROVE  IInv'
<1> USE DEF Goto
<1>ends. CASE Ends(t)
  BY <1>ends, EndsStep
<1> SUFFICES ASSUME ~Ends(t) PROVE IInv'
  BY <1>ends
<1>1. /\ CachesFilled' /\ KeptUsable' /\ InCache(kernel.weights_mem_)'
      /\ (~Locked => ~kernel.is_input_zero_ /\ ~kernel.is_filter_zero_)'
      /\ Locked' = Locked
  BY StateStays DEF Execute
<1>2. call \in [Threads -> CallType] /\ pc \in [Threads -> Places] /\ pc[t] = "execute"
      /\ UNCHANGED <<node, kernel, weightCache, biasCache, mu_compute_, calls, call>>
      /\ outcome = [u \in Threads |-> outcome[u]]
  BY DEF IInv, Types, Execute
<1>goes. /\ Locked /\ ~Skips => kernel.args
         /\ Goto(t, "done")
         /\ outcome' = [outcome EXCEPT ![t] =
                  CASE Locked /\ ~Skips -> Executed(t, kernel)
                    [] ~Locked /\ call[t].ok /\ Shape(t).class = "valid" -> LayerNormExecuted(t)
                    [] OTHER -> outcome[t]]
  BY <1>2 DEF Execute, Ends
<1>3. pc'[t] = "done" /\ Place(t) /\ Shape(t)' = Shape(t)
      /\ KeepsObjects(Shape(t))' = KeepsObjects(Shape(t))
  BY <1>2, <1>goes DEF IInv, Shape, KeepsObjects, InputsSame
<1>4. outcome'[t] = CASE Locked /\ ~Skips -> Executed(t, kernel)
              [] ~Locked /\ call[t].ok /\ Shape(t).class = "valid" -> LayerNormExecuted(t)
              [] OTHER -> outcome[t]
  BY <1>2, <1>goes
<1>5. Types'
  BY <1>1, <1>2, <1>goes DEF IInv, Types, Places
<1>6. CachedReferences'
  BY <1>1, <1>2 DEF IInv, CachedReferences, InCache, IsEmpty
<1>7. Place(t)'
  <2>1. CASE Locked /\ ~Skips
    <3>1. outcome'[t] = Executed(t, kernel)
      BY <1>4, <2>1
    <3>2. OwnMem(t) /\ (call[t].ok => Ready(t))
      BY <1>2, <1>3, <1>goes, <2>1 DEF Place, Skips
    <3>3. call'[t].ok => OwnData(t)'
      BY <1>2, <3>1, <3>2, ExecutedOwnData
    <3>4. OwnMemUsed(t)'
      BY <1>2, <1>3, <3>1, <3>2 DEF OwnMem, OwnMemUsed, Executed
    <3> QED BY <1>3, <3>3, <3>4 DEF Place, Preparing
  <2>2. CASE ~Locked /\ call[t].ok /\ Shape(t).class = "valid"
    <3>1. outcome'[t] = LayerNormExecuted(t)
      BY <1>4, <2>2
    <3>2. WeightsReady(t)
      BY <1>2, <1>3, <2>2 DEF Place
    <3>3. OwnData(t)' /\ OwnMemUsed(t)'
      BY <1>2, <2>2, <3>1, <3>2, LayerNormOwnData DEF LayerNormExecuted, OwnMemUsed
    <3> QED BY <1>3, <3>3 DEF Place, Preparing
  <2>3. CASE ~(Locked /\ ~Skips) /\ ~(~Locked /\ call[t].ok /\ Shape(t).class = "valid")
    <3>1. outcome'[t] = outcome[t]
      BY <1>4, <2>3
    <3>2. OwnData(t)' = OwnData(t) /\ OwnMemUsed(t)' = OwnMemUsed(t)
      BY <1>1, <1>2, <1>3, <3>1 DEF OwnData, OwnMemUsed, Prefers, WeightOf, BiasOf, Shape
    <3> QED BY <1>2, <1>3, <3>1, <3>2 DEF Place, Preparing
  <2> QED BY <2>1, <2>2, <2>3
<1>8. ASSUME NEW u \in Threads \ {t} PROVE Place(u)'
  <2>1. Elsewhere(t)
    BY <1>2, <1>goes DEF Elsewhere
  <2> QED BY <2>1, <1>2, OthersStay
<1> QED BY <1>1, <1>5, <1>6, <1>7, <1>8 DEF IInv

-----------------------------------------------------------------------------
(* Steps that fill the cache or change the kernel.                         *)

\* SetCache keeps the invariant.
LEMMA SetCacheStep ==
  ASSUME IInv, NEW t \in Threads, SetCache(t)
  PROVE  IInv'
<1> USE DEF Goto
<1>ends. CASE Ends(t)
  BY <1>ends, EndsStep
<1> SUFFICES ASSUME ~Ends(t) PROVE IInv'
  BY <1>ends
<1>1. /\ call \in [Threads -> CallType] /\ pc \in [Threads -> Places] /\ pc[t] = "set_cache"
      /\ UNCHANGED <<node, kernel, biasCache, mu_compute_, calls, outcome>>
      /\ Locked' = Locked /\ (\A s : Prefers(s)' = Prefers(s))
      /\ \A n : WeightOf(n)' = WeightOf(n)
  BY DEF IInv, Types, SetCache, Locked, Prefers, WeightOf
<1>2. UsesCache(t) /\ call[t].id \in 1..calls /\ Shape(t) \in Shapes /\ Place(t)
  BY <1>1 DEF IInv, Types, Place, Shape, CallType
<1>3. Prefers(Shape(t)) \in {"blocked_a", "blocked_b"}
  BY <1>2, PrefersType DEF UsesCache, IInv, Types
<1>goes. \/ weightCache' = FilledBy(t) /\ Goto(t, "get_cache") /\ UNCHANGED call
         \/ /\ IsEmpty(weightCache) /\ weightCache' \in {weightCache, HalfFilled(call[t].id)}
            /\ Refused(t) /\ Goto(t, "execute")
  BY <1>1 DEF SetCache, Ends
<1>left. /\ call' \in [Threads -> CallType]
         /\ \A u \in Threads \ {t} : call'[u] = call[u]
         /\ \A u \in Threads : call'[u].id = call[u].id /\ call'[u].weights = call[u].weights
         /\ pc'[t] = "get_cache" => call' = call /\ ~IsEmpty(weightCache)'
         /\ pc'[t] = "execute" => ~call'[t].ok
         /\ pc'[t] \in {"get_cache", "execute"} /\ pc' \in [Threads -> Places]
         /\ \A u \in Threads \ {t} : pc'[u] = pc[u]
  <2>1. CASE weightCache' = FilledBy(t) /\ Goto(t, "get_cache") /\ UNCHANGED call
    BY <1>1, <1>2, <2>1 DEF Places, FilledBy, IsEmpty
  <2>2. CASE Refused(t) /\ Goto(t, "execute")
    BY <1>1, <2>2, RefusedCall DEF Places
  <2> QED BY <1>goes, <2>1, <2>2
<1>4. /\ ~IsEmpty(weightCache) => weightCache' = weightCache
      /\ \/ weightCache' = weightCache
         \/ weightCache' = HalfFilled(call[t].id)
         \/ weightCache' = [by |-> call[t].id, layout |-> Prefers(Shape(t)),
                            value |-> WeightOf(call[t].id)]
  BY <1>goes DEF FilledBy
<1>5. Locked => node.is_filter_const_
  <2>1. node.kind \in Kinds
    BY ConstantsAssumption DEF IInv, Types, NodeType
  <2> QED BY <1>2, <2>1 DEF UsesCache, Prefers, Locked, Kinds
<1>6. CachesFilled'
  <2>1. CASE weightCache' = HalfFilled(call[t].id)
               \/ weightCache' = [by |-> call[t].id, layout |-> Prefers(Shape(t)),
                                  value |-> WeightOf(call[t].id)]
    <3>1. ~Locked => Prefers(Shape(t)) = "blocked_a"
      BY DEF Prefers, Locked
    <3>2. node.is_filter_const_ => WeightOf(call[t].id) = 0
      BY DEF WeightOf
    <3>3. node.is_bias_const_ => biasCache.value = 0
      BY DEF IInv, CachesFilled
    <3>4. /\ weightCache'.layout \in {"none", Prefers(Shape(t))} /\ ~IsEmpty(weightCache)'
          /\ weightCache'.value \in {0, WeightOf(call[t].id)}
      BY <1>2, <2>1 DEF HalfFilled, IsEmpty
    <3> QED BY <1>1, <1>3, <1>5, <3>1, <3>2, <3>3, <3>4 DEF CachesFilled, IsEmpty
  <2>2. CASE weightCache' = weightCache
    BY <1>1, <2>2 DEF IInv, CachesFilled, IsEmpty
  <2> QED BY <1>4, <2>1, <2>2
<1>7. Types'
  <2>1. weightCache' \in CacheType /\ weightCache'.by \in 0..calls
    <3>1. call[t].id \in Nat /\ WeightOf(call[t].id) \in Nat /\ call[t].id \in 0..calls
      BY <1>2, ValuesType DEF IInv, Types
    <3>2. HalfFilled(call[t].id) \in CacheType /\ HalfFilled(call[t].id).by = call[t].id
      BY <3>1 DEF HalfFilled, CacheType, Layouts
    <3>3. weightCache \in CacheType /\ weightCache.by \in 0..calls
      BY DEF IInv, Types
    <3>4. [by |-> call[t].id, layout |-> Prefers(Shape(t)), value |-> WeightOf(call[t].id)]
            \in CacheType
      BY <1>3, <3>1 DEF CacheType, Layouts
    <3> QED BY <1>4, <3>1, <3>2, <3>3, <3>4
  <2> QED BY <1>1, <1>left, <2>1 DEF IInv, Types
<1>8. CachedReferences'
  BY <1>1, <1>4, <1>left DEF IInv, CachedReferences, InCache, IsEmpty
<1>9. KeptUsable' /\ (~Locked => ~kernel.is_input_zero_ /\ ~kernel.is_filter_zero_)'
  <2>1. Locked => ~kernel.args
    BY <1>1, <1>2 DEF Place, InInit, Preparing
  <2> QED BY <1>1, <2>1 DEF KeptUsable, IInv
<1>10. Place(t)'
  <2>1. outcome'[t] = NoOutcome
    BY <1>1, <1>2 DEF Place
  <2>2. CASE pc'[t] = "get_cache"
    <3>1. Locked => InInit(t)'
      BY <1>1, <1>2, <1>left, <2>2 DEF Place, InInit, BiasReady, Preparing, Shape, Prefers, Input
    <3>2. UsesCache(t)'
      BY <1>1, <1>2, <1>left, <2>2 DEF UsesCache, Shape
    <3> QED BY <1>1, <1>left, <2>1, <2>2, <3>1, <3>2 DEF Place, NoOutcome
  <2>3. CASE pc'[t] = "execute"
    <3>1. Locked => ~kernel'.args
      BY <1>1, <1>2 DEF Place, InInit, Preparing
    <3> QED BY <1>1, <1>left, <2>1, <2>3, <3>1 DEF Place, NoOutcome, Preparing
  <2> QED BY <1>left, <2>2, <2>3
<1>11. ASSUME NEW u \in Threads \ {t} PROVE Place(u)'
  <2>1. Elsewhere(t)
    BY <1>1, <1>4, <1>left DEF Elsewhere
  <2> QED BY <2>1, <1>1, OthersStay
<1> QED BY <1>6, <1>7, <1>8, <1>9, <1>10, <1>11 DEF IInv

\* ReorderWeights keeps the invariant.
LEMMA ReorderWeightsStep ==
  ASSUME IInv, NEW t \in Threads, ReorderWeights(t)
  PROVE  IInv'
<1> USE DEF Goto
<1>1. /\ call \in [Threads -> CallType] /\ pc \in [Threads -> Places] /\ pc[t] = "reorder"
      /\ UNCHANGED <<node, weightCache, biasCache, mu_compute_, calls, outcome>>
      /\ kernel \in KernelType
      /\ Locked' = Locked /\ (\A s : Prefers(s)' = Prefers(s))
      /\ \A n : WeightOf(n)' = WeightOf(n)
  BY DEF IInv, Types, ReorderWeights, Locked, Prefers, WeightOf
<1>2. /\ Locked /\ Prefers(Shape(t)) # "plain" /\ call[t].id \in Nat /\ Shape(t) \in Shapes
      /\ InInit(t) /\ outcome[t] = NoOutcome
  BY <1>1 DEF IInv, Types, Place, Shape, CallType, Preparing
<1> DEFINE w == <<Prefers(Shape(t)), WeightOf(call[t].id)>>
<1>3. w \in Layouts \X Nat
  BY <1>2, PrefersType, ValuesType DEF Layouts, IInv, Types
<1> HIDE DEF w
<1>4. kernel' = [kernel EXCEPT !.tmp_weight_ = w]
  BY DEF ReorderWeights, w
<1>5. kernel' \in KernelType /\ kernel'.tmp_weight_ = w /\ ~kernel'.args
      /\ kernel'.weights_mem_ = kernel.weights_mem_
  BY <1>1, <1>2, <1>3, <1>4 DEF KernelType, InInit
<1>6. /\ call' \in [Threads -> CallType]
      /\ call'[t] = [call[t] EXCEPT !.weights = call'[t].weights]
      /\ \A u \in Threads \ {t} : call'[u] = call[u]
      /\ call'[t].weights = Tmp
  BY <1>1, WeightsFromCall, ValuesType DEF ReorderWeights
<1>7. call'[t].id = call[t].id /\ call'[t].shape = call[t].shape
      /\ call'[t].ok = call[t].ok /\ call'[t].addend = call[t].addend
  BY <1>1, <1>6 DEF CallType
<1>8. Types'
  BY <1>1, <1>5, <1>6, <1>7 DEF IInv, Types, ReorderWeights, Places
<1>9. CachesFilled' /\ CachedReferences' /\ KeptUsable'
      /\ (~Locked => ~kernel.is_input_zero_ /\ ~kernel.is_filter_zero_)'
  BY <1>1, <1>2, <1>5, <1>6
     DEF IInv, CachesFilled, CachedReferences, KeptUsable, InCache, IsEmpty, Tmp
<1>10. Place(t)'
  <2>1. pc'[t] = "finish" /\ outcome'[t] = NoOutcome
    BY <1>1, <1>2 DEF ReorderWeights
  <2>2. InInit(t)'
    BY <1>1, <1>2, <1>4, <1>7 DEF KernelType, InInit, BiasReady, Shape, Input
  <2>3. WeightsReady(t)'
    BY <1>1, <1>2, <1>5, <1>6, <1>7 DEF WeightsReady, Shape, w, Tmp
  <2> QED BY <1>1, <2>1, <2>2, <2>3 DEF Place, NoOutcome
<1>11. ASSUME NEW u \in Threads \ {t} PROVE Place(u)'
  <2>1. Elsewhere(t)
    BY <1>1, <1>2, <1>6 DEF Elsewhere, ReorderWeights
  <2> QED BY <2>1, <1>1, OthersStay
<1> QED BY <1>8, <1>9, <1>10, <1>11 DEF IInv

\* With the weights decided, the objects of Init hold this execution's data.
LEMMA ObjectsReady ==
  ASSUME IInv, NEW t \in Threads, Locked, pc[t] = "finish",
         UNCHANGED <<node, weightCache, biasCache, call>>, kernel' = WithObjects(t)
  PROVE  /\ kernel' \in KernelType /\ kernel'.args /\ Ready(t)' /\ KeptUsable'
         /\ kernel'.weights_mem_ = call[t].weights
         /\ kernel'.is_input_zero_ = kernel.is_input_zero_
         /\ kernel'.is_filter_zero_ = kernel.is_filter_zero_
         /\ kernel'.is_format_reordered_ = kernel.is_format_reordered_
<1>1. /\ kernel \in KernelType /\ Shape(t) \in Shapes /\ call[t].id \in Nat /\ node \in Nodes
      /\ Locked' = Locked /\ (\A s : Prefers(s)' = Prefers(s))
      /\ (\A n : WeightOf(n)' = WeightOf(n))
      /\ call[t].weights \in Buffers
  BY DEF IInv, Types, Shape, CallType, Locked, Prefers, WeightOf
<1>2. /\ InInit(t) /\ WeightsReady(t) /\ InCache(call[t].weights)
  BY DEF IInv, Place, Preparing, CachedReferences
<1>3. <<Shape(t).src, Shape(t).weights, Prefers(Shape(t))>> \in Nat \X Nat \X Layouts
  BY <1>1, PrefersType, ConstantsAssumption DEF Layouts, ShapeType
<1> DEFINE p == <<Shape(t).src, Shape(t).weights, Prefers(Shape(t))>>
<1> HIDE DEF p
<1>4. kernel' = [kernel EXCEPT !.primitive = p, !.src_mem_ = call[t].id,
                               !.dst_mem_ = call[t].id, !.weights_mem_ = call[t].weights,
                               !.args = TRUE, !.is_init_ = TRUE]
  BY DEF WithObjects, p
<1>5. kernel' \in KernelType
  BY <1>1, <1>3, <1>4 DEF KernelType, p
<1>6. /\ kernel'.args /\ kernel'.primitive = p /\ kernel'.weights_mem_ = call[t].weights
      /\ kernel'.src_mem_ = call[t].id /\ kernel'.dst_mem_ = call[t].id
      /\ kernel'.is_input_zero_ = kernel.is_input_zero_
      /\ kernel'.is_filter_zero_ = kernel.is_filter_zero_
      /\ kernel'.is_format_reordered_ = kernel.is_format_reordered_
      /\ kernel'.is_weight_reorder_ = kernel.is_weight_reorder_
      /\ kernel'.dims_set = kernel.dims_set /\ kernel'.input_dims_ = kernel.input_dims_
      /\ kernel'.weights_dims_ = kernel.weights_dims_
      /\ kernel'.tmp_weight_ = kernel.tmp_weight_ /\ kernel'.bias_mem_ = kernel.bias_mem_
  BY <1>1, <1>4 DEF KernelType
<1>7. Contents(kernel, kernel.weights_mem_)' = <<Prefers(Shape(t)), WeightOf(call[t].id)>>
  <2>1. CASE Prefers(Shape(t)) = "plain" /\ call[t].weights = Input(call[t].id)
    BY <1>1, <1>6, <2>1 DEF Contents, Input
  <2>2. CASE /\ call[t].weights = Tmp
             /\ kernel.tmp_weight_ = <<Prefers(Shape(t)), WeightOf(call[t].id)>>
    BY <1>6, <2>2 DEF Contents, Tmp
  <2>3. CASE /\ call[t].weights[1] = "cache"
             /\ ~IsEmpty(weightCache) /\ weightCache.layout = Prefers(Shape(t))
    <3>1. call[t].weights[2] = weightCache.by
      BY <1>2, <2>3 DEF InCache
    <3>2. weightCache.value = WeightOf(call[t].id)
      BY <2>3 DEF IInv, CachesFilled, WeightOf
    <3> QED BY <1>6, <2>3, <3>1, <3>2 DEF Contents
  <2> QED BY <1>2, <2>1, <2>2, <2>3 DEF WeightsReady
<1>8. Ready(t)'
  <2>1. BiasReady(t)'
    BY <1>2, <1>6 DEF InInit, BiasReady, Input
  <2> QED BY <1>1, <1>2, <1>6, <1>7, <2>1 DEF Ready, InInit, Shape, p
<1>9. KeptUsable'
  <2>1. MadeFor(kernel, Shape(t))'
    <3>1. /\ kernel'.dims_set /\ kernel'.input_dims_ = Shape(t).src
          /\ kernel'.weights_dims_ = Shape(t).weights
          /\ kernel'.is_weight_reorder_ = (Prefers(Shape(t)) # "plain")
      BY <1>2, <1>6 DEF InInit
    <3>2. Prefers(Shape(t)) # "plain" =>
            \/ /\ kernel'.weights_mem_ = Tmp /\ kernel'.tmp_weight_[1] = Prefers(Shape(t))
               /\ node.is_filter_const_ => kernel'.tmp_weight_[2] = 0
            \/ /\ kernel'.weights_mem_[1] = "cache" /\ ~IsEmpty(weightCache)
               /\ weightCache.layout = Prefers(Shape(t))
      BY <1>2, <1>6 DEF WeightsReady, WeightOf
    <3>3. kernel'.primitive = <<Shape(t).src, Shape(t).weights, Prefers(Shape(t))>>
      BY <1>6 DEF p
    <3>4. Shape(t)' = Shape(t) /\ weightCache' = weightCache
      BY DEF Shape
    <3> QED BY <1>1, <3>1, <3>2, <3>3, <3>4 DEF MadeFor, Tmp, IsEmpty
  <2>2. Shape(t)' \in Shapes
    BY <1>1 DEF Shape
  <2> QED BY <2>1, <2>2 DEF KeptUsable
<1> QED BY <1>5, <1>6, <1>8, <1>9

\* FinishInit keeps the invariant.
LEMMA FinishInitStep ==
  ASSUME IInv, NEW t \in Threads, FinishInit(t)
  PROVE  IInv'
<1> USE DEF Goto
<1>1. /\ call \in [Threads -> CallType] /\ pc \in [Threads -> Places] /\ pc[t] = "finish"
      /\ outcome = [u \in Threads |-> outcome[u]]
      /\ UNCHANGED <<node, weightCache, biasCache, mu_compute_, calls, call>>
      /\ kernel \in KernelType /\ Place(t) /\ outcome[t] = NoOutcome
      /\ Locked' = Locked /\ pc'[t] = "execute" /\ Shape(t)' = Shape(t)
  BY DEF IInv, Types, FinishInit, Locked, Place, Shape
<1>2. kernel' = IF Locked THEN WithObjects(t) ELSE kernel
  BY DEF FinishInit
<1>3. /\ kernel' \in KernelType /\ KeptUsable'
      /\ Locked => kernel'.args /\ Ready(t)'
      /\ kernel'.weights_mem_ \in {kernel.weights_mem_, call[t].weights}
      /\ kernel'.is_input_zero_ = kernel.is_input_zero_
      /\ kernel'.is_filter_zero_ = kernel.is_filter_zero_
      /\ kernel'.is_format_reordered_ = kernel.is_format_reordered_
  <2>1. CASE Locked
    BY <1>1, <1>2, <2>1, ObjectsReady
  <2>2. CASE ~Locked
    <3>1. kernel' = kernel
      BY <1>2, <2>2
    <3> QED BY <1>1, <2>2, <3>1 DEF KeptUsable
  <2> QED BY <2>1, <2>2
<1>4. /\ ~(node.kind = "Conv" /\ kernel.is_format_reordered_) => outcome' = outcome
      /\ node.kind = "Conv" /\ kernel.is_format_reordered_ =>
            outcome' = [outcome EXCEPT ![t] = Executed(t, kernel')] /\ Locked
  BY <1>2 DEF FinishInit, Locked
<1>5. Types'
  <2>1. outcome' = [u \in Threads |-> outcome'[u]]
    BY <1>1, <1>4
  <2> QED BY <1>1, <1>3, <2>1 DEF IInv, Types, FinishInit, Places
<1>6. CachesFilled' /\ CachedReferences'
      /\ (~Locked => ~kernel.is_input_zero_ /\ ~kernel.is_filter_zero_)'
  BY <1>1, <1>3 DEF IInv, CachesFilled, CachedReferences, InCache, IsEmpty
<1>7. Place(t)'
  <2>1. CASE node.kind = "Conv" /\ kernel.is_format_reordered_
    <3>1. Locked /\ Ready(t)' /\ kernel'.args /\ outcome'[t] = Executed(t, kernel')
      BY <1>1, <1>3, <1>4, <2>1
    <3>2. outcome'[t].output = "computed"
      BY <3>1 DEF Executed
    <3>3. Executed(t, kernel') = Executed(t, kernel)'
      BY <1>1 DEF Executed, Contents, BiasIn, WeightOf, BiasOf
    <3>4. OwnData(t)'
      <4>1. /\ outcome'[t].primitive = kernel'.primitive
            /\ outcome'[t].src = kernel'.src_mem_ /\ outcome'[t].dst = kernel'.dst_mem_
            /\ outcome'[t].weights = Contents(kernel, kernel.weights_mem_)'
            /\ outcome'[t].bias = BiasIn(kernel.bias_mem_)'
            /\ outcome'[t].addend = call'[t].addend
        BY <3>1, <3>3 DEF Executed
      <4>2. node'.bias = "plain" => BiasIn(kernel.bias_mem_)' = BiasOf(call[t].id)'
        BY <3>1 DEF BiasIn, BiasOf, Ready, BiasReady, Input
      <4>3. node'.bias = "scaled" /\ node'.is_bias_const_ /\ biasCache'.layout = "scaled"
              => BiasIn(kernel.bias_mem_)' = BiasOf(call[t].id)'
        BY <3>1, <1>6 DEF BiasIn, BiasOf, Ready, BiasReady, CachesFilled
      <4> QED BY <3>1, <4>1, <4>2, <4>3 DEF OwnData, Ready
    <3>5. OwnMem(t)' /\ OwnMemUsed(t)'
      BY <3>1, <3>3 DEF Ready, OwnMem, OwnMemUsed, Executed
    <3> QED BY <1>1, <3>1, <3>2, <3>4, <3>5 DEF Place, Preparing
  <2>2. CASE ~(node.kind = "Conv" /\ kernel.is_format_reordered_)
    <3>1. outcome'[t] = NoOutcome /\ outcome'[t].output # "computed"
      BY <1>1, <1>4, <2>2 DEF NoOutcome
    <3>2. ~Locked' => WeightsReady(t)'
      BY <1>1, <1>2 DEF Place, WeightsReady, Locked, IsEmpty, Prefers, Input, Shape
    <3>3. Locked => OwnMem(t)'
      BY <1>3 DEF Ready, OwnMem
    <3> QED BY <1>1, <1>3, <2>2, <3>1, <3>2, <3>3 DEF Place, Preparing
  <2> QED BY <2>1, <2>2
<1>8. ASSUME NEW u \in Threads \ {t} PROVE Place(u)'
  <2>1. Elsewhere(t)
    BY <1>1, <1>2, <1>4 DEF Elsewhere, FinishInit
  <2> QED BY <2>1, <1>1, OthersStay
<1> QED BY <1>3, <1>5, <1>6, <1>7, <1>8 DEF IInv

\* The bias an execution is given, and the cache it may have filled.
LEMMA BiasHandle ==
  ASSUME IInv, NEW n \in 1..calls
  PROVE  /\ GetBiasHandle(n) \in Buffers
         /\ node.bias = "plain" => GetBiasHandle(n) = Input(n)
         /\ node.bias = "scaled" => GetBiasHandle(n)[1] = "cache"
         /\ BiasCacheAfter(n) \in CacheType /\ BiasCacheAfter(n).by \in 0..calls
         /\ node.is_bias_const_ => BiasCacheAfter(n).value = 0
<1>1. node.bias \in {"none", "plain", "scaled"} /\ biasCache \in CacheType /\ n \in Nat
      /\ calls \in Nat /\ biasCache.by \in 0..calls
      /\ (node.is_bias_const_ => biasCache.value = 0)
  BY ConstantsAssumption DEF IInv, Types, NodeType, CachesFilled
<1>2. BiasOf(n) \in Nat /\ (node.is_bias_const_ => BiasOf(n) = 0)
  BY <1>1 DEF BiasOf
<1>3. ScaledBias(n) \in CacheType /\ ScaledBias(n).by \in 0..calls
      /\ (node.is_bias_const_ => ScaledBias(n).value = 0)
  BY <1>1, <1>2 DEF ScaledBias, CacheType
<1>4. ScaledBias(n).by \in Nat
  BY <1>3 DEF CacheType
<1> QED BY <1>1, <1>3, <1>4, ValuesType
        DEF GetBiasHandle, BiasCacheAfter, Cached, Input, NoBuffer

\* InitOrSetMemory keeps the objects and gives them the data of the call.
LEMMA KeptObjects ==
  ASSUME IInv, NEW t \in Threads, Locked, pc[t] = "memory", InputsSame(Shape(t)),
         UNCHANGED <<node, weightCache>>, call'[t].id = call[t].id, Shape(t)' = Shape(t),
         NEW w, NEW m, NEW d \in Nat,
         w \in {kernel.tmp_weight_, <<kernel.tmp_weight_[1], WeightOf(call[t].id)>>},
         kernel.is_weight_reorder_ /\ ~node.is_filter_const_ /\ node.kind # "BatchMatMul"
            => w = <<kernel.tmp_weight_[1], WeightOf(call[t].id)>>,
         m = IF kernel.is_weight_reorder_ THEN kernel.weights_mem_ ELSE Input(call[t].id),
         kernel' = [kernel EXCEPT !.src_mem_ = call[t].id, !.weights_mem_ = m,
                        !.tmp_weight_ = w, !.bias_mem_ = GetBiasHandle(call[t].id),
                        !.dst_mem_ = d]
  PROVE  /\ kernel' \in KernelType /\ KeptUsable' /\ InCache(kernel.weights_mem_)'
         /\ kernel'.args = kernel.args
         /\ (kernel.args /\ d = call[t].id
                /\ (node.add /\ ~node.enable_cache_ => call'[t].addend = call[t].id))
              => Ready(t)'
<1>1. /\ kernel \in KernelType /\ Shape(t) \in Shapes /\ call[t].id \in 1..calls /\ node \in Nodes
      /\ call[t].id \in Nat
      /\ Locked' = Locked /\ (\A s : Prefers(s)' = Prefers(s))
      /\ (\A n : WeightOf(n)' = WeightOf(n)) /\ WeightOf(call[t].id) \in Nat
      /\ GetBiasHandle(call[t].id) \in Buffers
  <2>1. call[t].id \in 1..calls /\ call[t].id \in Nat
    BY DEF IInv, Types
  <2> QED BY <2>1, BiasHandle, ValuesType DEF IInv, Types, Shape, CallType, Locked, Prefers, WeightOf
<1>2. w \in Layouts \X Nat /\ m \in Buffers
  <2>1. kernel.tmp_weight_ \in Layouts \X Nat /\ kernel.weights_mem_ \in Buffers
    BY <1>1 DEF KernelType
  <2>2. Input(call[t].id) \in Buffers
    BY <1>1, ValuesType
  <2> QED BY <1>1, <2>1, <2>2
<1> DEFINE b == GetBiasHandle(call[t].id)
<1> HIDE DEF b
<1>3. kernel' = [kernel EXCEPT !.src_mem_ = call[t].id, !.weights_mem_ = m,
                    !.tmp_weight_ = w, !.bias_mem_ = b, !.dst_mem_ = d]
  BY DEF b
<1>4. b \in Buffers
  BY <1>1 DEF b
<1>5. kernel' \in KernelType
  BY <1>1, <1>2, <1>3, <1>4 DEF KernelType
<1>6. /\ kernel'.args = kernel.args /\ kernel'.primitive = kernel.primitive
      /\ kernel'.is_weight_reorder_ = kernel.is_weight_reorder_
      /\ kernel'.dims_set = kernel.dims_set /\ kernel'.input_dims_ = kernel.input_dims_
      /\ kernel'.weights_dims_ = kernel.weights_dims_
      /\ kernel'.src_mem_ = call[t].id /\ kernel'.dst_mem_ = d /\ kernel'.bias_mem_ = b
      /\ kernel'.tmp_weight_ = w /\ kernel'.weights_mem_ = m
  BY <1>1, <1>3 DEF KernelType
<1>7. InCache(kernel.weights_mem_)'
  BY <1>6 DEF IInv, CachedReferences, InCache, Input, IsEmpty
<1>8. ASSUME kernel.args PROVE MadeFor(kernel, Shape(t))
  <2>1. PICK s \in Shapes : MadeFor(kernel, s)
    BY <1>8 DEF IInv, KeptUsable
  <2>2. s.src = Shape(t).src /\ s.weights = Shape(t).weights
    BY <2>1 DEF MadeFor, InputsSame
  <2> QED BY <1>1, <2>1, <2>2, SameShape
<1> DEFINE s == Shape(t)
<1> HIDE DEF s
<1>9. /\ node.is_filter_const_ => WeightOf(call[t].id) = 0
      /\ ~node.is_filter_const_ /\ node.kind \in {"MatMul", "BatchMatMul"} => Prefers(s) = "plain"
      /\ node.kind \in Kinds /\ s = Shape(t)
  BY <1>1, ConstantsAssumption DEF WeightOf, Prefers, NodeType, s
<1>10. w[1] = kernel.tmp_weight_[1]
  BY <1>1 DEF KernelType
<1>11. ASSUME kernel.args PROVE MadeFor(kernel, s)'
  <2>1. MadeFor(kernel, s) /\ s' = s
    BY <1>8, <1>9, <1>11 DEF s
  <2>2. Prefers(s) # "plain" => m = kernel.weights_mem_
    BY <2>1 DEF MadeFor
  <2>3. node.is_filter_const_ /\ kernel.tmp_weight_[2] = 0 => w[2] = 0
    BY <1>9
  <2>4. weightCache' = weightCache /\ node' = node
    OBVIOUS
  <2> QED BY <1>1, <1>6, <1>10, <2>1, <2>2, <2>3, <2>4 DEF MadeFor, IsEmpty, Tmp
<1>12. KeptUsable'
  <2>1. s \in Shapes /\ s' = s
    BY <1>1 DEF s
  <2> QED BY <1>6, <1>11, <2>1 DEF KeptUsable
<1>13. ASSUME kernel.args
       PROVE  Contents(kernel, kernel.weights_mem_)' = <<Prefers(s), WeightOf(call[t].id)>>
  <2>1. MadeFor(kernel, s)
    BY <1>8, <1>9, <1>13
  <2>2. CASE Prefers(s) = "plain"
    <3>1. kernel'.weights_mem_ = Input(call[t].id)
      BY <1>6, <2>1, <2>2 DEF MadeFor
    <3> QED BY <1>1, <2>2, <3>1 DEF Contents, Input
  <2>3. CASE Prefers(s) # "plain" /\ kernel.weights_mem_ = Tmp /\ kernel.tmp_weight_[1] = Prefers(s)
    <3>1. kernel'.weights_mem_ = Tmp /\ kernel.is_weight_reorder_
      BY <1>6, <2>1, <2>3 DEF MadeFor
    <3>2. Contents(kernel, kernel.weights_mem_)' = w
      BY <1>6, <3>1 DEF Contents, Tmp
    <3>3. node.is_filter_const_ => kernel.tmp_weight_[2] = 0
      BY <2>1, <2>3 DEF MadeFor, Tmp
    <3>4. w = <<Prefers(s), WeightOf(call[t].id)>>
      <4>1. kernel.tmp_weight_ = <<kernel.tmp_weight_[1], kernel.tmp_weight_[2]>>
        BY <1>1 DEF KernelType
      <4> QED BY <1>9, <2>3, <3>1, <3>3, <4>1
    <3> QED BY <3>2, <3>4
  <2>4. CASE Prefers(s) # "plain" /\ kernel.weights_mem_[1] = "cache" /\ ~IsEmpty(weightCache)
             /\ weightCache.layout = Prefers(s)
    <3>1. kernel'.weights_mem_ = kernel.weights_mem_
      BY <1>6, <2>1, <2>4 DEF MadeFor
    <3>2. kernel.weights_mem_[2] = weightCache.by /\ weightCache.value = WeightOf(call[t].id)
      BY <1>9, <2>4 DEF IInv, CachedReferences, InCache, CachesFilled
    <3> QED BY <2>4, <3>1, <3>2 DEF Contents
  <2> QED BY <2>1, <2>2, <2>3, <2>4 DEF MadeFor
<1>14. ASSUME kernel.args, d = call[t].id,
              node.add /\ ~node.enable_cache_ => call'[t].addend = call[t].id
       PROVE  Ready(t)'
  <2>1. BiasReady(t)'
    BY <1>1, <1>6, BiasHandle DEF BiasReady, b, Input
  <2>2. kernel'.primitive = <<s.src, s.weights, Prefers(s)>>
    BY <1>6, <1>8, <1>9, <1>14 DEF MadeFor
  <2> QED BY <1>1, <1>6, <1>9, <1>13, <1>14, <2>1, <2>2 DEF Ready
<1> QED BY <1>5, <1>6, <1>7, <1>12, <1>14

\* A call of an execution that keeps its objects.
LEMMA KeptCall ==
  ASSUME call \in [Threads -> CallType], NEW t \in Threads, NEW allocated \in BOOLEAN,
         NEW a \in Int,
         call' \in {[call EXCEPT ![t].ok = allocated],
                    [call EXCEPT ![t].ok = allocated, ![t].addend = a]}
  PROVE  /\ call' \in [Threads -> CallType]
         /\ call'[t].ok = allocated
         /\ call'[t].addend \in {call[t].addend, a}
         /\ \A u \in Threads \ {t} : call'[u] = call[u]
         /\ \A u \in Threads : /\ call'[u].id = call[u].id
                               /\ call'[u].shape = call[u].shape
                               /\ call'[u].weights = call[u].weights
<1>1. call[t] \in CallType
  OBVIOUS
<1>2. CASE call' = [call EXCEPT ![t].ok = allocated]
  <2>1. [call[t] EXCEPT !.ok = allocated] \in CallType
    BY <1>1 DEF CallType
  <2> QED BY <1>1, <1>2, <2>1 DEF CallType
<1>3. CASE call' = [call EXCEPT ![t].ok = allocated, ![t].addend = a]
  <2>1. [[call[t] EXCEPT !.ok = allocated] EXCEPT !.addend = a] \in CallType
    BY <1>1 DEF CallType
  <2>2. call' = [call EXCEPT ![t] = [[call[t] EXCEPT !.ok = allocated] EXCEPT !.addend = a]]
    BY <1>3
  <2> QED BY <1>1, <2>1, <2>2 DEF CallType
<1> QED BY <1>2, <1>3

\* SetMemory keeps the invariant.
LEMMA SetMemoryStep ==
  ASSUME IInv, NEW t \in Threads, SetMemory(t)
  PROVE  IInv'
<1> USE DEF Goto
<1>ends. CASE Ends(t)
  BY <1>ends, EndsStep
<1> SUFFICES ASSUME ~Ends(t) PROVE IInv'
  BY <1>ends
<1>1. /\ call \in [Threads -> CallType] /\ pc \in [Threads -> Places] /\ pc[t] = "memory"
      /\ UNCHANGED <<node, weightCache, mu_compute_, calls, outcome>>
      /\ KeepsObjects(Shape(t))
      /\ kernel \in KernelType /\ Locked /\ Locked' = Locked
      /\ outcome[t] = NoOutcome /\ outcome'[t].output # "computed"
      /\ node.enable_cache_ /\ InputsSame(Shape(t))
      /\ call[t].id \in 1..calls /\ call[t].id \in Nat
  BY DEF IInv, Types, SetMemory, KeepsObjects, Locked, Place, NoOutcome
<1>2. PICK allocated \in BOOLEAN :
        \/ /\ kernel.is_input_zero_
           /\ call' = [call EXCEPT ![t].ok = allocated]
           /\ Goto(t, "execute")
           /\ UNCHANGED <<kernel, biasCache>>
        \/ /\ ~kernel.is_input_zero_
           /\ \/ MatMulSetMemory(t, allocated)
              \/ BatchMatMulSetMemory(t, allocated)
              \/ ConvSetMemory(t, allocated)
           /\ Goto(t, IF allocated /\ MatMulThrows(t) THEN "ended" ELSE "execute")
  BY <1>1 DEF SetMemory, Ends
<1> DEFINE CallKept == /\ call' \in [Threads -> CallType]
                       /\ call'[t].ok = allocated
                       /\ \A u \in Threads \ {t} : call'[u] = call[u]
                       /\ \A u \in Threads : /\ call'[u].id = call[u].id
                                             /\ call'[u].shape = call[u].shape
                                             /\ call'[u].weights = call[u].weights
           KernelKept == /\ kernel' \in KernelType /\ KeptUsable'
                         /\ InCache(kernel.weights_mem_)'
           Bias == /\ biasCache' \in CacheType /\ biasCache'.by \in 0..calls
                   /\ node.is_bias_const_ => biasCache'.value = 0
           SameFields == /\ kernel'.is_init_ = kernel.is_init_
                         /\ kernel'.dims_set = kernel.dims_set
                         /\ kernel'.input_dims_ = kernel.input_dims_
                         /\ kernel'.weights_dims_ = kernel.weights_dims_
                         /\ kernel'.is_format_reordered_ = kernel.is_format_reordered_
           OwnReady == pc'[t] = "execute" /\ kernel'.args /\ ~kernel'.is_input_zero_
                         => OwnMem(t)' /\ (allocated => Ready(t)')
<1>3. pc' \in [Threads -> Places] /\ pc'[t] \in {"execute", "ended"}
      /\ \A u \in Threads \ {t} : pc'[u] = pc[u]
  BY <1>1, <1>2 DEF Places
<1>4. biasCache \in CacheType /\ biasCache.by \in 0..calls
      /\ (node.is_bias_const_ => biasCache.value = 0)
  BY DEF IInv, Types, CachesFilled
<1>kept. ASSUME SameFields, Shape(t)' = Shape(t) PROVE KeepsObjects(Shape(t))'
  BY <1>1, <1>kept DEF KeepsObjects, InputsSame
<1>5. CallKept /\ KernelKept /\ Bias /\ OwnReady
  <2>1. CASE /\ kernel.is_input_zero_
             /\ call' = [call EXCEPT ![t].ok = allocated]
             /\ UNCHANGED <<kernel, biasCache>>
    <3>1. CallKept
      <4>1. 0 \in Int
        OBVIOUS
      <4> QED BY <1>1, <2>1, <4>1, KeptCall
    <3>2. KernelKept
      BY <1>1, <2>1 DEF IInv, KeptUsable, MadeFor, InCache, CachedReferences, Locked, Prefers,
                        IsEmpty, Tmp
    <3> QED BY <1>4, <2>1, <3>1, <3>2
  <2> DEFINE tmp == <<kernel.tmp_weight_[1], WeightOf(call[t].id)>>
             m == IF kernel.is_weight_reorder_ THEN kernel.weights_mem_ ELSE Input(call[t].id)
             w == IF kernel.is_weight_reorder_ /\ ~node.is_filter_const_ THEN tmp
                  ELSE kernel.tmp_weight_
  <2>2. kernel.dst_mem_ \in Nat
    BY <1>1 DEF KernelType
  <2>3. CASE ~kernel.is_input_zero_ /\ MatMulSetMemory(t, allocated)
             /\ Goto(t, IF allocated /\ MatMulThrows(t) THEN "ended" ELSE "execute")
    <3> DEFINE d == IF allocated /\ ~MatMulThrows(t) THEN call[t].id ELSE kernel.dst_mem_
    <3>1. d \in Nat /\ (pc'[t] = "execute" /\ allocated => d = call[t].id)
      BY <1>1, <2>2, <2>3
    <3>2. kernel' = [kernel EXCEPT !.src_mem_ = call[t].id, !.weights_mem_ = m,
                        !.tmp_weight_ = w, !.bias_mem_ = GetBiasHandle(call[t].id),
                        !.dst_mem_ = d]
      BY <2>3 DEF MatMulSetMemory
    <3>3. CallKept
      <4>1. MatMulKeptAdd(t) \in Int
        <5>1. MatMulKeptAdd(t) \in {0, call[t].id, -1}
          BY Zenon DEF MatMulKeptAdd
        <5> QED BY <1>1, <5>1
      <4> QED BY <1>1, <2>3, <4>1, KeptCall DEF MatMulSetMemory
    <3>4. Shape(t)' = Shape(t) /\ call'[t].id = call[t].id
      BY <3>3 DEF Shape
    <3> HIDE DEF d
    <3>5. KernelKept /\ kernel'.args = kernel.args /\ (kernel.args /\ d = call[t].id => Ready(t)')
      BY <1>1, <3>1, <3>2, <3>4, KeptObjects
    <3>mem. kernel'.src_mem_ = call[t].id /\ kernel'.dst_mem_ = d /\ SameFields
      BY <1>1, <3>1, <3>2 DEF KernelType
    <3>6. OwnReady
      BY <1>kept, <2>3, <3>1, <3>3, <3>4, <3>5, <3>mem DEF OwnMem
    <3> QED BY <1>4, <2>3, <3>3, <3>5, <3>6 DEF MatMulSetMemory
  <2>4. CASE ~kernel.is_input_zero_ /\ BatchMatMulSetMemory(t, allocated)
    <3> DEFINE d == IF allocated THEN call[t].id ELSE kernel.dst_mem_
               v == kernel.tmp_weight_
    <3>1. d \in Nat /\ (allocated => d = call[t].id)
      BY <1>1, <2>2
    <3>2. kernel' = [kernel EXCEPT !.src_mem_ = call[t].id, !.weights_mem_ = m,
                        !.tmp_weight_ = v, !.bias_mem_ = GetBiasHandle(call[t].id),
                        !.dst_mem_ = d]
      BY <1>1, <2>4 DEF BatchMatMulSetMemory, KernelType
    <3>3. CallKept
      <4>1. 0 \in Int
        OBVIOUS
      <4> QED BY <1>1, <2>4, <4>1, KeptCall DEF BatchMatMulSetMemory
    <3>4. Shape(t)' = Shape(t) /\ call'[t].id = call[t].id /\ node.kind = "BatchMatMul"
      BY <2>4, <3>3 DEF Shape, BatchMatMulSetMemory
    <3> HIDE DEF d, v
    <3>5. v = kernel.tmp_weight_
      BY DEF v
    <3>6. KernelKept /\ kernel'.args = kernel.args /\ (kernel.args /\ d = call[t].id => Ready(t)')
      BY <1>1, <3>1, <3>2, <3>4, <3>5, KeptObjects
    <3>mem. kernel'.src_mem_ = call[t].id /\ kernel'.dst_mem_ = d /\ SameFields
      BY <1>1, <3>1, <3>2 DEF KernelType
    <3>7. OwnReady
      BY <1>kept, <2>4, <3>1, <3>3, <3>4, <3>6, <3>mem DEF OwnMem
    <3> QED BY <1>4, <2>4, <3>3, <3>6, <3>7 DEF BatchMatMulSetMemory
  <2>5. CASE ~kernel.is_input_zero_ /\ ConvSetMemory(t, allocated)
    <3> DEFINE d == IF allocated THEN call[t].id ELSE kernel.dst_mem_
    <3>1. d \in Nat /\ (allocated => d = call[t].id)
      BY <1>1, <2>2
    <3>2. kernel' = [kernel EXCEPT !.src_mem_ = call[t].id, !.weights_mem_ = m,
                        !.tmp_weight_ = w, !.bias_mem_ = GetBiasHandle(call[t].id),
                        !.dst_mem_ = d]
      BY <2>5 DEF ConvSetMemory
    <3>3. CallKept
      <4> DEFINE a == IF node.add THEN call[t].id ELSE 0
      <4>1. a \in Int
        BY <1>1
      <4>2. call' = [call EXCEPT ![t].ok = allocated, ![t].addend = a]
        BY <2>5 DEF ConvSetMemory
      <4> HIDE DEF a
      <4> QED BY <1>1, <4>1, <4>2, KeptCall
    <3>4. Shape(t)' = Shape(t) /\ call'[t].id = call[t].id
      BY <3>3 DEF Shape
    <3> HIDE DEF d
    <3>5. KernelKept /\ kernel'.args = kernel.args /\ (kernel.args /\ d = call[t].id => Ready(t)')
      BY <1>1, <3>1, <3>2, <3>4, KeptObjects
    <3>mem. kernel'.src_mem_ = call[t].id /\ kernel'.dst_mem_ = d /\ SameFields
      BY <1>1, <3>1, <3>2 DEF KernelType
    <3>6. Bias
      BY <1>1, <2>5, BiasHandle DEF ConvSetMemory
    <3>7. OwnReady
      BY <1>kept, <2>5, <3>1, <3>3, <3>4, <3>5, <3>mem DEF OwnMem
    <3> QED BY <3>3, <3>5, <3>6, <3>7
  <2> QED BY <1>2, <2>1, <2>3, <2>4, <2>5
<1>6. Types'
  BY <1>1, <1>3, <1>5 DEF IInv, Types
<1>7. CachesFilled' /\ CachedReferences'
      /\ (~Locked => ~kernel.is_input_zero_ /\ ~kernel.is_filter_zero_)'
  BY <1>1, <1>5 DEF IInv, CachesFilled, CachedReferences, InCache, IsEmpty
<1>8. Place(t)'
  <2>1. Locked' /\ outcome'[t] = NoOutcome
    BY <1>1
  <2>2. pc'[t] = "execute" /\ kernel'.args /\ ~kernel'.is_input_zero_
          => OwnMem(t)' /\ (call'[t].ok => Ready(t)')
    BY <1>5
  <2> QED BY <1>1, <1>3, <2>1, <2>2 DEF Place, Preparing, NoOutcome
<1>9. ASSUME NEW u \in Threads \ {t} PROVE Place(u)'
  <2>1. Elsewhere(t)
    BY <1>1, <1>3, <1>5 DEF Elsewhere
  <2> QED BY <2>1, <1>1, OthersStay
<1> QED BY <1>5, <1>6, <1>7, <1>8, <1>9 DEF IInv

\* What Init leaves of the kernel when it notes the dimensions.
LEMMA NotedKernel ==
  ASSUME kernel \in KernelType, NEW s \in Shapes
  PROVE  LET k == Noted(s)
         IN  /\ k \in KernelType /\ ~k.args /\ k.dims_set
             /\ k.input_dims_ = s.src /\ k.weights_dims_ = s.weights
             /\ k.weights_mem_ = kernel.weights_mem_
<1>1. s.src \in Nat /\ s.weights \in Nat
  BY ConstantsAssumption DEF ShapeType
<1>2. Noted(s) \in KernelType
  BY <1>1 DEF Noted, KernelType
<1> QED BY <1>2 DEF Noted, KernelType

\* What Init leaves behind when the output is empty.
LEMMA EmptyKernel ==
  ASSUME kernel \in KernelType, NEW s \in Shapes, NEW a \in BOOLEAN
  PROVE  LET k == MarkedEmpty(s, a)
         IN  k \in KernelType /\ ~k.args /\ k.weights_mem_ = kernel.weights_mem_
<1> DEFINE n == Noted(s)
           z == IF node.kind = "BatchMatMul" /\ ~a THEN n.is_input_zero_ ELSE TRUE
           i == IF a THEN TRUE ELSE n.is_init_
<1>1. n \in KernelType /\ ~n.args /\ n.weights_mem_ = kernel.weights_mem_
  BY NotedKernel
<1>2. MarkedEmpty(s, a) = [n EXCEPT !.is_input_zero_ = z, !.is_init_ = i]
  BY DEF MarkedEmpty
<1> HIDE DEF n
<1>3. z \in BOOLEAN /\ i \in BOOLEAN
  BY <1>1 DEF KernelType
<1> HIDE DEF z, i
<1> QED BY <1>1, <1>2, <1>3 DEF KernelType

\* Init at the weights.
LEMMA AtWeights ==
  ASSUME IInv, NEW t \in Threads, NEW b \in Buffers,
         NEW f \in BOOLEAN \X Nat \X Nat, NEW r \in BOOLEAN,
         NEW k, k = [Noted(Shape(t)) EXCEPT !.bias_mem_ = b, !.fuse_add = f,
                                            !.is_format_reordered_ = r],
         kernel' = [k EXCEPT !.is_weight_reorder_ = (Prefers(Shape(t)) # "plain")],
         node' = node, call'[t].id = call[t].id, Shape(t)' = Shape(t),
         node.add => call'[t].addend = call[t].id,
         node.bias = "plain" => b = Input(call[t].id),
         node.bias = "scaled" => b[1] = "cache"
  PROVE  /\ kernel' \in KernelType /\ ~kernel'.args
         /\ kernel'.weights_mem_ = kernel.weights_mem_
         /\ InInit(t)'
<1> DEFINE n == Noted(Shape(t))  p == (Prefers(Shape(t)) # "plain")
<1>1. Shape(t) \in Shapes /\ kernel \in KernelType
  BY DEF IInv, Types, Shape, CallType
<1>2. /\ n \in KernelType /\ ~n.args /\ n.weights_mem_ = kernel.weights_mem_ /\ n.dims_set
      /\ n.input_dims_ = Shape(t).src /\ n.weights_dims_ = Shape(t).weights
  BY <1>1, NotedKernel
<1>3. p \in BOOLEAN
  OBVIOUS
<1>4. kernel' = [n EXCEPT !.bias_mem_ = b, !.fuse_add = f, !.is_format_reordered_ = r,
                          !.is_weight_reorder_ = p]
  OBVIOUS
<1> HIDE DEF n, p
<1>5. kernel' \in KernelType
  <2> DEFINE n1 == [n EXCEPT !.bias_mem_ = b, !.fuse_add = f, !.is_format_reordered_ = r]
  <2>1. n1 \in KernelType
    BY <1>2 DEF KernelType
  <2>2. kernel' = [n1 EXCEPT !.is_weight_reorder_ = p]
    BY <1>4
  <2> HIDE DEF n1
  <2>3. CASE p = TRUE
    BY <2>1, <2>2, <2>3 DEF KernelType
  <2>4. CASE p = FALSE
    BY <2>1, <2>2, <2>4 DEF KernelType
  <2> QED BY <1>3, <2>3, <2>4
<1>6. /\ ~kernel'.args /\ kernel'.weights_mem_ = kernel.weights_mem_ /\ kernel'.dims_set
      /\ kernel'.input_dims_ = Shape(t).src /\ kernel'.weights_dims_ = Shape(t).weights
      /\ kernel'.is_weight_reorder_ = p /\ kernel'.bias_mem_ = b
  BY <1>2, <1>3, <1>4 DEF KernelType
<1>7. Prefers(Shape(t))' = Prefers(Shape(t))
  BY DEF Prefers
<1>8. BiasReady(t)'
  BY <1>6 DEF BiasReady, Input
<1> QED BY <1>5, <1>6, <1>7, <1>8 DEF InInit, p

\* How Init leaves the thread: without arguments, or at the weights.
InitLeft(t) ==
    /\ kernel' \in KernelType /\ ~kernel'.args
    /\ kernel'.weights_mem_ = kernel.weights_mem_
    /\ call' \in [Threads -> CallType]
    /\ \A u \in Threads \ {t} : call'[u] = call[u]
    /\ \A u \in Threads : call'[u].id = call[u].id /\ call'[u].weights = call[u].weights
    /\ \/ Goto(t, "execute")
       \/ Goto(t, "weights") /\ InInit(t)'
    /\ biasCache' \in CacheType /\ biasCache'.by \in 0..calls
    /\ node.is_bias_const_ => biasCache'.value = 0

\* Noting the addend changes nothing else of any execution.
LEMMA AddendCall ==
  ASSUME call \in [Threads -> CallType], NEW t \in Threads,
         call' = [call EXCEPT ![t].addend = IF node.add THEN call[t].id ELSE 0]
  PROVE  /\ call' \in [Threads -> CallType]
         /\ \A u \in Threads \ {t} : call'[u] = call[u]
         /\ \A u \in Threads : call'[u].id = call[u].id /\ call'[u].weights = call[u].weights
         /\ call'[t].shape = call[t].shape
         /\ node.add => call'[t].addend = call[t].id
<1> DEFINE a == IF node.add THEN call[t].id ELSE 0
<1>1. call[t] \in CallType
  OBVIOUS
<1>2. a \in Int /\ (node.add => a = call[t].id)
  BY <1>1 DEF CallType
<1>3. call' = [call EXCEPT ![t] = [call[t] EXCEPT !.addend = a]]
  OBVIOUS
<1> HIDE DEF a
<1>4. [call[t] EXCEPT !.addend = a] \in CallType
  BY <1>1, <1>2 DEF CallType
<1>5. /\ call'[t] = [call[t] EXCEPT !.addend = a]
      /\ \A u \in Threads \ {t} : call'[u] = call[u]
  BY <1>3
<1>6. /\ call'[t].id = call[t].id /\ call'[t].weights = call[t].weights
      /\ call'[t].shape = call[t].shape /\ call'[t].addend = a
  BY <1>1, <1>5 DEF CallType
<1> QED BY <1>2, <1>3, <1>4, <1>5, <1>6

\* The ways in which the first part of Init can end.
LEMMA InitLeaves ==
  ASSUME IInv, NEW t \in Threads, InitShapes(t), ~Ends(t)
  PROVE  InitLeft(t)
<1> DEFINE s == Shape(t)
<1>1. /\ call \in [Threads -> CallType] /\ pc[t] = "memory" /\ kernel \in KernelType
      /\ UNCHANGED node /\ s \in Shapes
      /\ call[t].id \in 1..calls /\ call[t].id \in Nat
      /\ biasCache \in CacheType /\ biasCache.by \in 0..calls
      /\ node.is_bias_const_ => biasCache.value = 0
  BY DEF IInv, Types, InitShapes, Shape, CallType, CachesFilled
<1>2. s.src \in Nat /\ s.weights \in Nat /\ node.nchw \in BOOLEAN /\ node \in NodeType
  BY <1>1, ConstantsAssumption DEF ShapeType, NodeType, IInv, Types
<1> DEFINE b == GetBiasHandle(call[t].id)
<1>3. /\ b \in Buffers
      /\ node.bias = "plain" => b = Input(call[t].id)
      /\ node.bias = "scaled" => b[1] = "cache"
      /\ BiasCacheAfter(call[t].id) \in CacheType /\ BiasCacheAfter(call[t].id).by \in 0..calls
      /\ node.is_bias_const_ => BiasCacheAfter(call[t].id).value = 0
  BY <1>1, BiasHandle
<1>4. ASSUME NEW a \in BOOLEAN, kernel' = Noted(s) \/ kernel' = MarkedEmpty(s, a),
             Refused(t), Goto(t, "execute"),
             UNCHANGED biasCache \/ biasCache' = HalfFilled(call[t].id)
      PROVE  InitLeft(t)
  <2>1. kernel' \in KernelType /\ ~kernel'.args /\ kernel'.weights_mem_ = kernel.weights_mem_
    BY <1>1, <1>4, NotedKernel, EmptyKernel
  <2>2. /\ biasCache' \in CacheType /\ biasCache'.by \in 0..calls
        /\ node.is_bias_const_ => biasCache'.value = 0
    BY <1>1, <1>4 DEF HalfFilled, CacheType, Layouts
  <2> QED BY <1>1, <1>4, <2>1, <2>2, RefusedCall DEF InitLeft
<1>5. ASSUME InitEmpty(t), UNCHANGED biasCache
      PROVE  InitLeft(t)
  <2>1. PICK a \in BOOLEAN : /\ kernel' = MarkedEmpty(s, a)
                             /\ call' = [call EXCEPT ![t].ok = a]
                             /\ Goto(t, "execute")
    BY <1>5 DEF InitEmpty
  <2>2. kernel' \in KernelType /\ ~kernel'.args /\ kernel'.weights_mem_ = kernel.weights_mem_
    BY <1>1, <2>1, EmptyKernel
  <2>3. 0 \in Int
    OBVIOUS
  <2> QED BY <1>1, <1>5, <2>1, <2>2, <2>3, KeptCall DEF InitLeft
<1>6. CASE MatMulInit(t)
  <2>1. CASE s.class = "invalid" /\ Refused(t) /\ kernel' = Noted(s) /\ Goto(t, "execute")
    BY <1>4, <1>6, <2>1 DEF MatMulInit
  <2>2. CASE InitEmpty(t)
    BY <1>5, <1>6, <2>2 DEF MatMulInit
  <2>3. CASE /\ call' = [call EXCEPT ![t].addend = IF node.add THEN call[t].id ELSE 0]
             /\ ToWeights(t, [Noted(s) EXCEPT
                    !.bias_mem_ = GetBiasHandle(call[t].id),
                    !.fuse_add = IF node.add /\ ~call[t].forwards
                                 THEN <<TRUE, s.src, s.weights>> ELSE @])
    <3> DEFINE n == Noted(s)
               f == IF node.add /\ ~call[t].forwards THEN <<TRUE, s.src, s.weights>> ELSE n.fuse_add
               r == n.is_format_reordered_
               k == [n EXCEPT !.bias_mem_ = b, !.fuse_add = f, !.is_format_reordered_ = r]
    <3>1. n \in KernelType
      BY <1>1, NotedKernel
    <3>2. f \in BOOLEAN \X Nat \X Nat /\ r \in BOOLEAN
      <4> HIDE DEF n
      <4>1. n.fuse_add \in BOOLEAN \X Nat \X Nat /\ r \in BOOLEAN
        BY <3>1 DEF KernelType
      <4> QED BY <1>2, <4>1
    <3>3. k = [n EXCEPT !.bias_mem_ = b, !.fuse_add = f]
      <4> HIDE DEF n, f, b
      <4> QED BY <3>1 DEF KernelType
    <3>4. /\ kernel' = [k EXCEPT !.is_weight_reorder_ = (Prefers(Shape(t)) # "plain")]
          /\ Goto(t, "weights")
      BY <2>3, <3>3 DEF ToWeights
    <3>5. /\ call' \in [Threads -> CallType]
          /\ \A u \in Threads \ {t} : call'[u] = call[u]
          /\ \A u \in Threads : call'[u].id = call[u].id /\ call'[u].weights = call[u].weights
          /\ Shape(t)' = Shape(t)
          /\ node.add => call'[t].addend = call[t].id
      BY <1>1, <2>3, AddendCall DEF Shape
    <3>6. k = [Noted(Shape(t)) EXCEPT !.bias_mem_ = b, !.fuse_add = f,
                                      !.is_format_reordered_ = r]
      OBVIOUS
    <3> HIDE DEF k, f, r, b
    <3>7. /\ kernel' \in KernelType /\ ~kernel'.args
          /\ kernel'.weights_mem_ = kernel.weights_mem_
          /\ InInit(t)'
      BY <1>1, <1>3, <3>2, <3>4, <3>5, <3>6, AtWeights
    <3> QED BY <1>1, <1>6, <3>4, <3>5, <3>7 DEF InitLeft, MatMulInit
  <2> QED BY <1>6, <2>1, <2>2, <2>3 DEF MatMulInit
<1>7. CASE BatchMatMulInit(t)
  <2>1. CASE s.class = "invalid" /\ Refused(t) /\ kernel' = Noted(s) /\ Goto(t, "execute")
    BY <1>4, <1>7, <2>1 DEF BatchMatMulInit
  <2>2. CASE InitEmpty(t)
    BY <1>5, <1>7, <2>2 DEF BatchMatMulInit
  <2>3. CASE /\ UNCHANGED call
             /\ ToWeights(t, [Noted(s) EXCEPT !.bias_mem_ = GetBiasHandle(call[t].id)])
    <3> DEFINE n == Noted(s)
               f == n.fuse_add
               r == n.is_format_reordered_
               k == [n EXCEPT !.bias_mem_ = b, !.fuse_add = f, !.is_format_reordered_ = r]
    <3>1. n \in KernelType
      BY <1>1, NotedKernel
    <3>2. f \in BOOLEAN \X Nat \X Nat /\ r \in BOOLEAN
      <4> HIDE DEF n
      <4> QED BY <3>1 DEF KernelType
    <3>3. k = [n EXCEPT !.bias_mem_ = b]
      <4> HIDE DEF n, b
      <4> QED BY <3>1 DEF KernelType
    <3>4. /\ kernel' = [k EXCEPT !.is_weight_reorder_ = (Prefers(Shape(t)) # "plain")]
          /\ Goto(t, "weights")
      BY <2>3, <3>3 DEF ToWeights
    <3>5. Shape(t)' = Shape(t) /\ ~node.add
      BY <1>2, <1>7, <2>3 DEF Shape, NodeType, BatchMatMulInit
    <3>6. k = [Noted(Shape(t)) EXCEPT !.bias_mem_ = b, !.fuse_add = f,
                                      !.is_format_reordered_ = r]
      OBVIOUS
    <3> HIDE DEF k, f, r, b
    <3>7. /\ kernel' \in KernelType /\ ~kernel'.args
          /\ kernel'.weights_mem_ = kernel.weights_mem_
          /\ InInit(t)'
      BY <1>1, <1>3, <2>3, <3>2, <3>4, <3>5, <3>6, AtWeights
    <3> QED BY <1>1, <1>7, <2>3, <3>4, <3>7 DEF InitLeft, BatchMatMulInit
  <2> QED BY <1>7, <2>1, <2>2, <2>3 DEF BatchMatMulInit
<1>8. CASE ConvInit(t)
  <2>1. CASE /\ Refused(t) /\ Goto(t, "execute") /\ UNCHANGED biasCache
             /\ kernel' = [kernel EXCEPT !.args = FALSE, !.is_filter_zero_ = TRUE]
    <3>1. kernel' \in KernelType /\ ~kernel'.args /\ kernel'.weights_mem_ = kernel.weights_mem_
      BY <1>1, <2>1 DEF KernelType
    <3> QED BY <1>1, <2>1, <3>1, RefusedCall DEF InitLeft
  <2>2. CASE /\ Refused(t) /\ Goto(t, "execute")
             /\ kernel' \in {Noted(s)} \cup {MarkedEmpty(s, a) : a \in BOOLEAN}
             /\ UNCHANGED biasCache \/ biasCache' = HalfFilled(call[t].id)
    BY <1>4, <2>2
  <2>3. CASE InitEmpty(t) /\ UNCHANGED biasCache
    BY <1>5, <2>3
  <2>4. CASE /\ call' = [call EXCEPT ![t].addend = IF node.add THEN call[t].id ELSE 0]
             /\ biasCache' = BiasCacheAfter(call[t].id)
             /\ ToWeights(t, [Noted(s) EXCEPT
                    !.bias_mem_ = GetBiasHandle(call[t].id),
                    !.is_format_reordered_ = node.nchw])
    <3> DEFINE n == Noted(s)
               f == n.fuse_add
               r == node.nchw
               k == [n EXCEPT !.bias_mem_ = b, !.fuse_add = f, !.is_format_reordered_ = r]
    <3>1. n \in KernelType
      BY <1>1, NotedKernel
    <3>2. f \in BOOLEAN \X Nat \X Nat /\ r \in BOOLEAN
      <4> HIDE DEF n
      <4> QED BY <1>2, <3>1 DEF KernelType
    <3>3. k = [n EXCEPT !.bias_mem_ = b, !.is_format_reordered_ = r]
      <4> HIDE DEF n, b, r
      <4> QED BY <3>1 DEF KernelType
    <3>4. /\ kernel' = [k EXCEPT !.is_weight_reorder_ = (Prefers(Shape(t)) # "plain")]
          /\ Goto(t, "weights")
      BY <2>4, <3>3 DEF ToWeights
    <3>5. /\ call' \in [Threads -> CallType]
          /\ \A u \in Threads \ {t} : call'[u] = call[u]
          /\ \A u \in Threads : call'[u].id = call[u].id /\ call'[u].weights = call[u].weights
          /\ Shape(t)' = Shape(t)
          /\ node.add => call'[t].addend = call[t].id
      BY <1>1, <2>4, AddendCall DEF Shape
    <3>6. k = [Noted(Shape(t)) EXCEPT !.bias_mem_ = b, !.fuse_add = f,
                                      !.is_format_reordered_ = r]
      OBVIOUS
    <3> HIDE DEF k, f, r, b
    <3>7. /\ kernel' \in KernelType /\ ~kernel'.args
          /\ kernel'.weights_mem_ = kernel.weights_mem_
          /\ InInit(t)'
      BY <1>1, <1>3, <3>2, <3>4, <3>5, <3>6, AtWeights
    <3> QED BY <1>3, <2>4, <3>4, <3>5, <3>7 DEF InitLeft
  <2>5. ~(Goto(t, "ended") /\ UNCHANGED <<kernel, biasCache, call>>)
    BY <1>1 DEF InitShapes, Ends
  <2>6. ASSUME biasCache' \in {biasCache, HalfFilled(call[t].id)}, kernel' = Noted(s),
               Refused(t), Goto(t, "execute")
        PROVE  InitLeft(t)
    BY <2>2, <2>6
  <2> QED BY <1>8, <2>1, <2>2, <2>3, <2>4, <2>5, <2>6 DEF ConvInit
<1> QED BY <1>6, <1>7, <1>8 DEF InitShapes

\* InitShapes keeps the invariant.
LEMMA InitShapesStep ==
  ASSUME IInv, NEW t \in Threads, InitShapes(t)
  PROVE  IInv'
<1> USE DEF Goto
<1>ends. CASE Ends(t)
  BY <1>ends, EndsStep
<1> SUFFICES ASSUME ~Ends(t) PROVE IInv'
  BY <1>ends
<1>1. /\ pc \in [Threads -> Places] /\ pc[t] = "memory" /\ Locked /\ Locked' = Locked
      /\ UNCHANGED <<node, weightCache, mu_compute_, calls, outcome>>
      /\ outcome'[t] = NoOutcome
  BY DEF IInv, Types, InitShapes, Locked, Place
<1>2. InitLeft(t)
  BY InitLeaves
<1>3. pc' \in [Threads -> Places] /\ \A u \in Threads \ {t} : pc'[u] = pc[u]
  BY <1>1, <1>2 DEF InitLeft, Places
<1>4. Types'
  <2>1. \A u \in Threads : pc'[u] # "idle" <=> pc[u] # "idle"
    BY <1>1, <1>2 DEF InitLeft
  <2>2. \A u \in Threads : call'[u].id = call[u].id
    BY <1>2 DEF InitLeft
  <2>3. /\ kernel' \in KernelType /\ call' \in [Threads -> CallType]
        /\ biasCache' \in CacheType /\ biasCache'.by \in 0..calls
    BY <1>2 DEF InitLeft
  <2> QED BY <1>1, <1>3, <2>1, <2>2, <2>3 DEF IInv, Types
<1>5. CachesFilled' /\ CachedReferences' /\ KeptUsable'
      /\ (~Locked => ~kernel.is_input_zero_ /\ ~kernel.is_filter_zero_)'
  BY <1>1, <1>2
     DEF IInv, CachesFilled, CachedReferences, KeptUsable, InCache, IsEmpty, InitLeft
<1>6. Place(t)'
  <2>1. CASE pc'[t] = "execute"
    BY <1>1, <1>2, <2>1 DEF Place, NoOutcome, Preparing, InitLeft
  <2>2. CASE pc'[t] = "weights" /\ InInit(t)'
    BY <1>1, <2>2 DEF Place, NoOutcome, Preparing
  <2> QED BY <1>1, <1>2, <2>1, <2>2 DEF InitLeft
<1>7. ASSUME NEW u \in Threads \ {t} PROVE Place(u)'
  <2>1. Elsewhere(t)
    BY <1>1, <1>2, <1>3 DEF Elsewhere, InitLeft
  <2> QED BY <2>1, <1>1, OthersStay
<1> QED BY <1>4, <1>5, <1>6, <1>7 DEF IInv

\* Every step keeps the invariant.
LEMMA NextIInv == IInv /\ [Next]_vars => IInv'
<1> SUFFICES ASSUME IInv, [Next]_vars PROVE IInv'  OBVIOUS
<1>1. CASE UNCHANGED vars
  <2> USE DEF vars
  <2>1. Types' /\ CachedReferences'
    BY <1>1 DEF IInv, Types, CachedReferences, InCache, IsEmpty, Locked
  <2>2. ASSUME NEW u \in Threads PROVE Place(u)'
    <3>1. Place(u)
      BY DEF IInv
    <3>2. /\ Shape(u)' = Shape(u) /\ Locked' = Locked
          /\ KeepsObjects(Shape(u))' = KeepsObjects(Shape(u))
          /\ Prefers(Shape(u))' = Prefers(Shape(u)) /\ UsesCache(u)' = UsesCache(u)
          /\ WeightOf(call[u].id)' = WeightOf(call[u].id)
      BY <1>1 DEF Shape, Locked, KeepsObjects, InputsSame, Prefers, UsesCache, WeightOf
    <3>3. InInit(u)' = InInit(u) /\ WeightsReady(u)' = WeightsReady(u)
      BY <1>1, <3>2 DEF InInit, BiasReady, WeightsReady, Input, Tmp, IsEmpty
    <3>4. Contents(kernel, kernel.weights_mem_)' = Contents(kernel, kernel.weights_mem_)
      BY <1>1 DEF Contents, WeightOf
    <3>5. Ready(u)' = Ready(u) /\ OwnData(u)' = OwnData(u)
      BY <1>1, <3>2, <3>4 DEF Ready, BiasReady, Input, OwnData, BiasOf
    <3>6. OwnMem(u)' = OwnMem(u) /\ OwnMemUsed(u)' = OwnMemUsed(u)
      BY <1>1, <3>2 DEF OwnMem, OwnMemUsed
    <3> QED BY <1>1, <3>1, <3>2, <3>3, <3>5, <3>6 DEF Place, IsEmpty
  <2> QED BY <1>1, <2>1, <2>2, StateStays DEF IInv
<1>2. ASSUME Next PROVE IInv'
  <2>1. PICK t \in Threads :
          \/ \E s \in Shapes, forwards \in BOOLEAN : Compute(t, s, forwards)
          \/ SetMemory(t) \/ InitShapes(t) \/ LayerNormStart(t) \/ CheckWeightCache(t)
          \/ SetCache(t) \/ UseCache(t) \/ ReorderWeights(t) \/ InitFails(t)
          \/ FinishInit(t) \/ Execute(t) \/ Return(t)
    BY <1>2 DEF Next
  <2>2. CASE \E s \in Shapes, forwards \in BOOLEAN : Compute(t, s, forwards)
    BY <2>2, ComputeStep
  <2> QED BY <2>1, <2>2, SetMemoryStep, InitShapesStep, LayerNormStartStep,
          CheckWeightCacheStep, SetCacheStep, UseCacheStep, ReorderWeightsStep,
          InitFailsStep, FinishInitStep, ExecuteStep, ReturnStep
<1> QED BY <1>1, <1>2

-----------------------------------------------------------------------------
(* The theorems.                                                           *)

\* The invariant holds in every reachable state.
LEMMA Invariant == Spec => []IInv
BY InitIInv, NextIInv, PTL DEF Spec

\* Every variable keeps its type, mu_compute_ is held by exactly the thread that
\* is inside Compute of a kernel that takes it, and the cached weights are in a
\* layout oneDNN asked for (matmul_op.h, batch_matmul_op.h, conv_ops.h,
\* layer_norm_op.h: Compute; onednn_util.cc: WeightCacheManager).
THEOREM TypeCorrect == Spec => []TypeOK
<1>1. IInv => TypeOK
  <2> SUFFICES ASSUME IInv PROVE TypeOK  OBVIOUS
  <2>1. DOMAIN kernel = DOMAIN NewKernel
    <3>1. kernel \in KernelType
      BY DEF IInv, Types
    <3>2. NewKernel \in KernelType
      BY DEF NewKernel, KernelType, NoBuffer, Buffers, Layouts
    <3> QED BY <3>1, <3>2 DEF KernelType
  <2>2. \A t \in Threads : call[t].shape \in Shapes
    BY DEF IInv, Types, CallType
  <2> QED BY <2>1, <2>2 DEF IInv, Types, CachesFilled, TypeOK
<1> QED BY <1>1, Invariant, PTL

\* The primitive an execution ran is the one for its dimensions and read and wrote
\* its own buffers, whichever objects InitOrSetMemory kept and whatever the weight
\* and bias caches held, for any number of threads and any shapes
\* (matmul_op.h:290, batch_matmul_op.h:267, conv_ops.h:718, onednn_util.cc:62).
THEOREM ExecutesItsOwnCall == Spec => []ExecutesThisCall
<1>1. IInv => ExecutesThisCall
  <2> SUFFICES ASSUME IInv, NEW t \in Threads, Finished(t, "computed")
               PROVE  OwnData(t)
    BY DEF ExecutesThisCall, OwnData
  <2> QED BY DEF IInv, Place, Finished
<1> QED BY <1>1, Invariant, PTL

\* A buffer somebody has from GetCache is never freed by a second SetCache, also
\* when several threads of a layer norm fill the cache at once (onednn_util.cc:62,
\* layer_norm_op.h:176).
THEOREM CacheNeverFreed == Spec => []CachedBufferStays
<1>1. IInv => CachedBufferStays
  BY DEF IInv, CachedReferences, InCache, CachedBufferStays
<1> QED BY <1>1, Invariant, PTL

\* Whenever a primitive runs, also in an execution that reports a failure, it reads
\* this execution's source and writes its output, for any number of threads and any
\* shapes: Init has cleared the arguments of the earlier one before it can be left
\* (matmul_op.h:366, batch_matmul_op.h:98, conv_ops.h:813).  The exception is a
\* kernel that keeps its objects and fails to allocate.
THEOREM OwnBuffers == Spec => []WritesOwnOutput
<1>1. IInv => WritesOwnOutput
  BY DEF IInv, Place, OwnMemUsed, WritesOwnOutput
<1> QED BY <1>1, Invariant, PTL

=============================================================================
