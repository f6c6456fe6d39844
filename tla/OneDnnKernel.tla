---------------------------- MODULE OneDnnKernel ----------------------------
(***************************************************************************)
(* A graph node whose kernel runs a oneDNN primitive: MatMulOp,            *)
(* BatchMatMulOp and ConvOpBase (src/itex/core/kernels/common/), which     *)
(* keep their oneDNN objects between executions, and the layer norm, which *)
(* keeps only its converted scale.  TensorFlow may execute one node on     *)
(* several threads at once, with other shapes each time; the first three   *)
(* run Compute under mu_compute_, the layer norm does not.                 *)
(*                                                                         *)
(* Some failures end the whole process: an exception of oneDNN outside the *)
(* try block of Init, a check of the library that fails (ITEX_CHECK,       *)
(* ITEX_LOG(FATAL)), a buffer that was never allocated.  The thread that   *)
(* meets one goes to "ended", and nothing happens after it.                *)
(*                                                                         *)
(* Every execution has a number.  It stands for the buffers TensorFlow     *)
(* passes to it (source, weights, bias, addend, output) and for what is in *)
(* them; an input that is constant holds value 0 in every execution.       *)
(* A weight tensor also has a layout: "plain" as TensorFlow stores it, or  *)
(* one that oneDNN prefers for the shapes at hand.                         *)
(***************************************************************************)
EXTENDS Integers, FiniteSets

CONSTANTS
    Threads,    \* threads that may execute the node
    Nodes,      \* attributes a node may have; see NodeType
    Shapes,     \* what a call may be given; see ShapeType
    MaxCalls    \* bound on the executions of a behaviour

Kinds == {"MatMul", "BatchMatMul", "Conv", "LayerNorm"}

\* The attributes the constructor reads.  bias is "none", "plain" or, in the
\* INT8 convolution, "scaled"; nchw is a convolution whose data has to be
\* reordered to NHWC and back; add is a fused addition.
NodeType ==
    {n \in [kind: Kinds, enable_cache_: BOOLEAN, is_filter_const_: BOOLEAN,
            bias: {"none", "plain", "scaled"}, is_bias_const_: BOOLEAN,
            add: BOOLEAN, nchw: BOOLEAN] :
        /\ n.bias = "scaled" => n.kind = "Conv"
        /\ n.add => n.kind \in {"MatMul", "Conv"}
        /\ n.kind = "LayerNorm" => n.bias = "none"}

\* The dimensions of source and weights, what the checks of Init make of
\* them, and the weight layout oneDNN prefers for them.  "no_output": the
\* output has no element; "no_input": it has, but an input (the weights) has
\* none.
ShapeType ==
    [src: Nat, weights: Nat,
     class: {"valid", "invalid", "no_output", "no_input"},
     prefer: {"plain", "blocked_a", "blocked_b"}]

\* What Init makes of the dimensions, and the layout oneDNN prefers for them,
\* is the same in every execution.
ASSUME ConstantsAssumption ==
    /\ IsFiniteSet(Threads) /\ Threads # {} /\ "free" \notin Threads
    /\ Nodes \subseteq NodeType
    /\ Shapes \subseteq ShapeType /\ Shapes # {}
    /\ \A s, u \in Shapes : s.src = u.src /\ s.weights = u.weights => s = u
    /\ MaxCalls \in Nat

VARIABLES
    node,           \* the node's attributes, fixed at construction
    kernel,         \* the fields the kernel keeps between executions
    weightCache,    \* WeightCacheManager
    biasCache,      \* BiasCacheManager
    mu_compute_,    \* the thread that holds it, or "free"
    calls,          \* number of executions begun
    pc,             \* where each thread is in Compute
    call,           \* the execution each thread is in
    outcome         \* what the execution a thread has finished did

vars == <<node, kernel, weightCache, biasCache, mu_compute_, calls, pc, call,
          outcome>>

-----------------------------------------------------------------------------
(* Buffers and their contents.                                             *)

NoBuffer == <<"none", 0>>
Input(n) == <<"input", n>>      \* of execution n
Cached(n) == <<"cache", n>>     \* allocated by SetCache in execution n
Tmp == <<"tmp", 0>>             \* tmp_weight_

WeightOf(n) == IF node.is_filter_const_ THEN 0 ELSE n
BiasOf(n) == IF node.is_bias_const_ THEN 0 ELSE n

EmptyCache == [by |-> 0, layout |-> "none", value |-> 0]
IsEmpty(cache) == cache.by = 0

\* SetCache of execution n has allocated the buffer and noted it as the cache
\* when oneDNN throws in the reorder: the buffer holds nothing of use, and the
\* layout, which the weight cache notes last, is not there.
HalfFilled(n) == [by |-> n, layout |-> "none", value |-> 0]

\* What a weight memory of kernel k holds when it is read: layout and value.
Contents(k, buffer) ==
    CASE buffer[1] = "input" -> <<"plain", WeightOf(buffer[2])>>
      [] buffer[1] = "cache" /\ buffer[2] = weightCache.by ->
            <<weightCache.layout, weightCache.value>>
      [] buffer[1] = "tmp" -> k.tmp_weight_
      [] OTHER -> <<"freed", 0>>

NewKernel ==
    [is_init_ |-> FALSE, is_input_zero_ |-> FALSE, is_filter_zero_ |-> FALSE,
     is_format_reordered_ |-> FALSE, is_weight_reorder_ |-> FALSE,
     input_dims_ |-> 0, weights_dims_ |-> 0, dims_set |-> FALSE,
     args |-> FALSE, primitive |-> <<0, 0, "none">>,
     src_mem_ |-> 0, dst_mem_ |-> 0, bias_mem_ |-> NoBuffer,
     weights_mem_ |-> NoBuffer, tmp_weight_ |-> <<"none", 0>>,
     fuse_add |-> <<FALSE, 0, 0>>]

NewCall(n, s, forwards) ==
    [id |-> n, shape |-> s, forwards |-> forwards, ok |-> TRUE,
     weights |-> NoBuffer, addend |-> 0]

NoCall == NewCall(0, CHOOSE s \in Shapes : TRUE, FALSE)

NoOutcome == [output |-> "skipped"]

Init ==
    /\ node \in Nodes
    /\ kernel = NewKernel
    /\ weightCache = EmptyCache
    /\ biasCache = EmptyCache
    /\ mu_compute_ = "free"
    /\ calls = 0
    /\ pc = [t \in Threads |-> "idle"]
    /\ call = [t \in Threads |-> NoCall]
    /\ outcome = [t \in Threads |-> NoOutcome]

-----------------------------------------------------------------------------
(* Compute, up to InitOrSetMemory.                                         *)

Goto(t, place) == pc' = [pc EXCEPT ![t] = place]
Shape(t) == call[t].shape
Locked == node.kind # "LayerNorm"

\* Shapes an execution of this node can have: constant weights never change
\* their dimensions, and a layer norm checks the ranks of its inputs and whether
\* its source is empty; a scale of another size than the cached one is fatal
\* (ITEX_LOG(FATAL)).
Possible(s) ==
    /\ node.is_filter_const_ \/ node.kind = "LayerNorm" => s.weights = 1
    /\ node.kind = "LayerNorm" => s.class # "no_input"

\* Mutant: nobody takes mu_compute_.
Compute_Unlocked(t, s, forwards) ==
    /\ pc[t] = "idle" /\ calls < MaxCalls
    /\ Possible(s)
    /\ ~node.add => ~forwards
    /\ calls' = calls + 1
    /\ call' = [call EXCEPT ![t] = NewCall(calls + 1, s, forwards)]
    /\ Goto(t, "memory")
    /\ UNCHANGED <<node, kernel, weightCache, biasCache, mu_compute_, outcome>>

\* TensorFlow executes the node.  forwards says whether it can give the
\* output the buffer of the addend.
Compute(t, s, forwards) ==
    /\ pc[t] = "idle" /\ calls < MaxCalls
    /\ Locked => mu_compute_ = "free"
    /\ Possible(s)
    /\ ~node.add => ~forwards
    /\ mu_compute_' = IF Locked THEN t ELSE mu_compute_
    /\ calls' = calls + 1
    /\ call' = [call EXCEPT ![t] = NewCall(calls + 1, s, forwards)]
    /\ Goto(t, "memory")
    /\ UNCHANGED <<node, kernel, weightCache, biasCache, outcome>>

\* Mutant: only the source is compared.
InputsSame_SourceOnly(s) == kernel.dims_set /\ kernel.input_dims_ = s.src

\* context->is_input_same for both inputs.
InputsSame(s) ==
    kernel.dims_set /\ kernel.input_dims_ = s.src /\ kernel.weights_dims_ = s.weights

\* InitOrSetMemory keeps the oneDNN objects of an earlier execution.
KeepsObjects(s) ==
    /\ node.enable_cache_ /\ kernel.is_init_
    /\ InputsSame(s)
    /\ node.kind = "Conv" => ~kernel.is_format_reordered_

Refused(t) == call' = [call EXCEPT ![t].ok = FALSE]

\* GetBiasHandle: the bias itself or, in an INT8 convolution, its scaled copy,
\* which BiasCacheManager makes once.
ScaledBias(n) ==
    IF IsEmpty(biasCache)
    THEN [by |-> n, layout |-> "scaled", value |-> BiasOf(n)]
    ELSE biasCache

GetBiasHandle(n) ==
    CASE node.bias = "none" -> NoBuffer
      [] node.bias = "plain" -> Input(n)
      [] node.bias = "scaled" -> Cached(ScaledBias(n).by)

BiasCacheAfter(n) == IF node.bias = "scaled" THEN ScaledBias(n) ELSE biasCache

-----------------------------------------------------------------------------
(* The objects are kept: the rest of InitOrSetMemory.  An execution marked *)
(* as empty allocates its output, which MatMul also fills with zeros.      *)

\* The addend reaches the output when its buffer becomes the output, or by a
\* reorder that uses the two memories the last Init made, if it made any: of
\* memories it never made, set_data_handle throws and nothing catches it.
MatMulKeptAdd(t) ==
    CASE ~node.add -> 0
      [] node.add /\ (\/ call[t].forwards
                     \/ kernel.fuse_add = <<TRUE, Shape(t).src, Shape(t).weights>>)
            -> call[t].id
      [] OTHER -> -1

MatMulThrows(t) ==
    node.kind = "MatMul" /\ node.add /\ ~call[t].forwards /\ ~kernel.fuse_add[1]

MatMulSetMemory(t, allocated) ==
    /\ node.kind = "MatMul"
    /\ kernel' = [kernel EXCEPT
            !.src_mem_ = call[t].id,
            !.weights_mem_ =
                IF kernel.is_weight_reorder_ THEN @ ELSE Input(call[t].id),
            !.tmp_weight_ =
                IF kernel.is_weight_reorder_ /\ ~node.is_filter_const_
                THEN <<@[1], WeightOf(call[t].id)>> ELSE @,
            !.bias_mem_ = GetBiasHandle(call[t].id),
            !.dst_mem_ = IF allocated /\ ~MatMulThrows(t) THEN call[t].id ELSE @]
    /\ call' = [call EXCEPT ![t].ok = allocated, ![t].addend = MatMulKeptAdd(t)]
    /\ UNCHANGED biasCache

BatchMatMulSetMemory(t, allocated) ==
    /\ node.kind = "BatchMatMul"
    /\ kernel' = [kernel EXCEPT
            !.src_mem_ = call[t].id,
            !.weights_mem_ =
                IF kernel.is_weight_reorder_ THEN @ ELSE Input(call[t].id),
            !.bias_mem_ = GetBiasHandle(call[t].id),
            !.dst_mem_ = IF allocated THEN call[t].id ELSE @]
    /\ call' = [call EXCEPT ![t].ok = allocated]
    /\ UNCHANGED biasCache

ConvSetMemory(t, allocated) ==
    /\ node.kind = "Conv"
    /\ kernel' = [kernel EXCEPT
            !.src_mem_ = call[t].id,
            !.weights_mem_ =
                IF kernel.is_weight_reorder_ THEN @ ELSE Input(call[t].id),
            !.tmp_weight_ =
                IF kernel.is_weight_reorder_ /\ ~node.is_filter_const_
                THEN <<@[1], WeightOf(call[t].id)>> ELSE @,
            !.bias_mem_ = GetBiasHandle(call[t].id),
            !.dst_mem_ = IF allocated THEN call[t].id ELSE @]
    /\ biasCache' = BiasCacheAfter(call[t].id)
    /\ call' = [call EXCEPT ![t].ok = allocated,
                            ![t].addend = IF node.add THEN call[t].id ELSE 0]

\* The allocation of the scratchpad or of the output may fail: then the rest is
\* left out and Compute goes on, with the output of an earlier execution.  A
\* convolution without an output ends the process, and so does an exception of
\* oneDNN, for there is no try block here.
SetMemory(t) ==
    /\ pc[t] = "memory" /\ Locked /\ KeepsObjects(Shape(t))
    /\ \/ \E allocated \in BOOLEAN :
            \/ /\ kernel.is_input_zero_
               /\ call' = [call EXCEPT ![t].ok = allocated]
               /\ Goto(t, "execute")
               /\ UNCHANGED <<kernel, biasCache>>
            \/ /\ ~kernel.is_input_zero_
               /\ \/ MatMulSetMemory(t, allocated)
                  \/ BatchMatMulSetMemory(t, allocated)
                  \/ ConvSetMemory(t, allocated)
               /\ Goto(t, IF allocated /\ MatMulThrows(t) THEN "ended" ELSE "execute")
       \/ /\ ~kernel.is_input_zero_
          /\ Goto(t, "ended") /\ UNCHANGED <<kernel, biasCache, call>>
    /\ UNCHANGED <<node, weightCache, mu_compute_, calls, outcome>>

-----------------------------------------------------------------------------
(* Init, up to the weights: clear the arguments, note the dimensions,      *)
(* check them, deal with empty tensors.  A check or an allocation that     *)
(* fails leaves Init only; Compute goes on.                                *)

\* Mutant: the arguments of the earlier primitive are left in place.
Noted_KeepsArgs(s) ==
    [kernel EXCEPT !.dims_set = TRUE,
                   !.input_dims_ = s.src, !.weights_dims_ = s.weights]

Noted(s) ==
    [kernel EXCEPT !.args = FALSE, !.dims_set = TRUE,
                   !.input_dims_ = s.src, !.weights_dims_ = s.weights]

\* An execution marked as empty, once its output is allocated and, in MatMul and
\* Conv, also when the allocation fails.
MarkedEmpty(s, allocated) ==
    [Noted(s) EXCEPT
        !.is_input_zero_ = IF node.kind = "BatchMatMul" /\ ~allocated THEN @ ELSE TRUE,
        !.is_init_ = IF allocated THEN TRUE ELSE @]

InitEmpty(t) ==
    \E allocated \in BOOLEAN :
        /\ kernel' = MarkedEmpty(Shape(t), allocated)
        /\ call' = [call EXCEPT ![t].ok = allocated]
        /\ Goto(t, "execute")

\* Layout oneDNN chooses: its own only if it is left the choice.
Prefers(s) ==
    CASE node.kind \in {"MatMul", "BatchMatMul"} ->
            IF node.is_filter_const_ THEN s.prefer ELSE "plain"
      [] node.kind = "Conv" -> s.prefer
      [] node.kind = "LayerNorm" -> "blocked_a"

\* Fields of the weights at the point where the caches are consulted.
ToWeights(t, k) ==
    /\ kernel' = [k EXCEPT !.is_weight_reorder_ = (Prefers(Shape(t)) # "plain")]
    /\ Goto(t, "weights")

MatMulInit(t) ==
    LET s == Shape(t)
        plainOp == node.bias = "none" /\ ~node.add
        empty == s.class = "no_output" \/ (s.class = "no_input" /\ plainOp)
    IN  /\ node.kind = "MatMul"
        /\ \/ /\ s.class = "invalid" /\ Refused(t)
              /\ kernel' = Noted(s) /\ Goto(t, "execute")
           \/ empty /\ InitEmpty(t)
           \/ /\ s.class # "invalid" /\ ~empty
              /\ call' = [call EXCEPT ![t].addend = IF node.add THEN call[t].id ELSE 0]
              /\ ToWeights(t, [Noted(s) EXCEPT
                    !.bias_mem_ = GetBiasHandle(call[t].id),
                    !.fuse_add = IF node.add /\ ~call[t].forwards
                                 THEN <<TRUE, s.src, s.weights>> ELSE @])
        /\ UNCHANGED biasCache

BatchMatMulInit(t) ==
    LET s == Shape(t)
        empty == s.class = "no_output" /\ node.bias = "none"
    IN  /\ node.kind = "BatchMatMul"
        /\ \/ /\ s.class = "invalid" /\ Refused(t)
              /\ kernel' = Noted(s) /\ Goto(t, "execute")
           \/ empty /\ InitEmpty(t)
           \/ /\ s.class # "invalid" /\ ~empty /\ UNCHANGED call
              /\ ToWeights(t, [Noted(s) EXCEPT !.bias_mem_ = GetBiasHandle(call[t].id)])
        /\ UNCHANGED biasCache

\* Weights without elements are reported before the dimensions are noted.  The
\* checks of OneDnnConvUtil only leave OneDnnConvUtil: Init goes on with the
\* dimensions it lacks, reads the first of an empty vector, which may be zero,
\* or has oneDNN throw.  With valid dimensions, oneDNN may throw while the bias
\* is scaled for the cache, before or after that has its buffer; and the process
\* ends if this buffer (allocate_persistent) or the output is not allocated.
ConvInit(t) ==
    LET s == Shape(t)
    IN  /\ node.kind = "Conv"
        /\ \/ /\ s.class = "no_input" /\ Refused(t)
              /\ kernel' = [kernel EXCEPT !.args = FALSE, !.is_filter_zero_ = TRUE]
              /\ Goto(t, "execute") /\ UNCHANGED biasCache
           \/ /\ s.class = "invalid" /\ Refused(t)
              /\ kernel' \in {Noted(s)} \cup {MarkedEmpty(s, a) : a \in BOOLEAN}
              /\ Goto(t, "execute") /\ UNCHANGED biasCache
           \/ s.class = "no_output" /\ InitEmpty(t) /\ UNCHANGED biasCache
           \/ /\ s.class = "valid"
              /\ call' = [call EXCEPT ![t].addend = IF node.add THEN call[t].id ELSE 0]
              /\ biasCache' = BiasCacheAfter(call[t].id)
              /\ ToWeights(t, [Noted(s) EXCEPT
                    !.bias_mem_ = GetBiasHandle(call[t].id),
                    !.is_format_reordered_ = node.nchw])
           \/ /\ s.class = "valid" /\ node.bias = "scaled" /\ IsEmpty(biasCache)
              /\ biasCache' \in {biasCache, HalfFilled(call[t].id)}
              /\ kernel' = Noted(s) /\ Refused(t) /\ Goto(t, "execute")
           \/ /\ s.class = "valid" /\ Goto(t, "ended")
              /\ UNCHANGED <<kernel, biasCache, call>>

InitShapes(t) ==
    /\ pc[t] = "memory" /\ Locked /\ ~KeepsObjects(Shape(t))
    /\ MatMulInit(t) \/ BatchMatMulInit(t) \/ ConvInit(t)
    /\ UNCHANGED <<node, weightCache, mu_compute_, calls, outcome>>

\* The layer norm keeps no objects: it checks the ranks, allocates an empty
\* output, which may fail, or asks the cache.
LayerNormStart(t) ==
    /\ pc[t] = "memory" /\ ~Locked
    /\ \/ /\ Shape(t).class # "valid" /\ Refused(t) /\ Goto(t, "execute")
       \/ /\ Shape(t).class # "invalid" /\ UNCHANGED call
          /\ Goto(t, IF Shape(t).class = "no_output" THEN "execute" ELSE "weights")
    /\ UNCHANGED <<node, kernel, weightCache, biasCache, mu_compute_, calls, outcome>>

-----------------------------------------------------------------------------
(* The weights: as they are, from the cache, or reordered into tmp_weight_.*)
(* IsEmpty, SetCache and GetCache each take the lock of the manager.       *)

WeightsFrom(t, buffer) == call' = [call EXCEPT ![t].weights = buffer]

\* Whether the execution consults the cache at all.
UsesCache(t) ==
    /\ Prefers(Shape(t)) # "plain"
    /\ node.kind \in {"MatMul", "Conv"} => node.is_filter_const_

CheckWeightCache(t) ==
    /\ pc[t] = "weights"
    /\ \/ /\ UsesCache(t) /\ UNCHANGED call
          /\ Goto(t, IF IsEmpty(weightCache) THEN "set_cache" ELSE "get_cache")
       \/ /\ ~UsesCache(t) /\ Prefers(Shape(t)) # "plain"
          /\ Goto(t, "reorder") /\ UNCHANGED call
       \/ /\ Prefers(Shape(t)) = "plain"
          /\ WeightsFrom(t, Input(call[t].id)) /\ Goto(t, "finish")
    /\ UNCHANGED <<node, kernel, weightCache, biasCache, mu_compute_, calls, outcome>>

\* Mutant: SetCache does not look again whether the cache is empty.
FilledBy_NoRecheck(t) ==
    [by |-> call[t].id, layout |-> Prefers(Shape(t)), value |-> WeightOf(call[t].id)]

\* What SetCache leaves: another thread may have been first.
FilledBy(t) ==
    IF ~IsEmpty(weightCache) THEN weightCache
    ELSE [by |-> call[t].id, layout |-> Prefers(Shape(t)),
          value |-> WeightOf(call[t].id)]

\* Filling the cache, oneDNN may throw, which Init or the layer norm catches,
\* before or after the cache has its buffer; if that cannot be allocated
\* (allocate_persistent), the process ends.
SetCache(t) ==
    /\ pc[t] = "set_cache"
    /\ \/ weightCache' = FilledBy(t) /\ Goto(t, "get_cache") /\ UNCHANGED call
       \/ /\ IsEmpty(weightCache)
          /\ weightCache' \in {weightCache, HalfFilled(call[t].id)}
          /\ Refused(t) /\ Goto(t, "execute")
       \/ /\ IsEmpty(weightCache)
          /\ Goto(t, "ended") /\ UNCHANGED <<weightCache, call>>
    /\ UNCHANGED <<node, kernel, biasCache, mu_compute_, calls, outcome>>

\* The cached data if it has the layout wanted, nullptr otherwise.
GetCache(t) ==
    IF weightCache.layout = Prefers(Shape(t)) THEN Cached(weightCache.by) ELSE NoBuffer

\* Reading the descriptor of a cache that has none fails a check of Tensor::flat,
\* and the layer norm insists on the layout it wants.
UseCache(t) ==
    /\ pc[t] = "get_cache"
    /\ \/ /\ weightCache.layout = "none"
          /\ Goto(t, "ended") /\ UNCHANGED call
       \/ /\ weightCache.layout # "none"
          /\ WeightsFrom(t, GetCache(t))
          /\ Goto(t, CASE GetCache(t) # NoBuffer -> "finish"
                       [] GetCache(t) = NoBuffer -> IF Locked THEN "reorder" ELSE "ended")
    /\ UNCHANGED <<node, kernel, weightCache, biasCache, mu_compute_, calls, outcome>>

ReorderWeights(t) ==
    /\ pc[t] = "reorder"
    /\ kernel' = [kernel EXCEPT
            !.tmp_weight_ = <<Prefers(Shape(t)), WeightOf(call[t].id)>>]
    /\ WeightsFrom(t, Tmp)
    /\ Goto(t, "finish")
    /\ UNCHANGED <<node, weightCache, biasCache, mu_compute_, calls, outcome>>

\* An allocation fails, or oneDNN throws inside the try block of Init or of
\* the layer norm.
InitFails(t) ==
    /\ pc[t] \in {"weights", "reorder", "finish"}
    /\ Refused(t) /\ Goto(t, "execute")
    /\ UNCHANGED <<node, kernel, weightCache, biasCache, mu_compute_, calls, outcome>>

\* The bias value a memory holds.
BiasIn(buffer) ==
    CASE buffer[1] = "input" -> BiasOf(buffer[2])
      [] buffer[1] = "cache" /\ biasCache.layout = "scaled" -> biasCache.value
      [] OTHER -> -1

\* What executing the primitive of kernel k reads and writes.
Executed(t, k) ==
    [output |-> "computed",
     primitive |-> k.primitive, src |-> k.src_mem_, dst |-> k.dst_mem_,
     weights |-> Contents(k, k.weights_mem_), bias |-> BiasIn(k.bias_mem_),
     addend |-> call[t].addend]

WithObjects(t) ==
    [kernel EXCEPT
        !.primitive = <<Shape(t).src, Shape(t).weights, Prefers(Shape(t))>>,
        !.src_mem_ = call[t].id, !.dst_mem_ = call[t].id,
        !.weights_mem_ = call[t].weights,
        !.args = TRUE, !.is_init_ = TRUE]

\* The end of Init: the primitive, the memories and its arguments.  A
\* convolution that reorders its data executes here, between the reorders.
FinishInit(t) ==
    /\ pc[t] = "finish"
    /\ kernel' = IF Locked THEN WithObjects(t) ELSE kernel
    /\ outcome' = IF node.kind = "Conv" /\ kernel.is_format_reordered_
                  THEN [outcome EXCEPT ![t] = Executed(t, WithObjects(t))]
                  ELSE outcome
    /\ Goto(t, "execute")
    /\ UNCHANGED <<node, weightCache, biasCache, mu_compute_, calls, call>>

-----------------------------------------------------------------------------
(* The rest of Compute.                                                    *)

\* The layer norm builds everything from locals.
LayerNormExecuted(t) ==
    [output |-> "computed",
     primitive |-> <<Shape(t).src, Shape(t).weights, Prefers(Shape(t))>>,
     src |-> call[t].id, dst |-> call[t].id,
     weights |-> Contents(kernel, call[t].weights), bias |-> -1, addend |-> 0]

\* Skip primitive execution if the calculation is meaningless, or done.
Skips ==
    \/ kernel.is_input_zero_
    \/ kernel.is_filter_zero_
    \/ node.kind = "Conv" /\ kernel.is_format_reordered_

\* An Init that was left has not given the primitive its arguments: oneDNN throws,
\* and nothing catches it.
Execute(t) ==
    /\ pc[t] = "execute"
    /\ \/ /\ Locked /\ ~Skips /\ ~kernel.args
          /\ Goto(t, "ended") /\ UNCHANGED outcome
       \/ /\ Locked /\ ~Skips => kernel.args
          /\ Goto(t, "done")
          /\ outcome' = [outcome EXCEPT ![t] =
                CASE Locked /\ ~Skips -> Executed(t, kernel)
                  [] ~Locked /\ call[t].ok /\ Shape(t).class = "valid" -> LayerNormExecuted(t)
                  [] OTHER -> @]
    /\ UNCHANGED <<node, kernel, weightCache, biasCache, mu_compute_, calls, call>>

Return(t) ==
    /\ pc[t] = "done"
    /\ mu_compute_' = IF Locked THEN "free" ELSE mu_compute_
    /\ outcome' = [outcome EXCEPT ![t] = NoOutcome]
    /\ call' = [call EXCEPT ![t] = NoCall]
    /\ Goto(t, "idle")
    /\ UNCHANGED <<node, kernel, weightCache, biasCache, calls>>

Running == \A t \in Threads : pc[t] # "ended"

Next ==
    Running /\ \E t \in Threads :
        \/ \E s \in Shapes, forwards \in BOOLEAN : Compute(t, s, forwards)
        \/ SetMemory(t)
        \/ InitShapes(t)
        \/ LayerNormStart(t)
        \/ CheckWeightCache(t)
        \/ SetCache(t)
        \/ UseCache(t)
        \/ ReorderWeights(t)
        \/ InitFails(t)
        \/ FinishInit(t)
        \/ Execute(t)
        \/ Return(t)

Spec == Init /\ [][Next]_vars

-----------------------------------------------------------------------------
(* Properties.                                                             *)

Places == {"idle", "memory", "weights", "set_cache", "get_cache", "reorder",
           "finish", "execute", "done", "ended"}

\* Every variable keeps its type; mu_compute_ is held by exactly the thread
\* inside Compute of a kernel that takes it, and the cached weights are in a
\* layout oneDNN asked for, if the cache was filled to the end.
TypeOK ==
    /\ node \in Nodes
    /\ DOMAIN kernel = DOMAIN NewKernel
    /\ weightCache.by \in 0..calls /\ biasCache.by \in 0..calls
    /\ ~IsEmpty(weightCache) => weightCache.layout \in {"none", "blocked_a", "blocked_b"}
    /\ calls \in 0..MaxCalls
    /\ pc \in [Threads -> Places]
    /\ \A t \in Threads : call[t].shape \in Shapes /\ call[t].id \in 0..calls
    /\ \A t \in Threads : Locked => (mu_compute_ = t <=> pc[t] # "idle")

Finished(t, output) ==
    pc[t] = "done" /\ call[t].ok /\ outcome[t].output = output

\* The primitive an execution ran, whichever execution created it, is the one
\* for the dimensions of this execution, and it read this execution's source,
\* its weights in the layout the primitive expects and its bias, and wrote its
\* output: neither objects kept by InitOrSetMemory nor cached or reordered
\* weights of an earlier execution, with other shapes or values, leak into it
\* (matmul_op.h:290, batch_matmul_op.h:267, conv_ops.h:718).  Left out
\* are a scaled bias and a scale of a layer norm that are not constant, which the
\* code takes from the first execution, a scaled bias whose scaling was cut short,
\* and a fused addend of a kernel that keeps its objects.
ExecutesThisCall ==
    \A t \in Threads : Finished(t, "computed") =>
        LET s == Shape(t)  n == call[t].id  o == outcome[t]
        IN  /\ o.primitive = <<s.src, s.weights, Prefers(s)>>
            /\ o.src = n /\ o.dst = n
            /\ o.weights[1] = Prefers(s)
            /\ Locked \/ node.is_filter_const_ => o.weights[2] = WeightOf(n)
            /\ node.bias = "plain" => o.bias = BiasOf(n)
            /\ node.bias = "scaled" /\ node.is_bias_const_ /\ biasCache.layout = "scaled"
                 => o.bias = BiasOf(n)
            /\ node.add /\ ~node.enable_cache_ => o.addend = n

\* A buffer obtained from GetCache stays the one in the cache, for the threads
\* that are about to execute with it and for the kernel that keeps it: a second
\* SetCache would free it under them (onednn_util.cc:62, layer_norm_op.h:176).
CachedBufferStays ==
    /\ \A t \in Threads :
        call[t].weights[1] = "cache" => call[t].weights[2] = weightCache.by
    /\ kernel.weights_mem_[1] = "cache" => kernel.weights_mem_[2] = weightCache.by

\* Whenever a primitive runs, also in an execution that reports a failure, it reads
\* this execution's source and writes its output: after an Init that was left half
\* way the arguments of an earlier primitive, with buffers TensorFlow may have given
\* to others since, are not there to be executed with (matmul_op.h:366,
\* batch_matmul_op.h:98, conv_ops.h:813).  The exception is a kernel that keeps its
\* objects and cannot allocate its scratchpad or its output (matmul_op.h:322,
\* batch_matmul_op.h:298, conv_ops.h:768): it does write the output of an earlier
\* execution, and reports the failure.
WritesOwnOutput ==
    \A t \in Threads :
        pc[t] = "done" /\ outcome[t].output = "computed" =>
            /\ outcome[t].src = call[t].id
            /\ \/ outcome[t].dst = call[t].id
               \/ KeepsObjects(Shape(t)) /\ ~call[t].ok

\* An execution of valid shapes that reports success has run its primitive:
\* what is skipped is meaningless (matmul_op.h:651, batch_matmul_op.h:318,
\* conv_ops.h:798: "Skip primitive execution if the calculation is
\* meaningless.").
SkipsOnlyMeaningless ==
    \A t \in Threads :
        pc[t] = "done" /\ call[t].ok /\ Shape(t).class = "valid"
        => outcome[t].output # "skipped"

=============================================================================
