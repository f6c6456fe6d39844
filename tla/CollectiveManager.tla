-------------------------- MODULE CollectiveManager --------------------------
(***************************************************************************)
(* ItexAllReduceSend and the CollectiveManager,                            *)
(* itex/core/kernels/gpu/collective_ops.{h,cc}.                            *)
(*                                                                         *)
(* Each op is called on a thread of its own and joins the collective of    *)
(* its key under mu_.  The thread that completes a collective runs it, on  *)
(* no lock but its own ownership of the Collective: it submits barriers    *)
(* and kernels to the tensor streams and the communication streams of all  *)
(* participants, waits for them, and calls everybody's done_callback.      *)
(* Several collectives may be under way on the same devices at once.       *)
(*                                                                         *)
(* A stream is an in-order SYCL queue: its commands are executed by the    *)
(* device, one after the other, concurrently with the threads.  The op's   *)
(* input is written by a kernel on its tensor stream, and its output is    *)
(* read by another one, launched once done_callback has been called.       *)
(***************************************************************************)
EXTENDS AllReduceSlices, FiniteSets, Sequences

CONSTANTS
  Ops,         \* executions of ItexAllReduceSend
  Devices,     \* gpu_device_id
  Cases,       \* the functions from Ops to their arguments considered
  MAX_RANK_SIZE

\* collective_key, gpu_device_id, num_local_devices, data type, reduction_op,
\* NumElements() and vector size of the input, VecBytes / sizeof(T).  A kernel for
\* more than MAX_RANK_SIZE participants is fatal (ITEX_LOG(FATAL)): no op asks for
\* that.
ASSUME CasesAssumption ==
  /\ IsFiniteSet(Ops)
  /\ MAX_RANK_SIZE \in Nat
  /\ \A a \in Cases : \A o \in Ops :
       /\ a[o].gpu_device_id \in Devices
       /\ a[o].num_local_devices \in 1 .. MAX_RANK_SIZE
       /\ a[o].NumElements \in Nat
       /\ a[o].VecSize \in Nat \ {0}
       /\ \A p \in Ops : a[o].data_type = a[p].data_type => a[o].VecSize = a[p].VecSize

VARIABLES
  args,          \* what each op is called with
  collectives_,  \* key -> the Collective being assembled
  thread,        \* the thread of each op: see Thread
  device_to_comm_streams_,   \* the devices that have a communication stream
  queue,         \* the commands of each stream that are not executed yet
  produced,      \* the ops whose input has been computed
  written,       \* op -> the vectors of its output that have been reduced
  callback,      \* op -> the statuses its done_callback was called with
  consumers      \* the ops whose output a kernel launched later reads

vars == <<args, collectives_, thread, device_to_comm_streams_, queue, produced,
          written, callback, consumers>>

Keys == {args[o].key : o \in Ops}

tensor_stream(o) == <<"tensor", args[o].gpu_device_id>>
comm_stream(o) == <<"comm", args[o].gpu_device_id>>
Streams == {"tensor", "comm"} \X Devices

-----------------------------------------------------------------------------
(* SYCL queues *)

\* A command is named by what it is and the op it is for; it is executed when
\* it is at the head of its stream and `after`, the command whose event it
\* waits for, is executed.  A kernel carries the ops whose tensors it uses.
NoEvent == <<"none", "none">>
Command(kind, o, after, ops) ==
  [event |-> <<kind, o>>, after |-> after, ops |-> ops]

Pending(event) ==
  \E s \in Streams : \E k \in 1 .. Len(queue[s]) : queue[s][k].event = event

submit(s, command) == queue' = [queue EXCEPT ![s] = Append(@, command)]

ext_oneapi_submit_barrier(s, kind, o, after) ==
  submit(s, Command(kind, o, after, <<>>))

\* What wait() on the stream waits for.
LastEvent(s) == IF queue[s] = <<>> THEN NoEvent ELSE queue[s][Len(queue[s])].event

-----------------------------------------------------------------------------
(* Collectives *)

\* Of the fields two participants may disagree on, AddToAllReduce fixes the
\* type and AllReduceOp the root_rank.
NewCollective(o) ==
  [key |-> args[o].key, data_type |-> args[o].data_type,
   reduction_op |-> args[o].reduction_op,
   num_local_devices |-> args[o].num_local_devices,
   participants |-> <<>>, status |-> "OK"]

NoCollective == [participants |-> <<>>, status |-> "OK"]

Agrees(c, o) ==
  /\ c.data_type = args[o].data_type
  /\ c.reduction_op = args[o].reduction_op
  /\ c.num_local_devices = args[o].num_local_devices

\* Mutated form: the participants' data types are not compared.
JoinedUnchecked(c, o) == [c EXCEPT !.participants = Append(@, o)]

Joined(c, o) ==
  [c EXCEPT !.status = IF /\ Agrees(c, o)
                          /\ Len(c.participants) < c.num_local_devices
                       THEN @ ELSE "InvalidArgument",
            !.participants = Append(@, o)]

\* Mutated form: one participant more is waited for.
ReadyLate(c) == Len(c.participants) > c.num_local_devices

\* available_participants is the length of participants.
Ready(c) == Len(c.participants) = c.num_local_devices

Launch(c) ==
  [element_count |-> args[c.participants[1]].NumElements,
   VecSize |-> args[c.participants[1]].VecSize,
   reduction_size |-> Len(c.participants), max_workitem |-> 1]

SameNumElements(c) ==
  \A k \in 1 .. Len(c.participants) :
    args[c.participants[k]].NumElements = args[c.participants[1]].NumElements

-----------------------------------------------------------------------------
(* The thread of an op: what it does next, for which participant i of the *)
(* collective it runs, and the event it waits for                          *)

Thread(pc, i, event, c) == [pc |-> pc, i |-> i, event |-> event, collective |-> c]

At(o, pc) == thread[o].pc = pc

\* The participant the thread is at.
participant(o) == thread[o].collective.participants[thread[o].i]

\* The loop goes on with the next participant, or ends and the thread goes on.
NextParticipant(o, pc, then) ==
  IF thread[o].i < Len(thread[o].collective.participants)
  THEN [thread[o] EXCEPT !.pc = pc, !.i = @ + 1]
  ELSE then

\* RunCollective and RunAllReduce, from one loop to the next.
RunCollective(c) ==
  IF c.status = "OK" THEN Thread("BarrierTensor", 1, NoEvent, c)
  ELSE Thread("Callback", 1, NoEvent, c)

RunAllReduce(c) ==
  IF SameNumElements(c) THEN Thread("WaitInputs", 1, NoEvent, c)
  ELSE Thread("Callback", 1, NoEvent, [c EXCEPT !.status = "InvalidArgument"])

Returned == Thread("Returned", 0, NoEvent, NoCollective)

-----------------------------------------------------------------------------
(* The actions *)

\* TensorFlow launches the kernel that computes the op's input (external).
LaunchProducer(o) ==
  /\ At(o, "Idle")
  /\ submit(tensor_stream(o), Command("produce", o, NoEvent, <<o>>))
  /\ thread' = [thread EXCEPT ![o].pc = "Ready"]
  /\ UNCHANGED <<args, collectives_, device_to_comm_streams_, produced, written,
                 callback, consumers>>

\* ComputeAsync cannot allocate the op's output: it calls done with that error, and
\* the CollectiveManager never hears of the op.
AllocateFails(o) ==
  /\ At(o, "Ready")
  /\ callback' = [callback EXCEPT ![o] = Append(@, "ResourceExhausted")]
  /\ thread' = [thread EXCEPT ![o] = Returned]
  /\ UNCHANGED <<args, collectives_, device_to_comm_streams_, queue, produced,
                 written, consumers>>

\* Otherwise it goes on to the end of the critical section of AddParticipant.
AddParticipant(o) ==
  LET key == args[o].key
      c   == Joined(IF key \in DOMAIN collectives_ THEN collectives_[key]
                    ELSE NewCollective(o), o)
  IN  /\ At(o, "Ready")
      /\ IF Ready(c)
         THEN /\ collectives_' = [k \in DOMAIN collectives_ \ {key} |-> collectives_[k]]
              /\ thread' = [thread EXCEPT ![o] = RunCollective(c)]
         ELSE /\ collectives_' = [k \in DOMAIN collectives_ \union {key} |->
                                    IF k = key THEN c ELSE collectives_[k]]
              /\ thread' = [thread EXCEPT ![o] = Returned]
      /\ UNCHANGED <<args, device_to_comm_streams_, queue, produced, written,
                     callback, consumers>>

\* The first loop of RunCollective: GetCommStream, and a barrier on the
\* participant's tensor stream ...
BarrierTensor(o) ==
  /\ At(o, "BarrierTensor")
  /\ device_to_comm_streams_' =
       device_to_comm_streams_ \union {args[participant(o)].gpu_device_id}
  /\ ext_oneapi_submit_barrier(tensor_stream(participant(o)), "input_ready",
                               participant(o), NoEvent)
  /\ thread' = [thread EXCEPT ![o].pc = "BarrierComm"]
  /\ UNCHANGED <<args, collectives_, produced, written, callback, consumers>>

\* ... whose event a barrier on its communication stream waits for.
BarrierComm(o) ==
  /\ At(o, "BarrierComm")
  /\ ext_oneapi_submit_barrier(comm_stream(participant(o)), "input_visible",
                               participant(o), <<"input_ready", participant(o)>>)
  /\ thread' = [thread EXCEPT ![o] =
                  NextParticipant(o, "BarrierTensor", RunAllReduce(@.collective))]
  /\ UNCHANGED <<args, collectives_, device_to_comm_streams_, produced, written,
                 callback, consumers>>

\* A turn of a loop of wait()s: the wait of the turn before has returned.
WaitEach(o, then) ==
  /\ ~Pending(thread[o].event)
  /\ thread' = [thread EXCEPT ![o] =
       IF @.i <= Len(@.collective.participants)
       THEN Thread(@.pc, @.i + 1, LastEvent(comm_stream(participant(o))), @.collective)
       ELSE Thread(then, 1, NoEvent, @.collective)]
  /\ UNCHANGED <<args, collectives_, device_to_comm_streams_, queue, produced,
                 written, callback, consumers>>

\* Mutated form: RunAllReduce does not wait for the inputs of the other ranks.
NoWaitInputs(o) ==
  /\ At(o, "WaitInputs")
  /\ thread' = [thread EXCEPT ![o].pc = "Launch"]
  /\ UNCHANGED <<args, collectives_, device_to_comm_streams_, queue, produced,
                 written, callback, consumers>>

\* RunAllReduce waits for every communication stream ...
WaitInputs(o) == At(o, "WaitInputs") /\ WaitEach(o, "Launch")

\* ... launches a kernel for each rank whose slice is not empty ...
LaunchKernel(o) ==
  LET c == thread[o].collective
  IN  /\ At(o, "Launch")
      /\ IF local_vec_count(Launch(c), thread[o].i - 1) = 0
         THEN UNCHANGED queue
         ELSE submit(comm_stream(participant(o)),
                     Command("reduce", participant(o), NoEvent, c.participants))
      /\ thread' = [thread EXCEPT ![o] =
                      NextParticipant(o, "Launch", Thread("WaitKernels", 1, NoEvent, c))]
      /\ UNCHANGED <<args, collectives_, device_to_comm_streams_, produced,
                     written, callback, consumers>>

\* Mutated form: it does not wait for the kernels.
NoWaitKernels(o) ==
  /\ At(o, "WaitKernels")
  /\ thread' = [thread EXCEPT ![o].pc = "JoinComm"]
  /\ UNCHANGED <<args, collectives_, device_to_comm_streams_, queue, produced,
                 written, callback, consumers>>

\* ... and waits for all of them.
WaitKernels(o) == At(o, "WaitKernels") /\ WaitEach(o, "JoinComm")

\* The last loop of barriers: one on the communication stream ...
JoinComm(o) ==
  /\ At(o, "JoinComm")
  /\ ext_oneapi_submit_barrier(comm_stream(participant(o)), "reduced",
                               participant(o), NoEvent)
  /\ thread' = [thread EXCEPT ![o].pc = "JoinTensor"]
  /\ UNCHANGED <<args, collectives_, device_to_comm_streams_, produced, written,
                 callback, consumers>>

\* ... whose event one on the tensor stream waits for.
JoinTensor(o) ==
  /\ At(o, "JoinTensor")
  /\ ext_oneapi_submit_barrier(tensor_stream(participant(o)), "output_visible",
                               participant(o), <<"reduced", participant(o)>>)
  /\ thread' = [thread EXCEPT ![o] =
       NextParticipant(o, "JoinComm", Thread("Callback", 1, NoEvent, @.collective))]
  /\ UNCHANGED <<args, collectives_, device_to_comm_streams_, produced, written,
                 callback, consumers>>

\* Mutated form: on an error only the caller's own done_callback is called.
CallbackOwn(o) ==
  LET status == thread[o].collective.status
      called == IF status = "OK" THEN participant(o) ELSE o
  IN  /\ At(o, "Callback")
      /\ callback' = [callback EXCEPT ![called] = Append(@, status)]
      /\ thread' = [thread EXCEPT ![o] =
           IF status = "OK" THEN NextParticipant(o, "Callback", Returned) ELSE Returned]
      /\ UNCHANGED <<args, collectives_, device_to_comm_streams_, queue, produced,
                     written, consumers>>

\* done_callback(status) of every participant; then the collective is deleted.
Callback(o) ==
  /\ At(o, "Callback")
  /\ callback' = [callback EXCEPT ![participant(o)] =
                    Append(@, thread[o].collective.status)]
  /\ thread' = [thread EXCEPT ![o] = NextParticipant(o, "Callback", Returned)]
  /\ UNCHANGED <<args, collectives_, device_to_comm_streams_, queue, produced,
                 written, consumers>>

\* TensorFlow launches a kernel that reads the op's output (external).
LaunchConsumer(o) ==
  /\ callback[o] = <<"OK">>
  /\ o \notin consumers
  /\ consumers' = consumers \union {o}
  /\ submit(tensor_stream(o), Command("consume", o, NoEvent, <<o>>))
  /\ UNCHANGED <<args, collectives_, thread, device_to_comm_streams_, produced,
                 written, callback>>

\* The rank of op o in the kernel's collective.
RankOf(ops, o) == (CHOOSE k \in 1 .. Len(ops) : ops[k] = o) - 1

\* The vectors of its slice a kernel reduces: of those, the ones all inputs
\* hold.  An input may be its op's output too (forward_input_or_allocate_output),
\* so that what is written is no input any more.
Reduces(command) ==
  LET c == [participants |-> command.ops]
  IN  {v \in Slice(Launch(c), RankOf(command.ops, command.event[2])) :
         \A k \in 1 .. Len(command.ops) :
           command.ops[k] \in produced /\ v \notin written[command.ops[k]]}

\* The device executes the first command of the stream (external).
Execute(s) ==
  /\ queue[s] # <<>>
  /\ LET command == Head(queue[s])
         kind    == command.event[1]
     IN  /\ ~Pending(command.after)
         /\ produced' = IF kind = "produce" THEN produced \union {command.event[2]}
                        ELSE produced
         /\ written' = [o \in Ops |->
              IF kind = "reduce" /\ \E k \in 1 .. Len(command.ops) : command.ops[k] = o
              THEN written[o] \union Reduces(command) ELSE written[o]]
  /\ queue' = [queue EXCEPT ![s] = Tail(@)]
  /\ UNCHANGED <<args, collectives_, thread, device_to_comm_streams_, callback,
                 consumers>>

-----------------------------------------------------------------------------

Init ==
  /\ args \in Cases
  /\ collectives_ = [k \in {} |-> NoCollective]
  /\ thread = [o \in Ops |-> Thread("Idle", 0, NoEvent, NoCollective)]
  /\ device_to_comm_streams_ = {}
  /\ queue = [s \in Streams |-> <<>>]
  /\ produced = {}
  /\ written = [o \in Ops |-> {}]
  /\ callback = [o \in Ops |-> <<>>]
  /\ consumers = {}

\* What the thread of an op does next.
ThreadStep(o) ==
  \/ AllocateFails(o) \/ AddParticipant(o)
  \/ BarrierTensor(o) \/ BarrierComm(o)
  \/ WaitInputs(o) \/ LaunchKernel(o) \/ WaitKernels(o)
  \/ JoinComm(o) \/ JoinTensor(o)
  \/ Callback(o)

Next ==
  \/ \E o \in Ops : LaunchProducer(o) \/ ThreadStep(o) \/ LaunchConsumer(o)
  \/ \E s \in Streams : Execute(s)

Spec == Init /\ [][Next]_vars

\* Threads keep running and devices keep executing what is submitted to them;
\* TensorFlow may stop at any op.
FairSpec ==
  /\ Spec
  /\ \A o \in Ops : WF_vars(ThreadStep(o))
  /\ \A s \in Streams : WF_vars(Execute(s))

-----------------------------------------------------------------------------
(* Properties *)

\* Types of the variables; a collective in collectives_ has participants, and
\* lacks some.
TypeOK ==
  /\ args \in Cases
  /\ \A k \in DOMAIN collectives_ :
       /\ k \in Keys
       /\ collectives_[k].participants \in Seq(Ops)
       /\ Len(collectives_[k].participants) \in 1 .. collectives_[k].num_local_devices - 1
  /\ \A o \in Ops :
       /\ thread[o].i \in 0 .. MAX_RANK_SIZE + 1
       /\ thread[o].collective.participants \in Seq(Ops)
       /\ callback[o] \in Seq({"OK", "InvalidArgument", "ResourceExhausted"})
       /\ written[o] \subseteq 0 .. args[o].NumElements
  /\ device_to_comm_streams_ \subseteq Devices
  /\ DOMAIN queue = Streams
  /\ produced \subseteq Ops
  /\ consumers \subseteq Ops

\* The whole of the op's output.
Output(o) ==
  0 .. total_vec_count([element_count |-> args[o].NumElements,
                        VecSize |-> args[o].VecSize]) - 1

\* collective_ops.cc:32-34 and .h:120-122: "`done_callback` is not called until
\* the next kernel launched on `stream` would see the data": whenever a kernel
\* launched after an OK callback runs, every rank has reduced its slice of that
\* output, from inputs that had all been computed.
ResultVisible ==
  [][\A o \in Ops :
       Pending(<<"consume", o>>) /\ ~Pending(<<"consume", o>>)'
         => written[o] = Output(o)]_vars

\* .h:130-136: input and output are kept live "until `done_callback` is called",
\* and no longer: from then on no kernel of the collective, on whichever
\* device, is still to use them.
BuffersIdleAfterCallback ==
  \A o \in Ops, s \in Streams :
    callback[o] # <<>> =>
      \A k \in 1 .. Len(queue[s]) :
        queue[s][k].event[1] = "reduce" =>
          \A j \in 1 .. Len(queue[s][k].ops) : queue[s][k].ops[j] # o

\* The ops of the key make up exactly one collective, whoever calls first.
OneCollective(key) ==
  LET ops == {o \in Ops : args[o].key = key}
  IN  \A o \in ops : args[o].num_local_devices = Cardinality(ops)

\* The op could not allocate its output.
Failed(o) == callback[o] = <<"ResourceExhausted">>

\* An op is called back once.  The participants of a collective get the same status,
\* and that is OK exactly if they agree on data type, reduction and number of
\* elements: nobody goes on with a result another one was refused, or one an op of
\* the key that could not allocate its output has no part in.
AnsweredAlike ==
  \A o \in Ops :
    /\ Len(callback[o]) <= 1
    /\ OneCollective(args[o].key) /\ callback[o] # <<>> /\ ~Failed(o) =>
         LET others == {p \in Ops : args[p].key = args[o].key}
         IN  /\ \A p \in others : callback[p] # <<>> => callback[p] = callback[o]
             /\ callback[o] = <<"OK">> <=>
                  \A p \in others :
                    /\ args[p].data_type = args[o].data_type
                    /\ args[p].reduction_op = args[o].reduction_op
                    /\ args[p].NumElements = args[o].NumElements

\* Once all ops of a key have been called, each of them is called back, however
\* the collectives under way share the devices, unless one of them cannot allocate
\* its output: then the others wait for it for ever (collective_ops.cc:89-92).
EveryoneAnswered ==
  \A o \in Ops :
    (/\ OneCollective(args[o].key)
     /\ \A p \in Ops : args[p].key = args[o].key => ~At(p, "Idle"))
      ~> \/ callback[o] # <<>>
         \/ \E p \in Ops : args[p].key = args[o].key /\ Failed(p)

=============================================================================
