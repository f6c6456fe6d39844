----------------------- MODULE CollectiveManagerProofs -----------------------
(***************************************************************************)
(* The properties of CollectiveManager, for any number of ops, devices and *)
(* collectives under way.                                                  *)
(*                                                                         *)
(* Control says which op is in which collective, and where the callbacks   *)
(* stand.  The other invariants are about the streams: which kernels are   *)
(* still to be executed (Kernels), which inputs and outputs are complete   *)
(* (Inputs, Outputs) and who reads them (Consumers); and about the         *)
(* answers: whose arguments a collective has (Founders), and that nobody   *)
(* is answered before all have joined (Complete).                          *)
(***************************************************************************)
EXTENDS CollectiveManager, FiniteSetTheorems, TLAPS

Kinds == {"produce", "input_ready", "input_visible", "reduce", "reduced",
          "output_visible", "consume"}
Commands == [event : Kinds \X Ops, after : {NoEvent} \union (Kinds \X Ops),
             ops : Seq(Ops)]

Statuses == {"OK", "InvalidArgument"}
Answers == Statuses \union {"ResourceExhausted"}

\* The places of a thread: before it joins, in the two loops of waits, in the
\* loops over the participants, and after.
Joining == {"Idle", "Ready"}
Waiting == {"WaitInputs", "WaitKernels"}
Looping == {"BarrierTensor", "BarrierComm", "Launch", "JoinComm", "JoinTensor", "Callback"}
Running == Waiting \union Looping

\* The participants of the collective the thread of o runs.
Members(o) == thread[o].collective.participants
Ranks(o) == 1 .. Len(Members(o))

-----------------------------------------------------------------------------
(* The inductive invariant *)

\* All participants agree with the collective on type, reduction and number.
AllAgree(c) == \A j \in 1 .. Len(c.participants) : Agrees(c, c.participants[j])

\* A Collective: its participants are distinct ops of its key.
Collective(c) ==
  /\ c = [key |-> c.key, data_type |-> c.data_type, reduction_op |-> c.reduction_op,
          num_local_devices |-> c.num_local_devices,
          participants |-> c.participants, status |-> c.status]
  /\ c.participants \in Seq(Ops)
  /\ \A j \in 1 .. Len(c.participants) : args[c.participants[j]].key = c.key
  /\ \A j, k \in 1 .. Len(c.participants) :
       c.participants[j] = c.participants[k] => j = k
  /\ c.num_local_devices \in 1 .. MAX_RANK_SIZE
  /\ c.status \in Statuses

\* The variables have their types.
Types ==
  /\ args \in Cases
  /\ thread = [o \in Ops |-> Thread(thread[o].pc, thread[o].i, thread[o].event,
                                    thread[o].collective)]
  /\ \A o \in Ops : thread[o].pc \in Joining \union Running \union {"Returned"}
  /\ device_to_comm_streams_ \subseteq Devices
  /\ queue \in [Streams -> Seq(Commands)]
  /\ produced \subseteq Ops
  /\ written = [o \in Ops |-> written[o]]
  /\ callback \in [Ops -> Seq(Answers)]
  /\ consumers \subseteq Ops

\* A thread that runs no collective has none.
NotRunning(o) ==
  thread[o].pc \notin Running => thread[o].i = 0 /\ Members(o) = <<>>

\* A collective that is assembled lacks participants; those it has wait, and are
\* in no collective that runs.
Assembling ==
  \A k \in DOMAIN collectives_ :
    LET c == collectives_[k]
    IN  /\ Collective(c)
        /\ c.key = k
        /\ Len(c.participants) \in 1 .. c.num_local_devices - 1
        /\ c.status = "OK" <=> AllAgree(c)
        /\ \A j \in 1 .. Len(c.participants) :
             /\ thread[c.participants[j]].pc \notin Joining
             /\ callback[c.participants[j]] = <<>>
             /\ \A r \in Ops : \A m \in Ranks(r) : Members(r)[m] # c.participants[j]

\* A collective that runs is complete.  The participants the last loop has been
\* at, and no others, have been called back, with its status.
RunsCollective(o) ==
  LET c == thread[o].collective
      i == thread[o].i
  IN  thread[o].pc \in Running =>
        /\ Collective(c)
        /\ Len(c.participants) = c.num_local_devices
        /\ i \in 1 .. Len(c.participants) + (IF thread[o].pc \in Waiting THEN 1 ELSE 0)
        /\ IF thread[o].pc = "Callback"
           THEN c.status = "OK" <=> AllAgree(c) /\ SameNumElements(c)
           ELSE c.status = "OK" /\ AllAgree(c)
        /\ thread[o].pc \notin {"BarrierTensor", "BarrierComm", "Callback"} =>
             SameNumElements(c)
        /\ \A j \in Ranks(o) :
             /\ thread[Members(o)[j]].pc \notin Joining
             /\ callback[Members(o)[j]] =
                  IF thread[o].pc = "Callback" /\ j < i THEN <<c.status>> ELSE <<>>

\* An op is in one collective only.
Disjoint ==
  \A r, q \in Ops : \A j \in Ranks(r), k \in Ranks(q) :
    Members(r)[j] = Members(q)[k] => r = q

\* An op that has not joined has not been called back.
NotJoined(o) == thread[o].pc \in Joining => callback[o] = <<>>

Control ==
  /\ Types
  /\ Assembling
  /\ Disjoint
  /\ \A o \in Ops : NotRunning(o) /\ RunsCollective(o) /\ NotJoined(o)

\* A kernel that is not executed yet belongs to a collective that launches its
\* kernels, or waits for them and has not passed that stream: it is at its turn,
\* and the event it waits for comes after the kernel.
Launched(s, k, r, j) ==
  /\ queue[s][k].ops = Members(r)
  /\ queue[s][k].event[2] = Members(r)[j]
  /\ s = comm_stream(Members(r)[j])
  /\ \/ thread[r].pc = "Launch" /\ j < thread[r].i
     \/ /\ thread[r].pc = "WaitKernels"
        /\ \/ j >= thread[r].i
           \/ /\ j = thread[r].i - 1
              /\ \E m \in k .. Len(queue[s]) : queue[s][m].event = thread[r].event

Kernels ==
  \A s \in Streams : \A k \in 1 .. Len(queue[s]) :
    queue[s][k].event[1] = "reduce" =>
      \E r \in Ops : \E j \in Ranks(r) : Launched(s, k, r, j)

\* The event of the command with this name is to come, on stream s at position k.
Queued(s, k, kind, p) == queue[s][k].event = <<kind, p>>

\* The input of p has been computed, or is to be, ...
Producing(p) ==
  \/ p \in produced
  \/ \E k \in 1 .. Len(queue[tensor_stream(p)]) : Queued(tensor_stream(p), k, "produce", p)

\* ... before the barrier on its tensor stream, ...
InputReady(p) ==
  \/ p \in produced
  \/ \E m \in 1 .. Len(queue[tensor_stream(p)]) :
       /\ Queued(tensor_stream(p), m, "input_ready", p)
       /\ \E k \in 1 .. m - 1 : Queued(tensor_stream(p), k, "produce", p)

\* ... which the barrier on its communication stream waits for.
VisibleAt(p, m) ==
  /\ Queued(comm_stream(p), m, "input_visible", p)
  /\ queue[comm_stream(p)][m].after = <<"input_ready", p>>

Visible(p) ==
  \/ p \in produced
  \/ \E m \in 1 .. Len(queue[comm_stream(p)]) : VisibleAt(p, m)

\* That barrier comes before the event.
VisibleBefore(p, event) ==
  \/ p \in produced
  \/ \E m \in 1 .. Len(queue[comm_stream(p)]) :
       /\ VisibleAt(p, m)
       /\ \E n \in m .. Len(queue[comm_stream(p)]) : queue[comm_stream(p)][n].event = event

\* The loop of waits has left the stream behind, or is at it.
InputVisible(r, j) ==
  IF thread[r].pc = "WaitInputs" /\ j < thread[r].i
  THEN \/ Members(r)[j] \in produced
       \/ j = thread[r].i - 1 /\ VisibleBefore(Members(r)[j], thread[r].event)
  ELSE Visible(Members(r)[j])

\* How far the inputs of the participants are, by the place of the thread.
InputsOf(r, j) ==
  /\ \/ thread[r].pc = "BarrierTensor" /\ j < thread[r].i
     \/ thread[r].pc = "BarrierComm" /\ j <= thread[r].i
     \/ thread[r].pc = "WaitInputs"
     => InputReady(Members(r)[j])
  /\ \/ thread[r].pc \in {"BarrierTensor", "BarrierComm"} /\ j < thread[r].i
     \/ thread[r].pc = "WaitInputs"
     => InputVisible(r, j)
  /\ thread[r].pc \in {"Launch", "WaitKernels"} => Members(r)[j] \in produced

Inputs ==
  /\ \A o \in Ops : thread[o].pc # "Idle" => Producing(o)
  /\ \A r \in Ops : \A j \in Ranks(r) : InputsOf(r, j)

\* The kernel of rank j - 1 has reduced its slice, or is still to be executed.
SliceReduced(r, j) ==
  \/ Slice(Launch(thread[r].collective), j - 1) \subseteq written[Members(r)[1]]
  \/ Pending(<<"reduce", Members(r)[j]>>)

\* How far the outputs of the participants are, by the place of the thread.
OutputsOf(r, j) ==
  /\ thread[r].pc \in {"BarrierTensor", "BarrierComm", "WaitInputs"} =>
       written[Members(r)[j]] = {}
  /\ thread[r].pc \in {"Launch", "WaitKernels"} =>
       written[Members(r)[j]] = written[Members(r)[1]]
  /\ \/ thread[r].pc = "Launch" /\ j < thread[r].i
     \/ thread[r].pc = "WaitKernels"
     => SliceReduced(r, j)
  /\ \/ thread[r].pc \in {"JoinComm", "JoinTensor"}
     \/ thread[r].pc = "Callback" /\ thread[r].collective.status = "OK"
     => written[Members(r)[j]] = Output(Members(r)[j])

Outputs ==
  /\ \A o \in Ops :
       /\ written[o] \subseteq Output(o)
       /\ callback[o] = <<"OK">> => written[o] = Output(o)
       /\ thread[o].pc \in Joining => written[o] = {}
  /\ \A k \in DOMAIN collectives_ : \A j \in 1 .. Len(collectives_[k].participants) :
       written[collectives_[k].participants[j]] = {}
  /\ \A r \in Ops : \A j \in Ranks(r) : OutputsOf(r, j)

\* Only an op that has been called back has consumers.
Consumers ==
  \A s \in Streams : \A k \in 1 .. Len(queue[s]) :
    queue[s][k].event[1] = "consume" => callback[queue[s][k].event[2]] = <<"OK">>

\* A collective has the arguments of the op that made it, its first participant.
Founders ==
  /\ \A k \in DOMAIN collectives_ :
       Agrees(collectives_[k], collectives_[k].participants[1])
  /\ \A r \in Ops : thread[r].pc \in Running => Agrees(thread[r].collective, Members(r)[1])

\* Where the ops of a key make up one collective, all of them have joined once one
\* is called back with the status of a collective.
Complete ==
  \A o, p \in Ops :
    /\ OneCollective(args[o].key) /\ args[p].key = args[o].key
    /\ callback[o] # <<>> /\ ~Failed(o)
    => thread[p].pc \notin Joining

IInv ==
  /\ Control /\ Kernels
  /\ Inputs /\ Outputs /\ Consumers
  /\ Founders /\ Complete /\ AnsweredAlike

-----------------------------------------------------------------------------
(* What a step does to the threads and to the streams *)

\* The thread of o goes on, the others stay.
Moved(o, pc, i, e, c) ==
  /\ thread' = [p \in Ops |-> Thread(thread'[p].pc, thread'[p].i, thread'[p].event,
                                     thread'[p].collective)]
  /\ thread'[o].pc = pc
  /\ thread'[o].i = i
  /\ thread'[o].event = e
  /\ thread'[o].collective = c
  /\ \A p \in Ops \ {o} : thread'[p] = thread[p]

\* Assigning to thread[o], as a whole or to its pc.
LEMMA Move ==
  ASSUME Types, NEW o \in Ops, NEW pc, NEW i, NEW e, NEW c,
         thread' = [thread EXCEPT ![o] = Thread(pc, i, e, c)]
  PROVE  Moved(o, pc, i, e, c)
<1>1. /\ thread'[o] = Thread(pc, i, e, c)
      /\ \A p \in Ops \ {o} : thread'[p] = thread[p]
      /\ thread' = [p \in Ops |-> thread'[p]]
  BY DEF Types
<1>2. /\ thread'[o].pc = pc /\ thread'[o].i = i
      /\ thread'[o].event = e /\ thread'[o].collective = c
  BY <1>1 DEF Thread
<1>3. thread'[o] = Thread(thread'[o].pc, thread'[o].i, thread'[o].event,
                          thread'[o].collective)
  BY <1>1, <1>2
<1>4. \A p \in Ops \ {o} :
        thread'[p] = Thread(thread'[p].pc, thread'[p].i, thread'[p].event,
                            thread'[p].collective)
  BY <1>1 DEF Types
<1>5. \A p \in Ops :
        thread'[p] = Thread(thread'[p].pc, thread'[p].i, thread'[p].event,
                            thread'[p].collective)
  BY <1>3, <1>4
<1>. QED  BY <1>1, <1>2, <1>5 DEF Moved

\* Changing the program counter of one op moves only that op.
LEMMA MovePc ==
  ASSUME Types, NEW o \in Ops, NEW pc, thread' = [thread EXCEPT ![o].pc = pc]
  PROVE  Moved(o, pc, thread[o].i, thread[o].event, thread[o].collective)
<1>1. thread[o] = Thread(thread[o].pc, thread[o].i, thread[o].event, thread[o].collective)
  BY DEF Types
<1>2. [thread[o] EXCEPT !.pc = pc] =
        Thread(pc, thread[o].i, thread[o].event, thread[o].collective)
  BY <1>1 DEF Thread
<1>3. thread' = [thread EXCEPT ![o] = [thread[o] EXCEPT !.pc = pc]]
  OBVIOUS
<1>. QED  BY <1>2, <1>3, Move

\* Where a loop over the participants goes on.
LEMMA Looped ==
  ASSUME Types, NEW o \in Ops, NEW pc, NEW then
  PROVE  NextParticipant(o, pc, then) =
           IF thread[o].i < Len(Members(o))
           THEN Thread(pc, thread[o].i + 1, thread[o].event, thread[o].collective)
           ELSE then
<1>1. thread[o] = Thread(thread[o].pc, thread[o].i, thread[o].event, thread[o].collective)
  BY DEF Types
<1>2. ASSUME NEW x
      PROVE  [thread[o] EXCEPT !.pc = pc, !.i = x] =
               Thread(pc, x, thread[o].event, thread[o].collective)
  <2>1. [thread[o] EXCEPT !.pc = pc] =
          Thread(pc, thread[o].i, thread[o].event, thread[o].collective)
    BY <1>1 DEF Thread
  <2>2. [Thread(pc, thread[o].i, thread[o].event, thread[o].collective) EXCEPT !.i = x] =
          Thread(pc, x, thread[o].event, thread[o].collective)
    BY DEF Thread
  <2>3. [thread[o] EXCEPT !.pc = pc, !.i = x] =
          [[thread[o] EXCEPT !.pc = pc] EXCEPT !.i = x]
    BY <1>1 DEF Thread
  <2>. QED  BY <2>1, <2>2, <2>3
<1>3. [thread[o] EXCEPT !.pc = pc, !.i = @ + 1] =
        [thread[o] EXCEPT !.pc = pc, !.i = thread[o].i + 1]
  BY <1>1
<1>4. [thread[o] EXCEPT !.pc = pc, !.i = @ + 1] =
        Thread(pc, thread[o].i + 1, thread[o].event, thread[o].collective)
  BY <1>2, <1>3
<1>. QED  BY <1>4 DEF NextParticipant, Members

\* The command is appended to stream s.
Submitted(s, command) ==
  /\ s \in Streams
  /\ queue' \in [Streams -> Seq(Commands)]
  /\ \A t \in Streams \ {s} : queue'[t] = queue[t]
  /\ Len(queue'[s]) = Len(queue[s]) + 1
  /\ \A k \in 1 .. Len(queue[s]) : queue'[s][k] = queue[s][k]
  /\ queue'[s][Len(queue[s]) + 1] = command

\* A submission appends to one stream and leaves the others alone.
LEMMA Submit ==
  ASSUME Types, NEW s \in Streams, NEW command \in Commands, submit(s, command)
  PROVE  Submitted(s, command)
<1>1. queue[s] \in Seq(Commands) /\ queue'[s] = Append(queue[s], command)
  BY DEF Types, submit
<1>2. \A t \in Streams \ {s} : queue'[t] = queue[t]
  BY DEF Types, submit
<1>3. queue' = [t \in Streams |-> queue'[t]]
  BY DEF Types, submit
<1>4. \A t \in Streams : queue'[t] \in Seq(Commands)
  <2>1. queue'[s] \in Seq(Commands)
    BY <1>1
  <2>2. \A t \in Streams \ {s} : queue'[t] \in Seq(Commands)
    BY <1>2 DEF Types
  <2>. QED  BY <2>1, <2>2
<1>5. /\ Len(queue'[s]) = Len(queue[s]) + 1
      /\ \A k \in 1 .. Len(queue[s]) : queue'[s][k] = queue[s][k]
      /\ queue'[s][Len(queue[s]) + 1] = command
  BY <1>1
<1>. QED  BY <1>2, <1>3, <1>4, <1>5 DEF Submitted

\* The first command of stream s is executed.
Executed(s) ==
  /\ s \in Streams
  /\ queue' \in [Streams -> Seq(Commands)]
  /\ \A t \in Streams \ {s} : queue'[t] = queue[t]
  /\ Len(queue[s]) >= 1
  /\ Len(queue'[s]) = Len(queue[s]) - 1
  /\ \A k \in 1 .. Len(queue'[s]) : queue'[s][k] = queue[s][k + 1]
  /\ Head(queue[s]) = queue[s][1]

\* Execute removes the first command of one stream, whose event has happened.
LEMMA Executes ==
  ASSUME Types, NEW s \in Streams, Execute(s)
  PROVE  Executed(s)
<1>1. queue[s] \in Seq(Commands) /\ queue'[s] = Tail(queue[s]) /\ queue[s] # <<>>
  BY DEF Types, Execute
<1>2. \A t \in Streams \ {s} : queue'[t] = queue[t]
  BY DEF Types, Execute
<1>3. queue' = [t \in Streams |-> queue'[t]]
  BY DEF Types, Execute
<1>4. \A t \in Streams : queue'[t] \in Seq(Commands)
  <2>1. queue'[s] \in Seq(Commands)
    BY <1>1
  <2>2. \A t \in Streams \ {s} : queue'[t] \in Seq(Commands)
    BY <1>2 DEF Types
  <2>. QED  BY <2>1, <2>2
<1>5. /\ Len(queue[s]) >= 1 /\ Len(queue'[s]) = Len(queue[s]) - 1
      /\ \A k \in 1 .. Len(queue'[s]) : queue'[s][k] = queue[s][k + 1]
      /\ Head(queue[s]) = queue[s][1]
  BY <1>1
<1>. QED  BY <1>2, <1>3, <1>4, <1>5 DEF Executed

\* The streams of an op, and what may be submitted to them.
LEMMA StreamsOf ==
  ASSUME Types, NEW o \in Ops
  PROVE  tensor_stream(o) \in Streams /\ comm_stream(o) \in Streams
<1>1. args[o].gpu_device_id \in Devices
  BY CasesAssumption DEF Types
<1>. QED  BY <1>1 DEF tensor_stream, comm_stream, Streams

\* The empty list is a list of ops.
LEMMA NoOps == <<>> \in Seq(Ops)
  OBVIOUS

\* A command has the fields it was made with.
LEMMA CommandType ==
  ASSUME NEW kind \in Kinds, NEW o \in Ops, NEW after \in {NoEvent} \union (Kinds \X Ops),
         NEW ops \in Seq(Ops)
  PROVE  /\ Command(kind, o, after, ops) \in Commands
         /\ Command(kind, o, after, ops).event = <<kind, o>>
         /\ Command(kind, o, after, ops).after = after
         /\ Command(kind, o, after, ops).ops = ops
  BY DEF Command, Commands

-----------------------------------------------------------------------------
(* The steps of the threads *)

\* The participant a thread is at, and those its collective has.
LEMMA AtParticipant ==
  ASSUME Control, NEW o \in Ops, thread[o].pc \in Running
  PROVE  /\ Members(o) \in Seq(Ops)
         /\ \A j \in Ranks(o) : Members(o)[j] \in Ops
         /\ thread[o].i \in Nat \ {0}
         /\ Len(Members(o)) \in Nat \ {0}
         /\ thread[o].pc \in Waiting => thread[o].i <= Len(Members(o)) + 1
         /\ thread[o].pc \in Looping =>
              /\ thread[o].i \in Ranks(o)
              /\ participant(o) = Members(o)[thread[o].i]
              /\ participant(o) \in Ops
<1>1. /\ Members(o) \in Seq(Ops)
      /\ Len(Members(o)) = thread[o].collective.num_local_devices
      /\ thread[o].collective.num_local_devices \in 1 .. MAX_RANK_SIZE
      /\ thread[o].i \in 1 .. Len(Members(o)) + (IF thread[o].pc \in Waiting THEN 1 ELSE 0)
  BY DEF Control, RunsCollective, Collective, Members
<1>2. Len(Members(o)) \in Nat \ {0}
  BY <1>1, CasesAssumption
<1>3. thread[o].pc \in Looping => thread[o].pc \notin Waiting
  BY DEF Looping, Waiting
<1>4. /\ \A j \in Ranks(o) : Members(o)[j] \in Ops
      /\ thread[o].i \in Nat \ {0}
      /\ thread[o].pc \in Waiting => thread[o].i <= Len(Members(o)) + 1
      /\ thread[o].pc \notin Waiting => thread[o].i \in Ranks(o)
  BY <1>1, <1>2 DEF Ranks
<1>. QED  BY <1>1, <1>2, <1>3, <1>4 DEF participant, Members

\* What LaunchProducer does to the variables.
LEMMA LaunchProducerDoes ==
  ASSUME Control, NEW o \in Ops, LaunchProducer(o)
  PROVE  /\ thread[o].pc = "Idle"
         /\ Moved(o, "Ready", thread[o].i, thread[o].event, thread[o].collective)
         /\ Submitted(tensor_stream(o), Command("produce", o, NoEvent, <<o>>))
<1>1. Command("produce", o, NoEvent, <<o>>) \in Commands
  <2>1. <<o>> \in Seq(Ops)
    OBVIOUS
  <2>. QED  BY <2>1, CommandType DEF Kinds
<1>. QED  BY <1>1, MovePc, Submit, StreamsOf DEF LaunchProducer, At, Control

\* What AllocateFails does to the variables.
LEMMA AllocateFailsDoes ==
  ASSUME Control, NEW o \in Ops, AllocateFails(o)
  PROVE  /\ thread[o].pc = "Ready"
         /\ Moved(o, "Returned", 0, NoEvent, NoCollective)
         /\ callback' \in [Ops -> Seq(Answers)]
         /\ callback[o] = <<>> /\ callback'[o] = <<"ResourceExhausted">>
         /\ \A p \in Ops \ {o} : callback'[p] = callback[p]
<1>1. thread[o].pc = "Ready" /\ thread' = [thread EXCEPT ![o] = Thread("Returned", 0, NoEvent, NoCollective)]
  BY DEF AllocateFails, At, Returned
<1>2. callback[o] = <<>> /\ callback \in [Ops -> Seq(Answers)]
  BY <1>1 DEF Control, NotJoined, Types, Joining
<1>3. Append(<<>>, "ResourceExhausted") = <<"ResourceExhausted">>
      /\ <<"ResourceExhausted">> \in Seq(Answers)
  BY DEF Answers
<1>4. callback' = [callback EXCEPT ![o] = <<"ResourceExhausted">>]
  BY <1>2, <1>3 DEF AllocateFails
<1>. QED  BY <1>1, <1>2, <1>3, <1>4, Move DEF Control

\* The collective o makes or joins.
Assembled(o) ==
  Joined(IF args[o].key \in DOMAIN collectives_ THEN collectives_[args[o].key]
         ELSE NewCollective(o), o)

\* What AddParticipant does to the variables.
LEMMA AddParticipantDoes ==
  ASSUME Control, NEW o \in Ops, AddParticipant(o)
  PROVE  /\ thread[o].pc = "Ready"
         /\ Ready(Assembled(o)) =>
              /\ collectives_' = [k \in DOMAIN collectives_ \ {args[o].key} |-> collectives_[k]]
              /\ Moved(o, IF Assembled(o).status = "OK" THEN "BarrierTensor" ELSE "Callback",
                       1, NoEvent, Assembled(o))
         /\ ~Ready(Assembled(o)) =>
              /\ collectives_' = [k \in DOMAIN collectives_ \union {args[o].key} |->
                                    IF k = args[o].key THEN Assembled(o) ELSE collectives_[k]]
              /\ Moved(o, "Returned", 0, NoEvent, NoCollective)
<1>1. RunCollective(Assembled(o)) =
        Thread(IF Assembled(o).status = "OK" THEN "BarrierTensor" ELSE "Callback",
               1, NoEvent, Assembled(o))
  BY DEF RunCollective
<1>2. CASE Ready(Assembled(o))
  <2>1. thread' = [thread EXCEPT ![o] = RunCollective(Assembled(o))]
    BY <1>2 DEF AddParticipant, Assembled
  <2>. QED  BY <2>1, <1>1, <1>2, Move DEF AddParticipant, Assembled, At, Control
<1>3. CASE ~Ready(Assembled(o))
  <2>1. thread' = [thread EXCEPT ![o] = Thread("Returned", 0, NoEvent, NoCollective)]
    BY <1>3 DEF AddParticipant, Assembled, Returned
  <2>. QED  BY <2>1, <1>3, Move DEF AddParticipant, Assembled, At, Control
<1>. QED  BY <1>2, <1>3

\* What BarrierTensor does to the variables.
LEMMA BarrierTensorDoes ==
  ASSUME Control, NEW o \in Ops, BarrierTensor(o)
  PROVE  /\ thread[o].pc = "BarrierTensor"
         /\ Moved(o, "BarrierComm", thread[o].i, thread[o].event, thread[o].collective)
         /\ Submitted(tensor_stream(participant(o)),
                      Command("input_ready", participant(o), NoEvent, <<>>))
         /\ participant(o) \in Ops
<1>1. thread[o].pc = "BarrierTensor" /\ participant(o) \in Ops
  BY AtParticipant DEF BarrierTensor, At, Running, Looping
<1>2. Command("input_ready", participant(o), NoEvent, <<>>) \in Commands
  BY <1>1, NoOps, CommandType DEF Kinds
<1>. QED
  BY <1>1, <1>2, MovePc, Submit, StreamsOf
     DEF BarrierTensor, ext_oneapi_submit_barrier, Control

\* What BarrierComm does to the variables.
LEMMA BarrierCommDoes ==
  ASSUME Control, NEW o \in Ops, BarrierComm(o)
  PROVE  /\ thread[o].pc = "BarrierComm"
         /\ Submitted(comm_stream(participant(o)),
                      Command("input_visible", participant(o),
                              <<"input_ready", participant(o)>>, <<>>))
         /\ participant(o) \in Ops
         /\ \/ /\ thread[o].i < Len(Members(o))
               /\ Moved(o, "BarrierTensor", thread[o].i + 1, thread[o].event,
                        thread[o].collective)
            \/ /\ thread[o].i = Len(Members(o)) /\ SameNumElements(thread[o].collective)
               /\ Moved(o, "WaitInputs", 1, NoEvent, thread[o].collective)
            \/ /\ thread[o].i = Len(Members(o)) /\ ~SameNumElements(thread[o].collective)
               /\ Moved(o, "Callback", 1, NoEvent,
                        [thread[o].collective EXCEPT !.status = "InvalidArgument"])
<1>1. /\ thread[o].pc = "BarrierComm" /\ participant(o) \in Ops
      /\ thread[o].i \in Nat /\ Len(Members(o)) \in Nat /\ thread[o].i <= Len(Members(o))
  BY AtParticipant DEF BarrierComm, At, Running, Looping, Ranks
<1>2. Command("input_visible", participant(o), <<"input_ready", participant(o)>>, <<>>)
        \in Commands
  BY <1>1, NoOps, CommandType DEF Kinds
<1>3. Submitted(comm_stream(participant(o)),
                Command("input_visible", participant(o),
                        <<"input_ready", participant(o)>>, <<>>))
  BY <1>1, <1>2, Submit, StreamsOf DEF BarrierComm, ext_oneapi_submit_barrier, Control
<1>4. thread' = [thread EXCEPT ![o] =
        IF thread[o].i < Len(Members(o))
        THEN Thread("BarrierTensor", thread[o].i + 1, thread[o].event, thread[o].collective)
        ELSE RunAllReduce(thread[o].collective)]
  BY Looped DEF BarrierComm, Control
<1>5. CASE thread[o].i < Len(Members(o))
  BY <1>1, <1>3, <1>4, <1>5, Move DEF Control
<1>6. CASE ~(thread[o].i < Len(Members(o))) /\ SameNumElements(thread[o].collective)
  <2>1. thread' = [thread EXCEPT ![o] = Thread("WaitInputs", 1, NoEvent, thread[o].collective)]
    BY <1>4, <1>6 DEF RunAllReduce
  <2>2. Moved(o, "WaitInputs", 1, NoEvent, thread[o].collective)
    BY <2>1, Move DEF Control
  <2>3. thread[o].i = Len(Members(o))
    BY <1>1, <1>6
  <2>. QED  BY <1>1, <1>3, <1>6, <2>2, <2>3
<1>7. CASE ~(thread[o].i < Len(Members(o))) /\ ~SameNumElements(thread[o].collective)
  <2>1. thread' = [thread EXCEPT ![o] =
          Thread("Callback", 1, NoEvent,
                 [thread[o].collective EXCEPT !.status = "InvalidArgument"])]
    BY <1>4, <1>7 DEF RunAllReduce
  <2>2. Moved(o, "Callback", 1, NoEvent,
              [thread[o].collective EXCEPT !.status = "InvalidArgument"])
    BY <2>1, Move DEF Control
  <2>3. thread[o].i = Len(Members(o))
    BY <1>1, <1>7
  <2>. QED  BY <1>1, <1>3, <1>7, <2>2, <2>3
<1>. QED  BY <1>5, <1>6, <1>7

\* What WaitEach does to the variables.
LEMMA WaitEachDoes ==
  ASSUME Control, NEW o \in Ops, thread[o].pc \in Waiting, NEW then, WaitEach(o, then)
  PROVE  /\ ~Pending(thread[o].event)
         /\ \/ /\ thread[o].i \in Ranks(o)
               /\ Members(o)[thread[o].i] \in Ops
               /\ Moved(o, thread[o].pc, thread[o].i + 1,
                        LastEvent(comm_stream(Members(o)[thread[o].i])),
                        thread[o].collective)
            \/ /\ thread[o].i = Len(Members(o)) + 1
               /\ Moved(o, then, 1, NoEvent, thread[o].collective)
<1>1. /\ thread[o].i \in Nat \ {0} /\ Len(Members(o)) \in Nat
      /\ thread[o].i <= Len(Members(o)) + 1
      /\ \A j \in Ranks(o) : Members(o)[j] \in Ops
  BY AtParticipant DEF Running
<1>. DEFINE e == LastEvent(comm_stream(participant(o)))
<1>2. CASE thread[o].i <= Len(Members(o))
  <2>1. thread' = [thread EXCEPT ![o] =
                     Thread(thread[o].pc, thread[o].i + 1, e, thread[o].collective)]
    BY <1>2 DEF WaitEach, Members
  <2>2. Moved(o, thread[o].pc, thread[o].i + 1, e, thread[o].collective)
    BY <2>1, Move DEF Control
  <2>3. participant(o) = Members(o)[thread[o].i] /\ thread[o].i \in Ranks(o)
    BY <1>1, <1>2 DEF participant, Members, Ranks
  <2>. QED  BY <1>1, <2>2, <2>3 DEF WaitEach
<1>3. CASE ~(thread[o].i <= Len(Members(o)))
  <2>1. thread' = [thread EXCEPT ![o] = Thread(then, 1, NoEvent, thread[o].collective)]
    BY <1>3 DEF WaitEach, Members
  <2>2. Moved(o, then, 1, NoEvent, thread[o].collective)
    BY <2>1, Move DEF Control
  <2>3. thread[o].i = Len(Members(o)) + 1
    BY <1>1, <1>3
  <2>. QED  BY <2>2, <2>3 DEF WaitEach
<1>. QED  BY <1>2, <1>3

\* What LaunchKernel does to the variables.
LEMMA LaunchKernelDoes ==
  ASSUME Control, NEW o \in Ops, LaunchKernel(o)
  PROVE  /\ thread[o].pc = "Launch"
         /\ participant(o) \in Ops
         /\ \/ /\ local_vec_count(Launch(thread[o].collective), thread[o].i - 1) = 0
               /\ queue' = queue
            \/ Submitted(comm_stream(participant(o)),
                         Command("reduce", participant(o), NoEvent, Members(o)))
         /\ \/ /\ thread[o].i < Len(Members(o))
               /\ Moved(o, "Launch", thread[o].i + 1, thread[o].event, thread[o].collective)
            \/ /\ thread[o].i = Len(Members(o))
               /\ Moved(o, "WaitKernels", 1, NoEvent, thread[o].collective)
<1>1. /\ thread[o].pc = "Launch" /\ participant(o) \in Ops /\ Members(o) \in Seq(Ops)
      /\ thread[o].i \in Nat /\ Len(Members(o)) \in Nat /\ thread[o].i <= Len(Members(o))
  BY AtParticipant DEF LaunchKernel, At, Running, Looping, Ranks
<1>2. Command("reduce", participant(o), NoEvent, Members(o)) \in Commands
  BY <1>1, CommandType DEF Kinds
<1>3. \/ /\ local_vec_count(Launch(thread[o].collective), thread[o].i - 1) = 0
         /\ queue' = queue
      \/ Submitted(comm_stream(participant(o)),
                   Command("reduce", participant(o), NoEvent, Members(o)))
  BY <1>1, <1>2, Submit, StreamsOf DEF LaunchKernel, Control, Members
<1>4. thread' = [thread EXCEPT ![o] =
        IF thread[o].i < Len(Members(o))
        THEN Thread("Launch", thread[o].i + 1, thread[o].event, thread[o].collective)
        ELSE Thread("WaitKernels", 1, NoEvent, thread[o].collective)]
  BY Looped DEF LaunchKernel, Control
<1>5. CASE thread[o].i < Len(Members(o))
  <2>1. Moved(o, "Launch", thread[o].i + 1, thread[o].event, thread[o].collective)
    BY <1>4, <1>5, Move DEF Control
  <2>. QED  BY <1>1, <1>3, <1>5, <2>1
<1>6. CASE ~(thread[o].i < Len(Members(o)))
  <2>1. Moved(o, "WaitKernels", 1, NoEvent, thread[o].collective)
    BY <1>4, <1>6, Move DEF Control
  <2>2. thread[o].i = Len(Members(o))
    BY <1>1, <1>6
  <2>. QED  BY <1>1, <1>3, <2>1, <2>2
<1>. QED  BY <1>5, <1>6

\* What JoinComm does to the variables.
LEMMA JoinCommDoes ==
  ASSUME Control, NEW o \in Ops, JoinComm(o)
  PROVE  /\ thread[o].pc = "JoinComm"
         /\ Moved(o, "JoinTensor", thread[o].i, thread[o].event, thread[o].collective)
         /\ Submitted(comm_stream(participant(o)),
                      Command("reduced", participant(o), NoEvent, <<>>))
         /\ participant(o) \in Ops
<1>1. thread[o].pc = "JoinComm" /\ participant(o) \in Ops
  BY AtParticipant DEF JoinComm, At, Running, Looping
<1>2. Command("reduced", participant(o), NoEvent, <<>>) \in Commands
  BY <1>1, NoOps, CommandType DEF Kinds
<1>. QED
  BY <1>1, <1>2, MovePc, Submit, StreamsOf
     DEF JoinComm, ext_oneapi_submit_barrier, Control

\* What JoinTensor does to the variables.
LEMMA JoinTensorDoes ==
  ASSUME Control, NEW o \in Ops, JoinTensor(o)
  PROVE  /\ thread[o].pc = "JoinTensor"
         /\ participant(o) \in Ops
         /\ Submitted(tensor_stream(participant(o)),
                      Command("output_visible", participant(o),
                              <<"reduced", participant(o)>>, <<>>))
         /\ \/ /\ thread[o].i < Len(Members(o))
               /\ Moved(o, "JoinComm", thread[o].i + 1, thread[o].event, thread[o].collective)
            \/ /\ thread[o].i = Len(Members(o))
               /\ Moved(o, "Callback", 1, NoEvent, thread[o].collective)
<1>1. /\ thread[o].pc = "JoinTensor" /\ participant(o) \in Ops
      /\ thread[o].i \in Nat /\ Len(Members(o)) \in Nat /\ thread[o].i <= Len(Members(o))
  BY AtParticipant DEF JoinTensor, At, Running, Looping, Ranks
<1>2. Command("output_visible", participant(o), <<"reduced", participant(o)>>, <<>>)
        \in Commands
  BY <1>1, NoOps, CommandType DEF Kinds
<1>3. Submitted(tensor_stream(participant(o)),
                Command("output_visible", participant(o), <<"reduced", participant(o)>>, <<>>))
  BY <1>1, <1>2, Submit, StreamsOf DEF JoinTensor, ext_oneapi_submit_barrier, Control
<1>4. thread' = [thread EXCEPT ![o] =
        IF thread[o].i < Len(Members(o))
        THEN Thread("JoinComm", thread[o].i + 1, thread[o].event, thread[o].collective)
        ELSE Thread("Callback", 1, NoEvent, thread[o].collective)]
  BY Looped DEF JoinTensor, Control
<1>5. CASE thread[o].i < Len(Members(o))
  <2>1. Moved(o, "JoinComm", thread[o].i + 1, thread[o].event, thread[o].collective)
    BY <1>4, <1>5, Move DEF Control
  <2>. QED  BY <1>1, <1>3, <1>5, <2>1
<1>6. CASE ~(thread[o].i < Len(Members(o)))
  <2>1. Moved(o, "Callback", 1, NoEvent, thread[o].collective)
    BY <1>4, <1>6, Move DEF Control
  <2>2. thread[o].i = Len(Members(o))
    BY <1>1, <1>6
  <2>. QED  BY <1>1, <1>3, <2>1, <2>2
<1>. QED  BY <1>5, <1>6

\* What Callback does to the variables.
LEMMA CallbackDoes ==
  ASSUME Control, NEW o \in Ops, Callback(o)
  PROVE  /\ thread[o].pc = "Callback"
         /\ participant(o) \in Ops
         /\ callback' \in [Ops -> Seq(Answers)]
         /\ callback'[participant(o)] = <<thread[o].collective.status>>
         /\ \A p \in Ops \ {participant(o)} : callback'[p] = callback[p]
         /\ \/ /\ thread[o].i < Len(Members(o))
               /\ Moved(o, "Callback", thread[o].i + 1, thread[o].event, thread[o].collective)
            \/ /\ thread[o].i = Len(Members(o))
               /\ Moved(o, "Returned", 0, NoEvent, NoCollective)
<1>1. /\ thread[o].pc = "Callback" /\ participant(o) \in Ops
      /\ thread[o].i \in Nat /\ Len(Members(o)) \in Nat /\ thread[o].i <= Len(Members(o))
      /\ thread[o].i \in Ranks(o) /\ participant(o) = Members(o)[thread[o].i]
  BY AtParticipant DEF Callback, At, Running, Looping, Ranks
<1>2. callback[participant(o)] = <<>> /\ thread[o].collective.status \in Statuses
  <2>1. RunsCollective(o) /\ thread[o].pc \in Running
    BY <1>1 DEF Control, Running, Looping
  <2>. QED  BY <1>1, <2>1 DEF RunsCollective, Collective
<1>3. Append(<<>>, thread[o].collective.status) = <<thread[o].collective.status>>
  OBVIOUS
<1>4. /\ callback' \in [Ops -> Seq(Answers)]
      /\ callback'[participant(o)] = <<thread[o].collective.status>>
      /\ \A p \in Ops \ {participant(o)} : callback'[p] = callback[p]
  <2>1. callback' = [callback EXCEPT ![participant(o)] = <<thread[o].collective.status>>]
    BY <1>2, <1>3 DEF Callback
  <2>2. <<thread[o].collective.status>> \in Seq(Answers)
    BY <1>2 DEF Answers
  <2>. QED  BY <1>1, <2>1, <2>2 DEF Control, Types
<1>5. thread' = [thread EXCEPT ![o] =
        IF thread[o].i < Len(Members(o))
        THEN Thread("Callback", thread[o].i + 1, thread[o].event, thread[o].collective)
        ELSE Thread("Returned", 0, NoEvent, NoCollective)]
  BY Looped DEF Callback, Control, Returned
<1>6. CASE thread[o].i < Len(Members(o))
  <2>1. Moved(o, "Callback", thread[o].i + 1, thread[o].event, thread[o].collective)
    BY <1>5, <1>6, Move DEF Control
  <2>. QED  BY <1>1, <1>4, <1>6, <2>1
<1>7. CASE ~(thread[o].i < Len(Members(o)))
  <2>1. Moved(o, "Returned", 0, NoEvent, NoCollective)
    BY <1>5, <1>7, Move DEF Control
  <2>2. thread[o].i = Len(Members(o))
    BY <1>1, <1>7
  <2>. QED  BY <1>1, <1>4, <2>1, <2>2
<1>. QED  BY <1>6, <1>7

\* What LaunchConsumer does to the variables.
LEMMA LaunchConsumerDoes ==
  ASSUME Control, NEW o \in Ops, LaunchConsumer(o)
  PROVE  Submitted(tensor_stream(o), Command("consume", o, NoEvent, <<o>>))
<1>1. Command("consume", o, NoEvent, <<o>>) \in Commands
  <2>1. <<o>> \in Seq(Ops)
    OBVIOUS
  <2>. QED  BY <2>1, CommandType DEF Kinds
<1>. QED  BY <1>1, Submit, StreamsOf DEF LaunchConsumer, Control

-----------------------------------------------------------------------------
(* Control *)

\* What is said of a Collective does not change while the arguments do not.
LEMMA Fixed ==
  ASSUME args' = args, NEW c
  PROVE  /\ Collective(c)' <=> Collective(c)
         /\ AllAgree(c)' <=> AllAgree(c)
         /\ SameNumElements(c)' <=> SameNumElements(c)
  BY DEF Collective, AllAgree, Agrees, SameNumElements

\* A thread that runs a collective, and does not call back yet, goes on.
LEMMA ControlMoves ==
  ASSUME Control, Types', NEW o \in Ops, thread[o].pc \in Running \ {"Callback"},
         NEW pc \in Running, NEW i, NEW e, NEW c, Moved(o, pc, i, e, c),
         UNCHANGED <<args, collectives_, callback>>,
         i \in 1 .. Len(Members(o)) + (IF pc \in Waiting THEN 1 ELSE 0),
         pc = "Callback" => i = 1,
         pc \notin {"BarrierTensor", "BarrierComm", "Callback"} => SameNumElements(c),
         \/ c = thread[o].collective /\ (pc = "Callback" => SameNumElements(c))
         \/ /\ pc = "Callback" /\ ~SameNumElements(thread[o].collective)
            /\ c = [thread[o].collective EXCEPT !.status = "InvalidArgument"]
  PROVE  Control'
<1>1. /\ Collective(thread[o].collective)
      /\ Len(Members(o)) = thread[o].collective.num_local_devices
      /\ thread[o].collective.status = "OK" /\ AllAgree(thread[o].collective)
      /\ \A j \in Ranks(o) : thread[Members(o)[j]].pc \notin Joining
                             /\ callback[Members(o)[j]] = <<>>
  BY DEF Control, RunsCollective, Members
<1>2. /\ Collective(c)
      /\ c.participants = Members(o)
      /\ c.num_local_devices = thread[o].collective.num_local_devices
      /\ pc # "Callback" => c.status = "OK" /\ AllAgree(c)
      /\ pc = "Callback" => (c.status = "OK" <=> AllAgree(c) /\ SameNumElements(c))
  <2>1. CASE c = thread[o].collective /\ (pc = "Callback" => SameNumElements(c))
    BY <1>1, <2>1 DEF Members
  <2>2. CASE /\ pc = "Callback" /\ ~SameNumElements(thread[o].collective)
             /\ c = [thread[o].collective EXCEPT !.status = "InvalidArgument"]
    <3>. DEFINE d == thread[o].collective
    <3>1. c = [key |-> d.key, data_type |-> d.data_type, reduction_op |-> d.reduction_op,
               num_local_devices |-> d.num_local_devices,
               participants |-> d.participants, status |-> "InvalidArgument"]
      BY <1>1, <2>2 DEF Collective
    <3>2. /\ c.key = d.key /\ c.participants = d.participants
          /\ c.num_local_devices = d.num_local_devices /\ c.status = "InvalidArgument"
          /\ c = [key |-> c.key, data_type |-> c.data_type, reduction_op |-> c.reduction_op,
                  num_local_devices |-> c.num_local_devices,
                  participants |-> c.participants, status |-> c.status]
      BY <3>1
    <3>3. Collective(c)
      BY <1>1, <3>2 DEF Collective, Statuses
    <3>4. ~SameNumElements(c)
      BY <2>2, <3>2 DEF SameNumElements
    <3>. QED  BY <2>2, <3>2, <3>3, <3>4 DEF Members
  <2>. QED  BY <2>1, <2>2
<1>3. \A r \in Ops : Members(r)' = Members(r) /\ Ranks(r)' = Ranks(r)
  BY <1>2 DEF Moved, Members, Ranks
<1>4. \A r \in Ops : thread'[r].pc \in Joining <=> thread[r].pc \in Joining
  BY DEF Moved, Running, Looping, Waiting, Joining
<1>5. Assembling'
  <2>. SUFFICES ASSUME NEW k \in DOMAIN collectives_
                PROVE  LET d == collectives_[k]
                       IN  /\ Collective(d)'
                           /\ d.key = k
                           /\ Len(d.participants) \in 1 .. d.num_local_devices - 1
                           /\ d.status = "OK" <=> AllAgree(d)'
                           /\ \A j \in 1 .. Len(d.participants) :
                                /\ thread'[d.participants[j]].pc \notin Joining
                                /\ callback[d.participants[j]] = <<>>
                                /\ \A r \in Ops : \A m \in Ranks(r)' :
                                     Members(r)'[m] # d.participants[j]
    BY DEF Assembling, Collective, AllAgree, Agrees
  <2>1. \A j \in 1 .. Len(collectives_[k].participants) : collectives_[k].participants[j] \in Ops
    BY DEF Control, Assembling, Collective
  <2>. QED  BY <1>3, <1>4, <2>1, Fixed DEF Control, Assembling
<1>6. Disjoint'
  BY <1>3 DEF Control, Disjoint
<1>7. ASSUME NEW r \in Ops PROVE NotRunning(r)' /\ NotJoined(r)'
  BY <1>3, <1>4 DEF Moved, Control, NotRunning, NotJoined
<1>8. ASSUME NEW r \in Ops PROVE RunsCollective(r)'
  <2>. SUFFICES ASSUME thread'[r].pc \in Running PROVE RunsCollective(r)'
    BY DEF RunsCollective
  <2>0. \A j \in Ranks(r) : Members(r)[j] \in Ops
    <3>1. Members(r) \in Seq(Ops)
      BY DEF Moved, Control, RunsCollective, Collective, Members
    <3>. QED  BY <3>1 DEF Ranks
  <2>1. CASE r = o
    <3>1. \A j \in Ranks(o) : thread'[Members(o)[j]].pc \notin Joining
                              /\ callback'[Members(o)[j]] = <<>>
      BY <1>1, <1>4, <2>0, <2>1
    <3>2. /\ Collective(c)'
          /\ pc # "Callback" => c.status = "OK" /\ AllAgree(c)'
          /\ pc = "Callback" => (c.status = "OK" <=> AllAgree(c)' /\ SameNumElements(c)')
          /\ pc \notin {"BarrierTensor", "BarrierComm", "Callback"} => SameNumElements(c)'
      BY <1>2, Fixed
    <3>3. /\ thread'[o].pc = pc /\ thread'[o].i = i /\ thread'[o].collective = c
          /\ Ranks(o)' = Ranks(o) /\ Members(o)' = Members(o) /\ Len(c.participants) = Len(Members(o))
      BY <1>2, <1>3 DEF Moved
    <3>4. pc = "Callback" => ~ \E j \in Ranks(o) : j < i
      BY DEF Ranks
    <3>5. c.participants = Members(o) /\ Len(Members(o)) = c.num_local_devices
      BY <1>1, <1>2
    <3>6. Collective(thread[o].collective)'
      BY <3>2, <3>3 DEF Collective
    <3>7. AllAgree(thread[o].collective)' <=> AllAgree(c)'
      BY <3>3 DEF AllAgree, Agrees
    <3>8. SameNumElements(thread[o].collective)' <=> SameNumElements(c)'
      BY <3>3 DEF SameNumElements
    <3>9. \A j \in Ranks(o)' :
            /\ thread'[Members(o)'[j]].pc \notin Joining
            /\ callback'[Members(o)'[j]] =
                 IF thread'[o].pc = "Callback" /\ j < thread'[o].i
                 THEN <<thread'[o].collective.status>> ELSE <<>>
      BY <3>1, <3>3, <3>4
    <3>10. /\ Len(thread'[o].collective.participants) = thread'[o].collective.num_local_devices
           /\ thread'[o].i \in 1 .. Len(thread'[o].collective.participants)
                                    + (IF thread'[o].pc \in Waiting THEN 1 ELSE 0)
      BY <3>3, <3>5
    <3>11. /\ IF thread'[o].pc = "Callback"
              THEN thread'[o].collective.status = "OK" <=>
                     AllAgree(thread[o].collective)' /\ SameNumElements(thread[o].collective)'
              ELSE thread'[o].collective.status = "OK" /\ AllAgree(thread[o].collective)'
           /\ thread'[o].pc \notin {"BarrierTensor", "BarrierComm", "Callback"} =>
                SameNumElements(thread[o].collective)'
      BY <3>2, <3>3, <3>7, <3>8
    <3>12. RunsCollective(o)'
      BY <3>6, <3>9, <3>10, <3>11 DEF RunsCollective
    <3>. QED  BY <2>1, <3>12
  <2>2. CASE r # o
    <3>1. thread'[r] = thread[r] /\ RunsCollective(r)
      BY <2>2 DEF Moved, Control
    <3>2. \A j \in Ranks(r) : thread'[Members(r)[j]].pc \notin Joining
      BY <1>4, <2>0, <3>1 DEF RunsCollective
    <3>3. thread[r].pc \in Running /\ args' = args /\ callback' = callback
      BY <3>1
    <3>4. Collective(thread[r].collective)'
      BY <3>1, <3>3 DEF RunsCollective, Collective
    <3>5. /\ AllAgree(thread[r].collective)' <=> AllAgree(thread[r].collective)
          /\ SameNumElements(thread[r].collective)' <=> SameNumElements(thread[r].collective)
      BY <3>1, <3>3 DEF AllAgree, Agrees, SameNumElements
    <3>6. Ranks(r)' = Ranks(r) /\ Members(r)' = Members(r)
      BY <1>3
    <3>. QED  BY <3>1, <3>2, <3>3, <3>4, <3>5, <3>6 DEF RunsCollective
  <2>. QED  BY <2>1, <2>2
<1>. QED  BY <1>5, <1>6, <1>7, <1>8 DEF Control

\* Moving an op keeps the types of the threads.
LEMMA TypesMoved ==
  ASSUME Types, NEW o \in Ops, NEW pc \in Joining \union Running \union {"Returned"},
         NEW i, NEW e, NEW c, Moved(o, pc, i, e, c)
  PROVE  /\ thread' = [p \in Ops |-> Thread(thread'[p].pc, thread'[p].i, thread'[p].event,
                                            thread'[p].collective)]
         /\ \A p \in Ops : thread'[p].pc \in Joining \union Running \union {"Returned"}
<1>1. \A p \in Ops : thread'[p].pc \in Joining \union Running \union {"Returned"}
  <2>. TAKE p \in Ops
  <2>1. CASE p = o
    BY <2>1 DEF Moved
  <2>2. CASE p # o
    BY <2>2 DEF Moved, Types
  <2>. QED  BY <2>1, <2>2
<1>. QED  BY <1>1 DEF Moved

\* Every step keeps the part Types of the invariant.
LEMMA TypesStep == Control /\ [Next]_vars => Types'
<1>. SUFFICES ASSUME Control, [Next]_vars PROVE Types'
  OBVIOUS
<1>. USE DEF Types
<1>0. Types
  BY DEF Control
<1>1. ASSUME NEW o \in Ops, LaunchProducer(o) PROVE Types'
  <2>1. Moved(o, "Ready", thread[o].i, thread[o].event, thread[o].collective)
        /\ queue' \in [Streams -> Seq(Commands)]
    BY <1>1, LaunchProducerDoes DEF Submitted
  <2>2. "Ready" \in Joining \union Running \union {"Returned"}
    BY DEF Joining
  <2>. QED  BY <1>0, <1>1, <2>1, <2>2, TypesMoved DEF LaunchProducer
<1>2. ASSUME NEW o \in Ops, AddParticipant(o) PROVE Types'
  <2>1. CASE Ready(Assembled(o))
    <3>. DEFINE pc == IF Assembled(o).status = "OK" THEN "BarrierTensor" ELSE "Callback"
    <3>1. Moved(o, pc, 1, NoEvent, Assembled(o))
      BY <1>2, <2>1, AddParticipantDoes
    <3>2. pc \in Joining \union Running \union {"Returned"}
      BY DEF Running, Looping
    <3>. HIDE DEF pc
    <3>. QED  BY <1>0, <1>2, <3>1, <3>2, TypesMoved DEF AddParticipant
  <2>2. CASE ~Ready(Assembled(o))
    <3>1. Moved(o, "Returned", 0, NoEvent, NoCollective)
      BY <1>2, <2>2, AddParticipantDoes
    <3>. QED  BY <1>0, <1>2, <3>1, TypesMoved DEF AddParticipant
  <2>. QED  BY <2>1, <2>2
<1>3. ASSUME NEW o \in Ops, BarrierTensor(o) PROVE Types'
  <2>1. /\ Moved(o, "BarrierComm", thread[o].i, thread[o].event, thread[o].collective)
        /\ queue' \in [Streams -> Seq(Commands)] /\ participant(o) \in Ops
    BY <1>3, BarrierTensorDoes DEF Submitted
  <2>2. "BarrierComm" \in Joining \union Running \union {"Returned"}
    BY DEF Running, Looping
  <2>3. args[participant(o)].gpu_device_id \in Devices
    BY <1>0, <2>1, CasesAssumption
  <2>. QED  BY <1>0, <1>3, <2>1, <2>2, <2>3, TypesMoved DEF BarrierTensor
<1>4. ASSUME NEW o \in Ops, BarrierComm(o) PROVE Types'
  <2>1. PICK pc \in {"BarrierTensor", "WaitInputs", "Callback"} :
          \E i, c, e : Moved(o, pc, i, e, c)
    BY <1>4, BarrierCommDoes
  <2>2. queue' \in [Streams -> Seq(Commands)]
    BY <1>4, BarrierCommDoes DEF Submitted
  <2>3. pc \in Joining \union Running \union {"Returned"}
    BY DEF Running, Looping, Waiting
  <2>. QED  BY <1>0, <1>4, <2>1, <2>2, <2>3, TypesMoved DEF BarrierComm
<1>5. ASSUME NEW o \in Ops, WaitInputs(o) PROVE Types'
  <2>1. WaitEach(o, "Launch") /\ thread[o].pc = "WaitInputs"
    BY <1>5 DEF WaitInputs, At
  <2>2. PICK pc \in {"WaitInputs", "Launch"} : \E i, c, e : Moved(o, pc, i, e, c)
    BY <2>1, WaitEachDoes DEF Waiting
  <2>3. pc \in Joining \union Running \union {"Returned"}
    BY DEF Running, Looping, Waiting
  <2>. QED  BY <1>0, <2>1, <2>2, <2>3, TypesMoved DEF WaitEach
<1>6. ASSUME NEW o \in Ops, LaunchKernel(o) PROVE Types'
  <2>1. PICK pc \in {"Launch", "WaitKernels"} : \E i, c, e : Moved(o, pc, i, e, c)
    BY <1>6, LaunchKernelDoes
  <2>2. queue' \in [Streams -> Seq(Commands)]
    BY <1>0, <1>6, LaunchKernelDoes DEF Submitted
  <2>3. pc \in Joining \union Running \union {"Returned"}
    BY DEF Running, Looping, Waiting
  <2>. QED  BY <1>0, <1>6, <2>1, <2>2, <2>3, TypesMoved DEF LaunchKernel
<1>7. ASSUME NEW o \in Ops, WaitKernels(o) PROVE Types'
  <2>1. WaitEach(o, "JoinComm") /\ thread[o].pc = "WaitKernels"
    BY <1>7 DEF WaitKernels, At
  <2>2. PICK pc \in {"WaitKernels", "JoinComm"} : \E i, c, e : Moved(o, pc, i, e, c)
    BY <2>1, WaitEachDoes DEF Waiting
  <2>3. pc \in Joining \union Running \union {"Returned"}
    BY DEF Running, Looping, Waiting
  <2>. QED  BY <1>0, <2>1, <2>2, <2>3, TypesMoved DEF WaitEach
<1>8. ASSUME NEW o \in Ops, JoinComm(o) PROVE Types'
  <2>1. /\ Moved(o, "JoinTensor", thread[o].i, thread[o].event, thread[o].collective)
        /\ queue' \in [Streams -> Seq(Commands)]
    BY <1>8, JoinCommDoes DEF Submitted
  <2>2. "JoinTensor" \in Joining \union Running \union {"Returned"}
    BY DEF Running, Looping
  <2>. QED  BY <1>0, <1>8, <2>1, <2>2, TypesMoved DEF JoinComm
<1>9. ASSUME NEW o \in Ops, JoinTensor(o) PROVE Types'
  <2>1. PICK pc \in {"JoinComm", "Callback"} : \E i, c, e : Moved(o, pc, i, e, c)
    BY <1>9, JoinTensorDoes
  <2>2. queue' \in [Streams -> Seq(Commands)]
    BY <1>9, JoinTensorDoes DEF Submitted
  <2>3. pc \in Joining \union Running \union {"Returned"}
    BY DEF Running, Looping, Waiting
  <2>. QED  BY <1>0, <1>9, <2>1, <2>2, <2>3, TypesMoved DEF JoinTensor
<1>10. ASSUME NEW o \in Ops, Callback(o) PROVE Types'
  <2>1. PICK pc \in {"Callback", "Returned"} : \E i, c, e : Moved(o, pc, i, e, c)
    BY <1>10, CallbackDoes
  <2>2. callback' \in [Ops -> Seq(Answers)]
    BY <1>10, CallbackDoes
  <2>3. pc \in Joining \union Running \union {"Returned"}
    BY DEF Running, Looping, Waiting
  <2>. QED  BY <1>0, <1>10, <2>1, <2>2, <2>3, TypesMoved DEF Callback
<1>11. ASSUME NEW o \in Ops, LaunchConsumer(o) PROVE Types'
  <2>1. queue' \in [Streams -> Seq(Commands)]
    BY <1>11, LaunchConsumerDoes DEF Submitted
  <2>. QED  BY <1>0, <1>11, <2>1 DEF LaunchConsumer
<1>12. ASSUME NEW s \in Streams, Execute(s) PROVE Types'
  <2>1. queue' \in [Streams -> Seq(Commands)] /\ Head(queue[s]) = queue[s][1]
    BY <1>0, <1>12, Executes DEF Executed
  <2>2. Head(queue[s]).event[2] \in Ops
    <3>1. queue[s] \in Seq(Commands) /\ queue[s] # <<>>
      BY <1>0, <1>12 DEF Execute
    <3>2. Head(queue[s]) \in Commands
      BY <3>1
    <3>. QED  BY <3>2 DEF Commands
  <2>3. produced' \subseteq Ops
    BY <1>0, <1>12, <2>2 DEF Execute
  <2>4. written' = [o \in Ops |-> written'[o]]
    BY <1>12 DEF Execute
  <2>. QED  BY <1>0, <1>12, <2>1, <2>3, <2>4 DEF Execute
<1>13. CASE UNCHANGED vars
  BY <1>0, <1>13 DEF vars
<1>14. ASSUME NEW o \in Ops, AllocateFails(o) PROVE Types'
  <2>1. Moved(o, "Returned", 0, NoEvent, NoCollective) /\ callback' \in [Ops -> Seq(Answers)]
    BY <1>14, AllocateFailsDoes
  <2>. QED  BY <1>0, <1>14, <2>1, TypesMoved DEF AllocateFails
<1>. QED
  BY <1>1, <1>2, <1>3, <1>4, <1>5, <1>6, <1>7, <1>8, <1>9, <1>10, <1>11, <1>12, <1>13, <1>14
     DEF Next, ThreadStep

\* A step that leaves the collectives, the threads and the callbacks alone.
LEMMA ControlStays ==
  ASSUME Control, Types', UNCHANGED <<args, collectives_, thread, callback>>
  PROVE  Control'
<1>1. Assembling'
  BY DEF Control, Assembling, Collective, AllAgree, Agrees, Members, Ranks
<1>2. Disjoint'
  BY DEF Control, Disjoint, Members, Ranks
<1>3. ASSUME NEW r \in Ops PROVE NotRunning(r)' /\ NotJoined(r)'
  BY DEF Control, NotRunning, NotJoined, Members
<1>4. ASSUME NEW r \in Ops PROVE RunsCollective(r)'
  <2>1. RunsCollective(r) /\ thread' = thread /\ args' = args /\ callback' = callback
    BY DEF Control
  <2>2. /\ Collective(thread[r].collective)' <=> Collective(thread[r].collective)
        /\ AllAgree(thread[r].collective)' <=> AllAgree(thread[r].collective)
        /\ SameNumElements(thread[r].collective)' <=> SameNumElements(thread[r].collective)
    BY <2>1 DEF Collective, AllAgree, Agrees, SameNumElements
  <2>3. Ranks(r)' = Ranks(r) /\ Members(r)' = Members(r)
    BY <2>1 DEF Ranks, Members
  <2>. QED  BY <2>1, <2>2, <2>3 DEF RunsCollective
<1>. QED  BY <1>1, <1>2, <1>3, <1>4 DEF Control

\* LaunchProducer keeps the control invariant.
LEMMA ControlLaunchProducer ==
  ASSUME Control, Types', NEW o \in Ops, LaunchProducer(o)
  PROVE  Control'
<1>1. /\ thread[o].pc = "Idle"
      /\ Moved(o, "Ready", thread[o].i, thread[o].event, thread[o].collective)
      /\ UNCHANGED <<args, collectives_, callback>>
  BY LaunchProducerDoes DEF LaunchProducer
<1>2. \A r \in Ops : Members(r)' = Members(r) /\ Ranks(r)' = Ranks(r)
  BY <1>1 DEF Moved, Members, Ranks
<1>3. \A r \in Ops : thread'[r].pc \in Joining <=> thread[r].pc \in Joining
  BY <1>1 DEF Moved, Joining
<1>4. Assembling'
  <2>0. args' = args /\ collectives_' = collectives_ /\ callback' = callback
    BY <1>1
  <2>. SUFFICES ASSUME NEW k \in DOMAIN collectives_
                PROVE  LET d == collectives_[k]
                       IN  /\ Collective(d)'
                           /\ d.key = k
                           /\ Len(d.participants) \in 1 .. d.num_local_devices - 1
                           /\ d.status = "OK" <=> AllAgree(d)'
                           /\ \A j \in 1 .. Len(d.participants) :
                                /\ thread'[d.participants[j]].pc \notin Joining
                                /\ callback[d.participants[j]] = <<>>
                                /\ \A r \in Ops : \A m \in Ranks(r)' :
                                     Members(r)'[m] # d.participants[j]
    BY <2>0 DEF Assembling, Collective, AllAgree, Agrees
  <2>1. \A j \in 1 .. Len(collectives_[k].participants) : collectives_[k].participants[j] \in Ops
    BY DEF Control, Assembling, Collective
  <2>. QED  BY <1>1, <1>2, <1>3, <2>1, Fixed DEF Control, Assembling
<1>5. Disjoint'
  BY <1>2 DEF Control, Disjoint
<1>6. ASSUME NEW r \in Ops PROVE NotRunning(r)' /\ NotJoined(r)'
  <2>1. NotRunning(r) /\ NotJoined(r) /\ NotRunning(o) /\ "Idle" \notin Running
    BY DEF Control, Running, Looping, Waiting
  <2>. QED  BY <1>1, <1>2, <1>3, <2>1 DEF Moved, NotRunning, NotJoined
<1>7. ASSUME NEW r \in Ops PROVE RunsCollective(r)'
  <2>. SUFFICES ASSUME thread'[r].pc \in Running PROVE RunsCollective(r)'
    BY DEF RunsCollective
  <2>1. thread'[r] = thread[r] /\ RunsCollective(r) /\ args' = args /\ callback' = callback
    BY <1>1 DEF Moved, Running, Looping, Waiting, Control
  <2>2. \A j \in Ranks(r) : Members(r)[j] \in Ops
    BY <2>1, AtParticipant
  <2>3. \A j \in Ranks(r) : thread'[Members(r)[j]].pc \notin Joining
    BY <1>3, <2>1, <2>2 DEF RunsCollective
  <2>4. Collective(thread[r].collective)'
    BY <2>1 DEF RunsCollective, Collective
  <2>5. /\ AllAgree(thread[r].collective)' <=> AllAgree(thread[r].collective)
        /\ SameNumElements(thread[r].collective)' <=> SameNumElements(thread[r].collective)
    BY <2>1 DEF AllAgree, Agrees, SameNumElements
  <2>6. Ranks(r)' = Ranks(r) /\ Members(r)' = Members(r)
    BY <1>2
  <2>. QED  BY <2>1, <2>3, <2>4, <2>5, <2>6 DEF RunsCollective
<1>. QED  BY <1>4, <1>5, <1>6, <1>7 DEF Control

\* AllocateFails keeps the control invariant: the op is in no collective.
LEMMA ControlAllocateFails ==
  ASSUME Control, Types', NEW o \in Ops, AllocateFails(o)
  PROVE  Control'
<1>1. /\ thread[o].pc = "Ready" /\ thread[o].pc \in Joining /\ thread[o].pc \notin Running
      /\ Moved(o, "Returned", 0, NoEvent, NoCollective)
      /\ args' = args /\ collectives_' = collectives_
      /\ \A p \in Ops \ {o} : callback'[p] = callback[p]
  BY AllocateFailsDoes DEF AllocateFails, Joining, Running, Looping, Waiting
<1>2. \A r \in Ops : Members(r)' = Members(r) /\ Ranks(r)' = Ranks(r)
  <2>1. Members(o) = <<>> /\ Members(o)' = <<>>
    BY <1>1 DEF Control, NotRunning, Moved, Members, NoCollective
  <2>. QED  BY <1>1, <2>1 DEF Moved, Members, Ranks
<1>3. \A r \in Ops : thread[r].pc \notin Joining =>
        thread'[r].pc \notin Joining /\ callback'[r] = callback[r]
  BY <1>1 DEF Moved
<1>4. Assembling'
  <2>. SUFFICES ASSUME NEW k \in DOMAIN collectives_
                PROVE  LET d == collectives_[k]
                       IN  /\ Collective(d)'
                           /\ d.key = k
                           /\ Len(d.participants) \in 1 .. d.num_local_devices - 1
                           /\ d.status = "OK" <=> AllAgree(d)'
                           /\ \A j \in 1 .. Len(d.participants) :
                                /\ thread'[d.participants[j]].pc \notin Joining
                                /\ callback'[d.participants[j]] = <<>>
                                /\ \A r \in Ops : \A m \in Ranks(r)' :
                                     Members(r)'[m] # d.participants[j]
    BY <1>1 DEF Assembling, Collective, AllAgree, Agrees
  <2>1. \A j \in 1 .. Len(collectives_[k].participants) : collectives_[k].participants[j] \in Ops
    BY DEF Control, Assembling, Collective
  <2>. QED  BY <1>1, <1>2, <1>3, <2>1, Fixed DEF Control, Assembling
<1>5. Disjoint'
  BY <1>2 DEF Control, Disjoint
<1>6. ASSUME NEW r \in Ops PROVE NotRunning(r)' /\ NotJoined(r)'
  <2>1. CASE r = o
    BY <1>1, <2>1 DEF Moved, NotRunning, NotJoined, Joining, Members, NoCollective
  <2>2. CASE r # o
    BY <1>1, <1>2, <2>2 DEF Control, Moved, NotRunning, NotJoined
  <2>. QED  BY <2>1, <2>2
<1>7. ASSUME NEW r \in Ops PROVE RunsCollective(r)'
  <2>. SUFFICES ASSUME thread'[r].pc \in Running PROVE RunsCollective(r)'
    BY DEF RunsCollective
  <2>1. thread'[r] = thread[r] /\ RunsCollective(r) /\ args' = args
    BY <1>1 DEF Moved, Running, Looping, Waiting, Control
  <2>2. \A j \in Ranks(r) : Members(r)[j] \in Ops
    BY <2>1, AtParticipant
  <2>3. \A j \in Ranks(r) : /\ thread'[Members(r)[j]].pc \notin Joining
                            /\ callback'[Members(r)[j]] = callback[Members(r)[j]]
    BY <1>3, <2>1, <2>2 DEF RunsCollective
  <2>4. Collective(thread[r].collective)'
    BY <2>1 DEF RunsCollective, Collective
  <2>5. /\ AllAgree(thread[r].collective)' <=> AllAgree(thread[r].collective)
        /\ SameNumElements(thread[r].collective)' <=> SameNumElements(thread[r].collective)
    BY <2>1 DEF AllAgree, Agrees, SameNumElements
  <2>6. Ranks(r)' = Ranks(r) /\ Members(r)' = Members(r)
    BY <1>2
  <2>. QED  BY <2>1, <2>3, <2>4, <2>5, <2>6 DEF RunsCollective
<1>. QED  BY <1>4, <1>5, <1>6, <1>7 DEF Control

\* Callback keeps the control invariant: who has been called back has left.
LEMMA ControlCallback ==
  ASSUME Control, Types', NEW o \in Ops, Callback(o)
  PROVE  Control'
<1>. DEFINE p == participant(o)
            status == thread[o].collective.status
<1>1. /\ thread[o].pc = "Callback" /\ p \in Ops
      /\ callback'[p] = <<status>>
      /\ \A q \in Ops \ {p} : callback'[q] = callback[q]
      /\ UNCHANGED <<args, collectives_>>
  BY CallbackDoes DEF Callback
<1>2. /\ thread[o].i \in Ranks(o) /\ p = Members(o)[thread[o].i]
      /\ thread[o].i \in Nat \ {0} /\ Len(Members(o)) \in Nat
  BY <1>1, AtParticipant DEF Running, Looping
<1>3. \/ /\ thread[o].i < Len(Members(o))
         /\ Moved(o, "Callback", thread[o].i + 1, thread[o].event, thread[o].collective)
      \/ /\ thread[o].i = Len(Members(o))
         /\ Moved(o, "Returned", 0, NoEvent, NoCollective)
  BY CallbackDoes
<1>4. /\ \A r \in Ops \ {o} : thread'[r] = thread[r] /\ Members(r)' = Members(r) /\ Ranks(r)' = Ranks(r)
      /\ \A r \in Ops : thread'[r].pc \in Joining <=> thread[r].pc \in Joining
  BY <1>1, <1>3 DEF Moved, Members, Ranks, Joining
<1>5. \/ Members(o)' = Members(o) /\ Ranks(o)' = Ranks(o)
      \/ Members(o)' = <<>> /\ Ranks(o)' = {}
  BY <1>3 DEF Moved, Members, Ranks, NoCollective
<1>. HIDE DEF p
<1>6. Assembling'
  <2>. SUFFICES ASSUME NEW k \in DOMAIN collectives_
                PROVE  LET d == collectives_[k]
                       IN  /\ Collective(d)'
                           /\ d.key = k
                           /\ Len(d.participants) \in 1 .. d.num_local_devices - 1
                           /\ d.status = "OK" <=> AllAgree(d)'
                           /\ \A j \in 1 .. Len(d.participants) :
                                /\ thread'[d.participants[j]].pc \notin Joining
                                /\ callback'[d.participants[j]] = <<>>
                                /\ \A r \in Ops : \A m \in Ranks(r)' :
                                     Members(r)'[m] # d.participants[j]
    BY <1>1 DEF Assembling, Collective, AllAgree, Agrees
  <2>. DEFINE d == collectives_[k]
  <2>1. /\ Collective(d) /\ d.key = k
        /\ Len(d.participants) \in 1 .. d.num_local_devices - 1
        /\ d.status = "OK" <=> AllAgree(d)
    BY DEF Control, Assembling
  <2>2. ASSUME NEW j \in 1 .. Len(d.participants)
        PROVE  /\ thread'[d.participants[j]].pc \notin Joining
               /\ callback'[d.participants[j]] = <<>>
               /\ \A r \in Ops : \A m \in Ranks(r)' : Members(r)'[m] # d.participants[j]
    <3>1. d.participants[j] \in Ops
      BY <2>1 DEF Collective
    <3>2. /\ thread[d.participants[j]].pc \notin Joining
          /\ callback[d.participants[j]] = <<>>
          /\ \A r \in Ops : \A m \in Ranks(r) : Members(r)[m] # d.participants[j]
      BY DEF Control, Assembling
    <3>3. d.participants[j] # p
      BY <1>2, <3>2
    <3>4. \A r \in Ops : \A m \in Ranks(r)' : Members(r)'[m] # d.participants[j]
      BY <1>4, <1>5, <3>2
    <3>. QED  BY <1>1, <1>4, <3>1, <3>2, <3>3, <3>4
  <2>. QED  BY <1>1, <2>1, <2>2, Fixed
<1>7. Disjoint'
  <2>. SUFFICES ASSUME NEW r \in Ops, NEW q \in Ops, NEW j \in Ranks(r)', NEW k \in Ranks(q)',
                       Members(r)'[j] = Members(q)'[k]
                PROVE  r = q
    BY DEF Disjoint
  <2>1. /\ j \in Ranks(r) /\ Members(r)'[j] = Members(r)[j]
        /\ k \in Ranks(q) /\ Members(q)'[k] = Members(q)[k]
    BY <1>4, <1>5
  <2>. QED  BY <2>1 DEF Control, Disjoint
<1>8. ASSUME NEW r \in Ops PROVE NotRunning(r)' /\ NotJoined(r)'
  <2>1. NotRunning(r) /\ NotJoined(r) /\ RunsCollective(o)
    BY DEF Control
  <2>2. thread[p].pc \notin Joining
    BY <1>1, <1>2, <2>1 DEF RunsCollective, Running, Looping
  <2>3. NotJoined(r)'
    BY <1>1, <1>4, <2>1, <2>2 DEF NotJoined
  <2>4. NotRunning(r)'
    <3>1. CASE r = o
      BY <1>1, <1>3, <3>1 DEF Moved, NotRunning, Members, NoCollective, Running, Looping
    <3>2. CASE r # o
      BY <1>4, <2>1, <3>2 DEF NotRunning
    <3>. QED  BY <3>1, <3>2
  <2>. QED  BY <2>3, <2>4
<1>9. ASSUME NEW r \in Ops PROVE RunsCollective(r)'
  <2>. SUFFICES ASSUME thread'[r].pc \in Running PROVE RunsCollective(r)'
    BY DEF RunsCollective
  <2>1. CASE r = o
    <3>0. "Returned" \notin Running /\ thread[o].pc \in Running
      BY <1>1 DEF Running, Looping, Waiting
    <3>1. /\ thread[o].i < Len(Members(o))
          /\ thread'[o].pc = "Callback" /\ thread'[o].i = thread[o].i + 1
          /\ thread'[o].collective = thread[o].collective
          /\ Members(o)' = Members(o) /\ Ranks(o)' = Ranks(o)
      BY <1>3, <2>1, <3>0 DEF Moved, Members, Ranks
    <3>2. /\ Collective(thread[o].collective)
          /\ Len(Members(o)) = thread[o].collective.num_local_devices
          /\ status = "OK" <=>
               AllAgree(thread[o].collective) /\ SameNumElements(thread[o].collective)
          /\ \A j \in Ranks(o) :
               /\ thread[Members(o)[j]].pc \notin Joining
               /\ callback[Members(o)[j]] = IF j < thread[o].i THEN <<status>> ELSE <<>>
      BY <1>1, <3>0 DEF Control, RunsCollective, Members
    <3>3. \A j \in Ranks(o) : Members(o)[j] \in Ops
      BY <3>0, AtParticipant
    <3>4. ASSUME NEW j \in Ranks(o)
          PROVE  callback'[Members(o)[j]] = IF j < thread[o].i + 1 THEN <<status>> ELSE <<>>
      <4>1. CASE j = thread[o].i
        BY <1>1, <1>2, <4>1
      <4>2. CASE j # thread[o].i
        <5>1. Members(o)[j] # p
          BY <1>2, <3>2, <4>2 DEF Collective, Members, Ranks
        <5>2. callback'[Members(o)[j]] = callback[Members(o)[j]]
          BY <1>1, <3>3, <5>1
        <5>3. j < thread[o].i + 1 <=> j < thread[o].i
          BY <1>2, <4>2 DEF Ranks
        <5>. QED  BY <3>2, <5>2, <5>3
      <4>. QED  BY <4>1, <4>2
    <3>5. /\ Collective(thread[o].collective)'
          /\ AllAgree(thread[o].collective)' <=> AllAgree(thread[o].collective)
          /\ SameNumElements(thread[o].collective)' <=> SameNumElements(thread[o].collective)
      BY <1>1, <3>1, <3>2 DEF Collective, AllAgree, Agrees, SameNumElements
    <3>6. /\ Len(thread'[o].collective.participants) = thread'[o].collective.num_local_devices
          /\ thread'[o].i \in 1 .. Len(thread'[o].collective.participants)
      BY <1>2, <3>1, <3>2 DEF Members
    <3>7. \A j \in Ranks(o)' : thread'[Members(o)'[j]].pc \notin Joining
      BY <1>4, <3>1, <3>2, <3>3
    <3>8. RunsCollective(o)'
      BY <3>1, <3>2, <3>4, <3>5, <3>6, <3>7 DEF RunsCollective, Waiting
    <3>. QED  BY <2>1, <3>8
  <2>2. CASE r # o
    <3>1. thread'[r] = thread[r] /\ RunsCollective(r) /\ args' = args /\ thread[r].pc \in Running
      BY <1>1, <1>4, <2>2 DEF Control
    <3>2. \A j \in Ranks(r) : Members(r)[j] \in Ops
      BY <3>1, AtParticipant
    <3>3. \A j \in Ranks(r) : thread'[Members(r)[j]].pc \notin Joining
      BY <1>4, <3>1, <3>2 DEF RunsCollective
    <3>4. \A j \in Ranks(r) : callback'[Members(r)[j]] = callback[Members(r)[j]]
      <4>1. \A j \in Ranks(r) : Members(r)[j] # p
        BY <1>2, <2>2 DEF Control, Disjoint
      <4>. QED  BY <1>1, <3>2, <4>1
    <3>5. Collective(thread[r].collective)'
      BY <3>1 DEF RunsCollective, Collective
    <3>6. /\ AllAgree(thread[r].collective)' <=> AllAgree(thread[r].collective)
          /\ SameNumElements(thread[r].collective)' <=> SameNumElements(thread[r].collective)
      BY <3>1 DEF AllAgree, Agrees, SameNumElements
    <3>7. Ranks(r)' = Ranks(r) /\ Members(r)' = Members(r)
      BY <1>4, <2>2
    <3>. QED  BY <3>1, <3>3, <3>4, <3>5, <3>6, <3>7 DEF RunsCollective
  <2>. QED  BY <2>1, <2>2
<1>. QED  BY <1>6, <1>7, <1>8, <1>9 DEF Control

\* What AddParticipant makes of the collective: o is its last participant, and the
\* others were waiting in it.
LEMMA AssembledIs ==
  ASSUME Control, NEW o \in Ops, thread[o].pc = "Ready"
  PROVE  /\ Collective(Assembled(o))
         /\ Assembled(o).key = args[o].key
         /\ Len(Assembled(o).participants) \in 1 .. Assembled(o).num_local_devices
         /\ Assembled(o).status = "OK" <=> AllAgree(Assembled(o))
         /\ Assembled(o).participants[Len(Assembled(o).participants)] = o
         /\ \A j \in 1 .. Len(Assembled(o).participants) - 1 :
              /\ args[o].key \in DOMAIN collectives_
              /\ j \in 1 .. Len(collectives_[args[o].key].participants)
              /\ Assembled(o).participants[j] = collectives_[args[o].key].participants[j]
              /\ Assembled(o).participants[j] # o
         /\ \A p : Agrees(Assembled(o), p) <=>
                  Agrees(IF args[o].key \in DOMAIN collectives_ THEN collectives_[args[o].key]
                         ELSE NewCollective(o), p)
<1>. DEFINE key == args[o].key
            B == IF key \in DOMAIN collectives_ THEN collectives_[key] ELSE NewCollective(o)
            A == Assembled(o)
<1>1. /\ Collective(B) /\ B.key = key
      /\ Len(B.participants) \in 0 .. B.num_local_devices - 1
      /\ B.status = "OK" <=> AllAgree(B)
      /\ \A j \in 1 .. Len(B.participants) : B.participants[j] # o
      /\ key \notin DOMAIN collectives_ => B.participants = <<>>
  <2>1. CASE key \in DOMAIN collectives_
    <3>1. B = collectives_[key]
      BY <2>1
    <3>2. \A j \in 1 .. Len(B.participants) : thread[B.participants[j]].pc \notin Joining
      BY <2>1, <3>1 DEF Control, Assembling
    <3>3. \A j \in 1 .. Len(B.participants) : B.participants[j] # o
      BY <3>2 DEF Joining
    <3>4. /\ Collective(B) /\ B.key = key
          /\ B.status = "OK" <=> AllAgree(B)
          /\ Len(B.participants) \in 1 .. B.num_local_devices - 1
      BY <2>1, <3>1 DEF Control, Assembling
    <3>5. Len(B.participants) \in 0 .. B.num_local_devices - 1
      BY <3>4
    <3>. QED  BY <2>1, <3>3, <3>4, <3>5
  <2>2. CASE key \notin DOMAIN collectives_
    <3>1. B = NewCollective(o)
      BY <2>2
    <3>2. args[o].num_local_devices \in 1 .. MAX_RANK_SIZE /\ MAX_RANK_SIZE \in Nat
      BY CasesAssumption DEF Control, Types
    <3>3. /\ B.key = key /\ B.participants = <<>> /\ B.status = "OK"
          /\ B.num_local_devices = args[o].num_local_devices
          /\ B = [key |-> B.key, data_type |-> B.data_type, reduction_op |-> B.reduction_op,
                  num_local_devices |-> B.num_local_devices,
                  participants |-> B.participants, status |-> B.status]
      BY <3>1 DEF NewCollective
    <3>. HIDE DEF B
    <3>4. Len(B.participants) = 0 /\ 1 .. Len(B.participants) = {}
      BY <3>3
    <3>5. Collective(B)
      BY <3>2, <3>3, <3>4, NoOps DEF Collective, Statuses
    <3>6. AllAgree(B)
      BY <3>4 DEF AllAgree
    <3>7. Len(B.participants) \in 0 .. B.num_local_devices - 1
      BY <3>2, <3>3, <3>4
    <3>. QED  BY <2>2, <3>3, <3>4, <3>5, <3>6, <3>7
  <2>. QED  BY <2>1, <2>2
<1>2. A = Joined(B, o)
  BY DEF Assembled
<1>3. key \in DOMAIN collectives_ => B = collectives_[key]
  OBVIOUS
<1>. HIDE DEF A, B
<1>. DEFINE n == Len(B.participants)
<1>4. B.participants \in Seq(Ops) /\ n \in Nat /\ B.num_local_devices \in 1 .. MAX_RANK_SIZE
  BY <1>1 DEF Collective
<1>5. n < B.num_local_devices /\ B.num_local_devices \in Nat
  BY <1>1, <1>4, CasesAssumption
<1>6. /\ A = [key |-> A.key, data_type |-> A.data_type, reduction_op |-> A.reduction_op,
              num_local_devices |-> A.num_local_devices,
              participants |-> A.participants, status |-> A.status]
      /\ A.key = B.key /\ A.data_type = B.data_type /\ A.reduction_op = B.reduction_op
      /\ A.num_local_devices = B.num_local_devices
      /\ A.participants = Append(B.participants, o)
      /\ A.status = IF Agrees(B, o) THEN B.status ELSE "InvalidArgument"
  <2>1. A = [[B EXCEPT !.status = IF Agrees(B, o) /\ n < B.num_local_devices
                                  THEN B.status ELSE "InvalidArgument"]
               EXCEPT !.participants = Append(B.participants, o)]
    BY <1>1, <1>2 DEF Joined, Collective
  <2>2. A = [key |-> B.key, data_type |-> B.data_type, reduction_op |-> B.reduction_op,
             num_local_devices |-> B.num_local_devices,
             participants |-> Append(B.participants, o),
             status |-> IF Agrees(B, o) THEN B.status ELSE "InvalidArgument"]
    BY <1>1, <1>5, <2>1 DEF Collective
  <2>. QED  BY <2>2
<1>7. /\ A.participants \in Seq(Ops) /\ Len(A.participants) = n + 1
      /\ \A j \in 1 .. n : A.participants[j] = B.participants[j]
      /\ A.participants[n + 1] = o
  BY <1>4, <1>6
<1>8. \A j \in 1 .. n + 1 : j \in 1 .. n \/ j = n + 1
  BY <1>4
<1>9. \A j \in 1 .. n : j \in 1 .. n + 1 /\ j # n + 1
  BY <1>4
<1>10. n + 1 \in 1 .. n + 1
  BY <1>4
<1>11. Collective(A)
  <2>1. \A j \in 1 .. n + 1 : args[A.participants[j]].key = A.key
    BY <1>1, <1>6, <1>7, <1>8 DEF Collective
  <2>2. \A j, k \in 1 .. n + 1 : A.participants[j] = A.participants[k] => j = k
    <3>. SUFFICES ASSUME NEW j \in 1 .. n + 1, NEW k \in 1 .. n + 1,
                         A.participants[j] = A.participants[k]
                  PROVE  j = k
      OBVIOUS
    <3>1. CASE j \in 1 .. n /\ k \in 1 .. n
      BY <1>1, <1>7, <3>1 DEF Collective
    <3>2. CASE j = n + 1 /\ k \in 1 .. n
      BY <1>1, <1>7, <3>2
    <3>3. CASE j \in 1 .. n /\ k = n + 1
      BY <1>1, <1>7, <3>3
    <3>. QED  BY <1>8, <3>1, <3>2, <3>3
  <2>3. A.status \in Statuses
    BY <1>1, <1>6 DEF Collective, Statuses
  <2>. QED  BY <1>4, <1>6, <1>7, <2>1, <2>2, <2>3 DEF Collective
<1>12. AllAgree(A) <=> AllAgree(B) /\ Agrees(B, o)
  <2>1. \A p : Agrees(A, p) <=> Agrees(B, p)
    BY <1>6 DEF Agrees
  <2>2. AllAgree(A) <=> \A j \in 1 .. n + 1 : Agrees(B, A.participants[j])
    BY <1>7, <2>1 DEF AllAgree
  <2>3. AllAgree(B) <=> \A j \in 1 .. n : Agrees(B, B.participants[j])
    BY DEF AllAgree
  <2>. QED  BY <1>7, <1>8, <1>9, <1>10, <2>2, <2>3
<1>13. A.status = "OK" <=> AllAgree(A)
  BY <1>1, <1>6, <1>12
<1>14. Len(A.participants) \in 1 .. A.num_local_devices /\ Len(A.participants) - 1 = n
  BY <1>4, <1>5, <1>6, <1>7
<1>15. ASSUME NEW j \in 1 .. n
       PROVE  /\ key \in DOMAIN collectives_
              /\ j \in 1 .. Len(collectives_[key].participants)
              /\ A.participants[j] = collectives_[key].participants[j]
              /\ A.participants[j] # o
  <2>1. key \in DOMAIN collectives_
    BY <1>1
  <2>. QED  BY <1>1, <1>3, <1>7, <2>1
<1>16. \A p : Agrees(A, p) <=> Agrees(B, p)
  BY <1>6 DEF Agrees
<1>. QED  BY <1>1, <1>6, <1>7, <1>11, <1>13, <1>14, <1>15, <1>16 DEF A, B

\* AddParticipant keeps the control invariant: it founds, joins or completes a
\* collective, and only the thread that completes it goes on.
LEMMA ControlAddParticipant ==
  ASSUME Control, Types', NEW o \in Ops, AddParticipant(o)
  PROVE  Control'
<1>. DEFINE key == args[o].key
            A == Assembled(o)
            n == Len(A.participants)
<1>1. thread[o].pc = "Ready" /\ args' = args /\ callback' = callback
  BY AddParticipantDoes DEF AddParticipant
<1>2. /\ Collective(A) /\ A.key = key
      /\ n \in 1 .. A.num_local_devices
      /\ A.status = "OK" <=> AllAgree(A)
      /\ A.participants[n] = o
      /\ \A j \in 1 .. n - 1 :
           /\ key \in DOMAIN collectives_
           /\ j \in 1 .. Len(collectives_[key].participants)
           /\ A.participants[j] = collectives_[key].participants[j]
           /\ A.participants[j] # o
  BY <1>1, AssembledIs
<1>3. /\ Ready(A) =>
           /\ collectives_' = [k \in DOMAIN collectives_ \ {key} |-> collectives_[k]]
           /\ Moved(o, IF A.status = "OK" THEN "BarrierTensor" ELSE "Callback", 1, NoEvent, A)
      /\ ~Ready(A) =>
           /\ collectives_' = [k \in DOMAIN collectives_ \union {key} |->
                                 IF k = key THEN A ELSE collectives_[k]]
           /\ Moved(o, "Returned", 0, NoEvent, NoCollective)
  BY AddParticipantDoes
<1>. HIDE DEF A
<1>4. Members(o) = <<>> /\ Ranks(o) = {}
  <2>1. NotRunning(o) /\ thread[o].pc \notin Running
    BY <1>1 DEF Control, Running, Looping, Waiting
  <2>. QED  BY <2>1 DEF NotRunning, Ranks
<1>5. callback[o] = <<>>
  BY <1>1 DEF Control, NotJoined, Joining
<1>6. A.participants \in Seq(Ops) /\ n \in Nat \ {0} /\ A.num_local_devices \in Nat
  BY <1>2, CasesAssumption DEF Collective
<1>7. /\ \A j \in 1 .. n : j \in 1 .. n - 1 \/ j = n
      /\ \A j \in 1 .. n : A.participants[j] \in Ops
  BY <1>6
<1>8. ASSUME NEW j \in 1 .. n
      PROVE  /\ callback[A.participants[j]] = <<>>
             /\ j # n => thread[A.participants[j]].pc \notin Joining
             /\ \A r \in Ops : \A m \in Ranks(r) : Members(r)[m] # A.participants[j]
  <2>1. CASE j = n
    <3>1. ASSUME NEW r \in Ops, NEW m \in Ranks(r) PROVE Members(r)[m] # o
      <4>1. thread[r].pc \in Running
        BY <3>1 DEF Control, NotRunning, Ranks
      <4>2. thread[Members(r)[m]].pc \notin Joining
        BY <4>1 DEF Control, RunsCollective
      <4>. QED  BY <1>1, <4>2 DEF Joining
    <3>. QED  BY <1>2, <1>5, <2>1, <3>1
  <2>2. CASE j \in 1 .. n - 1
    BY <1>2, <2>2 DEF Control, Assembling
  <2>. QED  BY <1>7, <2>1, <2>2
<1>9. \A r \in Ops \ {o} : thread'[r] = thread[r] /\ Members(r)' = Members(r) /\ Ranks(r)' = Ranks(r)
  BY <1>3 DEF Moved, Members, Ranks
<1>10. thread'[o].pc \notin Joining
  BY <1>3 DEF Moved, Joining
<1>11. \A r \in Ops : thread[r].pc \notin Joining => thread'[r].pc \notin Joining
  BY <1>9, <1>10
<1>12. \/ Ready(A) /\ Members(o)' = A.participants /\ Ranks(o)' = 1 .. n
       \/ ~Ready(A) /\ Members(o)' = <<>> /\ Ranks(o)' = {}
  BY <1>3 DEF Moved, Members, Ranks, NoCollective
<1>13. ASSUME NEW k \in DOMAIN collectives_, k # key,
              NEW j \in 1 .. Len(collectives_[k].participants)
       PROVE  /\ collectives_[k].participants[j] \in Ops
              /\ collectives_[k].participants[j] # o
              /\ thread'[collectives_[k].participants[j]].pc \notin Joining
              /\ callback[collectives_[k].participants[j]] = <<>>
              /\ \A r \in Ops : \A m \in Ranks(r)' :
                   Members(r)'[m] # collectives_[k].participants[j]
  <2>. DEFINE p == collectives_[k].participants[j]
  <2>1. /\ Collective(collectives_[k]) /\ collectives_[k].key = k
        /\ thread[p].pc \notin Joining /\ callback[p] = <<>>
        /\ \A r \in Ops : \A m \in Ranks(r) : Members(r)[m] # p
    BY DEF Control, Assembling
  <2>2. p \in Ops /\ args[p].key = k
    BY <2>1 DEF Collective
  <2>3. p # o
    BY <1>1, <2>1 DEF Joining
  <2>4. \A m \in 1 .. n : A.participants[m] # p
    BY <1>2, <2>2, <1>13 DEF Collective
  <2>5. \A r \in Ops : \A m \in Ranks(r)' : Members(r)'[m] # p
    BY <1>9, <1>12, <2>1, <2>4
  <2>. QED  BY <1>11, <2>1, <2>2, <2>3, <2>5
<1>14. Assembling'
  <2>. SUFFICES ASSUME NEW k \in DOMAIN collectives_', NEW d, d = collectives_'[k]
                PROVE  /\ Collective(d)'
                       /\ d.key = k
                       /\ Len(d.participants) \in 1 .. d.num_local_devices - 1
                       /\ d.status = "OK" <=> AllAgree(d)'
                       /\ \A j \in 1 .. Len(d.participants) :
                            /\ thread'[d.participants[j]].pc \notin Joining
                            /\ callback'[d.participants[j]] = <<>>
                            /\ \A r \in Ops : \A m \in Ranks(r)' :
                                 Members(r)'[m] # d.participants[j]
    BY DEF Assembling, Collective, AllAgree, Agrees
  <2>1. CASE k # key
    <3>1. k \in DOMAIN collectives_ /\ collectives_'[k] = collectives_[k]
      BY <1>3, <2>1
    <3>2. /\ Collective(d)
          /\ d.key = k
          /\ Len(d.participants) \in 1 .. d.num_local_devices - 1
          /\ d.status = "OK" <=> AllAgree(d)
      BY <3>1 DEF Control, Assembling
    <3>. QED  BY <1>1, <1>13, <2>1, <3>1, <3>2, Fixed
  <2>2. CASE k = key
    <3>1. ~Ready(A) /\ collectives_'[k] = A
      BY <1>3, <2>2
    <3>2. Len(A.participants) \in 1 .. A.num_local_devices - 1
      BY <1>2, <1>6, <3>1 DEF Ready
    <3>3. ASSUME NEW j \in 1 .. n
          PROVE  /\ thread'[A.participants[j]].pc \notin Joining
                 /\ callback'[A.participants[j]] = <<>>
                 /\ \A r \in Ops : \A m \in Ranks(r)' : Members(r)'[m] # A.participants[j]
      <4>1. thread'[A.participants[j]].pc \notin Joining
        BY <1>2, <1>7, <1>8, <1>10, <1>11
      <4>2. \A r \in Ops : \A m \in Ranks(r)' : Members(r)'[m] # A.participants[j]
        BY <1>8, <1>9, <1>12, <3>1
      <4>. QED  BY <1>1, <1>8, <4>1, <4>2
    <3>. QED  BY <1>1, <1>2, <2>2, <3>1, <3>2, <3>3, Fixed
  <2>. QED  BY <2>1, <2>2
<1>15. Disjoint'
  <2>. SUFFICES ASSUME NEW r \in Ops, NEW q \in Ops, NEW j \in Ranks(r)', NEW k \in Ranks(q)',
                       Members(r)'[j] = Members(q)'[k], r # q
                PROVE  FALSE
    BY DEF Disjoint
  <2>1. CASE r # o /\ q # o
    BY <1>9, <2>1 DEF Control, Disjoint
  <2>2. CASE r = o
    BY <1>8, <1>9, <1>12, <2>2
  <2>3. CASE q = o
    BY <1>8, <1>9, <1>12, <2>3
  <2>. QED  BY <2>1, <2>2, <2>3
<1>16. ASSUME NEW r \in Ops PROVE NotRunning(r)' /\ NotJoined(r)'
  <2>1. NotRunning(r) /\ NotJoined(r)
    BY DEF Control
  <2>2. CASE r = o
    <3>1. NotJoined(o)'
      BY <1>10 DEF NotJoined
    <3>2. NotRunning(o)'
      BY <1>3, <1>12 DEF NotRunning, Moved, Running, Looping
    <3>. QED  BY <2>2, <3>1, <3>2
  <2>3. CASE r # o
    BY <1>1, <1>9, <2>1, <2>3 DEF NotRunning, NotJoined
  <2>. QED  BY <2>2, <2>3
<1>17. ASSUME NEW r \in Ops PROVE RunsCollective(r)'
  <2>. SUFFICES ASSUME thread'[r].pc \in Running PROVE RunsCollective(r)'
    BY DEF RunsCollective
  <2>1. CASE r = o
    <3>1. Ready(A)
      BY <1>3, <2>1 DEF Moved, Running, Looping, Waiting
    <3>2. /\ thread'[o].pc = IF A.status = "OK" THEN "BarrierTensor" ELSE "Callback"
          /\ thread'[o].i = 1 /\ thread'[o].collective = A
          /\ Members(o)' = A.participants /\ Ranks(o)' = 1 .. n
      BY <1>3, <1>12, <3>1 DEF Moved
    <3>3. n = A.num_local_devices
      BY <3>1 DEF Ready
    <3>4. /\ Collective(thread[o].collective)'
          /\ AllAgree(thread[o].collective)' <=> AllAgree(A)
      BY <1>1, <1>2, <3>2 DEF Collective, AllAgree, Agrees
    <3>5. ASSUME NEW j \in 1 .. n
          PROVE  /\ thread'[A.participants[j]].pc \notin Joining
                 /\ callback'[A.participants[j]] = <<>>
                 /\ ~(j < 1)
      BY <1>1, <1>2, <1>7, <1>8, <1>10, <1>11
    <3>6. thread'[o].pc \in {"BarrierTensor", "Callback"} /\ thread'[o].pc \notin Waiting
      BY <3>2 DEF Waiting
    <3>7. 1 \in 1 .. n
      BY <1>6
    <3>8. RunsCollective(o)'
      BY <1>2, <3>2, <3>3, <3>4, <3>5, <3>6, <3>7 DEF RunsCollective
    <3>. QED  BY <2>1, <3>8
  <2>2. CASE r # o
    <3>1. thread'[r] = thread[r] /\ RunsCollective(r) /\ thread[r].pc \in Running
      BY <1>9, <2>2 DEF Control
    <3>2. \A j \in Ranks(r) : Members(r)[j] \in Ops
      BY <3>1, AtParticipant
    <3>3. \A j \in Ranks(r) : thread'[Members(r)[j]].pc \notin Joining
      BY <1>11, <3>1, <3>2 DEF RunsCollective
    <3>4. Collective(thread[r].collective)'
      BY <1>1, <3>1 DEF RunsCollective, Collective
    <3>5. /\ AllAgree(thread[r].collective)' <=> AllAgree(thread[r].collective)
          /\ SameNumElements(thread[r].collective)' <=> SameNumElements(thread[r].collective)
      BY <1>1, <3>1 DEF AllAgree, Agrees, SameNumElements
    <3>6. Ranks(r)' = Ranks(r) /\ Members(r)' = Members(r)
      BY <1>9, <2>2
    <3>. QED  BY <1>1, <3>1, <3>3, <3>4, <3>5, <3>6 DEF RunsCollective
  <2>. QED  BY <2>1, <2>2
<1>. QED  BY <1>14, <1>15, <1>16, <1>17 DEF Control

\* A thread waits for the next stream, or is done with its waits.
LEMMA ControlWaitEach ==
  ASSUME Control, Types', NEW o \in Ops, thread[o].pc \in Waiting,
         NEW then \in {"Launch", "JoinComm"}, WaitEach(o, then)
  PROVE  Control'
<1>1. /\ thread[o].pc \in Running \ {"Callback"} /\ then \in Running
      /\ thread[o].pc \notin {"BarrierTensor", "BarrierComm", "Callback"}
      /\ then \notin Waiting /\ then # "Callback"
  BY DEF Running, Looping, Waiting
<1>2. /\ SameNumElements(thread[o].collective)
      /\ UNCHANGED <<args, collectives_, callback>>
  BY <1>1 DEF Control, RunsCollective, WaitEach
<1>3. CASE /\ thread[o].i \in Ranks(o)
           /\ Moved(o, thread[o].pc, thread[o].i + 1,
                    LastEvent(comm_stream(Members(o)[thread[o].i])), thread[o].collective)
  <2>1. thread[o].i + 1 \in 1 .. Len(Members(o)) + (IF thread[o].pc \in Waiting THEN 1 ELSE 0)
    BY <1>1, <1>3, AtParticipant DEF Ranks
  <2>. QED  BY <1>1, <1>2, <1>3, <2>1, ControlMoves
<1>4. CASE Moved(o, then, 1, NoEvent, thread[o].collective)
  <2>1. 1 \in 1 .. Len(Members(o)) + (IF then \in Waiting THEN 1 ELSE 0)
    BY <1>1, AtParticipant
  <2>. QED  BY <1>1, <1>2, <1>4, <2>1, ControlMoves
<1>. QED  BY <1>3, <1>4, WaitEachDoes

\* Every step keeps the part Control of the invariant.
LEMMA ControlStep == Control /\ [Next]_vars => Control'
<1>. SUFFICES ASSUME Control, [Next]_vars PROVE Control'
  OBVIOUS
<1>0. Types'
  BY TypesStep
<1>1. \A o \in Ops : thread[o].pc \in Looping =>
        /\ thread[o].i \in 1 .. Len(Members(o)) /\ thread[o].i \in Nat
        /\ Len(Members(o)) \in Nat \ {0}
  BY AtParticipant DEF Running, Ranks
<1>2. ASSUME NEW o \in Ops, BarrierTensor(o) PROVE Control'
  <2>1. /\ thread[o].pc = "BarrierTensor"
        /\ Moved(o, "BarrierComm", thread[o].i, thread[o].event, thread[o].collective)
        /\ UNCHANGED <<args, collectives_, callback>>
    BY <1>2, BarrierTensorDoes DEF BarrierTensor
  <2>2. /\ thread[o].pc \in Running \ {"Callback"} /\ thread[o].pc \in Looping
        /\ "BarrierComm" \in Running /\ "BarrierComm" \notin Waiting
    BY <2>1 DEF Running, Looping, Waiting
  <2>3. thread[o].i \in 1 .. Len(Members(o)) + (IF "BarrierComm" \in Waiting THEN 1 ELSE 0)
    BY <1>1, <2>2
  <2>. QED  BY <1>0, <2>1, <2>2, <2>3, ControlMoves
<1>3. ASSUME NEW o \in Ops, BarrierComm(o) PROVE Control'
  <2>1. /\ thread[o].pc = "BarrierComm"
        /\ UNCHANGED <<args, collectives_, callback>>
    BY <1>3, BarrierCommDoes DEF BarrierComm
  <2>2. /\ thread[o].pc \in Running \ {"Callback"} /\ thread[o].pc \in Looping
        /\ {"BarrierTensor", "WaitInputs", "Callback"} \subseteq Running
        /\ "BarrierTensor" \notin Waiting /\ "Callback" \notin Waiting
    BY <2>1 DEF Running, Looping, Waiting
  <2>3. 1 \in 1 .. Len(Members(o)) /\ 1 \in 1 .. Len(Members(o)) + 1
    BY <1>1, <2>2
  <2>4. CASE /\ thread[o].i < Len(Members(o))
             /\ Moved(o, "BarrierTensor", thread[o].i + 1, thread[o].event,
                      thread[o].collective)
    <3>1. thread[o].i + 1 \in 1 .. Len(Members(o)) + (IF "BarrierTensor" \in Waiting THEN 1 ELSE 0)
      BY <1>1, <2>2, <2>4
    <3>. QED  BY <1>0, <2>1, <2>2, <2>4, <3>1, ControlMoves
  <2>5. CASE /\ SameNumElements(thread[o].collective)
             /\ Moved(o, "WaitInputs", 1, NoEvent, thread[o].collective)
    <3>1. 1 \in 1 .. Len(Members(o)) + (IF "WaitInputs" \in Waiting THEN 1 ELSE 0)
      BY <2>3 DEF Waiting
    <3>. QED  BY <1>0, <2>1, <2>2, <2>5, <3>1, ControlMoves
  <2>6. CASE /\ ~SameNumElements(thread[o].collective)
             /\ Moved(o, "Callback", 1, NoEvent,
                      [thread[o].collective EXCEPT !.status = "InvalidArgument"])
    <3>1. 1 \in 1 .. Len(Members(o)) + (IF "Callback" \in Waiting THEN 1 ELSE 0)
      BY <1>1, <2>2
    <3>. QED  BY <1>0, <2>1, <2>2, <2>6, <3>1, ControlMoves
  <2>. QED  BY <1>3, <2>4, <2>5, <2>6, BarrierCommDoes
<1>4. ASSUME NEW o \in Ops, WaitInputs(o) PROVE Control'
  BY <1>0, <1>4, ControlWaitEach DEF WaitInputs, At, Waiting
<1>5. ASSUME NEW o \in Ops, LaunchKernel(o) PROVE Control'
  <2>1. /\ thread[o].pc = "Launch"
        /\ UNCHANGED <<args, collectives_, callback>>
    BY <1>5, LaunchKernelDoes DEF LaunchKernel
  <2>2. /\ thread[o].pc \in Running \ {"Callback"} /\ thread[o].pc \in Looping
        /\ {"Launch", "WaitKernels"} \subseteq Running
        /\ "Launch" \notin Waiting
    BY <2>1 DEF Running, Looping, Waiting
  <2>3. SameNumElements(thread[o].collective)
    BY <2>1, <2>2 DEF Control, RunsCollective
  <2>4. CASE /\ thread[o].i < Len(Members(o))
             /\ Moved(o, "Launch", thread[o].i + 1, thread[o].event, thread[o].collective)
    <3>1. thread[o].i + 1 \in 1 .. Len(Members(o)) + (IF "Launch" \in Waiting THEN 1 ELSE 0)
      BY <1>1, <2>2, <2>4
    <3>. QED  BY <1>0, <2>1, <2>2, <2>3, <2>4, <3>1, ControlMoves
  <2>5. CASE Moved(o, "WaitKernels", 1, NoEvent, thread[o].collective)
    <3>1. 1 \in 1 .. Len(Members(o)) + (IF "WaitKernels" \in Waiting THEN 1 ELSE 0)
      BY <1>1, <2>2
    <3>. QED  BY <1>0, <2>1, <2>2, <2>3, <2>5, <3>1, ControlMoves
  <2>. QED  BY <1>5, <2>4, <2>5, LaunchKernelDoes
<1>6. ASSUME NEW o \in Ops, WaitKernels(o) PROVE Control'
  BY <1>0, <1>6, ControlWaitEach DEF WaitKernels, At, Waiting
<1>7. ASSUME NEW o \in Ops, JoinComm(o) PROVE Control'
  <2>1. /\ thread[o].pc = "JoinComm"
        /\ Moved(o, "JoinTensor", thread[o].i, thread[o].event, thread[o].collective)
        /\ UNCHANGED <<args, collectives_, callback>>
    BY <1>7, JoinCommDoes DEF JoinComm
  <2>2. /\ thread[o].pc \in Running \ {"Callback"} /\ thread[o].pc \in Looping
        /\ "JoinTensor" \in Running /\ "JoinTensor" \notin Waiting
    BY <2>1 DEF Running, Looping, Waiting
  <2>3. thread[o].i \in 1 .. Len(Members(o)) + (IF "JoinTensor" \in Waiting THEN 1 ELSE 0)
    BY <1>1, <2>2
  <2>4. SameNumElements(thread[o].collective)
    BY <2>1, <2>2 DEF Control, RunsCollective
  <2>. QED  BY <1>0, <2>1, <2>2, <2>3, <2>4, ControlMoves
<1>8. ASSUME NEW o \in Ops, JoinTensor(o) PROVE Control'
  <2>1. /\ thread[o].pc = "JoinTensor"
        /\ UNCHANGED <<args, collectives_, callback>>
    BY <1>8, JoinTensorDoes DEF JoinTensor
  <2>2. /\ thread[o].pc \in Running \ {"Callback"} /\ thread[o].pc \in Looping
        /\ {"JoinComm", "Callback"} \subseteq Running
        /\ "JoinComm" \notin Waiting /\ "Callback" \notin Waiting
    BY <2>1 DEF Running, Looping, Waiting
  <2>3. SameNumElements(thread[o].collective)
    BY <2>1, <2>2 DEF Control, RunsCollective
  <2>4. CASE /\ thread[o].i < Len(Members(o))
             /\ Moved(o, "JoinComm", thread[o].i + 1, thread[o].event, thread[o].collective)
    <3>1. thread[o].i + 1 \in 1 .. Len(Members(o)) + (IF "JoinComm" \in Waiting THEN 1 ELSE 0)
      BY <1>1, <2>2, <2>4
    <3>. QED  BY <1>0, <2>1, <2>2, <2>3, <2>4, <3>1, ControlMoves
  <2>5. CASE Moved(o, "Callback", 1, NoEvent, thread[o].collective)
    <3>1. 1 \in 1 .. Len(Members(o)) + (IF "Callback" \in Waiting THEN 1 ELSE 0)
      BY <1>1, <2>2
    <3>. QED  BY <1>0, <2>1, <2>2, <2>3, <2>5, <3>1, ControlMoves
  <2>. QED  BY <1>8, <2>4, <2>5, JoinTensorDoes
<1>9. ASSUME NEW o \in Ops, LaunchConsumer(o) PROVE Control'
  BY <1>0, <1>9, ControlStays DEF LaunchConsumer
<1>10. ASSUME NEW s \in Streams, Execute(s) PROVE Control'
  BY <1>0, <1>10, ControlStays DEF Execute
<1>11. CASE UNCHANGED vars
  BY <1>0, <1>11, ControlStays DEF vars
<1>. QED
  BY <1>0, <1>2, <1>3, <1>4, <1>5, <1>6, <1>7, <1>8, <1>9, <1>10, <1>11,
     ControlLaunchProducer, ControlAllocateFails, ControlAddParticipant, ControlCallback
     DEF Next, ThreadStep

-----------------------------------------------------------------------------
(* The commands in the streams *)

\* The commands after a submission are those before it, and the new one.
LEMMA AfterSubmit ==
  ASSUME Types, NEW s, NEW command, Submitted(s, command), NEW t \in Streams
  PROVE  /\ Len(queue[t]) \in Nat /\ Len(queue'[t]) \in Nat
         /\ Len(queue[t]) <= Len(queue'[t])
         /\ \A k \in 1 .. Len(queue[t]) :
              k \in 1 .. Len(queue'[t]) /\ queue'[t][k] = queue[t][k]
         /\ \A k \in 1 .. Len(queue'[t]) :
              \/ k \in 1 .. Len(queue[t]) /\ queue'[t][k] = queue[t][k]
              \/ t = s /\ k = Len(queue[t]) + 1 /\ queue'[t][k] = command
<1>1. queue[t] \in Seq(Commands) /\ queue'[t] \in Seq(Commands)
  BY DEF Types, Submitted
<1>2. Len(queue[t]) \in Nat /\ Len(queue'[t]) \in Nat
  BY <1>1
<1>3. CASE t = s
  BY <1>2, <1>3 DEF Submitted
<1>4. CASE t # s
  BY <1>2, <1>4 DEF Submitted
<1>. QED  BY <1>3, <1>4

\* The commands after an execution are those behind the head of the stream, and
\* those of the other streams.
LEMMA AfterExecute ==
  ASSUME Types, NEW s, Executed(s), NEW t \in Streams
  PROVE  /\ Len(queue[t]) \in Nat /\ Len(queue'[t]) \in Nat
         /\ t # s => queue'[t] = queue[t]
         /\ t = s =>
              /\ Len(queue[t]) = Len(queue'[t]) + 1
              /\ \A k \in 1 .. Len(queue'[t]) :
                   k + 1 \in 1 .. Len(queue[t]) /\ queue'[t][k] = queue[t][k + 1]
              /\ \A k \in 1 .. Len(queue[t]) : k # 1 =>
                   k - 1 \in 1 .. Len(queue'[t]) /\ queue'[t][k - 1] = queue[t][k]
<1>1. queue[t] \in Seq(Commands) /\ queue'[t] \in Seq(Commands)
  BY DEF Types, Executed
<1>2. Len(queue[t]) \in Nat /\ Len(queue'[t]) \in Nat
  BY <1>1
<1>3. CASE t = s
  <2>1. Len(queue[t]) = Len(queue'[t]) + 1
    BY <1>2, <1>3 DEF Executed
  <2>2. \A k \in 1 .. Len(queue'[t]) :
          k + 1 \in 1 .. Len(queue[t]) /\ queue'[t][k] = queue[t][k + 1]
    BY <1>2, <1>3, <2>1 DEF Executed
  <2>3. ASSUME NEW k \in 1 .. Len(queue[t]), k # 1
        PROVE  k - 1 \in 1 .. Len(queue'[t]) /\ queue'[t][k - 1] = queue[t][k]
    <3>1. k - 1 \in 1 .. Len(queue'[t]) /\ (k - 1) + 1 = k
      BY <1>2, <2>1, <2>3
    <3>. QED  BY <2>2, <3>1
  <2>. QED  BY <1>2, <1>3, <2>1, <2>2, <2>3
<1>4. CASE t # s
  BY <1>2, <1>4 DEF Executed
<1>. QED  BY <1>3, <1>4

\* The type of what is queued.
LEMMA QueuedType ==
  ASSUME Types, NEW s \in Streams, NEW k \in 1 .. Len(queue[s])
  PROVE  /\ queue[s][k] \in Commands
         /\ queue[s][k].event \in Kinds \X Ops
         /\ queue[s][k].event[1] \in Kinds /\ queue[s][k].event[2] \in Ops
         /\ queue[s][k].event = <<queue[s][k].event[1], queue[s][k].event[2]>>
<1>1. queue[s] \in Seq(Commands)
  BY DEF Types
<1>2. queue[s][k] \in Commands
  BY <1>1
<1>3. queue[s][k].event \in Kinds \X Ops
  BY <1>2 DEF Commands
<1>. QED  BY <1>2, <1>3

-----------------------------------------------------------------------------
(* The kernels that are not executed yet *)

\* A step of somebody who launches no kernels, and does not wait for them.
LEMMA KernelsKept ==
  ASSUME Control, Kernels, args' = args,
         \A r \in Ops : thread[r].pc \in {"Launch", "WaitKernels"} => thread'[r] = thread[r],
         \/ queue' = queue
         \/ \E s, command : Submitted(s, command) /\ command.event[1] # "reduce"
  PROVE  Kernels'
<1>. SUFFICES ASSUME NEW t \in Streams, NEW k \in 1 .. Len(queue'[t]),
                     queue'[t][k].event[1] = "reduce"
              PROVE  \E r \in Ops : \E j \in Ranks(r)' : Launched(t, k, r, j)'
  BY DEF Kernels
<1>1. /\ k \in 1 .. Len(queue[t]) /\ queue'[t][k] = queue[t][k]
      /\ \A m \in k .. Len(queue[t]) :
           m \in k .. Len(queue'[t]) /\ queue'[t][m] = queue[t][m]
  <2>1. CASE queue' = queue
    BY <2>1
  <2>2. CASE queue' # queue
    <3>1. PICK s, command : Submitted(s, command) /\ command.event[1] # "reduce"
      BY <2>2
    <3>2. /\ Len(queue[t]) \in Nat /\ Len(queue'[t]) \in Nat
          /\ Len(queue[t]) <= Len(queue'[t])
          /\ \A m \in 1 .. Len(queue[t]) : queue'[t][m] = queue[t][m]
          /\ k \in 1 .. Len(queue[t]) /\ queue'[t][k] = queue[t][k]
      BY <3>1, AfterSubmit DEF Control
    <3>3. \A m \in k .. Len(queue[t]) : m \in 1 .. Len(queue[t]) /\ m \in k .. Len(queue'[t])
      BY <3>2
    <3>. QED  BY <3>2, <3>3
  <2>. QED  BY <2>1, <2>2
<1>2a. PICK r \in Ops : \E j \in Ranks(r) : Launched(t, k, r, j)
  BY <1>1 DEF Kernels
<1>2. PICK j \in Ranks(r) : Launched(t, k, r, j)
  BY <1>2a
<1>3. thread'[r] = thread[r]
  BY <1>2 DEF Launched
<1>4. Members(r)' = Members(r) /\ Ranks(r)' = Ranks(r)
  BY <1>3 DEF Members, Ranks
<1>5. Launched(t, k, r, j)'
  BY <1>1, <1>2, <1>3, <1>4 DEF Launched, comm_stream
<1>. QED  BY <1>4, <1>5

\* LaunchKernel keeps what is known of kernels in flight.
LEMMA KernelsLaunchKernel ==
  ASSUME Control, Kernels, NEW o \in Ops, LaunchKernel(o)
  PROVE  Kernels'
<1>. DEFINE i == thread[o].i
            reduce == Command("reduce", participant(o), NoEvent, Members(o))
<1>. SUFFICES ASSUME NEW t \in Streams, NEW k \in 1 .. Len(queue'[t]),
                     queue'[t][k].event[1] = "reduce"
              PROVE  \E r \in Ops : \E j \in Ranks(r)' : Launched(t, k, r, j)'
  BY DEF Kernels
<1>1. /\ thread[o].pc = "Launch" /\ args' = args
      /\ \/ queue' = queue
         \/ Submitted(comm_stream(participant(o)), reduce)
      /\ \/ /\ i < Len(Members(o))
            /\ Moved(o, "Launch", i + 1, thread[o].event, thread[o].collective)
         \/ /\ i = Len(Members(o))
            /\ Moved(o, "WaitKernels", 1, NoEvent, thread[o].collective)
  BY LaunchKernelDoes DEF LaunchKernel
<1>2. /\ i \in Ranks(o) /\ participant(o) = Members(o)[i] /\ participant(o) \in Ops
      /\ Members(o) \in Seq(Ops)
      /\ i \in Nat \ {0} /\ Len(Members(o)) \in Nat
  BY <1>1, AtParticipant DEF Running, Looping
<1>3. \A r \in Ops : Members(r)' = Members(r) /\ Ranks(r)' = Ranks(r)
  BY <1>1 DEF Moved, Members, Ranks
<1>4. reduce.event = <<"reduce", participant(o)>> /\ reduce.ops = Members(o)
  BY DEF Command
<1>. HIDE DEF reduce
<1>5. \/ k \in 1 .. Len(queue[t]) /\ queue'[t][k] = queue[t][k]
      \/ t = comm_stream(participant(o)) /\ queue'[t][k] = reduce
  BY <1>1, AfterSubmit DEF Control
<1>6. \A j \in Ranks(o) : j <= i =>
        \/ thread'[o].pc = "Launch" /\ j < thread'[o].i
        \/ thread'[o].pc = "WaitKernels" /\ j >= thread'[o].i
  BY <1>1, <1>2 DEF Moved, Ranks
<1>7. CASE k \in 1 .. Len(queue[t]) /\ queue'[t][k] = queue[t][k]
  <2>1a. PICK r \in Ops : \E j \in Ranks(r) : Launched(t, k, r, j)
    BY <1>7 DEF Kernels
  <2>1. PICK j \in Ranks(r) : Launched(t, k, r, j)
    BY <2>1a
  <2>2. CASE r = o
    <3>1. j < i
      BY <1>1, <2>1, <2>2 DEF Launched
    <3>2. j <= i
      BY <1>2, <2>2, <3>1 DEF Ranks
    <3>3. Launched(t, k, o, j)'
      BY <1>1, <1>3, <1>6, <1>7, <2>1, <2>2, <3>2 DEF Launched, comm_stream
    <3>. QED  BY <1>3, <2>2, <3>3
  <2>3. CASE r # o
    <3>1. thread'[r] = thread[r]
      BY <1>1, <2>3 DEF Moved
    <3>2. \A m \in k .. Len(queue[t]) : m \in k .. Len(queue'[t]) /\ queue'[t][m] = queue[t][m]
      <4>1. CASE queue' = queue
        BY <4>1
      <4>2. CASE Submitted(comm_stream(participant(o)), reduce)
        <5>1. /\ Len(queue[t]) \in Nat /\ Len(queue'[t]) \in Nat
              /\ Len(queue[t]) <= Len(queue'[t])
              /\ \A m \in 1 .. Len(queue[t]) : queue'[t][m] = queue[t][m]
          BY <4>2, AfterSubmit DEF Control
        <5>2. \A m \in k .. Len(queue[t]) : m \in 1 .. Len(queue[t]) /\ m \in k .. Len(queue'[t])
          BY <5>1
        <5>. QED  BY <5>1, <5>2
      <4>. QED  BY <1>1, <4>1, <4>2
    <3>3. Launched(t, k, r, j)'
      BY <1>1, <1>3, <1>7, <2>1, <3>1, <3>2 DEF Launched, comm_stream
    <3>. QED  BY <1>3, <3>3
  <2>. QED  BY <2>2, <2>3
<1>8. CASE t = comm_stream(participant(o)) /\ queue'[t][k] = reduce
  <2>1. PICK j \in Ranks(o) : j = i
    BY <1>2
  <2>2. j <= i
    BY <1>2, <2>1
  <2>3. Launched(t, k, o, j)'
    BY <1>1, <1>2, <1>3, <1>4, <1>6, <1>8, <2>1, <2>2 DEF Launched, comm_stream
  <2>. QED  BY <1>3, <2>3
<1>. QED  BY <1>5, <1>7, <1>8

\* WaitKernels keeps what is known of kernels in flight: the one waited for is done.
LEMMA KernelsWaitKernels ==
  ASSUME Control, Kernels, NEW o \in Ops, WaitKernels(o)
  PROVE  Kernels'
<1>. DEFINE i == thread[o].i
<1>. SUFFICES ASSUME NEW t \in Streams, NEW k \in 1 .. Len(queue[t]),
                     queue[t][k].event[1] = "reduce"
              PROVE  \E r \in Ops : \E j \in Ranks(r)' : Launched(t, k, r, j)'
  BY DEF Kernels, WaitKernels, WaitEach
<1>1. /\ thread[o].pc = "WaitKernels" /\ args' = args /\ queue' = queue
      /\ WaitEach(o, "JoinComm")
  BY DEF WaitKernels, WaitEach, At
<1>2. /\ ~Pending(thread[o].event)
      /\ \/ /\ i \in Ranks(o)
            /\ Members(o)[i] \in Ops
            /\ Moved(o, "WaitKernels", i + 1, LastEvent(comm_stream(Members(o)[i])),
                     thread[o].collective)
         \/ /\ i = Len(Members(o)) + 1
            /\ Moved(o, "JoinComm", 1, NoEvent, thread[o].collective)
  BY <1>1, WaitEachDoes DEF Waiting
<1>3. \A r \in Ops : Members(r)' = Members(r) /\ Ranks(r)' = Ranks(r)
  BY <1>2 DEF Moved, Members, Ranks
<1>4a. PICK r \in Ops : \E j \in Ranks(r) : Launched(t, k, r, j)
  BY DEF Kernels
<1>4. PICK j \in Ranks(r) : Launched(t, k, r, j)
  BY <1>4a
<1>5. CASE r # o
  <2>1. thread'[r] = thread[r]
    BY <1>2, <1>5 DEF Moved
  <2>2. Launched(t, k, r, j)'
    BY <1>1, <1>3, <1>4, <2>1 DEF Launched, comm_stream
  <2>. QED  BY <1>3, <2>2
<1>6. CASE r = o
  <2>1. i \in Nat /\ Len(Members(o)) \in Nat /\ j \in Nat /\ j <= Len(Members(o))
    BY <1>1, <1>6, AtParticipant DEF Running, Waiting, Ranks
  <2>2. Len(queue[t]) \in Nat
    <3>1. queue[t] \in Seq(Commands)
      BY DEF Control, Types
    <3>. QED  BY <3>1
  <2>3. j >= i
    <3>1. ASSUME NEW m \in k .. Len(queue[t]), queue[t][m].event = thread[o].event
          PROVE  FALSE
      <4>1. m \in 1 .. Len(queue[t])
        BY <2>2
      <4>. QED  BY <1>2, <3>1, <4>1 DEF Pending
    <3>. QED  BY <1>1, <1>4, <1>6, <3>1 DEF Launched
  <2>4. /\ i \in Ranks(o)
        /\ Moved(o, "WaitKernels", i + 1, LastEvent(comm_stream(Members(o)[i])),
                 thread[o].collective)
    BY <1>2, <2>1, <2>3
  <2>5. j >= i + 1 \/ j = i
    BY <2>1, <2>3
  <2>6. CASE j >= i + 1
    <3>1. Launched(t, k, o, j)'
      BY <1>1, <1>3, <1>4, <1>6, <2>4, <2>6 DEF Launched, comm_stream, Moved
    <3>. QED  BY <1>3, <1>6, <3>1
  <2>7. CASE j = i
    <3>1. t = comm_stream(Members(o)[i])
      BY <1>4, <1>6, <2>7 DEF Launched
    <3>2. queue[t] # <<>>
      BY <2>2
    <3>3. /\ Len(queue[t]) \in k .. Len(queue[t])
          /\ queue[t][Len(queue[t])].event = LastEvent(t)
      BY <2>2, <3>2 DEF LastEvent
    <3>4. thread'[o].i - 1 = i /\ thread'[o].event = LastEvent(t) /\ thread'[o].pc = "WaitKernels"
      BY <2>1, <2>4, <3>1 DEF Moved
    <3>5. Launched(t, k, o, j)'
      BY <1>1, <1>3, <1>4, <1>6, <2>7, <3>3, <3>4 DEF Launched, comm_stream
    <3>. QED  BY <1>3, <1>6, <3>5
  <2>. QED  BY <2>5, <2>6, <2>7
<1>. QED  BY <1>5, <1>6

\* Execute keeps what is known of kernels in flight.
LEMMA KernelsExecute ==
  ASSUME Control, Kernels, NEW s \in Streams, Execute(s)
  PROVE  Kernels'
<1>. SUFFICES ASSUME NEW t \in Streams, NEW k \in 1 .. Len(queue'[t]),
                     queue'[t][k].event[1] = "reduce"
              PROVE  \E r \in Ops : \E j \in Ranks(r)' : Launched(t, k, r, j)'
  BY DEF Kernels
<1>1. Executed(s) /\ args' = args /\ thread' = thread
  BY Executes DEF Control, Execute
<1>2. \A r \in Ops : Members(r)' = Members(r) /\ Ranks(r)' = Ranks(r)
  BY <1>1 DEF Members, Ranks
<1>3. CASE t # s
  <2>1. queue'[t] = queue[t]
    BY <1>1, <1>3 DEF Executed
  <2>2a. PICK r \in Ops : \E j \in Ranks(r) : Launched(t, k, r, j)
    BY <2>1 DEF Kernels
  <2>2. PICK j \in Ranks(r) : Launched(t, k, r, j)
    BY <2>2a
  <2>3. Launched(t, k, r, j)'
    BY <1>1, <1>2, <2>1, <2>2 DEF Launched, comm_stream
  <2>. QED  BY <1>2, <2>3
<1>4. CASE t = s
  <2>1. /\ Len(queue[t]) \in Nat /\ Len(queue'[t]) \in Nat
        /\ Len(queue[t]) = Len(queue'[t]) + 1
        /\ k + 1 \in 1 .. Len(queue[t]) /\ queue'[t][k] = queue[t][k + 1]
        /\ \A m \in 1 .. Len(queue[t]) : m # 1 =>
             m - 1 \in 1 .. Len(queue'[t]) /\ queue'[t][m - 1] = queue[t][m]
    BY <1>1, <1>4, AfterExecute DEF Control
  <2>2a. PICK r \in Ops : \E j \in Ranks(r) : Launched(t, k + 1, r, j)
    BY <2>1 DEF Kernels
  <2>2. PICK j \in Ranks(r) : Launched(t, k + 1, r, j)
    BY <2>2a
  <2>3. ASSUME NEW m \in k + 1 .. Len(queue[t])
        PROVE  m - 1 \in k .. Len(queue'[t]) /\ queue'[t][m - 1] = queue[t][m]
    <3>1. m \in 1 .. Len(queue[t]) /\ m # 1
      BY <2>1
    <3>. QED  BY <2>1, <3>1
  <2>4. Launched(t, k, r, j)'
    BY <1>1, <1>2, <2>1, <2>2, <2>3 DEF Launched, comm_stream
  <2>. QED  BY <1>2, <2>4
<1>. QED  BY <1>3, <1>4

\* Every step keeps the part Kernels of the invariant.
LEMMA KernelsStep == Control /\ Kernels /\ [Next]_vars => Kernels'
<1>. SUFFICES ASSUME Control, Kernels, [Next]_vars PROVE Kernels'
  OBVIOUS
<1>1. ASSUME NEW o \in Ops, LaunchProducer(o) PROVE Kernels'
  <2>1. /\ args' = args
        /\ \A r \in Ops : thread[r].pc \in {"Launch", "WaitKernels"} => thread'[r] = thread[r]
    BY <1>1, LaunchProducerDoes DEF LaunchProducer, Moved
  <2>2. Command("produce", o, NoEvent, <<o>>).event[1] # "reduce"
    BY DEF Command
  <2>. QED  BY <1>1, <2>1, <2>2, LaunchProducerDoes, KernelsKept
<1>2. ASSUME NEW o \in Ops, AddParticipant(o) PROVE Kernels'
  <2>1. /\ args' = args /\ queue' = queue
        /\ \A r \in Ops : thread[r].pc \in {"Launch", "WaitKernels"} => thread'[r] = thread[r]
    BY <1>2, AddParticipantDoes DEF AddParticipant, Moved
  <2>. QED  BY <2>1, KernelsKept
<1>3. ASSUME NEW o \in Ops, BarrierTensor(o) PROVE Kernels'
  <2>1. /\ args' = args
        /\ \A r \in Ops : thread[r].pc \in {"Launch", "WaitKernels"} => thread'[r] = thread[r]
    BY <1>3, BarrierTensorDoes DEF BarrierTensor, Moved
  <2>2. Command("input_ready", participant(o), NoEvent, <<>>).event[1] # "reduce"
    BY DEF Command
  <2>. QED  BY <1>3, <2>1, <2>2, BarrierTensorDoes, KernelsKept
<1>4. ASSUME NEW o \in Ops, BarrierComm(o) PROVE Kernels'
  <2>1. /\ args' = args
        /\ \A r \in Ops : thread[r].pc \in {"Launch", "WaitKernels"} => thread'[r] = thread[r]
    BY <1>4, BarrierCommDoes DEF BarrierComm, Moved
  <2>2. Command("input_visible", participant(o), <<"input_ready", participant(o)>>,
                <<>>).event[1] # "reduce"
    BY DEF Command
  <2>. QED  BY <1>4, <2>1, <2>2, BarrierCommDoes, KernelsKept
<1>5. ASSUME NEW o \in Ops, WaitInputs(o) PROVE Kernels'
  <2>1. thread[o].pc = "WaitInputs" /\ WaitEach(o, "Launch")
    BY <1>5 DEF WaitInputs, At
  <2>2. /\ args' = args /\ queue' = queue
        /\ \A r \in Ops : thread[r].pc \in {"Launch", "WaitKernels"} => thread'[r] = thread[r]
    BY <2>1, WaitEachDoes DEF WaitEach, Moved, Waiting
  <2>. QED  BY <2>2, KernelsKept
<1>6. ASSUME NEW o \in Ops, JoinComm(o) PROVE Kernels'
  <2>1. /\ args' = args
        /\ \A r \in Ops : thread[r].pc \in {"Launch", "WaitKernels"} => thread'[r] = thread[r]
    BY <1>6, JoinCommDoes DEF JoinComm, Moved
  <2>2. Command("reduced", participant(o), NoEvent, <<>>).event[1] # "reduce"
    BY DEF Command
  <2>. QED  BY <1>6, <2>1, <2>2, JoinCommDoes, KernelsKept
<1>7. ASSUME NEW o \in Ops, JoinTensor(o) PROVE Kernels'
  <2>1. /\ args' = args
        /\ \A r \in Ops : thread[r].pc \in {"Launch", "WaitKernels"} => thread'[r] = thread[r]
    BY <1>7, JoinTensorDoes DEF JoinTensor, Moved
  <2>2. Command("output_visible", participant(o), <<"reduced", participant(o)>>,
                <<>>).event[1] # "reduce"
    BY DEF Command
  <2>. QED  BY <1>7, <2>1, <2>2, JoinTensorDoes, KernelsKept
<1>8. ASSUME NEW o \in Ops, Callback(o) PROVE Kernels'
  <2>1. /\ args' = args /\ queue' = queue
        /\ \A r \in Ops : thread[r].pc \in {"Launch", "WaitKernels"} => thread'[r] = thread[r]
    BY <1>8, CallbackDoes DEF Callback, Moved
  <2>. QED  BY <2>1, KernelsKept
<1>9. ASSUME NEW o \in Ops, LaunchConsumer(o) PROVE Kernels'
  <2>1. args' = args /\ thread' = thread
    BY <1>9 DEF LaunchConsumer
  <2>2. Command("consume", o, NoEvent, <<o>>).event[1] # "reduce"
    BY DEF Command
  <2>. QED  BY <1>9, <2>1, <2>2, LaunchConsumerDoes, KernelsKept
<1>10. CASE UNCHANGED vars
  BY <1>10, KernelsKept DEF vars
<1>11. ASSUME NEW o \in Ops, AllocateFails(o) PROVE Kernels'
  <2>1. /\ args' = args /\ queue' = queue
        /\ \A r \in Ops : thread[r].pc \in {"Launch", "WaitKernels"} => thread'[r] = thread[r]
    BY <1>11, AllocateFailsDoes DEF AllocateFails, Moved
  <2>. QED  BY <2>1, KernelsKept
<1>. QED
  BY <1>1, <1>2, <1>3, <1>4, <1>5, <1>6, <1>7, <1>8, <1>9, <1>10, <1>11,
     KernelsLaunchKernel, KernelsWaitKernels, KernelsExecute
     DEF Next, ThreadStep

-----------------------------------------------------------------------------
(* The inputs *)

\* What is submitted comes behind what is queued.
LEMMA SubmitKeeps ==
  ASSUME Types, args' = args, produced' = produced, NEW p \in Ops, NEW e,
         queue' = queue \/ \E s, command : Submitted(s, command)
  PROVE  /\ Producing(p) => Producing(p)'
         /\ InputReady(p) => InputReady(p)'
         /\ Visible(p) => Visible(p)'
         /\ VisibleBefore(p, e) => VisibleBefore(p, e)'
<1>1. ASSUME NEW t \in Streams
      PROVE  /\ \A k \in 1 .. Len(queue[t]) :
                  k \in 1 .. Len(queue'[t]) /\ queue'[t][k] = queue[t][k]
             /\ \A m \in 1 .. Len(queue[t]) : \A k \in 1 .. m - 1 : k \in 1 .. Len(queue[t])
             /\ \A m \in 1 .. Len(queue[t]) : \A n \in m .. Len(queue[t]) :
                  n \in m .. Len(queue'[t]) /\ queue'[t][n] = queue[t][n]
  <2>0. Len(queue[t]) \in Nat
    <3>1. queue[t] \in Seq(Commands)
      BY DEF Types
    <3>. QED  BY <3>1
  <2>1. CASE queue' = queue
    BY <2>0, <2>1
  <2>2. CASE queue' # queue
    <3>1. /\ Len(queue'[t]) \in Nat /\ Len(queue[t]) <= Len(queue'[t])
          /\ \A k \in 1 .. Len(queue[t]) :
               k \in 1 .. Len(queue'[t]) /\ queue'[t][k] = queue[t][k]
      BY <2>2, AfterSubmit
    <3>2. \A m \in 1 .. Len(queue[t]) : \A n \in m .. Len(queue[t]) :
            n \in m .. Len(queue'[t]) /\ n \in 1 .. Len(queue[t])
      BY <2>0, <3>1
    <3>3. \A m \in 1 .. Len(queue[t]) : \A k \in 1 .. m - 1 : k \in 1 .. Len(queue[t])
      BY <2>0
    <3>. QED  BY <3>1, <3>2, <3>3
  <2>. QED  BY <2>1, <2>2
<1>2. /\ tensor_stream(p) \in Streams /\ comm_stream(p) \in Streams
      /\ tensor_stream(p)' = tensor_stream(p) /\ comm_stream(p)' = comm_stream(p)
  BY StreamsOf DEF tensor_stream, comm_stream
<1>3. Producing(p) => Producing(p)'
  BY <1>1, <1>2 DEF Producing, Queued
<1>4. InputReady(p) => InputReady(p)'
  <2>. SUFFICES ASSUME InputReady(p), p \notin produced' PROVE InputReady(p)'
    BY DEF InputReady
  <2>1. PICK m \in 1 .. Len(queue[tensor_stream(p)]) :
          /\ Queued(tensor_stream(p), m, "input_ready", p)
          /\ \E k \in 1 .. m - 1 : Queued(tensor_stream(p), k, "produce", p)
    BY DEF InputReady
  <2>2. PICK k \in 1 .. m - 1 : Queued(tensor_stream(p), k, "produce", p)
    BY <2>1
  <2>3. PICK t \in Streams : t = tensor_stream(p) /\ t = tensor_stream(p)'
    BY <1>2
  <2>4. m \in 1 .. Len(queue'[t]) /\ queue'[t][m] = queue[t][m]
    BY <1>1, <2>3
  <2>5. k \in 1 .. Len(queue'[t]) /\ queue'[t][k] = queue[t][k]
    BY <1>1, <2>3
  <2>. QED  BY <2>1, <2>2, <2>3, <2>4, <2>5 DEF InputReady, Queued
<1>5. ASSUME NEW m \in 1 .. Len(queue[comm_stream(p)]), VisibleAt(p, m)
      PROVE  VisibleAt(p, m)'
  BY <1>1, <1>2, <1>5 DEF VisibleAt, Queued
<1>6. Visible(p) => Visible(p)'
  BY <1>1, <1>2, <1>5 DEF Visible
<1>7. VisibleBefore(p, e) => VisibleBefore(p, e)'
  BY <1>1, <1>2, <1>5 DEF VisibleBefore
<1>. QED  BY <1>3, <1>4, <1>6, <1>7

\* A barrier is not executed before what it waits for.
LEMMA ExecuteKeeps ==
  ASSUME Types, NEW s \in Streams, Execute(s), NEW p \in Ops, NEW e
  PROVE  /\ produced \subseteq produced'
         /\ Producing(p) => Producing(p)'
         /\ InputReady(p) => InputReady(p)'
         /\ InputReady(p) /\ Visible(p) => Visible(p)'
         /\ InputReady(p) /\ VisibleBefore(p, e) => VisibleBefore(p, e)'
<1>. DEFINE ts == tensor_stream(p)
            cs == comm_stream(p)
            head == queue[s][1]
<1>1. Executed(s)
  BY Executes
<1>2. /\ args' = args
      /\ ~Pending(head.after)
      /\ produced' = IF head.event[1] = "produce" THEN produced \union {head.event[2]}
                     ELSE produced
  BY <1>1 DEF Execute, Executed
<1>3. /\ ts \in Streams /\ cs \in Streams
      /\ tensor_stream(p)' = ts /\ comm_stream(p)' = cs
  BY <1>2, StreamsOf DEF tensor_stream, comm_stream
<1>. HIDE DEF ts, cs, head
<1>4. produced \subseteq produced'
  BY <1>2
<1>5. ASSUME NEW t \in Streams
      PROVE  /\ Len(queue[t]) \in Nat /\ Len(queue'[t]) \in Nat
             /\ t # s => queue'[t] = queue[t]
             /\ t = s =>
                  /\ Len(queue[t]) = Len(queue'[t]) + 1
                  /\ \A k \in 1 .. Len(queue[t]) : k # 1 =>
                       k - 1 \in 1 .. Len(queue'[t]) /\ queue'[t][k - 1] = queue[t][k]
  BY <1>1, AfterExecute
<1>6. ASSUME NEW k \in 1 .. Len(queue[ts]), Queued(ts, k, "produce", p), ts = s, k = 1
      PROVE  p \in produced'
  <2>1. head.event = <<"produce", p>>
    BY <1>6 DEF Queued, head
  <2>. QED  BY <1>2, <2>1
<1>7. Producing(p) => Producing(p)'
  <2>. SUFFICES ASSUME Producing(p), p \notin produced' PROVE Producing(p)'
    BY DEF Producing
  <2>1. PICK k \in 1 .. Len(queue[ts]) : Queued(ts, k, "produce", p)
    BY <1>4 DEF Producing, ts
  <2>2. CASE ts # s
    BY <1>3, <1>5, <2>1, <2>2 DEF Producing, Queued
  <2>3. CASE ts = s
    <3>1. k # 1
      BY <1>6, <2>1, <2>3
    <3>2. k - 1 \in 1 .. Len(queue'[ts]) /\ queue'[ts][k - 1] = queue[ts][k]
      BY <1>3, <1>5, <2>3, <3>1
    <3>. QED  BY <1>3, <2>1, <3>2 DEF Producing, Queued
  <2>. QED  BY <2>2, <2>3
<1>8. InputReady(p) => InputReady(p)'
  <2>. SUFFICES ASSUME InputReady(p), p \notin produced' PROVE InputReady(p)'
    BY DEF InputReady
  <2>1. PICK m \in 1 .. Len(queue[ts]) :
          /\ Queued(ts, m, "input_ready", p)
          /\ \E k \in 1 .. m - 1 : Queued(ts, k, "produce", p)
    BY <1>4 DEF InputReady, ts
  <2>2. PICK k \in 1 .. m - 1 : Queued(ts, k, "produce", p)
    BY <2>1
  <2>3. CASE ts # s
    BY <1>3, <1>5, <2>1, <2>2, <2>3 DEF InputReady, Queued
  <2>4. CASE ts = s
    <3>1. k \in 1 .. Len(queue[ts]) /\ m # 1
      BY <1>3, <1>5
    <3>2. k # 1
      BY <1>6, <2>2, <2>4, <3>1
    <3>3. /\ k - 1 \in 1 .. Len(queue'[ts]) /\ queue'[ts][k - 1] = queue[ts][k]
          /\ m - 1 \in 1 .. Len(queue'[ts]) /\ queue'[ts][m - 1] = queue[ts][m]
      BY <1>3, <1>5, <2>4, <3>1, <3>2
    <3>4. k - 1 \in 1 .. (m - 1) - 1
      BY <3>1, <3>2
    <3>. QED  BY <1>3, <2>1, <2>2, <3>3, <3>4 DEF InputReady, Queued
  <2>. QED  BY <2>3, <2>4
<1>9. ASSUME InputReady(p), NEW m \in 1 .. Len(queue[cs]), VisibleAt(p, m), cs = s, m = 1
      PROVE  p \in produced'
  <2>1. head.after = <<"input_ready", p>>
    BY <1>9 DEF VisibleAt, head, cs
  <2>2. ~Pending(<<"input_ready", p>>)
    BY <1>2, <2>1
  <2>3. p \in produced
    BY <1>3, <1>9, <2>2 DEF InputReady, Pending, Queued, ts
  <2>. QED  BY <1>4, <2>3
<1>10. InputReady(p) /\ Visible(p) => Visible(p)'
  <2>. SUFFICES ASSUME InputReady(p), Visible(p), p \notin produced' PROVE Visible(p)'
    BY DEF Visible
  <2>1. PICK m \in 1 .. Len(queue[cs]) : VisibleAt(p, m)
    BY <1>4 DEF Visible, cs
  <2>2. CASE cs # s
    BY <1>3, <1>5, <2>1, <2>2 DEF Visible, VisibleAt, Queued, cs
  <2>3. CASE cs = s
    <3>1. m # 1
      BY <1>9, <2>1, <2>3
    <3>2. PICK l \in 1 .. Len(queue'[cs]) : queue'[cs][l] = queue[cs][m]
      BY <1>3, <1>5, <2>3, <3>1
    <3>3. VisibleAt(p, l)'
      BY <1>3, <2>1, <3>2 DEF VisibleAt, Queued, cs
    <3>. QED  BY <1>3, <3>2, <3>3 DEF Visible
  <2>. QED  BY <2>2, <2>3
<1>11. InputReady(p) /\ VisibleBefore(p, e) => VisibleBefore(p, e)'
  <2>. SUFFICES ASSUME InputReady(p), VisibleBefore(p, e), p \notin produced'
                PROVE  VisibleBefore(p, e)'
    BY DEF VisibleBefore
  <2>1. PICK m \in 1 .. Len(queue[cs]) :
          VisibleAt(p, m) /\ \E n \in m .. Len(queue[cs]) : queue[cs][n].event = e
    BY <1>4 DEF VisibleBefore, cs
  <2>2. PICK n \in m .. Len(queue[cs]) : queue[cs][n].event = e
    BY <2>1
  <2>3. CASE cs # s
    BY <1>3, <1>5, <2>1, <2>3 DEF VisibleBefore, VisibleAt, Queued, cs
  <2>4. CASE cs = s
    <3>1. m # 1
      BY <1>9, <2>1, <2>4
    <3>2. n \in 1 .. Len(queue[cs]) /\ n # 1
      BY <1>3, <1>5, <3>1
    <3>3. PICK l \in 1 .. Len(queue'[cs]) : l = m - 1 /\ queue'[cs][l] = queue[cs][m]
      BY <1>3, <1>5, <2>4, <3>1
    <3>4. n - 1 \in l .. Len(queue'[cs]) /\ queue'[cs][n - 1] = queue[cs][n]
      BY <1>3, <1>5, <2>4, <3>2, <3>3
    <3>5. VisibleAt(p, l)'
      BY <1>3, <2>1, <3>3 DEF VisibleAt, Queued, cs
    <3>6. queue'[cs][n - 1].event = e
      BY <2>2, <3>4
    <3>. QED  BY <1>3, <3>3, <3>4, <3>5, <3>6 DEF VisibleBefore
  <2>. QED  BY <2>3, <2>4
<1>. QED  BY <1>4, <1>7, <1>8, <1>10, <1>11

\* Nothing that is on its way is lost.
LEMMA InputsKept ==
  ASSUME Control, [Next]_vars, NEW p \in Ops, NEW e
  PROVE  /\ produced \subseteq produced'
         /\ Producing(p) => Producing(p)'
         /\ InputReady(p) => InputReady(p)'
         /\ InputReady(p) /\ Visible(p) => Visible(p)'
         /\ InputReady(p) /\ VisibleBefore(p, e) => VisibleBefore(p, e)'
<1>. DEFINE Adding == /\ args' = args /\ produced' = produced
                      /\ queue' = queue \/ \E s, command : Submitted(s, command)
<1>1. ASSUME NEW o \in Ops, LaunchProducer(o) PROVE Adding
  BY <1>1, LaunchProducerDoes DEF LaunchProducer
<1>2. ASSUME NEW o \in Ops, AllocateFails(o) \/ AddParticipant(o) PROVE Adding
  BY <1>2 DEF AllocateFails, AddParticipant
<1>3. ASSUME NEW o \in Ops, BarrierTensor(o) PROVE Adding
  BY <1>3, BarrierTensorDoes DEF BarrierTensor
<1>4. ASSUME NEW o \in Ops, BarrierComm(o) PROVE Adding
  BY <1>4, BarrierCommDoes DEF BarrierComm
<1>5. ASSUME NEW o \in Ops, WaitInputs(o) \/ WaitKernels(o) PROVE Adding
  BY <1>5 DEF WaitInputs, WaitKernels, WaitEach
<1>6. ASSUME NEW o \in Ops, LaunchKernel(o) PROVE Adding
  BY <1>6, LaunchKernelDoes DEF LaunchKernel
<1>7. ASSUME NEW o \in Ops, JoinComm(o) PROVE Adding
  BY <1>7, JoinCommDoes DEF JoinComm
<1>8. ASSUME NEW o \in Ops, JoinTensor(o) PROVE Adding
  BY <1>8, JoinTensorDoes DEF JoinTensor
<1>9. ASSUME NEW o \in Ops, Callback(o) PROVE Adding
  BY <1>9 DEF Callback
<1>10. ASSUME NEW o \in Ops, LaunchConsumer(o) PROVE Adding
  BY <1>10, LaunchConsumerDoes DEF LaunchConsumer
<1>11. ASSUME UNCHANGED vars PROVE Adding
  BY <1>11 DEF vars
<1>12. Adding \/ \E s \in Streams : Execute(s)
  BY <1>1, <1>2, <1>3, <1>4, <1>5, <1>6, <1>7, <1>8, <1>9, <1>10, <1>11
     DEF Next, ThreadStep
<1>13. CASE Adding
  BY <1>13, SubmitKeeps DEF Control
<1>14. ASSUME NEW s \in Streams, Execute(s)
       PROVE  /\ produced \subseteq produced'
              /\ Producing(p) => Producing(p)'
              /\ InputReady(p) => InputReady(p)'
              /\ InputReady(p) /\ Visible(p) => Visible(p)'
              /\ InputReady(p) /\ VisibleBefore(p, e) => VisibleBefore(p, e)'
  BY <1>14, ExecuteKeeps DEF Control
<1>. QED  BY <1>12, <1>13, <1>14

\* A participant is an op that has joined, and only a collective that runs has any.
LEMMA MemberOf ==
  ASSUME Control, NEW r \in Ops, NEW j \in Ranks(r)
  PROVE  /\ Members(r)[j] \in Ops
         /\ thread[r].pc \in Running
         /\ thread[Members(r)[j]].pc \notin Joining
         /\ j \in Nat \ {0} /\ Len(Members(r)) \in Nat \ {0} /\ j <= Len(Members(r))
         /\ thread[r].i \in Nat \ {0}
<1>1. thread[r].pc \in Running
  <2>1. Len(<<>>) = 0
    OBVIOUS
  <2>2. ~(1 <= j /\ j <= 0)
    BY DEF Ranks
  <2>. QED  BY <2>1, <2>2 DEF Control, NotRunning, Ranks
<1>2. /\ Members(r)[j] \in Ops /\ Len(Members(r)) \in Nat \ {0}
      /\ thread[r].i \in Nat \ {0}
  BY <1>1, AtParticipant
<1>3. thread[Members(r)[j]].pc \notin Joining
  BY <1>1 DEF Control, RunsCollective
<1>. QED  BY <1>1, <1>2, <1>3 DEF Ranks

\* The others' collectives.
LEMMA InputsOfOthers ==
  ASSUME Control, Inputs, [Next]_vars, NEW r \in Ops, thread'[r] = thread[r],
         NEW j \in Ranks(r)
  PROVE  InputsOf(r, j)'
<1>1. PICK p \in Ops : p = Members(r)[j]
  BY MemberOf
<1>2. PICK e : e = thread[r].event
  OBVIOUS
<1>3. Members(r)' = Members(r) /\ thread'[r].event = e
  BY <1>2 DEF Members
<1>4. InputsOf(r, j)
  BY DEF Inputs
<1>5. /\ produced \subseteq produced'
      /\ InputReady(p) => InputReady(p)'
      /\ InputReady(p) /\ Visible(p) => Visible(p)'
      /\ InputReady(p) /\ VisibleBefore(p, e) => VisibleBefore(p, e)'
  BY InputsKept
<1>6. InputReady(p) /\ InputVisible(r, j) => InputVisible(r, j)'
  BY <1>1, <1>2, <1>3, <1>5 DEF InputVisible
<1>7. thread'[r].pc = thread[r].pc /\ thread'[r].i = thread[r].i
  OBVIOUS
<1>8. (\/ thread[r].pc = "BarrierTensor" /\ j < thread[r].i
       \/ thread[r].pc = "BarrierComm" /\ j <= thread[r].i
       \/ thread[r].pc = "WaitInputs")
      => InputReady(p) /\ InputReady(p)'
  BY <1>1, <1>4, <1>5 DEF InputsOf
<1>9. (\/ thread[r].pc \in {"BarrierTensor", "BarrierComm"} /\ j < thread[r].i
       \/ thread[r].pc = "WaitInputs")
      => InputVisible(r, j)'
  <2>1. j <= thread[r].i \/ ~(j < thread[r].i)
    BY MemberOf
  <2>. QED  BY <1>4, <1>6, <1>8, <2>1 DEF InputsOf
<1>10. thread[r].pc \in {"Launch", "WaitKernels"} => p \in produced'
  BY <1>1, <1>4, <1>5 DEF InputsOf
<1>. QED  BY <1>1, <1>3, <1>7, <1>8, <1>9, <1>10 DEF InputsOf

\* In the other places nothing is said of the inputs.
LEMMA InputsOfNone ==
  ASSUME NEW r \in Ops, NEW j,
         thread[r].pc \notin {"BarrierTensor", "BarrierComm", "WaitInputs", "Launch",
                              "WaitKernels"}
  PROVE  InputsOf(r, j)
  BY DEF InputsOf

\* The new barrier comes behind the kernel that computes the input.
LEMMA InputsBarrierTensor ==
  ASSUME Control, Inputs, NEW o \in Ops, BarrierTensor(o), NEW j \in Ranks(o)
  PROVE  InputsOf(o, j)'
<1>1. PICK p \in Ops : p = Members(o)[j]
  BY MemberOf
<1>2. /\ thread[o].pc = "BarrierTensor" /\ thread'[o].pc = "BarrierComm"
      /\ thread'[o].i = thread[o].i /\ Members(o)' = Members(o)
      /\ args' = args
  BY BarrierTensorDoes DEF Moved, Members, BarrierTensor
<1>3. /\ InputReady(p) => InputReady(p)'
      /\ InputReady(p) /\ Visible(p) => Visible(p)'
  BY InputsKept DEF Next, ThreadStep
<1>4. InputsOf(o, j) /\ j \in Nat /\ thread[o].i \in Nat
  BY MemberOf DEF Inputs
<1>5. CASE j < thread[o].i
  <2>1. InputReady(p) /\ Visible(p)
    BY <1>1, <1>2, <1>4, <1>5 DEF InputsOf, InputVisible
  <2>. QED  BY <1>1, <1>2, <1>3, <2>1 DEF InputsOf, InputVisible
<1>6. CASE j = thread[o].i
  <2>1. p = participant(o)
    BY <1>1, <1>2, <1>6, AtParticipant DEF Running, Looping
  <2>2. PICK s \in Streams : s = tensor_stream(p) /\ s = tensor_stream(p)'
    BY <1>2, StreamsOf DEF Control, tensor_stream
  <2>3. PICK command : command = Command("input_ready", p, NoEvent, <<>>)
    OBVIOUS
  <2>4. Submitted(s, command) /\ command.event = <<"input_ready", p>>
    BY <2>1, <2>2, <2>3, BarrierTensorDoes DEF Command
  <2>5. /\ Len(queue[s]) \in Nat /\ Len(queue'[s]) = Len(queue[s]) + 1
        /\ queue'[s][Len(queue[s]) + 1] = command
        /\ \A k \in 1 .. Len(queue[s]) : queue'[s][k] = queue[s][k]
    BY <2>4, AfterSubmit DEF Submitted, Control
  <2>6. Producing(p)
    BY <1>1, MemberOf DEF Inputs, Joining
  <2>7. produced' = produced
    BY DEF BarrierTensor
  <2>8. InputReady(p)'
    <3>1. CASE p \in produced
      BY <2>7, <3>1 DEF InputReady
    <3>2. ASSUME NEW k \in 1 .. Len(queue[s]), Queued(s, k, "produce", p)
          PROVE  InputReady(p)'
      <4>1. PICK m \in 1 .. Len(queue'[s]) : m = Len(queue[s]) + 1
        BY <2>5
      <4>2. k \in 1 .. m - 1 /\ queue'[s][k] = queue[s][k] /\ queue'[s][m] = command
        BY <2>5, <4>1
      <4>. QED  BY <2>2, <2>4, <3>2, <4>1, <4>2 DEF InputReady, Queued
    <3>. QED  BY <2>2, <2>6, <3>1, <3>2 DEF Producing
  <2>. QED  BY <1>1, <1>2, <1>4, <1>6, <2>8 DEF InputsOf
<1>7. CASE j > thread[o].i
  BY <1>2, <1>4, <1>7 DEF InputsOf
<1>. QED  BY <1>4, <1>5, <1>6, <1>7

\* The barrier on the communication stream waits for it.
LEMMA InputsBarrierComm ==
  ASSUME Control, Inputs, NEW o \in Ops, BarrierComm(o), NEW j \in Ranks(o)
  PROVE  InputsOf(o, j)'
<1>1. PICK p \in Ops : p = Members(o)[j]
  BY MemberOf
<1>2. thread[o].pc = "BarrierComm" /\ args' = args
  BY BarrierCommDoes DEF BarrierComm
<1>3. /\ InputReady(p) => InputReady(p)'
      /\ InputReady(p) /\ Visible(p) => Visible(p)'
  BY InputsKept DEF Next, ThreadStep
<1>4. /\ InputsOf(o, j) /\ j \in Nat /\ thread[o].i \in Nat
      /\ Len(Members(o)) \in Nat /\ j <= Len(Members(o))
  BY MemberOf DEF Inputs
<1>5. ASSUME j <= thread[o].i PROVE InputReady(p)' /\ Visible(p)'
  <2>1. InputReady(p)
    BY <1>1, <1>2, <1>4, <1>5 DEF InputsOf
  <2>2. CASE j < thread[o].i
    <3>1. Visible(p)
      BY <1>1, <1>2, <1>4, <2>2 DEF InputsOf, InputVisible
    <3>. QED  BY <1>3, <2>1, <3>1
  <2>3. CASE j = thread[o].i
    <3>1. p = participant(o)
      BY <1>1, <1>2, <2>3, AtParticipant DEF Running, Looping
    <3>2. PICK s \in Streams : s = comm_stream(p) /\ s = comm_stream(p)'
      BY <1>2, StreamsOf DEF Control, comm_stream
    <3>3. PICK command :
            command = Command("input_visible", p, <<"input_ready", p>>, <<>>)
      OBVIOUS
    <3>4. /\ Submitted(s, command) /\ command.event = <<"input_visible", p>>
          /\ command.after = <<"input_ready", p>>
      BY <3>1, <3>2, <3>3, BarrierCommDoes DEF Command
    <3>5. Len(queue[s]) \in Nat /\ Len(queue'[s]) = Len(queue[s]) + 1
      BY <3>4, AfterSubmit DEF Submitted, Control
    <3>6. PICK m \in 1 .. Len(queue'[s]) : m = Len(queue[s]) + 1 /\ queue'[s][m] = command
      BY <3>4, <3>5 DEF Submitted
    <3>7. VisibleAt(p, m)'
      BY <3>2, <3>4, <3>6 DEF VisibleAt, Queued
    <3>. QED  BY <1>3, <2>1, <3>2, <3>6, <3>7 DEF Visible
  <2>. QED  BY <1>4, <1>5, <2>2, <2>3
<1>6. CASE Moved(o, "BarrierTensor", thread[o].i + 1, thread[o].event, thread[o].collective)
  <2>1. /\ thread'[o].pc = "BarrierTensor" /\ thread'[o].i = thread[o].i + 1
        /\ Members(o)' = Members(o)
    BY <1>6 DEF Moved, Members
  <2>2. j < thread'[o].i => j <= thread[o].i
    BY <1>4, <2>1
  <2>. QED  BY <1>1, <1>5, <2>1, <2>2 DEF InputsOf, InputVisible
<1>7. CASE /\ thread[o].i = Len(Members(o))
           /\ Moved(o, "WaitInputs", 1, NoEvent, thread[o].collective)
  <2>1. /\ thread'[o].pc = "WaitInputs" /\ thread'[o].i = 1 /\ Members(o)' = Members(o)
    BY <1>7 DEF Moved, Members
  <2>2. ~(j < thread'[o].i)
    BY <2>1 DEF Ranks
  <2>3. InputReady(p)' /\ Visible(p)'
    BY <1>4, <1>5, <1>7
  <2>. QED  BY <1>1, <2>1, <2>2, <2>3 DEF InputsOf, InputVisible
<1>8. CASE Moved(o, "Callback", 1, NoEvent,
                 [thread[o].collective EXCEPT !.status = "InvalidArgument"])
  <2>1. thread'[o].pc = "Callback"
    BY <1>8 DEF Moved
  <2>. QED  BY <2>1 DEF InputsOf
<1>. QED  BY <1>6, <1>7, <1>8, BarrierCommDoes

\* A stream that was waited for has executed the barrier.
LEMMA InputsWaitInputs ==
  ASSUME Control, Inputs, NEW o \in Ops, WaitInputs(o), NEW j \in Ranks(o)
  PROVE  InputsOf(o, j)'
<1>1. PICK p \in Ops : p = Members(o)[j]
  BY MemberOf
<1>2. /\ thread[o].pc = "WaitInputs" /\ thread[o].pc \in Waiting
      /\ WaitEach(o, "Launch")
      /\ args' = args /\ queue' = queue /\ produced' = produced
  BY DEF WaitInputs, WaitEach, At, Waiting
<1>3. /\ InputsOf(o, j) /\ j \in Nat /\ thread[o].i \in Nat
      /\ Len(Members(o)) \in Nat /\ j <= Len(Members(o))
  BY MemberOf DEF Inputs
<1>4. InputReady(p) /\ InputVisible(o, j)
  BY <1>1, <1>2, <1>3 DEF InputsOf
<1>5. comm_stream(p) \in Streams /\ comm_stream(p)' = comm_stream(p)
  BY <1>2, StreamsOf DEF Control, comm_stream
<1>6. ASSUME j < thread[o].i PROVE p \in produced
  <2>1. ~Pending(thread[o].event)
    BY <1>2, WaitEachDoes
  <2>2. p \in produced \/ VisibleBefore(p, thread[o].event)
    BY <1>1, <1>2, <1>4, <1>6 DEF InputVisible
  <2>3. ASSUME NEW m \in 1 .. Len(queue[comm_stream(p)]),
               NEW n \in m .. Len(queue[comm_stream(p)])
        PROVE  n \in 1 .. Len(queue[comm_stream(p)])
    OBVIOUS
  <2>. QED  BY <1>5, <2>1, <2>2, <2>3 DEF VisibleBefore, Pending
<1>7. InputReady(p)' /\ (Visible(p) => Visible(p)')
  BY <1>2, <1>4, InputsKept DEF Next, ThreadStep
<1>8. CASE /\ thread[o].i \in Ranks(o)
           /\ Moved(o, thread[o].pc, thread[o].i + 1,
                    LastEvent(comm_stream(Members(o)[thread[o].i])), thread[o].collective)
  <2>1. /\ thread'[o].pc = "WaitInputs" /\ thread'[o].i = thread[o].i + 1
        /\ thread'[o].event = LastEvent(comm_stream(Members(o)[thread[o].i]))
        /\ Members(o)' = Members(o)
    BY <1>2, <1>8 DEF Moved, Members
  <2>2. CASE j < thread[o].i
    <3>1. j < thread'[o].i /\ p \in produced'
      BY <1>2, <1>3, <1>6, <2>1, <2>2
    <3>. QED  BY <1>1, <1>7, <2>1, <3>1 DEF InputsOf, InputVisible
  <2>3. CASE j = thread[o].i
    <3>0. ~(j < thread[o].i)
      BY <1>3, <2>3
    <3>1. Visible(p)
      BY <1>1, <1>4, <3>0 DEF InputVisible
    <3>2. PICK e : e = thread'[o].event
      OBVIOUS
    <3>3. p \in produced' \/ VisibleBefore(p, e)'
      <4>. SUFFICES ASSUME p \notin produced PROVE VisibleBefore(p, e)'
        BY <1>2
      <4>1. PICK s \in Streams : s = comm_stream(p) /\ s = comm_stream(p)'
        BY <1>5
      <4>2. PICK m \in 1 .. Len(queue[s]) : VisibleAt(p, m)
        BY <3>1, <4>1 DEF Visible
      <4>3. VisibleAt(p, m)'
        BY <1>2, <4>1, <4>2 DEF VisibleAt, Queued
      <4>4. queue[s] \in Seq(Commands)
        BY DEF Control, Types
      <4>5. Len(queue[s]) \in m .. Len(queue[s]) /\ queue[s] # <<>>
        BY <4>4
      <4>6. e = queue[s][Len(queue[s])].event
        BY <1>1, <2>1, <2>3, <3>2, <4>1, <4>5 DEF LastEvent
      <4>. QED  BY <1>2, <4>1, <4>2, <4>3, <4>5, <4>6 DEF VisibleBefore
    <3>4. j < thread'[o].i /\ j = thread'[o].i - 1
      BY <1>3, <2>1, <2>3
    <3>. QED  BY <1>1, <1>7, <2>1, <3>2, <3>3, <3>4 DEF InputsOf, InputVisible
  <2>4. CASE j > thread[o].i
    <3>1. ~(j < thread[o].i) /\ ~(j < thread'[o].i)
      BY <1>3, <2>1, <2>4
    <3>2. Visible(p)'
      BY <1>1, <1>4, <1>7, <3>1 DEF InputVisible
    <3>. QED  BY <1>1, <1>7, <2>1, <3>1, <3>2 DEF InputsOf, InputVisible
  <2>. QED  BY <1>3, <2>2, <2>3, <2>4
<1>9. CASE /\ thread[o].i = Len(Members(o)) + 1
           /\ Moved(o, "Launch", 1, NoEvent, thread[o].collective)
  <2>1. thread'[o].pc = "Launch" /\ Members(o)' = Members(o)
    BY <1>9 DEF Moved, Members
  <2>2. p \in produced'
    BY <1>2, <1>3, <1>6, <1>9
  <2>. QED  BY <1>1, <2>1, <2>2 DEF InputsOf
<1>. QED  BY <1>2, <1>8, <1>9, WaitEachDoes

\* A launch leaves the inputs of the collective's kernels complete.
LEMMA InputsLaunchKernel ==
  ASSUME Control, Inputs, NEW o \in Ops, LaunchKernel(o), NEW j \in Ranks(o)
  PROVE  InputsOf(o, j)'
<1>1. InputsOf(o, j)
  BY DEF Inputs
<1>2. thread[o].pc = "Launch" /\ produced' = produced
  BY LaunchKernelDoes DEF LaunchKernel
<1>3. thread'[o].pc \in {"Launch", "WaitKernels"} /\ Members(o)' = Members(o)
  BY LaunchKernelDoes DEF Moved, Members
<1>. QED  BY <1>1, <1>2, <1>3 DEF InputsOf

\* A wait leaves the inputs of the collective's kernels complete.
LEMMA InputsWaitKernels ==
  ASSUME Control, Inputs, NEW o \in Ops, WaitKernels(o), NEW j \in Ranks(o)
  PROVE  InputsOf(o, j)'
<1>1. InputsOf(o, j)
  BY DEF Inputs
<1>2. /\ thread[o].pc = "WaitKernels" /\ thread[o].pc \in Waiting
      /\ WaitEach(o, "JoinComm") /\ produced' = produced
  BY DEF WaitKernels, WaitEach, At, Waiting
<1>3. thread'[o].pc \in {"WaitKernels", "JoinComm"} /\ Members(o)' = Members(o)
  BY <1>2, WaitEachDoes DEF Moved, Members
<1>. QED  BY <1>1, <1>2, <1>3 DEF InputsOf

\* Every step keeps the part Inputs of the invariant.
LEMMA InputsStep == Control /\ Inputs /\ [Next]_vars => Inputs'
<1>. SUFFICES ASSUME Control, Inputs, [Next]_vars PROVE Inputs'
  OBVIOUS
<1>. DEFINE Same(o) == \A r \in Ops \ {o} : thread'[r] = thread[r]
            Good(r) == \A j \in Ranks(r)' : InputsOf(r, j)'
            Started(r) == thread'[r].pc # "Idle" => Producing(r)'
<1>1. \A r \in Ops : Producing(r) => Producing(r)'
  BY InputsKept
<1>2. ASSUME NEW r \in Ops, thread'[r] = thread[r] PROVE Good(r) /\ Started(r)
  <2>1. Ranks(r)' = Ranks(r)
    BY <1>2 DEF Ranks, Members
  <2>. QED  BY <1>1, <1>2, <2>1, InputsOfOthers DEF Inputs
<1>3. ASSUME NEW r \in Ops, thread[r].pc # "Idle" PROVE Started(r)
  BY <1>1, <1>3 DEF Inputs
<1>4. ASSUME NEW r \in Ops,
             thread'[r].pc \notin {"BarrierTensor", "BarrierComm", "WaitInputs", "Launch",
                                   "WaitKernels"}
      PROVE  Good(r)
  BY <1>4 DEF InputsOf
<1>5. ASSUME NEW o \in Ops, LaunchProducer(o) PROVE Same(o) /\ Good(o) /\ Started(o)
  <2>1. Same(o) /\ thread'[o].pc = "Ready"
    BY <1>5, LaunchProducerDoes DEF Moved
  <2>2. PICK s \in Streams : s = tensor_stream(o) /\ s = tensor_stream(o)'
    BY <1>5, StreamsOf DEF Control, LaunchProducer, tensor_stream
  <2>3. PICK command : command = Command("produce", o, NoEvent, <<o>>)
    OBVIOUS
  <2>4. Submitted(s, command) /\ command.event = <<"produce", o>>
    BY <1>5, <2>2, <2>3, LaunchProducerDoes DEF Command
  <2>5. Len(queue[s]) \in Nat /\ Len(queue'[s]) = Len(queue[s]) + 1
    BY <2>4, AfterSubmit DEF Submitted, Control
  <2>6. PICK m \in 1 .. Len(queue'[s]) : queue'[s][m] = command
    BY <2>4, <2>5 DEF Submitted
  <2>7. Producing(o)'
    BY <2>2, <2>4, <2>6 DEF Producing, Queued
  <2>. QED  BY <1>4, <2>1, <2>7
<1>6. ASSUME NEW o \in Ops, AddParticipant(o) PROVE Same(o) /\ Good(o) /\ Started(o)
  <2>1. /\ Same(o) /\ thread[o].pc = "Ready"
        /\ \/ thread'[o].pc \in {"Callback", "Returned"}
           \/ thread'[o].pc = "BarrierTensor" /\ thread'[o].i = 1
    BY <1>6, AddParticipantDoes DEF Moved
  <2>2. CASE thread'[o].pc = "BarrierTensor" /\ thread'[o].i = 1
    <3>1. \A j \in Ranks(o)' : ~(j < thread'[o].i)
      BY <2>2 DEF Ranks
    <3>2. Good(o)
      BY <2>2, <3>1 DEF InputsOf
    <3>. QED  BY <1>3, <2>1, <3>2
  <2>. QED  BY <1>3, <1>4, <2>1, <2>2
<1>7. ASSUME NEW o \in Ops, BarrierTensor(o) PROVE Same(o) /\ Good(o) /\ Started(o)
  <2>1. Same(o) /\ thread[o].pc = "BarrierTensor" /\ Ranks(o)' = Ranks(o)
    BY <1>7, BarrierTensorDoes DEF Moved, Ranks, Members
  <2>. QED  BY <1>3, <1>7, <2>1, InputsBarrierTensor
<1>8. ASSUME NEW o \in Ops, BarrierComm(o) PROVE Same(o) /\ Good(o) /\ Started(o)
  <2>1. /\ Same(o) /\ thread[o].pc = "BarrierComm"
        /\ thread'[o].pc = "Callback" \/ Ranks(o)' = Ranks(o)
    BY <1>8, BarrierCommDoes DEF Moved, Ranks, Members
  <2>. QED  BY <1>3, <1>4, <1>8, <2>1, InputsBarrierComm
<1>9. ASSUME NEW o \in Ops, WaitInputs(o) PROVE Same(o) /\ Good(o) /\ Started(o)
  <2>1. thread[o].pc = "WaitInputs" /\ thread[o].pc \in Waiting /\ WaitEach(o, "Launch")
    BY <1>9 DEF WaitInputs, At, Waiting
  <2>2. Same(o) /\ Ranks(o)' = Ranks(o)
    BY <2>1, WaitEachDoes DEF Moved, Ranks, Members
  <2>. QED  BY <1>3, <1>9, <2>1, <2>2, InputsWaitInputs
<1>10. ASSUME NEW o \in Ops, LaunchKernel(o) PROVE Same(o) /\ Good(o) /\ Started(o)
  <2>1. Same(o) /\ thread[o].pc = "Launch" /\ Ranks(o)' = Ranks(o)
    BY <1>10, LaunchKernelDoes DEF Moved, Ranks, Members
  <2>. QED  BY <1>3, <1>10, <2>1, InputsLaunchKernel
<1>11. ASSUME NEW o \in Ops, WaitKernels(o) PROVE Same(o) /\ Good(o) /\ Started(o)
  <2>1. thread[o].pc = "WaitKernels" /\ thread[o].pc \in Waiting /\ WaitEach(o, "JoinComm")
    BY <1>11 DEF WaitKernels, At, Waiting
  <2>2. Same(o) /\ Ranks(o)' = Ranks(o)
    BY <2>1, WaitEachDoes DEF Moved, Ranks, Members
  <2>. QED  BY <1>3, <1>11, <2>1, <2>2, InputsWaitKernels
<1>12. ASSUME NEW o \in Ops, JoinComm(o) \/ JoinTensor(o) \/ Callback(o)
       PROVE  Same(o) /\ Good(o) /\ Started(o)
  <2>1. /\ Same(o) /\ thread[o].pc # "Idle"
        /\ thread'[o].pc \in {"JoinComm", "JoinTensor", "Callback", "Returned"}
    BY <1>12, JoinCommDoes, JoinTensorDoes, CallbackDoes DEF Moved
  <2>. QED  BY <1>3, <1>4, <2>1
<1>13. ASSUME NEW o \in Ops, AllocateFails(o) PROVE Same(o) /\ Good(o) /\ Started(o)
  <2>1. Same(o) /\ thread[o].pc = "Ready" /\ thread'[o].pc = "Returned"
    BY <1>13, AllocateFailsDoes DEF Moved
  <2>. QED  BY <1>3, <1>4, <2>1
<1>14. \/ \E o \in Ops : Same(o) /\ Good(o) /\ Started(o)
       \/ thread' = thread
  BY <1>5, <1>6, <1>7, <1>8, <1>9, <1>10, <1>11, <1>12, <1>13
     DEF Next, ThreadStep, LaunchConsumer, Execute, vars
<1>15. \A r \in Ops : Good(r) /\ Started(r)
  BY <1>2, <1>14
<1>. QED  BY <1>15 DEF Inputs

-----------------------------------------------------------------------------
(* The outputs *)

\* What \div and % return.
LEMMA Division ==
  ASSUME NEW a \in Nat, NEW b \in Nat \ {0}
  PROVE  /\ a \div b \in Nat
         /\ a % b \in 0 .. b - 1
         /\ a = b * (a \div b) + (a % b)
  OBVIOUS

\* The slices of the ranks make up the tensor.
LEMMA SlicesCover ==
  ASSUME NEW M, M.element_count \in Nat, M.VecSize \in Nat \ {0},
         M.reduction_size \in Nat \ {0}
  PROVE  /\ \A rank \in 0 .. M.reduction_size - 1 :
              Slice(M, rank) \subseteq 0 .. total_vec_count(M) - 1
         /\ \A rank \in 0 .. M.reduction_size - 1 :
              local_vec_count(M, rank) = 0 => Slice(M, rank) = {}
         /\ \A v \in 0 .. total_vec_count(M) - 1 :
              \E rank \in 0 .. M.reduction_size - 1 : v \in Slice(M, rank)
<1>. DEFINE T == total_vec_count(M)
            R == M.reduction_size
            q == T \div R
            t == T % R
<1>1. T \in Nat /\ R \in Nat \ {0}
  <2>1. M.element_count \div M.VecSize \in Nat
    BY Division
  <2>. QED  BY <2>1 DEF total_vec_count
<1>2. q \in Nat /\ t \in 0 .. R - 1 /\ T = R * q + t
  <2>. HIDE DEF T, R
  <2>. QED  BY <1>1, Division
<1>3. \A rank \in 0 .. R - 1 :
        Slice(M, rank) = rank * q .. rank * q + (q + (IF rank = R - 1 THEN t ELSE 0)) - 1
  BY DEF Slice, local_vec_count, slice_vec_count, LastRank
<1>4. \A rank \in 0 .. R - 1 :
        local_vec_count(M, rank) = q + (IF rank = R - 1 THEN t ELSE 0)
  BY DEF local_vec_count, slice_vec_count, LastRank
<1>. HIDE DEF T, R, q, t
<1>5. (R - 1) * q + q = R * q /\ (R - 1) * q \in Nat
  BY <1>1, <1>2
<1>6. ASSUME NEW rank \in 0 .. R - 1
      PROVE  /\ rank * q \in Nat
             /\ rank < R - 1 => rank * q + q <= (R - 1) * q
  <2>1. rank * q \in Nat /\ (rank + 1) * q = rank * q + q
    BY <1>1, <1>2
  <2>2. rank < R - 1 => (rank + 1) * q <= (R - 1) * q
    BY <1>1, <1>2
  <2>. QED  BY <2>1, <2>2
<1>7. ASSUME NEW rank \in 0 .. R - 1
      PROVE  /\ Slice(M, rank) \subseteq 0 .. T - 1
             /\ local_vec_count(M, rank) = 0 => Slice(M, rank) = {}
  <2>1. rank = R - 1 \/ rank < R - 1
    BY <1>1
  <2>2. CASE rank = R - 1
    <3>1. Slice(M, rank) = rank * q .. rank * q + (q + t) - 1
      BY <1>3, <2>2
    <3>2. local_vec_count(M, rank) = q + t
      BY <1>4, <2>2
    <3>3. rank * q + q + t = T /\ rank * q \in Nat /\ t \in Nat
      BY <1>1, <1>2, <1>5, <2>2
    <3>. QED  BY <1>1, <1>2, <3>1, <3>2, <3>3
  <2>3. CASE rank < R - 1
    <3>1. Slice(M, rank) = rank * q .. rank * q + (q + 0) - 1
      BY <1>1, <1>3, <2>3
    <3>2. local_vec_count(M, rank) = q + 0
      BY <1>1, <1>4, <2>3
    <3>3. rank * q + q <= T /\ rank * q \in Nat
      BY <1>1, <1>2, <1>5, <1>6, <2>3
    <3>. QED  BY <1>1, <1>2, <3>1, <3>2, <3>3
  <2>. QED  BY <2>1, <2>2, <2>3
<1>8. ASSUME NEW v \in 0 .. T - 1
      PROVE  \E rank \in 0 .. R - 1 : v \in Slice(M, rank)
  <2>1. CASE v < (R - 1) * q
    <3>1. q \in Nat \ {0} /\ v \in Nat
      BY <1>1, <1>2, <1>5, <2>1
    <3>2. PICK rank : rank = v \div q
      OBVIOUS
    <3>3. rank \in Nat /\ v % q \in 0 .. q - 1 /\ v = q * rank + (v % q)
      BY <3>1, <3>2, Division
    <3>4. rank < R - 1
      <4>1. SUFFICES ASSUME rank >= R - 1 PROVE FALSE
        BY <1>1, <3>3
      <4>2. q * rank >= q * (R - 1) /\ q * (R - 1) = (R - 1) * q
        BY <1>1, <3>1, <3>3, <4>1
      <4>. QED  BY <1>1, <1>5, <2>1, <3>1, <3>3, <4>2
    <3>5. v \in rank * q .. rank * q + (q + 0) - 1
      <4>1. q * rank = rank * q /\ q * rank \in Nat
        BY <3>1, <3>3
      <4>. QED  BY <1>2, <3>1, <3>3, <4>1
    <3>6. rank \in 0 .. R - 1 /\ Slice(M, rank) = rank * q .. rank * q + (q + 0) - 1
      BY <1>1, <1>3, <3>3, <3>4
    <3>. QED  BY <3>5, <3>6
  <2>2. CASE ~(v < (R - 1) * q)
    <3>1. R - 1 \in 0 .. R - 1 /\ Slice(M, R - 1) = (R - 1) * q .. (R - 1) * q + (q + t) - 1
      BY <1>1, <1>3
    <3>2. v \in (R - 1) * q .. (R - 1) * q + (q + t) - 1
      BY <1>1, <1>2, <1>5, <2>2
    <3>. QED  BY <3>1, <3>2
  <2>. QED  BY <2>1, <2>2
<1>. QED  BY <1>7, <1>8 DEF T, R

\* The kernels of a collective are launched for the tensors of its participants.
LEMMA LaunchOf ==
  ASSUME Control, NEW r \in Ops, thread[r].pc \in {"Launch", "WaitKernels"}
  PROVE  LET M == Launch(thread[r].collective)
         IN  /\ M.element_count \in Nat /\ M.VecSize \in Nat \ {0}
             /\ M.reduction_size \in Nat \ {0} /\ M.reduction_size = Len(Members(r))
             /\ \A j \in Ranks(r) : Output(Members(r)[j]) = 0 .. total_vec_count(M) - 1
<1>. DEFINE c == thread[r].collective
            M == Launch(c)
<1>1. thread[r].pc \in Running /\ thread[r].pc \notin {"BarrierTensor", "BarrierComm", "Callback"}
  BY DEF Running, Looping, Waiting
<1>2. AllAgree(c) /\ SameNumElements(c)
  BY <1>1 DEF Control, RunsCollective
<1>3. /\ \A j \in Ranks(r) : Members(r)[j] \in Ops
      /\ Len(Members(r)) \in Nat \ {0}
  BY <1>1, AtParticipant
<1>4. 1 \in Ranks(r)
  BY <1>3 DEF Ranks
<1>5. c.participants = Members(r)
  BY DEF Members
<1>6. \A j \in Ranks(r) :
        /\ c.data_type = args[Members(r)[j]].data_type
        /\ args[Members(r)[j]].NumElements = args[Members(r)[1]].NumElements
  BY <1>2, <1>5 DEF AllAgree, Agrees, SameNumElements, Ranks
<1>7. \A p \in Ops :
        /\ args[p].NumElements \in Nat /\ args[p].VecSize \in Nat \ {0}
        /\ \A u \in Ops : args[p].data_type = args[u].data_type => args[p].VecSize = args[u].VecSize
  BY CasesAssumption DEF Control, Types
<1>8. \A j \in Ranks(r) : args[Members(r)[j]].VecSize = args[Members(r)[1]].VecSize
  BY <1>3, <1>4, <1>6, <1>7
<1>9. /\ M.element_count = args[Members(r)[1]].NumElements
      /\ M.VecSize = args[Members(r)[1]].VecSize
      /\ M.reduction_size = Len(Members(r))
  BY <1>5 DEF Launch
<1>10. ASSUME NEW j \in Ranks(r)
       PROVE  Output(Members(r)[j]) = 0 .. total_vec_count(M) - 1
  <2>. DEFINE N == [element_count |-> args[Members(r)[j]].NumElements,
                    VecSize |-> args[Members(r)[j]].VecSize]
  <2>1. N.element_count = M.element_count /\ N.VecSize = M.VecSize
    BY <1>6, <1>8, <1>9
  <2>2. Output(Members(r)[j]) = 0 .. total_vec_count(N) - 1
    BY DEF Output
  <2>. HIDE DEF M, N
  <2>3. total_vec_count(N) = total_vec_count(M)
    BY <2>1 DEF total_vec_count, vec_tail_element_count
  <2>. QED  BY <2>2, <2>3
<1>. HIDE DEF M
<1>11. /\ M.element_count \in Nat /\ M.VecSize \in Nat \ {0}
       /\ M.reduction_size \in Nat \ {0}
  BY <1>3, <1>4, <1>7, <1>9
<1>. QED  BY <1>9, <1>10, <1>11 DEF M

\* The tensors do not change.
LEMMA FixedTensors ==
  ASSUME args' = args, NEW c, NEW p
  PROVE  Launch(c)' = Launch(c) /\ Output(p)' = Output(p)
  BY DEF Launch, Output

\* A submitted command is not executed by the step.
LEMMA PendingKept ==
  ASSUME Types, queue' = queue \/ \E s, command : Submitted(s, command), NEW e, Pending(e)
  PROVE  Pending(e)'
<1>1. PICK t \in Streams : \E k \in 1 .. Len(queue[t]) : queue[t][k].event = e
  BY DEF Pending
<1>2. PICK k \in 1 .. Len(queue[t]) : queue[t][k].event = e
  BY <1>1
<1>3. k \in 1 .. Len(queue'[t]) /\ queue'[t][k] = queue[t][k]
  BY AfterSubmit
<1>. QED  BY <1>2, <1>3 DEF Pending

\* Executing one command leaves the others pending.
LEMMA PendingExecuted ==
  ASSUME Types, NEW s \in Streams, Execute(s), NEW e, Pending(e), queue[s][1].event # e
  PROVE  Pending(e)'
<1>1. PICK t \in Streams : \E k \in 1 .. Len(queue[t]) : queue[t][k].event = e
  BY DEF Pending
<1>2. PICK k \in 1 .. Len(queue[t]) : queue[t][k].event = e
  BY <1>1
<1>3. Executed(s)
  BY Executes
<1>4. CASE t # s
  BY <1>2, <1>3, <1>4, AfterExecute DEF Pending
<1>5. CASE t = s
  <2>1. k # 1
    BY <1>2, <1>5
  <2>2. k - 1 \in 1 .. Len(queue'[t]) /\ queue'[t][k - 1] = queue[t][k]
    BY <1>3, <1>5, <2>1, AfterExecute
  <2>. QED  BY <1>2, <2>2 DEF Pending
<1>. QED  BY <1>4, <1>5

\* A slice that is reduced, or is to be, stays so while the outputs do not change.
LEMMA SliceKept ==
  ASSUME Control, args' = args, NEW r \in Ops, NEW j \in Ranks(r),
         thread'[r].collective = thread[r].collective,
         written'[Members(r)[1]] = written[Members(r)[1]],
         NEW p, p = Members(r)[j], Pending(<<"reduce", p>>) => Pending(<<"reduce", p>>)',
         SliceReduced(r, j)
  PROVE  SliceReduced(r, j)'
<1>1. Members(r)' = Members(r)
  BY DEF Members
<1>2. Launch(thread[r].collective)' = Launch(thread[r].collective)
  BY DEF Launch
<1>3. CASE Pending(<<"reduce", p>>)
  <2>1. Pending(<<"reduce", p>>)'
    BY <1>3
  <2>. QED  BY <1>1, <2>1 DEF SliceReduced
<1>4. CASE ~Pending(<<"reduce", p>>)
  BY <1>1, <1>2, <1>4 DEF SliceReduced
<1>. QED  BY <1>3, <1>4

\* A collective whose thread, outputs and pending kernels stay keeps its outputs.
LEMMA OutputsOfOthers ==
  ASSUME Control, Outputs, args' = args, NEW r \in Ops, NEW j \in Ranks(r),
         thread'[r] = thread[r], written'[Members(r)[1]] = written[Members(r)[1]],
         NEW p \in Ops, p = Members(r)[j], written'[p] = written[p],
         Pending(<<"reduce", p>>) => Pending(<<"reduce", p>>)'
  PROVE  OutputsOf(r, j)'
<1>1. Members(r)' = Members(r)
  BY DEF Members
<1>2. OutputsOf(r, j)
  BY DEF Outputs
<1>3. SliceReduced(r, j) => SliceReduced(r, j)'
  BY SliceKept
<1>4. Output(p)' = Output(p)
  BY DEF Output
<1>5. thread'[r].pc = thread[r].pc /\ thread'[r].i = thread[r].i
      /\ thread'[r].collective = thread[r].collective
  OBVIOUS
<1>6. Output(Members(r)[j])' = Output(p)
  BY <1>1, <1>4
<1>7. (\/ thread[r].pc = "Launch" /\ j < thread[r].i
       \/ thread[r].pc = "WaitKernels") => SliceReduced(r, j)'
  BY <1>2, <1>3 DEF OutputsOf
<1>. QED  BY <1>1, <1>2, <1>5, <1>6, <1>7 DEF OutputsOf

\* The collective has all its participants: nothing has been written yet.
LEMMA OutputsAddParticipant ==
  ASSUME Control, Outputs, NEW o \in Ops, AddParticipant(o)
  PROVE  /\ \A k \in DOMAIN collectives_' : \A j \in 1 .. Len(collectives_'[k].participants) :
              written'[collectives_'[k].participants[j]] = {}
         /\ \A j \in Ranks(o)' : OutputsOf(o, j)'
<1>. DEFINE c == Assembled(o)
            key == args[o].key
<1>1. written' = written /\ thread[o].pc = "Ready" /\ written[o] = {}
  BY AddParticipantDoes DEF AddParticipant, Outputs, Joining
<1>2. \A j \in 1 .. Len(c.participants) : written[c.participants[j]] = {}
  <2>1. Len(c.participants) \in Nat
    <3>1. c.participants \in Seq(Ops)
      BY <1>1, AssembledIs DEF Collective
    <3>. QED  BY <3>1
  <2>2. c.participants[Len(c.participants)] = o
    BY <1>1, AssembledIs
  <2>3. \A j \in 1 .. Len(c.participants) - 1 :
          /\ key \in DOMAIN collectives_
          /\ j \in 1 .. Len(collectives_[key].participants)
          /\ c.participants[j] = collectives_[key].participants[j]
    BY <1>1, AssembledIs
  <2>4. \A j \in 1 .. Len(c.participants) - 1 : written[c.participants[j]] = {}
    BY <2>3 DEF Outputs
  <2>5. \A j \in 1 .. Len(c.participants) :
          j \in 1 .. Len(c.participants) - 1 \/ j = Len(c.participants)
    BY <2>1
  <2>. QED  BY <1>1, <2>2, <2>4, <2>5
<1>. HIDE DEF c
<1>3. CASE Ready(c)
  <2>1. /\ collectives_' = [k \in DOMAIN collectives_ \ {key} |-> collectives_[k]]
        /\ thread'[o].collective = c
        /\ thread'[o].pc = IF c.status = "OK" THEN "BarrierTensor" ELSE "Callback"
    BY <1>3, AddParticipantDoes DEF Moved, c
  <2>2. Members(o)' = c.participants
    BY <2>1 DEF Members
  <2>3. \A j \in Ranks(o)' : OutputsOf(o, j)'
    BY <1>1, <1>2, <2>1, <2>2 DEF OutputsOf, Ranks
  <2>. QED  BY <1>1, <2>1, <2>3 DEF Outputs
<1>4. CASE ~Ready(c)
  <2>1. /\ collectives_' = [k \in DOMAIN collectives_ \union {key} |->
                              IF k = key THEN c ELSE collectives_[k]]
        /\ thread'[o].pc = "Returned"
    BY <1>4, AddParticipantDoes DEF Moved, c
  <2>2. \A j \in Ranks(o)' : OutputsOf(o, j)'
    BY <2>1 DEF OutputsOf
  <2>3. ASSUME NEW k \in DOMAIN collectives_', NEW j \in 1 .. Len(collectives_'[k].participants)
        PROVE  written'[collectives_'[k].participants[j]] = {}
    <3>1. CASE k = key
      BY <1>1, <1>2, <2>1, <3>1
    <3>2. CASE k # key
      BY <1>1, <2>1, <3>2 DEF Outputs
    <3>. QED  BY <3>1, <3>2
  <2>. QED  BY <2>2, <2>3
<1>. QED  BY <1>3, <1>4

\* The kernel of the next rank is launched, unless its slice is empty.
LEMMA OutputsLaunchKernel ==
  ASSUME Control, Outputs, NEW o \in Ops, LaunchKernel(o), NEW j \in Ranks(o)
  PROVE  OutputsOf(o, j)'
<1>1. /\ thread[o].pc = "Launch" /\ args' = args /\ written' = written
      /\ participant(o) \in Ops
      /\ queue' = queue \/ \E s, command : Submitted(s, command)
  BY LaunchKernelDoes DEF LaunchKernel
<1>2. /\ thread'[o].collective = thread[o].collective
      /\ \/ thread'[o].pc = "Launch" /\ thread'[o].i = thread[o].i + 1
         \/ thread'[o].pc = "WaitKernels" /\ thread[o].i = Len(Members(o))
  BY LaunchKernelDoes DEF Moved
<1>3. Members(o)' = Members(o)
  BY <1>2 DEF Members
<1>4. /\ j \in Nat \ {0} /\ thread[o].i \in Nat \ {0} /\ Len(Members(o)) \in Nat
      /\ j <= Len(Members(o))
      /\ participant(o) = Members(o)[thread[o].i] /\ thread[o].i \in Ranks(o)
  BY <1>1, MemberOf, AtParticipant DEF Running, Looping
<1>5. OutputsOf(o, j)
  BY DEF Outputs
<1>6. PICK p \in Ops : p = Members(o)[j]
  BY MemberOf
<1>7. ASSUME j < thread[o].i PROVE SliceReduced(o, j)'
  <2>1. SliceReduced(o, j)
    BY <1>1, <1>5, <1>7 DEF OutputsOf
  <2>2. Pending(<<"reduce", p>>) => Pending(<<"reduce", p>>)'
    BY <1>1, PendingKept DEF Control
  <2>. QED  BY <1>1, <1>2, <1>6, <2>1, <2>2, SliceKept
<1>8. ASSUME j = thread[o].i PROVE SliceReduced(o, j)'
  <2>0. p = participant(o)
    BY <1>4, <1>6, <1>8
  <2>1. CASE local_vec_count(Launch(thread[o].collective), thread[o].i - 1) = 0
    <3>1. PICK M : M = Launch(thread[o].collective)
      OBVIOUS
    <3>2. /\ M.element_count \in Nat /\ M.VecSize \in Nat \ {0}
          /\ M.reduction_size \in Nat \ {0} /\ M.reduction_size = Len(Members(o))
      BY <1>1, <3>1, LaunchOf
    <3>3. j - 1 \in 0 .. M.reduction_size - 1
      BY <1>4, <3>2
    <3>4. Slice(M, j - 1) = {}
      BY <1>8, <2>1, <3>1, <3>2, <3>3, SlicesCover
    <3>5. Launch(thread[o].collective)' = M
      BY <1>1, <1>2, <3>1 DEF Launch
    <3>. QED  BY <3>4, <3>5 DEF SliceReduced
  <2>2. CASE Submitted(comm_stream(p), Command("reduce", p, NoEvent, Members(o)))
    <3>1. PICK s \in Streams : s = comm_stream(p)
      BY StreamsOf DEF Control
    <3>2. PICK command : command = Command("reduce", p, NoEvent, Members(o))
      OBVIOUS
    <3>3. Submitted(s, command) /\ command.event = <<"reduce", p>>
      BY <2>2, <3>1, <3>2 DEF Command
    <3>4. Len(queue[s]) \in Nat /\ Len(queue'[s]) = Len(queue[s]) + 1
      BY <3>3, AfterSubmit DEF Submitted, Control
    <3>5. PICK m \in 1 .. Len(queue'[s]) : queue'[s][m] = command
      BY <3>3, <3>4 DEF Submitted
    <3>6. Pending(<<"reduce", p>>)'
      BY <3>3, <3>5 DEF Pending
    <3>. QED  BY <1>3, <1>6, <3>6 DEF SliceReduced
  <2>. QED  BY <2>0, <2>1, <2>2, LaunchKernelDoes
<1>9. written[Members(o)[j]] = written[Members(o)[1]]
  BY <1>1, <1>5 DEF OutputsOf
<1>10. CASE thread'[o].pc = "Launch" /\ thread'[o].i = thread[o].i + 1
  <2>1. j < thread'[o].i => j < thread[o].i \/ j = thread[o].i
    BY <1>4, <1>10
  <2>. QED  BY <1>1, <1>3, <1>7, <1>8, <1>9, <1>10, <2>1 DEF OutputsOf
<1>11. CASE thread'[o].pc = "WaitKernels" /\ thread[o].i = Len(Members(o))
  <2>1. j < thread[o].i \/ j = thread[o].i
    BY <1>4, <1>11
  <2>. QED  BY <1>1, <1>3, <1>7, <1>8, <1>9, <1>11, <2>1 DEF OutputsOf
<1>. QED  BY <1>2, <1>10, <1>11

\* Once all streams were waited for, no kernel is left, and the slices make up
\* the output.
LEMMA OutputsWaitKernels ==
  ASSUME Control, Kernels, Outputs, NEW o \in Ops, WaitKernels(o), NEW j \in Ranks(o)
  PROVE  OutputsOf(o, j)'
<1>1. /\ thread[o].pc = "WaitKernels" /\ thread[o].pc \in Waiting
      /\ WaitEach(o, "JoinComm") /\ args' = args /\ written' = written /\ queue' = queue
  BY DEF WaitKernels, WaitEach, At, Waiting
<1>2. OutputsOf(o, j)
  BY DEF Outputs
<1>3. PICK p \in Ops : p = Members(o)[j]
  BY MemberOf
<1>4. CASE Moved(o, thread[o].pc, thread[o].i + 1,
                 LastEvent(comm_stream(Members(o)[thread[o].i])), thread[o].collective)
  <2>1. /\ thread'[o].pc = "WaitKernels" /\ thread'[o].collective = thread[o].collective
        /\ Members(o)' = Members(o)
    BY <1>1, <1>4 DEF Moved, Members
  <2>2. Pending(<<"reduce", p>>) => Pending(<<"reduce", p>>)'
    BY <1>1, PendingKept DEF Control
  <2>3. SliceReduced(o, j)'
    BY <1>1, <1>2, <1>3, <2>1, <2>2, SliceKept DEF OutputsOf
  <2>. QED  BY <1>1, <1>2, <2>1, <2>3 DEF OutputsOf
<1>5. CASE /\ thread[o].i = Len(Members(o)) + 1
           /\ Moved(o, "JoinComm", 1, NoEvent, thread[o].collective)
  <2>1. /\ thread'[o].pc = "JoinComm" /\ Members(o)' = Members(o)
    BY <1>5 DEF Moved, Members
  <2>2. ASSUME NEW l \in Ranks(o) PROVE ~Pending(<<"reduce", Members(o)[l]>>)
    <3>1. SUFFICES ASSUME NEW s \in Streams, NEW k \in 1 .. Len(queue[s]),
                          queue[s][k].event = <<"reduce", Members(o)[l]>>
                   PROVE  FALSE
      BY DEF Pending
    <3>2. queue[s][k].event[1] = "reduce" /\ queue[s][k].event[2] = Members(o)[l]
      BY <3>1
    <3>3. PICK r \in Ops : \E m \in Ranks(r) : Launched(s, k, r, m)
      BY <3>2 DEF Kernels
    <3>4. PICK m \in Ranks(r) : Launched(s, k, r, m)
      BY <3>3
    <3>5. Members(r)[m] = Members(o)[l]
      BY <3>2, <3>4 DEF Launched
    <3>6. r = o
      BY <3>5 DEF Control, Disjoint
    <3>7. m <= Len(Members(o)) /\ m \in Nat /\ Len(Members(o)) \in Nat
      BY <3>6, MemberOf
    <3>8. PICK n \in k .. Len(queue[s]) : queue[s][n].event = thread[o].event
      BY <1>1, <1>5, <3>4, <3>6, <3>7 DEF Launched
    <3>9. n \in 1 .. Len(queue[s])
      OBVIOUS
    <3>10. Pending(thread[o].event)
      BY <3>8, <3>9 DEF Pending
    <3>. QED  BY <1>1, <3>10, WaitEachDoes
  <2>3. PICK M : M = Launch(thread[o].collective)
    OBVIOUS
  <2>4. /\ M.element_count \in Nat /\ M.VecSize \in Nat \ {0}
        /\ M.reduction_size \in Nat \ {0} /\ M.reduction_size = Len(Members(o))
        /\ Output(p) = 0 .. total_vec_count(M) - 1
    BY <1>1, <1>3, <2>3, LaunchOf
  <2>5. ASSUME NEW v \in Output(p) PROVE v \in written[p]
    <3>1. PICK rank \in 0 .. M.reduction_size - 1 : v \in Slice(M, rank)
      BY <2>4, SlicesCover
    <3>2. PICK l \in Ranks(o) : l - 1 = rank
      <4>1. rank + 1 \in Ranks(o) /\ (rank + 1) - 1 = rank
        BY <2>4 DEF Ranks
      <4>. QED  BY <4>1
    <3>3. SliceReduced(o, l)
      BY <1>1 DEF Outputs, OutputsOf
    <3>4. Slice(M, l - 1) \subseteq written[Members(o)[1]]
      BY <2>2, <2>3, <3>3 DEF SliceReduced
    <3>5. written[p] = written[Members(o)[1]]
      BY <1>1, <1>2, <1>3 DEF OutputsOf
    <3>. QED  BY <3>1, <3>2, <3>4, <3>5
  <2>6. written[p] = Output(p)
    BY <2>5 DEF Outputs
  <2>7. Output(p)' = Output(p)
    BY <1>1 DEF Output
  <2>8. written'[Members(o)'[j]] = Output(Members(o)[j])'
    BY <1>1, <1>3, <2>1, <2>6, <2>7
  <2>. QED  BY <2>1, <2>8 DEF OutputsOf
<1>. QED  BY <1>1, <1>4, <1>5, WaitEachDoes

\* The kernel of rank m - 1 reduces what is left of its slice, for all
\* participants: their inputs are complete, and as much of their outputs.
LEMMA ReducesSlice ==
  ASSUME Control, Inputs, Outputs, NEW r \in Ops, NEW m \in Ranks(r),
         thread[r].pc \in {"Launch", "WaitKernels"},
         NEW command, command.ops = Members(r), command.event[2] = Members(r)[m]
  PROVE  Reduces(command) =
           Slice(Launch(thread[r].collective), m - 1) \ written[Members(r)[1]]
<1>1. \A k \in Ranks(r) :
        Members(r)[k] \in produced /\ written[Members(r)[k]] = written[Members(r)[1]]
  BY DEF Inputs, InputsOf, Outputs, OutputsOf
<1>2. 1 \in Ranks(r) /\ m \in Nat
  BY MemberOf DEF Ranks
<1>3. Launch([participants |-> command.ops]) = Launch(thread[r].collective)
  BY DEF Launch, Members
<1>4. RankOf(command.ops, command.event[2]) = m - 1
  <2>1. \A j, k \in Ranks(r) : Members(r)[j] = Members(r)[k] => j = k
    <3>1. Collective(thread[r].collective)
      BY MemberOf DEF Control, RunsCollective
    <3>. QED  BY <3>1 DEF Collective, Members, Ranks
  <2>2. (CHOOSE k \in 1 .. Len(command.ops) : command.ops[k] = command.event[2]) = m
    BY <2>1 DEF Ranks
  <2>. QED  BY <2>2 DEF RankOf
<1>5. Reduces(command) =
        {v \in Slice(Launch(thread[r].collective), m - 1) :
           \A k \in Ranks(r) : Members(r)[k] \in produced /\ v \notin written[Members(r)[k]]}
  BY <1>3, <1>4 DEF Reduces, Ranks
<1>. HIDE DEF Reduces
<1>. QED  BY <1>1, <1>2, <1>5

\* Execute keeps what is known of the outputs: a kernel that has run has
\* reduced its slice of all of them.
LEMMA OutputsExecute ==
  ASSUME Control, Kernels, Inputs, Outputs, NEW s \in Streams, Execute(s)
  PROVE  Outputs'
<1>1. Executed(s)
  BY Executes DEF Control
<1>2. PICK command : command = queue[s][1]
  OBVIOUS
<1>3. /\ args' = args /\ thread' = thread /\ callback' = callback
      /\ collectives_' = collectives_
  BY DEF Execute
<1>4. written' = [o \in Ops |->
        IF command.event[1] = "reduce" /\ \E k \in 1 .. Len(command.ops) : command.ops[k] = o
        THEN written[o] \union Reduces(command) ELSE written[o]]
  BY <1>1, <1>2 DEF Execute, Executed
<1>5. \A o \in Ops : Output(o)' = Output(o)
  BY <1>3 DEF Output
<1>6. \A r \in Ops : Ranks(r)' = Ranks(r) /\ Members(r)' = Members(r)
  BY <1>3 DEF Ranks, Members
<1>7. ASSUME NEW p \in Ops, command.event # <<"reduce", p>>
      PROVE  Pending(<<"reduce", p>>) => Pending(<<"reduce", p>>)'
  BY <1>2, <1>7, PendingExecuted DEF Control
<1>8. ASSUME NEW r \in Ops, NEW j \in Ranks(r), NEW p \in Ops, p = Members(r)[j],
             written'[p] = written[p], written'[Members(r)[1]] = written[Members(r)[1]],
             command.event # <<"reduce", p>>
      PROVE  OutputsOf(r, j)'
  BY <1>3, <1>7, <1>8, OutputsOfOthers
<1>9. CASE command.event[1] # "reduce"
  <2>1. \A o \in Ops : written'[o] = written[o]
    BY <1>4, <1>9
  <2>2. \A p \in Ops : command.event # <<"reduce", p>>
    BY <1>9
  <2>3. \A r \in Ops : \A j \in Ranks(r) : OutputsOf(r, j)'
    <3>. SUFFICES ASSUME NEW r \in Ops, NEW j \in Ranks(r) PROVE OutputsOf(r, j)'
      OBVIOUS
    <3>1. PICK p \in Ops : p = Members(r)[j]
      BY MemberOf
    <3>2. 1 \in Ranks(r) /\ Members(r)[1] \in Ops
      BY MemberOf DEF Ranks
    <3>. QED  BY <1>8, <2>1, <2>2, <3>1, <3>2
  <2>4. \A k \in DOMAIN collectives_ : \A j \in 1 .. Len(collectives_[k].participants) :
          collectives_[k].participants[j] \in Ops
    BY DEF Control, Assembling, Collective
  <2>. QED  BY <1>3, <1>5, <1>6, <2>1, <2>3, <2>4 DEF Outputs
<1>10. CASE command.event[1] = "reduce"
  <2>0. 1 \in 1 .. Len(queue[s])
    BY <1>1, AfterExecute DEF Executed, Control
  <2>1. PICK r \in Ops : \E m \in Ranks(r) : Launched(s, 1, r, m)
    BY <1>2, <1>10, <2>0 DEF Kernels
  <2>2. PICK m \in Ranks(r) : Launched(s, 1, r, m)
    BY <2>1
  <2>3. /\ command.ops = Members(r) /\ command.event[2] = Members(r)[m]
        /\ thread[r].pc \in {"Launch", "WaitKernels"}
    BY <1>2, <2>2 DEF Launched
  <2>4. PICK w : w = written[Members(r)[1]]
    OBVIOUS
  <2>5. PICK S : S = Slice(Launch(thread[r].collective), m - 1)
    OBVIOUS
  <2>6. Reduces(command) = S \ w
    BY <2>3, <2>4, <2>5, ReducesSlice
  <2>7. /\ \A j \in Ranks(r) : Members(r)[j] \in Ops /\ written[Members(r)[j]] = w
        /\ 1 \in Ranks(r)
    BY <2>3, <2>4, MemberOf DEF Outputs, OutputsOf, Ranks
  <2>8. \A j \in Ranks(r) : written'[Members(r)[j]] = w \union S
    <3>1. \A j \in Ranks(r) : written'[Members(r)[j]] = w \union (S \ w)
      BY <1>4, <1>10, <2>3, <2>6, <2>7 DEF Ranks
    <3>. QED  BY <3>1
  <2>9. \A o \in Ops : (\A j \in Ranks(r) : Members(r)[j] # o) => written'[o] = written[o]
    BY <1>4, <2>3 DEF Ranks
  <2>10. \A j \in Ranks(r) : S \subseteq Output(Members(r)[j])
    <3>1. PICK M : M = Launch(thread[r].collective)
      OBVIOUS
    <3>2. /\ M.element_count \in Nat /\ M.VecSize \in Nat \ {0}
          /\ M.reduction_size \in Nat \ {0} /\ M.reduction_size = Len(Members(r))
          /\ \A j \in Ranks(r) : Output(Members(r)[j]) = 0 .. total_vec_count(M) - 1
      BY <2>3, <3>1, LaunchOf
    <3>3. m - 1 \in 0 .. M.reduction_size - 1
      BY <3>2, MemberOf
    <3>4. S \subseteq 0 .. total_vec_count(M) - 1
      BY <2>5, <3>1, <3>2, <3>3, SlicesCover
    <3>. QED  BY <3>2, <3>4
  <2>11. \A j \in Ranks(r) :
           callback[Members(r)[j]] = <<>> /\ thread[Members(r)[j]].pc \notin Joining
    <3>1. thread[r].pc \in Running /\ thread[r].pc # "Callback"
      BY <2>3 DEF Running, Looping, Waiting
    <3>. QED  BY <3>1 DEF Control, RunsCollective
  <2>12. ASSUME NEW o \in Ops
         PROVE  /\ written'[o] \subseteq Output(o)'
                /\ callback'[o] = <<"OK">> => written'[o] = Output(o)'
                /\ thread'[o].pc \in Joining => written'[o] = {}
    <3>1. /\ written[o] \subseteq Output(o)
          /\ callback[o] = <<"OK">> => written[o] = Output(o)
          /\ thread[o].pc \in Joining => written[o] = {}
      BY DEF Outputs
    <3>2. CASE \A j \in Ranks(r) : Members(r)[j] # o
      BY <1>3, <1>5, <2>9, <3>1, <3>2
    <3>3. ASSUME NEW j \in Ranks(r), Members(r)[j] = o
          PROVE  /\ written'[o] \subseteq Output(o)'
                 /\ callback'[o] = <<"OK">> => written'[o] = Output(o)'
                 /\ thread'[o].pc \in Joining => written'[o] = {}
      <4>1. written'[o] = w \union S /\ written[o] = w
        BY <2>7, <2>8, <3>3
      <4>2. callback'[o] = <<>> /\ thread'[o].pc \notin Joining
        BY <1>3, <2>11, <3>3
      <4>3. written'[o] \subseteq Output(o)'
        BY <1>5, <2>10, <3>1, <3>3, <4>1
      <4>. QED  BY <4>2, <4>3
    <3>. QED  BY <3>2, <3>3
  <2>13. ASSUME NEW k \in DOMAIN collectives_, NEW j \in 1 .. Len(collectives_[k].participants)
         PROVE  written'[collectives_[k].participants[j]] = {}
    <3>1. PICK p \in Ops : p = collectives_[k].participants[j]
      BY DEF Control, Assembling, Collective
    <3>2. \A l \in Ranks(r) : Members(r)[l] # p
      BY <3>1 DEF Control, Assembling
    <3>3. written[p] = {}
      BY <3>1 DEF Outputs
    <3>. QED  BY <2>9, <3>1, <3>2, <3>3
  <2>14. ASSUME NEW j \in Ranks(r) PROVE OutputsOf(r, j)'
    <3>1. PICK p \in Ops : p = Members(r)[j]
      BY <2>7
    <3>2. Launch(thread[r].collective)' = Launch(thread[r].collective)
      BY <1>3 DEF Launch
    <3>3. SliceReduced(r, j) => SliceReduced(r, j)'
      <4>1. CASE j = m
        BY <1>6, <2>5, <2>7, <2>8, <3>2, <4>1 DEF SliceReduced
      <4>2. CASE j # m
        <5>1. p # Members(r)[m]
          <6>1. Collective(thread[r].collective)
            BY MemberOf DEF Control, RunsCollective
          <6>. QED  BY <3>1, <4>2, <6>1 DEF Collective, Members, Ranks
        <5>2. command.event # <<"reduce", p>>
          BY <2>3, <5>1
        <5>3. CASE Pending(<<"reduce", p>>)
          <6>1. Pending(<<"reduce", p>>)'
            BY <1>7, <5>2, <5>3
          <6>. QED  BY <1>6, <3>1, <6>1 DEF SliceReduced
        <5>4. CASE Slice(Launch(thread[r].collective), j - 1) \subseteq w
          <6>1. Slice(Launch(thread[r].collective)', j - 1) \subseteq written'[Members(r)'[1]]
            BY <1>6, <2>7, <2>8, <3>2, <5>4
          <6>. QED  BY <6>1 DEF SliceReduced
        <5>. QED  BY <2>4, <3>1, <5>3, <5>4 DEF SliceReduced
      <4>. QED  BY <4>1, <4>2
    <3>4. OutputsOf(r, j)
      BY DEF Outputs
    <3>5. (\/ thread[r].pc = "Launch" /\ j < thread[r].i
           \/ thread[r].pc = "WaitKernels") => SliceReduced(r, j)'
      BY <3>3, <3>4 DEF OutputsOf
    <3>6. written'[Members(r)'[j]] = written'[Members(r)'[1]]
      BY <1>6, <2>7, <2>8
    <3>. QED  BY <1>3, <2>3, <3>5, <3>6 DEF OutputsOf
  <2>15. ASSUME NEW q \in Ops, NEW j \in Ranks(q), q # r PROVE OutputsOf(q, j)'
    <3>1. PICK p \in Ops : p = Members(q)[j]
      BY MemberOf
    <3>2. 1 \in Ranks(q) /\ Members(q)[1] \in Ops
      BY MemberOf DEF Ranks
    <3>3. \A k \in Ranks(r) : Members(r)[k] # p /\ Members(r)[k] # Members(q)[1]
      BY <2>15, <3>1, <3>2 DEF Control, Disjoint
    <3>4. command.event # <<"reduce", p>>
      BY <2>3, <3>3
    <3>. QED  BY <1>8, <2>9, <3>1, <3>2, <3>3, <3>4
  <2>16. \A q \in Ops : \A j \in Ranks(q) : OutputsOf(q, j)'
    BY <2>14, <2>15
  <2>. QED  BY <1>3, <1>6, <2>12, <2>13, <2>16 DEF Outputs
<1>. QED  BY <1>9, <1>10

\* The loops of barriers and of callbacks write nothing.
LEMMA OutputsLoops ==
  ASSUME Control, Outputs, NEW o \in Ops,
         \/ BarrierTensor(o) \/ BarrierComm(o) \/ WaitInputs(o)
         \/ JoinComm(o) \/ JoinTensor(o) \/ Callback(o),
         NEW j \in Ranks(o)'
  PROVE  OutputsOf(o, j)'
<1>1. written' = written /\ args' = args
  BY DEF BarrierTensor, BarrierComm, WaitInputs, WaitEach, JoinComm, JoinTensor, Callback
<1>2. \/ /\ thread[o].pc \in {"BarrierTensor", "BarrierComm", "WaitInputs"}
         /\ thread'[o].pc \in {"BarrierTensor", "BarrierComm", "WaitInputs"}
         /\ thread'[o].collective = thread[o].collective
      \/ /\ thread[o].pc = "WaitInputs" /\ thread'[o].pc = "Launch" /\ thread'[o].i = 1
         /\ thread'[o].collective = thread[o].collective
      \/ /\ thread[o].pc \in {"JoinComm", "JoinTensor", "Callback"}
         /\ thread'[o].pc \in {"JoinComm", "JoinTensor", "Callback"}
         /\ thread'[o].collective = thread[o].collective
         /\ thread[o].pc = "Callback" => thread'[o].pc = "Callback"
      \/ thread'[o].pc = "Callback" /\ thread'[o].collective.status # "OK"
      \/ thread'[o].pc = "Returned"
  <2>1. CASE BarrierTensor(o)
    BY <2>1, BarrierTensorDoes DEF Moved
  <2>2. CASE BarrierComm(o)
    <3>1. Collective(thread[o].collective)
      BY <2>2, BarrierCommDoes DEF Control, RunsCollective, Running, Looping
    <3>2. [thread[o].collective EXCEPT !.status = "InvalidArgument"].status # "OK"
      BY <3>1 DEF Collective
    <3>. QED  BY <2>2, <3>2, BarrierCommDoes DEF Moved
  <2>3. CASE WaitInputs(o)
    <3>1. thread[o].pc = "WaitInputs" /\ thread[o].pc \in Waiting /\ WaitEach(o, "Launch")
      BY <2>3 DEF WaitInputs, At, Waiting
    <3>. QED  BY <3>1, WaitEachDoes DEF Moved
  <2>4. CASE JoinComm(o)
    BY <2>4, JoinCommDoes DEF Moved
  <2>5. CASE JoinTensor(o)
    BY <2>5, JoinTensorDoes DEF Moved
  <2>6. CASE Callback(o)
    BY <2>6, CallbackDoes DEF Moved
  <2>. QED  BY <2>1, <2>2, <2>3, <2>4, <2>5, <2>6
<1>3. CASE \/ thread'[o].pc = "Returned"
           \/ thread'[o].pc = "Callback" /\ thread'[o].collective.status # "OK"
  BY <1>3 DEF OutputsOf
<1>4. ASSUME thread'[o].collective = thread[o].collective
      PROVE  /\ Members(o)' = Members(o) /\ j \in Ranks(o) /\ OutputsOf(o, j)
             /\ Output(Members(o)[j])' = Output(Members(o)[j])
  <2>1. Members(o)' = Members(o)
    BY <1>4 DEF Members
  <2>2. j \in Ranks(o)
    BY <2>1 DEF Ranks
  <2>. QED  BY <1>1, <2>1, <2>2 DEF Outputs, Output
<1>5. CASE /\ thread[o].pc \in {"BarrierTensor", "BarrierComm", "WaitInputs"}
           /\ thread'[o].pc \in {"BarrierTensor", "BarrierComm", "WaitInputs"}
           /\ thread'[o].collective = thread[o].collective
  BY <1>1, <1>4, <1>5 DEF OutputsOf
<1>6. CASE /\ thread[o].pc = "WaitInputs" /\ thread'[o].pc = "Launch" /\ thread'[o].i = 1
           /\ thread'[o].collective = thread[o].collective
  <2>1. 1 \in Ranks(o) /\ ~(j < 1)
    BY <1>4, <1>6, MemberOf DEF Ranks
  <2>2. written[Members(o)[1]] = {} /\ written[Members(o)[j]] = {}
    BY <1>4, <1>6, <2>1 DEF Outputs, OutputsOf
  <2>. QED  BY <1>1, <1>4, <1>6, <2>1, <2>2 DEF OutputsOf
<1>7. CASE /\ thread[o].pc \in {"JoinComm", "JoinTensor", "Callback"}
           /\ thread'[o].pc \in {"JoinComm", "JoinTensor", "Callback"}
           /\ thread'[o].collective = thread[o].collective
           /\ thread[o].pc = "Callback" => thread'[o].pc = "Callback"
  BY <1>1, <1>4, <1>7 DEF OutputsOf
<1>. QED  BY <1>2, <1>3, <1>5, <1>6, <1>7

\* Every step keeps the part Outputs of the invariant.
LEMMA OutputsStep ==
  Control /\ Kernels /\ Inputs /\ Outputs /\ [Next]_vars => Outputs'
<1>. SUFFICES ASSUME Control, Kernels, Inputs, Outputs, [Next]_vars PROVE Outputs'
  OBVIOUS
<1>. DEFINE Kept == args' = args /\ written' = written
            Adding == queue' = queue \/ \E s, command : Submitted(s, command)
            Assembly == \A k \in DOMAIN collectives_' :
                          \A j \in 1 .. Len(collectives_'[k].participants) :
                            written'[collectives_'[k].participants[j]] = {}
            Good(o) == /\ \A r \in Ops \ {o} : thread'[r] = thread[r]
                       /\ thread[o].pc \notin Joining => thread'[o].pc \notin Joining
                       /\ \A j \in Ranks(o)' : OutputsOf(o, j)'
<1>1. ASSUME NEW o \in Ops, Good(o), Kept, Adding, Assembly,
             \A p \in Ops : callback'[p] = <<"OK">> => callback[p] = <<"OK">>
      PROVE  Outputs'
  <2>1. ASSUME NEW r \in Ops, NEW j \in Ranks(r)' PROVE OutputsOf(r, j)'
    <3>1. CASE r = o
      BY <1>1, <2>1, <3>1
    <3>2. CASE r # o
      <4>1. thread'[r] = thread[r] /\ j \in Ranks(r)
        BY <1>1, <2>1, <3>2 DEF Ranks, Members
      <4>2. PICK p \in Ops : p = Members(r)[j]
        BY <4>1, MemberOf
      <4>3. Pending(<<"reduce", p>>) => Pending(<<"reduce", p>>)'
        BY <1>1, PendingKept DEF Control
      <4>. QED  BY <1>1, <4>1, <4>2, <4>3, OutputsOfOthers
    <3>. QED  BY <3>1, <3>2
  <2>2. ASSUME NEW p \in Ops
        PROVE  /\ written'[p] \subseteq Output(p)'
               /\ callback'[p] = <<"OK">> => written'[p] = Output(p)'
               /\ thread'[p].pc \in Joining => written'[p] = {}
    <3>1. Output(p)' = Output(p)
      BY <1>1 DEF Output
    <3>2. thread'[p].pc \in Joining => thread[p].pc \in Joining
      BY <1>1
    <3>. QED  BY <1>1, <3>1, <3>2 DEF Outputs
  <2>. QED  BY <1>1, <2>1, <2>2 DEF Outputs
<1>2. ASSUME collectives_' = collectives_, Kept PROVE Assembly
  BY <1>2 DEF Outputs
<1>3. ASSUME NEW o \in Ops, LaunchProducer(o) PROVE Outputs'
  <2>1. Kept /\ Adding /\ callback' = callback /\ collectives_' = collectives_
    BY <1>3, LaunchProducerDoes DEF LaunchProducer
  <2>2. /\ \A r \in Ops \ {o} : thread'[r] = thread[r]
        /\ thread[o].pc = "Idle" /\ thread'[o].pc = "Ready"
    BY <1>3, LaunchProducerDoes DEF Moved
  <2>3. Good(o)
    BY <2>2 DEF Joining, OutputsOf
  <2>. QED  BY <1>1, <1>2, <2>1, <2>3
<1>4. ASSUME NEW o \in Ops, AddParticipant(o) PROVE Outputs'
  <2>1. Kept /\ Adding /\ callback' = callback
    BY <1>4 DEF AddParticipant
  <2>2. /\ \A r \in Ops \ {o} : thread'[r] = thread[r]
        /\ thread[o].pc = "Ready"
        /\ thread'[o].pc \in {"BarrierTensor", "Callback", "Returned"}
    BY <1>4, AddParticipantDoes DEF Moved
  <2>3. Good(o) /\ Assembly
    BY <1>4, <2>2, OutputsAddParticipant DEF Joining
  <2>. QED  BY <1>1, <2>1, <2>3
<1>5. ASSUME NEW o \in Ops, BarrierTensor(o) \/ BarrierComm(o) \/ WaitInputs(o)
                              \/ JoinComm(o) \/ JoinTensor(o)
      PROVE  Outputs'
  <2>1. Kept /\ callback' = callback /\ collectives_' = collectives_
    BY <1>5 DEF BarrierTensor, BarrierComm, WaitInputs, WaitEach, JoinComm, JoinTensor
  <2>2. /\ Adding /\ \A r \in Ops \ {o} : thread'[r] = thread[r]
        /\ thread'[o].pc \notin Joining
    <3>1. CASE BarrierTensor(o) \/ BarrierComm(o) \/ JoinComm(o) \/ JoinTensor(o)
      BY <3>1, BarrierTensorDoes, BarrierCommDoes, JoinCommDoes, JoinTensorDoes
         DEF Moved, Joining
    <3>2. CASE WaitInputs(o)
      <4>1. /\ thread[o].pc = "WaitInputs" /\ thread[o].pc \in Waiting
            /\ WaitEach(o, "Launch") /\ queue' = queue
        BY <3>2 DEF WaitInputs, WaitEach, At, Waiting
      <4>. QED  BY <4>1, WaitEachDoes DEF Moved, Joining
    <3>. QED  BY <1>5, <3>1, <3>2
  <2>3. Good(o)
    BY <1>5, <2>2, OutputsLoops
  <2>. QED  BY <1>1, <1>2, <2>1, <2>2, <2>3
<1>6. ASSUME NEW o \in Ops, LaunchKernel(o) PROVE Outputs'
  <2>1. Kept /\ callback' = callback /\ collectives_' = collectives_
    BY <1>6 DEF LaunchKernel
  <2>2. /\ Adding /\ \A r \in Ops \ {o} : thread'[r] = thread[r]
        /\ thread'[o].pc \notin Joining /\ Ranks(o)' = Ranks(o)
    BY <1>6, LaunchKernelDoes DEF Moved, Joining, Ranks, Members
  <2>3. Good(o)
    BY <1>6, <2>2, OutputsLaunchKernel
  <2>. QED  BY <1>1, <1>2, <2>1, <2>2, <2>3
<1>7. ASSUME NEW o \in Ops, WaitKernels(o) PROVE Outputs'
  <2>1. /\ thread[o].pc = "WaitKernels" /\ thread[o].pc \in Waiting
        /\ WaitEach(o, "JoinComm") /\ queue' = queue
        /\ Kept /\ callback' = callback /\ collectives_' = collectives_
    BY <1>7 DEF WaitKernels, WaitEach, At, Waiting
  <2>2. /\ \A r \in Ops \ {o} : thread'[r] = thread[r]
        /\ thread'[o].pc \notin Joining /\ Ranks(o)' = Ranks(o)
    BY <2>1, WaitEachDoes DEF Moved, Joining, Ranks, Members
  <2>3. Good(o)
    BY <1>7, <2>2, OutputsWaitKernels
  <2>. QED  BY <1>1, <1>2, <2>1, <2>3
<1>8. ASSUME NEW o \in Ops, Callback(o) PROVE Outputs'
  <2>1. Kept /\ queue' = queue /\ collectives_' = collectives_
    BY <1>8 DEF Callback
  <2>2. /\ \A r \in Ops \ {o} : thread'[r] = thread[r]
        /\ thread[o].pc = "Callback"
        /\ thread'[o].pc \in {"Callback", "Returned"}
    BY <1>8, CallbackDoes DEF Moved
  <2>3. Good(o) /\ Assembly
    BY <1>2, <1>8, <2>1, <2>2, OutputsLoops DEF Joining
  <2>4. ASSUME NEW r \in Ops, NEW j \in Ranks(r)' PROVE OutputsOf(r, j)'
    <3>1. CASE r = o
      BY <2>3, <2>4, <3>1
    <3>2. CASE r # o
      <4>1. thread'[r] = thread[r] /\ j \in Ranks(r)
        BY <2>2, <2>4, <3>2 DEF Ranks, Members
      <4>2. PICK p \in Ops : p = Members(r)[j]
        BY <4>1, MemberOf
      <4>3. Pending(<<"reduce", p>>) => Pending(<<"reduce", p>>)'
        BY <2>1, PendingKept DEF Control
      <4>. QED  BY <2>1, <4>1, <4>2, <4>3, OutputsOfOthers
    <3>. QED  BY <3>1, <3>2
  <2>5. PICK u \in Ops : u = participant(o)
    BY <1>8, CallbackDoes
  <2>6. thread[o].collective.status = "OK" => written[u] = Output(u)
    <3>1. thread[o].i \in Ranks(o) /\ u = Members(o)[thread[o].i]
      BY <2>2, <2>5, AtParticipant DEF Running, Looping
    <3>2. OutputsOf(o, thread[o].i)
      BY <3>1 DEF Outputs
    <3>. QED  BY <2>2, <3>1, <3>2 DEF OutputsOf
  <2>7. /\ callback'[u] = <<thread[o].collective.status>>
        /\ \A p \in Ops \ {u} : callback'[p] = callback[p]
    BY <1>8, <2>5, CallbackDoes
  <2>8. ASSUME NEW p \in Ops
        PROVE  /\ written'[p] \subseteq Output(p)'
               /\ callback'[p] = <<"OK">> => written'[p] = Output(p)'
               /\ thread'[p].pc \in Joining => written'[p] = {}
    <3>1. Output(p)' = Output(p)
      BY <2>1 DEF Output
    <3>2. thread'[p].pc \in Joining => thread[p].pc \in Joining
      BY <2>2, <2>3
    <3>3. callback'[p] = <<"OK">> => written[p] = Output(p)
      <4>1. CASE p = u
        <5>1. <<thread[o].collective.status>> = <<"OK">> => thread[o].collective.status = "OK"
          OBVIOUS
        <5>. QED  BY <2>6, <2>7, <4>1, <5>1
      <4>2. CASE p # u
        BY <2>7, <4>2 DEF Outputs
      <4>. QED  BY <4>1, <4>2
    <3>. QED  BY <2>1, <3>1, <3>2, <3>3 DEF Outputs
  <2>. QED  BY <2>3, <2>4, <2>8 DEF Outputs
<1>9. ASSUME thread' = thread, Kept, Adding, collectives_' = collectives_, callback' = callback
      PROVE  Outputs'
  <2>1. Assembly
    BY <1>2, <1>9
  <2>2. ASSUME NEW o \in Ops PROVE Outputs'
    <3>1. ASSUME NEW j \in Ranks(o)' PROVE OutputsOf(o, j)'
      <4>1. j \in Ranks(o)
        BY <1>9, <3>1 DEF Ranks, Members
      <4>2. PICK p \in Ops : p = Members(o)[j]
        BY <4>1, MemberOf
      <4>3. Pending(<<"reduce", p>>) => Pending(<<"reduce", p>>)'
        BY <1>9, PendingKept DEF Control
      <4>. QED  BY <1>9, <4>1, <4>2, <4>3, OutputsOfOthers
    <3>2. Good(o)
      BY <1>9, <3>1
    <3>. QED  BY <1>1, <1>9, <2>1, <3>2
  <2>3. CASE Ops = {}
    BY <2>1, <2>3 DEF Outputs
  <2>. QED  BY <2>2, <2>3
<1>10. ASSUME NEW o \in Ops, LaunchConsumer(o) PROVE Outputs'
  BY <1>9, <1>10, LaunchConsumerDoes DEF LaunchConsumer
<1>11. CASE UNCHANGED vars
  BY <1>9, <1>11 DEF vars
<1>12. ASSUME NEW o \in Ops, AllocateFails(o) PROVE Outputs'
  <2>1. Kept /\ Adding /\ collectives_' = collectives_
    BY <1>12 DEF AllocateFails
  <2>2. /\ \A r \in Ops \ {o} : thread'[r] = thread[r]
        /\ thread'[o].pc = "Returned"
        /\ callback'[o] = <<"ResourceExhausted">>
        /\ \A p \in Ops \ {o} : callback'[p] = callback[p]
    BY <1>12, AllocateFailsDoes DEF Moved
  <2>3. Good(o)
    BY <2>2 DEF Joining, OutputsOf
  <2>4. <<"ResourceExhausted">> # <<"OK">>
    OBVIOUS
  <2>5. \A p \in Ops : callback'[p] = <<"OK">> => callback[p] = <<"OK">>
    BY <2>2, <2>4
  <2>. QED  BY <1>1, <1>2, <2>1, <2>3, <2>5
<1>. QED
  BY <1>3, <1>4, <1>5, <1>6, <1>7, <1>8, <1>10, <1>11, <1>12, OutputsExecute DEF Next, ThreadStep

-----------------------------------------------------------------------------
(* The theorems *)

\* An op is called back once.
LEMMA CallbackStays ==
  ASSUME Control, [Next]_vars, NEW p \in Ops, callback[p] # <<>>
  PROVE  callback'[p] = callback[p]
<1>1. ASSUME NEW o \in Ops, Callback(o) PROVE callback'[p] = callback[p]
  <2>1. thread[o].pc = "Callback" /\ thread[o].pc \in Running
    BY <1>1, CallbackDoes DEF Running, Looping
  <2>2. thread[o].i \in Ranks(o) /\ participant(o) = Members(o)[thread[o].i] /\ thread[o].i \in Nat
    BY <2>1, AtParticipant DEF Looping
  <2>3. ~(thread[o].i < thread[o].i)
    BY <2>2
  <2>4. callback[participant(o)] = <<>>
    BY <2>1, <2>2, <2>3 DEF Control, RunsCollective
  <2>. QED  BY <1>1, <2>4, CallbackDoes
<1>2. ASSUME NEW o \in Ops, AllocateFails(o) PROVE callback'[p] = callback[p]
  BY <1>2, AllocateFailsDoes
<1>. QED
  BY <1>1, <1>2 DEF Next, ThreadStep, LaunchProducer, AddParticipant, BarrierTensor, BarrierComm,
              WaitInputs, WaitKernels, WaitEach, LaunchKernel, JoinComm, JoinTensor,
              LaunchConsumer, Execute, vars

\* Every step keeps the part Consumers of the invariant.
LEMMA ConsumersStep == Control /\ Consumers /\ [Next]_vars => Consumers'
<1>. SUFFICES ASSUME Control, Consumers, [Next]_vars,
                     NEW t \in Streams, NEW k \in 1 .. Len(queue'[t]),
                     queue'[t][k].event[1] = "consume"
              PROVE  callback'[queue'[t][k].event[2]] = <<"OK">>
  BY DEF Consumers
<1>1. ASSUME NEW m \in 1 .. Len(queue[t]), queue'[t][k] = queue[t][m]
      PROVE  callback'[queue'[t][k].event[2]] = <<"OK">>
  <2>1. queue[t][m].event[2] \in Ops
    BY QueuedType DEF Control
  <2>2. callback[queue[t][m].event[2]] = <<"OK">>
    BY <1>1 DEF Consumers
  <2>3. <<"OK">> # <<>>
    OBVIOUS
  <2>. QED  BY <1>1, <2>1, <2>2, <2>3, CallbackStays
<1>2. CASE queue' = queue
  BY <1>1, <1>2
<1>3. ASSUME NEW s, NEW command, Submitted(s, command), command.event[1] # "consume"
      PROVE  callback'[queue'[t][k].event[2]] = <<"OK">>
  BY <1>1, <1>3, AfterSubmit DEF Control
<1>4. ASSUME NEW o \in Ops, LaunchProducer(o)
      PROVE  callback'[queue'[t][k].event[2]] = <<"OK">>
  BY <1>3, <1>4, LaunchProducerDoes DEF Command
<1>5. ASSUME NEW o \in Ops, BarrierTensor(o)
      PROVE  callback'[queue'[t][k].event[2]] = <<"OK">>
  BY <1>3, <1>5, BarrierTensorDoes DEF Command
<1>6. ASSUME NEW o \in Ops, BarrierComm(o)
      PROVE  callback'[queue'[t][k].event[2]] = <<"OK">>
  BY <1>3, <1>6, BarrierCommDoes DEF Command
<1>7. ASSUME NEW o \in Ops, LaunchKernel(o)
      PROVE  callback'[queue'[t][k].event[2]] = <<"OK">>
  BY <1>2, <1>3, <1>7, LaunchKernelDoes DEF Command
<1>8. ASSUME NEW o \in Ops, JoinComm(o)
      PROVE  callback'[queue'[t][k].event[2]] = <<"OK">>
  BY <1>3, <1>8, JoinCommDoes DEF Command
<1>9. ASSUME NEW o \in Ops, JoinTensor(o)
      PROVE  callback'[queue'[t][k].event[2]] = <<"OK">>
  BY <1>3, <1>9, JoinTensorDoes DEF Command
<1>10. ASSUME NEW o \in Ops, LaunchConsumer(o)
       PROVE  callback'[queue'[t][k].event[2]] = <<"OK">>
  <2>1. PICK command : command = Command("consume", o, NoEvent, <<o>>)
    OBVIOUS
  <2>2. command.event[2] = o /\ Submitted(tensor_stream(o), command)
    BY <1>10, <2>1, LaunchConsumerDoes DEF Command
  <2>3. callback'[o] = <<"OK">>
    BY <1>10 DEF LaunchConsumer
  <2>4. \/ \E m \in 1 .. Len(queue[t]) : queue'[t][k] = queue[t][m]
        \/ queue'[t][k] = command
    BY <2>2, AfterSubmit DEF Control
  <2>. QED  BY <1>1, <2>2, <2>3, <2>4
<1>11. ASSUME NEW s \in Streams, Execute(s)
       PROVE  callback'[queue'[t][k].event[2]] = <<"OK">>
  <2>1. Executed(s)
    BY <1>11, Executes DEF Control
  <2>2. \E m \in 1 .. Len(queue[t]) : queue'[t][k] = queue[t][m]
    BY <2>1, AfterExecute DEF Control
  <2>. QED  BY <1>1, <2>2
<1>. QED
  BY <1>2, <1>4, <1>5, <1>6, <1>7, <1>8, <1>9, <1>10, <1>11
     DEF Next, ThreadStep, AllocateFails, AddParticipant, WaitInputs, WaitKernels, WaitEach,
         Callback, vars

\* No step changes the ops' arguments.
LEMMA ArgsStep == [Next]_vars => args' = args
  BY DEF Next, ThreadStep, LaunchProducer, AllocateFails, AddParticipant, BarrierTensor,
         BarrierComm, WaitInputs, WaitKernels, WaitEach, LaunchKernel, JoinComm, JoinTensor,
         Callback, LaunchConsumer, Execute, submit, vars

\* The collective of a thread: the one it ran before, perhaps with another status,
\* or the one it has just completed.
LEMMA CollectiveStep ==
  ASSUME Control, [Next]_vars, NEW r \in Ops, thread'[r].pc \in Running
  PROVE  \/ /\ thread[r].pc \in Running
            /\ Members(r)' = Members(r)
            /\ \A p : Agrees(thread'[r].collective, p) <=> Agrees(thread[r].collective, p)
         \/ /\ AddParticipant(r) /\ thread[r].pc = "Ready"
            /\ thread'[r].collective = Assembled(r)
<1>. DEFINE Goal == \/ /\ thread[r].pc \in Running
                       /\ Members(r)' = Members(r)
                       /\ \A p : Agrees(thread'[r].collective, p)
                                   <=> Agrees(thread[r].collective, p)
                    \/ /\ AddParticipant(r) /\ thread[r].pc = "Ready"
                       /\ thread'[r].collective = Assembled(r)
<1>1. ASSUME thread[r].pc \in Running, thread'[r].collective = thread[r].collective
      PROVE  Goal
  BY <1>1 DEF Members
<1>2. CASE thread'[r] = thread[r]
  BY <1>1, <1>2
<1>3. ASSUME NEW o \in Ops, LaunchProducer(o) PROVE Goal
  <2>1. /\ \A p \in Ops \ {o} : thread'[p] = thread[p]
        /\ thread'[o].pc = "Ready"
    BY <1>3, LaunchProducerDoes DEF Moved
  <2>. QED  BY <1>2, <2>1 DEF Running, Looping, Waiting
<1>4. ASSUME NEW o \in Ops, AddParticipant(o) PROVE Goal
  <2>1. /\ \A p \in Ops \ {o} : thread'[p] = thread[p]
        /\ thread[o].pc = "Ready"
        /\ thread'[o].pc = "Returned" \/ thread'[o].collective = Assembled(o)
    BY <1>4, AddParticipantDoes DEF Moved
  <2>2. CASE r # o
    BY <1>2, <2>1, <2>2
  <2>3. CASE r = o
    BY <1>4, <2>1, <2>3 DEF Running, Looping, Waiting
  <2>. QED  BY <2>2, <2>3
<1>5. ASSUME NEW o \in Ops, BarrierComm(o) PROVE Goal
  <2>1. /\ \A p \in Ops \ {o} : thread'[p] = thread[p]
        /\ thread[o].pc \in Running
        /\ \/ thread'[o].collective = thread[o].collective
           \/ thread'[o].collective =
                [thread[o].collective EXCEPT !.status = "InvalidArgument"]
    BY <1>5, BarrierCommDoes DEF Moved, Running, Looping
  <2>2. CASE r # o
    BY <1>2, <2>1, <2>2
  <2>3. CASE r = o
    <3>1. Collective(thread[r].collective)
      BY <2>1, <2>3 DEF Control, RunsCollective
    <3>2. PICK c : c = thread[r].collective
      OBVIOUS
    <3>3. PICK d : d = [c EXCEPT !.status = "InvalidArgument"]
      OBVIOUS
    <3>4. /\ d.participants = c.participants /\ d.data_type = c.data_type
          /\ d.reduction_op = c.reduction_op /\ d.num_local_devices = c.num_local_devices
      BY <3>1, <3>2, <3>3 DEF Collective
    <3>5. CASE thread'[r].collective = d
      BY <2>1, <2>3, <3>2, <3>4, <3>5 DEF Members, Agrees
    <3>. QED  BY <1>1, <2>1, <2>3, <3>2, <3>3, <3>5
  <2>. QED  BY <2>2, <2>3
<1>6. ASSUME NEW o \in Ops, thread[o].pc \in Waiting, NEW then, WaitEach(o, then) PROVE Goal
  <2>1. /\ \A p \in Ops \ {o} : thread'[p] = thread[p]
        /\ thread[o].pc \in Running /\ thread'[o].collective = thread[o].collective
    BY <1>6, WaitEachDoes DEF Moved, Running
  <2>. QED  BY <1>1, <1>2, <2>1
<1>7. ASSUME NEW o \in Ops, BarrierTensor(o) \/ LaunchKernel(o) \/ JoinComm(o) \/ JoinTensor(o)
      PROVE  Goal
  <2>1. /\ \A p \in Ops \ {o} : thread'[p] = thread[p]
        /\ thread[o].pc \in Running /\ thread'[o].collective = thread[o].collective
    BY <1>7, BarrierTensorDoes, LaunchKernelDoes, JoinCommDoes, JoinTensorDoes
       DEF Moved, Running, Looping
  <2>. QED  BY <1>1, <1>2, <2>1
<1>8. ASSUME NEW o \in Ops, Callback(o) PROVE Goal
  <2>1. /\ \A p \in Ops \ {o} : thread'[p] = thread[p]
        /\ thread[o].pc \in Running
        /\ thread'[o].pc = "Returned" \/ thread'[o].collective = thread[o].collective
    BY <1>8, CallbackDoes DEF Moved, Running, Looping
  <2>2. CASE r # o
    BY <1>2, <2>1, <2>2
  <2>3. CASE r = o
    <3>1. "Returned" \notin Running
      BY DEF Running, Looping, Waiting
    <3>. QED  BY <1>1, <2>1, <2>3, <3>1
  <2>. QED  BY <2>2, <2>3
<1>9. ASSUME NEW o \in Ops, WaitInputs(o) \/ WaitKernels(o) PROVE Goal
  BY <1>6, <1>9 DEF WaitInputs, WaitKernels, At, Waiting
<1>10. ASSUME NEW o \in Ops, AllocateFails(o) PROVE Goal
  <2>1. /\ \A p \in Ops \ {o} : thread'[p] = thread[p]
        /\ thread'[o].pc = "Returned"
    BY <1>10, AllocateFailsDoes DEF Moved
  <2>. QED  BY <1>2, <2>1 DEF Running, Looping, Waiting
<1>. QED
  BY <1>2, <1>3, <1>4, <1>5, <1>7, <1>8, <1>9, <1>10
     DEF Next, ThreadStep, LaunchConsumer, Execute, vars

\* Every step keeps the part Founders of the invariant.
LEMMA FoundersStep == Control /\ Founders /\ [Next]_vars => Founders'
<1>. SUFFICES ASSUME Control, Founders, [Next]_vars PROVE Founders'
  OBVIOUS
<1>0. args' = args
  BY ArgsStep
<1>1. ASSUME NEW o \in Ops, thread[o].pc = "Ready"
      PROVE  Agrees(Assembled(o), Assembled(o).participants[1])
  <2>. DEFINE A == Assembled(o)
              key == args[o].key
  <2>1. /\ Len(A.participants) \in 1 .. A.num_local_devices
        /\ A.participants[Len(A.participants)] = o
        /\ \A j \in 1 .. Len(A.participants) - 1 :
             /\ key \in DOMAIN collectives_
             /\ A.participants[j] = collectives_[key].participants[j]
             /\ j \in 1 .. Len(collectives_[key].participants)
    BY <1>1, AssembledIs
  <2>2. \A p : Agrees(A, p) <=>
                 Agrees(IF key \in DOMAIN collectives_ THEN collectives_[key]
                        ELSE NewCollective(o), p)
    BY <1>1, AssembledIs
  <2>. HIDE DEF A
  <2>3. PICK n \in Nat : n = Len(A.participants) /\ n >= 1
    BY <2>1
  <2>4. CASE key \in DOMAIN collectives_ /\ n > 1
    <3>0. 1 \in 1 .. n - 1
      BY <2>4
    <3>1. A.participants[1] = collectives_[key].participants[1]
      BY <2>1, <2>3, <3>0
    <3>. QED  BY <2>2, <2>4, <3>1 DEF Founders, A
  <2>5. CASE key \notin DOMAIN collectives_
    <3>0. 1 \notin 1 .. n - 1
      BY <2>1, <2>3, <2>5
    <3>4. n >= 1
      BY <2>3
    <3>1. n = 1
      BY <3>0, <3>4
    <3>2. Agrees(NewCollective(o), o)
      BY DEF Agrees, NewCollective
    <3>3. A.participants[1] = o
      BY <2>1, <2>3, <3>1
    <3>. QED  BY <2>2, <2>5, <3>2, <3>3 DEF A
  <2>6. CASE key \in DOMAIN collectives_ /\ n = 1
    <3>1. A.participants[1] = o
      BY <2>1, <2>3, <2>6
    <3>2. PICK c : c = collectives_[key]
      OBVIOUS
    <3>3. Len(c.participants) >= 1 /\ 1 \in 1 .. Len(c.participants) /\ Collective(c)
      <4>1. Collective(c) /\ Len(c.participants) \in 1 .. c.num_local_devices - 1
        BY <2>6, <3>2 DEF Control, Assembling
      <4>. QED  BY <4>1
    <3>4. Len(A.participants) = Len(c.participants) + 1
      <4>1. A.participants = Append(c.participants, o)
        BY <2>6, <3>2, <3>3 DEF A, Assembled, Joined, Collective
      <4>. QED  BY <3>3, <4>1 DEF Collective
    <3>5. PICK m \in Nat : m = Len(c.participants)
      BY <3>3 DEF Collective
    <3>6. m >= 1 /\ n = m + 1
      BY <2>3, <3>3, <3>4, <3>5
    <3>. QED  BY <2>6, <3>6
  <2>7. n >= 1
    BY <2>3
  <2>8. n = 1 \/ n > 1
    BY <2>7
  <2>. QED  BY <2>4, <2>5, <2>6, <2>8
<1>2. ASSUME NEW r \in Ops, thread'[r].pc \in Running
      PROVE  Agrees(thread'[r].collective, Members(r)'[1])
  <2>1. CASE /\ thread[r].pc \in Running
             /\ Members(r)' = Members(r)
             /\ \A p : Agrees(thread'[r].collective, p) <=> Agrees(thread[r].collective, p)
    BY <2>1 DEF Founders
  <2>2. CASE thread[r].pc = "Ready" /\ thread'[r].collective = Assembled(r)
    <3>1. Members(r)' = Assembled(r).participants
      BY <2>2 DEF Members
    <3>. QED  BY <1>1, <2>2, <3>1
  <2>. QED  BY <1>2, <2>1, <2>2, CollectiveStep
<1>3. ASSUME NEW k \in DOMAIN collectives_'
      PROVE  Agrees(collectives_'[k], collectives_'[k].participants[1])
  <2>1. CASE k \in DOMAIN collectives_ /\ collectives_'[k] = collectives_[k]
    BY <2>1 DEF Founders
  <2>2. ASSUME NEW o \in Ops, AddParticipant(o)
        PROVE  Agrees(collectives_'[k], collectives_'[k].participants[1])
    <3>1. thread[o].pc = "Ready"
      BY <2>2, AddParticipantDoes
    <3>2. CASE Ready(Assembled(o))
      <4>1. collectives_' = [l \in DOMAIN collectives_ \ {args[o].key} |-> collectives_[l]]
        BY <2>2, <3>2, AddParticipantDoes
      <4>. QED  BY <2>1, <4>1
    <3>3. CASE ~Ready(Assembled(o))
      <4>1. collectives_' = [l \in DOMAIN collectives_ \union {args[o].key} |->
                               IF l = args[o].key THEN Assembled(o) ELSE collectives_[l]]
        BY <2>2, <3>3, AddParticipantDoes
      <4>2. CASE k = args[o].key
        <5>1. collectives_'[k] = Assembled(o)
          BY <4>1, <4>2
        <5>. QED  BY <1>1, <3>1, <5>1
      <4>3. CASE k # args[o].key
        BY <2>1, <4>1, <4>3
      <4>. QED  BY <4>2, <4>3
    <3>. QED  BY <3>2, <3>3
  <2>3. CASE collectives_' = collectives_
    BY <2>1, <2>3
  <2>. QED
    BY <2>2, <2>3
       DEF Next, ThreadStep, LaunchProducer, AllocateFails, BarrierTensor, BarrierComm,
           WaitInputs, WaitKernels, WaitEach, LaunchKernel, JoinComm, JoinTensor, Callback,
           LaunchConsumer, Execute, vars
<1>4. \A r \in Ops : thread'[r].pc \in Running =>
        Agrees(thread[r].collective, Members(r)[1])'
  BY <1>0, <1>2 DEF Agrees
<1>5. \A k \in DOMAIN collectives_' :
        Agrees(collectives_[k], collectives_[k].participants[1])'
  BY <1>0, <1>3 DEF Agrees
<1>. QED  BY <1>4, <1>5 DEF Founders

\* Where the ops of a key make up one collective, a collective of it that runs has
\* them all.
LEMMA AllMembers ==
  ASSUME Control, Founders, NEW r \in Ops, thread[r].pc \in Running,
         NEW key, key = thread[r].collective.key, OneCollective(key),
         NEW p \in Ops, args[p].key = key
  PROVE  \E j \in Ranks(r) : Members(r)[j] = p
<1>. DEFINE ops == {o \in Ops : args[o].key = key}
            n == Len(Members(r))
            f == [j \in 1 .. n |-> Members(r)[j]]
<1>1. /\ Collective(thread[r].collective)
      /\ n = thread[r].collective.num_local_devices
  BY DEF Control, RunsCollective, Members
<1>2. n \in Nat \ {0} /\ \A j \in 1 .. n : Members(r)[j] \in Ops
  BY AtParticipant DEF Ranks
<1>3. /\ \A j \in 1 .. n : args[Members(r)[j]].key = key
      /\ \A j, k \in 1 .. n : Members(r)[j] = Members(r)[k] => j = k
  BY <1>1 DEF Collective, Members
<1>4. IsFiniteSet(ops)
  BY CasesAssumption, FS_Subset
<1>5. Cardinality(ops) = n
  <2>1. 1 \in 1 .. n
    BY <1>2
  <2>2. Members(r)[1] \in ops
    BY <1>2, <1>3, <2>1
  <2>3. Agrees(thread[r].collective, Members(r)[1])
    BY DEF Founders
  <2>4. args[Members(r)[1]].num_local_devices = Cardinality(ops)
    BY <2>2 DEF OneCollective
  <2>. QED  BY <1>1, <2>3, <2>4 DEF Agrees
<1>. HIDE DEF n
<1>6. f \in Injection(1 .. n, ops)
  BY <1>2, <1>3 DEF Injection, IsInjective
<1>7. Cardinality(1 .. n) = n
  <2>1. 1 \in Int /\ n \in Int /\ ~(1 > n) /\ n - 1 + 1 = n
    BY <1>2
  <2>. QED  BY <2>1, FS_Interval
<1>8. f \in Surjection(1 .. n, ops)
  BY <1>4, <1>5, <1>6, <1>7, FS_Injection
<1>9. p \in ops
  OBVIOUS
<1>10. PICK j \in 1 .. n : f[j] = p
  BY <1>8, <1>9 DEF Surjection
<1>. QED  BY <1>10 DEF Ranks, n

\* Nobody goes back to join.
LEMMA StaysJoined ==
  ASSUME Control, [Next]_vars, NEW p \in Ops, thread[p].pc \notin Joining
  PROVE  thread'[p].pc \notin Joining
<1>. DEFINE Goal == thread'[p].pc \notin Joining
<1>1. ASSUME NEW o \in Ops, LaunchProducer(o) PROVE Goal
  BY <1>1, LaunchProducerDoes DEF Moved, Joining
<1>2. ASSUME NEW o \in Ops, AllocateFails(o) \/ AddParticipant(o) PROVE Goal
  BY <1>2, AllocateFailsDoes, AddParticipantDoes DEF Moved, Joining
<1>3. ASSUME NEW o \in Ops, BarrierTensor(o) \/ JoinComm(o) PROVE Goal
  BY <1>3, BarrierTensorDoes, JoinCommDoes DEF Moved, Joining
<1>4. ASSUME NEW o \in Ops, BarrierComm(o) \/ LaunchKernel(o) PROVE Goal
  BY <1>4, BarrierCommDoes, LaunchKernelDoes DEF Moved, Joining
<1>5. ASSUME NEW o \in Ops, JoinTensor(o) \/ Callback(o) PROVE Goal
  BY <1>5, JoinTensorDoes, CallbackDoes DEF Moved, Joining
<1>6. ASSUME NEW o \in Ops, WaitInputs(o) \/ WaitKernels(o) PROVE Goal
  <2>1. PICK then \in {"Launch", "JoinComm"} : thread[o].pc \in Waiting /\ WaitEach(o, then)
    BY <1>6 DEF WaitInputs, WaitKernels, At, Waiting
  <2>. QED  BY <2>1, WaitEachDoes DEF Moved, Joining, Waiting
<1>. QED
  BY <1>1, <1>2, <1>3, <1>4, <1>5, <1>6 DEF Next, ThreadStep, LaunchConsumer, Execute, vars

\* Every step keeps the part Complete of the invariant.
LEMMA CompleteStep == Control /\ Founders /\ Complete /\ [Next]_vars => Complete'
<1>. SUFFICES ASSUME Control, Founders, Complete, [Next]_vars,
                     NEW q \in Ops, NEW p \in Ops,
                     OneCollective(args[q].key)', args'[p].key = args'[q].key,
                     callback'[q] # <<>>, ~Failed(q)'
              PROVE  thread'[p].pc \notin Joining
  BY DEF Complete
<1>1. args' = args
  BY ArgsStep
<1>2. OneCollective(args[q].key) /\ args[p].key = args[q].key
  BY <1>1 DEF OneCollective
<1>3. CASE callback'[q] = callback[q]
  BY <1>2, <1>3, StaysJoined DEF Complete, Failed
<1>4. ASSUME NEW o \in Ops, AllocateFails(o) PROVE callback'[q] = callback[q]
  BY <1>4, AllocateFailsDoes DEF Failed
<1>5. ASSUME NEW o \in Ops, Callback(o) PROVE thread'[p].pc \notin Joining
  <2>1. CASE q # participant(o)
    BY <1>3, <1>5, <2>1, CallbackDoes
  <2>2. CASE q = participant(o)
    <3>1. thread[o].pc \in Running /\ thread[o].i \in Ranks(o) /\ q = Members(o)[thread[o].i]
      BY <1>5, <2>2, CallbackDoes, AtParticipant DEF Running, Looping
    <3>2. args[q].key = thread[o].collective.key
      BY <3>1 DEF Control, RunsCollective, Collective, Ranks, Members
    <3>3. PICK j \in Ranks(o) : Members(o)[j] = p
      BY <1>2, <3>1, <3>2, AllMembers
    <3>4. thread[p].pc \notin Joining
      BY <3>1, <3>3 DEF Control, RunsCollective
    <3>. QED  BY <3>4, StaysJoined
  <2>. QED  BY <2>1, <2>2
<1>. QED
  BY <1>3, <1>4, <1>5
     DEF Next, ThreadStep, LaunchProducer, AddParticipant, BarrierTensor, BarrierComm,
         WaitInputs, WaitKernels, WaitEach, LaunchKernel, JoinComm, JoinTensor,
         LaunchConsumer, Execute, vars

\* Every step keeps the part AnsweredAlike of the invariant.
LEMMA AnsweredStep ==
  Control /\ Founders /\ Complete /\ AnsweredAlike /\ [Next]_vars => AnsweredAlike'
<1>. SUFFICES ASSUME Control, Founders, Complete, AnsweredAlike, [Next]_vars
              PROVE  AnsweredAlike'
  OBVIOUS
<1>1. args' = args
  BY ArgsStep
<1>2. \A key : OneCollective(key)' <=> OneCollective(key)
  BY <1>1 DEF OneCollective
<1>3. CASE callback' = callback
  <2>1. \A p \in Ops : Failed(p)' <=> Failed(p)
    BY <1>3 DEF Failed
  <2>. QED  BY <1>1, <1>2, <1>3, <2>1 DEF AnsweredAlike
<1>4. ASSUME NEW o \in Ops, Callback(o) PROVE AnsweredAlike'
  <2>1. /\ thread[o].pc = "Callback" /\ thread[o].pc \in Running
    BY <1>4, CallbackDoes DEF Running, Looping
  <2>2. PICK u \in Ops : u = participant(o)
    BY <1>4, CallbackDoes
  <2>3. PICK c : c = thread[o].collective
    OBVIOUS
  <2>4. /\ callback'[u] = <<c.status>>
        /\ \A p \in Ops \ {u} : callback'[p] = callback[p]
    BY <1>4, <2>2, <2>3, CallbackDoes
  <2>5. /\ Collective(c) /\ Members(o) = c.participants
        /\ \A j \in Ranks(o) : callback[Members(o)[j]] \in {<<>>, <<c.status>>}
        /\ c.status = "OK" <=> AllAgree(c) /\ SameNumElements(c)
    BY <2>1, <2>3 DEF Control, RunsCollective, Members
  <2>6. args[u].key = c.key
    <3>1. thread[o].i \in Ranks(o) /\ u = Members(o)[thread[o].i]
      BY <2>1, <2>2, AtParticipant DEF Looping
    <3>. QED  BY <2>5, <3>1 DEF Collective, Ranks
  <2>7. ASSUME NEW p \in Ops PROVE Len(callback'[p]) <= 1
    <3>1. CASE p = u
      <4>1. callback'[p] = <<c.status>>
        BY <2>4, <3>1
      <4>2. Len(<<c.status>>) = 1
        OBVIOUS
      <4>3. Len(callback'[p]) = 1
        BY <4>1, <4>2, Zenon
      <4>. QED  BY <4>3
    <3>2. CASE p # u
      BY <2>4, <3>2 DEF AnsweredAlike
    <3>. QED  BY <3>1, <3>2
  <2>. DEFINE Alike(p) ==
         LET others == {q \in Ops : args[q].key = args[p].key}
         IN  /\ \A q \in others : callback'[q] # <<>> => callback'[q] = callback'[p]
             /\ callback'[p] = <<"OK">> <=>
                  \A q \in others :
                    /\ args[q].data_type = args[p].data_type
                    /\ args[q].reduction_op = args[p].reduction_op
                    /\ args[q].NumElements = args[p].NumElements
  <2>8. ASSUME NEW p \in Ops, OneCollective(args[p].key), callback'[p] # <<>>, ~Failed(p)',
               args[p].key # c.key
        PROVE  Alike(p)
    <3>1. \A q \in Ops : args[q].key = args[p].key => callback'[q] = callback[q]
      BY <2>4, <2>6, <2>8
    <3>. QED  BY <2>8, <3>1 DEF AnsweredAlike, Failed
  <2>9. ASSUME NEW p \in Ops, OneCollective(args[p].key), callback'[p] # <<>>, args[p].key = c.key
        PROVE  Alike(p)
    <3>1. \A q \in Ops : args[q].key = c.key => \E j \in Ranks(o) : Members(o)[j] = q
      BY <2>1, <2>3, <2>9, AllMembers
    <3>2. \A q \in Ops : args[q].key = c.key => callback'[q] \in {<<>>, <<c.status>>}
      <4>. SUFFICES ASSUME NEW q \in Ops, args[q].key = c.key
                    PROVE  callback'[q] \in {<<>>, <<c.status>>}
        OBVIOUS
      <4>1. PICK j \in Ranks(o) : Members(o)[j] = q
        BY <3>1
      <4>2. callback[q] \in {<<>>, <<c.status>>}
        BY <2>5, <4>1
      <4>3. CASE q = u
        BY <2>4, <4>3
      <4>4. CASE q # u
        BY <2>4, <4>2, <4>4
      <4>. QED  BY <4>3, <4>4
    <3>3. callback'[p] = <<c.status>>
      BY <2>9, <3>2
    <3>4. \A q \in Ops : args[q].key = c.key => Agrees(c, q) \/ ~AllAgree(c)
      BY <2>5, <3>1 DEF AllAgree, Ranks
    <3>. DEFINE Equal(q) == /\ args[q].data_type = args[p].data_type
                            /\ args[q].reduction_op = args[p].reduction_op
                            /\ args[q].NumElements = args[p].NumElements
    <3>5. PICK first : first = c.participants[1]
      OBVIOUS
    <3>6. /\ first \in Ops /\ args[first].key = c.key /\ Agrees(c, first)
          /\ \A j \in Ranks(o) : Members(o)[j] \in Ops /\ args[Members(o)[j]].key = c.key
      <4>1. 1 \in Ranks(o) /\ \A j \in Ranks(o) : Members(o)[j] \in Ops
        BY <2>1, AtParticipant DEF Ranks
      <4>2. \A j \in Ranks(o) : args[Members(o)[j]].key = c.key
        BY <2>5 DEF Collective, Ranks
      <4>3. Agrees(c, first)
        BY <2>1, <2>3, <2>5, <3>5 DEF Founders
      <4>. QED  BY <2>5, <3>5, <4>1, <4>2, <4>3
    <3>7. ASSUME c.status = "OK", NEW q \in Ops, args[q].key = c.key PROVE Equal(q)
      <4>1. AllAgree(c) /\ SameNumElements(c)
        BY <2>5, <3>7
      <4>2. Agrees(c, q) /\ Agrees(c, p)
        BY <2>9, <3>4, <3>7, <4>1
      <4>3. \A j \in Ranks(o) : args[Members(o)[j]].NumElements = args[first].NumElements
        BY <2>5, <3>5, <4>1 DEF SameNumElements, Ranks
      <4>4. args[q].NumElements = args[first].NumElements
        BY <3>1, <3>7, <4>3
      <4>5. args[p].NumElements = args[first].NumElements
        BY <2>9, <3>1, <4>3
      <4>. QED  BY <4>2, <4>4, <4>5 DEF Agrees
    <3>8. ASSUME \A q \in Ops : args[q].key = c.key => Equal(q) PROVE c.status = "OK"
      <4>1. ASSUME NEW q \in Ops, args[q].key = c.key
            PROVE  /\ args[q].data_type = args[first].data_type
                   /\ args[q].reduction_op = args[first].reduction_op
                   /\ args[q].NumElements = args[first].NumElements
        BY <3>6, <3>8, <4>1
      <4>2. ASSUME NEW q \in Ops, args[q].key = c.key
            PROVE  args[q].num_local_devices = args[first].num_local_devices
        BY <2>9, <3>6, <4>2 DEF OneCollective
      <4>3. ASSUME NEW q \in Ops, args[q].key = c.key PROVE Agrees(c, q)
        BY <3>6, <4>1, <4>2, <4>3 DEF Agrees
      <4>4. AllAgree(c)
        BY <2>5, <3>6, <4>3 DEF AllAgree, Ranks
      <4>5. SameNumElements(c)
        BY <2>5, <3>5, <3>6, <4>1 DEF SameNumElements, Ranks
      <4>. QED  BY <2>5, <4>4, <4>5
    <3>9. callback'[p] = <<"OK">> <=> c.status = "OK"
      BY <3>3
    <3>10. callback'[p] = <<"OK">> <=> \A q \in Ops : args[q].key = c.key => Equal(q)
      BY <3>7, <3>8, <3>9
    <3>11. \A q \in Ops : args[q].key = c.key => (callback'[q] # <<>> => callback'[q] = callback'[p])
      BY <3>2, <3>3
    <3>. QED  BY <2>9, <3>10, <3>11
  <2>10. \A p \in Ops : OneCollective(args[p].key) /\ callback'[p] # <<>> /\ ~Failed(p)'
           => Alike(p)
    BY <2>8, <2>9
  <2>11. \A p \in Ops : OneCollective(args[p].key)' <=> OneCollective(args[p].key)
    BY <1>1 DEF OneCollective
  <2>. QED  BY <1>1, <2>7, <2>10, <2>11 DEF AnsweredAlike
<1>5. ASSUME NEW o \in Ops, AllocateFails(o) PROVE AnsweredAlike'
  <2>1. /\ thread[o].pc \in Joining /\ callback'[o] = <<"ResourceExhausted">>
        /\ \A p \in Ops \ {o} : callback'[p] = callback[p]
    BY <1>5, AllocateFailsDoes DEF Joining
  <2>2. Failed(o)'
    BY <2>1 DEF Failed
  <2>3. Len(<<"ResourceExhausted">>) = 1
    OBVIOUS
  <2>4. Len(callback'[o]) = 1
    BY <2>1, <2>3, Zenon
  <2>5. ASSUME NEW p \in Ops PROVE Len(callback'[p]) <= 1
    <3>1. CASE p = o
      <4>1. Len(callback'[p]) = 1
        BY <2>4, <3>1, Zenon
      <4>. QED  BY <4>1
    <3>2. CASE p # o
      BY <2>1, <3>2 DEF AnsweredAlike
    <3>. QED  BY <3>1, <3>2
  <2>6. ASSUME NEW p \in Ops, OneCollective(args[p].key), callback'[p] # <<>>, ~Failed(p)'
        PROVE  /\ p # o /\ callback'[p] = callback[p]
               /\ callback[p] # <<>> /\ ~Failed(p)
               /\ \A q \in Ops : args[q].key = args[p].key => callback'[q] = callback[q]
    <3>1. p # o /\ callback'[p] = callback[p] /\ callback[p] # <<>> /\ ~Failed(p)
      BY <2>1, <2>2, <2>6 DEF Failed
    <3>2. args[o].key # args[p].key
      BY <2>1, <2>6, <3>1 DEF Complete
    <3>. QED  BY <2>1, <3>1, <3>2
  <2>. QED  BY <1>1, <1>2, <2>5, <2>6 DEF AnsweredAlike
<1>. QED
  BY <1>3, <1>4, <1>5
     DEF Next, ThreadStep, LaunchProducer, AddParticipant, BarrierTensor, BarrierComm,
         WaitInputs, WaitKernels, WaitEach, LaunchKernel, JoinComm, JoinTensor,
         LaunchConsumer, Execute, vars

\* Before any op is launched the invariant holds.
LEMMA InitIInv == Init => IInv
<1>. SUFFICES ASSUME Init PROVE IInv
  OBVIOUS
<1>1. \A o \in Ops : /\ thread[o].pc = "Idle" /\ thread[o].i = 0
                     /\ thread[o].event = NoEvent /\ thread[o].collective = NoCollective
                     /\ Members(o) = <<>> /\ Ranks(o) = {}
  BY DEF Init, Thread, Members, Ranks, NoCollective
<1>2. \A s \in Streams : queue[s] = <<>> /\ Len(queue[s]) = 0 /\ 1 .. Len(queue[s]) = {}
  BY DEF Init
<1>3. DOMAIN collectives_ = {}
  BY DEF Init
<1>4. Types
  <2>1. thread = [o \in Ops |-> Thread(thread[o].pc, thread[o].i, thread[o].event,
                                       thread[o].collective)]
    BY DEF Init, Thread
  <2>2. queue \in [Streams -> Seq(Commands)] /\ callback \in [Ops -> Seq(Answers)]
    BY DEF Init
  <2>. QED  BY <1>1, <2>1, <2>2 DEF Types, Init, Joining
<1>5. Control
  <2>1. \A o \in Ops : NotRunning(o) /\ RunsCollective(o) /\ NotJoined(o)
    BY <1>1 DEF NotRunning, RunsCollective, NotJoined, Running, Looping, Waiting, Init
  <2>. QED  BY <1>1, <1>3, <1>4, <2>1 DEF Control, Assembling, Disjoint
<1>6. Kernels /\ Consumers
  BY <1>2 DEF Kernels, Consumers
<1>8. Inputs
  BY <1>1 DEF Inputs
<1>9. Outputs
  <2>1. \A o \in Ops : written[o] = {} /\ callback[o] # <<"OK">>
    BY DEF Init
  <2>. QED  BY <1>1, <1>3, <2>1 DEF Outputs
<1>10. Founders /\ Complete /\ AnsweredAlike
  <2>1. \A o \in Ops : callback[o] = <<>> /\ Len(callback[o]) <= 1
    BY DEF Init
  <2>2. Complete /\ AnsweredAlike
    BY <2>1 DEF Complete, AnsweredAlike
  <2>. QED  BY <1>1, <1>3, <2>2 DEF Founders, Running, Looping, Waiting
<1>. QED  BY <1>5, <1>6, <1>8, <1>9, <1>10 DEF IInv

\* Every step keeps the invariant.
LEMMA NextIInv == IInv /\ [Next]_vars => IInv'
  BY ControlStep, KernelsStep, InputsStep, OutputsStep, ConsumersStep, FoundersStep,
     CompleteStep, AnsweredStep
     DEF IInv

\* The invariant holds in every reachable state.
LEMMA Invariance == Spec => []IInv
  BY InitIInv, NextIInv, PTL DEF Spec

\* The variables keep their types, and a collective that is being assembled lacks
\* participants.
THEOREM TypeCorrect == Spec => []TypeOK
<1>1. IInv => TypeOK
  <2>. SUFFICES ASSUME IInv PROVE TypeOK
    OBVIOUS
  <2>1. Control /\ Outputs
    BY DEF IInv
  <2>2. ASSUME NEW k \in DOMAIN collectives_
        PROVE  /\ k \in Keys
               /\ collectives_[k].participants \in Seq(Ops)
               /\ Len(collectives_[k].participants) \in 1 .. collectives_[k].num_local_devices - 1
    <3>1. PICK c : c = collectives_[k]
      OBVIOUS
    <3>2. /\ Collective(c) /\ c.key = k
          /\ Len(c.participants) \in 1 .. c.num_local_devices - 1
      BY <2>1, <3>1 DEF Control, Assembling
    <3>3. 1 \in 1 .. Len(c.participants) /\ c.participants \in Seq(Ops)
      BY <3>2 DEF Collective
    <3>4. c.participants[1] \in Ops /\ args[c.participants[1]].key = k
      BY <3>2, <3>3 DEF Collective
    <3>. QED  BY <3>1, <3>2, <3>3, <3>4 DEF Keys
  <2>3. ASSUME NEW o \in Ops
        PROVE  /\ thread[o].i \in 0 .. MAX_RANK_SIZE + 1
               /\ thread[o].collective.participants \in Seq(Ops)
    <3>1. CASE thread[o].pc \in Running
      <4>1. /\ Members(o) \in Seq(Ops)
            /\ Len(Members(o)) = thread[o].collective.num_local_devices
            /\ thread[o].collective.num_local_devices \in 1 .. MAX_RANK_SIZE
            /\ thread[o].i \in 1 .. Len(Members(o)) + (IF thread[o].pc \in Waiting THEN 1 ELSE 0)
        BY <2>1, <3>1 DEF Control, RunsCollective, Collective, Members
      <4>. QED  BY <4>1, CasesAssumption DEF Members
    <3>2. CASE thread[o].pc \notin Running
      <4>1. thread[o].i = 0 /\ Members(o) = <<>>
        BY <2>1, <3>2 DEF Control, NotRunning
      <4>. QED  BY <4>1, CasesAssumption DEF Members
    <3>. QED  BY <3>1, <3>2
  <2>4. ASSUME NEW o \in Ops PROVE written[o] \subseteq 0 .. args[o].NumElements
    <3>1. args[o].NumElements \in Nat /\ args[o].VecSize \in Nat \ {0}
      BY <2>1, CasesAssumption DEF Control, Types
    <3>2. PICK n \in Nat : n = args[o].NumElements
      BY <3>1
    <3>3. PICK w \in Nat \ {0} : w = args[o].VecSize
      BY <3>1
    <3>4. n \div w \in Nat /\ n % w \in 0 .. w - 1 /\ n = w * (n \div w) + (n % w)
      BY Division
    <3>5. PICK q \in Nat : q = n \div w
      BY <3>4
    <3>6. q <= w * q
      OBVIOUS
    <3>7. q + (IF n % w > 0 THEN 1 ELSE 0) <= n
      BY <3>4, <3>5, <3>6
    <3>8. Output(o) = 0 .. (q + (IF n % w > 0 THEN 1 ELSE 0)) - 1
      BY <3>2, <3>3, <3>5 DEF Output, total_vec_count, vec_tail_element_count
    <3>9. written[o] \subseteq Output(o)
      BY <2>1 DEF Outputs
    <3>10. Output(o) \subseteq 0 .. n
      BY <3>7, <3>8
    <3>. QED  BY <3>2, <3>9, <3>10
  <2>5. /\ args \in Cases /\ device_to_comm_streams_ \subseteq Devices
        /\ DOMAIN queue = Streams /\ produced \subseteq Ops /\ consumers \subseteq Ops
        /\ \A o \in Ops : callback[o] \in Seq({"OK", "InvalidArgument", "ResourceExhausted"})
    BY <2>1 DEF Control, Types, Statuses, Answers
  <2>. QED  BY <2>2, <2>3, <2>4, <2>5 DEF TypeOK
<1>. QED  BY <1>1, Invariance, PTL

\* Input and output of an op are not used by any kernel once it has been called back.
THEOREM BuffersIdle == Spec => []BuffersIdleAfterCallback
<1>1. IInv => BuffersIdleAfterCallback
  <2>. SUFFICES ASSUME IInv, NEW o \in Ops, NEW s \in Streams, callback[o] # <<>>,
                       NEW k \in 1 .. Len(queue[s]), queue[s][k].event[1] = "reduce",
                       NEW j \in 1 .. Len(queue[s][k].ops), queue[s][k].ops[j] = o
                PROVE  FALSE
    BY DEF BuffersIdleAfterCallback
  <2>1. PICK r \in Ops : \E m \in Ranks(r) : Launched(s, k, r, m)
    BY DEF IInv, Kernels
  <2>2. PICK m \in Ranks(r) : Launched(s, k, r, m)
    BY <2>1
  <2>3. queue[s][k].ops = Members(r) /\ thread[r].pc \in {"Launch", "WaitKernels"}
    BY <2>2 DEF Launched
  <2>4. j \in Ranks(r) /\ Members(r)[j] = o
    BY <2>3 DEF Ranks
  <2>5. thread[r].pc \in Running /\ thread[r].pc # "Callback"
    BY <2>3 DEF Running, Looping, Waiting
  <2>. QED  BY <2>4, <2>5 DEF IInv, Control, RunsCollective
<1>. QED  BY <1>1, Invariance, PTL

\* A kernel launched after an OK callback finds the whole output reduced.
THEOREM ResultIsVisible == Spec => ResultVisible
<1>1. IInv /\ [Next]_vars =>
        [\A o \in Ops : Pending(<<"consume", o>>) /\ ~Pending(<<"consume", o>>)'
           => written[o] = Output(o)]_vars
  <2>. SUFFICES ASSUME IInv, NEW o \in Ops, Pending(<<"consume", o>>)
                PROVE  written[o] = Output(o)
    OBVIOUS
  <2>1. PICK s \in Streams : \E k \in 1 .. Len(queue[s]) : queue[s][k].event = <<"consume", o>>
    BY DEF Pending
  <2>2. PICK k \in 1 .. Len(queue[s]) : queue[s][k].event = <<"consume", o>>
    BY <2>1
  <2>3. queue[s][k].event[1] = "consume" /\ queue[s][k].event[2] = o
    BY <2>2
  <2>4. callback[o] = <<"OK">>
    BY <2>3 DEF IInv, Consumers
  <2>. QED  BY <2>4 DEF IInv, Outputs
<1>. QED  BY <1>1, Invariance, PTL DEF Spec, ResultVisible

\* The participants of a collective get one answer each, all the same, and OK
\* exactly if they agree.
THEOREM AllAnsweredAlike == Spec => []AnsweredAlike
<1>1. IInv => AnsweredAlike
  BY DEF IInv
<1>. QED  BY <1>1, Invariance, PTL

=============================================================================
