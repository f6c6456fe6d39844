----------------------------- MODULE ThreadPool -----------------------------
(***************************************************************************)
(* BlockingCounter (itex/core/utils/blocking_counter.h) and its two users: *)
(* MklDnnThreadPool::parallel_for (utils/onednn/mkl_threadpool.h), through *)
(* which oneDNN runs its primitives, and                                   *)
(* ThreadPool::ParallelForFixedBlockSizeScheduling (utils/threadpool.cc).  *)
(*                                                                         *)
(* Each thread has a stack of frames.  A "for" frame is a call of          *)
(* parallel_for, a "block" frame one of the fixed-block-size loop; both    *)
(* hold the BlockingCounter, a local variable of the call.  A "task" frame *)
(* is a closure of one of them, run by a thread of the pool or, when       *)
(* Eigen's queues are full, by the thread that wanted to schedule it.      *)
(***************************************************************************)
EXTENDS Integers, Sequences, FiniteSets, SequencesExt

CONSTANTS
  Workers,             \* the threads of the Eigen pool
  Callers,             \* threads that execute kernels, outside the pool
  CPUs,                \* what NumSchedulableCPUs() returns, call by call
  Asked,               \* the num_threads a MklDnnThreadPool is made for
  MaxN,                \* bound: the largest n and total
  MaxNestedN,          \* bound: the largest n of a call made inside fn
  MaxDepth,            \* bound: how deep calls and tasks nest on one thread
  QueueSize            \* how many tasks the queues of the pool hold

ASSUME PoolAssumption ==
  /\ IsFiniteSet(Workers) /\ Workers # {} /\ Workers \cap Callers = {}
  /\ CPUs \subseteq Nat \ {0}
  /\ Asked \subseteq Int
  /\ MaxN \in Nat \ {0} /\ MaxNestedN \in Nat /\ MaxDepth \in Nat \ {0} /\ QueueSize \in Nat

VARIABLES
  stack,    \* the frames of each thread, the innermost one last
  queue     \* the tasks that are scheduled and not taken

vars == <<stack, queue>>

Threads == Workers \cup Callers
Top(t) == Last(stack[t])
NumThreads == Cardinality(Workers)

min(a, b) == IF a < b THEN a ELSE b

-----------------------------------------------------------------------------
(* Dividing the work *)

NormalizeThreadCount(num_threads) ==
  IF num_threads = -1 THEN NumThreads
  ELSE IF num_threads < 1 THEN 1 ELSE min(NumThreads, num_threads)

\* Mutated form: the teams that get one unit more do not shift the others.
balance211OverlappingTeams(n, team, tid) ==
  IF team <= 1 \/ n = 0
  THEN [n_start |-> 0, n_end |-> n]
  ELSE [n_start |-> tid * (n \div team),
        n_end |-> (tid + 1) * (n \div team) + (IF tid < n % team THEN 1 ELSE 0)]

balance211(n, team, tid) ==
  IF team <= 1 \/ n = 0
  THEN [n_start |-> 0, n_end |-> n]
  ELSE LET min_per_team == n \div team
           remainder == n - min_per_team * team
           start == tid * min_per_team + min(tid, remainder)
       IN  [n_start |-> start,
            n_end |-> start + min_per_team + (IF tid < remainder THEN 1 ELSE 0)]

\* The iterations that run_jobs executes for job i.
run_jobs(balance, i, n, njobs) ==
  LET share == balance211(n, njobs, i)
  IN  IF balance THEN share.n_start .. share.n_end - 1 ELSE {i}

\* Mutated form: one unit too few before rounding.
NumShardsOneShort(total, block_size) ==
  IF block_size <= 0 \/ total <= 1 \/ total <= block_size \/ NumThreads = 1
  THEN 1
  ELSE (total - 1) \div block_size

NumShardsUsedByFixedBlockSizeScheduling(total, block_size) ==
  IF block_size <= 0 \/ total <= 1 \/ total <= block_size \/ NumThreads = 1
  THEN 1
  ELSE (total + block_size - 1) \div block_size

\* Where handle_range cuts [first, last).
Midpoint(first, last, block_size) ==
  first + (((last - first) \div 2 + block_size - 1) \div block_size) * block_size

-----------------------------------------------------------------------------
(* Frames *)

\* A BlockingCounter: state_ is twice the count plus the waiter flag.
Counter(initial_count) ==
  [state_ |-> 2 * initial_count, notified_ |-> FALSE, mu_ |-> FALSE]

NoIterations(n) == [j \in 0 .. n - 1 |-> 0]

\* ran counts how often fn was called for each iteration.
Execute(ran, js) == [j \in DOMAIN ran |-> ran[j] + (IF j \in js THEN 1 ELSE 0)]

\* parallel_for(n) in a pool for num_threads, on a machine with that many CPUs
\* the process may use; a call that does not schedule
\* anything has run all of fn when it reaches "done".
ForFrame(n, num_threads, NumSchedulableCPUs) ==
  LET nthr == NormalizeThreadCount(num_threads)
      njobs == min(n, nthr)
      balance == nthr < n
      use_caller_thread == nthr = NumSchedulableCPUs
      serial == n <= 1 \/ njobs <= 1
  IN  [kind |-> "for", n |-> n, njobs |-> njobs, balance |-> balance,
       pc |-> IF serial THEN "done" ELSE "schedule",
       next |-> 0, nested |-> FALSE,
       toSchedule |-> IF use_caller_thread THEN njobs - 1 ELSE njobs,
       ran |-> IF n <= 1 THEN Execute(NoIterations(n), {0})
               ELSE IF serial
               THEN Execute(NoIterations(n), run_jobs(balance, 0, n, njobs))
               ELSE NoIterations(n),
       pending_jobs |->
         Counter(IF serial THEN 0
                 ELSE IF use_caller_thread THEN njobs - 1 ELSE njobs)]

\* ParallelForFixedBlockSizeScheduling(total, block_size).
BlockFrame(total, block_size) ==
  LET num_shards_used ==
        NumShardsUsedByFixedBlockSizeScheduling(total, block_size)
      serial == num_shards_used = 1
  IN  [kind |-> "block", n |-> total, block_size |-> block_size,
       shards |-> num_shards_used,
       pc |-> IF serial THEN "done" ELSE "schedule",
       ran |-> IF serial THEN Execute(NoIterations(total), 0 .. total - 1)
               ELSE NoIterations(total),
       pending_jobs |-> Counter(IF serial THEN 0 ELSE num_shards_used)]

\* A closure refers to the frame of its call, at depth `at` of thread `by`.
Job(by, at, i) ==
  [kind |-> "task", by |-> by, at |-> at, pc |-> "run", nested |-> FALSE, i |-> i]
Range_(by, at, first, last) ==
  [kind |-> "task", by |-> by, at |-> at, pc |-> "run", nested |-> FALSE,
   first |-> first, last |-> last]

CallExists(task) ==
  /\ task.at <= Len(stack[task.by])
  /\ stack[task.by][task.at].kind # "task"

CallOf(task) == stack[task.by][task.at]

Iterations(task) ==
  LET call == CallOf(task)
  IN  IF call.kind = "for"
      THEN run_jobs(call.balance, task.i, call.n, call.njobs)
      ELSE task.first .. task.last - 1

\* The stacks s with the innermost frame of t replaced.
SetTop(s, t, frame) == [s EXCEPT ![t][Len(s[t])] = frame]
Pop(s, t) == [s EXCEPT ![t] = Front(@)]
Push(s, t, frame) == [s EXCEPT ![t] = Append(@, frame)]
SetCall(t, frame) == stack' = SetTop(stack, t, frame) /\ UNCHANGED queue

\* Schedule and ScheduleWithHint of Eigen's pool, by a thread whose stacks are
\* then s: a task that finds the queues full is executed at once.
Schedule(t, task, s) ==
  \/ /\ Cardinality(queue) < QueueSize
     /\ queue' = queue \cup {task}
     /\ stack' = s
  \/ /\ Cardinality(queue) >= QueueSize
     /\ stack' = Push(s, t, task)
     /\ UNCHANGED queue

-----------------------------------------------------------------------------
(* Calls *)

\* CurrentThreadId() is -1 outside the pool.
get_in_parallel(t) == t \in Workers

\* t is inside fn, as a task or as the caller's own job.
InFn(t) ==
  /\ stack[t] # <<>>
  /\ \/ Top(t).kind = "for" /\ Top(t).pc = "own"
     \/ /\ Top(t).kind = "task" /\ Top(t).pc = "run"
        /\ CallOf(Top(t)).kind = "block" =>
             Top(t).last - Top(t).first <= CallOf(Top(t)).block_size

\* A call starts in a kernel, on an idle caller, or (bound: once) inside fn, on
\* whatever thread executes that.
Call(t, n, frame) ==
  /\ \/ /\ t \in Callers /\ stack[t] = <<>>
        /\ stack' = Push(stack, t, frame)
     \/ /\ InFn(t) /\ ~Top(t).nested /\ n <= MaxNestedN /\ Len(stack[t]) < MaxDepth
        /\ stack' = Push(SetTop(stack, t, [Top(t) EXCEPT !.nested = TRUE]), t, frame)
  /\ UNCHANGED queue

\* oneDNN executes a primitive: it calls parallel_for only when get_in_parallel()
\* is false, and runs everything on its own thread otherwise.  It never calls it
\* with n = 0.
parallel_for(t, n, num_threads, cpus) ==
  ~get_in_parallel(t) /\ Call(t, n, ForFrame(n, num_threads, cpus))

\* Nothing keeps a thread of the pool from making this call, and from waiting in it.
ParallelForFixedBlockSizeScheduling(t, total, block_size) ==
  Call(t, total, BlockFrame(total, block_size))

\* The loop that schedules the jobs.
ScheduleJob(t) ==
  LET call == Top(t)
  IN  /\ stack[t] # <<>> /\ call.kind = "for" /\ call.pc = "schedule"
      /\ call.next < call.toSchedule
      /\ Schedule(t, Job(t, Len(stack[t]), call.next),
                  SetTop(stack, t, [call EXCEPT !.next = @ + 1]))

\* After the loop: the last job is the caller's, or there is only Wait() left.
EndSchedule(t) ==
  LET call == Top(t)
  IN  /\ stack[t] # <<>> /\ call.kind = "for" /\ call.pc = "schedule"
      /\ call.next = call.toSchedule
      /\ SetCall(t, [call EXCEPT
           !.pc = IF call.toSchedule < call.njobs THEN "own" ELSE "wait"])

OwnJob(t) ==
  LET call == Top(t)
  IN  /\ stack[t] # <<>> /\ call.kind = "for" /\ call.pc = "own"
      /\ SetCall(t, [call EXCEPT
           !.pc = "wait",
           !.ran = Execute(@, run_jobs(call.balance, call.njobs - 1,
                                       call.n, call.njobs))])

\* The root of the tree of ranges, here or in the pool.
StartRoot(t) ==
  LET call == Top(t)
      root == Range_(t, Len(stack[t]), 0, call.n)
      waiting == SetTop(stack, t, [call EXCEPT !.pc = "wait"])
  IN  /\ stack[t] # <<>> /\ call.kind = "block" /\ call.pc = "schedule"
      /\ \/ /\ call.shards <= NumThreads
            /\ stack' = Push(waiting, t, root)
            /\ UNCHANGED queue
         \/ /\ call.shards > NumThreads
            /\ Schedule(t, root, waiting)

-----------------------------------------------------------------------------
(* BlockingCounter::Wait, at the end of every call *)

\* fetch_or(1), and the count it returns.
WaitFetchOr(t) ==
  LET call == Top(t)
  IN  /\ stack[t] # <<>> /\ call.kind # "task" /\ call.pc = "wait"
      /\ SetCall(t, [call EXCEPT
           !.pending_jobs.state_ = IF @ % 2 = 0 THEN @ + 1 ELSE @,
           !.pc = IF call.pending_jobs.state_ \div 2 = 0 THEN "done" ELSE "lock"])

\* Mutated form: the waiter looks at the count instead of notified_.
WaitLockedOnCount(t) ==
  LET call == Top(t)
  IN  /\ stack[t] # <<>> /\ call.kind # "task" /\ call.pc = "lock"
      /\ ~call.pending_jobs.mu_
      /\ SetCall(t, [call EXCEPT
           !.pc = IF call.pending_jobs.state_ \div 2 = 0 THEN "done" ELSE "sleep"])

\* With the lock held: leave, or give the lock up and sleep, in one step.
WaitLocked(t) ==
  LET call == Top(t)
  IN  /\ stack[t] # <<>> /\ call.kind # "task" /\ call.pc = "lock"
      /\ ~call.pending_jobs.mu_
      /\ SetCall(t, [call EXCEPT
           !.pc = IF call.pending_jobs.notified_ THEN "done" ELSE "sleep"])

\* A condition variable may wake its waiter for no reason.
SpuriousWakeup(t) ==
  LET call == Top(t)
  IN  /\ stack[t] # <<>> /\ call.kind # "task" /\ call.pc = "sleep"
      /\ SetCall(t, [call EXCEPT !.pc = "lock"])

\* The call returns: the counter, fn and the frame are gone.
Return(t) ==
  /\ stack[t] # <<>> /\ Top(t).kind # "task" /\ Top(t).pc = "done"
  /\ stack' = Pop(stack, t)
  /\ UNCHANGED queue

-----------------------------------------------------------------------------
(* Tasks *)

\* A thread of the pool that has nothing to do takes any task, here one of a
\* call made by t.
Take(w, t) ==
  /\ stack[w] = <<>>
  /\ \E task \in queue :
       /\ task.by = t
       /\ queue' = queue \ {task}
       /\ stack' = Push(stack, w, task)

\* One turn of the loop in handle_range.
SplitRange(t) ==
  LET task == Top(t)
      block_size == CallOf(task).block_size
      mid == Midpoint(task.first, task.last, block_size)
  IN  /\ stack[t] # <<>> /\ task.kind = "task" /\ task.pc = "run"
      /\ CallOf(task).kind = "block" /\ task.last - task.first > block_size
      /\ Schedule(t, Range_(task.by, task.at, mid, task.last),
                  SetTop(stack, t, [task EXCEPT !.last = mid]))

\* fn, for all the iterations of the task.
RunTask(t) ==
  LET task == Top(t)
  IN  /\ InFn(t) /\ task.kind = "task"
      /\ stack' = SetTop([stack EXCEPT ![task.by][task.at].ran =
                            Execute(@, Iterations(task))],
                         t, [task EXCEPT !.pc = "dec"])
      /\ UNCHANGED queue

-----------------------------------------------------------------------------
(* BlockingCounter::DecrementCount, at the end of every task *)

\* Mutated form: the word before the subtraction is tested.
DecrementCountTestsOldWord(t) ==
  LET task == Top(t)
      v == CallOf(task).pending_jobs.state_
      counted == [stack EXCEPT ![task.by][task.at].pending_jobs.state_ = v - 2]
  IN  /\ stack[t] # <<>> /\ task.kind = "task" /\ task.pc = "dec"
      /\ stack' = IF v # 1 THEN Pop(counted, t)
                  ELSE SetTop(counted, t, [task EXCEPT !.pc = "notify"])
      /\ UNCHANGED queue

\* fetch_sub(2): only the decrement that leaves the waiter flag alone goes on.
DecrementCount(t) ==
  LET task == Top(t)
      v == CallOf(task).pending_jobs.state_ - 2
      counted == [stack EXCEPT ![task.by][task.at].pending_jobs.state_ = v]
  IN  /\ stack[t] # <<>> /\ task.kind = "task" /\ task.pc = "dec"
      /\ stack' = IF v # 1 THEN Pop(counted, t)
                  ELSE SetTop(counted, t, [task EXCEPT !.pc = "notify"])
      /\ UNCHANGED queue

\* Takes mu_, sets notified_ and wakes the waiter, if it sleeps.
Notify(t) ==
  LET task == Top(t)
      call == CallOf(task)
      notified == [call EXCEPT !.pending_jobs.notified_ = TRUE,
                               !.pending_jobs.mu_ = TRUE,
                               !.pc = IF @ = "sleep" THEN "lock" ELSE @]
  IN  /\ stack[t] # <<>> /\ task.kind = "task" /\ task.pc = "notify"
      /\ ~call.pending_jobs.mu_
      /\ stack' = SetTop([stack EXCEPT ![task.by][task.at] = notified],
                         t, [task EXCEPT !.pc = "unlock"])
      /\ UNCHANGED queue

\* The end of DecrementCount gives mu_ back.
Unlock(t) ==
  LET task == Top(t)
  IN  /\ stack[t] # <<>> /\ task.kind = "task" /\ task.pc = "unlock"
      /\ stack' = Pop([stack EXCEPT ![task.by][task.at].pending_jobs.mu_ = FALSE], t)
      /\ UNCHANGED queue

-----------------------------------------------------------------------------
Init ==
  /\ stack = [t \in Threads |-> <<>>]
  /\ queue = {}

\* What a thread does once it has been asked to.
Step(t) ==
  \/ ScheduleJob(t) \/ EndSchedule(t) \/ OwnJob(t) \/ StartRoot(t)
  \/ WaitFetchOr(t) \/ WaitLocked(t) \/ Return(t)
  \/ SplitRange(t) \/ RunTask(t)
  \/ DecrementCount(t) \/ Notify(t) \/ Unlock(t)

Next ==
  \/ \E t \in Threads : \E n \in 1 .. MaxN :
       \/ \E num_threads \in Asked, cpus \in CPUs : parallel_for(t, n, num_threads, cpus)
       \/ \E block_size \in 0 .. n : ParallelForFixedBlockSizeScheduling(t, n, block_size)
  \/ \E t \in Threads : Step(t) \/ SpuriousWakeup(t)
  \/ \E w \in Workers, t \in Threads : Take(w, t)

\* Threads are scheduled by the operating system, and the idle threads of the
\* pool look for tasks in all of its queues, so that no call's tasks are passed
\* over for ever.  Nobody has to make a call, to nest one, or to be woken for no
\* reason.
Fairness ==
  /\ \A t \in Threads : WF_vars(Step(t))
  /\ \A t \in Threads : SF_vars(\E w \in Workers : Take(w, t))

Spec == Init /\ [][Next]_vars /\ Fairness

-----------------------------------------------------------------------------
(* Properties *)

Frames == UNION {{stack[t][d] : d \in DOMAIN stack[t]} : t \in Threads}
CallFrames == {f \in Frames : f.kind # "task"}
TaskFrames == Frames \ CallFrames

\* Types: the counter's word is never below its waiter flag, i.e. the count
\* never drops below zero (the ITEX_DCHECK_NE of DecrementCount), and every
\* closure belongs to a thread.
TypeOK ==
  /\ \A t \in Threads : Len(stack[t]) <= MaxDepth + MaxN + 1
  /\ \A f \in CallFrames :
       /\ f.pc \in {"schedule", "own", "wait", "lock", "sleep", "done"}
       /\ f.pending_jobs.state_ \in 0 .. 2 * MaxN + 1
       /\ f.pending_jobs.notified_ \in BOOLEAN
       /\ f.pending_jobs.mu_ \in BOOLEAN
       /\ f.ran \in [0 .. f.n - 1 -> Nat]
  /\ \A f \in TaskFrames : f.pc \in {"run", "dec", "notify", "unlock"}
  /\ \A f \in TaskFrames \cup queue : f.by \in Threads /\ f.at \in Nat \ {0}

\* When parallel_for and ParallelForFixedBlockSizeScheduling return, fn has
\* been called exactly once for each iteration, whatever n, the number of
\* threads and the block size: the shares that balance211 gives the jobs, and
\* the ranges handle_range cuts at its midpoints, partition the iterations, and
\* the caller has waited for every one of them.
EveryIterationOnce ==
  \A f \in CallFrames :
    /\ \A j \in DOMAIN f.ran : f.ran[j] <= 1
    /\ f.pc = "done" => \A j \in DOMAIN f.ran : f.ran[j] = 1

\* The closures refer to fn and to the counter by reference, and both are
\* local to the call: no closure is queued or still executing, the notification
\* and the release of mu_ at its very end included, once the call is over.
CallOutlivesTasks ==
  \A task \in TaskFrames \cup queue : CallExists(task) /\ CallOf(task).pc # "done"

\* t is in Wait() and its count is not zero.
Blocked(t) ==
  /\ stack[t] # <<>> /\ Top(t).kind # "task"
  /\ Top(t).pc \in {"lock", "sleep"} /\ Top(t).pending_jobs.state_ > 1

\* All threads of the pool wait in block loops while a task is queued.
Stuck ==
  /\ queue # {}
  /\ \A w \in Workers : Blocked(w) /\ Top(w).kind = "block"

\* The wake-up is never lost, and every call returns, unless block loops called on
\* the pool's own threads (threadpool.cc:205) take all of them for ever.  Calls of
\* parallel_for do not: get_in_parallel keeps oneDNN from making one there.
CallsReturn ==
  ~<>[]Stuck => \A t \in Threads : stack[t] # <<>> ~> stack[t] = <<>>

=============================================================================
