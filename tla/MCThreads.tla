------------------------------ MODULE MCThreads ------------------------------
(***************************************************************************)
(* What threads wait for and share, on small instances: the event, the     *)
(* event group on both platforms, the task processor, the pool of its      *)
(* threads, the inputs of a procedure and the memory pool of one.  They    *)
(* are checked side by side: part says which one a behaviour is of, and    *)
(* the others stay in their initial state.                                 *)
(***************************************************************************)
EXTENDS SyncEvent, Naturals, FiniteSets, Sequences

CONSTANTS
  t1, t2, t3, c1, c2, w1, w2, o1, o2, q1, q2, e1, e2,
  Element,           \* elements of a group, and the inputs
  AllWaiters,                \* the group
  OneThread, MaxPending,     \* the group on Windows
  ServiceWorker, Client, Queue, MaxCalls, Outstanding,   \* the processor
  PoolOwner, PoolWorker, MaxSize, NoOwner,                \* the pool of threads
  Order, InputBuffers,       \* the inputs
  Block, Buffers, Shapes     \* the memory pool

(* The group on Windows has one waiter, the inputs are visited in some      *)
(* order, each of them once, and the memory pool is that of a source or of  *)
(* a destination, which has one list.                                       *)
ASSUME PartsAssumption ==
  /\ \A t, u \in OneThread : t = u
  /\ Order \in Seq(Element) /\ Element # {}
  /\ \A i \in Element : \E k \in DOMAIN Order : Order[k] = i
  /\ \A k, l \in DOMAIN Order : Order[k] = Order[l] => k = l
  /\ "NULL" \notin Element
  /\ InputBuffers \in Nat /\ Buffers \in Nat
  /\ NoOwner \notin PoolOwner \cup PoolWorker \cup Block
  /\ Shapes \subseteq {{"input"}, {"output"}}

VARIABLES
  part,
  g_group, g_pc, g_call, g_iter,                              \* the group
  w_group, w_event, pending, w_pc, w_call, w_iter,            \* on Windows
  t_group, task_queues, tasks, events, plock, qlock, t_pc, elem, slot, ptask, t_ctl, arg, calls,
  threads, pool_mutex, p_running, is_paused, changed_event, loop, caller, hand,
  incoming, free, signals, i_group, is_running, i_pc, i_call, at, i_ctl,   \* the inputs
  Pins, first_block, next, current_block_num, heap, block, size, taken, m_pc, local

grouped   == <<g_group, g_pc, g_call, g_iter>>
windows   == <<w_group, w_event, pending, w_pc, w_call, w_iter>>
processor == <<t_group, task_queues, tasks, events, plock, qlock, t_pc, elem, slot, ptask,
               t_ctl, arg, calls>>
stack     == <<threads, pool_mutex, p_running, is_paused, changed_event, loop, caller, hand>>
inputs    == <<incoming, free, signals, i_group, is_running, i_pc, i_call, at, i_ctl>>
memory    == <<Pins, first_block, next, current_block_num, heap, block, size, taken, m_pc, local>>
mcVars    == <<part, vars, grouped, windows, processor, stack, inputs, memory>>

(* Three threads, of which one may call wait_for_all, and two elements: one *)
(* thread sleeps at the second element while another takes the first.       *)
Group == INSTANCE EventGroup WITH
  group <- g_group, pc <- g_pc, call <- g_call, iter <- g_iter
Windows == INSTANCE Win32EventGroup WITH
  Threads <- OneThread,
  group <- w_group, event <- w_event, pc <- w_pc, call <- w_call, iter <- w_iter

(* One processor, so that a queue is served as long as it is attached.      *)
Processor == INSTANCE TaskProcessor WITH
  Worker <- ServiceWorker, group <- t_group, pc <- t_pc, ctl <- t_ctl
Stack == INSTANCE ThreadPool WITH
  Worker <- PoolWorker, Owner <- PoolOwner, None <- NoOwner, is_running <- p_running

MCOrder == <<e1, e2>>
Inputs == INSTANCE AnyInput WITH
  Buffers <- InputBuffers, group <- i_group, pc <- i_pc, call <- i_call, ctl <- i_ctl
Memory == INSTANCE SharedPool WITH None <- NoOwner, pc <- m_pc

MCInit ==
  /\ part \in {"event", "group", "windows", "processor", "stack", "inputs", "memory"}
  /\ Init /\ Group!Init /\ Windows!Init /\ Processor!Init /\ Stack!PoolInit
  /\ Inputs!Init /\ Memory!Init
  /\ part # "inputs" => i_group.elements = Order
  /\ part # "memory" => Pins = {"input"}

OfEvent(A)     == /\ part = "event" /\ A
                  /\ UNCHANGED <<part, grouped, windows, processor, stack, inputs, memory>>
OfGroup(A)     == /\ part = "group" /\ A
                  /\ UNCHANGED <<part, vars, windows, processor, stack, inputs, memory>>
OfWindows(A)   == /\ part = "windows" /\ A
                  /\ UNCHANGED <<part, vars, grouped, processor, stack, inputs, memory>>
OfProcessor(A) == /\ part = "processor" /\ A
                  /\ UNCHANGED <<part, vars, grouped, windows, stack, inputs, memory>>
OfStack(A)     == /\ part = "stack" /\ A
                  /\ UNCHANGED <<part, vars, grouped, windows, processor, inputs, memory>>
OfInputs(A)    == /\ part = "inputs" /\ A
                  /\ UNCHANGED <<part, vars, grouped, windows, processor, stack, memory>>
OfMemory(A)    == /\ part = "memory" /\ A
                  /\ UNCHANGED <<part, vars, grouped, windows, processor, stack, inputs>>

(* A thread may call nothing more, and a procedure that has stopped and a   *)
(* memory pool whose lists are full come to an end.                         *)
MCNext ==
  \/ OfEvent(Next) \/ OfGroup(Group!Next) \/ OfWindows(Windows!Next)
  \/ OfProcessor(Processor!Next) \/ OfStack(Stack!PoolNext) \/ OfInputs(Inputs!Next)
  \/ OfMemory(Memory!Next)

(* The fairness each part assumes of its threads, which are numbered.  As   *)
(* part never changes, one condition for the i-th thread of every part is   *)
(* the conjunction of theirs.                                               *)
Runs(i) ==
  \/ i \in 1..3 /\ OfEvent(Works(<<t1, t2, t3>>[i]))
  \/ i \in 1..3 /\ OfGroup(Group!Waiting(<<t1, t2, t3>>[i]))
  \/ i = 1 /\ OfWindows(Windows!SetEvent)
  \/ i = 2 /\ OfWindows(Windows!Waiter(t1))
  \/ i \in 1..2 /\ OfProcessor(Processor!Proceed(<<c1, c2>>[i]))
  \/ i = 3 /\ OfProcessor(Processor!Work(w1))
  \/ i \in 1..2 /\ OfStack(Stack!GetOn(<<o1, o2>>[i]))
  \/ i \in 3..4 /\ OfStack(Stack!WorkerStep(<<w1, w2>>[i - 2]))
  \/ i = 1 /\ OfInputs(Inputs!Worker)
  \/ i = 2 /\ OfInputs(Inputs!StopStep)
  \/ i \in 3..4 /\ OfInputs(Inputs!Signal(Order[i - 2]))

Locks(i) ==
  \/ OfEvent(Lock(<<t1, t2, t3>>[i]))
  \/ i \in 1..2 /\ OfStack(Stack!PutOn(<<o1, o2>>[i]))

MCFairness == /\ \A i \in 1..4 : WF_mcVars(Runs(i))
              /\ \A i \in 1..3 : SF_mcVars(Locks(i))

MCSpec == MCInit /\ [][MCNext]_mcVars /\ MCFairness

-----------------------------------------------------------------------------
(* No thread sleeps through what it waits for, on a group (synchronize.c)   *)
(* or beside an input that has data (pipeline_procedure.c).                 *)
NoWaitMissed == Group!NoLostWakeup /\ Inputs!NoInputOverlooked

(* platforms/win32: with one waiter the group is that of POSIX.             *)
ImplementsPosix == [][part = "windows" => Windows!PosixStep]_mcVars

(* task_processor_thread_pool.c: a thread is in one place, asleep in the    *)
(* pool and awake outside.  And a memory pool whose user is one thread at a *)
(* time keeps its blocks.                                                   *)
PoolsSound == Stack!OneHolder /\ Memory!PoolIsWhole

(* What is called returns: wait_for_any, once there is an element set or    *)
(* none left; the calls of a task processor, whose mutexes are taken in one *)
(* order and which joins a thread wherever that is; giving a thread back to *)
(* its pool; and the stop of a procedure, whichever input it waits for.     *)
(* And a thread that is told to go on leaves its pause, also when the call  *)
(* comes between its test of is_paused and its wait.                        *)
Called(i) ==
  \/ part = "group" /\ Group!AnyDue(<<t1, t2, t3>>[i])
  \/ part = "processor" /\ i \in 1..2 /\ t_pc[<<c1, c2>>[i]] # "idle"
  \/ part = "processor" /\ i = 3 /\ Processor!ToldToGoOn(w1)
  \/ part = "stack" /\ i \in 1..2 /\ caller[<<o1, o2>>[i]] = "put"
  \/ part = "inputs" /\ i = 1 /\ i_ctl.step # "idle"
Returned(i) ==
  \/ part = "group" /\ Group!AnyOver(<<t1, t2, t3>>[i])
  \/ part = "processor" /\ i \in 1..2 /\ t_pc[<<c1, c2>>[i]] = "idle"
  \/ part = "processor" /\ i = 3 /\ (t_pc[w1] # "pausing" \/ t_ctl[w1].is_paused)
  \/ part = "stack" /\ i \in 1..2 /\ caller[<<o1, o2>>[i]] = "idle"
  \/ part = "inputs" /\ i = 1 /\ i_ctl.step = "stopped"
CallsReturn == \A i \in 1..3 : Called(i) ~> Returned(i)

(* What is queued is run while a processor serves the queue, and a thread   *)
(* that was taken from the pool wakes up.                                   *)
Due(i) ==
  \/ part = "processor" /\ <<<<q1, q2>>[i], 1>> \in Processor!Queued
  \/ part = "stack" /\ Stack!InUse(<<w1, w2>>[i])
Done(i) ==
  \/ part = "processor" /\ \/ <<<<q1, q2>>[i], 1>> \notin Processor!Queued
                           \/ ~Processor!Served(<<q1, q2>>[i])
  \/ part = "stack" /\ Stack!AwakeOrBack(<<w1, w2>>[i])
TasksRun == \A i \in 1..2 : Due(i) ~> Done(i)
=============================================================================
