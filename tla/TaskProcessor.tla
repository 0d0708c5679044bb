---------------------------- MODULE TaskProcessor ----------------------------
(***************************************************************************)
(* Task queues, the task processors that serve them and the threads that   *)
(* run the processors: task_queue.c, task_processor.c and                  *)
(* task_processor_thread.c.                                                *)
(*                                                                         *)
(* A processor has one event-group element per attached queue; the hash    *)
(* map task_queues leads from the element to the queue and the queue's     *)
(* event_list leads back to the element.  Adding a task sets the elements  *)
(* of the queue's event_list; the worker waits for any element of its      *)
(* group, looks the queue up and pops one task.                            *)
(*                                                                         *)
(* Three kinds of mutex are taken, in the order processor, queue, group.   *)
(* The first two are held across other steps and are explicit here; each   *)
(* group function is one step (see EventGroup).                            *)
(***************************************************************************)
EXTENDS GroupState

CONSTANTS Worker,       \* task_processor_threads, each with its processor
          Client,       \* threads that call the queue and processor functions
          Queue,
          MaxCalls,     \* bound: calls made by all clients together
          Outstanding   \* bound: tasks of a queue that are unfinished at once

Nobody == "nobody"      \* a mutex that is free
None   == "NULL"

ASSUME ProcessorAssumption == /\ MaxCalls \in Nat
                              /\ Outstanding \in Nat \ {0}
                              /\ Worker \cap Client = {}
                              /\ Nobody \notin Client
                              /\ None \notin Queue \cup Worker

Task == Queue \X (1..Outstanding)     \* the task objects used with each queue

NoTask == <<None, 0>>

VARIABLES
  group,        \* [Worker -> group]                   processor.event_group
  task_queues,  \* [Worker -> [Element -> Queue/None]] processor.task_queues
  tasks,        \* [Queue -> Seq(Task)]                queue.task_list
  events,       \* [Queue -> Seq(<<worker, element>>)] queue.event_list
  plock,        \* [Worker -> holder]                  processor.mutex
  qlock,        \* [Queue -> holder]                   queue.mutex
  pc,           \* where every thread is
  elem,         \* [Worker -> Element/None]            local "element"
  slot,         \* [Worker -> Queue/None]              local "queue", a pointer
                \*                                     into task_queues
  ptask,        \* [Worker -> Task/NoTask]             local "ptask"
  ctl,          \* [Worker -> is_running, is_paused, event]
  arg,          \* [Client -> arguments of its call]
  calls         \* calls made so far

vars == <<group, task_queues, tasks, events, plock, qlock, pc, elem, slot,
          ptask, ctl, arg, calls>>
shared == <<group, task_queues, tasks, events, plock, qlock>>
local  == <<elem, slot, ptask>>

NoArg == [op |-> None, w |-> None, q |-> None, k |-> NoTask, todo |-> <<>>]

Init == /\ group = [w \in Worker |-> EmptyGroup]
        /\ task_queues = [w \in Worker |-> [e \in Element |-> None]]
        /\ tasks = [q \in Queue |-> <<>>]
        /\ events = [q \in Queue |-> <<>>]
        /\ plock = [w \in Worker |-> Nobody]
        /\ qlock = [q \in Queue |-> Nobody]
        /\ pc = [t \in Worker \cup Client |-> IF t \in Worker THEN "test_running" ELSE "idle"]
        /\ elem = [w \in Worker |-> None]
        /\ slot = [w \in Worker |-> None]
        /\ ptask = [w \in Worker |-> NoTask]
        /\ ctl = [w \in Worker |-> [is_running |-> TRUE, is_paused |-> FALSE,
                                    event |-> FALSE]]
        /\ arg = [c \in Client |-> NoArg]
        /\ calls = 0

Goto(t, label)   == pc' = [pc EXCEPT ![t] = label]
Attached(w, q)   == \E e \in Element : task_queues[w][e] = q
Mapped(w)        == {e \in Element : task_queues[w][e] # None}
Queued           == UNION {ToSet(tasks[q]) : q \in Queue}
Running          == {ptask[w] : w \in {x \in Worker : pc[x] = "run"}}
BeingAdded       == {arg[c].k : c \in {x \in Client : pc[x] # "idle"}}
Unfinished       == Queued \cup Running \cup BeingAdded

-----------------------------------------------------------------------------
(* The worker thread: process_task of task_processor_thread.c ...          *)

TestRunning(w) ==
  /\ pc[w] = "test_running"
  /\ Goto(w, IF ctl[w].is_running THEN "test_paused" ELSE "exited")
  /\ UNCHANGED <<shared, local, ctl, arg, calls>>

TestPaused(w) ==
  /\ pc[w] = "test_paused"
  /\ Goto(w, IF ctl[w].is_paused THEN "pausing" ELSE "take")
  /\ UNCHANGED <<shared, local, ctl, arg, calls>>

WaitForContinue(w) ==
  /\ pc[w] = "pausing"
  /\ ctl[w].event
  /\ ctl' = [ctl EXCEPT ![w].event = FALSE]
  /\ Goto(w, "test_paused")
  /\ UNCHANGED <<shared, local, arg, calls>>

(* ... and task_processor_process_task, with NULL results as early returns. *)

\* mutant: the wait resets every element
TakeElementResetsAll(w) ==
  /\ pc[w] = "take"
  /\ \E e \in SetElements(group[w]) :
       /\ e = FirstSet(group[w])
       /\ elem' = [elem EXCEPT ![w] = e]
       /\ group' = [group EXCEPT ![w] = GroupResetAll(@)]
  /\ Goto(w, "lookup")
  /\ UNCHANGED <<task_queues, tasks, events, plock, qlock, slot, ptask, ctl, arg, calls>>

TakeElement(w) ==
  /\ pc[w] = "take"
  /\ \E e \in SetElements(group[w]) :
       /\ e = FirstSet(group[w])
       /\ elem' = [elem EXCEPT ![w] = e]
       /\ group' = [group EXCEPT ![w] = GroupReset(@, e)]
  /\ Goto(w, "lookup")
  /\ UNCHANGED <<task_queues, tasks, events, plock, qlock, slot, ptask, ctl, arg, calls>>

TakeNothing(w) ==
  /\ pc[w] = "take"
  /\ Present(group[w]) = {}
  /\ Goto(w, "test_running")
  /\ UNCHANGED <<shared, local, ctl, arg, calls>>

LookUp(w) ==
  /\ pc[w] = "lookup"
  /\ plock[w] = Nobody
  /\ LET queue == task_queues[w][elem[w]] IN
     IF queue = None THEN /\ elem' = [elem EXCEPT ![w] = None]
                          /\ Goto(w, "test_running")
                          /\ UNCHANGED slot
                     ELSE /\ slot' = [slot EXCEPT ![w] = queue]
                          /\ Goto(w, "pop")
                          /\ UNCHANGED elem
  /\ UNCHANGED <<shared, ptask, ctl, arg, calls>>

\* The pointer into the map is followed after the mutex was released: while
\* the entry is there it leads to its queue, a freed entry still holds the
\* old pointer or the one of an entry that took its place.
SlotQueues(w) == IF task_queues[w][elem[w]] # None
                 THEN {task_queues[w][elem[w]]}
                 ELSE {slot[w]} \cup {task_queues[w][e] : e \in Mapped(w)}

\* mutant: the first task is read but not removed
PopTaskKeeps(w) ==
  /\ pc[w] = "pop"
  /\ \E q \in SlotQueues(w) :
       /\ qlock[q] = Nobody
       /\ IF tasks[q] = <<>> THEN Goto(w, "take") /\ UNCHANGED ptask
          ELSE ptask' = [ptask EXCEPT ![w] = Head(tasks[q])] /\ Goto(w, "run")
  /\ elem' = [elem EXCEPT ![w] = None]
  /\ slot' = [slot EXCEPT ![w] = None]
  /\ UNCHANGED <<shared, ctl, arg, calls>>

PopTask(w) ==
  /\ pc[w] = "pop"
  /\ \E q \in SlotQueues(w) :
       /\ qlock[q] = Nobody
       /\ IF tasks[q] = <<>>
          THEN Goto(w, "take") /\ UNCHANGED <<tasks, ptask>>
          ELSE /\ ptask' = [ptask EXCEPT ![w] = Head(tasks[q])]
               /\ tasks' = [tasks EXCEPT ![q] = Tail(@)]
               /\ Goto(w, "run")
  /\ elem' = [elem EXCEPT ![w] = None]
  /\ slot' = [slot EXCEPT ![w] = None]
  /\ UNCHANGED <<group, task_queues, events, plock, qlock, ctl, arg, calls>>

\* The function of the task is over, and may have told its client so ...
RunTask(w) ==
  /\ pc[w] = "run"
  /\ Goto(w, "finish")
  /\ UNCHANGED <<shared, local, ctl, arg, calls>>

\* ... before the worker writes return_value and status, which nobody reads.
FinishTask(w) ==
  /\ pc[w] = "finish"
  /\ ptask' = [ptask EXCEPT ![w] = NoTask]
  /\ Goto(w, "test_running")
  /\ UNCHANGED <<shared, elem, slot, ctl, arg, calls>>

Work(w) == \/ TestRunning(w) \/ TestPaused(w) \/ WaitForContinue(w)
           \/ TakeElement(w) \/ TakeNothing(w) \/ LookUp(w) \/ PopTask(w)
           \/ RunTask(w) \/ FinishTask(w)

-----------------------------------------------------------------------------
(* The calls of the clients.                                               *)

\* A thread, with its processor, belongs to the client that took it from the
\* thread pool: the calls on one processor do not overlap.  A client attaches
\* a queue before it adds tasks and detaches it when they are done, as the
\* procedures do, but another client may add one while that is under way.
Idle(q) == \A k \in Unfinished : k[1] # q
InCall(w) == \E c \in Client : pc[c] # "idle" /\ arg[c].w = w

Begin(c, op, a) == /\ pc[c] = "idle"
                   /\ calls < MaxCalls
                   /\ calls' = calls + 1
                   /\ arg' = [arg EXCEPT ![c] = [a EXCEPT !.op = op]]
                   /\ Goto(c, op)
                   /\ UNCHANGED <<shared, local, ctl>>

Return(c) == /\ Goto(c, "idle")
             /\ arg' = [arg EXCEPT ![c] = NoArg]

BeginAddTask(c) ==
  \E q \in Queue, n \in 1..Outstanding :
    /\ events[q] # <<>>
    /\ <<q, n>> \notin Unfinished
    /\ \A i \in 1..(n - 1) : <<q, i>> \in Unfinished
    /\ Begin(c, "add", [NoArg EXCEPT !.q = q, !.k = <<q, n>>])

BeginAttach(c) ==
  \E w \in Worker, q \in Queue :
    /\ ctl[w].is_running /\ ~InCall(w) /\ ~Attached(w, q)
    /\ Idle(q)
    /\ Begin(c, "attach", [NoArg EXCEPT !.w = w, !.q = q])

BeginDetach(c) ==
  \E w \in Worker, q \in Queue :
    /\ ctl[w].is_running /\ ~InCall(w) /\ Idle(q)
    /\ Begin(c, "detach", [NoArg EXCEPT !.w = w, !.q = q])

BeginClear(c) ==
  \E w \in Worker, op \in {"clear", "destroy"} :
    /\ ctl[w].is_running /\ ~InCall(w)
    /\ \A q \in Queue : Attached(w, q) => Idle(q)
    /\ Begin(c, op, [NoArg EXCEPT !.w = w])

BeginPause(c) ==
  \E w \in Worker, op \in {"pause", "continue"} :
    /\ ctl[w].is_running /\ ~InCall(w)
    /\ Begin(c, op, [NoArg EXCEPT !.w = w])

(***************************************************************************)
(* task_queue_add_task: with the queue locked, append the task and set the *)
(* element of every processor that serves the queue, in turn.              *)
(***************************************************************************)
AddTask(c) ==
  LET q == arg[c].q IN
  /\ pc[c] = "add"
  /\ qlock[q] = Nobody
  /\ \/ /\ qlock' = [qlock EXCEPT ![q] = c]
        /\ tasks' = [tasks EXCEPT ![q] = Append(@, arg[c].k)]
        /\ arg' = [arg EXCEPT ![c].todo = events[q], ![c].k = NoTask]
        /\ Goto(c, "set_elements")
     \/ Return(c) /\ UNCHANGED <<tasks, qlock>>     \* list_push_back failed
  /\ UNCHANGED <<group, task_queues, events, plock, local, ctl, calls>>

\* mutant: the element is passed over
SetNextElementNot(c) ==
  /\ pc[c] = "set_elements"
  /\ arg[c].todo # <<>>
  /\ arg' = [arg EXCEPT ![c].todo = Tail(@)]
  /\ UNCHANGED <<shared, pc, local, ctl, calls>>

SetNextElement(c) ==
  LET w == Head(arg[c].todo)[1]
      e == Head(arg[c].todo)[2]
  IN /\ pc[c] = "set_elements"
     /\ arg[c].todo # <<>>
     /\ group' = [group EXCEPT ![w] = GroupSet(@, e)]
     /\ arg' = [arg EXCEPT ![c].todo = Tail(@)]
     /\ UNCHANGED <<task_queues, tasks, events, plock, qlock, pc, local, ctl, calls>>

AllElementsSet(c) ==
  /\ pc[c] = "set_elements"
  /\ arg[c].todo = <<>>
  /\ qlock' = [qlock EXCEPT ![arg[c].q] = Nobody]
  /\ Return(c)
  /\ UNCHANGED <<group, task_queues, tasks, events, plock, local, ctl, calls>>

(***************************************************************************)
(* task_processor_add_task_queue: a new element, the map, the event_list;  *)
(* an allocation that fails undoes what was done before it.                *)
(***************************************************************************)
AttachElement(c) ==
  LET w == arg[c].w IN
  /\ pc[c] = "attach"
  /\ plock[w] = Nobody
  /\ \/ \E e \in Element \ Present(group[w]) :
          /\ plock' = [plock EXCEPT ![w] = c]
          /\ group' = [group EXCEPT ![w] = GroupAdd(@, e)]
          /\ task_queues' = [task_queues EXCEPT ![w][e] = arg[c].q]
          /\ arg' = [arg EXCEPT ![c].todo = <<<<w, e>>>>]
          /\ Goto(c, "attach_event")
     \/ Return(c) /\ UNCHANGED <<group, task_queues, plock>>
  /\ UNCHANGED <<tasks, events, qlock, local, ctl, calls>>

\* mutant: the undo forgets the map
AttachEventKeepsMap(c) ==
  LET w == arg[c].w
      q == arg[c].q
      e == arg[c].todo[1][2]
  IN /\ pc[c] = "attach_event"
     /\ qlock[q] = Nobody
     /\ \/ events' = [events EXCEPT ![q] = Append(@, <<w, e>>)] /\ UNCHANGED group
        \/ group' = [group EXCEPT ![w] = GroupRemove(@, e)] /\ UNCHANGED events
     /\ plock' = [plock EXCEPT ![w] = Nobody]
     /\ Return(c)
     /\ UNCHANGED <<task_queues, tasks, qlock, local, ctl, calls>>

AttachEvent(c) ==
  LET w == arg[c].w
      q == arg[c].q
      e == arg[c].todo[1][2]
  IN /\ pc[c] = "attach_event"
     /\ qlock[q] = Nobody
     /\ \/ /\ events' = [events EXCEPT ![q] = Append(@, <<w, e>>)]
           /\ UNCHANGED <<group, task_queues>>
        \/ /\ task_queues' = [task_queues EXCEPT ![w][e] = None]
           /\ group' = [group EXCEPT ![w] = GroupRemove(@, e)]
           /\ UNCHANGED events
     /\ plock' = [plock EXCEPT ![w] = Nobody]
     /\ Return(c)
     /\ UNCHANGED <<tasks, qlock, local, ctl, calls>>

(***************************************************************************)
(* task_processor_remove_task_queue: out of the map, out of the queue's    *)
(* event_list, and only then out of the group.                             *)
(***************************************************************************)
\* where in the event_list of q the first element of w's group is
FirstOf(w, q, i) == /\ events[q][i][1] = w
                    /\ \A j \in 1..(i - 1) : events[q][j][1] # w

DetachFromMap(c) ==
  LET w == arg[c].w IN
  /\ pc[c] = "detach"
  /\ plock[w] = Nobody
  /\ \/ \E e \in Element :
          /\ task_queues[w][e] = arg[c].q
          /\ task_queues' = [task_queues EXCEPT ![w][e] = None]
          /\ plock' = [plock EXCEPT ![w] = c]
          /\ Goto(c, "detach_event")
          /\ UNCHANGED arg
     \/ ~Attached(w, arg[c].q) /\ Return(c) /\ UNCHANGED <<task_queues, plock>>
  /\ UNCHANGED <<group, tasks, events, qlock, local, ctl, calls>>

DetachEvent(c) ==
  LET q == arg[c].q IN
  /\ pc[c] = "detach_event"
  /\ qlock[q] = Nobody
  /\ \E i \in DOMAIN events[q] :
       /\ FirstOf(arg[c].w, q, i)
       /\ events' = [events EXCEPT ![q] = RemoveAt(@, i)]
       /\ arg' = [arg EXCEPT ![c].todo = <<events[q][i]>>]
  /\ Goto(c, "detach_element")
  /\ UNCHANGED <<group, task_queues, tasks, plock, qlock, local, ctl, calls>>

DetachElement(c) ==
  LET w == arg[c].w IN
  /\ pc[c] = "detach_element"
  /\ group' = [group EXCEPT ![w] = GroupRemove(@, arg[c].todo[1][2])]
  /\ plock' = [plock EXCEPT ![w] = Nobody]
  /\ Return(c)
  /\ UNCHANGED <<task_queues, tasks, events, qlock, local, ctl, calls>>

(***************************************************************************)
(* task_processor_clear_task_queue: event_list and group for every entry   *)
(* of the map, in whatever order it has, then the map.  The entries whose  *)
(* element is in the group are the ones that are left.  Called on its own  *)
(* and by thread_destroy.                                                  *)
(***************************************************************************)
Left(w) == Mapped(w) \cap Present(group[w])

ClearLocks(c) ==
  LET w == arg[c].w IN
  /\ pc[c] = "clear"
  /\ plock[w] = Nobody
  /\ plock' = [plock EXCEPT ![w] = c]
  /\ Goto(c, "clear_event")
  /\ UNCHANGED <<group, task_queues, tasks, events, qlock, local, ctl, arg, calls>>

ClearEvent(c) ==
  LET w == arg[c].w IN
  /\ pc[c] = "clear_event"
  /\ \E e \in Left(w) :
       LET q == task_queues[w][e] IN
       /\ qlock[q] = Nobody
       /\ events' = [events EXCEPT ![q] = RemoveFirst(@, <<w, e>>)]
       /\ arg' = [arg EXCEPT ![c].todo = <<<<w, e>>>>]
  /\ Goto(c, "clear_element")
  /\ UNCHANGED <<group, task_queues, tasks, plock, qlock, local, ctl, calls>>

ClearElement(c) ==
  LET w == arg[c].w IN
  /\ pc[c] = "clear_element"
  /\ group' = [group EXCEPT ![w] = GroupRemove(@, arg[c].todo[1][2])]
  /\ arg' = [arg EXCEPT ![c].todo = <<>>]
  /\ Goto(c, "clear_event")
  /\ UNCHANGED <<task_queues, tasks, events, plock, qlock, local, ctl, calls>>

ClearEnds(c) ==
  LET w == arg[c].w IN
  /\ pc[c] = "clear_event"
  /\ Left(w) = {}
  /\ task_queues' = [task_queues EXCEPT ![w] = [e \in Element |-> None]]
  /\ plock' = [plock EXCEPT ![w] = Nobody]
  /\ IF arg[c].op = "destroy" THEN Goto(c, "join") /\ UNCHANGED arg ELSE Return(c)
  /\ UNCHANGED <<group, tasks, events, qlock, local, ctl, calls>>

(***************************************************************************)
(* task_processor_thread_pause, _continue and _destroy.                    *)
(***************************************************************************)
Pause(c) == /\ pc[c] = "pause"
            /\ ctl' = [ctl EXCEPT ![arg[c].w].is_paused = TRUE]
            /\ Return(c)
            /\ UNCHANGED <<shared, local, calls>>

Continue(c) == /\ pc[c] \in {"continue", "destroy"}
               /\ ctl' = [ctl EXCEPT ![arg[c].w].is_paused = FALSE]
               /\ Goto(c, IF pc[c] = "continue" THEN "wake" ELSE "stop_running")
               /\ UNCHANGED <<shared, local, arg, calls>>

StopRunning(c) == /\ pc[c] = "stop_running"
                  /\ ctl' = [ctl EXCEPT ![arg[c].w].is_running = FALSE]
                  /\ Goto(c, "wake")
                  /\ UNCHANGED <<shared, local, arg, calls>>

Wake(c) == /\ pc[c] = "wake"
           /\ ctl' = [ctl EXCEPT ![arg[c].w].event = TRUE]
           /\ IF arg[c].op = "destroy" THEN Goto(c, "clear") /\ UNCHANGED arg
                                       ELSE Return(c)
           /\ UNCHANGED <<shared, local, calls>>

Join(c) == /\ pc[c] = "join"
           /\ pc[arg[c].w] = "exited"
           /\ Return(c)
           /\ UNCHANGED <<shared, local, ctl, calls>>

BeginCall(c) == \/ BeginAddTask(c) \/ BeginAttach(c) \/ BeginDetach(c)
                \/ BeginClear(c) \/ BeginPause(c)

Proceed(c) == \/ AddTask(c) \/ SetNextElement(c) \/ AllElementsSet(c)
              \/ AttachElement(c) \/ AttachEvent(c)
              \/ DetachFromMap(c) \/ DetachEvent(c) \/ DetachElement(c)
              \/ ClearLocks(c) \/ ClearEvent(c) \/ ClearElement(c) \/ ClearEnds(c)
              \/ Pause(c) \/ Continue(c) \/ StopRunning(c) \/ Wake(c) \/ Join(c)

Next == \/ \E c \in Client : BeginCall(c) \/ Proceed(c)
        \/ \E w \in Worker : Work(w)

Spec == Init /\ [][Next]_vars

(* Threads run on; the mutexes are contended only finitely often, because  *)
(* calls are bounded, so weak fairness is enough for them.                 *)
FairSpec == /\ Spec
            /\ \A c \in Client : WF_vars(Proceed(c))
            /\ \A w \in Worker : WF_vars(Work(w))

-----------------------------------------------------------------------------
WorkerLabels == {"test_running", "test_paused", "pausing", "take", "lookup", "pop",
                 "run", "finish", "exited"}
ClientLabels == {"idle", "add", "set_elements", "attach", "attach_event",
                 "detach", "detach_event", "detach_element", "clear",
                 "clear_event", "clear_element", "pause", "continue",
                 "stop_running", "wake", "destroy", "join"}

(* Types: a group has no slot twice, mutexes are held by clients only.     *)
TypeOK ==
  /\ \A w \in Worker :
       /\ IsGroup(group[w])
       /\ task_queues[w] \in [Element -> Queue \cup {None}]
       /\ plock[w] \in Client \cup {Nobody}
       /\ pc[w] \in WorkerLabels
       /\ elem[w] \in Element \cup {None}
       /\ slot[w] \in Queue \cup {None}
       /\ ptask[w] \in Task \cup {NoTask}
       /\ ctl[w] \in [is_running : BOOLEAN, is_paused : BOOLEAN, event : BOOLEAN]
  /\ \A q \in Queue :
       /\ tasks[q] \in Seq(Task)
       /\ events[q] \in Seq(Worker \X Element)
       /\ qlock[q] \in Client \cup {Nobody}
  /\ \A c \in Client : pc[c] \in ClientLabels
  /\ calls \in 0..MaxCalls

(***************************************************************************)
(* The three places that know about an attached queue agree whenever the   *)
(* processor's mutex is free: the elements of the group are the keys of    *)
(* the map, and a queue's event_list names exactly the elements that lead  *)
(* to it.  Failed and half-done attachments leave nothing behind.  And     *)
(* none of the elements that task_queue_add_task walks through was removed *)
(* from its group and freed, although the processor that owns it may be    *)
(* detaching the queue at the same time.                                   *)
(***************************************************************************)
NoDanglingElement ==
  /\ \A q \in Queue : \A x \in ToSet(events[q]) : x[2] \in Present(group[x[1]])
  /\ \A c \in Client : pc[c] = "set_elements" =>
       \A x \in ToSet(arg[c].todo) : x[2] \in Present(group[x[1]])

MapsAgree ==
  /\ \A w \in Worker : plock[w] = Nobody =>
       /\ Present(group[w]) = Mapped(w)
       /\ \A q \in Queue : {e \in Element : task_queues[w][e] = q}
                             = {e \in Element : <<w, e>> \in ToSet(events[q])}
  /\ NoDanglingElement

(***************************************************************************)
(* A task that was added once is run at most once: it is in one place of   *)
(* one queue or with one worker, although every processor that serves the  *)
(* queue is told of it.                                                    *)
(***************************************************************************)
RunOnce ==
  /\ \A q, r \in Queue : \A i \in DOMAIN tasks[q], j \in DOMAIN tasks[r] :
       tasks[q][i] = tasks[r][j] => q = r /\ i = j
  /\ Queued \cap Running = {}
  /\ \A v, w \in Worker : pc[v] = "run" /\ pc[w] = "run" /\ ptask[v] = ptask[w] => v = w

(***************************************************************************)
(* No queue is forgotten: while a queue with a task is attached to some    *)
(* processor, one of its elements is set, or will be by an add that is     *)
(* under way, or a worker holds one of them and has not looked yet.        *)
(***************************************************************************)
NothingStranded ==
  \A q \in Queue :
    tasks[q] # <<>> /\ (\E w \in Worker : plock[w] = Nobody /\ Attached(w, q)) =>
      \/ \E x \in ToSet(events[q]) : group[x[1]].flag[x[2]]
      \/ \E c \in Client : pc[c] = "set_elements" /\ arg[c].q = q /\ arg[c].todo # <<>>
      \/ \E w \in Worker : /\ pc[w] \in {"lookup", "pop"}
                           /\ task_queues[w][elem[w]] = q

(* Two of a kind are interchangeable.                                       *)
ProcessorSymmetry == Permutations(Worker) \cup Permutations(Client)
                       \cup Permutations(Queue) \cup Permutations(Element)

(* What keeps a queue served, and a thread that was told to go on.          *)
Served(q) == \E w \in Worker : /\ ctl[w].is_running /\ ~ctl[w].is_paused
                               /\ Attached(w, q)
ToldToGoOn(w) == pc[w] = "pausing" /\ ~ctl[w].is_paused
=============================================================================
