------------------------- MODULE TaskProcessorProofs -------------------------
(***************************************************************************)
(* Proofs about TaskProcessor, for any number of workers, clients, queues, *)
(* group elements and calls, and any number of tasks of a queue at once.   *)
(***************************************************************************)
EXTENDS TaskProcessor, TLAPS

-----------------------------------------------------------------------------
(* The inductive invariant.  Types first, with what the arguments of a     *)
(* call are while it is under way.                                         *)
Arguments == [op : {None} \cup ClientLabels, w : Worker \cup {None}, q : Queue \cup {None},
              k : Task \cup {NoTask}, todo : Seq(Worker \X Element)]

OnWorker == ClientLabels \ {"idle", "add", "set_elements"}
OnQueue  == {"add", "set_elements", "attach", "attach_event", "detach", "detach_event"}
Inside   == {"attach_event", "detach_event", "detach_element", "clear_event", "clear_element"}

ShapeInv ==
  /\ group \in [Worker -> GroupType]
  /\ task_queues \in [Worker -> [Element -> Queue \cup {None}]]
  /\ events \in [Queue -> Seq(Worker \X Element)]
  /\ plock \in [Worker -> Client \cup {Nobody}]
  /\ qlock \in [Queue -> Client \cup {Nobody}]
  /\ pc \in [Worker \cup Client -> WorkerLabels \cup ClientLabels]
  /\ arg \in [Client -> Arguments]
  /\ \A c \in Client : /\ pc[c] \in ClientLabels
                       /\ pc[c] \in OnWorker => arg[c].w \in Worker
                       /\ pc[c] \in OnQueue => arg[c].q \in Queue
                       /\ pc[c] \in {"attach_event", "detach_element", "clear_element"}
                            => Len(arg[c].todo) = 1

(* A mutex is held exactly by the call that is inside its section, and the *)
(* calls on one processor do not overlap.                                  *)
LocksInv ==
  /\ \A w \in Worker, c \in Client : plock[w] = c <=> pc[c] \in Inside /\ arg[c].w = w
  /\ \A q \in Queue, c \in Client : qlock[q] = c <=> pc[c] = "set_elements" /\ arg[c].q = q
  /\ \A c, d \in Client : /\ pc[c] \in OnWorker /\ pc[d] \in OnWorker
                          /\ arg[c].w = arg[d].w
                          => c = d

(* No list has an element twice, and no processor a queue twice.           *)
OnceInv ==
  /\ \A w \in Worker : IsInjective(group[w].elements)
  /\ \A q \in Queue : IsInjective(events[q])
  /\ \A w \in Worker : \A e, f \in Element :
       task_queues[w][e] = task_queues[w][f] /\ task_queues[w][e] # None => e = f
  /\ \A c \in Client : pc[c] = "attach" => ~Attached(arg[c].w, arg[c].q)

(***************************************************************************)
(* What each section of a processor's mutex leaves undone so far, where P  *)
(* are the elements of the group, m is the map and n names for each queue  *)
(* the elements of the group in its event_list.                            *)
(***************************************************************************)
Keys(m)       == {e \in Element : m[e] # None}
Leading(m, q) == {e \in Element : m[e] = q}
Names(ev, w)  == [q \in Queue |-> {e \in Element : <<w, e>> \in ToSet(ev[q])}]

Whole(P, m, n) == P = Keys(m) /\ \A q \in Queue : n[q] = Leading(m, q)

Entering(P, m, n, q, e) == /\ P = Keys(m)
                           /\ e \in Element /\ m[e] = q
                           /\ \A r \in Queue : n[r] = Leading(m, r) \ {e}

OutOfMap(P, m, n, q) == /\ Leading(m, q) = {}
                        /\ \A r \in Queue \ {q} : n[r] = Leading(m, r)
                        /\ P = Keys(m) \cup n[q]
                        /\ \E e \in Element \ Keys(m) : n[q] = {e}

OutOfQueue(P, m, n, e) == /\ e \in Element \ Keys(m)
                          /\ P = Keys(m) \cup {e}
                          /\ \A q \in Queue : n[q] = Leading(m, q)

Emptying(P, m, n, gone) == /\ gone \subseteq P /\ P \subseteq Keys(m)
                           /\ \A q \in Queue : n[q] = (Leading(m, q) \cap P) \ gone

Section(label, P, m, n, q, e) ==
  /\ label = "attach_event"   => Entering(P, m, n, q, e)
  /\ label = "detach_event"   => OutOfMap(P, m, n, q)
  /\ label = "detach_element" => OutOfQueue(P, m, n, e)
  /\ label = "clear_event"    => Emptying(P, m, n, {})
  /\ label = "clear_element"  => Emptying(P, m, n, {e})

SectionInv ==
  /\ \A w \in Worker : plock[w] = Nobody =>
       Whole(Present(group[w]), task_queues[w], Names(events, w))
  /\ \A c \in Client : pc[c] \in Inside =>
       Section(pc[c], Present(group[arg[c].w]), task_queues[arg[c].w],
               Names(events, arg[c].w), arg[c].q, arg[c].todo[1][2])
  /\ \A c \in Client : pc[c] = "set_elements" =>
       ToSet(arg[c].todo) \subseteq ToSet(events[arg[c].q])

MapsInv == ShapeInv /\ LocksInv /\ OnceInv /\ SectionInv

-----------------------------------------------------------------------------
LEMMA WorkShape ==
  ASSUME MapsInv, NEW w \in Worker, Work(w)
  PROVE  /\ ShapeInv'
         /\ \A c \in Client : pc'[c] = pc[c]
         /\ \A v \in Worker : group'[v].elements = group[v].elements
         /\ UNCHANGED <<arg, task_queues, events, plock, qlock>>
<1> USE ProcessorAssumption DEF ShapeInv, Goto, shared, local, WorkerLabels
<1>0. ShapeInv
  BY DEF MapsInv
<1>1. CASE TakeElement(w)
  BY <1>0, <1>1, FlagChanged DEF TakeElement
<1>2. CASE PopTask(w)
  BY <1>0, <1>2 DEF PopTask
<1>3. CASE LookUp(w)
  BY <1>0, <1>3 DEF LookUp
<1>4. CASE TestRunning(w) \/ TestPaused(w) \/ WaitForContinue(w) \/ TakeNothing(w)
             \/ RunTask(w) \/ FinishTask(w)
  BY <1>0, <1>4 DEF TestRunning, TestPaused, WaitForContinue, TakeNothing, RunTask, FinishTask
<1>. QED
  BY <1>1, <1>2, <1>3, <1>4 DEF Work

Started == {"add", "attach", "detach", "clear", "destroy", "pause", "continue"}

LEMMA BeginShape ==
  ASSUME MapsInv, NEW c \in Client, BeginCall(c)
  PROVE  /\ ShapeInv'
         /\ pc[c] = "idle"
         /\ pc' = [pc EXCEPT ![c] = pc'[c]]
         /\ arg' = [arg EXCEPT ![c] = arg'[c]]
         /\ UNCHANGED shared
         /\ pc'[c] \in Started
         /\ pc'[c] # "add" => ~InCall(arg'[c].w)
         /\ pc'[c] = "attach" => ~Attached(arg'[c].w, arg'[c].q)
<1>1. PICK op \in Started, a \in Arguments :
        /\ Begin(c, op, a)
        /\ op # "add" => a.w \in Worker /\ ~InCall(a.w)
        /\ op \in {"add", "attach", "detach"} => a.q \in Queue
        /\ op = "attach" => ~Attached(a.w, a.q)
  <2> USE DEF Arguments, NoArg, Started
  <2>0. <<>> \in Seq(Worker \X Element) /\ Task = Queue \X (1..Outstanding)
    BY DEF Task
  <2>1. CASE BeginAddTask(c)
    <3>1. PICK q \in Queue, n \in 1..Outstanding :
            Begin(c, "add", [NoArg EXCEPT !.q = q, !.k = <<q, n>>])
      BY <2>1 DEF BeginAddTask
    <3>2. [NoArg EXCEPT !.q = q, !.k = <<q, n>>] \in Arguments
      BY <2>0
    <3>. QED
      BY <3>1, <3>2
  <2>2. CASE BeginAttach(c)
    <3>1. PICK w \in Worker, q \in Queue :
            /\ ~InCall(w) /\ ~Attached(w, q)
            /\ Begin(c, "attach", [NoArg EXCEPT !.w = w, !.q = q])
      BY <2>2 DEF BeginAttach
    <3>2. [NoArg EXCEPT !.w = w, !.q = q] \in Arguments
      BY <2>0
    <3>. QED
      BY <3>1, <3>2
  <2>3. CASE BeginDetach(c)
    <3>1. PICK w \in Worker, q \in Queue :
            ~InCall(w) /\ Begin(c, "detach", [NoArg EXCEPT !.w = w, !.q = q])
      BY <2>3 DEF BeginDetach
    <3>2. [NoArg EXCEPT !.w = w, !.q = q] \in Arguments
      BY <2>0
    <3>. QED
      BY <3>1, <3>2
  <2>4. CASE BeginClear(c) \/ BeginPause(c)
    <3>1. PICK w \in Worker, op \in {"clear", "destroy", "pause", "continue"} :
            ~InCall(w) /\ Begin(c, op, [NoArg EXCEPT !.w = w])
      BY <2>4 DEF BeginClear, BeginPause
    <3>2. [NoArg EXCEPT !.w = w] \in Arguments
      BY <2>0
    <3>. QED
      BY <3>1, <3>2
  <2>. QED
    BY <2>1, <2>2, <2>3, <2>4 DEF BeginCall
<1>2. [a EXCEPT !.op = op] \in Arguments
      /\ [a EXCEPT !.op = op].w = a.w /\ [a EXCEPT !.op = op].q = a.q
  BY <1>1 DEF Arguments, Started, ClientLabels
<1>3. /\ pc[c] = "idle" /\ pc' = [pc EXCEPT ![c] = op]
      /\ arg' = [arg EXCEPT ![c] = [a EXCEPT !.op = op]]
      /\ UNCHANGED shared
  BY <1>1 DEF Begin, Goto
<1>4. ShapeInv
  BY DEF MapsInv
<1>5. pc'[c] = op /\ arg'[c] = [a EXCEPT !.op = op]
  BY <1>3, <1>4 DEF ShapeInv
<1>6. ShapeInv'
  BY <1>1, <1>2, <1>3, <1>4, <1>5
  DEF ShapeInv, Started, ClientLabels, WorkerLabels, OnWorker, OnQueue, shared
<1>. QED
  BY <1>1, <1>2, <1>3, <1>5, <1>6

(* The sections of the processors and the walks that a step does not touch *)
(* are as they were: of a step that moves the clients of C and touches the *)
(* processors of W, only what becomes of these is left to be shown.        *)
LEMMA OthersKeep ==
  ASSUME MapsInv, NEW C \in SUBSET Client, NEW W \in SUBSET Worker,
         \A d \in Client \ C : /\ pc'[d] = pc[d] /\ arg'[d] = arg[d]
                               /\ pc[d] \in Inside => arg[d].w \notin W,
         \A v \in Worker \ W : /\ Present(group'[v]) = Present(group[v])
                               /\ task_queues'[v] = task_queues[v]
                               /\ Names(events', v) = Names(events, v)
                               /\ plock'[v] = plock[v],
         \A q \in Queue : qlock[q] # Nobody => events'[q] = events[q],
         \A w \in W : plock'[w] = Nobody =>
           Whole(Present(group'[w]), task_queues'[w], Names(events', w)),
         \A c \in C : pc'[c] \in Inside =>
           Section(pc'[c], Present(group'[arg'[c].w]), task_queues'[arg'[c].w],
                   Names(events', arg'[c].w), arg'[c].q, arg'[c].todo[1][2]),
         \A c \in C : pc'[c] = "set_elements" =>
           ToSet(arg'[c].todo) \subseteq ToSet(events'[arg'[c].q])
  PROVE  SectionInv'
<1>0. ShapeInv /\ LocksInv /\ SectionInv
  BY DEF MapsInv
<1>1. ASSUME NEW w \in Worker, plock'[w] = Nobody
      PROVE  Whole(Present(group'[w]), task_queues'[w], Names(events', w))
  <2>1. CASE w \in W
    BY <1>1, <2>1
  <2>2. CASE w \notin W
    BY <1>0, <1>1, <2>2 DEF SectionInv
  <2>. QED
    BY <2>1, <2>2
<1>2. ASSUME NEW c \in Client, pc'[c] \in Inside
      PROVE  Section(pc'[c], Present(group'[arg'[c].w]), task_queues'[arg'[c].w],
                     Names(events', arg'[c].w), arg'[c].q, arg'[c].todo[1][2])
  <2>1. CASE c \in C
    BY <1>2, <2>1
  <2>2. CASE c \notin C
    <3>0. arg'[c] = arg[c] /\ pc'[c] = pc[c] /\ (pc[c] \in Inside => arg[c].w \notin W)
      BY <2>2
    <3>1. arg[c].w \in Worker \ W
      BY <1>0, <1>2, <3>0 DEF ShapeInv, OnWorker, Inside, ClientLabels
    <3>2. Section(pc[c], Present(group[arg[c].w]), task_queues[arg[c].w],
                  Names(events, arg[c].w), arg[c].q, arg[c].todo[1][2])
      BY <1>0, <1>2, <3>0 DEF SectionInv
    <3>. QED
      BY <3>0, <3>1, <3>2
  <2>. QED
    BY <2>1, <2>2
<1>3. ASSUME NEW c \in Client, pc'[c] = "set_elements"
      PROVE  ToSet(arg'[c].todo) \subseteq ToSet(events'[arg'[c].q])
  <2>1. CASE c \in C
    BY <1>3, <2>1
  <2>2. CASE c \notin C
    <3>0. arg'[c] = arg[c] /\ pc'[c] = pc[c]
      BY <2>2
    <3>1. pc[c] = "set_elements" /\ arg[c].q \in Queue
      BY <1>0, <1>3, <3>0 DEF ShapeInv, OnQueue
    <3>2. qlock[arg[c].q] # Nobody
      BY <1>0, <3>1, ProcessorAssumption DEF LocksInv
    <3>3. events'[arg[c].q] = events[arg[c].q]
      BY <3>1, <3>2
    <3>. QED
      BY <1>0, <3>0, <3>1, <3>3 DEF SectionInv
  <2>. QED
    BY <2>1, <2>2
<1>. QED
  BY <1>1, <1>2, <1>3 DEF SectionInv

LEMMA WorkKeepsMaps == ASSUME MapsInv, NEW w \in Worker, Work(w) PROVE MapsInv'
<1>0. ShapeInv /\ LocksInv /\ OnceInv /\ SectionInv
  BY DEF MapsInv
<1>1. /\ ShapeInv'
      /\ \A c \in Client : pc'[c] = pc[c]
      /\ \A v \in Worker : group'[v].elements = group[v].elements
      /\ UNCHANGED <<arg, task_queues, events, plock, qlock>>
  BY WorkShape
<1>2. LocksInv'
  BY <1>0, <1>1 DEF LocksInv
<1>3. OnceInv'
  BY <1>0, <1>1 DEF OnceInv, Attached
<1>4. SectionInv'
  <2>1. {} \in SUBSET Client /\ {} \in SUBSET Worker
    OBVIOUS
  <2>. QED
    BY <1>1, <2>1, OthersKeep DEF Present
<1>. QED
  BY <1>1, <1>2, <1>3, <1>4 DEF MapsInv

LEMMA BeginKeepsMaps == ASSUME MapsInv, NEW c \in Client, BeginCall(c) PROVE MapsInv'
<1>0. ShapeInv /\ LocksInv /\ OnceInv /\ SectionInv
  BY DEF MapsInv
<1>1. /\ ShapeInv'
      /\ pc[c] = "idle"
      /\ pc' = [pc EXCEPT ![c] = pc'[c]]
      /\ arg' = [arg EXCEPT ![c] = arg'[c]]
      /\ UNCHANGED shared
      /\ pc'[c] \in Started
      /\ pc'[c] # "add" => ~InCall(arg'[c].w)
      /\ pc'[c] = "attach" => ~Attached(arg'[c].w, arg'[c].q)
  BY BeginShape
<1>2. pc'[c] \notin Inside /\ pc'[c] # "set_elements" /\ pc'[c] \in {"add"} \cup OnWorker
  BY <1>1 DEF Started, Inside, OnWorker, ClientLabels
<1>3. \A d \in Client \ {c} : pc'[d] = pc[d] /\ arg'[d] = arg[d]
  BY <1>0, <1>1 DEF ShapeInv
<1>4. LocksInv'
  BY <1>0, <1>1, <1>2, <1>3 DEF LocksInv, shared, InCall, Inside, OnWorker
<1>5. OnceInv'
  BY <1>0, <1>1, <1>3 DEF OnceInv, Attached, shared
<1>6. SectionInv'
  <2>1. {c} \in SUBSET Client /\ {} \in SUBSET Worker
    OBVIOUS
  <2>2. UNCHANGED <<group, task_queues, events, plock, qlock>>
    BY <1>1 DEF shared
  <2>3. \A d \in {c} : pc'[d] \notin Inside /\ pc'[d] # "set_elements"
    BY <1>2
  <2>. QED
    BY <1>3, <2>1, <2>2, <2>3, OthersKeep
<1>. QED
  BY <1>1, <1>4, <1>5, <1>6 DEF MapsInv

-----------------------------------------------------------------------------
LEMMA NoArguments == NoArg \in Arguments /\ NoArg.w = None /\ NoArg.todo = <<>>
BY DEF NoArg, Arguments

(* A step of the call of one client, from its parts.                       *)
LEMMA ClientShape ==
  ASSUME ShapeInv, NEW c \in Client,
         pc' = [pc EXCEPT ![c] = pc'[c]],
         arg' = [arg EXCEPT ![c] = arg'[c]],
         pc'[c] \in ClientLabels, arg'[c] \in Arguments,
         pc'[c] \in OnWorker => arg'[c].w \in Worker,
         pc'[c] \in OnQueue => arg'[c].q \in Queue,
         pc'[c] \in {"attach_event", "detach_element", "clear_element"}
           => Len(arg'[c].todo) = 1,
         group' \in [Worker -> GroupType],
         task_queues' \in [Worker -> [Element -> Queue \cup {None}]],
         events' \in [Queue -> Seq(Worker \X Element)],
         plock' \in [Worker -> Client \cup {Nobody}],
         qlock' \in [Queue -> Client \cup {Nobody}]
  PROVE  ShapeInv' /\ \A d \in Client \ {c} : pc'[d] = pc[d] /\ arg'[d] = arg[d]
<1>1. \A d \in Client \ {c} : pc'[d] = pc[d] /\ arg'[d] = arg[d]
  BY DEF ShapeInv
<1>2. pc' \in [Worker \cup Client -> WorkerLabels \cup ClientLabels] /\ arg' \in [Client -> Arguments]
  BY DEF ShapeInv
<1>3. ASSUME NEW d \in Client
      PROVE  /\ pc'[d] \in ClientLabels
             /\ pc'[d] \in OnWorker => arg'[d].w \in Worker
             /\ pc'[d] \in OnQueue => arg'[d].q \in Queue
             /\ pc'[d] \in {"attach_event", "detach_element", "clear_element"}
                  => Len(arg'[d].todo) = 1
  <2>1. CASE d = c
    BY <2>1
  <2>2. CASE d # c
    BY <1>1, <2>2 DEF ShapeInv
  <2>. QED
    BY <2>1, <2>2
<1>. QED
  BY <1>1, <1>2, <1>3 DEF ShapeInv

LEMMA ControlKeepsMaps ==
  ASSUME MapsInv, NEW c \in Client,
         Pause(c) \/ Continue(c) \/ StopRunning(c) \/ Wake(c) \/ Join(c)
  PROVE  MapsInv'
<1>0. ShapeInv /\ LocksInv /\ OnceInv /\ SectionInv
  BY DEF MapsInv
<1>1. /\ pc' = [pc EXCEPT ![c] = pc'[c]]
      /\ arg' = [arg EXCEPT ![c] = arg'[c]]
      /\ pc[c] \in OnWorker \ (Inside \cup {"attach"})
      /\ \/ pc'[c] \in {"wake", "stop_running", "clear"} /\ arg'[c] = arg[c]
         \/ pc'[c] = "idle" /\ arg'[c] = NoArg
  BY <1>0 DEF Pause, Continue, StopRunning, Wake, Join, Goto, Return, shared, OnWorker, Inside,
              ClientLabels, ShapeInv
<1>2. UNCHANGED <<group, task_queues, events, plock, qlock>>
  BY DEF Pause, Continue, StopRunning, Wake, Join, shared
<1>3. /\ arg[c] \in Arguments /\ arg[c].w \in Worker
      /\ group \in [Worker -> GroupType]
      /\ task_queues \in [Worker -> [Element -> Queue \cup {None}]]
      /\ events \in [Queue -> Seq(Worker \X Element)]
      /\ plock \in [Worker -> Client \cup {Nobody}]
      /\ qlock \in [Queue -> Client \cup {Nobody}]
  BY <1>0, <1>1 DEF ShapeInv
<1>4. /\ arg'[c] \in Arguments /\ pc'[c] \in ClientLabels
      /\ pc'[c] \in OnWorker => arg'[c].w = arg[c].w
      /\ pc'[c] \notin OnQueue \cup Inside
  BY <1>1, <1>3, NoArguments DEF OnWorker, ClientLabels, OnQueue, Inside
<1>5. ShapeInv' /\ \A d \in Client \ {c} : pc'[d] = pc[d] /\ arg'[d] = arg[d]
  <2>1. pc'[c] \notin {"attach_event", "detach_element", "clear_element"}
    BY <1>4 DEF Inside
  <2>. QED
    BY <1>0, <1>1, <1>2, <1>3, <1>4, <2>1, ClientShape
<1>6. LocksInv'
  <2>1. pc[c] \notin Inside /\ pc[c] # "set_elements" /\ pc'[c] # "set_elements" /\ pc[c] \in OnWorker
    BY <1>1, <1>4 DEF OnWorker, OnQueue
  <2>. QED
    BY <1>0, <1>2, <1>4, <1>5, <2>1 DEF LocksInv
<1>7. OnceInv'
  BY <1>0, <1>1, <1>2, <1>4, <1>5 DEF OnceInv, Attached, OnQueue
<1>8. SectionInv'
  <2>1. {c} \in SUBSET Client /\ {} \in SUBSET Worker
    OBVIOUS
  <2>2. \A d \in {c} : pc'[d] \notin Inside /\ pc'[d] # "set_elements"
    BY <1>4 DEF OnQueue
  <2>. QED
    BY <1>2, <1>5, <2>1, <2>2, OthersKeep
<1>. QED
  BY <1>5, <1>6, <1>7, <1>8 DEF MapsInv

LEMMA AddTaskKeepsMaps == ASSUME MapsInv, NEW c \in Client, AddTask(c) PROVE MapsInv'
<1>0. ShapeInv /\ LocksInv /\ OnceInv /\ SectionInv
  BY DEF MapsInv
<1>1. PICK q \in Queue : q = arg[c].q
  BY <1>0 DEF AddTask, ShapeInv, OnQueue
<1>2. /\ pc[c] = "add" /\ qlock[q] = Nobody
      /\ pc' = [pc EXCEPT ![c] = pc'[c]]
      /\ arg' = [arg EXCEPT ![c] = arg'[c]]
      /\ \/ /\ pc'[c] = "set_elements" /\ qlock' = [qlock EXCEPT ![q] = c]
            /\ arg'[c] = [arg[c] EXCEPT !.todo = events[q], !.k = NoTask]
         \/ pc'[c] = "idle" /\ arg'[c] = NoArg /\ qlock' = qlock
  BY <1>0, <1>1 DEF AddTask, Goto, Return, ShapeInv
<1>3. UNCHANGED <<group, task_queues, events, plock>>
  BY DEF AddTask
<1>4. /\ arg[c] \in Arguments
      /\ group \in [Worker -> GroupType]
      /\ task_queues \in [Worker -> [Element -> Queue \cup {None}]]
      /\ events \in [Queue -> Seq(Worker \X Element)]
      /\ plock \in [Worker -> Client \cup {Nobody}]
      /\ qlock \in [Queue -> Client \cup {Nobody}]
  BY <1>0 DEF ShapeInv
<1>5. pc'[c] = "set_elements" => arg'[c].q = q /\ arg'[c].todo = events[q]
  BY <1>1, <1>2, <1>4 DEF Arguments
<1>6. arg'[c] \in Arguments
  BY <1>1, <1>2, <1>4, NoArguments DEF Arguments
<1>7. /\ pc'[c] \in ClientLabels
      /\ pc'[c] \in OnQueue => pc'[c] = "set_elements"
      /\ pc'[c] \notin OnWorker \cup Inside
      /\ pc[c] \notin OnWorker \cup Inside
  BY <1>2 DEF ClientLabels, OnQueue, OnWorker, Inside
<1>8. ShapeInv' /\ \A d \in Client \ {c} : pc'[d] = pc[d] /\ arg'[d] = arg[d]
  <2>1. pc'[c] \notin {"attach_event", "detach_element", "clear_element"}
    BY <1>7 DEF Inside
  <2>2. qlock' \in [Queue -> Client \cup {Nobody}]
    BY <1>2, <1>4
  <2>. QED
    BY <1>0, <1>2, <1>3, <1>4, <1>5, <1>6, <1>7, <2>1, <2>2, ClientShape
<1>9. LocksInv'
  <2>1. \A r \in Queue : qlock'[r] = IF r = q /\ pc'[c] = "set_elements" THEN c ELSE qlock[r]
    BY <1>0, <1>2 DEF ShapeInv
  <2>. QED
    BY <1>0, <1>2, <1>3, <1>5, <1>7, <1>8, <2>1, ProcessorAssumption DEF LocksInv
<1>10. OnceInv'
  BY <1>0, <1>2, <1>3, <1>8 DEF OnceInv, Attached
<1>11. SectionInv'
  <2>1. {c} \in SUBSET Client /\ {} \in SUBSET Worker
    OBVIOUS
  <2>2. \A d \in {c} : /\ pc'[d] \notin Inside
                       /\ pc'[d] = "set_elements" =>
                            ToSet(arg'[d].todo) \subseteq ToSet(events'[arg'[d].q])
    BY <1>3, <1>5, <1>7
  <2>. QED
    BY <1>3, <1>8, <2>1, <2>2, OthersKeep
<1>. QED
  BY <1>8, <1>9, <1>10, <1>11 DEF MapsInv

LEMMA SetNextKeepsMaps == ASSUME MapsInv, NEW c \in Client, SetNextElement(c) PROVE MapsInv'
<1>0. ShapeInv /\ LocksInv /\ OnceInv /\ SectionInv
  BY DEF MapsInv
<1>1. /\ arg[c] \in Arguments /\ arg[c].q \in Queue /\ arg[c].todo \in Seq(Worker \X Element)
      /\ group \in [Worker -> GroupType]
      /\ task_queues \in [Worker -> [Element -> Queue \cup {None}]]
      /\ events \in [Queue -> Seq(Worker \X Element)]
      /\ plock \in [Worker -> Client \cup {Nobody}]
      /\ qlock \in [Queue -> Client \cup {Nobody}]
  BY <1>0 DEF ShapeInv, SetNextElement, OnQueue, Arguments
<1>2. /\ pc[c] = "set_elements" /\ arg[c].todo # <<>>
      /\ arg' = [arg EXCEPT ![c] = [arg[c] EXCEPT !.todo = Tail(@)]]
      /\ UNCHANGED <<pc, task_queues, events, plock, qlock>>
  BY DEF SetNextElement
<1>3. group' \in [Worker -> GroupType]
      /\ \A v \in Worker : group'[v].elements = group[v].elements
  <2>1. PICK w, e : group' = [group EXCEPT ![w] = GroupSet(@, e)]
    BY DEF SetNextElement
  <2>. QED
    BY <1>1, <2>1, FlagChanged
<1>4. /\ arg'[c] = [arg[c] EXCEPT !.todo = Tail(arg[c].todo)]
      /\ pc'[c] = "set_elements"
  BY <1>0, <1>2 DEF ShapeInv
<1>5. Tail(arg[c].todo) \in Seq(Worker \X Element)
      /\ ToSet(Tail(arg[c].todo)) \subseteq ToSet(arg[c].todo)
  BY <1>1, <1>2, Rest
<1>6. /\ arg'[c] \in Arguments /\ arg'[c].q = arg[c].q /\ arg'[c].w = arg[c].w
      /\ arg'[c].todo = Tail(arg[c].todo)
  BY <1>1, <1>4, <1>5 DEF Arguments
<1>7. /\ pc' = [pc EXCEPT ![c] = pc'[c]] /\ arg' = [arg EXCEPT ![c] = arg'[c]]
      /\ pc'[c] \in ClientLabels /\ pc'[c] \notin OnWorker \cup Inside
  BY <1>0, <1>2, <1>4 DEF ShapeInv, ClientLabels, OnWorker, Inside
<1>8. ShapeInv' /\ \A d \in Client \ {c} : pc'[d] = pc[d] /\ arg'[d] = arg[d]
  <2>1. pc'[c] \notin {"attach_event", "detach_element", "clear_element"}
    BY <1>4
  <2>. QED
    BY <1>0, <1>1, <1>2, <1>3, <1>6, <1>7, <2>1, ClientShape
<1>9. LocksInv'
  BY <1>0, <1>2, <1>4, <1>6, <1>8 DEF LocksInv
<1>10. OnceInv'
  BY <1>0, <1>2, <1>3, <1>4, <1>8 DEF OnceInv, Attached
<1>11. SectionInv'
  <2>1. {c} \in SUBSET Client /\ {} \in SUBSET Worker
    OBVIOUS
  <2>2. ToSet(arg[c].todo) \subseteq ToSet(events[arg[c].q])
    BY <1>0, <1>2 DEF SectionInv
  <2>3. \A d \in {c} : /\ pc'[d] \notin Inside
                       /\ ToSet(arg'[d].todo) \subseteq ToSet(events'[arg'[d].q])
    BY <1>2, <1>5, <1>6, <1>7, <2>2
  <2>4. \A v \in Worker : Present(group'[v]) = Present(group[v])
    BY <1>3 DEF Present
  <2>5. UNCHANGED <<task_queues, events, plock, qlock>>
    BY <1>2
  <2>. QED
    BY <1>8, <2>1, <2>3, <2>4, <2>5, OthersKeep
<1>. QED
  BY <1>8, <1>9, <1>10, <1>11 DEF MapsInv

LEMMA AllSetKeepsMaps == ASSUME MapsInv, NEW c \in Client, AllElementsSet(c) PROVE MapsInv'
<1>0. ShapeInv /\ LocksInv /\ OnceInv /\ SectionInv
  BY DEF MapsInv
<1>1. PICK q \in Queue : q = arg[c].q
  BY <1>0 DEF AllElementsSet, ShapeInv, OnQueue
<1>2. /\ pc[c] = "set_elements"
      /\ pc' = [pc EXCEPT ![c] = "idle"] /\ arg' = [arg EXCEPT ![c] = NoArg]
      /\ qlock' = [qlock EXCEPT ![q] = Nobody]
      /\ UNCHANGED <<group, task_queues, events, plock>>
  BY <1>1 DEF AllElementsSet, Return, Goto
<1>3. /\ group \in [Worker -> GroupType]
      /\ task_queues \in [Worker -> [Element -> Queue \cup {None}]]
      /\ events \in [Queue -> Seq(Worker \X Element)]
      /\ plock \in [Worker -> Client \cup {Nobody}]
      /\ qlock \in [Queue -> Client \cup {Nobody}]
      /\ pc'[c] = "idle" /\ arg'[c] = NoArg
  BY <1>0, <1>2 DEF ShapeInv
<1>4. ShapeInv' /\ \A d \in Client \ {c} : pc'[d] = pc[d] /\ arg'[d] = arg[d]
  <2>1. /\ pc'[c] \in ClientLabels /\ pc'[c] \notin OnWorker /\ pc'[c] \notin OnQueue
        /\ pc'[c] \notin {"attach_event", "detach_element", "clear_element"}
        /\ arg'[c] \in Arguments
        /\ qlock' \in [Queue -> Client \cup {Nobody}]
        /\ pc' = [pc EXCEPT ![c] = pc'[c]] /\ arg' = [arg EXCEPT ![c] = arg'[c]]
    BY <1>2, <1>3, NoArguments DEF ClientLabels, OnWorker, OnQueue
  <2>. QED
    BY <1>0, <1>2, <1>3, <2>1, ClientShape
<1>5. LocksInv'
  <2>1. \A r \in Queue : qlock'[r] = IF r = q THEN Nobody ELSE qlock[r]
    BY <1>2, <1>3
  <2>2. pc[c] \notin Inside /\ pc'[c] \notin Inside /\ pc'[c] \notin OnWorker
    BY <1>2, <1>3 DEF Inside, OnWorker
  <2>. QED
    BY <1>0, <1>1, <1>2, <1>3, <1>4, <2>1, <2>2, ProcessorAssumption DEF LocksInv
<1>6. OnceInv'
  BY <1>0, <1>2, <1>3, <1>4 DEF OnceInv, Attached
<1>7. SectionInv'
  <2>1. {c} \in SUBSET Client /\ {} \in SUBSET Worker
    OBVIOUS
  <2>2. \A d \in {c} : pc'[d] \notin Inside /\ pc'[d] # "set_elements"
    BY <1>3 DEF Inside
  <2>3. UNCHANGED <<group, task_queues, events, plock>>
    BY <1>2
  <2>. QED
    BY <1>4, <2>1, <2>2, <2>3, OthersKeep
<1>. QED
  BY <1>4, <1>5, <1>6, <1>7 DEF MapsInv

-----------------------------------------------------------------------------
LEMMA OthersKeepOne ==
  ASSUME MapsInv, NEW c \in Client, NEW w \in Worker,
         \A d \in Client \ {c} : /\ pc'[d] = pc[d] /\ arg'[d] = arg[d]
                                 /\ pc[d] \in Inside => arg[d].w # w,
         \A v \in Worker \ {w} : /\ Present(group'[v]) = Present(group[v])
                                 /\ task_queues'[v] = task_queues[v]
                                 /\ Names(events', v) = Names(events, v)
                                 /\ plock'[v] = plock[v],
         \A q \in Queue : qlock[q] # Nobody => events'[q] = events[q],
         plock'[w] = Nobody =>
           Whole(Present(group'[w]), task_queues'[w], Names(events', w)),
         pc'[c] \in Inside =>
           Section(pc'[c], Present(group'[arg'[c].w]), task_queues'[arg'[c].w],
                   Names(events', arg'[c].w), arg'[c].q, arg'[c].todo[1][2]),
         pc'[c] # "set_elements"
  PROVE  SectionInv'
<1>1. {c} \in SUBSET Client /\ {w} \in SUBSET Worker
  OBVIOUS
<1>2. \A d \in Client \ {c} : /\ pc'[d] = pc[d] /\ arg'[d] = arg[d]
                              /\ pc[d] \in Inside => arg[d].w \notin {w}
  OBVIOUS
<1>3. \A v \in {w} : plock'[v] = Nobody =>
        Whole(Present(group'[v]), task_queues'[v], Names(events', v))
  OBVIOUS
<1>4. \A d \in {c} : pc'[d] \in Inside =>
        Section(pc'[d], Present(group'[arg'[d].w]), task_queues'[arg'[d].w],
                Names(events', arg'[d].w), arg'[d].q, arg'[d].todo[1][2])
  OBVIOUS
<1>5. \A d \in {c} : pc'[d] = "set_elements" =>
        ToSet(arg'[d].todo) \subseteq ToSet(events'[arg'[d].q])
  OBVIOUS
<1> DEFINE C == {c}
           W == {w}
<1>6. /\ C \in SUBSET Client /\ W \in SUBSET Worker
      /\ \A d \in Client \ C : /\ pc'[d] = pc[d] /\ arg'[d] = arg[d]
                               /\ pc[d] \in Inside => arg[d].w \notin W
      /\ \A v \in Worker \ W : /\ Present(group'[v]) = Present(group[v])
                               /\ task_queues'[v] = task_queues[v]
                               /\ Names(events', v) = Names(events, v)
                               /\ plock'[v] = plock[v]
      /\ \A v \in W : plock'[v] = Nobody =>
           Whole(Present(group'[v]), task_queues'[v], Names(events', v))
      /\ \A d \in C : pc'[d] \in Inside =>
           Section(pc'[d], Present(group'[arg'[d].w]), task_queues'[arg'[d].w],
                Names(events', arg'[d].w), arg'[d].q, arg'[d].todo[1][2])
      /\ \A d \in C : pc'[d] = "set_elements" =>
           ToSet(arg'[d].todo) \subseteq ToSet(events'[arg'[d].q])
  BY <1>1, <1>2, <1>3, <1>4, <1>5
<1> HIDE DEF C, W
<1>. QED
  BY <1>6, OthersKeep

(* A step of a call that works on processor w: what has to be known of it. *)
OneToOne(m) == \A e, f \in Element : m[e] = m[f] /\ m[e] # None => e = f

LEMMA ProcessorStep ==
  ASSUME MapsInv, NEW c \in Client, NEW w \in Worker, arg[c].w = w, pc[c] \in OnWorker,
         pc' = [pc EXCEPT ![c] = pc'[c]],
         arg' = [arg EXCEPT ![c] = arg'[c]],
         pc'[c] \in {"idle", "join"} \cup Inside,
         arg'[c] \in Arguments,
         pc'[c] # "idle" => arg'[c].w = w,
         pc'[c] \in {"attach_event", "detach_event"} => arg'[c].q \in Queue,
         pc'[c] \in {"attach_event", "detach_element", "clear_element"}
           => Len(arg'[c].todo) = 1,
         qlock' = qlock,
         plock' = [plock EXCEPT ![w] = IF pc'[c] \in Inside THEN c ELSE Nobody],
         group' = [group EXCEPT ![w] = group'[w]],
         task_queues' = [task_queues EXCEPT ![w] = task_queues'[w]],
         group'[w] \in GroupType,
         IsInjective(group'[w].elements),
         task_queues'[w] \in [Element -> Queue \cup {None}],
         OneToOne(task_queues'[w]),
         events' \in [Queue -> Seq(Worker \X Element)],
         \A q \in Queue : IsInjective(events'[q]),
         \A q \in Queue : qlock[q] # Nobody => events'[q] = events[q],
         \A v \in Worker \ {w} : Names(events', v) = Names(events, v),
         pc'[c] \notin Inside => Whole(Present(group'[w]), task_queues'[w], Names(events', w)),
         pc'[c] \in Inside =>
           Section(pc'[c], Present(group'[w]), task_queues'[w], Names(events', w),
                   arg'[c].q, arg'[c].todo[1][2])
  PROVE  MapsInv'
<1>0. ShapeInv /\ LocksInv /\ OnceInv /\ SectionInv
  BY DEF MapsInv
<1>1. /\ group \in [Worker -> GroupType]
      /\ task_queues \in [Worker -> [Element -> Queue \cup {None}]]
      /\ plock \in [Worker -> Client \cup {Nobody}]
      /\ qlock \in [Queue -> Client \cup {Nobody}]
  BY <1>0 DEF ShapeInv
<1>2. /\ group' \in [Worker -> GroupType]
      /\ task_queues' \in [Worker -> [Element -> Queue \cup {None}]]
      /\ plock' \in [Worker -> Client \cup {Nobody}]
      /\ plock'[w] = IF pc'[c] \in Inside THEN c ELSE Nobody
      /\ \A v \in Worker \ {w} : /\ group'[v] = group[v] /\ task_queues'[v] = task_queues[v]
                                 /\ plock'[v] = plock[v]
  BY <1>1
<1>3. /\ pc'[c] \in ClientLabels /\ pc'[c] \notin {"attach", "add", "set_elements"}
      /\ pc'[c] \in OnWorker => pc'[c] # "idle"
      /\ pc'[c] \in OnQueue => pc'[c] \in {"attach_event", "detach_event"}
      /\ pc[c] # "set_elements"
  BY DEF ClientLabels, Inside, OnWorker, OnQueue
<1>4. ShapeInv' /\ \A d \in Client \ {c} : pc'[d] = pc[d] /\ arg'[d] = arg[d]
  <2>1. /\ pc'[c] \in OnWorker => arg'[c].w \in Worker
        /\ pc'[c] \in OnQueue => arg'[c].q \in Queue
    BY <1>3
  <2>. QED
    BY <1>0, <1>1, <1>2, <1>3, <2>1, ClientShape
<1>5. \A d \in Client \ {c} : pc[d] \in OnWorker => arg[d].w # w
  BY <1>0 DEF LocksInv
<1>6. Inside \subseteq OnWorker
  BY DEF Inside, OnWorker, ClientLabels
<1>7. LocksInv'
  <2>1. ASSUME NEW v \in Worker, NEW d \in Client
        PROVE  plock'[v] = d <=> pc'[d] \in Inside /\ arg'[d].w = v
    <3>1. CASE d = c
      <4>1. CASE v = w
        BY <1>2, <1>3, <1>6, <3>1, <4>1, ProcessorAssumption
      <4>2. CASE v # w
        BY <1>0, <1>2, <1>3, <1>6, <3>1, <4>2 DEF LocksInv
      <4>. QED
        BY <4>1, <4>2
    <3>2. CASE d # c
      BY <1>0, <1>2, <1>4, <1>5, <1>6, <3>2, ProcessorAssumption DEF LocksInv
    <3>. QED
      BY <3>1, <3>2
  <2>2. ASSUME NEW q \in Queue, NEW d \in Client
        PROVE  qlock'[q] = d <=> pc'[d] = "set_elements" /\ arg'[d].q = q
    BY <1>0, <1>3, <1>4 DEF LocksInv
  <2>3. ASSUME NEW d \in Client, NEW b \in Client, pc'[d] \in OnWorker, pc'[b] \in OnWorker,
               arg'[d].w = arg'[b].w
        PROVE  d = b
    <3>1. CASE d # c /\ b # c
      BY <1>0, <1>4, <2>3, <3>1 DEF LocksInv
    <3>2. CASE d = c \/ b = c
      BY <1>3, <1>4, <1>5, <2>3, <3>2
    <3>. QED
      BY <3>1, <3>2
  <2>. QED
    BY <2>1, <2>2, <2>3 DEF LocksInv
<1>8. OnceInv'
  <2>1. \A v \in Worker : IsInjective(group'[v].elements) /\ OneToOne(task_queues'[v])
    BY <1>0, <1>2 DEF OnceInv, OneToOne
  <2>2. ASSUME NEW d \in Client, pc'[d] = "attach" PROVE ~Attached(arg[d].w, arg[d].q)'
    <3>1. d # c
      BY <1>3, <2>2
    <3>2. pc[d] = "attach" /\ arg'[d] = arg[d] /\ arg[d].w \in Worker
      BY <1>0, <1>4, <2>2, <3>1 DEF ShapeInv, OnWorker, ClientLabels
    <3>3. arg[d].w # w
      BY <1>5, <3>1, <3>2 DEF OnWorker, ClientLabels
    <3>. QED
      BY <1>0, <1>2, <3>2, <3>3 DEF OnceInv, Attached
  <2>. QED
    BY <2>1, <2>2 DEF OnceInv, OneToOne
<1>9. SectionInv'
  <2>1. \A d \in Client \ {c} : /\ pc'[d] = pc[d] /\ arg'[d] = arg[d]
                                /\ pc[d] \in Inside => arg[d].w # w
    BY <1>4, <1>5, <1>6
  <2>2. \A v \in Worker \ {w} : /\ Present(group'[v]) = Present(group[v])
                                /\ task_queues'[v] = task_queues[v]
                                /\ Names(events', v) = Names(events, v)
                                /\ plock'[v] = plock[v]
    BY <1>2
  <2>3. plock'[w] = Nobody => Whole(Present(group'[w]), task_queues'[w], Names(events', w))
    BY <1>2, ProcessorAssumption
  <2>4. pc'[c] \in Inside =>
           Section(pc'[c], Present(group'[arg'[c].w]), task_queues'[arg'[c].w],
                   Names(events', arg'[c].w), arg'[c].q, arg'[c].todo[1][2])
    BY <1>3, <1>6
  <2>. QED
    BY <1>3, <2>1, <2>2, <2>3, <2>4, OthersKeepOne
<1>. QED
  BY <1>4, <1>7, <1>8, <1>9 DEF MapsInv

Lists == [Queue -> Seq(Worker \X Element)]

LEMMA Named ==
  ASSUME NEW ev \in Lists, NEW w \in Worker, NEW q \in Queue, NEW e \in Element
  PROVE  e \in Names(ev, w)[q] <=> <<w, e>> \in ToSet(ev[q])
BY DEF Names

Put(ev, q, s) == [ev EXCEPT ![q] = s]

LEMMA NameAdded ==
  ASSUME NEW ev \in Lists, NEW q \in Queue, NEW w \in Worker, NEW e \in Element,
         <<w, e>> \notin ToSet(ev[q]), IsInjective(ev[q])
  PROVE  LET ex == Put(ev, q, Append(ev[q], <<w, e>>)) IN
         /\ ex \in Lists
         /\ IsInjective(ex[q]) /\ \A r \in Queue \ {q} : ex[r] = ev[r]
         /\ \A r \in Queue : Names(ex, w)[r] = IF r = q THEN Names(ev, w)[q] \cup {e}
                                                        ELSE Names(ev, w)[r]
         /\ \A v \in Worker \ {w} : Names(ex, v) = Names(ev, v)
<1> DEFINE s == Append(ev[q], <<w, e>>)
           ex == Put(ev, q, s)
<1>1. /\ s \in Seq(Worker \X Element) /\ IsInjective(s)
      /\ ToSet(s) = ToSet(ev[q]) \cup {<<w, e>>}
  <2>1. ev[q] \in Seq(Worker \X Element) /\ <<w, e>> \in Worker \X Element
    BY DEF Lists
  <2>. QED
    BY <2>1, Appended
<1> HIDE DEF s
<1>2. ex \in Lists /\ \A r \in Queue : ex[r] = IF r = q THEN s ELSE ev[r]
  BY <1>1 DEF Lists, Put
<1> HIDE DEF ex
<1>3. \A v \in Worker, r \in Queue : Names(ex, v)[r] =
        IF r = q /\ v = w THEN Names(ev, w)[q] \cup {e} ELSE Names(ev, v)[r]
  BY <1>1, <1>2 DEF Names
<1>4. \A v \in Worker \ {w} : Names(ex, v) = Names(ev, v)
  BY <1>3 DEF Names
<1>. QED
  BY <1>1, <1>2, <1>3, <1>4 DEF ex, s

Cut(n, q, e) == [n EXCEPT ![q] = @ \ {e}]

LEMMA NameRemoved ==
  ASSUME NEW ev \in Lists, NEW q \in Queue, NEW w \in Worker, NEW e \in Element,
         NEW s \in Seq(Worker \X Element), ToSet(s) = ToSet(ev[q]) \ {<<w, e>>}
  PROVE  LET ex == Put(ev, q, s) IN
         /\ ex \in Lists
         /\ ex[q] = s /\ \A r \in Queue \ {q} : ex[r] = ev[r]
         /\ Names(ex, w) = Cut(Names(ev, w), q, e)
         /\ \A v \in Worker \ {w} : Names(ex, v) = Names(ev, v)
<1> DEFINE ex == Put(ev, q, s)
<1>1. ex \in Lists /\ \A r \in Queue : ex[r] = IF r = q THEN s ELSE ev[r]
  BY DEF Lists, Put
<1> HIDE DEF ex
<1>2. \A v \in Worker, r \in Queue : Names(ex, v)[r] =
        IF r = q /\ v = w THEN Names(ev, w)[q] \ {e} ELSE Names(ev, v)[r]
  BY <1>1 DEF Names
<1>3. \A v \in Worker \ {w} : Names(ex, v) = Names(ev, v)
  BY <1>2 DEF Names
<1>4. Names(ex, w) = Cut(Names(ev, w), q, e)
  BY <1>2 DEF Names, Cut
<1>. QED
  BY <1>1, <1>2, <1>3, <1>4 DEF ex

(* What is known where a call on a processor is about to take a step.      *)
LEMMA CallFacts ==
  ASSUME MapsInv, NEW c \in Client, pc[c] \in OnWorker
  PROVE  /\ arg[c] \in Arguments /\ arg[c].w \in Worker
         /\ pc[c] \in OnQueue => arg[c].q \in Queue
         /\ group \in [Worker -> GroupType] /\ IsInjective(group[arg[c].w].elements)
         /\ task_queues \in [Worker -> [Element -> Queue \cup {None}]]
         /\ OneToOne(task_queues[arg[c].w])
         /\ events \in Lists /\ \A q \in Queue : IsInjective(events[q])
         /\ plock \in [Worker -> Client \cup {Nobody}]
         /\ pc \in [Worker \cup Client -> WorkerLabels \cup ClientLabels]
         /\ arg \in [Client -> Arguments]
         /\ pc[c] \in Inside =>
              /\ plock[arg[c].w] = c
              /\ Section(pc[c], Present(group[arg[c].w]), task_queues[arg[c].w],
                         Names(events, arg[c].w), arg[c].q, arg[c].todo[1][2])
         /\ plock[arg[c].w] = Nobody =>
              Whole(Present(group[arg[c].w]), task_queues[arg[c].w], Names(events, arg[c].w))
<1>1. ShapeInv /\ LocksInv /\ OnceInv /\ SectionInv
  BY DEF MapsInv
<1>2. arg[c].w \in Worker
  BY <1>1 DEF ShapeInv
<1>3. /\ arg[c] \in Arguments
      /\ pc[c] \in OnQueue => arg[c].q \in Queue
      /\ group \in [Worker -> GroupType]
      /\ task_queues \in [Worker -> [Element -> Queue \cup {None}]]
      /\ events \in Lists
      /\ plock \in [Worker -> Client \cup {Nobody}]
      /\ pc \in [Worker \cup Client -> WorkerLabels \cup ClientLabels]
      /\ arg \in [Client -> Arguments]
  BY <1>1 DEF ShapeInv, Lists
<1>4. /\ IsInjective(group[arg[c].w].elements)
      /\ OneToOne(task_queues[arg[c].w])
      /\ \A q \in Queue : IsInjective(events[q])
  BY <1>1, <1>2 DEF OnceInv, OneToOne
<1>5. pc[c] \in Inside =>
        /\ plock[arg[c].w] = c
        /\ Section(pc[c], Present(group[arg[c].w]), task_queues[arg[c].w],
                   Names(events, arg[c].w), arg[c].q, arg[c].todo[1][2])
  BY <1>1, <1>2 DEF LocksInv, SectionInv
<1>6. plock[arg[c].w] = Nobody =>
        Whole(Present(group[arg[c].w]), task_queues[arg[c].w], Names(events, arg[c].w))
  BY <1>1, <1>2 DEF SectionInv
<1>. QED
  BY <1>2, <1>3, <1>4, <1>5, <1>6

LEMMA AttachElementKeepsMaps == ASSUME MapsInv, NEW c \in Client, AttachElement(c) PROVE MapsInv'
<1>1. pc[c] = "attach" /\ pc[c] \in OnWorker /\ pc[c] \in OnQueue
  BY DEF AttachElement, OnWorker, OnQueue, ClientLabels
<1>2. PICK w \in Worker, q \in Queue : w = arg[c].w /\ q = arg[c].q
  BY <1>1, CallFacts
<1> DEFINE P == Present(group[w])
           m == task_queues[w]
           n == Names(events, w)
<1>3. /\ arg[c] \in Arguments /\ arg \in [Client -> Arguments]
      /\ group \in [Worker -> GroupType] /\ IsInjective(group[w].elements)
      /\ task_queues \in [Worker -> [Element -> Queue \cup {None}]] /\ OneToOne(m)
      /\ events \in Lists /\ \A r \in Queue : IsInjective(events[r])
      /\ plock \in [Worker -> Client \cup {Nobody}]
      /\ pc \in [Worker \cup Client -> WorkerLabels \cup ClientLabels]
  BY <1>1, <1>2, CallFacts
<1>4. plock[w] = Nobody /\ Whole(P, m, n) /\ UNCHANGED <<events, qlock>>
  BY <1>1, <1>2, CallFacts DEF AttachElement
<1>5. ~Attached(w, q)
  BY <1>1, <1>2 DEF MapsInv, OnceInv
<1>6. CASE UNCHANGED <<group, task_queues, plock>> /\ Return(c)
  <2>1. /\ pc'[c] = "idle" /\ arg'[c] = NoArg
        /\ pc' = [pc EXCEPT ![c] = pc'[c]] /\ arg' = [arg EXCEPT ![c] = arg'[c]]
    BY <1>3, <1>6 DEF Return, Goto
  <2>2. pc'[c] \notin Inside /\ arg'[c] \in Arguments
    BY <2>1, NoArguments DEF Inside
  <2>3. /\ plock' = [plock EXCEPT ![w] = IF pc'[c] \in Inside THEN c ELSE Nobody]
        /\ group' = [group EXCEPT ![w] = group'[w]]
        /\ task_queues' = [task_queues EXCEPT ![w] = task_queues'[w]]
    BY <1>3, <1>4, <1>6, <2>2
  <2>. QED
    BY <1>1, <1>2, <1>3, <1>4, <1>6, <2>1, <2>2, <2>3, ProcessorStep DEF Lists
<1>7. CASE \E e \in Element \ P :
             /\ plock' = [plock EXCEPT ![w] = c]
             /\ group' = [group EXCEPT ![w] = GroupAdd(@, e)]
             /\ task_queues' = [task_queues EXCEPT ![w][e] = q]
             /\ arg' = [arg EXCEPT ![c].todo = <<<<w, e>>>>]
             /\ Goto(c, "attach_event")
  <2>1. PICK e \in Element \ P :
          /\ plock' = [plock EXCEPT ![w] = c]
          /\ group' = [group EXCEPT ![w] = GroupAdd(@, e)]
          /\ task_queues' = [task_queues EXCEPT ![w][e] = q]
          /\ arg' = [arg EXCEPT ![c].todo = <<<<w, e>>>>]
          /\ pc' = [pc EXCEPT ![c] = "attach_event"]
    BY <1>7 DEF Goto
  <2>2. /\ pc'[c] = "attach_event"
        /\ arg'[c] = [arg[c] EXCEPT !.todo = <<<<w, e>>>>]
        /\ group'[w] = GroupAdd(group[w], e)
        /\ task_queues'[w] = [m EXCEPT ![e] = q]
        /\ pc' = [pc EXCEPT ![c] = pc'[c]] /\ arg' = [arg EXCEPT ![c] = arg'[c]]
        /\ group' = [group EXCEPT ![w] = group'[w]]
        /\ task_queues' = [task_queues EXCEPT ![w] = task_queues'[w]]
    BY <1>3, <2>1
  <2>3. <<<<w, e>>>> \in Seq(Worker \X Element) /\ Len(<<<<w, e>>>>) = 1
        /\ <<<<w, e>>>>[1][2] = e
    OBVIOUS
  <2>4. /\ arg'[c] \in Arguments /\ arg'[c].w = w /\ arg'[c].q = q
        /\ arg'[c].todo[1][2] = e /\ Len(arg'[c].todo) = 1
    BY <1>2, <1>3, <2>2, <2>3 DEF Arguments
  <2>5. /\ group'[w] \in GroupType /\ IsInjective(group'[w].elements)
        /\ Present(group'[w]) = P \cup {e}
    BY <1>3, <2>2, ElementAdded
  <2>6. /\ m \in [Element -> Queue \cup {None}]
        /\ task_queues'[w] \in [Element -> Queue \cup {None}]
        /\ \A f \in Element : task_queues'[w][f] = IF f = e THEN q ELSE m[f]
    BY <1>3, <2>2
  <2>7. \A f \in Element : m[f] # q
    BY <1>5 DEF Attached
  <2>8. OneToOne(task_queues'[w])
    BY <1>3, <2>6, <2>7 DEF OneToOne
  <2>9. m[e] = None /\ \A r \in Queue : n[r] = Leading(m, r)
    BY <1>4 DEF Whole, Keys
  <2>10. Entering(Present(group'[w]), task_queues'[w], Names(events', w), arg'[c].q, e)
    BY <1>4, <2>4, <2>5, <2>6, <2>9, ProcessorAssumption DEF Whole, Entering, Keys, Leading
  <2>11. /\ pc'[c] \in Inside /\ pc'[c] # "idle"
         /\ plock' = [plock EXCEPT ![w] = IF pc'[c] \in Inside THEN c ELSE Nobody]
         /\ Section(pc'[c], Present(group'[w]), task_queues'[w], Names(events', w),
                    arg'[c].q, arg'[c].todo[1][2])
    BY <2>1, <2>2, <2>4, <2>10 DEF Inside, Section
  <2>. QED
    BY <1>1, <1>2, <1>3, <1>4, <2>2, <2>4, <2>5, <2>6, <2>8, <2>11, ProcessorStep DEF Lists
<1>. QED
  BY <1>2, <1>6, <1>7 DEF AttachElement

LEMMA AttachEventKeepsMaps ==
  ASSUME MapsInv, NEW c \in Client, AttachEvent(c)
  PROVE  MapsInv'
<1>1. pc[c] = "attach_event" /\ pc[c] \in OnWorker /\ pc[c] \in OnQueue /\ pc[c] \in Inside
  BY DEF AttachEvent, OnWorker, OnQueue, Inside, ClientLabels
<1>2. PICK w \in Worker, q \in Queue : w = arg[c].w /\ q = arg[c].q
  BY <1>1, CallFacts
<1> DEFINE P == Present(group[w])
           m == task_queues[w]
           n == Names(events, w)
<1>3. /\ arg[c] \in Arguments /\ arg \in [Client -> Arguments]
      /\ group \in [Worker -> GroupType] /\ IsInjective(group[w].elements)
      /\ task_queues \in [Worker -> [Element -> Queue \cup {None}]] /\ OneToOne(m)
      /\ m \in [Element -> Queue \cup {None}]
      /\ events \in Lists /\ \A r \in Queue : IsInjective(events[r])
      /\ plock \in [Worker -> Client \cup {Nobody}]
      /\ pc \in [Worker \cup Client -> WorkerLabels \cup ClientLabels]
  BY <1>1, <1>2, CallFacts
<1>4. PICK e \in Element : e = arg[c].todo[1][2] /\ Entering(P, m, n, q, e)
  <2>1. Section(pc[c], P, m, n, q, arg[c].todo[1][2])
    BY <1>1, <1>2, CallFacts
  <2>2. Entering(P, m, n, q, arg[c].todo[1][2])
    BY <1>1, <2>1 DEF Section
  <2>. QED
    BY <2>2 DEF Entering
<1>5. /\ UNCHANGED qlock /\ qlock[q] = Nobody
      /\ plock' = [plock EXCEPT ![w] = Nobody] /\ Return(c)
      /\ \/ /\ events' = [events EXCEPT ![q] = Append(events[q], <<w, e>>)]
            /\ UNCHANGED <<group, task_queues>>
         \/ /\ task_queues' = [task_queues EXCEPT ![w][e] = None]
            /\ group' = [group EXCEPT ![w] = GroupRemove(group[w], e)]
            /\ UNCHANGED events
  BY <1>2, <1>4 DEF AttachEvent
<1>6. /\ pc'[c] = "idle" /\ arg'[c] = NoArg
      /\ pc' = [pc EXCEPT ![c] = pc'[c]] /\ arg' = [arg EXCEPT ![c] = arg'[c]]
  BY <1>3, <1>5 DEF Return, Goto
<1>7. /\ pc'[c] \notin Inside /\ arg'[c] \in Arguments
      /\ plock' = [plock EXCEPT ![w] = IF pc'[c] \in Inside THEN c ELSE Nobody]
  BY <1>5, <1>6, NoArguments DEF Inside
<1>8. P = Keys(m) /\ m[e] = q /\ \A r \in Queue : n[r] = Leading(m, r) \ {e}
  BY <1>4 DEF Entering
<1>9. CASE /\ events' = [events EXCEPT ![q] = Append(events[q], <<w, e>>)]
           /\ UNCHANGED <<group, task_queues>>
  <2>1. <<w, e>> \notin ToSet(events[q])
    BY <1>3, <1>8, Named
  <2>2. IsInjective(events[q]) /\ events \in Lists
    BY <1>3
  <2>3. events' = Put(events, q, Append(events[q], <<w, e>>))
    BY <1>9 DEF Put
  <2>4. /\ events' \in Lists
        /\ IsInjective(events'[q]) /\ \A r \in Queue \ {q} : events'[r] = events[r]
        /\ \A r \in Queue : Names(events', w)[r] = IF r = q THEN n[q] \cup {e} ELSE n[r]
        /\ \A v \in Worker \ {w} : Names(events', v) = Names(events, v)
    BY <2>1, <2>2, <2>3, NameAdded
  <2>5. /\ \A r \in Queue : IsInjective(events'[r])
        /\ \A r \in Queue : qlock[r] # Nobody => events'[r] = events[r]
    BY <1>3, <1>5, <2>4
  <2>6. Whole(P, m, Names(events', w))
    BY <1>8, <2>4 DEF Whole, Leading
  <2>7. /\ group' = [group EXCEPT ![w] = group'[w]] /\ group'[w] = group[w]
        /\ task_queues' = [task_queues EXCEPT ![w] = task_queues'[w]] /\ task_queues'[w] = m
    BY <1>3, <1>9
  <2>. QED
    BY <1>1, <1>2, <1>3, <1>5, <1>6, <1>7, <2>4, <2>5, <2>6, <2>7, ProcessorStep DEF Lists
<1>10. CASE /\ task_queues' = [task_queues EXCEPT ![w][e] = None]
            /\ group' = [group EXCEPT ![w] = GroupRemove(group[w], e)]
            /\ UNCHANGED events
  <2>1. e \in P
    BY <1>8, ProcessorAssumption DEF Keys
  <2>2. /\ group'[w] = GroupRemove(group[w], e) /\ task_queues'[w] = [m EXCEPT ![e] = None]
        /\ group' = [group EXCEPT ![w] = group'[w]]
        /\ task_queues' = [task_queues EXCEPT ![w] = task_queues'[w]]
    BY <1>3, <1>10
  <2>3. /\ group'[w] \in GroupType /\ IsInjective(group'[w].elements)
        /\ Present(group'[w]) = P \ {e}
    BY <1>3, <2>1, <2>2, ElementRemoved
  <2>4. /\ task_queues'[w] \in [Element -> Queue \cup {None}]
        /\ \A f \in Element : task_queues'[w][f] = IF f = e THEN None ELSE m[f]
    BY <1>3, <2>2
  <2>5. OneToOne(task_queues'[w])
    BY <1>3, <2>4 DEF OneToOne
  <2>6. Whole(Present(group'[w]), task_queues'[w], n)
    BY <1>8, <2>3, <2>4, ProcessorAssumption DEF Whole, Keys, Leading
  <2>. QED
    BY <1>1, <1>2, <1>3, <1>5, <1>6, <1>7, <1>10, <2>2, <2>3, <2>4, <2>5, <2>6, ProcessorStep
    DEF Lists
<1>. QED
  BY <1>5, <1>9, <1>10

LEMMA DetachFromMapKeepsMaps ==
  ASSUME MapsInv, NEW c \in Client, DetachFromMap(c)
  PROVE  MapsInv'
<1>1. pc[c] = "detach" /\ pc[c] \in OnWorker /\ pc[c] \in OnQueue
  BY DEF DetachFromMap, OnWorker, OnQueue, Inside, ClientLabels
<1>2. PICK w \in Worker, q \in Queue : w = arg[c].w /\ q = arg[c].q
  BY <1>1, CallFacts
<1> DEFINE P == Present(group[w])
           m == task_queues[w]
           n == Names(events, w)
<1>3. /\ arg[c] \in Arguments /\ arg \in [Client -> Arguments]
      /\ group \in [Worker -> GroupType] /\ IsInjective(group[w].elements)
      /\ task_queues \in [Worker -> [Element -> Queue \cup {None}]] /\ OneToOne(m)
      /\ m \in [Element -> Queue \cup {None}]
      /\ events \in Lists /\ \A r \in Queue : IsInjective(events[r])
      /\ plock \in [Worker -> Client \cup {Nobody}]
      /\ pc \in [Worker \cup Client -> WorkerLabels \cup ClientLabels]
  BY <1>1, <1>2, CallFacts
<1>4. plock[w] = Nobody /\ Whole(P, m, n) /\ UNCHANGED <<group, events, qlock>>
  BY <1>1, <1>2, CallFacts DEF DetachFromMap
<1>5. group' = [group EXCEPT ![w] = group'[w]] /\ group'[w] = group[w]
  BY <1>3, <1>4
<1>6. CASE UNCHANGED <<task_queues, plock>> /\ Return(c)
  <2>1. /\ pc'[c] = "idle" /\ arg'[c] = NoArg
        /\ pc' = [pc EXCEPT ![c] = pc'[c]] /\ arg' = [arg EXCEPT ![c] = arg'[c]]
    BY <1>3, <1>6 DEF Return, Goto
  <2>2. pc'[c] \notin Inside /\ arg'[c] \in Arguments
    BY <2>1, NoArguments DEF Inside
  <2>3. /\ plock' = [plock EXCEPT ![w] = IF pc'[c] \in Inside THEN c ELSE Nobody]
        /\ task_queues' = [task_queues EXCEPT ![w] = task_queues'[w]]
    BY <1>3, <1>4, <1>6, <2>2
  <2>. QED
    BY <1>1, <1>2, <1>3, <1>4, <1>5, <1>6, <2>1, <2>2, <2>3, ProcessorStep DEF Lists
<1>7. CASE \E e \in Element :
             /\ m[e] = q
             /\ task_queues' = [task_queues EXCEPT ![w][e] = None]
             /\ plock' = [plock EXCEPT ![w] = c]
             /\ Goto(c, "detach_event")
             /\ UNCHANGED arg
  <2>1. PICK e \in Element :
          /\ m[e] = q
          /\ task_queues' = [task_queues EXCEPT ![w][e] = None]
          /\ plock' = [plock EXCEPT ![w] = c]
          /\ pc' = [pc EXCEPT ![c] = "detach_event"]
          /\ UNCHANGED arg
    BY <1>7 DEF Goto
  <2>2. /\ pc'[c] = "detach_event" /\ arg'[c] = arg[c]
        /\ task_queues'[w] = [m EXCEPT ![e] = None]
        /\ pc' = [pc EXCEPT ![c] = pc'[c]] /\ arg' = [arg EXCEPT ![c] = arg'[c]]
        /\ task_queues' = [task_queues EXCEPT ![w] = task_queues'[w]]
    BY <1>3, <2>1
  <2>3. /\ task_queues'[w] \in [Element -> Queue \cup {None}]
        /\ \A f \in Element : task_queues'[w][f] = IF f = e THEN None ELSE m[f]
    BY <1>3, <2>2
  <2>4. OneToOne(task_queues'[w])
    BY <1>3, <2>3 DEF OneToOne
  <2>5. \A f \in Element : m[f] = q => f = e
    BY <1>3, <2>1, ProcessorAssumption DEF OneToOne
  <2>6. P = Keys(m) /\ \A r \in Queue : n[r] = Leading(m, r)
    BY <1>4 DEF Whole
  <2>7. /\ n[q] = {e} /\ e \notin Keys(task_queues'[w])
        /\ Leading(task_queues'[w], q) = {}
        /\ \A r \in Queue \ {q} : Leading(task_queues'[w], r) = Leading(m, r)
        /\ Keys(m) = Keys(task_queues'[w]) \cup {e}
    BY <2>1, <2>3, <2>5, <2>6, ProcessorAssumption DEF Leading, Keys
  <2>8. OutOfMap(P, task_queues'[w], n, q)
    BY <2>6, <2>7 DEF OutOfMap
  <2>9. /\ pc'[c] \in Inside /\ pc'[c] # "idle" /\ arg'[c].w = w /\ arg'[c].q = q
        /\ pc'[c] \notin {"attach_event", "detach_element", "clear_element"}
        /\ plock' = [plock EXCEPT ![w] = IF pc'[c] \in Inside THEN c ELSE Nobody]
        /\ Section(pc'[c], Present(group'[w]), task_queues'[w], Names(events', w),
                   arg'[c].q, arg'[c].todo[1][2])
    BY <1>2, <1>4, <1>5, <2>1, <2>2, <2>8 DEF Inside, Section
  <2>. QED
    BY <1>1, <1>2, <1>3, <1>4, <1>5, <2>2, <2>3, <2>4, <2>9, ProcessorStep DEF Lists
<1>. QED
  BY <1>2, <1>6, <1>7 DEF DetachFromMap

LEMMA DetachEventKeepsMaps ==
  ASSUME MapsInv, NEW c \in Client, DetachEvent(c)
  PROVE  MapsInv'
<1>1. pc[c] = "detach_event" /\ pc[c] \in OnWorker /\ pc[c] \in OnQueue /\ pc[c] \in Inside
  BY DEF DetachEvent, OnWorker, OnQueue, Inside, ClientLabels
<1>2. PICK w \in Worker, q \in Queue : w = arg[c].w /\ q = arg[c].q
  BY <1>1, CallFacts
<1> DEFINE P == Present(group[w])
           m == task_queues[w]
           n == Names(events, w)
<1>3. /\ arg[c] \in Arguments /\ arg \in [Client -> Arguments]
      /\ group \in [Worker -> GroupType] /\ IsInjective(group[w].elements)
      /\ task_queues \in [Worker -> [Element -> Queue \cup {None}]] /\ OneToOne(m)
      /\ m \in [Element -> Queue \cup {None}]
      /\ events \in Lists /\ \A r \in Queue : IsInjective(events[r])
      /\ plock \in [Worker -> Client \cup {Nobody}]
      /\ pc \in [Worker \cup Client -> WorkerLabels \cup ClientLabels]
  BY <1>1, <1>2, CallFacts
<1>4. OutOfMap(P, m, n, q)
  BY <1>1, <1>2, CallFacts DEF Section
<1>5. PICK e \in Element \ Keys(m) : n[q] = {e}
  BY <1>4 DEF OutOfMap
<1>6. PICK i \in DOMAIN events[q] :
        /\ events[q][i][1] = w
        /\ events' = [events EXCEPT ![q] = RemoveAt(events[q], i)]
        /\ arg' = [arg EXCEPT ![c].todo = <<events[q][i]>>]
  BY <1>2 DEF DetachEvent, FirstOf
<1>7. /\ qlock[q] = Nobody /\ pc' = [pc EXCEPT ![c] = "detach_element"]
      /\ UNCHANGED <<group, task_queues, plock, qlock>>
  BY <1>2 DEF DetachEvent, Goto
<1>8. events[q][i] = <<w, e>>
  <2>1. events[q] \in Seq(Worker \X Element) /\ events[q][i] \in Worker \X Element
    BY <1>3 DEF Lists
  <2>2. PICK f \in Element : events[q][i] = <<w, f>>
    BY <1>6, <2>1
  <2>3. <<w, f>> \in ToSet(events[q])
    BY <2>2 DEF ToSet
  <2>. QED
    BY <1>3, <1>5, <2>2, <2>3, Named
<1> DEFINE s == RemoveAt(events[q], i)
<1>9. /\ s \in Seq(Worker \X Element) /\ IsInjective(s)
      /\ ToSet(s) = ToSet(events[q]) \ {<<w, e>>}
  <2>1. events[q] \in Seq(Worker \X Element) /\ IsInjective(events[q])
    BY <1>3 DEF Lists
  <2>. QED
    BY <1>8, <2>1, Removed
<1>10. events' = Put(events, q, s)
  BY <1>6 DEF Put
<1> HIDE DEF s
<1>11. /\ events' \in Lists
       /\ events'[q] = s /\ \A r \in Queue \ {q} : events'[r] = events[r]
       /\ \A r \in Queue : Names(events', w)[r] = IF r = q THEN n[q] \ {e} ELSE n[r]
       /\ \A v \in Worker \ {w} : Names(events', v) = Names(events, v)
  <2>1. events \in Lists /\ e \in Element
    BY <1>3
  <2>2. s \in Seq(Worker \X Element) /\ ToSet(s) = ToSet(events[q]) \ {<<w, e>>}
    BY <1>9
  <2>3. /\ events' \in Lists
        /\ events'[q] = s /\ \A r \in Queue \ {q} : events'[r] = events[r]
        /\ Names(events', w) = Cut(n, q, e)
        /\ \A v \in Worker \ {w} : Names(events', v) = Names(events, v)
    BY <1>10, <2>1, <2>2, NameRemoved
  <2>4. \A r \in Queue : Cut(n, q, e)[r] = IF r = q THEN n[q] \ {e} ELSE n[r]
    BY DEF Cut, Names
  <2>. QED
    BY <2>3, <2>4
<1>12. /\ \A r \in Queue : IsInjective(events'[r])
       /\ \A r \in Queue : qlock[r] # Nobody => events'[r] = events[r]
  BY <1>3, <1>7, <1>9, <1>11
<1>13. OutOfQueue(P, m, Names(events', w), e)
  BY <1>4, <1>5, <1>11 DEF OutOfMap, OutOfQueue
<1>14. /\ pc'[c] = "detach_element" /\ arg'[c] = [arg[c] EXCEPT !.todo = <<<<w, e>>>>]
       /\ pc' = [pc EXCEPT ![c] = pc'[c]] /\ arg' = [arg EXCEPT ![c] = arg'[c]]
       /\ group' = [group EXCEPT ![w] = group'[w]] /\ group'[w] = group[w]
       /\ task_queues' = [task_queues EXCEPT ![w] = task_queues'[w]] /\ task_queues'[w] = m
  BY <1>3, <1>6, <1>7, <1>8
<1>15. <<<<w, e>>>> \in Seq(Worker \X Element) /\ Len(<<<<w, e>>>>) = 1
       /\ <<<<w, e>>>>[1][2] = e
  OBVIOUS
<1>16. /\ arg'[c] \in Arguments /\ arg'[c].w = w /\ arg'[c].q = q
       /\ arg'[c].todo[1][2] = e /\ Len(arg'[c].todo) = 1
  BY <1>2, <1>3, <1>14, <1>15 DEF Arguments
<1>17. /\ pc'[c] \in Inside /\ pc'[c] # "idle"
       /\ plock' = [plock EXCEPT ![w] = IF pc'[c] \in Inside THEN c ELSE Nobody]
       /\ Section(pc'[c], Present(group'[w]), task_queues'[w], Names(events', w),
                  arg'[c].q, arg'[c].todo[1][2])
  <2>1. plock[w] = c
    BY <1>1, <1>2, CallFacts
  <2>. QED
    BY <1>3, <1>7, <1>13, <1>14, <1>16, <2>1 DEF Inside, Section
<1>. QED
  BY <1>1, <1>2, <1>3, <1>7, <1>11, <1>12, <1>14, <1>16, <1>17, ProcessorStep DEF Lists

LEMMA DetachElementKeepsMaps ==
  ASSUME MapsInv, NEW c \in Client, DetachElement(c)
  PROVE  MapsInv'
<1>1. pc[c] = "detach_element" /\ pc[c] \in OnWorker /\ pc[c] \in Inside
  BY DEF DetachElement, OnWorker, OnQueue, Inside, ClientLabels
<1>2. PICK w \in Worker : w = arg[c].w
  BY <1>1, CallFacts
<1> DEFINE P == Present(group[w])
           m == task_queues[w]
           n == Names(events, w)
<1>3. /\ arg[c] \in Arguments /\ arg \in [Client -> Arguments]
      /\ group \in [Worker -> GroupType] /\ IsInjective(group[w].elements)
      /\ task_queues \in [Worker -> [Element -> Queue \cup {None}]] /\ OneToOne(m)
      /\ m \in [Element -> Queue \cup {None}]
      /\ events \in Lists /\ \A r \in Queue : IsInjective(events[r])
      /\ plock \in [Worker -> Client \cup {Nobody}]
      /\ pc \in [Worker \cup Client -> WorkerLabels \cup ClientLabels]
  BY <1>1, <1>2, CallFacts
<1>4. PICK e \in Element : e = arg[c].todo[1][2] /\ OutOfQueue(P, m, n, e)
  BY <1>1, <1>2, CallFacts DEF Section, OutOfQueue
<1>5. /\ group' = [group EXCEPT ![w] = GroupRemove(group[w], e)]
      /\ plock' = [plock EXCEPT ![w] = Nobody] /\ Return(c)
      /\ UNCHANGED <<task_queues, events, qlock>>
  BY <1>2, <1>4 DEF DetachElement
<1>6. /\ pc'[c] = "idle" /\ arg'[c] = NoArg
      /\ pc' = [pc EXCEPT ![c] = pc'[c]] /\ arg' = [arg EXCEPT ![c] = arg'[c]]
      /\ group' = [group EXCEPT ![w] = group'[w]] /\ group'[w] = GroupRemove(group[w], e)
      /\ task_queues' = [task_queues EXCEPT ![w] = task_queues'[w]] /\ task_queues'[w] = m
  BY <1>3, <1>5 DEF Return, Goto
<1>7. /\ pc'[c] \notin Inside /\ arg'[c] \in Arguments
      /\ plock' = [plock EXCEPT ![w] = IF pc'[c] \in Inside THEN c ELSE Nobody]
  BY <1>5, <1>6, NoArguments DEF Inside
<1>8. e \in P /\ e \notin Keys(m) /\ P = Keys(m) \cup {e}
      /\ \A r \in Queue : n[r] = Leading(m, r)
  BY <1>4 DEF OutOfQueue
<1>9. /\ group'[w] \in GroupType /\ IsInjective(group'[w].elements)
      /\ Present(group'[w]) = P \ {e}
  BY <1>3, <1>6, <1>8, ElementRemoved
<1>10. Whole(Present(group'[w]), m, n)
  BY <1>8, <1>9 DEF Whole
<1>. QED
  BY <1>1, <1>2, <1>3, <1>5, <1>6, <1>7, <1>9, <1>10, ProcessorStep DEF Lists

LEMMA ClearLocksKeepsMaps ==
  ASSUME MapsInv, NEW c \in Client, ClearLocks(c)
  PROVE  MapsInv'
<1>1. pc[c] = "clear" /\ pc[c] \in OnWorker
  BY DEF ClearLocks, OnWorker, OnQueue, Inside, ClientLabels
<1>2. PICK w \in Worker : w = arg[c].w
  BY <1>1, CallFacts
<1> DEFINE P == Present(group[w])
           m == task_queues[w]
           n == Names(events, w)
<1>3. /\ arg[c] \in Arguments /\ arg \in [Client -> Arguments]
      /\ group \in [Worker -> GroupType] /\ IsInjective(group[w].elements)
      /\ task_queues \in [Worker -> [Element -> Queue \cup {None}]] /\ OneToOne(m)
      /\ m \in [Element -> Queue \cup {None}]
      /\ events \in Lists /\ \A r \in Queue : IsInjective(events[r])
      /\ plock \in [Worker -> Client \cup {Nobody}]
      /\ pc \in [Worker \cup Client -> WorkerLabels \cup ClientLabels]
  BY <1>1, <1>2, CallFacts
<1>4. plock[w] = Nobody /\ Whole(P, m, n)
      /\ plock' = [plock EXCEPT ![w] = c] /\ pc' = [pc EXCEPT ![c] = "clear_event"]
      /\ UNCHANGED <<group, task_queues, events, qlock, arg>>
  BY <1>1, <1>2, CallFacts DEF ClearLocks, Goto
<1>5. /\ pc'[c] = "clear_event" /\ arg'[c] = arg[c] /\ arg'[c].w = w
      /\ pc' = [pc EXCEPT ![c] = pc'[c]] /\ arg' = [arg EXCEPT ![c] = arg'[c]]
      /\ group' = [group EXCEPT ![w] = group'[w]] /\ group'[w] = group[w]
      /\ task_queues' = [task_queues EXCEPT ![w] = task_queues'[w]] /\ task_queues'[w] = m
  BY <1>2, <1>3, <1>4
<1>6. Emptying(P, m, n, {})
  BY <1>4, ProcessorAssumption DEF Whole, Emptying, Keys, Leading
<1>7. /\ pc'[c] \in Inside /\ pc'[c] # "idle"
      /\ pc'[c] \notin {"attach_event", "detach_event", "detach_element", "clear_element"}
      /\ plock' = [plock EXCEPT ![w] = IF pc'[c] \in Inside THEN c ELSE Nobody]
      /\ Section(pc'[c], Present(group'[w]), task_queues'[w], Names(events', w),
                 arg'[c].q, arg'[c].todo[1][2])
  BY <1>4, <1>5, <1>6 DEF Inside, Section
<1>. QED
  BY <1>1, <1>2, <1>3, <1>4, <1>5, <1>7, ProcessorStep DEF Lists

LEMMA ClearEventKeepsMaps ==
  ASSUME MapsInv, NEW c \in Client, ClearEvent(c)
  PROVE  MapsInv'
<1>1. pc[c] = "clear_event" /\ pc[c] \in OnWorker /\ pc[c] \in Inside
  BY DEF ClearEvent, OnWorker, OnQueue, Inside, ClientLabels
<1>2. PICK w \in Worker : w = arg[c].w
  BY <1>1, CallFacts
<1> DEFINE P == Present(group[w])
           m == task_queues[w]
           n == Names(events, w)
<1>3. /\ arg[c] \in Arguments /\ arg \in [Client -> Arguments]
      /\ group \in [Worker -> GroupType] /\ IsInjective(group[w].elements)
      /\ task_queues \in [Worker -> [Element -> Queue \cup {None}]] /\ OneToOne(m)
      /\ m \in [Element -> Queue \cup {None}]
      /\ events \in Lists /\ \A r \in Queue : IsInjective(events[r])
      /\ plock \in [Worker -> Client \cup {Nobody}]
      /\ pc \in [Worker \cup Client -> WorkerLabels \cup ClientLabels]
  BY <1>1, <1>2, CallFacts
<1>4. Emptying(P, m, n, {}) /\ plock[w] = c
  BY <1>1, <1>2, CallFacts DEF Section
<1>5. PICK e \in Mapped(w) \cap P :
        /\ qlock[m[e]] = Nobody
        /\ events' = [events EXCEPT ![m[e]] = RemoveFirst(events[m[e]], <<w, e>>)]
        /\ arg' = [arg EXCEPT ![c].todo = <<<<w, e>>>>]
  BY <1>2 DEF ClearEvent, Left
<1>6. /\ pc' = [pc EXCEPT ![c] = "clear_element"]
      /\ UNCHANGED <<group, task_queues, plock, qlock>>
  BY DEF ClearEvent, Goto
<1>7. PICK q \in Queue : q = m[e]
  BY <1>3 DEF Mapped
<1>8. e \in Element /\ e \in n[q] /\ <<w, e>> \in ToSet(events[q])
  <2>1. e \in Element /\ e \in Leading(m, q)
    BY <1>7 DEF Mapped, Leading
  <2>2. e \in n[q]
    BY <1>4, <1>5, <2>1 DEF Emptying
  <2>. QED
    BY <1>3, <2>1, <2>2, Named
<1> DEFINE s == RemoveFirst(events[q], <<w, e>>)
<1>9. /\ s \in Seq(Worker \X Element) /\ IsInjective(s)
      /\ ToSet(s) = ToSet(events[q]) \ {<<w, e>>}
  <2>1. events[q] \in Seq(Worker \X Element) /\ IsInjective(events[q])
    BY <1>3 DEF Lists
  <2>. QED
    BY <1>8, <2>1, RemovedFirst
<1>10. events' = Put(events, q, s)
  BY <1>5, <1>7 DEF Put
<1> HIDE DEF s
<1>11. /\ events' \in Lists
       /\ events'[q] = s /\ \A r \in Queue \ {q} : events'[r] = events[r]
       /\ \A r \in Queue : Names(events', w)[r] = IF r = q THEN n[q] \ {e} ELSE n[r]
       /\ \A v \in Worker \ {w} : Names(events', v) = Names(events, v)
  <2>1. events \in Lists /\ e \in Element
    BY <1>3, <1>8
  <2>2. s \in Seq(Worker \X Element) /\ ToSet(s) = ToSet(events[q]) \ {<<w, e>>}
    BY <1>9
  <2>3. /\ events' \in Lists
        /\ events'[q] = s /\ \A r \in Queue \ {q} : events'[r] = events[r]
        /\ Names(events', w) = Cut(n, q, e)
        /\ \A v \in Worker \ {w} : Names(events', v) = Names(events, v)
    BY <1>10, <2>1, <2>2, NameRemoved
  <2>4. \A r \in Queue : Cut(n, q, e)[r] = IF r = q THEN n[q] \ {e} ELSE n[r]
    BY DEF Cut, Names
  <2>. QED
    BY <2>3, <2>4
<1>12. /\ \A r \in Queue : IsInjective(events'[r])
       /\ \A r \in Queue : qlock[r] # Nobody => events'[r] = events[r]
  BY <1>3, <1>5, <1>7, <1>9, <1>11
<1>13. Emptying(P, m, Names(events', w), {e})
  <2>1. P \subseteq Keys(m) /\ e \in P /\ m[e] = q /\ \A r \in Queue : n[r] = Leading(m, r) \cap P
    BY <1>4, <1>5, <1>7 DEF Emptying
  <2>2. \A r \in Queue : Names(events', w)[r] = (Leading(m, r) \cap P) \ {e}
    BY <1>11, <2>1 DEF Leading
  <2>. QED
    BY <2>1, <2>2 DEF Emptying
<1>14. /\ pc'[c] = "clear_element" /\ arg'[c] = [arg[c] EXCEPT !.todo = <<<<w, e>>>>]
       /\ pc' = [pc EXCEPT ![c] = pc'[c]] /\ arg' = [arg EXCEPT ![c] = arg'[c]]
       /\ group' = [group EXCEPT ![w] = group'[w]] /\ group'[w] = group[w]
       /\ task_queues' = [task_queues EXCEPT ![w] = task_queues'[w]] /\ task_queues'[w] = m
  BY <1>3, <1>5, <1>6
<1>15. <<<<w, e>>>> \in Seq(Worker \X Element) /\ Len(<<<<w, e>>>>) = 1
       /\ <<<<w, e>>>>[1][2] = e
  BY <1>8
<1>16. /\ arg'[c] \in Arguments /\ arg'[c].w = w
       /\ arg'[c].todo[1][2] = e /\ Len(arg'[c].todo) = 1
  BY <1>2, <1>3, <1>14, <1>15 DEF Arguments
<1>17. /\ pc'[c] \in Inside /\ pc'[c] # "idle"
       /\ pc'[c] \notin {"attach_event", "detach_event"}
       /\ plock' = [plock EXCEPT ![w] = IF pc'[c] \in Inside THEN c ELSE Nobody]
       /\ Section(pc'[c], Present(group'[w]), task_queues'[w], Names(events', w),
                  arg'[c].q, arg'[c].todo[1][2])
  BY <1>3, <1>4, <1>6, <1>13, <1>14, <1>16 DEF Inside, Section
<1>. QED
  BY <1>1, <1>2, <1>3, <1>6, <1>11, <1>12, <1>14, <1>16, <1>17, ProcessorStep DEF Lists

LEMMA ClearElementKeepsMaps ==
  ASSUME MapsInv, NEW c \in Client, ClearElement(c)
  PROVE  MapsInv'
<1>1. pc[c] = "clear_element" /\ pc[c] \in OnWorker /\ pc[c] \in Inside
  BY DEF ClearElement, OnWorker, OnQueue, Inside, ClientLabels
<1>2. PICK w \in Worker : w = arg[c].w
  BY <1>1, CallFacts
<1> DEFINE P == Present(group[w])
           m == task_queues[w]
           n == Names(events, w)
<1>3. /\ arg[c] \in Arguments /\ arg \in [Client -> Arguments]
      /\ group \in [Worker -> GroupType] /\ IsInjective(group[w].elements)
      /\ task_queues \in [Worker -> [Element -> Queue \cup {None}]] /\ OneToOne(m)
      /\ m \in [Element -> Queue \cup {None}]
      /\ events \in Lists /\ \A r \in Queue : IsInjective(events[r])
      /\ plock \in [Worker -> Client \cup {Nobody}]
      /\ pc \in [Worker \cup Client -> WorkerLabels \cup ClientLabels]
  BY <1>1, <1>2, CallFacts
<1>4. PICK e : e = arg[c].todo[1][2]
  OBVIOUS
<1>5. Emptying(P, m, n, {e}) /\ plock[w] = c
  BY <1>1, <1>2, <1>4, CallFacts DEF Section
<1>6. /\ group' = [group EXCEPT ![w] = GroupRemove(group[w], e)]
      /\ arg' = [arg EXCEPT ![c].todo = <<>>]
      /\ pc' = [pc EXCEPT ![c] = "clear_event"]
      /\ UNCHANGED <<task_queues, events, plock, qlock>>
  BY <1>2, <1>4 DEF ClearElement, Goto
<1>7. /\ pc'[c] = "clear_event" /\ arg'[c] = [arg[c] EXCEPT !.todo = <<>>]
      /\ pc' = [pc EXCEPT ![c] = pc'[c]] /\ arg' = [arg EXCEPT ![c] = arg'[c]]
      /\ group' = [group EXCEPT ![w] = group'[w]] /\ group'[w] = GroupRemove(group[w], e)
      /\ task_queues' = [task_queues EXCEPT ![w] = task_queues'[w]] /\ task_queues'[w] = m
  BY <1>3, <1>6
<1>8. arg'[c] \in Arguments /\ arg'[c].w = w
  <2>1. <<>> \in Seq(Worker \X Element)
    OBVIOUS
  <2>. QED
    BY <1>2, <1>3, <1>7, <2>1 DEF Arguments
<1>9. /\ group'[w] \in GroupType /\ IsInjective(group'[w].elements)
      /\ Present(group'[w]) = P \ {e}
  BY <1>3, <1>5, <1>7, ElementRemoved DEF Emptying
<1>10. Emptying(Present(group'[w]), m, n, {})
  BY <1>5, <1>9 DEF Emptying
<1>11. /\ pc'[c] \in Inside /\ pc'[c] # "idle"
       /\ pc'[c] \notin {"attach_event", "detach_event", "detach_element", "clear_element"}
       /\ plock' = [plock EXCEPT ![w] = IF pc'[c] \in Inside THEN c ELSE Nobody]
       /\ Section(pc'[c], Present(group'[w]), task_queues'[w], Names(events', w),
                  arg'[c].q, arg'[c].todo[1][2])
  BY <1>3, <1>5, <1>6, <1>7, <1>10 DEF Inside, Section
<1>. QED
  BY <1>1, <1>2, <1>3, <1>6, <1>7, <1>8, <1>9, <1>11, ProcessorStep DEF Lists

LEMMA ClearEndsKeepsMaps ==
  ASSUME MapsInv, NEW c \in Client, ClearEnds(c)
  PROVE  MapsInv'
<1>1. pc[c] = "clear_event" /\ pc[c] \in OnWorker /\ pc[c] \in Inside
  BY DEF ClearEnds, OnWorker, OnQueue, Inside, ClientLabels
<1>2. PICK w \in Worker : w = arg[c].w
  BY <1>1, CallFacts
<1> DEFINE P == Present(group[w])
           m == task_queues[w]
           n == Names(events, w)
<1>3. /\ arg[c] \in Arguments /\ arg \in [Client -> Arguments]
      /\ group \in [Worker -> GroupType] /\ IsInjective(group[w].elements)
      /\ task_queues \in [Worker -> [Element -> Queue \cup {None}]] /\ OneToOne(m)
      /\ m \in [Element -> Queue \cup {None}]
      /\ events \in Lists /\ \A r \in Queue : IsInjective(events[r])
      /\ plock \in [Worker -> Client \cup {Nobody}]
      /\ pc \in [Worker \cup Client -> WorkerLabels \cup ClientLabels]
  BY <1>1, <1>2, CallFacts
<1>4. Emptying(P, m, n, {})
  BY <1>1, <1>2, CallFacts DEF Section
<1>5. /\ Left(w) = {}
      /\ task_queues' = [task_queues EXCEPT ![w] = [e \in Element |-> None]]
      /\ plock' = [plock EXCEPT ![w] = Nobody]
      /\ \/ pc' = [pc EXCEPT ![c] = "join"] /\ UNCHANGED arg
         \/ pc' = [pc EXCEPT ![c] = "idle"] /\ arg' = [arg EXCEPT ![c] = NoArg]
      /\ UNCHANGED <<group, events, qlock>>
  BY <1>2 DEF ClearEnds, Goto, Return
<1>6. /\ (pc'[c] = "join" /\ arg'[c] = arg[c]) \/ (pc'[c] = "idle" /\ arg'[c] = NoArg)
      /\ pc' = [pc EXCEPT ![c] = pc'[c]] /\ arg' = [arg EXCEPT ![c] = arg'[c]]
      /\ group' = [group EXCEPT ![w] = group'[w]] /\ group'[w] = group[w]
      /\ task_queues' = [task_queues EXCEPT ![w] = task_queues'[w]]
      /\ task_queues'[w] = [e \in Element |-> None]
  <2>1. /\ (pc'[c] = "join" /\ arg'[c] = arg[c]) \/ (pc'[c] = "idle" /\ arg'[c] = NoArg)
        /\ pc' = [pc EXCEPT ![c] = pc'[c]] /\ arg' = [arg EXCEPT ![c] = arg'[c]]
    <3>1. CASE pc' = [pc EXCEPT ![c] = "join"] /\ UNCHANGED arg
      BY <1>3, <3>1
    <3>2. CASE pc' = [pc EXCEPT ![c] = "idle"] /\ arg' = [arg EXCEPT ![c] = NoArg]
      BY <1>3, <3>2
    <3>. QED
      BY <1>5, <3>1, <3>2
  <2>2. /\ group' = [group EXCEPT ![w] = group'[w]] /\ group'[w] = group[w]
        /\ task_queues' = [task_queues EXCEPT ![w] = task_queues'[w]]
        /\ task_queues'[w] = [e \in Element |-> None]
    BY <1>3, <1>5
  <2>. QED
    BY <2>1, <2>2
<1>7. /\ pc'[c] \in {"idle", "join"} /\ pc'[c] \notin Inside /\ arg'[c] \in Arguments
      /\ pc'[c] # "idle" => arg'[c].w = w
      /\ plock' = [plock EXCEPT ![w] = IF pc'[c] \in Inside THEN c ELSE Nobody]
  BY <1>2, <1>3, <1>5, <1>6, NoArguments DEF Inside
<1>8. task_queues'[w] \in [Element -> Queue \cup {None}] /\ OneToOne(task_queues'[w])
  BY <1>6 DEF OneToOne
<1>9. P = {} /\ \A q \in Queue : n[q] = {}
  BY <1>4, <1>5 DEF Emptying, Left, Keys, Mapped
<1>10. Whole(P, task_queues'[w], n)
  BY <1>6, <1>9, ProcessorAssumption DEF Whole, Keys, Leading
<1>. QED
  BY <1>1, <1>2, <1>3, <1>5, <1>6, <1>7, <1>8, <1>10, ProcessorStep DEF Lists

LEMMA InitMaps == Init => MapsInv
<1>. SUFFICES ASSUME Init PROVE MapsInv
  OBVIOUS
<1>1. ShapeInv
  <2>1. <<>> \in Seq(Element) /\ <<>> \in Seq(Worker \X Element)
    OBVIOUS
  <2>2. \A c \in Client : pc[c] = "idle" /\ "idle" \in ClientLabels /\ "idle" \notin OnWorker
                            /\ "idle" \notin OnQueue
    BY ProcessorAssumption DEF Init, ClientLabels, OnWorker, OnQueue
  <2>3. pc \in [Worker \cup Client -> WorkerLabels \cup ClientLabels]
    BY DEF Init, WorkerLabels, ClientLabels
  <2>. QED
    BY <2>1, <2>2, <2>3, NoArguments DEF Init, ShapeInv, GroupType, EmptyGroup
<1>2. \A c \in Client : pc[c] = "idle"
  BY ProcessorAssumption DEF Init
<1>3. LocksInv
  BY <1>2, ProcessorAssumption DEF Init, LocksInv, Inside, OnWorker
<1>4. OnceInv
  BY <1>2 DEF Init, OnceInv, IsInjective, EmptyGroup
<1>5. SectionInv
  <2>1. ASSUME NEW w \in Worker
        PROVE  Whole(Present(group[w]), task_queues[w], Names(events, w))
    <3>1. Present(group[w]) = {}
      BY DEF Init, EmptyGroup, Present, ToSet
    <3>2. Keys(task_queues[w]) = {} /\ \A q \in Queue : Leading(task_queues[w], q) = {}
      BY ProcessorAssumption DEF Init, Keys, Leading
    <3>3. \A q \in Queue : Names(events, w)[q] = {}
      BY DEF Init, Names, ToSet
    <3>. QED
      BY <3>1, <3>2, <3>3 DEF Whole
  <2>. QED
    BY <1>2, <2>1 DEF SectionInv, Inside
<1>. QED
  BY <1>1, <1>3, <1>4, <1>5 DEF MapsInv

LEMMA NextMaps == MapsInv /\ [Next]_vars => MapsInv'
<1>. SUFFICES ASSUME MapsInv, [Next]_vars PROVE MapsInv'
  OBVIOUS
<1>1. ASSUME NEW c \in Client, Proceed(c) PROVE MapsInv'
  BY <1>1, AddTaskKeepsMaps, SetNextKeepsMaps, AllSetKeepsMaps, AttachElementKeepsMaps,
     AttachEventKeepsMaps, DetachFromMapKeepsMaps, DetachEventKeepsMaps,
     DetachElementKeepsMaps, ClearLocksKeepsMaps, ClearEventKeepsMaps,
     ClearElementKeepsMaps, ClearEndsKeepsMaps, ControlKeepsMaps DEF Proceed
<1>2. CASE UNCHANGED vars
  <2>1. UNCHANGED <<group, task_queues, events, plock, qlock, pc, arg>>
    BY <1>2 DEF vars
  <2>2. ShapeInv'
    BY <2>1 DEF MapsInv, ShapeInv
  <2>3. LocksInv' /\ OnceInv'
    BY <2>1 DEF MapsInv, LocksInv, OnceInv, Attached
  <2>4. SectionInv'
    BY <2>1 DEF MapsInv, SectionInv
  <2>. QED
    BY <2>2, <2>3, <2>4 DEF MapsInv
<1>. QED
  BY <1>1, <1>2, WorkKeepsMaps, BeginKeepsMaps DEF Next

(* In every section the names a queue has for a processor are elements of  *)
(* its group.                                                              *)
LEMMA NamesArePresent ==
  ASSUME MapsInv, NEW w \in Worker, NEW q \in Queue
  PROVE  Names(events, w)[q] \subseteq Present(group[w])
<1> DEFINE P == Present(group[w])
           m == task_queues[w]
           n == Names(events, w)
<1>1. \A r \in Queue : Leading(m, r) \subseteq Keys(m)
  BY ProcessorAssumption DEF Leading, Keys
<1>2. CASE plock[w] = Nobody
  <2>1. Whole(P, m, n)
    BY <1>2 DEF MapsInv, SectionInv
  <2>. QED
    BY <1>1, <2>1 DEF Whole
<1>3. CASE plock[w] # Nobody
  <2>1. PICK c \in Client : plock[w] = c
    BY <1>3 DEF MapsInv, ShapeInv
  <2>2. pc[c] \in Inside /\ arg[c].w = w
    BY <2>1 DEF MapsInv, LocksInv
  <2>3. Section(pc[c], P, m, n, arg[c].q, arg[c].todo[1][2])
    BY <2>2 DEF MapsInv, SectionInv
  <2>. QED
    BY <1>1, <2>2, <2>3 DEF Section, Inside, Entering, OutOfMap, OutOfQueue, Emptying
<1>. QED
  BY <1>2, <1>3

(***************************************************************************)
(* The group, the map and the event_lists agree whenever the mutex of a    *)
(* processor is free, and no add sets an element that was removed.         *)
(***************************************************************************)
THEOREM Agreement == Spec => []MapsAgree
<1>1. ASSUME MapsInv PROVE MapsAgree
  <2>1. ASSUME NEW w \in Worker, plock[w] = Nobody
        PROVE  /\ Present(group[w]) = Mapped(w)
               /\ \A q \in Queue : {e \in Element : task_queues[w][e] = q}
                                     = {e \in Element : <<w, e>> \in ToSet(events[q])}
    <3>1. Whole(Present(group[w]), task_queues[w], Names(events, w))
      BY <1>1, <2>1 DEF MapsInv, SectionInv
    <3>. QED
      BY <3>1 DEF Whole, Keys, Leading, Names, Mapped
  <2>2. ASSUME NEW q \in Queue, NEW x \in ToSet(events[q])
        PROVE  x[2] \in Present(group[x[1]])
    <3>1. events[q] \in Seq(Worker \X Element)
      BY <1>1 DEF MapsInv, ShapeInv
    <3>2. PICK w \in Worker, e \in Element : x = <<w, e>>
      BY <3>1 DEF ToSet
    <3>3. e \in Names(events, w)[q]
      BY <3>2 DEF Names
    <3>. QED
      BY <1>1, <3>2, <3>3, NamesArePresent
  <2>3. ASSUME NEW c \in Client, pc[c] = "set_elements"
        PROVE  arg[c].q \in Queue /\ ToSet(arg[c].todo) \subseteq ToSet(events[arg[c].q])
    BY <1>1, <2>3 DEF MapsInv, ShapeInv, SectionInv, OnQueue
  <2>. QED
    BY <2>1, <2>2, <2>3 DEF MapsAgree, NoDanglingElement
<1>. QED
  BY <1>1, InitMaps, NextMaps, PTL DEF Spec

-----------------------------------------------------------------------------
(* Every task is in one place: in one queue, once, or with one worker, or  *)
(* with the client that is about to add it.  A worker on its way to a      *)
(* queue has an element and a queue.                                       *)
PlacesInv ==
  /\ tasks \in [Queue -> Seq(Task)]
  /\ \A q \in Queue : \A i \in DOMAIN tasks[q] : tasks[q][i][1] = q
  /\ \A q \in Queue : IsInjective(tasks[q])
  /\ ptask \in [Worker -> Task \cup {NoTask}]
  /\ \A w \in Worker : pc[w] = "run" => ptask[w] \in Task /\ ptask[w] \notin Queued
  /\ \A v, w \in Worker : pc[v] = "run" /\ pc[w] = "run" /\ ptask[v] = ptask[w] => v = w
  /\ \A c \in Client : pc[c] = "add" =>
       /\ arg[c].k \in Task /\ arg[c].k[1] = arg[c].q
       /\ arg[c].k \notin Queued \cup Running
  /\ \A c, d \in Client : pc[c] = "add" /\ pc[d] = "add" /\ arg[c].k = arg[d].k => c = d

WayInv ==
  /\ elem \in [Worker -> Element \cup {None}]
  /\ slot \in [Worker -> Queue \cup {None}]
  /\ \A w \in Worker : /\ pc[w] \in {"lookup", "pop"} => elem[w] \in Element
                       /\ pc[w] = "pop" => slot[w] \in Queue

LEMMA NextWay == MapsInv /\ WayInv /\ [Next]_vars => WayInv'
<1>. SUFFICES ASSUME MapsInv, WayInv, [Next]_vars PROVE WayInv'
  OBVIOUS
<1>1. /\ pc \in [Worker \cup Client -> WorkerLabels \cup ClientLabels]
      /\ task_queues \in [Worker -> [Element -> Queue \cup {None}]]
      /\ group \in [Worker -> GroupType]
  BY DEF MapsInv, ShapeInv
<1>2. ASSUME NEW c \in Client, BeginCall(c) \/ Proceed(c) PROVE WayInv'
  <2>1. UNCHANGED local /\ \E label : pc' = [pc EXCEPT ![c] = label]
    <3>1. CASE BeginCall(c)
      BY <3>1 DEF BeginCall, BeginAddTask, BeginAttach, BeginDetach, BeginClear, BeginPause,
                  Begin, Goto
    <3>2. CASE AddTask(c) \/ AllElementsSet(c) \/ SetNextElement(c)
      <4>1. CASE SetNextElement(c)
        <5>1. UNCHANGED local /\ pc' = [pc EXCEPT ![c] = pc[c]]
          BY <1>1, <4>1 DEF SetNextElement
        <5>. QED
          BY <5>1
      <4>. QED
        BY <3>2, <4>1 DEF AddTask, AllElementsSet, Goto, Return
    <3>3. CASE AttachElement(c) \/ AttachEvent(c) \/ DetachFromMap(c) \/ DetachEvent(c)
               \/ DetachElement(c)
      BY <3>3 DEF AttachElement, AttachEvent, DetachFromMap, DetachEvent, DetachElement,
                  Goto, Return
    <3>4. CASE ClearLocks(c) \/ ClearEvent(c) \/ ClearElement(c) \/ ClearEnds(c)
      BY <3>4 DEF ClearLocks, ClearEvent, ClearElement, ClearEnds, Goto, Return
    <3>5. CASE Pause(c) \/ Continue(c) \/ StopRunning(c) \/ Wake(c) \/ Join(c)
      BY <3>5 DEF Pause, Continue, StopRunning, Wake, Join, Goto, Return
    <3>. QED
      BY <1>2, <3>1, <3>2, <3>3, <3>4, <3>5 DEF Proceed
  <2>2. \A w \in Worker : pc'[w] = pc[w]
    BY <1>1, <2>1, ProcessorAssumption
  <2>. QED
    BY <2>1, <2>2 DEF WayInv, local
<1>3. ASSUME NEW w \in Worker, Work(w) PROVE WayInv'
  <2> USE <1>1 DEF WayInv, Goto, local, shared
  <2>1. CASE TakeElement(w)
    <3>1. PICK e \in Element : elem' = [elem EXCEPT ![w] = e]
      <4>1. PICK e \in SetElements(group[w]) : elem' = [elem EXCEPT ![w] = e]
        BY <2>1 DEF TakeElement
      <4>2. group[w].elements \in Seq(Element)
        BY DEF GroupType
      <4>3. e \in Element
        BY <4>2 DEF SetElements, Present, ToSet
      <4>. QED
        BY <4>1, <4>3
    <3>. QED
      BY <2>1, <3>1 DEF TakeElement
  <2>2. CASE LookUp(w)
    BY <2>2 DEF LookUp
  <2>3. CASE PopTask(w)
    BY <2>3 DEF PopTask
  <2>4. CASE TestRunning(w) \/ TestPaused(w) \/ WaitForContinue(w) \/ TakeNothing(w)
             \/ RunTask(w) \/ FinishTask(w)
    BY <2>4 DEF TestRunning, TestPaused, WaitForContinue, TakeNothing, RunTask, FinishTask
  <2>. QED
    BY <1>3, <2>1, <2>2, <2>3, <2>4 DEF Work
<1>4. CASE UNCHANGED vars
  BY <1>4 DEF WayInv, vars
<1>. QED
  BY <1>2, <1>3, <1>4 DEF Next

LEMMA PlacesFrame ==
  ASSUME PlacesInv, UNCHANGED tasks,
         ptask' \in [Worker -> Task \cup {NoTask}],
         \A w \in Worker : pc'[w] = "run" => pc[w] = "run" /\ ptask'[w] = ptask[w],
         \A c \in Client : pc'[c] = "add" => pc[c] = "add" /\ arg'[c] = arg[c]
  PROVE  PlacesInv'
<1>1. Queued' = Queued /\ Running' \subseteq Running
  BY DEF Queued, Running
<1>. QED
  BY <1>1 DEF PlacesInv


LEMMA PopKeepsPlaces ==
  ASSUME MapsInv, WayInv, PlacesInv, NEW w \in Worker, PopTask(w)
  PROVE  PlacesInv'
<1>1. /\ pc[w] = "pop" /\ elem[w] \in Element /\ slot[w] \in Queue
      /\ task_queues[w] \in [Element -> Queue \cup {None}]
      /\ pc \in [Worker \cup Client -> WorkerLabels \cup ClientLabels]
  BY DEF PopTask, WayInv, MapsInv, ShapeInv
<1>2. SlotQueues(w) \subseteq Queue
  BY <1>1 DEF SlotQueues, Mapped
<1>3. PICK q \in Queue :
        IF tasks[q] = <<>>
        THEN Goto(w, "take") /\ UNCHANGED <<tasks, ptask>>
        ELSE /\ ptask' = [ptask EXCEPT ![w] = Head(tasks[q])]
             /\ tasks' = [tasks EXCEPT ![q] = Tail(@)]
             /\ Goto(w, "run")
  BY <1>2 DEF PopTask
<1>4. UNCHANGED arg
  BY DEF PopTask
<1>5. \A c \in Client : pc'[c] = pc[c]
  BY <1>1, <1>3, ProcessorAssumption DEF Goto
<1>6. CASE tasks[q] = <<>>
  <2>1. pc' = [pc EXCEPT ![w] = "take"] /\ UNCHANGED <<tasks, ptask>>
    BY <1>3, <1>6 DEF Goto
  <2>2. \A v \in Worker : pc'[v] = "run" => pc[v] = "run"
    BY <1>1, <2>1
  <2>. QED
    BY <1>4, <1>5, <2>1, <2>2, PlacesFrame DEF PlacesInv
<1>7. CASE tasks[q] # <<>>
  <2> DEFINE k == Head(tasks[q])
  <2>1. /\ ptask' = [ptask EXCEPT ![w] = k] /\ tasks' = [tasks EXCEPT ![q] = Tail(@)]
        /\ pc' = [pc EXCEPT ![w] = "run"]
    BY <1>3, <1>7 DEF Goto
  <2>2. /\ tasks \in [Queue -> Seq(Task)] /\ ptask \in [Worker -> Task \cup {NoTask}]
        /\ IsInjective(tasks[q])
    BY DEF PlacesInv
  <2>3. /\ k \in ToSet(tasks[q]) /\ k \in Task
        /\ Tail(tasks[q]) \in Seq(Task) /\ ToSet(Tail(tasks[q])) \subseteq ToSet(tasks[q])
        /\ IsInjective(Tail(tasks[q])) /\ k \notin ToSet(Tail(tasks[q]))
    BY <1>7, <2>2, Rest
  <2>4. \A r \in Queue : \A t \in ToSet(tasks[r]) : t[1] = r
    BY DEF PlacesInv, ToSet
  <2> HIDE DEF k
  <2>5. /\ tasks' \in [Queue -> Seq(Task)]
        /\ tasks'[q] = Tail(tasks[q]) /\ \A r \in Queue \ {q} : tasks'[r] = tasks[r]
    BY <2>1, <2>2, <2>3
  <2>6. \A r \in Queue : ToSet(tasks'[r]) \subseteq ToSet(tasks[r]) /\ k \notin ToSet(tasks'[r])
    BY <2>3, <2>4, <2>5
  <2>7. Queued' \subseteq Queued /\ k \notin Queued' /\ k \in Queued
    BY <2>3, <2>6 DEF Queued
  <2>8. \A r \in Queue : \A i \in DOMAIN tasks'[r] : tasks'[r][i][1] = r
    BY <2>4, <2>6 DEF ToSet
  <2>9. \A r \in Queue : IsInjective(tasks'[r])
    BY <2>3, <2>5 DEF PlacesInv
  <2>10. /\ ptask' \in [Worker -> Task \cup {NoTask}]
         /\ ptask'[w] = k /\ pc'[w] = "run"
         /\ \A v \in Worker \ {w} : ptask'[v] = ptask[v] /\ pc'[v] = pc[v]
    BY <1>1, <2>1, <2>2, <2>3
  <2>11. \A v \in Worker : pc[v] = "run" => ptask[v] \in Task /\ ptask[v] \notin Queued
    BY DEF PlacesInv
  <2>12. \A v \in Worker : pc'[v] = "run" => ptask'[v] \in Task /\ ptask'[v] \notin Queued'
    BY <2>3, <2>7, <2>10, <2>11
  <2>13. \A u, v \in Worker : pc'[u] = "run" /\ pc'[v] = "run" /\ ptask'[u] = ptask'[v] => u = v
    BY <2>7, <2>10, <2>11 DEF PlacesInv
  <2>14. Running' \subseteq Running \cup {k}
    BY <2>10 DEF Running
  <2>15. \A c \in Client : pc'[c] = "add" =>
           /\ arg'[c].k \in Task /\ arg'[c].k[1] = arg'[c].q
           /\ arg'[c].k \notin Queued' \cup Running'
    BY <1>4, <1>5, <2>7, <2>14 DEF PlacesInv
  <2>16. \A c, d \in Client : pc'[c] = "add" /\ pc'[d] = "add" /\ arg'[c].k = arg'[d].k => c = d
    BY <1>4, <1>5 DEF PlacesInv
  <2>. QED
    BY <2>5, <2>8, <2>9, <2>10, <2>12, <2>13, <2>15, <2>16 DEF PlacesInv
<1>. QED
  BY <1>6, <1>7

LEMMA AddKeepsPlaces ==
  ASSUME MapsInv, PlacesInv, NEW c \in Client, AddTask(c)
  PROVE  PlacesInv'
<1> DEFINE q == arg[c].q
           k == arg[c].k
<1>1. /\ pc[c] = "add" /\ q \in Queue /\ k \in Task /\ k[1] = q
      /\ k \notin Queued \cup Running
      /\ pc \in [Worker \cup Client -> WorkerLabels \cup ClientLabels]
      /\ arg \in [Client -> Arguments]
  BY DEF AddTask, PlacesInv, MapsInv, ShapeInv, OnQueue
<1>2. UNCHANGED ptask /\ pc'[c] # "add"
  BY <1>1 DEF AddTask, Goto, Return, local
<1>3. /\ \A w \in Worker : pc'[w] = pc[w]
      /\ \A d \in Client \ {c} : pc'[d] = pc[d] /\ arg'[d] = arg[d]
  BY <1>1, ProcessorAssumption DEF AddTask, Goto, Return
<1>4. CASE UNCHANGED tasks
  BY <1>2, <1>3, <1>4, PlacesFrame DEF PlacesInv
<1>5. CASE tasks' = [tasks EXCEPT ![q] = Append(@, k)]
  <2>1. tasks \in [Queue -> Seq(Task)] /\ \A r \in Queue : IsInjective(tasks[r])
    BY DEF PlacesInv
  <2>2. \A r \in Queue : k \notin ToSet(tasks[r])
    BY <1>1 DEF Queued
  <2> HIDE DEF q, k
  <2>3. /\ Append(tasks[q], k) \in Seq(Task)
        /\ ToSet(Append(tasks[q], k)) = ToSet(tasks[q]) \cup {k}
        /\ IsInjective(Append(tasks[q], k))
    BY <1>1, <2>1, <2>2, Appended
  <2>4. /\ tasks' \in [Queue -> Seq(Task)]
        /\ tasks'[q] = Append(tasks[q], k)
        /\ \A r \in Queue \ {q} : tasks'[r] = tasks[r]
    BY <1>1, <1>5, <2>1, <2>3
  <2>5. Queued' = Queued \cup {k}
    <3>1. \A r \in Queue : ToSet(tasks'[r]) = IF r = q THEN ToSet(tasks[r]) \cup {k}
                                                       ELSE ToSet(tasks[r])
      BY <2>3, <2>4
    <3>2. \A t : t \in Queued' <=> \E r \in Queue : t \in ToSet(tasks'[r])
      BY DEF Queued
    <3>3. \A t : t \in Queued <=> \E r \in Queue : t \in ToSet(tasks[r])
      BY DEF Queued
    <3>. QED
      BY <1>1, <3>1, <3>2, <3>3
  <2>6. Running' = Running
    BY <1>2, <1>3 DEF Running
  <2>7. \A r \in Queue : \A t \in ToSet(tasks'[r]) : t[1] = r
    <3>1. \A r \in Queue : \A t \in ToSet(tasks[r]) : t[1] = r
      BY DEF PlacesInv, ToSet
    <3>. QED
      BY <1>1, <2>3, <2>4, <3>1
  <2>8. \A r \in Queue : \A i \in DOMAIN tasks'[r] : tasks'[r][i][1] = r
    BY <2>7 DEF ToSet
  <2>9. \A r \in Queue : IsInjective(tasks'[r])
    BY <2>1, <2>3, <2>4
  <2>10. /\ ptask' \in [Worker -> Task \cup {NoTask}]
         /\ \A w \in Worker : pc'[w] = "run" => ptask'[w] \in Task /\ ptask'[w] \notin Queued'
    <3>1. \A w \in Worker : pc[w] = "run" => ptask[w] \in Task /\ ptask[w] \notin Queued
                                             /\ ptask[w] # k
      BY <1>1 DEF PlacesInv, Running
    <3>. QED
      BY <1>2, <1>3, <2>5, <3>1 DEF PlacesInv
  <2>11. \A v, w \in Worker : pc'[v] = "run" /\ pc'[w] = "run" /\ ptask'[v] = ptask'[w] => v = w
    BY <1>2, <1>3 DEF PlacesInv
  <2>12. ASSUME NEW d \in Client, pc'[d] = "add"
         PROVE  /\ arg'[d].k \in Task /\ arg'[d].k[1] = arg'[d].q
                /\ arg'[d].k \notin Queued' \cup Running'
    <3>1. d # c /\ pc[d] = "add" /\ arg'[d] = arg[d]
      BY <1>2, <1>3, <2>12
    <3>2. arg[d].k # k
      BY <1>1, <3>1 DEF PlacesInv, k
    <3>. QED
      BY <2>5, <2>6, <3>1, <3>2 DEF PlacesInv
  <2>13. \A d, e \in Client : pc'[d] = "add" /\ pc'[e] = "add" /\ arg'[d].k = arg'[e].k => d = e
    BY <1>2, <1>3 DEF PlacesInv
  <2>. QED
    BY <2>4, <2>8, <2>9, <2>10, <2>11, <2>12, <2>13 DEF PlacesInv
<1>. QED
  BY <1>4, <1>5 DEF AddTask

LEMMA BeginAddKeepsPlaces ==
  ASSUME MapsInv, PlacesInv, NEW c \in Client, BeginAddTask(c)
  PROVE  PlacesInv'
<1>1. PICK q \in Queue, n \in 1..Outstanding :
        /\ <<q, n>> \notin Unfinished
        /\ Begin(c, "add", [NoArg EXCEPT !.q = q, !.k = <<q, n>>])
  BY DEF BeginAddTask
<1> DEFINE k == <<q, n>>
<1>2. /\ pc \in [Worker \cup Client -> WorkerLabels \cup ClientLabels]
      /\ arg \in [Client -> Arguments]
  BY DEF MapsInv, ShapeInv
<1>3. /\ pc' = [pc EXCEPT ![c] = "add"]
      /\ arg' = [arg EXCEPT ![c] = [[NoArg EXCEPT !.q = q, !.k = k] EXCEPT !.op = "add"]]
      /\ UNCHANGED <<tasks, ptask>> /\ pc[c] = "idle"
  BY <1>1 DEF Begin, Goto, shared, local
<1>4. k \in Task /\ k[1] = q
  BY DEF Task
<1>5. /\ k \notin Queued /\ k \notin Running
      /\ \A d \in Client : pc[d] = "add" => arg[d].k # k
  BY <1>1 DEF Unfinished, BeingAdded
<1> HIDE DEF k
<1>6. arg'[c].k = k /\ arg'[c].q = q
  BY <1>2, <1>3 DEF NoArg
<1>7. /\ \A w \in Worker : pc'[w] = pc[w]
      /\ \A d \in Client \ {c} : pc'[d] = pc[d] /\ arg'[d] = arg[d]
  BY <1>2, <1>3, ProcessorAssumption
<1>8. Queued' = Queued /\ Running' = Running
  BY <1>3, <1>7 DEF Queued, Running
<1>9. \A d \in Client : pc'[d] = "add" =>
        /\ arg'[d].k \in Task /\ arg'[d].k[1] = arg'[d].q
        /\ arg'[d].k \notin Queued' \cup Running'
  BY <1>4, <1>5, <1>6, <1>7, <1>8 DEF PlacesInv
<1>10. \A d, e \in Client : pc'[d] = "add" /\ pc'[e] = "add" /\ arg'[d].k = arg'[e].k => d = e
  BY <1>5, <1>6, <1>7 DEF PlacesInv
<1>. QED
  BY <1>3, <1>7, <1>8, <1>9, <1>10 DEF PlacesInv

LEMMA NextPlaces == MapsInv /\ WayInv /\ PlacesInv /\ [Next]_vars => PlacesInv'
<1>. SUFFICES ASSUME MapsInv, WayInv, PlacesInv, [Next]_vars PROVE PlacesInv'
  OBVIOUS
<1>1. /\ pc \in [Worker \cup Client -> WorkerLabels \cup ClientLabels]
      /\ arg \in [Client -> Arguments] /\ ptask \in [Worker -> Task \cup {NoTask}]
  BY DEF MapsInv, ShapeInv, PlacesInv
<1>2. ASSUME NEW c \in Client, UNCHANGED <<tasks, ptask>>, pc[c] # "add", pc'[c] # "add",
             \E label : pc' = [pc EXCEPT ![c] = label],
             \E a : arg' = [arg EXCEPT ![c] = a]
      PROVE  PlacesInv'
  <2>1. \A w \in Worker : pc'[w] = pc[w]
    BY <1>1, <1>2, ProcessorAssumption
  <2>2. \A d \in Client : pc'[d] = "add" => pc[d] = "add" /\ arg'[d] = arg[d]
    BY <1>1, <1>2
  <2>. QED
    BY <1>1, <1>2, <2>1, <2>2, PlacesFrame
<1>3. ASSUME NEW c \in Client, BeginCall(c) PROVE PlacesInv'
  <2>1. ASSUME NEW op \in Started \ {"add"}, NEW a, Begin(c, op, a) PROVE PlacesInv'
    BY <1>1, <1>2, <2>1 DEF Begin, Goto, shared, local, Started
  <2>2. CASE BeginAttach(c) \/ BeginDetach(c)
    <3>1. \E op \in {"attach", "detach"} : \E a : Begin(c, op, a)
      BY <2>2 DEF BeginAttach, BeginDetach
    <3>. QED
      BY <2>1, <3>1 DEF Started
  <2>3. CASE BeginClear(c) \/ BeginPause(c)
    <3>1. \E op \in {"clear", "destroy", "pause", "continue"} : \E a : Begin(c, op, a)
      BY <2>3 DEF BeginClear, BeginPause
    <3>. QED
      BY <2>1, <3>1 DEF Started
  <2>. QED
    BY <1>3, <2>2, <2>3, BeginAddKeepsPlaces DEF BeginCall
<1>4. ASSUME NEW c \in Client, Proceed(c) PROVE PlacesInv'
  <2>1. CASE SetNextElement(c)
    <3>1. /\ UNCHANGED <<tasks, ptask, pc>> /\ pc[c] = "set_elements"
          /\ \E a : arg' = [arg EXCEPT ![c] = a]
      BY <2>1 DEF SetNextElement, local
    <3>2. pc' = [pc EXCEPT ![c] = pc[c]]
      BY <1>1, <3>1
    <3>. QED
      BY <1>2, <3>1, <3>2
  <2>2. ASSUME NEW label, NEW a, Goto(c, label), arg' = [arg EXCEPT ![c] = a],
               label # "add", pc[c] # "add", UNCHANGED <<tasks, ptask>>
        PROVE  PlacesInv'
    BY <1>1, <1>2, <2>2 DEF Goto
  <2>3. ASSUME NEW label, Goto(c, label), UNCHANGED arg,
               label # "add", pc[c] # "add", UNCHANGED <<tasks, ptask>>
        PROVE  PlacesInv'
    <3>1. arg' = [arg EXCEPT ![c] = arg[c]]
      BY <1>1, <2>3
    <3>. QED
      BY <2>2, <2>3, <3>1
  <2>4. ASSUME Return(c), pc[c] # "add", UNCHANGED <<tasks, ptask>> PROVE PlacesInv'
    BY <2>2, <2>4 DEF Return
  <2>5. CASE AllElementsSet(c)
    BY <2>4, <2>5 DEF AllElementsSet, local
  <2>6. CASE AttachElement(c)
    <3>1. pc[c] # "add" /\ UNCHANGED <<tasks, ptask>>
      BY <2>6 DEF AttachElement, local
    <3>2. CASE Return(c)
      BY <2>4, <3>1, <3>2
    <3>3. CASE ~Return(c)
      <4>1. Goto(c, "attach_event") /\ \E a : arg' = [arg EXCEPT ![c] = a]
        BY <2>6, <3>3 DEF AttachElement
      <4>. QED
        BY <2>2, <3>1, <4>1
    <3>. QED
      BY <3>2, <3>3
  <2>7. CASE AttachEvent(c) \/ DetachElement(c)
    BY <2>4, <2>7 DEF AttachEvent, DetachElement, local
  <2>8. CASE DetachFromMap(c)
    BY <2>3, <2>4, <2>8 DEF DetachFromMap, local
  <2>9. CASE DetachEvent(c) \/ ClearEvent(c) \/ ClearElement(c)
    <3>1. /\ pc[c] # "add" /\ UNCHANGED <<tasks, ptask>>
          /\ \E label \in {"detach_element", "clear_element", "clear_event"} : Goto(c, label)
          /\ \E a : arg' = [arg EXCEPT ![c] = a]
      BY <2>9 DEF DetachEvent, ClearEvent, ClearElement, local
    <3>. QED
      BY <2>2, <3>1
  <2>10. CASE ClearLocks(c) \/ StopRunning(c) \/ Continue(c)
    <3>1. /\ pc[c] # "add" /\ UNCHANGED <<tasks, ptask, arg>>
          /\ \E label \in {"clear_event", "wake", "stop_running"} : Goto(c, label)
      BY <2>10 DEF ClearLocks, StopRunning, Continue, shared, local
    <3>. QED
      BY <2>3, <3>1
  <2>11. CASE ClearEnds(c)
    <3>1. /\ pc[c] # "add" /\ UNCHANGED <<tasks, ptask>>
          /\ (Goto(c, "join") /\ UNCHANGED arg) \/ Return(c)
      BY <2>11 DEF ClearEnds, local
    <3>. QED
      BY <2>3, <2>4, <3>1
  <2>12. CASE Pause(c) \/ Wake(c) \/ Join(c)
    <3>1. /\ pc[c] # "add" /\ UNCHANGED <<tasks, ptask>>
          /\ (Goto(c, "clear") /\ UNCHANGED arg) \/ Return(c)
      BY <2>12 DEF Pause, Wake, Join, shared, local
    <3>. QED
      BY <2>3, <2>4, <3>1
  <2>. QED
    BY <1>4, <2>1, <2>5, <2>6, <2>7, <2>8, <2>9, <2>10, <2>11, <2>12, AddKeepsPlaces DEF Proceed
<1>5. ASSUME NEW w \in Worker, Work(w) PROVE PlacesInv'
  <2>1. CASE ~PopTask(w)
    <3>1. UNCHANGED <<tasks, arg>> /\ \A c \in Client : pc'[c] = pc[c]
      <4>1. \A c \in Client : pc'[c] = pc[c]
        BY <1>5, WorkShape
      <4>. QED
        BY <1>5, <2>1, <4>1 DEF Work, TestRunning, TestPaused, WaitForContinue, TakeElement,
           TakeNothing, LookUp, RunTask, FinishTask, shared, local
    <3>2. /\ pc' = [pc EXCEPT ![w] = pc'[w]] /\ pc'[w] # "run"
          /\ ptask' = ptask \/ ptask' = [ptask EXCEPT ![w] = NoTask]
      BY <1>1, <1>5, <2>1 DEF Work, TestRunning, TestPaused, WaitForContinue, TakeElement,
         TakeNothing, LookUp, RunTask, FinishTask, Goto, shared, local
    <3>3. /\ ptask' \in [Worker -> Task \cup {NoTask}]
          /\ \A v \in Worker : pc'[v] = "run" => pc[v] = "run" /\ ptask'[v] = ptask[v]
      BY <1>1, <3>2
    <3>. QED
      BY <3>1, <3>3, PlacesFrame
  <2>. QED
    BY <2>1, PopKeepsPlaces
<1>6. CASE UNCHANGED vars
  BY <1>1, <1>6, PlacesFrame DEF vars
<1>. QED
  BY <1>3, <1>4, <1>5, <1>6 DEF Next

(***************************************************************************)
(* A task that was added is run at most once, whatever processors serve    *)
(* its queue and whatever was detached while a worker was on its way.      *)
(***************************************************************************)
THEOREM OneRun == Spec => []RunOnce
<1>1. Init => WayInv /\ PlacesInv
  <2>1. Init => WayInv
    BY DEF Init, WayInv
  <2>2. ASSUME Init PROVE PlacesInv
    <3>1. \A q \in Queue : tasks[q] = <<>>
      BY <2>2 DEF Init
    <3>2. /\ tasks \in [Queue -> Seq(Task)] /\ ptask \in [Worker -> Task \cup {NoTask}]
          /\ \A c \in Client : pc[c] # "add"
          /\ \A w \in Worker : pc[w] # "run"
      BY <2>2, ProcessorAssumption DEF Init
    <3>3. \A q \in Queue : DOMAIN tasks[q] = {}
      BY <3>1
    <3>4. \A q \in Queue : IsInjective(tasks[q])
      BY <3>3 DEF IsInjective
    <3>. QED
      BY <3>2, <3>3, <3>4 DEF PlacesInv
  <2>. QED
    BY <2>1, <2>2
<1>2. ASSUME PlacesInv PROVE RunOnce
  <2>1. \A q, r \in Queue : \A i \in DOMAIN tasks[q], j \in DOMAIN tasks[r] :
          tasks[q][i] = tasks[r][j] => q = r /\ i = j
    BY <1>2 DEF PlacesInv, IsInjective
  <2>2. Queued \cap Running = {}
    BY <1>2 DEF PlacesInv, Running
  <2>. QED
    BY <1>2, <2>1, <2>2 DEF RunOnce, PlacesInv
<1>. QED
  BY <1>1, <1>2, InitMaps, NextMaps, NextWay, NextPlaces, PTL DEF Spec
=============================================================================
