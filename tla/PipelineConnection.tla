------------------------- MODULE PipelineConnection -------------------------
(***************************************************************************)
(* A pipeline_connection between the output of one procedure (its source)  *)
(* and the input of another (its target), while both procedures run and    *)
(* are told to shut down: pipeline_procedure_structures.c and the data     *)
(* path of pipeline_procedure.c.                                           *)
(*                                                                         *)
(* Each end owns a list: the source's holds the free buffers (outgoing),   *)
(* the target's the committed ones (incoming).  A thread takes a list by   *)
(* exchanging the end's pointer with NULL until it gets a non-NULL one and *)
(* gives it back by storing the pointer again.  Between those two          *)
(* instructions the thread works on the list alone, so a label ...Held     *)
(* stands for the critical section together with the store that ends it.   *)
(*                                                                         *)
(* The two ends run the same protocol on each other's lists (get_data and  *)
(* passon on one side, get_data and moveon on the other), so the steps are *)
(* written once, for an end e, and named per C function below.             *)
(***************************************************************************)
EXTENDS Naturals, Sequences

CONSTANTS MaxDataNum,  \* max_data_num of pipeline_connection_initialize
          Payload,     \* what a procedure may write into a buffer
          NoData,      \* a buffer nobody wrote yet
          Polling      \* the ends whose procedure may use the try_ variants

ASSUME ConnectionAssumption ==
  /\ MaxDataNum \in Nat \ {0}
  /\ NoData \notin Payload
  /\ Polling \subseteq {"source", "target"}

Ends == {"source", "target"}
Peer(e) == IF e = "source" THEN "target" ELSE "source"

Desc     == 1..MaxDataNum    \* connection->exchange_data, in list order
Shutdown == 0                \* &shut_down_command, or no descriptor at all
Entry    == Desc \cup {Shutdown}

VARIABLES
  task_list,   \* [end -> sequence of Entry]  output/input->task_list
  task_ptr,    \* [end -> "list" | "NULL"]    outgoing_task / incoming_task
  event,       \* [end -> BOOLEAN]            recycle_data_event / new_input_event
  is_running,  \* [end -> BOOLEAN]            procedure_task->is_running
  pc,          \* [end -> label]              where the end's worker thread is
  desc,        \* [end -> Entry]              descriptor handed out, not yet given away
  data,        \* [Desc -> payload]           desc->data
  ctl          \* [step, end]                 the thread that shuts procedures down

vars == <<task_list, task_ptr, event, is_running, pc, desc, data, ctl>>

WorkerLabels == {"idle", "getLock", "getHeld", "tryLock", "tryHeld", "wait",
                 "use", "popLock", "popHeld", "pushLock", "pushHeld", "signal",
                 "exited"}
ControlSteps == {"idle", "lock", "held", "signal", "waitEnd"}

Goto(e, label) == pc' = [pc EXCEPT ![e] = label]
IsCustom(d)    == d \in Desc     \* desc->type == exchange_data_custom

(***************************************************************************)
(* atomic_exchange_ptr in a loop: the iteration that obtains the list, and *)
(* the store that gives it back.                                           *)
(***************************************************************************)
TakeListUnchecked(e) ==              \* mutant: one exchange, result not tested
  task_ptr' = [task_ptr EXCEPT ![e] = "NULL"]
TakeList(e) == /\ task_ptr[e] = "list"
               /\ task_ptr' = [task_ptr EXCEPT ![e] = "NULL"]
GiveList(e) == task_ptr' = [task_ptr EXCEPT ![e] = "list"]
SetEvent(e) == event' = [event EXCEPT ![e] = TRUE]

(* All descriptors start in the source's list, both procedures running.    *)
Init ==
  /\ task_list = [e \in Ends |->
                   IF e = "source" THEN [i \in Desc |-> i] ELSE << >>]
  /\ task_ptr = [e \in Ends |-> "list"]
  /\ event = [e \in Ends |-> FALSE]
  /\ is_running = [e \in Ends |-> TRUE]
  /\ pc = [e \in Ends |-> "idle"]
  /\ desc = [e \in Ends |-> Shutdown]
  /\ data = [d \in Desc |-> NoData]
  /\ ctl = [step |-> "idle", end |-> "source"]
-----------------------------------------------------------------------------
(***************************************************************************)
(* The worker of end e: one call of the update function after another      *)
(* until is_running is false.  Inside a call the procedure asks for data   *)
(* and looks at is_running first.                                          *)
(***************************************************************************)
Update(e) ==
  /\ pc[e] = "idle"
  /\ IF is_running[e]
       THEN \/ Goto(e, "getLock")
            \/ e \in Polling /\ Goto(e, "tryLock")
       ELSE Goto(e, "exited")
  /\ UNCHANGED <<task_list, task_ptr, event, is_running, desc, data, ctl>>

HandOutLast(e) ==                    \* mutant: list_back for list_front
  LET d == task_list[e][Len(task_list[e])]
  IN  IF IsCustom(d)
        THEN Goto(e, "use") /\ desc' = [desc EXCEPT ![e] = d]
        ELSE Goto(e, "idle") /\ UNCHANGED desc

(* The desc at the front of e's list is handed out and stays in the list;  *)
(* the shutdown command is handed out as NULL and ends the update call.    *)
HandOut(e) ==
  LET d == Head(task_list[e])
  IN  IF IsCustom(d)
        THEN Goto(e, "use") /\ desc' = [desc EXCEPT ![e] = d]
        ELSE Goto(e, "idle") /\ UNCHANGED desc

GetLock(e) ==
  /\ pc[e] = "getLock"
  /\ TakeList(e)
  /\ Goto(e, "getHeld")
  /\ UNCHANGED <<task_list, event, is_running, desc, data, ctl>>

GetHeld(e) ==
  /\ pc[e] = "getHeld"
  /\ GiveList(e)
  /\ IF task_list[e] = << >>
       THEN Goto(e, "wait") /\ UNCHANGED desc
       ELSE HandOut(e)
  /\ UNCHANGED <<task_list, event, is_running, data, ctl>>

(* The wait returns when the event is set, and resets it.                  *)
GetWait(e) ==
  /\ pc[e] = "wait"
  /\ event[e]
  /\ event' = [event EXCEPT ![e] = FALSE]
  /\ Goto(e, "getLock")
  /\ UNCHANGED <<task_list, task_ptr, is_running, desc, data, ctl>>

TryLock(e) ==
  /\ pc[e] = "tryLock"
  /\ TakeList(e)
  /\ Goto(e, "tryHeld")
  /\ UNCHANGED <<task_list, event, is_running, desc, data, ctl>>

TryHeld(e) ==
  /\ pc[e] = "tryHeld"
  /\ GiveList(e)
  /\ IF task_list[e] = << >>
       THEN Goto(e, "idle") /\ UNCHANGED desc
       ELSE HandOut(e)
  /\ UNCHANGED <<task_list, event, is_running, data, ctl>>
-----------------------------------------------------------------------------
(***************************************************************************)
(* The procedure works on the buffer: the source fills it and commits it,  *)
(* the target's input_data_handler reads it and returns TRUE to move on.   *)
(* Either may leave it at the front of the list for the next call.         *)
(***************************************************************************)
Fill ==
  /\ pc["source"] = "use"
  /\ \/ /\ \E v \in Payload : data' = [data EXCEPT ![desc["source"]] = v]
        /\ Goto("source", "popLock")
     \/ Goto("source", "idle") /\ UNCHANGED data
  /\ UNCHANGED <<task_list, task_ptr, event, is_running, desc, ctl>>

InputDataHandler ==
  /\ pc["target"] = "use"
  /\ \E ret \in BOOLEAN : Goto("target", IF ret THEN "popLock" ELSE "idle")
  /\ UNCHANGED <<task_list, task_ptr, event, is_running, desc, data, ctl>>

(***************************************************************************)
(* passon / moveon: the front of e's own list is popped and, with that     *)
(* list given back, pushed on the peer's, whose event is set last.         *)
(***************************************************************************)
PopLock(e) ==
  /\ pc[e] = "popLock"
  /\ TakeList(e)
  /\ Goto(e, "popHeld")
  /\ UNCHANGED <<task_list, event, is_running, desc, data, ctl>>

PopHeldKept(e) ==                    \* mutant: list_pop_front forgotten
  /\ pc[e] = "popHeld"
  /\ desc' = [desc EXCEPT ![e] = Head(task_list[e])]
  /\ GiveList(e)
  /\ Goto(e, "pushLock")
  /\ UNCHANGED <<task_list, event, is_running, data, ctl>>

PopHeld(e) ==
  /\ pc[e] = "popHeld"
  /\ desc' = [desc EXCEPT ![e] = Head(task_list[e])]
  /\ task_list' = [task_list EXCEPT ![e] = Tail(@)]
  /\ GiveList(e)
  /\ Goto(e, "pushLock")
  /\ UNCHANGED <<event, is_running, data, ctl>>

PushLock(e) ==
  /\ pc[e] = "pushLock"
  /\ TakeList(Peer(e))
  /\ Goto(e, "pushHeld")
  /\ UNCHANGED <<task_list, event, is_running, desc, data, ctl>>

PushHeldFront(e) ==                  \* mutant: list_push_front for list_push_back
  /\ pc[e] = "pushHeld"
  /\ task_list' = [task_list EXCEPT ![Peer(e)] = <<desc[e]>> \o @]
  /\ desc' = [desc EXCEPT ![e] = Shutdown]
  /\ GiveList(Peer(e))
  /\ Goto(e, "signal")
  /\ UNCHANGED <<event, is_running, data, ctl>>

PushHeld(e) ==
  /\ pc[e] = "pushHeld"
  /\ task_list' = [task_list EXCEPT ![Peer(e)] = Append(@, desc[e])]
  /\ desc' = [desc EXCEPT ![e] = Shutdown]
  /\ GiveList(Peer(e))
  /\ Goto(e, "signal")
  /\ UNCHANGED <<event, is_running, data, ctl>>

PushSignalOwn(e) ==                  \* mutant: the event of the wrong end
  /\ pc[e] = "signal"
  /\ SetEvent(e)
  /\ Goto(e, "idle")
  /\ UNCHANGED <<task_list, task_ptr, is_running, desc, data, ctl>>

PushSignal(e) ==
  /\ pc[e] = "signal"
  /\ SetEvent(Peer(e))
  /\ Goto(e, "idle")
  /\ UNCHANGED <<task_list, task_ptr, is_running, desc, data, ctl>>
-----------------------------------------------------------------------------
(***************************************************************************)
(* The controlling thread stops a running procedure: is_running goes down, *)
(* then the shutdown command is pushed behind whatever the list holds and  *)
(* the event is set, and the thread waits for the worker to leave its      *)
(* loop.  (ProcedureLifecycle adds the lists' reset that follows.)         *)
(***************************************************************************)
StopProcedure(e) ==
  /\ ctl.step = "idle"
  /\ is_running[e]
  /\ is_running' = [is_running EXCEPT ![e] = FALSE]
  /\ ctl' = [step |-> "lock", end |-> e]
  /\ UNCHANGED <<task_list, task_ptr, event, pc, desc, data>>

ShutdownLock(e) ==
  /\ ctl = [step |-> "lock", end |-> e]
  /\ TakeList(e)
  /\ ctl' = [ctl EXCEPT !.step = "held"]
  /\ UNCHANGED <<task_list, event, is_running, pc, desc, data>>

ShutdownHeld(e) ==
  /\ ctl = [step |-> "held", end |-> e]
  /\ task_list' = [task_list EXCEPT ![e] = Append(@, Shutdown)]
  /\ GiveList(e)
  /\ ctl' = [ctl EXCEPT !.step = "signal"]
  /\ UNCHANGED <<event, is_running, pc, desc, data>>

ShutdownNoSignal(e) ==               \* mutant: the command is pushed, the event not set
  /\ ctl = [step |-> "signal", end |-> e]
  /\ ctl' = [ctl EXCEPT !.step = "waitEnd"]
  /\ UNCHANGED <<task_list, task_ptr, event, is_running, pc, desc, data>>

ShutdownSignal(e) ==
  /\ ctl = [step |-> "signal", end |-> e]
  /\ SetEvent(e)
  /\ ctl' = [ctl EXCEPT !.step = "waitEnd"]
  /\ UNCHANGED <<task_list, task_ptr, is_running, pc, desc, data>>

(* pipeline_procedure_task_stop: the worker sets task_end_event last.      *)
TaskStop(e) ==
  /\ ctl = [step |-> "waitEnd", end |-> e]
  /\ pc[e] = "exited"
  /\ ctl' = [ctl EXCEPT !.step = "idle"]
  /\ UNCHANGED <<task_list, task_ptr, event, is_running, pc, desc, data>>
-----------------------------------------------------------------------------
(* The C functions, each the steps its calling thread makes in it.         *)
OutputGetData    == GetLock("source") \/ GetHeld("source") \/ GetWait("source")
InputGetData     == GetLock("target") \/ GetHeld("target") \/ GetWait("target")
OutputTryGetData == TryLock("source") \/ TryHeld("source")
InputTryGetData  == TryLock("target") \/ TryHeld("target")

PassOn == \/ PopLock("source") \/ PopHeld("source")
          \/ PushLock("source") \/ PushHeld("source") \/ PushSignal("source")
MoveOn == \/ PopLock("target") \/ PopHeld("target")
          \/ PushLock("target") \/ PushHeld("target") \/ PushSignal("target")

OutputShutdown == \/ ShutdownLock("source") \/ ShutdownHeld("source")
                  \/ ShutdownSignal("source")
InputShutdown  == \/ ShutdownLock("target") \/ ShutdownHeld("target")
                  \/ ShutdownSignal("target")

SourceWorker == Update("source") \/ OutputGetData \/ OutputTryGetData \/ Fill \/ PassOn
TargetWorker == Update("target") \/ InputGetData \/ InputTryGetData
                \/ InputDataHandler \/ MoveOn
ShutdownStep == OutputShutdown \/ InputShutdown

Next == \/ SourceWorker
        \/ TargetWorker
        \/ ShutdownStep
        \/ \E e \in Ends : StopProcedure(e) \/ TaskStop(e)

Spec == Init /\ [][Next]_vars

(***************************************************************************)
(* Every thread is scheduled: it makes its next step when that step stays  *)
(* possible.  A thread that spins for a list which becomes free again and  *)
(* again gets it at last: the list is held for a few instructions only,    *)
(* but no queue orders the spinning threads, so this is strong fairness.   *)
(* Nothing makes the user stop a procedure, commit or accept a buffer.     *)
(***************************************************************************)
WorkerSpins(e) == GetLock(e) \/ TryLock(e) \/ PopLock(e) \/ PushLock(e)

Fairness == /\ WF_vars(SourceWorker)
            /\ WF_vars(TargetWorker)
            /\ WF_vars(ShutdownStep \/ \E e \in Ends : TaskStop(e))
            /\ \A e \in Ends : SF_vars(WorkerSpins(e)) /\ SF_vars(ShutdownLock(e))

FairSpec == Spec /\ Fairness
-----------------------------------------------------------------------------
TypeOK ==
  /\ task_list \in [Ends -> Seq(Entry)]
  /\ task_ptr \in [Ends -> {"list", "NULL"}]
  /\ event \in [Ends -> BOOLEAN]
  /\ is_running \in [Ends -> BOOLEAN]
  /\ pc \in [Ends -> WorkerLabels]
  /\ desc \in [Ends -> Entry]
  /\ data \in [Desc -> Payload \cup {NoData}]
  /\ ctl \in [step : ControlSteps, end : Ends]

(***************************************************************************)
(* The exchange loop is a lock.  No two of the three threads that use an   *)
(* end's list - its own worker, the peer's worker and the thread that      *)
(* shuts it down - are between taking it and giving it back at once, and   *)
(* the pointer is NULL exactly while one of them is: the plain store in    *)
(* moveon and get_data gives the list back as safely as the exchange does. *)
(***************************************************************************)
OwnerHolds(e)   == pc[e] \in {"getHeld", "tryHeld", "popHeld"}
PeerHolds(e)    == pc[Peer(e)] = "pushHeld"
ControlHolds(e) == ctl = [step |-> "held", end |-> e]

ListExclusion ==
  \A e \in Ends :
    /\ ~(OwnerHolds(e) /\ PeerHolds(e))
    /\ ~(OwnerHolds(e) /\ ControlHolds(e))
    /\ ~(PeerHolds(e) /\ ControlHolds(e))
    /\ task_ptr[e] = "NULL" <=> (OwnerHolds(e) \/ PeerHolds(e) \/ ControlHolds(e))

(***************************************************************************)
(* A descriptor is read at the front of the list, the list is given back,  *)
(* and only later popped.  Whatever the others did in between, the entry   *)
(* popped is the one that was handed out: the ASSERTs of passon and moveon *)
(* (list not empty, front of type custom) hold.                            *)
(***************************************************************************)
InFlight(e) == pc[e] \in {"pushLock", "pushHeld"}

FrontStable ==
  \A e \in Ends :
    /\ pc[e] \in {"use", "popLock", "popHeld"} => IsCustom(desc[e])
    /\ IsCustom(desc[e]) /\ ~InFlight(e) =>
         task_list[e] # << >> /\ Head(task_list[e]) = desc[e]

(***************************************************************************)
(* No buffer is lost and none is in two places: each of the connection's   *)
(* descriptors is once in the two lists together, or in the hands of the   *)
(* one worker that is carrying it from its own list to the other.          *)
(***************************************************************************)
InList(e, d)  == \E i \in 1..Len(task_list[e]) : task_list[e][i] = d
Carries(e, d) == InFlight(e) /\ desc[e] = d

BufferOnce ==
  \A d \in Desc :
    /\ \A e, f \in Ends : \A i \in 1..Len(task_list[e]), j \in 1..Len(task_list[f]) :
         task_list[e][i] = d /\ task_list[f][j] = d => e = f /\ i = j
    /\ \A e, f \in Ends : Carries(e, d) => ~InList(f, d)
    /\ ~(Carries("source", d) /\ Carries("target", d))

BufferSomewhere ==
  \A d \in Desc : \E e \in Ends : InList(e, d) \/ Carries(e, d)

BuffersConserved == BufferOnce /\ BufferSomewhere

(***************************************************************************)
(* No lost wakeup: a worker that found its list empty and is waiting has   *)
(* its event set, or is about to be signalled, as soon as the list is not  *)
(* empty.  The list is given back before the wait and pushed to before the *)
(* signal, so every order of these four steps matters.                     *)
(***************************************************************************)
NoLostWakeup ==
  \A e \in Ends :
    pc[e] = "wait" /\ task_list[e] # << >> =>
      \/ event[e]
      \/ pc[Peer(e)] = "signal"
      \/ ctl = [step |-> "signal", end |-> e]

(***************************************************************************)
(* "Before you commit the buffer, this function will always return the     *)
(* same buffer" (pipeline_procedure.h:164), and the same for an input the  *)
(* handler did not accept: a descriptor handed out is not replaced by      *)
(* another one before it was passed to the peer.                           *)
(***************************************************************************)
SameBufferUntilCommit ==
  [][\A e \in Ends :
       IsCustom(desc[e]) /\ IsCustom(desc'[e]) => desc'[e] = desc[e]]_vars

(***************************************************************************)
(* The connection implements the bounded channel: committing a buffer puts *)
(* its payload into the queue, moving past one takes the oldest out, and   *)
(* no payload changes in between.  A shutdown command carries nothing, and *)
(* there is one at most: the packages are numbered past it.                *)
(***************************************************************************)
Commanded(l, n) == \E j \in 1..n : ~IsCustom(l[j])
Packages(l)     == IF Commanded(l, Len(l)) THEN Len(l) - 1 ELSE Len(l)
Package(l, i)   == l[IF Commanded(l, i) THEN i + 1 ELSE i]
Pending(l)      == [i \in 1..Packages(l) |-> data[Package(l, i)]]

Channel == INSTANCE BoundedChannel WITH
             Capacity <- MaxDataNum,
             queue <- Pending(task_list["target"])

ImplementsChannel == Channel!Spec

(***************************************************************************)
(* Nobody waits for ever.  A procedure that is told to stop does stop,     *)
(* wherever its worker was blocked, and the thread that stops it returns;  *)
(* and a worker that waits beside a list which is not empty - a target     *)
(* with committed data, a source with a free buffer - is handed a buffer,  *)
(* or finds out that its procedure is stopped.                             *)
(***************************************************************************)
WaitersServed ==
  /\ ctl.step # "idle" ~> ctl.step = "idle"
  /\ \A e \in Ends :
       pc[e] \in {"getLock", "getHeld", "wait"} /\ task_list[e] # << >>
         ~> pc[e] \in {"use", "exited"}
=============================================================================
