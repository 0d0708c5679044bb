------------------------- MODULE ProcedureLifecycle -------------------------
(***************************************************************************)
(* pipeline_start and pipeline_stop over a source and a target procedure   *)
(* joined by one connection: pipeline.c, pipeline_procedure_start/_stop,   *)
(* pipeline_procedure_task.c and the resets of the two lists.  The data    *)
(* path is PipelineConnection's.                                           *)
(*                                                                         *)
(* A procedure runs as a task: start adds it to the procedure's queue, the *)
(* pool thread behind that queue (TaskProcessor models it) takes it out,   *)
(* sets the start event, calls the update function until is_running is     *)
(* false, and sets the end event.  A worker label "parked" means that the  *)
(* task is not being executed.  One thread, the caller's, does all of the  *)
(* starting and stopping; both functions visit the procedures in list      *)
(* order, the source first.                                                *)
(***************************************************************************)
EXTENDS PipelineConnection

(* Stopping the source while the target still runs returns buffers twice:   *)
(* OutputResetHeld lists those that the target gives back later.  Every    *)
(* cycle may add to the list; MaxEntries ends the growth.                  *)
CONSTANT MaxEntries   \* checking bound: no start with more buffers in the source's list

ASSUME LifecycleAssumption == MaxEntries \in Nat

VARIABLES
  queued,            \* [end -> BOOLEAN]  the task is in procedure_task_queue
  task_start_event,  \* [end -> BOOLEAN]
  task_end_event     \* [end -> BOOLEAN]

taskVars == <<queued, task_start_event, task_end_event>>
connVars == <<task_list, task_ptr, event, is_running, pc, desc, data>>
lifeVars == <<vars, taskVars>>

LifecycleSteps == {"idle", "start", "run", "waitStart",
                   "stop", "lock", "held", "signal", "waitEnd",
                   "resetOutput", "resetOutputHeld", "resetInput", "resetInputHeld"}

LifecycleInit ==
  /\ task_list = [e \in Ends |->
                   IF e = "source" THEN [i \in Desc |-> i] ELSE << >>]
  /\ task_ptr = [e \in Ends |-> "list"]
  /\ event = [e \in Ends |-> FALSE]
  /\ is_running = [e \in Ends |-> FALSE]
  /\ pc = [e \in Ends |-> "parked"]
  /\ desc = [e \in Ends |-> Shutdown]
  /\ data = [d \in Desc |-> NoData]
  /\ ctl = [step |-> "idle", end |-> "source"]
  /\ queued = [e \in Ends |-> FALSE]
  /\ task_start_event = [e \in Ends |-> FALSE]
  /\ task_end_event = [e \in Ends |-> FALSE]

At(step, e) == ctl = [step |-> step, end |-> e]

(* The loop of pipeline_start / pipeline_stop moves to the next procedure. *)
NextProcedure(op, e) ==
  ctl' = IF e = "source" THEN [step |-> op, end |-> "target"]
                         ELSE [step |-> "idle", end |-> "source"]
-----------------------------------------------------------------------------
TaskBeginSilent(e) ==                \* mutant: the start event is not set
  /\ pc[e] = "parked"
  /\ queued[e]
  /\ queued' = [queued EXCEPT ![e] = FALSE]
  /\ Goto(e, "idle")
  /\ UNCHANGED <<task_list, task_ptr, event, is_running, desc, data, ctl,
                 task_start_event, task_end_event>>

(* The pool thread takes the task and announces that it started.           *)
TaskBegin(e) ==
  /\ pc[e] = "parked"
  /\ queued[e]
  /\ queued' = [queued EXCEPT ![e] = FALSE]
  /\ task_start_event' = [task_start_event EXCEPT ![e] = TRUE]
  /\ Goto(e, "idle")
  /\ UNCHANGED <<task_list, task_ptr, event, is_running, desc, data, ctl, task_end_event>>

TaskEndSilent(e) ==                  \* mutant: the end event is not set
  /\ pc[e] = "exited"
  /\ Goto(e, "parked")
  /\ UNCHANGED <<task_list, task_ptr, event, is_running, desc, data, ctl, taskVars>>

(* The task function's loop is over.                                       *)
TaskEnd(e) ==
  /\ pc[e] = "exited"
  /\ task_end_event' = [task_end_event EXCEPT ![e] = TRUE]
  /\ Goto(e, "parked")
  /\ UNCHANGED <<task_list, task_ptr, event, is_running, desc, data, ctl,
                 queued, task_start_event>>
-----------------------------------------------------------------------------
PipelineStart ==
  /\ ctl.step = "idle"
  /\ Len(task_list["source"]) <= MaxEntries
  /\ ctl' = [step |-> "start", end |-> "source"]
  /\ UNCHANGED <<connVars, taskVars>>

(***************************************************************************)
(* pipeline_procedure_start: unless running, the task's events are reset   *)
(* and it is queued, which lets the pool thread begin; is_running goes up  *)
(* only after that, and then the start event is waited for.                *)
(***************************************************************************)
StartRunning(e) ==
  /\ At("start", e)
  /\ is_running[e]
  /\ NextProcedure("start", e)
  /\ UNCHANGED <<connVars, taskVars>>

StartQueue(e) ==
  /\ At("start", e)
  /\ ~is_running[e]
  /\ task_end_event' = [task_end_event EXCEPT ![e] = FALSE]
  /\ task_start_event' = [task_start_event EXCEPT ![e] = FALSE]
  /\ queued' = [queued EXCEPT ![e] = TRUE]
  /\ ctl' = [ctl EXCEPT !.step = "run"]
  /\ UNCHANGED connVars

StartRun(e) ==
  /\ At("run", e)
  /\ is_running' = [is_running EXCEPT ![e] = TRUE]
  /\ ctl' = [ctl EXCEPT !.step = "waitStart"]
  /\ UNCHANGED <<task_list, task_ptr, event, pc, desc, data, taskVars>>

StartWait(e) ==
  /\ At("waitStart", e)
  /\ task_start_event[e]
  /\ task_start_event' = [task_start_event EXCEPT ![e] = FALSE]
  /\ NextProcedure("start", e)
  /\ UNCHANGED <<connVars, queued, task_end_event>>
-----------------------------------------------------------------------------
PipelineStop ==
  /\ ctl.step = "idle"
  /\ ctl' = [step |-> "stop", end |-> "source"]
  /\ UNCHANGED <<connVars, taskVars>>

(***************************************************************************)
(* pipeline_procedure_stop: a running procedure is shut down and its end   *)
(* awaited, and then, running or not, the lists of its outputs and inputs  *)
(* are reset - here the source has the output, the target the input.       *)
(***************************************************************************)
Reset(e) == IF e = "source" THEN "resetOutput" ELSE "resetInput"

StopTestAbrupt(e) ==                 \* mutant: reset without shutdown and wait
  /\ At("stop", e)
  /\ is_running' = [is_running EXCEPT ![e] = FALSE]
  /\ ctl' = [ctl EXCEPT !.step = Reset(e)]
  /\ UNCHANGED <<task_list, task_ptr, event, pc, desc, data, taskVars>>

StopTest(e) ==
  /\ At("stop", e)
  /\ IF is_running[e]
       THEN /\ is_running' = [is_running EXCEPT ![e] = FALSE]
            /\ ctl' = [ctl EXCEPT !.step = "lock"]
       ELSE /\ ctl' = [ctl EXCEPT !.step = Reset(e)]
            /\ UNCHANGED is_running
  /\ UNCHANGED <<task_list, task_ptr, event, pc, desc, data, taskVars>>

StopNoWait(e) ==                     \* mutant: the end event is not waited for
  /\ At("waitEnd", e)
  /\ ctl' = [ctl EXCEPT !.step = Reset(e)]
  /\ UNCHANGED <<connVars, taskVars>>

StopWait(e) ==
  /\ At("waitEnd", e)
  /\ task_end_event[e]
  /\ task_end_event' = [task_end_event EXCEPT ![e] = FALSE]
  /\ ctl' = [ctl EXCEPT !.step = Reset(e)]
  /\ UNCHANGED <<connVars, queued, task_start_event>>

ResetUnlocked(e) ==                  \* mutant: the list is cleared without being taken
  /\ At(Reset(e), e)
  /\ ctl' = [ctl EXCEPT !.step = IF e = "source" THEN "resetOutputHeld" ELSE "resetInputHeld"]
  /\ UNCHANGED <<connVars, taskVars>>

ResetLock(e) ==
  /\ At(Reset(e), e)
  /\ TakeList(e)
  /\ ctl' = [ctl EXCEPT !.step = IF e = "source" THEN "resetOutputHeld" ELSE "resetInputHeld"]
  /\ UNCHANGED <<task_list, event, is_running, pc, desc, data, taskVars>>

(* All the connection's descriptors go back into the source's list, also   *)
(* those that are in the target's list or hands at this moment.            *)
OutputResetHeld ==
  /\ At("resetOutputHeld", "source")
  /\ task_list' = [task_list EXCEPT !["source"] = [i \in Desc |-> i]]
  /\ event' = [event EXCEPT !["source"] = FALSE]
  /\ desc' = [desc EXCEPT !["source"] = Shutdown]
  /\ GiveList("source")
  /\ NextProcedure("stop", "source")
  /\ UNCHANGED <<is_running, pc, data, taskVars>>

InputResetHeld ==
  /\ At("resetInputHeld", "target")
  /\ task_list' = [task_list EXCEPT !["target"] = << >>]
  /\ event' = [event EXCEPT !["target"] = FALSE]
  /\ desc' = [desc EXCEPT !["target"] = Shutdown]
  /\ GiveList("target")
  /\ NextProcedure("stop", "target")
  /\ UNCHANGED <<is_running, pc, data, taskVars>>

OutputReset == ResetLock("source") \/ OutputResetHeld
InputReset  == ResetLock("target") \/ InputResetHeld
-----------------------------------------------------------------------------
ProcedureTask(e) == TaskBegin(e) \/ TaskEnd(e)

SourceThread == ProcedureTask("source") \/ (SourceWorker /\ UNCHANGED taskVars)
TargetThread == ProcedureTask("target") \/ (TargetWorker /\ UNCHANGED taskVars)

ProcedureStart(e) == StartRunning(e) \/ StartQueue(e) \/ StartRun(e) \/ StartWait(e)
ProcedureStop(e)  == StopTest(e) \/ StopWait(e)

Caller == \/ \E e \in Ends : ProcedureStart(e) \/ ProcedureStop(e)
          \/ ShutdownStep /\ UNCHANGED taskVars
          \/ OutputReset \/ InputReset

LifecycleNext == SourceThread \/ TargetThread \/ Caller \/ PipelineStart \/ PipelineStop

LifecycleSpec == LifecycleInit /\ [][LifecycleNext]_lifeVars

(* As in PipelineConnection; nothing makes the caller start or stop.       *)
LifecycleFairness ==
  /\ WF_lifeVars(SourceThread)
  /\ WF_lifeVars(TargetThread)
  /\ WF_lifeVars(Caller)
  /\ \A e \in Ends :
       /\ SF_lifeVars(WorkerSpins(e) /\ UNCHANGED taskVars)
       /\ SF_lifeVars(ShutdownLock(e) /\ UNCHANGED taskVars)
       /\ SF_lifeVars(ResetLock(e))

LifecycleFairSpec == LifecycleSpec /\ LifecycleFairness
-----------------------------------------------------------------------------
LifecycleTypeOK ==
  /\ task_list \in [Ends -> Seq(Entry)]
  /\ task_ptr \in [Ends -> {"list", "NULL"}]
  /\ event \in [Ends -> BOOLEAN]
  /\ is_running \in [Ends -> BOOLEAN]
  /\ pc \in [Ends -> WorkerLabels \cup {"parked"}]
  /\ desc \in [Ends -> Entry]
  /\ data \in [Desc -> Payload \cup {NoData}]
  /\ ctl \in [step : LifecycleSteps, end : Ends]
  /\ queued \in [Ends -> BOOLEAN]
  /\ task_start_event \in [Ends -> BOOLEAN]
  /\ task_end_event \in [Ends -> BOOLEAN]

(***************************************************************************)
(* ListExclusion with the thread that resets a list as one more holder.    *)
(***************************************************************************)
CallerHolds(e) == \/ At("held", e)
                  \/ e = "source" /\ At("resetOutputHeld", e)
                  \/ e = "target" /\ At("resetInputHeld", e)

LifecycleExclusion ==
  \A e \in Ends :
    /\ ~(OwnerHolds(e) /\ PeerHolds(e))
    /\ ~(OwnerHolds(e) /\ CallerHolds(e))
    /\ ~(PeerHolds(e) /\ CallerHolds(e))
    /\ task_ptr[e] = "NULL" <=> (OwnerHolds(e) \/ PeerHolds(e) \/ CallerHolds(e))

(***************************************************************************)
(* A procedure's own list is reset only when its worker has left the task: *)
(* the reset clears no list somebody is in the middle of reading from.     *)
(***************************************************************************)
ResetWhenParked ==
  \A e \in Ends :
    (CallerHolds(e) /\ ~At("held", e)) \/ At(Reset(e), e) => pc[e] = "parked"

(***************************************************************************)
(* pipeline_stop leaves nothing behind: when the caller is back, a         *)
(* procedure that is not running has no worker in its task and no task     *)
(* queued, so the next start begins from the beginning.                    *)
(***************************************************************************)
StoppedIsQuiet ==
  ctl.step = "idle" => \A e \in Ends : ~is_running[e] => pc[e] = "parked" /\ ~queued[e]

(* Starting and stopping a pipeline always returns to the caller.          *)
CallsReturn == \A op \in {"start", "stop"} : ctl.step = op ~> ctl.step = "idle"

(***************************************************************************)
(* "Start a procedure ... Returns TRUE if success" (pipeline_procedure.h   *)
(* 108-113): a procedure whose start returned has a worker calling its     *)
(* update function.                                                        *)
(***************************************************************************)
StartedRuns ==
  \A e \in Ends :
    is_running[e] /\ ctl.step = "idle" => pc[e] \notin {"parked", "exited"}
=============================================================================
