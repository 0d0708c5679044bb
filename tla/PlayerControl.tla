---------------------------- MODULE PlayerControl ----------------------------
(***************************************************************************)
(* Starting, pausing and stopping the player: PlayerControl.cpp, and       *)
(* VideoPlayerInternal.cpp around it.                                      *)
(*                                                                         *)
(* The user's thread asks for a new state by writing m_internalStatus and  *)
(* waits for m_endEvent; the control worker, which runs TaskFunction, sees *)
(* the change, tells the status listener - VideoPlayerInternal itself,     *)
(* which stops the pipeline - and sets m_endEvent.  The data source writes *)
(* m_internalStatus too, at the end of the stream.                         *)
(*                                                                         *)
(* The workers of the pipeline are taken as one here: pipeline_stop clears *)
(* is_running and waits until they have left (ProcedureLifecycle has the   *)
(* detail).  Which of Playing and Pending an update reports depends on     *)
(* progress times that are not modelled, so it is a free choice.           *)
(***************************************************************************)
EXTENDS Naturals

CONSTANT MaxTasks    \* bound: no start with more than that many tasks queued

ASSUME ControlAssumption == MaxTasks \in Nat \ {0}

VARIABLES
  m_internalStatus,   \* what is asked for: "Stop", "Playing" or "Pause"
  m_status,           \* what is reported: one of these or "Pending"
  m_endEvent,         \* auto-reset event, set when TaskFunction ends
  queue,              \* times that m_task is in m_queue
  built,              \* the pipeline's procedures exist
  is_running,         \* of the pipeline's procedures, taken together
  task_end_event,     \* of the pipeline's procedures: their workers have left
  workers,            \* the pipeline's workers: "working" or "parked"
  user,               \* where the user's thread is
  control,            \* where the control worker is
  disturbed           \* history: the stream has ended or a task was refused

pipeline == <<built, is_running, task_end_event>>
vars == <<m_internalStatus, m_status, m_endEvent, queue, pipeline, workers,
          user, control, disturbed>>

Init == /\ m_internalStatus = "Stop"
        /\ m_status = "Stop"
        /\ m_endEvent = FALSE
        /\ queue = 0
        /\ built = FALSE
        /\ is_running = FALSE
        /\ task_end_event = FALSE
        /\ workers = "parked"
        /\ user = "idle"
        /\ control = "parked"
        /\ disturbed = FALSE

-----------------------------------------------------------------------------
(* VideoPlayerInternal::PrepareToPlay, when it succeeds.                   *)
PrepareToPlay ==
  /\ user = "idle"
  /\ ~built
  /\ built' = TRUE
  /\ UNCHANGED <<m_internalStatus, m_status, m_endEvent, queue, is_running,
                 task_end_event, workers, user, control, disturbed>>

(***************************************************************************)
(* VideoPlayerInternal::Start: pipeline_start, then PlayerControl::Start.  *)
(***************************************************************************)
PipelineStart ==
  /\ user = "idle"
  /\ built
  /\ queue < MaxTasks
  /\ IF is_running
     THEN UNCHANGED <<pipeline, workers>>
     ELSE /\ is_running' = TRUE
          /\ task_end_event' = FALSE
          /\ workers' = "working"
          /\ UNCHANGED built
  /\ user' = "start"
  /\ UNCHANGED <<m_internalStatus, m_status, m_endEvent, queue, control,
                 disturbed>>

\* mutant: a start while playing is not ignored
StartTestAlways ==
  /\ user = "start"
  /\ user' = "start_set"
  /\ UNCHANGED <<m_internalStatus, m_status, m_endEvent, queue, pipeline,
                 workers, control, disturbed>>

StartTest ==
  /\ user = "start"
  /\ user' = IF m_internalStatus = "Playing" THEN "idle" ELSE "start_set"
  /\ UNCHANGED <<m_internalStatus, m_status, m_endEvent, queue, pipeline,
                 workers, control, disturbed>>

StartSet ==
  /\ user = "start_set"
  /\ m_internalStatus' = "Playing"
  /\ user' = "start_add"
  /\ UNCHANGED <<m_status, m_endEvent, queue, pipeline, workers, control,
                 disturbed>>

StartAdd ==
  /\ user = "start_add"
  /\ \/ /\ queue' = queue + 1
        /\ UNCHANGED <<m_status, disturbed>>
     \/ /\ m_status' = "Stop"           \* task_queue_add_task failed
        /\ disturbed' = TRUE
        /\ UNCHANGED queue
  /\ user' = "idle"
  /\ UNCHANGED <<m_internalStatus, m_endEvent, pipeline, workers, control>>

(***************************************************************************)
(* PlayerControl::Pause.                                                   *)
(***************************************************************************)
PauseTest ==
  /\ user = "idle"
  /\ m_internalStatus = "Playing"
  /\ user' = "pause_set"
  /\ UNCHANGED <<m_internalStatus, m_status, m_endEvent, queue, pipeline,
                 workers, control, disturbed>>

PauseSet ==
  /\ user = "pause_set"
  /\ m_internalStatus' = "Pause"
  /\ user' = "pause_wait"
  /\ UNCHANGED <<m_status, m_endEvent, queue, pipeline, workers, control,
                 disturbed>>

\* mutant: the task is not waited for
PauseNoWait ==
  /\ user = "pause_wait"
  /\ user' = "idle"
  /\ UNCHANGED <<m_internalStatus, m_status, m_endEvent, queue, pipeline,
                 workers, control, disturbed>>

PauseWait ==
  /\ user = "pause_wait"
  /\ m_endEvent
  /\ m_endEvent' = FALSE
  /\ user' = "idle"
  /\ UNCHANGED <<m_internalStatus, m_status, queue, pipeline, workers, control,
                 disturbed>>

(***************************************************************************)
(* VideoPlayerInternal::Stop: PlayerControl::Stop, pipeline_stop, and      *)
(* Reset with its pipeline_clear.                                          *)
(***************************************************************************)
StopTest ==
  /\ user = "idle"
  /\ built
  /\ user' = IF m_internalStatus = "Playing" THEN "stop_set" ELSE "stop_pipeline"
  /\ UNCHANGED <<m_internalStatus, m_status, m_endEvent, queue, pipeline,
                 workers, control, disturbed>>

StopSet ==
  /\ user = "stop_set"
  /\ m_internalStatus' = "Stop"
  /\ user' = "stop_wait"
  /\ UNCHANGED <<m_status, m_endEvent, queue, pipeline, workers, control,
                 disturbed>>

StopWait ==
  /\ user = "stop_wait"
  /\ m_endEvent
  /\ m_endEvent' = FALSE
  /\ user' = "stop_pipeline"
  /\ UNCHANGED <<m_internalStatus, m_status, queue, pipeline, workers, control,
                 disturbed>>

PipelineStop ==
  /\ user = "stop_pipeline"
  /\ \/ is_running /\ user' = "stop_pipeline_wait"
     \/ ~is_running /\ user' = "clear"
  /\ is_running' = FALSE
  /\ UNCHANGED <<m_internalStatus, m_status, m_endEvent, queue, built,
                 task_end_event, workers, control, disturbed>>

PipelineStopWait ==
  /\ user = "stop_pipeline_wait"
  /\ task_end_event
  /\ task_end_event' = FALSE
  /\ user' = "clear"
  /\ UNCHANGED <<m_internalStatus, m_status, m_endEvent, queue, built,
                 is_running, workers, control, disturbed>>

PipelineClear ==
  /\ user = "clear"
  /\ built' = FALSE
  /\ user' = "idle"
  /\ UNCHANGED <<m_internalStatus, m_status, m_endEvent, queue, is_running,
                 task_end_event, workers, control, disturbed>>

-----------------------------------------------------------------------------
(* TaskFunction, from its first statement to its last.                     *)
TaskBegin ==
  /\ control = "parked"
  /\ queue > 0
  /\ queue' = queue - 1
  /\ m_status' = "Pending"
  /\ control' = "loop"
  /\ UNCHANGED <<m_internalStatus, m_endEvent, pipeline, workers, user,
                 disturbed>>

LoopTest ==
  /\ control = "loop"
  /\ control' = IF m_internalStatus = "Playing" THEN "update" ELSE "end"
  /\ UNCHANGED <<m_internalStatus, m_status, m_endEvent, queue, pipeline,
                 workers, user, disturbed>>

Update ==
  /\ control = "update"
  /\ \/ m_internalStatus = "Playing" /\ m_status' \in {"Playing", "Pending"}
     \/ UNCHANGED m_status
  /\ control' = "loop"
  /\ UNCHANGED <<m_internalStatus, m_endEvent, queue, pipeline, workers, user,
                 disturbed>>

EndStatus ==
  /\ control = "end"
  /\ m_status' = IF m_internalStatus = "Stop" THEN "Stop" ELSE "Pause"
  /\ control' = "listener"
  /\ UNCHANGED <<m_internalStatus, m_endEvent, queue, pipeline, workers, user,
                 disturbed>>

(***************************************************************************)
(* VideoPlayerInternal::OnStatusChanged, on the control worker: for a stop *)
(* it calls PlayerControl::Stop itself, and then pipeline_stop.            *)
(***************************************************************************)
ListenerPaused ==
  /\ control = "listener"
  /\ m_status # "Stop"
  /\ control' = "signal"
  /\ UNCHANGED <<m_internalStatus, m_status, m_endEvent, queue, pipeline,
                 workers, user, disturbed>>

ListenerStopped ==
  /\ control = "listener"
  /\ m_status = "Stop"
  /\ \/ /\ m_internalStatus = "Playing"    \* started again in the meantime
        /\ control' = "stop_set"
     \/ /\ m_internalStatus # "Playing"
        /\ control' = "stop_pipeline"
  /\ UNCHANGED <<m_internalStatus, m_status, m_endEvent, queue, pipeline,
                 workers, user, disturbed>>

ListenerSet ==
  /\ control = "stop_set"
  /\ m_internalStatus' = "Stop"
  /\ control' = "wait_for_itself"
  /\ UNCHANGED <<m_status, m_endEvent, queue, pipeline, workers, user,
                 disturbed>>

ListenerWait ==
  /\ control = "wait_for_itself"
  /\ m_endEvent
  /\ m_endEvent' = FALSE
  /\ control' = "stop_pipeline"
  /\ UNCHANGED <<m_internalStatus, m_status, queue, pipeline, workers, user,
                 disturbed>>

ListenerPipelineStop ==
  /\ control = "stop_pipeline"
  /\ \/ is_running /\ control' = "stop_pipeline_wait"
     \/ ~is_running /\ control' = "signal"
  /\ is_running' = FALSE
  /\ UNCHANGED <<m_internalStatus, m_status, m_endEvent, queue, built,
                 task_end_event, workers, user, disturbed>>

ListenerPipelineWait ==
  /\ control = "stop_pipeline_wait"
  /\ task_end_event
  /\ task_end_event' = FALSE
  /\ control' = "signal"
  /\ UNCHANGED <<m_internalStatus, m_status, m_endEvent, queue, built,
                 is_running, workers, user, disturbed>>

\* mutant: the event is not set
TaskEndSilent ==
  /\ control = "signal"
  /\ control' = "parked"
  /\ UNCHANGED <<m_internalStatus, m_status, m_endEvent, queue, pipeline,
                 workers, user, disturbed>>

TaskEnd ==
  /\ control = "signal"
  /\ m_endEvent' = TRUE
  /\ control' = "parked"
  /\ UNCHANGED <<m_internalStatus, m_status, queue, pipeline, workers, user,
                 disturbed>>

-----------------------------------------------------------------------------
(* The pipeline's workers: the source at the end of the stream, which calls*)
(* StopAsynchronize, and all of them when is_running is no longer set.     *)
EndOfStream ==
  /\ workers = "working"
  /\ m_internalStatus' = "Stop"
  /\ disturbed' = TRUE
  /\ UNCHANGED <<m_status, m_endEvent, queue, pipeline, workers, user, control>>

WorkersLeave ==
  /\ workers = "working"
  /\ ~is_running
  /\ workers' = "parked"
  /\ task_end_event' = TRUE
  /\ UNCHANGED <<m_internalStatus, m_status, m_endEvent, queue, built,
                 is_running, user, control, disturbed>>

-----------------------------------------------------------------------------
UserCalls == PrepareToPlay \/ PipelineStart \/ PauseTest \/ StopTest

UserGoesOn == \/ StartTest \/ StartSet \/ StartAdd
              \/ PauseSet \/ PauseWait
              \/ StopSet \/ StopWait
              \/ PipelineStop \/ PipelineStopWait \/ PipelineClear

TaskFunction == \/ TaskBegin \/ LoopTest \/ Update \/ EndStatus
                \/ ListenerPaused \/ ListenerStopped
                \/ ListenerSet \/ ListenerWait
                \/ ListenerPipelineStop \/ ListenerPipelineWait
                \/ TaskEnd

Next == UserCalls \/ UserGoesOn \/ TaskFunction \/ EndOfStream \/ WorkersLeave

Spec == Init /\ [][Next]_vars

(* Every thread is scheduled; the user need not call, the stream not end.  *)
FairSpec == /\ Spec
            /\ WF_vars(UserGoesOn)
            /\ WF_vars(TaskFunction)
            /\ WF_vars(WorkersLeave)

-----------------------------------------------------------------------------
Statuses == {"Stop", "Playing", "Pause"}

UserLabels == {"idle", "start", "start_set", "start_add", "pause_set", "pause_wait",
               "stop_set", "stop_wait", "stop_pipeline", "stop_pipeline_wait", "clear"}

ControlLabels == {"parked", "loop", "update", "end", "listener", "stop_set", "wait_for_itself",
                  "stop_pipeline", "stop_pipeline_wait", "signal"}

(* Types.                                                                  *)
TypeOK ==
  /\ m_internalStatus \in Statuses
  /\ m_status \in {"Stop", "Playing", "Pause", "Pending"}
  /\ m_endEvent \in BOOLEAN
  /\ queue \in 0..MaxTasks
  /\ built \in BOOLEAN
  /\ is_running \in BOOLEAN
  /\ task_end_event \in BOOLEAN
  /\ workers \in {"working", "parked"}
  /\ user \in UserLabels
  /\ control \in ControlLabels
  /\ disturbed \in BOOLEAN

(***************************************************************************)
(* Between two calls of the user there is exactly one execution of         *)
(* TaskFunction, queued or under way, if the player is to play, and none   *)
(* otherwise; and no end event is left over for the next Pause or Stop to  *)
(* take for its own.  The end of the stream breaks this (see README).      *)
(***************************************************************************)
ControlMatchesStatus ==
  ~disturbed /\ user = "idle" =>
    /\ queue + (IF control = "parked" THEN 0 ELSE 1)
         = (IF m_internalStatus = "Playing" THEN 1 ELSE 0)
    /\ ~m_endEvent

(***************************************************************************)
(* The user's thread stops and clears the pipeline only when the control   *)
(* worker is through with it and all workers of the pipeline have left:    *)
(* the listener's pipeline_stop and the user's never overlap.              *)
(***************************************************************************)
PipelineStopsApart ==
  ~disturbed =>
    /\ user \in {"stop_pipeline", "stop_pipeline_wait", "clear"} => control = "parked"
    /\ user = "clear" => workers = "parked" /\ ~task_end_event

(***************************************************************************)
(* Every call of the user returns, whatever the worker is doing.  And the  *)
(* end of the stream stops the player without the user: while it makes no  *)
(* call, the control worker that finds the request to stop has the whole   *)
(* pipeline stopped and reports it.                                        *)
(***************************************************************************)
CallsReturn ==
  /\ user # "idle" ~> (user = "idle" \/ disturbed)
  /\ (control = "loop" /\ m_internalStatus = "Stop" /\ user = "idle")
       ~> (user # "idle" \/ (workers = "parked" /\ m_status = "Stop"))
=============================================================================
