------------------------- MODULE PlayerControlProofs -------------------------
(***************************************************************************)
(* The safety of starting, pausing and stopping, for any MaxTasks and any  *)
(* number of calls.  The inductive invariant ties every label of the       *)
(* user's thread to what is queued, signalled and still running.           *)
(***************************************************************************)
EXTENDS PlayerControl, TLAPS

NoTaskLeft  == queue = 0 /\ control = "parked"
OneTask     == \/ queue = 1 /\ control = "parked"
               \/ queue = 0 /\ control # "parked"

(* What the user's thread may count on at each of its labels.              *)
UserInv ==
  /\ user \in {"idle", "start"} =>
       /\ ~m_endEvent
       /\ m_internalStatus = "Playing" => OneTask
       /\ m_internalStatus # "Playing" => NoTaskLeft
  /\ user \in {"start_set", "stop_pipeline", "stop_pipeline_wait", "clear"} =>
       NoTaskLeft /\ ~m_endEvent /\ m_internalStatus # "Playing"
  /\ user = "start_add" =>
       NoTaskLeft /\ ~m_endEvent /\ m_internalStatus = "Playing"
  /\ user \in {"pause_set", "stop_set"} =>
       OneTask /\ ~m_endEvent /\ m_internalStatus = "Playing"
  /\ user \in {"pause_wait", "stop_wait"} =>
       /\ m_internalStatus = IF user = "pause_wait" THEN "Pause" ELSE "Stop"
       /\ (OneTask /\ ~m_endEvent) \/ (NoTaskLeft /\ m_endEvent)

(* Past its loop, the control worker has a user waiting for it.            *)
ControlInv ==
  /\ control \in {"end", "listener", "stop_pipeline", "stop_pipeline_wait", "signal"} =>
       user \in {"pause_wait", "stop_wait"}
  /\ control = "listener" /\ m_status = "Stop" => user = "stop_wait"
  /\ control \in {"stop_pipeline", "stop_pipeline_wait"} => user = "stop_wait"
  /\ control \notin {"stop_set", "wait_for_itself"}

Stopping == user = "stop_pipeline_wait" \/ control = "stop_pipeline_wait"

(* is_running, the workers and their end event.                            *)
PipelineInv ==
  /\ is_running => workers = "working" /\ ~Stopping
  /\ workers = "working" => ~task_end_event
  /\ ~is_running =>
       (Stopping <=> (workers = "working" \/ task_end_event))
  /\ user = "clear" => ~is_running

(* The bound on the queue is respected also after a disturbance.           *)
RoomToAdd == user \in {"start", "start_set", "start_add"} => queue < MaxTasks

IInv == TypeOK /\ RoomToAdd /\ (~disturbed => UserInv /\ ControlInv /\ PipelineInv)

LEMMA InitHolds == Init => IInv
<1> SUFFICES ASSUME Init PROVE IInv  OBVIOUS
<1> USE DEF Init
<1>1. TypeOK
  <2>1. /\ m_internalStatus \in Statuses
        /\ m_status \in {"Stop", "Playing", "Pause", "Pending"}
        /\ queue \in 0..MaxTasks
        /\ workers \in {"working", "parked"}
        /\ user \in UserLabels
        /\ control \in ControlLabels
    BY ControlAssumption DEF Statuses, UserLabels, ControlLabels
  <2>2. /\ m_endEvent \in BOOLEAN /\ built \in BOOLEAN /\ is_running \in BOOLEAN
        /\ task_end_event \in BOOLEAN /\ disturbed \in BOOLEAN
    OBVIOUS
  <2> QED BY <2>1, <2>2 DEF TypeOK
<1>2. RoomToAdd  BY DEF RoomToAdd
<1>3. UserInv /\ ControlInv
  BY DEF UserInv, ControlInv, NoTaskLeft, OneTask
<1>4. PipelineInv  BY DEF PipelineInv, Stopping
<1> QED BY <1>1, <1>2, <1>3, <1>4 DEF IInv

-----------------------------------------------------------------------------
(* The steps of the user's thread preserve the invariant.                  *)
LEMMA UserSteps ==
  ASSUME IInv, UserCalls \/ UserGoesOn
  PROVE  IInv'
<1> USE DEF pipeline, Statuses, UserLabels, ControlLabels, IInv, TypeOK, RoomToAdd
<1>1. CASE PrepareToPlay
  BY <1>1 DEF PrepareToPlay, UserInv, ControlInv, PipelineInv, NoTaskLeft, OneTask, Stopping
<1>2. CASE PipelineStart
  BY <1>2 DEF PipelineStart, UserInv, ControlInv, PipelineInv, NoTaskLeft, OneTask, Stopping
<1>3. CASE StartTest
  BY <1>3 DEF StartTest, UserInv, ControlInv, PipelineInv, NoTaskLeft, OneTask, Stopping
<1>4. CASE StartSet
  BY <1>4 DEF StartSet, UserInv, ControlInv, PipelineInv, NoTaskLeft, OneTask, Stopping
<1>5. CASE StartAdd
  <2> USE <1>5 DEF StartAdd
  <2>0. queue' \in 0..MaxTasks  BY ControlAssumption
  <2>1. TypeOK'  BY <2>0, Zenon
  <2>2. ASSUME ~disturbed' PROVE UserInv' /\ ControlInv'
    BY <2>2 DEF UserInv, ControlInv, NoTaskLeft, OneTask
  <2>3. ASSUME ~disturbed' PROVE PipelineInv'
    BY <2>3 DEF UserInv, ControlInv, PipelineInv, Stopping
  <2>4. RoomToAdd'  OBVIOUS
  <2> HIDE DEF TypeOK, RoomToAdd
  <2> QED BY <2>1, <2>2, <2>3, <2>4
<1>6. CASE PauseTest
  BY <1>6 DEF PauseTest, UserInv, ControlInv, PipelineInv, NoTaskLeft, OneTask, Stopping
<1>7. CASE PauseSet
  BY <1>7 DEF PauseSet, UserInv, ControlInv, PipelineInv, NoTaskLeft, OneTask, Stopping
<1>8. CASE PauseWait
  <2> USE <1>8 DEF PauseWait
  <2>0. user' \in UserLabels  OBVIOUS
  <2> HIDE DEF UserLabels
  <2>1. TypeOK'  BY <2>0, Zenon
  <2>2. ASSUME ~disturbed PROVE UserInv' /\ ControlInv'
    BY <2>2 DEF UserInv, ControlInv, NoTaskLeft, OneTask
  <2>3. ASSUME ~disturbed PROVE PipelineInv'
    BY <2>3 DEF UserInv, ControlInv, PipelineInv, Stopping
  <2>4. RoomToAdd'  OBVIOUS
  <2> HIDE DEF TypeOK, RoomToAdd
  <2> QED BY <2>1, <2>2, <2>3, <2>4
<1>9. CASE StopTest
  BY <1>9 DEF StopTest, UserInv, ControlInv, PipelineInv, NoTaskLeft, OneTask, Stopping
<1>10. CASE StopSet
  BY <1>10 DEF StopSet, UserInv, ControlInv, PipelineInv, NoTaskLeft, OneTask, Stopping
<1>11. CASE StopWait
  <2> USE <1>11 DEF StopWait
  <2>0. user' \in UserLabels  OBVIOUS
  <2> HIDE DEF UserLabels
  <2>1. TypeOK'  BY <2>0, Zenon
  <2>2. ASSUME ~disturbed PROVE UserInv' /\ ControlInv'
    BY <2>2 DEF UserInv, ControlInv, NoTaskLeft, OneTask
  <2>3. ASSUME ~disturbed PROVE PipelineInv'
    BY <2>3 DEF UserInv, ControlInv, PipelineInv, Stopping
  <2>4. RoomToAdd'  OBVIOUS
  <2> HIDE DEF TypeOK, RoomToAdd
  <2> QED BY <2>1, <2>2, <2>3, <2>4
<1>12. CASE PipelineStop
  <2> USE <1>12 DEF PipelineStop
  <2>0. user' \in UserLabels  OBVIOUS
  <2> HIDE DEF UserLabels
  <2>1. TypeOK'  BY <2>0, Zenon
  <2>2. ASSUME ~disturbed PROVE UserInv' /\ ControlInv'
    BY <2>2 DEF UserInv, ControlInv, NoTaskLeft, OneTask
  <2>3. ASSUME ~disturbed PROVE PipelineInv'
    BY <2>3 DEF UserInv, ControlInv, PipelineInv, Stopping
  <2>4. RoomToAdd'  OBVIOUS
  <2> HIDE DEF TypeOK, RoomToAdd
  <2> QED BY <2>1, <2>2, <2>3, <2>4
<1>13. CASE PipelineStopWait
  <2> USE <1>13 DEF PipelineStopWait
  <2>0. user' \in UserLabels  OBVIOUS
  <2> HIDE DEF UserLabels
  <2>1. TypeOK'  BY <2>0, Zenon
  <2>2. ASSUME ~disturbed PROVE UserInv' /\ ControlInv'
    BY <2>2 DEF UserInv, ControlInv, NoTaskLeft, OneTask
  <2>3. ASSUME ~disturbed PROVE PipelineInv'
    BY <2>3 DEF UserInv, ControlInv, PipelineInv, Stopping
  <2>4. RoomToAdd'  OBVIOUS
  <2> HIDE DEF TypeOK, RoomToAdd
  <2> QED BY <2>1, <2>2, <2>3, <2>4
<1>14. CASE PipelineClear
  <2> USE <1>14 DEF PipelineClear
  <2>0. user' \in UserLabels  OBVIOUS
  <2> HIDE DEF UserLabels
  <2>1. TypeOK'  BY <2>0, Zenon
  <2>2. ASSUME ~disturbed PROVE UserInv' /\ ControlInv'
    BY <2>2 DEF UserInv, ControlInv, NoTaskLeft, OneTask
  <2>3. ASSUME ~disturbed PROVE PipelineInv'
    BY <2>3 DEF UserInv, ControlInv, PipelineInv, Stopping
  <2>4. RoomToAdd'  OBVIOUS
  <2> HIDE DEF TypeOK, RoomToAdd
  <2> QED BY <2>1, <2>2, <2>3, <2>4
<1> QED BY <1>1, <1>2, <1>3, <1>4, <1>5, <1>6, <1>7, <1>8, <1>9, <1>10, <1>11,
           <1>12, <1>13, <1>14 DEF UserCalls, UserGoesOn

(* So do the steps of the control worker.                                  *)
LEMMA ControlSteps ==
  ASSUME IInv, TaskFunction
  PROVE  IInv'
<1> USE DEF pipeline, Statuses, UserLabels, ControlLabels, IInv, TypeOK, RoomToAdd
<1>1. CASE TaskBegin
  BY <1>1, ControlAssumption DEF TaskBegin, UserInv, ControlInv, PipelineInv, NoTaskLeft, OneTask, Stopping
<1>2. CASE LoopTest
  BY <1>2 DEF LoopTest, UserInv, ControlInv, PipelineInv, NoTaskLeft, OneTask, Stopping
<1>3. CASE Update
  BY <1>3 DEF Update, UserInv, ControlInv, PipelineInv, NoTaskLeft, OneTask, Stopping
<1>4. CASE EndStatus
  BY <1>4 DEF EndStatus, UserInv, ControlInv, PipelineInv, NoTaskLeft, OneTask, Stopping
<1>5. CASE ListenerPaused
  BY <1>5 DEF ListenerPaused, UserInv, ControlInv, PipelineInv, NoTaskLeft, OneTask, Stopping
<1>6. CASE ListenerStopped
  BY <1>6 DEF ListenerStopped, UserInv, ControlInv, PipelineInv, NoTaskLeft, OneTask, Stopping
<1>7. CASE ListenerSet
  BY <1>7 DEF ListenerSet, UserInv, ControlInv, PipelineInv, NoTaskLeft, OneTask, Stopping
<1>8. CASE ListenerWait
  <2> USE <1>8 DEF ListenerWait
  <2>0. control' \in ControlLabels  OBVIOUS
  <2> HIDE DEF ControlLabels
  <2>1. TypeOK'  BY <2>0, Zenon
  <2>2. ASSUME ~disturbed PROVE UserInv' /\ ControlInv'
    BY <2>2 DEF UserInv, ControlInv, NoTaskLeft, OneTask
  <2>3. ASSUME ~disturbed PROVE PipelineInv'
    BY <2>3 DEF UserInv, ControlInv, PipelineInv, Stopping
  <2>4. RoomToAdd'  OBVIOUS
  <2> HIDE DEF TypeOK, RoomToAdd
  <2> QED BY <2>1, <2>2, <2>3, <2>4
<1>9. CASE ListenerPipelineStop
  <2> USE <1>9 DEF ListenerPipelineStop
  <2>0. control' \in ControlLabels  OBVIOUS
  <2> HIDE DEF ControlLabels
  <2>1. TypeOK'  BY <2>0, Zenon
  <2>2. ASSUME ~disturbed PROVE UserInv' /\ ControlInv'
    BY <2>2 DEF UserInv, ControlInv, NoTaskLeft, OneTask
  <2>3. ASSUME ~disturbed PROVE PipelineInv'
    BY <2>3 DEF UserInv, ControlInv, PipelineInv, Stopping
  <2>4. RoomToAdd'  OBVIOUS
  <2> HIDE DEF TypeOK, RoomToAdd
  <2> QED BY <2>1, <2>2, <2>3, <2>4
<1>10. CASE ListenerPipelineWait
  <2> USE <1>10 DEF ListenerPipelineWait
  <2>0. control' \in ControlLabels  OBVIOUS
  <2> HIDE DEF ControlLabels
  <2>1. TypeOK'  BY <2>0, Zenon
  <2>2. ASSUME ~disturbed PROVE UserInv' /\ ControlInv'
    BY <2>2 DEF UserInv, ControlInv, NoTaskLeft, OneTask
  <2>3. ASSUME ~disturbed PROVE PipelineInv'
    BY <2>3 DEF UserInv, ControlInv, PipelineInv, Stopping
  <2>4. RoomToAdd'  OBVIOUS
  <2> HIDE DEF TypeOK, RoomToAdd
  <2> QED BY <2>1, <2>2, <2>3, <2>4
<1>11. CASE TaskEnd
  BY <1>11 DEF TaskEnd, UserInv, ControlInv, PipelineInv, NoTaskLeft, OneTask, Stopping
<1> QED BY <1>1, <1>2, <1>3, <1>4, <1>5, <1>6, <1>7, <1>8, <1>9, <1>10, <1>11
        DEF TaskFunction

(* And those of the pipeline's workers.                                    *)
LEMMA WorkerSteps ==
  ASSUME IInv, EndOfStream \/ WorkersLeave
  PROVE  IInv'
<1> USE DEF pipeline, Statuses, UserLabels, ControlLabels, IInv, TypeOK, RoomToAdd
<1>1. CASE EndOfStream
  BY <1>1 DEF EndOfStream
<1>2. CASE WorkersLeave
  BY <1>2 DEF WorkersLeave, UserInv, ControlInv, PipelineInv, NoTaskLeft,
     OneTask, Stopping
<1> QED BY <1>1, <1>2

(* The inductive invariant holds in every reachable state.                 *)
LEMMA Invariance == Spec => []IInv
<1>1. IInv /\ [Next]_vars => IInv'
  <2> SUFFICES ASSUME IInv, [Next]_vars PROVE IInv'  OBVIOUS
  <2>1. CASE UNCHANGED vars
    BY <2>1 DEF vars, pipeline, Statuses, UserLabels, ControlLabels, IInv, TypeOK, RoomToAdd, UserInv, ControlInv, PipelineInv,
       NoTaskLeft, OneTask, Stopping
  <2>2. CASE Next
    BY <2>2, UserSteps, ControlSteps, WorkerSteps DEF Next
  <2> QED BY <2>1, <2>2
<1> QED BY <1>1, InitHolds, PTL DEF Spec

-----------------------------------------------------------------------------
(* Types.                                                                  *)
THEOREM TypeCorrect == Spec => []TypeOK
<1>1. IInv => TypeOK BY DEF IInv
<1> QED BY <1>1, Invariance, PTL

(***************************************************************************)
(* Between calls one execution of TaskFunction exists exactly if the       *)
(* player is to play, and no end event is left over (PlayerControl::Start, *)
(* Pause and Stop against TaskFunction).                                   *)
(***************************************************************************)
THEOREM ControlMatches == Spec => []ControlMatchesStatus
<1>1. IInv => ControlMatchesStatus
  BY DEF IInv, TypeOK, UserInv, NoTaskLeft, OneTask, ControlMatchesStatus
<1> QED BY <1>1, Invariance, PTL

(***************************************************************************)
(* The user's pipeline_stop and pipeline_clear never overlap with the      *)
(* listener's pipeline_stop on the control worker.                         *)
(***************************************************************************)
THEOREM StopsApart == Spec => []PipelineStopsApart
<1>1. IInv => PipelineStopsApart
  BY DEF IInv, TypeOK, UserInv, ControlInv, PipelineInv, NoTaskLeft, Stopping,
     PipelineStopsApart
<1> QED BY <1>1, Invariance, PTL
=============================================================================
