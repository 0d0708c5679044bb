------------------------------ MODULE AnyInput ------------------------------
(***************************************************************************)
(* A procedure with several inputs: handle_any_input and its siblings      *)
(* (pipeline_procedure.c), which share one event group between the inputs, *)
(* while every source commits buffers and the owner stops the procedure.   *)
(*                                                                         *)
(* PipelineConnection shows that the steps on one list exclude each other  *)
(* and EventGroup what a wait does, so a step on a list is one action here *)
(* and so is a wait, which is enabled once it can return.                  *)
(***************************************************************************)
EXTENDS GroupState, FiniteSets

CONSTANTS Order,     \* the inputs (Element) in the order of the hash map's iterator
          Buffers    \* max_data_num of every connection

VARIABLES incoming,    \* [input -> its task_list: "custom" or "shutdown" entries]
          free,        \* [input -> buffers in the list of its source's output]
          signals,     \* the sources between push_back and set_element
          group,       \* procedure->input_event
          is_running,  \* procedure->procedure_task->is_running
          pc,          \* where the worker is
          call,        \* the function it calls: "any", "tryAny", "one" or "tryOne"
          at,          \* the position of its iterator in Order
          ctl          \* the stopping thread: a step, and a position in Order

vars == <<incoming, free, signals, group, is_running, pc, call, at, ctl>>

sources == <<incoming, free, signals>>
worker  == <<pc, call, at>>

Calls == {"any", "tryAny", "one", "tryOne"}

\* pipeline_procedure_register_input adds the elements in any order
Init == /\ incoming = [i \in Element |-> <<>>]
        /\ free = [i \in Element |-> Buffers]
        /\ signals = {}
        /\ \E s \in [DOMAIN Order -> Element] :
             /\ \A i \in Element : \E k \in DOMAIN Order : s[k] = i
             /\ group = [EmptyGroup EXCEPT !.elements = s]
        /\ is_running = TRUE
        /\ pc = "update" /\ call = "any" /\ at = 1
        /\ ctl = [step |-> "idle", at |-> 1]

Push(i, type) == incoming' = [incoming EXCEPT ![i] = Append(@, type)]

(***************************************************************************)
(* The source of input i passes a buffer on.                               *)
(***************************************************************************)
Commit(i) == /\ free[i] > 0 /\ i \notin signals
             /\ free' = [free EXCEPT ![i] = @ - 1]
             /\ Push(i, "custom")
             /\ signals' = signals \cup {i}
             /\ UNCHANGED <<group, is_running, worker, ctl>>

Signal(i) == /\ i \in signals
             /\ signals' = signals \ {i}
             /\ group' = GroupSet(group, i)
             /\ UNCHANGED <<incoming, free, is_running, worker, ctl>>

(***************************************************************************)
(* The worker.  Every function looks at is_running first.                  *)
(***************************************************************************)
Update ==
  /\ pc = "update"
  /\ IF ~is_running THEN pc' = "exited" /\ UNCHANGED <<call, at>>
     ELSE \/ pc' = "scan" /\ at' = 1 /\ call' = "any"
          \/ pc' = "tryEvent" /\ at' = 1 /\ call' = "tryAny"
          \/ pc' = "scan" /\ call' \in {"one", "tryOne"} /\ at' \in DOMAIN Order
  /\ UNCHANGED <<sources, group, is_running, ctl>>

\* synchronize_event_group_try_wait_for_any, whose element nobody looks at
TryWaitForAny ==
  /\ pc = "tryEvent"
  /\ pc' = "scan"
  /\ group' = IF SetElements(group) = {} THEN group
              ELSE GroupReset(group, FirstSet(group))
  /\ UNCHANGED <<sources, is_running, call, at, ctl>>

\* what a function does when there is nothing, and no list left to look at
GiveUp == /\ pc' = (CASE call = "one" -> "waitOne" [] call = "any" -> "wait"
                      [] OTHER -> "update")
          /\ UNCHANGED at

\* mutant: the wait that follows the first empty list
EmptyAtFirst == GiveUp

\* where an empty list leaves each function
EmptyAt == IF call \in {"any", "tryAny"} /\ at < Len(Order)
           THEN pc' = "scan" /\ at' = at + 1
           ELSE GiveUp

\* input_try_get_data, or the test of input_get_data
GetData ==
  /\ pc = "scan"
  /\ LET i == Order[at]
     IN  IF incoming[i] = <<>> THEN EmptyAt
         ELSE /\ pc' = IF Head(incoming[i]) = "custom" THEN "use" ELSE "update"
              /\ UNCHANGED at
  /\ UNCHANGED <<sources, group, is_running, call, ctl>>

\* wait_for_any returned: handle_any_input begins its loop again
WaitForAny ==
  /\ pc = "wait" /\ SetElements(group) # {}
  /\ group' = GroupReset(group, FirstSet(group))
  /\ pc' = IF is_running THEN "scan" ELSE "update"
  /\ at' = 1
  /\ UNCHANGED <<sources, is_running, call, ctl>>

WaitForElement ==
  /\ pc = "waitOne" /\ group.flag[Order[at]]
  /\ group' = GroupReset(group, Order[at])
  /\ pc' = "scan"
  /\ UNCHANGED <<sources, is_running, call, at, ctl>>

\* config.input_data_handler
Handle == /\ pc = "use"
          /\ pc' \in {"moveon", "update"}
          /\ UNCHANGED <<sources, group, is_running, call, at, ctl>>

\* input_moveon; the buffer is back at its source when the function returns
MoveOn == /\ pc = "moveon"
          /\ incoming' = [incoming EXCEPT ![Order[at]] = Tail(@)]
          /\ free' = [free EXCEPT ![Order[at]] = @ + 1]
          /\ pc' = "update"
          /\ UNCHANGED <<signals, group, is_running, call, at, ctl>>

Worker == \/ Update \/ TryWaitForAny \/ GetData \/ WaitForAny \/ WaitForElement
          \/ Handle \/ MoveOn

(***************************************************************************)
(* pipeline_procedure_stop: the command goes to every input in turn.       *)
(***************************************************************************)
Stop == /\ ctl.step = "idle" /\ is_running
        /\ is_running' = FALSE
        /\ ctl' = [step |-> "push", at |-> 1]
        /\ UNCHANGED <<sources, group, worker>>

Shutdown == /\ ctl.step = "push"
            /\ Push(Order[ctl.at], "shutdown")
            /\ ctl' = [ctl EXCEPT !.step = "signal"]
            /\ UNCHANGED <<free, signals, group, is_running, worker>>

\* mutant: the first input alone is told
ShutdownSignalFirst ==
  /\ ctl.step = "signal"
  /\ group' = GroupSet(group, Order[ctl.at])
  /\ ctl' = [ctl EXCEPT !.step = "wait"]
  /\ UNCHANGED <<sources, is_running, worker>>

ShutdownSignal ==
  /\ ctl.step = "signal"
  /\ group' = GroupSet(group, Order[ctl.at])
  /\ ctl' = IF ctl.at < Len(Order) THEN [step |-> "push", at |-> ctl.at + 1]
            ELSE [ctl EXCEPT !.step = "wait"]
  /\ UNCHANGED <<sources, is_running, worker>>

TaskStop == /\ ctl.step = "wait" /\ pc = "exited"
            /\ ctl' = [ctl EXCEPT !.step = "stopped"]
            /\ UNCHANGED <<sources, group, is_running, worker>>

StopStep == Shutdown \/ ShutdownSignal \/ TaskStop

Next == \/ \E i \in Element : Commit(i) \/ Signal(i)
        \/ Worker \/ Stop \/ StopStep

Spec == Init /\ [][Next]_vars

\* Every thread goes on when it can; a source need not have anything to commit.
Fairness == /\ WF_vars(Worker) /\ WF_vars(StopStep)
            /\ \A i \in Element : WF_vars(Signal(i))

FairSpec == Spec /\ Fairness

-----------------------------------------------------------------------------
\* handle_any_input tests the lists one after the other and only then waits, and the
\* other functions take the events of buffers they leave: a worker waits beside a list
\* that is not empty only until the thread that filled it has set the event, and what
\* the handler accepted is still at the front when moveon takes it.
NoInputOverlooked ==
  /\ pc = "wait" => \/ \A i \in Element : incoming[i] = <<>>
                    \/ SetElements(group) # {} \/ signals # {} \/ ctl.step = "signal"
  /\ pc = "waitOne" /\ incoming[Order[at]] # <<>> =>
       \/ group.flag[Order[at]] \/ Order[at] \in signals
       \/ ctl = [step |-> "signal", at |-> at]
  /\ pc \in {"use", "moveon"} =>
       incoming[Order[at]] # <<>> /\ Head(incoming[Order[at]]) = "custom"

=============================================================================
