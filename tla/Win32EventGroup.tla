--------------------------- MODULE Win32EventGroup ---------------------------
(***************************************************************************)
(* The synchronize_event_group of platforms/win32: one manual-reset event  *)
(* of Windows wakes the waiters of the whole group.  SetEvent comes after  *)
(* the mutex was released, and a waiter resets the event, without the      *)
(* mutex, between its waking and its next look at the elements.            *)
(*                                                                         *)
(* What is done between taking the mutex and releasing it is one action.   *)
(* Each group has one thread that waits (a processor's for its queues, a   *)
(* procedure's for its inputs): two could lose a wakeup to each other's    *)
(* ResetEvent.  wait_for_all, which nothing calls, is left out.            *)
(***************************************************************************)
EXTENDS GroupState, Naturals

CONSTANTS Threads,      \* the threads that wait
          MaxPending    \* bound: calls between releasing the mutex and SetEvent

VARIABLES group,     \* elements and flags
          event,     \* group->event is signalled
          pending,   \* SetEvents still to come
          pc,        \* [thread -> "out" | "testing" | "waiting" | "awake"]
          call,      \* [thread -> the wait function it is in]
          iter       \* [thread -> the element it waits for]

vars == <<group, event, pending, pc, call, iter>>

NoElement == "NULL"

Init == /\ group = EmptyGroup
        /\ event = FALSE
        /\ pending = 0
        /\ pc = [t \in Threads |-> "out"]
        /\ call = [t \in Threads |-> "any"]
        /\ iter = [t \in Threads |-> NoElement]

Goto(t, label) == pc' = [pc EXCEPT ![t] = label]

AddElement == \E e \in Element \ Present(group) :
                /\ group' = GroupAdd(group, e)
                /\ UNCHANGED <<event, pending, pc, call, iter>>

\* mutant: no SetEvent when an element goes
RemoveElementQuietly(e) == /\ e \in Present(group)
                           /\ \A t \in Threads : pc[t] # "out" => iter[t] # e
                           /\ group' = GroupRemove(group, e)
                           /\ UNCHANGED <<event, pending, pc, call, iter>>

RemoveElement(e) == /\ e \in Present(group)
                    /\ \A t \in Threads : pc[t] # "out" => iter[t] # e
                    /\ pending < MaxPending
                    /\ group' = GroupRemove(group, e)
                    /\ pending' = pending + 1
                    /\ UNCHANGED <<event, pc, call, iter>>

SetElement(e) == /\ e \in Present(group)
                 /\ pending < MaxPending
                 /\ group' = GroupSet(group, e)
                 /\ pending' = pending + 1
                 /\ UNCHANGED <<event, pc, call, iter>>

\* the end of set_element and of remove_element
SetEvent == /\ pending > 0
            /\ event' = TRUE
            /\ pending' = pending - 1
            /\ UNCHANGED <<group, pc, call, iter>>

ResetElement(e) == /\ e \in Present(group)
                   /\ group' = GroupReset(group, e)
                   /\ UNCHANGED <<event, pending, pc, call, iter>>

TryWaitForAny == /\ SetElements(group) # {}
                 /\ group' = GroupReset(group, FirstSet(group))
                 /\ UNCHANGED <<event, pending, pc, call, iter>>

TryWaitForElement(e) == /\ e \in Present(group)
                        /\ group' = GroupReset(group, e)
                        /\ UNCHANGED <<event, pending, pc, call, iter>>

-----------------------------------------------------------------------------
CallWait(t) == /\ pc[t] = "out"
               /\ \/ /\ call' = [call EXCEPT ![t] = "any"]
                     /\ iter' = [iter EXCEPT ![t] = NoElement]
                  \/ /\ call' = [call EXCEPT ![t] = "one"]
                     /\ \E e \in Present(group) : iter' = [iter EXCEPT ![t] = e]
               /\ Goto(t, "testing")
               /\ UNCHANGED <<group, event, pending>>

Testing(t, c) == pc[t] = "testing" /\ call[t] = c

Return(t) == /\ Goto(t, "out")
             /\ iter' = [iter EXCEPT ![t] = NoElement]
             /\ UNCHANGED <<event, pending, call>>

Sleep(t) == Goto(t, "waiting") /\ UNCHANGED <<group, event, pending, call, iter>>

WaitForAny(t) ==
  /\ Testing(t, "any")
  /\ IF Present(group) # {} /\ SetElements(group) = {} THEN Sleep(t)
     ELSE /\ group' = IF Present(group) = {} THEN group ELSE GroupReset(group, FirstSet(group))
          /\ Return(t)

WaitForElement(t) ==
  /\ Testing(t, "one")
  /\ IF ~group.flag[iter[t]] THEN Sleep(t)
     ELSE /\ group' = GroupReset(group, iter[t])
          /\ Return(t)

\* WaitForSingleObject( group->event ) returns
Wakes(t) == /\ pc[t] = "waiting" /\ event
            /\ Goto(t, "awake")
            /\ UNCHANGED <<group, event, pending, call, iter>>

Resets(t) == /\ pc[t] = "awake"
             /\ event' = FALSE
             /\ Goto(t, "testing")
             /\ UNCHANGED <<group, pending, call, iter>>

Waiter(t) == WaitForAny(t) \/ WaitForElement(t) \/ Wakes(t) \/ Resets(t)

Owner == \/ AddElement \/ TryWaitForAny
         \/ \E e \in Element : RemoveElement(e) \/ SetElement(e)
                               \/ ResetElement(e) \/ TryWaitForElement(e)

Next == Owner \/ SetEvent \/ \E t \in Threads : CallWait(t) \/ Waiter(t)

Spec == Init /\ [][Next]_vars

(* Threads run on: one inside a call reaches the end of the call.          *)
FairSpec == Spec /\ WF_vars(SetEvent) /\ \A t \in Threads : WF_vars(Waiter(t))

-----------------------------------------------------------------------------
(***************************************************************************)
(* With one waiter this is the group of the POSIX platform: it sleeps only *)
(* while the event is not signalled and no SetEvent is on its way, and so  *)
(* never through an element that is set.                                   *)
(***************************************************************************)
Posix == INSTANCE EventGroup
           WITH AllWaiters <- {},
                pc <- [t \in Threads |->
                         IF pc[t] = "out" THEN "out"
                         ELSE IF pc[t] = "waiting" /\ ~event /\ pending = 0 THEN "asleep"
                         ELSE "testing"]
PosixStep == [Posix!Next]_(Posix!vars)
ImplementsPosix == Posix!Spec
=============================================================================
