----------------------------- MODULE EventGroup -----------------------------
(***************************************************************************)
(* One synchronize_event_group (synchronize.c) with threads that wait for  *)
(* any element, for one element or for all of them, while others add,      *)
(* remove, set and reset elements.                                         *)
(*                                                                         *)
(* Everything a function does between taking the group's mutex and         *)
(* releasing it, or sleeping on the condition variable, is one action:     *)
(* SyncEvent shows that pattern with the mutex explicit.  A thread that    *)
(* was woken and has to take the mutex again is back in "testing".         *)
(***************************************************************************)
EXTENDS GroupState

CONSTANTS Threads,
          AllWaiters     \* those that may call wait_for_all

VARIABLES group,     \* elements and flags
          pc,        \* [thread -> "out" | "testing" | "asleep"]
          call,      \* [thread -> the wait function it is in]
          iter       \* [thread -> the element it waits for, or stands at]

vars == <<group, pc, call, iter>>

NoElement == "NULL"
Calls == {"any", "one", "all"}

Init == /\ group = EmptyGroup
        /\ pc = [t \in Threads |-> "out"]
        /\ call = [t \in Threads |-> "any"]
        /\ iter = [t \in Threads |-> NoElement]

Goto(t, label) == pc' = [pc EXCEPT ![t] = label]

\* pthread_cond_broadcast, by a caller that changes nothing else of pc
WakeAll == pc' = [t \in Threads |-> IF pc[t] = "asleep" THEN "testing" ELSE pc[t]]

(***************************************************************************)
(* add_element, remove_element, set_element and reset_element.  The owner  *)
(* of an element removes it only while nobody waits for it by name.        *)
(***************************************************************************)
AddElement == \E e \in Element \ Present(group) :
                /\ group' = GroupAdd(group, e)
                /\ UNCHANGED <<pc, call, iter>>

RemoveElement(e) == /\ e \in Present(group)
                    /\ \A t \in Threads : pc[t] # "out" => iter[t] # e
                    /\ group' = GroupRemove(group, e)
                    /\ WakeAll
                    /\ UNCHANGED <<call, iter>>

SetElement(e) == /\ e \in Present(group)
                 /\ group' = GroupSet(group, e)
                 /\ WakeAll
                 /\ UNCHANGED <<call, iter>>

ResetElement(e) == /\ e \in Present(group)
                   /\ group' = GroupReset(group, e)
                   /\ UNCHANGED <<pc, call, iter>>

(***************************************************************************)
(* The try_ variants take what is set and never sleep.                     *)
(***************************************************************************)
TryWaitForAny == /\ SetElements(group) # {}
                 /\ group' = GroupReset(group, FirstSet(group))
                 /\ UNCHANGED <<pc, call, iter>>

TryWaitForElement(e) == /\ e \in Present(group)
                        /\ group' = GroupReset(group, e)
                        /\ UNCHANGED <<pc, call, iter>>

(***************************************************************************)
(* The waits: what is tested when the call is made and at every wakeup.    *)
(***************************************************************************)
CallWait(t) == /\ pc[t] = "out"
               /\ \/ /\ call' = [call EXCEPT ![t] = "any"]
                     /\ iter' = [iter EXCEPT ![t] = NoElement]
                  \/ /\ call' = [call EXCEPT ![t] = "one"]
                     /\ \E e \in Present(group) : iter' = [iter EXCEPT ![t] = e]
                  \/ /\ t \in AllWaiters
                     /\ call' = [call EXCEPT ![t] = "all"]
                     /\ iter' = [iter EXCEPT ![t] = NoElement]
               /\ Goto(t, "testing")
               /\ UNCHANGED group

Testing(t, c) == pc[t] = "testing" /\ call[t] = c

Return(t) == /\ Goto(t, "out")
             /\ iter' = [iter EXCEPT ![t] = NoElement]
             /\ UNCHANGED call

Sleep(t) == Goto(t, "asleep") /\ UNCHANGED <<group, call>>

AnyFindsNoElement(t) == /\ Testing(t, "any")
                        /\ Present(group) = {}
                        /\ Return(t)
                        /\ UNCHANGED group

AnyTakes(t) == /\ Testing(t, "any")
               /\ SetElements(group) # {}
               /\ group' = GroupReset(group, FirstSet(group))
               /\ Return(t)

AnySleeps(t) == /\ Testing(t, "any")
                /\ Present(group) # {}
                /\ SetElements(group) = {}
                /\ Sleep(t)
                /\ UNCHANGED iter

ElementTakes(t) == /\ Testing(t, "one")
                   /\ group.flag[iter[t]]
                   /\ group' = GroupReset(group, iter[t])
                   /\ Return(t)

ElementSleeps(t) == /\ Testing(t, "one")
                    /\ ~group.flag[iter[t]]
                    /\ Sleep(t)
                    /\ UNCHANGED iter

\* where wait_for_all goes on: at its iterator, not at the head of the list
Position(t) == IF iter[t] = NoElement THEN 1
               ELSE CHOOSE i \in DOMAIN group.elements : group.elements[i] = iter[t]

AllSleeps(t) == /\ Testing(t, "all")
                /\ \E i \in UnsetFrom(group, Position(t)) :
                     /\ \A j \in UnsetFrom(group, Position(t)) : i <= j
                     /\ iter' = [iter EXCEPT ![t] = group.elements[i]]
                /\ Sleep(t)

AllReturns(t) == /\ Testing(t, "all")
                 /\ UnsetFrom(group, Position(t)) = {}
                 /\ group' = GroupResetAll(group)
                 /\ Return(t)

WakesUnasked(t) == /\ pc[t] = "asleep"
                   /\ Goto(t, "testing")
                   /\ UNCHANGED <<group, call, iter>>

Waiting(t) == \/ AnyFindsNoElement(t) \/ AnyTakes(t) \/ AnySleeps(t)
              \/ ElementTakes(t) \/ ElementSleeps(t)
              \/ AllSleeps(t) \/ AllReturns(t)

Owner == \/ AddElement \/ TryWaitForAny
         \/ \E e \in Element : RemoveElement(e) \/ SetElement(e)
                               \/ ResetElement(e) \/ TryWaitForElement(e)

Next == Owner \/ \E t \in Threads : CallWait(t) \/ Waiting(t) \/ WakesUnasked(t)

Spec == Init /\ [][Next]_vars

(* A woken thread takes the mutex in the end and goes on.                  *)
FairSpec == Spec /\ \A t \in Threads : WF_vars(Waiting(t))

-----------------------------------------------------------------------------
(* Types; a thread stands only at an element that is in the group.        *)
TypeOK == /\ IsGroup(group)
          /\ pc \in [Threads -> {"out", "testing", "asleep"}]
          /\ call \in [Threads -> Calls]
          /\ iter \in [Threads -> Element \cup {NoElement}]
          /\ \A t \in Threads : iter[t] # NoElement => iter[t] \in Present(group)

(***************************************************************************)
(* No thread sleeps through what it waits for: a sleeper in wait_for_any   *)
(* has elements to wait for and none of them is set, a sleeper in the      *)
(* other two stands at an element that is not set.                         *)
(***************************************************************************)
NoLostWakeup ==
  \A t \in Threads : pc[t] = "asleep" =>
    IF call[t] = "any" THEN Present(group) # {} /\ SetElements(group) = {}
                       ELSE ~group.flag[iter[t]]

(***************************************************************************)
(* wait_for_any returns once there is something to return, or nothing to   *)
(* wait for, unless others take it all first: setting an element, and      *)
(* removing the last one, both get through to the sleeper.                 *)
(***************************************************************************)
HasNothingToWaitFor == Present(group) = {} \/ SetElements(group) # {}
AnyDue(t)  == pc[t] # "out" /\ call[t] = "any" /\ HasNothingToWaitFor
AnyOver(t) == pc[t] = "out" \/ ~HasNothingToWaitFor
=============================================================================
