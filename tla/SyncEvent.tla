------------------------------ MODULE SyncEvent ------------------------------
(***************************************************************************)
(* One synchronize_event (synchronize.c): a flag, the mutex that guards it *)
(* and the condition variable on which threads wait for it, used by any    *)
(* number of threads at once.  The POSIX calls are modelled as POSIX       *)
(* defines them: waiting releases the mutex and sleeps in one step, a      *)
(* signal wakes at least one sleeper if there is one, a sleeper may wake   *)
(* without a signal, and a woken thread has to win the mutex again.        *)
(***************************************************************************)
CONSTANTS Threads,    \* threads that share the event
          NoThread    \* the mutex is free

ASSUME EventAssumption == NoThread \notin Threads

VARIABLES flag,     \* event->flag
          mutex,    \* the owner of event->mutex
          pc        \* [thread -> where it is in the three functions]

vars == <<flag, mutex, pc>>

WaitLabels  == {"waitLock", "test", "asleep", "woken", "retest"}
SetLabels   == {"setLock", "setFlag", "signal"}
ResetLabels == {"resetLock", "resetFlag"}
InMutex     == {"test", "retest", "setFlag", "signal", "resetFlag"}

Asleep == {t \in Threads : pc[t] = "asleep"}

Init == /\ flag = FALSE
        /\ mutex = NoThread
        /\ pc = [t \in Threads |-> "out"]

Goto(t, label) == pc' = [pc EXCEPT ![t] = label]

Call(t) == /\ pc[t] = "out"
           /\ \E label \in {"waitLock", "setLock", "resetLock"} : Goto(t, label)
           /\ UNCHANGED <<flag, mutex>>

\* pthread_mutex_lock, and the end of pthread_cond_wait
Acquire(t, from, to) == /\ pc[t] = from
                        /\ mutex = NoThread
                        /\ mutex' = t
                        /\ Goto(t, to)
                        /\ UNCHANGED flag

Lock(t) == \/ Acquire(t, "waitLock", "test")
           \/ Acquire(t, "woken", "retest")
           \/ Acquire(t, "setLock", "setFlag")
           \/ Acquire(t, "resetLock", "resetFlag")

\* mutant: the flag is not tested again after waking
WaitTakesOnWaking(t) == /\ pc[t] \in {"test", "retest"}
                        /\ flag \/ pc[t] = "retest"
                        /\ flag' = FALSE
                        /\ mutex' = NoThread
                        /\ Goto(t, "out")

(***************************************************************************)
(* synchronize_wait_for_event: test the flag in a loop, then clear it.     *)
(***************************************************************************)
WaitTakes(t) == /\ pc[t] \in {"test", "retest"}
                /\ flag
                /\ flag' = FALSE
                /\ mutex' = NoThread
                /\ Goto(t, "out")

WaitSleeps(t) == /\ pc[t] \in {"test", "retest"}
                 /\ ~flag
                 /\ mutex' = NoThread
                 /\ Goto(t, "asleep")
                 /\ UNCHANGED flag

WakesUnasked(t) == /\ pc[t] = "asleep"
                   /\ Goto(t, "woken")
                   /\ UNCHANGED <<flag, mutex>>

(***************************************************************************)
(* synchronize_set_event and synchronize_reset_event.                      *)
(***************************************************************************)
SetFlag(t) == /\ pc[t] = "setFlag"
              /\ flag' = TRUE
              /\ Goto(t, "signal")
              /\ UNCHANGED mutex

\* mutant: pthread_cond_signal forgotten
SetSignalsNone(t) == /\ pc[t] = "signal"
                     /\ mutex' = NoThread
                     /\ Goto(t, "out")
                     /\ UNCHANGED flag

SetSignals(t) ==
  /\ pc[t] = "signal"
  /\ \E woken \in SUBSET Asleep :
       /\ Asleep # {} => woken # {}
       /\ pc' = [u \in Threads |-> IF u = t THEN "out"
                                   ELSE IF u \in woken THEN "woken" ELSE pc[u]]
  /\ mutex' = NoThread
  /\ UNCHANGED flag

ResetFlag(t) == /\ pc[t] = "resetFlag"
                /\ flag' = FALSE
                /\ mutex' = NoThread
                /\ Goto(t, "out")

Works(t) == \/ WaitTakes(t) \/ WaitSleeps(t)
            \/ SetFlag(t) \/ SetSignals(t) \/ ResetFlag(t)

Step(t) == Call(t) \/ Lock(t) \/ Works(t) \/ WakesUnasked(t)

Next == \E t \in Threads : Step(t)

Spec == Init /\ [][Next]_vars

(***************************************************************************)
(* A running thread goes on.  The mutex is not queued: a thread that finds *)
(* it free again and again is assumed to win it in the end.                *)
(***************************************************************************)
FairSpec == Spec /\ \A t \in Threads : WF_vars(Works(t)) /\ SF_vars(Lock(t))

-----------------------------------------------------------------------------
(* Types, and the mutex is held by exactly the thread in its section.      *)
TypeOK == /\ flag \in BOOLEAN
          /\ mutex \in Threads \cup {NoThread}
          /\ pc \in [Threads -> {"out"} \cup WaitLabels \cup SetLabels \cup ResetLabels]
          /\ \A t \in Threads : mutex = t <=> pc[t] \in InMutex

(***************************************************************************)
(* No wakeup is lost: while the event is set and a thread sleeps on it,    *)
(* some other thread is awake that will either take the event or signal:   *)
(* one that was woken, one about to test, or the setter before its signal. *)
(***************************************************************************)
NoLostWakeup ==
  flag /\ Asleep # {} => \E t \in Threads : pc[t] \in {"woken", "test", "retest", "signal"}

(***************************************************************************)
(* The functions implement the auto-reset event of synchronize.h ("only    *)
(* one 'thread_wait_for_event' will return successfully"): no return       *)
(* without the flag, and one return per setting.                           *)
(***************************************************************************)
Abstract == INSTANCE AutoResetEvent
              WITH waiting <- {t \in Threads : pc[t] \in WaitLabels}
ImplementsEvent == Abstract!Spec

=============================================================================
