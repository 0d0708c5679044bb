------------------------------ MODULE ThreadPool -----------------------------
(***************************************************************************)
(* The pool of processor threads: task_processor_thread_pool.c, with the   *)
(* life of a thread in task_processor_thread.c.                            *)
(*                                                                         *)
(* A user takes a thread out of the pool, gives it queues to process and   *)
(* puts it back; in the pool the thread sleeps.  What a thread does with   *)
(* the queues is the subject of TaskProcessor, here it is one step that    *)
(* ends: a user takes its queues out of the processor before it puts the   *)
(* thread back.                                                            *)
(***************************************************************************)
EXTENDS Naturals, Sequences

CONSTANTS
  Owner,     \* threads of the application that use the pool
  Worker,    \* the task_processor_threads there is memory for
  None,
  MaxSize    \* max_size of the pool

VARIABLES
  threads,                \* the array of the pool, used as a stack
  pool_mutex,             \* its holder, or None
  is_running, is_paused,  \* of each thread
  changed_event,          \* pause_status_changed_event, an auto-reset event
  loop,                   \* where each thread is in process_task
  caller,                 \* where each user is
  hand                    \* the thread each user holds, or None

workerVars == <<is_running, is_paused, changed_event, loop>>
poolVars == <<threads, pool_mutex, workerVars, caller, hand>>

Stored == {threads[i] : i \in DOMAIN threads}

PoolInit == /\ threads = <<>>
            /\ pool_mutex = None
            /\ is_running = [w \in Worker |-> FALSE]
            /\ is_paused = [w \in Worker |-> FALSE]
            /\ changed_event = [w \in Worker |-> FALSE]
            /\ loop = [w \in Worker |-> "none"]
            /\ caller = [o \in Owner |-> "idle"]
            /\ hand = [o \in Owner |-> None]

Goto(o, place) == caller' = [caller EXCEPT ![o] = place]
Lock(o) == pool_mutex = None /\ pool_mutex' = o
Unlock(o) == pool_mutex = o /\ pool_mutex' = None

-----------------------------------------------------------------------------
(* task_processor_thread_pool_get: a stored thread, or a new one if there  *)
(* is none.                                                                *)
GetLock(o) == /\ caller[o] = "idle" /\ hand[o] = None
              /\ Lock(o)
              /\ Goto(o, "get")
              /\ UNCHANGED <<threads, workerVars, hand>>

\* task_processor_thread_initialize starts the thread
GetNew(o) ==
  /\ caller[o] = "get"
  /\ threads = <<>>
  /\ \E w \in Worker :
       /\ loop[w] = "none"
       /\ is_running' = [is_running EXCEPT ![w] = TRUE]
       /\ is_paused' = [is_paused EXCEPT ![w] = FALSE]
       /\ changed_event' = [changed_event EXCEPT ![w] = FALSE]
       /\ loop' = [loop EXCEPT ![w] = "running?"]
       /\ hand' = [hand EXCEPT ![o] = w]
  /\ Unlock(o)
  /\ Goto(o, "continue")
  /\ UNCHANGED threads

\* no memory, or the thread could not be initialized
GetFails(o) == /\ caller[o] = "get"
               /\ threads = <<>>
               /\ Unlock(o)
               /\ Goto(o, "idle")
               /\ UNCHANGED <<threads, workerVars, hand>>

\* mutant: the thread that is handed out stays in the array
GetAndKeep(o) == /\ caller[o] = "get"
                 /\ threads # <<>>
                 /\ hand' = [hand EXCEPT ![o] = threads[Len(threads)]]
                 /\ Unlock(o)
                 /\ Goto(o, "continue")
                 /\ UNCHANGED <<threads, workerVars>>

GetStored(o) == /\ caller[o] = "get"
                /\ threads # <<>>
                /\ hand' = [hand EXCEPT ![o] = threads[Len(threads)]]
                /\ threads' = SubSeq(threads, 1, Len(threads) - 1)
                /\ Unlock(o)
                /\ Goto(o, "continue")
                /\ UNCHANGED workerVars

\* task_processor_thread_continue, after the mutex is given back
Continue(o) == /\ caller[o] = "continue"
               /\ is_paused' = [is_paused EXCEPT ![hand[o]] = FALSE]
               /\ Goto(o, "signal")
               /\ UNCHANGED <<threads, pool_mutex, is_running, changed_event,
                              loop, hand>>

Signal(o) == /\ caller[o] = "signal"
             /\ changed_event' = [changed_event EXCEPT ![hand[o]] = TRUE]
             /\ Goto(o, "idle")
             /\ UNCHANGED <<threads, pool_mutex, is_running, is_paused, loop,
                            hand>>

-----------------------------------------------------------------------------
(* task_processor_thread_pool_put: the thread is paused and stored, or     *)
(* ended if the pool is full or the array cannot grow.                     *)
PutPause(o) == /\ caller[o] = "idle" /\ hand[o] # None
               /\ is_paused' = [is_paused EXCEPT ![hand[o]] = TRUE]
               /\ Goto(o, "put")
               /\ UNCHANGED <<threads, pool_mutex, is_running, changed_event,
                              loop, hand>>

PutLock(o) == /\ caller[o] = "put"
              /\ Lock(o)
              /\ \/ Len(threads) < MaxSize /\ Goto(o, "store")
                 \/ Goto(o, "end")
              /\ UNCHANGED <<threads, workerVars, hand>>

PutStore(o) == /\ caller[o] = "store"
               /\ threads' = Append(threads, hand[o])
               /\ hand' = [hand EXCEPT ![o] = None]
               /\ Unlock(o)
               /\ Goto(o, "idle")
               /\ UNCHANGED workerVars

\* task_processor_thread_destroy, with the mutex held
EndResume(o) == /\ caller[o] = "end"
                /\ is_paused' = [is_paused EXCEPT ![hand[o]] = FALSE]
                /\ Goto(o, "end_stop")
                /\ UNCHANGED <<threads, pool_mutex, is_running, changed_event,
                               loop, hand>>

EndStop(o) == /\ caller[o] = "end_stop"
              /\ is_running' = [is_running EXCEPT ![hand[o]] = FALSE]
              /\ Goto(o, "end_signal")
              /\ UNCHANGED <<threads, pool_mutex, is_paused, changed_event, loop,
                             hand>>

EndSignal(o) == /\ caller[o] = "end_signal"
                /\ changed_event' = [changed_event EXCEPT ![hand[o]] = TRUE]
                /\ Goto(o, "end_wait")
                /\ UNCHANGED <<threads, pool_mutex, is_running, is_paused, loop,
                               hand>>

\* thread_wait_for_thread, and the memory of the thread is given back
EndWait(o) == /\ caller[o] = "end_wait"
              /\ loop[hand[o]] = "ended"
              /\ loop' = [loop EXCEPT ![hand[o]] = "none"]
              /\ hand' = [hand EXCEPT ![o] = None]
              /\ Unlock(o)
              /\ Goto(o, "idle")
              /\ UNCHANGED <<threads, is_running, is_paused, changed_event>>

-----------------------------------------------------------------------------
(* process_task, the thread's own loop.                                    *)
LoopTo(w, place) == loop' = [loop EXCEPT ![w] = place]

TestRunning(w) == /\ loop[w] = "running?"
                  /\ LoopTo(w, IF is_running[w] THEN "paused?" ELSE "ended")
                  /\ UNCHANGED <<threads, pool_mutex, is_running, is_paused,
                                 changed_event, caller, hand>>

TestPaused(w) == /\ loop[w] = "paused?"
                 /\ LoopTo(w, IF is_paused[w] THEN "wait" ELSE "process")
                 /\ UNCHANGED <<threads, pool_mutex, is_running, is_paused,
                                changed_event, caller, hand>>

Wait(w) == /\ loop[w] = "wait"
           /\ changed_event[w]
           /\ changed_event' = [changed_event EXCEPT ![w] = FALSE]
           /\ LoopTo(w, "paused?")
           /\ UNCHANGED <<threads, pool_mutex, is_running, is_paused, caller,
                          hand>>

\* task_processor_process_task
Process(w) == /\ loop[w] = "process"
              /\ LoopTo(w, "running?")
              /\ UNCHANGED <<threads, pool_mutex, is_running, is_paused,
                             changed_event, caller, hand>>

GetOn(o) == GetNew(o) \/ GetFails(o) \/ GetStored(o) \/ Continue(o) \/ Signal(o)
PutOn(o) == \/ PutLock(o) \/ PutStore(o) \/ EndResume(o) \/ EndStop(o)
            \/ EndSignal(o) \/ EndWait(o)
WorkerStep(w) == TestRunning(w) \/ TestPaused(w) \/ Wait(w) \/ Process(w)

PoolNext == \/ \E o \in Owner : GetLock(o) \/ PutPause(o) \/ GetOn(o) \/ PutOn(o)
            \/ \E w \in Worker : WorkerStep(w)

(* Threads are scheduled, the mutex is given to each that waits for it     *)
(* again and again, and nobody has to use the pool.                        *)
PoolFairness == /\ \A o \in Owner : /\ WF_poolVars(GetOn(o))
                                    /\ SF_poolVars(PutOn(o))
                /\ \A w \in Worker : WF_poolVars(WorkerStep(w))

PoolSpec == PoolInit /\ [][PoolNext]_poolVars /\ PoolFairness

-----------------------------------------------------------------------------
(***************************************************************************)
(* A thread is in one place: with one user, or once in the pool.  The one  *)
(* in the pool is asked to sleep and has not been ended, and one that a    *)
(* user can give work to is not asked to sleep.                            *)
(***************************************************************************)
OneHolder ==
  /\ \A o, p \in Owner : o # p /\ hand[o] # None => hand[o] # hand[p]
  /\ \A o \in Owner : hand[o] \notin Stored
  /\ \A i, j \in DOMAIN threads : threads[i] = threads[j] => i = j
  /\ \A w \in Stored : is_running[w] /\ is_paused[w] /\ loop[w] # "none"
  /\ \A o \in Owner : caller[o] = "idle" /\ hand[o] # None =>
       is_running[hand[o]] /\ ~is_paused[hand[o]]

(***************************************************************************)
(* A thread that a user holds wakes up, one in the pool falls asleep, and  *)
(* giving a thread back returns although it may wait for the thread's end  *)
(* with the mutex of the pool held.                                        *)
(***************************************************************************)
InUse(w) == \E o \in Owner : hand[o] = w /\ caller[o] = "idle"
AwakeOrBack(w) == loop[w] # "wait" \/ ~\E o \in Owner : hand[o] = w
=============================================================================
