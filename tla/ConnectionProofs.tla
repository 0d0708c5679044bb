-------------------------- MODULE ConnectionProofs --------------------------
(***************************************************************************)
(* Proofs about a connection: first PipelineConnection, for every number   *)
(* of buffers, every payload set and every choice of the polling ends,     *)
(* then ProcedureLifecycle, for any number of starts and stops as well:    *)
(* MaxEntries may be as large as one likes.                                *)
(***************************************************************************)
EXTENDS ProcedureLifecycle, FiniteSetTheorems, TLAPS

(***************************************************************************)
(* The steps of the specification, by the shared action each one is an     *)
(* instance of.                                                            *)
(***************************************************************************)
Step(e) ==
  \/ Update(e)
  \/ GetLock(e) \/ GetHeld(e) \/ GetWait(e) \/ TryLock(e) \/ TryHeld(e)
  \/ PopLock(e) \/ PopHeld(e) \/ PushLock(e) \/ PushHeld(e) \/ PushSignal(e)
  \/ StopProcedure(e)
  \/ ShutdownLock(e) \/ ShutdownHeld(e) \/ ShutdownSignal(e) \/ TaskStop(e)

LEMMA NextSteps ==
  Next <=> (\E e \in Ends : Step(e)) \/ Fill \/ InputDataHandler
BY DEF Next, Step, Ends, SourceWorker, TargetWorker, ShutdownStep,
       OutputGetData, InputGetData, OutputTryGetData, InputTryGetData,
       PassOn, MoveOn, OutputShutdown, InputShutdown
-----------------------------------------------------------------------------
(* The exchange loop is a lock, whatever the threads do with the lists.    *)
LockTypeOK ==
  /\ task_ptr \in [Ends -> {"list", "NULL"}]
  /\ pc \in [Ends -> WorkerLabels]
  /\ ctl \in [step : ControlSteps, end : Ends]

LockInv == LockTypeOK /\ ListExclusion

LEMMA LockInit == Init => LockInv
BY DEF Init, LockInv, LockTypeOK, ListExclusion, OwnerHolds, PeerHolds,
       ControlHolds, Ends, Peer, WorkerLabels, ControlSteps

LEMMA LockStep ==
  ASSUME LockInv, NEW e \in Ends, Step(e)
  PROVE  LockInv'
<1> USE DEF LockInv, LockTypeOK, ListExclusion, OwnerHolds, PeerHolds,
            ControlHolds, Ends, Peer, WorkerLabels, ControlSteps, Goto,
            TakeList, GiveList, HandOut
<1>1. CASE Update(e)
  BY <1>1 DEF Update
<1>2. CASE GetLock(e) \/ TryLock(e) \/ PopLock(e)
  BY <1>2 DEF GetLock, TryLock, PopLock
<1>3. CASE GetHeld(e) \/ TryHeld(e)
  BY <1>3 DEF GetHeld, TryHeld
<1>4. CASE GetWait(e) \/ PushSignal(e)
  BY <1>4 DEF GetWait, PushSignal
<1>5. CASE PopHeld(e)
  BY <1>5 DEF PopHeld
<1>6. CASE PushLock(e)
  BY <1>6 DEF PushLock
<1>7. CASE PushHeld(e)
  BY <1>7 DEF PushHeld
<1>8. CASE StopProcedure(e) \/ ShutdownSignal(e) \/ TaskStop(e)
  BY <1>8 DEF StopProcedure, ShutdownSignal, TaskStop
<1>9. CASE ShutdownLock(e)
  BY <1>9 DEF ShutdownLock
<1>10. CASE ShutdownHeld(e)
  BY <1>10 DEF ShutdownHeld
<1>11. QED
  BY <1>1, <1>2, <1>3, <1>4, <1>5, <1>6, <1>7, <1>8, <1>9, <1>10 DEF Step

LEMMA LockNext == LockInv /\ [Next]_vars => LockInv'
<1> SUFFICES ASSUME LockInv, [Next]_vars PROVE LockInv'
  OBVIOUS
<1>1. CASE Fill \/ InputDataHandler
  BY <1>1 DEF Fill, InputDataHandler, Goto, LockInv, LockTypeOK, ListExclusion,
              OwnerHolds, PeerHolds, ControlHolds, Ends, Peer, WorkerLabels
<1>2. CASE UNCHANGED vars
  BY <1>2 DEF vars, LockInv, LockTypeOK, ListExclusion, OwnerHolds, PeerHolds,
              ControlHolds
<1>3. QED
  BY <1>1, <1>2, LockStep, NextSteps

(***************************************************************************)
(* Mutual exclusion on both lists, and the pointer is NULL exactly while   *)
(* somebody works on the list.                                             *)
(***************************************************************************)
THEOREM Exclusion == Spec => []ListExclusion
<1>1. LockInv => ListExclusion
  BY DEF LockInv
<1>2. QED
  BY LockInit, LockNext, <1>1, PTL DEF Spec
-----------------------------------------------------------------------------
(***************************************************************************)
(* Types, together with the stability of the front: that the list popped   *)
(* is not empty is what makes its tail a list again.                       *)
(***************************************************************************)
FrontInv == TypeOK /\ LockInv /\ FrontStable

LEMMA FrontInit == Init => FrontInv
<1> SUFFICES ASSUME Init PROVE FrontInv
  OBVIOUS
<1>1. LockInv
  BY LockInit
<1>2. [i \in Desc |-> i] \in Seq(Entry)
  BY ConnectionAssumption DEF Desc, Entry
<1>3. TypeOK
  BY <1>1, <1>2 DEF Init, TypeOK, LockInv, LockTypeOK, Ends, Entry
<1>4. FrontStable
  BY ConnectionAssumption
  DEF Init, FrontStable, IsCustom, Desc, Shutdown, Ends
<1>5. QED
  BY <1>1, <1>3, <1>4 DEF FrontInv

LEMMA AppendFacts ==
  ASSUME NEW s \in Seq(Entry), NEW x \in Entry
  PROVE  /\ Append(s, x) \in Seq(Entry)
         /\ Append(s, x) # << >>
         /\ s # << >> => Head(Append(s, x)) = Head(s)
<1>1. /\ Append(s, x) \in Seq(Entry)
      /\ Len(Append(s, x)) = Len(s) + 1
      /\ \A i \in 1..Len(s) : Append(s, x)[i] = s[i]
  OBVIOUS
<1>2. Append(s, x) # << >>
  <2>1. Len(s) \in Nat /\ Len(<< >>) = 0
    OBVIOUS
  <2>2. QED
    BY <1>1, <2>1
<1>3. ASSUME s # << >>
      PROVE  Head(Append(s, x)) = Head(s)
  <2>1. Len(s) \in Nat /\ Len(s) # 0
    BY <1>3
  <2>2. Head(s) = s[1] /\ Head(Append(s, x)) = Append(s, x)[1]
    BY <1>2, <1>3
  <2>3. QED
    BY <1>1, <2>1, <2>2
<1>4. QED
  BY <1>1, <1>2, <1>3

LEMMA FlagSet ==
  ASSUME NEW S, NEW f \in [S -> BOOLEAN], NEW x \in S, NEW b \in BOOLEAN
  PROVE  [f EXCEPT ![x] = b] \in [S -> BOOLEAN]
OBVIOUS

LEMMA FrontStep ==
  ASSUME FrontInv, LockInv', NEW e \in Ends, Step(e)
  PROVE  FrontInv'
<1> USE ConnectionAssumption
    DEF FrontInv, TypeOK, FrontStable, IsCustom, InFlight, Ends, Peer,
        WorkerLabels, Goto, Desc, Shutdown, Entry
<1>1. CASE Update(e) \/ StopProcedure(e) \/ TaskStop(e)
  <2>1. is_running' \in [Ends -> BOOLEAN]
    <3>1. CASE Update(e) \/ TaskStop(e)
      BY <3>1 DEF Update, TaskStop
    <3>2. CASE StopProcedure(e)
      <4>1. is_running' = [is_running EXCEPT ![e] = FALSE]
        BY <3>2 DEF StopProcedure
      <4>2. is_running \in [Ends -> BOOLEAN] /\ FALSE \in BOOLEAN
        BY DEF TypeOK
      <4>3. QED
        BY <4>1, <4>2, FlagSet
    <3>3. QED
      BY <1>1, <3>1, <3>2
  <2>2. TypeOK'
    BY <1>1, <2>1 DEF Update, StopProcedure, TaskStop, LockInv, LockTypeOK
  <2>3. FrontStable'
    BY <1>1 DEF Update, StopProcedure, TaskStop
  <2>4. QED
    BY <2>2, <2>3
<1>2. CASE GetLock(e) \/ TryLock(e) \/ PopLock(e) \/ PushLock(e) \/ ShutdownLock(e)
  BY <1>2 DEF GetLock, TryLock, PopLock, PushLock, ShutdownLock, TakeList,
              LockInv, LockTypeOK
<1>3. CASE GetHeld(e) \/ TryHeld(e)
  BY <1>3 DEF GetHeld, TryHeld, GiveList, HandOut, LockInv, LockTypeOK
<1>4. CASE GetWait(e) \/ PushSignal(e)
  <2>1. event' \in [Ends -> BOOLEAN]
    <3>1. \E f \in Ends, b \in BOOLEAN : event' = [event EXCEPT ![f] = b]
      BY <1>4 DEF GetWait, PushSignal, SetEvent
    <3>2. QED
      BY <3>1, FlagSet
  <2>2. TypeOK'
    BY <1>4, <2>1 DEF GetWait, PushSignal, LockInv, LockTypeOK
  <2>3. FrontStable'
    BY <1>4 DEF GetWait, PushSignal
  <2>4. QED
    BY <2>2, <2>3
<1>8. CASE ShutdownSignal(e)
  BY <1>8 DEF ShutdownSignal, SetEvent, LockInv, LockTypeOK
<1>5. CASE PopHeld(e)
  BY <1>5 DEF PopHeld, GiveList, LockInv, LockTypeOK
<1>6. CASE PushHeld(e)
  <2> DEFINE f == Peer(e)
  <2>1. f \in Ends /\ f # e /\ desc[e] \in Entry
    OBVIOUS
  <2>2. /\ Append(task_list[f], desc[e]) \in Seq(Entry)
        /\ Append(task_list[f], desc[e]) # << >>
        /\ task_list[f] # << >> => Head(Append(task_list[f], desc[e])) = Head(task_list[f])
    BY <2>1, AppendFacts
  <2>3. TypeOK'
    BY <1>6, <2>1, <2>2 DEF PushHeld, GiveList, LockInv, LockTypeOK
  <2>4. FrontStable'
    BY <1>6, <2>1, <2>2 DEF PushHeld
  <2>5. QED
    BY <2>3, <2>4
<1>7. CASE ShutdownHeld(e)
  <2>1. /\ Append(task_list[e], Shutdown) \in Seq(Entry)
        /\ Append(task_list[e], Shutdown) # << >>
        /\ task_list[e] # << >> => Head(Append(task_list[e], Shutdown)) = Head(task_list[e])
    BY AppendFacts
  <2>2. TypeOK'
    BY <1>7, <2>1 DEF ShutdownHeld, GiveList, LockInv, LockTypeOK
  <2>3. FrontStable'
    BY <1>7, <2>1 DEF ShutdownHeld
  <2>4. QED
    BY <2>2, <2>3
<1>9. QED
  BY <1>1, <1>2, <1>3, <1>4, <1>5, <1>6, <1>7, <1>8 DEF Step

LEMMA FrontNext == FrontInv /\ [Next]_vars => FrontInv'
<1> SUFFICES ASSUME FrontInv, [Next]_vars PROVE FrontInv'
  OBVIOUS
<1>1. LockInv'
  BY LockNext DEF FrontInv
<1>2. CASE Fill \/ InputDataHandler
  <2> USE DEF FrontInv, TypeOK, FrontStable, IsCustom, InFlight, Ends, Goto
  <2>1. data' \in [Desc -> Payload \cup {NoData}]
    BY <1>2 DEF Fill, InputDataHandler
  <2>2. TypeOK'
    BY <1>1, <1>2, <2>1 DEF Fill, InputDataHandler, LockInv, LockTypeOK
  <2>3. FrontStable'
    BY <1>2 DEF Fill, InputDataHandler, WorkerLabels
  <2>4. QED
    BY <1>1, <2>2, <2>3
<1>3. CASE UNCHANGED vars
  BY <1>1, <1>3 DEF vars, FrontInv, TypeOK, FrontStable, InFlight
<1>4. QED
  BY <1>1, <1>2, <1>3, FrontStep, NextSteps

(* Every variable keeps its type; lists hold descriptors and commands only. *)
THEOREM TypeCorrect == Spec => []TypeOK
<1>1. FrontInv => TypeOK
  BY DEF FrontInv
<1>2. QED
  BY FrontInit, FrontNext, <1>1, PTL DEF Spec

(***************************************************************************)
(* What passon and moveon pop is what was handed out: their ASSERTs hold.  *)
(***************************************************************************)
THEOREM FrontIsStable == Spec => []FrontStable
<1>1. FrontInv => FrontStable
  BY DEF FrontInv
<1>2. QED
  BY FrontInit, FrontNext, <1>1, PTL DEF Spec

(* The same buffer is handed out until it is committed or moved past.      *)
THEOREM SameBuffer == Spec => SameBufferUntilCommit
<1>1. ASSUME FrontInv, [Next]_vars, NEW e \in Ends,
             IsCustom(desc[e]), IsCustom(desc'[e])
      PROVE  desc'[e] = desc[e]
  <2> USE DEF FrontInv, TypeOK, FrontStable, IsCustom, InFlight, Ends, Peer, Goto
  <2>1. CASE Fill \/ InputDataHandler \/ UNCHANGED vars
    BY <2>1 DEF Fill, InputDataHandler, vars
  <2>2. ASSUME NEW f \in Ends, Step(f)
        PROVE  desc'[e] = desc[e]
    <3>1. CASE GetHeld(f) \/ TryHeld(f)
      BY <1>1, <3>1 DEF GetHeld, TryHeld, HandOut
    <3>2. CASE PopHeld(f)
      BY <1>1, <3>2 DEF PopHeld
    <3>3. CASE PushHeld(f)
      BY <1>1, <3>3 DEF PushHeld, Desc, Shutdown
    <3>4. QED
      BY <2>2, <3>1, <3>2, <3>3
      DEF Step, Update, GetLock, GetWait, TryLock, PopLock, PushLock,
          PushSignal, StopProcedure, ShutdownLock, ShutdownHeld,
          ShutdownSignal, TaskStop
  <2>3. QED
    BY <1>1, <2>1, <2>2, NextSteps
<1>2. FrontInv /\ [Next]_vars =>
        [\A e \in Ends :
           IsCustom(desc[e]) /\ IsCustom(desc'[e]) => desc'[e] = desc[e]]_vars
  BY <1>1
<1>3. QED
  BY FrontInit, FrontNext, <1>2, PTL DEF Spec, SameBufferUntilCommit
-----------------------------------------------------------------------------
(***************************************************************************)
(* A wait is never entered, and never outlasts a push, without a signal on *)
(* its way.                                                                *)
(***************************************************************************)
LEMMA WakeupStep ==
  ASSUME FrontInv, NoLostWakeup, NEW e \in Ends, Step(e)
  PROVE  NoLostWakeup'
<1> USE DEF FrontInv, TypeOK, NoLostWakeup, Ends, Peer, Goto
<1>1. CASE Update(e)
  BY <1>1 DEF Update
<1>2. CASE GetLock(e) \/ TryLock(e) \/ PopLock(e) \/ PushLock(e)
  BY <1>2 DEF GetLock, TryLock, PopLock, PushLock
<1>3. CASE GetHeld(e) \/ TryHeld(e)
  BY <1>3 DEF GetHeld, TryHeld, HandOut
<1>4. CASE GetWait(e)
  BY <1>4 DEF GetWait
<1>5. CASE PopHeld(e)
  BY <1>5 DEF PopHeld
<1>6. CASE PushHeld(e)
  BY <1>6 DEF PushHeld
<1>7. CASE PushSignal(e)
  BY <1>7 DEF PushSignal, SetEvent
<1>8. CASE StopProcedure(e) \/ ShutdownLock(e) \/ TaskStop(e)
  BY <1>8 DEF StopProcedure, ShutdownLock, TaskStop
<1>9. CASE ShutdownHeld(e)
  BY <1>9 DEF ShutdownHeld
<1>10. CASE ShutdownSignal(e)
  BY <1>10 DEF ShutdownSignal, SetEvent
<1>11. QED
  BY <1>1, <1>2, <1>3, <1>4, <1>5, <1>6, <1>7, <1>8, <1>9, <1>10 DEF Step

(* A worker that waits beside a list with something in it will be woken.   *)
THEOREM Wakeup == Spec => []NoLostWakeup
<1>1. Init => NoLostWakeup
  BY DEF Init, NoLostWakeup, Ends
<1>2. FrontInv /\ NoLostWakeup /\ [Next]_vars => NoLostWakeup'
  <2> SUFFICES ASSUME FrontInv, NoLostWakeup, [Next]_vars PROVE NoLostWakeup'
    OBVIOUS
  <2>1. CASE Fill \/ InputDataHandler
    BY <2>1 DEF Fill, InputDataHandler, Goto, FrontInv, TypeOK, NoLostWakeup,
                Ends, Peer
  <2>2. CASE UNCHANGED vars
    BY <2>2 DEF vars, NoLostWakeup
  <2>3. QED
    BY <2>1, <2>2, WakeupStep, NextSteps
<1>3. QED
  BY FrontInit, FrontNext, <1>1, <1>2, PTL DEF Spec
-----------------------------------------------------------------------------
(***************************************************************************)
(* Conservation of the buffers.  A step moves at most one descriptor: off  *)
(* the front of a list into a worker's hands, or out of them to the end of *)
(* a list.                                                                 *)
(***************************************************************************)
LEMMA TailEntries ==
  ASSUME NEW s \in Seq(Entry), s # << >>
  PROVE  /\ Tail(s) \in Seq(Entry)
         /\ Len(s) \in Nat
         /\ Len(Tail(s)) = Len(s) - 1
         /\ Head(s) = s[1]
         /\ 1 \in 1..Len(s)
         /\ \A i \in 1..Len(Tail(s)) : i + 1 \in 1..Len(s) /\ Tail(s)[i] = s[i + 1]
         /\ \A i \in 1..Len(s) : i # 1 => i - 1 \in 1..Len(Tail(s)) /\ Tail(s)[i - 1] = s[i]
OBVIOUS

LEMMA AppendEntries ==
  ASSUME NEW s \in Seq(Entry), NEW x \in Entry
  PROVE  /\ Len(s) \in Nat
         /\ Len(Append(s, x)) = Len(s) + 1
         /\ \A i \in 1..Len(s) : Append(s, x)[i] = s[i]
         /\ Append(s, x)[Len(s) + 1] = x
         /\ \A i \in 1..Len(Append(s, x)) : i \in 1..Len(s) \/ i = Len(s) + 1
OBVIOUS

(* A step that leaves the lists and what the workers carry alone.          *)
LEMMA BuffersFrame ==
  ASSUME BuffersConserved, task_list' = task_list,
         \A e \in Ends, d \in Desc : Carries(e, d)' <=> Carries(e, d)
  PROVE  BuffersConserved'
BY DEF BuffersConserved, BufferOnce, BufferSomewhere, InList, Ends

LEMMA BuffersPop ==
  ASSUME FrontInv, BuffersConserved, NEW e \in Ends, PopHeld(e)
  PROVE  BuffersConserved'
<1> DEFINE h == Head(task_list[e])
<1>1. /\ task_list[e] \in Seq(Entry) /\ task_list[e] # << >>
      /\ h = desc[e] /\ h \in Desc
      /\ ~InFlight(e)
  BY DEF FrontInv, TypeOK, FrontStable, IsCustom, InFlight, PopHeld
<1>2. /\ task_list' = [task_list EXCEPT ![e] = Tail(task_list[e])]
      /\ InFlight(e)' /\ desc'[e] = h
      /\ \A f \in Ends : f # e => (InFlight(f)' <=> InFlight(f)) /\ desc'[f] = desc[f]
  BY DEF PopHeld, Goto, InFlight, FrontInv, TypeOK
<1>3. \A f \in Ends, d \in Desc :
        Carries(f, d)' <=> IF f = e THEN d = h ELSE Carries(f, d)
  BY <1>2 DEF Carries
<1>4. \A d \in Desc : ~Carries(e, d)
  BY <1>1 DEF Carries
<1>5. \A f \in Ends : task_list'[f] = IF f = e THEN Tail(task_list[e]) ELSE task_list[f]
  BY <1>2 DEF FrontInv, TypeOK
<1>6. \A f \in Ends, d \in Desc : ~Carries(f, h)
  BY <1>1, TailEntries DEF BuffersConserved, BufferOnce, InList
<1>7. \A f \in Ends, d \in Desc :
        InList(f, d)' <=> InList(f, d) /\ ~(f = e /\ d = h)
  <2> SUFFICES ASSUME NEW f \in Ends, NEW d \in Desc
               PROVE  InList(f, d)' <=> InList(f, d) /\ ~(f = e /\ d = h)
    OBVIOUS
  <2>1. CASE f # e
    BY <1>5, <2>1 DEF InList
  <2>2. CASE f = e
    <3>1. ASSUME InList(e, d)'
          PROVE  InList(e, d) /\ d # h
      <4>1. PICK i \in 1..Len(Tail(task_list[e])) : Tail(task_list[e])[i] = d
        BY <1>5, <3>1 DEF InList
      <4>2. i + 1 \in 1..Len(task_list[e]) /\ task_list[e][i + 1] = d
        BY <1>1, <4>1, TailEntries
      <4>3. d # h
        BY <1>1, <4>1, <4>2, TailEntries DEF BuffersConserved, BufferOnce
      <4>4. QED
        BY <4>2, <4>3 DEF InList
    <3>2. ASSUME InList(e, d), d # h
          PROVE  InList(e, d)'
      <4>1. PICK i \in 1..Len(task_list[e]) : task_list[e][i] = d
        BY <3>2 DEF InList
      <4>2. i # 1
        BY <1>1, <3>2, <4>1, TailEntries
      <4>3. i - 1 \in 1..Len(Tail(task_list[e])) /\ Tail(task_list[e])[i - 1] = d
        BY <1>1, <4>1, <4>2, TailEntries
      <4>4. QED
        BY <1>5, <4>3 DEF InList
    <3>3. QED
      BY <2>2, <3>1, <3>2
  <2>3. QED
    BY <2>1, <2>2
<1>8. BufferSomewhere'
  BY <1>3, <1>4, <1>7 DEF BuffersConserved, BufferSomewhere
<1>9. BufferOnce'
  <2> SUFFICES ASSUME NEW d \in Desc
      PROVE /\ \A f, g \in Ends : \A i \in 1..Len(task_list'[f]), j \in 1..Len(task_list'[g]) :
                 task_list'[f][i] = d /\ task_list'[g][j] = d => f = g /\ i = j
            /\ \A f, g \in Ends : Carries(f, d)' => ~InList(g, d)'
            /\ ~(Carries("source", d)' /\ Carries("target", d)')
    BY DEF BufferOnce
  <2>1. ASSUME NEW f \in Ends, NEW g \in Ends,
               NEW i \in 1..Len(task_list'[f]), NEW j \in 1..Len(task_list'[g]),
               task_list'[f][i] = d, task_list'[g][j] = d
        PROVE  f = g /\ i = j
    <3> DEFINE Old(x, n) == IF x = e THEN n + 1 ELSE n
    <3>1. /\ Old(f, i) \in 1..Len(task_list[f]) /\ task_list[f][Old(f, i)] = d
          /\ Old(g, j) \in 1..Len(task_list[g]) /\ task_list[g][Old(g, j)] = d
      <4>1. ASSUME NEW y \in Ends, NEW n \in 1..Len(task_list'[y]), task_list'[y][n] = d
            PROVE  Old(y, n) \in 1..Len(task_list[y]) /\ task_list[y][Old(y, n)] = d
        <5>1. CASE y = e
          <6>1. task_list'[y] = Tail(task_list[e]) /\ Old(y, n) = n + 1
            BY <1>5, <5>1
          <6>2. n \in 1..Len(Tail(task_list[e])) /\ Tail(task_list[e])[n] = d
            BY <4>1, <6>1
          <6>3. n + 1 \in 1..Len(task_list[e]) /\ task_list[e][n + 1] = d
            BY <1>1, <6>2, TailEntries
          <6>4. QED
            BY <5>1, <6>1, <6>3
        <5>2. CASE y # e
          BY <1>5, <4>1, <5>2
        <5>3. QED
          BY <5>1, <5>2
      <4>2. QED
        BY <2>1, <4>1
    <3>2. f = g /\ Old(f, i) = Old(g, j)
      BY <3>1 DEF BuffersConserved, BufferOnce
    <3>3. QED
      BY <3>2
  <2>2. \A f, g \in Ends : Carries(f, d)' => ~InList(g, d)'
    BY <1>1, <1>3, <1>7, TailEntries DEF BuffersConserved, BufferOnce, InList
  <2>3. ~(Carries("source", d)' /\ Carries("target", d)')
    BY <1>3, <1>6 DEF Ends, BuffersConserved, BufferOnce
  <2>4. QED
    BY <2>1, <2>2, <2>3
<1>10. QED
  BY <1>8, <1>9 DEF BuffersConserved

(* Appending x to the list of end f, which nobody else has (or which is no *)
(* descriptor), with the workers carrying what they did except x.          *)
LEMMA BuffersAppend ==
  ASSUME FrontInv, BuffersConserved, NEW f \in Ends, NEW x \in Entry,
         task_list' = [task_list EXCEPT ![f] = Append(task_list[f], x)],
         \A g \in Ends : ~InList(g, x) \/ x \notin Desc,
         \A g \in Ends, d \in Desc : Carries(g, d)' <=> Carries(g, d) /\ d # x
  PROVE  BuffersConserved'
<1> DEFINE s == task_list[f]
<1>1. s \in Seq(Entry)
  BY DEF FrontInv, TypeOK
<1>2. \A g \in Ends : task_list'[g] = IF g = f THEN Append(s, x) ELSE task_list[g]
  BY DEF FrontInv, TypeOK
<1>3. \A g \in Ends, d \in Desc : InList(g, d)' <=> InList(g, d) \/ (g = f /\ d = x)
  <2> SUFFICES ASSUME NEW g \in Ends, NEW d \in Desc
               PROVE  InList(g, d)' <=> InList(g, d) \/ (g = f /\ d = x)
    OBVIOUS
  <2>1. CASE g # f
    BY <1>2, <2>1 DEF InList
  <2>2. CASE g = f
    <3>1. ASSUME InList(f, d)'
          PROVE  InList(f, d) \/ d = x
      BY <1>1, <1>2, <3>1, AppendEntries DEF InList
    <3>2. ASSUME InList(f, d)
          PROVE  InList(f, d)'
      BY <1>1, <1>2, <3>2, AppendEntries DEF InList
    <3>3. ASSUME d = x
          PROVE  InList(f, d)'
      <4>1. Len(s) + 1 \in 1..Len(Append(s, x)) /\ Append(s, x)[Len(s) + 1] = d
        BY <1>1, <3>3, AppendEntries
      <4>2. QED
        BY <1>2, <4>1 DEF InList
    <3>4. QED
      BY <2>2, <3>1, <3>2, <3>3
  <2>3. QED
    BY <2>1, <2>2
<1>4. BufferSomewhere'
  BY <1>3 DEF BuffersConserved, BufferSomewhere
<1>5. BufferOnce'
  <2> SUFFICES ASSUME NEW d \in Desc
      PROVE /\ \A g, h \in Ends : \A i \in 1..Len(task_list'[g]), j \in 1..Len(task_list'[h]) :
                 task_list'[g][i] = d /\ task_list'[h][j] = d => g = h /\ i = j
            /\ \A g, h \in Ends : Carries(g, d)' => ~InList(h, d)'
            /\ ~(Carries("source", d)' /\ Carries("target", d)')
    BY DEF BufferOnce
  <2>1. ASSUME NEW g \in Ends, NEW h \in Ends,
               NEW i \in 1..Len(task_list'[g]), NEW j \in 1..Len(task_list'[h]),
               task_list'[g][i] = d, task_list'[h][j] = d
        PROVE  g = h /\ i = j
    <3> DEFINE Old(y, n) == n \in 1..Len(task_list[y]) /\ task_list[y][n] = d
               New(y, n) == y = f /\ n = Len(s) + 1 /\ d = x
    <3>1. Old(g, i) \/ New(g, i)
      BY <1>1, <1>2, <2>1, AppendEntries
    <3>2. Old(h, j) \/ New(h, j)
      BY <1>1, <1>2, <2>1, AppendEntries
    <3>3. CASE d = x
      <4>1. ~Old(g, i) /\ ~Old(h, j)
        BY <3>3 DEF InList
      <4>2. QED
        BY <3>1, <3>2, <4>1
    <3>4. CASE d # x
      BY <3>1, <3>2, <3>4 DEF BuffersConserved, BufferOnce
    <3>5. QED
      BY <3>3, <3>4
  <2>2. \A g, h \in Ends : Carries(g, d)' => ~InList(h, d)'
    BY <1>3 DEF BuffersConserved, BufferOnce
  <2>3. ~(Carries("source", d)' /\ Carries("target", d)')
    BY DEF Ends, BuffersConserved, BufferOnce
  <2>4. QED
    BY <2>1, <2>2, <2>3
<1>6. QED
  BY <1>4, <1>5 DEF BuffersConserved

LEMMA BuffersStep ==
  ASSUME FrontInv, BuffersConserved, NEW e \in Ends, Step(e)
  PROVE  BuffersConserved'
<1> USE DEF FrontInv, TypeOK, Ends, Peer, Goto
<1>1. CASE Update(e)
  BY <1>1, BuffersFrame DEF Update, Carries, InFlight
<1>2. CASE GetLock(e) \/ TryLock(e) \/ PopLock(e)
  BY <1>2, BuffersFrame DEF GetLock, TryLock, PopLock, Carries, InFlight
<1>3. CASE PushLock(e)
  BY <1>3, BuffersFrame DEF PushLock, Carries, InFlight
<1>4. CASE GetHeld(e) \/ TryHeld(e)
  BY <1>4, BuffersFrame DEF GetHeld, TryHeld, HandOut, Carries, InFlight
<1>5. CASE GetWait(e) \/ PushSignal(e)
  BY <1>5, BuffersFrame DEF GetWait, PushSignal, Carries, InFlight
<1>6. CASE PopHeld(e)
  BY <1>6, BuffersPop
<1>7. CASE PushHeld(e)
  <2>1. /\ task_list' = [task_list EXCEPT ![Peer(e)] = Append(task_list[Peer(e)], desc[e])]
        /\ Peer(e) \in Ends /\ desc[e] \in Entry
    BY <1>7 DEF PushHeld
  <2>2. \A g \in Ends : ~InList(g, desc[e]) \/ desc[e] \notin Desc
    BY <1>7 DEF PushHeld, BuffersConserved, BufferOnce, Carries, InFlight
  <2>3. \A g \in Ends, d \in Desc : Carries(g, d)' <=> Carries(g, d) /\ d # desc[e]
    BY <1>7 DEF PushHeld, BuffersConserved, BufferOnce, Carries, InFlight
  <2>4. QED
    BY <2>1, <2>2, <2>3, BuffersAppend
<1>8. CASE StopProcedure(e) \/ ShutdownLock(e) \/ ShutdownSignal(e) \/ TaskStop(e)
  BY <1>8, BuffersFrame
  DEF StopProcedure, ShutdownLock, ShutdownSignal, TaskStop, Carries, InFlight
<1>9. CASE ShutdownHeld(e)
  <2>1. /\ task_list' = [task_list EXCEPT ![e] = Append(task_list[e], Shutdown)]
        /\ Shutdown \in Entry /\ Shutdown \notin Desc
    BY <1>9, ConnectionAssumption DEF ShutdownHeld, Shutdown, Entry, Desc
  <2>2. \A g \in Ends, d \in Desc : Carries(g, d)' <=> Carries(g, d) /\ d # Shutdown
    BY <1>9, <2>1 DEF ShutdownHeld, Carries, InFlight
  <2>3. QED
    BY <2>1, <2>2, BuffersAppend
<1>10. QED
  BY <1>1, <1>2, <1>3, <1>4, <1>5, <1>6, <1>7, <1>8, <1>9 DEF Step

(***************************************************************************)
(* Each buffer of the connection is, at every moment, in exactly one place *)
(* and once: no package is lost, no buffer is written while it is queued.  *)
(***************************************************************************)
THEOREM Conservation == Spec => []BuffersConserved
<1>1. Init => BuffersConserved
  <2> SUFFICES ASSUME Init PROVE BuffersConserved
    OBVIOUS
  <2>1. /\ task_list["source"] = [i \in Desc |-> i] /\ task_list["target"] = << >>
        /\ Len(task_list["source"]) = MaxDataNum /\ Len(task_list["target"]) = 0
    BY ConnectionAssumption DEF Init, Ends, Desc
  <2>2. \A e \in Ends : ~InFlight(e)
    BY DEF Init, InFlight
  <2>3. QED
    BY <2>1, <2>2, ConnectionAssumption
    DEF BuffersConserved, BufferOnce, BufferSomewhere, InList, Carries, Ends, Desc
<1>2. FrontInv /\ BuffersConserved /\ [Next]_vars => BuffersConserved'
  <2> SUFFICES ASSUME FrontInv, BuffersConserved, [Next]_vars PROVE BuffersConserved'
    OBVIOUS
  <2>1. CASE Fill \/ InputDataHandler
    BY <2>1, BuffersFrame
    DEF Fill, InputDataHandler, Goto, FrontInv, TypeOK, Ends, Carries, InFlight
  <2>2. CASE UNCHANGED vars
    BY <2>2, BuffersFrame DEF vars, Carries, InFlight
  <2>3. QED
    BY <2>1, <2>2, BuffersStep, NextSteps
<1>3. QED
  BY FrontInit, FrontNext, <1>1, <1>2, PTL DEF Spec
-----------------------------------------------------------------------------
(***************************************************************************)
(* The connection as a bounded channel.  What the packages of a list are,  *)
(* when a command or a buffer is appended and when a buffer is taken from  *)
(* the front, for a list with one command at most.                         *)
(***************************************************************************)
OneCommand(l) == \A i, j \in 1..Len(l) : ~IsCustom(l[i]) /\ ~IsCustom(l[j]) => i = j

Position(l, i) == IF Commanded(l, i) THEN i + 1 ELSE i

LEMMA PackageIsCustom ==
  ASSUME NEW l \in Seq(Entry), OneCommand(l)
  PROVE  /\ Packages(l) \in 0..Len(l)
         /\ \A i \in 1..Packages(l) : /\ Position(l, i) \in 1..Len(l)
                                     /\ Package(l, i) = l[Position(l, i)]
                                     /\ Package(l, i) \in Desc
<1>1. Len(l) \in Nat
  OBVIOUS
<1>2. Packages(l) \in 0..Len(l)
  BY <1>1 DEF Packages, Commanded
<1>3. ASSUME NEW i \in 1..Packages(l)
      PROVE  Position(l, i) \in 1..Len(l) /\ Package(l, i) \in Desc
  <2>1. CASE Commanded(l, i)
    <3>1. PICK j \in 1..i : ~IsCustom(l[j])
      BY <2>1 DEF Commanded
    <3>2. Packages(l) = Len(l) - 1
      BY <1>1, <1>2, <1>3, <3>1 DEF Packages, Commanded
    <3>3. i + 1 \in 1..Len(l) /\ j \in 1..Len(l) /\ i + 1 # j
      BY <1>1, <1>3, <3>1, <3>2
    <3>4. IsCustom(l[i + 1])
      BY <3>1, <3>3 DEF OneCommand
    <3>. QED
      BY <2>1, <3>3, <3>4 DEF Position, Package, IsCustom
  <2>2. CASE ~Commanded(l, i)
    <3>1. i \in 1..Len(l) /\ IsCustom(l[i])
      BY <1>1, <1>2, <1>3, <2>2 DEF Commanded
    <3>. QED
      BY <2>2, <3>1 DEF Position, Package, IsCustom
  <2>. QED
    BY <2>1, <2>2
<1>. QED
  BY <1>2, <1>3 DEF Position, Package

LEMMA AppendedCommand ==
  ASSUME NEW l \in Seq(Entry), ~Commanded(l, Len(l)), NEW x \in Entry, ~IsCustom(x)
  PROVE  /\ OneCommand(Append(l, x))
         /\ Pending(Append(l, x)) = Pending(l)
<1>1. /\ Len(l) \in Nat /\ Len(Append(l, x)) = Len(l) + 1
      /\ \A i \in 1..Len(l) : Append(l, x)[i] = l[i] /\ IsCustom(l[i])
      /\ Append(l, x)[Len(l) + 1] = x
  BY AppendEntries DEF Commanded
<1>2. Commanded(Append(l, x), Len(l) + 1) /\ Len(l) + 1 \in Nat
  BY <1>1 DEF Commanded
<1>3. Packages(Append(l, x)) = Len(l) /\ Packages(l) = Len(l)
  BY <1>1, <1>2 DEF Packages
<1>4. \A i \in 1..Len(l) : Package(Append(l, x), i) = Package(l, i)
  BY <1>1 DEF Package, Commanded
<1>5. OneCommand(Append(l, x))
  BY <1>1 DEF OneCommand
<1>. QED
  BY <1>3, <1>4, <1>5 DEF Pending

LEMMA AppendedBuffer ==
  ASSUME NEW l \in Seq(Entry), OneCommand(l), NEW d \in Desc
  PROVE  /\ OneCommand(Append(l, d))
         /\ Packages(Append(l, d)) = Packages(l) + 1
         /\ \A i \in 1..Packages(l) : Package(Append(l, d), i) = Package(l, i)
         /\ Package(Append(l, d), Packages(l) + 1) = d
         /\ \A n \in Nat : n <= Len(l) => (Commanded(Append(l, d), n) <=> Commanded(l, n))
         /\ Commanded(Append(l, d), Len(l) + 1) <=> Commanded(l, Len(l))
<1>1. /\ Len(l) \in Nat /\ Len(Append(l, d)) = Len(l) + 1
      /\ \A i \in 1..Len(l) : Append(l, d)[i] = l[i]
      /\ Append(l, d)[Len(l) + 1] = d /\ IsCustom(d)
  BY AppendEntries DEF Entry, IsCustom
<1>2. \A n \in Nat : n <= Len(l) => (Commanded(Append(l, d), n) <=> Commanded(l, n))
  BY <1>1 DEF Commanded
<1>3. Commanded(Append(l, d), Len(l) + 1) <=> Commanded(l, Len(l))
  BY <1>1 DEF Commanded
<1>4. Packages(Append(l, d)) = Packages(l) + 1
  BY <1>1, <1>3 DEF Packages
<1>5. ASSUME NEW i \in 1..Packages(l) PROVE Package(Append(l, d), i) = Package(l, i)
  <2>1. Position(l, i) \in 1..Len(l) /\ i \in Nat /\ i <= Len(l)
    BY <1>1, PackageIsCustom
  <2>. QED
    BY <1>1, <1>2, <2>1 DEF Package, Position
<1>6. Package(Append(l, d), Packages(l) + 1) = d
  <2>1. CASE Commanded(l, Len(l))
    <3>1. Packages(l) = Len(l) - 1 /\ Len(l) - 1 + 1 = Len(l)
      BY <1>1, <2>1 DEF Packages
    <3>2. Commanded(Append(l, d), Len(l))
      BY <1>1, <1>2, <2>1
    <3>. QED
      BY <1>1, <3>1, <3>2 DEF Package
  <2>2. CASE ~Commanded(l, Len(l))
    BY <1>1, <1>3, <2>2 DEF Package, Packages
  <2>. QED
    BY <2>1, <2>2
<1>7. OneCommand(Append(l, d))
  BY <1>1 DEF OneCommand
<1>. QED
  BY <1>2, <1>3, <1>4, <1>5, <1>6, <1>7

LEMMA TakenFront ==
  ASSUME NEW l \in Seq(Entry), OneCommand(l), l # << >>, Head(l) \in Desc
  PROVE  /\ OneCommand(Tail(l))
         /\ Packages(l) \in Nat \ {0}
         /\ Packages(Tail(l)) = Packages(l) - 1
         /\ \A i \in 1..Packages(l) - 1 : Package(Tail(l), i) = Package(l, i + 1)
         /\ Commanded(Tail(l), Len(Tail(l))) <=> Commanded(l, Len(l))
<1>1. /\ Len(l) \in Nat \ {0} /\ Len(Tail(l)) = Len(l) - 1 /\ IsCustom(l[1])
      /\ \A i \in 1..Len(l) - 1 : Tail(l)[i] = l[i + 1]
  BY TailEntries DEF IsCustom
<1>2. \A n \in 0..Len(l) - 1 : Commanded(Tail(l), n) <=> Commanded(l, n + 1)
  <2> SUFFICES ASSUME NEW n \in 0..Len(l) - 1
               PROVE  Commanded(Tail(l), n) <=> Commanded(l, n + 1)
    OBVIOUS
  <2>1. ASSUME Commanded(Tail(l), n) PROVE Commanded(l, n + 1)
    <3>1. PICK j \in 1..n : ~IsCustom(Tail(l)[j])
      BY <2>1 DEF Commanded
    <3>2. j + 1 \in 1..n + 1 /\ ~IsCustom(l[j + 1])
      BY <1>1, <3>1
    <3>. QED
      BY <3>2 DEF Commanded
  <2>2. ASSUME Commanded(l, n + 1) PROVE Commanded(Tail(l), n)
    <3>1. PICK j \in 1..n + 1 : ~IsCustom(l[j])
      BY <2>2 DEF Commanded
    <3>2. j - 1 \in 1..n /\ (j - 1) + 1 = j
      BY <1>1, <3>1
    <3>3. Tail(l)[j - 1] = l[j]
      BY <1>1, <3>2
    <3>. QED
      BY <3>1, <3>2, <3>3 DEF Commanded
  <2>. QED
    BY <2>1, <2>2
<1>3. Commanded(Tail(l), Len(Tail(l))) <=> Commanded(l, Len(l))
  BY <1>1, <1>2
<1>4. Packages(l) \in Nat \ {0}
  <2>1. CASE Commanded(l, Len(l))
    <3>1. Len(l) # 1
      BY <1>1, <2>1 DEF Commanded
    <3>. QED
      BY <1>1, <2>1, <3>1 DEF Packages
  <2>2. CASE ~Commanded(l, Len(l))
    BY <1>1, <2>2 DEF Packages
  <2>. QED
    BY <2>1, <2>2
<1>5. Packages(Tail(l)) = Packages(l) - 1
  BY <1>1, <1>3 DEF Packages
<1>6. ASSUME NEW i \in 1..Packages(l) - 1 PROVE Package(Tail(l), i) = Package(l, i + 1)
  <2>1. i + 1 \in 1..Packages(l) /\ i \in 0..Len(l) - 1 /\ Position(l, i + 1) \in 1..Len(l)
    BY <1>1, <1>4, PackageIsCustom
  <2>2. Commanded(Tail(l), i) <=> Commanded(l, i + 1)
    BY <1>2, <2>1
  <2>3. CASE Commanded(l, i + 1)
    <3>1. i + 1 \in 1..Len(l) - 1
      BY <1>1, <2>1, <2>3 DEF Position
    <3>. QED
      BY <1>1, <2>2, <2>3, <3>1 DEF Package
  <2>4. CASE ~Commanded(l, i + 1)
    BY <1>1, <2>1, <2>2, <2>4 DEF Package, Position
  <2>. QED
    BY <2>3, <2>4
<1>7. OneCommand(Tail(l))
  BY <1>1 DEF OneCommand
<1>. QED
  BY <1>3, <1>4, <1>5, <1>6, <1>7

LEMMA IsAppend ==
  ASSUME NEW S, NEW s \in Seq(S), NEW t \in Seq(S), NEW x \in S,
         Len(t) = Len(s) + 1, \A i \in 1..Len(s) : t[i] = s[i], t[Len(s) + 1] = x
  PROVE  t = Append(s, x)
OBVIOUS

LEMMA IsTail ==
  ASSUME NEW S, NEW s \in Seq(S), NEW t \in Seq(S),
         Len(s) = Len(t) + 1, \A i \in 1..Len(t) : t[i] = s[i + 1]
  PROVE  s # << >> /\ t = Tail(s)
OBVIOUS

(* A list whose buffers are all different, and lack one, is not full.      *)
LEMMA RoomForOne ==
  ASSUME NEW l \in Seq(Entry), OneCommand(l), NEW d \in Desc,
         \A i, j \in 1..Len(l) : l[i] \in Desc /\ l[i] = l[j] => i = j,
         \A i \in 1..Len(l) : l[i] # d
  PROVE  Packages(l) < MaxDataNum
<1> DEFINE n == Packages(l)
           f == [i \in 1..n |-> Package(l, i)]
<1>1. n \in Nat /\ MaxDataNum \in Nat
  BY PackageIsCustom, ConnectionAssumption
<1>2. IsFiniteSet(Desc) /\ Cardinality(Desc) = MaxDataNum
  <2>1. 1 \in Int /\ MaxDataNum \in Int /\ (IF 1 > MaxDataNum THEN 0 ELSE MaxDataNum - 1 + 1)
                                              = MaxDataNum
    BY <1>1, ConnectionAssumption
  <2>2. IsFiniteSet(1..MaxDataNum) /\ Cardinality(1..MaxDataNum)
                                      = IF 1 > MaxDataNum THEN 0 ELSE MaxDataNum - 1 + 1
    BY <2>1, FS_Interval
  <2>. QED
    BY <2>1, <2>2 DEF Desc
<1>3. IsFiniteSet(Desc \ {d}) /\ Cardinality(Desc \ {d}) = MaxDataNum - 1
  BY <1>2, FS_RemoveElement
<1>4. IsFiniteSet(1..n) /\ Cardinality(1..n) = n
  BY <1>1, FS_Interval
<1>5. f \in [1..n -> Desc \ {d}]
  BY PackageIsCustom
<1>6. ASSUME NEW i \in 1..n, NEW j \in 1..n, f[i] = f[j] PROVE i = j
  <2>1. Position(l, i) = Position(l, j)
    BY <1>6, PackageIsCustom
  <2>2. i \in Int /\ j \in Int /\ (i <= j /\ Commanded(l, i) => Commanded(l, j))
        /\ (j <= i /\ Commanded(l, j) => Commanded(l, i))
    BY <1>1 DEF Commanded
  <2>. QED
    BY <2>1, <2>2 DEF Position
<1>7. ~(MaxDataNum - 1 < n)
  <2> HIDE DEF f, n
  <2> SUFFICES ASSUME Cardinality(Desc \ {d}) < Cardinality(1..n) PROVE FALSE
    BY <1>3, <1>4
  <2>1. \E i, j \in 1..n : i # j /\ f[i] = f[j]
    BY <1>3, <1>4, <1>5, FS_PigeonHole
  <2>. QED
    BY <1>6, <2>1
<1>. QED
  BY <1>1, <1>7

(***************************************************************************)
(* What the refinement needs beside the order and the conservation of the  *)
(* buffers: the target is told to shut down once, and a buffer that the    *)
(* source commits has been written.                                        *)
(***************************************************************************)
Committing == pc["source"] \in {"popLock", "popHeld", "pushLock", "pushHeld"}

PackagesInv ==
  LET l == task_list["target"] IN
  /\ OneCommand(l)
  /\ Commanded(l, Len(l)) => ~is_running["target"]
  /\ ctl.end = "target" /\ ctl.step \in {"lock", "held"} =>
       ~is_running["target"] /\ ~Commanded(l, Len(l))
  /\ Committing => desc["source"] \in Desc /\ data[desc["source"]] \in Payload

LEMMA PackagesInit == Init => PackagesInv /\ Channel!Init
<1> SUFFICES ASSUME Init PROVE PackagesInv /\ Channel!Init
  OBVIOUS
<1>1. task_list["target"] = << >> /\ Len(task_list["target"]) = 0
  BY DEF Init, Ends
<1>2. Packages(task_list["target"]) = 0
  BY <1>1 DEF Packages, Commanded
<1>3. Channel!Init
  BY <1>2 DEF Channel!Init, Pending
<1>. QED
  BY <1>1, <1>3 DEF Init, PackagesInv, OneCommand, Commanded, Committing, Ends

(* A step that leaves the target's list and the data of its packages alone *)
(* is no step of the channel.                                              *)
LEMMA PendingKept ==
  ASSUME FrontInv, PackagesInv, task_list'["target"] = task_list["target"],
         \A i \in 1..Len(task_list["target"]) :
           task_list["target"][i] \in Desc =>
             data'[task_list["target"][i]] = data[task_list["target"][i]]
  PROVE  Pending(task_list["target"])' = Pending(task_list["target"])
<1> DEFINE l == task_list["target"]
<1>1. l \in Seq(Entry) /\ OneCommand(l)
  BY DEF FrontInv, TypeOK, PackagesInv, Ends
<1>2. \A i \in 1..Packages(l) : data'[Package(l, i)] = data[Package(l, i)]
  BY <1>1, PackageIsCustom
<1>. QED
  BY <1>2 DEF Pending

(* The packages as a sequence, with the data that a state gives them.      *)
LEMMA PackagesAsSequence ==
  ASSUME NEW l \in Seq(Entry), OneCommand(l), NEW dat \in [Desc -> Payload \cup {NoData}],
         NEW q, q = [i \in 1..Packages(l) |-> dat[Package(l, i)]]
  PROVE  /\ q \in Seq(Payload \cup {NoData})
         /\ Len(q) = Packages(l)
         /\ \A i \in 1..Packages(l) : q[i] = dat[Package(l, i)]
<1>1. Packages(l) \in Nat /\ \A i \in 1..Packages(l) : dat[Package(l, i)] \in Payload \cup {NoData}
  BY PackageIsCustom
<1>. QED
  BY <1>1

(* The steps that change the target's list or what it carries.             *)
LEMMA CommandPushed ==
  ASSUME FrontInv, PackagesInv, ShutdownHeld("target")
  PROVE  PackagesInv' /\ Pending(task_list["target"])' = Pending(task_list["target"])
<1> DEFINE l == task_list["target"]
<1>1. l \in Seq(Entry) /\ Shutdown \in Entry /\ ~IsCustom(Shutdown)
  BY ConnectionAssumption DEF FrontInv, TypeOK, Ends, Entry, IsCustom, Shutdown, Desc
<1>2. ~Commanded(l, Len(l)) /\ ~is_running["target"]
  BY DEF ShutdownHeld, PackagesInv
<1>3. /\ task_list'["target"] = Append(l, Shutdown)
      /\ UNCHANGED <<is_running, data, pc, desc>> /\ ctl'.step = "signal"
  BY DEF ShutdownHeld, FrontInv, TypeOK, Ends
<1>4. OneCommand(Append(l, Shutdown)) /\ Pending(Append(l, Shutdown)) = Pending(l)
  BY <1>1, <1>2, AppendedCommand
<1>. QED
  BY <1>2, <1>3, <1>4 DEF PackagesInv, Committing, Pending

LEMMA BufferPushed ==
  ASSUME FrontInv, BuffersConserved, PackagesInv, PushHeld("source")
  PROVE  /\ PackagesInv'
         /\ \E v \in Payload : Channel!Put(v)
<1> DEFINE l == task_list["target"]
           d == desc["source"]
<1>1. l \in Seq(Entry) /\ OneCommand(l)
  BY DEF FrontInv, TypeOK, PackagesInv, Ends
<1>2. d \in Desc /\ data[d] \in Payload /\ Carries("source", d)
  BY DEF PushHeld, FrontInv, FrontStable, Ends, IsCustom, InFlight, PackagesInv, Committing,
         Carries
<1>3. /\ task_list'["target"] = Append(l, d)
      /\ UNCHANGED <<is_running, data, ctl>> /\ pc'["source"] = "signal"
  BY DEF PushHeld, Peer, Goto, FrontInv, TypeOK, Ends
<1>4. /\ \A i, j \in 1..Len(l) : l[i] \in Desc /\ l[i] = l[j] => i = j
      /\ \A i \in 1..Len(l) : l[i] # d
  BY <1>2 DEF BuffersConserved, BufferOnce, InList, Ends
<1>5. Packages(l) < MaxDataNum
  BY <1>1, <1>2, <1>4, RoomForOne
<1>6. PackagesInv'
  BY <1>1, <1>2, <1>3, AppendedBuffer DEF PackagesInv, Committing
<1>7. /\ Append(l, d) \in Seq(Entry) /\ OneCommand(Append(l, d))
      /\ Packages(Append(l, d)) = Packages(l) + 1 /\ Packages(l) \in Nat
      /\ \A i \in 1..Packages(l) : Package(Append(l, d), i) = Package(l, i)
      /\ Package(Append(l, d), Packages(l) + 1) = d
  BY <1>1, <1>2, AppendedBuffer, PackageIsCustom, AppendFacts DEF Entry
<1>8. /\ Pending(l)' = Append(Pending(l), data[d])
      /\ Len(Pending(l)) < MaxDataNum
  <2> DEFINE q == Pending(l)
             r == [i \in 1..Packages(Append(l, d)) |-> data[Package(Append(l, d), i)]]
  <2>1. data \in [Desc -> Payload \cup {NoData}] /\ Pending(l)' = r
    BY <1>3 DEF FrontInv, TypeOK, Pending
  <2>2. /\ q \in Seq(Payload \cup {NoData}) /\ Len(q) = Packages(l)
        /\ \A i \in 1..Packages(l) : q[i] = data[Package(l, i)]
    BY <1>1, <2>1, PackagesAsSequence DEF Pending
  <2>3. /\ r \in Seq(Payload \cup {NoData}) /\ Len(r) = Packages(Append(l, d))
        /\ \A i \in 1..Packages(Append(l, d)) : r[i] = data[Package(Append(l, d), i)]
    BY <1>7, <2>1, PackagesAsSequence
  <2> HIDE DEF q, r
  <2>4. /\ Len(r) = Len(q) + 1
        /\ \A i \in 1..Len(q) : r[i] = q[i]
        /\ r[Len(q) + 1] = data[d]
    BY <1>7, <2>2, <2>3
  <2>5. r = Append(q, data[d])
    BY <1>2, <2>2, <2>3, <2>4, IsAppend
  <2>. QED
    BY <1>5, <2>1, <2>2, <2>5 DEF q
<1>. QED
  BY <1>2, <1>6, <1>8 DEF Channel!Put

LEMMA BufferTaken ==
  ASSUME FrontInv, PackagesInv, PopHeld("target")
  PROVE  PackagesInv' /\ Channel!Get
<1> DEFINE l == task_list["target"]
<1>1. l \in Seq(Entry) /\ OneCommand(l) /\ l # << >> /\ Head(l) \in Desc
  BY DEF FrontInv, TypeOK, PackagesInv, Ends, FrontStable, IsCustom, InFlight, PopHeld
<1>2. /\ task_list'["target"] = Tail(l)
      /\ UNCHANGED <<is_running, data, ctl>>
      /\ pc'["source"] = pc["source"] /\ desc'["source"] = desc["source"]
  BY DEF PopHeld, Goto, FrontInv, TypeOK, Ends
<1>3. /\ OneCommand(Tail(l))
      /\ Packages(l) \in Nat \ {0}
      /\ Packages(Tail(l)) = Packages(l) - 1
      /\ \A i \in 1..Packages(l) - 1 : Package(Tail(l), i) = Package(l, i + 1)
      /\ Commanded(Tail(l), Len(Tail(l))) <=> Commanded(l, Len(l))
  BY <1>1, TakenFront
<1>4. PackagesInv'
  BY <1>2, <1>3 DEF PackagesInv, Committing
<1>5. Tail(l) \in Seq(Entry)
  BY <1>1, TailEntries
<1>6. Pending(l) # << >> /\ Pending(l)' = Tail(Pending(l))
  <2> DEFINE q == Pending(l)
             r == [i \in 1..Packages(Tail(l)) |-> data[Package(Tail(l), i)]]
  <2>1. data \in [Desc -> Payload \cup {NoData}] /\ Pending(l)' = r
    BY <1>2 DEF FrontInv, TypeOK, Pending
  <2>2. /\ q \in Seq(Payload \cup {NoData}) /\ Len(q) = Packages(l)
        /\ \A i \in 1..Packages(l) : q[i] = data[Package(l, i)]
    BY <1>1, <2>1, PackagesAsSequence DEF Pending
  <2>3. /\ r \in Seq(Payload \cup {NoData}) /\ Len(r) = Packages(Tail(l))
        /\ \A i \in 1..Packages(Tail(l)) : r[i] = data[Package(Tail(l), i)]
    BY <1>3, <1>5, <2>1, PackagesAsSequence
  <2> HIDE DEF q, r
  <2>4. /\ Len(q) = Len(r) + 1
        /\ \A i \in 1..Len(r) : r[i] = q[i + 1]
    BY <1>3, <2>2, <2>3
  <2>5. q # << >> /\ r = Tail(q)
    BY <2>2, <2>3, <2>4, IsTail
  <2>. QED
    BY <2>1, <2>5 DEF q
<1>. QED
  BY <1>4, <1>6 DEF Channel!Get


LEMMA ChannelStep ==
  ASSUME FrontInv, BuffersConserved, PackagesInv, NEW e \in Ends, Step(e)
  PROVE  PackagesInv' /\ [Channel!Next]_(Pending(task_list["target"]))
<1> DEFINE l == task_list["target"]
<1>1. CASE ShutdownHeld(e) /\ e = "target"
  BY <1>1, CommandPushed
<1>2. CASE PushHeld(e) /\ e = "source"
  BY <1>2, BufferPushed DEF Channel!Next
<1>3. CASE PopHeld(e) /\ e = "target"
  BY <1>3, BufferTaken DEF Channel!Next
<1>4. ASSUME task_list' = task_list \/ \E t : task_list' = [task_list EXCEPT !["source"] = t],
             data' = data
      PROVE  l' = l /\ Pending(l)' = Pending(l)
  <2>1. l' = l
    BY <1>4 DEF FrontInv, TypeOK, Ends
  <2>. QED
    BY <1>4, <2>1, PendingKept
<1>5. CASE Update(e) \/ GetLock(e) \/ GetWait(e) \/ TryLock(e) \/ PopLock(e) \/ PushLock(e)
           \/ PushSignal(e)
  <2>1. /\ UNCHANGED <<task_list, data, desc, is_running, ctl>>
        /\ Committing' => Committing
    BY <1>5 DEF Update, GetLock, GetWait, TryLock, PopLock, PushLock, PushSignal, Goto,
                Committing, FrontInv, TypeOK, Ends
  <2>. QED
    BY <1>4, <2>1 DEF PackagesInv, Committing
<1>6. CASE GetHeld(e) \/ TryHeld(e)
  <2>1. /\ UNCHANGED <<task_list, data, is_running, ctl>>
        /\ Committing' => Committing /\ desc'["source"] = desc["source"]
    BY <1>6 DEF GetHeld, TryHeld, HandOut, Goto, Committing, FrontInv, TypeOK, Ends
  <2>. QED
    BY <1>4, <2>1 DEF PackagesInv
<1>7. CASE PopHeld(e) /\ e = "source"
  <2>1. /\ UNCHANGED <<data, is_running, ctl>> /\ Committing /\ desc'["source"] = desc["source"]
        /\ task_list' = [task_list EXCEPT !["source"] = Tail(@)]
    BY <1>7 DEF PopHeld, Committing, FrontInv, TypeOK, FrontStable, IsCustom, InFlight, Ends
  <2>. QED
    BY <1>4, <2>1 DEF PackagesInv
<1>8. CASE PushHeld(e) /\ e = "target"
  <2>1. /\ UNCHANGED <<data, is_running, ctl>>
        /\ pc'["source"] = pc["source"] /\ desc'["source"] = desc["source"]
        /\ \E t : task_list' = [task_list EXCEPT !["source"] = t]
    BY <1>8 DEF PushHeld, Peer, Goto, FrontInv, TypeOK, Ends
  <2>. QED
    BY <1>4, <2>1 DEF PackagesInv, Committing
<1>9. CASE ShutdownHeld(e) /\ e = "source"
  <2>1. /\ UNCHANGED <<data, is_running, pc, desc>> /\ ctl'.end = "source"
        /\ \E t : task_list' = [task_list EXCEPT !["source"] = t]
    BY <1>9 DEF ShutdownHeld, FrontInv, TypeOK, Ends
  <2>. QED
    BY <1>4, <2>1 DEF PackagesInv, Committing
<1>10. CASE StopProcedure(e)
  <2>1. /\ UNCHANGED <<task_list, data, pc, desc>> /\ is_running[e]
        /\ is_running' = [is_running EXCEPT ![e] = FALSE]
        /\ ctl' = [step |-> "lock", end |-> e]
    BY <1>10 DEF StopProcedure
  <2>2. /\ ~is_running'[e] /\ \A f \in Ends : ~is_running[f] => ~is_running'[f]
    BY <2>1 DEF FrontInv, TypeOK
  <2>. QED
    BY <1>4, <2>1, <2>2 DEF PackagesInv, Committing, Ends
<1>11. CASE ShutdownLock(e) \/ ShutdownSignal(e) \/ TaskStop(e)
  <2>1. /\ UNCHANGED <<task_list, data, pc, desc, is_running>> /\ ctl'.end = ctl.end
        /\ ctl'.step \in {"lock", "held"} => ctl.step \in {"lock", "held"}
    BY <1>11 DEF ShutdownLock, ShutdownSignal, TaskStop, FrontInv, TypeOK
  <2>. QED
    BY <1>4, <2>1 DEF PackagesInv, Committing
<1>. QED
  BY <1>1, <1>2, <1>3, <1>5, <1>6, <1>7, <1>8, <1>9, <1>10, <1>11 DEF Step, Ends

LEMMA ChannelWork ==
  ASSUME FrontInv, BuffersConserved, PackagesInv, Fill \/ InputDataHandler
  PROVE  PackagesInv' /\ Pending(task_list["target"])' = Pending(task_list["target"])
<1> DEFINE l == task_list["target"]
<1>1. /\ UNCHANGED <<task_list, is_running, ctl, desc>>
      /\ IsCustom(desc["source"]) /\ ~InFlight("source") => InList("source", desc["source"])
  <2>1. /\ task_list["source"] \in Seq(Entry)
        /\ IsCustom(desc["source"]) /\ ~InFlight("source") =>
             task_list["source"] # << >> /\ Head(task_list["source"]) = desc["source"]
    BY DEF FrontInv, TypeOK, FrontStable, Ends
  <2>. QED
    BY <2>1, TailEntries DEF Fill, InputDataHandler, InList
<1>2. CASE pc["source"] = "use" /\ pc'["source"] = "popLock" /\
           \E v \in Payload : data' = [data EXCEPT ![desc["source"]] = v]
  <2>1. desc["source"] \in Desc /\ InList("source", desc["source"])
    BY <1>1, <1>2 DEF FrontInv, FrontStable, IsCustom, InFlight, Ends
  <2>2. /\ data'[desc["source"]] \in Payload
        /\ \A d \in Desc : d # desc["source"] => data'[d] = data[d]
    BY <1>2, <2>1 DEF FrontInv, TypeOK
  <2>3. \A i \in 1..Len(l) : l[i] # desc["source"]
    BY <2>1 DEF BuffersConserved, BufferOnce, InList, Ends
  <2>. QED
    BY <1>1, <2>1, <2>2, <2>3, PendingKept DEF PackagesInv, Committing
<1>3. CASE data' = data /\ (pc'["source"] = "idle" \/ pc'["source"] = pc["source"])
  BY <1>1, <1>3, PendingKept DEF PackagesInv, Committing
<1>. QED
  BY <1>2, <1>3 DEF Fill, InputDataHandler, Goto, FrontInv, TypeOK, Ends

(***************************************************************************)
(* pipeline_connection refines the bounded channel: for every number of    *)
(* buffers and whatever is written into them, what the source commits is   *)
(* what the target is given, in this order, whole and once, also while     *)
(* either procedure is being stopped.                                      *)
(***************************************************************************)
THEOREM Implementation == Spec => ImplementsChannel
<1>1. FrontInv /\ BuffersConserved /\ PackagesInv /\ [Next]_vars =>
        PackagesInv' /\ [Channel!Next]_(Pending(task_list["target"]))
  <2> SUFFICES ASSUME FrontInv, BuffersConserved, PackagesInv, [Next]_vars
               PROVE  PackagesInv' /\ [Channel!Next]_(Pending(task_list["target"]))
    OBVIOUS
  <2>1. CASE UNCHANGED vars
    BY <2>1 DEF vars, PackagesInv, Committing, Pending
  <2>. QED
    BY <2>1, ChannelStep, ChannelWork, NextSteps
<1>2. FrontInv /\ BuffersConserved /\ [Next]_vars => FrontInv'
  BY FrontNext
<1>. QED
  BY <1>1, <1>2, FrontInit, PackagesInit, Conservation, PTL
     DEF Spec, ImplementsChannel, Channel!Spec

-----------------------------------------------------------------------------
(***************************************************************************)
(* The steps of the specification: those of the workers on the data path,  *)
(* which leave the tasks alone, and those of the tasks and the caller.     *)
(***************************************************************************)
WorkStep(e) ==
  \/ Update(e)
  \/ GetLock(e) \/ GetHeld(e) \/ GetWait(e) \/ TryLock(e) \/ TryHeld(e)
  \/ PopLock(e) \/ PopHeld(e) \/ PushLock(e) \/ PushHeld(e) \/ PushSignal(e)

ShutStep(e) == ShutdownLock(e) \/ ShutdownHeld(e) \/ ShutdownSignal(e)

LifeStep(e) ==
  \/ TaskBegin(e) \/ TaskEnd(e)
  \/ StartRunning(e) \/ StartQueue(e) \/ StartRun(e) \/ StartWait(e)
  \/ StopTest(e) \/ StopWait(e) \/ ResetLock(e)

LEMMA LifecycleSteps1 ==
  ASSUME LifecycleNext
  PROVE  \/ \E e \in Ends : WorkStep(e) /\ UNCHANGED taskVars
         \/ \E e \in Ends : ShutStep(e) /\ UNCHANGED taskVars
         \/ (Fill \/ InputDataHandler) /\ UNCHANGED taskVars
         \/ \E e \in Ends : LifeStep(e)
         \/ OutputResetHeld \/ InputResetHeld \/ PipelineStart \/ PipelineStop
<1>1. CASE SourceThread \/ TargetThread
  BY <1>1 DEF SourceThread, TargetThread, ProcedureTask, SourceWorker, TargetWorker,
       OutputGetData, InputGetData, OutputTryGetData, InputTryGetData, PassOn, MoveOn,
       WorkStep, LifeStep, Ends
<1>2. CASE Caller
  BY <1>2 DEF Caller, ProcedureStart, ProcedureStop, ShutdownStep, OutputShutdown,
       InputShutdown, OutputReset, InputReset, ShutStep, LifeStep, Ends
<1>3. QED
  BY <1>1, <1>2 DEF LifecycleNext
-----------------------------------------------------------------------------
(* Mutual exclusion on the lists, with the caller as a third thread.       *)
LifeTypeOK ==
  /\ task_ptr \in [Ends -> {"list", "NULL"}]
  /\ pc \in [Ends -> WorkerLabels \cup {"parked"}]
  /\ ctl \in [step : LifecycleSteps, end : Ends]

LifeLockInv == LifeTypeOK /\ LifecycleExclusion

LEMMA LifeLockInit == LifecycleInit => LifeLockInv
BY DEF LifecycleInit, LifeLockInv, LifeTypeOK, LifecycleExclusion, OwnerHolds, PeerHolds,
       CallerHolds, At, Ends, Peer, WorkerLabels, LifecycleSteps

LEMMA LockWork ==
  ASSUME LifeLockInv, NEW e \in Ends, WorkStep(e)
  PROVE  LifeLockInv'
<1> USE DEF LifeLockInv, LifeTypeOK, LifecycleExclusion, OwnerHolds, PeerHolds,
            CallerHolds, At, Ends, Peer, WorkerLabels, Goto,
            TakeList, GiveList, HandOut
<1>1. CASE Update(e)
  BY <1>1 DEF Update
<1>2. CASE GetLock(e) \/ TryLock(e) \/ PopLock(e)
  BY <1>2 DEF GetLock, TryLock, PopLock
<1>3. CASE GetHeld(e) \/ TryHeld(e)
  BY <1>3 DEF GetHeld, TryHeld
<1>4. CASE GetWait(e) \/ PushSignal(e)
  BY <1>4 DEF GetWait, PushSignal
<1>5. CASE PopHeld(e)
  BY <1>5 DEF PopHeld
<1>6. CASE PushLock(e)
  BY <1>6 DEF PushLock
<1>7. CASE PushHeld(e)
  BY <1>7 DEF PushHeld
<1>8. QED
  BY <1>1, <1>2, <1>3, <1>4, <1>5, <1>6, <1>7 DEF WorkStep

LEMMA LockShut ==
  ASSUME LifeLockInv, NEW e \in Ends, ShutStep(e)
  PROVE  LifeLockInv'
<1> USE DEF LifeLockInv, LifeTypeOK, LifecycleExclusion, OwnerHolds, PeerHolds,
            CallerHolds, At, Ends, Peer, LifecycleSteps, TakeList, GiveList
<1>1. CASE ShutdownLock(e)
  BY <1>1 DEF ShutdownLock
<1>2. CASE ShutdownHeld(e)
  BY <1>2 DEF ShutdownHeld
<1>3. CASE ShutdownSignal(e)
  BY <1>3 DEF ShutdownSignal
<1>4. QED
  BY <1>1, <1>2, <1>3 DEF ShutStep

LEMMA LockLife ==
  ASSUME LifeLockInv, NEW e \in Ends, LifeStep(e)
  PROVE  LifeLockInv'
<1> USE DEF LifeLockInv, LifeTypeOK, LifecycleExclusion, OwnerHolds, PeerHolds,
            CallerHolds, At, Ends, Peer, LifecycleSteps, connVars
<1>1. CASE TaskBegin(e) \/ TaskEnd(e)
  BY <1>1 DEF TaskBegin, TaskEnd, Goto, WorkerLabels
<1>2. CASE StartRunning(e) \/ StartWait(e)
  BY <1>2 DEF StartRunning, StartWait, NextProcedure
<1>3. CASE StartQueue(e) \/ StartRun(e)
  BY <1>3 DEF StartQueue, StartRun
<1>4. CASE StopTest(e)
  BY <1>4 DEF StopTest, Reset
<1>5. CASE StopWait(e)
  BY <1>5 DEF StopWait, Reset
<1>6. CASE ResetLock(e)
  BY <1>6 DEF ResetLock, Reset, TakeList
<1>7. QED
  BY <1>1, <1>2, <1>3, <1>4, <1>5, <1>6 DEF LifeStep

LEMMA LifeLockNext == LifeLockInv /\ [LifecycleNext]_lifeVars => LifeLockInv'
<1> SUFFICES ASSUME LifeLockInv, [LifecycleNext]_lifeVars PROVE LifeLockInv'
  OBVIOUS
<1>1. CASE Fill \/ InputDataHandler
  BY <1>1 DEF Fill, InputDataHandler, Goto, LifeLockInv, LifeTypeOK, LifecycleExclusion,
              OwnerHolds, PeerHolds, CallerHolds, At, Ends, Peer, WorkerLabels
<1>2. CASE OutputResetHeld \/ InputResetHeld
  BY <1>2 DEF OutputResetHeld, InputResetHeld, NextProcedure, GiveList, LifeLockInv,
              LifeTypeOK, LifecycleExclusion, OwnerHolds, PeerHolds, CallerHolds,
              At, Ends, Peer, LifecycleSteps
<1>3. CASE PipelineStart \/ PipelineStop
  BY <1>3 DEF PipelineStart, PipelineStop, connVars, LifeLockInv, LifeTypeOK,
              LifecycleExclusion, OwnerHolds, PeerHolds, CallerHolds, At, Ends,
              LifecycleSteps
<1>4. CASE UNCHANGED lifeVars
  BY <1>4 DEF lifeVars, vars, LifeLockInv, LifeTypeOK, LifecycleExclusion, OwnerHolds,
              PeerHolds, CallerHolds, At
<1>5. QED
  BY <1>1, <1>2, <1>3, <1>4, LockWork, LockShut, LockLife, LifecycleSteps1

(***************************************************************************)
(* The exchange loop stays a lock while pipelines are started, stopped and *)
(* reset: no two of worker, peer and caller are in a list at once.         *)
(***************************************************************************)
THEOREM LifeExclusion == LifecycleSpec => []LifecycleExclusion
<1>1. LifeLockInv => LifecycleExclusion
  BY DEF LifeLockInv
<1>2. QED
  BY LifeLockInit, LifeLockNext, <1>1, PTL DEF LifecycleSpec
-----------------------------------------------------------------------------
(***************************************************************************)
(* Who may be in a procedure's task.  Its end event says that the worker   *)
(* has gone and will not come again; a worker in the task is not queued a  *)
(* second time; and while is_running is down, only the call that is about  *)
(* to raise it or to wait for the end event finds anything of the task.    *)
(***************************************************************************)
Gone(e)     == pc[e] = "parked" /\ ~queued[e]
Underway(e) == ctl.end = e /\ ctl.step \in {"run", "lock", "held", "signal", "waitEnd"}
Stopping(e) == ctl.end = e /\ ctl.step \in {"lock", "held", "signal", "waitEnd", "resetOutput",
                                            "resetOutputHeld", "resetInput", "resetInputHeld"}

TaskTypeOK ==
  /\ is_running \in [Ends -> BOOLEAN]
  /\ queued \in [Ends -> BOOLEAN]
  /\ task_end_event \in [Ends -> BOOLEAN]

TaskQuiet ==
  \A e \in Ends : /\ task_end_event[e] => Gone(e)
                  /\ pc[e] # "parked" => ~queued[e]
                  /\ ~is_running[e] /\ ~Underway(e) => Gone(e)
                  /\ Stopping(e) => ~is_running[e]

TaskInv == LifeTypeOK /\ TaskTypeOK /\ TaskQuiet

LEMMA TaskInit == LifecycleInit => TaskInv
<1> SUFFICES ASSUME LifecycleInit PROVE TaskInv
  OBVIOUS
<1>1. LifeTypeOK
  BY LifeLockInit DEF LifeLockInv
<1>2. TaskTypeOK /\ TaskQuiet
  BY DEF LifecycleInit, TaskTypeOK, TaskQuiet, Gone, Underway, Stopping, Ends
<1>3. QED
  BY <1>1, <1>2 DEF TaskInv

(* A worker on the data path is in the task before and after its step.     *)
LEMMA WorkMoves ==
  ASSUME LifeTypeOK, NEW e \in Ends, WorkStep(e)
  PROVE  /\ pc[e] # "parked"
         /\ \A f \in Ends : f # e => pc'[f] = pc[f]
         /\ UNCHANGED <<is_running, ctl>>
<1> USE DEF LifeTypeOK, Ends, Goto, HandOut
<1>1. CASE Update(e) \/ GetWait(e) \/ PushSignal(e)
  BY <1>1 DEF Update, GetWait, PushSignal
<1>2. CASE GetLock(e) \/ TryLock(e) \/ PopLock(e) \/ PushLock(e)
  BY <1>2 DEF GetLock, TryLock, PopLock, PushLock
<1>3. CASE GetHeld(e) \/ TryHeld(e)
  BY <1>3 DEF GetHeld, TryHeld
<1>4. CASE PopHeld(e) \/ PushHeld(e)
  BY <1>4 DEF PopHeld, PushHeld
<1>5. QED
  BY <1>1, <1>2, <1>3, <1>4 DEF WorkStep

LEMMA TaskWork ==
  ASSUME TaskInv, LifeTypeOK', NEW e \in Ends, WorkStep(e), UNCHANGED taskVars
  PROVE  TaskInv'
<1>1. /\ pc[e] # "parked"
      /\ \A f \in Ends : f # e => pc'[f] = pc[f]
      /\ UNCHANGED <<is_running, ctl>>
  BY WorkMoves DEF TaskInv
<1>2. TaskTypeOK'
  BY <1>1 DEF TaskInv, TaskTypeOK, taskVars
<1>3. TaskQuiet'
  BY <1>1 DEF TaskInv, TaskQuiet, Gone, Underway, Stopping, taskVars
<1>4. QED
  BY <1>2, <1>3 DEF TaskInv

LEMMA TaskShut ==
  ASSUME TaskInv, LifeTypeOK', NEW e \in Ends, ShutStep(e), UNCHANGED taskVars
  PROVE  TaskInv'
<1>1. /\ UNCHANGED <<is_running, pc>>
      /\ ctl.end = e /\ ctl'.end = e
      /\ ctl.step \in {"lock", "held", "signal"}
      /\ ctl'.step \in {"held", "signal", "waitEnd"}
  BY DEF ShutStep, ShutdownLock, ShutdownHeld, ShutdownSignal, TaskInv, LifeTypeOK
<1>2. TaskTypeOK'
  BY <1>1 DEF TaskInv, TaskTypeOK, taskVars
<1>3. TaskQuiet'
  BY <1>1 DEF TaskInv, TaskQuiet, Gone, Underway, Stopping, taskVars
<1>4. QED
  BY <1>2, <1>3 DEF TaskInv

LEMMA TaskLife ==
  ASSUME TaskInv, LifeTypeOK', NEW e \in Ends, LifeStep(e)
  PROVE  TaskInv'
<1> USE DEF TaskInv, TaskQuiet, Gone, Underway, Stopping, At
<1>1. CASE TaskBegin(e)
  <2>1. TaskTypeOK'
    BY <1>1, FlagSet DEF TaskBegin, TaskTypeOK
  <2>2. TaskQuiet'
    BY <1>1 DEF TaskBegin, Goto, TaskTypeOK, LifeTypeOK
  <2>3. QED
    BY <2>1, <2>2
<1>2. CASE TaskEnd(e)
  <2>1. TaskTypeOK'
    BY <1>2, FlagSet DEF TaskEnd, TaskTypeOK
  <2>2. TaskQuiet'
    BY <1>2 DEF TaskEnd, Goto, TaskTypeOK, LifeTypeOK
  <2>3. QED
    BY <2>1, <2>2
<1>3. CASE StartRunning(e)
  BY <1>3 DEF StartRunning, NextProcedure, connVars, taskVars, TaskTypeOK, Ends
<1>4. CASE StartQueue(e)
  <2>1. TaskTypeOK'
    BY <1>4, FlagSet DEF StartQueue, TaskTypeOK, connVars
  <2>2. TaskQuiet'
    BY <1>4 DEF StartQueue, connVars, TaskTypeOK, LifeTypeOK
  <2>3. QED
    BY <2>1, <2>2
<1>5. CASE StartRun(e)
  <2>1. TaskTypeOK'
    BY <1>5, FlagSet DEF StartRun, TaskTypeOK, taskVars
  <2>2. TaskQuiet'
    BY <1>5 DEF StartRun, taskVars, TaskTypeOK, LifeTypeOK
  <2>3. QED
    BY <2>1, <2>2
<1>6. CASE StartWait(e)
  <2>1. TaskTypeOK'
    BY <1>6 DEF StartWait, connVars, TaskTypeOK
  <2>2. TaskQuiet'
    BY <1>6 DEF StartWait, NextProcedure, connVars, TaskTypeOK, LifeTypeOK, Ends
  <2>3. QED
    BY <2>1, <2>2
<1>7. CASE StopTest(e)
  <2>1. TaskTypeOK'
    BY <1>7, FlagSet DEF StopTest, taskVars, TaskTypeOK
  <2>2. TaskQuiet'
    BY <1>7 DEF StopTest, Reset, taskVars, TaskTypeOK, LifeTypeOK, Ends
  <2>3. QED
    BY <2>1, <2>2
<1>8. CASE StopWait(e)
  <2>1. TaskTypeOK'
    BY <1>8, FlagSet DEF StopWait, connVars, TaskTypeOK
  <2>2. TaskQuiet'
    BY <1>8 DEF StopWait, Reset, connVars, TaskTypeOK, LifeTypeOK, Ends
  <2>3. QED
    BY <2>1, <2>2
<1>9. CASE ResetLock(e)
  BY <1>9 DEF ResetLock, Reset, taskVars, TaskTypeOK, LifeTypeOK, Ends
<1>10. QED
  BY <1>1, <1>2, <1>3, <1>4, <1>5, <1>6, <1>7, <1>8, <1>9 DEF LifeStep

LEMMA TaskNext == LifeLockInv /\ TaskInv /\ [LifecycleNext]_lifeVars => TaskInv'
<1> SUFFICES ASSUME LifeLockInv, TaskInv, [LifecycleNext]_lifeVars PROVE TaskInv'
  OBVIOUS
<1>1. LifeTypeOK'
  BY LifeLockNext DEF LifeLockInv
<1> USE <1>1 DEF TaskInv, TaskTypeOK, TaskQuiet, Gone, Underway, Stopping, Ends
<1>2. CASE (Fill \/ InputDataHandler) /\ UNCHANGED taskVars
  BY <1>2 DEF Fill, InputDataHandler, Goto, LifeTypeOK, taskVars
<1>3. CASE OutputResetHeld \/ InputResetHeld
  BY <1>3 DEF OutputResetHeld, InputResetHeld, NextProcedure, At, taskVars
<1>4. CASE PipelineStart \/ PipelineStop
  BY <1>4 DEF PipelineStart, PipelineStop, connVars, taskVars
<1>5. CASE UNCHANGED lifeVars
  BY <1>5 DEF lifeVars, vars, taskVars
<1>6. QED
  BY <1>2, <1>3, <1>4, <1>5, TaskWork, TaskShut, TaskLife, LifecycleSteps1

LEMMA TaskAlways == LifecycleSpec => [](LifeLockInv /\ TaskInv)
BY LifeLockInit, LifeLockNext, TaskInit, TaskNext, PTL DEF LifecycleSpec

(***************************************************************************)
(* pipeline_procedure_stop resets a procedure's lists only when its worker *)
(* has left the task, however start and stop were called before.           *)
(***************************************************************************)
THEOREM ResetMeetsNobody == LifecycleSpec => []ResetWhenParked
<1>1. TaskInv => ResetWhenParked
  BY DEF TaskInv, TaskQuiet, Gone, Underway, Stopping, ResetWhenParked, CallerHolds,
         At, Reset, Ends
<1>2. QED
  BY TaskAlways, <1>1, PTL

(***************************************************************************)
(* When pipeline_stop has returned, a procedure that does not run has no   *)
(* worker in its task and no task in its queue.                            *)
(***************************************************************************)
THEOREM StopLeavesNothing == LifecycleSpec => []StoppedIsQuiet
<1>1. TaskInv => StoppedIsQuiet
  BY DEF TaskInv, TaskQuiet, Gone, Underway, StoppedIsQuiet
<1>2. QED
  BY TaskAlways, <1>1, PTL
=============================================================================
