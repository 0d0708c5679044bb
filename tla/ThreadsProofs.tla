---------------------------- MODULE ThreadsProofs ----------------------------
(***************************************************************************)
(* Proofs about what threads wait for and share: the event of SyncEvent,   *)
(* for any set of threads, and, as the parts of MCThreads, the event group,*)
(* the inputs of a procedure, the pool of processor threads and the memory *)
(* pool, for any threads, elements, order of the inputs, sizes and blocks. *)
(***************************************************************************)
EXTENDS MCThreads, FiniteSetTheorems, TLAPS

-----------------------------------------------------------------------------
(* The event: mutual exclusion, the absence of lost wakeups, and that the   *)
(* mutex, flag and condition variable implement an auto-reset event.        *)
LEMMA InitTypeOK == Init => TypeOK
  BY EventAssumption DEF Init, TypeOK, InMutex

(* Every step keeps the mutex with the thread inside its section.          *)
LEMMA StepTypeOK == TypeOK /\ [Next]_vars => TypeOK'
<1>1. SUFFICES ASSUME TypeOK, [Next]_vars PROVE TypeOK'
  OBVIOUS
<1> USE <1>1, EventAssumption
    DEF TypeOK, InMutex, WaitLabels, SetLabels, ResetLabels, Goto
<1>2. ASSUME NEW t \in Threads, Step(t) PROVE TypeOK'
  <2>1. CASE Call(t)
    BY <2>1 DEF Call
  <2>2. CASE Lock(t)
    BY <2>2 DEF Lock, Acquire
  <2>3. CASE WaitTakes(t)
    BY <2>3 DEF WaitTakes
  <2>4. CASE WaitSleeps(t)
    BY <2>4 DEF WaitSleeps
  <2>5. CASE SetFlag(t)
    BY <2>5 DEF SetFlag
  <2>6. CASE SetSignals(t)
    BY <2>6 DEF SetSignals, Asleep
  <2>7. CASE ResetFlag(t)
    BY <2>7 DEF ResetFlag
  <2>8. CASE WakesUnasked(t)
    BY <2>8 DEF WakesUnasked
  <2>. QED
    BY <1>2, <2>1, <2>2, <2>3, <2>4, <2>5, <2>6, <2>7, <2>8 DEF Step, Works
<1>3. CASE UNCHANGED vars
  BY <1>3 DEF vars
<1>. QED
  BY <1>2, <1>3 DEF Next

(* The type invariant, with mutual exclusion in the functions of one event *)
(* whatever the number of threads.                                         *)
THEOREM TypeCorrect == Spec => []TypeOK
<1>. QED
  BY InitTypeOK, StepTypeOK, PTL DEF Spec

-----------------------------------------------------------------------------
(* A step that sets no flag and puts no thread to sleep keeps the witness  *)
(* of NoLostWakeup awake; the two that do bring one of their own.          *)
LEMMA StepNoLostWakeup == TypeOK /\ NoLostWakeup /\ [Next]_vars => NoLostWakeup'
<1>1. SUFFICES ASSUME TypeOK, NoLostWakeup, [Next]_vars PROVE NoLostWakeup'
  OBVIOUS
<1> USE <1>1 DEF NoLostWakeup, Asleep, TypeOK, Goto
<1>2. ASSUME NEW t \in Threads, Step(t) PROVE NoLostWakeup'
  <2>1. CASE Call(t)
    BY <2>1 DEF Call
  <2>2. CASE Lock(t)
    BY <2>2 DEF Lock, Acquire
  <2>3. CASE WaitTakes(t)
    BY <2>3 DEF WaitTakes
  <2>4. CASE WaitSleeps(t)
    BY <2>4 DEF WaitSleeps
  <2>5. CASE SetFlag(t)
    BY <2>5 DEF SetFlag
  <2>6. CASE SetSignals(t)
    BY <2>6 DEF SetSignals
  <2>7. CASE ResetFlag(t)
    BY <2>7 DEF ResetFlag
  <2>8. CASE WakesUnasked(t)
    BY <2>8 DEF WakesUnasked
  <2>. QED
    BY <1>2, <2>1, <2>2, <2>3, <2>4, <2>5, <2>6, <2>7, <2>8 DEF Step, Works
<1>3. CASE UNCHANGED vars
  BY <1>3 DEF vars
<1>. QED
  BY <1>2, <1>3 DEF Next

(* No wakeup is lost, for any number of sleeping and setting threads.      *)
THEOREM Wakeup == Spec => []NoLostWakeup
<1>1. Init => NoLostWakeup
  BY DEF Init, NoLostWakeup
<1>. QED
  BY <1>1, StepNoLostWakeup, TypeCorrect, PTL DEF Spec

-----------------------------------------------------------------------------
(* synchronize.c implements the event of synchronize.h: entering the wait  *)
(* is Arrive, the test that succeeds is Release, the assignments to the    *)
(* flag are Set and Reset, and every other step is a stutter.              *)
THEOREM Implementation == Spec => ImplementsEvent
<1> DEFINE waiting == {t \in Threads : pc[t] \in WaitLabels}
<1>1. Init => Abstract!Init
  BY DEF Init, Abstract!Init, WaitLabels
<1>2. TypeOK /\ [Next]_vars => [Abstract!Next]_<<flag, waiting>>
  <2>1. SUFFICES ASSUME TypeOK, [Next]_vars
                 PROVE  Abstract!Next \/ (flag' = flag /\ waiting' = waiting)
    OBVIOUS
  <2> USE <2>1 DEF TypeOK, WaitLabels, Goto
  <2>2. ASSUME NEW t \in Threads, Step(t)
        PROVE Abstract!Next \/ (flag' = flag /\ waiting' = waiting)
    <3>1. CASE Call(t)
      <4>1. CASE pc'[t] = "waitLock"
        <5>1. t \notin waiting /\ waiting' = waiting \cup {t} /\ flag' = flag
          BY <3>1, <4>1 DEF Call
        <5>. QED
          BY <5>1 DEF Abstract!Next, Abstract!Arrive
      <4>2. CASE pc'[t] # "waitLock"
        BY <3>1, <4>2 DEF Call
      <4>. QED
        BY <4>1, <4>2
    <3>2. CASE Lock(t)
      BY <3>2 DEF Lock, Acquire
    <3>3. CASE WaitTakes(t)
      <4>1. t \in waiting /\ waiting' = waiting \ {t} /\ flag /\ flag' = FALSE
        BY <3>3 DEF WaitTakes
      <4>. QED
        BY <4>1 DEF Abstract!Next, Abstract!Release
    <3>4. CASE WaitSleeps(t)
      BY <3>4 DEF WaitSleeps
    <3>5. CASE SetFlag(t)
      <4>1. flag' = TRUE /\ waiting' = waiting
        BY <3>5 DEF SetFlag
      <4>. QED
        BY <4>1 DEF Abstract!Next, Abstract!Set
    <3>6. CASE SetSignals(t)
      BY <3>6 DEF SetSignals, Asleep
    <3>7. CASE ResetFlag(t)
      <4>1. flag' = FALSE /\ waiting' = waiting
        BY <3>7 DEF ResetFlag
      <4>. QED
        BY <4>1 DEF Abstract!Next, Abstract!Reset
    <3>8. CASE WakesUnasked(t)
      BY <3>8 DEF WakesUnasked
    <3>. QED
      BY <2>2, <3>1, <3>2, <3>3, <3>4, <3>5, <3>6, <3>7, <3>8 DEF Step, Works
  <2>3. CASE UNCHANGED vars
    BY <2>3 DEF vars
  <2>. QED
    BY <2>2, <2>3 DEF Next
<1>. QED
  BY <1>1, <1>2, TypeCorrect, PTL DEF Spec, ImplementsEvent, Abstract!Spec

-----------------------------------------------------------------------------
(* The event group.  What holds of a thread that is at p in call c, at the *)
(* element i: one that waits for an element by name keeps it in the group, *)
(* and a sleeper has nothing to wake up for.                               *)
Standing(g, p, c, i) ==
  /\ i # "NULL" => i \in Group!Present(g)
  /\ p = "out" => i = "NULL"
  /\ p # "out" /\ c = "one" => i # "NULL"
  /\ p = "asleep" => IF c = "any"
                     THEN Group!Present(g) # {} /\ Group!SetElements(g) = {}
                     ELSE i # "NULL" /\ ~g.flag[i]

GroupTyped == /\ g_group \in Group!GroupType /\ Group!IsInjective(g_group.elements)
              /\ g_pc \in [Threads -> {"out", "testing", "asleep"}]
              /\ g_call \in [Threads -> Group!Calls]
              /\ g_iter \in [Threads -> Element \cup {"NULL"}]

GroupInv == /\ GroupTyped
            /\ \A t \in Threads : Standing(g_group, g_pc[t], g_call[t], g_iter[t])

LEMMA GroupFacts ==
  ASSUME NEW g \in Group!GroupType
  PROVE  /\ g.elements \in Seq(Element) /\ g.flag \in [Element -> BOOLEAN]
         /\ Group!Present(g) \subseteq Element
         /\ \A x : /\ Group!GroupReset(g, x) \in Group!GroupType
                   /\ Group!GroupReset(g, x).elements = g.elements
                   /\ Group!Present(Group!GroupReset(g, x)) = Group!Present(g)
                   /\ \A e \in Element : Group!GroupReset(g, x).flag[e] => g.flag[e]
                   /\ Group!SetElements(Group!GroupReset(g, x)) \subseteq Group!SetElements(g)
<1>1. g.elements \in Seq(Element) /\ g.flag \in [Element -> BOOLEAN]
  BY DEF Group!GroupType
<1>2. Group!Present(g) \subseteq Element
  BY <1>1 DEF Group!Present, Group!ToSet
<1>3. ASSUME NEW x
      PROVE  /\ Group!GroupReset(g, x) \in Group!GroupType
             /\ Group!GroupReset(g, x).elements = g.elements
             /\ \A e \in Element : Group!GroupReset(g, x).flag[e] => g.flag[e]
  <2>1. Group!GroupReset(g, x).flag = [g.flag EXCEPT ![x] = FALSE]
    BY DEF Group!GroupReset, Group!GroupType
  <2>2. \A e \in Element : [g.flag EXCEPT ![x] = FALSE][e] => g.flag[e]
    BY <1>1
  <2>. QED
    BY <2>1, <2>2, Group!FlagChanged
<1>. QED
  BY <1>1, <1>2, <1>3 DEF Group!Present, Group!SetElements


LEMMA StandingReset ==
  ASSUME NEW g \in Group!GroupType, NEW x, NEW p, NEW c, NEW i, Standing(g, p, c, i)
  PROVE  Standing(Group!GroupReset(g, x), p, c, i)
BY GroupFacts DEF Standing

(* Elements only come, or nobody who sleeps is there.                      *)
LEMMA StandingAdd ==
  ASSUME NEW g \in Group!GroupType, NEW e \in Element \ Group!Present(g),
         NEW p, NEW c, NEW i, Standing(g, p, c, i)
  PROVE  Standing(Group!GroupAdd(g, e), p, c, i)
<1> DEFINE h == Group!GroupAdd(g, e)
<1>1. Group!Present(h) = Group!Present(g) \cup {e}
  BY Group!ElementAdded
<1>2. g.flag \in [Element -> BOOLEAN] /\ Group!Present(g) \subseteq Element
  BY GroupFacts
<1>3. /\ \A x \in Element \ {e} : h.flag[x] = g.flag[x]
      /\ ~h.flag[e]
  BY <1>2 DEF Group!GroupAdd
<1> HIDE DEF h
<1>4. Group!SetElements(h) = Group!SetElements(g)
  BY <1>1, <1>2, <1>3 DEF Group!SetElements
<1>. QED
  BY <1>1, <1>2, <1>3, <1>4 DEF Standing, h

LEMMA StandingAwake ==
  ASSUME NEW g, NEW h, NEW p, NEW c, NEW i, Standing(g, p, c, i), p # "asleep",
         i # "NULL" => i \in Group!Present(h)
  PROVE  Standing(h, p, c, i)
BY DEF Standing

LEMMA InitGroup == Group!Init => GroupInv
<1>. SUFFICES ASSUME Group!Init PROVE GroupInv
  OBVIOUS
<1>1. GroupTyped
  <2>1. /\ g_group = Group!EmptyGroup /\ g_pc = [t \in Threads |-> "out"]
        /\ g_call = [t \in Threads |-> "any"] /\ g_iter = [t \in Threads |-> "NULL"]
    BY DEF Group!Init, Group!NoElement
  <2>2. Group!EmptyGroup \in Group!GroupType /\ Group!EmptyGroup.elements = <<>>
    BY DEF Group!GroupType, Group!EmptyGroup
  <2>3. Group!IsInjective(<<>>)
    BY DEF Group!IsInjective
  <2>. QED
    BY <2>1, <2>2, <2>3 DEF GroupTyped, Group!Calls
<1>. QED
  BY <1>1 DEF Group!Init, Group!NoElement, GroupInv, Standing

(* What the owner does: a step that wakes everybody may do anything to the *)
(* flags, the others may clear them.                                       *)
LEMMA OwnerKeepsGroup == ASSUME GroupInv, Group!Owner PROVE GroupInv'
<1> USE DEF GroupInv, GroupTyped
<1>1. CASE Group!AddElement
  <2>1. PICK e \in Element \ Group!Present(g_group) :
          g_group' = Group!GroupAdd(g_group, e) /\ UNCHANGED <<g_pc, g_call, g_iter>>
    BY <1>1 DEF Group!AddElement
  <2>2. g_group' \in Group!GroupType /\ Group!IsInjective(g_group'.elements)
    BY <2>1, Group!ElementAdded
  <2>3. \A t \in Threads : Standing(g_group', g_pc'[t], g_call'[t], g_iter'[t])
    BY <2>1, StandingAdd
  <2>. QED
    BY <2>1, <2>2, <2>3
<1>2. ASSUME NEW x, g_group' = Group!GroupReset(g_group, x), UNCHANGED <<g_pc, g_call, g_iter>>
      PROVE  GroupInv'
  <2>1. g_group' \in Group!GroupType /\ Group!IsInjective(g_group'.elements)
    BY <1>2, GroupFacts
  <2>2. \A t \in Threads : Standing(g_group', g_pc'[t], g_call'[t], g_iter'[t])
    BY <1>2, StandingReset
  <2>. QED
    BY <1>2, <2>1, <2>2
<1>3. ASSUME NEW h, g_group' = h, Group!WakeAll, UNCHANGED <<g_call, g_iter>>,
             h \in Group!GroupType, Group!IsInjective(h.elements),
             \A t \in Threads : g_iter[t] # "NULL" => g_iter[t] \in Group!Present(h)
      PROVE  GroupInv'
  <2>1. /\ g_pc' \in [Threads -> {"out", "testing", "asleep"}]
        /\ \A t \in Threads : /\ g_pc'[t] # "asleep"
                              /\ g_pc'[t] = g_pc[t] \/ (g_pc[t] = "asleep" /\ g_pc'[t] = "testing")
    BY <1>3 DEF Group!WakeAll
  <2>2. ASSUME NEW t \in Threads PROVE Standing(h, g_pc'[t], g_call[t], g_iter[t])
    BY <1>3, <2>1 DEF Standing
  <2>. QED
    BY <1>3, <2>1, <2>2
<1>4. ASSUME NEW e \in Element, Group!RemoveElement(e) PROVE GroupInv'
  <2>1. /\ e \in Group!Present(g_group) /\ \A t \in Threads : g_pc[t] # "out" => g_iter[t] # e
        /\ g_group' = Group!GroupRemove(g_group, e) /\ Group!WakeAll
        /\ UNCHANGED <<g_call, g_iter>>
    BY <1>4 DEF Group!RemoveElement
  <2>2. /\ g_group' \in Group!GroupType /\ Group!IsInjective(g_group'.elements)
        /\ Group!Present(g_group') = Group!Present(g_group) \ {e}
    BY <2>1, Group!ElementRemoved
  <2>3. \A t \in Threads : g_iter[t] # "NULL" => g_iter[t] \in Group!Present(g_group')
    BY <2>1, <2>2 DEF Standing
  <2>. QED
    BY <1>3, <2>1, <2>2, <2>3
<1>5. ASSUME NEW e \in Element, Group!SetElement(e) PROVE GroupInv'
  <2>1. /\ g_group' = Group!GroupSet(g_group, e) /\ Group!WakeAll /\ UNCHANGED <<g_call, g_iter>>
    BY <1>5 DEF Group!SetElement
  <2>2. /\ g_group' \in Group!GroupType /\ g_group'.elements = g_group.elements
    BY <2>1, Group!FlagChanged
  <2>3. \A t \in Threads : g_iter[t] # "NULL" => g_iter[t] \in Group!Present(g_group')
    BY <2>2 DEF Standing, Group!Present
  <2>. QED
    BY <1>3, <2>1, <2>2, <2>3
<1>6. CASE Group!TryWaitForAny
  BY <1>2, <1>6 DEF Group!TryWaitForAny
<1>7. ASSUME NEW e \in Element, Group!ResetElement(e) \/ Group!TryWaitForElement(e) PROVE GroupInv'
  BY <1>2, <1>7 DEF Group!ResetElement, Group!TryWaitForElement
<1>. QED
  BY <1>1, <1>4, <1>5, <1>6, <1>7 DEF Group!Owner

(* What a waiting thread does: it changes its own place, and may clear     *)
(* flags that others sleep for.                                            *)
LEMMA OneMoves ==
  ASSUME GroupInv, NEW t \in Threads, NEW p \in {"out", "testing", "asleep"},
         NEW c \in Group!Calls, NEW i \in Element \cup {"NULL"},
         g_pc' = [g_pc EXCEPT ![t] = p], g_call' = [g_call EXCEPT ![t] = c],
         g_iter' = [g_iter EXCEPT ![t] = i],
         g_group' \in Group!GroupType, g_group'.elements = g_group.elements,
         \A e \in Element : g_group'.flag[e] => g_group.flag[e],
         Standing(g_group', p, c, i)
  PROVE  GroupInv'
<1> USE DEF GroupInv, GroupTyped
<1>1. Group!Present(g_group') = Group!Present(g_group)
  BY DEF Group!Present
<1>2. Group!SetElements(g_group') \subseteq Group!SetElements(g_group)
  BY <1>1, GroupFacts DEF Group!SetElements
<1>3. ASSUME NEW u \in Threads \ {t} PROVE Standing(g_group', g_pc'[u], g_call'[u], g_iter'[u])
  <2>1. g_pc'[u] = g_pc[u] /\ g_call'[u] = g_call[u] /\ g_iter'[u] = g_iter[u]
    OBVIOUS
  <2>2. Standing(g_group, g_pc[u], g_call[u], g_iter[u])
    OBVIOUS
  <2>3. g_iter[u] # "NULL" => g_iter[u] \in Element
    OBVIOUS
  <2>. QED
    BY <1>1, <1>2, <2>1, <2>2, <2>3 DEF Standing
<1>. QED
  BY <1>3

LEMMA WaitingKeepsGroup ==
  ASSUME GroupInv, NEW t \in Threads,
         Group!CallWait(t) \/ Group!Waiting(t) \/ Group!WakesUnasked(t)
  PROVE  GroupInv'
<1>1. /\ GroupTyped /\ Standing(g_group, g_pc[t], g_call[t], g_iter[t])
      /\ g_call = [g_call EXCEPT ![t] = g_call[t]] /\ g_iter = [g_iter EXCEPT ![t] = g_iter[t]]
      /\ g_call[t] \in Group!Calls /\ g_iter[t] \in Element \cup {"NULL"}
      /\ g_group \in Group!GroupType
  BY DEF GroupInv, GroupTyped
<1>2. ASSUME NEW x, g_group' = Group!GroupReset(g_group, x), Group!Return(t) PROVE GroupInv'
  <2>1. Standing(g_group', "out", g_call[t], "NULL")
    BY DEF Standing
  <2>. QED
    BY <1>1, <1>2, <2>1, GroupFacts, OneMoves DEF Group!Return, Group!Goto, Group!NoElement
<1>3. ASSUME NEW i \in Element \cup {"NULL"}, g_iter' = [g_iter EXCEPT ![t] = i],
             Group!Sleep(t), Standing(g_group, "asleep", g_call[t], i)
      PROVE  GroupInv'
  BY <1>1, <1>3, OneMoves DEF Group!Sleep, Group!Goto
<1>4. CASE Group!CallWait(t)
  <2>1. PICK c \in Group!Calls, i \in Element \cup {"NULL"} :
          /\ g_call' = [g_call EXCEPT ![t] = c] /\ g_iter' = [g_iter EXCEPT ![t] = i]
          /\ i # "NULL" => i \in Group!Present(g_group)
          /\ c = "one" => i # "NULL"
    <3>1. Group!Present(g_group) \subseteq Element
      BY <1>1, GroupFacts
    <3>. QED
      BY <1>4, <3>1, PartsAssumption DEF Group!CallWait, Group!Calls, Group!NoElement
  <2>2. Standing(g_group, "testing", c, i)
    BY <2>1 DEF Standing
  <2>3. g_pc' = [g_pc EXCEPT ![t] = "testing"] /\ g_group' = g_group
    BY <1>4 DEF Group!CallWait, Group!Goto
  <2>. QED
    BY <1>1, <2>1, <2>2, <2>3, OneMoves
<1>5. CASE Group!WakesUnasked(t)
  <2>1. /\ g_pc[t] = "asleep" /\ g_pc' = [g_pc EXCEPT ![t] = "testing"]
        /\ UNCHANGED <<g_group, g_call, g_iter>>
    BY <1>5 DEF Group!WakesUnasked, Group!Goto
  <2>2. Standing(g_group, "testing", g_call[t], g_iter[t])
    BY <1>1, <2>1 DEF Standing
  <2>. QED
    BY <1>1, <2>1, <2>2, OneMoves
<1>6. CASE Group!AnyTakes(t) \/ Group!ElementTakes(t)
  BY <1>2, <1>6 DEF Group!AnyTakes, Group!ElementTakes
<1>7. CASE Group!AnyFindsNoElement(t)
  <2>1. Group!Return(t) /\ g_group' = g_group
    BY <1>7 DEF Group!AnyFindsNoElement
  <2>2. Standing(g_group, "out", g_call[t], "NULL")
    BY DEF Standing
  <2>. QED
    BY <1>1, <2>1, <2>2, OneMoves DEF Group!Return, Group!Goto, Group!NoElement
<1>8. CASE Group!AnySleeps(t)
  <2>1. Group!Sleep(t) /\ g_iter' = [g_iter EXCEPT ![t] = g_iter[t]]
    BY <1>1, <1>8 DEF Group!AnySleeps
  <2>2. Standing(g_group, "asleep", g_call[t], g_iter[t])
    BY <1>1, <1>8 DEF Group!AnySleeps, Group!Testing, Standing
  <2>. QED
    BY <1>1, <1>3, <2>1, <2>2
<1>9. CASE Group!ElementSleeps(t)
  <2>1. Group!Sleep(t) /\ g_iter' = [g_iter EXCEPT ![t] = g_iter[t]]
    BY <1>1, <1>9 DEF Group!ElementSleeps
  <2>2. Standing(g_group, "asleep", g_call[t], g_iter[t])
    BY <1>1, <1>9 DEF Group!ElementSleeps, Group!Testing, Standing
  <2>. QED
    BY <1>1, <1>3, <2>1, <2>2
<1>10. CASE Group!AllSleeps(t)
  <2>1. PICK n \in Group!UnsetFrom(g_group, Group!Position(t)) :
          g_iter' = [g_iter EXCEPT ![t] = g_group.elements[n]]
    BY <1>10 DEF Group!AllSleeps
  <2>2. Group!Position(t) \in Nat \ {0}
    <3>1. CASE g_iter[t] = "NULL"
      BY <3>1 DEF Group!Position, Group!NoElement
    <3>2. CASE g_iter[t] # "NULL"
      <4>1. \E i \in DOMAIN g_group.elements : g_group.elements[i] = g_iter[t]
        BY <1>1, <3>2 DEF Standing, Group!Present, Group!ToSet
      <4>2. Group!Position(t) \in DOMAIN g_group.elements
        BY <3>2, <4>1 DEF Group!Position, Group!NoElement
      <4>. QED
        BY <1>1, <4>2, GroupFacts
    <3>. QED
      BY <3>1, <3>2
  <2>3. n \in DOMAIN g_group.elements /\ ~g_group.flag[g_group.elements[n]]
    BY <1>1, <2>1, <2>2, GroupFacts DEF Group!UnsetFrom
  <2>4. g_group.elements[n] \in Group!Present(g_group) /\ g_group.elements[n] \in Element
    BY <1>1, <2>3, GroupFacts DEF Group!Present, Group!ToSet
  <2>5. Standing(g_group, "asleep", g_call[t], g_group.elements[n])
    BY <1>1, <1>10, <2>3, <2>4, PartsAssumption DEF Group!AllSleeps, Group!Testing, Standing
  <2>. QED
    BY <1>3, <1>10, <2>1, <2>4, <2>5 DEF Group!AllSleeps
<1>11. CASE Group!AllReturns(t)
  <2>1. g_group' = Group!GroupResetAll(g_group) /\ Group!Return(t)
    BY <1>11 DEF Group!AllReturns
  <2>2. /\ g_group' \in Group!GroupType /\ g_group'.elements = g_group.elements
        /\ \A e \in Element : g_group'.flag[e] => g_group.flag[e]
    BY <1>1, <2>1 DEF Group!GroupResetAll, Group!GroupType
  <2>3. Standing(g_group', "out", g_call[t], "NULL")
    BY DEF Standing
  <2>. QED
    BY <1>1, <2>1, <2>2, <2>3, OneMoves DEF Group!Return, Group!Goto, Group!NoElement
<1>. QED
  BY <1>4, <1>5, <1>6, <1>7, <1>8, <1>9, <1>10, <1>11 DEF Group!Waiting

LEMMA NextGroup == GroupInv /\ [Group!Next]_grouped => GroupInv'
<1>1. GroupInv /\ UNCHANGED grouped => GroupInv'
  BY DEF GroupInv, GroupTyped, grouped
<1>. QED
  BY <1>1, OwnerKeepsGroup, WaitingKeepsGroup DEF Group!Next

LEMMA GroupSleepers == GroupInv => Group!NoLostWakeup
BY DEF GroupInv, Standing, Group!NoLostWakeup

-----------------------------------------------------------------------------
(* The inputs of a procedure.  The worker may stop looking at an input     *)
(* when it has been told, or will be, of everything that is there.         *)
Told(k) == \/ incoming[Order[k]] = <<>> \/ i_group.flag[Order[k]] \/ Order[k] \in signals
           \/ i_ctl = [step |-> "signal", at |-> k]

InputPlaces == {"update", "tryEvent", "scan", "wait", "waitOne", "use", "moveon", "exited"}
StopSteps   == {"idle", "push", "signal", "wait", "stopped"}

InputsTyped == /\ incoming \in [Element -> Seq({"custom", "shutdown"})]
               /\ signals \subseteq Element
               /\ i_group \in Inputs!GroupType /\ Inputs!Present(i_group) = Element
               /\ i_pc \in InputPlaces /\ i_call \in Inputs!Calls /\ at \in 1..Len(Order)
               /\ i_ctl \in [step : StopSteps, at : 1..Len(Order)]

Looked == /\ i_pc = "tryEvent" => i_call = "tryAny"
          /\ i_pc = "waitOne" => i_call = "one" /\ Told(at)
          /\ i_pc = "scan" /\ i_call = "any" => \A k \in 1..(at - 1) : Told(k)
          /\ i_pc = "wait" => \A k \in 1..Len(Order) : Told(k)

InUseInv == i_pc \in {"use", "moveon"} =>
              incoming[Order[at]] # <<>> /\ Head(incoming[Order[at]]) = "custom"

InputsInv == InputsTyped /\ Looked /\ InUseInv

LEMMA Inputs1 ==
  /\ Len(Order) \in Nat \ {0}
  /\ \A k \in 1..Len(Order) : Order[k] \in Element
  /\ \A k, l \in 1..Len(Order) : Order[k] = Order[l] => k = l
  /\ \A i \in Element : \E k \in 1..Len(Order) : Order[k] = i
<1>1. DOMAIN Order = 1..Len(Order) /\ Len(Order) \in Nat
  BY PartsAssumption
<1>. QED
  BY <1>1, PartsAssumption

LEMMA Flags ==
  ASSUME NEW g \in Inputs!GroupType, NEW i
  PROVE  /\ Inputs!GroupSet(g, i) \in Inputs!GroupType
         /\ Inputs!GroupReset(g, i) \in Inputs!GroupType
         /\ Inputs!Present(Inputs!GroupSet(g, i)) = Inputs!Present(g)
         /\ Inputs!Present(Inputs!GroupReset(g, i)) = Inputs!Present(g)
         /\ \A e \in Element : Inputs!GroupSet(g, i).flag[e] = (g.flag[e] \/ e = i)
<1>1. g.flag \in [Element -> BOOLEAN] /\ Inputs!GroupSet(g, i).flag = [g.flag EXCEPT ![i] = TRUE]
  BY DEF Inputs!GroupType, Inputs!GroupSet
<1>2. \A e \in Element : Inputs!GroupSet(g, i).flag[e] = (g.flag[e] \/ e = i)
  BY <1>1
<1>. QED
  BY <1>2, Inputs!FlagChanged DEF Inputs!Present

LEMMA InitInputs == Inputs!Init => InputsInv
<1>. SUFFICES ASSUME Inputs!Init PROVE InputsInv
  OBVIOUS
<1>1. PICK s \in [DOMAIN Order -> Element] :
        /\ \A i \in Element : \E k \in DOMAIN Order : s[k] = i
        /\ i_group = [Inputs!EmptyGroup EXCEPT !.elements = s]
  BY DEF Inputs!Init
<1>2. s \in Seq(Element) /\ DOMAIN s = DOMAIN Order
  BY <1>1, PartsAssumption
<1>3. Inputs!ToSet(s) = Element
  BY <1>1, <1>2 DEF Inputs!ToSet
<1>4. i_group \in Inputs!GroupType /\ i_group.elements = s
  BY <1>1, <1>2 DEF Inputs!GroupType, Inputs!EmptyGroup
<1>5. InputsTyped
  <2>1. /\ incoming = [i \in Element |-> <<>>] /\ signals = {}
        /\ i_pc = "update" /\ i_call = "any" /\ at = 1 /\ i_ctl = [step |-> "idle", at |-> 1]
    BY DEF Inputs!Init
  <2>2. Inputs!Present(i_group) = Element
    BY <1>3, <1>4 DEF Inputs!Present
  <2>. QED
    BY <1>4, <2>1, <2>2, Inputs1 DEF InputsTyped, InputPlaces, StopSteps, Inputs!Calls
<1>. QED
  BY <1>5 DEF Inputs!Init, InputsInv, Looked, InUseInv

(* The others take nothing away that the worker has been told of.          *)
LEMMA OthersTell ==
  ASSUME InputsInv, UNCHANGED <<i_pc, i_call, at>>, InputsTyped',
         \A k \in 1..Len(Order) : Told(k) => Told(k)',
         \A i \in Element : incoming[i] # <<>> =>
           incoming'[i] # <<>> /\ Head(incoming'[i]) = Head(incoming[i])
  PROVE  InputsInv'
<1>1. at \in 1..Len(Order) /\ Order[at] \in Element
  BY Inputs1 DEF InputsInv, InputsTyped
<1>2. Looked'
  <2>1. Looked /\ \A k \in 1..(at - 1) : k \in 1..Len(Order)
    BY <1>1, Inputs1 DEF InputsInv
  <2>2. /\ i_pc = "scan" /\ i_call = "any" => \A k \in 1..(at - 1) : Told(k)'
        /\ i_pc = "wait" => \A k \in 1..Len(Order) : Told(k)'
        /\ i_pc = "waitOne" => i_call = "one" /\ Told(at)'
        /\ i_pc = "tryEvent" => i_call = "tryAny"
    BY <1>1, <2>1 DEF Looked
  <2>. QED
    BY <2>2 DEF Looked, Told
<1>3. InUseInv'
  BY <1>1 DEF InUseInv, InputsInv
<1>. QED
  BY <1>2, <1>3 DEF InputsInv

LEMMA Pushed ==
  ASSUME InputsTyped, NEW i \in Element, NEW type \in {"custom", "shutdown"},
         Inputs!Push(i, type)
  PROVE  /\ incoming' \in [Element -> Seq({"custom", "shutdown"})]
         /\ \A j \in Element \ {i} : incoming'[j] = incoming[j]
         /\ \A j \in Element : incoming[j] # <<>> =>
              incoming'[j] # <<>> /\ Head(incoming'[j]) = Head(incoming[j])
<1> DEFINE T == {"custom", "shutdown"}
<1>1. incoming \in [Element -> Seq(T)] /\ incoming' = [incoming EXCEPT ![i] = Append(@, type)]
  BY DEF InputsTyped, Inputs!Push
<1> HIDE DEF T
<1>2. type \in T /\ incoming[i] \in Seq(T)
  BY <1>1 DEF T
<1>3. /\ Append(incoming[i], type) \in Seq(T)
      /\ incoming[i] # <<>> => /\ Append(incoming[i], type) # <<>>
                               /\ Head(Append(incoming[i], type)) = Head(incoming[i])
  BY <1>2
<1>. QED
  BY <1>1, <1>3 DEF T

LEMMA SourcesKeepInputs ==
  ASSUME InputsInv, NEW i \in Element, Inputs!Commit(i) \/ Inputs!Signal(i)
  PROVE  InputsInv'
<1>0. InputsTyped
  BY DEF InputsInv
<1>1. CASE Inputs!Commit(i)
  <2>1. /\ Inputs!Push(i, "custom") /\ signals' = signals \cup {i}
        /\ UNCHANGED <<i_group, is_running, i_pc, i_call, at, i_ctl>>
    BY <1>1 DEF Inputs!Commit, Inputs!worker
  <2>2. InputsTyped'
    BY <1>0, <2>1, Pushed DEF InputsTyped
  <2>3. \A k \in 1..Len(Order) : Told(k) => Told(k)'
    BY <1>0, <2>1, Pushed, Inputs1 DEF Told
  <2>. QED
    BY <1>0, <2>1, <2>2, <2>3, Pushed, OthersTell
<1>2. CASE Inputs!Signal(i)
  <2>1. /\ signals' = signals \ {i} /\ i_group' = Inputs!GroupSet(i_group, i)
        /\ UNCHANGED <<incoming, is_running, i_pc, i_call, at, i_ctl>>
    BY <1>2 DEF Inputs!Signal, Inputs!worker
  <2>2. InputsTyped'
    BY <1>0, <2>1, Flags DEF InputsTyped
  <2>3. \A k \in 1..Len(Order) : Told(k) => Told(k)'
    <3>1. \A e \in Element : i_group'.flag[e] = (i_group.flag[e] \/ e = i)
      BY <1>0, <2>1, Flags DEF InputsTyped
    <3>. QED
      BY <2>1, <3>1, Inputs1 DEF Told
  <2>. QED
    BY <2>1, <2>2, <2>3, OthersTell
<1>. QED
  BY <1>1, <1>2

LEMMA StopKeepsInputs ==
  ASSUME InputsInv, Inputs!Stop \/ Inputs!StopStep
  PROVE  InputsInv'
<1> USE Inputs1
<1>0. InputsTyped /\ i_ctl.at \in 1..Len(Order) /\ Order[i_ctl.at] \in Element
  BY DEF InputsInv, InputsTyped
<1>1. CASE Inputs!Stop \/ Inputs!TaskStop
  <2>1. /\ UNCHANGED <<incoming, signals, i_group, i_pc, i_call, at>>
        /\ i_ctl.step # "signal" /\ i_ctl' \in [step : StopSteps, at : 1..Len(Order)]
    BY <1>0, <1>1 DEF Inputs!Stop, Inputs!TaskStop, Inputs!sources, Inputs!worker, StopSteps,
                      InputsTyped
  <2>2. InputsTyped' /\ \A k \in 1..Len(Order) : Told(k) => Told(k)'
    BY <1>0, <2>1 DEF InputsTyped, Told
  <2>. QED
    BY <2>1, <2>2, OthersTell
<1>2. CASE Inputs!Shutdown
  <2>1. /\ Inputs!Push(Order[i_ctl.at], "shutdown")
        /\ i_ctl.step = "push" /\ i_ctl' = [i_ctl EXCEPT !.step = "signal"]
        /\ UNCHANGED <<signals, i_group, is_running, i_pc, i_call, at>>
    BY <1>2 DEF Inputs!Shutdown, Inputs!worker
  <2>2. i_ctl' = [step |-> "signal", at |-> i_ctl.at]
    BY <1>0, <2>1 DEF InputsTyped
  <2>3. InputsTyped'
    BY <1>0, <2>1, <2>2, Pushed DEF InputsTyped, StopSteps
  <2>4. \A k \in 1..Len(Order) : Told(k) => Told(k)'
    <3>1. \A k \in 1..Len(Order) : k = i_ctl.at \/ incoming'[Order[k]] = incoming[Order[k]]
      BY <1>0, <2>1, Pushed
    <3>2. \A k \in 1..Len(Order) : i_ctl # [step |-> "signal", at |-> k]
      BY <2>1
    <3>. QED
      BY <2>1, <2>2, <3>1, <3>2 DEF Told
  <2>. QED
    BY <1>0, <2>1, <2>3, <2>4, Pushed, OthersTell
<1>3. CASE Inputs!ShutdownSignal
  <2>1. /\ i_ctl.step = "signal" /\ i_group' = Inputs!GroupSet(i_group, Order[i_ctl.at])
        /\ i_ctl' = IF i_ctl.at < Len(Order) THEN [step |-> "push", at |-> i_ctl.at + 1]
                    ELSE [i_ctl EXCEPT !.step = "wait"]
        /\ UNCHANGED <<incoming, signals, is_running, i_pc, i_call, at>>
    BY <1>3 DEF Inputs!ShutdownSignal, Inputs!worker, Inputs!sources
  <2>2. i_ctl' \in [step : StopSteps, at : 1..Len(Order)]
    <3>1. i_ctl \in [step : StopSteps, at : 1..Len(Order)] /\ Len(Order) \in Nat
      BY <1>0 DEF InputsTyped
    <3>2. CASE i_ctl.at < Len(Order)
      <4>1. i_ctl.at + 1 \in 1..Len(Order) /\ i_ctl' = [step |-> "push", at |-> i_ctl.at + 1]
        BY <2>1, <3>1, <3>2
      <4>. QED
        BY <4>1 DEF StopSteps
    <3>3. CASE ~(i_ctl.at < Len(Order))
      BY <2>1, <3>1, <3>3 DEF StopSteps
    <3>. QED
      BY <3>2, <3>3
  <2>3. InputsTyped'
    BY <1>0, <2>1, <2>2, Flags DEF InputsTyped
  <2>4. \A k \in 1..Len(Order) : Told(k) => Told(k)'
    <3>1. \A e \in Element : i_group'.flag[e] = (i_group.flag[e] \/ e = Order[i_ctl.at])
      BY <1>0, <2>1, Flags DEF InputsTyped
    <3>2. ASSUME NEW k \in 1..Len(Order), i_ctl = [step |-> "signal", at |-> k]
          PROVE  i_group'.flag[Order[k]]
      <4>1. i_ctl.at = k
        BY <3>2
      <4>. QED
        BY <1>0, <3>1, <4>1
    <3>3. \A k \in 1..Len(Order) : i_group.flag[Order[k]] => i_group'.flag[Order[k]]
      BY <3>1
    <3>. QED
      BY <2>1, <3>2, <3>3 DEF Told
  <2>. QED
    BY <2>1, <2>3, <2>4, OthersTell
<1>. QED
  BY <1>1, <1>2, <1>3 DEF Inputs!StopStep

(* A worker that has just begun, or is done, has looked at nothing.        *)
LEMMA WorkerKeepsInputs == ASSUME InputsInv, Inputs!Worker PROVE InputsInv'
<1> USE Inputs1
<1>0. /\ InputsTyped /\ at \in 1..Len(Order) /\ Order[at] \in Element
      /\ i_group \in Inputs!GroupType /\ i_call \in {"any", "tryAny", "one", "tryOne"}
  BY DEF InputsInv, InputsTyped, Inputs!Calls
<1>1. ASSUME UNCHANGED i_ctl, UNCHANGED signals,
             i_group' = i_group \/ \E i : i_group' = Inputs!GroupReset(i_group, i),
             incoming' \in [Element -> Seq({"custom", "shutdown"})],
             i_pc' \in InputPlaces, i_call' \in Inputs!Calls, at' \in 1..Len(Order)
      PROVE  InputsTyped'
  BY <1>0, <1>1, Flags DEF InputsTyped
<1>2. CASE Inputs!Update
  <2>1. /\ UNCHANGED <<incoming, signals, i_group, i_ctl>>
        /\ \/ i_pc' = "exited" /\ UNCHANGED <<i_call, at>>
           \/ i_pc' = "scan" /\ at' = 1 /\ i_call' = "any"
           \/ i_pc' = "tryEvent" /\ at' = 1 /\ i_call' = "tryAny"
           \/ i_pc' = "scan" /\ i_call' \in {"one", "tryOne"} /\ at' \in 1..Len(Order)
    <3>1. DOMAIN Order = 1..Len(Order)
      BY PartsAssumption
    <3>. QED
      BY <1>2, <3>1 DEF Inputs!Update, Inputs!sources
  <2>2. InputsTyped'
    BY <1>0, <1>1, <2>1 DEF InputsTyped, InputPlaces, Inputs!Calls
  <2>. QED
    BY <2>1, <2>2 DEF InputsInv, Looked, InUseInv
<1>3. CASE Inputs!TryWaitForAny
  <2>1. /\ UNCHANGED <<incoming, signals, i_call, at, i_ctl>>
        /\ i_pc = "tryEvent" /\ i_pc' = "scan"
        /\ i_group' = i_group \/ \E i : i_group' = Inputs!GroupReset(i_group, i)
    BY <1>3 DEF Inputs!TryWaitForAny, Inputs!sources
  <2>2. InputsTyped'
    BY <1>0, <1>1, <2>1 DEF InputsTyped, InputPlaces
  <2>. QED
    BY <2>1, <2>2 DEF InputsInv, Looked, InUseInv
<1>4. CASE Inputs!GetData
  <2>1. i_pc = "scan" /\ UNCHANGED <<incoming, signals, i_group, is_running, i_call, i_ctl>>
    BY <1>4 DEF Inputs!GetData, Inputs!sources
  <2>2. CASE incoming[Order[at]] = <<>>
    <3>1. Inputs!EmptyAt
      BY <1>4, <2>2 DEF Inputs!GetData
    <3>2. Told(at)
      BY <2>2 DEF Told
    <3>3. \A k : Told(k)' <=> Told(k)
      BY <2>1 DEF Told
    <3>4. CASE i_call = "one"
      <4>1. i_pc' = "waitOne" /\ UNCHANGED at
        BY <3>1, <3>4 DEF Inputs!EmptyAt, Inputs!GiveUp
      <4>2. InputsTyped'
        BY <1>0, <1>1, <2>1, <4>1 DEF InputsTyped, InputPlaces
      <4>3. Told(at)'
        BY <3>2, <4>1, <2>1 DEF Told
      <4>. QED
        BY <2>1, <3>4, <4>1, <4>2, <4>3 DEF InputsInv, Looked, InUseInv
    <3>5. CASE i_call # "one" /\ i_pc' = "update" /\ UNCHANGED at
      <4>1. InputsTyped'
        BY <1>0, <1>1, <2>1, <3>5 DEF InputsTyped, InputPlaces
      <4>. QED
        BY <3>5, <4>1 DEF InputsInv, Looked, InUseInv
    <3>6. CASE i_call \notin {"one", "tryOne"} /\ at < Len(Order)
      <4>1. i_pc' = "scan" /\ at' = at + 1
        BY <1>0, <3>1, <3>6 DEF Inputs!EmptyAt
      <4>2. InputsTyped'
        BY <1>0, <1>1, <2>1, <3>6, <4>1 DEF InputsTyped, InputPlaces
      <4>3. i_call = "any" => \A k \in 1..(at' - 1) : Told(k)
        <5>1. \A k \in 1..(at' - 1) : k \in 1..(at - 1) \/ k = at
          BY <1>0, <4>1
        <5>. QED
          BY <2>1, <3>2, <5>1 DEF InputsInv, Looked
      <4>4. i_call' = "any" => (\A k \in 1..(at - 1) : Told(k))'
        BY <2>1, <3>3, <4>3 DEF Told
      <4>. QED
        BY <2>1, <3>6, <4>1, <4>2, <4>4 DEF InputsInv, Looked, InUseInv
    <3>7. CASE i_call = "any" /\ ~(at < Len(Order))
      <4>1. i_pc' = "wait" /\ UNCHANGED at
        BY <3>1, <3>7 DEF Inputs!EmptyAt, Inputs!GiveUp
      <4>2. InputsTyped'
        BY <1>0, <1>1, <2>1, <4>1 DEF InputsTyped, InputPlaces
      <4>3. \A k \in 1..Len(Order) : Told(k)
        <5>1. \A k \in 1..Len(Order) : k \in 1..(at - 1) \/ k = at
          BY <1>0, <3>7
        <5>. QED
          BY <2>1, <3>2, <3>7, <5>1 DEF InputsInv, Looked
      <4>4. (\A k \in 1..Len(Order) : Told(k))'
        BY <3>3, <4>3
      <4>. QED
        BY <4>1, <4>2, <4>4 DEF InputsInv, Looked, InUseInv
    <3>. QED
      BY <1>0, <3>1, <3>4, <3>5, <3>6, <3>7 DEF Inputs!EmptyAt, Inputs!GiveUp, InputsTyped, Inputs!Calls
  <2>3. CASE incoming[Order[at]] # <<>>
    <3>1. /\ UNCHANGED at
          /\ i_pc' = IF Head(incoming[Order[at]]) = "custom" THEN "use" ELSE "update"
      BY <1>4, <2>3 DEF Inputs!GetData
    <3>2. InputsTyped'
      BY <1>0, <1>1, <2>1, <3>1 DEF InputsTyped, InputPlaces
    <3>. QED
      BY <2>1, <2>3, <3>1, <3>2 DEF InputsInv, Looked, InUseInv
  <2>. QED
    BY <2>2, <2>3
<1>5. CASE Inputs!WaitForAny
  <2>1. /\ UNCHANGED <<incoming, signals, i_call, i_ctl>> /\ at' = 1
        /\ i_pc' \in {"scan", "update"}
        /\ \E i : i_group' = Inputs!GroupReset(i_group, i)
    BY <1>5 DEF Inputs!WaitForAny, Inputs!sources
  <2>2. InputsTyped'
    BY <1>0, <1>1, <2>1 DEF InputsTyped, InputPlaces
  <2>. QED
    BY <2>1, <2>2 DEF InputsInv, Looked, InUseInv
<1>6. CASE Inputs!WaitForElement
  <2>1. /\ UNCHANGED <<incoming, signals, i_call, at, i_ctl>>
        /\ i_pc = "waitOne" /\ i_pc' = "scan"
        /\ \E i : i_group' = Inputs!GroupReset(i_group, i)
    BY <1>6 DEF Inputs!WaitForElement, Inputs!sources
  <2>2. InputsTyped'
    BY <1>0, <1>1, <2>1 DEF InputsTyped, InputPlaces
  <2>. QED
    BY <2>1, <2>2 DEF InputsInv, Looked, InUseInv
<1>7. CASE Inputs!Handle
  <2>1. /\ UNCHANGED <<incoming, signals, i_group, i_call, at, i_ctl>>
        /\ i_pc = "use" /\ i_pc' \in {"moveon", "update"}
    BY <1>7 DEF Inputs!Handle, Inputs!sources
  <2>2. InputsTyped'
    BY <1>0, <1>1, <2>1 DEF InputsTyped, InputPlaces
  <2>. QED
    BY <2>1, <2>2 DEF InputsInv, Looked, InUseInv
<1>8. CASE Inputs!MoveOn
  <2>1. /\ UNCHANGED <<signals, i_group, i_call, at, i_ctl>>
        /\ i_pc = "moveon" /\ i_pc' = "update"
        /\ incoming' = [incoming EXCEPT ![Order[at]] = Tail(@)]
    BY <1>8 DEF Inputs!MoveOn
  <2>2. incoming[Order[at]] # <<>> /\ incoming \in [Element -> Seq({"custom", "shutdown"})]
    BY <2>1 DEF InputsInv, InUseInv, InputsTyped
  <2>3. Tail(incoming[Order[at]]) \in Seq({"custom", "shutdown"})
    BY <1>0, <2>2
  <2>4. incoming' \in [Element -> Seq({"custom", "shutdown"})]
    BY <1>0, <2>1, <2>2, <2>3
  <2>5. InputsTyped'
    BY <1>0, <1>1, <2>1, <2>4 DEF InputsTyped, InputPlaces
  <2>. QED
    BY <2>1, <2>5 DEF InputsInv, Looked, InUseInv
<1>. QED
  BY <1>2, <1>3, <1>4, <1>5, <1>6, <1>7, <1>8 DEF Inputs!Worker

LEMMA NextInputs == InputsInv /\ [Inputs!Next]_inputs => InputsInv'
<1>1. InputsInv /\ UNCHANGED inputs => InputsInv'
  <2>. SUFFICES ASSUME InputsInv, UNCHANGED inputs PROVE InputsInv'
    OBVIOUS
  <2>1. UNCHANGED <<incoming, signals, i_group, i_pc, i_call, at, i_ctl>>
    BY DEF inputs
  <2>2. InputsTyped' /\ \A k \in 1..Len(Order) : Told(k) => Told(k)'
    BY <2>1 DEF InputsInv, InputsTyped, Told
  <2>. QED
    BY <2>1, <2>2, OthersTell
<1>. QED
  BY <1>1, SourcesKeepInputs, StopKeepsInputs, WorkerKeepsInputs DEF Inputs!Next

LEMMA InputsSeen == InputsInv => Inputs!NoInputOverlooked
<1>. SUFFICES ASSUME InputsInv PROVE Inputs!NoInputOverlooked
  OBVIOUS
<1>1. i_pc = "wait" => \/ \A i \in Element : incoming[i] = <<>>
                       \/ Inputs!SetElements(i_group) # {} \/ signals # {}
                       \/ i_ctl.step = "signal"
  <2>1. SUFFICES ASSUME i_pc = "wait", NEW i \in Element, incoming[i] # <<>>
                 PROVE  \/ Inputs!SetElements(i_group) # {} \/ signals # {}
                        \/ i_ctl.step = "signal"
    OBVIOUS
  <2>2. PICK k \in 1..Len(Order) : Order[k] = i
    BY Inputs1
  <2>3. Told(k)
    BY <2>1 DEF InputsInv, Looked
  <2>. QED
    BY <2>1, <2>2, <2>3 DEF Told, InputsInv, InputsTyped, Inputs!SetElements
<1>2. i_pc = "waitOne" /\ incoming[Order[at]] # <<>> =>
        \/ i_group.flag[Order[at]] \/ Order[at] \in signals
        \/ i_ctl = [step |-> "signal", at |-> at]
  BY DEF InputsInv, Looked, Told
<1>. QED
  BY <1>1, <1>2 DEF Inputs!NoInputOverlooked, InputsInv, InUseInv

-----------------------------------------------------------------------------
(* The pool of processor threads.  What is so of the thread w that a user  *)
(* holds, or of none, depends on how far its call is.                      *)
Fits(place, w) ==
  /\ place = "get" => w = NoOwner
  /\ place \notin {"idle", "get"} => w # NoOwner
  /\ w # NoOwner =>
       /\ loop[w] # "none"
       /\ place \in {"idle", "continue", "signal", "put", "store"} => p_running[w]
       /\ place \in {"idle", "signal"} => ~is_paused[w]
       /\ place \in {"put", "store"} => is_paused[w]

InStack(v) == p_running[v] /\ is_paused[v] /\ loop[v] # "none"

CallerPlaces == {"idle", "get", "continue", "signal", "put", "store",
                 "end", "end_stop", "end_signal", "end_wait"}

StackTyped == /\ threads \in Seq(PoolWorker)
              /\ p_running \in [PoolWorker -> BOOLEAN]
              /\ is_paused \in [PoolWorker -> BOOLEAN]
              /\ loop \in [PoolWorker -> {"none", "running?", "paused?", "wait", "process", "ended"}]
              /\ caller \in [PoolOwner -> CallerPlaces]
              /\ hand \in [PoolOwner -> PoolWorker \cup {NoOwner}]

StackInv ==
  /\ StackTyped
  /\ \A i, j \in DOMAIN threads : threads[i] = threads[j] => i = j
  /\ \A v \in Stack!Stored : InStack(v)
  /\ \A o \in PoolOwner : Fits(caller[o], hand[o]) /\ hand[o] \notin Stack!Stored
  /\ \A o, p \in PoolOwner : o # p /\ hand[o] # NoOwner => hand[o] # hand[p]

LEMMA StackHolds == StackInv => Stack!OneHolder
BY DEF StackInv, StackTyped, Fits, InStack, Stack!OneHolder

(* A user's call goes on to place, where the user has h; it may change the *)
(* thread w, which is no other user's.  A thread of the pool that is new    *)
(* there, as the one the user had (u) may be, or changed, sleeps.           *)
UserStep(o, place, h, w, u) ==
  /\ caller' = [caller EXCEPT ![o] = place] /\ hand' = [hand EXCEPT ![o] = h]
  /\ threads' \in Seq(PoolWorker)
  /\ \A i, j \in DOMAIN threads' : threads'[i] = threads'[j] => i = j
  /\ p_running' \in [PoolWorker -> BOOLEAN] /\ is_paused' \in [PoolWorker -> BOOLEAN]
  /\ loop' \in [PoolWorker -> {"none", "running?", "paused?", "wait", "process", "ended"}]
  /\ \A v \in PoolWorker \ {w} : /\ p_running'[v] = p_running[v] /\ is_paused'[v] = is_paused[v]
                                 /\ loop'[v] = loop[v]
  /\ \A p \in PoolOwner \ {o} : hand[p] \in PoolWorker => hand[p] \notin {w, h}
  /\ \A v \in Stack!Stored' : /\ v # h /\ v \in Stack!Stored \cup {u}
                              /\ v \in {w, u} => InStack(v)'
  /\ Fits(place, h)'

LEMMA UserMoves ==
  ASSUME StackInv, NEW o \in PoolOwner, NEW place \in CallerPlaces,
         NEW h \in PoolWorker \cup {NoOwner}, NEW w, NEW u, u = hand[o],
         UserStep(o, place, h, w, u)
  PROVE  StackInv'
<1> USE DEF StackInv, StackTyped, UserStep
<1>1. StackTyped'
  OBVIOUS
<1>2. Stack!Stored' \subseteq PoolWorker /\ NoOwner \notin PoolWorker
  BY PartsAssumption DEF Stack!Stored
<1>3. ASSUME NEW v \in Stack!Stored' PROVE InStack(v)'
  <2>1. CASE v \in {w, u}
    BY <1>3, <2>1
  <2>2. CASE v \notin {w, u}
    BY <1>2, <1>3, <2>2 DEF InStack
  <2>. QED
    BY <2>1, <2>2
<1>4. ASSUME NEW p \in PoolOwner \ {o}
      PROVE  /\ Fits(caller[p], hand[p])' /\ hand'[p] \notin Stack!Stored'
             /\ hand'[p] = hand[p] /\ caller'[p] = caller[p]
  <2>1. hand'[p] = hand[p] /\ caller'[p] = caller[p]
    OBVIOUS
  <2>2. hand[p] \notin Stack!Stored'
    <3>1. hand[p] # NoOwner => hand[p] # hand[o] /\ hand[p] \notin Stack!Stored
      BY <1>4
    <3>. QED
      BY <1>2, <3>1
  <2>3. CASE hand[p] = NoOwner
    BY <2>1, <2>2, <2>3 DEF Fits
  <2>4. CASE hand[p] # NoOwner
    BY <2>1, <2>2, <2>4 DEF Fits
  <2>. QED
    BY <2>1, <2>2, <2>3, <2>4
<1>5. Fits(caller[o], hand[o])' /\ hand'[o] \notin Stack!Stored' /\ hand'[o] = h
  BY <1>2
<1>6. ASSUME NEW p \in PoolOwner, NEW q \in PoolOwner, p # q, hand'[p] # NoOwner
      PROVE  hand'[p] # hand'[q]
  <2>1. CASE p = o
    BY <1>4, <1>5, <1>6, <2>1
  <2>2. CASE q = o
    BY <1>4, <1>5, <1>6, <2>2
  <2>3. CASE p # o /\ q # o
    BY <1>4, <1>6, <2>3
  <2>. QED
    BY <2>1, <2>2, <2>3
<1>. QED
  BY <1>1, <1>3, <1>4, <1>5, <1>6

LEMMA InitStack == MCInit => StackInv
<1>. SUFFICES ASSUME MCInit PROVE StackInv
  OBVIOUS
<1>1. Stack!PoolInit
  BY DEF MCInit
<1>2. Stack!Stored = {}
  BY <1>1 DEF Stack!PoolInit, Stack!Stored
<1>. QED
  BY <1>1, <1>2 DEF Stack!PoolInit, StackInv, StackTyped, Fits, CallerPlaces

LEMMA GettingKeepsStack ==
  ASSUME StackInv, NEW o \in PoolOwner, Stack!GetLock(o) \/ Stack!GetOn(o)
  PROVE  StackInv'
<1>0. PICK u : u = hand[o]
  OBVIOUS
<1>1. StackTyped /\ Fits(caller[o], hand[o]) /\ NoOwner \notin PoolWorker
  BY PartsAssumption DEF StackInv
<1>2. \A v \in Stack!Stored : v \in PoolWorker /\ v # hand[o] /\ InStack(v)
  BY <1>1 DEF StackInv, StackTyped, Stack!Stored
<1>3. \A p \in PoolOwner \ {o} : hand[p] \in PoolWorker => hand[p] # hand[o] /\ loop[hand[p]] # "none"
  BY <1>1 DEF StackInv, Fits
<1>4. /\ \A v \in {"get", "idle", "continue", "signal"} : v \in CallerPlaces
      /\ hand[o] \in PoolWorker \cup {NoOwner}
      /\ \A i, j \in DOMAIN threads : threads[i] = threads[j] => i = j
  BY <1>1 DEF CallerPlaces, StackInv, StackTyped
<1>5. CASE Stack!GetLock(o)
  <2>1. /\ caller' = [caller EXCEPT ![o] = "get"] /\ hand[o] = NoOwner
        /\ UNCHANGED <<threads, p_running, is_paused, loop, hand>>
    BY <1>5 DEF Stack!GetLock, Stack!Goto, Stack!workerVars
  <2>2. hand' = [hand EXCEPT ![o] = NoOwner]
    BY <1>1, <2>1 DEF StackTyped
  <2>3. Fits("get", NoOwner)' /\ Stack!Stored' = Stack!Stored
    BY <2>1 DEF Fits, Stack!Stored
  <2>4. UserStep(o, "get", NoOwner, NoOwner, u)
    BY <1>0, <1>1, <1>2, <1>4, <2>1, <2>2, <2>3 DEF UserStep, StackTyped
  <2>. QED
    BY <1>0, <1>4, <2>4, UserMoves
<1>6. CASE Stack!GetNew(o)
  <2>1. PICK w \in PoolWorker :
          /\ loop[w] = "none"
          /\ p_running' = [p_running EXCEPT ![w] = TRUE]
          /\ is_paused' = [is_paused EXCEPT ![w] = FALSE]
          /\ loop' = [loop EXCEPT ![w] = "running?"]
          /\ hand' = [hand EXCEPT ![o] = w]
    BY <1>6 DEF Stack!GetNew
  <2>2. caller' = [caller EXCEPT ![o] = "continue"] /\ UNCHANGED threads /\ threads = <<>>
    BY <1>6 DEF Stack!GetNew, Stack!Goto
  <2>3. UserStep(o, "continue", w, w, u)
    BY <1>0, <1>1, <1>2, <1>3, <1>4, <2>1, <2>2 DEF UserStep, StackTyped, Fits, Stack!Stored
  <2>. QED
    BY <1>0, <1>4, <2>3, UserMoves
<1>7. CASE Stack!GetFails(o)
  <2>1. /\ caller' = [caller EXCEPT ![o] = "idle"] /\ caller[o] = "get"
        /\ UNCHANGED <<threads, p_running, is_paused, loop, hand>>
    BY <1>7 DEF Stack!GetFails, Stack!Goto, Stack!workerVars
  <2>2. hand[o] = NoOwner /\ hand' = [hand EXCEPT ![o] = NoOwner]
    BY <1>1, <2>1 DEF StackTyped, Fits
  <2>3. Fits("idle", NoOwner)' /\ Stack!Stored' = Stack!Stored
    BY <2>1 DEF Fits, Stack!Stored
  <2>4. UserStep(o, "idle", NoOwner, NoOwner, u)
    BY <1>0, <1>1, <1>2, <1>4, <2>1, <2>2, <2>3 DEF UserStep, StackTyped
  <2>. QED
    BY <1>0, <1>4, <2>4, UserMoves
<1>8. CASE Stack!GetStored(o)
  <2>0. PICK h : h = threads[Len(threads)]
    OBVIOUS
  <2>1. /\ caller' = [caller EXCEPT ![o] = "continue"] /\ threads # <<>>
        /\ hand' = [hand EXCEPT ![o] = h]
        /\ threads' = SubSeq(threads, 1, Len(threads) - 1)
        /\ UNCHANGED <<p_running, is_paused, loop>>
    BY <1>8, <2>0 DEF Stack!GetStored, Stack!Goto, Stack!workerVars
  <2>2. /\ Len(threads) \in DOMAIN threads /\ h \in Stack!Stored
        /\ threads' \in Seq(PoolWorker) /\ DOMAIN threads' \subseteq DOMAIN threads
        /\ Len(threads) \notin DOMAIN threads'
        /\ \A i \in DOMAIN threads' : threads'[i] = threads[i]
    BY <1>1, <2>0, <2>1 DEF StackTyped, Stack!Stored
  <2>3. \A v \in Stack!Stored' : v # h /\ v \in Stack!Stored
    <3>1. SUFFICES ASSUME NEW v \in Stack!Stored' PROVE v # h /\ v \in Stack!Stored
      OBVIOUS
    <3>2. PICK i \in DOMAIN threads' : v = threads'[i]
      BY DEF Stack!Stored
    <3>3. i \in DOMAIN threads /\ v = threads[i] /\ i # Len(threads)
      BY <2>2, <3>2
    <3>. QED
      BY <1>4, <2>0, <2>2, <3>3 DEF Stack!Stored
  <2>4. h \in PoolWorker /\ InStack(h)
    BY <1>2, <2>2
  <2>5. \A p \in PoolOwner \ {o} : hand[p] # h
    BY <2>2 DEF StackInv
  <2>6. Fits("continue", h)'
    BY <1>1, <2>1, <2>4 DEF Fits, InStack
  <2>7. UserStep(o, "continue", h, NoOwner, u)
    BY <1>0, <1>1, <1>2, <1>4, <2>1, <2>2, <2>3, <2>5, <2>6 DEF UserStep, StackTyped
  <2>. QED
    BY <1>0, <1>4, <2>4, <2>7, UserMoves
<1>9. CASE Stack!Continue(o)
  <2>1. /\ caller' = [caller EXCEPT ![o] = "signal"] /\ caller[o] = "continue"
        /\ is_paused' = [is_paused EXCEPT ![hand[o]] = FALSE]
        /\ UNCHANGED <<threads, p_running, loop, hand>>
    BY <1>9 DEF Stack!Continue, Stack!Goto
  <2>2. hand' = [hand EXCEPT ![o] = hand[o]]
    BY <1>1, <2>1 DEF StackTyped
  <2>3. Fits("signal", u)' /\ Stack!Stored' = Stack!Stored
    BY <1>0, <1>1, <2>1 DEF StackTyped, Fits, Stack!Stored
  <2>4. UserStep(o, "signal", u, u, u)
    BY <1>0, <1>1, <1>2, <1>3, <1>4, <2>1, <2>2, <2>3 DEF UserStep, StackTyped
  <2>. QED
    BY <1>0, <1>4, <2>4, UserMoves
<1>10. CASE Stack!Signal(o)
  <2>1. /\ caller' = [caller EXCEPT ![o] = "idle"] /\ caller[o] = "signal"
        /\ UNCHANGED <<threads, p_running, is_paused, loop, hand>>
    BY <1>10 DEF Stack!Signal, Stack!Goto
  <2>2. hand' = [hand EXCEPT ![o] = hand[o]]
    BY <1>1, <2>1 DEF StackTyped
  <2>3. Fits("idle", u)' /\ Stack!Stored' = Stack!Stored
    BY <1>0, <1>1, <2>1 DEF StackTyped, Fits, Stack!Stored
  <2>4. UserStep(o, "idle", u, NoOwner, u)
    BY <1>0, <1>1, <1>2, <1>3, <1>4, <2>1, <2>2, <2>3 DEF UserStep, StackTyped
  <2>. QED
    BY <1>0, <1>4, <2>4, UserMoves
<1>. QED
  BY <1>5, <1>6, <1>7, <1>8, <1>9, <1>10 DEF Stack!GetOn

LEMMA PuttingKeepsStack ==
  ASSUME StackInv, NEW o \in PoolOwner, Stack!PutPause(o) \/ Stack!PutOn(o)
  PROVE  StackInv'
<1>0. PICK u : u = hand[o]
  OBVIOUS
<1>1. StackTyped /\ Fits(caller[o], hand[o]) /\ NoOwner \notin PoolWorker
  BY PartsAssumption DEF StackInv
<1>2. \A v \in Stack!Stored : v \in PoolWorker /\ v # u /\ InStack(v)
  BY <1>0, <1>1 DEF StackInv, StackTyped, Stack!Stored
<1>3. \A p \in PoolOwner \ {o} : hand[p] \in PoolWorker => hand[p] # u
  BY <1>0, <1>1 DEF StackInv
<1>4. /\ \A i, j \in DOMAIN threads : threads[i] = threads[j] => i = j
      /\ u \in PoolWorker
  <2>1. caller[o] \in {"put", "store", "end", "end_stop", "end_signal", "end_wait"} \/ hand[o] # NoOwner
    BY DEF Stack!PutPause, Stack!PutOn, Stack!PutLock, Stack!PutStore, Stack!EndResume,
           Stack!EndStop, Stack!EndSignal, Stack!EndWait
  <2>2. hand[o] # NoOwner
    BY <1>1, <2>1 DEF Fits
  <2>. QED
    BY <1>0, <1>1, <2>2 DEF StackInv, StackTyped
<1>5. hand' = hand => hand' = [hand EXCEPT ![o] = u]
  BY <1>0, <1>1 DEF StackTyped
<1>6. threads' = threads => Stack!Stored' = Stack!Stored
  BY DEF Stack!Stored
\* What the calls do that leave the array and the user's thread alone.
<1>7. ASSUME NEW place \in CallerPlaces, caller' = [caller EXCEPT ![o] = place],
             UNCHANGED <<threads, hand>>,
             p_running' \in {p_running, [p_running EXCEPT ![u] = FALSE]},
             is_paused' \in {is_paused, [is_paused EXCEPT ![u] = TRUE], [is_paused EXCEPT ![u] = FALSE]},
             loop' = loop, Fits(place, u)'
      PROVE  StackInv'
  <2>1. /\ p_running' \in [PoolWorker -> BOOLEAN] /\ is_paused' \in [PoolWorker -> BOOLEAN]
        /\ \A v \in PoolWorker \ {u} : p_running'[v] = p_running[v] /\ is_paused'[v] = is_paused[v]
    BY <1>1, <1>4, <1>7 DEF StackTyped
  <2>2. UserStep(o, place, u, u, u)
    BY <1>1, <1>2, <1>3, <1>4, <1>5, <1>6, <1>7, <2>1 DEF UserStep, StackTyped
  <2>. QED
    BY <1>0, <1>4, <1>7, <2>2, UserMoves
<1>8. CASE Stack!PutPause(o)
  <2>1. /\ caller' = [caller EXCEPT ![o] = "put"] /\ caller[o] = "idle"
        /\ is_paused' = [is_paused EXCEPT ![u] = TRUE]
        /\ UNCHANGED <<threads, p_running, loop, hand>>
    BY <1>0, <1>8 DEF Stack!PutPause, Stack!Goto
  <2>2. "put" \in CallerPlaces /\ Fits("put", u)'
    BY <1>0, <1>1, <1>4, <2>1 DEF CallerPlaces, StackTyped, Fits
  <2>. QED
    BY <1>7, <2>1, <2>2
<1>9. CASE Stack!PutLock(o)
  <2>1. PICK place \in {"store", "end"} : caller' = [caller EXCEPT ![o] = place]
    BY <1>9 DEF Stack!PutLock, Stack!Goto
  <2>2. caller[o] = "put" /\ UNCHANGED <<threads, p_running, is_paused, loop, hand>>
    BY <1>9 DEF Stack!PutLock, Stack!workerVars
  <2>3. place \in CallerPlaces /\ Fits(place, u)'
    BY <1>0, <1>1, <1>4, <2>2 DEF CallerPlaces, StackTyped, Fits
  <2>. QED
    BY <1>7, <2>1, <2>2, <2>3
<1>10. CASE Stack!PutStore(o)
  <2>1. /\ caller' = [caller EXCEPT ![o] = "idle"] /\ caller[o] = "store"
        /\ threads' = Append(threads, u) /\ hand' = [hand EXCEPT ![o] = NoOwner]
        /\ UNCHANGED <<p_running, is_paused, loop>>
    BY <1>0, <1>10 DEF Stack!PutStore, Stack!Goto, Stack!workerVars
  <2>2. threads \in Seq(PoolWorker)
    BY <1>1 DEF StackTyped
  <2>3. \A i \in DOMAIN threads : threads[i] \in PoolWorker /\ threads[i] # u
    BY <1>2 DEF Stack!Stored
  <2>4. /\ threads' \in Seq(PoolWorker) /\ DOMAIN threads' = DOMAIN threads \cup {Len(threads) + 1}
        /\ Len(threads) + 1 \notin DOMAIN threads /\ threads'[Len(threads) + 1] = u
        /\ \A i \in DOMAIN threads : threads'[i] = threads[i]
    BY <1>4, <2>1, <2>2
  <2>5. \A i, j \in DOMAIN threads' : threads'[i] = threads'[j] => i = j
    BY <1>4, <2>3, <2>4
  <2>6. \A v \in Stack!Stored' : v \in Stack!Stored \cup {u}
    <3>1. SUFFICES ASSUME NEW v \in Stack!Stored' PROVE v \in Stack!Stored \cup {u}
      OBVIOUS
    <3>2. PICK i \in DOMAIN threads' : v = threads'[i]
      BY DEF Stack!Stored
    <3>. QED
      BY <2>4, <3>2 DEF Stack!Stored
  <2>7. InStack(u)' /\ Fits("idle", NoOwner)'
    BY <1>0, <1>1, <1>4, <2>1 DEF StackTyped, Fits, InStack
  <2>8. UserStep(o, "idle", NoOwner, NoOwner, u)
    BY <1>1, <1>2, <1>4, <2>1, <2>4, <2>5, <2>6, <2>7 DEF UserStep, StackTyped
  <2>. QED
    BY <1>0, <1>1, <2>8, UserMoves DEF CallerPlaces
<1>11. CASE Stack!EndResume(o)
  <2>1. /\ caller' = [caller EXCEPT ![o] = "end_stop"] /\ caller[o] = "end"
        /\ is_paused' = [is_paused EXCEPT ![u] = FALSE]
        /\ UNCHANGED <<threads, p_running, loop, hand>>
    BY <1>0, <1>11 DEF Stack!EndResume, Stack!Goto
  <2>2. "end_stop" \in CallerPlaces /\ Fits("end_stop", u)'
    BY <1>0, <1>1, <1>4, <2>1 DEF CallerPlaces, StackTyped, Fits
  <2>. QED
    BY <1>7, <2>1, <2>2
<1>12. CASE Stack!EndStop(o)
  <2>1. /\ caller' = [caller EXCEPT ![o] = "end_signal"] /\ caller[o] = "end_stop"
        /\ p_running' = [p_running EXCEPT ![u] = FALSE]
        /\ UNCHANGED <<threads, is_paused, loop, hand>>
    BY <1>0, <1>12 DEF Stack!EndStop, Stack!Goto
  <2>2. "end_signal" \in CallerPlaces /\ Fits("end_signal", u)'
    BY <1>0, <1>1, <1>4, <2>1 DEF CallerPlaces, StackTyped, Fits
  <2>. QED
    BY <1>7, <2>1, <2>2
<1>13. CASE Stack!EndSignal(o)
  <2>1. /\ caller' = [caller EXCEPT ![o] = "end_wait"] /\ caller[o] = "end_signal"
        /\ UNCHANGED <<threads, p_running, is_paused, loop, hand>>
    BY <1>0, <1>13 DEF Stack!EndSignal, Stack!Goto
  <2>2. "end_wait" \in CallerPlaces /\ Fits("end_wait", u)'
    BY <1>0, <1>1, <1>4, <2>1 DEF CallerPlaces, StackTyped, Fits
  <2>. QED
    BY <1>7, <2>1, <2>2
<1>14. CASE Stack!EndWait(o)
  <2>1. /\ caller' = [caller EXCEPT ![o] = "idle"]
        /\ loop' = [loop EXCEPT ![u] = "none"] /\ hand' = [hand EXCEPT ![o] = NoOwner]
        /\ UNCHANGED <<threads, p_running, is_paused>>
    BY <1>0, <1>14 DEF Stack!EndWait, Stack!Goto
  <2>2. Fits("idle", NoOwner)' /\ Stack!Stored' = Stack!Stored
    BY <1>6, <2>1 DEF Fits
  <2>3. UserStep(o, "idle", NoOwner, u, u)
    BY <1>1, <1>2, <1>3, <1>4, <2>1, <2>2 DEF UserStep, StackTyped
  <2>. QED
    BY <1>0, <1>1, <2>3, UserMoves DEF CallerPlaces
<1>. QED
  BY <1>8, <1>9, <1>10, <1>11, <1>12, <1>13, <1>14 DEF Stack!PutOn

LEMMA LoopKeepsStack ==
  ASSUME StackInv, NEW w \in PoolWorker, Stack!WorkerStep(w)
  PROVE  StackInv'
<1>1. UNCHANGED <<threads, p_running, is_paused, caller, hand>>
  BY DEF Stack!WorkerStep, Stack!TestRunning, Stack!TestPaused, Stack!Wait, Stack!Process
<1>2. PICK l \in {"running?", "paused?", "wait", "process", "ended"} :
        loop' = [loop EXCEPT ![w] = l]
  BY DEF Stack!WorkerStep, Stack!TestRunning, Stack!TestPaused, Stack!Wait, Stack!Process,
         Stack!LoopTo
<1>3. \A v \in PoolWorker : loop[v] # "none" => loop'[v] # "none"
  BY <1>2 DEF StackInv, StackTyped
<1>4. StackTyped' /\ Stack!Stored' = Stack!Stored
  BY <1>1, <1>2 DEF StackInv, StackTyped, Stack!Stored
<1>5. \A o \in PoolOwner : Fits(caller[o], hand[o])'
  BY <1>1, <1>3 DEF StackInv, StackTyped, Fits
<1>6. \A v \in Stack!Stored : InStack(v)'
  BY <1>1, <1>3 DEF StackInv, StackTyped, InStack, Stack!Stored
<1>. QED
  BY <1>1, <1>4, <1>5, <1>6 DEF StackInv

LEMMA NextStack == StackInv /\ [Stack!PoolNext]_stack => StackInv'
<1>1. StackInv /\ UNCHANGED stack => StackInv'
  BY DEF StackInv, StackTyped, stack, Fits, InStack, Stack!Stored
<1>. QED
  BY <1>1, GettingKeepsStack, PuttingKeepsStack, LoopKeepsStack DEF Stack!PoolNext

-----------------------------------------------------------------------------
(* The memory pool of a procedure with one list, that of the pin p: whoever *)
(* works in the pool has the list to itself.  The pool caches at most one   *)
(* block, which ends its chain, and between two calls it counts it.         *)
Counting == {"count down", "write down", "count up", "write up"}
MemoryPlaces == Counting \cup {"idle", "push", "pop", "malloc", "unlink", "free", "link", "give"}

Counted == current_block_num = IF first_block = NoOwner THEN 0 ELSE 1

MemoryTyped == /\ first_block \in Block \cup {NoOwner}
               /\ next \in [Block -> Block \cup {NoOwner}]
               /\ current_block_num \in Int /\ heap \subseteq Block
               /\ block \in [Memory!Pin -> Block \cup {NoOwner}]
               /\ size \in [Memory!Pin -> Nat] /\ taken \in [Memory!Pin -> BOOLEAN]
               /\ m_pc \in [Memory!Thread -> MemoryPlaces]
               /\ local \in [Memory!Thread -> [list : Memory!Pin, block : Block \cup {NoOwner},
                                               number : Int]]

Kept(p) == /\ Pins = {p}
           /\ \A q \in Memory!Pin : /\ block[q] = NoOwner <=> size[q] = 0
                                    /\ q # p => block[q] = NoOwner
           /\ block[p] \notin heap
           /\ first_block # NoOwner => /\ next[first_block] = NoOwner
                                       /\ first_block \notin heap \cup {block[p]}

\* A thread of which l is the local state is at the place.
MemoryAt(place, l, p) ==
  /\ place # "idle" => taken[p] /\ l.list = p
  /\ place \notin {"idle", "push", "pop"} => block[p] = NoOwner
  /\ place = "malloc" => first_block = NoOwner
  /\ place \notin {"idle", "push", "pop", "malloc"} => l.block \in Block
  /\ place \in {"unlink", "count up", "write up"} => first_block = l.block
  /\ place \in {"count down", "write down", "link", "give"} => first_block = NoOwner
  /\ place \in {"count down", "write down", "free", "link", "give"} =>
       l.block \notin heap \cup {first_block}
  /\ place = "give" => next[l.block] = NoOwner
  /\ place \in {"count down", "write down"} => current_block_num = 1
  /\ place \in {"count up", "write up"} => current_block_num = 0
  /\ place \in {"write down", "write up"} => l.number = current_block_num

MemoryInv(p) ==
  /\ MemoryTyped /\ Kept(p)
  /\ \A t \in Memory!Thread : MemoryAt(m_pc[t], local[t], p)
  /\ \A t, u \in Memory!Thread : m_pc[t] # "idle" /\ m_pc[u] # "idle" => t = u
  /\ (\A t \in Memory!Thread : m_pc[t] \notin Counting) => Counted

LEMMA MemoryHolds ==
  ASSUME NEW p \in Memory!Pin, MemoryInv(p) PROVE Memory!PoolIsWhole
<1>1. Memory!NoneCounted
  <2>1. SUFFICES ASSUME NEW t \in Memory!Thread, m_pc[t] = "malloc" PROVE current_block_num = 0
    BY DEF Memory!NoneCounted
  <2>2. first_block = NoOwner /\ \A u \in Memory!Thread : m_pc[u] \notin Counting
    BY <2>1 DEF MemoryInv, MemoryAt, Counting
  <2>. QED
    BY <2>2 DEF MemoryInv, Counted
<1>2. Memory!BlocksHeldOnce
  <2>1. SUFFICES ASSUME NEW b \in Block, NEW h \in Memory!Held(b), NEW i \in Memory!Held(b)
                 PROVE  h = i
    BY DEF Memory!BlocksHeldOnce
  <2>2. b # NoOwner
    BY PartsAssumption
  <2> DEFINE InThread == {t \in Memory!Thread : local[t].block = b /\
                            m_pc[t] \in {"count down", "write down", "free", "link", "give"}}
             OnList == {q \in Memory!Pin : block[q] = b}
  <2>3. /\ \A q \in OnList : q = p /\ b \notin heap /\ first_block # b
        /\ OnList # {} => InThread = {}
    <3>1. \A q \in OnList : q = p /\ block[p] = b
      BY <2>2 DEF MemoryInv, Kept
    <3>2. block[p] = b => b \notin heap /\ first_block # b
      BY <2>2 DEF MemoryInv, Kept
    <3>3. InThread # {} => block[p] = NoOwner
      BY DEF MemoryInv, MemoryAt
    <3>. QED
      BY <2>2, <3>1, <3>2, <3>3
  <2>4. /\ \A t \in InThread : b \notin heap /\ first_block # b
        /\ \A t, u \in InThread : t = u
    BY DEF MemoryInv, MemoryAt
  <2>5. first_block = b => b \notin heap
    BY <2>2 DEF MemoryInv, Kept
  <2>6. \A x \in Memory!Held(b) : \/ b \in heap /\ x = <<"heap", b>>
                                  \/ \E q \in OnList : x = <<q, "list">>
                                  \/ \E t \in InThread : x = <<t, "thread">>
                                  \/ first_block = b /\ x = <<"pool", "first">>
    BY DEF Memory!Held
  <2>. HIDE DEF InThread, OnList
  <2>. QED
    BY <2>3, <2>4, <2>5, <2>6
<1>. QED
  BY <1>1, <1>2 DEF Memory!PoolIsWhole

(* The thread t, the only one that is not idle, goes on to the place.       *)
MemoryStep(t, place, l, p) ==
  /\ m_pc' = [m_pc EXCEPT ![t] = place] /\ local' = [local EXCEPT ![t] = l]
  /\ MemoryTyped' /\ Kept(p)' /\ MemoryAt(place, l, p)'
  /\ place \notin Counting => Counted'

LEMMA MemoryMoves ==
  ASSUME NEW p \in Memory!Pin, MemoryInv(p), NEW t \in Memory!Thread,
         \A u \in Memory!Thread \ {t} : m_pc[u] = "idle",
         NEW place \in MemoryPlaces, NEW l, MemoryStep(t, place, l, p)
  PROVE  MemoryInv(p)'
<1>1. m_pc'[t] = place /\ local'[t] = l /\ \A u \in Memory!Thread \ {t} : m_pc'[u] = "idle"
  BY DEF MemoryInv, MemoryTyped, MemoryStep
<1>2. \A u \in Memory!Thread : MemoryAt(m_pc[u], local[u], p)'
  <2>1. MemoryAt(m_pc[t], local[t], p)'
    BY <1>1 DEF MemoryStep, MemoryAt
  <2>2. \A u \in Memory!Thread \ {t} : MemoryAt(m_pc[u], local[u], p)'
    BY <1>1 DEF MemoryAt
  <2>. QED
    BY <2>1, <2>2
<1>. QED
  BY <1>1, <1>2 DEF MemoryInv, MemoryStep

LEMMA OneInMemory ==
  ASSUME NEW p \in Memory!Pin, MemoryInv(p), NEW t \in Memory!Thread, m_pc[t] # "idle"
  PROVE  /\ \A u \in Memory!Thread \ {t} : m_pc[u] = "idle"
         /\ taken[p] /\ local[t].list = p
BY DEF MemoryInv, MemoryAt

LEMMA TakeKeepsMemory ==
  ASSUME NEW p \in Memory!Pin, MemoryInv(p), NEW t \in Memory!Thread, NEW q \in Memory!Pin,
         Memory!PassOn(t, q) \/ Memory!MoveOn(t, q)
  PROVE  MemoryInv(p)'
<1>1. PICK l \in {"push", "pop"} : Memory!Take(t, q, l)
  BY DEF Memory!PassOn, Memory!MoveOn
<1>2. /\ q = p /\ ~taken[p]
      /\ taken' = [taken EXCEPT ![p] = TRUE] /\ local' = [local EXCEPT ![t].list = p]
      /\ m_pc' = [m_pc EXCEPT ![t] = l]
      /\ UNCHANGED <<Pins, first_block, next, current_block_num, heap, block, size>>
  BY <1>1 DEF Memory!Take, Memory!Available, Memory!Goto, Memory!pool, MemoryInv, Kept
<1>3. \A u \in Memory!Thread : m_pc[u] = "idle"
  BY <1>2 DEF MemoryInv, MemoryAt
<1>4. PICK a : a = [local[t] EXCEPT !.list = p]
  OBVIOUS
<1>5. /\ local[t] \in [list : Memory!Pin, block : Block \cup {NoOwner}, number : Int]
      /\ local \in [Memory!Thread -> [list : Memory!Pin, block : Block \cup {NoOwner}, number : Int]]
  BY DEF MemoryInv, MemoryTyped
<1>6. /\ a \in [list : Memory!Pin, block : Block \cup {NoOwner}, number : Int] /\ a.list = p
      /\ local' = [local EXCEPT ![t] = a]
  BY <1>2, <1>4, <1>5
<1>7. local' \in [Memory!Thread -> [list : Memory!Pin, block : Block \cup {NoOwner}, number : Int]]
  BY <1>5, <1>6
<1>8. l \in MemoryPlaces \ Counting /\ l \notin {"malloc", "unlink", "free", "link", "give", "idle"}
  BY DEF MemoryPlaces, Counting
<1>9. MemoryTyped'
  BY <1>2, <1>7, <1>8 DEF MemoryInv, MemoryTyped
<1>10. Kept(p)' /\ Counted'
  BY <1>2, <1>3 DEF MemoryInv, Kept, Counted, Counting
<1>11. MemoryAt(l, a, p)'
  BY <1>2, <1>6, <1>8 DEF MemoryInv, MemoryTyped, MemoryAt, Counting
<1>12. MemoryStep(t, l, a, p)
  BY <1>2, <1>6, <1>9, <1>10, <1>11 DEF MemoryStep
<1>. QED
  BY <1>3, <1>8, <1>12, MemoryMoves

Locals == [list : Memory!Pin, block : Block \cup {NoOwner}, number : Int]

\* What is so when the thread t works in the pool.
LEMMA AtWork ==
  ASSUME NEW p \in Memory!Pin, MemoryInv(p), NEW t \in Memory!Thread, m_pc[t] # "idle"
  PROVE  /\ \A u \in Memory!Thread \ {t} : m_pc[u] = "idle"
         /\ taken[p] /\ Memory!Mine(t) = p
         /\ MemoryTyped /\ Kept(p) /\ MemoryAt(m_pc[t], local[t], p)
         /\ m_pc[t] \notin Counting => Counted
         /\ local[t] \in Locals /\ local \in [Memory!Thread -> Locals]
<1>1. \A u \in Memory!Thread \ {t} : m_pc[u] = "idle"
  BY OneInMemory
<1>2. m_pc[t] \notin Counting => \A u \in Memory!Thread : m_pc[u] \notin Counting
  BY <1>1 DEF Counting
<1>. QED
  BY <1>1, <1>2, OneInMemory DEF MemoryInv, MemoryTyped, Locals, Memory!Mine

\* A block of the list is pushed to or popped from, and the list given back.
LEMMA SizeKeepsMemory ==
  ASSUME NEW p \in Memory!Pin, MemoryInv(p), NEW t \in Memory!Thread,
         Memory!PushToBlock(t) \/ Memory!PopFromBlock(t)
  PROVE  MemoryInv(p)'
<1>1. m_pc[t] \in {"push", "pop"}
  BY DEF Memory!PushToBlock, Memory!PopFromBlock
<1>2. PICK a : a = local[t]
  OBVIOUS
<1>3. /\ \A u \in Memory!Thread \ {t} : m_pc[u] = "idle"
      /\ Memory!Mine(t) = p
      /\ MemoryTyped /\ Kept(p) /\ MemoryAt(m_pc[t], a, p) /\ Counted
      /\ local \in [Memory!Thread -> Locals]
  BY <1>1, <1>2, AtWork DEF Counting
<1>4. /\ UNCHANGED <<Pins, first_block, next, current_block_num, heap, block, local>>
      /\ taken' = [taken EXCEPT ![p] = FALSE] /\ m_pc' = [m_pc EXCEPT ![t] = "idle"]
      /\ \/ block[p] # NoOwner /\ size' = [size EXCEPT ![p] = @ + 1]
         \/ size[p] > 1 /\ size' = [size EXCEPT ![p] = @ + -1]
  BY <1>3 DEF Memory!PushToBlock, Memory!PopFromBlock, Memory!Resize, Memory!Release,
              Memory!Goto, Memory!pool
<1>5. \A q \in Memory!Pin : size[q] \in Nat /\ (block[q] = NoOwner <=> size[q] = 0)
  BY <1>3 DEF MemoryTyped, Kept
<1>6. /\ size' \in [Memory!Pin -> Nat]
      /\ \A q \in Memory!Pin : size'[q] = 0 <=> size[q] = 0
  BY <1>3, <1>4, <1>5 DEF MemoryTyped
<1>7. "idle" \in MemoryPlaces \ Counting
  BY DEF MemoryPlaces, Counting
<1>8. MemoryTyped' /\ Kept(p)' /\ Counted' /\ MemoryAt("idle", a, p)'
  BY <1>3, <1>4, <1>6, <1>7 DEF MemoryTyped, Kept, Counted, MemoryAt, Counting
<1>9. local' = [local EXCEPT ![t] = a]
  BY <1>2, <1>3, <1>4
<1>10. MemoryStep(t, "idle", a, p)
  BY <1>4, <1>8, <1>9 DEF MemoryStep
<1>. QED
  BY <1>3, <1>7, <1>10, MemoryMoves

\* memory_pool_alloc, from the look at the first block on.
LEMMA AllocKeepsMemory ==
  ASSUME NEW p \in Memory!Pin, MemoryInv(p), NEW t \in Memory!Thread,
         Memory!LookUp(t) \/ Memory!Unlink(t) \/ Memory!CountDown(t) \/ Memory!Malloc(t)
  PROVE  MemoryInv(p)'
<1>1. m_pc[t] \in {"push", "unlink", "write down", "malloc"}
  BY DEF Memory!LookUp, Memory!Unlink, Memory!CountDown, Memory!Malloc
<1>2. PICK a : a = local[t]
  OBVIOUS
<1>3. /\ \A u \in Memory!Thread \ {t} : m_pc[u] = "idle"
      /\ taken[p] /\ Memory!Mine(t) = p /\ a \in Locals /\ NoOwner \notin Block
      /\ MemoryTyped /\ Kept(p) /\ MemoryAt(m_pc[t], a, p)
      /\ m_pc[t] \notin Counting => Counted
      /\ local \in [Memory!Thread -> Locals]
  BY <1>1, <1>2, AtWork, PartsAssumption
<1>4. local' = local => local' = [local EXCEPT ![t] = a]
  BY <1>2, <1>3
<1>5. \A l \in {"malloc", "unlink", "idle", "count down"} : l \in MemoryPlaces
  BY DEF MemoryPlaces, Counting
\* object_pool_alloc has the block b, and the list gets its first element.
<1>6. ASSUME NEW b \in Block, b # first_block', b \notin heap', heap' \subseteq heap,
             Memory!Attach(t, b), block[p] = NoOwner, Counted', MemoryTyped, Kept(p),
             current_block_num' \in Int, UNCHANGED <<Pins, first_block, next, local>>
      PROVE  MemoryInv(p)'
  <2>1. /\ block' = [block EXCEPT ![p] = b] /\ size' = [size EXCEPT ![p] = @ + 1]
        /\ taken' = [taken EXCEPT ![p] = FALSE] /\ m_pc' = [m_pc EXCEPT ![t] = "idle"]
    BY <1>3, <1>6 DEF Memory!Attach, Memory!Resize, Memory!Release, Memory!Goto
  <2>2. size[p] = 0 /\ size'[p] = 1 /\ size' \in [Memory!Pin -> Nat]
    BY <1>6, <2>1 DEF MemoryTyped, Kept
  <2>3. MemoryTyped'
    BY <1>5, <1>6, <2>1, <2>2 DEF MemoryTyped
  <2>4. Kept(p)' /\ MemoryAt("idle", a, p)'
    <3>1. block'[p] = b /\ b # NoOwner
      BY <1>3, <1>6, <2>1 DEF MemoryTyped
    <3>2. \A q \in Memory!Pin \ {p} : block'[q] = block[q] /\ size'[q] = size[q]
      BY <1>6, <2>1 DEF MemoryTyped
    <3>3. \A q \in Memory!Pin : /\ block'[q] = NoOwner <=> size'[q] = 0
                                /\ q # p => block'[q] = NoOwner
      BY <1>6, <2>2, <3>1, <3>2 DEF Kept
    <3>. QED
      BY <1>6, <3>1, <3>3 DEF Kept, MemoryAt
  <2>5. MemoryStep(t, "idle", a, p)
    BY <1>4, <1>6, <2>1, <2>3, <2>4 DEF MemoryStep
  <2>. QED
    BY <1>3, <1>5, <2>5, MemoryMoves
<1>7. CASE Memory!LookUp(t)
  <2>1. PICK l \in {"malloc", "unlink"} :
          l = (IF first_block = NoOwner THEN "malloc" ELSE "unlink") /\ m_pc' = [m_pc EXCEPT ![t] = l]
    BY <1>7 DEF Memory!LookUp, Memory!Goto
  <2>2. /\ block[p] = NoOwner /\ m_pc[t] = "push"
        /\ local' = [local EXCEPT ![t].block = first_block]
        /\ UNCHANGED <<Pins, first_block, next, current_block_num, heap, block, size, taken>>
    BY <1>3, <1>7 DEF Memory!LookUp, Memory!pool, Memory!lists
  <2>3. PICK c : c = [a EXCEPT !.block = first_block]
    OBVIOUS
  <2>4. /\ c \in Locals /\ c.list = p /\ c.block = first_block
        /\ local' = [local EXCEPT ![t] = c] /\ local' \in [Memory!Thread -> Locals]
    <3>1. local[t] = a /\ a.list = p /\ first_block \in Block \cup {NoOwner}
      BY <1>2, <1>3, <2>2 DEF MemoryAt, MemoryTyped
    <3>2. c \in Locals /\ c.list = p /\ c.block = first_block
      BY <1>3, <2>3, <3>1 DEF Locals
    <3>. QED
      BY <1>3, <2>2, <2>3, <3>1, <3>2
  <2>5. MemoryTyped'
    BY <1>3, <1>5, <2>1, <2>2, <2>4 DEF MemoryTyped, Locals
  <2>6. Kept(p)' /\ Counted'
    BY <1>3, <2>2 DEF Kept, Counted, Counting
  <2>7. MemoryAt(l, c, p)'
    BY <1>3, <2>1, <2>2, <2>4 DEF MemoryAt, MemoryTyped
  <2>8. MemoryStep(t, l, c, p)
    BY <2>1, <2>4, <2>5, <2>6, <2>7 DEF MemoryStep
  <2>. QED
    BY <1>3, <1>5, <2>1, <2>8, MemoryMoves
<1>8. CASE Memory!Unlink(t)
  <2>1. /\ m_pc[t] = "unlink" /\ m_pc' = [m_pc EXCEPT ![t] = "count down"]
        /\ first_block' = next[a.block]
        /\ UNCHANGED <<Pins, next, current_block_num, heap, block, size, taken, local>>
    BY <1>2, <1>8 DEF Memory!Unlink, Memory!Goto, Memory!lists
  <2>2. /\ a.block \in Block /\ first_block = a.block /\ a.block \notin heap
        /\ block[p] = NoOwner /\ first_block' = NoOwner /\ current_block_num = 1
    BY <1>3, <2>1 DEF MemoryAt, Kept, Counted, Counting
  <2>3. MemoryTyped' /\ Kept(p)'
    BY <1>3, <1>5, <2>1, <2>2 DEF MemoryTyped, Kept
  <2>4. MemoryAt("count down", a, p)'
    BY <1>3, <2>1, <2>2 DEF MemoryAt
  <2>5. MemoryStep(t, "count down", a, p)
    BY <1>4, <2>1, <2>3, <2>4 DEF MemoryStep, Counting
  <2>. QED
    BY <1>3, <1>5, <2>5, MemoryMoves
<1>9. CASE Memory!CountDown(t)
  <2>1. /\ m_pc[t] = "write down" /\ current_block_num' = a.number - 1
        /\ Memory!Attach(t, a.block) /\ UNCHANGED <<Pins, first_block, next, heap, local>>
    BY <1>2, <1>9 DEF Memory!CountDown
  <2>2. /\ a.block \in Block /\ first_block = NoOwner /\ a.block \notin heap
        /\ block[p] = NoOwner /\ a.number = 1
    BY <1>3, <2>1 DEF MemoryAt
  <2>3. Counted' /\ current_block_num' \in Int
    <3>1. current_block_num' = a.number - 1 /\ a.number = 1 /\ first_block' = NoOwner
      BY <2>1, <2>2
    <3>2. current_block_num' = 0
      BY <3>1
    <3>. QED
      BY <3>1, <3>2 DEF Counted
  <2>4. a.block # first_block' /\ a.block \notin heap' /\ heap' \subseteq heap
    BY <1>3, <2>1, <2>2
  <2>. QED
    BY <1>3, <1>6, <2>1, <2>2, <2>3, <2>4
<1>10. CASE Memory!Malloc(t)
  <2>1. PICK b \in heap : heap' = heap \ {b} /\ Memory!Attach(t, b)
    BY <1>10 DEF Memory!Malloc
  <2>2. m_pc[t] = "malloc" /\ UNCHANGED <<Pins, first_block, next, current_block_num, local>>
    BY <1>10 DEF Memory!Malloc
  <2>3. b \in Block /\ first_block = NoOwner /\ block[p] = NoOwner /\ current_block_num = 0
    BY <1>3, <2>1, <2>2 DEF MemoryTyped, MemoryAt, Counted, Counting
  <2>4. Counted'
    BY <2>2, <2>3 DEF Counted
  <2>. QED
    BY <1>3, <1>6, <2>1, <2>2, <2>3, <2>4
<1>. QED
  BY <1>7, <1>8, <1>9, <1>10

\* --pool->current_block_num and ++pool->current_block_num, the read.
LEMMA ReadKeepsMemory ==
  ASSUME NEW p \in Memory!Pin, MemoryInv(p), NEW t \in Memory!Thread, Memory!ReadCount(t)
  PROVE  MemoryInv(p)'
<1>1. PICK l \in {"write down", "write up"} : /\ m_pc' = [m_pc EXCEPT ![t] = l]
                                              /\ m_pc[t] = IF l = "write down" THEN "count down" ELSE "count up"
  BY DEF Memory!ReadCount, Memory!Goto
<1>2. PICK a : a = local[t]
  OBVIOUS
<1>3. /\ \A u \in Memory!Thread \ {t} : m_pc[u] = "idle"
      /\ a \in Locals /\ MemoryTyped /\ Kept(p) /\ MemoryAt(m_pc[t], a, p)
      /\ local \in [Memory!Thread -> Locals]
  BY <1>1, <1>2, AtWork
<1>4. /\ local' = [local EXCEPT ![t].number = current_block_num]
      /\ UNCHANGED <<Pins, first_block, next, current_block_num, heap, block, size, taken>>
  BY DEF Memory!ReadCount, Memory!pool, Memory!lists
<1>5. PICK c : c = [a EXCEPT !.number = current_block_num]
  OBVIOUS
<1>6. /\ c \in Locals /\ c.list = a.list /\ c.block = a.block /\ c.number = current_block_num
      /\ local' = [local EXCEPT ![t] = c] /\ local' \in [Memory!Thread -> Locals]
  <2>1. c \in Locals /\ c.list = a.list /\ c.block = a.block /\ c.number = current_block_num
    BY <1>3, <1>5 DEF Locals, MemoryTyped
  <2>. QED
    BY <1>2, <1>3, <1>4, <1>5, <2>1
<1>7. l \in MemoryPlaces /\ l \in Counting
  BY DEF MemoryPlaces, Counting
<1>8. MemoryTyped' /\ Kept(p)'
  BY <1>1, <1>3, <1>4, <1>6, <1>7 DEF MemoryTyped, Kept, Locals
<1>9. MemoryAt(l, c, p)'
  BY <1>1, <1>3, <1>4, <1>6 DEF MemoryAt
<1>10. MemoryStep(t, l, c, p)
  BY <1>1, <1>6, <1>7, <1>8, <1>9 DEF MemoryStep
<1>. QED
  BY <1>3, <1>7, <1>10, MemoryMoves

\* memory_pool_free.
LEMMA FreeKeepsMemory ==
  ASSUME NEW p \in Memory!Pin, MemoryInv(p), NEW t \in Memory!Thread,
         \/ Memory!GiveBack(t) \/ Memory!Free(t) \/ Memory!Link(t) \/ Memory!Give(t)
         \/ Memory!CountUp(t)
  PROVE  MemoryInv(p)'
<1>1. m_pc[t] \in {"pop", "free", "link", "give", "write up"}
  BY DEF Memory!GiveBack, Memory!Free, Memory!Link, Memory!Give, Memory!CountUp
<1>2. PICK a : a = local[t]
  OBVIOUS
<1>3. /\ \A u \in Memory!Thread \ {t} : m_pc[u] = "idle"
      /\ taken[p] /\ Memory!Mine(t) = p /\ a \in Locals /\ NoOwner \notin Block
      /\ MemoryTyped /\ Kept(p) /\ MemoryAt(m_pc[t], a, p)
      /\ m_pc[t] \notin Counting => Counted
      /\ local \in [Memory!Thread -> Locals]
  BY <1>1, <1>2, AtWork, PartsAssumption
<1>4. local' = local => local' = [local EXCEPT ![t] = a]
  BY <1>2, <1>3
<1>5. \A l \in {"free", "link", "idle", "give", "count up"} : l \in MemoryPlaces
  BY DEF MemoryPlaces, Counting
<1>6. CASE Memory!GiveBack(t)
  <2>1. PICK l \in {"free", "link"} :
          l = (IF current_block_num = 1 THEN "free" ELSE "link") /\ m_pc' = [m_pc EXCEPT ![t] = l]
    BY <1>6 DEF Memory!GiveBack, Memory!Goto, Memory!MaxBlockNum
  <2>2. /\ m_pc[t] = "pop" /\ size[p] = 1 /\ local' = [local EXCEPT ![t].block = block[p]]
        /\ block' = [block EXCEPT ![p] = NoOwner] /\ size' = [size EXCEPT ![p] = @ + -1]
        /\ UNCHANGED <<Pins, first_block, next, current_block_num, heap, taken>>
    BY <1>3, <1>6 DEF Memory!GiveBack, Memory!Resize, Memory!pool
  <2>3. block[p] \in Block /\ block[p] \notin heap \cup {first_block}
    BY <1>3, <2>2 DEF MemoryTyped, Kept
  <2>4. PICK c : c = [a EXCEPT !.block = block[p]]
    OBVIOUS
  <2>5. /\ c \in Locals /\ c.list = p /\ c.block = block[p]
        /\ local' = [local EXCEPT ![t] = c] /\ local' \in [Memory!Thread -> Locals]
    <3>1. local[t] = a /\ a.list = p
      BY <1>2, <1>3, <2>2 DEF MemoryAt
    <3>2. c \in Locals /\ c.list = p /\ c.block = block[p]
      BY <1>3, <2>3, <2>4, <3>1 DEF Locals
    <3>. QED
      BY <1>3, <2>2, <2>4, <3>1, <3>2
  <2>6. size' \in [Memory!Pin -> Nat] /\ size'[p] = 0 /\ block'[p] = NoOwner
    BY <1>3, <2>2 DEF MemoryTyped
  <2>7. MemoryTyped'
    BY <1>3, <1>5, <2>1, <2>2, <2>5, <2>6 DEF MemoryTyped, Locals
  <2>8. Kept(p)' /\ Counted'
    BY <1>3, <2>2, <2>6 DEF MemoryTyped, Kept, Counted, Counting
  <2>9. current_block_num # 1 => first_block = NoOwner
    BY <1>3, <2>2 DEF Counted, Counting
  <2>10. MemoryAt(l, c, p)'
    BY <1>3, <2>1, <2>2, <2>3, <2>5, <2>6, <2>9 DEF MemoryAt
  <2>11. MemoryStep(t, l, c, p)
    BY <2>1, <2>5, <2>7, <2>8, <2>10 DEF MemoryStep
  <2>. QED
    BY <1>3, <1>5, <2>1, <2>11, MemoryMoves
<1>7. CASE Memory!Free(t)
  <2>1. /\ m_pc[t] = "free" /\ m_pc' = [m_pc EXCEPT ![t] = "idle"]
        /\ heap' = heap \cup {a.block} /\ taken' = [taken EXCEPT ![p] = FALSE]
        /\ UNCHANGED <<Pins, first_block, next, current_block_num, block, size, local>>
    BY <1>2, <1>3, <1>7 DEF Memory!Free, Memory!Goto, Memory!Release
  <2>2. a.block \in Block /\ a.block # first_block /\ block[p] = NoOwner
    BY <1>3, <2>1 DEF MemoryAt
  <2>3. MemoryTyped' /\ Kept(p)' /\ Counted'
    BY <1>3, <1>5, <2>1, <2>2 DEF MemoryTyped, Kept, Counted, Counting
  <2>4. MemoryAt("idle", a, p)'
    BY DEF MemoryAt
  <2>5. MemoryStep(t, "idle", a, p)
    BY <1>4, <2>1, <2>3, <2>4 DEF MemoryStep
  <2>. QED
    BY <1>3, <1>5, <2>5, MemoryMoves
<1>8. CASE Memory!Link(t)
  <2>1. /\ m_pc[t] = "link" /\ m_pc' = [m_pc EXCEPT ![t] = "give"]
        /\ next' = [next EXCEPT ![a.block] = first_block]
        /\ UNCHANGED <<Pins, first_block, current_block_num, heap, block, size, taken, local>>
    BY <1>2, <1>8 DEF Memory!Link, Memory!Goto, Memory!lists
  <2>2. a.block \in Block /\ first_block = NoOwner
    BY <1>3, <2>1 DEF MemoryAt
  <2>3. MemoryTyped' /\ Kept(p)' /\ Counted'
    BY <1>3, <1>5, <2>1, <2>2 DEF MemoryTyped, Kept, Counted, Counting
  <2>4. MemoryAt("give", a, p)'
    BY <1>3, <2>1, <2>2 DEF MemoryTyped, MemoryAt
  <2>5. MemoryStep(t, "give", a, p)
    BY <1>4, <2>1, <2>3, <2>4 DEF MemoryStep
  <2>. QED
    BY <1>3, <1>5, <2>5, MemoryMoves
<1>9. CASE Memory!Give(t)
  <2>1. /\ m_pc[t] = "give" /\ m_pc' = [m_pc EXCEPT ![t] = "count up"]
        /\ first_block' = a.block
        /\ UNCHANGED <<Pins, next, current_block_num, heap, block, size, taken, local>>
    BY <1>2, <1>9 DEF Memory!Give, Memory!Goto, Memory!lists
  <2>2. /\ a.block \in Block /\ a.block \notin heap /\ block[p] = NoOwner
        /\ next[a.block] = NoOwner /\ current_block_num = 0
    BY <1>3, <2>1 DEF MemoryAt, Counted, Counting
  <2>3. MemoryTyped' /\ Kept(p)'
    BY <1>3, <1>5, <2>1, <2>2 DEF MemoryTyped, Kept
  <2>4. MemoryAt("count up", a, p)'
    BY <1>3, <2>1, <2>2 DEF MemoryAt
  <2>5. MemoryStep(t, "count up", a, p)
    BY <1>4, <2>1, <2>3, <2>4 DEF MemoryStep, Counting
  <2>. QED
    BY <1>3, <1>5, <2>5, MemoryMoves
<1>10. CASE Memory!CountUp(t)
  <2>1. /\ m_pc[t] = "write up" /\ m_pc' = [m_pc EXCEPT ![t] = "idle"]
        /\ current_block_num' = a.number + 1 /\ taken' = [taken EXCEPT ![p] = FALSE]
        /\ UNCHANGED <<Pins, first_block, next, heap, block, size, local>>
    BY <1>2, <1>3, <1>10 DEF Memory!CountUp, Memory!Goto, Memory!Release
  <2>2. a.block \in Block /\ first_block = a.block /\ a.number = 0
    BY <1>3, <2>1 DEF MemoryAt
  <2>3. current_block_num' = 1
    <3>1. current_block_num' = a.number + 1 /\ a.number = 0
      BY <2>1, <2>2
    <3>. QED
      BY <3>1
  <2>4. MemoryTyped' /\ Kept(p)' /\ Counted'
    <3>1. first_block' # NoOwner /\ current_block_num' = 1
      BY <1>3, <2>1, <2>2, <2>3
    <3>2. m_pc' \in [Memory!Thread -> MemoryPlaces] /\ taken' \in [Memory!Pin -> BOOLEAN]
      BY <1>3, <1>5, <2>1 DEF MemoryTyped
    <3>3. UNCHANGED <<Pins, first_block, next, heap, block, size, local>>
      BY <2>1
    <3>4. current_block_num' \in Int
      BY <3>1
    <3>5. MemoryTyped'
      BY <1>3, <3>2, <3>3, <3>4 DEF MemoryTyped
    <3>6. Kept(p)'
      BY <1>3, <3>3 DEF Kept
    <3>. QED
      BY <3>1, <3>5, <3>6 DEF Counted
  <2>5. MemoryAt("idle", a, p)'
    BY DEF MemoryAt
  <2>6. MemoryStep(t, "idle", a, p)
    BY <1>4, <2>1, <2>4, <2>5 DEF MemoryStep
  <2>. QED
    BY <1>3, <1>5, <2>6, MemoryMoves
<1>. QED
  BY <1>6, <1>7, <1>8, <1>9, <1>10

LEMMA NextMemory ==
  ASSUME NEW p \in Memory!Pin, MemoryInv(p), [Memory!Next]_memory
  PROVE  MemoryInv(p)'
<1>1. CASE UNCHANGED memory
  BY <1>1 DEF memory, MemoryInv, MemoryTyped, Kept, Counted, MemoryAt
<1>2. CASE Memory!Next
  BY <1>2, TakeKeepsMemory, SizeKeepsMemory, AllocKeepsMemory, ReadKeepsMemory, FreeKeepsMemory
  DEF Memory!Next
<1>. QED
  BY <1>1, <1>2

LEMMA InitMemory == MCInit => \E p \in Memory!Pin : MemoryInv(p)
<1>. SUFFICES ASSUME MCInit PROVE \E p \in Memory!Pin : MemoryInv(p)
  OBVIOUS
<1>1. Memory!Init
  BY DEF MCInit
<1>2. PICK p \in Memory!Pin : Pins = {p}
  BY <1>1, PartsAssumption DEF Memory!Init, Memory!Pin
<1>3. /\ first_block = NoOwner /\ next = [b \in Block |-> NoOwner] /\ current_block_num = 0
      /\ taken = [q \in Memory!Pin |-> FALSE] /\ m_pc = [t \in Memory!Thread |-> "idle"]
      /\ local = [t \in Memory!Thread |-> [list |-> "input", block |-> NoOwner, number |-> 0]]
  BY <1>1 DEF Memory!Init
<1>4. /\ size \in [Memory!Pin -> Nat]
      /\ \A q \in Memory!Pin : q # p => size[q] = 0
      /\ "output" \notin Pins => \A q \in Memory!Pin : size[q] = 0
  BY <1>1, <1>2, PartsAssumption DEF Memory!Init
<1>5. PICK b \in Block : /\ block = [q \in Memory!Pin |-> IF size[q] = 0 THEN NoOwner ELSE b]
                         /\ heap = IF "output" \in Pins THEN Block \ {b} ELSE Block
  BY <1>1 DEF Memory!Init
<1>6. NoOwner \notin Block
  BY PartsAssumption
<1>7. MemoryTyped
  BY <1>3, <1>4, <1>5 DEF MemoryTyped, MemoryPlaces, Memory!Pin
<1>8. Kept(p)
  BY <1>2, <1>3, <1>4, <1>5, <1>6 DEF Kept
<1>9. \A t \in Memory!Thread : MemoryAt(m_pc[t], local[t], p)
  BY <1>3 DEF MemoryAt
<1>. QED
  BY <1>3, <1>7, <1>8, <1>9 DEF MemoryInv, Counted

-----------------------------------------------------------------------------
(* A step of one part leaves the others as they are.                       *)
LEMMA StepOfParts ==
  [MCNext]_mcVars => /\ [Group!Next]_grouped /\ [Inputs!Next]_inputs
                     /\ [Stack!PoolNext]_stack /\ [Memory!Next]_memory
BY DEF MCNext, mcVars, OfEvent, OfGroup, OfWindows, OfProcessor, OfStack, OfInputs, OfMemory

(* No thread that waits at an event group, and no procedure that waits for  *)
(* its inputs, sleeps while there is something for it: for any threads, any *)
(* elements and any number and order of inputs.                             *)
THEOREM Sleepless == MCSpec => []NoWaitMissed
<1> DEFINE Inv == GroupInv /\ InputsInv
<1>1. MCInit => Inv
  BY InitGroup, InitInputs DEF MCInit
<1>2. Inv /\ [MCNext]_mcVars => Inv'
  BY StepOfParts, NextGroup, NextInputs
<1>3. Inv => NoWaitMissed
  BY GroupSleepers, InputsSeen DEF NoWaitMissed
<1>. HIDE DEF Inv
<1>. QED
  BY <1>1, <1>2, <1>3, PTL DEF MCSpec

(* A thread of the pool has one holder and sleeps while it is in the pool;  *)
(* a memory pool with one list counts its blocks and hands none out twice:  *)
(* for any users, threads and size of the pool, and any blocks and number   *)
(* of buffers.                                                              *)
THEOREM Whole == MCSpec => []PoolsSound
<1> DEFINE Inv == StackInv /\ \E p \in Memory!Pin : MemoryInv(p)
<1>1. MCInit => Inv
  BY InitStack, InitMemory
<1>2. Inv /\ [MCNext]_mcVars => Inv'
  <2>. SUFFICES ASSUME Inv, [MCNext]_mcVars PROVE Inv'
    OBVIOUS
  <2>1. StackInv'
    BY StepOfParts, NextStack
  <2>2. PICK p \in Memory!Pin : MemoryInv(p)
    OBVIOUS
  <2>3. MemoryInv(p)'
    BY <2>2, StepOfParts, NextMemory
  <2>. QED
    BY <2>1, <2>3
<1>3. Inv => PoolsSound
  BY StackHolds, MemoryHolds DEF PoolsSound
<1>. HIDE DEF Inv
<1>. QED
  BY <1>1, <1>2, <1>3, PTL DEF MCSpec

-----------------------------------------------------------------------------
(* The group on Windows, as that of POSIX sees it.                          *)
WindowsTyped == /\ pending \in Nat /\ w_event \in BOOLEAN
                /\ w_pc \in [OneThread -> {"out", "testing", "waiting", "awake"}]
AsPosix == [t \in OneThread |->
              IF w_pc[t] = "out" THEN "out"
              ELSE IF w_pc[t] = "waiting" /\ ~w_event /\ pending = 0 THEN "asleep"
              ELSE "testing"]

LEMMA SameGroup ==
  ASSUME NEW g, NEW e
  PROVE  /\ Windows!Present(g) = Windows!Posix!Present(g)
         /\ Windows!SetElements(g) = Windows!Posix!SetElements(g)
         /\ Windows!FirstSet(g) = Windows!Posix!FirstSet(g)
         /\ Windows!GroupAdd(g, e) = Windows!Posix!GroupAdd(g, e)
         /\ Windows!GroupRemove(g, e) = Windows!Posix!GroupRemove(g, e)
         /\ Windows!GroupSet(g, e) = Windows!Posix!GroupSet(g, e)
         /\ Windows!GroupReset(g, e) = Windows!Posix!GroupReset(g, e)
<1>1. Windows!Present(g) = Windows!Posix!Present(g)
  BY DEF Windows!Present, Windows!Posix!Present, Windows!ToSet, Windows!Posix!ToSet
<1>2. Windows!SetElements(g) = Windows!Posix!SetElements(g)
  BY <1>1 DEF Windows!SetElements, Windows!Posix!SetElements
<1>3. Windows!FirstSet(g) = Windows!Posix!FirstSet(g)
  BY DEF Windows!FirstSet, Windows!Posix!FirstSet
<1>4. Windows!GroupAdd(g, e) = Windows!Posix!GroupAdd(g, e)
  BY DEF Windows!GroupAdd, Windows!Posix!GroupAdd
<1>5. \A q : Windows!RemoveFirst(q, e) = Windows!Posix!RemoveFirst(q, e)
  BY DEF Windows!RemoveFirst, Windows!Posix!RemoveFirst, Windows!RemoveAt, Windows!Posix!RemoveAt,
         Windows!SelectInSeq, Windows!Posix!SelectInSeq, Windows!Min, Windows!Posix!Min
<1>6. Windows!GroupRemove(g, e) = Windows!Posix!GroupRemove(g, e)
  BY <1>5 DEF Windows!GroupRemove, Windows!Posix!GroupRemove
<1>7. Windows!GroupSet(g, e) = Windows!Posix!GroupSet(g, e)
  BY DEF Windows!GroupSet, Windows!Posix!GroupSet
<1>8. Windows!GroupReset(g, e) = Windows!Posix!GroupReset(g, e)
  BY DEF Windows!GroupReset, Windows!Posix!GroupReset
<1>. QED
  BY <1>1, <1>2, <1>3, <1>4, <1>6, <1>7, <1>8

LEMMA OwnerAsPosix ==
  ASSUME WindowsTyped, Windows!Owner PROVE Windows!Posix!Owner
<1>1. CASE Windows!AddElement
  <2>1. AsPosix' = AsPosix
    BY <1>1 DEF Windows!AddElement, AsPosix
  <2>. QED
    BY <1>1, <2>1, SameGroup
    DEF Windows!Posix!Owner, Windows!Posix!AddElement, Windows!AddElement, AsPosix
<1>2. CASE Windows!TryWaitForAny
  <2>1. AsPosix' = AsPosix
    BY <1>2 DEF Windows!TryWaitForAny, AsPosix
  <2>. QED
    BY <1>2, <2>1, SameGroup
    DEF Windows!Posix!Owner, Windows!Posix!TryWaitForAny, Windows!TryWaitForAny, AsPosix
<1>3. ASSUME NEW e \in Element, Windows!ResetElement(e) \/ Windows!TryWaitForElement(e)
      PROVE  Windows!Posix!Owner
  <2>1. AsPosix' = AsPosix
    BY <1>3 DEF Windows!ResetElement, Windows!TryWaitForElement, AsPosix
  <2>. QED
    BY <1>3, <2>1, SameGroup
    DEF Windows!Posix!Owner, Windows!Posix!ResetElement, Windows!ResetElement,
        Windows!Posix!TryWaitForElement, Windows!TryWaitForElement, AsPosix
\* The call announces SetEvent, and from then on the group is not asleep.
<1>4. pending' = pending + 1 /\ UNCHANGED <<w_event, w_pc>> => Windows!Posix!WakeAll
  BY DEF WindowsTyped, Windows!Posix!WakeAll
<1>5. ASSUME NEW e \in Element, Windows!SetElement(e) PROVE Windows!Posix!Owner
  <2>1. Windows!Posix!SetElement(e)
    BY <1>4, <1>5, SameGroup DEF Windows!SetElement, Windows!Posix!SetElement
  <2>. QED
    BY <2>1 DEF Windows!Posix!Owner
<1>6. ASSUME NEW e \in Element, Windows!RemoveElement(e) PROVE Windows!Posix!Owner
  <2>1. \A t \in OneThread : AsPosix[t] # "out" => w_iter[t] # e
    BY <1>6 DEF Windows!RemoveElement, AsPosix
  <2>2. Windows!Posix!RemoveElement(e)
    BY <1>4, <1>6, <2>1, SameGroup DEF Windows!RemoveElement, Windows!Posix!RemoveElement, AsPosix
  <2>. QED
    BY <2>2 DEF Windows!Posix!Owner
<1>. QED
  BY <1>1, <1>2, <1>3, <1>5, <1>6 DEF Windows!Owner

\* The one thread that waits goes on to where POSIX has it at the place.
LEMMA WaiterMoves ==
  ASSUME WindowsTyped, NEW t \in OneThread, NEW place,
         place = AsPosix'[t]
  PROVE  AsPosix' = [AsPosix EXCEPT ![t] = place]
<1>1. \A u \in OneThread : u = t
  BY PartsAssumption
<1>. QED
  BY <1>1 DEF AsPosix

LEMMA CallAsPosix ==
  ASSUME WindowsTyped, NEW t \in OneThread, Windows!CallWait(t)
  PROVE  Windows!Posix!CallWait(t)
<1>1. w_pc[t] = "out" /\ w_pc'[t] = "testing"
  BY DEF WindowsTyped, Windows!CallWait, Windows!Goto
<1>2. AsPosix[t] = "out" /\ AsPosix'[t] = "testing"
  BY <1>1 DEF AsPosix
<1>3. AsPosix' = [AsPosix EXCEPT ![t] = "testing"]
  BY <1>2, WaiterMoves
<1>. QED
  BY <1>2, <1>3, SameGroup DEF Windows!CallWait, Windows!Posix!CallWait, Windows!Posix!Goto, AsPosix,
     Windows!NoElement, Windows!Posix!NoElement

LEMMA WaiterAsPosix ==
  ASSUME WindowsTyped, NEW t \in OneThread, Windows!Waiter(t)
  PROVE  Windows!Posix!Waiting(t) \/ UNCHANGED <<w_group, AsPosix, w_call, w_iter>>
<1>1. CASE Windows!Wakes(t) \/ Windows!Resets(t)
  <2>1. /\ UNCHANGED <<w_group, pending, w_call, w_iter>> /\ w_pc'[t] \in {"awake", "testing"}
        /\ w_pc[t] = "awake" \/ (w_pc[t] = "waiting" /\ w_event)
    BY <1>1 DEF Windows!Wakes, Windows!Resets, Windows!Goto, WindowsTyped
  <2>2. AsPosix'[t] = "testing" /\ AsPosix[t] = "testing"
    BY <2>1 DEF AsPosix
  <2>3. AsPosix' = [AsPosix EXCEPT ![t] = "testing"]
    BY <2>2, WaiterMoves
  <2>4. AsPosix' = AsPosix
    BY <2>2, <2>3 DEF AsPosix
  <2>. QED
    BY <2>1, <2>4
<1>2. CASE Windows!WaitForAny(t) \/ Windows!WaitForElement(t)
  <2>1. w_pc[t] = "testing" /\ AsPosix[t] = "testing"
    BY <1>2 DEF Windows!WaitForAny, Windows!WaitForElement, Windows!Testing, AsPosix
  <2>2. CASE w_pc' = [w_pc EXCEPT ![t] = "waiting"] /\ UNCHANGED <<w_group, w_event, pending, w_call, w_iter>>
    <3>1. CASE ~w_event /\ pending = 0
      <4>1. AsPosix'[t] = "asleep"
        BY <2>2, <3>1 DEF WindowsTyped, AsPosix
      <4>2. AsPosix' = [AsPosix EXCEPT ![t] = "asleep"]
        BY <4>1, WaiterMoves
      <4>3. Windows!Posix!Goto(t, "asleep")
        BY <4>2 DEF Windows!Posix!Goto, AsPosix
      <4>4. w_pc' # [w_pc EXCEPT ![t] = "out"]
        BY <2>2 DEF WindowsTyped
      <4>5. \/ /\ w_call[t] = "any" /\ Windows!Present(w_group) # {}
               /\ Windows!SetElements(w_group) = {}
            \/ w_call[t] = "one" /\ ~w_group.flag[w_iter[t]]
        BY <1>2, <4>4 DEF Windows!WaitForAny, Windows!WaitForElement, Windows!Testing,
                          Windows!Return, Windows!Goto
      <4>. QED
        BY <2>1, <2>2, <4>3, <4>5, SameGroup
        DEF Windows!Posix!Waiting, Windows!Posix!AnySleeps, Windows!Posix!ElementSleeps,
            Windows!Posix!Testing, Windows!Posix!Sleep, AsPosix
    <3>2. CASE w_event \/ pending # 0
      <4>1. AsPosix'[t] = "testing"
        BY <2>2, <3>2 DEF WindowsTyped, AsPosix
      <4>2. AsPosix' = [AsPosix EXCEPT ![t] = "testing"]
        BY <4>1, WaiterMoves
      <4>3. AsPosix' = AsPosix
        BY <2>1, <4>2 DEF AsPosix
      <4>. QED
        BY <2>2, <4>3
    <3>. QED
      BY <3>1, <3>2
  <2>3. CASE Windows!Return(t)
    <3>1. AsPosix'[t] = "out"
      BY <2>3 DEF Windows!Return, Windows!Goto, WindowsTyped, AsPosix
    <3>2. AsPosix' = [AsPosix EXCEPT ![t] = "out"]
      BY <3>1, WaiterMoves
    <3>3. Windows!Posix!Return(t)
      BY <2>3, <3>2 DEF Windows!Return, Windows!Posix!Return, Windows!Posix!Goto, AsPosix,
         Windows!NoElement, Windows!Posix!NoElement
    <3>4. w_pc' # [w_pc EXCEPT ![t] = "waiting"]
      BY <2>3 DEF WindowsTyped, Windows!Return, Windows!Goto
    <3>5. \/ /\ w_call[t] = "any" /\ Windows!Present(w_group) = {} /\ w_group' = w_group
          \/ /\ w_call[t] = "any" /\ Windows!SetElements(w_group) # {}
             /\ w_group' = Windows!GroupReset(w_group, Windows!FirstSet(w_group))
          \/ /\ w_call[t] = "one" /\ w_group.flag[w_iter[t]]
             /\ w_group' = Windows!GroupReset(w_group, w_iter[t])
      BY <1>2, <3>4 DEF Windows!WaitForAny, Windows!WaitForElement, Windows!Testing,
                        Windows!Sleep, Windows!Goto
    <3>. QED
      BY <2>1, <3>3, <3>5, SameGroup
      DEF Windows!Posix!Waiting, Windows!Posix!AnyFindsNoElement, Windows!Posix!AnyTakes,
          Windows!Posix!ElementTakes, Windows!Posix!Testing, AsPosix
  <2>. QED
    BY <1>2, <2>2, <2>3 DEF Windows!WaitForAny, Windows!WaitForElement, Windows!Sleep, Windows!Goto
<1>. QED
  BY <1>1, <1>2 DEF Windows!Waiter

LEMMA NextAsPosix == WindowsTyped /\ [Windows!Next]_windows => Windows!PosixStep
<1>. SUFFICES ASSUME WindowsTyped, [Windows!Next]_windows
              PROVE  \/ Windows!Posix!Next
                     \/ UNCHANGED <<w_group, AsPosix, w_call, w_iter>>
  BY DEF Windows!PosixStep, Windows!Posix!vars, AsPosix
<1>1. CASE UNCHANGED windows
  BY <1>1 DEF windows, AsPosix
<1>2. CASE Windows!Owner
  BY <1>2, OwnerAsPosix DEF Windows!Posix!Next
<1>3. CASE Windows!SetEvent
  BY <1>3 DEF Windows!SetEvent, AsPosix
<1>4. ASSUME NEW t \in OneThread, Windows!CallWait(t) PROVE Windows!Posix!Next
  BY <1>4, CallAsPosix DEF Windows!Posix!Next
<1>5. ASSUME NEW t \in OneThread, Windows!Waiter(t)
      PROVE  Windows!Posix!Next \/ UNCHANGED <<w_group, AsPosix, w_call, w_iter>>
  BY <1>5, WaiterAsPosix DEF Windows!Posix!Next
<1>. QED
  BY <1>1, <1>2, <1>3, <1>4, <1>5 DEF Windows!Next

LEMMA NextWindows == WindowsTyped /\ [Windows!Next]_windows => WindowsTyped'
<1>. SUFFICES ASSUME WindowsTyped, [Windows!Next]_windows PROVE WindowsTyped'
  OBVIOUS
<1>1. CASE UNCHANGED windows
  BY <1>1 DEF windows, WindowsTyped
<1>2. CASE Windows!Owner
  <2>1. UNCHANGED <<w_event, w_pc>> /\ pending' \in {pending, pending + 1}
    BY <1>2 DEF Windows!Owner, Windows!AddElement, Windows!TryWaitForAny, Windows!RemoveElement,
                Windows!SetElement, Windows!ResetElement, Windows!TryWaitForElement
  <2>. QED
    BY <2>1 DEF WindowsTyped
<1>3. CASE Windows!SetEvent
  BY <1>3 DEF Windows!SetEvent, WindowsTyped
<1>4. ASSUME NEW t \in OneThread, Windows!CallWait(t) \/ Windows!Waiter(t) PROVE WindowsTyped'
  <2>1. /\ UNCHANGED pending /\ w_event' \in {w_event, FALSE}
        /\ \E l \in {"out", "testing", "waiting", "awake"} : w_pc' = [w_pc EXCEPT ![t] = l]
    BY <1>4 DEF Windows!CallWait, Windows!Waiter, Windows!WaitForAny, Windows!WaitForElement,
                Windows!Wakes, Windows!Resets, Windows!Return, Windows!Sleep, Windows!Goto
  <2>. QED
    BY <2>1 DEF WindowsTyped
<1>. QED
  BY <1>1, <1>2, <1>3, <1>4 DEF Windows!Next

(* platforms/win32/synchronize.c: the event group that shares one event of  *)
(* Windows does what that of POSIX does, step by step, while one thread     *)
(* waits at it.                                                             *)
THEOREM WindowsIsPosix == MCSpec => ImplementsPosix
<1>1. MCInit => WindowsTyped
  <2>1. MCInit => Windows!Init
    BY DEF MCInit
  <2>2. Windows!Init => w_event \in BOOLEAN /\ pending \in Nat
    <3>1. Windows!Init => w_event = FALSE /\ pending = 0
      BY DEF Windows!Init
    <3>2. Windows!Init => pending \in Nat
      BY <3>1, SMT
    <3>3. Windows!Init => w_event \in BOOLEAN
      BY <3>1, Zenon
    <3>. QED
      BY <3>2, <3>3
  <2>3. Windows!Init => w_pc \in [OneThread -> {"out", "testing", "waiting", "awake"}]
    BY DEF Windows!Init
  <2>. QED
    BY <2>1, <2>2, <2>3 DEF WindowsTyped
<1>2. WindowsTyped /\ [MCNext]_mcVars => WindowsTyped' /\ (part = "windows" => Windows!PosixStep)
  <2>1. [MCNext]_mcVars => [Windows!Next]_windows
    BY DEF MCNext, mcVars, OfEvent, OfGroup, OfWindows, OfProcessor, OfStack, OfInputs, OfMemory
  <2>. QED
    BY <2>1, NextWindows, NextAsPosix
<1>. QED
  BY <1>1, <1>2, PTL DEF MCSpec, ImplementsPosix

=============================================================================
