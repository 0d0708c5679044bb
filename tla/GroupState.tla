----------------------------- MODULE GroupState -----------------------------
(***************************************************************************)
(* The state of a synchronize_event_group and what each function does to   *)
(* it while it holds the group's mutex: the elements in list order, and    *)
(* the flag of every element.  Pure operators, for the group itself        *)
(* (EventGroup) and for the task processors that own one (TaskProcessor).  *)
(***************************************************************************)
EXTENDS Naturals, SequencesExt

CONSTANT Element    \* the slots of group->objpool, used again after a removal

EmptyGroup == [elements |-> <<>>, flag |-> [e \in Element |-> FALSE]]

Present(g) == ToSet(g.elements)

IsGroup(g) == /\ DOMAIN g = {"elements", "flag"}
              /\ g.elements \in Seq(Element)
              /\ IsInjective(g.elements)
              /\ g.flag \in [Element -> BOOLEAN]

\* synchronize_event_group_add_element, with the slot the pool hands out
GroupAdd(g, e) == [elements |-> Append(g.elements, e),
                   flag     |-> [g.flag EXCEPT ![e] = FALSE]]

GroupRemove(g, e) == [g EXCEPT !.elements = RemoveFirst(@, e)]
GroupSet(g, e)    == [g EXCEPT !.flag[e] = TRUE]
GroupReset(g, e)  == [g EXCEPT !.flag[e] = FALSE]
GroupResetAll(g)  == [g EXCEPT !.flag = [e \in Element |->
                                           g.flag[e] /\ e \notin Present(g)]]

SetElements(g) == {e \in Present(g) : g.flag[e]}

\* the element wait_for_any stops at: the first of the list that is set
FirstSet(g) == SelectSeq(g.elements, LAMBDA e : g.flag[e])[1]

\* the positions from i on of the elements that are not set
UnsetFrom(g, i) == {j \in i..Len(g.elements) : ~g.flag[g.elements[j]]}

-----------------------------------------------------------------------------
(* Sequences as the sets of what is in them.                               *)
LEMMA Appended ==
  ASSUME NEW S, NEW s \in Seq(S), NEW x \in S
  PROVE  /\ Append(s, x) \in Seq(S)
         /\ ToSet(Append(s, x)) = ToSet(s) \cup {x}
         /\ IsInjective(s) /\ x \notin ToSet(s) => IsInjective(Append(s, x))
<1>1. /\ Len(Append(s, x)) = Len(s) + 1
      /\ \A i \in 1..Len(s) : Append(s, x)[i] = s[i]
      /\ Append(s, x)[Len(s) + 1] = x
  OBVIOUS
<1>2. DOMAIN Append(s, x) = 1..(Len(s) + 1) /\ DOMAIN s = 1..Len(s) /\ Len(s) \in Nat
  OBVIOUS
<1>. QED
  BY <1>1, <1>2 DEF ToSet, IsInjective

LEMMA Removed ==
  ASSUME NEW S, NEW s \in Seq(S), NEW i \in DOMAIN s, IsInjective(s)
  PROVE  /\ RemoveAt(s, i) \in Seq(S)
         /\ ToSet(RemoveAt(s, i)) = ToSet(s) \ {s[i]}
         /\ IsInjective(RemoveAt(s, i))
<1> DEFINE t == RemoveAt(s, i)
<1>1. Len(s) \in Nat /\ DOMAIN s = 1..Len(s) /\ i \in 1..Len(s)
  OBVIOUS
<1>2. /\ SubSeq(s, 1, i - 1) \in Seq(S)
      /\ Len(SubSeq(s, 1, i - 1)) = i - 1
      /\ \A j \in 1..(i - 1) : SubSeq(s, 1, i - 1)[j] = s[j]
  BY <1>1
<1>3. /\ SubSeq(s, i + 1, Len(s)) \in Seq(S)
      /\ Len(SubSeq(s, i + 1, Len(s))) = Len(s) - i
      /\ \A j \in 1..(Len(s) - i) : SubSeq(s, i + 1, Len(s))[j] = s[i + j]
  BY <1>1
<1>4. /\ t \in Seq(S)
      /\ Len(t) = Len(s) - 1
      /\ \A j \in 1..(Len(s) - 1) : t[j] = IF j < i THEN s[j] ELSE s[j + 1]
  <2> DEFINE u == SubSeq(s, 1, i - 1)
             v == SubSeq(s, i + 1, Len(s))
  <2>1. t = u \o v
    BY DEF RemoveAt
  <2>2. u \in Seq(S) /\ v \in Seq(S) /\ Len(u) = i - 1 /\ Len(v) = Len(s) - i
    BY <1>2, <1>3
  <2> HIDE DEF u, v, t
  <2>3. /\ u \o v \in Seq(S) /\ Len(u \o v) = Len(u) + Len(v)
        /\ \A j \in 1..(Len(u) + Len(v)) :
             (u \o v)[j] = IF j \in 1..Len(u) THEN u[j] ELSE v[j - Len(u)]
    BY <2>2
  <2>4. ASSUME NEW j \in 1..(Len(s) - 1) PROVE t[j] = IF j < i THEN s[j] ELSE s[j + 1]
    <3>1. CASE j < i
      BY <1>1, <1>2, <2>1, <2>2, <2>3, <3>1 DEF u
    <3>2. CASE ~(j < i)
      <4>1. j - (i - 1) \in 1..(Len(s) - i) /\ i + (j - (i - 1)) = j + 1
        BY <1>1, <3>2
      <4>2. v[j - (i - 1)] = s[i + (j - (i - 1))]
        BY <1>3, <4>1 DEF v
      <4>3. t[j] = v[j - (i - 1)]
        BY <1>1, <2>1, <2>2, <2>3, <3>2
      <4>. QED
        BY <4>1, <4>2, <4>3, <3>2
    <3>. QED
      BY <3>1, <3>2
  <2>. QED
    BY <1>1, <2>1, <2>2, <2>3, <2>4
<1>5. DOMAIN t = 1..(Len(s) - 1)
  BY <1>4
<1> HIDE DEF t
<1>6. IsInjective(t)
  <2>1. SUFFICES ASSUME NEW j \in DOMAIN t, NEW k \in DOMAIN t, t[j] = t[k]
                 PROVE  j = k
    BY DEF IsInjective
  <2>. QED
    BY <1>1, <1>4, <1>5, <2>1 DEF IsInjective
<1>7. ToSet(t) \subseteq ToSet(s) \ {s[i]}
  BY <1>1, <1>4, <1>5 DEF ToSet, IsInjective
<1>8. ASSUME NEW x \in ToSet(s) \ {s[i]} PROVE x \in ToSet(t)
  <2>1. PICK j \in 1..Len(s) : x = s[j]
    BY <1>1, <1>8 DEF ToSet
  <2>2. CASE j < i
    BY <1>1, <1>4, <1>5, <2>1, <2>2 DEF ToSet
  <2>3. CASE j > i
    <3>1. j - 1 \in 1..(Len(s) - 1) /\ t[j - 1] = s[j]
      BY <1>1, <1>4, <2>1, <2>3
    <3>. QED
      BY <1>5, <2>1, <3>1 DEF ToSet
  <2>. QED
    BY <1>1, <1>8, <2>1, <2>2, <2>3
<1>. QED
  BY <1>4, <1>6, <1>7, <1>8 DEF t

LEMMA RemovedFirst ==
  ASSUME NEW S, NEW s \in Seq(S), NEW x \in ToSet(s), IsInjective(s)
  PROVE  /\ RemoveFirst(s, x) \in Seq(S)
         /\ ToSet(RemoveFirst(s, x)) = ToSet(s) \ {x}
         /\ IsInjective(RemoveFirst(s, x))
<1> DEFINE I == {j \in 1..Len(s) : s[j] = x}
<1>1. PICK i \in DOMAIN s : x = s[i]
  BY DEF ToSet
<1>2. I = {i}
  BY <1>1 DEF IsInjective
<1>3. SelectInSeq(s, LAMBDA v : v = x) = i
  <2>1. SelectInSeq(s, LAMBDA v : v = x) = IF I # {} THEN Min(I) ELSE 0
    BY DEF SelectInSeq
  <2>2. Min({i}) = i
    BY <1>1 DEF Min
  <2>. QED
    BY <2>1, <2>2, <1>2
<1>4. RemoveFirst(s, x) = RemoveAt(s, i)
  BY <1>1, <1>3 DEF RemoveFirst
<1>. QED
  BY <1>1, <1>4, Removed

LEMMA Rest ==
  ASSUME NEW S, NEW s \in Seq(S), s # <<>>
  PROVE  /\ Head(s) \in ToSet(s) /\ Head(s) \in S
         /\ Tail(s) \in Seq(S) /\ ToSet(Tail(s)) \subseteq ToSet(s)
         /\ IsInjective(s) => IsInjective(Tail(s)) /\ Head(s) \notin ToSet(Tail(s))
<1>1. /\ Len(s) \in Nat \ {0} /\ Tail(s) \in Seq(S) /\ Len(Tail(s)) = Len(s) - 1
      /\ \A i \in 1..(Len(s) - 1) : Tail(s)[i] = s[i + 1]
      /\ Head(s) = s[1] /\ Head(s) \in S
  OBVIOUS
<1>2. DOMAIN s = 1..Len(s) /\ DOMAIN Tail(s) = 1..(Len(s) - 1)
  BY <1>1
<1>3. Head(s) \in ToSet(s) /\ ToSet(Tail(s)) \subseteq ToSet(s)
  BY <1>1, <1>2 DEF ToSet
<1>4. ASSUME IsInjective(s) PROVE IsInjective(Tail(s)) /\ Head(s) \notin ToSet(Tail(s))
  <2>1. IsInjective(Tail(s))
    BY <1>1, <1>2, <1>4 DEF IsInjective
  <2>2. ASSUME NEW i \in 1..(Len(s) - 1) PROVE Tail(s)[i] # Head(s)
    BY <1>1, <1>2, <1>4, <2>2 DEF IsInjective
  <2>. QED
    BY <1>2, <2>1, <2>2 DEF ToSet
<1>. QED
  BY <1>1, <1>3, <1>4

GroupType == [elements : Seq(Element), flag : [Element -> BOOLEAN]]

LEMMA FlagChanged ==
  ASSUME NEW g \in GroupType, NEW e
  PROVE  /\ GroupSet(g, e) \in GroupType /\ GroupSet(g, e).elements = g.elements
         /\ GroupReset(g, e) \in GroupType /\ GroupReset(g, e).elements = g.elements
BY DEF GroupType, GroupSet, GroupReset

LEMMA ElementAdded ==
  ASSUME NEW g \in GroupType, NEW e \in Element
  PROVE  /\ GroupAdd(g, e) \in GroupType
         /\ Present(GroupAdd(g, e)) = Present(g) \cup {e}
         /\ IsInjective(g.elements) /\ e \notin Present(g)
              => IsInjective(GroupAdd(g, e).elements)
BY Appended DEF GroupType, GroupAdd, Present

LEMMA ElementRemoved ==
  ASSUME NEW g \in GroupType, NEW e \in Present(g), IsInjective(g.elements)
  PROVE  /\ GroupRemove(g, e) \in GroupType
         /\ Present(GroupRemove(g, e)) = Present(g) \ {e}
         /\ IsInjective(GroupRemove(g, e).elements)
<1>1. GroupRemove(g, e).elements = RemoveFirst(g.elements, e)
  BY DEF GroupType, GroupRemove
<1>2. g.elements \in Seq(Element) /\ e \in ToSet(g.elements)
  BY DEF GroupType, Present
<1>3. GroupRemove(g, e) \in GroupType <=> RemoveFirst(g.elements, e) \in Seq(Element)
  BY DEF GroupType, GroupRemove
<1>. QED
  BY <1>1, <1>2, <1>3, RemovedFirst DEF Present
=============================================================================
