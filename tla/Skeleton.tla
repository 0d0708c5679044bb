------------------------------ MODULE Skeleton ------------------------------
(***************************************************************************)
(* Skeleton of GraphicAnimation.cpp: bones, animations that are found by a *)
(* key, and the actions that pose a bone during one of them.  It owns all  *)
(* of them.  m_pCurrentAnimation is a pointer that the destruction of the  *)
(* animation does not clear: using it afterwards ends the process here.    *)
(* Where the bones are is geometry and left out; what a controller does    *)
(* with its actions is Animation's.                                        *)
(***************************************************************************)
EXTENDS Naturals, FiniteSets

CONSTANTS
  Bone,        \* keys of bones
  Animation,   \* keys of animations
  Action,      \* Object3DKeyFrameAnimations the client makes
  None,
  MaxMade      \* bound: controllers made

VARIABLES
  bones,       \* m_bones
  parent,      \* the parent of each bone
  controller,  \* m_animations: of each key its controller, a number, or None
  lines,       \* of each controller alive the actions on its time line
  m_actions,   \* of each key its list of actions
  object,      \* of each action that is alive the bone it poses, None before it has one
  current,     \* m_pCurrentAnimation
  made,        \* controllers made so far
  mistakes     \* deletes of what was not alive, and uses of it

vars == <<bones, parent, controller, lines, m_actions, object, current, made, mistakes>>

Init == /\ bones = {}
        /\ parent = [b \in Bone |-> None]
        /\ controller = [k \in Animation |-> None]
        /\ lines = <<>>
        /\ m_actions = [k \in Animation |-> {}]
        /\ object = <<>>
        /\ current = None
        /\ made = 0
        /\ mistakes = {}

Alive == mistakes = {}
Without(f, gone) == [x \in DOMAIN f \ gone |-> f[x]]
With(f, x, v) == [y \in DOMAIN f \cup {x} |-> IF y = x THEN v ELSE f[y]]

CreateBone(b) ==
  /\ Alive /\ b \notin bones
  /\ bones' = bones \cup {b}
  /\ UNCHANGED <<parent, controller, lines, m_actions, object, current, made, mistakes>>

AttachBoneToBone(child, above) ==
  /\ Alive /\ child \in bones /\ above \in bones /\ child # above
  /\ parent[above] # child
  /\ parent' = [parent EXCEPT ![child] = above]
  /\ UNCHANGED <<bones, controller, lines, m_actions, object, current, made, mistakes>>

CreateAnimation(k) ==
  /\ Alive /\ controller[k] = None /\ made < MaxMade
  /\ made' = made + 1
  /\ controller' = [controller EXCEPT ![k] = made']
  /\ lines' = With(lines, made', {})
  /\ UNCHANGED <<bones, parent, m_actions, object, current, mistakes>>

\* the client makes an action, and keeps it when the call returns FALSE
AddActionToAnimation(k, b, a) ==
  /\ Alive /\ a \notin DOMAIN object
  /\ IF controller[k] # None /\ b \in bones
     THEN /\ object' = With(object, a, b)
          /\ lines' = [lines EXCEPT ![controller[k]] = @ \cup {a}]
          /\ m_actions' = [m_actions EXCEPT ![k] = @ \cup {a}]
     ELSE UNCHANGED <<object, lines, m_actions>>
  /\ UNCHANGED <<bones, parent, controller, current, made, mistakes>>

ActionsErased(keys) == [k \in Animation |-> IF k \in keys THEN {} ELSE m_actions[k]]

\* the controllers and the actions of some keys are deleted
Deleted(keys) ==
  LET gone == UNION {m_actions[k] : k \in keys} IN
  /\ controller' = [k \in Animation |-> IF k \in keys THEN None ELSE controller[k]]
  /\ lines' = Without(lines, {controller[k] : k \in keys})
  /\ m_actions' = ActionsErased(keys)
  /\ object' = Without(object, gone)
  /\ mistakes' = mistakes \cup {<<"deleted twice", a>> : a \in gone \ DOMAIN object}

DestroyAnimation(k) ==
  /\ Alive /\ controller[k] # None
  /\ Deleted({k})
  /\ UNCHANGED <<bones, parent, current, made>>

ClearAnimations ==
  /\ Alive
  /\ Deleted(Animation)
  /\ UNCHANGED <<bones, parent, current, made>>

\* Clear: the bones go first
Clear ==
  /\ Alive
  /\ bones' = {}
  /\ parent' = [b \in Bone |-> None]
  /\ Deleted(Animation)
  /\ UNCHANGED <<current, made>>

\* an unknown key resets the bones and leaves the animation
PlayAnimation(k) ==
  /\ Alive /\ controller[k] # None
  /\ current' = controller[k]
  /\ UNCHANGED <<bones, parent, controller, lines, m_actions, object, made, mistakes>>

StopAnimation ==
  /\ Alive /\ current' = None
  /\ UNCHANGED <<bones, parent, controller, lines, m_actions, object, made, mistakes>>

\* the current animation poses the bones of its actions, as long as it is alive
Update ==
  /\ Alive /\ current # None
  /\ mistakes' = IF current \notin DOMAIN lines THEN {<<"used", current>>}
                 ELSE {<<"used", a>> : a \in {x \in lines[current] :
                                                \/ x \notin DOMAIN object
                                                \/ object[x] \notin bones}}
  /\ UNCHANGED <<bones, parent, controller, lines, m_actions, object, current, made>>

Next == \/ \E b \in Bone : CreateBone(b)
        \/ \E b, c \in Bone : AttachBoneToBone(b, c)
        \/ \E k \in Animation :
             \/ CreateAnimation(k) \/ DestroyAnimation(k) \/ PlayAnimation(k)
             \/ \E b \in Bone, a \in Action : AddActionToAnimation(k, b, a)
        \/ ClearAnimations \/ Clear \/ StopAnimation \/ Update

Spec == Init /\ [][Next]_vars

-----------------------------------------------------------------------------
\* Whatever is destroyed in whatever order, an action is deleted once, with its
\* animation; the time lines name living actions of living bones; a bone's parent
\* is alive.  The one thing that can be used too late is the current animation.
SkeletonSound ==
  /\ \A k \in Animation : m_actions[k] # {} => controller[k] # None
  /\ \A k \in Animation : controller[k] # None => lines[controller[k]] = m_actions[k]
  /\ DOMAIN object = UNION {m_actions[k] : k \in Animation}
  /\ \A a \in DOMAIN object : object[a] \in bones
  /\ \A b \in bones : parent[b] # None => parent[b] \in bones
  /\ mistakes \subseteq {<<"used", current>>}
=============================================================================
