---------------------------- MODULE SceneDrawing ----------------------------
(***************************************************************************)
(* Scene3D of GraphicTypes.cpp: objects hung below each other (Object3D),  *)
(* groups of them, the lists of what is to be drawn that culling leaves    *)
(* behind, and the camera, which remembers the inverse of the last view it *)
(* was asked for.                                                          *)
(*                                                                         *)
(* A transform is the sequence of what it was multiplied by, and an        *)
(* absolute one the product along the parents.  The inverse of a view is   *)
(* known by the view it belongs to.  Culling is by visibility alone.  The  *)
(* bodies are the camera and what carries it: where a drawn object stands  *)
(* is its own matter.  The caller hangs no body below itself, and deletes  *)
(* an object that it removed once a frame has been drawn without it: until *)
(* then a list still points to it.                                         *)
(***************************************************************************)
EXTENDS Naturals, Sequences, FiniteSets, SequencesExt

CONSTANTS
  Object,      \* Renderable3Ds
  Scene, Group,\* the scene, and a group that can be in it
  Camera, Node,\* Object3Ds: the camera, and those it can hang below
  Step,        \* translations, rotations, scalings
  MaxSteps,    \* bound: multiplied into a transform while the others have fewer
  None

Body == Node \cup {Camera}

VARIABLES
  parent,    \* m_parent of each body
  transform, \* m_transform of each body
  objects,   \* m_objects of the scene and of the group
  drawList,  \* m_drawList of the scene and of the group
  visible,   \* the status flags VISIBLE
  m_pCamera, \* the scene has one; once it has, it keeps it
  view,      \* m_mtrxView of the camera, and the view m_mtrxViewR is the inverse of
  frame,     \* what the last frame or the last DrawShapes drew
  removed,   \* removed and in no list of objects since the last frame
  deleted    \* deleted by the caller

vars == <<parent, transform, objects, drawList, visible, m_pCamera, view, frame,
          removed, deleted>>

NoFrame == [kind |-> None, drawn |-> <<>>, eye |-> None, frustum |-> None]

Init == /\ parent = [b \in Body |-> None]
        /\ transform = [b \in Body |-> <<>>]
        /\ objects = [c \in {Scene, Group} |-> <<>>]
        /\ drawList = [c \in {Scene, Group} |-> <<>>]
        /\ visible = Object \cup {Group}
        /\ m_pCamera = FALSE
        /\ view = [m_mtrxView |-> None, m_mtrxViewR |-> None]
        /\ frame = NoFrame
        /\ removed = {}
        /\ deleted = {}

-----------------------------------------------------------------------------
(* Object3D.                                                               *)
Above(b) ==
  LET up[x \in Body] == IF parent[x] = None THEN <<>> ELSE <<parent[x]>> \o up[parent[x]]
  IN  up[b]
IsChildOf(b, other) == other \in ToSet(Above(b))
GetAbsoluteTransform(b) ==
  LET up[x \in Body] == IF parent[x] = None THEN transform[x]
                        ELSE transform[x] \o up[parent[x]]
  IN  up[b]

Kept(kept) == UNCHANGED kept /\ frame' = NoFrame

SetParent(b, above) ==
  /\ above # b /\ (above # None => ~IsChildOf(above, b))
  /\ parent' = [parent EXCEPT ![b] = above]
  /\ Kept(<<transform, objects, drawList, visible, m_pCamera, view, removed, deleted>>)

\* Translate, Rotate and Scale
Multiply(b, step) ==
  /\ \A any \in Body : Len(transform[any]) < MaxSteps
  /\ transform' = [transform EXCEPT ![b] = Append(@, step)]
  /\ Kept(<<parent, objects, drawList, visible, m_pCamera, view, removed, deleted>>)

ResetTransform(b) ==
  /\ transform' = [transform EXCEPT ![b] = <<>>]
  /\ Kept(<<parent, objects, drawList, visible, m_pCamera, view, removed, deleted>>)

SetVisible(x) ==
  /\ x \notin deleted
  /\ visible' = IF x \in visible THEN visible \ {x} ELSE visible \cup {x}
  /\ Kept(<<parent, transform, objects, drawList, m_pCamera, view, removed, deleted>>)

-----------------------------------------------------------------------------
(* What is in the scene.                                                   *)
Listed == ToSet(objects[Scene]) \cup ToSet(objects[Group])

AddGeometry(c, x, front) ==
  /\ x \notin Listed \cup deleted /\ x # c
  /\ objects' = [objects EXCEPT ![c] = IF front THEN <<x>> \o @ ELSE Append(@, x)]
  /\ removed' = removed \ {x}
  /\ Kept(<<parent, transform, drawList, visible, m_pCamera, view, deleted>>)

RemoveGeometry(c, x) ==
  /\ x \in ToSet(objects[c])
  /\ objects' = [objects EXCEPT ![c] = SelectSeq(@, LAMBDA y : y # x)]
  /\ removed' = removed \cup {x}
  /\ Kept(<<parent, transform, drawList, visible, m_pCamera, view, deleted>>)

Delete(x) ==
  /\ x \in Object \ (Listed \cup removed \cup deleted)
  /\ deleted' = deleted \cup {x}
  /\ Kept(<<parent, transform, objects, drawList, visible, m_pCamera, view, removed>>)

SetCamera ==
  /\ ~m_pCamera /\ m_pCamera' = TRUE
  /\ Kept(<<parent, transform, objects, drawList, visible, view, removed, deleted>>)

-----------------------------------------------------------------------------
(* A frame.  What an object does to itself when it is updated is a move    *)
(* before it.                                                              *)
GetViewMatrixR(now) == IF view.m_mtrxView # now THEN [m_mtrxView |-> now, m_mtrxViewR |-> now] ELSE view

\* GeometryGroup3D::Cull
GroupList == IF Group \in visible THEN SelectSeq(objects[Group], LAMBDA x : x \in visible) ELSE <<>>

\* Scene3D::FrustumCull: what is kept of the scene; the group, if it is in it, is
\* culled on the way
Culled ==
  LET groupList == IF Group \in ToSet(objects[Scene]) THEN GroupList ELSE drawList[Group] IN
  [c \in {Scene, Group} |->
     IF c = Group THEN groupList
     ELSE SelectSeq(objects[Scene], LAMBDA x : IF x = Group THEN groupList # <<>> ELSE x \in visible)]

\* Render of each object, of a group those in its list
Drawing(lists) ==
  LET shown(x) == IF x = Group THEN lists[Group] ELSE <<x>>
  IN  FlattenSeq([i \in DOMAIN lists[Scene] |-> shown(lists[Scene][i])])

RenderContent ==
  /\ m_pCamera
  /\ view' = GetViewMatrixR(GetAbsoluteTransform(Camera))
  /\ drawList' = Culled
  /\ frame' = [kind |-> "frame", drawn |-> Drawing(drawList'),
               eye |-> GetAbsoluteTransform(Camera), frustum |-> view'.m_mtrxViewR]
  /\ removed' = IF Group \in Listed THEN {} ELSE removed \cap ToSet(drawList[Group])
  /\ UNCHANGED <<parent, transform, objects, visible, m_pCamera, deleted>>

\* from the lists the last frame left
DrawShapes ==
  /\ m_pCamera
  /\ frame' = [kind |-> "shapes", drawn |-> Drawing(drawList),
               eye |-> GetAbsoluteTransform(Camera), frustum |-> None]
  /\ UNCHANGED <<parent, transform, objects, drawList, visible, m_pCamera, view,
                 removed, deleted>>

Next == \/ \E b \in Body : \/ \E above \in Body \cup {None} : SetParent(b, above)
                           \/ \E step \in Step : Multiply(b, step)
                           \/ ResetTransform(b)
        \/ \E x \in Object \cup {Group} :
             \/ SetVisible(x)
             \/ \E c \in {Scene, Group} : \/ \E front \in BOOLEAN : AddGeometry(c, x, front)
                                          \/ RemoveGeometry(c, x)
        \/ \E x \in Object : Delete(x)
        \/ SetCamera \/ RenderContent \/ DrawShapes

Spec == Init /\ [][Next]_vars

-----------------------------------------------------------------------------
\* what is visible of a list of objects
Seen(list) == SelectSeq(list, LAMBDA x : x \in visible)

\* A frame draws what is visible then, in the order of the scene, a group in the
\* place of its members, and culls by the frustum of the eye it draws with, however
\* the objects moved during the update.
FrameUpToDate ==
  frame.kind = "frame" =>
    /\ frame.drawn
         = FlattenSeq([i \in DOMAIN Seen(objects[Scene]) |->
             IF Seen(objects[Scene])[i] = Group THEN Seen(objects[Group])
             ELSE <<Seen(objects[Scene])[i]>>])
    /\ frame.frustum = frame.eye

\* The shapes, drawn from the lists of the last frame, are never those of an object
\* that is gone.
ListsAlive ==
  \A i \in DOMAIN frame.drawn : frame.drawn[i] \notin deleted

SceneSound == FrameUpToDate /\ ListsAlive
=============================================================================
