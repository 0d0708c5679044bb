--------------------------- MODULE LayerRendering ---------------------------
(***************************************************************************)
(* How the graphics library draws a frame: GraphicFilterContainer,         *)
(* GraphicLayer, LayerCollection and GraphicManager of GraphicTypes.cpp,    *)
(* with the screen targets that UtilGraphicResourceController lends them.  *)
(*                                                                         *)
(* A layer with filters draws into a screen target instead of the target   *)
(* it was given, then each filter reads one of two targets and draws into  *)
(* the other, the last one into the target the layer was given.  What a    *)
(* target shows is the set of images drawn into it since it was cleared;   *)
(* an image is the layer that drew it and the filters it has passed.       *)
(***************************************************************************)
EXTENDS Naturals, Sequences, FiniteSets, SequencesExt, FiniteSetsExt

CONSTANTS
  Root,        \* the LayerCollection of the GraphicManager
  Group,       \* the other LayerCollections
  Scene,       \* the layers that draw: Scene2D and Scene3D
  None,
  Screen,      \* the target and the viewport of the window
  MaxTargets,  \* MAX_SCREEN_TEXTURE_COUNT
  MaxFilters,  \* bound: filters of a layer
  MaxNested    \* bound: layers with filters among a layer and its ancestors

Layer == {Root} \cup Group \cup Scene
Target == 0 .. MaxTargets - 1

VARIABLES
  children,    \* m_Layers of each collection, the top layer first
  parent,      \* m_pParent
  filters,     \* the length of m_filterList of each layer
  unengaged,   \* m_unengagedRenderTargetIDs
  target,      \* the render target of the context
  viewport,    \* its viewport
  container,   \* of each layer: m_swapRenderTarget, m_uCurrentBuffer, m_originTarget, m_originViewport
  shown,       \* what each target shows
  calls        \* the calls of Render that have not returned, the innermost first

treeVars == <<children, parent, filters>>
contextVars == <<target, viewport, shown>>
vars == <<treeVars, contextVars, unengaged, container, calls>>

Unstarted == [swap |-> <<0, 0>>, current |-> 1, origin |-> None, viewport |-> Screen]
\* what a target shows that holds an earlier frame, or was read and drawn at once
Leftover == [layer |-> None, passed |-> <<>>]

Init == /\ children = [l \in {Root} \cup Group |-> <<>>]
        /\ parent = [l \in Layer |-> None]
        /\ filters = [l \in Layer |-> 0]
        /\ unengaged = Target
        /\ target = Screen /\ viewport = Screen
        /\ container = [l \in Layer |-> Unstarted]
        /\ shown = [t \in Target \cup {Screen} |-> {Leftover}]
        /\ calls = <<>>

-----------------------------------------------------------------------------
(* The targets of UtilGraphicResourceController.                           *)

\* GetUnengagedRenderTargetID: the lowest count ids, in order
CanLend(count) == Cardinality(unengaged) >= count
Lent(count) == SubSeq(SetToSortSeq(unengaged, <), 1, count)
EngageARenderTargetID(t) == unengaged' = unengaged \ {t}
FreeARenderTargetID(t) == unengaged' = unengaged \cup {t}

\* the target a container draws into
Drawn(c) == c.swap[c.current]
EngageCurrentTarget(l) == EngageARenderTargetID(Drawn(container[l]))
FreeCurrentTarget(l) == FreeARenderTargetID(Drawn(container[l]))

-----------------------------------------------------------------------------
(* Between frames the layers and their filters change.                     *)
Idle == calls = <<>>
Editing == Idle /\ UNCHANGED <<contextVars, unengaged, container, calls>>

RECURSIVE WithAncestors(_)
WithAncestors(l) == {l} \cup IF parent[l] = None THEN {} ELSE WithAncestors(parent[l])

\* the bound on how deeply filters nest
FiltersNestWithin(up, counts) ==
  \A l \in Layer : Cardinality({a \in up[l] : counts[a] > 0}) <= MaxNested

AddLayer(c, l, list) ==
  /\ Editing
  /\ l # Root /\ parent[l] = None
  /\ l \notin WithAncestors(c)
  /\ FiltersNestWithin([k \in Layer |-> WithAncestors(k) \cup IF l \in WithAncestors(k)
                                                             THEN WithAncestors(c) ELSE {}], filters)
  /\ children' = [children EXCEPT ![c] = list]
  /\ parent' = [parent EXCEPT ![l] = c]
  /\ UNCHANGED filters

AddLayerTop(c, l) == AddLayer(c, l, <<l>> \o children[c])
AddLayerBottom(c, l) == AddLayer(c, l, Append(children[c], l))

RemoveLayer(c, l) ==
  /\ Editing
  /\ parent[l] = c
  /\ children' = [children EXCEPT ![c] = SelectSeq(@, LAMBDA k : k # l)]
  /\ parent' = [parent EXCEPT ![l] = None]
  /\ UNCHANGED filters

ClearLayer(c) ==
  /\ Editing
  /\ children[c] # <<>>
  /\ children' = [children EXCEPT ![c] = <<>>]
  /\ parent' = [l \in Layer |-> IF l \in ToSet(children[c]) THEN None ELSE parent[l]]
  /\ UNCHANGED filters

SetFilters(l, count) ==
  /\ Editing
  /\ FiltersNestWithin([k \in Layer |-> WithAncestors(k)], [filters EXCEPT ![l] = count])
  /\ filters' = [filters EXCEPT ![l] = count]
  /\ UNCHANGED <<children, parent>>

AddFilter(l) == filters[l] < MaxFilters /\ SetFilters(l, filters[l] + 1)
RemoveFilter(l) == filters[l] > 0 /\ SetFilters(l, filters[l] - 1)
ClearFilter(l) == filters[l] > 1 /\ SetFilters(l, 0)

-----------------------------------------------------------------------------
(* A frame.  The call on top of the stack takes the next step.             *)
Call(l) == [layer |-> l, at |-> "start", left |-> 0]
Top == Head(calls)
At(l, place) == ~Idle /\ Top.layer = l /\ Top.at = place
Move(place, left) == calls' = <<[Top EXCEPT !.at = place, !.left = left]>> \o Tail(calls)
Return == calls' = Tail(calls)
\* the content is drawn: FilterEnd has the filters of the layer left
Ended(l) == Move("filters", filters[l])

Clear(images, t) == [images EXCEPT ![t] = {}]
Draw(images, t, image) == [images EXCEPT ![t] = @ \cup image]
\* a filter draws what it reads; reading the target it draws into is undefined
Filtered(images, l, k, from, to) ==
  Draw(Clear(images, to), to,
       IF from = to THEN {Leftover}
       ELSE {[i EXCEPT !.passed = Append(@, <<l, k>>)] : i \in images[from]})

\* GraphicManager::Render, after the display has cleared the window
Render == /\ Idle
          /\ shown' = Clear(shown, target)
          /\ calls' = <<Call(Root)>>
          /\ UNCHANGED <<treeVars, target, viewport, unengaged, container>>

\* mutant: the number of filters is not looked at
FirstByTarget(l, origin, swap) == IF origin = swap[1] THEN 2 ELSE 1
\* the layer starts in the buffer from which its last filter does not have to
\* read the target it was given
FirstBuffer(l, origin, swap) == IF origin = swap[1] /\ filters[l] % 2 = 1 THEN 2 ELSE 1

FilterStart(l) ==
  /\ At(l, "start")
  /\ IF filters[l] = 0
     THEN /\ Move("content", IF l \in Scene THEN 0 ELSE Len(children[l]))
          /\ UNCHANGED <<contextVars, container>>
     ELSE IF ~CanLend(2)
     THEN /\ container' = [container EXCEPT ![l].origin = target]
          /\ Return
          /\ UNCHANGED contextVars
     ELSE /\ container' = [container EXCEPT ![l] =
               [swap |-> Lent(2), current |-> FirstBuffer(l, target, Lent(2)),
                origin |-> target, viewport |-> viewport]]
          /\ target' = Drawn(container'[l])
          /\ viewport' = None
          /\ shown' = Clear(shown, target')
          /\ Move("content", IF l \in Scene THEN 0 ELSE Len(children[l]))
  /\ UNCHANGED <<treeVars, unengaged>>

\* Scene2D and Scene3D::RenderContent
RenderScene(l) ==
  /\ At(l, "content") /\ l \in Scene
  /\ shown' = Draw(shown, target, {[layer |-> l, passed |-> <<>>]})
  /\ Ended(l)
  /\ UNCHANGED <<treeVars, target, viewport, unengaged, container>>

\* LayerCollection::RenderContent draws the layers from the bottom up.  A
\* collection in a collection engages the target of its parent while it draws
\* the layers after the first.
Shared(c) == parent[c] # None /\ Len(children[c]) >= 2

RenderLayer(c) ==
  /\ At(c, "content") \/ At(c, "rest")
  /\ c \notin Scene
  /\ Top.left > 0
  /\ calls' = <<Call(children[c][Top.left]),
                [Top EXCEPT !.at = IF Shared(c) /\ @ = "content" THEN "engage" ELSE "rest",
                            !.left = @ - 1]>> \o Tail(calls)
  /\ UNCHANGED <<treeVars, contextVars, unengaged, container>>

Engage(c) ==
  /\ At(c, "engage")
  /\ IF filters[parent[c]] = 0
     THEN Move("rest", Top.left) /\ UNCHANGED unengaged
     ELSE IF Drawn(container[parent[c]]) \in unengaged
     THEN Move("rest", Top.left) /\ EngageCurrentTarget(parent[c])
     ELSE Ended(c) /\ UNCHANGED unengaged
  /\ UNCHANGED <<treeVars, contextVars, container>>

LayersDone(c) ==
  /\ At(c, "content") \/ At(c, "rest")
  /\ c \notin Scene
  /\ Top.left = 0
  /\ Ended(c)
  /\ IF Shared(c) /\ filters[parent[c]] > 0
     THEN FreeCurrentTarget(parent[c])
     ELSE UNCHANGED unengaged
  /\ UNCHANGED <<treeVars, contextVars, container>>

\* FilterEnd without filters
NoFilters(l) ==
  /\ At(l, "filters")
  /\ container[l].origin = None
  /\ Return
  /\ UNCHANGED <<treeVars, contextVars, unengaged, container>>

\* the loop of FilterEnd: a filter draws one buffer into the other
FilterPass(l) ==
  /\ At(l, "filters") /\ Top.left > 1
  /\ container[l].origin # None
  /\ LET c == container[l]
     IN  /\ target' = c.swap[3 - c.current]
         /\ shown' = [Filtered(shown, l, Top.left, Drawn(c), target') EXCEPT ![Drawn(c)] = {Leftover}]
         /\ container' = [container EXCEPT ![l].current = 3 - @]
  /\ Move("filters", Top.left - 1)
  /\ UNCHANGED <<treeVars, viewport, unengaged>>

\* mutant: the viewport of the buffers stays set
ViewportKept(c) == viewport
\* the viewport the layer was given, set again with its target
OriginViewport(c) == c.viewport

\* The end of FilterEnd: the last filter draws into the target the layer was
\* given.  The buffers are done with: what they hold, and which they were, is
\* forgotten, so that a layer that used them uncleared would show a Leftover.
LastFilter(l) ==
  /\ At(l, "filters") /\ Top.left = 1
  /\ container[l].origin # None
  /\ LET c == container[l]
     IN  /\ target' = c.origin
         /\ viewport' = OriginViewport(c)
         /\ shown' = [Filtered(shown, l, 1, Drawn(c), c.origin) EXCEPT ![Drawn(c)] = {Leftover}]
  /\ container' = [container EXCEPT ![l] = Unstarted]
  /\ Return
  /\ UNCHANGED <<treeVars, unengaged>>

Next == \/ \E c \in {Root} \cup Group :
             \/ \E l \in Layer \ {Root} :
                  AddLayerTop(c, l) \/ AddLayerBottom(c, l) \/ RemoveLayer(c, l)
             \/ ClearLayer(c)
             \/ RenderLayer(c) \/ Engage(c) \/ LayersDone(c)
        \/ \E l \in Layer :
             \/ AddFilter(l) \/ RemoveFilter(l) \/ ClearFilter(l)
             \/ FilterStart(l) \/ NoFilters(l) \/ FilterPass(l) \/ LastFilter(l)
        \/ \E l \in Scene : RenderScene(l)
        \/ Render

Spec == Init /\ [][Next]_vars

-----------------------------------------------------------------------------
(* What a frame has to show, without targets: a layer draws over what is   *)
(* there, a layer with filters in place of it, after its filters from the  *)
(* last added to the first.                                                *)
Passed(l, images) ==
  {[i EXCEPT !.passed = @ \o [k \in 1 .. filters[l] |-> <<l, filters[l] + 1 - k>>]] : i \in images}

RECURSIVE Picture(_, _)
Picture(l, under) ==
  LET start == IF filters[l] = 0 THEN under ELSE {}
      content == IF l \in Scene THEN start \cup {[layer |-> l, passed |-> <<>>]}
                 ELSE FoldRight(Picture, children[l], start)
  IN  Passed(l, content)

\* A frame shows what its layers and filters describe: no filter reads the
\* target it draws into, none is skipped or applied twice, and no layer draws
\* into a target that another one still needs.
FrameRendered == ~Idle /\ Idle' => shown'[Screen] = Picture(Root, {})
FramesRendered == [][FrameRendered]_vars

\* After a frame the context draws into the window again and every screen target
\* is lent out to no one, whatever the layers engaged on the way.
ContextRestored == Idle => /\ target = Screen /\ viewport = Screen
                           /\ unengaged = Target
                           /\ \A l \in Layer : container[l].origin = None

=============================================================================
