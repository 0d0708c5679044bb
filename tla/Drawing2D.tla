------------------------------ MODULE Drawing2D ------------------------------
(***************************************************************************)
(* Render2D (GraphicTypes.cpp): textures drawn into boxes of the screen,   *)
(* clipped to a rectangle that outlives the frame, with masks in the       *)
(* stencil buffer, by 2D scenes that alternate with 3D ones on one OpenGL  *)
(* ES context.  SceneDrawing shows what a 3D scene draws, LayerRendering   *)
(* where a layer draws it.                                                 *)
(*                                                                         *)
(* The screen is a square of cells; a box has an origin and a size in      *)
(* cells, negative when the texture is mirrored.  A mask, and the depth a  *)
(* 3D scene leaves, cover the screen or nothing of it.                     *)
(***************************************************************************)
EXTENDS Integers

CONSTANTS Edge,    \* the screen goes from -Edge to Edge
          Boxes,   \* bound: the boxes textures are drawn into
          Clips,   \* bound: the clip rectangles asked for
          None

VARIABLES gl,       \* the state of OpenGL that the scenes set
          stencil,  \* what the stencil buffer holds
          depth,    \* the depth buffer holds a 3D object
          clip,     \* m_clipRect
          pass,     \* the scene that is being drawn: "none", "2D" or "3D"
          masked,   \* this scene has set or cleared a mask
          drawn     \* the DrawTexture before this state, or None

vars == <<gl, stencil, depth, clip, pass, masked, drawn>>

Cells == -Edge .. Edge - 1
Screen == [x |-> -Edge, y |-> -Edge, w |-> 2 * Edge, h |-> 2 * Edge]
Empty == [x |-> 0, y |-> 0, w |-> 0, h |-> 0]

-----------------------------------------------------------------------------
(* Boxes.                                                                  *)
Low(origin, size) == IF size > 0 THEN origin ELSE origin + size
High(origin, size) == IF size > 0 THEN origin + size ELSE origin
Later(a, b) == IF a > b THEN a ELSE b
Sooner(a, b) == IF a > b THEN b ELSE a

\* Box2D::Intersect: what two boxes share, which may have no extent
Intersect(a, b) ==
  LET x == Later(Low(a.x, a.w), Low(b.x, b.w))
      y == Later(Low(a.y, a.h), Low(b.y, b.h))
  IN  [x |-> x, w |-> Sooner(High(a.x, a.w), High(b.x, b.w)) - x,
       y |-> y, h |-> Sooner(High(a.y, a.h), High(b.y, b.h)) - y]

Overlap(box) == box.w > 0 /\ box.h > 0

In(cell, origin, size) == origin <= cell /\ cell < origin + size

(***************************************************************************)
(* The quad that is drawn has texture coordinate 0 at its left and at its  *)
(* top, 1 at its right and its bottom.  The texture coordinate of a cell's *)
(* centre is given as half cells of the box, from 0 to twice its size.     *)
(***************************************************************************)
Across(box, target, i) == 2 * (target.x - box.x) + (2 * i + 1 - 2 * target.x)
Down(box, target, j)   == 2 * (target.y - box.y) + 2 * target.h
                          - (2 * j + 1 - 2 * target.y)

\* what DrawTexture paints: of each cell the place in the texture
Painted(box, target) ==
  [c \in {d \in Cells \X Cells : In(d[1], target.x, target.w) /\ In(d[2], target.y, target.h)} |->
     <<Across(box, target, c[1]), Down(box, target, c[2])>>]

-----------------------------------------------------------------------------
Init == /\ gl = [enabled |-> {}, depthMask |-> TRUE, colorMask |-> TRUE,
                 func |-> "always", ref |-> 0]
        /\ stencil = 0 /\ depth = FALSE
        /\ clip = Screen
        /\ pass = "none" /\ masked = FALSE /\ drawn = None

\* EnableDepthTest, EnableCullFace and EnableStencilTest
Enable(g, test, on) == [g EXCEPT !.enabled = IF on THEN @ \cup {test} ELSE @ \ {test}]

\* SetStencilTestFunc: what the stencil buffer is compared with, and how
StencilTest(g, func, ref) == [g EXCEPT !.func = func, !.ref = ref]

\* glClear obeys the write masks
ClearDepth(g, there) == IF g.depthMask THEN FALSE ELSE there

(***************************************************************************)
(* A 2D scene: RenderStart, what its geometries do, RenderEnd.             *)
(***************************************************************************)
Started(g) ==
  StencilTest([Enable(Enable(Enable(g, "depth", FALSE), "stencil", TRUE), "cull", FALSE)
                 EXCEPT !.depthMask = FALSE], "always", 0)

RenderStart == /\ pass = "none"
               /\ gl' = Started(gl)
               /\ depth' = ClearDepth(gl, depth)
               /\ stencil' = 0
               /\ pass' = "2D" /\ masked' = FALSE /\ drawn' = None
               /\ UNCHANGED clip

RenderEnd == /\ pass = "2D"
             /\ gl' = [Enable(gl, "stencil", FALSE) EXCEPT !.depthMask = TRUE]
             /\ pass' = "none" /\ drawn' = None
             /\ UNCHANGED <<stencil, depth, clip, masked>>

SetClipRect(box) ==
  /\ pass = "2D"
  /\ clip' = IF Overlap(Intersect(Screen, box)) THEN Intersect(Screen, box) ELSE Empty
  /\ drawn' = None
  /\ UNCHANGED <<gl, stencil, depth, pass, masked>>

\* the reference has to be greater than what the buffer holds
Passes == /\ gl.colorMask
          /\ "stencil" \in gl.enabled => gl.func = "always" \/ gl.ref > stencil
          /\ "depth" \in gl.enabled => ~depth

DrawTexture(box) ==
  /\ pass = "2D"
  /\ \E target \in {Intersect(clip, box)} :
       drawn' = [box |-> box, shown |-> Passes,
                 cells |-> IF Overlap(target) THEN Painted(box, target) ELSE <<>>]
  /\ UNCHANGED <<gl, stencil, depth, clip, pass, masked>>

\* AddMask and ClearMask of a box: the reference is drawn into the stencil buffer, where
\* the box is, with the colours locked, and the test is left at "greater than 0"
SetMask(ref) ==
  /\ pass = "2D"
  /\ stencil' \in {stencil, ref}
  /\ gl' = [StencilTest(gl, "greater", 0) EXCEPT !.colorMask = TRUE]
  /\ masked' = TRUE /\ drawn' = None
  /\ UNCHANGED <<depth, clip, pass>>

AddMask == SetMask(1)
ClearMaskBox == SetMask(0)

ClearMask == /\ pass = "2D"
             /\ stencil' = 0 /\ drawn' = None
             /\ UNCHANGED <<gl, depth, clip, pass, masked>>

(***************************************************************************)
(* A 3D scene with a camera, whose objects leave their depth.              *)
(***************************************************************************)
Start3D == /\ pass = "none"
           /\ gl' = Enable(Enable(gl, "depth", TRUE), "cull", TRUE)
           /\ pass' = "3D" /\ drawn' = None
           /\ UNCHANGED <<stencil, depth, clip, masked>>

DrawShape == /\ pass = "3D"
             /\ depth' = (depth \/ gl.depthMask)
             /\ UNCHANGED <<gl, stencil, clip, pass, masked, drawn>>

End3D == /\ pass = "3D"
         /\ pass' = "none"
         /\ UNCHANGED <<gl, stencil, depth, clip, masked, drawn>>

Next == \/ RenderStart \/ RenderEnd \/ AddMask \/ ClearMaskBox \/ ClearMask
        \/ Start3D \/ DrawShape \/ End3D
        \/ \E box \in Clips : SetClipRect(box)
        \/ \E box \in Boxes : DrawTexture(box)

Spec == Init /\ [][Next]_vars

-----------------------------------------------------------------------------
\* Clipping hides a part of a picture and moves none of it: every cell of the box inside
\* the clip rectangle shows what it would without one, mirrored or not.  Downwards that
\* holds of boxes whose top and bottom are inside; the texture of one that is cut there
\* is measured from the wrong end (GraphicTypes.cpp:700).
DrawnInPlace ==
  drawn # None =>
    LET box == drawn.box
        inside == {c \in Cells \X Cells :
                     /\ In(c[1], clip.x, clip.w) /\ In(c[2], clip.y, clip.h)
                     /\ In(c[1], Low(box.x, box.w), High(box.x, box.w) - Low(box.x, box.w))
                     /\ In(c[2], Low(box.y, box.h), High(box.y, box.h) - Low(box.y, box.h))}
        uncut == clip.y <= box.y /\ box.h > 0 /\ box.y + box.h <= clip.y + clip.h
    IN  /\ DOMAIN drawn.cells = inside
        /\ \A c \in inside : /\ drawn.cells[c][1] = 2 * (c[1] - box.x) + 1
                             /\ uncut => drawn.cells[c][2] = 2 * (box.y + box.h - c[2]) - 1

\* Scenes do not disturb each other: a texture is hidden by no depth a 3D scene left and
\* by no mask of another 2D scene, and an object of a 3D scene is tested against the
\* depth of the others and against nothing else.
ScenesApart ==
  /\ drawn # None /\ ~masked => drawn.shown
  /\ pass = "3D" => gl.enabled = {"depth", "cull"} /\ gl.depthMask /\ gl.colorMask

DrawingSound == DrawnInPlace /\ ScenesApart
=============================================================================
