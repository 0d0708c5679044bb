----------------------------- MODULE MCGraphics -----------------------------
(***************************************************************************)
(* The graphics library and the display effects on small instances.  The   *)
(* parts are checked side by side: part says which one a behaviour is of.  *)
(***************************************************************************)
EXTENDS Integers, TLC

CONSTANTS
  None,
  Context, Controller, Id, Screens, Formats,                       \* resources
  Root, Group, Scene, ScreenTarget, MaxTargets, MaxFilters, MaxNested,   \* layers
  WindowBuffer, FrameBuffer, WindowColor, WindowDepth, Texture, Depth, Buffer, \* OpenGL
  xyz, xyz_t,          \* vertex buffer formats
  Usage, position, tex0,
  Single, Hdr, MaxEffects,                                         \* effects
  Char, PerBlock, MaxBlocks, MaxLength, MaxStrings,                \* glyphs
  Action, Frames, Stamp, Interval, Jump,                           \* animation
  Bone, AnimationKey, BoneAction, MaxMade,                         \* skeleton
  Address, Uses, MaxReads,                                         \* Direct3D
  Renderable, Scene3D, Group3D, Camera, Node, Motion, MaxSteps,          \* scene
  Edge, Boxes, Clips                                               \* drawing

(* A behaviour is of one part, which keeps its variables in s1, s2, ...     *)
VARIABLES part, s1, s2, s3, s4, s5, s6, s7, s8, s9, s10, s11

vars == <<part, s1, s2, s3, s4, s5, s6, s7, s8, s9, s10, s11>>

Format == {xyz, xyz_t}
Elements == [f \in Format |-> IF f = xyz THEN {position} ELSE {position, tex0}]

(* Four key frames, two of them at one time, and two.                       *)
MCFrames == "turn" :> <<0, 2, 2, 3>> @@ "bend" :> <<1, 4>>

(* Few things of each kind, so that addresses are used again: programs and *)
(* their shaders, surfaces and the targets they are drawn into, buffers.   *)
NoUse == [k \in {"texture", "depth", "program", "vertex", "pixel", "format", "reader",
                 "vertex buffer", "index buffer"} |-> 0] @@ "target" :> 1
MCUses == {"vertex" :> 1 @@ "pixel" :> 2 @@ "program" :> 2 @@ NoUse,
           "target" :> 3 @@ "texture" :> 2 @@ "depth" :> 1 @@ NoUse,
           "format" :> 1 @@ "vertex buffer" :> 1 @@ "index buffer" :> 1 @@ "reader" :> 1
             @@ "texture" :> 1 @@ NoUse}

(* Boxes inside the screen, across each of its sides, mirrored and larger  *)
(* than it.                                                                *)
MCBoxes == {[x |-> x, y |-> y, w |-> w, h |-> h] :
              x \in {-2, 0}, w \in {3, -2, 1}, y \in {-1, 0}, h \in {1, 2}}
MCClips == {[x |-> x, y |-> -1, w |-> w, h |-> h] :
              x \in {-3, 0, 1}, w \in {-1, 1, 4}, h \in {1, 3}}

Resources == INSTANCE GraphicResources WITH
  m_controllers <- s1, m_controllerIDs <- s2, held <- s3, live <- s4, mistakes <- s5,
  unused <- s6
Layers == INSTANCE LayerRendering WITH
  Screen <- ScreenTarget,
  children <- s1, parent <- s2, filters <- s3, unengaged <- s4, target <- s5,
  viewport <- s6, container <- s7, shown <- s8, calls <- s9
OpenGL == INSTANCE GLESContext WITH
  Window <- WindowBuffer, Frame <- FrameBuffer,
  gl <- s1, context <- s2, faces <- s3, alive <- s4, vertices <- s5, aborted <- s6
Effects == INSTANCE DisplayEffects WITH
  gl <- s1, objects <- s2, display <- s3, filter <- s4, request <- s5, shown <- s6,
  created <- s7, crashed <- s8
Glyphs == INSTANCE GlyphCache WITH
  font <- s1, strings <- s2
Animated == INSTANCE Animation WITH
  stamp <- s1, live <- s2, timeLine <- s3, pause <- s4, loop <- s5, clock <- s6,
  next <- s7, from <- s8, pose <- s9, ended <- s10, overdue <- s11
Bones == INSTANCE Skeleton WITH
  Animation <- AnimationKey, Action <- BoneAction, bones <- s1, parent <- s2,
  controller <- s3, lines <- s4, m_actions <- s5, object <- s6, current <- s7,
  made <- s8, mistakes <- s9
Direct3D == INSTANCE DX9Context WITH
  use <- s1, live <- s2, handed <- s3, device <- s4, context <- s5, screen <- s6,
  taken <- s7, asked <- s8, mistakes <- s9
Scenery == INSTANCE SceneDrawing WITH
  Object <- Renderable, Step <- Motion,
  Scene <- Scene3D, Group <- Group3D, parent <- s1, transform <- s2, objects <- s3,
  drawList <- s4, visible <- s5, m_pCamera <- s6, view <- s7, frame <- s8,
  removed <- s9, deleted <- s10
Painting == INSTANCE Drawing2D WITH
  gl <- s1, stencil <- s2, depth <- s3, clip <- s4, pass <- s5, masked <- s6,
  drawn <- s7

NoneFrom11 == s11 = None
NoneFrom10 == s10 = None /\ NoneFrom11
NoneFrom9 == s9 = None /\ NoneFrom10
NoneFrom8 == s8 = None /\ NoneFrom9
NoneFrom7 == s7 = None /\ NoneFrom8
NoneFrom6 == s6 = None /\ NoneFrom7
NoneFrom5 == s5 = None /\ NoneFrom6
NoneFrom4 == s4 = None /\ NoneFrom5
NoneFrom3 == s3 = None /\ NoneFrom4

Init ==
  \/ part = "resources" /\ Resources!Init /\ NoneFrom7
  \/ part = "layers" /\ Layers!Init /\ NoneFrom10
  \/ part = "opengl" /\ OpenGL!Init /\ NoneFrom7
  \/ part = "effects" /\ Effects!Init /\ NoneFrom9
  \/ part = "glyphs" /\ Glyphs!Init /\ NoneFrom3
  \/ part = "animation" /\ Animated!Init
  \/ part = "skeleton" /\ Bones!Init /\ NoneFrom10
  \/ part = "direct3d" /\ Direct3D!Init /\ NoneFrom10
  \/ part = "scene" /\ Scenery!Init /\ NoneFrom11
  \/ part = "drawing" /\ Painting!Init /\ NoneFrom8

(* A controller is registered once, and a process that died takes no step: *)
(* the parts come to an end.                                               *)
Next ==
  /\ UNCHANGED part
  /\ \/ part = "resources" /\ Resources!Next /\ UNCHANGED <<s7, s8, s9, s10, s11>>
     \/ part = "layers" /\ Layers!Next /\ UNCHANGED <<s10, s11>>
     \/ part = "opengl" /\ OpenGL!Next /\ UNCHANGED <<s7, s8, s9, s10, s11>>
     \/ part = "effects" /\ Effects!Next /\ UNCHANGED <<s9, s10, s11>>
     \/ part = "glyphs" /\ Glyphs!Next /\ UNCHANGED <<s3, s4, s5, s6, s7, s8, s9, s10, s11>>
     \/ part = "animation" /\ Animated!Next
     \/ part = "skeleton" /\ Bones!Next /\ UNCHANGED <<s10, s11>>
     \/ part = "direct3d" /\ Direct3D!Next /\ UNCHANGED <<s10, s11>>
     \/ part = "scene" /\ Scenery!Next /\ UNCHANGED <<s11>>
     \/ part = "drawing" /\ Painting!Next /\ UNCHANGED <<s8, s9, s10, s11>>

Spec == Init /\ [][Next]_vars

-----------------------------------------------------------------------------
(* GraphicResourceMgr: every object belongs to one registered controller.   *)
(* CharacterBasedFont: the map and the slots name each other, and a slot    *)
(* that may be taken is linked.  GraphicDisplayDestination: a frame has its *)
(* effect and no other, and an effect that was replaced leaves nothing      *)
(* behind.                                                                  *)
ResourcesSound == /\ part = "resources" => Resources!ResourcesOwned
                  /\ part = "glyphs" => Glyphs!MapAgrees
                  /\ part = "effects" => Effects!EffectsSound
(* GraphicFilterContainer, LayerCollection: a frame shows what its layers   *)
(* describe.                                                                *)
FramesRendered == [][part = "layers" => Layers!FrameRendered]_vars
(* The targets of the resource controller are all returned after a frame.   *)
ContextRestored == part = "layers" => Layers!ContextRestored
(* GLESGraphicContext, DX9GraphicContext: what they remember is what the     *)
(* library below has, which draws with what was set last, and every object  *)
(* has the references that are held to it.                                  *)
WrappersAgree == /\ part = "opengl" => OpenGL!MirrorsGL
                 /\ part = "direct3d" => Direct3D!ContextSound
(* GraphicAnimation: objects are posed as the time passed says, however it  *)
(* was divided; AnimationModel: an action is deleted once, with its         *)
(* animation.  Scene3D, Scene2D: a frame draws what is visible then, from   *)
(* the eye the camera has then, and nothing that is gone; clipping moves    *)
(* nothing, and scenes do not disturb each other.                           *)
ScenesSound == /\ part = "animation" => Animated!AnimationSound
               /\ part = "skeleton" => Bones!SkeletonSound
               /\ part = "scene" => Scenery!SceneSound
               /\ part = "drawing" => Painting!DrawingSound
=============================================================================
