----------------------------- MODULE GLESContext ----------------------------
(***************************************************************************)
(* GLESGraphicContext and its objects: a wrapper of OpenGL ES that         *)
(* remembers what it set last (the render target, the vertex attributes it *)
(* enabled, the surfaces of each target) and answers from what it          *)
(* remembers.  gl is the state of OpenGL itself, changed by the calls the  *)
(* wrapper makes.  What is modelled reads the same in iphoneGLES and in    *)
(* androidGLES, but for Initialize, which is the one of iphoneGLES.        *)
(*                                                                         *)
(* Pixels, programs, uniforms and fixed-function flags, which the wrapper  *)
(* hands on unseen, are left out.  The caller does not destroy the target it draws  *)
(* into, and destroys with its surfaces the targets that remember them     *)
(* before it creates others, as UtilGraphicResourceController does.        *)
(***************************************************************************)
EXTENDS Naturals, FiniteSets, Functions

CONSTANTS
  None,
  Window,        \* the framebuffer of the window
  Frame,         \* the other framebuffers
  WindowColor, WindowDepth,  \* the renderbuffers of the window
  Texture, Depth,            \* textures, depth renderbuffers
  Buffer,        \* vertex buffers
  Format,        \* vertex buffer formats
  Usage,         \* VertexElement usages: the attribute indices
  Elements       \* of each format: the usages of its elements

Target == {Window} \cup Frame
Surface == {WindowColor, WindowDepth} \cup Texture \cup Depth

VARIABLES
  gl,       \* what is bound, enabled, used and attached in OpenGL
  context,  \* m_renderTarget, m_VertexAttributeFlag, m_pVertexFormat
  faces,    \* of each target: m_pColorSurface and m_pDepthSurface
  alive,    \* the objects created and not destroyed
  vertices, \* the buffer of the last SetVertexBuffer
  aborted   \* the process died of a second delete

vars == <<gl, context, faces, alive, vertices, aborted>>

Blank == [color |-> None, depth |-> None]

\* Initialize, whole: its failures end in Destroy and a context that is not used
Init ==
  /\ gl = [framebuffer |-> Window, arrayBuffer |-> None, attributes |-> {},
           source |-> [u \in Usage |-> None],
           attached |-> [t \in Target |->
             IF t = Window THEN [color |-> WindowColor, depth |-> WindowDepth] ELSE Blank]]
  /\ context = [m_renderTarget |-> Window, m_VertexAttributeFlag |-> {},
                m_pVertexFormat |-> None]
  /\ faces = [t \in Target |->
       IF t = Window THEN [color |-> WindowColor, depth |-> WindowDepth] ELSE Blank]
  /\ alive = {Window, WindowColor, WindowDepth}
  /\ vertices = None
  /\ aborted = FALSE

Kept(kept) == ~aborted /\ UNCHANGED kept

\* a target that is alive remembers the surface
Remembered(s) == \E t \in Target \cap alive : faces[t].color = s \/ faces[t].depth = s

-----------------------------------------------------------------------------
(* Creating objects.                                                       *)

\* no name is bound that a draw reads
Created(o) ==
  /\ o \notin alive
  /\ alive' = alive \cup {o}
  /\ Kept(<<gl, context, faces, vertices, aborted>>)

CreateTexture(t) == t \in Texture /\ ~Remembered(t) /\ Created(t)
CreateVertexBuffer(b) == b \in Buffer /\ Created(b)
CreateVertexBufferFormat(f) == f \in Format /\ Created(f)

\* CreateRenderTarget: glGenFramebuffers, nothing attached
CreateRenderTarget(t) ==
  /\ t \in Frame \ alive
  /\ alive' = alive \cup {t}
  /\ faces' = [faces EXCEPT ![t] = Blank]
  /\ gl' = [gl EXCEPT !.attached[t] = Blank]
  /\ Kept(<<context, vertices, aborted>>)

CreateDepthStencilSurface(d) == d \in Depth /\ ~Remembered(d) /\ Created(d)

\* What OpenGL does with a surface that is deleted: it leaves the framebuffer
\* that is bound, and stays in the others.
Detached(g, s) ==
  LET a == g.attached[g.framebuffer]
  IN  [g EXCEPT !.attached[g.framebuffer] =
         [color |-> IF a.color = s THEN None ELSE a.color,
          depth |-> IF a.depth = s THEN None ELSE a.depth]]

-----------------------------------------------------------------------------
(* Destroying objects.                                                     *)
DestroyTexture(t) ==
  /\ t \in Texture \cap alive
  /\ alive' = alive \ {t}
  /\ gl' = Detached(gl, t)
  /\ Kept(<<context, faces, vertices, aborted>>)

\* Release deletes the renderbuffer and the surface, which is then deleted again:
\* that is undefined, and the process goes on or dies
DestroyDepthStencilSurface(d) ==
  /\ d \in Depth \cap alive
  /\ alive' = alive \ {d}
  /\ gl' = Detached(gl, d)
  /\ aborted' \in BOOLEAN
  /\ Kept(<<context, faces, vertices>>)

DestroyRenderTarget(t) ==
  /\ t \in (Frame \cap alive) \ {context.m_renderTarget}
  /\ alive' = alive \ {t}
  /\ Kept(<<gl, context, faces, vertices, aborted>>)

\* a deleted buffer is unbound, and no attribute is read from it any more
DestroyVertexBuffer(b) ==
  /\ b \in Buffer \cap alive
  /\ alive' = alive \ {b}
  /\ gl' = [gl EXCEPT !.arrayBuffer = IF @ = b THEN None ELSE @,
                      !.source = [u \in Usage |-> IF @[u] = b THEN None ELSE @[u]]]
  /\ vertices' = IF vertices = b THEN None ELSE vertices
  /\ Kept(<<context, faces, aborted>>)

\* a format is plain memory
DestroyVertexBufferFormat(o) ==
  /\ o \in (Format \cap alive) \ {context.m_pVertexFormat}
  /\ alive' = alive \ {o}
  /\ Kept(<<gl, context, faces, vertices, aborted>>)

-----------------------------------------------------------------------------
(* Render targets.                                                         *)
Bind(g, t) == [g EXCEPT !.framebuffer = t]

SetRenderTarget(t) ==
  /\ t \in Target \cap alive
  /\ IF context.m_renderTarget # t
     THEN /\ gl' = Bind(gl, t)
          /\ context' = [context EXCEPT !.m_renderTarget = t]
     ELSE UNCHANGED <<gl, context>>
  /\ Kept(<<faces, alive, vertices, aborted>>)

\* GLESFrameBuffer::SetColorSurface and SetDepthSurface attach to the bound
\* framebuffer, whichever it is
Attach(g, face, s) == [g EXCEPT !.attached[g.framebuffer] = [@ EXCEPT ![face] = s]]

\* the end of SetColorSurface and SetDepthStencilSurface
Rebind(g) == Bind(g, context.m_renderTarget)

SetSurface(t, face, s) ==
  /\ t \in Target \cap alive /\ s \in alive
  /\ faces' = [faces EXCEPT ![t] = [@ EXCEPT ![face] = s]]
  /\ gl' = LET attached == Attach(Bind(gl, t), face, s)
           IN  IF t # context.m_renderTarget THEN Rebind(attached) ELSE attached
  /\ Kept(<<context, alive, vertices, aborted>>)

SetColorSurface(t, s) == s \in Texture /\ SetSurface(t, "color", s)
SetDepthStencilSurface(t, s) == s \in Depth /\ SetSurface(t, "depth", s)

-----------------------------------------------------------------------------
(* Vertices.                                                               *)

\* GetVertexBufferPointer and CommitVertexBuffer: the buffer is bound and filled
CommitVertexBuffer(b) ==
  /\ b \in Buffer \cap alive
  /\ gl' = [gl EXCEPT !.arrayBuffer = b]
  /\ Kept(<<context, faces, alive, vertices, aborted>>)

\* the attributes of the format read the bound buffer; the others are switched
\* off if the wrapper remembers switching them on
SetVertexBuffer(b, f) ==
  /\ b \in Buffer \cap alive
  /\ f \in (Format \cap alive) \cup {None}
  /\ IF f = None
     THEN /\ gl' = [gl EXCEPT !.arrayBuffer = b]
          /\ vertices' = None
     ELSE /\ gl' = [gl EXCEPT
               !.arrayBuffer = b,
               !.source = [u \in Usage |-> IF u \in Elements[f] THEN b ELSE @[u]],
               !.attributes = (@ \ (context.m_VertexAttributeFlag \ Elements[f]))
                                \cup (Elements[f] \ context.m_VertexAttributeFlag)]
          /\ vertices' = b
  /\ context' = [context EXCEPT !.m_pVertexFormat = f,
                                !.m_VertexAttributeFlag = IF f = None THEN @ ELSE Elements[f]]
  /\ Kept(<<faces, alive, aborted>>)

Next ==
  \/ \E f \in Format : CreateVertexBufferFormat(f) \/ DestroyVertexBufferFormat(f)
  \/ \E t \in Target : \/ CreateRenderTarget(t) \/ DestroyRenderTarget(t) \/ SetRenderTarget(t)
                       \/ \E s \in Surface : SetColorSurface(t, s) \/ SetDepthStencilSurface(t, s)
  \/ \E d \in Depth : CreateDepthStencilSurface(d) \/ DestroyDepthStencilSurface(d)
  \/ \E t \in Texture : CreateTexture(t) \/ DestroyTexture(t)
  \/ \E b \in Buffer : \/ CreateVertexBuffer(b) \/ CommitVertexBuffer(b) \/ DestroyVertexBuffer(b)
                       \/ \E f \in Format \cup {None} : SetVertexBuffer(b, f)

Spec == Init /\ [][Next]_vars

-----------------------------------------------------------------------------
\* A surface a target remembers is the one OpenGL has attached, unless it was
\* destroyed under it.
SurfacesAgree ==
  \A t \in Target \cap alive : \A face \in {"color", "depth"} :
    \/ gl.attached[t][face] = faces[t][face]
    \/ faces[t][face] \notin alive

\* What OpenGL draws into and from which vertices is what
\* the wrapper was last told: the current target is the one bound, no attribute of
\* an earlier format is still read, and those of the format read the buffer set.
DrawsAsTold ==
  /\ gl.framebuffer = context.m_renderTarget
  /\ gl.attributes = context.m_VertexAttributeFlag
  /\ vertices # None => \A u \in gl.attributes : gl.source[u] = vertices

MirrorsGL == DrawsAsTold /\ SurfacesAgree

=============================================================================
