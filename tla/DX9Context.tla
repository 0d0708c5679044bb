----------------------------- MODULE DX9Context -----------------------------
(***************************************************************************)
(* DX9GraphicContext, win32D3D9: the Direct3D objects it creates, counted  *)
(* by reference, the plain structures it wraps around some of them, and    *)
(* what the device has set against the render target and the shader        *)
(* program that the context remembers and compares by address.  Addresses  *)
(* are used again: an object gets the lowest that is free.                 *)
(*                                                                         *)
(* The caller destroys a target while another one is set, makes no program *)
(* after it has destroyed the one that is set (it could get the address of *)
(* that one and would never be set), and changes the surfaces of a target  *)
(* that is not set; it destroys a structure before what it borrows.        *)
(* Pixels, render states and the sizes of buffers are left out; a call     *)
(* that fails and undoes what it did changes nothing.                      *)
(***************************************************************************)
EXTENDS Naturals, FiniteSets, Functions, TLC

CONSTANTS
  Address,    \* 1 .. n: where objects and structures can be
  Uses,       \* bound: of each kind of thing how many at once, for each way of use
  MaxReads,   \* bound: surfaces taken from textures
  None

VARIABLES
  use,       \* the way of use
  live,      \* what exists: its kind, the parts it points to, its references
  handed,    \* the handles the caller has
  device,    \* what is set in the device, None without one
  context,   \* m_pRenderTarget, m_currentShaderProgram
  screen,    \* the surfaces of the window that Initialize asked for
  taken,     \* surfaces got from textures, each a reference to its texture
  asked,     \* history: the shaders of the program set last
  mistakes   \* uses and deletes of what is not there

vars == <<use, live, handed, device, context, screen, taken, asked, mistakes>>

Init == /\ use \in Uses
        /\ live = <<>>
        /\ handed = {}
        /\ device = None
        /\ context = [target |-> None, program |-> None]
        /\ screen = [color |-> None, depth |-> None]
        /\ taken = <<>>
        /\ asked = None
        /\ mistakes = {}

-----------------------------------------------------------------------------
\* the device refers to what is set: that object is not gone yet
Bound == IF device = None THEN {} ELSE Range(device)
Free == {a \in Address : \A x \in (DOMAIN live \cup Bound) \ {None} : x[1] # a}
\* the lowest address that is free, and the n objects that come with what is there
New == <<CHOOSE a \in Free : \A b \in Free : a <= b, 0>>
PartsOf(a, n) == [i \in 1 .. n |-> <<a[1], i>>]

Object(k) == [kind |-> k, parts |-> <<>>, refs |-> 1]
Structure(k, parts) == [kind |-> k, parts |-> parts, refs |-> 1]

Release(objects, a) ==
  IF objects[a].refs > 1 THEN [objects EXCEPT ![a].refs = @ - 1]
  ELSE Restrict(objects, DOMAIN objects \ {a})

OfKind(k) == {a \in DOMAIN live : live[a].kind = k}
Holds(a) == a \in handed /\ a \in DOMAIN live
Room(k) == /\ device # None /\ mistakes = {}
           /\ Cardinality(OfKind(k)) < use[k] /\ Free # {}

Initialize ==
  /\ device = None /\ live = <<>> /\ mistakes = {}
  /\ \E a \in {New} :
       LET surfaces == PartsOf(a, 2) IN
       /\ live' = a :> Structure("target", surfaces)
                  @@ [s \in Range(surfaces) |-> Object("surface")]
       /\ screen' = [color |-> surfaces[1], depth |-> surfaces[2]]
       /\ device' = screen' @@ [vertex |-> None, pixel |-> None, texture |-> None]
       /\ context' = [target |-> a, program |-> None]
  /\ UNCHANGED <<use, handed, taken, asked, mistakes>>

\* Release, whole: the destructor calls Destroy, which deletes the target that is set
Destroy ==
  /\ device # None /\ mistakes = {} /\ handed = {}
  /\ live' = Restrict(live, DOMAIN live \ {context.target})
  /\ device' = None
  /\ context' = [target |-> None, program |-> None]
  /\ screen' = [color |-> None, depth |-> None]
  /\ taken' = <<>>
  /\ asked' = None
  /\ UNCHANGED <<use, handed, mistakes>>

-----------------------------------------------------------------------------
(* One Direct3D object is the handle.                                      *)
CreateObject(k) ==
  /\ Room(k)
  /\ \E a \in {New} : /\ live' = live @@ a :> Object(k)
                              /\ handed' = handed \cup {a}
  /\ UNCHANGED <<use, device, context, screen, taken, asked, mistakes>>

CreateVertexBuffer == CreateObject("vertex buffer")
CreateIndexBuffer == CreateObject("index buffer")
CreateDepthStencilSurface == CreateObject("depth")
\* empty, or of pixels: it is released when it cannot be locked
CreateTexture == CreateObject("texture")

InUse(a) == \E b \in DOMAIN live : a \in Range(live[b].parts)

DestroyObject(k, a) ==
  /\ Holds(a) /\ live[a].kind = k /\ ~InUse(a) /\ mistakes = {}
  /\ live' = Release(live, a)
  /\ handed' = handed \ {a}
  /\ UNCHANGED <<use, device, context, screen, taken, asked, mistakes>>

DestroyVertexBuffer(a) == DestroyObject("vertex buffer", a)
DestroyIndexBuffer(a) == DestroyObject("index buffer", a)
DestroyDepthStencilSurface(a) == DestroyObject("depth", a)
DestroyTexture(a) == DestroyObject("texture", a)

-----------------------------------------------------------------------------
(* A structure that owns the objects in it: a vertex format with its       *)
(* declaration, a shader with its constant table, a reader with its        *)
(* surface.                                                                *)
CreateOwner(k, n) ==
  /\ Room(k)
  /\ \E a \in {New} :
       /\ live' = [x \in Range(PartsOf(a, n)) |-> Object("part")]
                  @@ live @@ a :> Structure(k, PartsOf(a, n))
       /\ handed' = handed \cup {a}
  /\ UNCHANGED <<use, device, context, screen, taken, asked, mistakes>>

CreateVertexBufferFormat == CreateOwner("format", 1)
GetRenderTargetData == CreateOwner("reader", 1)
CreateVertexShader == CreateOwner("vertex", 2)
CreatePixelShader == CreateOwner("pixel", 2)

\* The text compiles and the device refuses the shader: the structure is deleted
\* and handed to the caller all the same.
CreateVertexShaderRefused ==
  /\ Room("vertex")
  /\ mistakes' = {<<"handed out", New>>}
  /\ UNCHANGED <<use, live, handed, device, context, screen, taken, asked>>

ReleaseParts(objects, parts) ==
  IF DOMAIN parts = {1} THEN Release(objects, parts[1])
  ELSE Release(Release(objects, parts[1]), parts[2])

DestroyOwner(k, a) ==
  /\ Holds(a) /\ live[a].kind = k /\ ~InUse(a) /\ mistakes = {}
  /\ live' = Restrict(ReleaseParts(live, live[a].parts),
                      DOMAIN ReleaseParts(live, live[a].parts) \ {a})
  /\ handed' = handed \ {a}
  /\ UNCHANGED <<use, device, context, screen, taken, asked, mistakes>>

DestroyVertexBufferFormat(a) == DestroyOwner("format", a)
ReleaseSurfaceData(a) == DestroyOwner("reader", a)
DestroyVertexShader(a) == DestroyOwner("vertex", a)
DestroyPixelShader(a) == DestroyOwner("pixel", a)

-----------------------------------------------------------------------------
(* Render targets borrow their surfaces.                                   *)
CreateRenderTarget ==
  /\ Room("target")
  /\ \E a \in {New} : /\ live' = live @@ a :> Structure("target", <<None, None>>)
                              /\ handed' = handed \cup {a}
  /\ UNCHANGED <<use, device, context, screen, taken, asked, mistakes>>

DestroyRenderTarget(t) ==
  /\ Holds(t) /\ live[t].kind = "target" /\ context.target # t /\ mistakes = {}
  /\ live' = Restrict(live, DOMAIN live \ {t})
  /\ handed' = handed \ {t}
  /\ UNCHANGED <<use, device, context, screen, taken, asked, mistakes>>

\* the surface refers to its texture, and is not released by anyone
GetSurfaceFromTexture(a) ==
  /\ Holds(a) /\ live[a].kind = "texture" /\ mistakes = {}
  /\ Cardinality(DOMAIN taken) < MaxReads /\ a \notin DOMAIN taken
  /\ taken' = taken @@ a :> 1
  /\ live' = [live EXCEPT ![a].refs = @ + 1]
  /\ UNCHANGED <<use, handed, device, context, screen, asked, mistakes>>

SetSurface(t, i, s) ==
  /\ Holds(t) /\ live[t].kind = "target" /\ context.target # t /\ mistakes = {}
  /\ live' = [live EXCEPT ![t].parts[i] = s]
  /\ UNCHANGED <<use, handed, device, context, screen, taken, asked, mistakes>>

SetColorSurface(t, s) == Holds(s) /\ s \in DOMAIN taken /\ SetSurface(t, 1, s)
SetDepthStencilSurface(t, s) == Holds(s) /\ live[s].kind = "depth" /\ SetSurface(t, 2, s)

\* mutant: the depth surface of the last target stays
SetColorOnly(t) == [device EXCEPT !.color = live[t].parts[1]]
SetTargets(t) == [device EXCEPT !.color = live[t].parts[1], !.depth = live[t].parts[2]]

\* to a target that has a colour surface, the context's own or the caller's
SetRenderTarget(t) ==
  /\ t \in OfKind("target") /\ live[t].parts[1] # None /\ mistakes = {} /\ device # None
  /\ IF context.target # t
     THEN /\ context' = [context EXCEPT !.target = t]
          /\ device' = SetTargets(t)
     ELSE UNCHANGED <<context, device>>
  /\ UNCHANGED <<use, live, handed, screen, taken, asked, mistakes>>

-----------------------------------------------------------------------------
(* Programs borrow their shaders.                                          *)
CreateShaderProgram(v, p) ==
  /\ Room("program")
  /\ context.program \in {None} \cup OfKind("program")
  /\ Holds(v) /\ live[v].kind = "vertex" /\ Holds(p) /\ live[p].kind = "pixel"
  /\ \E a \in {New} : /\ live' = live @@ a :> Structure("program", <<v, p>>)
                              /\ handed' = handed \cup {a}
  /\ UNCHANGED <<use, device, context, screen, taken, asked, mistakes>>

Shader(structure) == live[structure].parts[1]

\* the two shaders are set only when the program is another one
SetShaderProgram(g) ==
  /\ Holds(g) /\ live[g].kind = "program" /\ mistakes = {}
  /\ asked' = [vertex |-> Shader(live[g].parts[1]), pixel |-> Shader(live[g].parts[2])]
  /\ IF context.program # g
     THEN /\ context' = [context EXCEPT !.program = g]
          /\ device' = [device EXCEPT !.vertex = Shader(live[g].parts[1]),
                                      !.pixel = Shader(live[g].parts[2])]
     ELSE UNCHANGED <<context, device>>
  /\ UNCHANGED <<use, live, handed, screen, taken, mistakes>>

\* the program that is set is destroyed last, and stays remembered
DestroyShaderProgram(g) ==
  /\ Holds(g) /\ live[g].kind = "program" /\ mistakes = {}
  /\ context.program # g \/ OfKind("program") = {g}
  /\ live' = Restrict(live, DOMAIN live \ {g})
  /\ handed' = handed \ {g}
  /\ UNCHANGED <<use, device, context, screen, taken, asked, mistakes>>

\* SetTexture and DisableTexture of one stage
SetTexture(a) ==
  /\ device # None /\ mistakes = {}
  /\ a = None \/ (Holds(a) /\ live[a].kind = "texture")
  /\ device' = [device EXCEPT !.texture = a]
  /\ UNCHANGED <<use, live, handed, context, screen, taken, asked, mistakes>>

Next ==
  \/ Initialize \/ Destroy
  \/ CreateVertexBuffer \/ CreateIndexBuffer \/ CreateDepthStencilSurface \/ CreateTexture
  \/ CreateVertexBufferFormat \/ GetRenderTargetData \/ CreateRenderTarget
  \/ CreateVertexShader \/ CreateVertexShaderRefused \/ CreatePixelShader
  \/ \E a \in handed :
       \/ DestroyVertexBuffer(a) \/ DestroyIndexBuffer(a)
       \/ DestroyDepthStencilSurface(a) \/ DestroyTexture(a)
       \/ DestroyVertexBufferFormat(a) \/ ReleaseSurfaceData(a)
       \/ DestroyVertexShader(a) \/ DestroyPixelShader(a)
       \/ DestroyRenderTarget(a) \/ DestroyShaderProgram(a)
       \/ GetSurfaceFromTexture(a) \/ SetShaderProgram(a)
       \/ \E b \in handed : \/ SetColorSurface(a, b) \/ SetDepthStencilSurface(a, b)
                            \/ CreateShaderProgram(a, b)
  \/ \E t \in OfKind("target") : SetRenderTarget(t)
  \/ \E a \in handed \cup {None} : SetTexture(a)

Spec == Init /\ [][Next]_vars

-----------------------------------------------------------------------------
\* The device draws with what the caller set last: the surfaces of the target
\* that is remembered and the shaders of the program asked for, although both are
\* set only when their address changes and addresses are used again.
DeviceMatches ==
  device # None =>
    /\ context.target \in OfKind("target")
    /\ <<device.color, device.depth>> = live[context.target].parts
    /\ asked # None => asked = [vertex |-> device.vertex, pixel |-> device.pixel]

Owners(a) == Cardinality({b \in DOMAIN live : /\ live[b].kind \in {"format", "reader", "vertex", "pixel"}
                                              /\ a \in Range(live[b].parts)})

\* Every object has as many references as there are handles, structures and taken
\* surfaces that hold it: what the caller destroys is freed, and nothing else is.
\* Two things escape: a texture whose surface was taken, and what the window gave.
RefsBalanced ==
  device # None =>
    /\ \A a \in DOMAIN live :
         live[a].refs = (IF a \in handed THEN 1 ELSE 0) + Owners(a)
                        + (IF a \in DOMAIN taken THEN 1 ELSE 0)
                        + (IF a \in Range(screen) \/ (live[a].kind = "target" /\ a \notin handed)
                           THEN 1 ELSE 0)
    /\ handed \subseteq DOMAIN live
    /\ \A a \in DOMAIN live : live[a].kind \in {"target", "program"} =>
         Range(live[a].parts) \ {None} \subseteq DOMAIN live

ContextSound == DeviceMatches /\ RefsBalanced
=============================================================================
