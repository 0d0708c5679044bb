-------------------------- MODULE GraphicResources --------------------------
(***************************************************************************)
(* Who owns the objects of a graphic context: GraphicResourceMgr, which    *)
(* keeps the controllers registered for each context and for each id, and  *)
(* UtilGraphicResourceController, which creates the screen textures, their *)
(* render targets, the depth surface, the quad and the vertex formats when *)
(* it is registered and destroys them when it is unregistered.  Any call   *)
(* that creates an object may fail.                                        *)
(*                                                                         *)
(* A controller is registered once, as in the player: it is created for    *)
(* the registration and deleted after it.  No code calls ResetDevice,      *)
(* DestroyDevice or AddSubController; they are left out.                   *)
(***************************************************************************)
EXTENDS Naturals, Sequences, FiniteSets, SequencesExt

CONSTANTS
  Context,          \* graphic contexts
  Controller,       \* UtilGraphicResourceController objects
  Id,               \* controller ids
  None,
  Screens,          \* MAX_SCREEN_TEXTURE_COUNT
  Formats           \* FormatType_Num

VARIABLES
  m_controllers,    \* of each context: its set of controllers, or None
  m_controllerIDs,  \* of each id: its context and controller, or None
  held,             \* of each controller: the handles it keeps
  live,             \* the objects of each context
  mistakes,         \* handles destroyed that no object has
  unused            \* controllers that have not been registered

vars == <<m_controllers, m_controllerIDs, held, live, mistakes, unused>>

NoHandles == [m_allScreenTexture |-> <<>>, m_depthSurface |-> {}, m_allScreenRenderTarget |-> <<>>,
              m_unengagedRenderTargetIDs |-> {}, m_screenStrchQuad |-> {}, m_vertexBufferFormat |-> {}]

Init == /\ m_controllers = [x \in Context |-> None]
        /\ m_controllerIDs = [i \in Id |-> None]
        /\ held = [c \in Controller |-> NoHandles]
        /\ live = [x \in Context |-> {}]
        /\ mistakes = {}
        /\ unused = Controller

-----------------------------------------------------------------------------
(* The context hands out numbers that no live object has.                  *)
FreshHandles(x, count) ==
  LET last == CHOOSE n \in live[x] \cup {0} : \A m \in live[x] : m <= n
  IN  [k \in 1 .. count |-> last + k]

\* the calls of OnInitializeResource that create an object, in their order
Stages == [k \in 1 .. Screens |-> "texture"] \o <<"depth">> \o [k \in 1 .. Screens |-> "target"]
            \o <<"quad">> \o [k \in 1 .. Formats |-> "format"]

\* The handles kept when the first done calls succeeded.
Created(c, handles, done) ==
  LET of(kind) == [k \in 1 .. done |-> IF Stages[k] = kind THEN handles[k] ELSE 0]
      made(kind) == SelectSeq(of(kind), LAMBDA h : h # 0)
  IN  [m_allScreenTexture |-> held[c].m_allScreenTexture \o made("texture"),
       m_depthSurface |-> ToSet(made("depth")),
       m_allScreenRenderTarget |-> held[c].m_allScreenRenderTarget \o made("target"),
       m_unengagedRenderTargetIDs |->
         held[c].m_unengagedRenderTargetIDs
           \cup {Len(held[c].m_allScreenRenderTarget) + k - 1 : k \in 1 .. Len(made("target"))},
       m_screenStrchQuad |-> ToSet(made("quad")),
       m_vertexBufferFormat |-> ToSet(made("format"))]

\* OnDestroyResource: the objects destroyed and what the controller keeps.  The
\* textures are cleared twice and the list of render targets not at all.
Destroyed(h) == h.m_vertexBufferFormat \cup h.m_depthSurface \cup ToSet(h.m_allScreenTexture)
                  \cup ToSet(h.m_allScreenRenderTarget) \cup h.m_screenStrchQuad
Kept(h) == [NoHandles EXCEPT !.m_allScreenRenderTarget = h.m_allScreenRenderTarget]

\* DestroyResource of a set of controllers
DestroyResources(x, controllers) ==
  LET gone == UNION {Destroyed(held[c]) : c \in controllers}
  IN  /\ live' = [live EXCEPT ![x] = @ \ gone]
      /\ mistakes' = mistakes \cup (gone \ live[x])
      /\ held' = [c \in Controller |-> IF c \in controllers THEN Kept(held[c]) ELSE held[c]]

\* InitializeResource, all of it
InitializeResource(x, c) ==
  LET handles == FreshHandles(x, Len(Stages))
  IN  /\ held' = [held EXCEPT ![c] = Created(c, handles, Len(Stages))]
      /\ live' = [live EXCEPT ![x] = @ \cup ToSet(handles)]
      /\ UNCHANGED mistakes

\* InitializeResource that fails after done calls: what was created is destroyed
InitializeFails(x, c, done) ==
  LET handles == FreshHandles(x, done)
      made == Created(c, handles, done)
      there == live[x] \cup ToSet(handles)
  IN  /\ held' = [held EXCEPT ![c] = Kept(made)]
      /\ live' = [live EXCEPT ![x] = there \ Destroyed(made)]
      /\ mistakes' = mistakes \cup (Destroyed(made) \ there)

-----------------------------------------------------------------------------
(* The operations of GraphicResourceMgr.                                   *)
ControllersOf(x) == IF m_controllers[x] = None THEN {} ELSE m_controllers[x]

RegisterController(id, x, c) ==
  /\ c \in unused /\ unused' = unused \ {c}
  /\ IF m_controllerIDs[id] # None \/ c \in ControllersOf(x)
     THEN UNCHANGED <<m_controllers, m_controllerIDs, held, live, mistakes>>
     ELSE \/ /\ InitializeResource(x, c)
             /\ m_controllers' = [m_controllers EXCEPT ![x] = ControllersOf(x) \cup {c}]
             /\ m_controllerIDs' = [m_controllerIDs EXCEPT ![id] = <<x, c>>]
          \/ /\ \E done \in 0 .. Len(Stages) - 1 : InitializeFails(x, c, done)
             /\ UNCHANGED <<m_controllers, m_controllerIDs>>

UnregisterController(id) ==
  /\ m_controllerIDs[id] # None
  /\ LET x == m_controllerIDs[id][1]
         c == m_controllerIDs[id][2]
     IN  /\ DestroyResources(x, {c})
         /\ m_controllers' = [m_controllers EXCEPT ![x] = IF @ = {c} THEN None ELSE @ \ {c}]
  /\ m_controllerIDs' = [m_controllerIDs EXCEPT ![id] = None]
  /\ UNCHANGED unused

\* Destroy, and Initialize, which begins with it
Destroy ==
  /\ LET registered == UNION {ControllersOf(x) : x \in Context}
         gone(x) == UNION {Destroyed(held[c]) : c \in ControllersOf(x)}
     IN  /\ live' = [x \in Context |-> live[x] \ gone(x)]
         /\ mistakes' = mistakes \cup UNION {gone(x) \ live[x] : x \in Context}
         /\ held' = [c \in Controller |-> IF c \in registered THEN Kept(held[c]) ELSE held[c]]
  /\ m_controllers' = [x \in Context |-> None]
  /\ m_controllerIDs' = [i \in Id |-> None]
  /\ UNCHANGED unused

Next == \/ \E id \in Id, x \in Context, c \in Controller : RegisterController(id, x, c)
        \/ \E id \in Id : UnregisterController(id)
        \/ Destroy

Spec == Init /\ [][Next]_vars

-----------------------------------------------------------------------------
GetController(id) == IF m_controllerIDs[id] = None THEN None ELSE m_controllerIDs[id][2]

\* The maps by context and by id name the same controllers: what UnregisterController asserts.
MapsAgree ==
  /\ \A x \in Context : ControllersOf(x) =
       {m_controllerIDs[i][2] : i \in {j \in Id : m_controllerIDs[j] # None /\ m_controllerIDs[j][1] = x}}
  /\ \A x \in Context : m_controllers[x] # {}
  /\ \A i, j \in Id : i # j /\ GetController(i) # None => GetController(i) # GetController(j)

\* Every object of a context belongs to exactly one controller registered for
\* it, whichever call failed, and none is destroyed twice.
ObjectsOwned ==
  /\ mistakes = {}
  /\ \A x \in Context :
       /\ live[x] = UNION {Destroyed(held[c]) : c \in ControllersOf(x)}
       /\ \A c, d \in ControllersOf(x) : c # d => Destroyed(held[c]) \cap Destroyed(held[d]) = {}

\* Every id the controller lends has a texture and a render target.
TargetsBacked ==
  \A x \in Context : \A c \in ControllersOf(x) : \A t \in held[c].m_unengagedRenderTargetIDs :
    t < Len(held[c].m_allScreenTexture) /\ t < Len(held[c].m_allScreenRenderTarget)

ResourcesOwned == MapsAgree /\ ObjectsOwned /\ TargetsBacked

=============================================================================
