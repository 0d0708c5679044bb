--------------------------- MODULE DisplayEffects ---------------------------
(***************************************************************************)
(* The effects of GraphicDisplayDestination (the version with Effects/):    *)
(* EffectManager creates the one asked for, the five effects of one pass    *)
(* and ShaderHDR draw with programs of their own, and the display draws     *)
(* with the program that was in use when it was initialised.  They share   *)
(* one OpenGL ES context, which keeps the program, target, viewport,       *)
(* textures and uniforms of whoever set them last.                         *)
(*                                                                         *)
(* A picture is the program that drew it and the pictures it read.  The    *)
(* targets of the filter container are LayerRendering's, the slot of the   *)
(* request is RequestSlot's: here one action each.                         *)
(***************************************************************************)
EXTENDS Naturals, Sequences, FiniteSetsExt

CONSTANTS
  None,
  Single,      \* effects of one pass: Mosaic, Fade, Blur, Sketch, Sharpening
  Hdr,         \* ShaderHDR
  MaxEffects   \* bound: effects created

Effect == Single \cup {Hdr}

VARIABLES
  gl,        \* OpenGL and m_currentShaderProgram: what is bound, programs, uniforms
  objects,   \* shaders, textures, targets and surfaces created and not destroyed
  display,   \* m_program of the DisplayShader, None before Initialize
  filter,    \* m_pCurrentFilter
  request,   \* m_changeEffectRequest
  shown,     \* history: the effect of the frame presented last, and its picture
  created,   \* effects created so far
  crashed    \* Destroy has used m_pPlayerContext after setting it to NULL

vars == <<gl, objects, display, filter, request, shown, created, crashed>>

Program(pass, n) == [pass |-> pass, of |-> n]
DefaultProgram == Program("default", 0)
NoProgram == Program("none", 0)

Passes == <<"base", "bloom", "blurX", "blurY", "tone">>
SamplerNames(pass) == IF pass = "tone" THEN {"u_texture", "gauss_texture"} ELSE {"u_texture"}
\* the uniform the pixel shader of an effect of one pass reads besides its sampler
Parameter(type) ==
  CASE type = "Mosaic" -> "u_size" [] type = "Fade" -> "u_fade" [] OTHER -> "u_offset"
\* the uniforms a program reads besides its samplers
Uniforms(pass) ==
  CASE pass \in Single -> {Parameter(pass)}
    [] pass = "bloom" -> {"u_transform", "u_texTransform", "imgH", "imgW", "AveLum"}
    [] pass = "blurX" -> {"u_transform", "u_texTransform", "imgW"}
    [] pass = "blurY" -> {"u_transform", "u_texTransform", "imgH"}
    [] pass = "tone" -> {"u_transform", "u_texTransform", "Key", "AveLum"}
    [] OTHER -> {"u_transform", "u_texTransform"}

Drawn(pass, read) == [by |-> pass, read |-> read]
Video == Drawn("decoder", <<>>)
Garbage == Drawn("undefined", <<>>)
Textured(pass, picture) == Drawn(pass, [s \in {"u_texture"} |-> picture])

\* the textures of the k-th effect, if it is ShaderHDR; the others are the
\* decoded picture and the screen texture the container draws into
Scale(i, k) == <<i, k>>
Swap == <<2, 0>>
Frame == <<3, 0>>
Window == <<4, 0>>
SizeOf(texture) == IF texture \in {Swap, Window} THEN "screen" ELSE "small"

Init == /\ gl = [program |-> DefaultProgram, current |-> DefaultProgram, programs |-> {DefaultProgram},
                 set |-> {}, stage |-> {},
                 target |-> Window, viewport |-> "screen",
                 unit |-> <<Frame, Frame>>, picture |-> {}]
        /\ objects = {}
        /\ display = None
        /\ filter = None
        /\ request = [isValid |-> FALSE, effectType |-> None]
        /\ shown = None
        /\ created = 0
        /\ crashed = FALSE

-----------------------------------------------------------------------------
(* OpenGL, as the context calls it: each takes gl and gives what it becomes. *)

\* a program that was destroyed while in use stays until another is used
SetShaderProgram(g, p) ==
  [g EXCEPT !.current = p,
            !.program = IF p \in g.programs \cup {@, NoProgram} THEN p ELSE @]
SetRenderTarget(g, texture) == [g EXCEPT !.target = texture]
SetViewPort(g, size) == [g EXCEPT !.viewport = size]
SetTexture(g, stage, texture) == [g EXCEPT !.unit[stage + 1] = texture]
\* the uniforms of the program in use
SetUniforms(g, names) == [g EXCEPT !.set = @ \cup {<<g.program, n>> : n \in names}]

\* the sampler of the program in use is set to stage 0, whatever the stage
SetShaderTexture(g, name, stage, texture) ==
  SetTexture([g EXCEPT !.stage = {s \in @ : s[1] # g.program \/ s[2] # name}], stage, texture)

\* the stage a sampler reads: 0 unless it was set to another
StageOf(g, name) == IF <<g.program, name>> \in g.stage THEN 1 ELSE 0

PictureIn(g, texture) ==
  IF texture = Frame THEN Video
  ELSE IF \E p \in g.picture : p[1] = texture THEN (CHOOSE p \in g.picture : p[1] = texture)[2]
  ELSE Garbage

\* DrawPrimitive of a quad that covers the target; reading the texture that is
\* drawn into, or a uniform that was never set, gives anything
DrawPrimitive(g) ==
  LET pass == g.program.pass
      source == [s \in SamplerNames(pass) |-> g.unit[StageOf(g, s) + 1]]
      sound == /\ g.program # NoProgram
               /\ \A s \in DOMAIN source : source[s] # g.target
               /\ \A n \in Uniforms(pass) : <<g.program, n>> \in g.set
               /\ g.viewport = SizeOf(g.target)
      image == IF sound THEN Drawn(pass, [s \in DOMAIN source |-> PictureIn(g, source[s])])
               ELSE Garbage
  IN  [g EXCEPT !.picture = {p \in @ : p[1] # g.target} \cup {<<g.target, image>>}]

-----------------------------------------------------------------------------
(* Creation and destruction of effects.  An outcome is the state after it. *)
Object(kind, pass) == [kind |-> kind, pass |-> pass, of |-> created + 1]
Outcome(g, made, kept) == [gl |-> g, objects |-> objects \cup made, filter |-> kept]
NewFilter(type, unlinked) == [type |-> type, of |-> created + 1, unlinked |-> unlinked]

\* what the five effects create: a vertex shader that makes any quad cover the
\* target, a pixel shader that reads one texture, and their program
Shaders(type) == {Object("vertex", type), Object("pixel", type)}
\* when a step of Initialize fails Destroy destroys what there is, but for the
\* vertex shader, whose test names the pixel shader
SingleFailures(type) ==
  {Outcome(gl, made, None) : made \in {{}, {Object("vertex", type)}}}
SingleInitialize(type) ==
  SingleFailures(type)
  \cup {Outcome([gl EXCEPT !.programs = @ \cup {Program(type, created + 1)}],
                Shaders(type), NewFilter(type, {}))}

\* ShaderHDR::Initialize stops at the shader that does not compile, the first of
\* them the vertex shader, and destroys nothing; a program that does not link is NULL
HdrObjects(compiled) ==
  {Object("texture", "scale0"), Object("texture", "scale1"), Object("surface", "depth"),
   Object("target", "scale0"), Object("target", "scale1")}
  \cup {Object("vertex", Hdr) : k \in 1 .. Min({compiled, 1})}
  \cup {Object("pixel", Passes[k - 1]) : k \in 2 .. compiled}
HdrInitialize(compiled, unlinked) ==
  LET linked == {Passes[k - 1] : k \in 2 .. compiled} \ unlinked
  IN  Outcome([gl EXCEPT !.programs = @ \cup {Program(p, created + 1) : p \in linked}],
              HdrObjects(compiled),
              IF compiled = Len(Passes) + 1 THEN NewFilter(Hdr, unlinked) ELSE None)

CreateEffect(type) ==
  IF type = Hdr
  THEN {HdrInitialize(compiled, unlinked) :
          compiled \in 0 .. Len(Passes) + 1, unlinked \in {{}, {"base"}, {"tone"}}}
  ELSE SingleInitialize(type)

\* mutant: Destroy keeps the program
KeepsProgram(g, p) == g
DestroyShaderProgram(g, p) == [g EXCEPT !.programs = @ \ {p}]

\* Destroy of the five effects: their program and pixel shader
SingleDestroy(f) ==
  [Outcome(DestroyShaderProgram(gl, Program(f.type, f.of)), {}, None)
     EXCEPT !.objects = @ \ {[kind |-> "pixel", pass |-> f.type, of |-> f.of]}]

\* the destructor of ShaderHDR destroys nothing
ReleaseEffect ==
  IF filter = None \/ filter.type = Hdr THEN Outcome(gl, {}, None) ELSE SingleDestroy(filter)

-----------------------------------------------------------------------------
(* Drawing.                                                                *)

\* DisplayGeometry::Render: SetShader, CommitChanges, SetTexture
DisplayRender(g) ==
  DrawPrimitive(SetTexture(SetUniforms(SetShaderProgram(g, display), Uniforms("default")), 0, Frame))

\* Render of the five effects
SingleInUse(g, f) ==
  SetUniforms(SetShaderProgram(g, Program(f.type, f.of)), {Parameter(f.type)})
SingleRender(g, f) == DrawPrimitive(SetTexture(SingleInUse(g, f), 0, Swap))

ProgramOf(f, pass) == IF pass \in f.unlinked THEN NoProgram ELSE Program(pass, f.of)
InUse(g, f, pass) == SetUniforms(SetShaderProgram(g, ProgramOf(f, pass)), Uniforms(pass))

\* the first four passes of ShaderHDR::Render
SmallPass(g, f, pass, from, into) ==
  DrawPrimitive(SetTexture(InUse(SetViewPort(SetRenderTarget(g, into), "small"), f, pass), 0, from))

HdrRender(g, f) ==
  LET scale == [i \in {0, 1} |-> Scale(i, f.of)]
      base == SmallPass(g, f, "base", Swap, scale[0])
      bloom == SmallPass(base, f, "bloom", scale[0], scale[1])
      blurX == SmallPass(bloom, f, "blurX", scale[1], scale[0])
      blurY == SmallPass(blurX, f, "blurY", scale[0], scale[1])
      tone == InUse(SetViewPort(SetRenderTarget(blurY, g.target), g.viewport), f, "tone")
  IN  DrawPrimitive(SetShaderTexture(SetShaderTexture(tone, "gauss_texture", 1, scale[1]),
                                     "u_texture", 0, Swap))

\* GraphicManager::Render: with a filter, the display draws into the screen
\* texture and the filter from there into the window
Rendered(g, f) ==
  IF f = None THEN DisplayRender(g)
  ELSE LET content == SetRenderTarget(DisplayRender(SetRenderTarget(g, Swap)), Window)
       IN  IF f.type = Hdr THEN HdrRender(content, f) ELSE SingleRender(content, f)

-----------------------------------------------------------------------------
\* DisplayShader::Initialize: the program of the context at that moment
Initialize == /\ ~crashed /\ display = None
              /\ display' = gl.current
              /\ request' = [request EXCEPT !.isValid = FALSE]
              /\ UNCHANGED <<gl, objects, filter, shown, created, crashed>>

SetEffect(type) ==
  /\ ~crashed /\ display # None
  /\ request' = [isValid |-> TRUE, effectType |-> type]
  /\ UNCHANGED <<gl, objects, display, filter, shown, created, crashed>>

\* what the request, if it is valid, makes of the effect before the frame is drawn
Unchanged == Outcome(gl, {}, filter)
Changes ==
  IF ~request.isValid THEN {Unchanged}
  ELSE IF request.effectType = None THEN {ReleaseEffect}
  ELSE LET old == ReleaseEffect IN
       {[new EXCEPT !.objects = @ \ (objects \ old.objects),
                    !.gl.programs = @ \ (gl.programs \ old.gl.programs)] :
          new \in CreateEffect(request.effectType)}

\* UpdateContent, when a picture has come in: the request, the frame, Present
UpdateContent ==
  /\ ~crashed /\ display # None
  /\ request.isValid /\ request.effectType # None => created < MaxEffects
  /\ \E change \in Changes :
       LET g == Rendered(change.gl, change.filter) IN
       /\ gl' = g
       /\ objects' = change.objects
       /\ filter' = change.filter
       /\ shown' = [effect |-> change.filter, picture |-> PictureIn(g, Window)]
  /\ request' = [request EXCEPT !.isValid = FALSE]
  /\ created' = IF request.isValid /\ request.effectType # None THEN created + 1 ELSE created
  /\ UNCHANGED <<display, crashed>>

\* Destroy, after the effect is released, goes on with m_pPlayerContext = NULL
Destroy ==
  /\ ~crashed /\ display # None
  /\ crashed' = (filter # None)
  /\ gl' = ReleaseEffect.gl /\ objects' = ReleaseEffect.objects /\ filter' = None
  /\ display' = None
  /\ UNCHANGED <<request, shown, created>>

Next == \/ Initialize
        \/ \E type \in Effect \cup {None} : SetEffect(type)
        \/ UpdateContent
        \/ Destroy

Spec == Init /\ [][Next]_vars

-----------------------------------------------------------------------------
\* A frame shows the picture of the video drawn by the display's own program,
\* with the effect of that frame, and no other, over it; ShaderHDR's needs all
\* its programs to have linked.  Effects that came and went leave no program,
\* target, viewport or texture set that a later frame draws with.
EffectShown ==
  shown # None =>
    LET plain == Textured("default", Video)
        effect == shown.effect
    IN  IF effect = None THEN shown.picture = plain
        ELSE IF effect.type # Hdr THEN shown.picture = Textured(effect.type, plain)
        ELSE effect.unlinked = {} =>
               shown.picture.by = "tone" /\ shown.picture.read["u_texture"] = plain

\* The five effects do not leak their program or pixel shader, nor does a program
\* in use disappear: those that live are the filter's.
EffectsOwned ==
  LET owners == IF filter = None THEN {} ELSE {<<filter.type, filter.of>>} IN
  /\ \A p \in gl.programs : p.pass \in Single => <<p.pass, p.of>> \in owners
  /\ \A o \in objects : o.kind = "pixel" /\ o.pass \in Single => <<o.pass, o.of>> \in owners
  /\ filter # None /\ filter.type \in Single =>
       Program(filter.type, filter.of) \in gl.programs
  /\ display # None => display \in gl.programs

EffectsSound == EffectShown /\ EffectsOwned

=============================================================================
