SPECIFICATION Spec
CONSTANTS
  None = None
  Context = {x1, x2}
  Controller = {c1, c2, c3}
  Id = {1, 2}
  Screens = 2
  Formats = 2
  Root = root
  Group = {group}
  Scene = {s1, s2}
  ScreenTarget = ScreenTarget
  MaxTargets = 4
  MaxFilters = 2
  MaxNested = 2
  WindowBuffer = WindowBuffer
  FrameBuffer = {f1}
  WindowColor = WindowColor
  WindowDepth = WindowDepth
  Texture = {t1}
  Depth = {d1}
  Buffer = {b1, b2}
  Usage = {position, tex0}
  xyz = xyz
  xyz_t = xyz_t
  position = position
  tex0 = tex0
  Single = {"Mosaic", "Fade"}
  Hdr = "HDR"
  MaxEffects = 2
  Char = {a, b, c}
  PerBlock = 2
  MaxBlocks = 2
  MaxLength = 2
  MaxStrings = 1
  Action = {"turn", "bend"}
  Frames <- MCFrames
  Stamp = {0, 1, 3}
  Interval = {0, 1, 2, 5}
  Jump = {0}
  Bone = {bone1, bone2}
  AnimationKey = {k1, k2}
  BoneAction = {a1, a2}
  MaxMade = 3
  Address = {1, 2, 3, 4, 5, 6}
  Uses <- MCUses
  MaxReads = 1
  Renderable = {o1, o2}
  Scene3D = Scene3D
  Group3D = Group3D
  Camera = Camera
  Node = {n}
  Motion = {s}
  MaxSteps = 1
  Edge = 2
  Boxes <- MCBoxes
  Clips <- MCClips
INVARIANTS
  ResourcesSound
  ContextRestored
  WrappersAgree
  ScenesSound
PROPERTY
  FramesRendered
CHECK_DEADLOCK FALSE
