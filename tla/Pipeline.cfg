SPECIFICATION MCSpec
CONSTANTS
  pinA = pinA
  pinB = pinB
  pinC = pinC
  pinD = pinD
  pinE = pinE
  Pin = {pinA, pinB, pinC, pinD, pinE}
  Catalogue <- MCCatalogue
  MaxRegistered = 4
  SourceOutputs <- MCSourceOutputs
  NULL = NULL
  Desc <- MCDesc
  Stream = stream
  Inputs <- MCInputs
  Outputs <- MCOutputs
  Destinations = {display}
  Failure <- MCFailure
  stream = stream
  videodec = videodec
  audiodec = audiodec
  display = display
  audio = audio
  Fragments = 4
  Ending = 7
  Delay = 2
  MaxSeek = 1
  SeekTo = {0, 2}
  Rates = {2, 3}
  Format = {"fltp", "s16"}
  Second = 6
  Sizes = {1, 2}
  StreamEnd = 12
  MaxChanges = 2
  LastSegment = 4
  Window = 2
  Buffers = 1
  Destination = {d1, d2, d3}
  Reporter = {d1, d2, d3, voice}
  LastTime = 4
INVARIANTS
  FindsLinking
  AllLinked
  PipelineComplete
  AssemblySound
  StreamsSound
PROPERTIES
  ExploredNodesStay
CHECK_DEADLOCK FALSE
