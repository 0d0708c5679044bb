----------------------------- MODULE MCPipeline ------------------------------
(***************************************************************************)
(* The pipeline builder, the assembly of a player's pipeline and the       *)
(* procedures it is made of, on small instances.  They are checked side by *)
(* side: part says which one a behaviour is of.  The builder has variables *)
(* of its own, the others keep theirs in s1, s2, ...                       *)
(*                                                                         *)
(* The builder: up to four of thirteen procedures are registered, in every *)
(* order.  Among them are the four of TestPipelineBuilder.m (a source with *)
(* two outputs, two procedures, one that joins them and a destination),    *)
(* shortcuts for them, a loop, a producer without inputs, and pairs of     *)
(* ways to one node of which the longer one has no unlinked output.        *)
(***************************************************************************)
EXTENDS PipelineBuilder

CONSTANTS
  pinA, pinB, pinC, pinD, pinE,
  stream, videodec, audiodec, display, audio,              \* procedures
  Desc, Stream, Inputs, Outputs, Destinations, Failure,    \* of the assembly
  NULL,
  Fragments, Ending, Delay, MaxSeek, SeekTo,             \* of what is heard
  Rates, Format, Second, Sizes, StreamEnd, MaxChanges,   \* of the audio decoder
  LastSegment, Window, Buffers,                          \* of the live stream
  Destination, Reporter, LastTime                        \* of the destinations

(* Numbers of segments and buffers.                                         *)
ASSUME StreamsAssumption ==
  /\ LastSegment \in Nat /\ Window \in Nat /\ Buffers \in Nat
  /\ SeekTo \subseteq Nat
  /\ Rates \subseteq Nat \ {0} /\ Second \in Nat \ {0} /\ Sizes \subseteq Nat
  /\ \A rate \in Rates : Second % rate = 0
  /\ StreamEnd \in Nat /\ LastTime \in Nat

VARIABLES part, s1, s2, s3, s4, s5, s6, s7, s8, s9, s10, s11, s12, s13

From(in, out) == [input |-> in, output |-> out]

MCCatalogue ==
  {From({pinA}, {pinC}), From({pinB}, {pinD}), From({pinC, pinD}, {pinE}), From({pinE}, {}),
   From({pinA}, {}), From({pinC}, {}), From({pinC}, {pinD}), From({pinD}, {pinC}),
   From({pinA, pinC}, {}), From({}, {pinD}), From({pinA, pinC}, {pinD}),
   From({}, {pinD, pinE}), From({pinA, pinC}, {pinD, pinE})}

MCSourceOutputs == {{pinA}, {pinA, pinB}}

(* The procedures VideoPlayer registers, each of which may fail to be made. *)
MCDesc == {stream, videodec, audiodec, display, audio}
MCInputs == (videodec :> {"video"}) @@ (audiodec :> {"audio"}) @@ (display :> {"texture"})
              @@ (audio :> {"sound"}) @@ (stream :> {})
MCOutputs == (videodec :> {"texture"}) @@ (audiodec :> {"sound"}) @@ (stream :> {"video", "audio"})
               @@ (display :> {}) @@ (audio :> {})
MCFailure == {<<"input map">>, <<"output map">>, <<"own">>, <<"map">>, <<"register">>,
              <<"graph">>, <<"build">>}
               \cup {<<d, side, k>> : d \in MCDesc, side \in {"in", "out"},
                                     k \in {"video", "audio", "texture", "sound"}}

Assembly == INSTANCE PipelineAssembly WITH
  ppl <- s1, stage <- s2, unlinked <- s3, current <- s4, left <- s5
Audio == INSTANCE AudioPlay WITH
  LastSent <- Fragments, End <- Ending, Tolerance <- Delay, Target <- SeekTo,
  sent <- s1, position <- s2, progress <- s3, seeks <- s4, m_bufferQueue <- s5,
  m_source <- s6, queued <- s7, processed <- s8, state <- s9, buffers <- s10,
  heard <- s11, pc <- s12, local <- s13
Decoder == INSTANCE AudioDecoder WITH
  End <- StreamEnd, None <- NULL,
  swr <- s1, currentFormat <- s2, currentRate <- s3, nextPTS <- s4, nextTimeBase <- s5,
  bufferSize <- s6, output <- s7, position <- s8, slack <- s9
(* The segment after the third begins as the first.                         *)
Live == INSTANCE HLSDownload WITH
  Prefix <- [segment \in 1..LastSegment |-> segment % 3],
  shown <- s1, context <- s2, running <- s3, urlset <- s4, lines <- s5, pending <- s6,
  urls <- s7, fetching <- s8, ts <- s9, met <- s10, lost <- s11
Slowest == INSTANCE DestinationProgress WITH
  m_destinations <- s1, m_destinationProgress <- s2, m_lastProgress <- s3,
  current <- s4, mistaken <- s5, crashed <- s6

slots  == <<s1, s2, s3, s4, s5, s6, s7, s8, s9, s10, s11, s12, s13>>
mcVars == <<part, vars, slots>>

(* The slots a part does not use.                                           *)
NoneFrom12 == s12 = NULL /\ s13 = NULL
NoneFrom10 == s10 = NULL /\ s11 = NULL /\ NoneFrom12
NoneFrom7  == s7 = NULL /\ s8 = NULL /\ s9 = NULL /\ NoneFrom10
NoneFrom6  == s6 = NULL /\ NoneFrom7
NoneFrom1  == s1 = NULL /\ s2 = NULL /\ s3 = NULL /\ s4 = NULL /\ s5 = NULL /\ NoneFrom6

MCInit ==
  /\ \/ part = "builder" /\ NoneFrom1
     \/ part = "assembly" /\ Assembly!Init /\ NoneFrom6
     \/ part = "audio" /\ Audio!Init
     \/ part = "decoder" /\ Decoder!Init /\ NoneFrom10
     \/ part = "live" /\ Live!Init /\ NoneFrom12
     \/ part = "slowest" /\ Slowest!Init /\ NoneFrom7
  /\ part # "builder" => registry = <<>>
  /\ Init
  /\ part # "builder" => created[1].output = {pinA}

(* A pipeline is built once, and a stream is over some day.                 *)
MCNext ==
  /\ UNCHANGED part
  /\ \/ part = "builder" /\ Next /\ UNCHANGED slots
     \/ /\ UNCHANGED vars
        /\ \/ part = "assembly" /\ Assembly!Next
              /\ UNCHANGED <<s6, s7, s8, s9, s10, s11, s12, s13>>
           \/ part = "audio" /\ Audio!Next
           \/ part = "decoder" /\ Decoder!Next /\ UNCHANGED <<s10, s11, s12, s13>>
           \/ part = "live" /\ Live!Next /\ UNCHANGED <<s12, s13>>
           \/ part = "slowest" /\ Slowest!Next
              /\ UNCHANGED <<s7, s8, s9, s10, s11, s12, s13>>

MCSpec == MCInit /\ [][MCNext]_mcVars

-----------------------------------------------------------------------------
(* PipelineAssembly: whatever fails on the way, a procedure is whole while  *)
(* the pipeline owns it and gone when it does not but for the events of its *)
(* outputs, both ends of every connection know it, and nothing that was     *)
(* released is used.                                                        *)
AssemblySound == part = "assembly" => Assembly!AssemblySound

(* AudioPlayDestination: nothing is heard twice or before its time, and the *)
(* three queues of buffers agree.  FFMpegAudioDecoder: its clock runs with  *)
(* the stream, and frames are converted from the format they have.          *)
(* HLSDownloadUrl: segments are passed on in the order of the stream, none  *)
(* twice and none left out.  PlayerControl::ReportProgress: the clock waits *)
(* for the slowest destination.                                             *)
StreamsSound == /\ part = "audio" => Audio!HeardOnce /\ Audio!QueuesAgree
                /\ part = "decoder" => Decoder!DecoderSound
                /\ part = "live" => Live!SegmentsInOrder
                /\ part = "slowest" => Slowest!SlowestFirst
=============================================================================
