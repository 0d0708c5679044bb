------------------------------ MODULE Playback -------------------------------
(***************************************************************************)
(* Playing and seeking: the clock of PlayerControl (Update), the source    *)
(* FFMpegStream, the decoder FFMpegVideoDecoder and the display            *)
(* GraphicDisplayDestination, each on a worker of its own, and the threads *)
(* of the application that ask for a seek or an effect.                    *)
(*                                                                         *)
(* Times are counted in steps of the stream: there is a frame at each of   *)
(* 0..Last.  The procedures run from the start until the end of the stream *)
(* (PlayerControl has starting and stopping), and the queues between them  *)
(* are bounded sequences (PipelineConnection has the detail).              *)
(***************************************************************************)
EXTENDS Integers, Sequences, RequestSlot

CONSTANTS
  Last,               \* time of the last frame
  Interval,           \* time between two updates of the clock
  Tolerance,          \* TIME_TOLERANCE
  DisplayTolerance,   \* DISPLAY_TIME_TOLERANCE
  Wrap,               \* 2^32: the clock compares in uint32
  Capacity,           \* buffers of a connection
  Effect,             \* what the application may ask to be shown
  MaxRequests         \* bound on the seeks and effects asked for

(* The clock may run ahead of the display by its tolerance and what passes  *)
(* between two updates: 300 ms and what a turn of the control task takes,   *)
(* against the 2 s of the display.                                          *)
ASSUME PlaybackAssumption ==
  /\ None \notin Effect
  /\ Last \in Nat /\ Interval \in Nat /\ Tolerance \in Nat /\ DisplayTolerance \in Nat
  /\ Wrap \in Nat
  /\ Interval + Tolerance <= DisplayTolerance
  /\ Last + Interval + Tolerance < Wrap

VARIABLES
  progress,           \* m_progress of the clock
  status,             \* m_status: "Playing" or "Pending"
  lastProgress,       \* m_lastProgress: what the display has reported
  clock,              \* where the clock is, and the progress it has read
  stopped,            \* the end of the stream has stopped the clock
  source,             \* where the source is
  stream,             \* the next frame av_read_frame returns
  packets,            \* packets between the source and the decoder
  decoder,            \* m_lastPts and m_lastTimeStamp
  frames,             \* frames between the decoder and the display
  display,            \* where the display is
  effectSlot, effectRequest, effectAsker, effectWanted, effectTaker,
  effectUsed,         \* the slot of the effect; effectUsed is what is shown
  seeks, effects      \* counted for the bounds

clockVars == <<status, clock>>
sourceVars == <<source, stream>>
effectVars == <<effectSlot, effectRequest, effectAsker, effectWanted,
                effectTaker, effectUsed>>
vars == <<slotVars, progress, lastProgress, clockVars, stopped, sourceVars,
          packets, decoder, frames, display, effectVars, seeks, effects>>

E == INSTANCE RequestSlot WITH
       Value <- Effect, slot <- effectSlot, request <- effectRequest,
       asker <- effectAsker, wanted <- effectWanted, taker <- effectTaker,
       used <- effectUsed

Init == /\ SlotInit
        /\ E!SlotInit
        /\ progress = 0
        /\ status = "Pending"
        /\ lastProgress = 0
        /\ clock = [at |-> "update", read |-> 0]
        /\ stopped = FALSE
        /\ source = "look"
        /\ stream = 0
        /\ packets = <<>>
        /\ decoder = [pts |-> 0, time |-> 0]
        /\ frames = <<>>
        /\ display = "report"
        /\ seeks = 0
        /\ effects = 0

-----------------------------------------------------------------------------
(***************************************************************************)
(* PlayerControl::Update, which the control task calls in a loop.  The     *)
(* addition to m_progress reads it and writes it in two steps.             *)
(***************************************************************************)
Late(tolerance) == lastProgress < (progress - tolerance) % Wrap

UpdateRead ==
  /\ clock.at = "update" /\ ~stopped
  /\ status = "Playing"
  /\ clock' = [at |-> "add", read |-> progress]
  /\ UNCHANGED <<slotVars, progress, lastProgress, status, stopped, sourceVars,
                 packets, decoder, frames, display, effectVars, seeks, effects>>

UpdateAdd ==
  /\ clock.at = "add"
  /\ progress' = clock.read + Interval
  /\ clock' = [at |-> "compare", read |-> 0]
  /\ UNCHANGED <<slotVars, lastProgress, status, stopped, sourceVars, packets,
                 decoder, frames, display, effectVars, seeks, effects>>

\* mutant: a display that is late is not noticed
UpdateNever ==
  /\ clock.at = "compare"
  /\ clock' = [at |-> "update", read |-> 0]
  /\ UNCHANGED <<slotVars, progress, lastProgress, status, stopped, sourceVars,
                 packets, decoder, frames, display, effectVars, seeks, effects>>

UpdateCompare ==
  /\ clock.at = "compare"
  /\ status' = IF Late(Tolerance) THEN "Pending" ELSE "Playing"
  /\ clock' = [at |-> "update", read |-> 0]
  /\ UNCHANGED <<slotVars, progress, lastProgress, stopped, sourceVars, packets,
                 decoder, frames, display, effectVars, seeks, effects>>

\* mutant: the display has to be ahead of the clock, not level with it
UpdatePendingStrict ==
  /\ clock.at = "update" /\ ~stopped
  /\ status = "Pending"
  /\ lastProgress > progress % Wrap
  /\ status' = "Playing"
  /\ UNCHANGED <<slotVars, progress, lastProgress, clock, stopped, sourceVars,
                 packets, decoder, frames, display, effectVars, seeks, effects>>

UpdatePending ==
  /\ clock.at = "update" /\ ~stopped
  /\ status = "Pending"
  /\ ~Late(0)
  /\ status' = "Playing"
  /\ UNCHANGED <<slotVars, progress, lastProgress, clock, stopped, sourceVars,
                 packets, decoder, frames, display, effectVars, seeks, effects>>

-----------------------------------------------------------------------------
(***************************************************************************)
(* FFMpegStream::GetData, called by PlayerDataSource::Update.  A seek ends *)
(* up at a frame at or next to the position, on the side it came from, or  *)
(* fails.                                                                  *)
(***************************************************************************)
SourceLook ==
  /\ source = "look"
  /\ \/ TakeSlot /\ source' = "test"
     \/ ~slot /\ source' = "read" /\ UNCHANGED slotVars
  /\ UNCHANGED <<progress, lastProgress, clockVars, stopped, stream, packets,
                 decoder, frames, display, effectVars, seeks, effects>>

SourceTest ==
  /\ source = "test"
  /\ TestRequest
  /\ source' = IF taker' = "use" THEN "seek" ELSE "return"
  /\ UNCHANGED <<progress, lastProgress, clockVars, stopped, stream, packets,
                 decoder, frames, display, effectVars, seeks, effects>>

SeekFrame ==
  /\ source = "seek"
  /\ \/ /\ stream' \in IF progress > request.value
                       THEN (request.value - 1 .. request.value) \cap 0..Last
                       ELSE (request.value .. request.value + 1) \cap 0..Last
        /\ source' = "set"
        /\ UNCHANGED slotVars
     \/ /\ Use                                        \* av_seek_frame failed
        /\ source' = "return"
        /\ UNCHANGED stream
  /\ UNCHANGED <<progress, lastProgress, clockVars, stopped, packets, decoder,
                 frames, display, effectVars, seeks, effects>>

SetProgress ==
  /\ source = "set"
  /\ Use
  /\ progress' = request.value
  /\ source' = "return"
  /\ UNCHANGED <<lastProgress, clockVars, stopped, stream, packets, decoder,
                 frames, display, effectVars, seeks, effects>>

SourceReturn ==
  /\ source = "return"
  /\ GiveBack
  /\ source' = "read"
  /\ UNCHANGED <<progress, lastProgress, clockVars, stopped, stream, packets,
                 decoder, frames, display, effectVars, seeks, effects>>

ReadFrame ==
  /\ source = "read"
  /\ stream <= Last
  /\ Len(packets) < Capacity
  /\ packets' = Append(packets, stream)
  /\ stream' = stream + 1
  /\ source' = "look"
  /\ UNCHANGED <<slotVars, progress, lastProgress, clockVars, stopped, decoder,
                 frames, display, effectVars, seeks, effects>>

\* PlayerControl::StopAsynchronize; the listener then stops the pipeline
EndOfStream ==
  /\ source = "read"
  /\ stream > Last
  /\ stopped' = TRUE
  /\ source' = "ended"
  /\ UNCHANGED <<slotVars, progress, lastProgress, clockVars, stream, packets,
                 decoder, frames, display, effectVars, seeks, effects>>

(* FFMpegVideoDecoder::ProcessInput: a time stamp is the one before plus   *)
(* the difference of the two packets, and never negative.                  *)
Decode ==
  /\ packets # <<>> /\ ~stopped
  /\ Len(frames) < Capacity
  /\ LET stamp == decoder.time + (Head(packets) - decoder.pts)
         time  == IF stamp < 0 THEN 0 ELSE stamp
     IN  /\ frames' = Append(frames, time)
         /\ decoder' = [pts |-> Head(packets), time |-> time]
  /\ packets' = Tail(packets)
  /\ UNCHANGED <<slotVars, progress, lastProgress, clockVars, stopped,
                 sourceVars, display, effectVars, seeks, effects>>

-----------------------------------------------------------------------------
(***************************************************************************)
(* GraphicDisplayDestination::UpdateContent.  ProcessInput first reports   *)
(* the time of the frame, then reads the clock: a frame far from it is     *)
(* skipped, one the clock has passed is shown, any other stays in the      *)
(* buffer and is offered again.  Only after a frame was taken is the       *)
(* request for an effect looked at.                                        *)
(***************************************************************************)
ReportFrame ==
  /\ display = "report" /\ ~stopped
  /\ frames # <<>>
  /\ lastProgress' = Head(frames)
  /\ display' = "decide"
  /\ UNCHANGED <<slotVars, progress, clockVars, stopped, sourceVars, packets,
                 decoder, frames, effectVars, seeks, effects>>

Early == Head(frames) - progress

SkipFrame ==
  /\ display = "decide"
  /\ Early > DisplayTolerance \/ Early < -DisplayTolerance
  /\ frames' = Tail(frames)
  /\ display' = "look"
  /\ UNCHANGED <<slotVars, progress, lastProgress, clockVars, stopped,
                 sourceVars, packets, decoder, effectVars, seeks, effects>>

DrawFrame ==
  /\ display = "decide"
  /\ -DisplayTolerance <= Early /\ Early < 0
  /\ frames' = Tail(frames)
  /\ display' = "look"
  /\ UNCHANGED <<slotVars, progress, lastProgress, clockVars, stopped,
                 sourceVars, packets, decoder, effectVars, seeks, effects>>

KeepFrame ==
  /\ display = "decide"
  /\ 0 <= Early /\ Early <= DisplayTolerance
  /\ display' = "report"
  /\ UNCHANGED <<slotVars, progress, lastProgress, clockVars, stopped,
                 sourceVars, packets, decoder, frames, effectVars, seeks,
                 effects>>

DisplayLook ==
  /\ display = "look"
  /\ \/ E!TakeSlot /\ display' = "test"
     \/ ~effectSlot /\ display' = "report" /\ UNCHANGED effectVars
  /\ UNCHANGED <<slotVars, progress, lastProgress, clockVars, stopped,
                 sourceVars, packets, decoder, frames, seeks, effects>>

DisplayTest ==
  /\ display = "test"
  /\ E!TestRequest
  /\ display' = effectTaker'
  /\ UNCHANGED <<slotVars, progress, lastProgress, clockVars, stopped,
                 sourceVars, packets, decoder, frames, seeks, effects>>

ChangeEffect ==
  /\ display = "use"
  /\ E!Use
  /\ display' = "return"
  /\ UNCHANGED <<slotVars, progress, lastProgress, clockVars, stopped,
                 sourceVars, packets, decoder, frames, seeks, effects>>

DisplayReturn ==
  /\ display = "return"
  /\ E!GiveBack
  /\ display' = "report"
  /\ UNCHANGED <<slotVars, progress, lastProgress, clockVars, stopped,
                 sourceVars, packets, decoder, frames, seeks, effects>>

-----------------------------------------------------------------------------
(* VideoPlayerInternal::Seek and SetEffect.                                *)
AskSeek(u) ==
  /\ seeks + effects < MaxRequests
  /\ \E v \in Value : Acquire(u, v)
  /\ seeks' = seeks + 1
  /\ UNCHANGED <<progress, lastProgress, clockVars, stopped, sourceVars,
                 packets, decoder, frames, display, effectVars, effects>>

AskSeekOn(u) ==
  /\ AskStep(u)
  /\ UNCHANGED <<progress, lastProgress, clockVars, stopped, sourceVars,
                 packets, decoder, frames, display, effectVars, seeks, effects>>

AskEffect(u) ==
  /\ seeks + effects < MaxRequests
  /\ \E v \in Effect : E!Acquire(u, v)
  /\ effects' = effects + 1
  /\ UNCHANGED <<slotVars, progress, lastProgress, clockVars, stopped,
                 sourceVars, packets, decoder, frames, display, seeks>>

AskEffectOn(u) ==
  /\ E!AskStep(u)
  /\ UNCHANGED <<slotVars, progress, lastProgress, clockVars, stopped,
                 sourceVars, packets, decoder, frames, display, seeks, effects>>

ClockStep == UpdateRead \/ UpdateAdd \/ UpdateCompare \/ UpdatePending
SourceStep == \/ SourceLook \/ SourceTest \/ SeekFrame \/ SetProgress
              \/ SourceReturn \/ ReadFrame \/ EndOfStream
DisplayStep == \/ ReportFrame \/ SkipFrame \/ DrawFrame \/ KeepFrame
               \/ DisplayLook \/ DisplayTest \/ ChangeEffect \/ DisplayReturn

Next == \/ ClockStep \/ SourceStep \/ Decode \/ DisplayStep
        \/ \E u \in User : \/ AskSeek(u) \/ AskSeekOn(u)
                        \/ AskEffect(u) \/ AskEffectOn(u)

(* Each worker is a thread that is scheduled again and again; the          *)
(* application need not ask for anything, but ends what it has begun.      *)
Fairness == /\ WF_vars(ClockStep)
            /\ WF_vars(SourceStep)
            /\ WF_vars(Decode)
            /\ WF_vars(DisplayStep)
            /\ \A u \in User : WF_vars(AskSeekOn(u)) /\ WF_vars(AskEffectOn(u))

Spec == Init /\ [][Next]_vars /\ Fairness
-----------------------------------------------------------------------------
TypeOK == /\ SlotTypeOK /\ E!SlotTypeOK
          /\ progress \in Nat /\ lastProgress \in Nat
          /\ status \in {"Playing", "Pending"}

(* Both slots: see ImplementsMailbox in RequestSlot.                       *)
RequestsDelivered == ImplementsMailbox /\ E!ImplementsMailbox

(***************************************************************************)
(* The two tolerances fit together: the clock waits before it is so far    *)
(* ahead of the display that the display drops frames.  As long as the     *)
(* user does not seek every frame of the stream is shown.                  *)
(***************************************************************************)
NothingSkipped == [][seeks = 0 => ~SkipFrame]_vars

(***************************************************************************)
(* The clock that waits for the display and the display that waits for the *)
(* clock do not wait for each other: playing goes on, however the user     *)
(* seeks, until the stream is at its end, and a seek the user asked for is *)
(* carried out while the stream is read.                                   *)
(***************************************************************************)
PlaybackGoesOn == /\ status = "Pending" ~> (status = "Playing" \/ stopped)
                  /\ request.valid ~> (~request.valid \/ stopped)
=============================================================================
