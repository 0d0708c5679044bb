--------------------------- MODULE PlaybackProofs ----------------------------
(***************************************************************************)
(* Proofs about Playback, for every stream, every number of threads that   *)
(* ask and any number of requests: both request slots are mailboxes, and   *)
(* without a seek no frame is skipped.                                     *)
(***************************************************************************)
EXTENDS Playback, TLAPS

(***************************************************************************)
(* The two slots.  Every step of the player is a step of each slot or      *)
(* leaves it alone, so what RequestSlot shows of its steps holds here.     *)
(***************************************************************************)
LEMMA StepIsSlots == [Next]_vars => [SlotNext]_slotVars /\ [E!SlotNext]_(E!slotVars)
<1> SUFFICES ASSUME [Next]_vars
             PROVE  [SlotNext]_slotVars /\ [E!SlotNext]_(E!slotVars)
  OBVIOUS
<1> USE DEF SlotNext, E!SlotNext, slotVars, E!slotVars, effectVars
<1>1. CASE ClockStep
  BY <1>1 DEF ClockStep, UpdateRead, UpdateAdd, UpdateCompare, UpdatePending
<1>2. CASE SourceStep
  BY <1>2 DEF SourceStep, SourceLook, SourceTest, SeekFrame, SetProgress, SourceReturn,
              ReadFrame, EndOfStream
<1>3. CASE Decode
  BY <1>3 DEF Decode
<1>4. CASE DisplayStep
  BY <1>4 DEF DisplayStep, ReportFrame, SkipFrame, DrawFrame, KeepFrame, DisplayLook,
              DisplayTest, ChangeEffect, DisplayReturn
<1>5. ASSUME NEW u \in User, AskSeek(u) \/ AskSeekOn(u) \/ AskEffect(u) \/ AskEffectOn(u)
      PROVE  [SlotNext]_slotVars /\ [E!SlotNext]_(E!slotVars)
  BY <1>5 DEF AskSeek, AskSeekOn, AskEffect, AskEffectOn
<1>6. CASE UNCHANGED vars
  BY <1>6 DEF vars
<1>. QED
  BY <1>1, <1>2, <1>3, <1>4, <1>5, <1>6 DEF Next

LEMMA SlotsKept == Spec => [](SlotInv /\ E!SlotInv)
<1>1. Init => SlotInv /\ E!SlotInv
  BY InitSlotInv, E!InitSlotInv, PlaybackAssumption DEF Init
<1>2. SlotInv /\ E!SlotInv /\ [Next]_vars => (SlotInv /\ E!SlotInv)'
  BY StepIsSlots, StepSlotInv, E!StepSlotInv, PlaybackAssumption
<1>. QED
  BY <1>1, <1>2, PTL DEF Spec

(* FFMpegStream::GetData, GraphicDisplayDestination::UpdateContent: a seek *)
(* and an effect that a thread asked for are taken once and whole, however *)
(* many threads ask, unless a later request took their place.              *)
THEOREM Delivered == Spec => RequestsDelivered
<1>1. Init => M!Init /\ E!M!Init
  BY InitMailbox, E!InitMailbox, PlaybackAssumption DEF Init
<1>2. SlotInv /\ E!SlotInv /\ [Next]_vars =>
        /\ [M!Next]_<<IF request.valid THEN request.value ELSE None,
                      IF taker = "use" THEN request.value ELSE used>>
        /\ [E!M!Next]_<<IF effectRequest.valid THEN effectRequest.value ELSE None,
                        IF effectTaker = "use" THEN effectRequest.value ELSE effectUsed>>
  BY StepIsSlots, StepMailbox, E!StepMailbox, PlaybackAssumption
<1>. QED
  BY <1>1, <1>2, SlotsKept, PTL
     DEF Spec, RequestsDelivered, ImplementsMailbox, E!ImplementsMailbox, M!Spec, E!M!Spec

-----------------------------------------------------------------------------
(***************************************************************************)
(* Without a seek.  Nobody has asked, so the slot of the seek is quiet;    *)
(* the frames on their way are those before the next one of the stream;    *)
(* and the clock is ahead of the display by no more than its tolerance and *)
(* one interval, the display ahead of the clock not at all.                *)
(***************************************************************************)
Quiet == /\ request \in [valid : {FALSE}, value : Value]
         /\ \A u \in User : asker[u] = "idle"
         /\ taker # "use"
         /\ source \notin {"seek", "set"}

(* The time of the frame the display is to show next.                      *)
Front == stream - Len(packets) - Len(frames)

Types == /\ stream \in 0..Last + 1
         /\ packets \in Seq(Int) /\ frames \in Seq(Int)
         /\ progress \in Nat /\ lastProgress \in Nat
         /\ decoder.pts \in Nat /\ decoder.time = decoder.pts

InOrder == /\ Front \in Nat
           /\ \A i \in 1..Len(packets) : packets[i] = stream - Len(packets) + i - 1
           /\ \A i \in 1..Len(frames) : frames[i] = Front + i - 1

DisplayPace == /\ Front <= progress
               /\ lastProgress <= Front /\ lastProgress <= Last
               /\ display = "decide" => frames # <<>> /\ lastProgress = Front

ClockPace ==
  /\ progress <= lastProgress + Tolerance + Interval
  /\ clock.at = "update" /\ status = "Playing" => progress <= lastProgress + Tolerance
  /\ clock.at = "add" => clock.read = progress /\ progress <= lastProgress + Tolerance

InStep == Types /\ InOrder /\ DisplayPace /\ ClockPace

PlayInv == /\ seeks \in Nat
           /\ seeks = 0 => Quiet /\ InStep

LEMMA InitPlayInv == Init => PlayInv
<1> SUFFICES ASSUME Init PROVE PlayInv
  OBVIOUS
<1>1. /\ packets = <<>> /\ frames = <<>> /\ stream = 0 /\ progress = 0 /\ lastProgress = 0
      /\ decoder.pts = 0 /\ decoder.time = 0 /\ display = "report" /\ clock.at = "update"
      /\ status = "Pending" /\ seeks = 0
  BY DEF Init
<1>2. Quiet
  BY DEF Init, SlotInit, Quiet
<1>3. Len(packets) = 0 /\ Len(frames) = 0 /\ packets \in Seq(Int) /\ frames \in Seq(Int)
  BY <1>1
<1>4. Front = 0
  <2>1. stream = 0
    BY <1>1
  <2>. QED
    BY <2>1, <1>3 DEF Front
<1>5. Types
  BY <1>1, <1>3, PlaybackAssumption DEF Types
<1>6. InOrder
  BY <1>3, <1>4 DEF InOrder
<1>7. DisplayPace /\ ClockPace
  BY <1>1, <1>4, PlaybackAssumption DEF DisplayPace, ClockPace
<1>. QED
  BY <1>1, <1>2, <1>5, <1>6, <1>7 DEF PlayInv, InStep

(* Seeks are only counted up, so one that has not been asked for leaves    *)
(* the slot as it was.                                                     *)
LEMMA StepQuiet == PlayInv /\ [Next]_vars /\ seeks' = 0 => seeks = 0 /\ Quiet'
<1> SUFFICES ASSUME PlayInv, [Next]_vars, seeks' = 0 PROVE seeks = 0 /\ Quiet'
  OBVIOUS
<1>1. seeks = 0 /\ \A u \in User : ~AskSeek(u)
  <2>1. ASSUME NEW u \in User, AskSeek(u) PROVE FALSE
    BY <2>1 DEF AskSeek, PlayInv
  <2>. QED
    BY <2>1 DEF PlayInv, Next, ClockStep, UpdateRead, UpdateAdd, UpdateCompare,
                UpdatePending, SourceStep, SourceLook, SourceTest, SeekFrame, SetProgress,
                SourceReturn, ReadFrame, EndOfStream, Decode, DisplayStep, ReportFrame,
                SkipFrame, DrawFrame, KeepFrame, DisplayLook, DisplayTest, ChangeEffect,
                DisplayReturn, AskSeekOn, AskEffect, AskEffectOn, vars
<1> USE <1>1 DEF PlayInv, Quiet
<1>2. CASE ClockStep
  BY <1>2 DEF ClockStep, UpdateRead, UpdateAdd, UpdateCompare, UpdatePending, slotVars,
              sourceVars
<1>3. CASE SourceStep
  BY <1>3 DEF SourceStep, SourceLook, SourceTest, SeekFrame, SetProgress, SourceReturn,
              ReadFrame, EndOfStream, slotVars, TakeSlot, TestRequest, GiveBack
<1>4. CASE Decode
  BY <1>4 DEF Decode, slotVars, sourceVars
<1>5. CASE DisplayStep
  BY <1>5 DEF DisplayStep, ReportFrame, SkipFrame, DrawFrame, KeepFrame, DisplayLook,
              DisplayTest, ChangeEffect, DisplayReturn, slotVars, sourceVars
<1>6. ASSUME NEW u \in User, AskSeekOn(u) \/ AskEffect(u) \/ AskEffectOn(u) PROVE Quiet'
  BY <1>6 DEF AskSeekOn, AskEffect, AskEffectOn, AskStep, Write, Validate, Return, slotVars,
              sourceVars
<1>7. CASE UNCHANGED vars
  BY <1>7 DEF vars, slotVars, sourceVars
<1>. QED
  BY <1>1, <1>2, <1>3, <1>4, <1>5, <1>6, <1>7 DEF Next

(* The clock compares numbers that have not wrapped around.                *)
LEMMA NotLate == ASSUME InStep, NEW t \in Nat, t <= Tolerance, ~Late(t)
                 PROVE  progress <= lastProgress + t
<1>1. CASE progress < t
  BY <1>1 DEF InStep, Types
<1>2. CASE progress >= t
  <2>1. progress - t \in 0..Wrap - 1
    BY <1>2, PlaybackAssumption DEF InStep, Types, DisplayPace, ClockPace
  <2>2. (progress - t) % Wrap = progress - t
    BY <2>1, PlaybackAssumption
  <2>. QED
    BY <2>2, PlaybackAssumption DEF Late, InStep, Types
<1>. QED
  BY <1>1, <1>2, PlaybackAssumption DEF InStep, Types

(* What a frame on its way and the display do when nobody seeks.           *)
LEMMA NeitherFarAhead == ASSUME InStep PROVE ~SkipFrame
<1> SUFFICES ASSUME SkipFrame PROVE FALSE
  OBVIOUS
<1>1. Len(frames) \in Nat /\ Len(frames) > 0 /\ Head(frames) = Front
  <2>1. frames \in Seq(Int) /\ frames # <<>> /\ Front \in Nat
    BY DEF SkipFrame, InStep, Types, InOrder, DisplayPace
  <2>2. Len(frames) \in Nat /\ Len(frames) > 0 /\ Head(frames) = frames[1]
    BY <2>1
  <2>3. frames[1] = Front + 1 - 1
    BY <2>2 DEF InStep, InOrder
  <2>. QED
    BY <2>1, <2>2, <2>3
<1>2. /\ Front \in Nat /\ progress \in Nat /\ Front <= progress
      /\ progress <= Front + Tolerance + Interval
  BY DEF SkipFrame, InStep, Types, InOrder, DisplayPace, ClockPace
<1>3. /\ Tolerance \in Nat /\ Interval \in Nat /\ DisplayTolerance \in Nat
      /\ Tolerance + Interval <= DisplayTolerance
  BY PlaybackAssumption
<1>4. ~(Front - progress > DisplayTolerance) /\ ~(Front - progress < -DisplayTolerance)
  BY <1>2, <1>3
<1>. QED
  BY <1>1, <1>4 DEF SkipFrame, Early

LEMMA StepInStep ==
  ASSUME Quiet, InStep, [Next]_vars, seeks' = 0, seeks = 0 PROVE InStep'
<1> USE PlaybackAssumption DEF Types, DisplayPace, ClockPace, Front
<1>1. CASE ClockStep
  <2>1. UNCHANGED <<lastProgress, packets, frames, stream, display, decoder>>
    BY <1>1 DEF ClockStep, UpdateRead, UpdateAdd, UpdateCompare, UpdatePending, sourceVars
  <2>2. InOrder'
    BY <2>1 DEF InStep, InOrder
  <2>3. CASE UpdateRead
    BY <2>1, <2>2, <2>3 DEF UpdateRead, InStep
  <2>4. CASE UpdateAdd
    BY <2>1, <2>2, <2>4 DEF UpdateAdd, InStep
  <2>5. CASE UpdateCompare
    <3>1. status' = "Playing" => progress <= lastProgress + Tolerance
      BY <2>5, NotLate DEF UpdateCompare
    <3>. QED
      BY <2>1, <2>2, <2>5, <3>1 DEF UpdateCompare, InStep
  <2>6. CASE UpdatePending
    <3>1. progress <= lastProgress + 0
      BY <2>6, NotLate DEF UpdatePending
    <3>. QED
      BY <2>1, <2>2, <2>6, <3>1 DEF UpdatePending, InStep
  <2>. QED
    BY <1>1, <2>3, <2>4, <2>5, <2>6 DEF ClockStep
<1>2. CASE ReadFrame
  <2>1. /\ packets' \in Seq(Int) /\ Len(packets') = Len(packets) + 1 /\ Front' = Front
        /\ \A i \in 1..Len(packets') : packets'[i] = IF i = Len(packets') THEN stream
                                                    ELSE packets[i]
    BY <1>2 DEF ReadFrame, InStep
  <2>2. UNCHANGED <<lastProgress, frames, display, decoder, progress, clock, status>>
    BY <1>2 DEF ReadFrame, clockVars
  <2>3. stream' = stream + 1 /\ stream \in 0..Last /\ Len(packets) \in Nat
    BY <1>2 DEF ReadFrame, InStep
  <2>4. \A i \in 1..Len(packets') : packets'[i] = stream' - Len(packets') + i - 1
    <3> SUFFICES ASSUME NEW i \in 1..Len(packets')
                 PROVE  packets'[i] = stream' - Len(packets') + i - 1
      OBVIOUS
    <3>1. CASE i = Len(packets')
      BY <2>1, <2>3, <3>1
    <3>2. CASE i # Len(packets')
      <4>1. i \in 1..Len(packets)
        BY <2>1, <2>3, <3>2
      <4>2. packets'[i] = stream - Len(packets) + i - 1
        BY <2>1, <3>2, <4>1 DEF InStep, InOrder
      <4>. QED
        BY <2>1, <2>3, <4>2
    <3>. QED
      BY <3>1, <3>2
  <2>5. InOrder'
    BY <2>1, <2>2, <2>4 DEF InStep, InOrder
  <2>6. Types'
    BY <2>1, <2>2, <2>3 DEF InStep
  <2>. QED
    BY <2>1, <2>2, <2>5, <2>6 DEF InStep
<1>3. CASE Decode
  <2>1. Len(packets) \in Nat /\ Len(packets) > 0 /\ Len(frames) \in Nat
    BY <1>3 DEF Decode, InStep
  <2>2. Head(packets) = stream - Len(packets) /\ Head(packets) \in Nat
    BY <2>1 DEF InStep, InOrder
  <2>3. /\ frames' = Append(frames, Head(packets))
        /\ decoder'.pts = Head(packets) /\ decoder'.time = Head(packets)
        /\ packets' = Tail(packets)
    BY <1>3, <2>2 DEF Decode, InStep
  <2>4. /\ packets' \in Seq(Int) /\ Len(packets') = Len(packets) - 1
        /\ \A i \in 1..Len(packets') : packets'[i] = packets[i + 1]
    BY <2>1, <2>3 DEF InStep
  <2>5. /\ frames' \in Seq(Int) /\ Len(frames') = Len(frames) + 1
        /\ \A i \in 1..Len(frames') : frames'[i] = IF i = Len(frames') THEN Head(packets)
                                                  ELSE frames[i]
    BY <2>2, <2>3 DEF InStep
  <2>6. UNCHANGED <<stream, lastProgress, display, progress, clock, status>>
    BY <1>3 DEF Decode, clockVars, sourceVars
  <2>7. Front' = Front
    BY <2>1, <2>4, <2>5, <2>6 DEF InStep
  <2>8. InOrder'
    <3>1. \A i \in 1..Len(packets') : packets'[i] = stream' - Len(packets') + i - 1
      <4> SUFFICES ASSUME NEW i \in 1..Len(packets')
                   PROVE  packets'[i] = stream' - Len(packets') + i - 1
        OBVIOUS
      <4>1. i + 1 \in 1..Len(packets) /\ stream \in Int
        BY <2>1, <2>4 DEF InStep
      <4>2. packets[i + 1] = stream - Len(packets) + (i + 1) - 1
        BY <4>1 DEF InStep, InOrder
      <4>. QED
        BY <2>1, <2>4, <2>6, <4>1, <4>2
    <3>2. \A i \in 1..Len(frames') : frames'[i] = Front' + i - 1
      <4> SUFFICES ASSUME NEW i \in 1..Len(frames') PROVE frames'[i] = Front + i - 1
        BY <2>7
      <4>1. CASE i = Len(frames')
        <5>1. Head(packets) = Front + Len(frames)
          BY <2>1, <2>2 DEF InStep
        <5>. QED
          BY <2>1, <2>5, <4>1, <5>1 DEF InStep
      <4>2. CASE i # Len(frames')
        <5>1. i \in 1..Len(frames)
          BY <2>1, <2>5, <4>2
        <5>. QED
          BY <2>5, <4>2, <5>1 DEF InStep, InOrder
      <4>. QED
        BY <4>1, <4>2
    <3>. QED
      BY <2>7, <3>1, <3>2 DEF InStep, InOrder
  <2>9. frames' # <<>>
    BY <2>1, <2>5
  <2>. QED
    BY <2>2, <2>3, <2>4, <2>5, <2>6, <2>7, <2>8, <2>9 DEF InStep
<1>4. CASE ReportFrame
  <2>1. Len(frames) \in Nat /\ Len(frames) > 0 /\ Head(frames) = Front /\ Front <= Last
    BY <1>4 DEF ReportFrame, InStep, InOrder
  <2>2. /\ UNCHANGED <<stream, packets, frames, decoder, progress, clock, status>>
        /\ lastProgress' = Front /\ lastProgress \in Nat /\ lastProgress <= Front
        /\ frames # <<>>
    BY <1>4, <2>1 DEF ReportFrame, clockVars, sourceVars, InStep
  <2>3. InOrder' /\ Front' = Front /\ Front \in Nat /\ Front <= progress
    BY <2>2 DEF InStep, InOrder
  <2>4. Types'
    BY <2>2, <2>3 DEF InStep
  <2>5. DisplayPace'
    BY <2>1, <2>2, <2>3
  <2>6. ClockPace'
    BY <2>2, <2>3 DEF InStep, Types
  <2>. QED
    BY <2>3, <2>4, <2>5, <2>6 DEF InStep
<1>5. CASE DrawFrame
  <2>1. Len(frames) \in Nat /\ Len(frames) > 0 /\ Head(frames) = Front
    BY <1>5 DEF DrawFrame, InStep, InOrder
  <2>2. /\ frames' \in Seq(Int) /\ Len(frames') = Len(frames) - 1
        /\ \A i \in 1..Len(frames') : frames'[i] = frames[i + 1]
    BY <1>5, <2>1 DEF DrawFrame, InStep
  <2>3. UNCHANGED <<stream, packets, lastProgress, decoder, progress, clock, status>>
    BY <1>5 DEF DrawFrame, clockVars, sourceVars
  <2>4. Front' = Front + 1 /\ Front < progress /\ display' = "look"
    BY <1>5, <2>1, <2>2, <2>3 DEF DrawFrame, Early, InStep, InOrder
  <2>5. InOrder'
    <3>1. \A i \in 1..Len(frames') : frames'[i] = Front' + i - 1
      <4> SUFFICES ASSUME NEW i \in 1..Len(frames') PROVE frames'[i] = Front + 1 + i - 1
        BY <2>4
      <4>1. i + 1 \in 1..Len(frames) /\ Front \in Int
        BY <2>1, <2>2 DEF InStep, InOrder
      <4>2. frames[i + 1] = Front + (i + 1) - 1
        BY <4>1 DEF InStep, InOrder
      <4>. QED
        BY <2>2, <4>1, <4>2
    <3>. QED
      BY <2>3, <2>4, <3>1 DEF InStep, InOrder
  <2>. QED
    BY <2>2, <2>3, <2>4, <2>5 DEF InStep, InOrder
<1>6. CASE UNCHANGED <<stream, packets, frames, lastProgress, decoder, progress, clock,
                       status>> /\ (display' # "decide" \/ display' = display)
  BY <1>6 DEF InStep, InOrder
<1>7. ~SkipFrame
  BY NeitherFarAhead
<1>8. ASSUME SourceStep, ~ReadFrame
      PROVE  UNCHANGED <<stream, packets, frames, lastProgress, decoder, progress, clock,
                         status>> /\ display' = display
  BY <1>8 DEF SourceStep, Quiet, SourceLook, SourceTest, SeekFrame, SetProgress, SourceReturn,
              EndOfStream, clockVars
<1>9. ASSUME DisplayStep, ~ReportFrame, ~DrawFrame
      PROVE  UNCHANGED <<stream, packets, frames, lastProgress, decoder, progress, clock,
                         status>> /\ display' # "decide"
  BY <1>7, <1>9 DEF DisplayStep, KeepFrame, DisplayLook, DisplayTest, ChangeEffect,
              DisplayReturn, clockVars, sourceVars, E!TestRequest, E!TakeSlot
<1>10. ASSUME NEW u \in User, AskSeek(u) \/ AskSeekOn(u) \/ AskEffect(u) \/ AskEffectOn(u)
      PROVE  UNCHANGED <<stream, packets, frames, lastProgress, decoder, progress, clock,
                         status>> /\ display' = display
  BY <1>10 DEF AskSeek, AskSeekOn, AskEffect, AskEffectOn, clockVars, sourceVars
<1>11. CASE UNCHANGED vars
  BY <1>6, <1>11 DEF vars, clockVars, sourceVars
<1>. QED
  BY <1>1, <1>2, <1>3, <1>4, <1>5, <1>6, <1>8, <1>9, <1>10, <1>11 DEF Next

LEMMA PlayInvKept == Spec => []PlayInv
<1>1. PlayInv /\ [Next]_vars => PlayInv'
  <2>1. PlayInv /\ [Next]_vars => seeks' \in Nat
    BY DEF PlayInv, Next, ClockStep, UpdateRead, UpdateAdd, UpdateCompare,
           UpdatePending, SourceStep, SourceLook, SourceTest, SeekFrame, SetProgress,
           SourceReturn, ReadFrame, EndOfStream, Decode, DisplayStep, ReportFrame,
           SkipFrame, DrawFrame, KeepFrame, DisplayLook, DisplayTest, ChangeEffect,
           DisplayReturn, AskSeek, AskSeekOn, AskEffect, AskEffectOn, vars
  <2>. QED
    BY <2>1, StepQuiet, StepInStep DEF PlayInv
<1>. QED
  BY <1>1, InitPlayInv, PTL DEF Spec

(* PlayerControl::Update, GraphicDisplayDestination::ProcessInput: when    *)
(* the two tolerances fit together the display shows every frame of a      *)
(* stream in which nobody seeks, whatever the threads' speeds.             *)
THEOREM AllShown == Spec => NothingSkipped
<1>1. PlayInv => [seeks = 0 => ~SkipFrame]_vars
  BY NeitherFarAhead DEF PlayInv
<1>. QED
  BY <1>1, PlayInvKept, PTL DEF NothingSkipped
=============================================================================
