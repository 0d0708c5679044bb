---------------------------- MODULE AudioDecoder ----------------------------
(***************************************************************************)
(* FFMpegAudioDecoder: the frames of a stream, with or without a time      *)
(* stamp and of a format that may change in mid stream, become fragments   *)
(* of 16 bit stereo samples with a time and a size.                        *)
(*                                                                         *)
(* Times are in ticks of 1/Second seconds, which the rates divide.  Frames *)
(* have two channels: the size of the output is computed from the channels *)
(* of the input, so it fits for no other number.                           *)
(***************************************************************************)
EXTENDS Integers

CONSTANTS Rates,       \* sample rates
          Format,      \* sample formats
          Second,      \* ticks in a second
          Sizes,       \* nb_samples of a frame
          End,         \* the stream is not longer than this many ticks
          MaxChanges,  \* how often the rate changes between two time stamps
          None

VARIABLES swr,              \* m_swrContext: what it converts from, or None
          currentFormat,    \* m_currentSampleFormat
          currentRate,      \* m_currentSampleRate
          nextPTS,          \* m_nextPTS
          nextTimeBase,     \* m_nextTimeBase, as the rate it is the inverse of
          bufferSize,       \* m_currentBufferSize, in samples
          output,           \* the fragment committed last, or None
          position,         \* where in the stream the next frame starts
          slack             \* half ticks of the time bases that rounding lost

vars == <<swr, currentFormat, currentRate, nextPTS, nextTimeBase, bufferSize,
          output, position, slack>>

converter == <<swr, currentFormat, currentRate>>
clock     == <<nextPTS, nextTimeBase>>

NoPTS == -1000000    \* AV_NOPTS_VALUE, the least integer
Frame == [rate : Rates, format : Format, samples : Sizes, stamped : BOOLEAN]

\* Initialize sets neither m_nextPTS nor m_nextTimeBase: they hold something
Init == /\ swr = None /\ currentFormat = None /\ currentRate = 0
        /\ nextPTS \in {NoPTS, 1} /\ nextTimeBase \in Rates
        /\ bufferSize = 0 /\ output = None
        /\ position = None
        /\ slack = 0

\* av_rescale_q from 1/from to 1/to, to the nearest
Rescale(a, from, to) == (2 * a * to + from) \div (2 * from)

\* m_pFrame->pts: what the container says, or where the frame before it ended
Pts(f, at) == IF f.stamped THEN Rescale(at, Second, f.rate)
              ELSE IF nextPTS = NoPTS THEN NoPTS
              ELSE Rescale(nextPTS, nextTimeBase, f.rate)

Clock(f, pts) == IF pts = NoPTS THEN UNCHANGED clock
                 ELSE nextPTS' = pts + f.samples /\ nextTimeBase' = f.rate

(***************************************************************************)
(* The converter is made again when the frame's format or rate is another. *)
(***************************************************************************)
Fits(f) == currentFormat = f.format /\ currentRate = f.rate

\* swr_alloc_set_opts frees the context when it fails, and so does the code when
\* swr_init fails
Converter(f, initialised) ==
  IF Fits(f) THEN UNCHANGED converter
  ELSE IF initialised
  THEN /\ swr' = [format |-> f.format, rate |-> f.rate]
       /\ currentFormat' = f.format /\ currentRate' = f.rate
  ELSE swr' = None /\ UNCHANGED <<currentFormat, currentRate>>

Larger(a, b) == IF a > b THEN a ELSE b

\* the fragment, if the converter exists and the pipeline has a buffer
Fragment(f, committed) ==
  IF swr' = None THEN UNCHANGED <<bufferSize, output>>
  ELSE /\ bufferSize' = Larger(bufferSize, f.samples)
       /\ IF committed
          THEN output' = [from |-> [format |-> f.format, rate |-> f.rate],
                          by |-> swr', fits |-> f.samples <= bufferSize']
          ELSE UNCHANGED output

\* ProcessInput of a package that holds a whole frame, at a place of the stream that a
\* frame without a stamp continues.  What swr_convert is given is all converted.
ProcessInput(f) ==
  \E at \in IF f.stamped THEN 0..End ELSE {position} :
  \E initialised, committed \in BOOLEAN :
    /\ IF at = None THEN nextPTS < End
       ELSE at + f.samples * (Second \div f.rate) <= End
    /\ LET pts == Pts(f, at)
       IN  Clock(f, pts) /\ Converter(f, initialised) /\ Fragment(f, committed)
    /\ position' = IF at = None THEN None ELSE at + f.samples * (Second \div f.rate)
    /\ slack' = IF f.stamped THEN 1 ELSE IF f.rate = nextTimeBase THEN slack ELSE slack + 1
    /\ slack' <= MaxChanges + 1

Next == \E f \in Frame : ProcessInput(f)

Spec == Init /\ [][Next]_vars

-----------------------------------------------------------------------------
\* From the first time stamp on the clock runs with the stream: after any run of frames
\* without stamps it stands where the next frame starts, up to half a tick of the
\* coarsest time base for the stamp and for each change of the rate, whatever was
\* dropped in between.
ClockKeepsTime ==
  position # None =>
    LET difference == nextPTS * (Second \div nextTimeBase) - position
    IN  \E rate \in Rates : LET allowed == slack * (Second \div rate)
                           IN  2 * difference <= allowed /\ -2 * difference <= allowed

\* A frame is converted from its own format and rate, also when the converter could not
\* be made for a frame before it, and into a buffer that holds it.
ConvertedAsItIs ==
  output # None => output.by = output.from /\ output.fits

DecoderSound == ClockKeepsTime /\ ConvertedAsItIs
=============================================================================
