------------------------------ MODULE AudioPlay ------------------------------
(***************************************************************************)
(* AudioPlayDestination and the OpenAL source it plays on.  The device goes *)
(* through the buffers of the source in its own time and stops when it has  *)
(* none left; the destination's thread asks it what has been played, takes  *)
(* those buffers back, and gives it the fragments that are due.  Each call  *)
(* of the audio context is a step, so that the device may move in between.  *)
(***************************************************************************)
EXTENDS Naturals, Sequences

CONSTANTS
  LastSent,        \* bound: fragments the decoder sends are 1 .. LastSent
  End,         \* bound: the progress is at most End
  Tolerance,   \* AUDIO_DELAY_TOLERANCE
  MaxSeek,     \* bound: how often the user seeks
  Target       \* bound: where to

VARIABLES
  sent,        \* fragments the decoder has sent so far
  position,    \* start time of the next one
  progress,    \* of the player control
  seeks,
  m_bufferQueue,   \* of the destination: fragments [serial, startTime]
  m_source,        \* serials in the queue of the OpenALSource
  queued, processed, state,   \* of the OpenAL source
  buffers,     \* serials that have an OpenAL buffer
  heard,       \* serials in the order in which the device finished them
  pc, local    \* of UpdateContent

device == <<queued, processed, state, heard>>
vars == <<sent, position, progress, seeks, m_bufferQueue, m_source, device, buffers, pc, local>>

Init == /\ sent = 0 /\ position \in 0 .. 1 /\ progress = 0 /\ seeks = 0
        /\ m_bufferQueue = << >> /\ m_source = << >>
        /\ queued = << >> /\ processed = 0 /\ state = "initial"
        /\ buffers = {} /\ heard = << >>
        /\ pc = "input"
        /\ local = [progress |-> 0, isPlaying |-> FALSE, count |-> 0]

-----------------------------------------------------------------------------
\* OpenAL.  A source that stops counts all its buffers as processed, those
\* queued later too; playing it again begins with the first.
FinishBuffer == /\ state = "playing"
                /\ heard' = Append(heard, queued[processed + 1])
                /\ processed' = processed + 1
                /\ state' = IF processed' = Len(queued) THEN "stopped" ELSE state
                /\ UNCHANGED <<sent, position, progress, seeks, m_bufferQueue, m_source, queued,
                               buffers, pc, local>>

Played == processed

Queue(n) == /\ queued' = Append(queued, n)
            /\ processed' = IF state = "stopped" THEN processed + 1 ELSE processed
            /\ UNCHANGED <<state, heard>>

Unqueue == /\ queued' = Tail(queued)
           /\ processed' = processed - 1
           /\ UNCHANGED <<state, heard>>

Play == /\ state' = IF queued = << >> THEN "stopped" ELSE "playing"
        /\ processed' = 0
        /\ UNCHANGED <<queued, heard>>

\* The clock of PlayerControl; a seek moves it and what the decoder sends next.
Tick == /\ progress < End
        /\ progress' = progress + 1
        /\ UNCHANGED <<sent, position, seeks, m_bufferQueue, m_source, device, buffers, pc, local>>

Seek == /\ seeks < MaxSeek
        /\ seeks' = seeks + 1
        /\ \E t \in Target : position' = t /\ progress' = t
        /\ UNCHANGED <<sent, m_bufferQueue, m_source, device, buffers, pc, local>>

-----------------------------------------------------------------------------
Goto(l) == pc' = l

\* ProcessInput: a buffer for a fragment, at the end of the queue
ProcessInput == /\ pc = "input" /\ sent < LastSent
                /\ sent' = sent + 1
                /\ position' = position + 1
                /\ buffers' = buffers \cup {sent'}
                /\ m_bufferQueue' = Append(m_bufferQueue, [serial |-> sent', startTime |-> position])
                /\ UNCHANGED <<progress, seeks, m_source, device, pc, local>>

\* No more input: GetProgress, SetProgress
TakeProgress == /\ pc = "input"
                /\ local' = [local EXCEPT !.progress = progress]
                /\ Goto("status")
                /\ UNCHANGED <<sent, position, progress, seeks, m_bufferQueue, m_source, device, buffers>>

SourceIsPlaying == local' = [local EXCEPT !.isPlaying = state = "playing"]
GetSourceProcessedBufferCount == local' = [local EXCEPT !.count = Played]

CountThenStatus ==              \* mutant: the two questions in the other order
  \/ pc = "status" /\ GetSourceProcessedBufferCount /\ Goto("count")
  \/ pc = "count" /\ SourceIsPlaying /\ Goto("dequeue")

StatusThenCount ==
  \/ pc = "status" /\ SourceIsPlaying /\ Goto("count")
  \/ pc = "count" /\ GetSourceProcessedBufferCount /\ Goto("dequeue")

AskSource == /\ StatusThenCount
             /\ UNCHANGED <<sent, position, progress, seeks, m_bufferQueue, m_source, device, buffers>>

\* SourceDequeueBuffer, DestroyBuffer
Dequeue == /\ pc = "dequeue" /\ local.count > 0
           /\ local' = [local EXCEPT !.count = @ - 1]
           /\ buffers' = buffers \ {Head(m_source)}
           /\ m_source' = Tail(m_source)
           /\ Unqueue
           /\ UNCHANGED <<sent, position, progress, seeks, m_bufferQueue, pc>>

\* A source that has stopped is started when the first fragment is due.
IsDue(first) == local.progress >= first.startTime

Dequeued == /\ pc = "dequeue" /\ local.count = 0
            /\ Goto(IF local.isPlaying \/ (m_bufferQueue # << >> /\ IsDue(Head(m_bufferQueue)))
                    THEN "enqueue" ELSE "input")
            /\ UNCHANGED <<sent, position, progress, seeks, m_bufferQueue, m_source, device, buffers, local>>

First == Head(m_bufferQueue)
InTime(f) == f.startTime >= local.progress
TooEarly(f) == f.startTime >= local.progress + Tolerance

\* SourceEnqueueBuffer of a fragment that is due soon
Enqueue == /\ pc = "enqueue" /\ m_bufferQueue # << >>
           /\ InTime(First) /\ ~TooEarly(First)
           /\ Queue(First.serial)
           /\ m_source' = Append(m_source, First.serial)
           /\ m_bufferQueue' = Tail(m_bufferQueue)
           /\ UNCHANGED <<sent, position, progress, seeks, buffers, pc, local>>

\* A late fragment is dropped; its OpenAL buffer is not destroyed.
Skip == /\ pc = "enqueue" /\ m_bufferQueue # << >> /\ ~InTime(First)
        /\ m_bufferQueue' = Tail(m_bufferQueue)
        /\ UNCHANGED <<sent, position, progress, seeks, m_source, device, buffers, pc, local>>

Enqueued == /\ pc = "enqueue"
            /\ m_bufferQueue # << >> => TooEarly(First)
            /\ IF local.isPlaying THEN UNCHANGED device ELSE Play
            /\ Goto("input")
            /\ UNCHANGED <<sent, position, progress, seeks, m_bufferQueue, m_source, buffers, local>>

UpdateContent == TakeProgress \/ AskSource \/ Dequeue \/ Dequeued \/ Enqueue \/ Skip \/ Enqueued

Next == FinishBuffer \/ Tick \/ Seek \/ ProcessInput \/ UpdateContent

Spec == Init /\ [][Next]_vars

-----------------------------------------------------------------------------
\* No fragment is heard twice, none before one sent earlier: a source is started
\* again only when the buffers it has played are taken back.
HeardOnce == \A i, j \in DOMAIN heard : i < j => heard[i] < heard[j]

\* The queue of the OpenALSource is that of OpenAL, so that ASSERT( NULL != buffer )
\* holds and OpenAL gives back what the destination destroys: a buffer in the
\* queue of the source or of the destination exists, and only processed ones go.
QueuesAgree ==
  /\ m_source = queued
  /\ \A i \in DOMAIN queued : queued[i] \in buffers
  /\ \A i \in DOMAIN m_bufferQueue : m_bufferQueue[i].serial \in buffers
  /\ pc = "dequeue" => local.count <= processed
=============================================================================
