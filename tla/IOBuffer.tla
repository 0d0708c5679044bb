------------------------------ MODULE IOBuffer ------------------------------
(***************************************************************************)
(* IOBuffer of Graphic/Common/Util, a ring of bytes of fixed size: as a    *)
(* reader, the way PNGImageLoader reads a file through it, and as a writer *)
(* before a sink that may take less than it is given.  A buffer has one of *)
(* the two callbacks.  Bytes are numbers, their places in the file or the  *)
(* order in which they are put; what lies behind the bytes that a caller   *)
(* puts is 0.  The value a writer's calls return is left out.              *)
(***************************************************************************)
EXTENDS Integers, Sequences, FiniteSets

CONSTANTS
  Size,     \* m_uSize
  Length,   \* bytes of the file
  MaxCall,  \* bound: the bytes one call asks for
  Room      \* how much a sink may take in one call

VARIABLES
  m_lpBuffer,            \* the byte in each place; 0: none that was loaded last
  m_uCurrentDataOffset,
  m_uCurrentDataSize,
  loaded,                \* bytes the load callback has given, or a writer has put
  got,                   \* what the last call gave, to the reader or to the sink:
                         \* the bytes, or how many
  writes,                \* m_pPutCallBack is set
  skipped,               \* the bytes that SkipPut left unwritten
  short, broken          \* since the buffer was last empty: the sink has taken less
                         \* than it was offered; what a writer put has been lost or
                         \* put in the wrong place

vars == <<m_lpBuffer, m_uCurrentDataOffset, m_uCurrentDataSize, loaded, got,
          writes, skipped, short, broken>>

Smaller(m, n) == IF m < n THEN m ELSE n
Chunk(from, count) == [i \in 0 .. Size - 1 |-> IF i < count THEN from + i + 1 ELSE 0]

\* the constructor, of an empty buffer or over data that is already there
IOBufferOf(uDataSize) ==
  /\ m_lpBuffer = Chunk(0, uDataSize)
  /\ m_uCurrentDataOffset = 0
  /\ m_uCurrentDataSize = uDataSize
  /\ loaded = uDataSize
  /\ got = <<>>
  /\ skipped = {}
  /\ short = FALSE /\ broken = FALSE

SetLoadProc == writes = FALSE
SetPutProc  == writes = TRUE

Init == \/ SetLoadProc /\ \E uDataSize \in 0 .. Smaller(Size, Length) : IOBufferOf(uDataSize)
        \/ SetPutProc /\ IOBufferOf(0)

\* ReadFileCallback: as much as there is, at most the whole buffer
CallLoadFunc(from) == Smaller(Size, Length - from)

\* The loads of a call that needs more bytes than the buffer has: each but the
\* last is used up whole.
RECURSIVE Refill(_, _)
Refill(from, need) ==
  LET count == CallLoadFunc(from)
  IN  IF count > 0 /\ count < need THEN Refill(from + count, need - count)
      ELSE [from |-> from, count |-> count, taken |-> Smaller(count, need)]

\* bytes copied out, round the end of the buffer if need be
Ring(bytes, offset, count) == [i \in 1 .. count |-> bytes[(offset + i - 1) % Size]]
Copied(count) == Ring(m_lpBuffer, m_uCurrentDataOffset, count)

\* mutant: the reader starts again at the front of the buffer
StaysInFront(offset, left) == 0
\* where the data begins after a call: an empty buffer starts again in front
DataOffset(offset, left) == IF left = 0 THEN 0 ELSE offset % Size

\* the part of Get and SkipGet in which the buffer has all that is asked for
FromBuffer(uSize) ==
  /\ uSize <= m_uCurrentDataSize
  /\ m_uCurrentDataSize' = m_uCurrentDataSize - uSize
  /\ m_uCurrentDataOffset' = DataOffset(m_uCurrentDataOffset + uSize, m_uCurrentDataSize - uSize)
  /\ UNCHANGED <<m_lpBuffer, loaded>>

\* the other part, last being its last load
FromFile(uSize, last) ==
  /\ uSize > m_uCurrentDataSize
  /\ m_lpBuffer' = Chunk(last.from, last.count)
  /\ loaded' = last.from + last.count
  /\ m_uCurrentDataSize' = last.count - last.taken
  /\ m_uCurrentDataOffset' = DataOffset(last.taken, last.count - last.taken)

Reads == ~writes /\ UNCHANGED <<writes, skipped, short, broken>>

Get(uSize) == Reads /\
  \/ /\ FromBuffer(uSize)
     /\ got' = Copied(uSize)
  \/ \E last \in {Refill(loaded, uSize - m_uCurrentDataSize)} :
       /\ FromFile(uSize, last)
       /\ got' = Copied(m_uCurrentDataSize)
                   \o [i \in 1 .. last.from + last.taken - loaded |-> loaded + i]

SkipGet(uSize) == Reads /\
  \/ FromBuffer(uSize) /\ got' = <<uSize>>
  \/ \E last \in {Refill(loaded, uSize - m_uCurrentDataSize)} :
       /\ FromFile(uSize, last)
       /\ got' = <<m_uCurrentDataSize + last.from + last.taken - loaded>>

-----------------------------------------------------------------------------
(* Writing.  w is the buffer in the middle of a call; room, what the sink  *)
(* takes in it, out, what it got, and the flags, those of the variables.   *)
CallPutFunc(offered, left) == Smaller(offered, left)

\* count more bytes behind those of the buffer: copied, or left as they are
Fill(w, count, copies) ==
  LET end == (w.offset + w.size) % Size
  IN  [w EXCEPT !.size = @ + count, !.entered = @ + count,
                !.bytes = [p \in 0 .. Size - 1 |->
                  IF copies /\ (p - end) % Size < count
                  THEN w.entered + 1 + ((p - end) % Size) ELSE @[p]]]

\* The bytes fit, and the free places go round the end of the buffer.  The second
\* copy takes as many bytes as there are places before the free ones, and not those
\* that are left: it goes over what the buffer holds, and the data is then taken to
\* begin count places too early.
GoesRound(w, count) ==
  LET end == (w.offset + w.size) % Size
  IN  Size - end < count /\ count <= Size - w.size

FillRound(w, count, copies) ==
  LET end == (w.offset + w.size) % Size
  IN  [w EXCEPT !.size = @ + count, !.entered = @ + count, !.broken = TRUE,
                !.offset = (end + Size - w.size - count) % Size,
                !.bytes = [p \in 0 .. Size - 1 |->
                  IF ~copies THEN @[p]
                  ELSE IF (p - end) % Size < count THEN w.entered + 1 + ((p - end) % Size)
                  ELSE 0]]

\* a full buffer goes to the sink, in two calls if it begins in the middle
Drain(w) ==
  LET taken == CallPutFunc(Size, w.room)
  IN  [w EXCEPT !.size = @ - taken, !.room = @ - taken, !.short = @ \/ taken < Size,
                !.offset = IF taken = Size THEN 0 ELSE (@ + taken) % Size,
                !.out = @ \o Ring(w.bytes, w.offset, taken)]

\* The loop, of a buffer that was drained: if the sink takes less in it, the whole
\* buffer stays counted, and in the call after it none of it.
RECURSIVE PutRest(_, _, _)
PutRest(w, count, copies) ==
  LET filled  == Fill(w, Smaller(count, Size), copies)
      drained == Drain(filled)
  IN  CASE count < Size -> filled
        [] count = Size -> [drained EXCEPT !.size = 0, !.offset = 0,
                                        !.broken = @ \/ drained.size > 0]
        [] OTHER -> IF drained.size = 0 THEN PutRest(drained, count - Size, copies)
                    ELSE [drained EXCEPT !.size = Size, !.broken = TRUE]

PutBytes(w, count, copies) ==
  LET space   == Size - w.size
      filled  == IF GoesRound(w, count) THEN FillRound(w, count, copies)
                 ELSE Fill(w, Smaller(count, space), copies)
      drained == Drain(filled)
  IN  IF count < space THEN filled
      ELSE IF count > space /\ drained.size = 0 THEN PutRest(drained, count - space, copies)
      ELSE drained

Writes(w) ==
  /\ m_lpBuffer' = w.bytes
  /\ m_uCurrentDataOffset' = w.offset
  /\ m_uCurrentDataSize' = w.size
  /\ loaded' = w.entered
  /\ got' = w.out
  /\ short' = w.short /\ broken' = w.broken
  /\ UNCHANGED writes

Now(room) == [bytes |-> m_lpBuffer, offset |-> m_uCurrentDataOffset,
              size |-> m_uCurrentDataSize, entered |-> loaded,
              room |-> room, out |-> <<>>,
              short |-> short /\ m_uCurrentDataSize > 0,
              broken |-> broken /\ m_uCurrentDataSize > 0]

Put(uSize, room) ==
  /\ writes /\ loaded + uSize <= Length
  /\ Writes(PutBytes(Now(room), uSize, TRUE))
  /\ UNCHANGED skipped

SkipPut(uSize, room) ==
  /\ writes /\ loaded + uSize <= Length
  /\ Writes(PutBytes(Now(room), uSize, FALSE))
  /\ skipped' = skipped \cup (loaded + 1 .. loaded')

\* all that the sink takes, in two calls if the bytes go round the end
Flush(room) ==
  /\ writes
  /\ LET taken == CallPutFunc(m_uCurrentDataSize, room)
         left  == m_uCurrentDataSize - taken
     IN  Writes([Now(room) EXCEPT !.size = left, !.offset = DataOffset(@ + taken, left),
                                  !.short = @ \/ left > 0, !.out = Copied(taken)])
  /\ UNCHANGED skipped

Clear == /\ m_uCurrentDataSize' = 0
         /\ m_uCurrentDataOffset' = 0
         /\ got' = <<>>
         /\ UNCHANGED <<m_lpBuffer, loaded, writes, skipped, short, broken>>

Next == \/ \E uSize \in 1 .. MaxCall : \/ Get(uSize) \/ SkipGet(uSize)
                                       \/ \E room \in Room : Put(uSize, room) \/ SkipPut(uSize, room)
        \/ \E room \in Room : Flush(room)
        \/ Clear

Spec == Init /\ [][Next]_vars

-----------------------------------------------------------------------------
\* What a reader of a stream sees: the bytes of the stream, numbered, each once
\* and in order, and fewer than it asked for only at the end.  Clear drops what
\* the buffer holds.
Position == loaded - m_uCurrentDataSize
Given(read) == \E n \in 1 .. MaxCall : \E count \in {Smaller(n, Length - Position)} :
  /\ got' = IF read THEN [i \in 1 .. count |-> Position + i] ELSE <<count>>
  /\ Position' = Position + count
Dropped == Position' = loaded /\ loaded' = loaded /\ got' = <<>>

\* What the sink of a writer gets: the bytes that were put, each once and in order,
\* and in the place of a skipped one some byte.
Passed ==
  /\ Position' = Position + Len(got')
  /\ \A i \in 1 .. Len(got') : got'[i] = Position + i \/ Position + i \in skipped'

\* The calls read the file as a stream and write one: whatever goes through the
\* buffer and whatever past it, no byte is given twice, left out or out of order.
\* The stream of a writer may break, up to the end of what the buffer then holds, and
\* only before a sink that has taken less than it was offered: one that takes part
\* gets the rest later, unless that is in a call in which it has taken a whole buffer
\* before, or the bytes put next fit into free places that go round the end.
StreamStep == IF writes THEN (broken' /\ short') \/ Passed \/ Dropped
              ELSE Given(TRUE) \/ Given(FALSE) \/ Dropped
ImplementsStream == [][StreamStep]_<<Position, got>>
=============================================================================
