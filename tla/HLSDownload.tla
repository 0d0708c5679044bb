---------------------------- MODULE HLSDownload -----------------------------
(***************************************************************************)
(* The HTTP live stream's source and filter: HLSDownloadUrl reads the      *)
(* playlist again and again, passes on the segments it has not met before, *)
(* and HLSDownloadTS downloads each.  A connection of the pipeline lies    *)
(* between them, and stopping it resets the two one after the other.       *)
(*                                                                         *)
(* A playlist is the window of segments a server shows, a segment the      *)
(* number it has in the stream.  A segment is remembered by the first 20   *)
(* characters of its line, which Prefix stands for.  The URL given to      *)
(* SetURL is that of a master playlist, and its variants lead to playlists *)
(* of segments; what is in a line besides the segment is left out.         *)
(***************************************************************************)
EXTENDS Naturals, Sequences, FiniteSets, SequencesExt

CONSTANTS
  LastSegment,\* bound: segments of the stream
  Window,     \* segments the server shows at a time
  Buffers,    \* buffers of the connection
  Prefix      \* [segment -> the first 20 characters of its line]

Segment == 1 .. LastSegment
NoSegment == 0

VARIABLES
  shown,      \* the server's newest segment
  context,    \* mainContext: "none", "empty" when SetURL failed, "ready"
  running,    \* is_running of the tasks of the two
  urlset,     \* the lines parse_playlist has met
  lines,      \* of the playlist being parsed
  pending,    \* the segment parse_playlist waits with for an output buffer
  urls,       \* the buffers passed on
  fetching,   \* HLSDownloadTS is inside ProcessInput
  ts,         \* what it has passed on
  met,        \* the segments of the lines that were parsed
  lost        \* those of them whose download failed, or whose procedure was stopping

vars == <<shown, context, running, urlset, lines, pending, urls, fetching, ts, met, lost>>
urlSide == <<urlset, lines, pending, met>>
tsSide == <<fetching, ts>>

Init == /\ shown = 0
        /\ context = "none"
        /\ running = [url |-> FALSE, ts |-> FALSE]
        /\ urlset = {}
        /\ lines = <<>>
        /\ pending = NoSegment
        /\ urls = <<>>
        /\ fetching = FALSE
        /\ ts = <<>>
        /\ met = {}
        /\ lost = {}

Publish ==
  /\ shown < LastSegment
  /\ shown' = shown + 1
  /\ UNCHANGED <<context, running, urlSide, urls, tsSide, lost>>

\* the download of the master playlist succeeds, or leaves variants without a URL
SetURL(ok) ==
  /\ context # "ready" /\ running = [url |-> FALSE, ts |-> FALSE]
  /\ context' = IF ok THEN "ready" ELSE "empty"
  /\ urlset' = {}
  /\ UNCHANGED <<shown, running, lines, pending, met, urls, tsSide, lost>>

Parked == lines = <<>> /\ pending = NoSegment

-----------------------------------------------------------------------------
(* HLSDownloadUrl's task.                                                  *)
GetData ==
  /\ running.url /\ Parked /\ context = "ready"
  /\ lines' = [i \in 1 .. (IF shown < Window THEN shown ELSE Window) |->
                 (IF shown < Window THEN 0 ELSE shown - Window) + i]
  /\ lines' # <<>>
  /\ UNCHANGED <<shown, context, running, urlset, pending, met, urls, tsSide, lost>>

\* hls_add_segment
AddSegment(segment) == urlset \cup {Prefix[segment]}

\* one line of parse_playlist: what was met before is passed over
ParseLine ==
  /\ lines # <<>> /\ pending = NoSegment
  /\ lines' = Tail(lines)
  /\ met' = met \cup {Head(lines)}
  /\ pending' = IF Prefix[Head(lines)] \in urlset THEN NoSegment ELSE Head(lines)
  /\ urlset' = AddSegment(Head(lines))
  /\ UNCHANGED <<shown, context, running, urls, tsSide, lost>>

\* GetOutputBuffer waits for a buffer, and has none for a procedure that is stopping
OutputSegment ==
  /\ pending # NoSegment
  /\ IF running.url
     THEN Len(urls) < Buffers /\ urls' = Append(urls, pending) /\ lost' = lost
     ELSE urls' = urls /\ lost' = lost \cup {pending}
  /\ pending' = NoSegment
  /\ UNCHANGED <<shown, context, running, urlset, lines, met, tsSide>>

-----------------------------------------------------------------------------
(* HLSDownloadTS's task.                                                   *)
ProcessInput ==
  /\ running.ts /\ ~fetching /\ urls # <<>>
  /\ fetching' = TRUE
  /\ UNCHANGED <<shown, context, running, urlSide, urls, ts, lost>>

\* the segment is downloaded and passed on; or it is not, and the input moves on as well
Downloaded(ok) ==
  /\ fetching
  /\ fetching' = FALSE
  /\ urls' = Tail(urls)
  /\ ts' = IF ok THEN Append(ts, Head(urls)) ELSE ts
  /\ lost' = IF ok THEN lost ELSE lost \cup {Head(urls)}
  /\ UNCHANGED <<shown, context, running, urlSide>>

-----------------------------------------------------------------------------
(* pipeline_start and pipeline_stop.                                       *)
Start ==
  /\ running = [url |-> FALSE, ts |-> FALSE] /\ Parked /\ ~fetching
  /\ context # "none" /\ urls = <<>>
  /\ running' = [url |-> TRUE, ts |-> TRUE]
  /\ UNCHANGED <<shown, context, urlSide, urls, tsSide, lost>>

StopUrl ==
  /\ running.url
  /\ running' = [running EXCEPT !.url = FALSE]
  /\ UNCHANGED <<shown, context, urlSide, urls, tsSide, lost>>

StopTS ==
  /\ running.ts /\ ~running.url /\ Parked
  /\ running' = [running EXCEPT !.ts = FALSE]
  /\ UNCHANGED <<shown, context, urlSide, urls, tsSide, lost>>

\* the reset of the input of a procedure that has stopped
ResetInput ==
  /\ ~running.ts /\ ~fetching /\ urls # <<>>
  /\ urls' = <<>>
  /\ lost' = lost \cup ToSet(urls)
  /\ UNCHANGED <<shown, context, running, urlSide, tsSide>>

Next == \/ Publish \/ \E ok \in BOOLEAN : SetURL(ok) \/ Downloaded(ok)
        \/ GetData \/ ParseLine \/ OutputSegment \/ ProcessInput
        \/ Start \/ StopUrl \/ StopTS \/ ResetInput

Spec == Init /\ [][Next]_vars

-----------------------------------------------------------------------------
OnTheWay == ts \o urls \o (IF pending = NoSegment THEN <<>> ELSE <<pending>>)

\* a line that begins as an earlier one did is taken for it
Shadowed == {s \in met : \E before \in met : before < s /\ Prefix[before] = Prefix[s]}

\* The segments pass in the order of the stream, none of them twice although every
\* download of the playlist shows most of them again; and one that was met is missing
\* only because its download failed, its procedure was stopping or its line begins as
\* another's.
SegmentsInOrder ==
  /\ \A i, j \in DOMAIN OnTheWay : i < j => OnTheWay[i] < OnTheWay[j]
  /\ ToSet(OnTheWay) = met \ (lost \cup Shadowed)
=============================================================================
