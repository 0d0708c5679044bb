------------------------- MODULE DestinationProgress -------------------------
(***************************************************************************)
(* What PlayerControl keeps of the destinations: a map from a destination  *)
(* to its progress, a red-black tree of pointers into the map, ordered by  *)
(* progress, and m_lastProgress, the slowest destination's progress, which *)
(* the clock waits for.                                                    *)
(*                                                                         *)
(* The tree takes out the first pointer that compares equal.  When that is *)
(* another destination's the tree has one pointer twice and is not ordered *)
(* any more (mistaken); what it does then is not followed.                 *)
(***************************************************************************)
EXTENDS Naturals, SequencesExt

CONSTANTS Destination,     \* keys of destinations that may register
          Reporter,        \* keys that report: not all of them register
          LastTime

VARIABLES m_destinations,         \* key -> progress
          m_destinationProgress,  \* the pointers, as keys, in the tree's order
          m_lastProgress,
          current,                \* history: nobody came or left since a report
          mistaken, crashed

vars == <<m_destinations, m_destinationProgress, m_lastProgress, current,
          mistaken, crashed>>

Init == /\ m_destinations = <<>>
        /\ m_destinationProgress = <<>>
        /\ m_lastProgress = 0
        /\ current = FALSE
        /\ mistaken = FALSE
        /\ crashed = FALSE

Runs == ~mistaken /\ ~crashed
Known == DOMAIN m_destinations

\* red_black_tree_insert: behind all that are not greater; the tree looks at
\* the map of the moment
Insert(tree, map, k) ==
  InsertAt(tree, 1 + Cardinality({i \in DOMAIN tree : map[tree[i]] <= map[k]}), k)

\* red_black_tree_remove: the first that compares equal
Found(k) ==
  1 + Cardinality({i \in DOMAIN m_destinationProgress :
                     m_destinations[m_destinationProgress[i]] < m_destinations[k]})

(***************************************************************************)
(* RegisterDestination says that it has succeeded whether or not there was *)
(* memory for the map and for the tree.                                    *)
(***************************************************************************)
RegisterDestination(k) ==
  LET map == [d \in Known \cup {k} |-> IF d = k THEN 0 ELSE m_destinations[d]] IN
  /\ Runs
  /\ k \notin Known
  /\ m_destinations' = map
  /\ m_destinationProgress' = Insert(m_destinationProgress, map, k)
  /\ current' = FALSE
  /\ UNCHANGED <<m_lastProgress, mistaken, crashed>>

UnregisterDestination(k) ==
  /\ Runs
  /\ k \in Known
  /\ mistaken' = (m_destinationProgress[Found(k)] # k)
  /\ m_destinationProgress' = RemoveAt(m_destinationProgress, Found(k))
  /\ m_destinations' = [d \in Known \ {k} |-> m_destinations[d]]
  /\ current' = FALSE
  /\ UNCHANGED <<m_lastProgress, crashed>>

Moved(k, map) == Insert(RemoveAt(m_destinationProgress, Found(k)), map, k)

(***************************************************************************)
(* ReportProgress, of a destination that is registered ...                 *)
(***************************************************************************)
ReportProgress(k, time) ==
  LET map == [m_destinations EXCEPT ![k] = time] IN
  /\ Runs
  /\ k \in Known
  /\ m_destinations' = map
  /\ mistaken' = (m_destinationProgress[Found(k)] # k)
  /\ m_destinationProgress' = Moved(k, map)
  /\ m_lastProgress' = map[Head(m_destinationProgress')]
  /\ current' = TRUE
  /\ UNCHANGED crashed

(***************************************************************************)
(* ... and of one that is not, as the audio destination, which never       *)
(* registers: the tree is asked for its first pointer even if it has none. *)
(***************************************************************************)
ReportOfStranger(k) ==
  /\ Runs
  /\ k \notin Known
  /\ IF m_destinationProgress = <<>>
     THEN crashed' = TRUE /\ UNCHANGED <<m_lastProgress, current>>
     ELSE /\ m_lastProgress' = m_destinations[Head(m_destinationProgress)]
          /\ current' = TRUE
          /\ UNCHANGED crashed
  /\ UNCHANGED <<m_destinations, m_destinationProgress, mistaken>>

Next == \/ \E k \in Destination : RegisterDestination(k) \/ UnregisterDestination(k)
        \/ \E k \in Reporter : ReportOfStranger(k)
        \/ \E k \in Reporter, time \in 0..LastTime : ReportProgress(k, time)

Spec == Init /\ [][Next]_vars

(***************************************************************************)
(* The tree points at every registered destination once, the slowest       *)
(* first, although a progress changes while it is in the map; and the      *)
(* clock waits for the slowest of them (PlayerControl::ReportProgress).    *)
(***************************************************************************)
SlowestFirst ==
  ~mistaken =>
    /\ ToSet(m_destinationProgress) = Known
    /\ IsInjective(m_destinationProgress)
    /\ \A i, j \in DOMAIN m_destinationProgress :
         i < j => m_destinations[m_destinationProgress[i]]
                    <= m_destinations[m_destinationProgress[j]]
    /\ current => /\ \A k \in Known : m_lastProgress <= m_destinations[k]
                  /\ \E k \in Known : m_lastProgress = m_destinations[k]
=============================================================================
