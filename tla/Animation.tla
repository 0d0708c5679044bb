------------------------------ MODULE Animation ------------------------------
(***************************************************************************)
(* GraphicAnimationController: animations that start when its time line    *)
(* reaches their time stamps, and Object3DKeyFrameAnimation, which poses   *)
(* an object between its key frames as its own clock advances.             *)
(*                                                                         *)
(* A pose is the pair of frames it lies between and the clock it was       *)
(* computed for.  The client keeps to the interface: after Update returned *)
(* FALSE it calls Start or SetTimeLine before the next Update.             *)
(***************************************************************************)
EXTENDS Naturals, Sequences, FiniteSets, SequencesExt

CONSTANTS
  Action,     \* the key frame animations
  Frames,     \* of each: the times of its key frames, in the order added
  Stamp,      \* time stamps they are added at
  Interval,   \* the intervals of Update, after m_speed
  Jump,       \* the times SetTimeLine is called with
  None

VARIABLES
  stamp,      \* m_timeLine: of each animation its time stamp, None before AddAnimation
  live,       \* m_liveAnimations
  timeLine,   \* m_currentTimeLine
  pause, loop,
  clock,      \* m_time of each animation
  next,       \* m_nextFrame of each
  from,       \* the index of m_fromFrame
  pose,       \* what LoadTransform was given last
  ended,      \* Update of the controller returned FALSE last
  overdue     \* history: an animation was updated after it had finished

vars == <<stamp, live, timeLine, pause, loop, clock, next, from, pose, ended, overdue>>
animations == <<clock, next, from, pose>>

Added == {a \in Action : stamp[a] # None}
\* m_lastAnimationTime
LastStamp == IF Added = {} THEN 0
             ELSE CHOOSE t \in {stamp[a] : a \in Added} : \A a \in Added : stamp[a] <= t

Init == /\ stamp = [a \in Action |-> None]
        /\ live = <<>>
        /\ timeLine = 0
        /\ pause = FALSE /\ loop = TRUE
        /\ clock = [a \in Action |-> 0]
        /\ next = [a \in Action |-> 1]
        /\ from = [a \in Action |-> 1]
        /\ pose = [a \in Action |-> None]
        /\ ended = TRUE
        /\ overdue = FALSE

-----------------------------------------------------------------------------
(* One key frame animation: s is its clock, next and from.                 *)
Started == [clock |-> 0, next |-> 1, from |-> 1, pose |-> None, goesOn |-> TRUE]
StateOf(a) == [clock |-> clock[a], next |-> next[a], from |-> from[a], pose |-> pose[a],
               goesOn |-> TRUE]

Ahead(time, frame) == time < frame

\* Update: the frames the clock has passed are skipped, the last of them is
\* where the pose comes from
Updated(a, s, interval) ==
  LET time == s.clock + interval
      rest == {i \in s.next .. Len(Frames[a]) : Ahead(time, Frames[a][i])}
      stop == IF rest = {} THEN Len(Frames[a]) + 1
              ELSE CHOOSE i \in rest : \A j \in rest : i <= j
      origin == IF stop > s.next THEN stop - 1 ELSE s.from
  IN  [clock |-> time, next |-> stop, from |-> origin,
       goesOn |-> rest # {},
       pose |-> IF rest = {} THEN <<origin, origin, time>>
                ELSE IF Frames[a][stop] > Frames[a][origin] THEN <<origin, stop, time>>
                ELSE <<stop, stop, time>>]

-----------------------------------------------------------------------------
(* The controller: how many of the animations end up in each state.        *)
Take(states) ==
  /\ clock' = [a \in Action |-> states[a].clock]
  /\ next' = [a \in Action |-> states[a].next]
  /\ from' = [a \in Action |-> states[a].from]
  /\ pose' = [a \in Action |-> states[a].pose]

\* those with time stamps in a range of the time line, in the order of the map
InOrder(actions) ==
  SetToSortSeq(actions, LAMBDA a, b : stamp[a] < stamp[b])

\* SetTimeLine: what it makes of the animations, and which of them go on
Restarted(time) ==
  [a \in Action |-> IF a \in Added /\ stamp[a] <= time THEN Updated(a, Started, time)
                    ELSE StateOf(a)]
RestartedLive(time) ==
  SelectSeq(InOrder({a \in Added : stamp[a] <= time}), LAMBDA a : Restarted(time)[a].goesOn)

\* mutant: those whose time stamp is the current time are started again
FromCurrent == {a \in Added : stamp[a] >= timeLine}
FromNext == {a \in Added : stamp[a] > timeLine}

\* Update while the controller is not paused
Advanced(interval) ==
  LET begun == {a \in FromNext : stamp[a] <= timeLine + interval} IN
  [a \in Action |->
     IF a \in begun THEN Updated(a, Started, timeLine + interval - stamp[a])
     ELSE IF a \in ToSet(live) THEN Updated(a, StateOf(a), interval)
     ELSE StateOf(a)]
AdvancedLive(interval) ==
  LET begun == {a \in FromNext : stamp[a] <= timeLine + interval}
  IN  SelectSeq(live, LAMBDA a : Advanced(interval)[a].goesOn)
      \o SelectSeq(InOrder(begun), LAMBDA a : Advanced(interval)[a].goesOn)

Finished(a) == next[a] > Len(Frames[a])

Update(interval) ==
  /\ ~ended
  /\ LET time == IF pause THEN timeLine ELSE timeLine + interval
         states == IF pause THEN [a \in Action |-> StateOf(a)] ELSE Advanced(interval)
         lives == IF pause THEN live ELSE AdvancedLive(interval)
         continues == lives # <<>> \/ time < LastStamp
     IN  IF ~continues /\ loop
         THEN /\ Take([a \in Action |-> IF a \in Added /\ stamp[a] = 0
                                        THEN Updated(a, Started, 0) ELSE states[a]])
              /\ live' = RestartedLive(0)
              /\ timeLine' = 0
              /\ ended' = FALSE
         ELSE /\ Take(states)
              /\ live' = lives
              /\ timeLine' = time
              /\ ended' = ~continues
  /\ overdue' = (overdue \/ (~pause /\ \E i \in DOMAIN live : Finished(live[i])))
  /\ UNCHANGED <<stamp, pause, loop>>

SetTimeLine(time) ==
  /\ Take(Restarted(time))
  /\ live' = RestartedLive(time)
  /\ timeLine' = time
  /\ ended' = FALSE
  /\ UNCHANGED <<stamp, pause, loop, overdue>>

Start == SetTimeLine(0)

Pause == pause' = TRUE /\ UNCHANGED <<stamp, live, timeLine, loop, animations, ended, overdue>>
Resume == pause' = FALSE /\ UNCHANGED <<stamp, live, timeLine, loop, animations, ended, overdue>>
SetLoop == loop' = ~loop /\ UNCHANGED <<stamp, live, timeLine, pause, animations, ended, overdue>>

\* before the controller is started
AddAnimation(a, t) ==
  /\ ended /\ live = <<>>
  /\ a \notin Added
  /\ stamp' = [stamp EXCEPT ![a] = t]
  /\ UNCHANGED <<live, timeLine, pause, loop, animations, ended, overdue>>

ClearAnimations ==
  /\ ended /\ live = <<>> /\ Added # {}
  /\ stamp' = [a \in Action |-> None]
  /\ UNCHANGED <<live, timeLine, pause, loop, animations, ended, overdue>>

Next == \/ \E interval \in Interval : Update(interval)
        \/ \E time \in Jump : SetTimeLine(time)
        \/ Start \/ Pause \/ Resume \/ SetLoop
        \/ \E a \in Action, t \in Stamp : AddAnimation(a, t)
        \/ ClearAnimations

Spec == Init /\ [][Next]_vars

-----------------------------------------------------------------------------
\* The pose of an animation at a time, straight from its frames: the first frame
\* before its time, the last one after it, else between the two around the time.
PoseAt(a, t) ==
  LET frames == Frames[a]
      passed == {i \in DOMAIN frames : frames[i] <= t}
      last == IF passed = {} THEN 0 ELSE CHOOSE i \in passed : \A j \in passed : j <= i
  IN  IF last = Len(frames) THEN <<last, last>>
      ELSE IF last = 0 THEN <<1, 1>>
      ELSE <<last, last + 1>>

\* While the controller runs, an object whose animation has begun has the pose
\* its animation has at the time that has passed since its time stamp, however
\* that time was divided into updates, paused and looped; an animation that is
\* over keeps its last pose, and one that has not begun is not touched.
PosesInStep ==
  ~ended => \A a \in Added :
    IF stamp[a] <= timeLine
    THEN /\ <<pose[a][1], pose[a][2]>> = PoseAt(a, timeLine - stamp[a])
         /\ (a \in ToSet(live)) <=> ~Finished(a)
         /\ a \in ToSet(live) => pose[a][3] = timeLine - stamp[a]
    ELSE a \notin ToSet(live)

\* GraphicAnimation.h:22 "No more update after returning a false value."
NotOverdue == ~overdue /\ \A i, j \in DOMAIN live : live[i] = live[j] => i = j

AnimationSound == PosesInStep /\ NotOverdue
=============================================================================
