--------------------------- MODULE AutoResetEvent ---------------------------
(***************************************************************************)
(* What synchronize.h promises of an event: setting it lets one waiting    *)
(* thread (or the next one to wait) return, and that return clears it.     *)
(***************************************************************************)
CONSTANT Threads

VARIABLES flag,      \* the event is set
          waiting    \* threads inside synchronize_wait_for_event

Init == flag = FALSE /\ waiting = {}

Arrive(t) == t \notin waiting /\ waiting' = waiting \cup {t} /\ UNCHANGED flag

Release(t) == /\ t \in waiting
              /\ flag
              /\ flag' = FALSE
              /\ waiting' = waiting \ {t}

Set   == flag' = TRUE  /\ UNCHANGED waiting
Reset == flag' = FALSE /\ UNCHANGED waiting

Next == Set \/ Reset \/ \E t \in Threads : Arrive(t) \/ Release(t)

Spec == Init /\ [][Next]_<<flag, waiting>>
=============================================================================
