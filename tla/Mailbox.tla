------------------------------- MODULE Mailbox -------------------------------
(***************************************************************************)
(* What a request slot promises: the last request put in is the one that   *)
(* is taken out, once, and whole.                                          *)
(***************************************************************************)
CONSTANTS Value, None

VARIABLES
  box,      \* the request that waits, or None
  taken     \* the request taken out last, or None

Init == box = None /\ taken = None

Put(v) == box' = v /\ UNCHANGED taken

Take == box # None /\ taken' = box /\ box' = None

Next == Take \/ \E v \in Value : Put(v)

Spec == Init /\ [][Next]_<<box, taken>>
=============================================================================
