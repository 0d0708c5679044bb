--------------------------- MODULE BoundedChannel ---------------------------
(***************************************************************************)
(* What a pipeline connection promises to the two procedures it joins: a   *)
(* queue of at most Capacity data packages, taken out in the order they    *)
(* were put in, none lost, repeated or changed on the way.                 *)
(***************************************************************************)
EXTENDS Naturals, Sequences

CONSTANTS Payload,   \* what a package may carry
          Capacity   \* max_data_num of the connection

VARIABLE queue       \* the committed packages the target has not moved past

Init == queue = << >>

Put(v) == /\ Len(queue) < Capacity
          /\ queue' = Append(queue, v)

Get == /\ queue # << >>
       /\ queue' = Tail(queue)

Next == Get \/ \E v \in Payload : Put(v)

Spec == Init /\ [][Next]_queue
=============================================================================
