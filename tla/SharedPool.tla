------------------------------ MODULE SharedPool ------------------------------
(***************************************************************************)
(* The memory pool of a pipeline procedure, as the threads that move       *)
(* buffers through its pins see it.  A list takes a block of the pool for   *)
(* its first element and gives it back with its last one (object_pool.c),   *)
(* so pushing to an empty list allocates and emptying a list frees.  The    *)
(* thread of the procedure before this one pushes to the input's list, the  *)
(* thread of the procedure after it to the output's list, and the           *)
(* procedure's own thread pops from both.  Whoever works on a list has      *)
(* exchanged its pointer for NULL, so a list has one thread at a time; the  *)
(* pool has no lock of its own.                                             *)
(*                                                                         *)
(* Every access to a word of the pool is a step of its own.                 *)
(***************************************************************************)
EXTENDS Integers

CONSTANTS
  Block,        \* what malloc can return
  None,         \* NULL
  Buffers,      \* exchange_data_desc of a connection
  Shapes        \* the sets of pins a procedure may have

VARIABLES
  Pins,         \* the pins the procedure has
  first_block,  \* of the memory pool: the first free block
  next,         \* first word of a block given back: the next free one
  current_block_num,   \* uint32: a negative value stands for one 2^32 higher
  heap,         \* blocks malloc may return
  block,        \* the block of each list, None when the list is empty
  size,         \* elements of each list
  taken,        \* the pointer to the list is exchanged for NULL
  pc,           \* of each thread
  local         \* of each thread: its list, a block, a number read

pool == <<first_block, next, current_block_num, heap>>
lists == <<block, size, taken>>
vars == <<Pins, pool, lists, pc, local>>

MaxBlockNum == 1
Thread == {"before", "own", "after"}
Pin == {"input", "output"}
Pusher(p) == IF p = "input" THEN "before" ELSE "after"

\* After pipeline_connection_connect every buffer is in the list of the output.
Init == /\ Pins \in Shapes
        /\ first_block = None
        /\ next = [b \in Block |-> None]
        /\ current_block_num = 0
        /\ size = [p \in Pin |-> IF p = "output" /\ p \in Pins THEN Buffers ELSE 0]
        /\ \E b \in Block : /\ block = [p \in Pin |-> IF size[p] = 0 THEN None ELSE b]
                            /\ heap = IF "output" \in Pins THEN Block \ {b} ELSE Block
        /\ taken = [p \in Pin |-> FALSE]
        /\ pc = [t \in Thread |-> "idle"]
        /\ local = [t \in Thread |-> [list |-> "input", block |-> None, number |-> 0]]

Goto(t, l) == pc' = [pc EXCEPT ![t] = l]
Release(p) == taken' = [taken EXCEPT ![p] = FALSE]
Resize(p, n) == size' = [size EXCEPT ![p] = @ + n]
Mine(t) == local[t].list

Available(p) == ~taken[p]

\* outgoing_task = atomic_exchange_ptr( &input->incoming_task, NULL ) and its like
Take(t, p, l) == /\ pc[t] = "idle" /\ p \in Pins /\ Available(p)
                 /\ taken' = [taken EXCEPT ![p] = TRUE]
                 /\ local' = [local EXCEPT ![t].list = p]
                 /\ Goto(t, l)
                 /\ UNCHANGED <<Pins, pool, block, size>>

PassOn(t, p) == t = Pusher(p) /\ size[p] < Buffers /\ Take(t, p, "push")
MoveOn(t, p) == t = "own" /\ size[p] > 0 /\ Take(t, p, "pop")

PushToBlock(t) == /\ pc[t] = "push" /\ block[Mine(t)] # None
                  /\ Resize(Mine(t), 1) /\ Release(Mine(t)) /\ Goto(t, "idle")
                  /\ UNCHANGED <<Pins, pool, block, local>>

PopFromBlock(t) == /\ pc[t] = "pop" /\ size[Mine(t)] > 1
                   /\ Resize(Mine(t), -1) /\ Release(Mine(t)) /\ Goto(t, "idle")
                   /\ UNCHANGED <<Pins, pool, block, local>>

\* memory_pool_alloc, block = pool->first_block
LookUp(t) == /\ pc[t] = "push" /\ block[Mine(t)] = None
             /\ local' = [local EXCEPT ![t].block = first_block]
             /\ Goto(t, IF first_block = None THEN "malloc" ELSE "unlink")
             /\ UNCHANGED <<Pins, pool, lists>>

Unlink(t) == /\ pc[t] = "unlink"
             /\ first_block' = next[local[t].block]
             /\ Goto(t, "count down")
             /\ UNCHANGED <<Pins, next, current_block_num, heap, lists, local>>

\* --pool->current_block_num and ++pool->current_block_num read, then write
ReadCount(t) == /\ \/ pc[t] = "count down" /\ Goto(t, "write down")
                   \/ pc[t] = "count up" /\ Goto(t, "write up")
                /\ local' = [local EXCEPT ![t].number = current_block_num]
                /\ UNCHANGED <<Pins, pool, lists>>

\* object_pool_alloc and list_push_back put the block and the element to use.
Attach(t, b) == /\ block' = [block EXCEPT ![Mine(t)] = b]
                /\ Resize(Mine(t), 1) /\ Release(Mine(t)) /\ Goto(t, "idle")

CountDown(t) == /\ pc[t] = "write down"
                /\ current_block_num' = local[t].number - 1
                /\ Attach(t, local[t].block)
                /\ UNCHANGED <<Pins, first_block, next, heap, local>>

\* ASSERT( pool->current_block_num == 0 ) has been passed or compiled out.
Malloc(t) == /\ pc[t] = "malloc"
             /\ \E b \in heap : heap' = heap \ {b} /\ Attach(t, b)
             /\ UNCHANGED <<Pins, first_block, next, current_block_num, local>>

\* memory_pool_free: the list has let go of its block
GiveBack(t) == /\ pc[t] = "pop" /\ size[Mine(t)] = 1
               /\ local' = [local EXCEPT ![t].block = block[Mine(t)]]
               /\ block' = [block EXCEPT ![Mine(t)] = None]
               /\ Resize(Mine(t), -1)
               /\ Goto(t, IF current_block_num = MaxBlockNum THEN "free" ELSE "link")
               /\ UNCHANGED <<Pins, pool, taken>>

Free(t) == /\ pc[t] = "free"
           /\ heap' = heap \cup {local[t].block}
           /\ Release(Mine(t)) /\ Goto(t, "idle")
           /\ UNCHANGED <<Pins, first_block, next, current_block_num, block, size, local>>

Link(t) == /\ pc[t] = "link"
           /\ next' = [next EXCEPT ![local[t].block] = first_block]
           /\ Goto(t, "give")
           /\ UNCHANGED <<Pins, first_block, current_block_num, heap, lists, local>>

Give(t) == /\ pc[t] = "give"
           /\ first_block' = local[t].block
           /\ Goto(t, "count up")
           /\ UNCHANGED <<Pins, next, current_block_num, heap, lists, local>>

CountUp(t) == /\ pc[t] = "write up"
              /\ current_block_num' = local[t].number + 1
              /\ Release(Mine(t)) /\ Goto(t, "idle")
              /\ UNCHANGED <<Pins, first_block, next, heap, block, size, local>>

Next == \E t \in Thread :
          \/ \E p \in Pin : PassOn(t, p) \/ MoveOn(t, p)
          \/ PushToBlock(t) \/ PopFromBlock(t)
          \/ LookUp(t) \/ Unlink(t) \/ ReadCount(t) \/ CountDown(t) \/ Malloc(t)
          \/ GiveBack(t) \/ Free(t) \/ Link(t) \/ Give(t) \/ CountUp(t)

Spec == Init /\ [][Next]_vars

-----------------------------------------------------------------------------
\* The assertion of memory_pool_alloc (memory_pool.c:49): a pool with no first
\* block counts none.
NoneCounted == \A t \in Thread : pc[t] = "malloc" => current_block_num = 0

\* Every block is free on the heap, cached by the pool, on its way in a thread,
\* or under exactly one list: no element is ever handed out twice.
Held(b) == {<<"heap", x>> : x \in {b} \cap heap}
             \cup {<<p, "list">> : p \in {p \in Pin : block[p] = b}}
             \cup {<<t, "thread">> : t \in {t \in Thread : local[t].block = b /\
                       pc[t] \in {"count down", "write down", "free", "link", "give"}}}
             \cup (IF first_block = b THEN {<<"pool", "first">>} ELSE {})
BlocksHeldOnce == \A b \in Block : \A h, i \in Held(b) : h = i

\* What holds of a source and of a destination, whose one list has one thread
\* at a time: the lock of the list is the lock of the pool.
PoolIsWhole == NoneCounted /\ BlocksHeldOnce
=============================================================================
