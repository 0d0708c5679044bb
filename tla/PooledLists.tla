----------------------------- MODULE PooledLists -----------------------------
(* A list and an array_list that take their memory from the same pool, as   *)
(* the lists of a pipeline builder or a player do (common/src/common): the  *)
(* pool of memory, the pools of objects over it, and the two lists.         *)
EXTENDS Integers, Sequences, FiniteSets

CONSTANTS Block, MaxBlockNum,
          PerBlock,       \* objects of an object pool in a block
          NULL,
          PerArrayBlock,  \* elment_count_each_block - 1: the header takes a place
          Value,
          MaxListSize     \* bound: nothing is pushed on a list of this size

-----------------------------------------------------------------------------
(* common/src/common/memory_pool.c: blocks of one size.  The pool keeps at  *)
(* most max_block_num of the blocks given back to it, linked through the    *)
(* blocks themselves, and takes the others from malloc and gives them to    *)
(* free.  Block is all the memory there is: when the heap is used up malloc *)
(* returns NULL.                                                            *)

(* free: the blocks kept, first_block first; heap: the blocks malloc can    *)
(* still give.  current_block_num is the length of free.                    *)
MemoryPools == [free : Seq(Block), heap : SUBSET Block]

EmptyMemoryPool == [free |-> << >>, heap |-> Block]

MemAlloc(mem) ==
    CASE mem.free # << >>
           -> [mem |-> [mem EXCEPT !.free = Tail(@)], block |-> Head(mem.free)]
      [] mem.free = << >> /\ mem.heap # {}
           -> LET b == CHOOSE b \in mem.heap : TRUE
              IN  [mem |-> [mem EXCEPT !.heap = @ \ {b}], block |-> b]
      [] OTHER -> [mem |-> mem, block |-> NULL]

MemFree(mem, b) ==
    IF Len(mem.free) = MaxBlockNum
    THEN [mem EXCEPT !.heap = @ \cup {b}]
    ELSE [mem EXCEPT !.free = <<b>> \o @]

(* Giving back several blocks, one after the other.                         *)
MemFreeAll(mem, bs) ==
    LET n == IF Len(mem.free) + Len(bs) <= MaxBlockNum THEN Len(bs)
             ELSE MaxBlockNum - Len(mem.free)
    IN  [free |-> [i \in 1..n |-> bs[n + 1 - i]] \o mem.free,
         heap |-> mem.heap \cup {bs[i] : i \in n + 1 .. Len(bs)}]
-----------------------------------------------------------------------------
(* common/src/common/object_pool.c: objects of one size, PerBlock of them   *)
(* in a block of the memory pool.  Blocks with room form one doubly linked  *)
(* list, full blocks another, and a block whose objects are all free goes   *)
(* back to the memory pool.  An object is <<block, index>>.                 *)

Object == Block \X (1..PerBlock)

(* info[b] is the header of block b if the pool owns it: its neighbours and *)
(* the free objects in the order first_free links them; free_count is their *)
(* number.                                                                  *)
EmptyObjectPool == [firstFree |-> NULL, firstFull |-> NULL, lastFull |-> NULL,
                    info |-> [b \in Block |-> NULL]]

Owned(op) == {b \in Block : op.info[b] # NULL}

Live(op) == {o \in Owned(op) \X (1..PerBlock) :
                \A i \in DOMAIN op.info[o[1]].chain : op.info[o[1]].chain[i] # o[2]}

SetNext(info, b, n) == IF b = NULL THEN info ELSE [info EXCEPT ![b].next = n]
SetPrev(info, b, p) == IF b = NULL THEN info ELSE [info EXCEPT ![b].prev = p]

(* A block leaves the list it is in; the heads of the lists follow.         *)
Unlink(op, b, full) ==
    LET me == op.info[b]
    IN  [op EXCEPT !.info = SetPrev(SetNext(@, me.prev, me.next), me.next, me.prev),
                   !.firstFree = IF ~full /\ me.prev = NULL THEN me.next ELSE @,
                   !.firstFull = IF full /\ me.prev = NULL THEN me.next ELSE @,
                   !.lastFull  = IF full /\ me.next = NULL THEN me.prev ELSE @]

(* ... and is put at the end of the full blocks, or                         *)
AppendFull(op, b) ==
    [op EXCEPT !.info = SetNext([@ EXCEPT ![b].prev = op.lastFull, ![b].next = NULL],
                                op.lastFull, b),
               !.firstFull = IF op.lastFull = NULL THEN b ELSE @,
               !.lastFull = b]

(* in front of those with room.                                             *)
PushFreeQuietly(op, b) ==     \* mutant: first_free->prev = info is missing
    [op EXCEPT !.info = [@ EXCEPT ![b].prev = NULL, ![b].next = op.firstFree], !.firstFree = b]

PushFree(op, b) ==
    [op EXCEPT !.info = SetPrev([@ EXCEPT ![b].prev = NULL, ![b].next = op.firstFree],
                                op.firstFree, b),
               !.firstFree = b]

(* The block object_pool_alloc takes from: the first with room, or a new    *)
(* one whose objects are linked in their order.                             *)
WithRoom(mem, op) ==
    IF op.firstFree # NULL THEN [mem |-> mem, op |-> op]
    ELSE LET got == MemAlloc(mem) IN
         IF got.block = NULL THEN [mem |-> mem, op |-> op]
         ELSE [mem |-> got.mem,
               op  |-> [op EXCEPT !.firstFree = got.block,
                                  !.info[got.block] = [prev |-> NULL, next |-> NULL,
                                                       chain |-> [i \in 1..PerBlock |-> i]]]]

ObjectAlloc(mem, op) ==
    LET room == WithRoom(mem, op)
        b    == room.op.firstFree
        cut  == [room.op EXCEPT !.info[b].chain = Tail(@)]
    IN  IF b = NULL THEN [mem |-> mem, op |-> op, obj |-> NULL]
        ELSE [mem |-> room.mem,
              obj |-> <<b, Head(room.op.info[b].chain)>>,
              op  |-> IF cut.info[b].chain # << >> THEN cut
                      ELSE AppendFull(Unlink(cut, b, FALSE), b)]

ObjectFree(mem, op, obj) ==
    LET b     == obj[1]
        moved == IF op.info[b].chain # << >> THEN op
                 ELSE PushFree(Unlink(op, b, TRUE), b)
        back  == [moved EXCEPT !.info[b].chain = <<obj[2]>> \o @]
    IN  IF Len(back.info[b].chain) < PerBlock THEN [mem |-> mem, op |-> back]
        ELSE [mem |-> MemFree(mem, b),
              op  |-> [Unlink(back, b, FALSE) EXCEPT !.info[b] = NULL]]

(* The blocks from b along next.                                            *)
BlocksFrom(op, b) ==
    LET walk[n \in 0..Cardinality(Block), c \in Block \cup {NULL}] ==
            IF c = NULL \/ n = 0 THEN << >> ELSE <<c>> \o walk[n - 1, op.info[c].next]
    IN  walk[Cardinality(Block), b]

(* object_pool_clear walks both lists and frees every block.                *)
ObjectClear(mem, op) ==
    [mem |-> MemFreeAll(MemFreeAll(mem, BlocksFrom(op, op.firstFree)),
                        BlocksFrom(op, op.firstFull)),
     op  |-> EmptyObjectPool]
-----------------------------------------------------------------------------
(* common/src/common/list.c: a doubly linked list whose nodes are objects   *)
(* of a pool of its own.  An operation takes the memory pool and the list   *)
(* and gives both back; ok is what the C function returns.                  *)

EmptyList == [pool |-> EmptyObjectPool, first |-> NULL, last |-> NULL, size |-> 0,
              node |-> [o \in Object |-> NULL]]

Nodes(l) == {o \in Object : l.node[o] # NULL}

Relink(node, o, field, to) ==
    IF o = NULL THEN node ELSE [node EXCEPT ![o][field] = to]

Failed(mem, l) == [mem |-> mem, list |-> l, ok |-> FALSE]

PushBack(mem, l, v) ==
    LET got  == ObjectAlloc(mem, l.pool)
        node == [l.node EXCEPT ![got.obj] = [prev |-> l.last, next |-> NULL, value |-> v]]
    IN  IF got.obj = NULL THEN Failed(mem, l)
        ELSE [mem |-> got.mem, ok |-> TRUE,
              list |-> [pool |-> got.op, last |-> got.obj, size |-> l.size + 1,
                        first |-> IF l.last = NULL THEN got.obj ELSE l.first,
                        node |-> Relink(node, l.last, "next", got.obj)]]

PushFront(mem, l, v) ==
    LET got  == ObjectAlloc(mem, l.pool)
        node == [l.node EXCEPT ![got.obj] = [prev |-> NULL, next |-> l.first, value |-> v]]
    IN  IF got.obj = NULL THEN Failed(mem, l)
        ELSE [mem |-> got.mem, ok |-> TRUE,
              list |-> [pool |-> got.op, first |-> got.obj, size |-> l.size + 1,
                        last |-> IF l.first = NULL THEN got.obj ELSE l.last,
                        node |-> Relink(node, l.first, "prev", got.obj)]]

(* list_remove; popping an end is the same with that end's node.            *)
RemoveNode(mem, l, o) ==
    LET me   == l.node[o]
        done == ObjectFree(mem, l.pool, o)
    IN  [mem |-> done.mem, ok |-> TRUE,
         list |-> [pool |-> done.op, size |-> l.size - 1,
                   first |-> IF l.first = o THEN me.next ELSE l.first,
                   last  |-> IF l.last = o THEN me.prev ELSE l.last,
                   node |-> [Relink(Relink(l.node, me.next, "prev", me.prev),
                                    me.prev, "next", me.next) EXCEPT ![o] = NULL]]]

PopFront(mem, l) ==
    IF l.first = NULL THEN Failed(mem, l) ELSE RemoveNode(mem, l, l.first)
PopBack(mem, l)  ==
    IF l.last = NULL THEN Failed(mem, l) ELSE RemoveNode(mem, l, l.last)

(* The nodes from the first along next: what an iterator visits.            *)
Walk(l) ==
    LET walk[n \in 0..Cardinality(Object), o \in Object \cup {NULL}] ==
            IF o = NULL \/ n = 0 THEN << >> ELSE <<o>> \o walk[n - 1, l.node[o].next]
    IN  walk[Cardinality(Object), l.first]

Values(l) == LET w == Walk(l) IN [i \in DOMAIN w |-> l.node[w[i]].value]

(* list_clear frees the nodes in their order.                               *)
ClearList(mem, l) ==
    LET w == Walk(l)
        after[i \in 0..Len(w)] ==
            IF i = 0 THEN [mem |-> mem, op |-> l.pool]
            ELSE LET was == after[i - 1] IN ObjectFree(was.mem, was.op, w[i])
        all == after[Len(w)]
    IN  [mem |-> all.mem, list |-> [EmptyList EXCEPT !.pool = all.op]]
-----------------------------------------------------------------------------
(* common/src/common/array_list.c: blocks of the memory pool filled one     *)
(* after the other; the last place of a block holds its header.             *)

(* info[b]: the header; elem[b]: what the caller wrote where a push told it.*)
EmptyArray == [size |-> 0, first |-> NULL, last |-> NULL,
               info |-> [b \in Block |-> NULL],
               elem |-> [b \in Block |-> << >>]]

ArrayBlocks(a) == {b \in Block : a.info[b] # NULL}

Header(used, prev) == [used |-> used, next |-> NULL, prev |-> prev]

(* array_list_push: behind the last element, or in a new block behind the   *)
(* last one; fails, changing nothing, when there is none.                   *)
ArrayPush(mem, a, v) ==
    LET got == MemAlloc(mem)
        b   == got.block
    IN  CASE a.last # NULL /\ a.info[a.last].used < PerArrayBlock
               -> [mem |-> mem,
                   array |-> [a EXCEPT !.info[a.last].used = @ + 1, !.size = @ + 1,
                                       !.elem[a.last] = Append(@, v)]]
          [] a.last # NULL /\ a.info[a.last].used = PerArrayBlock /\ b # NULL
               -> [mem |-> got.mem,
                   array |-> [a EXCEPT !.info[a.last].next = b,
                                       !.info[b] = Header(1, a.last),
                                       !.last = b, !.size = @ + 1, !.elem[b] = <<v>>]]
          [] a.last = NULL /\ b # NULL
               -> [mem |-> got.mem,
                   array |-> [a EXCEPT !.first = b, !.last = b, !.size = @ + 1,
                                       !.info[b] = Header(1, NULL), !.elem[b] = <<v>>]]
          [] OTHER -> [mem |-> mem, array |-> a]

(* array_list_pop: a block that has become empty goes back at once.         *)
ArrayPop(mem, a) ==
    LET b    == a.last
        prev == a.info[b].prev
        gone == [a EXCEPT !.info[b] = NULL, !.elem[b] = << >>, !.last = prev, !.size = @ - 1]
    IN  CASE b = NULL -> [mem |-> mem, array |-> a]
          [] b # NULL /\ a.info[b].used > 1
               -> [mem |-> mem,
                   array |-> [a EXCEPT !.info[b].used = @ - 1, !.size = @ - 1,
                                       !.elem[b] = SubSeq(@, 1, Len(@) - 1)]]
          [] b # NULL /\ a.info[b].used = 1
               -> [mem |-> MemFree(mem, b),
                   array |-> IF prev = NULL THEN [gone EXCEPT !.first = NULL]
                             ELSE [gone EXCEPT !.info[prev].next = NULL]]

(* The blocks from b along next.                                            *)
ArrayWalk(a) ==
    LET walk[n \in 0..Cardinality(Block), b \in Block \cup {NULL}] ==
            IF b = NULL \/ n = 0 THEN << >> ELSE <<b>> \o walk[n - 1, a.info[b].next]
    IN  walk[Cardinality(Block), a.first]

ArrayClear(mem, a) == [mem |-> MemFreeAll(mem, ArrayWalk(a)), array |-> EmptyArray]

(* array_list_get: from the first block on, going past the blocks whose     *)
(* elements all come before the index.                                      *)
ArrayGet(a, index) ==
    LET get[b \in Block, i \in 0..a.size] ==
            IF a.info[b].used <= i THEN get[a.info[b].next, i - a.info[b].used]
            ELSE a.elem[b][i + 1]
    IN  get[a.first, index]

(* What an iterator visits: array_list_iterator_start, next and is_valid.   *)
ArrayIterate(a) ==
    LET next[n \in 0..Cardinality(Block), b \in Block \cup {NULL}] ==
            IF b = NULL \/ n = 0 THEN << >>
            ELSE SubSeq(a.elem[b], 1, a.info[b].used) \o next[n - 1, a.info[b].next]
    IN  next[Cardinality(Block), a.first]
-----------------------------------------------------------------------------
VARIABLES mem,   \* the memory pool
          list,  \* the list, with its object pool
          array  \* the array_list
vars == <<mem, list, array>>

Init == mem = EmptyMemoryPool /\ list = EmptyList /\ array = EmptyArray

ListBecomes(st)  == mem' = st.mem /\ list' = st.list /\ UNCHANGED array
ArrayBecomes(st) == mem' = st.mem /\ array' = st.array /\ UNCHANGED list

(* list_destroy is list_clear, after which the object pool has no block     *)
(* left for object_pool_destroy to give back.                               *)
ListNext ==
    \/ /\ list.size < MaxListSize
       /\ \E v \in Value : ListBecomes(PushBack(mem, list, v)) \/ ListBecomes(PushFront(mem, list, v))
    \/ ListBecomes(PopFront(mem, list))
    \/ ListBecomes(PopBack(mem, list))
    \/ \E o \in Nodes(list) : ListBecomes(RemoveNode(mem, list, o))
    \/ ListBecomes(ClearList(mem, list))

ArrayNext ==
    \/ \E v \in Value : ArrayBecomes(ArrayPush(mem, array, v))
    \/ ArrayBecomes(ArrayPop(mem, array))
    \/ ArrayBecomes(ArrayClear(mem, array))

(* object_pool_clear with objects handed out: the users of a pool (the      *)
(* explorer's nodes) give them back all at once.                            *)
DropObjects ==
    LET done == ObjectClear(mem, list.pool)
    IN  ListBecomes([mem |-> done.mem, list |-> EmptyList])

Next == ListNext \/ ArrayNext \/ DropObjects

Spec == Init /\ [][Next]_vars
-----------------------------------------------------------------------------
(* Every block has one owner: the heap, the pool's free list, the object    *)
(* pool of the list or the array_list.  No block leaks, is given back twice *)
(* or is used for two things (memory_pool_free, object_pool_free,           *)
(* object_pool_clear, array_list_pop).                                      *)
BlocksHaveOneOwner ==
    LET kept == {mem.free[i] : i \in DOMAIN mem.free} IN
    /\ Cardinality(kept) = Len(mem.free)
    /\ Block = mem.heap \cup kept \cup Owned(list.pool) \cup ArrayBlocks(array)
    /\ Cardinality(Block) = Cardinality(mem.heap) + Len(mem.free)
                              + Cardinality(Owned(list.pool)) + Cardinality(ArrayBlocks(array))

(* The nodes of the list are exactly the objects its pool has handed out;   *)
(* the links lead from the first to the last and back; a block is linked    *)
(* among those with room or the full ones as its free objects say, and the  *)
(* heads and tails are the ends of these lists (list.c, object_pool.c).     *)
BackLinked(prev(_), w) ==
    \A i \in DOMAIN w : prev(w[i]) = IF i = 1 THEN NULL ELSE w[i - 1]

EndOf(w) == IF w = << >> THEN NULL ELSE w[Len(w)]

ListsLinked ==
    \E w \in {Walk(list)}, room \in {BlocksFrom(list.pool, list.pool.firstFree)},
       full \in {BlocksFrom(list.pool, list.pool.firstFull)} :
        LET elems(s)   == {s[i] : i \in DOMAIN s}
            hasRoom(b) == list.pool.info[b].chain # << >>
        IN  /\ elems(w) = Nodes(list) /\ Nodes(list) = Live(list.pool)
            /\ list.size = Len(w) /\ list.size = Cardinality(Nodes(list))
            /\ list.last = EndOf(w) /\ BackLinked(LAMBDA o : list.node[o].prev, w)
            /\ elems(room) = {b \in Owned(list.pool) : hasRoom(b)}
            /\ elems(full) = {b \in Owned(list.pool) : ~hasRoom(b)}
            /\ Len(room) + Len(full) = Cardinality(Owned(list.pool))
            /\ BackLinked(LAMBDA b : list.pool.info[b].prev, room)
            /\ BackLinked(LAMBDA b : list.pool.info[b].prev, full)
            /\ list.pool.lastFull = EndOf(full)

(* What the lists promise: a sequence changed at both ends or by removing   *)
(* an element, and one changed at its end.  An operation that gets no       *)
(* memory changes nothing.                                                  *)
AllBut(s, i) == SubSeq(s, 1, i - 1) \o SubSeq(s, i + 1, Len(s))

DequeStep(s, t) ==
    \/ t = << >>
    \/ \E v \in Value : t = Append(s, v) \/ t = <<v>> \o s
    \/ \E i \in DOMAIN s : t = AllBut(s, i)

StackStep(s, t) ==
    \/ t = << >>
    \/ \E v \in Value : t = Append(s, v)
    \/ s # << >> /\ t = AllBut(s, Len(s))

Elements(a) == [i \in 1..a.size |-> ArrayGet(a, i - 1)]

(* The lists change as the sequences they stand for, each by itself though  *)
(* they share their memory (list.c, array_list.c) ...                       *)
SequencesStep ==
    \/ DequeStep(Values(list), Values(list)') /\ UNCHANGED Elements(array)
    \/ StackStep(Elements(array), Elements(array)') /\ UNCHANGED Values(list)
ImplementsSequences == [][SequencesStep]_<<Values(list), Elements(array)>>

(* ... and array_list_get(i) gives what the iterator comes to as its i-th.  *)
IteratorAgrees == ArrayIterate(array) = Elements(array)
=============================================================================
