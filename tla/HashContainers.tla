--------------------------- MODULE HashContainers ----------------------------
(* common/src/common/hash_set.c and hash_map.c: a list of the keys in the   *)
(* order of their insertion, and a hash table from a key to its node of the *)
(* list (and, in a map, its value).  All the containers of an owner take    *)
(* their memory from one pool, as those of a pipeline builder do, so that   *)
(* one container's growth is another's failure.  A node takes a block: the  *)
(* nodes that share one, and the links, are in PooledLists.                 *)
EXTENDS Integers, Sequences, FiniteSets, Functions

CONSTANTS KeySet,
          IndexCount, ElementCount,  \* blocks of a table's index, slots of a block
          Hash1,       \* [KeySet -> what hash1 makes of the key]
          HashWidth,   \* the numbers a uint32 has
          NULL,
          Sets, Maps, Data, NoData,
          Blocks       \* the blocks there are

(* common/src/common/hash_table.c: open addressing in slots spread over     *)
(* blocks of the memory pool, which are fetched when a probe first meets    *)
(* them.  A slot is engaged or not, and has a mark HASNEXT once a probe has *)
(* gone past it; the mark outlives the key.  Which block the pool gives     *)
(* makes no difference here (MemoryPool): mem is the number of blocks that  *)
(* can still be had.                                                        *)
Capacity == IndexCount * ElementCount
Slot     == 0..Capacity - 1
BlockOf(s) == s \div ElementCount

(* The probes of the source.  hash_key is a number of HashWidth values (32  *)
(* bits); each look adds the second hash of the number it has come to.      *)
Hash2(hashKey, size) == 1 + ((hashKey \div 32 + 1) % (size - 1))

HashProbe(hash1) ==
    LET hashKey[i \in Slot] ==
            IF i = 0 THEN hash1 % HashWidth
            ELSE LET h == hashKey[i - 1] IN (h + Hash2(h, Capacity)) % HashWidth
    IN  [i \in Slot |-> hashKey[i] % Capacity]

(* Probe[k][i]: the slot the i-th look for k meets.                         *)
Probe == [k \in KeySet |-> HashProbe(Hash1[k])]

EmptySlot == [engaged |-> FALSE, hasNext |-> FALSE, key |-> NULL, value |-> NULL]

(* index: the block of the index is there; block[b]: the b-th block of      *)
(* slots is there.                                                          *)
NoTable == [index |-> FALSE, size |-> 0,
            block |-> [b \in 0..IndexCount - 1 |-> FALSE],
            slot  |-> [s \in Slot |-> EmptySlot]]

TableBlocks(t) == Cardinality({b \in 0..IndexCount - 1 : t.block[b]})

Absent(t, s)   == ~t.block[BlockOf(s)]
Holds(t, s, k) == ~Absent(t, s) /\ t.slot[s].engaged /\ t.slot[s].key = k

(* The looks i at which the loop over the probes of k ends in an insertion, *)
(* and in hash_table_get, exist and remove.                                 *)
InsertStops(t, k, i) ==
    Absent(t, Probe[k][i]) \/ ~t.slot[Probe[k][i]].engaged \/ t.slot[Probe[k][i]].key = k
LookupStops(t, k, i) ==
    Absent(t, Probe[k][i]) \/ Holds(t, Probe[k][i], k) \/ ~t.slot[Probe[k][i]].hasNext

InsertStop(t, k) ==
    {i \in Slot : InsertStops(t, k, i) /\ \A j \in 0..i - 1 : ~InsertStops(t, k, j)}

(* The slot of key k, as hash_table_get and hash_table_exist find it: none  *)
(* or one.                                                                  *)
Found(t, k) ==
    {Probe[k][i] : i \in {i \in Slot : Holds(t, Probe[k][i], k)
                                     /\ \A j \in 0..i - 1 : ~LookupStops(t, k, j)}}

Exist(t, k) == Found(t, k) # {}
Find(t, k)  == CHOOSE s \in Found(t, k) : TRUE
Gets(t, k)  == {t.slot[s].value : s \in Found(t, k)}  \* {} stands for NULL

(* The slots gone past get their mark whether or not the insertion succeeds.*)
Marked(t, k, n) ==
    [t EXCEPT !.slot = [s \in Slot |->
        IF \E i \in 0..n - 1 : Probe[k][i] = s THEN [t.slot[s] EXCEPT !.hasNext = TRUE]
        ELSE t.slot[s]]]

Put(t, s, k, v) ==
    [t EXCEPT !.slot[s].engaged = TRUE, !.slot[s].key = k, !.slot[s].value = v,
              !.size = IF Holds(t, s, k) THEN @ ELSE @ + 1]

InsertAt(mem, t, s, k, v) ==
    CASE ~Absent(t, s) -> [mem |-> mem, table |-> Put(t, s, k, v), ok |-> TRUE]
      [] Absent(t, s) /\ mem > 0
           -> [mem |-> mem - 1, ok |-> TRUE,
               table |-> Put([t EXCEPT !.block[BlockOf(s)] = TRUE], s, k, v)]
      [] OTHER -> [mem |-> mem, table |-> t, ok |-> FALSE]

TableInsert(mem, t, k, v) ==
    LET stop == InsertStop(t, k)
        n    == CHOOSE i \in stop : TRUE
    IN  CASE t.size = Capacity -> [mem |-> mem, table |-> t, ok |-> FALSE]
          [] t.size < Capacity /\ stop = {}
               -> [mem |-> mem, table |-> Marked(t, k, Capacity), ok |-> FALSE]
          [] OTHER -> InsertAt(mem, Marked(t, k, n), Probe[k][n], k, v)

TableRemove(t, k) ==
    LET s == Find(t, k)
    IN  IF ~Exist(t, k) THEN t
        ELSE [t EXCEPT !.slot[s] = [EmptySlot EXCEPT !.hasNext = t.slot[s].hasNext],
                       !.size = @ - 1]

TableClear(mem, t) ==
    [mem |-> mem + TableBlocks(t), table |-> [NoTable EXCEPT !.index = t.index]]
-----------------------------------------------------------------------------
Container == Sets \cup Maps
Node      == 1..Cardinality(KeySet) + 1

VARIABLES mem,   \* the blocks the pool can still give
          keys,  \* keys[c]: sequence of <<node, key>>
          table  \* table[c]: the hash table
vars == <<mem, keys, table>>

Ready(c) == table[c].index

Init ==
    /\ mem = Blocks
    /\ keys = [c \in Container |-> << >>]
    /\ table = [c \in Container |-> NoTable]

(* The three parts as one record while an operation works on container c.   *)
State(c) == [mem |-> mem, list |-> keys[c], table |-> table[c], ok |-> TRUE]

Becomes(c, st) ==
    /\ mem' = st.mem
    /\ keys' = [keys EXCEPT ![c] = st.list]
    /\ table' = [table EXCEPT ![c] = st.table]

(* hash_set_initialize: the index takes a block, or nothing happens.        *)
Initialize(c) ==
    /\ ~Ready(c) /\ mem > 0
    /\ Becomes(c, [State(c) EXCEPT !.mem = mem - 1, !.table.index = TRUE])

ClearState(st) ==
    LET t == TableClear(st.mem, st.table)
    IN  [mem |-> t.mem + Len(st.list), list |-> << >>, table |-> t.table, ok |-> st.ok]

Clear(c) == Ready(c) /\ Becomes(c, ClearState(State(c)))

Destroy(c) ==
    /\ Ready(c)
    /\ Becomes(c, [ClearState(State(c)) EXCEPT !.mem = @ + 1, !.table.index = FALSE])

(* hash_set_insert, and the part of hash_map_insert that enters a new key:  *)
(* the key is pushed, and popped again when the table refuses it.           *)
NewNode(list) == CHOOSE n \in Node : \A i \in DOMAIN list : list[i][1] # n

Entered(st, in, entry) ==
    IF in.ok THEN [mem |-> in.mem, list |-> Append(st.list, entry), table |-> in.table,
                   ok |-> TRUE]
    ELSE [mem |-> in.mem + 1, list |-> st.list, table |-> in.table, ok |-> FALSE]

Enter(st, k, v) ==
    LET node == NewNode(st.list)
    IN  IF st.mem = 0 THEN [st EXCEPT !.ok = FALSE]
        ELSE Entered(st, TableInsert(st.mem - 1, st.table, k, [node |-> node, datum |-> v]),
                     <<node, k>>)

InsertState(st, k) == IF Exist(st.table, k) THEN st ELSE Enter(st, k, NoData)

SetInsert(c, k) == Ready(c) /\ Becomes(c, InsertState(State(c), k))

(* A map builds the element in a block it borrows from the pool.            *)
MapInsertNew(c, k, v) ==
    /\ Ready(c) /\ ~Exist(table[c], k) /\ mem > 0
    /\ Becomes(c, [Enter([State(c) EXCEPT !.mem = mem - 1], k, v) EXCEPT !.mem = @ + 1])

(* The node the table names is removed from the list, then the key from the *)
(* table.                                                                   *)
RemoveState(st, k) ==
    LET node == st.table.slot[Find(st.table, k)].value.node
    IN  IF ~Exist(st.table, k) THEN st
        ELSE [st EXCEPT !.mem = @ + 1,
                        !.list = SelectSeq(@, LAMBDA e : e[1] # node),
                        !.table = TableRemove(@, k)]

Remove(c, k) == Ready(c) /\ Becomes(c, RemoveState(State(c), k))

(* The loops of the whole-set operations over the keys of another set; the  *)
(* first insertion that fails clears the result and ends the operation.     *)
InsertAll(st, ks) ==
    LET after[i \in 0..Len(ks)] ==
            IF i = 0 THEN st
            ELSE LET was == after[i - 1]
                     in  == InsertState(was, ks[i])
                 IN  CASE ~was.ok -> was
                       [] was.ok /\ in.ok -> in
                       [] OTHER -> ClearState(in)
    IN  after[Len(ks)]

RemoveAll(st, ks) ==
    LET after[i \in 0..Len(ks)] == IF i = 0 THEN st ELSE RemoveState(after[i - 1], ks[i])
    IN  after[Len(ks)]

KeyOrder(list) == [i \in DOMAIN list |-> list[i][2]]

SetCopy(d, s) ==
    /\ Ready(d) /\ Ready(s) /\ d # s
    /\ Becomes(d, InsertAll(ClearState(State(d)), KeyOrder(keys[s])))

SetSub(r, a, b) ==
    /\ Ready(r) /\ Ready(a) /\ Ready(b) /\ r \notin {a, b}
    /\ LET all == InsertAll(State(r), KeyOrder(keys[a]))
       IN  Becomes(r, IF all.ok THEN RemoveAll(all, KeyOrder(keys[b])) ELSE all)

SetAdd(r, a, b) ==
    /\ Ready(r) /\ Ready(a) /\ Ready(b) /\ r \notin {a, b}
    /\ Becomes(r, InsertAll(InsertAll(State(r), KeyOrder(keys[a])), KeyOrder(keys[b])))

SetIntersect(r, a, b) ==
    /\ Ready(r) /\ Ready(a) /\ Ready(b) /\ r \notin {a, b}
    /\ Becomes(r, InsertAll(State(r), SelectSeq(KeyOrder(keys[a]),
                                                LAMBDA k : Exist(table[b], k))))

(* hash_set_equal: the sizes, then each key of one in the other.            *)
SetEqual(a, b) ==
    /\ Len(keys[a]) = Len(keys[b])
    /\ \A i \in DOMAIN KeyOrder(keys[a]) : Exist(table[b], KeyOrder(keys[a])[i])
    /\ \A i \in DOMAIN KeyOrder(keys[b]) : Exist(table[a], KeyOrder(keys[b])[i])

Next ==
    \/ \E c \in Container : Initialize(c) \/ Clear(c) \/ Destroy(c)
    \/ \E c \in Container, k \in KeySet : Remove(c, k)
    \/ \E c \in Sets, k \in KeySet : SetInsert(c, k)
    \/ \E c \in Maps, k \in KeySet, v \in Data : MapInsertNew(c, k, v)
    \/ \E d, s \in Sets : SetCopy(d, s)
    \/ \E r, a, b \in Sets : SetSub(r, a, b) \/ SetAdd(r, a, b) \/ SetIntersect(r, a, b)

Spec == Init /\ [][Next]_vars
-----------------------------------------------------------------------------
(* Every block is with the pool or serves one container, whichever          *)
(* allocation failed on the way: nothing leaks and nothing is given back    *)
(* twice (hash_table_insert, hash_table_clear, the undoing of the push).    *)
BlocksConserved ==
    \E used \in {[c \in Container |-> Len(keys[c]) + TableBlocks(table[c])
                                       + IF Ready(c) THEN 1 ELSE 0]} :
        mem + SumFunction(used) = Blocks

(* List and table agree: a lookup finds a key exactly when the list has it, *)
(* and finds its node; the sizes agree; hash_set_equal says whether the     *)
(* sets are equal.  A lookup ends at a slot without HASNEXT or at a block   *)
(* that was never fetched, so this is about every insertion, failure and    *)
(* removal that came before.                                                *)
TableAgreesWithList ==
    /\ \A c \in Container, k \in KeySet :
          {v.node : v \in Gets(table[c], k)} =
             {keys[c][i][1] : i \in {i \in DOMAIN keys[c] : keys[c][i][2] = k}}
    /\ \A c \in Container : table[c].size = Len(keys[c])
    /\ \A a, b \in Sets : SetEqual(a, b) <=>
          {k \in KeySet : Exist(table[a], k)} = {k \in KeySet : Exist(table[b], k)}

(* What a user of the containers sees: the keys an iterator visits with the *)
(* values a lookup gives.                                                   *)
Content(c) ==
    LET ks == KeyOrder(keys[c])
    IN  [i \in DOMAIN ks |-> <<ks[i], {v.datum : v \in Gets(table[c], ks[i])}>>]

Contents == [c \in Container |-> Content(c)]

(* What a hash_set or a hash_map promises: distinct keys in the order they  *)
(* were inserted, each with its value.  An insertion may fail; then the     *)
(* container is what it was.  A whole-set operation that fails leaves its   *)
(* result empty.                                                            *)
KeysOf(s)      == {s[i][1] : i \in DOMAIN s}
Only(s, K)     == SelectSeq(s, LAMBDA e : e[1] \in K)
Outside(s, K)  == SelectSeq(s, LAMBDA e : e[1] \notin K)
Merge(s, t)    == s \o Outside(t, KeysOf(s))

(* What one operation can make of container c, when the others hold s.      *)
Inserted(old, new) ==
    \E v \in {{d} : d \in Data \cup {NoData}}, k \in KeysOf(new) \ KeysOf(old) : new = Append(old, <<k, v>>)
Removed(old, new)  == \E k \in KeysOf(old) : new = Outside(old, {k})
Combined(s, old, new) ==
    \E a, b \in DOMAIN s :
       \/ new = s[a]
       \/ new = Outside(Merge(old, s[a]), KeysOf(s[b]))
       \/ new = Merge(old, Only(s[a], KeysOf(s[b])))
       \/ new = Merge(Merge(old, s[a]), s[b])

StoreSteps(s, t) ==
    \E c \in Container :
       /\ \A d \in Container \ {c} : t[d] = s[d]
       /\ t[c] = << >> \/ Inserted(s[c], t[c]) \/ Removed(s[c], t[c])
            \/ Combined([d \in Container \ {c} |-> s[d]], s[c], t[c])

(* The lists and tables change as the ordered sets and maps they stand for, *)
(* on a memory that may be used up at any call.                             *)
StoreStep == \E s \in {Contents}, t \in {Contents'} : s = t \/ StoreSteps(s, t)
ImplementsStore == [][StoreStep]_vars
=============================================================================
