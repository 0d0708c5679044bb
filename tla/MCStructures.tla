---------------------------- MODULE MCStructures ----------------------------
(***************************************************************************)
(* The data structures on small instances: the pooled lists, the hash sets *)
(* and maps, the tree, and the buffer of a reader.  They are checked side  *)
(* by side: part says which one a behaviour is of, and the others stay in  *)
(* their initial state.                                                    *)
(***************************************************************************)
EXTENDS Naturals

CONSTANTS
  k1, k2, k3,                                              \* keys
  NULL,
  Block, MaxBlockNum, PerBlock, PerArrayBlock, Value, MaxListSize,    \* the lists
  KeySet, IndexCount, ElementCount, Hash1, HashWidth,           \* hashes
  Sets, Maps, Data, NoData, Blocks,
  Element, Rank,                                           \* the tree
  Size, Length, MaxCall, Room                              \* the buffer

VARIABLES
  part,
  mem, list, array,                                        \* pooled lists
  blocks, keys, table,                                     \* hash sets and maps
  node, live, root, size, fix,                             \* a tree
  m_lpBuffer, m_uCurrentDataOffset, m_uCurrentDataSize, loaded, got,
  writes, skipped, short, broken                          \* a buffer

(* Three blocks of memory, of which the pool keeps one; two objects fit in  *)
(* a block, and an array_list may fill it.                                  *)
Lists == INSTANCE PooledLists

(* Three keys, of which two share their first slot and reach only every     *)
(* second slot, as keys with small hashes do in a table of four slots.      *)
Hashes == INSTANCE HashContainers WITH mem <- blocks
MCHash == [k \in {k1, k2, k3} |-> CASE k = k1 -> 0 [] k = k2 -> 4 [] OTHER -> 2]

(* Nine elements: both erase cases and every rebalancing turn happen.       *)
MCRank == [e \in 1..9 |-> CASE e <= 2 -> 1 [] e \in 3..4 -> 2 [] OTHER -> e]
Tree == INSTANCE RedBlackTree

(* A buffer of three bytes over a file of eight, or before a sink that takes *)
(* all it is given in a call, two bytes or none.                            *)
Buffer == INSTANCE IOBuffer

lists    == <<mem, list, array>>
hashes   == <<blocks, keys, table>>
tree     == <<node, live, root, size, fix>>
buffer   == <<m_lpBuffer, m_uCurrentDataOffset, m_uCurrentDataSize, loaded, got,
              writes, skipped, short, broken>>
vars     == <<part, lists, hashes, tree, buffer>>

Init ==
  /\ part \in {"lists", "hashes", "tree", "buffer"}
  /\ Lists!Init /\ Hashes!Init /\ Tree!Init
  /\ IF part = "buffer" THEN Buffer!Init ELSE Buffer!IOBufferOf(0) /\ Buffer!SetLoadProc

Next ==
  /\ UNCHANGED part
  /\ \/ part = "lists" /\ Lists!Next /\ UNCHANGED <<hashes, tree, buffer>>
     \/ part = "hashes" /\ Hashes!Next /\ UNCHANGED <<lists, tree, buffer>>
     \/ part = "tree" /\ Tree!Next /\ UNCHANGED <<lists, hashes, buffer>>
     \/ part = "buffer" /\ Buffer!Next /\ UNCHANGED <<lists, hashes, tree>>

Spec == Init /\ [][Next]_vars

-----------------------------------------------------------------------------
(* PooledLists: every block has one owner, the links of the lists agree     *)
(* with what their pools have handed out, and an iterator visits what get   *)
(* gives.                                                                   *)
ListsSound == part = "lists" =>
  Lists!BlocksHaveOneOwner /\ Lists!ListsLinked /\ Lists!IteratorAgrees

(* HashContainers: a lookup finds what the list of the keys has, whatever   *)
(* was inserted, removed and refused before, and no block is lost.          *)
(* RedBlackTree: its links, its balance between operations, and what its    *)
(* searches and iterators find.                                             *)
LookupsSound ==
  /\ part = "hashes" => Hashes!BlocksConserved /\ Hashes!TableAgreesWithList
  /\ part = "tree" => Tree!TreeLinked /\ Tree!TreeBalanced /\ Tree!SearchesAgree

(* Seen from outside the structures are the sequences, the maps and the     *)
(* ordered bag they stand for, whatever memory they get, and the buffer is  *)
(* a stream, which breaks only before a sink that takes less than it is     *)
(* offered: however the calls follow each other.  And the rebalancing loops *)
(* of the tree come nearer to its root with every turn: they end.           *)
StructuresImplement ==
  [][CASE part = "lists"  -> [Lists!SequencesStep]_<<Lists!Values(list), Lists!Elements(array)>>
       [] part = "hashes" -> Hashes!StoreStep
       [] part = "tree"   -> Tree!BagStep /\ Tree!ClimbStep
       [] part = "buffer" -> [Buffer!StreamStep]_<<Buffer!Position, got>>]_vars
=============================================================================
