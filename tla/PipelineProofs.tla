---------------------------- MODULE PipelineProofs ----------------------------
(***************************************************************************)
(* What the builder relies on, for any catalogue, registry and source:     *)
(* connecting the solution's procedures with maps ends where the search    *)
(* with sets did, the search never replaces a node, it finds a way to link *)
(* the pins, as short as the shortest one, if there is one, and the        *)
(* pipeline that is built and listed is complete.                          *)
(*                                                                         *)
(* And what the procedures of a pipeline do with a stream, for any number  *)
(* of its fragments, frames, segments and destinations.                    *)
(***************************************************************************)
EXTENDS MCPipeline, FiniteSetTheorems, WellFoundedInduction, TLAPS

Keys    == [unlinked_input : SUBSET Pin, unlinked_output : SUBSET Pin]
Nodes   == [new_procedure : Nat, previous_node : Keys, cost : Nat]
Entries == [key : Keys, cost : Nat]
Steps   == [key : Keys, pins : SUBSET Pin, procedures : SUBSET DOMAIN registry,
            connected : Seq(Entries)]

TypeInv ==
  /\ registry \in Seq(Catalogue)
  /\ DOMAIN explored_nodes \subseteq Keys
  /\ explored_nodes \in [DOMAIN explored_nodes -> Nodes]
  /\ opening_nodes \in Seq(Entries)
  /\ step \in Steps
  /\ todo \in Seq(DOMAIN registry)
  /\ trace \in Keys
  /\ Len(created) \in Nat
  /\ unlinked_input \in [Pin -> Nat]
  /\ unlinked_output \in [Pin -> Nat]

(* The key of the node to which the maps of build_pipeline correspond.     *)
MapsKey == Key({p \in Pin : unlinked_input[p] # None},
               {p \in Pin : unlinked_output[p] # None})

Searching == stage \in {"explore", "connect", "open", "trace"}

(* Every node is the node before it and one registered procedure, or the   *)
(* first one.                                                              *)
NodeInv ==
  \A k \in DOMAIN explored_nodes :
    /\ explored_nodes[k].previous_node \in DOMAIN explored_nodes
    /\ \/ /\ explored_nodes[k].new_procedure = None
          /\ Searching => k = MapsKey
       \/ /\ explored_nodes[k].new_procedure \in DOMAIN registry
          /\ k = NewNode(explored_nodes[k].previous_node,
                         registry[explored_nodes[k].new_procedure])

(* Only explored nodes are opened or being looked at.                      *)
OpenInv ==
  /\ \A j \in 1..Len(opening_nodes) : opening_nodes[j].key \in DOMAIN explored_nodes
  /\ \A j \in 1..Len(step.connected) : step.connected[j].key \in DOMAIN explored_nodes
  /\ stage \in {"connect", "open"} => step.key \in DOMAIN explored_nodes

(* Adding the procedures of s to node k, one by one, leads to the target.  *)
LeadsTo(k, s) ==
  \E path \in [0..Len(s) -> Keys] :
    /\ path[0] = k
    /\ path[Len(s)] = Target
    /\ \A j \in 1..Len(s) : path[j] = NewNode(path[j - 1], registry[s[j]])

TraceInv ==
  /\ stage \in {"explore", "connect", "open"} => todo = <<>> /\ trace = Target
  /\ stage = "trace" => trace \in DOMAIN explored_nodes /\ LeadsTo(trace, todo)
  /\ stage = "build" => LeadsTo(MapsKey, todo)
  /\ stage \in {"serialize", "built"} => MapsKey = Target

LinkInv == TypeInv /\ NodeInv /\ OpenInv /\ TraceInv

-----------------------------------------------------------------------------
(* A new node is a pair of sets of pins again.                             *)
LEMMA NewNodeType ==
  ASSUME NEW k \in Keys, NEW d \in Catalogue
  PROVE  NewNode(k, d) \in Keys
BY BuilderAssumption DEF Keys, NewNode, Key

(* Nothing left to add: this is the target.                                *)
LEMMA EmptyLeadsToTarget ==
  ASSUME NEW k \in Keys
  PROVE  LeadsTo(k, <<>>) <=> k = Target
<1>1. ASSUME k = Target PROVE LeadsTo(k, <<>>)
  <2> DEFINE path == [j \in 0..0 |-> k]
  <2>1. path \in [0..Len(<<>>) -> Keys]  OBVIOUS
  <2>2. path[0] = k /\ path[Len(<<>>)] = Target  BY <1>1
  <2>3. 1..Len(<<>>) = {}  OBVIOUS
  <2> HIDE DEF path
  <2> QED  BY <2>1, <2>2, <2>3 DEF LeadsTo
<1>2. ASSUME LeadsTo(k, <<>>) PROVE k = Target
  BY <1>2 DEF LeadsTo
<1> QED  BY <1>1, <1>2

(* TraceBack: a way from a node is a longer way from its predecessor ...   *)
LEMMA OneMoreBefore ==
  ASSUME NEW k \in Keys, NEW i \in DOMAIN registry, NEW s \in Seq(DOMAIN registry),
         LeadsTo(NewNode(k, registry[i]), s)
  PROVE  LeadsTo(k, <<i>> \o s)
<1>1. PICK path \in [0..Len(s) -> Keys] :
        /\ path[0] = NewNode(k, registry[i])
        /\ path[Len(s)] = Target
        /\ \A j \in 1..Len(s) : path[j] = NewNode(path[j - 1], registry[s[j]])
  BY DEF LeadsTo
<1> DEFINE t    == <<i>> \o s
           long == [j \in 0..Len(t) |-> IF j = 0 THEN k ELSE path[j - 1]]
<1>2. Len(s) \in Nat /\ Len(t) = Len(s) + 1  OBVIOUS
<1>3. t[1] = i /\ \A j \in 2..Len(t) : t[j] = s[j - 1]  OBVIOUS
<1>4. long \in [0..Len(t) -> Keys]  BY <1>2
<1>5. long[0] = k /\ long[Len(t)] = Target  BY <1>1, <1>2
<1>6. \A j \in 1..Len(t) : long[j] = NewNode(long[j - 1], registry[t[j]])
  <2> SUFFICES ASSUME NEW j \in 1..Len(t)
               PROVE  long[j] = NewNode(long[j - 1], registry[t[j]])
    OBVIOUS
  <2> HIDE DEF t
  <2>1. CASE j = 1
    BY <1>1, <1>2, <1>3, <2>1
  <2>2. CASE j # 1
    <3>1. j - 1 \in 1..Len(s) /\ long[j] = path[j - 1] /\ long[j - 1] = path[(j - 1) - 1]
      BY <1>2, <2>2
    <3>2. path[j - 1] = NewNode(path[(j - 1) - 1], registry[s[j - 1]])
      BY <1>1, <3>1
    <3>3. t[j] = s[j - 1]  BY <1>2, <1>3, <2>2
    <3> HIDE DEF long
    <3> QED  BY <3>1, <3>2, <3>3
  <2> QED  BY <2>1, <2>2
<1> QED
  <2> HIDE DEF long
  <2> QED  BY <1>4, <1>5, <1>6 DEF LeadsTo

(* ... and CreateProcedure goes one step along it.                         *)
LEMMA OneStepOn ==
  ASSUME NEW k \in Keys, NEW s \in Seq(DOMAIN registry), s # <<>>, LeadsTo(k, s)
  PROVE  LeadsTo(NewNode(k, registry[Head(s)]), Tail(s))
<1>1. PICK path \in [0..Len(s) -> Keys] :
        /\ path[0] = k
        /\ path[Len(s)] = Target
        /\ \A j \in 1..Len(s) : path[j] = NewNode(path[j - 1], registry[s[j]])
  BY DEF LeadsTo
<1> DEFINE t     == Tail(s)
           short == [j \in 0..Len(t) |-> path[j + 1]]
<1>2. Len(s) \in Nat \ {0} /\ Len(t) = Len(s) - 1  OBVIOUS
<1>3. s[1] = Head(s) /\ \A j \in 1..Len(t) : t[j] = s[j + 1]  OBVIOUS
<1> HIDE DEF t
<1>4. short \in [0..Len(t) -> Keys]  BY <1>2
<1>5. short[Len(t)] = Target  BY <1>1, <1>2
<1>6. short[0] = NewNode(k, registry[Head(s)])
  <2>1. short[0] = path[1]  BY <1>2
  <2>2. path[1] = NewNode(path[1 - 1], registry[s[1]])  BY <1>1, <1>2
  <2> QED  BY <1>1, <1>3, <2>1, <2>2
<1>7. \A j \in 1..Len(t) : short[j] = NewNode(short[j - 1], registry[t[j]])
  <2> SUFFICES ASSUME NEW j \in 1..Len(t)
               PROVE  short[j] = NewNode(short[j - 1], registry[t[j]])
    OBVIOUS
  <2>1. /\ j + 1 \in 1..Len(s)
        /\ short[j] = path[j + 1]
        /\ short[j - 1] = path[(j + 1) - 1]
    BY <1>2
  <2> QED  BY <1>1, <1>3, <2>1
<1> QED
  <2> HIDE DEF short
  <2>1. LeadsTo(NewNode(k, registry[Head(s)]), t)
    BY <1>4, <1>5, <1>6, <1>7 DEF LeadsTo
  <2> QED  BY <2>1 DEF t

(* t is s with e at place n.                                               *)
Inserted(s, n, e, t) ==
  /\ Len(t) = Len(s) + 1
  /\ \A j \in 1..Len(s) + 1 : t[j] = IF j < n THEN s[j] ELSE IF j = n THEN e ELSE s[j - 1]

(* Where the elements are after an insertion.                              *)
LEMMA InsertType ==
  ASSUME NEW S, NEW s \in Seq(S), NEW e \in S, NEW n \in 1..Len(s) + 1
  PROVE  /\ InsertAt(s, n, e) \in Seq(S)
         /\ Inserted(s, n, e, InsertAt(s, n, e))
<1> DEFINE front == SubSeq(s, 1, n - 1)
           back  == SubSeq(s, n, Len(s))
<1>1. /\ front \in Seq(S) /\ Len(front) = n - 1
      /\ \A j \in 1..n - 1 : front[j] = s[j]
  OBVIOUS
<1>2. /\ back \in Seq(S) /\ Len(back) = Len(s) - n + 1
      /\ \A j \in 1..Len(s) - n + 1 : back[j] = s[n + j - 1]
  OBVIOUS
<1>3. InsertAt(s, n, e) = (front \o <<e>>) \o back
  BY DEF InsertAt
<1> HIDE DEF front, back
<1> DEFINE head == front \o <<e>>
<1>4. /\ head \in Seq(S) /\ Len(head) = n
      /\ \A j \in 1..n : head[j] = IF j < n THEN front[j] ELSE e
  BY <1>1
<1> HIDE DEF head
<1>5. /\ head \o back \in Seq(S) /\ Len(head \o back) = Len(s) + 1
      /\ \A j \in 1..Len(s) + 1 :
           (head \o back)[j] = IF j <= n THEN head[j] ELSE back[j - n]
  <2>1. head \o back \in Seq(S) /\ Len(head \o back) = Len(head) + Len(back)
    BY <1>2, <1>4
  <2>2. \A j \in 1..Len(head) + Len(back) :
          (head \o back)[j] = IF j <= Len(head) THEN head[j] ELSE back[j - Len(head)]
    BY <1>2, <1>4
  <2>3. Len(head) + Len(back) = Len(s) + 1
    BY <1>2, <1>4
  <2> QED  BY <1>4, <2>1, <2>2, <2>3
<1>6. InsertAt(s, n, e) = head \o back  BY <1>3 DEF head
<1>7. ASSUME NEW j \in 1..Len(s) + 1
      PROVE  (head \o back)[j] = IF j < n THEN s[j] ELSE IF j = n THEN e ELSE s[j - 1]
  <2>1. CASE j < n
    BY <1>1, <1>4, <1>5, <2>1
  <2>2. CASE j = n
    BY <1>4, <1>5, <2>2
  <2>3. CASE n < j
    <3>1. j - n \in 1..Len(s) - n + 1  BY <2>3
    <3>2. back[j - n] = s[n + (j - n) - 1]  BY <1>2, <3>1
    <3>3. n + (j - n) - 1 = j - 1  OBVIOUS
    <3> QED  BY <1>5, <2>3, <3>2, <3>3
  <2>4. j < n \/ j = n \/ n < j  OBVIOUS
  <2> QED  BY <2>1, <2>2, <2>3, <2>4
<1>8. Inserted(s, n, e, head \o back)
  BY <1>5, <1>7 DEF Inserted
<1> QED  BY <1>5, <1>6, <1>8

(* As many numbers as they count.                                          *)
LEMMA NumbersTo ==
  ASSUME NEW n \in Nat
  PROVE  IsFiniteSet(1..n) /\ Cardinality(1..n) = n
BY FS_Interval

(* The place of a new entry is within the tree or at its end.              *)
LEMMA PositionType ==
  ASSUME opening_nodes \in Seq(Entries), NEW entry
  PROVE  Position(entry) \in 1..Len(opening_nodes) + 1
<1> DEFINE before == {j \in DOMAIN opening_nodes :
                        Estimate(opening_nodes[j]) <= Estimate(entry)}
<1>1. /\ before \subseteq 1..Len(opening_nodes)
      /\ Len(opening_nodes) \in Nat
  OBVIOUS
<1>2. /\ IsFiniteSet(1..Len(opening_nodes))
      /\ Cardinality(1..Len(opening_nodes)) = Len(opening_nodes)
  BY <1>1, NumbersTo
<1>3. IsFiniteSet(before) /\ Cardinality(before) <= Len(opening_nodes)
  BY <1>1, <1>2, FS_Subset
<1>4. Cardinality(before) \in Nat
  BY <1>3, FS_CardinalityType
<1>5. Position(entry) = 1 + Cardinality(before)
  BY DEF Position
<1> HIDE DEF before
<1> QED  BY <1>1, <1>3, <1>4, <1>5

(* Creating a procedure does to the maps what exploring it did to the sets. *)
LEMMA CreateIsNewNode ==
  ASSUME TypeInv, CreateProcedure
  PROVE  /\ MapsKey' = NewNode(MapsKey, registry[Head(todo)])
         /\ unlinked_input' \in [Pin -> Nat]
         /\ unlinked_output' \in [Pin -> Nat]
         /\ Len(created') \in Nat
<1> DEFINE d    == registry[Head(todo)]
           i    == Len(created) + 1
           to   == {p \in d.input : unlinked_output[p] # None}
           in   == [p \in Pin |-> IF p \in d.input \ to THEN i ELSE unlinked_input[p]]
           from == {p \in d.output : in[p] # None}
<1>1. /\ unlinked_input' = [p \in Pin |-> IF p \in from THEN None ELSE in[p]]
      /\ unlinked_output' = [p \in Pin |-> IF p \in to THEN None
                                           ELSE IF p \in d.output \ from THEN i
                                           ELSE unlinked_output[p]]
      /\ todo # <<>>
      /\ created' = Append(created, d)
  BY DEF CreateProcedure
<1>2. d \in Catalogue
  BY <1>1 DEF TypeInv
<1>3. d.input \subseteq Pin /\ d.output \subseteq Pin /\ d.input \cap d.output = {}
  BY <1>2, BuilderAssumption
<1>4. i \in Nat \ {0}  BY DEF TypeInv
<1>5. /\ unlinked_input \in [Pin -> Nat]
      /\ unlinked_output \in [Pin -> Nat]
  BY DEF TypeInv
<1> HIDE DEF d, i
<1>6. unlinked_input' \in [Pin -> Nat] /\ unlinked_output' \in [Pin -> Nat]
  BY <1>1, <1>4, <1>5 DEF None
<1>7. ASSUME NEW p \in Pin
      PROVE  /\ unlinked_input'[p] # None <=>
                  \/ unlinked_input[p] # None /\ p \notin d.output
                  \/ p \in d.input /\ unlinked_output[p] = None
             /\ unlinked_output'[p] # None <=>
                  \/ unlinked_output[p] # None /\ p \notin d.input
                  \/ p \in d.output /\ unlinked_input[p] = None
  BY <1>1, <1>3, <1>4, <1>5 DEF None
<1>8. MapsKey' = NewNode(MapsKey, d)
  <2>1. {p \in Pin : unlinked_input'[p] # None}
          = ({p \in Pin : unlinked_input[p] # None} \ d.output)
              \cup (d.input \ {p \in Pin : unlinked_output[p] # None})
    BY <1>3, <1>7
  <2>2. {p \in Pin : unlinked_output'[p] # None}
          = ({p \in Pin : unlinked_output[p] # None} \ d.input)
              \cup (d.output \ {p \in Pin : unlinked_input[p] # None})
    BY <1>3, <1>7
  <2> QED  BY <2>1, <2>2 DEF MapsKey, NewNode, Key
<1>9. Len(created') \in Nat
  BY <1>1 DEF TypeInv
<1> QED  BY <1>6, <1>8, <1>9 DEF d

(* The source alone is the first node, and what the maps begin with.       *)
LEMMA LinkInit == Init => LinkInv
<1> SUFFICES ASSUME Init PROVE LinkInv  OBVIOUS
<1> PICK out \in SourceOutputs :
      /\ created = <<[input |-> {}, output |-> out]>>
      /\ explored_nodes = [k \in {Key({}, out)} |->
                             [new_procedure |-> None, previous_node |-> k, cost |-> 0]]
      /\ opening_nodes = <<[key |-> Key({}, out), cost |-> 0]>>
      /\ unlinked_output = [p \in Pin |-> IF p \in out THEN 1 ELSE None]
  BY DEF Init, FirstNode, FirstEntry, SourceOnly
<1>1. out \subseteq Pin  BY BuilderAssumption
<1>2. Key({}, out) \in Keys /\ Target \in Keys  BY <1>1 DEF Keys, Key, Target
<1>3. MapsKey = Key({}, out)
  <2>1. {p \in Pin : unlinked_input[p] # None} = {}
    BY DEF Init, FirstNode, FirstEntry, SourceOnly, None
  <2>2. {p \in Pin : unlinked_output[p] # None} = out
    BY <1>1 DEF None
  <2> QED  BY <2>1, <2>2 DEF MapsKey
<1>4. TypeInv
  <2>1. registry \in Seq(Catalogue)
    BY BuilderAssumption DEF Init, FirstNode, FirstEntry, SourceOnly
  <2>2. /\ DOMAIN explored_nodes \subseteq Keys
        /\ explored_nodes \in [DOMAIN explored_nodes -> Nodes]
    BY <1>2 DEF Nodes, None
  <2>3. opening_nodes \in Seq(Entries)
    <3>1. [key |-> Key({}, out), cost |-> 0] \in Entries
      BY <1>2 DEF Entries
    <3> QED  BY <3>1
  <2>4. step \in Steps
    BY <1>2 DEF Init, FirstNode, FirstEntry, SourceOnly, Steps
  <2>5. unlinked_input \in [Pin -> Nat] /\ unlinked_output \in [Pin -> Nat]
    BY DEF Init, FirstNode, FirstEntry, SourceOnly, None
  <2> QED  BY <1>2, <2>1, <2>2, <2>3, <2>4, <2>5 DEF TypeInv, Init, FirstNode, FirstEntry, SourceOnly
<1>5. NodeInv
  BY <1>3 DEF NodeInv, None
<1>6. OpenInv
  BY DEF OpenInv, Init, FirstNode, FirstEntry, SourceOnly
<1>7. TraceInv
  BY DEF TraceInv, Init, FirstNode, FirstEntry, SourceOnly
<1> QED  BY <1>4, <1>5, <1>6, <1>7 DEF LinkInv

(* What no step of the search, or none of the building, disturbs.          *)
LEMMA NodesKept ==
  ASSUME NodeInv, registry' = registry, explored_nodes' = explored_nodes,
         Searching' => Searching /\ MapsKey' = MapsKey
  PROVE  NodeInv'
BY DEF NodeInv, NewNode

LEMMA MapsKept ==
  ASSUME UNCHANGED maps
  PROVE  MapsKey' = MapsKey
BY DEF MapsKey, maps, Key

(* Every step keeps the nodes and the maps in line.                        *)
LEMMA LinkNext == LinkInv /\ [Next]_vars => LinkInv'
<1> SUFFICES ASSUME LinkInv, [Next]_vars PROVE LinkInv'  OBVIOUS
<1> USE DEF LinkInv
<1>1. CASE ExplorerStep
  <2> USE DEF ExplorerStep, built
  <2> DEFINE k == opening_nodes[1].key
  <2>1. /\ Len(opening_nodes) \in Nat \ {0}
        /\ Head(opening_nodes) = opening_nodes[1]
        /\ opening_nodes[1] \in Entries
    BY <1>1 DEF TypeInv
  <2>2. k \in Keys /\ k \in DOMAIN explored_nodes
    BY <2>1 DEF Entries, OpenInv
  <2>3. PinsToLink(k) \subseteq Pin
    BY <2>2 DEF PinsToLink, Keys
  <2>4. step' \in Steps'
    BY <1>1, <2>1, <2>2, <2>3 DEF Steps
  <2>5. opening_nodes' \in Seq(Entries) /\ Len(opening_nodes') = Len(opening_nodes) - 1
    BY <1>1, <2>1 DEF TypeInv
  <2>6. TypeInv'
    BY <1>1, <2>4, <2>5 DEF TypeInv, maps
  <2>7. NodeInv'
    BY <1>1, NodesKept, MapsKept DEF Searching
  <2>8. OpenInv'
    <3>1. \A j \in 1..Len(opening_nodes') : opening_nodes'[j] = opening_nodes[j + 1]
      BY <1>1, <2>1, <2>5 DEF TypeInv
    <3> QED  BY <1>1, <2>1, <2>2, <2>5, <3>1 DEF OpenInv
  <2>9. TraceInv'
    BY <1>1 DEF TraceInv
  <2> QED  BY <2>6, <2>7, <2>8, <2>9
<1>2. ASSUME NEW i \in DOMAIN registry, TryProcedure(i) PROVE LinkInv'
  <2> DEFINE k    == step.key
             new  == NewNode(k, registry[i])
             cost == explored_nodes[k].cost + 1
             node == [new_procedure |-> i, previous_node |-> k, cost |-> cost]
             list == Append(step.connected, [key |-> new, cost |-> cost])
  <2>1. /\ stage = "connect"
        /\ UNCHANGED <<registry, stage, opening_nodes, todo, trace, maps, created>>
    BY <1>2 DEF TryProcedure, Explored, built
  <2>2. /\ k \in Keys /\ k \in DOMAIN explored_nodes
        /\ explored_nodes[k] \in Nodes /\ cost \in Nat
    BY <2>1 DEF TypeInv, OpenInv, Steps, Nodes
  <2>3. i \in Nat \ {0} /\ registry[i] \in Catalogue
    BY DEF TypeInv
  <2>4. new \in Keys
    BY <2>2, <2>3, NewNodeType
  <2>5. node \in Nodes /\ [key |-> new, cost |-> cost] \in Entries
    BY <2>2, <2>3, <2>4 DEF Nodes, Entries
  <2>6. CASE /\ step' = [step EXCEPT !.procedures = @ \ {i}]
             /\ UNCHANGED explored_nodes
    <3>1. step' \in Steps'
      BY <2>1, <2>6 DEF Steps, TypeInv
    <3>2. TypeInv'
      BY <2>1, <2>6, <3>1 DEF TypeInv, maps
    <3>3. NodeInv'
      BY <2>1, <2>6, NodesKept, MapsKept DEF Searching
    <3>4. OpenInv'
      BY <2>1, <2>2, <2>6 DEF OpenInv, TypeInv, Steps
    <3>5. TraceInv'
      BY <2>1 DEF TraceInv
    <3> QED  BY <3>2, <3>3, <3>4, <3>5
  <2>7. CASE /\ explored_nodes' = [x \in DOMAIN explored_nodes \cup {new} |->
                                     IF x = new THEN node ELSE explored_nodes[x]]
             /\ step' = [step EXCEPT !.procedures = @ \ {i}, !.connected = list]
    <3> HIDE DEF k, new, cost, node
    <3>1. /\ DOMAIN explored_nodes' = DOMAIN explored_nodes \cup {new}
          /\ explored_nodes'[new] = node
          /\ \A x \in DOMAIN explored_nodes \ {new} : explored_nodes'[x] = explored_nodes[x]
      BY <2>7
    <3>2. /\ list \in Seq(Entries)
          /\ Len(list) = Len(step.connected) + 1
          /\ \A j \in 1..Len(step.connected) : list[j] = step.connected[j]
          /\ list[Len(list)].key = new
      BY <2>5 DEF TypeInv, Steps
    <3> HIDE DEF list
    <3>3. step' \in Steps' /\ step'.key = k /\ step'.connected = list
      BY <2>1, <2>7, <3>2 DEF Steps, TypeInv, k
    <3>4. TypeInv'
      BY <2>1, <2>4, <2>5, <2>7, <3>1, <3>3 DEF TypeInv, maps
    <3>5. NodeInv'
      <4> SUFFICES ASSUME NEW x \in DOMAIN explored_nodes'
                   PROVE  NodeInv!(x)'
        BY DEF NodeInv
      <4>1. CASE x = new
        <5>1. /\ explored_nodes'[x].previous_node = k
              /\ explored_nodes'[x].new_procedure = i
          BY <3>1, <4>1 DEF node
        <5>2. k \in DOMAIN explored_nodes'  BY <2>2, <3>1
        <5>3. x = NewNode(k, registry'[i])  BY <2>1, <4>1 DEF new
        <5>4. i \in DOMAIN registry'  BY <2>1
        <5> QED  BY <5>1, <5>2, <5>3, <5>4
      <4>2. CASE x # new
        BY <2>1, <3>1, <4>2, MapsKept DEF NodeInv, Searching, NewNode
      <4> QED  BY <4>1, <4>2
    <3>6. OpenInv'
      <4>1. Len(step.connected) \in Nat  BY DEF TypeInv, Steps
      <4>2. \A j \in 1..Len(list) : list[j].key \in DOMAIN explored_nodes'
        BY <3>1, <3>2, <4>1 DEF OpenInv
      <4> QED  BY <2>1, <2>2, <3>1, <3>3, <4>2 DEF OpenInv
    <3>7. TraceInv'
      BY <2>1 DEF TraceInv
    <3> QED  BY <3>4, <3>5, <3>6, <3>7
  <2> QED  BY <1>2, <2>6, <2>7 DEF TryProcedure, Explored
<1>3. ASSUME NEW p \in Pin, NextPin(p) PROVE LinkInv'
  <2>1. /\ UNCHANGED <<registry, stage, search, todo, trace, maps, created>>
        /\ step' = [step EXCEPT !.pins = @ \ {p}, !.procedures = Partners(step.key, p)]
    BY <1>3 DEF NextPin, built
  <2>2. Partners(step.key, p) \subseteq DOMAIN registry
    BY DEF Partners
  <2>3. step' \in Steps' /\ step'.key = step.key /\ step'.connected = step.connected
    BY <2>1, <2>2 DEF Steps, TypeInv
  <2>4. TypeInv'
    BY <2>1, <2>3 DEF TypeInv, maps, search
  <2>5. NodeInv'
    BY <2>1, NodesKept, MapsKept DEF Searching, search
  <2>6. OpenInv'
    BY <2>1, <2>3 DEF OpenInv, search
  <2>7. TraceInv'
    BY <1>3, <2>1 DEF TraceInv, NextPin
  <2> QED  BY <2>4, <2>5, <2>6, <2>7
<1>4. ASSUME NEW p \in Pin, PinWithoutPartner(p) PROVE LinkInv'
  <2>1. /\ UNCHANGED <<registry, search, todo, trace, maps, created>>
        /\ step' = [step EXCEPT !.pins = {}, !.connected = <<>>]
        /\ stage = "connect" /\ stage' = "open"
    BY <1>4 DEF PinWithoutPartner, built
  <2>2. step' \in Steps' /\ step'.key = step.key /\ step'.connected = <<>>
    <3>1. step \in Steps  BY DEF TypeInv
    <3>2. <<>> \in Seq(Entries)  OBVIOUS
    <3>3. step' = [key |-> step.key, pins |-> {}, procedures |-> step.procedures,
                   connected |-> <<>>]
      BY <2>1, <3>1 DEF Steps
    <3> QED  BY <2>1, <3>1, <3>2, <3>3 DEF Steps
  <2>3. TypeInv'
    BY <2>1, <2>2 DEF TypeInv, maps, search
  <2>4. NodeInv'
    BY <2>1, NodesKept, MapsKept DEF Searching, search
  <2>5. OpenInv'
    BY <2>1, <2>2 DEF OpenInv, search
  <2>6. TraceInv'
    BY <2>1 DEF TraceInv
  <2> QED  BY <2>3, <2>4, <2>5, <2>6
<1>5. CASE AllTried
  <2>1. /\ UNCHANGED <<registry, search, step, todo, trace, maps, created>>
        /\ stage = "connect" /\ stage' = "open"
    BY <1>5 DEF AllTried, built
  <2>2. TypeInv'
    BY <2>1 DEF TypeInv, maps, search, Steps
  <2>3. NodeInv'
    BY <2>1, NodesKept, MapsKept DEF Searching, search
  <2>4. OpenInv'
    BY <2>1 DEF OpenInv, search
  <2>5. TraceInv'
    BY <2>1 DEF TraceInv
  <2> QED  BY <2>2, <2>3, <2>4, <2>5
<1>6. CASE OpenNode
  <2> DEFINE entry == step.connected[1]
             n     == Position(entry)
  <2>1. /\ stage = "open"
        /\ step.connected # <<>>
        /\ UNCHANGED <<registry, stage, explored_nodes, todo, trace, maps, created>>
        /\ step' = [step EXCEPT !.connected = Tail(@)]
        /\ opening_nodes' = InsertAt(opening_nodes, n, entry)
    BY <1>6 DEF OpenNode, built, TypeInv, Steps
  <2>2. /\ Len(step.connected) \in Nat \ {0}
        /\ entry \in Entries /\ entry.key \in DOMAIN explored_nodes
    BY <2>1 DEF TypeInv, Steps, OpenInv
  <2>3. n \in 1..Len(opening_nodes) + 1
    BY PositionType DEF TypeInv
  <2> HIDE DEF n
  <2>4. /\ opening_nodes' \in Seq(Entries)
        /\ Len(opening_nodes') = Len(opening_nodes) + 1
        /\ \A j \in 1..Len(opening_nodes) + 1 :
             opening_nodes'[j] = IF j < n THEN opening_nodes[j]
                                 ELSE IF j = n THEN entry ELSE opening_nodes[j - 1]
    <3>1. opening_nodes \in Seq(Entries)  BY DEF TypeInv
    <3> HIDE DEF entry
    <3>2. entry \in Entries  BY <2>2
    <3>3. /\ InsertAt(opening_nodes, n, entry) \in Seq(Entries)
          /\ Inserted(opening_nodes, n, entry, InsertAt(opening_nodes, n, entry))
      BY <2>3, <3>1, <3>2, InsertType
    <3> QED  BY <2>1, <3>3 DEF Inserted
  <2>5. /\ step' \in Steps' /\ step'.key = step.key
        /\ Len(step'.connected) = Len(step.connected) - 1
        /\ \A j \in 1..Len(step'.connected) : step'.connected[j] = step.connected[j + 1]
    <3>1. step \in Steps  BY DEF TypeInv
    <3> DEFINE rest == Tail(step.connected)
    <3>2. step.connected \in Seq(Entries)  BY <3>1 DEF Steps
    <3>3. /\ rest \in Seq(Entries) /\ Len(rest) = Len(step.connected) - 1
          /\ \A j \in 1..Len(rest) : rest[j] = step.connected[j + 1]
      BY <2>1, <3>2
    <3> HIDE DEF rest
    <3>4. step' = [key |-> step.key, pins |-> step.pins, procedures |-> step.procedures,
                   connected |-> rest]
      BY <2>1, <3>1 DEF Steps, rest
    <3>5. step'.key = step.key /\ step'.connected = rest  BY <3>4
    <3>6. step' \in Steps'
      <4>1. registry' = registry  BY <2>1
      <4> QED  BY <3>1, <3>3, <3>4, <4>1 DEF Steps
    <3> QED  BY <3>3, <3>5, <3>6
  <2>6. TypeInv'
    BY <2>1, <2>4, <2>5 DEF TypeInv, maps
  <2>7. NodeInv'
    BY <2>1, NodesKept, MapsKept DEF Searching
  <2>8. OpenInv'
    <3>1. ASSUME NEW j \in 1..Len(opening_nodes')
          PROVE  opening_nodes'[j].key \in DOMAIN explored_nodes'
      <4>1. Len(opening_nodes) \in Nat  BY DEF TypeInv
      <4>2. CASE j < n
        <5>1. j \in 1..Len(opening_nodes)  BY <2>3, <4>1, <4>2
        <5> QED  BY <2>1, <2>4, <4>2, <5>1 DEF OpenInv
      <4>3. CASE j = n
        BY <2>1, <2>2, <2>4, <4>3
      <4>4. CASE n < j
        <5>1. j - 1 \in 1..Len(opening_nodes) /\ ~(j < n) /\ j # n
          BY <2>3, <2>4, <4>1, <4>4
        <5> QED  BY <2>1, <2>4, <5>1 DEF OpenInv
      <4> QED  BY <2>3, <4>1, <4>2, <4>3, <4>4
    <3>2. \A j \in 1..Len(step'.connected) : step'.connected[j].key \in DOMAIN explored_nodes'
      BY <2>1, <2>2, <2>5 DEF OpenInv
    <3> QED  BY <2>1, <2>5, <3>1, <3>2 DEF OpenInv
  <2>9. TraceInv'
    BY <2>1 DEF TraceInv
  <2> QED  BY <2>6, <2>7, <2>8, <2>9
<1>7. CASE StepEnds
  <2>1. /\ UNCHANGED <<registry, search, step, todo, trace, maps, created>>
        /\ stage = "open"
        /\ stage' = IF Target \in DOMAIN explored_nodes THEN "trace" ELSE "explore"
    BY <1>7 DEF StepEnds, Explored, built
  <2>2. TypeInv'
    BY <2>1 DEF TypeInv, maps, search, Steps
  <2>3. NodeInv'
    BY <2>1, NodesKept, MapsKept DEF Searching, search
  <2>4. OpenInv'
    BY <2>1 DEF OpenInv, search
  <2>5. TraceInv'
    <3>1. CASE Target \in DOMAIN explored_nodes
      <4>1. LeadsTo(Target, <<>>)
        BY <3>1, EmptyLeadsToTarget DEF TypeInv
      <4>2. stage' = "trace" /\ trace' = Target /\ todo' = <<>>
        BY <2>1, <3>1 DEF TraceInv
      <4>3. LeadsTo(trace, todo)'
        BY <2>1, <4>1, <4>2 DEF LeadsTo
      <4> QED  BY <2>1, <3>1, <4>2, <4>3 DEF TraceInv, search
    <3>2. CASE Target \notin DOMAIN explored_nodes
      BY <2>1, <3>2 DEF TraceInv
    <3> QED  BY <3>1, <3>2
  <2> QED  BY <2>2, <2>3, <2>4, <2>5
<1>8. CASE ExplorerFails \/ CreateFails
  <2>1. /\ UNCHANGED <<registry, search, step, todo, trace, maps, created>>
        /\ stage' \in {"not_found", "failed"}
    BY <1>8 DEF ExplorerFails, CreateFails, built
  <2>2. TypeInv'
    BY <2>1 DEF TypeInv, maps, search, Steps
  <2>3. NodeInv'
    BY <2>1, NodesKept, MapsKept DEF Searching, search
  <2>4. OpenInv'
    BY <2>1 DEF OpenInv, search
  <2>5. TraceInv'
    BY <2>1 DEF TraceInv
  <2> QED  BY <2>2, <2>3, <2>4, <2>5
<1>9. CASE TraceBack
  <2> DEFINE node == explored_nodes[trace]
  <2>1. /\ stage = "trace"
        /\ UNCHANGED <<registry, search, step, maps, created>>
    BY <1>9 DEF TraceBack, built
  <2>2. trace \in DOMAIN explored_nodes /\ LeadsTo(trace, todo)
    BY <2>1 DEF TraceInv
  <2>3. CASE node.new_procedure = None
    <3>1. stage' = "build" /\ UNCHANGED <<todo, trace>>
      BY <1>9, <2>3 DEF TraceBack
    <3>2. trace = MapsKey
      BY <2>1, <2>2, <2>3 DEF NodeInv, Searching, TypeInv, None
    <3>3. TypeInv'
      BY <2>1, <3>1 DEF TypeInv, maps, search, Steps
    <3>4. NodeInv'
      BY <2>1, <3>1, NodesKept, MapsKept DEF Searching, search
    <3>5. OpenInv'
      BY <2>1, <3>1 DEF OpenInv, search
    <3>6. TraceInv'
      <4>1. LeadsTo(MapsKey, todo)'
        BY <2>1, <2>2, <3>1, <3>2, MapsKept DEF LeadsTo
      <4> QED  BY <3>1, <4>1 DEF TraceInv
    <3> QED  BY <3>3, <3>4, <3>5, <3>6
  <2>4. CASE node.new_procedure # None
    <3>1. /\ stage' = "trace"
          /\ todo' = <<node.new_procedure>> \o todo
          /\ trace' = node.previous_node
      BY <1>9, <2>1, <2>4 DEF TraceBack
    <3>2. /\ node.new_procedure \in DOMAIN registry
          /\ node.previous_node \in DOMAIN explored_nodes
          /\ node.previous_node \in Keys
          /\ trace = NewNode(node.previous_node, registry[node.new_procedure])
      BY <2>2, <2>4 DEF NodeInv, TypeInv
    <3> HIDE DEF node
    <3>3. todo \in Seq(DOMAIN registry) /\ todo' \in Seq(DOMAIN registry)
      BY <3>1, <3>2 DEF TypeInv
    <3>4. TypeInv'
      BY <2>1, <3>1, <3>2, <3>3 DEF TypeInv, maps, search, Steps
    <3>5. NodeInv'
      BY <2>1, <3>1, NodesKept, MapsKept DEF Searching, search
    <3>6. OpenInv'
      BY <2>1, <3>1 DEF OpenInv, search
    <3>7. TraceInv'
      <4>1. LeadsTo(node.previous_node, <<node.new_procedure>> \o todo)
        BY <2>2, <3>2, <3>3, OneMoreBefore
      <4>2. LeadsTo(trace, todo)'
        BY <2>1, <3>1, <4>1 DEF LeadsTo
      <4> QED  BY <2>1, <3>1, <3>2, <4>2 DEF TraceInv, search
    <3> QED  BY <3>4, <3>5, <3>6, <3>7
  <2> QED  BY <2>3, <2>4
<1>10. CASE CreateProcedure
  <2>1. /\ stage = "build" /\ stage' = "build"
        /\ todo # <<>> /\ todo' = Tail(todo)
        /\ UNCHANGED <<registry, search, step, trace>>
    BY <1>10 DEF CreateProcedure
  <2>2. /\ MapsKey' = NewNode(MapsKey, registry[Head(todo)])
        /\ unlinked_input' \in [Pin -> Nat]
        /\ unlinked_output' \in [Pin -> Nat]
        /\ Len(created') \in Nat
    BY <1>10, CreateIsNewNode
  <2>3. todo \in Seq(DOMAIN registry) /\ todo' \in Seq(DOMAIN registry)
    BY <2>1 DEF TypeInv
  <2>4. TypeInv'
    BY <2>1, <2>2, <2>3 DEF TypeInv, search, Steps
  <2>5. NodeInv'
    BY <2>1, NodesKept DEF Searching, search
  <2>6. OpenInv'
    BY <2>1 DEF OpenInv, search
  <2>7. TraceInv'
    <3>1. LeadsTo(MapsKey, todo) /\ MapsKey \in Keys
      BY <2>1 DEF TraceInv, MapsKey, Key, Keys
    <3>2. LeadsTo(NewNode(MapsKey, registry[Head(todo)]), Tail(todo))
      BY <2>1, <2>3, <3>1, OneStepOn
    <3>3. LeadsTo(MapsKey, todo)'
      BY <2>1, <2>2, <3>2 DEF LeadsTo
    <3> QED  BY <2>1, <3>3 DEF TraceInv
  <2> QED  BY <2>4, <2>5, <2>6, <2>7
<1>11. CASE AllCreated
  <2>1. /\ stage = "build" /\ stage' = "serialize" /\ todo = <<>>
        /\ UNCHANGED <<registry, search, step, todo, trace, maps, created>>
    BY <1>11 DEF AllCreated, built
  <2>2. TypeInv'
    BY <2>1 DEF TypeInv, maps, search, Steps
  <2>3. NodeInv'
    BY <2>1, NodesKept, MapsKept DEF Searching, search
  <2>4. OpenInv'
    BY <2>1 DEF OpenInv, search
  <2>5. TraceInv'
    <3>1. LeadsTo(MapsKey, <<>>) /\ MapsKey \in Keys
      BY <2>1 DEF TraceInv, MapsKey, Key, Keys
    <3>2. MapsKey = Target
      BY <3>1, EmptyLeadsToTarget
    <3>3. MapsKey' = Target'
      BY <2>1, <3>2, MapsKept DEF Target, Key
    <3> QED  BY <2>1, <3>3 DEF TraceInv
  <2> QED  BY <2>2, <2>3, <2>4, <2>5
<1>12. CASE SerializeNext \/ SerializeCrashes \/ SerializeEnds
  <2>1. /\ stage = "serialize" /\ stage' \in {"serialize", "crashed", "built"}
        /\ UNCHANGED <<registry, search, step, todo, trace, maps, created>>
    BY <1>12 DEF SerializeNext, SerializeCrashes, SerializeEnds, built
  <2>2. TypeInv'
    BY <2>1 DEF TypeInv, maps, search, Steps
  <2>3. NodeInv'
    BY <2>1, NodesKept, MapsKept DEF Searching, search
  <2>4. OpenInv'
    BY <2>1 DEF OpenInv, search
  <2>5. TraceInv'
    BY <2>1, MapsKept DEF TraceInv, Target, Key
  <2> QED  BY <2>2, <2>3, <2>4, <2>5
<1>13. CASE UNCHANGED vars
  <2>1. UNCHANGED <<registry, stage, search, step, todo, trace, maps, created>>
    BY <1>13 DEF vars, built
  <2>2. TypeInv'
    BY <2>1 DEF TypeInv, maps, search, Steps
  <2>3. NodeInv'
    BY <2>1, NodesKept, MapsKept DEF Searching, search
  <2>4. OpenInv'
    BY <2>1 DEF OpenInv, search
  <2>5. TraceInv'
    BY <2>1, MapsKept DEF TraceInv, Target, Key, LeadsTo, search
  <2> QED  BY <2>2, <2>3, <2>4, <2>5
<1> QED
  BY <1>1, <1>2, <1>3, <1>4, <1>5, <1>6, <1>7, <1>8, <1>9, <1>10, <1>11, <1>12, <1>13
  DEF Next

(***************************************************************************)
(* Whatever is registered, the maps of build_pipeline are empty when all   *)
(* procedures have been created, as its ASSERTs say.                       *)
(***************************************************************************)
THEOREM ReplayLinksAll == Spec => []AllLinked
<1>1. LinkInv => AllLinked
  BY DEF LinkInv, TraceInv, AllLinked, MapsKey, Target, Key
<1> QED  BY <1>1, LinkInit, LinkNext, PTL DEF Spec

-----------------------------------------------------------------------------
(***************************************************************************)
(* The tree is in the order of costs as well as of estimates, and what is  *)
(* explored costs at most one more than the node that is looked at, or is  *)
(* looked at next.  So no node is reached again at lower cost.             *)
(***************************************************************************)
Sorted ==
  \A i, j \in 1..Len(opening_nodes) : i <= j =>
    /\ opening_nodes[i].cost <= opening_nodes[j].cost
    /\ Estimate(opening_nodes[i]) <= Estimate(opening_nodes[j])

CostsKnown ==
  /\ \A j \in 1..Len(opening_nodes) :
       opening_nodes[j].cost = explored_nodes[opening_nodes[j].key].cost
  /\ \A j \in 1..Len(step.connected) :
       step.connected[j].cost = explored_nodes[step.connected[j].key].cost

Frontier ==
  /\ stage = "explore" /\ opening_nodes # <<>> =>
       \A k \in DOMAIN explored_nodes : explored_nodes[k].cost <= opening_nodes[1].cost + 1
  /\ stage \in {"connect", "open"} =>
       /\ \A k \in DOMAIN explored_nodes :
            explored_nodes[k].cost <= explored_nodes[step.key].cost + 1
       /\ \A j \in 1..Len(opening_nodes) :
            explored_nodes[step.key].cost <= opening_nodes[j].cost
       /\ \A j \in 1..Len(step.connected) :
            step.connected[j].cost = explored_nodes[step.key].cost + 1

OrderInv == Sorted /\ CostsKnown /\ Frontier

(* A set that has all numbers below its members is 1 to its cardinality.   *)
LEMMA PrefixSet ==
  ASSUME NEW n \in Nat, NEW T \in SUBSET (1..n), \A i \in T : \A j \in 1..i : j \in T
  PROVE  \A j \in 1..n : j \in T <=> j <= Cardinality(T)
<1>1. IsFiniteSet(1..n)  BY FS_Interval
<1>2. IsFiniteSet(T) /\ Cardinality(T) \in Nat
  BY <1>1, FS_Subset, FS_CardinalityType
<1>3. ASSUME NEW j \in 1..n, j \in T PROVE j <= Cardinality(T)
  <2>1. 1..j \in SUBSET T  BY <1>3
  <2>2. Cardinality(1..j) <= Cardinality(T)
    BY <1>2, <2>1, FS_Subset
  <2>3. Cardinality(1..j) = j  BY FS_Interval
  <2> QED  BY <2>2, <2>3
<1>4. ASSUME NEW j \in 1..n, j \notin T PROVE ~(j <= Cardinality(T))
  <2>1. T \in SUBSET (1..j - 1)
    BY <1>4
  <2>2. IsFiniteSet(1..j - 1) /\ Cardinality(1..j - 1) = j - 1
    BY FS_Interval
  <2>3. Cardinality(T) <= j - 1
    BY <2>1, <2>2, FS_Subset
  <2> QED  BY <1>2, <2>3
<1> QED  BY <1>3, <1>4

(* The estimate is the cost or one more.                                   *)
LEMMA EstimateType ==
  ASSUME NEW entry \in Entries
  PROVE  /\ Estimate(entry) \in Nat
         /\ entry.cost \in Nat
         /\ entry.cost <= Estimate(entry) /\ Estimate(entry) <= entry.cost + 1
BY DEF Estimate, Entries

(* What is not greater is before the new entry, what is greater behind.    *)
LEMMA PositionSplits ==
  ASSUME opening_nodes \in Seq(Entries), Sorted, NEW entry \in Entries
  PROVE  \A j \in 1..Len(opening_nodes) :
           j < Position(entry) <=> Estimate(opening_nodes[j]) <= Estimate(entry)
<1> DEFINE before == {j \in 1..Len(opening_nodes) :
                        Estimate(opening_nodes[j]) <= Estimate(entry)}
<1>1. Len(opening_nodes) \in Nat /\ DOMAIN opening_nodes = 1..Len(opening_nodes)
  OBVIOUS
<1>2. Position(entry) = 1 + Cardinality(before)
  BY <1>1 DEF Position
<1>3. ASSUME NEW i \in before, NEW j \in 1..i PROVE j \in before
  <2>1. i \in 1..Len(opening_nodes) /\ j \in 1..Len(opening_nodes) /\ j <= i
    BY <1>1
  <2>2. opening_nodes[i] \in Entries /\ opening_nodes[j] \in Entries
    BY <2>1
  <2>3. /\ Estimate(opening_nodes[j]) <= Estimate(opening_nodes[i])
        /\ Estimate(opening_nodes[i]) <= Estimate(entry)
    BY <2>1 DEF Sorted
  <2>4. /\ Estimate(opening_nodes[j]) \in Nat
        /\ Estimate(opening_nodes[i]) \in Nat
        /\ Estimate(entry) \in Nat
    BY <2>2, EstimateType
  <2> QED  BY <2>1, <2>3, <2>4
<1>4. before \in SUBSET (1..Len(opening_nodes))  OBVIOUS
<1>5. Cardinality(before) \in Nat
  <2>1. IsFiniteSet(1..Len(opening_nodes))
    BY <1>1, FS_Interval
  <2> HIDE DEF before
  <2>2. IsFiniteSet(before)
    BY <1>4, <2>1, FS_Subset
  <2> QED  BY <2>2, FS_CardinalityType
<1>6. \A j \in 1..Len(opening_nodes) : j \in before <=> j <= Cardinality(before)
  <2> HIDE DEF before
  <2> QED  BY <1>1, <1>3, <1>4, PrefixSet
<1>7. \A j \in 1..Len(opening_nodes) :
        j \in before <=> Estimate(opening_nodes[j]) <= Estimate(entry)
  OBVIOUS
<1> HIDE DEF before
<1> QED  BY <1>1, <1>2, <1>5, <1>6, <1>7

(* There is one node, and it is open.                                      *)
LEMMA OrderInit == Init => OrderInv
<1> SUFFICES ASSUME Init PROVE OrderInv  OBVIOUS
<1> PICK out \in SourceOutputs :
      /\ explored_nodes = [k \in {Key({}, out)} |->
                             [new_procedure |-> None, previous_node |-> k, cost |-> 0]]
      /\ opening_nodes = <<[key |-> Key({}, out), cost |-> 0]>>
  BY DEF Init, FirstNode, FirstEntry, SourceOnly
<1> DEFINE first == [key |-> Key({}, out), cost |-> 0]
<1>1. /\ Len(opening_nodes) = 1 /\ opening_nodes[1] = first
      /\ step.connected = <<>> /\ stage = "explore"
      /\ DOMAIN explored_nodes = {first.key} /\ explored_nodes[first.key].cost = 0
  BY DEF Init, FirstNode, FirstEntry, SourceOnly
<1>2. \A j \in 1..Len(opening_nodes) : j = 1  BY <1>1
<1>3. Estimate(first) \in Nat  BY DEF Estimate
<1>4. first.cost = 0  OBVIOUS
<1> HIDE DEF first
<1>5. Sorted
  BY <1>1, <1>2, <1>3, <1>4 DEF Sorted
<1>6. CostsKnown
  BY <1>1, <1>2, <1>4 DEF CostsKnown
<1>7. Frontier
  BY <1>1, <1>4 DEF Frontier
<1> QED  BY <1>5, <1>6, <1>7 DEF OrderInv

(* A node that is seen a second time costs at least as much.               *)
LEMMA NeverCheaper ==
  ASSUME LinkInv, OrderInv, NEW i \in DOMAIN registry, TryProcedure(i),
         NEW k \in DOMAIN explored_nodes
  PROVE  k \in DOMAIN explored_nodes' /\ explored_nodes'[k] = explored_nodes[k]
<1> DEFINE new  == NewNode(step.key, registry[i])
           cost == explored_nodes[step.key].cost + 1
           node == [new_procedure |-> i, previous_node |-> step.key, cost |-> cost]
           seen == new \in DOMAIN explored_nodes /\ explored_nodes[new].cost <= cost
<1>1. stage = "connect"
  BY DEF TryProcedure, Explored
<1>2. new \in DOMAIN explored_nodes => seen
  BY <1>1 DEF OrderInv, Frontier
<1>3. CASE UNCHANGED explored_nodes
  BY <1>3
<1>4. CASE /\ ~seen
           /\ explored_nodes' = [x \in DOMAIN explored_nodes \cup {new} |->
                                   IF x = new THEN node ELSE explored_nodes[x]]
  <2>1. k # new  BY <1>2, <1>4
  <2> HIDE DEF new, node
  <2> QED  BY <1>4, <2>1
<1> QED  BY <1>3, <1>4 DEF TryProcedure, Explored

(* Every step keeps the tree in the order of costs.                        *)
LEMMA OrderNext == LinkInv /\ OrderInv /\ [Next]_vars => OrderInv'
<1> SUFFICES ASSUME LinkInv, OrderInv, [Next]_vars PROVE OrderInv'  OBVIOUS
<1> USE DEF OrderInv
<1>a. /\ Len(opening_nodes) \in Nat
      /\ opening_nodes \in Seq(Entries)
      /\ \A j \in 1..Len(opening_nodes) : opening_nodes[j] \in Entries
  BY DEF LinkInv, TypeInv
<1>b. /\ step.connected \in Seq(Entries) /\ Len(step.connected) \in Nat
      /\ \A j \in 1..Len(step.connected) : step.connected[j] \in Entries
  BY DEF LinkInv, TypeInv, Steps
<1>c. \A k \in DOMAIN explored_nodes : explored_nodes[k].cost \in Nat
  BY DEF LinkInv, TypeInv, Nodes
<1>1. CASE ExplorerStep
  <2>1. /\ stage = "explore" /\ stage' = "connect"
        /\ opening_nodes # <<>>
        /\ opening_nodes' = Tail(opening_nodes)
        /\ step'.key = opening_nodes[1].key
        /\ step'.connected = <<>>
        /\ explored_nodes' = explored_nodes
    BY <1>1, <1>a DEF ExplorerStep
  <2>2. /\ Len(opening_nodes') = Len(opening_nodes) - 1
        /\ \A j \in 1..Len(opening_nodes') :
             j + 1 \in 1..Len(opening_nodes) /\ opening_nodes'[j] = opening_nodes[j + 1]
    BY <1>a, <2>1
  <2>3. 1 \in 1..Len(opening_nodes)  BY <1>a, <2>1
  <2>4. Sorted'
    <3> SUFFICES ASSUME NEW i \in 1..Len(opening_nodes'), NEW j \in 1..Len(opening_nodes'),
                        i <= j
                 PROVE  /\ opening_nodes'[i].cost <= opening_nodes'[j].cost
                        /\ Estimate(opening_nodes'[i]) <= Estimate(opening_nodes'[j])
      BY DEF Sorted, Estimate
    <3>1. i + 1 <= j + 1  BY <1>a, <2>2
    <3> QED  BY <2>2, <3>1 DEF Sorted
  <2>5. CostsKnown'
    BY <2>1, <2>2 DEF CostsKnown
  <2>6. Frontier'
    <3>1. explored_nodes[step'.key].cost = opening_nodes[1].cost
      BY <2>1, <2>3 DEF CostsKnown
    <3>2. \A k \in DOMAIN explored_nodes' :
            explored_nodes'[k].cost <= explored_nodes'[step'.key].cost + 1
      BY <2>1, <3>1 DEF Frontier
    <3>3. \A j \in 1..Len(opening_nodes') :
            explored_nodes'[step'.key].cost <= opening_nodes'[j].cost
      <4> SUFFICES ASSUME NEW j \in 1..Len(opening_nodes')
                   PROVE  explored_nodes'[step'.key].cost <= opening_nodes'[j].cost
        OBVIOUS
      <4>1. 1 <= j + 1  BY <2>2, <1>a
      <4>2. opening_nodes[1].cost <= opening_nodes[j + 1].cost
        BY <2>2, <2>3, <4>1 DEF Sorted
      <4> QED  BY <2>1, <2>2, <3>1, <4>2
    <3> QED  BY <2>1, <3>2, <3>3 DEF Frontier
  <2> QED  BY <2>4, <2>5, <2>6
<1>2. ASSUME NEW i \in DOMAIN registry, TryProcedure(i) PROVE OrderInv'
  <2> DEFINE k    == step.key
             new  == NewNode(k, registry[i])
             cost == explored_nodes[k].cost + 1
             node == [new_procedure |-> i, previous_node |-> k, cost |-> cost]
             last == [key |-> new, cost |-> cost]
             list == Append(step.connected, last)
  <2>1. /\ stage = "connect" /\ stage' = "connect"
        /\ opening_nodes' = opening_nodes
    BY <1>2 DEF TryProcedure, Explored
  <2>2. k \in DOMAIN explored_nodes /\ cost \in Nat
    BY <2>1, <1>c DEF LinkInv, OpenInv
  <2>3. \A x \in DOMAIN explored_nodes :
          x \in DOMAIN explored_nodes' /\ explored_nodes'[x] = explored_nodes[x]
    BY <1>2, NeverCheaper DEF OrderInv
  <2>4. /\ \A j \in 1..Len(opening_nodes) : opening_nodes[j].key \in DOMAIN explored_nodes
        /\ \A j \in 1..Len(step.connected) : step.connected[j].key \in DOMAIN explored_nodes
    BY DEF LinkInv, OpenInv
  <2>5. Sorted'
    BY <2>1 DEF Sorted, Estimate
  <2>6. \A j \in 1..Len(opening_nodes) :
          explored_nodes[k].cost <= opening_nodes[j].cost
    BY <2>1 DEF Frontier
  <2>7. \A x \in DOMAIN explored_nodes : explored_nodes[x].cost <= cost
    BY <2>1 DEF Frontier
  <2>8. \A j \in 1..Len(step.connected) : step.connected[j].cost = cost
    BY <2>1 DEF Frontier
  <2>9. CASE /\ step' = [step EXCEPT !.procedures = @ \ {i}]
             /\ UNCHANGED explored_nodes
    <3>1. step'.key = k /\ step'.connected = step.connected
      BY <2>9 DEF LinkInv, TypeInv, Steps
    <3>2. CostsKnown'
      BY <2>1, <2>9, <3>1 DEF CostsKnown
    <3>3. Frontier'
      BY <2>1, <2>9, <3>1 DEF Frontier
    <3> QED  BY <2>5, <3>2, <3>3
  <2>10. CASE /\ explored_nodes' = [x \in DOMAIN explored_nodes \cup {new} |->
                                      IF x = new THEN node ELSE explored_nodes[x]]
              /\ step' = [step EXCEPT !.procedures = @ \ {i}, !.connected = list]
    <3>1. step'.key = k /\ step'.connected = list
      BY <2>10 DEF LinkInv, TypeInv, Steps
    <3>2. node.cost = cost /\ last.cost = cost /\ last.key = new  OBVIOUS
    <3> HIDE DEF new, node, last
    <3>3. /\ Len(list) = Len(step.connected) + 1
          /\ \A j \in 1..Len(list) : list[j] = last \/ (j \in 1..Len(step.connected)
                                                         /\ list[j] = step.connected[j])
      BY <1>b
    <3> HIDE DEF list, k, cost
    <3>4. /\ new \in DOMAIN explored_nodes' /\ explored_nodes'[new].cost = cost
          /\ \A x \in DOMAIN explored_nodes' : x = new \/ x \in DOMAIN explored_nodes
      BY <2>10, <3>2
    <3>5. explored_nodes'[k].cost + 1 = cost
      BY <2>2, <2>3 DEF cost
    <3>6. CostsKnown'
      <4>1. \A j \in 1..Len(opening_nodes') :
              opening_nodes'[j].cost = explored_nodes'[opening_nodes'[j].key].cost
        BY <2>1, <2>3, <2>4 DEF CostsKnown
      <4>2. ASSUME NEW j \in 1..Len(list)
            PROVE  list[j].cost = explored_nodes'[list[j].key].cost
        <5>1. CASE list[j] = last
          BY <3>2, <3>4, <5>1
        <5>2. CASE j \in 1..Len(step.connected) /\ list[j] = step.connected[j]
          BY <2>3, <2>4, <5>2 DEF CostsKnown
        <5> QED  BY <3>3, <5>1, <5>2
      <4> QED  BY <3>1, <4>1, <4>2 DEF CostsKnown
    <3>7. Frontier'
      <4>1. \A x \in DOMAIN explored_nodes' : explored_nodes'[x].cost <= cost
        BY <2>2, <2>3, <2>7, <3>4
      <4>2. \A j \in 1..Len(list) : list[j].cost = cost
        BY <2>8, <3>2, <3>3
      <4>3. \A j \in 1..Len(opening_nodes') : explored_nodes'[k].cost <= opening_nodes'[j].cost
        BY <2>1, <2>2, <2>3, <2>6
      <4> QED  BY <2>1, <3>1, <3>5, <4>1, <4>2, <4>3 DEF Frontier
    <3> QED  BY <2>5, <3>6, <3>7
  <2> QED  BY <1>2, <2>9, <2>10 DEF TryProcedure, Explored
<1>3. CASE OpenNode
  <2> DEFINE entry == step.connected[1]
             n     == Position(entry)
             k     == step.key
             c     == explored_nodes[k].cost
  <2>1. /\ stage = "open" /\ stage' = "open"
        /\ step.connected # <<>>
        /\ explored_nodes' = explored_nodes
        /\ step' = [step EXCEPT !.connected = Tail(@)]
        /\ opening_nodes' = InsertAt(opening_nodes, n, entry)
    BY <1>3, <1>b DEF OpenNode
  <2>2. /\ 1 \in 1..Len(step.connected)
        /\ entry \in Entries
        /\ k \in DOMAIN explored_nodes /\ c \in Nat
    BY <1>b, <1>c, <2>1 DEF LinkInv, OpenInv
  <2>3. n \in 1..Len(opening_nodes) + 1
    BY <1>a, PositionType
  <2>4. \A j \in 1..Len(opening_nodes) :
          j < n <=> Estimate(opening_nodes[j]) <= Estimate(entry)
    BY <1>a, <2>2, PositionSplits
  <2>5. entry.cost = c + 1 /\ entry.cost = explored_nodes[entry.key].cost
    BY <2>1, <2>2 DEF Frontier, CostsKnown
  <2> HIDE DEF n
  <2>6. /\ Len(opening_nodes') = Len(opening_nodes) + 1
        /\ \A j \in 1..Len(opening_nodes) + 1 :
             opening_nodes'[j] = IF j < n THEN opening_nodes[j]
                                 ELSE IF j = n THEN entry ELSE opening_nodes[j - 1]
    <3> HIDE DEF entry
    <3>1. Inserted(opening_nodes, n, entry, InsertAt(opening_nodes, n, entry))
      BY <1>a, <2>2, <2>3, InsertType
    <3> QED  BY <2>1, <3>1 DEF Inserted
  <2>7. /\ step'.key = k
        /\ \A j \in 1..Len(step'.connected) :
             j + 1 \in 1..Len(step.connected) /\ step'.connected[j] = step.connected[j + 1]
    <3>1. step'.key = k /\ step'.connected = Tail(step.connected)
      BY <2>1 DEF LinkInv, TypeInv, Steps
    <3> DEFINE rest == Tail(step.connected)
    <3>2. Len(rest) = Len(step.connected) - 1
          /\ \A j \in 1..Len(rest) : rest[j] = step.connected[j + 1]
      BY <1>b, <2>1
    <3> QED  BY <1>b, <3>1, <3>2
  <2> HIDE DEF entry, k, c
  <2>8. \A j \in 1..Len(opening_nodes) :
          /\ c <= opening_nodes[j].cost /\ opening_nodes[j].cost <= c + 1
          /\ opening_nodes[j].cost \in Nat
          /\ Estimate(opening_nodes[j]) \in Nat
          /\ Estimate(opening_nodes[j]) <= opening_nodes[j].cost + 1
    <3> SUFFICES ASSUME NEW j \in 1..Len(opening_nodes)
                 PROVE  /\ c <= opening_nodes[j].cost /\ opening_nodes[j].cost <= c + 1
                        /\ opening_nodes[j].cost \in Nat
                        /\ Estimate(opening_nodes[j]) \in Nat
                        /\ Estimate(opening_nodes[j]) <= opening_nodes[j].cost + 1
      OBVIOUS
    <3>1. opening_nodes[j].key \in DOMAIN explored_nodes
      BY DEF LinkInv, OpenInv
    <3>2. opening_nodes[j].cost <= c + 1
      BY <2>1, <3>1 DEF CostsKnown, Frontier, c, k
    <3>3. c <= opening_nodes[j].cost
      BY <2>1 DEF Frontier, c, k
    <3> QED  BY <1>a, <3>2, <3>3, EstimateType
  <2>9. /\ Estimate(entry) \in Nat /\ c + 1 <= Estimate(entry)
        /\ entry.cost = c + 1
    BY <2>2, <2>5, EstimateType
  <2>10. \A j \in 1..Len(opening_nodes) : j < n =>
           opening_nodes[j].cost <= c + 1 /\ Estimate(opening_nodes[j]) <= Estimate(entry)
    BY <2>4, <2>8
  <2>11. \A j \in 1..Len(opening_nodes) : ~(j < n) =>
           c + 1 <= opening_nodes[j].cost /\ Estimate(entry) <= Estimate(opening_nodes[j])
    BY <2>2, <2>4, <2>8, <2>9
  <2>12. Sorted'
    <3> SUFFICES ASSUME NEW i \in 1..Len(opening_nodes'), NEW j \in 1..Len(opening_nodes'),
                        i <= j
                 PROVE  /\ opening_nodes'[i].cost <= opening_nodes'[j].cost
                        /\ Estimate(opening_nodes'[i]) <= Estimate(opening_nodes'[j])
      BY DEF Sorted, Estimate
    <3>1. CASE j < n
      <4>1. /\ i \in 1..Len(opening_nodes) /\ j \in 1..Len(opening_nodes) /\ i < n
            /\ opening_nodes'[i] = opening_nodes[i] /\ opening_nodes'[j] = opening_nodes[j]
        BY <1>a, <2>3, <2>6, <3>1
      <4> QED  BY <4>1 DEF Sorted
    <3>2. CASE j = n /\ i < n
      <4>1. /\ i \in 1..Len(opening_nodes)
            /\ opening_nodes'[i] = opening_nodes[i] /\ opening_nodes'[j] = entry
        BY <1>a, <2>3, <2>6, <3>2
      <4> QED  BY <2>9, <2>10, <3>2, <4>1
    <3>3. CASE j = n /\ i = n
      <4>1. opening_nodes'[i] = entry /\ opening_nodes'[j] = entry
        BY <2>6, <3>3
      <4> QED  BY <2>2, <2>9, <4>1
    <3>4. CASE n < j /\ i < n
      <4>1. /\ i \in 1..Len(opening_nodes) /\ j - 1 \in 1..Len(opening_nodes) /\ i <= j - 1
            /\ opening_nodes'[i] = opening_nodes[i] /\ opening_nodes'[j] = opening_nodes[j - 1]
        BY <1>a, <2>3, <2>6, <3>4
      <4> QED  BY <4>1 DEF Sorted
    <3>5. CASE n < j /\ i = n
      <4>1. /\ j - 1 \in 1..Len(opening_nodes) /\ ~(j - 1 < n)
            /\ opening_nodes'[i] = entry /\ opening_nodes'[j] = opening_nodes[j - 1]
        BY <1>a, <2>3, <2>6, <3>5
      <4> QED  BY <2>9, <2>11, <4>1
    <3>6. CASE n < i
      <4>1. /\ i - 1 \in 1..Len(opening_nodes) /\ j - 1 \in 1..Len(opening_nodes)
            /\ i - 1 <= j - 1
            /\ opening_nodes'[i] = opening_nodes[i - 1]
            /\ opening_nodes'[j] = opening_nodes[j - 1]
        BY <1>a, <2>3, <2>6, <3>6
      <4> QED  BY <4>1 DEF Sorted
    <3>7. /\ j < n \/ j = n \/ n < j
          /\ i < n \/ i = n \/ n < i
      BY <1>a, <2>3, <2>6
    <3>8. j = n => ~(n < i)
      BY <1>a, <2>3, <2>6
    <3> QED  BY <3>1, <3>2, <3>3, <3>4, <3>5, <3>6, <3>7, <3>8
  <2>13. \A j \in 1..Len(opening_nodes') :
           \/ opening_nodes'[j] = entry
           \/ \E l \in 1..Len(opening_nodes) : opening_nodes'[j] = opening_nodes[l]
    <3> SUFFICES ASSUME NEW j \in 1..Len(opening_nodes')
                 PROVE  \/ opening_nodes'[j] = entry
                        \/ \E l \in 1..Len(opening_nodes) : opening_nodes'[j] = opening_nodes[l]
      OBVIOUS
    <3>1. CASE j < n
      <4>1. j \in 1..Len(opening_nodes) /\ opening_nodes'[j] = opening_nodes[j]
        BY <1>a, <2>3, <2>6, <3>1
      <4> QED  BY <4>1
    <3>2. CASE j = n
      BY <2>6, <3>2
    <3>3. CASE n < j
      <4>1. j - 1 \in 1..Len(opening_nodes) /\ opening_nodes'[j] = opening_nodes[j - 1]
        BY <1>a, <2>3, <2>6, <3>3
      <4> QED  BY <4>1
    <3> QED  BY <1>a, <2>3, <2>6, <3>1, <3>2, <3>3
  <2>14. CostsKnown'
    BY <2>1, <2>5, <2>7, <2>13 DEF CostsKnown
  <2>15. Frontier'
    <3>1. \A x \in DOMAIN explored_nodes : explored_nodes[x].cost <= c + 1
      BY <2>1 DEF Frontier, c, k
    <3>2. \A j \in 1..Len(opening_nodes') : c <= opening_nodes'[j].cost
      BY <2>2, <2>8, <2>9, <2>13
    <3>3. \A j \in 1..Len(step'.connected) : step'.connected[j].cost = c + 1
      BY <2>1, <2>7 DEF Frontier, c, k
    <3> QED  BY <2>1, <2>7, <3>1, <3>2, <3>3 DEF Frontier, c
  <2> QED  BY <2>12, <2>14, <2>15
<1>4. ASSUME NEW p \in Pin, NextPin(p) PROVE OrderInv'
  <2>1. /\ UNCHANGED <<stage, opening_nodes, explored_nodes>>
        /\ step' = [step EXCEPT !.pins = @ \ {p}, !.procedures = Partners(step.key, p)]
    BY <1>4 DEF NextPin, search
  <2>2. step'.key = step.key /\ step'.connected = step.connected
    BY <2>1 DEF LinkInv, TypeInv, Steps
  <2> QED  BY <2>1, <2>2 DEF Sorted, CostsKnown, Frontier, Estimate
<1>5. ASSUME NEW p \in Pin, PinWithoutPartner(p) PROVE OrderInv'
  <2>1. /\ UNCHANGED <<opening_nodes, explored_nodes>>
        /\ stage = "connect" /\ stage' = "open"
        /\ step' = [step EXCEPT !.pins = {}, !.connected = <<>>]
    BY <1>5 DEF PinWithoutPartner, search
  <2>2. step'.key = step.key /\ step'.connected = <<>>
    BY <2>1 DEF LinkInv, TypeInv, Steps
  <2> QED  BY <2>1, <2>2 DEF Sorted, CostsKnown, Frontier, Estimate
<1>6. CASE AllTried
  <2>1. /\ UNCHANGED <<step, opening_nodes, explored_nodes>>
        /\ stage = "connect" /\ stage' = "open"
    BY <1>6 DEF AllTried, search
  <2> QED  BY <2>1 DEF Sorted, CostsKnown, Frontier, Estimate
<1>7. CASE StepEnds
  <2>1. /\ UNCHANGED <<step, opening_nodes, explored_nodes>>
        /\ stage = "open" /\ stage' \in {"trace", "explore"}
    BY <1>7 DEF StepEnds, Explored, search
  <2>2. Sorted' /\ CostsKnown'
    BY <2>1 DEF Sorted, CostsKnown, Estimate
  <2>3. Frontier'
    <3> SUFFICES ASSUME stage' = "explore", opening_nodes # <<>>,
                        NEW k \in DOMAIN explored_nodes
                 PROVE  explored_nodes[k].cost <= opening_nodes[1].cost + 1
      BY <2>1 DEF Frontier
    <3>1. 1 \in 1..Len(opening_nodes)  BY <1>a
    <3>2. /\ explored_nodes[k].cost <= explored_nodes[step.key].cost + 1
          /\ explored_nodes[step.key].cost <= opening_nodes[1].cost
      BY <2>1, <3>1 DEF Frontier
    <3>3. /\ explored_nodes[k].cost \in Nat /\ explored_nodes[step.key].cost \in Nat
          /\ opening_nodes[1].cost \in Nat
      BY <1>a, <1>c, <2>1, <3>1 DEF LinkInv, OpenInv, Entries
    <3> QED  BY <3>2, <3>3
  <2> QED  BY <2>2, <2>3
<1>8. CASE \/ ExplorerFails \/ TraceBack \/ CreateProcedure \/ CreateFails \/ AllCreated
           \/ SerializeNext \/ SerializeCrashes \/ SerializeEnds
  <2>1. /\ UNCHANGED <<step, opening_nodes, explored_nodes>>
        /\ stage' \notin {"explore", "connect", "open"}
    BY <1>8 DEF ExplorerFails, TraceBack, CreateProcedure, CreateFails, AllCreated,
                SerializeNext, SerializeCrashes, SerializeEnds, search
  <2> QED  BY <2>1 DEF Sorted, CostsKnown, Frontier, Estimate
<1>9. CASE UNCHANGED vars
  <2>1. UNCHANGED <<step, stage, opening_nodes, explored_nodes>>
    BY <1>9 DEF vars, search
  <2> QED  BY <2>1 DEF Sorted, CostsKnown, Frontier, Estimate
<1> QED
  BY <1>1, <1>2, <1>3, <1>4, <1>5, <1>6, <1>7, <1>8, <1>9 DEF Next

(***************************************************************************)
(* The search never replaces a node it has explored, so the tree and the   *)
(* other nodes never point to one that was freed.                          *)
(***************************************************************************)
THEOREM NodesStay == Spec => ExploredNodesStay
<1> DEFINE Stay == \A k \in DOMAIN explored_nodes :
                     k \in DOMAIN explored_nodes' /\ explored_nodes'[k] = explored_nodes[k]
<1>1. ASSUME LinkInv, OrderInv, [Next]_vars PROVE Stay
  <2>1. CASE \E i \in DOMAIN registry : TryProcedure(i)
    BY <1>1, <2>1, NeverCheaper
  <2>2. CASE ~\E i \in DOMAIN registry : TryProcedure(i)
    <3>1. explored_nodes' = explored_nodes
      BY <1>1, <2>2
      DEF Next, ExplorerStep, AllTried, OpenNode, NextPin, PinWithoutPartner, StepEnds,
          ExplorerFails, TraceBack, CreateProcedure, CreateFails, AllCreated,
          SerializeNext, SerializeCrashes, SerializeEnds, search, vars
    <3> QED  BY <3>1
  <2> QED  BY <2>1, <2>2
<1>2. Spec => [](LinkInv /\ OrderInv)
  BY LinkInit, LinkNext, OrderInit, OrderNext, PTL DEF Spec
<1>3. LinkInv /\ OrderInv /\ [Next]_vars => [Stay]_vars
  BY <1>1
<1> QED  BY <1>2, <1>3, PTL DEF Spec, ExploredNodesStay

-----------------------------------------------------------------------------
(***************************************************************************)
(* The search explores what a linking needs.  A node is open, or was left  *)
(* for good: then everything one more procedure makes of it is explored,   *)
(* unless one of its pins has no partner and no linking goes that way.     *)
(***************************************************************************)
Dead(k) ==
  \E p \in Pin :
    \/ p \in k.unlinked_input /\ \A i \in DOMAIN registry : p \notin registry[i].output
    \/ p \in k.unlinked_output /\ \A i \in DOMAIN registry : p \notin registry[i].input

Reached(k, i) ==
  /\ NewNode(k, registry[i]) \in DOMAIN explored_nodes
  /\ explored_nodes[NewNode(k, registry[i])].cost <= explored_nodes[k].cost + 1

Expanded(k) == \/ Dead(k)
               \/ \A p \in PinsToLink(k) : \A i \in Partners(k, p) : Reached(k, i)

InTree(k) == \E j \in 1..Len(opening_nodes) : opening_nodes[j].key = k
InStep(k) == \/ stage = "connect" /\ step.key = k
             \/ /\ stage \in {"connect", "open"}
                /\ \E j \in 1..Len(step.connected) : step.connected[j].key = k

Connecting ==
  /\ step.pins \subseteq PinsToLink(step.key)
  /\ \A p \in PinsToLink(step.key) \ step.pins :
       \A i \in Partners(step.key, p) \ step.procedures : Reached(step.key, i)
  /\ \A j \in 1..Len(step.connected) :
       \E i \in DOMAIN registry : step.connected[j].key = NewNode(step.key, registry[i])

SourceKey == Key({}, Source.output)
SourceInv == /\ Len(created) = 1
             /\ SourceKey \in DOMAIN explored_nodes /\ explored_nodes[SourceKey].cost = 0

SearchInv ==
  /\ stage \in {"explore", "connect", "open", "trace", "not_found"} => SourceInv
  /\ \A k \in DOMAIN explored_nodes : InTree(k) \/ InStep(k) \/ Expanded(k)
  /\ stage = "connect" => Connecting
  /\ stage = "explore" => Target \notin DOMAIN explored_nodes \/ opening_nodes # <<>>
  /\ stage = "not_found" => opening_nodes = <<>> /\ Target \notin DOMAIN explored_nodes
  /\ stage = "trace" =>
       /\ Target \in DOMAIN explored_nodes
       /\ \A j \in 1..Len(opening_nodes) :
            explored_nodes[Target].cost <= opening_nodes[j].cost + 1

LEMMA SearchInit == Init => SearchInv
<1> SUFFICES ASSUME Init PROVE SearchInv  OBVIOUS
<1>1. PICK out \in SourceOutputs :
        /\ created = <<[input |-> {}, output |-> out]>>
        /\ explored_nodes = [k \in {Key({}, out)} |->
                             [new_procedure |-> None, previous_node |-> k, cost |-> 0]]
        /\ opening_nodes = <<[key |-> Key({}, out), cost |-> 0]>>
  BY DEF Init, FirstNode, FirstEntry
<1>2. stage = "explore"  BY DEF Init
<1>3. SourceKey = Key({}, out) /\ Len(created) = 1
  BY <1>1 DEF SourceKey, Source
<1>4. SourceInv
  BY <1>1, <1>3 DEF SourceInv
<1>5. \A k \in DOMAIN explored_nodes : InTree(k)
  BY <1>1 DEF InTree
<1>6. opening_nodes # <<>>  BY <1>1
<1> QED  BY <1>2, <1>4, <1>5, <1>6 DEF SearchInv

\* What a step that keeps the explored nodes keeps of the invariant.
Stays == /\ registry' = registry
         /\ \A k \in DOMAIN explored_nodes :
              k \in DOMAIN explored_nodes' /\ explored_nodes'[k] = explored_nodes[k]

LEMMA ReachedStays ==
  ASSUME Stays, NEW k \in DOMAIN explored_nodes, NEW i, Reached(k, i)
  PROVE  Reached(k, i)'
BY DEF Stays, Reached, NewNode, Key

LEMMA ExpandedStays ==
  ASSUME Stays, NEW k \in DOMAIN explored_nodes, Expanded(k)
  PROVE  Expanded(k)'
<1>1. CASE Dead(k)
  BY <1>1 DEF Stays, Dead, Expanded
<1>2. CASE \A p \in PinsToLink(k) : \A i \in Partners(k, p) : Reached(k, i)
  <2>1. ASSUME NEW p \in PinsToLink(k), NEW i \in Partners(k, p)' PROVE Reached(k, i)'
    <3>1. i \in Partners(k, p)
      BY DEF Stays, Partners
    <3> QED  BY <1>2, <3>1, ReachedStays
  <2> QED  BY <2>1 DEF Expanded
<1> QED  BY <1>1, <1>2 DEF Expanded

LEMMA SourceStays ==
  ASSUME Stays, created' = created, SourceInv PROVE SourceInv'
BY DEF Stays, SourceInv, SourceKey, Source

\* A pin that nothing links stays with every node behind.
LEMMA DeadStays ==
  ASSUME NEW k, Dead(k), NEW i \in DOMAIN registry
  PROVE  Dead(NewNode(k, registry[i]))
<1>1. PICK p \in Pin :
        \/ p \in k.unlinked_input /\ \A j \in DOMAIN registry : p \notin registry[j].output
        \/ p \in k.unlinked_output /\ \A j \in DOMAIN registry : p \notin registry[j].input
  BY DEF Dead
<1>2. \/ p \in NewNode(k, registry[i]).unlinked_input
         /\ \A j \in DOMAIN registry : p \notin registry[j].output
      \/ p \in NewNode(k, registry[i]).unlinked_output
         /\ \A j \in DOMAIN registry : p \notin registry[j].input
  BY <1>1 DEF NewNode, Key
<1> QED  BY <1>2 DEF Dead

\* The node that is tried next leaves the tree and is looked at.
LEMMA StepStartsSearch == ASSUME LinkInv, SearchInv, ExplorerStep PROVE SearchInv'
<1> DEFINE k == opening_nodes[1].key
<1>1. /\ opening_nodes \in Seq(Entries) /\ opening_nodes # <<>>
      /\ Len(opening_nodes) \in Nat \ {0} /\ Head(opening_nodes) = opening_nodes[1]
  BY DEF ExplorerStep, LinkInv, TypeInv
<1>2. /\ stage = "explore" /\ stage' = "connect"
      /\ step' = [key |-> k, pins |-> PinsToLink(k), procedures |-> {}, connected |-> <<>>]
      /\ opening_nodes' = Tail(opening_nodes)
      /\ UNCHANGED <<registry, explored_nodes, created>>
  BY <1>1 DEF ExplorerStep, built
<1>3. step'.key = k /\ step'.pins = PinsToLink(k) /\ step'.connected = <<>>
  BY <1>2
<1>4. Stays
  BY <1>2 DEF Stays
<1>5. SourceInv'
  BY <1>2, <1>4, SourceStays DEF SearchInv
<1>6. ASSUME NEW x \in DOMAIN explored_nodes PROVE (InTree(x) \/ InStep(x) \/ Expanded(x))'
  <2>1. CASE InTree(x)
    <3>1. PICK j \in 1..Len(opening_nodes) : opening_nodes[j].key = x
      BY <2>1 DEF InTree
    <3>2. CASE j = 1
      BY <1>2, <1>3, <3>1, <3>2 DEF InStep
    <3>3. CASE j # 1
      <4>1. j - 1 \in 1..Len(opening_nodes') /\ opening_nodes'[j - 1] = opening_nodes[j]
        BY <1>1, <1>2, <3>3
      <4> QED  BY <3>1, <4>1 DEF InTree
    <3> QED  BY <3>2, <3>3
  <2>2. CASE Expanded(x)
    BY <1>4, <2>2, ExpandedStays
  <2> QED  BY <1>2, <2>1, <2>2 DEF SearchInv, InStep
<1>7. Connecting'
  <2>1. PinsToLink(step'.key) \ step'.pins = {}
    BY <1>3
  <2>2. 1..Len(step'.connected) = {}
    BY <1>3
  <2>3. step'.pins \subseteq PinsToLink(step'.key)
    BY <1>3
  <2> QED  BY <2>1, <2>2, <2>3 DEF Connecting
<1> QED  BY <1>2, <1>5, <1>6, <1>7 DEF SearchInv

\* A pin is taken up.
LEMMA PinKeepsSearch ==
  ASSUME LinkInv, SearchInv, NEW p \in Pin, NextPin(p) PROVE SearchInv'
<1>1. /\ stage = "connect" /\ step.procedures = {} /\ p \in step.pins
      /\ step' = [step EXCEPT !.pins = @ \ {p}, !.procedures = Partners(step.key, p)]
      /\ UNCHANGED <<registry, stage, explored_nodes, opening_nodes, created>>
  BY DEF NextPin, search, built
<1>2. /\ step'.key = step.key /\ step'.connected = step.connected
      /\ step'.pins = step.pins \ {p} /\ step'.procedures = Partners(step.key, p)
  BY <1>1 DEF LinkInv, TypeInv, Steps
<1>3. Stays
  BY <1>1 DEF Stays
<1>4. SourceInv'
  BY <1>1, <1>3, SourceStays DEF SearchInv
<1>5. ASSUME NEW x \in DOMAIN explored_nodes PROVE (InTree(x) \/ InStep(x) \/ Expanded(x))'
  <2>1. InTree(x) => InTree(x)'
    BY <1>1 DEF InTree
  <2>2. InStep(x) => InStep(x)'
    BY <1>1, <1>2 DEF InStep
  <2>3. Expanded(x) => Expanded(x)'
    BY <1>3, ExpandedStays
  <2> QED  BY <2>1, <2>2, <2>3 DEF SearchInv
<1>6. Connecting'
  <2>1. Connecting
    BY <1>1 DEF SearchInv
  <2>2. step.key \in DOMAIN explored_nodes
    BY <1>1 DEF LinkInv, OpenInv
  <2>3. ASSUME NEW q \in PinsToLink(step'.key) \ step'.pins,
               NEW i \in (Partners(step.key, q) \ step.procedures)'
        PROVE  Reached(step.key, i)'
    <3>1. i \in Partners(step.key, q) /\ i \notin Partners(step.key, p)
      BY <1>1, <1>2 DEF Partners
    <3>2. q \in PinsToLink(step.key) \ step.pins
      BY <1>2, <3>1
    <3>3. Reached(step.key, i)
      BY <1>1, <2>1, <3>1, <3>2 DEF Connecting
    <3> QED  BY <1>1, <1>2, <3>3 DEF Reached
  <2>4. \A j \in 1..Len(step'.connected) :
          \E i \in DOMAIN registry' : step'.connected[j].key = NewNode(step'.key, registry'[i])
    BY <1>1, <1>2, <2>1 DEF Connecting
  <2>5. step'.pins \subseteq PinsToLink(step'.key)
    BY <1>2, <2>1 DEF Connecting
  <2> QED  BY <2>3, <2>4, <2>5 DEF Connecting
<1> QED  BY <1>1, <1>4, <1>5, <1>6 DEF SearchInv

\* A pin without a partner: the node is dead, and so is what came of it.
LEMMA DeadEndKeepsSearch ==
  ASSUME LinkInv, SearchInv, NEW p \in Pin, PinWithoutPartner(p) PROVE SearchInv'
<1>1. /\ stage = "connect" /\ p \in step.pins /\ Partners(step.key, p) = {}
      /\ stage' = "open" /\ step' = [step EXCEPT !.pins = {}, !.connected = <<>>]
      /\ UNCHANGED <<registry, explored_nodes, opening_nodes, created>>
  BY DEF PinWithoutPartner, search, built
<1>2. Stays /\ Connecting
  BY <1>1 DEF Stays, SearchInv
<1>3. SourceInv'
  BY <1>1, <1>2, SourceStays DEF SearchInv
<1>4. Dead(step.key)
  <2>1. p \in PinsToLink(step.key)
    BY <1>1, <1>2 DEF Connecting
  <2> QED  BY <1>1, <2>1 DEF Dead, PinsToLink, Partners
<1>5. ASSUME NEW x \in DOMAIN explored_nodes PROVE (InTree(x) \/ Expanded(x))'
  <2>1. InTree(x) => InTree(x)'
    BY <1>1 DEF InTree
  <2>2. Expanded(x) => Expanded(x)'
    BY <1>2, ExpandedStays
  <2>3. InStep(x) => Dead(x)
    BY <1>1, <1>2, <1>4, DeadStays DEF InStep, Connecting
  <2> QED  BY <2>1, <2>2, <2>3 DEF SearchInv, Expanded
<1> QED  BY <1>1, <1>3, <1>5 DEF SearchInv

\* All partners of all pins: the node can be left.
LEMMA TriedKeepsSearch == ASSUME LinkInv, SearchInv, AllTried PROVE SearchInv'
<1>1. /\ stage = "connect" /\ step.pins = {} /\ step.procedures = {} /\ stage' = "open"
      /\ UNCHANGED <<registry, explored_nodes, opening_nodes, created, step>>
  BY DEF AllTried, search, built
<1>2. Stays /\ Connecting
  BY <1>1 DEF Stays, SearchInv
<1>3. SourceInv'
  BY <1>1, <1>2, SourceStays DEF SearchInv
<1>4. Expanded(step.key)
  BY <1>1, <1>2 DEF Expanded, Connecting
<1>5. ASSUME NEW x \in DOMAIN explored_nodes PROVE (InTree(x) \/ InStep(x) \/ Expanded(x))'
  <2>1. InTree(x) => InTree(x)'
    BY <1>1 DEF InTree
  <2>2. Expanded(x) => Expanded(x)'
    BY <1>2, ExpandedStays
  <2>3. InStep(x) => x = step.key \/ InStep(x)'
    BY <1>1 DEF InStep
  <2> QED  BY <1>4, <2>1, <2>2, <2>3 DEF SearchInv
<1> QED  BY <1>1, <1>3, <1>5 DEF SearchInv

\* A procedure for the pin: its node is explored, now or before.
LEMMA ProcedureKeepsSearch ==
  ASSUME LinkInv, OrderInv, SearchInv, NEW i \in DOMAIN registry, TryProcedure(i)
  PROVE  SearchInv'
<1> DEFINE k    == step.key
           new  == NewNode(k, registry[i])
           cost == explored_nodes[k].cost + 1
           node == [new_procedure |-> i, previous_node |-> k, cost |-> cost]
           last == [key |-> new, cost |-> cost]
<1>1. /\ stage = "connect"
      /\ UNCHANGED <<registry, stage, opening_nodes, created>>
      /\ \/ /\ new \in DOMAIN explored_nodes /\ explored_nodes[new].cost <= cost
            /\ step' = [step EXCEPT !.procedures = @ \ {i}]
            /\ UNCHANGED explored_nodes
         \/ /\ explored_nodes' = [x \in DOMAIN explored_nodes \cup {new} |->
                                   IF x = new THEN node ELSE explored_nodes[x]]
            /\ step' = [step EXCEPT !.procedures = @ \ {i}, !.connected = Append(@, last)]
  BY DEF TryProcedure, Explored, built
<1>2. Stays /\ Connecting /\ k \in DOMAIN explored_nodes /\ cost \in Nat
  <2>1. k \in DOMAIN explored_nodes
    BY <1>1 DEF LinkInv, OpenInv
  <2>2. cost \in Nat
    BY <2>1 DEF LinkInv, TypeInv, Nodes
  <2>3. Stays
    BY <1>1, NeverCheaper DEF Stays
  <2>4. Connecting
    BY <1>1 DEF SearchInv
  <2> QED  BY <2>1, <2>2, <2>3, <2>4
<1>3. SourceInv'
  BY <1>1, <1>2, SourceStays DEF SearchInv
<1>4. /\ step'.key = k /\ step'.pins = step.pins /\ step'.procedures = step.procedures \ {i}
      /\ step'.connected \in {step.connected, Append(step.connected, last)}
      /\ step.connected \in Seq(Entries)
  BY <1>1 DEF LinkInv, TypeInv, Steps
<1>5. \A j \in 1..Len(step.connected) :
        j \in 1..Len(step'.connected) /\ step'.connected[j] = step.connected[j]
  <2> HIDE DEF last
  <2> QED  BY <1>4
<1>6. Reached(k, i)'
  <2>1. explored_nodes'[k].cost + 1 = cost /\ NewNode(k, registry'[i]) = new
    BY <1>1, <1>2 DEF Stays
  <2>2. new \in DOMAIN explored_nodes' /\ explored_nodes'[new].cost <= cost
    <3> node.cost = cost  OBVIOUS
    <3> HIDE DEF new, node, cost
    <3>1. CASE new \in DOMAIN explored_nodes /\ explored_nodes[new].cost <= cost
      BY <1>2, <3>1 DEF Stays
    <3>2. CASE explored_nodes' = [x \in DOMAIN explored_nodes \cup {new} |->
                                   IF x = new THEN node ELSE explored_nodes[x]]
      BY <1>2, <3>2
    <3> QED  BY <1>1, <3>1, <3>2
  <2> HIDE DEF new, cost
  <2>3. Reached(step.key, i)' <=> /\ NewNode(step'.key, registry'[i]) \in DOMAIN explored_nodes'
                                  /\ explored_nodes'[NewNode(step'.key, registry'[i])].cost
                                       <= explored_nodes'[step'.key].cost + 1
    BY DEF Reached
  <2> QED  BY <1>4, <2>1, <2>2, <2>3
<1>7. ASSUME NEW x \in DOMAIN explored_nodes' PROVE (InTree(x) \/ InStep(x) \/ Expanded(x))'
  <2>1. CASE x \in DOMAIN explored_nodes
    <3>1. InTree(x) => InTree(x)'
      BY <1>1 DEF InTree
    <3>2. InStep(x) => InStep(x)'
      BY <1>1, <1>4, <1>5 DEF InStep
    <3>3. Expanded(x) => Expanded(x)'
      BY <1>2, <2>1, ExpandedStays
    <3> QED  BY <2>1, <3>1, <3>2, <3>3 DEF SearchInv
  <2>2. CASE x \notin DOMAIN explored_nodes
    <3>1. x = new /\ step'.connected = Append(step.connected, last)
      <4> HIDE DEF new, node, last, cost
      <4>1. /\ explored_nodes' = [y \in DOMAIN explored_nodes \cup {new} |->
                                   IF y = new THEN node ELSE explored_nodes[y]]
            /\ step' = [step EXCEPT !.procedures = @ \ {i}, !.connected = Append(@, last)]
        BY <1>1, <2>2
      <4>2. step'.connected = Append(step.connected, last)
        BY <4>1 DEF LinkInv, TypeInv, Steps
      <4> QED  BY <2>2, <4>1, <4>2
    <3>2. last.key = new  OBVIOUS
    <3> HIDE DEF last, new
    <3>3. Len(step.connected) + 1 \in 1..Len(step'.connected)
          /\ step'.connected[Len(step.connected) + 1] = last
      BY <1>4, <3>1
    <3> QED  BY <1>1, <3>1, <3>2, <3>3 DEF InStep
  <2> QED  BY <2>1, <2>2
<1>8. Connecting'
  <2>1. ASSUME NEW p \in PinsToLink(k) \ step.pins,
               NEW j \in Partners(k, p), j \notin step.procedures \/ j = i
        PROVE  Reached(k, j)'
    <3>1. CASE j = i
      BY <1>6, <3>1
    <3>2. CASE j \notin step.procedures
      <4>1. Reached(step.key, j)
        BY <1>2, <2>1, <3>2 DEF Connecting
      <4> HIDE DEF new, cost, node, last
      <4> QED  BY <1>1, <1>2, <1>4, <4>1 DEF Reached, Stays
    <3> QED  BY <2>1, <3>1, <3>2
  <2>2. \A p : Partners(k, p)' = Partners(k, p)
    BY <1>1, <1>4 DEF Partners
  <2>3. ASSUME NEW j \in 1..Len(step'.connected)
        PROVE  \E l \in DOMAIN registry' : step'.connected[j].key = NewNode(step'.key, registry'[l])
    <3>1. CASE j \in 1..Len(step.connected)
      BY <1>1, <1>2, <1>4, <1>5, <3>1 DEF Connecting
    <3>2. CASE j \notin 1..Len(step.connected)
      <4> last.key = new  OBVIOUS
      <4> HIDE DEF last
      <4>1. step'.connected[j] = last
        BY <1>4, <3>2
      <4> QED  BY <1>1, <1>4, <4>1
    <3> QED  BY <3>1, <3>2
  <2>4. step'.pins \subseteq PinsToLink(step'.key)
    BY <1>2, <1>4 DEF Connecting
  <2> HIDE DEF new, cost, node, last
  <2> QED  BY <1>4, <2>1, <2>2, <2>3, <2>4 DEF Connecting
<1> QED  BY <1>1, <1>3, <1>7, <1>8 DEF SearchInv

\* A new node is put into the tree.
LEMMA OpeningKeepsSearch == ASSUME LinkInv, SearchInv, OpenNode PROVE SearchInv'
<1> DEFINE entry == Head(step.connected)
           n     == Position(entry)
<1>1. /\ stage = "open" /\ stage' = "open" /\ step.connected # <<>>
      /\ opening_nodes' = InsertAt(opening_nodes, n, entry)
      /\ step' = [step EXCEPT !.connected = Tail(@)]
      /\ UNCHANGED <<registry, explored_nodes, created>>
  BY DEF OpenNode, built
<1>2. /\ opening_nodes \in Seq(Entries) /\ step.connected \in Seq(Entries)
      /\ entry = step.connected[1] /\ entry \in Entries
      /\ step'.key = step.key /\ step'.connected = Tail(step.connected)
  BY <1>1 DEF LinkInv, TypeInv, Steps
<1>3. n \in 1..Len(opening_nodes) + 1
  BY <1>2, PositionType
<1> HIDE DEF n, entry
<1>4. /\ Len(opening_nodes') = Len(opening_nodes) + 1
      /\ \A j \in 1..Len(opening_nodes) + 1 :
           opening_nodes'[j] = IF j < n THEN opening_nodes[j]
                               ELSE IF j = n THEN entry ELSE opening_nodes[j - 1]
  <2>1. opening_nodes \in Seq(Entries) /\ entry \in Entries
    BY <1>2
  <2>2. Inserted(opening_nodes, n, entry, InsertAt(opening_nodes, n, entry))
    BY <1>3, <2>1, InsertType
  <2>3. Inserted(opening_nodes, n, entry, opening_nodes')
    BY <1>1, <2>2
  <2> QED  BY <2>3 DEF Inserted
<1>5. Stays
  BY <1>1 DEF Stays
<1>6. SourceInv'
  BY <1>1, <1>5, SourceStays DEF SearchInv
<1>7. ASSUME NEW x \in DOMAIN explored_nodes PROVE (InTree(x) \/ InStep(x) \/ Expanded(x))'
  <2>1. ASSUME InTree(x) PROVE InTree(x)'
    <3>1. PICK j \in 1..Len(opening_nodes) : opening_nodes[j].key = x
      BY <2>1 DEF InTree
    <3>2. \E l \in 1..Len(opening_nodes') : opening_nodes'[l] = opening_nodes[j]
      <4>1. CASE j < n
        BY <1>2, <1>4, <4>1
      <4>2. CASE ~(j < n)
        <5>1. j + 1 \in 1..Len(opening_nodes) + 1 /\ ~(j + 1 < n) /\ j + 1 # n /\ (j + 1) - 1 = j
          BY <1>2, <1>3, <4>2
        <5> QED  BY <1>4, <5>1
      <4> QED  BY <4>1, <4>2
    <3> QED  BY <3>1, <3>2 DEF InTree
  <2>2. ASSUME InStep(x) PROVE (InTree(x) \/ InStep(x))'
    <3>1. PICK j \in 1..Len(step.connected) : step.connected[j].key = x
      BY <1>1, <2>2 DEF InStep
    <3>2. CASE j = 1
      <4>1. n \in 1..Len(opening_nodes') /\ opening_nodes'[n] = entry
        BY <1>2, <1>3, <1>4
      <4> QED  BY <1>2, <3>1, <3>2, <4>1 DEF InTree
    <3>3. CASE j # 1
      <4>1. j - 1 \in 1..Len(step'.connected) /\ step'.connected[j - 1] = step.connected[j]
        BY <1>1, <1>2, <3>3
      <4> QED  BY <1>1, <3>1, <4>1 DEF InStep
    <3> QED  BY <3>2, <3>3
  <2>3. Expanded(x) => Expanded(x)'
    BY <1>5, ExpandedStays
  <2> QED  BY <2>1, <2>2, <2>3 DEF SearchInv
<1> QED  BY <1>1, <1>6, <1>7 DEF SearchInv

\* A step that changes neither the nodes nor the tree, nor looks at a node.
LEMMA RestKeepsSearch ==
  ASSUME SearchInv, UNCHANGED <<registry, explored_nodes, opening_nodes>>,
         stage \notin {"connect"}, stage' \notin {"connect", "open"},
         stage = "open" => step.connected = <<>>
  PROVE  \A k \in DOMAIN explored_nodes' : (InTree(k) \/ InStep(k) \/ Expanded(k))'
<1>1. Stays  BY DEF Stays
<1>2. ASSUME NEW x \in DOMAIN explored_nodes PROVE InTree(x)' \/ Expanded(x)'
  <2>1. InTree(x) => InTree(x)'
    BY DEF InTree
  <2>2. ~InStep(x)
    BY DEF InStep
  <2>3. Expanded(x) => Expanded(x)'
    BY <1>1, ExpandedStays
  <2> QED  BY <2>1, <2>2, <2>3 DEF SearchInv
<1> QED  BY <1>2

\* What is found when the target was explored is not longer than a way through
\* what is still open.
LEMMA EndKeepsSearch == ASSUME LinkInv, OrderInv, SearchInv, StepEnds PROVE SearchInv'
<1>1. /\ stage = "open" /\ step.connected = <<>>
      /\ stage' = IF Target \in DOMAIN explored_nodes THEN "trace" ELSE "explore"
      /\ UNCHANGED <<registry, explored_nodes, opening_nodes, created>>
  BY DEF StepEnds, Explored, search, built
<1>2. \A k \in DOMAIN explored_nodes' : (InTree(k) \/ InStep(k) \/ Expanded(k))'
  BY <1>1, RestKeepsSearch
<1>3. SourceInv'
  BY <1>1, SourceStays DEF SearchInv, Stays
<1>4. ASSUME Target \in DOMAIN explored_nodes, NEW j \in 1..Len(opening_nodes)
      PROVE  explored_nodes[Target].cost <= opening_nodes[j].cost + 1
  <2>1. /\ explored_nodes[Target].cost <= explored_nodes[step.key].cost + 1
        /\ explored_nodes[step.key].cost <= opening_nodes[j].cost
    BY <1>1, <1>4 DEF OrderInv, Frontier
  <2>2. step.key \in DOMAIN explored_nodes
    BY <1>1 DEF LinkInv, OpenInv
  <2>3. explored_nodes[Target].cost \in Nat /\ explored_nodes[step.key].cost \in Nat
    BY <1>4, <2>2 DEF LinkInv, TypeInv, Nodes
  <2>4. opening_nodes[j] \in Entries
    BY <1>4 DEF LinkInv, TypeInv
  <2>5. opening_nodes[j].cost \in Nat
    BY <2>4 DEF Entries
  <2> QED  BY <2>1, <2>3, <2>5
<1>5. Target' = Target
  BY DEF Key
<1> QED  BY <1>1, <1>2, <1>3, <1>4, <1>5 DEF SearchInv

LEMMA SearchNext == LinkInv /\ OrderInv /\ SearchInv /\ [Next]_vars => SearchInv'
<1> SUFFICES ASSUME LinkInv, OrderInv, SearchInv, [Next]_vars PROVE SearchInv'  OBVIOUS
<1>1. CASE ExplorerFails
  <2>1. /\ stage = "explore" /\ opening_nodes = <<>> /\ stage' = "not_found"
        /\ UNCHANGED <<registry, explored_nodes, opening_nodes, created>>
    BY <1>1 DEF ExplorerFails, search, built
  <2>2. \A k \in DOMAIN explored_nodes' : (InTree(k) \/ InStep(k) \/ Expanded(k))'
    BY <2>1, RestKeepsSearch
  <2>3. SourceInv'
    BY <2>1, SourceStays DEF SearchInv, Stays
  <2> QED  BY <2>1, <2>2, <2>3 DEF SearchInv
<1>2. CASE TraceBack
  <2>1. /\ stage = "trace" /\ stage' \in {"trace", "build"}
        /\ UNCHANGED <<registry, explored_nodes, opening_nodes, created>>
    BY <1>2 DEF TraceBack, search, built
  <2>2. \A k \in DOMAIN explored_nodes' : (InTree(k) \/ InStep(k) \/ Expanded(k))'
    BY <2>1, RestKeepsSearch
  <2>3. SourceInv'
    BY <2>1, SourceStays DEF SearchInv, Stays
  <2> QED  BY <2>1, <2>2, <2>3 DEF SearchInv
<1>3. CASE \/ CreateProcedure \/ CreateFails \/ AllCreated
           \/ SerializeNext \/ SerializeCrashes \/ SerializeEnds
  <2>1. /\ stage \in {"build", "serialize"}
        /\ stage' \in {"build", "failed", "serialize", "crashed", "built"}
        /\ UNCHANGED <<registry, explored_nodes, opening_nodes>>
    BY <1>3 DEF CreateProcedure, CreateFails, AllCreated, SerializeNext, SerializeCrashes,
                SerializeEnds, search
  <2>2. \A k \in DOMAIN explored_nodes' : (InTree(k) \/ InStep(k) \/ Expanded(k))'
    BY <2>1, RestKeepsSearch
  <2> QED  BY <2>1, <2>2 DEF SearchInv
<1>4. CASE UNCHANGED vars
  <2>1. UNCHANGED <<registry, stage, explored_nodes, opening_nodes, step, created>>
    BY <1>4 DEF vars, search, built
  <2>2. Stays  BY <2>1 DEF Stays
  <2>3. SourceInv => SourceInv'
    BY <2>1, <2>2, SourceStays
  <2>4. Connecting => Connecting'
    BY <2>1 DEF Connecting, Partners, Reached
  <2>5. Target' = Target
    BY DEF Key
  <2>6. ASSUME NEW x \in DOMAIN explored_nodes' PROVE (InTree(x) \/ InStep(x) \/ Expanded(x))'
    <3>1. x \in DOMAIN explored_nodes
      BY <2>1
    <3>2. InTree(x) \/ InStep(x) \/ Expanded(x)
      BY <3>1 DEF SearchInv
    <3>3. (InTree(x) => InTree(x)') /\ (InStep(x) => InStep(x)') /\ (Expanded(x) => Expanded(x)')
      BY <2>1, <2>2, <3>1, ExpandedStays DEF InTree, InStep
    <3> QED  BY <3>2, <3>3
  <2>7. (stage \in {"explore", "connect", "open", "trace", "not_found"} => SourceInv)'
    BY <2>1, <2>3 DEF SearchInv
  <2>8. (stage = "connect" => Connecting)'
    BY <2>1, <2>4 DEF SearchInv
  <2>9. (stage = "explore" => Target \notin DOMAIN explored_nodes \/ opening_nodes # <<>>)'
    BY <2>1, <2>5 DEF SearchInv
  <2>10. (stage = "not_found" => opening_nodes = <<>> /\ Target \notin DOMAIN explored_nodes)'
    BY <2>1, <2>5 DEF SearchInv
  <2>11. (stage = "trace" =>
            /\ Target \in DOMAIN explored_nodes
            /\ \A j \in 1..Len(opening_nodes) :
                 explored_nodes[Target].cost <= opening_nodes[j].cost + 1)'
    BY <2>1, <2>5 DEF SearchInv
  <2> QED  BY <2>6, <2>7, <2>8, <2>9, <2>10, <2>11 DEF SearchInv
<1> QED
  BY <1>1, <1>2, <1>3, <1>4, StepStartsSearch, TriedKeepsSearch, OpeningKeepsSearch,
     EndKeepsSearch, ProcedureKeepsSearch, PinKeepsSearch, DeadEndKeepsSearch DEF Next

\* The least number of a set.
LEMMA LessIsWellFounded ==
  \E R : IsWellFoundedOn(R, Nat) /\ \A x, y \in Nat : y < x => <<y, x>> \in R
<1> DEFINE R == OpToRel(<, Nat)
<1>1. IsWellFoundedOn(R, Nat)  BY NatLessThanWellFounded
<1>2. \A x, y \in Nat : y < x => <<y, x>> \in R  BY DEF OpToRel
<1> HIDE DEF R
<1> QED  BY <1>1, <1>2

LEMMA LeastOf ==
  ASSUME NEW T \in SUBSET Nat, T # {} PROVE \E n \in T : \A m \in T : n <= m
<1>1. PICK R : IsWellFoundedOn(R, Nat) /\ \A x, y \in Nat : y < x => <<y, x>> \in R
  BY LessIsWellFounded
<1>2. PICK n \in T : \A m \in T : ~(<<m, n>> \in R)
  BY <1>1, WFMin
<1>3. ASSUME NEW m \in T PROVE n <= m
  <2>1. n \in Nat /\ m \in Nat /\ ~(m < n)  BY <1>1, <1>2
  <2> QED  BY <2>1
<1> QED  BY <1>3

-----------------------------------------------------------------------------
(* What the procedures of S make and use, with the source; the node of S.  *)
Made(S)  == {p \in Pin : p \in Source.output \/ \E i \in S : p \in registry[i].output}
Used(S)  == {p \in Pin : \E i \in S : p \in registry[i].input}
KeyOf(S) == Key(Used(S) \ Made(S), Made(S) \ Used(S))

\* What Links means of single procedures.
OneEach(L) ==
  /\ \A p \in Pin : \A i, j \in L :
       \/ p \in registry[i].input /\ p \in registry[j].input
       \/ p \in registry[i].output /\ p \in registry[j].output
       => i = j
  /\ \A i \in L : registry[i].output \cap Source.output = {}
  /\ Made(L) = Used(L)

LEMMA AtMostOne ==
  ASSUME NEW T, IsFiniteSet(T), Cardinality(T) <= 1, NEW x \in T, NEW y \in T
  PROVE  x = y
<1>1. Cardinality(T) \in Nat /\ T # {}
  BY FS_CardinalityType
<1>2. Cardinality(T) = 1
  BY <1>1, FS_EmptySet
<1>3. \E z : T = {z}
  BY <1>2, FS_Singleton
<1> QED  BY <1>3

LEMMA LinkingsLink ==
  ASSUME TypeInv, NEW L \in Linkings
  PROVE  IsFiniteSet(L) /\ OneEach(L)
<1> DEFINE sources(p) == {i \in L : p \in registry[i].output}
           targets(p) == {i \in L : p \in registry[i].input}
<1>1. L \in SUBSET (1..Len(registry)) /\ Len(registry) \in Nat /\ Links(L)
  BY DEF TypeInv, Linkings
<1>2. IsFiniteSet(L)
  <2>1. IsFiniteSet(1..Len(registry))
    BY <1>1, FS_Interval
  <2> QED  BY <1>1, <2>1, FS_Subset
<1>3. \A p : IsFiniteSet(sources(p)) /\ IsFiniteSet(targets(p))
  BY <1>2, FS_Subset
<1>4. \A p \in Pin : /\ Cardinality(targets(p)) <= 1
                     /\ Cardinality(sources(p)) + (IF p \in Source.output THEN 1 ELSE 0)
                          = Cardinality(targets(p))
  BY <1>1 DEF Links
<1>5. \A p : Cardinality(sources(p)) \in Nat /\ Cardinality(targets(p)) \in Nat
  BY <1>3, FS_CardinalityType
<1>6. \A p : /\ Cardinality(sources(p)) = 0 <=> sources(p) = {}
             /\ Cardinality(targets(p)) = 0 <=> targets(p) = {}
  BY <1>3, FS_EmptySet
<1>7. \A p \in Pin : Cardinality(sources(p)) <= 1
  <2> HIDE DEF targets, sources
  <2> QED  BY <1>4, <1>5
<1>8. \A i \in L : registry[i].input \subseteq Pin /\ registry[i].output \subseteq Pin
  BY <1>1, BuilderAssumption DEF TypeInv
<1>9. ASSUME NEW p \in Pin, NEW i \in L, NEW j \in L,
             \/ p \in registry[i].input /\ p \in registry[j].input
             \/ p \in registry[i].output /\ p \in registry[j].output
      PROVE  i = j
  <2>1. CASE p \in registry[i].input /\ p \in registry[j].input
    <3>1. i \in targets(p) /\ j \in targets(p)
      BY <2>1
    <3> HIDE DEF targets, sources
    <3> QED  BY <1>3, <1>4, <3>1, AtMostOne
  <2>2. CASE p \in registry[i].output /\ p \in registry[j].output
    <3>1. i \in sources(p) /\ j \in sources(p)
      BY <2>2
    <3> HIDE DEF targets, sources
    <3> QED  BY <1>3, <1>7, <3>1, AtMostOne
  <2> QED  BY <1>9, <2>1, <2>2
<1>10. ASSUME NEW i \in L, NEW p \in registry[i].output, p \in Source.output PROVE FALSE
  <2>1. p \in Pin /\ sources(p) # {}
    BY <1>8, <1>10
  <2> HIDE DEF targets, sources
  <2>2. Cardinality(sources(p)) # 0
    BY <1>6, <2>1
  <2>3. Cardinality(sources(p)) + 1 <= 1
    BY <1>4, <1>10, <2>1
  <2> QED  BY <1>5, <2>2, <2>3
<1>11. ASSUME NEW p \in Pin PROVE p \in Made(L) <=> p \in Used(L)
  <2>1. p \in Used(L) <=> targets(p) # {}
    BY DEF Used
  <2>2. p \in Made(L) <=> p \in Source.output \/ sources(p) # {}
    BY DEF Made
  <2> HIDE DEF targets, sources
  <2>3. Cardinality(targets(p)) # 0 <=> p \in Source.output \/ Cardinality(sources(p)) # 0
    BY <1>4, <1>5
  <2> QED  BY <1>6, <2>1, <2>2, <2>3
<1>12. Made(L) = Used(L)
  BY <1>11 DEF Made, Used
<1> QED
  <2> HIDE DEF targets, sources
  <2> QED  BY <1>2, <1>9, <1>10, <1>12 DEF OneEach

LEMMA NodeOfOneMore ==
  ASSUME TypeInv, NEW L \in SUBSET DOMAIN registry, OneEach(L),
         NEW S \in SUBSET L, NEW i \in L \ S
  PROVE  NewNode(KeyOf(S), registry[i]) = KeyOf(S \cup {i})
<1> DEFINE d == registry[i]
<1>1. /\ d.input \subseteq Pin /\ d.output \subseteq Pin /\ d.input \cap d.output = {}
  BY BuilderAssumption DEF TypeInv
<1>2. d.input \cap Used(S) = {}
  BY <1>1 DEF Used, OneEach
<1>3. d.output \cap Made(S) = {}
  BY <1>1 DEF Made, OneEach
<1>4. Used(S \cup {i}) = Used(S) \cup d.input /\ Made(S \cup {i}) = Made(S) \cup d.output
  BY <1>1 DEF Used, Made
<1> HIDE DEF d
<1>5. (Used(S) \cup d.input) \ (Made(S) \cup d.output)
        = ((Used(S) \ Made(S)) \ d.output) \cup (d.input \ (Made(S) \ Used(S)))
  BY <1>1, <1>2
<1>6. (Made(S) \cup d.output) \ (Used(S) \cup d.input)
        = ((Made(S) \ Used(S)) \ d.input) \cup (d.output \ (Used(S) \ Made(S)))
  BY <1>1, <1>3
<1>7. /\ KeyOf(S).unlinked_input = Used(S) \ Made(S)
      /\ KeyOf(S).unlinked_output = Made(S) \ Used(S)
  BY DEF KeyOf, Key
<1> QED  BY <1>4, <1>5, <1>6, <1>7 DEF NewNode, KeyOf, d

LEMMA MoreToLink ==
  ASSUME TypeInv, NEW L \in SUBSET DOMAIN registry, OneEach(L), NEW S \in SUBSET L
  PROVE  /\ ~Dead(KeyOf(S))
         /\ \A p \in PinsToLink(KeyOf(S)) : \E i \in L \ S : i \in Partners(KeyOf(S), p)
<1> DEFINE k == KeyOf(S)
<1>1. k.unlinked_input = Used(S) \ Made(S) /\ k.unlinked_output = Made(S) \ Used(S)
  BY DEF KeyOf, Key
<1>2. Used(S) \subseteq Used(L) /\ Made(S) \subseteq Made(L) /\ Made(L) = Used(L)
  BY DEF Used, Made, OneEach
<1>3. \A p \in k.unlinked_input : \E i \in L \ S : p \in registry[i].output
  BY <1>1, <1>2 DEF Made
<1>4. \A p \in k.unlinked_output : \E i \in L \ S : p \in registry[i].input
  BY <1>1, <1>2 DEF Used
<1> HIDE DEF k
<1>5. ~Dead(k)
  BY <1>3, <1>4 DEF Dead
<1>6. ASSUME NEW p \in PinsToLink(k) PROVE \E i \in L \ S : i \in Partners(k, p)
  BY <1>3, <1>4 DEF PinsToLink, Partners
<1> QED  BY <1>5, <1>6 DEF k

(***************************************************************************)
(* Between two steps of the explorer: part of any linking leads to a node  *)
(* that was reached at no higher cost and is the target or still open.     *)
(***************************************************************************)
LEMMA WayStaysOpen ==
  ASSUME LinkInv, SearchInv, NEW L \in Linkings, stage \in {"trace", "not_found"}
  PROVE  \E S \in SUBSET L :
           /\ KeyOf(S) \in DOMAIN explored_nodes
           /\ explored_nodes[KeyOf(S)].cost <= Cardinality(S)
           /\ KeyOf(S) = Target \/ InTree(KeyOf(S))
<1> DEFINE OnWay(S) == /\ KeyOf(S) \in DOMAIN explored_nodes
                       /\ explored_nodes[KeyOf(S)].cost <= Cardinality(S)
           Left == {n \in Nat : \E S \in SUBSET L : /\ n = Cardinality(L) - Cardinality(S)
                                                    /\ OnWay(S)}
<1>1. TypeInv /\ L \in SUBSET DOMAIN registry /\ IsFiniteSet(L) /\ OneEach(L)
  BY LinkingsLink DEF LinkInv, Linkings
<1>2. \A S \in SUBSET L : /\ IsFiniteSet(S) /\ Cardinality(S) \in Nat
                          /\ Cardinality(S) <= Cardinality(L)
                          /\ \A i \in L \ S : Cardinality(S \cup {i}) = Cardinality(S) + 1
  BY <1>1, FS_Subset, FS_CardinalityType, FS_AddElement
<1>3. SourceInv
  BY DEF SearchInv
<1>4. KeyOf({}) = SourceKey
  <2>1. SourceKey \in Keys
    BY <1>1, <1>3 DEF SourceInv, TypeInv
  <2>2. SourceKey.unlinked_output = Source.output
    BY DEF SourceKey, Key
  <2>3. Source.output \subseteq Pin
    BY <2>1, <2>2 DEF Keys
  <2>4. Made({}) = Source.output /\ Used({}) = {}
    BY <2>3 DEF Made, Used
  <2> QED  BY <2>4 DEF KeyOf, SourceKey
<1>5. OnWay({})
  BY <1>3, <1>4, FS_EmptySet DEF SourceInv
<1>6. Left # {}
  <2>1. {} \in SUBSET L /\ Cardinality(L) - Cardinality({}) \in Nat
    BY <1>2
  <2> HIDE DEF OnWay
  <2> QED  BY <1>5, <2>1
<1>7. PICK n \in Left : \A m \in Left : n <= m
  <2> HIDE DEF OnWay
  <2>1. Left \in SUBSET Nat  OBVIOUS
  <2> HIDE DEF Left
  <2> QED  BY <1>6, <2>1, LeastOf
<1>8. PICK S \in SUBSET L : n = Cardinality(L) - Cardinality(S) /\ OnWay(S)
  <2> HIDE DEF OnWay
  <2> QED  BY <1>7
<1>9. ASSUME KeyOf(S) # Target, ~InTree(KeyOf(S)) PROVE FALSE
  <2>1. Expanded(KeyOf(S))
    BY <1>8, <1>9 DEF SearchInv, InStep
  <2>2. PinsToLink(KeyOf(S)) # {}
    BY <1>9 DEF PinsToLink, Target, KeyOf, Key
  <2>3. PICK p \in PinsToLink(KeyOf(S)) : TRUE
    BY <2>2
  <2>4. PICK i \in L \ S : i \in Partners(KeyOf(S), p)
    BY <1>1, <2>3, MoreToLink
  <2>5. Reached(KeyOf(S), i)
    BY <1>1, <2>1, <2>3, <2>4, MoreToLink DEF Expanded
  <2>6. /\ KeyOf(S \cup {i}) \in DOMAIN explored_nodes
        /\ explored_nodes[KeyOf(S \cup {i})].cost <= explored_nodes[KeyOf(S)].cost + 1
    BY <1>1, <2>4, <2>5, NodeOfOneMore DEF Reached
  <2>7. explored_nodes[KeyOf(S \cup {i})].cost \in Nat /\ explored_nodes[KeyOf(S)].cost \in Nat
    BY <1>1, <1>8, <2>6 DEF TypeInv, Nodes
  <2>8. S \cup {i} \in SUBSET L /\ Cardinality(S \cup {i}) = Cardinality(S) + 1
    BY <1>2, <2>4
  <2>9. OnWay(S \cup {i})
    BY <1>2, <1>8, <2>6, <2>7, <2>8
  <2> HIDE DEF OnWay
  <2>10. n - 1 = Cardinality(L) - Cardinality(S \cup {i}) /\ n - 1 \in Nat
    BY <1>2, <1>8, <2>8
  <2>11. n - 1 \in Left
    BY <2>8, <2>9, <2>10
  <2>12. n \in Nat
    BY <1>7
  <2> HIDE DEF Left
  <2> QED  BY <1>7, <2>10, <2>11, <2>12
<1> QED  BY <1>8, <1>9

\* Then what the search finds is as FindsLinking says.
LEMMA SearchFinds == LinkInv /\ OrderInv /\ SearchInv => FindsLinking
<1> SUFFICES ASSUME LinkInv, OrderInv, SearchInv PROVE FindsLinking  OBVIOUS
<1>1. ASSUME stage = "not_found" PROVE Linkings = {}
  <2> SUFFICES ASSUME NEW L \in Linkings PROVE FALSE  OBVIOUS
  <2>1. opening_nodes = <<>> /\ Target \notin DOMAIN explored_nodes
    BY <1>1 DEF SearchInv
  <2>2. \A k : ~InTree(k)
    BY <2>1 DEF InTree
  <2> QED  BY <1>1, <2>1, <2>2, WayStaysOpen
<1>2. ASSUME stage = "trace", NEW L \in Linkings
      PROVE  explored_nodes[Target].cost <= Cardinality(L)
  <2>1. PICK S \in SUBSET L :
          /\ KeyOf(S) \in DOMAIN explored_nodes
          /\ explored_nodes[KeyOf(S)].cost <= Cardinality(S)
          /\ KeyOf(S) = Target \/ InTree(KeyOf(S))
    BY <1>2, WayStaysOpen
  <2>2. IsFiniteSet(L) /\ OneEach(L)
    BY LinkingsLink DEF LinkInv
  <2>3. /\ Cardinality(S) \in Nat /\ Cardinality(L) \in Nat
        /\ Cardinality(S) <= Cardinality(L)
        /\ Cardinality(S) = Cardinality(L) => S = L
    BY <2>2, FS_Subset, FS_CardinalityType
  <2>4. /\ Target \in DOMAIN explored_nodes
        /\ \A j \in 1..Len(opening_nodes) :
             explored_nodes[Target].cost <= opening_nodes[j].cost + 1
    BY <1>2 DEF SearchInv
  <2>5. explored_nodes[Target].cost \in Nat /\ explored_nodes[KeyOf(S)].cost \in Nat
    BY <2>1, <2>4 DEF LinkInv, TypeInv, Nodes
  <2>6. CASE KeyOf(S) = Target
    BY <2>1, <2>3, <2>5, <2>6
  <2>7. CASE KeyOf(S) # Target
    <3>1. PICK j \in 1..Len(opening_nodes) : opening_nodes[j].key = KeyOf(S)
      BY <2>1, <2>7 DEF InTree
    <3>2. opening_nodes[j].cost = explored_nodes[KeyOf(S)].cost
      BY <3>1 DEF OrderInv, CostsKnown
    <3>3. KeyOf(L) = Target
      BY <2>2 DEF KeyOf, OneEach, Target
    <3>4. Cardinality(S) + 1 <= Cardinality(L)
      BY <2>3, <2>7, <3>3
    <3> QED  BY <2>1, <2>3, <2>4, <2>5, <3>1, <3>2, <3>4
  <2> QED  BY <2>6, <2>7
<1> QED  BY <1>1, <1>2 DEF FindsLinking

(***************************************************************************)
(* For any catalogue, registry and source: if the procedures can be linked *)
(* at all the search succeeds, and with no more procedures than the        *)
(* fewest, although it stops before the target comes off the tree.         *)
(***************************************************************************)
THEOREM SearchComplete == Spec => []FindsLinking
<1>1. Spec => [](LinkInv /\ OrderInv /\ SearchInv)
  BY LinkInit, LinkNext, OrderInit, OrderNext, SearchInit, SearchNext, PTL DEF Spec
<1> QED  BY <1>1, SearchFinds, PTL

-----------------------------------------------------------------------------
(***************************************************************************)
(* The pipeline that is built.  Followed back from the target, the         *)
(* solution's procedures make and use the same pins; where no pin has two  *)
(* producers or consumers they are a linking, and since the solution is    *)
(* not longer than that, none of them is in it twice.                      *)
(***************************************************************************)
Uses(S)  == {p \in Pin : \E i \in S : p \in registry[i].input}
Makes(S) == {p \in Pin : \E i \in S : p \in registry[i].output}

Balanced(k, S) ==
  k.unlinked_input \cup Uses(S) = k.unlinked_output \cup Makes(S)

ChainInv ==
  /\ \A k \in DOMAIN explored_nodes :
       LET node == explored_nodes[k] IN
       IF node.new_procedure = None THEN node.cost = 0
       ELSE node.cost = explored_nodes[node.previous_node].cost + 1
  /\ stage = "trace" =>
       /\ explored_nodes[trace].cost + Len(todo) = explored_nodes[Target].cost
       /\ Balanced(trace, ToSet(todo))

Procs == [input : SUBSET Pin, output : SUBSET Pin]

CreatedInv ==
  /\ \A i, j \in DOMAIN registry : registry[i] = registry[j] => i = j
  /\ created \in Seq(Procs)
  /\ created # <<>> /\ created[1].input = {}
  /\ \A i \in 2..Len(created) : \E r \in DOMAIN registry : created[i] = registry[r]

(* No pin has two producers or two consumers.                              *)
SinglePins ==
  /\ \A p \in Pin : \A i, j \in DOMAIN registry :
       \/ p \in registry[i].input /\ p \in registry[j].input
       \/ p \in registry[i].output /\ p \in registry[j].output
       => i = j
  /\ \A i \in DOMAIN registry : registry[i].output \cap Source.output = {}

Producer(i, p) == i \in 1..Len(created) /\ p \in created[i].output
Consumer(i, p) == i \in 1..Len(created) /\ p \in created[i].input

OneOfEach ==
  \A p \in Pin : \A i, j \in 1..Len(created) :
    \/ Producer(i, p) /\ Producer(j, p)
    \/ Consumer(i, p) /\ Consumer(j, p)
    => i = j

(* The maps hold what is not connected, and all else is.                   *)
MapsExact ==
  \A p \in Pin :
    /\ unlinked_output[p] # None => Producer(unlinked_output[p], p)
    /\ unlinked_input[p] # None => Consumer(unlinked_input[p], p)
    /\ (\E i \in 1..Len(created) : Consumer(i, p)) => unlinked_output[p] = None
    /\ (\E i \in 1..Len(created) : Producer(i, p)) => unlinked_input[p] = None
    /\ \A i \in 1..Len(created) : Producer(i, p) =>
         unlinked_output[p] = i \/ \E j \in 1..Len(created) : Consumer(j, p)
    /\ \A i \in 1..Len(created) : Consumer(i, p) =>
         unlinked_input[p] = i \/ \E j \in 1..Len(created) : Producer(j, p)

Joined(i, j, p) == [source |-> i, target |-> j, pin |-> p]

ConnectionsExact ==
  /\ connections \subseteq [source : 1..Len(created), target : 1..Len(created), pin : Pin]
  /\ \A i, j \in 1..Len(created), p \in Pin :
       Joined(i, j, p) \in connections <=> Producer(i, p) /\ Consumer(j, p)

JoinInv ==
  SinglePins =>
    /\ OneOfEach /\ MapsExact /\ ConnectionsExact
    /\ stage = "build" =>
         /\ IsInjective(todo)
         /\ \A j \in 1..Len(todo) : \A i \in 2..Len(created) : created[i] # registry[todo[j]]

(* serialize_pipeline: what a visited procedure leads to is listed.        *)
ListInv ==
  SinglePins =>
    /\ procedures \in [visited : Nat, order : Seq(1..Len(created))]
    /\ stage \notin {"serialize", "built"} => procedures = SourceOnly
    /\ procedures.visited <= Len(procedures.order)
    /\ procedures.order # <<>> /\ procedures.order[1] = 1
    /\ IsInjective(procedures.order)
    /\ \A v \in 1..procedures.visited : \A c \in connections :
         c.source = procedures.order[v] => c.target \in ToSet(procedures.order)
    /\ stage = "built" => procedures.visited = Len(procedures.order)
    /\ stage # "crashed"

-----------------------------------------------------------------------------
\* As many elements as places: no element comes twice.
LEMMA InjectiveIfAsLarge ==
  ASSUME NEW S, NEW s \in Seq(S), Len(s) <= Cardinality(ToSet(s))
  PROVE  IsInjective(s)
<1> DEFINE T == ToSet(s)
<1>1. Len(s) \in Nat /\ DOMAIN s = 1..Len(s)  OBVIOUS
<1>2. s \in Surjection(1..Len(s), T)
  <2>1. s \in [1..Len(s) -> T]  BY <1>1 DEF ToSet
  <2>2. \A t \in T : \E j \in 1..Len(s) : s[j] = t  BY <1>1 DEF ToSet
  <2> HIDE DEF T
  <2> QED  BY <2>1, <2>2 DEF Surjection
<1>3. IsFiniteSet(1..Len(s)) /\ Cardinality(1..Len(s)) = Len(s)
  BY <1>1, FS_Interval
<1> HIDE DEF T
<1>4. /\ IsFiniteSet(T) /\ Cardinality(T) <= Cardinality(1..Len(s))
      /\ Cardinality(T) = Cardinality(1..Len(s)) <=> s \in Injection(1..Len(s), T)
  BY <1>2, <1>3, FS_Surjection
<1>5. Cardinality(T) \in Nat  BY <1>4, FS_CardinalityType
<1>6. Len(s) <= Cardinality(T)  BY DEF T
<1> QED  BY <1>1, <1>3, <1>4, <1>5, <1>6 DEF Injection

\* A sequence of SetToSeqs lists the whole set, each element once.
LEMMA ListsAll ==
  ASSUME NEW S, IsFiniteSet(S), NEW s \in SetToSeqs(S)
  PROVE  s \in Seq(S) /\ IsInjective(s) /\ ToSet(s) = S
<1> DEFINE n == Cardinality(S)
<1>1. n \in Nat  BY FS_CardinalityType
<1>2. s \in [1..n -> S] /\ \A i, j \in 1..n : i # j => s[i] # s[j]  BY DEF SetToSeqs
<1>3. IsFiniteSet(1..n) /\ Cardinality(1..n) = n  BY <1>1, NumbersTo
<1> HIDE DEF n
<1>4. s \in Injection(1..n, S)  BY <1>2 DEF Injection, IsInjective
<1>5. s \in Surjection(1..n, S)
  <2>1. Cardinality(1..n) = Cardinality(S) <=> s \in Surjection(1..n, S)
    BY <1>4, FS_Injection
  <2> QED  BY <1>3, <2>1 DEF n
<1>6. s \in Seq(S)  BY <1>1, <1>2
<1>7. ToSet(s) = S  BY <1>2, <1>5 DEF ToSet, Surjection
<1> QED  BY <1>4, <1>6, <1>7 DEF Injection

\* Going back one procedure keeps the balance.
LEMMA StepBack ==
  ASSUME TypeInv, NEW k \in Keys, NEW i \in DOMAIN registry, NEW S \in SUBSET DOMAIN registry,
         Balanced(NewNode(k, registry[i]), S)
  PROVE  Balanced(k, {i} \cup S)
<1> DEFINE d   == registry[i]
           new == NewNode(k, d)
<1>1. d.input \subseteq Pin /\ d.output \subseteq Pin
  BY BuilderAssumption DEF TypeInv
<1>2. /\ Uses({i} \cup S) = Uses(S) \cup d.input
      /\ Makes({i} \cup S) = Makes(S) \cup d.output
  BY <1>1 DEF Uses, Makes
<1>3. /\ new.unlinked_input
           = (k.unlinked_input \ d.output) \cup (d.input \ k.unlinked_output)
      /\ new.unlinked_output
           = (k.unlinked_output \ d.input) \cup (d.output \ k.unlinked_input)
  BY DEF NewNode, Key
<1>4. new.unlinked_input \cup Uses(S) = new.unlinked_output \cup Makes(S)
  BY DEF Balanced
<1> HIDE DEF d, new
<1>5. k.unlinked_input \cup (Uses(S) \cup d.input)
        = k.unlinked_output \cup (Makes(S) \cup d.output)
  BY <1>3, <1>4
<1> QED  BY <1>2, <1>5 DEF Balanced, d

LEMMA ChainInit == Init => ChainInv
<1> SUFFICES ASSUME Init PROVE ChainInv  OBVIOUS
<1>1. PICK out \in SourceOutputs :
        explored_nodes = [k \in {Key({}, out)} |->
                             [new_procedure |-> None, previous_node |-> Key({}, out), cost |-> 0]]
  BY DEF Init, FirstNode
<1> QED  BY <1>1 DEF Init, ChainInv

LEMMA ChainKept ==
  ASSUME ChainInv, UNCHANGED <<registry, explored_nodes>>,
         stage' = "trace" => stage = "trace" /\ UNCHANGED <<trace, todo>>
  PROVE  ChainInv'
<1>1. Target' = Target  BY DEF Key
<1>2. stage' = "trace" => (Balanced(trace, ToSet(todo)) <=> Balanced(trace, ToSet(todo))')
  BY DEF Balanced, Uses, Makes, ToSet
<1> QED  BY <1>1, <1>2 DEF ChainInv

LEMMA ChainNext == LinkInv /\ OrderInv /\ ChainInv /\ [Next]_vars => ChainInv'
<1> SUFFICES ASSUME LinkInv, OrderInv, ChainInv, [Next]_vars PROVE ChainInv'  OBVIOUS
<1>1. ASSUME NEW i \in DOMAIN registry, TryProcedure(i) PROVE ChainInv'
  <2> DEFINE k    == step.key
             new  == NewNode(k, registry[i])
             cost == explored_nodes[k].cost + 1
             node == [new_procedure |-> i, previous_node |-> k, cost |-> cost]
  <2>1. stage = "connect" /\ stage' = "connect" /\ registry' = registry
    BY <1>1 DEF TryProcedure
  <2>2. \A x \in DOMAIN explored_nodes :
          x \in DOMAIN explored_nodes' /\ explored_nodes'[x] = explored_nodes[x]
    BY <1>1, NeverCheaper
  <2>3. k \in DOMAIN explored_nodes
    BY <2>1 DEF LinkInv, OpenInv
  <2>4. i # None
    BY DEF LinkInv, TypeInv, None
  <2>5. \A x \in DOMAIN explored_nodes' : x \in DOMAIN explored_nodes \/ explored_nodes'[x] = node
    <3>1. CASE UNCHANGED explored_nodes
      BY <3>1
    <3>2. CASE explored_nodes' = [x \in DOMAIN explored_nodes \cup {new} |->
                                    IF x = new THEN node ELSE explored_nodes[x]]
      <4> HIDE DEF new, node
      <4> QED  BY <3>2
    <3> QED  BY <1>1, <3>1, <3>2 DEF TryProcedure
  <2>6. ASSUME NEW x \in DOMAIN explored_nodes'
        PROVE  IF explored_nodes'[x].new_procedure = None THEN explored_nodes'[x].cost = 0
               ELSE explored_nodes'[x].cost
                      = explored_nodes'[explored_nodes'[x].previous_node].cost + 1
    <3>1. CASE x \in DOMAIN explored_nodes
      <4>1. explored_nodes[x].previous_node \in DOMAIN explored_nodes
        BY <3>1 DEF LinkInv, NodeInv
      <4> QED  BY <2>2, <3>1, <4>1 DEF ChainInv
    <3>2. CASE explored_nodes'[x] = node
      BY <2>2, <2>3, <2>4, <3>2
    <3> QED  BY <2>5, <3>1, <3>2
  <2> QED  BY <2>1, <2>6 DEF ChainInv
<1>2. CASE StepEnds
  <2>1. /\ stage = "open" /\ UNCHANGED <<registry, explored_nodes, todo, trace>>
        /\ stage' = "trace" => Target \in DOMAIN explored_nodes
    BY <1>2 DEF StepEnds, Explored, search
  <2>2. todo = <<>> /\ trace = Target
    BY <2>1 DEF LinkInv, TraceInv
  <2>3. stage' = "trace" => explored_nodes[Target].cost \in Nat
    BY <2>1 DEF LinkInv, TypeInv, Nodes
  <2>4. Balanced(trace, ToSet(todo))'
    <3>1. ToSet(todo') = {}
      <4>1. todo' = <<>> /\ DOMAIN (<<>>) = {}
        BY <2>1, <2>2
      <4> QED  BY <4>1 DEF ToSet
    <3>2. trace' = Key({}, {})
      BY <2>1, <2>2 DEF Target
    <3> QED  BY <3>1, <3>2 DEF Balanced, Uses, Makes, Key
  <2>5. stage' = "trace" =>
          (explored_nodes[trace].cost + Len(todo) = explored_nodes[Target].cost)'
    BY <2>1, <2>2, <2>3 DEF Key
  <2> QED  BY <2>1, <2>4, <2>5 DEF ChainInv
<1>3. CASE TraceBack
  <2> DEFINE node == explored_nodes[trace]
  <2>1. CASE node.new_procedure = None
    <3>1. stage' = "build" /\ UNCHANGED <<registry, explored_nodes>>
      BY <1>3, <2>1 DEF TraceBack, search
    <3> QED  BY <3>1, ChainKept
  <2>2. CASE node.new_procedure # None
    <3> DEFINE i == node.new_procedure
               k == node.previous_node
    <3>1. /\ stage = "trace" /\ UNCHANGED <<registry, explored_nodes>>
          /\ todo' = <<i>> \o todo /\ trace' = k
      BY <1>3, <2>2 DEF TraceBack, search
    <3>2. trace \in DOMAIN explored_nodes
      BY <3>1 DEF LinkInv, TraceInv
    <3>3. k \in DOMAIN explored_nodes /\ i \in DOMAIN registry /\ trace = NewNode(k, registry[i])
      BY <2>2, <3>2 DEF LinkInv, NodeInv
    <3>4. node.cost = explored_nodes[k].cost + 1
      BY <2>2, <3>2 DEF ChainInv
    <3>5. explored_nodes[k].cost \in Nat /\ k \in Keys
      BY <3>3 DEF LinkInv, TypeInv, Nodes
    <3>6. todo \in Seq(DOMAIN registry)
      BY DEF LinkInv, TypeInv
    <3>7. ToSet(todo) \in SUBSET DOMAIN registry
      BY <3>6 DEF ToSet
    <3>8. Balanced(trace, ToSet(todo)) /\ node.cost + Len(todo) = explored_nodes[Target].cost
      BY <3>1 DEF ChainInv
    <3> HIDE DEF i, k, node
    <3>9. Balanced(k, {i} \cup ToSet(todo))
      BY <3>3, <3>5, <3>7, <3>8, StepBack DEF LinkInv
    <3>10. Len(todo') = Len(todo) + 1 /\ Len(todo) \in Nat /\ ToSet(todo') = {i} \cup ToSet(todo)
      <4>1. \A j \in 1..Len(todo) + 1 : todo'[j] = IF j = 1 THEN i ELSE todo[j - 1]
        BY <3>1, <3>3, <3>6
      <4>2. Len(todo') = Len(todo) + 1 /\ Len(todo) \in Nat /\ DOMAIN todo' = 1..Len(todo) + 1
        BY <3>1, <3>3, <3>6
      <4>3. \A x : x \in ToSet(todo') <=> x = i \/ x \in ToSet(todo)
        <5>1. \A j \in 1..Len(todo) : j + 1 \in 1..Len(todo) + 1 /\ todo'[j + 1] = todo[j]
          BY <4>1, <4>2
        <5>2. todo'[1] = i /\ 1 \in 1..Len(todo) + 1
          BY <4>1, <4>2
        <5>3. DOMAIN todo = 1..Len(todo)
          BY <3>6
        <5>4. \A j \in 1..Len(todo) + 1 : j = 1 \/ j - 1 \in 1..Len(todo)
          BY <4>2
        <5>5. DOMAIN todo' = 1..Len(todo) + 1
          BY <4>2
        <5>6. ASSUME NEW x, x \in ToSet(todo') PROVE x = i \/ x \in ToSet(todo)
          <6>1. PICK j \in 1..Len(todo) + 1 : x = todo'[j]
            BY <5>5, <5>6, Zenon DEF ToSet
          <6>2. CASE j = 1
            BY <5>2, <6>1, <6>2, Zenon
          <6>3. CASE j # 1
            <7>1. j - 1 \in 1..Len(todo)
              BY <5>4, <6>3, Zenon
            <7>2. x = todo[j - 1]
              BY <4>1, <6>1, <6>3, Zenon
            <7> QED  BY <5>3, <7>1, <7>2, Zenon DEF ToSet
          <6> QED  BY <6>2, <6>3
        <5>7. i \in ToSet(todo')
          BY <5>2, <5>5, Zenon DEF ToSet
        <5>8. ASSUME NEW x, x \in ToSet(todo) PROVE x \in ToSet(todo')
          <6>1. PICK j \in 1..Len(todo) : x = todo[j]
            BY <5>3, <5>8, Zenon DEF ToSet
          <6> QED  BY <5>1, <5>5, <6>1, Zenon DEF ToSet
        <5> QED  BY <5>6, <5>7, <5>8, Zenon
      <4> QED  BY <4>2, <4>3
    <3>11. Balanced(trace, ToSet(todo))'
      BY <3>1, <3>9, <3>10 DEF Balanced, Uses, Makes
    <3>12. (explored_nodes[trace].cost + Len(todo) = explored_nodes[Target].cost)'
      <4>1. Target' = Target  BY DEF Key
      <4>2. explored_nodes[k].cost + (Len(todo) + 1) = explored_nodes[Target].cost
        BY <3>4, <3>5, <3>8, <3>10
      <4> QED  BY <3>1, <3>10, <4>1, <4>2
    <3> QED  BY <3>1, <3>11, <3>12 DEF ChainInv
  <2> QED  BY <2>1, <2>2
<1>4. CASE \/ ExplorerStep \/ AllTried \/ OpenNode \/ ExplorerFails
           \/ \E p \in Pin : NextPin(p) \/ PinWithoutPartner(p)
           \/ CreateProcedure \/ CreateFails \/ AllCreated
           \/ SerializeNext \/ SerializeCrashes \/ SerializeEnds
  <2>1. UNCHANGED <<registry, explored_nodes>> /\ stage' # "trace"
    BY <1>4
    DEF ExplorerStep, AllTried, OpenNode, NextPin, PinWithoutPartner, ExplorerFails,
        CreateProcedure, CreateFails, AllCreated, SerializeNext, SerializeCrashes,
        SerializeEnds, search
  <2> QED  BY <2>1, ChainKept
<1>5. CASE UNCHANGED vars
  <2>1. UNCHANGED <<registry, stage, explored_nodes, trace, todo>>
    BY <1>5 DEF vars, search
  <2> QED  BY <2>1, ChainKept
<1> QED  BY <1>1, <1>2, <1>3, <1>4, <1>5 DEF Next

-----------------------------------------------------------------------------
LEMMA CreatedInit == Init => CreatedInv
<1> SUFFICES ASSUME Init PROVE CreatedInv  OBVIOUS
<1>1. PICK out \in SourceOutputs : created = <<[input |-> {}, output |-> out]>>
  BY DEF Init
<1>2. [input |-> {}, output |-> out] \in Procs
  BY BuilderAssumption DEF Procs
<1>3. \A i, j \in DOMAIN registry : registry[i] = registry[j] => i = j
  BY DEF Init, IsInjective
<1> QED  BY <1>1, <1>2, <1>3 DEF CreatedInv

\* The procedure that CreateProcedure adds.
LEMMA OneMoreCreated ==
  ASSUME LinkInv, CreatedInv, CreateProcedure
  PROVE  /\ Head(todo) \in DOMAIN registry /\ Head(todo) = todo[1] /\ 1 \in 1..Len(todo)
         /\ Len(created) \in Nat \ {0} /\ Len(created') = Len(created) + 1
         /\ \A i \in 1..Len(created) : created'[i] = created[i]
         /\ created'[Len(created) + 1] = registry[Head(todo)]
         /\ created' \in Seq(Procs) /\ registry' = registry
<1>1. todo # <<>> /\ created' = Append(created, registry[Head(todo)]) /\ registry' = registry
  BY DEF CreateProcedure
<1>2. todo \in Seq(DOMAIN registry) /\ created \in Seq(Procs) /\ created # <<>>
  BY DEF LinkInv, TypeInv, CreatedInv
<1>3. Head(todo) \in DOMAIN registry /\ Head(todo) = todo[1] /\ 1 \in 1..Len(todo)
  BY <1>1, <1>2
<1>4. registry[Head(todo)] \in Procs
  BY <1>3, BuilderAssumption DEF LinkInv, TypeInv, Procs
<1>5. Len(created) \in Nat \ {0}
  BY <1>2
<1> QED  BY <1>1, <1>2, <1>3, <1>4, <1>5

LEMMA CreatedNext == LinkInv /\ CreatedInv /\ [Next]_vars => CreatedInv'
<1> SUFFICES ASSUME LinkInv, CreatedInv, [Next]_vars PROVE CreatedInv'  OBVIOUS
<1>1. CASE CreateProcedure
  <2>1. /\ Head(todo) \in DOMAIN registry
        /\ Len(created) \in Nat \ {0} /\ Len(created') = Len(created) + 1
        /\ \A i \in 1..Len(created) : created'[i] = created[i]
        /\ created'[Len(created) + 1] = registry[Head(todo)]
        /\ created' \in Seq(Procs) /\ registry' = registry
    BY <1>1, OneMoreCreated
  <2>2. \A i \in 2..Len(created') : \E r \in DOMAIN registry : created'[i] = registry[r]
    <3> SUFFICES ASSUME NEW i \in 2..Len(created')
                 PROVE  \E r \in DOMAIN registry : created'[i] = registry[r]
      OBVIOUS
    <3>1. CASE i = Len(created) + 1
      BY <2>1, <3>1
    <3>2. CASE i # Len(created) + 1
      <4>1. i \in 2..Len(created) /\ i \in 1..Len(created)
        BY <2>1, <3>2
      <4> QED  BY <2>1, <4>1 DEF CreatedInv
    <3> QED  BY <3>1, <3>2
  <2>3. created'[1] = created[1] /\ created' # <<>>
    BY <2>1
  <2> QED  BY <2>1, <2>2, <2>3 DEF CreatedInv
<1>2. CASE ~CreateProcedure
  <2>1. UNCHANGED <<registry, created>>
    BY <1>2
    DEF Next, ExplorerStep, AllTried, OpenNode, TryProcedure, NextPin, PinWithoutPartner,
        StepEnds, ExplorerFails, TraceBack, CreateFails, AllCreated, SerializeNext,
        SerializeCrashes, SerializeEnds, built, vars
  <2> QED  BY <2>1 DEF CreatedInv
<1> QED  BY <1>1, <1>2

\* OneToOne, of single procedures.
LEMMA OneToOneMeansSingle ==
  ASSUME LinkInv, CreatedInv, OneToOne
  PROVE  SinglePins
<1> DEFINE R == DOMAIN registry
           sources(p) == {i \in R : p \in registry[i].output}
           targets(p) == {i \in R : p \in registry[i].input}
<1>1. IsFiniteSet(R)
  <2>1. registry \in Seq(Catalogue)
    BY DEF LinkInv, TypeInv
  <2>2. R = 1..Len(registry) /\ Len(registry) \in Nat
    BY <2>1
  <2> QED  BY <2>2, FS_Interval
<1>2. \A p : IsFiniteSet(sources(p)) /\ IsFiniteSet(targets(p))
  BY <1>1, FS_Subset
<1>3. \A p \in Pin : /\ Cardinality(targets(p)) <= 1
                     /\ Cardinality(sources(p)) + (IF p \in Source.output THEN 1 ELSE 0) <= 1
  BY DEF OneToOne
<1>4. \A p : Cardinality(sources(p)) \in Nat /\ Cardinality(targets(p)) \in Nat
  BY <1>2, FS_CardinalityType
<1>5. \A i \in R : registry[i].output \subseteq Pin
  BY BuilderAssumption DEF LinkInv, TypeInv
<1>6. \A p \in Pin : Cardinality(sources(p)) <= 1
  <2> HIDE DEF sources, targets
  <2> QED  BY <1>3, <1>4
<1>7. ASSUME NEW p \in Pin, NEW i \in R, NEW j \in R,
             \/ p \in registry[i].input /\ p \in registry[j].input
             \/ p \in registry[i].output /\ p \in registry[j].output
      PROVE  i = j
  <2>1. CASE i \in targets(p) /\ j \in targets(p)
    <3> HIDE DEF targets, sources
    <3> QED  BY <1>2, <1>3, <2>1, AtMostOne
  <2>2. CASE i \in sources(p) /\ j \in sources(p)
    <3> HIDE DEF targets, sources
    <3> QED  BY <1>2, <1>6, <2>2, AtMostOne
  <2> QED  BY <1>7, <2>1, <2>2
<1>8. ASSUME NEW i \in R, NEW p \in registry[i].output, p \in Source.output PROVE FALSE
  <2>1. p \in Pin /\ sources(p) # {}
    BY <1>5, <1>8
  <2> HIDE DEF targets, sources
  <2>2. Cardinality(sources(p)) # 0
    BY <1>2, <2>1, FS_EmptySet
  <2>3. Cardinality(sources(p)) + 1 <= 1
    BY <1>3, <1>8, <2>1
  <2> QED  BY <1>4, <2>2, <2>3
<1> QED
  <2> HIDE DEF sources, targets
  <2> QED  BY <1>7, <1>8 DEF SinglePins

\* With single pins, procedures that make and use the same pins are a linking.
LEMMA BalancedIsLinking ==
  ASSUME LinkInv, SinglePins, NEW S \in SUBSET DOMAIN registry,
         Uses(S) = (Source.output \cap Pin) \cup Makes(S)
  PROVE  S \in Linkings
<1> SUFFICES ASSUME NEW p \in Pin
             PROVE  /\ Cardinality({i \in S : p \in registry[i].input}) <= 1
                    /\ Cardinality({i \in S : p \in registry[i].output})
                         + (IF p \in Source.output THEN 1 ELSE 0)
                         = Cardinality({i \in S : p \in registry[i].input})
  BY DEF Linkings, Links
<1> DEFINE sources == {i \in S : p \in registry[i].output}
           targets == {i \in S : p \in registry[i].input}
<1>1. targets = {} \/ \E x : targets = {x}
  <2>1. \A x, y \in targets : x = y  BY DEF SinglePins
  <2> HIDE DEF targets
  <2> SUFFICES ASSUME NEW x \in targets PROVE targets = {x}  OBVIOUS
  <2> QED  BY <2>1
<1>2. sources = {} \/ \E x : sources = {x}
  <2>1. \A x, y \in sources : x = y  BY DEF SinglePins
  <2> HIDE DEF sources
  <2> SUFFICES ASSUME NEW x \in sources PROVE sources = {x}  OBVIOUS
  <2> QED  BY <2>1
<1>3. p \in Source.output => sources = {}
  BY DEF SinglePins
<1>4. targets # {} <=> p \in Source.output \/ sources # {}
  BY DEF Uses, Makes
<1> HIDE DEF sources, targets
<1>5. Cardinality(targets) = IF targets = {} THEN 0 ELSE 1
  BY <1>1, FS_Singleton, FS_EmptySet
<1>6. Cardinality(sources) = IF sources = {} THEN 0 ELSE 1
  BY <1>2, FS_Singleton, FS_EmptySet
<1>7. /\ Cardinality(targets) <= 1
      /\ Cardinality(sources) + (IF p \in Source.output THEN 1 ELSE 0) = Cardinality(targets)
  BY <1>3, <1>4, <1>5, <1>6
<1> QED  BY <1>7 DEF sources, targets

LEMMA JoinInit == Init => JoinInv
<1> SUFFICES ASSUME Init PROVE JoinInv  OBVIOUS
<1>1. PICK out \in SourceOutputs :
        /\ created = <<[input |-> {}, output |-> out]>>
        /\ unlinked_output = [p \in Pin |-> IF p \in out THEN 1 ELSE None]
  BY DEF Init
<1>2. /\ unlinked_input = [p \in Pin |-> None] /\ connections = {} /\ stage = "explore"
  BY DEF Init
<1>3. Len(created) = 1 /\ created[1].input = {} /\ created[1].output = out
  BY <1>1
<1>4. OneOfEach
  BY <1>3 DEF OneOfEach
<1>5. MapsExact
  BY <1>1, <1>2, <1>3 DEF MapsExact, Producer, Consumer, None
<1>6. ConnectionsExact
  BY <1>2, <1>3 DEF ConnectionsExact, Producer, Consumer
<1> QED  BY <1>2, <1>4, <1>5, <1>6 DEF JoinInv

\* What OneMoreCreated says of producers and consumers.
LEMMA JoinedUp ==
  ASSUME LinkInv, CreatedInv, JoinInv, SinglePins, CreateProcedure
  PROVE  OneOfEach' /\ MapsExact' /\ ConnectionsExact'
<1>0. PICK n : n = Len(created) + 1  OBVIOUS
<1> DEFINE d == registry[Head(todo)]
           N == 1..Len(created)
<1>1. /\ Head(todo) \in DOMAIN registry /\ Head(todo) = todo[1] /\ 1 \in 1..Len(todo)
      /\ Len(created) \in Nat \ {0} /\ Len(created') = n
      /\ \A i \in N : created'[i] = created[i]
      /\ created'[n] = d
      /\ created' \in Seq(Procs) /\ registry' = registry
  BY <1>0, OneMoreCreated
<1>2. d.input \subseteq Pin /\ d.output \subseteq Pin /\ d.input \cap d.output = {}
  BY <1>1, BuilderAssumption DEF LinkInv, TypeInv
<1>3. stage = "build" /\ OneOfEach /\ MapsExact /\ ConnectionsExact
  BY DEF JoinInv, CreateProcedure
<1>4. \A i \in 2..Len(created) : created[i] # d
  BY <1>1, <1>3 DEF JoinInv
<1>5. n \notin N /\ 1..Len(created') = N \cup {n} /\ n # 0 /\ 0 \notin N /\ 1 \in N
  BY <1>0, <1>1
<1>6. /\ \A p : \A i \in N : /\ Producer(i, p)' <=> Producer(i, p)
                             /\ Consumer(i, p)' <=> Consumer(i, p)
      /\ \A p : (Producer(n, p)' <=> p \in d.output) /\ (Consumer(n, p)' <=> p \in d.input)
      /\ \A p, i : Producer(i, p) \/ Consumer(i, p) => i \in N
  <2>1. /\ \A p : \A i \in N : /\ Producer(i, p)' <=> Producer(i, p)
                               /\ Consumer(i, p)' <=> Consumer(i, p)
    BY <1>1, <1>5 DEF Producer, Consumer
  <2>2. \A p : (Producer(n, p)' <=> p \in d.output) /\ (Consumer(n, p)' <=> p \in d.input)
    BY <1>1, <1>5 DEF Producer, Consumer
  <2> QED  BY <2>1, <2>2 DEF Producer, Consumer
\* No other has the new one's inputs or outputs.
<1>7. ASSUME NEW i \in N, NEW p \in Pin
      PROVE  /\ p \in d.input => ~Consumer(i, p)
             /\ p \in d.output => ~Producer(i, p)
  <2>1. CASE i = 1
    BY <1>1, <2>1 DEF CreatedInv, SinglePins, Consumer, Producer, Source
  <2>2. CASE i # 1
    <3>1. i \in 2..Len(created)
      BY <1>1, <2>2
    <3>2. PICK r \in DOMAIN registry : created[i] = registry[r]
      BY <3>1 DEF CreatedInv
    <3>3. r # Head(todo)
      BY <1>4, <3>1, <3>2
    <3> QED  BY <1>1, <3>2, <3>3 DEF SinglePins, Consumer, Producer
  <2> QED  BY <2>1, <2>2
<1> DEFINE to   == {p \in d.input : unlinked_output[p] # None}
           in   == [p \in Pin |-> IF p \in d.input \ to THEN n ELSE unlinked_input[p]]
           from == {p \in d.output : in[p] # None}
<1>8. /\ connections' = connections
           \cup {Joined(unlinked_output[p], n, p) : p \in to}
           \cup {Joined(n, in[p], p) : p \in from}
      /\ unlinked_input' = [p \in Pin |-> IF p \in from THEN None ELSE in[p]]
      /\ unlinked_output' = [p \in Pin |-> IF p \in to THEN None
                                           ELSE IF p \in d.output \ from THEN n
                                           ELSE unlinked_output[p]]
  BY <1>0 DEF CreateProcedure, Joined
<1> HIDE DEF d, N
\* The same, pin by pin.
<1>9. from = {p \in d.output : unlinked_input[p] # None}
  BY <1>2
<1>10. \A p \in from : in[p] = unlinked_input[p]
  BY <1>2
<1>11. ASSUME NEW p \in Pin
       PROVE  /\ unlinked_input'[p]
                   = IF p \in d.output THEN None
                     ELSE IF p \in d.input /\ unlinked_output[p] = None THEN n
                     ELSE unlinked_input[p]
              /\ unlinked_output'[p]
                   = IF p \in d.input THEN None
                     ELSE IF p \in d.output /\ unlinked_input[p] = None THEN n
                     ELSE unlinked_output[p]
  <2>1. in[p] = IF p \in d.input /\ unlinked_output[p] = None THEN n ELSE unlinked_input[p]
    OBVIOUS
  <2>2. p \in to <=> p \in d.input /\ unlinked_output[p] # None
    OBVIOUS
  <2>3. p \in from <=> p \in d.output /\ unlinked_input[p] # None
    BY <1>9
  <2>4. /\ unlinked_input'[p] = IF p \in from THEN None ELSE in[p]
        /\ unlinked_output'[p] = IF p \in to THEN None
                                 ELSE IF p \in d.output \ from THEN n ELSE unlinked_output[p]
    BY <1>8
  <2> HIDE DEF in, to, from
  <2> QED  BY <1>2, <2>1, <2>2, <2>3, <2>4
<1>12. \A x : x \in connections' <=>
         \/ x \in connections
         \/ \E p \in d.input : unlinked_output[p] # None /\ x = Joined(unlinked_output[p], n, p)
         \/ \E p \in d.output : unlinked_input[p] # None /\ x = Joined(n, unlinked_input[p], p)
  <2> SUFFICES ASSUME NEW x
               PROVE  x \in connections' <=>
                        \/ x \in connections
                        \/ \E p \in d.input : unlinked_output[p] # None
                                              /\ x = Joined(unlinked_output[p], n, p)
                        \/ \E p \in d.output : unlinked_input[p] # None
                                               /\ x = Joined(n, unlinked_input[p], p)
    OBVIOUS
  <2>1. x \in connections' <=> \/ x \in connections
                               \/ \E p \in to : x = Joined(unlinked_output[p], n, p)
                               \/ \E p \in from : x = Joined(n, in[p], p)
    <3> HIDE DEF to, from, in
    <3> QED  BY <1>8
  <2>2. (\E p \in from : x = Joined(n, in[p], p))
          <=> \E p \in from : x = Joined(n, unlinked_input[p], p)
    <3> HIDE DEF from, in
    <3> QED  BY <1>10
  <2>3. (\E p \in from : x = Joined(n, unlinked_input[p], p))
          <=> \E p \in d.output : unlinked_input[p] # None /\ x = Joined(n, unlinked_input[p], p)
    <3> HIDE DEF from, in
    <3> QED  BY <1>9
  <2> HIDE DEF from, in
  <2> QED  BY <2>1, <2>2, <2>3
<1> HIDE DEF to, in, from
<1>13. OneOfEach'
  <2> SUFFICES ASSUME NEW p \in Pin, NEW i \in 1..Len(created'), NEW j \in 1..Len(created'),
                      \/ Producer(i, p)' /\ Producer(j, p)'
                      \/ Consumer(i, p)' /\ Consumer(j, p)'
               PROVE  i = j
    BY DEF OneOfEach
  <2>1. CASE i \in N /\ j \in N
    BY <1>3, <1>6, <2>1 DEF OneOfEach, N
  <2>2. CASE ~(i \in N /\ j \in N)
    BY <1>5, <1>6, <1>7, <2>2
  <2> QED  BY <2>1, <2>2
<1>14. MapsExact'
  <2> SUFFICES ASSUME NEW p \in Pin
               PROVE  (/\ unlinked_output[p] # None => Producer(unlinked_output[p], p)
                       /\ unlinked_input[p] # None => Consumer(unlinked_input[p], p)
                       /\ (\E i \in 1..Len(created) : Consumer(i, p)) => unlinked_output[p] = None
                       /\ (\E i \in 1..Len(created) : Producer(i, p)) => unlinked_input[p] = None
                       /\ \A i \in 1..Len(created) : Producer(i, p) =>
                            unlinked_output[p] = i \/ \E j \in 1..Len(created) : Consumer(j, p)
                       /\ \A i \in 1..Len(created) : Consumer(i, p) =>
                            unlinked_input[p] = i \/ \E j \in 1..Len(created) : Producer(j, p))'
    BY DEF MapsExact
  <2>1. /\ unlinked_output[p] # None => Producer(unlinked_output[p], p)
        /\ unlinked_input[p] # None => Consumer(unlinked_input[p], p)
        /\ (\E i \in N : Consumer(i, p)) => unlinked_output[p] = None
        /\ (\E i \in N : Producer(i, p)) => unlinked_input[p] = None
        /\ \A i \in N : Producer(i, p) => unlinked_output[p] = i \/ \E j \in N : Consumer(j, p)
        /\ \A i \in N : Consumer(i, p) => unlinked_input[p] = i \/ \E j \in N : Producer(j, p)
    BY <1>3 DEF MapsExact, N
  <2> DEFINE uo == unlinked_output[p]  ui == unlinked_input[p]
             P(i) == Producer(i, p)  C(i) == Consumer(i, p)
  <2>2. /\ \A i \in N : P(i)' <=> P(i)
        /\ \A i \in N : C(i)' <=> C(i)
        /\ (P(n)' <=> p \in d.output) /\ (C(n)' <=> p \in d.input)
    BY <1>6
  <2>3. /\ (\E i \in 1..Len(created') : Consumer(i, p)') <=> p \in d.input \/ \E i \in N : C(i)
        /\ (\E i \in 1..Len(created') : Producer(i, p)') <=> p \in d.output \/ \E i \in N : P(i)
    BY <1>5, <2>2
  <2>4. CASE p \in d.input
    <3>1. p \notin d.output /\ \A i \in N : ~C(i)
      BY <1>2, <1>7, <2>4
    <3>2. ui = None
      BY <1>6, <2>1, <3>1
    <3>3. uo' = None /\ ui' = IF uo = None THEN n ELSE None
      BY <1>11, <2>4, <3>1, <3>2
    <3>4. uo = None <=> ~\E i \in N : P(i)
      BY <1>5, <1>6, <2>1, <3>1 DEF None
    <3> QED  BY <1>5, <2>2, <2>3, <2>4, <3>1, <3>3, <3>4 DEF None
  <2>5. CASE p \in d.output
    <3>1. p \notin d.input /\ \A i \in N : ~P(i)
      BY <1>2, <1>7, <2>5
    <3>2. uo = None
      BY <1>6, <2>1, <3>1
    <3>3. ui' = None /\ uo' = IF ui = None THEN n ELSE None
      BY <1>11, <2>5, <3>1, <3>2
    <3>4. ui = None <=> ~\E i \in N : C(i)
      BY <1>5, <1>6, <2>1, <3>1 DEF None
    <3> QED  BY <1>5, <2>2, <2>3, <2>5, <3>1, <3>3, <3>4 DEF None
  <2>6. CASE p \notin d.input /\ p \notin d.output
    <3>1. uo' = uo /\ ui' = ui
      BY <1>11, <2>6
    <3> QED  BY <1>5, <1>6, <2>1, <2>2, <2>3, <2>6, <3>1
  <2> QED  BY <2>4, <2>5, <2>6
<1>15. ConnectionsExact'
  <2>1. /\ connections \subseteq [source : N, target : N, pin : Pin]
        /\ \A i, j \in N, p \in Pin :
             Joined(i, j, p) \in connections <=> Producer(i, p) /\ Consumer(j, p)
    BY <1>3 DEF ConnectionsExact, N
  <2>2. \A p \in d.input : unlinked_output[p] # None =>
          unlinked_output[p] \in N /\ Producer(unlinked_output[p], p)
    BY <1>2, <1>3, <1>6 DEF MapsExact
  <2>3. \A p \in d.output : unlinked_input[p] # None =>
          unlinked_input[p] \in N /\ Consumer(unlinked_input[p], p)
    BY <1>2, <1>3, <1>6 DEF MapsExact
  <2>4. connections' \subseteq [source : N \cup {n}, target : N \cup {n}, pin : Pin]
    BY <1>2, <1>12, <2>1, <2>2, <2>3 DEF Joined
  <2>5. ASSUME NEW i \in N \cup {n}, NEW j \in N \cup {n}, NEW p \in Pin
        PROVE  Joined(i, j, p) \in connections' <=> Producer(i, p)' /\ Consumer(j, p)'
    <3>1. \A a, b, q : Joined(i, j, p) = Joined(a, b, q) <=> i = a /\ j = b /\ p = q
      BY DEF Joined
    <3>2. Joined(i, j, p) \in connections' <=>
            \/ Joined(i, j, p) \in connections
            \/ p \in d.input /\ unlinked_output[p] # None /\ i = unlinked_output[p] /\ j = n
            \/ p \in d.output /\ unlinked_input[p] # None /\ i = n /\ j = unlinked_input[p]
      BY <1>12, <3>1
    <3>3. CASE i \in N /\ j \in N
      BY <1>5, <1>6, <2>1, <3>2, <3>3
    <3>4. CASE i \in N /\ j = n
      <4>1. Joined(i, j, p) \notin connections
        BY <1>5, <2>1, <3>4 DEF Joined
      <4>2. Producer(i, p) /\ p \in d.input => unlinked_output[p] = i
        BY <1>3, <1>7, <3>4 DEF MapsExact, N
      <4> QED  BY <1>5, <1>6, <2>2, <3>2, <3>4, <4>1, <4>2 DEF None
    <3>5. CASE i = n /\ j \in N
      <4>1. Joined(i, j, p) \notin connections
        BY <1>5, <2>1, <3>5 DEF Joined
      <4>2. Consumer(j, p) /\ p \in d.output => unlinked_input[p] = j
        BY <1>3, <1>7, <3>5 DEF MapsExact, N
      <4> QED  BY <1>5, <1>6, <2>3, <3>2, <3>5, <4>1, <4>2 DEF None
    <3>6. CASE i = n /\ j = n
      <4>1. Joined(i, j, p) \notin connections
        BY <1>5, <2>1, <3>6 DEF Joined
      <4> QED  BY <1>2, <1>5, <1>6, <2>2, <2>3, <3>2, <3>6, <4>1
    <3> QED  BY <3>3, <3>4, <3>5, <3>6
  <2> QED  BY <1>5, <2>4, <2>5 DEF ConnectionsExact, Joined
<1> QED  BY <1>13, <1>14, <1>15

LEMMA SinglePinsStay ==
  ASSUME CreatedInv, UNCHANGED registry, created'[1] = created[1]
  PROVE  SinglePins' <=> SinglePins
BY DEF SinglePins, Source

LEMMA JoinKept ==
  ASSUME JoinInv, UNCHANGED <<registry, created, connections, maps>>,
         stage' = "build" => stage = "build" /\ UNCHANGED todo
  PROVE  JoinInv'
<1>1. SinglePins' <=> SinglePins
  BY DEF SinglePins, Source
<1>2. OneOfEach' <=> OneOfEach
  BY DEF OneOfEach, Producer, Consumer
<1>3. MapsExact' <=> MapsExact
  BY DEF MapsExact, Producer, Consumer, maps
<1>4. ConnectionsExact' <=> ConnectionsExact
  BY DEF ConnectionsExact, Producer, Consumer
<1>5. UNCHANGED todo => (IsInjective(todo)' <=> IsInjective(todo))
  BY DEF IsInjective
<1> QED  BY <1>1, <1>2, <1>3, <1>4, <1>5 DEF JoinInv

(***************************************************************************)
(* The solution that TraceBack hands to build_pipeline has no procedure    *)
(* twice: it is no longer than the linking that its procedures are.        *)
(***************************************************************************)
LEMMA SolutionHasNoneTwice ==
  ASSUME LinkInv, SearchInv, ChainInv, CreatedInv, JoinInv, FindsLinking, SinglePins,
         stage = "trace", explored_nodes[trace].new_procedure = None
  PROVE  IsInjective(todo)
<1>1. trace \in DOMAIN explored_nodes /\ Target \in DOMAIN explored_nodes
  BY DEF LinkInv, TraceInv, SearchInv
<1>2. /\ explored_nodes[trace].cost = 0
      /\ explored_nodes[trace].cost + Len(todo) = explored_nodes[Target].cost
      /\ Balanced(trace, ToSet(todo))
  BY <1>1 DEF ChainInv
<1>3. todo \in Seq(DOMAIN registry) /\ explored_nodes[Target].cost \in Nat
  BY <1>1 DEF LinkInv, TypeInv, Nodes
<1>4. ToSet(todo) \in SUBSET DOMAIN registry /\ Len(todo) \in Nat
  BY <1>3 DEF ToSet
<1>5. Len(todo) = explored_nodes[Target].cost
  BY <1>2, <1>3, <1>4
<1>6. Len(created) = 1 /\ MapsExact
  BY DEF SearchInv, SourceInv, JoinInv
<1>7. \A p \in Pin : /\ \A i : ~Consumer(i, p)
                     /\ \A i : Producer(i, p) <=> i = 1 /\ p \in Source.output
  BY <1>6 DEF Producer, Consumer, CreatedInv, Source
<1>8. 1 \in 1..Len(created)
  BY <1>6
<1>9. ASSUME NEW p \in Pin
      PROVE  unlinked_input[p] = None /\ (unlinked_output[p] # None <=> p \in Source.output)
  BY <1>6, <1>7, <1>8 DEF MapsExact, None
<1>10. trace = MapsKey
  <2>1. Searching
    BY DEF Searching
  <2>2. NodeInv /\ registry \in Seq(Catalogue)
    BY DEF LinkInv, TypeInv
  <2>3. explored_nodes[trace].new_procedure \notin DOMAIN registry
    BY <2>2 DEF None
  <2> QED  BY <1>1, <2>1, <2>2, <2>3 DEF NodeInv
<1>11. trace.unlinked_input = {} /\ trace.unlinked_output = Source.output \cap Pin
  BY <1>9, <1>10 DEF MapsKey, Key
<1>12. Uses(ToSet(todo)) = (Source.output \cap Pin) \cup Makes(ToSet(todo))
  BY <1>2, <1>11 DEF Balanced
<1>13. ToSet(todo) \in Linkings
  BY <1>4, <1>12, BalancedIsLinking
<1>14. explored_nodes[Target].cost <= Cardinality(ToSet(todo))
  BY <1>13 DEF FindsLinking
<1> QED  BY <1>3, <1>5, <1>14, InjectiveIfAsLarge

LEMMA JoinNext ==
  LinkInv /\ SearchInv /\ ChainInv /\ CreatedInv /\ FindsLinking /\ JoinInv /\ [Next]_vars => JoinInv'
<1> SUFFICES ASSUME LinkInv, SearchInv, ChainInv, CreatedInv, FindsLinking, JoinInv, [Next]_vars
             PROVE  JoinInv'
  OBVIOUS
<1>1. CASE CreateProcedure
  <2>1. /\ Head(todo) \in DOMAIN registry /\ Head(todo) = todo[1] /\ 1 \in 1..Len(todo)
        /\ Len(created) \in Nat \ {0} /\ Len(created') = Len(created) + 1
        /\ \A i \in 1..Len(created) : created'[i] = created[i]
        /\ created'[Len(created) + 1] = registry[Head(todo)]
        /\ created' \in Seq(Procs) /\ registry' = registry
    BY <1>1, OneMoreCreated
  <2>2. SinglePins' <=> SinglePins
    BY <2>1, SinglePinsStay
  <2>3. SUFFICES ASSUME SinglePins PROVE JoinInv'
    BY <2>2 DEF JoinInv
  <2>4. OneOfEach' /\ MapsExact' /\ ConnectionsExact'
    BY <1>1, <2>3, JoinedUp
  <2>5. /\ stage = "build" /\ todo' = Tail(todo) /\ todo # <<>>
    BY <1>1 DEF CreateProcedure
  <2>6. todo \in Seq(DOMAIN registry) /\ IsInjective(todo)
    BY <2>3, <2>5 DEF LinkInv, TypeInv, JoinInv
  <2>7. /\ Len(todo') = Len(todo) - 1 /\ Len(todo) \in Nat \ {0}
        /\ DOMAIN todo' = 1..Len(todo) - 1 /\ DOMAIN todo = 1..Len(todo)
        /\ \A j \in 1..Len(todo) - 1 : todo'[j] = todo[j + 1] /\ j + 1 \in 1..Len(todo)
                                       /\ todo[j + 1] \in DOMAIN registry
    BY <2>5, <2>6
  <2>8. \A i, j \in 1..Len(todo) : todo[i] = todo[j] => i = j
    BY <2>6, <2>7 DEF IsInjective
  <2>9. IsInjective(todo')
    <3>1. \A i, j \in 1..Len(todo) - 1 : todo'[i] = todo'[j] => i = j
      BY <2>7, <2>8
    <3> QED  BY <2>7, <3>1 DEF IsInjective
  <2>10. ASSUME NEW j \in 1..Len(todo'), NEW i \in 2..Len(created')
         PROVE  created'[i] # registry'[todo'[j]]
    <3>1. todo'[j] = todo[j + 1] /\ todo[j + 1] \in DOMAIN registry /\ j + 1 \in 1..Len(todo)
      BY <2>7
    <3>2. CASE i = Len(created) + 1
      <4>1. todo[j + 1] # todo[1]
        BY <2>1, <2>7, <2>8, <3>1
      <4>2. registry[todo[j + 1]] # registry[todo[1]]
        BY <2>1, <3>1, <4>1 DEF CreatedInv
      <4> QED  BY <2>1, <3>1, <3>2, <4>2
    <3>3. CASE i # Len(created) + 1
      <4>1. i \in 2..Len(created) /\ i \in 1..Len(created)
        BY <2>1, <3>3
      <4>2. created[i] # registry[todo[j + 1]]
        BY <2>3, <2>5, <3>1, <4>1 DEF JoinInv
      <4> QED  BY <2>1, <3>1, <4>1, <4>2
    <3> QED  BY <3>2, <3>3
  <2> QED  BY <2>4, <2>9, <2>10 DEF JoinInv
<1>2. CASE TraceBack
  <2>1. /\ stage = "trace" /\ UNCHANGED <<registry, created, connections, maps>>
        /\ stage' = "build" => explored_nodes[trace].new_procedure = None /\ UNCHANGED todo
    BY <1>2 DEF TraceBack, built
  <2>2. CASE stage' # "build"
    BY <2>1, <2>2, JoinKept
  <2>3. CASE stage' = "build"
    <3>1. SUFFICES ASSUME SinglePins PROVE JoinInv'
      BY <2>1, SinglePinsStay DEF JoinInv
    <3>2. OneOfEach' /\ MapsExact' /\ ConnectionsExact'
      <4>1. OneOfEach /\ MapsExact /\ ConnectionsExact
        BY <3>1 DEF JoinInv
      <4> QED  BY <2>1, <4>1 DEF OneOfEach, MapsExact, ConnectionsExact, Producer, Consumer, maps
    <3>3. IsInjective(todo)
      BY <2>1, <2>3, <3>1, SolutionHasNoneTwice
    <3>4. IsInjective(todo')
      BY <2>1, <2>3, <3>3
    <3>5. Len(created') = 1
      BY <2>1 DEF SearchInv, SourceInv
    <3>6. ~\E i \in 2..Len(created') : TRUE
      BY <3>5
    <3> QED  BY <3>2, <3>4, <3>6 DEF JoinInv
  <2> QED  BY <2>2, <2>3
<1>3. CASE ~CreateProcedure /\ ~TraceBack
  <2>1. /\ UNCHANGED <<registry, created, connections, maps>>
        /\ stage' = "build" => stage = "build" /\ UNCHANGED todo
    BY <1>3
    DEF Next, ExplorerStep, AllTried, OpenNode, TryProcedure, NextPin, PinWithoutPartner,
        StepEnds, ExplorerFails, CreateFails, AllCreated, SerializeNext,
        SerializeCrashes, SerializeEnds, built, vars
  <2> QED  BY <2>1, JoinKept
<1> QED  BY <1>1, <1>2, <1>3

-----------------------------------------------------------------------------
LEMMA ListsJoined ==
  ASSUME NEW S, NEW s \in Seq(S), NEW t \in Seq(S), IsInjective(s), IsInjective(t),
         ToSet(s) \cap ToSet(t) = {}
  PROVE  /\ s \o t \in Seq(S) /\ IsInjective(s \o t)
         /\ ToSet(s \o t) = ToSet(s) \cup ToSet(t)
         /\ Len(s \o t) = Len(s) + Len(t)
         /\ \A j \in 1..Len(s) : (s \o t)[j] = s[j]
<1> DEFINE u == s \o t
<1>1. /\ Len(s) \in Nat /\ Len(t) \in Nat /\ u \in Seq(S) /\ Len(u) = Len(s) + Len(t)
      /\ DOMAIN s = 1..Len(s) /\ DOMAIN t = 1..Len(t) /\ DOMAIN u = 1..Len(s) + Len(t)
  OBVIOUS
<1>2. \A j \in 1..Len(s) + Len(t) : u[j] = IF j <= Len(s) THEN s[j] ELSE t[j - Len(s)]
  OBVIOUS
<1> HIDE DEF u
<1>3. \A j \in 1..Len(s) : u[j] = s[j] /\ j \in 1..Len(s) + Len(t) /\ s[j] \in ToSet(s)
  BY <1>1, <1>2 DEF ToSet
<1>4. \A j \in 1..Len(t) : u[j + Len(s)] = t[j] /\ j + Len(s) \in 1..Len(s) + Len(t)
                           /\ t[j] \in ToSet(t)
  <2> SUFFICES ASSUME NEW j \in 1..Len(t)
               PROVE  u[j + Len(s)] = t[j] /\ j + Len(s) \in 1..Len(s) + Len(t)
                      /\ t[j] \in ToSet(t)
    OBVIOUS
  <2>1. j + Len(s) \in 1..Len(s) + Len(t) /\ ~(j + Len(s) <= Len(s)) /\ (j + Len(s)) - Len(s) = j
    BY <1>1
  <2>2. t[j] \in ToSet(t)
    BY <1>1 DEF ToSet
  <2> QED  BY <1>2, <2>1, <2>2
<1>5. \A j \in 1..Len(s) + Len(t) : j \in 1..Len(s) \/ j - Len(s) \in 1..Len(t)
  BY <1>1
<1>6. \A j \in 1..Len(s) + Len(t) : j \notin 1..Len(s) => (j - Len(s)) + Len(s) = j
  BY <1>1
<1>7. ASSUME NEW i \in 1..Len(s) + Len(t), NEW j \in 1..Len(s) + Len(t), u[i] = u[j]
      PROVE  i = j
  <2>1. CASE i \in 1..Len(s) /\ j \in 1..Len(s)
    BY <1>1, <1>3, <1>7, <2>1 DEF IsInjective
  <2>2. CASE i \in 1..Len(s) /\ j \notin 1..Len(s)
    <3>1. u[i] \in ToSet(s)
      BY <1>3, <2>2
    <3>2. u[j] \in ToSet(t)
      BY <1>4, <1>5, <1>6, <2>2
    <3> QED  BY <1>7, <3>1, <3>2
  <2>3. CASE i \notin 1..Len(s) /\ j \in 1..Len(s)
    <3>1. u[j] \in ToSet(s)
      BY <1>3, <2>3
    <3>2. u[i] \in ToSet(t)
      BY <1>4, <1>5, <1>6, <2>3
    <3> QED  BY <1>7, <3>1, <3>2
  <2>4. CASE i \notin 1..Len(s) /\ j \notin 1..Len(s)
    <3>1. i - Len(s) \in 1..Len(t) /\ j - Len(s) \in 1..Len(t)
      BY <1>5, <2>4
    <3>2. u[i] = t[i - Len(s)] /\ u[j] = t[j - Len(s)]
      BY <1>4, <1>6, <2>4, <3>1
    <3>3. i - Len(s) = j - Len(s)
      BY <1>1, <1>7, <3>1, <3>2 DEF IsInjective
    <3> QED  BY <1>1, <3>3
  <2> QED  BY <2>1, <2>2, <2>3, <2>4
<1>8. IsInjective(u)
  BY <1>1, <1>7 DEF IsInjective
<1>9. ToSet(u) = ToSet(s) \cup ToSet(t)
  <2>1. ASSUME NEW x \in ToSet(u) PROVE x \in ToSet(s) \cup ToSet(t)
    <3>1. PICK j \in 1..Len(s) + Len(t) : u[j] = x
      BY <1>1 DEF ToSet
    <3> QED  BY <1>3, <1>4, <1>5, <1>6, <3>1
  <2>2. ASSUME NEW x \in ToSet(s) PROVE x \in ToSet(u)
    <3>1. PICK j \in 1..Len(s) : s[j] = x
      BY <1>1 DEF ToSet
    <3> QED  BY <1>1, <1>3, <3>1 DEF ToSet
  <2>3. ASSUME NEW x \in ToSet(t) PROVE x \in ToSet(u)
    <3>1. PICK j \in 1..Len(t) : t[j] = x
      BY <1>1 DEF ToSet
    <3> QED  BY <1>1, <1>4, <3>1 DEF ToSet
  <2> QED  BY <2>1, <2>2, <2>3
<1> QED  BY <1>1, <1>3, <1>8, <1>9 DEF u

LEMMA ListInit == Init => ListInv
<1> SUFFICES ASSUME Init PROVE ListInv  OBVIOUS
<1>1. procedures = [visited |-> 0, order |-> <<1>>] /\ stage = "explore"
  BY DEF Init, SourceOnly
<1>2. Len(created) = 1
  BY DEF Init
<1>3. <<1>> \in Seq(1..Len(created)) /\ IsInjective(<<1>>)
  BY <1>2 DEF IsInjective
<1> QED  BY <1>1, <1>3 DEF ListInv, SourceOnly

\* When serialize_pipeline runs, every pin of a procedure is connected once.
LEMMA AllJoined ==
  ASSUME LinkInv, CreatedInv, JoinInv, SinglePins, stage \in {"serialize", "built"},
         NEW i \in 1..Len(created)
  PROVE  /\ \A p \in created[i].output : p \in Pin /\ \E j \in 1..Len(created) :
              /\ Joined(i, j, p) \in connections
              /\ {c \in connections : c.source = i /\ c.pin = p} = {Joined(i, j, p)}
         /\ \A p \in created[i].input : p \in Pin /\ \E j \in 1..Len(created) :
              /\ Joined(j, i, p) \in connections
              /\ {c \in connections : c.target = i /\ c.pin = p} = {Joined(j, i, p)}
<1>1. OneOfEach /\ MapsExact /\ ConnectionsExact
  BY DEF JoinInv
<1>2. \A p \in Pin : unlinked_input[p] = None /\ unlinked_output[p] = None
  BY DEF LinkInv, TraceInv, MapsKey, Target, Key
<1>3. created[i].output \subseteq Pin /\ created[i].input \subseteq Pin /\ i # None
  <2>1. created[i] \in Procs
    BY DEF CreatedInv
  <2> QED  BY <2>1 DEF Procs, None
<1>4. \A c \in connections : /\ c = Joined(c.source, c.target, c.pin)
                             /\ c.source \in 1..Len(created) /\ c.target \in 1..Len(created)
                             /\ c.pin \in Pin
  BY <1>1 DEF ConnectionsExact, Joined
<1>5. \A c \in connections : Producer(c.source, c.pin) /\ Consumer(c.target, c.pin)
  BY <1>1, <1>4 DEF ConnectionsExact
<1>6. \A a, b, q : /\ Joined(a, b, q).source = a /\ Joined(a, b, q).target = b
                   /\ Joined(a, b, q).pin = q
  BY DEF Joined
<1>7. ASSUME NEW p \in created[i].output
      PROVE  p \in Pin /\ \E j \in 1..Len(created) :
               /\ Joined(i, j, p) \in connections
               /\ {c \in connections : c.source = i /\ c.pin = p} = {Joined(i, j, p)}
  <2>1. p \in Pin /\ Producer(i, p)
    BY <1>3 DEF Producer
  <2>2. PICK j \in 1..Len(created) : Consumer(j, p)
    BY <1>1, <1>2, <1>3, <2>1 DEF MapsExact
  <2>3. Joined(i, j, p) \in connections
    BY <1>1, <2>1, <2>2 DEF ConnectionsExact
  <2>4. \A c \in connections : c.source = i /\ c.pin = p => c.target = j
    BY <1>1, <1>4, <1>5, <2>1, <2>2 DEF OneOfEach
  <2>5. \A c \in connections : c.source = i /\ c.pin = p => c = Joined(i, j, p)
    BY <1>4, <2>4
  <2>6. {c \in connections : c.source = i /\ c.pin = p} = {Joined(i, j, p)}
    BY <1>6, <2>3, <2>5
  <2> QED  BY <2>1, <2>3, <2>6
<1>8. ASSUME NEW p \in created[i].input
      PROVE  p \in Pin /\ \E j \in 1..Len(created) :
               /\ Joined(j, i, p) \in connections
               /\ {c \in connections : c.target = i /\ c.pin = p} = {Joined(j, i, p)}
  <2>1. p \in Pin /\ Consumer(i, p)
    BY <1>3 DEF Consumer
  <2>2. PICK j \in 1..Len(created) : Producer(j, p)
    BY <1>1, <1>2, <1>3, <2>1 DEF MapsExact
  <2>3. Joined(j, i, p) \in connections
    BY <1>1, <2>1, <2>2 DEF ConnectionsExact
  <2>4. \A c \in connections : c.target = i /\ c.pin = p => c.source = j
    BY <1>1, <1>4, <1>5, <2>1, <2>2 DEF OneOfEach
  <2>5. \A c \in connections : c.target = i /\ c.pin = p => c = Joined(j, i, p)
    BY <1>4, <2>4
  <2>6. {c \in connections : c.target = i /\ c.pin = p} = {Joined(j, i, p)}
    BY <1>6, <2>3, <2>5
  <2> QED  BY <2>1, <2>3, <2>6
<1> QED  BY <1>7, <1>8

\* The procedure serialize_pipeline visits.
LEMMA CurrentType ==
  ASSUME ListInv, SinglePins, procedures.visited < Len(procedures.order)
  PROVE  /\ Current \in 1..Len(created) /\ procedures.visited \in Nat
         /\ Len(procedures.order) \in Nat
         /\ Current = procedures.order[procedures.visited + 1]
BY DEF ListInv, Current

LEMMA NeverCrashes ==
  ASSUME LinkInv, CreatedInv, JoinInv, ListInv, SinglePins
  PROVE  ~SerializeCrashes
<1> SUFFICES ASSUME SerializeCrashes PROVE FALSE  OBVIOUS
<1>1. /\ stage = "serialize" /\ procedures.visited < Len(procedures.order)
      /\ {c.pin : c \in Outgoing} # created[Current].output
  BY DEF SerializeCrashes
<1>2. PICK i \in 1..Len(created) : i = Current
  BY <1>1, CurrentType
<1>3. Outgoing = {c \in connections : c.source = i}
  BY <1>2 DEF Outgoing
<1>4. \A p \in created[i].output : \E c \in connections : c.source = i /\ c.pin = p
  <2> SUFFICES ASSUME NEW p \in created[i].output
               PROVE  \E c \in connections : c.source = i /\ c.pin = p
    OBVIOUS
  <2>1. PICK j \in 1..Len(created) : Joined(i, j, p) \in connections
    BY <1>1, AllJoined
  <2> QED  BY <2>1 DEF Joined
<1>5. \A c \in connections : c.source = i => c.pin \in created[i].output
  <2>1. ConnectionsExact
    BY DEF JoinInv
  <2>2. \A c \in connections : /\ c = Joined(c.source, c.target, c.pin) /\ c.pin \in Pin
                               /\ c.source \in 1..Len(created) /\ c.target \in 1..Len(created)
    BY <2>1 DEF ConnectionsExact, Joined
  <2> QED  BY <2>1, <2>2 DEF ConnectionsExact, Producer
<1>6. {c.pin : c \in Outgoing} = created[i].output
  BY <1>3, <1>4, <1>5
<1> QED  BY <1>1, <1>2, <1>6

\* A step that neither lists nor creates a procedure.
LEMMA ListKept ==
  ASSUME CreatedInv, ListInv, UNCHANGED <<registry, created, connections, procedures>>,
         stage' \in {"serialize", "built"} => stage \in {"serialize", "built"}
                                              \/ procedures = SourceOnly,
         stage' \notin {"serialize", "built"} => stage \notin {"serialize", "built"}
                                                 \/ ~SinglePins,
         stage' = "built" => procedures.visited = Len(procedures.order),
         SinglePins => stage' # "crashed"
  PROVE  ListInv'
<1>1. SinglePins' <=> SinglePins
  BY SinglePinsStay
<1> SUFFICES ASSUME SinglePins PROVE ListInv'
  BY <1>1 DEF ListInv
<1> QED  BY DEF ListInv, SourceOnly

LEMMA ListNext ==
  LinkInv /\ CreatedInv /\ JoinInv /\ ListInv /\ [Next]_vars => ListInv'
<1> SUFFICES ASSUME LinkInv, CreatedInv, JoinInv, ListInv, [Next]_vars PROVE ListInv'
  OBVIOUS
<1>1. CASE SerializeNext
  <2>1. /\ stage = "serialize" /\ stage' = "serialize"
        /\ procedures.visited < Len(procedures.order)
        /\ UNCHANGED <<registry, created, connections>>
    BY <1>1 DEF SerializeNext, built
  <2>2. PICK new \in SetToSeqs(Unlisted) :
          procedures' = [visited |-> procedures.visited + 1, order |-> procedures.order \o new]
    BY <1>1 DEF SerializeNext
  <2>3. SinglePins' <=> SinglePins
    BY <2>1, SinglePinsStay
  <2>4. SUFFICES ASSUME SinglePins PROVE ListInv'
    BY <2>3 DEF ListInv
  <2> DEFINE order == procedures.order
             v     == procedures.visited
  <2>5. /\ order \in Seq(1..Len(created)) /\ v \in Nat /\ v + 1 <= Len(order)
        /\ Len(order) \in Nat /\ order # <<>> /\ order[1] = 1 /\ IsInjective(order)
        /\ \A x \in 1..v : \A c \in connections : c.source = order[x] => c.target \in ToSet(order)
    BY <2>1, <2>4 DEF ListInv
  <2>6. \A c \in connections : c.target \in 1..Len(created)
    BY <2>4 DEF JoinInv, ConnectionsExact
  <2>7. Unlisted \subseteq 1..Len(created) /\ ToSet(order) \cap Unlisted = {}
    BY <2>6 DEF Unlisted, Outgoing
  <2>8. IsFiniteSet(Unlisted)
    <3>1. Len(created) \in Nat
      BY DEF CreatedInv
    <3>2. IsFiniteSet(1..Len(created))
      BY <3>1, FS_Interval
    <3> QED  BY <2>7, <3>2, FS_Subset
  <2>9. new \in Seq(Unlisted) /\ IsInjective(new) /\ ToSet(new) = Unlisted
    BY <2>2, <2>8, ListsAll
  <2>10. new \in Seq(1..Len(created)) /\ Len(new) \in Nat
    <3>1. Len(new) \in Nat /\ new \in [1..Len(new) -> Unlisted]
      BY <2>9
    <3>2. new \in [1..Len(new) -> 1..Len(created)]
      BY <2>7, <3>1
    <3> QED  BY <3>1, <3>2
  <2> HIDE DEF order, v
  <2>11. /\ order \o new \in Seq(1..Len(created)) /\ IsInjective(order \o new)
         /\ ToSet(order \o new) = ToSet(order) \cup Unlisted
         /\ Len(order \o new) = Len(order) + Len(new)
         /\ \A j \in 1..Len(order) : (order \o new)[j] = order[j]
    BY <2>5, <2>7, <2>9, <2>10, ListsJoined
  <2>12. procedures'.visited = v + 1 /\ procedures'.order = order \o new
         /\ procedures' \in [visited : Nat, order : Seq(1..Len(created))]
    <3>1. procedures' = [visited |-> v + 1, order |-> order \o new]
      BY <2>2 DEF order, v
    <3>2. v + 1 \in Nat
      BY <2>5
    <3> QED  BY <2>11, <3>1, <3>2
  <2>13. /\ procedures'.visited <= Len(procedures'.order)
         /\ procedures'.order # <<>> /\ procedures'.order[1] = 1
    <3>1. Len(order \o new) >= v + 1 /\ Len(order \o new) # 0 /\ 1 \in 1..Len(order)
      BY <2>5, <2>10, <2>11
    <3>2. Len(<<>>) = 0
      OBVIOUS
    <3> QED  BY <2>5, <2>11, <2>12, <3>1, <3>2
  <2>14. ASSUME NEW x \in 1..procedures'.visited, NEW c \in connections,
                c.source = procedures'.order[x]
         PROVE  c.target \in ToSet(procedures'.order)
    <3>1. procedures'.order[x] = order[x]
      BY <2>5, <2>11, <2>12
    <3>2. CASE x \in 1..v
      BY <2>5, <2>11, <2>12, <2>14, <3>1, <3>2
    <3>3. CASE x \notin 1..v
      <4>1. x = v + 1
        BY <2>5, <2>12, <3>3
      <4>2. c \in Outgoing
        BY <2>14, <3>1, <4>1 DEF Outgoing, Current, order, v
      <4>3. c.target \in Unlisted \/ c.target \in ToSet(order)
        BY <4>2 DEF Unlisted, order
      <4> QED  BY <2>11, <2>12, <4>3
    <3> QED  BY <3>2, <3>3
  <2> QED  BY <2>1, <2>11, <2>12, <2>13, <2>14 DEF ListInv
<1>2. CASE SerializeCrashes
  <2>1. ~SinglePins
    BY <1>2, NeverCrashes
  <2>2. UNCHANGED <<registry, created>>
    BY <1>2 DEF SerializeCrashes, built
  <2> QED  BY <2>1, <2>2, SinglePinsStay DEF ListInv
<1>3. CASE CreateProcedure
  <2>1. /\ Len(created) \in Nat \ {0} /\ Len(created') = Len(created) + 1
        /\ created'[1] = created[1] /\ registry' = registry
    BY <1>3, OneMoreCreated
  <2>2. stage = "build" /\ stage' = "build" /\ procedures' = procedures
    BY <1>3 DEF CreateProcedure
  <2>3. SinglePins' <=> SinglePins
    BY <2>1, SinglePinsStay
  <2>4. SUFFICES ASSUME SinglePins PROVE ListInv'
    BY <2>3 DEF ListInv
  <2>5. procedures = [visited |-> 0, order |-> <<1>>] /\ IsInjective(procedures.order)
    BY <2>2, <2>4 DEF ListInv, SourceOnly
  <2>6. <<1>> \in Seq(1..Len(created'))
    BY <2>1
  <2> QED  BY <2>2, <2>5, <2>6 DEF ListInv, SourceOnly
<1>4. CASE SerializeEnds
  <2>1. /\ stage = "serialize" /\ stage' = "built" /\ procedures.visited = Len(procedures.order)
        /\ UNCHANGED <<registry, created, connections, procedures>>
    BY <1>4 DEF SerializeEnds, built
  <2> QED  BY <2>1, ListKept
<1>5. CASE AllCreated
  <2>1. /\ stage = "build" /\ stage' = "serialize"
        /\ UNCHANGED <<registry, created, connections, procedures>>
    BY <1>5 DEF AllCreated, built
  <2>2. SinglePins => procedures = SourceOnly
    BY <2>1 DEF ListInv
  <2>3. SinglePins' <=> SinglePins
    BY <2>1, SinglePinsStay
  <2> QED  BY <2>1, <2>2, <2>3 DEF ListInv
<1>6. CASE \/ ExplorerStep \/ AllTried \/ OpenNode \/ StepEnds \/ ExplorerFails
           \/ \E i \in DOMAIN registry : TryProcedure(i)
           \/ \E p \in Pin : NextPin(p) \/ PinWithoutPartner(p)
           \/ TraceBack \/ CreateFails
  <2>1. /\ stage \notin {"serialize", "built", "crashed"}
        /\ stage' \notin {"serialize", "built", "crashed"}
        /\ UNCHANGED <<registry, created, connections, procedures>>
    BY <1>6
    DEF ExplorerStep, AllTried, OpenNode, StepEnds, ExplorerFails, TryProcedure, NextPin,
        PinWithoutPartner, TraceBack, CreateFails, built
  <2> QED  BY <2>1, ListKept
<1>7. CASE UNCHANGED vars
  <2>1. UNCHANGED <<registry, stage, created, connections, procedures>>
    BY <1>7 DEF vars, built
  <2>2. SinglePins' <=> SinglePins
    BY <2>1, SinglePinsStay
  <2> QED  BY <2>1, <2>2 DEF ListInv
<1> QED  BY <1>1, <1>2, <1>3, <1>4, <1>5, <1>6, <1>7 DEF Next

\* Whatever is fed, through however many others, by the source is listed.
LEMMA AllListed ==
  ASSUME LinkInv, CreatedInv, JoinInv, ListInv, SinglePins, Forward, stage = "built"
  PROVE  ToSet(procedures.order) = 1..Len(created)
<1> DEFINE N == 1..Len(created)
           listed == ToSet(procedures.order)
<1>1. /\ procedures.order \in Seq(N) /\ procedures.order[1] = 1 /\ procedures.order # <<>>
      /\ procedures.visited = Len(procedures.order)
      /\ \A v \in 1..procedures.visited : \A c \in connections :
           c.source = procedures.order[v] => c.target \in listed
  BY DEF ListInv
<1>2. listed \subseteq N /\ 1 \in listed
  <2>1. DOMAIN procedures.order = 1..Len(procedures.order) /\ 1 \in 1..Len(procedures.order)
    BY <1>1
  <2> QED  BY <1>1, <2>1 DEF ToSet
<1>3. \A c \in connections : c.source \in listed => c.target \in listed
  <2>1. DOMAIN procedures.order = 1..Len(procedures.order)
    BY <1>1
  <2> QED  BY <1>1, <2>1 DEF ToSet
<1>4. PICK rank \in [Pin -> 1..Cardinality(Pin)] :
        \A i \in DOMAIN registry :
          \A p \in registry[i].input, q \in registry[i].output : rank[p] < rank[q]
  BY DEF Forward
<1>5. \A p \in Pin : rank[p] \in Nat
  BY <1>4
<1>6. \A i \in N \ {1} : \E r \in DOMAIN registry : created[i] = registry[r]
  <2>1. \A i \in N \ {1} : i \in 2..Len(created)
    OBVIOUS
  <2> QED  BY <2>1 DEF CreatedInv
<1>7. \A i \in N : created[i].input \subseteq Pin
  <2>1. \A i \in N : created[i] \in Procs
    BY DEF CreatedInv
  <2> QED  BY <2>1 DEF Procs
<1>8. \A i \in N : \A p \in created[i].input : \E j \in N : Joined(j, i, p) \in connections
  BY AllJoined
<1>9. ASSUME NEW i \in N \ listed PROVE FALSE
  <2> DEFINE T == {m \in Nat : \E x \in N \ listed : \E p \in created[x].input : rank[p] = m}
  <2>1. T # {}
    <3>1. PICK r \in DOMAIN registry : created[i] = registry[r]
      BY <1>2, <1>6, <1>9
    <3>2. PICK p \in created[i].input : TRUE
      BY <3>1 DEF Forward
    <3> QED  BY <1>5, <1>7, <1>9, <3>2
  <2>2. T \in SUBSET Nat
    OBVIOUS
  <2>3. PICK m \in T : \A l \in T : m <= l
    <3> HIDE DEF T
    <3> QED  BY <2>1, <2>2, LeastOf
  <2>4. PICK x \in N \ listed : \E p \in created[x].input : rank[p] = m
    BY <2>3
  <2>5. PICK p \in created[x].input : rank[p] = m
    BY <2>4
  <2>6. PICK j \in N : Joined(j, x, p) \in connections
    BY <1>8, <2>4, <2>5
  <2>7. j \notin listed
    BY <1>3, <2>4, <2>6 DEF Joined
  <2>8. Producer(j, p)
    BY <1>7, <2>4, <2>5, <2>6 DEF JoinInv, ConnectionsExact
  <2>9. PICK r \in DOMAIN registry : created[j] = registry[r]
    BY <1>2, <1>6, <2>6, <2>7
  <2>10. PICK q \in created[j].input : TRUE
    BY <2>9 DEF Forward
  <2>11. rank[q] < rank[p]
    BY <1>4, <2>8, <2>9, <2>10 DEF Producer
  <2>12. q \in Pin /\ p \in Pin
    BY <1>7, <2>4, <2>5, <2>6, <2>10
  <2>13. rank[q] \in T
    BY <1>5, <2>6, <2>7, <2>10, <2>12
  <2> HIDE DEF T
  <2> QED  BY <1>5, <2>3, <2>5, <2>11, <2>12, <2>13
<1> QED  BY <1>2, <1>9

BuildInv == ChainInv /\ CreatedInv /\ JoinInv /\ ListInv

(***************************************************************************)
(* For any catalogue, registry and source whose pins have one producer and *)
(* one consumer at most and lead from lower to higher ones: the pipeline   *)
(* that is built has every pin connected once and lists every procedure    *)
(* once, and serialize_pipeline never follows a NULL pointer.              *)
(***************************************************************************)
THEOREM Complete == Spec => []PipelineComplete
<1>1. LinkInv /\ BuildInv => PipelineComplete
  <2> SUFFICES ASSUME LinkInv, BuildInv, stage \in {"built", "crashed"}, OneToOne, Forward
               PROVE  /\ stage = "built"
                      /\ \A i \in DOMAIN created :
                           /\ \A p \in created[i].output :
                                Cardinality({c \in connections : c.source = i /\ c.pin = p}) = 1
                           /\ \A p \in created[i].input :
                                Cardinality({c \in connections : c.target = i /\ c.pin = p}) = 1
                      /\ IsInjective(procedures.order)
                      /\ ToSet(procedures.order) = DOMAIN created
    BY DEF PipelineComplete
  <2>1. ChainInv /\ CreatedInv /\ JoinInv /\ ListInv
    BY DEF BuildInv
  <2>2. SinglePins
    BY <2>1, OneToOneMeansSingle
  <2>3. stage = "built" /\ IsInjective(procedures.order)
    BY <2>1, <2>2 DEF ListInv
  <2>4. DOMAIN created = 1..Len(created)
    BY <2>1 DEF CreatedInv
  <2>5. ToSet(procedures.order) = 1..Len(created)
    BY <2>1, <2>2, <2>3, AllListed
  <2>6. ASSUME NEW i \in 1..Len(created)
        PROVE  /\ \A p \in created[i].output :
                    Cardinality({c \in connections : c.source = i /\ c.pin = p}) = 1
               /\ \A p \in created[i].input :
                    Cardinality({c \in connections : c.target = i /\ c.pin = p}) = 1
    <3>1. /\ \A p \in created[i].output :
               \E x : {c \in connections : c.source = i /\ c.pin = p} = {x}
          /\ \A p \in created[i].input :
               \E x : {c \in connections : c.target = i /\ c.pin = p} = {x}
      <4>1. /\ \A p \in created[i].output : \E j \in 1..Len(created) :
                 {c \in connections : c.source = i /\ c.pin = p} = {Joined(i, j, p)}
            /\ \A p \in created[i].input : \E j \in 1..Len(created) :
                 {c \in connections : c.target = i /\ c.pin = p} = {Joined(j, i, p)}
        BY <2>1, <2>2, <2>3, AllJoined
      <4> QED  BY <4>1
    <3> QED  BY <3>1, FS_Singleton
  <2> QED  BY <2>3, <2>4, <2>5, <2>6
<1>2. Spec => [](LinkInv /\ OrderInv /\ SearchInv)
  BY LinkInit, LinkNext, OrderInit, OrderNext, SearchInit, SearchNext, PTL DEF Spec
<1>3. Init => BuildInv
  BY ChainInit, CreatedInit, JoinInit, ListInit DEF BuildInv
<1>4. LinkInv /\ OrderInv /\ SearchInv /\ BuildInv /\ [Next]_vars => BuildInv'
  BY SearchFinds, ChainNext, CreatedNext, JoinNext, ListNext DEF BuildInv
<1> QED  BY <1>1, <1>2, <1>3, <1>4, PTL DEF Spec

-----------------------------------------------------------------------------
(* Sequences: the first element, the last one, one put behind another.     *)
LEMMA FirstAndRest ==
  ASSUME NEW S, NEW s \in Seq(S), s # <<>>
  PROVE  /\ Tail(s) \in Seq(S) /\ Head(s) = s[1] /\ s[1] \in S
         /\ Len(s) \in Nat \ {0} /\ Len(Tail(s)) = Len(s) - 1
         /\ \A j \in 1..Len(s) - 1 : Tail(s)[j] = s[j + 1] /\ j + 1 \in 1..Len(s)
         /\ ToSet(s) = {s[1]} \cup ToSet(Tail(s))
<1> DEFINE t == Tail(s)
<1>1. /\ t \in Seq(S) /\ Head(s) = s[1] /\ s[1] \in S
      /\ Len(s) \in Nat \ {0} /\ Len(t) = Len(s) - 1
      /\ DOMAIN s = 1..Len(s) /\ DOMAIN t = 1..Len(t)
  OBVIOUS
<1>2. \A j \in 1..Len(s) - 1 : t[j] = s[j + 1] /\ j + 1 \in 1..Len(s)
  OBVIOUS
<1> HIDE DEF t
<1>3. ASSUME NEW x \in ToSet(s) PROVE x \in {s[1]} \cup ToSet(t)
  <2>1. PICK j \in 1..Len(s) : s[j] = x
    BY <1>1 DEF ToSet
  <2>2. CASE j = 1
    BY <2>1, <2>2
  <2>3. CASE j # 1
    <3>1. j - 1 \in 1..Len(s) - 1 /\ j - 1 \in DOMAIN t /\ (j - 1) + 1 = j
      BY <1>1, <2>3
    <3>2. t[j - 1] = x
      BY <1>2, <2>1, <3>1
    <3> QED  BY <3>1, <3>2 DEF ToSet
  <2> QED  BY <2>2, <2>3
<1>4. s[1] \in ToSet(s)
  BY <1>1 DEF ToSet
<1>5. ASSUME NEW x \in ToSet(t) PROVE x \in ToSet(s)
  <2>1. PICK j \in 1..Len(s) - 1 : t[j] = x
    BY <1>1, <1>5 DEF ToSet
  <2> QED  BY <1>1, <1>2, <2>1 DEF ToSet
<1>6. ToSet(s) = {s[1]} \cup ToSet(t)
  BY <1>3, <1>4, <1>5
<1> QED  BY <1>1, <1>2, <1>6 DEF t

LEMMA OneBehind ==
  ASSUME NEW S, NEW s \in Seq(S), NEW x \in S
  PROVE  /\ Append(s, x) \in Seq(S) /\ Len(Append(s, x)) = Len(s) + 1 /\ Len(s) \in Nat
         /\ \A j \in 1..Len(s) : Append(s, x)[j] = s[j]
         /\ Append(s, x)[Len(s) + 1] = x
         /\ ToSet(Append(s, x)) = ToSet(s) \cup {x}
<1> DEFINE t == Append(s, x)
<1>1. /\ t \in Seq(S) /\ Len(t) = Len(s) + 1 /\ Len(s) \in Nat
      /\ DOMAIN s = 1..Len(s) /\ DOMAIN t = 1..Len(s) + 1
      /\ \A j \in 1..Len(s) : t[j] = s[j]
      /\ t[Len(s) + 1] = x
  OBVIOUS
<1> HIDE DEF t
<1>2. \A j \in 1..Len(s) + 1 : j \in 1..Len(s) \/ j = Len(s) + 1
  BY <1>1
<1>3. 1..Len(s) \subseteq 1..Len(s) + 1 /\ Len(s) + 1 \in 1..Len(s) + 1
  BY <1>1
<1>4. ToSet(t) = ToSet(s) \cup {x}
  <2>1. \A y \in ToSet(t) : y \in ToSet(s) \cup {x}
    BY <1>1, <1>2 DEF ToSet
  <2>2. \A y \in ToSet(s) : y \in ToSet(t)
    BY <1>1, <1>3 DEF ToSet
  <2>3. x \in ToSet(t)
    BY <1>1, <1>3 DEF ToSet
  <2> QED  BY <2>1, <2>2, <2>3
<1> QED  BY <1>1, <1>4 DEF t

LEMMA OneAfterAnother ==
  ASSUME NEW S, NEW s \in Seq(S), NEW t \in Seq(S)
  PROVE  /\ s \o t \in Seq(S)
         /\ \A j \in 1..Len(s) + Len(t) :
              \/ j \in 1..Len(s) /\ (s \o t)[j] = s[j]
              \/ j \notin 1..Len(s) /\ j - Len(s) \in 1..Len(t) /\ (s \o t)[j] = t[j - Len(s)]
         /\ DOMAIN (s \o t) = 1..Len(s) + Len(t)
         /\ ToSet(s \o t) = ToSet(s) \cup ToSet(t)
<1> DEFINE u == s \o t
<1>1. /\ Len(s) \in Nat /\ Len(t) \in Nat /\ u \in Seq(S) /\ Len(u) = Len(s) + Len(t)
      /\ DOMAIN s = 1..Len(s) /\ DOMAIN t = 1..Len(t) /\ DOMAIN u = 1..Len(s) + Len(t)
  OBVIOUS
<1>2. \A j \in 1..Len(s) + Len(t) : u[j] = IF j <= Len(s) THEN s[j] ELSE t[j - Len(s)]
  OBVIOUS
<1> HIDE DEF u
<1>3. \A j \in 1..Len(s) + Len(t) :
        \/ j \in 1..Len(s) /\ u[j] = s[j]
        \/ j \notin 1..Len(s) /\ j - Len(s) \in 1..Len(t) /\ u[j] = t[j - Len(s)]
  BY <1>1, <1>2
<1>4. \A j \in 1..Len(s) : j \in 1..Len(s) + Len(t) /\ u[j] = s[j]
  BY <1>1, <1>2
<1>5. \A j \in 1..Len(t) : j + Len(s) \in 1..Len(s) + Len(t) /\ u[j + Len(s)] = t[j]
  <2> SUFFICES ASSUME NEW j \in 1..Len(t)
               PROVE  j + Len(s) \in 1..Len(s) + Len(t) /\ u[j + Len(s)] = t[j]
    OBVIOUS
  <2>1. j + Len(s) \in 1..Len(s) + Len(t) /\ ~(j + Len(s) <= Len(s)) /\ (j + Len(s)) - Len(s) = j
    BY <1>1
  <2> QED  BY <1>2, <2>1
<1>6. ToSet(u) = ToSet(s) \cup ToSet(t)
  <2>1. \A y \in ToSet(u) : y \in ToSet(s) \cup ToSet(t)
    BY <1>1, <1>3 DEF ToSet
  <2>2. \A y \in ToSet(s) : y \in ToSet(u)
    BY <1>1, <1>4 DEF ToSet
  <2>3. \A y \in ToSet(t) : y \in ToSet(u)
    BY <1>1, <1>5 DEF ToSet
  <2> QED  BY <2>1, <2>2, <2>3
<1> QED  BY <1>1, <1>3, <1>6 DEF u

Ascending(s) == \A i, j \in DOMAIN s : i < j => s[i] < s[j]

LEMMA AscendingLists ==
  ASSUME NEW s \in Seq(Nat), NEW t \in Seq(Nat)
  PROVE  /\ Ascending(s) /\ Ascending(t) /\ (\A x \in ToSet(s), y \in ToSet(t) : x < y)
              => Ascending(s \o t)
         /\ Ascending(s) /\ s # <<>> => /\ Ascending(Tail(s))
                                        /\ \A y \in ToSet(Tail(s)) : s[1] < y
         /\ \A x \in Nat : Ascending(s) /\ (\A y \in ToSet(s) : y < x) => Ascending(Append(s, x))
<1>1. /\ DOMAIN s = 1..Len(s) /\ DOMAIN t = 1..Len(t) /\ Len(s) \in Nat /\ Len(t) \in Nat
      /\ \A j \in 1..Len(s) : s[j] \in Nat
  OBVIOUS
<1>2. ASSUME Ascending(s), Ascending(t), \A x \in ToSet(s), y \in ToSet(t) : x < y
      PROVE  Ascending(s \o t)
  <2> DEFINE u == s \o t
  <2>1. /\ DOMAIN u = 1..Len(s) + Len(t)
        /\ \A j \in 1..Len(s) + Len(t) :
             \/ j \in 1..Len(s) /\ u[j] = s[j]
             \/ j \notin 1..Len(s) /\ j - Len(s) \in 1..Len(t) /\ u[j] = t[j - Len(s)]
    BY OneAfterAnother
  <2> HIDE DEF u
  <2>2. ASSUME NEW i \in 1..Len(s) + Len(t), NEW j \in 1..Len(s) + Len(t), i < j
        PROVE  u[i] < u[j]
    <3>1. CASE i \in 1..Len(s) /\ j \in 1..Len(s)
      BY <1>1, <1>2, <2>1, <2>2, <3>1 DEF Ascending
    <3>2. CASE i \in 1..Len(s) /\ j \notin 1..Len(s)
      BY <1>1, <1>2, <2>1, <3>2 DEF ToSet
    <3>3. CASE i \notin 1..Len(s)
      <4>1. j \notin 1..Len(s) /\ i - Len(s) < j - Len(s)
        BY <1>1, <2>2, <3>3
      <4> QED  BY <1>1, <1>2, <2>1, <3>3, <4>1 DEF Ascending
    <3> QED  BY <3>1, <3>2, <3>3
  <2> QED  BY <2>1, <2>2 DEF Ascending, u
<1>3. ASSUME Ascending(s), s # <<>>
      PROVE  Ascending(Tail(s)) /\ \A y \in ToSet(Tail(s)) : s[1] < y
  <2>1. /\ Len(s) \in Nat \ {0} /\ Len(Tail(s)) = Len(s) - 1 /\ DOMAIN Tail(s) = 1..Len(s) - 1
        /\ \A j \in 1..Len(s) - 1 : Tail(s)[j] = s[j + 1] /\ j + 1 \in 1..Len(s)
    BY <1>3, FirstAndRest
  <2>2. ASSUME NEW i \in 1..Len(s) - 1, NEW j \in 1..Len(s) - 1, i < j
        PROVE  s[i + 1] < s[j + 1]
    <3>1. i + 1 \in DOMAIN s /\ j + 1 \in DOMAIN s /\ i + 1 < j + 1
      BY <1>1, <2>1, <2>2
    <3> QED  BY <1>3, <3>1 DEF Ascending
  <2>3. ASSUME NEW j \in 1..Len(s) - 1 PROVE s[1] < s[j + 1]
    <3>1. 1 \in 1..Len(s) /\ j + 1 \in 1..Len(s) /\ 1 < j + 1
      BY <1>1, <2>1
    <3> QED  BY <1>1, <1>3, <3>1 DEF Ascending
  <2> QED  BY <2>1, <2>2, <2>3 DEF Ascending, ToSet
<1>4. ASSUME NEW x \in Nat, Ascending(s), \A y \in ToSet(s) : y < x
      PROVE  Ascending(Append(s, x))
  <2>1. /\ DOMAIN Append(s, x) = 1..Len(s) + 1
        /\ \A j \in 1..Len(s) : Append(s, x)[j] = s[j]
        /\ Append(s, x)[Len(s) + 1] = x
    OBVIOUS
  <2>2. \A j \in 1..Len(s) : s[j] < x
    BY <1>1, <1>4 DEF ToSet
  <2>3. ASSUME NEW i \in 1..Len(s) + 1, NEW j \in 1..Len(s) + 1, i < j
        PROVE  Append(s, x)[i] < Append(s, x)[j]
    <3>1. i \in 1..Len(s) /\ (j \in 1..Len(s) \/ j = Len(s) + 1)
      BY <1>1, <2>3
    <3> QED  BY <1>1, <1>4, <2>1, <2>2, <2>3, <3>1 DEF Ascending
  <2> QED  BY <2>1, <2>3 DEF Ascending
<1> QED  BY <1>2, <1>3, <1>4

-----------------------------------------------------------------------------
(* HLSDownload, in the slots of Live.                                      *)
l_shown    == s1
l_context  == s2
l_running  == s3
l_urlset   == s4
l_lines    == s5
l_pending  == s6
l_urls     == s7
l_fetching == s8
l_ts       == s9
l_met      == s10
l_lost     == s11

LivePrefix  == [segment \in 1..LastSegment |-> segment % 3]
OldestShown == IF l_shown < Window THEN 1 ELSE l_shown - Window + 1

LiveTypes ==
  /\ l_shown \in 0..LastSegment
  /\ l_lines \in Seq(1..LastSegment) /\ l_urls \in Seq(1..LastSegment)
  /\ l_ts \in Seq(1..LastSegment)
  /\ l_pending \in 0..LastSegment
  /\ l_met \subseteq 1..LastSegment /\ l_lost \subseteq l_met
  /\ l_urlset = {LivePrefix[s] : s \in l_met}
  /\ l_context # "ready" => l_met = {} /\ l_lines = <<>> /\ l_pending = 0
  /\ l_fetching => l_urls # <<>>

(* What the playlist says follows what was met: a line that was not met    *)
(* comes after all that were, and the server does not show an older one.   *)
LinesFollow ==
  /\ \A i \in 1..Len(l_lines) : l_lines[i] = l_lines[1] + (i - 1)
  /\ \A s \in ToSet(l_lines) : s \notin l_met => \A m \in l_met : m < s
  /\ l_lines # <<>> => \A s \in 1..LastSegment : OldestShown <= s /\ s < l_lines[1] => s \in l_met
  /\ \A m \in l_met : \A s \in 1..LastSegment :
       OldestShown <= s /\ s < m => s \in l_met \/ s \in ToSet(l_lines)

LiveWaiting  == IF l_pending = 0 THEN {} ELSE {l_pending}
LiveShadowed == {s \in l_met : \E before \in l_met : before < s /\ LivePrefix[before] = LivePrefix[s]}

WayInOrder ==
  /\ Ascending(l_ts) /\ Ascending(l_urls)
  /\ \A x \in ToSet(l_ts), y \in ToSet(l_urls) \cup LiveWaiting : x < y
  /\ \A x \in ToSet(l_urls), y \in LiveWaiting : x < y
  /\ ToSet(l_ts) \cup ToSet(l_urls) \cup LiveWaiting = l_met \ (l_lost \cup LiveShadowed)

LiveInv == LiveTypes /\ LinesFollow /\ WayInOrder

(* Fewer lines with the same numbers, and what was met in place of them.   *)
LEMMA LiveInit == Live!Init => LiveInv
<1> SUFFICES ASSUME Live!Init PROVE LiveInv  OBVIOUS
<1>1. /\ l_shown = 0 /\ l_lines = <<>> /\ l_urls = <<>> /\ l_ts = <<>> /\ l_pending = 0
      /\ l_met = {} /\ l_lost = {} /\ l_urlset = {} /\ l_fetching = FALSE
  BY DEF Live!Init, Live!NoSegment, l_shown, l_lines, l_urls, l_ts, l_pending, l_met, l_lost,
         l_urlset, l_fetching
<1>2. LiveTypes
  BY <1>1, StreamsAssumption DEF LiveTypes
<1>3. ToSet(<<>>) = {}
  BY DEF ToSet
<1>4. LinesFollow
  BY <1>1, <1>3 DEF LinesFollow
<1>5. WayInOrder
  BY <1>1, <1>3 DEF WayInOrder, Ascending, LiveWaiting, LiveShadowed
<1> QED  BY <1>2, <1>4, <1>5 DEF LiveInv

(* Segments that are all of some set, each with the numbers of lines.      *)
LEMMA LiveNumbers ==
  ASSUME LiveTypes
  PROVE  /\ ToSet(l_ts) \subseteq 1..LastSegment /\ ToSet(l_urls) \subseteq 1..LastSegment
         /\ ToSet(l_lines) \subseteq 1..LastSegment
         /\ l_ts \in Seq(Nat) /\ l_urls \in Seq(Nat) /\ l_lines \in Seq(Nat)
<1>1. \A s \in Seq(1..LastSegment) : ToSet(s) \subseteq 1..LastSegment /\ s \in Seq(Nat)
  BY StreamsAssumption DEF ToSet
<1> QED  BY <1>1 DEF LiveTypes

(* The server shows more, and a window of what it shows is fetched.        *)
LEMMA LivePublishes == LiveInv /\ (Live!Publish \/ Live!GetData) => LiveInv'
<1> SUFFICES ASSUME LiveInv, Live!Publish \/ Live!GetData PROVE LiveInv'  OBVIOUS
<1> USE StreamsAssumption
<1>0. LiveTypes /\ LinesFollow /\ WayInOrder
  BY DEF LiveInv
<1>1. /\ UNCHANGED <<l_pending, l_met, l_lost, l_urls, l_ts>>
      /\ UNCHANGED <<l_context, l_fetching, l_urlset>>
  BY DEF Live!Publish, Live!GetData, Live!urlSide, Live!tsSide,
         l_pending, l_met, l_lost, l_urls, l_ts, l_context, l_fetching, l_urlset
<1>2. WayInOrder'
  BY <1>0, <1>1 DEF WayInOrder, Ascending, LiveWaiting, LiveShadowed, LivePrefix
<1>3. CASE Live!Publish
  <2>1. l_shown < LastSegment /\ l_shown' = l_shown + 1 /\ l_lines' = l_lines
    BY <1>3 DEF Live!Publish, Live!urlSide, l_shown, l_lines
  <2>2. LiveTypes'
    BY <1>0, <1>1, <2>1 DEF LiveTypes, LivePrefix
  <2>3. \A s \in 1..LastSegment : OldestShown' <= s => OldestShown <= s
    BY <1>0, <2>1 DEF OldestShown, LiveTypes
  <2>4. LinesFollow'
    BY <1>0, <1>1, <2>1, <2>3 DEF LinesFollow
  <2> QED  BY <1>2, <2>2, <2>4 DEF LiveInv
<1>4. CASE Live!GetData
  <2> DEFINE count == IF l_shown < Window THEN l_shown ELSE Window
             base  == IF l_shown < Window THEN 0 ELSE l_shown - Window
             new   == [i \in 1..count |-> base + i]
  <2>1. /\ l_context = "ready" /\ l_lines = <<>> /\ l_shown' = l_shown
        /\ l_lines' = new /\ new # <<>>
    BY <1>4 DEF Live!GetData, Live!Parked, l_context, l_lines, l_shown
  <2>2. /\ count \in Nat /\ base \in Nat /\ base + count <= LastSegment
        /\ OldestShown = base + 1 /\ OldestShown' = base + 1
    BY <1>0, <2>1 DEF LiveTypes, OldestShown
  <2>3. /\ new \in Seq(1..LastSegment) /\ Len(new) = count /\ DOMAIN new = 1..count
        /\ \A i \in 1..count : new[i] = base + i
    BY <2>2
  <2> HIDE DEF new, count, base
  <2>4. LiveTypes'
    BY <1>0, <1>1, <2>1, <2>3 DEF LiveTypes, LivePrefix
  <2>5. count # 0
    BY <2>1, <2>2, <2>3
  <2>6. \A i \in 1..count : new[i] = new[1] + (i - 1)
    BY <2>2, <2>3, <2>5
  <2>7. ASSUME NEW s \in ToSet(new), s \notin l_met, NEW m \in l_met PROVE m < s
    <3>1. PICK i \in 1..count : s = base + i
      BY <2>2, <2>3 DEF ToSet
    <3>2. /\ s \in 1..LastSegment /\ OldestShown <= s /\ s # m
          /\ m \in 1..LastSegment
      <4>1. s \in 1..LastSegment /\ base + 1 <= s
        BY <2>2, <3>1
      <4> QED  BY <1>0, <2>2, <2>7, <4>1 DEF LiveTypes
    <3>3. ~(s < m)
      BY <1>0, <2>1, <2>7, <3>2 DEF LinesFollow, ToSet
    <3> QED  BY <3>2, <3>3
  <2>8. new[1] = base + 1 /\ ~(\E s \in 1..LastSegment : base + 1 <= s /\ s < new[1])
    BY <2>2, <2>3, <2>5
  <2>9. \A m \in l_met : \A s \in 1..LastSegment : base + 1 <= s /\ s < m => s \in l_met
    BY <1>0, <2>1, <2>2 DEF LinesFollow, ToSet
  <2>10. LinesFollow'
    BY <1>1, <2>1, <2>2, <2>3, <2>6, <2>7, <2>8, <2>9 DEF LinesFollow
  <2> QED  BY <1>2, <2>4, <2>10 DEF LiveInv
<1> QED  BY <1>3, <1>4

LEMMA LiveParses == LiveInv /\ Live!ParseLine => LiveInv'
<1> SUFFICES ASSUME LiveInv, Live!ParseLine PROVE LiveInv'  OBVIOUS
<1> USE StreamsAssumption
<1> DEFINE h == Head(l_lines)
<1>0. LiveTypes /\ LinesFollow /\ WayInOrder
  BY DEF LiveInv
<1>1. /\ UNCHANGED <<l_shown, l_context, l_lost, l_urls, l_ts, l_fetching>>
      /\ l_lines # <<>> /\ l_pending = 0 /\ l_lines' = Tail(l_lines)
      /\ l_met' = l_met \cup {h}
      /\ l_pending' = IF LivePrefix[h] \in l_urlset THEN 0 ELSE h
      /\ l_urlset' = l_urlset \cup {LivePrefix[h]}
  BY DEF Live!ParseLine, Live!tsSide, Live!NoSegment, Live!AddSegment, LivePrefix,
         l_shown, l_context, l_lost, l_urls, l_ts, l_fetching, l_lines, l_pending, l_met, l_urlset
<1>2. /\ Tail(l_lines) \in Seq(1..LastSegment) /\ h = l_lines[1] /\ h \in 1..LastSegment
      /\ Len(l_lines) \in Nat \ {0} /\ Len(Tail(l_lines)) = Len(l_lines) - 1
      /\ \A j \in 1..Len(l_lines) - 1 : Tail(l_lines)[j] = l_lines[j + 1] /\ j + 1 \in 1..Len(l_lines)
      /\ ToSet(l_lines) = {h} \cup ToSet(Tail(l_lines))
  BY <1>0, <1>1, FirstAndRest DEF LiveTypes
<1> HIDE DEF h
<1>3. \A j \in 1..Len(l_lines) - 1 : Tail(l_lines)[j] = h + j
  <2> SUFFICES ASSUME NEW j \in 1..Len(l_lines) - 1 PROVE Tail(l_lines)[j] = h + j
    OBVIOUS
  <2>1. l_lines[j + 1] = l_lines[1] + ((j + 1) - 1)
    BY <1>0, <1>2 DEF LinesFollow
  <2> QED  BY <1>2, <2>1
<1>4. l_met \subseteq 1..LastSegment /\ l_lost \subseteq l_met
  BY <1>0 DEF LiveTypes
<1>5. h \notin l_met => \A m \in l_met : m < h
  BY <1>0, <1>2 DEF LinesFollow
<1>6. LiveTypes'
  <2>1. LivePrefix' = LivePrefix
    BY DEF LivePrefix
  <2>2. l_urlset' = {LivePrefix'[s] : s \in l_met'}
    <3> HIDE DEF LivePrefix
    <3> QED  BY <1>0, <1>1, <2>1 DEF LiveTypes
  <2>3. l_pending' \in 0..LastSegment /\ l_met' \subseteq 1..LastSegment /\ l_lost' \subseteq l_met'
    <3>1. h \in 1..LastSegment /\ h \in 0..LastSegment /\ 0 \in 0..LastSegment
      BY <1>2
    <3>2. l_pending' \in 0..LastSegment
      BY <1>1, <3>1
    <3> QED  BY <1>1, <1>4, <3>1, <3>2
  <2>4. l_lines' \in Seq(1..LastSegment)
    BY <1>1, <1>2
  <2>5. l_context = "ready"
    BY <1>0, <1>1 DEF LiveTypes
  <2> QED  BY <1>0, <1>1, <2>2, <2>3, <2>4, <2>5 DEF LiveTypes
<1>7. LinesFollow'
  <2>1. \A i \in 1..Len(l_lines) - 1 : Tail(l_lines)[i] = Tail(l_lines)[1] + (i - 1)
    <3> SUFFICES ASSUME NEW i \in 1..Len(l_lines) - 1
                 PROVE  Tail(l_lines)[i] = Tail(l_lines)[1] + (i - 1)
      OBVIOUS
    <3>1. 1 \in 1..Len(l_lines) - 1
      BY <1>2
    <3>2. Tail(l_lines)[i] = h + i /\ Tail(l_lines)[1] = h + 1
      BY <1>3, <3>1
    <3>3. h + i = (h + 1) + (i - 1)
      BY <1>2
    <3> QED  BY <3>2, <3>3
  <2>2. ASSUME NEW s \in ToSet(Tail(l_lines)), s \notin l_met', NEW m \in l_met' PROVE m < s
    <3>1. PICK j \in 1..Len(l_lines) - 1 : s = h + j
      <4>1. DOMAIN Tail(l_lines) = 1..Len(l_lines) - 1
        BY <1>2
      <4> QED  BY <1>3, <2>2, <4>1 DEF ToSet
    <3>2. h < s
      BY <1>2, <3>1
    <3> QED  BY <1>0, <1>1, <1>2, <2>2, <3>2 DEF LinesFollow
  <2>3. ASSUME Tail(l_lines) # <<>>, NEW s \in 1..LastSegment,
               OldestShown <= s, s < Tail(l_lines)[1]
        PROVE  s \in l_met'
    <3>1. Len(l_lines) - 1 # 0
      <4>1. \A t \in Seq(1..LastSegment) : t # <<>> => Len(t) # 0
        OBVIOUS
      <4> QED  BY <1>2, <2>3, <4>1
    <3>2. Tail(l_lines)[1] = h + 1
      BY <1>2, <1>3, <3>1
    <3>3. s < h \/ s = h
      BY <1>2, <2>3, <3>2
    <3> QED  BY <1>0, <1>1, <1>2, <2>3, <3>3 DEF LinesFollow
  <2>4. ASSUME NEW m \in l_met', NEW s \in 1..LastSegment, OldestShown <= s, s < m
        PROVE  s \in l_met' \/ s \in ToSet(Tail(l_lines))
    <3>1. CASE m = h
      BY <1>0, <1>1, <1>2, <2>4, <3>1 DEF LinesFollow
    <3>2. CASE m \in l_met
      BY <1>0, <1>1, <1>2, <2>4, <3>2 DEF LinesFollow
    <3> QED  BY <1>1, <2>4, <3>1, <3>2
  <2>5. OldestShown' = OldestShown
    BY <1>1 DEF OldestShown
  <2> QED  BY <1>1, <1>2, <2>1, <2>2, <2>3, <2>4, <2>5 DEF LinesFollow
<1>8. WayInOrder'
  <2>1. CASE h \in l_met
    <3>1. l_met' = l_met /\ LivePrefix[h] \in l_urlset
      BY <1>0, <1>1, <2>1 DEF LiveTypes
    <3>2. l_pending' = l_pending
      BY <1>1, <3>1
    <3> QED  BY <1>0, <1>1, <3>1, <3>2
             DEF WayInOrder, Ascending, LiveWaiting, LiveShadowed, LivePrefix
  <2>2. CASE h \notin l_met
    <3>1. /\ \A x \in l_met : x < h /\ x \in Nat
          /\ h \notin l_lost /\ h \in Nat
      BY <1>2, <1>4, <1>5, <2>2
    <3>2. LiveShadowed' = LiveShadowed \cup (IF LivePrefix[h] \in l_urlset THEN {h} ELSE {})
      <4>1. LivePrefix[h] \in l_urlset <=> \E before \in l_met : before < h /\ LivePrefix[before] = LivePrefix[h]
        BY <1>0, <3>1 DEF LiveTypes
      <4>2. \A s \in l_met : ~(h < s)
        BY <3>1
      <4>3. ~(h < h)
        BY <3>1
      <4>4. LivePrefix' = LivePrefix
        BY DEF LivePrefix
      <4> HIDE DEF LivePrefix
      <4> QED  BY <1>1, <4>1, <4>2, <4>3, <4>4 DEF LiveShadowed
    <3>3. ToSet(l_ts) \cup ToSet(l_urls) = l_met \ (l_lost \cup LiveShadowed)
      BY <1>0, <1>1 DEF WayInOrder, LiveWaiting
    <3>4. LiveWaiting' = IF LivePrefix[h] \in l_urlset THEN {} ELSE {h}
      <4> HIDE DEF LivePrefix
      <4>1. CASE LivePrefix[h] \in l_urlset
        BY <1>1, <4>1 DEF LiveWaiting
      <4>2. CASE LivePrefix[h] \notin l_urlset
        <5>1. l_pending' = h /\ h # 0
          BY <1>1, <1>2, <4>2
        <5> QED  BY <4>2, <5>1 DEF LiveWaiting
      <4> QED  BY <4>1, <4>2
    <3>5. LiveShadowed \subseteq l_met
      BY DEF LiveShadowed
    <3>6. /\ \A x \in ToSet(l_ts) : x < h
          /\ \A x \in ToSet(l_urls) : x < h
      BY <3>1, <3>3
    <3>7. /\ \A x \in ToSet(l_ts), y \in ToSet(l_urls) : x < y
          /\ Ascending(l_ts) /\ Ascending(l_urls)
      BY <1>0 DEF WayInOrder
    <3>8. /\ (ToSet(l_ts))' = ToSet(l_ts) /\ (ToSet(l_urls))' = ToSet(l_urls)
          /\ Ascending(l_ts)' /\ Ascending(l_urls)' /\ l_lost' = l_lost
      BY <1>1, <3>7 DEF Ascending
    <3>9. (ToSet(l_ts) \cup ToSet(l_urls)) \cup LiveWaiting' = l_met' \ (l_lost \cup LiveShadowed')
      BY <1>1, <2>2, <3>1, <3>2, <3>3, <3>4, <3>5
    <3>10. /\ \A x \in ToSet(l_ts), y \in ToSet(l_urls) \cup LiveWaiting' : x < y
           /\ \A x \in ToSet(l_urls), y \in LiveWaiting' : x < y
      BY <3>4, <3>6, <3>7
    <3> QED  BY <3>8, <3>9, <3>10 DEF WayInOrder
  <2> QED  BY <2>1, <2>2
<1> QED  BY <1>6, <1>7, <1>8 DEF LiveInv

\* What does not move a segment.
LEMMA LiveMoves ==
  ASSUME LiveInv,
         \/ \E ok \in BOOLEAN : Live!SetURL(ok)
         \/ Live!ProcessInput \/ Live!Start \/ Live!StopUrl \/ Live!StopTS
         \/ UNCHANGED <<s1, s2, s3, s4, s5, s6, s7, s8, s9, s10, s11>>
  PROVE  LiveInv'
<1>0. LiveTypes /\ LinesFollow /\ WayInOrder
  BY DEF LiveInv
<1>1. UNCHANGED <<l_shown, l_lines, l_pending, l_met, l_lost, l_urls, l_ts>>
  BY DEF Live!SetURL, Live!ProcessInput, Live!Start, Live!StopUrl, Live!StopTS,
         Live!urlSide, Live!tsSide,
         l_shown, l_lines, l_pending, l_met, l_lost, l_urls, l_ts
<1>2. /\ l_fetching' => l_urls # <<>>
      /\ \/ l_context' = l_context /\ l_urlset' = l_urlset
         \/ l_context # "ready" /\ l_urlset' = {}
  BY <1>0
  DEF Live!SetURL, Live!ProcessInput, Live!Start, Live!StopUrl, Live!StopTS,
      Live!urlSide, Live!tsSide, LiveTypes, l_context, l_fetching, l_urlset, l_urls
<1>3. LivePrefix' = LivePrefix
  BY DEF LivePrefix
<1>4. LiveTypes'
  <2> HIDE DEF LivePrefix
  <2>1. l_urlset' = {LivePrefix[s] : s \in l_met}
    <3>1. CASE l_context' = l_context /\ l_urlset' = l_urlset
      BY <1>0, <3>1 DEF LiveTypes
    <3>2. CASE l_context # "ready" /\ l_urlset' = {}
      BY <1>0, <3>2 DEF LiveTypes
    <3> QED  BY <1>2, <3>1, <3>2
  <2>2. l_context' # "ready" => l_met = {} /\ l_lines = <<>> /\ l_pending = 0
    BY <1>0, <1>2 DEF LiveTypes
  <2> QED  BY <1>0, <1>1, <1>2, <1>3, <2>1, <2>2 DEF LiveTypes
<1>5. LinesFollow'
  BY <1>0, <1>1 DEF LinesFollow, OldestShown
<1>6. WayInOrder'
  <2> HIDE DEF LivePrefix
  <2> QED  BY <1>0, <1>1, <1>3 DEF WayInOrder, Ascending, LiveWaiting, LiveShadowed
<1> QED  BY <1>4, <1>5, <1>6 DEF LiveInv

\* Segments on the way: all of the same numbers.
LEMMA WayNumbers ==
  ASSUME LiveInv
  PROVE  /\ LiveTypes /\ LinesFollow /\ WayInOrder
         /\ l_ts \in Seq(Nat) /\ l_urls \in Seq(Nat)
         /\ ToSet(l_ts) \subseteq Nat /\ ToSet(l_urls) \subseteq Nat /\ LiveWaiting \subseteq Nat
         /\ ToSet(l_ts) \cap ToSet(l_urls) = {} /\ ToSet(l_ts) \cap LiveWaiting = {}
         /\ ToSet(l_urls) \cap LiveWaiting = {}
<1> USE StreamsAssumption
<1>1. LiveTypes /\ LinesFollow /\ WayInOrder
  BY DEF LiveInv
<1>2. /\ l_ts \in Seq(Nat) /\ l_urls \in Seq(Nat)
      /\ ToSet(l_ts) \subseteq 1..LastSegment /\ ToSet(l_urls) \subseteq 1..LastSegment
  BY <1>1, LiveNumbers
<1>3. LiveWaiting \subseteq Nat
  BY <1>1 DEF LiveTypes, LiveWaiting
<1>4. ToSet(l_ts) \subseteq Nat /\ ToSet(l_urls) \subseteq Nat
  BY <1>2
<1>5. \A x \in Nat : ~(x < x)
  OBVIOUS
<1>6. /\ ToSet(l_ts) \cap ToSet(l_urls) = {} /\ ToSet(l_ts) \cap LiveWaiting = {}
      /\ ToSet(l_urls) \cap LiveWaiting = {}
  <2>1. /\ \A x \in ToSet(l_ts), y \in ToSet(l_urls) \cup LiveWaiting : x < y
        /\ \A x \in ToSet(l_urls), y \in LiveWaiting : x < y
    BY <1>1 DEF WayInOrder
  <2> QED  BY <1>4, <1>5, <2>1
<1> QED  BY <1>1, <1>2, <1>3, <1>4, <1>6

\* A segment that waits for a buffer gets one, or its procedure is stopping.
LEMMA LiveOutputs == LiveInv /\ Live!OutputSegment => LiveInv'
<1> SUFFICES ASSUME LiveInv, Live!OutputSegment PROVE LiveInv'  OBVIOUS
<1>0. /\ LiveTypes /\ LinesFollow /\ WayInOrder
      /\ l_ts \in Seq(Nat) /\ l_urls \in Seq(Nat)
      /\ ToSet(l_ts) \subseteq Nat /\ ToSet(l_urls) \subseteq Nat /\ LiveWaiting \subseteq Nat
      /\ ToSet(l_ts) \cap ToSet(l_urls) = {} /\ ToSet(l_ts) \cap LiveWaiting = {}
      /\ ToSet(l_urls) \cap LiveWaiting = {}
  BY WayNumbers
<1>1. /\ UNCHANGED <<l_shown, l_context, l_lines, l_met, l_ts, l_fetching, l_urlset>>
      /\ l_pending # 0 /\ l_pending' = 0
      /\ \/ l_urls' = Append(l_urls, l_pending) /\ l_lost' = l_lost
         \/ l_urls' = l_urls /\ l_lost' = l_lost \cup {l_pending}
  BY DEF Live!OutputSegment, Live!tsSide, Live!NoSegment, l_shown, l_context, l_lines, l_met,
         l_ts, l_fetching, l_urlset, l_pending, l_urls, l_lost
<1>2. /\ l_pending \in 1..LastSegment /\ l_pending \in Nat
      /\ LiveWaiting = {l_pending} /\ LiveWaiting' = {}
  BY <1>0, <1>1, StreamsAssumption DEF LiveTypes, LiveWaiting
<1>3. l_pending \in l_met
  BY <1>0, <1>2 DEF WayInOrder
<1>4. LivePrefix' = LivePrefix /\ LiveShadowed' = LiveShadowed
  BY <1>1 DEF LivePrefix, LiveShadowed
<1>5. LinesFollow'
  BY <1>0, <1>1 DEF LinesFollow, OldestShown
<1>6. /\ Append(l_urls, l_pending) \in Seq(1..LastSegment)
      /\ Append(l_urls, l_pending) # <<>>
      /\ ToSet(Append(l_urls, l_pending)) = ToSet(l_urls) \cup {l_pending}
  <2>1. l_urls \in Seq(1..LastSegment)
    BY <1>0 DEF LiveTypes
  <2> DEFINE S == 1..LastSegment
  <2>a. l_urls \in Seq(S) /\ l_pending \in S
    BY <1>2, <2>1
  <2> HIDE DEF S
  <2>b. ToSet(Append(l_urls, l_pending)) = ToSet(l_urls) \cup {l_pending}
    BY <2>a, OneBehind
  <2>c. Append(l_urls, l_pending) \in Seq(S)
    BY <2>a
  <2>2. /\ Append(l_urls, l_pending) \in Seq(1..LastSegment)
        /\ ToSet(Append(l_urls, l_pending)) = ToSet(l_urls) \cup {l_pending}
    BY <2>b, <2>c DEF S
  <2>3. Append(l_urls, l_pending) # <<>>
    BY <1>2, <2>1
  <2> QED  BY <2>2, <2>3
<1>7. LiveTypes'
  <2> HIDE DEF LivePrefix
  <2>1. l_urls' \in Seq(1..LastSegment) /\ (l_fetching' => l_urls' # <<>>)
    BY <1>0, <1>1, <1>6 DEF LiveTypes
  <2>2. l_lost' \subseteq l_met'
    BY <1>0, <1>1, <1>3 DEF LiveTypes
  <2>3. l_pending' \in 0..LastSegment
    BY <1>1, StreamsAssumption
  <2> QED  BY <1>0, <1>1, <1>4, <2>1, <2>2, <2>3 DEF LiveTypes
<1>8. /\ \A x \in ToSet(l_ts), y \in ToSet(l_urls) \cup {l_pending} : x < y
      /\ \A x \in ToSet(l_urls) : x < l_pending
      /\ ToSet(l_ts) \cup ToSet(l_urls) \cup {l_pending} = l_met \ (l_lost \cup LiveShadowed)
      /\ Ascending(l_ts) /\ Ascending(l_urls)
  BY <1>0, <1>2 DEF WayInOrder
<1>9. WayInOrder'
  <2>1. Ascending(l_ts)' /\ (ToSet(l_ts))' = ToSet(l_ts)
    BY <1>1, <1>8 DEF Ascending
  <2>2. CASE l_urls' = Append(l_urls, l_pending) /\ l_lost' = l_lost
    <3>1. Ascending(Append(l_urls, l_pending))
      BY <1>0, <1>2, <1>8, AscendingLists
    <3>2. Ascending(l_urls)' /\ (ToSet(l_urls))' = ToSet(l_urls) \cup {l_pending}
      BY <1>6, <2>2, <3>1 DEF Ascending
    <3> QED  BY <1>1, <1>2, <1>4, <1>8, <2>1, <2>2, <3>2 DEF WayInOrder
  <2>3. CASE l_urls' = l_urls /\ l_lost' = l_lost \cup {l_pending}
    <3>1. Ascending(l_urls)' /\ (ToSet(l_urls))' = ToSet(l_urls)
      BY <1>8, <2>3 DEF Ascending
    <3>2. ToSet(l_ts) \cup ToSet(l_urls) = l_met \ ((l_lost \cup {l_pending}) \cup LiveShadowed)
      BY <1>0, <1>2, <1>8
    <3> QED  BY <1>1, <1>2, <1>4, <1>8, <2>1, <2>3, <3>1, <3>2 DEF WayInOrder
  <2> QED  BY <1>1, <2>2, <2>3
<1> QED  BY <1>5, <1>7, <1>9 DEF LiveInv

\* A download is over, and its buffer is given back.
LEMMA LiveDownloads ==
  ASSUME LiveInv, NEW ok \in BOOLEAN, Live!Downloaded(ok) PROVE LiveInv'
<1> DEFINE h    == l_urls[1]
           rest == Tail(l_urls)
<1>0. /\ LiveTypes /\ LinesFollow /\ WayInOrder
      /\ l_ts \in Seq(Nat) /\ l_urls \in Seq(Nat)
      /\ ToSet(l_ts) \subseteq Nat /\ ToSet(l_urls) \subseteq Nat /\ LiveWaiting \subseteq Nat
      /\ ToSet(l_ts) \cap ToSet(l_urls) = {} /\ ToSet(l_ts) \cap LiveWaiting = {}
      /\ ToSet(l_urls) \cap LiveWaiting = {}
  BY WayNumbers
<1>1. /\ UNCHANGED <<l_shown, l_context, l_lines, l_met, l_pending, l_urlset>>
      /\ l_fetching /\ l_fetching' = FALSE /\ l_urls' = rest
      /\ \/ l_ts' = Append(l_ts, Head(l_urls)) /\ l_lost' = l_lost
         \/ l_ts' = l_ts /\ l_lost' = l_lost \cup {Head(l_urls)}
  BY DEF Live!Downloaded, Live!urlSide, l_shown, l_context, l_lines, l_met,
         l_ts, l_fetching, l_urlset, l_pending, l_urls, l_lost
<1>2. l_urls # <<>> /\ l_urls \in Seq(1..LastSegment) /\ l_ts \in Seq(1..LastSegment)
  BY <1>0, <1>1 DEF LiveTypes
<1>3. /\ rest \in Seq(1..LastSegment) /\ Head(l_urls) = h /\ h \in 1..LastSegment
      /\ ToSet(l_urls) = {h} \cup ToSet(rest)
  BY <1>2, FirstAndRest
<1>4. Ascending(rest) /\ \A y \in ToSet(rest) : h < y
  BY <1>0, <1>2, AscendingLists DEF WayInOrder
<1> HIDE DEF h, rest
<1>5. LivePrefix' = LivePrefix /\ LiveShadowed' = LiveShadowed /\ LiveWaiting' = LiveWaiting
  BY <1>1 DEF LivePrefix, LiveShadowed, LiveWaiting
<1>6. LinesFollow'
  BY <1>0, <1>1 DEF LinesFollow, OldestShown
<1>7. /\ \A x \in ToSet(l_ts), y \in ({h} \cup ToSet(rest)) \cup LiveWaiting : x < y
      /\ \A x \in {h} \cup ToSet(rest), y \in LiveWaiting : x < y
      /\ ToSet(l_ts) \cup ({h} \cup ToSet(rest)) \cup LiveWaiting = l_met \ (l_lost \cup LiveShadowed)
      /\ Ascending(l_ts)
  BY <1>0, <1>3 DEF WayInOrder
<1>8. h \in l_met /\ h \in Nat /\ h \notin ToSet(rest)
  <2>1. h \in Nat /\ ~(h < h)
    BY <1>3, StreamsAssumption
  <2> QED  BY <1>4, <1>7, <2>1
<1>9. Ascending(l_urls)' /\ (ToSet(l_urls))' = ToSet(rest)
  BY <1>1, <1>4 DEF Ascending
<1>10. CASE l_ts' = Append(l_ts, Head(l_urls)) /\ l_lost' = l_lost
  <2> DEFINE S == 1..LastSegment
             u == Append(l_ts, h)
  <2>1. l_ts \in Seq(S) /\ h \in S
    BY <1>2, <1>3
  <2>2. ToSet(u) = ToSet(l_ts) \cup {h}
    <3> HIDE DEF S
    <3> QED  BY <2>1, OneBehind
  <2>3. u \in Seq(S)
    <3> HIDE DEF S
    <3> QED  BY <2>1
  <2>4. Ascending(u)
    BY <1>0, <1>7, <1>8, AscendingLists
  <2> HIDE DEF u
  <2>5. l_ts' = u
    BY <1>3, <1>10 DEF u
  <2>6. Ascending(l_ts)' /\ (ToSet(l_ts))' = ToSet(l_ts) \cup {h}
    BY <2>2, <2>4, <2>5 DEF Ascending
  <2>7. WayInOrder'
    BY <1>4, <1>5, <1>7, <1>9, <1>10, <1>1, <2>6 DEF WayInOrder
  <2>8. LiveTypes'
    <3> HIDE DEF LivePrefix
    <3> QED  BY <1>0, <1>1, <1>3, <1>5, <1>10, <2>3, <2>5 DEF LiveTypes
  <2> QED  BY <1>6, <2>7, <2>8 DEF LiveInv
<1>11. CASE l_ts' = l_ts /\ l_lost' = l_lost \cup {Head(l_urls)}
  <2>1. Ascending(l_ts)' /\ (ToSet(l_ts))' = ToSet(l_ts)
    BY <1>7, <1>11 DEF Ascending
  <2>2. h \notin ToSet(l_ts) /\ h \notin LiveWaiting
    BY <1>0, <1>3
  <2>3. (ToSet(l_ts) \cup ToSet(rest)) \cup LiveWaiting
          = l_met \ ((l_lost \cup {h}) \cup LiveShadowed)
    BY <1>7, <1>8, <2>2
  <2>4. WayInOrder'
    BY <1>1, <1>3, <1>5, <1>7, <1>9, <1>11, <2>1, <2>3 DEF WayInOrder
  <2>5. LiveTypes'
    <3> HIDE DEF LivePrefix
    <3> QED  BY <1>0, <1>1, <1>3, <1>5, <1>8, <1>11 DEF LiveTypes
  <2> QED  BY <1>6, <2>4, <2>5 DEF LiveInv
<1> QED  BY <1>1, <1>10, <1>11

\* What was passed on to a procedure that has stopped is dropped.
LEMMA LiveResets == LiveInv /\ Live!ResetInput => LiveInv'
<1> SUFFICES ASSUME LiveInv, Live!ResetInput PROVE LiveInv'  OBVIOUS
<1>0. /\ LiveTypes /\ LinesFollow /\ WayInOrder
      /\ ToSet(l_ts) \cap ToSet(l_urls) = {} /\ ToSet(l_urls) \cap LiveWaiting = {}
  BY WayNumbers
<1>1. /\ UNCHANGED <<l_shown, l_context, l_lines, l_met, l_pending, l_urlset, l_fetching, l_ts>>
      /\ ~l_fetching /\ l_urls' = <<>> /\ l_lost' = l_lost \cup ToSet(l_urls)
  BY DEF Live!ResetInput, Live!urlSide, Live!tsSide, l_shown, l_context, l_lines, l_met,
         l_ts, l_fetching, l_urlset, l_pending, l_urls, l_lost, ToSet, Live!ToSet
<1>2. LivePrefix' = LivePrefix /\ LiveShadowed' = LiveShadowed /\ LiveWaiting' = LiveWaiting
  BY <1>1 DEF LivePrefix, LiveShadowed, LiveWaiting
<1>3. LinesFollow'
  BY <1>0, <1>1 DEF LinesFollow, OldestShown
<1>4. (ToSet(l_urls))' = {} /\ Ascending(l_urls)'
  BY <1>1 DEF ToSet, Ascending
<1>5. /\ \A x \in ToSet(l_ts), y \in ToSet(l_urls) \cup LiveWaiting : x < y
      /\ ToSet(l_ts) \cup ToSet(l_urls) \cup LiveWaiting = l_met \ (l_lost \cup LiveShadowed)
      /\ Ascending(l_ts)
  BY <1>0 DEF WayInOrder
<1>6. Ascending(l_ts)' /\ (ToSet(l_ts))' = ToSet(l_ts)
  BY <1>1, <1>5 DEF Ascending
<1>7. (ToSet(l_ts) \cup {}) \cup LiveWaiting
        = l_met \ ((l_lost \cup ToSet(l_urls)) \cup LiveShadowed)
  BY <1>0, <1>5
<1>8. WayInOrder'
  BY <1>1, <1>2, <1>4, <1>5, <1>6, <1>7 DEF WayInOrder
<1>9. ToSet(l_urls) \subseteq l_met
  BY <1>5
<1>10. LiveTypes'
  <2> HIDE DEF LivePrefix
  <2>1. l_urls' \in Seq(1..LastSegment)
    BY <1>1
  <2> QED  BY <1>0, <1>1, <1>2, <1>9, <2>1 DEF LiveTypes
<1> QED  BY <1>3, <1>8, <1>10 DEF LiveInv

\* What is on the way is in the order of the stream.
LEMMA LiveSound == LiveInv => Live!SegmentsInOrder
<1> SUFFICES ASSUME LiveInv PROVE Live!SegmentsInOrder  OBVIOUS
<1> DEFINE w == IF l_pending = 0 THEN <<>> ELSE <<l_pending>>
           u == l_ts \o l_urls
<1>0. /\ LiveTypes /\ WayInOrder /\ l_ts \in Seq(Nat) /\ l_urls \in Seq(Nat)
  BY WayNumbers
<1>1. w \in Seq(Nat) /\ Ascending(w) /\ ToSet(w) = LiveWaiting
  <2>1. CASE l_pending = 0
    BY <2>1 DEF Ascending, ToSet, LiveWaiting
  <2>2. CASE l_pending # 0
    <3>1. l_pending \in Nat
      BY <1>0, StreamsAssumption DEF LiveTypes
    <3>2. <<l_pending>> \in Seq(Nat) /\ DOMAIN <<l_pending>> = {1} /\ <<l_pending>>[1] = l_pending
      BY <3>1
    <3> QED  BY <2>2, <3>2 DEF Ascending, ToSet, LiveWaiting
  <2> QED  BY <2>1, <2>2
<1> HIDE DEF w
<1>2. Ascending(u) /\ u \in Seq(Nat) /\ ToSet(u) = ToSet(l_ts) \cup ToSet(l_urls)
  BY <1>0, AscendingLists, OneAfterAnother DEF WayInOrder
<1> HIDE DEF u
<1>3. \A x \in ToSet(u), y \in ToSet(w) : x < y
  BY <1>0, <1>1, <1>2 DEF WayInOrder
<1>4. Ascending(u \o w)
  BY <1>1, <1>2, <1>3, AscendingLists
<1>5. ToSet(u \o w) = ToSet(u) \cup ToSet(w)
  BY <1>1, <1>2, OneAfterAnother
<1>6. Live!OnTheWay = u \o w
  BY <1>0 DEF Live!OnTheWay, Live!NoSegment, u, w, l_ts, l_urls, l_pending
<1>7. Live!Shadowed = LiveShadowed
  BY DEF Live!Shadowed, LiveShadowed, LivePrefix, l_met
<1>8. ToSet(u \o w) = l_met \ (l_lost \cup LiveShadowed)
  BY <1>0, <1>1, <1>2, <1>5 DEF WayInOrder
<1>9. ToSet(u \o w) = Live!ToSet(u \o w)
  BY DEF ToSet, Live!ToSet
<1> HIDE DEF LiveShadowed
<1> QED  BY <1>4, <1>6, <1>7, <1>8, <1>9 DEF Live!SegmentsInOrder, Ascending, l_met, l_lost

-----------------------------------------------------------------------------
(* AudioPlay, in the slots of Audio.                                       *)
a_sent      == s1
a_queue     == s5
a_source    == s6
a_queued    == s7
a_processed == s8
a_state     == s9
a_buffers   == s10
a_heard     == s11
a_pc        == s12
a_local     == s13

Pieces == [serial : Nat, startTime : Nat]

AudioTypes ==
  /\ a_sent \in Nat /\ s2 \in Nat /\ s3 \in Nat
  /\ a_queue \in Seq(Pieces)
  /\ a_queued \in Seq(Nat) /\ a_heard \in Seq(Nat)
  /\ a_processed \in Nat /\ a_state \in {"initial", "playing", "stopped"}
  /\ a_local \in [progress : Nat, isPlaying : BOOLEAN, count : Nat]

(* A fragment that is sent later has a larger number, wherever it is.      *)
SerialsOf(queue) == [i \in DOMAIN queue |-> queue[i].serial]
Serials == SerialsOf(a_queue)
AudioOrder ==
  /\ Ascending(Serials) /\ Ascending(a_queued) /\ Ascending(a_heard)
  /\ \A x \in ToSet(a_queued) \cup ToSet(a_heard), y \in ToSet(Serials) : x < y
  /\ \A x \in ToSet(a_queued) \cup ToSet(a_heard) \cup ToSet(Serials) : x <= a_sent

(* What the device has still to play was not heard; nor was anything in    *)
(* the source when it is started again, as what it had was taken back.     *)
Unheard(from) == \A x \in ToSet(a_heard) : \A i \in DOMAIN a_queued : from < i => x < a_queued[i]
AudioDevice ==
  /\ a_state = "initial" => a_processed = 0 /\ a_heard = <<>>
  /\ a_state = "playing" => a_processed < Len(a_queued) /\ Unheard(a_processed)
  /\ a_state \notin {"initial", "playing"} => a_processed = Len(a_queued)
  /\ a_pc \in {"count", "dequeue", "enqueue"} /\ ~a_local.isPlaying => a_state # "playing"
  /\ a_pc = "dequeue" => a_local.count <= a_processed
  /\ a_pc = "dequeue" /\ ~a_local.isPlaying => a_local.count = a_processed
  /\ a_pc = "enqueue" /\ ~a_local.isPlaying => Unheard(0)

AudioBuffers ==
  /\ a_source = a_queued
  /\ ToSet(a_queued) \subseteq a_buffers /\ ToSet(Serials) \subseteq a_buffers

AudioInv == AudioTypes /\ AudioOrder /\ AudioDevice /\ AudioBuffers

\* The numbers of the fragments of a queue.
LEMMA QueueSerials ==
  ASSUME NEW q \in Seq(Pieces)
  PROVE  /\ SerialsOf(q) \in Seq(Nat)
         /\ \A e \in Pieces : SerialsOf(Append(q, e)) = Append(SerialsOf(q), e.serial)
         /\ q # <<>> => /\ SerialsOf(q) # <<>> /\ SerialsOf(q)[1] = Head(q).serial
                        /\ Head(q) \in Pieces
                        /\ Tail(q) \in Seq(Pieces)
                        /\ SerialsOf(Tail(q)) = Tail(SerialsOf(q))
<1> DEFINE s == SerialsOf(q)
<1>1. /\ DOMAIN q = 1..Len(q) /\ Len(q) \in Nat /\ \A i \in 1..Len(q) : q[i] \in Pieces
  OBVIOUS
<1>2. \A i \in 1..Len(q) : q[i].serial \in Nat
  BY <1>1 DEF Pieces
<1>3. /\ s \in Seq(Nat) /\ Len(s) = Len(q) /\ DOMAIN s = 1..Len(q)
      /\ \A i \in 1..Len(q) : s[i] = q[i].serial
  BY <1>1, <1>2 DEF SerialsOf
<1>4. ASSUME NEW e \in Pieces
      PROVE  SerialsOf(Append(q, e)) = Append(s, e.serial)
  <2> DEFINE q2 == Append(q, e)
             t  == Append(s, e.serial)
  <2>1. /\ q2 \in Seq(Pieces) /\ DOMAIN q2 = 1..Len(q) + 1
        /\ \A i \in 1..Len(q) + 1 : q2[i] = IF i \in 1..Len(q) THEN q[i] ELSE e
    BY <1>1
  <2>2. e.serial \in Nat
    BY DEF Pieces
  <2>3. /\ t \in Seq(Nat) /\ DOMAIN t = 1..Len(q) + 1
        /\ \A i \in 1..Len(q) + 1 : t[i] = IF i \in 1..Len(q) THEN s[i] ELSE e.serial
    <3> HIDE DEF s
    <3> QED  BY <1>1, <1>3, <2>2
  <2> HIDE DEF q2, t, s
  <2>4. SerialsOf(q2) = [i \in 1..Len(q) + 1 |-> q2[i].serial]
    BY <2>1 DEF SerialsOf
  <2>5. t = [i \in 1..Len(q) + 1 |-> t[i]]
    BY <2>3
  <2>6. \A i \in 1..Len(q) + 1 : q2[i].serial = t[i]
    BY <1>3, <2>1, <2>3
  <2>7. SerialsOf(q2) = t
    BY <2>4, <2>5, <2>6
  <2> QED  BY <2>7 DEF q2, t
<1>5. ASSUME q # <<>>
      PROVE  /\ s # <<>> /\ s[1] = Head(q).serial /\ Head(q) \in Pieces /\ Tail(q) \in Seq(Pieces)
             /\ SerialsOf(Tail(q)) = Tail(s)
  <2> DEFINE q2 == Tail(q)
             t  == Tail(s)
  <2>1. /\ Len(q) # 0 /\ Head(q) = q[1] /\ q2 \in Seq(Pieces) /\ DOMAIN q2 = 1..Len(q) - 1
        /\ \A i \in 1..Len(q) - 1 : q2[i] = q[i + 1]
    BY <1>5
  <2>2. s # <<>>
    BY <1>3, <2>1
  <2>3. /\ t \in Seq(Nat) /\ DOMAIN t = 1..Len(q) - 1
        /\ \A i \in 1..Len(q) - 1 : t[i] = s[i + 1]
    <3> HIDE DEF s
    <3> QED  BY <1>3, <2>2
  <2> HIDE DEF q2, t, s
  <2>4. SerialsOf(q2) = [i \in 1..Len(q) - 1 |-> q2[i].serial]
    BY <2>1 DEF SerialsOf
  <2>5. t = [i \in 1..Len(q) - 1 |-> t[i]]
    BY <2>3
  <2>6. \A i \in 1..Len(q) - 1 : i + 1 \in 1..Len(q)
    BY <1>1
  <2>7. \A i \in 1..Len(q) - 1 : q2[i].serial = t[i]
    BY <1>3, <2>1, <2>3, <2>6
  <2>8. SerialsOf(q2) = t
    BY <2>4, <2>5, <2>7
  <2>9. 1 \in 1..Len(q)
    BY <1>1, <2>1
  <2>10. s[1] = Head(q).serial /\ Head(q) \in Pieces
    BY <1>1, <1>3, <2>1, <2>9
  <2> QED  BY <2>1, <2>2, <2>8, <2>10 DEF q2, t
<1> QED  BY <1>3, <1>4, <1>5

\* Nothing but the clock and what comes next moves.
LEMMA AudioTime ==
  ASSUME AudioInv,
         Audio!Tick \/ Audio!Seek \/ Audio!TakeProgress
           \/ UNCHANGED <<s1, s2, s3, s4, s5, s6, s7, s8, s9, s10, s11, s12, s13>>
  PROVE  AudioInv'
<1> USE StreamsAssumption
<1>1. UNCHANGED <<a_sent, a_queue, a_source, a_queued, a_processed, a_state, a_buffers, a_heard>>
  BY DEF Audio!Tick, Audio!Seek, Audio!TakeProgress, Audio!device, a_sent, a_queue, a_source,
         a_queued, a_processed, a_state, a_buffers, a_heard
<1>2. /\ s2' \in Nat /\ s3' \in Nat
      /\ a_local' \in [progress : Nat, isPlaying : BOOLEAN, count : Nat]
  <2>1. s2 \in Nat /\ s3 \in Nat /\ s13 \in [progress : Nat, isPlaying : BOOLEAN, count : Nat]
    BY DEF AudioInv, AudioTypes, a_local
  <2>2. CASE Audio!Tick
    BY <2>1, <2>2 DEF Audio!Tick, a_local
  <2>3. CASE Audio!Seek
    BY <2>1, <2>3 DEF Audio!Seek, a_local
  <2>4. CASE Audio!TakeProgress
    BY <2>1, <2>4 DEF Audio!TakeProgress, a_local
  <2>5. CASE UNCHANGED <<s1, s2, s3, s4, s5, s6, s7, s8, s9, s10, s11, s12, s13>>
    BY <2>1, <2>5 DEF a_local
  <2> QED  BY <2>2, <2>3, <2>4, <2>5
<1>3. \/ a_pc' = a_pc /\ a_local' = a_local
      \/ a_pc' = "status"
  BY DEF Audio!Tick, Audio!Seek, Audio!TakeProgress, Audio!Goto, a_pc, a_local
<1>4. AudioTypes' /\ AudioBuffers'
  BY <1>1, <1>2 DEF AudioInv, AudioTypes, AudioBuffers, Serials
<1>5. AudioOrder'
  BY <1>1 DEF AudioInv, AudioOrder, Serials
<1>6. AudioDevice'
  BY <1>1, <1>3 DEF AudioInv, AudioDevice, Unheard
<1> QED  BY <1>4, <1>5, <1>6 DEF AudioInv

\* The device has finished a buffer.
LEMMA AudioFinishes == AudioInv /\ Audio!FinishBuffer => AudioInv'
<1> SUFFICES ASSUME AudioInv, Audio!FinishBuffer PROVE AudioInv'  OBVIOUS
<1> DEFINE n == a_queued[a_processed + 1]
<1>0. AudioTypes /\ AudioOrder /\ AudioDevice /\ AudioBuffers
  BY DEF AudioInv
<1>1. /\ UNCHANGED <<a_sent, s2, s3, a_queue, a_source, a_queued, a_buffers, a_pc, a_local>>
      /\ a_state = "playing" /\ a_heard' = Append(a_heard, n) /\ a_processed' = a_processed + 1
      /\ a_state' = IF a_processed + 1 = Len(a_queued) THEN "stopped" ELSE a_state
  BY DEF Audio!FinishBuffer, a_sent, a_queue, a_source, a_queued, a_processed, a_state, a_buffers,
         a_heard, a_pc, a_local
<1>2. /\ a_queued \in Seq(Nat) /\ a_heard \in Seq(Nat) /\ a_processed \in Nat
      /\ Len(a_queued) \in Nat /\ DOMAIN a_queued = 1..Len(a_queued)
      /\ \A i \in 1..Len(a_queued) : a_queued[i] \in Nat
  BY <1>0 DEF AudioTypes
<1>3. a_processed < Len(a_queued) /\ Unheard(a_processed)
  BY <1>0, <1>1 DEF AudioDevice
<1>4. a_processed + 1 \in 1..Len(a_queued) /\ a_processed < a_processed + 1
  BY <1>2, <1>3
<1>5. n \in Nat /\ n \in ToSet(a_queued)
  BY <1>2, <1>4 DEF ToSet
<1> HIDE DEF n
<1>a. a_processed' = a_processed + 1 /\ a_queued' = a_queued /\ a_heard' = Append(a_heard, n)
  BY <1>1
<1>b. a_state' = "playing" => a_processed + 1 # Len(a_queued)
  BY <1>1
<1>6. /\ a_heard' \in Seq(Nat) /\ ToSet(a_heard') = ToSet(a_heard) \cup {n}
  <2>1. Append(a_heard, n) \in Seq(Nat)
    BY <1>2, <1>5
  <2>2. ToSet(Append(a_heard, n)) = ToSet(a_heard) \cup {n}
    BY <1>2, <1>5, OneBehind
  <2> QED  BY <1>a, <2>1, <2>2
<1>7. \A x \in ToSet(a_heard) : x < n
  BY <1>2, <1>3, <1>4 DEF Unheard, n
<1>8. Ascending(a_heard')
  BY <1>0, <1>1, <1>2, <1>5, <1>7, AscendingLists DEF AudioOrder
<1>9. AudioTypes' /\ AudioBuffers'
  <2>1. a_processed' \in Nat
    BY <1>a, <1>2
  <2> QED  BY <1>0, <1>1, <1>6, <2>1 DEF AudioTypes, AudioBuffers, Serials
<1>10. AudioOrder'
  <2>1. Serials' = Serials
    BY <1>1 DEF Serials
  <2>2. Ascending(a_heard)'
    BY <1>8 DEF Ascending
  <2>3. (ToSet(a_heard))' = ToSet(a_heard) \cup {n}
    BY <1>6
  <2>4. Ascending(Serials)' /\ Ascending(a_queued)'
    BY <1>0, <1>1, <2>1 DEF AudioOrder, Ascending
  <2> HIDE DEF Serials
  <2> QED  BY <1>0, <1>1, <1>5, <2>1, <2>2, <2>3, <2>4 DEF AudioOrder
<1>11. \A x \in (ToSet(a_heard))' : \A i \in 1..Len(a_queued) : a_processed + 1 < i => x < a_queued[i]
  <2>1. ASSUME NEW i \in 1..Len(a_queued), a_processed + 1 < i PROVE n < a_queued[i]
    BY <1>0, <1>2, <1>4, <2>1 DEF AudioOrder, Ascending, n
  <2>2. ASSUME NEW i \in 1..Len(a_queued), a_processed + 1 < i, NEW x \in ToSet(a_heard)
        PROVE  x < a_queued[i]
    <3>1. a_processed < i
      BY <1>2, <2>2
    <3> QED  BY <1>2, <1>3, <2>2, <3>1 DEF Unheard
  <2>3. ASSUME NEW x \in ToSet(a_heard'), NEW i \in 1..Len(a_queued), a_processed + 1 < i
        PROVE  x < a_queued[i]
    BY <1>6, <2>1, <2>2, <2>3
  <2>4. (ToSet(a_heard))' = ToSet(a_heard')
    BY DEF ToSet
  <2> QED  BY <2>3, <2>4
<1>12. AudioDevice'
  <2>1. a_state' = "playing" => a_processed' < Len(a_queued') /\ Unheard(a_processed)'
    <3>1. a_state' = "playing" => a_processed + 1 < Len(a_queued)
      <4>1. a_processed + 1 # Len(a_queued) => a_processed + 1 < Len(a_queued)
        <5> DEFINE p == a_processed
                   l == Len(a_queued)
        <5>1. p \in Nat /\ l \in Nat /\ p < l
          BY <1>2, <1>3
        <5> HIDE DEF p, l
        <5>2. p + 1 # l => p + 1 < l
          BY <5>1
        <5> QED  BY <5>2 DEF p, l
      <4> QED  BY <1>b, <4>1, Zenon
    <3>2. Unheard(a_processed)'
      BY <1>a, <1>11, <1>2 DEF Unheard
    <3> QED  BY <1>a, <3>1, <3>2
  <2>2. a_state' \notin {"initial", "playing"} => a_processed' = Len(a_queued')
    BY <1>1
  <2>3. a_state' # "initial"
    BY <1>1
  <2>4. /\ ~(a_pc' \in {"count", "dequeue", "enqueue"} /\ ~a_local'.isPlaying)
        /\ a_pc' = "dequeue" => a_local'.isPlaying
        /\ a_pc' = "enqueue" => a_local'.isPlaying
    BY <1>0, <1>1 DEF AudioDevice
  <2>5. a_pc' = "dequeue" => a_local'.count <= a_processed'
    <3>1. a_local.count \in Nat
      BY <1>0 DEF AudioTypes
    <3>2. a_pc = "dequeue" => a_local.count <= a_processed
      BY <1>0 DEF AudioDevice
    <3>3. a_local.count <= a_processed => a_local.count <= a_processed + 1
      BY <1>2, <3>1
    <3> QED  BY <1>1, <3>2, <3>3
  <2> QED  BY <2>1, <2>2, <2>3, <2>4, <2>5 DEF AudioDevice
<1> QED  BY <1>9, <1>10, <1>12 DEF AudioInv

\* The destination asks the source.
LEMMA AudioAsks == AudioInv /\ Audio!AskSource => AudioInv'
<1> SUFFICES ASSUME AudioInv, Audio!AskSource PROVE AudioInv'  OBVIOUS
<1>0. AudioTypes /\ AudioOrder /\ AudioDevice /\ AudioBuffers
  BY DEF AudioInv
<1>1. /\ UNCHANGED <<a_sent, s2, s3, a_queue, a_source, a_queued, a_processed, a_state, a_buffers,
                     a_heard>>
      /\ \/ a_pc' = "count" /\ a_local' = [a_local EXCEPT !.isPlaying = a_state = "playing"]
         \/ /\ a_pc = "count" /\ a_pc' = "dequeue"
            /\ a_local' = [a_local EXCEPT !.count = a_processed]
  BY DEF Audio!AskSource, Audio!StatusThenCount, Audio!SourceIsPlaying,
         Audio!GetSourceProcessedBufferCount, Audio!Played, Audio!Goto, Audio!device,
         a_sent, a_queue, a_source, a_queued, a_processed, a_state, a_buffers, a_heard, a_pc, a_local
<1>2. /\ a_local \in [progress : Nat, isPlaying : BOOLEAN, count : Nat] /\ a_processed \in Nat
  BY <1>0 DEF AudioTypes
<1>3. a_local' \in [progress : Nat, isPlaying : BOOLEAN, count : Nat]
  BY <1>1, <1>2
<1>4. AudioTypes' /\ AudioBuffers'
  BY <1>0, <1>1, <1>3 DEF AudioTypes, AudioBuffers, Serials
<1>5. AudioOrder'
  BY <1>0, <1>1 DEF AudioOrder, Serials
<1>6. AudioDevice'
  <2>1. CASE a_pc' = "count" /\ a_local' = [a_local EXCEPT !.isPlaying = a_state = "playing"]
    <3>1. ~a_local'.isPlaying => a_state # "playing"
      BY <1>2, <2>1
    <3> QED  BY <1>0, <1>1, <2>1, <3>1 DEF AudioDevice, Unheard
  <2>2. CASE /\ a_pc = "count" /\ a_pc' = "dequeue"
             /\ a_local' = [a_local EXCEPT !.count = a_processed]
    <3>1. a_local'.count = a_processed /\ a_local'.isPlaying = a_local.isPlaying
          /\ a_processed <= a_processed
      BY <1>2, <2>2
    <3> QED  BY <1>0, <1>1, <2>2, <3>1 DEF AudioDevice, Unheard
  <2> QED  BY <1>1, <2>1, <2>2
<1> QED  BY <1>4, <1>5, <1>6 DEF AudioInv

\* A fragment has come.
LEMMA AudioInput == AudioInv /\ Audio!ProcessInput => AudioInv'
<1> SUFFICES ASSUME AudioInv, Audio!ProcessInput PROVE AudioInv'  OBVIOUS
<1> DEFINE n == a_sent + 1
           e == [serial |-> n, startTime |-> s2]
<1>0. AudioTypes /\ AudioOrder /\ AudioDevice /\ AudioBuffers
  BY DEF AudioInv
<1>1. UNCHANGED <<s3, a_source, a_queued, a_processed, a_state, a_heard, a_pc, a_local>>
  BY DEF Audio!ProcessInput, Audio!device, a_source, a_queued, a_processed, a_state, a_heard,
         a_pc, a_local
<1>2. /\ a_sent' = n /\ s2' = s2 + 1 /\ a_buffers' = a_buffers \cup {n}
      /\ a_queue' = Append(a_queue, e)
  BY DEF Audio!ProcessInput, a_sent, a_buffers, a_queue
<1>3. a_sent \in Nat /\ s2 \in Nat /\ a_queue \in Seq(Pieces)
  BY <1>0 DEF AudioTypes
<1>4. n \in Nat /\ a_sent <= n /\ a_sent < n /\ n <= n /\ s2 + 1 \in Nat
  BY <1>3
<1>5. e \in Pieces /\ e.serial = n
  BY <1>3, <1>4 DEF Pieces
<1> HIDE DEF n, e
<1>6. a_queue' \in Seq(Pieces)
  BY <1>2, <1>3, <1>5
<1>7. Serials' = Append(Serials, n) /\ Serials \in Seq(Nat)
  BY <1>2, <1>3, <1>5, QueueSerials DEF Serials
<1>8. (ToSet(Serials))' = ToSet(Serials) \cup {n}
  <2>1. ToSet(Append(Serials, n)) = ToSet(Serials) \cup {n}
    BY <1>4, <1>7, OneBehind
  <2> QED  BY <1>7, <2>1 DEF ToSet
<1>9. /\ \A x \in ToSet(a_queued) \cup ToSet(a_heard) \cup ToSet(Serials) : x \in Nat /\ x <= a_sent
  <2>1. a_queued \in Seq(Nat) /\ a_heard \in Seq(Nat)
    BY <1>0 DEF AudioTypes
  <2>2. \A s \in Seq(Nat) : \A x \in ToSet(s) : x \in Nat
    BY DEF ToSet
  <2> QED  BY <1>0, <1>7, <2>1, <2>2 DEF AudioOrder
<1>10. \A x \in Nat : x <= a_sent => x < n /\ x <= n
  BY <1>3, <1>4
<1>11. Ascending(Append(Serials, n))
  <2>1. Ascending(Serials)
    BY <1>0 DEF AudioOrder
  <2>2. \A y \in ToSet(Serials) : y < n
    BY <1>9, <1>10
  <2> QED  BY <1>4, <1>7, <2>1, <2>2, AscendingLists
<1>12. Ascending(Serials)'
  BY <1>7, <1>11 DEF Ascending
<1>13. AudioTypes'
  BY <1>0, <1>1, <1>2, <1>4, <1>6 DEF AudioTypes
<1>14. (ToSet(a_queued))' = ToSet(a_queued) /\ (ToSet(a_heard))' = ToSet(a_heard)
  BY <1>1
<1>15. AudioOrder'
  <2>1. \A x \in ToSet(a_queued) \cup ToSet(a_heard), y \in ToSet(Serials) \cup {n} : x < y
    BY <1>0, <1>9, <1>10 DEF AudioOrder
  <2>2. \A x \in ToSet(a_queued) \cup ToSet(a_heard) \cup (ToSet(Serials) \cup {n}) : x <= n
    BY <1>4, <1>9, <1>10
  <2>3. Ascending(a_queued)' /\ Ascending(a_heard)'
    BY <1>0, <1>1 DEF AudioOrder, Ascending
  <2> HIDE DEF Serials
  <2> QED  BY <1>2, <1>8, <1>12, <1>14, <2>1, <2>2, <2>3 DEF AudioOrder
<1>16. AudioBuffers'
  BY <1>0, <1>1, <1>2, <1>8, <1>14 DEF AudioBuffers
<1>17. AudioDevice'
  BY <1>0, <1>1 DEF AudioDevice, Unheard
<1> QED  BY <1>13, <1>15, <1>16, <1>17 DEF AudioInv

\* A buffer that was played is taken back.
LEMMA AudioDequeues == AudioInv /\ Audio!Dequeue => AudioInv'
<1> SUFFICES ASSUME AudioInv, Audio!Dequeue PROVE AudioInv'  OBVIOUS
<1> DEFINE h    == a_queued[1]
           rest == Tail(a_queued)
<1>0. AudioTypes /\ AudioOrder /\ AudioDevice /\ AudioBuffers
  BY DEF AudioInv
<1>1. /\ UNCHANGED <<a_sent, s2, s3, a_queue, a_state, a_heard, a_pc>>
      /\ a_pc = "dequeue"
      /\ a_local' = [a_local EXCEPT !.count = a_local.count - 1]
      /\ a_buffers' = a_buffers \ {Head(a_source)} /\ a_source' = Tail(a_source)
      /\ a_queued' = rest
  BY DEF Audio!Dequeue, Audio!Unqueue, a_sent, a_queue, a_source, a_queued, a_state,
         a_buffers, a_heard, a_pc, a_local
<1>2. a_local.count > 0 /\ a_processed' = a_processed - 1
  BY DEF Audio!Dequeue, Audio!Unqueue, a_processed, a_local
<1>3. /\ a_local \in [progress : Nat, isPlaying : BOOLEAN, count : Nat]
      /\ a_processed \in Nat /\ a_queued \in Seq(Nat) /\ Len(a_queued) \in Nat
      /\ DOMAIN a_queued = 1..Len(a_queued)
  BY <1>0 DEF AudioTypes
<1>4. a_local.count <= a_processed /\ a_local.count \in Nat
  BY <1>0, <1>1, <1>3 DEF AudioDevice
<1>5. a_processed - 1 \in Nat /\ a_local.count - 1 \in Nat /\ a_local.count - 1 <= a_processed - 1
  BY <1>2, <1>3, <1>4
<1>6. a_processed <= Len(a_queued)
  <2>1. CASE a_state = "playing"
    BY <1>0, <1>3, <2>1 DEF AudioDevice
  <2>2. CASE a_state \notin {"initial", "playing"}
    <3>1. a_processed = Len(a_queued)
      BY <1>0, <2>2 DEF AudioDevice
    <3> QED  BY <1>3, <3>1
  <2>3. CASE a_state = "initial"
    <3>1. a_processed = 0
      BY <1>0, <2>3 DEF AudioDevice
    <3> QED  BY <1>3, <3>1
  <2> QED  BY <2>1, <2>2, <2>3
<1>7. a_queued # <<>>
  <2>1. Len(a_queued) # 0
    BY <1>3, <1>5, <1>6
  <2> QED  BY <2>1
<1>8. /\ rest \in Seq(Nat) /\ Head(a_queued) = h /\ Len(rest) = Len(a_queued) - 1
      /\ \A j \in 1..Len(a_queued) - 1 : rest[j] = a_queued[j + 1] /\ j + 1 \in 1..Len(a_queued)
      /\ ToSet(a_queued) = {h} \cup ToSet(rest)
  BY <1>3, <1>7, FirstAndRest
<1>9. Ascending(rest) /\ (\A y \in ToSet(rest) : h < y)
  BY <1>0, <1>3, <1>7, AscendingLists DEF AudioOrder
<1>10. \A x \in ToSet(rest) \cup ToSet(Serials) : x # h
  <2>1. h \in Nat /\ ~(h < h)
    BY <1>3, <1>7
  <2>2. \A y \in ToSet(Serials) : h < y
    BY <1>0, <1>8 DEF AudioOrder
  <2> QED  BY <1>9, <2>1, <2>2
<1> HIDE DEF h, rest
<1>11. Serials' = Serials /\ (ToSet(Serials))' = ToSet(Serials) /\ (ToSet(a_heard))' = ToSet(a_heard)
  BY <1>1 DEF Serials
<1>12. (ToSet(a_queued))' = ToSet(rest)
  BY <1>1
<1>13. AudioTypes'
  <2>1. a_local' \in [progress : Nat, isPlaying : BOOLEAN, count : Nat]
    BY <1>1, <1>3, <1>5
  <2>2. a_processed' \in Nat
    BY <1>2, <1>5
  <2> QED  BY <1>0, <1>1, <1>8, <2>1, <2>2 DEF AudioTypes
<1>14. AudioOrder'
  <2>1. Ascending(Serials)' /\ Ascending(a_heard)' /\ Ascending(a_queued)'
    BY <1>0, <1>1, <1>9, <1>11 DEF AudioOrder, Ascending
  <2>2. a_sent' = a_sent
    BY <1>1
  <2>3. /\ \A x \in ToSet(rest) \cup ToSet(a_heard), y \in ToSet(Serials) : x < y
        /\ \A x \in ToSet(rest) \cup ToSet(a_heard) \cup ToSet(Serials) : x <= a_sent
    BY <1>0, <1>8 DEF AudioOrder
  <2> HIDE DEF Serials
  <2> QED  BY <1>11, <1>12, <2>1, <2>2, <2>3 DEF AudioOrder
<1>15. AudioBuffers'
  <2>1. a_source = a_queued /\ Head(a_source) = h /\ a_source' = a_queued'
    BY <1>0, <1>1, <1>8 DEF AudioBuffers, rest
  <2>2. ToSet(rest) \subseteq a_buffers \ {h} /\ ToSet(Serials) \subseteq a_buffers \ {h}
    BY <1>0, <1>8, <1>10 DEF AudioBuffers
  <2> HIDE DEF Serials
  <2> QED  BY <1>1, <1>11, <1>12, <2>1, <2>2 DEF AudioBuffers
<1>16. ASSUME NEW from \in Nat,
              \A x \in ToSet(a_heard) : \A i \in DOMAIN a_queued : from < i => x < a_queued[i]
       PROVE  \A x \in ToSet(a_heard) : \A i \in DOMAIN rest : from - 1 < i => x < rest[i]
  <2> SUFFICES ASSUME NEW x \in ToSet(a_heard), NEW i \in 1..Len(a_queued) - 1, from - 1 < i
               PROVE  x < rest[i]
    BY <1>8
  <2>1. from < i + 1
    BY <1>3
  <2> QED  BY <1>3, <1>8, <1>16, <2>1
<1>17. AudioDevice'
  <2>1. a_local'.count = a_local.count - 1 /\ a_local'.isPlaying = a_local.isPlaying
    BY <1>1, <1>3
  <2>2. CASE a_state = "playing"
    <3>1. a_processed - 1 < Len(rest)
      <4>1. a_processed < Len(a_queued)
        BY <1>0, <2>2 DEF AudioDevice
      <4> QED  BY <1>3, <1>8, <4>1
    <3>2. Unheard(a_processed)
      BY <1>0, <2>2 DEF AudioDevice
    <3>3. \A x \in ToSet(a_heard) : \A i \in DOMAIN rest : a_processed - 1 < i => x < rest[i]
      BY <1>3, <1>16, <3>2 DEF Unheard
    <3>4. Unheard(a_processed)'
      BY <1>1, <1>2, <1>11, <3>3 DEF Unheard
    <3>5. a_processed' < Len(a_queued')
      BY <1>1, <1>2, <3>1
    <3>6. a_local.isPlaying
      BY <1>0, <1>1, <2>2 DEF AudioDevice
    <3>7. a_local'.count <= a_processed'
      BY <1>2, <1>5, <2>1
    <3> QED  BY <1>1, <2>1, <2>2, <3>4, <3>5, <3>6, <3>7 DEF AudioDevice
  <2>3. CASE a_state # "playing"
    <3>1. a_state # "initial" /\ a_processed = Len(a_queued)
      <4>1. a_processed # 0
        BY <1>3, <1>5
      <4> QED  BY <1>0, <2>3, <4>1 DEF AudioDevice
    <3>2. a_processed' = Len(a_queued')
      BY <1>1, <1>2, <1>8, <3>1
    <3>3. a_local'.count <= a_processed'
      BY <1>2, <1>5, <2>1
    <3>4. ~a_local'.isPlaying => a_local'.count = a_processed'
      <4>1. ~a_local.isPlaying => a_local.count = a_processed
        BY <1>0, <1>1 DEF AudioDevice
      <4> QED  BY <1>2, <2>1, <4>1
    <3> QED  BY <1>1, <2>1, <2>3, <3>1, <3>2, <3>3, <3>4 DEF AudioDevice
  <2> QED  BY <2>2, <2>3
<1> QED  BY <1>13, <1>14, <1>15, <1>17 DEF AudioInv

\* No buffer is left to take back.
LEMMA AudioDequeued == AudioInv /\ Audio!Dequeued => AudioInv'
<1> SUFFICES ASSUME AudioInv, Audio!Dequeued PROVE AudioInv'  OBVIOUS
<1>0. AudioTypes /\ AudioOrder /\ AudioDevice /\ AudioBuffers
  BY DEF AudioInv
<1>1. /\ UNCHANGED <<a_sent, s2, s3, a_queue, a_source, a_queued, a_processed, a_state, a_buffers,
                     a_heard, a_local>>
      /\ a_pc = "dequeue" /\ a_local.count = 0 /\ a_pc' \in {"enqueue", "input"}
  BY DEF Audio!Dequeued, Audio!Goto, Audio!device, a_sent, a_queue, a_source, a_queued, a_processed,
         a_state, a_buffers, a_heard, a_pc, a_local
<1>2. AudioTypes' /\ AudioOrder' /\ AudioBuffers'
  BY <1>0, <1>1 DEF AudioTypes, AudioOrder, AudioBuffers, Serials
<1>3. ASSUME ~a_local.isPlaying PROVE a_state # "playing" /\ Unheard(0)
  <2>1. a_state # "playing" /\ a_processed = 0
    BY <1>0, <1>1, <1>3 DEF AudioDevice
  <2>2. CASE a_state = "initial"
    <3>1. ToSet(a_heard) = {}
      BY <1>0, <2>2 DEF AudioDevice, ToSet
    <3> QED  BY <2>1, <3>1 DEF Unheard
  <2>3. CASE a_state # "initial"
    <3>1. Len(a_queued) = 0
      BY <1>0, <2>1, <2>3 DEF AudioDevice
    <3>2. DOMAIN a_queued = {}
      BY <1>0, <3>1 DEF AudioTypes
    <3> QED  BY <2>1, <3>2 DEF Unheard
  <2> QED  BY <2>2, <2>3
<1>4. AudioDevice'
  BY <1>0, <1>1, <1>3 DEF AudioDevice, Unheard
<1> QED  BY <1>2, <1>4 DEF AudioInv

\* The first fragment leaves the queue of the destination: it is late, or
\* goes to the source.
LEMMA AudioFirst ==
  ASSUME AudioInv, a_queue # <<>>, a_queue' = Tail(a_queue)
  PROVE  LET n == Head(a_queue).serial IN
         /\ n \in Nat /\ n <= a_sent /\ n \in a_buffers
         /\ a_queue' \in Seq(Pieces)
         /\ Ascending(Serials')
         /\ ToSet(Serials) = {n} \cup ToSet(Serials')
         /\ \A y \in ToSet(Serials') : n < y
         /\ \A x \in ToSet(a_queued) \cup ToSet(a_heard) : x < n
<1> DEFINE n == Head(a_queue).serial
<1>0. AudioTypes /\ AudioOrder /\ AudioBuffers /\ a_queue \in Seq(Pieces)
  BY DEF AudioInv, AudioTypes
<1>1. /\ Serials \in Seq(Nat) /\ Serials # <<>> /\ Serials[1] = n /\ Head(a_queue) \in Pieces
      /\ a_queue' \in Seq(Pieces) /\ Serials' = Tail(Serials)
  BY <1>0, QueueSerials DEF Serials
<1>2. n \in Nat
  BY <1>1 DEF Pieces
<1> HIDE DEF n, Serials
<1>3. ToSet(Serials) = {n} \cup ToSet(Tail(Serials))
  BY <1>1, FirstAndRest
<1>4. Ascending(Tail(Serials)) /\ \A y \in ToSet(Tail(Serials)) : n < y
  BY <1>0, <1>1, AscendingLists DEF AudioOrder
<1>5. n <= a_sent /\ n \in a_buffers
  BY <1>0, <1>3 DEF AudioOrder, AudioBuffers
<1>6. \A x \in ToSet(a_queued) \cup ToSet(a_heard) : x < n
  BY <1>0, <1>3 DEF AudioOrder
<1> QED  BY <1>1, <1>2, <1>3, <1>4, <1>5, <1>6 DEF n

LEMMA AudioSkips == AudioInv /\ Audio!Skip => AudioInv'
<1> SUFFICES ASSUME AudioInv, Audio!Skip PROVE AudioInv'  OBVIOUS
<1> DEFINE n == Head(a_queue).serial
<1>0. AudioTypes /\ AudioOrder /\ AudioDevice /\ AudioBuffers
  BY DEF AudioInv
<1>1. /\ UNCHANGED <<a_sent, s2, s3, a_source, a_queued, a_processed, a_state, a_buffers,
                     a_heard, a_pc, a_local>>
      /\ a_queue # <<>> /\ a_queue' = Tail(a_queue)
  BY DEF Audio!Skip, Audio!device, a_sent, a_queue, a_source, a_queued, a_processed,
         a_state, a_buffers, a_heard, a_pc, a_local
<1>2. /\ a_queue' \in Seq(Pieces) /\ Ascending(Serials')
      /\ ToSet(Serials) = {n} \cup ToSet(Serials')
  BY <1>1, AudioFirst
<1> HIDE DEF n
<1>3. AudioTypes'
  BY <1>0, <1>1, <1>2 DEF AudioTypes
<1>4. /\ (ToSet(a_queued))' = ToSet(a_queued) /\ (ToSet(a_heard))' = ToSet(a_heard)
      /\ (ToSet(Serials))' = ToSet(Serials') /\ a_sent' = a_sent /\ a_buffers' = a_buffers
      /\ a_source' = a_source /\ a_queued' = a_queued
  BY <1>1
<1>5. Ascending(Serials)' /\ Ascending(a_heard)' /\ Ascending(a_queued)'
  BY <1>0, <1>1, <1>2 DEF AudioOrder, Ascending
<1>6. AudioOrder'
  <2> HIDE DEF Serials
  <2> QED  BY <1>0, <1>2, <1>4, <1>5 DEF AudioOrder
<1>7. AudioBuffers'
  <2> HIDE DEF Serials
  <2> QED  BY <1>0, <1>2, <1>4 DEF AudioBuffers
<1>8. AudioDevice'
  BY <1>0, <1>1 DEF AudioDevice, Unheard
<1> QED  BY <1>3, <1>6, <1>7, <1>8 DEF AudioInv

LEMMA AudioEnqueues == AudioInv /\ Audio!Enqueue => AudioInv'
<1> SUFFICES ASSUME AudioInv, Audio!Enqueue PROVE AudioInv'  OBVIOUS
<1> DEFINE n == Head(a_queue).serial
           u == Append(a_queued, n)
<1>0. AudioTypes /\ AudioOrder /\ AudioDevice /\ AudioBuffers
  BY DEF AudioInv
<1>1. /\ UNCHANGED <<a_sent, s2, s3, a_state, a_buffers, a_heard, a_pc, a_local>>
      /\ a_pc = "enqueue"
  BY DEF Audio!Enqueue, Audio!Queue, a_sent, a_state, a_buffers, a_heard, a_pc, a_local
<1>2. /\ a_queue # <<>> /\ a_queue' = Tail(a_queue)
      /\ a_queued' = u /\ a_source' = Append(a_source, n)
      /\ a_processed' = IF a_state = "stopped" THEN a_processed + 1 ELSE a_processed
  BY DEF Audio!Enqueue, Audio!Queue, Audio!First, a_queue, a_source, a_queued, a_processed, a_state
<1>3. /\ n \in Nat /\ n <= a_sent /\ n \in a_buffers
      /\ a_queue' \in Seq(Pieces) /\ Ascending(Serials')
      /\ ToSet(Serials) = {n} \cup ToSet(Serials')
      /\ \A y \in ToSet(Serials') : n < y
      /\ \A x \in ToSet(a_queued) \cup ToSet(a_heard) : x < n
  BY <1>2, AudioFirst
<1> HIDE DEF n
<1>4. /\ a_queued \in Seq(Nat) /\ Len(a_queued) \in Nat /\ a_processed \in Nat
      /\ DOMAIN a_queued = 1..Len(a_queued)
  BY <1>0 DEF AudioTypes
<1>5. /\ u \in Seq(Nat) /\ Len(u) = Len(a_queued) + 1 /\ DOMAIN u = 1..Len(a_queued) + 1
      /\ \A j \in 1..Len(a_queued) : u[j] = a_queued[j]
      /\ u[Len(a_queued) + 1] = n
  BY <1>3, <1>4
<1>6. ToSet(u) = ToSet(a_queued) \cup {n}
  BY <1>3, <1>4, OneBehind
<1>7. Ascending(u)
  BY <1>0, <1>3, <1>4, AscendingLists DEF AudioOrder
<1> HIDE DEF u
<1>8. a_processed' \in Nat
  BY <1>2, <1>4
<1>9. AudioTypes'
  BY <1>0, <1>1, <1>2, <1>3, <1>5, <1>8 DEF AudioTypes
<1>10. /\ (ToSet(a_queued))' = ToSet(a_queued) \cup {n} /\ (ToSet(a_heard))' = ToSet(a_heard)
       /\ (ToSet(Serials))' = ToSet(Serials') /\ a_sent' = a_sent /\ a_buffers' = a_buffers
  BY <1>1, <1>2, <1>6
<1>11. Ascending(Serials)' /\ Ascending(a_heard)' /\ Ascending(a_queued)'
  BY <1>0, <1>1, <1>2, <1>3, <1>7 DEF AudioOrder, Ascending
<1>12. AudioOrder'
  <2> HIDE DEF Serials
  <2> QED  BY <1>0, <1>3, <1>10, <1>11 DEF AudioOrder
<1>13. AudioBuffers'
  <2>1. a_source' = a_queued'
    BY <1>0, <1>2 DEF AudioBuffers, u
  <2> HIDE DEF Serials
  <2> QED  BY <1>0, <1>3, <1>10, <2>1 DEF AudioBuffers
<1>14. ASSUME NEW from, Unheard(from)
       PROVE  \A x \in ToSet(a_heard) : \A i \in DOMAIN u : from < i => x < u[i]
  <2> SUFFICES ASSUME NEW x \in ToSet(a_heard), NEW i \in 1..Len(a_queued) + 1, from < i
               PROVE  x < u[i]
    BY <1>5
  <2>1. CASE i \in 1..Len(a_queued)
    BY <1>4, <1>5, <1>14, <2>1 DEF Unheard
  <2>2. CASE i = Len(a_queued) + 1
    BY <1>3, <1>5, <2>2
  <2>3. i \in 1..Len(a_queued) \/ i = Len(a_queued) + 1
    BY <1>4
  <2> QED  BY <2>1, <2>2, <2>3
<1>15. AudioDevice'
  <2>1. CASE a_state = "playing"
    <3>1. a_processed' = a_processed
      BY <1>2, <2>1
    <3>2. a_processed < Len(a_queued) + 1
      <4>1. a_processed < Len(a_queued)
        BY <1>0, <2>1 DEF AudioDevice
      <4> QED  BY <1>4, <4>1
    <3>3. \A x \in ToSet(a_heard) : \A i \in DOMAIN u : a_processed < i => x < u[i]
      BY <1>0, <1>14, <2>1 DEF AudioDevice
    <3>4. Unheard(a_processed)'
      BY <1>2, <1>10, <3>1, <3>3 DEF Unheard
    <3>5. a_processed' < Len(a_queued')
      BY <1>2, <1>5, <3>1, <3>2
    <3>6. a_local.isPlaying
      BY <1>0, <1>1, <2>1 DEF AudioDevice
    <3> QED  BY <1>1, <2>1, <3>4, <3>5, <3>6 DEF AudioDevice
  <2>2. CASE a_state # "playing"
    <3>1. a_state = "initial" => a_processed' = 0 /\ a_heard' = <<>>
      BY <1>0, <1>1, <1>2, <2>2 DEF AudioDevice
    <3>2. a_state # "initial" => a_processed' = Len(a_queued')
      <4>1. CASE a_state = "stopped"
        <5>1. a_processed = Len(a_queued)
          BY <1>0, <4>1 DEF AudioDevice
        <5> QED  BY <1>2, <1>5, <4>1, <5>1
      <4>2. a_state # "initial" => a_state = "stopped"
        BY <1>0, <2>2 DEF AudioTypes
      <4> QED  BY <4>1, <4>2
    <3>3. ~a_local.isPlaying => \A x \in ToSet(a_heard) : \A i \in DOMAIN u : 0 < i => x < u[i]
      BY <1>0, <1>1, <1>14 DEF AudioDevice
    <3>4. ~a_local.isPlaying => Unheard(0)'
      BY <1>2, <1>10, <3>3 DEF Unheard
    <3> QED  BY <1>1, <2>2, <3>1, <3>2, <3>4 DEF AudioDevice
  <2> QED  BY <2>1, <2>2
<1> QED  BY <1>9, <1>12, <1>13, <1>15 DEF AudioInv

\* The source is started if it did not play.
LEMMA AudioEnqueued == AudioInv /\ Audio!Enqueued => AudioInv'
<1> SUFFICES ASSUME AudioInv, Audio!Enqueued PROVE AudioInv'  OBVIOUS
<1>0. AudioTypes /\ AudioOrder /\ AudioDevice /\ AudioBuffers
  BY DEF AudioInv
<1>1. /\ UNCHANGED <<a_sent, s2, s3, a_queue, a_source, a_queued, a_buffers, a_heard, a_local>>
      /\ a_pc = "enqueue" /\ a_pc' = "input"
      /\ \/ a_local.isPlaying /\ a_processed' = a_processed /\ a_state' = a_state
         \/ /\ ~a_local.isPlaying /\ a_processed' = 0
            /\ a_state' = IF a_queued = <<>> THEN "stopped" ELSE "playing"
  BY DEF Audio!Enqueued, Audio!Play, Audio!Goto, Audio!device, a_sent, a_queue, a_source, a_queued,
         a_processed, a_state, a_buffers, a_heard, a_pc, a_local
<1>2. a_processed' \in Nat
  BY <1>0, <1>1 DEF AudioTypes
<1>3. AudioTypes' /\ AudioOrder' /\ AudioBuffers'
  BY <1>0, <1>1, <1>2 DEF AudioTypes, AudioOrder, AudioBuffers, Serials
<1>4. CASE a_local.isPlaying /\ a_processed' = a_processed /\ a_state' = a_state
  BY <1>0, <1>1, <1>3, <1>4 DEF AudioDevice, Unheard, AudioInv
<1>5. CASE /\ ~a_local.isPlaying /\ a_processed' = 0
           /\ a_state' = IF a_queued = <<>> THEN "stopped" ELSE "playing"
  <2>1. Unheard(0)
    BY <1>0, <1>1, <1>5 DEF AudioDevice
  <2>2. a_queued = <<>> => Len(a_queued) = 0
    OBVIOUS
  <2>3. a_queued # <<>> => 0 < Len(a_queued)
    BY <1>0 DEF AudioTypes
  <2>4. AudioDevice'
    BY <1>1, <1>5, <2>1, <2>2, <2>3 DEF AudioDevice, Unheard
  <2> QED  BY <1>3, <2>4 DEF AudioInv
<1> QED  BY <1>1, <1>4, <1>5

LEMMA AudioInit == Audio!Init => AudioInv
<1> SUFFICES ASSUME Audio!Init PROVE AudioInv  OBVIOUS
<1>1. /\ a_sent = 0 /\ s2 \in 0..1 /\ s3 = 0 /\ a_queue = <<>> /\ a_source = <<>> /\ a_queued = <<>>
      /\ a_processed = 0 /\ a_state = "initial" /\ a_buffers = {} /\ a_heard = <<>>
      /\ a_pc = "input" /\ a_local = [progress |-> 0, isPlaying |-> FALSE, count |-> 0]
  BY DEF Audio!Init, a_sent, a_queue, a_source, a_queued, a_processed, a_state, a_buffers, a_heard,
         a_pc, a_local
<1>2. ToSet(<<>>) = {} /\ Serials = <<>>
  BY <1>1 DEF ToSet, Serials, SerialsOf
<1>3. AudioTypes /\ AudioDevice
  BY <1>1, <1>2 DEF AudioTypes, AudioDevice
<1>4. AudioOrder /\ AudioBuffers
  BY <1>1, <1>2 DEF AudioOrder, AudioBuffers, Ascending
<1> QED  BY <1>3, <1>4 DEF AudioInv

LEMMA AudioSound == AudioInv => Audio!HeardOnce /\ Audio!QueuesAgree
<1> SUFFICES ASSUME AudioInv PROVE Audio!HeardOnce /\ Audio!QueuesAgree  OBVIOUS
<1>0. AudioTypes /\ AudioOrder /\ AudioDevice /\ AudioBuffers
  BY DEF AudioInv
<1>1. Audio!HeardOnce
  BY <1>0 DEF AudioOrder, Ascending, Audio!HeardOnce, a_heard
<1>2. \A i \in DOMAIN a_queue : a_queue[i].serial \in ToSet(Serials)
  BY DEF ToSet, Serials, SerialsOf
<1>3. Audio!QueuesAgree
  BY <1>0, <1>2
  DEF AudioBuffers, AudioDevice, ToSet, Audio!QueuesAgree, a_queue, a_source, a_queued, a_processed,
      a_buffers, a_pc, a_local
<1> QED  BY <1>1, <1>3

LEMMA AudioNext == AudioInv /\ (Audio!Next \/ UNCHANGED slots) => AudioInv'
<1> SUFFICES ASSUME AudioInv, Audio!Next \/ UNCHANGED slots PROVE AudioInv'  OBVIOUS
<1> QED  BY AudioTime, AudioFinishes, AudioInput, AudioAsks, AudioDequeues, AudioDequeued, AudioSkips,
            AudioEnqueues, AudioEnqueued
         DEF Audio!Next, Audio!UpdateContent, slots

-----------------------------------------------------------------------------
(* AudioDecoder, in the slots of Decoder.                                  *)
d_swr      == s1
d_format   == s2
d_rate     == s3
d_pts      == s4
d_base     == s5
d_size     == s6
d_output   == s7
d_position == s8
d_slack    == s9

TickOf(rate) == Second \div rate

Near(pts, base, at, allowed) ==
  \E rate \in Rates : /\ 2 * (pts * TickOf(base) - at) <= allowed * TickOf(rate)
                      /\ -2 * (pts * TickOf(base) - at) <= allowed * TickOf(rate)

DecoderInv ==
  /\ d_base \in Rates /\ d_pts \in Int /\ d_slack \in Nat /\ d_size \in Nat
  /\ d_position # NULL => d_pts \in Nat /\ d_position \in Int /\ Near(d_pts, d_base, d_position, d_slack)
  /\ d_swr = NULL \/ d_swr = [format |-> d_format, rate |-> d_rate]
  /\ d_output # NULL => d_output.by = d_output.from /\ d_output.fits

LEMMA Division ==
  ASSUME NEW x \in Nat, NEW d \in Nat \ {0}
  PROVE  /\ x \div d \in Nat
         /\ d * (x \div d) <= x /\ x < d * (x \div d) + d
         /\ x % d = 0 => d * (x \div d) = x
OBVIOUS

LEMMA SignOfFactor ==
  ASSUME NEW r \in Nat \ {0}, NEW x \in Int
  PROVE  (r * x <= 0 => x <= 0) /\ (r * x < 0 => x < 0)
<1>1. ASSUME x > 0 PROVE r * x > 0
  BY <1>1
<1>2. ASSUME x >= 0 PROVE r * x >= 0
  BY <1>2
<1> QED  BY <1>1, <1>2

LEMMA LargerFactor ==
  ASSUME NEW n \in Nat, NEW t \in Int, NEW u \in Int, t <= u
  PROVE  n * t <= n * u
<1>1. n * (u - t) >= 0
  OBVIOUS
<1>2. n * (u - t) = n * u - n * t
  OBVIOUS
<1> QED  BY <1>1, <1>2

LEMMA TickType ==
  ASSUME NEW r \in Rates
  PROVE  r \in Nat \ {0} /\ TickOf(r) \in Nat /\ r * TickOf(r) = Second
<1>1. r \in Nat \ {0} /\ Second \in Nat /\ Second % r = 0
  BY StreamsAssumption
<1> QED  BY <1>1, Division DEF TickOf

(* To the nearest: p is at most half a unit of the new base away.          *)
LEMMA NearestValue ==
  ASSUME NEW a \in Nat, NEW b \in Nat \ {0}, NEW r \in Nat \ {0}
  PROVE  LET p == (2 * a * r + b) \div (2 * b) IN
         /\ p \in Nat
         /\ b * (2 * p) <= 2 * a * r + b
         /\ 2 * a * r < b * (2 * p) + b
<1> DEFINE x == 2 * a * r + b
           d == 2 * b
           p == x \div d
<1>1. x \in Nat /\ d \in Nat \ {0}
  OBVIOUS
<1>2. /\ p \in Nat /\ d * p <= x /\ x < d * p + d
  <2> HIDE DEF x, d
  <2> QED  BY <1>1, Division
<1> HIDE DEF p
<1>3. d * p = b * (2 * p)
  BY <1>2
<1> QED  BY <1>2, <1>3 DEF p

(* A time in two bases, b and r, of a second that is b * bt and r * rt.    *)
LEMMA HalfATick ==
  ASSUME NEW a \in Nat, NEW b \in Nat \ {0}, NEW bt \in Nat, NEW r \in Nat \ {0}, NEW rt \in Nat,
         b * bt = r * rt, NEW p \in Nat,
         b * (2 * p) <= 2 * a * r + b, 2 * a * r < b * (2 * p) + b
  PROVE  /\ 2 * (p * rt - a * bt) <= rt
         /\ -2 * (p * rt - a * bt) <= rt
<1> DEFINE y == b * (2 * p) - 2 * a * r - b
           z == 2 * a * r - b * (2 * p) - b
           v == 2 * (p * rt - a * bt) - rt
           w == -2 * (p * rt - a * bt) - rt
<1>1. y \in Int /\ y <= 0 /\ z \in Int /\ z <= 0 /\ v \in Int /\ w \in Int
  OBVIOUS
<1>2. b * v = rt * y
  <2>1. b * v = 2 * (b * p * rt) - 2 * (a * (b * bt)) - b * rt
    OBVIOUS
  <2>2. rt * y = 2 * (b * p * rt) - 2 * (a * (r * rt)) - b * rt
    OBVIOUS
  <2> QED  BY <2>1, <2>2
<1>3. b * w = rt * z
  <2>1. b * w = 2 * (a * (b * bt)) - 2 * (b * p * rt) - b * rt
    OBVIOUS
  <2>2. rt * z = 2 * (a * (r * rt)) - 2 * (b * p * rt) - b * rt
    OBVIOUS
  <2> QED  BY <2>1, <2>2
<1> HIDE DEF y, z, v, w
<1>4. rt * y <= 0 /\ rt * z <= 0
  <2>1. rt * y <= rt * 0 /\ rt * z <= rt * 0
    BY <1>1, LargerFactor
  <2> QED  BY <2>1
<1>5. v <= 0 /\ w <= 0
  BY <1>1, <1>2, <1>3, <1>4, SignOfFactor
<1> QED  BY <1>5 DEF v, w

\* A second more allowed for: what was near stays near.
LEMMA NearStays ==
  ASSUME NEW n \in Nat, NEW x \in Int, NEW e \in Int, NEW s \in Rates, NEW r \in Rates,
         2 * x <= n * TickOf(s), -2 * x <= n * TickOf(s),
         2 * e <= TickOf(r), -2 * e <= TickOf(r)
  PROVE  \E rate \in Rates : /\ 2 * (x + e) <= (n + 1) * TickOf(rate)
                             /\ -2 * (x + e) <= (n + 1) * TickOf(rate)
<1> DEFINE t == TickOf(s)
           u == TickOf(r)
<1>1. t \in Nat /\ u \in Nat
  BY TickType
<1>2. 2 * x <= n * t /\ -2 * x <= n * t /\ 2 * e <= u /\ -2 * e <= u
  OBVIOUS
<1>3. CASE u <= t
  <2>1. (n + 1) * t = n * t + t
    BY <1>1
  <2>2. n * t \in Int
    BY <1>1
  <2>3. 2 * (x + e) <= (n + 1) * t /\ -2 * (x + e) <= (n + 1) * t
    <3> HIDE DEF t, u
    <3> QED  BY <1>1, <1>2, <1>3, <2>1, <2>2
  <2> QED  BY <2>3
<1>4. CASE t <= u
  <2>1. (n + 1) * u = n * u + u
    BY <1>1
  <2>2. n * u \in Int /\ n * t \in Int /\ n * t <= n * u
    <3> HIDE DEF t, u
    <3> QED  BY <1>1, <1>4, LargerFactor
  <2>3. 2 * (x + e) <= (n + 1) * u /\ -2 * (x + e) <= (n + 1) * u
    <3> HIDE DEF t, u
    <3> QED  BY <1>1, <1>2, <2>1, <2>2
  <2> QED  BY <2>3
<1> HIDE DEF t, u
<1> QED  BY <1>1, <1>3, <1>4

\* A frame.
LEMMA DecoderNext == DecoderInv /\ Decoder!Next => DecoderInv'
<1> SUFFICES ASSUME DecoderInv, NEW f \in Decoder!Frame, Decoder!ProcessInput(f) PROVE DecoderInv'
  BY DEF Decoder!Next
<1> USE StreamsAssumption
<1> DEFINE r   == f.rate
           add == f.samples * TickOf(r)
<1>1. r \in Rates /\ f.samples \in Nat
  BY DEF Decoder!Frame
<1>2. PICK at \in IF f.stamped THEN 0..StreamEnd ELSE {d_position} :
        \E initialised, committed \in BOOLEAN :
          /\ Decoder!Clock(f, Decoder!Pts(f, at))
          /\ Decoder!Converter(f, initialised) /\ Decoder!Fragment(f, committed)
          /\ d_position' = IF at = NULL THEN NULL ELSE at + add
          /\ d_slack' = IF f.stamped THEN 1 ELSE IF r = d_base THEN d_slack ELSE d_slack + 1
  BY DEF Decoder!ProcessInput, d_position, d_slack, d_base, TickOf
<1>3. PICK initialised \in BOOLEAN, committed \in BOOLEAN :
          Decoder!Converter(f, initialised) /\ Decoder!Fragment(f, committed)
  BY <1>2
<1>4. \/ d_swr' = NULL
      \/ /\ d_swr' = [format |-> f.format, rate |-> f.rate]
         /\ d_format' = f.format /\ d_rate' = f.rate
      \/ /\ d_swr' = d_swr /\ d_format' = d_format /\ d_rate' = d_rate
         /\ d_format = f.format /\ d_rate = f.rate
  <2>1. CASE Decoder!Fits(f)
    BY <1>3, <2>1 DEF Decoder!Converter, Decoder!Fits, Decoder!converter, d_swr, d_format, d_rate
  <2>2. CASE ~Decoder!Fits(f)
    BY <1>3, <2>2 DEF Decoder!Converter, d_swr, d_format, d_rate
  <2> QED  BY <2>1, <2>2
<1>5. d_swr' # NULL => d_swr' = [format |-> f.format, rate |-> f.rate]
  BY <1>4 DEF DecoderInv
<1>6. d_swr' = NULL \/ d_swr' = [format |-> d_format', rate |-> d_rate']
  BY <1>4 DEF DecoderInv
<1>7. d_size' \in Nat /\ (d_output' # NULL => d_output'.by = d_output'.from /\ d_output'.fits)
  <2>1. CASE d_swr' = NULL
    BY <1>3, <2>1 DEF Decoder!Fragment, DecoderInv, d_swr, d_size, d_output
  <2>2. CASE d_swr' # NULL
    <3>1. d_size' = IF d_size > f.samples THEN d_size ELSE f.samples
      BY <1>3, <2>2 DEF Decoder!Fragment, Decoder!Larger, d_swr, d_size
    <3>2. d_size \in Nat
      BY DEF DecoderInv
    <3>3. d_size' \in Nat /\ f.samples <= d_size'
      BY <1>1, <3>1, <3>2
    <3>4. \/ d_output' = d_output
          \/ d_output' = [from |-> [format |-> f.format, rate |-> f.rate], by |-> d_swr',
                          fits |-> f.samples <= d_size']
      BY <1>3, <2>2 DEF Decoder!Fragment, d_swr, d_size, d_output
    <3>5. CASE d_output' = d_output
      BY <3>3, <3>5 DEF DecoderInv
    <3>6. CASE d_output' = [from |-> [format |-> f.format, rate |-> f.rate], by |-> d_swr',
                            fits |-> f.samples <= d_size']
      <4>1. d_output'.by = d_swr' /\ d_output'.from = [format |-> f.format, rate |-> f.rate]
        BY <3>6
      <4>2. d_output'.fits = (f.samples <= d_size')
        BY <3>6
      <4> QED  BY <1>5, <2>2, <3>3, <4>1, <4>2
    <3> QED  BY <3>4, <3>5, <3>6
  <2> QED  BY <2>1, <2>2
<1>8. add \in Nat /\ r \in Nat \ {0} /\ TickOf(r) \in Nat /\ r * TickOf(r) = Second
  <2>1. r \in Nat \ {0} /\ TickOf(r) \in Nat /\ r * TickOf(r) = Second
    BY <1>1, TickType
  <2>2. \A m \in Nat, t \in Nat : m * t \in Nat
    OBVIOUS
  <2> QED  BY <1>1, <2>1, <2>2
<1>9. d_base \in Nat \ {0} /\ TickOf(d_base) \in Nat /\ d_base * TickOf(d_base) = Second
  BY TickType DEF DecoderInv
<1>10. /\ d_pts \in Int /\ d_slack \in Nat
       /\ d_position # NULL => d_pts \in Nat /\ d_position \in Int
                                 /\ Near(d_pts, d_base, d_position, d_slack)
  BY DEF DecoderInv
<1> DEFINE pts == Decoder!Pts(f, at)
<1>11. IF pts = -1000000 THEN d_pts' = d_pts /\ d_base' = d_base
       ELSE d_pts' = pts + f.samples /\ d_base' = r
  BY <1>2 DEF Decoder!Clock, Decoder!clock, Decoder!NoPTS, d_pts, d_base
<1>12. d_slack' \in Nat /\ d_position' = (IF at = NULL THEN NULL ELSE at + add)
       /\ d_slack' = IF f.stamped THEN 1 ELSE IF r = d_base THEN d_slack ELSE d_slack + 1
  BY <1>2, <1>10
<1>13. \A p \in Int : \A a \in Int : (p + f.samples) * TickOf(r) - (a + add) = p * TickOf(r) - a
  <2> DEFINE t == TickOf(r)
             m == f.samples
  <2> SUFFICES ASSUME NEW p \in Int, NEW a \in Int
               PROVE  (p + m) * t - (a + m * t) = p * t - a
    OBVIOUS
  <2>1. m \in Nat /\ t \in Nat
    BY <1>1, <1>8
  <2> HIDE DEF m, t
  <2> QED  BY <2>1
<1>14. CASE f.stamped
  <2>1. at \in 0..StreamEnd /\ at \in Nat
    BY <1>2, <1>14
  <2>2. pts = (2 * at * r + Second) \div (2 * Second)
    BY <1>14 DEF Decoder!Pts, Decoder!Rescale
  <2> HIDE DEF pts, r, add
  <2>3. pts \in Nat /\ Second * (2 * pts) <= 2 * at * r + Second
          /\ 2 * at * r < Second * (2 * pts) + Second
    BY <1>8, <2>1, <2>2, NearestValue
  <2>4. /\ 2 * (pts * TickOf(r) - at * 1) <= TickOf(r)
        /\ -2 * (pts * TickOf(r) - at * 1) <= TickOf(r)
    <3>1. Second * 1 = r * TickOf(r)
      BY <1>8
    <3> QED  BY <1>8, <2>1, <2>3, <3>1, HalfATick
  <2>5. d_pts' = pts + f.samples /\ d_base' = r /\ d_slack' = 1
    BY <1>11, <1>12, <1>14, <2>3
  <2>6. d_pts' \in Nat
    BY <1>1, <2>3, <2>5
  <2>7. ASSUME d_position' # NULL
        PROVE  d_position' \in Int /\ Near(d_pts', d_base', d_position', d_slack')
    <3>1. d_position' = at + add /\ at + add \in Int
      BY <1>8, <1>12, <2>1, <2>7
    <3>2. (pts + f.samples) * TickOf(r) - (at + add) = pts * TickOf(r) - at
      BY <1>13, <2>1, <2>3
    <3>3. /\ 2 * (pts * TickOf(r) - at) <= 1 * TickOf(r)
          /\ -2 * (pts * TickOf(r) - at) <= 1 * TickOf(r)
      BY <1>8, <2>1, <2>3, <2>4
    <3>4. Near(pts + f.samples, r, at + add, 1)
      BY <1>1, <3>2, <3>3 DEF Near, r
    <3> QED  BY <2>5, <3>1, <3>4
  <2>8. DecoderInv'
    <3>1. Near(d_pts, d_base, d_position, d_slack)' = Near(d_pts', d_base', d_position', d_slack')
      BY DEF Near, TickOf
    <3> QED  BY <1>1, <1>6, <1>7, <1>12, <2>5, <2>6, <2>7, <3>1 DEF DecoderInv, r
  <2> QED  BY <2>8
<1>15. CASE ~f.stamped
  <2>1. at = d_position
    BY <1>2, <1>15
  <2>2. pts = IF d_pts = -1000000 THEN -1000000 ELSE (2 * d_pts * r + d_base) \div (2 * d_base)
    BY <1>15 DEF Decoder!Pts, Decoder!Rescale, Decoder!NoPTS, d_pts, d_base
  <2> HIDE DEF pts, r, add
  <2>3. d_base' \in Rates
    BY <1>1, <1>11 DEF DecoderInv, r
  <2>4. d_pts' \in Int
    <3>1. CASE d_pts = -1000000
      BY <1>10, <1>11, <2>2, <3>1
    <3>2. CASE d_pts # -1000000
      <4>1. \A x \in Int, d \in Nat \ {0} : x \div d \in Int
        OBVIOUS
      <4>2. 2 * d_pts * r + d_base \in Int /\ 2 * d_base \in Nat \ {0}
        BY <1>8, <1>9, <1>10
      <4>3. pts \in Int
        BY <2>2, <3>2, <4>1, <4>2
      <4> QED  BY <1>1, <1>10, <1>11, <4>3
    <3> QED  BY <3>1, <3>2
  <2>5. ASSUME d_position' # NULL
        PROVE  /\ d_pts' \in Nat /\ d_position' \in Int
               /\ Near(d_pts', d_base', d_position', d_slack')
    <3>1. d_position # NULL /\ d_position' = d_position + add
      BY <1>12, <2>1, <2>5
    <3>2. /\ d_pts \in Nat /\ d_position \in Int /\ d_position + add \in Int
          /\ Near(d_pts, d_base, d_position, d_slack)
      BY <1>8, <1>10, <3>1
    <3>3. d_pts # -1000000
      BY <3>2
    <3>4. pts = (2 * d_pts * r + d_base) \div (2 * d_base)
      BY <2>2, <3>3
    <3>5. pts \in Nat /\ d_base * (2 * pts) <= 2 * d_pts * r + d_base
            /\ 2 * d_pts * r < d_base * (2 * pts) + d_base
      BY <1>8, <1>9, <3>2, <3>4, NearestValue
    <3>6. d_pts' = pts + f.samples /\ d_base' = r /\ d_pts' \in Nat
      BY <1>1, <1>11, <3>5
    <3>7. (pts + f.samples) * TickOf(r) - (d_position + add) = pts * TickOf(r) - d_position
      BY <1>13, <3>2, <3>5
    <3> DEFINE x == d_pts * TickOf(d_base) - d_position
               e == pts * TickOf(r) - d_pts * TickOf(d_base)
    <3>8. x \in Int /\ e \in Int /\ pts * TickOf(r) - d_position = x + e
      BY <1>8, <1>9, <3>2, <3>5
    <3>9. PICK s \in Rates : 2 * x <= d_slack * TickOf(s) /\ -2 * x <= d_slack * TickOf(s)
      BY <3>2 DEF Near
    <3>10. 2 * e <= TickOf(r) /\ -2 * e <= TickOf(r)
      BY <1>8, <1>9, <3>2, <3>5, HalfATick
    <3>11. CASE r = d_base
      <4>1. pts = d_pts
        <5> DEFINE g == 2 * pts - 2 * d_pts - 1
                   h == 2 * d_pts - 2 * pts - 1
        <5>1. g \in Int /\ h \in Int
          BY <3>2, <3>5
        <5>2. d_base * g = d_base * (2 * pts) - 2 * d_pts * d_base - d_base
          BY <1>9, <3>2, <3>5
        <5>3. d_base * h = 2 * d_pts * d_base - d_base * (2 * pts) - d_base
          BY <1>9, <3>2, <3>5
        <5>4. d_base * g <= 0 /\ d_base * h < 0
          BY <1>9, <3>2, <3>5, <3>11, <5>2, <5>3
        <5>5. g <= 0 /\ h < 0
          <6> HIDE DEF g, h
          <6> QED  BY <1>9, <5>1, <5>4, SignOfFactor
        <5> QED  BY <3>2, <3>5, <5>5
      <4>2. pts * TickOf(r) - d_position = x
        BY <3>11, <4>1
      <4>3. d_slack' = d_slack
        BY <1>12, <1>15, <3>11
      <4> HIDE DEF x
      <4>4. Near(pts + f.samples, r, d_position + add, d_slack)
        BY <3>7, <3>9, <4>2 DEF Near
      <4> QED  BY <3>1, <3>2, <3>6, <4>3, <4>4
    <3>12. CASE r # d_base
      <4> HIDE DEF x, e
      <4>1. d_slack' = d_slack + 1
        BY <1>12, <1>15, <3>12
      <4>2. r \in Rates
        BY <1>1 DEF r
      <4>3. \E rate \in Rates : /\ 2 * (x + e) <= (d_slack + 1) * TickOf(rate)
                                /\ -2 * (x + e) <= (d_slack + 1) * TickOf(rate)
        BY <1>10, <3>8, <3>9, <3>10, <4>2, NearStays
      <4>4. Near(pts + f.samples, r, d_position + add, d_slack + 1)
        BY <3>7, <3>8, <4>3 DEF Near
      <4> QED  BY <3>1, <3>2, <3>6, <4>1, <4>4
    <3> QED  BY <3>11, <3>12
  <2>6. Near(d_pts, d_base, d_position, d_slack)' = Near(d_pts', d_base', d_position', d_slack')
    BY DEF Near, TickOf
  <2> QED  BY <1>6, <1>7, <1>12, <2>3, <2>4, <2>5, <2>6 DEF DecoderInv
<1> QED  BY <1>14, <1>15

LEMMA DecoderInit == Decoder!Init => DecoderInv
<1> SUFFICES ASSUME Decoder!Init PROVE DecoderInv  OBVIOUS
<1>1. /\ d_swr = NULL /\ d_pts \in {-1000000, 1} /\ d_base \in Rates /\ d_size = 0
      /\ d_output = NULL /\ d_position = NULL /\ d_slack = 0
  BY DEF Decoder!Init, Decoder!NoPTS, d_swr, d_pts, d_base, d_size, d_output, d_position, d_slack
<1> QED  BY <1>1 DEF DecoderInv

LEMMA DecoderIsSound == DecoderInv => Decoder!DecoderSound
<1> SUFFICES ASSUME DecoderInv PROVE Decoder!DecoderSound  OBVIOUS
<1>1. Decoder!ClockKeepsTime
  BY DEF DecoderInv, Near, TickOf, Decoder!ClockKeepsTime, d_pts, d_base, d_position, d_slack
<1>2. Decoder!ConvertedAsItIs
  BY DEF DecoderInv, Decoder!ConvertedAsItIs, d_output
<1> QED  BY <1>1, <1>2 DEF Decoder!DecoderSound

-----------------------------------------------------------------------------
(* DestinationProgress, in the slots of Slowest.                           *)
p_progress == s1
p_tree     == s2
p_last     == s3
p_current  == s4
p_mistaken == s5
p_crashed  == s6

(* The tree points at each of D once, and is in the order of map.          *)
PointsAt(tree, D) ==
  /\ tree \in Seq(D) /\ ToSet(tree) = D
  /\ \A i, j \in 1..Len(tree) : tree[i] = tree[j] => i = j

OrderedBy(tree, map) ==
  \A i, j \in 1..Len(tree) : i < j => map[tree[i]] <= map[tree[j]]

SlowestInv ==
  /\ p_progress \in [DOMAIN p_progress -> Int]
  /\ p_mistaken \in BOOLEAN /\ p_crashed \in BOOLEAN /\ p_current \in BOOLEAN
  /\ ~p_mistaken =>
       /\ PointsAt(p_tree, DOMAIN p_progress) /\ OrderedBy(p_tree, p_progress)
       /\ p_current => /\ \A k \in DOMAIN p_progress : p_last <= p_progress[k]
                       /\ \E k \in DOMAIN p_progress : p_last = p_progress[k]

(* Where the elements are after a removal.                                 *)
LEMMA RemoveType ==
  ASSUME NEW S, NEW s \in Seq(S), NEW n \in 1..Len(s)
  PROVE  LET t == RemoveAt(s, n) IN
         /\ t \in Seq(S) /\ Len(t) = Len(s) - 1
         /\ \A j \in 1..Len(s) - 1 : t[j] = IF j < n THEN s[j] ELSE s[j + 1]
<1> DEFINE front == SubSeq(s, 1, n - 1)
           back  == SubSeq(s, n + 1, Len(s))
           t     == front \o back
<1>0. Len(s) \in Nat /\ n \in Nat /\ n <= Len(s) /\ n # 0
  OBVIOUS
<1>1. /\ front \in Seq(S) /\ Len(front) = n - 1
      /\ \A j \in 1..n - 1 : front[j] = s[j]
  OBVIOUS
<1>2. /\ back \in Seq(S) /\ Len(back) = Len(s) - n
      /\ \A j \in 1..Len(s) - n : back[j] = s[n + j]
  OBVIOUS
<1>3. RemoveAt(s, n) = t
  BY DEF RemoveAt
<1> HIDE DEF front, back
<1>4. t \in Seq(S) /\ Len(t) = Len(front) + Len(back)
  <2>1. front \in Seq(S) /\ back \in Seq(S)
    BY <1>1, <1>2
  <2> QED  BY <2>1
<1>5. \A j \in 1..Len(front) + Len(back) :
        t[j] = IF j <= Len(front) THEN front[j] ELSE back[j - Len(front)]
  BY <1>1, <1>2
<1> HIDE DEF t
<1>6. Len(front) + Len(back) = Len(s) - 1
  BY <1>0, <1>1, <1>2
<1>7. ASSUME NEW j \in 1..Len(s) - 1 PROVE t[j] = IF j < n THEN s[j] ELSE s[j + 1]
  <2>1. t[j] = IF j <= n - 1 THEN front[j] ELSE back[j - (n - 1)]
    BY <1>1, <1>5, <1>6
  <2>2. CASE j < n
    <3>1. j <= n - 1 /\ j \in 1..n - 1
      BY <1>0, <2>2
    <3> QED  BY <1>1, <2>1, <2>2, <3>1
  <2>3. CASE ~(j < n)
    <3>1. ~(j <= n - 1) /\ j - (n - 1) \in 1..Len(s) - n /\ n + (j - (n - 1)) = j + 1
      BY <1>0, <2>3
    <3>2. back[j - (n - 1)] = s[n + (j - (n - 1))]
      BY <1>2, <3>1
    <3> QED  BY <2>1, <2>3, <3>1, <3>2
  <2> QED  BY <2>2, <2>3
<1> QED  BY <1>3, <1>4, <1>6, <1>7

(* A pointer is put behind all that are not greater.                       *)
LEMMA PointerAdded ==
  ASSUME NEW D, NEW k, k \notin D, NEW map, \A d \in D \cup {k} : map[d] \in Int,
         NEW tree, PointsAt(tree, D), OrderedBy(tree, map),
         NEW n, n = 1 + Cardinality({i \in 1..Len(tree) : map[tree[i]] <= map[k]})
  PROVE  /\ PointsAt(InsertAt(tree, n, k), D \cup {k})
         /\ OrderedBy(InsertAt(tree, n, k), map)
<1> DEFINE L == Len(tree)
           E == D \cup {k}
           t == InsertAt(tree, n, k)
           before == {i \in 1..L : map[tree[i]] <= map[k]}
<1>1. tree \in Seq(D) /\ tree \in Seq(E) /\ L \in Nat /\ DOMAIN tree = 1..L /\ k \in E
      /\ \A i \in 1..L : tree[i] \in D
  BY DEF PointsAt
<1>2. ASSUME NEW i \in before, NEW j \in 1..i PROVE j \in before
  <2>1. i \in 1..L /\ j \in 1..L /\ j <= i /\ map[tree[i]] <= map[k]
    BY <1>1
  <2>2. map[tree[i]] \in Int /\ map[tree[j]] \in Int /\ map[k] \in Int
    BY <1>1, <2>1
  <2>3. map[tree[j]] <= map[tree[i]]
    BY <2>1, <2>2 DEF OrderedBy
  <2> QED  BY <2>1, <2>2, <2>3
<1>3. before \in SUBSET (1..L)
  OBVIOUS
<1>4. IsFiniteSet(before) /\ Cardinality(before) \in Nat /\ Cardinality(before) <= L
  <2> HIDE DEF before, L
  <2>1. IsFiniteSet(1..L) /\ Cardinality(1..L) = L
    BY <1>1, NumbersTo
  <2> QED  BY <1>3, <2>1, FS_Subset, FS_CardinalityType
<1>5. \A j \in 1..L : j \in before <=> j <= Cardinality(before)
  <2> HIDE DEF before, L
  <2> QED  BY <1>1, <1>2, <1>3, PrefixSet
<1>6. \A j \in 1..L : j < n <=> map[tree[j]] <= map[k]
  <2>1. \A j \in 1..L : j \in before <=> map[tree[j]] <= map[k]
    OBVIOUS
  <2>2. n = 1 + Cardinality(before)
    OBVIOUS
  <2> DEFINE c == Cardinality(before)
  <2>3. c \in Nat /\ n = 1 + c
    BY <1>4, <2>2
  <2> HIDE DEF before, L, c
  <2>4. \A j \in 1..L : j < n <=> j <= c
    BY <1>1, <2>3
  <2>5. \A j \in 1..L : j \in before <=> j <= c
    BY <1>5 DEF c
  <2> QED  BY <2>1, <2>4, <2>5
<1>7. n \in 1..L + 1
  <2> HIDE DEF before
  <2>1. n = 1 + Cardinality(before)
    BY DEF before
  <2> QED  BY <1>1, <1>4, <2>1
<1>8. t \in Seq(E) /\ Inserted(tree, n, k, t)
  BY <1>1, <1>7, InsertType
<1> HIDE DEF t, before, E
<1>9. /\ Len(t) = L + 1 /\ DOMAIN t = 1..L + 1
      /\ \A j \in 1..L + 1 : t[j] = IF j < n THEN tree[j] ELSE IF j = n THEN k ELSE tree[j - 1]
  BY <1>8 DEF Inserted
<1> HIDE DEF L
<1>10. \A j \in 1..L + 1 : \/ j < n /\ j \in 1..L /\ t[j] = tree[j]
                           \/ j = n /\ t[j] = k
                           \/ n < j /\ j - 1 \in 1..L /\ ~(j - 1 < n) /\ t[j] = tree[j - 1]
  <2> SUFFICES ASSUME NEW j \in 1..L + 1
               PROVE  \/ j < n /\ j \in 1..L /\ t[j] = tree[j]
                      \/ j = n /\ t[j] = k
                      \/ n < j /\ j - 1 \in 1..L /\ ~(j - 1 < n) /\ t[j] = tree[j - 1]
    OBVIOUS
  <2>1. CASE j < n
    BY <1>1, <1>7, <1>9, <2>1
  <2>2. CASE j = n
    BY <1>1, <1>7, <1>9, <2>2
  <2>3. CASE n < j
    <3>1. j - 1 \in 1..L /\ ~(j - 1 < n) /\ ~(j < n) /\ j # n
      BY <1>1, <1>7, <2>3
    <3> QED  BY <1>9, <2>3, <3>1
  <2> QED  BY <1>1, <1>7, <2>1, <2>2, <2>3
<1>11. \A i, j \in 1..L : tree[i] = tree[j] => i = j
  BY DEF PointsAt, L
<1>12. ASSUME NEW i \in 1..L + 1, NEW j \in 1..L + 1, i < j
       PROVE  t[i] # t[j] /\ map[t[i]] <= map[t[j]]
  <2>0. \A l \in 1..L : tree[l] # k /\ map[tree[l]] \in Int
    BY <1>1
  <2>1. CASE i < n /\ j < n
    <3>1. i \in 1..L /\ j \in 1..L /\ t[i] = tree[i] /\ t[j] = tree[j] /\ i # j
      BY <1>1, <1>7, <1>10, <1>12, <2>1
    <3> QED  BY <1>11, <1>12, <3>1 DEF OrderedBy, L
  <2>2. CASE i < n /\ j = n
    <3>1. i \in 1..L /\ t[i] = tree[i] /\ t[j] = k
      BY <1>1, <1>7, <1>10, <2>2
    <3> QED  BY <1>6, <2>0, <2>2, <3>1
  <2>3. CASE i < n /\ n < j
    <3>1. L \in Nat /\ n \in 1..L + 1
      BY <1>1, <1>7
    <3>2. i \in 1..L /\ j - 1 \in 1..L /\ i < j - 1 /\ i # j - 1 /\ ~(i = n) /\ ~(n < i)
          /\ ~(j = n) /\ ~(j < n)
      BY <2>3, <3>1
    <3>3. t[i] = tree[i] /\ t[j] = tree[j - 1]
      BY <1>10, <3>2
    <3> QED  BY <1>11, <3>2, <3>3 DEF OrderedBy, L
  <2>4. CASE i = n
    <3>1. n < j
      BY <1>12, <2>4
    <3>2. t[i] = k /\ j - 1 \in 1..L /\ ~(j - 1 < n) /\ t[j] = tree[j - 1]
      BY <1>1, <1>7, <1>10, <2>4, <3>1
    <3>3. ~(map[tree[j - 1]] <= map[k]) /\ map[tree[j - 1]] \in Int /\ map[k] \in Int
      BY <1>6, <2>0, <3>2
    <3> QED  BY <2>0, <3>2, <3>3
  <2>5. CASE n < i
    <3>1. n < j
      BY <1>1, <1>7, <1>12, <2>5
    <3>2. L \in Nat /\ n \in 1..L + 1
      BY <1>1, <1>7
    <3>3. i - 1 \in 1..L /\ j - 1 \in 1..L /\ i - 1 < j - 1 /\ i - 1 # j - 1 /\ ~(i = n)
          /\ ~(i < n) /\ ~(j = n) /\ ~(j < n)
      BY <1>12, <2>5, <3>1, <3>2
    <3>4. t[i] = tree[i - 1] /\ t[j] = tree[j - 1]
      BY <1>10, <3>3
    <3> QED  BY <1>11, <3>3, <3>4 DEF OrderedBy, L
  <2> QED  BY <1>1, <1>7, <1>12, <2>1, <2>2, <2>3, <2>4, <2>5
<1>13. ToSet(t) = E
  <2>1. ASSUME NEW d \in D PROVE d \in ToSet(t)
    <3>1. PICK j \in 1..L : tree[j] = d
      BY <1>1 DEF PointsAt, ToSet
    <3>2. CASE j < n
      <4>1. j \in 1..L + 1 /\ t[j] = d
        BY <1>1, <1>7, <1>9, <3>1, <3>2
      <4> QED  BY <1>9, <4>1 DEF ToSet
    <3>3. CASE ~(j < n)
      <4>1. j + 1 \in 1..L + 1 /\ ~(j + 1 < n) /\ j + 1 # n /\ (j + 1) - 1 = j
        BY <1>1, <1>7, <3>3
      <4>2. t[j + 1] = d
        BY <1>9, <3>1, <4>1
      <4> QED  BY <1>9, <4>1, <4>2 DEF ToSet
    <3> QED  BY <3>2, <3>3
  <2>2. k \in ToSet(t)
    <3>1. t[n] = k
      BY <1>7, <1>9
    <3> QED  BY <1>7, <1>9, <3>1 DEF ToSet
  <2>3. ToSet(t) \subseteq E
    BY <1>8 DEF ToSet
  <2> QED  BY <2>1, <2>2, <2>3 DEF E
<1>14. \A i, j \in 1..L + 1 : t[i] = t[j] => i = j
  <2> SUFFICES ASSUME NEW i \in 1..L + 1, NEW j \in 1..L + 1, t[i] = t[j], i # j PROVE FALSE
    OBVIOUS
  <2>1. i < j \/ j < i
    BY <1>1
  <2> QED  BY <1>12, <2>1
<1>15. PointsAt(t, E)
  BY <1>8, <1>9, <1>13, <1>14 DEF PointsAt
<1>16. OrderedBy(t, map)
  BY <1>9, <1>12 DEF OrderedBy
<1> QED  BY <1>15, <1>16 DEF t, E

(* A pointer is taken out.                                                 *)
LEMMA PointerRemoved ==
  ASSUME NEW D, NEW k, NEW map, NEW tree, PointsAt(tree, D), OrderedBy(tree, map),
         NEW n \in 1..Len(tree), tree[n] = k
  PROVE  /\ PointsAt(RemoveAt(tree, n), D \ {k})
         /\ OrderedBy(RemoveAt(tree, n), map)
<1> DEFINE L == Len(tree)
           t == RemoveAt(tree, n)
<1>1. tree \in Seq(D) /\ L \in Nat /\ n \in 1..L /\ DOMAIN tree = 1..L
      /\ \A i \in 1..L : tree[i] \in D
  BY DEF PointsAt
<1>2. t \in Seq(D) /\ Len(t) = L - 1
      /\ \A j \in 1..L - 1 : t[j] = IF j < n THEN tree[j] ELSE tree[j + 1]
  BY <1>1, RemoveType
<1> HIDE DEF t, L
<1>3. n \in 1..L /\ L - 1 \in Nat /\ DOMAIN t = 1..L - 1
  BY <1>1, <1>2 DEF L
<1>4. \A j \in 1..L - 1 : \/ j < n /\ j \in 1..L /\ t[j] = tree[j]
                          \/ ~(j < n) /\ j + 1 \in 1..L /\ n < j + 1 /\ t[j] = tree[j + 1]
  BY <1>1, <1>2, <1>3
<1>5. \A i, j \in 1..L : tree[i] = tree[j] => i = j
  BY DEF PointsAt, L
<1>6. ASSUME NEW i \in 1..L - 1, NEW j \in 1..L - 1, i < j
      PROVE  t[i] # t[j] /\ map[t[i]] <= map[t[j]]
  <2>1. PICK l \in 1..L : t[i] = tree[l] /\ (l = i \/ l = i + 1) /\ (l = i + 1 => ~(i < n))
    BY <1>3, <1>4
  <2>2. PICK m \in 1..L : t[j] = tree[m] /\ (m = j \/ m = j + 1) /\ (m = j => j < n)
    BY <1>3, <1>4
  <2>3. l < m /\ l # m
    BY <1>3, <1>6, <2>1, <2>2
  <2> QED  BY <1>5, <2>1, <2>2, <2>3 DEF OrderedBy, L
<1>7. ASSUME NEW j \in 1..L - 1 PROVE t[j] \in D \ {k}
  <2>1. CASE j < n
    <3>1. j \in 1..L /\ t[j] = tree[j] /\ j # n
      BY <1>3, <1>4, <2>1
    <3> QED  BY <1>1, <1>3, <1>5, <3>1 DEF L
  <2>2. CASE ~(j < n)
    <3>1. j + 1 \in 1..L /\ t[j] = tree[j + 1] /\ j + 1 # n
      BY <1>3, <1>4, <2>2
    <3> QED  BY <1>1, <1>3, <1>5, <3>1 DEF L
  <2> QED  BY <2>1, <2>2
<1>8. ASSUME NEW d \in D \ {k} PROVE d \in ToSet(t)
  <2>1. PICK j \in 1..L : tree[j] = d
    BY <1>1 DEF PointsAt, ToSet
  <2>2. j # n
    BY <2>1
  <2>3. CASE j < n
    <3>1. j \in 1..L - 1
      <4>1. L \in Nat /\ n \in 1..L /\ j \in 1..L
        BY <1>1, <1>3
      <4> QED  BY <2>3, <4>1
    <3>2. t[j] = d
      BY <1>2, <2>1, <2>3, <3>1
    <3> QED  BY <1>3, <3>1, <3>2 DEF ToSet
  <2>4. CASE n < j
    <3>1. j - 1 \in 1..L - 1 /\ ~(j - 1 < n) /\ (j - 1) + 1 = j
      <4>1. L \in Nat /\ n \in 1..L /\ j \in 1..L
        BY <1>1, <1>3
      <4> QED  BY <2>4, <4>1
    <3>2. t[j - 1] = d
      BY <1>2, <2>1, <3>1
    <3> QED  BY <1>3, <3>1, <3>2 DEF ToSet
  <2> QED  BY <1>3, <2>2, <2>3, <2>4
<1>9. ToSet(t) = D \ {k}
  BY <1>3, <1>7, <1>8 DEF ToSet
<1>10. t \in Seq(D \ {k})
  BY <1>2, <1>3, <1>7
<1>11. \A i, j \in 1..L - 1 : t[i] = t[j] => i = j
  <2> SUFFICES ASSUME NEW i \in 1..L - 1, NEW j \in 1..L - 1, t[i] = t[j], i # j PROVE FALSE
    OBVIOUS
  <2>1. i < j \/ j < i
    BY <1>3
  <2> QED  BY <1>6, <2>1
<1>12. PointsAt(t, D \ {k})
  BY <1>2, <1>9, <1>10, <1>11 DEF PointsAt
<1>13. OrderedBy(t, map)
  BY <1>2, <1>6 DEF OrderedBy
<1> QED  BY <1>12, <1>13 DEF t

(* The operators of the instance are those of this module.                 *)
LEMMA SlowestOperators ==
  /\ \A s, i, e : Slowest!InsertAt(s, i, e) = InsertAt(s, i, e)
  /\ \A s, i : Slowest!RemoveAt(s, i) = RemoveAt(s, i)
  /\ \A S : Slowest!Cardinality(S) = Cardinality(S)
  /\ \A s : Slowest!ToSet(s) = ToSet(s)
BY DEF Slowest!InsertAt, InsertAt, Slowest!RemoveAt, RemoveAt, Slowest!Cardinality, Cardinality,
       Slowest!ToSet, ToSet

(* The place of the first pointer that compares equal is within the tree.  *)
LEMMA FoundType ==
  ASSUME PointsAt(p_tree, DOMAIN p_progress), p_progress \in [DOMAIN p_progress -> Int],
         NEW k \in DOMAIN p_progress
  PROVE  Slowest!Found(k) \in 1..Len(p_tree)
<1> DEFINE L == Len(p_tree)
           smaller == {i \in 1..L : p_progress[p_tree[i]] < p_progress[k]}
<1>1. /\ L \in Nat /\ DOMAIN p_tree = 1..L
      /\ k \in ToSet(p_tree)
  BY DEF PointsAt
<1>2. PICK j \in 1..L : p_tree[j] = k
  BY <1>1 DEF ToSet
<1>3. p_progress[k] \in Int
  OBVIOUS
<1>4. j \notin smaller /\ smaller \in SUBSET (1..L)
  BY <1>2, <1>3
<1>5. Slowest!Found(k) = 1 + Cardinality(smaller)
  BY <1>1, SlowestOperators DEF Slowest!Found, p_progress, p_tree
<1> HIDE DEF smaller, L
<1>6. IsFiniteSet(1..L) /\ Cardinality(1..L) = L
  BY <1>1, NumbersTo
<1>7. /\ Cardinality(smaller) \in Nat /\ Cardinality(smaller) <= L
      /\ Cardinality(smaller) # L
  BY <1>2, <1>4, <1>6, FS_Subset, FS_CardinalityType
<1>8. 1 + Cardinality(smaller) \in 1..L
  BY <1>1, <1>7
<1> QED  BY <1>5, <1>8 DEF L

(* A destination registers.                                                *)
LEMMA SlowestRegisters ==
  ASSUME SlowestInv, NEW k, Slowest!RegisterDestination(k) PROVE SlowestInv'
<1> DEFINE D   == DOMAIN p_progress
           map == [d \in D \cup {k} |-> IF d = k THEN 0 ELSE p_progress[d]]
           n   == 1 + Cardinality({i \in 1..Len(p_tree) : map[p_tree[i]] <= map[k]})
<1>1. /\ ~p_mistaken /\ k \notin D /\ p_progress' = map /\ p_current' = FALSE
      /\ UNCHANGED <<p_last, p_mistaken, p_crashed>>
  BY DEF Slowest!RegisterDestination, Slowest!Runs, Slowest!Known, p_progress, p_mistaken, p_current,
         p_last, p_crashed
<1>2. /\ PointsAt(p_tree, D) /\ OrderedBy(p_tree, p_progress) /\ p_progress \in [D -> Int]
  BY <1>1 DEF SlowestInv
<1>3. DOMAIN p_tree = 1..Len(p_tree) /\ \A i \in 1..Len(p_tree) : p_tree[i] \in D
  BY <1>2 DEF PointsAt
<1>4. p_tree' = InsertAt(p_tree, n, k)
  BY <1>3, SlowestOperators
  DEF Slowest!RegisterDestination, Slowest!Insert, Slowest!Known, p_progress, p_tree
<1>5. map \in [D \cup {k} -> Int] /\ \A d \in D : map[d] = p_progress[d]
  BY <1>1, <1>2
<1> HIDE DEF map
<1>6. OrderedBy(p_tree, map)
  BY <1>2, <1>3, <1>5 DEF OrderedBy
<1>7. \A d \in D \cup {k} : map[d] \in Int
  BY <1>5
<1>8. PointsAt(InsertAt(p_tree, n, k), D \cup {k}) /\ OrderedBy(InsertAt(p_tree, n, k), map)
  <2> HIDE DEF D
  <2>1. k \notin D /\ PointsAt(p_tree, D)
    BY <1>1, <1>2
  <2> QED  BY <1>6, <1>7, <2>1, PointerAdded
<1>9. DOMAIN map = D \cup {k}
  BY <1>5
<1> HIDE DEF n, D
<1>10. PointsAt(p_tree', DOMAIN p_progress') /\ OrderedBy(p_tree', p_progress')
  BY <1>1, <1>4, <1>8, <1>9
<1>11. p_progress' \in [DOMAIN p_progress' -> Int] /\ p_current' = FALSE
  BY <1>1, <1>5, <1>9
<1>12. PointsAt(p_tree, DOMAIN p_progress)' /\ OrderedBy(p_tree, p_progress)'
  BY <1>10 DEF PointsAt, OrderedBy, ToSet
<1> QED  BY <1>1, <1>11, <1>12 DEF SlowestInv

(* A destination leaves.                                                   *)
LEMMA SlowestLeaves ==
  ASSUME SlowestInv, NEW k, Slowest!UnregisterDestination(k) PROVE SlowestInv'
<1> DEFINE D == DOMAIN p_progress
           n == Slowest!Found(k)
           map == [d \in D \ {k} |-> p_progress[d]]
<1>1. /\ ~p_mistaken /\ k \in D /\ p_progress' = map /\ p_current' = FALSE
      /\ p_mistaken' = (p_tree[n] # k) /\ p_crashed' = p_crashed
  BY DEF Slowest!UnregisterDestination, Slowest!Runs, Slowest!Known, p_progress, p_mistaken, p_current,
         p_tree, p_crashed
<1>2. p_tree' = RemoveAt(p_tree, n)
  BY SlowestOperators DEF Slowest!UnregisterDestination, p_tree
<1>3. /\ PointsAt(p_tree, D) /\ OrderedBy(p_tree, p_progress) /\ p_progress \in [D -> Int]
  BY <1>1 DEF SlowestInv
<1>4. n \in 1..Len(p_tree)
  BY <1>1, <1>3, FoundType
<1>5. map \in [D \ {k} -> Int] /\ \A d \in D \ {k} : map[d] = p_progress[d]
  BY <1>3
<1>6. DOMAIN map = D \ {k}
  OBVIOUS
<1> HIDE DEF n, D, map
<1>7. ASSUME p_tree[n] = k
      PROVE  PointsAt(p_tree', DOMAIN p_progress') /\ OrderedBy(p_tree', p_progress')
  <2>1. PointsAt(p_tree', D \ {k}) /\ OrderedBy(p_tree', p_progress)
    BY <1>2, <1>3, <1>4, <1>7, PointerRemoved
  <2>2. \A i \in 1..Len(p_tree') : p_tree'[i] \in D \ {k}
    BY <2>1 DEF PointsAt
  <2>3. OrderedBy(p_tree', map)
    BY <1>5, <2>1, <2>2 DEF OrderedBy
  <2> QED  BY <1>1, <1>6, <2>1, <2>3
<1>8. p_progress' \in [DOMAIN p_progress' -> Int]
  BY <1>1, <1>5, <1>6
<1>9. ~p_mistaken' => PointsAt(p_tree, DOMAIN p_progress)' /\ OrderedBy(p_tree, p_progress)'
  BY <1>1, <1>7 DEF PointsAt, OrderedBy, ToSet
<1>10. p_crashed' \in BOOLEAN /\ p_mistaken' \in BOOLEAN
  BY <1>1 DEF SlowestInv
<1> QED  BY <1>1, <1>8, <1>9, <1>10 DEF SlowestInv

(* A destination reports: it is taken out where it was and put where it is *)
(* now, and the first one is the slowest.                                  *)
LEMMA SlowestReports ==
  ASSUME SlowestInv, NEW k, NEW time \in Int, Slowest!ReportProgress(k, time) PROVE SlowestInv'
<1> DEFINE D    == DOMAIN p_progress
           map  == [p_progress EXCEPT ![k] = time]
           n    == Slowest!Found(k)
           rest == RemoveAt(p_tree, n)
           m    == 1 + Cardinality({i \in 1..Len(rest) : map[rest[i]] <= map[k]})
<1>1. /\ ~p_mistaken /\ k \in D /\ p_progress' = map /\ p_current' = TRUE
      /\ p_mistaken' = (p_tree[n] # k) /\ p_crashed' = p_crashed
  BY DEF Slowest!ReportProgress, Slowest!Runs, Slowest!Known, p_progress, p_mistaken, p_current,
         p_tree, p_crashed
<1>2. /\ PointsAt(p_tree, D) /\ OrderedBy(p_tree, p_progress) /\ p_progress \in [D -> Int]
  BY <1>1 DEF SlowestInv
<1>3. n \in 1..Len(p_tree)
  BY <1>1, <1>2, FoundType
<1>4. /\ map \in [D -> Int] /\ DOMAIN map = D /\ map[k] = time
      /\ \A d \in D \ {k} : map[d] = p_progress[d]
  BY <1>1, <1>2
<1>5. p_last' = map[Head(p_tree')]
  BY DEF Slowest!ReportProgress, p_progress, p_tree, p_last
<1>6. ASSUME p_tree[n] = k
      PROVE  PointsAt(p_tree', D) /\ OrderedBy(p_tree', map)
  <2> HIDE DEF n, map, rest, D
  <2>1. PointsAt(rest, D \ {k}) /\ OrderedBy(rest, p_progress)
    BY <1>2, <1>3, <1>6, PointerRemoved DEF rest
  <2>2. DOMAIN rest = 1..Len(rest) /\ \A i \in 1..Len(rest) : rest[i] \in D \ {k}
    BY <2>1 DEF PointsAt
  <2>3. OrderedBy(rest, map)
    BY <1>4, <2>1, <2>2 DEF OrderedBy
  <2>4. p_tree' = InsertAt(rest, m, k)
    BY <2>2, SlowestOperators
    DEF Slowest!ReportProgress, Slowest!Moved, Slowest!Insert, p_progress, p_tree, rest, map, n
  <2>5. k \notin D \ {k} /\ \A d \in (D \ {k}) \cup {k} : map[d] \in Int
    BY <1>1, <1>4
  <2>6. PointsAt(InsertAt(rest, m, k), (D \ {k}) \cup {k}) /\ OrderedBy(InsertAt(rest, m, k), map)
    BY <2>1, <2>3, <2>5, PointerAdded
  <2>7. (D \ {k}) \cup {k} = D
    BY <1>1 DEF D
  <2> QED  BY <2>4, <2>6, <2>7
<1> HIDE DEF n, map, D, rest
<1>7. ASSUME p_tree[n] = k
      PROVE  /\ \A d \in D : map[Head(p_tree')] <= map[d]
             /\ \E d \in D : map[Head(p_tree')] = map[d]
  <2> DEFINE t == p_tree'
  <2>1. t \in Seq(D) /\ ToSet(t) = D /\ OrderedBy(t, map)
    BY <1>6, <1>7 DEF PointsAt
  <2> HIDE DEF t
  <2>2. DOMAIN t = 1..Len(t) /\ Len(t) \in Nat
    BY <2>1
  <2>3. PICK j \in 1..Len(t) : t[j] = k
    BY <1>1, <2>1, <2>2 DEF ToSet, D
  <2>4. 1 \in 1..Len(t) /\ t # <<>>
    BY <2>2, <2>3
  <2>5. Head(t) = t[1] /\ t[1] \in D
    BY <2>1, <2>4
  <2>6. ASSUME NEW d \in D PROVE map[t[1]] <= map[d]
    <3>1. PICK i \in 1..Len(t) : t[i] = d
      BY <2>1, <2>2, <2>6 DEF ToSet
    <3>2. CASE i = 1
      <4>1. map[d] \in Int
        BY <1>4
      <4> QED  BY <3>1, <3>2, <4>1
    <3>3. CASE i # 1
      <4>1. 1 < i
        BY <2>2, <3>3
      <4> QED  BY <2>1, <2>4, <3>1, <4>1 DEF OrderedBy
    <3> QED  BY <3>2, <3>3
  <2> QED  BY <2>5, <2>6 DEF t
<1>8. p_progress' \in [DOMAIN p_progress' -> Int] /\ DOMAIN p_progress' = D
  BY <1>1, <1>4
<1>9. ~p_mistaken' =>
        /\ PointsAt(p_tree, DOMAIN p_progress)' /\ OrderedBy(p_tree, p_progress)'
        /\ \A d \in DOMAIN p_progress' : p_last' <= p_progress'[d]
        /\ \E d \in DOMAIN p_progress' : p_last' = p_progress'[d]
  <2> SUFFICES ASSUME p_tree[n] = k
               PROVE  /\ PointsAt(p_tree, DOMAIN p_progress)' /\ OrderedBy(p_tree, p_progress)'
                      /\ \A d \in DOMAIN p_progress' : p_last' <= p_progress'[d]
                      /\ \E d \in DOMAIN p_progress' : p_last' = p_progress'[d]
    BY <1>1
  <2>1. PointsAt(p_tree', DOMAIN p_progress') /\ OrderedBy(p_tree', p_progress')
    BY <1>1, <1>6, <1>8
  <2>2. PointsAt(p_tree, DOMAIN p_progress)' /\ OrderedBy(p_tree, p_progress)'
    BY <2>1 DEF PointsAt, OrderedBy, ToSet
  <2> QED  BY <1>1, <1>5, <1>7, <1>8, <2>2
<1>10. p_crashed' \in BOOLEAN /\ p_mistaken' \in BOOLEAN /\ p_current' \in BOOLEAN
  BY <1>1 DEF SlowestInv
<1> QED  BY <1>8, <1>9, <1>10 DEF SlowestInv

(* A destination that is not registered reports.                           *)
LEMMA SlowestStranger ==
  ASSUME SlowestInv, NEW k, Slowest!ReportOfStranger(k) PROVE SlowestInv'
<1>1. /\ ~p_mistaken /\ UNCHANGED <<p_progress, p_tree, p_mistaken>>
      /\ \/ p_crashed' = TRUE /\ UNCHANGED <<p_last, p_current>>
         \/ /\ p_tree # <<>> /\ p_last' = p_progress[Head(p_tree)] /\ p_current' = TRUE
            /\ p_crashed' = p_crashed
  BY DEF Slowest!ReportOfStranger, Slowest!Runs, p_progress, p_tree, p_last, p_current, p_mistaken,
         p_crashed
<1>2. /\ p_progress \in [DOMAIN p_progress -> Int] /\ p_current' \in BOOLEAN /\ p_crashed' \in BOOLEAN
      /\ PointsAt(p_tree, DOMAIN p_progress) /\ OrderedBy(p_tree, p_progress)
      /\ p_mistaken \in BOOLEAN
  BY <1>1 DEF SlowestInv
<1>3. p_current' => /\ \A d \in DOMAIN p_progress : p_last' <= p_progress[d]
                    /\ \E d \in DOMAIN p_progress : p_last' = p_progress[d]
  <2>1. CASE UNCHANGED <<p_last, p_current>>
    BY <1>1, <2>1 DEF SlowestInv
  <2>2. CASE p_tree # <<>> /\ p_last' = p_progress[Head(p_tree)]
    <3>1. /\ p_tree \in Seq(DOMAIN p_progress) /\ ToSet(p_tree) = DOMAIN p_progress
          /\ DOMAIN p_tree = 1..Len(p_tree) /\ Len(p_tree) \in Nat
      BY <1>2 DEF PointsAt
    <3>2. 1 \in 1..Len(p_tree) /\ Head(p_tree) = p_tree[1] /\ p_tree[1] \in DOMAIN p_progress
      BY <2>2, <3>1
    <3>3. ASSUME NEW d \in DOMAIN p_progress PROVE p_progress[p_tree[1]] <= p_progress[d]
      <4>1. PICK i \in 1..Len(p_tree) : p_tree[i] = d
        BY <3>1 DEF ToSet
      <4>2. CASE i = 1
        <5>1. p_progress[d] \in Int
          BY <1>2
        <5> QED  BY <4>1, <4>2, <5>1
      <4>3. CASE i # 1
        <5>1. 1 < i
          BY <3>1, <4>3
        <5> QED  BY <1>2, <3>2, <4>1, <5>1 DEF OrderedBy
      <4> QED  BY <4>2, <4>3
    <3> QED  BY <2>2, <3>2, <3>3
  <2> QED  BY <1>1, <2>1, <2>2
<1>4. PointsAt(p_tree, DOMAIN p_progress)' /\ OrderedBy(p_tree, p_progress)'
  BY <1>1, <1>2 DEF PointsAt, OrderedBy, ToSet
<1> QED  BY <1>1, <1>2, <1>3, <1>4 DEF SlowestInv

LEMMA SlowestNext == SlowestInv /\ Slowest!Next => SlowestInv'
<1> SUFFICES ASSUME SlowestInv, Slowest!Next PROVE SlowestInv'  OBVIOUS
<1>1. 0..LastTime \subseteq Int
  BY StreamsAssumption
<1> QED  BY <1>1, SlowestRegisters, SlowestLeaves, SlowestReports, SlowestStranger DEF Slowest!Next

LEMMA SlowestInit == Slowest!Init => SlowestInv
<1> SUFFICES ASSUME Slowest!Init PROVE SlowestInv  OBVIOUS
<1>1. p_progress = <<>> /\ p_tree = <<>> /\ p_mistaken = FALSE /\ p_crashed = FALSE /\ p_current = FALSE
  BY DEF Slowest!Init, p_progress, p_tree, p_mistaken, p_crashed, p_current
<1>2. DOMAIN <<>> = {} /\ <<>> \in [{} -> Int] /\ <<>> \in Seq({}) /\ Len(<<>>) = 0
  OBVIOUS
<1>3. PointsAt(<<>>, {}) /\ OrderedBy(<<>>, <<>>)
  <2>1. ToSet(<<>>) = {}
    BY DEF ToSet
  <2> QED  BY <1>2, <2>1 DEF PointsAt, OrderedBy
<1> QED  BY <1>1, <1>2, <1>3 DEF SlowestInv

LEMMA SlowestIsSound == SlowestInv => Slowest!SlowestFirst
<1> SUFFICES ASSUME SlowestInv, ~p_mistaken PROVE Slowest!SlowestFirst
  BY DEF Slowest!SlowestFirst, p_mistaken
<1>1. PointsAt(p_tree, DOMAIN p_progress) /\ OrderedBy(p_tree, p_progress)
  BY DEF SlowestInv
<1>2. DOMAIN p_tree = 1..Len(p_tree)
  BY <1>1 DEF PointsAt
<1>3. Slowest!ToSet(p_tree) = DOMAIN p_progress
  BY <1>1, SlowestOperators DEF PointsAt
<1>4. Slowest!IsInjective(p_tree)
  BY <1>1, <1>2 DEF PointsAt, Slowest!IsInjective
<1> QED  BY <1>1, <1>2, <1>3, <1>4
         DEF SlowestInv, OrderedBy, Slowest!SlowestFirst, Slowest!Known, p_progress, p_tree, p_last,
             p_current, p_mistaken

-----------------------------------------------------------------------------
(* The four side by side.                                                  *)
LEMMA LiveNext == LiveInv /\ Live!Next => LiveInv'
<1> SUFFICES ASSUME LiveInv, Live!Next PROVE LiveInv'  OBVIOUS
<1>1. CASE Live!Publish \/ Live!GetData
  BY <1>1, LivePublishes
<1>2. CASE Live!ParseLine \/ Live!OutputSegment \/ Live!ResetInput
  BY <1>2, LiveParses, LiveOutputs, LiveResets
<1>3. ASSUME NEW ok \in BOOLEAN, Live!Downloaded(ok) PROVE LiveInv'
  BY <1>3, LiveDownloads
<1>4. CASE \/ \E ok \in BOOLEAN : Live!SetURL(ok)
           \/ Live!ProcessInput \/ Live!Start \/ Live!StopUrl \/ Live!StopTS
  BY <1>4, LiveMoves
<1> QED  BY <1>1, <1>2, <1>3, <1>4 DEF Live!Next

StreamsInv ==
  /\ part = "audio" => AudioInv
  /\ part = "decoder" => DecoderInv
  /\ part = "live" => LiveInv
  /\ part = "slowest" => SlowestInv

LEMMA StreamsRest == StreamsInv /\ UNCHANGED <<part, slots>> => StreamsInv'
<1> SUFFICES ASSUME StreamsInv, UNCHANGED <<part, slots>> PROVE StreamsInv'  OBVIOUS
<1>1. /\ part' = part
      /\ UNCHANGED <<s1, s2, s3, s4, s5, s6, s7, s8, s9, s10, s11, s12, s13>>
  BY DEF slots
<1>2. part = "audio" => AudioInv'
  BY AudioNext DEF StreamsInv
<1>3. part = "decoder" => DecoderInv'
  BY <1>1 DEF StreamsInv, DecoderInv, d_swr, d_format, d_rate, d_pts, d_base, d_size, d_output,
              d_position, d_slack
<1>4. part = "live" => LiveInv'
  BY <1>1, LiveMoves DEF StreamsInv
<1>5. part = "slowest" => SlowestInv'
  BY <1>1 DEF StreamsInv, SlowestInv, PointsAt, OrderedBy, ToSet, p_progress, p_tree, p_last,
              p_current, p_mistaken, p_crashed
<1> QED  BY <1>1, <1>2, <1>3, <1>4, <1>5 DEF StreamsInv

LEMMA StreamsStep == StreamsInv /\ [MCNext]_mcVars => StreamsInv'
<1> SUFFICES ASSUME StreamsInv, [MCNext]_mcVars PROVE StreamsInv'  OBVIOUS
<1>1. CASE UNCHANGED mcVars
  BY <1>1, StreamsRest DEF mcVars
<1>2. CASE part' = part /\ UNCHANGED slots
  BY <1>2, StreamsRest
<1>3. CASE part' = part /\ part = "assembly"
  BY <1>3 DEF StreamsInv
<1>4. CASE part' = part /\ part = "audio" /\ Audio!Next
  BY <1>4, AudioNext DEF StreamsInv
<1>5. CASE part' = part /\ part = "decoder" /\ Decoder!Next
  BY <1>5, DecoderNext DEF StreamsInv
<1>6. CASE part' = part /\ part = "live" /\ Live!Next
  BY <1>6, LiveNext DEF StreamsInv
<1>7. CASE part' = part /\ part = "slowest" /\ Slowest!Next
  BY <1>7, SlowestNext DEF StreamsInv
<1> QED  BY <1>1, <1>2, <1>3, <1>4, <1>5, <1>6, <1>7 DEF MCNext

(* Every behaviour of the four is sound, however long the streams are and  *)
(* whatever the rates of their frames: AudioPlayDestination plays nothing  *)
(* twice or before what was sent earlier and its queues of buffers agree;  *)
(* FFMpegAudioDecoder's clock is no further from the stream than rounding  *)
(* takes it; HLSDownloadUrl and HLSDownloadTS pass the segments on in      *)
(* order, and all but those that failed, were dropped at a stop or were    *)
(* taken for another; and PlayerControl::ReportProgress waits for the      *)
(* slowest destination.                                                    *)
THEOREM Streams == MCSpec => []StreamsSound
<1>1. MCInit => StreamsInv
  BY AudioInit, DecoderInit, LiveInit, SlowestInit DEF MCInit, StreamsInv
<1>2. StreamsInv => StreamsSound
  BY AudioSound, DecoderIsSound, LiveSound, SlowestIsSound DEF StreamsInv, StreamsSound
<1> QED  BY <1>1, <1>2, StreamsStep, PTL DEF MCSpec
===============================================================================
