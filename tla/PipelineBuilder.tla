--------------------------- MODULE PipelineBuilder ---------------------------
(***************************************************************************)
(* pipeline_builder_build_pipeline: from the outputs of a source, find     *)
(* registered procedures that leave no pin unconnected, create and connect *)
(* them, and list them in the order in which they are started.             *)
(* pipeline_builder.c, pipeline_builder_structures.c and the graph library *)
(* it explores with.                                                       *)
(*                                                                         *)
(* A node of the search is a pair of sets, the inputs and outputs still    *)
(* unlinked; an edge adds one procedure.  The open nodes are in a tree     *)
(* ordered by cost plus one if an output is unlinked; a new node goes      *)
(* behind those it equals.  Procedures are tried in the order in which     *)
(* they were registered, the pins of a node in any order.                  *)
(***************************************************************************)
EXTENDS Naturals, SequencesExt

CONSTANTS Pin,
          Catalogue,       \* the procedures that may be registered
          MaxRegistered,   \* bound: how many of them are
          SourceOutputs    \* the sets of outputs that a source may have

ASSUME BuilderAssumption ==
  /\ Catalogue \subseteq [input : SUBSET Pin, output : SUBSET Pin]
  /\ \A d \in Catalogue : d.input \cap d.output = {}
  /\ MaxRegistered \in Nat
  /\ SourceOutputs \subseteq SUBSET Pin

VARIABLES
  registry,         \* builder->procedures, in the order they were added
  stage,            \* what the function is doing
  explored_nodes,   \* key -> node
  opening_nodes,    \* sequence of [key, cost], in the order of the tree
  step,             \* of graph_explorer_step: the node it explores, what is left
                    \* of its pins and of the procedures for one, connected_nodes
  todo,             \* procedures of the solution that are still to be created
  trace,            \* the node build_pipeline has traced back to
  created,          \* the pipeline's procedures; created[1] is the source
  unlinked_input,   \* [Pin -> index in created, 0 for none]  map of build_pipeline
  unlinked_output,  \* [Pin -> index in created, 0 for none]  map of build_pipeline
  connections,      \* p->connections
  procedures        \* the set of serialize_pipeline, in list order; after
                    \* position [1] come those it has not visited
search == <<explored_nodes, opening_nodes>>
maps   == <<unlinked_input, unlinked_output>>
built  == <<created, maps, connections>>
vars   == <<registry, stage, search, step, todo, trace, built, procedures>>

None == 0
Key(in, out) == [unlinked_input |-> in, unlinked_output |-> out]
Target    == Key({}, {})
Source    == created[1]

\* pipeline_builder_node_compare
EstimateGreedy(entry) ==     \* mutant: the cost left out
  IF entry.key.unlinked_output = {} THEN 0 ELSE 1

Estimate(entry) ==
  entry.cost + (IF entry.key.unlinked_output = {} THEN 0 ELSE 1)

\* graph_explorer_start_explore: the source is explored and open
FirstNode(out)  == [new_procedure |-> None, previous_node |-> Key({}, out), cost |-> 0]
FirstEntry(out) == [key |-> Key({}, out), cost |-> 0]

\* pipeline_builder_node_key_equal: by the pins, in whatever order they are
Explored(k) == k \in DOMAIN explored_nodes

\* serialize_pipeline begins with the source, position 1
SourceOnly == [visited |-> 0, order |-> <<1>>]

Init ==
  /\ registry \in UNION {[1..n -> Catalogue] : n \in 0..MaxRegistered}
  /\ IsInjective(registry)
  /\ \E out \in SourceOutputs :
       /\ created = <<[input |-> {}, output |-> out]>>
       /\ explored_nodes = [k \in {Key({}, out)} |-> FirstNode(out)]
       /\ opening_nodes = <<FirstEntry(out)>>
       /\ unlinked_output = [p \in Pin |-> IF p \in out THEN 1 ELSE None]
  /\ unlinked_input = [p \in Pin |-> None]
  /\ stage = "explore"
  /\ step = [key |-> Target, pins |-> {}, procedures |-> {}, connected |-> <<>>]
  /\ todo = <<>>
  /\ trace = Target
  /\ connections = {}
  /\ procedures = SourceOnly

-----------------------------------------------------------------------------
(***************************************************************************)
(* create_new_node_with_output and _with_input: a pin of the procedure     *)
(* that meets an unlinked one of the other kind links it.                  *)
(***************************************************************************)
NewNode(k, d) ==
  Key((k.unlinked_input \ d.output) \cup (d.input \ k.unlinked_output),
      (k.unlinked_output \ d.input) \cup (d.output \ k.unlinked_input))

(***************************************************************************)
(* graph_explorer_step takes the first open node, which leaves the tree    *)
(* (at the end of the step, but nothing looks at it until then) ...        *)
(***************************************************************************)
PinsToLink(k) == IF k.unlinked_input = {} THEN k.unlinked_output ELSE k.unlinked_input

ExplorerStep ==
  LET k == Head(opening_nodes).key IN
  /\ stage = "explore"
  /\ opening_nodes # <<>>
  /\ opening_nodes' = Tail(opening_nodes)
  /\ step' = [key |-> k, pins |-> PinsToLink(k), procedures |-> {}, connected |-> <<>>]
  /\ stage' = "connect"
  /\ UNCHANGED <<registry, explored_nodes, todo, trace, built, procedures>>

(***************************************************************************)
(* ... and asks get_connected_nodes for its successors: by consumers of    *)
(* its unlinked outputs, or by producers of its unlinked inputs if it has  *)
(* any.  At a pin without partners the function fails, and the nodes it    *)
(* has entered among the explored ones are not opened.                     *)
(***************************************************************************)
Partners(k, p) ==
  {i \in DOMAIN registry :
     p \in (IF k.unlinked_input = {} THEN registry[i].input ELSE registry[i].output)}

NextPin(p) ==
  /\ stage = "connect"
  /\ step.procedures = {}
  /\ p \in step.pins
  /\ Partners(step.key, p) # {}
  /\ step' = [step EXCEPT !.pins = @ \ {p}, !.procedures = Partners(step.key, p)]
  /\ UNCHANGED <<registry, stage, search, todo, trace, built, procedures>>

PinWithoutPartner(p) ==
  /\ stage = "connect"
  /\ step.procedures = {}
  /\ p \in step.pins
  /\ Partners(step.key, p) = {}
  /\ step' = [step EXCEPT !.pins = {}, !.connected = <<>>]
  /\ stage' = "open"
  /\ UNCHANGED <<registry, search, todo, trace, built, procedures>>

(* Of the procedures for a pin the one registered first is tried first.    *)
TryProcedure(i) ==
  LET new  == NewNode(step.key, registry[i])
      cost == explored_nodes[step.key].cost + 1
      node == [new_procedure |-> i, previous_node |-> step.key, cost |-> cost]
      seen == Explored(new) /\ explored_nodes[new].cost <= cost
  IN /\ stage = "connect"
     /\ i \in step.procedures
     /\ \A j \in step.procedures : i <= j
     /\ \/ /\ seen
           /\ step' = [step EXCEPT !.procedures = @ \ {i}]
           /\ UNCHANGED explored_nodes
        \/ /\ ~seen
           /\ explored_nodes' = [x \in DOMAIN explored_nodes \cup {new} |->
                                   IF x = new THEN node ELSE explored_nodes[x]]
           /\ step' = [step EXCEPT !.procedures = @ \ {i},
                                   !.connected = Append(@, [key |-> new, cost |-> cost])]
     /\ UNCHANGED <<registry, stage, opening_nodes, todo, trace, built, procedures>>

AllTried ==
  /\ stage = "connect"
  /\ step.pins = {}
  /\ step.procedures = {}
  /\ stage' = "open"
  /\ UNCHANGED <<registry, search, step, todo, trace, built, procedures>>

\* mutant: a new node goes before those it equals
PositionBefore(entry) ==
  1 + Cardinality({j \in DOMAIN opening_nodes :
                     Estimate(opening_nodes[j]) < Estimate(entry)})

\* red_black_tree_insert: behind all that are not greater
Position(entry) ==
  1 + Cardinality({j \in DOMAIN opening_nodes :
                     Estimate(opening_nodes[j]) <= Estimate(entry)})

OpenNode ==
  LET entry == Head(step.connected) IN
  /\ stage = "open"
  /\ step.connected # <<>>
  /\ opening_nodes' = InsertAt(opening_nodes, Position(entry), entry)
  /\ step' = [step EXCEPT !.connected = Tail(@)]
  /\ UNCHANGED <<registry, stage, explored_nodes, todo, trace, built, procedures>>

(* After the step the builder looks whether the target has been explored.  *)
StepEnds ==
  /\ stage = "open"
  /\ step.connected = <<>>
  /\ stage' = IF Explored(Target) THEN "trace" ELSE "explore"
  /\ UNCHANGED <<registry, search, step, todo, trace, built, procedures>>

ExplorerFails ==
  /\ stage = "explore"
  /\ opening_nodes = <<>>
  /\ stage' = "not_found"
  /\ UNCHANGED <<registry, search, step, todo, trace, built, procedures>>

-----------------------------------------------------------------------------
(* build_pipeline: back from the target to the source ...                  *)
TraceBack ==
  LET node == explored_nodes[trace] IN
  /\ stage = "trace"
  /\ IF node.new_procedure = None
     THEN stage' = "build" /\ UNCHANGED <<todo, trace>>
     ELSE /\ todo' = <<node.new_procedure>> \o todo
          /\ trace' = node.previous_node
          /\ UNCHANGED stage
  /\ UNCHANGED <<registry, search, step, built, procedures>>

\* mutant: an output stays in the map when it was linked
CreateKeepsOutput ==
  LET d  == registry[Head(todo)]
      i  == Len(created) + 1
      to == {p \in d.input : unlinked_output[p] # None}
      in == [p \in Pin |-> IF p \in d.input \ to THEN i ELSE unlinked_input[p]]
      from == {p \in d.output : in[p] # None}
  IN /\ stage = "build"
     /\ todo # <<>>
     /\ todo' = Tail(todo)
     /\ created' = Append(created, d)
     /\ connections' = connections
          \cup {[source |-> unlinked_output[p], target |-> i, pin |-> p] : p \in to}
          \cup {[source |-> i, target |-> in[p], pin |-> p] : p \in from}
     /\ unlinked_input' = [p \in Pin |-> IF p \in from THEN None ELSE in[p]]
     /\ unlinked_output' = [p \in Pin |-> IF p \in d.output \ from THEN i
                                          ELSE unlinked_output[p]]
     /\ UNCHANGED <<registry, stage, search, step, trace, procedures>>

(***************************************************************************)
(* ... and forward again: each procedure is created, its inputs and then   *)
(* its outputs are connected, or entered in the maps for a later one.  An  *)
(* entry replaces what the map has for that pin.                           *)
(***************************************************************************)
CreateProcedure ==
  LET d  == registry[Head(todo)]
      i  == Len(created) + 1
      to == {p \in d.input : unlinked_output[p] # None}
      in == [p \in Pin |-> IF p \in d.input \ to THEN i ELSE unlinked_input[p]]
      from == {p \in d.output : in[p] # None}
  IN /\ stage = "build"
     /\ todo # <<>>
     /\ todo' = Tail(todo)
     /\ created' = Append(created, d)
     /\ connections' = connections
          \cup {[source |-> unlinked_output[p], target |-> i, pin |-> p] : p \in to}
          \cup {[source |-> i, target |-> in[p], pin |-> p] : p \in from}
     /\ unlinked_input' = [p \in Pin |-> IF p \in from THEN None ELSE in[p]]
     /\ unlinked_output' = [p \in Pin |-> IF p \in to THEN None
                                          ELSE IF p \in d.output \ from THEN i
                                          ELSE unlinked_output[p]]
     /\ UNCHANGED <<registry, stage, search, step, trace, procedures>>

CreateFails ==               \* create_function returns NULL
  /\ stage = "build"
  /\ todo # <<>>
  /\ stage' = "failed"
  /\ UNCHANGED <<registry, search, step, todo, trace, built, procedures>>

AllCreated ==
  /\ stage = "build"
  /\ todo = <<>>
  /\ stage' = "serialize"
  /\ UNCHANGED <<registry, search, step, todo, trace, built, procedures>>

-----------------------------------------------------------------------------
(***************************************************************************)
(* serialize_pipeline visits the set of procedures while it grows: first   *)
(* the source, then what the outputs of those visited lead to.  An output  *)
(* without a connection is followed through a NULL pointer.                *)
(***************************************************************************)
Current  == procedures.order[procedures.visited + 1]
Outgoing == {c \in connections : c.source = Current}
Unlisted == {c.target : c \in Outgoing} \ ToSet(procedures.order)

SerializeFirstOutput ==      \* mutant: only one output is followed
  /\ stage = "serialize"
  /\ procedures.visited < Len(procedures.order)
  /\ {c.pin : c \in Outgoing} = created[Current].output
  /\ \E new \in SetToSeqs(Unlisted) :
       procedures' = [visited |-> procedures.visited + 1,
                      order |-> IF new = <<>> THEN procedures.order
                                ELSE Append(procedures.order, Head(new))]
  /\ UNCHANGED <<registry, stage, search, step, todo, trace, built>>

SerializeNext ==
  /\ stage = "serialize"
  /\ procedures.visited < Len(procedures.order)
  /\ {c.pin : c \in Outgoing} = created[Current].output
  /\ \E new \in SetToSeqs(Unlisted) :
       procedures' = [visited |-> procedures.visited + 1,
                      order |-> procedures.order \o new]
  /\ UNCHANGED <<registry, stage, search, step, todo, trace, built>>

SerializeCrashes ==
  /\ stage = "serialize"
  /\ procedures.visited < Len(procedures.order)
  /\ {c.pin : c \in Outgoing} # created[Current].output
  /\ stage' = "crashed"
  /\ UNCHANGED <<registry, search, step, todo, trace, built, procedures>>

SerializeEnds ==
  /\ stage = "serialize"
  /\ procedures.visited = Len(procedures.order)
  /\ stage' = "built"
  /\ UNCHANGED <<registry, search, step, todo, trace, built, procedures>>

Next == \/ ExplorerStep \/ AllTried \/ OpenNode
        \/ \E i \in DOMAIN registry : TryProcedure(i)
        \/ \E p \in Pin : NextPin(p) \/ PinWithoutPartner(p)
        \/ StepEnds \/ ExplorerFails
        \/ TraceBack \/ CreateProcedure \/ CreateFails \/ AllCreated
        \/ SerializeNext \/ SerializeCrashes \/ SerializeEnds

Spec == Init /\ [][Next]_vars

-----------------------------------------------------------------------------
(***************************************************************************)
(* The reference: a choice of registered procedures that links every pin,  *)
(* each produced once and consumed once, or not at all.                    *)
(***************************************************************************)
Links(chosen) ==
  \A p \in Pin :
    LET sources == {i \in chosen : p \in registry[i].output}
        targets == {i \in chosen : p \in registry[i].input}
    IN /\ Cardinality(targets) <= 1
       /\ Cardinality(sources) + (IF p \in Source.output THEN 1 ELSE 0)
            = Cardinality(targets)

Linkings == {chosen \in SUBSET DOMAIN registry : Links(chosen)}

(***************************************************************************)
(* The builder finds a pipeline if the pins can be linked at all, and one  *)
(* that is not longer than the shortest way to link them, although it      *)
(* stops at the first one it comes to.                                     *)
(***************************************************************************)
FindsLinking ==
  /\ stage = "not_found" => Linkings = {}
  /\ stage = "trace" => \A chosen \in Linkings :
       explored_nodes[Target].cost <= Cardinality(chosen)

(***************************************************************************)
(* A node that was explored is never replaced: the search reaches it in    *)
(* the cheapest way first, so the branch that frees the node it found      *)
(* before, to which the tree and other nodes point, is not taken.          *)
(***************************************************************************)
ExploredNodesStay ==
  [][\A k \in DOMAIN explored_nodes :
       k \in DOMAIN explored_nodes' /\ explored_nodes'[k] = explored_nodes[k]]_vars

(***************************************************************************)
(* The ASSERTs of build_pipeline: when all procedures of the solution have *)
(* been created, the linking done again with maps has come to the same     *)
(* end as the search did with sets, and both maps are empty.               *)
(***************************************************************************)
AllLinked ==
  stage \in {"serialize", "built"} =>
    \A p \in Pin : unlinked_input[p] = None /\ unlinked_output[p] = None

(***************************************************************************)
(* A pipeline built from procedures of which each pin has one producer and *)
(* one consumer at most, each fed by an input, and which carry data from   *)
(* lower pins to higher ones, is complete: every pin has one connection,   *)
(* and every procedure is listed once, so that starting the pipeline       *)
(* starts it.                                                              *)
(***************************************************************************)
OneToOne ==
  \A p \in Pin :
    /\ Cardinality({i \in DOMAIN registry : p \in registry[i].input}) <= 1
    /\ Cardinality({i \in DOMAIN registry : p \in registry[i].output})
         + (IF p \in Source.output THEN 1 ELSE 0) <= 1

Forward ==
  /\ \A i \in DOMAIN registry : registry[i].input # {}
  /\ \E rank \in [Pin -> 1..Cardinality(Pin)] :
       \A i \in DOMAIN registry :
         \A p \in registry[i].input, q \in registry[i].output : rank[p] < rank[q]

PipelineComplete ==
  stage \in {"built", "crashed"} /\ OneToOne /\ Forward =>
    /\ stage = "built"
    /\ \A i \in DOMAIN created :
         /\ \A p \in created[i].output :
              Cardinality({c \in connections : c.source = i /\ c.pin = p}) = 1
         /\ \A p \in created[i].input :
              Cardinality({c \in connections : c.target = i /\ c.pin = p}) = 1
    /\ IsInjective(procedures.order)
    /\ ToSet(procedures.order) = DOMAIN created
=============================================================================
