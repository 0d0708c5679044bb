--------------------------- MODULE PipelineAssembly ---------------------------
(***************************************************************************)
(* How a player's pipeline is put together and taken apart: the registry of *)
(* the builder, the procedures with their pins and what they acquire, the   *)
(* connections, and the maps of the pipeline that own them; with the        *)
(* failures that the code recovers from.                                    *)
(*                                                                         *)
(* The whole is one record, ppl.  Each function of the code is an operator  *)
(* from one value of it to the next, so that a function which calls others  *)
(* is their composition, and ppl.misused collects what no function may do:  *)
(* to use what is released, or to wait for a list nobody will put back.     *)
(* ppl.lost has the outputs of which an event was made and never destroyed. *)
(***************************************************************************)
EXTENDS Naturals, FiniteSetsExt, SequencesExt

CONSTANTS
  Desc,             \* procedures a player registers
  Stream,           \* the one it registers with each file
  Inputs, Outputs,  \* [Desc -> SUBSET Key]
  Destinations,     \* those that register with the player control
  Failure           \* what may fail

VARIABLES
  ppl,          \* the pipeline, its procedures and the builder's registry
  stage,        \* of the player, then of build_pipeline
  unlinked,     \* maps of build_pipeline: [in, out], keys to procedures
  current,      \* the procedure being connected
  left          \* the pins of current still to visit

vars == <<ppl, stage, unlinked, current, left>>

None == "NULL"
Key == UNION {Inputs[d] \cup Outputs[d] : d \in Desc}
ProcedurePin == {pin \in Desc \X {"in", "out"} \X Key :
          pin[3] \in IF pin[2] = "in" THEN Inputs[pin[1]] ELSE Outputs[pin[1]]}
PinsOf(d) == {pin \in ProcedurePin : pin[1] = d}
Never == << >>     \* of a Failure: no step fails
Unmade == [made |-> FALSE, connection |-> 0, list |-> FALSE]

\* What pipeline_procedure_initialize acquires, in this order, and the
\* destination's place in the player control.
Acquired == <<"input map", "output map", "task", "queue", "event group", "thread">>
Parts(d) == ToSet(Acquired) \cup {"pool", "task queue added"}
              \cup (IF d \in Destinations THEN {"destination"} ELSE {})

EmptyPipeline == [parts |-> [d \in Desc |-> {}], pins |-> [pin \in ProcedurePin |-> Unmade],
                  connections |-> << >>, desc_map |-> {}, src |-> {}, procedures |-> {},
                  running |-> {}, registry |-> {}, lost |-> {}, misused |-> {}]

Misused(p, what, if) == IF if THEN [p EXCEPT !.misused = @ \cup {what}] ELSE p

-----------------------------------------------------------------------------
\* pipeline_procedure_input_reset, pipeline_procedure_output_reset
ResetPin(p, pin) ==
  LET c == p.pins[pin].connection
  IN  IF c = 0 THEN p
      ELSE Misused(Misused(p, "waits for a list", ~p.pins[pin].list),
                   "connection freed", c > Len(p.connections))

\* pipeline_procedure_stop, of a task the thread has run to its end
Stopped(p, d) ==
  LET q == Misused(p, "procedure freed", p.parts[d] = {})
  IN  FoldSet(LAMBDA pin, r : ResetPin(r, pin), [q EXCEPT !.running = @ \ {d}], PinsOf(d))

\* pipeline_stop
AllStopped(p) == FoldSet(LAMBDA d, q : Stopped(q, d), p, p.procedures)

\* pipeline_procedure_output_destroy forgets the recycle_data_event of the output.
EventsForgotten(p, d) == {pin \in PinsOf(d) : pin[2] = "out" /\ p.pins[pin].made}

\* pipeline_procedure_clear_input, pipeline_procedure_clear_output
PinsCleared(p, d) == [p EXCEPT !.pins = [pin \in PinsOf(d) |-> Unmade] @@ @,
                               !.lost = @ \cup EventsForgotten(p, d)]

\* pipeline_procedure_destroy, after the destination's UnregisterDestination
ProcedureDestroyed(p, d) == [PinsCleared(Stopped(p, d), d) EXCEPT !.parts[d] = {}]

\* pipeline_procedure_initialize; when a step fails, what the steps before it
\* acquired is released in the branch of the failure.
InInitialize(f) == \E i \in DOMAIN Acquired : f = <<Acquired[i]>>

Initialized(p, d, f) ==
  IF InInitialize(f) THEN p
  ELSE [p EXCEPT !.parts[d] = Parts(d) \ {"destination"}]

\* pipeline_procedure_add_input and _add_output for every key of d, until f fails
WithPins(p, d, f) ==
  [p EXCEPT !.pins = [pin \in PinsOf(d) |-> [made |-> f # pin, connection |-> 0,
                                             list |-> f # pin]] @@ @]

InCreate(d, f) == f = <<"own">> \/ f \in PinsOf(d)

\* A create_function: NULL with nothing left behind when one of its steps fails.
Created(p, d, f) ==
  IF InInitialize(f) THEN Initialized(p, d, f)
  ELSE LET q == WithPins(Initialized(p, d, f), d, f)
       IN  IF InCreate(d, f) THEN ProcedureDestroyed(q, d)
           ELSE [q EXCEPT !.parts[d] = Parts(d)]

-----------------------------------------------------------------------------
\* pipeline_connection_initialize and pipeline_connection_connect, after
\* array_list_push: the buffers go to the list of the output.
Connected(p, o, i) ==
  LET n == Len(p.connections) + 1
  IN  [p EXCEPT !.connections = Append(@, [source |-> o, target |-> i]),
                !.pins[o].connection = n, !.pins[i].connection = n]

\* pipeline_procedure_input_disconnect, pipeline_procedure_output_disconnect
LeftConnected(p, pin) ==          \* mutant: connection is not set to NULL
  [Misused(p, "pin freed", ~p.pins[pin].made) EXCEPT !.pins[pin].list = FALSE]

PinDisconnected(p, pin) ==
  [Misused(p, "pin freed", ~p.pins[pin].made)
     EXCEPT !.pins[pin].list = FALSE, !.pins[pin].connection = 0]

\* pipeline_connection_disconnect
Disconnected(p, n) ==
  LET c == p.connections[n]
  IN  [PinDisconnected(PinDisconnected(p, c.source), c.target)
         EXCEPT !.connections[n] = [source |-> None, target |-> None]]

\* pipeline_connection_destroy frees the buffers
ConnectionDestroyed(p, n) ==
  LET c == p.connections[n]
  IN  Disconnected(Misused(p, "buffer of a running task",
                           {c.source[1], c.target[1]} \cap p.running # {}), n)

ConnectionsDestroyed(p) ==
  [FoldLeft(ConnectionDestroyed, p, [n \in 1 .. Len(p.connections) |-> n])
     EXCEPT !.connections = << >>]

\* destroy_function of a procedure's description
DestroyedBy(p, d) == ProcedureDestroyed(Misused(p, "description freed", d \notin p.registry), d)

AllDestroyed(p) ==
  LET q == FoldSet(LAMBDA d, r : DestroyedBy(r, d), p, p.desc_map)
  IN  [q EXCEPT !.desc_map = {}, !.src = {}, !.procedures = {}]

\* pipeline_clear
Cleared(p) == AllDestroyed(ConnectionsDestroyed(AllStopped(p)))

\* pipeline_builder_add_procedure, pipeline_builder_remove_procedure
Registered(p, ds) == [p EXCEPT !.registry = @ \cup ds]
Unregistered(p, ds) == [p EXCEPT !.registry = @ \ ds]

RegisterAll(p) == Registered(p, Desc \ {Stream})
UnregisterAll(p) == Unregistered(p, Desc \ {Stream})

\* VideoPlayerInternal::Reset
Reset(p) == Unregistered(Cleared(p), {Stream})

-----------------------------------------------------------------------------
NothingUnlinked == [in |-> [k \in Key |-> None], out |-> [k \in Key |-> None]]

Init == /\ ppl = EmptyPipeline
        /\ stage = "none"
        /\ unlinked = NothingUnlinked
        /\ current = None
        /\ left = {}

Building == <<unlinked, current, left>>

\* VideoPlayerInternal::Initialize: RegisterAll, rebuild_procedure_graph.  Without
\* one of them, UnregisterAll and Destroy leave no player.
Initialize ==
  /\ stage = "none"
  /\ stage' = "ready"
  /\ ppl' = RegisterAll(ppl)
  /\ UNCHANGED Building

InitializeFails ==
  /\ stage = "none" /\ Failure \cap {<<"register">>, <<"graph">>} # {}
  /\ \E some \in SUBSET (Desc \ {Stream}) :
       ppl' = Reset(UnregisterAll(Registered(ppl, some)))
  /\ UNCHANGED <<stage, Building>>

\* VideoPlayerInternal::PrepareToPlay, pipeline_add_src, SetURL; then
\* build_pipeline with the outputs of the source.
Prepare ==
  /\ stage = "ready"
  /\ ppl' = [Created(Registered(ppl, {Stream}), Stream, Never)
               EXCEPT !.desc_map = {Stream}, !.src = {Stream}]
  /\ unlinked' = [in |-> NothingUnlinked.in,
                  out |-> [k \in Key |-> IF k \in Outputs[Stream] THEN Stream ELSE None]]
  /\ stage' = "building"
  /\ UNCHANGED <<current, left>>

\* The source is not created, or has no place in a map of the pipeline.
PrepareFails(f) ==
  /\ stage = "ready"
  /\ \/ /\ InInitialize(f) \/ InCreate(Stream, f)
        /\ ppl' = Unregistered(Created(Registered(ppl, {Stream}), Stream, f), {Stream})
     \/ /\ f = <<"map">>
        /\ ppl' = Unregistered(
                    DestroyedBy(Created(Registered(ppl, {Stream}), Stream, Never), Stream),
                    {Stream})
  /\ UNCHANGED <<stage, Building>>

\* No stream under the URL, no solution for its outputs, or the build stopped at
\* a procedure that could not be created: the pipeline is cleared.
GiveUp == /\ stage = "building" /\ current = None
          /\ <<"build">> \in Failure
          /\ ppl' = Reset(ppl)
          /\ stage' = "ready"
          /\ unlinked' = NothingUnlinked
          /\ UNCHANGED <<current, left>>

Free(side) == {k \in Key : unlinked[side][k] # None}

\* The next procedure on the path to the source: it takes up an unlinked pin.
CreateNext(d) ==
  /\ stage = "building" /\ current = None
  /\ d \in ppl.registry \ ppl.desc_map
  /\ Inputs[d] \cap Free("out") # {} \/ Outputs[d] \cap Free("in") # {}
  /\ ppl' = [Created(ppl, d, Never) EXCEPT !.desc_map = @ \cup {d}]
  /\ current' = d
  /\ left' = PinsOf(d)
  /\ UNCHANGED <<stage, unlinked>>

\* create_function returns NULL, or the map has no room and the procedure is
\* destroyed at once; the build fails and the player clears the pipeline.
CreateFails(d, f) ==
  /\ stage = "building" /\ current = None
  /\ d \in ppl.registry \ ppl.desc_map
  /\ \/ /\ InInitialize(f) \/ InCreate(d, f)
        /\ ppl' = Reset(Created(ppl, d, f))
     \/ /\ f = <<"map">>
        /\ ppl' = Reset(DestroyedBy(Created(ppl, d, Never), d))
  /\ stage' = "ready"
  /\ unlinked' = NothingUnlinked
  /\ UNCHANGED <<current, left>>

\* The loops over the pins: inputs first.  A pin whose other end is unlinked is
\* connected to it, and is unlinked otherwise.
VisitPin(pin) ==
  /\ current # None /\ pin \in left
  /\ pin[2] = "out" => \A other \in left : other[2] = "out"
  /\ LET k == pin[3]
         side == IF pin[2] = "in" THEN "out" ELSE "in"
         other == <<unlinked[side][k], side, k>>
     IN  IF unlinked[side][k] # None
         THEN /\ ppl' = IF side = "out" THEN Connected(ppl, other, pin) ELSE Connected(ppl, pin, other)
              /\ unlinked' = [unlinked EXCEPT ![side][k] = None]
         ELSE /\ ppl' = ppl
              /\ unlinked' = [unlinked EXCEPT ![pin[2]][k] = current]
  /\ left' = left \ {pin}
  /\ current' = IF left' = {} THEN None ELSE current
  /\ UNCHANGED stage

\* serialize_pipeline
Serialize ==
  /\ stage = "building" /\ current = None
  /\ Free("in") = {} /\ Free("out") = {}
  /\ ppl' = [ppl EXCEPT !.procedures = ppl.desc_map]
  /\ stage' = "built"
  /\ UNCHANGED Building

\* VideoPlayerInternal::Start, pipeline_start; OnStatusChanged, pipeline_stop
Start == /\ stage = "built" /\ ppl.running = {}
         /\ ppl' = [ppl EXCEPT !.running = ppl.procedures]
         /\ UNCHANGED <<stage, Building>>

StatusStop == /\ stage = "built" /\ ppl.running # {}
              /\ ppl' = AllStopped(ppl)
              /\ UNCHANGED <<stage, Building>>

\* VideoPlayerInternal::Stop
Stop == /\ stage \in {"ready", "built"}
        /\ ppl' = Reset(AllStopped(ppl))
        /\ stage' = "ready"
        /\ UNCHANGED Building

\* VideoPlayerInternal::Destroy: Stop, pipeline_destroy, pipeline_builder_destroy
Destroy == /\ stage \in {"ready", "built"}
           /\ ppl' = Unregistered(Cleared(Reset(AllStopped(ppl))), Desc)
           /\ stage' = "none"
           /\ UNCHANGED Building

Next == \/ Initialize \/ InitializeFails \/ Prepare \/ GiveUp
        \/ \E f \in Failure : PrepareFails(f)
        \/ \E d \in Desc : CreateNext(d)
        \/ \E d \in Desc, f \in Failure : CreateFails(d, f)
        \/ \E pin \in ProcedurePin : VisitPin(pin)
        \/ Serialize \/ Start \/ StatusStop \/ Stop \/ Destroy

Spec == Init /\ [][Next]_vars

-----------------------------------------------------------------------------
\* Whatever fails and in whatever order the player is used: nothing released is
\* used again, and nobody waits for the list of a pin that was disconnected.
NothingMisused == ppl.misused = {}

\* Both ends of a connection know it, and nothing else does.
EndsAgree ==
  /\ \A n \in 1 .. Len(ppl.connections) :
       LET c == ppl.connections[n]
       IN  /\ ppl.pins[c.source].connection = n /\ ppl.pins[c.target].connection = n
           /\ c.source[3] = c.target[3]
  /\ \A pin \in ProcedurePin : LET n == ppl.pins[pin].connection
                      IN  n # 0 => /\ n <= Len(ppl.connections)
                                   /\ pin \in {ppl.connections[n].source, ppl.connections[n].target}

\* A procedure is whole while the pipeline owns it and nothing when it does not;
\* between two files, and after the player, nothing of the last one is left but the
\* events of the outputs it had.
WholeOrGone ==
  LET Nothing == [EmptyPipeline EXCEPT !.lost = ppl.lost]
  IN  /\ \A d \in Desc : ppl.parts[d] = IF d \in ppl.desc_map THEN Parts(d) ELSE {}
      /\ stage = "ready" => ppl = RegisterAll(Nothing)
      /\ stage = "none" => ppl = Nothing

AssemblySound == NothingMisused /\ EndsAgree /\ WholeOrGone
=============================================================================
