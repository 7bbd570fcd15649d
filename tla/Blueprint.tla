------------------------------ MODULE Blueprint ------------------------------
(***************************************************************************)
(* The immutable document of the editor: bp2::Blueprint.  Every operator   *)
(* returns a new blueprint and leaves its argument alone, as the with_ and *)
(* without_ members of the class do.                                       *)
(*                                                                         *)
(* Nodes and wires are sets of records, so two elements may carry one id   *)
(* (the class does not prevent it); insertion order, which only drawing    *)
(* and the bus-alias reorder gesture observe, is dropped.  A node is a     *)
(* component (def = NoSheet) or hosts an embedded blueprint, one level     *)
(* deep: def is then the sheet its window edits.                           *)
(***************************************************************************)
EXTENDS Integers

CONSTANTS
  NodeId,      \* ids a node may have
  Content,     \* what else a node carries: type, parameters, layout, view
  Port,        \* names of ports
  Route,       \* the routing points a wire may have
  NoRoute,     \* no routing points
  Name,        \* display names of a blueprint
  NoName,      \* the name of a default-constructed blueprint
  WireLimit,   \* bound: a wire drawn has a number 0 .. WireLimit - 1
  MadeLimit,   \* bound: a wire made by an extraction is -MadeLimit .. -1
  NoSheet,     \* not an embedded blueprint
  Sheets,      \* embedded blueprints that the library and edits bring in
  Files        \* whole documents that a file or a restructuring brings in

Endpoint == [node : NodeId, port : Port]

\* Wires are identified by strings: number n is "wire_n", the name that
\* allocate_wire_id gives, and -n is "extract_wire_n" or another name that is
\* not numbered this way.
WireId   == -MadeLimit .. WireLimit - 1
Wire     == [id : WireId, source : Endpoint, target : Endpoint, route : Route]
InnerNode == [id : NodeId, data : Content]

\* What one window edits: the nodes and wires of an embedded blueprint.
Sheet == [nodes : SUBSET InnerNode, wires : SUBSET Wire]

Node == [id : NodeId, data : Content, def : Sheet \cup {NoSheet}]

Document == [name : Name, nodes : SUBSET Node, wires : SUBSET Wire]

ASSUME BlueprintAssumption ==
  /\ WireLimit \in Nat /\ MadeLimit \in Nat /\ NoRoute \in Route
  /\ NoName \in Name /\ NoSheet \notin Sheet
  /\ Sheets \subseteq Sheet /\ Files \subseteq Document

\* Blueprint(): what a default-constructed element of a vector holds.
EmptyDocument == [name |-> NoName, nodes |-> {}, wires |-> {}]
EmptySheet    == [nodes |-> {}, wires |-> {}]

-----------------------------------------------------------------------------
(* Lookups: find_node and find_wire succeed or return nullptr.             *)

HasNode(bp, id) == \E n \in bp.nodes : n.id = id
HasWire(bp, id) == \E w \in bp.wires : w.id = id

\* mutate_embedded_blueprint resolves a path of one segment only when the
\* node exists and its source is embedded.
Hosts(bp, id) == \E n \in bp.nodes : n.id = id /\ n.def # NoSheet
DefOf(bp, id) == (CHOOSE n \in bp.nodes : n.id = id /\ n.def # NoSheet).def

(* Copies with one element more, fewer or different.                       *)

WithNode(bp, n)     == [bp EXCEPT !.nodes = @ \cup {n}]
WithoutNode(bp, id) == [bp EXCEPT !.nodes = {n \in @ : n.id # id}]
WithWire(bp, w)     == [bp EXCEPT !.wires = @ \cup {w}]
WithoutWire(bp, id) == [bp EXCEPT !.wires = {w \in @ : w.id # id}]

WithoutNodeAndWires(bp, id, wire_ids) ==
  [bp EXCEPT !.nodes = {n \in @ : n.id # id},
             !.wires = {w \in @ : w.id \notin wire_ids}]

ReplaceNode(bp, updated) ==
  [bp EXCEPT !.nodes = {n \in @ : n.id # updated.id} \cup {updated}]

\* Every wire of the id is overwritten, the second and later ones with what is
\* left of `updated` once it has been moved from.  (Two wires alike in
\* everything are one element of the set.)
ReplaceWire(bp, updated) ==
  LET same == {w \in bp.wires : w.id = updated.id}
      rest == IF \E v, w \in same : v # w THEN {[updated EXCEPT !.route = NoRoute]}
                                          ELSE {}
  IN  [bp EXCEPT !.wires = (@ \ same) \cup {updated} \cup rest]

WithName(bp, name) == [bp EXCEPT !.name = name]

\* A copy of the root in which the sheet embedded in node `id` is `sheet`.
WithDef(bp, id, sheet) ==
  ReplaceNode(bp, [(CHOOSE n \in bp.nodes : n.id = id /\ n.def # NoSheet)
                     EXCEPT !.def = sheet])

\* What InvariantChecker accepts: no id twice, every wire between nodes that
\* exist, and the same of the embedded blueprints.
ValidSheet(s) ==
  /\ \A m, n \in s.nodes : m.id = n.id => m = n
  /\ \A v, w \in s.wires : v.id = w.id => v = w
  /\ \A w \in s.wires : HasNode(s, w.source.node) /\ HasNode(s, w.target.node)

Valid(bp) == /\ ValidSheet(bp)
             /\ \A n \in bp.nodes : n.def # NoSheet => ValidSheet(n.def)

\* What may be loaded: load_blueprint_from_file_validated refuses the rest.
Loadable == {bp \in Files : Valid(bp)}

\* Wires that end at a node: what the delete gesture removes with it.
IncidentWires(bp, id) ==
  {w.id : w \in {v \in bp.wires : v.source.node = id \/ v.target.node = id}}

\* The wires of the root that have a number.
Drawn(bp) == {w \in bp.wires : w.id >= 0}

\* The first number after every numbered wire of the root (sync_next_wire_id).
NextFreeWireId(bp, k) ==
  /\ \A w \in bp.wires : w.id < k
  /\ k = 0 \/ \E w \in bp.wires : w.id = k - 1
=============================================================================
