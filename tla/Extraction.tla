---------------------------- MODULE Extraction -----------------------------
(***************************************************************************)
(* Blueprints inside blueprints: extracting a selection into an embedded   *)
(* blueprint (editor/commands), baking a reference in                      *)
(* (blueprint_v2/bake) and what the loader (blueprint_v2/validation) and   *)
(* the flattener (blueprint_v2/flattener) demand of the result.            *)
(*                                                                         *)
(*   blueprint  [id, nodes, wires, iface], all but the id sequences; iface *)
(*              is one of ports                                            *)
(*   node       [id, kind, ports, exposed, inner]                          *)
(*       kind     "component", "bridge", "embedded" or "reference"         *)
(*       ports    of a component; of a bridge, ext and port                *)
(*       exposed  of a bridge, the name of the port it stands for          *)
(*       inner    <<blueprint>> of an embedded one, the id of a referenced *)
(*                one as <<id>>, else <<>>                                 *)
(*   wire       [id, source, target], endpoints [node, port]               *)
(*   port       [name, dir], dir "Input", "Output" or "InOut"              *)
(* An id or a name is a tuple: <<word>> as the user gave it, or a prefix   *)
(* and what the code appends, as <<"extract_inst_", 1>>, <<"bp_in_", name>> *)
(* or <<name, 2>> for name_2.  Left out: domains and signal types,         *)
(* positions, and the mode that allows references inside the selection     *)
(* (allow_nonembedded_descendant_refs is off).                             *)
(***************************************************************************)
EXTENDS Integers, Sequences, SequencesExt, FiniteSetsExt, Lists

CONSTANTS
    Documents,     \* the documents to begin with
    Library,       \* the blueprints that may be referenced, by id
    Names,         \* the names a user gives to what is extracted
    MaxExtracted,  \* bound on the extractions
    Depth          \* bound on the nesting that is looked at

VARIABLES
    doc,           \* model.current()
    extracted      \* how many extractions were made

extractionVars == <<doc, extracted>>

Blueprint(id, nodes, wires, iface) ==
    [id |-> id, nodes |-> nodes, wires |-> wires, iface |-> iface]

IdsOf(nodes) == {n.id : n \in ToSet(nodes)}
NodeOf(bp, id) == FirstOf(bp.nodes, {n \in ToSet(bp.nodes) : n.id = id})
IsInstance(node) == node.kind \in {"embedded", "reference"}
Instances(bp) == {n \in ToSet(bp.nodes) : IsInstance(n)}

\* inline_def, or the blueprint the library has under the id.
Known(node) == node.kind = "embedded" \/ node.inner[1] \in DOMAIN Library
InnerOf(node) == IF node.kind = "embedded" THEN node.inner[1] ELSE Library[node.inner[1]]

BlueprintId(node) == IF node.kind = "embedded" THEN node.inner[1].id ELSE node.inner[1]

\* resolve_node_iface
IfaceOf(node) == IF IsInstance(node) THEN InnerOf(node).iface ELSE node.ports
PortsNamed(ports, name) == {p \in ToSet(ports) : p.name = name}

Embedded(id, bp) ==
    [id |-> id, kind |-> "embedded", ports |-> <<>>, exposed |-> <<>>, inner |-> <<bp>>]

\* The blueprints that are embedded in the nodes of bp, and in theirs.
Embeds(bp) == {n.inner[1] : n \in {m \in ToSet(bp.nodes) : m.kind = "embedded"}}

LevelsOf(bp) ==
    LET level[k \in 0..Depth] ==
            IF k = 0 THEN {bp} ELSE UNION {Embeds(b) : b \in level[k - 1]}
    IN level

Within(bp) == UNION {LevelsOf(bp)[k] : k \in 0..Depth}

BridgePorts(dir) ==
    IF dir = "Input" THEN <<[name |-> <<"ext">>, dir |-> "Input"],
                            [name |-> <<"port">>, dir |-> "Output"]>>
    ELSE <<[name |-> <<"ext">>, dir |-> "Output"], [name |-> <<"port">>, dir |-> "Input"]>>

\* find_bridge_for_port looks for the first.
BridgesFor(bp, port) == {n \in ToSet(bp.nodes) : n.kind = "bridge" /\ n.exposed = port}

-----------------------------------------------------------------------------
(* What the loader demands of one blueprint, and the flattener.              *)

\* Of nodes or of wires.
UniqueIds(items) == \A i, j \in DOMAIN items : items[i].id = items[j].id => i = j

PortsAt(bp, end) == PortsNamed(IfaceOf(NodeOf(bp, end.node)), end.port)

\* PathResolver::resolve and can_connect: the end exists and goes that way.
ValidEnd(bp, end, dirs) ==
    /\ end.node \in IdsOf(bp.nodes)
    /\ PortsAt(bp, end) # {}
    /\ FirstOf(IfaceOf(NodeOf(bp, end.node)), PortsAt(bp, end)).dir \in dirs

\* WireValidator::validate
ValidWire(bp, w) ==
    /\ w.source # w.target
    /\ ValidEnd(bp, w.source, {"Output", "InOut"})
    /\ ValidEnd(bp, w.target, {"Input", "InOut"})

\* A bridge stands for one port of the interface, alone and in its direction.
ValidBridge(bp, node) ==
    LET exposed == PortsNamed(bp.iface, node.exposed)
    IN /\ exposed # {}
       /\ BridgesFor(bp, node.exposed) = {node}
       /\ BridgePorts(FirstOf(bp.iface, exposed).dir) = node.ports

\* All it demands but the rule on the ids of wires.
Consistent(bp) ==
    /\ UniqueIds(bp.nodes)
    /\ \A n \in ToSet(bp.nodes) : n.kind = "bridge" => ValidBridge(bp, n)
    /\ \A n \in Instances(bp) : Known(n)
    /\ \A w \in ToSet(bp.wires) : ValidWire(bp, w)

Validates(bp) == Consistent(bp) /\ UniqueIds(bp.wires)

\* Whether resolve_endpoint returns at all.
Resolvable(bp, end) ==
    /\ end.node \in IdsOf(bp.nodes)
    /\ LET node == NodeOf(bp, end.node)
       IN IsInstance(node) => Known(node) /\ BridgesFor(InnerOf(node), end.port) # {}

Flattens(bp) == \A w \in ToSet(bp.wires) : Resolvable(bp, w.source) /\ Resolvable(bp, w.target)

Loads(bp) == \A b \in Within(bp) : Validates(b) /\ Flattens(b)

-----------------------------------------------------------------------------
(* Extraction.                                                               *)

Suffixed(base, i) == <<base, i>>

\* dedupe_name: base, base_2, base_3, ... whichever is free.
Deduped(base, used) ==
    IF base \notin used THEN base
    ELSE Suffixed(base, Min({i \in 2..(Cardinality(used) + 2) : Suffixed(base, i) \notin used}))

\* Mutant: the names are not told apart.
NamedAsTheyAre(conns) ==
    [i \in DOMAIN conns |->
        [outer |-> conns[i].outer, inner |-> conns[i].inner, name |-> conns[i].inner.port]]

\* default_iface_name_for and dedupe_iface_names.  The code sorts by wire id
\* first, which is the order the wires were made in.
NamesFor(conns) ==
    LET names[i \in 0..Len(conns)] ==
            IF i = 0 THEN <<>>
            ELSE Append(names[i - 1], Deduped(conns[i].inner.port, ToSet(names[i - 1])))
    IN names[Len(conns)]

Named(conns) ==
    LET names == NamesFor(conns)
    IN [i \in DOMAIN conns |->
          [outer |-> conns[i].outer, inner |-> conns[i].inner, name |-> names[i]]]

\* next_unique_id
UniqueId(prefix, used) ==
    Suffixed(prefix, Min({i \in 1..(Cardinality(used) + 1) : Suffixed(prefix, i) \notin used}))

\* The wires across the boundary, from outside to inside or the other way.
Inputs(bp, selected) ==
    LET wires == Among(bp.wires, {w \in ToSet(bp.wires) : w.source.node \notin selected
                                                           /\ w.target.node \in selected})
    IN Named([i \in DOMAIN wires |-> [outer |-> wires[i].source, inner |-> wires[i].target]])

Outputs(bp, selected) ==
    LET wires == Among(bp.wires, {w \in ToSet(bp.wires) : w.source.node \in selected
                                                           /\ w.target.node \notin selected})
    IN Named([i \in DOMAIN wires |-> [outer |-> wires[i].target, inner |-> wires[i].source]])

NamesIn(conns) == {c.name : c \in ToSet(conns)}

HasReference(bp) == \E b \in Within(bp) : \E n \in ToSet(b.nodes) : n.kind = "reference"

\* validate_blueprint_name_for_extract and analyze_selection: the selection is
\* looked up in the root blueprint, whatever window it was made in.
SelectionAccepted(selected, name) ==
    /\ \A n \in Instances(doc) : BlueprintId(n) # name
    /\ Cardinality(selected) >= 2
    /\ selected \subseteq IdsOf(doc.nodes)
    /\ \A id \in selected :
         LET node == NodeOf(doc, id)
         IN /\ node.kind \notin {"bridge", "reference"}
            /\ node.kind = "embedded" => ~HasReference(node.inner[1])

\* Mutant: input and output names may be the same.
CanExtractWithCollision(selected, name) == SelectionAccepted(selected, name)

CanExtract(selected, name) ==
    /\ SelectionAccepted(selected, name)
    /\ NamesIn(Inputs(doc, selected)) \cap NamesIn(Outputs(doc, selected)) = {}

PortsFor(conns, dir) == [i \in DOMAIN conns |-> [name |-> conns[i].name, dir |-> dir]]

IfacePorts(ins, outs) == PortsFor(ins, "Input") \o PortsFor(outs, "Output")

\* The prefix makes the id, and nothing asks whether it is free.
Sides == {"bp_in_", "bp_out_"}
BridgeId(side, name) == <<side, name>>

BridgeNodes(conns, side, dir) ==
    [i \in DOMAIN conns |->
        [id |-> BridgeId(side, conns[i].name), kind |-> "bridge", ports |-> BridgePorts(dir),
         exposed |-> conns[i].name, inner |-> <<>>]]

NewWire(id, source, target) == [id |-> id, source |-> source, target |-> target]
End(node, port) == [node |-> node, port |-> port]

\* New wires number their ids among those this extraction has made, from one,
\* and nothing asks whether an id is free in the blueprint they go to.
WirePrefixes == {"bp_bridge_in_wire_", "bp_bridge_out_wire_", "extract_wire_"}
MadeUp(id) == id[1] \in WirePrefixes

InputBridgeWires(ins) ==
    [i \in DOMAIN ins |->
        NewWire(Suffixed("bp_bridge_in_wire_", i),
             End(BridgeId("bp_in_", ins[i].name), <<"port">>), ins[i].inner)]

OutputBridgeWires(outs) ==
    [i \in DOMAIN outs |->
        NewWire(Suffixed("bp_bridge_out_wire_", i),
             outs[i].inner, End(BridgeId("bp_out_", outs[i].name), <<"port">>))]

InlineBlueprint(bp, selected, name) ==
    LET ins == Inputs(bp, selected)
        outs == Outputs(bp, selected)
        chosen == {n \in ToSet(bp.nodes) : n.id \in selected}
        within == {w \in ToSet(bp.wires) : w.source.node \in selected /\ w.target.node \in selected}
    IN Blueprint(name,
          Among(bp.nodes, chosen) \o BridgeNodes(ins, "bp_in_", "Input")
                                  \o BridgeNodes(outs, "bp_out_", "Output"),
          Among(bp.wires, within) \o InputBridgeWires(ins) \o OutputBridgeWires(outs),
          IfacePorts(ins, outs))

\* Mutant: what was made is not noted as used.
ReconnectionWiresAnew(ins, outs, instance) ==
    [i \in DOMAIN ins |->
        NewWire(Suffixed("extract_wire_", i), ins[i].outer, End(instance, ins[i].name))]
    \o [i \in DOMAIN outs |->
        NewWire(Suffixed("extract_wire_", i), End(instance, outs[i].name), outs[i].outer)]

\* parent_reconnection_wires, numbered like the others.
ReconnectionWires(ins, outs, instance) ==
    [i \in DOMAIN ins |->
        NewWire(Suffixed("extract_wire_", i), ins[i].outer, End(instance, ins[i].name))]
    \o [i \in DOMAIN outs |->
        NewWire(Suffixed("extract_wire_", Len(ins) + i), End(instance, outs[i].name), outs[i].outer)]

\* build_parent_blueprint_from_plan
ParentBlueprint(bp, selected, name) ==
    LET instance == UniqueId("extract_inst_", IdsOf(bp.nodes))
        others == {n \in ToSet(bp.nodes) : n.id \notin selected}
        apart == {w \in ToSet(bp.wires) : w.source.node \notin selected
                                           /\ w.target.node \notin selected}
    IN Blueprint(bp.id,
          Append(Among(bp.nodes, others), Embedded(instance, InlineBlueprint(bp, selected, name))),
          Among(bp.wires, apart)
             \o ReconnectionWires(Inputs(bp, selected), Outputs(bp, selected), instance),
          bp.iface)

-----------------------------------------------------------------------------
ExtractionInit == doc \in Documents /\ extracted = 0

\* Document::extractToBlueprint
Extract(selected, name) ==
    /\ extracted < MaxExtracted
    /\ CanExtract(selected, name)
    /\ doc' = ParentBlueprint(doc, selected, name)
    /\ extracted' = extracted + 1

\* bake_node_blueprint_instance: the node goes to the end of the list.
Bake(id) ==
    LET node == NodeOf(doc, id)
        inner == InnerOf(node)
        copy == Blueprint(id, inner.nodes, inner.wires, inner.iface)
        others == {n \in ToSet(doc.nodes) : n.id # id}
    IN  /\ node.kind = "reference" /\ Known(node)
        /\ doc' = Blueprint(doc.id, Append(Among(doc.nodes, others), Embedded(id, copy)),
                            doc.wires, doc.iface)
        /\ UNCHANGED extracted

ExtractionNext ==
    \/ \E selected \in SUBSET IdsOf(doc.nodes), name \in Names : Extract(selected, name)
    \/ \E id \in IdsOf(doc.nodes) : Bake(id)

ExtractionSpec == ExtractionInit /\ [][ExtractionNext]_extractionVars

-----------------------------------------------------------------------------
Listed(bp) ==
    /\ bp.nodes \in Seq(ToSet(bp.nodes))
    /\ bp.wires \in Seq(ToSet(bp.wires))
    /\ bp.iface \in Seq(ToSet(bp.iface))

\* Only a bridge has the id of a bridge.
BridgeIdsKept(bp) == \A n \in ToSet(bp.nodes) : n.kind # "bridge" => n.id[1] \notin Sides

\* What is opened, and what the library holds, has passed the loader.
ASSUME ExtractionAssumption ==
    /\ Depth \in Nat /\ MaxExtracted \in Nat
    /\ \A bp \in Documents : Listed(bp) /\ BridgeIdsKept(bp) /\ Loads(bp)
    /\ \A id \in DOMAIN Library : Loads(Library[id])

\* Two wires share an id only if extractions made it up.
RepeatsMadeUp(bp) ==
    \A i, j \in DOMAIN bp.wires :
        bp.wires[i].id = bp.wires[j].id => i = j \/ MadeUp(bp.wires[i].id)

WiredByHand(bp) == \A w \in ToSet(bp.wires) : ~MadeUp(w.id)

\* What extraction leaves can be flattened, and at every depth satisfies the
\* rules of the loader but the one on wire ids: nodes are told apart, each bridge
\* is the only one of its port and agrees with it, each wire leads from something
\* that drives to something that is driven, through ports that were made up from
\* the names of others; and no id that a user gave comes to name two wires
\* (InvariantChecker::validate, resolve_endpoint).
BreaksOnlyWireIds == \A b \in Within(doc) : Consistent(b) /\ Flattens(b) /\ RepeatsMadeUp(b)

\* The first extraction from a blueprint that was wired by hand, whatever is
\* embedded in it, leaves what the loader accepts, ids of wires and all, and a
\* bake-in always does.
FirstExtractionLoads ==
    [][Loads(doc) /\ (WiredByHand(doc) \/ extracted' = extracted) => Loads(doc')]_extractionVars
=============================================================================
