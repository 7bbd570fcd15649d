----------------------------- MODULE Flattening -----------------------------
(***************************************************************************)
(* The flattener (blueprint_v2/flattener): which ports of the components   *)
(* of a document and of its instances share a signal.  A signal belongs to *)
(* the path of a port; the signal that a parent's wire gives to the        *)
(* outside of an instance is a vertex of its own, because the instance     *)
(* takes it over only for the ports of its interface.                      *)
(***************************************************************************)
EXTENDS Extraction

Vertex(path, port, seen_from) == [path |-> path, port |-> port, from |-> seen_from]

\* find_bridge_for_port: the first bridge that exposes it.
BridgeFor(bp, port) == FirstOf(bp.nodes, BridgesFor(bp, port))

ResolveEndpoint(bp, prefix, end) ==
    LET node == NodeOf(bp, end.node)
        path == Append(prefix, end.node)
    IN IF IsInstance(node)
       THEN Vertex(Append(path, BridgeFor(InnerOf(node), end.port).id), <<"ext">>, "outside")
       ELSE Vertex(path, end.port, "inside")

\* Boundary seeding: one pair for each port of the interface that has a bridge.
Seeds(inner, path) ==
    {LET at == Append(path, BridgeFor(inner, p.name).id)
     IN <<Vertex(at, <<"ext">>, "outside"), Vertex(at, <<"ext">>, "inside")>> :
        p \in {q \in ToSet(inner.iface) : BridgesFor(inner, q.name) # {}}}

\* The pairs of signals that are united, in bp and below.
RECURSIVE Unions(_, _)
Unions(bp, prefix) ==
    LET wires == {<<ResolveEndpoint(bp, prefix, w.source), ResolveEndpoint(bp, prefix, w.target)>> :
                    w \in ToSet(bp.wires)}
        bridges == {LET path == Append(prefix, n.id)
                    IN <<Vertex(path, <<"ext">>, "inside"), Vertex(path, <<"port">>, "inside")>> :
                       n \in {m \in ToSet(bp.nodes) : m.kind = "bridge"}}
        below(n) == LET path == Append(prefix, n.id)
                    IN Seeds(InnerOf(n), path) \cup Unions(InnerOf(n), path)
    IN wires \cup bridges \cup UNION {below(n) : n \in Instances(bp)}

\* The ports of the components: emit_component of all that is not a bridge.
RECURSIVE ComponentPorts(_, _)
ComponentPorts(bp, prefix) ==
    LET components == {n \in ToSet(bp.nodes) : n.kind = "component"}
    IN UNION {{Vertex(Append(prefix, n.id), p.name, "inside") : p \in ToSet(n.ports)} :
                 n \in components}
       \cup UNION {ComponentPorts(InnerOf(n), Append(prefix, n.id)) : n \in Instances(bp)}

\* FlatNetlist::signals, as the sets of component ports that share one.
Signals(bp) ==
    LET pairs == Unions(bp, <<>>)
        leaves == ComponentPorts(bp, <<>>)
        vertices == leaves \cup {e[1] : e \in pairs} \cup {e[2] : e \in pairs}
        unite(e, sets) ==
            LET a == CHOOSE s \in sets : e[1] \in s
                b == CHOOSE s \in sets : e[2] \in s
            IN (sets \ {a, b}) \cup {a \cup b}
        united == FoldSet(unite, {{v} : v \in vertices}, pairs)
    IN {s \cap leaves : s \in united} \ {{}}

\* A component's path without the instances that extractions put around it.
Home(path) == SelectSeq(path, LAMBDA id : id[1] # "extract_inst_")

Circuit(bp) == {{<<Home(v.path), v.port>> : v \in s} : s \in Signals(bp)}

\* Extracting a selection and baking a reference in move components between
\* blueprints and leave the circuit alone: after flattening, the same component
\* ports share a signal as before, through every bridge made on the way, however
\* often it is done (build_parent_blueprint_from_plan, bake_node_blueprint_instance,
\* Flattener::flatten).
CircuitStays == [][Circuit(doc') = Circuit(doc)]_doc
=============================================================================
