---------------------------- MODULE CanvasInput -----------------------------
(***************************************************************************)
(* The canvas of the root window: gestures over an editor model and a      *)
(* scene of widgets.  A gesture begins with a press, shows a preview in    *)
(* the scene, and changes the document when the button is released.        *)
(*                                                                         *)
(* Handlers are only called while the canvas is hovered.  A release        *)
(* outside is never seen and the gesture stays in flight: presses, drags,  *)
(* releases and keys come in any order, between them undo, dialogs, the    *)
(* inspector and the simulation, so no action here is tied to another.     *)
(*                                                                         *)
(* A bus has one port; its widget shows an alias of it for every wire that *)
(* ended there when the scene was last rebuilt, named by the wire.         *)
(***************************************************************************)
EXTENDS Integers, Sequences, SequencesExt, FiniteSets, Functions

CONSTANTS
  Nodes,       \* the nodes there can be, in document order
  Ports,       \* of each node: port -> [direction, type]
  Bus,         \* the nodes drawn as a bus
  Resizable,   \* the nodes with resize handles
  Controls,    \* the nodes with a control in them: "click" or "drag"
  BusPort,     \* the name of a bus's port
  Files,       \* the documents to begin with
  Grid,        \* bound: largest coordinate
  MaxPoints,   \* bound: routing points of a wire
  WireLimit,   \* bound: wire numbers
  MaxEdits,    \* bound: edits with the mouse and the keys
  MaxHistory   \* max_history_

VARIABLES
  model,            \* the editor model: current, undo, redo
  next_wire_id,     \* allocate_wire_id
  scene,            \* widgets: nodes, wires, alias ports of buses
  gesture,          \* state_ and what it remembers
  selection,        \* selected_node_ids_; some may be gone
  read_only,        \* as in the code
  simulation_mode,  \* as in the code
  edits,            \* ghost: number of edits so far
  drifted,          \* ghost: widgets were left where a preview put them
  crossed           \* ghost: the Delete key was pressed with a wire in hand

vars == <<model, next_wire_id, scene, gesture, selection, read_only,
          simulation_mode, edits, drifted, crossed>>

NodeId == Range(Nodes)
\* One coordinate stands for the place and the size of a node.
Coord  == 0 .. Grid
WireId == 1 .. WireLimit

\* The elements of a sequence that are in a set, in their order.
Those(s, S) ==
  LET Taken[k \in 0 .. Len(s)] ==
        IF k = 0 THEN <<>>
        ELSE IF s[k] \in S THEN Append(Taken[k - 1], s[k])
        ELSE Taken[k - 1]
  IN  Taken[Len(s)]

-----------------------------------------------------------------------------
(* The document and its history (see EditorModel).                         *)

End(n, p) == [node |-> n, port |-> p]
Ends(w)   == {w.source, w.target}
Blank     == [nodes |-> <<>>, wires |-> <<>>]

FindWire(bp, id) == SelectInSeq(bp.wires, LAMBDA w : w.id = id)

\* A wire whose nodes exist, which is what gives it a widget.
Attached(bp, w) == \A e \in Ends(w) : e.node \in DOMAIN bp.nodes

Pushed(m) ==
  Append(IF Len(m.undo) < MaxHistory THEN m.undo ELSE Tail(m.undo), m.current)

\* A command of the model.
Command(m, bp) ==
  IF bp = m.current THEN m ELSE [current |-> bp, undo |-> Pushed(m), redo |-> <<>>]

\* mutate_atomically; when nothing changes the redo entries become empty.
Atomically(m, bp) ==
  IF bp # m.current THEN Command(m, bp)
  ELSE [current |-> m.current, undo |-> Front(Pushed(m)),
        redo |-> [k \in DOMAIN m.redo |-> Blank]]

-----------------------------------------------------------------------------
(* The scene.                                                              *)

WireWidget(w) == [source |-> w.source, target |-> w.target, points |-> w.points]

\* mutations::rebuild.
Rebuilt(bp) ==
  [nodes   |-> bp.nodes,
   wires   |-> [id \in {w.id : w \in {w \in Range(bp.wires) : Attached(bp, w)}} |->
                  WireWidget(bp.wires[FindWire(bp, id)])],
   aliases |-> [n \in Bus \cap DOMAIN bp.nodes |->
                  {w.id : w \in {w \in Range(bp.wires) : \E e \in Ends(w) : e.node = n}}]]

\* Scene::remove_wire, then create_wire_widget when the wire is still there.
WithWireDrawn(s, bp, id) ==
  [s EXCEPT !.wires =
     IF FindWire(bp, id) = 0 \/ ~Attached(bp, bp.wires[FindWire(bp, id)])
       THEN [j \in DOMAIN s.wires \ {id} |-> s.wires[j]]
       ELSE [j \in DOMAIN s.wires \cup {id} |->
               IF j = id THEN WireWidget(bp.wires[FindWire(bp, id)]) ELSE s.wires[j]]]

\* Scene::remove_node and remove_wire after a deletion.
WithoutWidgets(s, nodes, ids) ==
  [nodes   |-> [n \in DOMAIN s.nodes \ nodes |-> s.nodes[n]],
   wires   |-> [j \in DOMAIN s.wires \ ids |-> s.wires[j]],
   aliases |-> [n \in DOMAIN s.aliases \ nodes |-> s.aliases[n]]]

\* The ports that can be hit: [node, port, direction, type].
PortHits(n) ==
  {[node |-> n, port |-> p, direction |-> Ports[n][p].direction,
    type |-> Ports[n][p].type] : p \in DOMAIN Ports[n]}
AliasHits(n, ids) ==
  {[node |-> n, port |-> id, direction |-> "InOut", type |-> "V"] : id \in ids}

HitPorts ==
  (UNION {PortHits(n) : n \in DOMAIN scene.nodes})
  \cup (UNION {AliasHits(n, scene.aliases[n]) : n \in DOMAIN scene.aliases})

-----------------------------------------------------------------------------
(* What may be joined.                                                     *)

AreDirectionsCompatible(a, b) == "InOut" \in {a, b} \/ a # b
AreTypesCompatible(a, b) == {"Any", "Contextual"} \cap {a, b} # {} \/ a = b
CanDrive(d)   == d \in {"Output", "InOut"}
CanReceive(d) == d \in {"Input", "InOut"}

IsBus(n) == n \in Bus /\ n \in DOMAIN model.current.nodes

\* resolve_port_descriptor finds the end.
Resolves(e) == e.node \in DOMAIN model.current.nodes /\ e.port \in DOMAIN Ports[e.node]
Descriptor(e) == Ports[e.node][e.port]

(* Mutant: the direction of the ends is not looked at.                       *)
ValidateWireUndirected(source, target) ==
  /\ source # target /\ Resolves(source) /\ Resolves(target)
  /\ AreTypesCompatible(Descriptor(source).type, Descriptor(target).type)

\* validate_wire of the editing host.
ValidateWire(source, target) ==
  /\ source # target /\ Resolves(source) /\ Resolves(target)
  /\ AreTypesCompatible(Descriptor(source).type, Descriptor(target).type)
  /\ CanDrive(Descriptor(source).direction) /\ CanReceive(Descriptor(target).direction)

\* Every port of a bus stands for its one port.
Canonical(hit) == End(hit.node, IF IsBus(hit.node) THEN BusPort ELSE hit.port)

-----------------------------------------------------------------------------
(* Gestures.                                                               *)

Idle    == [state |-> "Idle"]
Panning == [state |-> "Panning"]
Marquee == [state |-> "MarqueeSelect"]
Control(n) == [state |-> "DraggingControl", node |-> n]

\* Selected nodes as a list; handlers pass over those that are gone, and any
\* order will do that they agree on.
Listed(sel) == Those(Nodes, sel)
Present(bp, sel) == Listed(sel \cap DOMAIN bp.nodes)
Place(list, n) == SelectInSeq(list, LAMBDA m : m = n)

\* The selection a press on node n begins its drag with.
DragSelection(n, ctrl) == (IF ctrl \/ n \in selection THEN selection ELSE {}) \cup {n}

\* enter_drag_node.
DragNode(sel) ==
  [state |-> "DraggingNode", current |-> <<>>,
   initial |-> [k \in DOMAIN Present(model.current, sel) |->
                  model.current.nodes[Present(model.current, sel)[k]]]]

DragPoint(id, k) ==
  [state |-> "DraggingRoutingPoint", wire |-> id, index |-> k,
   initial |-> model.current.wires[FindWire(model.current, id)].points,
   pos |-> scene.wires[id].points[k]]

\* The size and place the widget has, wherever it was left.
Resizes(n) ==
  {[state |-> "ResizingNode", node |-> n, original |-> x, current |-> x] :
     x \in IF drifted THEN Coord ELSE {scene.nodes[n]}}

CreateWire(hit) == [state |-> "CreatingWire", start |-> hit]

\* find_wire_on_port: the wire an alias is named after, if it ends here, or
\* the first wire at the port; 0 when there is none.
FindWireOnPort(hit) ==
  LET wires == model.current.wires
      named == FindWire(model.current, hit.port)
  IN  IF ~IsBus(hit.node)
        THEN SelectInSeq(wires, LAMBDA w : End(hit.node, hit.port) \in Ends(w))
      ELSE IF hit.port = BusPort THEN 0
      ELSE IF named # 0 /\ \E e \in Ends(wires[named]) : e.node = hit.node
        THEN named ELSE 0

\* enter_reconnect_wire; `wire` is a ghost, the wire under the press.
ReconnectWire(hit, k) ==
  LET w == model.current.wires[k]
      at_source == IF IsBus(hit.node) THEN w.source.node = hit.node
                   ELSE w.source = End(hit.node, hit.port)
  IN  [state |-> "ReconnectingWire", index |-> k, detach_start |-> at_source,
       wire |-> w.id]

-----------------------------------------------------------------------------
(* Pressing.                                                               *)

Editing == ~read_only /\ ~simulation_mode

Previewing == gesture.state \in {"DraggingNode", "ResizingNode"}

\* What a preview moved stays moved when its gesture or selection is replaced,
\* or escapes its cancellation; where it was left is not kept.
Drift(if) ==
  /\ drifted' = (drifted \/ if)
  /\ scene' = IF if THEN [scene EXCEPT !.nodes = model.current.nodes] ELSE scene

Press(g, sel) ==
  /\ gesture' = g /\ selection' = sel
  /\ Drift(Previewing /\ <<g, sel>> # <<gesture, selection>>)
  /\ UNCHANGED <<model, next_wire_id, read_only, simulation_mode, edits, crossed>>

PressReadOnly ==
  /\ read_only
  /\ \/ \E n \in DOMAIN scene.nodes, ctrl \in BOOLEAN :
          Press(gesture, (IF ctrl THEN selection ELSE {}) \cup {n})
     \/ Press(Panning, {})

\* A control in a node: a click is answered at once and begins nothing.
PressControl ==
  \E n \in DOMAIN Controls \cap DOMAIN scene.nodes :
    /\ ~read_only /\ n \in DOMAIN model.current.nodes
    /\ Press(IF Controls[n] = "click" THEN gesture ELSE Control(n), selection)

PressSimulating == ~read_only /\ simulation_mode /\ Press(Panning, {})

PressPort ==
  \E hit \in HitPorts :
    LET k == FindWireOnPort(hit)
    IN  Editing /\ Press(IF k # 0 THEN ReconnectWire(hit, k) ELSE CreateWire(hit), selection)

PressMarquee == Editing /\ Press(Marquee, selection)

PressHandle ==
  \E n \in Resizable \cap DOMAIN scene.nodes, ctrl \in BOOLEAN :
    /\ Editing
    /\ IF n \in selection THEN \E g \in Resizes(n) : Press(g, {n})
       ELSE Press(DragNode(DragSelection(n, ctrl)), DragSelection(n, ctrl))

PressNode ==
  \E n \in DOMAIN scene.nodes, ctrl \in BOOLEAN :
    Editing /\ Press(DragNode(DragSelection(n, ctrl)), DragSelection(n, ctrl))

PressPoint ==
  \E id \in DOMAIN scene.wires : \E k \in DOMAIN scene.wires[id].points :
    Editing /\ Press(DragPoint(id, k), selection)

\* The wire is selected; whatever gesture was in flight goes on.
PressWire == Editing /\ scene.wires # <<>> /\ Press(gesture, {})

PressEmpty == Editing /\ Press(Panning, {})

-----------------------------------------------------------------------------
(* Dragging: only previews.                                                *)

Preview(s, g) ==
  /\ scene' = s /\ gesture' = g
  /\ UNCHANGED <<model, next_wire_id, selection, read_only, simulation_mode, edits,
                 drifted, crossed>>

\* handle_drag_node: the k-th selected node that has a widget follows.
DragNodes ==
  \E d \in -Grid .. Grid :
    LET moved == Listed(selection \cap DOMAIN scene.nodes)
        New(k) == d + gesture.initial[k]
    IN  /\ gesture.state = "DraggingNode" /\ Len(moved) <= Len(gesture.initial)
        /\ \A k \in DOMAIN moved : New(k) \in Coord
        /\ Preview([scene EXCEPT !.nodes =
                      [n \in DOMAIN @ |->
                         IF n \in Range(moved)
                           THEN New(Place(moved, n)) ELSE @[n]]],
                   [gesture EXCEPT !.current = [k \in DOMAIN moved |-> New(k)]])

DragResize ==
  \E x \in Coord :
    /\ gesture.state = "ResizingNode" /\ gesture.node \in DOMAIN scene.nodes
    /\ Preview([scene EXCEPT !.nodes[gesture.node] = x],
               [gesture EXCEPT !.current = x])

\* The widget of a routing point stays where it was.
DragRoutingPoint ==
  \E p \in Coord :
    gesture.state = "DraggingRoutingPoint" /\ Preview(scene, [gesture EXCEPT !.pos = p])

-----------------------------------------------------------------------------
(* Releasing.                                                              *)

Edit(m, s, g, sel) ==
  /\ model' = m /\ scene' = s /\ gesture' = g /\ selection' = sel
  /\ edits < MaxEdits \/ m.current = model.current
  /\ edits' = IF m.current = model.current THEN edits ELSE edits + 1
  /\ UNCHANGED <<read_only, simulation_mode>>

(* Mutant: positions are handed out without passing over missing nodes.      *)
CommittedDragByPlace(bp) ==
  [bp EXCEPT !.nodes =
     [n \in DOMAIN @ |->
        LET k == Place(Listed(selection), n)
        IN  IF k \in DOMAIN gesture.current
              THEN gesture.current[k] ELSE @[n]]]

\* commit_drag_node: the k-th selected node that the document still has gets
\* the k-th position.
CommittedDrag(bp) ==
  LET moved == Present(bp, selection)
  IN  [bp EXCEPT !.nodes =
         [n \in DOMAIN @ |->
            LET k == Place(moved, n)
            IN  IF k \in DOMAIN gesture.current
                  THEN gesture.current[k] ELSE @[n]]]

ReleaseDrag ==
  LET bp    == model.current
      moved == Present(bp, selection)
      any   == \E k \in DOMAIN moved \cap DOMAIN gesture.current \cap DOMAIN gesture.initial :
                  gesture.current[k] # gesture.initial[k]
  IN  /\ gesture.state = "DraggingNode"
      /\ Edit(IF any THEN Atomically(model, CommittedDrag(bp)) ELSE model,
              scene, Idle, selection)
      /\ UNCHANGED <<next_wire_id, drifted, crossed>>

\* commit_drag_routing_point: the document changes, the widget does not.
ReleasePoint ==
  LET k == FindWire(model.current, gesture.wire)
      points == [j \in DOMAIN gesture.initial |->
                   IF j = gesture.index THEN gesture.pos ELSE gesture.initial[j]]
  IN  /\ gesture.state = "DraggingRoutingPoint"
      /\ Edit(IF k = 0 \/ points = gesture.initial THEN model
              ELSE Command(model, [model.current EXCEPT !.wires[k].points = points]),
              scene, Idle, selection)
      /\ drifted' = (drifted \/ model' # model)
      /\ UNCHANGED <<next_wire_id, crossed>>

ReleaseResize ==
  /\ gesture.state = "ResizingNode"
  /\ Edit(IF gesture.current = gesture.original
               \/ gesture.node \notin DOMAIN model.current.nodes THEN model
          ELSE Command(model, [model.current EXCEPT !.nodes[gesture.node] = gesture.current]),
          scene, Idle, selection)
  /\ UNCHANGED <<next_wire_id, drifted, crossed>>

\* finish_marquee: the nodes whose centre is inside.
ReleaseMarquee ==
  \E inside \in SUBSET DOMAIN model.current.nodes :
    /\ gesture.state = "MarqueeSelect"
    /\ Press(Idle, selection \cup inside)

\* Panning, a control, or a wire begun and dropped beside every port.
ReleaseNothing ==
  /\ gesture.state \in {"Panning", "DraggingControl", "CreatingWire"}
  /\ Press(Idle, selection)

\* finish_wire_creation.
ReleaseNewWire ==
  \E hit \in HitPorts :
    LET start   == gesture.start
        forward == CanDrive(start.direction) /\ CanReceive(hit.direction)
        reverse == CanDrive(hit.direction) /\ CanReceive(start.direction)
        source  == Canonical(IF forward THEN start ELSE hit)
        target  == Canonical(IF forward THEN hit ELSE start)
        wire    == [id |-> next_wire_id, source |-> source, target |-> target, points |-> <<>>]
        m       == Command(model, [model.current EXCEPT !.wires = Append(@, wire)])
        joined  == /\ End(start.node, start.port) # End(hit.node, hit.port)
                   /\ AreDirectionsCompatible(start.direction, hit.direction)
                   /\ AreTypesCompatible(start.type, hit.type)
                   /\ forward \/ reverse
    IN  /\ gesture.state = "CreatingWire"
        /\ joined => next_wire_id \in WireId
        /\ IF joined /\ source # target
             THEN Edit(m, WithWireDrawn(scene, m.current, next_wire_id), Idle, selection)
             ELSE Edit(model, scene, Idle, selection)
        /\ next_wire_id' = next_wire_id + (IF joined THEN 1 ELSE 0)
        /\ UNCHANGED <<drifted, crossed>>

RemoveWireAt(bp, k) == [bp EXCEPT !.wires = RemoveAt(@, k)]

(* Mutant: the wire takes the other's place and is not put in its own.       *)
ReorderedByCopy(wires, i, j) == [wires EXCEPT ![j] = wires[i]]

Reordered(wires, i, j) == [wires EXCEPT ![i] = wires[j], ![j] = wires[i]]

\* The wire picked is removed: it was dropped on nothing, or on an alias whose
\* wire is gone.
DropWire ==
  LET m == Command(model, RemoveWireAt(model.current, gesture.index))
  IN  Edit(m, WithWireDrawn(scene, m.current, model.current.wires[gesture.index].id),
           Idle, selection)

\* On an alias: the two wires change places in the document.
ReconnectToAlias(hit) ==
  LET other == FindWire(model.current, hit.port)
      m == Atomically(model, [model.current EXCEPT !.wires =
                                Reordered(@, gesture.index, other)])
  IN  IF other = 0 THEN DropWire /\ UNCHANGED drifted
      ELSE IF other = gesture.index
        THEN Edit(model, scene, Idle, selection) /\ UNCHANGED drifted
        ELSE Edit(m, Rebuilt(m.current), Idle, selection) /\ drifted' = FALSE

ReconnectToPort(hit) ==
  LET w == model.current.wires[gesture.index]
      new == IF gesture.detach_start THEN [w EXCEPT !.source = Canonical(hit)]
                                     ELSE [w EXCEPT !.target = Canonical(hit)]
      m == Command(model, [model.current EXCEPT !.wires[gesture.index] = new])
  IN  IF ~ValidateWire(new.source, new.target) THEN Edit(model, scene, Idle, selection)
      ELSE Edit(m, WithWireDrawn(scene, m.current, w.id), Idle, selection)

\* finish_wire_reconnection; `hit` is NoHit beside every port.
NoHit == [node |-> "none"]

ReleaseReconnect(hit) ==
  LET w == model.current.wires[gesture.index]
      fixed    == IF gesture.detach_start THEN w.target ELSE w.source
      detached == IF gesture.detach_start THEN w.source ELSE w.target
      at       == End(hit.node, hit.port)
      port     == IF Resolves(fixed) THEN Descriptor(fixed)
                  ELSE [direction |-> IF gesture.detach_start THEN "Input" ELSE "Output",
                        type |-> "Any"]
  IN  /\ gesture.state = "ReconnectingWire"
      /\ UNCHANGED <<next_wire_id, crossed>>
      /\ IF gesture.index > Len(model.current.wires)
           THEN Edit(model, scene, Idle, selection) /\ UNCHANGED drifted
         ELSE IF hit = NoHit THEN DropWire /\ UNCHANGED drifted
         ELSE IF \/ at \in {detached, fixed}
                 \/ ~AreDirectionsCompatible(hit.direction, port.direction)
                 \/ ~AreTypesCompatible(hit.type, port.type)
           THEN Edit(model, scene, Idle, selection) /\ UNCHANGED drifted
         ELSE IF IsBus(hit.node) /\ hit.port # BusPort THEN ReconnectToAlias(hit)
         ELSE ReconnectToPort(hit) /\ UNCHANGED drifted

ReleaseReconnected == \E hit \in HitPorts \cup {NoHit} : ReleaseReconnect(hit)

-----------------------------------------------------------------------------
(* Double clicks and keys.                                                 *)

\* A routing point is removed, or inserted into the segment that was hit.  The
\* segment is the widget's: where a drag in flight that is let go later takes the
\* document's points back to fewer, the insertion may lie past their end, which
\* is undefined and left out.
DoubleClickPoint ==
  \E id \in DOMAIN scene.wires : \E k \in DOMAIN scene.wires[id].points :
    LET i == FindWire(model.current, id)
        m == Command(model, [model.current EXCEPT !.wires[i].points = RemoveAt(@, k)])
    IN  /\ Editing /\ i # 0 /\ k \in DOMAIN model.current.wires[i].points
        /\ Edit(m, WithWireDrawn(scene, m.current, id), gesture, selection)
        /\ UNCHANGED <<next_wire_id, drifted, crossed>>

DoubleClickWire ==
  \E id \in DOMAIN scene.wires : \E k \in 1 .. Len(scene.wires[id].points) + 1, p \in Coord :
    LET i == FindWire(model.current, id)
        m == Command(model, [model.current EXCEPT !.wires[i].points = InsertAt(@, k, p)])
    IN  /\ Editing /\ i # 0 /\ k <= Len(model.current.wires[i].points) + 1
        /\ Len(model.current.wires[i].points) < MaxPoints
        /\ Edit(m, WithWireDrawn(scene, m.current, id), gesture, selection)
        /\ UNCHANGED <<next_wire_id, drifted, crossed>>

\* In a running simulation Escape leaves the gesture alone.
Escape ==
  LET rebuild == Editing /\ (Previewing \/ gesture.state = "DraggingRoutingPoint")
  IN  /\ gesture' = IF Editing /\ gesture.state # "Panning" THEN Idle ELSE gesture
      /\ scene' = IF rebuild THEN Rebuilt(model.current) ELSE scene
      /\ drifted' = (drifted /\ ~rebuild)
      /\ selection' = {}
      /\ UNCHANGED <<model, next_wire_id, read_only, simulation_mode, edits, crossed>>

Touching(bp, nodes) == {w \in Range(bp.wires) : \E e \in Ends(w) : e.node \in nodes}

\* remove_node for every node of a set: one the document no longer has is passed
\* over, with its wires.
WithoutNodes(bp, nodes) ==
  [nodes |-> [n \in DOMAIN bp.nodes \ nodes |-> bp.nodes[n]],
   wires |-> Those(bp.wires, Range(bp.wires) \ Touching(bp, nodes \cap DOMAIN bp.nodes))]

\* The gesture in flight is not cancelled.
Delete ==
  LET wires == Touching(model.current, selection)
  IN  /\ Editing /\ selection # {}
      /\ Edit(Atomically(model, WithoutNodes(model.current, selection)),
              WithoutWidgets(scene, selection, {w.id : w \in wires}), gesture, {})
      /\ crossed' = (crossed \/ gesture.state \in {"CreatingWire", "ReconnectingWire"})
      /\ UNCHANGED <<next_wire_id, drifted>>

-----------------------------------------------------------------------------
(* From elsewhere.                                                         *)

\* cancel_gesture of every window, then every scene is rebuilt.
CancelAndRebuild(m) ==
  /\ model' = m /\ scene' = Rebuilt(m.current) /\ gesture' = Idle /\ drifted' = FALSE
  /\ UNCHANGED <<next_wire_id, selection, read_only, simulation_mode, crossed>>

PerformUndo ==
  /\ model.undo # <<>> /\ UNCHANGED edits
  /\ CancelAndRebuild([current |-> Last(model.undo), undo |-> Front(model.undo),
                       redo |-> Append(model.redo, model.current)])

PerformRedo ==
  /\ model.redo # <<>> /\ UNCHANGED edits
  /\ CancelAndRebuild([current |-> Last(model.redo), redo |-> Front(model.redo),
                       undo |-> Append(model.undo, model.current)])

\* A menu, which ends in rebuildAllWindows.
AddComponent ==
  \E n \in NodeId \ DOMAIN model.current.nodes :
    /\ UNCHANGED edits
    /\ CancelAndRebuild(Command(model,
         [model.current EXCEPT !.nodes =
            [k \in DOMAIN @ \cup {n} |-> IF k = n THEN 0 ELSE @[k]]]))

\* The inspector.
SelectNodeById == \E n \in DOMAIN model.current.nodes : Press(gesture, {n})

\* No gesture is cancelled and no scene rebuilt.
StartSimulation ==
  /\ ~simulation_mode /\ simulation_mode' = TRUE
  /\ Drift(Previewing)
  /\ UNCHANGED <<model, next_wire_id, gesture, selection, read_only, edits, crossed>>

\* A stop rebuilds the scenes, a simulation that no longer builds does not.
StopSimulation ==
  \E rebuild \in BOOLEAN :
    /\ simulation_mode /\ simulation_mode' = FALSE
    /\ scene' = IF rebuild THEN Rebuilt(model.current) ELSE scene
    /\ drifted' = (Previewing \/ (drifted /\ ~rebuild))
    /\ UNCHANGED <<model, next_wire_id, gesture, selection, read_only, edits, crossed>>

-----------------------------------------------------------------------------
(* What a document of the editor is, and what a file holds.                *)

EndOf == [node : NodeId, port : (UNION {DOMAIN Ports[n] : n \in NodeId}) \cup WireId]
Wire  == [id : WireId, source : EndOf, target : EndOf, points : Seq(Coord)]

Document == [nodes : UNION {[D -> Coord] : D \in SUBSET NodeId}, wires : Seq(Wire)]

\* Each wire has a number of its own, below k.
Numbered(bp, k) ==
  \A i \in DOMAIN bp.wires :
    /\ bp.wires[i].id < k
    /\ \A j \in DOMAIN bp.wires : bp.wires[i].id = bp.wires[j].id => i = j

\* The wire joins two ports of nodes that exist, from one that drives to one that
\* receives, of types that agree.
Joins(bp, w) ==
  LET Has(e) == e.node \in DOMAIN bp.nodes /\ e.port \in DOMAIN Ports[e.node]
  IN  /\ w.source # w.target /\ Has(w.source) /\ Has(w.target)
      /\ AreTypesCompatible(Descriptor(w.source).type, Descriptor(w.target).type)
      /\ CanDrive(Descriptor(w.source).direction)
      /\ CanReceive(Descriptor(w.target).direction)

Fits(bp) == \A i \in DOMAIN bp.wires : Joins(bp, bp.wires[i])

\* A bus has one port, which takes and gives; the wires of a file are sound and
\* numbered from 1.
ASSUME CanvasAssumption ==
  /\ {Grid, MaxPoints, WireLimit, MaxEdits} \subseteq Nat /\ MaxHistory \in Nat \ {0}
  /\ Nodes \in Seq(NodeId) /\ NodeId \subseteq DOMAIN Ports
  /\ Bus \cup Resizable \cup DOMAIN Controls \subseteq NodeId
  /\ \A n \in Bus : Ports[n] = [p \in {BusPort} |-> [direction |-> "InOut", type |-> "V"]]
  /\ Files \subseteq Document
  /\ \A bp \in Files :
       Len(bp.wires) <= WireLimit /\ Numbered(bp, 1 + Len(bp.wires)) /\ Fits(bp)

-----------------------------------------------------------------------------
Init ==
  /\ \E bp \in Files : model = [current |-> bp, undo |-> <<>>, redo |-> <<>>]
  /\ next_wire_id = 1 + Len(model.current.wires)
  /\ scene = Rebuilt(model.current)
  /\ gesture = Idle /\ selection = {}
  /\ read_only \in BOOLEAN /\ simulation_mode = FALSE
  /\ edits = 0 /\ drifted = FALSE /\ crossed = FALSE

MouseDown == \/ PressReadOnly \/ PressControl \/ PressSimulating \/ PressPort
             \/ PressMarquee \/ PressHandle \/ PressNode \/ PressPoint
             \/ PressWire \/ PressEmpty
MouseDrag == DragNodes \/ DragResize \/ DragRoutingPoint
MouseUp   == \/ ReleaseDrag \/ ReleasePoint \/ ReleaseResize \/ ReleaseMarquee
             \/ ReleaseNothing \/ ReleaseNewWire \/ ReleaseReconnected

Next == \/ MouseDown \/ MouseDrag \/ MouseUp
        \/ DoubleClickPoint \/ DoubleClickWire \/ Escape \/ Delete
        \/ PerformUndo \/ PerformRedo \/ AddComponent \/ SelectNodeById
        \/ StartSimulation \/ StopSimulation

Spec == Init /\ [][Next]_vars

-----------------------------------------------------------------------------
(* Properties.                                                             *)

\* Every handler changes the document and the scene side by side: the canvas
\* shows the nodes and the wires of the document, ends included, at all times;
\* and everything where it is, when no preview is shown and none was left: what
\* is let go stays where the preview showed it, also when nodes went away since
\* they were selected.
SceneShowsDocument ==
  LET shown == Rebuilt(model.current)
      Joined(s) == [id \in DOMAIN s.wires |-> <<s.wires[id].source, s.wires[id].target>>]
  IN  /\ DOMAIN scene.nodes = DOMAIN shown.nodes
      /\ Joined(scene) = Joined(shown)
      /\ ~Previewing /\ ~drifted =>
           scene.nodes = shown.nodes /\ scene.wires = shown.wires

\* However wires are drawn, moved, reordered and undone, each has a number of its
\* own and joins two ports of nodes that exist, from one that drives to one that
\* receives, of types that agree, unless nodes were deleted with a wire in hand.
WiresFit ==
  ~crossed =>
    \A w \in Range(model.current.wires) :
      /\ \A v \in Range(model.current.wires) : v.id = w.id => v = w
      /\ Joins(model.current, w)

Others(bp) == {w \in Range(bp.wires) : w.id # gesture.wire}

\* Letting go of a wire changes no other wire: they may only change places.
ReconnectKeepsOthers ==
  [][MouseUp /\ gesture.state = "ReconnectingWire" /\ ~crossed =>
       Others(model'.current) = Others(model.current)]_vars
=============================================================================
