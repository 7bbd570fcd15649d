------------------------------ MODULE Windows -------------------------------
(***************************************************************************)
(* The windows of one document.  A document is a tree of nodes; its root   *)
(* and every embedded blueprint in it can be shown and edited in a window  *)
(* of its own, and every referenced blueprint can be looked at in one.     *)
(* Edits come from any of these windows, undo and redo from the menu, and  *)
(* each of them may take the ground from under the others.                 *)
(*                                                                         *)
(* A tree is a function from paths to nodes.  Of a node it keeps what the  *)
(* windows tell apart: a part, a bridge to the outside, an embedded        *)
(* blueprint (its nodes are the paths below it; its data says whether a    *)
(* wire outside is attached to it), or a reference to a library blueprint. *)
(*                                                                         *)
(* `halted` is not in the code: it is set where the program would read a   *)
(* window that was moved away or let an exception out of its main loop.    *)
(***************************************************************************)
EXTENDS Integers, Sequences, SequencesExt, FiniteSets

CONSTANTS
  NodeId,       \* ids of nodes
  Content,      \* contents of a part
  BlueprintId,  \* ids of the blueprints in the library
  Library,      \* the tree of each
  Files,        \* the trees that load can bring in
  NewNodes,     \* the parts, bridges and blueprints a menu can add
  Depth,        \* bound: length of a path
  MaxHistory,   \* bound: versions that undo can bring back
  MaxWindows    \* bound: windows of the document

VARIABLES
  doc,      \* the editor model: current, undo, redo
  windows,  \* windows_
  running,  \* the bridge's running
  stale,    \* ghost: a failed addition was rolled back after it was drawn
  halted    \* the program has crashed

vars == <<doc, windows, running, stale, halted>>

Path == UNION {[1 .. k -> NodeId] : k \in 1 .. Depth}

Part     == [kind : {"part"}, data : Content]
Bridge   == [kind : {"bridge"}, data : {"port"}]
Embedded == [kind : {"embedded"}, data : {"wired", "loose"}]
Ref      == [kind : {"reference"}, data : BlueprintId]
Node     == Part \cup Bridge \cup Embedded \cup Ref

IsTree(t) == DOMAIN t \subseteq Path /\ t \in [DOMAIN t -> Node]

ASSUME WindowsAssumption ==
  /\ Depth \in Nat \ {0} /\ MaxHistory \in Nat /\ MaxWindows \in Nat \ {0}
  /\ DOMAIN Library = BlueprintId /\ \A b \in BlueprintId : IsTree(Library[b])
  /\ \A t \in Files : IsTree(t)
  /\ NewNodes \subseteq Part \cup Bridge \cup Ref
                        \cup [kind : {"embedded"}, data : BlueprintId]

-----------------------------------------------------------------------------
(* Trees.                                                                  *)

\* embedded_path_exists: every segment leads into an embedded blueprint.
Exists(t, path) ==
  \A k \in 1 .. Len(path) :
    SubSeq(path, 1, k) \in DOMAIN t /\ t[SubSeq(path, 1, k)].kind = "embedded"

\* The nodes of one blueprint of the tree, as its window draws them.
Sheet(t, path) ==
  [n \in {n \in NodeId : Append(path, n) \in DOMAIN t} |-> t[Append(path, n)]]

With(t, path, node) ==
  [p \in DOMAIN t \cup {path} |-> IF p = path THEN node ELSE t[p]]

Without(t, path) == [p \in {p \in DOMAIN t : ~IsPrefix(path, p)} |-> t[p]]

\* An embedded copy of a library blueprint at `path`.
WithCopy(t, path, b) ==
  LET held == {path \o p : p \in DOMAIN Library[b]}
  IN  [p \in DOMAIN t \cup {path} \cup held |->
         IF p = path THEN [kind |-> "embedded", data |-> "loose"]
         ELSE IF p \in held THEN Library[b][SubSeq(p, Len(path) + 1, Len(p))]
         ELSE t[p]]

Fits(t) == DOMAIN t \subseteq Path

HasBridge(t, path) ==
  \E n \in DOMAIN Sheet(t, path) : Sheet(t, path)[n].kind = "bridge"

\* The flattener throws when a wire ends at an embedded blueprint in which no
\* bridge answers for the port.
Flattens(t) ==
  \A p \in DOMAIN t : t[p].kind = "embedded" /\ t[p].data = "wired" => HasBridge(t, p)

-----------------------------------------------------------------------------
(* The history, of which only the versions matter here (see EditorModel).  *)

Opened(t) == [current |-> t, undo |-> <<>>, redo |-> <<>>]

\* A command, and a checkpoint followed by a replacement.
Edited(d, t) ==
  IF t = d.current THEN d
  ELSE [current |-> t, redo |-> <<>>,
        undo |-> IF MaxHistory = 0 THEN <<>>
                 ELSE Append(IF Len(d.undo) < MaxHistory THEN d.undo ELSE Tail(d.undo),
                             d.current)]

Undone(d) == [current |-> Last(d.undo), undo |-> Front(d.undo),
              redo |-> Append(d.redo, d.current)]
Redone(d) == [current |-> Last(d.redo), redo |-> Front(d.redo),
              undo |-> Append(d.undo, d.current)]

-----------------------------------------------------------------------------
(* Windows.                                                                *)

Root == [mode |-> "root", path |-> <<>>]
EmbeddedScope(path) == [mode |-> "embedded", path |-> path]
ExternalScope(path) == [mode |-> "external", path |-> path]

\* WindowScopeId::append, and openSubWindow's treatment of the root.
ChildScope(scope, n) ==
  [mode |-> IF scope.mode = "external" THEN "external" ELSE "embedded",
   path |-> Append(scope.path, n)]

\* What unique_ptr leaves behind when it is moved from.
Moved == [scope |-> [mode |-> "moved", path |-> <<>>]]

\* The tree a window renders from, and the path in it.
Rendered(t, w) == IF w.scope.mode = "external" THEN Library[w.file] ELSE t
Within(w) == IF w.scope.mode = "external" THEN <<>> ELSE w.scope.path

Drawn(t, w) == [w EXCEPT !.scene = Sheet(Rendered(t, w), Within(w))]

NewWindow(t, scope, file) ==
  Drawn(t, [scope |-> scope, open |-> TRUE, read_only |-> scope.mode = "external",
            simulating |-> FALSE, file |-> file, scene |-> <<>>])

NoFile == "none"

Find(ws, scope) == SelectInSeq(ws, LAMBDA w : w.scope = scope)

Reopened(ws, i) == [ws EXCEPT ![i].open = TRUE]

\* WindowManager::open and open_external: reactivate, or make a new window.
OpenEmbedded(ws, t, scope) ==
  IF Find(ws, scope) # 0 THEN Reopened(ws, Find(ws, scope))
  ELSE IF scope.mode = "embedded" /\ Exists(t, scope.path)
    THEN Append(ws, NewWindow(t, scope, NoFile))
    ELSE ws

OpenExternal(ws, t, scope, file) ==
  IF Find(ws, scope) # 0 THEN Reopened(ws, Find(ws, scope))
                         ELSE Append(ws, NewWindow(t, scope, file))

\* The sheet that holds the node a sub-window is opened for: the parent's
\* window when that is external, else the embedded blueprint.
ParentSheet(ws, t, path) ==
  LET i == Find(ws, ExternalScope(Front(path)))
  IN  IF Len(path) > 1 /\ i # 0 THEN Sheet(Library[ws[i].file], <<>>)
      ELSE IF Exists(t, Front(path)) THEN Sheet(t, Front(path))
      ELSE <<>>

\* Document::openSubWindow.
OpenSubWindow(ws, t, target) ==
  LET sheet == ParentSheet(ws, t, target.path)
      n     == Last(target.path)
  IN  IF n \notin DOMAIN sheet THEN ws
      ELSE CASE sheet[n].kind = "embedded"  -> OpenEmbedded(ws, t, target)
             [] sheet[n].kind = "reference" ->
                  OpenExternal(ws, t, ExternalScope(target.path), sheet[n].data)
             [] OTHER -> ws

\* remove_closed_windows: those that are open and the root's, in their order.
WithoutClosed(ws) ==
  LET Kept[i \in 0 .. Len(ws)] ==
        IF i = 0 THEN <<>>
        ELSE IF ws[i].open \/ ws[i].scope.mode = "root" THEN Append(Kept[i - 1], ws[i])
        ELSE Kept[i - 1]
  IN  Kept[Len(ws)]

\* close_all.
OnlyRoot(ws) == <<Head(ws)>>

\* find() in the vector that remove_if is compacting: the index of the scope,
\* 0 when no window has it, -1 when the search meets a moved window first.
Search(ws, scope) ==
  LET moved == SelectInSeq(ws, LAMBDA w : w = Moved)
      found == Find(ws, scope)
  IN  IF moved # 0 /\ (found = 0 \/ moved < found) THEN -1 ELSE found

\* external_window_still_valid, with the answer "crash" for that case.
ExternalAnswer(ws, t, w) ==
  LET path   == w.scope.path
      parent == Search(ws, ExternalScope(Front(path)))
      sheet  == IF Len(path) > 1 /\ parent > 0
                  THEN Sheet(Library[ws[parent].file], <<>>)
                ELSE IF Exists(t, Front(path)) THEN Sheet(t, Front(path)) ELSE <<>>
      valid  == /\ Last(path) \in DOMAIN sheet
                /\ sheet[Last(path)] = [kind |-> "reference", data |-> w.file]
  IN  IF Len(path) > 1 /\ parent = -1 THEN "crash"
      ELSE IF valid THEN "keep" ELSE "remove"

Answer(ws, t, w) ==
  CASE w.scope.mode = "root" -> "keep"
    [] w.scope.mode = "embedded" ->
         IF Exists(t, w.scope.path) THEN "keep" ELSE "remove"
    [] w.scope.mode = "external" -> ExternalAnswer(ws, t, w)

\* remove_orphaned_windows: std::remove_if moves each window that stays to the
\* end of those before it, while the predicate searches the same vector.
Compacted(ws, t) ==
  LET Step[i \in 0 .. Len(ws)] ==
        IF i = 0 THEN [list |-> ws, kept |-> 0, crash |-> FALSE]
        ELSE LET s == Step[i - 1]
                 answer == IF s.crash THEN "crash" ELSE Answer(s.list, t, s.list[i])
             IN  CASE answer = "crash"  -> [s EXCEPT !.crash = TRUE]
                   [] answer = "remove" -> s
                   [] OTHER ->
                        [s EXCEPT !.kept = @ + 1,
                           !.list = [j \in DOMAIN ws |->
                              IF j = s.kept + 1 THEN s.list[i]
                              ELSE IF j = i THEN Moved ELSE s.list[j]]]
  IN  Step[Len(ws)]

WithoutOrphans(ws, t) == SubSeq(Compacted(ws, t).list, 1, Compacted(ws, t).kept)
CrashesOn(ws, t) == Compacted(ws, t).crash

SimulationMode(ws, on) == [i \in DOMAIN ws |-> [ws[i] EXCEPT !.simulating = on]]

\* rebuild_window_scenes; a window whose path is gone keeps its scene.
Redrawn(ws, t) ==
  [i \in DOMAIN ws |->
     IF ws[i].scope.mode = "embedded" /\ ~Exists(t, ws[i].scope.path)
       THEN ws[i] ELSE Drawn(t, ws[i])]

\* A subtree moved into a new embedded blueprint beside it (extraction).
Extracted(t, path, n, host) ==
  LET from  == Append(path, n)
      to    == Append(path, host)
      Old(q) == from \o SubSeq(q, Len(to) + 2, Len(q))
      moved == {to \o SubSeq(q, Len(to), Len(q)) : q \in {q \in DOMAIN t : IsPrefix(from, q)}}
      rest  == Without(t, from)
  IN  [q \in DOMAIN rest \cup {to} \cup moved |->
         IF q = to THEN [kind |-> "embedded", data |-> "loose"]
         ELSE IF q \in moved THEN t[Old(q)] ELSE rest[q]]

-----------------------------------------------------------------------------
(* What handlers do after they changed the document.                       *)

Halt == halted' = TRUE /\ UNCHANGED <<windows, running, stale>>

(* Mutant: the bridge leaves the windows in simulation mode when it fails.    *)
RebuildSimulationQuietly(ws) == running' \in {running, FALSE} /\ windows' = ws

\* SimulationBridge::rebuild in a document that flattens: a running simulation
\* goes on or, when the circuit does not build, stops.
RebuildSimulation(ws) ==
  \E on \in {running, FALSE} :
    /\ running' = on
    /\ windows' = IF running /\ ~on THEN SimulationMode(ws, FALSE) ELSE ws

(* Mutant: the scenes of the other windows are left as they were.             *)
ReconcileUndrawn(d) ==
  /\ doc' = d
  /\ IF CrashesOn(windows, d.current) \/ ~Flattens(d.current)
       THEN Halt
       ELSE /\ RebuildSimulation(WithoutOrphans(windows, d.current))
            /\ stale' = FALSE
            /\ halted' = FALSE

\* rebuildAllWindows, and the end of performUndo and performRedo.
Reconcile(d) ==
  /\ doc' = d
  /\ IF CrashesOn(windows, d.current) \/ ~Flattens(d.current)
       THEN Halt
       ELSE /\ RebuildSimulation(Redrawn(WithoutOrphans(windows, d.current), d.current))
            /\ stale' = FALSE
            /\ halted' = FALSE

\* renderAll goes on to the windows after number i of those it started with:
\* it meets moved windows when some were erased, and freed memory when the
\* vector had to grow (it may have had room).
RestOfPass(i, ws) ==
  halted' \in IF i = 1 \/ i = Len(windows) \/ Len(ws) = Len(windows) THEN {FALSE}
              ELSE IF Len(ws) < Len(windows) THEN {TRUE} ELSE BOOLEAN

(* Mutant: a result of the canvas does not reconcile the windows.             *)
ApplyResultAlone(i, d) ==
  LET t  == d.current
      ws == [windows EXCEPT ![i] = Drawn(t, @)]
  IN  /\ doc' = d
      /\ IF ~Flattens(t) THEN Halt
         ELSE RebuildSimulation(ws) /\ halted' = FALSE /\ UNCHANGED stale

\* applyInputResult after the canvas of window i changed the document and its
\* own scene: the simulation is rebuilt, then orphans are removed.
ApplyResult(i, d) ==
  LET t  == d.current
      ws == [windows EXCEPT ![i] = Drawn(t, @)]
  IN  /\ doc' = d
      /\ IF ~Flattens(t) \/ CrashesOn(ws, t) THEN Halt
         ELSE /\ RebuildSimulation(WithoutOrphans(ws, t))
              /\ RestOfPass(i, WithoutOrphans(ws, t))
              /\ UNCHANGED stale

-----------------------------------------------------------------------------
(* Edits.                                                                  *)

\* What the user can do something in: a window that is drawn.
Shown == {i \in DOMAIN windows : windows[i].open /\ ~halted}

\* The canvas takes edits, and the host it hands them to finds its blueprint.
Editable == {i \in Shown : ~windows[i].read_only /\ ~windows[i].simulating}

\* The scopes that dialogs and menus were opened for.
Scopes == {windows[i].scope.path : i \in {i \in Shown : ~windows[i].read_only}}

\* The parts on the sheet of a window, and what may become of their content.
Changes(path) ==
  {With(doc.current, Append(path, n), part) :
     n \in {n \in DOMAIN Sheet(doc.current, path) :
             Sheet(doc.current, path)[n].kind = "part"}, part \in Part}

\* A gesture that moves or resizes: one window, no rebuild.
MoveNode ==
  \E i \in Editable : \E t \in Changes(windows[i].scope.path) :
    /\ doc' = Edited(doc, t)
    /\ windows' = [windows EXCEPT ![i] = Drawn(t, @)]
    /\ UNCHANGED <<running, stale, halted>>

\* set_node_color_for_scope: the window of the scope, if there is one, is told.
SetColor ==
  \E path \in Scopes : \E t \in Changes(path) :
    LET i == Find(windows, IF path = <<>> THEN Root ELSE EmbeddedScope(path))
    IN  /\ doc' = Edited(doc, t)
        /\ windows' = [windows EXCEPT ![i] = Drawn(t, @)]
        /\ UNCHANGED <<running, stale, halted>>

\* The Delete key.
DeleteNode ==
  \E i \in Editable : \E n \in DOMAIN windows[i].scene :
    ApplyResult(i, Edited(doc, Without(doc.current, Append(windows[i].scope.path, n))))

\* A wire to the outside of an embedded blueprint, drawn or removed.
Rewire ==
  \E i \in Editable : \E n \in DOMAIN windows[i].scene :
    LET p == Append(windows[i].scope.path, n)
    IN  /\ p \in DOMAIN doc.current /\ doc.current[p].kind = "embedded"
        /\ \/ doc.current[p].data = "wired"
              /\ ApplyResult(i, Edited(doc, With(doc.current, p,
                                             [doc.current[p] EXCEPT !.data = "loose"])))
           \/ doc.current[p].data = "loose" /\ HasBridge(doc.current, p)
              /\ ApplyResult(i, Edited(doc, With(doc.current, p,
                                             [doc.current[p] EXCEPT !.data = "wired"])))

\* The rebuild that follows an addition throws: the document goes back, the
\* windows, drawn before the simulation was rebuilt, do not.
AddFailed(d) ==
  /\ doc' = [d EXCEPT !.current = doc.current]
  /\ windows' = Redrawn(WithoutOrphans(windows, d.current), d.current)
  /\ stale' = TRUE /\ halted' = FALSE
  /\ UNCHANGED running

\* addComponent and addBlueprint.
Add ==
  \E path \in Scopes, n \in NodeId, new \in NewNodes :
    LET p == Append(path, n)
        t == IF new.kind = "embedded" THEN WithCopy(doc.current, p, new.data)
                                      ELSE With(doc.current, p, new)
    IN  /\ p \notin DOMAIN doc.current /\ Fits(t)
        /\ IF Flattens(t) \/ CrashesOn(windows, t) THEN Reconcile(Edited(doc, t))
                                                 ELSE AddFailed(Edited(doc, t))

\* The value editor, the properties and the script windows.
EditValue ==
  \E path \in Scopes : \E t \in Changes(path) : Reconcile(Edited(doc, t))

\* Bake-in: a reference becomes an embedded copy.
Bake ==
  \E path \in Scopes, n \in NodeId :
    LET p == Append(path, n)
    IN  /\ p \in DOMAIN doc.current /\ doc.current[p].kind = "reference"
        /\ LET t == WithCopy(doc.current, p, doc.current[p].data)
           IN  Fits(t) /\ Reconcile(Edited(doc, t))

\* extractToBlueprint, for a selection of one node.
Extract ==
  \E path \in Scopes, n, host \in NodeId :
    /\ Append(path, n) \in DOMAIN doc.current
    /\ Append(path, host) \notin DOMAIN doc.current
    /\ Fits(Extracted(doc.current, path, n, host))
    /\ Reconcile(Edited(doc, Extracted(doc.current, path, n, host)))

PerformUndo == ~halted /\ doc.undo # <<>> /\ Reconcile(Undone(doc))
PerformRedo == ~halted /\ doc.redo # <<>> /\ Reconcile(Redone(doc))

-----------------------------------------------------------------------------
(* Opening and closing, loading, simulating.                               *)

\* A double click on a blueprint, in any window, also one that is read only.
OpenFromCanvas ==
  \E i \in Shown : \E n \in DOMAIN windows[i].scene :
    LET ws == OpenSubWindow(windows, doc.current, ChildScope(windows[i].scope, n))
    IN  /\ windows[i].scene[n].kind \in {"embedded", "reference"}
        /\ Len(ws) <= MaxWindows
        /\ windows' = ws
        /\ RestOfPass(i, ws)
        /\ UNCHANGED <<doc, running, stale>>

\* The close button of a window; renderAll removes it in its next pass.
CloseWindow ==
  \E i \in Shown \ {1} :
    /\ windows' = [windows EXCEPT ![i].open = FALSE]
    /\ UNCHANGED <<doc, running, stale, halted>>

RemoveClosed ==
  /\ ~halted
  /\ WithoutClosed(windows) # windows
  /\ windows' = WithoutClosed(windows)
  /\ UNCHANGED <<doc, running, stale, halted>>

Load ==
  \E t \in Files :
    /\ ~halted
    /\ doc' = Opened(t)
    /\ windows' = Redrawn(SimulationMode(OnlyRoot(windows), FALSE), t)
    /\ running' = FALSE /\ stale' = FALSE
    /\ UNCHANGED halted

StartSimulation ==
  /\ ~halted /\ ~running
  /\ IF ~Flattens(doc.current) THEN Halt
     ELSE \E on \in BOOLEAN :
            /\ running' = on
            /\ windows' = IF on THEN SimulationMode(windows, TRUE) ELSE windows
            /\ UNCHANGED <<stale, halted>>
  /\ UNCHANGED doc

StopSimulation ==
  /\ ~halted /\ running
  /\ running' = FALSE /\ stale' = FALSE
  /\ windows' = Redrawn(SimulationMode(windows, FALSE), doc.current)
  /\ UNCHANGED <<doc, halted>>

Init ==
  /\ \E t \in Files : doc = Opened(t)
  /\ windows = <<NewWindow(doc.current, Root, NoFile)>>
  /\ running = FALSE /\ stale = FALSE /\ halted = FALSE

Next == \/ MoveNode \/ SetColor \/ DeleteNode \/ Rewire
        \/ Add \/ EditValue \/ Bake \/ Extract
        \/ PerformUndo \/ PerformRedo
        \/ OpenFromCanvas \/ CloseWindow \/ RemoveClosed
        \/ Load \/ StartSimulation \/ StopSimulation

Spec == Init /\ [][Next]_vars

-----------------------------------------------------------------------------
(* Properties.                                                             *)

\* Every window shows the present content of its blueprint, whichever window,
\* dialog or undo changed it, also where handlers redraw a single window.
\* After an addition that was rolled back this returns with the next rebuild.
SceneShowsScope ==
  ~halted /\ ~stale =>
    \A i \in DOMAIN windows : windows[i] = Drawn(doc.current, windows[i])

\* Between handlers no window edits a blueprint that is gone, and none at the
\* root shows a reference that was baked in, retargeted, moved or undone; an
\* editing host would throw out of the main loop.
NoOrphans ==
  ~halted =>
    \A i \in DOMAIN windows :
      LET w == windows[i]
      IN  /\ w.scope.mode = "embedded" => Exists(doc.current, w.scope.path)
          /\ w.scope.mode = "external" /\ Len(w.scope.path) = 1 =>
               /\ w.scope.path \in DOMAIN doc.current
               /\ doc.current[w.scope.path] = [kind |-> "reference", data |-> w.file]

\* No window refuses edits because of a simulation that no longer runs, whether
\* it was stopped, failed to build again after an edit, or ended with a load.
ModeFollowsSimulation ==
  ~running => \A i \in DOMAIN windows : ~windows[i].simulating
=============================================================================
