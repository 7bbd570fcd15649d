# TLA+ verification of AN-24

AN-24 is a circuit simulator and schematic editor, written in C++, for the systems of
the An-24 aircraft.  A document is a blueprint: nodes joined by wires, some of them
hosting blueprints of their own.  The editor changes it under undo and redo, elaborates
it into a circuit, compiles that into a running simulation, and can tie the simulation
to a flight simulator over SimConnect, through a WASM bridge that runs inside it.

This directory holds TLA+ models of the program's core logic, their TLC configurations,
and theorems about them that TLAPS checks.  Source paths are relative to the repository;
`PROJECT.json` maps every definition to the lines it models and lists components, runs,
theorems and hazards.

Contents: inventory, modules, a section for each model, runs, proofs, what is not
modelled, disagreements met, plan.

## Inventory

The program is single-threaded: one ImGui main loop draws windows, dispatches input,
runs a frame of the active document's simulation and polls the SimConnect client.
"Concurrency" is therefore of three kinds: gestures, dialogs and menus interleave with
simulation frames and rebuilds, several documents share one session, and the flight
simulator and its message bus run beside the editor.

| part (code) | state | operations | what makes it correct |
|---|---|---|---|
| editor model (`src/blueprint_v2/editor_model`) | document, undo and redo stacks, `save_depth_`, suppression depth, next wire id, lookup indices | commands, checkpoint, undo, redo, nested `mutate_atomically`, save point | undo and redo lead through the same versions; a transaction is one step or none, also when it throws; the save point names the saved version; indices and wire numbers stay fresh |
| blueprint (`blueprint_v2/blueprint`, `validation`, `path`) | none (immutable values) | copies with an element more, fewer, different; nested replacement; validity | ids unique, wires between existing nodes, at every depth |
| library, codec, repair, bake, canonicalize, interfaces (`blueprint_v2/*`, `src/io`) | loaded tables | look-up, JSON in and out, embedded copies in canonical form | no reference cycles; what is saved can be loaded |
| elaboration, flattener (`blueprint_v2/flattener`, `elaboration`) | none | nested blueprints and bridges dissolved; wires become nets | same nets as the drawing |
| JIT build (`src/core/solvers/jit/build_*`) | build result | validation, signal slots, consumer order, solver islands, patches | writers run before readers unless on a cycle |
| JIT run (`simulator`, `scheduler`, `components`) | signals, part state, constants | start, step, overrides, commits | a frame settles acyclic chains; a control does what the user did |
| nodal solver (`jit/subsolvers`, `common`) | islands, element values, potentials, flows | patch and solve per frame | currents into a net cancel out; an island without a solution stays as it was and disturbs no other; meters show their own branch |
| AOT generator (`src/core/solvers/aot`) | none | writes C++ | same elements, same calls, same order as the simulator |
| simulation bridge (`src/editor/simulation_bridge.*`, `document_simulation.cpp`) | build, running, paused, single step, signal cache, pending overrides, held buttons | start, stop, rebuild, pause, resume, step, controls | what runs is what is shown; inputs reach their ports |
| SimConnect provider and wire protocol (`src/simconnect`) | epochs, input buffer, output shadows, mappings | read and write requests, responses | values converge; nothing skipped against a value that did not arrive |
| WASM bridge (`wasm/`) | table of variables, last sent, sync counter, last epoch | registration, delta reads, full sync, writes, restart | as above |
| SimConnect coordinator and hosts (`simconnect_coordinator`, `jit/bridge/simvar_provider_host`) | client, reference count, connected and registered providers | connect, disconnect, register, enable, build, teardown | no dangling provider, exact count |
| document (`src/editor/document*.cpp`) | file path, windows, bridge | load, save, undo, redo, extraction | every change reaches windows and simulation |
| windows, scopes, hosts (`src/editor/window`, `input/editing_host`) | window list, scope paths | open, close, orphan removal, propagation of embedded edits | a window never edits a scope that is gone |
| canvas input (`src/editor/input`) | gesture state, selection | mouse and key handlers | a gesture ends in one undo step or none |
| router, layout (`src/editor/router`, `blueprint_v2/layout`) | none | A*, layering, crossings | valid routes and layers |
| PI tuner, oscilloscope (`src/editor/pi_*`, `oscilloscope`) | tuning run, traces | signal processing | survives edits while running |
| app, menus, dialogs, rendering, scene, widgets (`src/editor/app`, `visual`, `src/ui`) | drawing | drawing | geometry |

How they interact: a gesture calls the editing host of its window, which calls the editor
model, inside a transaction where the gesture needs several commands.  The document then
reconciles windows and calls `rebuildSimulation`; the bridge elaborates and builds the
document again and starts afresh.  In each main-loop frame the bridge applies the inputs
made on the canvas, reads simulator inputs through its provider host, steps the
simulation, and hands outputs back to the provider.  All providers share the one
coordinator and its client; packets travel over the CommBus to the WASM bridge and back.

What is hard: ordering and staleness (ids of an old build, responses of an old session),
partial failure (a throwing command inside nested transactions, a blueprint that does
not build, a client that disappears), loss (CommBus packets, a restarted bridge), limits
(history eviction together with the save point), and long legal call sequences (toggling
and rebuilding several documents on one session).  `PROJECT.json` lists each hazard with
the line where it bites, and the properties that look for it.

## Modules

| module | models | extends |
|---|---|---|
| `Blueprint` | the immutable document and its copy-with operations | |
| `EditorModel` | `bp2::EditorModel` | `Blueprint` |
| `EditHistory` | abstract: what undo and redo promise | |
| `MCEditorModel` | small instances | `EditorModel` |
| `EditorModelProofs` | theorems about the model and about extraction | `EditorModel`, `Extraction`, `Iteration` |
| `Lists` | what loops pick out of a vector | |
| `Iteration` | lemmas: induction over numbers, functions defined step by step, lists with an item less, what is picked out of one | `Lists` |
| `Windows` | the windows of one document and what edits, undo, load and simulation do to them | |
| `MCWindows` | four documents, a library | `Windows` |
| `WindowsProofs` | theorems | `Windows`, `Iteration` |
| `CanvasInput` | the gestures on a canvas | |
| `MCCanvasInput` | a converter and a bus | `CanvasInput` |
| `CanvasInputProofs` | theorems | `CanvasInput`, `Iteration` |
| `Workspace` | all open documents, tabs, files, and the dialogs and small windows over them, frame by frame | |
| `MCWorkspace` | a value, a script, a blueprint around them | `Workspace` |
| `WorkspaceProofs` | theorems | `Workspace`, `Iteration` |
| `Extraction` | blueprints inside blueprints: extraction, bake-in, the rules of the loader and of what can be flattened | `Lists` |
| `Flattening` | the signals of a flattened document | `Extraction` |
| `MCExtraction` | four documents | `Flattening` |
| `Circuit` | nets, key ids and execution order of a circuit | `Lists` |
| `Simulation` | simulation bridge, simulator, scheduler and five components | `Circuit` |
| `MCSimulation` | five circuits | `Simulation` |
| `SimulationProofs` | theorems | `Simulation`, `Iteration` |
| `Components` | thirteen kinds of components that remember something, on a bench | |
| `MCComponents` | their parameters and inputs | `Components` |
| `Fractions` | exact rational arithmetic | |
| `NodalPlan` | what the builds of simulator and code generator make of devices: elements, islands, patch operations | `Fractions` |
| `NodalSolve` | patches and the solve of one island | `NodalPlan` |
| `NodalFrames` | the simulator's frames around it, and the components that stand for elements | `NodalSolve` |
| `MCNodal` | eight circuits | `NodalFrames` |
| `SolverProofs` | theorems about components and plans | `Components`, `NodalFrames`, `Iteration` |
| `SimConnectLink` | providers, CommBus and WASM bridge | |
| `MCSimConnectLink` | mappings, tiers, epsilons | `SimConnectLink` |
| `SimConnectSession` | coordinator and provider hosts of all documents | |
| `MCSimConnectSession` | symmetry of documents | `SimConnectSession` |
| `SimConnectProofs` | theorems about both | `SimConnectLink`, `SimConnectSession`, `Iteration` |

Definitions called a *mutant* in their comment are plausible wrong versions of the
definition that follows them.  They are used by no specification; each shows that a
property can fail.  A *ghost* is a variable or field that the code does not have and that
never influences what the code does.

## The editor model

`EditorModel.tla` over `Blueprint.tla`: `src/blueprint_v2/editor_model/editor_model.{h,cpp}`
and those callers that reach it with a sequence of their own (`document_io.cpp`,
`document.cpp`, `set_name_dialog.h`, the commands).

| code | model |
|---|---|
| `current_`, `undo_stack_`, `redo_stack_`, `save_depth_` | fields of `model` |
| `checkpoint_suppression_depth_` | `suppression` |
| `redo_before` of the outermost `mutate_atomically` | `before` (ghost, except for its length of redo) |
| `next_wire_id_`, `indices_` | `next_wire_id`, `indices` |
| a command that returns false | no step, or `AddWire`'s step that only consumes a number |
| the function passed to `mutate_atomically` | the commands between `EnterTransaction` and `LeaveTransaction` or `AbortTransaction` |

`saved` and `cut` are ghosts: the document last saved, and whether the saved version was
on a redo branch that a checkpoint discarded.  Commands return early exactly where the
code does; the no-op comparison of updates is a guard.  `MutateEmbedded` takes a path of
one segment.  Operators on a model value (`PushCheckpoint`, `Undo`, `Settle`, ...) are the
member functions, so that a handler is their composition, in the code's order.

Abstraction: node content and routes are model values; insertion order (drawing and the
bus-alias gesture only) is dropped.  A wire drawn on the canvas is named by its number
(`wire_N`); a wire that an extraction or a bake-in makes is named after what made it and has
a negative number, so the counter never sees it.  What restructuring brings in (`Derived`) is
a file whose drawn wires are those of the current document, some of them re-routed or gone,
and whose made wires are any, two with one id included: every extraction counts its own from
`extract_wire_1` (see Disagreements).

`EditHistory` is the abstraction: `past`, `present`, `future`, where an edit remembers the
present and forgets the future.  The mapping shows a running transaction as the model
before it (`Shown`), so a transaction is one abstract step however long and deep it is, and
nothing when it aborts.  Its action `Nothing` is weaker than one expects: a no-op operation
may blank the redo entries, because the code does (see Disagreements).

Properties: `HistoryBounded`, `SavePointValid`, `DrawnWiresFresh`, `IndicesFresh`,
`AbortRestores`, `OneUndoStep`, `ImplementsHistory`.

## The windows of a document

`Windows.tla`: `window_manager.h`, `blueprint_window.cpp`, `document_windows.cpp`,
`document_simulation.cpp`, the canvas's results (`document_input.cpp`) and the pass that
draws sub-windows (`sub_window_renderer.cpp`).

| code | model |
|---|---|
| the document, with nested definitions | `doc.current`, a function from paths to nodes |
| `WindowManager::windows_` | `windows`, a sequence: the order matters for the pass and for compaction |
| `WindowScopeId` | `scope`: root, embedded or external, with a path |
| the scene of a window | `scene`, the sheet it drew last |
| set simulation mode of the window's input | `simulating` |
| `std::remove_if` whose predicate searches the vector it compacts | `Compacted`, with `Moved` for what a moved `unique_ptr` leaves behind |
| reading a moved window, an exception out of the main loop | `halted`: the program ends |

Handlers end differently, and that is the point: a move redraws one window and rebuilds
nothing, a deletion redraws its own window, rebuilds the simulation and removes orphans,
a dialog or undo does all of that for all windows, and an addition whose rebuild throws
puts the document back but not the windows (`stale`).  A rebuild may end the simulation.

Left out: gestures (see The canvas), wires and layout inside a sheet, saved window sessions
(only tests use them), automatic layout, the integrity check of debug builds.

Properties: `SceneShowsScope`, `NoOrphans`, `ModeFollowsSimulation`.

## The canvas

`CanvasInput.tla`: `src/editor/input/canvas_input*.cpp` on the root window, over the editor
model and the scene of widgets it keeps in step (`scene_mutations.cpp`).

| code | model |
|---|---|
| `state_` and the members of each state | `gesture`, a record per state |
| `selected_node_ids_` | `selection`; ids of nodes that are gone stay in it |
| widgets of nodes and wires, alias ports of buses | `scene` |
| one handler of the mouse, a branch of it | one action |
| drag previews in the widgets | `DragNodes`, `DragResize`: the scene changes, the document does not |

Presses, drags, releases and keys are not tied to one another: a release outside the canvas is
never delivered, so every handler can meet every gesture, and undo, menus, the inspector
and the simulation come between.  One coordinate stands for place and size.  Two ghosts
keep apart what the code lets drift: `drifted`, a widget was left where a preview put it
(the simulation started in mid-drag, a routing point was moved, whose widget is not
updated), and `crossed`, Delete was pressed with a wire in hand.  Where a double click would
insert a routing point past the end of the document's points, behaviour is undefined
(see Disagreements), and `DoubleClickWire` is not enabled.

Properties: `SceneShowsDocument`, `WiresFit`, `ReconnectKeepsOthers`.

## The workspace

`Workspace.tla`: `window_system.cpp`, the main loop (`app/editor_app.cpp`), the File, Edit and
Blueprint menus, the popups, tabs, `properties_window.cpp` and `script_editor_window.cpp`.

An action is one frame with one input.  `EditorApp::update` and `render` handle keys and
menu, then ask every dialog whether it still makes sense (`reconcile_owner_bound_ui`), then
draw tabs and canvases, popups, inline editor, script editor and properties, in this order.
So an input of the keyboard or the menu comes before the check (`KeyFrame`) and one of a
canvas or a dialog after it (`CanvasFrame`), and each drawing step looks its target up
again, in its own way, after everything before it: `RenderPopup`, `RenderInline`,
`RenderScript`, `RenderProperties`.

| code | model |
|---|---|
| `documents_`, `active_document_`, `focus_scope`, settings' open tabs | `ws.documents`, `active`, `focus`, `tabs` |
| nodes of a document and of its embedded blueprints | `tree`: their paths; an edit of contents is a version with the same paths |
| undo and redo stacks | trees; pushes and evictions as in `EditorModel` |
| sub-windows | `windows`: the scopes that have one, orphans removed |
| the ImGui popup that is open, with the id and scope it works on | `popup` |
| `pendingExtract`, inline editor, script editor, properties | `extract`, `inline`, `script`, `properties` |
| `setName.save_after` | `save_after`; `asked` is a ghost: the user still waits for a save |
| files | `disk`; a save may be refused |
| an exception out of the main loop; a use of a freed window | `halted` |

Ctrl+S is held back by no popup: its Set Name dialog takes the place of another modal
dialog and leaves `pendingExtract` behind, whose check may throw later.  `CloseTab` may use
the window that had the focus after its document was freed (`main_menu.cpp:34`).
Left out: read-only windows of library files, the bake-in dialog and references (`Windows`
has them), the tuner's dialog, oscilloscope, simulation keys, which tab ImGui shows first
(`SelectTab` is any), and ids left in closed menus.

Properties: `NothingOutlivesItsDocument`, `TabsAreOpen`, `SavesWhatIsAsked`.

## Extraction

`Extraction.tla`: `editor/commands/extract_blueprint*.cpp`, `blueprint_v2/bake/bake_ops.cpp`,
the rules of `blueprint_v2/validation` and of the endpoints `blueprint_v2/flattener` resolves,
over documents with embedded and referenced blueprints, looked at `Depth` levels deep.
`Flattening.tla` over it: the signals the flattener makes, a recursive definition, which is
why it has a module of its own that no theorem uses.

| code | model |
|---|---|
| `model_.current()` | `doc`, a record with sequences of nodes and wires, nested |
| interned strings | tuples: `<<word>>` as the user gave it, or a prefix and what the code appends to it, as `<<"bp_in_", name>>` and `<<name, 2>>` |
| `ExtractionPlan::inputs`, `outputs` | `Inputs`, `Outputs`: the wires across the boundary, with deduplicated names |
| `build_parent_blueprint_from_plan`, `build_inline_blueprint` | `ParentBlueprint`, `InlineBlueprint` |
| `Flattener::flatten`: signals by path, union-find | `Flattening!Signals`: the partition of component ports |
| what it throws at | `Flattens`: references are known, endpoints resolve |
| the signal a parent's wire gives to a port of an instance | a vertex of its own (`outside`), joined with the inside one by boundary seeding only |
| `InvariantChecker::validate` | `Validates`: the rule on wire ids (`UniqueIds`), which a second extraction breaks, and the others (`Consistent`) |
| its recursion, and the flattener's | `Loads`: every blueprint `Within` the document, found level by level (`LevelsOf`) |

An action is one accepted extraction or one bake-in; refusals change nothing.  After an
extraction what was made is itself open to extraction, to selections that contain it, and to
the same names.  Left out: domains and types of ports, positions.

Every extraction numbers the wires it makes from one, without a look at those the blueprint has
(`MadeUp`).  So the second extraction from one blueprint leaves two wires with one id, and the loader
refuses the document (see Disagreements).  What holds is that nothing else goes wrong and no
id that a user gave is ever repeated (`BreaksOnlyWireIds`), and that a first extraction from
what was wired by hand, and every bake-in, leaves what the loader accepts (`FirstExtractionLoads`).

Properties: `BreaksOnlyWireIds`, `FirstExtractionLoads`, `CircuitStays`.

## The simulation

`Circuit.tla` models what a build derives: signal keys in the order they are interned,
nets by merging the ports of each wire, and the order of consumers by Kahn's algorithm
with a FIFO (`build_components_validation.cpp`), whose leftovers, on or behind a cycle,
follow in document order.  Solver-owned components are visited in the order of an
`unordered_map`: every order is allowed, chosen at the build.

`Simulation.tla` models `simulation_bridge.cpp`, `document_simulation.cpp`,
`jit/simulator.cpp`, the push scheduler and the components a user can operate or feed:
Value, Switch, Slider, HoldButton, KnobSwitch.

| code | model |
|---|---|
| the blueprint as a circuit | `doc` |
| `build_result_`, `state_` | `build`, `state` (`values` by net, `part` by node) |
| `running`, `paused`, `single_step_pending` | same |
| signal cache of the canvas | `signal_cache`: node to key id of this build |
| `typed_overrides` (applied at the next frame), `held_buttons` | same; `port` and `fresh` are ghosts |
| `Document::rebuildSimulation` after every edit, undo, redo | `Edit(c)`, always with the rebuild |
| `step`: held buttons, then overrides, sources, consumers, commits, solver-owned commits | `Step` |

A build that throws `std::runtime_error` is a circuit with `ok = FALSE`: start refuses it, a
rebuild stops the simulation.  Signals hold integers, which is all the thresholds of these
components tell apart.  The nodal solve is not part of this module (the next section has it);
a component only the solver visits still commits its control.

Properties: `RunsWhatIsShown`, `FreshAimTrue`, `LastWordWins`, `SwitchObeysClicks`,
`FrameSettles`.  `FreshAimTrue` would be false of the inputs made before a rebuild (see
Disagreements).  The last three say when they speak.  `SwitchObeysClicks` is about a control
on whose net nothing but clicks was aimed: a slider or a held button wired to it moves the
switch as well, or keeps it.  `FrameSettles` is about a consumer off the cycles whose output
nobody else writes, and whose input and output no commit writes: a `state` or `position` wired
back to either changes after everything was executed, and the chain carries it a frame later.

## The nodal solver

Electrical, hydraulic and pneumatic parts have a *solver role* in their blueprint
(`src/library`): what they are in a resistive network.  The build turns roles into elements,
groups elements that share nets into islands, and makes patch operations; a frame sets the
elements from signals, solves each island and lets the components read the result.

| code | model |
|---|---|
| `solver_role` of the library's blueprints | `SolverRole` |
| `extract_with_table` with the adapter of the simulator, of the generator | `Extract` with the adapter `"JIT"` or `"AOT"` |
| `group_into_islands`, `build_patch_ops_*` | `Islands`, `PatchOps` |
| parameters nobody asked for, missing ones, two sources on a net | `Refused` |
| `update_nodal_dynamic_sources` | `UpdateSources` |
| `solve_linear_system`: one, two, or more unknowns | `SolveOne`, `SolveTwo`, `SolveDense` with partial pivoting |
| element values, potentials, flows, values of signals, component members | `sim` |
| `Simulator::start`, `stop`, `step`, `apply_typed_overrides` | `Start`, `Stop`, `Step`, `Override` |
| `unordered_map` of the components a solver owns | `built.order`: any order, fixed by the build |

Numbers are exact fractions (`Fractions`), so a system is singular exactly when it has no unique
solution; the conductances of the circuits are far from the code's thresholds.  A switch commits at
the end of a frame and so acts in the next one: the laws are stated with every switch where
the frame before left it.  They are stated on the devices, leg by leg and net by net, and
know nothing of elements, handles, matrices and islands; a net counts as grounded when
everything it hangs together with conducts to a reference, which is where the code solves
and where it leaves the potentials alone.  No circuit of hydraulic parts is among the eight;
they go through the same extractors, patches and solver as the pneumatic ones.

Properties: `NetsObeyTheirLaws`, `MetersReadTheirBranch`, `ChainsComeToRest`, `PlansAgree`.

## Components

`Components.tla`: the components of `core/solvers/jit/components` that carry something from
frame to frame: monostable, time delay, sample and hold, comparator, integrator, four
followers (slew rate and first order, symmetric and not), interpolator, fuel tank, relay,
circuit breaker.  One at a time is put on a bench, started as `Simulator::start` does (with
the bootstrap commit) and run through frames; a frame is `execute` on the committed state,
writing outputs and staging the next state, then `commit`, with the frame time cut to
`MAX_DT` as `Simulator::step` does.

| code | model |
|---|---|
| the component object with its staged and committed members | `part`, the committed ones |
| signals it writes | `out` |
| `Simulator::step(dt)` | `Frame(dt, in)`; `frames` is the history the properties speak of |
| float times and values | ticks and units, as small as one likes |

What a component should do is stated over the history, with no state of its own: when the
last edge came, how long the input has been the same, what was current when the trigger
rose.  Every frame of the history carries the time it ended (`at`).  Rounding of floats is
left out.

Parameters are any numbers, as the factory takes them.  What a parameter decides is said in
the property: `Heads` are the parameters with which a follower goes towards its input and
stops there (rates above 0, a factor of a `LerpNode` above 0 and up to 1; a lag is never
nothing, `pre_load` sees to that), and a `LerpNode` whose factor is above 1 passes its input,
since `lerp_node.cpp:18` has no clamp: `FollowersNeverOvershoot` says of it that up to 2 it
comes no further away.  The division by an integer moves a value only if the difference is a
`Grain` or more, which floats do not need.  A breaker has two currents, one of its load while
closed (`load`) and one that leaks through `g_open` while open (`leak`); both are inputs of
the bench, since the solver decides them.

Properties: `OutputsFollowHistory`, `FollowersNeverOvershoot`, `BreakersStayTripped`.

## The SimConnect link

`SimConnectLink.tla`: `simconnect_provider.cpp`, `wire_protocol.h`, `wasm/an24_bridge.cpp`
and the CommBus between them, in one module because no property is about one end alone.

| code | model |
|---|---|
| `host_epoch_`, `frame_counter_`, `input_buffer_`, `output_shadow_` | `host[p]` |
| `g_delta_entries`, `frames_since_sync`, `last_host_epoch` | `bridge` |
| requests and responses | `to_bridge`, `to_host`, two queues that keep order |
| Vars API of the simulator, `values[]` of the simulation | `sim`, `signals[p]` |

Actions: a provider starts (built, connected, all names registered again) and stops; a
frame sends a read of the tiers that are due and a write of the outputs that moved; the
bridge registers, answers a delta read with an update, a full synchronisation (periodic,
or after a gap of epochs) or nothing, and writes; the coordinator hands each response to
every provider, which drops what is stale.  The surroundings change variables, lose
packets and restart the bridge.  Values are numbers of units; `Encoded` and `Injected` are
what `float_to_wire_value` and `wire_value_to_float` do, with the wrong type too.  The outputs of
a frame are gone through one by one (`Extraction`), since the shadow is kept by signal: the
first output that is sent moves the shadow with which the next one at the signal is compared,
bytes of another type included (`WireChanged`).

`Prompt` is the one assumption about the bus: no frame starts while a read, write or their
answer is `StaleGap` frames old (more than a second).  Losing stands for failing to send,
whose result nobody looks at.

The names of a registration come in some order (`SetToSeq`): it matters only to a table that
is full, which drops the rest.  A provider that leaves is taken out of the coordinator's
vector where it is (`Others`).

`disturbed` is a ghost that flips with every loss and restart, so that `Calm` can say in
temporal logic that these have come to an end.

Properties: `InputShadowsAgree`, `OutputShadowsAgree`, `InputsConverge`.  That every output has
the value of its signal in its variable is not among them: outputs that share a signal share
its shadow, and only one of them is written (see Disagreements).

## The SimConnect session

`SimConnectSession.tla`: `simconnect_coordinator.cpp` and `simvar_provider_host.cpp`, for any
number of documents.  A provider is a number never used again, so a dangling pointer is a
number no host holds.  `client` is none, open, or lost: lost is a client that exists but
says it is not connected.  `registered` is a ghost.  Every operation of a host (toggle on,
toggle off, build, teardown, destruction) is one action that composes the coordinator's
operations in the code's order; a connection attempt succeeds or fails at will.

Properties: `NoDangling`, `CountIsExact`, `ConnectedIsRegistered`; that the connected are among
those that get the responses, `ConnectedListens`, is proved and has no run of its own.

## Runs

| run | question | bounds, and why they are enough |
|---|---|---|
| `editor_history` | Does the history keep its promises through eviction, nesting, abort, save, load? | `MaxHistory` 2: eviction happens at the third edit, and an undo, a redo and an evicted save point fit beside it; two nesting levels tell the outermost from the rest; one node, one content, two names, two embedded sheets; no wires |
| `editor_wires` | Do numbers and indices stay fresh? | two wire numbers, two ports, a file whose only drawn wire is number 1, so that loading must synchronise, files with one made wire and with two of one id; one nesting level; a view drops the save point, which neither property mentions |
| `windows` | Does every window show its blueprint, and is there none without one, whatever is edited, undone, loaded or simulated? | paths of two segments: a blueprint in a blueprint; one undo; three windows; four documents, a library whose blueprint refers to another |
| `gestures` | Do document and canvas agree, and do wires fit, through any order of gestures? | a converter (two electrical ports, a flag) and a bus, three wire numbers so that two wires share the bus while one is moved, one routing point, coordinates 0 and 1, one edit with the mouse besides any number of additions, undo and redo |
| `workspace` | Does anything outlive its document, in the dialogs or in the list of tabs, and is only saved what was asked? | two documents per process, two files; one undo or redo entry in all; a menu opens beside at most no other small window (`MaxDialogs`), Set Name beside any; four trees, with extraction, addition and deletion between them |
| `extraction` | Does extracting and baking keep the circuit, can the result be flattened, and is it loadable but for wire ids? | three extractions: one beside another and one that swallows both; `Depth` 5, enough for every extraction and the first bake-in to add a level (`DeepEnough`); documents with fan-out and a loop, a chain with parts left between, ports of one name, a blueprint with two references to one |
| `session_safe` | Do documents share a session without dangling or miscounting, and is each known to the bridge, while the client fails? | three documents (one leaves, one stays, one joins), five providers: every host can be rebuilt, up to symmetry of documents |
| `link_shadows` | Does the host hold what the bridge sent, and the simulator what the shadows say was written, whatever the restarts? | two outputs at one signal of which one is coarse and one exact, so that each may be the one that is sent, and an input that reads the exact one back; three values one of them below the epsilon's reach of another, reads lost, three starts (six entries fit into the table), two packets, epochs modulo 4, synchronisation every second read; the variable that is read changes by the document's own writes (in `link_converge`, at any time); one document, because of two the property is false (see Disagreements) |
| `link_converge` | Do inputs reach their value once things are calm? | two providers on one variable so that epochs interleave; updates, syncs and registrations lost; the bridge restarted |
| `sim_controls` | Does the simulation run what is shown, and do controls act as operated? | five circuits: a chain listed backwards, one with the same switch at other ids, a knob fed by a switch, a loop, one that does not build; two inputs between frames |
| `nodal` | Do networks obey their laws while switches move, do meters show their own branch, does a circuit come to rest, and do simulator and generated program agree on the elements? | eight circuits: a divider (dense), a cut-off lamp beside a network without ground (singular and back), a measured voltage that switches a controlled source with a knob for a load, relays that switch relays around a conductance that can be shut, compressor and valves, and three that are turned away (two sources on a net, a parameter too many, one too few); any overrides between any frames; `Lag` 4 is tight: a relay chain does not rest in 3 |
| `components` | Does each component do what its history says, on short frames and on hitches? | five frames: an edge, a pulse that lasts two, its end, an edge again; frame times 0, 1 and one beyond `MAX_DT`; parameters of none to four ticks, a factor of 3/2, a breaker that leaks |

Named bounds: `MaxHistory` (a parameter of the code), `MaxNesting`, `WireLimit`,
`MaxBuilds`, `Depth`, `MaxWindows`, `Grid`, `MaxPoints`, `MaxEdits`, `MaxOpen`, `MaxIds`,
`MaxDialogs`, `Trees`, `Lag`, `MaxExtracted`, `MaxFrames`, `BusLimit`, `MaxStarts`, `MaxPending`; the periods, the epoch modulus and
`StaleGap` of the link are the code's constants made small, in the order the code has them
(`BusLimit <= StaleGap < EpochLimit`).  With `BusLimit` no greater than `StaleGap`, an epoch
comes round only after its packets are gone, as 65536 epochs and a prompt bus guarantee.

`windows` and `workspace` switch off the deadlock check because the program ends where it
reads a moved or freed window or throws out of the main loop, `extraction` and `components`
because their bounds on extractions and frames are reached.  Elsewhere an undo, a frame, a toggle is always
possible.

**Fairness.**  Only `link_converge` assumes any: weak fairness of receiving and of the
bridge handling a request.  The main loop polls the client on every pass and the simulator
dispatches what arrives; neither waits for anything.  A frame is not assumed: only the
active document's simulation is stepped (`editor_app.cpp:323`), so that the frames of a
running provider stop when the user looks at another document.  Losses, restarts, variable
changes, starts and stops are never assumed to happen.  `InputsConverge` starts from `Calm`,
without which no protocol could converge, from `Attended`, that the documents in question
keep being stepped, and from registered variables (`Tracked`), because a restarted bridge is
not registered again until a provider connects.

## Proofs

Every theorem holds for all values of the constants, under the named assumptions the
modules state, which TLC evaluates in the runs: `MaxHistory`, `MaxNesting` positive; files and
sheets are documents and sheets; `MayFail` Boolean; `NoBuild` is not a build.
A circuit has names that differ, known component classes, integer parameters and, if it
builds, wires between its ports (`CircuitsAssumption`); sliders are dragged to integers
(`InputsAssumption`).  The three
modules of documents and windows assume of files what a load guarantees: the nodes of a file
or of the library form a tree, in which the parent of a path is there (`WindowsAssumption`,
`WorkspaceAssumption`); a file of the canvas has its wires between ports that are there,
numbered within the ids handed out, and keeps to the limits of the ports (`CanvasAssumption`).
Extraction starts from a document that passed the loader, with a library of blueprints that
passed it, and in which only bridges have ids that begin with `bp_in_` or `bp_out_`
(`ExtractionAssumption`; see Disagreements for the last).
A bench has parts of known kinds with parameters and inputs to match (`BenchAssumption`):
numbers are integers of any sign and levels 0 or 1; the unit in which a factor or the cooling
of a breaker is counted is positive, a capacity not negative.  The host may pass
any integer for the time of a frame, as long as `MAX_DT` is positive (`StepsAssumption`).
The circuits of the nodal solver have devices of the library with names that differ and
numbers for parameters (`NodalPlan!CircuitsAssumption`); what a build turns away may be
among them.  The link has finitely
many variables with natural numbers for values, and an epoch comes round later than a packet
can be on the bus (`SimConnectLinkAssumption`).

**`EditorModelProofs`.**  `IInv == TypeOK /\ HistoryBounded /\ Frame /\ SavePointValid`.
None of its parts is inductive alone.  `Frame` says what a running transaction rests on:
the undo stack is that of `before` after its checkpoint and the redo stack is empty; without it
one cannot show that leaving or aborting pops the right entry, or that refilling the redo
stack to its old size stays within the bound (the checkpoint may have evicted a version,
but never both).  The steps are first sorted into a few kinds (`Edits`, `Amends`, `Still`,
undo, redo, save, load, enter, leave, abort: `NextSteps`), so that each conjunct is proved
once per kind.  `SavePointValid` is split into `Tracks`, about the model alone, and
`Behind`, that a transaction's changes lie above the saved version; `UndoMoves` and
`RedoMoves` say the two operations move along the versions without changing one.

| theorem | states |
|---|---|
| `TypeCorrect`, `HistoryStaysBounded`, `SavePointCorrect`, `IndicesStayFresh` | the invariants of the runs |
| `CleanIsSaved` | no asterisk means saved content, the discarded branch excepted |
| `WireNumbersFresh` | `DrawnWiresFresh`: the next number is above every drawn wire in any version, undone and redone ones too, and no version has two drawn wires of one id, whatever extractions bring in |
| `AbortIsClean`, `TransactionIsOneStep` | the action properties of the runs |
| `HistoryImplemented` | `Spec => ImplementsHistory`: initial states map to initial states (`ShownInit`), every step to a step or a stutter (`ShownStep`) |

**`EditorModelProofs`, extraction.**  `ExtractionBreaksOnlyWireIds` (`BreaksOnlyWireIds`) and
`FirstExtractionIsLoadable` (`FirstExtractionLoads`), for every document,
library and `Depth`, hence to any depth.  `ExtractionInv` adds that documents are made of
lists and `BridgeIdsKept`: without it a selected component could have the id of a bridge that is made beside it.  What is made up is
free: among more numbers than there are used names one gives a free one (`FreeNumber`), so
names (`NamesForFacts`) and the id of the instance (`UniqueIdFacts`) are new.  A wire stays
valid if the nodes at its ends go where it goes (`EndMoves`); a new wire is, because each name of the
interface stands once, has one bridge and the bridge's direction (`InlineNodes`, `InlineIface`,
`EndMade`).  `InlineSound` and `ParentSound` put this together for the new blueprint and for
what is left, `BakeSound` for a bake-in; `InlineWireIds` and `ParentWireIds` say which ids of wires can meet (`NumberedIds`, `JoinedIds`); `WithinGrows` says that embedding a blueprint brings
in no others than what is within it.

**`SimConnectProofs`, the session.**  `SessionInv == SessionTypeOK /\ GoodCoordinator(coordinator) /\
Owned /\ NoDangling`.  `GoodCoordinator` holds of the coordinator alone: its count is the cardinality of the connected, the
client exists exactly while it is not zero, the connected are among its providers; it is
shown once per coordinator operation, and host actions are compositions of these.  `Owned`,
that no two hosts hold one provider, is needed for `NoDangling`: otherwise tearing down one
host would free what another holds.  Theorems: `SessionTypes`, `SessionNeverDangles`,
`SessionCount`, `SessionListens`, `SessionRegistered`.

**`SimulationProofs`.**  `IInv`: the document is a circuit, inputs are records of the right
shape, `RunsWhatIsShown` and `FreshAimTrue`.  A build ages all inputs (`BuildAges`), so a
fresh one was made against the present signal cache, which `RunsWhatIsShown` says is that of
the document.

The rest is about what a frame computes.  Keys, nets, the sort and the executions are
recursive functions; each is shown to run through values of its type (`ExecuteAllRuns`,
`CommitAllRuns`, `OverriddenRuns`, `NetFacts`), and what it comes to is found along that run.
The sort keeps `Kahn`: a consumer is sorted or ready exactly when all its writers are sorted, and every
sorted one has its writers before it.  Each round sorts one or the queue is empty
(`TakeReadyFacts`), so it is empty after as many rounds as there are consumers; what is left
then has a writer that is left, and so lies on or behind a cycle (`WritersFirst`).

`CInv`, inductive together with `IInv`, adds `TypeOK`, that what runs was built, that held
buttons hold one value, and two facts that `SwitchObeysClicks` needs: the switches have
seen the last value of a control that only the user sets (`Seen`), and a pending click was
computed from the value that is still there (`Turns`), because only a frame changes it.  The
action properties follow from `SteppedFacts`, what a frame does to nets and switches, and
`LastWord`, what the inputs of one frame come to in whatever order the held ones are
visited.

| theorem | states |
|---|---|
| `RunsTheDocument`, `FreshInputsAimTrue` | `RunsWhatIsShown`, `FreshAimTrue` |
| `NetsAreWired` | the nets are exactly the classes that the wires make of the ports |
| `WritersFirst` | the sort lists each consumer once, and after all its writers unless it is on or behind a cycle |
| `ContentsTyped` | `TypeOK` |
| `FramesSettle`, `UserHasTheLastWord`, `SwitchesObey` | the action properties `FrameSettles`, `LastWordWins`, `SwitchObeysClicks` |

Writing the proofs changed two properties: `SwitchObeysClicks` had no condition on sliders
that share the net, `FrameSettles` none on an output that a latch is wired to.  Both were
false for circuits that are not among the five of the run.

**`Iteration`** holds what the later modules need of numbers: a set of naturals that is not
empty has a least element (`LeastNat`), hence induction written with sets instead of
operator parameters (`Upward`), and a function defined by its first value and a step exists
(`IterateExists`).  With it a recursive function of a model (`LET f[n \in Nat] == ...`) is
known to satisfy its own equation, from which its properties follow by `Upward`
(`TypedThroughout` for its type).  For lists it
says what is left when an item is removed (`RemoveAtFacts`, `RemoveFirstFacts`), which the
vectors of tabs, wires and providers need, what appending, the tail and the concatenation
hold (`AppendFacts`, `TailIndex`, `ConcatFacts`), what is picked out of one (`AmongFacts`,
`FirstOfFacts`), and where the items of a list of lists come
when the lists are put in a row (`FlattenPlaces`).

**`WindowsProofs`.**  `IInv` says that the document is one of `Docs`, that the list of windows is
`WellKept` (the root's window first, no scope twice), that
windows are in simulation mode only while the simulation runs, and, as long as the program
has not ended, that every window is grounded in a scope that exists and, unless an addition
was rolled back, that its scene is what the scope holds.  The work is in `Compacted`: for a vector that is searched
while it is compacted, what a pass keeps is found by induction along the list.  Theorems:
`WindowsInvariant`, `ScenesShowScopes` (`SceneShowsScope`), `WindowsGrounded` (`NoOrphans`),
`ModesFollow` (`ModeFollowsSimulation`).

**`WorkspaceProofs`.**  `IInv == Fit(ws) /\ asked \in BOOLEAN /\ NameAsked`, where `Fit` says
that the state is well formed, that each dialog and small window is anchored to what it
works on (`Anchored`: the document is open, or the dialog is closed), and that every tab is an open document's, once (`Tabbed`).  A frame
is a composition of steps on `ws`.  What it does around its input only closes dialogs
(`Quieter`), and inputs keep `Sound`, that the state fits, files stay and no name is asked for
in order to save; `KeyFrameSound` and `CanvasFrameSound` compose the two in the order of the code, and the few
inputs that write files or ask for a name are looked at one by one.  Theorems:
`WorkspaceInvariant`, `DialogsEndWithDocuments` (`NothingOutlivesItsDocument`),
`TabsShowDocuments` (`TabsAreOpen`), `FilesAreSavedOnRequest` (the action property
`SavesWhatIsAsked`).

**`CanvasInputProofs`.**  The widest of the inductive invariants,
`IInv == Types /\ Sound /\ InHand /\ ShowsWires(scene, model.current, ~drifted) /\ ShowsNodes`.
`WiresFit` speaks of the present document, but undo and redo bring any version back, so
`Sound` says it of all of them.  `InHand` is about the wire in hand: the ports a gesture
remembers are those of a wire or a place where one may end, which `WiresFit` needs at the
release.  `ShowsNodes` says what the scene shows during a gesture, the document with the
preview applied (`DragShown`, `ResizeShown`): without it one cannot show that a release
commits exactly what is on the screen.  Ports count the wires at them, so the proof rests on
lemmas about cardinalities of sets of wires under append, removal and reconnection.  Theorems:
`CanvasInvariant`, `CanvasShowsDocument` (`SceneShowsDocument`), `WiresAlwaysFit` (`WiresFit`),
`ReconnectLeavesOthers` (the action property `ReconnectKeepsOthers`).  The insertion past the
end that `DoubleClickWire` leaves out was found here: the step did not keep `Types`, and TLC
gave the five gestures that lead to it.

**`SimConnectProofs`, the link.**  For every number of variables, values and packets on the bus, and
every epoch modulus.  Both ends keep a shadow of what the other holds, and a packet on its
way is what they differ by.  `LastWord(q, cmds, v, base, X)` says that the last packet of `q` that carries
`v`, or `base` if there is none, has a value in `X`; appending and removing a packet
(`AppendWord`, `TailWord`) are all that happens to it.

For outputs, `OutputsInv == Types /\ Budget /\ Registered /\ Announced /\ AllPlain /\ OutputsLatest`.
`OutputsLatest` is the last word of the requests about one of the outputs of a signal, the one
that moved the shadow last: `ExtractionKept` goes through the loop over the outputs, after
each of which the shadow of a signal is that of an output that is sent, or has not moved.  The
bridge skips records of
names it does not know, so `Registered` and `Announced` are needed: the variables of a
document are known when its writes are read.  They rest on `Budget`: each start
brings one list of names, which is on its way, lost or in the append-only table.

For inputs, `InputsInv(p)` says that the buffer is `Agreed`, close to what the bridge last sent
by the last word of the responses, and that what is on its way is `Fresh`, or else the bridge has not yet
reported anything after the registration (`Waiting`).  `Fresh` is needed because the
provider drops what is stale: with `GapGrows` an epoch is not taken for a later one of the
same number.  `Waiting` is needed because a provider starts again at epoch 0: what is then
on the bus belongs to the earlier simulation and may be dropped as stale or applied, and
`Agreed` holds again from the first answer after the registration, which reports everything.

| theorem | states | under |
|---|---|---|
| `LinkTyped` | epochs, buffers and packets are as the handlers expect | |
| `NamesAreKnown` | no name of a running document is dropped | the table has room for what is started (`RoomForAll`); registrations arrive |
| `WritesArrive` | `OutputShadowsAgree` | the same; writes arrive; outputs have a variable of their own (`OutputsApart`), and may share signals; of a category the bridge parses from the name (`OutputsWritable`) |
| `ReportsArrive` | `InputShadowsAgree` | the same room; registrations, updates and synchronisations arrive; no two variables on one signal (`SignalsApart`); one document |

Each condition is there because the code needs it: a full table drops names silently, a lost
write is never sent again, two documents that write one variable overwrite each other, a
name filed under another category is not written, and of two documents see Disagreements.
Reads and acknowledgements may be lost, and in `WritesArrive` updates too; `link_shadows` loses the former.
That `RegisterNames` may be lost is also the model's condition for a bridge restart.

**`SolverProofs`, the components.**  For every bench, frame times and `MaxFrames`.
`BenchInv == Typed /\ Timed(frames) /\ Kept(Kind, P, frames, part) /\ ...`, with the three
properties.  These speak of the history, the code only of its own state, so `Kept` says what
of the history each component keeps: a pulse's timer is what is left of some edge's time and no
less than that of any other (`PulseKept`), a delay's accumulator is how long the input has been the same and
its output what that was when it last lasted long enough (`DelayKept`), an integrator's sum is the area under
its input since the last reset (`IntegralKept`), a follower's state is where it goes from its last
output (`FollowerKept`).  `Timed` is needed because the histories are measured by their
time stamps and the components by adding up frames.  Each reference is shown to grow
with the history as its component does (`EdgesGrow`, `RunsGrow`, `LastingGrows`,
`AreaGrows`, `LatchStep`), then each component to keep its predicate and to put out its reference
(`PartStep`).  The followers rest on integer division (`PortionTowards`: a part of a way ends between
its ends, and is not nothing outside the dead zone; `DoublePortion` for factors above 1), the
breaker on what a whole division keeps (`Quotient`).  `BenchAssumption` says that numbers are
integers and levels 0 or 1, and nothing of their sign or size.  Theorems: `PartsFollowHistory`
(`OutputsFollowHistory`), `FollowersStop` (`FollowersNeverOvershoot`), `BreakersTripAndStay`
(`BreakersStayTripped`).

**`SolverProofs`, the plans.**  `PlansCoincide` (`PlansAgree`), for circuits of any number of
devices and any wires.  Both builds list the same elements (`ListingAgrees`): what is
asked for in opposite orders is never both a constant and a parameter in a role of the library
(`RolesRegular`), and where the generator would fall back on a default the simulator has refused
the circuit (`ReadAgrees`).  They bind elements by different rules, but every role that is
patched binds; so the ids of a patched device are the same (`IdsFacts`), and there is one exactly
if it is no knob, as names differ and each device has its place in the list
(`ListingFacts`, from `Iteration!FlattenPlaces`): what one build counts the other reads off the
class.  The invariant of frames is only that the circuit is a document; the weight is in the
definitions.

**Model-checked only.**

- `InputsConverge` needs fairness and ENABLED, out of the prover's reach.
- `InputShadowsAgree` for several documents is neither proved nor true (see Disagreements).
- `NetsObeyTheirLaws`, `MetersReadTheirBranch`, `ChainsComeToRest`: they need the algebra of
  fractions and of elimination for matrices of any size.
- `CircuitStays`: the signals of a flattened document are a recursive definition (`Flattening`),
  and that extraction keeps them is an induction over the nesting.

## What is not modelled

- Floating point: rounding and thresholds near zero of the nodal solver (1e-12 for a pivot or
  a determinant), rounding in components, analog parts, tuner, oscilloscope.
- The C++ text of the code generator and the order of the calls in it.
- Components without state (gates, arithmetic): each is one expression.
- Drawing, geometry and text: scene, widgets, rendering, menus, layout coordinates.
- JSON and file formats; a load is a choice among valid documents.
- Within the modelled parts: wire domains and contextual typing, `nodes_in_rect`'s geometry, heartbeat, Ping/Pong, variable enumeration, the
  test-only factories of the coordinator, LUT tables and `initial_values` of the simulator.
- Gestures in sub-windows: `CanvasInput` is the root window; `Windows` has their edits.

## Disagreements between code and its documentation

Noticed while reading or modelling.  The models do what the code does here, and the properties are
stated so that they are true of it: what they leave out, by a ghost (`cut`, `crossed`, `fresh`) or
by what they say, is one of these.

- Wire ids: every extraction numbers the wires it makes in the parent from `extract_wire_1`
  (`extract_blueprint_bridge.cpp:112`), so that after a second one two wires have one id.
  `InvariantChecker` calls that an error (`invariant_checker.cpp:37`), and decoding runs it
  (`blueprint_codec.cpp:124`): the saved document cannot be opened again.
  `blueprint_v2/diagnostics/repair.cpp`, which knows the error, is called by nothing.
- Nodal solver: an island that floats in one part is frozen as a whole, flows of its other part
  read 0 (`nodal_subsolver.cpp:175`), and networks that share a ground net are one island
  (`build_algorithms.h:62`); constants are written with six decimals, so that a conductance
  under 5e-7 becomes 0 (`elaboration_detail.h:93`); two references of different values on one
  net are not refused, the first is used.
- Code generator: the header declares a local of one name for each island in one scope
  (`electrical_codegen.cpp`), and handles are assigned to components that have no such
  member; names that differ only in characters `sanitize_name` replaces become one; consumers
  run in document order and the first frame is not patched; defaults of parameters are
  filled in although the simulator's elaboration does not.
- Extraction: with references allowed inside the selection, the provider is chosen by comparing
  a node id with the id of the provider's blueprint (`extract_blueprint_build.cpp:50`), where
  the dialog promises the lowest provider node id; a selection made in an embedded window is
  looked up in the root blueprint (`extract_blueprint_analysis.cpp:208`); names of
  boundary ports collide between an input and an output of one name, and the extraction is
  refused rather than renamed (`extract_blueprint_build.cpp:219`); the id of a bridge is
  a prefix and the name of its port, and nothing asks whether a selected node has it
  (`extract_blueprint_bridge.cpp:42`).
- Simulation: `rebuild` keeps `typed_overrides` and `held_buttons`, whose ids come from the
  interner of the old build (`simulation_bridge.cpp:440`), which `jit_solver.h:145-146` calls
  "Build-scoped ... Destroyed on rebuild": an input made before an edit is looked up in the
  new build and overrides whatever port has that number there.  `FreshAimTrue` is stated for
  the inputs made since.
- Components: the factor of a `LerpNode` is any number (`build_factory.cpp:172-175`) and
  multiplies without a clamp (`lerp_node.cpp:18`): above 1 it passes its input, above 2 it
  moves away.  An open breaker carries `g_open` (`build_factory.cpp:22`) times its voltage, and
  is heated by it (`azs.cpp:18-28`).
- Workspace: the properties of a node inside an embedded blueprint, open while the blueprint is
  deleted from the root canvas, throw out of the main loop (`editing_host.cpp:490`,
  `properties_window.cpp:216`, which means to "close silently"); Close Tab uses the focused window after freeing it (`main_menu.cpp:34-48`); OK in
  properties or script editor overwrites what was changed elsewhere since they were opened;
  an untitled document that is saved gets no entry in the open tabs, and two documents may
  have one path after it; an empty untitled document counts as pristine although it was
  named, and is replaced in place; undo keys are held back by properties but not by the script
  or inline editors; the extraction preview looks at the root blueprint for any scope
  (`extract_to_blueprint_dialog.h:45-54`).
- Session: a second document that enables SimConnect never joins the shared session, since
  `is_connected()` answers for it (`simvar_provider_host.cpp:75`,
  `simconnect_provider.cpp:63-65`, against `simconnect_coordinator.h:38-39`).
- Editor: a checkpoint that discards the saved version's branch leaves `save_depth_`
  (`editor_model.cpp:122`): after save, undo and edit the title shows no asterisk against
  "filename.blueprint*" if modified (`document.h:51`); renaming does not mark the document dirty (`set_name_dialog.h:77`); edits of
  properties in an embedded scope make two undo entries (`properties_window.cpp:774-775`,
  `editing_host.cpp:331-335`); wire ids of embedded blueprints are not synchronised
  (`document_io.cpp:175-197`); `propagate_inline_change` throws on a no-op
  (`editing_host.cpp:497-511`); a transaction without effect blanks the redo entries
  (`editor_model.cpp:15-60`), as does Delete on a selection that undo left behind;
  an addition that "failed safely" leaves the windows drawn with the node that was rolled
  back (`document_components.cpp:238-242`); a window opened while the simulation runs is
  not in simulation mode (`simulation_bridge.cpp:760`); `remove_orphaned_windows` reads the vector it is
  compacting (`window_manager.h:120-144`), so an external window nested in an orphaned
  one survives a pass; the sub-window pass iterates that vector while a window's canvas
  or its Delete button may change it (`sub_window_renderer.cpp:26-33`,
  `document_input.cpp:7-10`); a deletion rebuilds no other window's scene, where undo and
  redo rebuild all of them (`document_simulation.cpp:108-115`).
- Windows: "stale external window must self-close to avoid split-brain"
  (`window_manager.h:133-137`) does not hold for a nested external window whose parent
  window was closed: the answer then comes from the root document.
- Canvas: Delete does not cancel the gesture in flight (`canvas_input_mouse_up.cpp:353`, against
  `canvas_input.h:241`), and a wire that was being drawn is added without a node at its end,
  since `add_wire` checks nothing (`editor_model.cpp:75`); a double click on a wire takes the
  segment of the widget for an index into the document's points, which may be fewer: a point
  that was in hand while a double click added one is let go, the points of the press are
  written back, the widget keeps the one more, and a double click on its last segment inserts
  past the end (`canvas_input_mouse_up.cpp:304`, `:156`), which is undefined; a routing point is neither previewed (`canvas_input_mouse_drag.cpp:163`) nor moved
  in the scene when it is released (`canvas_input_mouse_up.cpp:141-169`); after Delete in
  mid-gesture the remembered index means another wire (`canvas_input_wires.cpp:123`); a
  release on an alias port that is no longer there deletes the wire (`:165`, `:235`); a
  release outside the canvas leaves the gesture in flight; starting the simulation cancels
  nothing, and what is in flight is committed while it runs (`canvas_input.h:67`); a node
  selected in the inspector during a drag shifts the positions of the others; the embedded
  host does not refuse a wire from a port to itself (`editing_host.cpp`, `add_wire`); the
  node menu uses its node after its own Delete entry removed it (`context_menus.cpp:159-184`).
- SimConnect: of several outputs at one signal only the first is written
  (`simconnect_provider.cpp:305`); a response goes to every provider and each judges it by its own epochs, though
  it answers the request of one of them (`simconnect_coordinator.cpp:169-176`,
  `simconnect_provider.cpp:339`): a document that has just joined ignores values which the bridge
  takes for delivered, until a gap of epochs or the period makes it synchronise; an Int32 input is read as the bits of a float; a write that is lost is never
  sent again; a disabled provider on a shared session keeps sending
  (`simconnect_provider.cpp:63-65`); two inputs naming one variable share the last target
  (`:129`); outputs that start at zero are never written (`:136`); the registration's
  epsilon is never parsed (`an24_bridge.cpp:342`); the table of variables only grows
  (`bridge_protocol.h:62`); the heartbeat is polled with a frame's time and so never fires
  (`simulation_bridge.cpp:492`, `simconnect_provider.cpp:436`); nobody registers again after
  a bridge restart.
- Simulation: a knob's initial position is lost at the first frame when the solver-owned
  commit ran at bootstrap (`knob_switch.cpp:25-31`); releasing a hold button writes 2.0,
  which reads as pressed (`simulation_bridge.cpp:77-80`); two clicks within one frame
  collapse into one; overrides made while paused accumulate.

## Plan

What is left, in the order of its worth:

1. **Elaboration by the JSON path** (`signal_allocation.cpp`, `signal_union_rules.h`): the same
   partition into nets as `Circuit` and `Flattening!Signals`; contextual typing of wires.
2. **Library and codec**: reference cycles, what decoding refuses, encode and decode as inverse.
3. **Algorithms**: layering and crossing reduction, the router, repair, against reference
   definitions.
4. **Generated programs**: order of calls against the scheduler's, once they compile.
5. **PI tuner and heartbeat**: their life cycles.

Runs stay one per question; a weaker property gives way to a deeper one.
