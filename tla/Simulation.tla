---------------------------- MODULE Simulation -----------------------------
(***************************************************************************)
(* The life of one document's simulation: SimulationBridge (start, stop,   *)
(* rebuild after every edit, pause, single step, the frame, and what the   *)
(* user does to the controls on the canvas), the JIT simulator it owns,    *)
(* the push scheduler and the five components of module Circuit.           *)
(*                                                                         *)
(* Signals hold integers: every threshold of these components only tells   *)
(* integers apart.  Left out: providers, the contents shown in windows,    *)
(* and the nodal solver (electrical terminals carry no element here).      *)
(***************************************************************************)
EXTENDS Circuit

CONSTANTS
    NoBuild,     \* build_result_ without a value
    Levels,      \* the values a slider can be dragged to
    MaxPending   \* bound on the inputs made between two frames

ASSUME InputsAssumption == Levels \subseteq Int /\ MaxPending \in Nat

ASSUME NoBuildAssumption == NoBuild \notin [circuit : Circuits,
                                            owned : UNION {OwnedOrders(c) : c \in Circuits}]

BUTTON_HOLD_VALUE == 1
BUTTON_RELEASE_VALUE == 2
Positions == 2   \* KnobSwitch::positions

VARIABLES
    doc,                  \* model.current(), as a circuit
    build,                \* build_result_: NoBuild or [circuit, owned]
    state,                \* state_: [values, part], by net and by node
    running, paused, single_step_pending,
    signal_cache,         \* clickable node -> key id of its control, in the build's interner
    typed_overrides,      \* inputs waiting for the next frame
    held_buttons          \* node -> [key, ...] of the button held down

vars == <<doc, build, state, running, paused, single_step_pending, signal_cache,
          typed_overrides, held_buttons>>
control == <<running, paused, single_step_pending>>
simulation == <<build, state>>

\* An input to the simulation.  port and fresh are history: the port the user
\* meant, and whether the build the key comes from is still there.
Input(key, value, port, fresh) == [key |-> key, value |-> value, port |-> port, fresh |-> fresh]
Aged(input) == Input(input.key, input.value, input.port, FALSE)
AgedInputs == [i \in DOMAIN typed_overrides |-> Aged(typed_overrides[i])]
AgedButtons == [n \in DOMAIN held_buttons |-> Aged(held_buttons[n])]

-----------------------------------------------------------------------------
(* The components.  A part is [pos, last]: pos is closed, is_pressed or      *)
(* selected; last is last_control.  st is a SimulationState of circuit c.    *)

At(c, n, p) == Net[c][<<n, p>>]
Value(c, st, n, p) == st.values[At(c, n, p)]
Put(c, st, n, p, v) == [st EXCEPT !.values[At(c, n, p)] = v]

Execute(c, st, n) ==
    CASE c.kind[n] = "Value"  -> Put(c, st, n, "o", c.param[n])
      [] c.kind[n] = "Slider" -> Put(c, st, n, "out", Value(c, st, n, "control"))
      [] c.kind[n] = "Switch" ->
            Put(c, st, n, "v_out", IF st.part[n].pos = 1 THEN Value(c, st, n, "v_in") ELSE 0)
      [] OTHER -> st

\* Mutant: last_control is not kept.
CommitSwitchForgetful(c, st, n) ==
    LET now == Value(c, st, n, "control")
        closed == IF now # st.part[n].last THEN 1 - st.part[n].pos ELSE st.part[n].pos
    IN Put(c, [st EXCEPT !.part[n].pos = closed], n, "state", closed)

CommitSwitch(c, st, n) ==
    LET now == Value(c, st, n, "control")
        closed == IF now # st.part[n].last THEN 1 - st.part[n].pos ELSE st.part[n].pos
    IN Put(c, [st EXCEPT !.part[n] = [pos |-> closed, last |-> now]], n, "state", closed)

CommitHoldButton(c, st, n) ==
    LET pressed == IF Value(c, st, n, "control") # 0 THEN 1 ELSE 0
    IN Put(c, [st EXCEPT !.part[n].pos = pressed], n, "state", pressed)

Clamp(v) == IF v < 0 THEN 0 ELSE IF v > Positions - 1 THEN Positions - 1 ELSE v

CommitKnobSwitch(c, st, n) ==
    LET now == Value(c, st, n, "control")
        first == st.part[n].last = -1 /\ now = 0
        selected == IF first THEN st.part[n].pos ELSE Clamp(now)
    IN Put(c, [st EXCEPT !.part[n] = [pos |-> selected, last |-> now]], n, "position", selected)

Commit(c, st, n) ==
    CASE c.kind[n] = "Switch"     -> CommitSwitch(c, st, n)
      [] c.kind[n] = "HoldButton" -> CommitHoldButton(c, st, n)
      [] c.kind[n] = "KnobSwitch" -> CommitKnobSwitch(c, st, n)
      [] OTHER -> st

InitialPart(c, n) ==
    CASE c.kind[n] = "Switch"     -> [pos |-> c.param[n], last |-> 0]
      [] c.kind[n] = "KnobSwitch" -> [pos |-> Clamp(c.param[n]), last |-> -1]
      [] OTHER                    -> [pos |-> 0, last |-> 0]

ExecuteAll(c, st, names) ==
    LET run[i \in 0..Len(names)] == IF i = 0 THEN st ELSE Execute(c, run[i - 1], names[i])
    IN run[Len(names)]

CommitAll(c, st, names) ==
    LET run[i \in 0..Len(names)] == IF i = 0 THEN st ELSE Commit(c, run[i - 1], names[i])
    IN run[Len(names)]

-----------------------------------------------------------------------------
(* The simulator.                                                            *)

\* Simulator::start: signals at zero, commits of the solver-owned parts, then
\* the constants.
Started(c, owned) ==
    LET zero == [values |-> [net \in Nets(c) |-> 0],
                 part   |-> [n \in ToSet(c.devices) |-> InitialPart(c, n)]]
    IN ExecuteAll(c, CommitAll(c, zero, owned), DevicesWith(c, "Source"))

\* Mutant: an unknown key makes a signal (operator[] instead of find).
OverrideGrowing(c, st, input) ==
    LET net == IF input.key \in DOMAIN Keys[c] THEN Net[c][Keys[c][input.key]] ELSE 0
    IN [st EXCEPT !.values = [k \in DOMAIN st.values \cup {net} |->
                                 IF k = net THEN input.value ELSE st.values[k]]]

Override(c, st, input) ==
    IF input.key \in DOMAIN Keys[c]
    THEN [st EXCEPT !.values[Net[c][Keys[c][input.key]]] = input.value]
    ELSE st

Overridden(c, st, inputs) ==
    LET run[i \in 0..Len(inputs)] == IF i = 0 THEN st ELSE Override(c, run[i - 1], inputs[i])
    IN run[Len(inputs)]

\* Simulator::step around PushScheduler::step.
Stepped(c, owned, st) ==
    LET scheduled == DevicesWith(c, "Source") \o Consumers[c]
    IN CommitAll(c, CommitAll(c, ExecuteAll(c, st, scheduled), scheduled), owned)

-----------------------------------------------------------------------------
(* The bridge.                                                               *)

ContentType == [Value |-> "None", Switch |-> "Switch", HoldButton |-> "Switch",
                Slider |-> "Slider", KnobSwitch |-> "Knob"]
Content(c, n) == ContentType[c.kind[n]]

NodeSignals(c) ==
    [n \in {m \in ToSet(c.devices) : Content(c, m) # "None"} |-> Lookup(c, <<n, "control">>)]

Nodes == UNION {ToSet(c.devices) : c \in Circuits}

NoState == [values |-> <<>>, part |-> <<>>]

Init ==
    /\ doc \in Circuits
    /\ build = NoBuild /\ state = NoState
    /\ running = FALSE /\ paused = FALSE /\ single_step_pending = FALSE
    /\ signal_cache = <<>>
    /\ typed_overrides = <<>>
    /\ held_buttons = <<>>

\* Mutant: the controls still lead to the signals of the old build.
BuildKeepingCache(c) ==
    /\ c.ok
    /\ \E owned \in OwnedOrders(c) :
        /\ build' = [circuit |-> c, owned |-> owned]
        /\ state' = Started(c, owned)
    /\ signal_cache' = IF signal_cache = <<>> THEN NodeSignals(c)
                       ELSE [n \in DOMAIN NodeSignals(c) |->
                               IF n \in DOMAIN signal_cache THEN signal_cache[n] ELSE NodeSignals(c)[n]]
    /\ typed_overrides' = AgedInputs
    /\ held_buttons' = AgedButtons

\* simulation.start and build_signal_cache of a circuit that builds.
Build(c) ==
    /\ c.ok
    /\ \E owned \in OwnedOrders(c) :
        /\ build' = [circuit |-> c, owned |-> owned]
        /\ state' = Started(c, owned)
    /\ signal_cache' = NodeSignals(c)
    /\ typed_overrides' = AgedInputs
    /\ held_buttons' = AgedButtons

Start ==
    /\ ~running
    /\ \/ /\ Build(doc)
          /\ running' = TRUE /\ paused' = FALSE /\ single_step_pending' = FALSE
       \/ /\ ~doc.ok
          /\ build' = NoBuild /\ state' = NoState
          /\ UNCHANGED <<control, signal_cache, typed_overrides, held_buttons>>
    /\ UNCHANGED doc

Stop ==
    /\ build' = NoBuild /\ state' = NoState
    /\ signal_cache' = <<>>
    /\ typed_overrides' = <<>>
    /\ held_buttons' = <<>>
    /\ running' = FALSE /\ paused' = FALSE /\ single_step_pending' = FALSE
    /\ UNCHANGED doc

\* Mutant: a paused simulation is not rebuilt.
RebuildUnlessPaused(c) ==
    \/ /\ running /\ ~paused
       /\ Build(c)
       /\ UNCHANGED control
    \/ /\ ~running \/ paused
       /\ UNCHANGED <<simulation, control, signal_cache, typed_overrides, held_buttons>>

\* What is pending and what is held survive a rebuild, as does the pause.
Rebuild(c) ==
    \/ /\ running
       /\ Build(c)
       /\ UNCHANGED control
    \/ /\ running /\ ~c.ok
       /\ build' = NoBuild /\ state' = NoState
       /\ signal_cache' = <<>>
       /\ running' = FALSE
       /\ UNCHANGED <<paused, single_step_pending, typed_overrides, held_buttons>>
    \/ /\ ~running
       /\ UNCHANGED <<simulation, control, signal_cache, typed_overrides, held_buttons>>

\* Any change of the document, undo and redo included, ends in rebuildSimulation.
Edit(c) ==
    /\ c # doc
    /\ doc' = c
    /\ Rebuild(c)

Pause ==
    /\ running
    /\ paused' = TRUE
    /\ UNCHANGED <<doc, simulation, running, single_step_pending, signal_cache, typed_overrides, held_buttons>>

Resume ==
    /\ paused' = FALSE
    /\ single_step_pending' = FALSE
    /\ UNCHANGED <<doc, simulation, running, signal_cache, typed_overrides, held_buttons>>

SingleStep ==
    /\ running /\ paused
    /\ single_step_pending' = TRUE
    /\ UNCHANGED <<doc, simulation, running, paused, signal_cache, typed_overrides, held_buttons>>

\* The held buttons' entries, in the order of a hash map.
HeldInputs == {[i \in DOMAIN order |-> held_buttons[order[i]]] : order \in SetToSeqs(DOMAIN held_buttons)}

\* Mutant: the held buttons come after the other inputs.
FrameHeldLast(held) ==
    Stepped(build.circuit, build.owned, Overridden(build.circuit, state, typed_overrides \o held))

Frame(held) ==
    Stepped(build.circuit, build.owned, Overridden(build.circuit, state, held \o typed_overrides))

Step ==
    /\ running
    /\ paused => single_step_pending
    /\ single_step_pending' = FALSE
    /\ \E held \in HeldInputs : state' = Frame(held)
    /\ typed_overrides' = <<>>
    /\ UNCHANGED <<doc, build, running, paused, signal_cache, held_buttons>>

-----------------------------------------------------------------------------
(* The user at the controls.                                                 *)

Clickable(content) == {n \in DOMAIN signal_cache : Content(doc, n) = content}
Room == Len(typed_overrides) < MaxPending
Push(n, value) ==
    typed_overrides' = Append(typed_overrides, Input(signal_cache[n], value, <<n, "control">>, TRUE))

TriggerSwitch(n) ==
    /\ Room
    /\ n \in Clickable("Switch")
    /\ Push(n, IF Value(build.circuit, state, n, "control") < 1 THEN 1 ELSE 0)
    /\ UNCHANGED <<doc, simulation, control, signal_cache, held_buttons>>

SetSliderValue(n, v) ==
    /\ Room
    /\ n \in Clickable("Slider")
    /\ Push(n, v)
    /\ UNCHANGED <<doc, simulation, control, signal_cache, held_buttons>>

SetKnobPosition(n, position) ==
    /\ Room
    /\ n \in Clickable("Knob")
    /\ Push(n, position)
    /\ UNCHANGED <<doc, simulation, control, signal_cache, held_buttons>>

HoldButtonPress(n) ==
    /\ n \in Clickable("Switch")
    /\ held_buttons' = [m \in DOMAIN held_buttons \cup {n} |->
            IF m = n THEN Input(signal_cache[n], BUTTON_HOLD_VALUE, <<n, "control">>, TRUE)
            ELSE held_buttons[m]]
    /\ UNCHANGED <<doc, simulation, control, signal_cache, typed_overrides>>

HoldButtonRelease(n) ==
    /\ Room
    /\ n \in DOMAIN held_buttons
    /\ LET held == held_buttons[n]
       IN typed_overrides' = Append(typed_overrides,
                                    Input(held.key, BUTTON_RELEASE_VALUE, held.port, held.fresh))
    /\ held_buttons' = [m \in DOMAIN held_buttons \ {n} |-> held_buttons[m]]
    /\ UNCHANGED <<doc, simulation, control, signal_cache>>

Next ==
    \/ Start \/ Stop \/ Pause \/ Resume \/ SingleStep \/ Step
    \/ \E c \in Circuits : Edit(c)
    \/ \E n \in Nodes :
        \/ TriggerSwitch(n)
        \/ \E v \in Levels : SetSliderValue(n, v)
        \/ \E p \in 0..Positions - 1 : SetKnobPosition(n, p)
        \/ HoldButtonPress(n)
        \/ HoldButtonRelease(n)

Spec == Init /\ [][Next]_vars
-----------------------------------------------------------------------------
(* Properties.                                                               *)

Inputs == [key   : {Lookup(c, <<n, "control">>) : c \in Circuits, n \in Nodes},
           value : Levels \cup 0..2, port : Nodes \X {"control"}, fresh : BOOLEAN]

StateOf(c) ==
    [values : [Nets(c) -> Int], part : [ToSet(c.devices) -> [pos : Int, last : Int]]]

TypeOK ==
    /\ doc \in Circuits
    /\ \/ build = NoBuild /\ state = NoState
       \/ /\ build.circuit \in Circuits
          /\ build.owned \in OwnedOrders(build.circuit)
          /\ state \in StateOf(build.circuit)
    /\ {running, paused, single_step_pending} \subseteq BOOLEAN
    /\ DOMAIN signal_cache \subseteq Nodes
    /\ typed_overrides \in Seq(Inputs)
    /\ Len(typed_overrides) <= MaxPending
    /\ DOMAIN held_buttons \subseteq Nodes
    /\ \A n \in DOMAIN held_buttons : held_buttons[n] \in Inputs

\* The simulation that runs is a build of the document as it is, the controls
\* on the canvas lead to its signals, and a stopped bridge holds nothing of an
\* old build: after any sequence of edits, failed rebuilds, stops and restarts.
RunsWhatIsShown ==
    IF running THEN build # NoBuild /\ build.circuit = doc /\ signal_cache = NodeSignals(doc)
               ELSE build = NoBuild /\ signal_cache = <<>>

Pending == ToSet(typed_overrides) \cup {held_buttons[n] : n \in DOMAIN held_buttons}

\* An input made since the last build has the id of its port in that build; only
\* those made before it can go astray: their ids outlive the interner they are from.
FreshAimTrue ==
    running => \A input \in Pending :
        input.fresh => input.key = Lookup(build.circuit, input.port)

AllFresh == \A input \in Pending : input.fresh
IsClick(input) == Content(build.circuit, input.port[1]) = "Switch" /\ input.value < 2
Aim(input) == Net[build.circuit][input.port]
Held(net) == \E n \in DOMAIN held_buttons : Aim(held_buttons[n]) = net
Driven(c) == UNION {Writes(c, n) : n \in ToSet(c.devices)}

\* On a net no component writes, the user has the last word: the latest input
\* made for it since the last frame, in preference to a button that is held
\* down; without any, the frame leaves it alone (step, apply_typed_overrides).
LastWordWins ==
    [][(Step /\ AllFresh) =>
        \A net \in Nets(build.circuit) \ Driven(build.circuit) :
            LET inputs == {i \in DOMAIN typed_overrides : Aim(typed_overrides[i]) = net}
            IN state'.values[net] = IF inputs # {} THEN typed_overrides[Max(inputs)].value
                                  ELSE IF Held(net) THEN BUTTON_HOLD_VALUE
                                  ELSE state.values[net]]_vars

\* A switch moves in a frame exactly when it was clicked since the last one,
\* once or several times, whatever else was operated (trigger_switch turns the
\* control over, Switch::commit looks for a change).  Nothing but clicks may have
\* been aimed at the net of its control: no held or released button, no slider.
SwitchObeysClicks ==
    [][(Step /\ AllFresh) =>
        \A n \in {m \in ToSet(build.circuit.devices) : build.circuit.kind[m] = "Switch"} :
            LET net == At(build.circuit, n, "control")
                inputs == {i \in DOMAIN typed_overrides : Aim(typed_overrides[i]) = net}
            IN (/\ net \notin Driven(build.circuit)
                /\ ~Held(net)
                /\ \A i \in inputs : IsClick(typed_overrides[i]))
               => (state'.part[n].pos # state.part[n].pos <=> inputs # {})]_vars

\* What a consumer passes on, and the port it passes it on to.
In(c, n) == At(c, n, IF c.kind[n] = "Slider" THEN "control" ELSE "v_in")
Out(c, n) == At(c, n, IF c.kind[n] = "Slider" THEN "out" ELSE "v_out")

\* The nets that commits write, after everything was executed.
Late(c) == UNION {{At(c, n, p) : p \in OutputPorts[c.kind[n]] \cap {"state", "position"}} :
                     n \in ToSet(c.devices)}

\* One frame is enough to carry a value through any chain of components that
\* is not part of a loop, whatever their order in the document: the scheduler
\* runs writers before readers (topological_sort_consumers).
FrameSettles ==
    [][Step =>
        LET c == build.circuit
        IN \A n \in ToSet(Consumers[c]) \ OnOrBehindCycle(c) :
            (/\ \A m \in ToSet(c.devices) \ {n} : Out(c, n) \notin Writes(c, m)
             /\ {In(c, n), Out(c, n)} \cap Late(c) = {})
            => state'.values[Out(c, n)] = IF c.kind[n] = "Slider" \/ state.part[n].pos = 1
                                         THEN state'.values[In(c, n)] ELSE 0]_vars
=============================================================================
