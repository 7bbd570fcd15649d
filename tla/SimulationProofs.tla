------------------------- MODULE SimulationProofs --------------------------
(***************************************************************************)
(* What holds of every document's simulation, for all circuits and any     *)
(* number of inputs between two frames: what runs is what the editor       *)
(* shows, an input made since the last build finds its port, the scheduler *)
(* runs writers before readers, and a frame does to the signals and the    *)
(* switches what the user and the wires ask for.                           *)
(***************************************************************************)
EXTENDS Simulation, Iteration, FiniteSetTheorems

\* What the two properties need to be inductive: the inputs are records of the
\* right shape, so that ageing one keeps its key and its port.
IInv ==
    /\ doc \in Circuits
    /\ running \in BOOLEAN
    /\ typed_overrides \in Seq(Inputs)
    /\ \A n \in DOMAIN held_buttons : held_buttons[n] \in Inputs
    /\ RunsWhatIsShown
    /\ FreshAimTrue

-----------------------------------------------------------------------------
\* The empty sequence is an empty function too.
LEMMA EmptyIsEmpty == <<>> \in Seq(Inputs) /\ DOMAIN <<>> = {}
  OBVIOUS

\* Ageing an input leaves an input, and a stale one.
LEMMA AgedInput ==
    ASSUME NEW input \in Inputs
    PROVE  Aged(input) \in Inputs /\ Aged(input).fresh = FALSE
  BY DEF Aged, Input, Inputs

\* A build leaves nothing fresh pending or held.
LEMMA BuildAges ==
    ASSUME IInv, AgedInputs = typed_overrides', AgedButtons = held_buttons'
    PROVE  /\ typed_overrides' \in Seq(Inputs)
           /\ \A n \in DOMAIN held_buttons' : held_buttons'[n] \in Inputs
           /\ \A input \in Pending' : input.fresh = FALSE
  <1>1. \A i \in DOMAIN typed_overrides : typed_overrides[i] \in Inputs
    BY DEF IInv
  <1>2. /\ DOMAIN typed_overrides' = DOMAIN typed_overrides
        /\ \A i \in DOMAIN typed_overrides : typed_overrides'[i] = Aged(typed_overrides[i])
    BY DEF AgedInputs
  <1>3. /\ DOMAIN held_buttons' = DOMAIN held_buttons
        /\ \A n \in DOMAIN held_buttons : held_buttons'[n] = Aged(held_buttons[n])
    BY DEF AgedButtons
  <1>4. typed_overrides' \in Seq(Inputs)
    <2>1. DOMAIN typed_overrides = 1..Len(typed_overrides) /\ Len(typed_overrides) \in Nat
      BY DEF IInv
    <2>2. \A i \in DOMAIN typed_overrides : Aged(typed_overrides[i]) \in Inputs
      BY <1>1, AgedInput
    <2>3. typed_overrides' = [i \in 1..Len(typed_overrides) |-> Aged(typed_overrides[i])]
      BY <2>1 DEF AgedInputs
    <2> HIDE DEF Inputs
    <2> QED BY <2>1, <2>2, <2>3
  <1>5. \A n \in DOMAIN held_buttons' : held_buttons'[n] \in Inputs
    BY <1>3, AgedInput DEF IInv
  <1>6. \A input \in Pending' : input.fresh = FALSE
    <2> SUFFICES ASSUME NEW input \in Pending' PROVE input.fresh = FALSE
      OBVIOUS
    <2>1. CASE \E i \in DOMAIN typed_overrides' : input = typed_overrides'[i]
      BY <2>1, <1>1, <1>2, AgedInput
    <2>2. CASE \E n \in DOMAIN held_buttons' : input = held_buttons'[n]
      BY <2>2, <1>3, AgedInput DEF IInv
    <2> QED BY <2>1, <2>2 DEF Pending, ToSet
  <1> QED BY <1>4, <1>5, <1>6

\* The clickable nodes of a circuit are among its devices and lead to the ids
\* of their controls.
LEMMA NodeSignalsLead ==
    ASSUME NEW c \in Circuits, NEW n \in DOMAIN NodeSignals(c)
    PROVE  n \in Nodes /\ NodeSignals(c)[n] = Lookup(c, <<n, "control">>)
  BY DEF NodeSignals, Nodes

\* What is built is a build.
LEMMA BuildIsBuild ==
    ASSUME NEW c \in Circuits, Build(c)
    PROVE  build' # NoBuild /\ build'.circuit = c
  <1>1. PICK owned \in OwnedOrders(c) : build' = [circuit |-> c, owned |-> owned]
    BY DEF Build
  <1>2. build' \in [circuit : Circuits, owned : UNION {OwnedOrders(d) : d \in Circuits}]
    BY <1>1
  <1> QED BY <1>1, <1>2, NoBuildAssumption

\* Only a running simulation has clickable nodes; an input made on one of them
\* has the id of its port.
LEMMA ClickIsInput ==
    ASSUME IInv, NEW n \in DOMAIN signal_cache, NEW value \in Levels \cup 0..2
    PROVE  LET input == Input(signal_cache[n], value, <<n, "control">>, TRUE)
           IN /\ running
              /\ input \in Inputs
              /\ input.key = Lookup(build.circuit, input.port)
  <1>1. running
    <2> SUFFICES ASSUME ~running PROVE FALSE
      OBVIOUS
    <2>1. signal_cache = <<>>
      BY DEF IInv, RunsWhatIsShown
    <2> QED BY <2>1
  <1>2. signal_cache = NodeSignals(doc) /\ build.circuit = doc /\ doc \in Circuits
    BY <1>1 DEF IInv, RunsWhatIsShown
  <1>3. n \in Nodes /\ signal_cache[n] = Lookup(doc, <<n, "control">>)
    BY <1>2, NodeSignalsLead
  <1> QED BY <1>1, <1>2, <1>3 DEF Input, Inputs

\* An input appended to what is pending is the only one that was not there.
LEMMA PushPends ==
    ASSUME IInv, NEW input \in Inputs, typed_overrides' = Append(typed_overrides, input)
    PROVE  /\ typed_overrides' \in Seq(Inputs)
           /\ ToSet(typed_overrides') = ToSet(typed_overrides) \cup {input}
  <1>1. typed_overrides \in Seq(Inputs)
    BY DEF IInv
  <1>2. typed_overrides' \in Seq(Inputs)
    BY <1>1
  <1>3. /\ Len(typed_overrides') = Len(typed_overrides) + 1
        /\ \A i \in 1..Len(typed_overrides) : typed_overrides'[i] = typed_overrides[i]
        /\ typed_overrides'[Len(typed_overrides) + 1] = input
        /\ Len(typed_overrides) \in Nat
        /\ DOMAIN typed_overrides = 1..Len(typed_overrides)
        /\ DOMAIN typed_overrides' = 1..(Len(typed_overrides) + 1)
    BY <1>1
  <1> QED BY <1>2, <1>3 DEF ToSet

-----------------------------------------------------------------------------
\* An input that is pushed keeps the invariant when it finds its port.
LEMMA PushPreserves ==
    ASSUME IInv, UNCHANGED <<doc, simulation, control, signal_cache>>,
           NEW input \in Inputs, typed_overrides' = Append(typed_overrides, input),
           running /\ input.fresh => input.key = Lookup(build.circuit, input.port),
           \A n \in DOMAIN held_buttons' : n \in DOMAIN held_buttons /\ held_buttons'[n] = held_buttons[n]
    PROVE  IInv'
  <1>1. /\ typed_overrides' \in Seq(Inputs)
        /\ ToSet(typed_overrides') = ToSet(typed_overrides) \cup {input}
    BY PushPends
  <1>2. doc \in Circuits /\ running \in BOOLEAN /\ RunsWhatIsShown /\ FreshAimTrue
    BY DEF IInv
  <1>3. RunsWhatIsShown'
    BY <1>2 DEF RunsWhatIsShown, simulation, control
  <1>4. Pending' \subseteq Pending \cup {input}
    BY <1>1 DEF Pending
  <1>5. FreshAimTrue'
    BY <1>2, <1>4 DEF FreshAimTrue, simulation, control
  <1>6. \A n \in DOMAIN held_buttons' : held_buttons'[n] \in Inputs
    BY DEF IInv
  <1> QED BY <1>1, <1>2, <1>3, <1>5, <1>6 DEF IInv, control

\* A step that builds, or takes the build away, keeps the invariant.
LEMMA BuildPreserves ==
    ASSUME IInv, NEW c \in Circuits, doc' = c, Build(c), running'
    PROVE  IInv'
  <1>1. build' # NoBuild /\ build'.circuit = c
    BY BuildIsBuild
  <1>2. RunsWhatIsShown'
    BY <1>1 DEF RunsWhatIsShown, Build
  <1>3. /\ typed_overrides' \in Seq(Inputs)
        /\ \A n \in DOMAIN held_buttons' : held_buttons'[n] \in Inputs
        /\ \A input \in Pending' : input.fresh = FALSE
    BY BuildAges DEF Build
  <1> QED BY <1>2, <1>3 DEF IInv, FreshAimTrue

\* A step that leaves no simulation keeps the invariant, if it adds no input.
LEMMA NoBuildPreserves ==
    ASSUME IInv, doc' \in Circuits, build' = NoBuild, signal_cache' = <<>>, running' = FALSE,
           typed_overrides' = typed_overrides \/ typed_overrides' = <<>>,
           held_buttons' = held_buttons \/ held_buttons' = <<>>
    PROVE  IInv'
  <1>1. typed_overrides' \in Seq(Inputs)
    BY EmptyIsEmpty DEF IInv
  <1>2. \A n \in DOMAIN held_buttons' : held_buttons'[n] \in Inputs
    BY EmptyIsEmpty DEF IInv
  <1> QED BY <1>1, <1>2 DEF IInv, RunsWhatIsShown, FreshAimTrue

\* A step that changes neither the document nor the build keeps it too, if it
\* adds no input.
LEMMA QuietPreserves ==
    ASSUME IInv, UNCHANGED <<doc, build, running, signal_cache, held_buttons>>,
           typed_overrides' = typed_overrides \/ typed_overrides' = <<>>
    PROVE  IInv'
  <1>1. typed_overrides' \in Seq(Inputs)
    BY EmptyIsEmpty DEF IInv
  <1>2. ToSet(typed_overrides') \subseteq ToSet(typed_overrides)
    <2>1. CASE typed_overrides' = typed_overrides
      BY <2>1
    <2>2. CASE typed_overrides' = <<>>
      BY <2>2, EmptyIsEmpty DEF ToSet
    <2> QED BY <2>1, <2>2
  <1>3. Pending' \subseteq Pending
    BY <1>2 DEF Pending
  <1> QED BY <1>1, <1>3 DEF IInv, RunsWhatIsShown, FreshAimTrue

-----------------------------------------------------------------------------
\* Every step of the bridge keeps the invariant.
LEMMA IInvInductive == IInv /\ [Next]_vars => IInv'
  <1> SUFFICES ASSUME IInv, [Next]_vars PROVE IInv'
    OBVIOUS
  <1>1. ASSUME Start PROVE IInv'
    <2>1. CASE Build(doc) /\ running'
      BY <1>1, <2>1, BuildPreserves DEF Start, IInv
    <2>2. CASE build' = NoBuild /\ UNCHANGED <<control, signal_cache, typed_overrides, held_buttons>>
      BY <1>1, <2>2, NoBuildPreserves DEF Start, IInv, RunsWhatIsShown, control
    <2> QED BY <1>1, <2>1, <2>2 DEF Start
  <1>2. ASSUME Stop PROVE IInv'
    BY <1>2, NoBuildPreserves DEF Stop, IInv
  <1>3. ASSUME NEW c \in Circuits, Edit(c) PROVE IInv'
    <2>1. doc' = c
      BY <1>3 DEF Edit
    <2>2. CASE running /\ Build(c) /\ UNCHANGED control
      BY <2>1, <2>2, BuildPreserves DEF control
    <2>3. CASE /\ build' = NoBuild /\ signal_cache' = <<>> /\ running' = FALSE
               /\ UNCHANGED <<typed_overrides, held_buttons>>
      BY <2>1, <2>3, NoBuildPreserves
    <2>4. CASE /\ ~running
               /\ UNCHANGED <<simulation, control, signal_cache, typed_overrides, held_buttons>>
      <3>1. build = NoBuild /\ signal_cache = <<>> /\ running = FALSE
        BY <2>4 DEF IInv, RunsWhatIsShown
      <3> QED BY <2>1, <2>4, <3>1, NoBuildPreserves DEF control, simulation
    <2> QED BY <1>3, <2>2, <2>3, <2>4 DEF Edit, Rebuild
  <1>4. ASSUME Pause \/ Resume \/ SingleStep \/ Step PROVE IInv'
    BY <1>4, QuietPreserves DEF Pause, Resume, SingleStep, Step, simulation
  <1>5. ASSUME NEW n \in Nodes, TriggerSwitch(n) PROVE IInv'
    <2> DEFINE v == IF Value(build.circuit, state, n, "control") < 1 THEN 1 ELSE 0
               input == Input(signal_cache[n], v, <<n, "control">>, TRUE)
    <2>1. n \in DOMAIN signal_cache /\ v \in Levels \cup 0..2
      BY <1>5 DEF TriggerSwitch, Clickable
    <2>2. input \in Inputs /\ input.key = Lookup(build.circuit, input.port)
      BY <2>1, ClickIsInput
    <2>3. typed_overrides' = Append(typed_overrides, input)
      BY <1>5 DEF TriggerSwitch, Push
    <2> HIDE DEF input
    <2> QED BY <1>5, <2>2, <2>3, PushPreserves DEF TriggerSwitch
  <1>6. ASSUME NEW n \in Nodes, NEW v \in Levels \cup 0..2,
               SetSliderValue(n, v) \/ SetKnobPosition(n, v) PROVE IInv'
    <2> DEFINE input == Input(signal_cache[n], v, <<n, "control">>, TRUE)
    <2>1. n \in DOMAIN signal_cache
      BY <1>6 DEF SetSliderValue, SetKnobPosition, Clickable
    <2>2. input \in Inputs /\ input.key = Lookup(build.circuit, input.port)
      BY <2>1, ClickIsInput
    <2>3. typed_overrides' = Append(typed_overrides, input)
      BY <1>6 DEF SetSliderValue, SetKnobPosition, Push
    <2> HIDE DEF input
    <2> QED BY <1>6, <2>2, <2>3, PushPreserves DEF SetSliderValue, SetKnobPosition
  <1>7. ASSUME NEW n \in Nodes, HoldButtonPress(n) PROVE IInv'
    <2> DEFINE input == Input(signal_cache[n], BUTTON_HOLD_VALUE, <<n, "control">>, TRUE)
    <2>1. n \in DOMAIN signal_cache /\ BUTTON_HOLD_VALUE \in Levels \cup 0..2
      BY <1>7 DEF HoldButtonPress, Clickable, BUTTON_HOLD_VALUE
    <2>2. input \in Inputs /\ input.key = Lookup(build.circuit, input.port)
      BY <2>1, ClickIsInput
    <2>3. held_buttons' = [m \in DOMAIN held_buttons \cup {n} |-> IF m = n THEN input ELSE held_buttons[m]]
      BY <1>7 DEF HoldButtonPress
    <2> HIDE DEF input
    <2>4. \A m \in DOMAIN held_buttons' : held_buttons'[m] \in Inputs
      BY <2>2, <2>3 DEF IInv
    <2>5. Pending' \subseteq Pending \cup {input}
      BY <1>7, <2>3 DEF Pending, HoldButtonPress
    <2> QED BY <1>7, <2>2, <2>4, <2>5
            DEF HoldButtonPress, IInv, RunsWhatIsShown, FreshAimTrue, simulation, control
  <1>8. ASSUME NEW n \in Nodes, HoldButtonRelease(n) PROVE IInv'
    <2> DEFINE held == held_buttons[n]
               input == Input(held.key, BUTTON_RELEASE_VALUE, held.port, held.fresh)
    <2>1. held \in Inputs /\ held \in Pending
      BY <1>8 DEF HoldButtonRelease, IInv, Pending
    <2>2. input \in Inputs
      BY <2>1 DEF Input, Inputs, BUTTON_RELEASE_VALUE
    <2>3. running /\ input.fresh => input.key = Lookup(build.circuit, input.port)
      BY <2>1 DEF Input, IInv, FreshAimTrue
    <2>4. typed_overrides' = Append(typed_overrides, input)
      BY <1>8 DEF HoldButtonRelease
    <2>5. \A m \in DOMAIN held_buttons' : m \in DOMAIN held_buttons /\ held_buttons'[m] = held_buttons[m]
      BY <1>8 DEF HoldButtonRelease
    <2> HIDE DEF input
    <2> QED BY <1>8, <2>2, <2>3, <2>4, <2>5, PushPreserves DEF HoldButtonRelease
  <1>9. ASSUME UNCHANGED vars PROVE IInv'
    BY <1>9, QuietPreserves DEF vars
  <1> QED
    <2>1. ASSUME NEW p \in 0..Positions - 1 PROVE p \in Levels \cup 0..2
      BY DEF Positions
    <2> QED BY <1>1, <1>2, <1>3, <1>4, <1>5, <1>6, <1>7, <1>8, <1>9, <2>1 DEF Next

\* Nothing is built and nothing is pending when a document is opened.
LEMMA IInvInitially == Init => IInv
  BY EmptyIsEmpty DEF Init, IInv, RunsWhatIsShown, FreshAimTrue

-----------------------------------------------------------------------------
\* The running simulation is the build of the document the editor shows, and a
\* stopped one leaves nothing behind: for all circuits, after any sequence of
\* edits, failed rebuilds, stops and restarts.
THEOREM RunsTheDocument == Spec => []RunsWhatIsShown
  <1>1. IInv => RunsWhatIsShown
    BY DEF IInv
  <1> QED BY IInvInitially, IInvInductive, <1>1, PTL DEF Spec

\* For all circuits, what the user did since the last build reaches the port it
\* was done to.
THEOREM FreshInputsAimTrue == Spec => []FreshAimTrue
  <1>1. IInv => FreshAimTrue
    BY DEF IInv
  <1> QED BY IInvInitially, IInvInductive, <1>1, PTL DEF Spec

-----------------------------------------------------------------------------
(* Lists of devices, ports and keys.                                         *)

\* What a list of lists holds in a row.
LEMMA FlattenFacts ==
    ASSUME NEW V, NEW ss \in Seq(Seq(V))
    PROVE  /\ FlattenSeq(ss) \in Seq(V)
           /\ ToSet(FlattenSeq(ss)) = UNION {ToSet(ss[i]) : i \in DOMAIN ss}
  <1> DEFINE list == FlattenSeq(ss)
  <1>1. list \in Seq(V) /\ \E at : Spots(list, ss, at)
    BY FlattenPlaces
  <1> HIDE DEF list
  <1>2. PICK at : Spots(list, ss, at)
    BY <1>1
  <1>3. ASSUME NEW k \in DOMAIN list PROVE list[k] \in UNION {ToSet(ss[i]) : i \in DOMAIN ss}
    <2>1. PICK j \in DOMAIN ss : \E i \in DOMAIN ss[j] : k = at[j] + i
      BY <1>2 DEF Spots
    <2>2. \E i \in DOMAIN ss[j] : list[k] = ss[j][i]
      BY <1>2, <2>1 DEF Spots
    <2>3. list[k] \in ToSet(ss[j])
      BY <2>2 DEF ToSet
    <2> QED BY <2>3
  <1>4. ASSUME NEW j \in DOMAIN ss, NEW i \in DOMAIN ss[j] PROVE ss[j][i] \in ToSet(list)
    <2>1. at[j] + i \in DOMAIN list /\ list[at[j] + i] = ss[j][i]
      BY <1>2 DEF Spots
    <2> QED BY <2>1 DEF ToSet
  <1>5. ToSet(list) = UNION {ToSet(ss[i]) : i \in DOMAIN ss}
    BY <1>3, <1>4 DEF ToSet
  <1> QED BY <1>1, <1>5 DEF list

\* The keys of a build are the ports of its circuit.
LEMMA KeysFacts ==
    ASSUME NEW c \in Circuits
    PROVE  Keys[c] \in Seq(Ports(c)) /\ ToSet(Keys[c]) = Ports(c)
  <1> DEFINE names(n) == PortNames[c.kind[n]]
             keys(n) == [j \in DOMAIN names(n) |-> <<n, names(n)[j]>>]
             ss == [i \in DOMAIN c.devices |-> keys(c.devices[i])]
  <1>1. /\ c.devices \in Seq(ToSet(c.devices))
        /\ c.kind \in [ToSet(c.devices) -> DOMAIN PortNames]
    BY CircuitsAssumption
  <1>2. \A k \in DOMAIN PortNames : \E m \in Nat : DOMAIN PortNames[k] = 1..m
    <2> TAKE k \in DOMAIN PortNames
    <2>1. k \in {"Value", "Switch", "Slider", "HoldButton", "KnobSwitch"}
      BY DEF PortNames
    <2>2. /\ k = "Value" => DOMAIN PortNames[k] = 1..1
          /\ k = "Slider" => DOMAIN PortNames[k] = 1..2
          /\ k = "Switch" => DOMAIN PortNames[k] = 1..4
          /\ k = "HoldButton" => DOMAIN PortNames[k] = 1..4
          /\ k = "KnobSwitch" => DOMAIN PortNames[k] = 1..8
      BY DEF PortNames
    <2> QED BY <2>1, <2>2
  <1>3. ASSUME NEW n \in ToSet(c.devices)
        PROVE  keys(n) \in Seq(Ports(c)) /\ ToSet(keys(n)) = {<<n, p>> : p \in ToSet(names(n))}
    <2> HIDE DEF names
    <2>1. PICK m \in Nat : DOMAIN names(n) = 1..m
      BY <1>1, <1>2 DEF names
    <2>2. \A j \in 1..m : names(n)[j] \in ToSet(names(n))
      BY <2>1 DEF ToSet
    <2>3. \A p \in ToSet(names(n)) : <<n, p>> \in Ports(c)
      BY DEF Ports, names
    <2>4. ToSet(keys(n)) = {<<n, p>> : p \in ToSet(names(n))}
      BY DEF ToSet
    <2> QED BY <2>1, <2>2, <2>3, <2>4
  <1> HIDE DEF keys
  <1>4. Len(c.devices) \in Nat /\ DOMAIN c.devices = 1..Len(c.devices)
        /\ \A i \in DOMAIN c.devices : c.devices[i] \in ToSet(c.devices)
    BY <1>1
  <1>5. ss \in Seq(Seq(Ports(c))) /\ DOMAIN ss = DOMAIN c.devices
    BY <1>3, <1>4
  <1>6. Keys[c] = FlattenSeq(ss)
    BY DEF Keys, KeysOf, keys
  <1> HIDE DEF ss
  <1>7. FlattenSeq(ss) \in Seq(Ports(c)) /\ ToSet(FlattenSeq(ss)) = UNION {ToSet(ss[i]) : i \in DOMAIN ss}
    BY <1>5, FlattenFacts
  <1>8. UNION {ToSet(ss[i]) : i \in DOMAIN ss} = UNION {ToSet(keys(n)) : n \in ToSet(c.devices)}
    <2>1. ToSet(c.devices) = {c.devices[i] : i \in DOMAIN c.devices}
      BY DEF ToSet
    <2>2. \A i \in DOMAIN c.devices : ss[i] = keys(c.devices[i])
      BY DEF ss
    <2> QED BY <1>5, <2>1, <2>2
  <1>9. UNION {ToSet(keys(n)) : n \in ToSet(c.devices)} = Ports(c)
    <2>1. \A n \in ToSet(c.devices) : ToSet(keys(n)) = {<<n, p>> : p \in ToSet(PortNames[c.kind[n]])}
      BY <1>3 DEF names
    <2> QED BY <2>1 DEF Ports
  <1> QED BY <1>6, <1>7, <1>8, <1>9

\* The id of a port leads back to the port.
LEMMA LookupFacts ==
    ASSUME NEW c \in Circuits, NEW port \in Ports(c)
    PROVE  Lookup(c, port) \in DOMAIN Keys[c] /\ Keys[c][Lookup(c, port)] = port
  <1> DEFINE I == {i \in 1..Len(Keys[c]) : Keys[c][i] = port}
  <1>1. Keys[c] \in Seq(Ports(c)) /\ ToSet(Keys[c]) = Ports(c)
    BY KeysFacts
  <1>2. DOMAIN Keys[c] = 1..Len(Keys[c])
    BY <1>1
  <1>3. I \subseteq Nat /\ I # {}
    BY <1>1, <1>2 DEF ToSet
  <1>4. Lookup(c, port) = Min(I)
    BY <1>3 DEF Lookup, SelectInSeq
  <1> HIDE DEF I
  <1>5. Min(I) \in I
    BY <1>3, MinFacts
  <1> QED BY <1>2, <1>4, <1>5 DEF I

\* What a wire does to the nets: the ports on the net of its second end join the first.
Merged(net, wire) == [p \in DOMAIN net |-> IF net[p] = net[wire[2]] THEN net[wire[1]] ELSE net[p]]

\* The nets come from merging ports that are alone, one wire at a time.
LEMMA NetRuns ==
    ASSUME NEW c \in Circuits, c.ok
    PROVE  \E run : /\ run[0] = [p \in Ports(c) |-> Lookup(c, p)]
                    /\ \A i \in 1..Len(c.wires) : run[i] = Merged(run[i - 1], c.wires[i])
                    /\ \A i \in 0..Len(c.wires) : run[i] \in [Ports(c) -> Nat]
                    /\ Net[c] = run[Len(c.wires)]
  <1> DEFINE n == Len(c.wires)
             W == [Ports(c) -> Nat]
             alone == [p \in ToSet(Keys[c]) |-> Lookup(c, p)]
             merge(i, net) == Merged(net, c.wires[i])
             P(f) == f = [i \in 0..n |-> IF i = 0 THEN alone ELSE merge(i, f[i - 1])]
             D == [i \in 1..n |-> [x \in W |-> merge(i, x)]]
             F == CHOOSE f : P(f)
  <1>1. c.wires \in Seq(Ports(c) \X Ports(c))
    BY CircuitsAssumption
  <1>2. n \in Nat /\ \A i \in 1..n : c.wires[i][1] \in Ports(c) /\ c.wires[i][2] \in Ports(c)
    BY <1>1
  <1>3. alone \in W
    <2>1. \A p \in Ports(c) : Lookup(c, p) \in Nat
      BY KeysFacts, LookupFacts
    <2> QED BY <2>1, KeysFacts
  <1>4. \A i \in 1..n, net \in W : merge(i, net) \in W
    BY <1>2 DEF Merged
  <1>5. Net[c] = F[n]
    BY DEF Net, NetsOf, Merged
  <1> HIDE DEF n, W, merge, alone
  <1>6. D \in [1..n -> [W -> W]]
    BY <1>4
  <1>7. PICK f \in [0..n -> W] : Iterates(f, n, alone, D)
    <2> HIDE DEF D
    <2>1. \E f \in [0..n -> W] : Iterates(f, n, alone, D)
      BY <1>2, <1>3, <1>6, IterateExists
    <2> QED BY <2>1
  <1>8. P(f)
    <2>1. \A i \in 0..n : i # 0 => i \in 1..n /\ i - 1 \in 0..n
      BY <1>2
    <2>2. \A i \in 0..n : i # 0 => D[i][f[i - 1]] = merge(i, f[i - 1])
      BY <1>7, <2>1
    <2> HIDE DEF D
    <2>3. \A i \in 0..n : f[i] = IF i = 0 THEN alone ELSE merge(i, f[i - 1])
      BY <1>7, <2>2 DEF Iterates
    <2> QED BY <1>7, <2>3
  <1>9. P(F)
    BY <1>8
  <1> HIDE DEF F
  <1>10. F[0] = alone /\ \A i \in 1..n : F[i] = merge(i, F[i - 1])
    BY <1>2, <1>9
  <1> HIDE DEF P, D
  <1>11. F[0] \in W /\ \A i \in 1..n : F[i - 1] \in W => F[i] \in W
    BY <1>3, <1>4, <1>10
  <1>12. \A i \in 0..n : F[i] \in W
    BY <1>2, <1>11, TypedThroughout
  <1>13. alone = [p \in Ports(c) |-> Lookup(c, p)]
    BY KeysFacts DEF alone
  <1>14. /\ F[0] = [p \in Ports(c) |-> Lookup(c, p)]
         /\ \A i \in 1..n : F[i] = Merged(F[i - 1], c.wires[i])
    <2>1. F[0] = [p \in Ports(c) |-> Lookup(c, p)]
      BY <1>10, <1>13
    <2>2. \A i \in 1..n : F[i] = Merged(F[i - 1], c.wires[i])
      <3> TAKE i \in 1..n
      <3>1. F[i] = merge(i, F[i - 1])
        BY <1>10
      <3> QED BY <3>1 DEF merge
    <2> QED BY <2>1, <2>2
  <1> QED BY <1>5, <1>12, <1>14 DEF n, W

\* Every port is on a net.
LEMMA NetFacts ==
    ASSUME NEW c \in Circuits, c.ok
    PROVE  Net[c] \in [Ports(c) -> Nat]
  <1>1. PICK run : /\ \A i \in 0..Len(c.wires) : run[i] \in [Ports(c) -> Nat]
                   /\ Net[c] = run[Len(c.wires)]
    BY NetRuns
  <1>2. Len(c.wires) \in 0..Len(c.wires)
    BY CircuitsAssumption
  <1> QED BY <1>1, <1>2

\* In every circuit the nets are what the wires make of the ports and no more: the ends
\* of a wire share a net, and two ports that share one cannot be told apart by any set of
\* ports that has both ends of each wire or neither.
THEOREM NetsAreWired ==
    ASSUME NEW c \in Circuits, c.ok
    PROVE  /\ \A i \in 1..Len(c.wires) : Net[c][c.wires[i][1]] = Net[c][c.wires[i][2]]
           /\ \A S \in SUBSET Ports(c) :
                 (\A i \in 1..Len(c.wires) : c.wires[i][1] \in S <=> c.wires[i][2] \in S)
                 => \A p, q \in Ports(c) : Net[c][p] = Net[c][q] => (p \in S <=> q \in S)
  <1> DEFINE n == Len(c.wires)
             a(i) == c.wires[i][1]
             b(i) == c.wires[i][2]
  <1>1. PICK run : /\ run[0] = [p \in Ports(c) |-> Lookup(c, p)]
                   /\ \A i \in 1..n : run[i] = Merged(run[i - 1], c.wires[i])
                   /\ \A i \in 0..n : run[i] \in [Ports(c) -> Nat]
                   /\ Net[c] = run[n]
    BY NetRuns
  <1>2. n \in Nat /\ \A i \in 1..n : a(i) \in Ports(c) /\ b(i) \in Ports(c)
    <2>1. c.wires \in Seq(Ports(c) \X Ports(c))
      BY CircuitsAssumption
    <2> QED BY <2>1
  <1> HIDE DEF n
  <1>3. ASSUME NEW i \in 1..n
        PROVE  \A p \in Ports(c) :
                  run[i][p] = IF run[i - 1][p] = run[i - 1][b(i)] THEN run[i - 1][a(i)] ELSE run[i - 1][p]
    <2>1. i - 1 \in 0..n
      BY <1>2
    <2>2. run[i] = Merged(run[i - 1], c.wires[i]) /\ DOMAIN run[i - 1] = Ports(c)
      BY <1>1, <2>1
    <2> DEFINE net == run[i - 1]
    <2> HIDE DEF net
    <2>3. Merged(net, c.wires[i]) = [p \in DOMAIN net |-> IF net[p] = net[b(i)] THEN net[a(i)] ELSE net[p]]
      BY DEF Merged
    <2> QED BY <2>2, <2>3 DEF net
  <1> HIDE DEF a, b
  <1>4. \A i \in 1..n : a(i) \in Ports(c) /\ b(i) \in Ports(c) /\ i - 1 \in 0..n
    BY <1>2
  <1> DEFINE Joined(i) == \A j \in 1..i : run[i][a(j)] = run[i][b(j)]
             I == {i \in 0..n : Joined(i)}
  <1>5. 0..n \subseteq I
    <2>1. 0 \in I
      BY <1>2
    <2>2. ASSUME NEW i \in 0..n, i # 0, i - 1 \in I PROVE i \in I
      <3>1. /\ i \in 1..n /\ \A j \in 1..i : j \in 1..n /\ (j \in 1..i - 1 \/ j = i)
        BY <1>2, <2>2
      <3>2. ASSUME NEW j \in 1..i PROVE run[i][a(j)] = run[i][b(j)]
        <4>1. a(j) \in Ports(c) /\ b(j) \in Ports(c) /\ a(i) \in Ports(c) /\ b(i) \in Ports(c)
          BY <1>4, <3>1
        <4>2. CASE j = i
          BY <1>3, <3>1, <4>1, <4>2
        <4>3. CASE j \in 1..i - 1
          BY <1>3, <2>2, <3>1, <4>1, <4>3
        <4> QED BY <3>1, <4>2, <4>3
      <3> QED BY <3>2
    <2> HIDE DEF I
    <2> QED BY <1>2, <2>1, <2>2, Upward
  <1>6. \A i \in 1..n : Net[c][a(i)] = Net[c][b(i)]
    <2>1. n \in I
      BY <1>2, <1>5
    <2> QED BY <1>1, <2>1
  <1>7. ASSUME NEW S \in SUBSET Ports(c), \A i \in 1..n : a(i) \in S <=> b(i) \in S
        PROVE  \A p, q \in Ports(c) : Net[c][p] = Net[c][q] => (p \in S <=> q \in S)
    <2> DEFINE Apart(net) == \A p, q \in Ports(c) : net[p] = net[q] => (p \in S <=> q \in S)
               J == {i \in 0..n : Apart(run[i])}
    <2>1. 0 \in J
      <3>1. \A p \in Ports(c) : Keys[c][Lookup(c, p)] = p
        BY LookupFacts
      <3>2. \A p \in Ports(c) : run[0][p] = Lookup(c, p)
        BY <1>1
      <3> QED BY <1>2, <3>1, <3>2
    <2>2. ASSUME NEW i \in 0..n, i # 0, i - 1 \in J PROVE i \in J
      <3>1. i \in 1..n
        BY <1>2, <2>2
      <3> DEFINE net == run[i - 1]
                 x == a(i)
                 y == b(i)
      <3>2. /\ x \in Ports(c) /\ y \in Ports(c) /\ (x \in S <=> y \in S) /\ Apart(net)
            /\ \A p \in Ports(c) : run[i][p] = IF net[p] = net[y] THEN net[x] ELSE net[p]
        BY <1>3, <1>4, <1>7, <2>2, <3>1
      <3> HIDE DEF net, x, y
      <3>3. Apart(run[i])
        <4> SUFFICES ASSUME NEW p \in Ports(c), NEW q \in Ports(c), run[i][p] = run[i][q]
                     PROVE  p \in S <=> q \in S
          OBVIOUS
        <4>1. \A r \in Ports(c) : net[r] = net[y] => (r \in S <=> x \in S)
          BY <3>2
        <4>2. CASE net[p] = net[y] /\ net[q] = net[y]
          BY <4>1, <4>2
        <4>3. CASE net[p] = net[y] /\ net[q] # net[y]
          <5>1. net[q] = net[x]
            BY <3>2, <4>3
          <5> QED BY <3>2, <4>1, <4>3, <5>1
        <4>4. CASE net[p] # net[y] /\ net[q] = net[y]
          <5>1. net[p] = net[x]
            BY <3>2, <4>4
          <5> QED BY <3>2, <4>1, <4>4, <5>1
        <4>5. CASE net[p] # net[y] /\ net[q] # net[y]
          BY <3>2, <4>5
        <4> QED BY <4>2, <4>3, <4>4, <4>5
      <3> QED BY <3>3
    <2> HIDE DEF J
    <2>3. n \in J
      <3>1. 0..n \subseteq J
        BY <1>2, <2>1, <2>2, Upward
      <3> QED BY <1>2, <3>1
    <2> QED BY <1>1, <2>3 DEF J
  <1> QED BY <1>6, <1>7 DEF n, a, b

-----------------------------------------------------------------------------
(* The order of the consumers.                                               *)

LEMMA DevicesFacts ==
    ASSUME NEW c \in Circuits, NEW role
    PROVE  LET list == DevicesWith(c, role)
               set == {n \in ToSet(c.devices) : Role[c.kind[n]] = role}
           IN list \in Seq(set) /\ Distinct(list) /\ ToSet(list) = set
  <1> DEFINE set == {n \in ToSet(c.devices) : Role[c.kind[n]] = role}
             list == DevicesWith(c, role)
  <1>1. c.devices \in Seq(ToSet(c.devices)) /\ Distinct(c.devices)
    BY CircuitsAssumption DEF IsInjective, Distinct
  <1>2. list = Among(c.devices, set)
    BY DEF DevicesWith
  <1> HIDE DEF set, list
  <1>3. /\ list \in Seq(ToSet(c.devices)) /\ ToSet(list) = ToSet(c.devices) \cap set
        /\ Distinct(list)
    BY <1>1, <1>2, AmongFacts
  <1>4. ToSet(list) = set
    BY <1>3 DEF set
  <1>5. list \in Seq(set)
    <2>1. Len(list) \in Nat /\ DOMAIN list = 1..Len(list) /\ list = [i \in 1..Len(list) |-> list[i]]
      BY <1>3
    <2>2. \A i \in DOMAIN list : list[i] \in set
      BY <1>4 DEF ToSet
    <2> QED BY <2>1, <2>2
  <1> QED BY <1>3, <1>4, <1>5 DEF set, list

\* A list without repetitions is as long as its set is large.
LEMMA DistinctCount ==
    ASSUME NEW V, NEW s \in Seq(V), Distinct(s)
    PROVE  IsFiniteSet(ToSet(s)) /\ Cardinality(ToSet(s)) = Len(s)
  <1> DEFINE n == Len(s)
  <1>1. n \in Nat /\ DOMAIN s = 1..n
    OBVIOUS
  <1> HIDE DEF n
  <1>2. s \in Bijection(1..n, ToSet(s))
    <2>1. s \in [1..n -> ToSet(s)]
      BY <1>1 DEF ToSet
    <2>2. IsInjective(s) /\ \A x \in ToSet(s) : \E i \in 1..n : s[i] = x
      BY <1>1 DEF IsInjective, Distinct, ToSet
    <2> QED BY <2>1, <2>2 DEF Bijection, Injection, Surjection
  <1>3. IsFiniteSet(1..n) /\ Cardinality(1..n) = n
    BY <1>1, FS_Interval
  <1>4. IsFiniteSet(ToSet(s)) /\ Cardinality(ToSet(s)) = Cardinality(1..n)
    BY <1>2, <1>3, FS_Bijection DEF ExistsBijection
  <1> QED BY <1>3, <1>4 DEF n

\* What holds of the queue and the sorted consumers between two rounds.
Kahn(c, s) ==
    LET all == ToSet(DevicesWith(c, "Consumer"))
        sorted == ToSet(s.sorted)
        ready == ToSet(s.ready)
    IN /\ s \in [ready : Seq(all), sorted : Seq(all)]
       /\ Distinct(s.sorted) /\ Distinct(s.ready) /\ sorted \cap ready = {}
       /\ \A r \in all : r \in sorted \cup ready <=> Writers(c, r) \subseteq sorted
       /\ \A i \in DOMAIN s.sorted : \A w \in Writers(c, s.sorted[i]) :
             \E j \in DOMAIN s.sorted : j < i /\ s.sorted[j] = w

LEMMA TakeReadyFacts ==
    ASSUME NEW c \in Circuits, NEW s, Kahn(c, s), s.ready # <<>>
    PROVE  LET t == TakeReady(c, DevicesWith(c, "Consumer"), s)
           IN Kahn(c, t) /\ Len(t.sorted) = Len(s.sorted) + 1
  <1> DEFINE list == DevicesWith(c, "Consumer")
             all == ToSet(list)
             ready == s.ready
             current == Head(ready)
             old == s.sorted
             sorted == Append(old, current)
             released == {r \in all : current \in Writers(c, r) /\ Writers(c, r) \subseteq ToSet(sorted)}
             t == [ready |-> Tail(ready) \o Among(list, released), sorted |-> sorted]
  <1>0. TakeReady(c, list, s) = t
    BY DEF TakeReady
  <1>1. /\ ready \in Seq(all) /\ old \in Seq(all)
        /\ Distinct(old) /\ Distinct(ready) /\ ToSet(old) \cap ToSet(ready) = {}
        /\ \A r \in all : r \in ToSet(old) \cup ToSet(ready) <=> Writers(c, r) \subseteq ToSet(old)
        /\ \A i \in DOMAIN old : \A w \in Writers(c, old[i]) : \E j \in DOMAIN old : j < i /\ old[j] = w
    BY DEF Kahn
  <1>2. list \in Seq(all) /\ Distinct(list)
    BY DevicesFacts
  <1> HIDE DEF list, all
  <1>3. /\ Len(ready) \in Nat /\ Len(ready) >= 1 /\ DOMAIN ready = 1..Len(ready)
        /\ current = ready[1] /\ current \in all
        /\ Tail(ready) \in Seq(all) /\ DOMAIN Tail(ready) = 1..Len(ready) - 1
        /\ \A i \in 1..Len(ready) - 1 : Tail(ready)[i] = ready[i + 1]
    BY <1>1, TailIndex
  <1> HIDE DEF ready, current, old
  <1>4. /\ sorted \in Seq(all) /\ Len(old) \in Nat /\ DOMAIN old = 1..Len(old)
        /\ DOMAIN sorted = 1..Len(old) + 1 /\ sorted[Len(old) + 1] = current
        /\ \A i \in 1..Len(old) : sorted[i] = old[i]
    BY <1>1, <1>3, AppendIndex
  <1>5. ToSet(sorted) = ToSet(old) \cup {current} /\ Len(sorted) = Len(old) + 1
    BY <1>1, <1>3, <1>4, AppendFacts
  <1>6. current \in ToSet(ready) /\ current \notin ToSet(old)
    BY <1>1, <1>3 DEF ToSet
  <1>7. Distinct(sorted)
    BY <1>1, <1>3, <1>6, AppendFacts
  <1> DEFINE rest == Tail(ready)
             new == Among(list, released)
  <1>8. ToSet(rest) = ToSet(ready) \ {current} /\ Distinct(rest)
    <2> HIDE DEF rest
    <2>1. /\ DOMAIN rest = 1..Len(ready) - 1
          /\ \A i \in 1..Len(ready) - 1 : rest[i] = ready[i + 1] /\ i + 1 \in 1..Len(ready) /\ i + 1 # 1
      BY <1>3 DEF rest
    <2>2. \A i \in 1..Len(ready) : i = 1 \/ (i - 1 \in 1..Len(ready) - 1 /\ (i - 1) + 1 = i)
      BY <1>3
    <2>3. \A i, j \in 1..Len(ready) : ready[i] = ready[j] => i = j
      BY <1>1, <1>3 DEF Distinct
    <2>4. Distinct(rest)
      <3> SUFFICES ASSUME NEW i \in 1..Len(ready) - 1, NEW j \in 1..Len(ready) - 1, rest[i] = rest[j]
                   PROVE i = j
        BY <2>1 DEF Distinct
      <3>1. i + 1 = j + 1
        BY <2>1, <2>3
      <3> QED BY <1>3, <3>1
    <2>5. \A i \in 1..Len(ready) - 1 : rest[i] \in ToSet(ready) \ {current}
      BY <1>3, <2>1, <2>3 DEF ToSet
    <2>6. \A i \in 1..Len(ready) : ready[i] # current => ready[i] \in ToSet(rest)
      <3> TAKE i \in 1..Len(ready)
      <3> HAVE ready[i] # current
      <3>1. i - 1 \in 1..Len(ready) - 1 /\ (i - 1) + 1 = i
        BY <1>3, <2>2
      <3>2. rest[i - 1] = ready[i]
        BY <2>1, <3>1
      <3> QED BY <2>1, <3>1, <3>2 DEF ToSet
    <2>7. ToSet(rest) \subseteq ToSet(ready) \ {current}
      BY <2>1, <2>5 DEF ToSet
    <2>8. ToSet(ready) \ {current} \subseteq ToSet(rest)
      BY <1>3, <2>6 DEF ToSet
    <2> QED BY <2>4, <2>7, <2>8
  <1>9. /\ new \in Seq(all) /\ Distinct(new) /\ ToSet(new) = released
    <2>1. new \in Seq(all) /\ ToSet(new) = ToSet(list) \cap released /\ Distinct(new)
      BY <1>2, AmongFacts
    <2>2. released \subseteq ToSet(list)
      BY DEF all
    <2> QED BY <2>1, <2>2
  <1>10. rest \in Seq(all)
    BY <1>3
  <1> HIDE DEF sorted, new, rest
  <1>11. \A r \in released : r \notin ToSet(old) \cup ToSet(ready)
    BY <1>1, <1>6
  <1>12. /\ rest \o new \in Seq(all) /\ Distinct(rest \o new)
         /\ ToSet(rest \o new) = (ToSet(ready) \ {current}) \cup released
    <2>1. ToSet(rest) \cap ToSet(new) = {}
      BY <1>8, <1>9, <1>11
    <2> QED BY <1>8, <1>9, <1>10, <2>1, ConcatFacts
  <1>13. ToSet(sorted) \cap ToSet(rest \o new) = {}
    BY <1>1, <1>5, <1>6, <1>11, <1>12
  <1>14. ASSUME NEW r \in all
         PROVE  r \in ToSet(sorted) \cup ToSet(rest \o new) <=> Writers(c, r) \subseteq ToSet(sorted)
    <2>1. r \in ToSet(sorted) \cup ToSet(rest \o new) <=> r \in ToSet(old) \cup ToSet(ready) \/ r \in released
      BY <1>5, <1>6, <1>12
    <2>2. r \in ToSet(old) \cup ToSet(ready) <=> Writers(c, r) \subseteq ToSet(old)
      BY <1>1
    <2>3. Writers(c, r) \subseteq ToSet(sorted) <=>
            Writers(c, r) \subseteq ToSet(old) \/ (current \in Writers(c, r) /\ Writers(c, r) \subseteq ToSet(sorted))
      BY <1>5
    <2> QED BY <2>1, <2>2, <2>3
  <1>15. ASSUME NEW i \in DOMAIN sorted, NEW w \in Writers(c, sorted[i])
         PROVE  \E j \in DOMAIN sorted : j < i /\ sorted[j] = w
    <2>1. i \in 1..Len(old) \/ i = Len(old) + 1
      BY <1>4
    <2>2. \A j \in 1..Len(old) : j \in DOMAIN sorted /\ sorted[j] = old[j]
      BY <1>4
    <2>3. CASE i \in 1..Len(old)
      <3>1. sorted[i] = old[i]
        BY <2>2, <2>3
      <3>2. PICK j \in DOMAIN old : j < i /\ old[j] = w
        BY <1>1, <1>4, <2>3, <3>1
      <3> QED BY <1>4, <2>2, <3>2
    <2>4. CASE i = Len(old) + 1
      <3>1. w \in Writers(c, current)
        BY <1>4, <2>4
      <3>2. w \in ToSet(old)
        BY <1>1, <1>3, <1>6, <3>1
      <3>3. PICK j \in DOMAIN old : old[j] = w
        BY <3>2 DEF ToSet
      <3>4. j < i
        BY <1>4, <2>4, <3>3
      <3> QED BY <1>4, <2>2, <3>3, <3>4
    <2> QED BY <2>1, <2>3, <2>4
  <1> HIDE DEF released
  <1>16. t.sorted = sorted /\ t.ready = rest \o new /\ t \in [ready : Seq(all), sorted : Seq(all)]
    BY <1>4, <1>12 DEF rest, new
  <1> HIDE DEF t
  <1>17. Kahn(c, t)
    BY <1>7, <1>12, <1>13, <1>14, <1>15, <1>16 DEF Kahn, all, list
  <1>18. Len(t.sorted) = Len(s.sorted) + 1
    BY <1>5, <1>16 DEF old
  <1> QED BY <1>0, <1>17, <1>18 DEF list

\* The rounds of the sort: a round takes a consumer out of the queue, or the queue
\* is empty; after as many as there are consumers it is.
LEMMA KahnRuns ==
    ASSUME NEW c \in Circuits
    PROVE  LET list == DevicesWith(c, "Consumer")
           IN \E s : /\ Kahn(c, s) /\ s.ready = <<>>
                     /\ Consumers[c] = s.sorted \o Among(list, ToSet(list) \ ToSet(s.sorted))
  <1> DEFINE list == DevicesWith(c, "Consumer")
             all == ToSet(list)
             n == Len(list)
             start == [ready |-> Among(list, {r \in ToSet(list) : Writers(c, r) = {}}), sorted |-> <<>>]
             next(s) == TakeReady(c, list, s)
             P(f) == f = [i \in 0..n |-> IF i = 0 THEN start ELSE next(f[i - 1])]
             V == {s \in [ready : Seq(all), sorted : Seq(all)] : Kahn(c, s)}
             D == [i \in 1..n |-> [s \in V |-> next(s)]]
             F == CHOOSE f : P(f)
  <1>1. list \in Seq(all) /\ Distinct(list) /\ n \in Nat
    <2>1. list \in Seq(all) /\ Distinct(list)
      BY DevicesFacts
    <2> HIDE DEF list
    <2> QED BY <2>1
  <1>2. Consumers[c] = F[n].sorted \o Among(list, ToSet(list) \ ToSet(F[n].sorted))
    BY DEF Consumers, SortConsumers
  <1> HIDE DEF list, n
  <1>3. start \in V
    <2> DEFINE first == Among(list, {r \in all : Writers(c, r) = {}})
    <2>1. first \in Seq(all) /\ Distinct(first) /\ ToSet(first) = {r \in all : Writers(c, r) = {}}
      BY <1>1, AmongFacts
    <2> HIDE DEF first
    <2>2. <<>> \in Seq(all) /\ ToSet(<<>>) = {} /\ DOMAIN <<>> = {}
      BY DEF ToSet
    <2>3. start.ready = first /\ start.sorted = <<>> /\ start \in [ready : Seq(all), sorted : Seq(all)]
      BY <2>1, <2>2 DEF first
    <2> HIDE DEF start
    <2>4. Distinct(<<>>)
      BY <2>2 DEF Distinct
    <2>5. Kahn(c, start)
      BY <2>1, <2>2, <2>3, <2>4 DEF Kahn, list
    <2> QED BY <2>3, <2>5
  <1> HIDE DEF start
  <1>4. ASSUME NEW s \in V
        PROVE  /\ next(s) \in V
               /\ s.ready = <<>> => next(s) = s
               /\ s.ready # <<>> => Len(next(s).sorted) = Len(s.sorted) + 1
    <2>1. CASE s.ready = <<>>
      BY <2>1 DEF TakeReady
    <2>2. CASE s.ready # <<>>
      <3>1. Kahn(c, next(s)) /\ Len(next(s).sorted) = Len(s.sorted) + 1
        BY <2>2, TakeReadyFacts DEF list
      <3> QED BY <2>2, <3>1 DEF Kahn, list
    <2> QED BY <2>1, <2>2
  <1> HIDE DEF next, V
  <1>5. D \in [1..n -> [V -> V]]
    BY <1>4
  <1>6. PICK f \in [0..n -> V] : Iterates(f, n, start, D)
    <2> HIDE DEF D
    <2>1. \E f \in [0..n -> V] : Iterates(f, n, start, D)
      BY <1>1, <1>3, <1>5, IterateExists
    <2> QED BY <2>1
  <1>7. P(f)
    <2>1. \A i \in 0..n : i # 0 => i \in 1..n /\ i - 1 \in 0..n
      BY <1>1
    <2>2. \A i \in 0..n : i # 0 => D[i][f[i - 1]] = next(f[i - 1])
      BY <1>6, <2>1
    <2> HIDE DEF D
    <2>3. \A i \in 0..n : f[i] = IF i = 0 THEN start ELSE next(f[i - 1])
      BY <1>6, <2>2 DEF Iterates
    <2> QED BY <1>6, <2>3
  <1>8. P(F)
    BY <1>7
  <1> HIDE DEF F
  <1>9. F[0] = start /\ \A i \in 1..n : F[i] = next(F[i - 1])
    BY <1>1, <1>8
  <1> HIDE DEF P, D
  <1>10. start.sorted = <<>>
    BY DEF start
  <1> DEFINE I == {i \in 0..n : F[i] \in V /\ (F[i].ready = <<>> \/ Len(F[i].sorted) = i)}
  <1>11. 0 \in I
    BY <1>1, <1>3, <1>9, <1>10
  <1>12. ASSUME NEW i \in 0..n, i # 0, i - 1 \in I PROVE i \in I
    <2>1. i \in 1..n /\ F[i] = next(F[i - 1]) /\ F[i - 1] \in V
      BY <1>9, <1>12
    <2>2. CASE F[i - 1].ready = <<>>
      BY <1>4, <2>1, <2>2
    <2>3. CASE F[i - 1].ready # <<>>
      <3>1. Len(F[i - 1].sorted) = i - 1
        BY <1>12, <2>3
      <3>2. Len(F[i].sorted) = (i - 1) + 1 /\ F[i] \in V
        BY <1>4, <2>1, <2>3, <3>1
      <3> QED BY <3>2
    <2> QED BY <2>2, <2>3
  <1> HIDE DEF I
  <1>13. n \in I
    <2>1. 0..n \subseteq I
      BY <1>1, <1>11, <1>12, Upward
    <2> QED BY <1>1, <2>1
  <1> DEFINE s == F[n]
  <1>14. s \in V /\ (s.ready = <<>> \/ Len(s.sorted) = n)
    BY <1>13 DEF I
  <1> HIDE DEF s
  <1>15. /\ s \in [ready : Seq(all), sorted : Seq(all)] /\ Kahn(c, s)
         /\ Distinct(s.sorted) /\ ToSet(s.sorted) \cap ToSet(s.ready) = {}
    BY <1>14 DEF V, Kahn
  <1>16. s.ready = <<>>
    <2> SUFFICES ASSUME Len(s.sorted) = n, s.ready # <<>> PROVE FALSE
      BY <1>14
    <2>1. s.sorted \in Seq(all) /\ s.ready \in Seq(all)
      BY <1>15
    <2>2. Cardinality(ToSet(s.sorted)) = n
      BY <1>15, <2>1, DistinctCount
    <2>3. IsFiniteSet(all) /\ Cardinality(all) = n
      BY <1>1, DistinctCount DEF n
    <2>4. \A q \in Seq(all) : ToSet(q) \subseteq all
      BY DEF ToSet
    <2>5. ToSet(s.sorted) = all
      <3> HIDE DEF all
      <3> QED BY <2>1, <2>2, <2>3, <2>4, FS_Subset
    <2>6. ToSet(s.ready) = {}
      BY <1>15, <2>1, <2>4, <2>5
    <2>7. Head(s.ready) \in ToSet(s.ready)
      <3>1. 1 \in DOMAIN s.ready /\ Head(s.ready) = s.ready[1]
        <4> HIDE DEF all
        <4> QED BY <2>1, TailIndex
      <3> QED BY <3>1 DEF ToSet
    <2> QED BY <2>6, <2>7
  <1>17. Consumers[c] = s.sorted \o Among(list, ToSet(list) \ ToSet(s.sorted))
    BY <1>2 DEF s
  <1> QED BY <1>15, <1>16, <1>17 DEF list

\* In every circuit the scheduler runs each consumer once, and a consumer that is
\* neither on a cycle nor behind one after all that write what it reads.
THEOREM WritersFirst ==
    ASSUME NEW c \in Circuits
    PROVE  LET s == Consumers[c]
               all == {n \in ToSet(c.devices) : Role[c.kind[n]] = "Consumer"}
           IN /\ s \in Seq(all) /\ Distinct(s) /\ ToSet(s) = all
              /\ \A i \in DOMAIN s : s[i] \notin OnOrBehindCycle(c) =>
                    \A w \in all : Before(c, w, s[i]) => \E j \in DOMAIN s : j < i /\ s[j] = w
  <1> DEFINE set == {n \in ToSet(c.devices) : Role[c.kind[n]] = "Consumer"}
             list == DevicesWith(c, "Consumer")
  <1>1. list \in Seq(set) /\ Distinct(list) /\ ToSet(list) = set
    BY DevicesFacts
  <1>2. PICK s : /\ Kahn(c, s) /\ s.ready = <<>>
                 /\ Consumers[c] = s.sorted \o Among(list, ToSet(list) \ ToSet(s.sorted))
    BY KahnRuns
  <1> DEFINE done == s.sorted
             T == set \ ToSet(done)
             left == Among(list, T)
             q == done \o left
  <1>3. /\ done \in Seq(set) /\ Distinct(done)
        /\ \A r \in set : r \in ToSet(done) <=> Writers(c, r) \subseteq ToSet(done)
        /\ \A i \in DOMAIN done : \A w \in Writers(c, done[i]) : \E j \in DOMAIN done : j < i /\ done[j] = w
    <2>1. ToSet(s.ready) = {}
      BY <1>2 DEF ToSet
    <2> QED BY <1>1, <1>2, <2>1 DEF Kahn
  <1>4. Consumers[c] = q
    BY <1>1, <1>2
  <1>5. \A r : Writers(c, r) = {w \in set : Before(c, w, r)}
    BY <1>1 DEF Writers
  <1> HIDE DEF set, list, done
  <1>6. left \in Seq(set) /\ Distinct(left) /\ ToSet(left) = T
    BY <1>1, AmongFacts
  <1>7. T \subseteq OnOrBehindCycle(c)
    <2>1. \A r \in T : \E w \in T : Before(c, w, r)
      BY <1>3, <1>5
    <2>2. T \subseteq set
      OBVIOUS
    <2> QED BY <1>1, <2>1, <2>2 DEF OnOrBehindCycle, list
  <1>8. ToSet(done) \subseteq set
    BY <1>3 DEF ToSet
  <1>9. ToSet(done) \cap ToSet(left) = {} /\ ToSet(done) \cup ToSet(left) = set
    BY <1>6, <1>8
  <1> HIDE DEF left, T
  <1>10. /\ q \in Seq(set) /\ Len(done) \in Nat /\ DOMAIN done = 1..Len(done)
         /\ DOMAIN left = 1..Len(left) /\ Len(left) \in Nat
         /\ DOMAIN q = 1..Len(done) + Len(left)
         /\ \A i \in 1..Len(done) : q[i] = done[i]
         /\ \A i \in 1..Len(left) : q[Len(done) + i] = left[i]
         /\ ToSet(q) = ToSet(done) \cup ToSet(left) /\ Distinct(q)
    BY <1>3, <1>6, <1>9, ConcatFacts
  <1> HIDE DEF q
  <1>11. ASSUME NEW i \in DOMAIN q, q[i] \notin OnOrBehindCycle(c), NEW w \in set, Before(c, w, q[i])
         PROVE  \E j \in DOMAIN q : j < i /\ q[j] = w
    <2>1. i \in 1..Len(done)
      <3> SUFFICES ASSUME i \notin 1..Len(done) PROVE FALSE
        OBVIOUS
      <3>1. i - Len(done) \in 1..Len(left) /\ Len(done) + (i - Len(done)) = i
        BY <1>10
      <3>2. q[i] = left[i - Len(done)]
        BY <1>10, <3>1
      <3>3. q[i] \in ToSet(left)
        BY <1>10, <3>1, <3>2 DEF ToSet
      <3> QED BY <1>6, <1>7, <1>11, <3>3
    <2>2. q[i] = done[i] /\ w \in Writers(c, done[i])
      BY <1>5, <1>10, <1>11, <2>1
    <2>3. PICK j \in DOMAIN done : j < i /\ done[j] = w
      BY <1>3, <1>10, <2>1, <2>2
    <2>4. j \in DOMAIN q /\ q[j] = w
      BY <1>10, <2>3
    <2> QED BY <2>3, <2>4
  <1>12. q \in Seq(set) /\ Distinct(q) /\ ToSet(q) = set
    BY <1>9, <1>10
  <1> QED BY <1>4, <1>11, <1>12 DEF set

-----------------------------------------------------------------------------
(* One component.                                                            *)

\* The nets that the commit of n writes.
Latches(c, n) == {At(c, n, p) : p \in OutputPorts[c.kind[n]] \cap {"state", "position"}}

\* Which ports a component has, and who runs it.
LEMMA KindFacts ==
    ASSUME NEW c \in Circuits, NEW n \in ToSet(c.devices)
    PROVE  LET k == c.kind[n]
               Has(p) == <<n, p>> \in Ports(c)
           IN /\ k \in {"Value", "Switch", "Slider", "HoldButton", "KnobSwitch"}
              /\ k = "Value" => Has("o") /\ "o" \in OutputPorts[k]
              /\ k = "Slider" => Has("control") /\ Has("out") /\ "out" \in OutputPorts[k]
              /\ k = "Switch" \/ k = "HoldButton" =>
                    /\ Has("control") /\ Has("state") /\ Has("v_in") /\ Has("v_out")
                    /\ "state" \in OutputPorts[k] /\ "v_out" \in OutputPorts[k]
              /\ k = "KnobSwitch" => Has("control") /\ Has("position") /\ "position" \in OutputPorts[k]
              /\ Role[k] = "Consumer" <=> k \in {"Slider", "Switch"}
              /\ Role[k] = "Source" <=> k = "Value"
              /\ \A p \in OutputPorts[k] : Has(p)
  <1> DEFINE k == c.kind[n]
  <1>1. k \in DOMAIN PortNames
    BY CircuitsAssumption
  <1>2. k \in {"Value", "Switch", "Slider", "HoldButton", "KnobSwitch"}
    BY <1>1 DEF PortNames
  <1>3. \A p : p \in ToSet(PortNames[k]) => <<n, p>> \in Ports(c)
    BY DEF Ports
  <1> HIDE DEF k
  <1>4. /\ Role[k] = "Consumer" <=> k \in {"Slider", "Switch"}
        /\ Role[k] = "Source" <=> k = "Value"
    BY <1>2 DEF Role
  <1>5. CASE k = "Value"
    <2>1. "o" \in ToSet(PortNames[k]) /\ OutputPorts[k] = {"o"}
      BY <1>5 DEF PortNames, OutputPorts, ToSet
    <2> QED BY <1>2, <1>3, <1>4, <1>5, <2>1 DEF k
  <1>6. CASE k = "Slider"
    <2>1. "control" \in ToSet(PortNames[k]) /\ "out" \in ToSet(PortNames[k]) /\ OutputPorts[k] = {"out"}
      BY <1>6 DEF PortNames, OutputPorts, ToSet
    <2> QED BY <1>2, <1>3, <1>4, <1>6, <2>1 DEF k
  <1>7. CASE k \in {"Switch", "HoldButton"}
    <2>1. PortNames[k] = <<"control", "state", "v_in", "v_out">>
      BY <1>7 DEF PortNames
    <2>2. "control" \in ToSet(PortNames[k]) /\ "state" \in ToSet(PortNames[k])
      BY <2>1 DEF ToSet
    <2>3. "v_in" \in ToSet(PortNames[k]) /\ "v_out" \in ToSet(PortNames[k])
      BY <2>1 DEF ToSet
    <2>4. OutputPorts[k] = {"state", "v_out"}
      BY <1>7 DEF OutputPorts
    <2> QED BY <1>2, <1>3, <1>4, <1>7, <2>2, <2>3, <2>4 DEF k
  <1>8. CASE k = "KnobSwitch"
    <2>1. DOMAIN PortNames[k] = 1..8 /\ PortNames[k][7] = "control" /\ PortNames[k][8] = "position"
      BY <1>8 DEF PortNames
    <2>2. "control" \in ToSet(PortNames[k]) /\ "position" \in ToSet(PortNames[k])
      BY <2>1 DEF ToSet
    <2>3. OutputPorts[k] = {"position"}
      BY <1>8 DEF OutputPorts
    <2> QED BY <1>2, <1>3, <1>4, <1>8, <2>2, <2>3 DEF k
  <1> QED BY <1>2, <1>5, <1>6, <1>7, <1>8

LEMMA AtFacts ==
    ASSUME NEW c \in Circuits, c.ok, NEW port \in Ports(c)
    PROVE  Net[c][port] \in Nets(c)
  BY NetFacts DEF Nets

\* Writing a port changes its net and nothing else.
LEMMA PutFacts ==
    ASSUME NEW c \in Circuits, c.ok, NEW st \in StateOf(c), NEW n, NEW p, <<n, p>> \in Ports(c), NEW v \in Int
    PROVE  LET t == Put(c, st, n, p, v)
           IN /\ t \in StateOf(c) /\ t.part = st.part
              /\ \A net \in Nets(c) : t.values[net] = IF net = At(c, n, p) THEN v ELSE st.values[net]
  <1>1. At(c, n, p) \in Nets(c)
    BY AtFacts DEF At
  <1> QED BY <1>1 DEF Put, StateOf

\* Execute passes a value on, as far as a consumer lets it through.
LEMMA ExecuteFacts ==
    ASSUME NEW c \in Circuits, c.ok, NEW st \in StateOf(c), NEW n \in ToSet(c.devices)
    PROVE  LET t == Execute(c, st, n)
           IN /\ t \in StateOf(c) /\ t.part = st.part
              /\ \A net \in Nets(c) \ Writes(c, n) : t.values[net] = st.values[net]
              /\ c.kind[n] \in {"Slider", "Switch"} =>
                    \A net \in Nets(c) :
                       t.values[net] = IF net = Out(c, n)
                                       THEN IF c.kind[n] = "Slider" \/ st.part[n].pos = 1
                                            THEN st.values[In(c, n)] ELSE 0
                                       ELSE st.values[net]
  <1> DEFINE k == c.kind[n]
             t == Execute(c, st, n)
  <1>1. \A p \in OutputPorts[k] : At(c, n, p) \in Writes(c, n)
    BY DEF Writes, At
  <1>2. CASE k = "Value"
    <2>0. <<n, "o">> \in Ports(c) /\ "o" \in OutputPorts[k]
      BY <1>2, KindFacts
    <2>1. <<n, "o">> \in Ports(c) /\ At(c, n, "o") \in Writes(c, n) /\ c.param[n] \in Int
      BY <1>1, <2>0, CircuitsAssumption
    <2>2. t = Put(c, st, n, "o", c.param[n])
      BY <1>2 DEF Execute
    <2> HIDE DEF t
    <2> QED BY <1>2, <2>1, <2>2, PutFacts DEF t
  <1>3. CASE k = "Slider"
    <2>1. <<n, "control">> \in Ports(c) /\ <<n, "out">> \in Ports(c) /\ At(c, n, "out") \in Writes(c, n)
      <3>1. <<n, "control">> \in Ports(c) /\ <<n, "out">> \in Ports(c) /\ "out" \in OutputPorts[k]
        BY <1>3, KindFacts
      <3> QED BY <1>1, <3>1
    <2>2. Out(c, n) = At(c, n, "out") /\ In(c, n) = At(c, n, "control")
      BY <1>3 DEF In, Out
    <2>3. st.values[In(c, n)] \in Int
      BY <2>1, <2>2, AtFacts DEF StateOf, At
    <2>4. t = Put(c, st, n, "out", st.values[In(c, n)])
      BY <1>3, <2>2 DEF Execute, Value
    <2> DEFINE v == st.values[In(c, n)]
    <2> HIDE DEF t
    <2>5. /\ t \in StateOf(c) /\ t.part = st.part
          /\ \A net \in Nets(c) : t.values[net] = IF net = At(c, n, "out") THEN v ELSE st.values[net]
      <3> HIDE DEF v
      <3> QED BY <2>1, <2>3, <2>4, PutFacts DEF v
    <2> QED BY <1>3, <2>1, <2>2, <2>5 DEF t
  <1>4. CASE k = "Switch"
    <2> DEFINE v == IF st.part[n].pos = 1 THEN st.values[In(c, n)] ELSE 0
    <2>1. <<n, "v_in">> \in Ports(c) /\ <<n, "v_out">> \in Ports(c) /\ At(c, n, "v_out") \in Writes(c, n)
      <3>1. <<n, "v_in">> \in Ports(c) /\ <<n, "v_out">> \in Ports(c) /\ "v_out" \in OutputPorts[k]
        BY <1>4, KindFacts
      <3> QED BY <1>1, <3>1
    <2>2. Out(c, n) = At(c, n, "v_out") /\ In(c, n) = At(c, n, "v_in")
      BY <1>4 DEF In, Out
    <2>3. v \in Int
      BY <2>1, <2>2, AtFacts DEF StateOf, At
    <2>4. t = Put(c, st, n, "v_out", v)
      BY <1>4, <2>2 DEF Execute, Value
    <2>5. c.kind[n] # "Slider"
      BY <1>4
    <2> HIDE DEF t
    <2>6. /\ t \in StateOf(c) /\ t.part = st.part
          /\ \A net \in Nets(c) : t.values[net] = IF net = At(c, n, "v_out") THEN v ELSE st.values[net]
      <3> HIDE DEF v
      <3> QED BY <2>1, <2>3, <2>4, PutFacts
    <2> QED BY <2>1, <2>2, <2>5, <2>6 DEF t
  <1>5. CASE k \in {"HoldButton", "KnobSwitch"}
    BY <1>5 DEF Execute
  <1> QED BY <1>2, <1>3, <1>4, <1>5, KindFacts

\* What a commit leaves a switch in.
SwitchAfter(c, st, n) ==
    LET now == Value(c, st, n, "control")
    IN [pos  |-> IF now # st.part[n].last THEN 1 - st.part[n].pos ELSE st.part[n].pos,
        last |-> now]

\* Commit writes the latches and the part of the component.
LEMMA CommitFacts ==
    ASSUME NEW c \in Circuits, c.ok, NEW st \in StateOf(c), NEW n \in ToSet(c.devices)
    PROVE  LET t == Commit(c, st, n)
           IN /\ t \in StateOf(c)
              /\ \A net \in Nets(c) \ Latches(c, n) : t.values[net] = st.values[net]
              /\ \A m \in ToSet(c.devices) \ {n} : t.part[m] = st.part[m]
              /\ c.kind[n] = "Switch" => t.part[n] = SwitchAfter(c, st, n)
  <1> DEFINE k == c.kind[n]
             t == Commit(c, st, n)
             now == Value(c, st, n, "control")
  <1>1. \A p \in OutputPorts[k] \cap {"state", "position"} : At(c, n, p) \in Latches(c, n)
    BY DEF Latches
  <1>2. k \notin {"Value", "Slider"} => now \in Int
    BY KindFacts, AtFacts DEF Value, At, StateOf
  <1>3. ASSUME NEW part \in [pos : Int, last : Int], NEW p \in {"state", "position"}, NEW v \in Int,
               p \in OutputPorts[k], t = Put(c, [st EXCEPT !.part[n] = part], n, p, v)
        PROVE  /\ t \in StateOf(c)
               /\ \A net \in Nets(c) \ Latches(c, n) : t.values[net] = st.values[net]
               /\ \A m \in ToSet(c.devices) \ {n} : t.part[m] = st.part[m]
               /\ t.part[n] = part
    <2> DEFINE s == [st EXCEPT !.part[n] = part]
    <2>1. /\ s \in StateOf(c) /\ s.values = st.values /\ s.part[n] = part
          /\ \A m \in ToSet(c.devices) \ {n} : s.part[m] = st.part[m]
      BY DEF StateOf
    <2> HIDE DEF s, t
    <2>2. <<n, p>> \in Ports(c) /\ At(c, n, p) \in Latches(c, n) /\ t = Put(c, s, n, p, v)
      BY <1>1, <1>3, KindFacts DEF s
    <2>3. /\ t \in StateOf(c) /\ t.part = s.part
          /\ \A net \in Nets(c) : t.values[net] = IF net = At(c, n, p) THEN v ELSE s.values[net]
      BY <2>1, <2>2, PutFacts
    <2> QED BY <2>1, <2>2, <2>3
  <1>4. CASE k = "Switch"
    <2> DEFINE closed == IF now # st.part[n].last THEN 1 - st.part[n].pos ELSE st.part[n].pos
               part == [pos |-> closed, last |-> now]
    <2>1. t = Put(c, [st EXCEPT !.part[n] = part], n, "state", closed)
      BY <1>4 DEF Commit, CommitSwitch
    <2>2. part = SwitchAfter(c, st, n)
      BY DEF SwitchAfter
    <2>3. closed \in Int /\ part \in [pos : Int, last : Int]
      BY <1>2, <1>4 DEF StateOf
    <2>4. "state" \in OutputPorts[k]
      BY <1>4, KindFacts
    <2> HIDE DEF part, closed, t
    <2> QED BY <1>3, <2>1, <2>2, <2>3, <2>4 DEF t
  <1>5. CASE k = "HoldButton"
    <2> DEFINE pressed == IF now # 0 THEN 1 ELSE 0
               part == [pos |-> pressed, last |-> st.part[n].last]
    <2>1. [st EXCEPT !.part[n].pos = pressed] = [st EXCEPT !.part[n] = part]
      BY DEF StateOf
    <2>2. t = Put(c, [st EXCEPT !.part[n] = part], n, "state", pressed)
      BY <1>5, <2>1 DEF Commit, CommitHoldButton
    <2>3. pressed \in Int /\ part \in [pos : Int, last : Int]
      BY DEF StateOf
    <2>4. "state" \in OutputPorts[k] /\ k # "Switch"
      BY <1>5, KindFacts
    <2> HIDE DEF part, pressed, t
    <2> QED BY <1>3, <2>2, <2>3, <2>4 DEF t
  <1>6. CASE k = "KnobSwitch"
    <2> DEFINE selected == IF st.part[n].last = -1 /\ now = 0 THEN st.part[n].pos ELSE Clamp(now)
               part == [pos |-> selected, last |-> now]
    <2>1. t = Put(c, [st EXCEPT !.part[n] = part], n, "position", selected)
      BY <1>6 DEF Commit, CommitKnobSwitch
    <2>2. selected \in Int /\ part \in [pos : Int, last : Int]
      BY <1>2, <1>6 DEF StateOf, Clamp, Positions
    <2>3. "position" \in OutputPorts[k] /\ k # "Switch"
      BY <1>6, KindFacts
    <2> HIDE DEF part, selected, t
    <2> QED BY <1>3, <2>1, <2>2, <2>3 DEF t
  <1>7. CASE k \in {"Value", "Slider"}
    BY <1>7 DEF Commit
  <1> QED BY <1>4, <1>5, <1>6, <1>7, KindFacts

-----------------------------------------------------------------------------
(* A frame: folds over the components and over the inputs.                   *)

\* ExecuteAll goes through states of the circuit, one component at a time.
LEMMA ExecuteAllRuns ==
    ASSUME NEW c \in Circuits, c.ok, NEW st \in StateOf(c), NEW names \in Seq(ToSet(c.devices))
    PROVE  \E run : /\ run[0] = st
                    /\ \A i \in 1..Len(names) : run[i] = Execute(c, run[i - 1], names[i])
                    /\ \A i \in 0..Len(names) : run[i] \in StateOf(c)
                    /\ ExecuteAll(c, st, names) = run[Len(names)]
  <1> DEFINE n == Len(names)
             W == StateOf(c)
             next(i, s) == Execute(c, s, names[i])
             P(f) == f = [i \in 0..n |-> IF i = 0 THEN st ELSE next(i, f[i - 1])]
             D == [i \in 1..n |-> [s \in W |-> next(i, s)]]
             F == CHOOSE f : P(f)
  <1>1. n \in Nat /\ st \in W
    OBVIOUS
  <1>2. \A i \in 1..n, s \in W : next(i, s) \in W
    <2> SUFFICES ASSUME NEW i \in 1..n, NEW s \in W PROVE Execute(c, s, names[i]) \in StateOf(c)
      OBVIOUS
    <2>1. names[i] \in ToSet(c.devices)
      OBVIOUS
    <2> HIDE DEF n
    <2> QED BY <2>1, ExecuteFacts
  <1>3. ExecuteAll(c, st, names) = F[n]
    BY DEF ExecuteAll
  <1> HIDE DEF n, W, next
  <1>4. D \in [1..n -> [W -> W]]
    BY <1>2
  <1>5. PICK f \in [0..n -> W] : Iterates(f, n, st, D)
    <2> HIDE DEF D
    <2>1. \E f \in [0..n -> W] : Iterates(f, n, st, D)
      BY <1>1, <1>4, IterateExists
    <2> QED BY <2>1
  <1>6. P(f)
    <2>1. \A i \in 0..n : i # 0 => i \in 1..n /\ i - 1 \in 0..n
      BY <1>1
    <2>2. \A i \in 0..n : i # 0 => D[i][f[i - 1]] = next(i, f[i - 1])
      BY <1>5, <2>1
    <2> HIDE DEF D
    <2>3. \A i \in 0..n : f[i] = IF i = 0 THEN st ELSE next(i, f[i - 1])
      BY <1>5, <2>2 DEF Iterates
    <2> QED BY <1>5, <2>3
  <1>7. P(F)
    BY <1>6
  <1> HIDE DEF F
  <1>8. F[0] = st /\ \A i \in 1..n : F[i] = next(i, F[i - 1])
    BY <1>1, <1>7
  <1> HIDE DEF P, D
  <1>9. F[0] \in W /\ \A i \in 1..n : F[i - 1] \in W => F[i] \in W
    BY <1>1, <1>2, <1>8
  <1>10. \A i \in 0..n : F[i] \in W
    BY <1>1, <1>9, TypedThroughout
  <1> QED BY <1>3, <1>8, <1>10 DEF n, W, next

\* So does CommitAll.
LEMMA CommitAllRuns ==
    ASSUME NEW c \in Circuits, c.ok, NEW st \in StateOf(c), NEW names \in Seq(ToSet(c.devices))
    PROVE  \E run : /\ run[0] = st
                    /\ \A i \in 1..Len(names) : run[i] = Commit(c, run[i - 1], names[i])
                    /\ \A i \in 0..Len(names) : run[i] \in StateOf(c)
                    /\ CommitAll(c, st, names) = run[Len(names)]
  <1> DEFINE n == Len(names)
             W == StateOf(c)
             next(i, s) == Commit(c, s, names[i])
             P(f) == f = [i \in 0..n |-> IF i = 0 THEN st ELSE next(i, f[i - 1])]
             D == [i \in 1..n |-> [s \in W |-> next(i, s)]]
             F == CHOOSE f : P(f)
  <1>1. n \in Nat /\ st \in W
    OBVIOUS
  <1>2. \A i \in 1..n, s \in W : next(i, s) \in W
    <2> SUFFICES ASSUME NEW i \in 1..n, NEW s \in W PROVE Commit(c, s, names[i]) \in StateOf(c)
      OBVIOUS
    <2>1. names[i] \in ToSet(c.devices)
      OBVIOUS
    <2> HIDE DEF n
    <2> QED BY <2>1, CommitFacts
  <1>3. CommitAll(c, st, names) = F[n]
    BY DEF CommitAll
  <1> HIDE DEF n, W, next
  <1>4. D \in [1..n -> [W -> W]]
    BY <1>2
  <1>5. PICK f \in [0..n -> W] : Iterates(f, n, st, D)
    <2> HIDE DEF D
    <2>1. \E f \in [0..n -> W] : Iterates(f, n, st, D)
      BY <1>1, <1>4, IterateExists
    <2> QED BY <2>1
  <1>6. P(f)
    <2>1. \A i \in 0..n : i # 0 => i \in 1..n /\ i - 1 \in 0..n
      BY <1>1
    <2>2. \A i \in 0..n : i # 0 => D[i][f[i - 1]] = next(i, f[i - 1])
      BY <1>5, <2>1
    <2> HIDE DEF D
    <2>3. \A i \in 0..n : f[i] = IF i = 0 THEN st ELSE next(i, f[i - 1])
      BY <1>5, <2>2 DEF Iterates
    <2> QED BY <1>5, <2>3
  <1>7. P(F)
    BY <1>6
  <1> HIDE DEF F
  <1>8. F[0] = st /\ \A i \in 1..n : F[i] = next(i, F[i - 1])
    BY <1>1, <1>7
  <1> HIDE DEF P, D
  <1>9. F[0] \in W /\ \A i \in 1..n : F[i - 1] \in W => F[i] \in W
    BY <1>1, <1>2, <1>8
  <1>10. \A i \in 0..n : F[i] \in W
    BY <1>1, <1>9, TypedThroughout
  <1> QED BY <1>3, <1>8, <1>10 DEF n, W, next

\* An input sets the net of the port its id stands for, if it stands for one.
LEMMA OverrideFacts ==
    ASSUME NEW c \in Circuits, c.ok, NEW st \in StateOf(c), NEW input \in Inputs
    PROVE  LET t == Override(c, st, input)
           IN /\ t \in StateOf(c) /\ t.part = st.part
              /\ input.port \in Ports(c) /\ input.key = Lookup(c, input.port) =>
                    \A net \in Nets(c) :
                       t.values[net] = IF net = Net[c][input.port] THEN input.value ELSE st.values[net]
  <1> DEFINE t == Override(c, st, input)
             net == Net[c][Keys[c][input.key]]
  <1>1. input.value \in Int
    <2>1. input.value \in Levels \cup 0..2
      BY DEF Inputs
    <2>2. \A v \in Levels \cup 0..2 : v \in Int
      BY InputsAssumption
    <2> QED BY <2>1, <2>2
  <1>2. CASE input.key \in DOMAIN Keys[c]
    <2>1. net \in Nets(c)
      <3>1. Keys[c][input.key] \in Ports(c)
        BY <1>2, KeysFacts DEF ToSet
      <3> QED BY <3>1, AtFacts
    <2>2. t = [st EXCEPT !.values[net] = input.value]
      BY <1>2 DEF Override
    <2>3. input.port \in Ports(c) /\ input.key = Lookup(c, input.port) => net = Net[c][input.port]
      BY LookupFacts
    <2> HIDE DEF net, t
    <2> QED BY <1>1, <2>1, <2>2, <2>3 DEF StateOf, t
  <1>3. CASE input.key \notin DOMAIN Keys[c]
    BY <1>3, LookupFacts DEF Override
  <1> QED BY <1>2, <1>3

\* So does Overridden, one input at a time.
LEMMA OverriddenRuns ==
    ASSUME NEW c \in Circuits, c.ok, NEW st \in StateOf(c), NEW inputs \in Seq(Inputs)
    PROVE  \E run : /\ run[0] = st
                    /\ \A i \in 1..Len(inputs) : run[i] = Override(c, run[i - 1], inputs[i])
                    /\ \A i \in 0..Len(inputs) : run[i] \in StateOf(c)
                    /\ Overridden(c, st, inputs) = run[Len(inputs)]
  <1> DEFINE n == Len(inputs)
             W == StateOf(c)
             next(i, s) == Override(c, s, inputs[i])
             P(f) == f = [i \in 0..n |-> IF i = 0 THEN st ELSE next(i, f[i - 1])]
             D == [i \in 1..n |-> [s \in W |-> next(i, s)]]
             F == CHOOSE f : P(f)
  <1>1. n \in Nat /\ st \in W
    OBVIOUS
  <1>2. \A i \in 1..n, s \in W : next(i, s) \in W
    <2> SUFFICES ASSUME NEW i \in 1..n, NEW s \in W PROVE Override(c, s, inputs[i]) \in StateOf(c)
      OBVIOUS
    <2>1. inputs[i] \in Inputs
      OBVIOUS
    <2> HIDE DEF n
    <2> QED BY <2>1, OverrideFacts
  <1>3. Overridden(c, st, inputs) = F[n]
    BY DEF Overridden
  <1> HIDE DEF n, W, next
  <1>4. D \in [1..n -> [W -> W]]
    BY <1>2
  <1>5. PICK f \in [0..n -> W] : Iterates(f, n, st, D)
    <2> HIDE DEF D
    <2>1. \E f \in [0..n -> W] : Iterates(f, n, st, D)
      BY <1>1, <1>4, IterateExists
    <2> QED BY <2>1
  <1>6. P(f)
    <2>1. \A i \in 0..n : i # 0 => i \in 1..n /\ i - 1 \in 0..n
      BY <1>1
    <2>2. \A i \in 0..n : i # 0 => D[i][f[i - 1]] = next(i, f[i - 1])
      BY <1>5, <2>1
    <2> HIDE DEF D
    <2>3. \A i \in 0..n : f[i] = IF i = 0 THEN st ELSE next(i, f[i - 1])
      BY <1>5, <2>2 DEF Iterates
    <2> QED BY <1>5, <2>3
  <1>7. P(F)
    BY <1>6
  <1> HIDE DEF F
  <1>8. F[0] = st /\ \A i \in 1..n : F[i] = next(i, F[i - 1])
    BY <1>1, <1>7
  <1> HIDE DEF P, D
  <1>9. F[0] \in W /\ \A i \in 1..n : F[i - 1] \in W => F[i] \in W
    BY <1>1, <1>2, <1>8
  <1>10. \A i \in 0..n : F[i] \in W
    BY <1>1, <1>9, TypedThroughout
  <1> QED BY <1>3, <1>8, <1>10 DEF n, W, next

-----------------------------------------------------------------------------
\* What all the executions of a list of components leave behind: no part changes,
\* and a net keeps the value it had after the last component that writes it.
LEMMA ExecuteAllFacts ==
    ASSUME NEW c \in Circuits, c.ok, NEW st \in StateOf(c), NEW names \in Seq(ToSet(c.devices))
    PROVE  \E run : /\ run[0] = st
                    /\ \A i \in 1..Len(names) : run[i] = Execute(c, run[i - 1], names[i])
                    /\ \A i \in 0..Len(names) : run[i] \in StateOf(c) /\ run[i].part = st.part
                    /\ ExecuteAll(c, st, names) = run[Len(names)]
                    /\ \A k \in 0..Len(names), net \in Nets(c) :
                          (\A j \in 1..Len(names) : j > k => net \notin Writes(c, names[j]))
                          => run[Len(names)].values[net] = run[k].values[net]
  <1> DEFINE n == Len(names)
  <1>1. PICK run : /\ run[0] = st
                   /\ \A i \in 1..n : run[i] = Execute(c, run[i - 1], names[i])
                   /\ \A i \in 0..n : run[i] \in StateOf(c)
                   /\ ExecuteAll(c, st, names) = run[n]
    BY ExecuteAllRuns
  <1>2. n \in Nat /\ \A i \in 1..n : names[i] \in ToSet(c.devices)
    OBVIOUS
  <1> HIDE DEF n
  <1>3. ASSUME NEW i \in 1..n
        PROVE  /\ run[i].part = run[i - 1].part
               /\ \A net \in Nets(c) \ Writes(c, names[i]) : run[i].values[net] = run[i - 1].values[net]
    <2>1. i - 1 \in 0..n
      BY <1>2
    <2> QED BY <1>1, <1>2, <2>1, ExecuteFacts
  <1> DEFINE I == {i \in 0..n : run[i].part = st.part}
  <1>4. 0 \in I
    BY <1>1, <1>2
  <1>5. ASSUME NEW i \in 0..n, i # 0, i - 1 \in I PROVE i \in I
    <2>1. i \in 1..n
      BY <1>2, <1>5
    <2> QED BY <1>3, <1>5, <2>1
  <1> HIDE DEF I
  <1>6. 0..n \subseteq I
    BY <1>2, <1>4, <1>5, Upward
  <1>7. ASSUME NEW k \in 0..n, NEW net \in Nets(c), \A j \in 1..n : j > k => net \notin Writes(c, names[j])
        PROVE  run[n].values[net] = run[k].values[net]
    <2> DEFINE J == {i \in 0..n : i >= k => run[i].values[net] = run[k].values[net]}
    <2>1. 0 \in J
      BY <1>2
    <2>2. ASSUME NEW i \in 0..n, i # 0, i - 1 \in J PROVE i \in J
      <3>1. i \in 1..n
        BY <1>2, <2>2
      <3>2. CASE i > k
        <4>1. run[i].values[net] = run[i - 1].values[net] /\ i - 1 >= k
          BY <1>3, <1>7, <3>1, <3>2
        <4> QED BY <2>2, <4>1
      <3>3. CASE i = k
        BY <3>3
      <3>4. CASE i < k
        BY <3>4
      <3> QED BY <3>2, <3>3, <3>4
    <2> HIDE DEF J
    <2>3. 0..n \subseteq J
      BY <1>2, <2>1, <2>2, Upward
    <2>4. n \in J /\ n >= k
      BY <1>2, <2>3
    <2> QED BY <2>4 DEF J
  <1>8. \A i \in 0..n : run[i] \in StateOf(c) /\ run[i].part = st.part
    BY <1>1, <1>6 DEF I
  <1> QED BY <1>1, <1>7, <1>8 DEF n

\* The latches are outputs.
LEMMA LateDriven ==
    ASSUME NEW c \in Circuits
    PROVE  /\ Late(c) \subseteq Driven(c)
           /\ \A n \in ToSet(c.devices) : Latches(c, n) \subseteq Late(c) /\ Writes(c, n) \subseteq Driven(c)
  <1>1. \A n \in ToSet(c.devices) : Latches(c, n) \subseteq Writes(c, n)
    BY DEF Latches, Writes, At
  <1>2. Late(c) = UNION {Latches(c, n) : n \in ToSet(c.devices)}
    BY DEF Late, Latches
  <1> QED BY <1>1, <1>2 DEF Driven

\* What all the commits of a list of components leave behind: only latches change,
\* and a switch has looked at its control once, however often it was committed.
LEMMA CommitAllFacts ==
    ASSUME NEW c \in Circuits, c.ok, NEW st \in StateOf(c), NEW names \in Seq(ToSet(c.devices))
    PROVE  LET t == CommitAll(c, st, names)
           IN /\ t \in StateOf(c)
              /\ \A net \in Nets(c) \ Late(c) : t.values[net] = st.values[net]
              /\ \A m \in ToSet(c.devices) \ ToSet(names) : t.part[m] = st.part[m]
              /\ \A m \in ToSet(names) :
                    c.kind[m] = "Switch" /\ At(c, m, "control") \notin Late(c)
                    => t.part[m] = SwitchAfter(c, st, m)
  <1> DEFINE n == Len(names)
  <1>1. PICK run : /\ run[0] = st
                   /\ \A i \in 1..n : run[i] = Commit(c, run[i - 1], names[i])
                   /\ \A i \in 0..n : run[i] \in StateOf(c)
                   /\ CommitAll(c, st, names) = run[n]
    BY CommitAllRuns
  <1>2. /\ n \in Nat /\ \A i \in 1..n : names[i] \in ToSet(c.devices)
        /\ DOMAIN names = 1..n
    OBVIOUS
  <1> HIDE DEF n
  <1>3. ASSUME NEW i \in 1..n
        PROVE  /\ \A net \in Nets(c) \ Late(c) : run[i].values[net] = run[i - 1].values[net]
               /\ \A m \in ToSet(c.devices) \ {names[i]} : run[i].part[m] = run[i - 1].part[m]
               /\ c.kind[names[i]] = "Switch" => run[i].part[names[i]] = SwitchAfter(c, run[i - 1], names[i])
    <2>1. i - 1 \in 0..n
      BY <1>2
    <2>2. Latches(c, names[i]) \subseteq Late(c)
      BY <1>2, LateDriven
    <2> QED BY <1>1, <1>2, <2>1, <2>2, CommitFacts
  <1> DEFINE Quiet(i) == \A net \in Nets(c) \ Late(c) : run[i].values[net] = st.values[net]
             Apart(i) == \A m \in ToSet(c.devices) : (\A j \in 1..i : names[j] # m) => run[i].part[m] = st.part[m]
             Moved(i) == \A j \in 1..i :
                            c.kind[names[j]] = "Switch" /\ At(c, names[j], "control") \notin Late(c)
                            => run[i].part[names[j]] = SwitchAfter(c, st, names[j])
             I == {i \in 0..n : Quiet(i) /\ Apart(i) /\ Moved(i)}
  <1>4. 0 \in I
    BY <1>1, <1>2
  <1>5. ASSUME NEW i \in 0..n, i # 0, i - 1 \in I PROVE i \in I
    <2>1. /\ i \in 1..n /\ i - 1 \in 0..n /\ 1..i - 1 \subseteq 1..i /\ i \in 1..i
          /\ \A j \in 1..i : j \in 1..i - 1 \/ j = i
      BY <1>2, <1>5
    <2>2. Quiet(i - 1) /\ Apart(i - 1) /\ Moved(i - 1)
      BY <1>5
    <2>3. Quiet(i)
      BY <1>3, <2>1, <2>2
    <2>4. Apart(i)
      BY <1>3, <2>1, <2>2
    <2>5. ASSUME NEW j \in 1..i, c.kind[names[j]] = "Switch", At(c, names[j], "control") \notin Late(c)
          PROVE  run[i].part[names[j]] = SwitchAfter(c, st, names[j])
      <3> DEFINE m == names[j]
                 now == Value(c, st, m, "control")
      <3>1. m \in ToSet(c.devices)
        <4>1. j \in 1..n
          BY <1>2, <2>1
        <4> QED BY <1>2, <4>1
      <3>2. Value(c, run[i - 1], m, "control") = now
        <4>1. At(c, m, "control") \in Nets(c)
          <5>1. <<m, "control">> \in Ports(c)
            BY <2>5, <3>1, KindFacts
          <5> QED BY <5>1, AtFacts DEF At
        <4> QED BY <2>2, <2>5, <4>1 DEF Value
      <3>3. CASE names[i] # m
        <4>1. run[i].part[m] = run[i - 1].part[m]
          BY <1>3, <2>1, <3>1, <3>3
        <4>2. j \in 1..i - 1
          BY <2>1, <3>3
        <4>3. run[i - 1].part[m] = SwitchAfter(c, st, m)
          BY <2>2, <2>5, <4>2
        <4> QED BY <4>1, <4>3
      <3>4. CASE names[i] = m
        <4>1. run[i].part[m] = SwitchAfter(c, run[i - 1], m)
          BY <1>3, <2>1, <2>5, <3>4
        <4>2. CASE \A k \in 1..i - 1 : names[k] # m
          <5>1. run[i - 1].part[m] = st.part[m]
            BY <2>2, <3>1, <4>2
          <5> QED BY <3>2, <4>1, <5>1 DEF SwitchAfter
        <4>3. CASE \E k \in 1..i - 1 : names[k] = m
          <5>1. run[i - 1].part[m] = SwitchAfter(c, st, m)
            BY <2>2, <2>5, <4>3
          <5>2. run[i - 1].part[m].last = now
            BY <5>1 DEF SwitchAfter
          <5>3. SwitchAfter(c, run[i - 1], m) = [pos |-> run[i - 1].part[m].pos, last |-> now]
            BY <3>2, <5>2 DEF SwitchAfter
          <5>4. SwitchAfter(c, st, m) = [pos |-> SwitchAfter(c, st, m).pos, last |-> now]
            BY DEF SwitchAfter
          <5> QED BY <4>1, <5>1, <5>3, <5>4
        <4> QED BY <4>2, <4>3
      <3> QED BY <3>3, <3>4
    <2>6. Moved(i)
      BY <2>5
    <2> QED BY <2>3, <2>4, <2>6
  <1> HIDE DEF I
  <1>6. 0..n \subseteq I
    BY <1>2, <1>4, <1>5, Upward
  <1>7. Quiet(n) /\ Apart(n) /\ Moved(n)
    <2>1. n \in I
      BY <1>2, <1>6
    <2> QED BY <2>1 DEF I
  <1> QED BY <1>1, <1>2, <1>7 DEF ToSet

\* The orders of a finite set list its elements.
LEMMA OrdersFacts ==
    ASSUME NEW S, IsFiniteSet(S), NEW order \in SetToSeqs(S)
    PROVE  order \in Seq(S) /\ ToSet(order) = S
  <1> DEFINE n == Cardinality(S)
  <1>1. n \in Nat /\ order \in [1..n -> S] /\ \A i, j \in 1..n : i # j => order[i] # order[j]
    BY FS_CardinalityType DEF SetToSeqs
  <1> HIDE DEF n
  <1>2. order \in Seq(S) /\ DOMAIN order = 1..n /\ Len(order) = n
    BY <1>1
  <1>3. Cardinality(ToSet(order)) = n
    BY <1>1, <1>2, DistinctCount DEF Distinct
  <1>4. ToSet(order) \subseteq S
    BY <1>1 DEF ToSet
  <1> QED BY <1>2, <1>3, <1>4, FS_Subset DEF n

\* The components the electrical solver runs are devices, and no switches.
LEMMA OwnedFacts ==
    ASSUME NEW c \in Circuits, NEW owned \in OwnedOrders(c)
    PROVE  /\ owned \in Seq(ToSet(c.devices))
           /\ \A n \in ToSet(owned) : n \in ToSet(c.devices) /\ Role[c.kind[n]] = "None"
  <1> DEFINE set == {n \in ToSet(c.devices) : Role[c.kind[n]] = "None"}
             list == DevicesWith(c, "None")
  <1>1. list \in Seq(set) /\ Distinct(list) /\ ToSet(list) = set
    BY DevicesFacts
  <1>2. IsFiniteSet(set)
    <2> HIDE DEF set, list
    <2> QED BY <1>1, DistinctCount
  <1>3. owned \in SetToSeqs(set)
    BY <1>1 DEF OwnedOrders
  <1> HIDE DEF set
  <1>4. owned \in Seq(set) /\ ToSet(owned) = set
    BY <1>2, <1>3, OrdersFacts
  <1>5. set \subseteq ToSet(c.devices)
    BY DEF set
  <1>6. owned \in Seq(ToSet(c.devices))
    BY <1>4, <1>5
  <1> QED BY <1>4, <1>6 DEF set

\* What a frame runs: the sources, then the consumers, each once.
LEMMA ScheduledFacts ==
    ASSUME NEW c \in Circuits
    PROVE  LET sources == DevicesWith(c, "Source")
               scheduled == sources \o Consumers[c]
           IN /\ scheduled \in Seq(ToSet(c.devices))
              /\ DOMAIN scheduled = 1..Len(scheduled) /\ Len(scheduled) \in Nat
              /\ \A n \in ToSet(c.devices) : c.kind[n] \in {"Value", "Slider", "Switch"} <=> n \in ToSet(scheduled)
              /\ \A i, j \in DOMAIN scheduled :
                    c.kind[scheduled[i]] \in {"Slider", "Switch"} /\ scheduled[i] \notin OnOrBehindCycle(c)
                    /\ Before(c, scheduled[j], scheduled[i])
                    => j < i
              /\ Distinct(scheduled)
  <1> DEFINE sources == DevicesWith(c, "Source")
             consumers == Consumers[c]
             q == sources \o consumers
             all == ToSet(c.devices)
             S == {n \in all : Role[c.kind[n]] = "Source"}
             C == {n \in all : Role[c.kind[n]] = "Consumer"}
  <1>1. sources \in Seq(S) /\ Distinct(sources) /\ ToSet(sources) = S
    BY DevicesFacts
  <1>2. /\ consumers \in Seq(C) /\ Distinct(consumers) /\ ToSet(consumers) = C
        /\ \A i \in DOMAIN consumers : consumers[i] \notin OnOrBehindCycle(c) =>
              \A w \in C : Before(c, w, consumers[i]) => \E j \in DOMAIN consumers : j < i /\ consumers[j] = w
    BY WritersFirst
  <1>3. \A n \in all : (n \in S <=> c.kind[n] = "Value") /\ (n \in C <=> c.kind[n] \in {"Slider", "Switch"})
    BY KindFacts
  <1>4. S \cap C = {} /\ S \subseteq all /\ C \subseteq all
    BY <1>3
  <1> HIDE DEF S, C, sources, consumers, all
  <1>5. sources \in Seq(all) /\ consumers \in Seq(all)
    BY <1>1, <1>2, <1>4
  <1>6. /\ q \in Seq(all) /\ Len(sources) \in Nat /\ Len(consumers) \in Nat
        /\ DOMAIN sources = 1..Len(sources) /\ DOMAIN consumers = 1..Len(consumers)
        /\ DOMAIN q = 1..Len(sources) + Len(consumers) /\ Len(q) = Len(sources) + Len(consumers)
        /\ \A i \in 1..Len(sources) : q[i] = sources[i]
        /\ \A i \in 1..Len(consumers) : q[Len(sources) + i] = consumers[i]
        /\ ToSet(q) = ToSet(sources) \cup ToSet(consumers) /\ Distinct(q)
    BY <1>1, <1>2, <1>4, <1>5, ConcatFacts
  <1> HIDE DEF q
  <1>7. \A i \in DOMAIN q : i \in 1..Len(sources) \/ (i - Len(sources) \in 1..Len(consumers)
                                                       /\ q[i] = consumers[i - Len(sources)])
    <2> TAKE i \in DOMAIN q
    <2>1. i \in 1..Len(sources) \/ (i - Len(sources) \in 1..Len(consumers) /\ Len(sources) + (i - Len(sources)) = i)
      BY <1>6
    <2> QED BY <1>6, <2>1
  <1>8. ASSUME NEW i \in DOMAIN q, NEW j \in DOMAIN q, c.kind[q[i]] \in {"Slider", "Switch"},
               q[i] \notin OnOrBehindCycle(c), Before(c, q[j], q[i])
        PROVE  j < i
    <2>1. \A k \in 1..Len(sources) : sources[k] \in S
      BY <1>1, <1>6 DEF ToSet
    <2>2. i \notin 1..Len(sources)
      BY <1>3, <1>4, <1>6, <1>8, <2>1
    <2>3. i - Len(sources) \in 1..Len(consumers) /\ q[i] = consumers[i - Len(sources)]
      BY <1>7, <2>2
    <2>4. CASE j \in 1..Len(sources)
      BY <1>6, <2>3, <2>4
    <2>5. CASE j \notin 1..Len(sources)
      <3>1. j - Len(sources) \in 1..Len(consumers) /\ q[j] = consumers[j - Len(sources)]
        BY <1>7, <2>5
      <3>2. q[j] \in C
        BY <1>2, <1>6, <3>1 DEF ToSet
      <3>3. PICK k \in 1..Len(consumers) : k < i - Len(sources) /\ consumers[k] = q[j]
        BY <1>2, <1>6, <1>8, <2>3, <3>2
      <3>4. k = j - Len(sources)
        BY <1>2, <1>6, <3>1, <3>3 DEF Distinct
      <3> QED BY <1>6, <3>1, <3>3, <3>4
    <2> QED BY <2>4, <2>5
  <1>9. \A n \in all : c.kind[n] \in {"Value", "Slider", "Switch"} <=> n \in ToSet(q)
    BY <1>1, <1>2, <1>3, <1>6
  <1> QED BY <1>6, <1>8, <1>9 DEF q, all, sources, consumers

\* What a consumer reads and writes are nets.
LEMMA ConsumerNets ==
    ASSUME NEW c \in Circuits, c.ok, NEW n \in ToSet(c.devices), c.kind[n] \in {"Slider", "Switch"}
    PROVE  In(c, n) \in Nets(c) /\ Out(c, n) \in Nets(c)
  <1>1. CASE c.kind[n] = "Slider"
    <2>1. <<n, "control">> \in Ports(c) /\ <<n, "out">> \in Ports(c)
      BY <1>1, KindFacts
    <2> QED BY <1>1, <2>1, AtFacts DEF In, Out, At
  <1>2. CASE c.kind[n] = "Switch"
    <2>1. <<n, "v_in">> \in Ports(c) /\ <<n, "v_out">> \in Ports(c)
      BY <1>2, KindFacts
    <2> QED BY <1>2, <2>1, AtFacts DEF In, Out, At
  <1> QED BY <1>1, <1>2

\* A consumer that nobody overtakes has passed on what its input ends up with.
LEMMA ExecuteSettles ==
    ASSUME NEW c \in Circuits, c.ok, NEW st \in StateOf(c), NEW names \in Seq(ToSet(c.devices)),
           NEW k \in 1..Len(names), c.kind[names[k]] \in {"Slider", "Switch"},
           \A j \in 1..Len(names) :
              j > k => {In(c, names[k]), Out(c, names[k])} \cap Writes(c, names[j]) = {}
    PROVE  LET t == ExecuteAll(c, st, names)
               n == names[k]
           IN t.values[Out(c, n)] = IF c.kind[n] = "Slider" \/ st.part[n].pos = 1
                                    THEN t.values[In(c, n)] ELSE 0
  <1> DEFINE n == names[k]
             len == Len(names)
  <1>1. PICK run : /\ \A i \in 1..len : run[i] = Execute(c, run[i - 1], names[i])
                   /\ \A i \in 0..len : run[i] \in StateOf(c) /\ run[i].part = st.part
                   /\ ExecuteAll(c, st, names) = run[len]
                   /\ \A i \in 0..len, net \in Nets(c) :
                         (\A j \in 1..len : j > i => net \notin Writes(c, names[j]))
                         => run[len].values[net] = run[i].values[net]
    BY ExecuteAllFacts
  <1>2. len \in Nat /\ n \in ToSet(c.devices) /\ k \in 1..len
    OBVIOUS
  <1> HIDE DEF len
  <1>3. k \in 0..len /\ k - 1 \in 0..len
    BY <1>2
  <1>4. In(c, n) \in Nets(c) /\ Out(c, n) \in Nets(c)
    BY <1>2, ConsumerNets
  <1> DEFINE v == IF c.kind[n] = "Slider" \/ st.part[n].pos = 1 THEN run[k - 1].values[In(c, n)] ELSE 0
  <1>5. \A net \in Nets(c) : run[k].values[net] = IF net = Out(c, n) THEN v ELSE run[k - 1].values[net]
    <2>1. run[k] = Execute(c, run[k - 1], n) /\ run[k - 1] \in StateOf(c) /\ run[k - 1].part = st.part
      BY <1>1, <1>2, <1>3
    <2> QED BY <1>2, <2>1, ExecuteFacts
  <1>6. /\ run[len].values[Out(c, n)] = run[k].values[Out(c, n)]
        /\ run[len].values[In(c, n)] = run[k].values[In(c, n)]
    BY <1>1, <1>3, <1>4 DEF len
  <1>7. CASE In(c, n) = Out(c, n)
    BY <1>1, <1>4, <1>5, <1>6, <1>7
  <1>8. CASE In(c, n) # Out(c, n)
    BY <1>1, <1>4, <1>5, <1>6, <1>8
  <1> QED BY <1>7, <1>8

\* The port a consumer reads is no output.
LEMMA ReadsIn ==
    ASSUME NEW c \in Circuits, NEW n \in ToSet(c.devices), c.kind[n] \in {"Slider", "Switch"}
    PROVE  In(c, n) \in Reads(c, n) /\ Out(c, n) \in Writes(c, n)
  <1>1. CASE c.kind[n] = "Slider"
    <2>1. PortNames[c.kind[n]] = <<"control", "out">> /\ OutputPorts[c.kind[n]] = {"out"}
      BY <1>1 DEF PortNames, OutputPorts
    <2>2. "control" \in ToSet(PortNames[c.kind[n]]) \ OutputPorts[c.kind[n]] /\ "out" \in OutputPorts[c.kind[n]]
      BY <2>1 DEF ToSet
    <2> QED BY <1>1, <2>2 DEF In, Out, At, Reads, Writes
  <1>2. CASE c.kind[n] = "Switch"
    <2>1. PortNames[c.kind[n]] = <<"control", "state", "v_in", "v_out">> /\ OutputPorts[c.kind[n]] = {"state", "v_out"}
      BY <1>2 DEF PortNames, OutputPorts
    <2>2. "v_in" \in ToSet(PortNames[c.kind[n]]) \ OutputPorts[c.kind[n]] /\ "v_out" \in OutputPorts[c.kind[n]]
      BY <2>1 DEF ToSet
    <2> QED BY <1>2, <2>2 DEF In, Out, At, Reads, Writes
  <1> QED BY <1>1, <1>2

\* What a frame does: undriven nets stay, the switches look at their controls,
\* and a consumer off the cycles passes on what its input ends up with.
LEMMA SteppedFacts ==
    ASSUME NEW c \in Circuits, c.ok, NEW owned \in OwnedOrders(c), NEW st \in StateOf(c)
    PROVE  LET t == Stepped(c, owned, st)
           IN /\ t \in StateOf(c)
              /\ \A net \in Nets(c) \ Driven(c) : t.values[net] = st.values[net]
              /\ \A m \in ToSet(c.devices) :
                    c.kind[m] = "Switch" /\ At(c, m, "control") \notin Driven(c)
                    => t.part[m] = SwitchAfter(c, st, m)
              /\ \A n \in ToSet(Consumers[c]) \ OnOrBehindCycle(c) :
                    (/\ \A m \in ToSet(c.devices) \ {n} : Out(c, n) \notin Writes(c, m)
                     /\ {In(c, n), Out(c, n)} \cap Late(c) = {})
                    => t.values[Out(c, n)] = IF c.kind[n] = "Slider" \/ st.part[n].pos = 1
                                             THEN t.values[In(c, n)] ELSE 0
  <1> DEFINE scheduled == DevicesWith(c, "Source") \o Consumers[c]
             a == ExecuteAll(c, st, scheduled)
             b == CommitAll(c, a, scheduled)
             t == CommitAll(c, b, owned)
             all == ToSet(c.devices)
  <1>1. /\ scheduled \in Seq(all)
        /\ DOMAIN scheduled = 1..Len(scheduled) /\ Len(scheduled) \in Nat
        /\ \A n \in all : c.kind[n] \in {"Value", "Slider", "Switch"} <=> n \in ToSet(scheduled)
        /\ \A i, j \in DOMAIN scheduled :
              c.kind[scheduled[i]] \in {"Slider", "Switch"} /\ scheduled[i] \notin OnOrBehindCycle(c)
              /\ Before(c, scheduled[j], scheduled[i])
              => j < i
        /\ Distinct(scheduled)
    BY ScheduledFacts
  <1>2. Stepped(c, owned, st) = t
    BY DEF Stepped
  <1> HIDE DEF scheduled
  <1>3. owned \in Seq(all) /\ \A n \in ToSet(owned) : n \in all /\ Role[c.kind[n]] = "None"
    BY OwnedFacts
  <1>4. /\ a \in StateOf(c) /\ a.part = st.part
        /\ \A net \in Nets(c) \ Driven(c) : a.values[net] = st.values[net]
    <2>1. PICK run : /\ run[0] = st
                     /\ \A i \in 0..Len(scheduled) : run[i] \in StateOf(c) /\ run[i].part = st.part
                     /\ a = run[Len(scheduled)]
                     /\ \A k \in 0..Len(scheduled), net \in Nets(c) :
                           (\A j \in 1..Len(scheduled) : j > k => net \notin Writes(c, scheduled[j]))
                           => run[Len(scheduled)].values[net] = run[k].values[net]
      BY <1>1, ExecuteAllFacts
    <2>2. 0 \in 0..Len(scheduled) /\ Len(scheduled) \in 0..Len(scheduled)
      BY <1>1
    <2>3. \A j \in 1..Len(scheduled) : Writes(c, scheduled[j]) \subseteq Driven(c)
      BY <1>1, LateDriven DEF ToSet
    <2> QED BY <2>1, <2>2, <2>3
  <1>5. /\ b \in StateOf(c)
        /\ \A net \in Nets(c) \ Late(c) : b.values[net] = a.values[net]
        /\ \A m \in ToSet(scheduled) :
              c.kind[m] = "Switch" /\ At(c, m, "control") \notin Late(c)
              => b.part[m] = SwitchAfter(c, a, m)
    BY <1>1, <1>4, CommitAllFacts
  <1>6. /\ t \in StateOf(c)
        /\ \A net \in Nets(c) \ Late(c) : t.values[net] = b.values[net]
        /\ \A m \in all \ ToSet(owned) : t.part[m] = b.part[m]
    BY <1>3, <1>5, CommitAllFacts
  <1>7. Late(c) \subseteq Driven(c)
    BY LateDriven
  <1>8. ASSUME NEW m \in all, c.kind[m] = "Switch", At(c, m, "control") \notin Driven(c)
        PROVE  t.part[m] = SwitchAfter(c, st, m)
    <2>1. m \in ToSet(scheduled) /\ m \notin ToSet(owned)
      BY <1>1, <1>3, <1>8 DEF Role
    <2>2. t.part[m] = SwitchAfter(c, a, m)
      BY <1>5, <1>6, <1>7, <1>8, <2>1
    <2>3. At(c, m, "control") \in Nets(c)
      <3>1. <<m, "control">> \in Ports(c)
        BY <1>8, KindFacts
      <3> QED BY <3>1, AtFacts DEF At
    <2>4. Value(c, a, m, "control") = Value(c, st, m, "control")
      BY <1>4, <1>8, <2>3 DEF Value
    <2>5. SwitchAfter(c, a, m) = SwitchAfter(c, st, m)
      <3> HIDE DEF a
      <3> QED BY <1>4, <2>4 DEF SwitchAfter
    <2> QED BY <2>2, <2>5
  <1>9. ASSUME NEW n \in ToSet(Consumers[c]) \ OnOrBehindCycle(c),
               \A m \in all \ {n} : Out(c, n) \notin Writes(c, m),
               {In(c, n), Out(c, n)} \cap Late(c) = {}
        PROVE  t.values[Out(c, n)] = IF c.kind[n] = "Slider" \/ st.part[n].pos = 1
                                     THEN t.values[In(c, n)] ELSE 0
    <2>1. n \in all /\ c.kind[n] \in {"Slider", "Switch"}
      <3>1. n \in all /\ Role[c.kind[n]] = "Consumer"
        BY WritersFirst
      <3> QED BY <3>1, KindFacts
    <2>2. PICK k \in DOMAIN scheduled : scheduled[k] = n
      <3>1. n \in ToSet(scheduled)
        BY <1>1, <2>1
      <3> QED BY <3>1 DEF ToSet
    <2>3. In(c, n) \in Reads(c, n) /\ Out(c, n) \in Writes(c, n)
      BY <2>1, ReadsIn
    <2>4. ASSUME NEW j \in 1..Len(scheduled), j > k
          PROVE  {In(c, n), Out(c, n)} \cap Writes(c, scheduled[j]) = {}
      <3>1. scheduled[j] \in all /\ scheduled[j] # n
        BY <1>1, <2>2, <2>4 DEF Distinct
      <3>2. Out(c, n) \notin Writes(c, scheduled[j])
        BY <1>9, <3>1
      <3>3. ~Before(c, scheduled[j], n)
        <4>1. Before(c, scheduled[j], n) => j < k
          BY <1>1, <1>9, <2>1, <2>2
        <4>2. ~(j < k)
          BY <1>1, <2>2, <2>4
        <4> QED BY <4>1, <4>2
      <3>4. In(c, n) \notin Writes(c, scheduled[j])
        BY <2>3, <3>1, <3>3 DEF Before
      <3> QED BY <3>2, <3>4
    <2>5. a.values[Out(c, n)] = IF c.kind[n] = "Slider" \/ st.part[n].pos = 1 THEN a.values[In(c, n)] ELSE 0
      BY <1>1, <2>1, <2>2, <2>4, ExecuteSettles
    <2>6. \A net \in {In(c, n), Out(c, n)} : t.values[net] = a.values[net]
      <3>1. {In(c, n), Out(c, n)} \subseteq Nets(c)
        BY <2>1, ConsumerNets
      <3> QED BY <1>5, <1>6, <1>9, <3>1
    <2> QED BY <2>5, <2>6
  <1>10. \A net \in Nets(c) \ Driven(c) : t.values[net] = st.values[net]
    BY <1>4, <1>5, <1>6, <1>7
  <1> QED BY <1>2, <1>6, <1>8, <1>9, <1>10

\* A simulation starts with every control at zero, and the switches know it.
LEMMA StartedFacts ==
    ASSUME NEW c \in Circuits, c.ok, NEW owned \in OwnedOrders(c)
    PROVE  LET t == Started(c, owned)
           IN /\ t \in StateOf(c)
              /\ \A m \in ToSet(c.devices) :
                    c.kind[m] = "Switch" /\ At(c, m, "control") \notin Driven(c)
                    => t.part[m].last = t.values[At(c, m, "control")]
  <1> DEFINE zero == [values |-> [net \in Nets(c) |-> 0],
                      part   |-> [n \in ToSet(c.devices) |-> InitialPart(c, n)]]
             sources == DevicesWith(c, "Source")
             b == CommitAll(c, zero, owned)
             t == ExecuteAll(c, b, sources)
  <1>1. Started(c, owned) = t
    BY DEF Started
  <1>2. zero \in StateOf(c)
    <2>1. \A n \in ToSet(c.devices) : InitialPart(c, n) \in [pos : Int, last : Int]
      <3> TAKE n \in ToSet(c.devices)
      <3>1. c.param[n] \in Int
        BY CircuitsAssumption
      <3>2. CASE c.kind[n] = "Switch"
        BY <3>1, <3>2 DEF InitialPart
      <3>3. CASE c.kind[n] = "KnobSwitch"
        BY <3>1, <3>3 DEF InitialPart, Clamp, Positions
      <3>4. CASE c.kind[n] \notin {"Switch", "KnobSwitch"}
        BY <3>4 DEF InitialPart
      <3> QED BY <3>2, <3>3, <3>4
    <2> QED BY <2>1 DEF StateOf
  <1>3. /\ \A net \in Nets(c) : zero.values[net] = 0
        /\ \A m \in ToSet(c.devices) : c.kind[m] = "Switch" => zero.part[m].last = 0
    BY DEF InitialPart
  <1> HIDE DEF zero
  <1>4. owned \in Seq(ToSet(c.devices)) /\ \A n \in ToSet(owned) : Role[c.kind[n]] = "None"
    BY OwnedFacts
  <1>5. /\ b \in StateOf(c)
        /\ \A net \in Nets(c) \ Late(c) : b.values[net] = zero.values[net]
        /\ \A m \in ToSet(c.devices) \ ToSet(owned) : b.part[m] = zero.part[m]
    BY <1>2, <1>4, CommitAllFacts
  <1>6. Late(c) \subseteq Driven(c)
    BY LateDriven
  <1>7. sources \in Seq(ToSet(c.devices))
    <2>1. sources \in Seq({n \in ToSet(c.devices) : Role[c.kind[n]] = "Source"})
      BY DevicesFacts
    <2> QED BY <2>1
  <1> HIDE DEF b, sources
  <1>8. /\ t \in StateOf(c) /\ t.part = b.part
        /\ \A net \in Nets(c) \ Driven(c) : t.values[net] = b.values[net]
    <2>1. PICK run : /\ run[0] = b
                     /\ \A i \in 0..Len(sources) : run[i] \in StateOf(c) /\ run[i].part = b.part
                     /\ t = run[Len(sources)]
                     /\ \A k \in 0..Len(sources), net \in Nets(c) :
                           (\A j \in 1..Len(sources) : j > k => net \notin Writes(c, sources[j]))
                           => run[Len(sources)].values[net] = run[k].values[net]
      BY <1>5, <1>7, ExecuteAllFacts DEF b
    <2>2. 0 \in 0..Len(sources) /\ Len(sources) \in 0..Len(sources) /\ DOMAIN sources = 1..Len(sources)
      BY <1>7
    <2>3. \A j \in 1..Len(sources) : Writes(c, sources[j]) \subseteq Driven(c)
      BY <1>7, <2>2, LateDriven DEF ToSet
    <2> HIDE DEF t
    <2> QED BY <2>1, <2>2, <2>3
  <1>9. ASSUME NEW m \in ToSet(c.devices), c.kind[m] = "Switch", At(c, m, "control") \notin Driven(c)
        PROVE  t.part[m].last = t.values[At(c, m, "control")]
    <2>1. At(c, m, "control") \in Nets(c)
      <3>1. <<m, "control">> \in Ports(c)
        BY <1>9, KindFacts
      <3> QED BY <3>1, AtFacts DEF At
    <2>2. m \notin ToSet(owned)
      BY <1>4, <1>9 DEF Role
    <2>3. t.part[m].last = 0
      BY <1>3, <1>5, <1>8, <1>9, <2>2 DEF b
    <2>4. t.values[At(c, m, "control")] = 0
      BY <1>3, <1>5, <1>6, <1>8, <1>9, <2>1 DEF b
    <2> QED BY <2>3, <2>4
  <1> QED BY <1>1, <1>8, <1>9

\* Of the inputs that find their ports, the last one made for a net decides.
LEMMA OverriddenFacts ==
    ASSUME NEW c \in Circuits, c.ok, NEW st \in StateOf(c), NEW inputs \in Seq(Inputs)
    PROVE  LET t == Overridden(c, st, inputs)
               aim(i) == Net[c][inputs[i].port]
           IN /\ t \in StateOf(c) /\ t.part = st.part
              /\ (\A i \in 1..Len(inputs) : inputs[i].port \in Ports(c) /\ inputs[i].key = Lookup(c, inputs[i].port))
                 => \A net \in Nets(c) :
                       /\ (\A i \in 1..Len(inputs) : aim(i) # net) => t.values[net] = st.values[net]
                       /\ \A i \in 1..Len(inputs) :
                             aim(i) = net /\ (\A j \in 1..Len(inputs) : j > i => aim(j) # net)
                             => t.values[net] = inputs[i].value
  <1> DEFINE n == Len(inputs)
             aim(i) == Net[c][inputs[i].port]
             True == \A i \in 1..n : inputs[i].port \in Ports(c) /\ inputs[i].key = Lookup(c, inputs[i].port)
  <1>1. PICK run : /\ run[0] = st
                   /\ \A i \in 1..n : run[i] = Override(c, run[i - 1], inputs[i])
                   /\ \A i \in 0..n : run[i] \in StateOf(c)
                   /\ Overridden(c, st, inputs) = run[n]
    BY OverriddenRuns
  <1>2. n \in Nat /\ \A i \in 1..n : inputs[i] \in Inputs
    OBVIOUS
  <1> HIDE DEF n
  <1>3. ASSUME NEW i \in 1..n
        PROVE  /\ run[i].part = run[i - 1].part
               /\ True => \A net \in Nets(c) :
                     run[i].values[net] = IF net = aim(i) THEN inputs[i].value ELSE run[i - 1].values[net]
    <2>1. i - 1 \in 0..n
      BY <1>2
    <2> DEFINE s == run[i - 1]
               input == inputs[i]
    <2>2. run[i] = Override(c, s, input) /\ s \in StateOf(c) /\ input \in Inputs
      BY <1>1, <1>2, <2>1
    <2>3. True => input.port \in Ports(c) /\ input.key = Lookup(c, input.port)
      OBVIOUS
    <2>4. aim(i) = Net[c][input.port]
      OBVIOUS
    <2> HIDE DEF s, input, aim, True
    <2>5. /\ run[i].part = s.part
          /\ True => \A net \in Nets(c) :
                run[i].values[net] = IF net = aim(i) THEN input.value ELSE s.values[net]
      BY <2>2, <2>3, <2>4, OverrideFacts
    <2> QED BY <2>5 DEF s, input
  <1> HIDE DEF aim, True
  <1> DEFINE Good(i) == /\ run[i].part = st.part
                        /\ True => \A net \in Nets(c) :
                              /\ (\A k \in 1..i : aim(k) # net) => run[i].values[net] = st.values[net]
                              /\ \A k \in 1..i :
                                    aim(k) = net /\ (\A j \in 1..i : j > k => aim(j) # net)
                                    => run[i].values[net] = inputs[k].value
             I == {i \in 0..n : Good(i)}
  <1>4. 0 \in I
    BY <1>1, <1>2
  <1>5. ASSUME NEW i \in 0..n, i # 0, i - 1 \in I PROVE i \in I
    <2>1. /\ i \in 1..n /\ 1..i - 1 \subseteq 1..i /\ i \in 1..i
          /\ \A j \in 1..i : j \in 1..i - 1 \/ j = i
          /\ \A j \in 1..i - 1 : j < i
      BY <1>2, <1>5
    <2>2. Good(i - 1)
      BY <1>5
    <2>3. run[i].part = st.part
      BY <1>3, <2>1, <2>2
    <2>4. ASSUME True, NEW net \in Nets(c), \A k \in 1..i : aim(k) # net
          PROVE  run[i].values[net] = st.values[net]
      BY <1>3, <2>1, <2>2, <2>4
    <2>5. ASSUME True, NEW net \in Nets(c), NEW k \in 1..i, aim(k) = net,
                 \A j \in 1..i : j > k => aim(j) # net
          PROVE  run[i].values[net] = inputs[k].value
      <3>1. run[i].values[net] = IF net = aim(i) THEN inputs[i].value ELSE run[i - 1].values[net]
        BY <1>3, <2>1, <2>5
      <3>2. CASE k = i
        BY <2>5, <3>1, <3>2
      <3>3. CASE k # i
        <4>1. k \in 1..i - 1 /\ i > k /\ aim(i) # net
          BY <2>1, <2>5, <3>3
        <4>2. run[i - 1].values[net] = inputs[k].value
          BY <2>1, <2>2, <2>5, <4>1
        <4> QED BY <3>1, <4>1, <4>2
      <3> QED BY <3>2, <3>3
    <2> QED BY <2>3, <2>4, <2>5
  <1> HIDE DEF I
  <1>6. n \in I
    <2>1. 0..n \subseteq I
      BY <1>2, <1>4, <1>5, Upward
    <2> QED BY <1>2, <2>1
  <1>7. Good(n)
    BY <1>6 DEF I
  <1> QED BY <1>1, <1>2, <1>7 DEF n, aim, True

-----------------------------------------------------------------------------
(* What the contents of the signals need.                                    *)

\* The switches have seen what the user left on their controls.
Seen(c, st) ==
    \A m \in ToSet(c.devices) :
        c.kind[m] = "Switch" /\ At(c, m, "control") \notin Driven(c)
        => st.part[m].last = st.values[At(c, m, "control")]

\* An input of this build is for a port of it; a click turns its control over.
Aimed(input) == input.fresh => input.port \in Ports(build.circuit)
Turns(input) ==
    input.fresh /\ IsClick(input) => input.value = IF state.values[Aim(input)] < 1 THEN 1 ELSE 0

\* Inductive together with IInv: a held button holds one value and there are finitely
\* many; what runs was built, its switches are up to date, and the values the clicks
\* were computed from are still there, since only a frame changes the state.
CInv ==
    /\ TypeOK
    /\ IsFiniteSet(DOMAIN held_buttons)
    /\ \A n \in DOMAIN held_buttons : held_buttons[n].value = BUTTON_HOLD_VALUE
    /\ running =>
          /\ build.circuit.ok
          /\ Seen(build.circuit, state)
          /\ \A input \in Pending : Aimed(input)
          /\ \A input \in ToSet(typed_overrides) : Turns(input)

\* What there is while the simulation runs.
LEMMA WhatRuns ==
    ASSUME IInv, CInv, running
    PROVE  /\ doc \in Circuits /\ build.circuit = doc /\ doc.ok /\ signal_cache = NodeSignals(doc)
           /\ build.owned \in OwnedOrders(doc) /\ state \in StateOf(doc)
  <1>1. build # NoBuild /\ build.circuit = doc /\ signal_cache = NodeSignals(doc) /\ doc \in Circuits
    BY DEF IInv, RunsWhatIsShown
  <1>2. build.owned \in OwnedOrders(build.circuit) /\ state \in StateOf(build.circuit)
    BY <1>1 DEF CInv, TypeOK
  <1>3. doc.ok
    BY <1>1 DEF CInv
  <1> QED BY <1>1, <1>2, <1>3

\* What can be clicked is a device with a control.
LEMMA ClickIsAimed ==
    ASSUME IInv, CInv, NEW n \in DOMAIN signal_cache
    PROVE  running /\ n \in ToSet(doc.devices) /\ <<n, "control">> \in Ports(doc) /\ n \in Nodes
  <1>1. running
    <2> SUFFICES ASSUME ~running PROVE FALSE
      OBVIOUS
    <2>1. signal_cache = <<>>
      BY DEF IInv, RunsWhatIsShown
    <2> QED BY <2>1
  <1>2. doc \in Circuits /\ signal_cache = NodeSignals(doc)
    BY <1>1, WhatRuns
  <1>3. n \in ToSet(doc.devices) /\ Content(doc, n) # "None"
    BY <1>2 DEF NodeSignals
  <1>4. doc.kind[n] # "Value"
    BY <1>3 DEF Content, ContentType
  <1>5. <<n, "control">> \in Ports(doc)
    BY <1>2, <1>3, <1>4, KindFacts
  <1> QED BY <1>1, <1>2, <1>3, <1>5 DEF Nodes

\* The other conjuncts follow when the simulation does not run.
LEMMA IdleContents ==
    ASSUME IInv', CInv, running' = FALSE, paused' \in BOOLEAN, single_step_pending' \in BOOLEAN,
           (build' = NoBuild /\ state' = NoState) \/ UNCHANGED simulation,
           typed_overrides' = typed_overrides \/ typed_overrides' = <<>>,
           held_buttons' = held_buttons \/ held_buttons' = <<>>
    PROVE  CInv'
  <1>1. /\ doc' \in Circuits /\ typed_overrides' \in Seq(Inputs)
        /\ \A n \in DOMAIN held_buttons' : held_buttons'[n] \in Inputs
        /\ signal_cache' = <<>>
    BY DEF IInv, RunsWhatIsShown
  <1>2. DOMAIN signal_cache' = {} /\ DOMAIN <<>> = {} /\ Len(<<>>) = 0
    BY <1>1
  <1>3. Len(typed_overrides') <= MaxPending
    BY <1>2, InputsAssumption DEF CInv, TypeOK
  <1>4. /\ DOMAIN held_buttons' \subseteq Nodes /\ IsFiniteSet(DOMAIN held_buttons')
        /\ \A n \in DOMAIN held_buttons' : held_buttons'[n].value = BUTTON_HOLD_VALUE
    <2>1. CASE held_buttons' = held_buttons
      BY <2>1 DEF CInv, TypeOK
    <2>2. CASE held_buttons' = <<>>
      BY <1>2, <2>2, FS_EmptySet
    <2> QED BY <2>1, <2>2
  <1>5. TypeOK'
    <2>1. \/ build' = NoBuild /\ state' = NoState
          \/ /\ build'.circuit \in Circuits
             /\ build'.owned \in OwnedOrders(build'.circuit)
             /\ state' \in StateOf(build'.circuit)
      BY DEF CInv, TypeOK, simulation
    <2> QED BY <1>1, <1>2, <1>3, <1>4, <2>1 DEF TypeOK
  <1> QED BY <1>4, <1>5 DEF CInv

\* A build starts from the beginning, and what was pending is stale.
LEMMA BuildContents ==
    ASSUME IInv, CInv, IInv', NEW c \in Circuits, doc' = c, Build(c),
           {running', paused', single_step_pending'} \subseteq BOOLEAN
    PROVE  CInv'
  <1>1. PICK owned \in OwnedOrders(c) : build' = [circuit |-> c, owned |-> owned] /\ state' = Started(c, owned)
    BY DEF Build
  <1>2. /\ c.ok /\ signal_cache' = NodeSignals(c)
        /\ AgedInputs = typed_overrides' /\ AgedButtons = held_buttons'
    BY DEF Build
  <1>3. build'.circuit = c /\ build'.owned = owned
    BY <1>1
  <1>4. state' \in StateOf(c) /\ Seen(c, state')
    BY <1>1, <1>2, StartedFacts DEF Seen
  <1>5. /\ typed_overrides' \in Seq(Inputs)
        /\ \A n \in DOMAIN held_buttons' : held_buttons'[n] \in Inputs
        /\ \A input \in Pending' : input.fresh = FALSE
    BY <1>2, BuildAges
  <1>6. Len(typed_overrides') <= MaxPending
    <2>1. typed_overrides \in Seq(Inputs) /\ Len(typed_overrides) <= MaxPending
      BY DEF CInv, TypeOK
    <2>2. DOMAIN typed_overrides' = DOMAIN typed_overrides
      BY <1>2 DEF AgedInputs
    <2>3. Len(typed_overrides') = Len(typed_overrides)
      BY <1>5, <2>1, <2>2
    <2> QED BY <2>1, <2>3
  <1>7. /\ DOMAIN held_buttons' \subseteq Nodes /\ IsFiniteSet(DOMAIN held_buttons')
        /\ \A n \in DOMAIN held_buttons' : held_buttons'[n].value = BUTTON_HOLD_VALUE
    <2>1. /\ DOMAIN held_buttons' = DOMAIN held_buttons
          /\ \A n \in DOMAIN held_buttons : held_buttons'[n].value = held_buttons[n].value
      BY <1>2 DEF AgedButtons, Aged, Input
    <2> QED BY <2>1 DEF CInv, TypeOK
  <1>8. DOMAIN signal_cache' \subseteq Nodes
    BY <1>2, NodeSignalsLead
  <1>9. TypeOK'
    BY <1>1, <1>3, <1>4, <1>5, <1>6, <1>7, <1>8 DEF TypeOK
  <1>10. \A input \in Pending' : Aimed(input)'
    BY <1>5 DEF Aimed
  <1>11. \A input \in ToSet(typed_overrides') : Turns(input)'
    BY <1>5 DEF Turns, Pending
  <1> QED BY <1>2, <1>3, <1>4, <1>7, <1>9, <1>10, <1>11 DEF CInv

\* Nothing but the mode changes.
LEMMA QuietContents ==
    ASSUME CInv, UNCHANGED <<doc, simulation, running, signal_cache, typed_overrides, held_buttons>>,
           {paused', single_step_pending'} \subseteq BOOLEAN
    PROVE  CInv'
  <1>1. /\ TypeOK /\ UNCHANGED <<build, state>>
        /\ IsFiniteSet(DOMAIN held_buttons)
        /\ \A n \in DOMAIN held_buttons : held_buttons[n].value = BUTTON_HOLD_VALUE
    BY DEF CInv, simulation
  <1>2. TypeOK'
    BY <1>1 DEF TypeOK
  <1>3. ASSUME running'
        PROVE  /\ build'.circuit.ok /\ Seen(build'.circuit, state')
               /\ \A input \in Pending' : Aimed(input)'
               /\ \A input \in ToSet(typed_overrides') : Turns(input)'
    <2>1. /\ build.circuit.ok /\ Seen(build.circuit, state)
          /\ \A input \in Pending : Aimed(input)
          /\ \A input \in ToSet(typed_overrides) : Turns(input)
      BY <1>3 DEF CInv
    <2>2. Pending' = Pending
      BY DEF Pending
    <2> QED BY <1>1, <2>1, <2>2 DEF Aimed, Turns, IsClick, Aim
  <1> QED BY <1>1, <1>2, <1>3 DEF CInv

\* The inputs of the held buttons, in one order or another.
LEMMA HeldFacts ==
    ASSUME IInv, CInv, NEW held \in HeldInputs
    PROVE  held \in Seq(Inputs) /\ ToSet(held) = {held_buttons[n] : n \in DOMAIN held_buttons}
  <1>1. PICK order \in SetToSeqs(DOMAIN held_buttons) : held = [i \in DOMAIN order |-> held_buttons[order[i]]]
    BY DEF HeldInputs
  <1>2. order \in Seq(DOMAIN held_buttons) /\ ToSet(order) = DOMAIN held_buttons
    BY <1>1, OrdersFacts DEF CInv
  <1>3. \A n \in DOMAIN held_buttons : held_buttons[n] \in Inputs
    BY DEF IInv
  <1> HIDE DEF Inputs
  <1>4. DOMAIN order = 1..Len(order) /\ Len(order) \in Nat /\ \A i \in DOMAIN order : order[i] \in DOMAIN held_buttons
    BY <1>2
  <1>5. held \in Seq(Inputs)
    BY <1>1, <1>3, <1>4
  <1>6. ToSet(held) = {held_buttons[n] : n \in ToSet(order)}
    BY <1>1 DEF ToSet
  <1> QED BY <1>2, <1>5, <1>6

\* A frame starts from the state with the inputs laid over it.
LEMMA FrameFacts ==
    ASSUME IInv, CInv, running, NEW held \in HeldInputs
    PROVE  LET inputs == held \o typed_overrides
               st == Overridden(doc, state, inputs)
           IN /\ inputs \in Seq(Inputs)
              /\ st \in StateOf(doc) /\ st.part = state.part
              /\ Frame(held) = Stepped(doc, build.owned, st)
  <1>1. held \in Seq(Inputs) /\ typed_overrides \in Seq(Inputs)
    BY HeldFacts DEF IInv
  <1> DEFINE inputs == held \o typed_overrides
             st == Overridden(doc, state, inputs)
  <1>2. inputs \in Seq(Inputs)
    BY <1>1, ConcatFacts
  <1>3. doc \in Circuits /\ build.circuit = doc /\ doc.ok /\ state \in StateOf(doc)
    BY WhatRuns
  <1>4. Frame(held) = Stepped(doc, build.owned, st)
    BY <1>3 DEF Frame
  <1> HIDE DEF inputs
  <1>5. st \in StateOf(doc) /\ st.part = state.part
    BY <1>2, <1>3, OverriddenFacts
  <1> QED BY <1>2, <1>4, <1>5 DEF inputs

\* After a frame nothing is pending but what is held, and every switch has looked.
LEMMA StepContents ==
    ASSUME IInv, CInv, Step
    PROVE  CInv'
  <1>1. PICK held \in HeldInputs : state' = Frame(held)
    BY DEF Step
  <1>2. /\ running /\ typed_overrides' = <<>> /\ single_step_pending' = FALSE
        /\ UNCHANGED <<doc, build, running, paused, signal_cache, held_buttons>>
    BY DEF Step
  <1>3. /\ doc \in Circuits /\ build.circuit = doc /\ doc.ok
        /\ build.owned \in OwnedOrders(doc) /\ state \in StateOf(doc)
    BY <1>2, WhatRuns
  <1> DEFINE st == Overridden(doc, state, held \o typed_overrides)
  <1>4. st \in StateOf(doc) /\ state' = Stepped(doc, build.owned, st)
    BY <1>1, <1>2, FrameFacts
  <1> HIDE DEF st
  <1>5. /\ state' \in StateOf(doc)
        /\ \A net \in Nets(doc) \ Driven(doc) : state'.values[net] = st.values[net]
        /\ \A m \in ToSet(doc.devices) :
              doc.kind[m] = "Switch" /\ At(doc, m, "control") \notin Driven(doc)
              => state'.part[m] = SwitchAfter(doc, st, m)
    BY <1>3, <1>4, SteppedFacts
  <1>6. Seen(doc, state')
    <2> SUFFICES ASSUME NEW m \in ToSet(doc.devices), doc.kind[m] = "Switch",
                        At(doc, m, "control") \notin Driven(doc)
                 PROVE  state'.part[m].last = state'.values[At(doc, m, "control")]
      BY DEF Seen
    <2>1. doc.kind[m] = "Switch" /\ At(doc, m, "control") \notin Driven(doc)
      OBVIOUS
    <2>2. At(doc, m, "control") \in Nets(doc)
      <3>1. <<m, "control">> \in Ports(doc)
        BY <1>3, KindFacts
      <3> QED BY <1>3, <3>1, AtFacts DEF At
    <2>3. state'.part[m].last = st.values[At(doc, m, "control")]
      <3>1. state'.part[m] = SwitchAfter(doc, st, m)
        BY <1>5, <2>1
      <3>2. SwitchAfter(doc, st, m).last = Value(doc, st, m, "control")
        BY DEF SwitchAfter
      <3> QED BY <3>1, <3>2 DEF Value
    <2> QED BY <1>5, <2>1, <2>2, <2>3
  <1>7. typed_overrides' \in Seq(Inputs) /\ Len(typed_overrides') <= MaxPending /\ ToSet(typed_overrides') = {}
    <2>1. Len(<<>>) = 0 /\ ToSet(<<>>) = {}
      BY EmptyIsEmpty DEF ToSet
    <2> QED BY <1>2, <2>1, EmptyIsEmpty, InputsAssumption
  <1>8. TypeOK'
    BY <1>2, <1>3, <1>5, <1>7 DEF TypeOK, CInv
  <1>9. \A input \in Pending' : Aimed(input)'
    <2>1. Pending' \subseteq Pending
      BY <1>2, <1>7 DEF Pending
    <2> QED BY <1>2, <2>1 DEF CInv, Aimed
  <1> QED BY <1>2, <1>3, <1>6, <1>7, <1>8, <1>9 DEF CInv

\* An input that is pushed is for a port of the build, and turns what it clicks.
LEMMA PushContents ==
    ASSUME IInv, CInv, Room, UNCHANGED <<doc, simulation, control, signal_cache>>,
           NEW input \in Inputs, typed_overrides' = Append(typed_overrides, input),
           running => Aimed(input) /\ Turns(input),
           \A n \in DOMAIN held_buttons' : n \in DOMAIN held_buttons /\ held_buttons'[n] = held_buttons[n]
    PROVE  CInv'
  <1>1. /\ typed_overrides' \in Seq(Inputs)
        /\ ToSet(typed_overrides') = ToSet(typed_overrides) \cup {input}
    BY PushPends
  <1>2. Len(typed_overrides') <= MaxPending
    <2>1. typed_overrides \in Seq(Inputs) /\ Len(typed_overrides) < MaxPending
      BY DEF CInv, TypeOK, Room
    <2>2. Len(typed_overrides') = Len(typed_overrides) + 1 /\ Len(typed_overrides) \in Nat
      BY <2>1, AppendIndex
    <2> QED BY <2>1, <2>2, InputsAssumption
  <1>3. /\ DOMAIN held_buttons' \subseteq Nodes /\ IsFiniteSet(DOMAIN held_buttons')
        /\ \A n \in DOMAIN held_buttons' :
              held_buttons'[n] \in Inputs /\ held_buttons'[n].value = BUTTON_HOLD_VALUE
    BY FS_Subset DEF CInv, TypeOK
  <1>4. UNCHANGED <<doc, build, state, running, paused, single_step_pending, signal_cache>>
    BY DEF simulation, control
  <1>5. TypeOK'
    BY <1>1, <1>2, <1>3, <1>4 DEF TypeOK, CInv
  <1>6. ASSUME running'
        PROVE  /\ build'.circuit.ok /\ Seen(build'.circuit, state')
               /\ \A i \in Pending' : Aimed(i)'
               /\ \A i \in ToSet(typed_overrides') : Turns(i)'
    <2>1. /\ build.circuit.ok /\ Seen(build.circuit, state)
          /\ \A i \in Pending \cup {input} : Aimed(i)
          /\ \A i \in ToSet(typed_overrides) \cup {input} : Turns(i)
      BY <1>4, <1>6 DEF CInv
    <2>2. Pending' \subseteq Pending \cup {input}
      BY <1>1 DEF Pending
    <2> QED BY <1>1, <1>4, <2>1, <2>2 DEF Aimed, Turns, IsClick, Aim
  <1> QED BY <1>3, <1>5, <1>6 DEF CInv

\* A button that is pressed is held on a port of the build.
LEMMA PressContents ==
    ASSUME IInv, CInv, IInv', NEW n \in Nodes, HoldButtonPress(n)
    PROVE  CInv'
  <1> DEFINE input == Input(signal_cache[n], BUTTON_HOLD_VALUE, <<n, "control">>, TRUE)
  <1>1. /\ n \in DOMAIN signal_cache
        /\ held_buttons' = [m \in DOMAIN held_buttons \cup {n} |-> IF m = n THEN input ELSE held_buttons[m]]
        /\ UNCHANGED <<doc, build, state, running, paused, single_step_pending, signal_cache, typed_overrides>>
    BY DEF HoldButtonPress, Clickable, simulation, control
  <1>2. running /\ <<n, "control">> \in Ports(doc) /\ build.circuit = doc
    BY <1>1, ClickIsAimed, WhatRuns
  <1>3. input.value = BUTTON_HOLD_VALUE /\ input.port = <<n, "control">>
    BY DEF Input
  <1> HIDE DEF input
  <1>4. DOMAIN held_buttons' \subseteq Nodes /\ IsFiniteSet(DOMAIN held_buttons')
    BY <1>1, FS_AddElement DEF CInv, TypeOK
  <1>5. \A m \in DOMAIN held_buttons' : held_buttons'[m].value = BUTTON_HOLD_VALUE /\ held_buttons'[m] \in Inputs
    BY <1>1, <1>3 DEF CInv, IInv
  <1>6. TypeOK'
    BY <1>1, <1>4, <1>5 DEF TypeOK, CInv
  <1>7. Pending' \subseteq Pending \cup {input}
    BY <1>1 DEF Pending
  <1>8. \A i \in Pending \cup {input} : Aimed(i)
    BY <1>2, <1>3 DEF CInv, Aimed
  <1>9. /\ build'.circuit.ok /\ Seen(build'.circuit, state')
        /\ \A i \in Pending' : Aimed(i)'
        /\ \A i \in ToSet(typed_overrides') : Turns(i)'
    BY <1>1, <1>2, <1>7, <1>8 DEF CInv, Aimed, Turns, IsClick, Aim
  <1> QED BY <1>4, <1>5, <1>6, <1>9 DEF CInv

\* Every step keeps what the contents need.
LEMMA CInvInductive == IInv /\ CInv /\ [Next]_vars /\ IInv' => CInv'
  <1> SUFFICES ASSUME IInv, CInv, [Next]_vars, IInv' PROVE CInv'
    OBVIOUS
  <1> USE DEF control
  <1>0. {running, paused, single_step_pending} \subseteq BOOLEAN
    BY DEF CInv, TypeOK
  <1>1. ASSUME Start PROVE CInv'
    <2>1. CASE Build(doc) /\ running' = TRUE /\ paused' = FALSE /\ single_step_pending' = FALSE
      <3>1. doc \in Circuits /\ doc' = doc
        BY <1>1 DEF IInv, Start
      <3> QED BY <2>1, <3>1, BuildContents
    <2>2. CASE /\ build' = NoBuild /\ state' = NoState
               /\ UNCHANGED <<control, signal_cache, typed_overrides, held_buttons>>
      <3>1. running' = FALSE
        BY <1>0, <1>1, <2>2 DEF Start
      <3> QED BY <1>0, <2>2, <3>1, IdleContents
    <2> QED BY <1>1, <2>1, <2>2 DEF Start
  <1>2. ASSUME Stop PROVE CInv'
    BY <1>2, IdleContents DEF Stop
  <1>3. ASSUME NEW c \in Circuits, Edit(c) PROVE CInv'
    <2>1. CASE running /\ Build(c) /\ UNCHANGED control
      <3>1. doc' = c /\ {running', paused', single_step_pending'} \subseteq BOOLEAN
        BY <1>0, <1>3, <2>1 DEF Edit
      <3> QED BY <2>1, <3>1, BuildContents
    <2>2. CASE /\ build' = NoBuild /\ state' = NoState /\ running' = FALSE
               /\ UNCHANGED <<paused, single_step_pending, typed_overrides, held_buttons>>
      BY <1>0, <2>2, IdleContents
    <2>3. CASE ~running /\ UNCHANGED <<simulation, control, signal_cache, typed_overrides, held_buttons>>
      BY <1>0, <2>3, IdleContents
    <2> QED BY <1>3, <2>1, <2>2, <2>3 DEF Edit, Rebuild
  <1>4. ASSUME Pause \/ Resume \/ SingleStep PROVE CInv'
    BY <1>0, <1>4, QuietContents DEF Pause, Resume, SingleStep
  <1>5. ASSUME Step PROVE CInv'
    BY <1>5, StepContents
  <1>6. ASSUME NEW n \in Nodes, TriggerSwitch(n) PROVE CInv'
    <2> DEFINE v == IF Value(build.circuit, state, n, "control") < 1 THEN 1 ELSE 0
               input == Input(signal_cache[n], v, <<n, "control">>, TRUE)
    <2>1. n \in DOMAIN signal_cache /\ v \in Levels \cup 0..2
      BY <1>6 DEF TriggerSwitch, Clickable
    <2>2. input \in Inputs
      BY <2>1, ClickIsInput
    <2>3. running => Aimed(input) /\ Turns(input)
      <3>1. Aim(input) = At(build.circuit, n, "control")
        BY DEF Aim, At, Input
      <3>2. input.value = IF state.values[Aim(input)] < 1 THEN 1 ELSE 0
        BY <3>1 DEF Value, Input
      <3>3. running => input.port \in Ports(build.circuit)
        BY <2>1, ClickIsAimed, WhatRuns DEF Input
      <3> QED BY <3>2, <3>3 DEF Aimed, Turns
    <2>4. typed_overrides' = Append(typed_overrides, input)
      BY <1>6 DEF TriggerSwitch, Push
    <2> HIDE DEF input
    <2> QED BY <1>6, <2>2, <2>3, <2>4, PushContents DEF TriggerSwitch
  <1>7. ASSUME NEW n \in Nodes, NEW v \in Levels \cup 0..2,
               SetSliderValue(n, v) \/ SetKnobPosition(n, v) PROVE CInv'
    <2> DEFINE input == Input(signal_cache[n], v, <<n, "control">>, TRUE)
    <2>1. n \in DOMAIN signal_cache /\ Content(doc, n) # "Switch"
      BY <1>7 DEF SetSliderValue, SetKnobPosition, Clickable
    <2>2. input \in Inputs
      BY <2>1, ClickIsInput
    <2>3. running => Aimed(input) /\ Turns(input)
      <3>1. input.port = <<n, "control">> /\ input.port[1] = n
        BY DEF Input
      <3>2. running => ~IsClick(input)
        BY <2>1, <3>1, WhatRuns DEF IsClick
      <3>3. running => input.port \in Ports(build.circuit)
        BY <2>1, <3>1, ClickIsAimed, WhatRuns
      <3> QED BY <3>2, <3>3 DEF Aimed, Turns
    <2>4. typed_overrides' = Append(typed_overrides, input)
      BY <1>7 DEF SetSliderValue, SetKnobPosition, Push
    <2> HIDE DEF input
    <2> QED BY <1>7, <2>2, <2>3, <2>4, PushContents DEF SetSliderValue, SetKnobPosition
  <1>8. ASSUME NEW n \in Nodes, HoldButtonPress(n) PROVE CInv'
    BY <1>8, PressContents
  <1>9. ASSUME NEW n \in Nodes, HoldButtonRelease(n) PROVE CInv'
    <2> DEFINE held == held_buttons[n]
               input == Input(held.key, BUTTON_RELEASE_VALUE, held.port, held.fresh)
    <2>1. held \in Inputs /\ held \in Pending
      BY <1>9 DEF HoldButtonRelease, IInv, Pending
    <2>2. input \in Inputs
      BY <2>1 DEF Input, Inputs, BUTTON_RELEASE_VALUE
    <2>3. running => Aimed(input) /\ Turns(input)
      <3>1. input.value = 2 /\ input.port = held.port /\ input.fresh = held.fresh
        BY DEF Input, BUTTON_RELEASE_VALUE
      <3>2. ~IsClick(input)
        BY <3>1 DEF IsClick
      <3>3. running => Aimed(held)
        BY <2>1 DEF CInv
      <3> QED BY <3>1, <3>2, <3>3 DEF Aimed, Turns
    <2>4. typed_overrides' = Append(typed_overrides, input)
      BY <1>9 DEF HoldButtonRelease
    <2>5. \A m \in DOMAIN held_buttons' : m \in DOMAIN held_buttons /\ held_buttons'[m] = held_buttons[m]
      BY <1>9 DEF HoldButtonRelease
    <2> HIDE DEF input
    <2> QED BY <1>9, <2>2, <2>3, <2>4, <2>5, PushContents DEF HoldButtonRelease
  <1>10. ASSUME UNCHANGED vars PROVE CInv'
    BY <1>0, <1>10, QuietContents DEF vars, simulation
  <1> QED
    <2>1. ASSUME NEW p \in 0..Positions - 1 PROVE p \in Levels \cup 0..2
      BY DEF Positions
    <2> QED BY <1>1, <1>2, <1>3, <1>4, <1>5, <1>6, <1>7, <1>8, <1>9, <1>10, <2>1 DEF Next

LEMMA CInvInitially == Init => CInv
  <1> SUFFICES ASSUME Init PROVE CInv
    OBVIOUS
  <1>1. DOMAIN <<>> = {} /\ Len(<<>>) = 0
    BY EmptyIsEmpty
  <1>2. DOMAIN signal_cache = {} /\ DOMAIN held_buttons = {} /\ typed_overrides \in Seq(Inputs)
    BY <1>1, EmptyIsEmpty DEF Init
  <1>3. Len(typed_overrides) <= MaxPending
    BY <1>1, InputsAssumption DEF Init
  <1>4. TypeOK
    BY <1>2, <1>3 DEF Init, TypeOK
  <1>5. IsFiniteSet(DOMAIN held_buttons)
    BY <1>2, FS_EmptySet
  <1> QED BY <1>2, <1>4, <1>5 DEF Init, CInv

-----------------------------------------------------------------------------
\* The bridge has both invariants.
LEMMA ContentsSound == Spec => [](IInv /\ CInv)
  <1>1. Init => IInv /\ CInv
    BY IInvInitially, CInvInitially
  <1>2. IInv /\ CInv /\ [Next]_vars => IInv' /\ CInv'
    BY IInvInductive, CInvInductive
  <1> QED BY <1>1, <1>2, PTL DEF Spec

\* For all circuits: every frame leaves integers on the nets of the build and a part
\* for each of its devices, whatever the user does and however stale the ids are that
\* the inputs carry; an unknown id makes no signal.
THEOREM ContentsTyped == Spec => []TypeOK
  <1>1. IInv /\ CInv => TypeOK
    BY DEF CInv
  <1> QED BY <1>1, ContentsSound, PTL

\* For all circuits: in one frame a value gets through every consumer that is off
\* the cycles and whose output is its own (WritersFirst, and no commit in between).
THEOREM FramesSettle == Spec => FrameSettles
  <1>1. ASSUME IInv, CInv, Step,
               NEW n \in ToSet(Consumers[build.circuit]) \ OnOrBehindCycle(build.circuit),
               \A m \in ToSet(build.circuit.devices) \ {n} : Out(build.circuit, n) \notin Writes(build.circuit, m),
               {In(build.circuit, n), Out(build.circuit, n)} \cap Late(build.circuit) = {}
        PROVE  state'.values[Out(build.circuit, n)] =
                  IF build.circuit.kind[n] = "Slider" \/ state.part[n].pos = 1
                  THEN state'.values[In(build.circuit, n)] ELSE 0
    <2>1. PICK held \in HeldInputs : state' = Frame(held)
      BY <1>1 DEF Step
    <2>2. running
      BY <1>1 DEF Step
    <2>3. /\ doc \in Circuits /\ build.circuit = doc /\ doc.ok /\ build.owned \in OwnedOrders(doc)
      BY <1>1, <2>2, WhatRuns
    <2> DEFINE st == Overridden(doc, state, held \o typed_overrides)
    <2>4. st \in StateOf(doc) /\ st.part = state.part /\ state' = Stepped(doc, build.owned, st)
      BY <1>1, <2>1, <2>2, FrameFacts
    <2> HIDE DEF st
    <2> QED BY <1>1, <2>3, <2>4, SteppedFacts
  <1>2. IInv /\ CInv /\ [Next]_vars =>
          [Step =>
              LET c == build.circuit
              IN \A n \in ToSet(Consumers[c]) \ OnOrBehindCycle(c) :
                  (/\ \A m \in ToSet(c.devices) \ {n} : Out(c, n) \notin Writes(c, m)
                   /\ {In(c, n), Out(c, n)} \cap Late(c) = {})
                  => state'.values[Out(c, n)] = IF c.kind[n] = "Slider" \/ state.part[n].pos = 1
                                               THEN state'.values[In(c, n)] ELSE 0]_vars
    BY <1>1
  <1> QED BY <1>2, ContentsSound, PTL DEF Spec, FrameSettles

\* What is left on a net no component writes, when every input is of this build.
LEMMA LastWord ==
    ASSUME IInv, CInv, Step, AllFresh, NEW held \in HeldInputs,
           NEW net \in Nets(doc)
    PROVE  LET st == Overridden(doc, state, held \o typed_overrides)
               inputs == {i \in DOMAIN typed_overrides : Aim(typed_overrides[i]) = net}
           IN st.values[net] = IF inputs # {} THEN typed_overrides[Max(inputs)].value
                               ELSE IF Held(net) THEN BUTTON_HOLD_VALUE
                               ELSE state.values[net]
  <1> DEFINE q == held \o typed_overrides
             st == Overridden(doc, state, q)
             h == Len(held)
             l == Len(typed_overrides)
             inputs == {i \in DOMAIN typed_overrides : Aim(typed_overrides[i]) = net}
  <1>1. running
    BY DEF Step
  <1>2. /\ doc \in Circuits /\ build.circuit = doc /\ doc.ok /\ state \in StateOf(doc)
    BY <1>1, WhatRuns
  <1>3. /\ held \in Seq(Inputs) /\ ToSet(held) = {held_buttons[n] : n \in DOMAIN held_buttons}
        /\ typed_overrides \in Seq(Inputs)
    BY HeldFacts DEF IInv
  <1>4. /\ q \in Seq(Inputs) /\ h \in Nat /\ l \in Nat
        /\ DOMAIN held = 1..h /\ DOMAIN typed_overrides = 1..l /\ Len(q) = h + l
        /\ \A i \in 1..h : q[i] = held[i]
        /\ \A i \in 1..l : q[h + i] = typed_overrides[i]
    BY <1>3, ConcatFacts
  <1>5. /\ \A i \in 1..h : held[i] \in Pending
        /\ \A i \in 1..l : typed_overrides[i] \in Pending
        /\ \A i \in 1..h : \E n \in DOMAIN held_buttons : held[i] = held_buttons[n]
    BY <1>3, <1>4 DEF Pending, ToSet
  <1>6. \A input \in Pending : input.port \in Ports(doc) /\ input.key = Lookup(doc, input.port)
    BY <1>1, <1>2 DEF AllFresh, CInv, Aimed, IInv, FreshAimTrue
  <1> HIDE DEF q, h, l
  <1>7. \A i \in 1..Len(q) : i \in 1..h \/ (i - h \in 1..l /\ h + (i - h) = i)
    BY <1>4
  <1>8. \A i \in 1..l : h + i \in 1..Len(q)
    BY <1>4
  <1>9. \A i \in 1..h : i \in 1..Len(q)
    BY <1>4
  <1>10. ASSUME NEW i \in 1..Len(q)
         PROVE  q[i].port \in Ports(doc) /\ q[i].key = Lookup(doc, q[i].port)
    <2>1. q[i] \in Pending
      BY <1>4, <1>5, <1>7
    <2> QED BY <1>6, <2>1
  <1>11. /\ (\A i \in 1..Len(q) : Net[doc][q[i].port] # net) => st.values[net] = state.values[net]
         /\ \A i \in 1..Len(q) :
               Net[doc][q[i].port] = net /\ (\A j \in 1..Len(q) : j > i => Net[doc][q[j].port] # net)
               => st.values[net] = q[i].value
    <2>1. \A i \in 1..Len(q) : q[i].port \in Ports(doc) /\ q[i].key = Lookup(doc, q[i].port)
      BY <1>10
    <2>2. \A m \in Nets(doc) :
             /\ (\A i \in 1..Len(q) : Net[doc][q[i].port] # m) => st.values[m] = state.values[m]
             /\ \A i \in 1..Len(q) :
                   Net[doc][q[i].port] = m /\ (\A j \in 1..Len(q) : j > i => Net[doc][q[j].port] # m)
                   => st.values[m] = q[i].value
      <3>1. doc \in Circuits /\ doc.ok /\ state \in StateOf(doc) /\ q \in Seq(Inputs)
        BY <1>2, <1>4
      <3> QED BY <2>1, <3>1, OverriddenFacts
    <2> HIDE DEF st
    <2> QED BY <2>2
  <1>12. \A input : Aim(input) = Net[doc][input.port]
    BY <1>2 DEF Aim
  <1> HIDE DEF st
  <1>13. CASE inputs # {}
    <2> DEFINE k == Max(inputs)
    <2>1. k \in inputs /\ \A j \in inputs : j <= k
      <3>1. inputs \subseteq 0..l
        BY <1>4
      <3> HIDE DEF inputs
      <3> QED BY <1>4, <1>13, <3>1, MaxFacts
    <2> HIDE DEF k
    <2>2. k \in 1..l /\ Aim(typed_overrides[k]) = net
      BY <1>4, <2>1
    <2>3. h + k \in 1..Len(q) /\ q[h + k] = typed_overrides[k]
      BY <1>4, <1>8, <2>2
    <2>4. ASSUME NEW j \in 1..Len(q), j > h + k PROVE Net[doc][q[j].port] # net
      <3>1. j - h \in 1..l /\ h + (j - h) = j /\ j - h > k
        BY <1>4, <1>7, <2>2, <2>4
      <3>2. q[j] = typed_overrides[j - h]
        BY <1>4, <3>1
      <3>3. j - h \notin inputs
        <4> DEFINE x == j - h
        <4>1. x \in Nat /\ k \in Nat /\ x > k
          BY <1>4, <2>2, <3>1
        <4> HIDE DEF x, inputs
        <4>2. x \notin inputs
          BY <2>1, <4>1
        <4> QED BY <4>2 DEF x
      <3> QED BY <1>4, <1>12, <3>1, <3>2, <3>3
    <2>5. st.values[net] = typed_overrides[k].value
      BY <1>11, <1>12, <2>2, <2>3, <2>4
    <2> QED BY <1>13, <2>5 DEF k, st, q
  <1>14. CASE inputs = {} /\ Held(net)
    <2>1. PICK n \in DOMAIN held_buttons : Aim(held_buttons[n]) = net
      BY <1>14 DEF Held
    <2>2. PICK m \in 1..h : held[m] = held_buttons[n]
      BY <1>3, <1>4 DEF ToSet
    <2> DEFINE J == {i \in 1..h : Aim(held[i]) = net}
               k == Max(J)
    <2>3. k \in J /\ \A j \in J : j <= k
      <3>1. J \subseteq 0..h /\ J # {}
        BY <1>4, <2>1, <2>2
      <3> HIDE DEF J
      <3> QED BY <1>4, <3>1, MaxFacts
    <2> HIDE DEF k
    <2>4. k \in 1..Len(q) /\ q[k] = held[k] /\ k \in 1..h
      BY <1>4, <1>9, <2>3
    <2>5. ASSUME NEW j \in 1..Len(q), j > k PROVE Net[doc][q[j].port] # net
      <3>1. CASE j \in 1..h
        <4>1. j \notin J
          BY <1>4, <2>3, <2>4, <2>5
        <4> QED BY <1>4, <1>12, <3>1, <4>1
      <3>2. CASE j - h \in 1..l /\ h + (j - h) = j
        <4>1. q[j] = typed_overrides[j - h] /\ j - h \notin inputs
          BY <1>4, <1>14, <3>2
        <4> QED BY <1>4, <1>12, <3>2, <4>1
      <3> QED BY <1>7, <3>1, <3>2
    <2>6. st.values[net] = held[k].value
      <3>1. Net[doc][q[k].port] = net
        BY <1>12, <2>3, <2>4
      <3> QED BY <1>11, <2>4, <2>5, <3>1
    <2>7. held[k].value = BUTTON_HOLD_VALUE
      BY <1>5, <2>4 DEF CInv
    <2> QED BY <1>14, <2>6, <2>7 DEF st, q
  <1>15. CASE inputs = {} /\ ~Held(net)
    <2>1. ASSUME NEW i \in 1..Len(q) PROVE Net[doc][q[i].port] # net
      <3>1. CASE i \in 1..h
        <4>1. PICK n \in DOMAIN held_buttons : held[i] = held_buttons[n]
          BY <1>5, <3>1
        <4>2. Aim(held[i]) # net
          BY <1>15, <4>1 DEF Held
        <4> QED BY <1>4, <1>12, <3>1, <4>2
      <3>2. CASE i - h \in 1..l /\ h + (i - h) = i
        <4>1. q[i] = typed_overrides[i - h] /\ i - h \notin inputs
          BY <1>4, <1>15, <3>2
        <4> QED BY <1>4, <1>12, <3>2, <4>1
      <3> QED BY <1>7, <3>1, <3>2
    <2> QED BY <1>11, <1>15, <2>1 DEF st, q
  <1> QED BY <1>13, <1>14, <1>15

\* For all circuits and all orders the held buttons are visited in: on a net no
\* component writes, the user has the last word.
THEOREM UserHasTheLastWord == Spec => LastWordWins
  <1>1. ASSUME IInv, CInv, Step, AllFresh,
               NEW net \in Nets(build.circuit) \ Driven(build.circuit)
        PROVE  LET inputs == {i \in DOMAIN typed_overrides : Aim(typed_overrides[i]) = net}
               IN state'.values[net] = IF inputs # {} THEN typed_overrides[Max(inputs)].value
                                       ELSE IF Held(net) THEN BUTTON_HOLD_VALUE
                                       ELSE state.values[net]
    <2>1. PICK held \in HeldInputs : state' = Frame(held)
      BY <1>1 DEF Step
    <2>2. running
      BY <1>1 DEF Step
    <2>3. /\ doc \in Circuits /\ build.circuit = doc /\ doc.ok /\ build.owned \in OwnedOrders(doc)
      BY <1>1, <2>2, WhatRuns
    <2> DEFINE st == Overridden(doc, state, held \o typed_overrides)
               inputs == {i \in DOMAIN typed_overrides : Aim(typed_overrides[i]) = net}
               last == IF inputs # {} THEN typed_overrides[Max(inputs)].value
                       ELSE IF Held(net) THEN BUTTON_HOLD_VALUE
                       ELSE state.values[net]
    <2>4. st \in StateOf(doc) /\ state' = Stepped(doc, build.owned, st)
      BY <1>1, <2>1, <2>2, FrameFacts
    <2>5. st.values[net] = last
      BY <1>1, <2>3, LastWord
    <2> HIDE DEF st, last
    <2>6. state'.values[net] = st.values[net]
      BY <1>1, <2>3, <2>4, SteppedFacts
    <2> QED BY <2>5, <2>6 DEF last
  <1>2. IInv /\ CInv /\ [Next]_vars =>
          [(Step /\ AllFresh) =>
              \A net \in Nets(build.circuit) \ Driven(build.circuit) :
                  LET inputs == {i \in DOMAIN typed_overrides : Aim(typed_overrides[i]) = net}
                  IN state'.values[net] = IF inputs # {} THEN typed_overrides[Max(inputs)].value
                                        ELSE IF Held(net) THEN BUTTON_HOLD_VALUE
                                        ELSE state.values[net]]_vars
    BY <1>1
  <1> QED BY <1>2, ContentsSound, PTL DEF Spec, LastWordWins

\* For all circuits: a switch moves in a frame exactly when it was clicked since the
\* last one.  It has seen the last value of its control (Seen), the clicks since then
\* were all computed from that value (Turns), so all of them together turn it once.
THEOREM SwitchesObey == Spec => SwitchObeysClicks
  <1>1. ASSUME IInv, CInv, Step, AllFresh,
               NEW n \in ToSet(build.circuit.devices), build.circuit.kind[n] = "Switch",
               At(build.circuit, n, "control") \notin Driven(build.circuit),
               ~Held(At(build.circuit, n, "control")),
               \A i \in {j \in DOMAIN typed_overrides :
                            Aim(typed_overrides[j]) = At(build.circuit, n, "control")} :
                  IsClick(typed_overrides[i])
        PROVE  state'.part[n].pos # state.part[n].pos
               <=> {i \in DOMAIN typed_overrides :
                       Aim(typed_overrides[i]) = At(build.circuit, n, "control")} # {}
    <2>1. PICK held \in HeldInputs : state' = Frame(held)
      BY <1>1 DEF Step
    <2>2. running
      BY <1>1 DEF Step
    <2>3. /\ doc \in Circuits /\ build.circuit = doc /\ doc.ok /\ build.owned \in OwnedOrders(doc)
          /\ state \in StateOf(doc)
      BY <1>1, <2>2, WhatRuns
    <2> DEFINE st == Overridden(doc, state, held \o typed_overrides)
               net == At(doc, n, "control")
               inputs == {i \in DOMAIN typed_overrides : Aim(typed_overrides[i]) = net}
               before == state.values[net]
    <2>4. /\ st \in StateOf(doc) /\ st.part = state.part /\ state' = Stepped(doc, build.owned, st)
      BY <1>1, <2>1, <2>2, FrameFacts
    <2>5. net \in Nets(doc)
      <3>1. <<n, "control">> \in Ports(doc)
        BY <1>1, <2>3, KindFacts
      <3> QED BY <2>3, <3>1, AtFacts DEF At
    <2>6. /\ inputs # {} => st.values[net] = typed_overrides[Max(inputs)].value
          /\ inputs = {} => st.values[net] = before
      <3>1. ~Held(net)
        BY <1>1, <2>3
      <3>2. st.values[net] = IF inputs # {} THEN typed_overrides[Max(inputs)].value
                             ELSE IF Held(net) THEN BUTTON_HOLD_VALUE
                             ELSE before
        <4> HIDE DEF net
        <4> QED BY <1>1, <2>5, LastWord
      <3> HIDE DEF st, inputs, before, net
      <3> QED BY <3>1, <3>2
    <2> HIDE DEF st
    <2>7. state'.part[n] = SwitchAfter(doc, st, n)
      BY <1>1, <2>3, <2>4, SteppedFacts
    <2>8. state.part[n].last = before /\ before \in Int /\ state.part[n].pos \in Int
      BY <1>1, <2>2, <2>3, <2>5 DEF CInv, Seen, StateOf
    <2>9. state'.part[n].pos # state.part[n].pos <=> st.values[net] # before
      <3>1. SwitchAfter(doc, st, n).pos = IF st.values[net] # before THEN 1 - state.part[n].pos ELSE state.part[n].pos
        BY <2>4, <2>8 DEF SwitchAfter, Value
      <3> QED BY <2>7, <2>8, <3>1
    <2>10. CASE inputs # {}
      <3> DEFINE k == Max(inputs)
                 input == typed_overrides[k]
      <3>1. k \in inputs
        <4>1. DOMAIN typed_overrides = 1..Len(typed_overrides) /\ Len(typed_overrides) \in Nat
          BY <1>1 DEF IInv
        <4>2. inputs \subseteq 0..Len(typed_overrides)
          BY <4>1
        <4> HIDE DEF inputs
        <4> QED BY <2>10, <4>1, <4>2, MaxFacts
      <3> HIDE DEF k
      <3>2. IsClick(input) /\ Aim(input) = net /\ input \in ToSet(typed_overrides) /\ k \in DOMAIN typed_overrides
        BY <1>1, <2>3, <3>1 DEF ToSet
      <3>3. input.fresh /\ Turns(input)
        BY <1>1, <2>2, <3>2 DEF AllFresh, Pending, CInv
      <3>4. input.value = IF before < 1 THEN 1 ELSE 0
        BY <3>2, <3>3 DEF Turns
      <3>5. st.values[net] = input.value
        BY <2>6, <2>10 DEF k
      <3>6. st.values[net] # before
        BY <2>8, <3>4, <3>5
      <3> QED BY <2>3, <2>9, <2>10, <3>6
    <2>11. CASE inputs = {}
      BY <2>3, <2>6, <2>9, <2>11
    <2> QED BY <2>10, <2>11
  <1>2. IInv /\ CInv /\ [Next]_vars =>
          [(Step /\ AllFresh) =>
              \A n \in {m \in ToSet(build.circuit.devices) : build.circuit.kind[m] = "Switch"} :
                  LET net == At(build.circuit, n, "control")
                      inputs == {i \in DOMAIN typed_overrides : Aim(typed_overrides[i]) = net}
                  IN (/\ net \notin Driven(build.circuit)
                      /\ ~Held(net)
                      /\ \A i \in inputs : IsClick(typed_overrides[i]))
                     => (state'.part[n].pos # state.part[n].pos <=> inputs # {})]_vars
    BY <1>1
  <1> QED BY <1>2, ContentsSound, PTL DEF Spec, SwitchObeysClicks
=============================================================================
