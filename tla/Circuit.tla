------------------------------ MODULE Circuit ------------------------------
(***************************************************************************)
(* A circuit as the simulator sees it, and what the build derives from it: *)
(* the keys its signals are known by, the nets that wires merge ports      *)
(* into, and the order in which the scheduler runs the components          *)
(* (blueprint_v2/flattener, blueprint_v2/elaboration, core/solvers/jit).   *)
(*                                                                         *)
(* The components are the five a user can drive or feed: Value, Switch,    *)
(* Slider, HoldButton and KnobSwitch.  A port is <<device, port name>>;    *)
(* a circuit is a record                                                   *)
(*   devices  the names, in document order                                 *)
(*   kind     the component class of each name                             *)
(*   param    Value: value; Switch: closed; KnobSwitch: initial_position   *)
(*   wires    the pairs of ports, in document order                        *)
(*   ok       FALSE when the build throws std::runtime_error               *)
(***************************************************************************)
EXTENDS Integers, Sequences, FiniteSets, SequencesExt, Lists

CONSTANT Circuits

\* The interface of each class, in the order of its blueprint in src/library.
PortNames ==
    [Value      |-> <<"o">>,
     Switch     |-> <<"control", "state", "v_in", "v_out">>,
     Slider     |-> <<"control", "out">>,
     HoldButton |-> <<"control", "state", "v_in", "v_out">>,
     KnobSwitch |-> <<"wiper", "throw1", "throw2", "throw3", "throw4", "throw5",
                      "control", "position">>]

OutputPorts == [Value |-> {"o"}, Switch |-> {"state", "v_out"}, Slider |-> {"out"},
                HoldButton |-> {"state", "v_out"}, KnobSwitch |-> {"position"}]

\* scheduler_role: "None" components are run by the electrical solver only.
Role == [Value |-> "Source", Switch |-> "Consumer", Slider |-> "Consumer",
         HoldButton |-> "None", KnobSwitch |-> "None"]

Ports(c) == UNION {{<<n, p>> : p \in ToSet(PortNames[c.kind[n]])} : n \in ToSet(c.devices)}

\* Names are unique, classes are known, and a document whose wires lead anywhere
\* else than to ports does not build.
ASSUME CircuitsAssumption ==
    \A c \in Circuits :
        /\ c.devices \in Seq(ToSet(c.devices)) /\ IsInjective(c.devices)
        /\ c.kind \in [ToSet(c.devices) -> DOMAIN PortNames]
        /\ c.param \in [ToSet(c.devices) -> Int]
        /\ c.ok => c.wires \in Seq(Ports(c) \X Ports(c))

DevicesWith(c, role) == Among(c.devices, {n \in ToSet(c.devices) : Role[c.kind[n]] = role})

-----------------------------------------------------------------------------
\* The signal keys of a build in the order they are interned: ids are positions.
KeysOf(c) ==
    FlattenSeq([i \in DOMAIN c.devices |->
        LET n == c.devices[i]
            names == PortNames[c.kind[n]]
        IN [j \in DOMAIN names |-> <<n, names[j]>>]])

Keys == [c \in Circuits |-> KeysOf(c)]

\* StringInterner::lookup: 0 is the empty id.
Lookup(c, port) == SelectInSeq(Keys[c], LAMBDA k : k = port)

\* port_to_signal: every port starts alone and each wire merges two classes.
NetsOf(c) ==
    LET merged[i \in 0..Len(c.wires)] ==
            IF i = 0 THEN [p \in ToSet(Keys[c]) |-> Lookup(c, p)]
            ELSE LET net == merged[i - 1]
                     wire == c.wires[i]
                 IN [p \in DOMAIN net |-> IF net[p] = net[wire[2]] THEN net[wire[1]] ELSE net[p]]
    IN merged[Len(c.wires)]

Net == [c \in Circuits |-> NetsOf(c)]

Nets(c) == {Net[c][p] : p \in DOMAIN Net[c]}

-----------------------------------------------------------------------------
Writes(c, n) == {Net[c][<<n, p>>] : p \in OutputPorts[c.kind[n]]}
Reads(c, n) == {Net[c][<<n, p>>] : p \in ToSet(PortNames[c.kind[n]]) \ OutputPorts[c.kind[n]]}

\* r must run after w: it reads a signal that w writes.
Before(c, w, r) == w # r /\ Writes(c, w) \cap Reads(c, r) # {}

\* Mutant: the consumers run in document order.
SortConsumersNot(c) == DevicesWith(c, "Consumer")

Writers(c, r) == {w \in ToSet(DevicesWith(c, "Consumer")) : Before(c, w, r)}

\* The first ready consumer is sorted and lets go those it was the last writer of.
TakeReady(c, all, s) ==
    IF s.ready = <<>> THEN s
    ELSE LET current == Head(s.ready)
             sorted == Append(s.sorted, current)
             released == {r \in ToSet(all) : current \in Writers(c, r) /\ Writers(c, r) \subseteq ToSet(sorted)}
         IN [ready |-> Tail(s.ready) \o Among(all, released), sorted |-> sorted]

\* Kahn's algorithm with a FIFO of ready consumers; what is left when the queue
\* runs dry lies on or behind a cycle and is appended in document order.
SortConsumers(c) ==
    LET all == DevicesWith(c, "Consumer")
        kahn[i \in 0..Len(all)] ==
            IF i = 0 THEN [ready |-> Among(all, {r \in ToSet(all) : Writers(c, r) = {}}), sorted |-> <<>>]
            ELSE TakeReady(c, all, kahn[i - 1])
        done == kahn[Len(all)].sorted
    IN done \o Among(all, ToSet(all) \ ToSet(done))

Consumers == [c \in Circuits |-> SortConsumers(c)]

\* The orders the solver-owned components may be visited in: an unordered_map.
OwnedOrders(c) == SetToSeqs(ToSet(DevicesWith(c, "None")))

-----------------------------------------------------------------------------
\* The consumers that no cycle holds up: the largest set of which every member
\* has all its writers in the set, reached from those that have none.
OnOrBehindCycle(c) ==
    LET all == ToSet(DevicesWith(c, "Consumer"))
    IN UNION {T \in SUBSET all : \A r \in T : \E w \in T : Before(c, w, r)}
=============================================================================
